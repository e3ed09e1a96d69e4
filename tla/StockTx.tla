------------------------------ MODULE StockTx ------------------------------
(***************************************************************************)
(* The stock and order requests of StockFlow as the database sees them:    *)
(* concurrent READ COMMITTED transactions that check the catalogue, take   *)
(* row locks (SELECT ... FOR UPDATE), compute new balances in Python from  *)
(* the rows they read, and write those balances back when they commit.     *)
(*                                                                         *)
(* Each worker serves one request at a time in one session.  A request     *)
(* goes through the stages                                                 *)
(*                                                                         *)
(*   idle -> catalogue -> select -> lock -> insert -> commit -> idle        *)
(*   idle -> order ------> select -> lock ----------> commit -> idle        *)
(*                                                                         *)
(* skipping those its operation has no use for; it ends early, with a       *)
(* rollback, when a check refuses it or the connection is lost.             *)
(*                                                                         *)
(* Committed changes implement StockBook.                                   *)
(***************************************************************************)
EXTENDS Integers, Sequences, FiniteSets

CONSTANTS
    Products, Warehouses, Orders, Quantities, OrderForms,
    MaxInt, MaxMovements, NoRef,    \* as in StockBook
    Workers,        \* sessions that serve requests concurrently
    Forms,          \* the requests that may arrive
    Users,          \* authenticated users
    Role,           \* UserRole of each user
    Nobody,         \* no worker: a lock that is free
    Absent,         \* a balance that has no row
    NoForm,         \* the request of an idle worker
    MaxRequests     \* bound: so many requests arrive

\* Ids are integers: the order of row locks is their order.
ASSUME IdsAssumption == Products \subseteq Nat /\ Warehouses \subseteq Nat

\* The server runs finitely many sessions, and the marks are none of what they mark.
ASSUME SessionsAssumption ==
    /\ IsFiniteSet(Workers) /\ Nobody \notin Workers
    /\ NoForm \notin Forms
    /\ Absent \notin [on_hand : 0..MaxInt, reserved : Nat]

ASSUME RoleAssumption == Role \in [Users -> {"ADMIN", "WAREHOUSE_MANAGER", "EMPLOYEE"}]

\* Every request that arrives fits in the journal.
ASSUME RequestsAssumption ==
    /\ MaxRequests \in Nat
    /\ 2 * MaxRequests <= MaxMovements
    /\ \A items \in OrderForms : MaxRequests * Len(items) <= MaxMovements

Slots == Products \X Warehouses

\* The requests that reach a service: what the schemas admit, from a user whose
\* role the route requires.  (That the actor of a stock request is a manager does
\* not show: nothing in the book depends on who it is.)
StockForm == [op : {"receive"}, slot : Slots, quantity : Quantities]
             \cup [op : {"adjust"}, slot : Slots,
                   quantity : Quantities \cup {-q : q \in Quantities}]

TransferForm ==
    {f \in [op : {"transfer"}, product : Products, from : Warehouses, to : Warehouses,
            quantity : Quantities] : f.from # f.to}

CreateForm == [op : {"create"}, items : OrderForms, actor : Users]

OrderManager == {u \in Users : Role[u] # "EMPLOYEE"}

TransitionForm ==
    [op : {"confirm", "process", "ship", "complete"}, order : Orders, actor : OrderManager]
    \cup [op : {"cancel"}, order : Orders, actor : Users]

ASSUME FormsAssumption ==
    Forms \subseteq StockForm \cup TransferForm \cup CreateForm \cup TransitionForm

VARIABLES
    (* the database *)
    row,        \* the row of each slot: its balance, or Absent
    status,     \* Order.status, or "NONE"
    lines,      \* Order.items
    owner,      \* Order.created_by
    movements,  \* stock_movements
    active,     \* the products that are active
    rowLock,    \* who locks the row of a slot, or is inserting it
    orderLock,  \* who locks an order
    (* the sessions *)
    pc,         \* stage of each worker
    form,       \* the request it serves
    wanted,     \* rows its SELECT ... FOR UPDATE has found and not locked yet
    copy,       \* the balances its session holds
    begun       \* how many requests have arrived

database == <<row, status, lines, owner, movements>>
locks == <<rowLock, orderLock>>
vars == <<row, status, lines, owner, movements, active, rowLock, orderLock,
          pc, form, wanted, copy, begun>>

Balance == [on_hand : 0..MaxInt, reserved : Nat]

NoStock == [on_hand |-> 0, reserved |-> 0]

Nothing == <<>>     \* a session that holds no balance

OnHand == [s \in Slots |-> IF row[s] = Absent THEN 0 ELSE row[s].on_hand]
Reserved == [s \in Slots |-> IF row[s] = Absent THEN 0 ELSE row[s].reserved]

\* What these changes mean when each happens in one step.
Book == INSTANCE StockBook WITH on_hand <- OnHand, reserved <- Reserved

ASSUME BookAssumption ==
    /\ Book!QuantitiesAssumption /\ Book!OrderFormsAssumption
    /\ Book!MaxIntAssumption /\ Book!MaxMovementsAssumption

Holding == Book!Holding

StockOps == {"receive", "adjust", "transfer"}

----------------------------------------------------------------------------
(* What a request asks for *)

\* The balances a request works on.
Touches(f) ==
    CASE f.op \in {"receive", "adjust"} -> {f.slot}
      [] f.op = "transfer" -> {<<f.product, f.from>>, <<f.product, f.to>>}
      [] f.op \in {"confirm", "process", "ship", "complete", "cancel"} ->
             {lines[f.order][i].slot : i \in DOMAIN lines[f.order]}

ProductsOf(f) ==
    CASE f.op \in {"receive", "adjust"} -> {f.slot[1]}
      [] f.op = "transfer" -> {f.product}
      [] f.op = "create" -> {f.items[i].slot[1] : i \in DOMAIN f.items}

\* Permission and status checks of the order services, made on the locked order.
Admits(f) ==
    LET current == status[f.order] IN
    CASE f.op = "confirm"  -> current = "PENDING"
      [] f.op = "process"  -> current = "CONFIRMED"
      [] f.op = "ship"     -> current = "PROCESSING"
      [] f.op = "complete" -> current = "SHIPPED"
      [] f.op = "cancel"   ->
             /\ current \in {"PENDING"} \cup Holding
             /\ Role[f.actor] = "EMPLOYEE"
                    => owner[f.order] = f.actor /\ current = "PENDING"

\* Mutant: cancelling an order in process forgets its reservation.
NeedsStockUnlessProcessing(f) ==
    \/ f.op \in {"confirm", "ship"}
    \/ f.op = "cancel" /\ status[f.order] = "CONFIRMED"

\* Confirming, shipping and giving back a reservation need the balances.
NeedsStock(f) ==
    \/ f.op \in {"confirm", "ship"}
    \/ f.op = "cancel" /\ status[f.order] \in Holding

\* What a request adds to quantity_on_hand and quantity_reserved of a slot.
OnHandChange(f, s) ==
    CASE f.op \in {"receive", "adjust"} -> IF s = f.slot THEN f.quantity ELSE 0
      [] f.op = "transfer" -> IF s = <<f.product, f.from>> THEN -f.quantity
                              ELSE IF s = <<f.product, f.to>> THEN f.quantity ELSE 0
      [] f.op = "ship" -> -Book!Ordered(lines[f.order], s)
      [] OTHER -> 0

ReservedChange(f, s) ==
    CASE f.op = "confirm" -> Book!Ordered(lines[f.order], s)
      [] f.op \in {"ship", "cancel"} -> -Book!Ordered(lines[f.order], s)
      [] OTHER -> 0

\* The journal rows it adds.
JournalOf(f) ==
    CASE f.op = "receive" -> Book!Entry("RECEIVE", f.slot, f.quantity)
      [] f.op = "adjust" -> Book!Entry("ADJUSTMENT", f.slot, f.quantity)
      [] f.op = "transfer" ->
             Book!TransferMovements(<<f.product, f.from>>, <<f.product, f.to>>, f.quantity)
      [] f.op = "confirm" -> Book!OrderMovements(f.order, "RESERVE", -1)
      [] f.op = "ship" -> Book!OrderMovements(f.order, "SHIPMENT", -1)
      [] f.op = "cancel" /\ status[f.order] \in Holding ->
             Book!OrderMovements(f.order, "RELEASE", 1)
      [] OTHER -> <<>>

NextStatus(f) ==
    CASE f.op = "confirm"  -> "CONFIRMED"
      [] f.op = "process"  -> "PROCESSING"
      [] f.op = "ship"     -> "SHIPPED"
      [] f.op = "complete" -> "COMPLETED"
      [] f.op = "cancel"   -> "CANCELLED"

----------------------------------------------------------------------------
(* Sessions *)

Goto(w, stage) == pc' = [pc EXCEPT ![w] = stage]

\* The session ends and the database drops its locks, whether it committed or
\* rolled back.
Close(w) ==
    /\ Goto(w, "idle")
    /\ form' = [form EXCEPT ![w] = NoForm]
    /\ wanted' = [wanted EXCEPT ![w] = {}]
    /\ copy' = [copy EXCEPT ![w] = Nothing]
    /\ rowLock' = [s \in Slots |-> IF rowLock[s] = w THEN Nobody ELSE rowLock[s]]
    /\ orderLock' = [o \in Orders |-> IF orderLock[o] = w THEN Nobody ELSE orderLock[o]]

\* Mutant: the session is returned with its transaction still open.
RollbackForgotten(w) ==
    /\ Goto(w, "idle")
    /\ form' = [form EXCEPT ![w] = NoForm]
    /\ wanted' = [wanted EXCEPT ![w] = {}]
    /\ copy' = [copy EXCEPT ![w] = Nothing]
    /\ UNCHANGED <<database, active, locks, begun>>

\* An error response: nothing of the request remains.
Rollback(w) ==
    /\ Close(w)
    /\ UNCHANGED <<database, active, begun>>

\* A request arrives.  There must be an order id left for one that creates an
\* order (Orders is finite here, the sequence behind orders.id is not).
Begin(w, f) ==
    /\ pc[w] = "idle"
    /\ begun < MaxRequests
    /\ f.op = "create" =>
           Cardinality({o \in Orders : status[o] = "NONE"})
               > Cardinality({x \in Workers : form[x] # NoForm /\ form[x].op = "create"})
    /\ Goto(w, IF f.op \in StockOps \cup {"create"} THEN "catalogue" ELSE "order")
    /\ form' = [form EXCEPT ![w] = f]
    /\ begun' = begun + 1
    /\ UNCHANGED <<database, active, locks, wanted, copy>>

\* _require_product, and the first half of create_order: inactive products are
\* refused.  The products are not locked.
ReadCatalogue(w) ==
    /\ pc[w] = "catalogue"
    /\ IF ProductsOf(form[w]) \subseteq active
       THEN /\ Goto(w, IF form[w].op = "create" THEN "commit" ELSE "select")
            /\ UNCHANGED <<database, active, locks, form, wanted, copy, begun>>
       ELSE Rollback(w)

\* Mutant: the order is read without FOR UPDATE.
LockOrderNot(w) ==
    /\ pc[w] = "order"
    /\ IF status[form[w].order] # "NONE" /\ Admits(form[w])
       THEN /\ Goto(w, IF NeedsStock(form[w]) THEN "select" ELSE "commit")
            /\ UNCHANGED <<database, active, locks, form, wanted, copy, begun>>
       ELSE Rollback(w)

\* _lock_order, then the checks on the order it returns.
LockOrder(w) ==
    LET o == form[w].order IN
    /\ pc[w] = "order"
    /\ IF status[o] = "NONE"
       THEN Rollback(w)
       ELSE /\ orderLock[o] = Nobody
            /\ IF Admits(form[w])
               THEN /\ orderLock' = [orderLock EXCEPT ![o] = w]
                    /\ Goto(w, IF NeedsStock(form[w]) THEN "select" ELSE "commit")
                    /\ UNCHANGED <<database, active, rowLock, form, wanted, copy, begun>>
               ELSE Rollback(w)

\* SELECT ... FOR UPDATE starts: its snapshot holds the rows that are committed
\* now.
Select(w) ==
    /\ pc[w] = "select"
    /\ wanted' = [wanted EXCEPT ![w] = {s \in Touches(form[w]) : row[s] # Absent}]
    /\ Goto(w, "lock")
    /\ UNCHANGED <<database, active, locks, form, copy, begun>>

\* ORDER BY warehouse_id, product_id.
Before(s, t) == s[2] < t[2] \/ (s[2] = t[2] /\ s[1] < t[1])

AnyOf(slots) == slots  \* mutant: rows locked in no particular order

FirstOf(slots) == {s \in slots : \A t \in slots \ {s} : Before(s, t)}

\* What a session holds once it also holds the balance of slot s.
WithBalance(held, s, balance) ==
    [t \in DOMAIN held \cup {s} |-> IF t = s THEN balance ELSE held[t]]

\* Mutant: the row is read without FOR UPDATE.
LockRowNot(w, s) ==
    /\ pc[w] = "lock"
    /\ s \in FirstOf(wanted[w])
    /\ copy' = [copy EXCEPT ![w] = WithBalance(@, s, row[s])]
    /\ wanted' = [wanted EXCEPT ![w] = @ \ {s}]
    /\ UNCHANGED <<database, active, locks, pc, form, begun>>

\* It locks them one at a time, in that order, waiting for whoever holds one, and
\* returns each as it is once it is locked.
LockRow(w, s) ==
    /\ pc[w] = "lock"
    /\ s \in FirstOf(wanted[w])
    /\ rowLock[s] = Nobody
    /\ rowLock' = [rowLock EXCEPT ![s] = w]
    /\ copy' = [copy EXCEPT ![w] = WithBalance(@, s, row[s])]
    /\ wanted' = [wanted EXCEPT ![w] = @ \ {s}]
    /\ UNCHANGED <<database, active, orderLock, pc, form, begun>>

\* The balance a session works with: that of a new row is zero.
BalanceOf(w, s) == IF s \in DOMAIN copy[w] THEN copy[w][s] ELSE NoStock

AvailableTo(w, s) == BalanceOf(w, s).on_hand - BalanceOf(w, s).reserved

\* adjust_stock: a correction may not go below what is reserved.
AdjustmentFitsUnreserved(w, f) == BalanceOf(w, f.slot).on_hand + f.quantity >= 0  \* mutant

AdjustmentFits(w, f) ==
    BalanceOf(w, f.slot).on_hand + f.quantity >= BalanceOf(w, f.slot).reserved

\* transfer_stock: the source must have a row, and enough of it available.
TransferFits(w, f) ==
    LET source == <<f.product, f.from>> IN
    source \in DOMAIN copy[w] /\ AvailableTo(w, source) >= f.quantity

\* confirm_order: every line must be available; a missing row counts as zero.
ReservationFits(w, items) ==
    \A i \in DOMAIN items : AvailableTo(w, items[i].slot) >= items[i].quantity

\* cancel_order and ship_order: else RESERVATION_INVALID.
ReleaseFits(w, items) ==
    \A i \in DOMAIN items :
        /\ items[i].slot \in DOMAIN copy[w]
        /\ BalanceOf(w, items[i].slot).reserved >= items[i].quantity

ShipmentFits(w, items) ==
    /\ ReleaseFits(w, items)
    /\ \A i \in DOMAIN items : BalanceOf(w, items[i].slot).on_hand >= items[i].quantity

\* The checks of the services on the balances they locked.
Accepts(w) ==
    LET f == form[w] IN
    CASE f.op = "receive"  -> TRUE
      [] f.op = "adjust"   -> AdjustmentFits(w, f)
      [] f.op = "transfer" -> TransferFits(w, f)
      [] f.op = "confirm"  -> ReservationFits(w, lines[f.order])
      [] f.op = "ship"     -> ShipmentFits(w, lines[f.order])
      [] f.op = "cancel"   -> ReleaseFits(w, lines[f.order])

\* The new balance of a slot, computed from what the session read.
NewBalance(w, s) ==
    [on_hand |-> BalanceOf(w, s).on_hand + OnHandChange(form[w], s),
     reserved |-> BalanceOf(w, s).reserved + ReservedChange(form[w], s)]

Missing(w) == Touches(form[w]) \ DOMAIN copy[w]

\* The rows are locked: the service decides.  A balance that no INTEGER column
\* holds is an error of the flush, answered with a rollback too.
Decide(w) ==
    /\ pc[w] = "lock"
    /\ wanted[w] = {}
    /\ IF /\ Accepts(w)
          /\ \A s \in Touches(form[w]) : NewBalance(w, s).on_hand <= MaxInt
       THEN /\ Goto(w, IF Missing(w) = {} THEN "commit" ELSE "insert")
            /\ UNCHANGED <<database, active, locks, form, wanted, copy, begun>>
       ELSE Rollback(w)

\* Mutant: an upsert in place of an insert that fails.
InsertOver(w, s) ==
    /\ pc[w] = "insert"
    /\ s \in Missing(w)
    /\ rowLock[s] = Nobody
    /\ rowLock' = [rowLock EXCEPT ![s] = w]
    /\ copy' = [copy EXCEPT ![w] = WithBalance(@, s, NoStock)]
    /\ Goto(w, "commit")
    /\ UNCHANGED <<database, active, orderLock, form, wanted, begun>>

\* The flush inserts the missing row.  The unique index makes it wait while
\* another session inserts the same row, and fail once there is one
\* (IntegrityError, answered with INVENTORY_CONFLICT).
Insert(w, s) ==
    /\ pc[w] = "insert"
    /\ s \in Missing(w)
    /\ IF row[s] # Absent
       THEN Rollback(w)
       ELSE /\ rowLock[s] = Nobody
            /\ rowLock' = [rowLock EXCEPT ![s] = w]
            /\ copy' = [copy EXCEPT ![w] = WithBalance(@, s, NoStock)]
            /\ Goto(w, "commit")
            /\ UNCHANGED <<database, active, orderLock, form, wanted, begun>>

\* The order row, its lines and its author become visible together.
CommitNewOrder(w) ==
    /\ pc[w] = "commit"
    /\ form[w].op = "create"
    /\ \E o \in Orders :
          /\ status[o] = "NONE"
          /\ status' = [status EXCEPT ![o] = "PENDING"]
          /\ lines' = [lines EXCEPT ![o] = form[w].items]
          /\ owner' = [owner EXCEPT ![o] = form[w].actor]
    /\ UNCHANGED <<row, movements, active, begun>>
    /\ Close(w)

\* The balances are written as the session computed them, not as increments.
CommitStock(w) ==
    /\ pc[w] = "commit"
    /\ form[w].op # "create"
    /\ row' = [s \in Slots |-> IF s \in DOMAIN copy[w] THEN NewBalance(w, s) ELSE row[s]]
    /\ movements' = movements \o JournalOf(form[w])
    /\ status' = IF form[w].op \in StockOps THEN status
                 ELSE [status EXCEPT ![form[w].order] = NextStatus(form[w])]
    /\ UNCHANGED <<lines, owner, active, begun>>
    /\ Close(w)

\* The server process or its connection to the database goes away, or a statement
\* is cancelled, before the commit.
Abort(w) ==
    /\ pc[w] # "idle"
    /\ Rollback(w)

\* update_product and deactivate_product: a manager switches a product off or on
\* while requests are under way.
SetActive(p) ==
    /\ active' = IF p \in active THEN active \ {p} ELSE active \cup {p}
    /\ UNCHANGED <<database, locks, pc, form, wanted, copy, begun>>

----------------------------------------------------------------------------
Init ==
    /\ row = [s \in Slots |-> Absent]
    /\ status = [o \in Orders |-> "NONE"]
    /\ lines = [o \in Orders |-> <<>>]
    /\ owner = [o \in Orders |-> Nobody]
    /\ movements = <<>>
    /\ active = Products
    /\ rowLock = [s \in Slots |-> Nobody]
    /\ orderLock = [o \in Orders |-> Nobody]
    /\ pc = [w \in Workers |-> "idle"]
    /\ form = [w \in Workers |-> NoForm]
    /\ wanted = [w \in Workers |-> {}]
    /\ copy = [w \in Workers |-> Nothing]
    /\ begun = 0

\* One step of a request under way.
Step(w) ==
    \/ ReadCatalogue(w)
    \/ LockOrder(w)
    \/ Select(w)
    \/ \E s \in Slots : LockRow(w, s)
    \/ Decide(w)
    \/ \E s \in Slots : Insert(w, s)
    \/ CommitNewOrder(w)
    \/ CommitStock(w)

Next ==
    \/ \E w \in Workers :
          \/ \E f \in Forms : Begin(w, f)
          \/ Step(w)
          \/ Abort(w)
    \/ \E p \in Products : SetActive(p)

Spec == Init /\ [][Next]_vars

\* Requests run to their end.  A wait for a row lock ends once the lock is free
\* often enough: PostgreSQL queues the waiters of a row.
FairSpec == Spec /\ \A w \in Workers : SF_vars(Step(w))

----------------------------------------------------------------------------
(* Properties *)

(***************************************************************************)
(* Variables are typed, and a stored balance satisfies the CHECK           *)
(* constraints of its table.                                               *)
(***************************************************************************)
TypeOK ==
    /\ \A s \in Slots :
          row[s] # Absent => /\ row[s] \in Balance
                             /\ row[s].reserved <= row[s].on_hand
    /\ status \in [Orders -> Book!OrderStatus \cup {"NONE"}]
    /\ active \subseteq Products
    /\ rowLock \in [Slots -> Workers \cup {Nobody}]
    /\ orderLock \in [Orders -> Workers \cup {Nobody}]
    /\ \A w \in Workers :
          /\ pc[w] \in {"idle", "catalogue", "order", "select", "lock", "insert", "commit"}
          /\ form[w] \in Forms \cup {NoForm}
          /\ pc[w] = "idle" <=> form[w] = NoForm
          /\ wanted[w] \subseteq Slots
          /\ DOMAIN copy[w] \subseteq Slots

(***************************************************************************)
(* No session ever computes from a stale balance: what it read is what is  *)
(* stored, until it writes it back.  Balances are written as absolute      *)
(* values, so a stale copy would undo another request's change.            *)
(***************************************************************************)
CopiesAreCurrent ==
    \A w \in Workers : \A s \in DOMAIN copy[w] :
        copy[w][s] = IF row[s] = Absent THEN NoStock ELSE row[s]

(***************************************************************************)
(* Requests never wait for one another in a circle: whichever are waiting, *)
(* one of them waits for a request that is not.  This is what the ordered  *)
(* locking of both repositories is for.                                    *)
(***************************************************************************)
Blockers(w) ==
    IF pc[w] = "order" THEN {orderLock[form[w].order]} \ {Nobody}
    ELSE IF pc[w] = "lock" THEN {rowLock[s] : s \in FirstOf(wanted[w])} \ {Nobody}
    ELSE IF pc[w] = "insert"
         THEN {rowLock[s] : s \in {t \in Missing(w) : row[t] = Absent}} \ {Nobody}
    ELSE {}

NoWaitCycle ==
    \A waiting \in (SUBSET Workers) \ {{}} :
        \E w \in waiting : Blockers(w) \cap waiting = {}

(***************************************************************************)
(* Whatever the interleaving, and wherever requests are lost, the committed *)
(* changes are changes of the book: each request happens as one step or    *)
(* not at all.                                                             *)
(***************************************************************************)
ImplementsBook == Book!Spec

(***************************************************************************)
(* An employee cancels an order of their own only, and only while it is    *)
(* pending, even when a manager confirms it at the same moment.            *)
(***************************************************************************)
EmployeesCancelOwnPending ==
    [][\A w \in Workers :
          (/\ CommitStock(w)
           /\ form[w].op = "cancel"
           /\ Role[form[w].actor] = "EMPLOYEE")
              => /\ status[form[w].order] = "PENDING"
                 /\ owner[form[w].order] = form[w].actor]_vars

(***************************************************************************)
(* Every request is answered.                                              *)
(***************************************************************************)
Answered == \A w \in Workers : pc[w] # "idle" ~> pc[w] = "idle"

(***************************************************************************)
(* docs/inventory.md: "Inactive products cannot receive inventory          *)
(* changes."  Taken kindly: a stock request that was under way when its    *)
(* product was switched off may still finish.                              *)
(***************************************************************************)
InactiveStockIsFrozen ==
    [][(\A w \in Workers : form[w] # NoForm => form[w].op \notin StockOps)
           => \A s \in Slots : s[1] \notin active => row'[s] = row[s]]_vars

=============================================================================
