----------------------------- MODULE CatalogTx -----------------------------
(***************************************************************************)
(* The requests that change the catalogue of StockFlow (warehouses and     *)
(* products) against the requests that use it (stock changes and new       *)
(* orders), as concurrent READ COMMITTED transactions.  Nothing here takes *)
(* a lock on a catalogue row by itself: what keeps the tables consistent   *)
(* are the locks PostgreSQL takes for UPDATE and DELETE, for a foreign key *)
(* (KEY SHARE on the row referred to) and for a unique index.              *)
(*                                                                         *)
(*   create           claim -> commit -> reload                            *)
(*   update    read -> write -> claim -> commit -> reload                  *)
(*   delete    read -> count -> write -> restrict -> (probe) | commit      *)
(*   stock     read -> select -> lock -> insert -> refer -> commit -> reload *)
(*   order     read -> refer -> commit -> reload                           *)
(*                                                                         *)
(* What the balances and the order statuses do with it is StockTx's.       *)
(***************************************************************************)
EXTENDS Integers, Sequences, FiniteSets

CONSTANTS
    Warehouses, Products, Start, StartStocked, Unborn, Deleted,     \* as in CatalogBook
    Forms,          \* the requests that may arrive, codes and SKUs as typed
    Normal,         \* the stored form of each code or SKU that may be typed
    Workers,        \* sessions that serve requests concurrently
    Nobody,         \* no worker: a lock that is free
    NoForm,         \* the request of an idle worker
    MaxRequests     \* bound: so many requests arrive

\* Ids are integers: the order of row locks is their order.
ASSUME CatalogIdsAssumption ==
    Products \subseteq Nat /\ Warehouses \subseteq Nat /\ Products \cap Warehouses = {}

\* A stored code is its own stored form.
ASSUME NormalAssumption ==
    \A text \in DOMAIN Normal : Normal[text] \in DOMAIN Normal /\ Normal[Normal[text]] = Normal[text]

ASSUME CatalogBoundAssumption == MaxRequests \in Nat

\* The codes and SKUs that may be stored, and the rows of the two tables.  (A price
\* is a number of its smallest unit.)
Stored == {text \in DOMAIN Normal : Normal[text] = text}
WarehouseRow == [key : Stored]
ProductRow == [key : Stored, price : Nat, active : BOOLEAN]

\* The catalogue to begin with is one the tables can hold: each row has the columns
\* of its table, no product is gone, no code is used twice, and stock rows refer to
\* rows that are there.
ASSUME CatalogStartAssumption ==
    LET There == {i \in DOMAIN Start : Start[i] \notin {Unborn, Deleted}} IN
    /\ Start \in [Warehouses \cup Products -> WarehouseRow \cup ProductRow \cup {Unborn, Deleted}]
    /\ \A p \in Products : Start[p] # Deleted
    /\ \A i \in There : Start[i] \in IF i \in Products THEN ProductRow ELSE WarehouseRow
    /\ \A i, j \in There :
           i # j /\ (i \in Products <=> j \in Products) => Start[i].key # Start[j].key
    /\ StartStocked \subseteq (There \cap Products) \X (There \cap Warehouses)

\* The marks of an id without a row are no rows.
ASSUME CatalogMarksAssumption ==
    /\ Unborn # Deleted
    /\ \A mark \in {Unborn, Deleted} : mark \notin WarehouseRow /\ mark \notin ProductRow

VARIABLES
    (* the database *)
    row, stocked, orders, offered,  \* as in CatalogBook
    writer,     \* who has changed or deleted a catalogue row, not yet committed
    sharers,    \* who holds KEY SHARE on a catalogue row
    slotLock,   \* who locks an inventory row, or is inserting it
    (* the sessions *)
    pc,         \* stage of each worker
    form,       \* the request it serves
    todo,       \* the sets of rows its next SELECTs read
    seen,       \* identity map: the catalogue rows its session has read
    wanted,     \* what its statement has still to lock or insert
    lived,      \* history: the catalogue rows committed at some time of its request
    begun       \* how many requests have arrived

database == <<row, stocked, orders, offered>>
locks == <<writer, sharers, slotLock>>
vars == <<row, stocked, orders, offered, writer, sharers, slotLock,
          pc, form, todo, seen, wanted, lived, begun>>

----------------------------------------------------------------------------
(* Requests *)

\* Mutant: a code is stored as it is typed.
AsTyped(f) == f

\* The columns of a new row or of an update, the code or SKU in its stored form.
InStoredForm(columns) ==
    [x \in DOMAIN columns |-> IF x = "key" THEN Normal[columns[x]] ELSE columns[x]]

\* The schemas trim a code or SKU and turn it to upper case.
Normalised(f) ==
    CASE f.op = "create" -> [op |-> f.op, item |-> f.item, row |-> InStoredForm(f.row)]
      [] f.op = "update" -> [op |-> f.op, item |-> f.item, changes |-> InStoredForm(f.changes)]
      [] OTHER -> f

Book == INSTANCE CatalogBook WITH Requests <- {Normalised(f) : f \in Forms}

Items == Book!Items
Live(i) == Book!Live(i)

\* What the schemas and routes admit.  A new row comes with its key and, a product,
\* with all the rest.
CreateForm(f) ==
    \/ f \in [op : {"create"}, item : Warehouses, row : [key : DOMAIN Normal]]
    \/ f \in [op : {"create"}, item : Products,
              row : [key : DOMAIN Normal, price : Nat, active : BOOLEAN]]

\* An update names at least one field, and none is null.
UpdateForm(f) ==
    /\ f.op = "update"
    /\ f.item \in Items
    /\ DOMAIN f.changes \in
          (SUBSET IF f.item \in Products THEN {"key", "price", "active"} ELSE {"key"}) \ {{}}
    /\ "key" \in DOMAIN f.changes => f.changes.key \in DOMAIN Normal
    /\ "price" \in DOMAIN f.changes => f.changes.price \in Nat
    /\ "active" \in DOMAIN f.changes => f.changes.active \in BOOLEAN

\* Only warehouses are deleted (DELETE of a product is an update of "active").
DeleteForm(f) == f.op = "delete" /\ f.item \in Warehouses

\* A receipt or an adjustment has one slot; a transfer has two of one product and
\* needs its source.
StockForm(f) ==
    /\ f.op = "stock"
    /\ \/ f.slots \in {{s} : s \in Book!Slots} /\ f.needs = {}
       \/ \E s, t \in Book!Slots :
              s[1] = t[1] /\ s # t /\ f.slots = {s, t} /\ f.needs = {s}

OrderForm(f) == f.op = "order" /\ f.slots \in (SUBSET Book!Slots) \ {{}}

ASSUME CatalogFormsAssumption ==
    \A f \in Forms :
        CreateForm(f) \/ UpdateForm(f) \/ DeleteForm(f) \/ StockForm(f) \/ OrderForm(f)

\* The server runs finitely many sessions, and the marks are none of what they mark.
ASSUME CatalogSessionsAssumption ==
    /\ IsFiniteSet(Workers) /\ Nobody \notin Workers
    /\ \A f \in Forms : NoForm # Normalised(f)

\* The SELECTs a request begins with: get_by_id, or _require_product and
\* _require_warehouse, or get_products and get_warehouses.
Statements(f) ==
    CASE f.op = "create" -> <<>>
      [] f.op \in {"update", "delete"} -> <<{f.item}>>
      [] f.op = "stock" /\ f.needs = {} -> <<{s[1] : s \in f.slots}, {s[2] : s \in f.slots}>>
      [] f.op = "stock" /\ f.needs # {} ->
             <<{s[1] : s \in f.slots}, {s[2] : s \in f.needs}, {s[2] : s \in f.slots \ f.needs}>>
      [] f.op = "order" -> <<{s[1] : s \in f.slots}, {s[2] : s \in f.slots}>>

\* The fields of an update that differ from the row its session has read: the ones
\* its UPDATE names.
Written(w) == {x \in DOMAIN form[w].changes : form[w].changes[x] # seen[w][form[w].item][x]}

\* Whether it writes a unique code, and which.
Claims(w) ==
    \/ form[w].op = "create"
    \/ form[w].op = "update" /\ "key" \in Written(w)

KeyOf(w) == IF form[w].op = "create" THEN form[w].row.key ELSE form[w].changes.key

\* The rows a DELETE or a change of the unique code writes are locked against the
\* foreign keys too.
Exclusive(w) == form[w].op = "delete" \/ Claims(w)

----------------------------------------------------------------------------
(* Sessions *)

Goto(w, stage) == pc' = [pc EXCEPT ![w] = stage]

\* Mutant: a session, with the rows it has read, serves the next request too.
ReleaseKeepingRows(w) ==
    /\ writer' = [i \in Items |-> IF writer[i] = w THEN Nobody ELSE writer[i]]
    /\ sharers' = [i \in Items |-> sharers[i] \ {w}]
    /\ slotLock' = [s \in Book!Slots |-> IF slotLock[s] = w THEN Nobody ELSE slotLock[s]]
    /\ todo' = [todo EXCEPT ![w] = <<>>]
    /\ wanted' = [wanted EXCEPT ![w] = {}]
    /\ UNCHANGED seen

\* The transaction ends, and with it its locks; the session ends with the request.
Release(w) ==
    /\ writer' = [i \in Items |-> IF writer[i] = w THEN Nobody ELSE writer[i]]
    /\ sharers' = [i \in Items |-> sharers[i] \ {w}]
    /\ slotLock' = [s \in Book!Slots |-> IF slotLock[s] = w THEN Nobody ELSE slotLock[s]]
    /\ todo' = [todo EXCEPT ![w] = <<>>]
    /\ wanted' = [wanted EXCEPT ![w] = {}]
    /\ seen' = [seen EXCEPT ![w] = <<>>]

\* The request is answered.
Finish(w) ==
    /\ Goto(w, "idle")
    /\ form' = [form EXCEPT ![w] = NoForm]
    /\ lived' = [lived EXCEPT ![w] = {}]

\* An error response: nothing of the request remains.
Rollback(w) ==
    /\ Release(w)
    /\ Finish(w)
    /\ UNCHANGED <<database, begun>>

\* The rows committed now, to the histories of the requests under way.
Witnessed(rows) == {<<i, rows[i]>> : i \in Items}

\* A request arrives.  The sequence behind the ids gives a new row one of its own.
Begin(w, f) ==
    /\ pc[w] = "idle"
    /\ begun < MaxRequests
    /\ f.op = "create" =>
           /\ row[f.item] = Unborn
           /\ \A u \in Workers :
                 form[u] # NoForm /\ form[u].op = "create" => form[u].item # f.item
    /\ Goto(w, IF f.op = "create" THEN "claim" ELSE "read")
    /\ form' = [form EXCEPT ![w] = Normalised(f)]
    /\ todo' = [todo EXCEPT ![w] = Statements(f)]
    /\ lived' = [lived EXCEPT ![w] = Witnessed(row)]
    /\ begun' = begun + 1
    /\ UNCHANGED <<database, locks, seen, wanted>>

\* The rows its session has and the ones this SELECT adds.
WithRows(w, items) ==
    [i \in DOMAIN seen[w] \cup {j \in items : Live(j)} |->
        IF i \in DOMAIN seen[w] THEN seen[w][i] ELSE row[i]]

\* Not found, or an inactive product where that matters.
Refused(w, rows) ==
    LET asked == IF form[w].op \in {"stock", "order"} THEN Book!RefersTo(form[w].slots)
                 ELSE {form[w].item}
    IN  \E i \in asked \ UNION {todo[w][n] : n \in 2..Len(todo[w])} :
            \/ i \notin DOMAIN rows
            \/ form[w].op \in {"stock", "order"} /\ i \in Products /\ ~rows[i].active

\* One SELECT on the catalogue.  create_order looks at what it found after its two
\* SELECTs, the others after each.
Read(w) ==
    LET rows == WithRows(w, Head(todo[w]))
        last == Len(todo[w]) = 1
    IN
    /\ pc[w] = "read"
    /\ IF Refused(w, rows) /\ (form[w].op = "order" => last)
       THEN Rollback(w)
       ELSE /\ seen' = [seen EXCEPT ![w] = rows]
            /\ todo' = [todo EXCEPT ![w] = Tail(@)]
            /\ wanted' = [wanted EXCEPT ![w] =
                   IF last /\ form[w].op = "order" THEN Book!RefersTo(form[w].slots) ELSE {}]
            /\ Goto(w, IF ~last THEN "read"
                       ELSE CASE form[w].op = "update" -> "write"
                              [] form[w].op = "delete" -> "count"
                              [] form[w].op = "stock"  -> "select"
                              [] form[w].op = "order"  -> "refer")
            /\ UNCHANGED <<database, locks, form, lived, begun>>

----------------------------------------------------------------------------
(* Warehouses and products *)

StocksOf(i) == {s \in stocked : s[2] = i}

LinesOf(i) == {s \in UNION {DOMAIN orders[n] : n \in DOMAIN orders} : s[2] = i}

\* inventory_count.
Count(w) ==
    /\ pc[w] = "count"
    /\ IF StocksOf(form[w].item) # {}
       THEN Rollback(w)
       ELSE /\ Goto(w, "write")
            /\ UNCHANGED <<database, locks, form, todo, seen, wanted, lived, begun>>

\* An update that changes nothing is no statement, and a row that is gone is not found.
NothingToWrite(w) ==
    \/ form[w].op = "update" /\ Written(w) = {}
    \/ ~Live(form[w].item)

\* Who keeps a worker from writing its row.
WriteBlockers(w) ==
    LET i == form[w].item IN
    (IF Exclusive(w) THEN sharers[i] \ {w} ELSE {}) \cup ({writer[i]} \ {Nobody, w})

\* The UPDATE or DELETE of the row, once nobody holds a lock that conflicts.  When
\* another request has deleted the row, an UPDATE fails (StaleDataError) and a
\* DELETE goes on with nothing to do.
Write(w) ==
    LET i == form[w].item IN
    /\ pc[w] = "write"
    /\ IF NothingToWrite(w)
       THEN IF form[w].op = "update" /\ Written(w) # {}
            THEN Rollback(w)
            ELSE /\ Goto(w, "commit")
                 /\ UNCHANGED <<database, locks, form, todo, seen, wanted, lived, begun>>
       ELSE /\ WriteBlockers(w) = {}
            /\ writer' = [writer EXCEPT ![i] = w]
            /\ Goto(w, IF form[w].op = "delete" THEN "restrict"
                       ELSE IF Claims(w) THEN "claim" ELSE "commit")
            /\ UNCHANGED <<database, sharers, slotLock, form, todo, seen, wanted, lived, begun>>

\* The rows of the same table that hold the code a worker wants.
HoldersOfKey(w) ==
    {j \in Items \ {form[w].item} :
        Book!SameTable(j, form[w].item) /\ Live(j) /\ row[j].key = KeyOf(w)}

\* Who keeps the unique index from deciding: a writer of the row that holds the
\* code, or of another row that is to have it.
ClaimBlockers(w) ==
    ({writer[j] : j \in HoldersOfKey(w)} \ {Nobody, w})
    \cup {u \in Workers \ {w} :
             /\ pc[u] = "commit" /\ Claims(u)
             /\ Book!SameTable(form[u].item, form[w].item)
             /\ KeyOf(u) = KeyOf(w)}

\* Mutant: the code is looked up and not claimed (no unique index).
LookUp(w) ==
    /\ pc[w] = "claim"
    /\ IF HoldersOfKey(w) # {}
       THEN Rollback(w)
       ELSE /\ Goto(w, "commit")
            /\ UNCHANGED <<database, locks, form, todo, seen, wanted, lived, begun>>

\* Mutant: a code in use is tried again until it is free.
ClaimPatiently(w) ==
    /\ pc[w] = "claim"
    /\ ClaimBlockers(w) = {}
    /\ HoldersOfKey(w) = {}
    /\ Goto(w, "commit")
    /\ UNCHANGED <<database, locks, form, todo, seen, wanted, lived, begun>>

\* The unique index: WAREHOUSE_CODE_ALREADY_EXISTS, SKU_ALREADY_EXISTS.
Claim(w) ==
    /\ pc[w] = "claim"
    /\ ClaimBlockers(w) = {}
    /\ IF HoldersOfKey(w) # {}
       THEN Rollback(w)
       ELSE /\ Goto(w, "commit")
            /\ UNCHANGED <<database, locks, form, todo, seen, wanted, lived, begun>>

\* Mutant: the foreign keys do not restrict a deletion; only the count does.
RestrictNothing(w) ==
    /\ pc[w] = "restrict"
    /\ Goto(w, "commit")
    /\ UNCHANGED <<database, locks, form, todo, seen, wanted, lived, begun>>

\* The foreign keys look for rows that refer to the deleted warehouse, inventory
\* first.  They lock the row they find, and then fail.
Restrict(w) ==
    LET i == form[w].item IN
    /\ pc[w] = "restrict"
    /\ \/ \E s \in StocksOf(i) :
             /\ wanted' = [wanted EXCEPT ![w] = {s}]
             /\ Goto(w, "probe")
             /\ UNCHANGED <<database, locks, form, todo, seen, lived, begun>>
       \/ /\ StocksOf(i) = {} /\ LinesOf(i) # {}
          /\ Rollback(w)
       \/ /\ StocksOf(i) = {} /\ LinesOf(i) = {}
          /\ Goto(w, "commit")
          /\ UNCHANGED <<database, locks, form, todo, seen, wanted, lived, begun>>

Probe(w) ==
    /\ pc[w] = "probe"
    /\ \A s \in wanted[w] : slotLock[s] = Nobody
    /\ Rollback(w)

----------------------------------------------------------------------------
(* Stock and orders *)

\* SELECT ... FOR UPDATE on inventory: its snapshot holds the rows committed now.
Select(w) ==
    /\ pc[w] = "select"
    /\ wanted' = [wanted EXCEPT ![w] = form[w].slots \cap stocked]
    /\ Goto(w, "lock")
    /\ UNCHANGED <<database, locks, form, todo, seen, lived, begun>>

AnyOf(slots) == slots  \* mutant: the rows are locked in no particular order

\* ORDER BY warehouse_id.
FirstOf(slots) == {s \in slots : \A t \in slots : s[2] <= t[2]}

LockRow(w, s) ==
    /\ pc[w] = "lock"
    /\ s \in FirstOf(wanted[w])
    /\ slotLock[s] = Nobody
    /\ slotLock' = [slotLock EXCEPT ![s] = w]
    /\ wanted' = [wanted EXCEPT ![w] = @ \ {s}]
    /\ UNCHANGED <<database, writer, sharers, pc, form, todo, seen, lived, begun>>

Unlocked(w) == {s \in form[w].slots : slotLock[s] # w}

\* The locks are taken: a transfer must have found its source, and then the flush
\* begins.  (A request that the balances refuse ends here too: see Abort.)
Decide(w) ==
    /\ pc[w] = "lock"
    /\ wanted[w] = {}
    /\ IF Unlocked(w) \cap form[w].needs # {}
       THEN Rollback(w)
       ELSE /\ wanted' = [wanted EXCEPT ![w] =
                   IF Unlocked(w) # {} THEN Unlocked(w) ELSE Book!RefersTo(form[w].slots)]
            /\ Goto(w, IF Unlocked(w) # {} THEN "insert" ELSE "refer")
            /\ UNCHANGED <<database, locks, form, todo, seen, lived, begun>>

\* A missing inventory row is inserted under the unique index on the pair: the
\* second of two that insert it waits, and fails (INVENTORY_CONFLICT).
Insert(w, s) ==
    /\ pc[w] = "insert"
    /\ s \in wanted[w]
    /\ IF s \in stocked
       THEN Rollback(w)
       ELSE /\ slotLock[s] = Nobody
            /\ slotLock' = [slotLock EXCEPT ![s] = w]
            /\ LET left == wanted[w] \ {s} IN
               /\ wanted' = [wanted EXCEPT ![w] =
                      IF left # {} THEN left ELSE Book!RefersTo(form[w].slots)]
               /\ Goto(w, IF left # {} THEN "insert" ELSE "refer")
            /\ UNCHANGED <<database, writer, sharers, form, todo, seen, lived, begun>>

\* Who keeps a foreign key from being checked on a catalogue row.
ReferBlockers(w, i) == {u \in {writer[i]} \ {Nobody} : Exclusive(u)}

\* The rows inserted refer to catalogue rows: each is locked with KEY SHARE, once no
\* DELETE or change of its key is under way, and must be there (IntegrityError,
\* answered with INVENTORY_CONFLICT or ORDER_CONFLICT).
Refer(w, i) ==
    /\ pc[w] = "refer"
    /\ i \in wanted[w]
    /\ IF ~Live(i)
       THEN Rollback(w)
       ELSE /\ ReferBlockers(w, i) = {}
            /\ sharers' = [sharers EXCEPT ![i] = @ \cup {w}]
            /\ wanted' = [wanted EXCEPT ![w] = @ \ {i}]
            /\ Goto(w, IF wanted[w] = {i} THEN "commit" ELSE "refer")
            /\ UNCHANGED <<database, writer, slotLock, form, todo, seen, lived, begun>>

----------------------------------------------------------------------------
(* Commit *)

\* Mutant: an update writes its whole row back as it has read it.
EffectWholeRow(w) ==
    CASE form[w].op = "create" -> [row EXCEPT ![form[w].item] = form[w].row]
      [] form[w].op = "delete" -> [row EXCEPT ![form[w].item] = Deleted]
      [] form[w].op = "update" /\ Live(form[w].item) ->
             [row EXCEPT ![form[w].item] =
                 Book!Applied(seen[w][form[w].item], form[w].changes, Written(w))]
      [] OTHER -> row

\* The catalogue once a worker has committed.
Effect(w) ==
    CASE form[w].op = "create" -> [row EXCEPT ![form[w].item] = form[w].row]
      [] form[w].op = "delete" -> [row EXCEPT ![form[w].item] = Deleted]
      [] form[w].op = "update" /\ Live(form[w].item) ->
             [row EXCEPT ![form[w].item] = Book!Applied(@, form[w].changes, Written(w))]
      [] OTHER -> row

\* The changes become visible together.  All but a deletion go on to read back what
\* they have written, in a transaction of its own.  (Nor does deactivate_product,
\* which would find its row: products stay.)
Commit(w) ==
    /\ pc[w] = "commit"
    /\ row' = Effect(w)
    /\ stocked' = IF form[w].op = "stock" THEN stocked \cup form[w].slots ELSE stocked
    /\ orders' = IF form[w].op = "order"
                 THEN Append(orders, [s \in form[w].slots |-> seen[w][s[1]].price])
                 ELSE orders
    /\ offered' = offered \cup Book!Offers(row')
    /\ Release(w)
    /\ IF form[w].op = "delete"
       THEN Goto(w, "idle") /\ form' = [form EXCEPT ![w] = NoForm]
       ELSE Goto(w, "reload") /\ UNCHANGED form
    /\ lived' = [u \in Workers |->
           IF pc[u] \in {"idle", "reload"} \/ u = w THEN {}
           ELSE lived[u] \cup Witnessed(row')]
    /\ UNCHANGED begun

\* refresh and get_with_details read the committed rows back.  A row that is gone
\* by now is an internal error, after the commit.
Reload(w) ==
    /\ pc[w] = "reload"
    /\ Finish(w)
    /\ UNCHANGED <<database, locks, todo, seen, wanted, begun>>

\* The request ends before its commit: a balance does not allow it, the server
\* process or its connection goes away, or a statement is cancelled.
Abort(w) ==
    /\ pc[w] \notin {"idle", "reload"}
    /\ Rollback(w)

----------------------------------------------------------------------------
(* Waiting *)

\* Whom a worker waits for.
Blockers(w) ==
    CASE pc[w] = "write"  -> IF NothingToWrite(w) THEN {} ELSE WriteBlockers(w)
      [] pc[w] = "claim"  -> ClaimBlockers(w)
      [] pc[w] = "probe"  -> {slotLock[s] : s \in wanted[w]} \ {Nobody}
      [] pc[w] = "lock"   -> {slotLock[s] : s \in FirstOf(wanted[w])} \ {Nobody}
      [] pc[w] = "insert" -> {slotLock[s] : s \in wanted[w] \ stocked} \ {Nobody}
      [] pc[w] = "refer"  -> UNION {ReferBlockers(w, i) : i \in {j \in wanted[w] : Live(j)}}
      [] OTHER -> {}

\* Requests that wait for one another in a circle.
Circle(S) ==
    /\ S # {}
    /\ \E next \in [S -> S] :
          /\ \A x \in S : next[x] \in Blockers(x)
          /\ \A x, y \in S : next[x] = next[y] => x = y

\* The database's deadlock detector ends one of them (an error of the statement).
Victim(w) ==
    /\ \E S \in SUBSET Workers : w \in S /\ Circle(S)
    /\ Rollback(w)

----------------------------------------------------------------------------
Init ==
    /\ row = Start
    /\ stocked = StartStocked
    /\ orders = <<>>
    /\ offered = Book!Offers(Start)
    /\ writer = [i \in Items |-> Nobody]
    /\ sharers = [i \in Items |-> {}]
    /\ slotLock = [s \in Book!Slots |-> Nobody]
    /\ pc = [w \in Workers |-> "idle"]
    /\ form = [w \in Workers |-> NoForm]
    /\ todo = [w \in Workers |-> <<>>]
    /\ seen = [w \in Workers |-> <<>>]
    /\ wanted = [w \in Workers |-> {}]
    /\ lived = [w \in Workers |-> {}]
    /\ begun = 0

\* One step of a request under way.
Step(w) ==
    \/ Read(w)
    \/ Count(w)
    \/ Write(w)
    \/ Claim(w)
    \/ Restrict(w)
    \/ Probe(w)
    \/ Select(w)
    \/ \E s \in Book!Slots : LockRow(w, s)
    \/ Decide(w)
    \/ \E s \in Book!Slots : Insert(w, s)
    \/ \E i \in Items : Refer(w, i)
    \/ Commit(w)
    \/ Reload(w)

Next ==
    \E w \in Workers :
        \/ \E f \in Forms : Begin(w, f)
        \/ Step(w)
        \/ Abort(w)
        \/ Victim(w)

Spec == Init /\ [][Next]_vars

\* Requests run to their end, a lock that is free often enough is granted, and the
\* database finds the deadlocks.
FairSpec == Spec /\ \A w \in Workers : SF_vars(Step(w)) /\ WF_vars(Victim(w))

----------------------------------------------------------------------------
(* Properties *)

(***************************************************************************)
(* Variables are typed: a stored row has the columns of its table, and its *)
(* code or SKU is trimmed and in upper case, however it was typed and      *)
(* whichever request wrote it.                                             *)
(***************************************************************************)
TypeOK ==
    /\ \A i \in Items :
           Live(i) => row[i] \in IF i \in Products THEN ProductRow ELSE WarehouseRow
    /\ stocked \subseteq Book!Slots
    /\ writer \in [Items -> Workers \cup {Nobody}]
    /\ sharers \in [Items -> SUBSET Workers]
    /\ slotLock \in [Book!Slots -> Workers \cup {Nobody}]
    /\ \A w \in Workers :
          /\ pc[w] \in {"idle", "read", "count", "write", "claim", "restrict", "probe",
                        "select", "lock", "insert", "refer", "commit", "reload"}
          /\ pc[w] = "idle" <=> form[w] = NoForm
          /\ DOMAIN seen[w] \subseteq Items
          /\ wanted[w] \subseteq IF pc[w] = "refer" THEN Items ELSE Book!Slots

(***************************************************************************)
(* A stock row or an order line always has its warehouse and its product:  *)
(* a deletion that has counted no inventory, and a first receipt or a new  *)
(* order that has read the warehouse, never both succeed.                  *)
(***************************************************************************)
ReferencesHold ==
    \A i \in Book!RefersTo(stocked \cup UNION {DOMAIN orders[n] : n \in DOMAIN orders}) : Live(i)

(***************************************************************************)
(* No two warehouses have one code and no two products one SKU, however    *)
(* they are spelt and whichever requests race.                             *)
(***************************************************************************)
KeysUnique ==
    \A i, j \in {x \in Items : Live(x)} :
        (i # j /\ Book!SameTable(i, j)) => Normal[row[i].key] # Normal[row[j].key]

(***************************************************************************)
(* A request works with catalogue rows as they were at some time while it  *)
(* ran: a product that was switched off before it began, or a price that   *)
(* was gone by then, does not reach it.  (Nothing says that they are still *)
(* so when it commits: the code does not look again.)                      *)
(***************************************************************************)
ActsOnItsOwnTime ==
    \A w \in Workers :
        (pc[w] = "commit" /\ form[w].op \in {"stock", "order"}) =>
            \A p \in {s[1] : s \in form[w].slots} :
                \E r \in {x[2] : x \in {y \in lived[w] : y[1] = p}} :
                    /\ r \notin {Unborn, Deleted}
                    /\ r.active
                    /\ r.price = seen[w][p].price

(***************************************************************************)
(* Stock changes and new orders never wait for one another in a circle,    *)
(* nor with changes of other columns: a deadlock has in it a deletion or a *)
(* change of a code or SKU.                                                *)
(***************************************************************************)
DeadlocksNeedExclusive ==
    \A S \in SUBSET Workers : Circle(S) => \E w \in S : Exclusive(w)

(***************************************************************************)
(* The committed changes are changes of the catalogue book: each request   *)
(* happens as one step or not at all, and concurrent updates of one row    *)
(* never undo each other's fields.                                         *)
(***************************************************************************)
ImplementsBook == Book!Spec

(***************************************************************************)
(* Every request is answered, deadlocks included.                          *)
(***************************************************************************)
Answered == \A w \in Workers : pc[w] # "idle" ~> pc[w] = "idle"

=============================================================================
