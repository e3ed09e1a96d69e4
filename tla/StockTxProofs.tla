--------------------------- MODULE StockTxProofs ---------------------------
(***************************************************************************)
(* Proofs about StockTx, for every set of products, warehouses and orders, *)
(* any finite number of sessions and any requests.                         *)
(***************************************************************************)
EXTENDS StockTx, FiniteOrders, NaturalsInduction, TLAPS

----------------------------------------------------------------------------
(* The constants *)

TransitionOps == {"confirm", "process", "ship", "complete", "cancel"}

\* The lists of lines an order may have: none before it is created.
LineLists == OrderForms \cup {<<>>}

\* What each kind of request names.
LEMMA FormKinds ==
    ASSUME NEW f \in Forms
    PROVE  /\ f.op \in StockOps \cup {"create"} \cup TransitionOps
           /\ f.op \in {"receive", "adjust"} => f.slot \in Slots /\ f.quantity \in Int
           /\ f.op = "receive" => f.quantity \in Quantities
           /\ f.op = "adjust" => f.quantity \in Quantities \/ -f.quantity \in Quantities
           /\ f.op = "transfer" => /\ f.product \in Products
                                   /\ f.from \in Warehouses /\ f.to \in Warehouses
                                   /\ f.from # f.to
                                   /\ f.quantity \in Quantities
           /\ f.op = "create" => f.items \in OrderForms /\ f.actor \in Users
           /\ f.op \in TransitionOps => f.order \in Orders /\ f.actor \in Users
<1>1. Quantities \subseteq Nat \ {0}
  BY BookAssumption DEF Book!QuantitiesAssumption
<1>2. f \in StockForm \cup TransferForm \cup CreateForm \cup TransitionForm
  BY FormsAssumption
<1>3. CASE f \in StockForm
  <2>1. CASE f \in [op : {"receive"}, slot : Slots, quantity : Quantities]
    BY <1>1, <2>1 DEF StockOps, TransitionOps
  <2>2. CASE f \in [op : {"adjust"}, slot : Slots,
                   quantity : Quantities \cup {-q : q \in Quantities}]
    <3>1. f.op = "adjust" /\ f.slot \in Slots
      BY <2>2
    <3>2. f.quantity \in Quantities \cup {-q : q \in Quantities}
      BY <2>2
    <3>3. f.quantity \in Int /\ (f.quantity \in Quantities \/ -f.quantity \in Quantities)
      <4>1. CASE f.quantity \in Quantities
        <5>1. \A q \in Quantities : q \in Int
          BY <1>1
        <5>2. f.quantity \in Int
          BY <4>1, <5>1
        <5> QED
          BY <4>1, <5>2
      <4>2. CASE f.quantity \in {-q : q \in Quantities}
        <5>1. PICK q \in Quantities : f.quantity = -q
          BY <4>2
        <5>2. q \in Nat /\ -f.quantity = q
          BY <1>1, <5>1
        <5> QED
          BY <5>1, <5>2
      <4> QED
        BY <3>2, <4>1, <4>2
    <3> QED
      BY <3>1, <3>3 DEF StockOps, TransitionOps
  <2> QED
    BY <1>3, <2>1, <2>2 DEF StockForm
<1>4. CASE f \in TransferForm
  BY <1>1, <1>4 DEF TransferForm, StockOps, TransitionOps
<1>5. CASE f \in CreateForm
  BY <1>5 DEF CreateForm, StockOps, TransitionOps
<1>6. CASE f \in TransitionForm
  BY <1>6 DEF TransitionForm, OrderManager, StockOps, TransitionOps
<1> QED
  BY <1>2, <1>3, <1>4, <1>5, <1>6

\* A list of lines is a sequence of slots and positive quantities, no slot twice.
LEMMA LineFacts ==
    ASSUME NEW items \in LineLists, NEW i \in DOMAIN items
    PROVE  /\ items \in OrderForms
           /\ items[i].slot \in Slots
           /\ items[i].quantity \in Nat \ {0}
           /\ Book!Ordered(items, items[i].slot) = items[i].quantity
<1>1. items \in OrderForms
  BY DEF LineLists
<1>2. items \in Seq(Book!Line)
  BY <1>1, BookAssumption DEF Book!OrderFormsAssumption
<1>3. items[i] \in Book!Line
  BY <1>2
<1>4. items[i].slot \in Slots /\ items[i].quantity \in Nat \ {0}
  BY <1>3, BookAssumption DEF Book!QuantitiesAssumption, Book!Line, Book!Slots, Slots
<1> DEFINE s == items[i].slot
           j == CHOOSE k \in DOMAIN items : items[k].slot = s
<1>5. j \in DOMAIN items /\ items[j].slot = s
  OBVIOUS
<1>6. j = i
  <2> HIDE DEF j
  <2> QED
    BY <1>1, <1>5, BookAssumption DEF Book!OrderFormsAssumption
<1>7. \E k \in DOMAIN items : items[k].slot = s
  OBVIOUS
<1>8. Book!Ordered(items, s) = items[i].quantity
  <2> HIDE DEF j
  <2> QED
    BY <1>6, <1>7 DEF Book!Ordered, j
<1> QED
  BY <1>1, <1>4, <1>8

\* A list asks a natural number of every slot, zero of those it has no line for.
LEMMA AskedNat ==
    ASSUME NEW items \in LineLists, NEW s \in Slots
    PROVE  /\ Book!Ordered(items, s) \in Nat
           /\ s \notin {items[i].slot : i \in DOMAIN items} => Book!Ordered(items, s) = 0
<1>1. CASE \E i \in DOMAIN items : items[i].slot = s
  <2>1. PICK i \in DOMAIN items : items[i].slot = s
    BY <1>1
  <2> QED
    BY <2>1, LineFacts
<1>2. CASE ~ \E i \in DOMAIN items : items[i].slot = s
  BY <1>2 DEF Book!Ordered
<1> QED
  BY <1>1, <1>2

\* A balance is a record of its two numbers, and NoStock is one.
LEMMA BalanceFacts ==
    /\ NoStock \in Balance
    /\ Absent \notin Balance
    /\ MaxInt \in Nat
    /\ \A b \in Balance : b.on_hand \in 0..MaxInt /\ b.reserved \in Nat
<1>1. MaxInt \in Nat
  BY BookAssumption DEF Book!MaxIntAssumption
<1> QED
  BY <1>1, SessionsAssumption DEF Balance, NoStock

----------------------------------------------------------------------------
(* The inductive invariant *)

Stages == {"idle", "catalogue", "order", "select", "lock", "insert", "commit"}

\* The tables: a stored balance meets the CHECK constraints.
TablesTyped ==
    /\ row \in [Slots -> Balance \cup {Absent}]
    /\ \A s \in Slots : row[s] # Absent => row[s].reserved <= row[s].on_hand
    /\ status \in [Orders -> Book!OrderStatus \cup {"NONE"}]
    /\ lines \in [Orders -> LineLists]
    /\ DOMAIN owner = Orders
    /\ movements \in Seq(Book!Movement)
    /\ active \subseteq Products

\* The locks and the sessions.
SessionsTyped ==
    /\ rowLock \in [Slots -> Workers \cup {Nobody}]
    /\ orderLock \in [Orders -> Workers \cup {Nobody}]
    /\ pc \in [Workers -> Stages]
    /\ form \in [Workers -> Forms \cup {NoForm}]
    /\ wanted \in [Workers -> SUBSET Slots]
    /\ DOMAIN copy = Workers
    /\ begun \in Nat

\* A session holds the balances of exactly the rows it has locked: at most one
\* session holds a balance.
Exclusive ==
    \A w \in Workers : DOMAIN copy[w] = {s \in Slots : rowLock[s] = w}

\* A request that computes new balances.
UsesStock(f) == f.op \in StockOps \/ NeedsStock(f)

\* What each stage serves.
Serving(w) ==
    /\ pc[w] = "idle" <=> form[w] = NoForm
    /\ pc[w] = "order" => form[w].op \in TransitionOps
    /\ pc[w] = "catalogue" => form[w].op \in StockOps \cup {"create"}
    /\ pc[w] \in {"select", "lock"} => form[w].op # "create"
    /\ pc[w] = "insert" => form[w].op \in StockOps

\* From the moment its order is locked, what a request checked on it stays true.
OrderHeld(w) ==
    /\ \A o \in Orders : orderLock[o] = w =>
           /\ pc[w] \in {"select", "lock", "commit"}
           /\ form[w].op \in TransitionOps /\ form[w].order = o
    /\ pc[w] \in {"select", "lock", "commit"} /\ form[w].op \in TransitionOps =>
           /\ orderLock[form[w].order] = w
           /\ status[form[w].order] # "NONE"
           /\ Admits(form[w])
           /\ pc[w] # "commit" => NeedsStock(form[w])

\* What was decided when all rows were locked.
Decided(w) ==
    /\ Accepts(w)
    /\ \A s \in Touches(form[w]) : NewBalance(w, s).on_hand <= MaxInt

Stored(slots) == \A s \in slots : row[s] # Absent

\* The rows a request wants and holds, stage by stage.  It locks rows in their
\* order, and inserts at most one.
RowsHeld(w) ==
    /\ pc[w] # "lock" => wanted[w] = {}
    /\ pc[w] \notin {"lock", "insert", "commit"} => DOMAIN copy[w] = {}
    /\ pc[w] = "lock" =>
           /\ wanted[w] \subseteq Touches(form[w])
           /\ DOMAIN copy[w] \subseteq Touches(form[w])
           /\ Stored(wanted[w]) /\ Stored(DOMAIN copy[w])
           /\ \A s \in DOMAIN copy[w], t \in wanted[w] : Before(s, t)
    /\ pc[w] = "insert" =>
           /\ Decided(w)
           /\ DOMAIN copy[w] \subseteq Touches(form[w])
           /\ Stored(DOMAIN copy[w])
           /\ \A s, t \in Missing(w) : s = t
    /\ pc[w] = "commit" =>
           IF UsesStock(form[w])
           THEN Decided(w) /\ DOMAIN copy[w] = Touches(form[w])
           ELSE DOMAIN copy[w] = {}

Session(w) == Serving(w) /\ OrderHeld(w) /\ RowsHeld(w)

Busy == {w \in Workers : pc[w] # "idle"}

\* Requests that have ended.
Ended == begun - Cardinality(Busy)

\* Each request that has ended used no more than its share of the journal.
JournalRoom ==
    /\ begun <= MaxRequests
    /\ Ended \in Nat
    /\ MaxRequests * Len(movements) <= MaxMovements * Ended

Inv ==
    /\ TablesTyped
    /\ SessionsTyped
    /\ Exclusive
    /\ CopiesAreCurrent
    /\ \A w \in Workers : Session(w)
    /\ JournalRoom

----------------------------------------------------------------------------
(* What a request asks for does not change under its order lock *)

\* The status, lines and author of the order a request names stay as they are.
OrderStays(f) ==
    f.op \in TransitionOps =>
        /\ status'[f.order] = status[f.order]
        /\ lines'[f.order] = lines[f.order]
        /\ owner'[f.order] = owner[f.order]

\* A request other than one that creates an order touches slots.
LEMMA TouchesSlots ==
    ASSUME TablesTyped, NEW f \in Forms, f.op # "create"
    PROVE  Touches(f) \subseteq Slots
<1>1. CASE f.op \in {"receive", "adjust"}
  BY <1>1, FormKinds DEF Touches
<1>2. CASE f.op = "transfer"
  BY <1>2, FormKinds DEF Touches, Slots
<1>3. CASE f.op \in TransitionOps
  <2>1. f.order \in Orders
    BY <1>3, FormKinds
  <2>2. lines[f.order] \in LineLists
    BY <2>1 DEF TablesTyped
  <2>3. \A i \in DOMAIN lines[f.order] : lines[f.order][i].slot \in Slots
    BY <2>2, LineFacts
  <2>4. Touches(f) = {lines[f.order][i].slot : i \in DOMAIN lines[f.order]}
    BY <1>3 DEF Touches, TransitionOps
  <2> QED
    BY <2>3, <2>4
<1> QED
  BY <1>1, <1>2, <1>3, FormKinds DEF StockOps, TransitionOps

\* What a request asks for depends on nothing but the order it names.
LEMMA FormFrame ==
    ASSUME NEW f \in Forms, OrderStays(f)
    PROVE  /\ f.op # "create" => Touches(f)' = Touches(f)
           /\ f.op \in TransitionOps => Admits(f)' = Admits(f)
           /\ NeedsStock(f)' = NeedsStock(f)
           /\ UsesStock(f)' = UsesStock(f)
           /\ \A s : OnHandChange(f, s)' = OnHandChange(f, s)
           /\ \A s : ReservedChange(f, s)' = ReservedChange(f, s)
<1> USE DEF OrderStays
<1>1. f.op # "create" => Touches(f)' = Touches(f)
  BY FormKinds DEF Touches, StockOps, TransitionOps
<1>2. f.op \in TransitionOps => Admits(f)' = Admits(f)
  BY DEF Admits, TransitionOps
<1>3. NeedsStock(f)' = NeedsStock(f)
  BY DEF NeedsStock, TransitionOps
<1>4. UsesStock(f)' = UsesStock(f)
  BY <1>3 DEF UsesStock
<1>5. \A s : OnHandChange(f, s)' = OnHandChange(f, s)
  BY DEF OnHandChange, TransitionOps
<1>6. \A s : ReservedChange(f, s)' = ReservedChange(f, s)
  BY DEF ReservedChange, TransitionOps
<1> QED
  BY <1>1, <1>2, <1>3, <1>4, <1>5, <1>6

\* A decision stands while the balances it was made on are the same, even if
\* the session comes to hold a new row, whose balance is zero.
LEMMA DecidedFrame ==
    ASSUME TablesTyped, NEW w \in Workers, NEW f \in Forms,
           form[w] = f, form'[w] = f, UsesStock(f), OrderStays(f),
           \A s \in Slots : BalanceOf(w, s)' = BalanceOf(w, s),
           DOMAIN copy[w] \subseteq DOMAIN copy'[w]
    PROVE  /\ \A s \in Slots : NewBalance(w, s)' = NewBalance(w, s)
           /\ Decided(w) => Decided(w)'
<1>0. f.op \in StockOps \cup {"confirm", "ship", "cancel"} /\ f.op # "create"
  BY DEF UsesStock, NeedsStock, StockOps
<1>1. \A s \in Slots : NewBalance(w, s)' = NewBalance(w, s)
  BY FormFrame DEF NewBalance
<1>2. Touches(f)' = Touches(f) /\ Touches(f) \subseteq Slots
  BY <1>0, FormFrame, TouchesSlots
<1>3. \A s \in Slots : AvailableTo(w, s)' = AvailableTo(w, s)
  BY DEF AvailableTo
<1>4. ASSUME Accepts(w)
      PROVE  Accepts(w)'
  <2>1. CASE f.op = "receive"
    BY <2>1 DEF Accepts
  <2>2. CASE f.op = "adjust"
    <3>1. f.slot \in Slots
      BY <2>2, FormKinds
    <3> QED
      BY <1>4, <2>2, <3>1 DEF Accepts, AdjustmentFits
  <2>3. CASE f.op = "transfer"
    <3>1. <<f.product, f.from>> \in Slots
      BY <2>3, FormKinds DEF Slots
    <3> QED
      BY <1>3, <1>4, <2>3, <3>1 DEF Accepts, TransferFits
  <2>4. CASE f.op \in TransitionOps
    <3> DEFINE items == lines[f.order]
    <3>1. f.order \in Orders /\ items \in LineLists /\ lines'[f.order] = items
      BY <2>4, FormKinds DEF TablesTyped, OrderStays
    <3>2. \A i \in DOMAIN items : items[i].slot \in Slots
      BY <3>1, LineFacts
    <3>3. CASE f.op = "confirm"
      BY <1>3, <1>4, <3>1, <3>2, <3>3 DEF Accepts, ReservationFits
    <3>4. CASE f.op = "ship"
      BY <1>4, <3>1, <3>2, <3>4 DEF Accepts, ShipmentFits, ReleaseFits
    <3>5. CASE f.op = "cancel"
      BY <1>4, <3>1, <3>2, <3>5 DEF Accepts, ReleaseFits
    <3> QED
      BY <1>0, <2>4, <3>3, <3>4, <3>5 DEF StockOps, TransitionOps
  <2> QED
    BY <1>0, <2>1, <2>2, <2>3, <2>4 DEF StockOps, TransitionOps
<1> QED
  BY <1>1, <1>2, <1>4 DEF Decided

\* Nothing a session relies on changes: its own stage, request, rows and locks,
\* and the order it holds; no row disappears.
Undisturbed(v) ==
    /\ pc'[v] = pc[v]
    /\ form'[v] = form[v]
    /\ wanted'[v] = wanted[v]
    /\ copy'[v] = copy[v]
    /\ \A o \in Orders :
          /\ orderLock'[o] = v <=> orderLock[o] = v
          /\ orderLock[o] = v => /\ status'[o] = status[o]
                                 /\ lines'[o] = lines[o]
                                 /\ owner'[o] = owner[o]
    /\ \A s \in Slots : row[s] # Absent => row'[s] # Absent

\* Such a session keeps its invariant.
LEMMA SessionFrame ==
    ASSUME TablesTyped, SessionsTyped, NEW v \in Workers, Session(v), Undisturbed(v)
    PROVE  Session(v)'
<1> USE DEF Undisturbed
<1>1. CASE form[v] = NoForm
  <2>1. pc[v] = "idle" /\ pc'[v] = "idle" /\ form'[v] = NoForm
    BY <1>1 DEF Session, Serving
  <2> QED
    BY <2>1 DEF Session, Serving, OrderHeld, RowsHeld
<1>2. CASE form[v] # NoForm
  <2>1. PICK f \in Forms : form[v] = f /\ form'[v] = f
    BY <1>2 DEF SessionsTyped
  <2>2. Serving(v)'
    BY DEF Session, Serving
  <2>3. ASSUME pc[v] \in {"select", "lock", "commit"}, f.op \in TransitionOps
        PROVE  f.order \in Orders /\ orderLock[f.order] = v
    BY <2>1, <2>3, FormKinds DEF Session, OrderHeld
  <2>4. pc[v] \in {"select", "lock", "insert", "commit"} => OrderStays(f)
    BY <2>1, <2>3 DEF OrderStays, Session, Serving, StockOps, TransitionOps
  <2>5. OrderHeld(v)'
    <3>1. \A o \in Orders : orderLock'[o] = v =>
             /\ pc'[v] \in {"select", "lock", "commit"}
             /\ form'[v].op \in TransitionOps /\ form'[v].order = o
      BY DEF Session, OrderHeld
    <3>2. ASSUME pc[v] \in {"select", "lock", "commit"}, f.op \in TransitionOps
          PROVE  /\ orderLock'[f.order] = v
                 /\ status'[f.order] # "NONE"
                 /\ Admits(f)'
                 /\ pc[v] # "commit" => NeedsStock(f)'
      BY <2>1, <2>3, <2>4, <3>2, FormFrame DEF Session, OrderHeld
    <3> QED
      BY <2>1, <3>1, <3>2 DEF OrderHeld
  <2>6. RowsHeld(v)'
    <3>1. pc[v] \in {"lock", "insert"} => f.op # "create" /\ Touches(f)' = Touches(f)
      BY <2>1, <2>4, FormFrame DEF Session, Serving, StockOps
    <3>2. \A s \in Slots : BalanceOf(v, s)' = BalanceOf(v, s)
      BY DEF BalanceOf
    <3>3. pc[v] \in {"insert", "commit"} => UsesStock(f)' = UsesStock(f)
      BY <2>4, FormFrame
    <3>4. pc[v] \in {"insert", "commit"} /\ UsesStock(f) /\ Decided(v) => Decided(v)'
      BY <2>1, <2>4, <3>2, DecidedFrame
    <3>5. Stored(wanted[v]) /\ wanted[v] \subseteq Slots => Stored(wanted[v])'
      BY DEF Stored
    <3>6. Stored(DOMAIN copy[v]) /\ DOMAIN copy[v] \subseteq Slots => Stored(DOMAIN copy[v])'
      BY DEF Stored
    <3>7. CASE pc[v] = "lock"
      <4>1. Touches(f) \subseteq Slots
        BY <3>1, <3>7, TouchesSlots
      <4> QED
        BY <2>1, <3>1, <3>5, <3>6, <3>7, <4>1 DEF Session, RowsHeld
    <3>8. CASE pc[v] = "insert"
      <4>1. Touches(f) \subseteq Slots
        BY <3>1, <3>8, TouchesSlots
      <4>2. UsesStock(f)
        BY <2>1, <3>8 DEF Session, Serving, UsesStock
      <4>3. Missing(v)' = Missing(v)
        BY <2>1, <3>1, <3>8 DEF Missing
      <4> QED
        BY <2>1, <3>1, <3>4, <3>6, <3>8, <4>1, <4>2, <4>3 DEF Session, RowsHeld
    <3>9. CASE pc[v] = "commit"
      <4>1. UsesStock(f) => Touches(f)' = Touches(f)
        BY <2>4, <3>9, FormFrame DEF UsesStock, NeedsStock, StockOps
      <4> QED
        BY <2>1, <3>3, <3>4, <3>9, <4>1 DEF Session, RowsHeld
    <3> QED
      BY <3>7, <3>8, <3>9 DEF Session, RowsHeld
  <2> QED
    BY <2>2, <2>5, <2>6 DEF Session
<1> QED
  BY <1>1, <1>2

----------------------------------------------------------------------------
(* The journal has room *)

\* Finitely many requests are under way.
LEMMA BusyFinite ==
    IsFiniteSet(Busy) /\ Cardinality(Busy) \in Nat
  BY SessionsAssumption, FS_Subset, FS_CardinalityType DEF Busy

\* A step that neither starts nor ends a request, nor writes to the journal.
LEMMA RoomKept ==
    ASSUME JournalRoom, Busy' = Busy, begun' = begun, movements' = movements
    PROVE  JournalRoom'
  BY DEF JournalRoom, Ended

\* A request ends: it leaves its share of the journal to what it wrote.
LEMMA RoomGrows ==
    ASSUME SessionsTyped, JournalRoom, NEW w \in Workers, pc[w] # "idle",
           pc' = [pc EXCEPT ![w] = "idle"], begun' = begun
    PROVE  /\ Ended \in Nat /\ Ended' = Ended + 1 /\ Ended + 1 <= MaxRequests
           /\ movements' = movements => JournalRoom'
<1>1. w \in Busy /\ Busy' = Busy \ {w}
  BY DEF Busy, SessionsTyped
<1>2. Cardinality(Busy') = Cardinality(Busy) - 1
  BY <1>1, BusyFinite, FS_RemoveElement
<1>3. Cardinality(Busy) >= 1
  BY <1>1, <1>2, BusyFinite, FS_CardinalityType, FS_RemoveElement, FS_EmptySet
<1>4. Ended \in Nat /\ Ended' = Ended + 1 /\ Ended + 1 <= MaxRequests
  BY <1>2, <1>3, BusyFinite, RequestsAssumption DEF Ended, JournalRoom, SessionsTyped
<1>5. ASSUME movements' = movements
      PROVE  JournalRoom'
  <2>1. MaxMovements \in Nat /\ MaxRequests \in Nat
    BY RequestsAssumption, BookAssumption DEF Book!MaxMovementsAssumption
  <2>2. MaxMovements * Ended' = MaxMovements * Ended + MaxMovements
    BY <1>4, <2>1
  <2>3. MaxMovements * Ended \in Nat
    BY <1>4, <2>1
  <2>4. MaxRequests * Len(movements) <= MaxMovements * Ended'
    <3> DEFINE x == MaxRequests * Len(movements)
               y == MaxMovements * Ended
    <3>1. x <= y
      BY DEF JournalRoom
    <3> QED
      BY <1>4, <2>1, <2>2, <2>3, <3>1
  <2> QED
    BY <1>4, <1>5, <2>4 DEF JournalRoom
<1> QED
  BY <1>4, <1>5

----------------------------------------------------------------------------
(* Ending a request *)

\* A session that closes gives back its locks and keeps nothing, and disturbs no
\* other.
LEMMA ClosePreserves ==
    ASSUME SessionsTyped, Exclusive, NEW w \in Workers, Close(w), begun' = begun
    PROVE  /\ SessionsTyped'
           /\ Exclusive'
           /\ Session(w)'
           /\ DOMAIN copy'[w] = {}
           /\ \A v \in Workers \ {w} :
                 /\ pc'[v] = pc[v] /\ form'[v] = form[v]
                 /\ wanted'[v] = wanted[v] /\ copy'[v] = copy[v]
                 /\ \A o \in Orders : orderLock'[o] = v <=> orderLock[o] = v
<1> USE DEF Close, Goto
<1>1. Nobody \notin Workers
  BY SessionsAssumption
<1>2. pc'[w] = "idle" /\ form'[w] = NoForm /\ wanted'[w] = {} /\ copy'[w] = Nothing
  BY DEF SessionsTyped
<1>3. DOMAIN copy'[w] = {}
  BY <1>2 DEF Nothing
<1>4. SessionsTyped'
  BY DEF SessionsTyped, Stages
<1>5. \A v \in Workers \ {w} :
         /\ pc'[v] = pc[v] /\ form'[v] = form[v]
         /\ wanted'[v] = wanted[v] /\ copy'[v] = copy[v]
         /\ \A o \in Orders : orderLock'[o] = v <=> orderLock[o] = v
  BY <1>1 DEF SessionsTyped
<1>6. \A s \in Slots : rowLock'[s] # w
  BY <1>1
<1>7. \A o \in Orders : orderLock'[o] # w
  BY <1>1
<1>8. \A v \in Workers \ {w} : \A s \in Slots : rowLock'[s] = v <=> rowLock[s] = v
  BY <1>1 DEF SessionsTyped
<1>9. Exclusive'
  BY <1>3, <1>5, <1>6, <1>8 DEF Exclusive
<1>10. Session(w)'
  BY <1>2, <1>3, <1>7 DEF Session, Serving, OrderHeld, RowsHeld
<1> QED
  BY <1>3, <1>4, <1>5, <1>9, <1>10

\* A rollback leaves the tables as they were.
LEMMA RollbackPreserves ==
    ASSUME Inv, NEW w \in Workers, pc[w] # "idle", Rollback(w)
    PROVE  Inv'
<1> USE DEF Rollback, database
<1>1. TablesTyped'
  BY DEF Inv, TablesTyped
<1>2. /\ SessionsTyped'
      /\ Exclusive'
      /\ Session(w)'
      /\ DOMAIN copy'[w] = {}
      /\ \A v \in Workers \ {w} :
            /\ pc'[v] = pc[v] /\ form'[v] = form[v]
            /\ wanted'[v] = wanted[v] /\ copy'[v] = copy[v]
            /\ \A o \in Orders : orderLock'[o] = v <=> orderLock[o] = v
  BY ClosePreserves DEF Inv
<1>3. ASSUME NEW v \in Workers
      PROVE  Session(v)'
  <2>1. CASE v = w
    BY <1>2, <2>1
  <2>2. CASE v # w
    <3>1. Undisturbed(v)
      BY <1>2, <2>2 DEF Undisturbed
    <3> QED
      BY <3>1, SessionFrame DEF Inv
  <2> QED
    BY <2>1, <2>2
<1>4. CopiesAreCurrent'
  BY <1>2 DEF Inv, CopiesAreCurrent
<1>5. JournalRoom'
  BY RoomGrows DEF Inv, Close, Goto
<1> QED
  BY <1>1, <1>2, <1>3, <1>4, <1>5 DEF Inv

----------------------------------------------------------------------------
(* Steps that write nothing to the tables *)

\* It is enough to look at the session that takes the step.
LEMMA LocalStep ==
    ASSUME Inv, NEW w \in Workers, UNCHANGED <<database, active>>,
           SessionsTyped', Exclusive', Session(w)', JournalRoom',
           \A s \in DOMAIN copy'[w] :
               copy'[w][s] = IF row[s] = Absent THEN NoStock ELSE row[s],
           \A v \in Workers \ {w} :
               /\ pc'[v] = pc[v] /\ form'[v] = form[v]
               /\ wanted'[v] = wanted[v] /\ copy'[v] = copy[v]
               /\ \A o \in Orders : orderLock'[o] = v <=> orderLock[o] = v
    PROVE  Inv'
<1> USE DEF database
<1>1. TablesTyped'
  BY DEF Inv, TablesTyped
<1>2. ASSUME NEW v \in Workers
      PROVE  Session(v)'
  <2>1. CASE v = w
    BY <2>1
  <2>2. CASE v # w
    <3>1. Undisturbed(v)
      BY <2>2 DEF Undisturbed
    <3> QED
      BY <3>1, SessionFrame DEF Inv
  <2> QED
    BY <2>1, <2>2
<1>3. CopiesAreCurrent'
  BY DEF Inv, CopiesAreCurrent
<1> QED
  BY <1>1, <1>2, <1>3 DEF Inv

\* The session only moves on to another stage.
LEMMA MovesOn ==
    ASSUME Inv, NEW w \in Workers, NEW stage \in Stages \ {"idle"}, pc[w] # "idle",
           Goto(w, stage), UNCHANGED <<database, active, locks, form, wanted, copy, begun>>,
           Session(w)'
    PROVE  Inv'
<1> USE DEF Goto, locks, database
<1>1. SessionsTyped'
  BY DEF Inv, SessionsTyped
<1>2. Exclusive'
  BY DEF Inv, Exclusive
<1>3. Busy' = Busy
  BY DEF Inv, SessionsTyped, Busy
<1>4. JournalRoom'
  BY <1>3, RoomKept DEF Inv
<1>5. \A v \in Workers \ {w} : pc'[v] = pc[v]
  BY DEF Inv, SessionsTyped
<1> QED
  BY <1>1, <1>2, <1>4, <1>5, LocalStep DEF Inv, CopiesAreCurrent

\* A request that arrives starts with nothing.
LEMMA BeginPreserves ==
    ASSUME Inv, NEW w \in Workers, NEW f \in Forms, Begin(w, f)
    PROVE  Inv'
<1> USE DEF Begin, Goto, locks, database
<1>1. f # NoForm
  BY SessionsAssumption
<1>2. pc[w] = "idle" /\ form'[w] = f /\ DOMAIN copy[w] = {} /\ wanted[w] = {}
  BY DEF Inv, SessionsTyped, Session, RowsHeld
<1>3. pc'[w] = IF f.op \in StockOps \cup {"create"} THEN "catalogue" ELSE "order"
  BY DEF Inv, SessionsTyped
<1>4. SessionsTyped'
  BY <1>1 DEF Inv, SessionsTyped, Stages
<1>5. Exclusive'
  BY DEF Inv, Exclusive
<1>6. Session(w)'
  <2>1. Serving(w)'
    BY <1>1, <1>2, <1>3, FormKinds DEF Serving
  <2>2. OrderHeld(w)'
    BY <1>2, <1>3 DEF Inv, Session, OrderHeld
  <2>3. RowsHeld(w)'
    BY <1>2, <1>3 DEF RowsHeld
  <2> QED
    BY <2>1, <2>2, <2>3 DEF Session
<1>7. JournalRoom'
  <2>1. w \notin Busy /\ Busy' = Busy \cup {w}
    BY <1>2, <1>3 DEF Busy, Inv, SessionsTyped
  <2>2. Cardinality(Busy') = Cardinality(Busy) + 1
    BY <2>1, BusyFinite, FS_AddElement
  <2>3. Ended' = Ended
    BY <2>2, BusyFinite DEF Ended, Inv, SessionsTyped
  <2>4. begun' <= MaxRequests
    BY RequestsAssumption DEF Inv, SessionsTyped
  <2> QED
    BY <2>3, <2>4 DEF Inv, JournalRoom
<1>8. \A v \in Workers \ {w} : pc'[v] = pc[v] /\ form'[v] = form[v]
  BY DEF Inv, SessionsTyped
<1> QED
  BY <1>2, <1>4, <1>5, <1>6, <1>7, <1>8, LocalStep

\* The catalogue check takes no lock and reads no balance.
LEMMA ReadCataloguePreserves ==
    ASSUME Inv, NEW w \in Workers, ReadCatalogue(w)
    PROVE  Inv'
<1>1. CASE Rollback(w)
  BY <1>1, RollbackPreserves DEF ReadCatalogue
<1>2. CASE ~ Rollback(w)
  <2> DEFINE stage == IF form[w].op = "create" THEN "commit" ELSE "select"
  <2>1. /\ pc[w] = "catalogue" /\ Goto(w, stage)
        /\ UNCHANGED <<database, active, locks, form, wanted, copy, begun>>
    BY <1>2 DEF ReadCatalogue
  <2>2. form[w] # NoForm /\ form[w].op \in StockOps \cup {"create"} /\ form'[w] = form[w]
    BY <2>1 DEF Inv, Session, Serving
  <2>3. DOMAIN copy'[w] = {} /\ wanted'[w] = {}
    BY <2>1 DEF Inv, Session, RowsHeld
  <2>4. pc'[w] = stage
    BY <2>1 DEF Goto, Inv, SessionsTyped
  <2>5. \A o \in Orders : orderLock'[o] # w
    BY <2>1 DEF Inv, Session, OrderHeld, locks
  <2>6. Session(w)'
    <3>1. Serving(w)'
      BY <2>2, <2>4 DEF Serving, StockOps
    <3>2. OrderHeld(w)'
      BY <2>2, <2>5 DEF OrderHeld, StockOps, TransitionOps
    <3>3. form[w].op = "create" => ~ UsesStock(form[w])'
      BY <2>1 DEF UsesStock, NeedsStock, StockOps
    <3>4. RowsHeld(w)'
      BY <2>2, <2>3, <2>4, <3>3 DEF RowsHeld
    <3> QED
      BY <3>1, <3>2, <3>4 DEF Session
  <2> QED
    BY <2>1, <2>6, MovesOn DEF Stages
<1> QED
  BY <1>1, <1>2

\* An order is locked by one session, with its checks made under the lock.
LEMMA LockOrderPreserves ==
    ASSUME Inv, NEW w \in Workers, LockOrder(w)
    PROVE  Inv'
<1>1. CASE Rollback(w)
  BY <1>1, RollbackPreserves DEF LockOrder
<1>2. CASE ~ Rollback(w)
  <2>1. PICK f \in Forms : form[w] = f
    BY DEF LockOrder, Inv, SessionsTyped, Session, Serving
  <2> DEFINE o == f.order
             stage == IF NeedsStock(f) THEN "select" ELSE "commit"
  <2>2. /\ pc[w] = "order" /\ status[o] # "NONE" /\ Admits(f)
        /\ orderLock' = [orderLock EXCEPT ![o] = w]
        /\ Goto(w, stage)
        /\ orderLock[o] = Nobody
        /\ UNCHANGED <<database, active, rowLock, form, wanted, copy, begun>>
    BY <1>2, <2>1 DEF LockOrder
  <2>3. f.op \in TransitionOps /\ o \in Orders
    BY <2>1, <2>2, FormKinds DEF Inv, Session, Serving
  <2>4. /\ DOMAIN copy[w] = {} /\ wanted[w] = {} /\ form[w] # NoForm
        /\ pc'[w] = stage /\ form'[w] = f /\ copy'[w] = copy[w] /\ wanted'[w] = {}
    BY <2>1, <2>2 DEF Goto, Inv, SessionsTyped, Session, Serving, RowsHeld
  <2>5. OrderStays(f)
    BY <2>2 DEF OrderStays, database
  <2>6. /\ Admits(f)' = Admits(f) /\ NeedsStock(f)' = NeedsStock(f)
        /\ UsesStock(f)' = UsesStock(f)
    BY <2>3, <2>5, FormFrame
  <2>7. SessionsTyped'
    <3>1. orderLock' \in [Orders -> Workers \cup {Nobody}]
      BY <2>2, <2>3 DEF Inv, SessionsTyped
    <3> QED
      BY <2>2, <3>1 DEF Goto, Inv, SessionsTyped, Stages
  <2>8. Exclusive'
    BY <2>2 DEF Inv, Exclusive
  <2>9. Session(w)'
    <3>1. Serving(w)'
      BY <2>1, <2>3, <2>4 DEF Serving, StockOps, TransitionOps
    <3>2. OrderHeld(w)'
      <4>1. \A x \in Orders : orderLock[x] # w
        BY <2>2 DEF Inv, Session, OrderHeld
      <4>2. orderLock'[o] = w /\ \A x \in Orders : orderLock'[x] = w => x = o
        BY <2>2, <2>3, <4>1 DEF Inv, SessionsTyped
      <4> QED
        BY <2>2, <2>3, <2>4, <2>6, <4>2 DEF OrderHeld, database
    <3>3. ~ NeedsStock(f) => ~ UsesStock(f)
      BY <2>3 DEF UsesStock, StockOps, TransitionOps
    <3>4. RowsHeld(w)'
      BY <2>4, <2>6, <3>3 DEF RowsHeld
    <3> QED
      BY <3>1, <3>2, <3>4 DEF Session
  <2>10. JournalRoom'
    <3>1. Busy' = Busy
      BY <2>2, <2>4 DEF Goto, Busy, Inv, SessionsTyped
    <3> QED
      BY <2>2, <3>1, RoomKept DEF Inv, database
  <2>11. \A v \in Workers \ {w} :
            /\ pc'[v] = pc[v]
            /\ \A x \in Orders : orderLock'[x] = v <=> orderLock[x] = v
    BY <2>2, <2>3, SessionsAssumption DEF Goto, Inv, SessionsTyped
  <2> QED
    BY <2>2, <2>4, <2>7, <2>8, <2>9, <2>10, <2>11, LocalStep
<1> QED
  BY <1>1, <1>2

\* The rows found are rows the request touches, and they stay.
LEMMA SelectPreserves ==
    ASSUME Inv, NEW w \in Workers, Select(w)
    PROVE  Inv'
<1> USE DEF Select, Goto, locks, database
<1>1. PICK f \in Forms : form[w] = f
  BY DEF Inv, SessionsTyped, Session, Serving
<1>2. f.op # "create" /\ DOMAIN copy[w] = {}
  BY <1>1 DEF Inv, Session, Serving, RowsHeld
<1>3. /\ pc'[w] = "lock" /\ form'[w] = f /\ form[w] # NoForm
      /\ wanted'[w] = {s \in Touches(f) : row[s] # Absent}
  BY <1>1 DEF Inv, SessionsTyped, Session, Serving
<1>4. Touches(f) \subseteq Slots
  BY <1>2, TouchesSlots DEF Inv
<1>5. OrderStays(f)
  BY DEF OrderStays
<1>6. /\ Touches(f)' = Touches(f) /\ NeedsStock(f)' = NeedsStock(f)
      /\ f.op \in TransitionOps => Admits(f)' = Admits(f)
  BY <1>2, <1>5, FormFrame
<1>7. SessionsTyped'
  <2>1. wanted' \in [Workers -> SUBSET Slots]
    BY <1>1, <1>4 DEF Inv, SessionsTyped
  <2> QED
    BY <2>1 DEF Inv, SessionsTyped, Stages
<1>8. Exclusive'
  BY DEF Inv, Exclusive
<1>9. Session(w)'
  <2>1. Serving(w)'
    BY <1>1, <1>2, <1>3 DEF Serving
  <2>2. OrderHeld(w)'
    BY <1>1, <1>3, <1>6 DEF OrderHeld, Inv, Session
  <2>3. RowsHeld(w)'
    BY <1>2, <1>3, <1>6 DEF RowsHeld, Stored
  <2> QED
    BY <2>1, <2>2, <2>3 DEF Session
<1>10. JournalRoom'
  <2>1. Busy' = Busy
    BY DEF Busy, Inv, SessionsTyped
  <2> QED
    BY <2>1, RoomKept DEF Inv
<1>11. \A v \in Workers \ {w} : pc'[v] = pc[v] /\ wanted'[v] = wanted[v]
  BY DEF Inv, SessionsTyped
<1> QED
  BY <1>2, <1>7, <1>8, <1>9, <1>10, <1>11, LocalStep

\* The order of row locks is a strict order.
LEMMA BeforeOrder ==
    ASSUME NEW s \in Slots, NEW t \in Slots
    PROVE  /\ ~ (Before(s, t) /\ Before(t, s))
           /\ ~ Before(s, s)
           /\ \A u \in Slots : Before(s, t) /\ Before(t, u) => Before(s, u)
<1>1. \A u \in Slots : u[1] \in Nat /\ u[2] \in Nat
  BY IdsAssumption DEF Slots
<1> QED
  BY <1>1 DEF Before

\* The next row is locked by one session, which reads it as it is stored.
LEMMA LockRowPreserves ==
    ASSUME Inv, NEW w \in Workers, NEW s \in Slots, LockRow(w, s)
    PROVE  Inv'
<1> USE DEF LockRow, locks, database
<1>1. PICK f \in Forms : form[w] = f
  BY DEF Inv, SessionsTyped, Session, Serving
<1>2. /\ s \in wanted[w] /\ wanted[w] \subseteq Touches(f)
      /\ DOMAIN copy[w] \subseteq Touches(f)
      /\ Stored(wanted[w]) /\ Stored(DOMAIN copy[w])
      /\ \A t \in DOMAIN copy[w], u \in wanted[w] : Before(t, u)
      /\ \A u \in wanted[w] \ {s} : Before(s, u)
  BY <1>1 DEF FirstOf, Inv, Session, RowsHeld
<1>3. /\ copy'[w] = WithBalance(copy[w], s, row[s])
      /\ wanted'[w] = wanted[w] \ {s}
      /\ \A v \in Workers \ {w} : copy'[v] = copy[v] /\ wanted'[v] = wanted[v]
      /\ DOMAIN copy' = Workers
  BY DEF Inv, SessionsTyped
<1>4. /\ DOMAIN copy'[w] = DOMAIN copy[w] \cup {s}
      /\ copy'[w][s] = row[s]
      /\ \A t \in DOMAIN copy[w] \ {s} : copy'[w][t] = copy[w][t]
  BY <1>3 DEF WithBalance
<1>5. OrderStays(f)
  BY DEF OrderStays
<1>6. f.op # "create"
  BY <1>1 DEF Inv, Session, Serving
<1>7. /\ Touches(f)' = Touches(f) /\ NeedsStock(f)' = NeedsStock(f)
      /\ f.op \in TransitionOps => Admits(f)' = Admits(f)
  BY <1>5, <1>6, FormFrame
<1>8. SessionsTyped'
  <2>1. wanted' \in [Workers -> SUBSET Slots]
    BY DEF Inv, SessionsTyped
  <2>2. rowLock' \in [Slots -> Workers \cup {Nobody}]
    BY DEF Inv, SessionsTyped
  <2> QED
    BY <1>3, <2>1, <2>2 DEF Inv, SessionsTyped
<1>9. Exclusive'
  <2>1. \A t \in Slots : rowLock'[t] = IF t = s THEN w ELSE rowLock[t]
    BY DEF Inv, SessionsTyped
  <2>2. rowLock[s] = Nobody
    OBVIOUS
  <2>3. ASSUME NEW v \in Workers
        PROVE  DOMAIN copy'[v] = {t \in Slots : rowLock'[t] = v}
    <3>1. CASE v = w
      BY <1>4, <2>1, <3>1 DEF Inv, Exclusive
    <3>2. CASE v # w
      BY <1>3, <2>1, <2>2, <2>3, <3>2, SessionsAssumption DEF Inv, Exclusive
    <3> QED
      BY <3>1, <3>2
  <2> QED
    BY <2>3 DEF Exclusive
<1>10. Session(w)'
  <2>1. Serving(w)'
    BY DEF Inv, Session, Serving
  <2>2. OrderHeld(w)'
    BY <1>1, <1>7 DEF OrderHeld, Inv, Session
  <2>3. RowsHeld(w)'
    <3>1. \A t \in DOMAIN copy'[w], u \in wanted'[w] : Before(t, u)
      BY <1>2, <1>3, <1>4
    <3>2. Stored(wanted[w])' /\ Stored(DOMAIN copy[w])'
      BY <1>2, <1>3, <1>4 DEF Stored
    <3> QED
      BY <1>1, <1>2, <1>3, <1>4, <1>7, <3>1, <3>2 DEF RowsHeld
  <2> QED
    BY <2>1, <2>2, <2>3 DEF Session
<1>11. JournalRoom'
  <2>1. Busy' = Busy
    BY DEF Busy
  <2> QED
    BY <2>1, RoomKept DEF Inv
<1>12. \A t \in DOMAIN copy'[w] :
          copy'[w][t] = IF row[t] = Absent THEN NoStock ELSE row[t]
  BY <1>2, <1>4 DEF Stored, Inv, CopiesAreCurrent
<1> QED
  BY <1>3, <1>8, <1>9, <1>10, <1>11, <1>12, LocalStep

\* Only a request for a slot that has no row yet, and that does not need one,
\* is short of a row when it is accepted; and it is short of one only.
LEMMA FewAreMissing ==
    ASSUME Inv, NEW w \in Workers, pc[w] = "lock", NEW f \in Forms, form[w] = f,
           UsesStock(f), Accepts(w)
    PROVE  /\ Missing(w) # {} => f.op \in StockOps
           /\ \A s, t \in Missing(w) : s = t
<1>1. Missing(w) = Touches(f) \ DOMAIN copy[w]
  BY DEF Missing
<1>2. CASE f.op \in {"receive", "adjust"}
  <2>1. Touches(f) = {f.slot}
    BY <1>2 DEF Touches
  <2> QED
    BY <1>1, <1>2, <2>1 DEF StockOps
<1>3. CASE f.op = "transfer"
  <2>1. Touches(f) = {<<f.product, f.from>>, <<f.product, f.to>>}
    BY <1>3 DEF Touches
  <2>2. <<f.product, f.from>> \in DOMAIN copy[w]
    BY <1>3 DEF Accepts, TransferFits
  <2> QED
    BY <1>1, <1>3, <2>1, <2>2 DEF StockOps
<1>4. CASE f.op \in {"confirm", "ship", "cancel"}
  <2> DEFINE items == lines[f.order]
  <2>1. items \in LineLists
    BY <1>4, FormKinds DEF TransitionOps, Inv, TablesTyped
  <2>2. \A i \in DOMAIN items : items[i].quantity \in Nat \ {0}
    BY <2>1, LineFacts
  <2>3. Touches(f) = {items[i].slot : i \in DOMAIN items}
    BY <1>4 DEF Touches
  <2>4. ASSUME NEW i \in DOMAIN items
        PROVE  items[i].slot \in DOMAIN copy[w]
    <3>1. CASE f.op = "confirm"
      <4>1. AvailableTo(w, items[i].slot) >= items[i].quantity
        BY <3>1 DEF Accepts, ReservationFits
      <4>2. items[i].slot \notin DOMAIN copy[w] => AvailableTo(w, items[i].slot) = 0
        BY DEF AvailableTo, BalanceOf, NoStock
      <4> QED
        BY <2>2, <4>1, <4>2
    <3>2. CASE f.op = "ship"
      BY <3>2 DEF Accepts, ShipmentFits, ReleaseFits
    <3>3. CASE f.op = "cancel"
      BY <3>3 DEF Accepts, ReleaseFits
    <3> QED
      BY <1>4, <3>1, <3>2, <3>3
  <2>5. Missing(w) = {}
    BY <1>1, <2>3, <2>4
  <2> QED
    BY <2>5
<1> QED
  BY <1>2, <1>3, <1>4 DEF UsesStock, NeedsStock, StockOps

\* What is decided is decided on the rows that are locked.
LEMMA DecidePreserves ==
    ASSUME Inv, NEW w \in Workers, Decide(w)
    PROVE  Inv'
<1>1. CASE Rollback(w)
  BY <1>1, RollbackPreserves DEF Decide
<1>2. CASE ~ Rollback(w)
  <2>1. PICK f \in Forms : form[w] = f
    BY DEF Decide, Inv, SessionsTyped, Session, Serving
  <2> DEFINE stage == IF Missing(w) = {} THEN "commit" ELSE "insert"
  <2>2. /\ pc[w] = "lock" /\ wanted[w] = {} /\ Goto(w, stage)
        /\ UNCHANGED <<database, active, locks, form, wanted, copy, begun>>
    BY <1>2 DEF Decide
  <2>3. Decided(w)
    BY <1>2, <2>1 DEF Decide, Decided
  <2>4. f.op # "create" /\ f.op \in StockOps \cup TransitionOps
    BY <2>1, <2>2, FormKinds DEF Inv, Session, Serving
  <2>5. OrderStays(f)
    BY <2>2 DEF OrderStays, database
  <2>6. /\ Touches(f)' = Touches(f) /\ NeedsStock(f)' = NeedsStock(f)
        /\ UsesStock(f)' = UsesStock(f)
        /\ f.op \in TransitionOps => Admits(f)' = Admits(f)
    BY <2>4, <2>5, FormFrame
  <2>7. UsesStock(f)
    BY <2>1, <2>2, <2>4 DEF UsesStock, Inv, Session, OrderHeld
  <2>8. /\ Missing(w) # {} => f.op \in StockOps
        /\ \A s, t \in Missing(w) : s = t
    BY <2>1, <2>2, <2>3, <2>7, FewAreMissing DEF Decided
  <2>9. pc'[w] = stage /\ form'[w] = f /\ form[w] # NoForm /\ copy'[w] = copy[w]
    BY <2>1, <2>2 DEF Goto, Inv, SessionsTyped, Session, Serving
  <2>10. Session(w)'
    <3>1. Serving(w)'
      BY <2>1, <2>2, <2>8, <2>9 DEF Serving, Inv, Session
    <3>2. OrderHeld(w)'
      <4>1. stage = "insert" => f.op \notin TransitionOps
        BY <2>8 DEF StockOps, TransitionOps
      <4>2. ASSUME NEW o \in Orders, orderLock[o] = w
            PROVE  stage = "commit"
        BY <2>1, <2>2, <2>8, <4>1, <4>2 DEF Inv, Session, OrderHeld
      <4> QED
        BY <2>1, <2>2, <2>6, <2>9, <4>1, <4>2 DEF OrderHeld, locks, database, Inv, Session
    <3>3. RowsHeld(w)'
      <4>1. Touches(f) \subseteq Slots /\ DOMAIN copy[w] \subseteq Touches(f)
            /\ Stored(DOMAIN copy[w])
        BY <2>1, <2>2, <2>4, TouchesSlots DEF Inv, Session, RowsHeld
      <4>2. \A s \in Slots : BalanceOf(w, s)' = BalanceOf(w, s)
        BY <2>9 DEF BalanceOf
      <4>3. Decided(w)'
        BY <2>1, <2>3, <2>5, <2>7, <2>9, <4>2, DecidedFrame DEF Inv
      <4>4. Missing(w)' = Missing(w) /\ Missing(w) = Touches(f) \ DOMAIN copy[w]
        BY <2>1, <2>6, <2>9 DEF Missing
      <4>5. Stored(DOMAIN copy[w])'
        BY <2>2, <2>9, <4>1 DEF Stored, database
      <4> QED
        BY <2>1, <2>2, <2>6, <2>7, <2>8, <2>9, <4>1, <4>3, <4>4, <4>5 DEF RowsHeld
    <3> QED
      BY <3>1, <3>2, <3>3 DEF Session
  <2> QED
    BY <2>2, <2>10, MovesOn DEF Stages
<1> QED
  BY <1>1, <1>2

\* A missing row is inserted by one session; the decision stands.
LEMMA InsertPreserves ==
    ASSUME Inv, NEW w \in Workers, NEW s \in Slots, Insert(w, s)
    PROVE  Inv'
<1>1. CASE row[s] # Absent
  BY <1>1, RollbackPreserves DEF Insert
<1>2. CASE row[s] = Absent
  <2> USE DEF Goto, database
  <2>1. PICK f \in Forms : form[w] = f
    BY DEF Insert, Inv, SessionsTyped, Session, Serving
  <2>2. /\ pc[w] = "insert" /\ s \in Missing(w) /\ rowLock[s] = Nobody
        /\ rowLock' = [rowLock EXCEPT ![s] = w]
        /\ copy' = [copy EXCEPT ![w] = WithBalance(@, s, NoStock)]
        /\ pc' = [pc EXCEPT ![w] = "commit"]
        /\ UNCHANGED <<database, active, orderLock, form, wanted, begun>>
    BY <1>2 DEF Insert
  <2>3. /\ pc'[w] = "commit" /\ form'[w] = f /\ form[w] # NoForm
        /\ copy'[w] = WithBalance(copy[w], s, NoStock)
        /\ wanted'[w] = {}
        /\ \A v \in Workers \ {w} : copy'[v] = copy[v] /\ pc'[v] = pc[v]
        /\ DOMAIN copy' = Workers
    BY <2>1, <2>2 DEF Inv, SessionsTyped, Session, Serving, RowsHeld
  <2>4. /\ f.op \in StockOps /\ Decided(w)
        /\ DOMAIN copy[w] \subseteq Touches(f)
        /\ \A x, y \in Missing(w) : x = y
    BY <2>1, <2>2 DEF Inv, Session, Serving, RowsHeld
  <2>5. UsesStock(f) /\ f.op # "create" /\ f.op \notin TransitionOps
    BY <2>4 DEF UsesStock, StockOps, TransitionOps
  <2>6. OrderStays(f)
    BY <2>2 DEF OrderStays
  <2>7. Touches(f)' = Touches(f) /\ UsesStock(f)' = UsesStock(f)
    BY <2>5, <2>6, FormFrame
  <2>8. s \in Touches(f) /\ s \notin DOMAIN copy[w]
    BY <2>1, <2>2 DEF Missing
  <2>9. /\ DOMAIN copy'[w] = DOMAIN copy[w] \cup {s}
        /\ copy'[w][s] = NoStock
        /\ \A t \in DOMAIN copy[w] : copy'[w][t] = copy[w][t]
    BY <2>3, <2>8 DEF WithBalance
  <2>10. DOMAIN copy'[w] = Touches(f)
    BY <2>1, <2>2, <2>4, <2>8, <2>9 DEF Missing
  <2>11. \A t \in Slots : BalanceOf(w, t)' = BalanceOf(w, t)
    BY <2>8, <2>9 DEF BalanceOf
  <2>12. Decided(w)'
    BY <2>1, <2>3, <2>4, <2>5, <2>6, <2>9, <2>11, DecidedFrame DEF Inv
  <2>13. Session(w)'
    <3>1. Serving(w)'
      BY <2>1, <2>3 DEF Serving
    <3>2. OrderHeld(w)'
      BY <2>2, <2>3, <2>5 DEF OrderHeld, Inv, Session
    <3>3. RowsHeld(w)'
      BY <2>3, <2>5, <2>7, <2>10, <2>12 DEF RowsHeld
    <3> QED
      BY <3>1, <3>2, <3>3 DEF Session
  <2>14. SessionsTyped'
    <3>1. rowLock' \in [Slots -> Workers \cup {Nobody}]
      BY <2>2 DEF Inv, SessionsTyped
    <3> QED
      BY <2>2, <2>3, <3>1 DEF Inv, SessionsTyped, Stages
  <2>15. Exclusive'
    <3>1. \A t \in Slots : rowLock'[t] = IF t = s THEN w ELSE rowLock[t]
      BY <2>2 DEF Inv, SessionsTyped
    <3>2. ASSUME NEW v \in Workers
          PROVE  DOMAIN copy'[v] = {t \in Slots : rowLock'[t] = v}
      <4>1. CASE v = w
        BY <2>9, <3>1, <4>1 DEF Inv, Exclusive
      <4>2. CASE v # w
        BY <2>2, <2>3, <3>1, <3>2, <4>2, SessionsAssumption DEF Inv, Exclusive
      <4> QED
        BY <4>1, <4>2
    <3> QED
      BY <3>2 DEF Exclusive
  <2>16. JournalRoom'
    <3>1. Busy' = Busy
      BY <2>2 DEF Busy, Inv, SessionsTyped
    <3> QED
      BY <2>2, <3>1, RoomKept DEF Inv
  <2>17. \A t \in DOMAIN copy'[w] :
            copy'[w][t] = IF row[t] = Absent THEN NoStock ELSE row[t]
    BY <1>2, <2>9 DEF Inv, CopiesAreCurrent
  <2> QED
    BY <2>2, <2>3, <2>13, <2>14, <2>15, <2>16, <2>17, LocalStep
<1> QED
  BY <1>1, <1>2

\* Nothing that is decided depends on the products that are active.
LEMMA SetActivePreserves ==
    ASSUME Inv, NEW p \in Products, SetActive(p)
    PROVE  Inv'
<1> USE DEF SetActive, database, locks
<1>1. TablesTyped'
  BY DEF Inv, TablesTyped
<1>2. SessionsTyped' /\ Exclusive' /\ CopiesAreCurrent'
  BY DEF Inv, SessionsTyped, Exclusive, CopiesAreCurrent
<1>3. ASSUME NEW v \in Workers
      PROVE  Session(v)'
  <2>1. Undisturbed(v)
    BY DEF Undisturbed
  <2> QED
    BY <2>1, SessionFrame DEF Inv
<1>4. Busy' = Busy
  BY DEF Busy
<1>5. JournalRoom'
  BY <1>4, RoomKept DEF Inv
<1> QED
  BY <1>1, <1>2, <1>3, <1>5 DEF Inv

----------------------------------------------------------------------------
(* Committing *)

\* A new order takes an id that no session has locked.
LEMMA CommitNewOrderPreserves ==
    ASSUME Inv, NEW w \in Workers, CommitNewOrder(w)
    PROVE  Inv'
<1>1. PICK f \in Forms : form[w] = f
  BY DEF CommitNewOrder, Inv, SessionsTyped, Session, Serving
<1>2. PICK o \in Orders :
         /\ status[o] = "NONE"
         /\ status' = [status EXCEPT ![o] = "PENDING"]
         /\ lines' = [lines EXCEPT ![o] = f.items]
         /\ owner' = [owner EXCEPT ![o] = f.actor]
  BY <1>1 DEF CommitNewOrder
<1>3. /\ pc[w] = "commit" /\ f.op = "create" /\ Close(w)
      /\ UNCHANGED <<row, movements, active, begun>>
  BY <1>1 DEF CommitNewOrder
<1>4. f.items \in OrderForms
  BY <1>3, FormKinds
<1>5. TablesTyped'
  <2>1. status' \in [Orders -> Book!OrderStatus \cup {"NONE"}]
    BY <1>2 DEF Inv, TablesTyped, Book!OrderStatus
  <2>2. lines' \in [Orders -> LineLists]
    BY <1>2, <1>4 DEF Inv, TablesTyped, LineLists
  <2>3. DOMAIN owner' = Orders
    BY <1>2 DEF Inv, TablesTyped
  <2> QED
    BY <1>3, <2>1, <2>2, <2>3 DEF Inv, TablesTyped
<1>6. /\ SessionsTyped' /\ Exclusive' /\ Session(w)' /\ DOMAIN copy'[w] = {}
      /\ \A v \in Workers \ {w} :
            /\ pc'[v] = pc[v] /\ form'[v] = form[v]
            /\ wanted'[v] = wanted[v] /\ copy'[v] = copy[v]
            /\ \A x \in Orders : orderLock'[x] = v <=> orderLock[x] = v
  BY <1>3, ClosePreserves DEF Inv
<1>7. ASSUME NEW v \in Workers \ {w}
      PROVE  Session(v)'
  <2>1. ASSUME NEW x \in Orders, orderLock[x] = v
        PROVE  x # o
    <3>1. status[x] # "NONE"
      BY <2>1 DEF Inv, Session, OrderHeld
    <3> QED
      BY <1>2, <3>1
  <2>2. \A x \in Orders \ {o} : status'[x] = status[x] /\ lines'[x] = lines[x]
                                /\ owner'[x] = owner[x]
    BY <1>2 DEF Inv, TablesTyped
  <2>3. Undisturbed(v)
    BY <1>3, <1>6, <2>1, <2>2 DEF Undisturbed
  <2> QED
    BY <2>3, SessionFrame DEF Inv
<1>8. CopiesAreCurrent'
  BY <1>3, <1>6 DEF Inv, CopiesAreCurrent
<1>9. JournalRoom'
  BY <1>3, RoomGrows DEF Inv, Close, Goto
<1> QED
  BY <1>5, <1>6, <1>7, <1>8, <1>9 DEF Inv

\* The balance a session computes with is the one that is stored.
LEMMA HeldBalance ==
    ASSUME Inv, NEW w \in Workers, NEW s \in DOMAIN copy[w]
    PROVE  /\ s \in Slots
           /\ BalanceOf(w, s) \in Balance
           /\ BalanceOf(w, s).reserved <= BalanceOf(w, s).on_hand
           /\ BalanceOf(w, s).on_hand = OnHand[s]
           /\ BalanceOf(w, s).reserved = Reserved[s]
<1>1. s \in Slots
  BY DEF Inv, Exclusive
<1>2. BalanceOf(w, s) = IF row[s] = Absent THEN NoStock ELSE row[s]
  BY DEF Inv, CopiesAreCurrent, BalanceOf
<1>3. CASE row[s] = Absent
  BY <1>1, <1>2, <1>3, BalanceFacts DEF NoStock, OnHand, Reserved
<1>4. CASE row[s] # Absent
  <2>1. row[s] \in Balance /\ row[s].reserved <= row[s].on_hand
    BY <1>1, <1>4 DEF Inv, TablesTyped
  <2> QED
    BY <1>1, <1>2, <1>4, <2>1 DEF OnHand, Reserved
<1> QED
  BY <1>1, <1>3, <1>4

\* What a request that reaches its commit will write: balances that meet the
\* CHECK constraints of the table.
LEMMA NewBalancesFit ==
    ASSUME Inv, NEW w \in Workers, pc[w] = "commit", NEW f \in Forms, form[w] = f,
           UsesStock(f), NEW s \in DOMAIN copy[w]
    PROVE  /\ NewBalance(w, s) \in Balance
           /\ NewBalance(w, s).reserved <= NewBalance(w, s).on_hand
<1> DEFINE b == BalanceOf(w, s)
           n == b.on_hand + OnHandChange(f, s)
           r == b.reserved + ReservedChange(f, s)
<1>1. DOMAIN copy[w] = Touches(f) /\ Decided(w)
  BY DEF Inv, Session, RowsHeld
<1>2. s \in Slots /\ b \in Balance /\ b.reserved <= b.on_hand
  BY HeldBalance
<1>3. b.on_hand \in Nat /\ b.reserved \in Nat /\ MaxInt \in Nat
  BY <1>2, BalanceFacts
<1>4. NewBalance(w, s) = [on_hand |-> n, reserved |-> r]
  BY DEF NewBalance
<1>5. n <= MaxInt
  BY <1>1, <1>4 DEF Decided
<1> HIDE DEF b, n, r
<1>6. n \in Int /\ r \in Nat /\ r <= n
  <2>1. CASE f.op = "receive"
    <3>1. Touches(f) = {f.slot} /\ f.quantity \in Nat
      BY <2>1, FormKinds, BookAssumption DEF Touches, Book!QuantitiesAssumption
    <3>2. OnHandChange(f, s) = f.quantity /\ ReservedChange(f, s) = 0
      BY <1>1, <2>1, <3>1 DEF OnHandChange, ReservedChange
    <3> QED
      BY <1>2, <1>3, <3>1, <3>2 DEF b, n, r
  <2>2. CASE f.op = "adjust"
    <3>1. Touches(f) = {f.slot} /\ f.quantity \in Int
      BY <2>2, FormKinds DEF Touches
    <3>2. OnHandChange(f, s) = f.quantity /\ ReservedChange(f, s) = 0 /\ s = f.slot
      BY <1>1, <2>2, <3>1 DEF OnHandChange, ReservedChange
    <3>3. b.on_hand + f.quantity >= b.reserved
      BY <1>1, <2>2, <3>2 DEF Decided, Accepts, AdjustmentFits, b
    <3> QED
      BY <1>3, <3>1, <3>2, <3>3 DEF n, r
  <2>3. CASE f.op = "transfer"
    <3> DEFINE from == <<f.product, f.from>>
               to == <<f.product, f.to>>
    <3>1. Touches(f) = {from, to} /\ f.quantity \in Nat
      BY <2>3, FormKinds, BookAssumption DEF Touches, Book!QuantitiesAssumption
    <3>2. ReservedChange(f, s) = 0
      BY <2>3 DEF ReservedChange
    <3>3. CASE s = from
      <4>1. OnHandChange(f, s) = -f.quantity
        BY <2>3, <3>3 DEF OnHandChange
      <4>2. b.on_hand - b.reserved >= f.quantity
        BY <1>1, <2>3, <3>3 DEF Decided, Accepts, TransferFits, AvailableTo, b
      <4> QED
        BY <1>3, <3>1, <3>2, <4>1, <4>2 DEF n, r
    <3>4. CASE s # from
      <4>1. OnHandChange(f, s) = f.quantity
        BY <1>1, <2>3, <3>1, <3>4 DEF OnHandChange
      <4> QED
        BY <1>2, <1>3, <3>1, <3>2, <4>1 DEF b, n, r
    <3> QED
      BY <3>3, <3>4
  <2>4. CASE f.op \in {"confirm", "ship", "cancel"}
    <3> DEFINE items == lines[f.order]
    <3>1. items \in LineLists
      BY <2>4, FormKinds DEF TransitionOps, Inv, TablesTyped
    <3>2. Touches(f) = {items[i].slot : i \in DOMAIN items}
      BY <2>4 DEF Touches
    <3>3. PICK i \in DOMAIN items : items[i].slot = s
      BY <1>1, <3>2
    <3> DEFINE q == items[i].quantity
    <3>4. q \in Nat /\ Book!Ordered(items, s) = q
      BY <3>1, <3>3, LineFacts
    <3> HIDE DEF q
    <3>5. CASE f.op = "confirm"
      <4>1. OnHandChange(f, s) = 0 /\ ReservedChange(f, s) = q
        BY <3>4, <3>5 DEF OnHandChange, ReservedChange
      <4>2. b.on_hand - b.reserved >= q
        BY <1>1, <3>3, <3>5 DEF Decided, Accepts, ReservationFits, AvailableTo, b, q
      <4> QED
        BY <1>3, <3>4, <4>1, <4>2 DEF n, r
    <3>6. CASE f.op = "ship"
      <4>1. OnHandChange(f, s) = -q /\ ReservedChange(f, s) = -q
        BY <3>4, <3>6 DEF OnHandChange, ReservedChange
      <4>2. b.reserved >= q
        BY <1>1, <3>3, <3>6 DEF Decided, Accepts, ShipmentFits, ReleaseFits, b, q
      <4> QED
        BY <1>2, <1>3, <3>4, <4>1, <4>2 DEF b, n, r
    <3>7. CASE f.op = "cancel"
      <4>1. OnHandChange(f, s) = 0 /\ ReservedChange(f, s) = -q
        BY <3>4, <3>7 DEF OnHandChange, ReservedChange
      <4>2. b.reserved >= q
        BY <1>1, <3>3, <3>7 DEF Decided, Accepts, ReleaseFits, b, q
      <4> QED
        BY <1>2, <1>3, <3>4, <4>1, <4>2 DEF b, n, r
    <3> QED
      BY <2>4, <3>5, <3>6, <3>7
  <2> QED
    BY <2>1, <2>2, <2>3, <2>4 DEF UsesStock, NeedsStock, StockOps
<1>7. n \in 0..MaxInt
  BY <1>3, <1>5, <1>6
<1> QED
  BY <1>4, <1>6, <1>7 DEF Balance

\* The journal rows of a request are rows of the table, and no more than its
\* share of the journal.
LEMMA JournalRows ==
    ASSUME TablesTyped, NEW f \in Forms, f.op # "create"
    PROVE  /\ JournalOf(f) \in Seq(Book!Movement)
           /\ MaxRequests * Len(JournalOf(f)) <= MaxMovements
<1> USE DEF Book!StockMovementType
<1>1. /\ MaxRequests \in Nat /\ MaxMovements \in Nat
      /\ 2 * MaxRequests <= MaxMovements
      /\ \A items \in OrderForms : MaxRequests * Len(items) <= MaxMovements
  BY RequestsAssumption, BookAssumption DEF Book!MaxMovementsAssumption
<1>2. Book!Slots = Slots
  BY DEF Book!Slots, Slots
<1>3. CASE f.op \in {"receive", "adjust"}
  <2>1. f.slot \in Slots /\ f.quantity \in Int
    BY <1>3, FormKinds
  <2>2. PICK type \in {"RECEIVE", "ADJUSTMENT"} :
           JournalOf(f) = <<[type |-> type, slot |-> f.slot,
                             quantity |-> f.quantity, reference |-> NoRef]>>
    BY <1>3 DEF JournalOf, Book!Entry
  <2>3. [type |-> type, slot |-> f.slot, quantity |-> f.quantity, reference |-> NoRef]
           \in Book!Movement
    BY <1>2, <2>1 DEF Book!Movement
  <2>4. JournalOf(f) \in Seq(Book!Movement) /\ Len(JournalOf(f)) = 1
    BY <2>2, <2>3
  <2> QED
    BY <1>1, <2>4
<1>4. CASE f.op = "transfer"
  <2> DEFINE from == <<f.product, f.from>>
             to == <<f.product, f.to>>
             id == Len(movements) + 1
  <2>1. from \in Slots /\ to \in Slots /\ f.quantity \in Nat
    BY <1>4, FormKinds, BookAssumption DEF Book!QuantitiesAssumption, Slots
  <2>2. id \in Nat
    BY DEF TablesTyped
  <2>3. JournalOf(f) =
          <<[type |-> "TRANSFER_OUT", slot |-> from, quantity |-> -f.quantity, reference |-> id],
            [type |-> "TRANSFER_IN", slot |-> to, quantity |-> f.quantity, reference |-> id]>>
    BY <1>4 DEF JournalOf, Book!TransferMovements
  <2> HIDE DEF id, from, to
  <2>4. /\ [type |-> "TRANSFER_OUT", slot |-> from, quantity |-> -f.quantity, reference |-> id]
              \in Book!Movement
        /\ [type |-> "TRANSFER_IN", slot |-> to, quantity |-> f.quantity, reference |-> id]
              \in Book!Movement
    BY <1>2, <2>1, <2>2 DEF Book!Movement
  <2>5. JournalOf(f) \in Seq(Book!Movement) /\ Len(JournalOf(f)) = 2
    BY <2>3, <2>4
  <2> QED
    BY <1>1, <2>5
<1>5. CASE f.op \in TransitionOps
  <2> DEFINE items == lines[f.order]
  <2>1. f.order \in Orders /\ items \in LineLists
    BY <1>5, FormKinds DEF TablesTyped
  <2>2. items \in Seq(Book!Line) /\ MaxRequests * Len(items) <= MaxMovements
    <3>1. CASE items \in OrderForms
      BY <1>1, <3>1, BookAssumption DEF Book!OrderFormsAssumption
    <3>2. CASE items = <<>>
      <4>1. items \in Seq(Book!Line) /\ Len(items) = 0
        BY <3>2
      <4> QED
        BY <1>1, <4>1
    <3> QED
      BY <2>1, <3>1, <3>2 DEF LineLists
  <2>3. \A i \in DOMAIN items : items[i].slot \in Slots /\ items[i].quantity \in Nat
    BY <2>1, LineFacts
  <2>4. ASSUME NEW type \in {"RESERVE", "SHIPMENT", "RELEASE"}, NEW sign \in {-1, 1}
        PROVE  /\ Book!OrderMovements(f.order, type, sign) \in Seq(Book!Movement)
               /\ Len(Book!OrderMovements(f.order, type, sign)) = Len(items)
    <3> DEFINE entry(i) == [type |-> type, slot |-> items[i].slot,
                            quantity |-> sign * items[i].quantity, reference |-> f.order]
               rows == [i \in 1..Len(items) |-> entry(i)]
    <3>1. \A i \in 1..Len(items) : entry(i) \in Book!Movement
      BY <1>2, <2>1, <2>2, <2>3 DEF Book!Movement
    <3>2. Book!OrderMovements(f.order, type, sign) = rows
      BY <2>2 DEF Book!OrderMovements
    <3> HIDE DEF entry
    <3>3. Len(items) \in Nat
      BY <2>2
    <3>4. rows \in Seq(Book!Movement) /\ Len(rows) = Len(items)
      BY <3>1, <3>3
    <3> QED
      BY <3>2, <3>4
  <2>5. \/ JournalOf(f) = <<>>
        \/ \E type \in {"RESERVE", "SHIPMENT", "RELEASE"}, sign \in {-1, 1} :
              JournalOf(f) = Book!OrderMovements(f.order, type, sign)
    BY <1>5 DEF JournalOf, TransitionOps
  <2>6. CASE JournalOf(f) = <<>>
    <3>1. JournalOf(f) \in Seq(Book!Movement) /\ Len(JournalOf(f)) = 0
      BY <2>6
    <3> QED
      BY <1>1, <3>1
  <2> QED
    BY <2>2, <2>4, <2>5, <2>6
<1> QED
  BY <1>3, <1>4, <1>5, FormKinds DEF StockOps

\* The rows it writes: those it holds, if it computes balances, else none.
LEMMA CommitRows ==
    ASSUME Inv, NEW w \in Workers, CommitStock(w), NEW f \in Forms, form[w] = f
    PROVE  /\ row' \in [Slots -> Balance \cup {Absent}]
           /\ \A s \in Slots : row'[s] # Absent => row'[s].reserved <= row'[s].on_hand
           /\ \A s \in Slots : row[s] # Absent => row'[s] # Absent
           /\ \A s \in Slots \ DOMAIN copy[w] : row'[s] = row[s]
           /\ \A s \in DOMAIN copy[w] : row'[s] = NewBalance(w, s)
<1>1. row' = [s \in Slots |-> IF s \in DOMAIN copy[w] THEN NewBalance(w, s) ELSE row[s]]
  BY DEF CommitStock
<1>2. DOMAIN copy[w] \subseteq Slots
  BY DEF Inv, Exclusive
<1>3. ASSUME NEW s \in DOMAIN copy[w]
      PROVE  NewBalance(w, s) \in Balance
             /\ NewBalance(w, s).reserved <= NewBalance(w, s).on_hand
  <2>1. UsesStock(f) /\ pc[w] = "commit"
    BY DEF CommitStock, Inv, Session, RowsHeld
  <2> QED
    BY <2>1, NewBalancesFit
<1>4. ASSUME NEW s \in Slots
      PROVE  /\ row'[s] \in Balance \cup {Absent}
             /\ row'[s] # Absent => row'[s].reserved <= row'[s].on_hand
             /\ row[s] # Absent => row'[s] # Absent
  <2>1. CASE s \in DOMAIN copy[w]
    BY <1>1, <1>3, <2>1, BalanceFacts
  <2>2. CASE s \notin DOMAIN copy[w]
    BY <1>1, <2>2 DEF Inv, TablesTyped
  <2> QED
    BY <2>1, <2>2
<1>5. row' \in [Slots -> Balance \cup {Absent}]
  BY <1>1, <1>4
<1> QED
  BY <1>1, <1>2, <1>4, <1>5

\* A commit writes balances that fit, of rows nobody else holds, and no more
\* than its share of the journal.
LEMMA CommitStockPreserves ==
    ASSUME Inv, NEW w \in Workers, CommitStock(w)
    PROVE  Inv'
<1>1. PICK f \in Forms : form[w] = f
  BY DEF CommitStock, Inv, SessionsTyped, Session, Serving
<1>2. /\ pc[w] = "commit" /\ f.op # "create" /\ Close(w)
      /\ movements' = movements \o JournalOf(f)
      /\ status' = IF f.op \in StockOps THEN status
                   ELSE [status EXCEPT ![f.order] = NextStatus(f)]
      /\ UNCHANGED <<lines, owner, active, begun>>
  BY <1>1 DEF CommitStock
<1>3. /\ row' \in [Slots -> Balance \cup {Absent}]
      /\ \A s \in Slots : row'[s] # Absent => row'[s].reserved <= row'[s].on_hand
      /\ \A s \in Slots : row[s] # Absent => row'[s] # Absent
      /\ \A s \in Slots \ DOMAIN copy[w] : row'[s] = row[s]
  BY <1>1, CommitRows
<1>4. f.op \notin StockOps =>
         f.op \in TransitionOps /\ f.order \in Orders /\ orderLock[f.order] = w
  BY <1>1, <1>2, FormKinds DEF Inv, Session, OrderHeld
<1>5. JournalOf(f) \in Seq(Book!Movement) /\ MaxRequests * Len(JournalOf(f)) <= MaxMovements
  BY <1>2, JournalRows DEF Inv
<1>6. TablesTyped'
  <2>1. movements' \in Seq(Book!Movement)
    BY <1>2, <1>5 DEF Inv, TablesTyped
  <2>2. f.op \in TransitionOps => NextStatus(f) \in Book!OrderStatus
    BY DEF NextStatus, TransitionOps, Book!OrderStatus
  <2>3. status' \in [Orders -> Book!OrderStatus \cup {"NONE"}]
    BY <1>2, <1>4, <2>2 DEF Inv, TablesTyped
  <2> QED
    BY <1>2, <1>3, <2>1, <2>3 DEF Inv, TablesTyped
<1>7. /\ SessionsTyped' /\ Exclusive' /\ Session(w)' /\ DOMAIN copy'[w] = {}
      /\ \A v \in Workers \ {w} :
            /\ pc'[v] = pc[v] /\ form'[v] = form[v]
            /\ wanted'[v] = wanted[v] /\ copy'[v] = copy[v]
            /\ \A x \in Orders : orderLock'[x] = v <=> orderLock[x] = v
  BY <1>2, ClosePreserves DEF Inv
<1>8. ASSUME NEW v \in Workers \ {w}
      PROVE  Session(v)'
  <2>1. \A x \in Orders : orderLock[x] = v => status'[x] = status[x]
    BY <1>2, <1>4, <1>8 DEF Inv, TablesTyped
  <2>2. Undisturbed(v)
    BY <1>2, <1>3, <1>7, <2>1 DEF Undisturbed
  <2> QED
    BY <2>2, SessionFrame DEF Inv
<1>9. CopiesAreCurrent'
  <2>1. ASSUME NEW v \in Workers \ {w}, NEW s \in DOMAIN copy[v]
        PROVE  s \in Slots \ DOMAIN copy[w]
    BY <2>1 DEF Inv, Exclusive
  <2>2. ASSUME NEW v \in Workers \ {w}, NEW s \in DOMAIN copy[v]
        PROVE  copy[v][s] = IF row'[s] = Absent THEN NoStock ELSE row'[s]
    BY <1>3, <2>1, <2>2 DEF Inv, CopiesAreCurrent
  <2> QED
    BY <1>7, <2>2 DEF CopiesAreCurrent
<1>10. JournalRoom'
  <2> DEFINE m == Len(movements)
             n == Len(JournalOf(f))
  <2>1. Ended \in Nat /\ Ended' = Ended + 1 /\ Ended + 1 <= MaxRequests
    BY <1>2, RoomGrows DEF Inv, Close, Goto
  <2>2. MaxRequests \in Nat /\ MaxMovements \in Nat /\ m \in Nat /\ n \in Nat
    BY <1>5, RequestsAssumption, BookAssumption DEF Book!MaxMovementsAssumption, Inv, TablesTyped
  <2>3. Len(movements') = m + n
    BY <1>2, <1>5 DEF Inv, TablesTyped
  <2>4. MaxRequests * m <= MaxMovements * Ended
    BY DEF Inv, JournalRoom
  <2> HIDE DEF m, n
  <2>5. MaxRequests * (m + n) = MaxRequests * m + MaxRequests * n
    BY <2>2
  <2>6. MaxMovements * (Ended + 1) = MaxMovements * Ended + MaxMovements
    BY <2>1, <2>2
  <2>7. MaxRequests * n <= MaxMovements
    BY <1>5 DEF n
  <2>8. MaxRequests * (m + n) <= MaxMovements * (Ended + 1)
    <3> DEFINE a == MaxRequests * m
               b == MaxRequests * n
               c == MaxMovements * Ended
    <3>1. a \in Nat /\ b \in Nat /\ c \in Nat
      BY <2>1, <2>2
    <3>2. a <= c /\ b <= MaxMovements
      BY <2>4, <2>7
    <3> HIDE DEF a, b, c
    <3>3. a + b <= c + MaxMovements
      BY <2>2, <3>1, <3>2
    <3> QED
      BY <2>5, <2>6, <3>3 DEF a, b, c
  <2> QED
    BY <1>2, <2>1, <2>3, <2>8 DEF Inv, JournalRoom
<1> QED
  BY <1>6, <1>7, <1>8, <1>9, <1>10 DEF Inv

----------------------------------------------------------------------------
(* The invariant of the specification *)

\* The invariant holds of an empty database and idle sessions.
LEMMA InitInv == Init => Inv
<1> SUFFICES ASSUME Init PROVE Inv
  OBVIOUS
<1> USE DEF Init
<1>1. TablesTyped
  <2>1. movements \in Seq(Book!Movement)
    OBVIOUS
  <2> QED
    BY <2>1 DEF TablesTyped, LineLists
<1>2. SessionsTyped
  BY DEF SessionsTyped, Stages
<1>3. \A w \in Workers : DOMAIN copy[w] = {}
  BY DEF Nothing
<1>4. Exclusive /\ CopiesAreCurrent
  BY <1>3, SessionsAssumption DEF Exclusive, CopiesAreCurrent
<1>5. \A w \in Workers : Session(w)
  BY <1>3, SessionsAssumption DEF Session, Serving, OrderHeld, RowsHeld
<1>6. JournalRoom
  <2>1. Busy = {}
    BY DEF Busy
  <2>2. Ended = 0 /\ Len(movements) = 0
    BY <2>1, FS_EmptySet DEF Ended
  <2>3. MaxRequests \in Nat /\ MaxMovements \in Nat
    BY RequestsAssumption, BookAssumption DEF Book!MaxMovementsAssumption
  <2> QED
    BY <2>2, <2>3 DEF JournalRoom
<1> QED
  BY <1>1, <1>2, <1>4, <1>5, <1>6 DEF Inv

\* The invariant depends on the variables only.
LEMMA StutterInv == Inv /\ UNCHANGED vars => Inv'
<1> SUFFICES ASSUME Inv, UNCHANGED vars PROVE Inv'
  OBVIOUS
<1> USE DEF vars
<1>1. TablesTyped' /\ SessionsTyped' /\ Exclusive' /\ CopiesAreCurrent'
  BY DEF Inv, TablesTyped, SessionsTyped, Exclusive, CopiesAreCurrent
<1>2. ASSUME NEW v \in Workers
      PROVE  Session(v)'
  <2>1. Undisturbed(v)
    BY DEF Undisturbed
  <2> QED
    BY <2>1, SessionFrame DEF Inv
<1>3. Busy' = Busy
  BY DEF Busy
<1>4. JournalRoom'
  BY <1>3, RoomKept DEF Inv
<1> QED
  BY <1>1, <1>2, <1>4 DEF Inv

\* Every step of a session, and every change of the catalogue, keeps it.
LEMMA NextInv == Inv /\ [Next]_vars => Inv'
<1> SUFFICES ASSUME Inv, [Next]_vars PROVE Inv'
  OBVIOUS
<1>1. ASSUME NEW w \in Workers, NEW f \in Forms, Begin(w, f)
      PROVE  Inv'
  BY <1>1, BeginPreserves
<1>2. ASSUME NEW w \in Workers, Step(w)
      PROVE  Inv'
  BY <1>2, ReadCataloguePreserves, LockOrderPreserves, SelectPreserves, LockRowPreserves,
     DecidePreserves, InsertPreserves, CommitNewOrderPreserves, CommitStockPreserves DEF Step
<1>3. ASSUME NEW w \in Workers, Abort(w)
      PROVE  Inv'
  BY <1>3, RollbackPreserves DEF Abort
<1>4. ASSUME NEW p \in Products, SetActive(p)
      PROVE  Inv'
  BY <1>4, SetActivePreserves
<1>5. CASE UNCHANGED vars
  BY <1>5, StutterInv
<1> QED
  BY <1>1, <1>2, <1>3, <1>4, <1>5 DEF Next

(***************************************************************************)
(* The inductive invariant holds in every reachable state: rows and orders *)
(* are held by one session each, and what a session has read or decided    *)
(* stays true until it commits.                                            *)
(***************************************************************************)
THEOREM Invariance == Spec => []Inv
<1>1. Init => Inv
  BY InitInv
<1>2. Inv /\ [Next]_vars => Inv'
  BY NextInv
<1> QED
  BY <1>1, <1>2, PTL DEF Spec

(***************************************************************************)
(* Every reachable state is typed, and no balance is stored that the CHECK *)
(* constraints of the inventory table refuse: receive, adjust, transfer,   *)
(* confirm, ship and cancel only write balances they have computed under   *)
(* the row locks.                                                          *)
(***************************************************************************)
THEOREM TypeCorrect == Spec => []TypeOK
<1>1. Inv => TypeOK
  <2> SUFFICES ASSUME Inv PROVE TypeOK
    OBVIOUS
  <2>1. /\ \A s \in Slots : row[s] # Absent => row[s] \in Balance
                                            /\ row[s].reserved <= row[s].on_hand
        /\ status \in [Orders -> Book!OrderStatus \cup {"NONE"}]
        /\ active \subseteq Products
    BY DEF Inv, TablesTyped
  <2>2. ASSUME NEW w \in Workers
        PROVE  /\ pc[w] \in Stages
               /\ form[w] \in Forms \cup {NoForm}
               /\ pc[w] = "idle" <=> form[w] = NoForm
               /\ wanted[w] \subseteq Slots
               /\ DOMAIN copy[w] \subseteq Slots
    BY DEF Inv, SessionsTyped, Session, Serving, Exclusive
  <2> QED
    BY <2>1, <2>2 DEF TypeOK, Inv, SessionsTyped, Stages
<1> QED
  BY <1>1, Invariance, PTL

(***************************************************************************)
(* No session ever computes from a stale balance: between the SELECT ...   *)
(* FOR UPDATE that returns a row and the commit that writes it, the row is *)
(* what the session read.                                                  *)
(***************************************************************************)
THEOREM CopiesCurrent == Spec => []CopiesAreCurrent
<1>1. Inv => CopiesAreCurrent
  BY DEF Inv
<1> QED
  BY <1>1, Invariance, PTL

(***************************************************************************)
(* An employee's cancellation that commits finds the order pending and its *)
(* own, whatever managers did to that order meanwhile.                     *)
(***************************************************************************)
THEOREM EmployeesCancel == Spec => EmployeesCancelOwnPending
<1>1. ASSUME Inv, NEW w \in Workers, CommitStock(w), form[w].op = "cancel",
             Role[form[w].actor] = "EMPLOYEE"
      PROVE  status[form[w].order] = "PENDING" /\ owner[form[w].order] = form[w].actor
  <2>1. Admits(form[w])
    BY <1>1 DEF Inv, Session, OrderHeld, CommitStock, TransitionOps
  <2> QED
    BY <1>1, <2>1 DEF Admits
<1>2. Inv => \A w \in Workers :
                (/\ CommitStock(w)
                 /\ form[w].op = "cancel"
                 /\ Role[form[w].actor] = "EMPLOYEE")
                    => /\ status[form[w].order] = "PENDING"
                       /\ owner[form[w].order] = form[w].actor
  BY <1>1
<1> QED
  BY <1>2, Invariance, PTL DEF EmployeesCancelOwnPending

----------------------------------------------------------------------------
(* Committed changes implement the book *)

\* A request changes nothing of the slots it does not touch.
LEMMA ChangesAreTouched ==
    ASSUME TablesTyped, NEW f \in Forms, UsesStock(f), NEW s \in Slots, s \notin Touches(f)
    PROVE  OnHandChange(f, s) = 0 /\ ReservedChange(f, s) = 0
<1>1. CASE f.op \in {"receive", "adjust", "transfer"}
  BY <1>1 DEF Touches, OnHandChange, ReservedChange
<1>2. CASE f.op \in {"confirm", "ship", "cancel"}
  <2>1. lines[f.order] \in LineLists
    BY <1>2, FormKinds DEF TransitionOps, TablesTyped
  <2>2. Touches(f) = {lines[f.order][i].slot : i \in DOMAIN lines[f.order]}
    BY <1>2 DEF Touches
  <2>3. Book!Ordered(lines[f.order], s) = 0
    BY <2>1, <2>2, AskedNat
  <2> QED
    <3> DEFINE a == Book!Ordered(lines[f.order], s)
    <3>1. a \in Nat /\ a <= 0
      BY <2>1, <2>3, AskedNat
    <3>2. OnHandChange(f, s) = 0 \/ OnHandChange(f, s) = -a
      BY <1>2 DEF OnHandChange
    <3>3. ReservedChange(f, s) = a \/ ReservedChange(f, s) = -a
      BY <1>2 DEF ReservedChange
    <3> HIDE DEF a
    <3>4. -a \in Int /\ -a <= 0 /\ -a >= 0 /\ a >= 0
      BY <3>1
    <3> QED
      BY <3>1, <3>2, <3>3, <3>4
<1>3. f.op \in {"receive", "adjust", "transfer"} \/ f.op \in {"confirm", "ship", "cancel"}
  BY DEF UsesStock, NeedsStock, StockOps
<1> QED
  BY <1>1, <1>2, <1>3

\* The balances of the book are natural numbers.
LEMMA BookBalances ==
    ASSUME Inv, NEW s \in Slots
    PROVE  OnHand[s] \in Nat /\ Reserved[s] \in Nat
<1>1. CASE row[s] = Absent
  BY <1>1 DEF OnHand, Reserved
<1>2. CASE row[s] # Absent
  <2>1. row[s] \in Balance
    BY <1>2 DEF Inv, TablesTyped
  <2> QED
    BY <1>2, <2>1, BalanceFacts DEF OnHand, Reserved
<1> QED
  BY <1>1, <1>2

\* What a commit does to the book, in one place: the change its request asks for
\* if it computed balances, and none otherwise.
LEMMA CommitEffect ==
    ASSUME Inv, NEW w \in Workers, CommitStock(w), NEW f \in Forms, form[w] = f
    PROVE  /\ UsesStock(f) =>
                 \A s \in Slots :
                    /\ OnHand'[s] = OnHand[s] + OnHandChange(f, s)
                    /\ Reserved'[s] = Reserved[s] + ReservedChange(f, s)
           /\ ~ UsesStock(f) => OnHand' = OnHand /\ Reserved' = Reserved
<1>1. /\ \A s \in Slots \ DOMAIN copy[w] : row'[s] = row[s]
      /\ \A s \in DOMAIN copy[w] : row'[s] = NewBalance(w, s)
  BY CommitRows
<1>2. ASSUME UsesStock(f), NEW s \in Slots
      PROVE  /\ OnHand'[s] = OnHand[s] + OnHandChange(f, s)
             /\ Reserved'[s] = Reserved[s] + ReservedChange(f, s)
  <2>1. pc[w] = "commit" /\ DOMAIN copy[w] = Touches(f)
    BY <1>2 DEF CommitStock, Inv, Session, RowsHeld
  <2>2. CASE s \in DOMAIN copy[w]
    <3>1. row'[s] = NewBalance(w, s) /\ row'[s] # Absent
      BY <1>1, <1>2, <2>1, <2>2, NewBalancesFit, BalanceFacts
    <3>2. OnHand'[s] = NewBalance(w, s).on_hand /\ Reserved'[s] = NewBalance(w, s).reserved
      BY <3>1 DEF OnHand, Reserved
    <3>3. BalanceOf(w, s).on_hand = OnHand[s] /\ BalanceOf(w, s).reserved = Reserved[s]
      BY <2>2, HeldBalance
    <3> QED
      BY <3>2, <3>3 DEF NewBalance
  <2>3. CASE s \notin DOMAIN copy[w]
    <3>1. OnHand'[s] = OnHand[s] /\ Reserved'[s] = Reserved[s]
      BY <1>1, <2>3 DEF OnHand, Reserved
    <3>2. OnHandChange(f, s) = 0 /\ ReservedChange(f, s) = 0
      BY <1>2, <2>1, <2>3, ChangesAreTouched DEF Inv
    <3> QED
      BY <3>1, <3>2, BookBalances
  <2> QED
    BY <2>2, <2>3
<1>3. ASSUME ~ UsesStock(f)
      PROVE  OnHand' = OnHand /\ Reserved' = Reserved
  <2>1. DOMAIN copy[w] = {}
    BY <1>3 DEF CommitStock, Inv, Session, RowsHeld
  <2>2. \A s \in Slots : row'[s] = row[s]
    BY <1>1, <2>1
  <2> QED
    BY <2>2 DEF OnHand, Reserved
<1> QED
  BY <1>2, <1>3

\* Multiplication is monotone.
LEMMA TimesMonotone ==
    ASSUME NEW a \in Nat, NEW b \in Nat, NEW c \in Nat, b <= a
    PROVE  c * b <= c * a
<1> DEFINE k == a - b
<1>1. k \in Nat /\ a = b + k
  OBVIOUS
<1> HIDE DEF k
<1>2. c * a = c * b + c * k
  BY <1>1
<1>3. c * b \in Nat /\ c * k \in Nat
  BY <1>1
<1> QED
  BY <1>2, <1>3

\* The journal has room for the rows of every request under way.
LEMMA JournalFits ==
    ASSUME Inv, NEW w \in Workers, CommitStock(w), NEW f \in Forms, form[w] = f
    PROVE  Len(movements) + Len(JournalOf(f)) <= MaxMovements
<1> DEFINE m == Len(movements)
           n == Len(JournalOf(f))
<1>1. Ended \in Nat /\ Ended + 1 <= MaxRequests
  BY RoomGrows DEF Inv, CommitStock, Close, Goto
<1>2. JournalOf(f) \in Seq(Book!Movement) /\ MaxRequests * n <= MaxMovements
  BY JournalRows DEF Inv, CommitStock
<1>3. MaxRequests \in Nat \ {0} /\ MaxMovements \in Nat /\ m \in Nat /\ n \in Nat
  BY <1>1, <1>2, RequestsAssumption, BookAssumption
     DEF Book!MaxMovementsAssumption, Inv, TablesTyped
<1>4. MaxRequests * m <= MaxMovements * Ended
  BY DEF Inv, JournalRoom
<1> HIDE DEF m, n
<1>5. MaxMovements * (Ended + 1) <= MaxMovements * MaxRequests
  BY <1>1, <1>3, TimesMonotone
<1>6. MaxMovements * (Ended + 1) = MaxMovements * Ended + MaxMovements
  BY <1>1, <1>3
<1>7. MaxRequests * (m + n) = MaxRequests * m + MaxRequests * n
  BY <1>3
<1>8. MaxRequests * (m + n) <= MaxMovements * MaxRequests
  <2> DEFINE a == MaxRequests * m
             b == MaxRequests * n
             c == MaxMovements * Ended
             d == MaxMovements * MaxRequests
  <2>1. a \in Nat /\ b \in Nat /\ c \in Nat /\ d \in Nat
    BY <1>1, <1>3
  <2>2. a <= c /\ b <= MaxMovements /\ c + MaxMovements <= d
    BY <1>2, <1>4, <1>5, <1>6 DEF n
  <2> HIDE DEF a, b, c, d
  <2>3. a + b <= d
    BY <1>3, <2>1, <2>2
  <2> QED
    BY <1>7, <2>3 DEF a, b, d
<1>9. ASSUME m + n >= MaxMovements + 1
      PROVE  FALSE
  <2>1. MaxRequests * (m + n) >= MaxRequests * (MaxMovements + 1)
    <3>1. m + n \in Nat /\ MaxMovements + 1 \in Nat /\ MaxMovements + 1 <= m + n
      BY <1>3, <1>9
    <3>2. MaxRequests * (MaxMovements + 1) <= MaxRequests * (m + n)
      BY <1>3, <3>1, TimesMonotone
    <3> QED
      BY <1>3, <3>1, <3>2
  <2>2. MaxRequests * (MaxMovements + 1) = MaxMovements * MaxRequests + MaxRequests
    BY <1>3
  <2> DEFINE x == MaxRequests * (m + n)
             d == MaxMovements * MaxRequests
  <2>3. x \in Nat /\ d \in Nat
    BY <1>3
  <2>4. x <= d /\ x >= d + MaxRequests
    BY <1>8, <2>1, <2>2
  <2> HIDE DEF x, d
  <2> QED
    BY <1>3, <2>3, <2>4
<1>10. m + n <= MaxMovements
  BY <1>3, <1>9
<1> QED
  BY <1>10 DEF m, n

\* The commit of a receipt or an adjustment is that step of the book.
LEMMA StockCommitImplements ==
    ASSUME Inv, NEW w \in Workers, CommitStock(w), NEW f \in Forms, form[w] = f,
           f.op \in {"receive", "adjust"}
    PROVE  Book!StockStep
<1> DEFINE s == f.slot
           q == f.quantity
<1>1. s \in Slots /\ q \in Int /\ Book!Slots = Slots
  BY FormKinds DEF Book!Slots, Slots
<1>2. UsesStock(f) /\ pc[w] = "commit"
  BY DEF UsesStock, StockOps, CommitStock
<1>3. Decided(w) /\ DOMAIN copy[w] = Touches(f) /\ Touches(f) = {s}
  BY <1>2 DEF Inv, Session, RowsHeld, Touches
<1>4. /\ UNCHANGED <<status, lines>>
      /\ movements' = movements \o JournalOf(f)
      /\ Len(movements) + Len(JournalOf(f)) <= MaxMovements
  BY JournalFits DEF CommitStock, StockOps
<1>5. \A t \in Slots : /\ OnHandChange(f, t) = IF t = s THEN q ELSE 0
                       /\ ReservedChange(f, t) = 0
  BY DEF OnHandChange, ReservedChange
<1>6. \A t \in Slots : /\ OnHand'[t] = IF t = s THEN OnHand[t] + q ELSE OnHand[t]
                       /\ Reserved'[t] = Reserved[t]
  BY <1>1, <1>2, <1>5, CommitEffect, BookBalances
<1>7. OnHand' = [OnHand EXCEPT ![s] = @ + q] /\ Reserved' = Reserved
  BY <1>1, <1>6 DEF OnHand, Reserved
<1>8. BalanceOf(w, s).on_hand = OnHand[s] /\ BalanceOf(w, s).reserved = Reserved[s]
  BY <1>3, HeldBalance
<1>9. OnHand[s] + q <= MaxInt
  BY <1>1, <1>3, <1>5, <1>8 DEF Decided, NewBalance
<1>10. CASE f.op = "receive"
  <2>1. q \in Quantities
    BY <1>10, FormKinds
  <2>2. JournalOf(f) = Book!Entry("RECEIVE", s, q)
    BY <1>10 DEF JournalOf
  <2>3. Book!receive_stock(s, q)
    BY <1>4, <1>7, <1>9, <2>2 DEF Book!receive_stock, Book!Record
  <2> QED
    BY <1>1, <2>1, <2>3 DEF Book!StockStep
<1>11. CASE f.op = "adjust"
  <2>1. JournalOf(f) = Book!Entry("ADJUSTMENT", s, q)
    BY <1>11 DEF JournalOf
  <2>2. OnHand[s] + q >= Reserved[s]
    BY <1>3, <1>8, <1>11 DEF Decided, Accepts, AdjustmentFits
  <2>3. Book!adjust_stock(s, q)
    BY <1>4, <1>7, <1>9, <2>1, <2>2 DEF Book!adjust_stock, Book!Record
  <2>4. CASE q \in Quantities
    BY <1>1, <2>3, <2>4 DEF Book!StockStep
  <2>5. CASE -q \in Quantities
    <3> DEFINE r == -q
    <3>1. r \in Quantities /\ q = -r
      BY <1>1, <2>5
    <3> HIDE DEF r
    <3>2. Book!adjust_stock(s, -r)
      BY <2>3, <3>1
    <3> QED
      BY <1>1, <3>1, <3>2 DEF Book!StockStep
  <2> QED
    BY <1>11, <2>4, <2>5, FormKinds
<1> QED
  BY <1>10, <1>11

\* The commit of a transfer is that step of the book.
LEMMA TransferCommitImplements ==
    ASSUME Inv, NEW w \in Workers, CommitStock(w), NEW f \in Forms, form[w] = f,
           f.op = "transfer"
    PROVE  Book!TransferStep
<1> DEFINE s == <<f.product, f.from>>
           t == <<f.product, f.to>>
           q == f.quantity
<1>1. /\ f.product \in Products /\ f.from \in Warehouses /\ f.to \in Warehouses
      /\ f.from # f.to /\ q \in Quantities
  BY FormKinds
<1>2. q \in Nat /\ s \in Slots /\ t \in Slots /\ s # t
  BY <1>1, BookAssumption DEF Book!QuantitiesAssumption, Slots
<1>3. UsesStock(f) /\ pc[w] = "commit"
  BY DEF UsesStock, StockOps, CommitStock
<1>4. Decided(w) /\ DOMAIN copy[w] = Touches(f) /\ Touches(f) = {s, t}
  BY <1>3 DEF Inv, Session, RowsHeld, Touches
<1>5. /\ UNCHANGED <<status, lines>>
      /\ movements' = movements \o Book!TransferMovements(s, t, q)
      /\ Len(movements) + Len(Book!TransferMovements(s, t, q)) <= MaxMovements
  <2>1. JournalOf(f) = Book!TransferMovements(s, t, q)
    BY DEF JournalOf
  <2> QED
    BY <2>1, JournalFits DEF CommitStock, StockOps
<1>6. \A x \in Slots : /\ OnHandChange(f, x) = IF x = s THEN -q ELSE IF x = t THEN q ELSE 0
                       /\ ReservedChange(f, x) = 0
  BY DEF OnHandChange, ReservedChange
<1>7. \A x \in Slots : /\ OnHand'[x] = IF x = s THEN OnHand[x] - q
                                      ELSE IF x = t THEN OnHand[x] + q ELSE OnHand[x]
                       /\ Reserved'[x] = Reserved[x]
  BY <1>2, <1>3, <1>6, CommitEffect, BookBalances
<1> HIDE DEF s, t, q
<1>8. OnHand' = [OnHand EXCEPT ![s] = @ - q, ![t] = @ + q] /\ Reserved' = Reserved
  <2>1. OnHand = [x \in Slots |-> OnHand[x]] /\ OnHand' = [x \in Slots |-> OnHand'[x]]
    BY DEF OnHand
  <2>2. OnHand' = [x \in Slots |-> IF x = s THEN OnHand[x] - q
                                  ELSE IF x = t THEN OnHand[x] + q ELSE OnHand[x]]
    BY <1>7, <2>1
  <2>3. OnHand' = [OnHand EXCEPT ![s] = @ - q, ![t] = @ + q]
    BY <1>2, <2>1, <2>2
  <2>4. Reserved' = Reserved
    BY <1>7 DEF Reserved
  <2> QED
    BY <2>3, <2>4
<1>9. /\ BalanceOf(w, s).on_hand = OnHand[s] /\ BalanceOf(w, s).reserved = Reserved[s]
      /\ BalanceOf(w, t).on_hand = OnHand[t]
  BY <1>4, HeldBalance
<1>10. OnHand[s] - Reserved[s] >= q
  BY <1>4, <1>9 DEF Decided, Accepts, TransferFits, AvailableTo, s, q
<1>11. OnHand[t] + q <= MaxInt
  BY <1>2, <1>4, <1>6, <1>9 DEF Decided, NewBalance
<1>12. Book!transfer_stock(f.product, f.from, f.to, q)
  BY <1>1, <1>5, <1>8, <1>10, <1>11
     DEF Book!transfer_stock, Book!available, Book!Record, s, t
<1> QED
  BY <1>1, <1>12 DEF Book!TransferStep

\* The commit of an order transition is that step of the book.
LEMMA OrderCommitImplements ==
    ASSUME Inv, NEW w \in Workers, CommitStock(w), NEW f \in Forms, form[w] = f,
           f.op \in TransitionOps
    PROVE  Book!OrderStep
<1> DEFINE o == f.order
           items == lines[o]
<1>1. /\ o \in Orders /\ items \in LineLists
      /\ pc[w] = "commit" /\ Admits(f)
      /\ status' = [status EXCEPT ![o] = NextStatus(f)]
      /\ UNCHANGED lines
      /\ movements' = movements \o JournalOf(f)
      /\ Len(movements) + Len(JournalOf(f)) <= MaxMovements
      /\ movements \in Seq(Book!Movement)
  BY FormKinds, JournalFits
     DEF CommitStock, StockOps, TransitionOps, Inv, TablesTyped, Session, OrderHeld
<1>2. ASSUME NeedsStock(f)
      PROVE  /\ Decided(w)
             /\ \A i \in DOMAIN items :
                   /\ BalanceOf(w, items[i].slot).on_hand = OnHand[items[i].slot]
                   /\ BalanceOf(w, items[i].slot).reserved = Reserved[items[i].slot]
             /\ \A s \in Slots : /\ OnHand'[s] = OnHand[s] + OnHandChange(f, s)
                               /\ Reserved'[s] = Reserved[s] + ReservedChange(f, s)
  <2>1. UsesStock(f)
    BY <1>2 DEF UsesStock
  <2>2. Decided(w) /\ DOMAIN copy[w] = Touches(f)
    BY <1>1, <2>1 DEF Inv, Session, RowsHeld
  <2>3. Touches(f) = {items[i].slot : i \in DOMAIN items}
    BY DEF Touches, TransitionOps
  <2> QED
    BY <2>1, <2>2, <2>3, HeldBalance, CommitEffect
<1>3. ASSUME ~ NeedsStock(f)
      PROVE  OnHand' = OnHand /\ Reserved' = Reserved
  <2>1. ~ UsesStock(f)
    BY <1>3 DEF UsesStock, StockOps, TransitionOps
  <2> QED
    BY <2>1, CommitEffect
<1>4. \A s \in Slots : OnHand[s] \in Nat /\ Reserved[s] \in Nat
                       /\ Book!Ordered(items, s) \in Nat
  BY <1>1, BookBalances, AskedNat
<1>5. Book!Slots = Slots
  BY DEF Book!Slots, Slots
<1> HIDE DEF items
<1>6. CASE f.op = "confirm"
  <2>1. NeedsStock(f)
    BY <1>6 DEF NeedsStock
  <2>2. status[o] = "PENDING" /\ NextStatus(f) = "CONFIRMED"
    BY <1>1, <1>6 DEF Admits, NextStatus
  <2>3. JournalOf(f) = Book!OrderMovements(o, "RESERVE", -1)
    BY <1>6 DEF JournalOf
  <2>4. \A s \in Slots : OnHandChange(f, s) = 0
                         /\ ReservedChange(f, s) = Book!Ordered(items, s)
    BY <1>6 DEF OnHandChange, ReservedChange, items
  <2>5. /\ OnHand' = OnHand
        /\ Reserved' = [s \in Slots |-> Reserved[s] + Book!Ordered(items, s)]
    <3>1. \A s \in Slots : OnHand'[s] = OnHand[s]
                         /\ Reserved'[s] = Reserved[s] + Book!Ordered(items, s)
      BY <1>2, <1>4, <2>1, <2>4
    <3> QED
      BY <3>1 DEF OnHand, Reserved
  <2>6. \A i \in DOMAIN items :
           OnHand[items[i].slot] - Reserved[items[i].slot] >= items[i].quantity
    BY <1>2, <1>6, <2>1 DEF Decided, Accepts, ReservationFits, AvailableTo, items
  <2>7. Book!confirm_order(o)
    BY <1>1, <1>5, <2>2, <2>3, <2>5, <2>6
       DEF Book!confirm_order, Book!Record, Book!available, items
  <2> QED
    BY <1>1, <2>7 DEF Book!OrderStep
<1>7. CASE f.op = "process"
  <2>1. ~ NeedsStock(f) /\ JournalOf(f) = <<>>
    BY <1>7 DEF NeedsStock, JournalOf
  <2>2. movements' = movements
    BY <1>1, <2>1
  <2>3. status[o] = "CONFIRMED" /\ NextStatus(f) = "PROCESSING"
    BY <1>1, <1>7 DEF Admits, NextStatus
  <2>4. Book!process_order(o)
    BY <1>1, <1>3, <2>1, <2>2, <2>3 DEF Book!process_order
  <2> QED
    BY <1>1, <2>4 DEF Book!OrderStep
<1>8. CASE f.op = "ship"
  <2>1. NeedsStock(f)
    BY <1>8 DEF NeedsStock
  <2>2. status[o] = "PROCESSING" /\ NextStatus(f) = "SHIPPED"
    BY <1>1, <1>8 DEF Admits, NextStatus
  <2>3. JournalOf(f) = Book!OrderMovements(o, "SHIPMENT", -1)
    BY <1>8 DEF JournalOf
  <2>4. \A s \in Slots : OnHandChange(f, s) = -Book!Ordered(items, s)
                         /\ ReservedChange(f, s) = -Book!Ordered(items, s)
    BY <1>8 DEF OnHandChange, ReservedChange, items
  <2>5. /\ OnHand' = [s \in Slots |-> OnHand[s] - Book!Ordered(items, s)]
        /\ Reserved' = [s \in Slots |-> Reserved[s] - Book!Ordered(items, s)]
    <3>1. \A s \in Slots : OnHand'[s] = OnHand[s] - Book!Ordered(items, s)
                         /\ Reserved'[s] = Reserved[s] - Book!Ordered(items, s)
      BY <1>2, <1>4, <2>1, <2>4
    <3> QED
      BY <3>1 DEF OnHand, Reserved
  <2>6. \A i \in DOMAIN items : /\ Reserved[items[i].slot] >= items[i].quantity
                               /\ OnHand[items[i].slot] >= items[i].quantity
    BY <1>2, <1>8, <2>1 DEF Decided, Accepts, ShipmentFits, ReleaseFits, items
  <2>7. Book!ship_order(o)
    BY <1>1, <1>5, <2>2, <2>3, <2>5, <2>6
       DEF Book!ship_order, Book!CoversShipment, Book!CoversRelease, Book!Record, items
  <2> QED
    BY <1>1, <2>7 DEF Book!OrderStep
<1>9. CASE f.op = "complete"
  <2>1. ~ NeedsStock(f) /\ JournalOf(f) = <<>>
    BY <1>9 DEF NeedsStock, JournalOf
  <2>2. movements' = movements
    BY <1>1, <2>1
  <2>3. status[o] = "SHIPPED" /\ NextStatus(f) = "COMPLETED"
    BY <1>1, <1>9 DEF Admits, NextStatus
  <2>4. Book!complete_order(o)
    BY <1>1, <1>3, <2>1, <2>2, <2>3 DEF Book!complete_order
  <2> QED
    BY <1>1, <2>4 DEF Book!OrderStep
<1>10. CASE f.op = "cancel"
  <2>1. /\ status[o] = "PENDING" \/ status[o] \in Holding
        /\ NextStatus(f) = "CANCELLED"
    BY <1>1, <1>10 DEF Admits, NextStatus
  <2>2. CASE status[o] = "PENDING"
    <3>1. ~ NeedsStock(f) /\ JournalOf(f) = <<>>
      BY <1>10, <2>2 DEF NeedsStock, JournalOf, Holding, Book!Holding
    <3>2. movements' = movements
      BY <1>1, <3>1
    <3>3. Book!cancel_pending(o)
      BY <1>1, <1>3, <2>1, <2>2, <3>1, <3>2 DEF Book!cancel_pending
    <3> QED
      BY <1>1, <3>3 DEF Book!OrderStep, Book!cancel_order
  <2>3. CASE status[o] \in Holding
    <3>1. NeedsStock(f)
      BY <1>10, <2>3 DEF NeedsStock
    <3>2. JournalOf(f) = Book!OrderMovements(o, "RELEASE", 1)
      BY <1>10, <2>3 DEF JournalOf
    <3>3. \A s \in Slots : OnHandChange(f, s) = 0
                           /\ ReservedChange(f, s) = -Book!Ordered(items, s)
      BY <1>10 DEF OnHandChange, ReservedChange, items
    <3>4. /\ OnHand' = OnHand
          /\ Reserved' = [s \in Slots |-> Reserved[s] - Book!Ordered(items, s)]
      <4>1. \A s \in Slots : OnHand'[s] = OnHand[s]
                           /\ Reserved'[s] = Reserved[s] - Book!Ordered(items, s)
        BY <1>2, <1>4, <3>1, <3>3
      <4> QED
        BY <4>1 DEF OnHand, Reserved
    <3>5. \A i \in DOMAIN items : Reserved[items[i].slot] >= items[i].quantity
      BY <1>2, <1>10, <3>1 DEF Decided, Accepts, ReleaseFits, items
    <3>6. Book!cancel_holding(o)
      BY <1>1, <1>5, <2>1, <2>3, <3>2, <3>4, <3>5
         DEF Book!cancel_holding, Book!CoversRelease, Book!Record, Holding, items
    <3> QED
      BY <1>1, <3>6 DEF Book!OrderStep, Book!cancel_order
  <2> QED
    BY <2>1, <2>2, <2>3
<1> QED
  BY <1>6, <1>7, <1>8, <1>9, <1>10 DEF TransitionOps

\* Every commit of stock or of an order transition is a step of the book.
LEMMA CommitStockImplements ==
    ASSUME Inv, NEW w \in Workers, CommitStock(w)
    PROVE  Book!Next
<1>1. PICK f \in Forms : form[w] = f
  BY DEF CommitStock, Inv, SessionsTyped, Session, Serving
<1>2. f.op \in StockOps \cup TransitionOps
  BY <1>1, FormKinds DEF CommitStock
<1> QED
  BY <1>1, <1>2, StockCommitImplements, TransferCommitImplements, OrderCommitImplements
     DEF Book!Next, StockOps

\* The commit of a new order is that step of the book.
LEMMA NewOrderImplements ==
    ASSUME Inv, NEW w \in Workers, CommitNewOrder(w)
    PROVE  Book!Next
<1>1. PICK f \in Forms : form[w] = f
  BY DEF CommitNewOrder, Inv, SessionsTyped, Session, Serving
<1>2. PICK o \in Orders :
         /\ status[o] = "NONE"
         /\ status' = [status EXCEPT ![o] = "PENDING"]
         /\ lines' = [lines EXCEPT ![o] = f.items]
  BY <1>1 DEF CommitNewOrder
<1>3. f.items \in OrderForms
  BY <1>1, FormKinds DEF CommitNewOrder
<1>4. OnHand' = OnHand /\ Reserved' = Reserved /\ movements' = movements
  BY DEF CommitNewOrder, OnHand, Reserved
<1>5. Book!create_order(o, f.items)
  BY <1>2, <1>4 DEF Book!create_order
<1> QED
  BY <1>3, <1>5 DEF Book!OrderStep, Book!Next

\* Every step that writes nothing to the tables of the book is a stutter of it.
LEMMA QuietImplements ==
    UNCHANGED database => UNCHANGED Book!vars
  BY DEF database, Book!vars, OnHand, Reserved

(***************************************************************************)
(* The transactions implement the book: whatever their interleaving and    *)
(* wherever requests are lost, each commit is one indivisible receipt,     *)
(* adjustment, transfer, new order or order transition, made on the stock  *)
(* and orders of that moment, and no other step changes anything.          *)
(***************************************************************************)
THEOREM Implementation == Spec => ImplementsBook
<1>1. Init => Book!Init
  BY DEF Init, Book!Init, OnHand, Reserved, Book!Slots, Slots
<1>2. Inv /\ [Next]_vars => [Book!Next]_(Book!vars)
  <2> SUFFICES ASSUME Inv, [Next]_vars PROVE [Book!Next]_(Book!vars)
    OBVIOUS
  <2>1. ASSUME NEW w \in Workers, NEW f \in Forms, Begin(w, f)
        PROVE  UNCHANGED Book!vars
    BY <2>1, QuietImplements DEF Begin
  <2>2. ASSUME NEW w \in Workers, Rollback(w)
        PROVE  UNCHANGED Book!vars
    BY <2>2, QuietImplements DEF Rollback
  <2>3. ASSUME NEW w \in Workers, Step(w)
        PROVE  [Book!Next]_(Book!vars)
    <3>1. CASE ReadCatalogue(w)
      BY <2>2, <3>1, QuietImplements DEF ReadCatalogue
    <3>2. CASE LockOrder(w)
      BY <2>2, <3>2, QuietImplements DEF LockOrder
    <3>3. CASE Select(w)
      BY <3>3, QuietImplements DEF Select
    <3>4. CASE \E s \in Slots : LockRow(w, s)
      BY <3>4, QuietImplements DEF LockRow
    <3>5. CASE Decide(w)
      BY <2>2, <3>5, QuietImplements DEF Decide
    <3>6. CASE \E s \in Slots : Insert(w, s)
      BY <2>2, <3>6, QuietImplements DEF Insert
    <3>7. CASE CommitNewOrder(w)
      BY <3>7, NewOrderImplements
    <3>8. CASE CommitStock(w)
      BY <3>8, CommitStockImplements
    <3> QED
      BY <2>3, <3>1, <3>2, <3>3, <3>4, <3>5, <3>6, <3>7, <3>8 DEF Step
  <2>4. ASSUME NEW w \in Workers, Abort(w)
        PROVE  UNCHANGED Book!vars
    BY <2>2, <2>4 DEF Abort
  <2>5. ASSUME NEW p \in Products, SetActive(p)
        PROVE  UNCHANGED Book!vars
    BY <2>5, QuietImplements DEF SetActive
  <2>6. CASE UNCHANGED vars
    BY <2>6, QuietImplements DEF vars, database
  <2> QED
    BY <2>1, <2>3, <2>4, <2>5, <2>6 DEF Next
<1> QED
  BY <1>1, <1>2, Invariance, PTL DEF Spec, ImplementsBook, Book!Spec

----------------------------------------------------------------------------
(* Nobody waits in a circle *)

\* Only a session that holds rows and has something left to lock, or one whose
\* request is decided, holds a row.
LEMMA HoldersOfRows ==
    ASSUME Inv, NEW v \in Workers, NEW s \in Slots, rowLock[s] = v
    PROVE  /\ s \in DOMAIN copy[v]
           /\ pc[v] \in {"lock", "insert", "commit"}
           /\ pc[v] \in {"lock", "insert"} => row[s] # Absent
<1>1. s \in DOMAIN copy[v]
  BY DEF Inv, Exclusive
<1> QED
  BY <1>1 DEF Inv, Session, RowsHeld, Stored

\* The row a session that locks rows waits for is the first it still wants, and
\* comes after every row it holds.
LEMMA WaitsForward ==
    ASSUME Inv, NEW w \in Workers, pc[w] = "lock", NEW s \in FirstOf(wanted[w])
    PROVE  /\ s \in Slots
           /\ \A t \in FirstOf(wanted[w]) : t = s
           /\ \A t \in DOMAIN copy[w] : t \in Slots /\ Before(t, s)
<1>1. wanted[w] \subseteq Slots /\ s \in wanted[w]
  BY DEF FirstOf, Inv, SessionsTyped
<1>2. ASSUME NEW t \in FirstOf(wanted[w])
      PROVE  t = s
  <2>1. t \in wanted[w] /\ (t # s => Before(s, t) /\ Before(t, s))
    BY <1>1 DEF FirstOf
  <2> QED
    BY <1>1, <2>1, BeforeOrder
<1>3. ASSUME NEW t \in DOMAIN copy[w]
      PROVE  t \in Slots /\ Before(t, s)
  BY <1>1 DEF Inv, Exclusive, Session, RowsHeld
<1> QED
  BY <1>1, <1>2, <1>3

(***************************************************************************)
(* Requests never wait for one another in a circle.  A request that waits  *)
(* for an order holds nothing; one that inserts a row waits for one that   *)
(* is about to commit; those that lock rows wait for rows further on in    *)
(* the order of the repository's ORDER BY, so that the one whose row is    *)
(* last waits for none of the others.                                      *)
(***************************************************************************)
THEOREM WaitsEnd == Spec => []NoWaitCycle
<1>1. Inv => NoWaitCycle
  <2> SUFFICES ASSUME Inv, NEW waiting \in (SUBSET Workers) \ {{}},
                      \A w \in waiting : Blockers(w) \cap waiting # {}
               PROVE  FALSE
    BY DEF NoWaitCycle
  <2> DEFINE Next2(w) == Blockers(w) \cap waiting
             L == {w \in waiting : pc[w] = "lock"}
  <2>1. waiting \subseteq Workers /\ waiting # {}
    OBVIOUS
  <2>2. ASSUME NEW w \in waiting
        PROVE  pc[w] \in {"order", "lock", "insert"}
    BY DEF Blockers
  <2>3. ASSUME NEW w \in waiting, pc[w] = "insert"
        PROVE  FALSE
    <3>1. PICK v \in waiting : v \in Blockers(w)
      OBVIOUS
    <3>2. PICK s \in Missing(w) : row[s] = Absent /\ rowLock[s] = v
      BY <2>3, <3>1 DEF Blockers
    <3>3. s \in Slots
      <4>1. PICK f \in Forms : form[w] = f
        BY <2>1, <2>3 DEF Inv, SessionsTyped, Session, Serving
      <4>2. f.op # "create"
        BY <2>1, <2>3, <4>1 DEF Inv, Session, Serving, StockOps
      <4> QED
        BY <3>2, <4>1, <4>2, TouchesSlots DEF Missing, Inv
    <3>4. pc[v] = "commit"
      BY <2>1, <3>2, <3>3, HoldersOfRows
    <3> QED
      BY <2>2, <3>4
  <2>4. ASSUME NEW w \in waiting, pc[w] = "order"
        PROVE  L # {}
    <3>1. PICK v \in waiting : v \in Blockers(w)
      OBVIOUS
    <3>2. orderLock[form[w].order] = v /\ form[w].order \in Orders
      <4>1. PICK f \in Forms : form[w] = f
        BY <2>1, <2>4 DEF Inv, SessionsTyped, Session, Serving
      <4>2. f.order \in Orders
        BY <2>1, <2>4, <4>1, FormKinds DEF Inv, Session, Serving
      <4> QED
        BY <2>4, <3>1, <4>1, <4>2 DEF Blockers
    <3>3. pc[v] # "order"
      BY <2>1, <3>2 DEF Inv, Session, OrderHeld
    <3> QED
      BY <2>2, <2>3, <3>3
  <2>5. L # {} /\ IsFiniteSet(L) /\ L \subseteq Workers
    <3>1. IsFiniteSet(L)
      BY <2>1, SessionsAssumption, FS_Subset
    <3>2. L # {}
      BY <2>1, <2>2, <2>3, <2>4
    <3> QED
      BY <2>1, <3>1, <3>2
  <2>6. ASSUME NEW w \in L
        PROVE  \E v \in L : \E s \in FirstOf(wanted[w]), t \in FirstOf(wanted[v]) : Before(s, t)
    <3>1. PICK v \in waiting : v \in Blockers(w)
      OBVIOUS
    <3>2. PICK s \in FirstOf(wanted[w]) : rowLock[s] = v
      BY <3>1 DEF Blockers
    <3>3. s \in Slots
      BY <2>1, <3>2, WaitsForward
    <3>4. v \in L /\ s \in DOMAIN copy[v]
      BY <2>1, <2>2, <2>3, <3>2, <3>3, HoldersOfRows
    <3>5. PICK t \in FirstOf(wanted[v]) : TRUE
      BY <2>1, <3>4 DEF Blockers
    <3>6. Before(s, t)
      BY <2>1, <3>4, <3>5, WaitsForward
    <3> QED
      BY <3>2, <3>4, <3>5, <3>6
  <2> DEFINE Ahead(w, v) ==
                 \E s \in FirstOf(wanted[w]), t \in FirstOf(wanted[v]) : Before(s, t)
             R == {p \in L \X L : Ahead(p[1], p[2])}
  <2>7. ASSUME NEW x \in L
        PROVE  ~ Ahead(x, x)
    BY <2>1, WaitsForward, BeforeOrder
  <2>8. ASSUME NEW x \in L, NEW y \in L, NEW z \in L, Ahead(x, y), Ahead(y, z)
        PROVE  Ahead(x, z)
    <3>1. PICK s \in FirstOf(wanted[x]), t \in FirstOf(wanted[y]) : Before(s, t)
      BY <2>8
    <3>2. PICK t2 \in FirstOf(wanted[y]), u \in FirstOf(wanted[z]) : Before(t2, u)
      BY <2>8
    <3>3. t2 = t /\ s \in Slots /\ t \in Slots /\ u \in Slots
      BY <2>1, WaitsForward
    <3>4. Before(s, u)
      BY <3>1, <3>2, <3>3, BeforeOrder
    <3> QED
      BY <3>4
  <2> HIDE DEF Ahead, L
  <2>9. PICK w \in L : \A v \in L : <<w, v>> \notin R
    <3>1. R \in SUBSET (L \X L)
      OBVIOUS
    <3>2. \A x \in L : <<x, x>> \notin R
      BY <2>7
    <3>3. \A x, y, z \in L : <<x, y>> \in R /\ <<y, z>> \in R => <<x, z>> \in R
      BY <2>8
    <3> HIDE DEF R
    <3> QED
      BY <2>5, <3>1, <3>2, <3>3, HasTop
  <2>10. \E v \in L : Ahead(w, v)
    BY <2>6 DEF Ahead
  <2> QED
    BY <2>9, <2>10
<1> QED
  BY <1>1, Invariance, PTL

----------------------------------------------------------------------------
(* What is proved of the book holds of the transactions *)

BookProofs == INSTANCE StockBookProofs WITH on_hand <- OnHand, reserved <- Reserved

\* The proofs of StockBook are about the same book.
LEMMA SameBook == Book!Spec <=> BookProofs!Spec
<1>1. Book!Init <=> BookProofs!Init
  BY DEF Book!Init, BookProofs!Init, Book!Slots, BookProofs!Slots
<1>2. Book!Next <=> BookProofs!Next
  <2>1. Book!StockStep <=> BookProofs!StockStep
    BY Zenon DEF Book!StockStep, BookProofs!StockStep, Book!Slots, BookProofs!Slots,
       Book!receive_stock, BookProofs!receive_stock, Book!adjust_stock, BookProofs!adjust_stock,
       Book!Entry, BookProofs!Entry, Book!Record, BookProofs!Record
  <2>2. Book!TransferStep <=> BookProofs!TransferStep
    BY Zenon DEF Book!TransferStep, BookProofs!TransferStep,
       Book!transfer_stock, BookProofs!transfer_stock, Book!available, BookProofs!available,
       Book!TransferMovements, BookProofs!TransferMovements, Book!Record, BookProofs!Record
  <2>3. Book!OrderStep <=> BookProofs!OrderStep
    BY Zenon DEF Book!OrderStep, BookProofs!OrderStep, Book!Slots, BookProofs!Slots,
       Book!create_order, BookProofs!create_order,
       Book!confirm_order, BookProofs!confirm_order,
       Book!process_order, BookProofs!process_order,
       Book!ship_order, BookProofs!ship_order,
       Book!complete_order, BookProofs!complete_order,
       Book!cancel_order, BookProofs!cancel_order,
       Book!cancel_pending, BookProofs!cancel_pending,
       Book!cancel_holding, BookProofs!cancel_holding,
       Book!CoversRelease, BookProofs!CoversRelease,
       Book!CoversShipment, BookProofs!CoversShipment,
       Book!Holding, BookProofs!Holding,
       Book!available, BookProofs!available, Book!Ordered, BookProofs!Ordered,
       Book!OrderMovements, BookProofs!OrderMovements, Book!Record, BookProofs!Record
  <2> QED
    BY <2>1, <2>2, <2>3 DEF Book!Next, BookProofs!Next
<1>3. Book!vars = BookProofs!vars /\ (Book!vars)' = (BookProofs!vars)'
  BY DEF Book!vars, BookProofs!vars
<1>4. [Book!Next]_(Book!vars) <=> [BookProofs!Next]_(BookProofs!vars)
  BY <1>2, <1>3
<1> QED
  BY <1>1, <1>4, PTL DEF Book!Spec, BookProofs!Spec

\* They rest on assumptions that hold here.
LEMMA SameAssumptions ==
    /\ BookProofs!QuantitiesAssumption /\ BookProofs!OrderFormsAssumption
    /\ BookProofs!MaxIntAssumption /\ BookProofs!MaxMovementsAssumption
  BY BookAssumption
     DEF Book!QuantitiesAssumption, BookProofs!QuantitiesAssumption,
         Book!MaxIntAssumption, BookProofs!MaxIntAssumption,
         Book!MaxMovementsAssumption, BookProofs!MaxMovementsAssumption,
         Book!OrderFormsAssumption, BookProofs!OrderFormsAssumption,
         Book!Line, BookProofs!Line, Book!Slots, BookProofs!Slots

(***************************************************************************)
(* However requests interleave, quantity_reserved is what the confirmed    *)
(* and processing orders ask of each balance.                              *)
(***************************************************************************)
THEOREM ReservationsExactInTransactions == Spec => []Book!ReservedIsHeld
<1>1. BookProofs!Spec => []BookProofs!ReservedIsHeld
  BY BookProofs!ReservationsExact, SameAssumptions
<1>2. Book!ReservedIsHeld <=> BookProofs!ReservedIsHeld
  BY Zenon DEF Book!ReservedIsHeld, BookProofs!ReservedIsHeld,
     Book!HeldUnits, BookProofs!HeldUnits, Book!Units, BookProofs!Units,
     Book!Holding, BookProofs!Holding, Book!Ordered, BookProofs!Ordered,
     Book!Slots, BookProofs!Slots, Book!Cardinality, BookProofs!Cardinality
<1> QED
  BY <1>1, <1>2, Implementation, SameBook, PTL DEF ImplementsBook

(***************************************************************************)
(* RESERVATION_INVALID is never answered, however requests interleave.     *)
(***************************************************************************)
THEOREM ReservationsSufficeInTransactions == Spec => []Book!ReservationsCover
<1>1. BookProofs!Spec => []BookProofs!ReservationsCover
  BY BookProofs!ReservationsSuffice, SameAssumptions
<1>2. Book!ReservationsCover <=> BookProofs!ReservationsCover
  BY Zenon DEF Book!ReservationsCover, BookProofs!ReservationsCover,
     Book!CoversShipment, BookProofs!CoversShipment,
     Book!CoversRelease, BookProofs!CoversRelease, Book!Holding, BookProofs!Holding
<1> QED
  BY <1>1, <1>2, Implementation, SameBook, PTL DEF ImplementsBook

(***************************************************************************)
(* The journal explains every balance and every order, however requests    *)
(* interleave: its rows are written by the commit that changes the         *)
(* balances, and by no other step.                                         *)
(***************************************************************************)
THEOREM JournalSoundInTransactions ==
    Spec => [](/\ Book!JournalExplainsStock
               /\ Book!JournalExplainsReservations
               /\ Book!OrderJournal)
<1>1. BookProofs!Spec => []BookProofs!JournalExplainsStock
  BY BookProofs!JournalSound, SameAssumptions
<1>2. BookProofs!Spec => []BookProofs!JournalExplainsReservations
  BY BookProofs!ReservationsJournalled, SameAssumptions
<1>3. BookProofs!Spec => []BookProofs!OrderJournal
  BY BookProofs!OrdersJournalled, SameAssumptions
<1>4. Book!JournalExplainsStock <=> BookProofs!JournalExplainsStock
  BY Zenon DEF Book!JournalExplainsStock, BookProofs!JournalExplainsStock,
     Book!Flow, BookProofs!Flow, Book!Units, BookProofs!Units,
     Book!Physical, BookProofs!Physical, Book!Slots, BookProofs!Slots,
     Book!Cardinality, BookProofs!Cardinality
<1>5. Book!JournalExplainsReservations <=> BookProofs!JournalExplainsReservations
  BY Zenon DEF Book!JournalExplainsReservations, BookProofs!JournalExplainsReservations,
     Book!Flow, BookProofs!Flow, Book!Units, BookProofs!Units,
     Book!Slots, BookProofs!Slots, Book!Cardinality, BookProofs!Cardinality
<1>6. Book!OrderJournal <=> BookProofs!OrderJournal
  BY Zenon DEF Book!OrderJournal, BookProofs!OrderJournal, Book!RowsOf, BookProofs!RowsOf,
     Book!Holding, BookProofs!Holding, Book!Cardinality, BookProofs!Cardinality
<1> QED
  BY <1>1, <1>2, <1>3, <1>4, <1>5, <1>6, Implementation, SameBook, PTL DEF ImplementsBook

=============================================================================
