-------------------------- MODULE CatalogTxProofs --------------------------
(***************************************************************************)
(* Proofs about CatalogTx, for every catalogue to begin with, any requests *)
(* and any finite number of sessions.                                      *)
(***************************************************************************)
EXTENDS CatalogTx, TLAPS

LOCAL Finite == INSTANCE FiniteOrders

----------------------------------------------------------------------------
(* The constants *)

\* The requests that may arrive, as the schemas leave them.
Requests == {Normalised(f) : f \in Forms}

\* The rows of the table an item belongs to.
RowsOf(i) == IF i \in Products THEN ProductRow ELSE WarehouseRow

\* A slot is a pair of a product and a warehouse.
LEMMA SlotFacts ==
    /\ Items = Warehouses \cup Products
    /\ \A s \in Book!Slots : s[1] \in Products /\ s[2] \in Warehouses /\ s = <<s[1], s[2]>>
    /\ \A slots \in SUBSET Book!Slots : Book!RefersTo(slots) \subseteq Items
<1>1. Items = Warehouses \cup Products
  BY DEF Items, Book!Items
<1>2. \A s \in Book!Slots : s[1] \in Products /\ s[2] \in Warehouses /\ s = <<s[1], s[2]>>
  BY DEF Book!Slots
<1>3. ASSUME NEW slots \in SUBSET Book!Slots
      PROVE  Book!RefersTo(slots) \subseteq Items
  BY <1>1, <1>2 DEF Book!RefersTo
<1> QED
  BY <1>1, <1>2, <1>3

\* A code in its stored form may be stored.
LEMMA StoredForm == \A text \in DOMAIN Normal : Normal[text] \in Stored
  BY NormalAssumption DEF Stored

\* What a table holds is a row, and a row has the columns of its table.
LEMMA RowFacts ==
    ASSUME NEW i \in Items, NEW r \in RowsOf(i)
    PROVE  /\ r \in ProductRow \cup WarehouseRow
           /\ r \notin {Unborn, Deleted}
           /\ r.key \in Stored
           /\ i \in Products => r.price \in Nat /\ r.active \in BOOLEAN
<1>1. r \in ProductRow \cup WarehouseRow
  BY DEF RowsOf
<1>2. r \notin {Unborn, Deleted}
  BY <1>1, CatalogMarksAssumption
<1>3. r.key \in Stored
  BY <1>1 DEF ProductRow, WarehouseRow
<1>4. i \in Products => r.price \in Nat /\ r.active \in BOOLEAN
  BY DEF RowsOf, ProductRow
<1> QED
  BY <1>1, <1>2, <1>3, <1>4

\* What the schemas make of each kind of request.
LEMMA NewRow ==
    ASSUME NEW f \in Forms, CreateForm(f)
    PROVE  LET g == Normalised(f) IN
           /\ f.op = "create" /\ g.op = "create"
           /\ g.item = f.item /\ g.item \in Items
           /\ g.row \in RowsOf(g.item)
<1>1. f.op = "create" /\ f.item \in Items
  BY SlotFacts DEF CreateForm
<1>2. Normalised(f) = [op |-> f.op, item |-> f.item, row |-> InStoredForm(f.row)]
  BY <1>1 DEF Normalised
<1>3. InStoredForm(f.row) \in RowsOf(f.item)
  <2>1. CASE f \in [op : {"create"}, item : Warehouses, row : [key : DOMAIN Normal]]
    <3>1. f.row \in [key : DOMAIN Normal] /\ Normal[f.row.key] \in Stored
      BY <2>1, StoredForm
    <3>2. InStoredForm(f.row) \in WarehouseRow
      BY <3>1 DEF InStoredForm, WarehouseRow
    <3>3. f.item \notin Products
      BY <2>1, CatalogIdsAssumption
    <3> QED
      BY <3>2, <3>3 DEF RowsOf
  <2>2. CASE f \in [op : {"create"}, item : Products,
                   row : [key : DOMAIN Normal, price : Nat, active : BOOLEAN]]
    <3>1. /\ f.row \in [key : DOMAIN Normal, price : Nat, active : BOOLEAN]
          /\ Normal[f.row.key] \in Stored
      BY <2>2, StoredForm
    <3>2. InStoredForm(f.row) \in ProductRow
      BY <3>1 DEF InStoredForm, ProductRow
    <3> QED
      BY <2>2, <3>2 DEF RowsOf
  <2> QED
    BY <2>1, <2>2 DEF CreateForm
<1> QED
  BY <1>1, <1>2, <1>3

\* A change that fits the table of its item.
Fits(i, changes) ==
    \A x \in DOMAIN changes :
        \/ x = "key" /\ changes[x] \in Stored
        \/ x = "price" /\ i \in Products /\ changes[x] \in Nat
        \/ x = "active" /\ i \in Products /\ changes[x] \in BOOLEAN

\* What PATCH may change: only columns the row has, each to a value it may
\* store (the update schemas).
LEMMA NewChanges ==
    ASSUME NEW f \in Forms, UpdateForm(f)
    PROVE  LET g == Normalised(f) IN
           /\ f.op = "update" /\ g.op = "update"
           /\ g.item = f.item /\ g.item \in Items
           /\ Fits(g.item, g.changes)
<1>1. f.op = "update" /\ f.item \in Items
  BY DEF UpdateForm
<1>2. Normalised(f) = [op |-> f.op, item |-> f.item, changes |-> InStoredForm(f.changes)]
  BY <1>1 DEF Normalised
<1>3. Fits(f.item, InStoredForm(f.changes))
  <2> DEFINE stored == InStoredForm(f.changes)
  <2>1. /\ DOMAIN stored = DOMAIN f.changes
        /\ \A x \in DOMAIN f.changes :
              stored[x] = IF x = "key" THEN Normal[f.changes[x]] ELSE f.changes[x]
    BY DEF InStoredForm
  <2>2. ASSUME NEW x \in DOMAIN f.changes
        PROVE  \/ x = "key" /\ f.changes[x] \in DOMAIN Normal
               \/ x = "price" /\ f.item \in Products /\ f.changes[x] \in Nat
               \/ x = "active" /\ f.item \in Products /\ f.changes[x] \in BOOLEAN
    <3>1. DOMAIN f.changes \subseteq
             IF f.item \in Products THEN {"key", "price", "active"} ELSE {"key"}
      BY DEF UpdateForm
    <3>2. /\ x = "key" => f.changes[x] \in DOMAIN Normal
          /\ x = "price" => f.changes[x] \in Nat
          /\ x = "active" => f.changes[x] \in BOOLEAN
      BY DEF UpdateForm
    <3> QED
      BY <3>1, <3>2
  <2> HIDE DEF stored
  <2> QED
    BY <2>1, <2>2, StoredForm DEF Fits, stored
<1> QED
  BY <1>1, <1>2, <1>3

\* A request, as its session holds it.
LEMMA RequestKinds ==
    ASSUME NEW g \in Requests
    PROVE  /\ g # NoForm
           /\ g.op \in {"create", "update", "delete", "stock", "order"}
           /\ g.op \in {"create", "update", "delete"} => g.item \in Items
           /\ g.op = "create" => g.row \in RowsOf(g.item)
           /\ g.op = "update" => Fits(g.item, g.changes)
           /\ g.op = "delete" => g.item \in Warehouses /\ g.item \notin Products
           /\ g.op \in {"stock", "order"} => g.slots \subseteq Book!Slots
           /\ g.op = "stock" =>
                  \/ g.needs = {} /\ \E s \in Book!Slots : g.slots = {s}
                  \/ \E s, t \in Book!Slots :
                         s[1] = t[1] /\ s # t /\ g.slots = {s, t} /\ g.needs = {s}
<1>1. PICK f \in Forms : g = Normalised(f)
  BY DEF Requests
<1>2. g # NoForm
  BY <1>1, CatalogSessionsAssumption
<1>3. CASE CreateForm(f)
  BY <1>1, <1>2, <1>3, NewRow
<1>4. CASE UpdateForm(f)
  BY <1>1, <1>2, <1>4, NewChanges
<1>5. CASE DeleteForm(f)
  <2>1. g = f
    BY <1>1, <1>5 DEF DeleteForm, Normalised
  <2> QED
    BY <1>2, <1>5, <2>1, SlotFacts, CatalogIdsAssumption DEF DeleteForm
<1>6. CASE StockForm(f)
  <2>1. g = f
    BY <1>1, <1>6 DEF StockForm, Normalised
  <2> QED
    BY <1>2, <1>6, <2>1 DEF StockForm
<1>7. CASE OrderForm(f)
  <2>1. g = f
    BY <1>1, <1>7 DEF OrderForm, Normalised
  <2> QED
    BY <1>2, <1>7, <2>1 DEF OrderForm
<1> QED
  BY <1>3, <1>4, <1>5, <1>6, <1>7, CatalogFormsAssumption

\* A request begins with the SELECTs of what it names.
LEMMA Arrival ==
    ASSUME NEW f \in Forms
    PROVE  /\ Normalised(f) \in Requests
           /\ Normalised(f).op = f.op
           /\ f.op = "create" => Normalised(f).item = f.item
           /\ Statements(f) \in Seq(SUBSET Items)
           /\ f.op # "create" => Statements(f) # <<>>
<1>1. Normalised(f) \in Requests
  BY DEF Requests
<1>2. CASE CreateForm(f)
  <2>1. Statements(f) = <<>>
    BY <1>2, NewRow DEF Statements
  <2> QED
    BY <1>1, <1>2, <2>1, NewRow
<1>3. CASE UpdateForm(f) \/ DeleteForm(f)
  <2>1. f.op \in {"update", "delete"} /\ f.item \in Items
    BY <1>3, SlotFacts DEF UpdateForm, DeleteForm
  <2>2. Statements(f) = <<{f.item}>>
    BY <2>1 DEF Statements
  <2>3. Normalised(f).op = f.op
    BY <2>1 DEF Normalised
  <2> QED
    BY <1>1, <2>1, <2>2, <2>3
<1>4. CASE StockForm(f) \/ OrderForm(f)
  <2>1. f.op \in {"stock", "order"} /\ Normalised(f) = f
    BY <1>4 DEF StockForm, OrderForm, Normalised
  <2>2. /\ f.slots \subseteq Book!Slots
        /\ f.op = "stock" => f.needs \subseteq f.slots
    BY <1>4 DEF StockForm, OrderForm
  <2>3. \A slots \in SUBSET Book!Slots :
           {s[1] : s \in slots} \in SUBSET Items /\ {s[2] : s \in slots} \in SUBSET Items
    BY SlotFacts
  <2>4. CASE f.op = "stock"
    <3> DEFINE sources == f.needs
               others == f.slots \ f.needs
               products == {s[1] : s \in f.slots}
               places == {s[2] : s \in f.slots}
               first == {s[2] : s \in sources}
               rest == {s[2] : s \in others}
    <3>1. /\ products \in SUBSET Items /\ places \in SUBSET Items
          /\ first \in SUBSET Items /\ rest \in SUBSET Items
      <4>1. sources \in SUBSET Book!Slots /\ others \in SUBSET Book!Slots
        BY <2>2, <2>4
      <4> QED
        BY <2>2, <2>3, <4>1
    <3>2. Statements(f) = <<products, places>> \/ Statements(f) = <<products, first, rest>>
      BY <2>4 DEF Statements
    <3> HIDE DEF products, places, first, rest
    <3>3. <<products, places>> \in Seq(SUBSET Items) /\ <<products, places>> # <<>>
      BY <3>1
    <3>4. <<products, first, rest>> \in Seq(SUBSET Items) /\ <<products, first, rest>> # <<>>
      BY <3>1
    <3>5. Statements(f) \in Seq(SUBSET Items) /\ Statements(f) # <<>>
      BY <3>2, <3>3, <3>4
    <3> QED
      BY <1>1, <2>1, <2>4, <3>5
  <2>5. CASE f.op = "order"
    <3> DEFINE products == {s[1] : s \in f.slots}
               places == {s[2] : s \in f.slots}
    <3>1. products \in SUBSET Items /\ places \in SUBSET Items
      BY <2>2, <2>3
    <3>2. Statements(f) = <<products, places>>
      BY <2>5 DEF Statements
    <3> HIDE DEF products, places
    <3>3. Statements(f) \in Seq(SUBSET Items) /\ Statements(f) # <<>>
      BY <3>1, <3>2
    <3> QED
      BY <1>1, <2>1, <2>5, <3>3
  <2> QED
    BY <2>1, <2>4, <2>5
<1> QED
  BY <1>2, <1>3, <1>4, CatalogFormsAssumption

----------------------------------------------------------------------------
(* The inductive invariant *)

Stages == {"idle", "read", "count", "write", "claim", "restrict", "probe",
           "select", "lock", "insert", "refer", "commit", "reload"}

\* The order lines a row of orders stands for, with their prices.
PricedLines == UNION {[slots -> Nat] : slots \in SUBSET Book!Slots}

TablesTyped ==
    /\ row \in [Items -> ProductRow \cup WarehouseRow \cup {Unborn, Deleted}]
    /\ \A i \in Items : Live(i) => row[i] \in RowsOf(i)
    /\ \A p \in Products : row[p] # Deleted
    /\ stocked \subseteq Book!Slots
    /\ orders \in Seq(PricedLines)

SessionsTyped ==
    /\ writer \in [Items -> Workers \cup {Nobody}]
    /\ sharers \in [Items -> SUBSET Workers]
    /\ slotLock \in [Book!Slots -> Workers \cup {Nobody}]
    /\ pc \in [Workers -> Stages]
    /\ form \in [Workers -> Requests \cup {NoForm}]
    /\ todo \in [Workers -> Seq(SUBSET Items)]
    /\ DOMAIN seen = Workers
    /\ DOMAIN wanted = Workers
    /\ DOMAIN lived = Workers

\* The stock rows and the order lines.
Lines == UNION {DOMAIN orders[n] : n \in DOMAIN orders}

Referred == \A s \in stocked \cup Lines : Live(s[1]) /\ Live(s[2])

KeysDiffer ==
    \A i, j \in Items :
        Live(i) /\ Live(j) /\ i # j /\ Book!SameTable(i, j) => row[i].key # row[j].key

PricesOffered == \A p \in Products : Live(p) => <<p, row[p].price>> \in offered

\* Nobody refers to a row while it is deleted or its code is changed.
Exclusion ==
    \A i \in Items, w \in Workers : writer[i] = w /\ Exclusive(w) => sharers[i] = {}

\* What each stage serves.
Serving(w) ==
    /\ pc[w] = "idle" <=> form[w] = NoForm
    /\ pc[w] = "read" => form[w].op # "create" /\ todo[w] # <<>>
    /\ pc[w] \in {"count", "restrict", "probe"} => form[w].op = "delete"
    /\ pc[w] = "write" => form[w].op \in {"update", "delete"}
    /\ pc[w] = "claim" => Claims(w)
    /\ pc[w] \in {"select", "lock", "insert"} => form[w].op = "stock"
    /\ pc[w] = "refer" => form[w].op \in {"stock", "order"}
    /\ pc[w] = "reload" => form[w].op # "delete"

Answering == {"idle", "reload"}     \* stages with nothing read and nothing locked

\* A row a session has read was committed while its request ran.
SeenOf(w) ==
    /\ \A i \in DOMAIN seen[w] :
           /\ i \in Items
           /\ seen[w][i] \in RowsOf(i)
           /\ <<i, seen[w][i]>> \in lived[w]
           /\ row[i] # Unborn
           /\ i \in Products => <<i, seen[w][i].price>> \in offered
    /\ pc[w] \in Answering => DOMAIN seen[w] = {}
    /\ pc[w] \notin Answering => Witnessed(row) \subseteq lived[w]

\* Past its SELECTs, a request has read all the rows it names.
HasRead(w) ==
    /\ pc[w] \in {"count", "write", "claim", "restrict", "probe", "commit"}
       /\ form[w].op \in {"update", "delete"} => form[w].item \in DOMAIN seen[w]
    /\ pc[w] \in {"select", "lock", "insert", "refer", "commit"}
       /\ form[w].op \in {"stock", "order"} =>
           \A i \in Book!RefersTo(form[w].slots) :
               i \in DOMAIN seen[w] /\ (i \in Products => seen[w][i].active)

\* Its write lock keeps a row from going away, and a request commits what it has
\* locked.
Writing(w) ==
    /\ \A i \in Items : writer[i] = w =>
           /\ pc[w] \in {"claim", "restrict", "probe", "commit"}
           /\ form[w].op \in {"update", "delete"} /\ form[w].item = i
           /\ Live(i)
    /\ pc[w] \in {"restrict", "probe"} => writer[form[w].item] = w
    /\ pc[w] = "claim" /\ form[w].op = "update" => writer[form[w].item] = w
    /\ pc[w] = "commit" /\ form[w].op = "update" =>
           writer[form[w].item] = w \/ Written(w) = {}
    /\ pc[w] = "commit" /\ form[w].op = "delete" =>
           \/ row[form[w].item] = Deleted
           \/ /\ writer[form[w].item] = w
              /\ StocksOf(form[w].item) = {} /\ LinesOf(form[w].item) = {}
    /\ pc[w] \in {"claim", "commit"} /\ form[w].op = "create" => row[form[w].item] = Unborn

\* Its KEY SHARE locks keep the rows a request refers to.
Referring(w) ==
    /\ \A i \in Items : w \in sharers[i] =>
           /\ pc[w] \in {"refer", "commit"}
           /\ form[w].op \in {"stock", "order"} /\ i \in Book!RefersTo(form[w].slots)
           /\ Live(i)
    /\ pc[w] = "refer" =>
           /\ wanted[w] \subseteq Book!RefersTo(form[w].slots)
           /\ \A i \in Book!RefersTo(form[w].slots) : i \in wanted[w] \/ w \in sharers[i]
    /\ pc[w] = "commit" /\ form[w].op \in {"stock", "order"} =>
           \A i \in Book!RefersTo(form[w].slots) : w \in sharers[i]

\* Inventory rows are locked in their order, and at most one is inserted.
Locking(w) ==
    /\ \A s \in Book!Slots : slotLock[s] = w =>
           /\ pc[w] \in {"lock", "insert", "refer", "commit"}
           /\ form[w].op = "stock" /\ s \in form[w].slots
    /\ pc[w] = "lock" =>
           /\ wanted[w] \subseteq form[w].slots \cap stocked
           /\ \A s \in Book!Slots : slotLock[s] = w =>
                 s \in stocked /\ \A t \in wanted[w] : s[2] < t[2]
    /\ pc[w] = "insert" =>
           /\ \E s \in form[w].slots : wanted[w] = {s}
           /\ \A s \in Book!Slots : slotLock[s] = w => s \in stocked
    /\ pc[w] = "probe" => wanted[w] \subseteq Book!Slots
    /\ pc[w] \notin {"probe", "lock", "insert", "refer"} => wanted[w] = {}

Session(w) ==
    /\ Serving(w) /\ SeenOf(w) /\ HasRead(w)
    /\ Writing(w) /\ Referring(w) /\ Locking(w)

Claiming(w) == pc[w] = "commit" /\ Claims(w)

\* The unique index: who is about to commit a code has it alone.
KeysClaimed ==
    \A w \in Workers : Claiming(w) =>
        /\ HoldersOfKey(w) = {}
        /\ \A u \in Workers \ {w} :
              Claiming(u) /\ Book!SameTable(form[u].item, form[w].item) => KeyOf(u) # KeyOf(w)

\* Every new row has an id of its own.
NewIds ==
    \A u, w \in Workers :
        /\ u # w
        /\ form[u] # NoForm /\ form[u].op = "create"
        /\ form[w] # NoForm /\ form[w].op = "create"
        => form[u].item # form[w].item

Inv ==
    /\ TablesTyped
    /\ SessionsTyped
    /\ Referred
    /\ KeysDiffer
    /\ PricesOffered
    /\ Exclusion
    /\ \A w \in Workers : Session(w)
    /\ KeysClaimed
    /\ NewIds

----------------------------------------------------------------------------
(* Sessions a step does not concern *)

\* Nothing of a session changes, nor which locks it holds.
Undisturbed(v) ==
    /\ pc'[v] = pc[v]
    /\ form'[v] = form[v]
    /\ todo'[v] = todo[v]
    /\ seen'[v] = seen[v]
    /\ wanted'[v] = wanted[v]
    /\ lived'[v] = lived[v]
    /\ \A i \in Items :
          /\ writer'[i] = v <=> writer[i] = v
          /\ v \in sharers'[i] <=> v \in sharers[i]
    /\ \A s \in Book!Slots : slotLock'[s] = v <=> slotLock[s] = v

\* What a request writes and claims depends on itself and on what it has read.
LEMMA RequestFrame ==
    ASSUME NEW v \in Workers, form'[v] = form[v], seen'[v] = seen[v]
    PROVE  /\ Written(v)' = Written(v)
           /\ Claims(v)' = Claims(v)
           /\ KeyOf(v)' = KeyOf(v)
           /\ Exclusive(v)' = Exclusive(v)
<1>1. Written(v)' = Written(v)
  BY DEF Written
<1>2. Claims(v)' = Claims(v)
  BY <1>1 DEF Claims
<1> QED
  BY <1>1, <1>2 DEF KeyOf, Exclusive

\* A session that serves a request serves one the schemas admit.
LEMMA Served ==
    ASSUME SessionsTyped, NEW v \in Workers, Serving(v), pc[v] # "idle"
    PROVE  form[v] \in Requests
  BY DEF SessionsTyped, Serving

\* What leaves the tables alone leaves every reading of them alone.
LEMMA TablesFrame ==
    ASSUME UNCHANGED database
    PROVE  /\ \A i : Live(i)' = Live(i)
           /\ Lines' = Lines
           /\ \A i : StocksOf(i)' = StocksOf(i) /\ LinesOf(i)' = LinesOf(i)
           /\ Witnessed(row)' = Witnessed(row)
           /\ row' = row /\ stocked' = stocked /\ orders' = orders /\ offered' = offered
  BY DEF database, Live, Book!Live, Lines, StocksOf, LinesOf, Witnessed

\* Such a session keeps its invariant.
LEMMA SessionFrame ==
    ASSUME SessionsTyped, NEW v \in Workers, Session(v), Undisturbed(v), UNCHANGED database
    PROVE  Session(v)'
<1> USE DEF Undisturbed
<1>1. Serving(v)'
  BY RequestFrame DEF Session, Serving
<1>2. SeenOf(v)'
  BY TablesFrame DEF Session, SeenOf
<1>3. HasRead(v)'
  BY DEF Session, HasRead
<1>4. pc[v] # "idle" => form[v] \in Requests
  BY Served DEF Session
<1>5. Writing(v)'
  <2>1. pc[v] \in {"restrict", "probe", "claim", "commit"} /\ form[v].op \in {"update", "delete"} =>
           form[v].item \in Items
    BY <1>4, RequestKinds
  <2>2. pc[v] \in {"restrict", "probe"} => form[v].op = "delete"
    BY DEF Session, Serving
  <2>3. \A i \in Items : writer'[i] = v =>
           /\ pc'[v] \in {"claim", "restrict", "probe", "commit"}
           /\ form'[v].op \in {"update", "delete"} /\ form'[v].item = i
           /\ Live(i)'
    BY TablesFrame DEF Session, Writing
  <2>4. pc'[v] \in {"restrict", "probe"} => writer'[form'[v].item] = v
    BY <2>1, <2>2 DEF Session, Writing
  <2>5. pc'[v] = "claim" /\ form'[v].op = "update" => writer'[form'[v].item] = v
    BY <2>1 DEF Session, Writing
  <2>6. pc'[v] = "commit" /\ form'[v].op = "update" =>
           writer'[form'[v].item] = v \/ Written(v)' = {}
    BY <2>1, RequestFrame DEF Session, Writing
  <2>7. pc'[v] = "commit" /\ form'[v].op = "delete" =>
           \/ row'[form'[v].item] = Deleted
           \/ /\ writer'[form'[v].item] = v
              /\ StocksOf(form[v].item)' = {} /\ LinesOf(form[v].item)' = {}
    BY <2>1, TablesFrame DEF Session, Writing
  <2>8. pc'[v] \in {"claim", "commit"} /\ form'[v].op = "create" => row'[form'[v].item] = Unborn
    BY TablesFrame DEF Session, Writing
  <2> QED
    BY <2>3, <2>4, <2>5, <2>6, <2>7, <2>8 DEF Writing
<1>6. Referring(v)'
  <2>1. pc[v] \in {"refer", "commit"} /\ form[v].op \in {"stock", "order"} =>
           Book!RefersTo(form[v].slots) \subseteq Items
    BY <1>4, RequestKinds, SlotFacts
  <2>2. pc[v] = "refer" => form[v].op \in {"stock", "order"}
    BY DEF Session, Serving
  <2> QED
    BY <2>1, <2>2, TablesFrame DEF Session, Referring
<1>7. Locking(v)'
  BY TablesFrame DEF Session, Locking
<1> QED
  BY <1>1, <1>2, <1>3, <1>5, <1>6, <1>7 DEF Session

----------------------------------------------------------------------------
(* Steps that change no table *)

\* What one session does on its way disturbs no other, unless it comes to claim
\* a code or gives a new row its id.
LEMMA QuietStep ==
    ASSUME Inv, NEW w \in Workers, UNCHANGED database,
           SessionsTyped', Exclusion', Session(w)',
           \A v \in Workers \ {w} : Undisturbed(v),
           ~ Claiming(w)' \/ KeysClaimed',
           form'[w] \in {form[w], NoForm} \/ NewIds'
    PROVE  Inv'
<1>1. TablesTyped'
  BY TablesFrame DEF Inv, TablesTyped
<1>2. Referred' /\ KeysDiffer' /\ PricesOffered'
  BY TablesFrame DEF Inv, Referred, KeysDiffer, PricesOffered
<1>3. \A v \in Workers : Session(v)'
  BY SessionFrame DEF Inv
<1>4. ASSUME ~ Claiming(w)'
      PROVE  KeysClaimed'
  <2>1. ASSUME NEW v \in Workers, Claiming(v)'
        PROVE  /\ Claiming(v) /\ v # w
               /\ form'[v] = form[v]
               /\ KeyOf(v)' = KeyOf(v)
               /\ HoldersOfKey(v)' = HoldersOfKey(v)
    <3>1. v # w /\ Undisturbed(v)
      BY <1>4, <2>1
    <3>2. Claiming(v) /\ KeyOf(v)' = KeyOf(v)
      BY <2>1, <3>1, RequestFrame DEF Undisturbed, Claiming
    <3>3. HoldersOfKey(v)' = HoldersOfKey(v)
      BY <3>1, <3>2, TablesFrame DEF HoldersOfKey, Undisturbed
    <3> QED
      BY <3>1, <3>2, <3>3 DEF Undisturbed
  <2> QED
    BY <2>1 DEF Inv, KeysClaimed
<1>5. ASSUME form'[w] \in {form[w], NoForm}
      PROVE  NewIds'
  <2>1. \A v \in Workers : form'[v] = form[v] \/ form'[v] = NoForm
    BY <1>5 DEF Undisturbed
  <2> QED
    BY <2>1 DEF Inv, NewIds
<1> QED
  BY <1>1, <1>2, <1>3, <1>4, <1>5 DEF Inv

\* A session that is idle holds nothing.
LEMMA ReleaseEnds ==
    ASSUME SessionsTyped, NEW w \in Workers, Release(w)
    PROVE  /\ \A i \in Items : writer'[i] # w /\ w \notin sharers'[i]
           /\ \A s \in Book!Slots : slotLock'[s] # w
           /\ seen'[w] = <<>> /\ DOMAIN seen'[w] = {} /\ wanted'[w] = {} /\ todo'[w] = <<>>
           /\ writer' \in [Items -> Workers \cup {Nobody}]
           /\ sharers' \in [Items -> SUBSET Workers]
           /\ slotLock' \in [Book!Slots -> Workers \cup {Nobody}]
           /\ todo' \in [Workers -> Seq(SUBSET Items)]
           /\ DOMAIN seen' = Workers /\ DOMAIN wanted' = Workers
           /\ \A v \in Workers \ {w} :
                 /\ todo'[v] = todo[v] /\ seen'[v] = seen[v] /\ wanted'[v] = wanted[v]
                 /\ \A i \in Items : /\ writer'[i] = v <=> writer[i] = v
                                     /\ v \in sharers'[i] <=> v \in sharers[i]
                 /\ \A s \in Book!Slots : slotLock'[s] = v <=> slotLock[s] = v
<1> USE CatalogSessionsAssumption DEF SessionsTyped, Release
<1>1. /\ \A i \in Items : writer'[i] # w /\ w \notin sharers'[i]
      /\ \A s \in Book!Slots : slotLock'[s] # w
  OBVIOUS
<1>2. seen'[w] = <<>> /\ wanted'[w] = {} /\ todo'[w] = <<>>
  OBVIOUS
<1>3. DOMAIN seen'[w] = {}
  BY <1>2
<1>4. /\ writer' \in [Items -> Workers \cup {Nobody}]
      /\ sharers' \in [Items -> SUBSET Workers]
      /\ slotLock' \in [Book!Slots -> Workers \cup {Nobody}]
  OBVIOUS
<1>5. todo' \in [Workers -> Seq(SUBSET Items)] /\ DOMAIN seen' = Workers /\ DOMAIN wanted' = Workers
  OBVIOUS
<1>6. ASSUME NEW v \in Workers \ {w}
      PROVE  /\ todo'[v] = todo[v] /\ seen'[v] = seen[v] /\ wanted'[v] = wanted[v]
             /\ \A i \in Items : /\ writer'[i] = v <=> writer[i] = v
                                 /\ v \in sharers'[i] <=> v \in sharers[i]
             /\ \A s \in Book!Slots : slotLock'[s] = v <=> slotLock[s] = v
  OBVIOUS
<1> QED
  BY <1>1, <1>2, <1>3, <1>4, <1>5, <1>6

\* When a session ends, locks that do not exclude one another are left.
LEMMA ReleaseKeepsExclusion ==
    ASSUME SessionsTyped, Exclusion, NEW w \in Workers, Release(w),
           \A v \in Workers \ {w} : form'[v] = form[v]
    PROVE  Exclusion'
<1>1. ASSUME NEW i \in Items, NEW v \in Workers, writer'[i] = v, Exclusive(v)'
      PROVE  sharers'[i] = {}
  <2>1. v # w /\ writer[i] = v
    BY <1>1, ReleaseEnds
  <2>2. Exclusive(v)
    BY <1>1, <2>1, ReleaseEnds, RequestFrame
  <2>3. sharers[i] = {}
    BY <2>1, <2>2 DEF Exclusion
  <2> QED
    BY <2>3 DEF Release
<1> QED
  BY <1>1 DEF Exclusion

\* A session with no request is as it should be.
LEMMA IdleSession ==
    ASSUME NEW w \in Workers, pc'[w] = "idle", form'[w] = NoForm,
           DOMAIN seen'[w] = {}, wanted'[w] = {},
           \A i \in Items : writer'[i] # w /\ w \notin sharers'[i],
           \A s \in Book!Slots : slotLock'[s] # w
    PROVE  Session(w)'
  BY DEF Session, Serving, SeenOf, HasRead, Writing, Referring, Locking, Answering

\* An error response leaves the other sessions as they are.
LEMMA RollbackPreserves ==
    ASSUME Inv, NEW w \in Workers, Rollback(w)
    PROVE  Inv'
<1> USE DEF Rollback, Finish, Goto
<1>1. SessionsTyped
  BY DEF Inv
<1>2. Session(w)'
  BY <1>1, ReleaseEnds, IdleSession DEF SessionsTyped
<1>3. SessionsTyped'
  <2>1. pc' \in [Workers -> Stages]
    BY <1>1 DEF SessionsTyped, Stages
  <2>2. form' \in [Workers -> Requests \cup {NoForm}] /\ DOMAIN lived' = Workers
    BY <1>1 DEF SessionsTyped
  <2> QED
    BY <1>1, <2>1, <2>2, ReleaseEnds DEF SessionsTyped
<1>4. \A v \in Workers \ {w} : Undisturbed(v)
  BY <1>1, ReleaseEnds DEF Undisturbed, SessionsTyped
<1>5. Exclusion'
  BY <1>1, ReleaseKeepsExclusion DEF Inv, SessionsTyped
<1>6. ~ Claiming(w)' /\ form'[w] = NoForm
  BY <1>1 DEF Claiming, SessionsTyped
<1> QED
  BY <1>2, <1>3, <1>4, <1>5, <1>6, QuietStep

\* A session that goes on, with the same request and the same locks.
LEMMA LocalStep ==
    ASSUME Inv, NEW w \in Workers, NEW stage \in Stages, Goto(w, stage),
           UNCHANGED <<database, locks, form, lived>>,
           todo' \in [Workers -> Seq(SUBSET Items)],
           DOMAIN seen' = Workers, DOMAIN wanted' = Workers,
           \A v \in Workers \ {w} :
               todo'[v] = todo[v] /\ seen'[v] = seen[v] /\ wanted'[v] = wanted[v],
           seen'[w] = seen[w] \/ \A i \in Items : writer[i] # w,
           Session(w)',
           ~ Claiming(w)' \/ KeysClaimed'
    PROVE  Inv'
<1> USE DEF locks, Goto
<1>1. SessionsTyped'
  BY DEF Inv, SessionsTyped
<1>2. \A v \in Workers \ {w} : Undisturbed(v)
  BY DEF Inv, SessionsTyped, Undisturbed
<1>3. Exclusion'
  <2>1. ASSUME NEW i \in Items, NEW v \in Workers, writer'[i] = v, Exclusive(v)'
        PROVE  sharers'[i] = {}
    <3>1. writer[i] = v /\ seen'[v] = seen[v] /\ form'[v] = form[v]
      BY <2>1
    <3>2. Exclusive(v)
      BY <2>1, <3>1, RequestFrame
    <3> QED
      BY <3>1, <3>2 DEF Inv, Exclusion
  <2> QED
    BY <2>1 DEF Exclusion
<1> QED
  BY <1>1, <1>2, <1>3, QuietStep

\* What a session at a given stage holds: no lock before its request has read.
LEMMA HoldsNothing ==
    ASSUME NEW w \in Workers, Session(w)
    PROVE  /\ pc[w] \notin {"claim", "restrict", "probe", "commit"} =>
                  \A i \in Items : writer[i] # w
           /\ pc[w] \notin {"refer", "commit"} => \A i \in Items : w \notin sharers[i]
           /\ pc[w] \notin {"lock", "insert", "refer", "commit"} =>
                  \A s \in Book!Slots : slotLock[s] # w
  BY DEF Session, Writing, Referring, Locking

\* The arrival of a request.
LEMMA BeginPreserves ==
    ASSUME Inv, NEW w \in Workers, NEW f \in Forms, Begin(w, f)
    PROVE  Inv'
<1> DEFINE g == Normalised(f)
<1>1. /\ g \in Requests /\ g # NoForm /\ g.op = f.op
      /\ f.op = "create" => g.item = f.item
      /\ Statements(f) \in Seq(SUBSET Items)
      /\ f.op # "create" => Statements(f) # <<>>
  BY Arrival, RequestKinds
<1> HIDE DEF g
<1>2. /\ pc[w] = "idle"
      /\ UNCHANGED <<database, locks, seen, wanted>>
      /\ pc' = [pc EXCEPT ![w] = IF f.op = "create" THEN "claim" ELSE "read"]
      /\ form' = [form EXCEPT ![w] = g]
      /\ todo' = [todo EXCEPT ![w] = Statements(f)]
      /\ lived' = [lived EXCEPT ![w] = Witnessed(row)]
      /\ f.op = "create" =>
            /\ row[f.item] = Unborn
            /\ \A u \in Workers :
                  form[u] # NoForm /\ form[u].op = "create" => form[u].item # f.item
  BY DEF Begin, Goto, g
<1>3. /\ pc'[w] = IF f.op = "create" THEN "claim" ELSE "read"
      /\ form'[w] = g /\ todo'[w] = Statements(f) /\ lived'[w] = Witnessed(row)
      /\ row' = row /\ seen' = seen /\ wanted' = wanted
      /\ writer' = writer /\ sharers' = sharers /\ slotLock' = slotLock
  BY <1>2 DEF Inv, SessionsTyped, database, locks
<1>4. Session(w)
  BY DEF Inv
<1>5. Session(w)'
  <2>1. DOMAIN seen[w] = {} /\ wanted[w] = {}
    BY <1>2, <1>4 DEF Session, SeenOf, Locking, Answering
  <2>2. Serving(w)'
    BY <1>1, <1>3 DEF Serving, Claims
  <2>3. SeenOf(w)'
    <3>1. Witnessed(row)' = Witnessed(row)
      BY <1>3 DEF Witnessed
    <3> QED
      BY <1>3, <2>1, <3>1 DEF SeenOf, Answering
  <2>4. HasRead(w)'
    BY <1>1, <1>3 DEF HasRead
  <2>5. Writing(w)'
    BY <1>1, <1>2, <1>3, <1>4, HoldsNothing DEF Writing
  <2>6. Referring(w)' /\ Locking(w)'
    BY <1>2, <1>3, <1>4, <2>1, HoldsNothing DEF Referring, Locking
  <2> QED
    BY <2>2, <2>3, <2>4, <2>5, <2>6 DEF Session
<1>6. SessionsTyped'
  BY <1>1, <1>2, <1>3 DEF Inv, SessionsTyped, Stages
<1>7. \A v \in Workers \ {w} : Undisturbed(v)
  BY <1>2, <1>3 DEF Undisturbed, Inv, SessionsTyped
<1>8. Exclusion'
  <2>1. ASSUME NEW i \in Items, NEW v \in Workers, writer'[i] = v, Exclusive(v)'
        PROVE  sharers'[i] = {}
    <3>1. v # w /\ writer[i] = v
      BY <1>2, <1>3, <1>4, <2>1, HoldsNothing
    <3>2. Exclusive(v)
      BY <1>2, <1>3, <2>1, <3>1, RequestFrame
    <3> QED
      BY <1>3, <3>1, <3>2 DEF Inv, Exclusion
  <2> QED
    BY <2>1 DEF Exclusion
<1>9. NewIds'
  <2>1. ASSUME NEW u \in Workers, u # w, form'[u] # NoForm, form'[u].op = "create", g.op = "create"
        PROVE  form'[u].item # g.item
    <3>1. form'[u] = form[u]
      BY <1>2, <2>1
    <3> QED
      BY <1>1, <1>2, <2>1, <3>1
  <2>2. \A u \in Workers \ {w} : form'[u] = form[u]
    BY <1>2
  <2> QED
    BY <1>3, <2>1, <2>2 DEF Inv, NewIds
<1>10. ~ Claiming(w)'
  BY <1>3 DEF Claiming
<1>11. UNCHANGED database
  BY <1>2
<1> QED
  BY <1>5, <1>6, <1>7, <1>8, <1>9, <1>10, <1>11, QuietStep

\* What is left of a sequence after its first element.
LEMMA TailFacts ==
    ASSUME NEW S, NEW s \in Seq(S), s # <<>>
    PROVE  /\ Len(s) \in Nat /\ Len(s) # 0
           /\ Tail(s) \in Seq(S)
           /\ Len(s) # 1 => Tail(s) # <<>>
<1>1. Len(s) \in Nat /\ Len(s) # 0
  OBVIOUS
<1>2. Tail(s) \in Seq(S) /\ Len(Tail(s)) = Len(s) - 1
  OBVIOUS
<1>3. Len(s) # 1 => Len(Tail(s)) # 0
  BY <1>1, <1>2
<1>4. ASSUME Tail(s) = <<>>
      PROVE  Len(Tail(s)) = 0
  <2> DEFINE t == Tail(s)
  <2>1. t = <<>>
    BY <1>4
  <2> HIDE DEF t
  <2>2. Len(t) = 0
    BY <2>1
  <2> QED
    BY <2>2 DEF t
<1> QED
  BY <1>1, <1>2, <1>3, <1>4

\* What a SELECT adds to the rows a session has seen is committed now.
LEMMA RowsRead ==
    ASSUME Inv, NEW w \in Workers, pc[w] = "read",
           NEW rows, rows = WithRows(w, Head(todo[w]))
    PROVE  \A i \in DOMAIN rows :
               /\ i \in Items
               /\ rows[i] \in RowsOf(i)
               /\ <<i, rows[i]>> \in lived[w]
               /\ row[i] # Unborn
               /\ i \in Products => <<i, rows[i].price>> \in offered
<1>1. todo[w] \in Seq(SUBSET Items) /\ todo[w] # <<>>
  BY DEF Inv, SessionsTyped, Session, Serving
<1>2. Head(todo[w]) \subseteq Items
  BY <1>1
<1>3. SeenOf(w) /\ Witnessed(row) \subseteq lived[w]
  BY DEF Inv, Session, SeenOf, Answering
<1>4. /\ DOMAIN rows = DOMAIN seen[w] \cup {j \in Head(todo[w]) : Live(j)}
      /\ \A i \in DOMAIN rows : rows[i] = IF i \in DOMAIN seen[w] THEN seen[w][i] ELSE row[i]
  BY DEF WithRows
<1>5. ASSUME NEW i \in Items, Live(i), rows[i] = row[i]
      PROVE  /\ rows[i] \in RowsOf(i)
             /\ <<i, rows[i]>> \in lived[w]
             /\ row[i] # Unborn
             /\ i \in Products => <<i, rows[i].price>> \in offered
  <2>1. rows[i] \in RowsOf(i) /\ row[i] # Unborn
    BY <1>5 DEF Inv, TablesTyped, Live, Book!Live
  <2>2. <<i, rows[i]>> \in lived[w]
    BY <1>3, <1>5 DEF Witnessed
  <2>3. i \in Products => <<i, rows[i].price>> \in offered
    BY <1>5 DEF Inv, PricesOffered
  <2> QED
    BY <2>1, <2>2, <2>3
<1> QED
  BY <1>2, <1>3, <1>4, <1>5 DEF SeenOf

\* One SELECT of the service, or the answer when it finds no row.
LEMMA ReadPreserves ==
    ASSUME Inv, NEW w \in Workers, Read(w)
    PROVE  Inv'
<1> DEFINE rows == WithRows(w, Head(todo[w]))
           last == Len(todo[w]) = 1
           stage == IF ~last THEN "read"
                    ELSE CASE form[w].op = "update" -> "write"
                           [] form[w].op = "delete" -> "count"
                           [] form[w].op = "stock"  -> "select"
                           [] form[w].op = "order"  -> "refer"
           asked == IF form[w].op \in {"stock", "order"} THEN Book!RefersTo(form[w].slots)
                    ELSE {form[w].item}
<1>1. pc[w] = "read" /\ Session(w)
  BY DEF Read, Inv
<1>2. /\ form[w] \in Requests /\ form[w].op \in {"update", "delete", "stock", "order"}
      /\ todo[w] \in Seq(SUBSET Items) /\ todo[w] # <<>>
  BY <1>1, Served, RequestKinds DEF Inv, SessionsTyped, Session, Serving
<1>3. CASE Refused(w, rows) /\ (form[w].op = "order" => last)
  <2>1. Rollback(w)
    BY <1>3 DEF Read
  <2> QED
    BY <2>1, RollbackPreserves
<1>4. CASE ~ (Refused(w, rows) /\ (form[w].op = "order" => last))
  <2>1. /\ seen' = [seen EXCEPT ![w] = rows]
        /\ todo' = [todo EXCEPT ![w] = Tail(@)]
        /\ wanted' = [wanted EXCEPT ![w] =
               IF last /\ form[w].op = "order" THEN Book!RefersTo(form[w].slots) ELSE {}]
        /\ Goto(w, stage)
        /\ UNCHANGED <<database, locks, form, lived, begun>>
    BY <1>4 DEF Read
  <2>2. \A i \in DOMAIN rows :
           /\ i \in Items
           /\ rows[i] \in RowsOf(i)
           /\ <<i, rows[i]>> \in lived[w]
           /\ row[i] # Unborn
           /\ i \in Products => <<i, rows[i].price>> \in offered
    BY <1>1, RowsRead
  <2>3. ASSUME last
        PROVE  \A i \in asked : /\ i \in DOMAIN rows
                                /\ form[w].op \in {"stock", "order"} /\ i \in Products =>
                                      rows[i].active
    <3>1. 2..Len(todo[w]) = {}
      BY <2>3
    <3>2. UNION {todo[w][n] : n \in 2..Len(todo[w])} = {}
      BY <3>1
    <3> QED
      BY <1>4, <2>3, <3>2 DEF Refused
  <2>4. stage \in {"read", "write", "count", "select", "refer"}
        /\ (last => stage = CASE form[w].op = "update" -> "write"
                              [] form[w].op = "delete" -> "count"
                              [] form[w].op = "stock"  -> "select"
                              [] form[w].op = "order"  -> "refer")
        /\ (~last => stage = "read")
    BY <1>2
  <2>5. /\ last /\ form[w].op = "update" => stage = "write"
        /\ last /\ form[w].op = "delete" => stage = "count"
        /\ last /\ form[w].op = "stock" => stage = "select"
        /\ last /\ form[w].op = "order" => stage = "refer"
    BY <2>4
  <2> HIDE DEF rows, stage
  <2>6. Len(todo[w]) \in Nat /\ Len(todo[w]) # 0 /\ Tail(todo[w]) \in Seq(SUBSET Items)
        /\ (~last => Tail(todo[w]) # <<>>)
    BY <1>2, TailFacts
  <2>7. /\ pc'[w] = stage /\ form' = form /\ seen'[w] = rows /\ lived' = lived
        /\ todo'[w] = Tail(todo[w])
        /\ wanted'[w] = IF last /\ form[w].op = "order" THEN Book!RefersTo(form[w].slots) ELSE {}
        /\ row' = row /\ offered' = offered
        /\ writer' = writer /\ sharers' = sharers /\ slotLock' = slotLock
    BY <2>1 DEF Inv, SessionsTyped, Goto, database, locks
  <2>8. Session(w)'
    <3>1. Serving(w)'
      BY <1>2, <2>4, <2>5, <2>6, <2>7, RequestKinds DEF Serving
    <3>2. SeenOf(w)'
      <4>1. Witnessed(row)' = Witnessed(row)
        BY <2>7 DEF Witnessed
      <4>2. Witnessed(row) \subseteq lived[w]
        BY <1>1 DEF Session, SeenOf, Answering
      <4> QED
        BY <2>2, <2>4, <2>7, <4>1, <4>2 DEF SeenOf, Answering
    <3>3. HasRead(w)'
      <4>1. CASE ~last
        BY <2>4, <2>7, <4>1 DEF HasRead
      <4>2. CASE last
        BY <1>2, <2>3, <2>5, <2>7, <4>2 DEF HasRead
      <4> QED
        BY <4>1, <4>2
    <3>4. Writing(w)'
      BY <1>1, <2>4, <2>7, HoldsNothing DEF Writing
    <3>5. Referring(w)'
      <4>1. \A i \in Items : w \notin sharers'[i]
        BY <1>1, <2>7, HoldsNothing
      <4>2. stage = "refer" => last /\ form[w].op = "order"
        BY <1>2, <2>4, <2>5
      <4> QED
        BY <2>4, <2>7, <4>1, <4>2 DEF Referring
    <3>6. Locking(w)'
      <4>1. \A s \in Book!Slots : slotLock'[s] # w
        BY <1>1, <2>7, HoldsNothing
      <4>2. stage # "refer" => ~ (last /\ form[w].op = "order")
        BY <2>5
      <4> QED
        BY <2>4, <2>7, <4>1, <4>2 DEF Locking
    <3> QED
      BY <3>1, <3>2, <3>3, <3>4, <3>5, <3>6 DEF Session
  <2>9. stage \in Stages
    BY <2>4 DEF Stages
  <2>10. /\ todo' \in [Workers -> Seq(SUBSET Items)]
         /\ DOMAIN seen' = Workers /\ DOMAIN wanted' = Workers
         /\ \A v \in Workers \ {w} :
               todo'[v] = todo[v] /\ seen'[v] = seen[v] /\ wanted'[v] = wanted[v]
    BY <2>1, <2>6 DEF Inv, SessionsTyped
  <2>11. \A i \in Items : writer[i] # w
    BY <1>1, HoldsNothing
  <2>12. ~ Claiming(w)'
    BY <2>4, <2>7 DEF Claiming
  <2>13. UNCHANGED <<database, locks, form, lived>>
    BY <2>1
  <2> QED
    BY <2>1, <2>8, <2>9, <2>10, <2>11, <2>12, <2>13, LocalStep
<1> QED
  BY <1>3, <1>4

\* A session moves to its next stage and wants other rows, nothing else.
LEMMA StageStep ==
    ASSUME Inv, NEW w \in Workers, NEW stage \in Stages, Goto(w, stage),
           DOMAIN wanted' = Workers, \A v \in Workers \ {w} : wanted'[v] = wanted[v],
           UNCHANGED <<database, locks, form, todo, seen, lived>>,
           Serving(w)', HasRead(w)', Writing(w)', Referring(w)', Locking(w)',
           pc[w] \notin Answering, stage \notin Answering,
           ~ Claiming(w)' \/ KeysClaimed'
    PROVE  Inv'
<1>1. pc'[w] = stage
  BY DEF Goto, Inv, SessionsTyped
<1>2. SeenOf(w)'
  <2>1. SeenOf(w)
    BY DEF Inv, Session
  <2> QED
    BY <1>1, <2>1, TablesFrame DEF SeenOf
<1>4. Session(w)'
  BY <1>2 DEF Session
<1>5. /\ todo' \in [Workers -> Seq(SUBSET Items)]
      /\ DOMAIN seen' = Workers /\ DOMAIN wanted' = Workers
      /\ \A v \in Workers \ {w} :
            todo'[v] = todo[v] /\ seen'[v] = seen[v] /\ wanted'[v] = wanted[v]
      /\ seen'[w] = seen[w]
      /\ UNCHANGED <<database, locks, form, lived>>
  BY DEF Inv, SessionsTyped
<1> QED
  BY <1>4, <1>5, LocalStep

\* The count of stock rows in front of a warehouse's delete.
LEMMA CountPreserves ==
    ASSUME Inv, NEW w \in Workers, Count(w)
    PROVE  Inv'
<1>1. CASE StocksOf(form[w].item) # {}
  BY <1>1, RollbackPreserves DEF Count
<1>2. CASE StocksOf(form[w].item) = {}
  <2>1. /\ pc[w] = "count" /\ Goto(w, "write")
        /\ UNCHANGED <<database, locks, form, todo, seen, wanted, lived, begun>>
    BY <1>2 DEF Count
  <2>2. Session(w) /\ form[w].op = "delete"
    BY <2>1 DEF Inv, Session, Serving
  <2>3. pc'[w] = "write" /\ form[w] \in Requests
    BY <2>1, <2>2, Served DEF Goto, Inv, SessionsTyped, Session
  <2>4. Serving(w)' /\ HasRead(w)'
    BY <2>1, <2>2, <2>3, RequestKinds DEF Serving, Session, HasRead
  <2>5. Writing(w)' /\ Referring(w)' /\ Locking(w)'
    BY <2>1, <2>2, <2>3, HoldsNothing DEF Writing, Referring, Locking, locks, Session
  <2>6. ~ Claiming(w)'
    BY <2>3 DEF Claiming
  <2>7. DOMAIN wanted' = Workers /\ \A v \in Workers \ {w} : wanted'[v] = wanted[v]
    BY <2>1 DEF Inv, SessionsTyped
  <2> QED
    BY <2>1, <2>4, <2>5, <2>6, <2>7, StageStep DEF Stages, Answering
<1> QED
  BY <1>1, <1>2

\* A row that a session has read and is no longer there was deleted.
LEMMA GoneIsDeleted ==
    ASSUME TablesTyped, NEW w \in Workers, SeenOf(w), NEW i \in DOMAIN seen[w], ~ Live(i)
    PROVE  row[i] = Deleted /\ i \notin Products
  BY DEF TablesTyped, SeenOf, Live, Book!Live

\* The UPDATE or DELETE that the flush of a service sends, or its refusal.
LEMMA WritePreserves ==
    ASSUME Inv, NEW w \in Workers, Write(w)
    PROVE  Inv'
<1> DEFINE i == form[w].item
<1>1. pc[w] = "write" /\ Session(w)
  BY DEF Write, Inv
<1>2. /\ form[w] \in Requests /\ form[w].op \in {"update", "delete"}
      /\ i \in Items /\ i \in DOMAIN seen[w]
  BY <1>1, Served, RequestKinds DEF Inv, Session, Serving, HasRead
<1>3. CASE NothingToWrite(w) /\ form[w].op = "update" /\ Written(w) # {}
  BY <1>3, RollbackPreserves DEF Write
<1>4. CASE NothingToWrite(w) /\ ~ (form[w].op = "update" /\ Written(w) # {})
  <2>1. /\ Goto(w, "commit")
        /\ UNCHANGED <<database, locks, form, todo, seen, wanted, lived, begun>>
    BY <1>4 DEF Write
  <2>2. pc'[w] = "commit"
    BY <2>1 DEF Goto, Inv, SessionsTyped
  <2>3. Serving(w)' /\ HasRead(w)'
    BY <1>1, <1>2, <2>1, <2>2, RequestKinds DEF Serving, Session, HasRead
  <2>4. form[w].op = "delete" => row[i] = Deleted
    BY <1>1, <1>2, <1>4, GoneIsDeleted DEF NothingToWrite, Inv, Session
  <2>5. Written(w)' = Written(w) /\ Claims(w)' = Claims(w)
    BY <2>1, RequestFrame
  <2>6. row' = row /\ writer' = writer /\ sharers' = sharers /\ slotLock' = slotLock
    BY <2>1 DEF database, locks
  <2>7. Writing(w)'
    BY <1>1, <1>2, <1>4, <2>1, <2>2, <2>4, <2>5, <2>6, HoldsNothing DEF Writing
  <2>8. Referring(w)' /\ Locking(w)'
    BY <1>1, <1>2, <2>1, <2>2, <2>6, HoldsNothing DEF Referring, Locking, Session
  <2>9. ~ Claiming(w)'
    BY <1>2, <1>4, <2>1, <2>5 DEF Claiming, Claims
  <2>10. DOMAIN wanted' = Workers /\ \A v \in Workers \ {w} : wanted'[v] = wanted[v]
    BY <2>1 DEF Inv, SessionsTyped
  <2> QED
    BY <1>1, <2>1, <2>3, <2>7, <2>8, <2>9, <2>10, StageStep DEF Stages, Answering
<1>5. CASE ~ NothingToWrite(w)
  <2> DEFINE stage == IF form[w].op = "delete" THEN "restrict"
                      ELSE IF Claims(w) THEN "claim" ELSE "commit"
  <2>1. /\ WriteBlockers(w) = {}
        /\ writer' = [writer EXCEPT ![i] = w]
        /\ Goto(w, stage)
        /\ UNCHANGED <<database, sharers, slotLock, form, todo, seen, wanted, lived, begun>>
    BY <1>5 DEF Write
  <2>2. pc'[w] = stage /\ stage \in {"restrict", "claim", "commit"}
    BY <2>1 DEF Goto, Inv, SessionsTyped
  <2>3. writer[i] \in {Nobody, w}
    BY <2>1 DEF WriteBlockers
  <2>4. /\ writer'[i] = w
        /\ \A j \in Items \ {i} : writer'[j] = writer[j]
        /\ writer' \in [Items -> Workers \cup {Nobody}]
    BY <1>2, <2>1 DEF Inv, SessionsTyped
  <2>5. Live(i) /\ (form[w].op = "update" => Written(w) # {})
    BY <1>5 DEF NothingToWrite
  <2>6. Written(w)' = Written(w) /\ Claims(w)' = Claims(w) /\ Exclusive(w)' = Exclusive(w)
    BY <2>1, RequestFrame
  <2>7. \A j \in Items : writer[j] # w
    BY <1>1, HoldsNothing
  <2>8. Serving(w)' /\ HasRead(w)'
    BY <1>1, <1>2, <2>1, <2>2, <2>6, RequestKinds DEF Serving, Session, HasRead
  <2>9. Writing(w)'
    <3>1. Live(i)' /\ form' = form
      BY <2>1, <2>5, TablesFrame
    <3> QED
      BY <1>2, <2>2, <2>4, <2>7, <3>1 DEF Writing
  <2>10. Referring(w)' /\ Locking(w)'
    BY <1>1, <1>2, <2>1, <2>2, HoldsNothing DEF Referring, Locking, Session
  <2>11. SeenOf(w)'
    BY <1>1, <2>1, <2>2, TablesFrame DEF SeenOf, Session, Answering
  <2>12. Session(w)'
    BY <2>8, <2>9, <2>10, <2>11 DEF Session
  <2>13. SessionsTyped'
    BY <2>1, <2>2, <2>4 DEF Inv, SessionsTyped, Goto, Stages
  <2>14. \A v \in Workers \ {w} : Undisturbed(v)
    <3>1. ASSUME NEW v \in Workers \ {w}
          PROVE  \A j \in Items : writer'[j] = v <=> writer[j] = v
      BY <2>3, <2>4, CatalogSessionsAssumption
    <3> QED
      BY <2>1, <3>1 DEF Undisturbed, Goto, Inv, SessionsTyped
  <2>15. Exclusion'
    <3>1. ASSUME NEW j \in Items, NEW v \in Workers, writer'[j] = v, Exclusive(v)'
          PROVE  sharers'[j] = {}
      <4>1. CASE j = i
        <5>1. v = w /\ Exclusive(w)
          BY <2>4, <2>6, <3>1, <4>1
        <5>2. sharers[i] \ {w} = {}
          BY <2>1, <5>1 DEF WriteBlockers
        <5>3. w \notin sharers[i]
          BY <1>1, <1>2, HoldsNothing
        <5> QED
          BY <2>1, <4>1, <5>2, <5>3
      <4>2. CASE j # i
        <5>1. writer[j] = v /\ Exclusive(v)
          BY <2>1, <2>4, <3>1, <4>2, RequestFrame
        <5> QED
          BY <2>1, <5>1 DEF Inv, Exclusion
      <4> QED
        BY <4>1, <4>2
    <3> QED
      BY <3>1 DEF Exclusion
  <2>16. ~ Claiming(w)'
    BY <1>2, <2>2, <2>6 DEF Claiming, Claims
  <2>17. form'[w] = form[w] /\ UNCHANGED database
    BY <2>1
  <2> QED
    BY <2>12, <2>13, <2>14, <2>15, <2>16, <2>17, QuietStep
<1> QED
  BY <1>3, <1>4, <1>5

\* The unique index, which lets the key in or refuses it.
LEMMA ClaimPreserves ==
    ASSUME Inv, NEW w \in Workers, Claim(w)
    PROVE  Inv'
<1>1. CASE HoldersOfKey(w) # {}
  BY <1>1, RollbackPreserves DEF Claim
<1>2. CASE HoldersOfKey(w) = {}
  <2>1. /\ pc[w] = "claim" /\ ClaimBlockers(w) = {} /\ Goto(w, "commit")
        /\ UNCHANGED <<database, locks, form, todo, seen, wanted, lived, begun>>
    BY <1>2 DEF Claim
  <2>2. Session(w) /\ Claims(w) /\ form[w].op \in {"create", "update"}
    BY <2>1 DEF Inv, Session, Serving, Claims
  <2>3. pc'[w] = "commit" /\ form[w] \in Requests
        /\ \A v \in Workers \ {w} : pc'[v] = pc[v]
    BY <2>1, <2>2, Served DEF Goto, Inv, SessionsTyped, Session
  <2>4. Serving(w)' /\ HasRead(w)'
    BY <2>1, <2>2, <2>3, RequestKinds DEF Serving, Session, HasRead
  <2>5. row' = row /\ writer' = writer /\ sharers' = sharers /\ slotLock' = slotLock
    BY <2>1 DEF database, locks
  <2>6. Writing(w)'
    <3>1. \A j : Live(j)' = Live(j)
      BY <2>1, TablesFrame
    <3> QED
      BY <2>1, <2>2, <2>3, <2>5, <3>1 DEF Writing, Session
  <2>7. Referring(w)' /\ Locking(w)'
    BY <2>1, <2>2, <2>3, <2>5, HoldsNothing DEF Referring, Locking, Session
  <2>8. KeysClaimed'
    <3>1. \A v \in Workers : /\ Claims(v)' = Claims(v) /\ KeyOf(v)' = KeyOf(v)
                             /\ HoldersOfKey(v)' = HoldersOfKey(v)
      <4>1. ASSUME NEW v \in Workers
            PROVE  Claims(v)' = Claims(v) /\ KeyOf(v)' = KeyOf(v)
        BY <2>1, RequestFrame
      <4>2. ASSUME NEW v \in Workers
            PROVE  HoldersOfKey(v)' = HoldersOfKey(v)
        BY <2>1, <4>1, TablesFrame DEF HoldersOfKey
      <4> QED
        BY <4>1, <4>2
    <3>2. \A v \in Workers \ {w} : Claiming(v)' = Claiming(v)
      BY <2>3, <3>1 DEF Claiming
    <3>3. \A u \in Workers \ {w} :
             Claiming(u) /\ Book!SameTable(form[u].item, form[w].item) => KeyOf(u) # KeyOf(w)
      BY <2>1 DEF ClaimBlockers, Claiming
    <3>4. \A u, v : Book!SameTable(form[u].item, form[v].item) <=>
                    Book!SameTable(form[v].item, form[u].item)
      BY DEF Book!SameTable
    <3>5. form' = form
      BY <2>1
    <3>6. ASSUME NEW v \in Workers, Claiming(v)'
          PROVE  /\ HoldersOfKey(v)' = {}
                 /\ \A u \in Workers \ {v} :
                       Claiming(u)' /\ Book!SameTable(form'[u].item, form'[v].item) =>
                           KeyOf(u)' # KeyOf(v)'
      <4>1. CASE v = w
        BY <1>2, <3>1, <3>2, <3>3, <3>5, <4>1
      <4>2. CASE v # w
        <5>1. Claiming(v)
          BY <3>2, <3>6, <4>2
        <5>2. /\ HoldersOfKey(v) = {}
              /\ \A u \in Workers \ {v} :
                    Claiming(u) /\ Book!SameTable(form[u].item, form[v].item) =>
                        KeyOf(u) # KeyOf(v)
          BY <5>1 DEF Inv, KeysClaimed
        <5>3. Book!SameTable(form[w].item, form[v].item) => KeyOf(w) # KeyOf(v)
          BY <3>3, <3>4, <4>2, <5>1
        <5> QED
          BY <3>1, <3>2, <3>5, <4>2, <5>2, <5>3
      <4> QED
        BY <4>1, <4>2
    <3> QED
      BY <3>6 DEF KeysClaimed, Book!SameTable
  <2>9. DOMAIN wanted' = Workers /\ \A v \in Workers \ {w} : wanted'[v] = wanted[v]
    BY <2>1 DEF Inv, SessionsTyped
  <2> QED
    BY <2>1, <2>4, <2>6, <2>7, <2>8, <2>9, StageStep DEF Stages, Answering
<1> QED
  BY <1>1, <1>2

\* The foreign key's check of a delete.
LEMMA RestrictPreserves ==
    ASSUME Inv, NEW w \in Workers, Restrict(w)
    PROVE  Inv'
<1> DEFINE i == form[w].item
<1>1. pc[w] = "restrict" /\ Session(w) /\ form[w].op = "delete" /\ form[w] \in Requests
  BY Served DEF Restrict, Inv, Session, Serving
<1>2. writer[i] = w /\ i \in Items /\ Live(i)
  BY <1>1, RequestKinds DEF Session, Writing
<1>3. ASSUME NEW s \in StocksOf(i),
             wanted' = [wanted EXCEPT ![w] = {s}], Goto(w, "probe"),
             UNCHANGED <<database, locks, form, todo, seen, lived, begun>>
      PROVE  Inv'
  <2>1. pc'[w] = "probe" /\ wanted'[w] = {s} /\ s \in Book!Slots
    BY <1>3 DEF Goto, Inv, SessionsTyped, TablesTyped, StocksOf
  <2>2. Serving(w)' /\ HasRead(w)'
    BY <1>1, <1>3, <2>1, RequestKinds DEF Serving, Session, HasRead
  <2>3. Writing(w)' /\ Referring(w)' /\ Locking(w)'
    <3>1. \A j : Live(j)' = Live(j)
      BY <1>3, TablesFrame
    <3> QED
      BY <1>1, <1>2, <1>3, <2>1, <3>1, HoldsNothing DEF Writing, Referring, Locking, locks, Session
  <2>4. ~ Claiming(w)'
    BY <2>1 DEF Claiming
  <2>5. DOMAIN wanted' = Workers /\ \A v \in Workers \ {w} : wanted'[v] = wanted[v]
    BY <1>3 DEF Inv, SessionsTyped
  <2> QED
    BY <1>1, <1>3, <2>2, <2>3, <2>4, <2>5, StageStep DEF Stages, Answering
<1>4. ASSUME StocksOf(i) = {}, LinesOf(i) = {}, Goto(w, "commit"),
             UNCHANGED <<database, locks, form, todo, seen, wanted, lived, begun>>
      PROVE  Inv'
  <2>1. pc'[w] = "commit"
    BY <1>4 DEF Goto, Inv, SessionsTyped
  <2>2. Serving(w)' /\ HasRead(w)'
    BY <1>1, <1>4, <2>1, RequestKinds DEF Serving, Session, HasRead
  <2>3. Writing(w)' /\ Referring(w)' /\ Locking(w)'
    <3>1. /\ \A j : Live(j)' = Live(j)
          /\ StocksOf(i)' = {} /\ LinesOf(i)' = {}
      BY <1>4, TablesFrame
    <3>2. Writing(w)'
      BY <1>1, <1>2, <1>4, <2>1, <3>1 DEF Writing, locks, Session
    <3> QED
      BY <1>1, <1>4, <2>1, <3>2, HoldsNothing DEF Referring, Locking, locks, Session
  <2>4. ~ Claiming(w)'
    BY <1>1, <1>4 DEF Claiming, Claims
  <2>5. DOMAIN wanted' = Workers /\ \A v \in Workers \ {w} : wanted'[v] = wanted[v]
    BY <1>4 DEF Inv, SessionsTyped
  <2> QED
    BY <1>1, <1>4, <2>2, <2>3, <2>4, <2>5, StageStep DEF Stages, Answering
<1> QED
  BY <1>3, <1>4, RollbackPreserves DEF Restrict

\* The read of which stock rows exist, in front of their locks.
LEMMA SelectPreserves ==
    ASSUME Inv, NEW w \in Workers, Select(w)
    PROVE  Inv'
<1>1. /\ pc[w] = "select" /\ Goto(w, "lock")
      /\ wanted' = [wanted EXCEPT ![w] = form[w].slots \cap stocked]
      /\ UNCHANGED <<database, locks, form, todo, seen, lived, begun>>
  BY DEF Select
<1>2. Session(w) /\ form[w].op = "stock" /\ form[w] \in Requests
  BY <1>1, Served DEF Inv, Session, Serving
<1>3. pc'[w] = "lock" /\ wanted'[w] = form[w].slots \cap stocked
  BY <1>1 DEF Goto, Inv, SessionsTyped
<1>4. Serving(w)' /\ HasRead(w)'
  BY <1>1, <1>2, <1>3, RequestKinds DEF Serving, Session, HasRead
<1>5. Writing(w)' /\ Referring(w)'
  BY <1>1, <1>2, <1>3, HoldsNothing DEF Writing, Referring, locks
<1>6. Locking(w)'
  BY <1>1, <1>2, <1>3, HoldsNothing DEF Locking, locks, database
<1>7. ~ Claiming(w)'
  BY <1>3 DEF Claiming
<1>8. DOMAIN wanted' = Workers /\ \A v \in Workers \ {w} : wanted'[v] = wanted[v]
  BY <1>1 DEF Inv, SessionsTyped
<1> QED
  BY <1>1, <1>4, <1>5, <1>6, <1>7, <1>8, StageStep DEF Stages, Answering

\* The slots of one stock change have one product and lie in different warehouses.
LEMMA SlotsDiffer ==
    ASSUME NEW g \in Requests, g.op = "stock", NEW s \in g.slots, NEW t \in g.slots
    PROVE  /\ s \in Book!Slots /\ s[2] \in Nat /\ t[2] \in Nat
           /\ s[1] = t[1]
           /\ s # t => s[2] # t[2]
<1>1. s \in Book!Slots /\ t \in Book!Slots /\ s[1] = t[1]
  BY RequestKinds
<1>2. s = <<s[1], s[2]>> /\ t = <<t[1], t[2]>> /\ s[2] \in Warehouses /\ t[2] \in Warehouses
  BY <1>1, SlotFacts
<1> QED
  BY <1>1, <1>2, CatalogIdsAssumption

\* A session takes the lock on an inventory row that nobody has.
LEMMA SlotStep ==
    ASSUME Inv, NEW w \in Workers, NEW stage \in Stages, Goto(w, stage),
           NEW s \in Book!Slots, slotLock[s] = Nobody, slotLock' = [slotLock EXCEPT ![s] = w],
           DOMAIN wanted' = Workers, \A v \in Workers \ {w} : wanted'[v] = wanted[v],
           UNCHANGED <<database, writer, sharers, form, todo, seen, lived>>,
           Serving(w)', HasRead(w)', Writing(w)', Referring(w)', Locking(w)',
           pc[w] \notin Answering, stage \notin Answering \cup {"commit"}
    PROVE  Inv'
<1>1. pc'[w] = stage
  BY DEF Goto, Inv, SessionsTyped
<1>2. SeenOf(w)'
  <2>1. SeenOf(w)
    BY DEF Inv, Session
  <2> QED
    BY <1>1, <2>1, TablesFrame DEF SeenOf
<1>4. Session(w)'
  BY <1>2 DEF Session
<1>5. SessionsTyped'
  BY <1>1 DEF Inv, SessionsTyped, Goto
<1>6. \A v \in Workers \ {w} : Undisturbed(v)
  BY CatalogSessionsAssumption DEF Inv, SessionsTyped, Undisturbed, Goto
<1>7. Exclusion'
  <2>1. ASSUME NEW i \in Items, NEW v \in Workers, writer'[i] = v, Exclusive(v)'
        PROVE  sharers'[i] = {}
    <3>1. writer[i] = v /\ Exclusive(v)
      BY <2>1, RequestFrame
    <3> QED
      BY <3>1 DEF Inv, Exclusion
  <2> QED
    BY <2>1 DEF Exclusion
<1>8. ~ Claiming(w)' /\ form'[w] = form[w]
  BY <1>1 DEF Claiming
<1> QED
  BY <1>4, <1>5, <1>6, <1>7, <1>8, QuietStep

\* The next row lock of get_locked_balance or get_locked_balances.
LEMMA LockRowPreserves ==
    ASSUME Inv, NEW w \in Workers, NEW s \in Book!Slots, LockRow(w, s)
    PROVE  Inv'
<1>1. /\ pc[w] = "lock" /\ s \in FirstOf(wanted[w]) /\ slotLock[s] = Nobody
      /\ slotLock' = [slotLock EXCEPT ![s] = w]
      /\ wanted' = [wanted EXCEPT ![w] = @ \ {s}]
      /\ UNCHANGED <<database, writer, sharers, pc, form, todo, seen, lived, begun>>
  BY DEF LockRow
<1>2. Session(w) /\ form[w].op = "stock" /\ form[w] \in Requests
  BY <1>1, Served DEF Inv, Session, Serving
<1>3. /\ pc'[w] = "lock" /\ wanted'[w] = wanted[w] \ {s}
      /\ form'[w] = form[w] /\ stocked' = stocked
      /\ \A t \in Book!Slots : slotLock'[t] = IF t = s THEN w ELSE slotLock[t]
  BY <1>1 DEF Inv, SessionsTyped, database
<1>4. /\ wanted[w] \subseteq form[w].slots \cap stocked
      /\ s \in wanted[w] /\ \A t \in wanted[w] : s[2] <= t[2]
      /\ \A u \in Book!Slots : slotLock[u] = w =>
            u \in form[w].slots /\ u \in stocked /\ \A t \in wanted[w] : u[2] < t[2]
  BY <1>1, <1>2 DEF Session, Locking, FirstOf
<1>5. \A t \in wanted[w] : t # s => s[2] < t[2]
  <2>1. ASSUME NEW t \in wanted[w], t # s
        PROVE  s[2] < t[2]
    <3>1. s \in form[w].slots /\ t \in form[w].slots
      BY <1>4
    <3>2. s[2] \in Nat /\ t[2] \in Nat /\ s[2] # t[2]
      BY <1>2, <2>1, <3>1, SlotsDiffer
    <3>3. s[2] <= t[2]
      BY <1>4
    <3> QED
      BY <3>2, <3>3
  <2> QED
    BY <2>1
<1>6. Serving(w)' /\ HasRead(w)'
  BY <1>1, <1>2, <1>3, RequestKinds DEF Serving, Session, HasRead
<1>7. Writing(w)' /\ Referring(w)'
  BY <1>1, <1>2, <1>3, HoldsNothing DEF Writing, Referring
<1>8. Locking(w)'
  <2>1. ASSUME NEW u \in Book!Slots, slotLock'[u] = w
        PROVE  u \in form[w].slots /\ u \in stocked /\ \A t \in wanted'[w] : u[2] < t[2]
    <3>1. CASE u = s
      BY <1>3, <1>4, <1>5, <3>1
    <3>2. CASE u # s
      BY <1>3, <1>4, <2>1, <3>2
    <3> QED
      BY <3>1, <3>2
  <2> QED
    BY <1>2, <1>3, <1>4, <2>1 DEF Locking
<1>9. Goto(w, "lock")
  BY <1>1 DEF Goto, Inv, SessionsTyped
<1>10. DOMAIN wanted' = Workers /\ \A v \in Workers \ {w} : wanted'[v] = wanted[v]
  BY <1>1 DEF Inv, SessionsTyped
<1> QED
  BY <1>1, <1>6, <1>7, <1>8, <1>9, <1>10, SlotStep DEF Stages, Answering

\* A stock change inserts at most one inventory row.
LEMMA OneIsMissing ==
    ASSUME NEW w \in Workers, form[w] \in Requests, form[w].op = "stock",
           Unlocked(w) \cap form[w].needs = {}, Unlocked(w) # {}
    PROVE  \E s \in form[w].slots : Unlocked(w) = {s}
<1>1. CASE \E s \in Book!Slots : form[w].slots = {s}
  <2>1. PICK s \in Book!Slots : form[w].slots = {s}
    BY <1>1
  <2> QED
    BY <2>1 DEF Unlocked
<1>2. CASE \E s, t \in Book!Slots : s # t /\ form[w].slots = {s, t} /\ form[w].needs = {s}
  <2>1. PICK s \in Book!Slots, t \in Book!Slots :
           s # t /\ form[w].slots = {s, t} /\ form[w].needs = {s}
    BY <1>2
  <2>2. s \notin Unlocked(w)
    BY <2>1
  <2>3. Unlocked(w) \subseteq {t}
    BY <2>1, <2>2 DEF Unlocked
  <2> QED
    BY <2>1, <2>3
<1> QED
  BY <1>1, <1>2, RequestKinds

\* All locks held: rows to insert, or the references at once.
LEMMA DecidePreserves ==
    ASSUME Inv, NEW w \in Workers, Decide(w)
    PROVE  Inv'
<1> DEFINE stage == IF Unlocked(w) # {} THEN "insert" ELSE "refer"
           next == IF Unlocked(w) # {} THEN Unlocked(w) ELSE Book!RefersTo(form[w].slots)
<1>1. pc[w] = "lock" /\ wanted[w] = {} /\ Session(w)
      /\ form[w].op = "stock" /\ form[w] \in Requests
  BY Served DEF Decide, Inv, Session, Serving
<1>2. CASE Unlocked(w) \cap form[w].needs # {}
  BY <1>2, RollbackPreserves DEF Decide
<1>3. CASE Unlocked(w) \cap form[w].needs = {}
  <2>1. /\ wanted' = [wanted EXCEPT ![w] = next] /\ Goto(w, stage)
        /\ UNCHANGED <<database, locks, form, todo, seen, lived, begun>>
    BY <1>3 DEF Decide
  <2>2. stage \in {"insert", "refer"} /\ (stage = "insert" <=> Unlocked(w) # {})
    OBVIOUS
  <2>3. /\ stage = "insert" => \E s \in form[w].slots : next = {s}
        /\ stage = "refer" => next = Book!RefersTo(form[w].slots)
    BY <1>1, <1>3, OneIsMissing
  <2> HIDE DEF stage, next
  <2>4. pc'[w] = stage /\ wanted'[w] = next /\ form' = form /\ seen' = seen /\ stocked' = stocked
        /\ writer' = writer /\ sharers' = sharers /\ slotLock' = slotLock
    BY <2>1 DEF Goto, Inv, SessionsTyped, locks, database
  <2>5. Serving(w)' /\ HasRead(w)'
    BY <1>1, <2>2, <2>4, RequestKinds DEF Serving, Session, HasRead
  <2>6. Writing(w)' /\ Referring(w)'
    BY <1>1, <2>2, <2>3, <2>4, HoldsNothing DEF Writing, Referring
  <2>7. Locking(w)'
    BY <1>1, <2>2, <2>3, <2>4 DEF Session, Locking
  <2>8. ~ Claiming(w)'
    BY <2>2, <2>4 DEF Claiming
  <2>9. DOMAIN wanted' = Workers /\ \A v \in Workers \ {w} : wanted'[v] = wanted[v]
    BY <2>1 DEF Inv, SessionsTyped
  <2> QED
    BY <1>1, <2>1, <2>2, <2>5, <2>6, <2>7, <2>8, <2>9, StageStep DEF Stages, Answering
<1> QED
  BY <1>2, <1>3

\* A stock row's insert, or the duplicate that fails it.
LEMMA InsertPreserves ==
    ASSUME Inv, NEW w \in Workers, NEW s \in Book!Slots, Insert(w, s)
    PROVE  Inv'
<1>1. pc[w] = "insert" /\ s \in wanted[w] /\ Session(w)
      /\ form[w].op = "stock" /\ form[w] \in Requests
  BY Served DEF Insert, Inv, Session, Serving
<1>2. CASE s \in stocked
  BY <1>2, RollbackPreserves DEF Insert
<1>3. CASE s \notin stocked
  <2>1. wanted[w] \ {s} = {} /\ s \in form[w].slots
    BY <1>1 DEF Session, Locking
  <2>2. /\ slotLock[s] = Nobody
        /\ slotLock' = [slotLock EXCEPT ![s] = w]
        /\ wanted' = [wanted EXCEPT ![w] = Book!RefersTo(form[w].slots)]
        /\ Goto(w, "refer")
        /\ UNCHANGED <<database, writer, sharers, form, todo, seen, lived, begun>>
    BY <1>3, <2>1 DEF Insert
  <2>3. /\ pc'[w] = "refer" /\ wanted'[w] = Book!RefersTo(form[w].slots)
        /\ \A t \in Book!Slots : slotLock'[t] = IF t = s THEN w ELSE slotLock[t]
    BY <2>2 DEF Goto, Inv, SessionsTyped
  <2>4. Serving(w)' /\ HasRead(w)'
    BY <1>1, <2>2, <2>3, RequestKinds DEF Serving, Session, HasRead
  <2>5. Writing(w)' /\ Referring(w)'
    BY <1>1, <2>2, <2>3, HoldsNothing DEF Writing, Referring
  <2>6. Locking(w)'
    BY <1>1, <2>1, <2>2, <2>3 DEF Session, Locking
  <2>7. DOMAIN wanted' = Workers /\ \A v \in Workers \ {w} : wanted'[v] = wanted[v]
    BY <2>2 DEF Inv, SessionsTyped
  <2> QED
    BY <1>1, <2>2, <2>4, <2>5, <2>6, <2>7, SlotStep DEF Stages, Answering
<1> QED
  BY <1>2, <1>3

\* A reference's check, with its share lock on the row referred to.
LEMMA ReferPreserves ==
    ASSUME Inv, NEW w \in Workers, NEW i \in Items, Refer(w, i)
    PROVE  Inv'
<1> DEFINE stage == IF wanted[w] = {i} THEN "commit" ELSE "refer"
<1>1. pc[w] = "refer" /\ i \in wanted[w] /\ Session(w)
      /\ form[w].op \in {"stock", "order"} /\ form[w] \in Requests
  BY Served DEF Refer, Inv, Session, Serving
<1>2. CASE ~ Live(i)
  BY <1>2, RollbackPreserves DEF Refer
<1>3. CASE Live(i)
  <2>1. /\ ReferBlockers(w, i) = {}
        /\ sharers' = [sharers EXCEPT ![i] = @ \cup {w}]
        /\ wanted' = [wanted EXCEPT ![w] = @ \ {i}]
        /\ Goto(w, stage)
        /\ UNCHANGED <<database, writer, slotLock, form, todo, seen, lived, begun>>
    BY <1>3 DEF Refer
  <2>2. /\ wanted[w] \subseteq Book!RefersTo(form[w].slots)
        /\ Book!RefersTo(form[w].slots) \subseteq Items
        /\ \A j \in Book!RefersTo(form[w].slots) : j \in wanted[w] \/ w \in sharers[j]
    BY <1>1, RequestKinds, SlotFacts DEF Session, Referring
  <2>3. stage \in {"commit", "refer"} /\ (stage = "commit" => wanted[w] = {i})
    OBVIOUS
  <2> HIDE DEF stage
  <2>4. /\ pc'[w] = stage /\ wanted'[w] = wanted[w] \ {i}
        /\ \A j \in Items : sharers'[j] = IF j = i THEN sharers[i] \cup {w} ELSE sharers[j]
    BY <2>1 DEF Goto, Inv, SessionsTyped
  <2>5. Serving(w)' /\ HasRead(w)'
    BY <1>1, <2>1, <2>3, <2>4, RequestKinds DEF Serving, Session, HasRead
  <2>6. Writing(w)'
    BY <1>1, <2>1, <2>3, <2>4, HoldsNothing DEF Writing
  <2>7. Referring(w)'
    <3>1. \A j : Live(j)' = Live(j)
      BY <2>1, TablesFrame
    <3>2. ASSUME NEW j \in Items, w \in sharers'[j]
          PROVE  j \in Book!RefersTo(form[w].slots) /\ Live(j)
      BY <1>1, <1>3, <2>2, <2>4, <3>2 DEF Session, Referring
    <3>3. \A j \in Book!RefersTo(form[w].slots) : j \in wanted'[w] \/ w \in sharers'[j]
      BY <2>2, <2>4
    <3> QED
      BY <1>1, <2>1, <2>2, <2>3, <2>4, <3>1, <3>2, <3>3 DEF Referring
  <2>8. Locking(w)'
    BY <1>1, <2>1, <2>3, <2>4 DEF Session, Locking
  <2>9. SeenOf(w)'
    BY <1>1, <2>1, <2>3, <2>4, TablesFrame DEF Session, SeenOf, Answering
  <2>10. Session(w)'
    BY <2>5, <2>6, <2>7, <2>8, <2>9 DEF Session
  <2>11. SessionsTyped'
    BY <2>1, <2>3, <2>4 DEF Inv, SessionsTyped, Goto, Stages
  <2>12. \A v \in Workers \ {w} : Undisturbed(v)
    BY <2>1, <2>4 DEF Inv, SessionsTyped, Undisturbed, Goto
  <2>13. Exclusion'
    <3>1. ASSUME NEW j \in Items, NEW v \in Workers, writer'[j] = v, Exclusive(v)'
          PROVE  sharers'[j] = {}
      <4>1. writer[j] = v /\ Exclusive(v)
        BY <2>1, <3>1, RequestFrame
      <4>2. j # i
        BY <2>1, <4>1, CatalogSessionsAssumption DEF ReferBlockers
      <4> QED
        BY <2>4, <4>1, <4>2 DEF Inv, Exclusion
    <3> QED
      BY <3>1 DEF Exclusion
  <2>14. ~ Claiming(w)'
    BY <1>1, <2>1 DEF Claiming, Claims
  <2>15. form'[w] = form[w] /\ UNCHANGED database
    BY <2>1
  <2> QED
    BY <2>10, <2>11, <2>12, <2>13, <2>14, <2>15, QuietStep
<1> QED
  BY <1>2, <1>3

\* The refresh that answers a write, in a transaction of its own.
LEMMA ReloadPreserves ==
    ASSUME Inv, NEW w \in Workers, Reload(w)
    PROVE  Inv'
<1>1. /\ pc[w] = "reload" /\ pc' = [pc EXCEPT ![w] = "idle"]
      /\ form' = [form EXCEPT ![w] = NoForm] /\ lived' = [lived EXCEPT ![w] = {}]
      /\ UNCHANGED <<database, locks, todo, seen, wanted, begun>>
  BY DEF Reload, Finish, Goto
<1>2. Session(w)
  BY DEF Inv
<1>3. Session(w)'
  <2>1. pc'[w] = "idle" /\ form'[w] = NoForm
    BY <1>1 DEF Inv, SessionsTyped
  <2>2. DOMAIN seen'[w] = {} /\ wanted'[w] = {}
    BY <1>1, <1>2 DEF Session, SeenOf, Locking, Answering
  <2>3. /\ \A i \in Items : writer'[i] # w /\ w \notin sharers'[i]
        /\ \A s \in Book!Slots : slotLock'[s] # w
    BY <1>1, <1>2, HoldsNothing DEF locks
  <2> QED
    BY <2>1, <2>2, <2>3, IdleSession
<1>4. SessionsTyped'
  BY <1>1 DEF Inv, SessionsTyped, locks, Stages
<1>5. \A v \in Workers \ {w} : Undisturbed(v)
  BY <1>1 DEF Inv, SessionsTyped, Undisturbed, locks
<1>6. Exclusion'
  <2>1. ASSUME NEW i \in Items, NEW v \in Workers, writer'[i] = v, Exclusive(v)'
        PROVE  sharers'[i] = {}
    <3>1. v # w /\ writer[i] = v
      BY <1>1, <1>2, <2>1, HoldsNothing DEF locks
    <3>2. Exclusive(v)
      BY <1>1, <2>1, <3>1, RequestFrame
    <3> QED
      BY <1>1, <3>1, <3>2 DEF Inv, Exclusion, locks
  <2> QED
    BY <2>1 DEF Exclusion
<1>7. ~ Claiming(w)' /\ form'[w] = NoForm
  BY <1>1 DEF Claiming, Inv, SessionsTyped
<1> QED
  BY <1>1, <1>3, <1>4, <1>5, <1>6, <1>7, QuietStep

----------------------------------------------------------------------------
(* Commits *)

\* A row with some of its columns written anew is a row of the same table.
LEMMA AppliedRow ==
    ASSUME NEW i \in Items, NEW r \in RowsOf(i), NEW changes, Fits(i, changes),
           NEW fields \in SUBSET DOMAIN changes
    PROVE  /\ Book!Applied(r, changes, fields) \in RowsOf(i)
           /\ Book!Applied(r, changes, fields).key =
                  IF "key" \in fields THEN changes.key ELSE r.key
<1> DEFINE new == Book!Applied(r, changes, fields)
<1>1. /\ DOMAIN new = DOMAIN r
      /\ \A x \in DOMAIN r : new[x] = IF x \in fields THEN changes[x] ELSE r[x]
      /\ new = [x \in DOMAIN r |-> new[x]]
  BY DEF Book!Applied
<1>2. \A x \in fields : /\ x = "key" => changes[x] \in Stored
                        /\ x = "price" => changes[x] \in Nat
                        /\ x = "active" => changes[x] \in BOOLEAN
  BY DEF Fits
<1> HIDE DEF new
<1>3. CASE i \in Products
  <2>1. r \in ProductRow
    BY <1>3 DEF RowsOf
  <2>2. /\ DOMAIN r = {"key", "price", "active"}
        /\ r["key"] \in Stored /\ r["price"] \in Nat /\ r["active"] \in BOOLEAN
    BY <2>1 DEF ProductRow
  <2>3. new["key"] \in Stored /\ new["price"] \in Nat /\ new["active"] \in BOOLEAN
    BY <1>1, <1>2, <2>2
  <2>4. new = [key |-> new["key"], price |-> new["price"], active |-> new["active"]]
    BY <1>1, <2>2
  <2>5. new \in ProductRow
    BY <2>3, <2>4 DEF ProductRow
  <2> QED
    BY <1>1, <1>3, <2>2, <2>5 DEF RowsOf, new
<1>4. CASE i \notin Products
  <2>1. r \in WarehouseRow
    BY <1>4 DEF RowsOf
  <2>2. DOMAIN r = {"key"} /\ r["key"] \in Stored
    BY <2>1 DEF WarehouseRow
  <2>3. new["key"] \in Stored
    BY <1>1, <1>2, <2>2
  <2>4. new = [key |-> new["key"]]
    BY <1>1, <2>2
  <2>5. new \in WarehouseRow
    BY <2>3, <2>4 DEF WarehouseRow
  <2> QED
    BY <1>1, <1>4, <2>2, <2>5 DEF RowsOf, new
<1> QED
  BY <1>3, <1>4

\* The item a request changes.
Target(w) == IF form[w].op \in {"create", "update", "delete"} THEN {form[w].item} ELSE {}

\* What a commit does to the catalogue.
LEMMA CommitRows ==
    ASSUME Inv, NEW w \in Workers, pc[w] = "commit", row' = Effect(w)
    PROVE  /\ row' \in [Items -> ProductRow \cup WarehouseRow \cup {Unborn, Deleted}]
           /\ \A j \in Items : Live(j)' => row'[j] \in RowsOf(j)
           /\ \A j \in Items \ Target(w) : row'[j] = row[j]
           /\ \A j \in Items : /\ row[j] # Unborn => row'[j] # Unborn
                               /\ row[j] = Deleted => row'[j] = Deleted
                               /\ row'[j] = Deleted =>
                                     \/ row[j] = Deleted
                                     \/ form[w].op = "delete" /\ form[w].item = j
           /\ \A j \in Items : Live(j)' =>
                  \/ Live(j) /\ row'[j].key = row[j].key
                  \/ form[w].item = j /\ Claims(w) /\ row'[j].key = KeyOf(w)
           /\ \A j \in Items : form[w].op = "create" /\ form[w].item = j => Live(j)'
<1> DEFINE f == form[w]
           i == form[w].item
<1>1. Session(w) /\ TablesTyped /\ f \in Requests
  BY Served DEF Inv, Session
<1>2. f.op \in {"create", "update", "delete"} => i \in Items
  BY <1>1, RequestKinds
<1>3. \A j : /\ Live(j) <=> row[j] \notin {Unborn, Deleted}
             /\ Live(j)' <=> row'[j] \notin {Unborn, Deleted}
  BY DEF Live, Book!Live
<1>4. CASE f.op = "create"
  <2>1. row' = [row EXCEPT ![i] = f.row] /\ f.row \in RowsOf(i) /\ row[i] = Unborn
    BY <1>1, <1>4, RequestKinds DEF Effect, Session, Writing
  <2>2. row'[i] = f.row /\ \A j \in Items \ {i} : row'[j] = row[j]
    BY <1>1, <1>2, <1>4, <2>1 DEF TablesTyped
  <2>3. f.row \in ProductRow \cup WarehouseRow /\ f.row \notin {Unborn, Deleted}
    BY <1>2, <1>4, <2>1, RowFacts
  <2>4. row' \in [Items -> ProductRow \cup WarehouseRow \cup {Unborn, Deleted}]
    BY <1>1, <2>1, <2>3 DEF TablesTyped
  <2>5. \A j \in Items : Live(j)' => row'[j] \in RowsOf(j)
    BY <1>1, <1>3, <2>1, <2>2 DEF TablesTyped
  <2>6. Claims(w) /\ KeyOf(w) = f.row.key /\ Target(w) = {i}
    BY <1>4 DEF Claims, KeyOf, Target
  <2> QED
    BY <1>2, <1>3, <1>4, <2>1, <2>2, <2>3, <2>4, <2>5, <2>6, CatalogMarksAssumption
<1>5. CASE f.op = "delete"
  <2>1. row' = [row EXCEPT ![i] = Deleted]
    BY <1>5 DEF Effect
  <2>2. row'[i] = Deleted /\ \A j \in Items \ {i} : row'[j] = row[j]
    BY <1>1, <1>2, <1>5, <2>1 DEF TablesTyped
  <2>3. row' \in [Items -> ProductRow \cup WarehouseRow \cup {Unborn, Deleted}]
    BY <1>1, <2>1 DEF TablesTyped
  <2>4. \A j \in Items : Live(j)' => row'[j] \in RowsOf(j)
    BY <1>1, <1>3, <2>2 DEF TablesTyped
  <2>5. Target(w) = {i}
    BY <1>5 DEF Target
  <2> QED
    BY <1>2, <1>3, <1>5, <2>2, <2>3, <2>4, <2>5, CatalogMarksAssumption
<1>6. CASE f.op = "update" /\ Live(i)
  <2> DEFINE new == Book!Applied(row[i], f.changes, Written(w))
  <2>1. row' = [row EXCEPT ![i] = new]
    BY <1>6 DEF Effect
  <2>2. row[i] \in RowsOf(i) /\ Fits(i, f.changes) /\ Written(w) \in SUBSET DOMAIN f.changes
    BY <1>1, <1>2, <1>6, RequestKinds DEF TablesTyped, Written
  <2>3. /\ new \in RowsOf(i)
        /\ new.key = IF "key" \in Written(w) THEN f.changes.key ELSE row[i].key
    BY <1>2, <1>6, <2>2, AppliedRow
  <2>4. new \in ProductRow \cup WarehouseRow /\ new \notin {Unborn, Deleted}
    BY <1>2, <1>6, <2>3, RowFacts
  <2>5. "key" \in Written(w) => Claims(w) /\ KeyOf(w) = f.changes.key
    BY <1>6 DEF Claims, KeyOf
  <2>6. Target(w) = {i}
    BY <1>6 DEF Target
  <2> HIDE DEF new
  <2>7. row'[i] = new /\ \A j \in Items \ {i} : row'[j] = row[j]
    BY <1>1, <1>2, <1>6, <2>1 DEF TablesTyped
  <2>8. row' \in [Items -> ProductRow \cup WarehouseRow \cup {Unborn, Deleted}]
    BY <1>1, <2>1, <2>4 DEF TablesTyped
  <2>9. \A j \in Items : Live(j)' => row'[j] \in RowsOf(j)
    BY <1>1, <1>3, <2>3, <2>7 DEF TablesTyped
  <2> QED
    BY <1>2, <1>3, <1>6, <2>3, <2>4, <2>5, <2>6, <2>7, <2>8, <2>9
<1>7. CASE f.op \in {"stock", "order"} \/ (f.op = "update" /\ ~ Live(i))
  <2>1. row' = row
    BY <1>7 DEF Effect
  <2> QED
    BY <1>1, <1>3, <1>7, <2>1 DEF TablesTyped
<1> QED
  BY <1>1, <1>4, <1>5, <1>6, <1>7, RequestKinds

\* What a commit does to the stock rows and the orders.
LEMMA CommitLines ==
    ASSUME Inv, NEW w \in Workers, Commit(w)
    PROVE  /\ orders' \in Seq(PricedLines)
           /\ stocked' = IF form[w].op = "stock" THEN stocked \cup form[w].slots ELSE stocked
           /\ Lines' = IF form[w].op = "order" THEN Lines \cup form[w].slots ELSE Lines
           /\ form[w].op \in {"stock", "order"} =>
                  /\ form[w].slots \subseteq Book!Slots
                  /\ \A i \in Book!RefersTo(form[w].slots) :
                         i \in Items /\ w \in sharers[i] /\ Live(i)
<1> DEFINE f == form[w]
<1>1. pc[w] = "commit" /\ Session(w) /\ TablesTyped /\ f \in Requests
  BY Served DEF Commit, Inv, Session
<1>2. ASSUME f.op \in {"stock", "order"}
      PROVE  /\ f.slots \subseteq Book!Slots
             /\ \A i \in Book!RefersTo(f.slots) : i \in Items /\ w \in sharers[i] /\ Live(i)
  <2>1. f.slots \subseteq Book!Slots /\ Book!RefersTo(f.slots) \subseteq Items
    BY <1>1, <1>2, RequestKinds, SlotFacts
  <2> QED
    BY <1>1, <1>2, <2>1 DEF Session, Referring
<1>3. stocked' = IF f.op = "stock" THEN stocked \cup f.slots ELSE stocked
  BY DEF Commit
<1>4. orders \in Seq(PricedLines)
  BY <1>1 DEF TablesTyped
<1>5. CASE f.op # "order"
  BY <1>2, <1>3, <1>4, <1>5 DEF Commit, Lines
<1>6. CASE f.op = "order"
  <2> DEFINE new == [s \in f.slots |-> seen[w][s[1]].price]
  <2>1. orders' = Append(orders, new) /\ DOMAIN new = f.slots
    BY <1>6 DEF Commit
  <2>2. ASSUME NEW s \in f.slots
        PROVE  seen[w][s[1]].price \in Nat
    <3>1. s[1] \in Book!RefersTo(f.slots) /\ s[1] \in Products /\ s[1] \in Items
      BY <1>2, <1>6, SlotFacts DEF Book!RefersTo
    <3>2. s[1] \in DOMAIN seen[w]
      BY <1>1, <1>6, <3>1 DEF Session, HasRead
    <3>3. seen[w][s[1]] \in RowsOf(s[1])
      BY <1>1, <3>2 DEF Session, SeenOf
    <3> QED
      BY <3>1, <3>3, RowFacts
  <2>3. new \in [f.slots -> Nat]
    BY <2>2
  <2>4. f.slots \in SUBSET Book!Slots
    BY <1>2, <1>6
  <2> HIDE DEF new
  <2>5. new \in PricedLines
    BY <2>3, <2>4 DEF PricedLines
  <2>6. /\ orders' \in Seq(PricedLines)
        /\ DOMAIN orders' = DOMAIN orders \cup {Len(orders) + 1}
        /\ \A n \in DOMAIN orders : orders'[n] = orders[n]
        /\ orders'[Len(orders) + 1] = new
    BY <1>4, <2>1, <2>5
  <2>7. Lines' = Lines \cup f.slots
    BY <2>1, <2>6 DEF Lines
  <2> QED
    BY <1>2, <1>3, <1>6, <2>6, <2>7
<1> QED
  BY <1>5, <1>6

\* A row that is deleted is one nobody refers to, nor is about to.
LEMMA DeletedIsFree ==
    ASSUME Inv, NEW w \in Workers, Commit(w), form[w].op = "delete"
    PROVE  /\ form[w].item \in Items /\ form[w].item \notin Products
           /\ Live(form[w].item) =>
                  /\ writer[form[w].item] = w
                  /\ sharers[form[w].item] = {}
                  /\ \A s \in stocked \cup Lines : s[2] # form[w].item
<1> DEFINE i == form[w].item
<1>1. pc[w] = "commit" /\ Session(w) /\ form[w] \in Requests
  BY Served DEF Commit, Inv, Session
<1>2. i \in Items /\ i \notin Products
  BY <1>1, RequestKinds
<1>3. ASSUME Live(i)
      PROVE  writer[i] = w /\ sharers[i] = {} /\ \A s \in stocked \cup Lines : s[2] # i
  <2>1. writer[i] = w /\ StocksOf(i) = {} /\ LinesOf(i) = {}
    BY <1>1, <1>3 DEF Session, Writing, Live, Book!Live
  <2>2. sharers[i] = {}
    BY <1>2, <2>1 DEF Inv, Exclusion, Exclusive
  <2>3. \A s \in stocked \cup Lines : s[2] # i
    BY <2>1 DEF StocksOf, LinesOf, Lines
  <2> QED
    BY <2>1, <2>2, <2>3
<1> QED
  BY <1>2, <1>3

\* The sessions that did not commit.
LEMMA CommitFrame ==
    ASSUME Inv, NEW w \in Workers, Commit(w), NEW v \in Workers \ {w}
    PROVE  /\ pc'[v] = pc[v] /\ form'[v] = form[v] /\ todo'[v] = todo[v]
           /\ seen'[v] = seen[v] /\ wanted'[v] = wanted[v]
           /\ lived'[v] = IF pc[v] \in Answering THEN {} ELSE lived[v] \cup Witnessed(row)'
           /\ \A i \in Items : /\ writer'[i] = v <=> writer[i] = v
                               /\ v \in sharers'[i] <=> v \in sharers[i]
           /\ \A s \in Book!Slots : slotLock'[s] = v <=> slotLock[s] = v
<1>1. SessionsTyped /\ Release(w)
  BY DEF Inv, Commit
<1>2. pc'[v] = pc[v] /\ form'[v] = form[v]
  BY <1>1 DEF Commit, Goto, SessionsTyped
<1>3. lived'[v] = IF pc[v] \in Answering THEN {} ELSE lived[v] \cup Witnessed(row)'
  BY DEF Commit, Answering, Witnessed
<1> QED
  BY <1>1, <1>2, <1>3, ReleaseEnds

\* Only a deletion ends a row.
LEMMA StillLive ==
    ASSUME Inv, NEW w \in Workers, Commit(w), NEW j \in Items, Live(j),
           form[w].op # "delete" \/ form[w].item # j
    PROVE  Live(j)'
<1>1. row' = Effect(w) /\ pc[w] = "commit"
  BY DEF Commit
<1>2. /\ row[j] # Unborn => row'[j] # Unborn
      /\ row'[j] = Deleted =>
            \/ row[j] = Deleted
            \/ form[w].op = "delete" /\ form[w].item = j
  BY <1>1, CommitRows
<1> QED
  BY <1>2 DEF Live, Book!Live

\* A commit keeps the tables in order: this is where references and keys
\* could be broken.
LEMMA CommitTables ==
    ASSUME Inv, NEW w \in Workers, Commit(w)
    PROVE  TablesTyped' /\ Referred' /\ KeysDiffer' /\ PricesOffered'
<1>1. pc[w] = "commit" /\ row' = Effect(w) /\ Session(w) /\ form[w] \in Requests
  BY Served DEF Commit, Inv, Session
<1>2. TablesTyped'
  <2>1. \A p \in Products : row'[p] # Deleted
    <3>1. ASSUME NEW p \in Products, row'[p] = Deleted
          PROVE  FALSE
      <4>1. p \in Items /\ row[p] # Deleted
        BY SlotFacts DEF Inv, TablesTyped
      <4>2. form[w].op = "delete" /\ form[w].item = p
        BY <1>1, <3>1, <4>1, CommitRows
      <4> QED
        BY <4>2, DeletedIsFree
    <3> QED
      BY <3>1
  <2>2. stocked' \subseteq Book!Slots
    BY CommitLines DEF Inv, TablesTyped
  <2>3. /\ row' \in [Items -> ProductRow \cup WarehouseRow \cup {Unborn, Deleted}]
        /\ \A j \in Items : Live(j)' => row'[j] \in RowsOf(j)
    BY <1>1, CommitRows
  <2> QED
    BY <2>1, <2>2, <2>3, CommitLines DEF TablesTyped
<1>3. Referred'
  <2>1. ASSUME NEW s \in stocked' \cup Lines'
        PROVE  Live(s[1])' /\ Live(s[2])'
    <3>1. s \in stocked \cup Lines
          \/ (form[w].op \in {"stock", "order"} /\ s \in form[w].slots)
      BY CommitLines
    <3>2. s \in Book!Slots
      <4>1. TablesTyped
        BY DEF Inv
      <4>2. Lines \subseteq Book!Slots
        <5>1. \A n \in DOMAIN orders : orders[n] \in PricedLines
          BY <4>1 DEF TablesTyped
        <5>2. \A n \in DOMAIN orders : DOMAIN orders[n] \subseteq Book!Slots
          BY <5>1 DEF PricedLines
        <5> QED
          BY <5>2 DEF Lines
      <4> QED
        BY <3>1, <4>1, <4>2, CommitLines DEF TablesTyped
    <3>3. s[1] \in Items /\ s[2] \in Items /\ s[1] \in Products
      BY <3>2, SlotFacts
    <3>4. Live(s[1]) /\ Live(s[2])
      <4>1. CASE s \in stocked \cup Lines
        BY <4>1 DEF Inv, Referred
      <4>2. CASE form[w].op \in {"stock", "order"} /\ s \in form[w].slots
        <5>1. s[1] \in Book!RefersTo(form[w].slots) /\ s[2] \in Book!RefersTo(form[w].slots)
          BY <4>2 DEF Book!RefersTo
        <5> QED
          BY <4>2, <5>1, CommitLines
      <4> QED
        BY <3>1, <4>1, <4>2
    <3>5. form[w].op = "delete" => form[w].item # s[1] /\ form[w].item # s[2]
      BY <3>1, <3>3, <3>4, DeletedIsFree
    <3> QED
      BY <3>3, <3>4, <3>5, StillLive
  <2> QED
    BY <2>1 DEF Referred
<1>4. KeysDiffer'
  <2> DEFINE Kept(j) == Live(j) /\ row'[j].key = row[j].key
             Claimed(j) == form[w].item = j /\ Claims(w) /\ row'[j].key = KeyOf(w)
  <2>1. \A j \in Items : Live(j)' => Kept(j) \/ Claimed(j)
    BY <1>1, CommitRows
  <2>2. ASSUME NEW i \in Items, NEW j \in Items, i # j, Book!SameTable(j, i), Claimed(i), Kept(j)
        PROVE  row'[i].key # row'[j].key
    <3>1. HoldersOfKey(w) = {}
      BY <1>1, <2>2 DEF Inv, KeysClaimed, Claiming
    <3> QED
      BY <2>2, <3>1 DEF HoldersOfKey
  <2>3. ASSUME NEW i \in Items, NEW j \in Items, i # j, Book!SameTable(i, j), Live(i)', Live(j)'
        PROVE  row'[i].key # row'[j].key
    <3>1. Book!SameTable(j, i)
      BY <2>3 DEF Book!SameTable
    <3>2. CASE Kept(i) /\ Kept(j)
      BY <2>3, <3>2 DEF Inv, KeysDiffer
    <3>3. CASE Claimed(i) /\ Kept(j)
      BY <2>2, <2>3, <3>1, <3>3
    <3>4. CASE Kept(i) /\ Claimed(j)
      BY <2>2, <2>3, <3>4
    <3>5. ~ (Claimed(i) /\ Claimed(j))
      BY <2>3
    <3> QED
      BY <2>1, <2>3, <3>2, <3>3, <3>4, <3>5
  <2> QED
    BY <2>3 DEF KeysDiffer, Book!SameTable
<1>5. PricesOffered'
  BY DEF Commit, PricesOffered, Book!Offers, Live, Book!Live
<1> QED
  BY <1>2, <1>3, <1>4, <1>5

\* No commit takes from another session what it relies on.
LEMMA CommitOther ==
    ASSUME Inv, NEW w \in Workers, Commit(w), NEW v \in Workers \ {w}
    PROVE  Session(v)'
<1>1. /\ pc'[v] = pc[v] /\ form'[v] = form[v] /\ todo'[v] = todo[v]
      /\ seen'[v] = seen[v] /\ wanted'[v] = wanted[v]
      /\ lived'[v] = IF pc[v] \in Answering THEN {} ELSE lived[v] \cup Witnessed(row)'
      /\ \A i \in Items : /\ writer'[i] = v <=> writer[i] = v
                          /\ v \in sharers'[i] <=> v \in sharers[i]
      /\ \A s \in Book!Slots : slotLock'[s] = v <=> slotLock[s] = v
  BY CommitFrame
<1>2. Session(v) /\ (pc[v] # "idle" => form[v] \in Requests)
  BY Served DEF Inv, Session
<1>3. /\ pc[w] = "commit" /\ row' = Effect(w) /\ Session(w) /\ form[w] \in Requests
      /\ offered \subseteq offered'
  BY Served DEF Commit, Inv, Session
<1>4. stocked \subseteq stocked' /\ Lines \subseteq Lines'
  BY CommitLines
<1>5. \A i \in Items : /\ row[i] # Unborn => row'[i] # Unborn
                       /\ row[i] = Deleted => row'[i] = Deleted
                       /\ i \notin Target(w) => row'[i] = row[i]
  BY <1>3, CommitRows
<1>6. Written(v)' = Written(v) /\ Claims(v)' = Claims(v)
  BY <1>1, RequestFrame
<1>7. Serving(v)'
  BY <1>1, <1>2, <1>6 DEF Session, Serving
<1>8. SeenOf(v)'
  BY <1>1, <1>2, <1>3, <1>5 DEF Session, SeenOf
<1>9. HasRead(v)'
  BY <1>1, <1>2 DEF Session, HasRead
<1>10. Writing(v)'
  <2>1. ASSUME NEW i \in Items, writer[i] = v
        PROVE  Live(i)'
    <3>1. Live(i)
      BY <1>2, <2>1 DEF Session, Writing
    <3>2. form[w].op # "delete" \/ form[w].item # i
      BY <2>1, <3>1, DeletedIsFree
    <3> QED
      BY <3>1, <3>2, StillLive
  <2>2. pc[v] \in {"restrict", "probe", "claim", "commit"}
        /\ form[v].op \in {"create", "update", "delete"} => form[v].item \in Items
    BY <1>2, RequestKinds
  <2>3. pc[v] \in {"restrict", "probe"} => form[v].op = "delete"
    BY <1>2 DEF Session, Serving
  <2>4. ASSUME pc[v] = "commit", form[v].op = "delete", row[form[v].item] # Deleted
        PROVE  /\ writer[form[v].item] = v
               /\ \A s \in stocked' \cup Lines' : s[2] # form[v].item
    <3> DEFINE i == form[v].item
    <3>1. writer[i] = v /\ StocksOf(i) = {} /\ LinesOf(i) = {} /\ i \in Items
      BY <1>2, <2>2, <2>4 DEF Session, Writing
    <3>2. sharers[i] = {}
      BY <2>4, <3>1 DEF Inv, Exclusion, Exclusive
    <3>3. ASSUME form[w].op \in {"stock", "order"}, NEW s \in form[w].slots
          PROVE  s[2] # i
      <4>1. s[2] \in Book!RefersTo(form[w].slots)
        BY DEF Book!RefersTo
      <4> QED
        BY <3>2, <3>3, <4>1, CommitLines
    <3>4. \A s \in stocked \cup Lines : s[2] # i
      BY <3>1 DEF StocksOf, LinesOf, Lines
    <3> QED
      BY <3>1, <3>3, <3>4, CommitLines
  <2>5. ASSUME pc[v] \in {"claim", "commit"}, form[v].op = "create"
        PROVE  row'[form[v].item] = Unborn
    <3> DEFINE i == form[v].item
    <3>1. row[i] = Unborn /\ i \in Items /\ form[v] # NoForm
      BY <1>2, <2>5, RequestKinds DEF Session, Writing
    <3>2. i \notin Target(w)
      <4>1. CASE form[w].op = "create"
        <5>1. form[w] # NoForm
          BY <1>3, RequestKinds
        <5> QED
          BY <2>5, <3>1, <4>1, <5>1 DEF Inv, NewIds, Target
      <4>2. CASE form[w].op \in {"update", "delete"}
        <5>1. form[w].item \in DOMAIN seen[w]
          BY <1>3, <4>2 DEF Session, HasRead
        <5>2. row[form[w].item] # Unborn
          BY <1>3, <5>1 DEF Session, SeenOf
        <5> QED
          BY <3>1, <4>2, <5>2 DEF Target
      <4> QED
        BY <4>1, <4>2 DEF Target
    <3> QED
      BY <1>5, <3>1, <3>2
  <2>6. \A i \in Items : writer'[i] = v =>
           /\ pc'[v] \in {"claim", "restrict", "probe", "commit"}
           /\ form'[v].op \in {"update", "delete"} /\ form'[v].item = i
           /\ Live(i)'
    BY <1>1, <1>2, <2>1 DEF Session, Writing
  <2>7. /\ pc'[v] \in {"restrict", "probe"} => writer'[form'[v].item] = v
        /\ pc'[v] = "claim" /\ form'[v].op = "update" => writer'[form'[v].item] = v
        /\ pc'[v] = "commit" /\ form'[v].op = "update" =>
              writer'[form'[v].item] = v \/ Written(v)' = {}
    BY <1>1, <1>2, <1>6, <2>2, <2>3 DEF Session, Writing
  <2>8. ASSUME pc'[v] = "commit", form'[v].op = "delete", row'[form'[v].item] # Deleted
        PROVE  /\ writer'[form'[v].item] = v
               /\ \A s \in stocked' \cup Lines' : s[2] # form'[v].item
    BY <1>1, <1>5, <2>2, <2>4, <2>8
  <2>9. (\A s \in stocked' \cup Lines' : s[2] # form'[v].item) =>
            /\ {s \in stocked' : s[2] = form'[v].item} = {}
            /\ {s \in Lines' : s[2] = form'[v].item} = {}
    OBVIOUS
  <2> QED
    BY <1>1, <2>5, <2>6, <2>7, <2>8, <2>9 DEF Writing, StocksOf, LinesOf, Lines
<1>11. Referring(v)'
  <2>1. ASSUME NEW i \in Items, v \in sharers[i]
        PROVE  Live(i)'
    <3>1. Live(i)
      BY <1>2, <2>1 DEF Session, Referring
    <3>2. form[w].op # "delete" \/ form[w].item # i
      BY <2>1, <3>1, DeletedIsFree
    <3> QED
      BY <3>1, <3>2, StillLive
  <2>2. pc[v] \in {"refer", "commit"} /\ form[v].op \in {"stock", "order"} =>
           Book!RefersTo(form[v].slots) \subseteq Items
    BY <1>2, RequestKinds, SlotFacts
  <2>3. pc[v] = "refer" => form[v].op \in {"stock", "order"}
    BY <1>2 DEF Session, Serving
  <2> QED
    BY <1>1, <1>2, <2>1, <2>2, <2>3 DEF Session, Referring
<1>12. Locking(v)'
  BY <1>1, <1>2, <1>4 DEF Session, Locking
<1> QED
  BY <1>7, <1>8, <1>9, <1>10, <1>11, <1>12 DEF Session

\* The session that committed: a deletion is answered at once, another request
\* goes on to read back what it has written.
LEMMA CommitOwn ==
    ASSUME Inv, NEW w \in Workers, Commit(w)
    PROVE  Session(w)' /\ form'[w] \in {form[w], NoForm} /\ pc'[w] \in Answering
<1>1. /\ pc[w] = "commit" /\ row' = Effect(w) /\ Session(w) /\ form[w] \in Requests
      /\ Release(w) /\ SessionsTyped
  BY Served DEF Commit, Inv, Session
<1>2. /\ \A i \in Items : writer'[i] # w /\ w \notin sharers'[i]
      /\ \A s \in Book!Slots : slotLock'[s] # w
      /\ DOMAIN seen'[w] = {} /\ wanted'[w] = {}
  BY <1>1, ReleaseEnds
<1>3. CASE form[w].op = "delete"
  <2>1. pc'[w] = "idle" /\ form'[w] = NoForm
    BY <1>1, <1>3 DEF Commit, Goto, SessionsTyped
  <2> QED
    BY <1>2, <2>1, IdleSession DEF Answering
<1>4. CASE form[w].op # "delete"
  <2>1. pc'[w] = "reload" /\ form'[w] = form[w]
    BY <1>1, <1>4 DEF Commit, Goto, SessionsTyped
  <2>2. Serving(w)'
    BY <1>1, <1>4, <2>1, RequestKinds DEF Serving
  <2>3. SeenOf(w)' /\ HasRead(w)' /\ Writing(w)' /\ Referring(w)' /\ Locking(w)'
    BY <1>2, <2>1 DEF SeenOf, HasRead, Writing, Referring, Locking, Answering
  <2> QED
    BY <2>1, <2>2, <2>3 DEF Session, Answering
<1> QED
  BY <1>3, <1>4

\* A commit.
LEMMA CommitPreserves ==
    ASSUME Inv, NEW w \in Workers, Commit(w)
    PROVE  Inv'
<1>1. /\ pc[w] = "commit" /\ row' = Effect(w) /\ Release(w) /\ SessionsTyped
  BY DEF Commit, Inv
<1>2. \A v \in Workers : Session(v)'
  BY CommitOther, CommitOwn
<1>3. SessionsTyped'
  <2>1. pc' \in [Workers -> Stages]
    BY <1>1 DEF Commit, Goto, SessionsTyped, Stages
  <2>2. form' \in [Workers -> Requests \cup {NoForm}] /\ DOMAIN lived' = Workers
    BY <1>1 DEF Commit, SessionsTyped
  <2> QED
    BY <1>1, <2>1, <2>2, ReleaseEnds DEF SessionsTyped
<1>4. Exclusion'
  <2>1. \A v \in Workers \ {w} : form'[v] = form[v]
    BY CommitFrame
  <2> QED
    BY <1>1, <2>1, ReleaseKeepsExclusion DEF Inv
<1>5. ASSUME NEW v \in Workers, Claiming(v)'
      PROVE  /\ v # w /\ Claiming(v)
             /\ form'[v] = form[v] /\ KeyOf(v)' = KeyOf(v)
  <2>1. v # w
    BY <1>5, CommitOwn DEF Claiming, Answering
  <2>2. pc'[v] = pc[v] /\ form'[v] = form[v] /\ seen'[v] = seen[v]
    BY <2>1, CommitFrame
  <2> QED
    BY <1>5, <2>1, <2>2, RequestFrame DEF Claiming
<1>6. ASSUME NEW v \in Workers, Claiming(v)'
      PROVE  HoldersOfKey(v)' = {}
  <2>1. v # w /\ Claiming(v) /\ form'[v] = form[v] /\ KeyOf(v)' = KeyOf(v)
    BY <1>5, <1>6
  <2>2. /\ HoldersOfKey(v) = {}
        /\ Claiming(w) /\ Book!SameTable(form[w].item, form[v].item) => KeyOf(w) # KeyOf(v)
    BY <2>1 DEF Inv, KeysClaimed
  <2>3. ASSUME NEW j \in Items \ {form[v].item}, Book!SameTable(j, form[v].item),
               Live(j)', row'[j].key = KeyOf(v)
        PROVE  FALSE
    <3>1. \/ Live(j) /\ row'[j].key = row[j].key
          \/ form[w].item = j /\ Claims(w) /\ row'[j].key = KeyOf(w)
      BY <1>1, <2>3, CommitRows
    <3>2. ~ (Live(j) /\ row[j].key = KeyOf(v))
      BY <2>2, <2>3 DEF HoldersOfKey
    <3>3. ~ (form[w].item = j /\ Claims(w) /\ KeyOf(w) = KeyOf(v))
      BY <1>1, <2>2, <2>3 DEF Claiming
    <3> QED
      BY <2>3, <3>1, <3>2, <3>3
  <2> QED
    BY <2>1, <2>3 DEF HoldersOfKey, Book!SameTable
<1>7. KeysClaimed'
  <2>1. ASSUME NEW v \in Workers, Claiming(v)', NEW u \in Workers \ {v}, Claiming(u)',
               Book!SameTable(form'[u].item, form'[v].item)
        PROVE  KeyOf(u)' # KeyOf(v)'
    BY <1>5, <2>1 DEF Inv, KeysClaimed
  <2> QED
    BY <1>6, <2>1 DEF KeysClaimed, Book!SameTable
<1>8. NewIds'
  <2>1. ASSUME NEW v \in Workers
        PROVE  form'[v] = form[v] \/ form'[v] = NoForm
    <3>1. CASE v = w
      BY <3>1, CommitOwn
    <3>2. CASE v # w
      BY <3>2, CommitFrame
    <3> QED
      BY <3>1, <3>2
  <2> QED
    BY <2>1 DEF Inv, NewIds
<1> QED
  BY <1>2, <1>3, <1>4, <1>7, <1>8, CommitTables DEF Inv

----------------------------------------------------------------------------
(* The invariant holds *)

\* The catalogue to begin with satisfies the invariant.
LEMMA InitInv == Init => Inv
<1> SUFFICES ASSUME Init
             PROVE  Inv
  OBVIOUS
<1> USE DEF Init
<1> DEFINE There == {i \in DOMAIN Start : Start[i] \notin {Unborn, Deleted}}
<1>1. /\ Start \in [Items -> ProductRow \cup WarehouseRow \cup {Unborn, Deleted}]
      /\ DOMAIN Start = Items
      /\ \A p \in Products : Start[p] # Deleted
      /\ \A i \in There : Start[i] \in RowsOf(i)
      /\ \A i, j \in There :
            i # j /\ (i \in Products <=> j \in Products) => Start[i].key # Start[j].key
      /\ StartStocked \subseteq (There \cap Products) \X (There \cap Warehouses)
  BY CatalogStartAssumption, SlotFacts DEF RowsOf
<1>2. \A i \in Items : Live(i) <=> i \in There
  BY <1>1 DEF Live, Book!Live
<1> HIDE DEF There
<1>3. TablesTyped
  <2>1. stocked \subseteq Book!Slots
    BY <1>1 DEF Book!Slots
  <2>2. orders \in Seq(PricedLines)
    OBVIOUS
  <2> QED
    BY <1>1, <1>2, <2>1, <2>2 DEF TablesTyped
<1>4. SessionsTyped
  <2>1. todo \in [Workers -> Seq(SUBSET Items)]
    OBVIOUS
  <2> QED
    BY <2>1 DEF SessionsTyped, Stages
<1>5. Lines = {}
  BY DEF Lines
<1>6. Referred
  BY <1>1, <1>2, <1>5, SlotFacts DEF Referred
<1>7. KeysDiffer
  <2>1. \A i, j \in Items : Book!SameTable(i, j) => (i \in Products <=> j \in Products)
    BY SlotFacts, CatalogIdsAssumption DEF Book!SameTable
  <2> QED
    BY <1>1, <1>2, <2>1 DEF KeysDiffer
<1>8. PricesOffered
  BY DEF PricesOffered, Book!Offers, Live, Book!Live
<1>9. Exclusion
  BY CatalogSessionsAssumption DEF Exclusion
<1>10. \A w \in Workers : Session(w)
  <2>1. ASSUME NEW w \in Workers
        PROVE  Session(w)
    <3>1. /\ pc[w] = "idle" /\ form[w] = NoForm /\ DOMAIN seen[w] = {} /\ wanted[w] = {}
          /\ \A i \in Items : writer[i] # w /\ w \notin sharers[i]
          /\ \A s \in Book!Slots : slotLock[s] # w
      BY CatalogSessionsAssumption
    <3> QED
      BY <3>1 DEF Session, Serving, SeenOf, HasRead, Writing, Referring, Locking, Answering
  <2> QED
    BY <2>1
<1>11. KeysClaimed /\ NewIds
  BY DEF KeysClaimed, NewIds, Claiming
<1> QED
  BY <1>3, <1>4, <1>6, <1>7, <1>8, <1>9, <1>10, <1>11 DEF Inv

\* A step of something else changes nothing of it.
LEMMA StutterInv == Inv /\ UNCHANGED vars => Inv'
<1> SUFFICES ASSUME Inv, UNCHANGED vars
             PROVE  Inv'
  OBVIOUS
<1> USE DEF vars
<1>1. UNCHANGED database
  BY DEF database
<1>2. \A v \in Workers : Undisturbed(v)
  BY DEF Undisturbed
<1>3. \A v \in Workers : Session(v)'
  BY <1>1, <1>2, SessionFrame DEF Inv
<1>4. TablesTyped' /\ SessionsTyped' /\ Referred' /\ KeysDiffer' /\ PricesOffered'
  BY <1>1, TablesFrame DEF Inv, TablesTyped, SessionsTyped, Referred, KeysDiffer, PricesOffered
<1>5. ASSUME NEW v \in Workers
      PROVE  /\ Exclusive(v)' = Exclusive(v) /\ Claims(v)' = Claims(v) /\ KeyOf(v)' = KeyOf(v)
             /\ Claiming(v)' = Claiming(v)
  BY RequestFrame DEF Claiming
<1>6. Exclusion'
  BY <1>5 DEF Inv, Exclusion
<1>7. \A v \in Workers : HoldersOfKey(v)' = HoldersOfKey(v)
  BY <1>1, <1>5, TablesFrame DEF HoldersOfKey
<1>8. KeysClaimed'
  BY <1>5, <1>7 DEF Inv, KeysClaimed
<1>9. NewIds'
  BY DEF Inv, NewIds
<1> QED
  BY <1>3, <1>4, <1>6, <1>8, <1>9 DEF Inv

\* Every step keeps the invariant.
LEMMA NextInv == Inv /\ [Next]_vars => Inv'
<1> SUFFICES ASSUME Inv, [Next]_vars
             PROVE  Inv'
  OBVIOUS
<1>1. ASSUME NEW w \in Workers, NEW f \in Forms, Begin(w, f)
      PROVE  Inv'
  BY <1>1, BeginPreserves
<1>2. ASSUME NEW w \in Workers, Step(w)
      PROVE  Inv'
  <2>1. CASE Read(w)
    BY <2>1, ReadPreserves
  <2>2. CASE Count(w)
    BY <2>2, CountPreserves
  <2>3. CASE Write(w)
    BY <2>3, WritePreserves
  <2>4. CASE Claim(w)
    BY <2>4, ClaimPreserves
  <2>5. CASE Restrict(w)
    BY <2>5, RestrictPreserves
  <2>6. CASE Probe(w)
    BY <2>6, RollbackPreserves DEF Probe
  <2>7. CASE Select(w)
    BY <2>7, SelectPreserves
  <2>8. CASE \E s \in Book!Slots : LockRow(w, s)
    BY <2>8, LockRowPreserves
  <2>9. CASE Decide(w)
    BY <2>9, DecidePreserves
  <2>10. CASE \E s \in Book!Slots : Insert(w, s)
    BY <2>10, InsertPreserves
  <2>11. CASE \E i \in Items : Refer(w, i)
    BY <2>11, ReferPreserves
  <2>12. CASE Commit(w)
    BY <2>12, CommitPreserves
  <2>13. CASE Reload(w)
    BY <2>13, ReloadPreserves
  <2> QED
    BY <1>2, <2>1, <2>2, <2>3, <2>4, <2>5, <2>6, <2>7, <2>8, <2>9, <2>10, <2>11, <2>12, <2>13
       DEF Step
<1>3. ASSUME NEW w \in Workers, Abort(w) \/ Victim(w)
      PROVE  Inv'
  BY <1>3, RollbackPreserves DEF Abort, Victim
<1>4. CASE Next
  BY <1>1, <1>2, <1>3, <1>4 DEF Next
<1>5. CASE UNCHANGED vars
  BY <1>5, StutterInv
<1> QED
  BY <1>4, <1>5

\* Every state the transactions reach satisfies the inductive invariant.
THEOREM Invariance == Spec => []Inv
  BY InitInv, NextInv, PTL DEF Spec

----------------------------------------------------------------------------
(* What the checks see on small catalogues holds of every one *)

(***************************************************************************)
(* Variables are typed, and a code or SKU is stored in its stored form.    *)
(***************************************************************************)
THEOREM TypeCorrect == Spec => []TypeOK
<1>1. Inv => TypeOK
  <2> SUFFICES ASSUME Inv
               PROVE  TypeOK
    OBVIOUS
  <2>1. \A i \in Items :
            Live(i) => row[i] \in IF i \in Products THEN ProductRow ELSE WarehouseRow
    BY DEF Inv, TablesTyped, RowsOf
  <2>2. ASSUME NEW w \in Workers
        PROVE  /\ pc[w] \in Stages
               /\ pc[w] = "idle" <=> form[w] = NoForm
               /\ DOMAIN seen[w] \subseteq Items
               /\ wanted[w] \subseteq IF pc[w] = "refer" THEN Items ELSE Book!Slots
    <3>1. Session(w) /\ pc[w] \in Stages
      BY DEF Inv, SessionsTyped
    <3>2. DOMAIN seen[w] \subseteq Items
      BY <3>1 DEF Session, SeenOf
    <3>3. wanted[w] \subseteq IF pc[w] = "refer" THEN Items ELSE Book!Slots
      <4>1. pc[w] \in {"lock", "insert", "refer"} => form[w].slots \subseteq Book!Slots
        BY <3>1, Served, RequestKinds DEF Inv, Session, Serving
      <4>2. CASE pc[w] = "refer"
        BY <3>1, <4>1, <4>2, SlotFacts DEF Session, Referring
      <4>3. CASE pc[w] # "refer"
        BY <3>1, <4>1, <4>3 DEF Session, Locking
      <4> QED
        BY <4>2, <4>3
    <3> QED
      BY <3>1, <3>2, <3>3 DEF Session, Serving
  <2> QED
    BY <2>1, <2>2 DEF TypeOK, Inv, TablesTyped, SessionsTyped, Stages
<1> QED
  BY <1>1, Invariance, PTL

(***************************************************************************)
(* A stock row or an order line never loses its warehouse or its product,  *)
(* whichever of a deletion, a first receipt and a new order come first.    *)
(***************************************************************************)
THEOREM ReferencesKept == Spec => []ReferencesHold
<1>1. Inv => ReferencesHold
  BY DEF Inv, Referred, Lines, ReferencesHold, Book!RefersTo
<1> QED
  BY <1>1, Invariance, PTL

(***************************************************************************)
(* No two warehouses have one code and no two products one SKU.            *)
(***************************************************************************)
THEOREM KeysNeverClash == Spec => []KeysUnique
<1>1. Inv => KeysUnique
  <2> SUFFICES ASSUME Inv
               PROVE  KeysUnique
    OBVIOUS
  <2>1. \A i \in Items : Live(i) => Normal[row[i].key] = row[i].key
    BY RowFacts DEF Inv, TablesTyped, Stored
  <2> QED
    BY <2>1 DEF KeysUnique, Inv, KeysDiffer
<1> QED
  BY <1>1, Invariance, PTL

(***************************************************************************)
(* A stock change or an order commits with products that were active, at   *)
(* prices they had, at some time while it ran.                             *)
(***************************************************************************)
THEOREM OwnTime == Spec => []ActsOnItsOwnTime
<1>1. Inv => ActsOnItsOwnTime
  <2> SUFFICES ASSUME Inv, NEW w \in Workers, pc[w] = "commit",
                      form[w].op \in {"stock", "order"},
                      NEW p \in {s[1] : s \in form[w].slots}
               PROVE  \E r \in {x[2] : x \in {y \in lived[w] : y[1] = p}} :
                          /\ r \notin {Unborn, Deleted}
                          /\ r.active
                          /\ r.price = seen[w][p].price
    BY DEF ActsOnItsOwnTime
  <2>1. Session(w) /\ form[w] \in Requests
    BY Served DEF Inv, Session
  <2>2. p \in Book!RefersTo(form[w].slots) /\ p \in Products /\ p \in Items
    BY <2>1, RequestKinds, SlotFacts DEF Book!RefersTo
  <2> DEFINE r == seen[w][p]
  <2>3. p \in DOMAIN seen[w] /\ r.active
    BY <2>1, <2>2 DEF Session, HasRead
  <2>4. r \in RowsOf(p) /\ <<p, r>> \in lived[w]
    BY <2>1, <2>3 DEF Session, SeenOf
  <2>5. r \notin {Unborn, Deleted}
    BY <2>2, <2>4, RowFacts
  <2> HIDE DEF r
  <2>6. r \in {x[2] : x \in {y \in lived[w] : y[1] = p}}
    BY <2>4
  <2> QED
    BY <2>3, <2>5, <2>6 DEF r
<1> QED
  BY <1>1, Invariance, PTL

----------------------------------------------------------------------------
(* Waiting *)

\* Whom a session waits for, stage by stage.
LEMMA BlockersByStage ==
    ASSUME NEW w \in Workers
    PROVE  /\ pc[w] = "write" => Blockers(w) \subseteq WriteBlockers(w)
           /\ pc[w] = "lock" =>
                  Blockers(w) = {slotLock[s] : s \in FirstOf(wanted[w])} \ {Nobody}
           /\ pc[w] = "insert" =>
                  Blockers(w) = {slotLock[s] : s \in wanted[w] \ stocked} \ {Nobody}
           /\ pc[w] = "refer" =>
                  Blockers(w) = UNION {ReferBlockers(w, i) : i \in {j \in wanted[w] : Live(j)}}
           /\ pc[w] \notin {"write", "claim", "probe", "lock", "insert", "refer"} =>
                  Blockers(w) = {}
<1>1. CASE pc[w] = "write"
  BY <1>1 DEF Blockers
<1>2. CASE pc[w] = "lock"
  BY <1>2 DEF Blockers
<1>3. CASE pc[w] = "insert"
  BY <1>3 DEF Blockers
<1>4. CASE pc[w] = "refer"
  BY <1>4 DEF Blockers
<1>5. CASE pc[w] \notin {"write", "claim", "probe", "lock", "insert", "refer"}
  BY <1>5 DEF Blockers
<1> QED
  BY <1>1, <1>2, <1>3, <1>4, <1>5

\* Between sessions that are not exclusive, the only one to wait for another that
\* waits in its turn is one that locks inventory rows.
LEMMA OnlyLocksWait ==
    ASSUME Inv, NEW w \in Workers, NEW v \in Workers, NEW u \in Workers,
           v \in Blockers(w), u \in Blockers(v),
           ~ Exclusive(w), ~ Exclusive(v), ~ Exclusive(u)
    PROVE  pc[w] = "lock" /\ \E s \in FirstOf(wanted[w]) : slotLock[s] = v
<1>1. Session(w) /\ Session(v) /\ pc[w] \in Stages /\ pc[v] \in Stages
  BY DEF Inv, SessionsTyped
<1>2. ASSUME NEW x \in Workers, Session(x), ~ Exclusive(x)
      PROVE  pc[x] \notin {"claim", "restrict", "probe"}
  BY <1>2 DEF Session, Serving, Exclusive
<1>3. ASSUME NEW x \in Workers, pc[x] = "refer", NEW y \in Blockers(x)
      PROVE  Exclusive(y)
  BY <1>3, BlockersByStage DEF ReferBlockers
<1>4. pc[w] \in {"write", "lock", "insert"}
  BY <1>1, <1>2, <1>3, BlockersByStage
<1>5. pc[v] \in {"write", "lock", "insert"}
  BY <1>1, <1>2, <1>3, BlockersByStage
<1>6. pc[w] # "write"
  <2>1. ASSUME pc[w] = "write"
        PROVE  FALSE
    <3>1. v = writer[form[w].item]
      BY <2>1, BlockersByStage DEF WriteBlockers
    <3>2. form[w] \in Requests /\ form[w].op \in {"update", "delete"}
      BY <1>1, <2>1, Served DEF Inv, Session, Serving
    <3>3. form[w].item \in Items
      BY <3>2, RequestKinds
    <3>4. pc[v] \in {"claim", "restrict", "probe", "commit"}
      BY <1>1, <3>1, <3>3 DEF Session, Writing
    <3> QED
      BY <1>5, <3>4
  <2> QED
    BY <2>1
<1>7. pc[w] # "insert"
  <2>1. ASSUME pc[w] = "insert"
        PROVE  FALSE
    <3>1. PICK s \in wanted[w] \ stocked : slotLock[s] = v
      BY <2>1, BlockersByStage
    <3>2. form[w] \in Requests /\ form[w].op = "stock" /\ s \in form[w].slots
      BY <1>1, <2>1, Served DEF Inv, Session, Serving, Locking
    <3>3. s \in Book!Slots
      BY <3>2, RequestKinds
    <3>4. pc[v] \in {"lock", "insert", "refer", "commit"}
      BY <1>1, <3>1, <3>3 DEF Session, Locking
    <3>5. pc[v] \in {"lock", "insert"} => s \in stocked
      BY <1>1, <3>1, <3>3 DEF Session, Locking
    <3> QED
      BY <1>5, <3>1, <3>4, <3>5
  <2> QED
    BY <2>1
<1> QED
  BY <1>4, <1>6, <1>7, BlockersByStage

\* A session that locks inventory rows wants slots of one product, by warehouse.
LEMMA FirstWanted ==
    ASSUME Inv, NEW w \in Workers, pc[w] = "lock", NEW s \in FirstOf(wanted[w])
    PROVE  /\ s \in Book!Slots /\ s \in wanted[w] /\ s[2] \in Nat
           /\ \A t \in FirstOf(wanted[w]) : t[2] = s[2]
<1>1. wanted[w] \subseteq form[w].slots /\ form[w] \in Requests /\ form[w].op = "stock"
  BY Served DEF Inv, Session, Serving, Locking
<1>2. \A t \in wanted[w] : t \in Book!Slots /\ t[2] \in Nat
  BY <1>1, SlotsDiffer
<1>3. s \in wanted[w] /\ \A t \in wanted[w] : s[2] <= t[2]
  BY DEF FirstOf
<1>4. ASSUME NEW t \in FirstOf(wanted[w])
      PROVE  t[2] = s[2]
  <2>1. t \in wanted[w] /\ t[2] <= s[2] /\ s[2] <= t[2]
    BY <1>3 DEF FirstOf
  <2>2. s[2] \in Nat /\ t[2] \in Nat
    BY <1>2, <1>3, <2>1
  <2> QED
    BY <2>1, <2>2
<1> QED
  BY <1>2, <1>3, <1>4

\* Among some of the sessions there is one that no other is ahead of.
LEMMA TopSession ==
    ASSUME NEW S, S \subseteq Workers, S # {}, NEW R \in SUBSET (S \X S),
           \A x \in S : <<x, x>> \notin R,
           \A x, y, z \in S : <<x, y>> \in R /\ <<y, z>> \in R => <<x, z>> \in R
    PROVE  \E x \in S : \A y \in S : <<x, y>> \notin R
<1>1. \A T : Finite!IsFiniteSet(T) <=> IsFiniteSet(T)
  BY Zenon DEF IsFiniteSet, Finite!IsFiniteSet
<1>2. Finite!IsFiniteSet(S)
  BY <1>1, CatalogSessionsAssumption, Finite!FS_Subset
<1> QED
  BY <1>2, Finite!HasTop

(***************************************************************************)
(* In every circle of waiting requests there is a deletion or a change of  *)
(* a code or SKU.  Without one, each request in the circle waits for an    *)
(* inventory row that the next one holds while that one waits for a row of *)
(* a later warehouse: there would be no last.                              *)
(***************************************************************************)
THEOREM DeadlocksAreExclusive == Spec => []DeadlocksNeedExclusive
<1>1. Inv => DeadlocksNeedExclusive
  <2> SUFFICES ASSUME Inv, NEW S \in SUBSET Workers, Circle(S),
                      \A w \in S : ~ Exclusive(w)
               PROVE  FALSE
    BY DEF DeadlocksNeedExclusive
  <2>1. PICK next \in [S -> S] : \A x \in S : next[x] \in Blockers(x)
    BY DEF Circle
  <2>2. S # {}
    BY DEF Circle
  <2>3. ASSUME NEW x \in S
        PROVE  pc[x] = "lock" /\ \E s \in FirstOf(wanted[x]) : slotLock[s] = next[x]
    <3>1. next[x] \in S /\ next[next[x]] \in S
      BY <2>1
    <3>2. next[x] \in Blockers(x) /\ next[next[x]] \in Blockers(next[x])
      BY <2>1, <3>1
    <3> QED
      BY <3>1, <3>2, OnlyLocksWait
  <2> DEFINE Ahead(x, y) ==
                 \E s \in FirstOf(wanted[x]), t \in FirstOf(wanted[y]) : s[2] < t[2]
             R == {p \in S \X S : Ahead(p[1], p[2])}
  <2>4. ASSUME NEW x \in S
        PROVE  Ahead(x, next[x])
    <3>1. PICK s \in FirstOf(wanted[x]) : slotLock[s] = next[x]
      BY <2>3
    <3>2. next[x] \in S /\ pc[next[x]] = "lock"
      BY <2>1, <2>3
    <3>3. PICK t \in FirstOf(wanted[next[x]]) : TRUE
      BY <2>3, <3>2
    <3>4. s \in Book!Slots /\ t \in wanted[next[x]]
      BY <2>3, <3>2, FirstWanted
    <3>5. s[2] < t[2]
      BY <3>1, <3>2, <3>4 DEF Inv, Session, Locking
    <3> QED
      BY <3>5
  <2>5. ASSUME NEW x \in S
        PROVE  ~ Ahead(x, x)
    BY <2>3, FirstWanted
  <2>6. ASSUME NEW x \in S, NEW y \in S, NEW z \in S, Ahead(x, y), Ahead(y, z)
        PROVE  Ahead(x, z)
    <3>1. PICK s \in FirstOf(wanted[x]), t \in FirstOf(wanted[y]) : s[2] < t[2]
      BY <2>6
    <3>2. PICK q \in FirstOf(wanted[y]), r \in FirstOf(wanted[z]) : q[2] < r[2]
      BY <2>6
    <3>3. s[2] \in Nat /\ t[2] \in Nat /\ r[2] \in Nat /\ q[2] = t[2]
      BY <2>3, FirstWanted
    <3>4. s[2] < r[2]
      BY <3>1, <3>2, <3>3
    <3> QED
      BY <3>4
  <2> HIDE DEF Ahead
  <2>7. PICK x \in S : \A y \in S : <<x, y>> \notin R
    <3>1. R \in SUBSET (S \X S)
      OBVIOUS
    <3>2. \A x \in S : <<x, x>> \notin R
      BY <2>5
    <3>3. \A x, y, z \in S : <<x, y>> \in R /\ <<y, z>> \in R => <<x, z>> \in R
      BY <2>6
    <3> HIDE DEF R
    <3> QED
      BY <2>2, <3>1, <3>2, <3>3, TopSession
  <2> QED
    BY <2>1, <2>4, <2>7
<1> QED
  BY <1>1, Invariance, PTL

----------------------------------------------------------------------------
(* The transactions implement the book *)

\* A step that is no commit is no step of the book.
LEMMA QuietImplements ==
    ASSUME NEW w \in Workers, Step(w) \/ Abort(w) \/ Victim(w) \/ (\E f \in Forms : Begin(w, f)),
           ~ Commit(w)
    PROVE  UNCHANGED Book!bookVars
  BY DEF Step, Abort, Victim, Begin, Read, Count, Write, Claim, Restrict, Probe, Select, LockRow,
         Decide, Insert, Refer, Reload, Rollback, database, Book!bookVars

\* An update writes what it was asked to, of a row that is there; when there is
\* nothing to write, or the row is gone, it changes nothing.
LEMMA UpdateImplements ==
    ASSUME Inv, NEW w \in Workers, Commit(w), form[w].op = "update"
    PROVE  UNCHANGED <<row, stocked, orders>> \/ Book!Update(form[w])
<1> DEFINE i == form[w].item
<1>1. /\ row' = Effect(w) /\ stocked' = stocked /\ orders' = orders
      /\ TablesTyped /\ form[w] \in Requests /\ i \in Items
  <2>1. form[w] \in Requests
    BY Served DEF Commit, Inv, Session
  <2> QED
    BY <2>1, RequestKinds DEF Commit, Inv
<1>2. CASE Live(i)
  <2>1. row' = [row EXCEPT ![i] = Book!Applied(@, form[w].changes, Written(w))]
    BY <1>1, <1>2 DEF Effect
  <2>2. Written(w) \in SUBSET DOMAIN form[w].changes
    BY DEF Written
  <2> QED
    BY <1>1, <1>2, <2>1, <2>2 DEF Book!Update, Live
<1>3. CASE ~ Live(i)
  BY <1>1, <1>3 DEF Effect
<1> QED
  BY <1>2, <1>3

\* A deletion takes a row that nothing refers to, or finds it gone already.
LEMMA DeleteImplements ==
    ASSUME Inv, NEW w \in Workers, Commit(w), form[w].op = "delete"
    PROVE  UNCHANGED <<row, stocked, orders>> \/ Book!Delete(form[w])
<1> DEFINE i == form[w].item
<1>1. /\ row' = [row EXCEPT ![i] = Deleted] /\ stocked' = stocked /\ orders' = orders
      /\ pc[w] = "commit" /\ Session(w) /\ TablesTyped /\ i \in Items
  BY DeletedIsFree DEF Commit, Effect, Inv
<1>2. CASE Live(i)
  <2>1. \A s \in stocked \cup Lines : s[2] # i
    BY <1>2, DeletedIsFree
  <2>2. UNION {DOMAIN o : o \in {orders[n] : n \in DOMAIN orders}} = Lines
    BY DEF Lines
  <2> QED
    BY <1>1, <1>2, <2>1, <2>2 DEF Book!Delete, Live
<1>3. CASE ~ Live(i)
  <2>1. row[i] = Deleted
    BY <1>1, <1>3, GoneIsDeleted DEF Session, HasRead
  <2>2. row' = row
    BY <1>1, <2>1 DEF TablesTyped
  <2> QED
    BY <1>1, <2>2
<1> QED
  BY <1>2, <1>3

\* The prices of an order's lines are prices its products had.
LEMMA OrderImplements ==
    ASSUME Inv, NEW w \in Workers, Commit(w), form[w].op = "order"
    PROVE  Book!Order(form[w])
<1> DEFINE f == form[w]
           price == [p \in {s[1] : s \in f.slots} |-> seen[w][p].price]
<1>1. /\ pc[w] = "commit" /\ Session(w) /\ f \in Requests
      /\ row' = row /\ stocked' = stocked
      /\ orders' = Append(orders, [s \in f.slots |-> seen[w][s[1]].price])
  BY Served DEF Commit, Effect, Inv, Session
<1>2. \A i \in Book!RefersTo(f.slots) : Live(i)
  BY CommitLines
<1>3. ASSUME NEW p \in {s[1] : s \in f.slots}
      PROVE  <<p, seen[w][p].price>> \in offered
  <2>1. p \in Book!RefersTo(f.slots) /\ p \in Products
    BY <1>1, RequestKinds, SlotFacts DEF Book!RefersTo
  <2>2. p \in DOMAIN seen[w]
    BY <1>1, <2>1 DEF Session, HasRead
  <2> QED
    BY <1>1, <2>1, <2>2 DEF Session, SeenOf
<1>4. /\ DOMAIN price = {s[1] : s \in f.slots}
      /\ \A p \in {s[1] : s \in f.slots} : price[p] = seen[w][p].price
  OBVIOUS
<1>5. \A p \in {s[1] : s \in f.slots} : price[p] \in {offer[2] : offer \in offered}
  <2>1. ASSUME NEW p \in {s[1] : s \in f.slots}
        PROVE  price[p] \in {offer[2] : offer \in offered}
    <3>1. <<p, price[p]>> \in offered /\ <<p, price[p]>>[2] = price[p]
      BY <1>3, <1>4, <2>1
    <3> HIDE DEF price
    <3> QED
      BY <3>1
  <2> QED
    BY <2>1
<1>6. price \in [{s[1] : s \in f.slots} -> {offer[2] : offer \in offered}]
  BY <1>5
<1>7. [s \in f.slots |-> seen[w][s[1]].price] = [s \in f.slots |-> price[s[1]]]
  <2>1. \A s \in f.slots : seen[w][s[1]].price = price[s[1]]
    BY <1>4
  <2> HIDE DEF price
  <2> QED
    BY <2>1
<1> HIDE DEF price
<1>8. \E q \in [{s[1] : s \in f.slots} -> {offer[2] : offer \in offered}] :
         /\ \A p \in DOMAIN q : <<p, q[p]>> \in offered
         /\ orders' = Append(orders, [s \in f.slots |-> q[s[1]]])
  BY <1>1, <1>3, <1>4, <1>6, <1>7
<1> QED
  BY <1>1, <1>2, <1>8 DEF Book!Order, Live

\* A commit is one step of the book, or none: the only step that is not a
\* stutter there.
LEMMA CommitImplements ==
    ASSUME Inv, NEW w \in Workers, Commit(w)
    PROVE  [Book!Next]_(Book!bookVars)
<1> DEFINE f == form[w]
<1>1. /\ f \in Requests /\ pc[w] = "commit" /\ Session(w)
      /\ offered' = offered \cup Book!Offers(row')
  BY Served DEF Commit, Inv, Session
<1>2. Requests = {Normalised(g) : g \in Forms}
  BY DEF Requests
<1>3. CASE f.op = "create"
  <2>1. Book!Create(f)
    BY <1>1, <1>3 DEF Commit, Effect, Session, Writing, Book!Create
  <2> QED
    BY <1>1, <1>2, <1>3, <2>1 DEF Book!Next
<1>4. CASE UNCHANGED <<row, stocked, orders>>
  <2>1. offered' = offered
    BY <1>1, <1>4 DEF Book!Offers, Inv, PricesOffered, Live, Book!Live
  <2> QED
    BY <1>4, <2>1 DEF Book!bookVars
<1>5. CASE f.op = "update"
  <2>1. CASE Book!Update(f)
    BY <1>1, <1>2, <1>5, <2>1 DEF Book!Next
  <2> QED
    BY <1>4, <1>5, <2>1, UpdateImplements
<1>6. CASE f.op = "delete"
  <2>1. CASE Book!Delete(f)
    BY <1>1, <1>2, <1>6, <2>1 DEF Book!Next
  <2> QED
    BY <1>4, <1>6, <2>1, DeleteImplements
<1>7. CASE f.op = "stock"
  <2>1. Book!Stock(f)
    BY <1>7, CommitLines DEF Commit, Effect, Book!Stock, Live
  <2> QED
    BY <1>1, <1>2, <1>7, <2>1 DEF Book!Next
<1>8. CASE f.op = "order"
  BY <1>1, <1>2, <1>8, OrderImplements DEF Book!Next
<1> QED
  BY <1>1, <1>3, <1>5, <1>6, <1>7, <1>8, RequestKinds

(***************************************************************************)
(* The interleaved transactions implement the catalogue book: each commit  *)
(* is one of its steps, with the locks a session has come to hold as the   *)
(* reason that what it read is still so where the book asks for it.        *)
(***************************************************************************)
THEOREM Implementation == Spec => ImplementsBook
<1>1. Init => Book!Init
  BY DEF Init, Book!Init
<1>2. Inv /\ [Next]_vars => [Book!Next]_(Book!bookVars)
  <2> SUFFICES ASSUME Inv, [Next]_vars
               PROVE  [Book!Next]_(Book!bookVars)
    OBVIOUS
  <2>1. CASE UNCHANGED vars
    BY <2>1 DEF vars, Book!bookVars
  <2>2. ASSUME NEW w \in Workers,
               Step(w) \/ Abort(w) \/ Victim(w) \/ (\E f \in Forms : Begin(w, f))
        PROVE  [Book!Next]_(Book!bookVars)
    BY <2>2, CommitImplements, QuietImplements
  <2> QED
    BY <2>1, <2>2 DEF Next
<1> QED
  BY <1>1, <1>2, Invariance, PTL DEF Spec, ImplementsBook, Book!Spec

=============================================================================
