---------------------------- MODULE CatalogBook ----------------------------
(***************************************************************************)
(* What the catalogue of StockFlow promises: the rows of warehouses and    *)
(* products, and the stock and order rows that refer to them, with every   *)
(* request one step.  A catalogue row is a record of the columns that      *)
(* matter to others: the unique code of a warehouse, or the unique SKU of  *)
(* a product with its price and whether it is active.                      *)
(*                                                                         *)
(* CatalogTx shows what the requests do to get there.                      *)
(***************************************************************************)
EXTENDS Integers, Sequences, FiniteSets

CONSTANTS
    Warehouses, Products,   \* ids of catalogue rows
    Requests,               \* the requests that may be made
    Start,                  \* the catalogue to begin with
    StartStocked,           \* and its inventory rows
    Unborn, Deleted         \* an id that has no row yet, or no longer

VARIABLES
    row,        \* the catalogue row of each id, or Unborn, or Deleted
    stocked,    \* the <<product, warehouse>> pairs that have an inventory row
    orders,     \* of each order: the unit price of each of its lines
    offered     \* history: the <<product, price>> pairs there have been

bookVars == <<row, stocked, orders, offered>>

Items == Warehouses \cup Products

Slots == Products \X Warehouses

Live(i) == row[i] \notin {Unborn, Deleted}

SameTable(i, j) == i \in Warehouses <=> j \in Warehouses

\* The catalogue rows a set of stock or order rows refers to.
RefersTo(slots) == {s[1] : s \in slots} \cup {s[2] : s \in slots}

\* Some field that was asked for and was already as asked is not written.
Applied(r, changes, fields) == [x \in DOMAIN r |-> IF x \in fields THEN changes[x] ELSE r[x]]

Offers(rows) ==
    {<<p, rows[p].price>> : p \in {q \in Products : rows[q] \notin {Unborn, Deleted}}}

----------------------------------------------------------------------------
Create(f) ==
    /\ row[f.item] = Unborn
    /\ row' = [row EXCEPT ![f.item] = f.row]
    /\ UNCHANGED <<stocked, orders>>

\* An update writes fields it was asked to write, and leaves the others as they
\* are, whatever its session had read.
Update(f) ==
    /\ Live(f.item)
    /\ \E fields \in SUBSET DOMAIN f.changes :
          row' = [row EXCEPT ![f.item] = Applied(@, f.changes, fields)]
    /\ UNCHANGED <<stocked, orders>>

\* Only a warehouse that nothing refers to goes.
Delete(f) ==
    /\ Live(f.item)
    /\ \A s \in stocked \cup UNION {DOMAIN o : o \in {orders[n] : n \in DOMAIN orders}} :
          s[2] # f.item
    /\ row' = [row EXCEPT ![f.item] = Deleted]
    /\ UNCHANGED <<stocked, orders>>

Stock(f) ==
    /\ \A i \in RefersTo(f.slots) : Live(i)
    /\ stocked' = stocked \cup f.slots
    /\ UNCHANGED <<row, orders>>

\* The unit price of a line is one that its product had at some time, the same in
\* all the lines of the order that name the product.
Order(f) ==
    /\ \A i \in RefersTo(f.slots) : Live(i)
    /\ \E price \in [{s[1] : s \in f.slots} -> {offer[2] : offer \in offered}] :
          /\ \A p \in DOMAIN price : <<p, price[p]>> \in offered
          /\ orders' = Append(orders, [s \in f.slots |-> price[s[1]]])
    /\ UNCHANGED <<row, stocked>>

Init ==
    /\ row = Start
    /\ stocked = StartStocked
    /\ orders = <<>>
    /\ offered = Offers(Start)

Next ==
    /\ \E f \in Requests :
          \/ f.op = "create" /\ Create(f)
          \/ f.op = "update" /\ Update(f)
          \/ f.op = "delete" /\ Delete(f)
          \/ f.op = "stock" /\ Stock(f)
          \/ f.op = "order" /\ Order(f)
    /\ offered' = offered \cup Offers(row')

Spec == Init /\ [][Next]_bookVars

=============================================================================
