----------------------------- MODULE MCStockTx -----------------------------
(* Small instances of StockTx: one product in two warehouses, a manager and  *)
(* an employee, two or three sessions.                                       *)
EXTENDS StockTx, TLC

CONSTANTS w1, w2, w3, o1, o2, manager, employee

MCRole == (manager :> "WAREHOUSE_MANAGER") @@ (employee :> "EMPLOYEE")

North == <<1, 1>>
South == <<1, 2>>

OneLine == <<[slot |-> North, quantity |-> 1]>>
TwoLines == <<[slot |-> South, quantity |-> 1], [slot |-> North, quantity |-> 1]>>

MCOrderForms == {OneLine, TwoLines}

Stock(op, s, q) == [op |-> op, slot |-> s, quantity |-> q]
Transfer(a, b) == [op |-> "transfer", product |-> 1, from |-> a, to |-> b, quantity |-> 1]
Create(items, u) == [op |-> "create", items |-> items, actor |-> u]
Transition(op, o, u) == [op |-> op, order |-> o, actor |-> u]

\* Stock changes from every side, and one order that takes and gives back.
StockForms ==
    {Stock("receive", North, 1), Stock("receive", South, 1),
     Stock("adjust", North, -1), Stock("adjust", South, 1),
     Transfer(1, 2), Transfer(2, 1),
     Create(TwoLines, manager),
     Transition("confirm", o1, manager), Transition("cancel", o1, manager)}

\* The whole life of two orders that compete for one balance, and an employee who
\* may cancel the first.
LifeForms ==
    {Stock("receive", North, 1), Stock("receive", South, 1),
     Create(OneLine, employee), Create(TwoLines, manager)}
    \cup {Transition(op, o, manager) :
             op \in {"confirm", "process", "ship", "complete", "cancel"}, o \in {o1, o2}}
    \cup {Transition("cancel", o, employee) : o \in {o1, o2}}

SessionSymmetry == Permutations(Workers)

BookSymmetry == Permutations(Workers) \cup Permutations(Orders)

=============================================================================
