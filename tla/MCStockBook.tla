---------------------------- MODULE MCStockBook ----------------------------
(* A small instance of StockBook: one product in two warehouses and two     *)
(* orders.                                                                  *)
EXTENDS StockBook, TLC

CONSTANTS o1, o2

OneLine == <<[slot |-> <<1, 1>>, quantity |-> 1]>>

TwoLines == <<[slot |-> <<1, 2>>, quantity |-> 1], [slot |-> <<1, 1>>, quantity |-> 2]>>

MCOrderForms == {OneLine, TwoLines}

(* The ids of orders are interchangeable: nothing compares or orders them.  *)
OrderSymmetry == Permutations(Orders)

=============================================================================
