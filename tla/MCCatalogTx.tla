---------------------------- MODULE MCCatalogTx ----------------------------
(* Small instances of CatalogTx: two warehouses and a product to begin with. *)
EXTENDS CatalogTx, TLC

CONSTANTS w1, w2, w3

MCNormal == "A" :> "A" @@ "a" :> "A" @@ "B" :> "B" @@ "C" :> "C"

Product == [key |-> "C", price |-> 1, active |-> TRUE]

MCStart == 1 :> [key |-> "A"] @@ 2 :> [key |-> "B"] @@ 3 :> Unborn @@ 4 :> Product

MCStocked == {<<4, 2>>}

Change(i, changes) == [op |-> "update", item |-> i, changes |-> changes]
Delete(i) == [op |-> "delete", item |-> i]
Receive(warehouse) == [op |-> "stock", slots |-> {<<4, warehouse>>}, needs |-> {}]
Transfer(from, to) == [op |-> "stock", slots |-> {<<4, from>>, <<4, to>>}, needs |-> {<<4, from>>}]
Order(warehouses) == [op |-> "order", slots |-> {4} \X warehouses]

\* Every kind of request; the first warehouse is deleted, spelt again, and used.
AllForms ==
    {[op |-> "create", item |-> 3, row |-> [key |-> "a"]],
     Delete(1), Change(1, "key" :> "B"), Change(2, "key" :> "a"),
     Change(4, "price" :> 2), Change(4, "price" :> 2 @@ "active" :> FALSE),
     Change(4, "active" :> FALSE), Change(4, "key" :> "B"),
     Receive(1), Transfer(1, 2), Transfer(2, 1), Order({1}), Order({1, 2})}

\* The requests that can wait for one another.
WaitForms ==
    {Delete(1), Change(1, "key" :> "B"), Change(2, "key" :> "a"),
     Change(4, "price" :> 2), Receive(1), Transfer(1, 2), Transfer(2, 1), Order({1, 2})}

SessionSymmetry == Permutations(Workers)

=============================================================================
