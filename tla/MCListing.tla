----------------------------- MODULE MCListing -----------------------------
(* Small instances of Listing: at least one query for each way a list can change. *)
EXTENDS Listing

\* Balances by what is available, low or not, and by warehouse.
SomeInventory ==
    {q \in InventoryQueries : q.by = "available_quantity" /\
        <<q.filter, q.dir>> \in {<<"low_stock", "asc">>, <<"not low_stock", "desc">>}}
        \cup WarehouseInventory

\* Movements, whose rows never change, and orders, whose status only grows.
SomeHistory ==
    {q \in MovementQueries : q.filter = "none"}
        \cup {q \in OrderQueries : <<q.by, q.filter>> \in {<<"created_at", "none">>, <<"status", "status">>}}

SomeCatalogue ==
    {q \in ProductQueries : <<q.by, q.filter, q.dir>> \in
        {<<"name", "none", "asc">>, <<"price", "is_active", "desc">>}}
        \cup {q \in WarehouseQueries : q.by = "name" /\ q.filter = "none"}
        \cup UserQueries

SomeQueries == SomeInventory \cup SomeHistory \cup SomeCatalogue

=============================================================================
