------------------------------ MODULE Listing ------------------------------
(***************************************************************************)
(* The list endpoints of StockFlow.  A reader walks the pages of one list  *)
(* from the first to the last while other requests commit.  One page is    *)
(* put together by several SELECTs, and under READ COMMITTED each of them  *)
(* sees the tables as they are when it starts:                             *)
(*                                                                         *)
(*     fetch the rows -> attach the product -> count -> sum up -> respond  *)
(*                        (inventory only)            (inventory only)     *)
(*                                                                         *)
(* A row is what the query looks at: a function on the column it sorts by  *)
(* and the column it filters on.                                           *)
(***************************************************************************)
EXTENDS Integers, Sequences, FiniteSets, Functions, FiniteSetsExt, SequencesExt

CONSTANTS
    Queries,        \* the queries a reader may walk
    Ids,            \* ids of rows, in the order the database gives them out
    StartIds,       \* those in the table at first
    Values,         \* values of a column, reorder levels
    PageSizes,      \* page_size
    MaxWrites       \* bound: so many commits while the walk lasts

ASSUME ListIdsAssumption == Ids \subseteq Nat /\ IsFiniteSet(Ids) /\ StartIds \subseteq Ids
ASSUME ListValuesAssumption == Values \subseteq Nat /\ 1 \in Values
ASSUME ListSizesAssumption == PageSizes \subseteq Nat \ {0} /\ MaxWrites \in Nat

VARIABLES
    query, size,    \* what is listed, and how many rows to a page
    table,          \* the rows of the list's table, by id
    fresh,          \* ids not given out yet
    at,             \* stage of the reader
    page,           \* the page it asks for
    items,          \* the page's rows in order: id, available_quantity, is_low_stock
    total,          \* the page's total
    low,            \* the page's low_stock_count and how many rows it was counted among
    seen,           \* ids of the rows of the pages answered, in order
    still,          \* history: rows listed and in the same place since the walk began
    left, came,     \* history: how many rows left a place in the list, or came to one
    since,          \* history: the same two and the changes of level since the page's rows
    ambiguous,      \* history: some page was read while the order was not total
    writes          \* how many commits so far

vars == <<query, size, table, fresh, at, page, items, total, low, seen,
          still, left, came, since, ambiguous, writes>>

----------------------------------------------------------------------------
(* Queries.  tie is the direction of the id that breaks ties, "none" if the *)
(* statement has none; filter is the condition that decides what is listed. *)

Directions == {"asc", "desc"}

InventoryQueries ==
    [list : {"inventory"}, dir : Directions, tie : {"asc"},
     by : {"product", "warehouse", "quantity_on_hand", "quantity_reserved", "available_quantity"},
     filter : {"none", "search", "product_id", "warehouse_id", "low_stock", "not low_stock"}]

\* GET /inventory/warehouse/{warehouse_id}
WarehouseInventory ==
    {q \in InventoryQueries : q.filter = "warehouse_id" /\ q.by = "product" /\ q.dir = "asc"}

\* GET /inventory/{product_id}
ProductInventory ==
    {q \in InventoryQueries : q.filter = "product_id" /\ q.by = "warehouse" /\ q.dir = "asc"}

\* A date range whose ends are the wrong way round is refused before any statement.
MovementQueries ==
    {q \in [list : {"stock-movements"}, dir : Directions, tie : Directions, by : {"created_at"},
            filter : {"none", "search", "product_id", "warehouse_id", "type", "created_at"}] :
        q.tie = q.dir}

\* Mutant: the orders of a status in no certain order.
OrderQueriesUntied ==
    [list : {"orders"}, dir : Directions, tie : {"none"},
     by : {"order_number", "status", "created_at", "updated_at"},
     filter : {"none", "search", "status", "created_by"}]

OrderQueries ==
    [list : {"orders"}, dir : Directions, tie : {"desc"},
     by : {"order_number", "status", "created_at", "updated_at"},
     filter : {"none", "search", "status", "created_by"}]

ProductQueries ==
    [list : {"products"}, dir : Directions, tie : {"asc"},
     by : {"sku", "name", "category", "price", "reorder_level", "created_at"},
     filter : {"none", "search", "category", "is_active"}]

WarehouseQueries ==
    [list : {"warehouses"}, dir : Directions, tie : {"asc"},
     by : {"code", "name", "location", "created_at"}, filter : {"none", "search"}]

UserQueries ==
    [list : {"users"}, dir : {"asc"}, tie : {"none"}, by : {"created_at"}, filter : {"none"}]

AllQueries ==
    InventoryQueries \cup MovementQueries \cup OrderQueries
        \cup ProductQueries \cup WarehouseQueries \cup UserQueries

ASSUME QueriesAssumption == Queries \subseteq AllQueries

----------------------------------------------------------------------------
(* Columns *)

LowStockFilters == {"low_stock", "not low_stock"}

\* The columns a query looks at.
Columns(q) ==
    {q.by} \cup
        (IF q.filter \in LowStockFilters THEN {"available_quantity", "reorder_level"}
         ELSE {q.filter} \ {"none"})

Balances == {"quantity_on_hand", "quantity_reserved", "available_quantity"}

\* The columns that one commit may change together: those of one table, the list's own or
\* one it is joined with; of an order, what a transition writes.  No other ever changes.
Together(list) ==
    CASE list = "inventory" ->
             {Balances, {"product", "reorder_level", "search"}, {"warehouse", "search"}}
      [] list = "orders" -> {{"status", "updated_at"}, {"search"}}
      [] list = "products" ->
             {{"sku", "name", "category", "price", "reorder_level", "is_active", "search"}}
      [] list = "warehouses" -> {{"code", "name", "location", "search"}}
      [] list = "stock-movements" -> {{"search"}}
      [] list = "users" -> {}

Stale == [left |-> 0, came |-> 0, levels |-> FALSE]

----------------------------------------------------------------------------
(* What a query lists *)

\* Mutant: only what is below the level counts as low.
BelowReorderLevel(r) == r["available_quantity"] < r["reorder_level"]

\* available <= Product.reorder_level, in the filter of the list.
LowStockExpression(r) == r["available_quantity"] <= r["reorder_level"]

Fits(q, r) ==
    CASE q.filter = "none" -> TRUE
      [] q.filter = "low_stock" -> LowStockExpression(r)
      [] q.filter = "not low_stock" -> ~LowStockExpression(r)
      [] OTHER -> r[q.filter] = 1

Listed(q, rows) == {i \in DOMAIN rows : Fits(q, rows[i])}

\* ORDER BY: a is certain to come before b.
Before(q, rows, a, b) ==
    LET ka == rows[a][q.by]
        kb == rows[b][q.by] IN
    \/ IF q.dir = "asc" THEN ka < kb ELSE ka > kb
    \/ /\ ka = kb
       /\ \/ q.tie = "asc" /\ a < b
          \/ q.tie = "desc" /\ a > b

\* How many of the listed rows are certain to come before one.
Ahead(q, rows, i) == Cardinality({j \in Listed(q, rows) : Before(q, rows, j, i)})

\* The orders in which the database may return the listed rows: one, unless ties are open.
Sorted(q, rows) ==
    LET listed == Listed(q, rows) IN
    IF q.tie = "none"
    THEN {s \in SetToSeqs(listed) : \A m, n \in DOMAIN s : m < n => ~Before(q, rows, s[n], s[m])}
    ELSE {[n \in 1..Cardinality(listed) |-> CHOOSE i \in listed : Ahead(q, rows, i) = n - 1]}

\* Mutant: one row more, to see whether there is another page.
PageAndOne(s, number, limit) ==
    LET offset == (number - 1) * limit IN
    SubSeq(s, offset + 1, Min({offset + limit + 1, Len(s)}))

\* OFFSET and LIMIT.
PageOf(s, number, limit) ==
    LET offset == (number - 1) * limit IN
    SubSeq(s, offset + 1, Min({offset + limit, Len(s)}))

\* InventoryResponse.is_low_stock.
IsLowStock(available_quantity, reorder_level) == available_quantity <= reorder_level

----------------------------------------------------------------------------
(* The reader: one list request for each page *)

Init ==
    /\ query \in Queries /\ size \in PageSizes
    /\ table \in [StartIds -> [Columns(query) -> Values]]
    /\ fresh = Ids \ StartIds
    /\ at = "fetch" /\ page = 1
    /\ items = <<>> /\ total = 0 /\ low = [count |-> 0, among |-> 0]
    /\ seen = <<>>
    /\ still = Listed(query, table) /\ left = 0 /\ came = 0 /\ since = Stale
    /\ ambiguous = FALSE /\ writes = 0

unread == <<query, size, table, fresh, page, seen, still, left, came, writes>>

ListsLowStock == query.filter \in LowStockFilters

\* The page's rows.
FetchRows ==
    /\ at = "fetch"
    /\ at' = IF ListsLowStock THEN "attach" ELSE "count"
    /\ \E s \in Sorted(query, table) :
          LET ids == PageOf(s, page, size) IN
          items' = [n \in DOMAIN ids |->
                      [id |-> ids[n], low |-> FALSE,
                       available |-> IF ListsLowStock THEN table[ids[n]]["available_quantity"] ELSE 0]]
    /\ total' = 0 /\ low' = [count |-> 0, among |-> 0] /\ since' = Stale
    /\ ambiguous' = (ambiguous \/ Cardinality(Sorted(query, table)) > 1)
    /\ UNCHANGED unread

\* selectinload: the products of the rows fetched, as they are now; the rows stay as they were.
AttachProducts ==
    /\ at = "attach" /\ at' = "count"
    /\ items' = [n \in DOMAIN items |->
                    [id |-> items[n].id, available |-> items[n].available,
                     low |-> IsLowStock(items[n].available, table[items[n].id]["reorder_level"])]]
    /\ UNCHANGED <<total, low, since, ambiguous, unread>>

\* Mutant: equal values of the sort column are counted once.
CountDistinct ==
    /\ at = "count"
    /\ at' = IF ListsLowStock THEN "sum" ELSE "answer"
    /\ total' = Cardinality({table[i][query.by] : i \in Listed(query, table)})
    /\ UNCHANGED <<items, low, since, ambiguous, unread>>

CountRows ==
    /\ at = "count"
    /\ at' = IF ListsLowStock THEN "sum" ELSE "answer"
    /\ total' = Cardinality(Listed(query, table))
    /\ UNCHANGED <<items, low, since, ambiguous, unread>>

\* count(*) FILTER (WHERE available <= reorder_level), of the summary.
LowStockCount(q, rows) ==
    Cardinality({i \in Listed(q, rows) : rows[i]["available_quantity"] <= rows[i]["reorder_level"]})

SumUp ==
    /\ at = "sum" /\ at' = "answer"
    /\ low' = [count |-> LowStockCount(query, table), among |-> Cardinality(Listed(query, table))]
    /\ UNCHANGED <<items, total, since, ambiguous, unread>>

\* The page is shown; the next one can be asked for while the total says that there is one.
TurnPage ==
    /\ at = "answer"
    /\ at' = IF page * size < total THEN "fetch" ELSE "done"
    /\ page' = IF page * size < total THEN page + 1 ELSE page
    /\ seen' = seen \o [n \in DOMAIN items |-> items[n].id]
    /\ UNCHANGED <<query, size, table, fresh, items, total, low,
                   still, left, came, since, ambiguous, writes>>

Read == FetchRows \/ AttachProducts \/ CountRows \/ SumUp \/ TurnPage

----------------------------------------------------------------------------
(* Commits of other requests *)

\* What becomes of the table while the walk lasts; who stays in place, leaves or comes is noted.
Put(rows) ==
    LET old == Listed(query, table)
        new == Listed(query, rows)
        kept == {i \in old \cap new : table[i][query.by] = rows[i][query.by]}
        relevelled ==
            ListsLowStock /\ \E i \in DOMAIN table \cap DOMAIN rows :
                                table[i]["reorder_level"] # rows[i]["reorder_level"] IN
    /\ at # "done" /\ (at = "fetch" => page > 1)
    /\ writes < MaxWrites /\ writes' = writes + 1
    /\ table' = rows
    /\ still' = still \cap kept
    /\ left' = left + Cardinality(old \ kept)
    /\ came' = came + Cardinality(new \ kept)
    /\ since' = [left |-> since.left + Cardinality(old \ kept),
                 came |-> since.came + Cardinality(new \ kept),
                 levels |-> since.levels \/ relevelled]
    /\ UNCHANGED <<query, size, at, page, items, total, low, seen, ambiguous>>

\* Ids are given out in order, but rows become visible in the order of the commits, and
\* created_at is the time their transaction began.
InsertRow ==
    \E i \in fresh, r \in [Columns(query) -> Values] :
        /\ \A c \in Columns(query) \cap {"status", "quantity_reserved"} : r[c] = 0
        /\ fresh' = fresh \ {i}
        /\ Put([j \in DOMAIN table \cup {i} |-> IF j = i THEN r ELSE table[j]])

\* The movements of a transfer, or of the lines of an order: one created_at, an id each.
InsertMovements ==
    /\ query.list = "stock-movements"
    /\ \E S \in SUBSET fresh : \E new \in [S -> [Columns(query) -> Values]] :
          /\ Cardinality(S) > 1
          /\ \A i, j \in S : new[i]["created_at"] = new[j]["created_at"]
          /\ fresh' = fresh \ S
          /\ Put([k \in DOMAIN table \cup S |-> IF k \in S THEN new[k] ELSE table[k]])

\* A row with some columns written anew.
Rewritten(row, columns, new) ==
    [c \in Columns(query) |-> IF c \in columns THEN new[c] ELSE row[c]]

\* The columns in which a listed balance shows a transfer.
Moved == Columns(query) \cap {"quantity_on_hand", "available_quantity"}

\* A transfer to a warehouse that had nothing of the product: its balance is inserted and
\* that of the source goes down.
InsertTarget ==
    /\ query.list = "inventory" /\ Moved # {}
    /\ \E i \in fresh, r \in [Columns(query) -> Values],
          source \in DOMAIN table, new \in [Moved -> Values] :
          /\ \A c \in Moved : r[c] > 0 /\ new[c] < table[source][c]
          /\ "quantity_reserved" \in Columns(query) => r["quantity_reserved"] = 0
          /\ fresh' = fresh \ {i}
          /\ Put([j \in DOMAIN table \cup {i} |->
                    IF j = i THEN r
                    ELSE IF j = source THEN Rewritten(table[j], Moved, new) ELSE table[j]])

\* An update, of one row of the list or of all that share what is written.  The status of
\* an order moves forward in the order of the enum.  (updated_at need not: now() is the time
\* the transaction began, and it may have waited for the row.)
ChangeRows ==
    /\ \E columns \in {together \cap Columns(query) : together \in Together(query.list)},
          S \in SUBSET DOMAIN table :
          /\ S # {}
          /\ \/ Cardinality(S) = 1
             \/ query.list = "inventory"
             \/ query.list \in {"stock-movements", "orders"} /\ columns = {"search"}
          /\ \E new \in [S -> [columns -> Values]] :
                /\ \A i \in S : \E c \in columns : new[i][c] # table[i][c]
                /\ "status" \in columns => \A i \in S : new[i]["status"] >= table[i]["status"]
                /\ Put([i \in DOMAIN table |->
                          IF i \in S THEN Rewritten(table[i], columns, new[i]) ELSE table[i]])
    /\ UNCHANGED fresh

\* Warehouses are the only rows that are deleted.
DeleteRow ==
    /\ query.list = "warehouses"
    /\ \E i \in DOMAIN table : Put([j \in DOMAIN table \ {i} |-> table[j]])
    /\ UNCHANGED fresh

Commit == InsertRow \/ InsertMovements \/ InsertTarget \/ ChangeRows \/ DeleteRow

Next == Read \/ Commit

Spec == Init /\ [][Next]_vars

----------------------------------------------------------------------------
(* Properties *)

\* Type correctness of the reader, the table and the notes.
TypeOK ==
    /\ query \in Queries /\ size \in PageSizes
    /\ DOMAIN table \subseteq Ids /\ fresh \subseteq Ids \ DOMAIN table
    /\ \A i \in DOMAIN table : table[i] \in [Columns(query) -> Values]
    /\ at \in {"fetch", "attach", "count", "sum", "answer", "done"}
    /\ page \in Nat \ {0} /\ total \in 0..Cardinality(Ids)
    /\ Len(items) <= size
    /\ \A n \in DOMAIN items : items[n] \in [id : Ids, available : Nat, low : BOOLEAN]
    /\ low \in [count : Nat, among : Nat]
    /\ seen \in Seq(Ids) /\ still \subseteq Listed(query, table)
    /\ writes \in 0..MaxWrites

\* A walk through all the pages of a list passes over no more of the rows that stayed where they
\* were than rows left their place meanwhile, and shows no more rows twice than came to a
\* place; so a list to which rows are only added is shown whole.  It needs one order for each
\* state of the table, which the id as tie-breaker gives to every list but that of the users.
WalkIsWhole ==
    at = "done" /\ (query.list = "users" => ~ambiguous) =>
        /\ Cardinality(still \ Range(seen)) <= left
        /\ Len(seen) - Cardinality(Range(seen)) <= came

\* The total that is answered with a page reaches to the page's last row, unless rows left
\* between the two statements.
TotalCoversPage ==
    at = "answer" /\ items # <<>> =>
        (page - 1) * size + Len(items) <= total + since.left

\* A list by low stock shows rows whose is_low_stock agrees with the filter, unless a reorder
\* level changed between the statements; its low_stock_count counts all of them or none,
\* and what it counted among differs from the total by what came and left in between.
LowStockAgrees ==
    at = "answer" /\ ListsLowStock =>
        /\ since.levels \/ \A n \in DOMAIN items : items[n].low = (query.filter = "low_stock")
        /\ low.count = IF query.filter = "low_stock" THEN low.among ELSE 0
        /\ low.among <= total + since.came /\ total <= low.among + since.left

============================================================================
