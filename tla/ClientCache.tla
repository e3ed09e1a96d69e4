---------------------------- MODULE ClientCache ----------------------------
(***************************************************************************)
(* What one StockFlow page keeps of the server's data: results of queries, *)
(* each under a key, fresh for thirty seconds or until a mutation of the   *)
(* page invalidates its key.  TanStack Query is modelled as the pages use  *)
(* it (main.tsx's defaults, no cancellation signal, no refetch interval).  *)
(*                                                                         *)
(* A key begins with its resource.  What the server holds of a resource is *)
(* the number of commits that changed what its lists show.                 *)
(***************************************************************************)
EXTENDS Integers, FiniteSets

CONSTANTS
    Queries,        \* the queries of the pages
    Resource,       \* the first element of each query's key
    Mutations,      \* the mutations that are made
    NoData,         \* no result
    Idle, Asked,    \* no request under way; one that is not answered yet
    MaxCommits      \* bound: so many commits of a resource

Resources ==
    {"products", "product-categories", "warehouses", "inventory",
     "stock-movements", "orders", "users"}

AllMutations ==
    {"save product", "deactivate product", "save warehouse", "delete warehouse",
     "receive or adjust", "transfer", "create order", "transition order", "update user"}

\* The resources the queries are of; of the others nothing is kept.
Known == {Resource[q] : q \in Queries}

ASSUME CacheAssumption ==
    /\ Resource \in [Queries -> Resources]
    /\ Mutations \subseteq AllMutations
    /\ MaxCommits \in Nat /\ {NoData, Idle, Asked} \cap Nat = {}

VARIABLES
    commits,    \* the server: commits that changed each resource
    data,       \* the result of each query: how many of them it shows
    fetch,      \* its request: Idle, Asked, or the answer on its way
    invalid,    \* it has been invalidated
    aged,       \* its result is older than staleTime
    mounted,    \* some component shows it
    mutation,   \* each mutation: Idle, Asked, or the commits that answer it
    own,        \* history: the commits of each resource up to the last own mutation reported
    missed,     \* history: an invalidation passed over the request under way
    reported    \* history: the mutation reported as a success by the last step

vars == <<commits, data, fetch, invalid, aged, mounted, mutation, own, missed, reported>>

----------------------------------------------------------------------------
(* Mutations *)

\* The resources whose rows a mutation writes.
Writes(m) ==
    CASE m = "save product" -> {"products", "product-categories"}
      [] m = "deactivate product" -> {"products"}
      [] m \in {"save warehouse", "delete warehouse"} -> {"warehouses"}
      [] m \in {"receive or adjust", "transfer"} -> {"inventory", "stock-movements"}
      [] m = "create order" -> {"orders"}
      [] m = "transition order" -> {"orders", "inventory", "stock-movements"}
      [] m = "update user" -> {"users"}

\* Those whose lists show names or levels of what it writes.
Borrow(m) ==
    CASE m \in {"save product", "save warehouse"} -> {"inventory", "stock-movements", "orders"}
      [] m = "deactivate product" -> {"inventory"}
      [] m = "update user" -> {"stock-movements", "orders"}
      [] OTHER -> {}

Changes(m) == (Writes(m) \cup Borrow(m)) \cap Known

ProductInvalidates == {"products", "product-categories"}        \* ProductFormModal
DeactivationInvalidates == {"products"}                         \* ProductsPage
WarehouseInvalidates == {"warehouses"}                          \* WarehouseFormModal
DeletionInvalidates == {"warehouses"}                           \* WarehousesPage
OperationInvalidates == {"inventory"}                           \* InventoryOperationModal
TransferInvalidates == {"inventory", "stock-movements"}         \* TransferStockModal
OrderInvalidates == {"orders"}                                  \* OrderCreateModal
TransitionInvalidates == {"orders", "inventory", "stock-movements"}    \* OrderDetailsDrawer
UserInvalidates == {"users"}                                    \* UsersPage

Invalidates(m) ==
    CASE m = "save product" -> ProductInvalidates
      [] m = "deactivate product" -> DeactivationInvalidates
      [] m = "save warehouse" -> WarehouseInvalidates
      [] m = "delete warehouse" -> DeletionInvalidates
      [] m = "receive or adjust" -> OperationInvalidates
      [] m = "transfer" -> TransferInvalidates
      [] m = "create order" -> OrderInvalidates
      [] m = "transition order" -> TransitionInvalidates
      [] m = "update user" -> UserInvalidates

\* A receipt or a correction does not invalidate the movements, although it writes one.
Lagging(m) == IF m = "receive or adjust" THEN {"stock-movements"} ELSE {}

Init ==
    /\ commits = [r \in Known |-> 0]
    /\ data = [q \in Queries |-> NoData] /\ fetch = [q \in Queries |-> Idle]
    /\ invalid = [q \in Queries |-> FALSE] /\ aged = [q \in Queries |-> FALSE]
    /\ mounted = [q \in Queries |-> FALSE]
    /\ mutation = [m \in Mutations |-> Idle]
    /\ own = commits /\ missed = [q \in Queries |-> FALSE] /\ reported = "none"

cached == <<data, fetch, invalid, aged, mounted, missed>>

Touched(rs) == [r \in Known |-> IF r \in rs THEN commits[r] + 1 ELSE commits[r]]

Mutate(m) ==
    /\ mutation[m] = Idle
    /\ mutation' = [mutation EXCEPT ![m] = Asked]
    /\ reported' = "none" /\ UNCHANGED <<commits, own, cached>>

\* The server commits it.
Commit(m) ==
    /\ mutation[m] = Asked
    /\ \A r \in Changes(m) : commits[r] < MaxCommits
    /\ commits' = Touched(Changes(m))
    /\ mutation' = [mutation EXCEPT ![m] = Touched(Changes(m))]
    /\ reported' = "none" /\ UNCHANGED <<own, cached>>

\* Refused, or given up by the client, whether or not it has been committed: onError.
Fail(m) ==
    /\ mutation[m] # Idle
    /\ mutation' = [mutation EXCEPT ![m] = Idle]
    /\ reported' = "none" /\ UNCHANGED <<commits, own, cached>>

\* Mutant: a request under way is taken for the one that the invalidation asks for.
SucceedWithoutCancel(m) ==
    /\ mutation[m] \notin {Idle, Asked}
    /\ mutation' = [mutation EXCEPT ![m] = Idle]
    /\ own' = [r \in Known |-> IF r \in Writes(m) \ Lagging(m) /\ mutation[m][r] > own[r]
                               THEN mutation[m][r] ELSE own[r]]
    /\ LET hit == {q \in Queries : Resource[q] \in Invalidates(m)}
           passed == {q \in hit : fetch[q] # Idle /\ (~mounted[q] \/ data[q] = NoData)} IN
        /\ invalid' = [q \in Queries |-> invalid[q] \/ (q \in hit /\ data[q] # NoData)]
        /\ fetch' = [q \in Queries |->
                        IF q \in hit /\ fetch[q] = Idle /\ mounted[q] THEN Asked ELSE fetch[q]]
        /\ missed' = [q \in Queries |-> IF q \in hit THEN q \in passed ELSE missed[q]]
    /\ reported' = m
    /\ UNCHANGED <<commits, data, aged, mounted>>

\* onSuccess: the queries of the keys become invalid, and those on show are asked for again, a
\* request under way being cancelled; but a first request goes on, and so does one for a query
\* that nobody shows any more.
Succeed(m) ==
    /\ mutation[m] \notin {Idle, Asked}
    /\ mutation' = [mutation EXCEPT ![m] = Idle]
    /\ own' = [r \in Known |-> IF r \in Writes(m) \ Lagging(m) /\ mutation[m][r] > own[r]
                               THEN mutation[m][r] ELSE own[r]]
    /\ LET hit == {q \in Queries : Resource[q] \in Invalidates(m)}
           passed == {q \in hit : fetch[q] # Idle /\ (~mounted[q] \/ data[q] = NoData)} IN
        /\ invalid' = [q \in Queries |-> invalid[q] \/ (q \in hit /\ data[q] # NoData)]
        /\ fetch' = [q \in Queries |->
                        IF q \in hit \ passed /\ mounted[q] THEN Asked ELSE fetch[q]]
        /\ missed' = [q \in Queries |-> IF q \in hit THEN q \in passed ELSE missed[q]]
    /\ reported' = m
    /\ UNCHANGED <<commits, data, aged, mounted>>

\* Somebody else changes what a resource shows.
CommitElsewhere(r) ==
    /\ commits[r] < MaxCommits
    /\ commits' = Touched({r})
    /\ reported' = "none" /\ UNCHANGED <<mutation, own, cached>>

----------------------------------------------------------------------------
(* Queries *)

Fresh(q) == data[q] # NoData /\ ~invalid[q] /\ ~aged[q]

\* A component shows the query; it is asked for unless it is fresh or already on its way.
Mount(q) ==
    /\ ~mounted[q] /\ mounted' = [mounted EXCEPT ![q] = TRUE]
    /\ \/ /\ Fresh(q) \/ fetch[q] # Idle
          /\ UNCHANGED <<fetch, missed>>
       \/ /\ ~Fresh(q) /\ fetch[q] = Idle
          /\ fetch' = [fetch EXCEPT ![q] = Asked]
          /\ missed' = [missed EXCEPT ![q] = FALSE]
    /\ reported' = "none" /\ UNCHANGED <<commits, data, invalid, aged, mutation, own>>

Unmount(q) ==
    /\ mounted[q] /\ mounted' = [mounted EXCEPT ![q] = FALSE]
    /\ reported' = "none"
    /\ UNCHANGED <<commits, data, fetch, invalid, aged, mutation, own, missed>>

\* The server answers with what is committed.
Serve(q) ==
    /\ fetch[q] = Asked
    /\ fetch' = [fetch EXCEPT ![q] = commits[Resource[q]]]
    /\ reported' = "none"
    /\ UNCHANGED <<commits, data, invalid, aged, mounted, mutation, own, missed>>

\* Mutant: whatever there is of the answer is stored.
ReceiveEarly(q) ==
    /\ fetch[q] # Idle /\ fetch' = [fetch EXCEPT ![q] = Idle]
    /\ data' = [data EXCEPT ![q] = fetch[q]]
    /\ invalid' = [invalid EXCEPT ![q] = FALSE] /\ aged' = [aged EXCEPT ![q] = FALSE]
    /\ reported' = "none" /\ UNCHANGED <<commits, mounted, mutation, own, missed>>

Receive(q) ==
    /\ fetch[q] \notin {Idle, Asked} /\ fetch' = [fetch EXCEPT ![q] = Idle]
    /\ data' = [data EXCEPT ![q] = fetch[q]]
    /\ invalid' = [invalid EXCEPT ![q] = FALSE] /\ aged' = [aged EXCEPT ![q] = FALSE]
    /\ reported' = "none" /\ UNCHANGED <<commits, mounted, mutation, own, missed>>

\* The request and its retry have failed; the result there is stays as it was.
FetchFails(q) ==
    /\ fetch[q] # Idle /\ fetch' = [fetch EXCEPT ![q] = Idle]
    /\ reported' = "none"
    /\ UNCHANGED <<commits, data, invalid, aged, mounted, mutation, own, missed>>

\* staleTime has passed; nothing else happens while the query stays on show.
Age(q) ==
    /\ Fresh(q) /\ aged' = [aged EXCEPT ![q] = TRUE]
    /\ reported' = "none"
    /\ UNCHANGED <<commits, data, fetch, invalid, mounted, mutation, own, missed>>

\* A result that nobody shows is dropped in the end.
Collect(q) ==
    /\ ~mounted[q] /\ fetch[q] = Idle /\ data[q] # NoData
    /\ data' = [data EXCEPT ![q] = NoData]
    /\ invalid' = [invalid EXCEPT ![q] = FALSE] /\ aged' = [aged EXCEPT ![q] = FALSE]
    /\ missed' = [missed EXCEPT ![q] = FALSE]
    /\ reported' = "none" /\ UNCHANGED <<commits, fetch, mounted, mutation, own>>

Next ==
    \/ \E m \in Mutations : Mutate(m) \/ Commit(m) \/ Fail(m) \/ Succeed(m)
    \/ \E r \in Known : CommitElsewhere(r)
    \/ \E q \in Queries :
          \/ Mount(q) \/ Unmount(q) \/ Serve(q) \/ Receive(q)
          \/ FetchFails(q) \/ Age(q) \/ Collect(q)

Spec == Init /\ [][Next]_vars

----------------------------------------------------------------------------
(* Properties *)

\* Type correctness; a query without a result carries no marks.
TypeOK ==
    /\ commits \in [Known -> 0..MaxCommits] /\ own \in [Known -> 0..MaxCommits]
    /\ data \in [Queries -> 0..MaxCommits \cup {NoData}]
    /\ \A q \in Queries :
          /\ fetch[q] \in {Idle, Asked} \/ fetch[q] \in 0..commits[Resource[q]]
          /\ data[q] = NoData => ~invalid[q] /\ ~aged[q]
    /\ invalid \in [Queries -> BOOLEAN] /\ aged \in [Queries -> BOOLEAN]
    /\ mounted \in [Queries -> BOOLEAN] /\ missed \in [Queries -> BOOLEAN]
    /\ reported \in Mutations \cup {"none"}

\* What counts as fresh shows all that this page's own mutations wrote, once reported as a success
\* (but for the movement of a receipt or correction), however the mutation, the requests for the query and its coming and
\* going on the screen interleave; except after an invalidation that met a request of the query
\* under way and let it go on, whose older answer then counts as fresh.
FreshShowsOwnChanges ==
    \A q \in Queries : Fresh(q) /\ ~missed[q] => data[q] >= own[Resource[q]]

\* docs/products.md:38: successful create, update and deactivate mutations invalidate product and
\* category queries (ProductFormModal.tsx and ProductsPage.tsx).
ProductMutationsInvalidate ==
    [][\A q \in Queries :
          /\ reported' \in {"save product", "deactivate product"}
          /\ Resource[q] \in {"products", "product-categories"}
          /\ data[q] # NoData
          => invalid'[q]]_vars

============================================================================
