------------------------- MODULE ClientCacheProofs -------------------------
(***************************************************************************)
(* Proofs about ClientCache, for any queries, any of the mutations and any *)
(* number of commits.                                                      *)
(***************************************************************************)
EXTENDS ClientCache, TLAPS

----------------------------------------------------------------------------
(* The invariant *)

\* The variables are functions of resources, of queries and of mutations.
Typed ==
    /\ commits \in [Known -> 0..MaxCommits]
    /\ own \in [Known -> 0..MaxCommits]
    /\ data \in [Queries -> 0..MaxCommits \cup {NoData}]
    /\ DOMAIN fetch = Queries /\ DOMAIN mutation = Mutations
    /\ invalid \in [Queries -> BOOLEAN] /\ aged \in [Queries -> BOOLEAN]
    /\ mounted \in [Queries -> BOOLEAN] /\ missed \in [Queries -> BOOLEAN]
    /\ reported \in Mutations \cup {"none"}

\* What the server has answered a mutation with, and the page has taken note of, it
\* has committed.
Committed ==
    /\ \A r \in Known : own[r] <= commits[r]
    /\ \A m \in Mutations :
           mutation[m] \notin {Idle, Asked} =>
               \A r \in Known : mutation[m][r] \in 0..commits[r]

\* A request is not answered, or with what was committed; a query without a result
\* carries no marks.
Fetching(q) ==
    /\ fetch[q] \in {Idle, Asked} \/ fetch[q] \in 0..commits[Resource[q]]
    /\ data[q] = NoData => ~invalid[q] /\ ~aged[q]

\* What is fresh shows what this page's own mutations wrote, and so does an answer on
\* its way, unless an invalidation has let its request go on.
Current(q) ==
    ~missed[q] =>
        /\ Fresh(q) => data[q] >= own[Resource[q]]
        /\ fetch[q] \notin {Idle, Asked} => fetch[q] >= own[Resource[q]]

\* The inductive invariant.
Inv == Typed /\ Committed /\ \A q \in Queries : Fetching(q) /\ Current(q)

----------------------------------------------------------------------------
(* The constants *)

\* The resources of the queries are known, and marks are no numbers of commits.
LEMMA ConstantFacts ==
    /\ \A q \in Queries : Resource[q] \in Known
    /\ MaxCommits \in Nat
    /\ \A n \in Nat : n \notin {NoData, Idle, Asked}
    /\ \A m \in Mutations : m \in AllMutations
  BY CacheAssumption DEF Known

\* The onSuccess handlers: what a mutation writes it invalidates, but for the
\* movement of a receipt or a correction.
LEMMA WritesInvalidated ==
    \A m \in AllMutations : Writes(m) \ Lagging(m) \subseteq Invalidates(m)
<1> SUFFICES ASSUME NEW m \in AllMutations
             PROVE  Writes(m) \ Lagging(m) \subseteq Invalidates(m)
  OBVIOUS
<1>1. CASE m = "save product"
  BY <1>1 DEF Writes, Invalidates, ProductInvalidates
<1>2. CASE m = "deactivate product"
  BY <1>2 DEF Writes, Invalidates, DeactivationInvalidates
<1>3. CASE m = "save warehouse"
  BY <1>3 DEF Writes, Invalidates, WarehouseInvalidates
<1>4. CASE m = "delete warehouse"
  BY <1>4 DEF Writes, Invalidates, DeletionInvalidates
<1>5. CASE m = "receive or adjust"
  BY <1>5 DEF Writes, Invalidates, OperationInvalidates, Lagging
<1>6. CASE m = "transfer"
  BY <1>6 DEF Writes, Invalidates, TransferInvalidates
<1>7. CASE m = "create order"
  BY <1>7 DEF Writes, Invalidates, OrderInvalidates
<1>8. CASE m = "transition order"
  BY <1>8 DEF Writes, Invalidates, TransitionInvalidates
<1>9. CASE m = "update user"
  BY <1>9 DEF Writes, Invalidates, UserInvalidates
<1> QED
  BY <1>1, <1>2, <1>3, <1>4, <1>5, <1>6, <1>7, <1>8, <1>9 DEF AllMutations

\* A commit counts one more commit of what it changes, and no fewer of anything.
LEMMA TouchedFacts ==
    ASSUME Typed, NEW rs, \A r \in rs \cap Known : commits[r] < MaxCommits
    PROVE  /\ Touched(rs) \in [Known -> 0..MaxCommits]
           /\ \A r \in Known : commits[r] <= Touched(rs)[r] /\ Touched(rs)[r] \in 0..Touched(rs)[r]
<1>1. \A r \in Known : commits[r] \in 0..MaxCommits
  BY DEF Typed
<1> QED
  BY <1>1, ConstantFacts DEF Touched

----------------------------------------------------------------------------
(* Mutations *)

\* What a page keeps stays true of a server that commits more.
LEMMA CacheFrame ==
    ASSUME Inv, UNCHANGED cached, own' = own,
           commits' \in [Known -> 0..MaxCommits],
           \A r \in Known : commits[r] <= commits'[r]
    PROVE  \A q \in Queries : Fetching(q)' /\ Current(q)'
<1> USE DEF cached
<1> SUFFICES ASSUME NEW q \in Queries
             PROVE  Fetching(q)' /\ Current(q)'
  OBVIOUS
<1>1. /\ Fetching(q) /\ Current(q) /\ Resource[q] \in Known
      /\ commits[Resource[q]] \in 0..MaxCommits /\ commits'[Resource[q]] \in 0..MaxCommits
      /\ commits[Resource[q]] <= commits'[Resource[q]]
  BY ConstantFacts DEF Inv, Typed
<1>2. Fetching(q)'
  <2>1. 0..commits[Resource[q]] \subseteq 0..commits'[Resource[q]]
    BY <1>1
  <2> QED
    BY <1>1, <2>1 DEF Fetching
<1>3. Current(q)'
  BY <1>1 DEF Current, Fresh
<1> QED
  BY <1>2, <1>3

\* A mutation is made, or is refused, or given up.
LEMMA AskPreserves ==
    ASSUME Inv, NEW m \in Mutations, Mutate(m) \/ Fail(m)
    PROVE  Inv'
<1>1. PICK stage \in {Idle, Asked} : mutation' = [mutation EXCEPT ![m] = stage]
  BY DEF Mutate, Fail
<1>2. reported' = "none" /\ UNCHANGED <<commits, own, cached>>
  BY DEF Mutate, Fail
<1>3. Typed'
  BY <1>1, <1>2 DEF Inv, Typed, cached
<1>4. Committed'
  BY <1>1, <1>2 DEF Inv, Typed, Committed
<1>5. \A r \in Known : commits[r] <= commits[r]
  BY ConstantFacts DEF Inv, Typed
<1>6. \A q \in Queries : Fetching(q)' /\ Current(q)'
  BY <1>2, <1>5, CacheFrame DEF Inv, Typed
<1> QED
  BY <1>3, <1>4, <1>6 DEF Inv

\* The answers that are on their way stay true of a server that commits more.
LEMMA CommittedFrame ==
    ASSUME Inv, own' = own, commits' \in [Known -> 0..MaxCommits],
           \A r \in Known : commits[r] <= commits'[r],
           \A m \in Mutations : \/ mutation'[m] = mutation[m]
                                \/ \A r \in Known : mutation'[m][r] \in 0..commits'[r]
    PROVE  Committed'
<1>1. \A r \in Known : /\ own[r] \in 0..MaxCommits /\ commits[r] \in 0..MaxCommits
                       /\ commits'[r] \in 0..MaxCommits
  BY DEF Inv, Typed
<1>2. \A r \in Known : own'[r] <= commits'[r]
  BY <1>1, ConstantFacts DEF Inv, Committed
<1>3. \A r \in Known : 0..commits[r] \subseteq 0..commits'[r]
  BY <1>1, ConstantFacts
<1>4. ASSUME NEW m \in Mutations, mutation'[m] \notin {Idle, Asked}, NEW r \in Known
      PROVE  mutation'[m][r] \in 0..commits'[r]
  BY <1>3, <1>4 DEF Inv, Committed
<1> QED
  BY <1>2, <1>4 DEF Committed

\* The server commits a mutation of this page.
LEMMA CommitPreserves ==
    ASSUME Inv, NEW m \in Mutations, Commit(m)
    PROVE  Inv'
<1> DEFINE after == Touched(Changes(m))
<1>1. /\ \A r \in Changes(m) : commits[r] < MaxCommits
      /\ commits' = after /\ mutation' = [mutation EXCEPT ![m] = after]
      /\ reported' = "none" /\ UNCHANGED <<own, cached>>
  BY DEF Commit
<1>2. /\ after \in [Known -> 0..MaxCommits]
      /\ \A r \in Known : commits[r] <= after[r] /\ after[r] \in 0..after[r]
  BY <1>1, TouchedFacts DEF Inv
<1> HIDE DEF after
<1>3. Typed'
  BY <1>1, <1>2 DEF Inv, Typed, cached
<1>4. \A n \in Mutations : \/ mutation'[n] = mutation[n]
                           \/ \A r \in Known : mutation'[n][r] \in 0..commits'[r]
  BY <1>1, <1>2 DEF Inv, Typed
<1>5. Committed'
  BY <1>1, <1>2, <1>4, CommittedFrame
<1>6. \A q \in Queries : Fetching(q)' /\ Current(q)'
  BY <1>1, <1>2, CacheFrame
<1> QED
  BY <1>3, <1>5, <1>6 DEF Inv

\* Somebody else's commit.
LEMMA CommitElsewherePreserves ==
    ASSUME Inv, NEW s \in Known, CommitElsewhere(s)
    PROVE  Inv'
<1> DEFINE after == Touched({s})
<1>1. /\ commits[s] < MaxCommits /\ commits' = after
      /\ reported' = "none" /\ UNCHANGED <<mutation, own, cached>>
  BY DEF CommitElsewhere
<1>2. /\ after \in [Known -> 0..MaxCommits]
      /\ \A r \in Known : commits[r] <= after[r]
  BY <1>1, TouchedFacts DEF Inv
<1> HIDE DEF after
<1>3. Typed'
  BY <1>1, <1>2 DEF Inv, Typed, cached
<1>4. Committed'
  BY <1>1, <1>2, CommittedFrame
<1>5. \A q \in Queries : Fetching(q)' /\ Current(q)'
  BY <1>1, <1>2, CacheFrame
<1> QED
  BY <1>3, <1>4, <1>5 DEF Inv

\* A mutation is reported: the page takes note of what was committed, and every query
\* of what it wrote is invalid, cancelled, or let go on with a note of it.
LEMMA SucceedPreserves ==
    ASSUME Inv, NEW m \in Mutations, Succeed(m)
    PROVE  Inv'
<1> DEFINE noted == Writes(m) \ Lagging(m)
           hit == {q \in Queries : Resource[q] \in Invalidates(m)}
           passed == {q \in hit : fetch[q] # Idle /\ (~mounted[q] \/ data[q] = NoData)}
<1>1. /\ mutation[m] \notin {Idle, Asked}
      /\ mutation' = [mutation EXCEPT ![m] = Idle]
      /\ own' = [r \in Known |-> IF r \in noted /\ mutation[m][r] > own[r]
                                 THEN mutation[m][r] ELSE own[r]]
      /\ invalid' = [q \in Queries |-> invalid[q] \/ (q \in hit /\ data[q] # NoData)]
      /\ fetch' = [q \in Queries |->
                      IF q \in hit \ passed /\ mounted[q] THEN Asked ELSE fetch[q]]
      /\ missed' = [q \in Queries |-> IF q \in hit THEN q \in passed ELSE missed[q]]
      /\ reported' = m
      /\ UNCHANGED <<commits, data, aged, mounted>>
  BY DEF Succeed
<1>2. Typed /\ Committed
  BY DEF Inv
<1>3. \A r \in Known : /\ own'[r] \in 0..MaxCommits /\ own'[r] <= commits[r]
                       /\ r \notin noted => own'[r] = own[r]
  <2> SUFFICES ASSUME NEW r \in Known
               PROVE  /\ own'[r] \in 0..MaxCommits /\ own'[r] <= commits[r]
                      /\ r \notin noted => own'[r] = own[r]
    OBVIOUS
  <2>1. /\ own[r] \in 0..MaxCommits /\ commits[r] \in 0..MaxCommits /\ own[r] <= commits[r]
        /\ mutation[m][r] \in 0..commits[r]
    BY <1>1, <1>2 DEF Typed, Committed
  <2>2. own'[r] \in {own[r], mutation[m][r]} /\ (r \notin noted => own'[r] = own[r])
    BY <1>1
  <2> QED
    BY <2>1, <2>2, ConstantFacts
<1>4. Typed'
  <2>1. own' \in [Known -> 0..MaxCommits]
    BY <1>1, <1>3
  <2>2. invalid' \in [Queries -> BOOLEAN]
    <3>1. \A q \in Queries : (invalid[q] \/ (q \in hit /\ data[q] # NoData)) \in BOOLEAN
      BY Zenon
    <3> HIDE DEF hit
    <3> QED
      BY <1>1, <3>1
  <2>3. missed' \in [Queries -> BOOLEAN]
    <3>1. \A q \in Queries : (IF q \in hit THEN q \in passed ELSE missed[q]) \in BOOLEAN
      <4> HIDE DEF hit, passed
      <4>1. \A q \in Queries : missed[q] \in BOOLEAN
        BY <1>2 DEF Typed
      <4>2. \A q : (q \in passed) \in BOOLEAN
        OBVIOUS
      <4> QED
        BY <4>1, <4>2
    <3> HIDE DEF hit, passed
    <3> QED
      BY <1>1, <3>1
  <2> QED
    BY <1>1, <1>2, <2>1, <2>2, <2>3 DEF Typed
<1>5. Committed'
  BY <1>1, <1>2, <1>3 DEF Committed, Typed
<1>6. noted \subseteq Invalidates(m)
  BY WritesInvalidated, ConstantFacts
<1>7. ASSUME NEW q \in Queries
      PROVE  Fetching(q)' /\ Current(q)'
  <2>1. Fetching(q) /\ Current(q) /\ Resource[q] \in Known
    BY ConstantFacts DEF Inv
  <2>2. CASE q \in hit
    <3>1. /\ invalid'[q] = (invalid[q] \/ data[q] # NoData)
          /\ missed'[q] = (q \in passed)
          /\ fetch'[q] = IF q \notin passed /\ mounted[q] THEN Asked ELSE fetch[q]
      BY <1>1, <2>2
    <3>2. ~Fresh(q)'
      BY <1>1, <3>1 DEF Fresh
    <3>3. q \in passed <=> fetch[q] # Idle /\ (~mounted[q] \/ data[q] = NoData)
      BY <2>2
    <3>4. ~missed'[q] => fetch'[q] \in {Idle, Asked}
      BY <3>1, <3>3
    <3>5. Current(q)'
      BY <3>2, <3>4 DEF Current
    <3>6. Fetching(q)'
      BY <1>1, <2>1, <3>1 DEF Fetching
    <3> QED
      BY <3>5, <3>6
  <2>3. CASE q \notin hit
    <3>1. invalid'[q] = invalid[q] /\ missed'[q] = missed[q] /\ fetch'[q] = fetch[q]
      BY <1>1, <1>2, <2>3 DEF Typed
    <3>2. own'[Resource[q]] = own[Resource[q]]
      BY <1>3, <1>6, <2>1, <2>3
    <3> HIDE DEF hit, passed, noted
    <3>3. Fetching(q)'
      BY <1>1, <2>1, <3>1 DEF Fetching
    <3>4. Current(q)'
      BY <1>1, <2>1, <3>1, <3>2 DEF Current, Fresh
    <3> QED
      BY <3>3, <3>4
  <2> QED
    BY <2>2, <2>3
<1> QED
  BY <1>4, <1>5, <1>7 DEF Inv

----------------------------------------------------------------------------
(* Queries *)

\* What a step of one query must show.
LEMMA QueryStep ==
    ASSUME Inv, NEW q \in Queries, UNCHANGED <<commits, mutation, own>>,
           reported' = "none", Typed',
           \A p \in Queries \ {q} :
               /\ data'[p] = data[p] /\ fetch'[p] = fetch[p] /\ invalid'[p] = invalid[p]
               /\ aged'[p] = aged[p] /\ missed'[p] = missed[p],
           Fetching(q)', Current(q)'
    PROVE  Inv'
<1>1. Committed'
  BY DEF Inv, Committed
<1>2. \A p \in Queries \ {q} : Fetching(p)' /\ Current(p)'
  BY DEF Inv, Fetching, Current, Fresh
<1> QED
  BY <1>1, <1>2 DEF Inv

\* A component comes on show, or goes.
LEMMA MountPreserves ==
    ASSUME Inv, NEW q \in Queries, Mount(q) \/ Unmount(q)
    PROVE  Inv'
<1>1. Typed /\ Fetching(q) /\ Current(q)
  BY DEF Inv
<1>2. /\ reported' = "none" /\ UNCHANGED <<commits, data, invalid, aged, mutation, own>>
      /\ mounted' \in [Queries -> BOOLEAN]
  BY <1>1 DEF Mount, Unmount, Typed
<1>3. CASE UNCHANGED <<fetch, missed>>
  <2>1. Typed'
    BY <1>1, <1>2, <1>3 DEF Typed
  <2>2. Fetching(q)' /\ Current(q)'
    BY <1>1, <1>2, <1>3 DEF Fetching, Current, Fresh
  <2> QED
    BY <1>2, <1>3, <2>1, <2>2, QueryStep
<1>4. CASE /\ ~Fresh(q)
           /\ fetch' = [fetch EXCEPT ![q] = Asked]
           /\ missed' = [missed EXCEPT ![q] = FALSE]
  <2>1. Typed'
    BY <1>1, <1>2, <1>4 DEF Typed
  <2>2. fetch'[q] = Asked /\ ~Fresh(q)'
    BY <1>1, <1>2, <1>4 DEF Typed, Fresh
  <2>3. Fetching(q)' /\ Current(q)'
    BY <1>1, <1>2, <2>2 DEF Fetching, Current
  <2>4. \A p \in Queries \ {q} : fetch'[p] = fetch[p] /\ missed'[p] = missed[p]
    BY <1>1, <1>4 DEF Typed
  <2> QED
    BY <1>2, <2>1, <2>3, <2>4, QueryStep
<1> QED
  BY <1>3, <1>4 DEF Mount, Unmount

\* The server answers with what it has committed, which is no less than what this
\* page has taken note of.
LEMMA ServePreserves ==
    ASSUME Inv, NEW q \in Queries, Serve(q)
    PROVE  Inv'
<1>1. Typed /\ Fetching(q) /\ Current(q) /\ Resource[q] \in Known
  BY ConstantFacts DEF Inv
<1>2. /\ reported' = "none"
      /\ fetch' = [fetch EXCEPT ![q] = commits[Resource[q]]]
      /\ UNCHANGED <<commits, data, invalid, aged, mounted, mutation, own, missed>>
  BY DEF Serve
<1>3. Typed'
  BY <1>1, <1>2 DEF Typed
<1>4. /\ fetch'[q] = commits[Resource[q]]
      /\ \A p \in Queries \ {q} : fetch'[p] = fetch[p]
  BY <1>1, <1>2 DEF Typed
<1>5. /\ commits[Resource[q]] \in 0..commits[Resource[q]]
      /\ commits[Resource[q]] >= own[Resource[q]]
  <2>1. commits[Resource[q]] \in 0..MaxCommits /\ own[Resource[q]] \in 0..MaxCommits
    BY <1>1 DEF Typed
  <2> QED
    BY <1>1, <2>1, ConstantFacts DEF Inv, Committed
<1>6. Fetching(q)' /\ Current(q)'
  BY <1>1, <1>2, <1>4, <1>5 DEF Fetching, Current, Fresh
<1> QED
  BY <1>2, <1>3, <1>4, <1>6, QueryStep

\* The answer is stored, and counts as fresh.
LEMMA ReceivePreserves ==
    ASSUME Inv, NEW q \in Queries, Receive(q)
    PROVE  Inv'
<1>1. Typed /\ Fetching(q) /\ Current(q) /\ Resource[q] \in Known
  BY ConstantFacts DEF Inv
<1>2. /\ fetch[q] \notin {Idle, Asked} /\ fetch' = [fetch EXCEPT ![q] = Idle]
      /\ data' = [data EXCEPT ![q] = fetch[q]]
      /\ invalid' = [invalid EXCEPT ![q] = FALSE] /\ aged' = [aged EXCEPT ![q] = FALSE]
      /\ reported' = "none" /\ UNCHANGED <<commits, mounted, mutation, own, missed>>
  BY DEF Receive
<1>3. fetch[q] \in 0..MaxCommits
  <2>1. commits[Resource[q]] \in 0..MaxCommits /\ fetch[q] \in 0..commits[Resource[q]]
    BY <1>1, <1>2 DEF Typed, Fetching
  <2> QED
    BY <2>1, ConstantFacts
<1>4. Typed'
  BY <1>1, <1>2, <1>3 DEF Typed
<1>5. /\ fetch'[q] = Idle /\ data'[q] = fetch[q] /\ ~invalid'[q] /\ ~aged'[q]
      /\ \A p \in Queries \ {q} :
             /\ data'[p] = data[p] /\ fetch'[p] = fetch[p]
             /\ invalid'[p] = invalid[p] /\ aged'[p] = aged[p]
  BY <1>1, <1>2 DEF Typed
<1>6. Fetching(q)' /\ Current(q)'
  BY <1>1, <1>2, <1>5 DEF Fetching, Current
<1> QED
  BY <1>2, <1>4, <1>5, <1>6, QueryStep

\* A request fails, and the result there is stays as it was.
LEMMA FetchFailsPreserves ==
    ASSUME Inv, NEW q \in Queries, FetchFails(q)
    PROVE  Inv'
<1>1. Typed /\ Fetching(q) /\ Current(q)
  BY DEF Inv
<1>2. /\ fetch' = [fetch EXCEPT ![q] = Idle] /\ reported' = "none"
      /\ UNCHANGED <<commits, data, invalid, aged, mounted, mutation, own, missed>>
  BY DEF FetchFails
<1>3. /\ Typed' /\ fetch'[q] = Idle
      /\ \A p \in Queries \ {q} : fetch'[p] = fetch[p]
  BY <1>1, <1>2 DEF Typed
<1>4. Fetching(q)' /\ Current(q)'
  BY <1>1, <1>2, <1>3 DEF Fetching, Current, Fresh
<1> QED
  BY <1>2, <1>3, <1>4, QueryStep

\* A result grows old.
LEMMA AgePreserves ==
    ASSUME Inv, NEW q \in Queries, Age(q)
    PROVE  Inv'
<1>1. Typed /\ Fetching(q) /\ Current(q)
  BY DEF Inv
<1>2. /\ Fresh(q) /\ aged' = [aged EXCEPT ![q] = TRUE] /\ reported' = "none"
      /\ UNCHANGED <<commits, data, fetch, invalid, mounted, mutation, own, missed>>
  BY DEF Age
<1>3. /\ Typed' /\ aged'[q] = TRUE
      /\ \A p \in Queries \ {q} : aged'[p] = aged[p]
  BY <1>1, <1>2 DEF Typed
<1>4. Fetching(q)' /\ Current(q)'
  BY <1>1, <1>2, <1>3 DEF Fetching, Current, Fresh
<1> QED
  BY <1>2, <1>3, <1>4, QueryStep

\* A result that nobody shows is dropped.
LEMMA CollectPreserves ==
    ASSUME Inv, NEW q \in Queries, Collect(q)
    PROVE  Inv'
<1>1. Typed /\ Fetching(q) /\ Current(q)
  BY DEF Inv
<1>2. /\ fetch[q] = Idle /\ data' = [data EXCEPT ![q] = NoData]
      /\ invalid' = [invalid EXCEPT ![q] = FALSE] /\ aged' = [aged EXCEPT ![q] = FALSE]
      /\ missed' = [missed EXCEPT ![q] = FALSE]
      /\ reported' = "none" /\ UNCHANGED <<commits, fetch, mounted, mutation, own>>
  BY DEF Collect
<1>3. Typed'
  BY <1>1, <1>2 DEF Typed
<1>4. /\ data'[q] = NoData /\ ~invalid'[q] /\ ~aged'[q]
      /\ \A p \in Queries \ {q} :
             /\ data'[p] = data[p] /\ invalid'[p] = invalid[p]
             /\ aged'[p] = aged[p] /\ missed'[p] = missed[p]
  BY <1>1, <1>2 DEF Typed
<1>5. Fetching(q)' /\ Current(q)'
  BY <1>1, <1>2, <1>4 DEF Fetching, Current, Fresh
<1> QED
  BY <1>2, <1>3, <1>4, <1>5, QueryStep

----------------------------------------------------------------------------
(* The invariant holds *)

\* A page that has asked for nothing.
LEMMA InitInv == Init => Inv
<1> SUFFICES ASSUME Init
             PROVE  Inv
  OBVIOUS
<1> USE DEF Init
<1>1. Typed
  BY ConstantFacts DEF Typed
<1>2. Committed
  BY ConstantFacts DEF Committed
<1>3. \A q \in Queries : Fetching(q) /\ Current(q)
  BY DEF Fetching, Current, Fresh
<1> QED
  BY <1>1, <1>2, <1>3 DEF Inv

\* Every step keeps the invariant.
LEMMA NextInv == Inv /\ [Next]_vars => Inv'
<1> SUFFICES ASSUME Inv, [Next]_vars
             PROVE  Inv'
  OBVIOUS
<1>1. ASSUME NEW m \in Mutations, Mutate(m) \/ Commit(m) \/ Fail(m) \/ Succeed(m)
      PROVE  Inv'
  BY <1>1, AskPreserves, CommitPreserves, SucceedPreserves
<1>2. ASSUME NEW r \in Known, CommitElsewhere(r)
      PROVE  Inv'
  BY <1>2, CommitElsewherePreserves
<1>3. ASSUME NEW q \in Queries,
             \/ Mount(q) \/ Unmount(q) \/ Serve(q) \/ Receive(q)
             \/ FetchFails(q) \/ Age(q) \/ Collect(q)
      PROVE  Inv'
  BY <1>3, MountPreserves, ServePreserves, ReceivePreserves, FetchFailsPreserves,
     AgePreserves, CollectPreserves
<1>4. CASE UNCHANGED vars
  BY <1>4 DEF vars, Inv, Typed, Committed, Fetching, Current, Fresh
<1> QED
  BY <1>1, <1>2, <1>3, <1>4 DEF Next

\* Every state the page reaches satisfies the inductive invariant.
THEOREM Invariance == Spec => []Inv
  BY InitInv, NextInv, PTL DEF Spec

----------------------------------------------------------------------------
(* What it says *)

(***************************************************************************)
(* Variables are typed; a query without a result carries no marks, and a   *)
(* result is always one the server has answered with.                      *)
(***************************************************************************)
THEOREM TypeCorrect == Spec => []TypeOK
<1>1. Inv => TypeOK
  BY DEF Inv, Typed, Fetching, TypeOK
<1> QED
  BY <1>1, Invariance, PTL

(***************************************************************************)
(* What counts as fresh shows what this page's own mutations wrote, unless *)
(* an invalidation met a request under way and let it go on.               *)
(***************************************************************************)
THEOREM FreshIsCurrent == Spec => []FreshShowsOwnChanges
<1>1. Inv => FreshShowsOwnChanges
  BY DEF Inv, Current, FreshShowsOwnChanges
<1> QED
  BY <1>1, Invariance, PTL

=============================================================================
