--------------------------- MODULE ListingProofs ---------------------------
(***************************************************************************)
(* Proofs about Listing, for any of the queries, any table, any size of a  *)
(* page and any number of commits.                                         *)
(***************************************************************************)
EXTENDS Listing, FiniteOrders, SequenceTheorems

----------------------------------------------------------------------------
(* The constants *)

\* What the queries have in common; the list of the users is the one without a tie-breaker,
\* and none of its columns ever changes.
LEMMA QueryFacts ==
    ASSUME NEW q \in Queries
    PROVE  /\ q.dir \in Directions /\ q.tie \in Directions \cup {"none"}
           /\ q.list = "users" <=> q.tie = "none"
           /\ q.list = "users" => q.filter = "none"
           /\ q.filter \in LowStockFilters =>
                  /\ q.list = "inventory"
                  /\ {"available_quantity", "reorder_level"} \subseteq Columns(q)
           /\ q.by \in Columns(q)
<1>1. q \in AllQueries
  BY QueriesAssumption
<1>2. \/ q \in InventoryQueries \/ q \in MovementQueries \/ q \in OrderQueries
      \/ q \in ProductQueries \/ q \in WarehouseQueries \/ q \in UserQueries
  BY <1>1 DEF AllQueries
<1>3. /\ q.dir \in Directions /\ q.tie \in Directions \cup {"none"}
      /\ q.list = "users" <=> q.tie = "none"
      /\ q.list = "users" => q.filter = "none" /\ q.by = "created_at"
      /\ q.filter \in LowStockFilters => q.list = "inventory"
  BY <1>2 DEF InventoryQueries, MovementQueries, OrderQueries, ProductQueries,
              WarehouseQueries, UserQueries, Directions, LowStockFilters
<1>4. q.filter = "none" => Columns(q) = {q.by}
  BY DEF Columns, LowStockFilters
<1> QED
  BY <1>3, <1>4 DEF Columns

\* Ids and values are numbers, and there are finitely many ids.
LEMMA ConstantFacts ==
    /\ Ids \subseteq Nat /\ IsFiniteSet(Ids) /\ StartIds \subseteq Ids
    /\ Values \subseteq Nat /\ PageSizes \subseteq Nat \ {0} /\ MaxWrites \in Nat
  BY ListIdsAssumption, ListValuesAssumption, ListSizesAssumption

----------------------------------------------------------------------------
(* What a query lists, and in which order *)

\* The rows of a table have the columns the query looks at.
Rows(q, rows) ==
    /\ DOMAIN rows \subseteq Ids
    /\ \A i \in DOMAIN rows : rows[i] \in [Columns(q) -> Values]

\* The order the statement asks for, of the rows that are listed.
Order(q, rows) ==
    {p \in Listed(q, rows) \X Listed(q, rows) : Before(q, rows, p[1], p[2])}

\* Finitely many rows are listed, and Before orders them strictly: all of them if the
\* id breaks the ties, else those whose keys differ.
LEMMA ListedOrder ==
    ASSUME NEW q \in Queries, NEW rows, Rows(q, rows)
    PROVE  /\ Listed(q, rows) \subseteq DOMAIN rows /\ Listed(q, rows) \subseteq Ids
           /\ IsFiniteSet(Listed(q, rows))
           /\ Cardinality(Listed(q, rows)) \in 0..Cardinality(Ids)
           /\ StrictOrder(Order(q, rows), Listed(q, rows))
           /\ q.tie # "none" => TotalOn(Order(q, rows), Listed(q, rows))
           /\ \A i \in Listed(q, rows) : Ahead(q, rows, i) = Rank(Order(q, rows), Listed(q, rows), i)
<1> DEFINE L == Listed(q, rows)
           key(i) == rows[i][q.by]
<1>1. L \subseteq DOMAIN rows /\ L \subseteq Ids
  BY DEF Listed, Rows
<1>2. IsFiniteSet(L) /\ Cardinality(L) \in 0..Cardinality(Ids)
  <2> HIDE DEF L
  <2>1. L \in SUBSET Ids
    BY <1>1
  <2>2. IsFiniteSet(L) /\ Cardinality(L) <= Cardinality(Ids)
    BY <2>1, ConstantFacts, FS_Subset
  <2>3. Cardinality(L) \in Nat /\ Cardinality(Ids) \in Nat
    BY <2>2, ConstantFacts, FS_CardinalityType
  <2> QED
    BY <2>2, <2>3
<1>3. \A i \in L : key(i) \in Nat /\ i \in Nat
  <2> SUFFICES ASSUME NEW i \in L
               PROVE  key(i) \in Nat /\ i \in Nat
    OBVIOUS
  <2>1. rows[i] \in [Columns(q) -> Values] /\ i \in Ids
    BY <1>1 DEF Rows
  <2>2. q.by \in Columns(q)
    BY QueryFacts
  <2> QED
    BY <2>1, <2>2, ConstantFacts
<1>4. \A a, b \in L : <<a, b>> \in Order(q, rows) <=> Before(q, rows, a, b)
  BY DEF Order
<1>5. \A a, b \in L : Before(q, rows, a, b) <=>
          \/ (q.dir = "asc" /\ key(a) < key(b)) \/ (q.dir = "desc" /\ key(a) > key(b))
          \/ (key(a) = key(b) /\ q.tie = "asc" /\ a < b)
          \/ (key(a) = key(b) /\ q.tie = "desc" /\ a > b)
  <2>1. q.dir = "asc" \/ q.dir = "desc"
    BY QueryFacts DEF Directions
  <2> QED
    BY <2>1 DEF Before
<1>6. StrictOrder(Order(q, rows), L)
  <2> HIDE DEF L, key
  <2> QED
    BY <1>3, <1>4, <1>5 DEF StrictOrder
<1>7. ASSUME q.tie # "none"
      PROVE  TotalOn(Order(q, rows), L)
  <2>1. q.tie \in {"asc", "desc"} /\ q.dir \in {"asc", "desc"}
    BY <1>7, QueryFacts DEF Directions
  <2> HIDE DEF L, key
  <2> QED
    BY <1>3, <1>4, <1>5, <2>1 DEF TotalOn
<1>8. ASSUME NEW i \in L
      PROVE  Ahead(q, rows, i) = Rank(Order(q, rows), L, i)
  <2>1. {j \in L : Before(q, rows, j, i)} = Preceding(Order(q, rows), L, i)
    BY <1>4 DEF Preceding
  <2> QED
    BY <2>1 DEF Ahead, Rank
<1> QED
  BY <1>1, <1>2, <1>6, <1>7, <1>8

\* The database returns every listed row once.
LEMMA SortedListed ==
    ASSUME NEW q \in Queries, NEW rows, Rows(q, rows), NEW s \in Sorted(q, rows)
    PROVE  LET L == Listed(q, rows) IN
           /\ s \in [1..Cardinality(L) -> L]
           /\ \A m, n \in 1..Cardinality(L) : m # n => s[m] # s[n]
<1> DEFINE L == Listed(q, rows)
           R == Order(q, rows)
<1>1. /\ IsFiniteSet(L) /\ Cardinality(L) \in Nat /\ StrictOrder(R, L)
      /\ q.tie # "none" => TotalOn(R, L)
      /\ \A i \in L : Ahead(q, rows, i) = Rank(R, L, i)
  BY ListedOrder
<1>2. CASE q.tie = "none"
  BY <1>2 DEF Sorted, SetToSeqs
<1>3. CASE q.tie # "none"
  <2> DEFINE place(n) == CHOOSE i \in L : Ahead(q, rows, i) = n - 1
  <2>1. s = [n \in 1..Cardinality(L) |-> place(n)]
    BY <1>3 DEF Sorted
  <2> HIDE DEF L, R
  <2>2. \A n \in 1..Cardinality(L) : place(n) \in L /\ Ahead(q, rows, place(n)) = n - 1
    <3> SUFFICES ASSUME NEW n \in 1..Cardinality(L)
                 PROVE  place(n) \in L /\ Ahead(q, rows, place(n)) = n - 1
      OBVIOUS
    <3>1. n - 1 \in Nat /\ n - 1 < Cardinality(L)
      BY <1>1
    <3>2. \A k \in Nat : k < Cardinality(L) => \E x \in L : Rank(R, L, x) = k
      BY <1>1, <1>3, RankPlaces
    <3>3. \E i \in L : Rank(R, L, i) = n - 1
      BY <3>1, <3>2
    <3>4. \E i \in L : Ahead(q, rows, i) = n - 1
      BY <3>3, <1>1
    <3> QED
      BY <3>4
  <2> HIDE DEF place
  <2> QED
    BY <1>1, <2>1, <2>2 DEF L
<1> QED
  BY <1>2, <1>3

\* If no two rows are tied, each is returned after as many as come before it.
LEMMA SortedPlaces ==
    ASSUME NEW q \in Queries, NEW rows, Rows(q, rows), NEW s \in Sorted(q, rows),
           TotalOn(Order(q, rows), Listed(q, rows))
    PROVE  LET L == Listed(q, rows) IN
           \A n \in 1..Cardinality(L) : Rank(Order(q, rows), L, s[n]) = n - 1
<1> DEFINE L == Listed(q, rows)
           R == Order(q, rows)
           N == Cardinality(L)
<1>1. /\ IsFiniteSet(L) /\ N \in Nat /\ StrictOrder(R, L)
      /\ \A i \in L : Ahead(q, rows, i) = Rank(R, L, i)
  BY ListedOrder
<1>2. /\ s \in [1..N -> L] /\ \A m, n \in 1..N : m # n => s[m] # s[n]
  BY SortedListed
<1>3. SUFFICES ASSUME NEW n \in 1..N
               PROVE  Rank(R, L, s[n]) = n - 1
  OBVIOUS
<1>4. CASE q.tie # "none"
  <2> DEFINE place(k) == CHOOSE i \in L : Ahead(q, rows, i) = k - 1
  <2>1. s[n] = place(n)
    BY <1>3, <1>4 DEF Sorted
  <2> HIDE DEF L, R, N
  <2>2. n - 1 \in Nat /\ n - 1 < Cardinality(L)
    BY <1>1, <1>3 DEF N
  <2>3. \A k \in Nat : k < Cardinality(L) => \E x \in L : Rank(R, L, x) = k
    BY <1>1, RankPlaces DEF L, R
  <2>4. \E i \in L : Ahead(q, rows, i) = n - 1
    BY <2>2, <2>3, <1>1
  <2> QED
    BY <2>1, <2>4, <1>1
<1>5. CASE q.tie = "none"
  <2>1. \A k, m \in 1..N : k < m => ~Before(q, rows, s[m], s[k])
    BY <1>2, <1>5 DEF Sorted
  <2>2. \A a, b \in L : <<a, b>> \in R <=> Before(q, rows, a, b)
    BY DEF Order
  <2>3. \A a, b \in L : a # b => <<a, b>> \in R \/ <<b, a>> \in R
    BY DEF TotalOn
  <2> DEFINE first == 1..(n - 1)
             P == Preceding(R, L, s[n])
             f == [m \in first |-> s[m]]
  <2> HIDE DEF L, R, N
  <2>4. first \subseteq 1..N
    BY <1>1, <1>3
  <2>5. \A m \in first : s[m] \in P
    <3> SUFFICES ASSUME NEW m \in first
                 PROVE  s[m] \in P
      OBVIOUS
    <3>1. m \in 1..N /\ m < n /\ m # n
      BY <1>1, <1>3, <2>4
    <3>2. s[m] \in L /\ s[n] \in L /\ s[m] # s[n]
      BY <1>2, <1>3, <3>1
    <3>3. <<s[n], s[m]>> \notin R
      BY <2>1, <2>2, <3>1, <3>2
    <3> QED
      BY <2>3, <3>2, <3>3 DEF Preceding
  <2>6. ASSUME NEW y \in P
        PROVE  \E m \in first : s[m] = y
    <3>1. y \in L /\ <<y, s[n]>> \in R /\ s[n] \in L
      BY <1>2, <1>3, <2>6 DEF Preceding
    <3>2. PICK m \in 1..N : s[m] = y
      <4>1. IsFiniteSet(1..N) /\ Cardinality(1..N) = N
        BY <1>1, FS_Interval
      <4>2. s \in Injection(1..N, L)
        BY <1>2 DEF Injection, IsInjective
      <4>3. s \in Surjection(1..N, L)
        BY <1>1, <4>1, <4>2, FS_Injection DEF N
      <4> QED
        BY <3>1, <4>3 DEF Surjection
    <3>3. m # n
      BY <1>1, <3>1, <3>2 DEF StrictOrder
    <3>4. ~(n < m)
      BY <1>3, <2>1, <2>2, <3>1, <3>2
    <3>5. m \in first
      BY <1>1, <1>3, <3>2, <3>3, <3>4
    <3> QED
      BY <3>2, <3>5
  <2>7. f \in Bijection(first, P)
    <3>1. \A k, m \in first : s[k] = s[m] => k = m
      BY <1>2, <2>4
    <3> HIDE DEF first, P
    <3> QED
      BY <2>5, <2>6, <3>1 DEF Bijection, Injection, Surjection, IsInjective
  <2>8. IsFiniteSet(first) /\ Cardinality(first) = n - 1
    BY <1>1, <1>3, FS_Interval
  <2>9. IsFiniteSet(P)
    <3>1. P \in SUBSET L
      BY DEF Preceding
    <3> QED
      BY <1>1, <3>1, FS_Subset
  <2>10. Cardinality(P) = n - 1
    <3> HIDE DEF first, P, f
    <3> QED
      BY <2>7, <2>8, <2>9, FS_Bijection DEF ExistsBijection
  <2> QED
    BY <2>10 DEF Rank
<1> QED
  BY <1>4, <1>5

\* How many of n rows are on the page at an offset.
Fill(n, offset, limit) ==
    IF n <= offset THEN 0 ELSE IF n <= offset + limit THEN n - offset ELSE limit

\* A page holds so many of the rows from its offset on as there are, and no more than its size.
LEMMA PageFacts ==
    ASSUME NEW S, NEW n \in Nat, NEW s \in [1..n -> S], NEW number \in Nat \ {0}, NEW limit \in Nat,
           NEW offset, offset = (number - 1) * limit,
           NEW t, t = PageOf(s, number, limit)
    PROVE  LET m == Fill(n, offset, limit) IN
           /\ offset \in Nat /\ m \in Nat
           /\ t \in [1..m -> S] /\ Len(t) = m
           /\ \A k \in 1..m : offset + k \in 1..n /\ t[k] = s[offset + k]
<1> DEFINE last == Min({offset + limit, Len(s)})
           m == Fill(n, offset, limit)
<1>1. offset \in Nat
  OBVIOUS
<1>2. t = SubSeq(s, offset + 1, last)
  BY DEF PageOf
<1>3. s \in Seq(S) /\ Len(s) = n
  <2>1. s \in Seq(S)
    BY SeqDef
  <2>2. Len(s) \in Nat /\ 1..Len(s) = 1..n
    BY <2>1, LenProperties
  <2> QED
    BY <2>1, <2>2
<1>4. last \in {offset + limit, n} /\ last <= offset + limit /\ last <= n
  <2> DEFINE ends == {offset + limit, Len(s)}
  <2>1. \E x \in ends : \A y \in ends : x <= y
    BY <1>1, <1>3
  <2>2. last \in ends /\ \A y \in ends : last <= y
    BY <2>1 DEF Min
  <2> QED
    BY <1>3, <2>2
<1> HIDE DEF last
<1>5. m \in Nat /\ m = IF offset + 1 <= last THEN last - (offset + 1) + 1 ELSE 0
  BY <1>1, <1>4 DEF Fill
<1>6. \A i \in (offset + 1)..last : s[i] \in S
  BY <1>1, <1>4
<1>7. /\ t \in Seq(S) /\ Len(t) = m
      /\ \A i \in 1..(last - (offset + 1) + 1) : t[i] = s[(offset + 1) + i - 1]
  BY <1>1, <1>2, <1>4, <1>5, <1>6, SubSeqProperties
<1>8. t \in [1..m -> S]
  BY <1>7, LenProperties
<1>9. ASSUME NEW k \in 1..m
      PROVE  offset + k \in 1..n /\ t[k] = s[offset + k]
  BY <1>1, <1>4, <1>5, <1>7
<1> QED
  BY <1>1, <1>5, <1>7, <1>8, <1>9

----------------------------------------------------------------------------
(* The invariant *)

Item == [id : Ids, available : Nat, low : BOOLEAN]

\* The variables have their types; only lists by low stock read the products and the sums.
Typed ==
    /\ query \in Queries /\ size \in PageSizes
    /\ Rows(query, table) /\ fresh \subseteq Ids \ DOMAIN table
    /\ at \in {"fetch", "attach", "count", "sum", "answer", "done"}
    /\ at \in {"attach", "sum"} => ListsLowStock
    /\ page \in Nat \ {0} /\ total \in 0..Cardinality(Ids)
    /\ items \in Seq(Item) /\ Len(items) <= size
    /\ low \in [count : Nat, among : Nat]
    /\ seen \in Seq(Ids) /\ still \subseteq Listed(query, table)
    /\ left \in Nat /\ came \in Nat
    /\ since \in [left : Nat, came : Nat, levels : BOOLEAN]
    /\ ambiguous \in BOOLEAN /\ writes \in 0..MaxWrites

\* The page's rows reach no further than the list, or the count of it, but for those
\* that left since they were read.
Covered ==
    items # <<>> =>
        /\ at \in {"attach", "count"} =>
               (page - 1) * size + Len(items) <= Cardinality(Listed(query, table)) + since.left
        /\ at \in {"sum", "answer"} =>
               (page - 1) * size + Len(items) <= total + since.left

\* The rows of a list by low stock are low as long as no level changes, and are shown as they
\* are by what is attached; the count and the sum differ by what changed since.
Agreeing ==
    ListsLowStock =>
        /\ at = "attach" =>
               \A n \in DOMAIN items :
                   /\ items[n].id \in DOMAIN table
                   /\ \/ since.levels
                      \/ items[n].available <= table[items[n].id]["reorder_level"]
                             <=> query.filter = "low_stock"
        /\ at \in {"count", "sum", "answer"} =>
               since.levels \/ \A n \in DOMAIN items : items[n].low = (query.filter = "low_stock")
        /\ at = "sum" =>
               /\ Cardinality(Listed(query, table)) <= total + since.came
               /\ total <= Cardinality(Listed(query, table)) + since.left
        /\ at = "answer" =>
               /\ low.count = IF query.filter = "low_stock" THEN low.among ELSE 0
               /\ low.among <= total + since.came /\ total <= low.among + since.left

----------------------------------------------------------------------------
(* The steps *)

\* The rows that stay listed with the same key.
Kept(q, old, new) ==
    {i \in Listed(q, old) \cap Listed(q, new) : old[i][q.by] = new[i][q.by]}

\* A row written anew is a row.
LEMMA RewrittenRow ==
    ASSUME NEW row \in [Columns(query) -> Values], NEW columns, columns \subseteq Columns(query),
           NEW new \in [columns -> Values]
    PROVE  Rewritten(row, columns, new) \in [Columns(query) -> Values]
  BY DEF Rewritten

\* Whatever another request commits, rows take the place of rows: ids in use come from
\* the fresh ones, only warehouses are deleted, and users are only added.
LEMMA CommitPuts ==
    ASSUME Typed, Commit
    PROVE  \E rows :
               /\ Put(rows) /\ Rows(query, rows)
               /\ fresh' \subseteq fresh /\ fresh' \cap DOMAIN rows = {}
               /\ DOMAIN rows \ DOMAIN table \subseteq fresh
               /\ query.list # "warehouses" => DOMAIN table \subseteq DOMAIN rows
               /\ query.list = "users" =>
                      DOMAIN table \subseteq DOMAIN rows /\ \A j \in DOMAIN table : rows[j] = table[j]
<1>1. /\ Rows(query, table) /\ fresh \subseteq Ids /\ fresh \cap DOMAIN table = {}
      /\ query \in Queries
  BY DEF Typed
<1>2. CASE InsertRow
  <2>1. PICK i \in fresh, r \in [Columns(query) -> Values] :
            /\ fresh' = fresh \ {i}
            /\ Put([j \in DOMAIN table \cup {i} |-> IF j = i THEN r ELSE table[j]])
    BY <1>2 DEF InsertRow
  <2> DEFINE rows == [j \in DOMAIN table \cup {i} |-> IF j = i THEN r ELSE table[j]]
  <2>2. /\ DOMAIN rows = DOMAIN table \cup {i}
        /\ \A j \in DOMAIN rows : rows[j] = IF j = i THEN r ELSE table[j]
    OBVIOUS
  <2>3. Put(rows)
    BY <2>1
  <2> HIDE DEF rows
  <2> QED
    BY <1>1, <2>1, <2>2, <2>3 DEF Rows
<1>3. CASE InsertMovements
  <2>1. PICK S \in SUBSET fresh : \E new \in [S -> [Columns(query) -> Values]] :
            /\ fresh' = fresh \ S
            /\ Put([k \in DOMAIN table \cup S |-> IF k \in S THEN new[k] ELSE table[k]])
    BY <1>3 DEF InsertMovements
  <2>2. PICK new \in [S -> [Columns(query) -> Values]] :
            /\ fresh' = fresh \ S
            /\ Put([k \in DOMAIN table \cup S |-> IF k \in S THEN new[k] ELSE table[k]])
    BY <2>1
  <2> DEFINE rows == [k \in DOMAIN table \cup S |-> IF k \in S THEN new[k] ELSE table[k]]
  <2>3. /\ DOMAIN rows = DOMAIN table \cup S
        /\ \A k \in DOMAIN rows : rows[k] = IF k \in S THEN new[k] ELSE table[k]
        /\ query.list = "stock-movements"
    BY <1>3 DEF InsertMovements
  <2>4. Put(rows) /\ fresh' = fresh \ S
    BY <2>2
  <2> HIDE DEF rows
  <2> QED
    BY <1>1, <2>2, <2>3, <2>4 DEF Rows
<1>4. CASE ChangeRows
  <2>1. PICK columns \in {together \cap Columns(query) : together \in Together(query.list)},
             S \in SUBSET DOMAIN table :
            \E new \in [S -> [columns -> Values]] :
                Put([i \in DOMAIN table |->
                        IF i \in S THEN Rewritten(table[i], columns, new[i]) ELSE table[i]])
    BY <1>4 DEF ChangeRows
  <2>2. PICK new \in [S -> [columns -> Values]] :
            Put([i \in DOMAIN table |->
                    IF i \in S THEN Rewritten(table[i], columns, new[i]) ELSE table[i]])
    BY <2>1
  <2> DEFINE rows == [i \in DOMAIN table |->
                        IF i \in S THEN Rewritten(table[i], columns, new[i]) ELSE table[i]]
  <2>3. /\ DOMAIN rows = DOMAIN table
        /\ \A i \in DOMAIN rows :
              rows[i] = IF i \in S THEN Rewritten(table[i], columns, new[i]) ELSE table[i]
    OBVIOUS
  <2>4. Put(rows) /\ fresh' = fresh /\ query.list # "users"
    BY <1>4, <2>1, <2>2 DEF ChangeRows, Together
  <2> HIDE DEF rows
  <2>5. \A i \in DOMAIN rows : rows[i] \in [Columns(query) -> Values]
    BY <1>1, <2>3, RewrittenRow DEF Rows
  <2> QED
    BY <1>1, <2>3, <2>4, <2>5 DEF Rows
<1>5. CASE InsertTarget
  <2>1. PICK i \in fresh, r \in [Columns(query) -> Values],
             source \in DOMAIN table, new \in [Moved -> Values] :
            /\ fresh' = fresh \ {i}
            /\ Put([j \in DOMAIN table \cup {i} |->
                      IF j = i THEN r
                      ELSE IF j = source THEN Rewritten(table[j], Moved, new) ELSE table[j]])
    BY <1>5 DEF InsertTarget
  <2> DEFINE rows == [j \in DOMAIN table \cup {i} |->
                        IF j = i THEN r
                        ELSE IF j = source THEN Rewritten(table[j], Moved, new) ELSE table[j]]
  <2>2. /\ DOMAIN rows = DOMAIN table \cup {i}
        /\ \A j \in DOMAIN rows :
              \/ j = i /\ rows[j] = r
              \/ j \in DOMAIN table
                    /\ (rows[j] = table[j] \/ rows[j] = Rewritten(table[j], Moved, new))
    OBVIOUS
  <2>3. Put(rows) /\ query.list = "inventory"
    BY <1>5, <2>1 DEF InsertTarget
  <2> HIDE DEF rows
  <2>4. \A j \in DOMAIN table : Rewritten(table[j], Moved, new) \in [Columns(query) -> Values]
    BY <1>1, RewrittenRow DEF Rows, Moved
  <2>5. \A j \in DOMAIN rows : rows[j] \in [Columns(query) -> Values]
    BY <1>1, <2>2, <2>4 DEF Rows
  <2> QED
    BY <1>1, <2>1, <2>2, <2>3, <2>5 DEF Rows
<1>6. CASE DeleteRow
  <2>1. PICK i \in DOMAIN table : Put([j \in DOMAIN table \ {i} |-> table[j]])
    BY <1>6 DEF DeleteRow
  <2> DEFINE rows == [j \in DOMAIN table \ {i} |-> table[j]]
  <2>2. /\ DOMAIN rows = DOMAIN table \ {i} /\ Put(rows)
        /\ \A j \in DOMAIN rows : rows[j] = table[j]
        /\ query.list = "warehouses" /\ fresh' = fresh
    BY <1>6, <2>1 DEF DeleteRow
  <2> HIDE DEF rows
  <2> QED
    BY <1>1, <2>2 DEF Rows
<1> QED
  BY <1>2, <1>3, <1>4, <1>5, <1>6 DEF Commit

\* Those kept keep their order.
LEMMA RowsChange ==
    ASSUME NEW q \in Queries, NEW old, NEW new, Rows(q, old), Rows(q, new)
    PROVE  /\ Changes(Order(q, old), Listed(q, old), Order(q, new), Listed(q, new), Kept(q, old, new))
           /\ Cardinality(Listed(q, old)) \in Nat /\ Cardinality(Listed(q, new)) \in Nat
           /\ Cardinality(Listed(q, old) \ Kept(q, old, new)) \in Nat
           /\ Cardinality(Listed(q, new) \ Kept(q, old, new)) \in Nat
           /\ Cardinality(Listed(q, old))
                <= Cardinality(Listed(q, new)) + Cardinality(Listed(q, old) \ Kept(q, old, new))
           /\ Cardinality(Listed(q, new))
                <= Cardinality(Listed(q, old)) + Cardinality(Listed(q, new) \ Kept(q, old, new))
<1> DEFINE L == Listed(q, old)
           N == Listed(q, new)
           K == Kept(q, old, new)
<1>1. /\ IsFiniteSet(L) /\ Cardinality(L) \in Nat /\ StrictOrder(Order(q, old), L)
      /\ IsFiniteSet(N) /\ Cardinality(N) \in Nat /\ StrictOrder(Order(q, new), N)
  BY ListedOrder
<1>2. K \subseteq L /\ K \subseteq N /\ \A i \in K : old[i][q.by] = new[i][q.by]
  BY DEF Kept
<1>3. \A a, b \in K : Before(q, old, a, b) <=> Before(q, new, a, b)
  BY <1>2 DEF Before
<1>4. /\ \A a, b \in L : <<a, b>> \in Order(q, old) <=> Before(q, old, a, b)
      /\ \A a, b \in N : <<a, b>> \in Order(q, new) <=> Before(q, new, a, b)
  BY DEF Order
<1> HIDE DEF L, N, K
<1>5. Changes(Order(q, old), L, Order(q, new), N, K)
  BY <1>1, <1>2, <1>3, <1>4 DEF Changes
<1>6. ASSUME NEW A, NEW B, IsFiniteSet(A), IsFiniteSet(B), K \subseteq A, K \subseteq B
      PROVE  Cardinality(A \ K) \in Nat /\ Cardinality(A) <= Cardinality(B) + Cardinality(A \ K)
  <2>1. /\ IsFiniteSet(A \ K) /\ Cardinality(A \ K) = Cardinality(A) - Cardinality(A \cap K)
    BY <1>6, FS_Difference
  <2>2. A \cap K \in SUBSET B
    BY <1>6
  <2>3. IsFiniteSet(A \cap K) /\ Cardinality(A \cap K) <= Cardinality(B)
    BY <1>6, <2>2, FS_Subset
  <2>4. /\ Cardinality(A) \in Nat /\ Cardinality(B) \in Nat /\ Cardinality(A \cap K) \in Nat
        /\ Cardinality(A \ K) \in Nat
    BY <1>6, <2>1, <2>3, FS_CardinalityType
  <2> QED
    BY <2>1, <2>3, <2>4
<1> QED
  BY <1>1, <1>2, <1>5, <1>6 DEF L, N, K

\* The rows of a page, read: those in the places from the page's offset on.
LEMMA FetchFacts ==
    ASSUME Typed, FetchRows
    PROVE  LET L == Listed(query, table)
               offset == (page - 1) * size
           IN  /\ Cardinality(L) \in Nat /\ offset \in Nat
               /\ Len(items') \in Nat /\ Len(items') <= size
               /\ Len(items') > 0 => offset + Len(items') <= Cardinality(L)
               /\ Len(items') < size => Cardinality(L) <= offset + Len(items')
               /\ \E s \in Sorted(query, table) :
                      items' \in [1..Len(items') -> Item] /\
                      \A n \in 1..Len(items') :
                          /\ offset + n \in 1..Cardinality(L)
                          /\ s[offset + n] \in L /\ items'[n].id = s[offset + n]
                          /\ ListsLowStock =>
                                 items'[n].available = table[items'[n].id]["available_quantity"]
<1> DEFINE L == Listed(query, table)
           offset == (page - 1) * size
<1>1. /\ query \in Queries /\ Rows(query, table) /\ page \in Nat \ {0} /\ size \in Nat \ {0}
  BY ConstantFacts DEF Typed
<1>2. PICK s \in Sorted(query, table) :
          LET ids == PageOf(s, page, size) IN
          items' = [n \in DOMAIN ids |->
                      [id |-> ids[n], low |-> FALSE,
                       available |-> IF ListsLowStock THEN table[ids[n]]["available_quantity"] ELSE 0]]
  BY DEF FetchRows
<1> DEFINE ids == PageOf(s, page, size)
           N == Cardinality(L)
           m == Fill(N, offset, size)
<1>3. N \in Nat /\ L \subseteq DOMAIN table /\ L \subseteq Ids
  BY <1>1, ListedOrder
<1>4. s \in [1..N -> L]
  BY <1>1, SortedListed
<1> HIDE DEF L, N
<1>5. /\ offset \in Nat /\ m \in Nat /\ ids \in [1..m -> L] /\ Len(ids) = m
      /\ \A k \in 1..m : offset + k \in 1..N /\ ids[k] = s[offset + k]
  <2>1. size \in Nat
    BY <1>1
  <2> HIDE DEF m
  <2>2. /\ offset \in Nat /\ Fill(N, offset, size) \in Nat
        /\ ids \in [1..Fill(N, offset, size) -> L] /\ Len(ids) = Fill(N, offset, size)
        /\ \A k \in 1..Fill(N, offset, size) : offset + k \in 1..N /\ ids[k] = s[offset + k]
    BY <1>1, <1>3, <1>4, <2>1, PageFacts
  <2> QED
    BY <2>2 DEF m
<1>6. /\ DOMAIN items' = 1..m
      /\ \A n \in 1..m : items'[n] = [id |-> ids[n], low |-> FALSE,
                            available |-> IF ListsLowStock THEN table[ids[n]]["available_quantity"] ELSE 0]
      /\ items' = [n \in 1..m |-> items'[n]]
  <2> HIDE DEF ids, m
  <2> QED
    BY <1>2, <1>5 DEF ids
<1> HIDE DEF ids
<1>7. ASSUME NEW n \in 1..m
      PROVE  /\ items'[n] \in Item
             /\ offset + n \in 1..N /\ s[offset + n] \in L /\ items'[n].id = s[offset + n]
             /\ ListsLowStock => items'[n].available = table[items'[n].id]["available_quantity"]
  <2> HIDE DEF m
  <2>1. ids[n] \in L /\ offset + n \in 1..N /\ ids[n] = s[offset + n]
    BY <1>5
  <2>2. ListsLowStock => table[ids[n]]["available_quantity"] \in Nat
    <3> SUFFICES ASSUME ListsLowStock
                 PROVE  table[ids[n]]["available_quantity"] \in Nat
      OBVIOUS
    <3>1. table[ids[n]] \in [Columns(query) -> Values]
      BY <1>1, <1>3, <2>1 DEF Rows
    <3>2. "available_quantity" \in Columns(query)
      BY <1>1, QueryFacts DEF ListsLowStock
    <3> QED
      BY <3>1, <3>2, ConstantFacts
  <2>3. /\ items'[n].id = ids[n] /\ items'[n].low = FALSE
        /\ items'[n].available = IF ListsLowStock THEN table[ids[n]]["available_quantity"] ELSE 0
        /\ items'[n] = [id |-> ids[n], low |-> FALSE, available |-> items'[n].available]
    BY <1>6
  <2>4. items'[n].available \in Nat
    BY <2>2, <2>3
  <2>5. ids[n] \in Ids
    BY <1>3, <2>1
  <2>6. items'[n] \in Item
    BY <2>3, <2>4, <2>5 DEF Item
  <2> QED
    BY <2>1, <2>3, <2>6
<1>8. items' \in [1..m -> Item]
  BY <1>6, <1>7
<1>9. Len(items') = m
  <2> HIDE DEF m
  <2>1. items' \in Seq(Item)
    BY <1>5, <1>8, SeqDef
  <2>2. Len(items') \in Nat /\ 1..Len(items') = 1..m
    BY <1>6, <2>1, LenProperties
  <2> QED
    BY <1>5, <2>2
<1>10. /\ Len(items') <= size
       /\ Len(items') > 0 => offset + Len(items') <= N
       /\ Len(items') < size => N <= offset + Len(items')
  BY <1>1, <1>3, <1>5, <1>9 DEF Fill
<1> QED
  BY <1>3, <1>5, <1>7, <1>8, <1>9, <1>10 DEF L, N

\* The first page is asked for, and nothing has been read.
LEMMA InitEstablishes == Init => Typed /\ Covered /\ Agreeing
<1> SUFFICES ASSUME Init
             PROVE  Typed /\ Covered /\ Agreeing
  OBVIOUS
<1>1. /\ query \in Queries /\ size \in PageSizes
      /\ table \in [StartIds -> [Columns(query) -> Values]]
      /\ fresh = Ids \ StartIds
      /\ at = "fetch" /\ page = 1
      /\ items = <<>> /\ total = 0 /\ low = [count |-> 0, among |-> 0]
      /\ seen = <<>>
      /\ still = Listed(query, table) /\ left = 0 /\ came = 0 /\ since = Stale
      /\ ambiguous = FALSE /\ writes = 0
  BY DEF Init
<1>2. Rows(query, table) /\ fresh \subseteq Ids \ DOMAIN table
  BY <1>1, ConstantFacts DEF Rows
<1>3. /\ items \in Seq(Item) /\ Len(items) = 0 /\ seen \in Seq(Ids)
  BY <1>1, EmptySeq
<1>4. Cardinality(Ids) \in Nat /\ size \in Nat
  BY <1>1, ConstantFacts, FS_CardinalityType
<1>5. since \in [left : Nat, came : Nat, levels : BOOLEAN] /\ low \in [count : Nat, among : Nat]
  BY <1>1 DEF Stale
<1>6. Typed
  <2>1. page \in Nat \ {0} /\ left \in Nat /\ came \in Nat
    BY <1>1
  <2>5. ambiguous \in BOOLEAN
    BY <1>1, Zenon
  <2>2. total \in 0..Cardinality(Ids) /\ writes \in 0..MaxWrites
    BY <1>1, <1>4, ConstantFacts
  <2>3. Len(items) <= size
    BY <1>3, <1>4
  <2>4. /\ at \in {"fetch", "attach", "count", "sum", "answer", "done"}
        /\ at \in {"attach", "sum"} => ListsLowStock
        /\ still \subseteq Listed(query, table)
    BY <1>1
  <2> QED
    BY <1>1, <1>2, <1>3, <1>5, <2>1, <2>2, <2>3, <2>4, <2>5 DEF Typed
<1>7. Covered /\ Agreeing
  BY <1>1 DEF Covered, Agreeing
<1> QED
  BY <1>6, <1>7

\* A row is low when the filter says so.
LEMMA LowRows ==
    ASSUME NEW q \in Queries, q.filter \in LowStockFilters, NEW rows, NEW i \in Listed(q, rows)
    PROVE  rows[i]["available_quantity"] <= rows[i]["reorder_level"] <=> q.filter = "low_stock"
<1>1. q.filter = "low_stock" \/ q.filter = "not low_stock"
  BY DEF LowStockFilters
<1>2. CASE q.filter = "low_stock"
  <2>1. Fits(q, rows[i]) = LowStockExpression(rows[i])
    BY <1>2 DEF Fits
  <2> QED
    BY <1>2, <2>1 DEF Listed, LowStockExpression
<1>3. CASE q.filter = "not low_stock"
  <2>1. Fits(q, rows[i]) = ~LowStockExpression(rows[i])
    BY <1>3 DEF Fits
  <2> QED
    BY <1>3, <2>1 DEF Listed, LowStockExpression
<1> QED
  BY <1>1, <1>2, <1>3

\* The fetch leaves the table and the notes of the walk alone, and fills the page.
LEMMA FetchPreserves ==
    ASSUME Typed, FetchRows
    PROVE  Typed' /\ Covered' /\ Agreeing'
<1> DEFINE L == Listed(query, table)
           offset == (page - 1) * size
<1>1. /\ at = "fetch" /\ at' = IF ListsLowStock THEN "attach" ELSE "count"
      /\ total' = 0 /\ low' = [count |-> 0, among |-> 0] /\ since' = Stale
      /\ ambiguous' = (ambiguous \/ Cardinality(Sorted(query, table)) > 1)
      /\ UNCHANGED unread
  BY DEF FetchRows
<1>2. /\ Cardinality(L) \in Nat /\ offset \in Nat
      /\ Len(items') \in Nat /\ Len(items') <= size
      /\ Len(items') > 0 => offset + Len(items') <= Cardinality(L)
  BY FetchFacts
<1>3. /\ items' \in [1..Len(items') -> Item]
      /\ \A n \in 1..Len(items') :
            /\ items'[n].id \in L
            /\ ListsLowStock => items'[n].available = table[items'[n].id]["available_quantity"]
  BY FetchFacts
<1>4. items' \in Seq(Item) /\ (items' # <<>> => Len(items') > 0) /\ DOMAIN items' = 1..Len(items')
  <2>1. items' \in Seq(Item)
    BY <1>2, <1>3, SeqDef
  <2> QED
    BY <1>2, <1>3, <2>1, EmptySeq
<1>5. UNCHANGED <<query, size, table, fresh, page, seen, still, left, came, writes>>
      /\ ListsLowStock' = ListsLowStock /\ Listed(query, table)' = L
  BY <1>1 DEF unread, ListsLowStock
<1>6. Typed'
  <2>1. ambiguous' \in BOOLEAN
    BY <1>1, Zenon
  <2>2. total' \in 0..Cardinality(Ids)
    BY <1>1, ConstantFacts, FS_CardinalityType
  <2>3. low' \in [count : Nat, among : Nat] /\ since' \in [left : Nat, came : Nat, levels : BOOLEAN]
    BY <1>1 DEF Stale
  <2>4. /\ at' \in {"fetch", "attach", "count", "sum", "answer", "done"}
        /\ at' \in {"attach", "sum"} => ListsLowStock'
    BY <1>1, <1>5
  <2>5. Rows(query, table)'
    BY <1>5 DEF Typed
  <2> QED
    BY <1>2, <1>4, <1>5, <2>1, <2>2, <2>3, <2>4, <2>5 DEF Typed
<1>7. Covered'
  <2>1. at' \in {"attach", "count"} /\ since'.left = 0
    BY <1>1 DEF Stale
  <2> HIDE DEF L
  <2>2. items' # <<>> => (page' - 1) * size' + Len(items') <= Cardinality(L) + since'.left
    BY <1>2, <1>4, <1>5, <2>1
  <2> QED
    BY <1>5, <2>1, <2>2 DEF Covered
<1>8. Agreeing'
  <2> SUFFICES ASSUME ListsLowStock
               PROVE  \A n \in DOMAIN items' :
                         /\ items'[n].id \in DOMAIN table
                         /\ items'[n].available <= table[items'[n].id]["reorder_level"]
                                   <=> query.filter = "low_stock"
    BY <1>1, <1>5 DEF Agreeing
  <2> SUFFICES ASSUME NEW n \in 1..Len(items')
               PROVE  /\ items'[n].id \in DOMAIN table
                      /\ items'[n].available <= table[items'[n].id]["reorder_level"]
                                <=> query.filter = "low_stock"
    BY <1>4
  <2>1. items'[n].id \in L /\ items'[n].available = table[items'[n].id]["available_quantity"]
    BY <1>3
  <2>2. query \in Queries /\ query.filter \in LowStockFilters /\ Rows(query, table)
    BY DEF Typed, ListsLowStock
  <2>3. L \subseteq DOMAIN table
    BY <2>2, ListedOrder
  <2> QED
    BY <2>1, <2>2, <2>3, LowRows
<1> QED
  BY <1>6, <1>7, <1>8

\* What is attached is compared with the page's rows, which stay.
LEMMA AttachPreserves ==
    ASSUME Typed, Covered, Agreeing, AttachProducts
    PROVE  /\ Typed' /\ Covered' /\ Agreeing'
           /\ Len(items') = Len(items)
           /\ \A n \in 1..Len(items) : items'[n].id = items[n].id
<1>1. /\ at = "attach" /\ at' = "count"
      /\ items' = [n \in DOMAIN items |->
                    [id |-> items[n].id, available |-> items[n].available,
                     low |-> IsLowStock(items[n].available, table[items[n].id]["reorder_level"])]]
      /\ UNCHANGED <<total, low, since, ambiguous, unread>>
  BY DEF AttachProducts
<1>2. UNCHANGED <<query, size, table, fresh, page, seen, still, left, came, writes>>
      /\ ListsLowStock' = ListsLowStock /\ Listed(query, table)' = Listed(query, table)
  BY <1>1 DEF unread, ListsLowStock
<1>3. /\ items \in Seq(Item) /\ Len(items) \in Nat /\ DOMAIN items = 1..Len(items)
      /\ \A n \in 1..Len(items) : items[n] \in Item
  BY LenProperties DEF Typed
<1>4. \A n \in 1..Len(items) :
          /\ items'[n].id = items[n].id
          /\ items'[n].low = (items[n].available <= table[items[n].id]["reorder_level"])
          /\ items'[n] \in Item
  <2> SUFFICES ASSUME NEW n \in 1..Len(items)
               PROVE  /\ items'[n].id = items[n].id
                      /\ items'[n].low = (items[n].available <= table[items[n].id]["reorder_level"])
                      /\ items'[n] \in Item
    OBVIOUS
  <2> DEFINE lows == items[n].available <= table[items[n].id]["reorder_level"]
  <2>1. items'[n] = [id |-> items[n].id, available |-> items[n].available, low |-> lows]
    BY <1>1, <1>3 DEF IsLowStock
  <2>2. lows \in BOOLEAN
    OBVIOUS
  <2> HIDE DEF lows
  <2>3. items[n].id \in Ids /\ items[n].available \in Nat
    BY <1>3 DEF Item
  <2>4. items'[n] \in Item /\ items'[n].id = items[n].id /\ items'[n].low = lows
    BY <2>1, <2>2, <2>3 DEF Item
  <2> QED
    BY <2>4 DEF lows
<1>5. items' \in Seq(Item) /\ Len(items') = Len(items) /\ DOMAIN items' = 1..Len(items)
  <2>1. DOMAIN items' = 1..Len(items) /\ items' = [n \in 1..Len(items) |-> items'[n]]
    BY <1>1, <1>3
  <2>2. items' \in [1..Len(items) -> Item]
    BY <1>4, <2>1
  <2>3. items' \in Seq(Item)
    BY <1>3, <2>2, SeqDef
  <2>4. Len(items') \in Nat /\ 1..Len(items') = 1..Len(items)
    BY <2>1, <2>3, LenProperties
  <2> QED
    BY <1>3, <2>1, <2>3, <2>4
<1>6. Typed'
  <2>1. Rows(query, table)' /\ ambiguous' \in BOOLEAN
    BY <1>1, <1>2 DEF Typed
  <2> QED
    BY <1>1, <1>2, <1>5, <2>1 DEF Typed
<1>7. Covered'
  <2>1. items' # <<>> => items # <<>>
    BY <1>3, <1>5, EmptySeq
  <2> QED
    BY <1>1, <1>2, <1>5, <2>1 DEF Covered
<1>8. Agreeing'
  <2>1. /\ ListsLowStock
        /\ \A n \in 1..Len(items) :
               \/ since.levels
               \/ items[n].available <= table[items[n].id]["reorder_level"]
                      <=> query.filter = "low_stock"
    BY <1>1, <1>3 DEF Agreeing, Typed
  <2>2. since' = since /\ query' = query
    BY <1>1, <1>2
  <2>3. since'.levels \/ \A n \in DOMAIN items' : items'[n].low = (query'.filter = "low_stock")
    BY <1>4, <1>5, <2>1, <2>2
  <2> QED
    BY <1>1, <2>3 DEF Agreeing
<1> QED
  BY <1>4, <1>5, <1>6, <1>7, <1>8

\* The count is what is listed, and no row has come or left between the two.
LEMMA CountPreserves ==
    ASSUME Typed, Covered, Agreeing, CountRows
    PROVE  Typed' /\ Covered' /\ Agreeing'
<1>1. /\ at = "count" /\ at' = IF ListsLowStock THEN "sum" ELSE "answer"
      /\ total' = Cardinality(Listed(query, table))
      /\ UNCHANGED <<items, low, since, ambiguous, unread>>
  BY DEF CountRows
<1>2. UNCHANGED <<query, size, table, fresh, page, seen, still, left, came, writes>>
      /\ ListsLowStock' = ListsLowStock /\ Listed(query, table)' = Listed(query, table)
  BY <1>1 DEF unread, ListsLowStock
<1>3. total' \in 0..Cardinality(Ids) /\ total' \in Nat
  <2>1. Cardinality(Listed(query, table)) \in 0..Cardinality(Ids)
    BY ListedOrder DEF Typed
  <2> QED
    BY <1>1, <2>1
<1>4. Typed'
  <2>1. Rows(query, table)' /\ ambiguous' \in BOOLEAN
    BY <1>1, <1>2 DEF Typed
  <2>2. /\ at' \in {"fetch", "attach", "count", "sum", "answer", "done"}
        /\ at' \in {"attach", "sum"} => ListsLowStock'
    BY <1>1, <1>2
  <2> QED
    BY <1>1, <1>2, <1>3, <2>1, <2>2 DEF Typed
<1>5. Covered'
  BY <1>1, <1>2 DEF Covered
<1>6. Agreeing'
  <2>1. since.came \in Nat /\ since.left \in Nat
    BY DEF Typed
  <2>2. ListsLowStock =>
            since.levels \/ \A n \in DOMAIN items : items[n].low = (query.filter = "low_stock")
    BY <1>1 DEF Agreeing
  <2>3. total' <= total' + since.came /\ total' <= total' + since.left
    BY <1>3, <2>1
  <2> QED
    BY <1>1, <1>2, <2>2, <2>3 DEF Agreeing
<1> QED
  BY <1>4, <1>5, <1>6

\* The summary counts all rows of a list of what is low, and none of what is not.
LEMMA SumUpPreserves ==
    ASSUME Typed, Covered, Agreeing, SumUp
    PROVE  Typed' /\ Covered' /\ Agreeing'
<1> DEFINE L == Listed(query, table)
<1>1. /\ at = "sum" /\ at' = "answer"
      /\ low' = [count |-> LowStockCount(query, table), among |-> Cardinality(L)]
      /\ UNCHANGED <<items, total, since, ambiguous, unread>>
  BY DEF SumUp
<1>2. UNCHANGED <<query, size, table, fresh, page, seen, still, left, came, writes>>
      /\ ListsLowStock' = ListsLowStock /\ Listed(query, table)' = L
  BY <1>1 DEF unread, ListsLowStock
<1>3. query \in Queries /\ query.filter \in LowStockFilters /\ ListsLowStock
  BY <1>1 DEF Typed, ListsLowStock
<1>4. LowStockCount(query, table) = IF query.filter = "low_stock" THEN Cardinality(L) ELSE 0
  <2>1. \A i \in L : table[i]["available_quantity"] <= table[i]["reorder_level"]
                         <=> query.filter = "low_stock"
    BY <1>3, LowRows
  <2> DEFINE lows == {i \in L : table[i]["available_quantity"] <= table[i]["reorder_level"]}
  <2>2. CASE query.filter = "low_stock"
    <3>1. lows = L
      BY <2>1, <2>2
    <3> QED
      BY <2>2, <3>1 DEF LowStockCount
  <2>3. CASE query.filter # "low_stock"
    <3>1. lows = {}
      BY <2>1, <2>3
    <3> QED
      BY <2>3, <3>1, FS_EmptySet DEF LowStockCount
  <2> QED
    BY <2>2, <2>3
<1>5. Cardinality(L) \in Nat
  <2>1. Cardinality(L) \in 0..Cardinality(Ids)
    BY ListedOrder DEF Typed
  <2> QED
    BY <2>1, ConstantFacts, FS_CardinalityType
<1> HIDE DEF L
<1>6. low'.count \in Nat /\ low'.among \in Nat /\ low' \in [count : Nat, among : Nat]
  BY <1>1, <1>4, <1>5
<1>7. Typed'
  <2>1. Rows(query, table)' /\ ambiguous' \in BOOLEAN /\ (still \subseteq Listed(query, table))'
    BY <1>1, <1>2 DEF Typed, L
  <2> QED
    BY <1>1, <1>2, <1>6, <2>1 DEF Typed
<1>8. Covered'
  BY <1>1, <1>2 DEF Covered
<1>9. Agreeing'
  <2>1. /\ since.levels \/ \A n \in DOMAIN items : items[n].low = (query.filter = "low_stock")
        /\ Cardinality(L) <= total + since.came /\ total <= Cardinality(L) + since.left
    BY <1>1, <1>3 DEF Agreeing, L
  <2>2. low'.among = Cardinality(L)
        /\ low'.count = IF query.filter = "low_stock" THEN low'.among ELSE 0
    BY <1>1, <1>4
  <2> QED
    BY <1>1, <1>2, <2>1, <2>2 DEF Agreeing
<1> QED
  BY <1>7, <1>8, <1>9

\* The page is done with; the next one has not been read.
LEMMA TurnPagePreserves ==
    ASSUME Typed, TurnPage
    PROVE  Typed' /\ Covered' /\ Agreeing'
<1>1. /\ at = "answer" /\ at' \in {"fetch", "done"}
      /\ page' \in {page, page + 1}
      /\ seen' = seen \o [n \in DOMAIN items |-> items[n].id]
      /\ UNCHANGED <<query, size, table, fresh, items, total, low,
                     still, left, came, since, ambiguous, writes>>
  BY DEF TurnPage
<1>2. [n \in DOMAIN items |-> items[n].id] \in Seq(Ids)
  <2>1. /\ Len(items) \in Nat /\ DOMAIN items = 1..Len(items)
        /\ \A n \in 1..Len(items) : items[n].id \in Ids
    <3>1. /\ items \in Seq(Item) /\ Len(items) \in Nat /\ DOMAIN items = 1..Len(items)
          /\ \A n \in 1..Len(items) : items[n] \in Item
      BY LenProperties DEF Typed
    <3> QED
      BY <3>1 DEF Item
  <2>2. [n \in 1..Len(items) |-> items[n].id] \in [1..Len(items) -> Ids]
    BY <2>1
  <2> QED
    BY <2>1, <2>2, SeqDef
<1>3. seen' \in Seq(Ids)
  BY <1>1, <1>2, ConcatProperties DEF Typed
<1>4. Typed'
  <2>1. Rows(query, table)' /\ ambiguous' \in BOOLEAN /\ page' \in Nat \ {0}
    BY <1>1 DEF Typed
  <2> QED
    BY <1>1, <1>3, <2>1 DEF Typed
<1>5. Covered' /\ Agreeing'
  BY <1>1 DEF Covered, Agreeing
<1> QED
  BY <1>4, <1>5

\* What a commit does to the table and to the notes of the walk.
LEMMA PutFacts ==
    ASSUME Typed, NEW rows, Put(rows), Rows(query, rows)
    PROVE  LET L == Listed(query, table)
               N == Listed(query, rows)
               K == Kept(query, table, rows)
           IN  /\ at # "done" /\ table' = rows
               /\ UNCHANGED <<query, size, at, page, items, total, low, seen, ambiguous>>
               /\ ListsLowStock' = ListsLowStock /\ Listed(query, table)' = N
               /\ still' = still \cap K
               /\ left' = left + Cardinality(L \ K) /\ came' = came + Cardinality(N \ K)
               /\ since'.left = since.left + Cardinality(L \ K)
               /\ since'.came = since.came + Cardinality(N \ K)
               /\ ~since'.levels =>
                      /\ ~since.levels
                      /\ ListsLowStock => \A i \in DOMAIN table \cap DOMAIN rows :
                                             table[i]["reorder_level"] = rows[i]["reorder_level"]
               /\ writes' = writes + 1 /\ writes < MaxWrites
               /\ since' \in [left : Nat, came : Nat, levels : BOOLEAN]
               /\ left' \in Nat /\ came' \in Nat
<1> DEFINE L == Listed(query, table)
           N == Listed(query, rows)
           K == Kept(query, table, rows)
           relevelled == ListsLowStock /\ \E i \in DOMAIN table \cap DOMAIN rows :
                                            table[i]["reorder_level"] # rows[i]["reorder_level"]
<1>1. /\ at # "done" /\ table' = rows
      /\ UNCHANGED <<query, size, at, page, items, total, low, seen, ambiguous>>
      /\ still' = still \cap K
      /\ left' = left + Cardinality(L \ K) /\ came' = came + Cardinality(N \ K)
      /\ writes' = writes + 1 /\ writes < MaxWrites
  BY DEF Put, Kept
<1>2. since' = [left |-> since.left + Cardinality(L \ K), came |-> since.came + Cardinality(N \ K),
                levels |-> since.levels \/ relevelled]
  BY DEF Put, Kept
<1>3. (since.levels \/ relevelled) \in BOOLEAN
  BY Zenon
<1>4. ListsLowStock' = ListsLowStock /\ Listed(query, table)' = N
  BY <1>1 DEF ListsLowStock
<1>5. /\ left \in Nat /\ came \in Nat /\ since.left \in Nat /\ since.came \in Nat
      /\ Cardinality(L \ K) \in Nat /\ Cardinality(N \ K) \in Nat
  BY RowsChange DEF Typed
<1> HIDE DEF L, N, K, relevelled
<1>6. /\ since'.left = since.left + Cardinality(L \ K)
      /\ since'.came = since.came + Cardinality(N \ K)
      /\ since'.levels = (since.levels \/ relevelled)
      /\ since' \in [left : Nat, came : Nat, levels : BOOLEAN]
  BY <1>2, <1>3, <1>5
<1>7. left' \in Nat /\ came' \in Nat
  BY <1>1, <1>5
<1> QED
  BY <1>1, <1>4, <1>6, <1>7 DEF L, N, K, relevelled

\* A commit moves what is listed by what came and left, and a page's rows stay low unless a
\* level changes.
LEMMA CommitPreserves ==
    ASSUME Typed, Covered, Agreeing, Commit
    PROVE  Typed' /\ Covered' /\ Agreeing'
<1>1. PICK rows :
          /\ Put(rows) /\ Rows(query, rows)
          /\ fresh' \subseteq fresh /\ fresh' \cap DOMAIN rows = {}
          /\ query.list # "warehouses" => DOMAIN table \subseteq DOMAIN rows
  BY CommitPuts
<1> DEFINE L == Listed(query, table)
           N == Listed(query, rows)
           K == Kept(query, table, rows)
<1>2. /\ at # "done" /\ table' = rows
      /\ UNCHANGED <<query, size, at, page, items, total, low, seen, ambiguous>>
      /\ ListsLowStock' = ListsLowStock /\ Listed(query, table)' = N
      /\ still' = still \cap K
      /\ since'.left = since.left + Cardinality(L \ K)
      /\ since'.came = since.came + Cardinality(N \ K)
      /\ ~since'.levels =>
             /\ ~since.levels
             /\ ListsLowStock => \A i \in DOMAIN table \cap DOMAIN rows :
                                    table[i]["reorder_level"] = rows[i]["reorder_level"]
      /\ writes' = writes + 1 /\ writes < MaxWrites
      /\ since' \in [left : Nat, came : Nat, levels : BOOLEAN]
      /\ left' \in Nat /\ came' \in Nat
  BY <1>1, PutFacts
<1>3. /\ query \in Queries /\ Rows(query, table) /\ fresh \subseteq Ids
      /\ since.left \in Nat /\ since.came \in Nat /\ total \in Nat
      /\ writes \in 0..MaxWrites /\ page \in Nat \ {0} /\ size \in Nat \ {0}
      /\ still \subseteq L
  BY ConstantFacts, FS_CardinalityType DEF Typed
<1>4. /\ Cardinality(L) \in Nat /\ Cardinality(N) \in Nat
      /\ Cardinality(L \ K) \in Nat /\ Cardinality(N \ K) \in Nat
      /\ Cardinality(L) <= Cardinality(N) + Cardinality(L \ K)
      /\ Cardinality(N) <= Cardinality(L) + Cardinality(N \ K)
  BY <1>1, <1>3, RowsChange
<1>5. K \subseteq N
  BY DEF Kept
<1> HIDE DEF L, N, K
<1>6. Typed'
  <2>1. Rows(query, table)' /\ ambiguous' \in BOOLEAN
    BY <1>1, <1>2 DEF Typed
  <2>2. writes' \in 0..MaxWrites
    BY <1>2, <1>3, ConstantFacts
  <2>3. fresh' \subseteq Ids \ DOMAIN table'
    BY <1>1, <1>2, <1>3
  <2>4. (still \subseteq Listed(query, table))'
    BY <1>2, <1>5
  <2>5. /\ query' \in Queries /\ size' \in PageSizes
        /\ at' \in {"fetch", "attach", "count", "sum", "answer", "done"}
        /\ at' \in {"attach", "sum"} => ListsLowStock'
        /\ page' \in Nat \ {0} /\ total' \in 0..Cardinality(Ids)
        /\ items' \in Seq(Item) /\ Len(items') <= size'
        /\ low' \in [count : Nat, among : Nat]
        /\ seen' \in Seq(Ids)
    BY <1>2 DEF Typed
  <2> QED
    BY <1>2, <2>1, <2>2, <2>3, <2>4, <2>5 DEF Typed
<1>7. Covered'
  <2> SUFFICES ASSUME items # <<>>
               PROVE  /\ at \in {"attach", "count"} =>
                             (page - 1) * size + Len(items) <= Cardinality(N) + since'.left
                      /\ at \in {"sum", "answer"} =>
                             (page - 1) * size + Len(items) <= total + since'.left
    BY <1>2 DEF Covered
  <2>1. /\ at \in {"attach", "count"} =>
               (page - 1) * size + Len(items) <= Cardinality(L) + since.left
        /\ at \in {"sum", "answer"} =>
               (page - 1) * size + Len(items) <= total + since.left
    BY DEF Covered, L
  <2>2. (page - 1) * size \in Nat /\ Len(items) \in Nat
    BY <1>3, LenProperties DEF Typed
  <2> DEFINE reach == (page - 1) * size + Len(items)
  <2>3. reach \in Nat
    BY <2>2
  <2> HIDE DEF reach
  <2>4. at \in {"attach", "count"} => reach <= Cardinality(N) + since'.left
    <3>1. at \in {"attach", "count"} => reach <= Cardinality(L) + since.left
      BY <2>1 DEF reach
    <3> QED
      BY <1>2, <1>3, <1>4, <2>3, <3>1
  <2>5. at \in {"sum", "answer"} => reach <= total + since'.left
    BY <1>2, <1>3, <1>4, <2>1, <2>3 DEF reach
  <2> QED
    BY <2>4, <2>5 DEF reach
<1>8. Agreeing'
  <2> SUFFICES ASSUME ListsLowStock
               PROVE  Agreeing'
    BY <1>2 DEF Agreeing
  <2>1. DOMAIN table \subseteq DOMAIN rows
    BY <1>1, <1>3, QueryFacts DEF ListsLowStock
  <2>2. at = "attach" =>
            \A n \in DOMAIN items :
                /\ items[n].id \in DOMAIN rows
                /\ \/ since'.levels
                   \/ items[n].available <= rows[items[n].id]["reorder_level"]
                          <=> query.filter = "low_stock"
    <3> SUFFICES ASSUME at = "attach", NEW n \in DOMAIN items
                 PROVE  /\ items[n].id \in DOMAIN rows
                        /\ \/ since'.levels
                           \/ items[n].available <= rows[items[n].id]["reorder_level"]
                                  <=> query.filter = "low_stock"
      OBVIOUS
    <3>1. /\ items[n].id \in DOMAIN table
          /\ \/ since.levels
             \/ items[n].available <= table[items[n].id]["reorder_level"]
                    <=> query.filter = "low_stock"
      BY DEF Agreeing
    <3>2. ~since'.levels =>
              ~since.levels
              /\ table[items[n].id]["reorder_level"] = rows[items[n].id]["reorder_level"]
      BY <1>2, <2>1, <3>1
    <3> QED
      BY <2>1, <3>1, <3>2
  <2>3. at \in {"count", "sum", "answer"} =>
            since'.levels \/ \A n \in DOMAIN items : items[n].low = (query.filter = "low_stock")
    BY <1>2 DEF Agreeing
  <2>4. at = "sum" => /\ Cardinality(N) <= total + since'.came
                      /\ total <= Cardinality(N) + since'.left
    <3>1. at = "sum" => /\ Cardinality(L) <= total + since.came
                        /\ total <= Cardinality(L) + since.left
      BY DEF Agreeing, L
    <3> QED
      BY <1>2, <1>3, <1>4, <3>1
  <2>5. at = "answer" =>
            /\ low.count = IF query.filter = "low_stock" THEN low.among ELSE 0
            /\ low.among <= total + since'.came /\ total <= low.among + since'.left
    <3>1. at = "answer" =>
            /\ low.count = IF query.filter = "low_stock" THEN low.among ELSE 0
            /\ low.among <= total + since.came /\ total <= low.among + since.left
      BY DEF Agreeing
    <3>2. low.among \in Nat
      BY DEF Typed
    <3> QED
      BY <1>2, <1>3, <1>4, <3>1, <3>2
  <2> QED
    BY <1>2, <2>2, <2>3, <2>4, <2>5 DEF Agreeing
<1> QED
  BY <1>6, <1>7, <1>8

\* A step that changes nothing keeps all of it.
LEMMA StutterPreserves ==
    ASSUME Typed, Covered, Agreeing, UNCHANGED vars
    PROVE  Typed' /\ Covered' /\ Agreeing'
<1>1. /\ UNCHANGED <<query, size, table, fresh, at, page, items, total, low, seen, still,
                     left, came, since, ambiguous, writes>>
      /\ ListsLowStock' = ListsLowStock /\ Listed(query, table)' = Listed(query, table)
  BY DEF vars, ListsLowStock
<1>2. Rows(query, table)' /\ ambiguous' \in BOOLEAN
  BY <1>1 DEF Typed
<1>3. Typed'
  BY <1>1, <1>2 DEF Typed
<1>4. Covered' /\ Agreeing'
  BY <1>1 DEF Covered, Agreeing
<1> QED
  BY <1>3, <1>4

----------------------------------------------------------------------------
(* A walk through all the pages *)

\* There are finitely many functions from one finite set to another.
LEMMA FunctionsFinite ==
    ASSUME NEW D, IsFiniteSet(D), NEW S, IsFiniteSet(S)
    PROVE  IsFiniteSet([D -> S])
<1> DEFINE F == [D -> S]
           graph(f) == {<<k, f[k]>> : k \in D}
           g == [f \in F |-> graph(f)]
           T == SUBSET (D \X S)
<1>1. IsFiniteSet(T)
  BY FS_Product, FS_SUBSET
<1>2. \A f \in F : graph(f) \in T
  OBVIOUS
<1>3. ASSUME NEW f \in F, NEW h \in F, graph(f) = graph(h)
      PROVE  f = h
  <2>1. \A k \in D : f[k] = h[k]
    <3> SUFFICES ASSUME NEW k \in D
                 PROVE  f[k] = h[k]
      OBVIOUS
    <3>1. <<k, f[k]>> \in graph(f)
      OBVIOUS
    <3>2. PICK j \in D : <<k, f[k]>> = <<j, h[j]>>
      BY <1>3, <3>1
    <3> QED
      BY <3>2
  <2> QED
    BY <2>1
<1> HIDE DEF graph, F, T
<1>4. g \in Injection(F, T)
  BY <1>2, <1>3 DEF Injection, IsInjective
<1> HIDE DEF g
<1>5. IsFiniteSet(F)
  BY <1>1, <1>4, FS_Injection
<1> QED
  BY <1>5 DEF F

\* A list without a tie-breaker has one order only if no keys are equal.
LEMMA OneOrderIsTotal ==
    ASSUME NEW q \in Queries, NEW rows, Rows(q, rows), q.tie = "none",
           NEW s \in Sorted(q, rows), ~(Cardinality(Sorted(q, rows)) > 1)
    PROVE  TotalOn(Order(q, rows), Listed(q, rows))
<1> DEFINE L == Listed(q, rows)
           N == Cardinality(L)
           key(i) == rows[i][q.by]
<1>1. L \subseteq DOMAIN rows /\ IsFiniteSet(L) /\ N \in Nat
  BY ListedOrder
<1>2. s \in [1..N -> L] /\ \A m, n \in 1..N : m # n => s[m] # s[n]
  BY SortedListed
<1>3. \A i \in L : key(i) \in Nat
  <2> SUFFICES ASSUME NEW i \in L
               PROVE  key(i) \in Nat
    OBVIOUS
  <2>1. rows[i] \in [Columns(q) -> Values]
    BY <1>1 DEF Rows
  <2>2. q.by \in Columns(q)
    BY QueryFacts
  <2> QED
    BY <2>1, <2>2, ConstantFacts
<1>4. \A a, b \in L : Before(q, rows, a, b) <=>
                          IF q.dir = "asc" THEN key(a) < key(b) ELSE key(a) > key(b)
  BY DEF Before
<1>5. /\ \A a, b \in L : <<a, b>> \in Order(q, rows) <=> Before(q, rows, a, b)
      /\ Sorted(q, rows) = {f \in [1..N -> L] :
             /\ \A m, n \in 1..N : m # n => f[m] # f[n]
             /\ \A m, n \in DOMAIN f : m < n => ~Before(q, rows, f[n], f[m])}
  <2>1. SetToSeqs(L) = {f \in [1..N -> L] : \A m, n \in 1..N : m # n => f[m] # f[n]}
    BY DEF SetToSeqs
  <2>2. Sorted(q, rows) =
            {f \in SetToSeqs(L) : \A m, n \in DOMAIN f : m < n => ~Before(q, rows, f[n], f[m])}
    BY DEF Sorted
  <2> HIDE DEF L, N
  <2>3. \A a, b \in L : <<a, b>> \in Order(q, rows) <=> Before(q, rows, a, b)
    BY DEF Order, L
  <2> QED
    BY <2>1, <2>2, <2>3
<1> HIDE DEF L, N, key
<1>6. SUFFICES ASSUME NEW x \in L, NEW y \in L, x # y,
                      ~(<<x, y>> \in Order(q, rows)), ~(<<y, x>> \in Order(q, rows))
               PROVE  FALSE
  BY DEF TotalOn, L
<1>7. key(x) = key(y)
  BY <1>3, <1>4, <1>5, <1>6
<1>8. PICK a \in 1..N, b \in 1..N : s[a] = x /\ s[b] = y
  <2>1. IsFiniteSet(1..N) /\ Cardinality(1..N) = N
    BY <1>1, FS_Interval
  <2>2. s \in Injection(1..N, L)
    BY <1>2 DEF Injection, IsInjective
  <2>3. s \in Surjection(1..N, L)
    BY <1>1, <2>1, <2>2, FS_Injection DEF N
  <2> QED
    BY <1>6, <2>3 DEF Surjection
<1> DEFINE t == [n \in 1..N |-> IF n = a THEN y ELSE IF n = b THEN x ELSE s[n]]
<1>9. /\ t \in [1..N -> L] /\ DOMAIN t = 1..N
      /\ \A n \in 1..N : t[n] = IF n = a THEN y ELSE IF n = b THEN x ELSE s[n]
  BY <1>2, <1>6
<1> HIDE DEF t
<1>10. \A m, n \in 1..N : m # n => t[m] # t[n]
  BY <1>2, <1>6, <1>8, <1>9
<1>11. \A n \in 1..N : key(t[n]) = key(s[n])
  BY <1>7, <1>8, <1>9
<1>12. \A m, n \in 1..N : m < n => ~Before(q, rows, t[n], t[m])
  <2> SUFFICES ASSUME NEW m \in 1..N, NEW n \in 1..N, m < n
               PROVE  ~Before(q, rows, t[n], t[m])
    OBVIOUS
  <2>1. ~Before(q, rows, s[n], s[m])
    BY <1>2, <1>5
  <2>2. s[n] \in L /\ s[m] \in L /\ t[n] \in L /\ t[m] \in L
    BY <1>2, <1>9
  <2> QED
    BY <1>4, <1>11, <2>1, <2>2
<1>13. t \in Sorted(q, rows)
  BY <1>5, <1>9, <1>10, <1>12
<1>14. t # s
  BY <1>6, <1>8, <1>9
<1>15. IsFiniteSet(Sorted(q, rows))
  <2>1. IsFiniteSet([1..N -> L])
    <3>1. IsFiniteSet(1..N)
      BY <1>1, FS_Interval
    <3> QED
      BY <1>1, <3>1, FunctionsFinite
  <2>2. Sorted(q, rows) \in SUBSET [1..N -> L]
    BY <1>5
  <2> QED
    BY <2>1, <2>2, FS_Subset
<1>16. {s} \in SUBSET Sorted(q, rows) /\ {s} # Sorted(q, rows)
  BY <1>13, <1>14
<1>17. Cardinality({s}) = 1
  BY FS_Singleton
<1>18. /\ Cardinality({s}) <= Cardinality(Sorted(q, rows))
       /\ Cardinality({s}) # Cardinality(Sorted(q, rows))
       /\ Cardinality(Sorted(q, rows)) \in Nat
  BY <1>15, <1>16, FS_Subset, FS_CardinalityType
<1> QED
  BY <1>17, <1>18

\* The ids of the rows shown so far, those of the page under way included.
PageIds == [n \in DOMAIN items |-> items[n].id]

Shown == IF at \in {"fetch", "done"} THEN seen ELSE seen \o PageIds

\* How many places of the list the pages read so far hold.
Walked == IF at = "fetch" THEN (page - 1) * size ELSE page * size

Place(i) == Rank(Order(query, table), Listed(query, table), i)

\* Rows that stayed, in the places walked, that have not been shown; and rows shown that are
\* in the places still to be walked.
PassedOver == {i \in still \ Range(Shown) : Place(i) < Walked}

ToRepeat == {i \in Listed(query, table) \cap Range(Shown) : Walked <= Place(i)}

\* Every state of a list that a page was read from left no ties open.
Certain == query.list = "users" => ~ambiguous

\* What is shown is no fresh id; the users shown are still listed, and if their pages were read
\* in one order, none of them are tied.
ShownListed ==
    /\ Shown \in Seq(Ids) /\ Range(Shown) \cap fresh = {}
    /\ query.list = "users" =>
           /\ Range(Shown) \subseteq DOMAIN table
           /\ ~ambiguous => TotalOn(Order(query, table), Range(Shown))

\* Of the rows that stayed and have not been shown, no more are in the places walked than
\* have left; after the count of the last page, no more are there at all.
FewPassedOver ==
    Certain =>
        /\ at # "done" => Cardinality(PassedOver) <= left
        /\ (at \in {"sum", "answer"} /\ total <= Walked) \/ at = "done" =>
               Cardinality(still \ Range(Shown)) <= left

\* Rows shown twice, and rows shown that are in the places still to be walked, are no more
\* than have come.
FewRepeated ==
    Certain =>
        (Len(Shown) - Cardinality(Range(Shown))) + Cardinality(ToRepeat) <= came

\* What is shown is a sequence, and its elements finitely many.
LEMMA ShownFinite ==
    ASSUME NEW s \in Seq(Ids)
    PROVE  /\ IsFiniteSet(Range(s)) /\ Cardinality(Range(s)) \in Nat /\ Len(s) \in Nat
<1>1. Range(s) \in SUBSET Ids
  BY RangeOfSeq
<1>2. IsFiniteSet(Range(s))
  BY <1>1, ConstantFacts, FS_Subset
<1> QED
  BY <1>2, FS_CardinalityType, LenProperties

\* When no two rows are tied, a page read holds just the rows of its places, each once.
LEMMA FetchPlaces ==
    ASSUME Typed, FetchRows, TotalOn(Order(query, table), Listed(query, table))
    PROVE  LET offset == (page - 1) * size IN
           /\ PageIds' \in Seq(Ids) /\ Len(PageIds') = Len(items')
           /\ Range(PageIds') = {i \in Listed(query, table) : offset <= Place(i) /\ Place(i) < offset + size}
           /\ Cardinality(Range(PageIds')) = Len(items')
<1> DEFINE L == Listed(query, table)
           R == Order(query, table)
           offset == (page - 1) * size
           m == Len(items')
<1>1. /\ query \in Queries /\ Rows(query, table) /\ size \in Nat
  BY ConstantFacts DEF Typed
<1>2. /\ IsFiniteSet(L) /\ Cardinality(L) \in Nat /\ StrictOrder(R, L) /\ L \subseteq Ids
      /\ TotalOn(R, L)
  BY <1>1, ListedOrder
<1>3. /\ \A x \in L : Rank(R, L, x) \in Nat /\ Rank(R, L, x) < Cardinality(L)
      /\ \A x, y \in L : Rank(R, L, x) = Rank(R, L, y) => x = y
  <2> HIDE DEF L, R
  <2> QED
    BY <1>2, RankOrder, RankPlaces
<1>4. /\ offset \in Nat /\ m \in Nat /\ m <= size
      /\ m > 0 => offset + m <= Cardinality(L)
      /\ m < size => Cardinality(L) <= offset + m
  BY FetchFacts
<1>5. PICK s \in Sorted(query, table) :
          items' \in [1..m -> Item] /\
          \A n \in 1..m :
              /\ offset + n \in 1..Cardinality(L)
              /\ s[offset + n] \in L /\ items'[n].id = s[offset + n]
  BY FetchFacts
<1>6. \A n \in 1..Cardinality(L) : Rank(R, L, s[n]) = n - 1
  BY <1>1, SortedPlaces
<1>7. /\ PageIds' = [n \in 1..m |-> items'[n].id]
      /\ DOMAIN PageIds' = 1..m /\ \A n \in 1..m : PageIds'[n] = s[offset + n]
  <2>1. DOMAIN items' = 1..m
    BY <1>5
  <2>2. PageIds' = [n \in DOMAIN items' |-> items'[n].id]
    BY DEF PageIds
  <2> HIDE DEF m
  <2> QED
    BY <1>5, <2>1, <2>2
<1> HIDE DEF L, R, offset, m
<1>8. \A n \in 1..m : PageIds'[n] \in L /\ Rank(R, L, PageIds'[n]) = offset + n - 1
  <2> SUFFICES ASSUME NEW n \in 1..m
               PROVE  PageIds'[n] \in L /\ Rank(R, L, PageIds'[n]) = offset + n - 1
    OBVIOUS
  <2>1. offset + n \in 1..Cardinality(L) /\ s[offset + n] \in L
    BY <1>5
  <2>2. Rank(R, L, s[offset + n]) = (offset + n) - 1
    BY <1>6, <2>1
  <2> QED
    BY <1>4, <1>7, <2>1, <2>2
<1>9. PageIds' \in [1..m -> Ids]
  BY <1>2, <1>7, <1>8
<1>10. PageIds' \in Seq(Ids) /\ Len(PageIds') = m
  <2>1. PageIds' \in Seq(Ids)
    BY <1>4, <1>9, SeqDef
  <2>2. Len(PageIds') \in Nat /\ 1..Len(PageIds') = 1..m
    BY <1>7, <2>1, LenProperties
  <2> QED
    BY <1>4, <2>1, <2>2
<1> DEFINE P == {i \in L : offset <= Rank(R, L, i) /\ Rank(R, L, i) < offset + size}
<1>11. Range(PageIds') \subseteq P
  <2> SUFFICES ASSUME NEW n \in 1..m
               PROVE  PageIds'[n] \in P
    BY <1>7 DEF Range
  <2> QED
    BY <1>1, <1>4, <1>8
<1>12. P \subseteq Range(PageIds')
  <2> SUFFICES ASSUME NEW x \in P
               PROVE  x \in Range(PageIds')
    OBVIOUS
  <2>1. /\ x \in L /\ Rank(R, L, x) \in Nat /\ Rank(R, L, x) < Cardinality(L)
        /\ offset <= Rank(R, L, x) /\ Rank(R, L, x) < offset + size
    BY <1>3
  <2> DEFINE n == Rank(R, L, x) - offset + 1
  <2>2. n \in 1..m /\ offset + n - 1 = Rank(R, L, x)
    BY <1>1, <1>2, <1>4, <2>1
  <2> HIDE DEF n
  <2>3. PageIds'[n] = x
    BY <1>3, <1>8, <2>1, <2>2
  <2> QED
    BY <1>7, <2>2, <2>3 DEF Range
<1>13. Cardinality(Range(PageIds')) = m
  <2> DEFINE T == Range(PageIds')
  <2>1. IsFiniteSet(1..m) /\ Cardinality(1..m) = m
    BY <1>4, FS_Interval
  <2>2. \A a, b \in 1..m : PageIds'[a] = PageIds'[b] => a = b
    BY <1>4, <1>8
  <2>3. PageIds' \in [1..m -> T] /\ \A x \in T : \E a \in 1..m : PageIds'[a] = x
    BY <1>7, <1>9 DEF Range
  <2>4. IsFiniteSet(T)
    BY <1>10, ShownFinite
  <2> HIDE DEF T
  <2>5. PageIds' \in Bijection(1..m, T)
    BY <2>2, <2>3 DEF Bijection, Injection, Surjection, IsInjective
  <2>6. Cardinality(T) = m
    BY <2>1, <2>4, <2>5, FS_Bijection DEF ExistsBijection
  <2> QED
    BY <2>6 DEF T
<1> QED
  BY <1>10, <1>11, <1>12, <1>13 DEF L, R, offset, m, Place

\* Nothing has been shown before the first page.
LEMMA WalkBegins == Init => ShownListed /\ FewPassedOver /\ FewRepeated
<1> SUFFICES ASSUME Init
             PROVE  ShownListed /\ FewPassedOver /\ FewRepeated
  OBVIOUS
<1>1. /\ at = "fetch" /\ page = 1 /\ seen = <<>> /\ left = 0 /\ came = 0
      /\ size \in Nat /\ Typed
  BY InitEstablishes, ConstantFacts DEF Init
<1>2. Shown = <<>> /\ Walked = 0
  BY <1>1 DEF Shown, Walked
<1>3. /\ Shown \in Seq(Ids) /\ Len(Shown) = 0 /\ Range(Shown) = {}
  <2>1. Shown \in Seq(Ids) /\ Len(Shown) = 0
    BY <1>2, EmptySeq
  <2>2. DOMAIN Shown = 1..0
    BY <2>1, LenProperties
  <2> QED
    BY <2>1, <2>2 DEF Range
<1>4. Cardinality({}) = 0
  BY FS_EmptySet
<1>5. PassedOver = {}
  <2> SUFFICES ASSUME NEW i \in still, Place(i) < 0
               PROVE  FALSE
    BY <1>2 DEF PassedOver
  <2>1. /\ i \in Listed(query, table) /\ IsFiniteSet(Listed(query, table))
        /\ StrictOrder(Order(query, table), Listed(query, table))
    BY <1>1, ListedOrder DEF Typed
  <2>2. Place(i) \in Nat
    BY <2>1, RankOrder DEF Place
  <2> QED
    BY <2>2
<1>6. ToRepeat = {}
  BY <1>3 DEF ToRepeat
<1>7. ShownListed
  <2>1. TotalOn(Order(query, table), Range(Shown))
    BY <1>3 DEF TotalOn
  <2> QED
    BY <1>3, <2>1 DEF ShownListed
<1>8. FewPassedOver
  <2>1. at \notin {"sum", "answer", "done"}
    BY <1>1
  <2> QED
    BY <1>1, <1>4, <1>5, <2>1 DEF FewPassedOver
<1>9. FewRepeated
  BY <1>1, <1>3, <1>4, <1>6 DEF FewRepeated
<1> QED
  BY <1>7, <1>8, <1>9

\* Rows have places, and finitely many are listed.
LEMMA PlaceFacts ==
    ASSUME Typed
    PROVE  LET L == Listed(query, table)
               R == Order(query, table)
           IN  /\ IsFiniteSet(L) /\ Cardinality(L) \in Nat /\ StrictOrder(R, L) /\ L \subseteq Ids
               /\ L \subseteq DOMAIN table
               /\ \A x \in L : Place(x) \in Nat /\ Place(x) < Cardinality(L)
               /\ query.list # "users" => TotalOn(R, L)
               /\ query.list = "users" => L = DOMAIN table
<1> DEFINE L == Listed(query, table)
           R == Order(query, table)
<1>1. /\ query \in Queries /\ Rows(query, table)
  BY DEF Typed
<1>2. /\ IsFiniteSet(L) /\ StrictOrder(R, L) /\ L \subseteq Ids /\ L \subseteq DOMAIN table
      /\ query.list # "users" => TotalOn(R, L)
  BY <1>1, ListedOrder, QueryFacts
<1>3. \A x \in L : Place(x) \in Nat /\ Place(x) < Cardinality(L)
  BY <1>2, RankOrder DEF Place
<1>4. ASSUME query.list = "users"
      PROVE  L = DOMAIN table
  <2>1. query.filter = "none"
    BY <1>1, <1>4, QueryFacts
  <2> QED
    BY <2>1 DEF Listed, Fits
<1> QED
  BY <1>2, <1>3, <1>4, FS_CardinalityType

\* The rows passed over and those to be shown again are finitely many.
LEMMA WalkFinite ==
    ASSUME Typed, ShownListed
    PROVE  /\ IsFiniteSet(Range(Shown)) /\ Cardinality(Range(Shown)) \in Nat /\ Len(Shown) \in Nat
           /\ IsFiniteSet(PassedOver) /\ Cardinality(PassedOver) \in Nat
           /\ IsFiniteSet(ToRepeat) /\ Cardinality(ToRepeat) \in Nat
<1>1. IsFiniteSet(Range(Shown)) /\ Cardinality(Range(Shown)) \in Nat /\ Len(Shown) \in Nat
  BY ShownFinite DEF ShownListed
<1>2. PassedOver \in SUBSET Listed(query, table) /\ ToRepeat \in SUBSET Listed(query, table)
  BY DEF PassedOver, ToRepeat, Typed
<1>3. IsFiniteSet(PassedOver) /\ IsFiniteSet(ToRepeat)
  BY <1>2, PlaceFacts, FS_Subset
<1> QED
  BY <1>1, <1>3, FS_CardinalityType

\* A page that is read in one order shows the rows of the next places: none of them are
\* passed over, and those shown before were to be shown again.
LEMMA FetchWalks ==
    ASSUME Typed, Typed', ShownListed, FewPassedOver, FewRepeated, FetchRows
    PROVE  ShownListed' /\ FewPassedOver' /\ FewRepeated'
<1> DEFINE L == Listed(query, table)
           R == Order(query, table)
           offset == (page - 1) * size
           T == Range(seen)
           P == Range(PageIds')
<1>1. /\ at = "fetch" /\ at' \in {"attach", "count"}
      /\ ambiguous' = (ambiguous \/ Cardinality(Sorted(query, table)) > 1)
      /\ UNCHANGED <<query, size, table, fresh, page, seen, still, left, came, writes>>
      /\ Listed(query, table)' = L /\ Order(query, table)' = R
  BY DEF FetchRows, unread
<1>2. Shown = seen /\ Shown' = seen \o PageIds' /\ Walked = offset /\ Walked' = offset + size
  <2>1. Shown = seen /\ Shown' = seen \o PageIds' /\ Walked = offset /\ Walked' = page * size
    BY <1>1 DEF Shown, Walked
  <2>2. page * size = offset + size /\ offset \in Nat
    BY ConstantFacts DEF Typed
  <2> QED
    BY <2>1, <2>2
<1>3. /\ offset \in Nat /\ Len(items') \in Nat
      /\ PageIds' \in Seq(Ids) /\ Len(PageIds') = Len(items') /\ P \subseteq L
  <2>1. /\ offset \in Nat /\ Len(items') \in Nat
        /\ \A n \in 1..Len(items') : items'[n].id \in L
    BY FetchFacts
  <2>2. DOMAIN items' = 1..Len(items')
    BY LenProperties DEF Typed
  <2>3. PageIds' = [n \in 1..Len(items') |-> items'[n].id]
    BY <2>2 DEF PageIds
  <2>4. L \subseteq Ids
    BY PlaceFacts
  <2> HIDE DEF L, offset
  <2>5. PageIds' \in [1..Len(items') -> L] /\ PageIds' \in [1..Len(items') -> Ids]
    BY <2>1, <2>3, <2>4
  <2>6. PageIds' \in Seq(Ids)
    BY <2>1, <2>5, SeqDef
  <2>7. Len(PageIds') \in Nat /\ 1..Len(PageIds') = 1..Len(items')
    BY <2>3, <2>6, LenProperties
  <2> QED
    BY <2>1, <2>5, <2>6, <2>7 DEF Range
<1>4. seen \in Seq(Ids)
  BY DEF Typed
<1>5. /\ Shown' \in Seq(Ids) /\ Range(Shown') = T \cup P
      /\ Len(Shown') = Len(seen) + Len(items')
  <2>1. Shown' \in Seq(Ids) /\ Len(Shown') = Len(seen) + Len(PageIds')
    BY <1>2, <1>3, <1>4, ConcatProperties
  <2>2. Range(seen \o PageIds') = Range(seen) \cup Range(PageIds')
    BY <1>3, <1>4, RangeConcatenation
  <2> QED
    BY <1>2, <1>3, <2>1, <2>2
<1>6. /\ IsFiniteSet(L) /\ L \subseteq DOMAIN table
      /\ \A x \in L : Place(x) \in Nat /\ Place(x) < Cardinality(L)
      /\ query.list # "users" => TotalOn(R, L)
      /\ query.list = "users" => L = DOMAIN table
  BY PlaceFacts
<1>7. \A x : Place(x)' = Place(x)
  BY <1>1 DEF Place
<1>8. ASSUME Certain'
      PROVE  Certain /\ TotalOn(R, L)
  <2>1. CASE query.list # "users"
    BY <1>6, <2>1 DEF Certain
  <2>2. CASE query.list = "users"
    <3>1. ~ambiguous'
      BY <1>1, <1>8, <2>2 DEF Certain
    <3>2. ~ambiguous /\ ~(Cardinality(Sorted(query, table)) > 1)
      BY <1>1, <3>1
    <3>3. query \in Queries /\ Rows(query, table) /\ query.tie = "none"
      BY <2>2, QueryFacts DEF Typed
    <3>4. PICK s \in Sorted(query, table) : TRUE
      BY DEF FetchRows
    <3>5. TotalOn(R, L)
      BY <3>2, <3>3, <3>4, OneOrderIsTotal
    <3> QED
      BY <3>2, <3>5 DEF Certain
  <2> QED
    BY <2>1, <2>2
<1>9. ShownListed'
  <2>1. T \cap fresh = {} /\ (query.list = "users" => T \subseteq DOMAIN table)
    BY <1>2 DEF ShownListed
  <2>2. fresh \cap DOMAIN table = {}
    BY DEF Typed
  <2> HIDE DEF T, P, L, R
  <2>3. Range(Shown') \cap fresh' = {}
    BY <1>1, <1>3, <1>5, <1>6, <2>1, <2>2
  <2>4. query.list = "users" => Range(Shown') \subseteq DOMAIN table
    BY <1>3, <1>5, <1>6, <2>1
  <2>5. query.list = "users" /\ ~ambiguous' => TotalOn(R, Range(Shown'))
    <3> SUFFICES ASSUME query.list = "users", ~ambiguous'
                 PROVE  TotalOn(R, Range(Shown'))
      OBVIOUS
    <3>1. TotalOn(R, L)
      BY <1>1, <1>8 DEF Certain
    <3>2. Range(Shown') \subseteq L
      BY <1>6, <2>4
    <3> QED
      BY <3>1, <3>2 DEF TotalOn
  <2> QED
    BY <1>1, <1>5, <2>3, <2>4, <2>5 DEF ShownListed, R
<1>10. /\ IsFiniteSet(PassedOver) /\ Cardinality(PassedOver) \in Nat
       /\ IsFiniteSet(ToRepeat) /\ Cardinality(ToRepeat) \in Nat
       /\ IsFiniteSet(T) /\ Cardinality(T) \in Nat /\ Len(seen) \in Nat
  BY <1>2, WalkFinite
<1>11. /\ IsFiniteSet(PassedOver') /\ Cardinality(PassedOver') \in Nat
       /\ IsFiniteSet(ToRepeat') /\ Cardinality(ToRepeat') \in Nat
  <2>1. PassedOver' \in SUBSET L /\ ToRepeat' \in SUBSET L
    BY <1>1 DEF PassedOver, ToRepeat, Typed
  <2>2. IsFiniteSet(PassedOver') /\ IsFiniteSet(ToRepeat')
    BY <1>6, <2>1, FS_Subset
  <2> QED
    BY <2>2, FS_CardinalityType
<1>12. ASSUME Certain'
       PROVE  /\ P = {i \in L : offset <= Place(i) /\ Place(i) < offset + size}
              /\ Cardinality(P) = Len(items') /\ IsFiniteSet(P)
  <2>1. TotalOn(R, L)
    BY <1>8, <1>12
  <2>2. P \in SUBSET L
    BY <1>3
  <2> HIDE DEF P
  <2>3. IsFiniteSet(P)
    BY <1>6, <2>2, FS_Subset
  <2> QED
    BY <2>1, <2>3, FetchPlaces DEF P
<1>13. size \in Nat
  BY ConstantFacts DEF Typed
<1>14. FewPassedOver'
  <2> SUFFICES ASSUME Certain'
               PROVE  Cardinality(PassedOver') <= left
    BY <1>1 DEF FewPassedOver
  <2>1. PassedOver' \in SUBSET PassedOver
    <3> SUFFICES ASSUME NEW i \in PassedOver'
                 PROVE  i \in PassedOver
      OBVIOUS
    <3>1. i \in still /\ i \notin T \cup P /\ Place(i) < offset + size
      BY <1>1, <1>2, <1>5, <1>7 DEF PassedOver
    <3>2. i \in L /\ Place(i) \in Nat
      BY <1>6, <3>1 DEF Typed
    <3> HIDE DEF L, P, offset
    <3>3. Place(i) < offset
      BY <1>3, <1>12, <1>13, <3>1, <3>2
    <3> QED
      BY <1>2, <3>1, <3>3 DEF PassedOver, offset
  <2>2. Cardinality(PassedOver') <= Cardinality(PassedOver)
    BY <1>10, <2>1, FS_Subset
  <2>3. Cardinality(PassedOver) <= left
    BY <1>1, <1>8 DEF FewPassedOver
  <2>4. left \in Nat
    BY DEF Typed
  <2> QED
    BY <1>10, <1>11, <2>2, <2>3, <2>4
<1>15. FewRepeated'
  <2> SUFFICES ASSUME Certain'
               PROVE  (Len(Shown') - Cardinality(T \cup P)) + Cardinality(ToRepeat') <= came
    BY <1>1, <1>5 DEF FewRepeated
  <2> DEFINE again == T \cap P
  <2>1. again \cup ToRepeat' \in SUBSET ToRepeat /\ again \cap ToRepeat' = {}
    <3>1. ASSUME NEW i \in again
          PROVE  i \in ToRepeat /\ i \notin ToRepeat'
      <4>1. i \in T /\ i \in P
        OBVIOUS
      <4>2. i \in L /\ offset <= Place(i) /\ Place(i) < offset + size
        BY <1>12, <4>1
      <4>3. i \in ToRepeat
        BY <1>2, <4>1, <4>2 DEF ToRepeat
      <4>4. Place(i) \in Nat
        BY <1>6, <4>2
      <4>5. i \in ToRepeat' => offset + size <= Place(i)
        BY <1>2, <1>7 DEF ToRepeat
      <4> HIDE DEF offset
      <4> QED
        BY <1>3, <1>13, <4>2, <4>3, <4>4, <4>5
    <3>2. ASSUME NEW i \in ToRepeat'
          PROVE  i \in ToRepeat
      <4>1. i \in L /\ i \in T \cup P /\ offset + size <= Place(i)
        BY <1>1, <1>2, <1>5, <1>7 DEF ToRepeat
      <4>2. Place(i) \in Nat
        BY <1>6, <4>1
      <4> HIDE DEF L, P, offset
      <4>3. ~(Place(i) < offset + size) /\ offset <= Place(i)
        BY <1>3, <1>13, <4>1, <4>2
      <4>4. i \in T
        BY <1>12, <4>1, <4>3
      <4> QED
        BY <1>2, <4>1, <4>3, <4>4 DEF ToRepeat, L, offset
    <3> QED
      BY <3>1, <3>2
  <2>2. IsFiniteSet(again) /\ Cardinality(again) \in Nat
    BY <1>10, FS_Intersection, FS_CardinalityType
  <2>3. Cardinality(T \cup P) = Cardinality(T) + Len(items') - Cardinality(again)
    BY <1>10, <1>12, FS_Union
  <2> HIDE DEF again, T, P
  <2>4. /\ Cardinality(again \cup ToRepeat')
             = Cardinality(again) + Cardinality(ToRepeat') - Cardinality(again \cap ToRepeat')
        /\ Cardinality(again \cap ToRepeat') = 0
    BY <1>11, <2>1, <2>2, FS_Union, FS_EmptySet
  <2>5. Cardinality(again \cup ToRepeat') <= Cardinality(ToRepeat)
    BY <1>10, <2>1, FS_Subset
  <2>6. (Len(seen) - Cardinality(T)) + Cardinality(ToRepeat) <= came
    BY <1>2, <1>8 DEF FewRepeated, T
  <2>7. came \in Nat
    BY DEF Typed
  <2> QED
    BY <1>3, <1>5, <1>10, <1>11, <2>2, <2>3, <2>4, <2>5, <2>6, <2>7
<1> QED
  BY <1>9, <1>14, <1>15

\* While neither the table, nor what is shown, nor the places walked change, the walk stands
\* as it did.
LEMMA SameWalk ==
    ASSUME Typed, ShownListed, FewPassedOver, FewRepeated,
           UNCHANGED <<query, table, fresh, still, left, came, ambiguous>>,
           Shown' = Shown, Walked' = Walked
    PROVE  /\ ShownListed' /\ FewRepeated' /\ Certain' = Certain /\ PassedOver' = PassedOver
<1>1. /\ Listed(query, table)' = Listed(query, table) /\ Order(query, table)' = Order(query, table)
      /\ \A x : Place(x)' = Place(x)
  BY DEF Place
<1>2. PassedOver' = PassedOver /\ ToRepeat' = ToRepeat /\ Certain' = Certain
  BY <1>1 DEF PassedOver, ToRepeat, Certain
<1>3. ShownListed'
  BY <1>1 DEF ShownListed
<1>4. FewRepeated'
  BY <1>2 DEF FewRepeated
<1> QED
  BY <1>2, <1>3, <1>4

\* What is attached are no rows.
LEMMA AttachWalks ==
    ASSUME Typed, Covered, Agreeing, ShownListed, FewPassedOver, FewRepeated, AttachProducts
    PROVE  ShownListed' /\ FewPassedOver' /\ FewRepeated'
<1>1. /\ at = "attach" /\ at' = "count"
      /\ UNCHANGED <<query, size, table, fresh, page, seen, still, left, came, ambiguous>>
  BY DEF AttachProducts, unread
<1>2. Shown' = Shown /\ Walked' = Walked
  <2>1. /\ Typed' /\ Len(items') = Len(items)
        /\ \A n \in 1..Len(items) : items'[n].id = items[n].id
    BY AttachPreserves
  <2>2. DOMAIN items = 1..Len(items) /\ DOMAIN items' = 1..Len(items')
    BY <2>1, LenProperties DEF Typed
  <2>3. PageIds' = PageIds
    BY <2>1, <2>2 DEF PageIds
  <2> QED
    BY <1>1, <2>3 DEF Shown, Walked
<1>3. ShownListed' /\ FewRepeated' /\ Certain' = Certain /\ PassedOver' = PassedOver
  BY <1>1, <1>2, SameWalk
<1>4. FewPassedOver'
  BY <1>1, <1>3 DEF FewPassedOver
<1> QED
  BY <1>3, <1>4

\* When the count reaches no further than the places walked, no row that stayed is beyond them.
LEMMA CountWalks ==
    ASSUME Typed, ShownListed, FewPassedOver, FewRepeated, CountRows
    PROVE  ShownListed' /\ FewPassedOver' /\ FewRepeated'
<1>1. /\ at = "count" /\ at' \in {"sum", "answer"}
      /\ total' = Cardinality(Listed(query, table))
      /\ UNCHANGED <<query, size, table, fresh, page, items, seen, still, left, came, ambiguous>>
  BY DEF CountRows, unread
<1>2. Shown' = Shown /\ Walked' = Walked /\ Walked = page * size
  BY <1>1 DEF Shown, Walked, PageIds
<1>3. ShownListed' /\ FewRepeated' /\ Certain' = Certain /\ PassedOver' = PassedOver
  BY <1>1, <1>2, SameWalk
<1>4. ASSUME total' <= Walked'
      PROVE  still \ Range(Shown) = PassedOver
  <2>1. Walked \in Nat
    BY <1>2, ConstantFacts DEF Typed
  <2>2. \A i \in still : Place(i) \in Nat /\ Place(i) < Cardinality(Listed(query, table))
    BY PlaceFacts DEF Typed
  <2>3. Cardinality(Listed(query, table)) \in Nat
    BY PlaceFacts
  <2>4. \A i \in still : Place(i) < Walked
    BY <1>1, <1>2, <1>4, <2>1, <2>2, <2>3
  <2> QED
    BY <2>4 DEF PassedOver
<1>5. FewPassedOver'
  <2>1. Certain => Cardinality(PassedOver) <= left
    BY <1>1 DEF FewPassedOver
  <2>2. still' = still /\ left' = left /\ at' # "done"
    BY <1>1
  <2> QED
    BY <1>2, <1>3, <1>4, <2>1, <2>2 DEF FewPassedOver
<1> QED
  BY <1>3, <1>5

\* The summary shows no rows.
LEMMA SumUpWalks ==
    ASSUME Typed, ShownListed, FewPassedOver, FewRepeated, SumUp
    PROVE  ShownListed' /\ FewPassedOver' /\ FewRepeated'
<1>1. /\ at = "sum" /\ at' = "answer"
      /\ UNCHANGED <<query, size, table, fresh, page, items, total, seen, still, left, came, ambiguous>>
  BY DEF SumUp, unread
<1>2. Shown' = Shown /\ Walked' = Walked
  BY <1>1 DEF Shown, Walked, PageIds
<1>3. ShownListed' /\ FewRepeated' /\ Certain' = Certain /\ PassedOver' = PassedOver
  BY <1>1, <1>2, SameWalk
<1>4. FewPassedOver'
  BY <1>1, <1>2, <1>3 DEF FewPassedOver
<1> QED
  BY <1>3, <1>4

\* The page under way is shown; the next one begins where it ends.
LEMMA TurnPageWalks ==
    ASSUME Typed, ShownListed, FewPassedOver, FewRepeated, TurnPage
    PROVE  ShownListed' /\ FewPassedOver' /\ FewRepeated'
<1>1. /\ at = "answer"
      /\ \/ page * size < total /\ at' = "fetch" /\ page' = page + 1
         \/ ~(page * size < total) /\ at' = "done" /\ page' = page
      /\ seen' = seen \o PageIds
      /\ UNCHANGED <<query, size, table, fresh, items, total, still, left, came, ambiguous>>
  BY DEF TurnPage, PageIds
<1>2. Walked = page * size /\ Walked' = Walked /\ Walked \in Nat /\ total \in Nat
  <2>1. page \in Nat /\ size \in Nat /\ total \in Nat
    BY ConstantFacts DEF Typed
  <2>2. (page + 1) - 1 = page
    BY <2>1
  <2>3. Walked = page * size /\ (at' = "fetch" => Walked' = ((page + 1) - 1) * size)
        /\ (at' = "done" => Walked' = page * size)
    BY <1>1 DEF Walked
  <2> QED
    BY <1>1, <2>1, <2>2, <2>3
<1>3. Shown' = Shown
  BY <1>1 DEF Shown
<1>4. ShownListed' /\ FewRepeated' /\ Certain' = Certain /\ PassedOver' = PassedOver
  BY <1>1, <1>2, <1>3, SameWalk
<1>5. FewPassedOver'
  <2>1. at' = "done" => total <= Walked
    BY <1>1, <1>2
  <2>2. Certain => /\ Cardinality(PassedOver) <= left
                   /\ total <= Walked => Cardinality(still \ Range(Shown)) <= left
    BY <1>1 DEF FewPassedOver
  <2>3. at' \notin {"sum", "answer"} /\ still' = still /\ left' = left
    BY <1>1
  <2> QED
    BY <1>3, <1>4, <2>1, <2>2, <2>3 DEF FewPassedOver
<1> QED
  BY <1>4, <1>5

\* A step that changes nothing leaves the walk where it is.
LEMMA StutterWalks ==
    ASSUME Typed, ShownListed, FewPassedOver, FewRepeated, UNCHANGED vars
    PROVE  ShownListed' /\ FewPassedOver' /\ FewRepeated'
<1>1. UNCHANGED <<query, size, table, fresh, at, page, items, total, seen, still,
                  left, came, ambiguous>>
  BY DEF vars
<1>2. Shown' = Shown /\ Walked' = Walked
  BY <1>1 DEF Shown, Walked, PageIds
<1>3. ShownListed' /\ FewRepeated' /\ Certain' = Certain /\ PassedOver' = PassedOver
  BY <1>1, <1>2, SameWalk
<1>4. FewPassedOver'
  BY <1>1, <1>2, <1>3 DEF FewPassedOver
<1> QED
  BY <1>3, <1>4

\* Of what is shown, no more rows leave a place walked than leave their place, and none
\* come to be shown twice but those that came or were moved on by one that came.
LEMMA CommitWalks ==
    ASSUME Typed, Typed', ShownListed, FewPassedOver, FewRepeated, Commit
    PROVE  ShownListed' /\ FewPassedOver' /\ FewRepeated'
<1>1. PICK rows :
          /\ Put(rows) /\ Rows(query, rows)
          /\ fresh' \subseteq fresh
          /\ DOMAIN rows \ DOMAIN table \subseteq fresh
          /\ query.list = "users" =>
                 DOMAIN table \subseteq DOMAIN rows /\ \A j \in DOMAIN table : rows[j] = table[j]
  BY CommitPuts
<1> DEFINE L == Listed(query, table)
           R == Order(query, table)
           N == Listed(query, rows)
           Q == Order(query, rows)
           K == Kept(query, table, rows)
           T == Range(Shown)
<1>2. /\ at # "done" /\ table' = rows
      /\ UNCHANGED <<query, size, at, page, items, total, low, seen, ambiguous>>
      /\ still' = still \cap K
      /\ left' = left + Cardinality(L \ K) /\ came' = came + Cardinality(N \ K)
  BY <1>1, PutFacts
<1>3. /\ Shown' = Shown /\ Walked' = Walked /\ Certain' = Certain
      /\ \A x : Place(x)' = Rank(Q, N, x)
      /\ Listed(query, table)' = N
  BY <1>2 DEF Shown, Walked, PageIds, Certain, Place
<1>4. /\ Changes(R, L, Q, N, K) /\ Cardinality(L \ K) \in Nat /\ Cardinality(N \ K) \in Nat
      /\ K \subseteq L /\ K \subseteq N
  <2>1. query \in Queries /\ Rows(query, table)
    BY DEF Typed
  <2>2. K \subseteq L /\ K \subseteq N
    BY DEF Kept
  <2> QED
    BY <1>1, <2>1, <2>2, RowsChange
<1>5. Walked \in Nat
  BY ConstantFacts DEF Walked, Typed
<1>6. /\ query \in Queries /\ Rows(query, table)
      /\ left \in Nat /\ came \in Nat /\ still \subseteq L
  BY DEF Typed
<1>7. /\ query.list # "users" => TotalOn(R, L) /\ TotalOn(Q, N)
      /\ query.list = "users" => L = DOMAIN table /\ N = DOMAIN rows
  <2>1. query.list # "users" => TotalOn(R, L) /\ TotalOn(Q, N)
    BY <1>1, <1>6, ListedOrder, QueryFacts
  <2>2. query.list = "users" => query.filter = "none"
    BY <1>6, QueryFacts
  <2> QED
    BY <2>1, <2>2 DEF Listed, Fits
<1>8. ASSUME query.list = "users"
      PROVE  /\ L = K /\ (N \ K) \cap T = {} /\ T \subseteq K
             /\ ~ambiguous => TotalOn(R, T)
  <2>1. /\ T \cap fresh = {} /\ T \subseteq DOMAIN table
        /\ ~ambiguous => TotalOn(R, T)
    BY <1>8 DEF ShownListed
  <2>2. K = L
    BY <1>1, <1>7, <1>8 DEF Kept
  <2> HIDE DEF T, K, L, N
  <2> QED
    BY <1>1, <1>7, <1>8, <2>1, <2>2
<1>9. /\ IsFiniteSet(PassedOver) /\ Cardinality(PassedOver) \in Nat
      /\ IsFiniteSet(ToRepeat) /\ Cardinality(ToRepeat) \in Nat
      /\ IsFiniteSet(T) /\ Cardinality(T) \in Nat /\ Len(Shown) \in Nat
  BY WalkFinite
<1>10. ShownListed'
  <2>1. Shown \in Seq(Ids) /\ T \cap fresh = {}
    BY DEF ShownListed
  <2>2. ASSUME query.list = "users"
        PROVE  T \subseteq DOMAIN rows /\ (~ambiguous => TotalOn(Q, T))
    <3>1. T \subseteq K /\ (~ambiguous => TotalOn(R, T)) /\ DOMAIN rows = N
      BY <1>7, <1>8, <2>2
    <3> HIDE DEF T, K, R, Q, L, N
    <3>2. \A a, b \in K : <<a, b>> \in R <=> <<a, b>> \in Q
      BY <1>4 DEF Changes
    <3> QED
      BY <1>4, <3>1, <3>2 DEF TotalOn
  <2> HIDE DEF T
  <2>3. T \cap fresh' = {}
    BY <1>1, <2>1
  <2> QED
    BY <1>2, <1>3, <2>1, <2>2, <2>3 DEF ShownListed, T, Q
<1>11. /\ PassedOver' = InFirst(Q, N, Walked, (still \cap K) \ T)
       /\ ToRepeat' = Behind(Q, N, Walked, N \cap T)
       /\ PassedOver = InFirst(R, L, Walked, still \ T)
       /\ ToRepeat = Behind(R, L, Walked, L \cap T)
  BY <1>2, <1>3 DEF PassedOver, ToRepeat, Place, InFirst, Behind
<1> HIDE DEF L, R, N, Q, K, T
<1>12. /\ IsFiniteSet(PassedOver') /\ Cardinality(PassedOver') \in Nat
       /\ IsFiniteSet(ToRepeat') /\ Cardinality(ToRepeat') \in Nat
  <2>1. PassedOver' \in SUBSET N /\ ToRepeat' \in SUBSET N /\ IsFiniteSet(N)
    BY <1>4, <1>11 DEF Changes, InFirst, Behind
  <2>2. IsFiniteSet(PassedOver') /\ IsFiniteSet(ToRepeat')
    BY <2>1, FS_Subset
  <2> QED
    BY <2>2, FS_CardinalityType
<1>13. FewPassedOver'
  <2> SUFFICES ASSUME Certain
               PROVE  /\ Cardinality(PassedOver') <= left'
                      /\ at \in {"sum", "answer"} /\ total <= Walked =>
                             Cardinality((still \cap K) \ T) <= left'
    BY <1>2, <1>3 DEF FewPassedOver, T
  <2>1. Cardinality(PassedOver) <= left
    BY <1>2 DEF FewPassedOver
  <2>2. Cardinality(PassedOver') <= Cardinality(PassedOver) + Cardinality(L \ K)
    <3> DEFINE U == still \ T
    <3>1. TotalOn(R, L) \/ L = K
      BY <1>7, <1>8
    <3>2. U \in SUBSET L /\ (still \cap K) \ T = U \cap K
      BY <1>6
    <3> HIDE DEF U
    <3>3. Cardinality(InFirst(Q, N, Walked, U \cap K))
            <= Cardinality(InFirst(R, L, Walked, U)) + Cardinality(L \ K)
      BY <1>4, <1>5, <3>1, <3>2, FirstAfter
    <3> QED
      BY <1>11, <3>2, <3>3 DEF U
  <2>3. ASSUME at \in {"sum", "answer"}, total <= Walked
        PROVE  Cardinality((still \cap K) \ T) <= left'
    <3>1. Cardinality(still \ T) <= left
      BY <2>3 DEF FewPassedOver, T
    <3>2. (still \cap K) \ T \in SUBSET (still \ T) /\ still \ T \in SUBSET L
      BY <1>6
    <3>3. IsFiniteSet(still \ T)
      BY <1>4, <3>2, FS_Subset DEF Changes
    <3>4. /\ Cardinality((still \cap K) \ T) <= Cardinality(still \ T)
          /\ IsFiniteSet((still \cap K) \ T)
      BY <3>2, <3>3, FS_Subset
    <3>5. Cardinality((still \cap K) \ T) \in Nat /\ Cardinality(still \ T) \in Nat
      BY <3>3, <3>4, FS_CardinalityType
    <3> QED
      BY <1>2, <1>4, <1>6, <3>1, <3>4, <3>5
  <2>4. Cardinality(PassedOver') <= left'
    BY <1>2, <1>4, <1>6, <1>9, <1>12, <2>1, <2>2
  <2> QED
    BY <2>3, <2>4
<1>14. FewRepeated'
  <2> SUFFICES ASSUME Certain
               PROVE  (Len(Shown) - Cardinality(T)) + Cardinality(ToRepeat') <= came'
    BY <1>3 DEF FewRepeated, T
  <2>1. \/ TotalOn(R, L) /\ TotalOn(Q, N)
        \/ TotalOn(R, K \cap T) /\ (N \ K) \cap T = {}
    <3>1. CASE query.list = "users"
      <4>1. TotalOn(R, T)
        BY <1>8, <3>1 DEF Certain
      <4> QED
        BY <1>8, <3>1, <4>1 DEF TotalOn
    <3> QED
      BY <1>7, <3>1
  <2>2. Cardinality(ToRepeat') <= Cardinality(ToRepeat) + Cardinality(N \ K)
    <3>1. Cardinality(Behind(Q, N, Walked, N \cap T))
            <= Cardinality(Behind(R, L, Walked, L \cap T)) + Cardinality(N \ K)
      BY <1>4, <1>5, <2>1, LastAfter
    <3> QED
      BY <1>11, <3>1
  <2>3. (Len(Shown) - Cardinality(T)) + Cardinality(ToRepeat) <= came
    BY DEF FewRepeated, T
  <2> QED
    BY <1>2, <1>4, <1>6, <1>9, <1>12, <2>2, <2>3
<1> QED
  BY <1>10, <1>13, <1>14

----------------------------------------------------------------------------
(* The theorems *)

\* The inductive invariant.
Inv == Typed /\ Covered /\ Agreeing /\ ShownListed /\ FewPassedOver /\ FewRepeated

\* The invariant holds at first and every step keeps it.
THEOREM Invariance == Spec => []Inv
<1>1. Init => Inv
  BY InitEstablishes, WalkBegins DEF Inv
<1>2. ASSUME Inv, [Next]_vars
      PROVE  Inv'
  <2>1. Typed /\ Covered /\ Agreeing /\ ShownListed /\ FewPassedOver /\ FewRepeated
    BY <1>2 DEF Inv
  <2>2. CASE FetchRows
    BY <2>1, <2>2, FetchPreserves, FetchWalks DEF Inv
  <2>3. CASE AttachProducts
    BY <2>1, <2>3, AttachPreserves, AttachWalks DEF Inv
  <2>4. CASE CountRows
    BY <2>1, <2>4, CountPreserves, CountWalks DEF Inv
  <2>5. CASE SumUp
    BY <2>1, <2>5, SumUpPreserves, SumUpWalks DEF Inv
  <2>6. CASE TurnPage
    BY <2>1, <2>6, TurnPagePreserves, TurnPageWalks DEF Inv
  <2>7. CASE Commit
    BY <2>1, <2>7, CommitPreserves, CommitWalks DEF Inv
  <2>8. CASE UNCHANGED vars
    BY <2>1, <2>8, StutterPreserves, StutterWalks DEF Inv
  <2> QED
    BY <1>2, <2>2, <2>3, <2>4, <2>5, <2>6, <2>7, <2>8 DEF Next, Read
<1> QED
  BY <1>1, <1>2, PTL DEF Spec

\* The type invariant of Listing.
THEOREM TypeCorrect == Spec => []TypeOK
<1>1. Inv => TypeOK
  <2> SUFFICES ASSUME Inv
               PROVE  TypeOK
    OBVIOUS
  <2>1. Typed
    BY DEF Inv
  <2>2. /\ DOMAIN table \subseteq Ids
        /\ \A i \in DOMAIN table : table[i] \in [Columns(query) -> Values]
    BY <2>1 DEF Typed, Rows
  <2>3. \A n \in DOMAIN items : items[n] \in [id : Ids, available : Nat, low : BOOLEAN]
    <3>1. \A n \in DOMAIN items : items[n] \in Item
      BY <2>1, LenProperties DEF Typed
    <3> QED
      BY <3>1 DEF Item
  <2> QED
    BY <2>1, <2>2, <2>3 DEF Typed, TypeOK
<1> QED
  BY <1>1, Invariance, PTL

\* Whoever walks through all the pages is shown each row that stayed once, but for as many as
\* left, and no more rows twice than came: of a list without a tie-breaker, if its pages were
\* read in one order.
THEOREM WalkWhole == Spec => []WalkIsWhole
<1>1. Inv => WalkIsWhole
  <2> SUFFICES ASSUME Inv, at = "done", query.list = "users" => ~ambiguous
               PROVE  /\ Cardinality(still \ Range(seen)) <= left
                      /\ Len(seen) - Cardinality(Range(seen)) <= came
    BY DEF WalkIsWhole
  <2>1. Shown = seen /\ Certain
    BY DEF Shown, Certain
  <2>2. Cardinality(still \ Range(seen)) <= left
    BY <2>1 DEF Inv, FewPassedOver
  <2>3. (Len(seen) - Cardinality(Range(seen))) + Cardinality(ToRepeat) <= came
    BY <2>1 DEF Inv, FewRepeated
  <2>4. /\ Cardinality(Range(seen)) \in Nat /\ Len(seen) \in Nat
        /\ Cardinality(ToRepeat) \in Nat
    BY <2>1, WalkFinite DEF Inv
  <2>5. came \in Nat
    BY DEF Inv, Typed
  <2> QED
    BY <2>2, <2>3, <2>4, <2>5
<1> QED
  BY <1>1, Invariance, PTL

\* The total answered with a page covers it, but for the rows that left between the
\* statements.
THEOREM TotalCovers == Spec => []TotalCoversPage
<1>1. Inv => TotalCoversPage
  BY DEF Inv, Covered, TotalCoversPage
<1> QED
  BY <1>1, Invariance, PTL

\* What a list by low stock shows as low agrees with its filter while no level changes, and
\* its count with its total but for what came and left in between.
THEOREM LowStockShown == Spec => []LowStockAgrees
<1>1. Inv => LowStockAgrees
  BY DEF Inv, Agreeing, LowStockAgrees
<1> QED
  BY <1>1, Invariance, PTL

=============================================================================
