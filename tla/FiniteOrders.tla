---------------------------- MODULE FiniteOrders ----------------------------
(***************************************************************************)
(* Facts about strict orders of finite sets, for the arguments about       *)
(* circles of waiting sessions (among finitely many there is one that no   *)
(* other is ahead of) and about the pages of a list (how many come before  *)
(* one, and what becomes of that when rows come and go).                   *)
(***************************************************************************)
EXTENDS FiniteSets, Integers, FiniteSetTheorems, WellFoundedInduction, TLAPS

\* A finite set that is not empty has an element nothing is above.
LEMMA HasTop ==
    ASSUME NEW S, IsFiniteSet(S), S # {}, NEW R \in SUBSET (S \X S),
           \A x \in S : <<x, x>> \notin R,
           \A x, y, z \in S : <<x, y>> \in R /\ <<y, z>> \in R => <<x, z>> \in R
    PROVE  \E x \in S : \A y \in S : <<x, y>> \notin R
<1> DEFINE Above(x) == {y \in S : <<x, y>> \in R}
           Aboves == {Above(x) : x \in S}
<1>1. \A x \in S : Above(x) \in SUBSET S
  OBVIOUS
<1>2. IsWellFoundedOn(StrictSubsetOrdering(S), FiniteSubsetsOf(S))
  BY FS_StrictSubsetOrderingWellFounded
<1>3. Aboves \subseteq FiniteSubsetsOf(S) /\ Aboves # {}
  <2>1. FiniteSubsetsOf(S) = SUBSET S
    BY FS_FiniteSubsetsOfFinite
  <2> HIDE DEF Above
  <2>2. Aboves \subseteq SUBSET S
    BY <1>1
  <2>3. Aboves # {}
    <3>1. PICK x \in S : TRUE
      OBVIOUS
    <3>2. Above(x) \in Aboves
      OBVIOUS
    <3> QED
      BY <3>2
  <2> QED
    BY <2>1, <2>2, <2>3
<1>4. PICK A \in Aboves : \A B \in Aboves : <<B, A>> \notin StrictSubsetOrdering(S)
  <2> HIDE DEF Aboves
  <2> QED
    BY <1>2, <1>3, WFMin
<1>5. PICK x \in S : A = Above(x)
  OBVIOUS
<1>6. ASSUME NEW y \in S, <<x, y>> \in R
      PROVE  FALSE
  <2>1. Above(y) \subseteq Above(x) /\ Above(y) # Above(x)
    BY <1>6
  <2>2. Above(y) \in Aboves
    OBVIOUS
  <2> HIDE DEF Above, Aboves
  <2>3. <<Above(y), Above(x)>> \in StrictSubsetOrdering(S)
    BY <1>1, <2>1 DEF StrictSubsetOrdering
  <2> QED
    BY <1>4, <1>5, <2>2, <2>3
<1> QED
  BY <1>6

----------------------------------------------------------------------------
(* Places in a list *)

\* R orders S strictly, or even leaves no two of S without an order.
StrictOrder(R, S) ==
    /\ \A x \in S : <<x, x>> \notin R
    /\ \A x, y, z \in S : <<x, y>> \in R /\ <<y, z>> \in R => <<x, z>> \in R

TotalOn(R, S) == \A x, y \in S : x # y => <<x, y>> \in R \/ <<y, x>> \in R

\* Those of S that come before one, and how many they are.
Preceding(R, S, x) == {y \in S : <<y, x>> \in R}

Rank(R, S, x) == Cardinality(Preceding(R, S, x))

\* As many as a set has elements come before none of them, and fewer before whoever
\* comes first of two.
LEMMA RankOrder ==
    ASSUME NEW S, IsFiniteSet(S), NEW R, StrictOrder(R, S)
    PROVE  /\ \A x \in S : Rank(R, S, x) \in Nat /\ Rank(R, S, x) < Cardinality(S)
           /\ \A x, y \in S : <<x, y>> \in R => Rank(R, S, x) < Rank(R, S, y)
<1>1. ASSUME NEW x \in S
      PROVE  Rank(R, S, x) \in Nat /\ Rank(R, S, x) < Cardinality(S)
  <2>1. Preceding(R, S, x) \in SUBSET S /\ Preceding(R, S, x) # S
    BY DEF Preceding, StrictOrder
  <2>2. /\ IsFiniteSet(Preceding(R, S, x))
        /\ Cardinality(Preceding(R, S, x)) <= Cardinality(S)
        /\ Cardinality(Preceding(R, S, x)) # Cardinality(S)
    BY <2>1, FS_Subset
  <2>3. Cardinality(S) \in Nat /\ Cardinality(Preceding(R, S, x)) \in Nat
    BY <2>2, FS_CardinalityType
  <2> QED
    BY <2>2, <2>3 DEF Rank
<1>2. ASSUME NEW x \in S, NEW y \in S, <<x, y>> \in R
      PROVE  Rank(R, S, x) < Rank(R, S, y)
  <2>1. Preceding(R, S, x) \in SUBSET Preceding(R, S, y)
        /\ Preceding(R, S, x) # Preceding(R, S, y)
    BY <1>2 DEF Preceding, StrictOrder
  <2>2. IsFiniteSet(Preceding(R, S, y))
    <3>1. Preceding(R, S, y) \in SUBSET S
      BY DEF Preceding
    <3> QED
      BY <3>1, FS_Subset
  <2>3. /\ Cardinality(Preceding(R, S, x)) <= Cardinality(Preceding(R, S, y))
        /\ Cardinality(Preceding(R, S, x)) # Cardinality(Preceding(R, S, y))
    BY <2>1, <2>2, FS_Subset
  <2>4. Rank(R, S, x) \in Nat /\ Rank(R, S, y) \in Nat
    BY <1>1
  <2> QED
    BY <2>3, <2>4 DEF Rank
<1> QED
  BY <1>1, <1>2

\* What is numbered within an interval, no two alike, is no more than the interval holds.
LEMMA NumberedWithin ==
    ASSUME NEW T, NEW f \in [T -> Int], NEW a \in Int, NEW n \in Nat,
           \A x \in T : a <= f[x] /\ f[x] < a + n,
           \A x, y \in T : x # y => f[x] # f[y]
    PROVE  IsFiniteSet(T) /\ Cardinality(T) <= n
<1> DEFINE I == a..(a + n - 1)
<1>1. IsFiniteSet(I) /\ Cardinality(I) = n
  BY FS_Interval
<1>2. f \in Injection(T, I)
  BY DEF Injection, IsInjective
<1> HIDE DEF I
<1> QED
  BY <1>1, <1>2, FS_Injection

\* In a total order of a finite set every place is taken, by one.
LEMMA RankPlaces ==
    ASSUME NEW S, IsFiniteSet(S), NEW R, StrictOrder(R, S), TotalOn(R, S)
    PROVE  /\ \A x, y \in S : Rank(R, S, x) = Rank(R, S, y) => x = y
           /\ \A n \in Nat : n < Cardinality(S) => \E x \in S : Rank(R, S, x) = n
<1> DEFINE f == [x \in S |-> Rank(R, S, x)]
           I == 0..(Cardinality(S) - 1)
<1>1. Cardinality(S) \in Nat
  BY FS_CardinalityType
<1>2. /\ \A x \in S : Rank(R, S, x) \in Nat /\ Rank(R, S, x) < Cardinality(S)
      /\ \A x, y \in S : <<x, y>> \in R => Rank(R, S, x) < Rank(R, S, y)
  BY RankOrder
<1>3. ASSUME NEW x \in S, NEW y \in S, Rank(R, S, x) = Rank(R, S, y)
      PROVE  x = y
  <2>1. Rank(R, S, x) \in Nat /\ Rank(R, S, y) \in Nat
    BY <1>2
  <2>2. ~(<<x, y>> \in R) /\ ~(<<y, x>> \in R)
    BY <1>2, <1>3, <2>1
  <2> QED
    BY <2>2 DEF TotalOn
<1>4. IsFiniteSet(I) /\ Cardinality(I) = Cardinality(S)
  BY <1>1, FS_Interval
<1>5. f \in Injection(S, I)
  BY <1>1, <1>2, <1>3 DEF Injection, IsInjective
<1>6. f \in Surjection(S, I)
  <2> HIDE DEF I, f
  <2> QED
    BY <1>4, <1>5, FS_Injection
<1>7. ASSUME NEW n \in Nat, n < Cardinality(S)
      PROVE  \E x \in S : Rank(R, S, x) = n
  <2>1. n \in I
    BY <1>1, <1>7
  <2>2. \E x \in S : f[x] = n
    <3> HIDE DEF I, f
    <3> QED
      BY <1>6, <2>1 DEF Surjection
  <2> QED
    BY <2>2
<1> QED
  BY <1>3, <1>7

\* The first n places of a total order are taken by n.
LEMMA FirstPlaces ==
    ASSUME NEW S, IsFiniteSet(S), NEW R, StrictOrder(R, S), TotalOn(R, S),
           NEW n \in Nat, n <= Cardinality(S)
    PROVE  LET first == {x \in S : Rank(R, S, x) < n}
           IN  IsFiniteSet(first) /\ Cardinality(first) = n
<1> DEFINE first == {x \in S : Rank(R, S, x) < n}
           f == [x \in first |-> Rank(R, S, x)]
           I == 0..(n - 1)
<1>1. Cardinality(S) \in Nat /\ IsFiniteSet(first)
  <2>1. first \in SUBSET S
    OBVIOUS
  <2> HIDE DEF first
  <2> QED
    BY <2>1, FS_CardinalityType, FS_Subset
<1>2. \A x \in S : Rank(R, S, x) \in Nat
  BY RankOrder
<1>3. /\ \A x, y \in S : Rank(R, S, x) = Rank(R, S, y) => x = y
      /\ \A k \in Nat : k < Cardinality(S) => \E x \in S : Rank(R, S, x) = k
  BY RankPlaces
<1>4. IsFiniteSet(I) /\ Cardinality(I) = n
  BY FS_Interval
<1>5. f \in [first -> I] /\ \A k \in I : \E x \in first : f[x] = k
  BY <1>1, <1>2, <1>3
<1>6. \A x, y \in first : f[x] = f[y] => x = y
  BY <1>3
<1>7. f \in Bijection(first, I)
  <2> HIDE DEF f, I, first
  <2> QED
    BY <1>5, <1>6 DEF Bijection, Injection, Surjection, IsInjective
<1>8. ExistsBijection(first, I)
  <2> HIDE DEF f, I, first
  <2> QED
    BY <1>7 DEF ExistsBijection
<1>9. Cardinality(first) = n
  <2> HIDE DEF f, I, first
  <2> QED
    BY <1>1, <1>4, <1>8, FS_Bijection
<1> QED
  BY <1>1, <1>9


----------------------------------------------------------------------------
(* A list before and after a change *)

\* Old becomes New; those kept keep their order.
Changes(R, Old, Q, New, Kept) ==
    /\ IsFiniteSet(Old) /\ IsFiniteSet(New) /\ StrictOrder(R, Old) /\ StrictOrder(Q, New)
    /\ Kept \subseteq Old /\ Kept \subseteq New
    /\ \A a, b \in Kept : <<a, b>> \in R <=> <<a, b>> \in Q

\* One that is kept moves down by no more places than came and up by no more than left.
LEMMA KeptPlace ==
    ASSUME NEW R, NEW Old, NEW Q, NEW New, NEW Kept, Changes(R, Old, Q, New, Kept), NEW x \in Kept
    PROVE  /\ Rank(R, Old, x) \in Nat /\ Rank(Q, New, x) \in Nat
           /\ Rank(R, Old, x) <= Rank(Q, New, x) + Cardinality(Old \ Kept)
           /\ Rank(Q, New, x) <= Rank(R, Old, x) + Cardinality(New \ Kept)
<1>1. Rank(R, Old, x) \in Nat /\ Rank(Q, New, x) \in Nat
  BY RankOrder DEF Changes
<1>2. ASSUME NEW A, NEW B, NEW X, NEW Y, IsFiniteSet(A), IsFiniteSet(B),
             Kept \subseteq A, Kept \subseteq B,
             \A a, b \in Kept : <<a, b>> \in X <=> <<a, b>> \in Y
      PROVE  Rank(X, A, x) <= Rank(Y, B, x) + Cardinality(A \ Kept)
  <2> DEFINE P == Preceding(X, A, x)
             O == Preceding(Y, B, x)
             D == A \ Kept
  <2>1. IsFiniteSet(P) /\ IsFiniteSet(O) /\ IsFiniteSet(D)
    <3>1. P \in SUBSET A /\ O \in SUBSET B /\ D \in SUBSET A
      BY DEF Preceding
    <3> HIDE DEF P, O, D
    <3> QED
      BY <1>2, <3>1, FS_Subset
  <2>2. P \in SUBSET (O \cup D)
    BY <1>2 DEF Preceding
  <2> HIDE DEF P, O, D
  <2>3. /\ IsFiniteSet(O \cup D)
        /\ Cardinality(O \cup D) = Cardinality(O) + Cardinality(D) - Cardinality(O \cap D)
        /\ IsFiniteSet(O \cap D)
    BY <2>1, FS_Union, FS_Intersection
  <2>4. Cardinality(P) <= Cardinality(O \cup D)
    BY <2>2, <2>3, FS_Subset
  <2>5. /\ Cardinality(P) \in Nat /\ Cardinality(O) \in Nat /\ Cardinality(D) \in Nat
        /\ Cardinality(O \cap D) \in Nat
    BY <2>1, <2>3, FS_CardinalityType
  <2> QED
    BY <2>3, <2>4, <2>5 DEF Rank, P, O, D
<1> QED
  BY <1>1, <1>2 DEF Changes

\* So many places in a row are taken by no more than that, if no two are without an order.
LEMMA RanksWithin ==
    ASSUME NEW S, IsFiniteSet(S), NEW R, StrictOrder(R, S), NEW T \in SUBSET S, TotalOn(R, T),
           NEW a \in Int, NEW n \in Nat,
           \A x \in T : a <= Rank(R, S, x) /\ Rank(R, S, x) < a + n
    PROVE  IsFiniteSet(T) /\ Cardinality(T) \in Nat /\ Cardinality(T) <= n
<1> DEFINE f == [x \in T |-> Rank(R, S, x)]
<1>1. /\ \A x \in S : Rank(R, S, x) \in Nat
      /\ \A x, y \in S : <<x, y>> \in R => Rank(R, S, x) < Rank(R, S, y)
  BY RankOrder
<1>2. \A x, y \in T : x # y => Rank(R, S, x) # Rank(R, S, y)
  <2> SUFFICES ASSUME NEW x \in T, NEW y \in T, x # y
               PROVE  Rank(R, S, x) # Rank(R, S, y)
    OBVIOUS
  <2>1. <<x, y>> \in R \/ <<y, x>> \in R
    BY DEF TotalOn
  <2>2. Rank(R, S, x) \in Nat /\ Rank(R, S, y) \in Nat
    BY <1>1
  <2> QED
    BY <1>1, <2>1, <2>2
<1>3. /\ f \in [T -> Int]
      /\ \A x \in T : a <= f[x] /\ f[x] < a + n
      /\ \A x, y \in T : x # y => f[x] # f[y]
  BY <1>1, <1>2
<1> HIDE DEF f
<1>4. IsFiniteSet(T) /\ Cardinality(T) <= n
  BY <1>3, NumberedWithin
<1> QED
  BY <1>4, FS_CardinalityType

\* Of any chosen ones, those in the first o places of S, and those behind them.
InFirst(R, S, o, U) == {x \in U : Rank(R, S, x) < o}

Behind(R, S, o, U) == {x \in U : o <= Rank(R, S, x)}

\* Of those kept, no more come to be among the first places than left.
LEMMA FirstAfter ==
    ASSUME NEW R, NEW Old, NEW Q, NEW New, NEW Kept, Changes(R, Old, Q, New, Kept),
           TotalOn(R, Old) \/ Old = Kept,
           NEW U \in SUBSET Old, NEW o \in Nat
    PROVE  Cardinality(InFirst(Q, New, o, U \cap Kept))
             <= Cardinality(InFirst(R, Old, o, U)) + Cardinality(Old \ Kept)
<1> USE DEF InFirst
<1> DEFINE before == InFirst(R, Old, o, U)
           after == InFirst(Q, New, o, U \cap Kept)
           moved == after \ before
           gone == Old \ Kept
<1>1. IsFiniteSet(before) /\ IsFiniteSet(gone)
  <2>1. before \in SUBSET Old /\ gone \in SUBSET Old
    OBVIOUS
  <2> HIDE DEF before, gone
  <2> QED
    BY <2>1, FS_Subset DEF Changes
<1>2. Cardinality(before) \in Nat /\ Cardinality(gone) \in Nat
  BY <1>1, FS_CardinalityType
<1>3. moved \in SUBSET Old
  BY DEF Changes
<1>4. \A x \in moved : o <= Rank(R, Old, x) /\ Rank(R, Old, x) < o + Cardinality(gone)
  <2> SUFFICES ASSUME NEW x \in moved
               PROVE  o <= Rank(R, Old, x) /\ Rank(R, Old, x) < o + Cardinality(gone)
    OBVIOUS
  <2>1. x \in Kept /\ x \in U /\ Rank(Q, New, x) < o /\ ~(Rank(R, Old, x) < o)
    OBVIOUS
  <2>2. /\ Rank(R, Old, x) \in Nat /\ Rank(Q, New, x) \in Nat
        /\ Rank(R, Old, x) <= Rank(Q, New, x) + Cardinality(gone)
    BY <2>1, KeptPlace
  <2> HIDE DEF gone, moved
  <2> QED
    BY <1>2, <2>1, <2>2
<1>5. IsFiniteSet(moved) /\ Cardinality(moved) \in Nat /\ Cardinality(moved) <= Cardinality(gone)
  <2>1. CASE Old = Kept
    <3>1. gone = {}
      BY <2>1
    <3>2. Cardinality(gone) = 0
      BY <3>1, FS_EmptySet
    <3>3. moved = {}
      <4> SUFFICES ASSUME NEW x \in moved PROVE FALSE
        OBVIOUS
      <4>1. Rank(R, Old, x) \in Nat
        BY <1>3, RankOrder DEF Changes
      <4> HIDE DEF moved, gone
      <4> QED
        BY <1>4, <3>2, <4>1
    <3> QED
      BY <3>2, <3>3, FS_EmptySet
  <2>2. CASE TotalOn(R, Old)
    <3> HIDE DEF moved, gone
    <3>1. TotalOn(R, moved)
      BY <1>3, <2>2 DEF TotalOn
    <3> QED
      BY <1>2, <1>3, <1>4, <3>1, RanksWithin DEF Changes
  <2> QED
    BY <2>1, <2>2
<1>6. after \in SUBSET (before \cup moved)
  OBVIOUS
<1> HIDE DEF after, before, moved, gone
<1>7. /\ IsFiniteSet(before \cup moved)
      /\ Cardinality(before \cup moved)
           = Cardinality(before) + Cardinality(moved) - Cardinality(before \cap moved)
      /\ IsFiniteSet(before \cap moved)
  BY <1>1, <1>5, FS_Union, FS_Intersection
<1>8. Cardinality(after) <= Cardinality(before \cup moved) /\ IsFiniteSet(after)
  BY <1>6, <1>7, FS_Subset
<1>9. Cardinality(before \cap moved) \in Nat /\ Cardinality(after) \in Nat
  BY <1>7, <1>8, FS_CardinalityType
<1> QED
  BY <1>2, <1>5, <1>7, <1>8, <1>9 DEF after, before, gone

\* Of any chosen ones, no more come to be behind the first places than came to a place,
\* if there are no ties, or none among those chosen and nobody that came is chosen.
LEMMA LastAfter ==
    ASSUME NEW R, NEW Old, NEW Q, NEW New, NEW Kept, Changes(R, Old, Q, New, Kept),
           NEW S, NEW o \in Nat,
           \/ TotalOn(R, Old) /\ TotalOn(Q, New)
           \/ TotalOn(R, Kept \cap S) /\ (New \ Kept) \cap S = {}
    PROVE  Cardinality(Behind(Q, New, o, New \cap S))
             <= Cardinality(Behind(R, Old, o, Old \cap S)) + Cardinality(New \ Kept)
<1> USE DEF Behind
<1> DEFINE before == Behind(R, Old, o, Old \cap S)
           after == Behind(Q, New, o, New \cap S)
           entered == New \ Kept
           behind == after \ Kept
           moved == (after \cap Kept) \ before
<1>1. /\ before \in SUBSET Old /\ after \in SUBSET New /\ entered \in SUBSET New
      /\ behind \in SUBSET entered /\ moved \in SUBSET Kept /\ moved \in SUBSET Old
      /\ after \in SUBSET ((before \cup behind) \cup moved)
  BY DEF Changes
<1>2. /\ \A x \in moved : /\ x \in S /\ o <= Rank(Q, New, x) /\ ~(o <= Rank(R, Old, x))
      /\ \A x \in behind : x \in S /\ o <= Rank(Q, New, x)
  BY <1>1
<1> HIDE DEF before, after, entered, behind, moved
<1>3. /\ IsFiniteSet(before) /\ IsFiniteSet(entered) /\ IsFiniteSet(behind) /\ IsFiniteSet(moved)
      /\ Cardinality(before) \in Nat /\ Cardinality(entered) \in Nat
      /\ Cardinality(behind) \in Nat /\ Cardinality(moved) \in Nat
  <2>1. /\ IsFiniteSet(before) /\ IsFiniteSet(entered) /\ IsFiniteSet(moved)
    BY <1>1, FS_Subset DEF Changes
  <2>2. IsFiniteSet(behind)
    BY <1>1, <2>1, FS_Subset
  <2> QED
    BY <2>1, <2>2, FS_CardinalityType
<1>4. \A x \in Kept : /\ Rank(R, Old, x) \in Nat /\ Rank(Q, New, x) \in Nat
                      /\ Rank(Q, New, x) <= Rank(R, Old, x) + Cardinality(entered)
  BY KeptPlace DEF entered
<1>5. Cardinality(behind) + Cardinality(moved) <= Cardinality(entered)
  <2>1. CASE TotalOn(R, Kept \cap S) /\ (New \ Kept) \cap S = {}
    <3>1. behind = {}
      BY <1>1, <1>2, <2>1 DEF entered
    <3>2. Cardinality(behind) = 0
      BY <3>1, FS_EmptySet
    <3>3. TotalOn(R, moved)
      BY <1>1, <1>2, <2>1 DEF TotalOn
    <3>4. \A x \in moved : /\ o - Cardinality(entered) <= Rank(R, Old, x)
                           /\ Rank(R, Old, x) < (o - Cardinality(entered)) + Cardinality(entered)
      BY <1>1, <1>2, <1>3, <1>4
    <3>5. o - Cardinality(entered) \in Int
      BY <1>3
    <3>6. Cardinality(moved) <= Cardinality(entered)
      BY <1>1, <1>3, <3>3, <3>4, <3>5, RanksWithin DEF Changes
    <3> QED
      BY <1>3, <3>2, <3>6
  <2>2. CASE TotalOn(R, Old) /\ TotalOn(Q, New)
    <3> DEFINE first == {x \in New : Rank(Q, New, x) < o}
               ahead == first \ Kept
    <3>1. \A x \in New : Rank(Q, New, x) \in Nat /\ Rank(Q, New, x) < Cardinality(New)
      BY RankOrder DEF Changes
    <3>2. /\ first \in SUBSET New /\ ahead \in SUBSET entered /\ ahead \cap behind = {}
          /\ ahead \cup behind \in SUBSET entered
      BY <1>1, <1>2, <3>1 DEF entered
    <3>3. \A y \in first : y \in New /\ Rank(Q, New, y) < o
      OBVIOUS
    <3> HIDE DEF first
    <3>4. /\ IsFiniteSet(first) /\ IsFiniteSet(ahead)
          /\ Cardinality(first) \in Nat /\ Cardinality(ahead) \in Nat
      <4>1. IsFiniteSet(first)
        BY <3>2, FS_Subset DEF Changes
      <4>2. IsFiniteSet(ahead)
        BY <1>3, <3>2, FS_Subset
      <4> QED
        BY <4>1, <4>2, FS_CardinalityType
    <3>5. Cardinality(ahead) + Cardinality(behind) <= Cardinality(entered)
      <4> HIDE DEF ahead
      <4>1. Cardinality(ahead \cup behind)
              = Cardinality(ahead) + Cardinality(behind) - Cardinality(ahead \cap behind)
        BY <1>3, <3>4, FS_Union
      <4>2. Cardinality(ahead \cap behind) = 0
        BY <3>2, FS_EmptySet
      <4>3. Cardinality(ahead \cup behind) <= Cardinality(entered)
        BY <1>3, <3>2, FS_Subset
      <4> QED
        BY <1>3, <3>4, <4>1, <4>2, <4>3
    <3>6. Cardinality(moved) <= Cardinality(ahead)
      <4>1. CASE moved = {}
        BY <3>4, <4>1, FS_EmptySet
      <4>2. CASE moved # {}
        <5>1. Cardinality(first) = o
          <6>1. PICK x \in moved : TRUE
            BY <4>2
          <6>2. x \in New /\ o <= Rank(Q, New, x)
            BY <1>1, <1>2, <6>1 DEF Changes
          <6>3. Cardinality(New) \in Nat
            BY FS_CardinalityType DEF Changes
          <6>4. o <= Cardinality(New)
            BY <3>1, <6>2, <6>3
          <6> QED
            BY <2>2, <6>4, FirstPlaces DEF Changes, first
        <5>2. /\ IsFiniteSet(first \cap Kept)
              /\ Cardinality(first \cap Kept) = o - Cardinality(ahead)
              /\ Cardinality(first \cap Kept) \in Nat
          <6>1. /\ IsFiniteSet(first \cap Kept)
                /\ Cardinality(ahead) = Cardinality(first) - Cardinality(first \cap Kept)
            BY <3>4, FS_Difference, FS_Intersection
          <6> QED
            BY <3>4, <5>1, <6>1, FS_CardinalityType
        <5>3. ASSUME NEW x \in moved
              PROVE  /\ o - Cardinality(ahead) <= Rank(R, Old, x)
                     /\ Rank(R, Old, x) < (o - Cardinality(ahead)) + Cardinality(ahead)
          <6>1. x \in Kept /\ x \in Old /\ x \in New
            BY <1>1, <5>3 DEF Changes
          <6>2. first \cap Kept \in SUBSET Preceding(R, Old, x)
            <7> SUFFICES ASSUME NEW y \in first \cap Kept
                         PROVE  y \in Preceding(R, Old, x)
              OBVIOUS
            <7>1. y \in New /\ y \in Old /\ Rank(Q, New, y) < o /\ o <= Rank(Q, New, x)
              BY <1>2, <3>3, <5>3 DEF Changes
            <7>2. Rank(Q, New, x) \in Nat /\ Rank(Q, New, y) \in Nat
              BY <3>1, <6>1, <7>1
            <7>3. \A a, b \in New : <<a, b>> \in Q => Rank(Q, New, a) < Rank(Q, New, b)
              BY RankOrder DEF Changes
            <7>4. x # y /\ <<x, y>> \notin Q
              BY <6>1, <7>1, <7>2, <7>3
            <7>5. <<y, x>> \in Q
              BY <2>2, <6>1, <7>1, <7>4 DEF TotalOn
            <7>6. <<y, x>> \in R
              BY <6>1, <7>5 DEF Changes
            <7> QED
              BY <7>1, <7>6 DEF Preceding
          <6>3. IsFiniteSet(Preceding(R, Old, x))
            <7>1. Preceding(R, Old, x) \in SUBSET Old
              BY DEF Preceding
            <7> QED
              BY <7>1, FS_Subset DEF Changes
          <6>4. Cardinality(first \cap Kept) <= Rank(R, Old, x)
            BY <6>2, <6>3, FS_Subset DEF Rank
          <6>5. Rank(R, Old, x) \in Nat /\ ~(o <= Rank(R, Old, x))
            BY <1>2, <1>4, <5>3, <6>1
          <6> HIDE DEF ahead
          <6> QED
            BY <3>4, <5>2, <6>4, <6>5
        <5>4. TotalOn(R, moved)
          BY <1>1, <2>2 DEF TotalOn
        <5>5. o - Cardinality(ahead) \in Int
          BY <3>4
        <5> HIDE DEF ahead
        <5> QED
          BY <1>1, <3>4, <5>3, <5>4, <5>5, RanksWithin DEF Changes
      <4> QED
        BY <4>1, <4>2
    <3> HIDE DEF ahead
    <3> QED
      BY <1>3, <3>4, <3>5, <3>6
  <2> QED
    BY <2>1, <2>2
<1>6. /\ IsFiniteSet(before \cup behind)
      /\ Cardinality(before \cup behind)
           = Cardinality(before) + Cardinality(behind) - Cardinality(before \cap behind)
      /\ Cardinality(before \cap behind) \in Nat
  BY <1>3, FS_Union, FS_Intersection, FS_CardinalityType
<1>7. /\ IsFiniteSet((before \cup behind) \cup moved)
      /\ Cardinality((before \cup behind) \cup moved)
           = Cardinality(before \cup behind) + Cardinality(moved)
               - Cardinality((before \cup behind) \cap moved)
      /\ Cardinality((before \cup behind) \cap moved) \in Nat
      /\ Cardinality(before \cup behind) \in Nat
  BY <1>3, <1>6, FS_Union, FS_Intersection, FS_CardinalityType
<1>8. Cardinality(after) <= Cardinality((before \cup behind) \cup moved) /\ IsFiniteSet(after)
  BY <1>1, <1>7, FS_Subset
<1>9. Cardinality(after) \in Nat
  BY <1>8, FS_CardinalityType
<1> QED
  BY <1>3, <1>5, <1>6, <1>7, <1>8, <1>9 DEF after, before, entered

=============================================================================
