-------------------------- MODULE StockBookProofs --------------------------
(***************************************************************************)
(* Proofs about StockBook, for every set of products, warehouses, orders   *)
(* and quantities, and every bound.                                        *)
(***************************************************************************)
EXTENDS StockBook, FiniteSetTheorems, TLAPS

----------------------------------------------------------------------------
(* What an order asks of a slot *)

\* The lists of lines an order may have: none before it is created.
Forms == OrderForms \cup {<<>>}

\* A list of lines is a sequence of slots and positive quantities.
LEMMA FormLines ==
    ASSUME NEW items \in Forms, NEW i \in DOMAIN items
    PROVE  /\ items \in Seq(Line)
           /\ items[i].slot \in Slots
           /\ items[i].quantity \in Nat \ {0}
           /\ i \in 1..Len(items)
<1>1. items \in Seq(Line)
  BY OrderFormsAssumption DEF Forms
<1>2. i \in 1..Len(items)
  BY <1>1
<1>3. items[i] \in Line
  BY <1>1, <1>2
<1> QED
  BY <1>1, <1>2, <1>3, QuantitiesAssumption DEF Line

\* What an order asks of a slot is the quantity of its line for that slot.
LEMMA OrderedLine ==
    ASSUME NEW items \in Forms, NEW i \in DOMAIN items
    PROVE  Ordered(items, items[i].slot) = items[i].quantity
<1> DEFINE s == items[i].slot
<1> DEFINE j == CHOOSE k \in DOMAIN items : items[k].slot = s
<1>1. j \in DOMAIN items /\ items[j].slot = s
  OBVIOUS
<1>2. \E k \in DOMAIN items : items[k].slot = s
  OBVIOUS
<1>3. items \in OrderForms
  BY FormLines DEF Forms
<1>4. j = i
  BY <1>1, <1>3, OrderFormsAssumption
<1> HIDE DEF j
<1> QED
  BY <1>2, <1>4 DEF Ordered, j

\* It asks a natural number of every slot, zero of those it has no line for.
LEMMA OrderedNat ==
    ASSUME NEW items \in Forms, NEW s \in Slots
    PROVE  /\ Ordered(items, s) \in Nat
           /\ \/ Ordered(items, s) = 0
              \/ \E i \in DOMAIN items : items[i].slot = s
<1>1. CASE \E i \in DOMAIN items : items[i].slot = s
  <2>1. PICK i \in DOMAIN items : items[i].slot = s
    BY <1>1
  <2>2. Ordered(items, s) = items[i].quantity
    BY <2>1, OrderedLine
  <2> QED
    BY <2>1, <2>2, FormLines
<1>2. CASE ~ \E i \in DOMAIN items : items[i].slot = s
  BY <1>2 DEF Ordered
<1> QED
  BY <1>1, <1>2

----------------------------------------------------------------------------
(* Sums as cardinalities *)

\* The units counted for one element.
LEMMA UnitsSingle ==
    ASSUME NEW x, NEW count, count[x] \in Int
    PROVE  /\ IsFiniteSet(Units({x}, count))
           /\ Cardinality(Units({x}, count)) = IF count[x] > 0 THEN count[x] ELSE 0
<1> DEFINE N == 1..count[x]
           f == [u \in N |-> <<x, u>>]
           T == {<<x, u>> : u \in N}
<1>1. Units({x}, count) = T
  BY DEF Units
<1>2. IsFiniteSet(N) /\ Cardinality(N) = IF count[x] > 0 THEN count[x] ELSE 0
  BY FS_Interval
<1>3. f \in Bijection(N, T)
  <2>1. f \in [N -> T]
    OBVIOUS
  <2>2. \A u, v \in N : f[u] = f[v] => u = v
    OBVIOUS
  <2>3. \A e \in T : \E u \in N : f[u] = e
    OBVIOUS
  <2> QED
    BY <2>1, <2>2, <2>3 DEF Bijection, Injection, Surjection, IsInjective
<1>4. ExistsBijection(N, T)
  BY <1>3 DEF ExistsBijection
<1>5. IsFiniteSet(T) /\ Cardinality(T) = Cardinality(N)
  BY <1>2, <1>4, FS_Bijection
<1> QED
  BY <1>1, <1>2, <1>5

\* An element is a unit of x exactly when x is in the set and the unit is
\* within its count.
LEMMA UnitsMember ==
    ASSUME NEW S, NEW count, NEW e
    PROVE  e \in Units(S, count) <=> \E x \in S : \E u \in 1..count[x] : e = <<x, u>>
BY DEF Units

\* Units depends on the counts of its elements only.
LEMMA UnitsAgree ==
    ASSUME NEW S, NEW c, NEW d, \A x \in S : c[x] = d[x]
    PROVE  Units(S, c) = Units(S, d)
<1>1. \A x \in S : {<<x, u>> : u \in 1..c[x]} = {<<x, u>> : u \in 1..d[x]}
  OBVIOUS
<1> QED
  BY <1>1 DEF Units

\* A new element adds its count.
LEMMA UnitsAdd ==
    ASSUME NEW S, NEW x, x \notin S, NEW count, count[x] \in Int,
           IsFiniteSet(Units(S, count))
    PROVE  /\ IsFiniteSet(Units(S \cup {x}, count))
           /\ Cardinality(Units(S \cup {x}, count)) =
                 Cardinality(Units(S, count)) + IF count[x] > 0 THEN count[x] ELSE 0
<1>1. Units(S \cup {x}, count) = Units(S, count) \cup Units({x}, count)
  <2> DEFINE part(y) == {<<y, u>> : u \in 1..count[y]}
  <2>1. UNION {part(y) : y \in S \cup {x}} =
           (UNION {part(y) : y \in S}) \cup UNION {part(y) : y \in {x}}
    <3> HIDE DEF part
    <3> QED
      OBVIOUS
  <2> QED
    BY <2>1 DEF Units
<1>2. Units(S, count) \cap Units({x}, count) = {}
  <2>1. ASSUME NEW e, e \in Units(S, count), e \in Units({x}, count)
        PROVE  FALSE
    <3>1. PICK y \in S : \E u \in 1..count[y] : e = <<y, u>>
      BY <2>1, UnitsMember
    <3>2. PICK v \in 1..count[x] : e = <<x, v>>
      BY <2>1, UnitsMember
    <3> QED
      BY <3>1, <3>2
  <2> QED
    BY <2>1
<1>3. /\ IsFiniteSet(Units({x}, count))
      /\ Cardinality(Units({x}, count)) = IF count[x] > 0 THEN count[x] ELSE 0
  BY UnitsSingle
<1>4. Cardinality(Units(S, count)) \in Nat
  BY FS_CardinalityType
<1> DEFINE A == Units(S, count)
           B == Units({x}, count)
<1>5. IsFiniteSet(A) /\ IsFiniteSet(B) /\ A \cap B = {} /\ Cardinality(A) \in Nat
      /\ Cardinality(B) = IF count[x] > 0 THEN count[x] ELSE 0
  BY <1>2, <1>3, <1>4
<1> HIDE DEF A, B
<1>6. /\ IsFiniteSet(A \cup B)
      /\ Cardinality(A \cup B) = Cardinality(A) + Cardinality(B) - Cardinality(A \cap B)
  BY <1>5, FS_Union
<1>7. Cardinality(A \cap B) = 0
  BY <1>5, FS_EmptySet, Zenon
<1>8. Cardinality(A \cup B) = Cardinality(A) + IF count[x] > 0 THEN count[x] ELSE 0
  BY <1>5, <1>6, <1>7
<1> QED
  BY <1>1, <1>6, <1>8 DEF A, B

\* Removing an element takes its count away.
LEMMA UnitsRemove ==
    ASSUME NEW S, NEW x \in S, NEW count, count[x] \in Int,
           IsFiniteSet(Units(S, count))
    PROVE  /\ IsFiniteSet(Units(S \ {x}, count))
           /\ Cardinality(Units(S, count)) =
                 Cardinality(Units(S \ {x}, count)) + IF count[x] > 0 THEN count[x] ELSE 0
<1>1. Units(S \ {x}, count) \subseteq Units(S, count)
  <2>1. ASSUME NEW e, e \in Units(S \ {x}, count)
        PROVE  e \in Units(S, count)
    <3>1. PICK y \in S \ {x} : \E u \in 1..count[y] : e = <<y, u>>
      BY <2>1, UnitsMember
    <3> QED
      BY <3>1, UnitsMember
  <2> QED
    BY <2>1
<1>2. IsFiniteSet(Units(S \ {x}, count))
  BY <1>1, FS_Subset
<1>3. (S \ {x}) \cup {x} = S
  OBVIOUS
<1>4. x \notin S \ {x}
  OBVIOUS
<1>5. Cardinality(Units((S \ {x}) \cup {x}, count)) =
         Cardinality(Units(S \ {x}, count)) + IF count[x] > 0 THEN count[x] ELSE 0
  BY <1>2, <1>4, UnitsAdd
<1> QED
  BY <1>2, <1>3, <1>5

\* The same two facts for counts that are natural numbers.
LEMMA UnitsAddNat ==
    ASSUME NEW S, NEW x, x \notin S, NEW count, count[x] \in Nat,
           IsFiniteSet(Units(S, count))
    PROVE  /\ IsFiniteSet(Units(S \cup {x}, count))
           /\ Cardinality(Units(S \cup {x}, count))
                 = Cardinality(Units(S, count)) + count[x]
<1>1. count[x] \in Int /\ (IF count[x] > 0 THEN count[x] ELSE 0) = count[x]
  OBVIOUS
<1>2. /\ IsFiniteSet(Units(S \cup {x}, count))
      /\ Cardinality(Units(S \cup {x}, count)) =
            Cardinality(Units(S, count)) + IF count[x] > 0 THEN count[x] ELSE 0
  BY <1>1, UnitsAdd, Zenon
<1> QED
  BY <1>1, <1>2

LEMMA UnitsRemoveNat ==
    ASSUME NEW S, NEW x \in S, NEW count, count[x] \in Nat,
           IsFiniteSet(Units(S, count))
    PROVE  /\ IsFiniteSet(Units(S \ {x}, count))
           /\ Cardinality(Units(S, count))
                 = Cardinality(Units(S \ {x}, count)) + count[x]
<1>1. count[x] \in Int /\ (IF count[x] > 0 THEN count[x] ELSE 0) = count[x]
  OBVIOUS
<1>2. /\ IsFiniteSet(Units(S \ {x}, count))
      /\ Cardinality(Units(S, count)) =
            Cardinality(Units(S \ {x}, count)) + IF count[x] > 0 THEN count[x] ELSE 0
  BY <1>1, UnitsRemove, Zenon
<1> QED
  BY <1>1, <1>2

\* One element of the set has its units among all of them.
LEMMA UnitsBound ==
    ASSUME NEW S, NEW x \in S, NEW count, count[x] \in Int,
           IsFiniteSet(Units(S, count))
    PROVE  count[x] <= Cardinality(Units(S, count))
<1>1. IsFiniteSet(Units(S \ {x}, count))
  BY UnitsRemove
<1>2. Cardinality(Units(S \ {x}, count)) \in Nat
  BY <1>1, FS_CardinalityType
<1> QED
  BY <1>2, UnitsRemove

----------------------------------------------------------------------------
(* The journal stays a journal *)

LEMMA EntryType ==
    ASSUME NEW s \in Slots, NEW q \in Int, NEW type \in StockMovementType
    PROVE  Entry(type, s, q) \in Seq(Movement)
BY DEF Entry, Movement

LEMMA OrderMovementsType ==
    ASSUME lines \in [Orders -> Forms], NEW o \in Orders,
           NEW type \in StockMovementType, NEW sign \in {1, -1}
    PROVE  /\ OrderMovements(o, type, sign) \in Seq(Movement)
           /\ Len(OrderMovements(o, type, sign)) = Len(lines[o])
<1> DEFINE row(i) == [type |-> type, slot |-> lines[o][i].slot,
                      quantity |-> sign * lines[o][i].quantity, reference |-> o]
<1>1. lines[o] \in Forms
  OBVIOUS
<1>2. lines[o] \in Seq(Line)
  <2>1. <<>> \in Seq(Line)
    OBVIOUS
  <2> QED
    BY <1>1, <2>1, OrderFormsAssumption DEF Forms
<1>3. DOMAIN lines[o] = 1..Len(lines[o]) /\ Len(lines[o]) \in Nat
  BY <1>2
<1>4. \A i \in 1..Len(lines[o]) : row(i) \in Movement
  <2> TAKE i \in 1..Len(lines[o])
  <2>1. lines[o][i].slot \in Slots /\ lines[o][i].quantity \in Nat
    BY <1>1, <1>3, FormLines
  <2>2. sign * lines[o][i].quantity \in Int
    BY <2>1
  <2> QED
    BY <2>1, <2>2 DEF Movement
<1>5. OrderMovements(o, type, sign) = [i \in 1..Len(lines[o]) |-> row(i)]
  BY <1>3 DEF OrderMovements
<1> QED
  BY <1>3, <1>4, <1>5

LEMMA TransferMovementsType ==
    ASSUME NEW s \in Slots, NEW t \in Slots, NEW q \in Nat, movements \in Seq(Movement)
    PROVE  TransferMovements(s, t, q) \in Seq(Movement)
<1>1. Len(movements) + 1 \in Nat
  OBVIOUS
<1> QED
  BY <1>1 DEF TransferMovements, Movement, StockMovementType

----------------------------------------------------------------------------
(* Type correctness *)

(***************************************************************************)
(* TypeOK is inductive: in particular no handler takes a balance below     *)
(* zero or reserves more than is on hand.                                  *)
(***************************************************************************)
THEOREM TypeCorrect == Spec => []TypeOK
<1>1. Init => TypeOK
  BY MaxIntAssumption DEF Init, TypeOK
<1>2. TypeOK /\ [Next]_vars => TypeOK'
  <2> SUFFICES ASSUME TypeOK, [Next]_vars PROVE TypeOK'
    OBVIOUS
  <2> USE MaxIntAssumption, QuantitiesAssumption
  <2>0. lines \in [Orders -> Forms]
    BY DEF TypeOK, Forms
  <2>1. ASSUME NEW s \in Slots, NEW q \in Quantities, receive_stock(s, q)
        PROVE  TypeOK'
    <3>1. Entry("RECEIVE", s, q) \in Seq(Movement)
      BY EntryType DEF StockMovementType
    <3> QED
      BY <2>1, <3>1 DEF TypeOK, receive_stock, Record
  <2>2. ASSUME NEW s \in Slots, NEW q \in Int, adjust_stock(s, q)
        PROVE  TypeOK'
    <3>1. Entry("ADJUSTMENT", s, q) \in Seq(Movement)
      BY EntryType DEF StockMovementType
    <3> QED
      BY <2>2, <3>1 DEF TypeOK, adjust_stock, Record
  <2>3. ASSUME NEW p \in Products, NEW from \in Warehouses, NEW to \in Warehouses,
               NEW q \in Quantities, transfer_stock(p, from, to, q)
        PROVE  TypeOK'
    <3> DEFINE s == <<p, from>>
               t == <<p, to>>
    <3>1. s \in Slots /\ t \in Slots /\ s # t
      BY <2>3 DEF transfer_stock, Slots
    <3>2. TransferMovements(s, t, q) \in Seq(Movement)
      BY <3>1, TransferMovementsType DEF TypeOK
    <3> HIDE DEF s, t
    <3>3. /\ available(s) >= q
          /\ on_hand[t] + q <= MaxInt
          /\ on_hand' = [on_hand EXCEPT ![s] = @ - q, ![t] = @ + q]
          /\ Record(TransferMovements(s, t, q))
          /\ UNCHANGED <<reserved, status, lines>>
      BY <2>3 DEF transfer_stock, s, t
    <3>4. /\ on_hand[s] \in Nat /\ on_hand[t] \in Nat
          /\ reserved[s] \in Nat /\ reserved[t] \in Nat
          /\ q \in Nat
          /\ on_hand[s] <= MaxInt /\ reserved[t] <= on_hand[t]
      BY <3>1 DEF TypeOK
    <3>5. /\ on_hand[s] - q \in 0..MaxInt /\ reserved[s] <= on_hand[s] - q
          /\ on_hand[t] + q \in 0..MaxInt /\ reserved[t] <= on_hand[t] + q
      BY <3>3, <3>4 DEF available
    <3>6. on_hand' \in [Slots -> 0..MaxInt]
      BY <3>1, <3>3, <3>5 DEF TypeOK
    <3>7. \A x \in Slots : reserved'[x] <= on_hand'[x]
      BY <3>1, <3>3, <3>5 DEF TypeOK
    <3>8. movements' \in Seq(Movement)
      BY <3>2, <3>3 DEF TypeOK, Record
    <3> QED
      BY <3>3, <3>6, <3>7, <3>8 DEF TypeOK
  <2>4. ASSUME NEW o \in Orders, NEW items \in OrderForms, create_order(o, items)
        PROVE  TypeOK'
    BY <2>4 DEF TypeOK, create_order, OrderStatus
  <2>5. ASSUME NEW o \in Orders PROVE lines[o] \in Forms
    BY <2>0
  <2>6. ASSUME NEW o \in Orders, confirm_order(o)
        PROVE  TypeOK'
    <3>1. \A s \in Slots : /\ Ordered(lines[o], s) \in Nat
                           /\ reserved[s] + Ordered(lines[o], s) <= on_hand[s]
      <4> TAKE s \in Slots
      <4>1. Ordered(lines[o], s) \in Nat
        BY <2>5, OrderedNat
      <4>2. CASE Ordered(lines[o], s) = 0
        BY <4>1, <4>2 DEF TypeOK
      <4>3. CASE \E i \in DOMAIN lines[o] : lines[o][i].slot = s
        <5>1. PICK i \in DOMAIN lines[o] : lines[o][i].slot = s
          BY <4>3
        <5>2. Ordered(lines[o], s) = lines[o][i].quantity
          BY <2>5, <5>1, OrderedLine
        <5>3. available(s) >= Ordered(lines[o], s)
          BY <2>6, <5>1, <5>2 DEF confirm_order
        <5> QED
          BY <4>1, <5>3 DEF TypeOK, available
      <4> QED
        BY <4>2, <4>3, <2>5, OrderedNat
    <3>2. OrderMovements(o, "RESERVE", -1) \in Seq(Movement)
      BY <2>0, OrderMovementsType DEF StockMovementType
    <3> QED
      BY <2>6, <3>1, <3>2 DEF TypeOK, confirm_order, Record, OrderStatus
  <2>7. ASSUME NEW o \in Orders, process_order(o) \/ complete_order(o) \/ cancel_pending(o)
        PROVE  TypeOK'
    BY <2>7 DEF TypeOK, process_order, complete_order, cancel_pending, OrderStatus
  <2>8. ASSUME NEW o \in Orders, CoversRelease(o), NEW s \in Slots
        PROVE  Ordered(lines[o], s) \in Nat /\ Ordered(lines[o], s) <= reserved[s]
    <3>1. Ordered(lines[o], s) \in Nat
      BY <2>5, OrderedNat
    <3>2. CASE \E i \in DOMAIN lines[o] : lines[o][i].slot = s
      <4>1. PICK i \in DOMAIN lines[o] : lines[o][i].slot = s
        BY <3>2
      <4>2. Ordered(lines[o], s) = lines[o][i].quantity
        BY <2>5, <4>1, OrderedLine
      <4>3. reserved[lines[o][i].slot] >= lines[o][i].quantity
        BY <2>8, <4>1 DEF CoversRelease
      <4>4. reserved[s] \in Nat
        BY DEF TypeOK
      <4> QED
        BY <3>1, <4>1, <4>2, <4>3, <4>4
    <3>3. CASE Ordered(lines[o], s) = 0
      <4>1. reserved[s] \in Nat
        BY DEF TypeOK
      <4> QED
        BY <3>3, <4>1
    <3> QED
      BY <3>2, <3>3, <2>5, OrderedNat
  <2>9. ASSUME NEW o \in Orders, ship_order(o)
        PROVE  TypeOK'
    <3>1. \A s \in Slots : /\ Ordered(lines[o], s) \in Nat
                           /\ Ordered(lines[o], s) <= reserved[s]
      BY <2>8, <2>9 DEF ship_order, CoversShipment
    <3>2. OrderMovements(o, "SHIPMENT", -1) \in Seq(Movement)
      BY <2>0, OrderMovementsType DEF StockMovementType
    <3> QED
      BY <2>9, <3>1, <3>2 DEF TypeOK, ship_order, Record, OrderStatus
  <2>10. ASSUME NEW o \in Orders, cancel_holding(o)
         PROVE  TypeOK'
    <3>1. \A s \in Slots : /\ Ordered(lines[o], s) \in Nat
                           /\ Ordered(lines[o], s) <= reserved[s]
      BY <2>8, <2>10 DEF cancel_holding
    <3>2. OrderMovements(o, "RELEASE", 1) \in Seq(Movement)
      BY <2>0, OrderMovementsType DEF StockMovementType
    <3> QED
      BY <2>10, <3>1, <3>2 DEF TypeOK, cancel_holding, Record, OrderStatus
  <2>11. CASE UNCHANGED vars
    BY <2>11 DEF TypeOK, vars
  <2>12. \A q \in Quantities : q \in Int /\ -q \in Int
    OBVIOUS
  <2> QED
    BY <2>1, <2>2, <2>3, <2>4, <2>6, <2>7, <2>9, <2>10, <2>11, <2>12
       DEF Next, StockStep, TransferStep, OrderStep, cancel_order
<1> QED
  BY <1>1, <1>2, PTL DEF Spec

----------------------------------------------------------------------------
(* Reservations *)

\* The reservations of every slot are finitely many units, as many as its
\* balance says.
HeldInv ==
    \A s \in Slots : /\ IsFiniteSet(HeldUnits(s))
                     /\ reserved[s] = Cardinality(HeldUnits(s))

\* The two arguments of HeldUnits.
Holders == {o \in Orders : status[o] \in Holding}
Need(s) == [o \in Orders |-> Ordered(lines[o], s)]

\* Orders that keep their reservation, and keep the same holders, leave the
\* units held as they are.
LEMMA HeldKept ==
    ASSUME Holders' = Holders, reserved' = reserved, HeldInv,
           \A o \in Holders : lines'[o] = lines[o]
    PROVE  HeldInv'
<1> SUFFICES ASSUME NEW s \in Slots
             PROVE  HeldUnits(s)' = HeldUnits(s)
  BY DEF HeldInv
<1>1. \A o \in Holders : Need(s)'[o] = Need(s)[o]
  BY DEF Need, Holders
<1>2. Units(Holders, Need(s)') = Units(Holders, Need(s))
  BY <1>1, UnitsAgree
<1> QED
  BY <1>2 DEF HeldUnits, Holders, Need

LEMMA HeldTaken ==
    ASSUME NEW o \in Orders, o \notin Holders, Holders' = Holders \cup {o},
           lines \in [Orders -> Forms], lines' = lines, HeldInv,
           reserved' = [s \in Slots |-> reserved[s] + Ordered(lines[o], s)]
    PROVE  HeldInv'
<1> SUFFICES ASSUME NEW s \in Slots
             PROVE  /\ IsFiniteSet(HeldUnits(s)')
                    /\ reserved'[s] = Cardinality(HeldUnits(s)')
  BY DEF HeldInv
<1>1. Need(s)[o] = Ordered(lines[o], s) /\ Need(s)[o] \in Nat
  BY OrderedNat DEF Need
<1>2. IsFiniteSet(Units(Holders, Need(s))) /\ reserved[s] = Cardinality(Units(Holders, Need(s)))
  BY DEF HeldInv, HeldUnits, Holders, Need
<1>3. Cardinality(Units(Holders, Need(s))) \in Nat
  BY <1>2, FS_CardinalityType
<1>4. /\ IsFiniteSet(Units(Holders \cup {o}, Need(s)))
      /\ Cardinality(Units(Holders \cup {o}, Need(s)))
            = Cardinality(Units(Holders, Need(s))) + Need(s)[o]
  BY <1>1, <1>2, UnitsAddNat
<1>5. HeldUnits(s)' = Units(Holders \cup {o}, Need(s))
  BY DEF HeldUnits, Holders, Need
<1> QED
  BY <1>1, <1>2, <1>4, <1>5

LEMMA HeldGivenBack ==
    ASSUME NEW o \in Holders, Holders' = Holders \ {o},
           lines \in [Orders -> Forms], lines' = lines, HeldInv,
           reserved' = [s \in Slots |-> reserved[s] - Ordered(lines[o], s)]
    PROVE  HeldInv'
<1> SUFFICES ASSUME NEW s \in Slots
             PROVE  /\ IsFiniteSet(HeldUnits(s)')
                    /\ reserved'[s] = Cardinality(HeldUnits(s)')
  BY DEF HeldInv
<1>0. o \in Orders
  BY DEF Holders
<1>1. Need(s)[o] = Ordered(lines[o], s) /\ Need(s)[o] \in Nat
  BY <1>0, OrderedNat DEF Need
<1>2. IsFiniteSet(Units(Holders, Need(s))) /\ reserved[s] = Cardinality(Units(Holders, Need(s)))
  BY DEF HeldInv, HeldUnits, Holders, Need
<1>3. /\ IsFiniteSet(Units(Holders \ {o}, Need(s)))
      /\ Cardinality(Units(Holders, Need(s)))
            = Cardinality(Units(Holders \ {o}, Need(s))) + Need(s)[o]
  BY <1>1, <1>2, UnitsRemoveNat
<1>4. Cardinality(Units(Holders \ {o}, Need(s))) \in Nat
  BY <1>3, FS_CardinalityType
<1>5. HeldUnits(s)' = Units(Holders \ {o}, Need(s))
  BY DEF HeldUnits, Holders, Need
<1> QED
  BY <1>1, <1>2, <1>3, <1>4, <1>5

\* The inductive step for HeldInv.
LEMMA HeldStep == TypeOK /\ HeldInv /\ [Next]_vars => HeldInv'
<1> SUFFICES ASSUME TypeOK, HeldInv, [Next]_vars PROVE HeldInv'
  OBVIOUS
<1>0. lines \in [Orders -> Forms] /\ status \in [Orders -> OrderStatus \cup {"NONE"}]
  BY DEF TypeOK, Forms
<1>1. CASE UNCHANGED <<reserved, status, lines>>
  BY <1>1, HeldKept DEF Holders
<1>2. ASSUME NEW o \in Orders, NEW items \in OrderForms, create_order(o, items)
      PROVE  HeldInv'
  <2>1. Holders' = Holders /\ o \notin Holders
    BY <1>0, <1>2 DEF create_order, Holders, Holding
  <2>2. \A x \in Holders : lines'[x] = lines[x]
    BY <1>0, <1>2, <2>1 DEF create_order
  <2> QED
    BY <1>2, <2>1, <2>2, HeldKept DEF create_order
<1>3. ASSUME NEW o \in Orders, process_order(o) \/ complete_order(o) \/ cancel_pending(o)
      PROVE  HeldInv'
  <2>1. Holders' = Holders
    BY <1>0, <1>3 DEF process_order, complete_order, cancel_pending, Holders, Holding
  <2>2. reserved' = reserved /\ lines' = lines
    BY <1>3 DEF process_order, complete_order, cancel_pending
  <2> QED
    BY <2>1, <2>2, HeldKept
<1>4. ASSUME NEW o \in Orders, confirm_order(o)
      PROVE  HeldInv'
  <2>1. o \notin Holders /\ Holders' = Holders \cup {o}
    BY <1>0, <1>4 DEF confirm_order, Holders, Holding
  <2> QED
    BY <1>0, <1>4, <2>1, HeldTaken DEF confirm_order
<1>5. ASSUME NEW o \in Orders, ship_order(o) \/ cancel_holding(o)
      PROVE  HeldInv'
  <2>1. o \in Holders /\ Holders' = Holders \ {o}
    BY <1>0, <1>5 DEF ship_order, cancel_holding, Holders, Holding
  <2>2. /\ reserved' = [s \in Slots |-> reserved[s] - Ordered(lines[o], s)]
        /\ lines' = lines
    BY <1>5 DEF ship_order, cancel_holding
  <2> QED
    BY <1>0, <2>1, <2>2, HeldGivenBack
<1>6. StockStep \/ TransferStep \/ UNCHANGED vars => UNCHANGED <<reserved, status, lines>>
  BY DEF StockStep, TransferStep, receive_stock, adjust_stock, transfer_stock, vars
<1> QED
  BY <1>1, <1>2, <1>3, <1>4, <1>5, <1>6 DEF Next, OrderStep, cancel_order

LEMMA HeldInit == Init => HeldInv
<1> SUFFICES ASSUME Init, NEW s \in Slots
             PROVE  IsFiniteSet(HeldUnits(s)) /\ reserved[s] = Cardinality(HeldUnits(s))
  BY DEF HeldInv
<1>1. {o \in Orders : status[o] \in Holding} = {}
  BY DEF Init, Holding
<1>2. HeldUnits(s) = {}
  BY <1>1 DEF HeldUnits, Units
<1>3. IsFiniteSet({}) /\ Cardinality({}) = 0
  BY FS_EmptySet
<1> QED
  BY <1>2, <1>3 DEF Init

(***************************************************************************)
(* quantity_reserved is at all times exactly the sum of what confirmed and *)
(* processing orders ask of the balance.                                   *)
(***************************************************************************)
THEOREM ReservationsExact == Spec => []ReservedIsHeld
<1>1. Init => HeldInv
  BY HeldInit
<1>2. TypeOK /\ HeldInv /\ [Next]_vars => HeldInv'
  BY HeldStep
<1>3. HeldInv => ReservedIsHeld
  BY DEF HeldInv, ReservedIsHeld
<1> QED
  BY <1>1, <1>2, <1>3, TypeCorrect, PTL DEF Spec

(***************************************************************************)
(* RESERVATION_INVALID is never answered: an order that holds a            *)
(* reservation can always be shipped or cancelled.                         *)
(***************************************************************************)
THEOREM ReservationsSuffice == Spec => []ReservationsCover
<1>1. TypeOK /\ HeldInv => ReservationsCover
  <2> SUFFICES ASSUME TypeOK, HeldInv, NEW o \in Holders, NEW i \in DOMAIN lines[o]
               PROVE  /\ reserved[lines[o][i].slot] >= lines[o][i].quantity
                      /\ on_hand[lines[o][i].slot] >= lines[o][i].quantity
    BY DEF ReservationsCover, CoversShipment, CoversRelease, Holders
  <2> DEFINE s == lines[o][i].slot
  <2>1. o \in Orders /\ lines[o] \in Forms
    BY DEF TypeOK, Forms, Holders
  <2>2. s \in Slots /\ lines[o][i].quantity \in Nat
    BY <2>1, FormLines
  <2>3. Need(s)[o] = lines[o][i].quantity
    BY <2>1, OrderedLine DEF Need
  <2> HIDE DEF s
  <2>4. IsFiniteSet(Units(Holders, Need(s))) /\ reserved[s] = Cardinality(Units(Holders, Need(s)))
    BY <2>2 DEF HeldInv, HeldUnits, Holders, Need
  <2>5. lines[o][i].quantity <= reserved[s]
    BY <2>2, <2>3, <2>4, UnitsBound
  <2>6. reserved[s] \in Nat /\ on_hand[s] \in Nat /\ reserved[s] <= on_hand[s]
    BY <2>2 DEF TypeOK
  <2> QED
    BY <2>2, <2>5, <2>6 DEF s
<1>2. Spec => []HeldInv
  BY HeldInit, HeldStep, TypeCorrect, PTL DEF Spec
<1> QED
  BY <1>1, <1>2, TypeCorrect, PTL

----------------------------------------------------------------------------
(* The journal *)

\* The rows of a journal that Flow counts.
Rows(journal, s, types) ==
    {i \in DOMAIN journal : journal[i].slot = s /\ journal[i].type \in types}

\* Rows that do not concern the slot and the types leave the flow as it is.
LEMMA FlowSame ==
    ASSUME NEW m \in Seq(Movement), NEW r \in Seq(Movement), NEW s, NEW types, NEW sign \in Int,
           Rows(r, s, types) = {}
    PROVE  Flow(m \o r, s, types, sign) = Flow(m, s, types, sign)
<1> DEFINE c == [i \in DOMAIN m |-> sign * m[i].quantity]
           d == [i \in DOMAIN (m \o r) |-> sign * (m \o r)[i].quantity]
<1>1. /\ DOMAIN m = 1..Len(m) /\ DOMAIN r = 1..Len(r)
      /\ DOMAIN (m \o r) = 1..(Len(m) + Len(r))
      /\ Len(m) \in Nat /\ Len(r) \in Nat
  OBVIOUS
<1>2. \A i \in DOMAIN m : i \in DOMAIN (m \o r) /\ (m \o r)[i] = m[i]
  BY <1>1
<1>3. ASSUME NEW i \in DOMAIN (m \o r), i \notin DOMAIN m
      PROVE  i - Len(m) \in DOMAIN r /\ (m \o r)[i] = r[i - Len(m)]
  BY <1>1, <1>3
<1>4. Rows(m \o r, s, types) = Rows(m, s, types)
  BY <1>2, <1>3 DEF Rows
<1>5. \A i \in Rows(m, s, types) : c[i] = d[i]
  BY <1>2 DEF Rows
<1>6. Units(Rows(m, s, types), c) = Units(Rows(m, s, types), d)
  BY <1>5, UnitsAgree
<1> QED
  BY <1>4, <1>6 DEF Flow, Rows

\* A single row that does adds its quantity, if that has the right sign.
LEMMA FlowMore ==
    ASSUME NEW m \in Seq(Movement), NEW r \in Seq(Movement), NEW s, NEW types, NEW sign \in Int,
           NEW j, Rows(r, s, types) = {j}, IsFiniteSet(Flow(m, s, types, sign))
    PROVE  /\ IsFiniteSet(Flow(m \o r, s, types, sign))
           /\ Cardinality(Flow(m \o r, s, types, sign)) =
                 Cardinality(Flow(m, s, types, sign))
                    + IF sign * r[j].quantity > 0 THEN sign * r[j].quantity ELSE 0
<1> DEFINE c == [i \in DOMAIN m |-> sign * m[i].quantity]
           d == [i \in DOMAIN (m \o r) |-> sign * (m \o r)[i].quantity]
           k == Len(m) + j
<1>1. /\ DOMAIN m = 1..Len(m) /\ DOMAIN r = 1..Len(r)
      /\ DOMAIN (m \o r) = 1..(Len(m) + Len(r))
      /\ Len(m) \in Nat /\ Len(r) \in Nat
  OBVIOUS
<1>2. j \in DOMAIN r /\ r[j].slot = s /\ r[j].type \in types
  BY DEF Rows
<1>3. \A i \in DOMAIN m : i \in DOMAIN (m \o r) /\ (m \o r)[i] = m[i]
  BY <1>1
<1>4. ASSUME NEW i \in DOMAIN (m \o r), i \notin DOMAIN m
      PROVE  i - Len(m) \in DOMAIN r /\ (m \o r)[i] = r[i - Len(m)]
  BY <1>1, <1>4
<1>5. k \in DOMAIN (m \o r) /\ k \notin DOMAIN m /\ (m \o r)[k] = r[j]
  BY <1>1, <1>2
<1>6. Rows(m \o r, s, types) = Rows(m, s, types) \cup {k}
  <2>1. ASSUME NEW i \in Rows(m \o r, s, types), i \notin DOMAIN m
        PROVE  i = k
    <3>1. i - Len(m) \in Rows(r, s, types) /\ i \in Int
      BY <1>1, <1>4, <2>1 DEF Rows
    <3>2. i - Len(m) = j
      BY <3>1
    <3> QED
      BY <1>1, <3>1, <3>2
  <2>2. k \in Rows(m \o r, s, types)
    BY <1>2, <1>5 DEF Rows
  <2>3. \A i \in DOMAIN m : i \in Rows(m \o r, s, types) <=> i \in Rows(m, s, types)
    BY <1>3 DEF Rows
  <2> QED
    BY <2>1, <2>2, <2>3 DEF Rows
<1>7. k \notin Rows(m, s, types)
  BY <1>5 DEF Rows
<1>8. \A i \in Rows(m, s, types) : c[i] = d[i]
  BY <1>3 DEF Rows
<1>9. Units(Rows(m, s, types), c) = Units(Rows(m, s, types), d)
  BY <1>8, UnitsAgree
<1>10. d[k] = sign * r[j].quantity /\ d[k] \in Int
  <2>1. r[j] \in Movement
    BY <1>2
  <2>2. r[j].quantity \in Int
    BY <2>1 DEF Movement
  <2> QED
    BY <1>5, <2>2
<1>11. Flow(m, s, types, sign) = Units(Rows(m, s, types), d)
  BY <1>9 DEF Flow, Rows
<1>12. Flow(m \o r, s, types, sign) = Units(Rows(m, s, types) \cup {k}, d)
  BY <1>6 DEF Flow, Rows
<1> HIDE DEF c, d, k
<1>13. /\ IsFiniteSet(Units(Rows(m, s, types) \cup {k}, d))
       /\ Cardinality(Units(Rows(m, s, types) \cup {k}, d)) =
             Cardinality(Units(Rows(m, s, types), d)) + IF d[k] > 0 THEN d[k] ELSE 0
  BY <1>7, <1>10, <1>11, UnitsAdd, Zenon
<1> QED
  BY <1>10, <1>11, <1>12, <1>13

\* n is what the journal m adds up to at slot s.
Balanced(m, s, n) ==
    /\ IsFiniteSet(Flow(m, s, Physical, 1))
    /\ IsFiniteSet(Flow(m, s, Physical, -1))
    /\ n + Cardinality(Flow(m, s, Physical, -1)) = Cardinality(Flow(m, s, Physical, 1))

LEMMA BalanceSame ==
    ASSUME NEW m \in Seq(Movement), NEW r \in Seq(Movement), NEW s, NEW n,
           Rows(r, s, Physical) = {}, Balanced(m, s, n)
    PROVE  Balanced(m \o r, s, n)
BY FlowSame DEF Balanced

LEMMA BalanceMore ==
    ASSUME NEW m \in Seq(Movement), NEW r \in Seq(Movement), NEW s, NEW n \in Int,
           NEW j, Rows(r, s, Physical) = {j}, Balanced(m, s, n)
    PROVE  Balanced(m \o r, s, n + r[j].quantity)
<1> DEFINE q == r[j].quantity
           in == Flow(m, s, Physical, 1)
           out == Flow(m, s, Physical, -1)
<1>1. q \in Int
  <2>1. j \in DOMAIN r
    BY DEF Rows
  <2>2. r[j] \in Movement
    BY <2>1
  <2> QED
    BY <2>2 DEF Movement
<1>2. IsFiniteSet(in) /\ IsFiniteSet(out) /\ n + Cardinality(out) = Cardinality(in)
  BY DEF Balanced
<1>3. Cardinality(in) \in Nat /\ Cardinality(out) \in Nat
  BY <1>2, FS_CardinalityType
<1>4. /\ IsFiniteSet(Flow(m \o r, s, Physical, 1))
      /\ Cardinality(Flow(m \o r, s, Physical, 1)) =
            Cardinality(in) + IF 1 * q > 0 THEN 1 * q ELSE 0
  BY <1>2, FlowMore
<1>5. /\ IsFiniteSet(Flow(m \o r, s, Physical, -1))
      /\ Cardinality(Flow(m \o r, s, Physical, -1)) =
            Cardinality(out) + IF (-1) * q > 0 THEN (-1) * q ELSE 0
  BY <1>2, FlowMore
<1> HIDE DEF q, in, out
<1>6. n + q + Cardinality(Flow(m \o r, s, Physical, -1)) = Cardinality(Flow(m \o r, s, Physical, 1))
  BY <1>1, <1>2, <1>3, <1>4, <1>5
<1> QED
  BY <1>4, <1>5, <1>6 DEF Balanced, q

\* The journal balances at every slot.
JournalInv == \A s \in Slots : Balanced(movements, s, on_hand[s])

\* The rows of one type that an order writes for a slot: one where the order has
\* a line, else none.
LEMMA OrderRows ==
    ASSUME lines \in [Orders -> Forms], NEW o \in Orders, NEW s \in Slots,
           NEW types, NEW type \in types, NEW sign \in {1, -1},
           NEW r, r = OrderMovements(o, type, sign)
    PROVE  \/ Rows(r, s, types) = {} /\ Ordered(lines[o], s) = 0
           \/ \E j : /\ Rows(r, s, types) = {j}
                    /\ r[j].quantity = sign * Ordered(lines[o], s)
<1>1. lines[o] \in Forms
  OBVIOUS
<1>2. DOMAIN r = DOMAIN lines[o]
  BY DEF OrderMovements
<1>3. \A i \in DOMAIN lines[o] : /\ r[i].slot = lines[o][i].slot
                                /\ r[i].type = type
                                /\ r[i].quantity = sign * lines[o][i].quantity
  BY DEF OrderMovements
<1>4. CASE \E j \in DOMAIN lines[o] : lines[o][j].slot = s
  <2>1. PICK j \in DOMAIN lines[o] : lines[o][j].slot = s
    BY <1>4
  <2>2. Ordered(lines[o], s) = lines[o][j].quantity
    BY <1>1, <2>1, OrderedLine
  <2>3. \A i \in DOMAIN lines[o] : lines[o][i].slot = s => i = j
    <3>1. lines[o] \in OrderForms
      BY <1>1, <2>1 DEF Forms
    <3> QED
      BY <2>1, <3>1, OrderFormsAssumption
  <2>4. Rows(r, s, types) = {j}
    BY <1>2, <1>3, <2>1, <2>3 DEF Rows
  <2> QED
    BY <1>3, <2>1, <2>2, <2>4
<1>5. CASE ~ \E j \in DOMAIN lines[o] : lines[o][j].slot = s
  <2>1. Ordered(lines[o], s) = 0
    BY <1>5 DEF Ordered
  <2>2. Rows(r, s, types) = {}
    BY <1>2, <1>3, <1>5 DEF Rows
  <2> QED
    BY <2>1, <2>2
<1> QED
  BY <1>4, <1>5

\* An order writes no rows of another type.
LEMMA OrderRowsOther ==
    ASSUME NEW o, NEW s, NEW types, NEW type, type \notin types, NEW sign
    PROVE  Rows(OrderMovements(o, type, sign), s, types) = {}
BY DEF Rows, OrderMovements

\* The inductive step for JournalInv.
LEMMA JournalStep == TypeOK /\ JournalInv /\ [Next]_vars => JournalInv'
<1> SUFFICES ASSUME TypeOK, JournalInv, [Next]_vars PROVE JournalInv'
  OBVIOUS
<1>0. /\ lines \in [Orders -> Forms]
      /\ movements \in Seq(Movement)
      /\ on_hand \in [Slots -> Int]
  BY DEF TypeOK, Forms
<1>1. CASE UNCHANGED <<on_hand, movements>>
  BY <1>1 DEF JournalInv
<1>2. ASSUME NEW x \in Slots, NEW q \in Int, NEW type \in Physical \cap StockMovementType,
             on_hand' = [on_hand EXCEPT ![x] = @ + q], Record(Entry(type, x, q))
      PROVE  JournalInv'
  <2> DEFINE r == Entry(type, x, q)
  <2>1. r \in Seq(Movement) /\ DOMAIN r = {1}
        /\ r[1].slot = x /\ r[1].type = type /\ r[1].quantity = q
    BY EntryType DEF Entry
  <2>2. movements' = movements \o r
    BY <1>2 DEF Record
  <2> HIDE DEF r
  <2> SUFFICES ASSUME NEW s \in Slots PROVE Balanced(movements \o r, s, on_hand'[s])
    BY <2>2 DEF JournalInv
  <2>3. Balanced(movements, s, on_hand[s])
    BY DEF JournalInv
  <2>4. CASE s = x
    <3>1. Rows(r, s, Physical) = {1}
      BY <2>1, <2>4 DEF Rows
    <3>2. on_hand'[s] = on_hand[s] + r[1].quantity /\ on_hand[s] \in Int
      BY <1>0, <1>2, <2>1, <2>4
    <3>3. Balanced(movements \o r, s, on_hand[s] + r[1].quantity)
      BY <1>0, <2>1, <2>3, <3>1, <3>2, BalanceMore
    <3> QED
      BY <3>2, <3>3
  <2>5. CASE s # x
    <3>1. Rows(r, s, Physical) = {}
      BY <2>1, <2>5 DEF Rows
    <3>2. on_hand'[s] = on_hand[s]
      BY <1>0, <1>2, <2>5
    <3> QED
      BY <1>0, <2>1, <2>3, <3>1, <3>2, BalanceSame
  <2> QED
    BY <2>4, <2>5
<1>3. ASSUME NEW p \in Products, NEW from \in Warehouses, NEW to \in Warehouses,
             NEW q \in Quantities, transfer_stock(p, from, to, q)
      PROVE  JournalInv'
  <2> DEFINE x == <<p, from>>
             y == <<p, to>>
             r == TransferMovements(x, y, q)
  <2>1. x \in Slots /\ y \in Slots /\ x # y /\ q \in Nat
    BY <1>3, QuantitiesAssumption DEF transfer_stock, Slots
  <2>2. /\ on_hand' = [on_hand EXCEPT ![x] = @ - q, ![y] = @ + q]
        /\ movements' = movements \o r
    BY <1>3 DEF transfer_stock, Record
  <2> HIDE DEF x, y
  <2>3. r \in Seq(Movement)
    BY <1>0, <2>1, TransferMovementsType
  <2>4. /\ DOMAIN r = {1, 2}
        /\ r[1].slot = x /\ r[1].type = "TRANSFER_OUT" /\ r[1].quantity = -q
        /\ r[2].slot = y /\ r[2].type = "TRANSFER_IN" /\ r[2].quantity = q
    BY DEF TransferMovements
  <2> HIDE DEF r
  <2> SUFFICES ASSUME NEW s \in Slots PROVE Balanced(movements \o r, s, on_hand'[s])
    BY <2>2 DEF JournalInv
  <2>5. Balanced(movements, s, on_hand[s]) /\ on_hand[s] \in Int
    BY <1>0 DEF JournalInv
  <2>6. CASE s = x
    <3>1. Rows(r, s, Physical) = {1}
      BY <2>1, <2>4, <2>6 DEF Rows, Physical
    <3>2. on_hand'[s] = on_hand[s] + r[1].quantity
      BY <1>0, <2>1, <2>2, <2>4, <2>5, <2>6
    <3>3. Balanced(movements \o r, s, on_hand[s] + r[1].quantity)
      BY <1>0, <2>3, <2>5, <3>1, BalanceMore
    <3> QED
      BY <3>2, <3>3
  <2>7. CASE s = y
    <3>1. Rows(r, s, Physical) = {2}
      BY <2>1, <2>4, <2>7 DEF Rows, Physical
    <3>2. on_hand'[s] = on_hand[s] + r[2].quantity
      BY <1>0, <2>1, <2>2, <2>4, <2>5, <2>7
    <3>3. Balanced(movements \o r, s, on_hand[s] + r[2].quantity)
      BY <1>0, <2>3, <2>5, <3>1, BalanceMore
    <3> QED
      BY <3>2, <3>3
  <2>8. CASE s # x /\ s # y
    <3>1. Rows(r, s, Physical) = {}
      BY <2>4, <2>8 DEF Rows
    <3>2. on_hand'[s] = on_hand[s]
      BY <1>0, <2>2, <2>8
    <3> QED
      BY <1>0, <2>3, <2>5, <3>1, <3>2, BalanceSame
  <2> QED
    BY <2>6, <2>7, <2>8
<1>4. ASSUME NEW o \in Orders, confirm_order(o) \/ cancel_holding(o)
      PROVE  JournalInv'
  <2>1. /\ on_hand' = on_hand
        /\ \E type \in {"RESERVE", "RELEASE"}, sign \in {1, -1} :
              movements' = movements \o OrderMovements(o, type, sign)
    BY <1>4 DEF confirm_order, cancel_holding, Record
  <2>2. PICK type \in {"RESERVE", "RELEASE"}, sign \in {1, -1} :
           movements' = movements \o OrderMovements(o, type, sign)
    BY <2>1
  <2>3. type \notin Physical /\ type \in StockMovementType
    BY DEF Physical, StockMovementType
  <2>4. OrderMovements(o, type, sign) \in Seq(Movement)
    BY <1>0, <2>3, OrderMovementsType
  <2>5. ASSUME NEW s \in Slots
        PROVE  Balanced(movements \o OrderMovements(o, type, sign), s, on_hand[s])
    BY <1>0, <2>3, <2>4, OrderRowsOther, BalanceSame DEF JournalInv
  <2> QED
    BY <2>1, <2>2, <2>5 DEF JournalInv
<1>5. ASSUME NEW o \in Orders, ship_order(o)
      PROVE  JournalInv'
  <2> DEFINE r == OrderMovements(o, "SHIPMENT", -1)
  <2>1. /\ on_hand' = [s \in Slots |-> on_hand[s] - Ordered(lines[o], s)]
        /\ movements' = movements \o r
    BY <1>5 DEF ship_order, Record
  <2>2. r \in Seq(Movement)
    BY <1>0, OrderMovementsType DEF StockMovementType
  <2> SUFFICES ASSUME NEW s \in Slots PROVE Balanced(movements \o r, s, on_hand'[s])
    BY <2>1 DEF JournalInv
  <2>3. /\ Balanced(movements, s, on_hand[s]) /\ on_hand[s] \in Int
        /\ Ordered(lines[o], s) \in Nat
    BY <1>0, OrderedNat DEF JournalInv
  <2>4. \/ Rows(r, s, Physical) = {} /\ Ordered(lines[o], s) = 0
        \/ \E j : Rows(r, s, Physical) = {j} /\ r[j].quantity = -Ordered(lines[o], s)
    <3>1. "SHIPMENT" \in Physical
      BY DEF Physical
    <3>2. (-1) * Ordered(lines[o], s) = -Ordered(lines[o], s)
      BY <2>3
    <3>3. \/ Rows(r, s, Physical) = {} /\ Ordered(lines[o], s) = 0
          \/ \E j : /\ Rows(r, s, Physical) = {j}
                   /\ r[j].quantity = (-1) * Ordered(lines[o], s)
      BY <1>0, <3>1, OrderRows
    <3> QED
      BY <3>2, <3>3
  <2> HIDE DEF r
  <2>5. CASE Rows(r, s, Physical) = {} /\ Ordered(lines[o], s) = 0
    <3>1. on_hand'[s] = on_hand[s]
      BY <2>1, <2>3, <2>5
    <3> QED
      BY <1>0, <2>2, <2>3, <2>5, <3>1, BalanceSame
  <2>6. ASSUME NEW j, Rows(r, s, Physical) = {j}, r[j].quantity = -Ordered(lines[o], s)
        PROVE  Balanced(movements \o r, s, on_hand'[s])
    <3>1. on_hand'[s] = on_hand[s] + r[j].quantity
      BY <2>1, <2>3, <2>6
    <3> QED
      BY <1>0, <2>2, <2>3, <2>6, <3>1, BalanceMore
  <2> QED
    BY <2>4, <2>5, <2>6
<1>6. ASSUME NEW s \in Slots, NEW q \in Quantities,
             receive_stock(s, q) \/ adjust_stock(s, q) \/ adjust_stock(s, -q)
      PROVE  JournalInv'
  <2>1. q \in Int /\ -q \in Int
    BY QuantitiesAssumption
  <2>2. {"RECEIVE", "ADJUSTMENT"} \subseteq Physical \cap StockMovementType
    BY DEF Physical, StockMovementType
  <2>3. CASE receive_stock(s, q)
    BY <1>2, <2>1, <2>2, <2>3 DEF receive_stock
  <2>4. ASSUME NEW d \in Int, adjust_stock(s, d) PROVE JournalInv'
    BY <1>2, <2>2, <2>4 DEF adjust_stock
  <2> QED
    BY <1>6, <2>1, <2>3, <2>4
<1>7. ASSUME NEW o \in Orders, NEW items \in OrderForms,
             \/ create_order(o, items) \/ process_order(o)
             \/ complete_order(o) \/ cancel_pending(o)
      PROVE  JournalInv'
  BY <1>1, <1>7 DEF create_order, process_order, complete_order, cancel_pending
<1>8. ASSUME NEW o \in Orders,
             process_order(o) \/ complete_order(o) \/ cancel_pending(o)
      PROVE  JournalInv'
  BY <1>1, <1>8 DEF process_order, complete_order, cancel_pending
<1> QED
  BY <1>1, <1>3, <1>4, <1>5, <1>6, <1>7, <1>8
     DEF Next, StockStep, TransferStep, OrderStep, cancel_order, vars

LEMMA JournalInit == Init => JournalInv
<1> SUFFICES ASSUME Init, NEW s \in Slots PROVE Balanced(movements, s, on_hand[s])
  BY DEF JournalInv
<1>1. movements = <<>> /\ on_hand[s] = 0
  BY DEF Init
<1>2. \A sign \in Int : Flow(movements, s, Physical, sign) = {}
  BY <1>1 DEF Flow, Units
<1>3. IsFiniteSet({}) /\ Cardinality({}) = 0
  BY FS_EmptySet
<1>4. Flow(movements, s, Physical, 1) = {} /\ Flow(movements, s, Physical, -1) = {}
  BY <1>2
<1> QED
  BY <1>1, <1>3, <1>4 DEF Balanced

(***************************************************************************)
(* The stock on hand is at all times what the receipts, adjustments,       *)
(* transfers and shipments of the journal add up to.                       *)
(***************************************************************************)
THEOREM JournalSound == Spec => []JournalExplainsStock
<1>1. JournalInv => JournalExplainsStock
  BY DEF JournalInv, Balanced, JournalExplainsStock
<1> QED
  BY <1>1, JournalInit, JournalStep, TypeCorrect, PTL DEF Spec

----------------------------------------------------------------------------
(* The journal of reservations *)

\* What an order's rows add to a flow of their type and sign.
LEMMA FlowOrder ==
    ASSUME lines \in [Orders -> Forms], NEW o \in Orders, NEW s \in Slots,
           NEW m \in Seq(Movement), NEW types, NEW type \in types \cap StockMovementType,
           NEW sign \in {1, -1},
           IsFiniteSet(Flow(m, s, types, sign)),
           NEW r, r = OrderMovements(o, type, sign)
    PROVE  /\ IsFiniteSet(Flow(m \o r, s, types, sign))
           /\ Cardinality(Flow(m \o r, s, types, sign)) =
                 Cardinality(Flow(m, s, types, sign)) + Ordered(lines[o], s)
<1>1. r \in Seq(Movement) /\ sign \in Int /\ type \in types
  BY OrderMovementsType
<1>2. Ordered(lines[o], s) \in Nat /\ Cardinality(Flow(m, s, types, sign)) \in Nat
  BY OrderedNat, FS_CardinalityType
<1>3. \/ Rows(r, s, types) = {} /\ Ordered(lines[o], s) = 0
      \/ \E j : /\ Rows(r, s, types) = {j}
               /\ r[j].quantity = sign * Ordered(lines[o], s)
  BY <1>1, OrderRows
<1>4. CASE Rows(r, s, types) = {} /\ Ordered(lines[o], s) = 0
  <2>1. Flow(m \o r, s, types, sign) = Flow(m, s, types, sign)
    BY <1>1, <1>4, FlowSame
  <2> QED
    BY <1>2, <1>4, <2>1
<1>5. CASE \E j : /\ Rows(r, s, types) = {j}
                 /\ r[j].quantity = sign * Ordered(lines[o], s)
  <2>1. PICK j : /\ Rows(r, s, types) = {j}
                 /\ r[j].quantity = sign * Ordered(lines[o], s)
    BY <1>5
  <2>2. sign * r[j].quantity = Ordered(lines[o], s)
    BY <1>2, <2>1
  <2>3. /\ IsFiniteSet(Flow(m \o r, s, types, sign))
        /\ Cardinality(Flow(m \o r, s, types, sign)) =
              Cardinality(Flow(m, s, types, sign))
                 + IF sign * r[j].quantity > 0 THEN sign * r[j].quantity ELSE 0
    BY <1>1, <2>1, FlowMore
  <2> QED
    BY <1>2, <2>2, <2>3
<1> QED
  BY <1>3, <1>4, <1>5

\* n is what the journal m says is reserved at slot s.
Settled(m, s, n) ==
    /\ IsFiniteSet(Flow(m, s, {"RESERVE"}, -1))
    /\ IsFiniteSet(Flow(m, s, {"RELEASE"}, 1))
    /\ IsFiniteSet(Flow(m, s, {"SHIPMENT"}, -1))
    /\ n + Cardinality(Flow(m, s, {"RELEASE"}, 1))
         + Cardinality(Flow(m, s, {"SHIPMENT"}, -1))
           = Cardinality(Flow(m, s, {"RESERVE"}, -1))

\* The types of the rows that orders write.
OrderTypes == {"RESERVE", "RELEASE", "SHIPMENT"}

LEMMA SettledSame ==
    ASSUME NEW m \in Seq(Movement), NEW r \in Seq(Movement), NEW s, NEW n,
           \A j \in DOMAIN r : r[j].type \notin OrderTypes, Settled(m, s, n)
    PROVE  Settled(m \o r, s, n)
<1>1. \A type \in OrderTypes : Rows(r, s, {type}) = {}
  BY DEF Rows
<1>2. /\ Flow(m \o r, s, {"RESERVE"}, -1) = Flow(m, s, {"RESERVE"}, -1)
      /\ Flow(m \o r, s, {"RELEASE"}, 1) = Flow(m, s, {"RELEASE"}, 1)
      /\ Flow(m \o r, s, {"SHIPMENT"}, -1) = Flow(m, s, {"SHIPMENT"}, -1)
  BY <1>1, FlowSame DEF OrderTypes
<1> QED
  BY <1>2 DEF Settled

LEMMA SettledOrder ==
    ASSUME lines \in [Orders -> Forms], NEW o \in Orders, NEW s \in Slots,
           NEW m \in Seq(Movement), NEW n \in Int, Settled(m, s, n)
    PROVE  LET q == Ordered(lines[o], s) IN
           /\ Settled(m \o OrderMovements(o, "RESERVE", -1), s, n + q)
           /\ Settled(m \o OrderMovements(o, "RELEASE", 1), s, n - q)
           /\ Settled(m \o OrderMovements(o, "SHIPMENT", -1), s, n - q)
<1> DEFINE q == Ordered(lines[o], s)
           rsv == OrderMovements(o, "RESERVE", -1)
           rel == OrderMovements(o, "RELEASE", 1)
           shp == OrderMovements(o, "SHIPMENT", -1)
           taken(j) == Flow(j, s, {"RESERVE"}, -1)
           released(j) == Flow(j, s, {"RELEASE"}, 1)
           shipped(j) == Flow(j, s, {"SHIPMENT"}, -1)
<1>1. OrderTypes \subseteq StockMovementType
  BY DEF OrderTypes, StockMovementType
<1>2. rsv \in Seq(Movement) /\ rel \in Seq(Movement) /\ shp \in Seq(Movement)
  BY <1>1, OrderMovementsType DEF OrderTypes
<1>3. IsFiniteSet(taken(m)) /\ IsFiniteSet(released(m)) /\ IsFiniteSet(shipped(m))
  BY DEF Settled
<1>4. /\ Cardinality(taken(m)) \in Nat
      /\ Cardinality(released(m)) \in Nat
      /\ Cardinality(shipped(m)) \in Nat
      /\ q \in Nat
      /\ n + Cardinality(released(m)) + Cardinality(shipped(m)) = Cardinality(taken(m))
  BY <1>3, FS_CardinalityType, OrderedNat DEF Settled
<1>5. /\ released(m \o rsv) = released(m) /\ shipped(m \o rsv) = shipped(m)
      /\ taken(m \o rel) = taken(m) /\ shipped(m \o rel) = shipped(m)
      /\ taken(m \o shp) = taken(m) /\ released(m \o shp) = released(m)
  <2>1. /\ Rows(rsv, s, {"RELEASE"}) = {} /\ Rows(rsv, s, {"SHIPMENT"}) = {}
        /\ Rows(rel, s, {"RESERVE"}) = {} /\ Rows(rel, s, {"SHIPMENT"}) = {}
        /\ Rows(shp, s, {"RESERVE"}) = {} /\ Rows(shp, s, {"RELEASE"}) = {}
    BY OrderRowsOther
  <2> QED
    BY <1>2, <2>1, FlowSame
<1>6. /\ IsFiniteSet(taken(m \o rsv))
      /\ Cardinality(taken(m \o rsv)) = Cardinality(taken(m)) + q
  BY <1>1, <1>3, FlowOrder DEF OrderTypes
<1>7. /\ IsFiniteSet(released(m \o rel))
      /\ Cardinality(released(m \o rel)) = Cardinality(released(m)) + q
  BY <1>1, <1>3, FlowOrder DEF OrderTypes
<1>8. /\ IsFiniteSet(shipped(m \o shp))
      /\ Cardinality(shipped(m \o shp)) = Cardinality(shipped(m)) + q
  BY <1>1, <1>3, FlowOrder DEF OrderTypes
<1>9. /\ Settled(m \o rsv, s, n + q)
      /\ Settled(m \o rel, s, n - q)
      /\ Settled(m \o shp, s, n - q)
  <2> HIDE DEF q, rsv, rel, shp
  <2>1. Settled(m \o rsv, s, n + q)
    BY <1>3, <1>4, <1>5, <1>6 DEF Settled
  <2>2. Settled(m \o rel, s, n - q)
    BY <1>3, <1>4, <1>5, <1>7 DEF Settled
  <2>3. Settled(m \o shp, s, n - q)
    BY <1>3, <1>4, <1>5, <1>8 DEF Settled
  <2> QED
    BY <2>1, <2>2, <2>3
<1> QED
  BY <1>9

\* The journal settles at every slot.
SettledInv == \A s \in Slots : Settled(movements, s, reserved[s])

\* The inductive step for SettledInv.
LEMMA SettledStep == TypeOK /\ SettledInv /\ [Next]_vars => SettledInv'
<1> SUFFICES ASSUME TypeOK, SettledInv, [Next]_vars PROVE SettledInv'
  OBVIOUS
<1>0. /\ lines \in [Orders -> Forms]
      /\ movements \in Seq(Movement)
      /\ reserved \in [Slots -> Int]
  BY DEF TypeOK, Forms
<1>1. CASE UNCHANGED <<reserved, movements>>
  BY <1>1 DEF SettledInv
<1>2. ASSUME NEW r \in Seq(Movement), reserved' = reserved, movements' = movements \o r,
             \A j \in DOMAIN r : r[j].type \notin OrderTypes
      PROVE  SettledInv'
  BY <1>0, <1>2, SettledSame DEF SettledInv
<1>3. ASSUME NEW s \in Slots, NEW q \in Int, NEW type \in {"RECEIVE", "ADJUSTMENT"},
             reserved' = reserved, Record(Entry(type, s, q))
      PROVE  SettledInv'
  <2>1. Entry(type, s, q) \in Seq(Movement)
    BY EntryType DEF StockMovementType
  <2>2. \A j \in DOMAIN Entry(type, s, q) : Entry(type, s, q)[j].type \notin OrderTypes
    BY DEF Entry, OrderTypes
  <2> QED
    BY <1>2, <1>3, <2>1, <2>2 DEF Record
<1>4. ASSUME StockStep PROVE SettledInv'
  <2>1. \A q \in Quantities : q \in Int /\ -q \in Int
    BY QuantitiesAssumption
  <2>2. \E s \in Slots, q \in Int, type \in {"RECEIVE", "ADJUSTMENT"} :
           reserved' = reserved /\ Record(Entry(type, s, q))
    BY <1>4, <2>1 DEF StockStep, receive_stock, adjust_stock
  <2> QED
    BY <1>3, <2>2
<1>5. ASSUME NEW p \in Products, NEW from \in Warehouses, NEW to \in Warehouses,
             NEW q \in Quantities, transfer_stock(p, from, to, q)
      PROVE  SettledInv'
  <2> DEFINE x == <<p, from>>
             y == <<p, to>>
             r == TransferMovements(x, y, q)
  <2>1. x \in Slots /\ y \in Slots /\ q \in Nat
    BY QuantitiesAssumption DEF Slots
  <2>2. reserved' = reserved /\ movements' = movements \o r
    BY <1>5 DEF transfer_stock, Record
  <2> HIDE DEF x, y
  <2>3. r \in Seq(Movement)
    BY <1>0, <2>1, TransferMovementsType
  <2>4. \A j \in DOMAIN r : r[j].type \notin OrderTypes
    BY DEF TransferMovements, OrderTypes
  <2> QED
    BY <1>2, <2>2, <2>3, <2>4
<1>6. ASSUME NEW o \in Orders, confirm_order(o)
      PROVE  SettledInv'
  <2>1. /\ reserved' = [s \in Slots |-> reserved[s] + Ordered(lines[o], s)]
        /\ movements' = movements \o OrderMovements(o, "RESERVE", -1)
    BY <1>6 DEF confirm_order, Record
  <2>2. ASSUME NEW s \in Slots
        PROVE  Settled(movements \o OrderMovements(o, "RESERVE", -1), s,
                       reserved[s] + Ordered(lines[o], s))
    BY <1>0, SettledOrder DEF SettledInv
  <2> QED
    BY <2>1, <2>2 DEF SettledInv
<1>7. ASSUME NEW o \in Orders, ship_order(o)
      PROVE  SettledInv'
  <2>1. /\ reserved' = [s \in Slots |-> reserved[s] - Ordered(lines[o], s)]
        /\ movements' = movements \o OrderMovements(o, "SHIPMENT", -1)
    BY <1>7 DEF ship_order, Record
  <2>2. ASSUME NEW s \in Slots
        PROVE  Settled(movements \o OrderMovements(o, "SHIPMENT", -1), s,
                       reserved[s] - Ordered(lines[o], s))
    BY <1>0, SettledOrder DEF SettledInv
  <2> QED
    BY <2>1, <2>2 DEF SettledInv
<1>8. ASSUME NEW o \in Orders, cancel_holding(o)
      PROVE  SettledInv'
  <2>1. /\ reserved' = [s \in Slots |-> reserved[s] - Ordered(lines[o], s)]
        /\ movements' = movements \o OrderMovements(o, "RELEASE", 1)
    BY <1>8 DEF cancel_holding, Record
  <2>2. ASSUME NEW s \in Slots
        PROVE  Settled(movements \o OrderMovements(o, "RELEASE", 1), s,
                       reserved[s] - Ordered(lines[o], s))
    BY <1>0, SettledOrder DEF SettledInv
  <2> QED
    BY <2>1, <2>2 DEF SettledInv
<1>9. ASSUME NEW o \in Orders,
             \/ \E items \in OrderForms : create_order(o, items)
             \/ process_order(o) \/ complete_order(o) \/ cancel_pending(o)
      PROVE  SettledInv'
  BY <1>1, <1>9 DEF create_order, process_order, complete_order, cancel_pending
<1> QED
  BY <1>1, <1>4, <1>5, <1>6, <1>7, <1>8, <1>9
     DEF Next, TransferStep, OrderStep, cancel_order, vars

LEMMA SettledInit == Init => SettledInv
<1> SUFFICES ASSUME Init, NEW s \in Slots PROVE Settled(movements, s, reserved[s])
  BY DEF SettledInv
<1>1. movements = <<>> /\ reserved[s] = 0
  BY DEF Init
<1>2. /\ Flow(movements, s, {"RESERVE"}, -1) = {}
      /\ Flow(movements, s, {"RELEASE"}, 1) = {}
      /\ Flow(movements, s, {"SHIPMENT"}, -1) = {}
  BY <1>1 DEF Flow, Units
<1>3. IsFiniteSet({}) /\ Cardinality({}) = 0
  BY FS_EmptySet
<1>4. Settled(movements, s, 0)
  <2>1. 0 + 0 + 0 = 0
    OBVIOUS
  <2> QED
    BY <1>2, <1>3, <2>1, Zenon DEF Settled
<1> QED
  BY <1>1, <1>4

(***************************************************************************)
(* The reserved quantities are at all times what the journal says was      *)
(* reserved and neither released nor shipped since.                        *)
(***************************************************************************)
THEOREM ReservationsJournalled == Spec => []JournalExplainsReservations
<1>1. SettledInv => JournalExplainsReservations
  BY DEF SettledInv, Settled, JournalExplainsReservations
<1> QED
  BY <1>1, SettledInit, SettledStep, TypeCorrect, PTL DEF Spec

----------------------------------------------------------------------------
(* The journal of one order *)

\* The rows of one type that journal m holds of order o and slot s.
RowsIn(m, o, s, type) ==
    {i \in DOMAIN m : m[i].reference = o /\ m[i].slot = s /\ m[i].type = type}

LEMMA RowsInSame ==
    ASSUME NEW m \in Seq(Movement), NEW r \in Seq(Movement), NEW o, NEW s, NEW type,
           RowsIn(r, o, s, type) = {}
    PROVE  RowsIn(m \o r, o, s, type) = RowsIn(m, o, s, type)
<1>1. /\ DOMAIN m = 1..Len(m) /\ DOMAIN r = 1..Len(r)
      /\ DOMAIN (m \o r) = 1..(Len(m) + Len(r))
      /\ Len(m) \in Nat /\ Len(r) \in Nat
  OBVIOUS
<1>2. \A i \in DOMAIN m : i \in DOMAIN (m \o r) /\ (m \o r)[i] = m[i]
  BY <1>1
<1>3. ASSUME NEW i \in DOMAIN (m \o r), i \notin DOMAIN m
      PROVE  i - Len(m) \in DOMAIN r /\ (m \o r)[i] = r[i - Len(m)]
  BY <1>1, <1>3
<1> QED
  BY <1>2, <1>3 DEF RowsIn

\* j is the only row of its type for order o and slot s, and its quantity is q.
Only(m, o, s, type, q, j) ==
    RowsIn(m, o, s, type) = {j} /\ m[j].quantity = q

LEMMA OnlyRow ==
    ASSUME NEW m, NEW o, NEW s, NEW type, NEW q, NEW j,
           Only(m, o, s, type, q, j)
    PROVE  j \in DOMAIN m
BY DEF Only, RowsIn

LEMMA OnlySame ==
    ASSUME NEW m \in Seq(Movement), NEW r \in Seq(Movement), NEW o, NEW s, NEW type,
           NEW q, NEW j, RowsIn(r, o, s, type) = {}, Only(m, o, s, type, q, j)
    PROVE  Only(m \o r, o, s, type, q, j)
<1>1. DOMAIN m = 1..Len(m) /\ Len(m) \in Nat /\ j \in DOMAIN m
  BY OnlyRow
<1>2. (m \o r)[j] = m[j]
  BY <1>1
<1>3. RowsIn(m \o r, o, s, type) = RowsIn(m, o, s, type)
  BY RowsInSame
<1> QED
  BY <1>2, <1>3 DEF Only

LEMMA OnlyMore ==
    ASSUME NEW m \in Seq(Movement), NEW r \in Seq(Movement), NEW o, NEW s, NEW type,
           NEW q, NEW j, Only(r, o, s, type, q, j), RowsIn(m, o, s, type) = {}
    PROVE  /\ Only(m \o r, o, s, type, q, Len(m) + j)
           /\ \A i \in DOMAIN m : i < Len(m) + j
<1>1. /\ DOMAIN m = 1..Len(m) /\ DOMAIN r = 1..Len(r)
      /\ DOMAIN (m \o r) = 1..(Len(m) + Len(r))
      /\ Len(m) \in Nat /\ Len(r) \in Nat
  OBVIOUS
<1>2. /\ j \in DOMAIN r /\ r[j].reference = o /\ r[j].slot = s /\ r[j].type = type
      /\ r[j].quantity = q
  BY DEF RowsIn, Only
<1>3. \A i \in DOMAIN m : i \in DOMAIN (m \o r) /\ (m \o r)[i] = m[i]
  BY <1>1
<1>4. ASSUME NEW i \in DOMAIN (m \o r), i \notin DOMAIN m
      PROVE  i - Len(m) \in DOMAIN r /\ (m \o r)[i] = r[i - Len(m)]
  BY <1>1, <1>4
<1>5. Len(m) + j \in DOMAIN (m \o r) /\ (m \o r)[Len(m) + j] = r[j]
  BY <1>1, <1>2
<1>6. ASSUME NEW i \in RowsIn(m \o r, o, s, type) PROVE i = Len(m) + j
  <2>1. i \in DOMAIN (m \o r) /\ i \notin DOMAIN m
    BY <1>3 DEF RowsIn
  <2>2. i - Len(m) \in RowsIn(r, o, s, type)
    BY <1>4, <2>1 DEF RowsIn
  <2>3. i - Len(m) = j /\ i \in Int
    BY <1>1, <2>1, <2>2 DEF Only
  <2> QED
    BY <1>1, <2>3
<1>7. Len(m) + j \in RowsIn(m \o r, o, s, type)
  BY <1>2, <1>5 DEF RowsIn
<1>8. \A i \in DOMAIN m : i < Len(m) + j
  BY <1>1, <1>2
<1>9. RowsIn(m \o r, o, s, type) = {Len(m) + j}
  BY <1>6, <1>7
<1>10. (m \o r)[Len(m) + j].quantity = q
  BY <1>2, <1>5, Zenon
<1> QED
  BY <1>8, <1>9, <1>10, Zenon DEF Only

\* A line that is not reserved, one that is, and one whose reservation has ended in
\* one way and not in the other.
Clean(m, o, s) == \A type \in OrderTypes : RowsIn(m, o, s, type) = {}

ReservedBy(m, o, s, q, j) ==
    Only(m, o, s, "RESERVE", -q, j)

Taken(m, o, s, q) ==
    /\ \E j : ReservedBy(m, o, s, q, j)
    /\ RowsIn(m, o, s, "RELEASE") = {}
    /\ RowsIn(m, o, s, "SHIPMENT") = {}

Closed(m, o, s, q, one, other) ==
    /\ \E j, k, x : /\ ReservedBy(m, o, s, q, j)
                    /\ Only(m, o, s, one, x, k)
                    /\ j < k
    /\ RowsIn(m, o, s, other) = {}

LineInv(m, o, s, q, st) ==
    /\ st = "PENDING" => Clean(m, o, s)
    /\ st \in Holding => Taken(m, o, s, q)
    /\ st \in {"SHIPPED", "COMPLETED"} => Closed(m, o, s, q, "SHIPMENT", "RELEASE")
    /\ st = "CANCELLED" => \/ Clean(m, o, s)
                           \/ Closed(m, o, s, q, "RELEASE", "SHIPMENT")

\* What journal m holds of an order with these lines and this status.
OrderAt(m, o, items, st) ==
    /\ st = "NONE" => \A s \in Slots : Clean(m, o, s)
    /\ \A i \in DOMAIN items : LineInv(m, o, items[i].slot, items[i].quantity, st)

OrderInv == \A o \in Orders : OrderAt(movements, o, lines[o], status[o])

\* Rows of others leave a line as it is.
LEMMA LineKept ==
    ASSUME NEW m \in Seq(Movement), NEW r \in Seq(Movement), NEW o, NEW s, Clean(r, o, s)
    PROVE  /\ Clean(m, o, s) => Clean(m \o r, o, s)
           /\ \A q, st : LineInv(m, o, s, q, st) => LineInv(m \o r, o, s, q, st)
<1>1. \A type \in OrderTypes : RowsIn(m \o r, o, s, type) = RowsIn(m, o, s, type)
  BY RowsInSame DEF Clean
<1>2. Clean(m \o r, o, s) <=> Clean(m, o, s)
  BY <1>1 DEF Clean
<1>3. \A type \in OrderTypes : \A q, j :
          Only(m, o, s, type, q, j) => Only(m \o r, o, s, type, q, j)
  <2>1. \A type \in OrderTypes : RowsIn(r, o, s, type) = {}
    BY DEF Clean
  <2> QED
    BY <2>1, OnlySame
<1>4. \A q, j : ReservedBy(m, o, s, q, j) => ReservedBy(m \o r, o, s, q, j)
  BY <1>3 DEF ReservedBy, OrderTypes
<1>5. \A q : Taken(m, o, s, q) => Taken(m \o r, o, s, q)
  BY <1>1, <1>4 DEF Taken, OrderTypes
<1>6. \A q : Closed(m, o, s, q, "SHIPMENT", "RELEASE")
                 => Closed(m \o r, o, s, q, "SHIPMENT", "RELEASE")
  BY <1>1, <1>3, <1>4 DEF Closed, OrderTypes
<1>7. \A q : Closed(m, o, s, q, "RELEASE", "SHIPMENT")
                 => Closed(m \o r, o, s, q, "RELEASE", "SHIPMENT")
  BY <1>1, <1>3, <1>4 DEF Closed, OrderTypes
<1> QED
  BY <1>2, <1>5, <1>6, <1>7 DEF LineInv

\* An order writes one row for each of its lines and none of another type or for
\* another order.
LEMMA OwnRows ==
    ASSUME lines \in [Orders -> Forms], NEW o \in Orders, NEW i \in DOMAIN lines[o],
           NEW type, NEW sign
    PROVE  Only(OrderMovements(o, type, sign), o, lines[o][i].slot, type,
                sign * lines[o][i].quantity, i)
<1> DEFINE s == lines[o][i].slot
           r == OrderMovements(o, type, sign)
<1>1. lines[o] \in OrderForms
  BY DEF Forms
<1>2. \A j \in DOMAIN lines[o] : lines[o][j].slot = s => j = i
  BY <1>1, OrderFormsAssumption
<1>3. /\ DOMAIN r = DOMAIN lines[o]
      /\ \A j \in DOMAIN r : /\ r[j].slot = lines[o][j].slot
                             /\ r[j].type = type
                             /\ r[j].reference = o
                             /\ r[j].quantity = sign * lines[o][j].quantity
  BY DEF OrderMovements
<1> HIDE DEF r
<1>4. RowsIn(r, o, s, type) = {i}
  BY <1>2, <1>3 DEF RowsIn
<1>5. r[i].quantity = sign * lines[o][i].quantity
  BY <1>3
<1> QED
  BY <1>4, <1>5 DEF r, Only

LEMMA OtherRows ==
    ASSUME NEW o, NEW type, NEW sign, NEW x, NEW s, NEW other, x # o \/ other # type
    PROVE  RowsIn(OrderMovements(o, type, sign), x, s, other) = {}
BY DEF RowsIn, OrderMovements

\* What a row does to a line: it reserves one that is clean, and ends the
\* reservation of one that is taken.
LEMMA LineTaken ==
    ASSUME NEW m \in Seq(Movement), NEW r \in Seq(Movement), NEW o, NEW s, NEW q, NEW i,
           Clean(m, o, s), Only(r, o, s, "RESERVE", -q, i),
           RowsIn(r, o, s, "RELEASE") = {}, RowsIn(r, o, s, "SHIPMENT") = {}
    PROVE  Taken(m \o r, o, s, q)
<1>1. /\ RowsIn(m, o, s, "RESERVE") = {}
      /\ RowsIn(m, o, s, "RELEASE") = {}
      /\ RowsIn(m, o, s, "SHIPMENT") = {}
  BY DEF Clean, OrderTypes
<1>2. ReservedBy(m \o r, o, s, q, Len(m) + i)
  BY <1>1, OnlyMore DEF ReservedBy
<1>3. RowsIn(m \o r, o, s, "RELEASE") = {}
  BY <1>1, RowsInSame
<1>4. RowsIn(m \o r, o, s, "SHIPMENT") = {}
  BY <1>1, RowsInSame
<1> QED
  BY <1>2, <1>3, <1>4 DEF Taken

LEMMA LineClosed ==
    ASSUME NEW m \in Seq(Movement), NEW r \in Seq(Movement), NEW o, NEW s, NEW q, NEW i,
           NEW one, NEW other, NEW x, Taken(m, o, s, q), Only(r, o, s, one, x, i),
           RowsIn(r, o, s, "RESERVE") = {}, RowsIn(r, o, s, other) = {},
           RowsIn(m, o, s, one) = {}, RowsIn(m, o, s, other) = {}
    PROVE  Closed(m \o r, o, s, q, one, other)
<1>1. PICK j : ReservedBy(m, o, s, q, j)
  BY DEF Taken
<1>2. Only(m, o, s, "RESERVE", -q, j) /\ j \in DOMAIN m
  BY <1>1, OnlyRow DEF ReservedBy
<1>3. ReservedBy(m \o r, o, s, q, j)
  BY <1>2, OnlySame DEF ReservedBy
<1>4. Only(m \o r, o, s, one, x, Len(m) + i)
  BY OnlyMore
<1>5. j < Len(m) + i
  BY <1>2, OnlyMore
<1>6. RowsIn(m \o r, o, s, other) = {}
  BY RowsInSame
<1> QED
  BY <1>3, <1>4, <1>5, <1>6 DEF Closed

\* Reserving, releasing and shipping a line.
LEMMA LineMoves ==
    ASSUME lines \in [Orders -> Forms], NEW o \in Orders, NEW i \in DOMAIN lines[o],
           NEW m \in Seq(Movement)
    PROVE  LET s == lines[o][i].slot
               q == lines[o][i].quantity IN
           /\ Clean(m, o, s) => Taken(m \o OrderMovements(o, "RESERVE", -1), o, s, q)
           /\ Taken(m, o, s, q)
                 => Closed(m \o OrderMovements(o, "RELEASE", 1), o, s, q,
                           "RELEASE", "SHIPMENT")
           /\ Taken(m, o, s, q)
                 => Closed(m \o OrderMovements(o, "SHIPMENT", -1), o, s, q,
                           "SHIPMENT", "RELEASE")
<1> DEFINE s == lines[o][i].slot
           q == lines[o][i].quantity
           rsv == OrderMovements(o, "RESERVE", -1)
           rel == OrderMovements(o, "RELEASE", 1)
           shp == OrderMovements(o, "SHIPMENT", -1)
<1>1. OrderTypes \subseteq StockMovementType
  BY DEF OrderTypes, StockMovementType
<1>2. rsv \in Seq(Movement) /\ rel \in Seq(Movement) /\ shp \in Seq(Movement)
  BY <1>1, OrderMovementsType DEF OrderTypes
<1>3. q \in Nat
  BY FormLines
<1>4. /\ Only(rsv, o, s, "RESERVE", (-1) * q, i)
      /\ Only(rel, o, s, "RELEASE", 1 * q, i)
      /\ Only(shp, o, s, "SHIPMENT", (-1) * q, i)
  BY OwnRows
<1>5. /\ RowsIn(rsv, o, s, "RELEASE") = {} /\ RowsIn(rsv, o, s, "SHIPMENT") = {}
      /\ RowsIn(rel, o, s, "RESERVE") = {} /\ RowsIn(rel, o, s, "SHIPMENT") = {}
      /\ RowsIn(shp, o, s, "RESERVE") = {} /\ RowsIn(shp, o, s, "RELEASE") = {}
  BY OtherRows
<1> HIDE DEF s, q, rsv, rel, shp
<1>6. ASSUME Clean(m, o, s) PROVE Taken(m \o rsv, o, s, q)
  <2>1. (-1) * q = -q
    BY <1>3
  <2> QED
    BY <1>2, <1>4, <1>5, <1>6, <2>1, LineTaken
<1>7. ASSUME Taken(m, o, s, q)
      PROVE  /\ Closed(m \o rel, o, s, q, "RELEASE", "SHIPMENT")
             /\ Closed(m \o shp, o, s, q, "SHIPMENT", "RELEASE")
  <2>1. RowsIn(m, o, s, "RELEASE") = {} /\ RowsIn(m, o, s, "SHIPMENT") = {}
    BY <1>7 DEF Taken
  <2>2. Closed(m \o rel, o, s, q, "RELEASE", "SHIPMENT")
    BY <1>2, <1>4, <1>5, <1>7, <2>1, LineClosed
  <2>3. Closed(m \o shp, o, s, q, "SHIPMENT", "RELEASE")
    BY <1>2, <1>4, <1>5, <1>7, <2>1, LineClosed
  <2> QED
    BY <2>2, <2>3
<1> QED
  BY <1>6, <1>7 DEF s, q, rsv, rel, shp

LEMMA OrderKept ==
    ASSUME NEW m \in Seq(Movement), NEW r \in Seq(Movement), NEW o, NEW items, NEW st,
           \A s : Clean(r, o, s), OrderAt(m, o, items, st)
    PROVE  OrderAt(m \o r, o, items, st)
BY LineKept DEF OrderAt

LEMMA OrderMoves ==
    ASSUME lines \in [Orders -> Forms], NEW o \in Orders, NEW m \in Seq(Movement),
           NEW st, OrderAt(m, o, lines[o], st)
    PROVE  /\ st = "PENDING"
                 => OrderAt(m \o OrderMovements(o, "RESERVE", -1), o, lines[o], "CONFIRMED")
           /\ st = "PROCESSING"
                 => OrderAt(m \o OrderMovements(o, "SHIPMENT", -1), o, lines[o], "SHIPPED")
           /\ st \in Holding
                 => OrderAt(m \o OrderMovements(o, "RELEASE", 1), o, lines[o], "CANCELLED")
<1> DEFINE s(i) == lines[o][i].slot
           q(i) == lines[o][i].quantity
<1>1. \A i \in DOMAIN lines[o] : LineInv(m, o, s(i), q(i), st)
  BY DEF OrderAt
<1>2. ASSUME st = "PENDING", NEW r, r = m \o OrderMovements(o, "RESERVE", -1)
      PROVE  OrderAt(r, o, lines[o], "CONFIRMED")
  <2>1. \A i \in DOMAIN lines[o] : Taken(r, o, s(i), q(i))
    BY <1>1, <1>2, LineMoves DEF LineInv
  <2> QED
    BY <2>1 DEF OrderAt, LineInv, Holding
<1>3. ASSUME st = "PROCESSING", NEW r, r = m \o OrderMovements(o, "SHIPMENT", -1)
      PROVE  OrderAt(r, o, lines[o], "SHIPPED")
  <2>1. \A i \in DOMAIN lines[o] : Closed(r, o, s(i), q(i), "SHIPMENT", "RELEASE")
    BY <1>1, <1>3, LineMoves DEF LineInv, Holding
  <2> QED
    BY <2>1 DEF OrderAt, LineInv, Holding
<1>4. ASSUME st \in Holding, NEW r, r = m \o OrderMovements(o, "RELEASE", 1)
      PROVE  OrderAt(r, o, lines[o], "CANCELLED")
  <2>1. \A i \in DOMAIN lines[o] : Closed(r, o, s(i), q(i), "RELEASE", "SHIPMENT")
    BY <1>1, <1>4, LineMoves DEF LineInv
  <2> QED
    BY <2>1 DEF OrderAt, LineInv, Holding
<1> QED
  BY <1>2, <1>3, <1>4

\* Orders that write no rows change their status with what the journal says of them.
LEMMA OrderTurns ==
    ASSUME NEW m, NEW o, NEW items, NEW old
    PROVE  /\ OrderAt(m, o, old, "NONE") /\ items \in OrderForms
                 => OrderAt(m, o, items, "PENDING")
           /\ OrderAt(m, o, items, "CONFIRMED") => OrderAt(m, o, items, "PROCESSING")
           /\ OrderAt(m, o, items, "SHIPPED") => OrderAt(m, o, items, "COMPLETED")
           /\ OrderAt(m, o, items, "PENDING") => OrderAt(m, o, items, "CANCELLED")
<1>1. ASSUME items \in OrderForms, NEW i \in DOMAIN items PROVE items[i].slot \in Slots
  BY <1>1, FormLines DEF Forms
<1>2. OrderAt(m, o, old, "NONE") /\ items \in OrderForms => OrderAt(m, o, items, "PENDING")
  BY <1>1 DEF OrderAt, LineInv, Holding
<1>3. OrderAt(m, o, items, "CONFIRMED") => OrderAt(m, o, items, "PROCESSING")
  BY DEF OrderAt, LineInv, Holding
<1>4. OrderAt(m, o, items, "SHIPPED") => OrderAt(m, o, items, "COMPLETED")
  BY DEF OrderAt, LineInv, Holding
<1>5. OrderAt(m, o, items, "PENDING") => OrderAt(m, o, items, "CANCELLED")
  BY DEF OrderAt, LineInv, Holding
<1> QED
  BY <1>2, <1>3, <1>4, <1>5

\* The rows of a stock operation, and those of another order, are none of order o's.
LEMMA StockRowsClean ==
    ASSUME NEW r, NEW o, \A j \in DOMAIN r : r[j].type \notin OrderTypes
    PROVE  \A s : Clean(r, o, s)
BY DEF Clean, RowsIn

LEMMA OtherRowsClean ==
    ASSUME NEW o, NEW type, NEW sign, NEW x, x # o
    PROVE  \A s : Clean(OrderMovements(o, type, sign), x, s)
BY OtherRows DEF Clean

\* The inductive step for OrderInv.
LEMMA OrderInvStep == TypeOK /\ OrderInv /\ [Next]_vars => OrderInv'
<1> SUFFICES ASSUME TypeOK, OrderInv, [Next]_vars PROVE OrderInv'
  OBVIOUS
<1>0. /\ lines \in [Orders -> Forms]
      /\ movements \in Seq(Movement)
      /\ status \in [Orders -> OrderStatus \cup {"NONE"}]
      /\ \A x \in Orders : OrderAt(movements, x, lines[x], status[x])
  BY DEF TypeOK, Forms, OrderInv
<1>1. CASE UNCHANGED <<status, lines, movements>>
  BY <1>1 DEF OrderInv
<1>2. ASSUME NEW r \in Seq(Movement), UNCHANGED <<status, lines>>,
             movements' = movements \o r,
             \A j \in DOMAIN r : r[j].type \notin OrderTypes
      PROVE  OrderInv'
  <2>1. ASSUME NEW x \in Orders
        PROVE  OrderAt(movements \o r, x, lines[x], status[x])
    BY <1>0, <1>2, StockRowsClean, OrderKept
  <2> QED
    BY <1>2, <2>1 DEF OrderInv
<1>3. ASSUME NEW s \in Slots, NEW q \in Int, NEW type \in {"RECEIVE", "ADJUSTMENT"},
             UNCHANGED <<status, lines>>, Record(Entry(type, s, q))
      PROVE  OrderInv'
  <2>1. Entry(type, s, q) \in Seq(Movement)
    BY EntryType DEF StockMovementType
  <2>2. \A j \in DOMAIN Entry(type, s, q) : Entry(type, s, q)[j].type \notin OrderTypes
    BY DEF Entry, OrderTypes
  <2> QED
    BY <1>2, <1>3, <2>1, <2>2 DEF Record
<1>4. ASSUME StockStep PROVE OrderInv'
  <2>1. \A q \in Quantities : q \in Int /\ -q \in Int
    BY QuantitiesAssumption
  <2>2. \E s \in Slots, q \in Int, type \in {"RECEIVE", "ADJUSTMENT"} :
           UNCHANGED <<status, lines>> /\ Record(Entry(type, s, q))
    BY <1>4, <2>1 DEF StockStep, receive_stock, adjust_stock
  <2> QED
    BY <1>3, <2>2
<1>5. ASSUME NEW p \in Products, NEW from \in Warehouses, NEW to \in Warehouses,
             NEW q \in Quantities, transfer_stock(p, from, to, q)
      PROVE  OrderInv'
  <2> DEFINE x == <<p, from>>
             y == <<p, to>>
             r == TransferMovements(x, y, q)
  <2>1. x \in Slots /\ y \in Slots /\ q \in Nat
    BY QuantitiesAssumption DEF Slots
  <2>2. UNCHANGED <<status, lines>> /\ movements' = movements \o r
    BY <1>5 DEF transfer_stock, Record
  <2> HIDE DEF x, y
  <2>3. r \in Seq(Movement)
    BY <1>0, <2>1, TransferMovementsType
  <2>4. \A j \in DOMAIN r : r[j].type \notin OrderTypes
    BY DEF TransferMovements, OrderTypes
  <2> QED
    BY <1>2, <2>2, <2>3, <2>4
\* An order that moves to another status and writes rows for its lines.
<1>6. ASSUME NEW o \in Orders, NEW type \in OrderTypes, NEW sign \in {1, -1}, NEW st,
             UNCHANGED lines, status' = [status EXCEPT ![o] = st],
             Record(OrderMovements(o, type, sign)),
             OrderAt(movements \o OrderMovements(o, type, sign), o, lines[o], st)
      PROVE  OrderInv'
  <2> DEFINE r == OrderMovements(o, type, sign)
  <2>1. r \in Seq(Movement)
    BY <1>0, OrderMovementsType DEF OrderTypes, StockMovementType
  <2>2. ASSUME NEW x \in Orders, x # o
        PROVE  OrderAt(movements \o r, x, lines[x], status[x])
    <3>1. \A s : Clean(r, x, s)
      BY <2>2, OtherRowsClean
    <3> HIDE DEF r
    <3> QED
      BY <1>0, <2>1, <3>1, OrderKept
  <2>3. ASSUME NEW x \in Orders
        PROVE  OrderAt(movements \o r, x, lines[x], status'[x])
    BY <1>0, <1>6, <2>2
  <2> QED
    BY <1>6, <2>3 DEF OrderInv, Record
\* An order that moves to another status and writes none.
<1>7. ASSUME NEW o \in Orders, NEW items, NEW st, UNCHANGED movements,
             status' = [status EXCEPT ![o] = st], lines' = [lines EXCEPT ![o] = items],
             OrderAt(movements, o, items, st)
      PROVE  OrderInv'
  BY <1>0, <1>7 DEF OrderInv
<1>8. ASSUME NEW o \in Orders, confirm_order(o) PROVE OrderInv'
  <2>1. OrderAt(movements \o OrderMovements(o, "RESERVE", -1), o, lines[o], "CONFIRMED")
    BY <1>0, <1>8, OrderMoves DEF confirm_order
  <2> QED
    BY <1>6, <1>8, <2>1 DEF confirm_order, OrderTypes
<1>9. ASSUME NEW o \in Orders, ship_order(o) PROVE OrderInv'
  <2>1. OrderAt(movements \o OrderMovements(o, "SHIPMENT", -1), o, lines[o], "SHIPPED")
    BY <1>0, <1>9, OrderMoves DEF ship_order
  <2> QED
    BY <1>6, <1>9, <2>1 DEF ship_order, OrderTypes
<1>10. ASSUME NEW o \in Orders, cancel_holding(o) PROVE OrderInv'
  <2>1. OrderAt(movements \o OrderMovements(o, "RELEASE", 1), o, lines[o], "CANCELLED")
    BY <1>0, <1>10, OrderMoves DEF cancel_holding
  <2> QED
    BY <1>6, <1>10, <2>1 DEF cancel_holding, OrderTypes
<1>11. ASSUME NEW o \in Orders, NEW items \in OrderForms, create_order(o, items)
       PROVE  OrderInv'
  <2>1. OrderAt(movements, o, items, "PENDING")
    BY <1>0, <1>11, OrderTurns DEF create_order
  <2> QED
    BY <1>7, <1>11, <2>1 DEF create_order
<1>12. ASSUME NEW o \in Orders, process_order(o) \/ complete_order(o) \/ cancel_pending(o)
       PROVE  OrderInv'
  <2>1. lines' = [lines EXCEPT ![o] = lines[o]] /\ UNCHANGED movements
    BY <1>0, <1>12 DEF process_order, complete_order, cancel_pending
  <2>2. CASE process_order(o)
    <3>1. OrderAt(movements, o, lines[o], "PROCESSING")
      BY <1>0, <2>2, OrderTurns DEF process_order
    <3> QED
      BY <1>7, <2>1, <2>2, <3>1 DEF process_order
  <2>3. CASE complete_order(o)
    <3>1. OrderAt(movements, o, lines[o], "COMPLETED")
      BY <1>0, <2>3, OrderTurns DEF complete_order
    <3> QED
      BY <1>7, <2>1, <2>3, <3>1 DEF complete_order
  <2>4. CASE cancel_pending(o)
    <3>1. OrderAt(movements, o, lines[o], "CANCELLED")
      BY <1>0, <2>4, OrderTurns DEF cancel_pending
    <3> QED
      BY <1>7, <2>1, <2>4, <3>1 DEF cancel_pending
  <2> QED
    BY <1>12, <2>2, <2>3, <2>4
<1> QED
  BY <1>1, <1>4, <1>5, <1>8, <1>9, <1>10, <1>11, <1>12
     DEF Next, TransferStep, OrderStep, cancel_order, vars

LEMMA OrderInvInit == Init => OrderInv
<1> SUFFICES ASSUME Init, NEW o \in Orders
             PROVE  OrderAt(movements, o, lines[o], status[o])
  BY DEF OrderInv
<1>1. movements = <<>> /\ lines[o] = <<>> /\ status[o] = "NONE"
  BY DEF Init
<1>2. \A s : Clean(movements, o, s)
  BY <1>1 DEF Clean, RowsIn
<1> QED
  BY <1>1, <1>2 DEF OrderAt

\* What the invariant says of a line is what OrderJournal asks of it.
LEMMA LineJournal ==
    ASSUME NEW o, NEW s, NEW q, NEW st \in OrderStatus \cup {"NONE"},
           st = "NONE" => Clean(movements, o, s), LineInv(movements, o, s, q, st)
    PROVE  LET taken == RowsOf(o, s, "RESERVE")
               settled == RowsOf(o, s, "RELEASE") \cup RowsOf(o, s, "SHIPMENT") IN
           /\ Cardinality(taken) <= 1
           /\ Cardinality(settled) <= 1
           /\ \A k \in settled : \E j \in taken :
                  j < k /\ movements[j].quantity = -q
           /\ st \in Holding <=> (taken # {} /\ settled = {})
           /\ st \in {"SHIPPED", "COMPLETED"} <=> RowsOf(o, s, "SHIPMENT") # {}
<1> DEFINE taken == RowsOf(o, s, "RESERVE")
           released == RowsOf(o, s, "RELEASE")
           shipped == RowsOf(o, s, "SHIPMENT")
<1>1. \A type : RowsIn(movements, o, s, type) = RowsOf(o, s, type)
  BY DEF RowsIn, RowsOf
<1>2. \/ st \in {"NONE", "PENDING", "CANCELLED"} /\ Clean(movements, o, s)
      \/ st \in Holding /\ Taken(movements, o, s, q)
      \/ /\ st \in {"SHIPPED", "COMPLETED"}
         /\ Closed(movements, o, s, q, "SHIPMENT", "RELEASE")
      \/ st = "CANCELLED" /\ Closed(movements, o, s, q, "RELEASE", "SHIPMENT")
  BY DEF LineInv, OrderStatus, Holding
<1>3. /\ Clean(movements, o, s) => taken = {} /\ released = {} /\ shipped = {}
      /\ Taken(movements, o, s, q)
            => (\E j : taken = {j}) /\ released = {} /\ shipped = {}
      /\ Closed(movements, o, s, q, "SHIPMENT", "RELEASE")
            => /\ \E j, k : taken = {j} /\ shipped = {k} /\ j < k
                            /\ movements[j].quantity = -q
               /\ released = {}
      /\ Closed(movements, o, s, q, "RELEASE", "SHIPMENT")
            => /\ \E j, k : taken = {j} /\ released = {k} /\ j < k
                            /\ movements[j].quantity = -q
               /\ shipped = {}
  <2>1. /\ taken = RowsIn(movements, o, s, "RESERVE")
        /\ released = RowsIn(movements, o, s, "RELEASE")
        /\ shipped = RowsIn(movements, o, s, "SHIPMENT")
    BY <1>1
  <2> HIDE DEF taken, released, shipped
  <2>2. Clean(movements, o, s) => taken = {} /\ released = {} /\ shipped = {}
    BY <2>1 DEF Clean, OrderTypes
  <2>3. Taken(movements, o, s, q)
            => (\E j : taken = {j}) /\ released = {} /\ shipped = {}
    BY <2>1, Zenon DEF Taken, ReservedBy, Only
  <2>4. Closed(movements, o, s, q, "SHIPMENT", "RELEASE")
            => /\ \E j, k : taken = {j} /\ shipped = {k} /\ j < k
                            /\ movements[j].quantity = -q
               /\ released = {}
    BY <2>1, Zenon DEF Closed, ReservedBy, Only
  <2>5. Closed(movements, o, s, q, "RELEASE", "SHIPMENT")
            => /\ \E j, k : taken = {j} /\ released = {k} /\ j < k
                            /\ movements[j].quantity = -q
               /\ shipped = {}
    BY <2>1, Zenon DEF Closed, ReservedBy, Only
  <2> QED
    BY <2>2, <2>3, <2>4, <2>5
<1> HIDE DEF taken, released, shipped
<1>4. Cardinality({}) <= 1
  <2>1. Cardinality({}) = 0 /\ 0 <= 1
    BY FS_EmptySet
  <2> QED
    BY <2>1
<1>5. ASSUME NEW j PROVE Cardinality({j}) <= 1
  <2>1. Cardinality({j}) = 1
    BY FS_Singleton, Zenon
  <2>2. 1 <= 1
    OBVIOUS
  <2> QED
    BY <2>1, <2>2, Zenon
<1>6. \A S : S = {} \/ (\E j : S = {j}) => Cardinality(S) <= 1
  BY <1>4, <1>5, Zenon
<1>7. Cardinality(taken) <= 1 /\ Cardinality(released \cup shipped) <= 1
  <2>1. taken = {} \/ \E j : taken = {j}
    BY <1>2, <1>3
  <2>2. (released \cup shipped) = {} \/ \E j : (released \cup shipped) = {j}
    BY <1>2, <1>3
  <2> QED
    BY <1>6, <2>1, <2>2, Zenon
<1> QED
  BY <1>2, <1>3, <1>7 DEF Holding, taken, released, shipped

(***************************************************************************)
(* The journal tells the story of every order: what its lines reserved,    *)
(* and at most one way in which each reservation ended.                    *)
(***************************************************************************)
THEOREM OrdersJournalled == Spec => []OrderJournal
<1>1. TypeOK /\ OrderInv => OrderJournal
  <2> SUFFICES ASSUME TypeOK, OrderInv PROVE OrderJournal
    OBVIOUS
  <2>1. ASSUME NEW o \in Orders, NEW i \in DOMAIN lines[o]
        PROVE  /\ lines[o][i].slot \in Slots
               /\ status[o] \in OrderStatus \cup {"NONE"}
               /\ status[o] = "NONE" => Clean(movements, o, lines[o][i].slot)
               /\ LineInv(movements, o, lines[o][i].slot, lines[o][i].quantity, status[o])
    <3>1. lines[o] \in Forms /\ status[o] \in OrderStatus \cup {"NONE"}
      BY DEF TypeOK, Forms
    <3>2. lines[o][i].slot \in Slots
      BY <3>1, FormLines
    <3> QED
      BY <3>1, <3>2 DEF OrderInv, OrderAt
  <2> QED
    BY <2>1, LineJournal DEF OrderJournal
<1> QED
  BY <1>1, OrderInvInit, OrderInvStep, TypeCorrect, PTL DEF Spec

=============================================================================
