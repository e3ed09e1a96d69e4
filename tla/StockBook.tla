----------------------------- MODULE StockBook -----------------------------
(***************************************************************************)
(* What StockFlow promises about stock and sales orders when every request *)
(* is looked at as one indivisible step: the balances of                   *)
(* inventory/models.py, the orders of orders/models.py and the journal of  *)
(* stock movements, changed by the nine handlers of inventory/service.py   *)
(* and orders/service.py that write to them.                               *)
(*                                                                         *)
(* A balance that has no row yet is a balance of zero here; the row locks, *)
(* the insertion of a first row, the catalogue checks and the permission   *)
(* checks are in StockTx, which implements this module.                    *)
(***************************************************************************)
EXTENDS Integers, Sequences, FiniteSets

CONSTANTS
    Products,       \* product ids
    Warehouses,     \* warehouse ids
    Orders,         \* ids the orders table may hand out
    Quantities,     \* quantities a request may name (schemas: quantity > 0)
    OrderForms,     \* the lists of lines a create request may carry
    MaxInt,         \* largest value of an INTEGER column
    MaxMovements,   \* bound: the journal is no longer than this
    NoRef           \* reference_id of a movement that has none

Slots == Products \X Warehouses

Line == [slot : Slots, quantity : Quantities]

ASSUME QuantitiesAssumption == Quantities \subseteq Nat \ {0}

ASSUME MaxIntAssumption == MaxInt \in Nat

ASSUME MaxMovementsAssumption == MaxMovements \in Nat

\* Every product/warehouse pair appears at most once in an order.
ASSUME OrderFormsAssumption ==
    /\ OrderForms \subseteq Seq(Line)
    /\ \A form \in OrderForms : \A i, j \in DOMAIN form :
           form[i].slot = form[j].slot => i = j

VARIABLES
    on_hand,    \* Inventory.quantity_on_hand of each slot
    reserved,   \* Inventory.quantity_reserved of each slot
    status,     \* Order.status, or "NONE" while no such order exists
    lines,      \* Order.items
    movements   \* the rows of stock_movements in the order they were committed

vars == <<on_hand, reserved, status, lines, movements>>

OrderStatus ==
    {"PENDING", "CONFIRMED", "PROCESSING", "SHIPPED", "COMPLETED", "CANCELLED"}

\* The statuses in which an order holds a reservation.
Holding == {"CONFIRMED", "PROCESSING"}

StockMovementType ==
    {"RECEIVE", "ADJUSTMENT", "TRANSFER_IN", "TRANSFER_OUT",
     "RESERVE", "RELEASE", "SHIPMENT", "RETURN"}

Movement ==
    [type : StockMovementType, slot : Slots, quantity : Int,
     reference : Orders \cup Nat \cup {NoRef}]

available(s) == on_hand[s] - reserved[s]

\* What the lines of an order ask of one slot.
Ordered(items, s) ==
    IF \E i \in DOMAIN items : items[i].slot = s
    THEN items[CHOOSE i \in DOMAIN items : items[i].slot = s].quantity
    ELSE 0

\* Mutant: rows that reserve carry the sign of rows that release.
OrderMovementsUnsigned(o, type, sign) ==
    [i \in DOMAIN lines[o] |->
        [type |-> type, slot |-> lines[o][i].slot,
         quantity |-> lines[o][i].quantity, reference |-> o]]

\* _movement: one journal row per line of the order.
OrderMovements(o, type, sign) ==
    [i \in DOMAIN lines[o] |->
        [type |-> type, slot |-> lines[o][i].slot,
         quantity |-> sign * lines[o][i].quantity, reference |-> o]]

\* A plain journal row, one that refers to nothing.
Entry(type, s, q) ==
    <<[type |-> type, slot |-> s, quantity |-> q, reference |-> NoRef]>>

\* Every write of stock goes with its journal rows.
Record(rows) ==
    /\ Len(movements) + Len(rows) <= MaxMovements
    /\ movements' = movements \o rows

----------------------------------------------------------------------------
(* inventory/service.py *)

receive_stock(s, q) ==
    /\ on_hand[s] + q <= MaxInt
    /\ on_hand' = [on_hand EXCEPT ![s] = @ + q]
    /\ Record(Entry("RECEIVE", s, q))
    /\ UNCHANGED <<reserved, status, lines>>

\* Mutant: a correction may take stock that is reserved.
adjust_stock_unreserved(s, q) ==
    /\ on_hand[s] + q \in 0..MaxInt
    /\ on_hand' = [on_hand EXCEPT ![s] = @ + q]
    /\ Record(Entry("ADJUSTMENT", s, q))
    /\ UNCHANGED <<reserved, status, lines>>

\* Stock may be corrected in either direction, never below what is reserved.
adjust_stock(s, q) ==
    /\ on_hand[s] + q >= reserved[s]
    /\ on_hand[s] + q <= MaxInt
    /\ on_hand' = [on_hand EXCEPT ![s] = @ + q]
    /\ Record(Entry("ADJUSTMENT", s, q))
    /\ UNCHANGED <<reserved, status, lines>>

\* Both rows of a transfer refer to the id of the outgoing one.
TransferMovements(s, t, q) ==
    LET id == Len(movements) + 1 IN
    <<[type |-> "TRANSFER_OUT", slot |-> s, quantity |-> -q, reference |-> id],
      [type |-> "TRANSFER_IN", slot |-> t, quantity |-> q, reference |-> id]>>

\* Mutant: what is on hand may leave, reserved or not.
transfer_stock_reserved(p, from, to, q) ==
    /\ from # to
    /\ on_hand[<<p, from>>] >= q
    /\ on_hand[<<p, to>>] + q <= MaxInt
    /\ on_hand' = [on_hand EXCEPT ![<<p, from>>] = @ - q, ![<<p, to>>] = @ + q]
    /\ Record(TransferMovements(<<p, from>>, <<p, to>>, q))
    /\ UNCHANGED <<reserved, status, lines>>

transfer_stock(p, from, to, q) ==
    LET s == <<p, from>>
        t == <<p, to>> IN
    /\ from # to
    /\ available(s) >= q
    /\ on_hand[t] + q <= MaxInt
    /\ on_hand' = [on_hand EXCEPT ![s] = @ - q, ![t] = @ + q]
    /\ Record(TransferMovements(s, t, q))
    /\ UNCHANGED <<reserved, status, lines>>

----------------------------------------------------------------------------
(* orders/service.py *)

create_order(o, items) ==
    /\ status[o] = "NONE"
    /\ status' = [status EXCEPT ![o] = "PENDING"]
    /\ lines' = [lines EXCEPT ![o] = items]
    /\ UNCHANGED <<on_hand, reserved, movements>>

\* Mutant: an order may be confirmed again.
confirm_order_again(o) ==
    /\ status[o] \in {"PENDING", "CONFIRMED"}
    /\ \A i \in DOMAIN lines[o] : available(lines[o][i].slot) >= lines[o][i].quantity
    /\ reserved' = [s \in Slots |-> reserved[s] + Ordered(lines[o], s)]
    /\ status' = [status EXCEPT ![o] = "CONFIRMED"]
    /\ Record(OrderMovements(o, "RESERVE", -1))
    /\ UNCHANGED <<on_hand, lines>>

confirm_order(o) ==
    /\ status[o] = "PENDING"
    /\ \A i \in DOMAIN lines[o] : available(lines[o][i].slot) >= lines[o][i].quantity
    /\ reserved' = [s \in Slots |-> reserved[s] + Ordered(lines[o], s)]
    /\ status' = [status EXCEPT ![o] = "CONFIRMED"]
    /\ Record(OrderMovements(o, "RESERVE", -1))
    /\ UNCHANGED <<on_hand, lines>>

process_order(o) ==
    /\ status[o] = "CONFIRMED"
    /\ status' = [status EXCEPT ![o] = "PROCESSING"]
    /\ UNCHANGED <<on_hand, reserved, lines, movements>>

\* The service refuses with RESERVATION_INVALID when the balances no longer
\* cover the order.
CoversRelease(o) ==
    \A i \in DOMAIN lines[o] : reserved[lines[o][i].slot] >= lines[o][i].quantity

CoversShipment(o) ==
    /\ CoversRelease(o)
    /\ \A i \in DOMAIN lines[o] : on_hand[lines[o][i].slot] >= lines[o][i].quantity

\* Mutant: shipping gives the reservation back and leaves the stock.
ship_order_kept(o) ==
    /\ status[o] = "PROCESSING"
    /\ CoversShipment(o)
    /\ reserved' = [s \in Slots |-> reserved[s] - Ordered(lines[o], s)]
    /\ status' = [status EXCEPT ![o] = "SHIPPED"]
    /\ Record(OrderMovements(o, "SHIPMENT", -1))
    /\ UNCHANGED <<on_hand, lines>>

ship_order(o) ==
    /\ status[o] = "PROCESSING"
    /\ CoversShipment(o)
    /\ on_hand' = [s \in Slots |-> on_hand[s] - Ordered(lines[o], s)]
    /\ reserved' = [s \in Slots |-> reserved[s] - Ordered(lines[o], s)]
    /\ status' = [status EXCEPT ![o] = "SHIPPED"]
    /\ Record(OrderMovements(o, "SHIPMENT", -1))
    /\ UNCHANGED lines

complete_order(o) ==
    /\ status[o] = "SHIPPED"
    /\ status' = [status EXCEPT ![o] = "COMPLETED"]
    /\ UNCHANGED <<on_hand, reserved, lines, movements>>

\* Mutant: cancelling an order in process forgets its reservation.
cancel_pending_or_processing(o) ==
    /\ status[o] \in {"PENDING", "PROCESSING"}
    /\ status' = [status EXCEPT ![o] = "CANCELLED"]
    /\ UNCHANGED <<on_hand, reserved, lines, movements>>

\* A pending order has reserved nothing, so there is nothing to give back.
cancel_pending(o) ==
    /\ status[o] = "PENDING"
    /\ status' = [status EXCEPT ![o] = "CANCELLED"]
    /\ UNCHANGED <<on_hand, reserved, lines, movements>>

cancel_holding(o) ==
    /\ status[o] \in Holding
    /\ CoversRelease(o)
    /\ reserved' = [s \in Slots |-> reserved[s] - Ordered(lines[o], s)]
    /\ status' = [status EXCEPT ![o] = "CANCELLED"]
    /\ Record(OrderMovements(o, "RELEASE", 1))
    /\ UNCHANGED <<on_hand, lines>>

cancel_order(o) == cancel_pending(o) \/ cancel_holding(o)

----------------------------------------------------------------------------
Init ==
    /\ on_hand = [s \in Slots |-> 0]
    /\ reserved = [s \in Slots |-> 0]
    /\ status = [o \in Orders |-> "NONE"]
    /\ lines = [o \in Orders |-> <<>>]
    /\ movements = <<>>

StockStep ==
    \E s \in Slots, q \in Quantities :
        \/ receive_stock(s, q)
        \/ adjust_stock(s, q)
        \/ adjust_stock(s, -q)

TransferStep ==
    \E p \in Products, from, to \in Warehouses, q \in Quantities :
        transfer_stock(p, from, to, q)

OrderStep ==
    \E o \in Orders :
        \/ \E items \in OrderForms : create_order(o, items)
        \/ confirm_order(o)
        \/ process_order(o)
        \/ ship_order(o)
        \/ complete_order(o)
        \/ cancel_order(o)

Next == StockStep \/ TransferStep \/ OrderStep

Spec == Init /\ [][Next]_vars

----------------------------------------------------------------------------
(* Properties *)

(***************************************************************************)
(* Every variable holds values of the schema, and the three CHECK          *)
(* constraints of the inventory table hold: no balance is negative and no  *)
(* more is reserved than is on hand.                                       *)
(***************************************************************************)
TypeOK ==
    /\ on_hand \in [Slots -> 0..MaxInt]
    /\ reserved \in [Slots -> Nat]
    /\ \A s \in Slots : reserved[s] <= on_hand[s]
    /\ status \in [Orders -> OrderStatus \cup {"NONE"}]
    /\ lines \in [Orders -> OrderForms \cup {<<>>}]
    /\ movements \in Seq(Movement)

\* count[x] distinct units for every x of S, none where the count is negative:
\* the cardinality of this set is the sum of the counts.
Units(S, count) == UNION {{<<x, u>> : u \in 1..count[x]} : x \in S}

\* The units of stock of slot s that orders hold reserved.
HeldUnits(s) ==
    Units({o \in Orders : status[o] \in Holding},
          [o \in Orders |-> Ordered(lines[o], s)])

(***************************************************************************)
(* quantity_reserved of a balance is exactly what the confirmed and        *)
(* processing orders ask of it: no reservation outlives its order, none is *)
(* lost, none is taken twice.  The code keeps the two in separate tables   *)
(* and never compares them.                                                *)
(***************************************************************************)
ReservedIsHeld ==
    \A s \in Slots : reserved[s] = Cardinality(HeldUnits(s))

(***************************************************************************)
(* RESERVATION_INVALID ("Reserved inventory no longer covers this order")  *)
(* is never answered: whatever adjustments, transfers and other orders do, *)
(* an order that holds a reservation can be shipped or cancelled.          *)
(***************************************************************************)
ReservationsCover ==
    \A o \in Orders : status[o] \in Holding => CoversShipment(o)

\* The units that rows of the given types bring into slot s (sign 1) or take
\* out of it (sign -1).
Flow(journal, s, types, sign) ==
    Units({i \in DOMAIN journal : journal[i].slot = s /\ journal[i].type \in types},
          [i \in DOMAIN journal |-> sign * journal[i].quantity])

Physical == {"RECEIVE", "ADJUSTMENT", "TRANSFER_IN", "TRANSFER_OUT", "SHIPMENT"}

(***************************************************************************)
(* The journal explains the stock: quantity_on_hand is what the receipts,  *)
(* adjustments, transfers and shipments of the journal add up to.          *)
(***************************************************************************)
JournalExplainsStock ==
    \A s \in Slots :
        on_hand[s] + Cardinality(Flow(movements, s, Physical, -1))
            = Cardinality(Flow(movements, s, Physical, 1))

(***************************************************************************)
(* The journal explains the reservations: quantity_reserved is what was    *)
(* reserved less what was released or shipped.                             *)
(***************************************************************************)
JournalExplainsReservations ==
    \A s \in Slots :
        reserved[s] + Cardinality(Flow(movements, s, {"RELEASE"}, 1))
                    + Cardinality(Flow(movements, s, {"SHIPMENT"}, -1))
            = Cardinality(Flow(movements, s, {"RESERVE"}, -1))

\* The rows of one type that order o wrote for slot s.
RowsOf(o, s, type) ==
    {i \in DOMAIN movements :
        movements[i].reference = o /\ movements[i].slot = s /\ movements[i].type = type}

(***************************************************************************)
(* The journal of one order: each line is reserved at most once, is        *)
(* released or shipped at most once and never both, and only after it was  *)
(* reserved; what is reserved and not yet settled is what the order's      *)
(* status says is held.                                                    *)
(***************************************************************************)
OrderJournal ==
    \A o \in Orders : \A i \in DOMAIN lines[o] :
        LET s == lines[o][i].slot
            taken == RowsOf(o, s, "RESERVE")
            settled == RowsOf(o, s, "RELEASE") \cup RowsOf(o, s, "SHIPMENT") IN
        /\ Cardinality(taken) <= 1
        /\ Cardinality(settled) <= 1
        /\ \A k \in settled : \E j \in taken :
               /\ j < k
               /\ movements[j].quantity = -lines[o][i].quantity
        /\ status[o] \in Holding <=> (taken # {} /\ settled = {})
        /\ status[o] \in {"SHIPPED", "COMPLETED"}
               <=> RowsOf(o, s, "SHIPMENT") # {}

=============================================================================
