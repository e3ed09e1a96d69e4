SPECIFICATION Spec
CONSTANTS
  Products = {1}
  Warehouses = {1, 2}
  o1 = o1
  o2 = o2
  Orders = {o1, o2}
  Quantities = {1, 2}
  OrderForms <- MCOrderForms
  MaxInt = 2
  MaxMovements = 6
  NoRef = NoRef
INVARIANTS
  TypeOK
  ReservedIsHeld
  ReservationsCover
  JournalExplainsStock
  JournalExplainsReservations
  OrderJournal
SYMMETRY OrderSymmetry
CHECK_DEADLOCK FALSE
