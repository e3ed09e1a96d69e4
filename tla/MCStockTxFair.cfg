SPECIFICATION FairSpec
CONSTANTS
  Products = {1}
  Warehouses = {1, 2}
  w1 = w1
  w2 = w2
  w3 = w3
  o1 = o1
  o2 = o2
  manager = manager
  employee = employee
  Orders = {o1}
  Quantities = {1}
  OrderForms <- MCOrderForms
  MaxInt = 2
  MaxMovements = 8
  NoRef = NoRef
  Workers = {w1, w2}
  Forms <- StockForms
  Users = {manager, employee}
  Role <- MCRole
  Nobody = Nobody
  Absent = Absent
  NoForm = NoForm
  MaxRequests = 4
PROPERTIES
  Answered
CHECK_DEADLOCK FALSE
