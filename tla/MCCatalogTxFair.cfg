SPECIFICATION FairSpec
CONSTANTS
  w1 = w1
  w2 = w2
  w3 = w3
  Warehouses = {1, 2, 3}
  Products = {4}
  Start <- MCStart
  StartStocked <- MCStocked
  Unborn = Unborn
  Deleted = Deleted
  Forms <- WaitForms
  Normal <- MCNormal
  Workers = {w1, w2}
  Nobody = Nobody
  NoForm = NoForm
  MaxRequests = 3
PROPERTIES
  Answered
CHECK_DEADLOCK FALSE
