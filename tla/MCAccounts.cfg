SPECIFICATION Spec
CONSTANTS
  w1 = w1
  w2 = w2
  w3 = w3
  secret = secret
  Ids = {1, 2, 3, 4}
  Start <- MCStart
  StartTokens <- MCTokens
  Unborn = Unborn
  Forms <- MCForms
  Lower <- MCLower
  Passwords = {secret}
  AdminEmail = "boss"
  AdminPassword = secret
  Null = Null
  Workers = {w1, w2, w3}
  Nobody = Nobody
  NoForm = NoForm
  NoId = NoId
  MaxRequests = 4
INVARIANTS
  TypeOK
  EmailsUnique
  RightsHeld
PROPERTIES
  LastAdminFallsOnlyToARace
  NobodyChangesThemself
SYMMETRY SessionSymmetry
CHECK_DEADLOCK FALSE
