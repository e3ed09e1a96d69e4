SPECIFICATION Spec
CONSTANTS
    Queries <- SomeQueries
    Ids = {1, 2, 3, 4, 5}
    StartIds = {1, 2, 3}
    Values = {0, 1}
    PageSizes = {2}
    MaxWrites = 2
INVARIANTS
    TypeOK
    WalkIsWhole
    TotalCoversPage
    LowStockAgrees
CHECK_DEADLOCK FALSE
