SPECIFICATION Spec
CONSTANTS
    Queries = {"inventory list", "movement list"}
    Resource <- StockQueries
    Mutations <- StockMutations
    NoData = NoData
    Idle = Idle
    Asked = Asked
    MaxCommits = 2
INVARIANTS
    TypeOK
    FreshShowsOwnChanges
