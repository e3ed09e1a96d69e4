SPECIFICATION Spec
CONSTANTS
    Queries = {"product list", "categories"}
    Resource <- ProductQueries
    Mutations <- ProductMutations
    NoData = NoData
    Idle = Idle
    Asked = Asked
    MaxCommits = 2
PROPERTY ProductMutationsInvalidate
