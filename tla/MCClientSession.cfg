SPECIFICATION FairSpec
CONSTANTS
    Users = {ann, bob}
    Calls = {c1}
    Asks = {m1}
    NoUser = NoUser
    NoRefresh = NoRefresh
    NoAsk = NoAsk
INVARIANTS
    TypeOK
    NeverTwice
    SessionIsLastSignIn
    ServedAsAsker
PROPERTY Settles
