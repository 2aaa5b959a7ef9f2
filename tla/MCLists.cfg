CONSTANTS
    Thread = {t1, t2}
    PoolConn = {k1, k2}
    NoConn = NoConn
    MaxLost = 1
    PerPage = 46
    Counts = {553}
    Asked <- AskedPages
    NotANumber = NotANumber
    motto = motto
    Request = {r1, r2}
    Table <- MCTable
    Mottos = motto
    MaxId <- MCMaxId
    MaxRev = 1
    NumRandomMotto = 2
    Initially = 2
    NoList = NoList
SPECIFICATION ListsSpec
INVARIANTS
    NoneForgotten
    ShowsPageAsked
    EveryPageShowsOne
PROPERTIES
    RequestsEnd
