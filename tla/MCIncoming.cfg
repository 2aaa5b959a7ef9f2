CONSTANTS
    Texts <- SomeTexts
    MaxTexts = 3
    Key3 <- ShortKey
    HighFrames <- OddHigh
    Thread = {t1, t2}
    Main = main
    Name = {"blog", "music", "none"}
    Loadable = {"blog", "music"}
    Initial <- BlogOnly
    Method = {"index", "list", "read", "edit"}
    Index = "index"
    Public <- PublicMethods
    NoMethod = NoMethod
    Nobody = Nobody
    motto = motto
    blog = blog
    Request = {r1, r2}
    Table <- MCTable
    Tables <- MCTables
    MaxId <- MCMaxId
    MaxRev = 3
    Unlocked = Unlocked
SPECIFICATION IncomingSpec
INVARIANTS
    MessagesIntact
    ReadyWhenCalled
    OncePerThread
    FoundOnce
    LockReturned
PROPERTIES
    TextsArrive
    IndexMovesOn
    IndexingEnds
