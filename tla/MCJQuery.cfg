CONSTANTS
    Request = {r1, r2}
    Settings <- MCSettings
    MaxMeddling = 2
    Element = {e1, e2}
    Props = {"p", "q"}
    MaxAnimations = 3
    MaxDelays = 1
    Manners <- MCManners
    Given = 2
    MaxCallbacks = 3
    MaxActs = 2
    Tags <- MCTags
    Cached = {"two"}
    Single = {"style"}
    Books <- MCBooks
SPECIFICATION jQuerySpec
INVARIANTS
    OneOutcome
    OneAtATime
    PromisesKept
    DataOwned
PROPERTIES
    TimeoutEnds
    QueuesDrain
    ContentArrives
CHECK_DEADLOCK FALSE
