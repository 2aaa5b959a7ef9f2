CONSTANTS
    Rows = 3
    Cols = 2
    Pictures = {p1, p2, p3}
    NoTile = NoTile
    MaxTimers = 1
    Texts = {"", "<br />", "first", "typo", "raw", "clean"}
    Empty = ""
    Break = "<br />"
    HasLink = {"raw", "clean"}
    Size <- Sizes
    Clean <- Cleaned
    MarkSize = 20
    MinChangeSize = 5
    Initial = "first"
    Typed = {"typo", "raw"}
    MaxEdits = 2
    MaxCreates = 2
    Depth = 3
    Matches <- MCMatches
    Pages <- MCPages
    MaxClicks = 1
SPECIFICATION ScriptsSpec
INVARIANTS
    NeverStuck
    HintIsCurrent
    PostsWhatIsShown
    FirstTextKept
    UndoAndRedoCancel
    NothingLeftBehind
    EventCalledOnce
    StopIsKept
SYMMETRY PictureSymmetry
CHECK_DEADLOCK FALSE
