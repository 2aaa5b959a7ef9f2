CONSTANTS
    Rows = 3
    Cols = 4
    MaxKeys = 6
    MaxCount = 4
    MaxText = 5
    MaxArticles = 4
    TagTexts <- MCTagTexts
    MaxRows = 140
    PageSizes = {46, 20, 10}
    Bodies <- MCBodies
    MaxCommands = 1
    MaxCode = 4
    MaxSpans = 2
    TabSize = 4
    FirstLine = 1
    Families <- MCFamilies
SPECIFICATION Spec
INVARIANTS
    SearchIsExact
    HotTagsCount
    PagesReach
    FormatsExact
    CodeShown
    SelectorsExact
CHECK_DEADLOCK FALSE
