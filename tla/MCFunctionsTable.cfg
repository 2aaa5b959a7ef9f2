CONSTANTS
    Rows = 2
    Cols = 2
    MaxKeys = 0
    MaxCount = 1
    MaxText = 2
    MaxArticles = 0
    TagTexts <- MCTagTexts
    MaxRows = 3
    PageSizes = {46, 20, 10}
    Bodies = {}
    MaxCommands = 2
    MaxCode = 1
    MaxSpans = 1
    TabSize = 4
    FirstLine = 1
    Families <- NoFamilies
SPECIFICATION Spec
INVARIANT ColumnDeleted
CHECK_DEADLOCK FALSE
