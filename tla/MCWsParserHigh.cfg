CONSTANTS
    Texts <- SomeTexts
    MaxTexts = 3
    Key3 <- ShortKey
    HighFrames <- EvenHigh
SPECIFICATION ParserSpec
INVARIANT HighOrderNotDelivered
CHECK_DEADLOCK FALSE
