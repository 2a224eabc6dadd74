CONSTANTS
    Cols = 3
    Rows = 2
    MaxEsc = 6
    Flags <- MCFlags
    MaxField = 6
    FmtBuffer = 4
    Formats <- MCFormats
    Limits = {0, 3}
    IntegerArgs = {0, 5, 29}
    StringArgs <- MCStrings
    WidthArgs <- MCWidthArgs
    DoubleSizes = {1, 6}
    SizeOf <- MCSizeOf
    None = None
    Writes <- MCWrites
    MaxRow = 3
SPECIFICATION FairSpec
INVARIANTS TypeOK EscapesFollowBytes OnlyTheLastIsPassedOver EdgeTakesAtMostTheColumn BufferHoldsWhatIsMeant IntegerReadsBack
PROPERTY CallsReturn
\* No call is made below MaxRow.
CHECK_DEADLOCK FALSE
