CONSTANTS
    Char <- MCChar
    Inputs <- MCInputs
    Known <- MCKnown
    Context <- ContextKey
    Logs <- MCLogs
SPECIFICATION FairSpec
INVARIANTS
    InBounds
    QuoteDiscipline
    OffsetsInOrder
    IndexSound
    ExactlyTheCompleteRecords
    NeverDies
PROPERTIES
    ParseReturns
CHECK_DEADLOCK FALSE
