SPECIFICATION BooksSpec
CONSTANTS
    Malformed = Malformed
    Closed = Closed
    IdsLike <- ManyIds
    NoFile = NoFile
    AnyText = AnyText
    Setups <- ManySetups
    Envelopes <- ManyEnvelopes
    NewRecords <- ManyRecords
    MaxOf <- Lengths
    MaxRecords = 5
INVARIANTS
    ContentNeverCrashes
    PassIsEarned
    ExitIgnoresOrder
PROPERTY
    BlockedStaysBlocked
CHECK_DEADLOCK FALSE
