\* The line as its authors meant it, but for one restart of the board: reads succeed,
\* answers come in one piece, and the table has one of two cards.
CONSTANTS
    Cards = {a, b, nobody}
    Allowed = {a}
    Nobody = nobody
    BoardCards = {a, b}
    MaxAnnounced = 2
    MaxConnections = 2
    NumFields = 2
    BlockLength = 2
    SerialLength = 2
    FieldBytes <- ShiftedBytes
    Digits <- LongDigits
    ReadOutcomes = {2}
    ReadsReport = TRUE
    ErrorLength = 1
    MaxResets = 1
    MaxSent = 2
    MaxBacklog = 3
    MaxHeys = 1
    MismatchReturns = {"other"}
    StrayNumbers = {a, nobody}
    SplitReplies = FALSE
SPECIFICATION FairSpec
INVARIANTS AcceptedIsOfOneCard
PROPERTIES MessageIsDealtWith ReadyIsHeard
CHECK_DEADLOCK FALSE
