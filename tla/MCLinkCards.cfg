\* A second card is put on the reader and one of its reads fails.
CONSTANTS
    Cards = {a, b, nobody}
    Allowed = {a}
    Nobody = nobody
    BoardCards = {a, b}
    MaxAnnounced = 2
    MaxConnections = 2
    NumFields = 2
    BlockLength = 2
    SerialLength = 2
    FieldBytes <- LookalikeBytes
    Digits <- ExactDigits
    ReadOutcomes = {0, 1, 2}
    ReadsReport = TRUE
    ErrorLength = 1
    MaxResets = 0
    MaxSent = 2
    MaxBacklog = 3
    MaxHeys = 1
    MismatchReturns = {"other"}
    StrayNumbers = {nobody}
    SplitReplies = FALSE
SPECIFICATION Spec
INVARIANTS AcceptedIsOfOneCard
CHECK_DEADLOCK FALSE
