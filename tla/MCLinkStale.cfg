\* The board restarts while it writes its second message.
CONSTANTS
    Cards = {a, b, nobody}
    Allowed = {a, b}
    Nobody = nobody
    BoardCards = {a, b}
    MaxAnnounced = 2
    MaxConnections = 2
    NumFields = 2
    BlockLength = 2
    SerialLength = 2
    FieldBytes <- LookalikeBytes
    Digits <- ExactDigits
    ReadOutcomes = {2}
    ReadsReport = TRUE
    ErrorLength = 1
    MaxResets = 1
    MaxSent = 2
    MaxBacklog = 3
    MaxHeys = 1
    MismatchReturns = {"other"}
    StrayNumbers = {nobody}
    SplitReplies = FALSE
SPECIFICATION Spec
INVARIANTS ValidHasArrived
CHECK_DEADLOCK FALSE
