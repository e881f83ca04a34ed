\* The same with a card one of whose four bytes is below 0x10.
CONSTANTS
    Cards = {a, b, nobody}
    Allowed = {a, b}
    Nobody = nobody
    BoardCards = {a, b}
    MaxAnnounced = 2
    MaxConnections = 2
    NumFields = 2
    BlockLength = 2
    SerialLength = 2
    FieldBytes <- PlainBytes
    Digits <- OddDigits
    ReadOutcomes = {2}
    ReadsReport = TRUE
    ErrorLength = 1
    MaxResets = 0
    MaxSent = 2
    MaxBacklog = 3
    MaxHeys = 1
    MismatchReturns = {"other"}
    StrayNumbers = {nobody}
    SplitReplies = FALSE
SPECIFICATION FairSpec
PROPERTIES ReadyIsHeard
CHECK_DEADLOCK FALSE
