\* Safety of the line: leftover characters, arbitrary answers of compare_keep_alive,
\* reads that fail and print a text, one restart of the board.
CONSTANTS
    Cards = {a, nobody}
    Allowed = {a}
    Nobody = nobody
    BoardCards = {a}
    MaxAnnounced = 2
    MaxConnections = 2
    NumFields = 3
    BlockLength = 2
    SerialLength = 1
    FieldBytes <- LookalikeBytes
    Digits <- OddDigits
    ReadOutcomes = {0, 2}
    ReadsReport = TRUE
    ErrorLength = 1
    MaxResets = 1
    MaxSent = 2
    MaxBacklog = 1
    MaxHeys = 1
    MismatchReturns = {"SS", "other"}
    StrayNumbers = {nobody}
    SplitReplies = TRUE
SPECIFICATION Spec
INVARIANTS LinkTypeOK FilledIsOneMessage AcceptedIsFresh
PROPERTIES DeliversInOrder
CHECK_DEADLOCK FALSE
