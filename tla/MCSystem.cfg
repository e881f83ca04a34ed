\* From card to page: of two cards the table has one, and a page of the portal asks;
\* reads succeed and the board stays powered.
CONSTANTS
    Cards = {a, b, nobody}
    Allowed = {a}
    Nobody = nobody
    BoardCards = {a, b}
    MaxAnnounced = 1
    MaxConnections = 1
    NumFields = 2
    BlockLength = 1
    SerialLength = 1
    FieldBytes <- LookalikeBytes
    Digits <- ExactDigits
    ReadOutcomes = {1}
    ReadsReport = TRUE
    ErrorLength = 1
    MaxResets = 0
    MaxSent = 1
    MaxBacklog = 3
    MaxHeys = 1
    MismatchReturns = {"other"}
    StrayNumbers = {a, nobody}
    SplitReplies = FALSE
    Pages = {login}
    Portal = {login}
    MaxPending = 1
SPECIFICATION FairSystemSpec
INVARIANTS PagesShowAllowedCards
PROPERTIES ClicksAreServed YesFillsForm
CHECK_DEADLOCK FALSE
