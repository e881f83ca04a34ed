\* What the page script says of the messages it receives.
CONSTANTS
    Cards = {good}
    Allowed = {good}
    MaxAnnounced = 1
    MaxConnections = 1
    Pages = {login}
    Portal = {login}
    MaxPending = 1
SPECIFICATION Spec
INVARIANTS PasswordStaysHidden
CHECK_DEADLOCK FALSE
