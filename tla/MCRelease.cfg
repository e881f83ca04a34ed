\* Safety: two announcements, so that a request can span the change from one
\* card to the next; one card refused, and one connection fewer than needed.
CONSTANTS
    Cards = {good, revoked}
    Allowed = {good}
    MaxAnnounced = 2
    MaxConnections = 2
    Pages = {login, other}
    Portal = {login}
    MaxPending = 2
SPECIFICATION Spec
INVARIANTS ReleaseTypeOK PublishedIsWhole NothingStaleOnOffer
           OnlyAcceptedDecrypted PasswordNotOlder
PROPERTIES OnlyAnEmptyTextSlips KeepsPromise
CHECK_DEADLOCK FALSE
