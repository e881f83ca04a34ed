\* Three ports, boards at two of them and another device at the first, one Reset,
\* two devices that come or go meanwhile, one driver that misbehaves once.
CONSTANTS
    Threads = {first, second}
    First = first
    NumPorts = 3
    BoardPorts = {1, 2}
    MaxChanges = 2
    MaxOdd = 1
SPECIFICATION FairSpec
INVARIANTS
    SearchTypeOK
    ReaderHoldsBoard
PROPERTIES
    EveryPortTried
    ResetEndsReading
CHECK_DEADLOCK FALSE
