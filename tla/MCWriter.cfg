\* Fields of four bytes sent two at a time, two runs of the program, one chunk of
\* which any part gets lost; three bytes of data look like an acknowledge byte.
CONSTANTS
    Cards = {card}
    NotACard = ERRO
    BlockLen = 4
    Chunk = 2
    Twins <- DataTwins
    MaxRuns = 2
    MaxLost = 1
SPECIFICATION FairSpec
INVARIANTS
    WriterTypeOK
    ReadyIsWhole
    KeyBeforeWrite
    PrintedIsWritten
PROPERTIES
    LosslessRunEnds
CHECK_DEADLOCK FALSE
