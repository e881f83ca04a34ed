\* Two sessions that send and fall behind; a ring of four slots, so that input
\* stops at a lag of two and restarts at a lag of one.
CONSTANTS
    Sessions = {a, b}
    NoSession = nobody
    Size = 4
    Slack = 3
    Room = 1
    FrameLength = 2
    LongSenders = {b}
    MaxInbox = 4
    MaxStored = 4
SPECIFICATION FairSpec
INVARIANTS MirrorTypeOK RingHoldsNewest NoLostWakeup InputInOrder
PROPERTIES SentInOrder OverrunByOthers FeedsEach ThrottledResumes
CHECK_DEADLOCK FALSE
