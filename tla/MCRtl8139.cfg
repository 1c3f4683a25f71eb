SPECIFICATION FairSpec
\* The card falls silent when its ring is blocked by a frame without ROK,
\* or when it does not come out of reset.
CHECK_DEADLOCK FALSE
CONSTANTS
    RingSize = 272
    Pad = 16
    Word = 544
    NumSlots = 2
    Frames <- MCFrames
    Replies = {"arp", "ping"}
    Packets <- MCPackets
    MyMac <- MCMyMac
    MyIp <- MCMyIp
    MaxPayload = 1500
    ResetTries = 1
INVARIANTS RxInOrder RepliesInOrder AnswersVerify
PROPERTIES FramesServed
