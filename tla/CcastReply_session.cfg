SPECIFICATION FairSpec
CONSTANTS
    Receiver = Receiver
    Media = Media
    NoticeChannel = Media
    NoChannel = NoChannel
    MaxReq = 5
    MaxMsgs = 4
    Window = 2
    MaxErrc = 1
    Ordered = TRUE
    Faults <- SpuriousToo
INVARIANT TypeOK
INVARIANT ListSound
INVARIANT RepliesKept
INVARIANT NoOneStranded
PROPERTY GetReturns
PROPERTY ShutdownEnds
CHECK_DEADLOCK FALSE
