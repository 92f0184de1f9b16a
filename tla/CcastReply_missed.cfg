SPECIFICATION Spec
CONSTANTS
    Receiver = Receiver
    Media = Media
    NoticeChannel = Media
    NoChannel = NoChannel
    MaxReq = 2
    MaxMsgs = 2
    Window = 2
    MaxErrc = 1
    Ordered = TRUE
    Faults <- NoFaults
INVARIANT NotMissed
CHECK_DEADLOCK FALSE
