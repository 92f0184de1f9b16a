SPECIFICATION FairSpec
CONSTANTS
    MaxMeas = 4
    Kinds <- BothKinds
    Faults <- AllFaults
CHECK_DEADLOCK FALSE
INVARIANT TypeOK
INVARIANT TokenBalanced
INVARIANT TriggerAfterRead
INVARIANT OwnReading
INVARIANT ThreadsJoined
PROPERTY MeasureEnds
PROPERTY DeleteEnds
