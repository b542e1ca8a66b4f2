CONSTANTS
    j1 = j1
    j2 = j2
    j3 = j3
    j4 = j4
    Jobs = {j1, j2, j3, j4}
    Size = 2
SPECIFICATION NotifyFairSpec
INVARIANT NoSendOnClosed
INVARIANT FifoNoLoss
INVARIANT CompleteDrain
PROPERTY CallsReturn
PROPERTY ShutdownEnds
PROPERTY QueuedIsDelivered
CHECK_DEADLOCK FALSE
