\* Four elements: a power of two.
SPECIFICATION Spec
CONSTANTS
    f1 = f1  f2 = f2  f3 = f3
    Frame = {f1, f2, f3}
    FrameLen <- MCFrameLen
    NoFrame = NoFrame
    NElements = 4
    NBytes = 7
    Requests = {0, 1, 2}
INVARIANTS TypeOK MemoryIntact ListenerLeavesNothingQueued
PROPERTY ImplementsRecvService
