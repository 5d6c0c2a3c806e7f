\* The queue as it is built: 1522 / 64 = 23 elements, filled with smallest frames.
SPECIFICATION Spec
CONSTANTS
    f1 = f1  f2 = f2  f3 = f3
    Frame = {f1}
    FrameLen <- MCFrameLenOne
    NoFrame = NoFrame
    NElements = 23
    NBytes = 23
    Requests = {0, 1}
INVARIANT PopsOldest
