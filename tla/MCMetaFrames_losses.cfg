\* One switch; two frames or meta frames are lost, the interface is flushed once.
SPECIFICATION Spec
CONSTANTS
    avb = avb  ptp = ptp
    NSwitches = 1
    Frame <- SwitchFrames
    EthType = {avb, ptp}
    Port = {1, 2, 4}
    HostPort = 4
    Filter = {0, 1}
    sendMeta <- FirstFollowed
    inclSrcpt <- BothIncluded
    NFilters = 1
    NoFrame = NoFrame
    MaxLost = 2
    MaxFlushed = 1
INVARIANTS TypeOK LossesAreContained
