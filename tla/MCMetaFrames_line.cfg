\* A line of three switches, without losses: four frames trapped over and over.
SPECIFICATION Spec
CONSTANTS
    avb = avb  ptp = ptp
    NSwitches = 3
    Frame <- LineFrames
    EthType = {ptp}
    Port = {1, 2, 4}
    HostPort = 4
    Filter = {0}
    sendMeta <- AllFollowed
    inclSrcpt <- Included
    NFilters = 1
    NoFrame = NoFrame
    MaxLost = 0
    MaxFlushed = 0
INVARIANTS WaitingComesNearer
PROPERTY ImplementsTrapService
