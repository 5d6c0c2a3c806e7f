\* Two cascaded switches with one port each, transfers never fail.
SPECIFICATION FairSpec
CONSTANTS
    p0 = p0  p1 = p1  m0 = m0  m1 = m1
    NSwitches = 2
    NRoutes = 2
    NTimeStamps = 1
    Port = {p0, p1}
    PolledPort = {p0, p1}
    SwitchOf <- MCPortsCascade
    MacAddr = {m0, m1}
    NoMac = NoMac  NoRoute = NoRoute
    MaxInFlight = 2
    SpiMayFail = FALSE
    ReadFailure = {}
INVARIANTS TypeOK LiveRoutesActive FrameUsesOwnRoute TimeStampSlotsExclusive CountMatchesBits
PROPERTIES NoLiveRouteOverwritten CapturedIsDispatched ImplementsEgressService
