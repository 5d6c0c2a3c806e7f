\* One switch with two ports whose routes are flushed at any time.
SPECIFICATION FlushSpec
CONSTANTS
    p0 = p0  p1 = p1  m0 = m0  m1 = m1
    NSwitches = 1
    NRoutes = 2
    NTimeStamps = 2
    Port = {p0, p1}
    PolledPort = {p0, p1}
    SwitchOf <- MCPortsOneSwitch
    MacAddr = {m0, m1}
    NoMac = NoMac  NoRoute = NoRoute
    MaxInFlight = 2
    SpiMayFail = FALSE
    ReadFailure = {}
SYMMETRY MacSymmetry
INVARIANTS TickSkipsNothing
