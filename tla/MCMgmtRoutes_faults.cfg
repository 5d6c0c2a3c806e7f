\* One switch with two ports and frames to one address: transfers of routes fail, and
\* timestamps are unseen or lost.
SPECIFICATION Spec
CONSTANTS
    p0 = p0  p1 = p1  m0 = m0  m1 = m1
    NSwitches = 1
    NRoutes = 2
    NTimeStamps = 2
    Port = {p0, p1}
    PolledPort = {p0, p1}
    SwitchOf <- MCPortsOneSwitch
    MacAddr = {m0}
    NoMac = NoMac  NoRoute = NoRoute
    MaxInFlight = 2
    SpiMayFail = TRUE
    ReadFailure = {"unseen", "lost"}
INVARIANTS TimeStampSlotsExclusive CountMatchesBits
