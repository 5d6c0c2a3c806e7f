SPECIFICATION MCSpec
CONSTANTS
    p1 = p1  p2 = p2
    NSwitches = 2
    NEntries = 2
    Port = {p1, p2}
    SwitchOf <- MCSwitchOf
    Vlan = {0, 1, 2}
    Rule <- MCRule
    Bypass <- MCBypass
    NoRule = NoRule
    StoreErrors = FALSE
    VlanIds = {1}
    VlanSwitches = 3
    VlanPhysicalPort <- MCVlanPorts
    CascPort <- MCCascPort
    HostPort <- MCHostPort
    FewPorts = {1}
    PtpSwitches = 3
    ptpMaster <- MCPtpMaster
    ClockRange = 3
    Offsets = {1}
    Ratios = {1, 2}
    Idle = Idle
    CbsPhysicalPort <- MCCbsPorts
    CbsSwitches = {0}
    SJA1105P_N_SHAPER = 2
    Classes = {6, 7}
    IdleSlopes = {1, 2}
    PortRate = 4
    SlopeRange = 16
    XmiiMode <- MCXmiiMode
    Cascading = {}
    Unstable = {4}
    Faster = {1}
    ConfiguredSpeed <- MCSpeed
    StampClockRange = 16
    StampRange = 4
    Advances = {1, 2, 3}
    HostCorrections = {0, 3}
    PropagationDelay <- MCDelay
INVARIANTS ServicesTypeOK OneEntryPerVlan EntriesMatchFlags VlanConnects 
    ReservationsCounted PortFitsLink StampsExact
PROPERTIES ImplementsRetagService ImplementsPtpService
