\* A line of three switches with one port each, two table entries, a MAC
\* address in two VLANs.
SPECIFICATION FdbSpec
CONSTANTS
    p1 = p1  p2 = p2  p3 = p3  m = m
    NSwitches = 3
    NEntries = 2
    Port = {p1, p2, p3}
    SwitchOf <- Line
    Mac = {m}
    Vlan = {v0, v1}
    NoVlan = v0
    Address <- Addresses
    NoEntry = NoEntry
    StaleEntry <- Blank
    NoDeletion = NoDeletion
    MissErrors = {TRUE}
INVARIANTS FdbTypeOK TablesAgree ForwardsExactly LearnedHidesNothing
PROPERTY OthersKeepForwarding
