\* One switch; only the bridge uses the table.
SPECIFICATION BridgeSpec
CONSTANTS
    p1 = p1  p2 = p2  p3 = p3  m = m
    NSwitches = 1
    NEntries = 4
    Port = {p1, p2}
    SwitchOf <- OneSwitch
    Mac = {m}
    Vlan = {v0}
    NoVlan = v0
    Address <- Addresses
    NoEntry = NoEntry
    StaleEntry <- Blank
    NoDeletion = NoDeletion
    MissErrors = {TRUE}
INVARIANT DeletedIsGone
