SPECIFICATION Spec
CONSTANTS
    a = a
    b = b
    None = None
    Devices <- MCDevices
    DeviceTrees <- MCDeviceTrees
    Firmware <- MCFirmware
    InOrder = TRUE
    MaxRemovals = 2
    SJA1105P_N_SWITCHES = 2
    SJA1105P_N_PORTS = 3
    SJA1105P_N_LOGICAL_PORTS = 4
INVARIANTS
    TypeOK
    IndicesAgree
    MappingIsSound
PROPERTIES
    ProvidesService
CHECK_DEADLOCK FALSE
