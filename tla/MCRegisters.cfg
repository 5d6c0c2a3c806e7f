SPECIFICATION Spec
CONSTANTS
    Registers <- MCRegistersOfSwitch
    Arguments <- MCArguments
    SameWords <- MCSameWords
    Unreliable <- MCUnreliable
    MaxWrites = 2
INVARIANTS
    TypeOK
    ReadsBack
    ReportedOnce
