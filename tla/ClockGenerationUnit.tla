------------------------ MODULE ClockGenerationUnit ------------------------
(* The registers of the clock generation unit: the layout each accessor     *)
(* function of NXP_SJA1105P_clockGenerationUnit.c reads or writes, under    *)
(* the name of that function.                                               *)
EXTENDS RegisterLayout

convertToClksrc == Enumeration((1 .. 9) \cup (11 .. 21), 0)
convertToIdiv == Enumeration({9}, 0)

getPllStatus == IndexedRegister(\h100007, <<2, 0>>, <<2, 1>>, 1, {Field("lock", 0, 0, 1)})

setPllControl ==
    IndexedRegister(\h100008, <<2, 0>>, <<2, 1>>, 1,
        {Field("msel", 0, 16, 8), Field("autoblock", 0, 11, 1), Field("psel", 0, 8, 2),
        Field("direct", 0, 7, 1), Field("fbsel", 0, 6, 1)}
        \cup Flags(0, 2, <<"phaseoutEn", "bypass", "pd">>))

getPllControl ==
    IndexedRegister(\h100008, <<2, 0>>, <<2, 1>>, 1,
        {Field("msel", 0, 16, 8), Field("autoblock", 0, 11, 1), Field("psel", 0, 8, 2),
        Field("direct", 0, 7, 1), Field("fbsel", 0, 6, 1)}
        \cup Flags(0, 2, <<"phaseoutEn", "bypass", "pd">>))

setIdivCControlRegister ==
    PortRegister(\h10000B, 1, 1,
        {Field("autoblock", 0, 11, 1), Field("idiv", 0, 2, 4), Field("pd", 0, 0, 1)})

getIdivCControlRegister ==
    Coded(PortRegister(\h10000B, 1, 1,
        {Field("autoblock", 0, 11, 1), Field("idiv", 0, 2, 4), Field("pd", 0, 0, 1)}),
        {<<{"idiv"}, convertToIdiv>>})

setMiixClockControlRegister ==
    IndexedRegister(\h100013, <<6, 1>>, <<SJA1105P_N_PORTS, 6>>, 1,
        {Field("clksrc", 0, 24, 5), Field("autoblock", 0, 11, 1), Field("pd", 0, 0, 1)})

getMiixClockControlRegister ==
    Coded(IndexedRegister(\h100013, <<6, 1>>, <<SJA1105P_N_PORTS, 6>>, 1,
        {Field("clksrc", 0, 24, 5), Field("autoblock", 0, 11, 1), Field("pd", 0, 0, 1)}),
        {<<{"clksrc"}, convertToClksrc>>})

(* What the header exports: per register, the function that writes and the one that reads it. *)
clockGenerationUnitRegisters ==
    [pllStatus |-> <<NoRegister, getPllStatus>>,
    pllControl |-> <<setPllControl, getPllControl>>,
    idivCControlRegister |-> <<setIdivCControlRegister, getIdivCControlRegister>>,
    miixClockControlRegister |-> <<setMiixClockControlRegister, getMiixClockControlRegister>>]
=============================================================================
