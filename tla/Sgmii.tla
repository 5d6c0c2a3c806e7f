------------------------------- MODULE Sgmii -------------------------------
(* The registers of the SGMII: the layout each accessor function of         *)
(* NXP_SJA1105P_sgmii.c reads or writes, under the name of that function.   *)
EXTENDS AuxiliaryConfigurationUnit

convertToTypeNo == Enumeration({45}, 0)
convertToPseqState == Enumeration(1 .. 7, 0)
convertToPause == Enumeration({1, 2, 3}, 0)
convertToOui == Enumeration({24631}, 0)
convertToRemoteFault == Enumeration({1, 2, 3}, 0)
convertToAutonegMode == Enumeration({2}, 0)
convertToMacWidth == Enumeration({1}, 0)
convertToTestPattern == Enumeration({1, 2, 3}, 0)
convertToTxEdgerate == Enumeration({1, 2, 3}, 0)

setBasicControl ==
    Register(\h1F0000, 1,
        {Field("reAutoneg", 0, 9, 1), Field("duplexMode", 0, 8, 1),
        Slice("speedSelect", 1, 0, 6, 1)}
        \cup Flags(0, 15, <<"reset", "loopback", "speedSelect", "autonegEnable", "powerDown">>))

getBasicControl ==
    Coded(Register(\h1F0000, 1,
        {Field("reAutoneg", 0, 9, 1), Field("duplexMode", 0, 8, 1),
        Slice("speedSelect", 1, 0, 6, 1)}
        \cup Flags(0, 15, <<"reset", "loopback", "speedSelect", "autonegEnable", "powerDown">>)),
        {<<{"speedSelect"}, convertToSpeed>>})

getBasicStatus ==
    Register(\h1F0001, 1,
        Flags(0, 15, <<
            "e100BaseT4", "e100BaseXFullDuplex", "e100BaseXHalfDuplex", "e10MbpsFullDuplex",
            "e10MbpsHalfDuplex", "e100BaseT2FullDuplex", "e100BaseT2HalfDuplex",
            "extendedStatus", "unidirectionalAbility", "mfPreambleSuppression",
            "autonegComplete", "remoteFault", "autonegAbility", "linkStatus", "jabberDetect",
            "extendedReg">>))

getPhyIdentifier ==
    Coded(Register(\h1F0002, 2,
        {Slice("phyId", 6, 0, 0, 14), Field("phyId", 1, 10, 6), Field("typeNo", 1, 4, 6),
        Field("revisionNo", 1, 0, 4)}),
        {<<{"phyId"}, convertToOui>>, <<{"typeNo"}, convertToTypeNo>>})

setAutonegAdv ==
    Register(\h1F0004, 1,
        {Field("remoteFault", 0, 12, 2), Field("pause", 0, 7, 2), Field("halfDuplex", 0, 6, 1),
        Field("fullDuplex", 0, 5, 1)})

getAutonegAdv ==
    Coded(Register(\h1F0004, 1,
        {Field("remoteFault", 0, 12, 2), Field("pause", 0, 7, 2), Field("halfDuplex", 0, 6, 1),
        Field("fullDuplex", 0, 5, 1)}),
        {<<{"pause"}, convertToPause>>, <<{"remoteFault"}, convertToRemoteFault>>})

getAutonegLpBabl ==
    Coded(Register(\h1F0005, 1,
        {Field("nextPage", 0, 15, 1), Field("ack", 0, 14, 1), Field("remoteFault", 0, 12, 2),
        Field("pause", 0, 7, 2), Field("halfDuplex", 0, 6, 1), Field("fullDuplex", 0, 5, 1)}),
        {<<{"pause"}, convertToPause>>, <<{"remoteFault"}, convertToRemoteFault>>})

getAutonegExpn ==
    Register(\h1F0006, 1, {Field("nextPageAbl", 0, 2, 1), Field("pageRecvd", 0, 1, 1)})

getExtendedStatus ==
    Register(\h1F000F, 1,
        Flags(0, 15, <<
            "e1000BaseXFullDuplex", "e1000BaseXHalfDuplex", "e1000BaseTFullDuplex",
            "e1000BaseTHalfDuplex">>))

setDigitalControl1 ==
    Register(\h1F8000, 1,
        {Field("txDisable", 0, 4, 1), Field("autonegTimerOvrr", 0, 3, 1),
        Field("bypPowerup", 0, 1, 1), Field("phyModeControl", 0, 0, 1)}
        \cup Flags(0, 15, <<"vsReset", "gmiiLoopback", "enVsmmd1">>)
        \cup Flags(0, 11, <<"powerSave", "clockStopEn", "macAutoSw", "init">>))

getDigitalControl1 ==
    Register(\h1F8000, 1,
        {Field("txDisable", 0, 4, 1), Field("autonegTimerOvrr", 0, 3, 1),
        Field("bypPowerup", 0, 1, 1), Field("phyModeControl", 0, 0, 1)}
        \cup Flags(0, 15, <<"vsReset", "gmiiLoopback", "enVsmmd1">>)
        \cup Flags(0, 11, <<"powerSave", "clockStopEn", "macAutoSw", "init">>))

setAutonegControl ==
    Register(\h1F8001, 1,
        {Field("miiControl", 0, 8, 1), Field("sgmiiLink", 0, 4, 1), Field("phyMode", 0, 3, 1),
        Field("autonegMode", 0, 1, 2)})

getAutonegControl ==
    Coded(Register(\h1F8001, 1,
        {Field("miiControl", 0, 8, 1), Field("sgmiiLink", 0, 4, 1), Field("phyMode", 0, 3, 1),
        Field("autonegMode", 0, 1, 2)}),
        {<<{"miiControl"}, convertToMacWidth>>, <<{"autonegMode"}, convertToAutonegMode>>})

setAutonegIntrStatus == Register(\h1F8002, 1, {Field("complete", 0, 0, 1)})

getAutonegIntrStatus ==
    Coded(Register(\h1F8002, 1,
        {Field("linkStatus", 0, 4, 1), Field("speed", 0, 2, 2), Field("duplexMode", 0, 1, 1),
        Field("complete", 0, 0, 1)}),
        {<<{"speed"}, convertToSpeed>>})

setTestControl == Register(\h1F8003, 1, {Field("tpEnable", 0, 2, 1), Field("tpSelect", 0, 0, 2)})

getTestControl ==
    Coded(Register(\h1F8003, 1,
        {Field("tpEnable", 0, 2, 1), Field("tpSelect", 0, 0, 2)}),
        {<<{"tpSelect"}, convertToTestPattern>>})

setDebugControl ==
    Register(\h1F8005, 1, {Field("supressLos", 0, 4, 1), Field("restartSync", 0, 0, 1)})

getDebugControl ==
    Register(\h1F8005, 1, {Field("supressLos", 0, 4, 1), Field("restartSync", 0, 0, 1)})

getDigitalStatus ==
    Coded(Register(\h1F8010, 1,
        {Field("rxfifoOvf", 0, 6, 1), Field("rxfifoUndf", 0, 5, 1), Field("pseqState", 0, 2, 3),
        Field("loopback", 0, 1, 1)}),
        {<<{"pseqState"}, convertToPseqState>>})

getIccErrorCnt == Register(\h1F8011, 1, {Field("errorCnt", 0, 0, 8)})

setTxBoostControl == Register(\h1F8030, 1, {Field("txBoost", 0, 0, 4)})

getTxBoostControl == Register(\h1F8030, 1, {Field("txBoost", 0, 0, 4)})

setTxAttnControl == Register(\h1F8031, 1, {Field("txAttn", 0, 0, 3)})

getTxAttnControl == Register(\h1F8031, 1, {Field("txAttn", 0, 0, 3)})

setTxEdgeControl == Register(\h1F8033, 1, {Field("txEdgerate", 0, 0, 3)})

getTxEdgeControl ==
    Coded(Register(\h1F8033, 1,
        {Field("txEdgerate", 0, 0, 3)}),
        {<<{"txEdgerate"}, convertToTxEdgerate>>})

setRxEqControl == Register(\h1F8051, 1, {Field("rxEqVal", 0, 0, 3)})

getRxEqControl == Register(\h1F8051, 1, {Field("rxEqVal", 0, 0, 3)})

setLevelControl == Register(\h1F8090, 1, {Field("losLvl", 0, 5, 5), Field("txLvl", 0, 0, 5)})

getLevelControl == Register(\h1F8090, 1, {Field("losLvl", 0, 5, 5), Field("txLvl", 0, 0, 5)})

setDigitalControl2 ==
    Register(\h1F80E1, 1, {Field("txPolInv", 0, 4, 1), Field("rxPolInv", 0, 0, 1)})

getDigitalControl2 ==
    Register(\h1F80E1, 1, {Field("txPolInv", 0, 4, 1), Field("rxPolInv", 0, 0, 1)})

setDigitalErrorCnt == Register(\h1F80E2, 1, {Field("iccEcEn", 0, 4, 1), Field("cor", 0, 0, 1)})

getDigitalErrorCnt == Register(\h1F80E2, 1, {Field("iccEcEn", 0, 4, 1), Field("cor", 0, 0, 1)})

(* What the header exports: per register, the function that writes and the one that reads it. *)
sgmiiRegisters ==
    [basicControl |-> <<setBasicControl, getBasicControl>>,
    basicStatus |-> <<NoRegister, getBasicStatus>>,
    phyIdentifier |-> <<NoRegister, getPhyIdentifier>>,
    autonegAdv |-> <<setAutonegAdv, getAutonegAdv>>,
    autonegLpBabl |-> <<NoRegister, getAutonegLpBabl>>,
    autonegExpn |-> <<NoRegister, getAutonegExpn>>,
    extendedStatus |-> <<NoRegister, getExtendedStatus>>,
    digitalControl1 |-> <<setDigitalControl1, getDigitalControl1>>,
    autonegControl |-> <<setAutonegControl, getAutonegControl>>,
    autonegIntrStatus |-> <<setAutonegIntrStatus, getAutonegIntrStatus>>,
    testControl |-> <<setTestControl, getTestControl>>,
    debugControl |-> <<setDebugControl, getDebugControl>>,
    digitalStatus |-> <<NoRegister, getDigitalStatus>>,
    iccErrorCnt |-> <<NoRegister, getIccErrorCnt>>,
    txBoostControl |-> <<setTxBoostControl, getTxBoostControl>>,
    txAttnControl |-> <<setTxAttnControl, getTxAttnControl>>,
    txEdgeControl |-> <<setTxEdgeControl, getTxEdgeControl>>,
    rxEqControl |-> <<setRxEqControl, getRxEqControl>>,
    levelControl |-> <<setLevelControl, getLevelControl>>,
    digitalControl2 |-> <<setDigitalControl2, getDigitalControl2>>,
    digitalErrorCnt |-> <<setDigitalErrorCnt, getDigitalErrorCnt>>]
=============================================================================
