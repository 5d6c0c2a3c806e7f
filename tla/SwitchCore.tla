---------------------------- MODULE SwitchCore -----------------------------
(* The registers of the switch core: the layout each accessor function of   *)
(* NXP_SJA1105P_switchCore.c reads or writes, under the name of that        *)
(* function.                                                                *)
EXTENDS RegisterLayout

convertToHostCmd == Enumeration({1, 2, 3}, 4)

getDeviceId == Register(\h0, 1, {Field("id", 0, 0, 32)})

getConfigurationFlags ==
    Register(\h1, 1,
        {Field("nslot", 0, 0, 4)}
        \cup Flags(0, 31, <<"configs", "crcchkl", "ids", "crcchkg">>))

getGeneralStatusL2 ==
    Register(\h3, 2,
        {Field("macadd", 0, 16, 16), Field("portenf", 0, 8, 8), Slice("macadd", 16, 1, 0, 32)}
        \cup Flags(0, 4, <<"fwds", "macfds", "enffds", "l2busyfds", "l2busys">>))

getGeneralStatusHashconfs ==
    Register(\h5, 2,
        {Field("macaddhc", 0, 16, 16), Field("vlanidhc", 0, 4, 12), Field("hashconfs", 0, 0, 1),
        Slice("macaddhc", 16, 1, 0, 32)})

getGeneralStatusVlan ==
    Register(\h7, 1,
        {Field("wpvlanid", 0, 16, 16), Field("port", 0, 8, 8)}
        \cup Flags(0, 4, <<"vlanbusys", "wrongports", "vnotfounds">>))

getGeneralStatusMem0 == Register(\h9, 1, {Field("emptys", 0, 31, 1), Field("buffers", 0, 0, 31)})

getGeneralStatusMem1 == Register(\hA, 1, {Field("buffersLowWatermark", 0, 0, 31)})

getGeneralStatusDrop ==
    Register(\hB, 1, {Field("port", 0, 8, 8), Field("fwds", 0, 1, 1), Field("parts", 0, 0, 1)})

getGeneralStatusRamError ==
    Register(\hC, 2, {Field("ramparerr", 0, 0, 21), Slice("ramparerr", 21, 1, 0, 5)})

setGeneralStatusRamInit ==
    Register(\hE, 2, {Field("rparinit", 0, 0, 23), Slice("rparinit", 23, 1, 0, 5)})

getGeneralStatusRamInit ==
    Register(\hE, 2, {Field("rparinit", 0, 0, 23), Slice("rparinit", 23, 1, 0, 5)})

setEthernetPortStatusControl == Register(\h10, 1, {Field("clearport", 0, 0, 5)})

setTransmissionControl == Register(\h12, 1, {Field("inhibittx", 0, 0, 5)})

setPtpControl0 ==
    Register(\h15, 2, {Field("ptppinst", 0, 0, 32), Slice("ptppinst", 32, 1, 0, 32)})

setPtpControl1 == Register(\h17, 1, {Field("ptppindur", 0, 0, 32)})

setPtpControl2 ==
    Register(\h18, 1,
        {Field("valid", 0, 31, 1)}
        \cup Flags(0, 28, <<"startptpcp", "stopptpcp", "syncCascaded">>)
        \cup Flags(0, 3, <<"resptp", "corrclk4ts", "ptpclksub", "ptpclkadd">>))

getPtpControl2 == Register(\h18, 1, {Field("syncCascaded", 0, 26, 1)})

setPtpControl3 ==
    Register(\h19, 2, {Field("ptpclkval", 0, 0, 32), Slice("ptpclkval", 32, 1, 0, 32)})

getPtpControl3 ==
    Register(\h19, 2, {Field("ptpclkval", 0, 0, 32), Slice("ptpclkval", 32, 1, 0, 32)})

setPtpControl4 == Register(\h1B, 1, {Field("ptpclkrate", 0, 0, 32)})

getPtpControl5 ==
    Register(\h1C, 2, {Field("ptptsclk", 0, 0, 32), Slice("ptptsclk", 32, 1, 0, 32)})

getPtpControl6 ==
    Register(\h1F, 2, {Field("ptptsshadow", 0, 0, 32), Slice("ptptsshadow", 32, 1, 0, 32)})

setL2ArtEntry ==
    Limited(Register(\h24, 5,
        {Field("macaddr", 0, 22, 10), Field("destports", 0, 17, 5), Field("enfport", 0, 16, 1),
        Field("index", 0, 6, 10), Slice("macaddr", 10, 1, 0, 32), Field("mask", 2, 19, 13),
        Field("innerOuterVlan", 2, 18, 1), Field("vlanid", 2, 6, 12),
        Slice("macaddr", 42, 2, 0, 6), Slice("mask", 13, 3, 0, 32), Field("touched", 4, 31, 1),
        Field("age", 4, 16, 15), Slice("mask", 45, 4, 0, 19)}),
        {<<"mask", 61>>})

getL2ArtEntry ==
    Register(\h24, 5,
        {Field("macaddr", 0, 22, 10), Field("destports", 0, 17, 5), Field("enfport", 0, 16, 1),
        Field("index", 0, 6, 10), Slice("macaddr", 10, 1, 0, 32), Field("mask", 2, 19, 13),
        Field("innerOuterVlan", 2, 18, 1), Field("vlanid", 2, 6, 12),
        Slice("macaddr", 42, 2, 0, 6), Slice("mask", 13, 3, 0, 32), Field("touched", 4, 31, 1),
        Field("age", 4, 16, 15), Slice("mask", 45, 4, 0, 16)})

setL2ArtLockedEntry ==
    Limited(Register(\h24, 5,
        {Field("macaddr", 0, 22, 10), Field("destports", 0, 17, 5), Field("enfport", 0, 16, 1),
        Field("index", 0, 6, 10), Slice("macaddr", 10, 1, 0, 32), Field("mask", 2, 19, 13),
        Field("innerOuterVlan", 2, 18, 1), Field("vlanid", 2, 6, 12),
        Slice("macaddr", 42, 2, 0, 6), Slice("mask", 13, 3, 0, 32), Field("tsReg", 4, 31, 1),
        Field("mirroredVlan", 4, 19, 12), Slice("mask", 45, 4, 0, 19)}
        \cup Flags(4, 18, <<"takeTs", "mirror", "retag">>)),
        {<<"mask", 61>>})

getL2ArtLockedEntry ==
    Register(\h24, 5,
        {Field("macaddr", 0, 22, 10), Field("destports", 0, 17, 5), Field("enfport", 0, 16, 1),
        Field("index", 0, 6, 10), Slice("macaddr", 10, 1, 0, 32), Field("mask", 2, 19, 13),
        Field("innerOuterVlan", 2, 18, 1), Field("vlanid", 2, 6, 12),
        Slice("macaddr", 42, 2, 0, 6), Slice("mask", 13, 3, 0, 32), Field("tsReg", 4, 31, 1),
        Field("mirroredVlan", 4, 19, 12), Slice("mask", 45, 4, 0, 16)}
        \cup Flags(4, 18, <<"takeTs", "mirror", "retag">>))

setL2AddressLookupTableControl ==
    Register(\h29, 1,
        {Field("valid", 0, 31, 1), Field("rdwrset", 0, 30, 1), Field("hostCmd", 0, 23, 3)}
        \cup Flags(0, 28, <<"lockeds", "valident", "mgmtroute">>))

getL2AddressLookupTableControl ==
    Coded(Register(\h29, 1,
        {Field("valid", 0, 31, 1), Field("hostCmd", 0, 23, 3)}
        \cup Flags(0, 29, <<"errors", "lockeds", "valident", "mgmtroute">>)),
        {<<{"hostCmd"}, convertToHostCmd>>})

setL2ForwardingTableEntry ==
    Register(\h2A, 2,
        {Field("vlanPmap2", 0, 31, 1), Field("vlanPmap1", 0, 28, 3),
        Field("vlanPmap0", 0, 25, 3), Field("bcDomain", 1, 27, 5), Field("reachPort", 1, 22, 5),
        Field("flDomain", 1, 17, 5), Field("vlanPmap7", 1, 14, 3), Field("vlanPmap6", 1, 11, 3),
        Field("vlanPmap5", 1, 8, 3), Field("vlanPmap4", 1, 5, 3), Field("vlanPmap3", 1, 2, 3),
        Slice("vlanPmap2", 1, 1, 0, 2)})

getL2ForwardingTableEntry ==
    Register(\h2A, 2,
        {Field("vlanPmap2", 0, 31, 1), Field("vlanPmap1", 0, 28, 3),
        Field("vlanPmap0", 0, 25, 3), Field("bcDomain", 1, 27, 5), Field("reachPort", 1, 22, 5),
        Field("flDomain", 1, 17, 5), Field("vlanPmap7", 1, 14, 3), Field("vlanPmap6", 1, 11, 3),
        Field("vlanPmap5", 1, 8, 3), Field("vlanPmap4", 1, 5, 3), Field("vlanPmap3", 1, 2, 3),
        Slice("vlanPmap2", 1, 1, 0, 2)})

setL2ForwardingTableControl ==
    Register(\h2C, 1,
        {Field("valid", 0, 31, 1), Field("rdwrset", 0, 29, 1), Field("index", 0, 0, 5)})

getL2ForwardingTableControl == Register(\h2C, 1, {Field("errors", 0, 30, 1)})

setVlanLookupTableEntry ==
    Register(\h2D, 2,
        {Field("vlanid", 0, 27, 5), Field("vingMirr", 1, 27, 5), Field("vegrMirr", 1, 22, 5),
        Field("vmembPort", 1, 17, 5), Field("vlanBc", 1, 12, 5), Field("tagPort", 1, 7, 5),
        Slice("vlanid", 5, 1, 0, 7)})

getVlanLookupTableEntry ==
    Register(\h2D, 2,
        {Field("vlanid", 0, 27, 5), Field("vingMirr", 1, 27, 5), Field("vegrMirr", 1, 22, 5),
        Field("vmembPort", 1, 17, 5), Field("vlanBc", 1, 12, 5), Field("tagPort", 1, 7, 5),
        Slice("vlanid", 5, 1, 0, 7)})

setVlanLookupTableControl ==
    Register(\h30, 1,
        {Field("valid", 0, 31, 1), Field("rdwrset", 0, 30, 1), Field("valident", 0, 27, 1)})

getVlanLookupTableControl == Register(\h30, 1, {Field("valident", 0, 27, 1)})

setCreditBasedShapingEntry ==
    Register(\h32, 5,
        {Field("idleSlope", 0, 26, 6), Field("sendSlope", 1, 26, 6),
        Slice("idleSlope", 6, 1, 0, 26), Field("creditHi", 2, 26, 6),
        Slice("sendSlope", 6, 2, 0, 26), Field("creditLo", 3, 26, 6),
        Slice("creditHi", 6, 3, 0, 26), Field("cbsPort", 4, 29, 3), Field("cbsPrio", 4, 26, 3),
        Slice("creditLo", 6, 4, 0, 26)})

getCreditBasedShapingEntry ==
    Register(\h32, 5,
        {Field("idleSlope", 0, 26, 6), Field("sendSlope", 1, 26, 6),
        Slice("idleSlope", 6, 1, 0, 26), Field("creditHi", 2, 26, 6),
        Slice("sendSlope", 6, 2, 0, 26), Field("creditLo", 3, 26, 6),
        Slice("creditHi", 6, 3, 0, 26), Field("cbsPort", 4, 29, 3), Field("cbsPrio", 4, 26, 3),
        Slice("creditLo", 6, 4, 0, 26)})

setCreditBasedShapingControl ==
    Register(\h37, 1,
        {Field("valid", 0, 31, 1), Field("rdwrset", 0, 30, 1), Field("shaperId", 0, 0, 4)})

getCreditBasedShapingControl == Register(\h37, 1, {Field("errors", 0, 29, 1)})

setRetaggingTableEntry ==
    Register(\h38, 2,
        {Field("vlanEgr", 0, 30, 2), Field("doNotLearn", 0, 29, 1),
        Field("useDestports", 0, 28, 1), Field("destports", 0, 23, 5),
        Field("egrPort", 1, 27, 5), Field("ingPort", 1, 22, 5), Field("vlanIng", 1, 10, 12),
        Slice("vlanEgr", 2, 1, 0, 10)})

getRetaggingTableEntry ==
    Register(\h38, 2,
        {Field("vlanEgr", 0, 30, 2), Field("doNotLearn", 0, 29, 1),
        Field("useDestports", 0, 28, 1), Field("destports", 0, 23, 5),
        Field("egrPort", 1, 27, 5), Field("ingPort", 1, 22, 5), Field("vlanIng", 1, 10, 12),
        Slice("vlanEgr", 2, 1, 0, 10)})

setRetaggingTableControl ==
    Register(\h3A, 1,
        {Field("valid", 0, 31, 1), Field("valident", 0, 29, 1), Field("rdwrset", 0, 28, 1),
        Field("index", 0, 0, 6)})

getRetaggingTableControl == Register(\h3A, 1, {Field("errors", 0, 30, 1)})

setGeneralParametersEntry ==
    Limited(Register(\h3B, 11,
        {Field("egrMirrOuterTag", 0, 29, 3), Field("egrMirrOuterPcp", 0, 26, 3),
        Field("egrMirrOuterDei", 0, 25, 1), Field("tpid", 1, 27, 5),
        Field("ignore2StepFlag", 1, 26, 1), Field("tpid2", 1, 10, 16),
        Field("takeEgrTsOnHostPort", 1, 9, 1), Slice("egrMirrOuterTag", 3, 1, 0, 9),
        Field("vlMask", 2, 11, 21), Slice("tpid", 5, 2, 0, 11), Field("vlMarker", 3, 11, 21),
        Slice("vlMask", 21, 3, 0, 11), Field("macFilter0", 4, 24, 8),
        Field("cascadingPort", 4, 17, 3), Field("hostPort", 4, 14, 3),
        Field("mirrorp", 4, 11, 3), Slice("vlMarker", 21, 4, 0, 11),
        Slice("macFilter0", 8, 5, 0, 32), Field("macFilter1", 6, 8, 24),
        Slice("macFilter0", 40, 6, 0, 24), Field("macFilterResult0", 7, 24, 8),
        Slice("macFilter1", 24, 7, 0, 24), Slice("macFilterResult0", 8, 8, 0, 32),
        Field("macFilterResult1", 9, 8, 24), Slice("macFilterResult0", 40, 9, 0, 24),
        Field("arinc", 10, 31, 1), Field("mirrorPortReconfigEnable", 10, 30, 1),
        Field("id", 10, 27, 3), Field("mgmtPrio", 10, 24, 3),
        Slice("macFilterResult1", 24, 10, 0, 24)}
        \cup Flags(4, 23, <<
            "includeSrcPort1", "includeSrcPort0", "sendFollowUpTs1", "sendFollowUpTs0">>)),
        {<<"macFilter0", 48>>, <<"macFilterResult0", 48>>})

getGeneralParametersEntry ==
    Register(\h3B, 11,
        {Field("egrMirrOuterTag", 0, 29, 3), Field("egrMirrOuterPcp", 0, 26, 3),
        Field("egrMirrOuterDei", 0, 25, 1), Field("tpid", 1, 27, 5),
        Field("ignore2StepFlag", 1, 26, 1), Field("tpid2", 1, 10, 16),
        Field("takeEgrTsOnHostPort", 1, 9, 1), Slice("egrMirrOuterTag", 3, 1, 0, 9),
        Field("vlMask", 2, 11, 21), Slice("tpid", 5, 2, 0, 11), Field("vlMarker", 3, 11, 21),
        Slice("vlMask", 21, 3, 0, 11), Field("macFilter0", 4, 24, 8),
        Field("cascadingPort", 4, 17, 3), Field("hostPort", 4, 14, 3),
        Field("mirrorp", 4, 11, 3), Slice("vlMarker", 21, 4, 0, 11),
        Slice("macFilter0", 8, 5, 0, 32), Field("macFilter1", 6, 8, 24),
        Slice("macFilter0", 40, 6, 0, 8), Field("macFilterResult0", 7, 24, 8),
        Slice("macFilter1", 24, 7, 0, 24), Slice("macFilterResult0", 8, 8, 0, 32),
        Field("macFilterResult1", 9, 8, 24), Slice("macFilterResult0", 40, 9, 0, 8),
        Field("arinc", 10, 31, 1), Field("mirrorPortReconfigEnable", 10, 30, 1),
        Field("id", 10, 27, 3), Field("mgmtPrio", 10, 24, 3),
        Slice("macFilterResult1", 24, 10, 0, 24)}
        \cup Flags(4, 23, <<
            "includeSrcPort1", "includeSrcPort0", "sendFollowUpTs1", "sendFollowUpTs0">>))

setGeneralParametersControl ==
    Register(\h46, 1, {Field("valid", 0, 31, 1), Field("rdwrset", 0, 28, 1)})

getGeneralParametersControl ==
    Register(\h46, 1, {Field("errors", 0, 30, 1), Field("mirrPortReconfigError", 0, 29, 1)})

setMacCfgTableEntry ==
    Register(\h4B, 8,
        {Field("ingressMirroringOuterTag", 0, 17, 12),
        Field("ingressMirroringOuterPcp", 0, 14, 3),
        Field("ingressMirroringOuterDei", 0, 13, 1), Field("maxAge", 1, 25, 7),
        Field("vlanPrio", 1, 22, 3), Field("vlanid", 1, 10, 12), Field("tpdelin", 2, 17, 15),
        Field("tpdelout", 2, 1, 16), Slice("maxAge", 7, 2, 0, 1), Field("base1", 3, 28, 4),
        Field("enabled1", 3, 27, 1), Field("top0", 3, 18, 9), Field("base0", 3, 9, 9),
        Field("enabled0", 3, 8, 1), Field("ifg", 3, 3, 5), Field("speed", 3, 1, 2),
        Slice("tpdelin", 15, 3, 0, 1), Field("top2", 4, 24, 8), Field("base2", 4, 15, 9),
        Field("enabled2", 4, 14, 1), Field("top1", 4, 5, 9), Slice("base1", 4, 4, 0, 5),
        Field("top4", 5, 30, 2), Field("base4", 5, 21, 9), Field("enabled4", 5, 20, 1),
        Field("top3", 5, 11, 9), Field("base3", 5, 2, 9), Field("enabled3", 5, 1, 1),
        Slice("top2", 8, 5, 0, 1), Field("base6", 6, 27, 5), Field("enabled6", 6, 26, 1),
        Field("top5", 6, 17, 9), Field("base5", 6, 8, 9), Field("enabled5", 6, 7, 1),
        Slice("top4", 2, 6, 0, 7), Field("top7", 7, 23, 9), Field("base7", 7, 14, 9),
        Field("enabled7", 7, 13, 1), Field("top6", 7, 4, 9), Slice("base6", 5, 7, 0, 4)}
        \cup Flags(0, 31, <<
            "ingress", "mirrorConflictOnIngressEgress", "mirrorConflictOnEgressTag">>)
        \cup Flags(1, 9, <<
            "ingmirr", "egrmirr", "dropNonA664", "dropDoubleTagged", "dropSingleOuterTagged",
            "dropSingleInnerTagged", "drpuntag", "retag", "dynLearn", "egress">>))

getMacCfgTableEntry ==
    Register(\h4B, 8,
        {Field("ingressMirroringOuterTag", 0, 17, 12),
        Field("ingressMirroringOuterPcp", 0, 14, 3),
        Field("ingressMirroringOuterDei", 0, 13, 1), Field("maxAge", 1, 25, 7),
        Field("vlanPrio", 1, 22, 3), Field("vlanid", 1, 10, 12), Field("tpdelin", 2, 17, 15),
        Field("tpdelout", 2, 1, 16), Slice("maxAge", 7, 2, 0, 1), Field("base1", 3, 28, 4),
        Field("enabled1", 3, 27, 1), Field("top0", 3, 18, 9), Field("base0", 3, 9, 9),
        Field("enabled0", 3, 8, 1), Field("ifg", 3, 3, 5), Field("speed", 3, 1, 2),
        Slice("tpdelin", 15, 3, 0, 1), Field("top2", 4, 24, 8), Field("base2", 4, 15, 9),
        Field("enabled2", 4, 14, 1), Field("top1", 4, 5, 9), Slice("base1", 4, 4, 0, 5),
        Field("top4", 5, 30, 2), Field("base4", 5, 21, 9), Field("enabled4", 5, 20, 1),
        Field("top3", 5, 11, 9), Field("base3", 5, 2, 9), Field("enabled3", 5, 1, 1),
        Slice("top2", 8, 5, 0, 1), Field("base6", 6, 27, 5), Field("enabled6", 6, 26, 1),
        Field("top5", 6, 17, 9), Field("base5", 6, 8, 9), Field("enabled5", 6, 7, 1),
        Slice("top4", 2, 6, 0, 7), Field("top7", 7, 23, 9), Field("base7", 7, 14, 9),
        Field("enabled7", 7, 13, 1), Field("top6", 7, 4, 9), Slice("base6", 5, 7, 0, 4)}
        \cup Flags(0, 31, <<
            "ingress", "mirrorConflictOnIngressEgress", "mirrorConflictOnEgressTag">>)
        \cup Flags(1, 9, <<
            "ingmirr", "egrmirr", "dropNonA664", "dropDoubleTagged", "dropSingleOuterTagged",
            "dropSingleInnerTagged", "drpuntag", "retag", "dynLearn", "egress">>))

setMacCfgTableControl ==
    Register(\h53, 1,
        {Field("valid", 0, 31, 1), Field("rdwrset", 0, 29, 1), Field("port", 0, 0, 5)})

getMacCfgTableControl == Register(\h53, 1, {Field("errors", 0, 30, 1)})

setL2LookupParametersEntry ==
    Register(\h54, 4,
        {Field("dropIfCannotLearn", 0, 28, 4), Field("maxNoOfAddrAllowedPerPort0", 1, 26, 6),
        Field("maxAge", 1, 11, 15), Field("startDynSpaceAddr", 1, 1, 10),
        Slice("dropIfCannotLearn", 4, 1, 0, 1), Field("maxNoOfAddrAllowedPerPort3", 2, 27, 5),
        Field("maxNoOfAddrAllowedPerPort2", 2, 16, 11),
        Field("maxNoOfAddrAllowedPerPort1", 2, 5, 11),
        Slice("maxNoOfAddrAllowedPerPort0", 6, 2, 0, 5),
        Field("enableSourcePortEnforcingForBroadcast", 3, 27, 5),
        Field("enableSourcePortEnforcingForMulticast", 3, 22, 5),
        Field("enableSourcePortEnforcingForUnicast", 3, 17, 5),
        Field("maxNoOfAddrAllowedPerPort4", 3, 6, 11),
        Slice("maxNoOfAddrAllowedPerPort3", 5, 3, 0, 6)}
        \cup Flags(0, 27, <<
            "sharedLearning", "skipPortEnforcementAtHostPort", "ignoreMgmtAddrAtHostPort",
            "useFreeStaticSpaceForLearning", "overwriteDynIfTcamFull", "oneShotLearning">>))

getL2LookupParametersEntry ==
    Register(\h54, 4,
        {Field("dropIfCannotLearn", 0, 28, 4), Field("maxNoOfAddrAllowedPerPort0", 1, 26, 6),
        Field("maxAge", 1, 11, 15), Field("startDynSpaceAddr", 1, 1, 10),
        Slice("dropIfCannotLearn", 4, 1, 0, 1), Field("maxNoOfAddrAllowedPerPort3", 2, 27, 5),
        Field("maxNoOfAddrAllowedPerPort2", 2, 16, 11),
        Field("maxNoOfAddrAllowedPerPort1", 2, 5, 11),
        Slice("maxNoOfAddrAllowedPerPort0", 6, 2, 0, 5),
        Field("enableSourcePortEnforcingForBroadcast", 3, 27, 5),
        Field("enableSourcePortEnforcingForMulticast", 3, 22, 5),
        Field("enableSourcePortEnforcingForUnicast", 3, 17, 5),
        Field("maxNoOfAddrAllowedPerPort4", 3, 6, 11),
        Slice("maxNoOfAddrAllowedPerPort3", 5, 3, 0, 6)}
        \cup Flags(0, 27, <<
            "sharedLearning", "skipPortEnforcementAtHostPort", "ignoreMgmtAddrAtHostPort",
            "useFreeStaticSpaceForLearning", "overwriteDynIfTcamFull", "oneShotLearning">>))

setL2LookupParametersControl ==
    Register(\h58, 1, {Field("valid", 0, 31, 1), Field("rdwrset", 0, 30, 1)})

getL2LookupParametersControl == Register(\h58, 1, {Field("valid", 0, 31, 1)})

getPtpEgress0 ==
    IndexedRegister(\hC0, <<4, 2>>, <<SJA1105P_N_PORTS, 2>>, 1, {Field("update", 0, 0, 1)})

getPtpEgress1 ==
    IndexedRegister(\hC1, <<4, 2>>, <<SJA1105P_N_PORTS, 2>>, 1, {Field("ptpegrTs", 0, 0, 32)})

getL2MemoryPartitionStatus ==
    IndexedRegister(\h100, <<1, 0>>, <<8, 1>>, 1,
        {Field("l2parts", 0, 31, 1), Field("nL2pspc", 0, 0, 31)})

getMacLevelDiagnCounters ==
    PortRegister(\h200, 2, 1,
        {Field("nRunt", 0, 24, 8), Field("nSoferr", 0, 16, 8), Field("nAlignerr", 0, 8, 8),
        Field("nMiierr", 0, 0, 8)})

getMacLevelDiagnFlags ==
    PortRegister(\h201, 2, 1,
        {Field("spcprior", 0, 12, 4), Field("drn664errs", 0, 2, 1), Field("spcerrs", 0, 1, 1)}
        \cup Flags(0, 6, <<"portdrops", "lendrops", "bwdrops">>))

getHlDiagnCounters10 ==
    PortRegister(\h400, 16, 2, {Field("nTxbyte", 0, 0, 32), Slice("nTxbyte", 32, 1, 0, 32)})

getHlDiagnCounters11 ==
    PortRegister(\h402, 16, 2, {Field("nTxfrm", 0, 0, 32), Slice("nTxfrm", 32, 1, 0, 32)})

getHlDiagnCounters12 ==
    PortRegister(\h404, 16, 2, {Field("nRxbyte", 0, 0, 32), Slice("nRxbyte", 32, 1, 0, 32)})

getHlDiagnCounters13 ==
    PortRegister(\h406, 16, 2, {Field("nRxfrm", 0, 0, 32), Slice("nRxfrm", 32, 1, 0, 32)})

getHlDiagnCounters14 == PortRegister(\h408, 16, 1, {Field("nPolerr", 0, 0, 32)})

getHlDiagnCounters15 == PortRegister(\h40B, 16, 1, {Field("nCrcerr", 0, 0, 32)})

getHlDiagnCounters16 == PortRegister(\h40C, 16, 1, {Field("nSizeerr", 0, 0, 32)})

getHlDiagnCounters17 == PortRegister(\h40E, 16, 1, {Field("nVlanerr", 0, 0, 32)})

getHlDiagnCounters18 == PortRegister(\h40F, 16, 1, {Field("nN664err", 0, 0, 32)})

getHlDiagnCounters20 == PortRegister(\h600, 16, 1, {Field("notReach", 0, 0, 32)})

getHlDiagnCounters21 == PortRegister(\h601, 16, 1, {Field("egrDisabled", 0, 0, 32)})

getHlDiagnCounters22 == PortRegister(\h602, 16, 1, {Field("partDrop", 0, 0, 32)})

getHlDiagnCounters23 == PortRegister(\h603, 16, 1, {Field("qfull", 0, 0, 32)})

getHlDiagnCountersOccupancy ==
    IndexedRegister(\h604, <<16, 1>>, <<SJA1105P_N_PORTS, 8>>, 1,
        {Field("qOccupancyHighWatt", 0, 16, 8), Field("qOccupancy", 0, 0, 8)})

getL2MemoryPartitionErrorCounters ==
    IndexedRegister(\h1000, <<1, 0>>, <<8, 1>>, 1, {Field("nL2pspcdrn", 0, 0, 32)})

getEthStatCounters00 == PortRegister(\h1400, 24, 1, {Field("ingBroadcastPkts", 0, 0, 32)})

getEthStatCounters01 == PortRegister(\h1401, 24, 1, {Field("ingMulticastPkts", 0, 0, 32)})

getEthStatCounters02 == PortRegister(\h1402, 24, 1, {Field("ingPkts64Octets", 0, 0, 32)})

getEthStatCounters03 == PortRegister(\h1403, 24, 1, {Field("ingPkts65To127Octets", 0, 0, 32)})

getEthStatCounters04 == PortRegister(\h1404, 24, 1, {Field("ingPkts128To255Octets", 0, 0, 32)})

getEthStatCounters05 == PortRegister(\h1405, 24, 1, {Field("ingPkts256To511Octets", 0, 0, 32)})

getEthStatCounters06 == PortRegister(\h1406, 24, 1, {Field("ingPkts512To1023Octets", 0, 0, 32)})

getEthStatCounters07 == PortRegister(\h1407, 24, 1, {Field("ingPkts1024To1518Octets", 0, 0, 32)})

getEthStatCounters08 == PortRegister(\h1408, 24, 1, {Field("egrBroadcastPkts", 0, 0, 32)})

getEthStatCounters09 == PortRegister(\h1409, 24, 1, {Field("egrMulticastPkts", 0, 0, 32)})

getEthStatCounters10 == PortRegister(\h140A, 24, 1, {Field("egrPkts64Octets", 0, 0, 32)})

getEthStatCounters11 == PortRegister(\h140B, 24, 1, {Field("egrPkts65To127Octets", 0, 0, 32)})

getEthStatCounters12 == PortRegister(\h140C, 24, 1, {Field("egrPkts128To255Octets", 0, 0, 32)})

getEthStatCounters13 == PortRegister(\h140D, 24, 1, {Field("egrPkts256To511Octets", 0, 0, 32)})

getEthStatCounters14 == PortRegister(\h140E, 24, 1, {Field("egrPkts512To1023Octets", 0, 0, 32)})

getEthStatCounters15 == PortRegister(\h140F, 24, 1, {Field("egrPkts1024To1518Octets", 0, 0, 32)})

getEthStatCounters16 == PortRegister(\h1410, 24, 1, {Field("ingUntaggedDrop", 0, 0, 32)})

getEthStatCounters17 == PortRegister(\h1411, 24, 1, {Field("ingSingleInnerDrop", 0, 0, 32)})

getEthStatCounters18 == PortRegister(\h1412, 24, 1, {Field("ingSingleOuterDrop", 0, 0, 32)})

getEthStatCounters19 == PortRegister(\h1413, 24, 1, {Field("ingDoubleTaggedDrop", 0, 0, 32)})

getEthStatCounters20 ==
    PortRegister(\h1414, 24, 1, {Field("ingIllegalDoubleTaggedDrop", 0, 0, 32)})

getEthStatCounters21 == PortRegister(\h1415, 24, 1, {Field("ingEmptyRouteDrop", 0, 0, 32)})

getEthStatCounters22 == PortRegister(\h1416, 24, 1, {Field("ingAddrNotLearnedDrop", 0, 0, 32)})

getL2ForwardingParameters ==
    Register(\h8000, 3,
        {Field("partitionSpace6", 0, 23, 9), Field("partitionSpace7", 0, 13, 10),
        Field("partitionSpace2", 1, 31, 1), Field("partitionSpace3", 1, 21, 10),
        Field("partitionSpace4", 1, 11, 10), Field("partitionSpace5", 1, 1, 10),
        Slice("partitionSpace6", 9, 1, 0, 1), Field("maxDynPrio", 2, 29, 3),
        Field("partitionSpace0", 2, 19, 10), Field("partitionSpace1", 2, 9, 10),
        Slice("partitionSpace2", 1, 2, 0, 9)})

setAvbParametersEntry ==
    Register(\h8003, 4,
        {Field("srcMeta", 0, 30, 2), Slice("srcMeta", 2, 1, 0, 32), Field("dstMeta", 2, 14, 18),
        Slice("srcMeta", 34, 2, 0, 14), Field("useL2DataRateForCbs", 3, 31, 1),
        Field("ptpMaster", 3, 30, 1), Slice("dstMeta", 18, 3, 0, 30)})

getAvbParametersEntry ==
    Register(\h8003, 4,
        {Field("srcMeta", 0, 30, 2), Slice("srcMeta", 2, 1, 0, 32), Field("dstMeta", 2, 14, 18),
        Slice("srcMeta", 34, 2, 0, 14), Field("useL2DataRateForCbs", 3, 31, 1),
        Field("ptpMaster", 3, 30, 1), Slice("dstMeta", 18, 3, 0, 30)})

setAvbParametersControl ==
    Register(\h8007, 1, {Field("valid", 0, 31, 1), Field("rdwrset", 0, 29, 1)})

getAvbParametersControl == Register(\h8007, 1, {Field("errors", 0, 30, 1)})

(* What the header exports: per register, the function that writes and the one that reads it. *)
switchCoreRegisters ==
    [deviceId |-> <<NoRegister, getDeviceId>>,
    configurationFlags |-> <<NoRegister, getConfigurationFlags>>,
    generalStatusL2 |-> <<NoRegister, getGeneralStatusL2>>,
    generalStatusHashconfs |-> <<NoRegister, getGeneralStatusHashconfs>>,
    generalStatusVlan |-> <<NoRegister, getGeneralStatusVlan>>,
    generalStatusMem0 |-> <<NoRegister, getGeneralStatusMem0>>,
    generalStatusMem1 |-> <<NoRegister, getGeneralStatusMem1>>,
    generalStatusDrop |-> <<NoRegister, getGeneralStatusDrop>>,
    generalStatusRamError |-> <<NoRegister, getGeneralStatusRamError>>,
    generalStatusRamInit |-> <<setGeneralStatusRamInit, getGeneralStatusRamInit>>,
    ethernetPortStatusControl |-> <<setEthernetPortStatusControl, NoRegister>>,
    transmissionControl |-> <<setTransmissionControl, NoRegister>>,
    ptpControl0 |-> <<setPtpControl0, NoRegister>>,
    ptpControl1 |-> <<setPtpControl1, NoRegister>>,
    ptpControl2 |-> <<setPtpControl2, getPtpControl2>>,
    ptpControl3 |-> <<setPtpControl3, getPtpControl3>>,
    ptpControl4 |-> <<setPtpControl4, NoRegister>>,
    ptpControl5 |-> <<NoRegister, getPtpControl5>>,
    ptpControl6 |-> <<NoRegister, getPtpControl6>>,
    l2ArtEntry |-> <<setL2ArtEntry, getL2ArtEntry>>,
    l2ArtLockedEntry |-> <<setL2ArtLockedEntry, getL2ArtLockedEntry>>,
    l2AddressLookupTableControl |-> <<setL2AddressLookupTableControl, getL2AddressLookupTableControl>>,
    l2ForwardingTableEntry |-> <<setL2ForwardingTableEntry, getL2ForwardingTableEntry>>,
    l2ForwardingTableControl |-> <<setL2ForwardingTableControl, getL2ForwardingTableControl>>,
    vlanLookupTableEntry |-> <<setVlanLookupTableEntry, getVlanLookupTableEntry>>,
    vlanLookupTableControl |-> <<setVlanLookupTableControl, getVlanLookupTableControl>>,
    creditBasedShapingEntry |-> <<setCreditBasedShapingEntry, getCreditBasedShapingEntry>>,
    creditBasedShapingControl |-> <<setCreditBasedShapingControl, getCreditBasedShapingControl>>,
    retaggingTableEntry |-> <<setRetaggingTableEntry, getRetaggingTableEntry>>,
    retaggingTableControl |-> <<setRetaggingTableControl, getRetaggingTableControl>>,
    generalParametersEntry |-> <<setGeneralParametersEntry, getGeneralParametersEntry>>,
    generalParametersControl |-> <<setGeneralParametersControl, getGeneralParametersControl>>,
    macCfgTableEntry |-> <<setMacCfgTableEntry, getMacCfgTableEntry>>,
    macCfgTableControl |-> <<setMacCfgTableControl, getMacCfgTableControl>>,
    l2LookupParametersEntry |-> <<setL2LookupParametersEntry, getL2LookupParametersEntry>>,
    l2LookupParametersControl |-> <<setL2LookupParametersControl, getL2LookupParametersControl>>,
    ptpEgress0 |-> <<NoRegister, getPtpEgress0>>, ptpEgress1 |-> <<NoRegister, getPtpEgress1>>,
    l2MemoryPartitionStatus |-> <<NoRegister, getL2MemoryPartitionStatus>>,
    macLevelDiagnCounters |-> <<NoRegister, getMacLevelDiagnCounters>>,
    macLevelDiagnFlags |-> <<NoRegister, getMacLevelDiagnFlags>>,
    hlDiagnCounters10 |-> <<NoRegister, getHlDiagnCounters10>>,
    hlDiagnCounters11 |-> <<NoRegister, getHlDiagnCounters11>>,
    hlDiagnCounters12 |-> <<NoRegister, getHlDiagnCounters12>>,
    hlDiagnCounters13 |-> <<NoRegister, getHlDiagnCounters13>>,
    hlDiagnCounters14 |-> <<NoRegister, getHlDiagnCounters14>>,
    hlDiagnCounters15 |-> <<NoRegister, getHlDiagnCounters15>>,
    hlDiagnCounters16 |-> <<NoRegister, getHlDiagnCounters16>>,
    hlDiagnCounters17 |-> <<NoRegister, getHlDiagnCounters17>>,
    hlDiagnCounters18 |-> <<NoRegister, getHlDiagnCounters18>>,
    hlDiagnCounters20 |-> <<NoRegister, getHlDiagnCounters20>>,
    hlDiagnCounters21 |-> <<NoRegister, getHlDiagnCounters21>>,
    hlDiagnCounters22 |-> <<NoRegister, getHlDiagnCounters22>>,
    hlDiagnCounters23 |-> <<NoRegister, getHlDiagnCounters23>>,
    hlDiagnCountersOccupancy |-> <<NoRegister, getHlDiagnCountersOccupancy>>,
    l2MemoryPartitionErrorCounters |-> <<NoRegister, getL2MemoryPartitionErrorCounters>>,
    ethStatCounters00 |-> <<NoRegister, getEthStatCounters00>>,
    ethStatCounters01 |-> <<NoRegister, getEthStatCounters01>>,
    ethStatCounters02 |-> <<NoRegister, getEthStatCounters02>>,
    ethStatCounters03 |-> <<NoRegister, getEthStatCounters03>>,
    ethStatCounters04 |-> <<NoRegister, getEthStatCounters04>>,
    ethStatCounters05 |-> <<NoRegister, getEthStatCounters05>>,
    ethStatCounters06 |-> <<NoRegister, getEthStatCounters06>>,
    ethStatCounters07 |-> <<NoRegister, getEthStatCounters07>>,
    ethStatCounters08 |-> <<NoRegister, getEthStatCounters08>>,
    ethStatCounters09 |-> <<NoRegister, getEthStatCounters09>>,
    ethStatCounters10 |-> <<NoRegister, getEthStatCounters10>>,
    ethStatCounters11 |-> <<NoRegister, getEthStatCounters11>>,
    ethStatCounters12 |-> <<NoRegister, getEthStatCounters12>>,
    ethStatCounters13 |-> <<NoRegister, getEthStatCounters13>>,
    ethStatCounters14 |-> <<NoRegister, getEthStatCounters14>>,
    ethStatCounters15 |-> <<NoRegister, getEthStatCounters15>>,
    ethStatCounters16 |-> <<NoRegister, getEthStatCounters16>>,
    ethStatCounters17 |-> <<NoRegister, getEthStatCounters17>>,
    ethStatCounters18 |-> <<NoRegister, getEthStatCounters18>>,
    ethStatCounters19 |-> <<NoRegister, getEthStatCounters19>>,
    ethStatCounters20 |-> <<NoRegister, getEthStatCounters20>>,
    ethStatCounters21 |-> <<NoRegister, getEthStatCounters21>>,
    ethStatCounters22 |-> <<NoRegister, getEthStatCounters22>>,
    l2ForwardingParameters |-> <<NoRegister, getL2ForwardingParameters>>,
    avbParametersEntry |-> <<setAvbParametersEntry, getAvbParametersEntry>>,
    avbParametersControl |-> <<setAvbParametersControl, getAvbParametersControl>>]
=============================================================================
