-------------------- MODULE AuxiliaryConfigurationUnit ---------------------
(* The registers of the auxiliary configuration unit: the layout each       *)
(* accessor function of NXP_SJA1105P_auxiliaryConfigurationUnit.c reads or  *)
(* writes, under the name of that function.                                 *)
EXTENDS RegisterLayout

convertToPadOutputStageSpeed == Enumeration({1, 2, 3}, 0)
convertToPadInputStageSelection == Enumeration({1, 2, 3}, 0)
convertToSpeed == Enumeration({0, 1}, 2)
convertToIdCtlMode == Enumeration({0, 1}, 2)
convertToPadInputHysteresis == Enumeration({1}, 0)
convertToXmiiMode == Enumeration({0, 1, 2}, 3)
convertToPartNr == Enumeration(39554 .. 39559, 0)
convertToRgmiiSmpl == Enumeration({1, 2, 3}, 0)
convertToIdFreqMode == Enumeration({0, 1, 2}, 3)
convertToTempThreshold == Enumeration(1 .. 39, 0)

setCfgPadMiix ==
    IndexedRegister(\h100800, <<2, 1>>, <<SJA1105P_N_PORTS, 2>>, 1,
        {Field("d32Os", 0, 27, 2), Field("d32Ih", 0, 26, 1), Field("d32Ipud", 0, 24, 2),
        Field("d10Os", 0, 19, 2), Field("d10Ih", 0, 18, 1), Field("d10Ipud", 0, 16, 2),
        Field("ctrlOs", 0, 11, 2), Field("ctrlIh", 0, 10, 2), Field("ctrlIpud", 0, 8, 2),
        Field("clkOs", 0, 3, 2), Field("clkIh", 0, 2, 1), Field("clkIpud", 0, 0, 2)})

getCfgPadMiix ==
    Coded(IndexedRegister(\h100800, <<2, 1>>, <<SJA1105P_N_PORTS, 2>>, 1,
        {Field("d32Os", 0, 27, 2), Field("d32Ih", 0, 26, 1), Field("d32Ipud", 0, 24, 2),
        Field("d10Os", 0, 19, 2), Field("d10Ih", 0, 18, 1), Field("d10Ipud", 0, 16, 2),
        Field("ctrlOs", 0, 11, 2), Field("ctrlIh", 0, 10, 2), Field("ctrlIpud", 0, 8, 2),
        Field("clkOs", 0, 3, 2), Field("clkIh", 0, 2, 1), Field("clkIpud", 0, 0, 2)}),
        {<<{"d32Os", "d10Os", "ctrlOs", "clkOs"}, convertToPadOutputStageSpeed>>,
        <<{"d32Ih", "d10Ih", "ctrlIh", "clkIh"}, convertToPadInputHysteresis>>,
        <<{"d32Ipud", "d10Ipud", "ctrlIpud", "clkIpud"}, convertToPadInputStageSelection>>})

setCfgPadMiixId ==
    PortRegister(\h100810, 1, 1,
        {Field("rxcDelay", 0, 10, 5), Field("rxcBypass", 0, 9, 1), Field("rxcPd", 0, 8, 1),
        Field("txcDelay", 0, 2, 5), Field("txcBypass", 0, 1, 1), Field("txcPd", 0, 0, 1)})

getCfgPadMiixId ==
    PortRegister(\h100810, 1, 1,
        {Field("rxcDelay", 0, 10, 5), Field("rxcBypass", 0, 9, 1), Field("rxcPd", 0, 8, 1),
        Field("txcDelay", 0, 2, 5), Field("txcBypass", 0, 1, 1), Field("txcPd", 0, 0, 1)})

setCfgPadMisc ==
    Register(\h100840, 1,
        {Field("ptpclkOs", 0, 19, 2), Field("ptpclkIh", 0, 18, 1),
        Field("ptpclkIpud", 0, 16, 2), Field("rstnIh", 0, 10, 1), Field("rstnIpud", 0, 8, 2),
        Field("clkoutEn", 0, 5, 1), Field("clkoutOs", 0, 3, 2), Field("clkoutIpud", 0, 0, 2)})

getCfgPadMisc ==
    Coded(Register(\h100840, 1,
        {Field("ptpclkOs", 0, 19, 2), Field("ptpclkIh", 0, 18, 1),
        Field("ptpclkIpud", 0, 16, 2), Field("rstnIh", 0, 10, 1), Field("rstnIpud", 0, 8, 2),
        Field("clkoutEn", 0, 5, 1), Field("clkoutOs", 0, 3, 2), Field("clkoutIpud", 0, 0, 2)}),
        {<<{"ptpclkOs", "clkoutOs"}, convertToPadOutputStageSpeed>>,
        <<{"ptpclkIh", "rstnIh"}, convertToPadInputHysteresis>>,
        <<{"ptpclkIpud", "rstnIpud", "clkoutIpud"}, convertToPadInputStageSelection>>})

setCfgPadSpi ==
    Register(\h100880, 1,
        {Field("sdoOs", 0, 27, 2), Field("sdoIpud", 0, 24, 2), Field("sdiIh", 0, 18, 1),
        Field("sdiIpud", 0, 16, 2), Field("ssnIh", 0, 10, 1), Field("ssnIpud", 0, 8, 2),
        Field("sckIh", 0, 2, 1), Field("sckIpud", 0, 0, 2)})

getCfgPadSpi ==
    Coded(Register(\h100880, 1,
        {Field("sdoOs", 0, 27, 2), Field("sdoIpud", 0, 24, 2), Field("sdiIh", 0, 18, 1),
        Field("sdiIpud", 0, 16, 2), Field("ssnIh", 0, 10, 1), Field("ssnIpud", 0, 8, 2),
        Field("sckIh", 0, 2, 1), Field("sckIpud", 0, 0, 2)}),
        {<<{"sdoOs"}, convertToPadOutputStageSpeed>>,
        <<{"sdoIpud", "sdiIpud", "ssnIpud", "sckIpud"}, convertToPadInputStageSelection>>,
        <<{"sdiIh", "ssnIh", "sckIh"}, convertToPadInputHysteresis>>})

setCfgPadJtag ==
    Register(\h100881, 1,
        {Field("tdoIpud", 0, 24, 2), Field("tdiIpud", 0, 16, 2), Field("trstntmsIpud", 0, 8, 2),
        Field("tckIpud", 0, 0, 2)})

getCfgPadJtag ==
    Coded(Register(\h100881, 1,
        {Field("tdoIpud", 0, 24, 2), Field("tdiIpud", 0, 16, 2), Field("trstntmsIpud", 0, 8, 2),
        Field("tckIpud", 0, 0, 2)}),
        {<<{"tdoIpud", "tdiIpud", "trstntmsIpud", "tckIpud"}, convertToPadInputStageSelection>>})

getPortStatusMiix ==
    Coded(PortRegister(\h100900, 1, 1,
        {Field("rxcIdFreqMode", 0, 20, 2), Field("rxcIdCtlMode", 0, 18, 2),
        Field("rxcDelayStable", 0, 17, 1), Field("rxcDelayPd", 0, 16, 1),
        Field("txcIdFreqMode", 0, 12, 2), Field("txcIdCtlMode", 0, 10, 2),
        Field("txcDelayStable", 0, 9, 1), Field("txcDelayPd", 0, 8, 1), Field("speed", 0, 3, 2),
        Field("phyMode", 0, 2, 1), Field("xmiiMode", 0, 0, 2)}),
        {<<{"rxcIdFreqMode", "txcIdFreqMode"}, convertToIdFreqMode>>,
        <<{"rxcIdCtlMode", "txcIdCtlMode"}, convertToIdCtlMode>>, <<{"speed"}, convertToSpeed>>,
        <<{"xmiiMode"}, convertToXmiiMode>>})

setTsConfig == Register(\h100A00, 1, {Field("pd", 0, 6, 1), Field("threshold", 0, 0, 6)})

getTsConfig ==
    Coded(Register(\h100A00, 1,
        {Field("pd", 0, 6, 1), Field("threshold", 0, 0, 6)}),
        {<<{"threshold"}, convertToTempThreshold>>})

getTsStatus == Register(\h100A01, 1, {Field("exceeded", 0, 0, 1)})

setRgmiiMeasSetup ==
    Register(\h100A80, 1,
        {Field("mii4RxSmplEn", 0, 8, 2), Field("mii3RxSmplEn", 0, 6, 2),
        Field("mii2RxSmplEn", 0, 4, 2), Field("mii1RxSmplEn", 0, 2, 2),
        Field("mii0RxSmplEn", 0, 0, 2)})

getRgmiiMeasSetup ==
    Coded(Register(\h100A80, 1,
        {Field("mii4RxSmplEn", 0, 8, 2), Field("mii3RxSmplEn", 0, 6, 2),
        Field("mii2RxSmplEn", 0, 4, 2), Field("mii1RxSmplEn", 0, 2, 2),
        Field("mii0RxSmplEn", 0, 0, 2)}),
        {<<{"mii4RxSmplEn", "mii3RxSmplEn", "mii2RxSmplEn", "mii1RxSmplEn", "mii0RxSmplEn"}, convertToRgmiiSmpl>>})

getProdCfg == Register(\h100BC0, 1, {Field("disableTteth", 0, 0, 1)})

getProdId ==
    Coded(Register(\h100BC3, 1,
        {Field("partNr", 0, 4, 28), Field("version", 0, 0, 4)}),
        {<<{"partNr"}, convertToPartNr>>})

(* What the header exports: per register, the function that writes and the one that reads it. *)
auxiliaryConfigurationUnitRegisters ==
    [cfgPadMiix |-> <<setCfgPadMiix, getCfgPadMiix>>,
    cfgPadMiixId |-> <<setCfgPadMiixId, getCfgPadMiixId>>,
    cfgPadMisc |-> <<setCfgPadMisc, getCfgPadMisc>>,
    cfgPadSpi |-> <<setCfgPadSpi, getCfgPadSpi>>,
    cfgPadJtag |-> <<setCfgPadJtag, getCfgPadJtag>>,
    portStatusMiix |-> <<NoRegister, getPortStatusMiix>>,
    tsConfig |-> <<setTsConfig, getTsConfig>>, tsStatus |-> <<NoRegister, getTsStatus>>,
    rgmiiMeasSetup |-> <<setRgmiiMeasSetup, getRgmiiMeasSetup>>,
    prodCfg |-> <<NoRegister, getProdCfg>>, prodId |-> <<NoRegister, getProdId>>]
=============================================================================
