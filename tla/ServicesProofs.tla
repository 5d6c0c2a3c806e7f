--------------------------- MODULE ServicesProofs ---------------------------
(***************************************************************************)
(* Proofs about the services of a line of switches, for every number of    *)
(* switches, ports, shapers, VLANs and rules: links, time stamps, shapers, *)
(* VLANs and retagging.  Each is a specification of its own; they share no *)
(* state, and a last section proves about all of them side by side, with   *)
(* the PTP clocks, in a line of switches (MCServices).                     *)
(***************************************************************************)
EXTENDS MCServices, PtpProofs, FiniteSetTheorems, FunctionTheorems, TLAPS

-----------------------------------------------------------------------------
(* Links *)

\* Interfaces for which configPort sets the divider at every speed, or needs none.
DividerAlwaysSet == \A p \in LinkPorts : XmiiMode[p] \notin {"MII_PHY", "SGMII"}

\* Between callbacks the bridge remembers what the PHY told it last; a link that
\* came up and was not looked at is one it takes for down.
BridgeFollows(p) ==
    /\ p \notin pending => /\ (link[p].link_state = 1) <=> phy[p].link
                           /\ phy[p].link => link[p].speed = phy[p].speed
    /\ p \in pending /\ phy[p].link => link[p].link_state = 0

\* The clocks of a port suit the speed of its MAC, which is the remembered one; the
\* divider does if configPort writes it at that speed.
ClocksSuit(p) ==
    /\ clksrc[p] = ConfigSource(p, macSpeed[p])
    /\ \/ KeepsDivider(p, macSpeed[p])
       \/ \A old : idiv[p] = ConfigDivider(p, macSpeed[p], old)
    /\ link[p].speed \in Speeds =>
          /\ macSpeed[p] = link[p].speed
          /\ XmiiMode[p] = "RGMII" /\ p \notin Cascading
                => rxDelay[p] <=> (link[p].speed = 1000 /\ p \notin Unstable)

\* PLL1 runs if a port needs it.
PllWhereNeeded == \A p \in LinkPorts : XmiiMode[p] = "RMII_MAC" => g_pll1Enabled = 1

LinksInv ==
    /\ LinksTypeOK
    /\ phy \in [LinkPorts -> [link : BOOLEAN, speed : Speeds \cup {0, SpeedUnknown}]]
    /\ pending \subseteq LinkPorts
    /\ PllWhereNeeded
    /\ \A p \in LinkPorts : /\ phy[p].link => phy[p].speed \in Supported(p) \cup {SpeedUnknown}
                            /\ BridgeFollows(p) /\ ClocksSuit(p)

\* The transmit clock has one source, and the divider one setting, that is known for
\* each interface and speed (configPort).
LEMMA Sources ==
    ASSUME NEW p \in LinkPorts, NEW speed
    PROVE  ConfigSource(p, speed) \in {"IDIV", "PLL0", "PLL1", "TX"}
  BY DEF ConfigSource

\* A divider keeps its type, written or kept.
LEMMA Dividers ==
    ASSUME NEW p \in LinkPorts, NEW speed, NEW old \in [pd : BOOLEAN, by : {1, 10}]
    PROVE  ConfigDivider(p, speed, old) \in [pd : BOOLEAN, by : {1, 10}]
  <1>1. /\ Divider(speed = 1000, 10) \in [pd : BOOLEAN, by : {1, 10}]
        /\ Divider(XmiiMode[p] # "MII_PHY", 10) \in [pd : BOOLEAN, by : {1, 10}]
        /\ RgmiiDivider(p, speed, old) \in [pd : BOOLEAN, by : {1, 10}]
    BY DEF Divider, RgmiiDivider
  <1>2. CASE KeepsDivider(p, speed)
    BY <1>2, Zenon DEF ConfigDivider
  <1>3. CASE ~KeepsDivider(p, speed)
    <2>1. CASE XmiiMode[p] = "RGMII"
      BY <1>1, <1>3, <2>1, Zenon DEF ConfigDivider
    <2>2. CASE XmiiMode[p] # "RGMII" /\ XmiiMode[p] = "SGMII"
      <3>1. ConfigDivider(p, speed, old) = Divider(speed = 1000, 10)
        BY <1>3, <2>2, ZenonT(30) DEF ConfigDivider
      <3>2. QED BY <1>1, <3>1
    <2>3. CASE XmiiMode[p] # "RGMII" /\ XmiiMode[p] # "SGMII"
      BY <1>1, <1>3, <2>3, Zenon DEF ConfigDivider
    <2>4. QED BY <2>1, <2>2, <2>3
  <1>4. QED BY <1>2, <1>3

\* A divider that is written does not depend on what it was.
LEMMA DividerWritten ==
    ASSUME NEW p \in LinkPorts, NEW speed, ~KeepsDivider(p, speed), NEW old, NEW other
    PROVE  ConfigDivider(p, speed, old) = ConfigDivider(p, speed, other)
  BY DEF ConfigDivider, RgmiiDivider

\* A divider that is written and in use makes the clock of the speed.
LEMMA DividerSuits ==
    ASSUME NEW p \in LinkPorts, NEW speed \in Supported(p), ~KeepsDivider(p, speed), NEW old,
           ConfigSource(p, speed) = "IDIV"
    PROVE  /\ ~ConfigDivider(p, speed, old).pd
           /\ 100 \div ConfigDivider(p, speed, old).by = speed
  <1>1. 100 \div 1 = 100 /\ 100 \div 10 = 10
    OBVIOUS
  <1>2. CASE XmiiMode[p] = "RGMII"
    <2>1. speed \in {10, 100}
      BY <1>2 DEF ConfigSource, Supported, Speeds
    <2>2. ConfigDivider(p, speed, old) = [pd |-> FALSE, by |-> IF speed = 100 THEN 1 ELSE 10]
      BY <1>2, <2>1 DEF ConfigDivider, RgmiiDivider, Divider
    <2>3. QED BY <1>1, <2>1, <2>2
  <1>3. CASE XmiiMode[p] = "SGMII"
    <2>1. speed = 10
      BY <1>3 DEF ConfigSource, Supported, Speeds, KeepsDivider
    <2>2. ConfigDivider(p, speed, old) = Divider(speed = 1000, 10)
      BY <1>3 DEF ConfigDivider
    <2>3. ~Divider(speed = 1000, 10).pd /\ Divider(speed = 1000, 10).by = 10
      <3>1. ~(speed = 1000)
        BY <2>1
      <3>2. PICK b \in BOOLEAN : b = (speed = 1000)
        OBVIOUS
      <3>3. QED BY <3>1, <3>2 DEF Divider
    <2>4. QED BY <1>1, <2>1, <2>2, <2>3
  <1>4. CASE XmiiMode[p] = "MII_PHY"
    <2>1. speed = 10
      BY <1>4 DEF Supported, Speeds, KeepsDivider
    <2>2. ConfigDivider(p, speed, old) = [pd |-> FALSE, by |-> 10]
      BY <1>4, <2>1 DEF ConfigDivider, Divider
    <2>3. QED BY <1>1, <2>1, <2>2
  <1>5. QED BY <1>2, <1>3, <1>4 DEF ConfigSource

\* Only an RGMII port at 1000 Mbit/s gets a delay, unless it is cascaded.
LEMMA Delays ==
    ASSUME NEW p \in LinkPorts, NEW speed, NEW old \in BOOLEAN
    PROVE  /\ ConfigDelay(p, speed, old) \in BOOLEAN
           /\ XmiiMode[p] = "RGMII" /\ p \notin Cascading
                 => ConfigDelay(p, speed, old) <=> speed = 1000
  <1>1. CASE XmiiMode[p] = "RGMII" /\ p \notin Cascading
    <2>1. ConfigDelay(p, speed, old) <=> speed = 1000
      BY <1>1 DEF ConfigDelay
    <2>2. ConfigDelay(p, speed, old) \in BOOLEAN
      <3>1. CASE speed = 1000
        BY <1>1, <3>1 DEF ConfigDelay
      <3>2. CASE speed # 1000
        BY <1>1, <3>2 DEF ConfigDelay
      <3>3. QED BY <3>1, <3>2
    <2>3. QED BY <2>1, <2>2
  <1>2. CASE ~(XmiiMode[p] = "RGMII" /\ p \notin Cascading)
    <2>1. ConfigDelay(p, speed, old) \in BOOLEAN
      BY <1>2, Zenon DEF ConfigDelay
    <2>2. QED BY <1>2, <2>1
  <1>3. QED BY <1>1, <1>2

\* The links are configured for their speeds after the initialisation.
LEMMA LinksInitially ==
    ASSUME LinksInit
    PROVE  LinksInv
  <1>1. LinksTypeOK
    <2>1. ASSUME NEW p \in LinkPorts
          PROVE  /\ ConfiguredSpeed[p] \in Speeds
                 /\ ConfigDivider(p, ConfiguredSpeed[p], Divider(FALSE, 1)) \in [pd : BOOLEAN, by : {1, 10}]
                 /\ ConfigSource(p, ConfiguredSpeed[p]) \in {"IDIV", "PLL0", "PLL1", "TX"}
                 /\ ConfigDelay(p, ConfiguredSpeed[p], FALSE) \in BOOLEAN
      <3>1. ConfiguredSpeed[p] \in Speeds
        BY LinksAssumption DEF LinkPorts
      <3>2. ConfigDivider(p, ConfiguredSpeed[p], Divider(FALSE, 1)) \in [pd : BOOLEAN, by : {1, 10}]
        <4>1. Divider(FALSE, 1) \in [pd : BOOLEAN, by : {1, 10}]
          BY DEF Divider
        <4>2. QED BY <4>1, Dividers
      <3>3. ConfigSource(p, ConfiguredSpeed[p]) \in {"IDIV", "PLL0", "PLL1", "TX"}
        BY Sources
      <3>4. ConfigDelay(p, ConfiguredSpeed[p], FALSE) \in BOOLEAN
        BY Delays, ZenonT(60)
      <3>5. QED BY <3>1, <3>2, <3>3, <3>4
    <2>2. macSpeed \in [LinkPorts -> Speeds]
      BY LinksAssumption DEF LinksInit, LinkPorts
    <2>3. /\ idiv \in [LinkPorts -> [pd : BOOLEAN, by : {1, 10}]]
          /\ clksrc \in [LinkPorts -> {"IDIV", "PLL0", "PLL1", "TX"}]
          /\ rxDelay \in [LinkPorts -> BOOLEAN]
      BY <2>1, Zenon DEF LinksInit
    <2>4. link \in [LinkPorts -> [link_state : {0, 1}, speed : Speeds \cup {0, SpeedUnknown}]]
      BY DEF LinksInit
    <2>5. QED BY <2>2, <2>3, <2>4 DEF LinksTypeOK
  <1>2. ASSUME NEW p \in LinkPorts PROVE BridgeFollows(p) /\ ClocksSuit(p)
    <2>1. ConfiguredSpeed[p] \in Speeds
      BY LinksAssumption DEF LinkPorts
    <2>2. /\ idiv[p] = ConfigDivider(p, ConfiguredSpeed[p], Divider(FALSE, 1))
          /\ clksrc[p] = ConfigSource(p, ConfiguredSpeed[p])
          /\ macSpeed[p] = ConfiguredSpeed[p] /\ link[p].speed = 0 /\ ~phy[p].link /\ p \notin pending
          /\ link[p].link_state = 0
      BY DEF LinksInit
    <2>3. BridgeFollows(p)
      BY <2>2 DEF BridgeFollows
    <2>4. ClocksSuit(p)
      <3> PICK old : idiv[p] = ConfigDivider(p, macSpeed[p], old)
        BY <2>2, Zenon
      <3>1. KeepsDivider(p, macSpeed[p]) \/ \A other : idiv[p] = ConfigDivider(p, macSpeed[p], other)
        BY DividerWritten, Zenon
      <3>2. link[p].speed \notin Speeds
        BY <2>2 DEF Speeds
      <3>3. QED BY <2>2, <3>1, <3>2, Zenon DEF ClocksSuit
    <2>5. QED BY <2>3, <2>4
  <1>3. PllWhereNeeded
    BY DEF LinksInit, PllWhereNeeded, ConfigEnablesPll1
  <1>4. /\ phy \in [LinkPorts -> [link : BOOLEAN, speed : Speeds \cup {0, SpeedUnknown}]]
        /\ pending \subseteq LinkPorts
        /\ \A p \in LinkPorts : phy[p].link => phy[p].speed \in Supported(p) \cup {SpeedUnknown}
    BY DEF LinksInit
  <1>5. QED BY <1>1, <1>2, <1>3, <1>4, Zenon DEF LinksInv

\* Setting up the clocks for a speed makes them suit it, whatever they were.
LEMMA UpdateSuits ==
    ASSUME LinksInv, NEW p \in LinkPorts, NEW speed \in Supported(p),
           NxpUpdateSpeed(p, speed), link' = [link EXCEPT ![p] = [link_state |-> 1, speed |-> speed]],
           NEW q \in LinkPorts
    PROVE  ClocksSuit(q)'
  <1>1. CASE q = p
    <2>1. /\ macSpeed'[p] = speed /\ link'[p].speed = speed
          /\ idiv'[p] = ConfigDivider(p, speed, idiv[p])
          /\ clksrc'[p] = ConfigSource(p, speed)
      BY DEF LinksInv, LinksTypeOK, NxpUpdateSpeed
    <2>2. rxDelay'[p] = (ConfigDelay(p, speed, rxDelay[p]) /\ p \notin Unstable) /\ rxDelay[p] \in BOOLEAN
      BY DEF LinksInv, LinksTypeOK, NxpUpdateSpeed
    <2>3. XmiiMode[p] = "RGMII" /\ p \notin Cascading => (rxDelay'[p] <=> (speed = 1000 /\ p \notin Unstable))
      <3>1. XmiiMode[p] = "RGMII" /\ p \notin Cascading => (ConfigDelay(p, speed, rxDelay[p]) <=> speed = 1000)
        BY <2>2, Delays
      <3>2. QED BY <2>2, <3>1, ZenonT(30)
    <2>4. KeepsDivider(p, speed) \/ \A old : idiv'[p] = ConfigDivider(p, speed, old)
      <3>1. CASE ~KeepsDivider(p, speed)
        <4>1. ASSUME NEW old PROVE idiv'[p] = ConfigDivider(p, speed, old)
          <5>1. ConfigDivider(p, speed, idiv[p]) = ConfigDivider(p, speed, old)
            BY <3>1, DividerWritten
          <5>2. QED BY <2>1, <5>1
        <4>2. QED BY <4>1
      <3>2. QED BY <3>1
    <2>5. QED BY <1>1, <2>1, <2>3, <2>4 DEF ClocksSuit
  <1>2. CASE q # p
    <2>1. /\ macSpeed'[q] = macSpeed[q] /\ link'[q] = link[q] /\ idiv'[q] = idiv[q]
          /\ clksrc'[q] = clksrc[q] /\ rxDelay'[q] = rxDelay[q]
      BY <1>2 DEF LinksInv, LinksTypeOK, NxpUpdateSpeed
    <2>2. ClocksSuit(q)
      BY DEF LinksInv
    <2>3. QED BY <2>1, <2>2 DEF ClocksSuit
  <1>3. QED BY <1>1, <1>2

\* Changing the speed of a port keeps the types, and the PLL it needs.
LEMMA UpdateTyped ==
    ASSUME LinksInv, NEW p \in LinkPorts, NEW speed \in Supported(p),
           NxpUpdateSpeed(p, speed), link' = [link EXCEPT ![p] = [link_state |-> 1, speed |-> speed]]
    PROVE  LinksTypeOK' /\ PllWhereNeeded'
  <1>1. /\ ConfigDivider(p, speed, idiv[p]) \in [pd : BOOLEAN, by : {1, 10}]
        /\ ConfigSource(p, speed) \in {"IDIV", "PLL0", "PLL1", "TX"}
        /\ ConfigDelay(p, speed, rxDelay[p]) \in BOOLEAN
        /\ speed \in Speeds
    <2>1. speed \in Speeds /\ rxDelay[p] \in BOOLEAN
      BY DEF LinksInv, LinksTypeOK, Supported
    <2>2. ConfigDivider(p, speed, idiv[p]) \in [pd : BOOLEAN, by : {1, 10}]
      BY Dividers DEF LinksInv, LinksTypeOK
    <2>3. ConfigSource(p, speed) \in {"IDIV", "PLL0", "PLL1", "TX"}
      BY Sources
    <2>4. ConfigDelay(p, speed, rxDelay[p]) \in BOOLEAN
      BY <2>1, Delays
    <2>5. QED BY <2>1, <2>2, <2>3, <2>4
  <1>2. [link_state |-> 1, speed |-> speed] \in [link_state : {0, 1}, speed : Speeds \cup {0, SpeedUnknown}]
    BY <1>1
  <1>3. PllWhereNeeded'
    BY DEF LinksInv, NxpUpdateSpeed, PllWhereNeeded, ConfigEnablesPll1
  <1>4. LinksTypeOK'
    BY <1>1, <1>2 DEF LinksInv, LinksTypeOK, NxpUpdateSpeed
  <1>5. QED BY <1>3, <1>4

\* Following a PHY preserves the invariant.
LEMMA AdjustPreserves ==
    ASSUME LinksInv, NEW p \in LinkPorts, NxpAdjustLink(p)
    PROVE  LinksInv'
  <1> USE DEF NxpAdjustLink
  <1>1. CASE LinkUp(p)
    <2>1. phy[p].speed \in Speeds \/ phy[p].speed = SpeedUnknown
      BY <1>1 DEF LinksInv, LinkUp, Supported
    <2>0. phy[p].speed \in Speeds => phy[p].speed \in Supported(p)
      BY <1>1 DEF LinksInv, LinkUp, Supported, Speeds, SpeedUnknown
    <2>2. link' = [link EXCEPT ![p] = [link_state |-> 1, speed |-> phy[p].speed]]
      BY <1>1 DEF LinkUp
    <2>3. LinksTypeOK' /\ PllWhereNeeded'
      <3>1. CASE link[p].speed # phy[p].speed /\ phy[p].speed \in Speeds
        BY <1>1, <2>0, <2>2, <3>1, UpdateTyped DEF LinkUp
      <3>2. CASE ~(link[p].speed # phy[p].speed /\ phy[p].speed \in Speeds)
        <4>1. [link_state |-> 1, speed |-> phy[p].speed] \in [link_state : {0, 1}, speed : Speeds \cup {0, SpeedUnknown}]
          BY <2>1
        <4>2. link' \in [LinkPorts -> [link_state : {0, 1}, speed : Speeds \cup {0, SpeedUnknown}]]
          BY <2>2, <4>1 DEF LinksInv, LinksTypeOK
        <4>3. UNCHANGED <<macSpeed, idiv, clksrc, rxDelay, g_pll1Enabled>>
          BY <1>1, <3>2, Zenon DEF LinkUp
        <4>4. LinksTypeOK'
          BY <4>2, <4>3, Zenon DEF LinksInv, LinksTypeOK
        <4>5. PllWhereNeeded'
          BY <4>3, Zenon DEF LinksInv, PllWhereNeeded
        <4>6. QED BY <4>4, <4>5
      <3>3. QED BY <3>1, <3>2
    <2>4. ASSUME NEW q \in LinkPorts PROVE ClocksSuit(q)'
      <3>1. CASE link[p].speed # phy[p].speed /\ phy[p].speed \in Speeds
        BY <1>1, <2>0, <2>2, <3>1, UpdateSuits DEF LinkUp
      <3>2. CASE ~(link[p].speed # phy[p].speed /\ phy[p].speed \in Speeds)
        <4>1. UNCHANGED <<macSpeed, idiv, clksrc, rxDelay, g_pll1Enabled>>
          BY <1>1, <3>2, Zenon DEF LinkUp
        <4>2. ClocksSuit(q)
          BY DEF LinksInv
        <4>3. link'[q].speed \in Speeds => link'[q].speed = link[q].speed
          BY <2>2, <3>2 DEF LinksInv, LinksTypeOK
        <4>4. QED BY <4>1, <4>2, <4>3 DEF ClocksSuit
      <3>3. QED BY <3>1, <3>2
    <2>5. ASSUME NEW q \in LinkPorts PROVE BridgeFollows(q)'
      BY <1>1, <2>2 DEF LinkUp, LinksInv, LinksTypeOK, BridgeFollows
    <2>6. QED BY <1>1, <2>3, <2>4, <2>5 DEF LinkUp, LinksInv, Supported
  <1>2. CASE LinkStays(p)
    <2>1. phy[p].link => p \notin pending
      BY <1>2 DEF LinkStays, LinksInv, BridgeFollows
    <2>2. QED
      BY <1>2, <2>1 DEF LinkStays, LinksInv, LinksTypeOK, PllWhereNeeded, BridgeFollows, ClocksSuit, Supported
  <1>3. CASE LinkDown(p)
    <2>1. LinksTypeOK'
      BY <1>3 DEF LinkDown, LinksInv, LinksTypeOK
    <2>2. ASSUME NEW q \in LinkPorts PROVE BridgeFollows(q)' /\ ClocksSuit(q)'
      BY <1>3 DEF LinkDown, LinksInv, LinksTypeOK, BridgeFollows, ClocksSuit
    <2>3. QED BY <1>3, <2>1, <2>2 DEF LinkDown, LinksInv, PllWhereNeeded, Supported
  <1>4. QED BY <1>1, <1>2, <1>3

\* A PHY that loses or finds its link leaves the clocks as they are.
LEMMA PhyPreserves ==
    ASSUME LinksInv, NEW p \in LinkPorts, PhyChange(p)
    PROVE  LinksInv'
  <1>1. phy' \in [LinkPorts -> [link : BOOLEAN, speed : Speeds \cup {0, SpeedUnknown}]]
    <2>1. CASE PhyLinkLost(p)
      BY <2>1 DEF PhyLinkLost, LinksInv
    <2>2. CASE PhyNegotiated(p)
      <3>1. PICK speed \in Reported(p) : phy' = [phy EXCEPT ![p] = [link |-> TRUE, speed |-> speed]]
        BY <2>2 DEF PhyNegotiated
      <3>2. [link |-> TRUE, speed |-> speed] \in [link : BOOLEAN, speed : Speeds \cup {0, SpeedUnknown}]
        BY <3>1 DEF Reported, Supported
      <3>3. QED BY <3>1, <3>2 DEF LinksInv
    <2>3. QED BY <2>1, <2>2 DEF PhyChange
  <1>2. LinksTypeOK' /\ pending' \subseteq LinkPorts /\ PllWhereNeeded'
    BY DEF PhyChange, LinksInv, LinksTypeOK, PllWhereNeeded
  <1>3. ASSUME NEW q \in LinkPorts PROVE phy'[q].link => phy'[q].speed \in Supported(q) \cup {SpeedUnknown}
    BY DEF PhyChange, PhyLinkLost, PhyNegotiated, Reported, LinksInv
  <1>4. ASSUME NEW q \in LinkPorts PROVE BridgeFollows(q)'
    BY DEF PhyChange, PhyLinkLost, PhyNegotiated, LinksInv, BridgeFollows, LinksTypeOK
  <1>5. ASSUME NEW q \in LinkPorts PROVE ClocksSuit(q)'
    <2>1. ClocksSuit(q) /\ UNCHANGED <<clksrc, idiv, macSpeed, link, rxDelay>>
      BY DEF PhyChange, LinksInv
    <2>2. QED BY <2>1 DEF ClocksSuit
  <1>6. QED BY <1>1, <1>2, <1>3, <1>4, <1>5 DEF LinksInv, Supported

\* Whatever the interfaces, the MAC follows every link, and the clock does at each
\* speed at which the divider is written.
PortsFollow ==
    \A p \in LinkPorts : Settled(p) =>
        MacFitsLink(p) /\ (KeepsDivider(p, phy[p].speed) \/ ClockFitsLink(p))

\* A settled link fits: its callback has run, so that the bridge knows its speed.
LEMMA SuitingFits ==
    ASSUME LinksInv
    PROVE  PortsFollow
  <1> SUFFICES ASSUME NEW p \in LinkPorts, Settled(p)
               PROVE  MacFitsLink(p) /\ (KeepsDivider(p, phy[p].speed) \/ ClockFitsLink(p))
    BY DEF PortsFollow
  <1>1. phy[p].speed \in Supported(p) /\ link[p].speed = phy[p].speed /\ macSpeed[p] = phy[p].speed
    BY DEF Settled, LinksInv, BridgeFollows, ClocksSuit, Supported, Speeds, SpeedUnknown
  <1>2. ClocksSuit(p) /\ link[p].speed \in Speeds
    BY <1>1 DEF LinksInv, Supported
  <1>3. MacFitsLink(p)
    BY <1>1, <1>2 DEF ClocksSuit, MacFitsLink
  <1>4. ASSUME ~KeepsDivider(p, phy[p].speed) PROVE ClockedSpeed(p) = phy[p].speed
    <2>1. /\ clksrc[p] = ConfigSource(p, phy[p].speed)
          /\ \A old : idiv[p] = ConfigDivider(p, phy[p].speed, old)
      BY <1>1, <1>2, <1>4 DEF ClocksSuit
    <2>2. CASE clksrc[p] = "PLL0"
      <3>1. phy[p].speed = 1000
        BY <2>1, <2>2 DEF ConfigSource
      <3>2. QED BY <2>2, <3>1, Zenon DEF ClockedSpeed
    <2>3. CASE clksrc[p] = "IDIV"
      <3>1. ~idiv[p].pd /\ 100 \div idiv[p].by = phy[p].speed
        <4>1. PICK old : idiv[p] = ConfigDivider(p, phy[p].speed, old)
          BY <2>1
        <4>2. ConfigSource(p, phy[p].speed) = "IDIV"
          BY <2>1, <2>3
        <4>3. QED BY <1>1, <1>4, <4>1, <4>2, DividerSuits
      <3>2. clksrc[p] # "PLL0"
        BY <2>3
      <3>3. QED BY <2>3, <3>1, <3>2, Zenon DEF ClockedSpeed
    <2>4. CASE clksrc[p] \in {"PLL1", "TX"}
      <3>1. clksrc[p] = "TX" \/ g_pll1Enabled = 1
        BY <2>1, <2>4 DEF ConfigSource, LinksInv, PllWhereNeeded
      <3>2. clksrc[p] # "PLL0" /\ clksrc[p] # "IDIV"
        BY <2>4
      <3>3. QED BY <3>1, <3>2, Zenon DEF ClockedSpeed
    <2>5. QED BY <2>2, <2>3, <2>4 DEF LinksInv, LinksTypeOK
  <1>5. QED BY <1>3, <1>4 DEF ClockFitsLink

\* Steps of links, and the lack of them, preserve the invariant.
LEMMA LinksPreserved == LinksInv /\ [LinksNext]_linksVars => LinksInv'
  <1>1. ASSUME LinksInv, LinksNext PROVE LinksInv'
    BY <1>1, AdjustPreserves, PhyPreserves DEF LinksNext
  <1>2. ASSUME LinksInv, UNCHANGED linksVars PROVE LinksInv'
    BY <1>2 DEF linksVars, LinksInv, LinksTypeOK, PllWhereNeeded, BridgeFollows, ClocksSuit, Supported
  <1>3. QED BY <1>1, <1>2

\* Whatever speeds a link has had and whatever its interface, once its callback has
\* run the MAC and the receive delay fit it; and the transmit clock fits at all speeds
\* at which configPort writes the divider (it leaves that of SGMII at 100 Mbps, and
\* that of MII in the role of a PHY above 10 Mbps, as earlier speeds left it).
THEOREM PortsFollowLinks == LinksSpec => [](LinksTypeOK /\ PortsFollow)
  <1>1. LinksInit => LinksInv
    BY LinksInitially
  <1>2. LinksInv => LinksTypeOK /\ PortsFollow
    BY SuitingFits DEF LinksInv
  <1>3. QED BY <1>1, <1>2, LinksPreserved, PTL DEF LinksSpec

\* With interfaces whose divider is always written, every settled port fits its link.
THEOREM PortsFitLinks ==
    ASSUME DividerAlwaysSet
    PROVE  LinksSpec => []PortFitsLink
  <1>1. PortsFollow => PortFitsLink
    BY DEF DividerAlwaysSet, PortsFollow, PortFitsLink, KeepsDivider
  <1>2. QED BY <1>1, PortsFollowLinks, PTL

-----------------------------------------------------------------------------
(* Time stamps *)

\* Multiplying by a number that is not negative keeps the order.
LEMMA TimesMonotone ==
    ASSUME NEW n \in Nat, NEW a \in Int, NEW b \in Int, a <= b
    PROVE  n * a <= n * b
  <1>1. n * (b - a) >= 0
    OBVIOUS
  <1>2. n * (b - a) = n * b - n * a
    OBVIOUS
  <1>3. n * b \in Int /\ n * a \in Int
    OBVIOUS
  <1>4. QED BY <1>1, <1>2, <1>3

\* What division and remainder are, for numbers that are not negative.
LEMMA QuotientAndRemainder ==
    ASSUME NEW n \in Nat \ {0}, NEW x \in Nat
    PROVE  x \div n \in Nat /\ x % n \in 0 .. n - 1 /\ x = n * (x \div n) + (x % n)
  <1>1. x \div n \in Int /\ x % n \in 0 .. n - 1
    OBVIOUS
  <1>2. x = n * (x \div n) + (x % n)
    <2>1. x % n = x - n * (x \div n)
      OBVIOUS
    <2>2. n * (x \div n) \in Int
      BY <1>1
    <2>3. QED BY <1>1, <2>1, <2>2
  <1>3. 0 <= x \div n
    <2>1. SUFFICES ASSUME x \div n <= -1 PROVE FALSE
      BY <1>1
    <2>2. n * (x \div n) <= n * (-1)
      BY <1>1, <2>1, TimesMonotone
    <2>3. n * (x \div n) \in Int /\ n * (-1) = -n
      BY <1>1
    <2>4. QED BY <1>1, <1>2, <2>2, <2>3
  <1>4. QED BY <1>1, <1>2, <1>3

\* SJA1105P_reconstructTimeStamp with and without an overrun.
LEMMA OverrunOrNot ==
    ASSUME NEW timeStampL \in Nat, NEW recent \in Int
    PROVE  /\ recent % StampRange < timeStampL
                 => ReconstructTimeStamp(timeStampL, recent)
                       = (((recent - StampRange) % StampClockRange)
                            - (((recent - StampRange) % StampClockRange) % StampRange)) + timeStampL
           /\ ~(recent % StampRange < timeStampL)
                 => ReconstructTimeStamp(timeStampL, recent) = (recent - (recent % StampRange)) + timeStampL
  BY DEF ReconstructTimeStamp, Low, Modulo

\* Before the low bits come round, the clock read later and the low bits captured give
\* the time of the capture back, whether or not the low bits or the clock wrapped.
LEMMA Reconstructed ==
    ASSUME NEW S \in 0 .. StampClockRange - 1, NEW a \in 0 .. StampRange - 1
    PROVE  ReconstructTimeStamp(Low(S), Modulo(S + a)) = S
  <1> DEFINE R == StampRange
             C == StampClockRange
             k == C \div R
             q == S \div R
             l == S % R
  <1>0. R \in Nat \ {0} /\ C \in Nat \ {0} /\ C % R = 0
    BY StampAssumption
  <1>a. S \in Int /\ a \in Int
    BY <1>0
  <1>1. k \in Nat /\ C = R * k
    <2>1. k \in Nat /\ C = R * k + (C % R)
      <3>1. C \in Nat
        BY <1>0
      <3>2. QED BY <1>0, <3>1, QuotientAndRemainder, Zenon
    <2>2. QED BY <1>0, <2>1
  <1>2. q \in Nat /\ l \in 0 .. R - 1 /\ S = R * q + l
    <2>1. S \in Nat
      BY <1>0
    <2>2. QED BY <1>0, <2>1, QuotientAndRemainder, Zenon
  <1>3. q + 1 <= k
    <2>1. SUFFICES ASSUME k <= q PROVE FALSE
      BY <1>1, <1>2
    <2>2. R * k <= R * q
      BY <1>0, <1>1, <1>2, <2>1, TimesMonotone
    <2>3. R * k \in Int /\ R * q \in Int
      BY <1>0, <1>1, <1>2
    <2>4. QED BY <1>0, <1>1, <1>2, <2>2, <2>3
  <1>4. R * (q + 1) = R * q + R /\ R * (q + 1) <= R * k /\ R * q \in Nat /\ R * k \in Nat
    BY <1>0, <1>1, <1>2, <1>3, TimesMonotone
  <1>d. ASSUME NEW recent \in Int
        PROVE  /\ recent % R < l => ReconstructTimeStamp(l, recent)
                                      = (((recent - R) % C) - (((recent - R) % C) % R)) + l
               /\ ~(recent % R < l) => ReconstructTimeStamp(l, recent) = (recent - (recent % R)) + l
    <2>1. l \in Nat
      BY <1>0, <1>2
    <2>2. QED BY <2>1, OverrunOrNot, Zenon
  <1>e. Low(S) = l /\ Modulo(S + a) = (S + a) % C
    BY DEF Low, Modulo
  <1> HIDE DEF R, C, k, q, l
  <1>5. CASE l + a < R
    <2>1. S + a = R * q + (l + a) /\ l + a \in 0 .. R - 1
      BY <1>0, <1>2, <1>4, <1>5 DEF R
    <2>2. (S + a) % R = l + a
      BY <1>0, <1>2, <2>1, RemainderIs
    <2>3. S + a \in 0 .. C - 1
      BY <1>0, <1>1, <1>2, <1>4, <2>1
    <2>4. (S + a) % C = S + a
      BY <1>0, <2>3
    <2>5. ~((S + a) % R < l)
      BY <1>2, <2>2 DEF R
    <2>6. ReconstructTimeStamp(l, S + a) = S + a - (l + a) + l
      <3>1. S + a \in Int
        BY <1>0, <2>3
      <3>2. ReconstructTimeStamp(l, S + a) = ((S + a) - ((S + a) % R)) + l
        BY <1>d, <2>5, <3>1, Zenon
      <3>3. QED BY <1>2, <1>a, <2>2, <3>2
    <2>7. QED BY <1>e, <1>2, <2>4, <2>6
  <1>6. CASE R <= l + a /\ q + 2 <= k
    <2>1. R * (q + 2) = R * q + R + R /\ R * (q + 2) <= R * k
      BY <1>0, <1>1, <1>2, <1>6, TimesMonotone
    <2>2. l + a - R \in 0 .. R - 1 /\ l + a - R < l
      BY <1>0, <1>2, <1>6 DEF R
    <2>3. S + a = R * (q + 1) + (l + a - R) /\ (S + a) - R = R * q + (l + a - R)
      BY <1>0, <1>2, <1>4 DEF R
    <2>4. (S + a) % R = l + a - R /\ ((S + a) - R) % R = l + a - R
      <3>1. (R * (q + 1) + (l + a - R)) % R = l + a - R
        <4>1. q + 1 \in Int
          BY <1>2
        <4>2. QED BY <1>0, <2>2, <4>1, RemainderIs, Zenon
      <3>2. (R * q + (l + a - R)) % R = l + a - R
        <4>1. q \in Int
          BY <1>2
        <4>2. QED BY <1>0, <2>2, <4>1, RemainderIs, Zenon
      <3>3. QED BY <1>0, <1>2, <1>4, <1>a, <2>3, <3>1, <3>2
    <2>5. S + a \in 0 .. C - 1 /\ (S + a) - R \in 0 .. C - 1
      BY <1>0, <1>1, <1>2, <1>4, <2>1, <2>2, <2>3
    <2>6. (S + a) % C = S + a /\ ((S + a) - R) % C = (S + a) - R
      BY <1>0, <2>5
    <2>7. ReconstructTimeStamp(l, S + a) = (((S + a) - R) - (l + a - R)) + l
      <3>1. S + a \in Int /\ (S + a) % R < l
        BY <1>0, <2>2, <2>4, <2>5
      <3>2. ReconstructTimeStamp(l, S + a) = ((((S + a) - R) % C) - ((((S + a) - R) % C) % R)) + l
        BY <1>d, <3>1, Zenon
      <3>3. (((S + a) - R) % C) % R = l + a - R
        BY <2>4, <2>6
      <3>4. ((S + a) - R) % C = (S + a) - R
        BY <2>6
      <3>5. QED BY <3>2, <3>3, <3>4, Zenon
    <2>8. QED BY <1>0, <1>e, <1>2, <2>6, <2>7 DEF R
  <1>7. CASE R <= l + a /\ q + 1 = k
    <2>1. l + a - R \in 0 .. R - 1 /\ l + a - R < l
      BY <1>0, <1>2, <1>7 DEF R
    <2>2. R * (q + 1) = C /\ R * q = C - R
      BY <1>0, <1>1, <1>2, <1>4, <1>7
    <2>3. S + a = C * 1 + (l + a - R) /\ l + a - R \in 0 .. C - 1
      BY <1>0, <1>1, <1>2, <1>4, <2>1, <2>2 DEF R
    <2>4. (S + a) % C = l + a - R
      <3>1. (C * 1 + (l + a - R)) % C = l + a - R
        <4>1. 1 \in Int
          OBVIOUS
        <4>2. QED BY <1>0, <2>3, <4>1, RemainderIs, Zenon
      <3>2. QED BY <2>3, <3>1
    <2>5. (l + a - R) % R = l + a - R
      BY <1>0, <2>1
    <2>6. (l + a - R) - R = C * (-1) + (C - R + (l + a - R)) /\ C - R + (l + a - R) \in 0 .. C - 1
      BY <1>0, <1>4, <2>1, <2>2, <2>3
    <2>7. ((l + a - R) - R) % C = C - R + (l + a - R)
      BY <1>0, <2>6, RemainderIs
    <2>8. (C - R + (l + a - R)) % R = l + a - R
      <3>1. (R * q + (l + a - R)) % R = l + a - R
        <4>1. q \in Int
          BY <1>2
        <4>2. QED BY <1>0, <2>1, <4>1, RemainderIs, Zenon
      <3>2. QED BY <2>2, <3>1
    <2>9. ReconstructTimeStamp(l, l + a - R) = C - R + (l + a - R) - (l + a - R) + l
      <3>1. l + a - R \in Int /\ (l + a - R) % R < l
        BY <1>0, <2>1, <2>5
      <3>2. ReconstructTimeStamp(l, l + a - R)
               = ((((l + a - R) - R) % C) - ((((l + a - R) - R) % C) % R)) + l
        BY <1>d, <3>1, Zenon
      <3>3. (((l + a - R) - R) % C) % R = l + a - R
        BY <2>7, <2>8
      <3>4. QED BY <1>0, <1>2, <1>a, <2>7, <3>2, <3>3
    <2>10. QED BY <1>0, <1>e, <1>2, <2>1, <2>2, <2>4, <2>9 DEF R
  <1>8. QED BY <1>0, <1>1, <1>2, <1>3, <1>5, <1>6, <1>7 DEF R

\* A clock may be reduced before it goes on.
LEMMA RemainderOfSum ==
    ASSUME NEW n \in Nat \ {0}, NEW x \in Int, NEW c \in Int
    PROVE  ((x % n) + c) % n = (x + c) % n
  <1> DEFINE q == x \div n
             r == x % n
             p == (r + c) \div n
             s == (r + c) % n
  <1>1. q \in Int /\ r \in Int /\ x = n * q + r
    <2>1. x % n = x - n * (x \div n) /\ x \div n \in Int /\ x % n \in Int
      OBVIOUS
    <2>2. n * (x \div n) \in Int
      BY <2>1
    <2>3. QED BY <2>1, <2>2
  <1>2. r + c \in Int
    BY <1>1
  <1>3. p \in Int /\ s \in 0 .. n - 1 /\ s = (r + c) - n * p
    <2> HIDE DEF r
    <2>1. QED BY <1>2
  <1> HIDE DEF q, r, p
  <1>4. x + c = n * (q + p) + s
    <2> HIDE DEF s
    <2>1. n * (q + p) = n * q + n * p /\ n * q \in Int /\ n * p \in Int
      BY <1>1, <1>3
    <2>2. QED BY <1>1, <1>2, <1>3, <2>1
  <1>5. q + p \in Int
    BY <1>1, <1>3
  <1>6. (n * (q + p) + s) % n = s
    <2> HIDE DEF s
    <2>1. QED BY <1>3, <1>5, RemainderIs, Zenon
  <1>7. QED BY <1>4, <1>6 DEF r

\* Until the clock is read it is ahead of the captured time by what it has advanced;
\* then that is what was read.  Frames that leave are captured, others are trapped.
StampInv ==
    /\ StampTypeOK
    /\ stampPc \in {"captured", "updated", "trapped"} => ptpClk = Modulo(stampedAt + age)
    /\ stampPc \in {"clock", "received"} => timeStamp = Modulo(stampedAt + age)
    /\ stampPc \in {"captured", "updated", "clock"} => direction = "TX"
    /\ stampPc \in {"trapped", "received"} => direction = "RX"
    /\ StampsExact

\* A time modulo the range of the clock is within it.
LEMMA ModuloTyped ==
    ASSUME NEW t \in Int
    PROVE  Modulo(t) \in 0 .. StampClockRange - 1
  BY StampAssumption DEF Modulo

\* No frame has been stamped initially.
LEMMA StampInitially == StampInit => StampInv
  BY StampAssumption DEF StampInit, StampInv, StampTypeOK, StampsExact

\* Stamping a frame preserves the invariant.
LEMMA CapturePreserves ==
    ASSUME StampInv, NEW d \in {"TX", "RX"}, Capture(d)
    PROVE  StampInv'
  <1>1. Modulo(ptpClk + 0) = ptpClk
    BY StampAssumption DEF StampInv, StampTypeOK, Modulo
  <1>2. Modulo(stampedAt' + age') = ptpClk'
    BY <1>1 DEF Capture, Modulo
  <1>3. StampTypeOK'
    BY StampAssumption DEF StampInv, StampTypeOK, Capture
  <1>4. stampPc' = (IF d = "TX" THEN "captured" ELSE "trapped") /\ direction' = d
    BY DEF Capture
  <1>5. StampsExact'
    BY <1>4 DEF StampsExact
  <1>6. QED BY <1>2, <1>3, <1>4, <1>5 DEF StampInv, Modulo

\* Time passing preserves the invariant, as long as the frame is not too old.
LEMMA AdvancePreserves ==
    ASSUME StampInv, ClockAdvances
    PROVE  StampInv'
  <1>1. PICK by \in Advances :
           /\ ptpClk' = Modulo(ptpClk + by)
           /\ IF stampPc \in {"captured", "updated", "trapped"}
              THEN age + by < StampRange /\ age' = age + by
              ELSE UNCHANGED age
           /\ UNCHANGED <<direction, stampedAt, stampPc, timeStamp>>
    BY DEF ClockAdvances
  <1>2. by \in Nat
    BY StampAssumption
  <1>3. ptpClk' \in 0 .. StampClockRange - 1
    <2>1. ptpClk + by \in Int
      BY <1>2, StampAssumption DEF StampInv, StampTypeOK
    <2>2. QED BY <1>1, <2>1, ModuloTyped
  <1>4. age' \in 0 .. StampRange - 1
    BY <1>1, <1>2, StampAssumption DEF StampInv, StampTypeOK
  <1>5. StampTypeOK'
    BY <1>1, <1>3, <1>4, Zenon DEF StampInv, StampTypeOK
  <1>6. StampsExact'
    BY <1>1 DEF StampInv, StampsExact
  <1>7. CASE stampPc \in {"captured", "updated", "trapped"}
    <2>1. /\ ptpClk = (stampedAt + age) % StampClockRange
          /\ stampedAt + age \in Int /\ (stampedAt + age) + by = stampedAt + (age + by)
      BY <1>2, <1>7, StampAssumption DEF StampInv, StampTypeOK, Modulo
    <2>2. StampClockRange \in Nat \ {0} /\ by \in Int
      BY <1>2, StampAssumption
    <2>3. (((stampedAt + age) % StampClockRange) + by) % StampClockRange = ((stampedAt + age) + by) % StampClockRange
      BY <2>1, <2>2, RemainderOfSum, Zenon
    <2>4. ptpClk' = Modulo(stampedAt' + age')
      BY <1>1, <1>7, <2>1, <2>3, Zenon DEF Modulo
    <2>5. QED BY <1>1, <1>5, <1>6, <1>7, <2>4 DEF StampInv
  <1>8. CASE stampPc \notin {"captured", "updated", "trapped"}
    <2>1. age' = age /\ stampedAt' = stampedAt /\ timeStamp' = timeStamp /\ stampPc' = stampPc
             /\ direction' = direction
      BY <1>1, <1>8
    <2>2. QED BY <1>5, <1>6, <1>8, <2>1 DEF StampInv, Modulo
  <1>9. QED BY <1>7, <1>8

\* Completing an egress time stamp preserves the invariant.
LEMMA EgressPreserves ==
    ASSUME StampInv, EgressTimeStamp
    PROVE  StampInv'
  <1>1. PICK correction \in HostCorrections :
           timeStamp' = Modulo(Modulo(ReconstructTimeStamp(Low(stampedAt), timeStamp)
                                        + PropagationDelay["TX"]) - correction)
    BY DEF EgressTimeStamp
  <1>2. ReconstructTimeStamp(Low(stampedAt), timeStamp) = stampedAt
    BY Reconstructed DEF StampInv, StampTypeOK, EgressTimeStamp
  <1>3. /\ StampClockRange \in Nat \ {0} /\ -correction \in Int /\ correction \in Int
        /\ PropagationDelay["TX"] \in Int /\ stampedAt + PropagationDelay["TX"] \in Int
    BY StampAssumption DEF StampInv, StampTypeOK
  <1>4. (((stampedAt + PropagationDelay["TX"]) % StampClockRange) + (-correction)) % StampClockRange
          = ((stampedAt + PropagationDelay["TX"]) + (-correction)) % StampClockRange
    BY <1>3, RemainderOfSum, Zenon
  <1>5. /\ (stampedAt + PropagationDelay["TX"]) % StampClockRange \in Int
        /\ stampedAt \in Int
    BY <1>3, StampAssumption DEF StampInv, StampTypeOK
  <1>6. timeStamp' = Modulo(stampedAt + PropagationDelay["TX"] - correction)
    BY <1>1, <1>2, <1>3, <1>4, <1>5 DEF Modulo
  <1>7. timeStamp' \in 0 .. StampClockRange - 1
    BY <1>3, <1>5, <1>6, ModuloTyped
  <1>8. StampTypeOK'
    BY <1>7, StampAssumption DEF StampInv, StampTypeOK, EgressTimeStamp
  <1>9. direction' = "TX" /\ stampPc' = "done" /\ stampedAt' = stampedAt
    BY DEF StampInv, EgressTimeStamp
  <1>10. StampsExact'
    BY <1>6, <1>9 DEF StampsExact
  <1>11. QED BY <1>8, <1>9, <1>10 DEF StampInv

\* Completing an ingress time stamp preserves the invariant.
LEMMA IngressPreserves ==
    ASSUME StampInv, IngressTimeStamp
    PROVE  StampInv'
  <1>1. ReconstructTimeStamp(Low(stampedAt), timeStamp) = stampedAt
    BY Reconstructed DEF StampInv, StampTypeOK, IngressTimeStamp
  <1>2. timeStamp' = Modulo(stampedAt - PropagationDelay["RX"])
    BY <1>1 DEF IngressTimeStamp
  <1>3. stampedAt - PropagationDelay["RX"] \in Int
    BY StampAssumption DEF StampInv, StampTypeOK
  <1>4. timeStamp' \in 0 .. StampClockRange - 1
    BY <1>2, <1>3, ModuloTyped
  <1>5. StampTypeOK'
    BY <1>4, StampAssumption DEF StampInv, StampTypeOK, IngressTimeStamp
  <1>6. direction' = "RX" /\ stampPc' = "done" /\ stampedAt' = stampedAt
    BY DEF StampInv, IngressTimeStamp
  <1>7. StampsExact'
    BY <1>2, <1>6 DEF StampsExact
  <1>8. QED BY <1>5, <1>6, <1>7 DEF StampInv

\* Reading the registers preserves the invariant.
LEMMA ReadsPreserve ==
    ASSUME StampInv, ReadUpdated \/ ReadClock \/ TimeStampHandled
    PROVE  StampInv'
  <1>1. CASE ReadUpdated
    BY <1>1 DEF StampInv, StampTypeOK, StampsExact, ReadUpdated, Modulo
  <1>2. CASE ReadClock
    BY <1>2 DEF StampInv, StampTypeOK, StampsExact, ReadClock, Modulo
  <1>3. CASE TimeStampHandled
    BY <1>3, StampAssumption DEF StampInv, StampTypeOK, StampsExact, TimeStampHandled, Modulo
  <1>4. QED BY <1>1, <1>2, <1>3

\* The time stamp handed on is exact, for every width of the captured low bits and of
\* the clock (one range divides the other), every delay of the PHY and every advance of
\* the clock that is less than a round of the low bits until it is read.
THEOREM TimeStampsExact == StampSpec => [](StampTypeOK /\ StampsExact)
  <1>1. StampInit => StampInv
    BY StampInitially
  <1>2. StampInv /\ [StampNext]_stampVars => StampInv'
    <2>1. ASSUME StampInv, StampNext PROVE StampInv'
      BY <2>1, CapturePreserves, AdvancePreserves, EgressPreserves, IngressPreserves, ReadsPreserve
         DEF StampNext
    <2>2. ASSUME StampInv, UNCHANGED stampVars PROVE StampInv'
      BY <2>2 DEF stampVars, StampInv, StampTypeOK, StampsExact, Modulo
    <2>3. QED BY <2>1, <2>2
  <1>3. StampInv => StampTypeOK /\ StampsExact
    BY DEF StampInv
  <1>4. QED BY <1>1, <1>2, <1>3, PTL DEF StampSpec

-----------------------------------------------------------------------------
(* Shapers *)

\* getShaperId finds the shaper that serves, or one that is free if none does.
LEMMA ShaperFound ==
    ASSUME NEW s \in CbsSwitches, NEW port, NEW prio,
           GetShaperId(s, port, prio) # SJA1105P_INVALID_SHAPER_ID
    PROVE  /\ GetShaperId(s, port, prio) \in Shapers
           /\ \/ Serves(shaper[s][GetShaperId(s, port, prio)], port, prio)
              \/ /\ shaper[s][GetShaperId(s, port, prio)].sendSlope = 0
                 /\ \A i \in Shapers : ~Serves(shaper[s][i], port, prio)
  <1> DEFINE serving == {i \in Shapers : Serves(shaper[s][i], port, prio)}
             free == {i \in Shapers : shaper[s][i].sendSlope = 0}
             candidates == IF serving # {} THEN serving ELSE free
             id == CHOOSE i \in candidates : \A j \in candidates : i <= j
  <1>1. GetShaperId(s, port, prio) = IF candidates = {} THEN SJA1105P_INVALID_SHAPER_ID ELSE id
    BY Zenon DEF GetShaperId
  <1>2. candidates # {}
    BY <1>1, Zenon
  <1>3. candidates \in SUBSET Nat
    BY CbsAssumption DEF Shapers
  <1>4. \E i \in candidates : \A j \in candidates : i <= j
    <2> HIDE DEF candidates
    <2>1. QED BY <1>2, <1>3, LeastElement
  <1>5. id \in candidates
    <2> HIDE DEF candidates
    <2>1. QED BY <1>4, Zenon
  <1>6. GetShaperId(s, port, prio) = id
    BY <1>1, <1>2, Zenon
  <1> HIDE DEF id
  <1>7. CASE serving # {}
    BY <1>5, <1>6, <1>7
  <1>8. CASE serving = {}
    BY <1>5, <1>6, <1>8
  <1>9. QED BY <1>7, <1>8

\* A slope that was found is one of a shaper, or none.
LEMMA FoundSlopeType ==
    ASSUME CbsTypeOK, NEW l \in CbsPorts, NEW prio \in Classes
    PROVE  FoundSlope(l, prio) \in 0 .. SlopeRange - 1
  <1> DEFINE s == CbsPhysicalPort[l].switchId
             id == ShaperFor(l, prio)
  <1>1. s \in CbsSwitches /\ SlopeRange \in Nat \ {0}
    BY CbsAssumption DEF CbsPorts
  <1>2. CASE id = SJA1105P_INVALID_SHAPER_ID
    <2>1. FoundSlope(l, prio) = 0
      BY <1>2, Zenon DEF FoundSlope
    <2>2. QED BY <1>1, <2>1
  <1>3. CASE id # SJA1105P_INVALID_SHAPER_ID
    <2>1. id \in Shapers
      BY <1>1, <1>3, ShaperFound DEF ShaperFor
    <2>2. FoundSlope(l, prio) = shaper[s][id].idleSlope
      BY <1>3, Zenon DEF FoundSlope
    <2> HIDE DEF s, id
    <2>3. shaper[s][id].idleSlope \in 0 .. SlopeRange - 1
      BY <1>1, <2>1 DEF CbsTypeOK
    <2>4. QED BY <2>2, <2>3
  <1>4. QED BY <1>2, <1>3

\* SJA1105P_configCbs writes slopes that fit their registers.
LEMMA ConfigTyped ==
    ASSUME CbsTypeOK, NEW l \in CbsPorts, NEW prio \in Classes,
           NEW v \in 0 .. SlopeRange - 1, ConfigCbs(l, prio, v, SendSlope(v))
    PROVE  shaper' \in [CbsSwitches -> [Shapers ->
              [cbsPort : CbsPorts \cup {0}, cbsPrio : Classes \cup {0},
               idleSlope : 0 .. SlopeRange - 1, sendSlope : 0 .. SlopeRange - 1]]]
  <1> DEFINE s == CbsPhysicalPort[l].switchId
             id == ShaperFor(l, prio)
             new == [cbsPort |-> l, cbsPrio |-> prio,
                     idleSlope |-> v, sendSlope |-> SendSlope(v)]
  <1>1. /\ s \in CbsSwitches
        /\ SlopeRange \in Nat /\ SlopeRange > 0 /\ PortRate - v \in Int
    BY CbsAssumption DEF CbsPorts
  <1>2. SendSlope(v) \in 0 .. SlopeRange - 1
    BY <1>1 DEF SendSlope
  <1>3. new \in [cbsPort : CbsPorts \cup {0}, cbsPrio : Classes \cup {0},
                 idleSlope : 0 .. SlopeRange - 1, sendSlope : 0 .. SlopeRange - 1]
    BY <1>2
  <1>4. CASE id = SJA1105P_INVALID_SHAPER_ID
    <2>1. shaper' = shaper
      BY <1>4, Zenon DEF ConfigCbs
    <2>2. QED BY <2>1 DEF CbsTypeOK
  <1>5. CASE id # SJA1105P_INVALID_SHAPER_ID
    <2>1. id \in Shapers
      BY <1>1, <1>5, ShaperFound DEF ShaperFor
    <2>2. shaper' = [shaper EXCEPT ![s][id] = new]
      BY <1>5, Zenon DEF ConfigCbs
    <2> HIDE DEF s, id, new
    <2>3. QED BY <1>1, <1>3, <2>1, <2>2 DEF CbsTypeOK
  <1>6. QED BY <1>4, <1>5

\* Slopes fit their registers and grants the ports, whatever the numbers of the ports:
\* also where a port finds the shaper of another, and its slopes wrap.
LEMMA ShapersTyped == CbsSpec => []CbsTypeOK
  <1>0. /\ PortRate \in Nat \ {0} /\ SlopeRange \in Nat /\ PortRate < SlopeRange
        /\ 0 \notin Classes
    BY CbsAssumption
  <1>1. Unused \in [cbsPort : CbsPorts \cup {0}, cbsPrio : Classes \cup {0},
                    idleSlope : 0 .. SlopeRange - 1, sendSlope : 0 .. SlopeRange - 1]
    BY <1>0 DEF Unused
  <1>2. CbsInit => CbsTypeOK
    BY <1>0, <1>1 DEF CbsInit, CbsTypeOK
  <1>3. CbsTypeOK /\ [CbsNext]_cbsVars => CbsTypeOK'
    <2> SUFFICES ASSUME CbsTypeOK, [CbsNext]_cbsVars PROVE CbsTypeOK'
      OBVIOUS
    <2>1. CASE UNCHANGED cbsVars
      BY <2>1 DEF cbsVars, CbsTypeOK
    <2>2. ASSUME NEW l \in CbsPorts, NEW prio \in Classes, NEW slope \in IdleSlopes,
                 \/ /\ reserved[<<l, prio>>] + slope < PortRate
                    /\ RegisterStreamToCbs(l, prio, slope)
                 \/ /\ reserved[<<l, prio>>] >= slope
                    /\ DeregisterStreamFromCbs(l, prio, slope)
                 \/ /\ slope < PortRate
                    /\ SetSlopes(l, prio, slope)
          PROVE  CbsTypeOK'
      <3>1. /\ slope \in Nat /\ slope <= PortRate
            /\ <<l, prio>> \in CbsPorts \X Classes
            /\ reserved[<<l, prio>>] \in Nat /\ reserved[<<l, prio>>] <= PortRate
        BY <1>0, CbsAssumption DEF CbsTypeOK
      <3>2. PICK found \in 0 .. SlopeRange - 1 : found = FoundSlope(l, prio)
        BY FoundSlopeType
      <3>3. /\ (found + slope) % SlopeRange \in 0 .. SlopeRange - 1
            /\ (found - slope) % SlopeRange \in 0 .. SlopeRange - 1
        <4>1. found + slope \in Int /\ found - slope \in Int /\ SlopeRange > 0
          BY <1>0, <3>1, <3>2
        <4>2. QED BY <1>0, <4>1
      <3>4. \E v \in 0 .. SlopeRange - 1 : ConfigCbs(l, prio, v, SendSlope(v))
        <4>1. slope \in 0 .. SlopeRange - 1
          BY <1>0, <3>1
        <4>2. QED
          BY <2>2, <3>2, <3>3, <4>1
             DEF RegisterStreamToCbs, DeregisterStreamFromCbs, SlopeWithout, SetSlopes
      <3>5. \E n \in 0 .. PortRate : reserved' = [reserved EXCEPT ![<<l, prio>>] = n]
        <4>1. \/ reserved' = reserved
              \/ /\ reserved[<<l, prio>>] + slope < PortRate
                 /\ reserved' = [reserved EXCEPT ![<<l, prio>>] = @ + slope]
              \/ /\ reserved[<<l, prio>>] >= slope
                 /\ reserved' = [reserved EXCEPT ![<<l, prio>>] = @ - slope]
              \/ reserved' = [reserved EXCEPT ![<<l, prio>>] = slope]
          BY <2>2, Zenon DEF RegisterStreamToCbs, DeregisterStreamFromCbs, SetSlopes
        <4>2. reserved = [reserved EXCEPT ![<<l, prio>>] = reserved[<<l, prio>>]]
          BY <3>1 DEF CbsTypeOK
        <4>3. QED BY <1>0, <3>1, <4>1, <4>2
      <3>6. reserved' \in [CbsPorts \X Classes -> 0 .. PortRate]
        BY <3>1, <3>5 DEF CbsTypeOK
      <3>7. QED BY <3>4, <3>6, ConfigTyped DEF CbsTypeOK
    <2>3. ASSUME NEW s \in CbsSwitches, NEW id \in Shapers, RemoveCbs(s, id)
          PROVE  CbsTypeOK'
      <3>1. \E x : reserved' = [reserved EXCEPT ![x] = 0]
        BY <2>3, Zenon DEF RemoveCbs
      <3>2. reserved' \in [CbsPorts \X Classes -> 0 .. PortRate]
        <4>1. PICK x : reserved' = [reserved EXCEPT ![x] = 0]
          BY <3>1
        <4>2. reserved \in [CbsPorts \X Classes -> 0 .. PortRate] /\ 0 \in 0 .. PortRate
          BY <1>0 DEF CbsTypeOK
        <4>3. \A S : reserved \in [S -> 0 .. PortRate] => reserved' \in [S -> 0 .. PortRate]
          BY <4>1, <4>2
        <4>4. QED BY <4>2, <4>3
      <3>3. shaper' \in [CbsSwitches -> [Shapers ->
               [cbsPort : CbsPorts \cup {0}, cbsPrio : Classes \cup {0},
                idleSlope : 0 .. SlopeRange - 1, sendSlope : 0 .. SlopeRange - 1]]]
        BY <1>1, <2>3 DEF RemoveCbs, CbsTypeOK
      <3>4. QED BY <3>2, <3>3 DEF CbsTypeOK
    <2>4. QED BY <2>1, <2>2, <2>3 DEF CbsNext
  <1>4. QED BY <1>2, <1>3, PTL DEF CbsSpec

-----------------------------------------------------------------------------
(* VLANs *)

\* The first and the last switch of a set of ports enclose it.
LEMMA Enclosed ==
    ASSUME NEW ports \in SUBSET VlanPorts
    PROVE  /\ FirstSwitch(ports) \in Nat /\ LastSwitch(ports) \in Nat
           /\ \A l \in ports : FirstSwitch(ports) <= SwitchOfPort(l) /\ SwitchOfPort(l) <= LastSwitch(ports)
           /\ ports = {} => FirstSwitch(ports) = VlanSwitches
  <1> DEFINE S == SwitchesWith(ports) \cup {VlanSwitches}
             T == SwitchesWith(ports) \cup {0}
  <1>1. VlanSwitches \in Nat \ {0} /\ \A l \in ports : SwitchOfPort(l) \in 0 .. VlanSwitches - 1
    BY VlanAssumption DEF VlanPorts, SwitchOfPort
  <1>2. S \in SUBSET Nat /\ S # {} /\ T \in SUBSET (0 .. VlanSwitches) /\ T # {}
    BY <1>1 DEF SwitchesWith
  <1>3. \A l \in ports : SwitchOfPort(l) \in S /\ SwitchOfPort(l) \in T
    BY DEF SwitchesWith
  <1>4. ports = {} => S = {VlanSwitches}
    BY DEF SwitchesWith
  <1>5. FirstSwitch(ports) = CHOOSE x \in S : \A y \in S : x =< y
    BY Zenon DEF FirstSwitch, Min
  <1>6. LastSwitch(ports) = CHOOSE x \in T : \A y \in T : x >= y
    BY Zenon DEF LastSwitch, Max
  <1> HIDE DEF S, T
  <1>7. \E x \in S : \A y \in S : x =< y
    BY <1>2, LeastElement
  <1>8. \E x \in T : \A y \in T : x >= y
    <2>1. PICK x \in T : \A y \in T : y <= x
      BY <1>1, <1>2, GreatestElement
    <2>2. \A y \in T : x >= y
      BY <1>1, <1>2, <2>1
    <2>3. QED BY <2>2
  <1>9. FirstSwitch(ports) \in S /\ \A y \in S : FirstSwitch(ports) =< y
    BY <1>5, <1>7, Zenon
  <1>10. LastSwitch(ports) \in T /\ \A y \in T : LastSwitch(ports) >= y
    BY <1>6, <1>8, Zenon
  <1>11. \A l \in ports : FirstSwitch(ports) <= SwitchOfPort(l)
    BY <1>3, <1>9
  <1>12. \A l \in ports : SwitchOfPort(l) <= LastSwitch(ports)
    BY <1>1, <1>2, <1>3, <1>10
  <1>13. FirstSwitch(ports) \in Nat /\ LastSwitch(ports) \in Nat
    <2>1. FirstSwitch(ports) \in Nat
      BY <1>2, <1>9, Zenon
    <2>2. LastSwitch(ports) \in 0 .. VlanSwitches
      BY <1>2, <1>10, Zenon
    <2>3. QED BY <1>1, <2>1, <2>2
  <1>14. ports = {} => FirstSwitch(ports) = VlanSwitches
    BY <1>4, <1>9
  <1>15. QED BY <1>11, <1>12, <1>13, <1>14

\* The entries say of an external port what callers asked for.
MemberBits(v, l) ==
    /\ VlanPhysicalPort[l].physicalPort \in vlanTable[SwitchOfPort(l)][v].vmembPort <=> l \in enabled[v]
    /\ VlanPhysicalPort[l].physicalPort \in vlanTable[SwitchOfPort(l)][v].vlanBc <=> l \in forwarded[v]

\* The links of a VLAN that is spanned are set up for the ports it has.
LinksSpan(v) ==
    /\ \A k \in forwarded[v] : /\ FirstSwitch(enabled[v]) <= SwitchOfPort(k)
                               /\ SwitchOfPort(k) <= LastSwitch(enabled[v])
    /\ \A s \in 0 .. VlanSwitches - 2 :
          /\ Downwards(s, enabled[v], forwarded[v]) => GoesDown(v, s)
          /\ Upwards(s, enabled[v], forwarded[v]) => GoesUp(v, s)

\* The invariant of the entries and of what callers asked for.
VlanInv ==
    /\ VlanTypeOK
    /\ \A v \in VlanIds, l \in VlanPorts : MemberBits(v, l)
    /\ \A v \in spanned : LinksSpan(v)

\* The ports an entry may name: external ones and those that link the switches.
PortNames == {VlanPhysicalPort[l].physicalPort : l \in VlanPorts}
                \cup {CascPort[s] : s \in VlanSwitch} \cup {HostPort[s] : s \in VlanSwitch}

Entries == [tagPort : SUBSET PortNames, vlanBc : SUBSET PortNames, vmembPort : SUBSET PortNames,
            vegrMirr : SUBSET PortNames, vingMirr : SUBSET PortNames]

\* VlanTypeOK with the names above.
LEMMA TypeUnfolded ==
    VlanTypeOK <=> /\ vlanTable \in [VlanSwitch -> [VlanIds -> Entries]]
                   /\ enabled \in [VlanIds -> SUBSET VlanPorts]
                   /\ forwarded \in [VlanIds -> SUBSET VlanPorts]
                   /\ spanned \subseteq VlanIds
  BY Zenon DEF VlanTypeOK, Entries, PortNames

\* By the invariant a path from port to port exists just where callers asked for it.
LEMMA ConnectedIfSpanned ==
    ASSUME VlanInv
    PROVE  VlanConnects
  <1> SUFFICES ASSUME NEW v \in VlanIds, NEW l \in VlanPorts, NEW k \in VlanPorts
               PROVE  /\ Reaches(v, l, k) => l \in enabled[v] /\ k \in forwarded[v]
                      /\ v \in spanned /\ l \in enabled[v] /\ k \in forwarded[v] => Reaches(v, l, k)
    BY Zenon DEF VlanConnects
  <1>1. MemberBits(v, l) /\ MemberBits(v, k)
    BY DEF VlanInv
  <1>2. Reaches(v, l, k) => l \in enabled[v] /\ k \in forwarded[v]
    BY <1>1 DEF Reaches, MemberBits
  <1>3. ASSUME v \in spanned, l \in enabled[v], k \in forwarded[v]
        PROVE  Reaches(v, l, k)
    <2>1. enabled[v] \in SUBSET VlanPorts /\ forwarded[v] \in SUBSET VlanPorts
      BY TypeUnfolded DEF VlanInv
    <2>2. /\ SwitchOfPort(l) \in 0 .. VlanSwitches - 1 /\ SwitchOfPort(k) \in 0 .. VlanSwitches - 1
          /\ VlanSwitches \in Nat
      BY VlanAssumption DEF VlanPorts, SwitchOfPort
    <2>3. /\ FirstSwitch(enabled[v]) <= SwitchOfPort(l) /\ SwitchOfPort(l) <= LastSwitch(enabled[v])
          /\ FirstSwitch(enabled[v]) \in Nat /\ LastSwitch(enabled[v]) \in Nat
      BY <1>3, <2>1, Enclosed
    <2>4. /\ FirstSwitch(forwarded[v]) <= SwitchOfPort(k) /\ SwitchOfPort(k) <= LastSwitch(forwarded[v])
          /\ FirstSwitch(forwarded[v]) \in Nat /\ LastSwitch(forwarded[v]) \in Nat
      BY <1>3, <2>1, Enclosed
    <2>5. LinksSpan(v)
      BY <1>3 DEF VlanInv
    <2>6. FirstSwitch(enabled[v]) <= SwitchOfPort(k) /\ SwitchOfPort(k) <= LastSwitch(enabled[v])
      BY <1>3, <2>5 DEF LinksSpan
    <2>7. ASSUME NEW s \in SwitchOfPort(l) .. SwitchOfPort(k) - 1 PROVE GoesDown(v, s)
      <3>1. s \in 0 .. VlanSwitches - 2
        BY <2>2
      <3>2. Downwards(s, enabled[v], forwarded[v])
        BY <2>2, <2>3, <2>4, <2>6 DEF Downwards, LinkWithinMembers
      <3>3. QED BY <2>5, <3>1, <3>2 DEF LinksSpan
    <2>8. ASSUME NEW s \in SwitchOfPort(k) .. SwitchOfPort(l) - 1 PROVE GoesUp(v, s)
      <3>1. s \in 0 .. VlanSwitches - 2
        BY <2>2
      <3>2. Upwards(s, enabled[v], forwarded[v])
        BY <2>2, <2>3, <2>4, <2>6 DEF Upwards, LinkWithinMembers
      <3>3. QED BY <2>5, <3>1, <3>2 DEF LinksSpan
    <2>9. QED BY <1>1, <1>3, <2>7, <2>8 DEF Reaches, MemberBits
  <1>4. QED BY <1>2, <1>3

\* Frames of a VLAN go down and up the link from switch t to the next, if there is one.
Down(t, enable, broadcast) == t \in 0 .. VlanSwitches - 2 /\ Downwards(t, enable, broadcast)
Up(t, enable, broadcast) == t \in 0 .. VlanSwitches - 2 /\ Upwards(t, enable, broadcast)

\* The entry of switch s has the bits of its ports and those of the links in use.
HasBits(e, s, enable, broadcast) ==
    /\ e \in Entries
    /\ \A p : p \in e.vmembPort <=> \/ p \in Physical(enable, s)
                                    \/ Up(s, enable, broadcast) /\ p = CascPort[s]
                                    \/ Down(s - 1, enable, broadcast) /\ p = HostPort[s]
    /\ \A p : p \in e.vlanBc <=> \/ p \in Physical(broadcast, s)
                                 \/ Down(s, enable, broadcast) /\ p = CascPort[s]
                                 \/ Up(s - 1, enable, broadcast) /\ p = HostPort[s]
    /\ Down(s, enable, broadcast) => CascPort[s] \in e.tagPort
    /\ Up(s - 1, enable, broadcast) => HostPort[s] \in e.tagPort

\* WrittenEntry, as SJA1105P_writeVlanConfig builds it for a switch, has those bits.
LEMMA WrittenFields ==
    ASSUME NEW s \in VlanSwitch, NEW tagged \in SUBSET VlanPorts, NEW untagged \in SUBSET VlanPorts,
           NEW enable \in SUBSET VlanPorts
    PROVE  HasBits(WrittenEntry(s, tagged, untagged, enable), s, enable, tagged \cup untagged)
  <1> DEFINE broadcast == tagged \cup untagged
             e == WrittenEntry(s, tagged, untagged, enable)
  <1>1. e = [tagPort   |-> Physical(tagged, s)
                \cup (IF Down(s, enable, broadcast) \/ Up(s, enable, broadcast) THEN {CascPort[s]} ELSE {})
                \cup (IF Down(s - 1, enable, broadcast) \/ Up(s - 1, enable, broadcast)
                      THEN {HostPort[s]} ELSE {}),
             vlanBc    |-> Physical(broadcast, s)
                \cup (IF Down(s, enable, broadcast) THEN {CascPort[s]} ELSE {})
                \cup (IF Up(s - 1, enable, broadcast) THEN {HostPort[s]} ELSE {}),
             vmembPort |-> Physical(enable, s)
                \cup (IF Up(s, enable, broadcast) THEN {CascPort[s]} ELSE {})
                \cup (IF Down(s - 1, enable, broadcast) THEN {HostPort[s]} ELSE {}),
             vegrMirr  |-> {}, vingMirr |-> {}]
    BY Zenon DEF WrittenEntry, Down, Up
  <1>2. /\ \A ports \in SUBSET VlanPorts : Physical(ports, s) \in SUBSET PortNames
        /\ CascPort[s] \in PortNames /\ HostPort[s] \in PortNames
    BY DEF Physical, PortNames
  <1>3. tagged \cup untagged \in SUBSET VlanPorts
    OBVIOUS
  <1> HIDE DEF e, broadcast
  <1>4. e \in Entries
    BY <1>1, <1>2, <1>3 DEF Entries, broadcast
  <1>5. HasBits(e, s, enable, broadcast)
    BY <1>1, <1>4 DEF HasBits
  <1>6. QED BY <1>5 DEF e, broadcast

\* An external port is among the physical ports of a set just if it is in the set.
LEMMA OwnBit ==
    ASSUME NEW ports \in SUBSET VlanPorts, NEW l \in VlanPorts
    PROVE  VlanPhysicalPort[l].physicalPort \in Physical(ports, SwitchOfPort(l)) <=> l \in ports
  <1>1. ASSUME NEW k \in VlanPorts, SwitchOfPort(k) = SwitchOfPort(l),
               VlanPhysicalPort[k].physicalPort = VlanPhysicalPort[l].physicalPort
        PROVE  k = l
    BY <1>1, VlanAssumption DEF VlanPorts, SwitchOfPort
  <1>2. QED BY <1>1 DEF Physical

\* It is none of those that link the switches.
LEMMA NoLinkBit ==
    ASSUME NEW l \in VlanPorts, NEW enable, NEW broadcast
    PROVE  LET s == SwitchOfPort(l)
               p == VlanPhysicalPort[l].physicalPort
           IN /\ s \in VlanSwitch
              /\ Down(s, enable, broadcast) \/ Up(s, enable, broadcast) => p # CascPort[s]
              /\ Down(s - 1, enable, broadcast) \/ Up(s - 1, enable, broadcast) => p # HostPort[s]
  <1>1. SwitchOfPort(l) \in VlanSwitch /\ SwitchOfPort(l) \in Nat /\ VlanSwitches \in Nat
    BY VlanAssumption DEF VlanPorts, SwitchOfPort, VlanSwitch
  <1>2. Down(SwitchOfPort(l), enable, broadcast) \/ Up(SwitchOfPort(l), enable, broadcast)
           => SwitchOfPort(l) < VlanSwitches - 1
    BY <1>1 DEF Down, Up
  <1>3. Down(SwitchOfPort(l) - 1, enable, broadcast) \/ Up(SwitchOfPort(l) - 1, enable, broadcast)
           => SwitchOfPort(l) > 0
    BY <1>1 DEF Down, Up
  <1>4. QED BY <1>1, <1>2, <1>3, VlanLinksAssumption DEF VlanPorts, SwitchOfPort

\* What SJA1105P_writeVlanConfig writes sets up the external ports as told, and the
\* links for them.
LEMMA VlanWritten ==
    ASSUME VlanInv, NEW v \in VlanIds, NEW tagged \in SUBSET VlanPorts, NEW untagged \in SUBSET VlanPorts,
           NEW enable \in SUBSET VlanPorts, WriteVlanConfig(v, tagged, untagged, enable)
    PROVE  VlanInv'
  <1> DEFINE broadcast == tagged \cup untagged
  <1>0. broadcast \in SUBSET VlanPorts /\ VlanSwitches \in Nat \ {0}
    BY VlanAssumption
  <1>1. /\ vlanTable \in [VlanSwitch -> [VlanIds -> Entries]]
        /\ enabled \in [VlanIds -> SUBSET VlanPorts]
        /\ forwarded \in [VlanIds -> SUBSET VlanPorts]
        /\ spanned \subseteq VlanIds
    BY TypeUnfolded DEF VlanInv
  <1>2. \A s \in VlanSwitch : /\ vlanTable'[s][v] = WrittenEntry(s, tagged, untagged, enable)
                              /\ \A w \in VlanIds \ {v} : vlanTable'[s][w] = vlanTable[s][w]
    BY <1>1 DEF WriteVlanConfig
  <1>3. /\ enabled'[v] = enable /\ forwarded'[v] = broadcast
        /\ \A w \in VlanIds \ {v} : enabled'[w] = enabled[w] /\ forwarded'[w] = forwarded[w]
        /\ enabled' \in [VlanIds -> SUBSET VlanPorts] /\ forwarded' \in [VlanIds -> SUBSET VlanPorts]
        /\ spanned' \subseteq VlanIds /\ spanned' \ {v} \subseteq spanned
    BY <1>0, <1>1 DEF WriteVlanConfig
  <1>4. v \in spanned' => \A k \in broadcast : /\ FirstSwitch(enable) <= SwitchOfPort(k)
                                               /\ SwitchOfPort(k) <= LastSwitch(enable)
    BY <1>1 DEF WriteVlanConfig, SwitchesWith
  <1> HIDE DEF broadcast
  <1>5. ASSUME NEW s \in VlanSwitch PROVE HasBits(vlanTable'[s][v], s, enable, broadcast)
    <2>1. HasBits(WrittenEntry(s, tagged, untagged, enable), s, enable, broadcast)
      BY WrittenFields, Zenon DEF broadcast
    <2>2. QED BY <1>2, <2>1, Zenon
  <1>6. vlanTable' \in [VlanSwitch -> [VlanIds -> Entries]]
    <2>1. \A s \in VlanSwitch : WrittenEntry(s, tagged, untagged, enable) \in Entries
      BY <1>2, <1>5, Zenon DEF HasBits
    <2>2. QED BY <1>1, <2>1 DEF WriteVlanConfig
  <1>7. VlanTypeOK'
    <2>1. VlanTypeOK' <=> /\ vlanTable' \in [VlanSwitch -> [VlanIds -> Entries]]
                          /\ enabled' \in [VlanIds -> SUBSET VlanPorts]
                          /\ forwarded' \in [VlanIds -> SUBSET VlanPorts]
                          /\ spanned' \subseteq VlanIds
      BY Zenon DEF VlanTypeOK, Entries, PortNames
    <2>2. QED BY <1>3, <1>6, <2>1
  <1>8. ASSUME NEW w \in VlanIds, NEW l \in VlanPorts PROVE MemberBits(w, l)'
    <2>1. SwitchOfPort(l) \in VlanSwitch
      BY NoLinkBit
    <2>2. CASE w = v
      <3>1. /\ VlanPhysicalPort[l].physicalPort \in Physical(enable, SwitchOfPort(l)) <=> l \in enable
            /\ VlanPhysicalPort[l].physicalPort \in Physical(broadcast, SwitchOfPort(l)) <=> l \in broadcast
        BY <1>0, OwnBit
      <3>2. /\ VlanPhysicalPort[l].physicalPort \in vlanTable'[SwitchOfPort(l)][v].vmembPort
                  <=> VlanPhysicalPort[l].physicalPort \in Physical(enable, SwitchOfPort(l))
            /\ VlanPhysicalPort[l].physicalPort \in vlanTable'[SwitchOfPort(l)][v].vlanBc
                  <=> VlanPhysicalPort[l].physicalPort \in Physical(broadcast, SwitchOfPort(l))
        <4>1. HasBits(vlanTable'[SwitchOfPort(l)][v], SwitchOfPort(l), enable, broadcast)
          BY <1>5, <2>1
        <4>2. QED BY <4>1, NoLinkBit, Zenon DEF HasBits
      <3>3. QED BY <1>3, <2>2, <3>1, <3>2 DEF MemberBits
    <2>3. CASE w # v
      <3>1. /\ vlanTable'[SwitchOfPort(l)][w] = vlanTable[SwitchOfPort(l)][w]
            /\ enabled'[w] = enabled[w] /\ forwarded'[w] = forwarded[w]
        BY <1>2, <1>3, <2>1, <2>3
      <3>2. QED BY <3>1 DEF VlanInv, MemberBits
    <2>4. QED BY <2>2, <2>3
  <1>9. ASSUME NEW w \in spanned' PROVE LinksSpan(w)'
    <2>1. CASE w = v
      <3>1. ASSUME NEW s \in 0 .. VlanSwitches - 2, Downwards(s, enable, broadcast)
            PROVE  GoesDown(v, s)'
        <4>1. s \in VlanSwitch /\ s + 1 \in VlanSwitch /\ (s + 1) - 1 = s /\ Down(s, enable, broadcast)
          BY <1>0, <3>1 DEF VlanSwitch, Down
        <4>0. /\ HasBits(vlanTable'[s][v], s, enable, broadcast)
              /\ HasBits(vlanTable'[s + 1][v], s + 1, enable, broadcast)
          BY <1>5, <4>1, Zenon
        <4>2. CascPort[s] \in vlanTable'[s][v].vlanBc /\ CascPort[s] \in vlanTable'[s][v].tagPort
          BY <4>0, <4>1, Zenon DEF HasBits
        <4>3. HostPort[s + 1] \in vlanTable'[s + 1][v].vmembPort
          BY <4>0, <4>1, Zenon DEF HasBits
        <4>4. QED BY <4>2, <4>3 DEF GoesDown
      <3>2. ASSUME NEW s \in 0 .. VlanSwitches - 2, Upwards(s, enable, broadcast)
            PROVE  GoesUp(v, s)'
        <4>1. s \in VlanSwitch /\ s + 1 \in VlanSwitch /\ (s + 1) - 1 = s /\ Up(s, enable, broadcast)
          BY <1>0, <3>2 DEF VlanSwitch, Up
        <4>0. /\ HasBits(vlanTable'[s][v], s, enable, broadcast)
              /\ HasBits(vlanTable'[s + 1][v], s + 1, enable, broadcast)
          BY <1>5, <4>1, Zenon
        <4>2. CascPort[s] \in vlanTable'[s][v].vmembPort
          BY <4>0, <4>1, Zenon DEF HasBits
        <4>3. HostPort[s + 1] \in vlanTable'[s + 1][v].vlanBc /\ HostPort[s + 1] \in vlanTable'[s + 1][v].tagPort
          BY <4>0, <4>1, Zenon DEF HasBits
        <4>4. QED BY <4>2, <4>3 DEF GoesUp
      <3>3. QED BY <1>3, <1>4, <2>1, <3>1, <3>2 DEF LinksSpan
    <2>2. CASE w # v
      <3>1. w \in spanned /\ w \in VlanIds \ {v}
        BY <1>1, <1>3, <2>2
      <3>2. /\ \A s \in VlanSwitch : vlanTable'[s][w] = vlanTable[s][w]
            /\ enabled'[w] = enabled[w] /\ forwarded'[w] = forwarded[w]
        BY <1>2, <1>3, <3>1
      <3>3. LinksSpan(w)
        BY <3>1 DEF VlanInv
      <3>4. \A s \in 0 .. VlanSwitches - 2 : s \in VlanSwitch /\ s + 1 \in VlanSwitch
        BY <1>0 DEF VlanSwitch
      <3>5. QED BY <3>2, <3>3, <3>4 DEF LinksSpan, GoesDown, GoesUp
    <2>3. QED BY <2>1, <2>2
  <1>10. QED BY <1>7, <1>8, <1>9, Zenon DEF VlanInv

\* One bit is changed: the field of one entry, and nothing else.
OnlyBitChanged(v, l, field, enable) ==
    /\ vlanTable' \in [VlanSwitch -> [VlanIds -> Entries]]
    /\ \A s \in VlanSwitch, w \in VlanIds :
          /\ ~(s = SwitchOfPort(l) /\ w = v) => vlanTable'[s][w] = vlanTable[s][w]
          /\ vlanTable'[s][w].tagPort = vlanTable[s][w].tagPort
          /\ vlanTable'[s][w].vlanBc = vlanTable[s][w].vlanBc
          /\ field # "vmembPort" => vlanTable'[s][w].vmembPort = vlanTable[s][w].vmembPort
    /\ field = "vmembPort" => vlanTable'[SwitchOfPort(l)][v].vmembPort =
          IF enable THEN vlanTable[SwitchOfPort(l)][v].vmembPort \cup {VlanPhysicalPort[l].physicalPort}
          ELSE vlanTable[SwitchOfPort(l)][v].vmembPort \ {VlanPhysicalPort[l].physicalPort}

\* The functions that change one bit of an entry change nothing else of the table.
LEMMA BitOnly ==
    ASSUME VlanInv, NEW v \in VlanIds, NEW l \in VlanPorts, NEW enable \in BOOLEAN,
           NEW field \in {"vmembPort", "vingMirr", "vegrMirr"},
           vlanTable' = BitChanged(v, l, field, enable)
    PROVE  OnlyBitChanged(v, l, field, enable)
  <1> DEFINE t == SwitchOfPort(l)
             p == VlanPhysicalPort[l].physicalPort
             old == vlanTable[t][v]
             Bits(b) == IF enable THEN b \cup {p} ELSE b \ {p}
  <1>1. vlanTable \in [VlanSwitch -> [VlanIds -> Entries]]
    BY TypeUnfolded DEF VlanInv
  <1>2. t \in VlanSwitch /\ p \in PortNames
    BY NoLinkBit DEF PortNames
  <1>3. old \in Entries /\ \A b \in SUBSET PortNames : Bits(b) \in SUBSET PortNames
    BY <1>1, <1>2
  <1>4. ASSUME NEW e \in Entries, vlanTable' = [vlanTable EXCEPT ![t][v] = e]
        PROVE  /\ vlanTable' \in [VlanSwitch -> [VlanIds -> Entries]]
               /\ vlanTable'[t][v] = e
               /\ \A s \in VlanSwitch, w \in VlanIds :
                     ~(s = t /\ w = v) => vlanTable'[s][w] = vlanTable[s][w]
    <2> HIDE DEF t
    <2>1. QED BY <1>1, <1>2, <1>4
  <1>5. CASE field = "vmembPort"
    <2> DEFINE e == [old EXCEPT !.vmembPort = Bits(@)]
    <2>1. vlanTable' = [vlanTable EXCEPT ![t][v].vmembPort = Bits(@)]
      BY <1>5 DEF BitChanged
    <2>2. vlanTable' = [vlanTable EXCEPT ![t][v] = e]
      BY <2>1
    <2> HIDE DEF t, p, old
    <2>3. /\ e \in Entries /\ e.tagPort = old.tagPort /\ e.vlanBc = old.vlanBc
          /\ e.vmembPort = Bits(old.vmembPort)
      BY <1>3 DEF Entries
    <2> HIDE DEF e, Bits
    <2>4. /\ vlanTable' \in [VlanSwitch -> [VlanIds -> Entries]]
          /\ vlanTable'[t][v] = e
          /\ \A s \in VlanSwitch, w \in VlanIds :
                ~(s = t /\ w = v) => vlanTable'[s][w] = vlanTable[s][w]
      BY <1>4, <2>2, <2>3
    <2>5. QED BY <1>5, <2>3, <2>4 DEF OnlyBitChanged, Bits, t, p, old
  <1>6. CASE field = "vingMirr"
    <2> DEFINE e == [old EXCEPT !.vingMirr = Bits(@)]
    <2>1. vlanTable' = [vlanTable EXCEPT ![t][v].vingMirr = Bits(@)]
      BY <1>6 DEF BitChanged
    <2>2. vlanTable' = [vlanTable EXCEPT ![t][v] = e]
      BY <2>1
    <2> HIDE DEF t, p, old
    <2>3. /\ e \in Entries /\ e.tagPort = old.tagPort /\ e.vlanBc = old.vlanBc
          /\ e.vmembPort = old.vmembPort
      BY <1>3 DEF Entries
    <2> HIDE DEF e, Bits
    <2>4. /\ vlanTable' \in [VlanSwitch -> [VlanIds -> Entries]]
          /\ vlanTable'[t][v] = e
          /\ \A s \in VlanSwitch, w \in VlanIds :
                ~(s = t /\ w = v) => vlanTable'[s][w] = vlanTable[s][w]
      BY <1>4, <2>2, <2>3
    <2>5. QED BY <1>6, <2>3, <2>4 DEF OnlyBitChanged, t, p, old
  <1>7. CASE field = "vegrMirr"
    <2> DEFINE e == [old EXCEPT !.vegrMirr = Bits(@)]
    <2>1. vlanTable' = [vlanTable EXCEPT ![t][v].vegrMirr = Bits(@)]
      BY <1>7 DEF BitChanged
    <2>2. vlanTable' = [vlanTable EXCEPT ![t][v] = e]
      BY <2>1
    <2> HIDE DEF t, p, old
    <2>3. /\ e \in Entries /\ e.tagPort = old.tagPort /\ e.vlanBc = old.vlanBc
          /\ e.vmembPort = old.vmembPort
      BY <1>3 DEF Entries
    <2> HIDE DEF e, Bits
    <2>4. /\ vlanTable' \in [VlanSwitch -> [VlanIds -> Entries]]
          /\ vlanTable'[t][v] = e
          /\ \A s \in VlanSwitch, w \in VlanIds :
                ~(s = t /\ w = v) => vlanTable'[s][w] = vlanTable[s][w]
      BY <1>4, <2>2, <2>3
    <2>5. QED BY <1>7, <2>3, <2>4 DEF OnlyBitChanged, t, p, old
  <1>8. QED BY <1>5, <1>6, <1>7

\* Mirroring a VLAN leaves its members and its forwarding alone.
LEMMA MirroringPreserves ==
    ASSUME VlanInv, NEW v \in VlanIds, NEW l \in VlanPorts, NEW enable \in BOOLEAN,
           NEW field \in {"vingMirr", "vegrMirr"},
           vlanTable' = BitChanged(v, l, field, enable), UNCHANGED <<enabled, forwarded, spanned>>
    PROVE  VlanInv'
  <1>1. /\ vlanTable' \in [VlanSwitch -> [VlanIds -> Entries]]
        /\ \A s \in VlanSwitch, w \in VlanIds :
              /\ vlanTable'[s][w].tagPort = vlanTable[s][w].tagPort
              /\ vlanTable'[s][w].vlanBc = vlanTable[s][w].vlanBc
              /\ vlanTable'[s][w].vmembPort = vlanTable[s][w].vmembPort
    <2>1. field \in {"vmembPort", "vingMirr", "vegrMirr"} /\ field # "vmembPort"
      OBVIOUS
    <2>2. OnlyBitChanged(v, l, field, enable)
      BY <2>1, BitOnly, Zenon
    <2>3. QED BY <2>1, <2>2 DEF OnlyBitChanged
  <1>2. /\ enabled \in [VlanIds -> SUBSET VlanPorts] /\ forwarded \in [VlanIds -> SUBSET VlanPorts]
        /\ spanned \subseteq VlanIds
    BY TypeUnfolded DEF VlanInv
  <1>3. VlanTypeOK'
    BY <1>1, <1>2, Zenon DEF VlanTypeOK, Entries, PortNames
  <1>4. ASSUME NEW w \in VlanIds, NEW k \in VlanPorts PROVE MemberBits(w, k)'
    <2>1. SwitchOfPort(k) \in VlanSwitch
      BY NoLinkBit
    <2>2. QED BY <1>1, <2>1 DEF VlanInv, MemberBits
  <1>5. ASSUME NEW w \in spanned' PROVE LinksSpan(w)'
    <2>1. w \in spanned /\ w \in VlanIds /\ LinksSpan(w)
      BY <1>2 DEF VlanInv
    <2>2. \A s \in 0 .. VlanSwitches - 2 : s \in VlanSwitch /\ s + 1 \in VlanSwitch
      BY VlanAssumption DEF VlanSwitch
    <2>3. QED BY <1>1, <2>1, <2>2 DEF LinksSpan, GoesDown, GoesUp
  <1>6. QED BY <1>3, <1>4, <1>5, Zenon DEF VlanInv

\* SJA1105P_enableVlan sets the member bit of its port; the links may no longer suit.
LEMMA EnablePreserves ==
    ASSUME VlanInv, NEW v \in VlanIds, NEW l \in VlanPorts, NEW enable \in BOOLEAN,
           EnableVlan(v, l, enable)
    PROVE  VlanInv'
  <1>0. vlanTable' = BitChanged(v, l, "vmembPort", enable) /\ UNCHANGED forwarded
          /\ enabled' = [enabled EXCEPT ![v] = IF enable THEN @ \cup {l} ELSE @ \ {l}]
          /\ spanned' = spanned \ {v}
    BY Zenon DEF EnableVlan
  <1>1. /\ vlanTable' \in [VlanSwitch -> [VlanIds -> Entries]]
        /\ \A s \in VlanSwitch, w \in VlanIds :
              /\ ~(s = SwitchOfPort(l) /\ w = v) => vlanTable'[s][w] = vlanTable[s][w]
              /\ vlanTable'[s][w].tagPort = vlanTable[s][w].tagPort
              /\ vlanTable'[s][w].vlanBc = vlanTable[s][w].vlanBc
        /\ vlanTable'[SwitchOfPort(l)][v].vmembPort =
              IF enable THEN vlanTable[SwitchOfPort(l)][v].vmembPort \cup {VlanPhysicalPort[l].physicalPort}
              ELSE vlanTable[SwitchOfPort(l)][v].vmembPort \ {VlanPhysicalPort[l].physicalPort}
    <2>1. "vmembPort" \in {"vmembPort", "vingMirr", "vegrMirr"}
      OBVIOUS
    <2>2. OnlyBitChanged(v, l, "vmembPort", enable)
      BY <1>0, <2>1, BitOnly, Zenon
    <2>3. QED BY <2>2 DEF OnlyBitChanged
  <1>2. /\ enabled \in [VlanIds -> SUBSET VlanPorts] /\ forwarded \in [VlanIds -> SUBSET VlanPorts]
        /\ spanned \subseteq VlanIds
    BY TypeUnfolded DEF VlanInv
  <1>3. /\ enabled' \in [VlanIds -> SUBSET VlanPorts] /\ spanned' \subseteq VlanIds
        /\ enabled'[v] = IF enable THEN enabled[v] \cup {l} ELSE enabled[v] \ {l}
        /\ \A w \in VlanIds \ {v} : enabled'[w] = enabled[w]
    BY <1>0, <1>2
  <1>4. VlanTypeOK'
    BY <1>0, <1>1, <1>2, <1>3, Zenon DEF VlanTypeOK, Entries, PortNames
  <1>5. ASSUME NEW w \in VlanIds, NEW k \in VlanPorts PROVE MemberBits(w, k)'
    <2>1. SwitchOfPort(k) \in VlanSwitch /\ MemberBits(w, k)
      BY NoLinkBit DEF VlanInv
    <2>2. CASE w = v /\ SwitchOfPort(k) = SwitchOfPort(l)
      <3>1. VlanPhysicalPort[k].physicalPort = VlanPhysicalPort[l].physicalPort <=> k = l
        BY <2>2, VlanAssumption DEF SwitchOfPort, VlanPorts
      <3>2. QED BY <1>0, <1>1, <1>3, <2>1, <2>2, <3>1 DEF MemberBits
    <2>3. CASE w = v /\ SwitchOfPort(k) # SwitchOfPort(l)
      <3>1. vlanTable'[SwitchOfPort(k)][w] = vlanTable[SwitchOfPort(k)][w] /\ k # l
        BY <1>1, <2>1, <2>3
      <3>2. QED BY <1>0, <1>3, <2>1, <2>3, <3>1 DEF MemberBits
    <2>4. CASE w # v
      <3>1. vlanTable'[SwitchOfPort(k)][w] = vlanTable[SwitchOfPort(k)][w]
        BY <1>1, <2>1, <2>4
      <3>2. QED BY <1>0, <1>3, <2>1, <2>4, <3>1 DEF MemberBits
    <2>5. QED BY <2>2, <2>3, <2>4
  <1>6. ASSUME NEW w \in spanned' PROVE LinksSpan(w)'
    <2>1. w \in spanned /\ w \in VlanIds /\ w # v /\ LinksSpan(w)
      BY <1>0, <1>2 DEF VlanInv
    <2>2. \A s \in 0 .. VlanSwitches - 2 : s \in VlanSwitch /\ s + 1 \in VlanSwitch
      BY VlanAssumption DEF VlanSwitch
    <2>3. /\ \A s \in VlanSwitch : vlanTable'[s][w] = vlanTable[s][w]
          /\ enabled'[w] = enabled[w] /\ forwarded'[w] = forwarded[w]
      BY <1>0, <1>1, <1>3, <2>1
    <2>4. QED BY <2>1, <2>2, <2>3 DEF LinksSpan, GoesDown, GoesUp
  <1>7. QED BY <1>4, <1>5, <1>6, Zenon DEF VlanInv

\* No VLAN is set up at first.
LEMMA VlanInitially == VlanInit => VlanInv
  <1> SUFFICES ASSUME VlanInit PROVE VlanInv
    OBVIOUS
  <1>1. /\ \A s \in VlanSwitch, v \in VlanIds : vlanTable[s][v] = NoVlan
        /\ \A v \in VlanIds : enabled[v] = {} /\ forwarded[v] = {}
        /\ spanned = VlanIds
    BY DEF VlanInit
  <1>2. NoVlan \in Entries
    BY DEF NoVlan, Entries
  <1>3. VlanTypeOK
    <2>1. vlanTable \in [VlanSwitch -> [VlanIds -> Entries]]
      BY <1>2 DEF VlanInit
    <2>2. QED BY <2>1, TypeUnfolded DEF VlanInit
  <1>4. ASSUME NEW v \in VlanIds, NEW l \in VlanPorts PROVE MemberBits(v, l)
    BY <1>1, NoLinkBit DEF MemberBits, NoVlan
  <1>5. ASSUME NEW v \in VlanIds PROVE LinksSpan(v)
    <2>1. FirstSwitch(enabled[v]) = VlanSwitches /\ LastSwitch(forwarded[v]) \in Nat
            /\ LastSwitch(enabled[v]) \in Nat
      BY <1>1, Enclosed
    <2>2. \A s \in 0 .. VlanSwitches - 2 : ~LinkWithinMembers(s, enabled[v])
      BY <2>1, VlanAssumption DEF LinkWithinMembers
    <2>3. QED BY <1>1, <2>2 DEF LinksSpan, Downwards, Upwards
  <1>6. QED BY <1>1, <1>3, <1>4, <1>5 DEF VlanInv

\* Whatever is added, removed, enabled and mirrored, a frame of a VLAN passes from one
\* external port to another only if both were asked for, and it does pass as long as
\* the VLAN was last written as a whole: for every number of switches, ports and VLANs.
THEOREM VlansConnect == VlanSpec => [](VlanTypeOK /\ VlanConnects)
  <1>1. VlanInit => VlanInv
    BY VlanInitially
  <1>2. VlanInv /\ [VlanNext]_vlanVars => VlanInv'
    <2>1. ASSUME VlanInv, NEW v \in VlanIds, NEW l \in VlanPorts,
                 NxpPortVlanRxAddVid(l, v) \/ NxpPortVlanRxKillVid(l, v)
          PROVE  VlanInv'
      <3>1. /\ ReadTagged(v) \in SUBSET VlanPorts /\ ReadUntagged(v) \in SUBSET VlanPorts
            /\ ReadEnable(v) \in SUBSET VlanPorts
        BY DEF ReadTagged, ReadUntagged, ReadEnable, Said
      <3>2. PICK tagged \in SUBSET VlanPorts, untagged \in SUBSET VlanPorts, enable \in SUBSET VlanPorts :
               WriteVlanConfig(v, tagged, untagged, enable)
        <4>1. CASE NxpPortVlanRxAddVid(l, v)
          <5>1. /\ ReadTagged(v) \cup {l} \in SUBSET VlanPorts /\ ReadUntagged(v) \ {l} \in SUBSET VlanPorts
                /\ ReadEnable(v) \cup {l} \in SUBSET VlanPorts
            BY <3>1
          <5>2. QED BY <4>1, <5>1, Zenon DEF NxpPortVlanRxAddVid
        <4>2. CASE NxpPortVlanRxKillVid(l, v)
          <5>1. /\ ReadTagged(v) \ {l} \in SUBSET VlanPorts /\ ReadUntagged(v) \ {l} \in SUBSET VlanPorts
                /\ ReadEnable(v) \ {l} \in SUBSET VlanPorts
            BY <3>1
          <5>2. QED BY <4>2, <5>1, Zenon DEF NxpPortVlanRxKillVid
        <4>3. QED BY <2>1, <4>1, <4>2
      <3>3. QED BY <2>1, <3>2, VlanWritten
    <2>2. ASSUME VlanInv, NEW v \in VlanIds, NEW l \in VlanPorts, NEW enable \in BOOLEAN,
                 \/ EnableVlanIngressMirroring(v, l, enable) \/ EnableVlanEgressMirroring(v, l, enable)
          PROVE  VlanInv'
      BY <2>2, MirroringPreserves DEF EnableVlanIngressMirroring, EnableVlanEgressMirroring
    <2>3. FewPorts \subseteq VlanPorts
      BY VlanAssumption DEF VlanPorts
    <2>4. ASSUME VlanInv, VlanNext PROVE VlanInv'
      <3>1. PICK v \in VlanIds :
               \/ \E l \in VlanPorts : NxpPortVlanRxAddVid(l, v) \/ NxpPortVlanRxKillVid(l, v)
               \/ \E l \in VlanPorts, enable \in BOOLEAN : EnableVlan(v, l, enable)
               \/ \E l \in FewPorts, enable \in BOOLEAN :
                     EnableVlanIngressMirroring(v, l, enable) \/ EnableVlanEgressMirroring(v, l, enable)
               \/ \E tagged, enable \in SUBSET VlanPorts, untagged \in SUBSET FewPorts :
                     WriteVlanConfig(v, tagged, untagged, enable)
        BY <2>4, Zenon DEF VlanNext
      <3>2. CASE \E tagged, enable \in SUBSET VlanPorts, untagged \in SUBSET FewPorts :
                     WriteVlanConfig(v, tagged, untagged, enable)
        BY <2>3, <2>4, <3>2, VlanWritten
      <3>3. CASE \E l \in FewPorts, enable \in BOOLEAN :
                     EnableVlanIngressMirroring(v, l, enable) \/ EnableVlanEgressMirroring(v, l, enable)
        BY <2>2, <2>3, <2>4, <3>3
      <3>4. CASE \E l \in VlanPorts, enable \in BOOLEAN : EnableVlan(v, l, enable)
        BY <2>4, <3>4, EnablePreserves
      <3>5. CASE \E l \in VlanPorts : NxpPortVlanRxAddVid(l, v) \/ NxpPortVlanRxKillVid(l, v)
        BY <2>1, <2>4, <3>5
      <3>6. QED BY <3>1, <3>2, <3>3, <3>4, <3>5
    <2>5. ASSUME VlanInv, UNCHANGED vlanVars PROVE VlanInv'
      BY <2>5 DEF vlanVars, VlanInv, VlanTypeOK, MemberBits, LinksSpan, GoesDown, GoesUp,
         Downwards, Upwards, LinkWithinMembers
    <2>6. QED BY <2>4, <2>5
  <1>3. VlanInv => VlanTypeOK /\ VlanConnects
    BY ConnectedIfSpanned DEF VlanInv
  <1>4. QED BY <1>1, <1>2, <1>3, PTL DEF VlanSpec

-----------------------------------------------------------------------------
(* Retagging and bypassing *)

\* The inductive invariant.
RetagInv == TypeOK /\ OneEntryPerVlan /\ EntriesMatchFlags

\* What an operation does for VLAN v with entry i: in every switch the entry
\* becomes e[s].
Updates(i, e, ids, retag, bypass) ==
    /\ entry' = [s \in Switch |-> [entry[s] EXCEPT ![i] = e[s]]]
    /\ g_retaggingTableVlanId' = ids
    /\ g_retaggingValid' = [g_retaggingValid EXCEPT ![i] = retag]
    /\ g_bypassingValid' = [g_bypassingValid EXCEPT ![i] = bypass]

\* Entries for VLAN v that suit the flags.
Suits(e, v, retag, bypass) ==
    \A s \in Switch : /\ e[s].valident = (retag \/ bypass)
                      /\ retag \/ bypass => e[s].vlanEgr = v
                      /\ ~retag => e[s].ingPort = {}
                      /\ e[s].useDestports = bypass

\* VLANs remembered after an operation for v with entry i.
Remembers(ids, v, i, used) ==
    /\ ids \in [Index -> Vlan]
    /\ \A j \in Index \ {i} : ids[j] = Claimed(v)[j]
    /\ used => ids[i] = v

-----------------------------------------------------------------------------
\* The search claims free entries only, and the one it ends at is for v.
LEMMA ClaimedIds ==
    ASSUME TypeOK, NEW v \in Vlan, NEW i \in Index, IsEntryOf(i, v)
    PROVE  /\ Claimed(v) \in [Index -> Vlan]
           /\ Claimed(v)[i] = v
           /\ \A j \in Index : Used(j) => Claimed(v)[j] = g_retaggingTableVlanId[j]
           /\ \A j \in Index : Used(j) /\ g_retaggingTableVlanId[j] = v => j = i
                               \/ Matches(i, v)
BY DEF TypeOK, Claimed, IsEntryOf, IsFirstMatch, IsFirstFree, Matches

\* The entry found for v is the only one in use for v afterwards.
LEMMA OnlyEntryForVlan ==
    ASSUME OneEntryPerVlan, NEW v \in Vlan, NEW i \in Index, IsEntryOf(i, v),
           NEW j \in Index, Used(j), g_retaggingTableVlanId[j] = v
    PROVE  j = i
BY DEF OneEntryPerVlan, IsEntryOf, IsFirstMatch, Matches, IsFirstFree

\* An update with a consistent entry preserves the invariant.
LEMMA UpdatePreserves ==
    ASSUME RetagInv, NEW v \in Vlan, NEW i \in Index, IsEntryOf(i, v),
           NEW e \in [Switch -> Entry], NEW ids,
           NEW retag \in BOOLEAN, NEW bypass \in BOOLEAN,
           Updates(i, e, ids, retag, bypass),
           NEW used \in BOOLEAN, retag => used, bypass => used,
           Remembers(ids, v, i, used),
           Suits(e, v, retag, bypass)
    PROVE  RetagInv'
<1>1. TypeOK'
  BY DEF RetagInv, TypeOK, Updates, Remembers
<1>2. \A s \in Switch : /\ entry'[s][i] = e[s]
                        /\ \A j \in Index \ {i} : entry'[s][j] = entry[s][j]
  BY DEF RetagInv, TypeOK, Updates
<1>3. \A j \in Index \ {i} :
          /\ g_retaggingValid'[j] = g_retaggingValid[j]
          /\ g_bypassingValid'[j] = g_bypassingValid[j]
  BY DEF RetagInv, TypeOK, Updates
<1>4. g_retaggingValid'[i] = retag /\ g_bypassingValid'[i] = bypass
  BY DEF RetagInv, TypeOK, Updates
<1>5. \A j \in Index \ {i} : Used(j)' <=> Used(j)
  BY <1>3 DEF Used
<1>6. Used(i)' <=> retag \/ bypass
  BY <1>4 DEF Used
<1>7. \A j \in Index \ {i} :
          Used(j) => g_retaggingTableVlanId'[j] = g_retaggingTableVlanId[j]
  BY ClaimedIds DEF RetagInv, Updates, Remembers
<1>8. OneEntryPerVlan'
  <2>. SUFFICES ASSUME NEW j \in Index, NEW k \in Index, Used(j)', Used(k)',
                       g_retaggingTableVlanId'[j] = g_retaggingTableVlanId'[k],
                       j # k
                PROVE  FALSE
    BY DEF OneEntryPerVlan
  <2>1. CASE j # i /\ k # i
    BY <1>5, <1>7, <2>1 DEF RetagInv, OneEntryPerVlan
  <2>2. ASSUME NEW l \in Index \ {i}, Used(l)', Used(i)',
               g_retaggingTableVlanId'[l] = g_retaggingTableVlanId'[i]
        PROVE  FALSE
    <3>1. g_retaggingTableVlanId'[i] = v
      BY <1>6, <2>2 DEF Updates, Remembers
    <3>2. Used(l) /\ g_retaggingTableVlanId[l] = v
      BY <1>5, <1>7, <2>2, <3>1
    <3>. QED
      BY <3>2, OnlyEntryForVlan DEF RetagInv
  <2>. QED
    BY <2>1, <2>2
<1>9. EntriesMatchFlags'
  <2>. SUFFICES ASSUME NEW s \in Switch, NEW j \in Index
                PROVE  /\ entry'[s][j].valident <=> Used(j)'
                       /\ Used(j)' => entry'[s][j].vlanEgr = g_retaggingTableVlanId'[j]
                       /\ ~g_retaggingValid'[j] => entry'[s][j].ingPort = {}
                       /\ entry'[s][j].useDestports <=> g_bypassingValid'[j]
    BY DEF EntriesMatchFlags
  <2>1. CASE j = i
    BY <1>2, <1>4, <1>6, <2>1 DEF Updates, Remembers, Suits
  <2>2. CASE j # i
    BY <1>2, <1>3, <1>5, <1>7, <2>2 DEF RetagInv, EntriesMatchFlags
  <2>. QED
    BY <2>1, <2>2
<1>. QED
  BY <1>1, <1>8, <1>9 DEF RetagInv

-----------------------------------------------------------------------------
\* What the invariant says of one entry.
LEMMA EntryOf ==
    ASSUME RetagInv, NEW i \in Index
    PROVE  /\ g_retaggingValid[i] \in BOOLEAN
           /\ g_bypassingValid[i] \in BOOLEAN
           /\ \A s \in Switch :
                 /\ entry[s][i] \in Entry
                 /\ Used(i) => entry[s][i].vlanEgr = g_retaggingTableVlanId[i]
                 /\ ~g_retaggingValid[i] => entry[s][i].ingPort = {}
                 /\ entry[s][i].useDestports = g_bypassingValid[i]
<1>1. /\ g_retaggingValid[i] \in BOOLEAN
      /\ g_bypassingValid[i] \in BOOLEAN
      /\ \A s \in Switch : entry[s][i] \in Entry
  BY DEF RetagInv, TypeOK
<1>2. \A s \in Switch : entry[s][i].useDestports \in BOOLEAN
  BY <1>1 DEF Entry
<1>. QED
  BY <1>1, <1>2 DEF RetagInv, EntriesMatchFlags

\* The VLAN of an entry in use is the one it was found by.
LEMMA UsedForVlan ==
    ASSUME RetagInv, NEW v \in Vlan, NEW i \in Index, IsEntryOf(i, v), Used(i)
    PROVE  g_retaggingTableVlanId[i] = v
BY DEF IsEntryOf, IsFirstMatch, IsFirstFree, Matches

\* Starting to retag preserves the invariant.
LEMMA StartPreserves ==
    ASSUME RetagInv, NEW v \in Vlan, NEW r \in Rule, StartRetagging(v, r, {})
    PROVE  RetagInv'
<1>1. PICK i \in Index :
        /\ IsEntryOf(i, v)
        /\ entry' = [s \in Switch |-> [entry[s] EXCEPT ![i] =
               [entry[s][i] EXCEPT !.valident = TRUE,
                         !.vlanIng = r.ingressVlanId, !.vlanEgr = v,
                         !.ingPort = r.ingressPorts \cap LocalPorts(s),
                         !.egrPort = r.egressPorts \cap LocalPorts(s)]]]
        /\ g_retaggingTableVlanId' = Claimed(v)
        /\ g_retaggingValid' = [g_retaggingValid EXCEPT ![i] = TRUE]
        /\ UNCHANGED g_bypassingValid
  BY DEF StartRetagging, Stored, Flag
<1>. DEFINE e == [s \in Switch |->
               [entry[s][i] EXCEPT !.valident = TRUE,
                         !.vlanIng = r.ingressVlanId, !.vlanEgr = v,
                         !.ingPort = r.ingressPorts \cap LocalPorts(s),
                         !.egrPort = r.egressPorts \cap LocalPorts(s)]]
<1>2. r.ingressVlanId \in Vlan /\ \A s \in Switch : LocalPorts(s) \subseteq Port
  BY RetaggingAssumption DEF LocalPorts
<1>3. e \in [Switch -> Entry]
  <2>1. /\ \A s \in Switch : entry[s][i] \in Entry
        /\ g_retaggingValid[i] \in BOOLEAN /\ g_bypassingValid[i] \in BOOLEAN
    BY EntryOf
  <2>. QED
    BY <1>2, <2>1, RetaggingAssumption, ZenonT(30) DEF Entry
<1>9. Suits(e, v, TRUE, g_bypassingValid[i])
  <2>. SUFFICES ASSUME NEW s \in Switch
                PROVE  /\ e[s].valident = (TRUE \/ g_bypassingValid[i])
                       /\ TRUE \/ g_bypassingValid[i] => e[s].vlanEgr = v
                       /\ ~TRUE => e[s].ingPort = {}
                       /\ e[s].useDestports = g_bypassingValid[i]
    BY DEF Suits
  <2>. QED
    BY <1>2, EntryOf, ZenonT(30) DEF Entry, Used
<1>4. entry' = [s \in Switch |-> [entry[s] EXCEPT ![i] = e[s]]]
  BY <1>1
<1>. HIDE DEF e
<1>5. g_bypassingValid' = [g_bypassingValid EXCEPT ![i] = g_bypassingValid[i]]
  BY <1>1 DEF RetagInv, TypeOK
<1>6. Updates(i, e, Claimed(v), TRUE, g_bypassingValid[i])
  BY <1>1, <1>4, <1>5 DEF Updates
<1>7. Remembers(Claimed(v), v, i, TRUE)
  BY <1>1, ClaimedIds DEF RetagInv, Remembers
<1>8. g_bypassingValid[i] \in BOOLEAN
  BY EntryOf
<1>. QED
  BY <1>1, <1>3, <1>6, <1>7, <1>8, <1>9, UpdatePreserves

\* Starting to bypass preserves the invariant.
LEMMA EnableRulePreserves ==
    ASSUME RetagInv, NEW v \in Vlan, NEW b \in Bypass, EnableBypassing(v, b, {})
    PROVE  RetagInv'
<1>1. PICK i \in Index :
        /\ IsEntryOf(i, v)
        /\ entry' = [s \in Switch |-> [entry[s] EXCEPT ![i] =
               [entry[s][i] EXCEPT !.valident = TRUE, !.vlanEgr = v,
                         !.doNotLearn = b.learningDisabled,
                         !.useDestports = TRUE,
                         !.destports = b.destPorts \cap LocalPorts(s)]]]
        /\ g_retaggingTableVlanId' = Claimed(v)
        /\ g_bypassingValid' = [g_bypassingValid EXCEPT ![i] = TRUE]
        /\ UNCHANGED g_retaggingValid
  BY DEF EnableBypassing, Stored, Flag
<1>. DEFINE e == [s \in Switch |->
               [entry[s][i] EXCEPT !.valident = TRUE, !.vlanEgr = v,
                         !.doNotLearn = b.learningDisabled,
                         !.useDestports = TRUE,
                         !.destports = b.destPorts \cap LocalPorts(s)]]
<1>2. b.learningDisabled \in BOOLEAN /\ \A s \in Switch : LocalPorts(s) \subseteq Port
  BY RetaggingAssumption DEF LocalPorts
<1>3. e \in [Switch -> Entry]
  <2>1. /\ \A s \in Switch : entry[s][i] \in Entry
        /\ g_retaggingValid[i] \in BOOLEAN /\ g_bypassingValid[i] \in BOOLEAN
    BY EntryOf
  <2>2. v \in Vlan /\ \A s \in Switch : b.destPorts \cap LocalPorts(s) \in SUBSET Port
    BY <1>2, RetaggingAssumption
  <2>3. ASSUME NEW s \in Switch PROVE e[s] \in Entry
    BY <1>2, <2>1, <2>2 DEF Entry
  <2>. QED
    BY <2>3
<1>9. Suits(e, v, g_retaggingValid[i], TRUE)
  <2>. SUFFICES ASSUME NEW s \in Switch
                PROVE  /\ e[s].valident = (g_retaggingValid[i] \/ TRUE)
                       /\ g_retaggingValid[i] \/ TRUE => e[s].vlanEgr = v
                       /\ ~g_retaggingValid[i] => e[s].ingPort = {}
                       /\ e[s].useDestports = TRUE
    BY DEF Suits
  <2>. QED
    BY <1>2, EntryOf, ZenonT(30) DEF Entry, Used
<1>4. entry' = [s \in Switch |-> [entry[s] EXCEPT ![i] = e[s]]]
  BY <1>1
<1>. HIDE DEF e
<1>5. g_retaggingValid' = [g_retaggingValid EXCEPT ![i] = g_retaggingValid[i]]
  BY <1>1 DEF RetagInv, TypeOK
<1>6. Updates(i, e, Claimed(v), g_retaggingValid[i], TRUE)
  BY <1>1, <1>4, <1>5 DEF Updates
<1>7. Remembers(Claimed(v), v, i, TRUE)
  BY <1>1, ClaimedIds DEF RetagInv, Remembers
<1>8. g_retaggingValid[i] \in BOOLEAN
  BY EntryOf
<1>. QED
  BY <1>1, <1>3, <1>6, <1>7, <1>8, <1>9, UpdatePreserves

\* The VLANs remembered after an entry may have been invalidated.
LEMMA RememberedIds ==
    ASSUME RetagInv, NEW v \in Vlan, NEW i \in Index, IsEntryOf(i, v),
           NEW valid \in BOOLEAN
    PROVE  Remembers(Remembered(v, i, valid), v, i, valid)
<1>1. Claimed(v) \in [Index -> Vlan] /\ Claimed(v)[i] = v
  BY ClaimedIds DEF RetagInv
<1>2. CASE valid
  BY <1>1, <1>2 DEF Remembered, Remembers
<1>3. CASE ~valid
  BY <1>1, <1>3, RetaggingAssumption DEF Remembered, Remembers
<1>. QED
  BY <1>2, <1>3

\* Stopping to retag preserves the invariant.
LEMMA StopPreserves ==
    ASSUME RetagInv, NEW v \in Vlan, StopRetagging(v, {})
    PROVE  RetagInv'
<1>1. PICK i \in Index :
        /\ IsEntryOf(i, v)
        /\ entry' = [s \in Switch |-> [entry[s] EXCEPT ![i] =
               [entry[s][i] EXCEPT !.valident = g_bypassingValid[i],
                         !.ingPort = {}, !.egrPort = {}]]]
        /\ g_retaggingTableVlanId' = Remembered(v, i, g_bypassingValid[i])
        /\ g_retaggingValid' = [g_retaggingValid EXCEPT ![i] = FALSE]
        /\ UNCHANGED g_bypassingValid
  BY DEF StopRetagging, Stored, Flag
<1>. DEFINE e == [s \in Switch |->
               [entry[s][i] EXCEPT !.valident = g_bypassingValid[i],
                         !.ingPort = {}, !.egrPort = {}]]
<1>2. g_bypassingValid[i] => g_retaggingTableVlanId[i] = v
  BY <1>1, UsedForVlan DEF Used
<1>3. e \in [Switch -> Entry]
  <2>1. /\ \A s \in Switch : entry[s][i] \in Entry
        /\ g_retaggingValid[i] \in BOOLEAN /\ g_bypassingValid[i] \in BOOLEAN
    BY EntryOf
  <2>. QED
    BY <1>2, <2>1, RetaggingAssumption DEF Entry
<1>9. Suits(e, v, FALSE, g_bypassingValid[i])
  <2>. SUFFICES ASSUME NEW s \in Switch
                PROVE  /\ e[s].valident = (FALSE \/ g_bypassingValid[i])
                       /\ FALSE \/ g_bypassingValid[i] => e[s].vlanEgr = v
                       /\ ~FALSE => e[s].ingPort = {}
                       /\ e[s].useDestports = g_bypassingValid[i]
    BY DEF Suits
  <2>1. entry[s][i] \in Entry /\ (g_bypassingValid[i] \/ g_retaggingValid[i] => Used(i))
    BY EntryOf DEF Used
  <2>2. /\ e[s].valident = g_bypassingValid[i] /\ e[s].ingPort = {}
        /\ e[s].vlanEgr = entry[s][i].vlanEgr /\ e[s].useDestports = entry[s][i].useDestports
    BY <2>1 DEF Entry
  <2>. QED
    BY <1>2, <2>1, <2>2, EntryOf DEF Used
<1>4. entry' = [s \in Switch |-> [entry[s] EXCEPT ![i] = e[s]]]
  BY <1>1
<1>. HIDE DEF e
<1>5. g_bypassingValid' = [g_bypassingValid EXCEPT ![i] = g_bypassingValid[i]]
  BY <1>1 DEF RetagInv, TypeOK
<1>6. Updates(i, e, Remembered(v, i, g_bypassingValid[i]), FALSE, g_bypassingValid[i])
  BY <1>1, <1>4, <1>5 DEF Updates
<1>7. g_bypassingValid[i] \in BOOLEAN
  BY EntryOf
<1>8. Remembers(Remembered(v, i, g_bypassingValid[i]), v, i, g_bypassingValid[i])
  BY <1>1, <1>7, RememberedIds
<1>. QED
  BY <1>1, <1>3, <1>6, <1>7, <1>8, <1>9, UpdatePreserves

\* Stopping to bypass preserves the invariant.
LEMMA DisablePreserves ==
    ASSUME RetagInv, NEW v \in Vlan, DisableBypassing(v, {})
    PROVE  RetagInv'
<1>1. PICK i \in Index :
        /\ IsEntryOf(i, v)
        /\ entry' = [s \in Switch |-> [entry[s] EXCEPT ![i] =
               [entry[s][i] EXCEPT !.valident = g_retaggingValid[i],
                         !.doNotLearn = FALSE, !.useDestports = FALSE]]]
        /\ g_retaggingTableVlanId' = Remembered(v, i, g_retaggingValid[i])
        /\ g_bypassingValid' = [g_bypassingValid EXCEPT ![i] = FALSE]
        /\ UNCHANGED g_retaggingValid
  BY DEF DisableBypassing, Stored, Flag
<1>. DEFINE e == [s \in Switch |->
               [entry[s][i] EXCEPT !.valident = g_retaggingValid[i],
                         !.doNotLearn = FALSE, !.useDestports = FALSE]]
<1>2. g_retaggingValid[i] => g_retaggingTableVlanId[i] = v
  BY <1>1, UsedForVlan DEF Used
<1>3. e \in [Switch -> Entry]
  <2>1. /\ \A s \in Switch : entry[s][i] \in Entry
        /\ g_retaggingValid[i] \in BOOLEAN /\ g_bypassingValid[i] \in BOOLEAN
    BY EntryOf
  <2>. QED
    BY <1>2, <2>1, RetaggingAssumption DEF Entry
<1>9. Suits(e, v, g_retaggingValid[i], FALSE)
  <2>. SUFFICES ASSUME NEW s \in Switch
                PROVE  /\ e[s].valident = (g_retaggingValid[i] \/ FALSE)
                       /\ g_retaggingValid[i] \/ FALSE => e[s].vlanEgr = v
                       /\ ~g_retaggingValid[i] => e[s].ingPort = {}
                       /\ e[s].useDestports = FALSE
    BY DEF Suits
  <2>. QED
    BY <1>2, EntryOf, ZenonT(30) DEF Entry, Used
<1>4. entry' = [s \in Switch |-> [entry[s] EXCEPT ![i] = e[s]]]
  BY <1>1
<1>. HIDE DEF e
<1>5. g_retaggingValid' = [g_retaggingValid EXCEPT ![i] = g_retaggingValid[i]]
  BY <1>1 DEF RetagInv, TypeOK
<1>6. Updates(i, e, Remembered(v, i, g_retaggingValid[i]), g_retaggingValid[i], FALSE)
  BY <1>1, <1>4, <1>5 DEF Updates
<1>7. g_retaggingValid[i] \in BOOLEAN
  BY EntryOf
<1>8. Remembers(Remembered(v, i, g_retaggingValid[i]), v, i, g_retaggingValid[i])
  BY <1>1, <1>7, RememberedIds
<1>. QED
  BY <1>1, <1>3, <1>6, <1>7, <1>8, <1>9, UpdatePreserves

-----------------------------------------------------------------------------
(* Retagging and bypassing, whatever switches report errors *)

\* Entries are of their type after one was stored, at whichever switches.
LEMMA StoredTyped ==
    ASSUME TypeOK, NEW i \in Index, NEW failed, NEW updated \in [Switch -> Entry],
           Stored(i, failed, updated)
    PROVE  entry' \in [Switch -> [Index -> Entry]]
<1>1. PICK left \in [failed -> Entry] :
        entry' = [s \in Switch |->
            [entry[s] EXCEPT ![i] = IF s \in failed THEN left[s] ELSE updated[s]]]
  BY DEF Stored
<1>2. ASSUME NEW s \in Switch
      PROVE  /\ entry[s] \in [Index -> Entry]
             /\ (IF s \in failed THEN left[s] ELSE updated[s]) \in Entry
  BY DEF TypeOK
<1>. QED
  BY <1>1, <1>2

\* A flag is one, changed or not.
LEMMA FlagTyped ==
    ASSUME NEW flag \in [Index -> BOOLEAN], NEW i \in Index, NEW value \in BOOLEAN, NEW failed
    PROVE  Flag(flag, i, value, failed) \in [Index -> BOOLEAN]
BY DEF Flag

\* So are the VLANs remembered.
LEMMA IdsTyped ==
    ASSUME TypeOK, NEW v \in Vlan, NEW i \in Index, NEW valid
    PROVE  /\ Claimed(v) \in [Index -> Vlan]
           /\ Remembered(v, i, valid) \in [Index -> Vlan]
<1>1. Claimed(v) \in [Index -> Vlan]
  BY DEF TypeOK, Claimed
<1>. QED
  BY <1>1, RetaggingAssumption DEF Remembered

\* A rule put into an entry leaves an entry.
LEMMA StartTyped ==
    ASSUME TypeOK, NEW v \in Vlan, NEW r \in Rule, NEW failed, StartRetagging(v, r, failed)
    PROVE  TypeOK'
<1>. DEFINE e(i) == [s \in Switch |->
               [entry[s][i] EXCEPT !.valident = TRUE,
                         !.vlanIng = r.ingressVlanId, !.vlanEgr = v,
                         !.ingPort = r.ingressPorts \cap LocalPorts(s),
                         !.egrPort = r.egressPorts \cap LocalPorts(s)]]
<1>1. PICK i \in Index :
        /\ Stored(i, failed, e(i)) /\ g_retaggingTableVlanId' = Claimed(v)
        /\ g_retaggingValid' = Flag(g_retaggingValid, i, TRUE, failed)
        /\ UNCHANGED g_bypassingValid
  BY DEF StartRetagging
<1>2. r.ingressVlanId \in Vlan /\ \A s \in Switch : LocalPorts(s) \subseteq Port
  BY RetaggingAssumption DEF LocalPorts
<1>3. \A s \in Switch : entry[s][i] \in Entry
  BY DEF TypeOK
<1>4. e(i) \in [Switch -> Entry]
  BY <1>2, <1>3, ZenonT(30) DEF Entry
<1>. HIDE DEF e
<1>5. entry' \in [Switch -> [Index -> Entry]]
  BY <1>1, <1>4, StoredTyped
<1>6. g_retaggingValid' \in [Index -> BOOLEAN]
  BY <1>1, FlagTyped DEF TypeOK
<1>. QED
  BY <1>1, <1>5, <1>6, IdsTyped DEF TypeOK

\* So does one for bypassing.
LEMMA EnableTyped ==
    ASSUME TypeOK, NEW v \in Vlan, NEW b \in Bypass, NEW failed, EnableBypassing(v, b, failed)
    PROVE  TypeOK'
<1>. DEFINE e(i) == [s \in Switch |->
               [entry[s][i] EXCEPT !.valident = TRUE, !.vlanEgr = v,
                         !.doNotLearn = b.learningDisabled,
                         !.useDestports = TRUE,
                         !.destports = b.destPorts \cap LocalPorts(s)]]
<1>1. PICK i \in Index :
        /\ Stored(i, failed, e(i)) /\ g_retaggingTableVlanId' = Claimed(v)
        /\ g_bypassingValid' = Flag(g_bypassingValid, i, TRUE, failed)
        /\ UNCHANGED g_retaggingValid
  BY DEF EnableBypassing
<1>2. b.learningDisabled \in BOOLEAN /\ \A s \in Switch : LocalPorts(s) \subseteq Port
  BY RetaggingAssumption DEF LocalPorts
<1>3. \A s \in Switch : entry[s][i] \in Entry
  BY DEF TypeOK
<1>4. e(i) \in [Switch -> Entry]
  <2>1. \A s \in Switch : b.destPorts \cap LocalPorts(s) \in SUBSET Port
    BY <1>2
  <2>2. ASSUME NEW s \in Switch PROVE e(i)[s] \in Entry
    BY <1>2, <1>3, <2>1 DEF Entry
  <2>. QED
    BY <2>2
<1>. HIDE DEF e
<1>5. entry' \in [Switch -> [Index -> Entry]]
  BY <1>1, <1>4, StoredTyped
<1>6. g_bypassingValid' \in [Index -> BOOLEAN]
  BY <1>1, FlagTyped DEF TypeOK
<1>. QED
  BY <1>1, <1>5, <1>6, IdsTyped DEF TypeOK

\* And an entry from which a rule is taken.
LEMMA StopTyped ==
    ASSUME TypeOK, NEW v \in Vlan, NEW failed, StopRetagging(v, failed)
    PROVE  TypeOK'
<1>. DEFINE e(i) == [s \in Switch |->
               [entry[s][i] EXCEPT !.valident = g_bypassingValid[i],
                         !.ingPort = {}, !.egrPort = {}]]
<1>1. PICK i \in Index :
        /\ Stored(i, failed, e(i))
        /\ g_retaggingTableVlanId' = Remembered(v, i, g_bypassingValid[i])
        /\ g_retaggingValid' = Flag(g_retaggingValid, i, FALSE, failed)
        /\ UNCHANGED g_bypassingValid
  BY DEF StopRetagging
<1>2. g_bypassingValid[i] \in BOOLEAN /\ \A s \in Switch : entry[s][i] \in Entry
  BY DEF TypeOK
<1>3. e(i) \in [Switch -> Entry]
  BY <1>2 DEF Entry
<1>. HIDE DEF e
<1>4. entry' \in [Switch -> [Index -> Entry]]
  BY <1>1, <1>3, StoredTyped
<1>5. g_retaggingValid' \in [Index -> BOOLEAN]
  BY <1>1, FlagTyped DEF TypeOK
<1>. QED
  BY <1>1, <1>4, <1>5, IdsTyped DEF TypeOK

\* Or one for bypassing.
LEMMA DisableTyped ==
    ASSUME TypeOK, NEW v \in Vlan, NEW failed, DisableBypassing(v, failed)
    PROVE  TypeOK'
<1>. DEFINE e(i) == [s \in Switch |->
               [entry[s][i] EXCEPT !.valident = g_retaggingValid[i],
                         !.doNotLearn = FALSE, !.useDestports = FALSE]]
<1>1. PICK i \in Index :
        /\ Stored(i, failed, e(i))
        /\ g_retaggingTableVlanId' = Remembered(v, i, g_retaggingValid[i])
        /\ g_bypassingValid' = Flag(g_bypassingValid, i, FALSE, failed)
        /\ UNCHANGED g_retaggingValid
  BY DEF DisableBypassing
<1>2. g_retaggingValid[i] \in BOOLEAN /\ \A s \in Switch : entry[s][i] \in Entry
  BY DEF TypeOK
<1>3. e(i) \in [Switch -> Entry]
  BY <1>2 DEF Entry
<1>. HIDE DEF e
<1>4. entry' \in [Switch -> [Index -> Entry]]
  BY <1>1, <1>3, StoredTyped
<1>5. g_bypassingValid' \in [Index -> BOOLEAN]
  BY <1>1, FlagTyped DEF TypeOK
<1>. QED
  BY <1>1, <1>4, <1>5, IdsTyped DEF TypeOK

\* Every step keeps the types of the entries and of what is remembered of them.
LEMMA RetagTypes == TypeOK /\ [Next]_vars => TypeOK'
<1>. SUFFICES ASSUME TypeOK, [Next]_vars PROVE TypeOK'
  OBVIOUS
<1>1. CASE Start
  BY <1>1, StartTyped DEF Start
<1>2. CASE Stop
  BY <1>2, StopTyped DEF Stop
<1>3. CASE Enable
  BY <1>3, EnableTyped DEF Enable
<1>4. CASE Disable
  BY <1>4, DisableTyped DEF Disable
<1>5. CASE UNCHANGED vars
  BY <1>5 DEF TypeOK, vars
<1>. QED
  BY <1>1, <1>2, <1>3, <1>4, <1>5 DEF Next, Refuse, OutOfEntries

\* At first all entries are empty.
LEMMA RetagStartsTyped == Init => TypeOK
BY RetaggingAssumption DEF Init, TypeOK, Entry

\* Whatever switches report errors, the entries and what the driver remembers of them
\* have their types.
LEMMA RetagTypeCorrect == Spec => []TypeOK
BY RetagStartsTyped, RetagTypes, PTL DEF Spec

\* Rules are removed without an error: those that are set may fail at any switches.
StopsSucceed ==
    Stop \/ Disable => \E v \in Vlan : StopRetagging(v, {}) \/ DisableBypassing(v, {})

\* A VLAN keeps having one entry if an operation for it leaves all other entries alone,
\* and the one it used, if that is still in use, to the VLAN.
LEMMA KeepsOneEntry ==
    ASSUME TypeOK, OneEntryPerVlan, NEW v \in Vlan, NEW i \in Index, IsEntryOf(i, v),
           \A j \in Index \ {i} : /\ Used(j)' <=> Used(j)
                                  /\ g_retaggingTableVlanId'[j] = Claimed(v)[j],
           Used(i)' => g_retaggingTableVlanId'[i] = v
    PROVE  OneEntryPerVlan'
<1>1. \A j \in Index \ {i} : Used(j) => g_retaggingTableVlanId'[j] = g_retaggingTableVlanId[j]
  BY ClaimedIds
<1>2. \A j \in Index \ {i} : Used(j) => g_retaggingTableVlanId[j] # v
  BY OnlyEntryForVlan
<1>. QED
  BY <1>1, <1>2 DEF OneEntryPerVlan

\* Setting a rule keeps the entries apart, even if it fails at some switches.
LEMMA SettingKeepsOneEntry ==
    ASSUME TypeOK, OneEntryPerVlan, Start \/ Enable
    PROVE  OneEntryPerVlan'
<1>1. PICK v \in Vlan, i \in Index, failed \in StoreFailure :
        /\ IsEntryOf(i, v) /\ g_retaggingTableVlanId' = Claimed(v)
        /\ \/ /\ g_retaggingValid' = Flag(g_retaggingValid, i, TRUE, failed)
              /\ UNCHANGED g_bypassingValid
           \/ /\ g_bypassingValid' = Flag(g_bypassingValid, i, TRUE, failed)
              /\ UNCHANGED g_retaggingValid
  BY DEF Start, Enable, StartRetagging, EnableBypassing
<1>2. \A j \in Index \ {i} : Used(j)' <=> Used(j)
  BY <1>1 DEF Used, Flag, TypeOK
<1>3. Claimed(v)[i] = v
  BY <1>1, ClaimedIds
<1>. QED
  BY <1>1, <1>2, <1>3, KeepsOneEntry

\* Removing a rule does if it succeeds everywhere: the VLAN is forgotten only with the
\* last rule of the entry.
LEMMA RemovingKeepsOneEntry ==
    ASSUME TypeOK, OneEntryPerVlan, NEW v \in Vlan,
           StopRetagging(v, {}) \/ DisableBypassing(v, {})
    PROVE  OneEntryPerVlan'
<1>1. PICK i \in Index :
        /\ IsEntryOf(i, v)
        /\ \/ /\ g_retaggingTableVlanId' = Remembered(v, i, g_bypassingValid[i])
              /\ g_retaggingValid' = [g_retaggingValid EXCEPT ![i] = FALSE]
              /\ UNCHANGED g_bypassingValid
           \/ /\ g_retaggingTableVlanId' = Remembered(v, i, g_retaggingValid[i])
              /\ g_bypassingValid' = [g_bypassingValid EXCEPT ![i] = FALSE]
              /\ UNCHANGED g_retaggingValid
  BY DEF StopRetagging, DisableBypassing, Flag
<1>2. \A j \in Index \ {i} : Used(j)' <=> Used(j)
  BY <1>1 DEF Used, TypeOK
<1>3. Claimed(v) \in [Index -> Vlan] /\ Claimed(v)[i] = v
  BY <1>1, ClaimedIds
<1>4. \A j \in Index \ {i}, valid \in BOOLEAN : Remembered(v, i, valid)[j] = Claimed(v)[j]
  BY <1>3 DEF Remembered
<1>5. \A j \in Index \ {i} : g_retaggingTableVlanId'[j] = Claimed(v)[j]
  BY <1>1, <1>4 DEF TypeOK
<1>6. Used(i)' => g_retaggingTableVlanId'[i] = v
  <2>1. CASE /\ g_retaggingTableVlanId' = Remembered(v, i, g_bypassingValid[i])
             /\ g_retaggingValid' = [g_retaggingValid EXCEPT ![i] = FALSE]
             /\ UNCHANGED g_bypassingValid
    BY <1>3, <2>1 DEF Used, Remembered, TypeOK
  <2>2. CASE /\ g_retaggingTableVlanId' = Remembered(v, i, g_retaggingValid[i])
             /\ g_bypassingValid' = [g_bypassingValid EXCEPT ![i] = FALSE]
             /\ UNCHANGED g_retaggingValid
    BY <1>3, <2>2 DEF Used, Remembered, TypeOK
  <2>. QED
    BY <1>1, <2>1, <2>2
<1>. QED
  BY <1>1, <1>2, <1>5, <1>6, KeepsOneEntry

-----------------------------------------------------------------------------
\* As long as no switch reports an error, a VLAN never has two entries, and the
\* entries of all switches are what the driver takes them for.
THEOREM RetagInvariant == ~StoreErrors => (Spec => []RetagInv)
<1>. SUFFICES ASSUME ~StoreErrors PROVE Spec => []RetagInv
  OBVIOUS
<1>1. Init => RetagInv
  BY RetaggingAssumption
     DEF Init, RetagInv, TypeOK, Entry, OneEntryPerVlan, EntriesMatchFlags, Used
<1>2. RetagInv /\ [Next]_vars => RetagInv'
  <2>. SUFFICES ASSUME RetagInv, [Next]_vars PROVE RetagInv'
    OBVIOUS
  <2>0. StoreFailure = {{}}
    BY DEF StoreFailure
  <2>1. CASE Start
    BY <2>0, <2>1, StartPreserves DEF Start
  <2>2. CASE Stop
    BY <2>0, <2>2, StopPreserves DEF Stop
  <2>3. CASE Enable
    BY <2>0, <2>3, EnableRulePreserves DEF Enable
  <2>4. CASE Disable
    BY <2>0, <2>4, DisablePreserves DEF Disable
  <2>5. CASE UNCHANGED vars
    BY <2>5 DEF RetagInv, TypeOK, OneEntryPerVlan, EntriesMatchFlags, Used, vars
  <2>. QED
    BY <2>1, <2>2, <2>3, <2>4, <2>5 DEF Next, Refuse, OutOfEntries
<1>. QED
  BY <1>1, <1>2, PTL DEF Spec

\* As long as rules are removed without an error, no VLAN has two entries, whatever
\* errors are reported when rules are set.
THEOREM EntriesAreUnique == Spec /\ [][StopsSucceed]_vars => []OneEntryPerVlan
<1>1. Init => OneEntryPerVlan
  BY DEF Init, OneEntryPerVlan, Used
<1>2. TypeOK /\ OneEntryPerVlan /\ [Next]_vars /\ [StopsSucceed]_vars => OneEntryPerVlan'
  <2>. SUFFICES ASSUME TypeOK, OneEntryPerVlan, [Next]_vars, [StopsSucceed]_vars
                PROVE  OneEntryPerVlan'
    OBVIOUS
  <2>1. CASE Start \/ Enable
    BY <2>1, SettingKeepsOneEntry
  <2>2. CASE (Stop \/ Disable) /\ StopsSucceed
    BY <2>2, RemovingKeepsOneEntry DEF StopsSucceed
  <2>3. CASE UNCHANGED vars
    BY <2>3 DEF OneEntryPerVlan, Used, vars
  <2>. QED
    BY <2>1, <2>2, <2>3 DEF Next, Refuse, OutOfEntries
<1>. QED
  BY <1>1, <1>2, RetagTypeCorrect, PTL DEF Spec

\* As long as no switch reports an error, an entry holds what its flags say in
\* every switch, and nothing of its former uses.
THEOREM EntriesAreClean == ~StoreErrors => (Spec => []EntriesMatchFlags)
<1>1. RetagInv => EntriesMatchFlags
  BY DEF RetagInv
<1>. QED
  BY <1>1, RetagInvariant, PTL

-----------------------------------------------------------------------------
(* One rule of each kind per VLAN *)

\* The rules stored at an index, put together from all switches.
RuleAt(i) == [ingressPorts |-> Joined(i, "ingPort"), egressPorts |-> Joined(i, "egrPort"),
              ingressVlanId |-> entry[0][i].vlanIng]
BypassAt(i) == [destPorts |-> Joined(i, "destports"), learningDisabled |-> entry[0][i].doNotLearn]

\* What is stored while a flag is set is a rule callers may set.
RulesInv ==
    /\ RetagInv
    /\ \A i \in Index : /\ g_retaggingValid[i] => RuleAt(i) \in Rule
                        /\ g_bypassingValid[i] => BypassAt(i) \in Bypass

\* What the switches do with frames of a VLAN is what the flags of its entry say.
Meaning ==
    \A v \in Vlan :
       /\ \A i \in Index : Matches(i, v) =>
             /\ RetaggingOf(v) = IF g_retaggingValid[i] THEN RuleAt(i) ELSE NoRule
             /\ BypassingOf(v) = IF g_bypassingValid[i] THEN BypassAt(i) ELSE NoRule
       /\ (\A i \in Index : ~Matches(i, v)) => RetaggingOf(v) = NoRule /\ BypassingOf(v) = NoRule

\* There is a first switch, from which the ingress VLAN is read.
LEMMA SwitchZero == 0 \in Switch
BY RetaggingAssumption DEF Switch

\* What the switches do with the frames of a VLAN follows from the flags of its
\* entry alone.
LEMMA MeaningHolds == RulesInv => Meaning
<1>. SUFFICES ASSUME RulesInv, NEW v \in Vlan
              PROVE  /\ \A i \in Index : Matches(i, v) =>
                           /\ RetaggingOf(v) = IF g_retaggingValid[i] THEN RuleAt(i) ELSE NoRule
                           /\ BypassingOf(v) = IF g_bypassingValid[i] THEN BypassAt(i) ELSE NoRule
                     /\ (\A i \in Index : ~Matches(i, v)) =>
                           RetaggingOf(v) = NoRule /\ BypassingOf(v) = NoRule
  BY DEF Meaning
<1>1. ValidFor(v) = {i \in Index : Matches(i, v)}
  BY SwitchZero DEF RulesInv, RetagInv, EntriesMatchFlags, ValidFor, Matches
<1>2. ASSUME NEW i \in Index, Matches(i, v)
      PROVE  /\ RetaggingOf(v) = IF g_retaggingValid[i] THEN RuleAt(i) ELSE NoRule
             /\ BypassingOf(v) = IF g_bypassingValid[i] THEN BypassAt(i) ELSE NoRule
  <2>1. ValidFor(v) = {i}
    BY <1>1, <1>2 DEF RulesInv, RetagInv, OneEntryPerVlan, Matches
  <2>2. Joined(i, "ingPort") # {} <=> g_retaggingValid[i]
    <3>1. ASSUME g_retaggingValid[i] PROVE Joined(i, "ingPort") # {}
      <4>1. RuleAt(i) \in Rule /\ RuleAt(i).ingressPorts = Joined(i, "ingPort")
        BY <3>1 DEF RulesInv, RuleAt
      <4>. QED
        BY <4>1, RetaggingAssumption
    <3>2. ASSUME ~g_retaggingValid[i] PROVE Joined(i, "ingPort") = {}
      BY <3>2 DEF Joined, RulesInv, RetagInv, EntriesMatchFlags
    <3>. QED
      BY <3>1, <3>2
  <2>3. (\A s \in Switch : entry[s][i].useDestports) <=> g_bypassingValid[i]
    BY SwitchZero DEF RulesInv, RetagInv, EntriesMatchFlags
  <2>4. {j \in ValidFor(v) : Joined(j, "ingPort") # {}} = IF g_retaggingValid[i] THEN {i} ELSE {}
    BY <2>1, <2>2
  <2>5. {j \in ValidFor(v) : \A s \in Switch : entry[s][j].useDestports}
           = IF g_bypassingValid[i] THEN {i} ELSE {}
    BY <2>1, <2>3
  <2>6. {i} # {} /\ (CHOOSE j \in {i} : TRUE) = i
    OBVIOUS
  <2>7. RetaggingOf(v) = IF g_retaggingValid[i] THEN RuleAt(i) ELSE NoRule
    BY <2>4, <2>6, Zenon DEF RetaggingOf, RuleAt
  <2>8. BypassingOf(v) = IF g_bypassingValid[i] THEN BypassAt(i) ELSE NoRule
    BY <2>5, <2>6, Zenon DEF BypassingOf, BypassAt
  <2>. QED
    BY <2>7, <2>8
<1>3. ASSUME \A i \in Index : ~Matches(i, v)
      PROVE  RetaggingOf(v) = NoRule /\ BypassingOf(v) = NoRule
  <2>1. ValidFor(v) = {}
    BY <1>1, <1>3
  <2>. QED
    BY <2>1 DEF RetaggingOf, BypassingOf
<1>. QED
  BY <1>2, <1>3

\* The same for the state after a step.
LEMMA MeaningHoldsNext == RulesInv' => Meaning'
BY MeaningHolds, PTL


-----------------------------------------------------------------------------
\* A step concerns VLAN v by entry i alone.
Concerns(v, i) ==
    /\ i \in Index /\ IsEntryOf(i, v)
    /\ \A j \in Index \ {i} : /\ g_retaggingValid'[j] = g_retaggingValid[j]
                              /\ g_bypassingValid'[j] = g_bypassingValid[j]
                              /\ \A s \in Switch : entry'[s][j] = entry[s][j]
                              /\ Used(j) => g_retaggingTableVlanId'[j] = g_retaggingTableVlanId[j]
    /\ Used(i)' => g_retaggingTableVlanId'[i] = v

\* The flags and the rules of the entry of v after the step.
Leaves(i, retag, rule, bypass, other) ==
    /\ retag \in BOOLEAN /\ bypass \in BOOLEAN
    /\ g_retaggingValid'[i] = retag /\ (retag => RuleAt(i)' = rule /\ rule \in Rule)
    /\ g_bypassingValid'[i] = bypass /\ (bypass => BypassAt(i)' = other /\ other \in Bypass)

\* What callers see of such a step: the rules of v, and no others, are changed.
Replaces(v, rule, other) ==
    \A w \in Vlan : /\ RetaggingOf(w)' = IF w = v THEN rule ELSE RetaggingOf(w)
                    /\ BypassingOf(w)' = IF w = v THEN other ELSE BypassingOf(w)

\* The rules of a VLAN are those at the entry that is or would be used for it.
LEMMA RulesOf ==
    ASSUME RulesInv, NEW v \in Vlan, NEW i \in Index, IsEntryOf(i, v)
    PROVE  /\ RetaggingOf(v) = IF g_retaggingValid[i] THEN RuleAt(i) ELSE NoRule
           /\ BypassingOf(v) = IF g_bypassingValid[i] THEN BypassAt(i) ELSE NoRule
<1>1. CASE Matches(i, v)
  BY <1>1, MeaningHolds DEF Meaning
<1>2. CASE ~Used(i) /\ \A j \in Index : ~Matches(j, v)
  BY <1>2, MeaningHolds DEF Meaning, Used
<1>. QED
  BY <1>1, <1>2 DEF IsEntryOf, IsFirstMatch, IsFirstFree

\* A step that concerns one entry keeps the invariant and replaces the rules of its VLAN.
LEMMA StepReplaces ==
    ASSUME RulesInv, RetagInv', NEW v \in Vlan, NEW i, Concerns(v, i),
           NEW retag, NEW rule, NEW bypass, NEW other, Leaves(i, retag, rule, bypass, other)
    PROVE  /\ RulesInv'
           /\ Replaces(v, IF retag THEN rule ELSE NoRule, IF bypass THEN other ELSE NoRule)
<1>1. i \in Index /\ IsEntryOf(i, v)
  BY DEF Concerns
<1>2. \A j \in Index \ {i} : /\ RuleAt(j)' = RuleAt(j) /\ BypassAt(j)' = BypassAt(j)
                             /\ Used(j)' <=> Used(j)
                             /\ \A w \in Vlan : Matches(j, w)' <=> Matches(j, w)
  <2>. SUFFICES ASSUME NEW j \in Index \ {i}
                PROVE  /\ RuleAt(j)' = RuleAt(j) /\ BypassAt(j)' = BypassAt(j)
                       /\ Used(j)' <=> Used(j)
                       /\ \A w \in Vlan : Matches(j, w)' <=> Matches(j, w)
    OBVIOUS
  <2>1. \A s \in Switch : entry'[s][j] = entry[s][j]
    BY DEF Concerns
  <2>2. /\ Joined(j, "ingPort")' = Joined(j, "ingPort") /\ Joined(j, "egrPort")' = Joined(j, "egrPort")
        /\ Joined(j, "destports")' = Joined(j, "destports")
    BY <2>1 DEF Joined
  <2>3. RuleAt(j)' = RuleAt(j) /\ BypassAt(j)' = BypassAt(j)
    BY <2>1, <2>2, SwitchZero DEF RuleAt, BypassAt
  <2>4. (Used(j)' <=> Used(j)) /\ \A w \in Vlan : Matches(j, w)' <=> Matches(j, w)
    BY DEF Concerns, Used, Matches
  <2>. QED
    BY <2>3, <2>4
<1>3. RulesInv'
  <2>1. ASSUME NEW j \in Index
        PROVE  /\ g_retaggingValid'[j] => RuleAt(j)' \in Rule
               /\ g_bypassingValid'[j] => BypassAt(j)' \in Bypass
    <3>1. CASE j = i
      BY <3>1 DEF Leaves
    <3>2. CASE j # i
      BY <1>2, <3>2 DEF Concerns, RulesInv
    <3>. QED
      BY <3>1, <3>2
  <2>. QED
    BY <2>1 DEF RulesInv
<1>4. ASSUME NEW w \in Vlan, w # v
      PROVE  RetaggingOf(w)' = RetaggingOf(w) /\ BypassingOf(w)' = BypassingOf(w)
  <2>1. ~Matches(i, w) /\ ~Matches(i, w)'
    BY <1>1, <1>4 DEF Concerns, IsEntryOf, IsFirstMatch, IsFirstFree, Matches
  <2>2. CASE \E j \in Index : Matches(j, w)
    <3>1. PICK j \in Index : Matches(j, w)
      BY <2>2
    <3>2. j # i /\ Matches(j, w)' /\ RuleAt(j)' = RuleAt(j) /\ BypassAt(j)' = BypassAt(j)
          /\ g_retaggingValid'[j] = g_retaggingValid[j] /\ g_bypassingValid'[j] = g_bypassingValid[j]
      BY <1>2, <2>1, <3>1 DEF Concerns
    <3>3. /\ RetaggingOf(w) = IF g_retaggingValid[j] THEN RuleAt(j) ELSE NoRule
          /\ BypassingOf(w) = IF g_bypassingValid[j] THEN BypassAt(j) ELSE NoRule
      BY <3>1, MeaningHolds DEF Meaning
    <3>4. /\ RetaggingOf(w)' = IF g_retaggingValid'[j] THEN RuleAt(j)' ELSE NoRule
          /\ BypassingOf(w)' = IF g_bypassingValid'[j] THEN BypassAt(j)' ELSE NoRule
      BY <1>3, <3>2, MeaningHoldsNext DEF Meaning
    <3>. QED
      BY <3>2, <3>3, <3>4
  <2>3. CASE \A j \in Index : ~Matches(j, w)
    <3>1. \A j \in Index : ~Matches(j, w)'
      BY <1>2, <2>1, <2>3
    <3>. QED
      BY <1>3, <2>3, <3>1, MeaningHolds, MeaningHoldsNext DEF Meaning
  <2>. QED
    BY <2>2, <2>3
<1>5. /\ RetaggingOf(v)' = IF retag THEN rule ELSE NoRule
      /\ BypassingOf(v)' = IF bypass THEN other ELSE NoRule
  <2>1. CASE Used(i)'
    <3>1. Matches(i, v)'
      BY <2>1 DEF Concerns, Matches
    <3>2. /\ RetaggingOf(v)' = IF g_retaggingValid'[i] THEN RuleAt(i)' ELSE NoRule
          /\ BypassingOf(v)' = IF g_bypassingValid'[i] THEN BypassAt(i)' ELSE NoRule
      BY <1>1, <1>3, <3>1, MeaningHoldsNext DEF Meaning
    <3>. QED
      BY <3>2 DEF Leaves
  <2>2. CASE ~Used(i)'
    <3>1. ~retag /\ ~bypass
      BY <2>2 DEF Used, Leaves
    <3>2. ASSUME NEW j \in Index, Matches(j, v)' PROVE FALSE
      <4>1. j # i
        BY <2>2, <3>2 DEF Matches
      <4>2. Matches(j, v)
        BY <1>2, <3>2, <4>1
      <4>3. Used(j) /\ g_retaggingTableVlanId[j] = v
        BY <4>2 DEF Matches
      <4>. QED
        BY <1>1, <4>1, <4>3, OnlyEntryForVlan DEF RulesInv, RetagInv
    <3>3. RetaggingOf(v)' = NoRule /\ BypassingOf(v)' = NoRule
      BY <1>3, <3>2, MeaningHoldsNext DEF Meaning
    <3>. QED
      BY <3>1, <3>3
  <2>. QED
    BY <2>1, <2>2
<1>6. Replaces(v, IF retag THEN rule ELSE NoRule, IF bypass THEN other ELSE NoRule)
  BY <1>4, <1>5 DEF Replaces
<1>. QED
  BY <1>3, <1>6

-----------------------------------------------------------------------------
(* Room *)

\* There is an entry for a VLAN just as long as the service has room for it.
LEMMA RoomIfEntry ==
    ASSUME RulesInv, NEW v \in Vlan
    PROVE  Service!HasRoom(v) <=> \E i \in Index : IsEntryOf(i, v)
<1>. DEFINE used == {i \in Index : Used(i)}
            ids == {g_retaggingTableVlanId[i] : i \in used}
<1>1. ASSUME NEW w \in Vlan
      PROVE  RetaggingOf(w) # NoRule \/ BypassingOf(w) # NoRule <=> \E i \in Index : Matches(i, w)
  <2>1. ASSUME NEW i \in Index, Matches(i, w)
        PROVE  RetaggingOf(w) # NoRule \/ BypassingOf(w) # NoRule
    <3>1. /\ RetaggingOf(w) = IF g_retaggingValid[i] THEN RuleAt(i) ELSE NoRule
          /\ BypassingOf(w) = IF g_bypassingValid[i] THEN BypassAt(i) ELSE NoRule
      BY <2>1, MeaningHolds DEF Meaning
    <3>2. g_retaggingValid[i] \/ g_bypassingValid[i]
      BY <2>1 DEF Matches, Used
    <3>. QED
      BY <3>1, <3>2, RetaggingAssumption DEF RulesInv
  <2>2. ASSUME \A i \in Index : ~Matches(i, w)
        PROVE  ~(RetaggingOf(w) # NoRule \/ BypassingOf(w) # NoRule)
    BY <2>2, MeaningHolds DEF Meaning
  <2>. QED
    BY <2>1, <2>2
<1>2. Service!InUse = {w \in Vlan : \E i \in Index : Matches(i, w)}
  BY <1>1 DEF Service!InUse
<1>3. Service!InUse = ids
  <2>1. \A i \in Index : g_retaggingTableVlanId[i] \in Vlan
    BY DEF RulesInv, RetagInv, TypeOK
  <2>. QED
    BY <1>2, <2>1 DEF Matches
<1>4. IsFiniteSet(Index) /\ Cardinality(Index) = NEntries /\ NEntries \in Nat
  <2>1. NEntries \in Nat /\ 0 \in Int /\ NEntries - 1 \in Int
    BY RetaggingAssumption
  <2>2. IsFiniteSet(0 .. NEntries - 1)
        /\ Cardinality(0 .. NEntries - 1) = IF 0 > NEntries - 1 THEN 0 ELSE NEntries - 1 - 0 + 1
    BY <2>1, FS_Interval
  <2>. QED
    BY <2>1, <2>2 DEF Index
<1>5. used \in SUBSET Index
  OBVIOUS
<1>6. IsFiniteSet(used) /\ Cardinality(used) \in Nat
  BY <1>4, <1>5, FS_Subset, FS_CardinalityType
<1>7. Cardinality(used) = NEntries <=> used = Index
  <2>1. ASSUME used # Index PROVE Cardinality(used) < NEntries
    <3>1. PICK i \in Index : i \notin used
      BY <2>1
    <3>2. Cardinality(used \cup {i}) = Cardinality(used) + 1
      <4>1. IsFiniteSet(used) /\ i \notin used
        BY <1>6, <3>1
      <4>. HIDE DEF used
      <4>. QED
        BY <4>1, FS_AddElement
    <3>3. used \cup {i} \in SUBSET Index
      OBVIOUS
    <3>4. Cardinality(used \cup {i}) <= Cardinality(Index)
      BY <1>4, <3>3, FS_Subset
    <3>. HIDE DEF used
    <3>. QED
      BY <1>4, <1>6, <3>2, <3>4
  <2>. HIDE DEF used
  <2>. QED
    BY <1>4, <1>6, <2>1
<1>8. IsFiniteSet(ids) /\ Cardinality(ids) = Cardinality(used)
  <2>. DEFINE f == [i \in used |-> g_retaggingTableVlanId[i]]
  <2>1. \A i, j \in used : g_retaggingTableVlanId[i] = g_retaggingTableVlanId[j] => i = j
    BY DEF RulesInv, RetagInv, OneEntryPerVlan
  <2>2. f \in [used -> ids] /\ \A x \in ids : \E i \in used : f[i] = x
    OBVIOUS
  <2>3. \A i, j \in used : f[i] = f[j] => i = j
    BY <2>1
  <2>. HIDE DEF f, used, ids
  <2>4. f \in Bijection(used, ids)
    BY <2>2, <2>3, Fun_IsBij, Zenon
  <2>5. ExistsBijection(used, ids)
    BY <2>4 DEF ExistsBijection
  <2>. QED
    BY <1>6, <2>5, FS_Bijection
<1>9. Cardinality(used) <= NEntries
  BY <1>4, <1>5, FS_Subset
<1>10. (\E i \in Index : IsEntryOf(i, v)) => v \in ids \/ used # Index
  BY DEF IsEntryOf, IsFirstMatch, IsFirstFree, Matches
<1>11. ASSUME v \in ids \/ used # Index
      PROVE  \E i \in Index : IsEntryOf(i, v)
  <2>. DEFINE found == {i \in Index : Matches(i, v)}
              free == {i \in Index : ~Used(i)}
  <2>1. Index \subseteq Nat /\ \A i, j \in Index : j < i => ~(i <= j)
    BY DEF Index
  <2>2. CASE found # {}
    <3>1. PICK i \in found : \A j \in found : i <= j
      BY <2>1, <2>2, LeastElement
    <3>. QED
      BY <2>1, <3>1 DEF IsEntryOf, IsFirstMatch
  <2>3. CASE found = {}
    <3>1. free # {}
      BY <1>11, <2>3 DEF Matches
    <3>2. PICK i \in free : \A j \in free : i <= j
      BY <2>1, <3>1, LeastElement
    <3>. QED
      BY <2>1, <2>3, <3>2 DEF IsEntryOf, IsFirstFree
  <2>. QED
    BY <2>2, <2>3
<1>12. Service!HasRoom(v) <=> v \in ids \/ used # Index
  <2>. HIDE DEF used, ids
  <2>. QED
    <3>1. Service!HasRoom(v) <=> v \in ids \/ Cardinality(ids) < NEntries
      <4>1. Service!HasRoom(v) <=> v \in Service!InUse \/ Service!Cardinality(Service!InUse) < NEntries
        BY DEF Service!HasRoom
      <4>2. Service!Cardinality(ids) = Cardinality(ids)
        BY Zenon DEF Service!Cardinality, Cardinality
      <4>3. (Service!InUse = ids) => (Service!HasRoom(v) <=> v \in ids \/ Service!Cardinality(ids) < NEntries)
        BY <4>1
      <4>4. Service!HasRoom(v) <=> v \in ids \/ Service!Cardinality(ids) < NEntries
        BY <1>3, <4>3, Zenon
      <4>. QED
        BY <4>2, <4>4
    <3>2. Cardinality(ids) < NEntries <=> used # Index
      BY <1>4, <1>6, <1>7, <1>8, <1>9
    <3>. QED
      BY <3>1, <3>2
<1>. QED
  BY <1>10, <1>11, <1>12

-----------------------------------------------------------------------------
(* Operations as steps of the service *)

\* The ports of a rule, divided between the switches, are together its ports.
LEMMA PortsOfSwitches ==
    ASSUME NEW ports \in SUBSET Port
    PROVE  UNION {ports \cap LocalPorts(s) : s \in Switch} = ports
<1>1. \A p \in ports : SwitchOf[p] \in Switch /\ p \in LocalPorts(SwitchOf[p])
  BY RetaggingAssumption DEF Switch, LocalPorts
<1>. QED
  BY <1>1

\* The entry and the flags after an update.
Updated(i, e, retag, bypass) ==
    /\ g_retaggingValid'[i] = retag /\ g_bypassingValid'[i] = bypass
    /\ \A s \in Switch : entry'[s][i] = e[s]

\* An update of the entry for a VLAN concerns this VLAN alone.
LEMMA UpdateConcerns ==
    ASSUME RetagInv, NEW v \in Vlan, NEW i \in Index, IsEntryOf(i, v),
           NEW e, NEW ids, NEW retag \in BOOLEAN, NEW bypass \in BOOLEAN,
           Updates(i, e, ids, retag, bypass),
           NEW used \in BOOLEAN, retag => used, bypass => used,
           Remembers(ids, v, i, used)
    PROVE  Concerns(v, i) /\ Updated(i, e, retag, bypass)
<1>1. /\ g_retaggingValid'[i] = retag /\ g_bypassingValid'[i] = bypass
      /\ \A s \in Switch : entry'[s][i] = e[s]
      /\ \A j \in Index \ {i} : /\ g_retaggingValid'[j] = g_retaggingValid[j]
                                /\ g_bypassingValid'[j] = g_bypassingValid[j]
                                /\ \A s \in Switch : entry'[s][j] = entry[s][j]
  BY DEF RetagInv, TypeOK, Updates
<1>2. \A j \in Index \ {i} : Used(j) => g_retaggingTableVlanId'[j] = g_retaggingTableVlanId[j]
  BY ClaimedIds DEF RetagInv, Updates, Remembers
<1>3. Used(i)' => g_retaggingTableVlanId'[i] = v
  BY <1>1 DEF Used, Updates, Remembers
<1>4. Concerns(v, i)
  BY <1>1, <1>2, <1>3 DEF Concerns
<1>. QED
  BY <1>1, <1>4 DEF Updated

\* The rules of one VLAN replaced: what this is for the variables of the service.
LEMMA ReplacesMaps ==
    ASSUME NEW v \in Vlan, NEW rule, NEW other, Replaces(v, rule, other)
    PROVE  /\ [w \in Vlan |-> RetaggingOf(w)]' = [[w \in Vlan |-> RetaggingOf(w)] EXCEPT ![v] = rule]
           /\ [w \in Vlan |-> BypassingOf(w)]' = [[w \in Vlan |-> BypassingOf(w)] EXCEPT ![v] = other]
BY DEF Replaces

\* Starting to retag: the VLAN gets the rule, and keeps its bypassing rule.
LEMMA StartRefines ==
    ASSUME RulesInv, NEW v \in Vlan, NEW r \in Rule, StartRetagging(v, r, {})
    PROVE  RulesInv' /\ Service!Start(v, r)
<1>1. PICK i \in Index :
        /\ IsEntryOf(i, v)
        /\ entry' = [s \in Switch |-> [entry[s] EXCEPT ![i] =
               [entry[s][i] EXCEPT !.valident = TRUE,
                         !.vlanIng = r.ingressVlanId, !.vlanEgr = v,
                         !.ingPort = r.ingressPorts \cap LocalPorts(s),
                         !.egrPort = r.egressPorts \cap LocalPorts(s)]]]
        /\ g_retaggingTableVlanId' = Claimed(v)
        /\ g_retaggingValid' = [g_retaggingValid EXCEPT ![i] = TRUE]
        /\ UNCHANGED g_bypassingValid
  BY DEF StartRetagging, Stored, Flag
<1>. DEFINE e == [s \in Switch |->
               [entry[s][i] EXCEPT !.valident = TRUE,
                         !.vlanIng = r.ingressVlanId, !.vlanEgr = v,
                         !.ingPort = r.ingressPorts \cap LocalPorts(s),
                         !.egrPort = r.egressPorts \cap LocalPorts(s)]]
<1>0. PICK on \in BOOLEAN : on
  OBVIOUS
<1>2. RetagInv /\ RetagInv'
  BY StartPreserves DEF RulesInv
<1>3. \A s \in Switch : /\ entry[s][i] \in Entry
                        /\ e[s].ingPort = r.ingressPorts \cap LocalPorts(s)
                        /\ e[s].egrPort = r.egressPorts \cap LocalPorts(s)
                        /\ e[s].vlanIng = r.ingressVlanId
                        /\ e[s].destports = entry[s][i].destports
                        /\ e[s].doNotLearn = entry[s][i].doNotLearn
  BY <1>2, EntryOf, ZenonT(60) DEF Entry
<1>4. entry' = [s \in Switch |-> [entry[s] EXCEPT ![i] = e[s]]]
  BY <1>1
<1>. HIDE DEF e
<1>5. g_bypassingValid[i] \in BOOLEAN
  BY <1>2, EntryOf
<1>6. Updates(i, e, Claimed(v), on, g_bypassingValid[i])
  BY <1>0, <1>1, <1>2, <1>4 DEF Updates, RetagInv, TypeOK
<1>7. Remembers(Claimed(v), v, i, on)
  BY <1>1, <1>2, ClaimedIds DEF RetagInv, Remembers
<1>8. /\ Concerns(v, i)
      /\ g_retaggingValid'[i] = on /\ g_bypassingValid'[i] = g_bypassingValid[i]
      /\ \A s \in Switch : entry'[s][i] = e[s]
  <2>1. RetagInv /\ IsEntryOf(i, v) /\ i \in Index /\ v \in Vlan /\ on \in BOOLEAN
    BY <1>1, <1>2
  <2>2. Concerns(v, i) /\ Updated(i, e, on, g_bypassingValid[i])
    BY <1>0, <1>5, <1>6, <1>7, <2>1, UpdateConcerns, Zenon
  <2>. QED
    BY <2>2 DEF Updated
<1>9. RuleAt(i)' = r
  <2>1. r = [ingressPorts |-> r.ingressPorts, egressPorts |-> r.egressPorts,
             ingressVlanId |-> r.ingressVlanId]
        /\ r.ingressPorts \in SUBSET Port /\ r.egressPorts \in SUBSET Port
    BY RetaggingAssumption
  <2>2. /\ UNION {e[s].ingPort : s \in Switch} = UNION {r.ingressPorts \cap LocalPorts(s) : s \in Switch}
        /\ UNION {e[s].egrPort : s \in Switch} = UNION {r.egressPorts \cap LocalPorts(s) : s \in Switch}
    BY <1>3
  <2>3. /\ UNION {e[s].ingPort : s \in Switch} = r.ingressPorts
        /\ UNION {e[s].egrPort : s \in Switch} = r.egressPorts
    BY <2>1, <2>2, PortsOfSwitches
  <2>4. /\ Joined(i, "ingPort")' = UNION {e[s].ingPort : s \in Switch}
        /\ Joined(i, "egrPort")' = UNION {e[s].egrPort : s \in Switch}
    BY <1>8 DEF Joined
  <2>5. entry'[0][i].vlanIng = r.ingressVlanId
    BY <1>3, <1>8, SwitchZero
  <2>. QED
    BY <2>1, <2>3, <2>4, <2>5 DEF RuleAt
<1>10. BypassAt(i)' = BypassAt(i)
  <2>1. Joined(i, "destports")' = Joined(i, "destports")
    BY <1>3, <1>8 DEF Joined
  <2>2. entry'[0][i].doNotLearn = entry[0][i].doNotLearn
    BY <1>3, <1>8, SwitchZero
  <2>. QED
    BY <2>1, <2>2 DEF BypassAt
<1>11. Leaves(i, on, r, g_bypassingValid[i], BypassAt(i))
  BY <1>0, <1>5, <1>8, <1>9, <1>10 DEF Leaves, RulesInv
<1>12. /\ RulesInv'
       /\ Replaces(v, IF on THEN r ELSE NoRule,
                      IF g_bypassingValid[i] THEN BypassAt(i) ELSE NoRule)
  BY <1>2, <1>8, <1>11, StepReplaces
<1>13. Replaces(v, r, BypassingOf(v))
  BY <1>0, <1>1, <1>12, RulesOf
<1>14. Service!HasRoom(v)
  BY <1>1, RoomIfEntry
<1>15. Service!Start(v, r)
  <2>1. /\ [w \in Vlan |-> RetaggingOf(w)]' = [[w \in Vlan |-> RetaggingOf(w)] EXCEPT ![v] = r]
        /\ [w \in Vlan |-> BypassingOf(w)]'
             = [[w \in Vlan |-> BypassingOf(w)] EXCEPT ![v] = BypassingOf(v)]
    BY <1>13, ReplacesMaps
  <2>2. [w \in Vlan |-> BypassingOf(w)]' = [w \in Vlan |-> BypassingOf(w)]
    BY <2>1
  <2>. QED
    BY <1>14, <2>1, <2>2 DEF Service!Start
<1>. QED
  BY <1>12, <1>15

\* Starting to bypass: the VLAN gets the rule, and keeps its retagging rule.
LEMMA EnableRefines ==
    ASSUME RulesInv, NEW v \in Vlan, NEW b \in Bypass, EnableBypassing(v, b, {})
    PROVE  RulesInv' /\ Service!Enable(v, b)
<1>1. PICK i \in Index :
        /\ IsEntryOf(i, v)
        /\ entry' = [s \in Switch |-> [entry[s] EXCEPT ![i] =
               [entry[s][i] EXCEPT !.valident = TRUE, !.vlanEgr = v,
                         !.doNotLearn = b.learningDisabled,
                         !.useDestports = TRUE,
                         !.destports = b.destPorts \cap LocalPorts(s)]]]
        /\ g_retaggingTableVlanId' = Claimed(v)
        /\ g_bypassingValid' = [g_bypassingValid EXCEPT ![i] = TRUE]
        /\ UNCHANGED g_retaggingValid
  BY DEF EnableBypassing, Stored, Flag
<1>. DEFINE e == [s \in Switch |->
               [entry[s][i] EXCEPT !.valident = TRUE, !.vlanEgr = v,
                         !.doNotLearn = b.learningDisabled,
                         !.useDestports = TRUE,
                         !.destports = b.destPorts \cap LocalPorts(s)]]
<1>0. PICK on \in BOOLEAN : on
  OBVIOUS
<1>2. RetagInv /\ RetagInv'
  BY EnableRulePreserves DEF RulesInv
<1>3. \A s \in Switch : /\ entry[s][i] \in Entry
                        /\ e[s].destports = b.destPorts \cap LocalPorts(s)
                        /\ e[s].doNotLearn = b.learningDisabled
                        /\ e[s].ingPort = entry[s][i].ingPort
                        /\ e[s].egrPort = entry[s][i].egrPort
                        /\ e[s].vlanIng = entry[s][i].vlanIng
  BY <1>2, EntryOf, ZenonT(30) DEF Entry
<1>4. entry' = [s \in Switch |-> [entry[s] EXCEPT ![i] = e[s]]]
  BY <1>1
<1>. HIDE DEF e
<1>5. g_retaggingValid[i] \in BOOLEAN
  BY <1>2, EntryOf
<1>6. Updates(i, e, Claimed(v), g_retaggingValid[i], on)
  BY <1>0, <1>1, <1>2, <1>4 DEF Updates, RetagInv, TypeOK
<1>7. Remembers(Claimed(v), v, i, on)
  BY <1>1, <1>2, ClaimedIds DEF RetagInv, Remembers
<1>8. /\ Concerns(v, i)
      /\ g_retaggingValid'[i] = g_retaggingValid[i] /\ g_bypassingValid'[i] = on
      /\ \A s \in Switch : entry'[s][i] = e[s]
  <2>1. RetagInv /\ IsEntryOf(i, v) /\ i \in Index /\ v \in Vlan /\ on \in BOOLEAN
    BY <1>1, <1>2
  <2>2. Concerns(v, i) /\ Updated(i, e, g_retaggingValid[i], on)
    BY <1>0, <1>5, <1>6, <1>7, <2>1, UpdateConcerns, Zenon
  <2>. QED
    BY <2>2 DEF Updated
<1>9. BypassAt(i)' = b
  <2>1. b = [destPorts |-> b.destPorts, learningDisabled |-> b.learningDisabled]
        /\ b.destPorts \in SUBSET Port
    BY RetaggingAssumption
  <2>2. UNION {e[s].destports : s \in Switch} = UNION {b.destPorts \cap LocalPorts(s) : s \in Switch}
    BY <1>3
  <2>3. UNION {e[s].destports : s \in Switch} = b.destPorts
    BY <2>1, <2>2, PortsOfSwitches
  <2>4. Joined(i, "destports")' = UNION {e[s].destports : s \in Switch}
    BY <1>8 DEF Joined
  <2>5. entry'[0][i].doNotLearn = b.learningDisabled
    BY <1>3, <1>8, SwitchZero
  <2>. QED
    BY <2>1, <2>3, <2>4, <2>5 DEF BypassAt
<1>10. RuleAt(i)' = RuleAt(i)
  <2>1. Joined(i, "ingPort")' = Joined(i, "ingPort") /\ Joined(i, "egrPort")' = Joined(i, "egrPort")
    BY <1>3, <1>8 DEF Joined
  <2>2. entry'[0][i].vlanIng = entry[0][i].vlanIng
    BY <1>3, <1>8, SwitchZero
  <2>. QED
    BY <2>1, <2>2 DEF RuleAt
<1>11. Leaves(i, g_retaggingValid[i], RuleAt(i), on, b)
  BY <1>0, <1>5, <1>8, <1>9, <1>10 DEF Leaves, RulesInv
<1>12. /\ RulesInv'
       /\ Replaces(v, IF g_retaggingValid[i] THEN RuleAt(i) ELSE NoRule,
                      IF on THEN b ELSE NoRule)
  BY <1>2, <1>8, <1>11, StepReplaces
<1>13. Replaces(v, RetaggingOf(v), b)
  BY <1>0, <1>1, <1>12, RulesOf
<1>14. Service!HasRoom(v)
  BY <1>1, RoomIfEntry
<1>15. Service!Enable(v, b)
  <2>1. /\ [w \in Vlan |-> RetaggingOf(w)]'
             = [[w \in Vlan |-> RetaggingOf(w)] EXCEPT ![v] = RetaggingOf(v)]
        /\ [w \in Vlan |-> BypassingOf(w)]' = [[w \in Vlan |-> BypassingOf(w)] EXCEPT ![v] = b]
    BY <1>13, ReplacesMaps
  <2>2. [w \in Vlan |-> RetaggingOf(w)]' = [w \in Vlan |-> RetaggingOf(w)]
    BY <2>1
  <2>. QED
    BY <1>14, <2>1, <2>2 DEF Service!Enable
<1>. QED
  BY <1>12, <1>15

\* Stopping to retag: the VLAN loses its rule, and keeps its bypassing rule.
LEMMA StopRefines ==
    ASSUME RulesInv, NEW v \in Vlan, StopRetagging(v, {})
    PROVE  RulesInv' /\ Service!Stop(v)
<1>1. PICK i \in Index :
        /\ IsEntryOf(i, v)
        /\ entry' = [s \in Switch |-> [entry[s] EXCEPT ![i] =
               [entry[s][i] EXCEPT !.valident = g_bypassingValid[i],
                         !.ingPort = {}, !.egrPort = {}]]]
        /\ g_retaggingTableVlanId' = Remembered(v, i, g_bypassingValid[i])
        /\ g_retaggingValid' = [g_retaggingValid EXCEPT ![i] = FALSE]
        /\ UNCHANGED g_bypassingValid
  BY DEF StopRetagging, Stored, Flag
<1>. DEFINE e == [s \in Switch |->
               [entry[s][i] EXCEPT !.valident = g_bypassingValid[i],
                         !.ingPort = {}, !.egrPort = {}]]
<1>0. PICK off \in BOOLEAN : ~off
  OBVIOUS
<1>2. RetagInv /\ RetagInv'
  BY StopPreserves DEF RulesInv
<1>3. \A s \in Switch : /\ entry[s][i] \in Entry
                        /\ e[s].destports = entry[s][i].destports
                        /\ e[s].doNotLearn = entry[s][i].doNotLearn
  BY <1>2, EntryOf, ZenonT(30) DEF Entry
<1>4. entry' = [s \in Switch |-> [entry[s] EXCEPT ![i] = e[s]]]
  BY <1>1
<1>. HIDE DEF e
<1>5. g_bypassingValid[i] \in BOOLEAN
  BY <1>2, EntryOf
<1>6. Updates(i, e, Remembered(v, i, g_bypassingValid[i]), off, g_bypassingValid[i])
  BY <1>0, <1>1, <1>2, <1>4 DEF Updates, RetagInv, TypeOK
<1>7. Remembers(Remembered(v, i, g_bypassingValid[i]), v, i, g_bypassingValid[i])
  BY <1>1, <1>2, <1>5, RememberedIds
<1>8. /\ Concerns(v, i)
      /\ g_retaggingValid'[i] = off /\ g_bypassingValid'[i] = g_bypassingValid[i]
      /\ \A s \in Switch : entry'[s][i] = e[s]
  <2>1. RetagInv /\ IsEntryOf(i, v) /\ i \in Index /\ v \in Vlan /\ off \in BOOLEAN
    BY <1>1, <1>2
  <2>2. Concerns(v, i) /\ Updated(i, e, off, g_bypassingValid[i])
    BY <1>0, <1>5, <1>6, <1>7, <2>1, UpdateConcerns, Zenon
  <2>. QED
    BY <2>2 DEF Updated
<1>10. BypassAt(i)' = BypassAt(i)
  <2>1. Joined(i, "destports")' = Joined(i, "destports")
    BY <1>3, <1>8 DEF Joined
  <2>2. entry'[0][i].doNotLearn = entry[0][i].doNotLearn
    BY <1>3, <1>8, SwitchZero
  <2>. QED
    BY <2>1, <2>2 DEF BypassAt
<1>11. Leaves(i, off, NoRule, g_bypassingValid[i], BypassAt(i))
  BY <1>0, <1>5, <1>8, <1>10 DEF Leaves, RulesInv
<1>12. /\ RulesInv'
       /\ Replaces(v, IF off THEN NoRule ELSE NoRule,
                      IF g_bypassingValid[i] THEN BypassAt(i) ELSE NoRule)
  BY <1>2, <1>8, <1>11, StepReplaces
<1>13. Replaces(v, NoRule, BypassingOf(v))
  BY <1>0, <1>1, <1>12, RulesOf
<1>14. Service!Stop(v)
  <2>1. /\ [w \in Vlan |-> RetaggingOf(w)]' = [[w \in Vlan |-> RetaggingOf(w)] EXCEPT ![v] = NoRule]
        /\ [w \in Vlan |-> BypassingOf(w)]'
             = [[w \in Vlan |-> BypassingOf(w)] EXCEPT ![v] = BypassingOf(v)]
    BY <1>13, ReplacesMaps
  <2>2. [w \in Vlan |-> BypassingOf(w)]' = [w \in Vlan |-> BypassingOf(w)]
    BY <2>1
  <2>. QED
    BY <2>1, <2>2 DEF Service!Stop
<1>. QED
  BY <1>12, <1>14

\* Stopping to bypass: the VLAN loses its rule, and keeps its retagging rule.
LEMMA DisableRefines ==
    ASSUME RulesInv, NEW v \in Vlan, DisableBypassing(v, {})
    PROVE  RulesInv' /\ Service!Disable(v)
<1>1. PICK i \in Index :
        /\ IsEntryOf(i, v)
        /\ entry' = [s \in Switch |-> [entry[s] EXCEPT ![i] =
               [entry[s][i] EXCEPT !.valident = g_retaggingValid[i],
                         !.doNotLearn = FALSE, !.useDestports = FALSE]]]
        /\ g_retaggingTableVlanId' = Remembered(v, i, g_retaggingValid[i])
        /\ g_bypassingValid' = [g_bypassingValid EXCEPT ![i] = FALSE]
        /\ UNCHANGED g_retaggingValid
  BY DEF DisableBypassing, Stored, Flag
<1>. DEFINE e == [s \in Switch |->
               [entry[s][i] EXCEPT !.valident = g_retaggingValid[i],
                         !.doNotLearn = FALSE, !.useDestports = FALSE]]
<1>0. PICK off \in BOOLEAN : ~off
  OBVIOUS
<1>2. RetagInv /\ RetagInv'
  BY DisablePreserves DEF RulesInv
<1>3. \A s \in Switch : /\ entry[s][i] \in Entry
                        /\ e[s].ingPort = entry[s][i].ingPort
                        /\ e[s].egrPort = entry[s][i].egrPort
                        /\ e[s].vlanIng = entry[s][i].vlanIng
  BY <1>2, EntryOf, ZenonT(30) DEF Entry
<1>4. entry' = [s \in Switch |-> [entry[s] EXCEPT ![i] = e[s]]]
  BY <1>1
<1>. HIDE DEF e
<1>5. g_retaggingValid[i] \in BOOLEAN
  BY <1>2, EntryOf
<1>6. Updates(i, e, Remembered(v, i, g_retaggingValid[i]), g_retaggingValid[i], off)
  BY <1>0, <1>1, <1>2, <1>4 DEF Updates, RetagInv, TypeOK
<1>7. Remembers(Remembered(v, i, g_retaggingValid[i]), v, i, g_retaggingValid[i])
  BY <1>1, <1>2, <1>5, RememberedIds
<1>8. /\ Concerns(v, i)
      /\ g_retaggingValid'[i] = g_retaggingValid[i] /\ g_bypassingValid'[i] = off
      /\ \A s \in Switch : entry'[s][i] = e[s]
  <2>1. RetagInv /\ IsEntryOf(i, v) /\ i \in Index /\ v \in Vlan /\ off \in BOOLEAN
    BY <1>1, <1>2
  <2>2. Concerns(v, i) /\ Updated(i, e, g_retaggingValid[i], off)
    BY <1>0, <1>5, <1>6, <1>7, <2>1, UpdateConcerns, Zenon
  <2>. QED
    BY <2>2 DEF Updated
<1>10. RuleAt(i)' = RuleAt(i)
  <2>1. Joined(i, "ingPort")' = Joined(i, "ingPort") /\ Joined(i, "egrPort")' = Joined(i, "egrPort")
    BY <1>3, <1>8 DEF Joined
  <2>2. entry'[0][i].vlanIng = entry[0][i].vlanIng
    BY <1>3, <1>8, SwitchZero
  <2>. QED
    BY <2>1, <2>2 DEF RuleAt
<1>11. Leaves(i, g_retaggingValid[i], RuleAt(i), off, NoRule)
  BY <1>0, <1>5, <1>8, <1>10 DEF Leaves, RulesInv
<1>12. /\ RulesInv'
       /\ Replaces(v, IF g_retaggingValid[i] THEN RuleAt(i) ELSE NoRule,
                      IF off THEN NoRule ELSE NoRule)
  BY <1>2, <1>8, <1>11, StepReplaces
<1>13. Replaces(v, RetaggingOf(v), NoRule)
  BY <1>0, <1>1, <1>12, RulesOf
<1>14. Service!Disable(v)
  <2>1. /\ [w \in Vlan |-> RetaggingOf(w)]'
             = [[w \in Vlan |-> RetaggingOf(w)] EXCEPT ![v] = RetaggingOf(v)]
        /\ [w \in Vlan |-> BypassingOf(w)]' = [[w \in Vlan |-> BypassingOf(w)] EXCEPT ![v] = NoRule]
    BY <1>13, ReplacesMaps
  <2>2. [w \in Vlan |-> RetaggingOf(w)]' = [w \in Vlan |-> RetaggingOf(w)]
    BY <2>1
  <2>. QED
    BY <2>1, <2>2 DEF Service!Disable
<1>. QED
  BY <1>12, <1>14

-----------------------------------------------------------------------------
\* As long as no switch reports an error, the entries shared by two kinds of
\* rules are, for callers, one rule of each kind per VLAN, as long as there are
\* entries.
THEOREM EntriesServeVlans ==
    ~StoreErrors => (Spec => ImplementsRetagService)
<1>. SUFFICES ASSUME ~StoreErrors PROVE Spec => ImplementsRetagService
  OBVIOUS
<1>1. Init => RetagInv
  BY RetaggingAssumption
     DEF Init, RetagInv, TypeOK, Entry, OneEntryPerVlan, EntriesMatchFlags, Used
<1>2. Init => RulesInv
  BY <1>1 DEF Init, RulesInv
<1>3. Init => Service!Init
  <2>. SUFFICES ASSUME Init PROVE Service!Init
    OBVIOUS
  <2>1. \A i \in Index : ~Used(i)
    BY DEF Init, Used
  <2>2. \A v \in Vlan : RetaggingOf(v) = NoRule /\ BypassingOf(v) = NoRule
    BY <1>2, <2>1, MeaningHolds DEF Meaning, Matches
  <2>. QED
    BY <2>2 DEF Service!Init
<1>4. RulesInv /\ [Next]_vars => RulesInv' /\ [Service!Next]_(Service!vars)
  <2>. SUFFICES ASSUME RulesInv, [Next]_vars
                PROVE  RulesInv' /\ [Service!Next]_(Service!vars)
    OBVIOUS
  <2>0. StoreFailure = {{}}
    BY DEF StoreFailure
  <2>1. CASE Start
    BY <2>0, <2>1, StartRefines DEF Start, Service!Next
  <2>2. CASE Stop
    BY <2>0, <2>2, StopRefines DEF Stop, Service!Next
  <2>3. CASE Enable
    BY <2>0, <2>3, EnableRefines DEF Enable, Service!Next
  <2>4. CASE Disable
    BY <2>0, <2>4, DisableRefines DEF Disable, Service!Next
  <2>5. CASE UNCHANGED vars
    <3>1. UNCHANGED <<g_retaggingTableVlanId, g_retaggingValid, g_bypassingValid, entry>>
      BY <2>5 DEF vars
    <3>2. RulesInv'
      BY <3>1 DEF RulesInv, RetagInv, TypeOK, OneEntryPerVlan, EntriesMatchFlags, Used,
                  RuleAt, BypassAt, Joined
    <3>3. Service!vars' = Service!vars
      BY <3>1 DEF Service!vars, RetaggingOf, BypassingOf, ValidFor, Joined
    <3>. QED
      BY <3>2, <3>3
  <2>. QED
    BY <2>1, <2>2, <2>3, <2>4, <2>5 DEF Next, Refuse, OutOfEntries
<1>. QED
  BY <1>2, <1>3, <1>4, PTL DEF Spec, ImplementsRetagService, Service!Spec
-----------------------------------------------------------------------------
(* All services of a line *)

\* The services of a line share no state: what a line does is, for each of them, what
\* its own specification allows, so the theorems about one hold in the line.
THEOREM ServicesAreIndependent ==
    MCSpec => Spec /\ VlanSpec /\ PtpSpec /\ CbsSpec /\ LinksSpec /\ StampSpec
<1>1. MCInit => Init /\ VlanInit /\ PtpInit /\ CbsInit /\ LinksInit /\ StampInit
  BY DEF MCInit
<1>2. [MCNext]_servicesVars => /\ [Next]_vars /\ [VlanNext]_vlanVars /\ [PtpNext]_ptpVars
                               /\ [CbsNext]_cbsVars /\ [LinksNext]_linksVars
                               /\ [StampNext]_stampVars
  BY DEF MCNext, servicesVars
<1>. QED
  BY <1>1, <1>2, PTL DEF MCSpec, Spec, VlanSpec, PtpSpec, CbsSpec, LinksSpec, StampSpec

\* The variables of all services have their types, whatever switches report errors,
\* however many of them are masters and however ports are numbered.
THEOREM ServicesTypeCorrect == MCSpec => []ServicesTypeOK
<1>1. VlanSpec => [](VlanTypeOK /\ VlanConnects)
  BY VlansConnect
<1>2. TypeOK /\ VlanTypeOK /\ PtpTypeOK /\ CbsTypeOK /\ LinksTypeOK /\ StampTypeOK
          => ServicesTypeOK
  BY DEF ServicesTypeOK
<1>. QED
  BY <1>1, <1>2, ShapersTyped, ServicesAreIndependent, RetagTypeCorrect, PtpTypeCorrect,
     PortsFollowLinks, TimeStampsExact, PTL
=============================================================================
