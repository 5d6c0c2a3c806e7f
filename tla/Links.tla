------------------------------- MODULE Links --------------------------------
(* How ports follow the speed of their links: the callback of the PHY layer   *)
(* (sja1105p_switchdev.c) and the clocks and pads it sets up                  *)
(* (NXP_SJA1105P_portConfig.c).                                              *)
EXTENDS Integers, FiniteSets

CONSTANTS XmiiMode,       \* physical port -> its interface
          Cascading,      \* ports that lead to another switch
          Unstable,       \* ports that do not bear the internal delay
          Faster,         \* ports whose PHY knows speeds the switch does not
          ConfiguredSpeed \* physical port -> speed in the static configuration

Speeds == {10, 100, 1000}
SpeedUnknown == -1  \* any speed the switch does not support

ASSUME LinksAssumption ==
    /\ \A p \in DOMAIN XmiiMode :
          XmiiMode[p] \in {"MII_MAC", "MII_PHY", "RMII_MAC", "RMII_PHY", "RGMII", "SGMII"}
    /\ ConfiguredSpeed \in [DOMAIN XmiiMode -> Speeds]

VARIABLES link,     \* port -> what the bridge knows: link state and speed
          macSpeed, \* port -> speed of the MAC
          idiv,     \* port -> its divider: powered down, and what it divides by
          clksrc,   \* port -> source of its transmit clock
          rxDelay,  \* port -> the receive delay is in use
          g_pll1Enabled, \* 1 if PLL1 runs
          phy,      \* port -> the PHY: link and speed
          pending   \* ports whose PHY has changed since the callback

linksVars == <<link, macSpeed, idiv, clksrc, rxDelay, g_pll1Enabled, phy, pending>>

LinkPorts == DOMAIN XmiiMode

Divider(pd, by) == [pd |-> pd, by |-> by]

(* Mutated form of the next definition: the divider is left alone at 100 Mbps. *)
RgmiiDividerKept(p, speed, old) == IF speed = 100 THEN old ELSE Divider(speed = 1000, 10)
RgmiiDivider(p, speed, old) ==
    IF speed = 1000 THEN Divider(TRUE, 10) ELSE Divider(FALSE, IF speed = 100 THEN 1 ELSE 10)

(* configPort: the divider of the port, given what it is so far.  Speeds at which *)
(* it is not written are those of the interfaces in KeepsDivider.                 *)
KeepsDivider(p, speed) ==
    \/ XmiiMode[p] = "MII_PHY" /\ speed # 10
    \/ XmiiMode[p] = "SGMII" /\ speed = 100

ConfigDivider(p, speed, old) ==
    IF KeepsDivider(p, speed) THEN old
    ELSE IF XmiiMode[p] = "RGMII" THEN RgmiiDivider(p, speed, old)
    ELSE IF XmiiMode[p] = "SGMII" THEN Divider(speed = 1000, 10)
    ELSE Divider(XmiiMode[p] # "MII_PHY", 10)

ConfigSource(p, speed) ==
    IF XmiiMode[p] \in {"RGMII", "SGMII"} THEN (IF speed = 1000 THEN "PLL0" ELSE "IDIV")
    ELSE IF XmiiMode[p] = "MII_PHY" THEN "IDIV"
    ELSE IF XmiiMode[p] = "RMII_MAC" THEN "PLL1" ELSE "TX"

(* The opposite of a cascading port has the delay. *)
ConfigDelay(p, speed, old) ==
    IF XmiiMode[p] = "RGMII" /\ p \notin Cascading THEN speed = 1000 ELSE old

ConfigEnablesPll1(p) == XmiiMode[p] = "RMII_MAC"

(* SJA1105P_autoConfigPorts has set up all ports, which were reset before. *)
LinksInit ==
    /\ macSpeed = ConfiguredSpeed
    /\ idiv = [p \in LinkPorts |-> ConfigDivider(p, ConfiguredSpeed[p], Divider(FALSE, 1))]
    /\ clksrc = [p \in LinkPorts |-> ConfigSource(p, ConfiguredSpeed[p])]
    /\ rxDelay = [p \in LinkPorts |-> ConfigDelay(p, ConfiguredSpeed[p], FALSE)]
    /\ g_pll1Enabled = IF \E p \in LinkPorts : ConfigEnablesPll1(p) THEN 1 ELSE 0
    /\ link = [p \in LinkPorts |-> [link_state |-> 0, speed |-> 0]]
    /\ phy = [p \in LinkPorts |-> [link |-> FALSE, speed |-> 0]]
    /\ pending = {}

-----------------------------------------------------------------------------
(* nxp_update_speed: SJA1105P_setSpeed and SJA1105P_reconfigPort, which reads the *)
(* speed back; and the delay of a port that does not bear it.                      *)
NxpUpdateSpeed(p, speed) ==
    /\ macSpeed' = [macSpeed EXCEPT ![p] = speed]
    /\ idiv' = [idiv EXCEPT ![p] = ConfigDivider(p, speed, @)]
    /\ clksrc' = [clksrc EXCEPT ![p] = ConfigSource(p, speed)]
    /\ rxDelay' = [rxDelay EXCEPT ![p] = ConfigDelay(p, speed, @) /\ p \notin Unstable]
    /\ g_pll1Enabled' = IF ConfigEnablesPll1(p) THEN 1 ELSE g_pll1Enabled

(* nxp_adjust_link: only a link that comes up is looked at.  Its speed is recorded *)
(* even if it is not supported and nothing is set up.  Toggling the delay of the   *)
(* port (nxp_toggle_port) leaves it as it was.                                     *)
LinkUp(p) ==
    /\ phy[p].link /\ link[p].link_state = 0
    /\ IF link[p].speed # phy[p].speed /\ phy[p].speed \in Speeds
       THEN NxpUpdateSpeed(p, phy[p].speed)
       ELSE UNCHANGED <<macSpeed, idiv, clksrc, rxDelay, g_pll1Enabled>>
    /\ link' = [link EXCEPT ![p] = [link_state |-> 1, speed |-> phy[p].speed]]

LinkStays(p) ==
    /\ phy[p].link /\ link[p].link_state = 1
    /\ UNCHANGED <<macSpeed, idiv, clksrc, rxDelay, g_pll1Enabled, link>>

LinkDown(p) ==
    /\ ~phy[p].link
    /\ link' = [link EXCEPT ![p].link_state = 0]
    /\ UNCHANGED <<macSpeed, idiv, clksrc, rxDelay, g_pll1Enabled>>

NxpAdjustLink(p) ==
    /\ LinkUp(p) \/ LinkStays(p) \/ LinkDown(p)
    /\ pending' = pending \ {p}
    /\ UNCHANGED phy

-----------------------------------------------------------------------------
(* The PHY.  It does not renegotiate so fast that the loss of the link is missed.  *)
(* There is no 1 Gbps over MII or RMII.                                            *)
Supported(p) == {speed \in Speeds : speed = 1000 => XmiiMode[p] \in {"RGMII", "SGMII"}}
Reported(p) == Supported(p) \cup {speed \in {SpeedUnknown} : p \in Faster}

PhyLinkLost(p) ==
    /\ phy[p].link
    /\ phy' = [phy EXCEPT ![p].link = FALSE]

PhyNegotiated(p) ==
    /\ ~phy[p].link /\ p \notin pending
    /\ \E speed \in Reported(p) : phy' = [phy EXCEPT ![p] = [link |-> TRUE, speed |-> speed]]

PhyChange(p) ==
    /\ PhyLinkLost(p) \/ PhyNegotiated(p)
    /\ pending' = pending \cup {p}
    /\ UNCHANGED <<link, macSpeed, idiv, clksrc, rxDelay, g_pll1Enabled>>

LinksNext == \E p \in LinkPorts : NxpAdjustLink(p) \/ PhyChange(p)

LinksSpec == LinksInit /\ [][LinksNext]_linksVars

-----------------------------------------------------------------------------
LinksTypeOK ==
    /\ macSpeed \in [LinkPorts -> Speeds]
    /\ idiv \in [LinkPorts -> [pd : BOOLEAN, by : {1, 10}]]
    /\ clksrc \in [LinkPorts -> {"IDIV", "PLL0", "PLL1", "TX"}]
    /\ rxDelay \in [LinkPorts -> BOOLEAN]
    /\ link \in [LinkPorts -> [link_state : {0, 1}, speed : Speeds \cup {0, SpeedUnknown}]]

(* The speed for which the transmit clock of a port is right: 125 MHz of PLL0, 25 MHz *)
(* of the divider's input, what the PHY sends, or any for the 50 MHz of RMII.         *)
ClockedSpeed(p) ==
    IF clksrc[p] = "PLL0" THEN 1000
    ELSE IF clksrc[p] = "IDIV" THEN (IF idiv[p].pd THEN 0 ELSE 100 \div idiv[p].by)
    ELSE IF clksrc[p] = "TX" \/ g_pll1Enabled = 1 THEN phy[p].speed ELSE 0

Settled(p) == phy[p].link /\ phy[p].speed \in Speeds /\ p \notin pending

(* The MAC and the receive delay of a port are set up for what its PHY has found. *)
MacFitsLink(p) ==
    /\ macSpeed[p] = phy[p].speed
    /\ XmiiMode[p] = "RGMII" /\ p \notin Cascading
          => rxDelay[p] <=> (phy[p].speed = 1000 /\ p \notin Unstable)

ClockFitsLink(p) == ClockedSpeed(p) = phy[p].speed

(* A link whose callback has run is driven at its speed, if the switch knows it:  *)
(* the MAC, the transmit clock with its source and divider, and the receive delay *)
(* agree with the PHY, whatever speeds the link had before.                       *)
PortFitsLink == \A p \in LinkPorts : Settled(p) => MacFitsLink(p) /\ ClockFitsLink(p)
=============================================================================
