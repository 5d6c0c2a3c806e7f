-------------------------------- MODULE Vlan --------------------------------
(* VLAN forwarding over a line of switches (NXP_SJA1105P_vlan.c, with the     *)
(* callbacks of the bridge in sja1105p_switchdev.c).  The cascading port of a  *)
(* switch leads to the host port of the next.                                 *)
EXTENDS Integers, FiniteSets, FiniteSetsExt

CONSTANTS VlanIds,
          VlanSwitches,      \* SJA1105P_N_SWITCHES
          VlanPhysicalPort,  \* logical port -> its switch and physical port
          CascPort, HostPort,\* switch -> physical port
          FewPorts           \* bound: the ports callers mirror or make untagged

ASSUME VlanAssumption ==
    /\ VlanSwitches \in Nat \ {0}
    /\ FewPorts \subseteq DOMAIN VlanPhysicalPort
    /\ \A l \in DOMAIN VlanPhysicalPort : VlanPhysicalPort[l].switchId \in 0 .. VlanSwitches - 1
    /\ \A l, k \in DOMAIN VlanPhysicalPort :
          /\ VlanPhysicalPort[l].switchId = VlanPhysicalPort[k].switchId
          /\ VlanPhysicalPort[l].physicalPort = VlanPhysicalPort[k].physicalPort
          => l = k

\* The ports that link the switches are no external ports.
ASSUME VlanLinksAssumption ==
    \A l \in DOMAIN VlanPhysicalPort :
        LET s == VlanPhysicalPort[l].switchId
        IN /\ s < VlanSwitches - 1 => VlanPhysicalPort[l].physicalPort # CascPort[s]
           /\ s > 0 => VlanPhysicalPort[l].physicalPort # HostPort[s]

VARIABLES vlanTable,  \* switch -> VLAN -> its entry
          enabled,    \* history: VLAN -> ports that may send to it
          forwarded,  \* history: VLAN -> ports it is forwarded to
          spanned     \* history: VLANs whose links were set up for the ports they have

vlanVars == <<vlanTable, enabled, forwarded, spanned>>

VlanSwitch == 0 .. VlanSwitches - 1
VlanPorts == DOMAIN VlanPhysicalPort
SwitchOfPort(l) == VlanPhysicalPort[l].switchId
Physical(ports, s) == {VlanPhysicalPort[l].physicalPort : l \in {k \in ports : SwitchOfPort(k) = s}}

NoVlan == [tagPort |-> {}, vlanBc |-> {}, vmembPort |-> {}, vegrMirr |-> {}, vingMirr |-> {}]

VlanInit ==
    /\ vlanTable = [s \in VlanSwitch |-> [v \in VlanIds |-> NoVlan]]
    /\ enabled = [v \in VlanIds |-> {}]
    /\ forwarded = [v \in VlanIds |-> {}]
    /\ spanned = VlanIds

-----------------------------------------------------------------------------
(* The first and the last switch with a port of a set; none: beyond the line. *)
SwitchesWith(ports) == {SwitchOfPort(l) : l \in ports}
FirstSwitch(ports) == Min(SwitchesWith(ports) \cup {VlanSwitches})
LastSwitch(ports) == Max(SwitchesWith(ports) \cup {0})

(* The link from switch s to the next may be used when members lie on both sides. *)
LinkWithinMembers(s, members) == FirstSwitch(members) <= s /\ s < LastSwitch(members)

(* Mutated form of the next definition: a link is left out if its first switch has no port. *)
DownwardsFromMember(s, members, broadcast) ==
    /\ LinkWithinMembers(s, members)
    /\ s \in SwitchesWith(members) /\ s < LastSwitch(broadcast)

(* Frames go down the line over it, and up the line. *)
Downwards(s, members, broadcast) == LinkWithinMembers(s, members) /\ s < LastSwitch(broadcast)
Upwards(s, members, broadcast) == LinkWithinMembers(s, members) /\ s >= FirstSwitch(broadcast)

(* SJA1105P_writeVlanConfig: the entry of a switch.  It starts from nothing, so that  *)
(* mirroring is disabled.  tagged, untagged: what the VLAN is forwarded to.           *)
WrittenEntry(s, tagged, untagged, enable) ==
    LET broadcast == tagged \cup untagged
        down(t) == t \in 0 .. VlanSwitches - 2 /\ Downwards(t, enable, broadcast)
        up(t) == t \in 0 .. VlanSwitches - 2 /\ Upwards(t, enable, broadcast)
        casc(b) == IF b THEN {CascPort[s]} ELSE {}
        host(b) == IF b THEN {HostPort[s]} ELSE {}
    IN [tagPort   |-> Physical(tagged, s) \cup casc(down(s) \/ up(s))
                                          \cup host(down(s - 1) \/ up(s - 1)),
        vlanBc    |-> Physical(broadcast, s) \cup casc(down(s)) \cup host(up(s - 1)),
        vmembPort |-> Physical(enable, s) \cup casc(up(s)) \cup host(down(s - 1)),
        vegrMirr  |-> {},
        vingMirr  |-> {}]

WriteVlanConfig(v, tagged, untagged, enable) ==
    /\ vlanTable' = [s \in VlanSwitch |->
                        [vlanTable[s] EXCEPT ![v] = WrittenEntry(s, tagged, untagged, enable)]]
    /\ enabled' = [enabled EXCEPT ![v] = enable]
    /\ forwarded' = [forwarded EXCEPT ![v] = tagged \cup untagged]
    /\ spanned' = IF \A s \in SwitchesWith(tagged \cup untagged) :
                        FirstSwitch(enable) <= s /\ s <= LastSwitch(enable)
                  THEN spanned \cup {v} ELSE spanned \ {v}

(* SJA1105P_readVlanConfig: what the entries say of the external ports. *)
Said(v, field(_)) ==
    {l \in VlanPorts : VlanPhysicalPort[l].physicalPort \in field(vlanTable[SwitchOfPort(l)][v])}
ReadTagged(v) ==
    Said(v, LAMBDA e : e.vlanBc \cap e.tagPort)
ReadUntagged(v) ==
    Said(v, LAMBDA e : e.vlanBc \ e.tagPort)
ReadEnable(v) ==
    Said(v, LAMBDA e : e.vmembPort)

(* nxp_port_vlan_rx_add_vid and nxp_port_vlan_rx_kill_vid: reading never fails. *)
NxpPortVlanRxAddVid(l, v) ==
    WriteVlanConfig(v, ReadTagged(v) \cup {l}, ReadUntagged(v) \ {l}, ReadEnable(v) \cup {l})

NxpPortVlanRxKillVid(l, v) ==
    WriteVlanConfig(v, ReadTagged(v) \ {l}, ReadUntagged(v) \ {l}, ReadEnable(v) \ {l})

(* Mutated form of the next definition: the port is written to the master. *)
BitChangedAtMaster(v, l, field, enable) ==
    [vlanTable EXCEPT ![0][v][field] =
        IF enable THEN @ \cup {VlanPhysicalPort[l].physicalPort}
                  ELSE @ \ {VlanPhysicalPort[l].physicalPort}]

(* One bit of the entry of the port's switch is changed. *)
BitChanged(v, l, field, enable) ==
    [vlanTable EXCEPT ![SwitchOfPort(l)][v][field] =
        IF enable THEN @ \cup {VlanPhysicalPort[l].physicalPort}
                  ELSE @ \ {VlanPhysicalPort[l].physicalPort}]

(* The links are left as they are. *)
EnableVlan(v, l, enable) ==
    /\ vlanTable' = BitChanged(v, l, "vmembPort", enable)
    /\ enabled' = [enabled EXCEPT ![v] = IF enable THEN @ \cup {l} ELSE @ \ {l}]
    /\ spanned' = spanned \ {v}
    /\ UNCHANGED forwarded

EnableVlanIngressMirroring(v, l, enable) ==
    /\ vlanTable' = BitChanged(v, l, "vingMirr", enable)
    /\ UNCHANGED <<enabled, forwarded, spanned>>

EnableVlanEgressMirroring(v, l, enable) ==
    /\ vlanTable' = BitChanged(v, l, "vegrMirr", enable)
    /\ UNCHANGED <<enabled, forwarded, spanned>>

VlanNext ==
    \E v \in VlanIds :
        \/ \E l \in VlanPorts :
              \/ NxpPortVlanRxAddVid(l, v)
              \/ NxpPortVlanRxKillVid(l, v)
              \/ \E enable \in BOOLEAN : EnableVlan(v, l, enable)
        \/ \E l \in FewPorts, enable \in BOOLEAN :
              \/ EnableVlanIngressMirroring(v, l, enable)
              \/ EnableVlanEgressMirroring(v, l, enable)
        \/ \E tagged, enable \in SUBSET VlanPorts, untagged \in SUBSET FewPorts :
              tagged \cap untagged = {} /\ WriteVlanConfig(v, tagged, untagged, enable)

VlanSpec == VlanInit /\ [][VlanNext]_vlanVars

-----------------------------------------------------------------------------
VlanTypeOK ==
    LET ports == {VlanPhysicalPort[l].physicalPort : l \in VlanPorts}
                    \cup {CascPort[s] : s \in VlanSwitch} \cup {HostPort[s] : s \in VlanSwitch}
    IN /\ vlanTable \in [VlanSwitch -> [VlanIds ->
             [tagPort : SUBSET ports, vlanBc : SUBSET ports, vmembPort : SUBSET ports,
              vegrMirr : SUBSET ports, vingMirr : SUBSET ports]]]
       /\ enabled \in [VlanIds -> SUBSET VlanPorts]
       /\ forwarded \in [VlanIds -> SUBSET VlanPorts]
       /\ spanned \subseteq VlanIds

(* A tagged frame is forwarded over the link from switch s to the next, or back. *)
GoesDown(v, s) == /\ CascPort[s] \in vlanTable[s][v].vlanBc \cap vlanTable[s][v].tagPort
                  /\ HostPort[s + 1] \in vlanTable[s + 1][v].vmembPort
GoesUp(v, s) == /\ HostPort[s + 1] \in vlanTable[s + 1][v].vlanBc \cap vlanTable[s + 1][v].tagPort
                /\ CascPort[s] \in vlanTable[s][v].vmembPort

Reaches(v, l, k) ==
    /\ VlanPhysicalPort[l].physicalPort \in vlanTable[SwitchOfPort(l)][v].vmembPort
    /\ VlanPhysicalPort[k].physicalPort \in vlanTable[SwitchOfPort(k)][v].vlanBc
    /\ \A s \in SwitchOfPort(l) .. SwitchOfPort(k) - 1 : GoesDown(v, s)
    /\ \A s \in SwitchOfPort(k) .. SwitchOfPort(l) - 1 : GoesUp(v, s)

(* The line is one bridge to a VLAN: a frame from any port that is enabled      *)
(* reaches every port the VLAN is forwarded to, over however many switches      *)
(* without a port of their own, and no frame reaches another port.  This holds   *)
(* when the enabled ports span those forwarded to, as the bridge sees to.        *)
VlanConnects ==
    \A v \in VlanIds : \A l, k \in VlanPorts :
        /\ Reaches(v, l, k) => l \in enabled[v] /\ k \in forwarded[v]
        /\ v \in spanned /\ l \in enabled[v] /\ k \in forwarded[v] => Reaches(v, l, k)
=============================================================================
