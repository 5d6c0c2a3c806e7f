----------------------------- MODULE MCServices -----------------------------
(* The services of a line that share no state: one of them at a time. *)
EXTENDS MCRetagging, Vlan, Ptp, Cbs, Links, TimeStamps

VARIABLE service

servicesVars == <<vars, vlanVars, ptpVars, cbsVars, linksVars, stampVars, service>>

MCInit ==
    /\ Init /\ VlanInit /\ CbsInit /\ LinksInit /\ PtpInit /\ StampInit
    /\ service \in {"retagging", "vlan", "ptp", "cbs", "links", "stamps"}
    /\ service # "ptp" => clock = [s \in PtpSwitch |-> 0]
    /\ service # "stamps" => ptpClk = 0

MCNext ==
    /\ UNCHANGED service
    /\ \/ /\ service = "retagging" /\ Next
          /\ UNCHANGED <<vlanVars, ptpVars, cbsVars, linksVars, stampVars>>
       \/ /\ service = "vlan" /\ VlanNext
          /\ UNCHANGED <<vars, ptpVars, cbsVars, linksVars, stampVars>>
       \/ /\ service = "ptp" /\ PtpNext
          /\ UNCHANGED <<vars, vlanVars, cbsVars, linksVars, stampVars>>
       \/ /\ service = "cbs" /\ CbsNext
          /\ UNCHANGED <<vars, vlanVars, ptpVars, linksVars, stampVars>>
       \/ /\ service = "links" /\ LinksNext
          /\ UNCHANGED <<vars, vlanVars, ptpVars, cbsVars, stampVars>>
       \/ /\ service = "stamps" /\ StampNext
          /\ UNCHANGED <<vars, vlanVars, ptpVars, cbsVars, linksVars>>

MCSpec == MCInit /\ [][MCNext]_servicesVars

ServicesTypeOK == TypeOK /\ VlanTypeOK /\ PtpTypeOK /\ CbsTypeOK /\ LinksTypeOK /\ StampTypeOK

\* Three switches with one external port each; port 2 leads to the next switch, 0 back.
MCVlanPorts == [l \in 0 .. 2 |-> [switchId |-> l, physicalPort |-> 1]]
MCCascPort == [s \in 0 .. 2 |-> 2]
MCHostPort == [s \in 0 .. 2 |-> 0]

\* The second of three switches has the clock the others follow.
MCPtpMaster == [s \in 0 .. 2 |-> s = 1]

\* Logical and physical ports of a single switch have the same numbers.
MCCbsPorts == [l \in 0 .. 1 |-> [switchId |-> 0, physicalPort |-> l]]

MCDelay == [TX |-> 1, RX |-> 2]

MCXmiiMode == 1 :> "RGMII" @@ 2 :> "RMII_MAC" @@ 4 :> "RGMII"
MCSpeed == [p \in {1, 2, 4} |-> 100]
=============================================================================
