---------------------------- MODULE RetagService ----------------------------
(***************************************************************************)
(* What retagging and bypassing promise (SJA1105P_startRetagging and its   *)
(* companions): per VLAN one retagging rule and one bypassing rule, each   *)
(* set and cleared without touching the other or another VLAN, for as many *)
(* VLANs as there are entries.                                             *)
(***************************************************************************)
EXTENDS Integers, FiniteSets

CONSTANTS Vlan, Rule, Bypass, NoRule, MaxVlans

VARIABLES
    retagging,    \* per VLAN: its retagging rule, or NoRule
    bypassing     \* per VLAN: its bypassing rule, or NoRule

vars == <<retagging, bypassing>>

Init ==
    /\ retagging = [v \in Vlan |-> NoRule]
    /\ bypassing = [v \in Vlan |-> NoRule]

InUse == {v \in Vlan : retagging[v] # NoRule \/ bypassing[v] # NoRule}
HasRoom(v) == v \in InUse \/ Cardinality(InUse) < MaxVlans

Start(v, rule) ==
    /\ HasRoom(v)
    /\ retagging' = [retagging EXCEPT ![v] = rule]
    /\ UNCHANGED bypassing

Stop(v) ==
    /\ retagging' = [retagging EXCEPT ![v] = NoRule]
    /\ UNCHANGED bypassing

Enable(v, rule) ==
    /\ HasRoom(v)
    /\ bypassing' = [bypassing EXCEPT ![v] = rule]
    /\ UNCHANGED retagging

Disable(v) ==
    /\ bypassing' = [bypassing EXCEPT ![v] = NoRule]
    /\ UNCHANGED retagging

\* A VLAN without room is refused.
Refuse(v) == ~HasRoom(v) /\ UNCHANGED vars

Next ==
    \E v \in Vlan :
        \/ \E rule \in Rule : Start(v, rule)
        \/ Stop(v)
        \/ \E rule \in Bypass : Enable(v, rule)
        \/ Disable(v)
        \/ Refuse(v)

Spec == Init /\ [][Next]_vars
=============================================================================
