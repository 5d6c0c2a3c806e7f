----------------------------- MODULE MCRetagging ----------------------------
\* A small instance of Retagging for TLC: two switches with one port each.
EXTENDS Retagging, TLC

CONSTANTS p1, p2

MCSwitchOf == p1 :> 0 @@ p2 :> 1
MCRule == {[ingressPorts |-> {p1}, egressPorts |-> {p2}, ingressVlanId |-> 0],
           [ingressPorts |-> {p1, p2}, egressPorts |-> {p1}, ingressVlanId |-> 1]}
MCBypass == {[destPorts |-> {p2}, learningDisabled |-> TRUE],
             [destPorts |-> {}, learningDisabled |-> FALSE]}
=============================================================================
