---------------------------- MODULE TrapService -----------------------------
(***************************************************************************)
(* What the Ethernet interface promises for trapped frames (the            *)
(* descriptions of SJA1105P_forwardRecvFrames, forwardTrappedFrame and     *)
(* SJA1105P_frameDescriptor_t): each is handed on once, with the port it   *)
(* was trapped at and its own timestamp, to the interface it belongs to,   *)
(* or looped back into the network.                                        *)
(***************************************************************************)
EXTENDS Integers, Sequences

CONSTANTS
    Frame,       \* frames a switch may trap: [switch, port, filter, type, own]
    EthType,
    NFilters,    \* number of subscriptions
    HostPort     \* port of the first switch that leads to the host

VARIABLES
    underWay,        \* trapped frames not yet handed on
    subscriptions,   \* sets of Ethertypes
    endPoint,        \* is the endpoint interface initialised?
    dispatched       \* the last trapped frame handed on

vars == <<underWay, subscriptions, endPoint, dispatched>>

\* A frame the endpoint itself has sent is for the switch interface, any other
\* one from the host port for the endpoint.
Destination(f) ==
    IF f.switch = 0 /\ f.port = HostPort /\ ~(f.own /\ endPoint)
    THEN "endpoint"
    ELSE IF \E k \in DOMAIN subscriptions : f.type \in subscriptions[k]
    THEN "switch" ELSE "network"

Init ==
    /\ underWay = {}
    /\ subscriptions = <<>>
    /\ endPoint = FALSE
    /\ dispatched = <<>>

Trap(f) ==
    /\ f \notin underWay
    /\ underWay' = underWay \cup {f}
    /\ UNCHANGED <<subscriptions, endPoint, dispatched>>

HandOn(f) ==
    /\ f \in underWay
    /\ underWay' = underWay \ {f}
    /\ dispatched' = <<[frame |-> f, switch |-> f.switch, port |-> f.port,
                        stamp |-> f, to |-> Destination(f)]>>
    /\ UNCHANGED <<subscriptions, endPoint>>

Subscribe(types) ==
    /\ Len(subscriptions) < NFilters
    /\ subscriptions' = Append(subscriptions, types)
    /\ UNCHANGED <<underWay, endPoint, dispatched>>

InitEndPoint ==
    /\ endPoint' = TRUE
    /\ UNCHANGED <<underWay, subscriptions, dispatched>>

Next ==
    \/ \E f \in Frame : Trap(f) \/ HandOn(f)
    \/ \E types \in SUBSET EthType : Subscribe(types)
    \/ InitEndPoint

Spec == Init /\ [][Next]_vars /\ \A f \in Frame : WF_vars(HandOn(f))
=============================================================================
