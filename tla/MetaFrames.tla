----------------------------- MODULE MetaFrames -----------------------------
(***************************************************************************)
(* Trapped frames and their meta frames in the Ethernet interface          *)
(* (platform_independent/src/NXP_SJA1105P_ethIf.c, SJA1105P_forwardRecv-   *)
(* Frames and forwardTrappedFrame). A switch that traps a frame sends it   *)
(* to the host, and a meta frame with the port and the timestamp behind    *)
(* it. Switches further down the line send through the ones before, so     *)
(* that pairs from different switches arrive nested; a stack of frames     *)
(* that wait for their meta frames takes them apart.                       *)
(*                                                                         *)
(* Frames that are not trapped go straight to the endpoint's queue         *)
(* (RecvIf) and are left out. A frame is handed to a queue whether or not  *)
(* that has room for it; that a meta frame may be queued behind its frame  *)
(* (g_forwardMeta) is left to the queue, too.                              *)
(***************************************************************************)
EXTENDS Integers, Sequences, SequencesExt

CONSTANTS
    NSwitches,   \* SJA1105P_N_SWITCHES
    Frame,       \* frames a switch may trap: [switch, port, filter, type, own]
    EthType,
    Port,        \* physical ports of a switch
    HostPort,    \* hostPort[SJA1105P_MASTER_SWITCH]
    Filter,      \* the MAC filters that trap frames
    sendMeta,    \* per filter: does a meta frame follow?
    inclSrcpt,   \* per filter: are port and switch put into the address?
    NFilters,    \* SJA1105P_N_ETH_TYPE_FILTERS_SWITCH
    NoFrame,
    MaxLost,     \* bound: frames lost on the way to the host
    MaxFlushed   \* bound: calls of SJA1105P_flushEthItf

Switch == 0 .. NSwitches - 1

ASSUME MetaFramesAssumption ==
    /\ NSwitches \in Nat \ {0}
    /\ HostPort \in Port
    /\ sendMeta \in [Filter -> BOOLEAN]
    /\ inclSrcpt \in [Filter -> BOOLEAN]
    /\ \A f \in Frame :
           /\ f.switch \in Switch /\ f.port \in Port /\ f.filter \in Filter
           /\ f.type \in EthType /\ f.own \in BOOLEAN
    /\ NoFrame \notin Frame
    /\ NFilters \in Nat /\ MaxLost \in Nat /\ MaxFlushed \in Nat

VARIABLES
    out,                   \* per switch: what it sends towards the host, in order
    waitingMeta,           \* the g_nPendingMetaFrames frames that wait, last on top
    trapInformation,       \* of the last trapped frame: [inclSrcPort, own]
    switchEthTypeFilter,   \* the enabled filters, as sets of Ethertypes
    g_endPointIfActive,
    dispatched,            \* the last trapped frame handed on, at most one
    nLost, nMispaired, nDropped, nFlushed

rest == <<switchEthTypeFilter, g_endPointIfActive>>
counters == <<nLost, nMispaired, nDropped, nFlushed>>
vars == <<out, waitingMeta, trapInformation, rest, dispatched, counters>>

Item == [kind : {"trapped", "meta"}, frame : Frame]
TrapInformation == [inclSrcPort : BOOLEAN, own : BOOLEAN]

TypeOK ==
    /\ \A s \in Switch : \A k \in DOMAIN out[s] : out[s][k] \in Item
    /\ Len(waitingMeta) <= NSwitches
    /\ \A k \in DOMAIN waitingMeta :
           /\ waitingMeta[k].frame \in Frame
           /\ waitingMeta[k].info \in TrapInformation
    /\ trapInformation \in TrapInformation
    /\ Len(switchEthTypeFilter) <= NFilters
    /\ g_endPointIfActive \in BOOLEAN
    /\ Len(dispatched) <= 1

Init ==
    /\ out = [s \in Switch |-> <<>>]
    /\ waitingMeta = <<>>
    /\ trapInformation = [inclSrcPort |-> FALSE, own |-> FALSE]
    /\ switchEthTypeFilter = <<>>
    /\ g_endPointIfActive = FALSE
    /\ dispatched = <<>>
    /\ nLost = 0 /\ nMispaired = 0 /\ nDropped = 0 /\ nFlushed = 0

-----------------------------------------------------------------------------
(* The switches. Each sends in the order of trapping and receiving, a meta   *)
(* frame directly behind its frame.                                          *)

InOut(f) == \E s \in Switch : \E k \in DOMAIN out[s] : out[s][k].frame = f
Waits(f) == \E k \in DOMAIN waitingMeta : waitingMeta[k].frame = f

Trap(f) ==
    /\ ~InOut(f) /\ ~Waits(f)
    /\ out' = [out EXCEPT ![f.switch] =
           @ \o <<[kind |-> "trapped", frame |-> f]>>
             \o IF sendMeta[f.filter] THEN <<[kind |-> "meta", frame |-> f]>>
                ELSE <<>>]
    /\ UNCHANGED <<waitingMeta, trapInformation, rest, dispatched, counters>>

\* The next switch towards the host passes a frame on.
Relay(s) ==
    /\ s > 0 /\ out[s] # <<>>
    /\ out' = [out EXCEPT ![s] = Tail(@), ![s - 1] = Append(@, Head(out[s]))]
    /\ UNCHANGED <<waitingMeta, trapInformation, rest, dispatched, counters>>

\* A frame is lost on the way to the driver.
Lose ==
    /\ nLost < MaxLost /\ out[0] # <<>>
    /\ out' = [out EXCEPT ![0] = Tail(@)]
    /\ nLost' = nLost + 1
    /\ UNCHANGED <<waitingMeta, trapInformation, rest, dispatched,
                   nMispaired, nDropped, nFlushed>>

-----------------------------------------------------------------------------
(* forwardTrappedFrame *)

Accepted(type) ==
    \E k \in DOMAIN switchEthTypeFilter : type \in switchEthTypeFilter[k]

\* The destination of a frame with source information src = [switch, port].
Destination(src, own, type) ==
    IF \/ src.port = HostPort /\ src.switch = 0 /\ own /\ g_endPointIfActive
       \/ src.port # HostPort
    THEN IF Accepted(type) THEN "switch" ELSE "network"
    ELSE "endpoint"

\* The frame is handed on with this source and, as far as there is one, the
\* timestamp of the given frame.
ForwardTrappedFrame(f, info, src, stamp) ==
    dispatched' = <<[frame |-> f, switch |-> src.switch, port |-> src.port,
                     stamp |-> stamp, to |-> Destination(src, info.own, f.type)]>>

-----------------------------------------------------------------------------
(* SJA1105P_forwardRecvFrames: one round of its loop per action              *)

Receive(kind) ==
    /\ out[0] # <<>> /\ Head(out[0]).kind = kind
    /\ out' = [out EXCEPT ![0] = Tail(@)]

Received == Head(out[0]).frame

\* Mutants of OwnerOfMeta: the frame that has waited longest; the popped frame
\* stays on the stack.
OldestIsOwner == <<Head(waitingMeta), Tail(waitingMeta)>>
OwnerStays == <<Last(waitingMeta), waitingMeta>>

\* The frame a meta frame is taken to belong to, and those that wait on.
OwnerOfMeta == <<Last(waitingMeta), Front(waitingMeta)>>

\* A meta frame is recognised while frames wait.
RecvMeta ==
    /\ Receive("meta")
    /\ waitingMeta # <<>>
    /\ LET owner == OwnerOfMeta[1] IN
           /\ ForwardTrappedFrame(owner.frame, owner.info, Received, Received)
           /\ nMispaired' = IF owner.frame = Received THEN nMispaired
                            ELSE nMispaired + 1
    /\ waitingMeta' = OwnerOfMeta[2]
    /\ UNCHANGED <<trapInformation, rest, nLost, nDropped, nFlushed>>

\* Otherwise it is taken for a frame to the endpoint (no filter traps it).
RecvStrayMeta ==
    /\ Receive("meta")
    /\ waitingMeta = <<>>
    /\ UNCHANGED <<waitingMeta, trapInformation, rest, dispatched, counters>>

InformationOn(f) == [inclSrcPort |-> inclSrcpt[f.filter], own |-> f.own]

\* Mutant of HasRoom: one frame too many.
HasRoomForOneMore == Len(waitingMeta) <= NSwitches

HasRoom == Len(waitingMeta) < NSwitches

RecvTrapped ==
    /\ Receive("trapped")
    /\ sendMeta[Received.filter] /\ HasRoom
    /\ trapInformation' = InformationOn(Received)
    /\ waitingMeta' = Append(waitingMeta,
           [frame |-> Received, info |-> InformationOn(Received)])
    /\ UNCHANGED <<rest, dispatched, counters>>

\* The frame is dropped, and the loop ends with an error.
RecvTrappedTooMany ==
    /\ Receive("trapped")
    /\ sendMeta[Received.filter] /\ ~HasRoom
    /\ trapInformation' = InformationOn(Received)
    /\ nDropped' = nDropped + 1
    /\ UNCHANGED <<waitingMeta, rest, dispatched, nLost, nMispaired, nFlushed>>

\* Without a meta frame, the source is read from the address if the last frame
\* that had one included it there; otherwise metaData is not initialised.
RecvTrappedAlone ==
    /\ Receive("trapped")
    /\ ~sendMeta[Received.filter]
    /\ \E src \in [switch : Switch, port : Port] :
           /\ trapInformation.inclSrcPort /\ inclSrcpt[Received.filter] =>
                  src = [switch |-> Received.switch, port |-> Received.port]
           /\ ForwardTrappedFrame(Received, trapInformation, src, NoFrame)
    /\ UNCHANGED <<waitingMeta, trapInformation, rest, counters>>

-----------------------------------------------------------------------------
(* The other operations *)

FlushEthItf ==
    /\ nFlushed < MaxFlushed
    /\ nFlushed' = nFlushed + 1
    /\ waitingMeta' = <<>>
    /\ UNCHANGED <<out, trapInformation, rest, dispatched,
                   nLost, nMispaired, nDropped>>

\* A filter accepts the Ethertypes that agree with it under its mask.
SubscribeEthTypeForSwitchIf(types) ==
    /\ Len(switchEthTypeFilter) < NFilters
    /\ switchEthTypeFilter' = Append(switchEthTypeFilter, types)
    /\ UNCHANGED <<out, waitingMeta, trapInformation, g_endPointIfActive,
                   dispatched, counters>>

\* The endpoint's entry in the address resolution table is ArlTable's.
InitEndPointEthIf ==
    /\ ~g_endPointIfActive
    /\ g_endPointIfActive' = TRUE
    /\ UNCHANGED <<out, waitingMeta, trapInformation, switchEthTypeFilter,
                   dispatched, counters>>

-----------------------------------------------------------------------------
Recv == \/ RecvMeta \/ RecvStrayMeta
        \/ RecvTrapped \/ RecvTrappedTooMany \/ RecvTrappedAlone

Next ==
    \/ \E f \in Frame : Trap(f)
    \/ \E s \in Switch : Relay(s)
    \/ Lose
    \/ Recv
    \/ FlushEthItf
    \/ \E types \in SUBSET EthType : SubscribeEthTypeForSwitchIf(types)
    \/ InitEndPointEthIf

\* The switches send what they have, and the host calls SJA1105P_ethIfTick
\* periodically.
Fairness == WF_vars(Recv) /\ \A s \in Switch : WF_vars(Relay(s))

Spec == Init /\ [][Next]_vars /\ Fairness

-----------------------------------------------------------------------------
(* Properties *)

\* The frames that wait were trapped ever nearer to the host, so that there is
\* at most one per switch and one slot per switch is enough: this is why a
\* stack pairs them with their meta frames.
WaitingComesNearer ==
    \A j, k \in DOMAIN waitingMeta :
        j < k => waitingMeta[j].frame.switch > waitingMeta[k].frame.switch

\* Each frame or meta frame that is lost makes at most one frame get the meta
\* data of another, and at most one be dropped: the pairing recovers. (With one
\* switch; flushing the interface costs nothing but the frame that waits.)
LossesAreContained == nMispaired <= nLost /\ nDropped <= nLost

\* Every trapped frame is handed on once, with its own meta data and to the
\* interface it belongs to, however pairs from different switches are nested.
Service == INSTANCE TrapService WITH
    underWay <- {f \in Frame : InOut(f) \/ Waits(f)},
    subscriptions <- switchEthTypeFilter,
    endPoint <- g_endPointIfActive

ImplementsTrapService == Service!Spec
=============================================================================
