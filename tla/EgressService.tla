--------------------------- MODULE EgressService ----------------------------
(***************************************************************************)
(* What the management-route component promises the sender of a frame      *)
(* (the descriptions of SJA1105P_setupMgmtRoute and                        *)
(* SJA1105P_pollAndDispatchEgressTimeStampsTick): every frame leaves at    *)
(* exactly the ports it was sent to, in the order of sending, and where a  *)
(* timestamp was asked for the frame has a slot at each of its ports that  *)
(* no other frame touches until the timestamp has been read.               *)
(* There are no routes here: MgmtRoutes implements this with them.         *)
(***************************************************************************)
EXTENDS Integers, Sequences

CONSTANTS NSwitches, NTimeStamps, Port, SwitchOf, MacAddr

VARIABLES
    wire,     \* per switch: the frames still to pass it, oldest first
    slot,     \* per port and timestamp index: free, reserved or captured
    delivered \* the timestamps handed to the sender in the last step

vars == <<wire, slot, delivered>>

Switch == 0 .. NSwitches - 1
TimeStampIndex == 0 .. NTimeStamps - 1

Frame == [macaddr : MacAddr, destports : (SUBSET Port) \ {{}},
          ts : 0 .. NTimeStamps]

Init ==
    /\ wire = [s \in Switch |-> <<>>]
    /\ slot = [p \in Port |-> [i \in TimeStampIndex |-> "free"]]
    /\ delivered = {}

\* The slots of frame f at a set of ports, all moved from one state to another.
Move(f, ports, from, to) ==
    /\ f.ts \in TimeStampIndex => \A p \in ports : slot[p][f.ts] = from
    /\ slot' = [p \in Port |-> [i \in TimeStampIndex |->
                   IF p \in ports /\ i = f.ts THEN to ELSE slot[p][i]]]

Send(f) ==
    /\ wire' = [wire EXCEPT ![0] = Append(@, f)]
    /\ Move(f, f.destports, "free", "reserved")
    /\ delivered' = {}

\* The oldest frame at switch s leaves at its ports there, and goes on to the
\* next switch if it has ports further down the cascade.
Egress(s) ==
    LET f == Head(wire[s]) IN
    /\ wire[s] # <<>>
    /\ wire' = [t \in Switch |->
                   CASE t = s -> Tail(wire[s])
                     [] t = s + 1 /\ (\E p \in f.destports : s < SwitchOf[p]) ->
                            Append(wire[t], f)
                     [] OTHER -> wire[t]]
    /\ Move(f, {p \in f.destports : SwitchOf[p] = s}, "reserved", "captured")
    /\ delivered' = {}

\* Some captured timestamps, or none, are handed out: their slots become free
\* again, and no other slot changes.
Collect ==
    \E read \in SUBSET (Port \X TimeStampIndex) :
        /\ \A r \in read : slot[r[1]][r[2]] = "captured"
        /\ slot' = [p \in Port |-> [i \in TimeStampIndex |->
                       IF <<p, i>> \in read THEN "free" ELSE slot[p][i]]]
        /\ delivered' = read
        /\ UNCHANGED wire

Next == (\E f \in Frame : Send(f)) \/ (\E s \in Switch : Egress(s)) \/ Collect

Spec == Init /\ [][Next]_vars /\ \A s \in Switch : WF_vars(Egress(s))
=============================================================================
