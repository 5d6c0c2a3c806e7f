---------------------------- MODULE RecvService -----------------------------
(***************************************************************************)
(* What a receive interface promises (SJA1105P_recvSwitchFrameLoop,        *)
(* SJA1105P_recvSwitchFrame and the dispatch functions): frames reach the  *)
(* receiver once and in the order of arrival. A listener gets each frame   *)
(* as it arrives, after those that were waiting; without one, frames wait  *)
(* as long as there is room.                                               *)
(***************************************************************************)
EXTENDS Integers, Sequences

CONSTANTS Frame, MaxFrames

VARIABLES
    waiting,      \* frames that wait, oldest first
    listener,     \* is there a listener?
    budget,       \* how many more frames it wants; 0: any number
    delivered     \* what the last step delivered, in order

vars == <<waiting, listener, budget, delivered>>

Init ==
    /\ waiting = <<>>
    /\ listener = FALSE
    /\ budget = 0
    /\ delivered = <<>>

\* The listener gets k frames, and leaves with the last one it wanted.
Served(n, k) ==
    /\ listener' = ~(n > 0 /\ k = n)
    /\ budget' = IF n > 0 THEN n - k ELSE 0

Arrive(f) ==
    \/ /\ listener
       /\ delivered' = <<f>>
       /\ Served(budget, 1)
       /\ UNCHANGED waiting
    \/ /\ ~listener /\ Len(waiting) < MaxFrames
       /\ waiting' = Append(waiting, f)
       /\ delivered' = <<>>
       /\ UNCHANGED <<listener, budget>>

\* No room: the frame is lost.
Drop ==
    /\ ~listener
    /\ delivered' = <<>>
    /\ UNCHANGED <<waiting, listener, budget>>

\* A listener for n frames (0: any number) first gets those that wait.
Listen(n) ==
    LET k == IF n = 0 \/ n > Len(waiting) THEN Len(waiting) ELSE n IN
    /\ delivered' = SubSeq(waiting, 1, k)
    /\ waiting' = SubSeq(waiting, k + 1, Len(waiting))
    /\ Served(n, k)

StopListening(n) ==
    /\ listener' = FALSE
    /\ budget' = n
    /\ delivered' = <<>>
    /\ UNCHANGED waiting

Fetch ==
    /\ delivered' = SubSeq(waiting, 1, 1)
    /\ waiting' = SubSeq(waiting, 2, Len(waiting))
    /\ UNCHANGED <<listener, budget>>

Next ==
    \/ \E f \in Frame : Arrive(f)
    \/ Drop
    \/ \E n \in 0 .. 255 : Listen(n) \/ StopListening(n)
    \/ Fetch

Spec == Init /\ [][Next]_vars
=============================================================================
