--------------------------- MODULE BringUpService ---------------------------
(* What probing promises: switches are numbered in the order in which they are *)
(* ready, and the bridge starts on a complete line of configured switches.     *)
EXTENDS Sequences, SequencesExt

CONSTANTS Devices, Length

VARIABLES line,       \* the switches that are ready, in order
          configured, \* the switches that hold a valid configuration
          started     \* the bridge has been started

Init == line = <<>> /\ configured = {} /\ started = FALSE

(* A switch that is not in use is reset or configured. *)
Prepare(d) ==
    /\ d \in Devices \ ToSet(line)
    /\ configured' \in {configured \cup {d}, configured \ {d}}
    /\ UNCHANGED <<line, started>>

Attach(d) ==
    /\ d \in configured \ ToSet(line)
    /\ Len(line) < Length
    /\ line' = Append(line, d)
    /\ UNCHANGED <<configured, started>>

Detach ==
    /\ line # <<>>
    /\ line' = Front(line)
    /\ UNCHANGED <<configured, started>>

Start ==
    /\ Len(line) = Length
    /\ ToSet(line) \subseteq configured
    /\ started' = TRUE
    /\ UNCHANGED <<line, configured>>

Next ==
    \/ \E d \in Devices : Prepare(d) \/ Attach(d)
    \/ Detach
    \/ Start

Spec == Init /\ [][Next]_<<line, configured, started>>
=============================================================================
