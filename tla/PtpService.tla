----------------------------- MODULE PtpService -----------------------------
(* What the PTP functions promise of the clock of the line: it runs at the    *)
(* rate it was given, and each call is carried out once, as it was asked for. *)
EXTENDS Integers

CONSTANTS ClockRange, Idle

VARIABLES time, rate,
          request    \* the call that has not taken effect yet, or Idle

Init == time \in 0 .. ClockRange - 1 /\ rate = 1 /\ request = Idle

Tick == /\ time' = (time + rate) % ClockRange
        /\ UNCHANGED <<rate, request>>

Call == /\ request = Idle
        /\ request' \in [call : {"set", "add", "sub", "rate"}, value : 0 .. ClockRange - 1]
        /\ UNCHANGED <<time, rate>>

Perform ==
    /\ request # Idle
    /\ request' = Idle
    /\ time' = CASE request.call = "set" -> request.value
                 [] request.call = "add" -> (time + request.value) % ClockRange
                 [] request.call = "sub" -> (time - request.value) % ClockRange
                 [] OTHER -> time
    /\ rate' = IF request.call = "rate" THEN request.value ELSE rate

Next == Tick \/ Call \/ Perform

Spec == Init /\ [][Next]_<<time, rate, request>>
=============================================================================
