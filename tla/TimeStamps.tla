----------------------------- MODULE TimeStamps -----------------------------
(* How a full time stamp is made of the low bits that a switch captures       *)
(* (NXP_SJA1105P_utils.c): the clock is read later, while it goes on, and      *)
(* gives the high bits.  One time stamp of a frame that leaves                *)
(* (NXP_SJA1105P_mgmtRoutes.c) or was trapped (NXP_SJA1105P_ethIf.c).          *)
EXTENDS Integers

CONSTANTS StampClockRange, \* the clock counts modulo this (2^64)
          StampRange,      \* 2^SJA1105P_TIMESTAMP_LENGTH
          Advances,        \* by how much the clock may advance in a step
          HostCorrections, \* egress corrections at the host port, none included
          PropagationDelay \* direction -> delay of the PHY

ASSUME StampAssumption ==
    /\ StampRange \in Nat \ {0} /\ StampClockRange \in Nat \ {0}
    /\ StampClockRange % StampRange = 0
    /\ Advances \subseteq 0 .. StampRange - 1
    /\ HostCorrections \subseteq 0 .. StampClockRange - 1
    /\ PropagationDelay \in [{"TX", "RX"} -> 0 .. StampClockRange - 1]

VARIABLES ptpClk,     \* the clock
          direction,  \* of the frame, or none
          stampedAt,   \* the clock when the frame passed
          age,        \* what the clock has advanced since
          stampPc,    \* how far the driver is
          timeStamp   \* the full clock it has read, then the time stamp

stampVars == <<ptpClk, direction, stampedAt, age, stampPc, timeStamp>>

Modulo(t) == t % StampClockRange
Low(t) == t % StampRange

StampInit ==
    /\ ptpClk \in 0 .. StampClockRange - 1
    /\ direction = "none" /\ stampPc = "none"
    /\ stampedAt = 0 /\ age = 0 /\ timeStamp = 0

(* Mutated form of the next definition: equal low bits are taken for an overrun. *)
ReconstructedOffByOne(timeStampL, recent) ==
    LET t == IF Low(recent) <= timeStampL THEN Modulo(recent - StampRange) ELSE recent
    IN t - Low(t) + timeStampL

(* SJA1105P_reconstructTimeStamp: there was an overrun if the low bits are below *)
(* those captured.                                                              *)
ReconstructTimeStamp(timeStampL, recent) ==
    LET t == IF Low(recent) < timeStampL THEN Modulo(recent - StampRange) ELSE recent
    IN t - Low(t) + timeStampL

-----------------------------------------------------------------------------
(* The switch captures a time stamp, and does not capture another before it is read. *)
Capture(d) ==
    /\ stampPc = "none"
    /\ stampPc' = IF d = "TX" THEN "captured" ELSE "trapped"
    /\ direction' = d /\ stampedAt' = ptpClk /\ age' = 0
    /\ UNCHANGED <<ptpClk, timeStamp>>

(* Bound: the low bits do not come round before the clock is read. *)
ClockAdvances ==
    \E by \in Advances :
        /\ ptpClk' = Modulo(ptpClk + by)
        /\ IF stampPc \in {"captured", "updated", "trapped"}
           THEN age + by < StampRange /\ age' = age + by
           ELSE UNCHANGED age
        /\ UNCHANGED <<direction, stampedAt, stampPc, timeStamp>>

(* SJA1105P_getEgressTimeStamp: the status, the clock and the low bits are read in turn. *)
ReadUpdated ==
    /\ stampPc = "captured" /\ stampPc' = "updated"
    /\ UNCHANGED <<ptpClk, direction, stampedAt, age, timeStamp>>

(* The same for a frame that was trapped, when the driver receives it. *)
ReadClock ==
    /\ \/ stampPc = "updated" /\ stampPc' = "clock"
       \/ stampPc = "trapped" /\ stampPc' = "received"
    /\ timeStamp' = ptpClk
    /\ UNCHANGED <<ptpClk, direction, stampedAt, age>>

(* The egress time stamp, with the delay of the PHY and, at the host port, a correction. *)
EgressTimeStamp ==
    /\ stampPc = "clock" /\ stampPc' = "done"
    /\ \E correction \in HostCorrections :
          timeStamp' = Modulo(Modulo(ReconstructTimeStamp(Low(stampedAt), timeStamp)
                                        + PropagationDelay["TX"]) - correction)
    /\ UNCHANGED <<ptpClk, direction, stampedAt, age>>

(* The meta frame brings the low bits of the frame that was trapped. *)
IngressTimeStamp ==
    /\ stampPc = "received" /\ stampPc' = "done"
    /\ timeStamp' = Modulo(ReconstructTimeStamp(Low(stampedAt), timeStamp) - PropagationDelay["RX"])
    /\ UNCHANGED <<ptpClk, direction, stampedAt, age>>

TimeStampHandled ==
    /\ stampPc = "done" /\ stampPc' = "none"
    /\ direction' = "none" /\ stampedAt' = 0 /\ age' = 0 /\ timeStamp' = 0
    /\ UNCHANGED ptpClk

StampNext ==
    \/ Capture("TX") \/ Capture("RX") \/ ClockAdvances
    \/ ReadUpdated \/ ReadClock \/ EgressTimeStamp \/ IngressTimeStamp \/ TimeStampHandled

StampSpec == StampInit /\ [][StampNext]_stampVars

-----------------------------------------------------------------------------
StampTypeOK ==
    /\ ptpClk \in 0 .. StampClockRange - 1
    /\ direction \in {"none", "TX", "RX"}
    /\ stampedAt \in 0 .. StampClockRange - 1 /\ timeStamp \in 0 .. StampClockRange - 1
    /\ age \in 0 .. StampRange - 1
    /\ stampPc \in {"none", "captured", "updated", "clock", "trapped", "received", "done"}

(* The time stamp handed on is the time at which the frame was on the wire,     *)
(* wherever the low bits and the clock itself wrapped in between: the frame       *)
(* left a delay after it was captured, or arrived a delay before.                *)
StampsExact ==
    stampPc = "done" =>
        IF direction = "RX" THEN timeStamp = Modulo(stampedAt - PropagationDelay["RX"])
        ELSE \E correction \in HostCorrections :
                timeStamp = Modulo(stampedAt + PropagationDelay["TX"] - correction)
=============================================================================
