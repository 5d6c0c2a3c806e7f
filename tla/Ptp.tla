-------------------------------- MODULE Ptp --------------------------------
(* The PTP clocks of a line of switches (NXP_SJA1105P_ptp.c).  A call is a   *)
(* sequence of transfers to the switches, while their clocks go on.  The     *)
(* registers it writes mean different things in different modes, and the     *)
(* driver remembers one mode for all switches.                               *)
EXTENDS Integers, Sequences

CONSTANTS PtpSwitches,  \* SJA1105P_N_SWITCHES
          ptpMaster,    \* SJA1105P_g_avbParameters.ptpMaster
          ClockRange,   \* clocks count modulo this (2^64)
          Offsets,      \* offsets and clock values asked for
          Ratios,       \* clock ratios asked for
          Idle

ASSUME PtpAssumption ==
    /\ PtpSwitches \in Nat \ {0} /\ ClockRange \in Nat \ {0, 1}
    /\ ptpMaster \in [0 .. PtpSwitches - 1 -> BOOLEAN]
    /\ Offsets \cup Ratios \subseteq 0 .. ClockRange - 1
    /\ Idle \notin [call : {"set", "add", "sub", "rate"}, value : 0 .. ClockRange - 1]

VARIABLES g_ptpControl2,  \* mode the driver remembers: "set", "add" or "sub"
          mode,           \* switch -> mode it is in
          clock,          \* switch -> value of its clock
          ratio,          \* switch -> rate of its clock
          impulse,        \* the master drives the synchronisation pin
          captured,       \* switch -> its clock at the last impulse
          transfers,      \* the loops of transfers the running call has left
          call,           \* history: the last call that changes the clock
          synchronised    \* history: nothing has parted the clocks since they were synchronised

ptpVars == <<g_ptpControl2, mode, clock, ratio, impulse, captured, transfers, call, synchronised>>

PtpSwitch == 0 .. PtpSwitches - 1

(* SJA1105P_g_ptpMasterSwitch: the last one that is configured as the master. *)
PtpMasterSwitch ==
    IF \E s \in PtpSwitch : ptpMaster[s]
    THEN CHOOSE s \in PtpSwitch : ptpMaster[s] /\ \A t \in PtpSwitch : ptpMaster[t] => t <= s
    ELSE 0

PtpInit ==
    /\ g_ptpControl2 = "set"
    /\ mode = [s \in PtpSwitch |-> "set"]
    /\ clock \in [PtpSwitch -> 0 .. ClockRange - 1]
    /\ ratio = [s \in PtpSwitch |-> 1]
    /\ impulse = FALSE
    /\ captured = [s \in PtpSwitch |-> 0]
    /\ transfers = <<>>
    /\ call = Idle
    /\ synchronised = FALSE

-----------------------------------------------------------------------------
(* Transfers: a call is a sequence of loops, each of which makes the transfers of *)
(* its body to each of some switches in turn.                                  *)
SetMode(m, sync) == [register |-> "control2", value |-> m, sync |-> sync]
SetClock(v) == [register |-> "control3", value |-> v]
SetRatio(v) == [register |-> "control4", value |-> v]
Correct == [register |-> "control6"]

Loop(switches, body) == [switches |-> switches, body |-> body]
Master(body) == Loop({PtpMasterSwitch}, body)
All(body) == Loop(PtpSwitch, body)

Slaves == {s \in PtpSwitch : ~ptpMaster[s]}

(* Mutated form of the next definition: a slave is not put into add mode first. *)
SynchronisedInAnyMode == <<Correct>>
Synchronised == <<SetMode("add", FALSE), Correct>>

(* SJA1105P_syncCascadedClocks *)
SyncTransfers ==
    IF Slaves = {} THEN <<Master(<<SetMode("add", TRUE)>>), Master(<<SetMode("add", FALSE)>>)>>
    ELSE <<Master(<<SetMode("add", TRUE)>>), Loop(Slaves, Synchronised), Master(<<SetMode("add", FALSE)>>)>>

SyncIfCascaded == IF PtpSwitches > 1 THEN SyncTransfers ELSE <<>>

(* A call that has taken effect in the master. *)
Begin(todo, m, request) ==
    /\ transfers = <<>>
    /\ transfers' = todo
    /\ g_ptpControl2' = m
    /\ call' = request
    /\ UNCHANGED <<mode, clock, ratio, impulse, captured>>

InitPtp ==
    /\ Begin(<<All(<<SetMode("add", FALSE)>>), All(<<SetRatio(1)>>)>> \o SyncIfCascaded,
             "add", [call |-> "rate", value |-> 1])
    /\ synchronised' = (PtpSwitches > 1)

(* Mutated form of the next definition: the mode is taken to be right. *)
ClockSetInAnyMode(v) == <<Master(<<SetClock(v)>>)>>
ClockSet(v) ==
    IF g_ptpControl2 = "set" THEN <<Master(<<SetClock(v)>>)>>
    ELSE <<Master(<<SetMode("set", FALSE)>>), Master(<<SetClock(v)>>)>>

SetPtpClk(v) ==
    /\ Begin(ClockSet(v) \o SyncIfCascaded,
             IF PtpSwitches > 1 THEN "add" ELSE "set", [call |-> "set", value |-> v])
    /\ synchronised' = (PtpSwitches > 1)

(* The clocks part while they run at different rates. *)
SetPtpClkRatio(v) ==
    /\ Begin(<<All(<<SetRatio(v)>>)>>, g_ptpControl2, [call |-> "rate", value |-> v])
    /\ synchronised' = FALSE

(* SJA1105P_addOffsetToPtpClk and SJA1105P_subtractOffsetFromPtpClk *)
ChangeByOffset(m, v) ==
    /\ Begin(IF g_ptpControl2 = m THEN <<All(<<SetClock(v)>>)>>
             ELSE <<All(<<SetMode(m, FALSE)>>), All(<<SetClock(v)>>)>>,
             m, [call |-> m, value |-> v])
    /\ UNCHANGED synchronised

SyncCascadedClocks ==
    /\ Begin(SyncTransfers, "add", call)
    /\ synchronised' = TRUE

-----------------------------------------------------------------------------
(* A switch: what a value written to its clock does depends on its mode. *)
Adjusted(s, v) ==
    CASE mode[s] = "set" -> v
      [] mode[s] = "add" -> (clock[s] + v) % ClockRange
      [] mode[s] = "sub" -> (clock[s] - v) % ClockRange

(* What is left of a loop after a transfer to a switch. *)
BodyLeft(loop, s) == IF Len(loop.body) = 1 THEN <<>> ELSE <<Loop({s}, Tail(loop.body))>>
SwitchesLeft(loop, s) ==
    IF loop.switches = {s} THEN <<>> ELSE <<Loop(loop.switches \ {s}, loop.body)>>

(* The effect of a transfer.  With the impulse of the master all switches capture their clocks. *)
Effect(t, s) ==
    \/ /\ t.register = "control2"
       /\ mode' = [mode EXCEPT ![s] = t.value]
       /\ impulse' = IF s = PtpMasterSwitch THEN t.sync ELSE impulse
       /\ captured' = IF impulse' /\ ~impulse THEN clock ELSE captured
       /\ UNCHANGED <<clock, ratio>>
    \/ /\ t.register = "control3"
       /\ clock' = [clock EXCEPT ![s] = Adjusted(s, t.value)]
       /\ UNCHANGED <<mode, ratio, impulse, captured>>
    \/ /\ t.register = "control4"
       /\ ratio' = [ratio EXCEPT ![s] = t.value]
       /\ UNCHANGED <<mode, clock, impulse, captured>>
    \/ /\ t.register = "control6"
       /\ clock' = [clock EXCEPT ![s] = Adjusted(s, (captured[PtpMasterSwitch] - captured[s]) % ClockRange)]
       /\ UNCHANGED <<mode, ratio, impulse, captured>>

(* The next transfer. *)
Transfer ==
    /\ transfers # <<>>
    /\ LET loop == Head(transfers)
       IN \E s \in loop.switches :
             /\ \A u \in loop.switches : s <= u
             /\ Effect(Head(loop.body), s)
             /\ transfers' = BodyLeft(loop, s) \o SwitchesLeft(loop, s) \o Tail(transfers)
    /\ UNCHANGED <<g_ptpControl2, call, synchronised>>

(* Time passes between any two transfers. *)
PtpTick ==
    /\ clock' = [s \in PtpSwitch |-> (clock[s] + ratio[s]) % ClockRange]
    /\ UNCHANGED <<g_ptpControl2, mode, ratio, impulse, captured, transfers, call, synchronised>>

PtpNext ==
    \/ InitPtp
    \/ \E v \in Offsets : SetPtpClk(v) \/ ChangeByOffset("add", v) \/ ChangeByOffset("sub", v)
    \/ \E v \in Ratios : SetPtpClkRatio(v)
    \/ SyncCascadedClocks
    \/ Transfer
    \/ PtpTick

PtpSpec == PtpInit /\ [][PtpNext]_ptpVars

-----------------------------------------------------------------------------
PtpTypeOK ==
    /\ g_ptpControl2 \in {"set", "add", "sub"}
    /\ mode \in [PtpSwitch -> {"set", "add", "sub"}]
    /\ clock \in [PtpSwitch -> 0 .. ClockRange - 1]
    /\ ratio \in [PtpSwitch -> Ratios \cup {1}]
    /\ captured \in [PtpSwitch -> 0 .. ClockRange - 1]
    /\ impulse \in BOOLEAN /\ synchronised \in BOOLEAN

(* Clocks that were synchronised, at one ratio, stay together from call to     *)
(* call, however much time passes between transfers: the correction holds      *)
(* although it is computed from old values, and offsets reach all switches in  *)
(* the same mode.  There must be one master.                                   *)
ClocksAgree ==
    synchronised /\ transfers = <<>> => \A s, t \in PtpSwitch : clock[s] = clock[t]

(* A transfer that changes the clock of the master, or its rate, is still to come. *)
Pending(loops) ==
    \E i \in DOMAIN loops : /\ Head(loops[i].body).register \in {"control3", "control4"}
                            /\ PtpMasterSwitch \in loops[i].switches

(* The clock of the master keeps the promises of PtpService: each call takes    *)
(* effect on it once, with the meaning it has for the caller, whatever mode    *)
(* earlier calls left the switches and the driver in.                           *)
PtpServiceOfMaster == INSTANCE PtpService WITH
    time <- clock[PtpMasterSwitch],
    rate <- ratio[PtpMasterSwitch],
    request <- IF Pending(transfers) THEN call ELSE Idle

ImplementsPtpService == PtpServiceOfMaster!Spec
=============================================================================
