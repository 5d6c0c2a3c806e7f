-------------------------------- MODULE Cbs --------------------------------
(* The credit-based shapers (NXP_SJA1105P_cbs.c).  Which shaper serves a port *)
(* and priority, and what is reserved, is only in the switches: each call      *)
(* searches their shapers again.                                              *)
EXTENDS Integers, FiniteSets

CONSTANTS CbsPhysicalPort,  \* logical port -> its switch and physical port
          CbsSwitches,
          SJA1105P_N_SHAPER,
          Classes,          \* priorities with a class measurement interval
          IdleSlopes,       \* what one stream reserves
          PortRate,         \* bandwidth of a port
          SlopeRange        \* 2^32: slopes are uint32_t

ASSUME CbsAssumption ==
    /\ SJA1105P_N_SHAPER \in Nat \ {0} /\ PortRate \in Nat \ {0}
    /\ \A l \in DOMAIN CbsPhysicalPort : CbsPhysicalPort[l].switchId \in CbsSwitches
    /\ SlopeRange \in Nat /\ PortRate < SlopeRange
    /\ 0 \notin Classes
    /\ IdleSlopes \subseteq 1 .. PortRate

VARIABLES shaper,     \* switch -> shaper -> its entry
          reserved    \* history: logical port, priority -> what callers were granted

cbsVars == <<shaper, reserved>>

CbsPorts == DOMAIN CbsPhysicalPort
Shapers == 0 .. SJA1105P_N_SHAPER - 1
SJA1105P_INVALID_SHAPER_ID == SJA1105P_N_SHAPER

Unused == [cbsPort |-> 0, cbsPrio |-> 0, idleSlope |-> 0, sendSlope |-> 0]

CbsInit ==
    /\ shaper = [s \in CbsSwitches |-> [i \in Shapers |-> Unused]]
    /\ reserved = [x \in CbsPorts \X Classes |-> 0]

Serves(entry, port, prio) == entry.cbsPort = port /\ entry.cbsPrio = prio

(* Mutated form of the next definition: a shaper that is free is taken at once. *)
FirstUsableShaper(s, port, prio) ==
    LET usable == {i \in Shapers : Serves(shaper[s][i], port, prio) \/ shaper[s][i].sendSlope = 0}
    IN IF usable = {} THEN SJA1105P_INVALID_SHAPER_ID
       ELSE CHOOSE i \in usable : \A j \in usable : i <= j

(* The shaper of a port and priority, or else the first that is free. *)
GetShaperId(s, port, prio) ==
    LET serving == {i \in Shapers : Serves(shaper[s][i], port, prio)}
        free == {i \in Shapers : shaper[s][i].sendSlope = 0}
        candidates == IF serving # {} THEN serving ELSE free
    IN IF candidates = {} THEN SJA1105P_INVALID_SHAPER_ID
       ELSE CHOOSE i \in candidates : \A j \in candidates : i <= j

ShaperFor(l, prio) ==
    GetShaperId(CbsPhysicalPort[l].switchId, CbsPhysicalPort[l].physicalPort, prio)

(* What the shaper found has reserved; nothing, if none was found. *)
FoundSlope(l, prio) ==
    LET id == ShaperFor(l, prio)
    IN IF id = SJA1105P_INVALID_SHAPER_ID THEN 0 ELSE shaper[CbsPhysicalPort[l].switchId][id].idleSlope

(* SJA1105P_configCbs: without a shaper nothing is written.  The port that is   *)
(* written is the logical one.                                                 *)
ConfigCbs(l, prio, idleSlope, sendSlope) ==
    LET id == ShaperFor(l, prio)
    IN shaper' = IF id = SJA1105P_INVALID_SHAPER_ID THEN shaper
                 ELSE [shaper EXCEPT ![CbsPhysicalPort[l].switchId][id] =
                          [cbsPort |-> l, cbsPrio |-> prio,
                           idleSlope |-> idleSlope, sendSlope |-> sendSlope]]

SendSlope(idleSlope) == (PortRate - idleSlope) % SlopeRange

(* The caller is granted what the shaper found is given in addition. *)
RegisterStreamToCbs(l, prio, slope) ==
    LET idleSlope == (FoundSlope(l, prio) + slope) % SlopeRange
    IN /\ ConfigCbs(l, prio, idleSlope, SendSlope(idleSlope))
       /\ reserved' = IF ShaperFor(l, prio) = SJA1105P_INVALID_SHAPER_ID THEN reserved
                      ELSE [reserved EXCEPT ![<<l, prio>>] = @ + slope]

(* Mutated form of the next definition: the shaper is left as if it were free. *)
SlopeWithoutLast(l, prio, slope) == 0
SlopeWithout(l, prio, slope) == (FoundSlope(l, prio) - slope) % SlopeRange

(* A stream is given up, without a look at whether there was one.  Its shaper   *)
(* stays in use.                                                               *)
DeregisterStreamFromCbs(l, prio, slope) ==
    LET idleSlope == SlopeWithout(l, prio, slope)
    IN /\ ConfigCbs(l, prio, idleSlope, SendSlope(idleSlope))
       /\ reserved' = IF ShaperFor(l, prio) = SJA1105P_INVALID_SHAPER_ID THEN reserved
                      ELSE [reserved EXCEPT ![<<l, prio>>] = @ - slope]

(* The caller sets the slopes of a shaper itself. *)
SetSlopes(l, prio, slope) ==
    /\ ConfigCbs(l, prio, slope, SendSlope(slope))
    /\ reserved' = IF ShaperFor(l, prio) = SJA1105P_INVALID_SHAPER_ID THEN reserved
                   ELSE [reserved EXCEPT ![<<l, prio>>] = slope]

(* A shaper is removed, with the grants of the port that was told of it last. *)
RemoveCbs(s, id) ==
    /\ shaper' = [shaper EXCEPT ![s][id] = Unused]
    /\ reserved' = [reserved EXCEPT ![<<shaper[s][id].cbsPort, shaper[s][id].cbsPrio>>] = 0]

(* What callers keep to: they reserve less than the port's bandwidth, give up   *)
(* only streams they registered, and remove shapers they were told of.         *)
CbsNext ==
    \/ \E l \in CbsPorts, prio \in Classes, slope \in IdleSlopes :
          \/ /\ reserved[<<l, prio>>] + slope < PortRate
             /\ RegisterStreamToCbs(l, prio, slope)
          \/ /\ reserved[<<l, prio>>] >= slope
             /\ DeregisterStreamFromCbs(l, prio, slope)
          \/ /\ slope < PortRate
             /\ SetSlopes(l, prio, slope)
    \/ \E s \in CbsSwitches, id \in Shapers :
          /\ shaper[s][id] # Unused
          /\ RemoveCbs(s, id)

CbsSpec == CbsInit /\ [][CbsNext]_cbsVars

-----------------------------------------------------------------------------
CbsTypeOK ==
    /\ shaper \in [CbsSwitches -> [Shapers ->
          [cbsPort : CbsPorts \cup {0}, cbsPrio : Classes \cup {0},
           idleSlope : 0 .. SlopeRange - 1, sendSlope : 0 .. SlopeRange - 1]]]
    /\ reserved \in [CbsPorts \X Classes -> 0 .. PortRate]

(* What callers were granted is what the switch reserves: the streams of a port  *)
(* and priority share one shaper, which has the sum of their slopes and leaves   *)
(* the rest of the bandwidth, and no shaper keeps bandwidth for nobody.  So it   *)
(* is where logical ports have their physical numbers, which configCbs writes    *)
(* and getShaperId compares.                                                     *)
ReservationsCounted ==
    \A l \in CbsPorts, prio \in Classes :
        LET s == CbsPhysicalPort[l].switchId
            serving == {i \in Shapers : Serves(shaper[s][i], CbsPhysicalPort[l].physicalPort, prio)}
        IN /\ Cardinality(serving) <= 1
           /\ reserved[<<l, prio>>] > 0 => serving # {}
           /\ \A i \in serving : /\ shaper[s][i].idleSlope = reserved[<<l, prio>>]
                                 /\ shaper[s][i].sendSlope = PortRate - reserved[<<l, prio>>]
=============================================================================
