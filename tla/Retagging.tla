----------------------------- MODULE Retagging ------------------------------
(***************************************************************************)
(* Retagging and bypassing                                                 *)
(* (platform_independent/src/NXP_SJA1105P_vlan.c). Both kinds of rules of  *)
(* a VLAN share one entry of the retagging tables, which is the same entry *)
(* in every switch. The driver remembers the VLAN of each entry, and which *)
(* kinds of rules use it; the rules themselves are only in the switches.   *)
(***************************************************************************)
EXTENDS Integers, FiniteSets

CONSTANTS
    NSwitches,    \* SJA1105P_N_SWITCHES
    NEntries,     \* SJA1105P_N_RETAG_ENTRIES
    Port,         \* logical ports
    SwitchOf,     \* the switch a logical port belongs to
    Vlan,         \* VLAN IDs, with 0
    Rule,         \* retagging rules: ingress and egress ports, ingress VLAN
    Bypass,       \* bypassing rules: destination ports, learning disabled?
    NoRule,
    StoreErrors   \* may the switches report errors for entries stored?

ASSUME RetaggingAssumption ==
    /\ NSwitches \in Nat \ {0}
    /\ NEntries \in Nat
    /\ SwitchOf \in [Port -> 0 .. NSwitches - 1]
    /\ 0 \in Vlan
    /\ Rule \subseteq [ingressPorts : (SUBSET Port) \ {{}}, egressPorts : SUBSET Port,
                       ingressVlanId : Vlan]
    /\ Bypass \subseteq [destPorts : SUBSET Port, learningDisabled : BOOLEAN]
    /\ NoRule \notin Rule \cup Bypass
    /\ StoreErrors \in BOOLEAN

VARIABLES
    g_retaggingTableVlanId,
    g_retaggingValid,
    g_bypassingValid,
    entry         \* per switch and index: the entry in the hardware

vars == <<g_retaggingTableVlanId, g_retaggingValid, g_bypassingValid, entry>>

-----------------------------------------------------------------------------
Switch == 0 .. NSwitches - 1
Index == 0 .. NEntries - 1
LocalPorts(s) == {p \in Port : SwitchOf[p] = s}

Entry == [valident : BOOLEAN, vlanIng : Vlan, vlanEgr : Vlan,
          ingPort : SUBSET Port, egrPort : SUBSET Port,
          doNotLearn : BOOLEAN, useDestports : BOOLEAN,
          destports : SUBSET Port]

TypeOK ==
    /\ g_retaggingTableVlanId \in [Index -> Vlan]
    /\ g_retaggingValid \in [Index -> BOOLEAN]
    /\ g_bypassingValid \in [Index -> BOOLEAN]
    /\ entry \in [Switch -> [Index -> Entry]]

Init ==
    /\ g_retaggingTableVlanId = [i \in Index |-> 0]
    /\ g_retaggingValid = [i \in Index |-> FALSE]
    /\ g_bypassingValid = [i \in Index |-> FALSE]
    /\ entry = [s \in Switch |-> [i \in Index |->
           [valident |-> FALSE, vlanIng |-> 0, vlanEgr |-> 0, ingPort |-> {},
            egrPort |-> {}, doNotLearn |-> FALSE, useDestports |-> FALSE,
            destports |-> {}]]]

-----------------------------------------------------------------------------
(* getRetaggingEntryIndex *)

Used(i) == g_retaggingValid[i] \/ g_bypassingValid[i]
Matches(i, v) == Used(i) /\ g_retaggingTableVlanId[i] = v
IsFirstMatch(i, v) == Matches(i, v) /\ \A j \in Index : j < i => ~Matches(j, v)
IsFirstFree(i) == ~Used(i) /\ \A j \in Index : j < i => Used(j)

\* Mutant of IsEntryOf: a free entry is taken although there is one in use.
IsFirstMatchOrFree(i, v) ==
    /\ Matches(i, v) \/ ~Used(i)
    /\ \A j \in Index : j < i => ~(Matches(j, v) \/ ~Used(j))

\* The index used for VLAN v: the entry in use for it, or else the first free
\* one.
IsEntryOf(i, v) ==
    \/ IsFirstMatch(i, v)
    \/ IsFirstFree(i) /\ \A j \in Index : ~Matches(j, v)

\* The search claims the first free entry it passes, even if it finds another.
Claimed(v) ==
    [i \in Index |->
        IF IsFirstFree(i) /\ \A j \in Index : j < i => ~Matches(j, v)
        THEN v ELSE g_retaggingTableVlanId[i]]

-----------------------------------------------------------------------------
(* Storing entries. Stored writes the updated entries to index i. A switch    *)
(* with an error is left with any entry there: one read in vain is written    *)
(* with what the driver's buffer holds of another switch, or of nothing.      *)

StoreFailure == IF StoreErrors THEN SUBSET Switch ELSE {{}}

Stored(i, failed, updated) ==
    \E left \in [failed -> Entry] :
        entry' = [s \in Switch |->
            [entry[s] EXCEPT ![i] = IF s \in failed THEN left[s] ELSE updated[s]]]

\* Mutant of Remembered: an entry without a VLAN is marked by an ID out of range.
RememberedOutOfRange(v, i, valid) ==
    IF valid THEN Claimed(v) ELSE [Claimed(v) EXCEPT ![i] = 4096]

\* storeRetaggingEntry forgets the VLAN of an entry it invalidates.
Remembered(v, i, valid) ==
    IF valid THEN Claimed(v) ELSE [Claimed(v) EXCEPT ![i] = 0]

\* A flag changes only if all switches were written.
Flag(flag, i, value, failed) ==
    IF failed = {} THEN [flag EXCEPT ![i] = value] ELSE flag

-----------------------------------------------------------------------------
(* Operations *)

StartRetagging(v, rule, failed) ==
    \E i \in Index :
        /\ IsEntryOf(i, v)
        /\ Stored(i, failed, [s \in Switch |->
               [entry[s][i] EXCEPT !.valident = TRUE,
                         !.vlanIng = rule.ingressVlanId, !.vlanEgr = v,
                         !.ingPort = rule.ingressPorts \cap LocalPorts(s),
                         !.egrPort = rule.egressPorts \cap LocalPorts(s)]])
        /\ g_retaggingTableVlanId' = Claimed(v)
        /\ g_retaggingValid' = Flag(g_retaggingValid, i, TRUE, failed)
        /\ UNCHANGED g_bypassingValid

\* Mutant of StopRetagging: the entry is always invalidated.
StopRetaggingInvalidates(v, failed) ==
    \E i \in Index :
        /\ IsEntryOf(i, v)
        /\ Stored(i, failed, [s \in Switch |->
               [entry[s][i] EXCEPT !.valident = FALSE, !.ingPort = {}, !.egrPort = {}]])
        /\ g_retaggingTableVlanId' = Remembered(v, i, FALSE)
        /\ g_retaggingValid' = Flag(g_retaggingValid, i, FALSE, failed)
        /\ UNCHANGED g_bypassingValid

StopRetagging(v, failed) ==
    \E i \in Index :
        /\ IsEntryOf(i, v)
        /\ Stored(i, failed, [s \in Switch |->
               [entry[s][i] EXCEPT !.valident = g_bypassingValid[i],
                         !.ingPort = {}, !.egrPort = {}]])
        /\ g_retaggingTableVlanId' = Remembered(v, i, g_bypassingValid[i])
        /\ g_retaggingValid' = Flag(g_retaggingValid, i, FALSE, failed)
        /\ UNCHANGED g_bypassingValid

EnableBypassing(v, rule, failed) ==
    \E i \in Index :
        /\ IsEntryOf(i, v)
        /\ Stored(i, failed, [s \in Switch |->
               [entry[s][i] EXCEPT !.valident = TRUE, !.vlanEgr = v,
                         !.doNotLearn = rule.learningDisabled,
                         !.useDestports = TRUE,
                         !.destports = rule.destPorts \cap LocalPorts(s)]])
        /\ g_retaggingTableVlanId' = Claimed(v)
        /\ g_bypassingValid' = Flag(g_bypassingValid, i, TRUE, failed)
        /\ UNCHANGED g_retaggingValid

\* Mutant of DisableBypassing: useDestports is not reset.
DisableBypassingKeepsPorts(v, failed) ==
    \E i \in Index :
        /\ IsEntryOf(i, v)
        /\ Stored(i, failed, [s \in Switch |->
               [entry[s][i] EXCEPT !.valident = g_retaggingValid[i],
                         !.doNotLearn = FALSE]])
        /\ g_retaggingTableVlanId' = Remembered(v, i, g_retaggingValid[i])
        /\ g_bypassingValid' = Flag(g_bypassingValid, i, FALSE, failed)
        /\ UNCHANGED g_retaggingValid

DisableBypassing(v, failed) ==
    \E i \in Index :
        /\ IsEntryOf(i, v)
        /\ Stored(i, failed, [s \in Switch |->
               [entry[s][i] EXCEPT !.valident = g_retaggingValid[i],
                         !.doNotLearn = FALSE, !.useDestports = FALSE]])
        /\ g_retaggingTableVlanId' = Remembered(v, i, g_retaggingValid[i])
        /\ g_bypassingValid' = Flag(g_bypassingValid, i, FALSE, failed)
        /\ UNCHANGED g_retaggingValid

\* Every operation fails without effect if the VLAN has no entry and none is
\* free.
OutOfEntries(v) ==
    /\ \A i \in Index : ~IsEntryOf(i, v)
    /\ UNCHANGED vars

Start == \E v \in Vlan, r \in Rule, f \in StoreFailure : StartRetagging(v, r, f)
Stop == \E v \in Vlan, f \in StoreFailure : StopRetagging(v, f)
Enable == \E v \in Vlan, b \in Bypass, f \in StoreFailure : EnableBypassing(v, b, f)
Disable == \E v \in Vlan, f \in StoreFailure : DisableBypassing(v, f)
Refuse == \E v \in Vlan : OutOfEntries(v)

Next == Start \/ Stop \/ Enable \/ Disable \/ Refuse

Spec == Init /\ [][Next]_vars

-----------------------------------------------------------------------------
(* Properties *)

\* A VLAN never has two entries in use, between which a frame or a later
\* operation would have to choose.
OneEntryPerVlan ==
    \A i, j \in Index :
        (Used(i) /\ Used(j) /\ g_retaggingTableVlanId[i] = g_retaggingTableVlanId[j])
            => i = j

\* In every switch the valid entries are the ones in use, for the VLAN the
\* driver remembers, with ingress ports only while retagging and destination
\* ports only while bypassing: nothing is left behind in an entry by its former
\* uses.
EntriesMatchFlags ==
    \A s \in Switch, i \in Index :
        /\ entry[s][i].valident <=> Used(i)
        /\ Used(i) => entry[s][i].vlanEgr = g_retaggingTableVlanId[i]
        /\ ~g_retaggingValid[i] => entry[s][i].ingPort = {}
        /\ entry[s][i].useDestports <=> g_bypassingValid[i]

\* The rules the hardware applies to VLAN v, put together from all switches.
ValidFor(v) == {i \in Index : \A s \in Switch :
                    entry[s][i].valident /\ entry[s][i].vlanEgr = v}
Joined(i, field) == UNION {entry[s][i][field] : s \in Switch}

RetaggingOf(v) ==
    LET active == {i \in ValidFor(v) : Joined(i, "ingPort") # {}} IN
    IF active = {} THEN NoRule
    ELSE LET i == CHOOSE i \in active : TRUE IN
         [ingressPorts |-> Joined(i, "ingPort"),
          egressPorts |-> Joined(i, "egrPort"),
          ingressVlanId |-> entry[0][i].vlanIng]

BypassingOf(v) ==
    LET active == {i \in ValidFor(v) : \A s \in Switch : entry[s][i].useDestports} IN
    IF active = {} THEN NoRule
    ELSE LET i == CHOOSE i \in active : TRUE IN
         [destPorts |-> Joined(i, "destports"),
          learningDisabled |-> entry[0][i].doNotLearn]

\* The entries, shared by two kinds of rules, implement one rule of each kind
\* per VLAN.
Service == INSTANCE RetagService WITH
    MaxVlans <- NEntries,
    retagging <- [v \in Vlan |-> RetaggingOf(v)],
    bypassing <- [v \in Vlan |-> BypassingOf(v)]

ImplementsRetagService == Service!Spec
=============================================================================
