------------------------------ MODULE ArlTable ------------------------------
(***************************************************************************)
(* The address resolution table                                            *)
(* (platform_independent/src/NXP_SJA1105P_addressResolutionTable.c): the   *)
(* driver adds, reads, changes and removes permanent entries in the tables *)
(* of a line of cascaded switches, in which the switches learn entries of  *)
(* their own. The driver keeps no copy: the tables are its state.          *)
(*                                                                         *)
(* An address stands for a MAC address in a VLAN. Physical ports are the   *)
(* logical ports of their switch, and two links: "up", the cascaded port   *)
(* to the next switch, and "down", the host port to the previous one.      *)
(***************************************************************************)
EXTENDS Integers, FiniteSets

CONSTANTS
    NSwitches,   \* SJA1105P_N_SWITCHES
    NEntries,    \* N_ARL_ENTRIES; as an index field is wide: a power of two
    Port,        \* logical ports
    SwitchOf,    \* the switch a logical port belongs to
    Address,
    NoEntry,     \* content of an index that holds no valid entry
    StaleEntry,  \* what an index that holds no valid entry may read as
    MissErrors   \* may a search that finds nothing set the error flag?

ASSUME ArlAssumption ==
    /\ NSwitches \in Nat \ {0}
    /\ NEntries \in Nat \ {0}
    /\ SwitchOf \in [Port -> 0 .. NSwitches - 1]
    /\ Port \cap {"up", "down"} = {}
    /\ MissErrors \in (SUBSET BOOLEAN) \ {{}}

VARIABLES
    table,       \* per switch and index: the entry
    requested    \* per index: the ports its permanent entry was added with

arlVars == <<table, requested>>

-----------------------------------------------------------------------------
Switch == 0 .. NSwitches - 1
MasterSwitch == 0
Index == 0 .. NEntries - 1
LocalPorts(s) == {p \in Port : SwitchOf[p] = s}
PhysicalPort == Port \cup {"up", "down"}

Entry == [lockeds : BOOLEAN, address : Address, destports : SUBSET PhysicalPort,
          mirror : BOOLEAN, retag : BOOLEAN]

ASSUME EntryAssumption ==
    /\ NoEntry \notin Entry
    /\ StaleEntry \in (SUBSET Entry) \ {{}}

TypeOK ==
    /\ table \in [Switch -> [Index -> Entry \cup {NoEntry}]]
    /\ requested \in [Index -> SUBSET Port]

Init ==
    /\ table = [s \in Switch |-> [i \in Index |-> NoEntry]]
    /\ requested = [i \in Index |-> {}]

Holds(s, i, a) == table[s][i] # NoEntry /\ table[s][i].address = a
Permanent(s, i) == table[s][i] # NoEntry /\ table[s][i].lockeds

-----------------------------------------------------------------------------
(* Static functions *)

\* Mutant of DestPorts: the last switch of the line forwards on to a port that
\* is none.
DestPortsToNowhere(ports, s) ==
    (ports \cap LocalPorts(s))
        \cup {l \in {"up"} : \E p \in ports : SwitchOf[p] > s}
        \cup {l \in {"down"} : \E p \in ports : SwitchOf[p] < s}
        \cup {l \in {"nowhere"} : s = NSwitches - 1}

\* Mutant of DestPorts: the last destination switch forwards on, too.
DestPortsUpToLast(ports, s) ==
    (ports \cap LocalPorts(s))
        \cup {l \in {"up"} : \E p \in ports : SwitchOf[p] >= s}
        \cup {l \in {"down"} : \E p \in ports : SwitchOf[p] < s}

\* The ports by which switch s forwards to the given logical ports: its own, to
\* the next switch unless none of them lies beyond, to the previous switch
\* unless none of them lies before.
DestPorts(ports, s) ==
    (ports \cap LocalPorts(s))
        \cup {l \in {"up"} : \E p \in ports : SwitchOf[p] > s}
        \cup {l \in {"down"} : \E p \in ports : SwitchOf[p] < s}

\* Mutant of IsFreeEntry: any free index instead of the first.
IsFreeEntryAnywhere(i) == ~Permanent(MasterSwitch, i)

\* The lowest index that holds no permanent entry, in the first switch.
IsFreeEntry(i) ==
    /\ ~Permanent(MasterSwitch, i)
    /\ \A j \in Index : j < i => Permanent(MasterSwitch, j)

TableFull == \A i \in Index : Permanent(MasterSwitch, i)

\* The lowest index that holds the address, or the invalid index NEntries.
FindEntryIndex(a) ==
    LET found == {i \in Index : Holds(MasterSwitch, i, a)} IN
    IF found = {}
    THEN {[error |-> e, index |-> NEntries] : e \in MissErrors}
    ELSE {[error |-> FALSE, index |-> i] :
              i \in {j \in found : \A k \in found : j <= k}}

\* Mutant of Located: the result of the search is not checked.
LocatedUnchecked(a) == {r.index % NEntries : r \in FindEntryIndex(a)}

\* The results a search may have for the caller: an index is found if it is at
\* most NEntries. The index field has no room for NEntries itself, which the
\* switch takes for 0.
Located(a) ==
    {r.index % NEntries :
        r \in {q \in FindEntryIndex(a) : ~q.error /\ q.index <= NEntries}}

\* What the READ command returns for index i of switch s, given what the
\* switch has there in place of a valid entry.
ReadBack(s, i, stale) == IF table[s][i] = NoEntry THEN stale ELSE table[s][i]
InvalidAt(i) == {s \in Switch : table[s][i] = NoEntry}

\* What readArlTableEntryByIndex may return: the address of the entry in the
\* first switch, and the ports of the entries at this index in all switches.
EntryRead(i) ==
    [address : {ReadBack(MasterSwitch, i, x).address : x \in StaleEntry},
     ports : {p \in SUBSET Port : \A s \in Switch : \E x \in StaleEntry :
                 p \cap LocalPorts(s) =
                     ReadBack(s, i, x).destports \cap LocalPorts(s)}]

-----------------------------------------------------------------------------
(* Operations *)

\* Mutant of AddArlTableEntry: only the switches with a destination are written.
AddArlTableEntryAtDestinations(a, ports) ==
    \/ /\ TableFull
       /\ UNCHANGED arlVars
    \/ \E i \in Index :
           /\ IsFreeEntry(i)
           /\ table' = [s \in Switch |->
                  IF ports \cap LocalPorts(s) = {} THEN table[s]
                  ELSE [table[s] EXCEPT ![i] =
                      [lockeds |-> TRUE, address |-> a,
                       destports |-> DestPorts(ports, s),
                       mirror |-> FALSE, retag |-> FALSE]]]
           /\ requested' = [requested EXCEPT ![i] = ports]

\* A full table is reported as success.
AddArlTableEntry(a, ports) ==
    \/ /\ TableFull
       /\ UNCHANGED arlVars
    \/ \E i \in Index :
           /\ IsFreeEntry(i)
           /\ table' = [s \in Switch |->
                  [table[s] EXCEPT ![i] =
                      [lockeds |-> TRUE, address |-> a,
                       destports |-> DestPorts(ports, s),
                       mirror |-> FALSE, retag |-> FALSE]]]
           /\ requested' = [requested EXCEPT ![i] = ports]

RemoveArlTableEntryByIndex(i) ==
    /\ table' = [s \in Switch |-> [table[s] EXCEPT ![i] = NoEntry]]
    /\ requested' = [requested EXCEPT ![i] = {}]

RemoveArlTableEntryByAddress(a) ==
    \/ \E i \in Located(a) : RemoveArlTableEntryByIndex(i)
    \/ /\ \E r \in FindEntryIndex(a) : r.error
       /\ UNCHANGED arlVars

\* Whatever is read at the index, in each switch for itself, is written back
\* as a valid permanent entry: executeTcamCommand sets lockeds and valident.
EnableArlMirroring(i, enable) ==
    /\ \E stale \in [InvalidAt(i) -> StaleEntry] :
           table' = [s \in Switch |-> [table[s] EXCEPT ![i] =
               [ReadBack(s, i, stale[s]) EXCEPT !.mirror = enable,
                                                !.lockeds = TRUE]]]
    /\ UNCHANGED requested

EnableArlRetagging(i, enable) ==
    /\ \E stale \in [InvalidAt(i) -> StaleEntry] :
           table' = [s \in Switch |-> [table[s] EXCEPT ![i] =
               [ReadBack(s, i, stale[s]) EXCEPT !.retag = enable,
                                                !.lockeds = TRUE]]]
    /\ UNCHANGED requested

-----------------------------------------------------------------------------
(* The switches *)

\* Switch s learns on which port an address it does not know is found, at an
\* index that holds no valid entry.
Learn(s, i, a, port) ==
    /\ table[s][i] = NoEntry
    /\ \A j \in Index : ~Holds(s, j, a)
    /\ port \in LocalPorts(s) \cup {l \in {"up"} : s < NSwitches - 1}
                              \cup {l \in {"down"} : s > 0}
    /\ table' = [table EXCEPT ![s][i] =
           [lockeds |-> FALSE, address |-> a, destports |-> {port},
            mirror |-> FALSE, retag |-> FALSE]]
    /\ UNCHANGED requested

\* ... and forgets it.
Age(s, i) ==
    /\ table[s][i] # NoEntry /\ ~Permanent(s, i)
    /\ table' = [table EXCEPT ![s][i] = NoEntry]
    /\ UNCHANGED requested

-----------------------------------------------------------------------------
Add == \E a \in Address, ports \in SUBSET Port : AddArlTableEntry(a, ports)
RemoveByIndex == \E i \in Index : RemoveArlTableEntryByIndex(i)
RemoveByAddress == \E a \in Address : RemoveArlTableEntryByAddress(a)
\* A caller names an entry by the index that "is assigned when adding an entry
\* and can be referred to afterwards" (addressResolutionTable.h, line 64). The
\* functions do not check that the entry is still there: see ChangeAny.
Mirror == \E i \in Index, e \in BOOLEAN :
              Permanent(MasterSwitch, i) /\ EnableArlMirroring(i, e)
Retag == \E i \in Index, e \in BOOLEAN :
             Permanent(MasterSwitch, i) /\ EnableArlRetagging(i, e)

\* Mirroring and retagging of whatever is at an index.
ChangeAny == \E i \in Index, e \in BOOLEAN :
                 EnableArlMirroring(i, e) \/ EnableArlRetagging(i, e)

SwitchLearns == \E s \in Switch, i \in Index, a \in Address, p \in PhysicalPort :
                    Learn(s, i, a, p)
SwitchForgets == \E s \in Switch, i \in Index : Age(s, i)

Next == \/ Add \/ RemoveByIndex \/ RemoveByAddress \/ Mirror \/ Retag
        \/ SwitchLearns \/ SwitchForgets

Spec == Init /\ [][Next]_arlVars

-----------------------------------------------------------------------------
(* Properties *)

\* All switches hold the same permanent entries at the same indices, whatever
\* they learn: an index found free or occupied in the first switch is so in
\* all, and one found by address there names the same entry everywhere.
TablesAgree ==
    \A i \in Index, s \in Switch :
        /\ Permanent(s, i) <=> Permanent(MasterSwitch, i)
        /\ Permanent(s, i) =>
               table[s][i].address = table[MasterSwitch][i].address

\* The ports a frame reaches that enters at switch s and is forwarded by the
\* entries at index i: it goes up or down the line as long as each switch on
\* the way forwards it so.
Reached(i, s) ==
    {p \in Port :
        /\ p \in table[SwitchOf[p]][i].destports
        /\ \A t \in Switch :
               /\ (s <= t /\ t < SwitchOf[p]) => "up" \in table[t][i].destports
               /\ (SwitchOf[p] < t /\ t <= s) => "down" \in table[t][i].destports}

\* A frame for a permanent entry reaches exactly the ports the entry was added
\* with, at whichever switch it enters, and is sent over no link behind which
\* there is none of them. This is said of entries that were added: what a switch
\* had learned and mirroring by index made permanent goes where it was learned.
ForwardsExactly ==
    \A i \in Index : Permanent(MasterSwitch, i) =>
        \A s \in Switch :
            /\ Reached(i, s) = requested[i]
            /\ "up" \in table[s][i].destports =>
                   \E p \in requested[i] : SwitchOf[p] > s
            /\ "down" \in table[s][i].destports =>
                   \E p \in requested[i] : SwitchOf[p] < s

\* A switch looks an address up at the lowest index that holds it. If that is
\* not a permanent entry, none of its permanent entries holds the address: what
\* a switch has learned never hides what it has been told.
LearnedHidesNothing ==
    \A s \in Switch, i \in Index, j \in Index, a \in Address :
        /\ Permanent(s, i) /\ Holds(s, i, a)
        /\ ~Permanent(s, j) /\ Holds(s, j, a)
        => i < j

\* What the permanent entries make of frames for an address: nothing, or the
\* ports of the first entry.
Forwarding(a) ==
    {requested[i] : i \in {j \in Index :
        /\ Permanent(MasterSwitch, j) /\ Holds(MasterSwitch, j, a)
        /\ \A k \in Index : k < j =>
               ~(Permanent(MasterSwitch, k) /\ Holds(MasterSwitch, k, a))}}
=============================================================================
