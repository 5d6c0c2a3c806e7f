----------------------------- MODULE ArlProofs ------------------------------
(***************************************************************************)
(* Proofs about the address resolution table and its users, for every line *)
(* of switches, table size and set of ports and addresses.                 *)
(***************************************************************************)
EXTENDS Fdb, TLAPS

\* The ports of a permanent entry in each switch are those computed from what
\* was requested.
PortsAsRequested ==
    \A i \in Index, s \in Switch : Permanent(MasterSwitch, i) =>
        table[s][i].destports = DestPorts(requested[i], s)

\* The inductive invariant. LearnedHidesNothing needs TablesAgree: only because
\* the first switch tells which indices are occupied in all of them is every
\* index below the one an entry is added at permanent in every switch.
ArlInv ==
    /\ TypeOK
    /\ TablesAgree
    /\ PortsAsRequested
    /\ LearnedHidesNothing

\* A step writes the entries n to index i of all switches.
Writes(n, i) ==
    \A s \in Switch : /\ table'[s][i] = n[s]
                      /\ \A j \in Index \ {i} : table'[s][j] = table[s][j]

-----------------------------------------------------------------------------
\* The ports computed for a switch are ports of a switch.
LEMMA DestPortsType ==
    ASSUME NEW ports \in SUBSET Port, NEW s \in Switch
    PROVE  DestPorts(ports, s) \in SUBSET PhysicalPort
BY DEF DestPorts, PhysicalPort, LocalPorts

\* There is a first switch.
LEMMA MasterIsSwitch == MasterSwitch \in Switch
BY ArlAssumption DEF MasterSwitch, Switch

\* What it is for an index of all switches to be written.
LEMMA WriteToAll ==
    ASSUME TypeOK, NEW i \in Index, NEW n \in [Switch -> Entry \cup {NoEntry}],
           table' = [s \in Switch |-> [table[s] EXCEPT ![i] = n[s]]]
    PROVE  /\ Writes(n, i)
           /\ table' \in [Switch -> [Index -> Entry \cup {NoEntry}]]
<1>1. \A s \in Switch : table[s] \in [Index -> Entry \cup {NoEntry}]
  BY DEF TypeOK
<1>2. \A s \in Switch : table'[s] = [table[s] EXCEPT ![i] = n[s]]
  OBVIOUS
<1>3. \A s \in Switch : table'[s] \in [Index -> Entry \cup {NoEntry}]
  BY <1>1, <1>2
<1>. QED
  BY <1>1, <1>2, <1>3 DEF Writes

\* The invariant holds initially.
LEMMA InitArlInv == Init => ArlInv
<1>. SUFFICES ASSUME Init PROVE ArlInv
  OBVIOUS
<1>1. TypeOK
  BY DEF Init, TypeOK
<1>2. \A s \in Switch, i \in Index : ~Permanent(s, i)
  BY DEF Init, Permanent
<1>. QED
  BY <1>1, <1>2, MasterIsSwitch
     DEF ArlInv, TablesAgree, PortsAsRequested, LearnedHidesNothing

-----------------------------------------------------------------------------
\* Adding an entry: the index is free in every switch, and every lower one is
\* permanent in every switch.
LEMMA AddPreserves ==
    ASSUME ArlInv, NEW a \in Address, NEW ports \in SUBSET Port,
           AddArlTableEntry(a, ports)
    PROVE  ArlInv'
<1>1. CASE UNCHANGED arlVars
  BY <1>1 DEF ArlInv, TypeOK, TablesAgree, PortsAsRequested,
              LearnedHidesNothing, Permanent, Holds, arlVars
<1>2. ASSUME NEW i \in Index, IsFreeEntry(i),
             table' = [s \in Switch |->
                  [table[s] EXCEPT ![i] =
                      [lockeds |-> TRUE, address |-> a,
                       destports |-> DestPorts(ports, s),
                       mirror |-> FALSE, retag |-> FALSE]]],
             requested' = [requested EXCEPT ![i] = ports]
      PROVE  ArlInv'
  <2>. DEFINE n == [s \in Switch |->
                      [lockeds |-> TRUE, address |-> a,
                       destports |-> DestPorts(ports, s),
                       mirror |-> FALSE, retag |-> FALSE]]
  <2>1. n \in [Switch -> Entry \cup {NoEntry}]
    BY DestPortsType DEF Entry
  <2>2. \A s \in Switch : /\ n[s] # NoEntry
                          /\ n[s].lockeds
                          /\ n[s].address = a
                          /\ n[s].destports = DestPorts(ports, s)
    <3>1. \A s \in Switch : n[s] \in Entry
      BY DestPortsType DEF Entry
    <3>. QED
      BY <3>1, EntryAssumption
  <2>3. table' = [s \in Switch |-> [table[s] EXCEPT ![i] = n[s]]]
    BY <1>2
  <2>. HIDE DEF n
  <2>4. Writes(n, i) /\ table' \in [Switch -> [Index -> Entry \cup {NoEntry}]]
    BY <2>1, <2>3, WriteToAll DEF ArlInv
  <2>5. TypeOK'
    BY <1>2, <2>4 DEF ArlInv, TypeOK
  <2>6. \A s \in Switch : Permanent(s, i)'
    BY <2>2, <2>4 DEF Writes, Permanent
  <2>7. \A s \in Switch, j \in Index \ {i} : Permanent(s, j)' <=> Permanent(s, j)
    BY <2>4 DEF Writes, Permanent
  <2>8. TablesAgree'
    BY <2>2, <2>4, <2>6, <2>7, MasterIsSwitch DEF ArlInv, TablesAgree, Writes
  <2>9. PortsAsRequested'
    BY <1>2, <2>2, <2>4, <2>7, MasterIsSwitch
       DEF ArlInv, TypeOK, PortsAsRequested, Writes
  <2>10. \A s \in Switch, j \in Index : j < i => Permanent(s, j)
    BY <1>2 DEF IsFreeEntry, ArlInv, TablesAgree
  <2>11. \A s \in Switch, j \in Index \ {i}, b \in Address :
             Holds(s, j, b)' <=> Holds(s, j, b)
    BY <2>4 DEF Writes, Holds
  <2>12. LearnedHidesNothing'
    <3>. SUFFICES ASSUME NEW s \in Switch, NEW k \in Index, NEW j \in Index,
                         NEW b \in Address,
                         Permanent(s, k)', Holds(s, k, b)',
                         ~Permanent(s, j)', Holds(s, j, b)'
                  PROVE  k < j
      BY DEF LearnedHidesNothing
    <3>1. j # i /\ ~Permanent(s, j) /\ Holds(s, j, b)
      BY <2>6, <2>7, <2>11
    <3>2. CASE k = i
      BY <2>10, <3>1, <3>2 DEF Index
    <3>3. CASE k # i
      BY <2>7, <2>11, <3>1, <3>3 DEF ArlInv, LearnedHidesNothing
    <3>. QED
      BY <3>2, <3>3
  <2>. QED
    BY <2>5, <2>8, <2>9, <2>12 DEF ArlInv
<1>. QED
  BY <1>1, <1>2 DEF AddArlTableEntry

\* Removing an entry: the index becomes free in every switch.
LEMMA RemovePreserves ==
    ASSUME ArlInv, NEW i \in Index, RemoveArlTableEntryByIndex(i)
    PROVE  ArlInv'
<1>. DEFINE n == [s \in Switch |-> NoEntry]
<1>1. table' = [s \in Switch |-> [table[s] EXCEPT ![i] = n[s]]]
  BY DEF RemoveArlTableEntryByIndex
<1>2. n \in [Switch -> Entry \cup {NoEntry}] /\ \A s \in Switch : n[s] = NoEntry
  OBVIOUS
<1>. HIDE DEF n
<1>3. Writes(n, i) /\ table' \in [Switch -> [Index -> Entry \cup {NoEntry}]]
  BY <1>1, <1>2, WriteToAll DEF ArlInv
<1>4. TypeOK'
  BY <1>3 DEF ArlInv, TypeOK, RemoveArlTableEntryByIndex
<1>5. \A s \in Switch : ~Permanent(s, i)' /\ \A b \in Address : ~Holds(s, i, b)'
  BY <1>2, <1>3 DEF Writes, Permanent, Holds
<1>6. \A s \in Switch, j \in Index \ {i} :
          /\ Permanent(s, j)' <=> Permanent(s, j)
          /\ \A b \in Address : Holds(s, j, b)' <=> Holds(s, j, b)
          /\ table'[s][j] = table[s][j]
  BY <1>3 DEF Writes, Permanent, Holds
<1>7. TablesAgree'
  BY <1>5, <1>6, MasterIsSwitch DEF ArlInv, TablesAgree
<1>8. PortsAsRequested'
  BY <1>5, <1>6, MasterIsSwitch
     DEF ArlInv, TypeOK, PortsAsRequested, RemoveArlTableEntryByIndex
<1>9. LearnedHidesNothing'
  BY <1>5, <1>6 DEF ArlInv, LearnedHidesNothing
<1>. QED
  BY <1>4, <1>7, <1>8, <1>9 DEF ArlInv

-----------------------------------------------------------------------------
\* Rewriting a permanent entry with other flags leaves all that matters alone.
LEMMA FlagsPreserve ==
    ASSUME ArlInv, NEW i \in Index, Permanent(MasterSwitch, i),
           NEW n \in [Switch -> Entry],
           table' = [s \in Switch |-> [table[s] EXCEPT ![i] = n[s]]],
           \A s \in Switch : /\ n[s].lockeds
                             /\ n[s].address = table[s][i].address
                             /\ n[s].destports = table[s][i].destports,
           UNCHANGED requested
    PROVE  ArlInv'
<1>1. n \in [Switch -> Entry \cup {NoEntry}] /\ \A s \in Switch : n[s] # NoEntry
  BY EntryAssumption
<1>2. Writes(n, i) /\ table' \in [Switch -> [Index -> Entry \cup {NoEntry}]]
  BY <1>1, WriteToAll DEF ArlInv
<1>3. TypeOK'
  BY <1>2 DEF ArlInv, TypeOK
<1>4. \A s \in Switch : Permanent(s, i)
  BY DEF ArlInv, TablesAgree
<1>5. \A s \in Switch, j \in Index :
          /\ Permanent(s, j)' <=> Permanent(s, j)
          /\ \A b \in Address : Holds(s, j, b)' <=> Holds(s, j, b)
          /\ Permanent(s, j) =>
                 /\ table'[s][j].address = table[s][j].address
                 /\ table'[s][j].destports = table[s][j].destports
  <2>. SUFFICES ASSUME NEW s \in Switch, NEW j \in Index
                PROVE  /\ Permanent(s, j)' <=> Permanent(s, j)
                       /\ \A b \in Address : Holds(s, j, b)' <=> Holds(s, j, b)
                       /\ Permanent(s, j) =>
                            /\ table'[s][j].address = table[s][j].address
                            /\ table'[s][j].destports = table[s][j].destports
    OBVIOUS
  <2>1. CASE j = i
    BY <1>1, <1>2, <1>4, <2>1 DEF Writes, Permanent, Holds
  <2>2. CASE j # i
    BY <1>2, <2>2 DEF Writes, Permanent, Holds
  <2>. QED
    BY <2>1, <2>2
<1>6. TablesAgree'
  BY <1>5, MasterIsSwitch DEF ArlInv, TablesAgree
<1>7. PortsAsRequested'
  BY <1>5, MasterIsSwitch DEF ArlInv, PortsAsRequested, TablesAgree
<1>8. LearnedHidesNothing'
  BY <1>5 DEF ArlInv, LearnedHidesNothing
<1>. QED
  BY <1>3, <1>6, <1>7, <1>8 DEF ArlInv

\* Mirroring and retagging rewrite a permanent entry with other flags.
LEMMA MirrorPreserves ==
    ASSUME ArlInv, NEW i \in Index, NEW enable \in BOOLEAN,
           Permanent(MasterSwitch, i),
           EnableArlMirroring(i, enable) \/ EnableArlRetagging(i, enable)
    PROVE  ArlInv'
<1>0. Permanent(MasterSwitch, i) /\ UNCHANGED requested
  BY DEF EnableArlMirroring, EnableArlRetagging
<1>1. \A s \in Switch : table[s][i] \in Entry
  <2>. SUFFICES ASSUME NEW s \in Switch PROVE table[s][i] \in Entry
    OBVIOUS
  <2>1. table[s][i] # NoEntry
    BY <1>0 DEF ArlInv, TablesAgree, Permanent
  <2>2. table[s][i] \in Entry \cup {NoEntry}
    BY DEF ArlInv, TypeOK
  <2>. QED
    BY <2>1, <2>2
<1>. DEFINE m == [s \in Switch |-> [table[s][i] EXCEPT !.mirror = enable,
                                                       !.lockeds = TRUE]]
            r == [s \in Switch |-> [table[s][i] EXCEPT !.retag = enable,
                                                       !.lockeds = TRUE]]
<1>2. /\ m \in [Switch -> Entry] /\ r \in [Switch -> Entry]
      /\ \A s \in Switch : /\ m[s].lockeds
                           /\ m[s].address = table[s][i].address
                           /\ m[s].destports = table[s][i].destports
                           /\ r[s].lockeds
                           /\ r[s].address = table[s][i].address
                           /\ r[s].destports = table[s][i].destports
  BY <1>1 DEF Entry
<1>3. \/ table' = [s \in Switch |-> [table[s] EXCEPT ![i] = m[s]]]
      \/ table' = [s \in Switch |-> [table[s] EXCEPT ![i] = r[s]]]
  <2>1. \A s \in Switch :
          /\ m[s] = [table[s][i] EXCEPT !.mirror = enable, !.lockeds = TRUE]
          /\ r[s] = [table[s][i] EXCEPT !.retag = enable, !.lockeds = TRUE]
    OBVIOUS
  <2>2. \A s \in Switch : table[s][i] # NoEntry
    BY <1>1, EntryAssumption
  <2>3. \A s \in Switch, stale \in StaleEntry :
          ReadBack(s, i, stale) = table[s][i]
    BY <2>2 DEF ReadBack
  <2>. HIDE DEF m, r
  <2>. QED
    BY <2>1, <2>2, Zenon DEF EnableArlMirroring, EnableArlRetagging, ReadBack
<1>. HIDE DEF m, r
<1>4. CASE table' = [s \in Switch |-> [table[s] EXCEPT ![i] = m[s]]]
  BY <1>0, <1>2, <1>4, FlagsPreserve
<1>5. CASE table' = [s \in Switch |-> [table[s] EXCEPT ![i] = r[s]]]
  BY <1>0, <1>2, <1>5, FlagsPreserve, ZenonT(30)
<1>. QED
  BY <1>3, <1>4, <1>5

-----------------------------------------------------------------------------
\* What the switches do changes entries that are not permanent, and only learns
\* addresses the switch does not hold.
LEMMA SwitchPreserves ==
    ASSUME ArlInv, SwitchLearns \/ SwitchForgets
    PROVE  ArlInv'
<1>1. PICK t \in Switch, i \in Index :
         /\ ~Permanent(t, i)
         /\ UNCHANGED requested
         /\ \E e \in Entry \cup {NoEntry} :
               /\ table' = [table EXCEPT ![t][i] = e]
               /\ e # NoEntry =>
                     /\ ~e.lockeds
                     /\ \A j \in Index : ~Holds(t, j, e.address)
  <2>1. CASE SwitchLearns
    <3>1. PICK t \in Switch, i \in Index, a \in Address, p \in PhysicalPort :
             Learn(t, i, a, p)
      BY <2>1 DEF SwitchLearns
    <3>. DEFINE e == [lockeds |-> FALSE, address |-> a, destports |-> {p},
                      mirror |-> FALSE, retag |-> FALSE]
    <3>2. e \in Entry /\ ~e.lockeds /\ e.address = a
      BY DEF Entry
    <3>. QED
      BY <3>1, <3>2 DEF Learn, Permanent
  <2>2. CASE SwitchForgets
    BY <2>2 DEF SwitchForgets, Age
  <2>. QED
    BY <2>1, <2>2
<1>2. PICK e \in Entry \cup {NoEntry} :
         /\ table' = [table EXCEPT ![t][i] = e]
         /\ e # NoEntry => /\ ~e.lockeds
                           /\ \A j \in Index : ~Holds(t, j, e.address)
  BY <1>1
<1>3. TypeOK'
  BY <1>1, <1>2 DEF ArlInv, TypeOK
<1>4. table'[t][i] = e
  BY <1>2 DEF ArlInv, TypeOK
<1>5. \A s \in Switch, j \in Index :
          ~(s = t /\ j = i) => table'[s][j] = table[s][j]
  BY <1>2 DEF ArlInv, TypeOK
<1>6. \A s \in Switch, j \in Index : Permanent(s, j)' <=> Permanent(s, j)
  BY <1>1, <1>2, <1>4, <1>5 DEF Permanent
<1>7. \A s \in Switch, j \in Index :
          Permanent(s, j) => table'[s][j] = table[s][j]
  BY <1>1, <1>5
<1>8. TablesAgree'
  BY <1>6, <1>7, MasterIsSwitch DEF ArlInv, TablesAgree
<1>9. PortsAsRequested'
  BY <1>1, <1>6, <1>7, MasterIsSwitch DEF ArlInv, TablesAgree, PortsAsRequested
<1>10. LearnedHidesNothing'
  <2>. SUFFICES ASSUME NEW s \in Switch, NEW k \in Index, NEW j \in Index,
                       NEW b \in Address,
                       Permanent(s, k)', Holds(s, k, b)',
                       ~Permanent(s, j)', Holds(s, j, b)'
                PROVE  k < j
    BY DEF LearnedHidesNothing
  <2>1. Permanent(s, k) /\ Holds(s, k, b) /\ ~Permanent(s, j)
    BY <1>6, <1>7 DEF Holds
  <2>2. CASE s = t /\ j = i
    BY <1>2, <1>4, <2>1, <2>2 DEF Holds
  <2>3. CASE ~(s = t /\ j = i)
    BY <1>5, <2>1, <2>3 DEF Holds, ArlInv, LearnedHidesNothing
  <2>. QED
    BY <2>2, <2>3
<1>. QED
  BY <1>3, <1>8, <1>9, <1>10 DEF ArlInv

-----------------------------------------------------------------------------
\* An index located by a search is one of the table.
LEMMA LocatedIsIndex == \A a \in Address : Located(a) \subseteq Index
<1>. SUFFICES ASSUME NEW a \in Address, NEW r \in FindEntryIndex(a)
              PROVE  r.index % NEntries \in Index
  BY DEF Located
<1>1. r.index \in Nat
  BY ArlAssumption DEF FindEntryIndex, Index
<1>. QED
  BY <1>1, ArlAssumption DEF Index

\* Removing all entries of an address preserves the invariant.
LEMMA RemoveByAddressPreserves ==
    ASSUME ArlInv, NEW a \in Address, RemoveArlTableEntryByAddress(a)
    PROVE  ArlInv'
<1>1. CASE UNCHANGED arlVars
  BY <1>1 DEF ArlInv, TypeOK, TablesAgree, PortsAsRequested,
              LearnedHidesNothing, Permanent, Holds, arlVars
<1>. QED
  BY <1>1, LocatedIsIndex, RemovePreserves DEF RemoveArlTableEntryByAddress

\* Every step of the table preserves the invariant.
LEMMA NextArlInv == ArlInv /\ [Next]_arlVars => ArlInv'
<1>. SUFFICES ASSUME ArlInv, [Next]_arlVars PROVE ArlInv'
  OBVIOUS
<1>1. CASE Add
  BY <1>1, AddPreserves DEF Add
<1>2. CASE RemoveByIndex
  BY <1>2, RemovePreserves DEF RemoveByIndex
<1>3. CASE RemoveByAddress
  BY <1>3, RemoveByAddressPreserves DEF RemoveByAddress
<1>4. CASE Mirror \/ Retag
  BY <1>4, MirrorPreserves DEF Mirror, Retag
<1>5. CASE SwitchLearns \/ SwitchForgets
  BY <1>5, SwitchPreserves
<1>6. CASE UNCHANGED arlVars
  BY <1>6 DEF ArlInv, TypeOK, TablesAgree, PortsAsRequested,
              LearnedHidesNothing, Permanent, Holds, arlVars
<1>. QED
  BY <1>1, <1>2, <1>3, <1>4, <1>5, <1>6 DEF Next

\* A read returns an address and ports that can be added again.
LEMMA EntryReadType ==
    ASSUME TypeOK, NEW i \in Index, NEW e \in EntryRead(i)
    PROVE  e.address \in Address /\ e.ports \in SUBSET Port
<1>1. \A x \in StaleEntry : ReadBack(MasterSwitch, i, x) \in Entry
  BY MasterIsSwitch, EntryAssumption DEF ReadBack, TypeOK
<1>. QED
  BY <1>1 DEF EntryRead, Entry

\* So does every step of the bridge, each being an add or a remove.
LEMMA FdbNextArlInv == ArlInv /\ [FdbNext]_fdbVars => ArlInv'
<1>. SUFFICES ASSUME ArlInv, [FdbNext]_fdbVars PROVE ArlInv'
  OBVIOUS
<1>0. CASE UNCHANGED arlVars
  BY <1>0, NextArlInv
<1>1. CASE FdbAdds
  <2>1. PICK mac \in Mac, vid \in Vlan, p \in Port : FdbAdd(mac, vid, p)
    BY <1>1 DEF FdbAdds
  <2>2. {p} \in SUBSET Port /\ <<mac, vid>> \in Address /\ <<mac, NoVlan>> \in Address
    BY FdbAssumption
  <2>3. ASSUME NEW i \in Located(<<mac, NoVlan>>), NEW e \in EntryRead(i),
               AddArlTableEntry(<<e.address[1], vid>>, e.ports \cup {p})
        PROVE  ArlInv'
    <3>1. e.address \in Mac \X Vlan /\ e.ports \cup {p} \in SUBSET Port
      BY <2>2, LocatedIsIndex, EntryReadType, FdbAssumption DEF ArlInv
    <3>2. <<e.address[1], vid>> \in Address
      BY <3>1, FdbAssumption
    <3>. QED
      BY <2>3, <3>1, <3>2, AddPreserves
  <2>. QED
    BY <2>1, <2>2, <2>3, AddPreserves DEF FdbAdd
<1>2. CASE FdbDels
  <2>1. PICK mac \in Mac, vid \in Vlan, p \in Port : FdbDel(mac, vid, p)
    BY <1>2 DEF FdbDels
  <2>2. ASSUME NEW i \in Located(<<mac, NoVlan>>), NEW e \in EntryRead(i),
               \/ AddArlTableEntry(e.address, e.ports \ {p})
               \/ \E j \in Located(<<e.address[1], vid>>) :
                      RemoveArlTableEntryByIndex(j)
        PROVE  ArlInv'
    <3>1. /\ e.address \in Address /\ e.address \in Mac \X Vlan
          /\ e.ports \ {p} \in SUBSET Port
      BY LocatedIsIndex, EntryReadType, FdbAssumption DEF ArlInv
    <3>2. <<e.address[1], vid>> \in Address
      BY <3>1, FdbAssumption
    <3>3. Located(<<e.address[1], vid>>) \subseteq Index
      BY <3>2, LocatedIsIndex
    <3>. QED
      BY <2>2, <3>1, <3>3, AddPreserves, RemovePreserves
  <2>. QED
    BY <1>0, <2>1, <2>2 DEF FdbDel
<1>3. CASE ArlStep
  BY <1>3, NextArlInv DEF ArlStep
<1>. QED
  BY <1>0, <1>1, <1>2, <1>3 DEF FdbNext, fdbVars, arlVars

-----------------------------------------------------------------------------
\* The condition on callers: whoever has an index mirrored or retagged names one
\* that holds a permanent entry. The functions themselves do not look. (An entry
\* added for no port may look the same as one made of what was read in vain.)
NamesEntries == ChangeAny => Mirror \/ Retag \/ Add

\* Under this condition the table is used as FdbSpec says.
LEMMA CallersNameEntries == AnyIndexSpec /\ [][NamesEntries]_fdbVars => FdbSpec
<1>1. [AnyIndexNext]_fdbVars /\ [NamesEntries]_fdbVars => [FdbNext]_fdbVars
  BY DEF AnyIndexNext, NamesEntries, FdbNext, ArlStep, Next
<1>. QED
  BY <1>1, PTL DEF AnyIndexSpec, FdbSpec

\* The invariant of the table, whoever uses it, if only entries are mirrored.
THEOREM ArlInvariant == AnyIndexSpec /\ [][NamesEntries]_fdbVars => []ArlInv
<1>1. FdbInit => ArlInv
  BY InitArlInv DEF FdbInit
<1>2. FdbSpec => []ArlInv
  BY <1>1, FdbNextArlInv, PTL DEF FdbSpec
<1>. QED
  BY <1>2, CallersNameEntries, PTL

\* All switches hold the same permanent entries at the same indices.
THEOREM SwitchesAgree == AnyIndexSpec /\ [][NamesEntries]_fdbVars => []TablesAgree
<1>1. ArlInv => TablesAgree
  BY DEF ArlInv
<1>. QED
  BY <1>1, ArlInvariant, PTL

\* No learned entry ever hides a permanent one.
THEOREM LearnedNeverHides ==
    AnyIndexSpec /\ [][NamesEntries]_fdbVars => []LearnedHidesNothing
<1>1. ArlInv => LearnedHidesNothing
  BY DEF ArlInv
<1>. QED
  BY <1>1, ArlInvariant, PTL

\* The entries of a line of switches, made by a loop that looks at one switch at
\* a time, forward a frame from wherever it enters to exactly the ports that
\* were requested: the links the loop adds join up to paths.
LEMMA PathsJoinUp == ArlInv => ForwardsExactly
<1>. SUFFICES ASSUME ArlInv, NEW i \in Index, Permanent(MasterSwitch, i),
                     NEW s \in Switch
              PROVE  /\ Reached(i, s) = requested[i]
                     /\ "up" \in table[s][i].destports =>
                            \E p \in requested[i] : SwitchOf[p] > s
                     /\ "down" \in table[s][i].destports =>
                            \E p \in requested[i] : SwitchOf[p] < s
  BY DEF ForwardsExactly
<1>1. requested[i] \in SUBSET Port
  BY DEF ArlInv, TypeOK
<1>2. \A t \in Switch : table[t][i].destports = DestPorts(requested[i], t)
  BY DEF ArlInv, PortsAsRequested
<1>3. \A t \in Switch :
          /\ "up" \in table[t][i].destports <=>
                 \E p \in requested[i] : SwitchOf[p] > t
          /\ "down" \in table[t][i].destports <=>
                 \E p \in requested[i] : SwitchOf[p] < t
  BY <1>1, <1>2, ArlAssumption DEF DestPorts
<1>4. \A p \in Port : /\ SwitchOf[p] \in Switch
                      /\ p \in table[SwitchOf[p]][i].destports <=> p \in requested[i]
  BY <1>1, <1>2, ArlAssumption DEF DestPorts, LocalPorts, Switch
<1>5. \A p \in requested[i], t \in Switch :
          /\ t < SwitchOf[p] => "up" \in table[t][i].destports
          /\ SwitchOf[p] < t => "down" \in table[t][i].destports
  BY <1>1, <1>3, <1>4 DEF Switch
<1>6. Reached(i, s) = requested[i]
  BY <1>1, <1>4, <1>5 DEF Reached
<1>. QED
  BY <1>3, <1>6

\* Frames for a permanent entry reach exactly the requested ports.
THEOREM ForwardingIsExact ==
    AnyIndexSpec /\ [][NamesEntries]_fdbVars => []ForwardsExactly
BY ArlInvariant, PathsJoinUp, PTL

-----------------------------------------------------------------------------
(* The bridge *)

\* The last deletion is of an address and a port, or there was none.
THEOREM BridgeTypeCorrect ==
    AnyIndexSpec /\ [][NamesEntries]_fdbVars => []FdbTypeOK
<1>1. FdbInit => FdbTypeOK
  BY InitArlInv DEF FdbInit, FdbTypeOK, ArlInv
<1>2. ArlInv /\ FdbTypeOK /\ [FdbNext]_fdbVars => FdbTypeOK'
  <2>. SUFFICES ASSUME ArlInv, FdbTypeOK, [FdbNext]_fdbVars PROVE FdbTypeOK'
    OBVIOUS
  <2>1. TypeOK'
    BY FdbNextArlInv DEF ArlInv
  <2>2. lastDeletion' \in (Address \X Port) \cup {NoDeletion}
    <3>1. CASE UNCHANGED lastDeletion \/ lastDeletion' = NoDeletion
      BY <3>1 DEF FdbTypeOK
    <3>2. CASE FdbDels
      <4>1. PICK mac \in Mac, vid \in Vlan, p \in Port : FdbDel(mac, vid, p)
        BY <3>2 DEF FdbDels
      <4>2. <<<<mac, vid>>, p>> \in Address \X Port
        BY FdbAssumption
      <4>3. lastDeletion' = <<<<mac, vid>>, p>> \/ lastDeletion' = NoDeletion
        BY <4>1 DEF FdbDel
      <4>. QED
        BY <4>2, <4>3
    <3>. QED
      BY <3>1, <3>2 DEF FdbNext, FdbAdds, FdbAdd, ArlStep, fdbVars
  <2>. QED
    BY <2>1, <2>2 DEF FdbTypeOK
<1>. QED
  BY <1>1, <1>2, ArlInvariant, CallersNameEntries, PTL DEF FdbSpec

\* Where every miss is reported, a search locates an entry for the address or nothing.
LEMMA LocatedHolds ==
    ASSUME MissErrors = {TRUE}, NEW a \in Address, NEW i \in Located(a)
    PROVE  i \in Index /\ Holds(MasterSwitch, i, a)
<1>1. PICK r \in FindEntryIndex(a) : ~r.error /\ i = r.index % NEntries
  BY DEF Located
<1>2. r.index \in Index /\ Holds(MasterSwitch, r.index, a)
  BY <1>1 DEF FindEntryIndex
<1>3. i = r.index
  BY <1>1, <1>2, ArlAssumption DEF Index
<1>. QED
  BY <1>2, <1>3

\* Frames for b go where they went if its permanent entries are those that were there.
LEMMA SameEntriesForwardAlike ==
    ASSUME NEW b \in Address,
           \A j \in Index :
              /\ Permanent(MasterSwitch, j)' /\ Holds(MasterSwitch, j, b)'
                    <=> Permanent(MasterSwitch, j) /\ Holds(MasterSwitch, j, b)
              /\ Permanent(MasterSwitch, j) /\ Holds(MasterSwitch, j, b)
                    => requested'[j] = requested[j]
    PROVE  Forwarding(b)' = Forwarding(b)
<1>. DEFINE Mine(j) == Permanent(MasterSwitch, j) /\ Holds(MasterSwitch, j, b)
            First(j) == Mine(j) /\ \A k \in Index : k < j => ~Mine(k)
<1>1. \A j \in Index : (First(j)' <=> First(j)) /\ (First(j) => requested'[j] = requested[j])
  OBVIOUS
<1>2. /\ Forwarding(b) = {requested[j] : j \in {k \in Index : First(k)}}
      /\ Forwarding(b)' = {requested'[j] : j \in {k \in Index : First(k)'}}
  BY DEF Forwarding
<1>. HIDE DEF First
<1>. QED
  BY <1>1, <1>2

\* The entry of an address is removed from every switch, and no other.
LEMMA RemovalKeepsOthers ==
    ASSUME MissErrors = {TRUE}, TypeOK, NEW a \in Address, NEW b \in Address, b # a,
           NEW i \in Located(a), RemoveArlTableEntryByIndex(i)
    PROVE  Forwarding(b)' = Forwarding(b)
<1>1. i \in Index /\ Holds(MasterSwitch, i, a) /\ ~Holds(MasterSwitch, i, b)
  BY LocatedHolds DEF Holds
<1>2. /\ table'[MasterSwitch][i] = NoEntry
      /\ \A j \in Index \ {i} : table'[MasterSwitch][j] = table[MasterSwitch][j]
  BY <1>1, MasterIsSwitch DEF RemoveArlTableEntryByIndex, TypeOK
<1>3. \A j \in Index \ {i} : requested'[j] = requested[j]
  BY <1>1 DEF RemoveArlTableEntryByIndex, TypeOK
<1>. QED
  BY <1>1, <1>2, <1>3, SameEntriesForwardAlike DEF Permanent, Holds

\* An entry is added for its address and takes the place of none that is permanent.
LEMMA AdditionKeepsOthers ==
    ASSUME TypeOK, NEW a \in Address, NEW b \in Address, b # a, NEW ports \in SUBSET Port,
           AddArlTableEntry(a, ports)
    PROVE  Forwarding(b)' = Forwarding(b)
<1>1. CASE UNCHANGED arlVars
  BY <1>1 DEF Forwarding, Permanent, Holds, arlVars
<1>2. ASSUME NEW i \in Index, IsFreeEntry(i),
             table' = [s \in Switch |->
                  [table[s] EXCEPT ![i] =
                      [lockeds |-> TRUE, address |-> a,
                       destports |-> DestPorts(ports, s),
                       mirror |-> FALSE, retag |-> FALSE]]],
             requested' = [requested EXCEPT ![i] = ports]
      PROVE  Forwarding(b)' = Forwarding(b)
  <2>1. /\ table'[MasterSwitch][i].address = a
        /\ \A j \in Index \ {i} : table'[MasterSwitch][j] = table[MasterSwitch][j]
        /\ \A j \in Index \ {i} : requested'[j] = requested[j]
    BY <1>2, MasterIsSwitch DEF TypeOK
  <2>2. ~Permanent(MasterSwitch, i) /\ ~Holds(MasterSwitch, i, b)'
    BY <1>2, <2>1 DEF IsFreeEntry, Holds
  <2>. QED
    BY <2>1, <2>2, SameEntriesForwardAlike DEF Permanent, Holds
<1>. QED
  BY <1>1, <1>2 DEF AddArlTableEntry

\* Where every miss is reported, removing or deleting an address never changes where
\* frames for another address go, in every line of switches.
THEOREM OthersForwardAsBefore ==
    MissErrors = {TRUE} =>
        (AnyIndexSpec /\ [][NamesEntries]_fdbVars => OthersKeepForwarding)
<1>. SUFFICES ASSUME MissErrors = {TRUE}
              PROVE  AnyIndexSpec /\ [][NamesEntries]_fdbVars => OthersKeepForwarding
  OBVIOUS
<1>1. ASSUME NEW b \in Address, UNCHANGED arlVars
      PROVE  Forwarding(b)' = Forwarding(b)
  BY <1>1 DEF Forwarding, Permanent, Holds, arlVars
<1>2. ASSUME TypeOK, NEW a \in Address, NEW b \in Address, b # a,
             RemoveArlTableEntryByAddress(a)
      PROVE  Forwarding(b)' = Forwarding(b)
  BY <1>1, <1>2, RemovalKeepsOthers DEF RemoveArlTableEntryByAddress
<1>3. ASSUME TypeOK, NEW mac \in Mac, NEW vid \in Vlan, NEW p \in Port,
             FdbDel(mac, vid, p),
             NEW b \in Address, b \notin {<<mac, NoVlan>>, <<mac, vid>>}
      PROVE  Forwarding(b)' = Forwarding(b)
  <2>0. <<mac, NoVlan>> \in Address /\ <<mac, vid>> \in Address
    BY FdbAssumption
  <2>1. ASSUME NEW i \in Located(<<mac, NoVlan>>), NEW e \in EntryRead(i)
        PROVE  /\ e.address = <<mac, NoVlan>> /\ <<e.address[1], vid>> = <<mac, vid>>
               /\ e.ports \ {p} \in SUBSET Port
    <3>1. i \in Index /\ Holds(MasterSwitch, i, <<mac, NoVlan>>)
      BY <2>0, LocatedHolds
    <3>2. e.address = <<mac, NoVlan>> /\ e.ports \in SUBSET Port
      BY <3>1 DEF EntryRead, ReadBack, Holds
    <3>. QED
      BY <3>2
  <2>2. ASSUME NEW i \in Located(<<mac, NoVlan>>), NEW e \in EntryRead(i),
               \/ AddArlTableEntry(e.address, e.ports \ {p})
               \/ \E j \in Located(<<e.address[1], vid>>) :
                      RemoveArlTableEntryByIndex(j)
        PROVE  Forwarding(b)' = Forwarding(b)
    BY <1>3, <2>0, <2>1, <2>2, AdditionKeepsOthers, RemovalKeepsOthers
  <2>. QED
    BY <1>1, <1>3, <2>2 DEF FdbDel
<1>4. ArlInv => [\A b \in Address : Forwarding(b)' # Forwarding(b) =>
                    /\ \A a \in Address \ {b} : ~RemoveArlTableEntryByAddress(a)
                    /\ \A mac \in Mac, vid \in Vlan, p \in Port :
                           b \notin {<<mac, NoVlan>>, <<mac, vid>>} =>
                               ~FdbDel(mac, vid, p)]_fdbVars
  BY <1>2, <1>3 DEF ArlInv
<1>. QED
  BY <1>4, ArlInvariant, PTL DEF OthersKeepForwarding
=============================================================================
