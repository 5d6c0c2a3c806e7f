-------------------------- MODULE MgmtRoutesProofs --------------------------
(***************************************************************************)
(* Theorems about MgmtRoutes, for every number of switches, ports, routes  *)
(* and timestamp indices: type correctness, the invariants, and that the   *)
(* routes implement EgressService.                                         *)
(***************************************************************************)
EXTENDS MgmtRoutes, FiniteSetTheorems, WellFoundedInduction, TLAPS

-----------------------------------------------------------------------------
(* Helpers *)

\* A non-empty set of naturals has a least element, and Min returns it.
LEMMA MinIsLeast ==
    ASSUME NEW S \in SUBSET Nat, S # {}
    PROVE  Min(S) \in S /\ \A y \in S : Min(S) <= y
<1>. DEFINE Less == {ss \in Nat \X Nat : ss[1] < ss[2]}
<1>1. IsWellFoundedOn(Less, Nat)
  BY NatLessThanWellFounded, Zenon DEF OpToRel
<1>2. PICK x \in S : \A y \in S : ~(<<y, x>> \in Less)
  BY <1>1, WFMin, Zenon
<1>3. \A y \in S : x <= y
  <2>. TAKE y \in S
  <2>1. <<y, x>> \in Nat \X Nat /\ ~(<<y, x>> \in Less)
    BY <1>2
  <2>. QED
    BY <2>1
<1>. QED
  BY <1>3 DEF Min

\* The index sets, and that the mark for no time stamp is no index.
LEMMA IndexSets ==
    /\ Switch \subseteq Nat /\ 0 \in Switch
    /\ RouteIndex \subseteq Nat
    /\ TimeStampIndex \subseteq Nat
    /\ NoTimeStamp \notin TimeStampIndex
BY ShapeAssumption DEF Switch, RouteIndex, TimeStampIndex, NoTimeStamp

\* Where an index can be allocated at all, allocateMgmtRoute takes one of the
\* candidates.
LEMMA BestRouteIsCandidate ==
    ASSUME NEW active, NEW s, NEW mac, Candidates(active, s, mac) # {}
    PROVE  BestRoute(active, s, mac) \in Candidates(active, s, mac)
<1>1. Candidates(active, s, mac) \in SUBSET Nat
  BY IndexSets DEF Candidates
<1>. QED
  BY <1>1, MinIsLeast DEF BestRoute

\* Where a timestamp index is free at all ports, allocateTimeStamp takes one
\* that is: first the greatest count, then the least index among those.
LEMMA BestTimeStampIsUsable ==
    ASSUME TypeOK, NEW dest, UsableTimeStamps(dest) # {}
    PROVE  BestTimeStamp(dest) \in UsableTimeStamps(dest)
<1>. DEFINE U == UsableTimeStamps(dest)
            n == g_nEgressTimeStampsAllocated
            room == {CountMod - n[i] : i \in U}
            fullest == {i \in U : CountMod - n[i] = Min(room)}
<1>1. U \subseteq TimeStampIndex /\ \A i \in U : n[i] \in 0 .. CountMod - 1
  BY DEF UsableTimeStamps, TypeOK
<1>2. room \in SUBSET Nat /\ room # {}
  BY <1>1 DEF CountMod
<1>3. Min(room) \in room /\ \A m \in room : Min(room) <= m
  BY <1>2, MinIsLeast
<1>4. fullest \in SUBSET Nat /\ fullest # {}
  BY <1>1, <1>3, IndexSets
<1>5. Min(fullest) \in fullest /\ \A i \in fullest : Min(fullest) <= i
  BY <1>4, MinIsLeast
<1>6. ASSUME NEW j \in U
      PROVE  \/ n[j] < n[Min(fullest)]
             \/ n[j] = n[Min(fullest)] /\ Min(fullest) <= j
  <2>. DEFINE k == Min(fullest)
  <2>1. n[j] \in Int /\ n[k] \in Int /\ CountMod \in Int
    BY <1>1, <1>5 DEF CountMod
  <2>2. CountMod - n[k] = Min(room) /\ Min(room) <= CountMod - n[j]
    BY <1>3, <1>5
  <2>3. CountMod - n[j] = Min(room) => k <= j
    BY <1>5
  <2>. HIDE DEF k, n, room, fullest
  <2>4. n[j] < n[k] \/ (n[j] = n[k] /\ k <= j)
    BY <2>1, <2>2, <2>3
  <2>. QED
    BY <2>4 DEF k
<1>. QED
  BY <1>5, <1>6 DEF BestTimeStamp

\* Every subset of the ports has a cardinality.
LEMMA PortSubsets ==
    ASSUME NEW S \in SUBSET Port
    PROVE  IsFiniteSet(S) /\ Cardinality(S) \in Nat /\ Cardinality(S) < CountMod
<1>1. IsFiniteSet(Port) /\ Cardinality(Port) < CountMod
  BY PortAssumption
<1>2. IsFiniteSet(S) /\ Cardinality(S) <= Cardinality(Port)
  BY <1>1, FS_Subset
<1>3. Cardinality(S) \in Nat /\ Cardinality(Port) \in Nat
  BY <1>1, <1>2, FS_CardinalityType
<1>. QED
  BY <1>1, <1>2, <1>3 DEF CountMod

-----------------------------------------------------------------------------
(* Type correctness *)

\* A uint8_t holds whatever is computed modulo its range.
LEMMA CountRange ==
    ASSUME NEW x \in Int
    PROVE  x % CountMod \in 0 .. CountMod - 1
BY DEF CountMod

\* The types hold after the initialisation.
LEMMA InitTypeOK == Init => TypeOK
<1>1. <<>> \in Seq(Frame)
  OBVIOUS
<1>2. 0 \in 0 .. CountMod - 1
  BY DEF CountMod
<1>3. Init => wire \in [Switch -> Seq(Frame)]
  BY <1>1 DEF Init
<1>4. Init => g_nEgressTimeStampsAllocated \in [TimeStampIndex -> 0 .. CountMod - 1]
  BY <1>2 DEF Init
<1>5. Init => gpf_egressTimeStampHandler \in BOOLEAN
  BY DEF Init
<1>6. Init => /\ mgmtRouteMacaddr \in [Switch -> [RouteIndex -> MacAddr \cup {NoMac}]]
              /\ hwRoute \in [Switch -> [RouteIndex -> Route \cup {NoRoute}]]
  BY DEF Init
<1>7. Init => /\ g_egressTimeStampsAllocated \in [TimeStampIndex -> SUBSET Port]
              /\ g_mgmtRouteActive \in [Switch -> SUBSET RouteIndex]
              /\ hwUpdated \in [Port -> SUBSET TimeStampIndex]
  BY DEF Init
<1>8. Init => delivered \subseteq Port \X TimeStampIndex
  BY DEF Init
<1>. QED
  BY <1>3, <1>4, <1>5, <1>6, <1>7, <1>8 DEF TypeOK

\* What syncMgmtRoutes leaves is a part of what was in use.
LEMMA SyncedIsSubset ==
    ASSUME TypeOK, NEW failed
    PROVE  /\ Synced(failed) \in [Switch -> SUBSET RouteIndex]
           /\ \A s \in Switch : Synced(failed)[s] \subseteq g_mgmtRouteActive[s]
BY DEF Synced, TypeOK

\* The index taken at every switch of an allocatable span is a free route index.
LEMMA AllocatedIndex ==
    ASSUME NEW active, NEW dest, NEW mac, NEW s \in Span(dest),
           Allocatable(active, dest, mac)
    PROVE  /\ BestRoute(active, s, mac) \in RouteIndex
           /\ BestRoute(active, s, mac) \notin active[s]
BY BestRouteIsCandidate DEF Allocatable, Candidates

\* Recording the address of a route keeps the type of the addresses.
LEMMA RecordAddressType ==
    ASSUME TypeOK, NEW mac \in MacAddr, NEW dest, NEW active,
           RecordAddress(mac, dest, active)
    PROVE  mgmtRouteMacaddr' \in [Switch -> [RouteIndex -> MacAddr \cup {NoMac}]]
BY DEF RecordAddress, TypeOK

\* Claiming a slot keeps the types of its port bits and its counter.
LEMMA AllocateTimeStampType ==
    ASSUME TypeOK, NEW i \in TimeStampIndex, NEW dest \in SUBSET Port,
           AllocateTimeStamp(i, dest)
    PROVE  /\ g_egressTimeStampsAllocated' \in [TimeStampIndex -> SUBSET Port]
           /\ g_nEgressTimeStampsAllocated'
                  \in [TimeStampIndex -> 0 .. CountMod - 1]
<1>1. Cardinality(dest \cap PolledPort) \in Int /\ g_nEgressTimeStampsAllocated[i] \in Int
  <2>1. dest \cap PolledPort \in SUBSET Port
    OBVIOUS
  <2>. QED
    BY <2>1, PortSubsets DEF TypeOK
<1>2. (g_nEgressTimeStampsAllocated[i] + Cardinality(dest \cap PolledPort)) % CountMod
          \in 0 .. CountMod - 1
  BY <1>1, CountRange
<1>. QED
  BY <1>2 DEF AllocateTimeStamp, TypeOK

\* Freeing slots keeps the types of the port bits and the counters.
LEMMA DeallocateTimeStampsType ==
    ASSUME TypeOK, NEW ports \in [TimeStampIndex -> SUBSET Port],
           DeallocateTimeStamps(ports)
    PROVE  /\ g_egressTimeStampsAllocated' \in [TimeStampIndex -> SUBSET Port]
           /\ g_nEgressTimeStampsAllocated'
                  \in [TimeStampIndex -> 0 .. CountMod - 1]
<1>1. ASSUME NEW i \in TimeStampIndex
      PROVE  (g_nEgressTimeStampsAllocated[i] - Cardinality(ports[i])) % CountMod
                 \in 0 .. CountMod - 1
  <2>1. Cardinality(ports[i]) \in Nat
    BY PortSubsets
  <2>. QED
    BY <2>1, CountRange, SMTT(30) DEF TypeOK
<1>. QED
  BY <1>1 DEF DeallocateTimeStamps, TypeOK

\* Setting up a route preserves the types.
LEMMA SetupTypeOK ==
    ASSUME TypeOK, NEW mac \in MacAddr, NEW dest \in (SUBSET Port) \ {{}},
           NEW take \in BOOLEAN, NEW readFailed, NEW writeFailed,
           SetupMgmtRoute(mac, dest, take, readFailed, writeFailed)
    PROVE  TypeOK'
<1>. DEFINE active == Synced(readFailed)
<1>1. active \in [Switch -> SUBSET RouteIndex]
  BY SyncedIsSubset
<1>2. CASE SetupRefused(mac, dest, readFailed)
  BY <1>1, <1>2 DEF SetupRefused, SetupMgmtRoute, TypeOK, hwVars
<1>3. CASE SetupWithoutTimeStamp(mac, dest, readFailed)
  BY <1>1, <1>3, RecordAddressType
     DEF SetupWithoutTimeStamp, SetupMgmtRoute, TypeOK, hwVars
<1>4. CASE SetupGranted(mac, dest, take, readFailed, writeFailed)
  <2>. DEFINE ts == IF take THEN BestTimeStamp(dest) ELSE NoTimeStamp
              frame == [macaddr |-> mac, destports |-> dest, ts |-> ts]
  <2>1. take => ts \in TimeStampIndex
    BY <1>4, BestTimeStampIsUsable DEF SetupGranted, UsableTimeStamps
  <2>2. ts \in 0 .. NTimeStamps
    BY <2>1, ShapeAssumption DEF NoTimeStamp, TimeStampIndex
  <2>3. /\ g_egressTimeStampsAllocated' \in [TimeStampIndex -> SUBSET Port]
        /\ g_nEgressTimeStampsAllocated'
               \in [TimeStampIndex -> 0 .. CountMod - 1]
    <3>1. CASE take
      BY <1>4, <2>1, <3>1, AllocateTimeStampType DEF SetupGranted
    <3>2. CASE ~take
      BY <1>4, <3>2 DEF SetupGranted, TypeOK
    <3>. QED
      BY <3>1, <3>2
  <2>4. g_mgmtRouteActive' \in [Switch -> SUBSET RouteIndex]
    BY <1>1, <1>4, AllocatedIndex DEF SetupGranted
  <2>5. mgmtRouteMacaddr' \in [Switch -> [RouteIndex -> MacAddr \cup {NoMac}]]
    BY <1>4, RecordAddressType DEF SetupGranted
  <2>6. \A s \in Switch : RouteAt(s, mac, dest, ts) \in Route
    BY <2>2 DEF RouteAt, Route, Extends
  <2>7. hwRoute' \in [Switch -> [RouteIndex -> Route \cup {NoRoute}]]
    BY <1>4, <2>6 DEF SetupGranted, TypeOK
  <2>8. wire' \in [Switch -> Seq(Frame)]
    <3>1. frame \in Frame
      BY <2>2 DEF Frame
    <3>2. wire[0] \in Seq(Frame)
      BY IndexSets DEF TypeOK
    <3>3. Append(wire[0], frame) \in Seq(Frame)
      BY <3>1, <3>2
    <3>4. wire' = [wire EXCEPT ![0] = Append(@, frame)] \/ wire' = wire
      BY <1>4 DEF SetupGranted
    <3>. QED
      BY <3>3, <3>4 DEF TypeOK
  <2>9. UNCHANGED <<hwUpdated, gpf_egressTimeStampHandler>> /\ delivered' = {}
    BY <1>4 DEF SetupGranted, SetupMgmtRoute
  <2>. QED
    BY <2>3, <2>4, <2>5, <2>7, <2>8, <2>9 DEF TypeOK
<1>. QED
  BY <1>2, <1>3, <1>4 DEF SetupMgmtRoute

\* What a read does: it gives back the slots of a set of captured timestamps, of which
\* some are delivered, and clears flags of no others, of the delivered ones in any case.
ReadsOnly(freed, cleared) ==
    /\ freed \subseteq Port \X TimeStampIndex /\ cleared \subseteq freed
    /\ delivered' \subseteq cleared
    /\ \A p \in Port, i \in TimeStampIndex :
           /\ <<p, i>> \in freed => i \in hwUpdated[p]
           /\ i \in hwUpdated'[p] <=> i \in hwUpdated[p] /\ <<p, i>> \notin cleared
           /\ p \in g_egressTimeStampsAllocated'[i] <=>
                 p \in g_egressTimeStampsAllocated[i] /\ <<p, i>> \notin freed
    /\ DeallocateTimeStamps([i \in TimeStampIndex |-> {p \in Port : <<p, i>> \in freed}])
    /\ UNCHANGED <<gpf_egressTimeStampHandler, g_mgmtRouteActive, mgmtRouteMacaddr,
                   hwRoute, wire>>

\* Every reader reads so; a timestamp that is neither seen nor kept is delivered or lost.
LEMMA ReadersReadOnly ==
    ASSUME TypeOK, NEW ports \in [TimeStampIndex -> SUBSET Port],
           NEW outcomes \in SUBSET ReadOutcome, ReadTimeStamps(ports, outcomes)
    PROVE  \E freed, cleared :
               /\ ReadsOnly(freed, cleared)
               /\ hwUpdated' \in [Port -> SUBSET TimeStampIndex]
               /\ "kept" \notin outcomes => cleared = freed
               /\ outcomes \subseteq {"delivered", "unseen"} => delivered' = freed
<1>1. PICK outcome \in [Captured(ports) -> outcomes] :
        LET Ends(how) == {slot \in Captured(ports) : outcome[slot] \in how} IN
        /\ DeallocateTimeStamps([i \in TimeStampIndex |->
               {p \in ports[i] : <<p, i>> \in Ends({"delivered", "lost", "kept"})}])
        /\ hwUpdated' = [p \in Port |->
               {i \in hwUpdated[p] : <<p, i>> \notin Ends({"delivered", "lost"})}]
        /\ delivered' = Ends({"delivered"})
  BY DEF ReadTimeStamps
<1> DEFINE Ends(how) == {slot \in Captured(ports) : outcome[slot] \in how}
           freed == Ends({"delivered", "lost", "kept"})
           cleared == Ends({"delivered", "lost"})
<1>2. /\ \A slot \in Captured(ports) : slot \in Port \X TimeStampIndex
      /\ \A p \in Port, i \in TimeStampIndex :
             <<p, i>> \in Captured(ports) <=> p \in ports[i] /\ i \in hwUpdated[p]
  BY DEF Captured
<1>3. [i \in TimeStampIndex |-> {p \in ports[i] : <<p, i>> \in freed}]
          = [i \in TimeStampIndex |-> {p \in Port : <<p, i>> \in freed}]
  BY <1>2
<1>4. DeallocateTimeStamps([i \in TimeStampIndex |-> {p \in Port : <<p, i>> \in freed}])
  BY <1>1, <1>3
<1>5. /\ freed \subseteq Port \X TimeStampIndex /\ cleared \subseteq freed
      /\ delivered' \subseteq cleared
  BY <1>1, <1>2
<1>6. \A p \in Port, i \in TimeStampIndex : <<p, i>> \in freed => i \in hwUpdated[p]
  BY <1>2
<1>7. hwUpdated' = [p \in Port |-> {i \in hwUpdated[p] : <<p, i>> \notin cleared}]
  BY <1>1
<1>8. "kept" \notin outcomes => cleared = freed
  OBVIOUS
<1>9. outcomes \subseteq {"delivered", "unseen"} => delivered' = freed
  BY <1>1
<1> HIDE DEF freed, cleared
<1>10. \A p \in Port, i \in TimeStampIndex :
           /\ i \in hwUpdated'[p] <=> i \in hwUpdated[p] /\ <<p, i>> \notin cleared
           /\ p \in g_egressTimeStampsAllocated'[i] <=>
                 p \in g_egressTimeStampsAllocated[i] /\ <<p, i>> \notin freed
  BY <1>4, <1>7 DEF DeallocateTimeStamps, TypeOK
<1>11. hwUpdated' \in [Port -> SUBSET TimeStampIndex]
  BY <1>7 DEF TypeOK
<1>12. ReadsOnly(freed, cleared)
  BY <1>4, <1>5, <1>6, <1>10 DEF ReadsOnly, ReadTimeStamps
<1>13. QED BY <1>8, <1>9, <1>11, <1>12

\* The ports a direct read and the tick look at.
LEMMA ReadersRead ==
    ASSUME TypeOK, Poll \/ Get
    PROVE  \E ports \in [TimeStampIndex -> SUBSET Port] : ReadTimeStamps(ports, ReadOutcome)
<1>1. ASSUME NEW p \in Port, NEW i \in TimeStampIndex, GetEgressTimeStamp(p, i)
      PROVE  \E ports \in [TimeStampIndex -> SUBSET Port] : ReadTimeStamps(ports, ReadOutcome)
  <2>1. [j \in TimeStampIndex |-> IF j = i THEN {p} ELSE {}]
            \in [TimeStampIndex -> SUBSET Port]
    OBVIOUS
  <2>. QED
    BY <1>1, <2>1 DEF GetEgressTimeStamp
<1>2. ASSUME Poll
      PROVE  \E ports \in [TimeStampIndex -> SUBSET Port] : ReadTimeStamps(ports, ReadOutcome)
  <2>. DEFINE ports == [i \in TimeStampIndex |-> PolledAt(i)]
  <2>1. ports \in [TimeStampIndex -> SUBSET Port]
    BY PortAssumption DEF PolledAt
  <2>. QED
    BY <1>2, <2>1 DEF Poll, PollAndDispatchEgressTimeStampsTick
<1>. QED
  BY <1>1, <1>2 DEF Get

\* So the two of them do what a read does.
LEMMA ReadEffect ==
    ASSUME TypeOK, Poll \/ Get
    PROVE  \E freed, cleared :
               /\ ReadsOnly(freed, cleared)
               /\ hwUpdated' \in [Port -> SUBSET TimeStampIndex]
               /\ "kept" \notin ReadFailure => cleared = freed
               /\ ReadFailure \subseteq {"unseen"} => delivered' = freed
<1>1. PICK ports \in [TimeStampIndex -> SUBSET Port] : ReadTimeStamps(ports, ReadOutcome)
  BY ReadersRead
<1>2. /\ "kept" \notin ReadFailure => "kept" \notin ReadOutcome
      /\ ReadFailure \subseteq {"unseen"} => ReadOutcome \subseteq {"delivered", "unseen"}
  BY DEF ReadOutcome
<1>3. QED BY <1>1, <1>2, ReadersReadOnly

\* Reading timestamps preserves the types.
LEMMA ReadTypeOK ==
    ASSUME TypeOK, Poll \/ Get
    PROVE  TypeOK'
<1>1. PICK freed, cleared : /\ ReadsOnly(freed, cleared)
                            /\ hwUpdated' \in [Port -> SUBSET TimeStampIndex]
  BY ReadEffect
<1>2. [i \in TimeStampIndex |-> {p \in Port : <<p, i>> \in freed}]
          \in [TimeStampIndex -> SUBSET Port]
  OBVIOUS
<1>3. /\ g_egressTimeStampsAllocated' \in [TimeStampIndex -> SUBSET Port]
      /\ g_nEgressTimeStampsAllocated' \in [TimeStampIndex -> 0 .. CountMod - 1]
  BY <1>1, <1>2, DeallocateTimeStampsType DEF ReadsOnly
<1>. QED
  BY <1>1, <1>3 DEF ReadsOnly, TypeOK

\* A forwarded frame preserves the types.
LEMMA ForwardTypeOK ==
    ASSUME TypeOK, NEW s \in Switch, HwForward(s)
    PROVE  TypeOK'
<1>1. wire[s] \in Seq(Frame) /\ wire[s] # <<>>
  BY DEF TypeOK, HwForward
<1>2. Head(wire[s]) \in Frame /\ Tail(wire[s]) \in Seq(Frame)
  BY <1>1
<1>3. \A t \in Switch : Append(wire[t], Head(wire[s])) \in Seq(Frame)
  BY <1>2 DEF TypeOK
<1>4. wire' \in [Switch -> Seq(Frame)]
  BY <1>2, <1>3 DEF HwForward, TypeOK
<1>5. hwUpdated' \in [Port -> SUBSET TimeStampIndex]
  BY DEF HwForward, TypeOK
<1>6. hwRoute' \in [Switch -> [RouteIndex -> Route \cup {NoRoute}]]
  BY DEF HwForward, TypeOK
<1>. QED
  BY <1>4, <1>5, <1>6 DEF HwForward, TypeOK, softVars

\* A frame that meets no route preserves the types.
LEMMA ForwardUnmatchedTypeOK ==
    ASSUME TypeOK, NEW s \in Switch, HwForwardUnmatched(s)
    PROVE  TypeOK'
<1>1. wire[s] \in Seq(Frame) /\ wire[s] # <<>>
  BY DEF TypeOK, HwForwardUnmatched
<1>2. Tail(wire[s]) \in Seq(Frame)
  BY <1>1
<1>. QED
  BY <1>2 DEF HwForwardUnmatched, TypeOK, softVars

\* Every step preserves the types.
LEMMA NextTypeOK == TypeOK /\ [Next]_vars => TypeOK'
<1>. SUFFICES ASSUME TypeOK, [Next]_vars PROVE TypeOK'
  OBVIOUS
<1>1. CASE Setup
  BY <1>1, SetupTypeOK DEF Setup
<1>2. CASE Poll \/ Get
  BY <1>2, ReadTypeOK
<1>4. CASE Register
  BY <1>4 DEF Register, RegisterEgressTimeStampHandler, TypeOK, softVars, hwVars
<1>5. CASE Forward
  BY <1>5, ForwardTypeOK DEF Forward
<1>6. CASE ForwardUnmatched
  BY <1>6, ForwardUnmatchedTypeOK DEF ForwardUnmatched
<1>7. CASE UNCHANGED vars
  BY <1>7 DEF vars, softVars, hwVars, TypeOK
<1>. QED
  BY <1>1, <1>2, <1>4, <1>5, <1>6, <1>7 DEF Next

\* The variables keep their types in every behaviour, whatever transfers fail.
THEOREM TypeCorrect == Spec => []TypeOK
BY InitTypeOK, NextTypeOK, PTL DEF Spec

-----------------------------------------------------------------------------
(* No two frames share a timestamp slot *)

\* A slot is given back with its flag cleared: the read of a captured timestamp
\* succeeds or is not attempted.
FlagsCleared ==
    \A p \in Port, i \in TimeStampIndex :
        p \in g_egressTimeStampsAllocated[i] \ g_egressTimeStampsAllocated'[i]
            => i \notin hwUpdated'[p]

\* A slot is given back for a timestamp that is handed out: so do the reads it takes
\* to make it a time.
ReadsSucceed ==
    \A p \in Port, i \in TimeStampIndex :
        p \in g_egressTimeStampsAllocated[i] \ g_egressTimeStampsAllocated'[i]
            => <<p, i>> \in delivered'

\* A setup takes a slot on ports where it is free, or none.
LEMMA SetupKeepsSlots ==
    ASSUME TypeOK, TimeStampSlotsExclusive,
           NEW mac \in MacAddr, NEW dest \in (SUBSET Port) \ {{}},
           NEW take \in BOOLEAN, NEW readFailed, NEW writeFailed,
           SetupMgmtRoute(mac, dest, take, readFailed, writeFailed)
    PROVE  TimeStampSlotsExclusive'
<1>. DEFINE active == Synced(readFailed)
            ts == IF take THEN BestTimeStamp(dest) ELSE NoTimeStamp
            Fresh(s, r, p, i) == /\ take /\ i = ts /\ p \in dest /\ SwitchOf[p] = s
                                 /\ r = BestRoute(active, s, mac)
<1>1. CASE UNCHANGED <<hwRoute, hwUpdated, g_egressTimeStampsAllocated>>
  BY <1>1 DEF TimeStampSlotsExclusive, Claims
<1>2. CASE SetupGranted(mac, dest, take, readFailed, writeFailed)
  <2>1. take => /\ ts \in TimeStampIndex
                /\ g_egressTimeStampsAllocated[ts] \cap dest = {}
    BY <1>2, BestTimeStampIsUsable DEF SetupGranted, UsableTimeStamps
  <2>2. /\ hwUpdated' = hwUpdated
        /\ \A p \in Port, i \in TimeStampIndex :
              p \in g_egressTimeStampsAllocated'[i] <=>
                  \/ p \in g_egressTimeStampsAllocated[i]
                  \/ take /\ i = ts /\ p \in dest
    <3>1. CASE take
      BY <1>2, <2>1, <3>1 DEF SetupGranted, AllocateTimeStamp, TypeOK
    <3>2. CASE ~take
      BY <1>2, <3>2 DEF SetupGranted
    <3>. QED
      BY <3>1, <3>2
  <2>3. ASSUME NEW s \in Switch, NEW r \in RouteIndex,
               NEW p \in Port, NEW i \in TimeStampIndex, Claims(s, r, p, i)'
        PROVE  Claims(s, r, p, i) \/ Fresh(s, r, p, i)
    <3>1. CASE hwRoute'[s][r] = hwRoute[s][r]
      BY <2>3, <3>1 DEF Claims
    <3>2. CASE /\ r = BestRoute(active, s, mac)
               /\ hwRoute'[s][r] = RouteAt(s, mac, dest, ts)
      <4>1. p \in dest /\ SwitchOf[p] = s /\ i = ts
        BY <2>3, <3>2 DEF Claims, RouteAt
      <4>2. take
        BY <4>1, IndexSets
      <4>. QED
        BY <3>2, <4>1, <4>2
    <3>. QED
      <4>1. \/ hwRoute'[s][r] = hwRoute[s][r]
            \/ /\ r = BestRoute(active, s, mac)
               /\ hwRoute'[s][r] = RouteAt(s, mac, dest, ts)
        BY <1>2 DEF SetupGranted, TypeOK
      <4>. QED
        BY <3>1, <3>2, <4>1
  <2>4. ASSUME NEW p \in Port, NEW i \in TimeStampIndex,
               take, i = ts, p \in dest
        PROVE  /\ i \notin hwUpdated[p]
               /\ \A s \in Switch, r \in RouteIndex : ~Claims(s, r, p, i)
    BY <2>1, <2>4 DEF TimeStampSlotsExclusive
  <2>5. ASSUME NEW p \in Port, NEW i \in TimeStampIndex,
               NEW s \in Switch, NEW r \in RouteIndex, Claims(s, r, p, i)'
        PROVE  /\ p \in g_egressTimeStampsAllocated'[i]
               /\ i \notin hwUpdated'[p]
               /\ \A t \in Switch, q \in RouteIndex :
                      Claims(t, q, p, i)' => t = s /\ q = r
    <3>. HIDE DEF ts
    <3>1. CASE Claims(s, r, p, i)
      BY <2>2, <2>3, <2>4, <3>1 DEF TimeStampSlotsExclusive
    <3>2. CASE Fresh(s, r, p, i)
      BY <2>2, <2>3, <2>4, <3>2
    <3>. QED
      BY <2>3, <2>5, <3>1, <3>2
  <2>6. \A p \in Port, i \in TimeStampIndex :
            i \in hwUpdated'[p] => p \in g_egressTimeStampsAllocated'[i]
    BY <2>2 DEF TimeStampSlotsExclusive
  <2>. QED
    BY <2>5, <2>6 DEF TimeStampSlotsExclusive
<1>3. QED
  BY <1>1, <1>2 DEF SetupMgmtRoute, SetupRefused, SetupWithoutTimeStamp, hwVars

\* Reading frees slots only, of which it must have cleared the flags.
LEMMA ReadKeepsSlots ==
    ASSUME TypeOK, TimeStampSlotsExclusive, Poll \/ Get, FlagsCleared
    PROVE  TimeStampSlotsExclusive'
<1>1. PICK freed, cleared : ReadsOnly(freed, cleared)
  BY ReadEffect
<1>2. /\ hwRoute' = hwRoute
      /\ \A p \in Port, i \in TimeStampIndex :
             /\ i \in hwUpdated'[p] => i \in hwUpdated[p]
             /\ p \in g_egressTimeStampsAllocated'[i] <=>
                   p \in g_egressTimeStampsAllocated[i] /\ <<p, i>> \notin freed
             /\ <<p, i>> \in freed => i \in hwUpdated[p]
  BY <1>1 DEF ReadsOnly
<1>3. \A p \in Port, i \in TimeStampIndex :
          i \in hwUpdated'[p] => p \in g_egressTimeStampsAllocated'[i]
  BY <1>2 DEF FlagsCleared, TimeStampSlotsExclusive
<1>4. ASSUME NEW p \in Port, NEW i \in TimeStampIndex, NEW s \in Switch, NEW r \in RouteIndex,
             Claims(s, r, p, i)'
      PROVE  /\ p \in g_egressTimeStampsAllocated'[i]
             /\ i \notin hwUpdated'[p]
             /\ \A t \in Switch, q \in RouteIndex : Claims(t, q, p, i)' => t = s /\ q = r
  <2>1. \A t \in Switch, q \in RouteIndex : Claims(t, q, p, i)' = Claims(t, q, p, i)
    BY <1>2 DEF Claims
  <2>2. i \notin hwUpdated[p] /\ p \in g_egressTimeStampsAllocated[i]
    BY <1>4, <2>1 DEF TimeStampSlotsExclusive
  <2>3. Claims(s, r, p, i)
    BY <1>4, <2>1
  <2>4. \A t \in Switch, q \in RouteIndex : Claims(t, q, p, i) => t = s /\ q = r
    BY <2>3 DEF TimeStampSlotsExclusive
  <2>5. i \notin hwUpdated'[p] /\ <<p, i>> \notin freed
    BY <1>2, <2>2
  <2>. QED
    BY <1>2, <2>1, <2>2, <2>4, <2>5
<1>. QED
  BY <1>3, <1>4 DEF TimeStampSlotsExclusive

\* A forwarded frame brings the time stamp of its own route only.
LEMMA ForwardKeepsSlots ==
    ASSUME TypeOK, TimeStampSlotsExclusive, NEW s \in Switch, HwForward(s)
    PROVE  TimeStampSlotsExclusive'
<1>. DEFINE mac == Head(wire[s]).macaddr
            used == Min(Matching(s, mac))
            route == hwRoute[s][used]
<1>1. used \in Matching(s, mac)
  <2>1. Matching(s, mac) \in SUBSET Nat /\ Matching(s, mac) # {}
    BY IndexSets DEF HwForward, Matching
  <2>. QED
    BY <2>1, MinIsLeast
<1>2. used \in RouteIndex /\ route # NoRoute
  BY <1>1 DEF Matching
<1>3. /\ hwRoute' = [hwRoute EXCEPT ![s][used] = NoRoute]
      /\ hwUpdated' = [p \in Port |->
             IF p \in route.destports /\ route.ts \in TimeStampIndex
             THEN hwUpdated[p] \cup {route.ts} ELSE hwUpdated[p]]
      /\ UNCHANGED g_egressTimeStampsAllocated
  BY DEF HwForward, MatchedRoute, softVars
<1>. HIDE DEF mac, used
<1>4. \A p \in Port, i \in TimeStampIndex :
          i \in hwUpdated'[p] <=> i \in hwUpdated[p] \/ Claims(s, used, p, i)
  BY <1>2, <1>3 DEF Claims, TypeOK
<1>5. \A p \in Port, i \in TimeStampIndex, t \in Switch, q \in RouteIndex :
          Claims(t, q, p, i)' => Claims(t, q, p, i) /\ ~(t = s /\ q = used)
  BY <1>2, <1>3 DEF Claims, TypeOK
<1>6. \A p \in Port, i \in TimeStampIndex :
          g_egressTimeStampsAllocated'[i] = g_egressTimeStampsAllocated[i]
  BY <1>3
<1>. QED
  BY <1>2, <1>4, <1>5, <1>6 DEF TimeStampSlotsExclusive

\* Only reads give slots back, and they clear the flag where they deliver.
LEMMA GivenBackByReads ==
    ASSUME TypeOK, [Next]_vars
    PROVE  /\ ReadsSucceed => FlagsCleared
           /\ "kept" \notin ReadFailure => [FlagsCleared]_vars
           /\ ReadFailure \subseteq {"unseen"} => [ReadsSucceed]_vars
<1>1. CASE Poll \/ Get
  <2>1. PICK freed, cleared :
            /\ ReadsOnly(freed, cleared)
            /\ "kept" \notin ReadFailure => cleared = freed
            /\ ReadFailure \subseteq {"unseen"} => delivered' = freed
    BY <1>1, ReadEffect
  <2>2. ReadsSucceed => FlagsCleared
    BY <2>1 DEF ReadsOnly, ReadsSucceed, FlagsCleared
  <2>3. "kept" \notin ReadFailure => FlagsCleared
    BY <2>1 DEF ReadsOnly, FlagsCleared
  <2>4. ReadFailure \subseteq {"unseen"} => ReadsSucceed
    BY <2>1 DEF ReadsOnly, ReadsSucceed
  <2>. QED
    BY <2>2, <2>3, <2>4
<1>2. ASSUME \A p \in Port, i \in TimeStampIndex :
                 p \in g_egressTimeStampsAllocated[i] => p \in g_egressTimeStampsAllocated'[i]
      PROVE  FlagsCleared /\ ReadsSucceed
  BY <1>2 DEF FlagsCleared, ReadsSucceed
<1>3. CASE Setup
  <2>1. PICK mac \in MacAddr, dest \in (SUBSET Port) \ {{}}, take \in BOOLEAN,
             readFailed \in SpiFailure, writeFailed \in SpiFailure :
               SetupMgmtRoute(mac, dest, take, readFailed, writeFailed)
    BY <1>3 DEF Setup
  <2>2. \/ UNCHANGED g_egressTimeStampsAllocated
        \/ AllocateTimeStamp(BestTimeStamp(dest), dest)
    BY <2>1 DEF SetupMgmtRoute, SetupRefused, SetupWithoutTimeStamp, SetupGranted
  <2>. QED
    BY <1>2, <2>2 DEF AllocateTimeStamp, TypeOK
<1>. QED
  BY <1>1, <1>2, <1>3
     DEF Next, Register, RegisterEgressTimeStampHandler, Forward, HwForward,
         ForwardUnmatched, HwForwardUnmatched, vars, softVars

\* The two conditions hold where the transfers they are about do not fail, and the
\* second one, on delivery, implies the first one, on the flag.
THEOREM ReadConditions ==
    /\ "kept" \notin ReadFailure => (Spec => [][FlagsCleared]_vars)
    /\ ReadFailure \subseteq {"unseen"} => (Spec => [][ReadsSucceed]_vars)
    /\ Spec /\ [][ReadsSucceed]_vars => [][FlagsCleared]_vars
<1>1. ASSUME "kept" \notin ReadFailure
      PROVE  Spec => [][FlagsCleared]_vars
  <2>1. TypeOK /\ [Next]_vars => [FlagsCleared]_vars
    BY <1>1, GivenBackByReads
  <2>. QED
    BY <2>1, TypeCorrect, PTL DEF Spec
<1>2. ASSUME ReadFailure \subseteq {"unseen"}
      PROVE  Spec => [][ReadsSucceed]_vars
  <2>1. TypeOK /\ [Next]_vars => [ReadsSucceed]_vars
    BY <1>2, GivenBackByReads
  <2>. QED
    BY <2>1, TypeCorrect, PTL DEF Spec
<1>3. Spec /\ [][ReadsSucceed]_vars => [][FlagsCleared]_vars
  <2>1. TypeOK /\ [Next]_vars /\ [ReadsSucceed]_vars => [FlagsCleared]_vars
    BY GivenBackByReads
  <2>. QED
    BY <2>1, TypeCorrect, PTL DEF Spec
<1>. QED
  BY <1>1, <1>2, <1>3

\* Every step keeps the slots exclusive.
LEMMA NextKeepsSlots ==
    TypeOK /\ TimeStampSlotsExclusive /\ [Next]_vars /\ [FlagsCleared]_vars
        => TimeStampSlotsExclusive'
<1>. SUFFICES ASSUME TypeOK, TimeStampSlotsExclusive, [Next]_vars, [FlagsCleared]_vars
              PROVE  TimeStampSlotsExclusive'
  OBVIOUS
<1>1. CASE Setup
  BY <1>1, SetupKeepsSlots DEF Setup
<1>2. CASE (Poll \/ Get) /\ FlagsCleared
  BY <1>2, ReadKeepsSlots
<1>4. CASE Forward
  BY <1>4, ForwardKeepsSlots DEF Forward
<1>5. CASE UNCHANGED <<hwRoute, hwUpdated, g_egressTimeStampsAllocated>>
  BY <1>5 DEF TimeStampSlotsExclusive, Claims
<1>. QED
  BY <1>1, <1>2, <1>4, <1>5
     DEF Next, Register, RegisterEgressTimeStampHandler, ForwardUnmatched,
         HwForwardUnmatched, vars, softVars, hwVars

\* However routes, slots and reads interleave, and whatever transfers of routes, of
\* the status and of the clock fail, a timestamp slot is never used by two frames and
\* is reserved while in use, as long as no slot is given back with its flag set: where
\* the read of the timestamp itself fails, the code does that.
THEOREM SlotsAreExclusive == Spec /\ [][FlagsCleared]_vars => []TimeStampSlotsExclusive
<1>1. Init => TimeStampSlotsExclusive
  BY DEF Init, TimeStampSlotsExclusive, Claims
<1>. QED
  BY <1>1, NextKeepsSlots, TypeCorrect, PTL DEF Spec

-----------------------------------------------------------------------------
(* The count kept beside the bits *)

\* All slots are free after the initialisation, and count no port.
LEMMA InitCount == Init => CountMatchesBits
BY FS_EmptySet DEF Init, CountMatchesBits

\* Claiming a slot counts each of its ports, where all ports are polled.
LEMMA AllocateKeepsCount ==
    ASSUME TypeOK, CountMatchesBits, PolledPort = Port,
           NEW i \in TimeStampIndex, NEW dest \in SUBSET Port,
           g_egressTimeStampsAllocated[i] \cap dest = {},
           AllocateTimeStamp(i, dest)
    PROVE  CountMatchesBits'
<1>. DEFINE bits == g_egressTimeStampsAllocated[i]
<1>1. bits \in SUBSET Port /\ bits \cup dest \in SUBSET Port
  BY DEF TypeOK
<1>2. /\ IsFiniteSet(bits) /\ IsFiniteSet(dest)
      /\ Cardinality(bits) \in Nat /\ Cardinality(dest) \in Nat
      /\ Cardinality(bits \cup dest) \in Nat
      /\ Cardinality(bits \cup dest) < CountMod
  BY <1>1, PortSubsets
<1>3. Cardinality(bits \cup dest) = Cardinality(bits) + Cardinality(dest)
  <2>1. Cardinality(bits \cap dest) = 0
    BY FS_EmptySet
  <2>2. Cardinality(bits \cup dest)
            = Cardinality(bits) + Cardinality(dest) - Cardinality(bits \cap dest)
    BY <1>2, FS_Union, Zenon
  <2>. QED
    BY <1>2, <2>1, <2>2
<1>4. (Cardinality(bits) + Cardinality(dest)) % CountMod
          = Cardinality(bits \cup dest)
  BY <1>2, <1>3 DEF CountMod
<1>5. dest \cap PolledPort = dest
  OBVIOUS
<1>. QED
  BY <1>4, <1>5 DEF AllocateTimeStamp, CountMatchesBits, TypeOK

\* Freeing ports of slots discounts each of them once.
LEMMA DeallocateKeepsCount ==
    ASSUME TypeOK, CountMatchesBits,
           NEW ports \in [TimeStampIndex -> SUBSET Port],
           \A i \in TimeStampIndex : ports[i] \subseteq g_egressTimeStampsAllocated[i],
           DeallocateTimeStamps(ports)
    PROVE  CountMatchesBits'
<1>1. ASSUME NEW i \in TimeStampIndex
      PROVE  (Cardinality(g_egressTimeStampsAllocated[i]) - Cardinality(ports[i]))
                 % CountMod = Cardinality(g_egressTimeStampsAllocated[i] \ ports[i])
  <2>. DEFINE bits == g_egressTimeStampsAllocated[i]
              rest == bits \ ports[i]
  <2>1. bits \in SUBSET Port /\ rest \in SUBSET Port /\ bits \cap ports[i] = ports[i]
    BY DEF TypeOK
  <2>2. /\ IsFiniteSet(bits) /\ Cardinality(bits) \in Nat
        /\ Cardinality(ports[i]) \in Nat
        /\ Cardinality(rest) \in Nat /\ Cardinality(rest) < CountMod
    BY <2>1, PortSubsets
  <2>3. Cardinality(rest) = Cardinality(bits) - Cardinality(bits \cap ports[i])
    BY <2>2, FS_Difference, Zenon
  <2>4. Cardinality(rest) = Cardinality(bits) - Cardinality(ports[i])
    BY <2>1, <2>3
  <2>. HIDE DEF rest
  <2>5. Cardinality(rest) % CountMod = Cardinality(rest)
    BY <2>2 DEF CountMod
  <2>. QED
    BY <2>4, <2>5 DEF rest
<1>. QED
  BY <1>1 DEF DeallocateTimeStamps, CountMatchesBits, TypeOK

\* Setting up a route keeps the counters, where all ports are polled.
LEMMA SetupKeepsCount ==
    ASSUME TypeOK, CountMatchesBits, PolledPort = Port,
           NEW mac, NEW dest \in (SUBSET Port) \ {{}}, NEW take \in BOOLEAN,
           NEW readFailed, NEW writeFailed,
           SetupMgmtRoute(mac, dest, take, readFailed, writeFailed)
    PROVE  CountMatchesBits'
<1>1. CASE UNCHANGED <<g_egressTimeStampsAllocated, g_nEgressTimeStampsAllocated>>
  BY <1>1 DEF CountMatchesBits
<1>2. CASE /\ take /\ UsableTimeStamps(dest) # {}
           /\ AllocateTimeStamp(BestTimeStamp(dest), dest)
  <2>1. BestTimeStamp(dest) \in UsableTimeStamps(dest)
    BY <1>2, BestTimeStampIsUsable
  <2>. QED
    BY <1>2, <2>1, AllocateKeepsCount DEF UsableTimeStamps
<1>. QED
  BY <1>1, <1>2
     DEF SetupMgmtRoute, SetupRefused, SetupWithoutTimeStamp, SetupGranted

\* Reading keeps the counters.
LEMMA ReadKeepsCount ==
    ASSUME TypeOK, TimeStampSlotsExclusive, CountMatchesBits, Poll \/ Get
    PROVE  CountMatchesBits'
<1>1. PICK freed, cleared : ReadsOnly(freed, cleared)
  BY ReadEffect
<1>. DEFINE read == [i \in TimeStampIndex |-> {p \in Port : <<p, i>> \in freed}]
<1>2. read \in [TimeStampIndex -> SUBSET Port] /\ DeallocateTimeStamps(read)
  BY <1>1 DEF ReadsOnly
<1>3. \A i \in TimeStampIndex : read[i] \subseteq g_egressTimeStampsAllocated[i]
  BY <1>1 DEF ReadsOnly, TimeStampSlotsExclusive
<1>. QED
  BY <1>2, <1>3, DeallocateKeepsCount

\* Every step keeps the counters, where all ports are polled.
LEMMA NextKeepsCount ==
    /\ PolledPort = Port
    /\ TypeOK /\ TimeStampSlotsExclusive /\ CountMatchesBits /\ [Next]_vars
    => CountMatchesBits'
<1>. SUFFICES ASSUME PolledPort = Port, TypeOK, TimeStampSlotsExclusive,
                     CountMatchesBits, [Next]_vars
              PROVE  CountMatchesBits'
  OBVIOUS
<1>1. CASE Setup
  BY <1>1, SetupKeepsCount DEF Setup
<1>2. CASE Poll \/ Get
  BY <1>2, ReadKeepsCount
<1>4. CASE UNCHANGED <<g_egressTimeStampsAllocated, g_nEgressTimeStampsAllocated>>
  BY <1>4 DEF CountMatchesBits
<1>. QED
  BY <1>1, <1>2, <1>4
     DEF Next, Register, RegisterEgressTimeStampHandler, Forward, HwForward,
         ForwardUnmatched, HwForwardUnmatched, vars, softVars

\* Where every logical port is below SJA1105P_N_PORTS and nobody flushes, the uint8_t
\* count never drifts from the bits, as long as no slot is given back with its flag
\* set: a second read would give it back, and count it, again.
THEOREM CountIsExact ==
    PolledPort = Port => (Spec /\ [][FlagsCleared]_vars => []CountMatchesBits)
<1>. SUFFICES ASSUME PolledPort = Port
              PROVE  Spec /\ [][FlagsCleared]_vars => []CountMatchesBits
  OBVIOUS
<1>1. TypeOK /\ TimeStampSlotsExclusive /\ CountMatchesBits /\ [Next]_vars
          => CountMatchesBits'
  BY NextKeepsCount
<1>. QED
  BY <1>1, InitCount, SlotsAreExclusive, TypeCorrect, PTL DEF Spec

-----------------------------------------------------------------------------
(* Armed routes are known to software *)

\* Setups read the routes in use without an error: writes and ticks may fail.
SyncsSucceed ==
    Setup => \E mac \in MacAddr, dest \in (SUBSET Port) \ {{}}, take \in BOOLEAN,
                readFailed \in SpiFailure, writeFailed \in SpiFailure :
        /\ SetupMgmtRoute(mac, dest, take, readFailed, writeFailed)
        /\ SyncSucceeds(readFailed)

\* And they write the routes of a frame everywhere, or nowhere.
SetupsAtomic ==
    Setup => \E mac \in MacAddr, dest \in (SUBSET Port) \ {{}}, take \in BOOLEAN,
                readFailed \in SpiFailure, writeFailed \in SpiFailure :
        /\ SetupMgmtRoute(mac, dest, take, readFailed, writeFailed)
        /\ SyncSucceeds(readFailed)
        /\ Span(dest) \cap writeFailed = {} \/ Span(dest) \subseteq writeFailed

\* And no such write fails.
SetupsSucceed ==
    Setup => \E mac \in MacAddr, dest \in (SUBSET Port) \ {{}}, take \in BOOLEAN,
                readFailed \in SpiFailure, writeFailed \in SpiFailure :
        /\ SetupMgmtRoute(mac, dest, take, readFailed, writeFailed)
        /\ SyncSucceeds(readFailed)
        /\ Span(dest) \cap writeFailed = {}

\* The later of the three conditions imply the earlier ones.
LEMMA ConditionsWeaken ==
    (SetupsSucceed => SetupsAtomic) /\ (SetupsAtomic => SyncsSucceed)
BY DEF SetupsSucceed, SetupsAtomic, SyncsSucceed

\* All three hold where no transfer fails, and the second follows from the first
\* on a single switch, which has nothing to write in part.
THEOREM SetupConditions ==
    /\ ~SpiMayFail => (Spec => [][SetupsSucceed]_vars)
    /\ NSwitches = 1 => (Spec /\ [][SyncsSucceed]_vars => [][SetupsAtomic]_vars)
<1>1. ASSUME ~SpiMayFail
      PROVE  Spec => [][SetupsSucceed]_vars
  <2>1. SetupsSucceed
    <3>1. SpiFailure = {{}}
      BY <1>1 DEF SpiFailure
    <3>2. ASSUME NEW mac \in MacAddr, NEW dest \in (SUBSET Port) \ {{}}, NEW take \in BOOLEAN,
                 NEW readFailed \in SpiFailure, NEW writeFailed \in SpiFailure
          PROVE  SyncSucceeds(readFailed) /\ Span(dest) \cap writeFailed = {}
      BY <3>1 DEF SyncSucceeds
    <3>3. ASSUME Setup
          PROVE  \E mac \in MacAddr, dest \in (SUBSET Port) \ {{}}, take \in BOOLEAN,
                    readFailed \in SpiFailure, writeFailed \in SpiFailure :
                        /\ SetupMgmtRoute(mac, dest, take, readFailed, writeFailed)
                        /\ SyncSucceeds(readFailed)
                        /\ Span(dest) \cap writeFailed = {}
      <4>1. PICK mac \in MacAddr, dest \in (SUBSET Port) \ {{}}, take \in BOOLEAN,
                 readFailed \in SpiFailure, writeFailed \in SpiFailure :
                   SetupMgmtRoute(mac, dest, take, readFailed, writeFailed)
        BY <3>3 DEF Setup
      <4>2. SyncSucceeds(readFailed) /\ Span(dest) \cap writeFailed = {}
        BY <3>2
      <4>. QED
        BY <4>1, <4>2, Zenon
    <3>. QED
      BY <3>3 DEF SetupsSucceed
  <2>. QED
    BY <2>1, PTL DEF Spec
<1>2. ASSUME NSwitches = 1
      PROVE  Spec /\ [][SyncsSucceed]_vars => [][SetupsAtomic]_vars
  <2>1. \A dest \in SUBSET Port : Span(dest) = {0}
    <3>1. Switch = {0}
      BY <1>2 DEF Switch
    <3>. QED
      BY <3>1 DEF Span
  <2>2. \A dest \in (SUBSET Port) \ {{}}, writeFailed \in SpiFailure :
            Span(dest) \cap writeFailed = {} \/ Span(dest) \subseteq writeFailed
    BY <2>1
  <2>3. ASSUME SyncsSucceed, Setup
        PROVE  \E mac \in MacAddr, dest \in (SUBSET Port) \ {{}}, take \in BOOLEAN,
                  readFailed \in SpiFailure, writeFailed \in SpiFailure :
                      /\ SetupMgmtRoute(mac, dest, take, readFailed, writeFailed)
                      /\ SyncSucceeds(readFailed)
                      /\ Span(dest) \cap writeFailed = {} \/ Span(dest) \subseteq writeFailed
    <3>1. PICK mac \in MacAddr, dest \in (SUBSET Port) \ {{}}, take \in BOOLEAN,
               readFailed \in SpiFailure, writeFailed \in SpiFailure :
                 /\ SetupMgmtRoute(mac, dest, take, readFailed, writeFailed)
                 /\ SyncSucceeds(readFailed)
      BY <2>3 DEF SyncsSucceed
    <3>. QED
      BY <3>1, <2>2
  <2>4. SyncsSucceed => SetupsAtomic
    BY <2>3 DEF SetupsAtomic
  <2>. QED
    BY <2>4, PTL
<1>. QED
  BY <1>1, <1>2

\* Reading all routes in use, the driver drops those used up and no other.
LEMMA SyncedWithoutFailure ==
    ASSUME TypeOK, NEW readFailed, SyncSucceeds(readFailed)
    PROVE  Synced(readFailed) = [s \in Switch |-> {r \in g_mgmtRouteActive[s] :
                                                       hwRoute[s][r] # NoRoute}]
<1>1. ASSUME NEW s \in Switch, NEW r \in g_mgmtRouteActive[s]
      PROVE  s \notin readFailed /\ ProbedIndex(s, r, readFailed) = r
  BY DEF SyncSucceeds, ProbedIndex
<1>. QED
  BY <1>1 DEF Synced

\* A setup writes only over an entry the hardware has used up, and marks it.
LEMMA SetupRoutes ==
    ASSUME TypeOK, LiveRoutesActive, NEW mac, NEW dest, NEW take, NEW writeFailed,
           NEW readFailed, SyncSucceeds(readFailed),
           SetupMgmtRoute(mac, dest, take, readFailed, writeFailed),
           NEW s \in Switch, NEW r \in RouteIndex
    PROVE  /\ hwRoute[s][r] # NoRoute => hwRoute'[s][r] = hwRoute[s][r]
           /\ hwRoute'[s][r] # NoRoute => r \in g_mgmtRouteActive'[s]
<1>. DEFINE active == Synced(readFailed)
<1>1. hwRoute[s][r] # NoRoute => r \in active[s]
  BY SyncedWithoutFailure DEF LiveRoutesActive
<1>2. CASE hwRoute' = hwRoute /\ g_mgmtRouteActive' = active
  BY <1>1, <1>2
<1>3. CASE SetupGranted(mac, dest, take, readFailed, writeFailed)
  <2>1. CASE s \in Span(dest) /\ r = BestRoute(active, s, mac)
    <3>1. r \notin active[s]
      BY <1>3, <2>1, AllocatedIndex DEF SetupGranted
    <3>2. r \in g_mgmtRouteActive'[s]
      BY <1>3, <2>1 DEF SetupGranted
    <3>. QED
      BY <1>1, <3>1, <3>2
  <2>2. CASE ~(s \in Span(dest) /\ r = BestRoute(active, s, mac))
    <3>1. hwRoute'[s][r] = hwRoute[s][r]
      BY <1>3, <2>2 DEF SetupGranted, TypeOK
    <3>2. active[s] \subseteq g_mgmtRouteActive'[s]
      BY <1>3 DEF SetupGranted
    <3>. QED
      BY <1>1, <3>1, <3>2
  <2>. QED
    BY <2>1, <2>2
<1>. QED
  BY <1>2, <1>3
     DEF SetupMgmtRoute, SetupRefused, SetupWithoutTimeStamp, hwVars

\* A frame disarms routes and changes no other.
LEMMA ForwardOnlyDisarms ==
    ASSUME TypeOK, NEW s \in Switch, HwForward(s),
           NEW t \in Switch, NEW r \in RouteIndex
    PROVE  hwRoute'[t][r] \in {hwRoute[t][r], NoRoute}
BY DEF HwForward, TypeOK

\* Where setups read the routes in use, a step changes an armed route by using it up
\* only.
LEMMA NextKeepsRoutes ==
    /\ TypeOK /\ LiveRoutesActive /\ [Next]_vars /\ [SyncsSucceed]_vars
    => /\ LiveRoutesActive'
       /\ \A s \in Switch, r \in RouteIndex :
              hwRoute[s][r] # NoRoute => hwRoute'[s][r] \in {hwRoute[s][r], NoRoute}
<1>. SUFFICES ASSUME TypeOK, LiveRoutesActive, [Next]_vars, [SyncsSucceed]_vars,
                     NEW s \in Switch, NEW r \in RouteIndex
              PROVE  /\ hwRoute'[s][r] # NoRoute => r \in g_mgmtRouteActive'[s]
                     /\ hwRoute[s][r] # NoRoute =>
                            hwRoute'[s][r] \in {hwRoute[s][r], NoRoute}
  BY DEF LiveRoutesActive
<1>1. CASE Setup /\ SyncsSucceed
  BY <1>1, SetupRoutes DEF SyncsSucceed
<1>2. CASE Forward
  <2>1. PICK t \in Switch : HwForward(t)
    BY <1>2 DEF Forward
  <2>2. g_mgmtRouteActive' = g_mgmtRouteActive
    BY <2>1 DEF HwForward, softVars
  <2>. QED
    BY <2>1, <2>2, ForwardOnlyDisarms DEF LiveRoutesActive
<1>3. CASE UNCHANGED <<hwRoute, g_mgmtRouteActive>>
  BY <1>3 DEF LiveRoutesActive
<1>4. CASE Poll \/ Get
  BY <1>3, <1>4, ReadEffect DEF ReadsOnly
<1>5. CASE UNCHANGED vars
  BY <1>3, <1>5 DEF vars, softVars, hwVars
<1>. QED
  BY <1>1, <1>2, <1>3, <1>4, <1>5
     DEF Next, Register, RegisterEgressTimeStampHandler,
         ForwardUnmatched, HwForwardUnmatched, softVars, hwVars

\* As long as setups read the routes in use without an error, a route armed in the
\* hardware is marked as in use, whatever writes and ticks fail.
THEOREM ArmedRoutesAreKnown == Spec /\ [][SyncsSucceed]_vars => []LiveRoutesActive
<1>1. Init => LiveRoutesActive
  BY DEF Init, LiveRoutesActive
<1>2. TypeOK /\ LiveRoutesActive /\ [Next]_vars /\ [SyncsSucceed]_vars => LiveRoutesActive'
  BY NextKeepsRoutes
<1>. QED
  BY <1>1, <1>2, TypeCorrect, PTL DEF Spec

\* And it changes only by being used up: no setup overwrites a route its frame is still
\* to meet.
THEOREM ArmedRoutesSurvive == Spec /\ [][SyncsSucceed]_vars => NoLiveRouteOverwritten
<1>1. TypeOK /\ LiveRoutesActive /\ [Next]_vars /\ [SyncsSucceed]_vars =>
          [\A s \in Switch, r \in RouteIndex :
              hwRoute[s][r] # NoRoute =>
                  hwRoute'[s][r] \in {hwRoute[s][r], NoRoute}]_vars
  BY NextKeepsRoutes
<1>. QED
  BY <1>1, ArmedRoutesAreKnown, TypeCorrect, PTL DEF Spec, NoLiveRouteOverwritten

-----------------------------------------------------------------------------
(* Every frame meets its own route *)

\* The k-th frame at switch t is still to pass switch s.
ToPass(t, k, s) ==
    k \in 1 .. Len(wire[t]) /\ t <= s /\ s \in Span(wire[t][k].destports)

\* R says which entry of which switch was set up for which frame: each frame has one in
\* every switch it is still to pass, later frames to one address have later ones, and
\* no other entry is armed.
OwnRoutes(R) ==
    /\ \A t, s \in Switch, k \in Nat : ToPass(t, k, s) =>
          /\ R[t][k][s] \in RouteIndex
          /\ hwRoute[s][R[t][k][s]]
                = RouteAt(s, wire[t][k].macaddr, wire[t][k].destports, wire[t][k].ts)
    /\ \A t, u, s \in Switch, k, j \in Nat :
          /\ ToPass(t, k, s) /\ ToPass(u, j, s)
          /\ wire[t][k].macaddr = wire[u][j].macaddr
          /\ u < t \/ (u = t /\ k < j)
          => R[t][k][s] < R[u][j][s]
    /\ \A s \in Switch, r \in RouteIndex : hwRoute[s][r] # NoRoute =>
          \E t \in Switch, k \in Nat : ToPass(t, k, s) /\ R[t][k][s] = r

\* The inductive invariant: software knows the address of an armed route, frames are
\* only where they have to pass, and have routes of their own.
RoutesInv ==
    /\ TypeOK /\ LiveRoutesActive
    /\ \A s \in Switch, r \in RouteIndex :
          hwRoute[s][r] # NoRoute => mgmtRouteMacaddr[s][r] = hwRoute[s][r].macaddr
    /\ \A t \in Switch : \A k \in 1 .. Len(wire[t]) : t \in Span(wire[t][k].destports)
    /\ \E R : OwnRoutes(R)

\* The entry written for a frame is an armed one, with the address of the frame.
LEMMA RouteAtFields ==
    ASSUME NEW s \in Switch, NEW f \in Frame
    PROVE  /\ RouteAt(s, f.macaddr, f.destports, f.ts) # NoRoute
           /\ RouteAt(s, f.macaddr, f.destports, f.ts).macaddr = f.macaddr
           /\ RouteAt(s, f.macaddr, f.destports, f.ts).cascade = Extends(s, f.destports)
           /\ RouteAt(s, f.macaddr, f.destports, f.ts).ts = f.ts
           /\ RouteAt(s, f.macaddr, f.destports, f.ts).destports
                 = {p \in f.destports : SwitchOf[p] = s}
<1>1. Extends(s, f.destports) \in BOOLEAN
  BY DEF Extends
<1>2. f.macaddr \in MacAddr /\ f.destports \in SUBSET Port /\ f.ts \in 0 .. NTimeStamps
  BY DEF Frame
<1>3. {p \in f.destports : SwitchOf[p] = s} \in SUBSET Port
  BY <1>2
<1>4. RouteAt(s, f.macaddr, f.destports, f.ts) \in Route
  BY <1>1, <1>2, <1>3 DEF RouteAt, Route
<1>5. QED BY <1>4, RouteAssumption DEF RouteAt

\* The frames on the wire are frames.
LEMMA WireFrames ==
    ASSUME TypeOK, NEW t \in Switch
    PROVE  /\ wire[t] \in Seq(Frame) /\ Len(wire[t]) \in Nat
           /\ \A k \in 1 .. Len(wire[t]) : wire[t][k] \in Frame
           /\ wire[t] # <<>> => /\ 1 \in 1 .. Len(wire[t]) /\ Head(wire[t]) = wire[t][1]
                                /\ Len(Tail(wire[t])) = Len(wire[t]) - 1
                                /\ \A k \in 1 .. Len(wire[t]) - 1 : Tail(wire[t])[k] = wire[t][k + 1]
<1>1. wire[t] \in Seq(Frame)
  BY DEF TypeOK
<1>2. QED BY <1>1

\* The lowest entry that matches the frame at the head of the queue is its own.
LEMMA HeadOwnsLowest ==
    ASSUME RoutesInv, NEW R, OwnRoutes(R), NEW s \in Switch, wire[s] # <<>>
    PROVE  /\ ToPass(s, 1, s)
           /\ R[s][1][s] \in Matching(s, Head(wire[s]).macaddr)
           /\ Min(Matching(s, Head(wire[s]).macaddr)) = R[s][1][s]
<1> DEFINE f == wire[s][1]
           M == Matching(s, f.macaddr)
           own == R[s][1][s]
<1>1. f \in Frame /\ Head(wire[s]) = f /\ 1 \in 1 .. Len(wire[s])
  BY WireFrames DEF RoutesInv
<1>2. ToPass(s, 1, s)
  BY <1>1, IndexSets DEF RoutesInv, ToPass
<1>3. own \in RouteIndex /\ hwRoute[s][own] = RouteAt(s, f.macaddr, f.destports, f.ts)
  BY <1>2 DEF OwnRoutes
<1>4. own \in M
  BY <1>1, <1>3, RouteAtFields DEF Matching
<1>5. ASSUME NEW q \in M PROVE own <= q
  <2>1. q \in RouteIndex /\ hwRoute[s][q] # NoRoute /\ hwRoute[s][q].macaddr = f.macaddr
    BY DEF Matching
  <2>2. PICK t \in Switch, k \in Nat : ToPass(t, k, s) /\ R[t][k][s] = q
    BY <2>1 DEF OwnRoutes
  <2>3. wire[t][k] \in Frame
    BY <2>2, WireFrames DEF RoutesInv, ToPass
  <2>4. wire[t][k].macaddr = f.macaddr
    BY <2>1, <2>2, <2>3, RouteAtFields DEF OwnRoutes
  <2>5. own \in Nat /\ q \in Nat
    BY <1>3, <2>1, IndexSets
  <2>6. CASE t = s /\ k = 1
    BY <2>2, <2>5, <2>6
  <2>7. CASE ~(t = s /\ k = 1)
    <3>1. t < s \/ (t = s /\ 1 < k)
      BY <2>2, <2>7, WireFrames, IndexSets DEF ToPass
    <3>2. own < q
      BY <1>2, <2>2, <2>4, <3>1 DEF OwnRoutes
    <3>3. QED BY <2>5, <3>2
  <2>8. QED BY <2>6, <2>7
<1>6. M \in SUBSET Nat /\ M # {}
  BY <1>4, IndexSets DEF Matching
<1>7. Min(M) \in M /\ Min(M) <= own /\ own <= Min(M)
  BY <1>4, <1>5, <1>6, MinIsLeast
<1>8. Min(M) = own
  <2>1. Min(M) \in Nat /\ own \in Nat
    BY <1>4, <1>6, <1>7
  <2>2. QED BY <1>7, <2>1
<1>9. QED BY <1>1, <1>2, <1>4, <1>8

\* So every frame leaves as it was set up to.
LEMMA OwnRoutesSuffice ==
    ASSUME RoutesInv
    PROVE  FrameUsesOwnRoute
<1> SUFFICES ASSUME NEW s \in Switch, wire[s] # <<>>
             PROVE  LET f == Head(wire[s]) IN
                    /\ Matching(s, f.macaddr) # {}
                    /\ MatchedRoute(s, f.macaddr) = RouteAt(s, f.macaddr, f.destports, f.ts)
  BY DEF FrameUsesOwnRoute
<1>1. PICK R : OwnRoutes(R)
  BY DEF RoutesInv
<1>2. /\ ToPass(s, 1, s) /\ R[s][1][s] \in Matching(s, Head(wire[s]).macaddr)
      /\ Min(Matching(s, Head(wire[s]).macaddr)) = R[s][1][s]
  BY <1>1, HeadOwnsLowest
<1>3. Head(wire[s]) = wire[s][1]
  BY WireFrames DEF RoutesInv
<1>4. hwRoute[s][R[s][1][s]] = RouteAt(s, wire[s][1].macaddr, wire[s][1].destports, wire[s][1].ts)
  BY <1>1, <1>2 DEF OwnRoutes
<1>5. QED BY <1>2, <1>3, <1>4 DEF MatchedRoute

\* A setup that is refused, or gives its routes back, changes no route.
LEMMA NoSetupKeepsOwn ==
    ASSUME RoutesInv, TypeOK', LiveRoutesActive', UNCHANGED <<hwRoute, wire>>,
           \A s \in Switch, r \in RouteIndex :
              hwRoute[s][r] # NoRoute => mgmtRouteMacaddr'[s][r] = mgmtRouteMacaddr[s][r]
    PROVE  RoutesInv'
<1>1. PICK R : OwnRoutes(R)
  BY DEF RoutesInv
<1>2. OwnRoutes(R)'
  BY <1>1 DEF OwnRoutes, ToPass
<1>3. QED BY <1>2 DEF RoutesInv


\* A switch that a frame is still to pass after another one needs the link to it.
LEMMA Spanned ==
    ASSUME NEW dest \in SUBSET Port, NEW s \in Switch, NEW u \in Switch, s < u
    PROVE  /\ u \in Span(dest) => Extends(s, dest)
           /\ Extends(s, dest) => s + 1 \in Span(dest)
<1>1. s \in Nat /\ u \in Nat /\ s + 1 \in Switch
  BY ShapeAssumption DEF Switch
<1>2. \A p \in dest : SwitchOf[p] \in Nat
  BY PortAssumption, IndexSets
<1>3. QED BY <1>1, <1>2 DEF Span, Extends

\* A frame that is sent gets an entry above those of all frames to the same address.
LEMMA GrantKeepsOwn ==
    ASSUME RoutesInv, NEW mac \in MacAddr, NEW dest \in (SUBSET Port) \ {{}}, NEW take \in BOOLEAN,
           NEW readFailed, NEW writeFailed,
           SyncSucceeds(readFailed), Span(dest) \cap writeFailed = {},
           SetupGranted(mac, dest, take, readFailed, writeFailed), TypeOK', LiveRoutesActive'
    PROVE  RoutesInv'
<1> DEFINE active == Synced(readFailed)
           best == [s \in Switch |-> BestRoute(active, s, mac)]
           ts == IF take THEN BestTimeStamp(dest) ELSE NoTimeStamp
           f == [macaddr |-> mac, destports |-> dest, ts |-> ts]
<1>0. 0 \in Switch /\ wire[0] \in Seq(Frame) /\ Len(wire[0]) \in Nat
  BY WireFrames, IndexSets DEF RoutesInv
<1>1. PICK n \in Nat : n - 1 = Len(wire[0])
  BY <1>0
<1>2. wire' = [wire EXCEPT ![0] = Append(@, f)]
  BY DEF SetupGranted
<1>3. /\ Len(wire'[0]) = n /\ wire'[0][n] = f
      /\ \A k \in 1 .. n - 1 : wire'[0][k] = wire[0][k]
      /\ \A t \in Switch \ {0} : wire'[t] = wire[t]
  BY <1>0, <1>1, <1>2 DEF RoutesInv, TypeOK
<1>4. f.macaddr = mac /\ f.destports = dest /\ f.ts = ts
  OBVIOUS
<1>5. f \in Frame
  <2>1. wire'[0] \in Seq(Frame) /\ n \in 1 .. Len(wire'[0])
    BY <1>0, <1>1, <1>3 DEF TypeOK
  <2>2. QED BY <1>3, <2>1
<1>6. \A s \in Span(dest) : best[s] \in RouteIndex /\ best[s] \notin active[s] /\ s \in Switch
  BY AllocatedIndex DEF SetupGranted, Span
<1>7. \A s \in Switch, r \in RouteIndex : hwRoute[s][r] # NoRoute => r \in active[s]
  BY SyncedWithoutFailure DEF RoutesInv, LiveRoutesActive
<1>8. \A s \in Switch, r \in RouteIndex :
         /\ s \in Span(dest) /\ r = best[s] => hwRoute'[s][r] = RouteAt(s, mac, dest, ts)
         /\ ~(s \in Span(dest) /\ r = best[s]) => hwRoute'[s][r] = hwRoute[s][r]
  BY DEF SetupGranted, RoutesInv, TypeOK
<1>9. \A s \in Switch, r \in RouteIndex :
         /\ s \in Span(dest) /\ r = best[s] => mgmtRouteMacaddr'[s][r] = mac
         /\ ~(s \in Span(dest) /\ r = best[s]) => mgmtRouteMacaddr'[s][r] = mgmtRouteMacaddr[s][r]
  BY DEF SetupGranted, RecordAddress, RoutesInv, TypeOK
<1>10. ASSUME NEW s \in Switch, NEW r \in RouteIndex, s \in Span(dest),
              hwRoute[s][r] # NoRoute, hwRoute[s][r].macaddr = mac
       PROVE  r < best[s]
  <2>1. r \in active[s] /\ mgmtRouteMacaddr[s][r] = mac
    BY <1>7, <1>10 DEF RoutesInv
  <2>2. Candidates(active, s, mac) # {}
    BY <1>10 DEF SetupGranted, Allocatable
  <2>3. best[s] \in Candidates(active, s, mac)
    BY <2>2, BestRouteIsCandidate
  <2>4. QED BY <2>1, <2>3 DEF Candidates
<1>11. PICK R : OwnRoutes(R)
  BY DEF RoutesInv
<1>12. PICK R2 : /\ R2[0][n] = best
                 /\ \A t \in Switch, k \in Nat : ~(t = 0 /\ k = n) => R2[t][k] = R[t][k]
  <2> DEFINE Q == [t \in Switch |-> [k \in Nat |-> IF t = 0 /\ k = n THEN best ELSE R[t][k]]]
  <2>1. /\ Q[0][n] = best
        /\ \A t \in Switch, k \in Nat : ~(t = 0 /\ k = n) => Q[t][k] = R[t][k]
    BY <1>0, <1>1
  <2> HIDE DEF Q
  <2>2. QED BY <2>1
<1> HIDE DEF active, best, ts, f
<1>13. \A t, s \in Switch, k \in Nat :
          ToPass(t, k, s)' <=> ToPass(t, k, s) \/ (t = 0 /\ k = n /\ s \in Span(dest))
  <2>1. \A t, s \in Switch, k \in Nat : ~(t = 0 /\ k = n) => (ToPass(t, k, s)' <=> ToPass(t, k, s))
    <3> SUFFICES ASSUME NEW t \in Switch, NEW s \in Switch, NEW k \in Nat, ~(t = 0 /\ k = n)
                 PROVE  ToPass(t, k, s)' <=> ToPass(t, k, s)
      OBVIOUS
    <3>1. k \in 1 .. Len(wire'[t]) <=> k \in 1 .. Len(wire[t])
      BY <1>0, <1>1, <1>3
    <3>2. k \in 1 .. Len(wire[t]) => wire'[t][k] = wire[t][k]
      BY <1>0, <1>1, <1>3
    <3>3. QED BY <3>1, <3>2 DEF ToPass, Span
  <2>2. \A s \in Switch : ToPass(0, n, s)' <=> s \in Span(dest)
    <3>1. n \in 1 .. Len(wire'[0]) /\ wire'[0][n].destports = dest
      BY <1>0, <1>1, <1>3, <1>4
    <3>2. \A s \in Switch : 0 <= s
      BY IndexSets
    <3>3. QED BY <3>1, <3>2 DEF ToPass, Span
  <2>3. \A s \in Switch : ~ToPass(0, n, s)
    BY <1>0, <1>1 DEF ToPass
  <2>4. ASSUME NEW t \in Switch, NEW s \in Switch, NEW k \in Nat
        PROVE  ToPass(t, k, s)' <=> ToPass(t, k, s) \/ (t = 0 /\ k = n /\ s \in Span(dest))
    <3>1. CASE t = 0 /\ k = n
      BY <2>2, <2>3, <3>1
    <3>2. CASE ~(t = 0 /\ k = n)
      BY <2>1, <3>2
    <3>3. QED BY <3>1, <3>2
  <2>5. QED BY <2>4
<1>14. \A t, s \in Switch, k \in Nat : ToPass(t, k, s) => ~(t = 0 /\ k = n) /\ wire'[t][k] = wire[t][k]
  BY <1>0, <1>1, <1>3 DEF ToPass
<1>15. ASSUME NEW t \in Switch, NEW s \in Switch, NEW k \in Nat, ToPass(t, k, s)
       PROVE  /\ R[t][k][s] \in RouteIndex /\ R2[t][k] = R[t][k]
              /\ hwRoute[s][R[t][k][s]] # NoRoute
              /\ hwRoute[s][R[t][k][s]].macaddr = wire[t][k].macaddr
              /\ hwRoute'[s][R[t][k][s]] = hwRoute[s][R[t][k][s]]
  <2>1. R[t][k][s] \in RouteIndex /\ R2[t][k] = R[t][k]
        /\ hwRoute[s][R[t][k][s]] = RouteAt(s, wire[t][k].macaddr, wire[t][k].destports, wire[t][k].ts)
    BY <1>11, <1>12, <1>14, <1>15 DEF OwnRoutes
  <2>2. wire[t][k] \in Frame
    BY <1>15, WireFrames DEF ToPass, RoutesInv
  <2>3. hwRoute[s][R[t][k][s]] # NoRoute /\ hwRoute[s][R[t][k][s]].macaddr = wire[t][k].macaddr
    BY <2>1, <2>2, RouteAtFields
  <2>4. ~(s \in Span(dest) /\ R[t][k][s] = best[s])
    BY <1>6, <1>7, <2>1, <2>3
  <2>5. QED BY <1>8, <2>1, <2>3, <2>4
<1>16. ASSUME NEW t \in Switch, NEW s \in Switch, NEW k \in Nat, ToPass(t, k, s)'
       PROVE  /\ R2[t][k][s] \in RouteIndex
              /\ hwRoute'[s][R2[t][k][s]]
                    = RouteAt(s, wire'[t][k].macaddr, wire'[t][k].destports, wire'[t][k].ts)
  <2>1. CASE ToPass(t, k, s)
    BY <1>11, <1>14, <1>15, <2>1 DEF OwnRoutes
  <2>2. CASE t = 0 /\ k = n /\ s \in Span(dest)
    BY <1>3, <1>4, <1>6, <1>8, <1>12, <2>2
  <2>3. QED BY <1>13, <1>16, <2>1, <2>2
<1>17. ASSUME NEW t \in Switch, NEW u \in Switch, NEW s \in Switch, NEW k \in Nat, NEW j \in Nat,
              ToPass(t, k, s)', ToPass(u, j, s)', wire'[t][k].macaddr = wire'[u][j].macaddr,
              u < t \/ (u = t /\ k < j)
       PROVE  R2[t][k][s] < R2[u][j][s]
  <2>1. ~(t = 0 /\ k = n)
    <3>1. ASSUME t = 0, k = n PROVE FALSE
      <4>1. u = 0 /\ k < j
        BY <1>17, <3>1, IndexSets
      <4>2. j <= n
        BY <1>0, <1>1, <1>3, <1>17, <4>1 DEF ToPass
      <4>3. QED BY <1>0, <1>1, <3>1, <4>1, <4>2
    <3>2. QED BY <3>1
  <2>2. ToPass(t, k, s)
    BY <1>13, <1>17, <2>1
  <2>3. CASE ToPass(u, j, s)
    <3>1. wire'[t][k] = wire[t][k] /\ wire'[u][j] = wire[u][j]
      BY <1>14, <2>2, <2>3
    <3>2. R[t][k][s] < R[u][j][s]
      BY <1>11, <1>17, <2>2, <2>3, <3>1 DEF OwnRoutes
    <3>3. R2[t][k] = R[t][k] /\ R2[u][j] = R[u][j]
      BY <1>15, <2>2, <2>3
    <3>4. QED BY <3>2, <3>3
  <2>4. CASE u = 0 /\ j = n /\ s \in Span(dest)
    <3>1. R2[u][j][s] = best[s] /\ wire'[u][j].macaddr = mac
      BY <1>3, <1>4, <1>12, <2>4
    <3>2. hwRoute[s][R[t][k][s]].macaddr = mac
      BY <1>14, <1>15, <1>17, <2>2, <3>1
    <3>3. R[t][k][s] < best[s]
      BY <1>10, <1>15, <2>2, <2>4, <3>2
    <3>4. R2[t][k] = R[t][k]
      BY <1>15, <2>2
    <3>5. QED BY <3>1, <3>3, <3>4
  <2>5. QED BY <1>13, <1>17, <2>3, <2>4
<1>18. ASSUME NEW s \in Switch, NEW r \in RouteIndex, hwRoute'[s][r] # NoRoute
       PROVE  \E t \in Switch, k \in Nat : ToPass(t, k, s)' /\ R2[t][k][s] = r
  <2>1. CASE s \in Span(dest) /\ r = best[s]
    BY <1>0, <1>1, <1>12, <1>13, <2>1
  <2>2. CASE hwRoute[s][r] # NoRoute
    <3>1. PICK t \in Switch, k \in Nat : ToPass(t, k, s) /\ R[t][k][s] = r
      BY <1>11, <2>2 DEF OwnRoutes
    <3>2. QED BY <1>13, <1>15, <3>1
  <2>3. QED BY <1>8, <1>18, <2>1, <2>2
<1>19. OwnRoutes(R2)'
  BY <1>16, <1>17, <1>18 DEF OwnRoutes
<1>20. ASSUME NEW s \in Switch, NEW r \in RouteIndex, hwRoute'[s][r] # NoRoute
       PROVE  mgmtRouteMacaddr'[s][r] = hwRoute'[s][r].macaddr
  <2>1. CASE s \in Span(dest) /\ r = best[s]
    BY <1>4, <1>5, <1>8, <1>9, <2>1, RouteAtFields
  <2>2. CASE ~(s \in Span(dest) /\ r = best[s])
    BY <1>8, <1>9, <1>20, <2>2 DEF RoutesInv
  <2>3. QED BY <2>1, <2>2
<1>21. ASSUME NEW t \in Switch, NEW k \in 1 .. Len(wire'[t])
       PROVE  t \in Span(wire'[t][k].destports)
  <2>1. CASE t = 0
    BY <2>1, IndexSets DEF Span
  <2>2. CASE t # 0
    BY <1>3, <2>2 DEF RoutesInv
  <2>3. QED BY <2>1, <2>2
<1>22. (\E Q : OwnRoutes(Q))'
  BY <1>19
<1>23. QED BY <1>20, <1>21, <1>22 DEF RoutesInv, Span


\* A frame that leaves a switch uses up its own entry and keeps those further on, where
\* it goes if it has any.
LEMMA ForwardKeepsOwn ==
    ASSUME RoutesInv, NEW s \in Switch, HwForward(s), TypeOK', LiveRoutesActive'
    PROVE  RoutesInv'
<1>1. PICK R : OwnRoutes(R)
  BY DEF RoutesInv
<1> DEFINE f == wire[s][1]
           own == R[s][1][s]
           goesOn == Extends(s, f.destports)
<1>2. wire[s] # <<>> /\ Head(wire[s]) = f
  BY WireFrames DEF HwForward, RoutesInv
<1>3. /\ ToPass(s, 1, s) /\ own \in Matching(s, f.macaddr)
      /\ Min(Matching(s, f.macaddr)) = own
  BY <1>1, <1>2, HeadOwnsLowest
<1>4. own \in RouteIndex /\ f \in Frame /\ s \in Nat /\ s + 1 # s
        /\ hwRoute[s][own] = RouteAt(s, f.macaddr, f.destports, f.ts)
  <2>1. own \in RouteIndex /\ f \in Frame
    BY <1>2, <1>3, WireFrames DEF Matching, RoutesInv
  <2>2. hwRoute[s][own] = RouteAt(s, f.macaddr, f.destports, f.ts)
    BY <1>1, <1>3 DEF OwnRoutes
  <2>3. QED BY <2>1, <2>2, IndexSets
<1>5. /\ hwRoute' = [hwRoute EXCEPT ![s][own] = NoRoute]
      /\ UNCHANGED mgmtRouteMacaddr
      /\ \A t \in Switch :
            /\ t = s => wire'[t] = Tail(wire[s])
            /\ t # s /\ t = s + 1 /\ goesOn => wire'[t] = Append(wire[t], f)
            /\ t # s /\ ~(t = s + 1 /\ goesOn) => wire'[t] = wire[t]
  <2>1. MatchedRoute(s, Head(wire[s]).macaddr).cascade = goesOn
    BY <1>2, <1>3, <1>4, RouteAtFields DEF MatchedRoute
  <2>2. wire' = [t \in Switch |->
                   CASE t = s -> Tail(wire[s])
                     [] t = s + 1 /\ MatchedRoute(s, Head(wire[s]).macaddr).cascade
                            -> Append(wire[t], Head(wire[s]))
                     [] OTHER -> wire[t]]
    BY Zenon DEF HwForward
  <2>3. /\ hwRoute' = [hwRoute EXCEPT ![s][own] = NoRoute]
        /\ UNCHANGED mgmtRouteMacaddr
    BY <1>2, <1>3 DEF HwForward, softVars
  <2> HIDE DEF f, own, goesOn
  <2>4. QED BY <1>2, <1>4, <2>1, <2>2, <2>3
<1> HIDE DEF f, own, goesOn
<1>6. PICK g \in BOOLEAN : g <=> goesOn
  BY DEF goesOn, Extends
<1>7. PICK n \in Nat : s + 1 \in Switch => n = Len(wire[s + 1])
  <2>1. s + 1 \in Switch => Len(wire[s + 1]) \in Nat
    BY WireFrames DEF RoutesInv
  <2>2. QED BY <2>1
<1>8. /\ Len(wire'[s]) = Len(wire[s]) - 1 /\ Len(wire[s]) \in Nat
      /\ \A k \in 1 .. Len(wire[s]) - 1 : wire'[s][k] = wire[s][k + 1]
  <2>1. wire'[s] = Tail(wire[s])
    BY <1>5
  <2>2. QED BY <1>2, <2>1, WireFrames DEF RoutesInv
<1>9. \A t \in Switch : t # s /\ ~(t = s + 1 /\ g) => wire'[t] = wire[t]
  BY <1>5, <1>6
<1>10. s + 1 \in Switch /\ g => /\ Len(wire'[s + 1]) = n + 1 /\ wire'[s + 1][n + 1] = f
                                /\ \A k \in 1 .. n : wire'[s + 1][k] = wire[s + 1][k]
  <2>1. ASSUME s + 1 \in Switch, g
        PROVE  wire'[s + 1] = Append(wire[s + 1], f)
    BY <1>4, <1>5, <1>6, <2>1
  <2>2. s + 1 \in Switch => wire[s + 1] \in Seq(Frame)
    BY WireFrames DEF RoutesInv
  <2>3. ASSUME s + 1 \in Switch, g
        PROVE  /\ Len(wire'[s + 1]) = n + 1 /\ wire'[s + 1][n + 1] = f
               /\ \A k \in 1 .. n : wire'[s + 1][k] = wire[s + 1][k]
    <3>1. wire[s + 1] \in Seq(Frame) /\ n = Len(wire[s + 1]) /\ f \in Frame
      BY <1>4, <1>7, <2>2, <2>3
    <3>2. wire'[s + 1] = Append(wire[s + 1], f)
      BY <2>1, <2>3
    <3>3. QED BY <3>1, <3>2
  <2>4. QED BY <2>3
<1>11. PICK Q : /\ \A k \in Nat : Q[s][k] = R[s][k + 1]
                /\ Q[s + 1][n + 1] = R[s][1]
                /\ \A t \in Switch, k \in Nat : t # s /\ ~(t = s + 1 /\ k = n + 1) => Q[t][k] = R[t][k]
  <2> DEFINE q == [t \in Switch \cup {s + 1} |-> [k \in Nat |->
                      IF t = s THEN R[s][k + 1] ELSE IF t = s + 1 /\ k = n + 1 THEN R[s][1] ELSE R[t][k]]]
  <2>1. /\ \A k \in Nat : q[s][k] = R[s][k + 1]
        /\ q[s + 1][n + 1] = R[s][1]
        /\ \A t \in Switch, k \in Nat : t # s /\ ~(t = s + 1 /\ k = n + 1) => q[t][k] = R[t][k]
    BY <1>4
  <2> HIDE DEF q
  <2>2. QED BY <2>1
\* Where a frame came from, in this step.
<1> DEFINE Came(t, k, v, i) ==
              \/ t = s /\ v = s /\ i = k + 1
              \/ t = s + 1 /\ k = n + 1 /\ v = s /\ i = 1
              \/ t # s /\ ~(t = s + 1 /\ k = n + 1) /\ v = t /\ i = k
<1>12. ASSUME NEW t \in Switch, NEW k \in Nat, NEW u \in Switch, ToPass(t, k, u)'
       PROVE  \E v \in Switch, i \in Nat :
                 /\ Came(t, k, v, i) /\ ToPass(v, i, u) /\ ~(v = s /\ i = 1 /\ u = s)
                 /\ wire'[t][k] = wire[v][i] /\ Q[t][k] = R[v][i]
  <2>0. k \in 1 .. Len(wire'[t]) /\ t <= u /\ u \in Span(wire'[t][k].destports) /\ t \in Nat /\ u \in Nat
    BY <1>12, IndexSets DEF ToPass, Span
  <2>1. CASE t = s
    <3>1. k + 1 \in 1 .. Len(wire[s]) /\ wire'[s][k] = wire[s][k + 1] /\ k + 1 \in Nat /\ k + 1 # 1
      BY <1>8, <2>0, <2>1
    <3>2. ToPass(s, k + 1, u)
      BY <2>0, <2>1, <3>1 DEF ToPass
    <3>3. QED BY <1>11, <2>1, <3>1, <3>2
  <2>2. CASE t = s + 1 /\ k = n + 1
    <3>1. s + 1 \in Switch /\ g /\ wire'[s + 1][n + 1] = f
      <4>1. ~g => k \in 1 .. n
        BY <1>4, <1>7, <1>9, <2>0, <2>2
      <4>2. QED BY <1>10, <2>2, <4>1
    <3>2. ToPass(s, 1, u) /\ u # s
      BY <1>3, <1>4, <2>0, <2>2, <3>1 DEF ToPass, f
    <3>3. QED BY <1>11, <2>2, <3>1, <3>2 DEF f
  <2>3. CASE t # s /\ ~(t = s + 1 /\ k = n + 1)
    <3>1. k \in 1 .. Len(wire[t]) /\ wire'[t][k] = wire[t][k]
      BY <1>7, <1>9, <1>10, <2>0, <2>3
    <3>2. ToPass(t, k, u)
      BY <2>0, <3>1 DEF ToPass
    <3>3. QED BY <1>11, <2>3, <3>1, <3>2
  <2>4. QED BY <2>1, <2>2, <2>3
<1>13. ASSUME NEW v \in Switch, NEW i \in Nat, NEW u \in Switch, ToPass(v, i, u),
              ~(v = s /\ i = 1 /\ u = s)
       PROVE  \E t \in Switch, k \in Nat : ToPass(t, k, u)' /\ Q[t][k] = R[v][i]
  <2>0. i \in 1 .. Len(wire[v]) /\ v <= u /\ u \in Span(wire[v][i].destports) /\ v \in Nat /\ u \in Nat
    BY <1>13, IndexSets DEF ToPass
  <2>1. CASE v = s /\ i # 1
    <3>1. i - 1 \in Nat /\ i - 1 \in 1 .. Len(wire'[s]) /\ wire'[s][i - 1] = wire[s][i] /\ (i - 1) + 1 = i
      <4>1. i - 1 \in 1 .. Len(wire[s]) - 1 /\ (i - 1) + 1 = i
        BY <1>8, <2>0, <2>1
      <4>2. QED BY <1>8, <4>1
    <3>2. ToPass(s, i - 1, u)'
      BY <2>0, <2>1, <3>1 DEF ToPass, Span
    <3>3. Q[s][i - 1] = R[v][i]
      <4>1. Q[s][i - 1] = R[s][(i - 1) + 1]
        BY <1>11, <3>1
      <4>2. QED BY <2>1, <3>1, <4>1
    <3>4. QED BY <3>1, <3>2, <3>3
  <2>2. CASE v = s /\ i = 1
    <3>1. s < u /\ u \in Span(f.destports) /\ f.destports \in SUBSET Port
      BY <1>4, <1>13, <2>0, <2>2 DEF f, Frame
    <3>2. g /\ s + 1 \in Span(f.destports)
      BY <1>6, <3>1, Spanned DEF goesOn
    <3>3. s + 1 \in Switch /\ s + 1 <= u /\ n + 1 \in Nat /\ n + 1 \in 1 .. Len(wire'[s + 1])
      BY <1>4, <1>10, <2>0, <3>1, <3>2 DEF Span
    <3>4. ToPass(s + 1, n + 1, u)'
      BY <1>10, <3>1, <3>2, <3>3 DEF ToPass, Span
    <3>5. QED BY <1>11, <2>2, <3>3, <3>4
  <2>3. CASE v # s
    <3>1. ~(v = s + 1 /\ i = n + 1) /\ i \in 1 .. Len(wire'[v]) /\ wire'[v][i] = wire[v][i]
      BY <1>7, <1>9, <1>10, <2>0, <2>3
    <3>2. ToPass(v, i, u)'
      BY <2>0, <3>1 DEF ToPass, Span
    <3>3. QED BY <1>11, <2>3, <3>1, <3>2
  <2>4. QED BY <2>1, <2>2, <2>3
<1>14. ASSUME NEW v \in Switch, NEW i \in Nat, NEW u \in Switch, ToPass(v, i, u),
              ~(v = s /\ i = 1 /\ u = s)
       PROVE  /\ R[v][i][u] \in RouteIndex
              /\ hwRoute'[u][R[v][i][u]]
                    = RouteAt(u, wire[v][i].macaddr, wire[v][i].destports, wire[v][i].ts)
  <2>1. /\ R[v][i][u] \in RouteIndex
        /\ hwRoute[u][R[v][i][u]]
              = RouteAt(u, wire[v][i].macaddr, wire[v][i].destports, wire[v][i].ts)
    BY <1>1, <1>14 DEF OwnRoutes
  <2>2. ASSUME u = s, R[v][i][u] = own PROVE FALSE
    <3>1. wire[v][i] \in Frame
      BY <1>14, WireFrames DEF ToPass, RoutesInv
    <3>2. wire[v][i].macaddr = f.macaddr
      BY <1>4, <2>1, <2>2, <3>1, RouteAtFields
    <3>3. v < s \/ (v = s /\ 1 < i)
      <4>1. v \in Nat /\ v <= s /\ i \in 1 .. Len(wire[v]) /\ ~(v = s /\ i = 1)
        BY <1>14, <2>2, IndexSets DEF ToPass
      <4>2. Len(wire[v]) \in Nat
        BY WireFrames DEF RoutesInv
      <4>3. QED BY <1>4, <4>1, <4>2
    <3>4. own < R[v][i][s]
      BY <1>1, <1>3, <1>14, <2>2, <3>2, <3>3 DEF OwnRoutes, f, own
    <3>5. own \in Nat
      BY <1>4, IndexSets
    <3>6. QED BY <2>2, <3>4, <3>5
  <2>3. QED BY <1>5, <2>1, <2>2 DEF RoutesInv, TypeOK
<1>15. ASSUME NEW t \in Switch, NEW u \in Switch, NEW k \in Nat, ToPass(t, k, u)'
       PROVE  /\ Q[t][k][u] \in RouteIndex
              /\ hwRoute'[u][Q[t][k][u]]
                    = RouteAt(u, wire'[t][k].macaddr, wire'[t][k].destports, wire'[t][k].ts)
  BY <1>12, <1>14, <1>15
<1>16. ASSUME NEW t \in Switch, NEW w \in Switch, NEW u \in Switch, NEW k \in Nat, NEW j \in Nat,
              ToPass(t, k, u)', ToPass(w, j, u)', wire'[t][k].macaddr = wire'[w][j].macaddr,
              w < t \/ (w = t /\ k < j)
       PROVE  Q[t][k][u] < Q[w][j][u]
  <2>1. PICK v \in Switch, i \in Nat :
           /\ Came(t, k, v, i) /\ ToPass(v, i, u) /\ wire'[t][k] = wire[v][i] /\ Q[t][k] = R[v][i]
    BY <1>12, <1>16
  <2>2. PICK x \in Switch, y \in Nat :
           /\ Came(w, j, x, y) /\ ToPass(x, y, u) /\ wire'[w][j] = wire[x][y] /\ Q[w][j] = R[x][y]
    BY <1>12, <1>16
  <2>3. x < v \/ (x = v /\ i < y)
    <3>1. t \in Nat /\ w \in Nat
      BY IndexSets
    <3>2. k \in 1 .. Len(wire'[t]) /\ j \in 1 .. Len(wire'[w])
      BY <1>16 DEF ToPass
    <3>3. t = s + 1 /\ w = s + 1 => j <= n + 1
      <4>1. s + 1 \in Switch => Len(wire'[s + 1]) \in {n, n + 1}
        BY <1>4, <1>7, <1>9, <1>10
      <4>2. QED BY <3>2, <4>1
    <3>4. QED BY <1>4, <1>16, <2>1, <2>2, <3>1, <3>2, <3>3
  <2>4. R[v][i][u] < R[x][y][u]
    BY <1>1, <1>16, <2>1, <2>2, <2>3 DEF OwnRoutes
  <2>5. QED BY <2>1, <2>2, <2>4
<1>17. ASSUME NEW u \in Switch, NEW r \in RouteIndex, hwRoute'[u][r] # NoRoute
       PROVE  /\ hwRoute'[u][r] = hwRoute[u][r] /\ ~(u = s /\ r = own)
              /\ \E t \in Switch, k \in Nat : ToPass(t, k, u)' /\ Q[t][k][u] = r
  <2>1. hwRoute'[u][r] = hwRoute[u][r] /\ ~(u = s /\ r = own)
    BY <1>4, <1>5, <1>17 DEF RoutesInv, TypeOK
  <2>2. PICK v \in Switch, i \in Nat : ToPass(v, i, u) /\ R[v][i][u] = r
    BY <1>1, <1>17, <2>1 DEF OwnRoutes
  <2>3. ~(v = s /\ i = 1 /\ u = s)
    BY <2>1, <2>2 DEF own
  <2>4. PICK t \in Switch, k \in Nat : ToPass(t, k, u)' /\ Q[t][k] = R[v][i]
    BY <1>13, <2>2, <2>3
  <2>5. QED BY <2>1, <2>2, <2>4
<1>18. OwnRoutes(Q)'
  BY <1>15, <1>16, <1>17 DEF OwnRoutes
<1>19. ASSUME NEW t \in Switch, NEW k \in 1 .. Len(wire'[t])
       PROVE  t \in Span(wire'[t][k].destports)
  <2>0. \A v \in Switch : \A i \in 1 .. Len(wire[v]) : v \in Span(wire[v][i].destports)
    BY DEF RoutesInv
  <2>1. CASE t = s
    <3>1. k + 1 \in 1 .. Len(wire[s]) /\ wire'[s][k] = wire[s][k + 1]
      BY <1>8, <2>1
    <3>2. QED BY <2>0, <2>1, <3>1
  <2>2. CASE t = s + 1 /\ k = n + 1
    <3>1. s + 1 \in Switch /\ g /\ wire'[s + 1][n + 1] = f
      <4>1. ~g => k \in 1 .. n
        BY <1>4, <1>7, <1>9, <2>2
      <4>2. QED BY <1>10, <2>2, <4>1
    <3>2. s < s + 1 /\ f.destports \in SUBSET Port
      BY <1>4 DEF Frame
    <3>3. s + 1 \in Span(f.destports)
      BY <1>6, <3>1, <3>2, Spanned DEF goesOn
    <3>4. QED BY <2>2, <3>1, <3>3
  <2>3. CASE t # s /\ ~(t = s + 1 /\ k = n + 1)
    <3>1. k \in 1 .. Len(wire[t]) /\ wire'[t][k] = wire[t][k]
      BY <1>7, <1>9, <1>10, <2>3
    <3>2. QED BY <2>0, <3>1
  <2>4. QED BY <2>1, <2>2, <2>3
<1>20. (\E P : OwnRoutes(P))'
  BY <1>18
<1>21. \A u \in Switch, r \in RouteIndex :
          hwRoute'[u][r] # NoRoute => mgmtRouteMacaddr'[u][r] = hwRoute'[u][r].macaddr
  BY <1>5, <1>17 DEF RoutesInv
<1>22. QED BY <1>19, <1>20, <1>21 DEF RoutesInv, Span


\* A setup that read the routes in use and wrote its own everywhere or nowhere keeps the
\* invariant.
LEMMA SetupKeepsOwn ==
    ASSUME RoutesInv, TypeOK', LiveRoutesActive',
           NEW mac \in MacAddr, NEW dest \in (SUBSET Port) \ {{}}, NEW take \in BOOLEAN,
           NEW readFailed, NEW writeFailed,
           SetupMgmtRoute(mac, dest, take, readFailed, writeFailed), SyncSucceeds(readFailed),
           Span(dest) \cap writeFailed = {} \/ Span(dest) \subseteq writeFailed
    PROVE  RoutesInv'
<1> DEFINE active == Synced(readFailed)
<1>1. CASE SetupGranted(mac, dest, take, readFailed, writeFailed) /\ Span(dest) \cap writeFailed = {}
  BY <1>1, GrantKeepsOwn
<1>2. CASE SetupRefused(mac, dest, readFailed)
  BY <1>2, NoSetupKeepsOwn DEF SetupRefused, hwVars
<1>3. CASE /\ Allocatable(active, dest, mac) /\ RecordAddress(mac, dest, active)
           /\ UNCHANGED <<hwRoute, wire>>
  <2>1. ASSUME NEW s \in Switch, NEW r \in RouteIndex, hwRoute[s][r] # NoRoute
        PROVE  mgmtRouteMacaddr'[s][r] = mgmtRouteMacaddr[s][r]
    <3>1. r \in active[s]
      BY <2>1, SyncedWithoutFailure DEF RoutesInv, LiveRoutesActive
    <3>2. s \in Span(dest) => r # BestRoute(active, s, mac)
      BY <1>3, <3>1, AllocatedIndex
    <3>3. QED BY <1>3, <3>2 DEF RecordAddress, RoutesInv, TypeOK
  <2>2. QED BY <1>3, <2>1, NoSetupKeepsOwn
<1>4. CASE SetupGranted(mac, dest, take, readFailed, writeFailed) /\ Span(dest) \subseteq writeFailed
  <2>1. CASE Span(dest) \cap writeFailed = {}
    BY <1>1, <1>4, <2>1
  <2>2. CASE Span(dest) \cap writeFailed # {}
    <3>1. Span(dest) \ writeFailed = {} /\ hwRoute = [s \in Switch |-> hwRoute[s]]
      BY <1>4 DEF RoutesInv, TypeOK
    <3>2. UNCHANGED <<hwRoute, wire>>
      BY <1>4, <2>2, <3>1 DEF SetupGranted
    <3>3. QED BY <1>3, <1>4, <3>2 DEF SetupGranted
  <2>3. QED BY <2>1, <2>2
<1>5. CASE SetupWithoutTimeStamp(mac, dest, readFailed)
  BY <1>3, <1>5 DEF SetupWithoutTimeStamp, hwVars
<1>6. QED BY <1>1, <1>2, <1>4, <1>5 DEF SetupMgmtRoute

\* Every step keeps the invariant, where setups are atomic.
LEMMA NextKeepsOwn ==
    RoutesInv /\ [Next]_vars /\ [SetupsAtomic]_vars => RoutesInv'
<1> SUFFICES ASSUME RoutesInv, [Next]_vars, [SetupsAtomic]_vars PROVE RoutesInv'
  OBVIOUS
<1>1. TypeOK' /\ LiveRoutesActive'
  <2>1. [SyncsSucceed]_vars
    BY ConditionsWeaken
  <2>2. QED BY <2>1, NextTypeOK, NextKeepsRoutes DEF RoutesInv
<1>2. CASE Setup /\ SetupsAtomic
  BY <1>1, <1>2, SetupKeepsOwn DEF SetupsAtomic
<1>3. CASE Forward
  BY <1>1, <1>3, ForwardKeepsOwn DEF Forward
<1>4. CASE ForwardUnmatched
  BY <1>4, OwnRoutesSuffice DEF ForwardUnmatched, HwForwardUnmatched, FrameUsesOwnRoute
<1>5. CASE UNCHANGED <<hwRoute, wire, mgmtRouteMacaddr>>
  BY <1>1, <1>5, NoSetupKeepsOwn
<1>6. CASE Poll \/ Get
  BY <1>5, <1>6, ReadEffect DEF ReadsOnly, RoutesInv
<1>7. CASE UNCHANGED vars
  BY <1>5, <1>7 DEF vars, softVars, hwVars
<1>8. QED
  BY <1>2, <1>3, <1>4, <1>5, <1>6, <1>7
     DEF Next, Register, RegisterEgressTimeStampHandler, softVars, hwVars

\* No route is armed at first.
LEMMA InitiallyOwn == Init => RoutesInv
<1> SUFFICES ASSUME Init PROVE RoutesInv
  OBVIOUS
<1>1. \A t \in Switch : wire[t] = <<>>
  BY DEF Init
<1>2. \A t \in Switch : Len(wire[t]) = 0
  BY <1>1
<1>3. \A t, s, k : t \in Switch => ~ToPass(t, k, s)
  BY <1>2 DEF ToPass
<1>4. \A s \in Switch, r \in RouteIndex : hwRoute[s][r] = NoRoute
  BY DEF Init
<1>5. OwnRoutes(0)
  BY <1>3, <1>4 DEF OwnRoutes
<1>6. \A t \in Switch : \A k \in 1 .. Len(wire[t]) : t \in Span(wire[t][k].destports)
  BY <1>2
<1>7. LiveRoutesActive
  BY <1>4 DEF LiveRoutesActive
<1>8. QED BY <1>4, <1>5, <1>6, <1>7, InitTypeOK DEF RoutesInv

\* As long as setups read the routes in use and write those of a frame everywhere or
\* nowhere, the hardware matches every frame with the very entry that was set up for it,
\* at every switch of the cascade, whatever else is pending.
THEOREM FramesMeetTheirRoutes == Spec /\ [][SetupsAtomic]_vars => []FrameUsesOwnRoute
<1>1. RoutesInv /\ [Next]_vars /\ [SetupsAtomic]_vars => RoutesInv'
  BY NextKeepsOwn
<1>2. QED BY <1>1, InitiallyOwn, OwnRoutesSuffice, PTL DEF Spec

-----------------------------------------------------------------------------
(* The service to the sender *)

\* What the sender can tell of a slot.
SlotState(p, i) ==
    IF i \in hwUpdated[p] THEN "captured"
    ELSE IF p \in g_egressTimeStampsAllocated[i] THEN "reserved" ELSE "free"

\* A setup that is granted is a Send of the service.
LEMMA GrantSends ==
    ASSUME TypeOK, TimeStampSlotsExclusive, TypeOK',
           NEW mac \in MacAddr, NEW dest \in (SUBSET Port) \ {{}}, NEW take \in BOOLEAN,
           NEW readFailed, NEW writeFailed, Span(dest) \cap writeFailed = {},
           SetupGranted(mac, dest, take, readFailed, writeFailed), delivered' = {}
    PROVE  \E f \in Egress!Frame : Egress!Send(f)
<1> DEFINE ts == IF take THEN BestTimeStamp(dest) ELSE NoTimeStamp
           f == [macaddr |-> mac, destports |-> dest, ts |-> ts]
<1>1. take => ts \in TimeStampIndex /\ g_egressTimeStampsAllocated[ts] \cap dest = {}
  BY BestTimeStampIsUsable DEF SetupGranted, UsableTimeStamps
<1>2. ~take => ts \notin TimeStampIndex
  BY IndexSets
<1>3. ts \in 0 .. NTimeStamps
  BY <1>1, ShapeAssumption DEF NoTimeStamp, TimeStampIndex
<1>4. f \in Egress!Frame
  BY <1>3 DEF Egress!Frame
<1>5. /\ hwUpdated' = hwUpdated
      /\ \A p \in Port, i \in TimeStampIndex :
            p \in g_egressTimeStampsAllocated'[i] <=>
               p \in g_egressTimeStampsAllocated[i] \/ (i = ts /\ p \in dest)
  <2>1. CASE take
    BY <1>1, <2>1 DEF SetupGranted, AllocateTimeStamp, TypeOK
  <2>2. CASE ~take
    BY <1>2, <2>2 DEF SetupGranted
  <2>3. QED BY <2>1, <2>2 DEF SetupGranted
<1>6. wire' = [wire EXCEPT ![0] = Append(@, f)]
  BY DEF SetupGranted
<1>7. ts \in TimeStampIndex => \A p \in dest : SlotState(p, ts) = "free"
  BY <1>1, <1>2 DEF SlotState, TimeStampSlotsExclusive
<1>8. \A p \in Port, i \in TimeStampIndex :
         SlotState(p, i)' = IF p \in dest /\ i = ts THEN "reserved" ELSE SlotState(p, i)
  <2> SUFFICES ASSUME NEW p \in Port, NEW i \in TimeStampIndex
               PROVE  SlotState(p, i)' = IF p \in dest /\ i = ts THEN "reserved" ELSE SlotState(p, i)
    OBVIOUS
  <2>1. CASE p \in dest /\ i = ts
    <3>1. take /\ p \notin g_egressTimeStampsAllocated[i]
      BY <1>1, <1>2, <2>1
    <3>2. i \notin hwUpdated[p]
      BY <3>1 DEF TimeStampSlotsExclusive
    <3>3. QED BY <1>5, <2>1, <3>2 DEF SlotState
  <2>2. CASE ~(p \in dest /\ i = ts)
    BY <1>5, <2>2 DEF SlotState
  <2>3. QED BY <2>1, <2>2
<1>9. f.destports = dest /\ f.ts = ts
  OBVIOUS
<1> HIDE DEF ts, f
<1>10. Egress!Move(f, f.destports, "free", "reserved")
  BY <1>7, <1>8, <1>9 DEF Egress!Move, Egress!TimeStampIndex, TimeStampIndex, SlotState
<1>11. QED BY <1>4, <1>6, <1>10 DEF Egress!Send


\* A frame that leaves a switch by its own route is an Egress of the service.
LEMMA ForwardIsEgress ==
    ASSUME RoutesInv, TimeStampSlotsExclusive, NEW s \in Switch, HwForward(s)
    PROVE  Egress!Egress(s)
<1> DEFINE f == Head(wire[s])
           used == Min(Matching(s, f.macaddr))
           route == hwRoute[s][used]
           ports == {p \in f.destports : SwitchOf[p] = s}
<1>1. wire[s] # <<>> /\ f \in Frame /\ f.destports \in SUBSET Port
  BY WireFrames DEF HwForward, RoutesInv, Frame
<1>2. used \in RouteIndex /\ route # NoRoute
  <2>1. Matching(s, f.macaddr) \in SUBSET Nat /\ Matching(s, f.macaddr) # {}
    BY IndexSets DEF HwForward, Matching
  <2>2. used \in Matching(s, f.macaddr)
    BY <2>1, MinIsLeast
  <2>3. QED BY <2>2 DEF Matching
<1>3. route = RouteAt(s, f.macaddr, f.destports, f.ts)
  BY <1>1, OwnRoutesSuffice DEF FrameUsesOwnRoute, MatchedRoute
<1>4. route.destports = ports /\ route.ts = f.ts /\ route.cascade = Extends(s, f.destports)
  BY <1>1, <1>3, RouteAtFields
<1>5. wire' = [t \in Switch |->
                 CASE t = s -> Tail(wire[s])
                   [] t = s + 1 /\ route.cascade -> Append(wire[t], Head(wire[s]))
                   [] OTHER -> wire[t]]
  BY Zenon DEF HwForward, MatchedRoute
<1>6. wire' = [t \in Switch |->
                 CASE t = s -> Tail(wire[s])
                   [] t = s + 1 /\ (\E p \in Head(wire[s]).destports : s < SwitchOf[p])
                          -> Append(wire[t], Head(wire[s]))
                   [] OTHER -> wire[t]]
  BY <1>4, <1>5 DEF Extends
<1>7. /\ hwUpdated' = [p \in Port |->
             IF p \in route.destports /\ route.ts \in TimeStampIndex
             THEN hwUpdated[p] \cup {route.ts} ELSE hwUpdated[p]]
      /\ UNCHANGED g_egressTimeStampsAllocated
  BY DEF HwForward, MatchedRoute, softVars
<1> HIDE DEF f, used, route
<1>8. \A p \in Port, i \in TimeStampIndex :
         i \in hwUpdated'[p] <=> i \in hwUpdated[p] \/ (p \in ports /\ i = f.ts)
  BY <1>1, <1>4, <1>7 DEF RoutesInv, TypeOK
<1>9. ASSUME NEW p \in ports, f.ts \in TimeStampIndex PROVE SlotState(p, f.ts) = "reserved"
  <2>1. p \in Port /\ Claims(s, used, p, f.ts)
    BY <1>1, <1>2, <1>4, <1>9 DEF Claims, route
  <2>2. QED BY <1>2, <1>9, <2>1 DEF TimeStampSlotsExclusive, SlotState
<1>10. \A p \in Port, i \in TimeStampIndex :
         SlotState(p, i)' = IF p \in ports /\ i = f.ts THEN "captured" ELSE SlotState(p, i)
  BY <1>7, <1>8 DEF SlotState
<1>11. Egress!Move(f, ports, "reserved", "captured")
  <2>1. ports \subseteq Port
    BY <1>1
  <2> HIDE DEF ports
  <2>2. QED BY <1>9, <1>10, <2>1 DEF Egress!Move, Egress!TimeStampIndex, TimeStampIndex, SlotState
<1>12. delivered' = {}
  BY DEF HwForward
<1>13. QED BY <1>1, <1>6, <1>11, <1>12, Zenon DEF Egress!Egress, f, Egress!Switch, Switch

\* Reading timestamps is a Collect of the service.
LEMMA ReadCollects ==
    ASSUME TypeOK, TimeStampSlotsExclusive, Poll \/ Get, ReadsSucceed
    PROVE  Egress!Collect
<1>1. PICK freed, cleared : ReadsOnly(freed, cleared)
  BY ReadEffect
<1>2. \A p \in Port, i \in TimeStampIndex :
         <<p, i>> \in freed => SlotState(p, i) = "captured" /\ <<p, i>> \in delivered'
  BY <1>1 DEF ReadsOnly, ReadsSucceed, TimeStampSlotsExclusive, SlotState
<1>3. freed = delivered' /\ freed = cleared /\ freed \in SUBSET (Port \X TimeStampIndex)
  <2>1. /\ freed \subseteq Port \X TimeStampIndex /\ cleared \subseteq freed
        /\ delivered' \subseteq cleared
    BY <1>1 DEF ReadsOnly
  <2>2. freed \subseteq delivered'
    BY <1>2, <2>1
  <2>. QED
    BY <2>1, <2>2
<1>4. \A p \in Port, i \in TimeStampIndex :
         SlotState(p, i)' = IF <<p, i>> \in delivered' THEN "free" ELSE SlotState(p, i)
  BY <1>1, <1>2, <1>3 DEF ReadsOnly, SlotState, TimeStampSlotsExclusive
<1>5. \A r \in delivered' : r[1] \in Port /\ r[2] \in TimeStampIndex /\ SlotState(r[1], r[2]) = "captured"
  BY <1>2, <1>3
<1>6. wire' = wire
  BY <1>1 DEF ReadsOnly
<1>7. QED
  BY <1>3, <1>4, <1>5, <1>6 DEF Egress!Collect, Egress!TimeStampIndex, TimeStampIndex, SlotState

\* A step in which no frame moves and no slot changes collects nothing.
LEMMA NothingCollected ==
    ASSUME UNCHANGED <<wire, hwUpdated, g_egressTimeStampsAllocated>>, delivered' = {}
    PROVE  Egress!Collect
<1>1. \A p \in Port, i \in TimeStampIndex : SlotState(p, i)' = SlotState(p, i)
  BY DEF SlotState
<1>2. \A r \in {} : SlotState(r[1], r[2]) = "captured"
  BY Zenon
<1>3. QED
  BY <1>1, <1>2 DEF Egress!Collect, Egress!TimeStampIndex, TimeStampIndex, SlotState

\* Every step of the routes, the bookkeeping and the switches is one of the service:
\* frames leave in order where they were sent to, and the slots of their timestamps go
\* from free to reserved to captured, and to free when the timestamp is handed out.
\* Setups have to succeed for this, and so does every read that gives a slot back.
THEOREM RoutesServeSenders ==
    Spec /\ [][SetupsSucceed]_vars /\ [][ReadsSucceed]_vars
        => Egress!Init /\ [][Egress!Next]_(Egress!vars)
<1>1. Init => Egress!Init
  BY DEF Init, Egress!Init, Egress!Switch, Switch, Egress!TimeStampIndex, TimeStampIndex
<1>2. RoutesInv /\ TimeStampSlotsExclusive /\ [Next]_vars
          /\ [SetupsSucceed]_vars /\ [ReadsSucceed]_vars
          => [Egress!Next]_(Egress!vars)
  <2> SUFFICES ASSUME RoutesInv, TimeStampSlotsExclusive, [Next]_vars, [SetupsSucceed]_vars,
                      [ReadsSucceed]_vars
               PROVE  [Egress!Next]_(Egress!vars)
    OBVIOUS
  <2>0. TypeOK /\ TypeOK'
    BY NextTypeOK DEF RoutesInv
  <2>1. ASSUME UNCHANGED <<wire, hwUpdated, g_egressTimeStampsAllocated>>, delivered' = {}
        PROVE  Egress!Next
    BY <2>1, NothingCollected DEF Egress!Next
  <2>2. CASE Setup /\ SetupsSucceed
    <3>1. PICK mac \in MacAddr, dest \in (SUBSET Port) \ {{}}, take \in BOOLEAN,
               readFailed \in SpiFailure, writeFailed \in SpiFailure :
                 /\ SetupMgmtRoute(mac, dest, take, readFailed, writeFailed)
                 /\ Span(dest) \cap writeFailed = {}
      BY <2>2 DEF SetupsSucceed
    <3>2. CASE SetupGranted(mac, dest, take, readFailed, writeFailed)
      <4>1. delivered' = {}
        BY <3>1 DEF SetupMgmtRoute
      <4>. QED
        BY <2>0, <3>1, <3>2, <4>1, GrantSends DEF Egress!Next
    <3>3. CASE ~SetupGranted(mac, dest, take, readFailed, writeFailed)
      BY <2>1, <3>1, <3>3 DEF SetupMgmtRoute, SetupRefused, SetupWithoutTimeStamp, hwVars
    <3>4. QED BY <3>2, <3>3
  <2>3. CASE Forward
    <3>1. PICK s \in Switch : HwForward(s)
      BY <2>3 DEF Forward
    <3>2. Egress!Egress(s) /\ s \in Egress!Switch
      BY <3>1, ForwardIsEgress DEF Egress!Switch, Switch
    <3>3. QED BY <3>2 DEF Egress!Next
  <2>4. CASE ForwardUnmatched
    BY <2>4, OwnRoutesSuffice DEF ForwardUnmatched, HwForwardUnmatched, FrameUsesOwnRoute
  <2>5. CASE (Poll \/ Get) /\ ReadsSucceed
    BY <2>0, <2>5, ReadCollects DEF Egress!Next
  <2>6. CASE Register
    BY <2>1, <2>6 DEF Register, RegisterEgressTimeStampHandler, softVars, hwVars
  <2>7. CASE UNCHANGED vars
    BY <2>7 DEF vars, softVars, hwVars, Egress!vars
  <2>8. QED BY <2>2, <2>3, <2>4, <2>5, <2>6, <2>7 DEF Next
<1>3. RoutesInv /\ [Next]_vars /\ [SetupsSucceed]_vars => RoutesInv'
  BY NextKeepsOwn, ConditionsWeaken
<1>4. QED
  BY <1>1, <1>2, <1>3, InitiallyOwn, ReadConditions, SlotsAreExclusive, PTL DEF Spec
=============================================================================
