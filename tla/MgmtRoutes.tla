----------------------------- MODULE MgmtRoutes -----------------------------
(***************************************************************************)
(* Management routes and egress timestamps of the SJA1105P driver          *)
(* (platform_independent/src/NXP_SJA1105P_mgmtRoutes.c).                   *)
(*                                                                         *)
(* A frame the host wants to send at chosen ports gets a management route  *)
(* in every switch on its way: an entry of the L2 table keyed by the       *)
(* destination MAC address, used up by the first frame that matches it.    *)
(* The driver keeps a software copy of which routes are in use and which   *)
(* (port, timestamp index) slots are reserved; the switch hardware uses up *)
(* the routes and captures the timestamps at its own pace.                 *)
(***************************************************************************)
EXTENDS Integers, Sequences, FiniteSets, FiniteSetsExt

CONSTANTS
    NSwitches,      \* SJA1105P_N_SWITCHES
    NRoutes,        \* SJA1105P_N_MGMT_ROUTES
    NTimeStamps,    \* SJA1105P_N_EGR_TIMESTAMPS
    Port,           \* logical ports
    PolledPort,     \* the logical ports below SJA1105P_N_PORTS
    SwitchOf,       \* the switch each logical port is on (the port mapping)
    MacAddr,        \* destination addresses
    NoMac,          \* the zeroes of the static table
    NoRoute,        \* enfport 0: the hardware entry is not armed
    MaxInFlight,    \* frames the host can have on the wire to one switch
    SpiMayFail,     \* whether SPI transfers of routes may return an error
    ReadFailure     \* the ways in which reading a timestamp may fail

Switch == 0 .. NSwitches - 1
RouteIndex == 0 .. NRoutes - 1
TimeStampIndex == 0 .. NTimeStamps - 1

\* g_nEgressTimeStampsAllocated is a uint8_t.
CountMod == 256

ASSUME ShapeAssumption ==
    /\ NSwitches \in Nat \ {0}
    /\ NRoutes \in Nat \ {0}
    /\ NTimeStamps \in Nat
    /\ MaxInFlight \in Nat
ASSUME PortAssumption ==
    /\ IsFiniteSet(Port)
    /\ Cardinality(Port) < CountMod
    /\ PolledPort \subseteq Port
    /\ SwitchOf \in [Port -> Switch]
ASSUME MacAssumption == NoMac \notin MacAddr
ASSUME SpiAssumption ==
    /\ SpiMayFail \in BOOLEAN
    /\ ReadFailure \subseteq {"unseen", "lost", "kept"}

VARIABLES
    gpf_egressTimeStampHandler,   \* is a handler registered?
    g_egressTimeStampsAllocated,  \* per index: the ports reserved
    g_nEgressTimeStampsAllocated, \* per index: the uint8_t count kept beside it
    g_mgmtRouteActive,            \* per switch: the route indices in use
    mgmtRouteMacaddr,             \* per switch and index: address last set up
    hwRoute,                      \* per switch and index: the armed route
    hwUpdated,                    \* per port: indices with an unread timestamp
    wire,                         \* per switch: frames arriving from the host
    delivered                     \* the timestamps handed out in the last step

softVars == <<g_egressTimeStampsAllocated, g_nEgressTimeStampsAllocated,
              g_mgmtRouteActive, mgmtRouteMacaddr>>
hwVars == <<hwRoute, hwUpdated, wire>>
vars == <<gpf_egressTimeStampHandler, softVars, hwVars, delivered>>

-----------------------------------------------------------------------------
NoTimeStamp == NTimeStamps     \* the invalid index of allocateTimeStamp

Frame == [macaddr : MacAddr, destports : (SUBSET Port) \ {{}},
          ts : 0 .. NTimeStamps]
Route == [macaddr : MacAddr, destports : SUBSET Port, cascade : BOOLEAN,
          ts : 0 .. NTimeStamps]

ASSUME RouteAssumption == NoRoute \notin Route

TypeOK ==
    /\ gpf_egressTimeStampHandler \in BOOLEAN
    /\ g_egressTimeStampsAllocated \in [TimeStampIndex -> SUBSET Port]
    /\ g_nEgressTimeStampsAllocated \in [TimeStampIndex -> 0 .. CountMod - 1]
    /\ g_mgmtRouteActive \in [Switch -> SUBSET RouteIndex]
    /\ mgmtRouteMacaddr \in [Switch -> [RouteIndex -> MacAddr \cup {NoMac}]]
    /\ hwRoute \in [Switch -> [RouteIndex -> Route \cup {NoRoute}]]
    /\ hwUpdated \in [Port -> SUBSET TimeStampIndex]
    /\ wire \in [Switch -> Seq(Frame)]
    /\ delivered \subseteq Port \X TimeStampIndex

Init ==
    /\ gpf_egressTimeStampHandler = FALSE
    /\ g_egressTimeStampsAllocated = [i \in TimeStampIndex |-> {}]
    /\ g_nEgressTimeStampsAllocated = [i \in TimeStampIndex |-> 0]
    /\ g_mgmtRouteActive = [s \in Switch |-> {}]
    /\ mgmtRouteMacaddr = [s \in Switch |-> [r \in RouteIndex |-> NoMac]]
    /\ hwRoute = [s \in Switch |-> [r \in RouteIndex |-> NoRoute]]
    /\ hwUpdated = [p \in Port |-> {}]
    /\ wire = [s \in Switch |-> <<>>]
    /\ delivered = {}

\* The sets of switches whose transfers of routes fail during one call.
SpiFailure == IF SpiMayFail THEN SUBSET Switch ELSE {{}}

\* What reading a captured timestamp can come to.
ReadOutcome == {"delivered"} \cup ReadFailure

-----------------------------------------------------------------------------
(* Routes *)

\* The cascade from the master up to the last switch with a port in dest.
Span(dest) == {s \in Switch : s = 0 \/ \E p \in dest : s <= SwitchOf[p]}

\* A switch that is not the last one must pass the frame on to the next.
Extends(s, dest) == \E p \in dest : s < SwitchOf[p]

\* Mutated form: entry.index is set once, before the loop.
ProbedIndexNeverSet(s, r, failed) == 0

\* The index syncMgmtRoutes reads at switch s. All switches share one entry
\* struct, and a failed read at an earlier switch leaves index 0 in it.
ProbedIndex(s, r, failed) ==
    IF \E t \in failed : t < s /\ r \in g_mgmtRouteActive[t] THEN 0 ELSE r

\* The routes still in use after syncMgmtRoutes: those the hardware has not
\* used up. A failed read returns zeroes, which look like a used-up route.
Synced(failed) ==
    [s \in Switch |-> {r \in g_mgmtRouteActive[s] :
        s \notin failed /\ hwRoute[s][ProbedIndex(s, r, failed)] # NoRoute}]

SyncSucceeds(failed) == \A s \in failed : g_mgmtRouteActive[s] = {}

\* Mutated forms: the search starts one index too high; it goes on past a route
\* in use for the same address.
CandidatesOffByOne(active, s, mac) ==
    {r \in 0 .. NRoutes : r \notin active[s] /\
        \A q \in active[s] : mgmtRouteMacaddr[s][q] = mac => q < r}
CandidatesAnyOrder(active, s, mac) == RouteIndex \ active[s]

\* The indices allocateMgmtRoute may take in switch s: free, and above every
\* route in use for the same address, because the hardware matches the lowest
\* index first and frames to one address have to leave in order.
Candidates(active, s, mac) ==
    {r \in RouteIndex \ active[s] :
        \A q \in active[s] : mgmtRouteMacaddr[s][q] = mac => q < r}

Allocatable(active, dest, mac) ==
    \A s \in Span(dest) : Candidates(active, s, mac) # {}

BestRoute(active, s, mac) == Min(Candidates(active, s, mac))

-----------------------------------------------------------------------------
(* Timestamp slots *)

\* Mutated form: one free port is taken for enough.
UsableTimeStampsAtSome(dest) ==
    {i \in TimeStampIndex : ~(dest \subseteq g_egressTimeStampsAllocated[i])}

UsableTimeStamps(dest) ==
    {i \in TimeStampIndex : g_egressTimeStampsAllocated[i] \cap dest = {}}

\* The fullest usable index, the lowest one among equals.
BestTimeStamp(dest) ==
    CHOOSE i \in UsableTimeStamps(dest) :
        \A j \in UsableTimeStamps(dest) :
            \/ g_nEgressTimeStampsAllocated[j] < g_nEgressTimeStampsAllocated[i]
            \/ /\ g_nEgressTimeStampsAllocated[j] = g_nEgressTimeStampsAllocated[i]
               /\ i <= j

\* Mutated form: the count goes up by one for each frame, not for each port.
AllocateTimeStampCountedOnce(i, dest) ==
    /\ g_egressTimeStampsAllocated' =
           [g_egressTimeStampsAllocated EXCEPT ![i] = @ \cup dest]
    /\ g_nEgressTimeStampsAllocated' =
           [g_nEgressTimeStampsAllocated EXCEPT ![i] = (@ + 1) % CountMod]

\* allocateTimeStamp: only the ports below SJA1105P_N_PORTS are counted.
AllocateTimeStamp(i, dest) ==
    /\ g_egressTimeStampsAllocated' =
           [g_egressTimeStampsAllocated EXCEPT ![i] = @ \cup dest]
    /\ g_nEgressTimeStampsAllocated' =
           [g_nEgressTimeStampsAllocated EXCEPT
               ![i] = (@ + Cardinality(dest \cap PolledPort)) % CountMod]

\* Mutated form: the bits are cleared and the count is forgotten.
DeallocateTimeStampsUncounted(ports) ==
    /\ g_egressTimeStampsAllocated' =
           [i \in TimeStampIndex |-> g_egressTimeStampsAllocated[i] \ ports[i]]
    /\ UNCHANGED g_nEgressTimeStampsAllocated

\* deallocateTimeStamp, once for each port of ports[i] at every index i.
DeallocateTimeStamps(ports) ==
    /\ g_egressTimeStampsAllocated' =
           [i \in TimeStampIndex |-> g_egressTimeStampsAllocated[i] \ ports[i]]
    /\ g_nEgressTimeStampsAllocated' =
           [i \in TimeStampIndex |->
               (g_nEgressTimeStampsAllocated[i] - Cardinality(ports[i])) % CountMod]

-----------------------------------------------------------------------------
(* Sending a frame: sendSwitchFrame and the setupMgmtRoute it calls *)

\* No route at some switch of the span, or the synchronisation failed: only
\* its effect remains.
SetupRefused(mac, dest, readFailed) ==
    /\ \/ ~SyncSucceeds(readFailed)
       \/ ~Allocatable(Synced(readFailed), dest, mac)
    /\ g_mgmtRouteActive' = Synced(readFailed)
    /\ UNCHANGED <<g_egressTimeStampsAllocated, g_nEgressTimeStampsAllocated,
                   mgmtRouteMacaddr>>
    /\ UNCHANGED hwVars

\* What allocateMgmtRoute records: the address at the index it took.
RecordAddress(mac, dest, active) ==
    mgmtRouteMacaddr' =
        [s \in Switch |->
            IF s \in Span(dest)
            THEN [mgmtRouteMacaddr[s] EXCEPT ![BestRoute(active, s, mac)] = mac]
            ELSE mgmtRouteMacaddr[s]]

\* Routes are there but no timestamp index is free at all of dest: the routes
\* are given back.
SetupWithoutTimeStamp(mac, dest, readFailed) ==
    LET active == Synced(readFailed) IN
    /\ SyncSucceeds(readFailed) /\ Allocatable(active, dest, mac)
    /\ UsableTimeStamps(dest) = {}
    /\ g_mgmtRouteActive' = active
    /\ RecordAddress(mac, dest, active)
    /\ UNCHANGED <<g_egressTimeStampsAllocated, g_nEgressTimeStampsAllocated>>
    /\ UNCHANGED hwVars

\* Mutated form: the cascade port is not added.
RouteAtWithoutCascade(s, mac, dest, ts) ==
    [macaddr |-> mac, destports |-> {p \in dest : SwitchOf[p] = s},
     cascade |-> FALSE, ts |-> ts]

\* The route written into switch s; a port of another switch is reached
\* through the cascade port.
RouteAt(s, mac, dest, ts) ==
    [macaddr |-> mac, destports |-> {p \in dest : SwitchOf[p] = s},
     cascade |-> Extends(s, dest), ts |-> ts]

\* Everything is available: the routes are written, except at the switches
\* where that fails, and the frame is sent if none failed. The routes and the
\* timestamp stay allocated either way.
SetupGranted(mac, dest, take, readFailed, writeFailed) ==
    LET active == Synced(readFailed)
        ts == IF take THEN BestTimeStamp(dest) ELSE NoTimeStamp
    IN
    /\ SyncSucceeds(readFailed) /\ Allocatable(active, dest, mac)
    /\ take => UsableTimeStamps(dest) # {}
    /\ g_mgmtRouteActive' =
           [s \in Switch |-> IF s \in Span(dest)
                             THEN active[s] \cup {BestRoute(active, s, mac)}
                             ELSE active[s]]
    /\ RecordAddress(mac, dest, active)
    /\ IF take THEN AllocateTimeStamp(ts, dest)
       ELSE UNCHANGED <<g_egressTimeStampsAllocated, g_nEgressTimeStampsAllocated>>
    /\ hwRoute' =
           [s \in Switch |->
               IF s \in Span(dest) \ writeFailed
               THEN [hwRoute[s] EXCEPT
                        ![BestRoute(active, s, mac)] = RouteAt(s, mac, dest, ts)]
               ELSE hwRoute[s]]
    /\ wire' = IF Span(dest) \cap writeFailed = {}
               THEN [wire EXCEPT ![0] = Append(@,
                       [macaddr |-> mac, destports |-> dest, ts |-> ts])]
               ELSE wire
    /\ UNCHANGED hwUpdated

SetupMgmtRoute(mac, dest, take, readFailed, writeFailed) ==
    /\ \A s \in Switch : Len(wire[s]) < MaxInFlight
    /\ \/ SetupRefused(mac, dest, readFailed)
       \/ take /\ SetupWithoutTimeStamp(mac, dest, readFailed)
       \/ SetupGranted(mac, dest, take, readFailed, writeFailed)
    /\ delivered' = {}
    /\ UNCHANGED gpf_egressTimeStampHandler

-----------------------------------------------------------------------------
(* Reading timestamps *)

\* Mutated form: the slot is given back whether or not a timestamp is there.
ReadTimeStampsUnconditionally(ports, outcomes) ==
    LET read == [i \in TimeStampIndex |-> ports[i] \cap g_egressTimeStampsAllocated[i]] IN
    /\ DeallocateTimeStamps(read)
    /\ hwUpdated' = [p \in Port |->
                        {i \in hwUpdated[p] : p \notin read[i]}]
    /\ delivered' = {}
    /\ UNCHANGED <<gpf_egressTimeStampHandler, g_mgmtRouteActive,
                   mgmtRouteMacaddr, hwRoute, wire>>

\* The timestamps a reader of ports[i] at every index i finds captured.
Captured(ports) ==
    {slot \in Port \X TimeStampIndex :
        slot[1] \in ports[slot[2]] /\ slot[2] \in hwUpdated[slot[1]]}

\* getEgressTimeStamp at ports[i] for every index i. Where the status cannot be
\* read, a timestamp stays unseen and nothing changes. Where the status says
\* that one has been captured, the slot is given back whatever comes next: the
\* timestamp is delivered and the read clears the flag, or it is lost because
\* the clock or the speed of the host port cannot be read, or the read of the
\* timestamp itself fails and the flag is kept. Reservations are not consulted.
ReadTimeStamps(ports, outcomes) ==
    /\ Captured(ports) # {}
    /\ \E outcome \in [Captured(ports) -> outcomes] :
        LET Ends(how) == {slot \in Captured(ports) : outcome[slot] \in how} IN
        /\ DeallocateTimeStamps([i \in TimeStampIndex |->
               {p \in ports[i] : <<p, i>> \in Ends({"delivered", "lost", "kept"})}])
        /\ hwUpdated' = [p \in Port |->
               {i \in hwUpdated[p] : <<p, i>> \notin Ends({"delivered", "lost"})}]
        /\ delivered' = Ends({"delivered"})
    /\ UNCHANGED <<gpf_egressTimeStampHandler, g_mgmtRouteActive,
                   mgmtRouteMacaddr, hwRoute, wire>>

\* A direct call for one port and index.
GetEgressTimeStamp(port, index) ==
    ReadTimeStamps([i \in TimeStampIndex |-> IF i = index THEN {port} ELSE {}],
                   ReadOutcome)

\* Mutated form: the last reservation is overlooked.
PolledAtMoreThanOne(i) ==
    IF g_nEgressTimeStampsAllocated[i] > 1
    THEN g_egressTimeStampsAllocated[i] \cap PolledPort
    ELSE {}

\* The ports pollAndDispatchEgressTimeStampsTick looks at.
PolledAt(i) ==
    IF g_nEgressTimeStampsAllocated[i] > 0
    THEN g_egressTimeStampsAllocated[i] \cap PolledPort
    ELSE {}

\* The cyclic tick, where reads end in one of the outcomes: only a timestamp that
\* was read is dispatched to the handler.
PollAndDispatchEgressTimeStampsTick(outcomes) ==
    /\ gpf_egressTimeStampHandler
    /\ ReadTimeStamps([i \in TimeStampIndex |-> PolledAt(i)], outcomes)

RegisterEgressTimeStampHandler(h) ==
    /\ gpf_egressTimeStampHandler' = h
    /\ delivered' = {}
    /\ UNCHANGED <<softVars, hwVars>>

\* Software forgets every route and gives back every slot of the first
\* SJA1105P_N_PORTS ports, reserved or not; the hardware is not touched.
FlushAllMgmtRoutes ==
    /\ g_mgmtRouteActive' = [s \in Switch |-> {}]
    /\ DeallocateTimeStamps([i \in TimeStampIndex |-> PolledPort])
    /\ delivered' = {}
    /\ UNCHANGED <<gpf_egressTimeStampHandler, mgmtRouteMacaddr>>
    /\ UNCHANGED hwVars

-----------------------------------------------------------------------------
(* The switch hardware, as the driver relies on it *)

Matching(s, mac) ==
    {r \in RouteIndex : hwRoute[s][r] # NoRoute /\ hwRoute[s][r].macaddr = mac}

MatchedRoute(s, mac) == hwRoute[s][Min(Matching(s, mac))]

\* The next frame at switch s leaves by the matching route with the lowest
\* index, which is used up; the timestamp it asks for is captured.
HwForward(s) ==
    LET frame == Head(wire[s])
        route == MatchedRoute(s, frame.macaddr)
    IN
    /\ wire[s] # <<>>
    /\ Matching(s, frame.macaddr) # {}
    /\ hwRoute' = [hwRoute EXCEPT ![s][Min(Matching(s, frame.macaddr))] = NoRoute]
    /\ hwUpdated' = [p \in Port |->
                        IF p \in route.destports /\ route.ts \in TimeStampIndex
                        THEN hwUpdated[p] \cup {route.ts} ELSE hwUpdated[p]]
    /\ wire' = [t \in Switch |->
                   CASE t = s -> Tail(wire[s])
                     [] t = s + 1 /\ route.cascade -> Append(wire[t], frame)
                     [] OTHER -> wire[t]]
    /\ delivered' = {}
    /\ UNCHANGED <<gpf_egressTimeStampHandler, softVars>>

\* A frame that matches no route is forwarded like any other frame.
HwForwardUnmatched(s) ==
    /\ wire[s] # <<>>
    /\ Matching(s, Head(wire[s]).macaddr) = {}
    /\ wire' = [wire EXCEPT ![s] = Tail(@)]
    /\ delivered' = {}
    /\ UNCHANGED <<gpf_egressTimeStampHandler, softVars, hwRoute, hwUpdated>>

-----------------------------------------------------------------------------
\* A frame to an address that no filter traps is sent without a route and takes
\* none: as long as no route is set up for such an address, none of this changes.
Setup ==
    \E mac \in MacAddr, dest \in (SUBSET Port) \ {{}}, take \in BOOLEAN,
       readFailed \in SpiFailure, writeFailed \in SpiFailure :
        SetupMgmtRoute(mac, dest, take, readFailed, writeFailed)
Poll == PollAndDispatchEgressTimeStampsTick(ReadOutcome)
Get == \E p \in Port, i \in TimeStampIndex : GetEgressTimeStamp(p, i)
Register == \E h \in BOOLEAN : RegisterEgressTimeStampHandler(h)
Forward == \E s \in Switch : HwForward(s)
ForwardUnmatched == \E s \in Switch : HwForwardUnmatched(s)

Next == Setup \/ Poll \/ Get \/ Register \/ Forward \/ ForwardUnmatched

Spec == Init /\ [][Next]_vars

\* The application that never flushes (Spec), and the one that may.
FlushSpec == Init /\ [][Next \/ FlushAllMgmtRoutes]_vars

\* The switches forward what they have, and the tick is called cyclically (the
\* comment of pollAndDispatchEgressTimeStampsTick demands it) without failing
\* for ever.
Fairness ==
    /\ \A s \in Switch : WF_vars(HwForward(s)) /\ WF_vars(HwForwardUnmatched(s))
    /\ WF_vars(PollAndDispatchEgressTimeStampsTick({"delivered"}))

FairSpec == Spec /\ Fairness

-----------------------------------------------------------------------------
(* Properties *)

\* A route armed in the hardware is in use in software: "each bit specifies if
\* the corresponding mgmt route is currently used" (g_mgmtRouteActive, line 64).
\* It is what keeps allocateMgmtRoute from taking the index again.
LiveRoutesActive ==
    \A s \in Switch, r \in RouteIndex :
        hwRoute[s][r] # NoRoute => r \in g_mgmtRouteActive[s]

\* setupMgmtRoute never writes over a route that waits for its frame: an armed
\* route stays as it is until the hardware uses it up.
NoLiveRouteOverwritten ==
    [][\A s \in Switch, r \in RouteIndex :
           hwRoute[s][r] # NoRoute => hwRoute'[s][r] \in {hwRoute[s][r], NoRoute}]_vars

\* The order of indices chosen by allocateMgmtRoute makes the hardware match
\* every frame with the very route that was set up for it, at every switch of
\* the cascade, whatever else is pending for the same address.
FrameUsesOwnRoute ==
    \A s \in Switch :
        wire[s] # <<>> =>
            LET f == Head(wire[s]) IN
            /\ Matching(s, f.macaddr) # {}
            /\ MatchedRoute(s, f.macaddr) = RouteAt(s, f.macaddr, f.destports, f.ts)

\* The slots an armed route will capture a timestamp into.
Claims(s, r, p, i) ==
    hwRoute[s][r] # NoRoute /\ p \in hwRoute[s][r].destports /\ hwRoute[s][r].ts = i

\* A timestamp slot (port, index) is reserved in software as long as a frame
\* may still use it or its timestamp has not been read, and never for two
\* frames: no timestamp is overwritten before it is read, and none is handed
\* to the sender of another frame. Allocation, capture, the tick and direct
\* reads all have to agree for this.
TimeStampSlotsExclusive ==
    \A p \in Port, i \in TimeStampIndex :
        /\ i \in hwUpdated[p] => p \in g_egressTimeStampsAllocated[i]
        /\ \A s \in Switch, r \in RouteIndex : Claims(s, r, p, i) =>
               /\ p \in g_egressTimeStampsAllocated[i]
               /\ i \notin hwUpdated[p]
               /\ \A t \in Switch, q \in RouteIndex :
                      Claims(t, q, p, i) => t = s /\ q = r

\* The count "corresponds to the sum of bits set in
\* g_egressTimeStampsAllocated" (line 62); the tick skips an index whose count
\* is 0, so it must not drift.
CountMatchesBits ==
    \A i \in TimeStampIndex :
        g_nEgressTimeStampsAllocated[i] = Cardinality(g_egressTimeStampsAllocated[i])

\* A timestamp the tick should hand out: captured, and still reserved.
Undispatched(p, i) ==
    i \in hwUpdated[p] /\ p \in g_egressTimeStampsAllocated[i]

\* The tick looks at every port that has a captured timestamp: "check for
\* recorded egress timestamps and dispatch them" (line 166). The count that
\* lets it skip an index and the ports it knows of must not hide one.
TickSkipsNothing ==
    \A p \in Port, i \in TimeStampIndex : Undispatched(p, i) => p \in PolledAt(i)

\* As long as a handler is registered and the tick is called, a captured
\* timestamp is handed out after finitely many steps, whatever is sent
\* meanwhile (pollAndDispatchEgressTimeStampsTick).
CapturedIsDispatched ==
    \A p \in Port, i \in TimeStampIndex :
        (gpf_egressTimeStampHandler /\ Undispatched(p, i))
            ~> (~gpf_egressTimeStampHandler \/ <<p, i>> \in delivered)

\* The routes and the bookkeeping implement the service of EgressService.
Egress == INSTANCE EgressService WITH
    slot <- [p \in Port |-> [i \in TimeStampIndex |->
                IF i \in hwUpdated[p] THEN "captured"
                ELSE IF p \in g_egressTimeStampsAllocated[i] THEN "reserved"
                ELSE "free"]]

ImplementsEgressService == Egress!Spec
=============================================================================
