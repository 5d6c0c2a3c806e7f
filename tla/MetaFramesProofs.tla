-------------------------- MODULE MetaFramesProofs --------------------------
(***************************************************************************)
(* Proofs about trapped frames and their meta frames, for every number of  *)
(* switches and every set of frames and filters.                           *)
(***************************************************************************)
EXTENDS MetaFrames, TLAPS

Waiting == [frame : Frame, info : TrapInformation]

\* The types of the variables, sequences included.
MetaTyped ==
    /\ out \in [Switch -> Seq(Item)]
    /\ waitingMeta \in Seq(Waiting)
    /\ Len(waitingMeta) <= NSwitches
    /\ trapInformation \in TrapInformation
    /\ switchEthTypeFilter \in Seq(SUBSET EthType)
    /\ Len(switchEthTypeFilter) <= NFilters
    /\ g_endPointIfActive \in BOOLEAN
    /\ Len(dispatched) <= 1
    /\ nLost \in Nat /\ nMispaired \in Nat /\ nDropped \in Nat /\ nFlushed \in Nat

-----------------------------------------------------------------------------
(* Types                                                                     *)

\* What each action does to the sequences of frames under way.
LEMMA ReceiveTyped ==
    ASSUME MetaTyped, NEW kind, Receive(kind)
    PROVE  /\ Received \in Frame
           /\ out[0] \in Seq(Item) /\ out[0] # <<>>
           /\ out' \in [Switch -> Seq(Item)]
<1>1. 0 \in Switch
  BY MetaFramesAssumption DEF Switch
<1>2. out[0] \in Seq(Item) /\ out[0] # <<>>
  BY <1>1 DEF MetaTyped, Receive
<1>3. Head(out[0]) \in Item /\ Tail(out[0]) \in Seq(Item)
  BY <1>2
<1>4. out' = [out EXCEPT ![0] = Tail(out[0])]
  BY DEF Receive
<1>5. out' \in [Switch -> Seq(Item)]
  BY <1>1, <1>3, <1>4 DEF MetaTyped
<1>. QED
  BY <1>2, <1>3, <1>5 DEF Received, Item

LEMMA InformationTyped ==
    ASSUME NEW f \in Frame
    PROVE  InformationOn(f) \in TrapInformation
BY MetaFramesAssumption DEF InformationOn, TrapInformation

\* A trapped frame and its meta frame as a switch sends them.
Sent(f) == <<[kind |-> "trapped", frame |-> f]>>
           \o IF sendMeta[f.filter] THEN <<[kind |-> "meta", frame |-> f]>> ELSE <<>>

LEMMA SentTyped ==
    ASSUME NEW f \in Frame
    PROVE  Sent(f) \in Seq(Item)
<1>1. [kind |-> "trapped", frame |-> f] \in Item /\ [kind |-> "meta", frame |-> f] \in Item
  BY DEF Item
<1>. DEFINE M == IF sendMeta[f.filter] THEN <<[kind |-> "meta", frame |-> f]>> ELSE <<>>
<1>2. <<[kind |-> "trapped", frame |-> f]>> \in Seq(Item) /\ M \in Seq(Item)
  BY <1>1
<1>. HIDE DEF M
<1>3. <<[kind |-> "trapped", frame |-> f]>> \o M \in Seq(Item)
  BY <1>2
<1>. QED
  BY <1>3, Zenon DEF Sent, M

LEMMA TrapAppends ==
    ASSUME MetaTyped, NEW f \in Frame, Trap(f)
    PROVE  /\ f.switch \in Switch
           /\ out' = [out EXCEPT ![f.switch] = out[f.switch] \o Sent(f)]
           /\ out' \in [Switch -> Seq(Item)]
<1>1. f.switch \in Switch
  BY MetaFramesAssumption
<1>2. out[f.switch] \in Seq(Item) /\ Sent(f) \in Seq(Item)
  BY <1>1, SentTyped DEF MetaTyped
<1>3. out' = [out EXCEPT ![f.switch] = out[f.switch] \o Sent(f)]
  <2>1. out' = [out EXCEPT ![f.switch] = out[f.switch]
           \o <<[kind |-> "trapped", frame |-> f]>>
             \o IF sendMeta[f.filter] THEN <<[kind |-> "meta", frame |-> f]>>
                ELSE <<>>]
    BY Zenon DEF Trap
  <2>2. out[f.switch] \o <<[kind |-> "trapped", frame |-> f]>>
             \o (IF sendMeta[f.filter] THEN <<[kind |-> "meta", frame |-> f]>>
                ELSE <<>>) = out[f.switch] \o Sent(f)
    <3>1. [kind |-> "trapped", frame |-> f] \in Item /\ [kind |-> "meta", frame |-> f] \in Item
      BY DEF Item
    <3>2. \A S, T, U \in Seq(Item) : (S \o T) \o U = S \o (T \o U)
      OBVIOUS
    <3>. DEFINE M == IF sendMeta[f.filter] THEN <<[kind |-> "meta", frame |-> f]>> ELSE <<>>
    <3>3. <<[kind |-> "trapped", frame |-> f]>> \in Seq(Item) /\ M \in Seq(Item)
      BY <3>1
    <3>. HIDE DEF M
    <3>4. (out[f.switch] \o <<[kind |-> "trapped", frame |-> f]>>) \o M
            = out[f.switch] \o (<<[kind |-> "trapped", frame |-> f]>> \o M)
      BY <1>2, <3>2, <3>3
    <3>. QED
      BY <3>4, Zenon DEF Sent, M
  <2>. QED
    BY <2>1, <2>2, Zenon
<1>4. out[f.switch] \o Sent(f) \in Seq(Item)
  BY <1>2
<1>. QED
  BY <1>1, <1>3, <1>4 DEF MetaTyped

LEMMA RelayMoves ==
    ASSUME MetaTyped, NEW s \in Switch, Relay(s)
    PROVE  /\ s - 1 \in Switch /\ s # s - 1
           /\ out[s] \in Seq(Item) /\ out[s] # <<>> /\ out[s - 1] \in Seq(Item)
           /\ out' = [out EXCEPT ![s] = Tail(out[s]),
                                 ![s - 1] = Append(out[s - 1], Head(out[s]))]
           /\ out' \in [Switch -> Seq(Item)]
<1>1. s - 1 \in Switch /\ s # s - 1
  BY MetaFramesAssumption DEF Relay, Switch
<1>2. out[s] \in Seq(Item) /\ out[s] # <<>> /\ out[s - 1] \in Seq(Item)
  BY <1>1 DEF MetaTyped, Relay
<1>3. out' = [out EXCEPT ![s] = Tail(out[s]),
                         ![s - 1] = Append(out[s - 1], Head(out[s]))]
  BY <1>1 DEF Relay, MetaTyped
<1>4. Tail(out[s]) \in Seq(Item) /\ Append(out[s - 1], Head(out[s])) \in Seq(Item)
  BY <1>2
<1>. QED
  BY <1>1, <1>2, <1>3, <1>4 DEF MetaTyped

\* The types hold initially, and every step keeps them.
LEMMA MetaTypedInit == Init => MetaTyped
<1>. SUFFICES ASSUME Init PROVE MetaTyped
  OBVIOUS
<1>1. <<>> \in Seq(Item) /\ <<>> \in Seq(Waiting) /\ <<>> \in Seq(SUBSET EthType)
  OBVIOUS
<1>2. out \in [Switch -> Seq(Item)]
  BY <1>1 DEF Init
<1>3. trapInformation \in TrapInformation
  BY DEF Init, TrapInformation
<1>4. /\ Len(waitingMeta) <= NSwitches /\ Len(switchEthTypeFilter) <= NFilters
      /\ Len(dispatched) <= 1
  BY MetaFramesAssumption DEF Init
<1>. QED
  BY <1>1, <1>2, <1>3, <1>4 DEF Init, MetaTyped

LEMMA MetaTypedNext == MetaTyped /\ [Next]_vars => MetaTyped'
<1>. SUFFICES ASSUME MetaTyped, [Next]_vars PROVE MetaTyped'
  OBVIOUS
<1>1. ASSUME NEW f \in Frame, Trap(f) PROVE MetaTyped'
  <2>1. out' \in [Switch -> Seq(Item)]
    BY <1>1, TrapAppends
  <2>. QED
    BY <1>1, <2>1 DEF MetaTyped, Trap, rest, counters
<1>2. ASSUME NEW s \in Switch, Relay(s) PROVE MetaTyped'
  <2>1. out' \in [Switch -> Seq(Item)]
    BY <1>2, RelayMoves
  <2>. QED
    BY <1>2, <2>1 DEF MetaTyped, Relay, rest, counters
<1>3. CASE Lose
  <2>1. 0 \in Switch
    BY MetaFramesAssumption DEF Switch
  <2>2. Tail(out[0]) \in Seq(Item)
    BY <1>3, <2>1 DEF MetaTyped, Lose
  <2>3. out' \in [Switch -> Seq(Item)]
    BY <1>3, <2>1, <2>2 DEF MetaTyped, Lose
  <2>. QED
    BY <1>3, <2>3 DEF MetaTyped, Lose, rest
<1>4. CASE RecvMeta
  <2>1. out' \in [Switch -> Seq(Item)]
    BY <1>4, ReceiveTyped DEF RecvMeta
  <2>2. waitingMeta' = SubSeq(waitingMeta, 1, Len(waitingMeta) - 1) /\ waitingMeta # <<>>
    BY <1>4 DEF RecvMeta, OwnerOfMeta, Front
  <2>3. waitingMeta' \in Seq(Waiting) /\ Len(waitingMeta') <= NSwitches
    BY <2>2, MetaFramesAssumption DEF MetaTyped
  <2>4. Len(dispatched') <= 1 /\ nMispaired' \in Nat
    BY <1>4 DEF RecvMeta, ForwardTrappedFrame, MetaTyped
  <2>. QED
    BY <1>4, <2>1, <2>3, <2>4 DEF MetaTyped, RecvMeta, rest
<1>5. CASE RecvStrayMeta
  BY <1>5, ReceiveTyped DEF MetaTyped, RecvStrayMeta, rest, counters
<1>6. CASE RecvTrapped
  <2>1. out' \in [Switch -> Seq(Item)] /\ Received \in Frame
    BY <1>6, ReceiveTyped DEF RecvTrapped
  <2>2. InformationOn(Received) \in TrapInformation
    BY <2>1, InformationTyped
  <2>3. waitingMeta' = Append(waitingMeta, [frame |-> Received, info |-> InformationOn(Received)])
    BY <1>6 DEF RecvTrapped
  <2>4. [frame |-> Received, info |-> InformationOn(Received)] \in Waiting
    BY <2>1, <2>2 DEF Waiting
  <2>5. waitingMeta' \in Seq(Waiting) /\ Len(waitingMeta') <= NSwitches
    BY <1>6, <2>3, <2>4, MetaFramesAssumption DEF MetaTyped, RecvTrapped, HasRoom
  <2>. QED
    BY <1>6, <2>1, <2>2, <2>5 DEF MetaTyped, RecvTrapped, rest, counters
<1>7. CASE RecvTrappedTooMany
  <2>1. out' \in [Switch -> Seq(Item)] /\ Received \in Frame
    BY <1>7, ReceiveTyped DEF RecvTrappedTooMany
  <2>2. InformationOn(Received) \in TrapInformation
    BY <2>1, InformationTyped
  <2>. QED
    BY <1>7, <2>1, <2>2 DEF MetaTyped, RecvTrappedTooMany, rest
<1>8. CASE RecvTrappedAlone
  <2>1. out' \in [Switch -> Seq(Item)]
    BY <1>8, ReceiveTyped DEF RecvTrappedAlone
  <2>2. Len(dispatched') <= 1
    BY <1>8 DEF RecvTrappedAlone, ForwardTrappedFrame
  <2>. QED
    BY <1>8, <2>1, <2>2 DEF MetaTyped, RecvTrappedAlone, rest, counters
<1>9. CASE FlushEthItf
  BY <1>9, MetaFramesAssumption DEF MetaTyped, FlushEthItf, rest
<1>10. ASSUME NEW types \in SUBSET EthType, SubscribeEthTypeForSwitchIf(types)
       PROVE  MetaTyped'
  <2>1. /\ switchEthTypeFilter' \in Seq(SUBSET EthType)
        /\ Len(switchEthTypeFilter') <= NFilters
    BY <1>10, MetaFramesAssumption DEF MetaTyped, SubscribeEthTypeForSwitchIf
  <2>. QED
    BY <1>10, <2>1 DEF MetaTyped, SubscribeEthTypeForSwitchIf, counters
<1>11. CASE InitEndPointEthIf
  BY <1>11 DEF MetaTyped, InitEndPointEthIf, counters
<1>12. CASE UNCHANGED vars
  BY <1>12 DEF MetaTyped, vars, rest, counters
<1>. QED
  BY <1>1, <1>2, <1>3, <1>4, <1>5, <1>6, <1>7, <1>8, <1>9, <1>10, <1>11, <1>12
     DEF Next, Recv

\* Trapped frames and their meta frames: at most one frame waits per switch of
\* the line, whatever is lost (g_nPendingMetaFrames never passes the end of the
\* arrays of SJA1105P_forwardRecvFrames).
THEOREM MetaTypeCorrect == Spec => []TypeOK
<1>1. MetaTyped => TypeOK
  <2>. SUFFICES ASSUME MetaTyped PROVE TypeOK
    OBVIOUS
  <2>1. ASSUME NEW s \in Switch, NEW k \in DOMAIN out[s] PROVE out[s][k] \in Item
    <3>1. out[s] \in Seq(Item)
      BY DEF MetaTyped
    <3>. QED
      BY <3>1
  <2>2. ASSUME NEW k \in DOMAIN waitingMeta PROVE waitingMeta[k] \in Waiting
    BY DEF MetaTyped
  <2>. QED
    BY <2>1, <2>2 DEF MetaTyped, TypeOK, Waiting
<1>. QED
  BY MetaTypedInit, MetaTypedNext, <1>1, PTL DEF Spec

-----------------------------------------------------------------------------
(* The stream of frames towards the host. A position <<s, k>> comes before   *)
(* another if its frame reaches the host first.                              *)

Pos == {p \in Switch \X (Nat \ {0}) : p[2] <= Len(out[p[1]])}
ItemAt(p) == out[p[1]][p[2]]
Before(p, q) ==
    \/ p[1] < q[1]
    \/ p[1] = q[1] /\ p[2] < q[2]
TrappedOf(f) == [kind |-> "trapped", frame |-> f]
MetaOf(f) == [kind |-> "meta", frame |-> f]
InStream(item) == \E p \in Pos : ItemAt(p) = item

\* No frame is under way twice, or has passed its own switch backwards.
OnceEach ==
    /\ \A p, q \in Pos : ItemAt(p) = ItemAt(q) => p = q
    /\ \A p \in Pos : p[1] <= ItemAt(p).frame.switch

\* A trapped frame is followed by its meta frame if it has one.
Followed ==
    /\ \A p \in Pos : ItemAt(p).kind = "meta" => sendMeta[ItemAt(p).frame.filter]
    /\ \A p \in Pos : ItemAt(p).kind = "trapped" /\ sendMeta[ItemAt(p).frame.filter] =>
           \E q \in Pos : Before(p, q) /\ ItemAt(q) = MetaOf(ItemAt(p).frame)

\* What lies between a frame and its meta frame comes from switches nearer to
\* the host. A meta frame whose frame has arrived has only such before it.
Nested ==
    \A q, r \in Pos :
        ItemAt(q).kind = "meta" /\ Before(r, q) =>
            \/ ItemAt(r).frame.switch < ItemAt(q).frame.switch
            \/ \E p \in Pos : ~Before(p, r) /\ ItemAt(p) = TrappedOf(ItemAt(q).frame)

StreamInv == OnceEach /\ Followed /\ Nested

\* A frame that waits has its meta frame under way, and not itself. The frames
\* further down in the stack come from switches further away.
StackInv ==
    /\ \A j \in DOMAIN waitingMeta :
           /\ InStream(MetaOf(waitingMeta[j].frame))
           /\ ~InStream(TrappedOf(waitingMeta[j].frame))
           /\ waitingMeta[j].info = InformationOn(waitingMeta[j].frame)
           /\ waitingMeta[j].frame.switch <= NSwitches - j
    /\ WaitingComesNearer

\* A meta frame whose frame neither is under way nor waits (the stack was
\* flushed) comes after the meta frames of all that wait.
Orphaned(q) ==
    /\ ~InStream(TrappedOf(ItemAt(q).frame))
    /\ ~Waits(ItemAt(q).frame)

OrphansLast ==
    \A q \in Pos : ItemAt(q).kind = "meta" /\ Orphaned(q) =>
        \A j \in DOMAIN waitingMeta : \A r \in Pos :
            ItemAt(r) = MetaOf(waitingMeta[j].frame) => Before(r, q)

PairingInv ==
    /\ MetaTyped /\ StreamInv /\ StackInv /\ OrphansLast
    /\ nLost = 0 /\ nMispaired = 0 /\ nDropped = 0

-----------------------------------------------------------------------------
LEMMA PosTyped ==
    ASSUME MetaTyped
    PROVE  /\ \A p \in Pos : /\ p[1] \in Switch /\ p[1] \in Nat /\ p[2] \in Nat \ {0}
                             /\ p = <<p[1], p[2]>> /\ p[2] <= Len(out[p[1]])
                             /\ ItemAt(p) \in Item
           /\ \A s \in Switch : \A k \in 1 .. Len(out[s]) :
                  <<s, k>> \in Pos /\ ItemAt(<<s, k>>) = out[s][k]
<1>1. \A s \in Switch : out[s] \in Seq(Item)
  BY DEF MetaTyped
<1>2. \A p \in Pos : /\ p[1] \in Switch /\ p[2] \in Nat \ {0} /\ p = <<p[1], p[2]>>
                     /\ p[2] <= Len(out[p[1]])
  BY DEF Pos
<1>3. Switch \subseteq Nat
  BY MetaFramesAssumption DEF Switch
<1>4. \A p \in Pos : ItemAt(p) \in Item
  BY <1>1, <1>2 DEF ItemAt
<1>5. ASSUME NEW s \in Switch, NEW k \in 1 .. Len(out[s])
      PROVE  <<s, k>> \in Pos /\ ItemAt(<<s, k>>) = out[s][k]
  <2>1. Len(out[s]) \in Nat
    BY <1>1
  <2>. QED
    BY <1>5, <2>1 DEF Pos, ItemAt
<1>. QED
  BY <1>2, <1>3, <1>4, <1>5

LEMMA PosTypedNext ==
    ASSUME MetaTyped'
    PROVE  /\ \A p \in Pos' : /\ p[1] \in Switch /\ p[1] \in Nat /\ p[2] \in Nat \ {0}
                              /\ p = <<p[1], p[2]>> /\ p[2] <= Len(out'[p[1]])
                              /\ out'[p[1]][p[2]] \in Item
           /\ \A s \in Switch : \A k \in 1 .. Len(out'[s]) : <<s, k>> \in Pos'
<1>1. \A s \in Switch : out'[s] \in Seq(Item)
  BY DEF MetaTyped
<1>2. \A p \in Pos' : /\ p[1] \in Switch /\ p[2] \in Nat \ {0} /\ p = <<p[1], p[2]>>
                      /\ p[2] <= Len(out'[p[1]])
  BY DEF Pos
<1>3. Switch \subseteq Nat
  BY MetaFramesAssumption DEF Switch
<1>4. \A p \in Pos' : out'[p[1]][p[2]] \in Item
  BY <1>1, <1>2
<1>5. ASSUME NEW s \in Switch, NEW k \in 1 .. Len(out'[s]) PROVE <<s, k>> \in Pos'
  <2>1. Len(out'[s]) \in Nat
    BY <1>1
  <2>. QED
    BY <1>5, <2>1 DEF Pos
<1>. QED
  BY <1>2, <1>3, <1>4, <1>5

\* A map from the new positions to the old ones keeps items and order, takes no
\* item further away and reaches all positions but possibly the first.
Moves(e) ==
    /\ e \in [Pos' -> Pos]
    /\ \A p \in Pos' : ItemAt(p)' = ItemAt(e[p]) /\ p[1] <= e[p][1]
    /\ \A p, q \in Pos' : Before(p, q) <=> Before(e[p], e[q])
    /\ \A q \in Pos : (\E p \in Pos' : e[p] = q) \/ \A p \in Pos : p = q \/ Before(q, p)

\* Positions are totally ordered.
LEMMA BeforeTotal ==
    ASSUME MetaTyped, NEW p \in Pos, NEW q \in Pos
    PROVE  /\ p = q \/ Before(p, q) \/ Before(q, p)
           /\ ~Before(p, p)
           /\ ~(Before(p, q) /\ Before(q, p))
           /\ \A r \in Pos : Before(p, q) /\ Before(q, r) => Before(p, r)
<1>1. \A r \in Pos : r[1] \in Nat /\ r[2] \in Nat /\ r = <<r[1], r[2]>>
  BY PosTyped
<1>2. p[1] = q[1] /\ p[2] = q[2] => p = q
  BY <1>1, Zenon
<1>. QED
  BY <1>1, <1>2 DEF Before

\* A step that only passes frames on, or takes the first one, keeps the stream
\* in order.
LEMMA StreamMoves ==
    ASSUME MetaTyped, MetaTyped', StreamInv, NEW e, Moves(e)
    PROVE  StreamInv'
<1>1. /\ \A p \in Pos' : e[p] \in Pos /\ ItemAt(p)' = ItemAt(e[p]) /\ p[1] <= e[p][1]
      /\ \A p, q \in Pos' : Before(p, q) <=> Before(e[p], e[q])
      /\ \A q \in Pos : (\E p \in Pos' : e[p] = q) \/ \A p \in Pos : p = q \/ Before(q, p)
  BY DEF Moves
<1>2. \A p, q \in Pos' : e[p] = e[q] => p = q
  <2>. SUFFICES ASSUME NEW p \in Pos', NEW q \in Pos', e[p] = e[q] PROVE p = q
    OBVIOUS
  <2>1. ~Before(p, q) /\ ~Before(q, p)
    BY <1>1, BeforeTotal
  <2>2. p[1] \in Nat /\ p[2] \in Nat /\ q[1] \in Nat /\ q[2] \in Nat
    BY PosTypedNext
  <2>3. p[1] = q[1] /\ p[2] = q[2]
    BY <2>1, <2>2 DEF Before
  <2>. QED
    BY <2>3, PosTypedNext, Zenon
<1>3. OnceEach'
  <2>1. ASSUME NEW p \in Pos', NEW q \in Pos', ItemAt(p)' = ItemAt(q)' PROVE p = q
    <3>1. ItemAt(e[p]) = ItemAt(e[q])
      BY <1>1, <2>1
    <3>. QED
      BY <1>1, <1>2, <3>1 DEF StreamInv, OnceEach
  <2>2. ASSUME NEW p \in Pos' PROVE p[1] <= ItemAt(p)'.frame.switch
    <3>1. e[p][1] <= ItemAt(e[p]).frame.switch /\ ItemAt(p)' = ItemAt(e[p])
      BY <1>1 DEF StreamInv, OnceEach
    <3>2. e[p][1] \in Nat /\ p[1] \in Nat
      BY <1>1, PosTyped, PosTypedNext
    <3>3. ItemAt(e[p]).frame.switch \in Nat
      BY <1>1, PosTyped, MetaFramesAssumption DEF Item, Switch
    <3>. QED
      BY <1>1, <3>1, <3>2, <3>3
  <2>. QED
    BY <2>1, <2>2 DEF OnceEach
<1>4. Followed'
  <2>1. ASSUME NEW p \in Pos', ItemAt(p)'.kind = "meta"
        PROVE  sendMeta[ItemAt(p)'.frame.filter]
    BY <1>1, <2>1 DEF StreamInv, Followed
  <2>2. ASSUME NEW p \in Pos', ItemAt(p)'.kind = "trapped", sendMeta[ItemAt(p)'.frame.filter]
        PROVE  \E q \in Pos' : Before(p, q) /\ ItemAt(q)' = MetaOf(ItemAt(p)'.frame)
    <3>1. PICK q \in Pos : Before(e[p], q) /\ ItemAt(q) = MetaOf(ItemAt(e[p]).frame)
      BY <1>1, <2>2 DEF StreamInv, Followed
    <3>2. PICK r \in Pos' : e[r] = q
      BY <1>1, <3>1, BeforeTotal
    <3>. QED
      BY <1>1, <3>1, <3>2
  <2>. QED
    BY <2>1, <2>2 DEF Followed
<1>5. Nested'
  <2>. SUFFICES ASSUME NEW q \in Pos', NEW r \in Pos', ItemAt(q)'.kind = "meta", Before(r, q)
                PROVE  \/ ItemAt(r)'.frame.switch < ItemAt(q)'.frame.switch
                       \/ \E p \in Pos' : /\ ~Before(p, r)
                                          /\ ItemAt(p)' = TrappedOf(ItemAt(q)'.frame)
    BY DEF Nested
  <2>1. \/ ItemAt(e[r]).frame.switch < ItemAt(e[q]).frame.switch
        \/ \E p \in Pos : ~Before(p, e[r]) /\ ItemAt(p) = TrappedOf(ItemAt(e[q]).frame)
    BY <1>1 DEF StreamInv, Nested
  <2>2. ASSUME NEW p \in Pos, ~Before(p, e[r]), ItemAt(p) = TrappedOf(ItemAt(e[q]).frame)
        PROVE  \E x \in Pos' : ~Before(x, r) /\ ItemAt(x)' = TrappedOf(ItemAt(q)'.frame)
    <3>1. PICK x \in Pos' : e[x] = p
      BY <1>1, <2>2
    <3>. QED
      BY <1>1, <2>2, <3>1
  <2>. QED
    BY <1>1, <2>1, <2>2
<1>. QED
  BY <1>3, <1>4, <1>5 DEF StreamInv

\* Passing a frame on keeps the order of all frames.
LEMMA RelayOrder ==
    ASSUME MetaTyped, MetaTyped', NEW s \in Switch, Relay(s)
    PROVE  \E e : Moves(e) /\ \A q \in Pos : \E p \in Pos' : e[p] = q
<1>. DEFINE L == Len(out[s - 1])
            old(p) == IF p[1] = s THEN <<s, p[2] + 1>>
                      ELSE IF p[1] = s - 1 /\ p[2] > L THEN <<s, 1>> ELSE p
            new(q) == IF q[1] = s THEN IF q[2] = 1 THEN <<s - 1, L + 1>>
                                       ELSE <<s, q[2] - 1>>
                      ELSE q
            e == [p \in Pos' |-> old(p)]
<1>1. /\ s - 1 \in Switch /\ s # s - 1 /\ s \in Nat /\ s - 1 \in Nat
      /\ out[s] \in Seq(Item) /\ out[s] # <<>> /\ out[s - 1] \in Seq(Item)
      /\ L \in Nat /\ Len(out[s]) \in Nat \ {0}
  BY RelayMoves, MetaFramesAssumption DEF Switch
<1>2. /\ out'[s] = Tail(out[s]) /\ out'[s - 1] = Append(out[s - 1], Head(out[s]))
      /\ \A t \in Switch \ {s, s - 1} : out'[t] = out[t]
  <2>1. /\ out' = [out EXCEPT ![s] = Tail(out[s]),
                             ![s - 1] = Append(out[s - 1], Head(out[s]))]
        /\ out \in [Switch -> Seq(Item)]
    BY RelayMoves DEF MetaTyped
  <2>. QED
    BY <1>1, <2>1
<1>3. /\ Len(out'[s]) = Len(out[s]) - 1 /\ Len(out'[s - 1]) = L + 1
      /\ \A k \in 1 .. Len(out[s]) - 1 : out'[s][k] = out[s][k + 1]
      /\ \A k \in 1 .. L : out'[s - 1][k] = out[s - 1][k]
      /\ out'[s - 1][L + 1] = out[s][1]
  BY <1>1, <1>2
<1>4. ASSUME NEW p \in Pos'
      PROVE  /\ old(p) \in Pos /\ ItemAt(p)' = ItemAt(old(p)) /\ p[1] <= old(p)[1]
  <2>1. /\ p[1] \in Switch /\ p[1] \in Nat /\ p[2] \in Nat \ {0} /\ p = <<p[1], p[2]>>
        /\ p[2] <= Len(out'[p[1]]) /\ ItemAt(p)' = out'[p[1]][p[2]]
    BY PosTypedNext DEF ItemAt
  <2>2. CASE p[1] = s
    <3>1. p[2] + 1 \in 1 .. Len(out[s]) /\ out'[s][p[2]] = out[s][p[2] + 1]
      BY <1>1, <1>3, <2>1, <2>2, SMTT(30)
    <3>. QED
      BY <1>1, <2>1, <2>2, <3>1, PosTyped
  <2>3. CASE p[1] = s - 1 /\ p[2] > L
    <3>1. p[2] = L + 1 /\ 1 \in 1 .. Len(out[s])
      BY <1>1, <1>3, <2>1, <2>3
    <3>. QED
      BY <1>1, <1>3, <2>1, <2>3, <3>1, PosTyped
  <2>4. CASE p[1] = s - 1 /\ ~(p[2] > L)
    <3>1. p[2] \in 1 .. L /\ old(p) = p
      BY <1>1, <2>1, <2>4
    <3>2. out'[s - 1][p[2]] = out[s - 1][p[2]]
      BY <1>3, <3>1
    <3>3. p \in Pos /\ ItemAt(p) = out[s - 1][p[2]]
      BY <1>1, <2>1, <2>4, <3>1, PosTyped
    <3>. HIDE DEF old
    <3>. QED
      BY <2>1, <2>4, <3>1, <3>2, <3>3
  <2>5. CASE p[1] # s /\ p[1] # s - 1
    <3>1. out'[p[1]] = out[p[1]] /\ out[p[1]] \in Seq(Item)
      BY <1>2, <2>1, <2>5 DEF MetaTyped
    <3>2. p[2] \in 1 .. Len(out[p[1]])
      BY <2>1, <3>1
    <3>. QED
      BY <2>1, <2>5, <3>1, <3>2, PosTyped
  <2>. QED
    BY <2>2, <2>3, <2>4, <2>5
<1>5. ASSUME NEW q \in Pos PROVE new(q) \in Pos' /\ old(new(q)) = q
  <2>1. /\ q[1] \in Switch /\ q[1] \in Nat /\ q[2] \in Nat \ {0} /\ q = <<q[1], q[2]>>
        /\ q[2] <= Len(out[q[1]])
    BY PosTyped
  <2>2. CASE q[1] = s /\ q[2] = 1
    <3>1. <<s - 1, L + 1>> \in Pos'
      BY <1>1, <1>3, PosTypedNext
    <3>2. q = <<s, 1>>
      BY <2>1, <2>2, Zenon
    <3>. QED
      BY <1>1, <2>2, <3>1, <3>2
  <2>3. CASE q[1] = s /\ q[2] # 1
    <3>1. q[2] - 1 \in 1 .. Len(out'[s])
      BY <1>1, <1>3, <2>1, <2>3, SMTT(30)
    <3>2. <<s, q[2] - 1>> \in Pos'
      BY <3>1, PosTypedNext
    <3>. QED
      BY <1>1, <2>1, <2>3, <3>2
  <2>4. CASE q[1] = s - 1
    <3>1. q[2] \in 1 .. Len(out'[s - 1]) /\ q[2] <= L
      BY <1>1, <1>3, <2>1, <2>4
    <3>2. <<s - 1, q[2]>> \in Pos'
      BY <1>1, <3>1, PosTypedNext
    <3>3. new(q) = q /\ old(q) = q
      BY <1>1, <2>4, <3>1
    <3>4. q \in Pos'
      BY <2>1, <2>4, <3>2, Zenon
    <3>. QED
      BY <3>3, <3>4
  <2>5. CASE q[1] # s /\ q[1] # s - 1
    <3>1. out'[q[1]] = out[q[1]] /\ out[q[1]] \in Seq(Item)
      BY <1>2, <2>1, <2>5 DEF MetaTyped
    <3>2. <<q[1], q[2]>> \in Pos'
      BY <2>1, <3>1, PosTypedNext
    <3>. QED
      BY <2>1, <2>5, <3>2
  <2>. QED
    BY <2>2, <2>3, <2>4, <2>5
<1>6. \A p, q \in Pos' : Before(p, q) <=> Before(old(p), old(q))
  <2>. SUFFICES ASSUME NEW p \in Pos', NEW q \in Pos'
                PROVE  Before(p, q) <=> Before(old(p), old(q))
    OBVIOUS
  <2>1. p[1] \in Nat /\ p[2] \in Nat \ {0} /\ q[1] \in Nat /\ q[2] \in Nat \ {0}
    BY PosTypedNext
  <2>2. (p[1] = s - 1 => p[2] <= L + 1) /\ (q[1] = s - 1 => q[2] <= L + 1)
    BY <1>3, PosTypedNext
  <2>3. \/ p[1] = s /\ old(p)[1] = s /\ old(p)[2] = p[2] + 1
        \/ p[1] = s - 1 /\ p[2] = L + 1 /\ old(p)[1] = s /\ old(p)[2] = 1
        \/ /\ p[1] # s /\ (p[1] = s - 1 => p[2] <= L)
           /\ old(p)[1] = p[1] /\ old(p)[2] = p[2]
    BY <1>1, <2>1, <2>2
  <2>4. \/ q[1] = s /\ old(q)[1] = s /\ old(q)[2] = q[2] + 1
        \/ q[1] = s - 1 /\ q[2] = L + 1 /\ old(q)[1] = s /\ old(q)[2] = 1
        \/ /\ q[1] # s /\ (q[1] = s - 1 => q[2] <= L)
           /\ old(q)[1] = q[1] /\ old(q)[2] = q[2]
    BY <1>1, <2>1, <2>2
  <2>. HIDE DEF old, L
  <2>. QED
    BY <1>1, <2>1, <2>2, <2>3, <2>4, SMTT(30) DEF Before
<1>7. e \in [Pos' -> Pos] /\ \A p \in Pos' : e[p] = old(p)
  BY <1>4
<1>8. \A q \in Pos : \E p \in Pos' : e[p] = q
  BY <1>5, <1>7
<1>. HIDE DEF e, old, new
<1>9. Moves(e)
  BY <1>4, <1>6, <1>7, <1>8 DEF Moves
<1>. QED
  BY <1>8, <1>9

\* Taking the first frame keeps the order of the others.
LEMMA ReceiveOrder ==
    ASSUME MetaTyped, MetaTyped', NEW kind, Receive(kind)
    PROVE  /\ <<0, 1>> \in Pos /\ ItemAt(<<0, 1>>) = [kind |-> kind, frame |-> Received]
           /\ \A q \in Pos : q = <<0, 1>> \/ Before(<<0, 1>>, q)
           /\ \E e : /\ Moves(e)
                     /\ \A p \in Pos' : e[p] # <<0, 1>>
                     /\ \A q \in Pos \ {<<0, 1>>} : \E p \in Pos' : e[p] = q
<1>. DEFINE old(p) == IF p[1] = 0 THEN <<0, p[2] + 1>> ELSE p
            new(q) == IF q[1] = 0 THEN <<0, q[2] - 1>> ELSE q
            e == [p \in Pos' |-> old(p)]
<1>1. /\ 0 \in Switch /\ out[0] \in Seq(Item) /\ out[0] # <<>>
      /\ Len(out[0]) \in Nat \ {0} /\ Head(out[0]) \in Item
  BY ReceiveTyped, MetaFramesAssumption DEF Switch
<1>2. out'[0] = Tail(out[0]) /\ \A t \in Switch \ {0} : out'[t] = out[t]
  BY <1>1 DEF Receive, MetaTyped
<1>3. /\ Len(out'[0]) = Len(out[0]) - 1
      /\ \A k \in 1 .. Len(out[0]) - 1 : out'[0][k] = out[0][k + 1]
  BY <1>1, <1>2
<1>4. <<0, 1>> \in Pos /\ ItemAt(<<0, 1>>) = [kind |-> kind, frame |-> Received]
  <2>1. 1 \in 1 .. Len(out[0])
    BY <1>1
  <2>2. <<0, 1>> \in Pos /\ ItemAt(<<0, 1>>) = out[0][1]
    BY <1>1, <2>1, PosTyped
  <2>3. Head(out[0]).kind = kind /\ Head(out[0]).frame = Received
    BY DEF Receive, Received
  <2>. QED
    BY <1>1, <2>2, <2>3 DEF Item
<1>5. \A q \in Pos : q = <<0, 1>> \/ Before(<<0, 1>>, q)
  <2>. SUFFICES ASSUME NEW q \in Pos PROVE q = <<0, 1>> \/ Before(<<0, 1>>, q)
    OBVIOUS
  <2>1. q[1] \in Nat /\ q[2] \in Nat \ {0} /\ q = <<q[1], q[2]>>
    BY PosTyped
  <2>2. CASE q[1] = 0 /\ q[2] = 1
    BY <2>1, <2>2, Zenon
  <2>3. CASE ~(q[1] = 0 /\ q[2] = 1)
    BY <2>1, <2>3 DEF Before
  <2>. QED
    BY <2>2, <2>3
<1>6. ASSUME NEW p \in Pos'
      PROVE  /\ old(p) \in Pos /\ old(p) # <<0, 1>>
             /\ ItemAt(p)' = ItemAt(old(p)) /\ p[1] <= old(p)[1]
  <2>1. /\ p[1] \in Switch /\ p[1] \in Nat /\ p[2] \in Nat \ {0} /\ p = <<p[1], p[2]>>
        /\ p[2] <= Len(out'[p[1]]) /\ ItemAt(p)' = out'[p[1]][p[2]]
    BY PosTypedNext DEF ItemAt
  <2>2. CASE p[1] = 0
    <3>1. p[2] + 1 \in 1 .. Len(out[0]) /\ out'[0][p[2]] = out[0][p[2] + 1]
      BY <1>1, <1>3, <2>1, <2>2
    <3>. QED
      BY <1>1, <2>1, <2>2, <3>1, PosTyped
  <2>3. CASE p[1] # 0
    <3>1. out'[p[1]] = out[p[1]] /\ out[p[1]] \in Seq(Item)
      BY <1>2, <2>1, <2>3 DEF MetaTyped
    <3>2. p[2] \in 1 .. Len(out[p[1]])
      BY <2>1, <3>1
    <3>3. p # <<0, 1>>
      BY <2>3
    <3>. QED
      BY <2>1, <2>3, <3>1, <3>2, <3>3, PosTyped
  <2>. QED
    BY <2>2, <2>3
<1>7. ASSUME NEW q \in Pos \ {<<0, 1>>} PROVE new(q) \in Pos' /\ old(new(q)) = q
  <2>1. /\ q[1] \in Switch /\ q[1] \in Nat /\ q[2] \in Nat \ {0} /\ q = <<q[1], q[2]>>
        /\ q[2] <= Len(out[q[1]])
    BY PosTyped
  <2>2. CASE q[1] = 0
    <3>1. q[2] # 1
      BY <2>1, <2>2
    <3>2. <<0, q[2] - 1>> \in Pos'
      BY <1>1, <1>3, <2>1, <2>2, <3>1, PosTypedNext
    <3>. QED
      BY <1>1, <2>1, <2>2, <3>2
  <2>3. CASE q[1] # 0
    <3>1. out'[q[1]] = out[q[1]] /\ out[q[1]] \in Seq(Item)
      BY <1>2, <2>1, <2>3 DEF MetaTyped
    <3>2. <<q[1], q[2]>> \in Pos'
      BY <2>1, <3>1, PosTypedNext
    <3>. QED
      BY <2>1, <2>3, <3>2
  <2>. QED
    BY <2>2, <2>3
<1>8. \A p, q \in Pos' : Before(p, q) <=> Before(old(p), old(q))
  <2>. SUFFICES ASSUME NEW p \in Pos', NEW q \in Pos'
                PROVE  Before(p, q) <=> Before(old(p), old(q))
    OBVIOUS
  <2>1. p[1] \in Nat /\ p[2] \in Nat \ {0} /\ q[1] \in Nat /\ q[2] \in Nat \ {0}
    BY PosTypedNext
  <2>2. /\ old(p)[1] = p[1] /\ old(p)[2] = (IF p[1] = 0 THEN p[2] + 1 ELSE p[2])
        /\ old(q)[1] = q[1] /\ old(q)[2] = (IF q[1] = 0 THEN q[2] + 1 ELSE q[2])
    OBVIOUS
  <2>. HIDE DEF old
  <2>. QED
    BY <2>1, <2>2 DEF Before
<1>9. e \in [Pos' -> Pos] /\ \A p \in Pos' : e[p] = old(p)
  BY <1>6
<1>10. \A q \in Pos \ {<<0, 1>>} : \E p \in Pos' : e[p] = q
  BY <1>7, <1>9
<1>. HIDE DEF e, old, new
<1>11. Moves(e) /\ \A p \in Pos' : e[p] # <<0, 1>>
  BY <1>5, <1>6, <1>8, <1>9, <1>10 DEF Moves
<1>. QED
  BY <1>4, <1>5, <1>10, <1>11

\* A trapped frame and its meta frame come in behind all frames at its switch.
LEMMA TrapPlaces ==
    ASSUME MetaTyped, MetaTyped', NEW f \in Frame, Trap(f)
    PROVE  \E F, M :
             /\ \A p \in Pos : p \in Pos' /\ ItemAt(p)' = ItemAt(p) /\ ItemAt(p).frame # f
             /\ \A p \in Pos' : p \in Pos \/ p = F \/ (sendMeta[f.filter] /\ p = M)
             /\ F \in Pos' /\ ItemAt(F)' = TrappedOf(f)
             /\ sendMeta[f.filter] => M \in Pos' /\ ItemAt(M)' = MetaOf(f)
             /\ F[1] = f.switch /\ M[1] = f.switch /\ Before(F, M) /\ ~Before(M, F)
             /\ \A p \in Pos : /\ Before(p, F) <=> p[1] <= f.switch
                               /\ Before(p, M) <=> p[1] <= f.switch
                               /\ Before(F, p) <=> p[1] > f.switch
                               /\ Before(M, p) <=> p[1] > f.switch
             /\ ~Before(F, F) /\ ~Before(M, M) /\ F # M
<1>. DEFINE s == f.switch
<1>0. PICK L \in Nat : L = Len(out[s])
  <2>1. f.switch \in Switch
    BY MetaFramesAssumption
  <2>. QED
    BY <2>1 DEF MetaTyped
<1>1. /\ s \in Switch /\ s \in Nat /\ out[s] \in Seq(Item) /\ L \in Nat
      /\ Sent(f) \in Seq(Item)
      /\ out'[s] = out[s] \o Sent(f) /\ \A t \in Switch \ {s} : out'[t] = out[t]
  <2>1. s \in Switch /\ out' = [out EXCEPT ![s] = out[s] \o Sent(f)]
    BY TrapAppends
  <2>2. out \in [Switch -> Seq(Item)]
    BY DEF MetaTyped
  <2>3. s \in Nat
    BY <2>1, MetaFramesAssumption DEF Switch
  <2>4. out[s] \in Seq(Item) /\ L \in Nat
    BY <1>0, <2>1, <2>2
  <2>5. out'[s] = out[s] \o Sent(f) /\ \A t \in Switch \ {s} : out'[t] = out[t]
    <3>. DEFINE new == out[s] \o Sent(f)
    <3>. HIDE DEF new
    <3>1. out' = [out EXCEPT ![s] = new]
      BY <2>1, Zenon DEF new
    <3>2. out'[s] = new /\ \A t \in Switch \ {s} : out'[t] = out[t]
      BY <2>1, <2>2, <3>1
    <3>. QED
      BY <3>2 DEF new
  <2>. QED
    BY <2>1, <2>3, <2>4, <2>5, SentTyped
<1>2. /\ Len(Sent(f)) = IF sendMeta[f.filter] THEN 2 ELSE 1
      /\ Sent(f)[1] = TrappedOf(f)
      /\ sendMeta[f.filter] => Sent(f)[2] = MetaOf(f)
  <2>1. TrappedOf(f) \in Item /\ MetaOf(f) \in Item
    BY DEF TrappedOf, MetaOf, Item
  <2>3. \A a, b \in Item : /\ Len(<<a>> \o <<b>>) = 2 /\ Len(<<a>> \o <<>>) = 1
                           /\ (<<a>> \o <<b>>)[1] = a /\ (<<a>> \o <<>>)[1] = a
                           /\ (<<a>> \o <<b>>)[2] = b
    OBVIOUS
  <2>4. CASE sendMeta[f.filter]
    <3>1. Sent(f) = <<TrappedOf(f)>> \o <<MetaOf(f)>>
      BY <2>4, Zenon DEF Sent, TrappedOf, MetaOf
    <3>. QED
      BY <2>1, <2>3, <2>4, <3>1
  <2>5. CASE ~sendMeta[f.filter]
    <3>1. Sent(f) = <<TrappedOf(f)>> \o <<>>
      BY <2>5, Zenon DEF Sent, TrappedOf
    <3>. QED
      BY <2>1, <2>3, <2>5, <3>1
  <2>. QED
    BY <2>4, <2>5
<1>3. /\ Len(out'[s]) = L + Len(Sent(f))
      /\ \A k \in 1 .. L : out'[s][k] = out[s][k]
      /\ \A k \in 1 .. Len(Sent(f)) : out'[s][L + k] = Sent(f)[k]
  <2>2. \A S, T \in Seq(Item) :
            /\ Len(S \o T) = Len(S) + Len(T)
            /\ \A k \in 1 .. Len(S) : (S \o T)[k] = S[k]
            /\ \A k \in 1 .. Len(T) : (S \o T)[Len(S) + k] = T[k]
    OBVIOUS
  <2>. QED
    BY <1>0, <1>1, <2>2
<1>4. ASSUME NEW p \in Pos PROVE p \in Pos' /\ ItemAt(p)' = ItemAt(p) /\ ItemAt(p).frame # f
  <2>1. /\ p[1] \in Switch /\ p[2] \in Nat \ {0} /\ p = <<p[1], p[2]>> /\ p[2] <= Len(out[p[1]])
        /\ out[p[1]] \in Seq(Item)
    BY PosTyped DEF MetaTyped
  <2>2. p[2] \in 1 .. Len(out[p[1]])
    BY <2>1
  <2>3. p[2] \in 1 .. Len(out'[p[1]]) /\ out'[p[1]][p[2]] = out[p[1]][p[2]]
    <3>1. CASE p[1] = s
      BY <1>0, <1>1, <1>2, <1>3, <2>1, <2>2, <3>1
    <3>2. CASE p[1] # s
      BY <1>1, <2>1, <2>2, <3>2
    <3>. QED
      BY <3>1, <3>2
  <2>4. p \in Pos'
    <3>1. <<p[1], p[2]>> \in Pos'
      BY <2>1, <2>3, PosTypedNext
    <3>. QED
      BY <2>1, <3>1, Zenon
  <2>5. ItemAt(p).frame # f
    <3>1. p[2] \in DOMAIN out[p[1]]
      BY <2>1, <2>2
    <3>. QED
      BY <2>1, <3>1, Zenon DEF Trap, InOut, ItemAt
  <2>. QED
    BY <2>3, <2>4, <2>5 DEF ItemAt
<1>5. /\ <<s, L + 1>> \in Pos' /\ ItemAt(<<s, L + 1>>)' = TrappedOf(f)
      /\ sendMeta[f.filter] => <<s, L + 2>> \in Pos' /\ ItemAt(<<s, L + 2>>)' = MetaOf(f)
  <2>1. /\ L + 1 \in 1 .. Len(out'[s]) /\ out'[s][L + 1] = TrappedOf(f)
        /\ sendMeta[f.filter] => L + 2 \in 1 .. Len(out'[s]) /\ out'[s][L + 2] = MetaOf(f)
    <3>1. 1 \in 1 .. Len(Sent(f)) /\ (sendMeta[f.filter] => 2 \in 1 .. Len(Sent(f)))
      BY <1>2
    <3>2. Len(Sent(f)) \in Nat
      BY <1>1
    <3>3. /\ out'[s][L + 1] = Sent(f)[1]
          /\ sendMeta[f.filter] => out'[s][L + 2] = Sent(f)[2]
      BY <1>3, <3>1
    <3>4. /\ L + 1 \in 1 .. Len(out'[s])
          /\ sendMeta[f.filter] => L + 2 \in 1 .. Len(out'[s])
      BY <1>2, <1>3
    <3>. QED
      BY <1>2, <3>3, <3>4
  <2>2. \A k : ItemAt(<<s, k>>)' = out'[s][k]
    BY DEF ItemAt
  <2>. HIDE DEF s
  <2>. QED
    BY <1>1, <2>1, <2>2, PosTypedNext
<1>6. ASSUME NEW p \in Pos'
      PROVE  p \in Pos \/ p = <<s, L + 1>> \/ (sendMeta[f.filter] /\ p = <<s, L + 2>>)
  <2>1. /\ p[1] \in Switch /\ p[2] \in Nat \ {0} /\ p = <<p[1], p[2]>> /\ p[2] <= Len(out'[p[1]])
    BY PosTypedNext
  <2>2. CASE p[1] = s /\ p[2] > L
    <3>1. p[2] = L + 1 \/ (sendMeta[f.filter] /\ p[2] = L + 2)
      <4>1. p[2] \in Nat /\ p[2] <= L + Len(Sent(f)) /\ p[2] > L
        BY <1>3, <2>1, <2>2
      <4>2. Len(Sent(f)) = 1 \/ (sendMeta[f.filter] /\ Len(Sent(f)) = 2)
        BY <1>2
      <4>3. ASSUME Len(Sent(f)) = 1 PROVE p[2] = L + 1
        BY <1>0, <4>1, <4>3
      <4>4. ASSUME Len(Sent(f)) = 2 PROVE p[2] = L + 1 \/ p[2] = L + 2
        BY <1>0, <4>1, <4>4
      <4>. QED
        BY <4>2, <4>3, <4>4, Zenon
    <3>. HIDE DEF s
    <3>. QED
      BY <2>1, <2>2, <3>1, Zenon
  <2>3. CASE ~(p[1] = s /\ p[2] > L)
    <3>1. out[p[1]] \in Seq(Item)
      BY <2>1 DEF MetaTyped
    <3>2. p[2] \in 1 .. Len(out[p[1]])
      BY <1>0, <1>1, <2>1, <2>3, <3>1
    <3>3. <<p[1], p[2]>> \in Pos
      BY <2>1, <3>2, PosTyped
    <3>. QED
      BY <2>1, <3>3, Zenon
  <2>. QED
    BY <2>2, <2>3
<1>7. ASSUME NEW p \in Pos
      PROVE  /\ Before(p, <<s, L + 1>>) <=> p[1] <= s
             /\ Before(p, <<s, L + 2>>) <=> p[1] <= s
             /\ Before(<<s, L + 1>>, p) <=> p[1] > s
             /\ Before(<<s, L + 2>>, p) <=> p[1] > s
  <2>1. p[1] = s => p[2] <= L
    BY <1>0, PosTyped
  <2>2. p[1] \in Nat /\ p[2] \in Nat
    BY PosTyped
  <2>. HIDE DEF s
  <2>. QED
    BY <1>1, <2>1, <2>2 DEF Before
<1>8. /\ Before(<<s, L + 1>>, <<s, L + 2>>) /\ ~Before(<<s, L + 2>>, <<s, L + 1>>)
      /\ ~Before(<<s, L + 1>>, <<s, L + 1>>) /\ ~Before(<<s, L + 2>>, <<s, L + 2>>)
      /\ <<s, L + 1>> # <<s, L + 2>>
  BY <1>1 DEF Before
<1>. WITNESS <<s, L + 1>>, <<s, L + 2>>
<1>. QED
  BY <1>4, <1>5, <1>6, <1>7, <1>8

\* Trapping a frame keeps the stream in order.
LEMMA TrapKeepsOrder ==
    ASSUME MetaTyped, MetaTyped', StreamInv, NEW f \in Frame, Trap(f)
    PROVE  StreamInv'
<1>1. PICK F, M :
             /\ \A p \in Pos : p \in Pos' /\ ItemAt(p)' = ItemAt(p) /\ ItemAt(p).frame # f
             /\ \A p \in Pos' : p \in Pos \/ p = F \/ (sendMeta[f.filter] /\ p = M)
             /\ F \in Pos' /\ ItemAt(F)' = TrappedOf(f)
             /\ sendMeta[f.filter] => M \in Pos' /\ ItemAt(M)' = MetaOf(f)
             /\ F[1] = f.switch /\ M[1] = f.switch /\ Before(F, M) /\ ~Before(M, F)
             /\ \A p \in Pos : /\ Before(p, F) <=> p[1] <= f.switch
                               /\ Before(p, M) <=> p[1] <= f.switch
                               /\ Before(F, p) <=> p[1] > f.switch
                               /\ Before(M, p) <=> p[1] > f.switch
             /\ ~Before(F, F) /\ ~Before(M, M) /\ F # M
  BY TrapPlaces
<1>2. f.switch \in Nat
  BY MetaFramesAssumption DEF Switch
<1>3. \A p \in Pos : /\ p[1] \in Nat /\ ItemAt(p) \in Item /\ ItemAt(p).frame.switch \in Nat
  BY PosTyped, MetaFramesAssumption DEF Item, Switch
<1>4. /\ TrappedOf(f) # MetaOf(f) /\ TrappedOf(f).kind = "trapped" /\ MetaOf(f).kind = "meta"
      /\ TrappedOf(f).frame = f /\ MetaOf(f).frame = f
  BY DEF TrappedOf, MetaOf
<1>5. OnceEach'
  <2>1. ASSUME NEW p \in Pos', NEW q \in Pos', ItemAt(p)' = ItemAt(q)' PROVE p = q
    BY <1>1, <1>4, <2>1 DEF StreamInv, OnceEach
  <2>2. ASSUME NEW p \in Pos' PROVE p[1] <= ItemAt(p)'.frame.switch
    BY <1>1, <1>2, <1>4 DEF StreamInv, OnceEach
  <2>. QED
    BY <2>1, <2>2 DEF OnceEach
<1>6. Followed'
  <2>1. ASSUME NEW p \in Pos', ItemAt(p)'.kind = "meta"
        PROVE  sendMeta[ItemAt(p)'.frame.filter]
    BY <1>1, <1>4, <2>1 DEF StreamInv, Followed
  <2>2. ASSUME NEW p \in Pos', ItemAt(p)'.kind = "trapped", sendMeta[ItemAt(p)'.frame.filter]
        PROVE  \E q \in Pos' : Before(p, q) /\ ItemAt(q)' = MetaOf(ItemAt(p)'.frame)
    <3>1. CASE p \in Pos
      <4>1. PICK q \in Pos : Before(p, q) /\ ItemAt(q) = MetaOf(ItemAt(p).frame)
        BY <1>1, <2>2, <3>1 DEF StreamInv, Followed
      <4>. QED
        BY <1>1, <3>1, <4>1
    <3>2. CASE p = F
      BY <1>1, <1>4, <2>2, <3>2
    <3>3. CASE sendMeta[f.filter] /\ p = M
      BY <1>1, <1>4, <2>2, <3>3
    <3>. QED
      BY <1>1, <3>1, <3>2, <3>3
  <2>. QED
    BY <2>1, <2>2 DEF Followed
<1>7. Nested'
  <2>. SUFFICES ASSUME NEW q \in Pos', NEW r \in Pos', ItemAt(q)'.kind = "meta", Before(r, q)
                PROVE  \/ ItemAt(r)'.frame.switch < ItemAt(q)'.frame.switch
                       \/ \E p \in Pos' : /\ ~Before(p, r)
                                          /\ ItemAt(p)' = TrappedOf(ItemAt(q)'.frame)
    BY DEF Nested
  <2>1. CASE q \in Pos /\ r \in Pos
    <3>1. \/ ItemAt(r).frame.switch < ItemAt(q).frame.switch
          \/ \E p \in Pos : ~Before(p, r) /\ ItemAt(p) = TrappedOf(ItemAt(q).frame)
      BY <1>1, <2>1 DEF StreamInv, Nested
    <3>. QED
      BY <1>1, <2>1, <3>1
  <2>2. CASE q \in Pos /\ r \notin Pos
    <3>1. q[1] > f.switch /\ ItemAt(r)'.frame = f
      BY <1>1, <1>4, <2>2
    <3>2. q[1] <= ItemAt(q).frame.switch /\ ItemAt(q)' = ItemAt(q)
      BY <1>1, <2>2 DEF StreamInv, OnceEach
    <3>. QED
      BY <1>2, <1>3, <2>2, <3>1, <3>2
  <2>3. CASE q \notin Pos
    <3>1. q = M /\ ItemAt(q)'.frame = f
      BY <1>1, <1>4, <2>3
    <3>2. ~Before(F, r)
      <4>1. CASE r \in Pos
        <5>1. r[1] <= f.switch
          BY <1>1, <3>1, <4>1
        <5>. QED
          BY <1>1, <1>2, <1>3, <4>1, <5>1
      <4>2. CASE r \notin Pos
        BY <1>1, <3>1, <4>2
      <4>. QED
        BY <4>1, <4>2
    <3>. QED
      BY <1>1, <3>1, <3>2
  <2>. QED
    BY <2>1, <2>2, <2>3
<1>. QED
  BY <1>5, <1>6, <1>7 DEF StreamInv

-----------------------------------------------------------------------------
(* The stack of frames that wait, as long as no frame is lost                *)

\* Positions with the same item, of two frames, are told apart by their items.
LEMMA Unique ==
    ASSUME StreamInv, NEW p \in Pos, NEW q \in Pos, ItemAt(p) = ItemAt(q)
    PROVE  p = q
BY DEF StreamInv, OnceEach

LEMMA ItemParts ==
    ASSUME NEW x \in Item
    PROVE  /\ x.frame \in Frame
           /\ x.kind = "meta" => x = MetaOf(x.frame)
           /\ x.kind = "trapped" => x = TrappedOf(x.frame)
           /\ x.kind = "meta" \/ x.kind = "trapped"
BY DEF Item, MetaOf, TrappedOf

LEMMA ItemKinds ==
    ASSUME NEW f
    PROVE  /\ MetaOf(f).kind = "meta" /\ MetaOf(f).frame = f
           /\ TrappedOf(f).kind = "trapped" /\ TrappedOf(f).frame = f
BY DEF MetaOf, TrappedOf

LEMMA SwitchNumbers ==
    /\ \A f \in Frame : f.switch \in Nat /\ f.switch < NSwitches
    /\ NSwitches \in Nat \ {0}
BY MetaFramesAssumption DEF Switch

\* Passing frames on leaves the stack as it is.
LEMMA RelayKeepsStack ==
    ASSUME PairingInv, MetaTyped', NEW e, Moves(e),
           \A q \in Pos : \E p \in Pos' : e[p] = q, UNCHANGED waitingMeta
    PROVE  StackInv' /\ OrphansLast'
<1>1. /\ MetaTyped /\ StreamInv /\ StackInv /\ OrphansLast
  BY DEF PairingInv
<1>2. /\ \A p \in Pos' : e[p] \in Pos /\ ItemAt(p)' = ItemAt(e[p])
      /\ \A p, q \in Pos' : Before(p, q) <=> Before(e[p], e[q])
  BY DEF Moves
<1>3. \A x : InStream(x)' <=> InStream(x)
  BY <1>2 DEF InStream
<1>4. StackInv'
  BY <1>1, <1>3 DEF StackInv, WaitingComesNearer
<1>5. \A f : Waits(f)' <=> Waits(f)
  BY DEF Waits
<1>6. ASSUME NEW q \in Pos', ItemAt(q)'.kind = "meta", Orphaned(q)',
             NEW j \in DOMAIN waitingMeta, NEW r \in Pos',
             ItemAt(r)' = MetaOf(waitingMeta[j].frame)
      PROVE  Before(r, q)
  <2>1. Orphaned(e[q])
    BY <1>2, <1>3, <1>5, <1>6 DEF Orphaned
  <2>2. Before(e[r], e[q])
    BY <1>1, <1>2, <1>6, <2>1 DEF OrphansLast
  <2>. QED
    BY <1>2, <2>2
<1>7. OrphansLast'
  BY <1>6 DEF OrphansLast
<1>. QED
  BY <1>4, <1>7

\* A frame trapped anew is no concern of the frames that wait.
LEMMA TrapKeepsStack ==
    ASSUME PairingInv, MetaTyped', NEW f \in Frame, Trap(f)
    PROVE  StackInv' /\ OrphansLast'
<1>1. /\ MetaTyped /\ StreamInv /\ StackInv /\ OrphansLast
  BY DEF PairingInv
<1>2. PICK F, M :
             /\ \A p \in Pos : p \in Pos' /\ ItemAt(p)' = ItemAt(p) /\ ItemAt(p).frame # f
             /\ \A p \in Pos' : p \in Pos \/ p = F \/ (sendMeta[f.filter] /\ p = M)
             /\ F \in Pos' /\ ItemAt(F)' = TrappedOf(f)
             /\ sendMeta[f.filter] => M \in Pos' /\ ItemAt(M)' = MetaOf(f)
             /\ F[1] = f.switch /\ M[1] = f.switch /\ Before(F, M) /\ ~Before(M, F)
             /\ \A p \in Pos : /\ Before(p, F) <=> p[1] <= f.switch
                               /\ Before(p, M) <=> p[1] <= f.switch
                               /\ Before(F, p) <=> p[1] > f.switch
                               /\ Before(M, p) <=> p[1] > f.switch
             /\ ~Before(F, F) /\ ~Before(M, M) /\ F # M
  BY <1>1, TrapPlaces
<1>3. waitingMeta' = waitingMeta /\ \A k \in DOMAIN waitingMeta : waitingMeta[k].frame # f
  BY DEF Trap, Waits
<1>4. ASSUME NEW x, x.frame # f PROVE InStream(x)' <=> InStream(x)
  BY <1>2, <1>4, ItemKinds DEF InStream
<1>5. \A g : g # f => /\ InStream(MetaOf(g))' <=> InStream(MetaOf(g))
                      /\ InStream(TrappedOf(g))' <=> InStream(TrappedOf(g))
  BY <1>4, ItemKinds
<1>6. StackInv'
  BY <1>1, <1>3, <1>5 DEF StackInv, WaitingComesNearer
<1>7. ASSUME NEW q \in Pos', ItemAt(q)'.kind = "meta", Orphaned(q)',
             NEW j \in DOMAIN waitingMeta, NEW r \in Pos',
             ItemAt(r)' = MetaOf(waitingMeta[j].frame)
      PROVE  Before(r, q)
  <2>1. InStream(TrappedOf(f))'
    BY <1>2 DEF InStream
  <2>2. q \in Pos /\ r \in Pos /\ ItemAt(q).frame # f
    BY <1>2, <1>3, <1>7, <2>1, ItemKinds DEF Orphaned
  <2>3. ItemAt(q)' = ItemAt(q) /\ ItemAt(r)' = ItemAt(r)
    BY <1>2, <2>2
  <2>4. Orphaned(q)
    <3>1. PICK g : g = ItemAt(q).frame
      OBVIOUS
    <3>2. g = ItemAt(q)'.frame
      BY <2>3, <3>1
    <3>3. ~InStream(TrappedOf(g))' /\ ~Waits(g)'
      BY <1>7, <3>2 DEF Orphaned
    <3>4. ~InStream(TrappedOf(g))
      BY <1>5, <2>2, <3>1, <3>3
    <3>5. ~Waits(g)
      BY <1>3, <3>3 DEF Waits
    <3>. QED
      BY <3>1, <3>4, <3>5 DEF Orphaned
  <2>. QED
    BY <1>1, <1>7, <2>2, <2>3, <2>4 DEF OrphansLast
<1>8. OrphansLast'
  BY <1>3, <1>7 DEF OrphansLast
<1>. QED
  BY <1>6, <1>8

\* Receiving takes the first item, and no other.
LEMMA ReceiveItems ==
    ASSUME MetaTyped, MetaTyped', StreamInv, NEW kind, Receive(kind)
    PROVE  /\ StreamInv'
           /\ <<0, 1>> \in Pos /\ ItemAt(<<0, 1>>) = [kind |-> kind, frame |-> Received]
           /\ Received \in Frame
           /\ \A q \in Pos : q # <<0, 1>> => Before(<<0, 1>>, q) /\ ~Before(q, <<0, 1>>)
           /\ \A x : InStream(x)' <=> InStream(x) /\ x # [kind |-> kind, frame |-> Received]
           /\ \E e : /\ Moves(e)
                     /\ \A p \in Pos' : e[p] # <<0, 1>>
<1>1. /\ <<0, 1>> \in Pos /\ ItemAt(<<0, 1>>) = [kind |-> kind, frame |-> Received]
      /\ \A q \in Pos : q = <<0, 1>> \/ Before(<<0, 1>>, q)
  BY ReceiveOrder
<1>2. PICK e : /\ Moves(e)
               /\ \A p \in Pos' : e[p] # <<0, 1>>
               /\ \A q \in Pos \ {<<0, 1>>} : \E p \in Pos' : e[p] = q
  BY ReceiveOrder
<1>3. StreamInv'
  BY <1>2, StreamMoves
<1>4. Received \in Frame
  BY ReceiveTyped
<1>5. /\ \A p \in Pos' : e[p] \in Pos /\ ItemAt(p)' = ItemAt(e[p])
  BY <1>2 DEF Moves
<1>6. ASSUME NEW x PROVE InStream(x)' <=> InStream(x) /\ x # [kind |-> kind, frame |-> Received]
  <2>1. ASSUME InStream(x)' PROVE InStream(x) /\ x # [kind |-> kind, frame |-> Received]
    <3>1. PICK p \in Pos' : ItemAt(p)' = x
      BY <2>1 DEF InStream
    <3>2. e[p] \in Pos /\ ItemAt(e[p]) = x /\ e[p] # <<0, 1>>
      BY <1>2, <1>5, <3>1
    <3>3. x # ItemAt(<<0, 1>>)
      BY <1>1, <3>2, Unique
    <3>. QED
      BY <1>1, <3>2, <3>3 DEF InStream
  <2>2. ASSUME InStream(x), x # [kind |-> kind, frame |-> Received] PROVE InStream(x)'
    <3>1. PICK q \in Pos : ItemAt(q) = x
      BY <2>2 DEF InStream
    <3>2. PICK p \in Pos' : e[p] = q
      BY <1>1, <1>2, <2>2, <3>1
    <3>. QED
      BY <1>5, <3>1, <3>2 DEF InStream
  <2>. QED
    BY <2>1, <2>2
<1>7. \A q \in Pos : q # <<0, 1>> => Before(<<0, 1>>, q) /\ ~Before(q, <<0, 1>>)
  BY <1>1, BeforeTotal
<1>. QED
  BY <1>1, <1>2, <1>3, <1>4, <1>6, <1>7

\* The first frame comes from nearer than all that wait.
LEMMA FirstIsNearest ==
    ASSUME PairingInv, <<0, 1>> \in Pos, NEW x, ItemAt(<<0, 1>>) = x,
           \A q \in Pos : q # <<0, 1>> => Before(<<0, 1>>, q),
           NEW j \in DOMAIN waitingMeta, x # MetaOf(waitingMeta[j].frame)
    PROVE  x.frame.switch < waitingMeta[j].frame.switch
<1>1. StreamInv /\ StackInv
  BY DEF PairingInv
<1>2. PICK q \in Pos : ItemAt(q) = MetaOf(waitingMeta[j].frame)
  BY <1>1 DEF StackInv, InStream
<1>3. Before(<<0, 1>>, q) /\ ItemAt(q).kind = "meta" /\ ItemAt(q).frame = waitingMeta[j].frame
  BY <1>2, ItemKinds
<1>4. ~\E p \in Pos : ItemAt(p) = TrappedOf(waitingMeta[j].frame)
  BY <1>1 DEF StackInv, InStream
<1>. QED
  BY <1>1, <1>3, <1>4 DEF StreamInv, Nested

\* A trapped frame finds room, and comes from nearer than the others.
LEMMA TrappedFindsRoom ==
    ASSUME PairingInv, MetaTyped', Receive("trapped")
    PROVE  /\ HasRoom
           /\ \A j \in DOMAIN waitingMeta : Received.switch < waitingMeta[j].frame.switch
           /\ Received.switch <= NSwitches - (Len(waitingMeta) + 1)
<1>1. MetaTyped /\ StreamInv /\ StackInv
  BY DEF PairingInv
<1>2. /\ <<0, 1>> \in Pos /\ ItemAt(<<0, 1>>) = TrappedOf(Received)
      /\ Received \in Frame
      /\ \A q \in Pos : q # <<0, 1>> => Before(<<0, 1>>, q)
  BY <1>1, ReceiveItems DEF TrappedOf
<1>3. \A f : TrappedOf(Received) # MetaOf(f)
  BY DEF TrappedOf, MetaOf
<1>4. \A j \in DOMAIN waitingMeta : Received.switch < waitingMeta[j].frame.switch
  BY <1>2, <1>3, FirstIsNearest, ItemKinds
<1>5. /\ waitingMeta \in Seq(Waiting) /\ Len(waitingMeta) <= NSwitches
      /\ Received.switch \in Nat /\ Received.switch < NSwitches /\ NSwitches \in Nat
  BY <1>1, <1>2, SwitchNumbers DEF MetaTyped
<1>6. CASE Len(waitingMeta) = 0
  BY <1>4, <1>5, <1>6, SwitchNumbers DEF HasRoom
<1>7. CASE Len(waitingMeta) # 0
  <2>1. Len(waitingMeta) \in DOMAIN waitingMeta /\ Len(waitingMeta) \in Nat
    BY <1>5, <1>7
  <2>2. waitingMeta[Len(waitingMeta)].frame \in Frame
    <3>1. waitingMeta[Len(waitingMeta)] \in Waiting
      BY <1>5, <2>1
    <3>. QED
      BY <3>1 DEF Waiting
  <2>3. /\ Received.switch < waitingMeta[Len(waitingMeta)].frame.switch
        /\ waitingMeta[Len(waitingMeta)].frame.switch <= NSwitches - Len(waitingMeta)
        /\ waitingMeta[Len(waitingMeta)].frame.switch \in Nat
    BY <1>1, <1>4, <2>1, <2>2, SwitchNumbers DEF StackInv
  <2>. QED
    BY <1>4, <1>5, <2>1, <2>3 DEF HasRoom
<1>. QED
  BY <1>6, <1>7

\* Receiving a trapped frame that waits for its meta frame.
LEMMA TrappedKeepsStack ==
    ASSUME PairingInv, MetaTyped', RecvTrapped
    PROVE  StreamInv' /\ StackInv' /\ OrphansLast'
<1>0. PICK f : f = Received
  OBVIOUS
<1>1. /\ MetaTyped /\ StreamInv /\ StackInv /\ OrphansLast
  BY DEF PairingInv
<1>2. Receive("trapped") /\ sendMeta[f.filter]
      /\ waitingMeta' = Append(waitingMeta, [frame |-> f, info |-> InformationOn(f)])
  BY <1>0 DEF RecvTrapped
<1>3. /\ StreamInv' /\ <<0, 1>> \in Pos /\ ItemAt(<<0, 1>>) = TrappedOf(f) /\ f \in Frame
      /\ \A q \in Pos : q # <<0, 1>> => Before(<<0, 1>>, q) /\ ~Before(q, <<0, 1>>)
      /\ \A x : InStream(x)' <=> InStream(x) /\ x # TrappedOf(f)
  BY <1>0, <1>1, <1>2, ReceiveItems DEF TrappedOf
<1>4. PICK e : Moves(e) /\ \A p \in Pos' : e[p] # <<0, 1>>
  BY <1>1, <1>2, ReceiveItems
<1>5. /\ \A p \in Pos' : e[p] \in Pos /\ ItemAt(p)' = ItemAt(e[p])
      /\ \A p, q \in Pos' : Before(p, q) <=> Before(e[p], e[q])
  BY <1>4 DEF Moves
<1>6. /\ \A j \in DOMAIN waitingMeta : f.switch < waitingMeta[j].frame.switch
      /\ f.switch <= NSwitches - (Len(waitingMeta) + 1)
  BY <1>0, <1>2, TrappedFindsRoom
<1>7. /\ waitingMeta \in Seq(Waiting)
      /\ DOMAIN waitingMeta = 1 .. Len(waitingMeta) /\ Len(waitingMeta) \in Nat
  BY <1>1 DEF MetaTyped
<1>n. PICK n : n = Len(waitingMeta) + 1
  OBVIOUS
<1>8. /\ DOMAIN waitingMeta' = 1 .. n
      /\ waitingMeta'[n] = [frame |-> f, info |-> InformationOn(f)]
      /\ \A j \in 1 .. n : j # n => j \in DOMAIN waitingMeta /\ waitingMeta'[j] = waitingMeta[j]
  <2>1. [frame |-> f, info |-> InformationOn(f)] \in Waiting
    BY <1>3, InformationTyped DEF Waiting
  <2>. QED
    BY <1>2, <1>7, <1>n, <2>1
<1>9. InStream(MetaOf(f))' /\ ~InStream(TrappedOf(f))'
  <2>1. \E q \in Pos : ItemAt(q) = MetaOf(f)
    BY <1>1, <1>2, <1>3, ItemKinds DEF StreamInv, Followed
  <2>2. MetaOf(f) # TrappedOf(f)
    BY ItemKinds
  <2>. QED
    BY <1>3, <2>1, <2>2 DEF InStream
<1>10. StackInv'
  <2>1. ASSUME NEW j \in 1 .. n, NEW g, g = waitingMeta'[j].frame
        PROVE  /\ InStream(MetaOf(g))' /\ ~InStream(TrappedOf(g))'
               /\ waitingMeta'[j].info = InformationOn(g)
               /\ g.switch <= NSwitches - j
    <3>1. CASE j = n
      <4>1. waitingMeta'[j].frame = f /\ waitingMeta'[j].info = InformationOn(f)
        BY <1>8, <3>1
      <4>. QED
        BY <1>6, <1>9, <1>n, <2>1, <3>1, <4>1
    <3>2. CASE j # n
      <4>2. /\ j \in DOMAIN waitingMeta /\ waitingMeta'[j] = waitingMeta[j]
            /\ waitingMeta[j].frame = g
        BY <1>8, <2>1, <3>2
      <4>3. /\ InStream(MetaOf(g)) /\ ~InStream(TrappedOf(g))
            /\ waitingMeta[j].info = InformationOn(g) /\ g.switch <= NSwitches - j
        BY <1>1, <4>2 DEF StackInv
      <4>4. InStream(MetaOf(g))' /\ ~InStream(TrappedOf(g))'
        <5>1. MetaOf(g) # TrappedOf(f)
          BY ItemKinds
        <5>. QED
          BY <1>3, <4>3, <5>1
      <4>. QED
        BY <4>2, <4>3, <4>4
    <3>. QED
      BY <3>1, <3>2
  <2>2. ASSUME NEW j \in 1 .. n, NEW k \in 1 .. n, j < k
        PROVE  waitingMeta'[j].frame.switch > waitingMeta'[k].frame.switch
    <3>1. j # n /\ j \in DOMAIN waitingMeta /\ waitingMeta'[j] = waitingMeta[j]
      BY <1>7, <1>8, <1>n, <2>2
    <3>2. CASE k = n
      <4>1. waitingMeta'[k].frame = f
        BY <1>8, <3>2
      <4>2. waitingMeta[j] \in Waiting
        BY <1>7, <3>1
      <4>3. waitingMeta[j].frame.switch \in Nat /\ f.switch \in Nat
        BY <1>3, <4>2, SwitchNumbers DEF Waiting
      <4>. QED
        BY <1>6, <3>1, <4>1, <4>3
    <3>3. CASE k # n
      BY <1>1, <1>8, <2>2, <3>1, <3>3 DEF StackInv, WaitingComesNearer
    <3>. QED
      BY <3>2, <3>3
  <2>. QED
    BY <1>8, <2>1, <2>2 DEF StackInv, WaitingComesNearer, InStream
<1>11. ASSUME NEW q \in Pos', ItemAt(q)'.kind = "meta", Orphaned(q)',
             NEW j \in DOMAIN waitingMeta', NEW r \in Pos',
             ItemAt(r)' = MetaOf(waitingMeta'[j].frame)
       PROVE  Before(r, q)
  <2>1. PICK g : g = ItemAt(q)'.frame
    OBVIOUS
  <2>2. e[q] \in Pos /\ ItemAt(e[q]).frame = g /\ ItemAt(e[q]).kind = "meta"
        /\ e[r] \in Pos /\ ItemAt(e[r]) = MetaOf(waitingMeta'[j].frame)
    BY <1>5, <1>11, <2>1
  <2>3. ~InStream(TrappedOf(g))' /\ ~Waits(g)'
    BY <1>11, <2>1 DEF Orphaned
  <2>4. g # f /\ ~Waits(g)
    BY <1>7, <1>8, <1>n, <2>3 DEF Waits
  <2>5. ~InStream(TrappedOf(g))
    <3>1. TrappedOf(g) # TrappedOf(f)
      BY <2>4, ItemKinds
    <3>. QED
      BY <1>3, <2>3, <3>1
  <2>6. CASE j # n
    BY <1>1, <1>5, <1>8, <1>11, <2>2, <2>4, <2>5, <2>6 DEF OrphansLast, Orphaned
  <2>7. CASE j = n
    <3>1. ItemAt(e[r]) = MetaOf(f)
      BY <1>8, <2>2, <2>7
    <3>2. e[q] # <<0, 1>> /\ e[r] # e[q] /\ Before(<<0, 1>>, e[q])
      BY <1>3, <1>4, <2>2, <2>4, <3>1, ItemKinds
    <3>3. f.switch < g.switch
      BY <1>1, <1>3, <2>2, <2>5, <3>2, ItemKinds DEF StreamInv, Nested, InStream
    <3>4. ASSUME Before(e[q], e[r]) PROVE FALSE
      <4>1. \/ g.switch < f.switch
            \/ \E p \in Pos : ~Before(p, e[q]) /\ ItemAt(p) = TrappedOf(f)
        BY <1>1, <2>2, <3>1, <3>4, ItemKinds DEF StreamInv, Nested
      <4>2. ~(g.switch < f.switch)
        <5>1. g \in Frame
          BY <1>1, <2>2, PosTyped, ItemParts
        <5>. QED
          BY <1>3, <3>3, <5>1, SwitchNumbers
      <4>. QED
        BY <1>1, <1>3, <3>2, <4>1, <4>2, Unique
    <3>5. Before(e[r], e[q])
      BY <1>1, <2>2, <3>2, <3>4, BeforeTotal
    <3>. QED
      BY <1>5, <3>5
  <2>. QED
    BY <2>6, <2>7
<1>12. OrphansLast'
  BY <1>11 DEF OrphansLast
<1>. QED
  BY <1>3, <1>10, <1>12

\* The frame taken off the stack for a meta frame is its own.
LEMMA MetaFindsOwner ==
    ASSUME PairingInv, MetaTyped', Receive("meta"), waitingMeta # <<>>
    PROVE  /\ Len(waitingMeta) \in DOMAIN waitingMeta
           /\ waitingMeta[Len(waitingMeta)].frame = Received
<1>1. MetaTyped /\ StreamInv /\ StackInv /\ OrphansLast
  BY DEF PairingInv
<1>2. /\ <<0, 1>> \in Pos /\ ItemAt(<<0, 1>>) = MetaOf(Received)
      /\ Received \in Frame
      /\ \A q \in Pos : q # <<0, 1>> => Before(<<0, 1>>, q) /\ ~Before(q, <<0, 1>>)
  BY <1>1, ReceiveItems DEF MetaOf
<1>3. waitingMeta \in Seq(Waiting) /\ Len(waitingMeta) \in Nat
      /\ DOMAIN waitingMeta = 1 .. Len(waitingMeta)
  BY <1>1 DEF MetaTyped
<1>4. Len(waitingMeta) \in DOMAIN waitingMeta
  BY <1>3
<1>5. \A j \in DOMAIN waitingMeta : waitingMeta[j].frame.switch \in Nat
  <2>1. \A j \in DOMAIN waitingMeta : waitingMeta[j] \in Waiting
    BY <1>3
  <2>. QED
    BY <2>1, SwitchNumbers DEF Waiting
<1>6. ~InStream(TrappedOf(Received))
  <2>. SUFFICES ASSUME NEW p \in Pos, ItemAt(p) = TrappedOf(Received) PROVE FALSE
    BY DEF InStream
  <2>1. sendMeta[Received.filter]
    BY <1>1, <1>2, ItemKinds DEF StreamInv, Followed
  <2>2. PICK q \in Pos : Before(p, q) /\ ItemAt(q) = MetaOf(Received)
    BY <1>1, <2>1, ItemKinds DEF StreamInv, Followed
  <2>3. q = <<0, 1>>
    BY <1>1, <1>2, <2>2, Unique
  <2>4. p # <<0, 1>>
    BY <1>2, ItemKinds
  <2>. QED
    BY <1>2, <2>2, <2>3, <2>4
<1>7. Waits(Received)
  <2>. SUFFICES ASSUME ~Waits(Received) PROVE FALSE
    OBVIOUS
  <2>1. Orphaned(<<0, 1>>) /\ ItemAt(<<0, 1>>).kind = "meta"
    BY <1>2, <1>6, ItemKinds DEF Orphaned
  <2>2. PICK r \in Pos : ItemAt(r) = MetaOf(waitingMeta[Len(waitingMeta)].frame)
    BY <1>1, <1>4 DEF StackInv, InStream
  <2>3. Before(r, <<0, 1>>)
    BY <1>1, <1>2, <1>4, <2>1, <2>2 DEF OrphansLast
  <2>. QED
    BY <1>1, <1>2, <2>2, <2>3, BeforeTotal
<1>8. PICK i \in DOMAIN waitingMeta : waitingMeta[i].frame = Received
  BY <1>7 DEF Waits
<1>9. i = Len(waitingMeta)
  <2>. SUFFICES ASSUME i # Len(waitingMeta) PROVE FALSE
    OBVIOUS
  <2>1. waitingMeta[Len(waitingMeta)].frame.switch < Received.switch
    BY <1>1, <1>3, <1>4, <1>5, <1>8 DEF StackInv, WaitingComesNearer
  <2>2. MetaOf(Received) # MetaOf(waitingMeta[Len(waitingMeta)].frame)
    BY <1>4, <1>5, <1>8, <2>1, ItemKinds
  <2>3. MetaOf(Received).frame.switch < waitingMeta[Len(waitingMeta)].frame.switch
    BY <1>2, <1>4, <2>2, FirstIsNearest
  <2>. QED
    BY <1>4, <1>5, <1>8, <2>1, <2>3, ItemKinds
<1>. QED
  BY <1>4, <1>8, <1>9

\* What is left of the stack once the owner of a meta frame is taken off.
LEMMA Popped ==
    ASSUME MetaTyped, RecvMeta
    PROVE  /\ DOMAIN waitingMeta' = 1 .. Len(waitingMeta) - 1
           /\ DOMAIN waitingMeta = 1 .. Len(waitingMeta) /\ Len(waitingMeta) \in Nat \ {0}
           /\ \A j \in 1 .. Len(waitingMeta) - 1 : waitingMeta'[j] = waitingMeta[j]
           /\ OwnerOfMeta[1] = waitingMeta[Len(waitingMeta)]
<1>1. waitingMeta' = SubSeq(waitingMeta, 1, Len(waitingMeta) - 1) /\ waitingMeta # <<>>
  BY DEF RecvMeta, OwnerOfMeta, Front
<1>2. waitingMeta \in Seq(Waiting)
  BY DEF MetaTyped
<1>3. OwnerOfMeta[1] = waitingMeta[Len(waitingMeta)]
  BY DEF OwnerOfMeta, Last
<1>. QED
  BY <1>1, <1>2, <1>3

\* Taking the owner of a meta frame off the stack.
LEMMA MetaKeepsStack ==
    ASSUME PairingInv, MetaTyped', RecvMeta
    PROVE  StreamInv' /\ StackInv' /\ OrphansLast' /\ nMispaired' = 0
<1>0. PICK f : f = Received
  OBVIOUS
<1>1. /\ MetaTyped /\ StreamInv /\ StackInv /\ OrphansLast
  BY DEF PairingInv
<1>2. Receive("meta") /\ waitingMeta # <<>>
  BY DEF RecvMeta
<1>3. /\ StreamInv' /\ <<0, 1>> \in Pos /\ ItemAt(<<0, 1>>) = MetaOf(f) /\ f \in Frame
      /\ \A x : InStream(x)' <=> InStream(x) /\ x # MetaOf(f)
  BY <1>0, <1>1, <1>2, ReceiveItems DEF MetaOf
<1>4. PICK e : Moves(e) /\ \A p \in Pos' : e[p] # <<0, 1>>
  BY <1>1, <1>2, ReceiveItems
<1>5. /\ \A p \in Pos' : e[p] \in Pos /\ ItemAt(p)' = ItemAt(e[p])
      /\ \A p, q \in Pos' : Before(p, q) <=> Before(e[p], e[q])
  BY <1>4 DEF Moves
<1>6. /\ Len(waitingMeta) \in DOMAIN waitingMeta
      /\ waitingMeta[Len(waitingMeta)].frame = f
  BY <1>0, <1>2, MetaFindsOwner
<1>7. PICK n : n = Len(waitingMeta)
  OBVIOUS
<1>8. /\ n \in Nat \ {0} /\ DOMAIN waitingMeta' = 1 .. n - 1 /\ DOMAIN waitingMeta = 1 .. n
      /\ \A j \in 1 .. n - 1 : j \in DOMAIN waitingMeta /\ waitingMeta'[j] = waitingMeta[j]
      /\ OwnerOfMeta[1].frame = f
  BY <1>1, <1>6, <1>7, Popped
<1>9. \A j \in DOMAIN waitingMeta : waitingMeta[j].frame.switch \in Nat
  <2>1. \A j \in DOMAIN waitingMeta : waitingMeta[j] \in Waiting
    BY <1>1 DEF MetaTyped
  <2>. QED
    BY <2>1, SwitchNumbers DEF Waiting
<1>10. \A j \in 1 .. n - 1 : waitingMeta[j].frame # f
  BY <1>1, <1>6, <1>7, <1>8, <1>9 DEF StackInv, WaitingComesNearer
<1>11. StackInv'
  <2>1. ASSUME NEW j \in 1 .. n - 1, NEW g, g = waitingMeta'[j].frame
        PROVE  /\ InStream(MetaOf(g))' /\ ~InStream(TrappedOf(g))'
               /\ waitingMeta'[j].info = InformationOn(g)
               /\ g.switch <= NSwitches - j
    <3>1. /\ j \in DOMAIN waitingMeta /\ waitingMeta'[j] = waitingMeta[j]
          /\ waitingMeta[j].frame = g /\ g # f
      BY <1>8, <1>10, <2>1
    <3>2. /\ InStream(MetaOf(g)) /\ ~InStream(TrappedOf(g))
          /\ waitingMeta[j].info = InformationOn(g) /\ g.switch <= NSwitches - j
      BY <1>1, <3>1 DEF StackInv
    <3>3. MetaOf(g) # MetaOf(f)
      BY <3>1, ItemKinds
    <3>. QED
      BY <1>3, <3>1, <3>2, <3>3
  <2>2. ASSUME NEW j \in 1 .. n - 1, NEW k \in 1 .. n - 1, j < k
        PROVE  waitingMeta'[j].frame.switch > waitingMeta'[k].frame.switch
    BY <1>1, <1>8, <2>2 DEF StackInv, WaitingComesNearer
  <2>. QED
    BY <1>8, <2>1, <2>2 DEF StackInv, WaitingComesNearer, InStream
<1>12. ASSUME NEW q \in Pos', ItemAt(q)'.kind = "meta", Orphaned(q)',
              NEW j \in DOMAIN waitingMeta', NEW r \in Pos',
              ItemAt(r)' = MetaOf(waitingMeta'[j].frame)
       PROVE  Before(r, q)
  <2>1. PICK g : g = ItemAt(q)'.frame
    OBVIOUS
  <2>2. e[q] \in Pos /\ ItemAt(e[q]).frame = g /\ ItemAt(e[q]).kind = "meta"
        /\ e[r] \in Pos /\ ItemAt(e[r]) = MetaOf(waitingMeta'[j].frame)
    BY <1>5, <1>12, <2>1
  <2>3. ~InStream(TrappedOf(g))' /\ ~Waits(g)'
    BY <1>12, <2>1 DEF Orphaned
  <2>4. ~InStream(TrappedOf(g))
    <3>1. TrappedOf(g) # MetaOf(f)
      BY ItemKinds
    <3>. QED
      BY <1>3, <2>3, <3>1
  <2>5. g # f
    <3>1. ItemAt(e[q]) = MetaOf(g) /\ e[q] # <<0, 1>>
      BY <1>1, <1>4, <2>2, PosTyped, ItemParts
    <3>. QED
      BY <1>1, <1>3, <2>2, <3>1, Unique
  <2>6. ~Waits(g)
    <3>. SUFFICES ASSUME NEW k \in DOMAIN waitingMeta, waitingMeta[k].frame = g PROVE FALSE
      BY DEF Waits
    <3>1. k # n
      BY <1>6, <1>7, <2>5
    <3>2. k \in DOMAIN waitingMeta' /\ waitingMeta'[k].frame = g
      BY <1>8, <3>1
    <3>. QED
      BY <2>3, <3>2 DEF Waits
  <2>7. j \in DOMAIN waitingMeta /\ waitingMeta'[j] = waitingMeta[j]
    BY <1>8, <1>12
  <2>. QED
    BY <1>1, <1>5, <1>12, <2>2, <2>4, <2>6, <2>7 DEF OrphansLast, Orphaned
<1>13. OrphansLast'
  BY <1>12 DEF OrphansLast
<1>14. nMispaired' = 0
  BY <1>0, <1>8 DEF RecvMeta, PairingInv
<1>. QED
  BY <1>3, <1>11, <1>13, <1>14

\* Receiving an item that nobody waits for.
LEMMA OtherKeepsStack ==
    ASSUME PairingInv, MetaTyped', NEW kind, Receive(kind), UNCHANGED waitingMeta,
           \/ kind = "meta" /\ waitingMeta = <<>>
           \/ kind = "trapped" /\ ~sendMeta[Received.filter]
    PROVE  StreamInv' /\ StackInv' /\ OrphansLast'
<1>0. PICK x : x = [kind |-> kind, frame |-> Received]
  OBVIOUS
<1>1. /\ MetaTyped /\ StreamInv /\ StackInv /\ OrphansLast
  BY DEF PairingInv
<1>2. /\ StreamInv' /\ <<0, 1>> \in Pos /\ ItemAt(<<0, 1>>) = x /\ Received \in Frame
      /\ \A y : InStream(y)' <=> InStream(y) /\ y # x
  BY <1>0, <1>1, ReceiveItems
<1>3. CASE waitingMeta = <<>>
  BY <1>2, <1>3 DEF StackInv, WaitingComesNearer, OrphansLast
<1>4. CASE waitingMeta # <<>>
  <2>1. kind = "trapped" /\ ~sendMeta[Received.filter] /\ x = TrappedOf(Received)
    BY <1>0, <1>4 DEF TrappedOf
  <2>2. PICK e : Moves(e) /\ \A p \in Pos' : e[p] # <<0, 1>>
    BY <1>1, ReceiveItems
  <2>3. /\ \A p \in Pos' : e[p] \in Pos /\ ItemAt(p)' = ItemAt(e[p])
        /\ \A p, q \in Pos' : Before(p, q) <=> Before(e[p], e[q])
    BY <2>2 DEF Moves
  <2>4. \A f : InStream(MetaOf(f)) => InStream(MetaOf(f))'
    <3>1. \A f : MetaOf(f) # x
      BY <2>1, ItemKinds
    <3>. QED
      BY <1>2, <3>1
  <2>5. StackInv'
    <3>1. \A j \in DOMAIN waitingMeta : \A g : g = waitingMeta[j].frame =>
             InStream(MetaOf(g))' /\ ~InStream(TrappedOf(g))'
      BY <1>1, <1>2, <2>4 DEF StackInv
    <3>. QED
      BY <1>1, <3>1 DEF StackInv, WaitingComesNearer, InStream
  <2>6. ASSUME NEW q \in Pos', ItemAt(q)'.kind = "meta", Orphaned(q)',
               NEW j \in DOMAIN waitingMeta, NEW r \in Pos',
               ItemAt(r)' = MetaOf(waitingMeta[j].frame)
        PROVE  Before(r, q)
    <3>1. PICK g : g = ItemAt(q)'.frame
      OBVIOUS
    <3>2. e[q] \in Pos /\ ItemAt(e[q]).frame = g /\ ItemAt(e[q]).kind = "meta"
          /\ e[r] \in Pos /\ ItemAt(e[r]) = MetaOf(waitingMeta[j].frame)
      BY <2>3, <2>6, <3>1
    <3>3. ~InStream(TrappedOf(g))' /\ ~Waits(g)'
      BY <2>6, <3>1 DEF Orphaned
    <3>4. ~Waits(g)
      BY <3>3 DEF Waits
    <3>5. sendMeta[g.filter]
      BY <1>1, <3>2 DEF StreamInv, Followed
    <3>6. ~InStream(TrappedOf(g))
      <4>1. TrappedOf(g) # x
        BY <2>1, <3>5, ItemKinds
      <4>. QED
        BY <1>2, <3>3, <4>1
    <3>. QED
      BY <1>1, <2>3, <2>6, <3>2, <3>4, <3>6 DEF OrphansLast, Orphaned
  <2>7. OrphansLast'
    BY <2>6 DEF OrphansLast
  <2>. QED
    BY <1>2, <2>5, <2>7
<1>. QED
  BY <1>3, <1>4

\* The invariant holds initially, and every step keeps it if nothing is lost.
LEMMA PairingInit == Init => PairingInv
<1>. SUFFICES ASSUME Init PROVE PairingInv
  OBVIOUS
<1>1. MetaTyped
  BY MetaTypedInit
<1>2. \A s \in Switch : Len(out[s]) = 0
  BY DEF Init
<1>3. Pos = {}
  BY <1>1, <1>2, PosTyped
<1>. QED
  BY <1>1, <1>3 DEF Init, PairingInv, StreamInv, OnceEach, Followed, Nested, StackInv,
                    OrphansLast, WaitingComesNearer

LEMMA PairingNext ==
    ASSUME MaxLost = 0, PairingInv, [Next]_vars
    PROVE  PairingInv'
<1>1. MetaTyped /\ StreamInv /\ StackInv /\ OrphansLast /\ nLost = 0 /\ nMispaired = 0 /\ nDropped = 0
  BY DEF PairingInv
<1>2. MetaTyped'
  BY <1>1, MetaTypedNext
<1>3. ASSUME NEW f \in Frame, Trap(f) PROVE PairingInv'
  <2>1. StreamInv' /\ StackInv' /\ OrphansLast'
    BY <1>1, <1>2, <1>3, TrapKeepsOrder, TrapKeepsStack
  <2>. QED
    BY <1>1, <1>2, <1>3, <2>1 DEF PairingInv, Trap, counters
<1>4. ASSUME NEW s \in Switch, Relay(s) PROVE PairingInv'
  <2>1. PICK e : Moves(e) /\ \A q \in Pos : \E p \in Pos' : e[p] = q
    BY <1>1, <1>2, <1>4, RelayOrder
  <2>2. UNCHANGED waitingMeta
    BY <1>4 DEF Relay
  <2>3. StreamInv' /\ StackInv' /\ OrphansLast'
    BY <1>1, <1>2, <2>1, <2>2, StreamMoves, RelayKeepsStack
  <2>. QED
    BY <1>1, <1>2, <1>4, <2>3 DEF PairingInv, Relay, counters
<1>5. CASE Lose
  BY <1>1, <1>5 DEF Lose
<1>6. CASE RecvMeta
  <2>1. StreamInv' /\ StackInv' /\ OrphansLast' /\ nMispaired' = 0
    BY <1>2, <1>6, MetaKeepsStack
  <2>. QED
    BY <1>1, <1>2, <1>6, <2>1 DEF PairingInv, RecvMeta
<1>7. CASE RecvStrayMeta
  <2>1. Receive("meta") /\ waitingMeta = <<>> /\ UNCHANGED waitingMeta /\ UNCHANGED counters
    BY <1>7 DEF RecvStrayMeta
  <2>2. StreamInv' /\ StackInv' /\ OrphansLast'
    BY <1>2, <2>1, OtherKeepsStack
  <2>. QED
    BY <1>1, <1>2, <2>1, <2>2 DEF PairingInv, counters
<1>8. CASE RecvTrapped
  <2>1. StreamInv' /\ StackInv' /\ OrphansLast'
    BY <1>2, <1>8, TrappedKeepsStack
  <2>. QED
    BY <1>1, <1>2, <1>8, <2>1 DEF PairingInv, RecvTrapped, counters
<1>9. CASE RecvTrappedTooMany
  BY <1>2, <1>9, TrappedFindsRoom DEF RecvTrappedTooMany
<1>10. CASE RecvTrappedAlone
  <2>1. Receive("trapped") /\ ~sendMeta[Received.filter]
        /\ UNCHANGED waitingMeta /\ UNCHANGED counters
    BY <1>10 DEF RecvTrappedAlone
  <2>2. StreamInv' /\ StackInv' /\ OrphansLast'
    BY <1>2, <2>1, OtherKeepsStack
  <2>. QED
    BY <1>1, <1>2, <2>1, <2>2 DEF PairingInv, counters
<1>11. ASSUME UNCHANGED out PROVE StreamInv' /\ \A x : InStream(x)' <=> InStream(x)
  BY <1>1, <1>11, SMTT(30) DEF StreamInv, OnceEach, Followed, Nested, Pos, ItemAt, InStream
<1>12. CASE FlushEthItf
  <2>1. StreamInv'
    BY <1>11, <1>12 DEF FlushEthItf
  <2>2. StackInv' /\ OrphansLast'
    BY <1>12 DEF FlushEthItf, StackInv, WaitingComesNearer, OrphansLast
  <2>. QED
    BY <1>1, <1>2, <1>12, <2>1, <2>2 DEF PairingInv, FlushEthItf
<1>13. ASSUME UNCHANGED <<out, waitingMeta, nLost, nMispaired, nDropped>> PROVE PairingInv'
  <2>1. StreamInv' /\ \A x : InStream(x)' <=> InStream(x)
    BY <1>11, <1>13
  <2>2. StackInv'
    BY <1>1, <1>13, <2>1 DEF StackInv, WaitingComesNearer, InStream
  <2>3. OrphansLast'
    BY <1>1, <1>13 DEF OrphansLast, Orphaned, Waits, InStream, Pos, ItemAt
  <2>. QED
    BY <1>1, <1>2, <1>13, <2>1, <2>2, <2>3 DEF PairingInv
<1>14. ASSUME NEW types \in SUBSET EthType, SubscribeEthTypeForSwitchIf(types)
       PROVE  PairingInv'
  BY <1>13, <1>14 DEF SubscribeEthTypeForSwitchIf, counters
<1>15. CASE InitEndPointEthIf
  BY <1>13, <1>15 DEF InitEndPointEthIf, counters
<1>16. CASE UNCHANGED vars
  BY <1>13, <1>16 DEF vars, counters
<1>. QED
  BY <1>3, <1>4, <1>5, <1>6, <1>7, <1>8, <1>9, <1>10, <1>12, <1>14, <1>15, <1>16
     DEF Next, Recv

\* If no frame is lost, the frames that wait come from ever nearer switches:
\* the stack pairs each with its own meta frame, and one slot per switch is
\* enough, flushing the interface included.
THEOREM WaitingInOrder == MaxLost = 0 => (Spec => []WaitingComesNearer)
<1>. SUFFICES ASSUME MaxLost = 0 PROVE Spec => []WaitingComesNearer
  OBVIOUS
<1>1. PairingInv => WaitingComesNearer
  BY DEF PairingInv, StackInv
<1>2. PairingInv /\ [Next]_vars => PairingInv'
  BY PairingNext
<1>. QED
  BY PairingInit, <1>1, <1>2, PTL DEF Spec

\* If no frame is lost, no frame gets the meta data of another, and none is
\* dropped, in a line of any length.
THEOREM NothingMispaired == MaxLost = 0 => (Spec => []LossesAreContained)
<1>. SUFFICES ASSUME MaxLost = 0 PROVE Spec => []LossesAreContained
  OBVIOUS
<1>1. PairingInv => LossesAreContained
  BY DEF PairingInv, LossesAreContained
<1>2. PairingInv /\ [Next]_vars => PairingInv'
  BY PairingNext
<1>. QED
  BY PairingInit, <1>1, <1>2, PTL DEF Spec

-----------------------------------------------------------------------------
(* One switch, with losses                                                   *)

\* Only the first meta frame may have lost its frame: losses happen at the host.
InPairs ==
    \A k \in 1 .. Len(out[0]) :
        /\ out[0][k] \in Item
        /\ out[0][k].kind = "meta" =>
               /\ sendMeta[out[0][k].frame.filter]
               /\ k > 1 => out[0][k - 1] = TrappedOf(out[0][k].frame)
        /\ out[0][k].kind = "trapped" /\ sendMeta[out[0][k].frame.filter] =>
               k + 1 \in 1 .. Len(out[0]) /\ out[0][k + 1] = MetaOf(out[0][k].frame)

\* A frame waits whose meta frame does not come next: it was lost.
Overdue ==
    /\ waitingMeta # <<>>
    /\ out[0] # <<>> => out[0][1] # MetaOf(waitingMeta[1].frame)

BetweenPairs == out[0] # <<>> => out[0][1].kind = "trapped"

\* The loss behind an overdue frame has not been paid for with a wrong pair yet,
\* nor, between two pairs, with a dropped frame.
LossInv ==
    /\ MetaTyped /\ InPairs
    /\ nMispaired <= nLost /\ nDropped <= nLost
    /\ Overdue => nMispaired + 1 <= nLost
    /\ Overdue /\ BetweenPairs => nDropped + 1 <= nLost

\* Taking the first item leaves pairs, of which the first may have lost its frame.
LEMMA TailInPairs ==
    ASSUME MetaTyped, MetaTyped', InPairs, 0 \in Switch, out[0] # <<>>,
           out'[0] = Tail(out[0])
    PROVE  /\ InPairs'
           /\ out[0][1] \in Item /\ out[0][1] = Head(out[0])
           /\ out[0][1].kind = "trapped" /\ sendMeta[out[0][1].frame.filter] =>
                  out'[0] # <<>> /\ out'[0][1] = MetaOf(out[0][1].frame)
           /\ out[0][1].kind = "meta" \/ ~sendMeta[out[0][1].frame.filter] => BetweenPairs'
<1>1. /\ out[0] \in Seq(Item) /\ Len(out[0]) \in Nat \ {0} /\ out'[0] \in Seq(Item)
      /\ Len(out'[0]) = Len(out[0]) - 1
      /\ \A k \in 1 .. Len(out[0]) - 1 : k + 1 \in 1 .. Len(out[0]) /\ out'[0][k] = out[0][k + 1]
  BY SMTT(30) DEF MetaTyped
<1>2. out[0][1] \in Item /\ out[0][1] = Head(out[0]) /\ 1 \in 1 .. Len(out[0])
  BY <1>1
<1>3. InPairs'
  <2>. SUFFICES ASSUME NEW k \in 1 .. Len(out'[0])
                PROVE  /\ out'[0][k] \in Item
                       /\ out'[0][k].kind = "meta" =>
                              /\ sendMeta[out'[0][k].frame.filter]
                              /\ k > 1 => out'[0][k - 1] = TrappedOf(out'[0][k].frame)
                       /\ out'[0][k].kind = "trapped" /\ sendMeta[out'[0][k].frame.filter] =>
                              /\ k + 1 \in 1 .. Len(out'[0])
                              /\ out'[0][k + 1] = MetaOf(out'[0][k].frame)
    BY DEF InPairs
  <2>1. k \in 1 .. Len(out[0]) - 1 /\ k + 1 \in 1 .. Len(out[0]) /\ out'[0][k] = out[0][k + 1]
    BY <1>1
  <2>2. /\ out[0][k + 1] \in Item
        /\ out[0][k + 1].kind = "meta" =>
               /\ sendMeta[out[0][k + 1].frame.filter]
               /\ k + 1 > 1 => out[0][(k + 1) - 1] = TrappedOf(out[0][k + 1].frame)
        /\ out[0][k + 1].kind = "trapped" /\ sendMeta[out[0][k + 1].frame.filter] =>
               /\ (k + 1) + 1 \in 1 .. Len(out[0])
               /\ out[0][(k + 1) + 1] = MetaOf(out[0][k + 1].frame)
    BY <2>1 DEF InPairs
  <2>3. k > 1 => out'[0][k - 1] = out[0][k]
    <3>1. ASSUME k > 1 PROVE k - 1 \in 1 .. Len(out[0]) - 1 /\ (k - 1) + 1 = k
      BY <1>1, <2>1, <3>1
    <3>. QED
      BY <1>1, <3>1
  <2>4. ASSUME (k + 1) + 1 \in 1 .. Len(out[0])
        PROVE  k + 1 \in 1 .. Len(out'[0]) /\ out'[0][k + 1] = out[0][(k + 1) + 1]
    BY <1>1, <2>1, <2>4
  <2>5. (k + 1) - 1 = k
    BY <2>1
  <2>. QED
    BY <2>1, <2>2, <2>3, <2>4, <2>5
<1>4. ASSUME out[0][1].kind = "trapped", sendMeta[out[0][1].frame.filter]
      PROVE  out'[0] # <<>> /\ out'[0][1] = MetaOf(out[0][1].frame)
  <2>1. 1 + 1 \in 1 .. Len(out[0]) /\ out[0][1 + 1] = MetaOf(out[0][1].frame)
    BY <1>2, <1>4 DEF InPairs
  <2>2. 1 \in 1 .. Len(out[0]) - 1
    BY <1>1, <2>1
  <2>3. out'[0][1] = out[0][1 + 1] /\ Len(out'[0]) # 0
    BY <1>1, <2>2
  <2>4. Len(<<>>) = 0
    OBVIOUS
  <2>. QED
    BY <2>1, <2>3, <2>4, Zenon
<1>5. ASSUME out[0][1].kind = "meta" \/ ~sendMeta[out[0][1].frame.filter] PROVE BetweenPairs'
  <2>. SUFFICES ASSUME out'[0] # <<>> PROVE out'[0][1].kind = "trapped"
    BY DEF BetweenPairs
  <2>1. 2 \in 1 .. Len(out[0]) /\ out'[0][1] = out[0][2]
    <3>1. Len(out'[0]) \in Nat \ {0}
      BY <1>1, SMTT(30)
    <3>2. 1 \in 1 .. Len(out[0]) - 1 /\ 1 + 1 = 2
      BY <1>1, <3>1
    <3>. QED
      BY <1>1, <3>2
  <2>2. out[0][2].kind = "meta" => /\ sendMeta[out[0][2].frame.filter]
                                   /\ out[0][1] = TrappedOf(out[0][2].frame)
    <3>1. 2 - 1 = 1 /\ 2 > 1
      OBVIOUS
    <3>. QED
      BY <2>1, <3>1 DEF InPairs
  <2>3. out[0][2].kind # "meta"
    BY <1>5, <2>2, ItemKinds
  <2>. QED
    BY <2>1, <2>3, ItemParts DEF InPairs
<1>. QED
  BY <1>2, <1>3, <1>4, <1>5

\* What a switch sends behind its other frames is a pair.
LEMMA TrapInPairs ==
    ASSUME MetaTyped, MetaTyped', InPairs, 0 \in Switch, NEW f \in Frame, Trap(f),
           f.switch = 0
    PROVE  /\ InPairs'
           /\ out[0] # <<>> => out'[0] # <<>> /\ out'[0][1] = out[0][1]
           /\ out[0] = <<>> => out'[0] # <<>> /\ out'[0][1] = TrappedOf(f)
<1>1. out[0] \in Seq(Item) /\ Sent(f) \in Seq(Item) /\ out'[0] = out[0] \o Sent(f)
  BY TrapAppends, SentTyped DEF MetaTyped
<1>2. \/ /\ Len(Sent(f)) = 1 /\ Sent(f)[1] = TrappedOf(f) /\ ~sendMeta[f.filter]
      \/ /\ Len(Sent(f)) = 2 /\ Sent(f)[1] = TrappedOf(f) /\ Sent(f)[2] = MetaOf(f)
         /\ sendMeta[f.filter]
  <2>1. TrappedOf(f) \in Item /\ MetaOf(f) \in Item
    BY DEF TrappedOf, MetaOf, Item
  <2>2. \A a, b \in Item : /\ Len(<<a>> \o <<b>>) = 2 /\ Len(<<a>> \o <<>>) = 1
                           /\ (<<a>> \o <<b>>)[1] = a /\ (<<a>> \o <<>>)[1] = a
                           /\ (<<a>> \o <<b>>)[2] = b
    OBVIOUS
  <2>3. CASE sendMeta[f.filter]
    <3>1. Sent(f) = <<TrappedOf(f)>> \o <<MetaOf(f)>>
      BY <2>3, Zenon DEF Sent, TrappedOf, MetaOf
    <3>. QED
      BY <2>1, <2>2, <2>3, <3>1
  <2>4. CASE ~sendMeta[f.filter]
    <3>1. Sent(f) = <<TrappedOf(f)>> \o <<>>
      BY <2>4, Zenon DEF Sent, TrappedOf
    <3>. QED
      BY <2>1, <2>2, <2>4, <3>1
  <2>. QED
    BY <2>3, <2>4
<1>3. PICK L \in Nat : L = Len(out[0])
  BY <1>1
<1>4. /\ Len(out'[0]) = L + Len(Sent(f))
      /\ \A k \in 1 .. L : out'[0][k] = out[0][k]
      /\ \A k \in 1 .. Len(Sent(f)) : out'[0][L + k] = Sent(f)[k]
  BY <1>1, <1>3
<1>5. /\ Len(out'[0]) \in Nat /\ Len(out'[0]) >= L + 1
      /\ out'[0][L + 1] = TrappedOf(f)
      /\ sendMeta[f.filter] => Len(out'[0]) = L + 2 /\ out'[0][L + 2] = MetaOf(f)
      /\ ~sendMeta[f.filter] => Len(out'[0]) = L + 1
  <2>1. CASE Len(Sent(f)) = 1
    <3>1. out'[0][L + 1] = Sent(f)[1]
      BY <1>4, <2>1
    <3>. QED
      BY <1>2, <1>3, <1>4, <2>1, <3>1
  <2>2. CASE Len(Sent(f)) = 2
    <3>1. out'[0][L + 1] = Sent(f)[1] /\ out'[0][L + 2] = Sent(f)[2]
      BY <1>4, <2>2
    <3>. QED
      BY <1>2, <1>3, <1>4, <2>2, <3>1
  <2>. QED
    BY <1>2, <2>1, <2>2
<1>6. InPairs'
  <2>. SUFFICES ASSUME NEW k \in 1 .. Len(out'[0])
                PROVE  /\ out'[0][k] \in Item
                       /\ out'[0][k].kind = "meta" =>
                              /\ sendMeta[out'[0][k].frame.filter]
                              /\ k > 1 => out'[0][k - 1] = TrappedOf(out'[0][k].frame)
                       /\ out'[0][k].kind = "trapped" /\ sendMeta[out'[0][k].frame.filter] =>
                              /\ k + 1 \in 1 .. Len(out'[0])
                              /\ out'[0][k + 1] = MetaOf(out'[0][k].frame)
    BY DEF InPairs
  <2>1. CASE k <= L
    <3>1. k \in 1 .. L /\ out'[0][k] = out[0][k] /\ k \in 1 .. Len(out[0])
      BY <1>3, <1>4, <1>5, <2>1
    <3>2. k > 1 => out'[0][k - 1] = out[0][k - 1]
      <4>1. k > 1 => k - 1 \in 1 .. L
        BY <1>3, <3>1
      <4>. QED
        BY <1>4, <4>1
    <3>3. k + 1 \in 1 .. Len(out[0]) => /\ k + 1 \in 1 .. Len(out'[0])
                                        /\ out'[0][k + 1] = out[0][k + 1]
      BY <1>3, <1>4, <1>5, <3>1
    <3>. QED
      BY <3>1, <3>2, <3>3, SMTT(30) DEF InPairs
  <2>2. CASE k = L + 1
    <3>1. out'[0][k] = TrappedOf(f) /\ TrappedOf(f) \in Item
      BY <1>5, <2>2 DEF TrappedOf, Item
    <3>2. sendMeta[f.filter] => k + 1 \in 1 .. Len(out'[0]) /\ out'[0][k + 1] = MetaOf(f)
      <4>1. k + 1 = L + 2
        BY <1>3, <2>2
      <4>. QED
        BY <1>3, <1>5, <4>1
    <3>. QED
      BY <3>1, <3>2, ItemKinds
  <2>3. CASE k > L + 1
    <3>1. k = L + 2 /\ sendMeta[f.filter] /\ k - 1 = L + 1
      BY <1>3, <1>5, <2>3
    <3>2. out'[0][k] = MetaOf(f) /\ MetaOf(f) \in Item /\ out'[0][k - 1] = TrappedOf(f)
      BY <1>5, <3>1 DEF MetaOf, Item
    <3>. QED
      BY <3>1, <3>2, ItemKinds
  <2>. QED
    BY <1>3, <1>5, <2>1, <2>2, <2>3
<1>7. out[0] # <<>> => out'[0] # <<>> /\ out'[0][1] = out[0][1]
  BY <1>1, <1>3, <1>4, <1>5
<1>8. out[0] = <<>> => out'[0] # <<>> /\ out'[0][1] = TrappedOf(f)
  BY <1>1, <1>3, <1>5
<1>. QED
  BY <1>6, <1>7, <1>8

LEMMA LossInit == Init => LossInv
<1>. SUFFICES ASSUME Init PROVE LossInv
  OBVIOUS
<1>1. MetaTyped
  BY MetaTypedInit
<1>2. 0 \in Switch
  BY MetaFramesAssumption DEF Switch
<1>3. out[0] = <<>> /\ waitingMeta = <<>> /\ nLost = 0 /\ nMispaired = 0 /\ nDropped = 0
  BY <1>2 DEF Init
<1>. QED
  BY <1>1, <1>3 DEF LossInv, InPairs, Overdue

LEMMA LossNext ==
    ASSUME NSwitches = 1, LossInv, [Next]_vars
    PROVE  LossInv'
<1>1. /\ MetaTyped /\ InPairs
      /\ nMispaired <= nLost /\ nDropped <= nLost
      /\ Overdue => nMispaired + 1 <= nLost
      /\ Overdue /\ BetweenPairs => nDropped + 1 <= nLost
  BY DEF LossInv
<1>2. MetaTyped'
  BY <1>1, MetaTypedNext
<1>3. Switch = {0} /\ 0 \in Switch
  BY DEF Switch
<1>4. /\ nLost \in Nat /\ nMispaired \in Nat /\ nDropped \in Nat
      /\ waitingMeta \in Seq(Waiting) /\ Len(waitingMeta) <= 1
      /\ out[0] \in Seq(Item)
  BY <1>1, <1>3 DEF MetaTyped
<1>5. ASSUME NEW f \in Frame, Trap(f) PROVE LossInv'
  <2>1. f.switch = 0
    BY <1>3, MetaFramesAssumption
  <2>2. /\ InPairs'
        /\ out[0] # <<>> => out'[0] # <<>> /\ out'[0][1] = out[0][1]
        /\ out[0] = <<>> => out'[0] # <<>> /\ out'[0][1] = TrappedOf(f)
    BY <1>1, <1>2, <1>3, <1>5, <2>1, TrapInPairs
  <2>3. UNCHANGED waitingMeta /\ UNCHANGED <<nLost, nMispaired, nDropped>>
    BY <1>5 DEF Trap, counters
  <2>4. Overdue' => Overdue
    BY <2>2, <2>3 DEF Overdue
  <2>5. BetweenPairs' => BetweenPairs
    BY <2>2 DEF BetweenPairs
  <2>. QED
    BY <1>1, <1>2, <2>2, <2>3, <2>4, <2>5 DEF LossInv
<1>6. ASSUME NEW s \in Switch, Relay(s) PROVE LossInv'
  BY <1>3, <1>6 DEF Relay
<1>7. ASSUME out[0] # <<>>, out'[0] = Tail(out[0])
      PROVE  /\ InPairs'
             /\ out[0][1] \in Item /\ out[0][1] = Head(out[0])
             /\ out[0][1].kind = "trapped" /\ sendMeta[out[0][1].frame.filter] =>
                  out'[0] # <<>> /\ out'[0][1] = MetaOf(out[0][1].frame)
             /\ out[0][1].kind = "meta" \/ ~sendMeta[out[0][1].frame.filter] => BetweenPairs'
  BY <1>1, <1>2, <1>3, <1>7, TailInPairs
<1>8. ASSUME NEW kind, Receive(kind) PROVE out[0] # <<>> /\ out'[0] = Tail(out[0])
  BY <1>1, <1>3, <1>8 DEF Receive, MetaTyped
<1>9. CASE Lose
  <2>1. /\ out[0] # <<>> /\ out'[0] = Tail(out[0]) /\ nLost' = nLost + 1
        /\ UNCHANGED <<waitingMeta, nMispaired, nDropped>>
    BY <1>1, <1>3, <1>9 DEF Lose, MetaTyped
  <2>2. InPairs'
    BY <1>7, <2>1
  <2>. QED
    BY <1>1, <1>2, <1>4, <2>1, <2>2 DEF LossInv
<1>10. CASE RecvMeta
  <2>1. Receive("meta") /\ waitingMeta # <<>> /\ UNCHANGED <<nLost, nDropped>>
    BY <1>10 DEF RecvMeta
  <2>2. waitingMeta' = SubSeq(waitingMeta, 1, Len(waitingMeta) - 1)
    BY <1>10 DEF RecvMeta, OwnerOfMeta, Front
  <2>3. waitingMeta' = <<>> /\ Len(waitingMeta) = 1
    <3>1. \A T \in Seq(Waiting) : Len(T) \in Nat /\ (Len(T) = 0 => T = <<>>)
      OBVIOUS
    <3>2. Len(waitingMeta) = 1
      <4>1. Len(waitingMeta) \in Nat /\ (Len(waitingMeta) = 0 => waitingMeta = <<>>)
        BY <1>4, <3>1, Zenon
      <4>2. Len(waitingMeta) # 0
        BY <2>1, <4>1, Zenon
      <4>3. \A n \in Nat : n <= 1 /\ n # 0 => n = 1
        OBVIOUS
      <4>. QED
        BY <1>4, <4>1, <4>2, <4>3, Zenon
    <3>3. SubSeq(waitingMeta, 1, 0) \in Seq(Waiting) /\ Len(SubSeq(waitingMeta, 1, 0)) = 0
      BY <1>4, <3>2
    <3>4. waitingMeta' = SubSeq(waitingMeta, 1, 0)
      BY <2>2, <3>2
    <3>. QED
      BY <3>2, <3>3, <3>1, <3>4
  <2>4. InPairs' /\ out[0][1] = Head(out[0]) /\ out[0][1] \in Item /\ out[0] # <<>>
    BY <1>7, <1>8, <2>1
  <2>5. out[0][1] = MetaOf(Received)
    BY <2>1, <2>4, ItemParts DEF Receive, Received
  <2>6. \/ nMispaired' = nMispaired
        \/ nMispaired' = nMispaired + 1 /\ OwnerOfMeta[1].frame # Received
    BY <1>10 DEF RecvMeta
  <2>7. OwnerOfMeta[1] = waitingMeta[1]
    BY <2>3 DEF OwnerOfMeta, Last
  <2>8. waitingMeta[1].frame # Received => Overdue
    BY <2>1, <2>5, ItemKinds DEF Overdue
  <2>9. nMispaired' <= nLost
    BY <1>1, <1>4, <2>6, <2>7, <2>8
  <2>. QED
    BY <1>1, <1>2, <2>1, <2>3, <2>4, <2>9 DEF LossInv, Overdue
<1>11. CASE RecvStrayMeta
  <2>1. Receive("meta") /\ waitingMeta' = <<>> /\ UNCHANGED <<nLost, nMispaired, nDropped>>
    BY <1>11 DEF RecvStrayMeta, counters
  <2>2. InPairs'
    BY <1>7, <1>8, <2>1
  <2>. QED
    BY <1>1, <1>2, <2>1, <2>2 DEF LossInv, Overdue
<1>12. CASE RecvTrapped
  <2>1. /\ Receive("trapped") /\ sendMeta[Received.filter] /\ Len(waitingMeta) < 1
        /\ waitingMeta' = Append(waitingMeta,
               [frame |-> Received, info |-> InformationOn(Received)])
        /\ UNCHANGED <<nLost, nMispaired, nDropped>>
    BY <1>12 DEF RecvTrapped, HasRoom, counters
  <2>2. out[0][1] = TrappedOf(Received)
    BY <1>7, <1>8, <2>1, ItemParts DEF Receive, Received
  <2>3. InPairs' /\ out'[0] # <<>> /\ out'[0][1] = MetaOf(Received)
    BY <1>7, <1>8, <2>1, <2>2, ItemKinds
  <2>4. waitingMeta'[1].frame = Received
    <3>1. [frame |-> Received, info |-> InformationOn(Received)] \in Waiting
      BY <1>1, <2>1, ReceiveTyped, InformationTyped DEF Waiting
    <3>. QED
      BY <1>4, <2>1, <3>1
  <2>5. ~Overdue'
    BY <2>3, <2>4 DEF Overdue
  <2>. QED
    BY <1>1, <1>2, <2>1, <2>3, <2>5 DEF LossInv
<1>13. CASE RecvTrappedTooMany
  <2>1. /\ Receive("trapped") /\ sendMeta[Received.filter] /\ ~(Len(waitingMeta) < 1)
        /\ nDropped' = nDropped + 1 /\ UNCHANGED <<waitingMeta, nLost, nMispaired>>
    BY <1>13 DEF RecvTrappedTooMany, HasRoom
  <2>2. out[0][1] = TrappedOf(Received) /\ out[0] # <<>>
    BY <1>7, <1>8, <2>1, ItemParts DEF Receive, Received
  <2>3. Overdue /\ BetweenPairs
    <3>1. waitingMeta # <<>>
      BY <2>1
    <3>. QED
      BY <2>2, <3>1, ItemKinds DEF Overdue, BetweenPairs
  <2>4. InPairs' /\ out'[0] # <<>> /\ out'[0][1] = MetaOf(Received)
    BY <1>7, <1>8, <2>1, <2>2, ItemKinds
  <2>5. ~BetweenPairs'
    BY <2>4, ItemKinds DEF BetweenPairs
  <2>. QED
    BY <1>1, <1>2, <1>4, <2>1, <2>3, <2>4, <2>5 DEF LossInv
<1>14. CASE RecvTrappedAlone
  <2>1. /\ Receive("trapped") /\ ~sendMeta[Received.filter]
        /\ UNCHANGED waitingMeta /\ UNCHANGED <<nLost, nMispaired, nDropped>>
    BY <1>14 DEF RecvTrappedAlone, counters
  <2>2. out[0][1] = TrappedOf(Received) /\ out[0] # <<>>
    BY <1>7, <1>8, <2>1, ItemParts DEF Receive, Received
  <2>3. InPairs' /\ BetweenPairs'
    BY <1>7, <1>8, <2>1, <2>2, ItemKinds
  <2>4. Overdue' => Overdue /\ BetweenPairs
    BY <2>1, <2>2, ItemKinds DEF Overdue, BetweenPairs
  <2>. QED
    BY <1>1, <1>2, <2>1, <2>3, <2>4 DEF LossInv
<1>15. CASE FlushEthItf
  <2>1. waitingMeta' = <<>> /\ UNCHANGED <<out, nLost, nMispaired, nDropped>>
    BY <1>15 DEF FlushEthItf
  <2>. QED
    BY <1>1, <1>2, <2>1 DEF LossInv, InPairs, Overdue
<1>16. ASSUME UNCHANGED <<out, waitingMeta, nLost, nMispaired, nDropped>> PROVE LossInv'
  BY <1>1, <1>2, <1>16 DEF LossInv, InPairs, Overdue, BetweenPairs
<1>17. ASSUME NEW types \in SUBSET EthType, SubscribeEthTypeForSwitchIf(types)
       PROVE  LossInv'
  BY <1>16, <1>17 DEF SubscribeEthTypeForSwitchIf, counters
<1>18. CASE InitEndPointEthIf
  BY <1>16, <1>18 DEF InitEndPointEthIf, counters
<1>19. CASE UNCHANGED vars
  BY <1>16, <1>19 DEF vars, counters
<1>. QED
  BY <1>5, <1>6, <1>9, <1>10, <1>11, <1>12, <1>13, <1>14, <1>15, <1>17, <1>18, <1>19
     DEF Next, Recv

\* With one switch, each frame or meta frame that is lost makes at most one
\* frame get the meta data of another, and at most one be dropped, whatever the
\* filters, the frames and the number of losses.
THEOREM LossesContained == NSwitches = 1 => (Spec => []LossesAreContained)
<1>. SUFFICES ASSUME NSwitches = 1 PROVE Spec => []LossesAreContained
  OBVIOUS
<1>1. LossInv => LossesAreContained
  BY DEF LossInv, LossesAreContained
<1>2. LossInv /\ [Next]_vars => LossInv'
  BY LossNext
<1>. QED
  BY LossInit, <1>1, <1>2, PTL DEF Spec

-----------------------------------------------------------------------------
(* What the frames are promised                                              *)

\* Every trapped frame has a meta frame, and the frames at the number of the
\* host port come from the switch the host is connected to.
EachFollowed == \A f \in Frame : sendMeta[f.filter]
HostPortAtHost == \A f \in Frame : f.port = HostPort => f.switch = 0

UnderWay == {f \in Frame : InOut(f) \/ Waits(f)}
MetaUnderWay == {f \in Frame : InStream(MetaOf(f))}

\* The frame of every meta frame under way is under way or waits.
NoOrphan == \A q \in Pos : ItemAt(q).kind = "meta" => ~Orphaned(q)

ServeInv == PairingInv /\ NoOrphan /\ nFlushed = 0

\* A trapped frame is under way as long as its meta frame is.
LEMMA UnderWayIs ==
    ASSUME EachFollowed, PairingInv
    PROVE  UnderWay = MetaUnderWay
<1>1. MetaTyped /\ StreamInv /\ StackInv
  BY DEF PairingInv
<1>2. ASSUME NEW f \in Frame, InOut(f) PROVE InStream(MetaOf(f))
  <2>1. PICK s \in Switch : \E k \in DOMAIN out[s] : out[s][k].frame = f
    BY <1>2 DEF InOut
  <2>2. PICK k \in DOMAIN out[s] : out[s][k].frame = f
    BY <2>1
  <2>3. out[s] \in Seq(Item)
    BY <1>1 DEF MetaTyped
  <2>4. k \in 1 .. Len(out[s])
    BY <2>3
  <2>5. <<s, k>> \in Pos /\ ItemAt(<<s, k>>) = out[s][k]
    BY <1>1, <2>4, PosTyped
  <2>6. ItemAt(<<s, k>>) = MetaOf(f) \/ ItemAt(<<s, k>>) = TrappedOf(f)
    BY <1>1, <2>2, <2>5, PosTyped, ItemParts
  <2>7. sendMeta[f.filter]
    BY DEF EachFollowed
  <2>. QED
    BY <1>1, <2>5, <2>6, <2>7, ItemKinds DEF StreamInv, Followed, InStream
<1>3. ASSUME NEW f \in Frame, Waits(f) PROVE InStream(MetaOf(f))
  BY <1>1, <1>3 DEF Waits, StackInv
<1>4. ASSUME NEW f \in Frame, InStream(MetaOf(f)) PROVE InOut(f)
  <2>1. PICK p \in Pos : ItemAt(p) = MetaOf(f)
    BY <1>4 DEF InStream
  <2>2. p[1] \in Switch /\ p[2] \in Nat \ {0} /\ p[2] <= Len(out[p[1]])
        /\ out[p[1]] \in Seq(Item)
    BY <1>1, PosTyped DEF MetaTyped
  <2>3. p[2] \in DOMAIN out[p[1]] /\ out[p[1]][p[2]].frame = f
    BY <2>1, <2>2, ItemKinds DEF ItemAt
  <2>. QED
    BY <2>2, <2>3 DEF InOut
<1>. QED
  BY <1>2, <1>3, <1>4 DEF UnderWay, MetaUnderWay

\* The frame of the first meta frame has arrived.
LEMMA FrameArrived ==
    ASSUME PairingInv, MetaTyped', Receive("meta")
    PROVE  /\ <<0, 1>> \in Pos /\ ItemAt(<<0, 1>>) = MetaOf(Received)
           /\ ~InStream(TrappedOf(Received))
<1>1. MetaTyped /\ StreamInv
  BY DEF PairingInv
<1>2. /\ <<0, 1>> \in Pos /\ ItemAt(<<0, 1>>) = MetaOf(Received)
      /\ \A q \in Pos : q # <<0, 1>> => Before(<<0, 1>>, q) /\ ~Before(q, <<0, 1>>)
  BY <1>1, ReceiveItems DEF MetaOf
<1>3. ASSUME NEW p \in Pos, ItemAt(p) = TrappedOf(Received) PROVE FALSE
  <2>1. sendMeta[Received.filter]
    BY <1>1, <1>2, ItemKinds DEF StreamInv, Followed
  <2>2. PICK q \in Pos : Before(p, q) /\ ItemAt(q) = MetaOf(Received)
    BY <1>1, <1>3, <2>1, ItemKinds DEF StreamInv, Followed
  <2>3. q = <<0, 1>>
    BY <1>1, <1>2, <2>2, Unique
  <2>4. p # <<0, 1>>
    BY <1>2, <1>3, ItemKinds
  <2>. QED
    BY <1>2, <2>2, <2>3, <2>4
<1>. QED
  BY <1>2, <1>3 DEF InStream

\* As long as nothing is lost or flushed, every meta frame finds its frame.
LEMMA ServeNext ==
    ASSUME MaxLost = 0, MaxFlushed = 0, EachFollowed, ServeInv, [Next]_vars
    PROVE  /\ ServeInv'
           /\ ~RecvStrayMeta /\ ~RecvTrappedTooMany /\ ~RecvTrappedAlone
           /\ ~FlushEthItf /\ ~Lose
<1>1. PairingInv /\ NoOrphan /\ nFlushed = 0 /\ nLost = 0
  BY DEF ServeInv, PairingInv
<1>2. PairingInv'
  BY <1>1, PairingNext
<1>3. MetaTyped /\ StreamInv /\ StackInv /\ MetaTyped'
  BY <1>1, <1>2 DEF PairingInv
<1>4. ~RecvStrayMeta
  <2>. SUFFICES ASSUME RecvStrayMeta PROVE FALSE
    OBVIOUS
  <2>1. Receive("meta") /\ waitingMeta = <<>>
    BY DEF RecvStrayMeta
  <2>2. <<0, 1>> \in Pos /\ ItemAt(<<0, 1>>) = MetaOf(Received) /\ ~InStream(TrappedOf(Received))
    BY <1>1, <1>3, <2>1, FrameArrived
  <2>3. Waits(Received)
    BY <1>1, <2>2, ItemKinds DEF NoOrphan, Orphaned
  <2>. QED
    BY <2>1, <2>3 DEF Waits
<1>5. ~RecvTrappedTooMany
  BY <1>1, <1>3, TrappedFindsRoom DEF RecvTrappedTooMany
<1>6. ~RecvTrappedAlone
  <2>. SUFFICES ASSUME RecvTrappedAlone PROVE FALSE
    OBVIOUS
  <2>1. Receive("trapped") /\ ~sendMeta[Received.filter]
    BY DEF RecvTrappedAlone
  <2>. QED
    BY <1>3, <2>1, ReceiveTyped DEF EachFollowed
<1>7. ~FlushEthItf /\ ~Lose
  BY <1>1 DEF FlushEthItf, Lose
<1>8. nFlushed' = 0
  BY <1>1, <1>4, <1>5, <1>6, <1>7
     DEF Next, Recv, Trap, Relay, RecvMeta, RecvTrapped, SubscribeEthTypeForSwitchIf,
         InitEndPointEthIf, vars, counters
\* With the frame of each meta frame as a rigid value.
<1>9. ASSUME \A g : InStream(MetaOf(g))' /\ (InStream(TrappedOf(g)) \/ Waits(g))
                      => InStream(TrappedOf(g))' \/ Waits(g)',
             \A g : InStream(MetaOf(g))' /\ ~InStream(MetaOf(g)) => InStream(TrappedOf(g))'
      PROVE  NoOrphan'
  <2>. SUFFICES ASSUME NEW q \in Pos', ItemAt(q)'.kind = "meta" PROVE ~Orphaned(q)'
    BY DEF NoOrphan
  <2>1. PICK g : g = ItemAt(q)'.frame
    OBVIOUS
  <2>2. InStream(MetaOf(g))'
    <3>1. ItemAt(q)' \in Item
      BY <1>3, PosTypedNext DEF ItemAt
    <3>2. ItemAt(q)' = MetaOf(g)
      BY <2>1, <3>1, ItemParts
    <3>. QED
      BY <3>2 DEF InStream
  <2>3. InStream(MetaOf(g)) => InStream(TrappedOf(g)) \/ Waits(g)
    BY <1>1, ItemKinds DEF NoOrphan, Orphaned, InStream
  <2>4. InStream(TrappedOf(g))' \/ Waits(g)'
    BY <1>9, <2>2, <2>3
  <2>. QED
    BY <2>1, <2>4 DEF Orphaned, InStream, Waits
<1>10. ASSUME NEW f \in Frame, Trap(f) PROVE NoOrphan'
  <2>1. PICK F, M :
             /\ \A p \in Pos : p \in Pos' /\ ItemAt(p)' = ItemAt(p) /\ ItemAt(p).frame # f
             /\ \A p \in Pos' : p \in Pos \/ p = F \/ (sendMeta[f.filter] /\ p = M)
             /\ F \in Pos' /\ ItemAt(F)' = TrappedOf(f)
             /\ sendMeta[f.filter] => M \in Pos' /\ ItemAt(M)' = MetaOf(f)
    BY <1>3, <1>10, TrapPlaces
  <2>2. \A x : InStream(x) => InStream(x)'
    BY <2>1 DEF InStream
  <2>3. \A g : Waits(g)' <=> Waits(g)
    BY <1>10 DEF Trap, Waits
  <2>4. ASSUME NEW g, InStream(MetaOf(g))', ~InStream(MetaOf(g)) PROVE InStream(TrappedOf(g))'
    <3>1. g = f
      BY <2>1, <2>4, ItemKinds DEF InStream
    <3>. QED
      BY <2>1, <3>1 DEF InStream
  <2>. QED
    BY <1>9, <2>2, <2>3, <2>4
<1>11. ASSUME NEW s \in Switch, Relay(s) PROVE NoOrphan'
  <2>1. PICK e : Moves(e) /\ \A q \in Pos : \E p \in Pos' : e[p] = q
    BY <1>3, <1>11, RelayOrder
  <2>2. \A x : InStream(x)' <=> InStream(x)
    BY <2>1 DEF InStream, Moves
  <2>3. \A g : Waits(g)' <=> Waits(g)
    BY <1>11 DEF Relay, Waits
  <2>. QED
    BY <1>9, <2>2, <2>3
<1>12. ASSUME RecvMeta PROVE NoOrphan'
  <2>1. PICK f : f = Received
    OBVIOUS
  <2>2. Receive("meta") /\ waitingMeta # <<>>
    BY <1>12 DEF RecvMeta
  <2>3. \A x : InStream(x)' <=> InStream(x) /\ x # MetaOf(f)
    BY <1>3, <2>1, <2>2, ReceiveItems DEF MetaOf
  <2>4. waitingMeta[Len(waitingMeta)].frame = f
    BY <1>1, <1>3, <2>1, <2>2, MetaFindsOwner
  <2>5. ASSUME NEW g, g # f, Waits(g) PROVE Waits(g)'
    <3>1. PICK k \in DOMAIN waitingMeta : waitingMeta[k].frame = g
      BY <2>5 DEF Waits
    <3>2. k \in DOMAIN waitingMeta' /\ waitingMeta'[k] = waitingMeta[k]
      BY <1>3, <1>12, <2>4, <2>5, <3>1, Popped
    <3>. QED
      BY <3>1, <3>2 DEF Waits
  <2>6. \A g : TrappedOf(g) # MetaOf(f)
    BY ItemKinds
  <2>7. ASSUME NEW g, InStream(MetaOf(g))', InStream(TrappedOf(g)) \/ Waits(g)
        PROVE  InStream(TrappedOf(g))' \/ Waits(g)'
    <3>1. g # f
      BY <2>3, <2>7
    <3>. QED
      BY <2>3, <2>5, <2>6, <2>7, <3>1
  <2>8. ASSUME NEW g, InStream(MetaOf(g))', ~InStream(MetaOf(g)) PROVE InStream(TrappedOf(g))'
    BY <2>3, <2>8
  <2>. QED
    BY <1>9, <2>7, <2>8, Zenon
<1>13. ASSUME RecvTrapped PROVE NoOrphan'
  <2>1. PICK f : f = Received
    OBVIOUS
  <2>2. /\ Receive("trapped")
        /\ waitingMeta' = Append(waitingMeta, [frame |-> f, info |-> InformationOn(f)])
    BY <1>13, <2>1 DEF RecvTrapped
  <2>3. f \in Frame /\ \A x : InStream(x)' <=> InStream(x) /\ x # TrappedOf(f)
    BY <1>3, <2>1, <2>2, ReceiveItems DEF TrappedOf
  <2>4. Waits(f)' /\ \A g : Waits(g) => Waits(g)'
    <3>1. [frame |-> f, info |-> InformationOn(f)] \in Waiting /\ waitingMeta \in Seq(Waiting)
      BY <1>3, <2>3, InformationTyped DEF Waiting, MetaTyped
    <3>2. /\ DOMAIN waitingMeta \subseteq DOMAIN waitingMeta'
          /\ \A k \in DOMAIN waitingMeta : waitingMeta'[k] = waitingMeta[k]
          /\ Len(waitingMeta) + 1 \in DOMAIN waitingMeta'
          /\ waitingMeta'[Len(waitingMeta) + 1].frame = f
      BY <2>2, <3>1
    <3>. QED
      BY <3>2 DEF Waits
  <2>5. \A g : g # f => TrappedOf(g) # TrappedOf(f)
    BY ItemKinds
  <2>6. ASSUME NEW g, InStream(MetaOf(g))', InStream(TrappedOf(g)) \/ Waits(g)
        PROVE  InStream(TrappedOf(g))' \/ Waits(g)'
    BY <2>3, <2>4, <2>5, <2>6
  <2>7. ASSUME NEW g, InStream(MetaOf(g))', ~InStream(MetaOf(g)) PROVE InStream(TrappedOf(g))'
    BY <2>3, <2>7
  <2>. QED
    BY <1>9, <2>6, <2>7, Zenon
<1>14. ASSUME UNCHANGED <<out, waitingMeta>> PROVE NoOrphan'
  BY <1>1, <1>14 DEF NoOrphan, Orphaned, InStream, Waits, Pos, ItemAt
<1>15. NoOrphan'
  <2>1. ASSUME NEW types \in SUBSET EthType, SubscribeEthTypeForSwitchIf(types) PROVE NoOrphan'
    BY <1>14, <2>1 DEF SubscribeEthTypeForSwitchIf
  <2>2. CASE InitEndPointEthIf
    BY <1>14, <2>2 DEF InitEndPointEthIf
  <2>3. CASE UNCHANGED vars
    BY <1>14, <2>3 DEF vars
  <2>. QED
    BY <1>4, <1>5, <1>6, <1>7, <1>10, <1>11, <1>12, <1>13, <2>1, <2>2, <2>3 DEF Next, Recv
<1>. QED
  BY <1>2, <1>4, <1>5, <1>6, <1>7, <1>8, <1>15 DEF ServeInv

\* A frame is handed on to where the service says.
LEMMA SameDestination ==
    ASSUME HostPortAtHost, NEW f \in Frame
    PROVE  Destination(f, InformationOn(f).own, f.type) = Service!Destination(f)
<1>1. InformationOn(f).own = f.own
  BY DEF InformationOn
<1>2. CASE f.port = HostPort
  <2>1. f.switch = 0
    BY <1>2 DEF HostPortAtHost
  <2>. QED
    BY <1>1, <1>2, <2>1, Zenon DEF Destination, Service!Destination, Accepted
<1>3. CASE f.port # HostPort
  BY <1>1, <1>3, Zenon DEF Destination, Service!Destination, Accepted
<1>. QED
  BY <1>2, <1>3

\* If nothing is lost or flushed, every trapped frame is handed on at most once,
\* with its own port, timestamp and destination, however frames and meta frames
\* from different switches are nested: each step is one of TrapService, or none.
THEOREM FramesHandedOn ==
    MaxLost = 0 /\ MaxFlushed = 0 /\ EachFollowed /\ HostPortAtHost =>
        (Spec => Service!Init /\ [][Service!Next]_(Service!vars))
<1>. SUFFICES ASSUME MaxLost = 0, MaxFlushed = 0, EachFollowed, HostPortAtHost
              PROVE  Spec => Service!Init /\ [][Service!Next]_(Service!vars)
  OBVIOUS
<1>1. Init => ServeInv
  <2>. SUFFICES ASSUME Init PROVE ServeInv
    OBVIOUS
  <2>1. PairingInv /\ MetaTyped
    BY PairingInit, MetaTypedInit
  <2>2. \A s \in Switch : Len(out[s]) = 0
    BY DEF Init
  <2>3. Pos = {}
    BY <2>1, <2>2, PosTyped
  <2>. QED
    BY <2>1, <2>3 DEF Init, ServeInv, NoOrphan
<1>2. ServeInv /\ [Next]_vars => ServeInv'
  BY ServeNext
<1>3. ServeInv => UnderWay = MetaUnderWay
  BY UnderWayIs DEF ServeInv
<1>4. ServeInv' => (UnderWay = MetaUnderWay)'
  BY <1>3, PTL
<1>5. Init => Service!Init
  <2>. SUFFICES ASSUME Init PROVE Service!Init
    OBVIOUS
  <2>1. \A s \in Switch : DOMAIN out[s] = {}
    BY DEF Init
  <2>2. UnderWay = {}
    BY <2>1 DEF UnderWay, InOut, Waits, Init
  <2>. QED
    BY <2>2 DEF Init, Service!Init, UnderWay
<1>6. ServeInv /\ [Next]_vars => [Service!Next]_(Service!vars)
  <2>. SUFFICES ASSUME ServeInv, [Next]_vars PROVE [Service!Next]_(Service!vars)
    OBVIOUS
  <2>1. /\ ServeInv' /\ PairingInv /\ MetaTyped /\ StreamInv /\ MetaTyped'
        /\ ~RecvStrayMeta /\ ~RecvTrappedTooMany /\ ~RecvTrappedAlone /\ ~FlushEthItf /\ ~Lose
    BY ServeNext DEF ServeInv, PairingInv
  <2>2. UnderWay = MetaUnderWay /\ UnderWay' = MetaUnderWay'
    BY <1>3, <1>4, <2>1
  <2>3. ASSUME NEW f \in Frame, Trap(f) PROVE Service!Next
    <3>1. PICK F, M :
             /\ \A p \in Pos : p \in Pos' /\ ItemAt(p)' = ItemAt(p) /\ ItemAt(p).frame # f
             /\ \A p \in Pos' : p \in Pos \/ p = F \/ (sendMeta[f.filter] /\ p = M)
             /\ F \in Pos' /\ ItemAt(F)' = TrappedOf(f)
             /\ sendMeta[f.filter] => M \in Pos' /\ ItemAt(M)' = MetaOf(f)
      BY <2>1, <2>3, TrapPlaces
    <3>2. sendMeta[f.filter]
      BY DEF EachFollowed
    <3>3. \A g : InStream(MetaOf(g))' <=> InStream(MetaOf(g)) \/ g = f
      BY <3>1, <3>2, ItemKinds DEF InStream
    <3>4. UnderWay' = UnderWay \cup {f}
      BY <2>2, <3>3 DEF MetaUnderWay
    <3>5. f \notin UnderWay
      BY <2>3 DEF Trap, UnderWay
    <3>6. UNCHANGED <<switchEthTypeFilter, g_endPointIfActive, dispatched>>
      BY <2>3 DEF Trap, rest
    <3>7. Service!Trap(f)
      BY <3>4, <3>5, <3>6 DEF Service!Trap, UnderWay
    <3>. QED
      BY <3>7 DEF Service!Next
  <2>4. ASSUME NEW s \in Switch, Relay(s) PROVE UNCHANGED Service!vars
    <3>1. PICK e : Moves(e) /\ \A q \in Pos : \E p \in Pos' : e[p] = q
      BY <2>1, <2>4, RelayOrder
    <3>2. \A x : InStream(x)' <=> InStream(x)
      BY <3>1 DEF InStream, Moves
    <3>3. UnderWay' = UnderWay
      BY <2>2, <3>2 DEF MetaUnderWay
    <3>. QED
      BY <2>4, <3>3 DEF Relay, rest, Service!vars, UnderWay
  <2>5. CASE RecvTrapped
    <3>1. PICK f : f = Received
      OBVIOUS
    <3>2. Receive("trapped")
      BY <2>5 DEF RecvTrapped
    <3>3. \A x : InStream(x)' <=> InStream(x) /\ x # TrappedOf(f)
      BY <2>1, <3>1, <3>2, ReceiveItems DEF TrappedOf
    <3>4. \A g : MetaOf(g) # TrappedOf(f)
      BY ItemKinds
    <3>5. UnderWay' = UnderWay
      BY <2>2, <3>3, <3>4 DEF MetaUnderWay
    <3>. QED
      BY <2>5, <3>5 DEF RecvTrapped, rest, Service!vars, UnderWay
  <2>6. CASE RecvMeta
    <3>1. PICK f : f = Received
      OBVIOUS
    <3>2. Receive("meta") /\ waitingMeta # <<>>
      BY <2>6 DEF RecvMeta
    <3>3. /\ \A x : InStream(x)' <=> InStream(x) /\ x # MetaOf(f)
          /\ <<0, 1>> \in Pos /\ ItemAt(<<0, 1>>) = MetaOf(f) /\ f \in Frame
      BY <2>1, <3>1, <3>2, ReceiveItems DEF MetaOf
    <3>4. \A g : g # f => MetaOf(g) # MetaOf(f)
      BY ItemKinds
    <3>5. f \in UnderWay /\ UnderWay' = UnderWay \ {f}
      BY <2>2, <3>3, <3>4 DEF MetaUnderWay, InStream
    <3>6. OwnerOfMeta[1].frame = f /\ OwnerOfMeta[1].info = InformationOn(f)
      <4>1. /\ Len(waitingMeta) \in DOMAIN waitingMeta
            /\ waitingMeta[Len(waitingMeta)].frame = f
        BY <2>1, <3>1, <3>2, MetaFindsOwner
      <4>2. OwnerOfMeta[1] = waitingMeta[Len(waitingMeta)]
        BY <2>1, <2>6, Popped
      <4>. QED
        BY <2>1, <4>1, <4>2 DEF PairingInv, StackInv
    <3>7. dispatched' = <<[frame |-> f, switch |-> f.switch, port |-> f.port,
                           stamp |-> f, to |-> Destination(f, InformationOn(f).own, f.type)]>>
      BY <2>6, <3>1, <3>6 DEF RecvMeta, ForwardTrappedFrame
    <3>8. UNCHANGED <<switchEthTypeFilter, g_endPointIfActive>>
      BY <2>6 DEF RecvMeta, rest
    <3>9. Service!HandOn(f)
      BY <3>3, <3>5, <3>7, <3>8, SameDestination DEF Service!HandOn, UnderWay
    <3>. QED
      BY <3>3, <3>9 DEF Service!Next
  <2>7. ASSUME UNCHANGED <<out, waitingMeta>> PROVE UnderWay' = UnderWay
    BY <2>7 DEF UnderWay, InOut, Waits
  <2>8. ASSUME NEW types \in SUBSET EthType, SubscribeEthTypeForSwitchIf(types)
        PROVE  Service!Next
    <3>1. UnderWay' = UnderWay
      BY <2>7, <2>8 DEF SubscribeEthTypeForSwitchIf
    <3>2. Service!Subscribe(types)
      BY <2>8, <3>1 DEF SubscribeEthTypeForSwitchIf, Service!Subscribe, UnderWay
    <3>. QED
      BY <3>2 DEF Service!Next
  <2>9. CASE InitEndPointEthIf
    <3>1. UnderWay' = UnderWay
      BY <2>7, <2>9 DEF InitEndPointEthIf
    <3>2. Service!InitEndPoint
      BY <2>9, <3>1 DEF InitEndPointEthIf, Service!InitEndPoint, UnderWay
    <3>. QED
      BY <3>2 DEF Service!Next
  <2>10. CASE UNCHANGED vars
    <3>1. UnderWay' = UnderWay
      BY <2>7, <2>10 DEF vars
    <3>. QED
      BY <2>10, <3>1 DEF vars, rest, Service!vars, UnderWay
  <2>. QED
    BY <2>1, <2>3, <2>4, <2>5, <2>6, <2>8, <2>9, <2>10 DEF Next, Recv
<1>. QED
  BY <1>1, <1>2, <1>5, <1>6, PTL DEF Spec
=============================================================================
