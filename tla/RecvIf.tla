------------------------------- MODULE RecvIf -------------------------------
(***************************************************************************)
(* A receive interface of the driver's Ethernet interface                  *)
(* (platform_independent/src/NXP_SJA1105P_ethIf.c). The switch interface   *)
(* and the endpoint interface are two copies of the same code over the     *)
(* same kind of queue; this module models one.                             *)
(*                                                                         *)
(* Frames go to a registered handler as they arrive, or into a ring of     *)
(* bytes with a ring of lengths and descriptors beside it, from which they *)
(* are popped. Lengths are counted in units of 64 bytes, the smallest      *)
(* frame.                                                                  *)
(***************************************************************************)
EXTENDS Integers, Sequences, FiniteSets

CONSTANTS
    Frame,        \* frames that may arrive
    FrameLen,     \* their lengths
    NoFrame,
    NElements,    \* k_nElements: SWITCH_RECV_QUEUE_MAX_FRAMES
    NBytes,       \* k_nMemoryBytes: SJA1105P_SWITCH_RECV_QUEUE_MEMORY
    Requests      \* values of nFrames the receiver asks for

\* The counters of queueMetaData_t: uint16_t for bytes, uint8_t for elements.
Word16 == 65536
Word8 == 256

ASSUME QueueAssumption ==
    /\ NElements \in 1 .. Word8 - 2
    /\ NBytes \in 1 .. Word16 - 1
    /\ FrameLen \in [Frame -> 1 .. Word16 - 1]
    /\ Requests \subseteq 0 .. Word8 - 1
    /\ NoFrame \notin Frame

VARIABLES
    queue,                        \* queueMetaData_t, with its list of lengths
    g_switchRecvDescriptorQueue,  \* per element: the frame described
    memory,                       \* per byte: the frame and its offset there
    gpf_switchRecvFrameHandler,   \* is a handler registered?
    g_switchNFrames,              \* frames it still wants; 0: any number
    delivered                     \* what the last call gave to the receiver

vars == <<queue, g_switchRecvDescriptorQueue, memory,
          gpf_switchRecvFrameHandler, g_switchNFrames, delivered>>

-----------------------------------------------------------------------------
Element == 0 .. NElements - 1
Byte == 0 .. NBytes - 1

TypeOK ==
    /\ queue \in [tail : Byte, head : Byte, queuedBytes : 0 .. Word16 - 1,
                  youngestElement : Element, queuedElements : 0 .. NElements,
                  lenList : [Element -> 0 .. Word16 - 1]]
    /\ g_switchRecvDescriptorQueue \in [Element -> Frame \cup {NoFrame}]
    /\ \A b \in Byte : memory[b] = NoFrame \/ memory[b][1] \in Frame
    /\ gpf_switchRecvFrameHandler \in BOOLEAN
    /\ g_switchNFrames \in 0 .. Word8 - 1

Init ==
    /\ queue = [tail |-> 0, head |-> NBytes - 1, queuedBytes |-> 0,
                youngestElement |-> NElements - 1, queuedElements |-> 0,
                lenList |-> [e \in Element |-> 0]]
    /\ g_switchRecvDescriptorQueue = [e \in Element |-> NoFrame]
    /\ memory = [b \in Byte |-> NoFrame]
    /\ gpf_switchRecvFrameHandler = FALSE
    /\ g_switchNFrames = 0
    /\ delivered = <<>>

-----------------------------------------------------------------------------
(* The queue *)

\* Mutant of HasRoom: only the elements are checked, not the bytes.
HasRoomForElement(q, len) == q.queuedElements < NElements

HasRoom(q, len) ==
    /\ (NBytes - q.queuedBytes) % Word16 >= len
    /\ q.queuedElements < NElements

\* Mutant of NextElement: the index is not wrapped.
NextElementUnwrapped(q) == q.youngestElement + 1

\* The element and the bytes pushToQueue stores a frame at.
NextElement(q) == (q.youngestElement + 1) % NElements
PushedBytes(q, len) == {(q.head + 1 + i) % NBytes : i \in 0 .. len - 1}

Pushed(q, len) ==
    [q EXCEPT !.head = (@ + len) % NBytes,
              !.queuedBytes = (@ + len) % Word16,
              !.lenList[NextElement(q)] = len,
              !.youngestElement = NextElement(q),
              !.queuedElements = @ + 1]

\* 2^32 modulo the number of elements.
WrapResidue == ((Word16 % NElements) * (Word16 % NElements)) % NElements

\* Mutant of ElementToBePopped: without the + 1.
ElementToBePoppedOffByOne(q) ==
    (q.youngestElement - q.queuedElements + NElements) % NElements

\* The element popFromQueue takes. The uint8_t operands are promoted to int
\* and the 1U makes the sum a 32-bit unsigned number before the modulo: a
\* negative difference becomes 2^32 less.
ElementToBePopped(q) ==
    LET x == q.youngestElement - q.queuedElements + 1 IN
    IF x >= 0 THEN x % NElements ELSE (WrapResidue + x) % NElements

Popped(q) ==
    LET len == q.lenList[ElementToBePopped(q)] IN
    [q EXCEPT !.tail = (@ + len) % NBytes,
              !.queuedBytes = (@ - len) % Word16,
              !.queuedElements = @ - 1]

\* What the receiver is given for the frame popped from q: its descriptor. (The
\* pointer and the length that go with it are not followed.)
Delivery(q) == g_switchRecvDescriptorQueue[ElementToBePopped(q)]

-----------------------------------------------------------------------------
(* Operations *)

\* dispatchRecvSwitchFrame: straight to the handler, or into the queue if there
\* is room, or dropped.
HandOver(f) ==
    /\ gpf_switchRecvFrameHandler
    /\ delivered' = <<f>>
    /\ gpf_switchRecvFrameHandler' = (g_switchNFrames # 1)
    /\ g_switchNFrames' = IF g_switchNFrames > 0 THEN g_switchNFrames - 1 ELSE 0
    /\ UNCHANGED <<queue, g_switchRecvDescriptorQueue, memory>>

Enqueue(f) ==
    /\ ~gpf_switchRecvFrameHandler
    /\ HasRoom(queue, FrameLen[f])
    /\ queue' = Pushed(queue, FrameLen[f])
    /\ g_switchRecvDescriptorQueue' =
           [g_switchRecvDescriptorQueue EXCEPT ![NextElement(queue)] = f]
    /\ memory' = [b \in Byte |->
                     IF b \in PushedBytes(queue, FrameLen[f])
                     THEN <<f, (b - queue.head - 1) % NBytes>> ELSE memory[b]]
    /\ delivered' = <<>>
    /\ UNCHANGED <<gpf_switchRecvFrameHandler, g_switchNFrames>>

DropFrame(f) ==
    /\ ~gpf_switchRecvFrameHandler
    /\ ~HasRoom(queue, FrameLen[f])
    /\ delivered' = <<>>
    /\ UNCHANGED <<queue, g_switchRecvDescriptorQueue, memory,
                   gpf_switchRecvFrameHandler, g_switchNFrames>>

DispatchRecvSwitchFrame(f) == HandOver(f) \/ Enqueue(f) \/ DropFrame(f)

\* Mutant of RecvSwitchFrameLoop: 0 taken for "no frames" while popping.
RecvSwitchFrameLoopOfNone(n) ==
    LET after[k \in 0 .. NElements] ==
            IF k = 0 THEN queue ELSE Popped(after[k - 1])
        count == IF n > queue.queuedElements THEN queue.queuedElements ELSE n
    IN
    /\ queue' = after[count]
    /\ delivered' = [k \in 1 .. count |-> Delivery(after[k - 1])]
    /\ gpf_switchRecvFrameHandler' = ~(n > 0 /\ count = n)
    /\ g_switchNFrames' = IF n > 0 THEN n - count ELSE 0
    /\ UNCHANGED <<g_switchRecvDescriptorQueue, memory>>

\* recvSwitchFrameLoop: queued frames are popped and dispatched to the new
\* handler until it has all it asked for or none is left.
RecvSwitchFrameLoop(n) ==
    LET after[k \in 0 .. NElements] ==
            IF k = 0 THEN queue ELSE Popped(after[k - 1])
        count == IF n = 0 \/ n > queue.queuedElements
                 THEN queue.queuedElements ELSE n
    IN
    /\ queue' = after[count]
    /\ delivered' = [k \in 1 .. count |-> Delivery(after[k - 1])]
    /\ gpf_switchRecvFrameHandler' = ~(n > 0 /\ count = n)
    /\ g_switchNFrames' = IF n > 0 THEN n - count ELSE 0
    /\ UNCHANGED <<g_switchRecvDescriptorQueue, memory>>

\* recvSwitchFrameLoop with NULL for a handler: the handler is removed.
RemoveHandler(n) ==
    /\ gpf_switchRecvFrameHandler' = FALSE
    /\ g_switchNFrames' = n
    /\ delivered' = <<>>
    /\ UNCHANGED <<queue, g_switchRecvDescriptorQueue, memory>>

RecvSwitchFrame ==
    /\ IF queue.queuedElements > 0
       THEN /\ delivered' = <<Delivery(queue)>>
            /\ queue' = Popped(queue)
       ELSE /\ delivered' = <<>>
            /\ UNCHANGED queue
    /\ UNCHANGED <<g_switchRecvDescriptorQueue, memory,
                   gpf_switchRecvFrameHandler, g_switchNFrames>>

Dispatch == \E f \in Frame : DispatchRecvSwitchFrame(f)
Loop == \E n \in Requests : RecvSwitchFrameLoop(n)
Remove == \E n \in Requests : RemoveHandler(n)

Next == Dispatch \/ Loop \/ Remove \/ RecvSwitchFrame

Spec == Init /\ [][Next]_vars

-----------------------------------------------------------------------------
(* Properties *)

\* The element of the k-th oldest of the queued frames.
Queued(k) ==
    (queue.youngestElement - queue.queuedElements + k) % NElements

\* popFromQueue is to "pop oldest element in the queue" (line 836).
PopsOldest ==
    queue.queuedElements > 0 => ElementToBePopped(queue) = Queued(1)

\* The bytes of queued frames lie behind one another from tail to head, are
\* accounted for in queuedBytes, and none has been overwritten: pushes and pops
\* of different lengths never let two frames share a byte, wherever the ring
\* wraps.
MemoryIntact ==
    LET start[k \in 1 .. NElements + 1] ==
            IF k = 1 THEN 0 ELSE start[k - 1] + queue.lenList[Queued(k - 1)]
    IN
    /\ queue.queuedBytes = start[queue.queuedElements + 1]
    /\ queue.queuedBytes <= NBytes
    /\ queue.head = (queue.tail + queue.queuedBytes - 1) % NBytes
    /\ \A k \in 1 .. queue.queuedElements :
           LET f == g_switchRecvDescriptorQueue[Queued(k)] IN
           /\ queue.lenList[Queued(k)] = FrameLen[f]
           /\ \A i \in 0 .. FrameLen[f] - 1 :
                  memory[(queue.tail + start[k] + i) % NBytes] = <<f, i>>

\* While a handler listens nothing waits in the queue, so a frame dispatched to
\* it directly never overtakes one that arrived earlier.
ListenerLeavesNothingQueued ==
    gpf_switchRecvFrameHandler => queue.queuedElements = 0

\* The ring implements an ordinary queue.
Service == INSTANCE RecvService WITH
    MaxFrames <- NElements,
    waiting <- [k \in 1 .. queue.queuedElements |->
                   g_switchRecvDescriptorQueue[Queued(k)]],
    listener <- gpf_switchRecvFrameHandler,
    budget <- g_switchNFrames

ImplementsRecvService == Service!Spec
=============================================================================
