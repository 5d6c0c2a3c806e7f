---------------------------- MODULE RecvIfProofs ----------------------------
(***************************************************************************)
(* Proofs about a receive queue, for every number of elements and bytes    *)
(* and every set of frames of every length.                                *)
(***************************************************************************)
EXTENDS RecvIf, WellFoundedInduction, TLAPS

Queue == [tail : Byte, head : Byte, queuedBytes : 0 .. Word16 - 1,
          youngestElement : Element, queuedElements : 0 .. NElements,
          lenList : [Element -> 0 .. Word16 - 1]]

-----------------------------------------------------------------------------
(* Numbers *)

Less == {ss \in Nat \X Nat : ss[1] < ss[2]}

\* Every set of numbers that has an element has a least one.
LEMMA LeastElement ==
    ASSUME NEW S \in SUBSET Nat, S # {}
    PROVE  \E x \in S : \A y \in S : x <= y
<1>1. IsWellFoundedOn(Less, Nat)
  BY NatLessThanWellFounded DEF OpToRel, Less
<1>2. PICK x \in S : \A y \in S : ~(<<y, x>> \in Less)
  BY <1>1, WFMin
<1>3. ASSUME NEW y \in S PROVE x <= y
  <2>1. <<y, x>> \in Nat \X Nat /\ <<y, x>>[1] = y /\ <<y, x>>[2] = x
    OBVIOUS
  <2>2. y < x => <<y, x>> \in Less
    BY <2>1 DEF Less
  <2>3. x \in Nat /\ y \in Nat
    OBVIOUS
  <2>. QED
    BY <1>2, <2>2, <2>3
<1>. QED
  BY <1>3

\* A remainder as a ring of n places uses it: at most one round off.
Wrap(x, n) == IF x < 0 THEN x + n ELSE IF x >= n THEN x - n ELSE x

LEMMA Remainder ==
    ASSUME NEW n \in Nat \ {0}, NEW x \in Int, -n <= x, x < 2 * n
    PROVE  x % n = Wrap(x, n) /\ Wrap(x, n) \in 0 .. n - 1
<1>1. CASE x < 0
  <2>1. x % n = x + n
    BY <1>1
  <2>. QED
    BY <1>1, <2>1 DEF Wrap
<1>2. CASE 0 <= x /\ x < n
  <2>1. x % n = x
    BY <1>2
  <2>. QED
    BY <1>2, <2>1 DEF Wrap
<1>3. CASE n <= x
  <2>1. x % n = x - n
    BY <1>3
  <2>. QED
    BY <1>3, <2>1 DEF Wrap
<1>. QED
  BY <1>1, <1>2, <1>3

LEMMA RemainderRange ==
    ASSUME NEW n \in Nat \ {0}, NEW x \in Int
    PROVE  x % n \in 0 .. n - 1
OBVIOUS

-----------------------------------------------------------------------------
(* Types *)

LEMMA Words ==
    /\ Word8 \in Nat /\ 3 <= Word8
    /\ Word16 \in Nat \ {0} /\ Word8 <= Word16
BY SMT DEF Word8, Word16

LEMMA Sizes ==
    /\ NElements \in Nat \ {0} /\ NElements <= Word8 - 2
    /\ NBytes \in Nat \ {0} /\ NBytes <= Word16 - 1
    /\ \A f \in Frame : FrameLen[f] \in Nat \ {0} /\ FrameLen[f] <= Word16 - 1
    /\ Requests \subseteq 0 .. Word8 - 1 /\ NoFrame \notin Frame
BY QueueAssumption, Words

LEMMA QueueParts ==
    ASSUME NEW q \in Queue
    PROVE  /\ q.tail \in 0 .. NBytes - 1 /\ q.head \in 0 .. NBytes - 1
           /\ q.queuedBytes \in 0 .. Word16 - 1
           /\ q.youngestElement \in 0 .. NElements - 1
           /\ q.queuedElements \in 0 .. NElements
           /\ q.lenList \in [Element -> 0 .. Word16 - 1]
BY DEF Queue, Element, Byte

LEMMA ResidueRange == WrapResidue \in 0 .. NElements - 1
<1>1. Word16 % NElements \in Int
  BY Sizes, Words, RemainderRange
<1>2. (Word16 % NElements) * (Word16 % NElements) \in Int
  BY <1>1
<1>. QED
  BY <1>2, Sizes, RemainderRange DEF WrapResidue

\* The element that is popped exists, whatever the arithmetic makes of it.
LEMMA PoppedElement ==
    ASSUME NEW q \in Queue
    PROVE  ElementToBePopped(q) \in Element
<1>1. WrapResidue \in 0 .. NElements - 1
  BY ResidueRange
<1>2. PICK x \in Int : x = q.youngestElement - q.queuedElements + 1
  BY QueueParts, Sizes
<1>3. x % NElements \in 0 .. NElements - 1
  BY <1>2, Sizes, RemainderRange
<1>4. (WrapResidue + x) % NElements \in 0 .. NElements - 1
  <2>1. WrapResidue + x \in Int
    BY <1>1, <1>2, Sizes
  <2>. QED
    BY <2>1, Sizes, RemainderRange
<1>. QED
  BY <1>2, <1>3, <1>4 DEF ElementToBePopped, Element

LEMMA PoppedTyped ==
    ASSUME NEW q \in Queue, q.queuedElements > 0
    PROVE  /\ Popped(q) \in Queue
           /\ Popped(q).queuedElements = q.queuedElements - 1
           /\ Popped(q).youngestElement = q.youngestElement
           /\ Popped(q).lenList = q.lenList
           /\ Popped(q).head = q.head
           /\ Popped(q).tail = (q.tail + q.lenList[ElementToBePopped(q)]) % NBytes
           /\ Popped(q).queuedBytes =
                  (q.queuedBytes - q.lenList[ElementToBePopped(q)]) % Word16
<1>1. PICK len : len = q.lenList[ElementToBePopped(q)]
  OBVIOUS
<1>2. len \in 0 .. Word16 - 1
  BY <1>1, PoppedElement, QueueParts
<1>3. PICK t : t = (q.tail + len) % NBytes
  OBVIOUS
<1>4. t \in Byte
  <2>1. PICK x \in Int : x = q.tail + len
    BY <1>2, Words, Sizes, QueueParts
  <2>2. x % NBytes \in 0 .. NBytes - 1
    BY <2>1, Sizes, Words, RemainderRange
  <2>. QED
    BY <2>1, <2>2, <1>3 DEF Byte
<1>5. PICK b : b = (q.queuedBytes - len) % Word16
  OBVIOUS
<1>6. b \in 0 .. Word16 - 1
  <2>1. PICK x \in Int : x = q.queuedBytes - len
    BY <1>2, Words, QueueParts
  <2>2. x % Word16 \in 0 .. Word16 - 1
    BY <2>1, Sizes, Words, RemainderRange
  <2>. QED
    BY <2>1, <2>2, <1>5
<1>7. q.queuedElements - 1 \in 0 .. NElements
  BY QueueParts, Sizes
<1>8. Popped(q) = [q EXCEPT !.tail = t, !.queuedBytes = b,
                            !.queuedElements = q.queuedElements - 1]
  BY <1>1, <1>3, <1>5 DEF Popped, Queue
<1>. QED
  BY <1>1, <1>3, <1>4, <1>5, <1>6, <1>7, <1>8 DEF Queue

LEMMA PushedTyped ==
    ASSUME NEW q \in Queue, NEW len \in Nat \ {0}, len <= Word16 - 1,
           q.queuedElements < NElements
    PROVE  /\ Pushed(q, len) \in Queue
           /\ NextElement(q) \in Element
           /\ Pushed(q, len).queuedElements = q.queuedElements + 1
           /\ Pushed(q, len).youngestElement = NextElement(q)
           /\ Pushed(q, len).lenList = [q.lenList EXCEPT ![NextElement(q)] = len]
           /\ Pushed(q, len).head = (q.head + len) % NBytes
           /\ Pushed(q, len).tail = q.tail
           /\ Pushed(q, len).queuedBytes = (q.queuedBytes + len) % Word16
<1>1. NextElement(q) \in Element
  <2>1. PICK x \in Int : x = q.youngestElement + 1
    BY Sizes, QueueParts
  <2>2. x % NElements \in 0 .. NElements - 1
    BY <2>1, Sizes, Words, RemainderRange
  <2>. QED
    BY <2>1, <2>2 DEF NextElement, Element
<1>2. PICK h : h = (q.head + len) % NBytes
  OBVIOUS
<1>3. h \in Byte
  <2>1. PICK x \in Int : x = q.head + len
    BY Sizes, QueueParts
  <2>2. x % NBytes \in 0 .. NBytes - 1
    BY <2>1, Sizes, Words, RemainderRange
  <2>. QED
    BY <2>1, <2>2, <1>2 DEF Byte
<1>4. PICK b : b = (q.queuedBytes + len) % Word16
  OBVIOUS
<1>5. b \in 0 .. Word16 - 1
  <2>1. PICK x \in Int : x = q.queuedBytes + len
    BY Words, QueueParts
  <2>2. x % Word16 \in 0 .. Word16 - 1
    BY <2>1, Sizes, Words, RemainderRange
  <2>. QED
    BY <2>1, <2>2, <1>4
<1>6. q.queuedElements + 1 \in 0 .. NElements
  BY QueueParts, Sizes
<1>7. PICK l : l = [q.lenList EXCEPT ![NextElement(q)] = len]
  OBVIOUS
<1>8. l \in [Element -> 0 .. Word16 - 1]
  BY <1>1, <1>7, QueueParts, Words
<1>9. Pushed(q, len) =
        [q EXCEPT !.head = h, !.queuedBytes = b, !.lenList = l,
                  !.youngestElement = NextElement(q),
                  !.queuedElements = q.queuedElements + 1]
  BY <1>2, <1>4, <1>7 DEF Pushed, Queue
<1>. QED
  BY <1>1, <1>2, <1>3, <1>4, <1>5, <1>6, <1>7, <1>8, <1>9 DEF Queue

-----------------------------------------------------------------------------
(* Pops in a row *)

PopsInRow(q, n, g) ==
    g = [k \in 0 .. n |-> IF k = 0 THEN q ELSE Popped(g[k - 1])]

AfterPops(q) ==
    CHOOSE g : g = [k \in 0 .. NElements |-> IF k = 0 THEN q ELSE Popped(g[k - 1])]

LEMMA PopsExist ==
    ASSUME NEW q, NEW m \in Nat
    PROVE  \E g : PopsInRow(q, m, g)
<1>. DEFINE Bad == {n \in Nat : ~\E g : PopsInRow(q, n, g)}
<1>. SUFFICES Bad = {}
  OBVIOUS
<1>. SUFFICES ASSUME Bad # {} PROVE FALSE
  OBVIOUS
<1>1. PICK n \in Bad : \A y \in Bad : n <= y
  BY LeastElement
<1>2. CASE n = 0
  <2>1. PopsInRow(q, 0, [k \in 0 .. 0 |-> q])
    BY DEF PopsInRow
  <2>. QED
    BY <1>1, <1>2, <2>1
<1>3. CASE n # 0
  <2>1. n - 1 \in Nat /\ n - 1 \notin Bad
    BY <1>1, <1>3
  <2>2. PICK g : PopsInRow(q, n - 1, g)
    BY <2>1
  <2>3. PICK p : p = Popped(g[n - 1])
    OBVIOUS
  <2>4. PICK h : h = [k \in 0 .. n |-> IF k = n THEN p ELSE g[k]]
    OBVIOUS
  <2>5. \A k \in 0 .. n : h[k] = IF k = 0 THEN q ELSE Popped(h[k - 1])
    <3>. TAKE k \in 0 .. n
    <3>1. CASE k = n
      BY <1>1, <1>3, <2>3, <2>4, <3>1
    <3>2. CASE k # n /\ k # 0
      <4>1. k \in 0 .. n - 1 /\ k - 1 \in 0 .. n - 1 /\ k - 1 # n
        BY <1>1, <3>2
      <4>2. g[k] = Popped(g[k - 1])
        BY <2>2, <3>2, <4>1 DEF PopsInRow
      <4>3. h[k] = g[k] /\ h[k - 1] = g[k - 1]
        BY <1>1, <2>4, <3>2, <4>1
      <4>. QED
        BY <3>2, <4>2, <4>3
    <3>3. CASE k # n /\ k = 0
      <4>1. 0 \in 0 .. n - 1
        BY <1>1, <1>3
      <4>2. g[0] = q
        BY <2>2, <4>1 DEF PopsInRow
      <4>. QED
        BY <1>1, <2>4, <3>3, <4>2
    <3>. QED
      BY <3>1, <3>2, <3>3
  <2>6. PopsInRow(q, n, h)
    <3>1. h = [k \in 0 .. n |-> h[k]]
      BY <2>4
    <3>. QED
      BY <2>5, <3>1 DEF PopsInRow
  <2>. QED
    BY <1>1, <2>6
<1>. QED
  BY <1>2, <1>3

LEMMA AfterPopsSteps ==
    ASSUME NEW q
    PROVE  /\ AfterPops(q)[0] = q
           /\ \A k \in 1 .. NElements :
                  AfterPops(q)[k] = Popped(AfterPops(q)[k - 1])
<1>1. \E g : PopsInRow(q, NElements, g)
  BY Sizes, PopsExist
<1>2. PopsInRow(q, NElements, AfterPops(q))
  BY <1>1, Zenon DEF PopsInRow, AfterPops
<1>3. PICK g : g = AfterPops(q)
  OBVIOUS
<1>4. \A k \in 0 .. NElements : g[k] = IF k = 0 THEN q ELSE Popped(g[k - 1])
  BY <1>2, <1>3 DEF PopsInRow
<1>5. \A k \in 1 .. NElements : k \in 0 .. NElements /\ k # 0
  BY Sizes
<1>6. 0 \in 0 .. NElements
  BY Sizes
<1>. QED
  BY <1>3, <1>4, <1>5, <1>6

\* Pops take frames off one end only.
LEMMA PopsTyped ==
    ASSUME NEW q \in Queue, NEW m \in 0 .. q.queuedElements
    PROVE  /\ AfterPops(q)[m] \in Queue
           /\ AfterPops(q)[m].queuedElements = q.queuedElements - m
           /\ AfterPops(q)[m].youngestElement = q.youngestElement
           /\ AfterPops(q)[m].lenList = q.lenList
<1>. DEFINE Good(k) ==
       /\ AfterPops(q)[k] \in Queue
       /\ AfterPops(q)[k].queuedElements = q.queuedElements - k
       /\ AfterPops(q)[k].youngestElement = q.youngestElement
       /\ AfterPops(q)[k].lenList = q.lenList
<1>. DEFINE Bad == {k \in 0 .. q.queuedElements : ~Good(k)}
<1>. SUFFICES Bad = {}
  OBVIOUS
<1>. SUFFICES ASSUME Bad # {} PROVE FALSE
  OBVIOUS
<1>1. PICK e \in Nat : e = q.queuedElements /\ e <= NElements
  BY QueueParts, Sizes
<1>2. Bad \in SUBSET Nat
  BY <1>1
<1>3. PICK k \in Bad : \A y \in Bad : k <= y
  BY <1>2, LeastElement
<1>4. k \in 0 .. e /\ ~Good(k)
  BY <1>1, <1>3
<1>5. CASE k = 0
  BY <1>1, <1>4, <1>5, AfterPopsSteps
<1>6. CASE k # 0
  <2>1. k - 1 \in 0 .. e /\ k \in 1 .. NElements /\ ~(k <= k - 1)
    BY <1>1, <1>4, <1>6, Sizes
  <2>2. Good(k - 1)
    BY <1>1, <1>3, <2>1
  <2>3. PICK r : r = AfterPops(q)[k - 1]
    OBVIOUS
  <2>4. AfterPops(q)[k] = Popped(r)
    BY <2>1, <2>3, AfterPopsSteps
  <2>5. r \in Queue /\ r.queuedElements = e - (k - 1)
        /\ r.youngestElement = q.youngestElement /\ r.lenList = q.lenList
    BY <1>1, <2>2, <2>3
  <2>6. r.queuedElements > 0 /\ r.queuedElements - 1 = e - k
    BY <1>4, <2>5, <1>1
  <2>7. Good(k)
    BY <1>1, <2>4, <2>5, <2>6, PoppedTyped
  <2>. QED
    BY <1>4, <2>7
<1>. QED
  BY <1>5, <1>6

\* recvSwitchFrameLoop pops so many frames.
Count(q, n) ==
    IF n = 0 \/ n > q.queuedElements THEN q.queuedElements ELSE n

LEMMA CountBounds ==
    ASSUME NEW q \in Queue, NEW n \in Nat
    PROVE  Count(q, n) \in 0 .. q.queuedElements /\ (n > 0 => Count(q, n) <= n)
BY QueueParts, Sizes DEF Count

LEMMA LoopSteps ==
    ASSUME NEW n, RecvSwitchFrameLoop(n)
    PROVE  /\ queue' = AfterPops(queue)[Count(queue, n)]
           /\ delivered' = [k \in 1 .. Count(queue, n) |->
                                Delivery(AfterPops(queue)[k - 1])]
           /\ gpf_switchRecvFrameHandler' = ~(n > 0 /\ Count(queue, n) = n)
           /\ g_switchNFrames' = IF n > 0 THEN n - Count(queue, n) ELSE 0
           /\ UNCHANGED <<g_switchRecvDescriptorQueue, memory>>
BY Zenon DEF RecvSwitchFrameLoop, AfterPops, Count

-----------------------------------------------------------------------------
(* Types and listeners *)

MemoryTyped(m) == \A b \in Byte : m[b] = NoFrame \/ m[b][1] \in Frame

LEMMA TypeMeans ==
    TypeOK <=> /\ queue \in Queue
               /\ g_switchRecvDescriptorQueue \in [Element -> Frame \cup {NoFrame}]
               /\ MemoryTyped(memory)
               /\ gpf_switchRecvFrameHandler \in BOOLEAN
               /\ g_switchNFrames \in 0 .. Word8 - 1
BY Zenon DEF TypeOK, Queue, MemoryTyped

TypeInv == TypeOK /\ ListenerLeavesNothingQueued

LEMMA TypedAtStart == Init => TypeInv
<1>. SUFFICES ASSUME Init PROVE TypeInv
  OBVIOUS
<1>1. NBytes - 1 \in Byte /\ 0 \in Byte /\ NElements - 1 \in Element
  BY Sizes DEF Byte, Element
<1>2. 0 \in 0 .. Word16 - 1 /\ 0 \in 0 .. Word8 - 1 /\ 0 \in 0 .. NElements
  BY Sizes, Words
<1>3. queue \in Queue
  BY <1>1, <1>2 DEF Init, Queue
<1>. QED
  BY <1>2, <1>3, TypeMeans DEF Init, TypeInv, MemoryTyped, ListenerLeavesNothingQueued

LEMMA EnqueueTyped ==
    ASSUME TypeInv, NEW f \in Frame, Enqueue(f)
    PROVE  TypeInv'
<1>0. TypeOK
  BY DEF TypeInv
<1>1. PICK len : len = FrameLen[f]
  OBVIOUS
<1>2. len \in Nat \ {0} /\ len <= Word16 - 1
  BY <1>1, Sizes
<1>3. queue \in Queue /\ queue.queuedElements < NElements /\ queue' = Pushed(queue, len)
  BY <1>0, <1>1, TypeMeans DEF Enqueue, HasRoom
<1>4. queue' \in Queue /\ NextElement(queue) \in Element
  BY <1>2, <1>3, PushedTyped
<1>5. g_switchRecvDescriptorQueue' \in [Element -> Frame \cup {NoFrame}]
  BY <1>0, <1>4, TypeMeans DEF Enqueue
<1>6. MemoryTyped(memory)'
  <2>1. PICK r : r = [b \in Byte |-> (b - queue.head - 1) % NBytes]
    OBVIOUS
  <2>2. \A b \in Byte : memory'[b] = <<f, r[b]>> \/ memory'[b] = memory[b]
    BY <2>1 DEF Enqueue
  <2>3. \A b \in Byte : <<f, r[b]>>[1] = f
    OBVIOUS
  <2>4. MemoryTyped(memory)
    BY <1>0, TypeMeans
  <2>. QED
    BY <2>2, <2>3, <2>4 DEF MemoryTyped
<1>7. UNCHANGED <<gpf_switchRecvFrameHandler, g_switchNFrames>>
      /\ ~gpf_switchRecvFrameHandler
  BY DEF Enqueue
<1>8. /\ gpf_switchRecvFrameHandler \in BOOLEAN
      /\ g_switchNFrames \in 0 .. Word8 - 1
  BY <1>0, TypeMeans
<1>9. /\ gpf_switchRecvFrameHandler' \in BOOLEAN
      /\ g_switchNFrames' \in 0 .. Word8 - 1
  BY <1>7, <1>8
<1>10. TypeOK'
  <2>1. (TypeOK <=> /\ queue \in Queue
                    /\ g_switchRecvDescriptorQueue \in [Element -> Frame \cup {NoFrame}]
                    /\ MemoryTyped(memory)
                    /\ gpf_switchRecvFrameHandler \in BOOLEAN
                    /\ g_switchNFrames \in 0 .. Word8 - 1)'
    BY TypeMeans, PTL
  <2>. QED
    BY <1>4, <1>5, <1>6, <1>9, <2>1
<1>. QED
  BY <1>7, <1>10 DEF TypeInv, ListenerLeavesNothingQueued

\* The steps that leave the memory and its descriptors alone.
LEMMA OthersTyped ==
    ASSUME TypeOK, queue' \in Queue,
           UNCHANGED <<g_switchRecvDescriptorQueue, memory>>,
           gpf_switchRecvFrameHandler' \in BOOLEAN,
           g_switchNFrames' \in 0 .. Word8 - 1
    PROVE  TypeOK'
<1>1. (TypeOK <=> /\ queue \in Queue
                  /\ g_switchRecvDescriptorQueue \in [Element -> Frame \cup {NoFrame}]
                  /\ MemoryTyped(memory)
                  /\ gpf_switchRecvFrameHandler \in BOOLEAN
                  /\ g_switchNFrames \in 0 .. Word8 - 1)'
  BY TypeMeans, PTL
<1>2. /\ g_switchRecvDescriptorQueue \in [Element -> Frame \cup {NoFrame}]
      /\ MemoryTyped(memory)
  BY TypeMeans
<1>3. /\ g_switchRecvDescriptorQueue' \in [Element -> Frame \cup {NoFrame}]
      /\ MemoryTyped(memory)'
  BY <1>2 DEF MemoryTyped
<1>. QED
  BY <1>1, <1>3

LEMMA LoopTyped ==
    ASSUME TypeInv, NEW n \in Requests, RecvSwitchFrameLoop(n)
    PROVE  TypeInv' /\ queue' = AfterPops(queue)[Count(queue, n)]
<1>0. TypeOK /\ queue \in Queue
  BY TypeMeans DEF TypeInv
<1>1. n \in Nat /\ n <= Word8 - 1
  BY Sizes, Words
<1>2. PICK c : c = Count(queue, n)
  OBVIOUS
<1>3. c \in 0 .. queue.queuedElements /\ (n > 0 => c <= n)
  BY <1>0, <1>1, <1>2, CountBounds
<1>4. PICK e : e = queue.queuedElements /\ e \in 0 .. NElements
  BY <1>0, QueueParts
<1>5. /\ queue' = AfterPops(queue)[c]
      /\ gpf_switchRecvFrameHandler' = ~(n > 0 /\ c = n)
      /\ g_switchNFrames' = IF n > 0 THEN n - c ELSE 0
      /\ UNCHANGED <<g_switchRecvDescriptorQueue, memory>>
  BY <1>2, LoopSteps
<1>6. queue' \in Queue /\ queue'.queuedElements = e - c
  BY <1>0, <1>3, <1>4, <1>5, PopsTyped
<1>7. g_switchNFrames' \in 0 .. Word8 - 1
  BY <1>1, <1>3, <1>4, <1>5, Sizes, Words
<1>8. TypeOK'
  BY <1>0, <1>5, <1>6, <1>7, OthersTyped
<1>9. gpf_switchRecvFrameHandler' => e - c = 0
  <2>1. c = e \/ (n > 0 /\ c = n)
    BY <1>1, <1>2, <1>4 DEF Count
  <2>2. gpf_switchRecvFrameHandler' => ~(n > 0 /\ c = n)
    BY <1>5
  <2>3. c = e => e - c = 0
    BY <1>4, Sizes
  <2>. QED
    BY <2>1, <2>2, <2>3
<1>. QED
  BY <1>2, <1>5, <1>6, <1>8, <1>9 DEF TypeInv, ListenerLeavesNothingQueued

LEMMA OthersKeepTypes ==
    ASSUME TypeInv,
           \/ \E f \in Frame : HandOver(f) \/ DropFrame(f)
           \/ Remove
           \/ RecvSwitchFrame
           \/ UNCHANGED vars
    PROVE  TypeInv'
<1>0. /\ TypeOK /\ queue \in Queue /\ gpf_switchRecvFrameHandler \in BOOLEAN
      /\ g_switchNFrames \in 0 .. Word8 - 1 /\ ListenerLeavesNothingQueued
  BY TypeMeans DEF TypeInv
<1>1. ASSUME NEW f \in Frame, HandOver(f) PROVE TypeInv'
  <2>1. /\ gpf_switchRecvFrameHandler
        /\ gpf_switchRecvFrameHandler' \in BOOLEAN
        /\ UNCHANGED <<queue, g_switchRecvDescriptorQueue, memory>>
        /\ g_switchNFrames' = IF g_switchNFrames > 0 THEN g_switchNFrames - 1 ELSE 0
    BY <1>1 DEF HandOver
  <2>2. g_switchNFrames' \in 0 .. Word8 - 1
    BY <1>0, <2>1, Words
  <2>. QED
    BY <1>0, <2>1, <2>2, OthersTyped DEF TypeInv, ListenerLeavesNothingQueued
<1>2. ASSUME NEW f \in Frame, DropFrame(f) PROVE TypeInv'
  BY <1>0, <1>2, OthersTyped DEF DropFrame, TypeInv, ListenerLeavesNothingQueued
<1>3. CASE Remove
  <2>1. PICK n \in Requests : RemoveHandler(n)
    BY <1>3 DEF Remove
  <2>2. n \in 0 .. Word8 - 1
    BY Sizes
  <2>. QED
    BY <1>0, <2>1, <2>2, OthersTyped DEF RemoveHandler, TypeInv, ListenerLeavesNothingQueued
<1>4. CASE RecvSwitchFrame
  <2>1. /\ IF queue.queuedElements > 0 THEN queue' = Popped(queue) ELSE UNCHANGED queue
        /\ UNCHANGED <<g_switchRecvDescriptorQueue, memory,
                       gpf_switchRecvFrameHandler, g_switchNFrames>>
    BY <1>4 DEF RecvSwitchFrame
  <2>2. queue' \in Queue
    BY <1>0, <2>1, PoppedTyped
  <2>3. TypeOK'
    BY <1>0, <2>1, <2>2, OthersTyped
  <2>4. queue.queuedElements = 0 => queue' = queue
    BY <2>1
  <2>. QED
    BY <1>0, <2>1, <2>3, <2>4 DEF TypeInv, ListenerLeavesNothingQueued
<1>5. CASE UNCHANGED vars
  BY <1>0, <1>5, OthersTyped DEF vars, TypeInv, ListenerLeavesNothingQueued
<1>. QED
  BY <1>1, <1>2, <1>3, <1>4, <1>5

LEMMA TypesKept == TypeInv /\ [Next]_vars => TypeInv'
<1>. SUFFICES ASSUME TypeInv, [Next]_vars PROVE TypeInv'
  OBVIOUS
<1>1. CASE Dispatch
  <2>1. PICK f \in Frame : HandOver(f) \/ Enqueue(f) \/ DropFrame(f)
    BY <1>1 DEF Dispatch, DispatchRecvSwitchFrame
  <2>. QED
    BY <2>1, EnqueueTyped, OthersKeepTypes
<1>2. CASE Loop
  BY <1>2, LoopTyped DEF Loop
<1>. QED
  BY <1>1, <1>2, OthersKeepTypes DEF Next

\* The counters stay in their types and every element that is used exists,
\* whatever the number of elements: pushing and popping keep to the arrays.
THEOREM QueueTypeCorrect == Spec => []TypeOK
<1>1. TypeInv => TypeOK
  BY DEF TypeInv
<1>. QED
  BY <1>1, TypedAtStart, TypesKept, PTL DEF Spec

\* While a handler listens nothing waits in the queue, so that a frame handed
\* to it at once never overtakes one that arrived before it.
THEOREM NothingWaitsForListener == Spec => []ListenerLeavesNothingQueued
<1>1. TypeInv => ListenerLeavesNothingQueued
  BY DEF TypeInv
<1>. QED
  BY <1>1, TypedAtStart, TypesKept, PTL DEF Spec

-----------------------------------------------------------------------------
(* Places of queued frames *)

\* The element of the k-th oldest frame of q.
Place(q, k) == (q.youngestElement - q.queuedElements + k) % NElements

LEMMA QueuedPlace == \A k : Queued(k) = Place(queue, k)
BY Zenon DEF Queued, Place

LEMMA PlaceAt ==
    ASSUME NEW q \in Queue, NEW k \in 0 .. NElements
    PROVE  /\ Place(q, k) =
                  Wrap(q.youngestElement - q.queuedElements + k, NElements)
           /\ Place(q, k) \in Element
<1>1. PICK x \in Int : x = q.youngestElement - q.queuedElements + k
  BY QueueParts, Sizes
<1>2. -NElements <= x /\ x < 2 * NElements
  BY <1>1, QueueParts, Sizes
<1>3. x % NElements = Wrap(x, NElements) /\ Wrap(x, NElements) \in 0 .. NElements - 1
  BY <1>2, Sizes, Remainder
<1>. QED
  BY <1>1, <1>3 DEF Place, Element

\* Different frames have different elements.
LEMMA PlacesDiffer ==
    ASSUME NEW q \in Queue, NEW j \in 1 .. NElements, NEW k \in 1 .. NElements, j # k
    PROVE  Place(q, j) # Place(q, k)
BY PlaceAt, QueueParts, Sizes DEF Wrap

\* A pop from q takes its oldest frame: PopsOldest, of any queue.
TakesOldest(q) == q.queuedElements > 0 => ElementToBePopped(q) = Place(q, 1)

\* PopsOldest says so of the queue of the interface.
LEMMA PopsOldestMeans == PopsOldest => TakesOldest(queue)
BY QueuedPlace, Zenon DEF PopsOldest, TakesOldest

\* The oldest frame is taken as long as the difference of the indices has not
\* become negative, or 2^32 is a multiple of the number of elements; and
\* otherwise another frame is.
LEMMA OldestTaken ==
    ASSUME NEW q \in Queue, q.queuedElements > 0
    PROVE  TakesOldest(q) <=> \/ WrapResidue = 0
                              \/ q.youngestElement - q.queuedElements + 1 >= 0
<1>1. PICK x \in Int : x = q.youngestElement - q.queuedElements + 1
  BY QueueParts, Sizes
<1>2. x \in (1 - NElements) .. NElements - 1
  BY <1>1, QueueParts, Sizes
<1>3. PICK w \in 0 .. NElements - 1 : w = WrapResidue
  BY ResidueRange
<1>4. Place(q, 1) = x % NElements
  BY <1>1 DEF Place
<1>5. ElementToBePopped(q) = IF x >= 0 THEN x % NElements ELSE (w + x) % NElements
  BY <1>1, <1>3 DEF ElementToBePopped
<1>6. ASSUME x < 0
      PROVE  (w + x) % NElements = x % NElements <=> w = 0
  <2>1. w + x \in Int /\ -NElements <= w + x /\ w + x < 2 * NElements
    BY <1>2, <1>6, Sizes
  <2>2. -NElements <= x /\ x < 2 * NElements
    BY <1>2, <1>6, Sizes
  <2>3. x % NElements = Wrap(x, NElements) /\ (w + x) % NElements = Wrap(w + x, NElements)
    BY <2>1, <2>2, Sizes, Remainder
  <2>. QED
    BY <1>2, <1>6, <2>3, Sizes DEF Wrap
<1>. QED
  BY <1>1, <1>3, <1>4, <1>5, <1>6 DEF TakesOldest

LEMMA PlaceAfterPush ==
    ASSUME NEW q \in Queue, q.queuedElements < NElements,
           NEW r \in Queue,
           r.youngestElement = NextElement(q),
           r.queuedElements = q.queuedElements + 1
    PROVE  /\ \A k \in 1 .. NElements : Place(r, k) = Place(q, k)
           /\ Place(q, q.queuedElements + 1) = NextElement(q)
<1>1. PICK y \in Int, m \in Int : y = q.youngestElement /\ m = q.queuedElements
  BY QueueParts, Sizes
<1>2. y \in 0 .. NElements - 1 /\ m \in 0 .. NElements - 1
  BY <1>1, QueueParts, Sizes
<1>3. NextElement(q) = Wrap(y + 1, NElements)
  <2>1. -NElements <= y + 1 /\ y + 1 < 2 * NElements /\ y + 1 \in Int
    BY <1>2, Sizes
  <2>2. (y + 1) % NElements = Wrap(y + 1, NElements)
    BY <2>1, Sizes, Remainder
  <2>. QED
    BY <1>1, <2>2 DEF NextElement
<1>4. ASSUME NEW k \in 1 .. NElements
      PROVE  Place(r, k) = Place(q, k)
  <2>1. Place(r, k) = Wrap(Wrap(y + 1, NElements) - (m + 1) + k, NElements)
    BY <1>1, <1>3, PlaceAt
  <2>2. Place(q, k) = Wrap(y - m + k, NElements)
    BY <1>1, PlaceAt
  <2>. QED
    BY <1>2, <2>1, <2>2, Sizes DEF Wrap
<1>5. Place(q, m + 1) = NextElement(q)
  <2>1. m + 1 \in 0 .. NElements
    BY <1>2, Sizes
  <2>2. Place(q, m + 1) = Wrap((y - m) + (m + 1), NElements)
    BY <1>1, <2>1, PlaceAt
  <2>3. (y - m) + (m + 1) = y + 1
    BY <1>2
  <2>. QED
    BY <1>3, <2>2, <2>3
<1>. QED
  BY <1>1, <1>4, <1>5

LEMMA PlaceAfterPops ==
    ASSUME NEW q \in Queue, NEW r \in Queue, NEW c \in 0 .. q.queuedElements,
           r.youngestElement = q.youngestElement,
           r.queuedElements = q.queuedElements - c,
           NEW k \in Int
    PROVE  Place(r, k) = Place(q, c + k)
<1>1. PICK y \in Int, m \in Int : y = q.youngestElement /\ m = q.queuedElements
  BY QueueParts, Sizes
<1>2. y - (m - c) + k = (y - m) + (c + k)
  BY <1>1
<1>. QED
  BY <1>1, <1>2 DEF Place

\* Once the oldest frame is taken, so are those that follow it in a row.
LEMMA OldestInRow ==
    ASSUME NEW q \in Queue, TakesOldest(q), NEW c \in 0 .. q.queuedElements
    PROVE  TakesOldest(AfterPops(q)[c])
<1>1. PICK r : r = AfterPops(q)[c]
  OBVIOUS
<1>2. /\ r \in Queue /\ r.queuedElements = q.queuedElements - c
      /\ r.youngestElement = q.youngestElement
  BY <1>1, PopsTyped
<1>3. PICK x \in Int, e \in Nat : /\ x = q.youngestElement - q.queuedElements + 1
                                 /\ e = q.queuedElements
  BY QueueParts, Sizes
<1>4. r.youngestElement - r.queuedElements + 1 = x + c
  BY <1>2, <1>3, QueueParts, Sizes
<1>5. CASE r.queuedElements > 0
  <2>1. q.queuedElements > 0
    BY <1>2, <1>3, <1>5
  <2>2. WrapResidue = 0 \/ x >= 0
    BY <1>3, <2>1, OldestTaken
  <2>3. WrapResidue = 0 \/ x + c >= 0
    BY <1>3, <2>2
  <2>. QED
    BY <1>1, <1>2, <1>4, <1>5, <2>3, OldestTaken
<1>6. CASE ~(r.queuedElements > 0)
  BY <1>1, <1>6 DEF TakesOldest
<1>. QED
  BY <1>5, <1>6

-----------------------------------------------------------------------------
(* Where frames start *)

\* s[k] bytes are queued before the k-th oldest frame of q.
IsStart(s, q) ==
    /\ s \in [1 .. NElements + 1 -> Nat]
    /\ s[1] = 0
    /\ \A k \in 1 .. NElements : s[k + 1] = s[k] + q.lenList[Place(q, k)]

LEMMA LengthsQueued ==
    ASSUME NEW q \in Queue, NEW k \in 1 .. NElements
    PROVE  q.lenList[Place(q, k)] \in Nat
BY PlaceAt, QueueParts, Words, Sizes

SumsUpTo(q, n, s) ==
    /\ s \in [1 .. n + 1 -> Nat]
    /\ s[1] = 0
    /\ \A k \in 1 .. n : s[k + 1] = s[k] + q.lenList[Place(q, k)]

LEMMA StartExists ==
    ASSUME NEW q \in Queue
    PROVE  \E s : IsStart(s, q)
<1>. DEFINE Bad == {n \in 0 .. NElements : ~\E s : SumsUpTo(q, n, s)}
<1>1. ASSUME Bad # {} PROVE FALSE
  <2>1. Bad \in SUBSET Nat
    BY Sizes
  <2>2. PICK n \in Bad : \A y \in Bad : n <= y
    BY <1>1, <2>1, LeastElement
  <2>3. n \in 0 .. NElements /\ ~\E s : SumsUpTo(q, n, s)
    BY <2>2
  <2>4. CASE n = 0
    <3>1. SumsUpTo(q, 0, [k \in 1 .. 0 + 1 |-> 0])
      BY DEF SumsUpTo
    <3>. QED
      BY <2>3, <2>4, <3>1
  <2>5. CASE n # 0
    <3>1. n - 1 \in 0 .. NElements /\ ~(n <= n - 1) /\ n \in 1 .. NElements
      BY <2>3, <2>5, Sizes
    <3>2. PICK s : SumsUpTo(q, n - 1, s)
      BY <2>2, <3>1
    <3>3. PICK len \in Nat : len = q.lenList[Place(q, n)]
      BY <3>1, LengthsQueued
    <3>4. s \in [1 .. n -> Nat]
      BY <2>3, <3>2 DEF SumsUpTo
    <3>5. PICK t : t = [k \in 1 .. n + 1 |-> IF k = n + 1 THEN s[n] + len ELSE s[k]]
      OBVIOUS
    <3>6. t \in [1 .. n + 1 -> Nat] /\ t[1] = 0
      <4>1. 1 \in 1 .. n + 1 /\ 1 # n + 1 /\ s[1] = 0
        BY <3>1, <3>2, Sizes DEF SumsUpTo
      <4>2. t[1] = 0
        BY <3>5, <4>1
      <4>3. s[n] + len \in Nat
        BY <3>1, <3>3, <3>4
      <4>4. \A k \in 1 .. n + 1 : k # n + 1 => s[k] \in Nat
        BY <3>1, <3>4
      <4>. QED
        BY <3>5, <4>2, <4>3, <4>4
    <3>7. ASSUME NEW k \in 1 .. n
          PROVE  t[k + 1] = t[k] + q.lenList[Place(q, k)]
      <4>1. k \in 1 .. n + 1 /\ k + 1 \in 1 .. n + 1 /\ k # n + 1
        BY <3>1
      <4>2. t[k] = s[k]
        BY <3>5, <4>1
      <4>3. CASE k = n
        BY <3>3, <3>5, <4>1, <4>2, <4>3
      <4>4. CASE k # n
        <5>1. k \in 1 .. n - 1 /\ k + 1 # n + 1
          BY <3>1, <4>4
        <5>2. s[k + 1] = s[k] + q.lenList[Place(q, k)]
          BY <3>2, <5>1 DEF SumsUpTo
        <5>3. t[k + 1] = s[k + 1]
          BY <3>5, <4>1, <5>1
        <5>. QED
          BY <4>2, <5>2, <5>3
      <4>. QED
        BY <4>3, <4>4
    <3>8. SumsUpTo(q, n, t)
      BY <3>6, <3>7 DEF SumsUpTo
    <3>. QED
      BY <2>3, <3>8
  <2>. QED
    BY <2>4, <2>5
<1>2. NElements \in 0 .. NElements /\ NElements \notin Bad
  BY <1>1, Sizes
<1>. QED
  BY <1>2, Zenon DEF SumsUpTo, IsStart

\* Frames of equal lengths start at the same places.
LEMMA StartsAgree ==
    ASSUME NEW q \in Queue, NEW r \in Queue, NEW s, NEW t,
           IsStart(s, q), IsStart(t, r), NEW c \in 0 .. NElements,
           \A k \in 1 .. c : q.lenList[Place(q, k)] = r.lenList[Place(r, k)]
    PROVE  \A k \in 1 .. c + 1 : s[k] = t[k]
<1>. DEFINE Bad == {k \in 1 .. c + 1 : s[k] # t[k]}
<1>. SUFFICES ASSUME Bad # {} PROVE FALSE
  OBVIOUS
<1>1. Bad \in SUBSET Nat
  BY Sizes
<1>2. PICK k \in Bad : \A y \in Bad : k <= y
  BY <1>1, LeastElement
<1>3. k \in 1 .. c + 1 /\ s[k] # t[k]
  BY <1>2
<1>4. k # 1
  BY <1>3 DEF IsStart
<1>5. k - 1 \in 1 .. c /\ k - 1 \in 1 .. c + 1 /\ k - 1 \in 1 .. NElements
      /\ ~(k <= k - 1) /\ (k - 1) + 1 = k
  BY <1>3, <1>4, Sizes
<1>6. s[k - 1] = t[k - 1]
  BY <1>2, <1>5
<1>7. /\ s[(k - 1) + 1] = s[k - 1] + q.lenList[Place(q, k - 1)]
      /\ t[(k - 1) + 1] = t[k - 1] + r.lenList[Place(r, k - 1)]
  BY <1>5 DEF IsStart
<1>8. q.lenList[Place(q, k - 1)] = r.lenList[Place(r, k - 1)]
  BY <1>5
<1>. QED
  BY <1>3, <1>5, <1>6, <1>7, <1>8

\* Without the oldest frame the others start earlier by its length.
LEMMA StartsShift ==
    ASSUME NEW q \in Queue, NEW r \in Queue, NEW s, NEW t,
           IsStart(s, q), IsStart(t, r),
           \A k \in 1 .. NElements - 1 :
               r.lenList[Place(r, k)] = q.lenList[Place(q, k + 1)]
    PROVE  \A k \in 1 .. NElements : s[k + 1] = t[k] + s[2]
<1>. DEFINE Bad == {k \in 1 .. NElements : s[k + 1] # t[k] + s[2]}
<1>. SUFFICES ASSUME Bad # {} PROVE FALSE
  OBVIOUS
<1>1. Bad \in SUBSET Nat
  BY Sizes
<1>2. PICK k \in Bad : \A y \in Bad : k <= y
  BY <1>1, LeastElement
<1>3. k \in 1 .. NElements /\ s[k + 1] # t[k] + s[2]
  BY <1>2
<1>4. s[2] \in Nat /\ t[1] = 0
  BY Sizes DEF IsStart
<1>5. k # 1
  BY <1>3, <1>4
<1>6. k - 1 \in 1 .. NElements - 1 /\ k - 1 \in 1 .. NElements
      /\ ~(k <= k - 1) /\ (k - 1) + 1 = k
  BY <1>3, <1>5, Sizes
<1>7. s[k] = t[k - 1] + s[2]
  BY <1>2, <1>6
<1>8. t[k] = t[k - 1] + r.lenList[Place(r, k - 1)]
  BY <1>6 DEF IsStart
<1>9. s[k + 1] = s[k] + q.lenList[Place(q, k)]
  BY <1>3 DEF IsStart
<1>10. r.lenList[Place(r, k - 1)] = q.lenList[Place(q, k)]
  BY <1>6
<1>11. t[k - 1] \in Nat /\ q.lenList[Place(q, k)] \in Nat
  <2>1. k - 1 \in 1 .. NElements + 1
    BY <1>6, Sizes
  <2>. QED
    BY <1>3, <2>1, LengthsQueued DEF IsStart
<1>. QED
  BY <1>3, <1>4, <1>7, <1>8, <1>9, <1>10, <1>11

\* Later frames start later.
LEMMA StartsRise ==
    ASSUME NEW q \in Queue, NEW s, IsStart(s, q),
           NEW j \in 1 .. NElements + 1, NEW k \in 1 .. NElements + 1, j <= k
    PROVE  s[j] <= s[k]
<1>. DEFINE Bad == {i \in j .. NElements + 1 : s[j] > s[i]}
<1>1. ASSUME Bad # {} PROVE FALSE
  <2>1. Bad \in SUBSET Nat
    BY Sizes
  <2>2. PICK i \in Bad : \A y \in Bad : i <= y
    BY <1>1, <2>1, LeastElement
  <2>3. i \in j .. NElements + 1 /\ s[j] > s[i]
    BY <2>2
  <2>4. i # j
    BY <2>3, Sizes DEF IsStart
  <2>5. i - 1 \in j .. NElements + 1 /\ i - 1 \in 1 .. NElements
        /\ ~(i <= i - 1) /\ (i - 1) + 1 = i
    BY <2>3, <2>4, Sizes
  <2>6. ~(s[j] > s[i - 1])
    BY <2>2, <2>5
  <2>7. s[(i - 1) + 1] = s[i - 1] + q.lenList[Place(q, i - 1)]
    BY <2>5 DEF IsStart
  <2>8. q.lenList[Place(q, i - 1)] \in Nat
    BY <2>5, LengthsQueued
  <2>9. s[j] \in Nat /\ s[i] \in Nat /\ s[i - 1] \in Nat
    BY <2>3, <2>5, Sizes DEF IsStart
  <2>. QED
    BY <2>3, <2>5, <2>6, <2>7, <2>8, <2>9
<1>2. k \in j .. NElements + 1
  BY Sizes
<1>3. ~(s[j] > s[k])
  BY <1>1, <1>2
<1>. QED
  BY <1>3, Sizes DEF IsStart

-----------------------------------------------------------------------------
(* Bytes in the ring *)

LEMMA RingShift ==
    ASSUME NEW n \in Nat \ {0}, NEW t \in 0 .. n - 1, NEW a \in Int, NEW b \in Int,
           -1 <= a, a <= n, -1 <= b, b <= n, -1 <= a + b, a + b < n
    PROVE  (((t + a) % n) + b) % n = (t + (a + b)) % n
<1>1. PICK x \in Int : x = t + a
  OBVIOUS
<1>2. x % n = Wrap(x, n) /\ Wrap(x, n) \in 0 .. n - 1
  BY <1>1, Remainder
<1>3. PICK w \in Int : w = Wrap(x, n) + b
  BY <1>2
<1>4. -n <= w /\ w < 2 * n
  BY <1>2, <1>3
<1>5. w % n = Wrap(w, n)
  BY <1>4, Remainder
<1>6. PICK v \in Int : v = t + (a + b)
  OBVIOUS
<1>7. v % n = Wrap(v, n)
  BY <1>6, Remainder
<1>8. Wrap(w, n) = Wrap(v, n)
  BY <1>1, <1>2, <1>3, <1>6 DEF Wrap
<1>. QED
  BY <1>1, <1>2, <1>3, <1>5, <1>6, <1>7, <1>8

LEMMA RingApart ==
    ASSUME NEW n \in Nat \ {0}, NEW t \in 0 .. n - 1, NEW a \in Nat, NEW b \in Nat,
           a < b, b < n
    PROVE  (t + a) % n # (t + b) % n
<1>1. PICK x \in Int, y \in Int : x = t + a /\ y = t + b
  OBVIOUS
<1>2. -n <= x /\ x < 2 * n /\ -n <= y /\ y < 2 * n
  BY <1>1
<1>3. x % n = Wrap(x, n) /\ y % n = Wrap(y, n)
  BY <1>2, Remainder
<1>4. Wrap(x, n) # Wrap(y, n)
  BY <1>1 DEF Wrap
<1>. QED
  BY <1>1, <1>3, <1>4

LEMMA RingBack ==
    ASSUME NEW n \in Nat \ {0}, NEW h \in 0 .. n - 1, NEW i \in 0 .. n - 1
    PROVE  (((h + 1 + i) % n) - h - 1) % n = i
<1>1. PICK x \in Int : x = h + 1 + i
  OBVIOUS
<1>2. x % n = Wrap(x, n) /\ Wrap(x, n) \in 0 .. n - 1
  BY <1>1, Remainder
<1>3. PICK w \in Int : w = Wrap(x, n) - h - 1
  BY <1>2
<1>4. -n <= w /\ w < 2 * n
  BY <1>2, <1>3
<1>5. w % n = Wrap(w, n)
  BY <1>4, Remainder
<1>6. Wrap(w, n) = i
  BY <1>1, <1>2, <1>3 DEF Wrap
<1>. QED
  BY <1>1, <1>2, <1>3, <1>5, <1>6

-----------------------------------------------------------------------------
(* The memory *)

Accounted(s, q) ==
    /\ q.queuedBytes = s[q.queuedElements + 1]
    /\ q.queuedBytes <= NBytes
    /\ q.head = (q.tail + q.queuedBytes - 1) % NBytes

StoredAt(s, q, m, k, f) ==
    /\ f \in Frame
    /\ q.lenList[Place(q, k)] = FrameLen[f]
    /\ \A i \in 0 .. FrameLen[f] - 1 : m[(q.tail + s[k] + i) % NBytes] = <<f, i>>

\* The frames queued in q, described by d, lie in the memory m.
Intact(q, d, m) ==
    \E s : /\ IsStart(s, q)
           /\ Accounted(s, q)
           /\ \A k \in 1 .. q.queuedElements : StoredAt(s, q, m, k, d[Place(q, k)])

\* The bytes of the k-th oldest frame are among the queued ones.
LEMMA BytesQueued ==
    ASSUME NEW q \in Queue, NEW s, IsStart(s, q), Accounted(s, q),
           NEW k \in 1 .. q.queuedElements, NEW i \in Nat,
           i < q.lenList[Place(q, k)]
    PROVE  s[k] \in Nat /\ s[k] + i < q.queuedBytes /\ q.queuedBytes <= NBytes
<1>1. k \in 1 .. NElements /\ k + 1 \in 1 .. NElements + 1
      /\ q.queuedElements + 1 \in 1 .. NElements + 1 /\ k \in 1 .. NElements + 1
      /\ k + 1 <= q.queuedElements + 1
  BY QueueParts, Sizes
<1>2. s[k + 1] <= s[q.queuedElements + 1]
  BY <1>1, StartsRise
<1>3. s[k] \in Nat /\ s[k + 1] \in Nat /\ s[k + 1] = s[k] + q.lenList[Place(q, k)]
  BY <1>1 DEF IsStart
<1>4. q.lenList[Place(q, k)] \in Nat
  BY <1>1, LengthsQueued
<1>5. q.queuedBytes = s[q.queuedElements + 1] /\ q.queuedBytes <= NBytes
  BY DEF Accounted
<1>6. q.queuedBytes \in Nat /\ NBytes \in Nat
  BY QueueParts, Sizes, Words
<1>. QED
  BY <1>2, <1>3, <1>4, <1>5, <1>6

LEMMA PopIntact ==
    ASSUME NEW q \in Queue, TakesOldest(q), NEW d, NEW m,
           Intact(q, d, m), q.queuedElements > 0
    PROVE  Intact(Popped(q), d, m)
<1>1. PICK s : /\ IsStart(s, q)
               /\ Accounted(s, q)
               /\ \A k \in 1 .. q.queuedElements : StoredAt(s, q, m, k, d[Place(q, k)])
  BY DEF Intact
<1>2. PICK r : r = Popped(q)
  OBVIOUS
<1>3. PICK T, Q, e, len : T = q.tail /\ Q = q.queuedBytes /\ e = q.queuedElements
                          /\ len = q.lenList[Place(q, 1)]
  OBVIOUS
<1>4. /\ T \in 0 .. NBytes - 1 /\ Q \in 0 .. Word16 - 1 /\ Q <= NBytes
      /\ e \in 1 .. NElements /\ Q = s[e + 1]
      /\ q.head = (T + Q - 1) % NBytes
  BY <1>1, <1>3, QueueParts DEF Accounted
<1>5. /\ r \in Queue /\ r.queuedElements = e - 1
      /\ r.youngestElement = q.youngestElement /\ r.lenList = q.lenList
      /\ r.head = q.head
      /\ r.tail = (T + len) % NBytes
      /\ r.queuedBytes = (Q - len) % Word16
  BY <1>2, <1>3, PoppedTyped DEF TakesOldest
<1>6. PICK t : IsStart(t, r)
  BY <1>5, StartExists
<1>7. \A k \in Int : Place(r, k) = Place(q, 1 + k)
  <2>1. 1 \in 0 .. q.queuedElements
    BY <1>3, <1>4
  <2>. QED
    BY <1>3, <1>5, <2>1, PlaceAfterPops
<1>8. \A k \in 1 .. NElements : s[k + 1] = t[k] + s[2] /\ t[k] \in Nat
  <2>1. \A k \in 1 .. NElements - 1 :
            r.lenList[Place(r, k)] = q.lenList[Place(q, k + 1)]
    <3>. TAKE k \in 1 .. NElements - 1
    <3>1. k \in Int /\ 1 + k = k + 1
      BY Sizes
    <3>. QED
      BY <1>5, <1>7, <3>1
  <2>2. \A k \in 1 .. NElements : s[k + 1] = t[k] + s[2]
    BY <1>1, <1>5, <1>6, <2>1, StartsShift
  <2>3. \A k \in 1 .. NElements : k \in 1 .. NElements + 1
    BY Sizes
  <2>. QED
    BY <1>6, <2>2, <2>3 DEF IsStart
<1>9. s[2] = len /\ len \in Nat /\ len <= Q
  <2>1. 1 \in 1 .. NElements /\ 1 + 1 = 2
    BY Sizes
  <2>2. s[1] = 0 /\ s[1 + 1] = s[1] + len
    BY <1>1, <1>3, <2>1 DEF IsStart
  <2>3. len \in Nat
    BY <1>3, <2>1, LengthsQueued
  <2>4. 2 \in 1 .. NElements + 1 /\ e + 1 \in 1 .. NElements + 1 /\ 2 <= e + 1
    BY <1>4, Sizes
  <2>5. s[2] <= s[e + 1]
    BY <1>1, <2>4, StartsRise
  <2>. QED
    BY <1>4, <2>1, <2>2, <2>3, <2>5
<1>10. r.queuedBytes = Q - len /\ r.queuedBytes = t[e] /\ t[e] \in Nat
  <2>1. PICK x \in Int : x = Q - len
    BY <1>4, <1>9
  <2>2. x \in 0 .. Word16 - 1
    BY <1>4, <1>9, <2>1, Words
  <2>3. -Word16 <= x /\ x < 2 * Word16
    BY <2>2, Words
  <2>4. x % Word16 = Wrap(x, Word16)
    BY <2>3, Words, Remainder
  <2>5. Wrap(x, Word16) = x
    BY <2>2, Words DEF Wrap
  <2>6. Q = t[e] + len /\ t[e] \in Nat
    BY <1>4, <1>8, <1>9
  <2>. QED
    BY <1>4, <1>5, <1>9, <2>1, <2>4, <2>5, <2>6
<1>11. Accounted(t, r)
  <2>1. r.head = (r.tail + (Q - len - 1)) % NBytes
    <3>1. PICK a \in Int, b \in Int : a = len /\ b = Q - len - 1
      BY <1>4, <1>9
    <3>2. (((T + a) % NBytes) + b) % NBytes = (T + (a + b)) % NBytes
      <4>1. /\ -1 <= a /\ a <= NBytes /\ -1 <= b /\ b <= NBytes
            /\ -1 <= a + b /\ a + b < NBytes
        BY <1>4, <1>9, <3>1, Sizes
      <4>. QED
        BY <1>4, <4>1, Sizes, RingShift
    <3>3. T + (a + b) = T + Q - 1
      BY <1>4, <1>9, <3>1
    <3>. QED
      BY <1>4, <1>5, <3>1, <3>2, <3>3
  <2>2. r.tail + (Q - len - 1) = r.tail + r.queuedBytes - 1
    BY <1>4, <1>5, <1>9, <1>10, QueueParts
  <2>3. r.queuedBytes <= NBytes
    BY <1>4, <1>9, <1>10, Sizes
  <2>4. r.queuedElements + 1 = e
    BY <1>4, <1>5
  <2>. QED
    BY <1>10, <2>1, <2>2, <2>3, <2>4 DEF Accounted
<1>12. ASSUME NEW k \in 1 .. r.queuedElements
       PROVE  StoredAt(t, r, m, k, d[Place(r, k)])
  <2>1. k \in Int /\ k + 1 \in 1 .. e /\ k \in 1 .. NElements /\ 1 + k = k + 1
    <3>1. e \in 1 .. NElements /\ k \in 1 .. e - 1
      BY <1>4, <1>5
    <3>. QED
      BY <3>1, Sizes
  <2>2. Place(r, k) = Place(q, k + 1)
    BY <1>7, <2>1
  <2>3. PICK f : f = d[Place(q, k + 1)]
    OBVIOUS
  <2>4. StoredAt(s, q, m, k + 1, f)
    BY <1>1, <1>3, <2>1, <2>3
  <2>5. f \in Frame /\ q.lenList[Place(q, k + 1)] = FrameLen[f]
    BY <2>4 DEF StoredAt
  <2>6. ASSUME NEW i \in 0 .. FrameLen[f] - 1
        PROVE  m[(r.tail + t[k] + i) % NBytes] = <<f, i>>
    <3>1. m[(T + s[k + 1] + i) % NBytes] = <<f, i>>
      BY <1>3, <2>4 DEF StoredAt
    <3>2. i \in Nat /\ i < FrameLen[f]
      BY <2>5, Sizes
    <3>3. s[k + 1] + i < Q
      BY <1>1, <1>3, <2>1, <2>5, <3>2, BytesQueued
    <3>4. s[k + 1] = t[k] + len /\ t[k] \in Nat
      BY <1>8, <1>9, <2>1
    <3>5. PICK a \in Int, b \in Int : a = len /\ b = t[k] + i
      BY <1>9, <3>2, <3>4
    <3>6. (((T + a) % NBytes) + b) % NBytes = (T + (a + b)) % NBytes
      <4>1. /\ -1 <= a /\ a <= NBytes /\ -1 <= b /\ b <= NBytes
            /\ -1 <= a + b /\ a + b < NBytes
        BY <1>4, <1>9, <3>2, <3>3, <3>4, <3>5, Sizes
      <4>. QED
        BY <1>4, <4>1, Sizes, RingShift
    <3>7. T + (a + b) = T + s[k + 1] + i
      BY <1>4, <1>9, <3>2, <3>4, <3>5
    <3>8. r.tail + b = r.tail + t[k] + i
      BY <1>5, <3>2, <3>4, <3>5, QueueParts
    <3>. QED
      BY <1>5, <3>1, <3>5, <3>6, <3>7, <3>8
  <2>. QED
    BY <1>5, <2>2, <2>3, <2>5, <2>6 DEF StoredAt
<1>. QED
  BY <1>2, <1>6, <1>11, <1>12 DEF Intact

LEMMA PushIntact ==
    ASSUME NEW q \in Queue, NEW d \in [Element -> Frame \cup {NoFrame}], NEW m,
           Intact(q, d, m), NEW f \in Frame, HasRoom(q, FrameLen[f])
    PROVE  Intact(Pushed(q, FrameLen[f]),
                  [d EXCEPT ![NextElement(q)] = f],
                  [b \in Byte |->
                      IF b \in PushedBytes(q, FrameLen[f])
                      THEN <<f, (b - q.head - 1) % NBytes>> ELSE m[b]])
<1>1. PICK s : /\ IsStart(s, q)
               /\ Accounted(s, q)
               /\ \A k \in 1 .. q.queuedElements : StoredAt(s, q, m, k, d[Place(q, k)])
  BY DEF Intact
<1>2. PICK T, Q, e, len : T = q.tail /\ Q = q.queuedBytes /\ e = q.queuedElements
                          /\ len = FrameLen[f]
  OBVIOUS
<1>3. /\ T \in 0 .. NBytes - 1 /\ Q \in 0 .. Word16 - 1 /\ Q <= NBytes
      /\ e \in 0 .. NElements /\ Q = s[e + 1]
      /\ len \in Nat \ {0} /\ len <= Word16 - 1
  BY <1>1, <1>2, QueueParts, Sizes DEF Accounted
<1>4. q.head = (T + Q - 1) % NBytes
  BY <1>1, <1>2 DEF Accounted
<1>5. e \in 0 .. NElements - 1 /\ Q + len <= NBytes
  <2>1. (NBytes - Q) % Word16 >= len /\ e < NElements
    BY <1>2 DEF HasRoom
  <2>2. PICK x \in Int : x = NBytes - Q
    BY <1>3, Sizes
  <2>3. x \in 0 .. Word16 - 1
    BY <1>3, <2>2, Sizes, Words
  <2>4. -Word16 <= x /\ x < 2 * Word16
    BY <2>3, Words
  <2>5. x % Word16 = Wrap(x, Word16)
    BY <2>4, Words, Remainder
  <2>6. x >= len
    BY <2>1, <2>2, <2>3, <2>5, Words DEF Wrap
  <2>. QED
    BY <1>3, <2>1, <2>2, <2>6, Sizes
<1>6. PICK r, d2, m2 :
        /\ r = Pushed(q, FrameLen[f])
        /\ d2 = [d EXCEPT ![NextElement(q)] = f]
        /\ m2 = [b \in Byte |->
                    IF b \in PushedBytes(q, FrameLen[f])
                    THEN <<f, (b - q.head - 1) % NBytes>> ELSE m[b]]
  OBVIOUS
<1>7. /\ r \in Queue /\ NextElement(q) \in Element
      /\ r.queuedElements = e + 1
      /\ r.youngestElement = NextElement(q)
      /\ r.lenList = [q.lenList EXCEPT ![NextElement(q)] = len]
      /\ r.head = (q.head + len) % NBytes
      /\ r.tail = T
      /\ r.queuedBytes = (Q + len) % Word16
  <2>1. q.queuedElements < NElements
    BY <1>2, <1>5, Sizes
  <2>. QED
    <3>1. PICK p : p = Pushed(q, len)
      OBVIOUS
    <3>2. /\ p \in Queue /\ NextElement(q) \in Element
          /\ p.queuedElements = q.queuedElements + 1
          /\ p.youngestElement = NextElement(q)
          /\ p.lenList = [q.lenList EXCEPT ![NextElement(q)] = len]
          /\ p.head = (q.head + len) % NBytes
          /\ p.tail = q.tail
          /\ p.queuedBytes = (q.queuedBytes + len) % Word16
      BY <1>3, <2>1, <3>1, PushedTyped
    <3>3. r = p
      BY <1>2, <1>6, <3>1
    <3>. QED
      BY <1>2, <3>2, <3>3
<1>8. PICK t : IsStart(t, r)
  BY <1>7, StartExists
<1>9. /\ \A k \in 1 .. NElements : Place(r, k) = Place(q, k)
      /\ Place(q, e + 1) = NextElement(q)
  <2>1. q.queuedElements < NElements
    BY <1>2, <1>5, Sizes
  <2>. QED
    BY <1>2, <1>7, <2>1, PlaceAfterPush
<1>10. ASSUME NEW k \in 1 .. e
       PROVE  /\ k \in 1 .. NElements /\ Place(q, k) \in Element
              /\ Place(q, k) # NextElement(q)
  <2>1. k \in 1 .. NElements /\ e + 1 \in 1 .. NElements /\ k # e + 1
    BY <1>5, Sizes
  <2>2. Place(q, k) # Place(q, e + 1)
    BY <2>1, PlacesDiffer
  <2>3. Place(q, k) \in Element
    BY <2>1, PlaceAt
  <2>. QED
    BY <1>9, <2>1, <2>2, <2>3
<1>11. \A k \in 1 .. e + 1 : s[k] = t[k]
  <2>1. \A k \in 1 .. e : q.lenList[Place(q, k)] = r.lenList[Place(r, k)]
    BY <1>7, <1>9, <1>10, QueueParts
  <2>2. e \in 0 .. NElements
    BY <1>3
  <2>. QED
    <3>1. IsStart(s, q) /\ r \in Queue
      BY <1>1, <1>7
    <3>. QED
      BY <1>8, <2>1, <2>2, <3>1, StartsAgree
<1>12. t[e + 1] = Q /\ t[(e + 1) + 1] = Q + len
  <2>1. e + 1 \in 1 .. e + 1 /\ e + 1 \in 1 .. NElements
    BY <1>5, Sizes
  <2>2. t[(e + 1) + 1] = t[e + 1] + r.lenList[Place(r, e + 1)]
    BY <1>8, <2>1 DEF IsStart
  <2>3. r.lenList[Place(r, e + 1)] = len
    BY <1>7, <1>9, <2>1, QueueParts
  <2>. QED
    BY <1>3, <1>11, <2>1, <2>2, <2>3
<1>13. r.queuedBytes = Q + len
  <2>1. PICK x \in Int : x = Q + len
    BY <1>3
  <2>2. x \in 0 .. Word16 - 1
    BY <1>3, <1>5, <2>1, Sizes, Words
  <2>3. -Word16 <= x /\ x < 2 * Word16
    BY <2>2, Words
  <2>4. x % Word16 = Wrap(x, Word16)
    BY <2>3, Words, Remainder
  <2>. QED
    BY <1>7, <2>1, <2>2, <2>4, Words DEF Wrap
<1>14. \A i \in Int : (0 <= i /\ i <= len) =>
           (q.head + i) % NBytes = (T + (Q - 1 + i)) % NBytes
  <2>. TAKE i \in Int
  <2>. HAVE 0 <= i /\ i <= len
  <2>1. PICK a \in Int : a = Q - 1
    BY <1>3
  <2>2. T + a = T + Q - 1
    BY <1>3, <2>1
  <2>3. /\ -1 <= a /\ a <= NBytes /\ -1 <= i /\ i <= NBytes
        /\ -1 <= a + i /\ a + i < NBytes
    BY <1>3, <1>5, <2>1, Sizes
  <2>4. (((T + a) % NBytes) + i) % NBytes = (T + (a + i)) % NBytes
    BY <1>3, <2>3, Sizes, RingShift
  <2>. QED
    BY <1>4, <2>1, <2>2, <2>4
<1>15. Accounted(t, r)
  <2>1. r.head = (T + (Q - 1 + len)) % NBytes
    BY <1>3, <1>7, <1>14
  <2>2. T + (Q - 1 + len) = r.tail + r.queuedBytes - 1
    BY <1>3, <1>7, <1>13
  <2>. QED
    BY <1>5, <1>7, <1>12, <1>13, <2>1, <2>2 DEF Accounted
<1>16. ASSUME NEW i \in 0 .. len - 1
       PROVE  (q.head + 1 + i) % NBytes = (T + (Q + i)) % NBytes
  <2>1. PICK j \in Int : j = 1 + i
    BY <1>3
  <2>2. 0 <= j /\ j <= len
    BY <1>3, <2>1
  <2>3. (q.head + j) % NBytes = (T + (Q - 1 + j)) % NBytes
    BY <1>14, <2>2
  <2>4. Q - 1 + j = Q + i /\ q.head + j = q.head + 1 + i
    BY <1>3, <2>1, QueueParts
  <2>. QED
    BY <2>3, <2>4
<1>17. \A x \in Int : x % NBytes \in Byte
  BY Sizes, RemainderRange DEF Byte
<1>18. ASSUME NEW k \in 1 .. e
       PROVE  StoredAt(t, r, m2, k, d2[Place(r, k)])
  <2>1. PICK g : g = d[Place(q, k)]
    OBVIOUS
  <2>2. d2[Place(r, k)] = g
    BY <1>6, <1>9, <1>10, <2>1
  <2>3. StoredAt(s, q, m, k, g)
    BY <1>1, <1>2, <2>1
  <2>4. r.lenList[Place(r, k)] = q.lenList[Place(q, k)]
    BY <1>7, <1>9, <1>10, QueueParts
  <2>5. g \in Frame /\ q.lenList[Place(q, k)] = FrameLen[g]
    BY <2>3 DEF StoredAt
  <2>6. ASSUME NEW i \in 0 .. FrameLen[g] - 1
        PROVE  m2[(r.tail + t[k] + i) % NBytes] = <<g, i>>
    <3>1. m[(T + s[k] + i) % NBytes] = <<g, i>>
      BY <1>2, <2>3 DEF StoredAt
    <3>2. i \in Nat /\ i < FrameLen[g]
      BY <2>5, Sizes
    <3>3. s[k] \in Nat /\ s[k] + i < Q
      BY <1>1, <1>2, <2>5, <3>2, BytesQueued
    <3>4. k \in 1 .. e + 1
      BY <1>3
    <3>5. s[k] = t[k]
      BY <1>11, <3>4
    <3>6. PICK x \in Int : x = s[k] + i
      BY <3>2, <3>3
    <3>7. T + s[k] + i = T + x
      BY <1>3, <3>2, <3>3, <3>6
    <3>8. (T + x) % NBytes \in Byte
      BY <1>3, <1>17
    <3>9. (T + x) % NBytes \notin PushedBytes(q, FrameLen[f])
      <4>1. ASSUME NEW j \in 0 .. len - 1
            PROVE  (q.head + 1 + j) % NBytes # (T + x) % NBytes
        <5>1. PICK y \in Int : y = Q + j
          BY <1>3
        <5>2. x \in Nat /\ y \in Nat /\ x < y /\ y < NBytes
          BY <1>3, <1>5, <3>2, <3>3, <3>6, <5>1, Sizes
        <5>3. (T + x) % NBytes # (T + y) % NBytes
          BY <1>3, <5>2, Sizes, RingApart
        <5>. QED
          BY <1>16, <5>1, <5>3
      <4>. QED
        BY <1>2, <4>1 DEF PushedBytes
    <3>10. m2[(T + x) % NBytes] = m[(T + x) % NBytes]
      BY <1>6, <3>8, <3>9
    <3>. QED
      BY <1>7, <3>1, <3>5, <3>7, <3>10
  <2>. QED
    BY <2>2, <2>4, <2>5, <2>6 DEF StoredAt
<1>19. StoredAt(t, r, m2, e + 1, d2[Place(r, e + 1)])
  <2>1. e + 1 \in 1 .. NElements
    BY <1>5, Sizes
  <2>2. Place(r, e + 1) = NextElement(q)
    BY <1>9, <2>1
  <2>3. d2[Place(r, e + 1)] = f /\ r.lenList[Place(r, e + 1)] = len
    BY <1>6, <1>7, <2>2, QueueParts
  <2>4. ASSUME NEW i \in 0 .. FrameLen[f] - 1
        PROVE  m2[(r.tail + t[e + 1] + i) % NBytes] = <<f, i>>
    <3>1. i \in 0 .. len - 1
      BY <1>2
    <3>2. PICK p : p = (q.head + 1 + i) % NBytes
      OBVIOUS
    <3>3. p \in PushedBytes(q, FrameLen[f])
      BY <1>2, <3>1, <3>2 DEF PushedBytes
    <3>4. p \in Byte
      <4>1. q.head + 1 + i \in Int
        BY <1>3, <3>1, QueueParts, Sizes
      <4>. QED
        BY <1>17, <3>2, <4>1
    <3>5. (p - q.head - 1) % NBytes = i
      <4>1. q.head \in 0 .. NBytes - 1 /\ i \in 0 .. NBytes - 1
        BY <1>3, <1>5, <3>1, QueueParts, Sizes
      <4>. QED
        BY <3>2, <4>1, Sizes, RingBack
    <3>6. m2[p] = <<f, (p - q.head - 1) % NBytes>>
      BY <1>6, <3>3, <3>4
    <3>7. p = (T + (Q + i)) % NBytes
      BY <1>16, <3>1, <3>2
    <3>8. T + (Q + i) = r.tail + t[e + 1] + i
      BY <1>3, <1>7, <1>12, <3>1
    <3>. QED
      BY <3>5, <3>6, <3>7, <3>8
  <2>. QED
    BY <1>2, <2>3, <2>4 DEF StoredAt
<1>20. \A k \in 1 .. r.queuedElements : StoredAt(t, r, m2, k, d2[Place(r, k)])
  <2>1. \A k \in 1 .. r.queuedElements : k \in 1 .. e \/ k = e + 1
    BY <1>3, <1>7
  <2>. QED
    BY <1>18, <1>19, <2>1
<1>21. Intact(r, d2, m2)
  BY <1>8, <1>15, <1>20 DEF Intact
<1>. QED
  BY <1>6, <1>21

LEMMA PopsIntact ==
    ASSUME NEW q \in Queue, TakesOldest(q), NEW d, NEW m, Intact(q, d, m),
           NEW c \in 0 .. q.queuedElements
    PROVE  Intact(AfterPops(q)[c], d, m)
<1>. DEFINE Bad == {k \in 0 .. q.queuedElements : ~Intact(AfterPops(q)[k], d, m)}
<1>. SUFFICES ASSUME Bad # {} PROVE FALSE
  OBVIOUS
<1>1. PICK e \in Nat : e = q.queuedElements /\ e <= NElements
  BY QueueParts, Sizes
<1>2. Bad \in SUBSET Nat
  BY <1>1
<1>3. PICK k \in Bad : \A y \in Bad : k <= y
  BY <1>2, LeastElement
<1>4. k \in 0 .. e /\ ~Intact(AfterPops(q)[k], d, m)
  BY <1>1, <1>3
<1>5. k # 0
  BY <1>4, AfterPopsSteps
<1>6. k - 1 \in 0 .. e /\ k \in 1 .. NElements /\ ~(k <= k - 1)
  BY <1>1, <1>4, <1>5, Sizes
<1>7. Intact(AfterPops(q)[k - 1], d, m)
  BY <1>1, <1>3, <1>6
<1>8. PICK r : r = AfterPops(q)[k - 1]
  OBVIOUS
<1>9. r \in Queue /\ r.queuedElements = e - (k - 1) /\ TakesOldest(r)
  BY <1>1, <1>6, <1>8, PopsTyped, OldestInRow
<1>10. r.queuedElements > 0
  BY <1>4, <1>6, <1>9
<1>11. Intact(Popped(r), d, m)
  BY <1>7, <1>8, <1>9, <1>10, PopIntact
<1>12. AfterPops(q)[k] = Popped(r)
  BY <1>6, <1>8, AfterPopsSteps
<1>. QED
  BY <1>4, <1>11, <1>12

\* The sums in MemoryIntact.
Starts ==
    CHOOSE g : g = [k \in 1 .. NElements + 1 |->
                       IF k = 1 THEN 0 ELSE g[k - 1] + queue.lenList[Queued(k - 1)]]

LEMMA StartsFollow ==
    ASSUME queue \in Queue, NEW s, IsStart(s, queue)
    PROVE  \A k \in 1 .. NElements + 1 : Starts[k] = s[k]
<1>. DEFINE Eq(g) ==
       g = [k \in 1 .. NElements + 1 |->
               IF k = 1 THEN 0 ELSE g[k - 1] + queue.lenList[Queued(k - 1)]]
<1>1. Eq(s)
  <2>1. s = [k \in 1 .. NElements + 1 |-> s[k]]
    BY DEF IsStart
  <2>2. ASSUME NEW k \in 1 .. NElements + 1
        PROVE  s[k] = IF k = 1 THEN 0 ELSE s[k - 1] + queue.lenList[Queued(k - 1)]
    <3>1. CASE k = 1
      BY <3>1 DEF IsStart
    <3>2. CASE k # 1
      <4>1. k - 1 \in 1 .. NElements /\ (k - 1) + 1 = k
        BY <3>2, Sizes
      <4>2. s[(k - 1) + 1] = s[k - 1] + queue.lenList[Place(queue, k - 1)]
        BY <4>1 DEF IsStart
      <4>. QED
        BY <3>2, <4>1, <4>2, QueuedPlace
    <3>. QED
      BY <3>1, <3>2
  <2>. QED
    BY <2>1, <2>2
<1>2. Eq(Starts)
  BY <1>1, Zenon DEF Starts
<1>3. PICK g : g = Starts
  OBVIOUS
<1>4. ASSUME NEW k \in 1 .. NElements + 1
      PROVE  g[k] = IF k = 1 THEN 0 ELSE g[k - 1] + queue.lenList[Queued(k - 1)]
  BY <1>2, <1>3
<1>5. ASSUME NEW k \in 1 .. NElements + 1
      PROVE  s[k] = IF k = 1 THEN 0 ELSE s[k - 1] + queue.lenList[Queued(k - 1)]
  BY <1>1
<1>. DEFINE Bad == {k \in 1 .. NElements + 1 : g[k] # s[k]}
<1>6. ASSUME Bad # {} PROVE FALSE
  <2>1. Bad \in SUBSET Nat
    BY Sizes
  <2>2. PICK k \in Bad : \A y \in Bad : k <= y
    BY <1>6, <2>1, LeastElement
  <2>3. k \in 1 .. NElements + 1 /\ g[k] # s[k]
    BY <2>2
  <2>4. k # 1
    BY <1>4, <1>5, <2>3
  <2>5. k - 1 \in 1 .. NElements + 1 /\ ~(k <= k - 1)
    BY <2>3, <2>4, Sizes
  <2>6. g[k - 1] = s[k - 1]
    BY <2>2, <2>5
  <2>. QED
    BY <1>4, <1>5, <2>3, <2>4, <2>6
<1>. QED
  BY <1>3, <1>6

LEMMA IntactMeans ==
    ASSUME queue \in Queue, Intact(queue, g_switchRecvDescriptorQueue, memory)
    PROVE  MemoryIntact
<1>1. PICK s : /\ IsStart(s, queue)
               /\ Accounted(s, queue)
               /\ \A k \in 1 .. queue.queuedElements :
                      StoredAt(s, queue, memory, k,
                               g_switchRecvDescriptorQueue[Place(queue, k)])
  BY DEF Intact
<1>2. \A k \in 1 .. NElements + 1 : Starts[k] = s[k]
  BY <1>1, StartsFollow
<1>3. PICK e \in 0 .. NElements : e = queue.queuedElements
  BY QueueParts
<1>4. e + 1 \in 1 .. NElements + 1
  BY <1>3, Sizes
<1>5. /\ queue.queuedBytes = Starts[queue.queuedElements + 1]
      /\ queue.queuedBytes <= NBytes
      /\ queue.head = (queue.tail + queue.queuedBytes - 1) % NBytes
  BY <1>1, <1>2, <1>3, <1>4 DEF Accounted
<1>6. \A k \in 1 .. queue.queuedElements :
          LET f == g_switchRecvDescriptorQueue[Queued(k)] IN
          /\ queue.lenList[Queued(k)] = FrameLen[f]
          /\ \A i \in 0 .. FrameLen[f] - 1 :
                 memory[(queue.tail + Starts[k] + i) % NBytes] = <<f, i>>
  <2>. SUFFICES ASSUME NEW k \in 1 .. queue.queuedElements, NEW f,
                       f = g_switchRecvDescriptorQueue[Queued(k)]
                PROVE  /\ queue.lenList[Queued(k)] = FrameLen[f]
                       /\ \A i \in 0 .. FrameLen[f] - 1 :
                              memory[(queue.tail + Starts[k] + i) % NBytes] = <<f, i>>
    BY Zenon
  <2>1. k \in 1 .. NElements + 1
    BY <1>3, Sizes
  <2>2. Starts[k] = s[k]
    BY <1>2, <2>1
  <2>3. Queued(k) = Place(queue, k)
    BY QueuedPlace, Zenon
  <2>4. StoredAt(s, queue, memory, k, f)
    BY <1>1, <2>3
  <2>. QED
    BY <2>2, <2>3, <2>4 DEF StoredAt
<1>. QED
  BY <1>5, <1>6, Zenon DEF MemoryIntact, Starts

-----------------------------------------------------------------------------
(* The memory over steps *)

MemoryInv ==
    TypeInv /\ Intact(queue, g_switchRecvDescriptorQueue, memory)

LEMMA MemoryAtStart == Init => MemoryInv
<1>. SUFFICES ASSUME Init PROVE MemoryInv
  OBVIOUS
<1>1. TypeInv /\ queue \in Queue
  BY TypedAtStart, TypeMeans DEF TypeInv
<1>2. PICK s : IsStart(s, queue)
  BY <1>1, StartExists
<1>3. /\ queue.queuedElements = 0 /\ queue.queuedBytes = 0
      /\ queue.tail = 0 /\ queue.head = NBytes - 1
  BY DEF Init
<1>4. (0 + 0 - 1) % NBytes = NBytes - 1
  <2>1. PICK x \in Int : x = 0 + 0 - 1
    OBVIOUS
  <2>2. -NBytes <= x /\ x < 2 * NBytes
    BY <2>1, Sizes
  <2>3. x % NBytes = Wrap(x, NBytes)
    BY <2>2, Sizes, Remainder
  <2>. QED
    BY <2>1, <2>3, Sizes DEF Wrap
<1>5. Accounted(s, queue)
  <2>1. s[0 + 1] = 0 /\ 0 <= NBytes
    BY <1>2, Sizes DEF IsStart
  <2>. QED
    BY <1>3, <1>4, <2>1 DEF Accounted
<1>6. ~\E k \in 1 .. queue.queuedElements : TRUE
  BY <1>3
<1>. QED
  BY <1>1, <1>2, <1>5, <1>6 DEF MemoryInv, Intact

LEMMA MemoryKept == MemoryInv /\ PopsOldest /\ [Next]_vars => MemoryInv'
<1>. SUFFICES ASSUME MemoryInv, TakesOldest(queue), [Next]_vars PROVE MemoryInv'
  BY PopsOldestMeans
<1>0. /\ TypeInv /\ queue \in Queue
      /\ g_switchRecvDescriptorQueue \in [Element -> Frame \cup {NoFrame}]
      /\ Intact(queue, g_switchRecvDescriptorQueue, memory)
  BY TypeMeans DEF MemoryInv, TypeInv
<1>1. TypeInv'
  BY <1>0, TypesKept
<1>. SUFFICES Intact(queue', g_switchRecvDescriptorQueue', memory')
  BY <1>1 DEF MemoryInv
<1>2. ASSUME UNCHANGED <<queue, g_switchRecvDescriptorQueue, memory>>
      PROVE  Intact(queue', g_switchRecvDescriptorQueue', memory')
  BY <1>0, <1>2
<1>3. ASSUME NEW f \in Frame, Enqueue(f)
      PROVE  Intact(queue', g_switchRecvDescriptorQueue', memory')
  <2>1. HasRoom(queue, FrameLen[f]) /\ queue' = Pushed(queue, FrameLen[f])
    BY <1>3 DEF Enqueue
  <2>2. /\ g_switchRecvDescriptorQueue' =
               [g_switchRecvDescriptorQueue EXCEPT ![NextElement(queue)] = f]
        /\ memory' = [b \in Byte |->
                         IF b \in PushedBytes(queue, FrameLen[f])
                         THEN <<f, (b - queue.head - 1) % NBytes>> ELSE memory[b]]
    BY <1>3 DEF Enqueue
  <2>3. Intact(Pushed(queue, FrameLen[f]),
               [g_switchRecvDescriptorQueue EXCEPT ![NextElement(queue)] = f],
               [b \in Byte |->
                   IF b \in PushedBytes(queue, FrameLen[f])
                   THEN <<f, (b - queue.head - 1) % NBytes>> ELSE memory[b]])
    BY <1>0, <2>1, PushIntact
  <2>. QED
    BY <2>1, <2>2, <2>3
<1>4. CASE Dispatch
  <2>1. PICK f \in Frame : HandOver(f) \/ Enqueue(f) \/ DropFrame(f)
    BY <1>4 DEF Dispatch, DispatchRecvSwitchFrame
  <2>. QED
    BY <1>2, <1>3, <2>1 DEF HandOver, DropFrame
<1>5. CASE Loop
  <2>1. PICK n \in Requests : RecvSwitchFrameLoop(n)
    BY <1>5 DEF Loop
  <2>2. n \in Nat
    BY Sizes, Words
  <2>3. PICK c : c = Count(queue, n) /\ c \in 0 .. queue.queuedElements
    BY <1>0, <2>2, CountBounds
  <2>4. /\ queue' = AfterPops(queue)[c]
        /\ UNCHANGED <<g_switchRecvDescriptorQueue, memory>>
    BY <2>1, <2>3, LoopSteps
  <2>5. Intact(AfterPops(queue)[c], g_switchRecvDescriptorQueue, memory)
    BY <1>0, <2>3, PopsIntact
  <2>. QED
    BY <2>4, <2>5
<1>6. CASE Remove
  BY <1>2, <1>6 DEF Remove, RemoveHandler
<1>7. CASE RecvSwitchFrame
  <2>1. /\ IF queue.queuedElements > 0 THEN queue' = Popped(queue) ELSE UNCHANGED queue
        /\ UNCHANGED <<g_switchRecvDescriptorQueue, memory>>
    BY <1>7 DEF RecvSwitchFrame
  <2>. QED
    BY <1>0, <2>1, PopIntact
<1>8. CASE UNCHANGED vars
  BY <1>2, <1>8 DEF vars
<1>. QED
  BY <1>4, <1>5, <1>6, <1>7, <1>8 DEF Next

\* Exactly when a pop takes the oldest element, as popFromQueue says it does
\* (ethIf.c:836), for any number of elements: as long as the elements that wait
\* have not come round, the youngest of them lying below the oldest. With the
\* driver's 23 elements, which do not divide 2^32, every pop after that takes
\* another element.
THEOREM OldestIsPopped ==
    Spec => [](PopsOldest <=> \/ queue.queuedElements <= queue.youngestElement + 1
                              \/ WrapResidue = 0)
<1>1. TypeInv => (PopsOldest <=> \/ queue.queuedElements <= queue.youngestElement + 1
                                 \/ WrapResidue = 0)
  <2>. SUFFICES ASSUME TypeInv
                PROVE  PopsOldest <=> \/ queue.queuedElements <= queue.youngestElement + 1
                                      \/ WrapResidue = 0
    OBVIOUS
  <2>0. queue \in Queue
    BY TypeMeans DEF TypeInv
  <2>1. PopsOldest <=> TakesOldest(queue)
    BY QueuedPlace, Zenon DEF PopsOldest, TakesOldest
  <2>2. CASE queue.queuedElements > 0
    BY <2>0, <2>1, <2>2, OldestTaken, QueueParts, Sizes
  <2>3. CASE ~(queue.queuedElements > 0)
    BY <2>0, <2>1, <2>3, QueueParts, Sizes DEF TakesOldest
  <2>. QED
    BY <2>2, <2>3
<1>. QED
  BY <1>1, TypedAtStart, TypesKept, PTL DEF Spec

\* 2^32 is not a multiple of the driver's number of elements.
LEMMA DriverComesRound == NElements = 23 => WrapResidue # 0
<1>1. 65536 % 23 = 9
  <2>1. 65536 = 2849 * 23 + 9
    OBVIOUS
  <2>. QED
    BY <2>1
<1>2. 81 % 23 = 12
  OBVIOUS
<1>. QED
  BY <1>1, <1>2 DEF WrapResidue, Word16

\* The element that is popped is all that can go wrong: for any number of
\* elements, the driver's 23 included, queued frames lie behind one another from
\* tail to head, queuedBytes counts them, and no byte of one is overwritten
\* before it is popped, in every behaviour whose pops take the oldest element.
\* (The run recv_pop shows one that does not.)
THEOREM FramesStayIntact == Spec /\ []PopsOldest => []MemoryIntact
<1>1. MemoryInv => MemoryIntact
  BY IntactMeans, TypeMeans DEF MemoryInv, TypeInv
<1>. QED
  BY <1>1, MemoryAtStart, MemoryKept, PTL DEF Spec

-----------------------------------------------------------------------------
(* An ordinary queue *)

\* The frames that wait in q, described by d, oldest first.
Waiting(q, d) == [k \in 1 .. q.queuedElements |-> d[Place(q, k)]]

LEMMA WaitingNow ==
    [k \in 1 .. queue.queuedElements |-> g_switchRecvDescriptorQueue[Queued(k)]]
        = Waiting(queue, g_switchRecvDescriptorQueue)
BY QueuedPlace, Zenon DEF Waiting

LEMMA WaitingNext ==
    ([k \in 1 .. queue.queuedElements |-> g_switchRecvDescriptorQueue[Queued(k)]]
        = Waiting(queue, g_switchRecvDescriptorQueue))'
BY WaitingNow, PTL

LEMMA WaitingSeq ==
    ASSUME NEW q \in Queue, NEW d
    PROVE  /\ Waiting(q, d) \in Seq({d[Place(q, k)] : k \in 1 .. q.queuedElements})
           /\ Len(Waiting(q, d)) = q.queuedElements
           /\ \A k \in 1 .. q.queuedElements : Waiting(q, d)[k] = d[Place(q, k)]
<1>1. PICK e \in Nat : e = q.queuedElements
  BY QueueParts, Sizes
<1>2. PICK w : w = [k \in 1 .. e |-> d[Place(q, k)]]
  OBVIOUS
<1>3. w \in Seq({d[Place(q, k)] : k \in 1 .. e}) /\ Len(w) = e
  BY <1>1, <1>2
<1>. QED
  BY <1>1, <1>2, <1>3 DEF Waiting

LEMMA WaitingTyped ==
    ASSUME NEW q \in Queue, NEW d \in [Element -> Frame \cup {NoFrame}]
    PROVE  /\ Waiting(q, d) \in Seq(Frame \cup {NoFrame})
           /\ Len(Waiting(q, d)) = q.queuedElements
           /\ \A k \in 1 .. q.queuedElements : Waiting(q, d)[k] = d[Place(q, k)]
<1>1. PICK e \in Nat : e = q.queuedElements /\ e <= NElements
  BY QueueParts, Sizes
<1>2. \A k \in 1 .. e : d[Place(q, k)] \in Frame \cup {NoFrame}
  <2>. TAKE k \in 1 .. e
  <2>1. k \in 0 .. NElements
    BY <1>1, Sizes
  <2>2. Place(q, k) \in Element
    BY <2>1, PlaceAt
  <2>. QED
    BY <2>2
<1>3. PICK w : w = [k \in 1 .. e |-> d[Place(q, k)]]
  OBVIOUS
<1>4. w \in Seq(Frame \cup {NoFrame})
  BY <1>2, <1>3
<1>. QED
  BY <1>1, <1>3, <1>4, WaitingSeq DEF Waiting

LEMMA AppendIs ==
    ASSUME NEW S, NEW w \in Seq(S), NEW f \in S, NEW v \in Seq(S),
           Len(v) = Len(w) + 1,
           \A k \in 1 .. Len(w) : v[k] = w[k], v[Len(w) + 1] = f
    PROVE  v = Append(w, f)
OBVIOUS

LEMMA WaitingPushed ==
    ASSUME NEW q \in Queue, NEW r \in Queue, q.queuedElements < NElements,
           r.youngestElement = NextElement(q),
           r.queuedElements = q.queuedElements + 1,
           NEW d \in [Element -> Frame \cup {NoFrame}], NEW f \in Frame
    PROVE  Waiting(r, [d EXCEPT ![NextElement(q)] = f]) = Append(Waiting(q, d), f)
<1>1. PICK e \in Nat : e = q.queuedElements /\ e < NElements
  BY QueueParts, Sizes
<1>2. /\ \A k \in 1 .. NElements : Place(r, k) = Place(q, k)
      /\ Place(q, e + 1) = NextElement(q)
  BY <1>1, PlaceAfterPush
<1>3. PICK d2 : d2 = [d EXCEPT ![NextElement(q)] = f]
  OBVIOUS
<1>4. \A k \in 1 .. e : d2[Place(r, k)] = d[Place(q, k)]
  <2>. TAKE k \in 1 .. e
  <2>1. k \in 1 .. NElements /\ e + 1 \in 1 .. NElements /\ k # e + 1
    BY <1>1, Sizes
  <2>2. Place(q, k) # Place(q, e + 1) /\ Place(q, k) \in Element
    BY <2>1, PlacesDiffer, PlaceAt
  <2>. QED
    BY <1>2, <1>3, <2>1, <2>2
<1>5. d2[Place(r, e + 1)] = f
  <2>1. e + 1 \in 1 .. NElements
    BY <1>1, Sizes
  <2>2. NextElement(q) \in Element
    BY <1>2, <2>1, PlaceAt
  <2>. QED
    BY <1>2, <1>3, <2>1, <2>2
<1>6. PICK w, v : w = Waiting(q, d) /\ v = Waiting(r, d2)
  OBVIOUS
<1>7. d2 \in [Element -> Frame \cup {NoFrame}]
  BY <1>3
<1>8. /\ w \in Seq(Frame \cup {NoFrame}) /\ Len(w) = e
      /\ \A k \in 1 .. e : w[k] = d[Place(q, k)]
  BY <1>1, <1>6, WaitingTyped
<1>9. /\ v \in Seq(Frame \cup {NoFrame}) /\ Len(v) = e + 1
      /\ \A k \in 1 .. e + 1 : v[k] = d2[Place(r, k)]
  BY <1>1, <1>6, <1>7, WaitingTyped
<1>10. (\A k \in 1 .. e : v[k] = w[k]) /\ v[e + 1] = f
  BY <1>1, <1>4, <1>5, <1>8, <1>9
<1>11. v = Append(w, f)
  <2>1. f \in Frame \cup {NoFrame}
    OBVIOUS
  <2>. QED
    BY <1>8, <1>9, <1>10, <2>1, AppendIs
<1>. QED
  BY <1>3, <1>6, <1>11

LEMMA WaitingPopped ==
    ASSUME NEW q \in Queue, NEW r \in Queue, NEW c \in 0 .. q.queuedElements,
           r.youngestElement = q.youngestElement,
           r.queuedElements = q.queuedElements - c, NEW d
    PROVE  Waiting(r, d) = SubSeq(Waiting(q, d), c + 1, Len(Waiting(q, d)))
<1>1. PICK e \in Nat : e = q.queuedElements
  BY QueueParts, Sizes
<1>2. PICK w : w = Waiting(q, d)
  OBVIOUS
<1>3. PICK S : w \in Seq(S) /\ Len(w) = e /\ \A k \in 1 .. e : w[k] = d[Place(q, k)]
  BY <1>1, <1>2, WaitingSeq
<1>4. \A k \in Int : Place(r, k) = Place(q, c + k)
  BY PlaceAfterPops
<1>5. SubSeq(w, c + 1, e) = [k \in 1 .. e - c |-> w[c + k]]
  BY <1>1, <1>3
<1>6. Waiting(r, d) = [k \in 1 .. e - c |-> d[Place(r, k)]]
  BY <1>1 DEF Waiting
<1>7. \A k \in 1 .. e - c : d[Place(r, k)] = w[c + k]
  <2>. TAKE k \in 1 .. e - c
  <2>1. k \in Int /\ c + k \in 1 .. e
    BY <1>1
  <2>. QED
    BY <1>3, <1>4, <2>1
<1>. QED
  BY <1>2, <1>3, <1>5, <1>6, <1>7

\* What pops in a row deliver.
LEMMA PopsDeliver ==
    ASSUME queue \in Queue, TakesOldest(queue), NEW c \in 0 .. queue.queuedElements
    PROVE  [k \in 1 .. c |-> Delivery(AfterPops(queue)[k - 1])]
             = SubSeq(Waiting(queue, g_switchRecvDescriptorQueue), 1, c)
<1>1. PICK q, d : q = queue /\ d = g_switchRecvDescriptorQueue
  OBVIOUS
<1>2. PICK e \in Nat : e = q.queuedElements
  BY <1>1, QueueParts, Sizes
<1>3. PICK w : w = Waiting(q, d)
  OBVIOUS
<1>4. PICK S : w \in Seq(S) /\ Len(w) = e /\ \A k \in 1 .. e : w[k] = d[Place(q, k)]
  BY <1>1, <1>2, <1>3, WaitingSeq
<1>5. c \in Nat /\ c <= e
  BY <1>1, <1>2
<1>6. SubSeq(w, 1, c) = [k \in 1 .. c |-> w[k]]
  BY <1>2, <1>4, <1>5
<1>7. \A k \in 1 .. c : Delivery(AfterPops(queue)[k - 1]) = w[k]
  <2>. TAKE k \in 1 .. c
  <2>1. k - 1 \in 0 .. q.queuedElements /\ k \in 1 .. e /\ 1 \in Int
        /\ (k - 1) + 1 = k
    BY <1>2, <1>5
  <2>2. PICK r : r = AfterPops(q)[k - 1]
    OBVIOUS
  <2>3. r \in Queue /\ r.queuedElements = q.queuedElements - (k - 1)
        /\ r.youngestElement = q.youngestElement
        /\ TakesOldest(r) /\ r.queuedElements > 0
    BY <1>1, <1>2, <1>5, <2>1, <2>2, PopsTyped, OldestInRow
  <2>4. Place(r, 1) = Place(q, (k - 1) + 1)
    BY <1>1, <2>1, <2>3, PlaceAfterPops
  <2>5. ElementToBePopped(r) = Place(q, k)
    BY <2>1, <2>3, <2>4 DEF TakesOldest
  <2>. QED
    BY <1>1, <1>4, <2>1, <2>2, <2>5 DEF Delivery
<1>. QED
  BY <1>1, <1>3, <1>6, <1>7

LEMMA ServiceView ==
    Service!vars = <<Waiting(queue, g_switchRecvDescriptorQueue),
                     gpf_switchRecvFrameHandler, g_switchNFrames, delivered>>
BY WaitingNow, Zenon DEF Service!vars

LEMMA ServiceStarts == Init => Service!Init
<1>. SUFFICES ASSUME Init PROVE Service!Init
  OBVIOUS
<1>1. queue.queuedElements = 0
  BY DEF Init
<1>2. [k \in 1 .. queue.queuedElements |-> g_switchRecvDescriptorQueue[Queued(k)]] = <<>>
  BY <1>1
<1>. QED
  BY <1>2, Zenon DEF Init, Service!Init

\* The variables of the service, as the queue shows them.
LEMMA ServiceArrives ==
    ASSUME MemoryInv, NEW f \in Frame, Enqueue(f)
    PROVE  Service!Arrive(f)
<1>1. /\ queue \in Queue
      /\ g_switchRecvDescriptorQueue \in [Element -> Frame \cup {NoFrame}]
  BY TypeMeans DEF MemoryInv, TypeInv
<1>2. /\ queue.queuedElements < NElements
      /\ queue' = Pushed(queue, FrameLen[f])
      /\ g_switchRecvDescriptorQueue' =
             [g_switchRecvDescriptorQueue EXCEPT ![NextElement(queue)] = f]
      /\ ~gpf_switchRecvFrameHandler /\ delivered' = <<>>
      /\ UNCHANGED <<gpf_switchRecvFrameHandler, g_switchNFrames>>
  BY DEF Enqueue, HasRoom
<1>3. FrameLen[f] \in Nat \ {0} /\ FrameLen[f] <= Word16 - 1
  BY Sizes
<1>4. /\ queue' \in Queue
      /\ queue'.queuedElements = queue.queuedElements + 1
      /\ queue'.youngestElement = NextElement(queue)
  BY <1>1, <1>2, <1>3, PushedTyped
<1>5. Waiting(queue', g_switchRecvDescriptorQueue')
        = Append(Waiting(queue, g_switchRecvDescriptorQueue), f)
  BY <1>1, <1>2, <1>4, WaitingPushed
<1>6. Len(Waiting(queue, g_switchRecvDescriptorQueue)) < NElements
  BY <1>1, <1>2, WaitingTyped
<1>. QED
  BY <1>2, <1>5, <1>6, WaitingNow, WaitingNext, Zenon DEF Service!Arrive

\* What the steps other than Enqueue need to know of the frames that wait.
LEMMA WaitingStays ==
    ASSUME UNCHANGED <<queue, g_switchRecvDescriptorQueue>>
    PROVE  Waiting(queue', g_switchRecvDescriptorQueue')
             = Waiting(queue, g_switchRecvDescriptorQueue)
OBVIOUS

LEMMA ServiceHandsOver ==
    ASSUME TypeOK, NEW f \in Frame, HandOver(f)
    PROVE  Service!Arrive(f)
<1>1. /\ gpf_switchRecvFrameHandler /\ delivered' = <<f>>
      /\ gpf_switchRecvFrameHandler' = (g_switchNFrames # 1)
      /\ g_switchNFrames' = IF g_switchNFrames > 0 THEN g_switchNFrames - 1 ELSE 0
      /\ UNCHANGED <<queue, g_switchRecvDescriptorQueue>>
  BY DEF HandOver
<1>2. g_switchNFrames \in Nat
  BY TypeMeans, Words
<1>3. (g_switchNFrames # 1) <=> ~(g_switchNFrames > 0 /\ 1 = g_switchNFrames)
  BY <1>2
<1>4. gpf_switchRecvFrameHandler' = ~(g_switchNFrames > 0 /\ 1 = g_switchNFrames)
  BY <1>1, <1>3, Zenon
<1>5. Service!Served(g_switchNFrames, 1)
  BY <1>1, <1>4, Zenon DEF Service!Served
<1>. QED
  BY <1>1, <1>5, WaitingStays, WaitingNow, WaitingNext, Zenon DEF Service!Arrive

LEMMA ServiceListens ==
    ASSUME TypeOK, TakesOldest(queue), NEW n \in Requests, RecvSwitchFrameLoop(n)
    PROVE  Service!Listen(n)
<1>0. queue \in Queue /\ n \in Nat
  BY TypeMeans, Sizes, Words
<1>1. PICK c : c = Count(queue, n)
  OBVIOUS
<1>2. c \in 0 .. queue.queuedElements
  BY <1>0, <1>1, CountBounds
<1>3. /\ queue' = AfterPops(queue)[c]
      /\ delivered' = [k \in 1 .. c |-> Delivery(AfterPops(queue)[k - 1])]
      /\ gpf_switchRecvFrameHandler' = ~(n > 0 /\ c = n)
      /\ g_switchNFrames' = IF n > 0 THEN n - c ELSE 0
      /\ UNCHANGED <<g_switchRecvDescriptorQueue, memory>>
  BY <1>1, LoopSteps
<1>4. PICK w : w = Waiting(queue, g_switchRecvDescriptorQueue)
  OBVIOUS
<1>5. Len(w) = queue.queuedElements
  BY <1>0, <1>4, WaitingSeq
<1>6. c = IF n = 0 \/ n > Len(w) THEN Len(w) ELSE n
  BY <1>1, <1>5, Zenon DEF Count
<1>7. delivered' = SubSeq(w, 1, c)
  BY <1>0, <1>2, <1>3, <1>4, PopsDeliver
<1>8. Waiting(queue', g_switchRecvDescriptorQueue') = SubSeq(w, c + 1, Len(w))
  <2>1. /\ queue' \in Queue
        /\ queue'.queuedElements = queue.queuedElements - c
        /\ queue'.youngestElement = queue.youngestElement
    BY <1>0, <1>2, <1>3, PopsTyped
  <2>2. Waiting(queue', g_switchRecvDescriptorQueue) = SubSeq(w, c + 1, Len(w))
    BY <1>0, <1>2, <1>4, <2>1, WaitingPopped
  <2>. QED
    BY <1>3, <2>2
<1>9. Service!Served(n, c)
  BY <1>3, Zenon DEF Service!Served
<1>. QED
  BY <1>4, <1>6, <1>7, <1>8, <1>9, WaitingNow, WaitingNext, Zenon DEF Service!Listen

LEMMA ServiceFetches ==
    ASSUME TypeOK, TakesOldest(queue), RecvSwitchFrame
    PROVE  Service!Fetch
<1>0. queue \in Queue
  BY TypeMeans
<1>1. /\ IF queue.queuedElements > 0
         THEN delivered' = <<Delivery(queue)>> /\ queue' = Popped(queue)
         ELSE delivered' = <<>> /\ UNCHANGED queue
      /\ UNCHANGED <<g_switchRecvDescriptorQueue, gpf_switchRecvFrameHandler,
                     g_switchNFrames>>
  BY DEF RecvSwitchFrame
<1>2. PICK w : w = Waiting(queue, g_switchRecvDescriptorQueue)
  OBVIOUS
<1>3. PICK S : /\ w \in Seq(S) /\ Len(w) = queue.queuedElements
               /\ \A k \in 1 .. queue.queuedElements :
                      w[k] = g_switchRecvDescriptorQueue[Place(queue, k)]
  BY <1>0, <1>2, WaitingSeq
<1>4. PICK e \in Nat : e = queue.queuedElements
  BY <1>0, QueueParts, Sizes
<1>5. CASE e > 0
  <2>1. delivered' = <<Delivery(queue)>> /\ queue' = Popped(queue)
    BY <1>1, <1>4, <1>5
  <2>2. /\ queue' \in Queue
        /\ queue'.queuedElements = queue.queuedElements - 1
        /\ queue'.youngestElement = queue.youngestElement
    BY <1>0, <1>4, <1>5, <2>1, PoppedTyped
  <2>3. 1 \in 0 .. queue.queuedElements /\ 1 + 1 = 2
    BY <1>4, <1>5
  <2>4. Waiting(queue', g_switchRecvDescriptorQueue) = SubSeq(w, 2, Len(w))
    BY <1>0, <1>2, <2>2, <2>3, WaitingPopped
  <2>5. Delivery(queue) = w[1]
    <3>1. 1 \in 1 .. queue.queuedElements
      BY <1>4, <1>5
    <3>. QED
      BY <1>0, <1>3, <1>4, <1>5, <3>1 DEF Delivery, TakesOldest
  <2>6. SubSeq(w, 1, 1) = <<w[1]>>
    <3>1. SubSeq(w, 1, 1) = [k \in 1 .. 1 |-> w[k]]
      <4>1. Len(w) \in Nat /\ 1 <= Len(w)
        BY <1>3, <1>4, <1>5
      <4>. QED
        BY <1>3, <4>1
    <3>2. \A k \in 1 .. 1 : k = 1
      OBVIOUS
    <3>3. [k \in 1 .. 1 |-> w[k]] = [k \in 1 .. 1 |-> w[1]]
      BY <3>2
    <3>4. \A x : [k \in 1 .. 1 |-> x] = <<x>>
      OBVIOUS
    <3>. QED
      BY <3>1, <3>3, <3>4, Zenon
  <2>. QED
    BY <1>1, <1>2, <2>1, <2>4, <2>5, <2>6, WaitingNow, WaitingNext, Zenon
       DEF Service!Fetch
<1>6. CASE e = 0
  <2>1. delivered' = <<>> /\ UNCHANGED <<queue, g_switchRecvDescriptorQueue>>
    BY <1>1, <1>4, <1>6
  <2>2. Len(w) = 0
    BY <1>3, <1>4, <1>6
  <2>3. w = <<>>
    BY <1>3, <2>2
  <2>4. SubSeq(w, 1, 1) = <<>> /\ SubSeq(w, 2, Len(w)) = w
    <3>1. SubSeq(<<>>, 1, 1) = <<>> /\ SubSeq(<<>>, 2, 0) = <<>>
      OBVIOUS
    <3>. QED
      BY <2>2, <2>3, <3>1, Zenon
  <2>. QED
    BY <1>1, <1>2, <2>1, <2>4, WaitingStays, WaitingNow, WaitingNext, Zenon
       DEF Service!Fetch
<1>. QED
  BY <1>4, <1>5, <1>6

LEMMA StepServes ==
    MemoryInv /\ PopsOldest /\ [Next]_vars => [Service!Next]_(Service!vars)
<1>. SUFFICES ASSUME MemoryInv, TakesOldest(queue), [Next]_vars
              PROVE  [Service!Next]_(Service!vars)
  BY PopsOldestMeans
<1>0. TypeOK
  BY DEF MemoryInv, TypeInv
<1>1. CASE Dispatch
  <2>1. PICK f \in Frame : HandOver(f) \/ Enqueue(f) \/ DropFrame(f)
    BY <1>1 DEF Dispatch, DispatchRecvSwitchFrame
  <2>2. CASE HandOver(f)
    BY <1>0, <2>2, ServiceHandsOver, Zenon DEF Service!Next
  <2>3. CASE Enqueue(f)
    BY <2>3, ServiceArrives, Zenon DEF Service!Next
  <2>4. CASE DropFrame(f)
    <3>1. /\ ~gpf_switchRecvFrameHandler /\ delivered' = <<>>
          /\ UNCHANGED <<queue, g_switchRecvDescriptorQueue,
                         gpf_switchRecvFrameHandler, g_switchNFrames>>
      BY <2>4 DEF DropFrame
    <3>2. Service!Drop
      BY <3>1, WaitingStays, WaitingNow, WaitingNext, Zenon DEF Service!Drop
    <3>. QED
      BY <3>2, Zenon DEF Service!Next
  <2>. QED
    BY <2>1, <2>2, <2>3, <2>4
<1>2. \A n \in Requests : n \in 0 .. 255
  <2>1. Word8 - 1 = 255
    BY SMT DEF Word8
  <2>. QED
    BY <2>1, Sizes
<1>3. CASE Loop
  <2>1. PICK n \in Requests : RecvSwitchFrameLoop(n)
    BY <1>3 DEF Loop
  <2>2. Service!Listen(n)
    BY <1>0, <2>1, ServiceListens
  <2>. QED
    BY <1>2, <2>2, Zenon DEF Service!Next
<1>4. CASE Remove
  <2>1. PICK n \in Requests : RemoveHandler(n)
    BY <1>4 DEF Remove
  <2>2. /\ gpf_switchRecvFrameHandler' = FALSE /\ g_switchNFrames' = n
        /\ delivered' = <<>>
        /\ UNCHANGED <<queue, g_switchRecvDescriptorQueue>>
    BY <2>1 DEF RemoveHandler
  <2>3. Service!StopListening(n)
    BY <2>2, WaitingStays, WaitingNow, WaitingNext, Zenon DEF Service!StopListening
  <2>. QED
    BY <1>2, <2>3, Zenon DEF Service!Next
<1>5. CASE RecvSwitchFrame
  BY <1>0, <1>5, ServiceFetches, Zenon DEF Service!Next
<1>6. CASE UNCHANGED vars
  <2>1. UNCHANGED <<queue, g_switchRecvDescriptorQueue, gpf_switchRecvFrameHandler,
                    g_switchNFrames, delivered>>
    BY <1>6 DEF vars
  <2>. QED
    BY <2>1, WaitingStays, WaitingNow, WaitingNext, Zenon DEF Service!vars
<1>. QED
  BY <1>1, <1>3, <1>4, <1>5, <1>6 DEF Next

\* In every behaviour whose pops take the oldest element, the ring of elements
\* is an ordinary queue for its users: frames are delivered once, in the order of
\* their arrival, to listeners and callers alike.
THEOREM QueueServesReceivers == Spec /\ []PopsOldest => ImplementsRecvService
BY ServiceStarts, MemoryAtStart, MemoryKept, StepServes, PTL
   DEF Spec, ImplementsRecvService, Service!Spec
=============================================================================
