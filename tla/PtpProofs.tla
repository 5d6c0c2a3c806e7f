----------------------------- MODULE PtpProofs -----------------------------
(***************************************************************************)
(* Proofs about the PTP clocks, for every number of switches, range of the *)
(* clocks and set of offsets and ratios.  The types hold however many of   *)
(* the switches are configured as the master, the rest as long as one is.  *)
(* The inductive invariant for that, PtpInv, says of each moment of a call *)
(* what its remaining transfers will make of the clocks; TransferStep,     *)
(* TickStep and the lemmas about the calls show that every step keeps it   *)
(* and is one of PtpService, or none.                                      *)
(***************************************************************************)
EXTENDS Ptp, SequenceTheorems, WellFoundedInduction, TLAPS

-----------------------------------------------------------------------------
(* Numbers *)

Less == {ss \in Nat \X Nat : ss[1] < ss[2]}

\* Every set of numbers that has an element has a least one.
LEMMA LeastElement ==
    ASSUME NEW S \in SUBSET Nat, S # {}
    PROVE  \E x \in S : \A y \in S : x <= y
  <1>1. IsWellFoundedOn(Less, Nat)
    BY NatLessThanWellFounded DEF OpToRel, Less
  <1>2. PICK x \in S : \A y \in S : ~(<<y, x>> \in Less)
    BY <1>1, WFMin
  <1>3. ASSUME NEW y \in S PROVE x <= y
    <2>1. <<y, x>> \in Nat \X Nat /\ <<y, x>>[1] = y /\ <<y, x>>[2] = x
      OBVIOUS
    <2>2. y < x => <<y, x>> \in Less
      BY <2>1 DEF Less
    <2>3. x \in Nat /\ y \in Nat
      OBVIOUS
    <2>4. QED BY <1>2, <2>2, <2>3
  <1>4. QED BY <1>3

\* So has a set of numbers with a bound a greatest.
LEMMA GreatestElement ==
    ASSUME NEW n \in Nat, NEW S \in SUBSET (0 .. n), S # {}
    PROVE  \E x \in S : \A y \in S : y <= x
  <1> DEFINE below == {n - x : x \in S}
  <1>1. below \in SUBSET Nat /\ below # {}
    <2>1. \A x \in S : n - x \in Nat
      OBVIOUS
    <2>2. below \in SUBSET Nat
      BY <2>1, Zenon
    <2>3. below # {}
      OBVIOUS
    <2>4. QED BY <2>2, <2>3
  <1>2. PICK z \in below : \A y \in below : z <= y
    <2> HIDE DEF below
    <2>1. QED BY <1>1, LeastElement
  <1>3. PICK x \in S : z = n - x
    OBVIOUS
  <1>4. ASSUME NEW y \in S PROVE y <= x
    <2>1. n - y \in below
      OBVIOUS
    <2>2. n - x <= n - y
      BY <1>2, <1>3, <2>1
    <2>3. x \in 0 .. n /\ y \in 0 .. n
      OBVIOUS
    <2>4. QED BY <2>2, <2>3
  <1>5. QED BY <1>4

\* Quotients and remainders.
LEMMA RemainderIs ==
    ASSUME NEW n \in Nat \ {0}, NEW q \in Int, NEW r \in 0 .. n - 1
    PROVE  (n * q + r) % n = r
  <1>1. n * q + r = n * q + r /\ n * q \in Int /\ n * q + r \in Int
    OBVIOUS
  <1>2. QED BY <1>1

-----------------------------------------------------------------------------
(* Clocks and transfers *)

\* Only one switch is configured as the master.
OneMaster == \E m \in PtpSwitch : \A s \in PtpSwitch : ptpMaster[s] <=> s = m

Modes == {"set", "add", "sub"}

Ops == [register : {"control2"}, value : Modes, sync : BOOLEAN]
          \cup [register : {"control3", "control4"}, value : 0 .. ClockRange - 1]
          \cup {Correct}

LoopSet == [switches : SUBSET PtpSwitch, body : Seq(Ops)]

\* A loop over no switches is none.
Pend(L, body, T) == IF L = {} THEN T ELSE <<Loop(L, body)>> \o T

\* With one master, PtpMasterSwitch is it and the slaves are all other switches.
LEMMA Master1 ==
    ASSUME OneMaster
    PROVE  /\ PtpMasterSwitch \in PtpSwitch /\ Slaves = PtpSwitch \ {PtpMasterSwitch}
           /\ PtpSwitch \subseteq Nat
  <1>1. PICK m \in PtpSwitch : \A s \in PtpSwitch : ptpMaster[s] <=> s = m
    BY DEF OneMaster
  <1>2. \A s \in PtpSwitch : s \in Nat
    BY PtpAssumption DEF PtpSwitch
  <1>3. \A c : c \in PtpSwitch /\ ptpMaster[c] /\ (\A t \in PtpSwitch : ptpMaster[t] => t <= c) <=> c = m
    BY <1>1, <1>2
  <1>4. PtpMasterSwitch = m
    <2>1. \E s \in PtpSwitch : ptpMaster[s]
      BY <1>1
    <2>2. \E c \in PtpSwitch : ptpMaster[c] /\ \A t \in PtpSwitch : ptpMaster[t] => t <= c
      BY <1>3
    <2>3. QED BY <1>3, <2>1, <2>2 DEF PtpMasterSwitch
  <1>5. Slaves = PtpSwitch \ {m}
    BY <1>1 DEF Slaves
  <1>6. QED BY <1>2, <1>4, <1>5

\* Sums and differences of clocks.
LEMMA ClockSums ==
    ASSUME NEW a \in 0 .. ClockRange - 1, NEW b \in 0 .. ClockRange - 1
    PROVE  /\ (a + b) % ClockRange = IF a + b < ClockRange THEN a + b ELSE a + b - ClockRange
           /\ (a - b) % ClockRange = IF a >= b THEN a - b ELSE a - b + ClockRange
           /\ (a + b) % ClockRange \in 0 .. ClockRange - 1
           /\ (a - b) % ClockRange \in 0 .. ClockRange - 1
  <1>1. ClockRange \in Nat \ {0}
    BY PtpAssumption
  <1>2. ASSUME NEW r \in 0 .. ClockRange - 1
        PROVE  r % ClockRange = r /\ (r + ClockRange) % ClockRange = r /\ (r - ClockRange) % ClockRange = r
    <2>1. (ClockRange * 0 + r) % ClockRange = r
      BY <1>1, RemainderIs
    <2>2. (ClockRange * 1 + r) % ClockRange = r
      BY <1>1, RemainderIs
    <2>3. (ClockRange * (-1) + r) % ClockRange = r
      BY <1>1, RemainderIs
    <2>4. ClockRange * 0 + r = r /\ ClockRange * 1 + r = r + ClockRange /\ ClockRange * (-1) + r = r - ClockRange
      BY <1>1
    <2>5. QED BY <2>1, <2>2, <2>3, <2>4
  <1>3. (a + b) % ClockRange = IF a + b < ClockRange THEN a + b ELSE a + b - ClockRange
    <2>1. CASE a + b < ClockRange
      <3>1. a + b \in 0 .. ClockRange - 1
        BY <1>1, <2>1
      <3>2. QED BY <1>2, <2>1, <3>1
    <2>2. CASE ~(a + b < ClockRange)
      <3> DEFINE r == a + b - ClockRange
      <3>1. r \in 0 .. ClockRange - 1 /\ a + b = r + ClockRange
        BY <1>1, <2>2
      <3> HIDE DEF r
      <3>2. (r + ClockRange) % ClockRange = r
        BY <1>2, <3>1
      <3>3. (a + b) % ClockRange = r
        BY <3>1, <3>2
      <3>4. QED BY <2>2, <3>3 DEF r
    <2>3. QED BY <2>1, <2>2
  <1>4. (a - b) % ClockRange = IF a >= b THEN a - b ELSE a - b + ClockRange
    <2>1. CASE a >= b
      <3>1. a - b \in 0 .. ClockRange - 1
        BY <1>1, <2>1
      <3>2. QED BY <1>2, <2>1, <3>1
    <2>2. CASE ~(a >= b)
      <3> DEFINE r == a - b + ClockRange
      <3>1. r \in 0 .. ClockRange - 1 /\ a - b = r - ClockRange
        BY <1>1, <2>2
      <3> HIDE DEF r
      <3>2. (r - ClockRange) % ClockRange = r
        BY <1>2, <3>1
      <3>3. (a - b) % ClockRange = r
        BY <3>1, <3>2
      <3>4. QED BY <2>2, <3>3 DEF r
    <2>3. QED BY <2>1, <2>2
  <1>5. QED BY <1>1, <1>3, <1>4

\* Time that passes for two clocks alike keeps what parts them.
LEMMA DifferencesLast ==
    ASSUME NEW a \in 0 .. ClockRange - 1, NEW b \in 0 .. ClockRange - 1, NEW r \in 0 .. ClockRange - 1
    PROVE  /\ (((a + r) % ClockRange) - ((b + r) % ClockRange)) % ClockRange = (a - b) % ClockRange
           /\ (((a + r) % ClockRange) + b) % ClockRange = (((a + b) % ClockRange) + r) % ClockRange
           /\ (((a + r) % ClockRange) - b) % ClockRange = (((a - b) % ClockRange) + r) % ClockRange
  <1>1. ClockRange \in Nat \ {0}
    BY PtpAssumption
  <1>2. PICK x, y, z, w : x = (a + r) % ClockRange /\ y = (b + r) % ClockRange
                          /\ z = (a + b) % ClockRange /\ w = (a - b) % ClockRange
    OBVIOUS
  <1>3. /\ x = IF a + r < ClockRange THEN a + r ELSE a + r - ClockRange
        /\ y = IF b + r < ClockRange THEN b + r ELSE b + r - ClockRange
        /\ z = IF a + b < ClockRange THEN a + b ELSE a + b - ClockRange
        /\ w = IF a >= b THEN a - b ELSE a - b + ClockRange
        /\ x \in 0 .. ClockRange - 1 /\ y \in 0 .. ClockRange - 1
        /\ z \in 0 .. ClockRange - 1 /\ w \in 0 .. ClockRange - 1
    BY <1>2, ClockSums
  <1>9. (x - y) % ClockRange = IF x >= y THEN x - y ELSE x - y + ClockRange
    <2>1. x \in 0 .. ClockRange - 1 /\ y \in 0 .. ClockRange - 1
      BY <1>3
    <2>2. QED BY <2>1, ClockSums
  <1>10. (x + b) % ClockRange = IF x + b < ClockRange THEN x + b ELSE x + b - ClockRange
    <2>1. x \in 0 .. ClockRange - 1 /\ b \in 0 .. ClockRange - 1
      BY <1>3
    <2>2. QED BY <2>1, ClockSums
  <1>11. (x - b) % ClockRange = IF x >= b THEN x - b ELSE x - b + ClockRange
    <2>1. x \in 0 .. ClockRange - 1 /\ b \in 0 .. ClockRange - 1
      BY <1>3
    <2>2. QED BY <2>1, ClockSums
  <1>12. (z + r) % ClockRange = IF z + r < ClockRange THEN z + r ELSE z + r - ClockRange
    <2>1. z \in 0 .. ClockRange - 1 /\ r \in 0 .. ClockRange - 1
      BY <1>3
    <2>2. QED BY <2>1, ClockSums
  <1>13. (w + r) % ClockRange = IF w + r < ClockRange THEN w + r ELSE w + r - ClockRange
    <2>1. w \in 0 .. ClockRange - 1 /\ r \in 0 .. ClockRange - 1
      BY <1>3
    <2>2. QED BY <2>1, ClockSums
  <1>5. (x - y) % ClockRange = w
    BY <1>1, <1>3, <1>9
  <1>6. (x + b) % ClockRange = (z + r) % ClockRange
    BY <1>1, <1>3, <1>10, <1>12
  <1>7. (x - b) % ClockRange = (w + r) % ClockRange
    BY <1>1, <1>3, <1>11, <1>13
  <1>8. QED BY <1>2, <1>5, <1>6, <1>7

\* The correction brings a clock to the master's.
LEMMA CorrectionIsExact ==
    ASSUME NEW a \in 0 .. ClockRange - 1, NEW b \in 0 .. ClockRange - 1
    PROVE  (b + ((a - b) % ClockRange)) % ClockRange = a
  <1>1. ClockRange \in Nat \ {0}
    BY PtpAssumption
  <1>2. PICK w : w = (a - b) % ClockRange
    OBVIOUS
  <1>3. w = (IF a >= b THEN a - b ELSE a - b + ClockRange) /\ w \in 0 .. ClockRange - 1
    BY <1>2, ClockSums
  <1>4. (b + w) % ClockRange = IF b + w < ClockRange THEN b + w ELSE b + w - ClockRange
    BY <1>3, ClockSums
  <1>5. QED BY <1>1, <1>2, <1>3, <1>4

-----------------------------------------------------------------------------
(* Loops *)

\* Sequences of one and two elements.
LEMMA SmallSequences ==
    ASSUME NEW S, NEW x \in S, NEW y \in S
    PROVE  <<x>> \in Seq(S) /\ <<x, y>> \in Seq(S)
  OBVIOUS

\* What concatenations of short sequences are.
LEMMA SmallConcatenations ==
    ASSUME NEW S, NEW a \in S, NEW b \in S, NEW c \in S
    PROVE  <<a>> \o <<b, c>> = <<a, b, c>> /\ <<a>> \o <<b>> = <<a, b>>
  <1>1. <<a>> \in Seq(S) /\ <<b>> \in Seq(S) /\ <<b, c>> \in Seq(S) /\ Len(<<a>>) = 1 /\ Len(<<b>>) = 1 /\ Len(<<b, c>>) = 2
    OBVIOUS
  <1>2. <<a, b>> \in Seq(S) /\ <<a, b, c>> \in Seq(S) /\ Len(<<a, b>>) = 2 /\ Len(<<a, b, c>>) = 3
    OBVIOUS
  <1>3. <<a>> \o <<b, c>> = <<a, b, c>>
    <2>1. PICK s : s = <<a>> \o <<b, c>>
      OBVIOUS
    <2>2. s \in Seq(S) /\ Len(s) = 3 /\ \A i \in 1 .. 3 : s[i] = IF i <= 1 THEN a ELSE <<b, c>>[i - 1]
      BY <1>1, <2>1, ConcatProperties
    <2>3. s[1] = a /\ s[2] = b /\ s[3] = c
      BY <2>2
    <2>4. \A i \in 1 .. 3 : s[i] = <<a, b, c>>[i]
      BY <2>3
    <2>5. s = <<a, b, c>>
      BY <1>2, <2>2, <2>4, SeqEqual
    <2>6. QED BY <2>1, <2>5
  <1>4. <<a>> \o <<b>> = <<a, b>>
    <2>1. PICK s : s = <<a>> \o <<b>>
      OBVIOUS
    <2>2. s \in Seq(S) /\ Len(s) = 2 /\ \A i \in 1 .. 2 : s[i] = IF i <= 1 THEN a ELSE <<b>>[i - 1]
      BY <1>1, <2>1, ConcatProperties
    <2>4. \A i \in 1 .. 2 : s[i] = <<a, b>>[i]
      BY <2>2
    <2>5. s = <<a, b>>
      BY <1>2, <2>2, <2>4, SeqEqual
    <2>6. QED BY <2>1, <2>5
  <1>5. QED BY <1>3, <1>4

\* A sequence with an element put before it.
LEMMA Cons ==
    ASSUME NEW S, NEW x \in S, NEW T \in Seq(S)
    PROVE  /\ <<x>> \o T \in Seq(S) /\ <<x>> \o T # <<>>
           /\ Head(<<x>> \o T) = x /\ Tail(<<x>> \o T) = T
  OBVIOUS

\* A pending transfer to the clock of the master is one of the first loop or of the rest.
LEMMA PendingCons ==
    ASSUME NEW L, NEW body, NEW S, NEW T \in Seq(S), Loop(L, body) \in S
    PROVE  Pending(<<Loop(L, body)>> \o T) <=>
              \/ Head(body).register \in {"control3", "control4"} /\ PtpMasterSwitch \in L
              \/ Pending(T)
  <1> DEFINE x == Loop(L, body)  U == <<x>> \o T
  <1>1. /\ <<x>> \in Seq(S) /\ Len(<<x>>) = 1 /\ <<x>>[1] = x
        /\ Len(T) \in Nat /\ DOMAIN T = 1 .. Len(T)
    BY LenProperties
  <1>2. U \in Seq(S) /\ Len(U) = 1 + Len(T) /\ \A i \in 1 .. 1 + Len(T) : U[i] = IF i <= 1 THEN x ELSE T[i - 1]
    BY <1>1, ConcatProperties
  <1>3. DOMAIN U = 1 .. 1 + Len(T)
    BY <1>2, LenProperties
  <1>4. U[1] = x /\ \A i \in 1 .. Len(T) : U[i + 1] = T[i]
    BY <1>1, <1>2
  <1>5. x.switches = L /\ x.body = body
    BY DEF Loop
  <1> HIDE DEF x, U
  <1>6. ASSUME Pending(U)
        PROVE  \/ Head(body).register \in {"control3", "control4"} /\ PtpMasterSwitch \in L
               \/ Pending(T)
    <2>1. PICK i \in DOMAIN U : Head(U[i].body).register \in {"control3", "control4"} /\ PtpMasterSwitch \in U[i].switches
      BY <1>6 DEF Pending
    <2>2. CASE i = 1
      BY <1>4, <1>5, <2>1, <2>2
    <2>3. CASE i # 1
      <3>1. i - 1 \in DOMAIN T /\ U[i] = T[i - 1]
        BY <1>1, <1>2, <1>3, <2>3
      <3>2. QED BY <2>1, <3>1 DEF Pending
    <2>4. QED BY <2>2, <2>3
  <1>7. ASSUME Head(body).register \in {"control3", "control4"} /\ PtpMasterSwitch \in L
        PROVE  Pending(U)
    <2>1. 1 \in DOMAIN U
      BY <1>1, <1>3
    <2>2. QED BY <1>4, <1>5, <1>7, <2>1 DEF Pending
  <1>8. ASSUME Pending(T) PROVE Pending(U)
    <2>1. PICK i \in DOMAIN T : Head(T[i].body).register \in {"control3", "control4"} /\ PtpMasterSwitch \in T[i].switches
      BY <1>8 DEF Pending
    <2>2. i + 1 \in DOMAIN U /\ U[i + 1] = T[i]
      BY <1>1, <1>3, <1>4
    <2>3. QED BY <2>1, <2>2 DEF Pending
  <1>9. QED BY <1>6, <1>7, <1>8 DEF U, x

\* Without transfers none to the clock of the master is pending.
LEMMA PendingNothing == ~Pending(<<>>)
  BY DEF Pending

\* Loops of the calls.
LEMMA OpsTyped ==
    /\ \A m \in Modes, y \in BOOLEAN : SetMode(m, y) \in Ops
    /\ \A v \in 0 .. ClockRange - 1 : SetClock(v) \in Ops /\ SetRatio(v) \in Ops
    /\ Correct \in Ops
  BY DEF Ops, SetMode, SetClock, SetRatio, Correct, Modes

\* The transfers that correct a slave are transfers.
LEMMA SynchronisedTyped ==
    Synchronised \in Seq(Ops) /\ <<Correct>> \in Seq(Ops) /\ SetMode("add", FALSE) \in Ops
  <1>1. SetMode("add", FALSE) \in Ops
    BY OpsTyped DEF Modes
  <1>2. Correct \in Ops
    BY OpsTyped
  <1>3. <<SetMode("add", FALSE), Correct>> \in Seq(Ops) /\ <<Correct>> \in Seq(Ops)
    BY <1>1, <1>2, SmallSequences
  <1>4. QED BY <1>1, <1>3 DEF Synchronised

\* A loop before others gives loops, and adds its first transfer to those that are pending.
LEMMA PendTyped ==
    ASSUME NEW L \in SUBSET PtpSwitch, NEW body \in Seq(Ops), NEW T \in Seq(LoopSet)
    PROVE  /\ Loop(L, body) \in LoopSet /\ Pend(L, body, T) \in Seq(LoopSet)
           /\ Pending(Pend(L, body, T)) <=>
                 \/ Head(body).register \in {"control3", "control4"} /\ PtpMasterSwitch \in L
                 \/ Pending(T)
  <1>1. Loop(L, body) \in LoopSet
    BY DEF Loop, LoopSet
  <1>2. CASE L = {}
    BY <1>1, <1>2 DEF Pend
  <1>3. CASE L # {}
    BY <1>1, <1>3, Cons, PendingCons DEF Pend
  <1>4. QED BY <1>1, <1>2, <1>3

\* A step of the first loop.
LEMMA FirstLoop ==
    ASSUME NEW L, NEW body, NEW T, Head(transfers) = Loop(L, body), Tail(transfers) = T, Transfer
    PROVE  \E s \in L : /\ Effect(Head(body), s)
                        /\ transfers' = BodyLeft(Loop(L, body), s) \o SwitchesLeft(Loop(L, body), s) \o T
                        /\ UNCHANGED <<g_ptpControl2, call, synchronised>>
  <1>1. PICK loop : loop = Head(transfers)
    OBVIOUS
  <1>2. PICK s \in loop.switches : /\ Effect(Head(loop.body), s)
                                  /\ transfers' = BodyLeft(loop, s) \o SwitchesLeft(loop, s) \o Tail(transfers)
    BY <1>1, Zenon DEF Transfer
  <1>3. loop = Loop(L, body) /\ loop.switches = L /\ loop.body = body
    BY <1>1 DEF Loop
  <1>4. /\ Effect(Head(body), s)
        /\ transfers' = BodyLeft(Loop(L, body), s) \o SwitchesLeft(Loop(L, body), s) \o T
    BY <1>2, <1>3
  <1>5. UNCHANGED <<g_ptpControl2, call, synchronised>>
    BY DEF Transfer
  <1>6. s \in L
    BY <1>2, <1>3
  <1>7. QED BY <1>4, <1>5, <1>6

\* A step of a loop of one transfer.
LEMMA SingleStep ==
    ASSUME NEW L \in SUBSET PtpSwitch, L # {}, NEW op \in Ops, NEW T \in Seq(LoopSet),
           transfers = Pend(L, <<op>>, T), Transfer
    PROVE  \E s \in L : /\ Effect(op, s) /\ transfers' = Pend(L \ {s}, <<op>>, T)
                        /\ UNCHANGED <<g_ptpControl2, call, synchronised>>
  <1>1. Loop(L, <<op>>) \in LoopSet /\ <<op>> \in Seq(Ops)
    BY DEF Loop, LoopSet
  <1>2. Head(transfers) = Loop(L, <<op>>) /\ Tail(transfers) = T
    BY <1>1, Cons DEF Pend
  <1>3. PICK s \in L : /\ Effect(Head(<<op>>), s)
                       /\ transfers' = BodyLeft(Loop(L, <<op>>), s) \o SwitchesLeft(Loop(L, <<op>>), s) \o T
                       /\ UNCHANGED <<g_ptpControl2, call, synchronised>>
    BY <1>2, FirstLoop
  <1>4. Head(<<op>>) = op /\ BodyLeft(Loop(L, <<op>>), s) = <<>>
    BY DEF BodyLeft, Loop
  <1>5. SwitchesLeft(Loop(L, <<op>>), s) = IF L = {s} THEN <<>> ELSE <<Loop(L \ {s}, <<op>>)>>
    BY DEF SwitchesLeft, Loop
  <1>6. Loop(L \ {s}, <<op>>) \in LoopSet
    BY <1>1 DEF Loop, LoopSet
  <1>7. transfers' = Pend(L \ {s}, <<op>>, T)
    <2>1. CASE L = {s}
      <3>1. transfers' = (<<>> \o <<>>) \o T
        BY <1>3, <1>4, <1>5, <2>1
      <3>2. (<<>> \o <<>>) \o T = T
        BY ConcatEmptySeq, EmptySeq
      <3>3. L \ {s} = {}
        BY <2>1
      <3>4. QED BY <3>1, <3>2, <3>3 DEF Pend
    <2>2. CASE L # {s}
      <3>1. transfers' = (<<>> \o <<Loop(L \ {s}, <<op>>)>>) \o T
        BY <1>3, <1>4, <1>5, <2>2
      <3>2. <<Loop(L \ {s}, <<op>>)>> \in Seq(LoopSet)
        BY <1>6
      <3>3. <<>> \o <<Loop(L \ {s}, <<op>>)>> = <<Loop(L \ {s}, <<op>>)>>
        BY <3>2, ConcatEmptySeq
      <3>4. L \ {s} # {}
        BY <2>2
      <3>5. QED BY <3>1, <3>3, <3>4 DEF Pend
    <2>3. QED BY <2>1, <2>2
  <1>8. QED BY <1>3, <1>4, <1>7

\* A step of the loop that corrects the slaves.
LEMMA DoubleStep ==
    ASSUME NEW L \in SUBSET PtpSwitch, L # {}, NEW T \in Seq(LoopSet),
           transfers = Pend(L, Synchronised, T), Transfer
    PROVE  \E s \in L : /\ Effect(SetMode("add", FALSE), s)
                        /\ transfers' = Pend({s}, <<Correct>>, Pend(L \ {s}, Synchronised, T))
                        /\ UNCHANGED <<g_ptpControl2, call, synchronised>>
  <1>1. Synchronised \in Seq(Ops) /\ <<Correct>> \in Seq(Ops) /\ SetMode("add", FALSE) \in Ops
    BY SynchronisedTyped
  <1>2. Loop(L, Synchronised) \in LoopSet
    BY <1>1 DEF Loop, LoopSet
  <1>3. Head(transfers) = Loop(L, Synchronised) /\ Tail(transfers) = T
    BY <1>2, Cons DEF Pend
  <1>4. PICK s \in L : /\ Effect(Head(Synchronised), s)
                       /\ transfers' = BodyLeft(Loop(L, Synchronised), s) \o SwitchesLeft(Loop(L, Synchronised), s) \o T
                       /\ UNCHANGED <<g_ptpControl2, call, synchronised>>
    BY <1>3, FirstLoop
  <1>5. Head(Synchronised) = SetMode("add", FALSE) /\ Len(Synchronised) = 2 /\ Tail(Synchronised) = <<Correct>>
    BY DEF Synchronised
  <1>6. BodyLeft(Loop(L, Synchronised), s) = <<Loop({s}, <<Correct>>)>>
    <2>1. Loop(L, Synchronised).body = Synchronised
      BY DEF Loop
    <2>2. Len(Loop(L, Synchronised).body) # 1 /\ Tail(Loop(L, Synchronised).body) = <<Correct>>
      BY <1>5, <2>1
    <2>3. QED BY <2>2, Zenon DEF BodyLeft
  <1>7. SwitchesLeft(Loop(L, Synchronised), s) = IF L = {s} THEN <<>> ELSE <<Loop(L \ {s}, Synchronised)>>
    BY DEF SwitchesLeft, Loop
  <1>8. Loop(L \ {s}, Synchronised) \in LoopSet /\ Loop({s}, <<Correct>>) \in LoopSet
    BY <1>1 DEF Loop, LoopSet
  <1>9. SwitchesLeft(Loop(L, Synchronised), s) \o T = Pend(L \ {s}, Synchronised, T)
    <2>1. CASE L = {s}
      <3>1. <<>> \o T = T
        BY ConcatEmptySeq
      <3>2. L \ {s} = {}
        BY <2>1
      <3>3. QED BY <1>7, <2>1, <3>1, <3>2 DEF Pend
    <2>2. CASE L # {s}
      <3>1. L \ {s} # {}
        BY <2>2
      <3>2. QED BY <1>7, <2>2, <3>1 DEF Pend
    <2>3. QED BY <2>1, <2>2
  <1>10. transfers' = <<Loop({s}, <<Correct>>)>> \o (SwitchesLeft(Loop(L, Synchronised), s) \o T)
    <2>1. <<Loop({s}, <<Correct>>)>> \in Seq(LoopSet)
      BY <1>8
    <2>2. SwitchesLeft(Loop(L, Synchronised), s) \in Seq(LoopSet)
      BY <1>7, <1>8
    <2>3. QED BY <1>4, <1>6, <2>1, <2>2, ConcatAssociative
  <1>11. QED BY <1>4, <1>5, <1>9, <1>10 DEF Pend

\* The effect of each kind of transfer.
LEMMA Effects ==
    ASSUME PtpTypeOK, NEW s \in PtpSwitch
    PROVE  /\ \A m, y : Effect(SetMode(m, y), s) =>
                 /\ mode' = [mode EXCEPT ![s] = m] /\ UNCHANGED <<clock, ratio>>
                 /\ impulse' = IF s = PtpMasterSwitch THEN y ELSE impulse
                 /\ captured' = IF impulse' /\ ~impulse THEN clock ELSE captured
           /\ \A v : Effect(SetClock(v), s) =>
                 /\ clock' = [clock EXCEPT ![s] = Adjusted(s, v)]
                 /\ UNCHANGED <<mode, ratio, impulse, captured>>
           /\ \A v : Effect(SetRatio(v), s) =>
                 /\ ratio' = [ratio EXCEPT ![s] = v]
                 /\ UNCHANGED <<mode, clock, impulse, captured>>
           /\ Effect(Correct, s) =>
                 /\ clock' = [clock EXCEPT ![s] = Adjusted(s, (captured[PtpMasterSwitch] - captured[s]) % ClockRange)]
                 /\ UNCHANGED <<mode, ratio, impulse, captured>>
  <1>1. \A m, y : SetMode(m, y).register = "control2" /\ SetMode(m, y).value = m /\ SetMode(m, y).sync = y
    BY DEF SetMode
  <1>2. \A v : SetClock(v).register = "control3" /\ SetClock(v).value = v
    BY DEF SetClock
  <1>3. \A v : SetRatio(v).register = "control4" /\ SetRatio(v).value = v
    BY DEF SetRatio
  <1>4. Correct.register = "control6"
    BY DEF Correct
  <1>5. ASSUME NEW m, NEW y, Effect(SetMode(m, y), s)
        PROVE  /\ mode' = [mode EXCEPT ![s] = m] /\ UNCHANGED <<clock, ratio>>
               /\ impulse' = IF s = PtpMasterSwitch THEN y ELSE impulse
               /\ captured' = IF impulse' /\ ~impulse THEN clock ELSE captured
    BY <1>1, <1>5 DEF Effect
  <1>6. ASSUME NEW v, Effect(SetClock(v), s)
        PROVE  /\ clock' = [clock EXCEPT ![s] = Adjusted(s, v)]
               /\ UNCHANGED <<mode, ratio, impulse, captured>>
    BY <1>2, <1>6 DEF Effect
  <1>7. ASSUME NEW v, Effect(SetRatio(v), s)
        PROVE  /\ ratio' = [ratio EXCEPT ![s] = v]
               /\ UNCHANGED <<mode, clock, impulse, captured>>
    BY <1>3, <1>7 DEF Effect
  <1>8. ASSUME Effect(Correct, s)
        PROVE  /\ clock' = [clock EXCEPT ![s] = Adjusted(s, (captured[PtpMasterSwitch] - captured[s]) % ClockRange)]
               /\ UNCHANGED <<mode, ratio, impulse, captured>>
    BY <1>4, <1>8 DEF Effect
  <1>9. QED BY <1>5, <1>6, <1>7, <1>8

\* What a value written to a clock does, mode by mode; the clock stays in its range.
LEMMA AdjustedIs ==
    ASSUME PtpTypeOK, NEW s \in PtpSwitch, NEW v \in 0 .. ClockRange - 1
    PROVE  /\ mode[s] = "set" => Adjusted(s, v) = v
           /\ mode[s] = "add" => Adjusted(s, v) = (clock[s] + v) % ClockRange
           /\ mode[s] = "sub" => Adjusted(s, v) = (clock[s] - v) % ClockRange
           /\ Adjusted(s, v) \in 0 .. ClockRange - 1
  <1>1. mode[s] \in Modes /\ clock[s] \in 0 .. ClockRange - 1
    BY DEF PtpTypeOK, Modes
  <1>2. /\ mode[s] = "set" => Adjusted(s, v) = v
        /\ mode[s] = "add" => Adjusted(s, v) = (clock[s] + v) % ClockRange
        /\ mode[s] = "sub" => Adjusted(s, v) = (clock[s] - v) % ClockRange
    BY DEF Adjusted
  <1>3. Adjusted(s, v) \in 0 .. ClockRange - 1
    BY <1>1, <1>2, ClockSums DEF Modes
  <1>4. QED BY <1>2, <1>3

\* Ratios and offsets are values of a clock.
LEMMA RatioTyped ==
    /\ \A v \in Ratios \cup {1} : v \in 0 .. ClockRange - 1
    /\ \A v \in Offsets : v \in 0 .. ClockRange - 1
  BY PtpAssumption

-----------------------------------------------------------------------------
(* What is left of a call *)

SameRate == \A s, t \in PtpSwitch : ratio[s] = ratio[t]
InMode(X, m) == \A s \in X : mode[s] = m
Together == \A s, t \in PtpSwitch : clock[s] = clock[t]

\* Reset of the impulse.
Reset == Pend({PtpMasterSwitch}, <<SetMode("add", FALSE)>>, <<>>)

\* Between calls.
Resting ==
    /\ transfers = <<>> /\ ~impulse /\ SameRate /\ InMode(PtpSwitch, g_ptpControl2)
    /\ synchronised => Together

\* Synchronising is what is left.
Synchronising ==
    /\ transfers = SyncTransfers /\ ~impulse /\ SameRate /\ g_ptpControl2 = "add"

\* Either nothing follows, or the clocks are synchronised.
Follows(T) ==
    \/ T = <<>> /\ ~synchronised
    \/ T = SyncTransfers /\ g_ptpControl2 = "add"

Initialising(L) ==
    /\ transfers = Pend(L, <<SetMode("add", FALSE)>>, Pend(PtpSwitch, <<SetRatio(1)>>, SyncIfCascaded))
    /\ Follows(SyncIfCascaded) /\ g_ptpControl2 = "add"
    /\ InMode(PtpSwitch \ L, "add") /\ ~impulse /\ SameRate
    /\ call = [call |-> "rate", value |-> 1]

Rating(L, v, T) ==
    /\ transfers = Pend(L, <<SetRatio(v)>>, T)
    /\ Follows(T)
    /\ InMode(PtpSwitch, g_ptpControl2) /\ ~impulse
    /\ \A s \in PtpSwitch \ L : ratio[s] = v
    /\ call = [call |-> "rate", value |-> v]

\* The clock of the master is set; a line of one switch remembers its mode.
SettingMode(v, T) ==
    /\ transfers = Pend({PtpMasterSwitch}, <<SetMode("set", FALSE)>>, Pend({PtpMasterSwitch}, <<SetClock(v)>>, T))
    /\ Follows(T) /\ (T = <<>> => PtpSwitch = {PtpMasterSwitch} /\ g_ptpControl2 = "set")
    /\ ~impulse /\ SameRate
    /\ call = [call |-> "set", value |-> v]

SettingClock(v, T) ==
    /\ transfers = Pend({PtpMasterSwitch}, <<SetClock(v)>>, T)
    /\ Follows(T) /\ (T = <<>> => PtpSwitch = {PtpMasterSwitch} /\ g_ptpControl2 = "set")
    /\ mode[PtpMasterSwitch] = "set" /\ ~impulse /\ SameRate
    /\ call = [call |-> "set", value |-> v]

ChangingMode(L, m, v) ==
    /\ transfers = Pend(L, <<SetMode(m, FALSE)>>, Pend(PtpSwitch, <<SetClock(v)>>, <<>>))
    /\ g_ptpControl2 = m /\ InMode(PtpSwitch \ L, m) /\ ~impulse /\ SameRate
    /\ synchronised => Together
    /\ call = [call |-> m, value |-> v]

\* What a clock will be after an offset.
Target(L, v, s) == IF s \in L THEN Adjusted(s, v) ELSE clock[s]

Offsetting(L, v) ==
    /\ transfers = Pend(L, <<SetClock(v)>>, <<>>)
    /\ g_ptpControl2 \in {"add", "sub"} /\ InMode(PtpSwitch, g_ptpControl2) /\ ~impulse /\ SameRate
    /\ synchronised => \A s, t \in PtpSwitch : Target(L, v, s) = Target(L, v, t)
    /\ call = [call |-> g_ptpControl2, value |-> v]

\* The clock of a slave has gone on as that of the master since the impulse.
InStep(s) ==
    (captured[PtpMasterSwitch] - captured[s]) % ClockRange = (clock[PtpMasterSwitch] - clock[s]) % ClockRange

Correction(L) ==
    /\ impulse /\ SameRate /\ g_ptpControl2 = "add" /\ mode[PtpMasterSwitch] = "add"
    /\ \A s \in L : InStep(s)

Correcting(L) ==
    /\ transfers = Pend(L, Synchronised, Reset)
    /\ PtpMasterSwitch \notin L /\ Correction(L)
    /\ \A s \in PtpSwitch \ L : mode[s] = "add" /\ clock[s] = clock[PtpMasterSwitch]

CorrectingOne(u, L) ==
    /\ transfers = Pend({u}, <<Correct>>, Pend(L, Synchronised, Reset))
    /\ u # PtpMasterSwitch /\ u \notin L /\ PtpMasterSwitch \notin L /\ Correction(L \cup {u}) /\ mode[u] = "add"
    /\ \A s \in PtpSwitch \ (L \cup {u}) : mode[s] = "add" /\ clock[s] = clock[PtpMasterSwitch]

\* The inductive invariant.  ClocksAgree is not inductive: between calls the modes and
\* rates must agree as well, and within a call what is left of it must make them agree.
PtpInv ==
    /\ PtpTypeOK
    /\ \/ Resting
       \/ Synchronising
       \/ \E L \in SUBSET PtpSwitch :
             \/ Initialising(L)
             \/ Correcting(L)
             \/ \E u \in PtpSwitch : CorrectingOne(u, L)
             \/ \E v \in Ratios \cup {1}, T \in Seq(LoopSet) : Rating(L, v, T)
             \/ \E v \in Offsets : Offsetting(L, v) \/ \E m \in {"add", "sub"} : ChangingMode(L, m, v)
       \/ \E v \in Offsets, T \in Seq(LoopSet) : SettingMode(v, T) \/ SettingClock(v, T)

\* The loops of synchronising.
LEMMA SyncLoops ==
    ASSUME OneMaster
    PROVE  /\ SyncTransfers = Pend({PtpMasterSwitch}, <<SetMode("add", TRUE)>>, Pend(Slaves, Synchronised, Reset))
           /\ Reset \in Seq(LoopSet) /\ Pend(Slaves, Synchronised, Reset) \in Seq(LoopSet)
           /\ SyncTransfers \in Seq(LoopSet) /\ SyncIfCascaded \in Seq(LoopSet)
           /\ SyncTransfers # <<>>
           /\ ~Pending(Reset) /\ ~Pending(SyncTransfers)
  <1>1. PtpMasterSwitch \in PtpSwitch /\ Slaves = PtpSwitch \ {PtpMasterSwitch}
    BY Master1
  <1>2. <<>> \in Seq(LoopSet)
    BY EmptySeq
  <1>3. /\ SetMode("add", TRUE) \in Ops /\ SetMode("add", FALSE) \in Ops
        /\ <<SetMode("add", TRUE)>> \in Seq(Ops) /\ <<SetMode("add", FALSE)>> \in Seq(Ops)
        /\ Synchronised \in Seq(Ops)
    <2>1. SetMode("add", TRUE) \in Ops /\ SetMode("add", FALSE) \in Ops
      BY OpsTyped DEF Modes
    <2>2. QED BY <2>1, SynchronisedTyped, SmallSequences
  <1>4. /\ Head(<<SetMode("add", TRUE)>>).register = "control2"
        /\ Head(<<SetMode("add", FALSE)>>).register = "control2"
        /\ Head(Synchronised).register = "control2"
    BY DEF SetMode, Synchronised
  <1>5. Reset \in Seq(LoopSet) /\ ~Pending(Reset)
    <2>1. {PtpMasterSwitch} \in SUBSET PtpSwitch
      BY <1>1
    <2>2. QED BY <1>2, <1>3, <1>4, <2>1, PendTyped, PendingNothing DEF Reset
  <1>6. Pend(Slaves, Synchronised, Reset) \in Seq(LoopSet) /\ ~Pending(Pend(Slaves, Synchronised, Reset))
    BY <1>1, <1>3, <1>4, <1>5, PendTyped
  <1> DEFINE P == Pend({PtpMasterSwitch}, <<SetMode("add", TRUE)>>, Pend(Slaves, Synchronised, Reset))
  <1>7. P \in Seq(LoopSet) /\ ~Pending(P)
    <2>1. {PtpMasterSwitch} \in SUBSET PtpSwitch
      BY <1>1
    <2>2. QED BY <1>3, <1>4, <1>6, <2>1, PendTyped
  <1>8. /\ Loop({PtpMasterSwitch}, <<SetMode("add", TRUE)>>) \in LoopSet
        /\ Loop(Slaves, Synchronised) \in LoopSet
        /\ Loop({PtpMasterSwitch}, <<SetMode("add", FALSE)>>) \in LoopSet
    BY <1>1, <1>3 DEF Loop, LoopSet
  <1>9. PICK a \in LoopSet, b \in LoopSet, c \in LoopSet :
           /\ a = Loop({PtpMasterSwitch}, <<SetMode("add", TRUE)>>) /\ b = Loop(Slaves, Synchronised)
           /\ c = Loop({PtpMasterSwitch}, <<SetMode("add", FALSE)>>)
    BY <1>8
  <1>14. /\ <<c>> \o <<>> = <<c>> /\ <<a>> \o <<c>> = <<a, c>> /\ <<b>> \o <<c>> = <<b, c>>
         /\ <<a>> \o <<b, c>> = <<a, b, c>>
    <2>1. <<c>> \o <<>> = <<c>>
      BY SmallSequences, ConcatEmptySeq
    <2>2. <<a>> \o <<c>> = <<a, c>> /\ <<a>> \o <<b, c>> = <<a, b, c>>
      BY SmallConcatenations
    <2>3. <<b>> \o <<c>> = <<b, c>>
      BY SmallConcatenations
    <2>4. QED BY <2>1, <2>2, <2>3
  <1>10. SyncTransfers = P
    <2>1. Reset = <<c>>
      BY <1>9, <1>14 DEF Reset, Pend
    <2>2. CASE Slaves = {}
      <3>1. P = <<a, c>>
        BY <1>9, <1>14, <2>1, <2>2 DEF Pend
      <3>2. QED BY <1>9, <2>2, <3>1 DEF SyncTransfers, Master
    <2>3. CASE Slaves # {}
      <3>1. P = <<a, b, c>>
        BY <1>9, <1>14, <2>1, <2>3 DEF Pend
      <3>2. QED BY <1>9, <2>3, <3>1 DEF SyncTransfers, Master
    <2>4. QED BY <2>2, <2>3
  <1>11. SyncTransfers # <<>>
    BY DEF SyncTransfers
  <1>12. SyncIfCascaded \in Seq(LoopSet)
    BY <1>2, <1>7, <1>10 DEF SyncIfCascaded
  <1>13. QED BY <1>5, <1>6, <1>7, <1>10, <1>11, <1>12

-----------------------------------------------------------------------------
(* The clock of the master *)

Request == IF Pending(transfers) THEN call ELSE Idle

ServiceStep ==
    [PtpServiceOfMaster!Next]_<<clock[PtpMasterSwitch], ratio[PtpMasterSwitch], Request>>

\* A call differs from none.
LEMMA CallsAreNotIdle ==
    ASSUME NEW c \in {"set", "add", "sub", "rate"}, NEW v \in 0 .. ClockRange - 1
    PROVE  /\ [call |-> c, value |-> v] # Idle
           /\ [call |-> c, value |-> v] \in [call : {"set", "add", "sub", "rate"}, value : 0 .. ClockRange - 1]
  <1>1. [call |-> c, value |-> v] \in [call : {"set", "add", "sub", "rate"}, value : 0 .. ClockRange - 1]
    OBVIOUS
  <1>2. QED BY <1>1, PtpAssumption

\* A step that leaves the master's clock and the pending call alone is none of the service.
LEMMA ServiceStutters ==
    ASSUME clock'[PtpMasterSwitch] = clock[PtpMasterSwitch],
           ratio'[PtpMasterSwitch] = ratio[PtpMasterSwitch],
           call' = call, Pending(transfers') <=> Pending(transfers)
    PROVE  ServiceStep
  <1>1. clock[PtpMasterSwitch]' = clock[PtpMasterSwitch] /\ ratio[PtpMasterSwitch]' = ratio[PtpMasterSwitch]
    OBVIOUS
  <1>2. Request' = Request
    BY DEF Request
  <1>3. QED BY <1>1, <1>2 DEF ServiceStep

\* A transfer that carries the pending call out on the master's clock is Perform.
LEMMA ServicePerforms ==
    ASSUME NEW c \in {"set", "add", "sub", "rate"}, NEW v \in 0 .. ClockRange - 1,
           call = [call |-> c, value |-> v],
           Pending(transfers), ~Pending(transfers'),
           c = "set" => clock'[PtpMasterSwitch] = v,
           c = "add" => clock'[PtpMasterSwitch] = (clock[PtpMasterSwitch] + v) % ClockRange,
           c = "sub" => clock'[PtpMasterSwitch] = (clock[PtpMasterSwitch] - v) % ClockRange,
           c = "rate" => clock'[PtpMasterSwitch] = clock[PtpMasterSwitch],
           c = "rate" => ratio'[PtpMasterSwitch] = v,
           c # "rate" => ratio'[PtpMasterSwitch] = ratio[PtpMasterSwitch]
    PROVE  ServiceStep
  <1>1. Request = [call |-> c, value |-> v] /\ Request # Idle /\ Request.call = c /\ Request.value = v
    BY CallsAreNotIdle DEF Request
  <1>2. Request' = Idle
    BY DEF Request
  <1>3. clock[PtpMasterSwitch]' =
           CASE Request.call = "set" -> Request.value
             [] Request.call = "add" -> (clock[PtpMasterSwitch] + Request.value) % ClockRange
             [] Request.call = "sub" -> (clock[PtpMasterSwitch] - Request.value) % ClockRange
             [] OTHER -> clock[PtpMasterSwitch]
    BY <1>1
  <1>4. ratio[PtpMasterSwitch]' = IF Request.call = "rate" THEN Request.value ELSE ratio[PtpMasterSwitch]
    BY <1>1
  <1>5. PtpServiceOfMaster!Perform
    BY <1>1, <1>2, <1>3, <1>4 DEF PtpServiceOfMaster!Perform, Request
  <1>6. QED BY <1>5 DEF PtpServiceOfMaster!Next, ServiceStep

-----------------------------------------------------------------------------
(* Transfers *)

\* PendTyped for a loop of one transfer.
LEMMA LoopTyped ==
    ASSUME NEW op \in Ops, NEW L \in SUBSET PtpSwitch, NEW T \in Seq(LoopSet)
    PROVE  /\ Pend(L, <<op>>, T) \in Seq(LoopSet)
           /\ Pending(Pend(L, <<op>>, T)) <=>
                 \/ op.register \in {"control3", "control4"} /\ PtpMasterSwitch \in L
                 \/ Pending(T)
  <1>1. <<op>> \in Seq(Ops) /\ Head(<<op>>) = op
    OBVIOUS
  <1>2. QED BY <1>1, PendTyped

\* The registers the transfers write.
LEMMA Registers ==
    /\ \A m, y : SetMode(m, y).register = "control2"
    /\ \A v : SetClock(v).register = "control3" /\ SetRatio(v).register = "control4"
    /\ Correct.register = "control6"
  BY DEF SetMode, SetClock, SetRatio, Correct

\* A rate is written to one more switch; with the master's the call takes effect.
LEMMA RatingStep ==
    ASSUME OneMaster, PtpTypeOK, NEW L \in SUBSET PtpSwitch, L # {}, NEW v \in Ratios \cup {1},
           NEW T \in Seq(LoopSet), Rating(L, v, T), Transfer
    PROVE  /\ PtpTypeOK' /\ ServiceStep
           /\ \E s \in L : Rating(L \ {s}, v, T)'
  <1>1. v \in 0 .. ClockRange - 1 /\ SetRatio(v) \in Ops
    BY RatioTyped, OpsTyped
  <1>2. PICK s \in L : /\ Effect(SetRatio(v), s) /\ transfers' = Pend(L \ {s}, <<SetRatio(v)>>, T)
                       /\ UNCHANGED <<g_ptpControl2, call, synchronised>>
    BY <1>1, SingleStep DEF Rating
  <1>3. ratio' = [ratio EXCEPT ![s] = v] /\ UNCHANGED <<mode, clock, impulse, captured>>
    BY <1>2, Effects
  <1>4. PtpTypeOK'
    BY <1>2, <1>3 DEF PtpTypeOK
  <1>5. \A u \in PtpSwitch \ (L \ {s}) : ratio'[u] = v
    BY <1>3 DEF PtpTypeOK, Rating
  <1>6. Rating(L \ {s}, v, T)'
    BY <1>2, <1>3, <1>5 DEF Rating, Follows, InMode
  <1>7. ~Pending(T)
    BY SyncLoops, PendingNothing DEF Rating, Follows
  <1>8. /\ Pending(transfers) <=> PtpMasterSwitch \in L
        /\ Pending(transfers') <=> PtpMasterSwitch \in L \ {s}
    <2>1. Pending(Pend(L, <<SetRatio(v)>>, T)) <=> PtpMasterSwitch \in L
      BY <1>1, <1>7, LoopTyped, Registers
    <2>2. Pending(Pend(L \ {s}, <<SetRatio(v)>>, T)) <=> PtpMasterSwitch \in L \ {s}
      BY <1>1, <1>7, LoopTyped, Registers
    <2>3. QED BY <1>2, <2>1, <2>2 DEF Rating
  <1>9. ServiceStep
    <2>1. CASE s = PtpMasterSwitch
      <3>1. call = [call |-> "rate", value |-> v]
        BY DEF Rating
      <3>2. clock'[s] = clock[s] /\ ratio'[s] = v
        BY <1>3 DEF PtpTypeOK
      <3>3. QED BY <1>1, <1>8, <2>1, <3>1, <3>2, ServicePerforms
    <2>2. CASE s # PtpMasterSwitch
      <3>1. ratio'[PtpMasterSwitch] = ratio[PtpMasterSwitch] /\ clock' = clock /\ call' = call
        BY <1>2, <1>3, <2>2 DEF PtpTypeOK
      <3>2. QED BY <1>8, <2>2, <3>1, ServiceStutters
    <2>3. QED BY <2>1, <2>2
  <1>10. QED BY <1>4, <1>6, <1>9

\* A step of a loop that sets modes before a transfer to the clock of the master.
LEMMA ModeStep ==
    ASSUME OneMaster, PtpTypeOK, NEW L \in SUBSET PtpSwitch, L # {}, NEW m \in Modes,
           NEW T \in Seq(LoopSet), Pending(T), transfers = Pend(L, <<SetMode(m, FALSE)>>, T), ~impulse, Transfer
    PROVE  /\ PtpTypeOK' /\ ServiceStep
           /\ \E s \in L : /\ transfers' = Pend(L \ {s}, <<SetMode(m, FALSE)>>, T)
                           /\ mode' = [mode EXCEPT ![s] = m] /\ ~impulse'
                           /\ UNCHANGED <<clock, ratio, captured, g_ptpControl2, call, synchronised>>
  <1>1. SetMode(m, FALSE) \in Ops
    BY OpsTyped
  <1>2. PICK s \in L : /\ Effect(SetMode(m, FALSE), s) /\ transfers' = Pend(L \ {s}, <<SetMode(m, FALSE)>>, T)
                       /\ UNCHANGED <<g_ptpControl2, call, synchronised>>
    BY <1>1, SingleStep
  <1>3. /\ mode' = [mode EXCEPT ![s] = m] /\ UNCHANGED <<clock, ratio>>
        /\ impulse' = IF s = PtpMasterSwitch THEN FALSE ELSE impulse
        /\ captured' = IF impulse' /\ ~impulse THEN clock ELSE captured
    BY <1>2, Effects
  <1>4. ~impulse' /\ impulse' \in BOOLEAN /\ captured' = captured
    BY <1>3 DEF PtpTypeOK
  <1>5. PtpTypeOK'
    BY <1>2, <1>3, <1>4 DEF PtpTypeOK, Modes
  <1>6. Pending(transfers) /\ Pending(transfers')
    BY <1>1, <1>2, LoopTyped
  <1>7. ServiceStep
    BY <1>2, <1>3, <1>6, ServiceStutters
  <1>8. QED BY <1>2, <1>3, <1>4, <1>5, <1>7

\* SJA1105P_initPtp puts one more switch into add mode.
LEMMA InitialisingStep ==
    ASSUME OneMaster, PtpTypeOK, NEW L \in SUBSET PtpSwitch, L # {}, Initialising(L), Transfer
    PROVE  /\ PtpTypeOK' /\ ServiceStep
           /\ \E s \in L : Initialising(L \ {s})'
  <1> DEFINE T == Pend(PtpSwitch, <<SetRatio(1)>>, SyncIfCascaded)
  <1>1. T \in Seq(LoopSet) /\ Pending(T)
    <2>1. SetRatio(1) \in Ops
      BY RatioTyped, OpsTyped
    <2>2. QED BY <2>1, LoopTyped, SyncLoops, Master1, Registers
  <1>2. /\ transfers = Pend(L, <<SetMode("add", FALSE)>>, T) /\ ~impulse /\ "add" \in Modes
    BY DEF Initialising, Modes
  <1> HIDE DEF T
  <1>3. /\ PtpTypeOK' /\ ServiceStep
        /\ \E s \in L : /\ transfers' = Pend(L \ {s}, <<SetMode("add", FALSE)>>, T)
                        /\ mode' = [mode EXCEPT ![s] = "add"] /\ ~impulse'
                        /\ UNCHANGED <<clock, ratio, captured, g_ptpControl2, call, synchronised>>
    BY <1>1, <1>2, ModeStep
  <1>4. PICK s \in L : /\ transfers' = Pend(L \ {s}, <<SetMode("add", FALSE)>>, T)
                       /\ mode' = [mode EXCEPT ![s] = "add"] /\ ~impulse'
                       /\ UNCHANGED <<clock, ratio, captured, g_ptpControl2, call, synchronised>>
    BY <1>3
  <1>5. \A u \in PtpSwitch \ (L \ {s}) : mode'[u] = "add"
    BY <1>4 DEF PtpTypeOK, Initialising, InMode
  <1>6. Initialising(L \ {s})'
    BY <1>4, <1>5 DEF Initialising, InMode, SameRate, Follows, T
  <1>7. QED BY <1>3, <1>6

\* One more switch is put into the mode of an offset, which no clock sees yet.
LEMMA ChangingModeStep ==
    ASSUME OneMaster, PtpTypeOK, NEW L \in SUBSET PtpSwitch, L # {}, NEW m \in {"add", "sub"},
           NEW v \in Offsets, ChangingMode(L, m, v), Transfer
    PROVE  /\ PtpTypeOK' /\ ServiceStep
           /\ \E s \in L : ChangingMode(L \ {s}, m, v)'
  <1> DEFINE T == Pend(PtpSwitch, <<SetClock(v)>>, <<>>)
  <1>1. T \in Seq(LoopSet) /\ Pending(T)
    <2>1. SetClock(v) \in Ops /\ <<>> \in Seq(LoopSet)
      BY RatioTyped, OpsTyped
    <2>2. QED BY <2>1, LoopTyped, Master1, Registers
  <1>2. transfers = Pend(L, <<SetMode(m, FALSE)>>, T) /\ ~impulse /\ m \in Modes
    BY DEF ChangingMode, Modes
  <1> HIDE DEF T
  <1>3. /\ PtpTypeOK' /\ ServiceStep
        /\ \E s \in L : /\ transfers' = Pend(L \ {s}, <<SetMode(m, FALSE)>>, T)
                        /\ mode' = [mode EXCEPT ![s] = m] /\ ~impulse'
                        /\ UNCHANGED <<clock, ratio, captured, g_ptpControl2, call, synchronised>>
    BY <1>1, <1>2, ModeStep
  <1>4. PICK s \in L : /\ transfers' = Pend(L \ {s}, <<SetMode(m, FALSE)>>, T)
                       /\ mode' = [mode EXCEPT ![s] = m] /\ ~impulse'
                       /\ UNCHANGED <<clock, ratio, captured, g_ptpControl2, call, synchronised>>
    BY <1>3
  <1>5. \A u \in PtpSwitch \ (L \ {s}) : mode'[u] = m
    BY <1>4 DEF PtpTypeOK, ChangingMode, InMode
  <1>6. ChangingMode(L \ {s}, m, v)'
    BY <1>4, <1>5 DEF ChangingMode, InMode, SameRate, Together, T
  <1>7. QED BY <1>3, <1>6

\* The master is put into set mode before its clock is set.
LEMMA SettingModeStep ==
    ASSUME OneMaster, PtpTypeOK, NEW v \in Offsets, NEW T \in Seq(LoopSet), SettingMode(v, T), Transfer
    PROVE  PtpTypeOK' /\ ServiceStep /\ SettingClock(v, T)'
  <1> DEFINE L == {PtpMasterSwitch}  U == Pend({PtpMasterSwitch}, <<SetClock(v)>>, T)
  <1>1. L \in SUBSET PtpSwitch /\ L # {}
    BY Master1
  <1>2. U \in Seq(LoopSet) /\ Pending(U)
    <2>1. SetClock(v) \in Ops
      BY RatioTyped, OpsTyped
    <2>2. QED BY <1>1, <2>1, LoopTyped, Registers
  <1>3. transfers = Pend(L, <<SetMode("set", FALSE)>>, U) /\ ~impulse /\ "set" \in Modes
    BY DEF SettingMode, Modes
  <1> HIDE DEF U
  <1>4. /\ PtpTypeOK' /\ ServiceStep
        /\ \E s \in L : /\ transfers' = Pend(L \ {s}, <<SetMode("set", FALSE)>>, U)
                        /\ mode' = [mode EXCEPT ![s] = "set"] /\ ~impulse'
                        /\ UNCHANGED <<clock, ratio, captured, g_ptpControl2, call, synchronised>>
    BY <1>1, <1>2, <1>3, ModeStep
  <1>5. /\ transfers' = Pend({}, <<SetMode("set", FALSE)>>, U)
        /\ mode' = [mode EXCEPT ![PtpMasterSwitch] = "set"] /\ ~impulse'
        /\ UNCHANGED <<clock, ratio, captured, g_ptpControl2, call, synchronised>>
    BY <1>4
  <1>6. transfers' = U
    BY <1>5 DEF Pend
  <1>7. mode'[PtpMasterSwitch] = "set"
    BY <1>1, <1>5 DEF PtpTypeOK
  <1>8. SettingClock(v, T)'
    BY <1>5, <1>6, <1>7 DEF SettingMode, SettingClock, SameRate, Follows, U
  <1>9. QED BY <1>4, <1>8

\* A step of a loop that writes clocks.
LEMMA ClockStep ==
    ASSUME OneMaster, PtpTypeOK, NEW L \in SUBSET PtpSwitch, L # {}, NEW v \in Offsets,
           NEW T \in Seq(LoopSet), ~Pending(T), transfers = Pend(L, <<SetClock(v)>>, T),
           call = [call |-> mode[PtpMasterSwitch], value |-> v], Transfer
    PROVE  /\ PtpTypeOK' /\ ServiceStep
           /\ \E s \in L : /\ transfers' = Pend(L \ {s}, <<SetClock(v)>>, T)
                           /\ clock' = [clock EXCEPT ![s] = Adjusted(s, v)]
                           /\ UNCHANGED <<mode, ratio, impulse, captured, g_ptpControl2, call, synchronised>>
  <1>1. v \in 0 .. ClockRange - 1 /\ SetClock(v) \in Ops
    BY RatioTyped, OpsTyped
  <1>2. PICK s \in L : /\ Effect(SetClock(v), s) /\ transfers' = Pend(L \ {s}, <<SetClock(v)>>, T)
                       /\ UNCHANGED <<g_ptpControl2, call, synchronised>>
    BY <1>1, SingleStep
  <1>3. clock' = [clock EXCEPT ![s] = Adjusted(s, v)] /\ UNCHANGED <<mode, ratio, impulse, captured>>
    BY <1>2, Effects
  <1>4. PtpTypeOK'
    <2>1. Adjusted(s, v) \in 0 .. ClockRange - 1
      BY <1>1, AdjustedIs
    <2>2. QED BY <1>2, <1>3, <2>1 DEF PtpTypeOK
  <1>5. /\ Pending(transfers) <=> PtpMasterSwitch \in L
        /\ Pending(transfers') <=> PtpMasterSwitch \in L \ {s}
    <2>1. Pending(Pend(L, <<SetClock(v)>>, T)) <=> PtpMasterSwitch \in L
      BY <1>1, LoopTyped, Registers
    <2>2. Pending(Pend(L \ {s}, <<SetClock(v)>>, T)) <=> PtpMasterSwitch \in L \ {s}
      BY <1>1, LoopTyped, Registers
    <2>3. QED BY <1>2, <2>1, <2>2
  <1>6. ServiceStep
    <2>1. CASE s = PtpMasterSwitch
      <3>1. mode[s] \in {"set", "add", "sub"} /\ ratio'[s] = ratio[s] /\ clock'[s] = Adjusted(s, v)
        BY <1>3 DEF PtpTypeOK
      <3>2. /\ mode[s] = "set" => clock'[s] = v
            /\ mode[s] = "add" => clock'[s] = (clock[s] + v) % ClockRange
            /\ mode[s] = "sub" => clock'[s] = (clock[s] - v) % ClockRange
        BY <1>1, <3>1, AdjustedIs
      <3>3. PICK c : c = mode[s]
        OBVIOUS
      <3>4. c \in {"set", "add", "sub", "rate"} /\ c # "rate" /\ call = [call |-> c, value |-> v]
        BY <2>1, <3>1, <3>3
      <3>5. QED BY <1>1, <1>5, <2>1, <3>1, <3>2, <3>3, <3>4, ServicePerforms
    <2>2. CASE s # PtpMasterSwitch
      <3>1. clock'[PtpMasterSwitch] = clock[PtpMasterSwitch] /\ ratio' = ratio /\ call' = call
        BY <1>2, <1>3, <2>2, Master1 DEF PtpTypeOK
      <3>2. QED BY <1>5, <2>2, <3>1, ServiceStutters
    <2>3. QED BY <2>1, <2>2
  <1>7. QED BY <1>2, <1>3, <1>4, <1>6

\* The clock of the master is set; the others follow if they are cascaded.
LEMMA SettingClockStep ==
    ASSUME OneMaster, PtpTypeOK, NEW v \in Offsets, NEW T \in Seq(LoopSet), SettingClock(v, T), Transfer
    PROVE  PtpTypeOK' /\ ServiceStep /\ (Resting \/ Synchronising)'
  <1> DEFINE L == {PtpMasterSwitch}
  <1>1. L \in SUBSET PtpSwitch /\ L # {}
    BY Master1
  <1>2. ~Pending(T)
    BY SyncLoops, PendingNothing DEF SettingClock, Follows
  <1>3. transfers = Pend(L, <<SetClock(v)>>, T) /\ call = [call |-> mode[PtpMasterSwitch], value |-> v]
    BY DEF SettingClock
  <1>4. /\ PtpTypeOK' /\ ServiceStep
        /\ \E s \in L : /\ transfers' = Pend(L \ {s}, <<SetClock(v)>>, T)
                        /\ clock' = [clock EXCEPT ![s] = Adjusted(s, v)]
                        /\ UNCHANGED <<mode, ratio, impulse, captured, g_ptpControl2, call, synchronised>>
    BY <1>1, <1>2, <1>3, ClockStep
  <1>5. transfers' = Pend({}, <<SetClock(v)>>, T) /\ UNCHANGED <<mode, ratio, impulse, g_ptpControl2, call, synchronised>>
    BY <1>4
  <1>6. transfers' = T
    BY <1>5 DEF Pend
  <1>7. (Resting \/ Synchronising)'
    <2>1. CASE T = <<>> /\ ~synchronised
      BY <1>5, <1>6, <2>1 DEF SettingClock, Resting, SameRate, InMode
    <2>2. CASE T = SyncTransfers /\ g_ptpControl2 = "add"
      BY <1>5, <1>6, <2>2 DEF SettingClock, Synchronising, SameRate
    <2>3. QED BY <2>1, <2>2 DEF SettingClock, Follows
  <1>8. QED BY <1>4, <1>7

\* An offset is written to one more switch, whose clock becomes its target.
LEMMA OffsettingStep ==
    ASSUME OneMaster, PtpTypeOK, NEW L \in SUBSET PtpSwitch, L # {}, NEW v \in Offsets,
           Offsetting(L, v), Transfer
    PROVE  /\ PtpTypeOK' /\ ServiceStep
           /\ \E s \in L : Offsetting(L \ {s}, v)'
  <1>1. /\ <<>> \in Seq(LoopSet) /\ ~Pending(<<>>)
        /\ transfers = Pend(L, <<SetClock(v)>>, <<>>) /\ call = [call |-> mode[PtpMasterSwitch], value |-> v]
    BY PendingNothing, Master1 DEF Offsetting, InMode
  <1>2. /\ PtpTypeOK' /\ ServiceStep
        /\ \E s \in L : /\ transfers' = Pend(L \ {s}, <<SetClock(v)>>, <<>>)
                        /\ clock' = [clock EXCEPT ![s] = Adjusted(s, v)]
                        /\ UNCHANGED <<mode, ratio, impulse, captured, g_ptpControl2, call, synchronised>>
    BY <1>1, ClockStep
  <1>3. PICK s \in L : /\ transfers' = Pend(L \ {s}, <<SetClock(v)>>, <<>>)
                       /\ clock' = [clock EXCEPT ![s] = Adjusted(s, v)]
                       /\ UNCHANGED <<mode, ratio, impulse, captured, g_ptpControl2, call, synchronised>>
    BY <1>2
  <1>4. \A u \in PtpSwitch : Target(L \ {s}, v, u)' = Target(L, v, u)
    <2>1. TAKE u \in PtpSwitch
    <2>2. CASE u = s
      <3>1. Target(L \ {s}, v, u)' = clock'[s] /\ clock'[s] = Adjusted(s, v)
        BY <1>3, <2>2 DEF Target, PtpTypeOK
      <3>2. QED BY <2>2, <3>1 DEF Target
    <2>3. CASE u # s
      <3>1. clock'[u] = clock[u] /\ mode' = mode
        BY <1>3, <2>3 DEF PtpTypeOK
      <3>2. Adjusted(u, v)' = Adjusted(u, v)
        BY <3>1 DEF Adjusted
      <3>3. QED BY <2>3, <3>1, <3>2 DEF Target
    <2>4. QED BY <2>2, <2>3
  <1>5. synchronised' => \A x, y \in PtpSwitch : Target(L \ {s}, v, x)' = Target(L \ {s}, v, y)'
    BY <1>3, <1>4 DEF Offsetting
  <1>6. Offsetting(L \ {s}, v)'
    BY <1>3, <1>5 DEF Offsetting, InMode, SameRate
  <1>7. QED BY <1>2, <1>6

\* The impulse: all switches capture their clocks at once.
LEMMA SynchronisingStep ==
    ASSUME OneMaster, PtpTypeOK, Synchronising, Transfer
    PROVE  PtpTypeOK' /\ ServiceStep /\ Correcting(Slaves)'
  <1> DEFINE L == {PtpMasterSwitch}  T == Pend(Slaves, Synchronised, Reset)
  <1>1. L \in SUBSET PtpSwitch /\ L # {} /\ Slaves = PtpSwitch \ L /\ PtpMasterSwitch \in PtpSwitch
    BY Master1
  <1>2. SetMode("add", TRUE) \in Ops
    BY OpsTyped DEF Modes
  <1>3. T \in Seq(LoopSet) /\ transfers = Pend(L, <<SetMode("add", TRUE)>>, T) /\ ~Pending(transfers)
    BY SyncLoops DEF Synchronising
  <1> HIDE DEF T
  <1>4. /\ Effect(SetMode("add", TRUE), PtpMasterSwitch)
        /\ transfers' = Pend({}, <<SetMode("add", TRUE)>>, T)
        /\ UNCHANGED <<g_ptpControl2, call, synchronised>>
    <2>1. PICK s \in L : /\ Effect(SetMode("add", TRUE), s) /\ transfers' = Pend(L \ {s}, <<SetMode("add", TRUE)>>, T)
                         /\ UNCHANGED <<g_ptpControl2, call, synchronised>>
      BY <1>1, <1>2, <1>3, SingleStep
    <2>2. s = PtpMasterSwitch /\ L \ {s} = {}
      OBVIOUS
    <2>3. QED BY <2>1, <2>2
  <1>5. transfers' = T
    BY <1>4 DEF Pend
  <1>6. /\ mode' = [mode EXCEPT ![PtpMasterSwitch] = "add"] /\ UNCHANGED <<clock, ratio>>
        /\ impulse' = TRUE /\ captured' = IF impulse' /\ ~impulse THEN clock ELSE captured
    BY <1>1, <1>4, Effects
  <1>7. captured' = clock
    BY <1>6 DEF Synchronising
  <1>8. PtpTypeOK'
    BY <1>4, <1>6, <1>7 DEF PtpTypeOK
  <1>9. Correction(Slaves)'
    <2>1. mode'[PtpMasterSwitch] = "add"
      BY <1>1, <1>6 DEF PtpTypeOK
    <2>2. \A s \in Slaves : InStep(s)'
      BY <1>6, <1>7 DEF InStep
    <2>3. QED BY <1>4, <1>6, <2>1, <2>2 DEF Correction, Synchronising, SameRate
  <1>10. Correcting(Slaves)'
    <2>1. PtpSwitch \ Slaves = {PtpMasterSwitch}
      BY <1>1
    <2>2. \A s \in PtpSwitch \ Slaves : mode'[s] = "add" /\ clock'[s] = clock'[PtpMasterSwitch]
      BY <1>9, <2>1 DEF Correction
    <2>3. QED BY <1>1, <1>5, <1>9, <2>2 DEF Correcting, T
  <1>11. ServiceStep
    <2>1. ~Pending(T)
      BY <1>2, <1>1, <1>3, LoopTyped
    <2>2. QED BY <1>3, <1>4, <1>5, <1>6, <2>1, ServiceStutters
  <1>12. QED BY <1>8, <1>10, <1>11

\* Corrections of slaves leave no transfer to the clock of the master pending.
LEMMA CorrectionsIdle ==
    ASSUME OneMaster, NEW L \in SUBSET PtpSwitch
    PROVE  /\ Pend(L, Synchronised, Reset) \in Seq(LoopSet)
           /\ ~Pending(Pend(L, Synchronised, Reset))
           /\ \A u \in PtpSwitch : ~Pending(Pend({u}, <<Correct>>, Pend(L, Synchronised, Reset)))
  <1>1. Synchronised \in Seq(Ops) /\ Head(Synchronised).register = "control2"
    BY SynchronisedTyped DEF Synchronised, SetMode
  <1>2. Pend(L, Synchronised, Reset) \in Seq(LoopSet) /\ ~Pending(Pend(L, Synchronised, Reset))
    BY <1>1, SyncLoops, PendTyped
  <1>3. ASSUME NEW u \in PtpSwitch
        PROVE  ~Pending(Pend({u}, <<Correct>>, Pend(L, Synchronised, Reset)))
    <2>1. {u} \in SUBSET PtpSwitch /\ Correct \in Ops
      BY OpsTyped
    <2>2. QED BY <1>2, <2>1, LoopTyped, Registers
  <1>4. QED BY <1>2, <1>3

\* A slave is put into add mode.
LEMMA CorrectingStep ==
    ASSUME OneMaster, PtpTypeOK, NEW L \in SUBSET PtpSwitch, L # {}, Correcting(L), Transfer
    PROVE  /\ PtpTypeOK' /\ ServiceStep
           /\ \E u \in L : CorrectingOne(u, L \ {u})'
  <1>1. PICK u \in L : /\ Effect(SetMode("add", FALSE), u)
                       /\ transfers' = Pend({u}, <<Correct>>, Pend(L \ {u}, Synchronised, Reset))
                       /\ UNCHANGED <<g_ptpControl2, call, synchronised>>
    BY SyncLoops, DoubleStep DEF Correcting
  <1>2. u # PtpMasterSwitch /\ impulse /\ PtpMasterSwitch \in PtpSwitch
    BY Master1 DEF Correcting, Correction
  <1>3. /\ mode' = [mode EXCEPT ![u] = "add"] /\ UNCHANGED <<clock, ratio>>
        /\ impulse' = IF u = PtpMasterSwitch THEN FALSE ELSE impulse
        /\ captured' = IF impulse' /\ ~impulse THEN clock ELSE captured
    BY <1>1, Effects
  <1>4. impulse' = impulse /\ captured' = captured
    BY <1>2, <1>3
  <1>5. PtpTypeOK'
    BY <1>1, <1>3, <1>4 DEF PtpTypeOK
  <1>6. \A s \in PtpSwitch : mode'[s] = IF s = u THEN "add" ELSE mode[s]
    BY <1>3 DEF PtpTypeOK
  <1>7. (L \ {u}) \cup {u} = L
    OBVIOUS
  <1>8. Correction(L)'
    BY <1>1, <1>2, <1>3, <1>4, <1>6 DEF Correcting, Correction, SameRate, InStep
  <1>9. \A s \in PtpSwitch \ L : mode'[s] = "add" /\ clock'[s] = clock'[PtpMasterSwitch]
    BY <1>3, <1>6 DEF Correcting
  <1>10. CorrectingOne(u, L \ {u})'
    BY <1>1, <1>2, <1>6, <1>7, <1>8, <1>9 DEF CorrectingOne, Correcting
  <1>11. ServiceStep
    <2>1. ~Pending(transfers) /\ ~Pending(transfers')
      BY <1>1, CorrectionsIdle DEF Correcting
    <2>2. QED BY <1>1, <1>3, <2>1, ServiceStutters
  <1>12. QED BY <1>5, <1>10, <1>11

\* The offset from the master, captured at the impulse, is what still parts the clocks.
LEMMA CorrectingOneStep ==
    ASSUME OneMaster, PtpTypeOK, NEW L \in SUBSET PtpSwitch, NEW u \in PtpSwitch,
           CorrectingOne(u, L), Transfer
    PROVE  PtpTypeOK' /\ ServiceStep /\ Correcting(L)'
  <1> DEFINE T == Pend(L, Synchronised, Reset)  M == PtpMasterSwitch
  <1>1. T \in Seq(LoopSet) /\ {u} \in SUBSET PtpSwitch /\ {u} # {} /\ Correct \in Ops
    BY CorrectionsIdle, OpsTyped
  <1>2. /\ Effect(Correct, u) /\ transfers' = T
        /\ UNCHANGED <<g_ptpControl2, call, synchronised>>
    <2>1. transfers = Pend({u}, <<Correct>>, T)
      BY DEF CorrectingOne
    <2> HIDE DEF T
    <2>2. PICK s \in {u} : /\ Effect(Correct, s) /\ transfers' = Pend({u} \ {s}, <<Correct>>, T)
                           /\ UNCHANGED <<g_ptpControl2, call, synchronised>>
      BY <1>1, <2>1, SingleStep
    <2>3. s = u /\ {u} \ {s} = {}
      OBVIOUS
    <2>4. transfers' = T
      BY <2>2, <2>3 DEF Pend
    <2>5. QED BY <2>2, <2>3, <2>4
  <1>3. /\ clock' = [clock EXCEPT ![u] = Adjusted(u, (captured[M] - captured[u]) % ClockRange)]
        /\ UNCHANGED <<mode, ratio, impulse, captured>>
    BY <1>2, Effects
  <1>4. /\ M \in PtpSwitch /\ u # M /\ mode[u] = "add" /\ InStep(u)
        /\ clock[u] \in 0 .. ClockRange - 1 /\ clock[M] \in 0 .. ClockRange - 1
    BY Master1 DEF CorrectingOne, Correction, PtpTypeOK
  <1>5. clock'[u] = clock[M]
    <2>1. PICK d : d = (clock[M] - clock[u]) % ClockRange
      OBVIOUS
    <2>2. d \in 0 .. ClockRange - 1
      BY <1>4, <2>1, ClockSums
    <2>3. (captured[M] - captured[u]) % ClockRange = d
      BY <1>4, <2>1 DEF InStep
    <2>4. Adjusted(u, d) = (clock[u] + d) % ClockRange
      BY <1>4, <2>2, AdjustedIs
    <2>5. (clock[u] + d) % ClockRange = clock[M]
      BY <1>4, <2>1, CorrectionIsExact
    <2>6. clock'[u] = Adjusted(u, d)
      BY <1>3, <2>3 DEF PtpTypeOK
    <2>7. QED BY <2>4, <2>5, <2>6
  <1>6. \A s \in PtpSwitch : s # u => clock'[s] = clock[s]
    BY <1>3 DEF PtpTypeOK
  <1>7. PtpTypeOK'
    <2>1. clock' \in [PtpSwitch -> 0 .. ClockRange - 1]
      BY <1>3, <1>4, <1>5 DEF PtpTypeOK
    <2>2. QED BY <1>2, <1>3, <2>1 DEF PtpTypeOK
  <1>8. Correction(L)'
    <2>1. \A s \in L : InStep(s)'
      BY <1>3, <1>4, <1>6 DEF CorrectingOne, Correction, InStep
    <2>2. QED BY <1>2, <1>3, <2>1 DEF CorrectingOne, Correction, SameRate
  <1>9. \A s \in PtpSwitch \ L : mode'[s] = "add" /\ clock'[s] = clock'[M]
    BY <1>3, <1>4, <1>5, <1>6 DEF CorrectingOne
  <1>10. Correcting(L)'
    BY <1>2, <1>8, <1>9 DEF CorrectingOne, Correcting
  <1>11. ServiceStep
    <2>1. ~Pending(transfers) /\ ~Pending(transfers')
      BY <1>2, CorrectionsIdle DEF CorrectingOne
    <2>2. QED BY <1>2, <1>3, <1>4, <1>6, <2>1, ServiceStutters
  <1>12. QED BY <1>7, <1>10, <1>11

\* The impulse is reset, all clocks being equal.
LEMMA ResetStep ==
    ASSUME OneMaster, PtpTypeOK, Correcting({}), Transfer
    PROVE  PtpTypeOK' /\ ServiceStep /\ Resting'
  <1> DEFINE L == {PtpMasterSwitch}
  <1>1. L \in SUBSET PtpSwitch /\ L # {} /\ PtpMasterSwitch \in PtpSwitch
    BY Master1
  <1>2. SetMode("add", FALSE) \in Ops /\ <<>> \in Seq(LoopSet)
    BY SynchronisedTyped, EmptySeq
  <1>3. transfers = Reset /\ transfers = Pend(L, <<SetMode("add", FALSE)>>, <<>>)
    BY DEF Correcting, Pend, Reset
  <1>4. PICK s \in L : /\ Effect(SetMode("add", FALSE), s)
                       /\ transfers' = Pend(L \ {s}, <<SetMode("add", FALSE)>>, <<>>)
                       /\ UNCHANGED <<g_ptpControl2, call, synchronised>>
    BY <1>1, <1>2, <1>3, SingleStep
  <1>5. s = PtpMasterSwitch /\ transfers' = <<>>
    BY <1>4 DEF Pend
  <1>6. /\ mode' = [mode EXCEPT ![s] = "add"] /\ UNCHANGED <<clock, ratio>>
        /\ impulse' = FALSE /\ captured' = IF impulse' /\ ~impulse THEN clock ELSE captured
    BY <1>1, <1>4, <1>5, Effects
  <1>7. captured' = captured
    BY <1>6
  <1>8. PtpTypeOK'
    BY <1>4, <1>6, <1>7 DEF PtpTypeOK
  <1>9. \A x \in PtpSwitch : mode[x] = "add" /\ clock[x] = clock[PtpMasterSwitch]
    BY DEF Correcting
  <1>10. Resting'
    <2>1. \A x \in PtpSwitch : mode'[x] = "add" /\ clock'[x] = clock'[PtpMasterSwitch]
      BY <1>6, <1>9 DEF PtpTypeOK
    <2>2. InMode(PtpSwitch, g_ptpControl2)' /\ Together'
      BY <1>4, <2>1 DEF InMode, Together, Correcting, Correction
    <2>3. QED BY <1>5, <1>6, <2>2 DEF Resting, Correcting, Correction, SameRate
  <1>11. ServiceStep
    <2>1. ~Pending(transfers) /\ ~Pending(transfers')
      BY <1>3, <1>5, SyncLoops, PendingNothing
    <2>2. QED BY <1>4, <1>6, <2>1, ServiceStutters
  <1>12. QED BY <1>8, <1>10, <1>11

-----------------------------------------------------------------------------
(* The next loop *)

\* After the rates of all switches the call ends or the clocks are synchronised.
LEMMA RatingDone ==
    ASSUME NEW v, NEW T, Rating({}, v, T)
    PROVE  Resting \/ Synchronising
  <1>1. transfers = T /\ SameRate
    BY DEF Rating, Pend, SameRate
  <1>2. QED BY <1>1 DEF Rating, Follows, Resting, Synchronising

\* After the modes of all switches SJA1105P_initPtp sets the rates.
LEMMA InitialisingDone ==
    ASSUME Initialising({})
    PROVE  Rating(PtpSwitch, 1, SyncIfCascaded)
  <1>1. transfers = Pend(PtpSwitch, <<SetRatio(1)>>, SyncIfCascaded)
    BY DEF Initialising, Pend
  <1>2. InMode(PtpSwitch, g_ptpControl2)
    BY DEF Initialising, InMode
  <1>3. QED BY <1>1, <1>2 DEF Initialising, Rating

\* After the clocks of all switches an offset ends, with equal clocks if they were.
LEMMA OffsettingDone ==
    ASSUME NEW v, Offsetting({}, v)
    PROVE  Resting
  <1>1. transfers = <<>>
    BY DEF Offsetting, Pend
  <1>2. synchronised => Together
    BY DEF Offsetting, Target, Together
  <1>3. QED BY <1>1, <1>2 DEF Offsetting, Resting

\* Clocks that are together, in one mode, have the same target.
LEMMA SameTargets ==
    ASSUME NEW v, NEW m, InMode(PtpSwitch, m), Together
    PROVE  \A s, t \in PtpSwitch : Target(PtpSwitch, v, s) = Target(PtpSwitch, v, t)
  <1>1. TAKE s, t \in PtpSwitch
  <1>2. mode[s] = mode[t] /\ clock[s] = clock[t]
    BY DEF InMode, Together
  <1>3. Adjusted(s, v) = Adjusted(t, v)
    BY <1>2 DEF Adjusted
  <1>4. QED BY <1>3 DEF Target

\* After the modes of all switches an offset writes the clocks.
LEMMA ChangingModeDone ==
    ASSUME NEW v, NEW m \in {"add", "sub"}, ChangingMode({}, m, v)
    PROVE  Offsetting(PtpSwitch, v)
  <1>1. transfers = Pend(PtpSwitch, <<SetClock(v)>>, <<>>)
    BY DEF ChangingMode, Pend
  <1>2. g_ptpControl2 = m /\ InMode(PtpSwitch, m)
    BY DEF ChangingMode, InMode
  <1>3. synchronised => \A s, t \in PtpSwitch : Target(PtpSwitch, v, s) = Target(PtpSwitch, v, t)
    BY <1>2, SameTargets DEF ChangingMode
  <1>4. QED BY <1>1, <1>2, <1>3 DEF ChangingMode, Offsetting

\* Every transfer is made by the first loop, which has switches left.
PtpNormal ==
    \/ Resting
    \/ Synchronising
    \/ \E L \in SUBSET PtpSwitch :
          /\ L # {}
          /\ \/ Initialising(L)
             \/ \E v \in Ratios \cup {1}, T \in Seq(LoopSet) : Rating(L, v, T)
             \/ \E v \in Offsets : Offsetting(L, v) \/ \E m \in {"add", "sub"} : ChangingMode(L, m, v)
    \/ \E L \in SUBSET PtpSwitch : Correcting(L) \/ \E u \in PtpSwitch : CorrectingOne(u, L)
    \/ \E v \in Offsets, T \in Seq(LoopSet) : SettingMode(v, T) \/ SettingClock(v, T)

\* There is a switch.
LEMMA PtpSwitchesAreSome == PtpSwitch # {}
  <1>1. 0 \in PtpSwitch
    BY PtpAssumption DEF PtpSwitch
  <1>2. QED BY <1>1

\* Loops over no switches are none, so the invariant has a form without them.
LEMMA NextLoop ==
    ASSUME OneMaster, PtpInv
    PROVE  PtpTypeOK /\ PtpNormal
  <1>1. PtpTypeOK
    BY DEF PtpInv
  <1>2. ASSUME NEW L \in SUBSET PtpSwitch, NEW v \in Ratios \cup {1}, NEW T \in Seq(LoopSet), Rating(L, v, T)
        PROVE  PtpNormal
    <2>1. CASE L = {}
      BY <1>2, <2>1, RatingDone DEF PtpNormal
    <2>2. CASE L # {}
      BY <1>2, <2>2 DEF PtpNormal
    <2>3. QED BY <2>1, <2>2
  <1>3. ASSUME NEW L \in SUBSET PtpSwitch, Initialising(L) PROVE PtpNormal
    <2>1. CASE L = {}
      <3>1. Rating(PtpSwitch, 1, SyncIfCascaded)
        BY <1>3, <2>1, InitialisingDone
      <3>2. PtpSwitch \in SUBSET PtpSwitch /\ 1 \in Ratios \cup {1}
        OBVIOUS
      <3>3. QED BY <1>2, <3>1, <3>2, SyncLoops
    <2>2. CASE L # {}
      BY <1>3, <2>2 DEF PtpNormal
    <2>3. QED BY <2>1, <2>2
  <1>4. ASSUME NEW L \in SUBSET PtpSwitch, NEW v \in Offsets, Offsetting(L, v) PROVE PtpNormal
    <2>1. CASE L = {}
      BY <1>4, <2>1, OffsettingDone DEF PtpNormal
    <2>2. CASE L # {}
      BY <1>4, <2>2 DEF PtpNormal
    <2>3. QED BY <2>1, <2>2
  <1>5. ASSUME NEW L \in SUBSET PtpSwitch, NEW v \in Offsets, NEW m \in {"add", "sub"}, ChangingMode(L, m, v)
        PROVE  PtpNormal
    <2>1. CASE L = {}
      <3>1. Offsetting(PtpSwitch, v) /\ PtpSwitch \in SUBSET PtpSwitch
        BY <1>5, <2>1, ChangingModeDone
      <3>2. QED BY <1>4, <3>1
    <2>2. CASE L # {}
      BY <1>5, <2>2 DEF PtpNormal
    <2>3. QED BY <2>1, <2>2
  <1>6. CASE Resting \/ Synchronising
    BY <1>1, <1>6 DEF PtpNormal
  <1>7. CASE \E v \in Offsets, T \in Seq(LoopSet) : SettingMode(v, T) \/ SettingClock(v, T)
    BY <1>1, <1>7 DEF PtpNormal
  <1>8. ASSUME NEW L \in SUBSET PtpSwitch, Correcting(L) \/ \E u \in PtpSwitch : CorrectingOne(u, L)
        PROVE  PtpNormal
    BY <1>8 DEF PtpNormal
  <1>9. QED BY <1>1, <1>2, <1>3, <1>4, <1>5, <1>6, <1>7, <1>8 DEF PtpInv

\* A transfer keeps the invariant, and the master's clock serves its call.
LEMMA TransferStep ==
    ASSUME OneMaster, PtpInv, Transfer
    PROVE  PtpInv' /\ ServiceStep
  <1> USE NextLoop
  <1>1. ~Resting
    BY DEF Resting, Transfer
  <1>2. CASE Synchronising
    <2>1. PtpTypeOK' /\ ServiceStep /\ Correcting(Slaves)'
      BY <1>2, SynchronisingStep
    <2>2. Slaves \in SUBSET PtpSwitch
      BY Master1
    <2>3. QED BY <2>1, <2>2, Zenon DEF PtpInv
  <1>3. ASSUME NEW L \in SUBSET PtpSwitch, L # {}, Initialising(L) PROVE PtpInv' /\ ServiceStep
    <2>1. PtpTypeOK' /\ ServiceStep /\ \E s \in L : Initialising(L \ {s})'
      BY <1>3, InitialisingStep
    <2>2. PICK s \in L : Initialising(L \ {s})'
      BY <2>1
    <2>3. L \ {s} \in SUBSET PtpSwitch
      OBVIOUS
    <2>4. QED BY <2>1, <2>2, <2>3, Zenon DEF PtpInv
  <1>4. ASSUME NEW L \in SUBSET PtpSwitch, L # {}, NEW v \in Ratios \cup {1}, NEW T \in Seq(LoopSet), Rating(L, v, T)
        PROVE  PtpInv' /\ ServiceStep
    <2>1. PtpTypeOK' /\ ServiceStep /\ \E s \in L : Rating(L \ {s}, v, T)'
      BY <1>4, RatingStep
    <2>2. PICK s \in L : Rating(L \ {s}, v, T)'
      BY <2>1
    <2>3. L \ {s} \in SUBSET PtpSwitch
      OBVIOUS
    <2>4. QED BY <2>1, <2>2, <2>3, Zenon DEF PtpInv
  <1>5. ASSUME NEW L \in SUBSET PtpSwitch, L # {}, NEW v \in Offsets, Offsetting(L, v)
        PROVE  PtpInv' /\ ServiceStep
    <2>1. PtpTypeOK' /\ ServiceStep /\ \E s \in L : Offsetting(L \ {s}, v)'
      BY <1>5, OffsettingStep
    <2>2. PICK s \in L : Offsetting(L \ {s}, v)'
      BY <2>1
    <2>3. L \ {s} \in SUBSET PtpSwitch
      OBVIOUS
    <2>4. QED BY <2>1, <2>2, <2>3, Zenon DEF PtpInv
  <1>6. ASSUME NEW L \in SUBSET PtpSwitch, L # {}, NEW v \in Offsets, NEW m \in {"add", "sub"}, ChangingMode(L, m, v)
        PROVE  PtpInv' /\ ServiceStep
    <2>1. PtpTypeOK' /\ ServiceStep /\ \E s \in L : ChangingMode(L \ {s}, m, v)'
      BY <1>6, ChangingModeStep
    <2>2. PICK s \in L : ChangingMode(L \ {s}, m, v)'
      BY <2>1
    <2>3. L \ {s} \in SUBSET PtpSwitch
      OBVIOUS
    <2>4. QED BY <2>1, <2>2, <2>3, Zenon DEF PtpInv
  <1>7. ASSUME NEW L \in SUBSET PtpSwitch, Correcting(L) PROVE PtpInv' /\ ServiceStep
    <2>1. CASE L = {}
      <3>1. PtpTypeOK' /\ ServiceStep /\ Resting'
        BY <1>7, <2>1, ResetStep
      <3>2. QED BY <3>1, Zenon DEF PtpInv
    <2>2. CASE L # {}
      <3>1. PtpTypeOK' /\ ServiceStep /\ \E u \in L : CorrectingOne(u, L \ {u})'
        BY <1>7, <2>2, CorrectingStep
      <3>2. PICK u \in L : CorrectingOne(u, L \ {u})'
        BY <3>1
      <3>3. L \ {u} \in SUBSET PtpSwitch /\ u \in PtpSwitch
        OBVIOUS
      <3>4. QED BY <3>1, <3>2, <3>3, Zenon DEF PtpInv
    <2>3. QED BY <2>1, <2>2
  <1>8. ASSUME NEW L \in SUBSET PtpSwitch, NEW u \in PtpSwitch, CorrectingOne(u, L)
        PROVE  PtpInv' /\ ServiceStep
    <2>1. PtpTypeOK' /\ ServiceStep /\ Correcting(L)'
      BY <1>8, CorrectingOneStep
    <2>2. QED BY <2>1, Zenon DEF PtpInv
  <1>9. ASSUME NEW v \in Offsets, NEW T \in Seq(LoopSet), SettingMode(v, T)
        PROVE  PtpInv' /\ ServiceStep
    <2>1. PtpTypeOK' /\ ServiceStep /\ SettingClock(v, T)'
      BY <1>9, SettingModeStep
    <2>2. QED BY <2>1, Zenon DEF PtpInv
  <1>10. ASSUME NEW v \in Offsets, NEW T \in Seq(LoopSet), SettingClock(v, T)
         PROVE  PtpInv' /\ ServiceStep
    <2>1. PtpTypeOK' /\ ServiceStep /\ (Resting \/ Synchronising)'
      BY <1>10, SettingClockStep
    <2>2. QED BY <2>1, Zenon DEF PtpInv
  <1>11. QED BY <1>1, <1>2, <1>3, <1>4, <1>5, <1>6, <1>7, <1>8, <1>9, <1>10 DEF PtpNormal

-----------------------------------------------------------------------------
(* Time *)

\* A tick moves the clocks within their range, and nothing else.
LEMMA TickTyped ==
    ASSUME PtpTypeOK, PtpTick
    PROVE  /\ PtpTypeOK'
           /\ \A s \in PtpSwitch : clock'[s] = (clock[s] + ratio[s]) % ClockRange
           /\ UNCHANGED <<g_ptpControl2, mode, ratio, impulse, captured, transfers, call, synchronised>>
  <1>1. UNCHANGED <<g_ptpControl2, mode, ratio, impulse, captured, transfers, call, synchronised>>
    BY DEF PtpTick
  <1>2. \A s \in PtpSwitch : clock'[s] = (clock[s] + ratio[s]) % ClockRange
    BY DEF PtpTick
  <1>3. \A s \in PtpSwitch : clock[s] \in 0 .. ClockRange - 1 /\ ratio[s] \in 0 .. ClockRange - 1
    BY RatioTyped DEF PtpTypeOK
  <1>4. \A s \in PtpSwitch : (clock[s] + ratio[s]) % ClockRange \in 0 .. ClockRange - 1
    BY <1>3, ClockSums
  <1>5. clock' \in [PtpSwitch -> 0 .. ClockRange - 1]
    BY <1>4 DEF PtpTick
  <1>6. QED BY <1>1, <1>2, <1>5 DEF PtpTypeOK

\* Clocks that run alike stay as far apart as they are.
LEMMA TickTogether ==
    ASSUME PtpTypeOK, PtpTick, SameRate, NEW s \in PtpSwitch, NEW t \in PtpSwitch
    PROVE  /\ clock[s] = clock[t] => clock'[s] = clock'[t]
           /\ (clock'[s] - clock'[t]) % ClockRange = (clock[s] - clock[t]) % ClockRange
  <1>1. ratio[s] = ratio[t]
    BY DEF SameRate
  <1>2. clock'[s] = (clock[s] + ratio[s]) % ClockRange /\ clock'[t] = (clock[t] + ratio[s]) % ClockRange
    BY <1>1, TickTyped
  <1>3. clock[s] \in 0 .. ClockRange - 1 /\ clock[t] \in 0 .. ClockRange - 1 /\ ratio[s] \in 0 .. ClockRange - 1
    BY RatioTyped DEF PtpTypeOK
  <1>4. (clock'[s] - clock'[t]) % ClockRange = (clock[s] - clock[t]) % ClockRange
    BY <1>2, <1>3, DifferencesLast
  <1>5. QED BY <1>2, <1>4

\* What a clock will be after an offset goes on like a clock.
LEMMA TickTarget ==
    ASSUME PtpTypeOK, PtpTick, NEW L, NEW v \in Offsets, NEW s \in PtpSwitch, mode[s] \in {"add", "sub"}
    PROVE  Target(L, v, s)' = (Target(L, v, s) + ratio[s]) % ClockRange
  <1>1. clock'[s] = (clock[s] + ratio[s]) % ClockRange /\ mode' = mode /\ PtpTypeOK'
    BY TickTyped
  <1>2. v \in 0 .. ClockRange - 1
    BY RatioTyped
  <1>3. clock[s] \in 0 .. ClockRange - 1 /\ ratio[s] \in 0 .. ClockRange - 1
    BY RatioTyped DEF PtpTypeOK
  <1>4. CASE s \in L /\ mode[s] = "add"
    <2>1. Adjusted(s, v)' = (clock'[s] + v) % ClockRange
      BY <1>1, <1>4 DEF Adjusted
    <2>2. Adjusted(s, v) = (clock[s] + v) % ClockRange
      BY <1>4 DEF Adjusted
    <2>3. (clock'[s] + v) % ClockRange = (((clock[s] + v) % ClockRange) + ratio[s]) % ClockRange
      BY <1>1, <1>2, <1>3, DifferencesLast
    <2>4. QED BY <1>4, <2>1, <2>2, <2>3 DEF Target
  <1>5. CASE s \in L /\ mode[s] = "sub"
    <2>1. Adjusted(s, v)' = (clock'[s] - v) % ClockRange
      BY <1>1, <1>5 DEF Adjusted
    <2>2. Adjusted(s, v) = (clock[s] - v) % ClockRange
      BY <1>5 DEF Adjusted
    <2>3. (clock'[s] - v) % ClockRange = (((clock[s] - v) % ClockRange) + ratio[s]) % ClockRange
      BY <1>1, <1>2, <1>3, DifferencesLast
    <2>4. QED BY <1>5, <2>1, <2>2, <2>3 DEF Target
  <1>6. CASE s \notin L
    BY <1>1, <1>6 DEF Target
  <1>7. QED BY <1>4, <1>5, <1>6

\* Time keeps the invariant, at any moment of a call, and is Tick for the master.
LEMMA TickStep ==
    ASSUME OneMaster, PtpInv, PtpTick
    PROVE  PtpInv' /\ ServiceStep
  <1> USE DEF PtpInv
  <1>1. /\ PtpTypeOK /\ PtpTypeOK'
        /\ UNCHANGED <<g_ptpControl2, mode, ratio, impulse, captured, transfers, call, synchronised>>
    BY TickTyped
  <1>2. SameRate' <=> SameRate
    BY <1>1 DEF SameRate
  <1>3. ASSUME SameRate, Together PROVE Together'
    BY <1>1, <1>3, TickTogether DEF Together
  <1>4. ASSUME Resting PROVE Resting'
    BY <1>1, <1>2, <1>3, <1>4 DEF Resting, InMode
  <1>5. ASSUME Synchronising PROVE Synchronising'
    BY <1>1, <1>2, <1>5 DEF Synchronising
  <1>6. ASSUME NEW L \in SUBSET PtpSwitch, Initialising(L) PROVE Initialising(L)'
    BY <1>1, <1>2, <1>6 DEF Initialising, Follows, InMode
  <1>7. ASSUME NEW L \in SUBSET PtpSwitch, NEW v, NEW T, Rating(L, v, T) PROVE Rating(L, v, T)'
    BY <1>1, <1>7 DEF Rating, Follows, InMode
  <1>8. ASSUME NEW v, NEW T, SettingMode(v, T) PROVE SettingMode(v, T)'
    BY <1>1, <1>2, <1>8 DEF SettingMode, Follows
  <1>9. ASSUME NEW v, NEW T, SettingClock(v, T) PROVE SettingClock(v, T)'
    BY <1>1, <1>2, <1>9 DEF SettingClock, Follows
  <1>10. ASSUME NEW L \in SUBSET PtpSwitch, NEW m, NEW v, ChangingMode(L, m, v) PROVE ChangingMode(L, m, v)'
    BY <1>1, <1>2, <1>3, <1>10 DEF ChangingMode, InMode
  <1>11. ASSUME NEW L \in SUBSET PtpSwitch, NEW v \in Offsets, Offsetting(L, v) PROVE Offsetting(L, v)'
    <2>1. ASSUME NEW s \in PtpSwitch, NEW t \in PtpSwitch, synchronised
          PROVE  Target(L, v, s)' = Target(L, v, t)'
      <3>1. Target(L, v, s) = Target(L, v, t) /\ ratio[s] = ratio[t]
        BY <1>11, <2>1 DEF Offsetting, SameRate
      <3>2. mode[s] \in {"add", "sub"} /\ mode[t] \in {"add", "sub"}
        BY <1>11 DEF Offsetting, InMode
      <3>3. Target(L, v, s)' = (Target(L, v, s) + ratio[s]) % ClockRange
        BY <1>1, <3>2, TickTarget
      <3>4. Target(L, v, t)' = (Target(L, v, t) + ratio[t]) % ClockRange
        BY <1>1, <3>2, TickTarget
      <3>5. QED BY <3>1, <3>3, <3>4
    <2>2. synchronised' => \A s, t \in PtpSwitch : Target(L, v, s)' = Target(L, v, t)'
      BY <1>1, <2>1
    <2>3. QED BY <1>1, <1>2, <1>11, <2>2 DEF Offsetting, InMode
  <1>12. ASSUME NEW L \in SUBSET PtpSwitch, Correction(L) PROVE Correction(L)'
    <2>1. ASSUME NEW s \in L PROVE InStep(s)'
      <3>1. PtpMasterSwitch \in PtpSwitch /\ s \in PtpSwitch /\ SameRate /\ InStep(s)
        BY <1>12, Master1 DEF Correction
      <3>2. (clock'[PtpMasterSwitch] - clock'[s]) % ClockRange = (clock[PtpMasterSwitch] - clock[s]) % ClockRange
        BY <1>1, <3>1, TickTogether
      <3>3. QED BY <1>1, <3>1, <3>2 DEF InStep
    <2>2. QED BY <1>1, <1>2, <1>12, <2>1 DEF Correction
  <1>13. ASSUME NEW X \in SUBSET PtpSwitch, SameRate,
                \A s \in X : mode[s] = "add" /\ clock[s] = clock[PtpMasterSwitch]
         PROVE  \A s \in X : mode'[s] = "add" /\ clock'[s] = clock'[PtpMasterSwitch]
    BY <1>1, <1>13, TickTogether, Master1
  <1>14. ASSUME NEW L \in SUBSET PtpSwitch, Correcting(L) PROVE Correcting(L)'
    <2>1. \A s \in PtpSwitch \ L : mode'[s] = "add" /\ clock'[s] = clock'[PtpMasterSwitch]
      BY <1>13, <1>14 DEF Correcting, Correction
    <2>2. QED BY <1>1, <1>12, <1>14, <2>1 DEF Correcting
  <1>15. ASSUME NEW L \in SUBSET PtpSwitch, NEW u \in PtpSwitch, CorrectingOne(u, L) PROVE CorrectingOne(u, L)'
    <2>1. \A s \in PtpSwitch \ (L \cup {u}) : mode'[s] = "add" /\ clock'[s] = clock'[PtpMasterSwitch]
      BY <1>13, <1>15 DEF CorrectingOne, Correction
    <2>2. L \cup {u} \in SUBSET PtpSwitch
      OBVIOUS
    <2>3. Correction(L \cup {u})'
      BY <1>12, <1>15, <2>2 DEF CorrectingOne
    <2>4. QED BY <1>1, <1>15, <2>1, <2>3 DEF CorrectingOne
  <1>16. PtpInv'
    <2>1. CASE Resting \/ Synchronising
      BY <1>1, <1>4, <1>5, <2>1, Zenon
    <2>2. ASSUME NEW L \in SUBSET PtpSwitch, Initialising(L) \/ Correcting(L) PROVE PtpInv'
      BY <1>1, <1>6, <1>14, <2>2, Zenon
    <2>3. ASSUME NEW L \in SUBSET PtpSwitch, NEW u \in PtpSwitch, CorrectingOne(u, L) PROVE PtpInv'
      BY <1>1, <1>15, <2>3, Zenon
    <2>4. ASSUME NEW L \in SUBSET PtpSwitch, NEW v \in Ratios \cup {1}, NEW T \in Seq(LoopSet), Rating(L, v, T)
          PROVE  PtpInv'
      BY <1>1, <1>7, <2>4, Zenon
    <2>5. ASSUME NEW L \in SUBSET PtpSwitch, NEW v \in Offsets, Offsetting(L, v) PROVE PtpInv'
      BY <1>1, <1>11, <2>5, Zenon
    <2>6. ASSUME NEW L \in SUBSET PtpSwitch, NEW v \in Offsets, NEW m \in {"add", "sub"}, ChangingMode(L, m, v)
          PROVE  PtpInv'
      BY <1>1, <1>10, <2>6, Zenon
    <2>7. ASSUME NEW v \in Offsets, NEW T \in Seq(LoopSet), SettingMode(v, T) \/ SettingClock(v, T) PROVE PtpInv'
      BY <1>1, <1>8, <1>9, <2>7, Zenon
    <2>8. QED
      <3> HIDE DEF PtpInv
      <3>1. QED BY <2>1, <2>2, <2>3, <2>4, <2>5, <2>6, <2>7 DEF PtpInv
  <1>17. ServiceStep
    <2>1. Request' = Request
      BY <1>1 DEF Request
    <2>2. ratio[PtpMasterSwitch]' = ratio[PtpMasterSwitch]
      BY <1>1
    <2>3. clock[PtpMasterSwitch]' = (clock[PtpMasterSwitch] + ratio[PtpMasterSwitch]) % ClockRange
      BY TickTyped, Master1
    <2>4. PtpServiceOfMaster!Tick
      BY <2>1, <2>2, <2>3 DEF PtpServiceOfMaster!Tick, Request
    <2>5. QED BY <2>4 DEF PtpServiceOfMaster!Next, ServiceStep
  <1>18. QED BY <1>16, <1>17

-----------------------------------------------------------------------------
(* Calls *)

\* A loop over some switches is left to be done.
LEMMA LoopsLeft ==
    ASSUME NEW L \in SUBSET PtpSwitch, L # {}, NEW body \in Seq(Ops), NEW T \in Seq(LoopSet)
    PROVE  Pend(L, body, T) # <<>>
  BY PendTyped, Cons DEF Pend

\* A body of one transfer.
LEMMA OneTransfer ==
    ASSUME NEW op \in Ops
    PROVE  <<op>> \in Seq(Ops)
  OBVIOUS

\* When no transfers are left the switches rest.
LEMMA CallEnds ==
    ASSUME OneMaster, PtpInv, transfers = <<>>
    PROVE  Resting
  <1>1. PtpNormal
    BY NextLoop
  <1>2. /\ \A m \in {"add", "set", "sub"} : <<SetMode(m, FALSE)>> \in Seq(Ops)
        /\ \A v \in 0 .. ClockRange - 1 : <<SetClock(v)>> \in Seq(Ops) /\ <<SetRatio(v)>> \in Seq(Ops)
        /\ <<Correct>> \in Seq(Ops)
    BY OpsTyped, OneTransfer DEF Modes
  <1>3. ASSUME NEW L \in SUBSET PtpSwitch, L # {}, Initialising(L) PROVE FALSE
    <2>1. SetRatio(1) \in Ops
      BY RatioTyped, OpsTyped
    <2>2. Pend(PtpSwitch, <<SetRatio(1)>>, SyncIfCascaded) \in Seq(LoopSet)
      BY <2>1, LoopTyped, SyncLoops
    <2>3. QED BY <1>2, <1>3, <2>2, LoopsLeft DEF Initialising
  <1>4. ASSUME NEW L \in SUBSET PtpSwitch, L # {}, NEW v \in Ratios \cup {1}, NEW T \in Seq(LoopSet), Rating(L, v, T)
        PROVE  FALSE
    BY <1>2, <1>4, LoopsLeft, RatioTyped DEF Rating
  <1>5. ASSUME NEW L \in SUBSET PtpSwitch, L # {}, NEW v \in Offsets, Offsetting(L, v) PROVE FALSE
    BY <1>2, <1>5, LoopsLeft, RatioTyped, EmptySeq DEF Offsetting
  <1>6. ASSUME NEW L \in SUBSET PtpSwitch, L # {}, NEW v \in Offsets, NEW m \in {"add", "sub"}, ChangingMode(L, m, v)
        PROVE  FALSE
    <2>1. SetClock(v) \in Ops /\ <<>> \in Seq(LoopSet)
      BY RatioTyped, OpsTyped, EmptySeq
    <2>2. Pend(PtpSwitch, <<SetClock(v)>>, <<>>) \in Seq(LoopSet)
      BY <2>1, LoopTyped
    <2>3. QED BY <1>2, <1>6, <2>2, LoopsLeft DEF ChangingMode
  <1>7. Reset # <<>>
    <2>1. {PtpMasterSwitch} \in SUBSET PtpSwitch /\ {PtpMasterSwitch} # {}
      BY Master1
    <2>2. QED BY <1>2, <2>1, LoopsLeft, EmptySeq DEF Reset
  <1>8. ASSUME NEW L \in SUBSET PtpSwitch, Correcting(L) PROVE FALSE
    <2>1. CASE L = {}
      BY <1>7, <1>8, <2>1 DEF Correcting, Pend
    <2>2. CASE L # {}
      BY <1>8, <2>2, LoopsLeft, SynchronisedTyped, SyncLoops DEF Correcting
    <2>3. QED BY <2>1, <2>2
  <1>9. ASSUME NEW L \in SUBSET PtpSwitch, NEW u \in PtpSwitch, CorrectingOne(u, L) PROVE FALSE
    <2>1. {u} \in SUBSET PtpSwitch /\ {u} # {}
      OBVIOUS
    <2>2. QED BY <1>2, <1>9, <2>1, LoopsLeft, CorrectionsIdle DEF CorrectingOne
  <1>10. ASSUME NEW v \in Offsets, NEW T \in Seq(LoopSet), SettingMode(v, T) \/ SettingClock(v, T)
         PROVE  FALSE
    <2>1. {PtpMasterSwitch} \in SUBSET PtpSwitch /\ {PtpMasterSwitch} # {} /\ SetClock(v) \in Ops
      BY Master1, RatioTyped, OpsTyped
    <2>2. Pend({PtpMasterSwitch}, <<SetClock(v)>>, T) \in Seq(LoopSet)
      BY <2>1, LoopTyped
    <2>3. <<SetClock(v)>> \in Seq(Ops) /\ <<SetMode("set", FALSE)>> \in Seq(Ops)
      BY <1>2, RatioTyped
    <2>4. Pend({PtpMasterSwitch}, <<SetClock(v)>>, T) # <<>>
      BY <2>1, <2>3, LoopsLeft
    <2>5. Pend({PtpMasterSwitch}, <<SetMode("set", FALSE)>>, Pend({PtpMasterSwitch}, <<SetClock(v)>>, T)) # <<>>
      BY <2>1, <2>2, <2>3, LoopsLeft
    <2>6. QED BY <1>10, <2>4, <2>5 DEF SettingMode, SettingClock
  <1>11. ~Synchronising
    BY SyncLoops DEF Synchronising
  <1>12. QED BY <1>1, <1>3, <1>4, <1>5, <1>6, <1>8, <1>9, <1>10, <1>11 DEF PtpNormal

\* Two loops before others.
LEMMA TwoLoops ==
    ASSUME NEW S, NEW a \in S, NEW b \in S, NEW T \in Seq(S)
    PROVE  <<a, b>> \o T = <<a>> \o (<<b>> \o T)
  <1>1. <<a>> \in Seq(S) /\ <<b>> \in Seq(S)
    OBVIOUS
  <1>2. <<a>> \o (<<b>> \o T) = (<<a>> \o <<b>>) \o T
    BY <1>1, ConcatAssociative
  <1>3. <<a>> \o <<b>> = <<a, b>>
    BY SmallConcatenations
  <1>4. QED BY <1>2, <1>3

\* Loops over all switches, or one, in the form of Pend.
LEMMA LoopsOfCalls ==
    ASSUME NEW L \in SUBSET PtpSwitch, L # {}, NEW p \in Ops, NEW q \in Ops, NEW T \in Seq(LoopSet)
    PROVE  /\ <<Loop(L, <<p>>)>> \o T = Pend(L, <<p>>, T)
           /\ <<Loop(L, <<p>>)>> = Pend(L, <<p>>, <<>>)
           /\ <<Loop(L, <<p>>), Loop(L, <<q>>)>> \o T = Pend(L, <<p>>, Pend(L, <<q>>, T))
           /\ <<Loop(L, <<p>>), Loop(L, <<q>>)>> = Pend(L, <<p>>, Pend(L, <<q>>, <<>>))
  <1>1. PICK a \in LoopSet, b \in LoopSet : a = Loop(L, <<p>>) /\ b = Loop(L, <<q>>)
    BY OneTransfer, PendTyped
  <1>2. <<a, b>> \o T = <<a>> \o (<<b>> \o T)
    BY TwoLoops
  <1>3. <<a, b>> = <<a>> \o <<b>>
    BY SmallConcatenations
  <1>4. <<a>> \o <<>> = <<a>> /\ <<b>> \o <<>> = <<b>>
    BY SmallSequences, ConcatEmptySeq
  <1>5. QED BY <1>1, <1>2, <1>3, <1>4 DEF Pend

\* A call with a transfer to the master's clock is Call.
LEMMA ServiceCalls ==
    ASSUME NEW c \in {"set", "add", "sub", "rate"}, NEW v \in 0 .. ClockRange - 1,
           transfers = <<>>, Pending(transfers'), call' = [call |-> c, value |-> v],
           UNCHANGED <<clock, ratio>>
    PROVE  ServiceStep
  <1>1. Request = Idle /\ Request' = call'
    BY PendingNothing DEF Request
  <1>2. call' \in [call : {"set", "add", "sub", "rate"}, value : 0 .. ClockRange - 1]
    BY CallsAreNotIdle
  <1>3. clock[PtpMasterSwitch]' = clock[PtpMasterSwitch] /\ ratio[PtpMasterSwitch]' = ratio[PtpMasterSwitch]
    OBVIOUS
  <1>4. PtpServiceOfMaster!Call
    BY <1>1, <1>2, <1>3 DEF PtpServiceOfMaster!Call, Request
  <1>5. QED BY <1>4 DEF PtpServiceOfMaster!Next, ServiceStep

\* Synchronising follows in a line of several switches; otherwise the master is alone.
LEMMA SyncFollows ==
    ASSUME OneMaster
    PROVE  /\ PtpSwitches > 1 => SyncIfCascaded = SyncTransfers /\ SyncIfCascaded # <<>>
           /\ ~(PtpSwitches > 1) => SyncIfCascaded = <<>> /\ PtpSwitch = {PtpMasterSwitch}
           /\ SyncIfCascaded \in Seq(LoopSet)
  <1>1. ~(PtpSwitches > 1) => PtpSwitch = {PtpMasterSwitch}
    <2>1. ASSUME ~(PtpSwitches > 1) PROVE PtpSwitch = {0}
      BY <2>1, PtpAssumption DEF PtpSwitch
    <2>2. QED BY <2>1, Master1
  <1>2. QED BY <1>1, SyncLoops DEF SyncIfCascaded

\* SJA1105P_initPtp keeps the invariant and is a call of the service.
LEMMA InitPtpStep ==
    ASSUME OneMaster, PtpInv, InitPtp
    PROVE  PtpInv' /\ ServiceStep
  <1>1. transfers = <<>> /\ Resting /\ PtpTypeOK
    BY CallEnds DEF InitPtp, Begin, PtpInv
  <1>2. SetMode("add", FALSE) \in Ops /\ SetRatio(1) \in Ops /\ 1 \in 0 .. ClockRange - 1
    BY SynchronisedTyped, RatioTyped, OpsTyped
  <1>3. /\ transfers' = <<All(<<SetMode("add", FALSE)>>), All(<<SetRatio(1)>>)>> \o SyncIfCascaded
        /\ g_ptpControl2' = "add" /\ call' = [call |-> "rate", value |-> 1]
        /\ UNCHANGED <<mode, clock, ratio, impulse, captured>> /\ synchronised' = (PtpSwitches > 1)
    BY DEF InitPtp, Begin
  <1>4. PtpTypeOK'
    <2>1. synchronised' \in BOOLEAN
      BY <1>3
    <2>2. QED BY <1>1, <1>3, <2>1 DEF PtpTypeOK
  <1>5. transfers' = Pend(PtpSwitch, <<SetMode("add", FALSE)>>, Pend(PtpSwitch, <<SetRatio(1)>>, SyncIfCascaded))
    BY <1>2, <1>3, LoopsOfCalls, SyncFollows, PtpSwitchesAreSome DEF All
  <1>6. Initialising(PtpSwitch)'
    <2>1. Follows(SyncIfCascaded)'
      BY <1>3, SyncFollows DEF Follows
    <2>2. InMode(PtpSwitch \ PtpSwitch, "add")'
      BY DEF InMode
    <2>3. ~impulse' /\ SameRate'
      BY <1>1, <1>3 DEF Resting, SameRate
    <2>4. QED BY <1>3, <1>5, <2>1, <2>2, <2>3 DEF Initialising
  <1>7. PtpInv'
    <2>1. PtpSwitch \in SUBSET PtpSwitch
      OBVIOUS
    <2>2. QED BY <1>4, <1>6, <2>1, Zenon DEF PtpInv
  <1>8. Pending(transfers')
    <2>1. /\ Pend(PtpSwitch, <<SetRatio(1)>>, SyncIfCascaded) \in Seq(LoopSet)
          /\ Pending(Pend(PtpSwitch, <<SetRatio(1)>>, SyncIfCascaded))
      BY <1>2, LoopTyped, SyncFollows, Master1, Registers
    <2>2. QED BY <1>2, <1>5, <2>1, LoopTyped
  <1>9. ServiceStep
    BY <1>1, <1>2, <1>3, <1>8, ServiceCalls
  <1>10. QED BY <1>7, <1>9

\* SJA1105P_setPtpClk keeps the invariant and is a call of the service.
LEMMA SetPtpClkStep ==
    ASSUME OneMaster, PtpInv, NEW v \in Offsets, SetPtpClk(v)
    PROVE  PtpInv' /\ ServiceStep
  <1> DEFINE L == {PtpMasterSwitch}
  <1>1. transfers = <<>> /\ Resting /\ PtpTypeOK
    BY CallEnds DEF SetPtpClk, Begin, PtpInv
  <1>2. SetMode("set", FALSE) \in Ops /\ SetClock(v) \in Ops /\ v \in 0 .. ClockRange - 1
    BY RatioTyped, OpsTyped DEF Modes
  <1>3. /\ transfers' = ClockSet(v) \o SyncIfCascaded
        /\ g_ptpControl2' = (IF PtpSwitches > 1 THEN "add" ELSE "set") /\ call' = [call |-> "set", value |-> v]
        /\ UNCHANGED <<mode, clock, ratio, impulse, captured>> /\ synchronised' = (PtpSwitches > 1)
    BY DEF SetPtpClk, Begin
  <1>4. PtpTypeOK'
    <2>1. synchronised' \in BOOLEAN
      BY <1>3
    <2>2. QED BY <1>1, <1>3, <2>1 DEF PtpTypeOK
  <1>5. L \in SUBSET PtpSwitch /\ L # {} /\ PtpMasterSwitch \in L
    BY Master1
  <1>6. /\ Follows(SyncIfCascaded)'
        /\ SyncIfCascaded = <<>> => PtpSwitch = L /\ g_ptpControl2' = "set"
        /\ ~impulse' /\ SameRate'
    BY <1>1, <1>3, SyncFollows DEF Follows, Resting, SameRate
  <1>7. /\ Pend(L, <<SetClock(v)>>, SyncIfCascaded) \in Seq(LoopSet)
        /\ Pending(Pend(L, <<SetClock(v)>>, SyncIfCascaded))
    BY <1>2, <1>5, LoopTyped, SyncFollows, Registers
  <1>8. CASE g_ptpControl2 = "set"
    <2>1. transfers' = Pend(L, <<SetClock(v)>>, SyncIfCascaded)
      <3>1. transfers' = <<Loop(L, <<SetClock(v)>>)>> \o SyncIfCascaded
        BY <1>3, <1>8 DEF ClockSet, Master
      <3>2. QED BY <1>2, <1>5, <3>1, LoopsOfCalls, SyncFollows
    <2>2. mode'[PtpMasterSwitch] = "set"
      BY <1>1, <1>3, <1>5, <1>8 DEF Resting, InMode
    <2>3. SettingClock(v, SyncIfCascaded)'
      BY <1>3, <1>6, <2>1, <2>2 DEF SettingClock
    <2>4. PtpInv'
      BY <1>4, <2>3, SyncFollows, Zenon DEF PtpInv
    <2>5. ServiceStep
      BY <1>1, <1>2, <1>3, <1>7, <2>1, ServiceCalls
    <2>6. QED BY <2>4, <2>5
  <1>9. CASE g_ptpControl2 # "set"
    <2>1. transfers' = Pend(L, <<SetMode("set", FALSE)>>, Pend(L, <<SetClock(v)>>, SyncIfCascaded))
      <3>1. transfers' = <<Loop(L, <<SetMode("set", FALSE)>>), Loop(L, <<SetClock(v)>>)>> \o SyncIfCascaded
        BY <1>3, <1>9 DEF ClockSet, Master
      <3>2. QED BY <1>2, <1>5, <3>1, LoopsOfCalls, SyncFollows
    <2>3. SettingMode(v, SyncIfCascaded)'
      BY <1>3, <1>6, <2>1 DEF SettingMode
    <2>4. PtpInv'
      BY <1>4, <2>3, SyncFollows, Zenon DEF PtpInv
    <2>5. Pending(transfers')
      BY <1>2, <1>5, <1>7, <2>1, LoopTyped
    <2>6. ServiceStep
      BY <1>1, <1>2, <1>3, <2>5, ServiceCalls
    <2>7. QED BY <2>4, <2>6
  <1>10. QED BY <1>8, <1>9

\* SJA1105P_setPtpClkRatio keeps the invariant and is a call of the service.
LEMMA SetPtpClkRatioStep ==
    ASSUME OneMaster, PtpInv, NEW v \in Ratios, SetPtpClkRatio(v)
    PROVE  PtpInv' /\ ServiceStep
  <1>1. transfers = <<>> /\ Resting /\ PtpTypeOK
    BY CallEnds DEF SetPtpClkRatio, Begin, PtpInv
  <1>2. SetRatio(v) \in Ops /\ v \in 0 .. ClockRange - 1 /\ <<>> \in Seq(LoopSet)
    BY RatioTyped, OpsTyped, EmptySeq
  <1>3. /\ transfers' = <<All(<<SetRatio(v)>>)>>
        /\ g_ptpControl2' = g_ptpControl2 /\ call' = [call |-> "rate", value |-> v]
        /\ UNCHANGED <<mode, clock, ratio, impulse, captured>> /\ synchronised' = FALSE
    BY DEF SetPtpClkRatio, Begin
  <1>4. PtpTypeOK'
    BY <1>1, <1>3 DEF PtpTypeOK
  <1>5. transfers' = Pend(PtpSwitch, <<SetRatio(v)>>, <<>>)
    BY <1>2, <1>3, LoopsOfCalls, PtpSwitchesAreSome DEF All
  <1>6. Rating(PtpSwitch, v, <<>>)'
    <2>1. Follows(<<>>)'
      BY <1>3 DEF Follows
    <2>2. InMode(PtpSwitch, g_ptpControl2)' /\ ~impulse'
      BY <1>1, <1>3 DEF Resting, InMode
    <2>3. QED BY <1>3, <1>5, <2>1, <2>2 DEF Rating
  <1>7. PtpInv'
    <2>1. PtpSwitch \in SUBSET PtpSwitch /\ v \in Ratios \cup {1}
      OBVIOUS
    <2>2. QED BY <1>2, <1>4, <1>6, <2>1, Zenon DEF PtpInv
  <1>8. Pending(transfers')
    BY <1>2, <1>5, LoopTyped, Master1, Registers
  <1>9. QED BY <1>1, <1>2, <1>3, <1>7, <1>8, ServiceCalls

\* Adding and subtracting an offset keep the invariant and are calls of the service.
LEMMA ChangeByOffsetStep ==
    ASSUME OneMaster, PtpInv, NEW m \in {"add", "sub"}, NEW v \in Offsets, ChangeByOffset(m, v)
    PROVE  PtpInv' /\ ServiceStep
  <1>1. transfers = <<>> /\ Resting /\ PtpTypeOK
    BY CallEnds DEF ChangeByOffset, Begin, PtpInv
  <1>2. SetMode(m, FALSE) \in Ops /\ SetClock(v) \in Ops /\ v \in 0 .. ClockRange - 1 /\ <<>> \in Seq(LoopSet)
    BY RatioTyped, OpsTyped, EmptySeq DEF Modes
  <1>3. /\ transfers' = IF g_ptpControl2 = m THEN <<All(<<SetClock(v)>>)>>
                        ELSE <<All(<<SetMode(m, FALSE)>>), All(<<SetClock(v)>>)>>
        /\ g_ptpControl2' = m /\ call' = [call |-> m, value |-> v]
        /\ UNCHANGED <<mode, clock, ratio, impulse, captured, synchronised>>
    BY DEF ChangeByOffset, Begin
  <1>4. PtpTypeOK'
    BY <1>1, <1>3 DEF PtpTypeOK
  <1>5. PtpSwitch \in SUBSET PtpSwitch /\ m \in {"set", "add", "sub", "rate"}
    OBVIOUS
  <1>6. ~impulse' /\ SameRate' /\ (synchronised' => Together')
    BY <1>1, <1>3 DEF Resting, SameRate, Together
  <1>7. /\ Pend(PtpSwitch, <<SetClock(v)>>, <<>>) \in Seq(LoopSet)
        /\ Pending(Pend(PtpSwitch, <<SetClock(v)>>, <<>>))
    BY <1>2, LoopTyped, Master1, Registers
  <1>8. CASE g_ptpControl2 = m
    <2>1. transfers' = Pend(PtpSwitch, <<SetClock(v)>>, <<>>)
      BY <1>2, <1>3, <1>8, LoopsOfCalls, PtpSwitchesAreSome DEF All
    <2>2. InMode(PtpSwitch, g_ptpControl2)'
      BY <1>1, <1>3, <1>8 DEF Resting, InMode
    <2>3. synchronised' => \A s, t \in PtpSwitch : Target(PtpSwitch, v, s)' = Target(PtpSwitch, v, t)'
      <3>1. synchronised => \A s, t \in PtpSwitch : Target(PtpSwitch, v, s) = Target(PtpSwitch, v, t)
        BY <1>1, SameTargets DEF Resting
      <3>2. \A s \in PtpSwitch : Target(PtpSwitch, v, s)' = Target(PtpSwitch, v, s)
        BY <1>3 DEF Target, Adjusted
      <3>3. QED BY <1>3, <3>1, <3>2
    <2>4. Offsetting(PtpSwitch, v)'
      BY <1>3, <1>6, <2>1, <2>2, <2>3 DEF Offsetting
    <2>5. PtpInv'
      BY <1>4, <1>5, <2>4, Zenon DEF PtpInv
    <2>6. QED BY <1>1, <1>2, <1>3, <1>5, <1>7, <2>1, <2>5, ServiceCalls
  <1>9. CASE g_ptpControl2 # m
    <2>1. transfers' = Pend(PtpSwitch, <<SetMode(m, FALSE)>>, Pend(PtpSwitch, <<SetClock(v)>>, <<>>))
      BY <1>2, <1>3, <1>9, LoopsOfCalls, PtpSwitchesAreSome DEF All
    <2>2. InMode(PtpSwitch \ PtpSwitch, m)'
      BY DEF InMode
    <2>3. ChangingMode(PtpSwitch, m, v)'
      BY <1>3, <1>6, <2>1, <2>2 DEF ChangingMode
    <2>4. PtpInv'
      BY <1>4, <1>5, <2>3, Zenon DEF PtpInv
    <2>5. Pending(transfers')
      BY <1>2, <1>7, <2>1, LoopTyped
    <2>6. QED BY <1>1, <1>2, <1>3, <1>5, <2>4, <2>5, ServiceCalls
  <1>10. QED BY <1>8, <1>9

\* SJA1105P_syncCascadedClocks keeps the invariant; the service takes no notice.
LEMMA SyncCascadedClocksStep ==
    ASSUME OneMaster, PtpInv, SyncCascadedClocks
    PROVE  PtpInv' /\ ServiceStep
  <1>1. transfers = <<>> /\ Resting /\ PtpTypeOK
    BY CallEnds DEF SyncCascadedClocks, Begin, PtpInv
  <1>2. /\ transfers' = SyncTransfers /\ g_ptpControl2' = "add" /\ synchronised'
        /\ UNCHANGED <<mode, clock, ratio, impulse, captured, call>> /\ synchronised' \in BOOLEAN
    BY DEF SyncCascadedClocks, Begin
  <1>3. PtpTypeOK'
    BY <1>1, <1>2 DEF PtpTypeOK
  <1>4. Synchronising'
    BY <1>1, <1>2 DEF Resting, Synchronising, SameRate
  <1>5. PtpInv'
    BY <1>3, <1>4, Zenon DEF PtpInv
  <1>6. ~Pending(transfers) /\ ~Pending(transfers')
    BY <1>1, <1>2, PendingNothing, SyncLoops
  <1>7. ServiceStep
    BY <1>2, <1>6, ServiceStutters
  <1>8. QED BY <1>5, <1>7

-----------------------------------------------------------------------------
(* Theorems *)

\* The invariant holds at first, and the service starts as it may.
LEMMA PtpStarts ==
    ASSUME OneMaster, PtpInit
    PROVE  PtpInv /\ PtpServiceOfMaster!Init
  <1>1. PtpTypeOK
    <2>1. 0 \in 0 .. ClockRange - 1
      BY PtpAssumption
    <2>2. captured \in [PtpSwitch -> 0 .. ClockRange - 1]
      BY <2>1 DEF PtpInit
    <2>3. QED BY <2>2 DEF PtpInit, PtpTypeOK
  <1>2. Resting
    BY DEF PtpInit, Resting, SameRate, InMode
  <1>3. PtpInv
    BY <1>1, <1>2 DEF PtpInv
  <1>4. ~Pending(transfers)
    BY PendingNothing DEF PtpInit
  <1>5. clock[PtpMasterSwitch] \in 0 .. ClockRange - 1 /\ ratio[PtpMasterSwitch] = 1
    BY Master1 DEF PtpInit
  <1>6. PtpServiceOfMaster!Init
    BY <1>4, <1>5 DEF PtpServiceOfMaster!Init
  <1>7. QED BY <1>3, <1>6

\* Every step keeps the invariant and is one of the service, or none.
LEMMA PtpSteps ==
    ASSUME OneMaster, PtpInv, [PtpNext]_ptpVars
    PROVE  PtpInv' /\ ServiceStep
  <1>1. CASE UNCHANGED ptpVars
    <2>1. UNCHANGED <<g_ptpControl2, mode, clock, ratio, impulse, captured, transfers, call, synchronised>>
      BY <1>1 DEF ptpVars
    <2>2. ServiceStep
      BY <2>1, ServiceStutters
    <2>3. /\ PtpTypeOK' <=> PtpTypeOK
          /\ Resting' <=> Resting
          /\ Synchronising' <=> Synchronising
          /\ \A L : Initialising(L)' <=> Initialising(L)
          /\ \A L, v, T : Rating(L, v, T)' <=> Rating(L, v, T)
          /\ \A v, T : (SettingMode(v, T)' <=> SettingMode(v, T)) /\ (SettingClock(v, T)' <=> SettingClock(v, T))
      BY <2>1 DEF PtpTypeOK, Resting, Synchronising, Initialising, Rating, SettingMode, SettingClock,
                  SameRate, InMode, Together, Follows
    <2>5. /\ \A L, m, v : ChangingMode(L, m, v)' <=> ChangingMode(L, m, v)
          /\ \A L, v : Offsetting(L, v)' <=> Offsetting(L, v)
      <3>1. \A L, v, s : Target(L, v, s)' = Target(L, v, s)
        BY <2>1 DEF Target, Adjusted
      <3>2. QED BY <2>1, <3>1 DEF ChangingMode, Offsetting, SameRate, InMode, Together
    <2>6. /\ \A L : Correcting(L)' <=> Correcting(L)
          /\ \A u, L : CorrectingOne(u, L)' <=> CorrectingOne(u, L)
      <3>1. \A L : Correction(L)' <=> Correction(L)
        BY <2>1 DEF Correction, InStep, SameRate
      <3>2. QED BY <2>1, <3>1 DEF Correcting, CorrectingOne
    <2>7. PtpInv'
      BY <2>3, <2>5, <2>6 DEF PtpInv
    <2>8. QED BY <2>2, <2>7
  <1>2. CASE InitPtp
    BY <1>2, InitPtpStep
  <1>3. CASE \E v \in Offsets : SetPtpClk(v) \/ ChangeByOffset("add", v) \/ ChangeByOffset("sub", v)
    BY <1>3, SetPtpClkStep, ChangeByOffsetStep
  <1>4. CASE \E v \in Ratios : SetPtpClkRatio(v)
    BY <1>4, SetPtpClkRatioStep
  <1>5. CASE SyncCascadedClocks
    BY <1>5, SyncCascadedClocksStep
  <1>6. CASE Transfer
    BY <1>6, TransferStep
  <1>7. CASE PtpTick
    BY <1>7, TickStep
  <1>8. QED BY <1>1, <1>2, <1>3, <1>4, <1>5, <1>6, <1>7 DEF PtpNext

\* With one master the invariant always holds.
LEMMA PtpAlways == OneMaster => (PtpSpec => []PtpInv)
  <1> SUFFICES ASSUME OneMaster PROVE PtpSpec => []PtpInv
    OBVIOUS
  <1>1. PtpInit => PtpInv
    BY PtpStarts
  <1>2. PtpInv /\ [PtpNext]_ptpVars => PtpInv'
    BY PtpSteps
  <1>3. QED BY <1>1, <1>2, PTL DEF PtpSpec

-----------------------------------------------------------------------------
(* Types, for any number of masters *)

\* Transfers whose values fit their registers, and loops over switches that exist.
TypedOps == [register : {"control2"}, value : Modes, sync : BOOLEAN]
               \cup [register : {"control3"}, value : 0 .. ClockRange - 1]
               \cup [register : {"control4"}, value : Ratios \cup {1}]
               \cup {Correct}
TypedBodies == Seq(TypedOps) \ {<<>>}
TypedLoops == [switches : SUBSET PtpSwitch, body : TypedBodies]

\* The inductive invariant.
PtpTyped == PtpTypeOK /\ transfers \in Seq(TypedLoops)

\* The switch taken for the master exists, however many are configured as one.
LEMMA MasterExists == PtpMasterSwitch \in PtpSwitch
  <1> DEFINE S == {s \in PtpSwitch : ptpMaster[s]}
             n == PtpSwitches - 1
  <1>1. n \in Nat /\ PtpSwitch = 0 .. n
    BY PtpAssumption DEF PtpSwitch
  <1>2. CASE S # {}
    <2>1. S \in SUBSET (0 .. n)
      BY <1>1
    <2> HIDE DEF n
    <2>2. PICK x \in S : \A y \in S : y <= x
      BY <1>1, <1>2, <2>1, GreatestElement
    <2>3. \E s \in PtpSwitch : ptpMaster[s] /\ \A t \in PtpSwitch : ptpMaster[t] => t <= s
      BY <2>2
    <2>4. QED BY <2>3 DEF PtpMasterSwitch
  <1>3. CASE S = {}
    BY <1>1, <1>3 DEF PtpMasterSwitch
  <1>4. QED BY <1>2, <1>3

\* The transfers of the calls fit.
LEMMA TypedTransfers ==
    /\ \A m \in Modes, y \in BOOLEAN : <<SetMode(m, y)>> \in TypedBodies
    /\ \A v \in 0 .. ClockRange - 1 : <<SetClock(v)>> \in TypedBodies
    /\ \A v \in Ratios \cup {1} : <<SetRatio(v)>> \in TypedBodies
    /\ Synchronised \in TypedBodies
  <1>1. /\ \A m \in Modes, y \in BOOLEAN : SetMode(m, y) \in TypedOps
        /\ \A v \in 0 .. ClockRange - 1 : SetClock(v) \in TypedOps
        /\ \A v \in Ratios \cup {1} : SetRatio(v) \in TypedOps
        /\ Correct \in TypedOps
    BY DEF TypedOps, SetMode, SetClock, SetRatio, Correct
  <1>2. \A t \in TypedOps : <<t>> \in TypedBodies
    BY DEF TypedBodies
  <1>3. SetMode("add", FALSE) \in TypedOps
    BY <1>1 DEF Modes
  <1>4. Synchronised \in TypedBodies
    <2>1. PICK x \in TypedOps, y \in TypedOps : x = SetMode("add", FALSE) /\ y = Correct
      BY <1>1, <1>3
    <2>2. <<x, y>> \in Seq(TypedOps) /\ Len(<<x, y>>) = 2 /\ Len(<<>>) = 0
      OBVIOUS
    <2>3. QED BY <2>1, <2>2 DEF Synchronised, TypedBodies
  <1>5. QED BY <1>1, <1>2, <1>4

\* Loops of these over all switches, the master or the slaves.
LEMMA TypedCalls ==
    /\ \A body \in TypedBodies : Master(body) \in TypedLoops /\ All(body) \in TypedLoops
    /\ SyncIfCascaded \in Seq(TypedLoops) /\ SyncTransfers \in Seq(TypedLoops)
  <1>1. \A body \in TypedBodies, L \in SUBSET PtpSwitch : Loop(L, body) \in TypedLoops
    BY DEF Loop, TypedLoops
  <1>2. \A body \in TypedBodies : Master(body) \in TypedLoops /\ All(body) \in TypedLoops
    BY <1>1, MasterExists DEF Master, All
  <1>3. /\ Master(<<SetMode("add", TRUE)>>) \in TypedLoops
        /\ Master(<<SetMode("add", FALSE)>>) \in TypedLoops
    <2>1. \A y \in BOOLEAN : Master(<<SetMode("add", y)>>) \in TypedLoops
      BY <1>2, TypedTransfers DEF Modes
    <2>2. QED BY <2>1
  <1>4. Loop(Slaves, Synchronised) \in TypedLoops
    BY <1>1, TypedTransfers DEF Slaves
  <1>5. \A x, y, z \in TypedLoops : <<x, y>> \in Seq(TypedLoops) /\ <<x, y, z>> \in Seq(TypedLoops)
    OBVIOUS
  <1>6. SyncTransfers \in Seq(TypedLoops)
    BY <1>3, <1>4, <1>5 DEF SyncTransfers
  <1>7. QED BY <1>2, <1>6 DEF SyncIfCascaded

\* What is left of a loop is loops.
LEMMA TypedRest ==
    ASSUME NEW loop \in TypedLoops, NEW s \in loop.switches, NEW T \in Seq(TypedLoops)
    PROVE  BodyLeft(loop, s) \o SwitchesLeft(loop, s) \o T \in Seq(TypedLoops)
  <1>1. /\ loop.switches \in SUBSET PtpSwitch /\ loop.body \in Seq(TypedOps) /\ loop.body # <<>>
    BY DEF TypedLoops, TypedBodies
  <1>2. BodyLeft(loop, s) \in Seq(TypedLoops)
    <2>1. CASE Len(loop.body) = 1
      BY <2>1 DEF BodyLeft
    <2>2. CASE Len(loop.body) # 1
      <3>1. Tail(loop.body) \in TypedBodies
        <4>1. PICK body \in Seq(TypedOps) : body = loop.body
          BY <1>1
        <4>2. Len(body) \in Nat \ {0, 1}
          BY <1>1, <2>2, <4>1
        <4>3. Tail(body) \in Seq(TypedOps) /\ Len(Tail(body)) = Len(body) - 1
          BY <4>2, HeadTailProperties
        <4>4. PICK rest \in Seq(TypedOps) : rest = Tail(body)
          BY <4>3
        <4>5. Len(rest) # 0
          BY <4>2, <4>3, <4>4
        <4>6. rest # <<>>
          BY <4>5
        <4>7. QED BY <4>1, <4>4, <4>6 DEF TypedBodies
      <3>2. Loop({s}, Tail(loop.body)) \in TypedLoops
        BY <1>1, <3>1 DEF Loop, TypedLoops
      <3>3. QED BY <2>2, <3>2 DEF BodyLeft
    <2>3. QED BY <2>1, <2>2
  <1>3. SwitchesLeft(loop, s) \in Seq(TypedLoops)
    <2>1. Loop(loop.switches \ {s}, loop.body) \in TypedLoops
      BY <1>1 DEF Loop, TypedLoops, TypedBodies
    <2>2. QED BY <2>1 DEF SwitchesLeft
  <1>4. QED BY <1>2, <1>3

\* A transfer keeps the types of the switches.
LEMMA TypedEffect ==
    ASSUME PtpTypeOK, NEW t \in TypedOps, NEW s \in PtpSwitch, Effect(t, s),
           UNCHANGED <<g_ptpControl2, synchronised>>
    PROVE  PtpTypeOK'
  <1>1. ASSUME NEW v \in 0 .. ClockRange - 1
        PROVE  Adjusted(s, v) \in 0 .. ClockRange - 1
    BY ClockSums DEF Adjusted, PtpTypeOK
  <1>2. CASE t.register = "control2"
    <2>1. t.value \in Modes /\ t.sync \in BOOLEAN
      BY <1>2 DEF TypedOps, Correct
    <2>2. QED BY <1>2, <2>1 DEF Effect, PtpTypeOK, Modes
  <1>3. CASE t.register = "control3"
    <2>1. t.value \in 0 .. ClockRange - 1
      BY <1>3 DEF TypedOps, Correct
    <2>2. Adjusted(s, t.value) \in 0 .. ClockRange - 1
      BY <1>1, <2>1
    <2>3. QED BY <1>3, <2>2 DEF Effect, PtpTypeOK
  <1>4. CASE t.register = "control4"
    <2>1. t.value \in Ratios \cup {1}
      BY <1>4 DEF TypedOps, Correct
    <2>2. QED BY <1>4, <2>1 DEF Effect, PtpTypeOK
  <1>5. CASE t.register = "control6"
    <2>1. (captured[PtpMasterSwitch] - captured[s]) % ClockRange \in 0 .. ClockRange - 1
      BY MasterExists, ClockSums DEF PtpTypeOK
    <2>2. Adjusted(s, (captured[PtpMasterSwitch] - captured[s]) % ClockRange) \in 0 .. ClockRange - 1
      BY <1>1, <2>1
    <2>3. QED BY <1>5, <2>2 DEF Effect, PtpTypeOK
  <1>6. QED BY <1>2, <1>3, <1>4, <1>5 DEF Effect

\* A call whose transfers fit keeps the types.
LEMMA TypedBegin ==
    ASSUME PtpTyped, NEW todo \in Seq(TypedLoops), NEW m \in Modes, NEW request,
           Begin(todo, m, request), synchronised' \in BOOLEAN
    PROVE  PtpTyped'
  BY DEF PtpTyped, PtpTypeOK, Begin, Modes

\* Every step keeps the types.
LEMMA TypedStep == PtpTyped /\ [PtpNext]_ptpVars => PtpTyped'
  <1> SUFFICES ASSUME PtpTyped, [PtpNext]_ptpVars PROVE PtpTyped'
    OBVIOUS
  <1>0. /\ g_ptpControl2 \in Modes /\ synchronised \in BOOLEAN /\ "add" \in Modes /\ "set" \in Modes
        /\ (PtpSwitches > 1) \in BOOLEAN
    BY DEF PtpTyped, PtpTypeOK, Modes
  <1>1. \A x, y \in TypedLoops : <<x>> \in Seq(TypedLoops) /\ <<x, y>> \in Seq(TypedLoops)
    OBVIOUS
  <1>2. \A S, T \in Seq(TypedLoops) : S \o T \in Seq(TypedLoops)
    OBVIOUS
  <1>3. /\ \A m \in Modes : \A y \in BOOLEAN : /\ All(<<SetMode(m, y)>>) \in TypedLoops
                                               /\ Master(<<SetMode(m, y)>>) \in TypedLoops
        /\ \A v \in 0 .. ClockRange - 1 : All(<<SetClock(v)>>) \in TypedLoops /\ Master(<<SetClock(v)>>) \in TypedLoops
        /\ \A v \in Ratios \cup {1} : All(<<SetRatio(v)>>) \in TypedLoops
    BY TypedTransfers, TypedCalls
  <1>11. \A m \in Modes : All(<<SetMode(m, FALSE)>>) \in TypedLoops /\ Master(<<SetMode(m, FALSE)>>) \in TypedLoops
    <2>1. PICK no \in BOOLEAN : no = FALSE
      OBVIOUS
    <2>2. QED BY <1>3, <2>1
  <1>4. CASE InitPtp
    <2>1. <<All(<<SetMode("add", FALSE)>>), All(<<SetRatio(1)>>)>> \in Seq(TypedLoops)
      BY <1>0, <1>1, <1>3, <1>11
    <2>2. <<All(<<SetMode("add", FALSE)>>), All(<<SetRatio(1)>>)>> \o SyncIfCascaded \in Seq(TypedLoops)
      BY <1>2, <2>1, TypedCalls
    <2>3. QED BY <1>0, <1>4, <2>2, TypedBegin DEF InitPtp
  <1>5. ASSUME NEW v \in Offsets, SetPtpClk(v) PROVE PtpTyped'
    <2>1. v \in 0 .. ClockRange - 1
      BY PtpAssumption
    <2>2. ClockSet(v) \in Seq(TypedLoops)
      BY <1>0, <1>1, <1>3, <1>11, <2>1 DEF ClockSet
    <2>3. (IF PtpSwitches > 1 THEN "add" ELSE "set") \in Modes
      BY <1>0
    <2>4. ClockSet(v) \o SyncIfCascaded \in Seq(TypedLoops)
      BY <1>2, <2>2, TypedCalls
    <2>5. QED BY <1>0, <1>5, <2>3, <2>4, TypedBegin DEF SetPtpClk
  <1>6. ASSUME NEW v \in Offsets, NEW m \in {"add", "sub"}, ChangeByOffset(m, v) PROVE PtpTyped'
    <2>1. v \in 0 .. ClockRange - 1 /\ m \in Modes
      BY PtpAssumption DEF Modes
    <2>2. /\ <<All(<<SetClock(v)>>)>> \in Seq(TypedLoops)
          /\ <<All(<<SetMode(m, FALSE)>>), All(<<SetClock(v)>>)>> \in Seq(TypedLoops)
      BY <1>1, <1>3, <1>11, <2>1
    <2>3. (IF g_ptpControl2 = m THEN <<All(<<SetClock(v)>>)>>
           ELSE <<All(<<SetMode(m, FALSE)>>), All(<<SetClock(v)>>)>>) \in Seq(TypedLoops)
      BY <2>2
    <2>4. QED BY <1>0, <1>6, <2>1, <2>3, TypedBegin DEF ChangeByOffset
  <1>7. ASSUME NEW v \in Ratios, SetPtpClkRatio(v) PROVE PtpTyped'
    <2>1. <<All(<<SetRatio(v)>>)>> \in Seq(TypedLoops)
      BY <1>1, <1>3
    <2>2. QED BY <1>0, <1>7, <2>1, TypedBegin DEF SetPtpClkRatio
  <1>8. CASE SyncCascadedClocks
    BY <1>0, <1>8, TypedCalls, TypedBegin DEF SyncCascadedClocks
  <1>9. CASE Transfer
    <2>1. transfers \in Seq(TypedLoops) /\ transfers # <<>>
      BY <1>9 DEF Transfer, PtpTyped
    <2>2. Head(transfers) \in TypedLoops /\ Tail(transfers) \in Seq(TypedLoops)
      BY <2>1
    <2>3. PICK loop \in TypedLoops : loop = Head(transfers)
      BY <2>2
    <2>4. PICK s \in loop.switches :
             /\ Effect(Head(loop.body), s)
             /\ transfers' = BodyLeft(loop, s) \o SwitchesLeft(loop, s) \o Tail(transfers)
      BY <1>9, <2>3, Zenon DEF Transfer
    <2>5. s \in PtpSwitch /\ Head(loop.body) \in TypedOps
      BY DEF TypedLoops, TypedBodies
    <2>6. PtpTypeOK'
      BY <1>9, <2>4, <2>5, TypedEffect DEF Transfer, PtpTyped
    <2>7. QED BY <2>2, <2>4, <2>6, TypedRest DEF PtpTyped
  <1>10. CASE PtpTick
    <2>1. \A s \in PtpSwitch : (clock[s] + ratio[s]) % ClockRange \in 0 .. ClockRange - 1
      <3>1. \A s \in PtpSwitch : clock[s] \in 0 .. ClockRange - 1 /\ ratio[s] \in 0 .. ClockRange - 1
        BY PtpAssumption DEF PtpTyped, PtpTypeOK
      <3>2. QED BY <3>1, ClockSums
    <2>2. QED BY <1>10, <2>1 DEF PtpTick, PtpTyped, PtpTypeOK
  <1>12. CASE UNCHANGED ptpVars
    BY <1>12 DEF ptpVars, PtpTyped, PtpTypeOK
  <1>13. QED BY <1>4, <1>5, <1>6, <1>7, <1>8, <1>9, <1>10, <1>12 DEF PtpNext

\* The variables of the clocks have their types, and every transfer fits the register it
\* is for, whichever switches are configured as masters (NXP_SJA1105P_ptp.c).
THEOREM PtpTypeCorrect == PtpSpec => []PtpTypeOK
  <1>1. PtpInit => PtpTyped
    BY PtpAssumption DEF PtpInit, PtpTyped, PtpTypeOK
  <1>2. PtpTyped => PtpTypeOK
    BY DEF PtpTyped
  <1>3. QED BY <1>1, <1>2, TypedStep, PTL DEF PtpSpec

-----------------------------------------------------------------------------
(* Synchronised clocks and the service *)

\* Clocks that were synchronised stay together from call to call, however much time
\* passes between the transfers of a call (SJA1105P_syncCascadedClocks).
THEOREM SynchronisedClocksAgree == OneMaster => (PtpSpec => []ClocksAgree)
  <1> SUFFICES ASSUME OneMaster PROVE PtpSpec => []ClocksAgree
    OBVIOUS
  <1>1. PtpInv => ClocksAgree
    <2>1. SUFFICES ASSUME PtpInv, synchronised, transfers = <<>>
                   PROVE  \A s, t \in PtpSwitch : clock[s] = clock[t]
      BY DEF ClocksAgree
    <2>2. Resting
      BY <2>1, CallEnds
    <2>3. QED BY <2>1, <2>2 DEF Resting, Together
  <1>2. QED BY <1>1, PtpAlways, PTL

\* The clock of the master keeps the promises of PtpService: every call is carried out
\* on it once, as it was asked for, whatever mode the switches and the driver were in.
THEOREM ClockServesCalls == OneMaster => (PtpSpec => ImplementsPtpService)
  <1> SUFFICES ASSUME OneMaster PROVE PtpSpec => ImplementsPtpService
    OBVIOUS
  <1>1. PtpInit => PtpServiceOfMaster!Init
    BY PtpStarts
  <1>2. PtpInv /\ [PtpNext]_ptpVars
            => [PtpServiceOfMaster!Next]_<<clock[PtpMasterSwitch], ratio[PtpMasterSwitch],
                                           IF Pending(transfers) THEN call ELSE Idle>>
    BY PtpSteps DEF ServiceStep, Request
  <1>3. QED BY <1>1, <1>2, PtpAlways, PTL DEF PtpSpec, ImplementsPtpService, PtpServiceOfMaster!Spec
=============================================================================
