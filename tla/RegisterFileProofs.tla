------------------------ MODULE RegisterFileProofs ------------------------
(***************************************************************************)
(* Proofs about the registers of a switch, for any layouts that agree and  *)
(* any number of writes of any arguments that fit.  That the layouts of    *)
(* the chip agree is an assumption of MCRegisters, which TLC evaluates.    *)
(***************************************************************************)
EXTENDS RegisterFile, FiniteSetTheorems, TLAPS

LayoutsAgree == \A r \in Names : LayoutAgrees(r) /\ ArgumentsFit(r)

LayoutsApart == \A r \in Names : PartsFit(Getter(r)) /\ PartsApart(r)

\* An argument of a register as callers may choose it.
Fits(r, argument) ==
    /\ DOMAIN argument = FieldsOf(Setter(r))
    /\ \A f \in FieldsOf(Setter(r)) : argument[f] \subseteq ValueBits(r, f)
    /\ \A f \in ReadFields(r) : Converted(Getter(r), f, argument[f]) = argument[f]

\* Where the getter looks for a field, the memory has what the field was given.
Kept(r, i, argument) ==
    \A f \in ReadFields(r) : \A p \in Getter(r).parts : p.field = f =>
        \A bit \in WordBits(p) :
            <<Address(Getter(r), i) + p.word, bit>> \in memory <=> bit - p.at + p.lo \in argument[f]

\* The inductive invariant.
KeptInv ==
    /\ TypeOK
    /\ writes = 0 => written = {}
    /\ raised # {} => writes = MaxWrites /\ written = {}
    /\ \A x \in written : Fits(x.register, x.argument) /\ Kept(x.register, x.index, x.argument)

-----------------------------------------------------------------------------
(* Layouts *)

LEMMA PartsAre ==
    ASSUME NEW register, PartsFit(register), NEW p \in register.parts
    PROVE  /\ p.word \in Nat /\ p.word < register.words
           /\ p.lo \in Nat /\ p.at \in Nat /\ p.width \in Nat /\ p.at + p.width <= 32
  <1>1. register.words \in Nat /\ p.word \in 0 .. register.words - 1
    BY DEF PartsFit
  <1>2. p.word \in Nat /\ p.word < register.words
    BY <1>1
  <1>3. p.lo \in Nat /\ p.at \in Nat /\ p.width \in Nat /\ p.at + p.width <= 32
    BY DEF PartsFit
  <1>4. QED BY <1>2, <1>3

LEMMA AddressIs ==
    ASSUME NEW register, PartsFit(register), NEW i \in Indices(register)
    PROVE  Address(register, i) \in Nat
  <1>1. /\ register.base \in Nat /\ register.step[1] \in Nat /\ register.step[2] \in Nat
        /\ register.count[1] \in Nat /\ register.count[2] \in Nat
    BY DEF PartsFit
  <1>2. i[1] \in 0 .. register.count[1] - 1 /\ i[2] \in 0 .. register.count[2] - 1
    BY DEF Indices
  <1>3. i[1] \in Nat /\ i[2] \in Nat
    BY <1>1, <1>2
  <1>4. register.step[1] * i[1] \in Nat /\ register.step[2] * i[2] \in Nat
    BY <1>1, <1>3
  <1>5. QED BY <1>1, <1>4 DEF Address

\* Which bits a part sets for a value.
LEMMA PlacedBits ==
    ASSUME NEW p, p.lo \in Nat, p.at \in Nat, p.width \in Nat, NEW value, NEW bit
    PROVE  bit \in Placed(p, value) <=>
               /\ bit \in Int /\ bit - p.at + p.lo \in FieldBits(p)
               /\ bit - p.at + p.lo \in value
  <1>1. ASSUME bit \in Placed(p, value)
        PROVE  /\ bit \in Int /\ bit - p.at + p.lo \in FieldBits(p)
               /\ bit - p.at + p.lo \in value
    <2>1. PICK b \in value \cap FieldBits(p) : bit = p.at + b - p.lo
      BY <1>1 DEF Placed
    <2>2. b \in Int
      BY <2>1 DEF FieldBits
    <2>3. bit \in Int /\ bit - p.at + p.lo = b
      BY <2>1, <2>2
    <2>4. QED BY <2>1, <2>3
  <1>2. ASSUME bit \in Int, bit - p.at + p.lo \in FieldBits(p), bit - p.at + p.lo \in value
        PROVE  bit \in Placed(p, value)
    <2>1. PICK b : b = bit - p.at + p.lo
      OBVIOUS
    <2>2. b \in Int /\ bit = p.at + b - p.lo
      BY <1>2, <2>1
    <2>3. b \in value \cap FieldBits(p)
      BY <1>2, <2>1
    <2>4. QED BY <2>2, <2>3 DEF Placed
  <1>3. QED BY <1>1, <1>2

\* What a word holds after it is written.
LEMMA StoredBits ==
    ASSUME NEW register, PartsFit(register), NEW i, Address(register, i) \in Nat,
           NEW argument, NEW a \in Addresses(register, i), NEW bit
    PROVE  <<a, bit>> \in Stored(register, i, argument) <=>
               \E q \in register.parts : /\ a = Address(register, i) + q.word
                                         /\ bit \in Placed(q, argument[q.field])
  <1>1. PICK w \in 0 .. register.words - 1 : a = Address(register, i) + w
    BY DEF Addresses
  <1>2. \A v \in 0 .. register.words - 1 : a = Address(register, i) + v => v = w
    BY <1>1
  <1>3. <<a, bit>> \in Stored(register, i, argument) <=> bit \in Packed(register.parts, argument, w)
    <2>1. ~(<<a, bit>> \in {m \in memory : m[1] \notin Addresses(register, i)})
      OBVIOUS
    <2>2. <<a, bit>> \in Stored(register, i, argument) <=>
             \E v \in 0 .. register.words - 1 :
                <<a, bit>> \in {<<Address(register, i) + v, b>> : b \in Packed(register.parts, argument, v)}
      BY <2>1, Zenon DEF Stored
    <2>3. \A v \in 0 .. register.words - 1 :
             <<a, bit>> \in {<<Address(register, i) + v, b>> : b \in Packed(register.parts, argument, v)}
                <=> a = Address(register, i) + v /\ bit \in Packed(register.parts, argument, v)
      OBVIOUS
    <2>4. QED BY <1>1, <1>2, <2>2, <2>3
  <1>4. bit \in Packed(register.parts, argument, w) <=>
           \E q \in register.parts : q.word = w /\ bit \in Placed(q, argument[q.field])
    BY Zenon DEF Packed
  <1>5. \A q \in register.parts : q.word = w <=> a = Address(register, i) + q.word
    <2>1. \A q \in register.parts : q.word \in 0 .. register.words - 1
      BY DEF PartsFit
    <2>2. QED BY <1>1, <1>2, <2>1
  <1>6. QED BY <1>3, <1>4, <1>5

\* The memory a write does not reach.
LEMMA StoredElsewhere ==
    ASSUME NEW register, NEW i, NEW argument, NEW a, a \notin Addresses(register, i), NEW bit
    PROVE  <<a, bit>> \in Stored(register, i, argument) <=> <<a, bit>> \in memory
  <1>1. \A v \in 0 .. register.words - 1 :
           ~(<<a, bit>> \in {<<Address(register, i) + v, b>> : b \in Packed(register.parts, argument, v)})
    <2>1. \A v \in 0 .. register.words - 1 : a # Address(register, i) + v
      BY DEF Addresses
    <2>2. QED BY <2>1
  <1>2. <<a, bit>> \in {m \in memory : m[1] \notin Addresses(register, i)} <=> <<a, bit>> \in memory
    OBVIOUS
  <1>3. QED BY <1>1, <1>2, Zenon DEF Stored

\* After a setter has written an argument, the getter's bits hold it.
LEMMA WrittenIsKept ==
    ASSUME NEW r \in Names, LayoutAgrees(r), NEW i \in Indices(Setter(r)),
           NEW argument, Fits(r, argument),
           memory' = Stored(Setter(r), i, argument)
    PROVE  Kept(r, i, argument)'
  <1>. SUFFICES ASSUME NEW f \in ReadFields(r), NEW p \in Getter(r).parts, p.field = f,
                       NEW bit \in WordBits(p)
                PROVE  <<Address(Getter(r), i) + p.word, bit>> \in Stored(Setter(r), i, argument)
                          <=> bit - p.at + p.lo \in argument[f]
    BY DEF Kept
  <1>1. PartsFit(Setter(r)) /\ PartsFit(Getter(r)) /\ FieldAgrees(r, i, f)
    BY DEF LayoutAgrees
  <1>2. PICK a : a = Address(Getter(r), i) + p.word
    OBVIOUS
  <1>3. /\ a \in Addresses(Setter(r), i)
        /\ \A q \in Setter(r).parts :
              \/ a # Address(Setter(r), i) + q.word
              \/ Corresponds(r, i, p, q)
              \/ Placed(q, ValueBits(r, q.field)) \cap WordBits(p) = {}
        /\ \A b \in ValueBits(r, f) \cap FieldBits(p) :
              \E q \in Setter(r).parts : Corresponds(r, i, p, q) /\ b \in FieldBits(q)
    BY <1>1, <1>2 DEF FieldAgrees
  <1>4. <<a, bit>> \in Stored(Setter(r), i, argument) <=>
           \E q \in Setter(r).parts : /\ a = Address(Setter(r), i) + q.word
                                      /\ bit \in Placed(q, argument[q.field])
    <2>1. Address(Setter(r), i) \in Nat
      BY <1>1, AddressIs
    <2>2. QED BY <1>1, <1>3, <2>1, StoredBits
  <1>5. PICK n \in Int : n = bit - p.at + p.lo
    BY <1>1, PartsAre DEF WordBits
  <1>6. bit \in Int /\ n \in FieldBits(p)
    BY <1>1, <1>5, PartsAre DEF WordBits, FieldBits
  <1>7. f \in FieldsOf(Setter(r)) /\ argument[f] \subseteq ValueBits(r, f)
    BY DEF ReadFields, Fits
  <1>8. ASSUME NEW q \in Setter(r).parts, Corresponds(r, i, p, q)
        PROVE  q.field = f /\ bit - q.at + q.lo = n /\ a = Address(Setter(r), i) + q.word
    <2>1. p.at - p.lo = q.at - q.lo /\ q.field = f /\ a = Address(Setter(r), i) + q.word
      BY <1>2, <1>8 DEF Corresponds
    <2>2. p.at \in Nat /\ p.lo \in Nat /\ q.at \in Nat /\ q.lo \in Nat
      BY <1>1, PartsAre
    <2>3. QED BY <1>5, <1>6, <2>1, <2>2
  <1>9. ASSUME NEW q \in Setter(r).parts, a = Address(Setter(r), i) + q.word,
               bit \in Placed(q, argument[q.field])
        PROVE  n \in argument[f]
    <2>1. q.lo \in Nat /\ q.at \in Nat /\ q.width \in Nat
      BY <1>1, PartsAre
    <2>2. /\ bit - q.at + q.lo \in FieldBits(q)
          /\ bit - q.at + q.lo \in argument[q.field]
      BY <1>9, <2>1, PlacedBits
    <2>3. bit - q.at + q.lo \in ValueBits(r, q.field)
      <3>1. q.field \in FieldsOf(Setter(r))
        BY DEF FieldsOf
      <3>2. QED BY <2>2, <3>1 DEF Fits
    <2>4. bit \in Placed(q, ValueBits(r, q.field)) \cap WordBits(p)
      BY <1>6, <2>1, <2>2, <2>3, PlacedBits
    <2>5. Corresponds(r, i, p, q)
      BY <1>3, <1>9, <2>4
    <2>6. QED BY <1>8, <2>2, <2>5
  <1>10. ASSUME n \in argument[f]
         PROVE  \E q \in Setter(r).parts : /\ a = Address(Setter(r), i) + q.word
                                           /\ bit \in Placed(q, argument[q.field])
    <2>1. PICK q \in Setter(r).parts : Corresponds(r, i, p, q) /\ n \in FieldBits(q)
      BY <1>3, <1>6, <1>7, <1>10
    <2>2. q.field = f /\ bit - q.at + q.lo = n /\ a = Address(Setter(r), i) + q.word
      BY <1>8, <2>1
    <2>3. q.lo \in Nat /\ q.at \in Nat /\ q.width \in Nat
      BY <1>1, PartsAre
    <2>4. bit \in Placed(q, argument[q.field])
      BY <1>6, <1>10, <2>1, <2>2, <2>3, PlacedBits
    <2>5. QED BY <2>2, <2>4
  <1>11. QED BY <1>2, <1>4, <1>5, <1>9, <1>10

\* A write elsewhere leaves what the getter finds.
LEMMA OthersKept ==
    ASSUME NEW r \in Names, LayoutAgrees(r), NEW i \in Indices(Setter(r)), NEW argument, Kept(r, i, argument),
           NEW q \in Names, NEW j \in Indices(Setter(q)), ~SamePlace(r, i, q, j), NEW other,
           memory' = Stored(Setter(q), j, other)
    PROVE  Kept(r, i, argument)'
  <1>. SUFFICES ASSUME NEW f \in ReadFields(r), NEW p \in Getter(r).parts, p.field = f,
                       NEW bit \in WordBits(p)
                PROVE  <<Address(Getter(r), i) + p.word, bit>> \in Stored(Setter(q), j, other)
                          <=> bit - p.at + p.lo \in argument[f]
    BY DEF Kept
  <1>1. Undisturbed(r, i)
    BY DEF LayoutAgrees
  <1>2. Address(Getter(r), i) + p.word \notin Addresses(Setter(q), j)
    BY <1>1 DEF Undisturbed
  <1>3. QED BY <1>2, StoredElsewhere DEF Kept

\* With the words of all parts kept, the getter returns the argument.
LEMMA KeptReadsBack ==
    ASSUME NEW r \in Names, LayoutAgrees(r), NEW i \in Indices(Setter(r)), NEW argument,
           Fits(r, argument), Kept(r, i, argument), NEW f \in ReadFields(r)
    PROVE  Reported(r, i, f) = argument[f]
  <1>1. PartsFit(Getter(r)) /\ FieldAgrees(r, i, f)
    BY DEF LayoutAgrees
  <1>2. \A p \in Getter(r).parts : \A bit :
           bit \in ReadWords(Getter(r), i)[p.word] <=>
              bit \in Bits /\ <<Address(Getter(r), i) + p.word, bit>> \in memory
    BY <1>1 DEF PartsFit, ReadWords
  <1>3. f \in FieldsOf(Setter(r)) /\ argument[f] \subseteq ValueBits(r, f)
    BY DEF ReadFields, Fits
  <1>4. ASSUME NEW v \in Raw(r, i, f) PROVE v \in argument[f]
    <2>1. PICK p \in Getter(r).parts :
             p.field = f /\ \E bit \in ReadWords(Getter(r), i)[p.word] \cap WordBits(p) : v = p.lo + bit - p.at
      BY <1>4 DEF Raw, Unpacked
    <2>2. PICK bit \in ReadWords(Getter(r), i)[p.word] \cap WordBits(p) : v = p.lo + bit - p.at
      BY <2>1
    <2>3. v = bit - p.at + p.lo
      <3>1. p.lo \in Nat /\ p.at \in Nat /\ p.width \in Nat /\ bit \in Int
        BY <1>1, PartsAre DEF WordBits
      <3>2. QED BY <2>2, <3>1
    <2>4. <<Address(Getter(r), i) + p.word, bit>> \in memory
      BY <1>2, <2>2
    <2>5. QED BY <2>1, <2>2, <2>3, <2>4 DEF Kept
  <1>5. ASSUME NEW v \in argument[f] PROVE v \in Raw(r, i, f)
    <2>1. PICK p \in Getter(r).parts : p.field = f /\ v \in FieldBits(p)
      BY <1>1, <1>3 DEF FieldAgrees, BitsOf
    <2>2. p.lo \in Nat /\ p.at \in Nat /\ p.width \in Nat /\ p.at + p.width <= 32 /\ v \in Int
      BY <1>1, <2>1, PartsAre DEF FieldBits
    <2>3. PICK bit \in Int : bit = p.at + v - p.lo
      BY <2>2
    <2>4. bit \in WordBits(p) /\ bit \in Bits /\ v = p.lo + bit - p.at /\ bit - p.at + p.lo = v
      <3>1. p.lo <= v /\ v <= p.lo + p.width - 1
        BY <2>1, <2>2 DEF FieldBits
      <3>2. p.at <= bit /\ bit <= p.at + p.width - 1 /\ 0 <= bit /\ bit <= 31
        BY <2>2, <2>3, <3>1
      <3>3. v = p.lo + bit - p.at /\ bit - p.at + p.lo = v
        BY <2>2, <2>3
      <3>4. bit \in WordBits(p)
        BY <2>2, <3>2 DEF WordBits
      <3>5. bit \in Bits
        BY <3>2 DEF Bits
      <3>6. QED BY <3>3, <3>4, <3>5
    <2>5. bit \in ReadWords(Getter(r), i)[p.word] \cap WordBits(p)
      BY <1>2, <2>1, <2>4 DEF Kept
    <2>6. QED BY <2>1, <2>4, <2>5 DEF Raw, Unpacked
  <1>6. Raw(r, i, f) = argument[f]
    BY <1>4, <1>5
  <1>7. QED BY <1>6 DEF Reported, Fits

-----------------------------------------------------------------------------
(* The invariant *)

\* Only words of a register change, to words of 32 bits.
LEMMA StoredTyped ==
    ASSUME NEW r \in Names, LayoutAgrees(r), NEW i \in Indices(Setter(r)), NEW argument,
           \A m \in memory : m[1] \in Nat /\ m[2] \in Bits,
           NEW m \in Stored(Setter(r), i, argument)
    PROVE  m[1] \in Nat /\ m[2] \in Bits
  <1>1. CASE m \in memory
    BY <1>1
  <1>2. CASE m \notin memory
    <2>1. PICK w \in 0 .. Setter(r).words - 1 :
             \E b \in Packed(Setter(r).parts, argument, w) : m = <<Address(Setter(r), i) + w, b>>
      BY <1>2 DEF Stored
    <2>2. PartsFit(Setter(r))
      BY DEF LayoutAgrees
    <2>3. Address(Setter(r), i) \in Nat /\ w \in Nat
      BY <2>1, <2>2, AddressIs DEF PartsFit
    <2>4. PICK b \in Packed(Setter(r).parts, argument, w) : m = <<Address(Setter(r), i) + w, b>>
      BY <2>1
    <2>5. PICK q \in Setter(r).parts : b \in Placed(q, argument[q.field])
      BY DEF Packed
    <2>6. q.lo \in Nat /\ q.at \in Nat /\ q.width \in Nat /\ q.at + q.width <= 32
      BY <2>2, PartsAre
    <2>7. b \in Int /\ b - q.at + q.lo \in FieldBits(q)
      BY <2>5, <2>6, PlacedBits
    <2>8. b \in Bits
      <3>1. q.lo <= b - q.at + q.lo /\ b - q.at + q.lo <= q.lo + q.width - 1
        BY <2>6, <2>7 DEF FieldBits
      <3>2. 0 <= b /\ b <= 31
        BY <2>6, <2>7, <3>1
      <3>3. QED BY <2>7, <3>2 DEF Bits
    <2>9. QED BY <2>3, <2>8, <2>4
  <1>3. QED BY <1>1, <1>2

\* A write keeps the invariant.
LEMMA SetKeeps ==
    ASSUME LayoutsAgree, KeptInv, Set
    PROVE  KeptInv'
  <1>1. /\ writes < MaxWrites /\ writes' = writes + 1 /\ raised' = raised
        /\ writes \in 0 .. MaxWrites /\ raised = {}
    BY WritesAssumption DEF Set, KeptInv, TypeOK
  <1>2. PICK r \in Names : \E i \in Indices(Setter(r)), argument \in Arguments(r, writes) :
           /\ memory' = Stored(Setter(r), i, argument)
           /\ written' = {x \in written : ~SamePlace(x.register, x.index, r, i)}
                             \cup {[register |-> r, index |-> i, argument |-> argument]}
    BY DEF Set
  <1>3. PICK i \in Indices(Setter(r)), argument \in Arguments(r, writes) :
           /\ memory' = Stored(Setter(r), i, argument)
           /\ written' = {x \in written : ~SamePlace(x.register, x.index, r, i)}
                             \cup {[register |-> r, index |-> i, argument |-> argument]}
    BY <1>2
  <1>4. LayoutAgrees(r) /\ Fits(r, argument)
    <2>1. writes \in 0 .. MaxWrites - 1
      BY <1>1, WritesAssumption
    <2>2. QED BY <1>3, <2>1 DEF LayoutsAgree, ArgumentsFit, Fits
  <1>5. \A m \in memory' : m[1] \in Nat /\ m[2] \in Bits
    BY <1>3, <1>4, StoredTyped DEF KeptInv, TypeOK
  <1>6. ASSUME NEW x \in written'
        PROVE  /\ x.register \in Names /\ x.index \in Indices(Setter(x.register))
               /\ Fits(x.register, x.argument) /\ Kept(x.register, x.index, x.argument)'
    <2>1. CASE x = [register |-> r, index |-> i, argument |-> argument]
      <3>1. Kept(r, i, argument)'
        BY <1>3, <1>4, WrittenIsKept
      <3>2. QED BY <1>3, <1>4, <2>1, <3>1
    <2>2. CASE x \in written /\ ~SamePlace(x.register, x.index, r, i)
      <3>1. /\ x.register \in Names /\ x.index \in Indices(Setter(x.register))
            /\ Fits(x.register, x.argument) /\ Kept(x.register, x.index, x.argument)
        BY <2>2 DEF KeptInv, TypeOK
      <3>2. LayoutAgrees(x.register)
        BY <3>1 DEF LayoutsAgree
      <3>3. QED BY <1>3, <2>2, <3>1, <3>2, OthersKept
    <2>3. QED BY <1>3, <2>1, <2>2
  <1>7. TypeOK'
    <2>1. writes' \in 0 .. MaxWrites /\ raised' \subseteq memory'
      BY <1>1, WritesAssumption
    <2>2. QED BY <1>5, <1>6, <2>1 DEF TypeOK, Fits
  <1>8. writes' # 0 /\ raised' = {}
    BY <1>1
  <1>9. QED BY <1>6, <1>7, <1>8 DEF KeptInv

\* So does a bit the switch sets: nothing has been written before.
LEMMA RaiseKeeps ==
    ASSUME LayoutsAgree, KeptInv, Raise
    PROVE  KeptInv'
  <1>1. written' = {} /\ writes' = MaxWrites /\ raised' = memory'
    BY DEF Raise, KeptInv
  <1>2. PICK r \in Names : \E i \in Indices(Getter(r)) : \E w \in 0 .. Getter(r).words - 1, bit \in Bits :
           memory' = {<<Address(Getter(r), i) + w, bit>>}
    BY DEF Raise
  <1>3. PartsFit(Getter(r))
    BY DEF LayoutsAgree, LayoutAgrees
  <1>4. PICK i \in Indices(Getter(r)), w \in Nat, bit \in Bits : memory' = {<<Address(Getter(r), i) + w, bit>>}
    <2>1. \A w \in 0 .. Getter(r).words - 1 : w \in Nat
      BY <1>3 DEF PartsFit
    <2>2. QED BY <1>2, <2>1
  <1>5. Address(Getter(r), i) + w \in Nat
    <2>1. Address(Getter(r), i) \in Nat /\ Getter(r).words \in Nat
      BY <1>3, AddressIs DEF PartsFit
    <2>2. QED BY <2>1
  <1>6. TypeOK'
    BY <1>1, <1>5, <1>4, WritesAssumption DEF TypeOK
  <1>7. QED BY <1>1, <1>6 DEF KeptInv

LEMMA KeptInvariant == LayoutsAgree => (Spec => []KeptInv)
  <1>. SUFFICES ASSUME LayoutsAgree PROVE Spec => []KeptInv
    OBVIOUS
  <1>1. Init => KeptInv
    BY WritesAssumption DEF Init, KeptInv, TypeOK
  <1>2. KeptInv /\ [Next]_vars => KeptInv'
    <2>. SUFFICES ASSUME KeptInv, [Next]_vars PROVE KeptInv'
      OBVIOUS
    <2>1. CASE Reset
      BY <2>1, WritesAssumption DEF Reset, KeptInv, TypeOK
    <2>2. CASE UNCHANGED vars
      BY <2>2 DEF vars, KeptInv, TypeOK, Kept
    <2>3. QED BY <2>1, <2>2, SetKeeps, RaiseKeeps DEF Next
  <1>3. QED BY <1>1, <1>2, PTL DEF Spec

\* The memory holds words of 32 bits, and what was written has a value for each field.
THEOREM RegistersTypeCorrect == LayoutsAgree => (Spec => []TypeOK)
  <1>1. KeptInv => TypeOK
    BY DEF KeptInv
  <1>2. QED BY <1>1, KeptInvariant, PTL

\* What a setter was given, the getter of the same register returns until the register is
\* written again: for all arguments that fit the fields, and writes of any number in any
\* order, given that the layouts of setters and getters agree.
THEOREM SettersReadBack == LayoutsAgree => (Spec => []ReadsBack)
  <1>. SUFFICES ASSUME LayoutsAgree PROVE Spec => []ReadsBack
    OBVIOUS
  <1>1. KeptInv => ReadsBack
    <2>. SUFFICES ASSUME KeptInv, NEW x \in written,
                         NEW f \in FieldsOf(Setter(x.register)) \cap FieldsOf(Getter(x.register)),
                         <<x.register, f>> \notin Unreliable
                  PROVE  Reported(x.register, x.index, f) = x.argument[f]
      BY DEF ReadsBack
    <2>1. /\ x.register \in Names /\ x.index \in Indices(Setter(x.register))
          /\ Fits(x.register, x.argument) /\ Kept(x.register, x.index, x.argument)
      BY DEF KeptInv, TypeOK
    <2>2. LayoutAgrees(x.register) /\ f \in ReadFields(x.register)
      BY <2>1 DEF LayoutsAgree, ReadFields
    <2>3. QED BY <2>1, <2>2, KeptReadsBack
  <1>2. QED BY <1>1, KeptInvariant, PTL

-----------------------------------------------------------------------------
(* Bits of the hardware *)

\* A bit the switch has set is alone in the memory: the driver writes after a reset only.
RaisedInv ==
    raised # {} => /\ writes = MaxWrites /\ memory = raised
                   /\ \E a, b : raised = {<<a, b>>}

LEMMA RaisedInvariant == Spec => []RaisedInv
  <1>1. Init => RaisedInv
    BY DEF Init, RaisedInv
  <1>2. RaisedInv /\ [Next]_vars => RaisedInv'
    <2>. SUFFICES ASSUME RaisedInv, [Next]_vars PROVE RaisedInv'
      OBVIOUS
    <2>1. CASE Raise
      <3>1. PICK r \in Names : \E i \in Indices(Getter(r)) : \E w \in 0 .. Getter(r).words - 1, bit \in Bits :
               memory' = {<<Address(Getter(r), i) + w, bit>>}
        BY <2>1 DEF Raise
      <3>2. \E a, b : memory' = {<<a, b>>}
        BY <3>1
      <3>3. QED BY <2>1, <3>2 DEF Raise, RaisedInv
    <2>2. CASE Set
      <3>1. writes < MaxWrites /\ raised' = raised
        BY <2>2 DEF Set
      <3>2. raised = {}
        BY <3>1, WritesAssumption DEF RaisedInv
      <3>3. QED BY <3>1, <3>2 DEF RaisedInv
    <2>3. CASE Reset
      BY <2>3 DEF Reset, RaisedInv
    <2>4. CASE UNCHANGED vars
      BY <2>4 DEF vars, RaisedInv
    <2>5. QED BY <2>1, <2>2, <2>3, <2>4 DEF Next
  <1>3. QED BY <1>1, <1>2, PTL DEF Spec

\* Where the getter of a register has a bit from if it is the only one of the memory.
LEMMA RawComesFrom ==
    ASSUME NEW a, NEW b, memory = {<<a, b>>},
           NEW r \in Names, PartsFit(Getter(r)), NEW i, NEW f, NEW v \in Raw(r, i, f)
    PROVE  \E p \in Getter(r).parts : /\ p.field = f /\ Address(Getter(r), i) + p.word = a
                                      /\ b \in WordBits(p) /\ v = p.lo + b - p.at
  <1>1. PICK p \in Getter(r).parts :
           p.field = f /\ \E bit \in ReadWords(Getter(r), i)[p.word] \cap WordBits(p) : v = p.lo + bit - p.at
    BY DEF Raw, Unpacked
  <1>2. PICK bit \in ReadWords(Getter(r), i)[p.word] \cap WordBits(p) : v = p.lo + bit - p.at
    BY <1>1
  <1>3. p.word \in 0 .. Getter(r).words - 1
    BY DEF PartsFit
  <1>4. <<Address(Getter(r), i) + p.word, bit>> \in memory
    BY <1>2, <1>3 DEF ReadWords
  <1>5. Address(Getter(r), i) + p.word = a /\ bit = b
    BY <1>4
  <1>6. QED BY <1>1, <1>2, <1>5

\* Parts that read the same bit belong to registers that share words, or are the same.
LEMMA PartsOfOneBit ==
    ASSUME LayoutsApart, NEW a, NEW b,
           NEW x \in Readers(a), NEW p \in Getter(x[1]).parts, <<x[1], p.field>> \notin Unreliable,
           Address(Getter(x[1]), x[2]) + p.word = a, b \in WordBits(p),
           NEW y \in Readers(a), NEW o \in Getter(y[1]).parts, <<y[1], o.field>> \notin Unreliable,
           Address(Getter(y[1]), y[2]) + o.word = a, b \in WordBits(o)
    PROVE  \/ x = y /\ o = p
           \/ x[1] # y[1] /\ \E s \in SameWords : {x[1], y[1]} \subseteq s
  <1>1. x[1] \in Names /\ x[2] \in Indices(Getter(x[1])) /\ x = <<x[1], x[2]>>
    BY DEF Readers
  <1>2. PartsApart(x[1])
    BY <1>1 DEF LayoutsApart
  <1>3. ~(WordBits(p) \cap WordBits(o) = {})
    OBVIOUS
  <1>4. \/ y = <<x[1], x[2]>> /\ o = p
        \/ y[1] # x[1] /\ \E s \in SameWords : {x[1], y[1]} \subseteq s
    BY <1>1, <1>2, <1>3 DEF PartsApart
  <1>5. QED BY <1>1, <1>4

\* A bit the switch sets is reported as one bit of one field of one register and port: no
\* getter reads into its neighbour's bits or words, given that the parts of all getters are
\* apart but those of registers that share their words by design.
THEOREM StatusReportedOnce == LayoutsApart => (Spec => []ReportedOnce)
  <1>. SUFFICES ASSUME LayoutsApart PROVE Spec => []ReportedOnce
    OBVIOUS
  <1>1. RaisedInv => ReportedOnce
    <2>. SUFFICES ASSUME RaisedInv, NEW bit \in raised,
                         NEW x \in Reports(bit), NEW y \in Reports(bit)
                  PROVE  /\ Cardinality(Raw(x[1][1], x[1][2], x[2])) = 1
                         /\ x # y => \E s \in SameWords : {x[1][1], y[1][1]} \subseteq s /\ x[1][1] # y[1][1]
      BY DEF ReportedOnce
    <2>1. PICK a, b : bit = <<a, b>> /\ memory = {<<a, b>>}
      BY DEF RaisedInv
    <2>2. ASSUME NEW z \in Reports(bit)
          PROVE  /\ z = <<z[1], z[2]>> /\ z[1] \in Readers(a) /\ z[1][1] \in Names
                 /\ <<z[1][1], z[2]>> \notin Unreliable
                 /\ Raw(z[1][1], z[1][2], z[2]) # {}
                 /\ PartsFit(Getter(z[1][1]))
      <3>1. /\ z \in UNION {{w} \X FieldsOf(Getter(w[1])) : w \in Readers(a)}
            /\ <<z[1][1], z[2]>> \notin Unreliable /\ Raw(z[1][1], z[1][2], z[2]) # {}
        BY <2>1 DEF Reports
      <3>2. z = <<z[1], z[2]>> /\ z[1] \in Readers(a)
        BY <3>1
      <3>3. z[1][1] \in Names
        BY <3>2 DEF Readers
      <3>4. QED BY <3>1, <3>2, <3>3 DEF LayoutsApart
    <2>3. ASSUME NEW z \in Reports(bit), NEW v \in Raw(z[1][1], z[1][2], z[2])
          PROVE  \E p \in Getter(z[1][1]).parts :
                    /\ p.field = z[2] /\ Address(Getter(z[1][1]), z[1][2]) + p.word = a
                    /\ b \in WordBits(p) /\ v = p.lo + b - p.at
      <3>1. z[1][1] \in Names /\ PartsFit(Getter(z[1][1])) /\ memory = {<<a, b>>}
        BY <2>1, <2>2
      <3>2. QED BY <3>1, RawComesFrom
    <2>4. Cardinality(Raw(x[1][1], x[1][2], x[2])) = 1
      <3>1. PICK v : v \in Raw(x[1][1], x[1][2], x[2])
        BY <2>2
      <3>2. ASSUME NEW u \in Raw(x[1][1], x[1][2], x[2]) PROVE u = v
        <4>1. PICK p \in Getter(x[1][1]).parts :
                 /\ p.field = x[2] /\ Address(Getter(x[1][1]), x[1][2]) + p.word = a
                 /\ b \in WordBits(p) /\ v = p.lo + b - p.at
          BY <2>3, <3>1
        <4>2. PICK o \in Getter(x[1][1]).parts :
                 /\ o.field = x[2] /\ Address(Getter(x[1][1]), x[1][2]) + o.word = a
                 /\ b \in WordBits(o) /\ u = o.lo + b - o.at
          BY <2>3, <3>2
        <4>3. o = p
          BY <2>2, <4>1, <4>2, PartsOfOneBit
        <4>4. QED BY <4>1, <4>2, <4>3
      <3>3. Raw(x[1][1], x[1][2], x[2]) = {v}
        BY <3>1, <3>2
      <3>4. QED BY <3>3, FS_Singleton
    <2>5. ASSUME x # y
          PROVE  \E s \in SameWords : {x[1][1], y[1][1]} \subseteq s /\ x[1][1] # y[1][1]
      <3>1. PICK v, u : v \in Raw(x[1][1], x[1][2], x[2]) /\ u \in Raw(y[1][1], y[1][2], y[2])
        BY <2>2
      <3>2. PICK p \in Getter(x[1][1]).parts :
               /\ p.field = x[2] /\ Address(Getter(x[1][1]), x[1][2]) + p.word = a
               /\ b \in WordBits(p)
        BY <2>3, <3>1
      <3>3. PICK o \in Getter(y[1][1]).parts :
               /\ o.field = y[2] /\ Address(Getter(y[1][1]), y[1][2]) + o.word = a
               /\ b \in WordBits(o)
        BY <2>3, <3>1
      <3>4. \/ x[1] = y[1] /\ o = p
            \/ x[1][1] # y[1][1] /\ \E s \in SameWords : {x[1][1], y[1][1]} \subseteq s
        <4>1. /\ x[1] \in Readers(a) /\ <<x[1][1], p.field>> \notin Unreliable
              /\ y[1] \in Readers(a) /\ <<y[1][1], o.field>> \notin Unreliable
          BY <2>2, <3>2, <3>3
        <4>2. QED BY <3>2, <3>3, <4>1, PartsOfOneBit, ZenonT(60)
      <3>5. ~(x[1] = y[1] /\ o = p)
        BY <2>2, <2>5, <3>2, <3>3
      <3>6. QED BY <3>4, <3>5
    <2>6. QED BY <2>4, <2>5
  <1>2. QED BY <1>1, RaisedInvariant, PTL
=============================================================================
