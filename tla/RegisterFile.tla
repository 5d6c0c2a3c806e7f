----------------------------- MODULE RegisterFile -----------------------------
(* The registers of a switch as the low-level driver sees them: each accessor  *)
(* packs or unpacks an argument and transfers the words over SPI.              *)
EXTENDS RegisterLayout

CONSTANTS Registers,       \* name of a register -> <<layout written, layout read>>
          Arguments(_, _), \* the arguments tried for a register in the n-th write
          SameWords,       \* sets of names of registers that share their words by design
          Unreliable,      \* <<register, field>>: fields that are not expected to read back
          MaxWrites        \* bound: writes after a reset

ASSUME WritesAssumption == MaxWrites \in Nat

VARIABLES memory,  \* the bits that are 1, as pairs of an address and a bit
          writes,  \* number of writes since the reset
          written, \* history: what was written last, and where
          raised   \* the bit the hardware has set of its own accord, if any

vars == <<memory, writes, written, raised>>

Names == DOMAIN Registers
Setter(r) == Registers[r][1]
Getter(r) == Registers[r][2]

(* The words of a register, read one after the other.  A failing transfer is not reported. *)
ReadWords(register, index) ==
    [w \in 0 .. register.words - 1 |-> {b \in Bits : <<Address(register, index) + w, b>> \in memory}]

(* Mutated form of the next definition: the last word is not transferred. *)
StoredShort(register, index, argument) ==
    {m \in memory : m[1] \notin Addresses(register, index)}
        \cup UNION {{<<Address(register, index) + w, b>> : b \in Packed(register.parts, argument, w)} :
                       w \in 0 .. register.words - 2}

(* The memory after the words of a register are written, word by word. *)
Stored(register, index, argument) ==
    {m \in memory : m[1] \notin Addresses(register, index)}
        \cup UNION {{<<Address(register, index) + w, b>> : b \in Packed(register.parts, argument, w)} :
                       w \in 0 .. register.words - 1}

Raw(r, index, field) == Unpacked(Getter(r).parts, ReadWords(Getter(r), index), field)

(* What the getter of a register returns for a field. *)
Reported(r, index, field) == Converted(Getter(r), field, Raw(r, index, field))

SamePlace(r, i, q, j) ==
    \/ r = q /\ i = j
    \/ \E s \in SameWords : {r, q} \subseteq s

-----------------------------------------------------------------------------
(* What makes a setter and a getter agree, whatever is written and how often. *)

(* The bits a value of a field may have. *)
ValueBits(r, f) ==
    {b \in BitsOf(Setter(r), f) \cup BitsOf(Getter(r), f) :
        \A v \in Setter(r).valid : v[1] = f => b < v[2]}

(* Fields that are expected to read back. *)
ReadFields(r) ==
    {f \in FieldsOf(Setter(r)) \cap FieldsOf(Getter(r)) : <<r, f>> \notin Unreliable}

(* Two parts that move the same bits of a field from and to the same bits of a word. *)
Corresponds(r, i, p, q) ==
    /\ p.field = q.field /\ p.at - p.lo = q.at - q.lo
    /\ Address(Getter(r), i) + p.word = Address(Setter(r), i) + q.word

(* The getter reads a field from words the setter writes, finds nothing else in *)
(* the bits it reads, and finds all bits a value may have.                      *)
FieldAgrees(r, i, f) ==
    /\ ValueBits(r, f) \subseteq BitsOf(Getter(r), f)
    /\ \A p \in {part \in Getter(r).parts : part.field = f} :
          /\ Address(Getter(r), i) + p.word \in Addresses(Setter(r), i)
          /\ \A q \in Setter(r).parts :
                \/ Address(Getter(r), i) + p.word # Address(Setter(r), i) + q.word
                \/ Corresponds(r, i, p, q)
                \/ Placed(q, ValueBits(r, q.field)) \cap WordBits(p) = {}
          /\ \A b \in ValueBits(r, f) \cap FieldBits(p) :
                \E q \in Setter(r).parts : Corresponds(r, i, p, q) /\ b \in FieldBits(q)

(* The words a getter takes such fields from are written by no setter but those *)
(* that share the place by design.                                              *)
Undisturbed(r, i) ==
    LET read == {Address(Getter(r), i) + p.word :
                    p \in {q \in Getter(r).parts : q.field \in ReadFields(r)}}
    IN \A q \in Names : \A j \in Indices(Setter(q)) :
          ~SamePlace(r, i, q, j) => read \cap Addresses(Setter(q), j) = {}

(* Parts lie within the words of their register. *)
PartsFit(register) ==
    /\ register.words \in Nat /\ register.base \in Nat
    /\ register.count[1] \in Nat /\ register.count[2] \in Nat
    /\ register.step[1] \in Nat /\ register.step[2] \in Nat
    /\ \A p \in register.parts :
          /\ p.word \in 0 .. register.words - 1
          /\ p.lo \in Nat /\ p.at \in Nat /\ p.width \in Nat /\ p.at + p.width <= 32

LayoutAgrees(r) ==
    /\ PartsFit(Setter(r)) /\ PartsFit(Getter(r))
    /\ \A i \in Indices(Setter(r)) : /\ \A f \in ReadFields(r) : FieldAgrees(r, i, f)
                                     /\ Undisturbed(r, i)

(* Arguments have a value for each field that fits in its bits, and is one of its *)
(* codes if it is enumerated.                                                     *)
ArgumentsFit(r) ==
    \A n \in 0 .. MaxWrites - 1 : \A argument \in Arguments(r, n) :
        /\ DOMAIN argument = FieldsOf(Setter(r))
        /\ \A f \in FieldsOf(Setter(r)) : argument[f] \subseteq ValueBits(r, f)
        /\ \A f \in ReadFields(r) : Converted(Getter(r), f, argument[f]) = argument[f]

-----------------------------------------------------------------------------
Init == /\ memory = {}
        /\ writes = 0
        /\ written = {}
        /\ raised = {}

(* A call of a setter. *)
Set ==
    /\ writes < MaxWrites
    /\ writes' = writes + 1
    /\ \E r \in {q \in Names : Setter(q).words > 0} :
          \E index \in Indices(Setter(r)), argument \in Arguments(r, writes) :
             /\ memory' = Stored(Setter(r), index, argument)
             /\ written' = {x \in written : ~SamePlace(x.register, x.index, r, index)}
                               \cup {[register |-> r, index |-> index, argument |-> argument]}
    /\ UNCHANGED raised

(* The switch sets a bit of a register the driver can read.  Bound: one bit, in a *)
(* switch whose registers are otherwise zero.                                     *)
Raise ==
    /\ writes = 0 /\ raised = {}
    /\ writes' = MaxWrites
    /\ \E r \in Names : \E index \in Indices(Getter(r)) :
          \E w \in 0 .. Getter(r).words - 1, bit \in Bits :
             memory' = {<<Address(Getter(r), index) + w, bit>>}
    /\ raised' = memory'
    /\ UNCHANGED written

(* The switch is reset and forgets everything. *)
Reset ==
    /\ memory' = {}
    /\ writes' = 0
    /\ written' = {}
    /\ raised' = {}

Next == Raise \/ Set \/ Reset

Spec == Init /\ [][Next]_vars

-----------------------------------------------------------------------------
(* The memory holds words of 32 bits at addresses some accessor uses; what was *)
(* written has a value for each field of the setter.                           *)
TypeOK ==
    /\ \A m \in memory : m[1] \in Nat /\ m[2] \in Bits
    /\ writes \in 0 .. MaxWrites
    /\ raised \subseteq memory
    /\ \A x \in written : /\ x.register \in Names
                          /\ x.index \in Indices(Setter(x.register))
                          /\ DOMAIN x.argument = FieldsOf(Setter(x.register))

(* What a setter was given, the getter of the same register returns, field by  *)
(* field, until the register is written again: masks and shifts of both agree,  *)
(* fields do not overlap, no other register or port is written by accident.     *)
ReadsBack ==
    \A x \in written : \A f \in FieldsOf(Setter(x.register)) \cap FieldsOf(Getter(x.register)) :
        <<x.register, f>> \notin Unreliable
            => Reported(x.register, x.index, f) = x.argument[f]

(* The registers, with their indices, that cover an address. *)
Readers(a) ==
    LET near == {r \in Names : a - Getter(r).base \in 0 .. Extent(Getter(r)) - 1}
    IN UNION {{<<r, i>> : i \in {j \in Indices(Getter(r)) :
                                    a - Address(Getter(r), j) \in 0 .. Getter(r).words - 1}} : r \in near}

(* No other part of a getter has a bit of a word in common with one of a register, *)
(* but those of registers that share their words by design.                        *)
PartsApart(r) ==
    \A i \in Indices(Getter(r)), p \in Getter(r).parts : <<r, p.field>> \notin Unreliable =>
        LET a == Address(Getter(r), i) + p.word
        IN \A x \in Readers(a) : \A o \in Getter(x[1]).parts :
              \/ <<x[1], o.field>> \in Unreliable
              \/ Address(Getter(x[1]), x[2]) + o.word # a
              \/ WordBits(p) \cap WordBits(o) = {}
              \/ x = <<r, i>> /\ o = p
              \/ x[1] # r /\ \E s \in SameWords : {r, x[1]} \subseteq s

(* Where a bit shows in what the getters return. *)
Reports(bit) ==
    {z \in UNION {{x} \X FieldsOf(Getter(x[1])) : x \in Readers(bit[1])} :
        <<z[1][1], z[2]>> \notin Unreliable /\ Raw(z[1][1], z[1][2], z[2]) # {}}

(* A bit of a status register is reported as one bit of one field of one      *)
(* register and port: no getter reads into its neighbour's bits or words.      *)
ReportedOnce ==
    \A bit \in raised : LET reports == Reports(bit) IN \A x, y \in reports :
        /\ Cardinality(Raw(x[1][1], x[1][2], x[2])) = 1
        /\ x # y => \E s \in SameWords : {x[1][1], y[1][1]} \subseteq s /\ x[1][1] # y[1][1]
=============================================================================
