--------------------------- MODULE RegisterLayout ---------------------------
(* How the low-level driver places the fields of an argument in the 32-bit  *)
(* words of a register, and takes them out again.  A register word, and the *)
(* value of a field, is the set of its bits that are 1.                     *)
EXTENDS Integers, FiniteSets

SJA1105P_N_PORTS == 5

Bits == 0 .. 31

(* A part: bits lo .. lo + width - 1 of a field are the bits from at on of a word. *)
Slice(field, lo, word, at, width) ==
    [field |-> field, lo |-> lo, word |-> word, at |-> at, width |-> width]

Field(field, word, at, width) == Slice(field, 0, word, at, width)

(* Fields of one bit, one below the other. *)
Flags(word, top, fields) ==
    {Field(fields[i], word, top - i + 1, 1) : i \in DOMAIN fields}

(* An accessor transfers consecutive words.  It may have two indices, such as   *)
(* a port and a direction: `step' is what each adds to the address.  `codes'    *)
(* lists enumerated fields, `valid' fields of which only the low bits are used. *)
IndexedRegister(base, step, count, words, parts) ==
    [base |-> base, step |-> step, count |-> count, words |-> words,
     parts |-> parts, codes |-> {}, valid |-> {}]

Register(base, words, parts) == IndexedRegister(base, <<0, 0>>, <<1, 1>>, words, parts)

PortRegister(base, step, words, parts) ==
    IndexedRegister(base, <<step, 0>>, <<SJA1105P_N_PORTS, 1>>, words, parts)

NoRegister == Register(0, 0, {})

Coded(register, codes) == [register EXCEPT !.codes = codes]
Limited(register, valid) == [register EXCEPT !.valid = valid]

Indices(register) == (0 .. register.count[1] - 1) \X (0 .. register.count[2] - 1)

Address(register, index) ==
    register.base + register.step[1] * index[1] + register.step[2] * index[2]

Addresses(register, index) ==
    {Address(register, index) + w : w \in 0 .. register.words - 1}

(* The addresses all indices together take up. *)
Extent(register) ==
    register.words + register.step[1] * (register.count[1] - 1)
                   + register.step[2] * (register.count[2] - 1)

FieldsOf(register) == {p.field : p \in register.parts}

(* The bits of its field a part moves, and the bits of the word they are. *)
FieldBits(part) == part.lo .. part.lo + part.width - 1
WordBits(part) == part.at .. part.at + part.width - 1

(* The bits of a field that a register has room for. *)
BitsOf(register, field) ==
    UNION {FieldBits(p) : p \in {q \in register.parts : q.field = field}}

(* Mutated form of the next definition: the mask is forgotten. *)
PackedUnmasked(parts, argument, word) ==
    UNION {{p.at + b - p.lo : b \in argument[p.field]} : p \in {q \in parts : q.word = word}}

(* The bits of a word that a part sets for a value: mask and shift. *)
Placed(part, value) ==
    {part.at + b - part.lo : b \in value \cap FieldBits(part)}

(* One word of the register for an argument. *)
Packed(parts, argument, word) ==
    UNION {Placed(p, argument[p.field]) : p \in {q \in parts : q.word = word}}

(* Mutated form of the next definition: the mask is forgotten. *)
UnpackedUnmasked(parts, contents, field) ==
    UNION {{p.lo + b - p.at : b \in {c \in contents[p.word] : c >= p.at}}
              : p \in {q \in parts : q.field = field}}

(* Mask and shift back: one field, from the words of the register. *)
Unpacked(parts, contents, field) ==
    UNION {{p.lo + b - p.at : b \in contents[p.word] \cap WordBits(p)}
              : p \in {q \in parts : q.field = field}}

(* A number below 2^16 as the set of its bits. *)
Code(n) == {b \in 0 .. 15 : (n \div 2^b) % 2 = 1}

(* An enumeration: what SJA1105P_convertTo... leaves alone, and what it returns otherwise. *)
Enumeration(values, default) == [codes |-> {Code(v) : v \in values}, default |-> Code(default)]

Converted(register, field, value) ==
    IF \E c \in register.codes : field \in c[1] /\ value \notin c[2].codes
    THEN (CHOOSE c \in register.codes : field \in c[1])[2].default
    ELSE value
=============================================================================
