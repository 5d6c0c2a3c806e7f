----------------------------- MODULE MCRegisters -----------------------------
(* All registers of a switch, at their addresses. *)
EXTENDS RegisterFile, SwitchCore, AuxiliaryConfigurationUnit, Sgmii,
        ClockGenerationUnit, ResetGenerationUnit, TLC

MCRegistersOfSwitch ==
    switchCoreRegisters @@ sgmiiRegisters @@ auxiliaryConfigurationUnitRegisters
        @@ clockGenerationUnitRegisters @@ resetGenerationUnitRegisters

(* The entry of the address table is laid out in two ways. *)
MCSameWords == {{"l2ArtEntry", "l2ArtLockedEntry"}}

(* The setter packs these two into a common bit: see the README. *)
MCUnreliable == {<<"cfgPadMiix", "ctrlOs">>, <<"cfgPadMiix", "ctrlIh">>}
MCNone == {}

(* The values a field may be given: the codes of its enumeration, or none or  *)
(* all of its bits.                                                           *)
ValidBits(r, f) ==
    {b \in BitsOf(MCRegistersOfSwitch[r][1], f) \cup BitsOf(MCRegistersOfSwitch[r][2], f) :
        \A v \in MCRegistersOfSwitch[r][1].valid : v[1] = f => b < v[2]}

FieldValues(r, f) ==
    LET codes == {c[2] : c \in {d \in MCRegistersOfSwitch[r][2].codes : f \in d[1]}}
    IN IF codes = {} THEN {{}, ValidBits(r, f)}
       ELSE UNION {c.codes \cup {c.default} : c \in codes}

FewestBits(values) == CHOOSE v \in values : \A u \in values : Cardinality(v) <= Cardinality(u)
MostBits(values) == CHOOSE v \in values : \A u \in values : Cardinality(v) >= Cardinality(u)

(* First every value of each field, the others being as small as possible; then *)
(* as many bits as possible.                                                  *)
MCFull ==
    [r \in DOMAIN MCRegistersOfSwitch |->
        [f \in FieldsOf(MCRegistersOfSwitch[r][1]) |-> MostBits(FieldValues(r, f))]]

MCVaried ==
    [r \in DOMAIN MCRegistersOfSwitch |->
        LET fewest == [f \in FieldsOf(MCRegistersOfSwitch[r][1]) |-> FewestBits(FieldValues(r, f))]
        IN {MCFull[r]} \cup
               UNION {{[fewest EXCEPT ![f] = v] : v \in FieldValues(r, f)} : f \in DOMAIN fewest}]

MCArguments(r, n) == IF n = 0 THEN MCVaried[r] ELSE {MCFull[r]}


(* The layouts of the chip meet what the theorems of RegisterFileProofs ask of them. *)
ASSUME LayoutAssumption ==
    \A r \in DOMAIN MCRegistersOfSwitch : LayoutAgrees(r) /\ ArgumentsFit(r) /\ PartsApart(r)
=============================================================================
