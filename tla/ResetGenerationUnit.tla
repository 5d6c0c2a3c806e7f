------------------------ MODULE ResetGenerationUnit ------------------------
(* The registers of the reset generation unit: the layout each accessor     *)
(* function of NXP_SJA1105P_resetGenerationUnit.c reads or writes, under    *)
(* the name of that function.                                               *)
EXTENDS RegisterLayout

setResetCtrl == Register(\h100440, 1, {Field("rstCtrl", 0, 0, 9)})

(* What the header exports: per register, the function that writes and the one that reads it. *)
resetGenerationUnitRegisters ==
    [resetCtrl |-> <<setResetCtrl, NoRegister>>]
=============================================================================
