------------------------------ MODULE MCRecvIf ------------------------------
\* Small instances of RecvIf for TLC: frames of one, two and three units.
EXTENDS RecvIf, TLC

CONSTANTS f1, f2, f3

MCFrameLen == f1 :> 1 @@ f2 :> 2 @@ f3 :> 3
MCFrameLenOne == f1 :> 1
=============================================================================
