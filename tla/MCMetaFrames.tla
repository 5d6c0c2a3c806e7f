---------------------------- MODULE MCMetaFrames ----------------------------
\* Small instances of MetaFrames for TLC.
EXTENDS MetaFrames, TLC

CONSTANTS avb, ptp

Trapped(s, p, f, t, own) ==
    [switch |-> s, port |-> p, filter |-> f, type |-> t, own |-> own]

\* A line of three switches. The last one traps two frames, the first one the
\* endpoint's own.
LineFrames == {Trapped(2, 1, 0, ptp, FALSE), Trapped(2, 2, 0, ptp, FALSE),
               Trapped(1, 1, 0, ptp, FALSE), Trapped(0, 4, 0, ptp, TRUE)}

\* One switch.
SwitchFrames == {Trapped(0, 1, 0, ptp, FALSE), Trapped(0, 2, 0, ptp, FALSE),
                 Trapped(0, 4, 1, avb, TRUE)}

AllFollowed == 0 :> TRUE
Included == 0 :> TRUE
FirstFollowed == 0 :> TRUE @@ 1 :> FALSE
BothIncluded == 0 :> TRUE @@ 1 :> TRUE
=============================================================================
