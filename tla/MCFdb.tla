------------------------------- MODULE MCFdb --------------------------------
\* Small instances of Fdb for TLC.
EXTENDS Fdb, TLC

CONSTANTS p1, p2, p3, m

OneSwitch == p1 :> 0 @@ p2 :> 0
Line == p1 :> 0 @@ p2 :> 1 @@ p3 :> 2
Addresses == Mac \X Vlan

\* An index that holds no valid entry reads as one of no ports. For which
\* address does not matter where a search that finds nothing says so.
Blank == {[lockeds |-> FALSE, address |-> <<m, NoVlan>>, destports |-> {},
           mirror |-> FALSE, retag |-> FALSE]}
=============================================================================
