--------------------------- MODULE MCMgmtRoutes -----------------------------
\* Small instances of MgmtRoutes for TLC: ports of one switch or of a cascade.
EXTENDS MgmtRoutes, TLC

CONSTANTS p0, p1, m0, m1

MCPortsOneSwitch == p0 :> 0 @@ p1 :> 0
MCPortsCascade == p0 :> 0 @@ p1 :> 1

MacSymmetry == Permutations(MacAddr)
=============================================================================
