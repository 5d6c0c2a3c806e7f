------------------------------ MODULE MCProbe ------------------------------
(* A line of two switches with three ports each, four of them external. *)
EXTENDS Probe, TLC

CONSTANTS a, b

MCDevices == {a, b}

MCFirmware == a :> [hostPort |-> 0, cascPort |-> 1] @@ b :> [hostPort |-> 0, cascPort |-> 3]

(* Complete, without a number for one port, and with one for a port that leads *)
(* to the other switch.                                                       *)
MCDeviceTrees ==
    {a :> (0 :> 2 @@ 1 :> Cascaded @@ 2 :> 0) @@ b :> (0 :> Cascaded @@ 1 :> 3 @@ 2 :> 1),
     a :> (0 :> 0 @@ 1 :> Cascaded @@ 2 :> 1) @@ b :> (0 :> 2 @@ 1 :> Missing @@ 2 :> 3),
     a :> (0 :> 0 @@ 1 :> 1 @@ 2 :> Cascaded) @@ b :> (0 :> Cascaded @@ 1 :> 2 @@ 2 :> 3)}

ASSUME LineAssumption == LineFits /\ TreesNumberPorts
=============================================================================
