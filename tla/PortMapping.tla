---------------------------- MODULE PortMapping ----------------------------
(* The mapping between logical ports, which are numbered across all          *)
(* switches, and the physical ports of each switch (NXP_SJA1105P_config.c).   *)
EXTENDS Integers, FiniteSets, FiniteSetsExt

CONSTANTS SJA1105P_N_SWITCHES, SJA1105P_N_PORTS, SJA1105P_N_LOGICAL_PORTS

ASSUME SizesAssumption ==
    /\ SJA1105P_N_SWITCHES \in Nat \ {0} /\ SJA1105P_N_PORTS \in Nat \ {0}
    /\ SJA1105P_N_LOGICAL_PORTS \in 1 .. SJA1105P_N_SWITCHES * SJA1105P_N_PORTS

VARIABLES g_portMapping,           \* logical port -> physical port and switch
          g_inversePortMapping,    \* switch -> physical port -> logical port, or none
          g_logicalPortVectorMask, \* switch -> its logical ports
          g_generalParameters      \* switch -> its cascading port and host port

mappingVars == <<g_portMapping, g_inversePortMapping, g_logicalPortVectorMask, g_generalParameters>>

SJA1105P_MASTER_SWITCH == 0
Switches == 0 .. SJA1105P_N_SWITCHES - 1
Ports == 0 .. SJA1105P_N_PORTS - 1
LogicalPorts == 0 .. SJA1105P_N_LOGICAL_PORTS - 1
NoPort == SJA1105P_N_LOGICAL_PORTS   \* an invalid logical port

PhysicalPort == [physicalPort : Ports, switchId : Switches]

(* Static variables are zero: until it is initialised, everything is port 0. *)
MappingInit ==
    /\ g_portMapping = [l \in LogicalPorts |-> [physicalPort |-> 0, switchId |-> 0]]
    /\ g_inversePortMapping = [s \in Switches |-> [p \in Ports |-> 0]]
    /\ g_logicalPortVectorMask = [s \in Switches |-> {}]
    /\ g_generalParameters = [s \in Switches |-> [cascPort |-> 0, hostPort |-> 0]]

(* Neither a cascaded port nor the port of a cascaded switch that leads to the host. *)
External(parameters, s, p) ==
    /\ p # parameters[s].cascPort
    /\ p # parameters[s].hostPort \/ s = SJA1105P_MASTER_SWITCH

(* Mutated form of the next definition: the host port of a cascaded switch is counted. *)
PrecedingWithHost(parameters, s, p) ==
    Cardinality({x \in Switches \X Ports :
                    /\ x[2] # parameters[x[1]].cascPort
                    /\ x[1] < s \/ (x[1] = s /\ x[2] < p)})

(* Mutated form of the next definition: counting starts again with each switch. *)
PrecedingInSwitch(parameters, s, p) ==
    Cardinality({x \in Switches \X Ports :
                    External(parameters, x[1], x[2]) /\ x[1] = s /\ x[2] < p})

(* The number of external ports that automatic mapping meets before a port. *)
Preceding(parameters, s, p) ==
    Cardinality({x \in Switches \X Ports :
                    /\ External(parameters, x[1], x[2])
                    /\ x[1] < s \/ (x[1] = s /\ x[2] < p)})

(* Logical ports are given to the external ports in order.  The masks keep what  *)
(* they have.                                                                    *)
InitAutoPortMapping(parameters) ==
    LET number(s, p) == Preceding(parameters, s, p)
    IN /\ g_inversePortMapping' =
             [s \in Switches |-> [p \in Ports |->
                 IF External(parameters, s, p) THEN number(s, p) ELSE NoPort]]
       /\ g_portMapping' =
             [l \in LogicalPorts |->
                 IF \E s \in Switches, p \in Ports : External(parameters, s, p) /\ number(s, p) = l
                 THEN CHOOSE x \in PhysicalPort : /\ External(parameters, x.switchId, x.physicalPort)
                                                  /\ number(x.switchId, x.physicalPort) = l
                 ELSE g_portMapping[l]]
       /\ g_logicalPortVectorMask' =
             [s \in Switches |-> g_logicalPortVectorMask[s] \cup
                 {number(s, p) : p \in {q \in Ports : External(parameters, s, q)}}]

(* The logical ports that are stored: those before the first invalid one. *)
Accepted(parameters, k_portMapping) ==
    {l \in LogicalPorts : \A k \in 0 .. l :
        External(parameters, k_portMapping[k].switchId, k_portMapping[k].physicalPort)}

(* The mapping is stored up to the first port that is invalid.  Of several    *)
(* logical ports for one physical port, the last is its inverse.               *)
InitManualPortMapping(parameters, k_portMapping) ==
    LET stored == Accepted(parameters, k_portMapping)
        of(s, p) == {l \in stored : k_portMapping[l] = [physicalPort |-> p, switchId |-> s]}
    IN /\ g_portMapping' = [l \in LogicalPorts |->
             IF l \in stored THEN k_portMapping[l] ELSE g_portMapping[l]]
       /\ g_inversePortMapping' = [s \in Switches |-> [p \in Ports |->
             IF of(s, p) = {} THEN NoPort ELSE Max(of(s, p))]]
       /\ g_logicalPortVectorMask' = [s \in Switches |-> g_logicalPortVectorMask[s] \cup
             {l \in stored : k_portMapping[l].switchId = s}]

-----------------------------------------------------------------------------
(* Translations.  A port vector is a set of ports. *)

GetPhysicalPort(l) == g_portMapping[l]

GetLogicalPort(s, p) == g_inversePortMapping[s][p]

GetPhysicalPortVector(logicalPorts, s) ==
    {GetPhysicalPort(l).physicalPort : l \in logicalPorts \cap g_logicalPortVectorMask[s]}

GetPortVectorFromPhysicalPortVector(physicalPorts, s) ==
    {GetLogicalPort(s, p) : p \in physicalPorts} \ {NoPort}

GetSwitchesFromPorts(logicalPorts) ==
    {s \in Switches : GetPhysicalPortVector(logicalPorts, s) # {}}

(* A set of logical ports, handed to the switches it lies on as port vectors and *)
(* translated back, is the same set; no other switch has a part of it.            *)
TranslationsAgree ==
    \A logicalPorts \in SUBSET LogicalPorts :
        /\ logicalPorts =
              UNION {GetPortVectorFromPhysicalPortVector(GetPhysicalPortVector(logicalPorts, s), s)
                        : s \in GetSwitchesFromPorts(logicalPorts)}
        /\ GetSwitchesFromPorts(logicalPorts) = {GetPhysicalPort(l).switchId : l \in logicalPorts}
=============================================================================
