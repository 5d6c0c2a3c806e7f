------------------------------- MODULE Probe -------------------------------
(* Probing and removing switches (sja1105p_init.c).  Linux probes each switch *)
(* as a device of its own; the driver counts them and initialises the whole   *)
(* line with the last one.                                                    *)
EXTENDS PortMapping, Sequences

CONSTANTS Devices,      \* the switches, as devices on the SPI bus
          DeviceTrees,  \* what the device tree may say: device -> port -> logical port
          Firmware,     \* device -> cascading port and host port in its configuration
          InOrder,      \* switches are removed in the reverse order
          None,         \* no device
          MaxRemovals   \* bound on the number of removals

Cascaded == 255   \* the port has no logical number
Missing == -1     \* the device tree does not give a number

ASSUME DevicesAssumption ==
    /\ IsFiniteSet(Devices) /\ Cardinality(Devices) <= SJA1105P_N_SWITCHES
    /\ DeviceTrees \subseteq [Devices -> [Ports -> LogicalPorts \cup {Cascaded, Missing}]]
    /\ DOMAIN Firmware = Devices
    /\ None \notin Devices

(* In whichever order the switches form the line, their configurations leave as many *)
(* external ports as there are logical ports: no array of the mapping is overrun.    *)
LineFits ==
    \A line \in [Switches -> Devices] :
        (\A s, t \in Switches : line[s] = line[t] => s = t) =>
            Cardinality({x \in Switches \X Ports :
                            External([s \in Switches |-> Firmware[line[s]]], x[1], x[2])})
                = SJA1105P_N_LOGICAL_PORTS

(* A device tree that leaves no port without a number gives each number once. *)
TreesNumberPorts ==
    \A tree \in DeviceTrees :
        \/ \E d \in Devices, p \in Ports : tree[d][p] = Missing
        \/ /\ \A l \in LogicalPorts : \E d \in Devices, p \in Ports : tree[d][p] = l
           /\ \A d, e \in Devices, p, q \in Ports :
                 tree[d][p] = tree[e][q] /\ tree[d][p] \in LogicalPorts => d = e /\ p = q

VARIABLES switches_active,       \* number of switches counted so far
          device_select,         \* device -> its index
          sja1105p_context_arr,  \* index -> device, or none
          g_spi_h,               \* index -> device, or none
          callbacks,             \* the SPI callbacks are registered
          do_auto_mapping,
          portMapping,           \* collected from the device tree
          switchdev,             \* the bridge has been initialised
          pc,                    \* device -> how far its probe is
          configured,            \* devices that hold a valid configuration
          deviceTree,
          finals,                \* history: number of calls of probe_final
          mapped,                \* history: the last mapping was successful
          removals

probeVars == <<switches_active, device_select, sja1105p_context_arr, g_spi_h, callbacks,
               do_auto_mapping, portMapping, switchdev, pc, configured, deviceTree,
               finals, mapped, removals>>
vars == <<probeVars, mappingVars>>

Init ==
    /\ MappingInit
    /\ switches_active = 0
    /\ device_select = [d \in Devices |-> 0]
    /\ sja1105p_context_arr = [s \in Switches |-> None]
    /\ g_spi_h = [s \in Switches |-> None]
    /\ callbacks = FALSE
    /\ do_auto_mapping = FALSE
    /\ portMapping = [l \in LogicalPorts |-> [physicalPort |-> 0, switchId |-> 0]]
    /\ switchdev = FALSE
    /\ pc = [d \in Devices |-> "idle"]
    /\ configured = {}
    /\ deviceTree \in DeviceTrees
    /\ finals = 0
    /\ mapped = FALSE
    /\ removals = 0

Goto(d, from, to) == pc[d] = from /\ pc' = [pc EXCEPT ![d] = to]

(* The driver core runs one probe or removal at a time. *)
Quiet == \A d \in Devices : pc[d] \in {"idle", "active"}

-----------------------------------------------------------------------------
(* sja1105p_probe *)

(* The index is the number of switches counted so far.  A probe that failed may *)
(* have left its context under that index.  There is always room for one more:  *)
(* the code does not ask, but DevicesAssumption has as many devices as switches. *)
BeginProbe(d) ==
    /\ Quiet
    /\ switches_active < SJA1105P_N_SWITCHES
    /\ Goto(d, "idle", "begun")
    /\ device_select' = [device_select EXCEPT ![d] = switches_active]
    /\ sja1105p_context_arr' = [sja1105p_context_arr EXCEPT ![switches_active] = d]
    /\ UNCHANGED <<switches_active, g_spi_h, callbacks, do_auto_mapping, portMapping, switchdev,
                   configured, deviceTree, finals, mapped, removals, mappingVars>>

(* SPI, the device tree and its properties are set up. *)
RegisterSpi(d) ==
    /\ Goto(d, "begun", "registered")
    /\ g_spi_h' = [g_spi_h EXCEPT ![device_select[d]] = d]
    /\ callbacks' = (callbacks \/ switches_active = 0)
    /\ UNCHANGED <<switches_active, device_select, sja1105p_context_arr, do_auto_mapping,
                   portMapping, switchdev, configured, deviceTree, finals, mapped, removals,
                   mappingVars>>

(* The device id is right, and is read again after the reset. *)
ResetSwitch(d) ==
    /\ Goto(d, "registered", "reset")
    /\ configured' = configured \ {g_spi_h[device_select[d]]}
    /\ UNCHANGED <<switches_active, device_select, sja1105p_context_arr, g_spi_h, callbacks,
                   do_auto_mapping, portMapping, switchdev, deviceTree, finals, mapped, removals,
                   mappingVars>>

(* The configuration file is found, fits, is written, and the switch confirms it. *)
LoadConfiguration(d) ==
    /\ Goto(d, "reset", "loaded")
    /\ configured' = configured \cup {d}
    /\ UNCHANGED <<switches_active, device_select, sja1105p_context_arr, g_spi_h, callbacks,
                   do_auto_mapping, portMapping, switchdev, deviceTree, finals, mapped, removals,
                   mappingVars>>

(* Any of these steps may fail: the probe returns and undoes nothing. *)
FailProbe(d) ==
    /\ \E step \in {"begun", "registered", "reset"} : Goto(d, step, "idle")
    /\ UNCHANGED <<switches_active, device_select, sja1105p_context_arr, g_spi_h, callbacks,
                   do_auto_mapping, portMapping, switchdev, configured, deviceTree, finals, mapped,
                   removals, mappingVars>>

(* sja1105p_port_mapping: physical ports up to the first without a number. *)
Numbered(d) ==
    {p \in Ports : /\ \A q \in 0 .. p : deviceTree[d][q] # Missing
                   /\ deviceTree[d][p] \in LogicalPorts}

MapPorts(d) ==
    /\ Goto(d, "loaded", "mapped")
    /\ do_auto_mapping' = (do_auto_mapping \/ \E p \in Ports : deviceTree[d][p] = Missing)
    /\ portMapping' =
          [l \in LogicalPorts |->
              LET ports == {p \in Numbered(d) : deviceTree[d][p] = l}
              IN IF ports = {} THEN portMapping[l]
                 ELSE [physicalPort |-> Max(ports), switchId |-> device_select[d]]]
    /\ UNCHANGED <<switches_active, device_select, sja1105p_context_arr, g_spi_h, callbacks,
                   switchdev, configured, deviceTree, finals, mapped, removals, mappingVars>>

(* Mutated form of the next definition: the switch is counted though another index is free. *)
CountedTwice(n) == IF n + 2 <= SJA1105P_N_SWITCHES THEN n + 2 ELSE n + 1
Counted(n) == n + 1

CountSwitch(d) ==
    /\ Goto(d, "mapped", "counted")
    /\ switches_active' = Counted(switches_active)
    /\ UNCHANGED <<device_select, sja1105p_context_arr, g_spi_h, callbacks, do_auto_mapping,
                   portMapping, switchdev, configured, deviceTree, finals, mapped, removals,
                   mappingVars>>

(* SJA1105P_synchSwitchConfiguration: the ports each switch has in its configuration. *)
SynchSwitchConfiguration ==
    [s \in Switches |-> IF g_spi_h[s] \in configured THEN Firmware[g_spi_h[s]]
                                                     ELSE g_generalParameters[s]]

(* sja1105p_probe_final: a manual mapping that fails is only reported.  The ports may *)
(* turn out not to be configurable.                                                  *)
ProbeFinal ==
    LET parameters == SynchSwitchConfiguration
    IN /\ g_generalParameters' = parameters
       /\ IF do_auto_mapping
          THEN /\ InitAutoPortMapping(parameters)
               /\ mapped' = TRUE
          ELSE /\ InitManualPortMapping(parameters, portMapping)
               /\ mapped' = (Accepted(parameters, portMapping) = LogicalPorts)
       /\ \E portsConfigured \in BOOLEAN : switchdev' = (switchdev \/ portsConfigured)
       /\ finals' = finals + 1

(* Mutated form of the next definition: the first switch is taken for the last. *)
CompleteAtOnce(n) == n > 0
Complete(n) == n = SJA1105P_N_SWITCHES

(* The end of sja1105p_probe: the count decides whether the line is complete. *)
FinishProbe(d) ==
    /\ Goto(d, "counted", "active")
    /\ IF Complete(switches_active)
       THEN ProbeFinal
       ELSE UNCHANGED <<mappingVars, mapped, switchdev, finals>>
    /\ UNCHANGED <<switches_active, device_select, sja1105p_context_arr, g_spi_h, callbacks,
                   do_auto_mapping, portMapping, configured, deviceTree, removals>>

-----------------------------------------------------------------------------
(* sja1105p_remove: the callbacks go with the last switch.  The bridge stays. *)
Remove(d) ==
    /\ Quiet
    /\ removals < MaxRemovals
    /\ InOrder => device_select[d] = switches_active - 1
    /\ Goto(d, "active", "idle")
    /\ switches_active' = switches_active - 1
    /\ callbacks' = (callbacks /\ switches_active' # 0)
    /\ removals' = removals + 1
    /\ UNCHANGED <<device_select, sja1105p_context_arr, g_spi_h, do_auto_mapping, portMapping,
                   switchdev, configured, deviceTree, finals, mapped, mappingVars>>

Next ==
    \E d \in Devices :
        \/ BeginProbe(d) \/ RegisterSpi(d) \/ ResetSwitch(d) \/ LoadConfiguration(d)
        \/ FailProbe(d) \/ MapPorts(d) \/ CountSwitch(d) \/ FinishProbe(d) \/ Remove(d)

Spec == Init /\ [][Next]_vars

-----------------------------------------------------------------------------
TypeOK ==
    /\ g_portMapping \in [LogicalPorts -> PhysicalPort]
    /\ g_inversePortMapping \in [Switches -> [Ports -> 0 .. NoPort]]
    /\ g_logicalPortVectorMask \in [Switches -> SUBSET LogicalPorts]
    /\ switches_active \in 0 .. SJA1105P_N_SWITCHES
    /\ device_select \in [Devices -> Switches]
    /\ sja1105p_context_arr \in [Switches -> Devices \cup {None}]
    /\ g_spi_h \in [Switches -> Devices \cup {None}]
    /\ portMapping \in [LogicalPorts -> PhysicalPort]
    /\ configured \subseteq Devices
    /\ callbacks \in BOOLEAN /\ switchdev \in BOOLEAN

(* Each index below the count belongs to one switch that is there: its context, *)
(* its SPI device and the index it knows itself by agree, and transfers to it    *)
(* find a callback.                                                             *)
IndicesAgree ==
    \A s \in Switches : s < switches_active =>
        /\ callbacks
        /\ g_spi_h[s] \in configured
        /\ sja1105p_context_arr[s] = g_spi_h[s]
        /\ device_select[g_spi_h[s]] = s
        /\ pc[g_spi_h[s]] \in {"counted", "active"}

(* Once the mapping has been accepted, no logical port is lost or confused in a *)
(* translation to physical ports and back, whether mapped by hand or not.  This   *)
(* needs that the line is initialised once: the vector masks are never cleared.   *)
MappingIsSound == mapped /\ finals = 1 => TranslationsAgree

(* Probing provides the service of BringUpService: what a caller sees as the line *)
(* of switches is the SPI devices below the count.                              *)
Service == INSTANCE BringUpService WITH
    line <- [i \in 1 .. switches_active |-> g_spi_h[i - 1]],
    Length <- SJA1105P_N_SWITCHES,
    started <- switchdev

ProvidesService == Service!Spec
=============================================================================
