---------------------------- MODULE ProbeProofs ----------------------------
(* Proofs about probing, for every number of switches, ports and logical     *)
(* ports, as long as switches are removed in the reverse order.              *)
EXTENDS Probe, FiniteSetTheorems, FunctionTheorems, WellFoundedInduction, TLAPS

Stages == {"idle", "begun", "registered", "reset", "loaded", "mapped", "counted", "active"}

\* A device whose probe has begun, and which is not counted yet.
Underway(d) == pc[d] \in {"begun", "registered", "reset", "loaded", "mapped"}

IndicesTyped ==
    /\ switches_active \in 0 .. SJA1105P_N_SWITCHES
    /\ device_select \in [Devices -> Switches]
    /\ sja1105p_context_arr \in [Switches -> Devices \cup {None}]
    /\ g_spi_h \in [Switches -> Devices \cup {None}]
    /\ configured \subseteq Devices
    /\ callbacks \in BOOLEAN
    /\ pc \in [Devices -> Stages]

\* One device is probed at a time.
OneProbe ==
    \A d, e \in Devices :
        pc[d] \notin {"idle", "active"} /\ pc[e] \notin {"idle", "active"} => d = e

\* A device that is counted has an index below the count, and is found there.
CountedIndex ==
    \A d \in Devices : pc[d] \in {"counted", "active"} =>
        device_select[d] < switches_active /\ g_spi_h[device_select[d]] = d

\* The device that is probed has the next index, and claims it step by step.
NextIndex ==
    \A d \in Devices : Underway(d) =>
        /\ device_select[d] = switches_active /\ switches_active < SJA1105P_N_SWITCHES
        /\ sja1105p_context_arr[switches_active] = d
        /\ pc[d] # "begun" => g_spi_h[switches_active] = d /\ callbacks
        /\ pc[d] \in {"loaded", "mapped"} => d \in configured

\* The inductive invariant of the indices.
IndicesInv ==
    /\ IndicesTyped /\ OneProbe /\ CountedIndex /\ NextIndex /\ IndicesAgree
    /\ switches_active > 0 => callbacks

-----------------------------------------------------------------------------
\* The sizes are numbers, so the indices are.
LEMMA Sizes ==
    /\ SJA1105P_N_SWITCHES \in Nat \ {0} /\ SJA1105P_N_PORTS \in Nat \ {0}
    /\ SJA1105P_N_LOGICAL_PORTS \in Nat \ {0}
    /\ Switches \subseteq Nat /\ Ports \subseteq Nat /\ LogicalPorts \subseteq Nat
    /\ 0 \in Switches /\ 0 \in Ports
<1>1. SJA1105P_N_LOGICAL_PORTS \in 1 .. SJA1105P_N_SWITCHES * SJA1105P_N_PORTS
  BY SizesAssumption
<1>2. SJA1105P_N_SWITCHES * SJA1105P_N_PORTS \in Nat
  BY SizesAssumption
<1>. QED
  BY <1>1, <1>2, SizesAssumption DEF Switches, Ports, LogicalPorts

\* No switch has an index yet.
LEMMA IndicesInitially == Init => IndicesInv
<1>. SUFFICES ASSUME Init PROVE IndicesInv
  OBVIOUS
<1>1. IndicesTyped
  <2>1. 0 \in 0 .. SJA1105P_N_SWITCHES
    BY Sizes
  <2>2. pc \in [Devices -> Stages]
    BY DEF Init, Stages
  <2>. QED
    BY <2>1, <2>2, Sizes DEF Init, IndicesTyped
<1>2. \A d \in Devices : pc[d] = "idle"
  BY DEF Init
<1>3. OneProbe /\ CountedIndex /\ NextIndex
  BY <1>2 DEF OneProbe, CountedIndex, NextIndex, Underway
<1>4. switches_active = 0 /\ \A s \in Switches : ~(s < 0)
  BY Sizes DEF Init
<1>. QED
  BY <1>1, <1>3, <1>4 DEF IndicesInv, IndicesAgree

\* A probe begins with the next index, while no other is going on.
LEMMA BeginIndices ==
    ASSUME IndicesInv, NEW d \in Devices, BeginProbe(d)
    PROVE  IndicesInv'
<1>1. switches_active \in Switches
  BY Sizes DEF IndicesInv, IndicesTyped, BeginProbe, Switches
<1>2. IndicesTyped'
  BY <1>1 DEF IndicesInv, IndicesTyped, BeginProbe, Goto, Stages
<1>3. /\ pc[d] = "idle" /\ pc'[d] = "begun"
      /\ \A e \in Devices \ {d} : pc'[e] = pc[e] /\ pc[e] \in {"idle", "active"}
      /\ device_select'[d] = switches_active
      /\ \A e \in Devices \ {d} : device_select'[e] = device_select[e]
      /\ sja1105p_context_arr'[switches_active] = d
      /\ \A s \in Switches : s < switches_active => sja1105p_context_arr'[s] = sja1105p_context_arr[s]
      /\ UNCHANGED <<switches_active, g_spi_h, callbacks, configured>>
      /\ switches_active < SJA1105P_N_SWITCHES
  BY <1>1, Sizes DEF IndicesInv, IndicesTyped, BeginProbe, Goto, Quiet
<1>4. OneProbe'
  BY <1>3 DEF OneProbe
<1>5. CountedIndex'
  BY <1>3 DEF IndicesInv, CountedIndex
<1>6. NextIndex'
  BY <1>3 DEF NextIndex, Underway
<1>7. IndicesAgree'
  <2>. SUFFICES ASSUME NEW s \in Switches, s < switches_active
                PROVE  /\ callbacks
                       /\ g_spi_h[s] \in configured
                       /\ sja1105p_context_arr'[s] = g_spi_h[s]
                       /\ device_select'[g_spi_h[s]] = s
                       /\ pc'[g_spi_h[s]] \in {"counted", "active"}
    BY <1>3 DEF IndicesAgree
  <2>1. g_spi_h[s] \in Devices /\ g_spi_h[s] # d
    BY <1>3 DEF IndicesInv, IndicesAgree, IndicesTyped
  <2>. QED
    BY <1>3, <2>1 DEF IndicesInv, IndicesAgree
<1>. QED
  BY <1>2, <1>3, <1>4, <1>5, <1>6, <1>7 DEF IndicesInv

\* The steps of the probe of one device: what they leave to the others.
LEMMA AdvanceIndices ==
    ASSUME IndicesInv, NEW d \in Devices, NEW to \in Stages \ {"idle", "begun", "counted", "active"},
           Underway(d), pc' = [pc EXCEPT ![d] = to],
           UNCHANGED <<switches_active, device_select, sja1105p_context_arr>>,
           callbacks', 
           g_spi_h' = [g_spi_h EXCEPT ![switches_active] = d],
           configured' \in {configured \cup {d}, configured \ {d}},
           to \in {"loaded", "mapped"} => d \in configured'
    PROVE  IndicesInv'
<1>1. /\ device_select[d] = switches_active /\ switches_active < SJA1105P_N_SWITCHES
      /\ switches_active \in Switches
      /\ sja1105p_context_arr[switches_active] = d
  BY Sizes DEF IndicesInv, IndicesTyped, NextIndex, Switches
<1>2. IndicesTyped'
  BY <1>1 DEF IndicesInv, IndicesTyped
<1>3. /\ pc'[d] = to /\ to \in {"registered", "reset", "loaded", "mapped"}
      /\ \A e \in Devices \ {d} : pc'[e] = pc[e] /\ pc[e] \in {"idle", "active"}
      /\ g_spi_h'[switches_active] = d
      /\ \A s \in Switches : s < switches_active => g_spi_h'[s] = g_spi_h[s]
      /\ \A e \in Devices \ {d} : e \in configured' <=> e \in configured
  BY <1>1, Sizes DEF IndicesInv, IndicesTyped, OneProbe, Underway, Stages
<1>4. OneProbe'
  BY <1>3 DEF OneProbe
<1>5. CountedIndex'
  <2>. SUFFICES ASSUME NEW e \in Devices, pc'[e] \in {"counted", "active"}
                PROVE  device_select[e] < switches_active /\ g_spi_h'[device_select[e]] = e
    BY DEF CountedIndex
  <2>1. device_select[e] < switches_active /\ g_spi_h[device_select[e]] = e
        /\ device_select[e] \in Switches
    BY <1>3 DEF IndicesInv, CountedIndex, IndicesTyped
  <2>. QED
    BY <1>3, <2>1
<1>6. NextIndex'
  BY <1>1, <1>3 DEF NextIndex, Underway
<1>7. IndicesAgree'
  <2>. SUFFICES ASSUME NEW s \in Switches, s < switches_active
                PROVE  /\ callbacks'
                       /\ g_spi_h'[s] \in configured'
                       /\ sja1105p_context_arr[s] = g_spi_h'[s]
                       /\ device_select[g_spi_h'[s]] = s
                       /\ pc'[g_spi_h'[s]] \in {"counted", "active"}
    BY DEF IndicesAgree
  <2>1. g_spi_h'[s] = g_spi_h[s] /\ g_spi_h[s] \in Devices /\ g_spi_h[s] # d
    BY <1>1, <1>3 DEF IndicesInv, IndicesAgree, IndicesTyped, Underway
  <2>. QED
    BY <1>3, <2>1 DEF IndicesInv, IndicesAgree
<1>. QED
  BY <1>2, <1>4, <1>5, <1>6, <1>7 DEF IndicesInv

\* Registering with SPI, the switch gets the next index there, and the callbacks exist.
LEMMA RegisterIndices ==
    ASSUME IndicesInv, NEW d \in Devices, RegisterSpi(d)
    PROVE  IndicesInv'
<1>1. Underway(d) /\ device_select[d] = switches_active
  BY DEF IndicesInv, NextIndex, Underway, RegisterSpi, Goto
<1>2. callbacks'
  <2>1. switches_active \in Nat
    BY DEF IndicesInv, IndicesTyped
  <2>2. callbacks \/ switches_active = 0
    BY <2>1 DEF IndicesInv
  <2>. QED
    BY <2>2 DEF RegisterSpi
<1>3. configured' \in {configured \cup {d}, configured \ {d}}
  BY DEF RegisterSpi
<1>4. /\ pc' = [pc EXCEPT ![d] = "registered"]
      /\ UNCHANGED <<switches_active, device_select, sja1105p_context_arr>>
      /\ g_spi_h' = [g_spi_h EXCEPT ![switches_active] = d]
  BY <1>1 DEF RegisterSpi, Goto
<1>5. "registered" \in Stages \ {"idle", "begun", "counted", "active"}
  BY DEF Stages
<1>. QED
  BY <1>1, <1>2, <1>3, <1>4, <1>5, AdvanceIndices

\* The further steps change no index, and the configuration of the switch only.
LEMMA PrepareIndices ==
    ASSUME IndicesInv, NEW d \in Devices,
           ResetSwitch(d) \/ LoadConfiguration(d) \/ MapPorts(d)
    PROVE  IndicesInv'
<1>1. /\ Underway(d) /\ device_select[d] = switches_active
      /\ g_spi_h[switches_active] = d /\ callbacks
      /\ g_spi_h \in [Switches -> Devices \cup {None}]
      /\ pc[d] \in {"loaded", "mapped"} => d \in configured
  BY DEF IndicesInv, IndicesTyped, NextIndex, Underway, ResetSwitch, LoadConfiguration, MapPorts, Goto
<1>2. /\ UNCHANGED <<switches_active, device_select, sja1105p_context_arr>>
      /\ callbacks'
      /\ g_spi_h' = [g_spi_h EXCEPT ![switches_active] = d]
  BY <1>1 DEF ResetSwitch, LoadConfiguration, MapPorts
<1>3. CASE ResetSwitch(d)
  <2>1. pc' = [pc EXCEPT ![d] = "reset"] /\ configured' = configured \ {d}
    BY <1>1, <1>3 DEF ResetSwitch, Goto
  <2>2. "reset" \in Stages \ {"idle", "begun", "counted", "active"}
    BY DEF Stages
  <2>. QED
    BY <1>1, <1>2, <2>1, <2>2, AdvanceIndices
<1>4. CASE LoadConfiguration(d)
  <2>1. pc' = [pc EXCEPT ![d] = "loaded"] /\ configured' = configured \cup {d}
    BY <1>1, <1>4 DEF LoadConfiguration, Goto
  <2>2. "loaded" \in Stages \ {"idle", "begun", "counted", "active"} /\ d \in configured'
    BY <2>1 DEF Stages
  <2>. QED
    BY <1>1, <1>2, <2>1, <2>2, AdvanceIndices
<1>5. CASE MapPorts(d)
  <2>1. pc' = [pc EXCEPT ![d] = "mapped"] /\ configured' = configured /\ d \in configured
    BY <1>1, <1>5 DEF MapPorts, Goto
  <2>2. "mapped" \in Stages \ {"idle", "begun", "counted", "active"}
    BY DEF Stages
  <2>3. configured' = configured \cup {d}
    BY <2>1
  <2>. QED
    BY <1>1, <1>2, <2>1, <2>2, <2>3, AdvanceIndices
<1>. QED
  BY <1>3, <1>4, <1>5

\* A probe that fails leaves the indices below the count alone.
LEMMA FailIndices ==
    ASSUME IndicesInv, NEW d \in Devices, FailProbe(d)
    PROVE  IndicesInv'
<1>1. /\ pc' = [pc EXCEPT ![d] = "idle"] /\ Underway(d)
      /\ UNCHANGED <<switches_active, device_select, sja1105p_context_arr, g_spi_h, callbacks, configured>>
  BY DEF FailProbe, Goto, Underway
<1>2. /\ pc'[d] = "idle" /\ \A e \in Devices \ {d} : pc'[e] = pc[e]
      /\ pc' \in [Devices -> Stages]
  BY <1>1 DEF IndicesInv, IndicesTyped, Stages
<1>3. IndicesTyped'
  BY <1>1, <1>2 DEF IndicesInv, IndicesTyped
<1>4. OneProbe' /\ CountedIndex' /\ NextIndex'
  BY <1>1, <1>2 DEF IndicesInv, OneProbe, CountedIndex, NextIndex, Underway
<1>5. IndicesAgree'
  <2>. SUFFICES ASSUME NEW s \in Switches, s < switches_active
                PROVE  /\ callbacks
                       /\ g_spi_h[s] \in configured
                       /\ sja1105p_context_arr[s] = g_spi_h[s]
                       /\ device_select[g_spi_h[s]] = s
                       /\ pc'[g_spi_h[s]] \in {"counted", "active"}
    BY <1>1 DEF IndicesAgree
  <2>1. g_spi_h[s] \in Devices /\ g_spi_h[s] # d
    BY <1>1 DEF IndicesInv, IndicesAgree, IndicesTyped, Underway
  <2>. QED
    BY <1>2, <2>1 DEF IndicesInv, IndicesAgree
<1>. QED
  BY <1>1, <1>3, <1>4, <1>5 DEF IndicesInv

\* Counting the switch adds its index to those below the count.
LEMMA CountIndices ==
    ASSUME IndicesInv, NEW d \in Devices, CountSwitch(d)
    PROVE  IndicesInv'
<1>1. /\ pc[d] = "mapped" /\ pc' = [pc EXCEPT ![d] = "counted"] /\ Underway(d)
      /\ switches_active' = switches_active + 1
      /\ UNCHANGED <<device_select, sja1105p_context_arr, g_spi_h, callbacks, configured>>
  BY DEF CountSwitch, Counted, Goto, Underway
<1>2. /\ pc'[d] = "counted"
      /\ \A e \in Devices \ {d} : pc'[e] = pc[e] /\ pc[e] \in {"idle", "active"}
      /\ pc' \in [Devices -> Stages]
  BY <1>1 DEF IndicesInv, IndicesTyped, OneProbe, Stages
<1>3. /\ device_select[d] = switches_active /\ switches_active < SJA1105P_N_SWITCHES
      /\ sja1105p_context_arr[switches_active] = d /\ g_spi_h[switches_active] = d
      /\ callbacks /\ d \in configured /\ switches_active \in Nat
  BY <1>1 DEF IndicesInv, NextIndex, IndicesTyped
<1>4. IndicesTyped'
  BY <1>1, <1>2, <1>3, Sizes DEF IndicesInv, IndicesTyped
<1>5. OneProbe'
  BY <1>2 DEF OneProbe
<1>6. CountedIndex'
  <2>. SUFFICES ASSUME NEW e \in Devices, pc'[e] \in {"counted", "active"}
                PROVE  device_select[e] < switches_active + 1 /\ g_spi_h[device_select[e]] = e
    BY <1>1 DEF CountedIndex
  <2>1. device_select[e] \in Nat
    BY Sizes DEF IndicesInv, IndicesTyped
  <2>. QED
    BY <1>2, <1>3, <2>1 DEF IndicesInv, CountedIndex
<1>7. NextIndex'
  BY <1>2 DEF NextIndex, Underway
<1>8. IndicesAgree'
  <2>. SUFFICES ASSUME NEW s \in Switches, s < switches_active + 1
                PROVE  /\ callbacks
                       /\ g_spi_h[s] \in configured
                       /\ sja1105p_context_arr[s] = g_spi_h[s]
                       /\ device_select[g_spi_h[s]] = s
                       /\ pc'[g_spi_h[s]] \in {"counted", "active"}
    BY <1>1 DEF IndicesAgree
  <2>0. s \in Nat
    BY Sizes
  <2>1. CASE s < switches_active
    <3>1. g_spi_h[s] \in Devices /\ g_spi_h[s] # d
      BY <1>1, <2>1 DEF IndicesInv, IndicesAgree, IndicesTyped
    <3>. QED
      BY <1>2, <2>1, <3>1 DEF IndicesInv, IndicesAgree
  <2>2. CASE s = switches_active
    BY <1>2, <1>3, <2>2
  <2>. QED
    BY <1>3, <2>0, <2>1, <2>2
<1>. QED
  BY <1>1, <1>3, <1>4, <1>5, <1>6, <1>7, <1>8 DEF IndicesInv

\* The end of a probe changes no index.
LEMMA FinishIndices ==
    ASSUME IndicesInv, NEW d \in Devices, FinishProbe(d)
    PROVE  IndicesInv'
<1>1. /\ pc[d] = "counted" /\ pc' = [pc EXCEPT ![d] = "active"]
      /\ UNCHANGED <<switches_active, device_select, sja1105p_context_arr, g_spi_h, callbacks, configured>>
  BY DEF FinishProbe, Goto
<1>2. /\ pc'[d] = "active" /\ \A e \in Devices \ {d} : pc'[e] = pc[e]
      /\ pc' \in [Devices -> Stages]
  BY <1>1 DEF IndicesInv, IndicesTyped, Stages
<1>3. \A e \in Devices : pc'[e] \in {"counted", "active"} <=> pc[e] \in {"counted", "active"}
  BY <1>1, <1>2
<1>4. IndicesTyped'
  BY <1>1, <1>2 DEF IndicesInv, IndicesTyped
<1>5. OneProbe' /\ CountedIndex' /\ NextIndex'
  BY <1>1, <1>2, <1>3 DEF IndicesInv, OneProbe, CountedIndex, NextIndex, Underway
<1>6. IndicesAgree'
  <2>1. \A s \in Switches : s < switches_active => g_spi_h[s] \in Devices
    BY DEF IndicesInv, IndicesAgree, IndicesTyped
  <2>. QED
    BY <1>1, <1>3, <2>1 DEF IndicesInv, IndicesAgree
<1>. QED
  BY <1>1, <1>4, <1>5, <1>6 DEF IndicesInv

\* Removing the last switch of the line leaves the others their indices.
LEMMA RemoveIndices ==
    ASSUME IndicesInv, InOrder, NEW d \in Devices, Remove(d)
    PROVE  IndicesInv'
<1>1. /\ pc[d] = "active" /\ pc' = [pc EXCEPT ![d] = "idle"]
      /\ switches_active' = switches_active - 1
      /\ device_select[d] = switches_active - 1
      /\ callbacks' = (callbacks /\ switches_active' # 0)
      /\ \A e \in Devices : pc[e] \in {"idle", "active"}
      /\ UNCHANGED <<device_select, sja1105p_context_arr, g_spi_h, configured>>
  BY DEF Remove, Goto, Quiet
<1>2. /\ pc'[d] = "idle"
      /\ \A e \in Devices \ {d} : pc'[e] = pc[e] /\ pc[e] \in {"idle", "active"}
      /\ pc' \in [Devices -> Stages]
  BY <1>1 DEF IndicesInv, IndicesTyped, Stages
<1>3. /\ switches_active \in Nat \ {0} /\ switches_active <= SJA1105P_N_SWITCHES /\ callbacks
      /\ g_spi_h[switches_active - 1] = d
  BY <1>1, Sizes DEF IndicesInv, IndicesTyped, CountedIndex
<1>4. IndicesTyped'
  BY <1>1, <1>2, <1>3, Sizes DEF IndicesInv, IndicesTyped
<1>5. OneProbe' /\ NextIndex'
  BY <1>2 DEF OneProbe, NextIndex, Underway
<1>6. CountedIndex'
  <2>. SUFFICES ASSUME NEW e \in Devices, pc'[e] \in {"counted", "active"}
                PROVE  device_select[e] < switches_active - 1 /\ g_spi_h[device_select[e]] = e
    BY <1>1 DEF CountedIndex
  <2>1. e # d /\ device_select[e] < switches_active /\ g_spi_h[device_select[e]] = e
    BY <1>2 DEF IndicesInv, CountedIndex
  <2>2. device_select[e] \in Nat /\ device_select[e] # switches_active - 1
    BY <1>3, <2>1, Sizes DEF IndicesInv, IndicesTyped
  <2>. QED
    BY <1>3, <2>1, <2>2
<1>7. IndicesAgree'
  <2>. SUFFICES ASSUME NEW s \in Switches, s < switches_active - 1
                PROVE  /\ callbacks'
                       /\ g_spi_h[s] \in configured
                       /\ sja1105p_context_arr[s] = g_spi_h[s]
                       /\ device_select[g_spi_h[s]] = s
                       /\ pc'[g_spi_h[s]] \in {"counted", "active"}
    BY <1>1 DEF IndicesAgree
  <2>1. s \in Nat /\ s < switches_active /\ s # switches_active - 1 /\ switches_active - 1 # 0
    BY <1>3, Sizes
  <2>2. g_spi_h[s] \in Devices /\ g_spi_h[s] # d
    BY <1>1, <2>1 DEF IndicesInv, IndicesAgree, IndicesTyped
  <2>. QED
    BY <1>1, <1>2, <1>3, <2>1, <2>2 DEF IndicesInv, IndicesAgree
<1>8. switches_active' > 0 => callbacks'
  <2>1. switches_active' > 0 => switches_active' # 0
    BY <1>1, <1>3
  <2>. QED
    BY <1>1, <1>3, <2>1, Zenon
<1>. QED
  BY <1>4, <1>5, <1>6, <1>7, <1>8 DEF IndicesInv

\* Every step preserves the invariant of the indices.
LEMMA NextIndices ==
    ASSUME IndicesInv, InOrder, [Next]_vars
    PROVE  IndicesInv'
<1>1. CASE UNCHANGED vars
  BY <1>1 DEF vars, probeVars, IndicesInv, IndicesTyped, OneProbe, CountedIndex, NextIndex,
              IndicesAgree, Underway
<1>2. CASE Next
  BY <1>2, BeginIndices, RegisterIndices, PrepareIndices, FailIndices, CountIndices, FinishIndices,
     RemoveIndices DEF Next
<1>. QED
  BY <1>1, <1>2

-----------------------------------------------------------------------------
(* The mapping of ports *)

\* What the arrays of the mapping say of each other.
Consistent ==
    /\ g_portMapping \in [LogicalPorts -> PhysicalPort]
    /\ \A l \in LogicalPorts :
          g_inversePortMapping[g_portMapping[l].switchId][g_portMapping[l].physicalPort] = l
    /\ \A s \in Switches :
          g_logicalPortVectorMask[s] = {l \in LogicalPorts : g_portMapping[l].switchId = s}

\* The external ports of the line.
ExternalPorts(parameters) == {x \in Switches \X Ports : External(parameters, x[1], x[2])}

\* Arrays that agree make translations that agree.
LEMMA ConsistentTranslates == Consistent => TranslationsAgree
<1>. SUFFICES ASSUME Consistent, NEW P \in SUBSET LogicalPorts
              PROVE  /\ P = UNION {GetPortVectorFromPhysicalPortVector(GetPhysicalPortVector(P, s), s)
                                      : s \in GetSwitchesFromPorts(P)}
                     /\ GetSwitchesFromPorts(P) = {GetPhysicalPort(l).switchId : l \in P}
  BY DEF TranslationsAgree
<1>. DEFINE sw(l) == g_portMapping[l].switchId
            ph(l) == g_portMapping[l].physicalPort
            back(s) == GetPortVectorFromPhysicalPortVector(GetPhysicalPortVector(P, s), s)
<1>1. \A l \in LogicalPorts : sw(l) \in Switches /\ ph(l) \in Ports /\ l # NoPort
  BY Sizes DEF Consistent, PhysicalPort, LogicalPorts, NoPort
<1>2. ASSUME NEW s \in Switches
      PROVE  /\ GetPhysicalPortVector(P, s) = {ph(l) : l \in {k \in P : sw(k) = s}}
             /\ GetPhysicalPortVector(P, s) # {} <=> \E l \in P : sw(l) = s
             /\ back(s) = {l \in P : sw(l) = s}
  <2>1. P \cap g_logicalPortVectorMask[s] = {k \in P : sw(k) = s}
    BY DEF Consistent
  <2>2. GetPhysicalPortVector(P, s) = {ph(l) : l \in {k \in P : sw(k) = s}}
    BY <2>1 DEF GetPhysicalPortVector, GetPhysicalPort
  <2>3. \A l \in {k \in P : sw(k) = s} : GetLogicalPort(s, ph(l)) = l /\ l # NoPort
    BY <1>1 DEF Consistent, GetLogicalPort
  <2>4. back(s) = {l \in P : sw(l) = s}
    <3>. HIDE DEF sw, ph
    <3>. QED
      BY <2>2, <2>3 DEF GetPortVectorFromPhysicalPortVector
  <2>. QED
    BY <2>2, <2>4
<1>3. GetSwitchesFromPorts(P) = {sw(l) : l \in P}
  <2>. HIDE DEF sw, ph
  <2>. QED
    BY <1>1, <1>2 DEF GetSwitchesFromPorts
<1>4. P = UNION {back(s) : s \in GetSwitchesFromPorts(P)}
  <2>1. \A s \in GetSwitchesFromPorts(P) : back(s) = {l \in P : sw(l) = s}
    BY <1>2 DEF GetSwitchesFromPorts
  <2>. HIDE DEF sw, ph, back
  <2>. QED
    BY <1>3, <2>1
<1>. QED
  BY <1>3, <1>4 DEF GetPhysicalPort

\* The external ports that come before one are fewer than there are.
LEMMA PrecedingFewer ==
    ASSUME NEW parameters, NEW x \in ExternalPorts(parameters)
    PROVE  /\ IsFiniteSet(ExternalPorts(parameters))
           /\ Preceding(parameters, x[1], x[2]) \in 0 .. Cardinality(ExternalPorts(parameters)) - 1
<1>. DEFINE E == ExternalPorts(parameters)
            before == {y \in Switches \X Ports :
                          /\ External(parameters, y[1], y[2])
                          /\ y[1] < x[1] \/ (y[1] = x[1] /\ y[2] < x[2])}
<1>1. IsFiniteSet(Switches \X Ports)
  <2>1. IsFiniteSet(Switches) /\ IsFiniteSet(Ports)
    BY Sizes, FS_Interval DEF Switches, Ports
  <2>. QED
    BY <2>1, FS_Product
<1>2. IsFiniteSet(E) /\ E \in SUBSET (Switches \X Ports)
  <2>1. E \in SUBSET (Switches \X Ports)
    BY DEF ExternalPorts
  <2>. QED
    BY <1>1, <2>1, FS_Subset
<1>3. before \in SUBSET (E \ {x})
  <2>1. x[1] \in Nat /\ x[2] \in Nat
    BY Sizes DEF ExternalPorts
  <2>. QED
    BY <2>1 DEF ExternalPorts
<1>4. IsFiniteSet(E \ {x}) /\ Cardinality(E \ {x}) = Cardinality(E) - 1
  <2>. HIDE DEF E
  <2>1. x \in E
    BY DEF E
  <2>. QED
    BY <1>2, <2>1, FS_RemoveElement
<1>5. Cardinality(before) <= Cardinality(E \ {x}) /\ IsFiniteSet(before)
  <2>. HIDE DEF before, E
  <2>. QED
    BY <1>3, <1>4, FS_Subset
<1>6. Cardinality(before) \in Nat /\ Cardinality(E) \in Nat
  BY <1>2, <1>5, FS_CardinalityType
<1>7. Cardinality(before) \in 0 .. Cardinality(E) - 1
  <2>. HIDE DEF before, E
  <2>. QED
    BY <1>4, <1>5, <1>6
<1>. QED
  BY <1>2, <1>7 DEF Preceding

\* Every external port has a number of its own.
LEMMA NumbersDiffer ==
    ASSUME NEW parameters, NEW x \in ExternalPorts(parameters), NEW y \in ExternalPorts(parameters),
           Preceding(parameters, x[1], x[2]) = Preceding(parameters, y[1], y[2])
    PROVE  x = y
<1>. DEFINE E == ExternalPorts(parameters)
            before(z) == {w \in Switches \X Ports :
                          /\ External(parameters, w[1], w[2])
                          /\ w[1] < z[1] \/ (w[1] = z[1] /\ w[2] < z[2])}
            earlier(v, w) == v[1] < w[1] \/ (v[1] = w[1] /\ v[2] < w[2])
<1>1. \A z \in E : z = <<z[1], z[2]>> /\ z[1] \in Nat /\ z[2] \in Nat /\ z \in Switches \X Ports
                  /\ External(parameters, z[1], z[2])
  <2>1. \A z \in Switches \X Ports : z = <<z[1], z[2]>> /\ z[1] \in Switches /\ z[2] \in Ports
    OBVIOUS
  <2>. QED
    BY <2>1, Sizes DEF ExternalPorts
<1>2. \A v, w \in E : v # w => earlier(v, w) \/ earlier(w, v)
  BY <1>1
<1>3. ASSUME NEW v \in E, NEW w \in E, earlier(v, w)
      PROVE  Cardinality(before(v)) # Cardinality(before(w))
  <2>1. before(v) \cup {v} \subseteq before(w) /\ v \notin before(v)
    <3>1. \A u \in Switches \X Ports : u[1] \in Nat /\ u[2] \in Nat
      BY Sizes
    <3>. QED
      BY <1>1, <1>3, <3>1
  <2>2. IsFiniteSet(E) /\ before(v) \in SUBSET E /\ before(w) \in SUBSET E
    BY <1>3, PrecedingFewer DEF ExternalPorts
  <2>. HIDE DEF before, E
  <2>3. IsFiniteSet(before(v)) /\ IsFiniteSet(before(w))
    BY <2>2, FS_Subset
  <2>4. Cardinality(before(v) \cup {v}) = Cardinality(before(v)) + 1
    BY <2>1, <2>3, FS_AddElement
  <2>5. Cardinality(before(v) \cup {v}) <= Cardinality(before(w))
    BY <2>1, <2>3, FS_Subset
  <2>6. Cardinality(before(v)) \in Nat /\ Cardinality(before(w)) \in Nat
    BY <2>3, FS_CardinalityType
  <2>. QED
    BY <2>4, <2>5, <2>6
<1>4. Cardinality(before(x)) = Cardinality(before(y))
  BY DEF Preceding
<1>5. x \in E /\ y \in E
  OBVIOUS
<1>. HIDE DEF before, earlier, E
<1>. QED
  BY <1>2, <1>3, <1>4, <1>5

\* Every number is given, where there are as many external as logical ports.
LEMMA NumbersGiven ==
    ASSUME NEW parameters,
           Cardinality(ExternalPorts(parameters)) = SJA1105P_N_LOGICAL_PORTS
    PROVE  /\ \A x \in ExternalPorts(parameters) : Preceding(parameters, x[1], x[2]) \in LogicalPorts
           /\ \A l \in LogicalPorts : \E x \in ExternalPorts(parameters) :
                 Preceding(parameters, x[1], x[2]) = l
<1>. DEFINE E == ExternalPorts(parameters)
            f == [x \in E |-> Preceding(parameters, x[1], x[2])]
<1>1. \A x \in E : Preceding(parameters, x[1], x[2]) \in LogicalPorts
  BY PrecedingFewer DEF LogicalPorts
<1>2. \A x, y \in E : f[x] = f[y] => x = y
  BY NumbersDiffer
<1>3. f \in [E -> LogicalPorts] /\ \A x \in E : f[x] = Preceding(parameters, x[1], x[2])
  BY <1>1
<1>. HIDE DEF f, E
<1>4. f \in Injection(E, LogicalPorts)
  BY <1>2, <1>3, Fun_IsInj, Zenon
<1>5. IsFiniteSet(LogicalPorts) /\ Cardinality(LogicalPorts) = SJA1105P_N_LOGICAL_PORTS
  <2>1. SJA1105P_N_LOGICAL_PORTS - 1 \in Int /\ 0 \in Int
        /\ (IF 0 > SJA1105P_N_LOGICAL_PORTS - 1 THEN 0 ELSE (SJA1105P_N_LOGICAL_PORTS - 1) - 0 + 1)
              = SJA1105P_N_LOGICAL_PORTS
    BY Sizes
  <2>. QED
    BY <2>1, FS_Interval DEF LogicalPorts
<1>6. f \in Surjection(E, LogicalPorts)
  BY <1>4, <1>5, FS_Injection DEF E
<1>7. \A l \in LogicalPorts : \E x \in E : f[x] = l
  BY <1>6 DEF Surjection
<1>. QED
  BY <1>1, <1>3, <1>7 DEF E

\* The vector masks are empty until the mapping is initialised.
Unmapped == \A s \in Switches : g_logicalPortVectorMask[s] = {}

\* Types of the mapping.
MappingTyped ==
    /\ g_portMapping \in [LogicalPorts -> PhysicalPort]
    /\ g_inversePortMapping \in [Switches -> [Ports -> 0 .. NoPort]]
    /\ g_logicalPortVectorMask \in [Switches -> SUBSET LogicalPorts]

\* Automatic mapping numbers the external ports.
LEMMA AutoMapping ==
    ASSUME NEW parameters, MappingTyped, InitAutoPortMapping(parameters),
           Cardinality(ExternalPorts(parameters)) = SJA1105P_N_LOGICAL_PORTS
    PROVE  /\ MappingTyped'
           /\ Unmapped => Consistent'
<1>. DEFINE number(s, p) == Preceding(parameters, s, p)
            external(s, p) == External(parameters, s, p)
<1>1. /\ g_inversePortMapping' =
             [s \in Switches |-> [p \in Ports |-> IF external(s, p) THEN number(s, p) ELSE NoPort]]
      /\ g_portMapping' =
             [l \in LogicalPorts |->
                 IF \E s \in Switches, p \in Ports : external(s, p) /\ number(s, p) = l
                 THEN CHOOSE x \in PhysicalPort : /\ external(x.switchId, x.physicalPort)
                                                  /\ number(x.switchId, x.physicalPort) = l
                 ELSE g_portMapping[l]]
      /\ g_logicalPortVectorMask' =
             [s \in Switches |-> g_logicalPortVectorMask[s] \cup
                 {number(s, p) : p \in {q \in Ports : external(s, q)}}]
  BY Zenon DEF InitAutoPortMapping
<1>2. \A s \in Switches, p \in Ports : external(s, p) => number(s, p) \in LogicalPorts
  <2>. SUFFICES ASSUME NEW s \in Switches, NEW p \in Ports, external(s, p)
                PROVE  number(s, p) \in LogicalPorts
    OBVIOUS
  <2>1. <<s, p>> \in ExternalPorts(parameters)
    BY DEF ExternalPorts
  <2>. QED
    BY <2>1, NumbersGiven
<1>3. \A s, t \in Switches, p, q \in Ports :
          external(s, p) /\ external(t, q) /\ number(s, p) = number(t, q) => s = t /\ p = q
  <2>. SUFFICES ASSUME NEW s \in Switches, NEW p \in Ports, external(s, p),
                       NEW t \in Switches, NEW q \in Ports, external(t, q),
                       number(s, p) = number(t, q)
                PROVE  s = t /\ p = q
    OBVIOUS
  <2>1. <<s, p>> \in ExternalPorts(parameters) /\ <<t, q>> \in ExternalPorts(parameters)
    BY DEF ExternalPorts
  <2>2. <<s, p>> = <<t, q>>
    BY <2>1, NumbersDiffer
  <2>. QED
    BY <2>2
<1>4. \A l \in LogicalPorts : \E s \in Switches, p \in Ports : external(s, p) /\ number(s, p) = l
  <2>. SUFFICES ASSUME NEW l \in LogicalPorts
                PROVE  \E s \in Switches, p \in Ports : external(s, p) /\ number(s, p) = l
    OBVIOUS
  <2>1. PICK x \in ExternalPorts(parameters) : Preceding(parameters, x[1], x[2]) = l
    BY NumbersGiven
  <2>2. x[1] \in Switches /\ x[2] \in Ports /\ External(parameters, x[1], x[2])
    BY DEF ExternalPorts
  <2>. QED
    BY <2>1, <2>2
<1>. HIDE DEF number, external
<1>5. \A l \in LogicalPorts :
          /\ g_portMapping'[l] \in PhysicalPort
          /\ external(g_portMapping'[l].switchId, g_portMapping'[l].physicalPort)
          /\ number(g_portMapping'[l].switchId, g_portMapping'[l].physicalPort) = l
  <2>. SUFFICES ASSUME NEW l \in LogicalPorts
                PROVE  /\ g_portMapping'[l] \in PhysicalPort
                       /\ external(g_portMapping'[l].switchId, g_portMapping'[l].physicalPort)
                       /\ number(g_portMapping'[l].switchId, g_portMapping'[l].physicalPort) = l
    OBVIOUS
  <2>1. PICK s \in Switches, p \in Ports : external(s, p) /\ number(s, p) = l
    BY <1>4
  <2>2. /\ [physicalPort |-> p, switchId |-> s] \in PhysicalPort
        /\ [physicalPort |-> p, switchId |-> s].switchId = s
        /\ [physicalPort |-> p, switchId |-> s].physicalPort = p
    BY DEF PhysicalPort
  <2>3. \E x \in PhysicalPort : /\ external(x.switchId, x.physicalPort)
                                /\ number(x.switchId, x.physicalPort) = l
    BY <2>1, <2>2, Zenon
  <2>4. g_portMapping'[l] = CHOOSE x \in PhysicalPort : /\ external(x.switchId, x.physicalPort)
                                                        /\ number(x.switchId, x.physicalPort) = l
    BY <1>1, <2>1
  <2>. QED
    BY <2>3, <2>4, Zenon
<1>6. g_portMapping' \in [LogicalPorts -> PhysicalPort]
  BY <1>1, <1>5
<1>7. g_inversePortMapping' \in [Switches -> [Ports -> 0 .. NoPort]]
  <2>1. NoPort \in 0 .. NoPort /\ LogicalPorts \subseteq 0 .. NoPort
    BY Sizes DEF LogicalPorts, NoPort
  <2>. QED
    BY <1>1, <1>2, <2>1
<1>8. g_logicalPortVectorMask' \in [Switches -> SUBSET LogicalPorts]
  BY <1>1, <1>2 DEF MappingTyped
<1>9. ASSUME Unmapped PROVE Consistent'
  <2>1. \A l \in LogicalPorts :
          g_inversePortMapping'[g_portMapping'[l].switchId][g_portMapping'[l].physicalPort] = l
    <3>. SUFFICES ASSUME NEW l \in LogicalPorts
                  PROVE  g_inversePortMapping'[g_portMapping'[l].switchId][g_portMapping'[l].physicalPort] = l
      OBVIOUS
    <3>1. g_portMapping'[l].switchId \in Switches /\ g_portMapping'[l].physicalPort \in Ports
      BY <1>5 DEF PhysicalPort
    <3>2. \A s \in Switches, p \in Ports : external(s, p) => g_inversePortMapping'[s][p] = number(s, p)
      BY <1>1
    <3>. QED
      BY <1>5, <3>1, <3>2
  <2>2. ASSUME NEW s \in Switches
        PROVE  g_logicalPortVectorMask'[s] = {l \in LogicalPorts : g_portMapping'[l].switchId = s}
    <3>1. g_logicalPortVectorMask'[s] = {number(s, p) : p \in {q \in Ports : external(s, q)}}
      BY <1>1, <1>9 DEF Unmapped
    <3>2. ASSUME NEW p \in Ports, external(s, p)
          PROVE  number(s, p) \in LogicalPorts /\ g_portMapping'[number(s, p)].switchId = s
      <4>1. number(s, p) \in LogicalPorts
        BY <1>2, <3>2
      <4>2. /\ g_portMapping'[number(s, p)].switchId \in Switches
            /\ g_portMapping'[number(s, p)].physicalPort \in Ports
        BY <1>5, <4>1 DEF PhysicalPort
      <4>. QED
        BY <1>3, <1>5, <3>2, <4>1, <4>2
    <3>3. ASSUME NEW l \in LogicalPorts, g_portMapping'[l].switchId = s
          PROVE  \E p \in Ports : external(s, p) /\ number(s, p) = l
      <4>1. g_portMapping'[l].physicalPort \in Ports
        BY <1>5 DEF PhysicalPort
      <4>. QED
        BY <1>5, <3>3, <4>1
    <3>. QED
      BY <3>1, <3>2, <3>3
  <2>. QED
    BY <1>6, <2>1, <2>2 DEF Consistent
<1>. QED
  BY <1>6, <1>7, <1>8, <1>9 DEF MappingTyped

\* Every set of ports that has an element has a greatest one.
LEMMA GreatestPort ==
    ASSUME NEW n \in Nat, NEW S \in SUBSET (0 .. n - 1), S # {}
    PROVE  Max(S) \in S /\ \A l \in S : Max(S) >= l
<1>. DEFINE below == {n - l : l \in S}
            Less == {ss \in Nat \X Nat : ss[1] < ss[2]}
<1>1. \A l \in S : l \in Nat /\ (n - l) \in Nat
  OBVIOUS
<1>2. below \in SUBSET Nat /\ below # {}
  <2>1. below \in SUBSET Nat
    BY <1>1, Zenon
  <2>. QED
    BY <2>1
<1>3. IsWellFoundedOn(Less, Nat)
  BY NatLessThanWellFounded DEF OpToRel
<1>4. PICK z \in below : \A y \in below : ~(<<y, z>> \in Less)
  <2>. HIDE DEF below, Less
  <2>. QED
    BY <1>2, <1>3, WFMin
<1>5. PICK x \in S : z = n - x
  OBVIOUS
<1>6. ASSUME NEW l \in S PROVE x >= l
  <2>1. (n - l) \in below /\ (n - l) \in Nat /\ (n - x) \in Nat /\ l \in Nat /\ x \in Nat /\ n \in Nat
    BY <1>1
  <2>2. ~((n - l) < (n - x))
    <3>1. <<n - l, n - x>> \in Nat \X Nat /\ <<n - l, n - x>>[1] = n - l /\ <<n - l, n - x>>[2] = n - x
      BY <2>1
    <3>2. ~(<<n - l, n - x>> \in Less)
      BY <1>4, <1>5, <2>1
    <3>. QED
      BY <3>1, <3>2
  <2>. QED
    BY <2>1, <2>2
<1>7. \E y \in S : \A l \in S : y >= l
  BY <1>6
<1>. QED
  BY <1>7, Zenon DEF Max

\* Manual mapping stores what it accepts.
LEMMA ManualMapping ==
    ASSUME NEW parameters, NEW m \in [LogicalPorts -> PhysicalPort], MappingTyped,
           InitManualPortMapping(parameters, m)
    PROVE  /\ MappingTyped'
           /\ /\ Unmapped /\ Accepted(parameters, m) = LogicalPorts
              /\ \A k, l \in LogicalPorts : m[k] = m[l] => k = l
              => Consistent'
<1>. DEFINE stored == Accepted(parameters, m)
            of(s, p) == {l \in stored : m[l] = [physicalPort |-> p, switchId |-> s]}
<1>1. /\ g_portMapping' = [l \in LogicalPorts |-> IF l \in stored THEN m[l] ELSE g_portMapping[l]]
      /\ g_inversePortMapping' = [s \in Switches |-> [p \in Ports |->
             IF of(s, p) = {} THEN NoPort ELSE Max(of(s, p))]]
      /\ g_logicalPortVectorMask' = [s \in Switches |-> g_logicalPortVectorMask[s] \cup
             {l \in stored : m[l].switchId = s}]
  BY Zenon DEF InitManualPortMapping
<1>2. stored \in SUBSET LogicalPorts
  BY DEF Accepted
<1>3. \A s \in Switches, p \in Ports : of(s, p) \in SUBSET LogicalPorts
  BY <1>2
<1>. HIDE DEF stored
<1>4. g_portMapping' \in [LogicalPorts -> PhysicalPort]
  BY <1>1 DEF MappingTyped
<1>5. g_inversePortMapping' \in [Switches -> [Ports -> 0 .. NoPort]]
  <2>1. NoPort \in 0 .. NoPort /\ LogicalPorts \subseteq 0 .. NoPort
    BY Sizes DEF LogicalPorts, NoPort
  <2>2. \A s \in Switches, p \in Ports : of(s, p) # {} => Max(of(s, p)) \in 0 .. NoPort
    <3>. HIDE DEF of
    <3>. QED
      BY <1>3, <2>1, GreatestPort, Sizes DEF LogicalPorts
  <2>. HIDE DEF of
  <2>. QED
    BY <1>1, <2>1, <2>2
<1>6. g_logicalPortVectorMask' \in [Switches -> SUBSET LogicalPorts]
  BY <1>1, <1>2 DEF MappingTyped
<1>7. ASSUME Unmapped, stored = LogicalPorts, \A k, l \in LogicalPorts : m[k] = m[l] => k = l
      PROVE  Consistent'
  <2>1. g_portMapping' = m
    BY <1>1, <1>7
  <2>2. \A l \in LogicalPorts : /\ m[l].switchId \in Switches /\ m[l].physicalPort \in Ports
                                /\ m[l] = [physicalPort |-> m[l].physicalPort, switchId |-> m[l].switchId]
    BY DEF PhysicalPort
  <2>3. \A l \in LogicalPorts : of(m[l].switchId, m[l].physicalPort) = {l}
    BY <1>7, <2>2
  <2>4. ASSUME NEW l \in LogicalPorts
        PROVE  g_inversePortMapping'[m[l].switchId][m[l].physicalPort] = l
    <3>1. g_inversePortMapping'[m[l].switchId][m[l].physicalPort]
             = Max(of(m[l].switchId, m[l].physicalPort))
      BY <1>1, <2>2, <2>3
    <3>2. Max({l}) = l
      <4>1. {l} \in SUBSET (0 .. SJA1105P_N_LOGICAL_PORTS - 1) /\ {l} # {}
        BY DEF LogicalPorts
      <4>2. Max({l}) \in {l}
        BY <4>1, GreatestPort, Sizes
      <4>. QED
        BY <4>2
    <3>. QED
      BY <2>3, <3>1, <3>2
  <2>5. \A s \in Switches :
           g_logicalPortVectorMask'[s] = {l \in LogicalPorts : m[l].switchId = s}
    BY <1>1, <1>7 DEF Unmapped
  <2>. QED
    BY <2>1, <2>4, <2>5 DEF Consistent
<1>. QED
  BY <1>4, <1>5, <1>6, <1>7 DEF MappingTyped, stored

-----------------------------------------------------------------------------
(* The mapping of the line *)

\* A device whose ports have been mapped.
Mapped(d) == pc[d] \in {"mapped", "counted", "active"}

\* The device tree gives a number to every port.
NumbersAll == \A d \in Devices, p \in Ports : deviceTree[d][p] # Missing

\* A port without a number makes the mapping automatic.
GapsNoticed ==
    \A d \in Devices, p \in Ports : Mapped(d) /\ deviceTree[d][p] = Missing => do_auto_mapping

\* The numbers of the switches mapped have been collected, with their indices.
NumbersCollected ==
    \A d \in Devices, p \in Ports : Mapped(d) /\ deviceTree[d][p] \in LogicalPorts =>
        portMapping[deviceTree[d][p]] = [physicalPort |-> p, switchId |-> device_select[d]]

\* The inductive invariant of the mapping.
MappingInv ==
    /\ MappingTyped /\ switchdev \in BOOLEAN
    /\ deviceTree \in DeviceTrees
    /\ portMapping \in [LogicalPorts -> PhysicalPort]
    /\ finals \in Nat /\ (finals = 0 => Unmapped)
    /\ GapsNoticed /\ (NumbersAll => NumbersCollected)
    /\ MappingIsSound

\* Nothing is mapped initially.
LEMMA MappingInitially == Init => MappingInv
<1>. SUFFICES ASSUME Init PROVE MappingInv
  OBVIOUS
<1>1. MappingTyped
  <2>1. 0 \in 0 .. NoPort /\ [physicalPort |-> 0, switchId |-> 0] \in PhysicalPort
    BY Sizes DEF NoPort, PhysicalPort
  <2>. QED
    BY <2>1, Sizes DEF Init, MappingInit, MappingTyped
<1>2. portMapping \in [LogicalPorts -> PhysicalPort]
  BY Sizes DEF Init, PhysicalPort
<1>3. \A d \in Devices : ~Mapped(d)
  BY DEF Init, Mapped
<1>4. Unmapped
  BY DEF Init, MappingInit, Unmapped
<1>5. ~mapped /\ finals = 0 /\ switchdev = FALSE /\ deviceTree \in DeviceTrees
  BY DEF Init
<1>. QED
  BY <1>1, <1>2, <1>3, <1>4, <1>5 DEF MappingInv, MappingIsSound, GapsNoticed, NumbersCollected

\* Most steps map nothing.
LEMMA OtherMapping ==
    ASSUME MappingInv,
           UNCHANGED <<mappingVars, switchdev, deviceTree, portMapping, finals, mapped, do_auto_mapping>>,
           \A d \in Devices : Mapped(d)' => Mapped(d) /\ device_select'[d] = device_select[d]
    PROVE  MappingInv'
<1>1. MappingTyped' /\ (Unmapped' <=> Unmapped) /\ (TranslationsAgree' <=> TranslationsAgree)
  BY DEF mappingVars, MappingInv, MappingTyped, Unmapped, TranslationsAgree, GetSwitchesFromPorts,
         GetPhysicalPortVector, GetPortVectorFromPhysicalPortVector, GetPhysicalPort, GetLogicalPort
<1>2. MappingIsSound'
  BY <1>1 DEF MappingInv, MappingIsSound
<1>3. NumbersAll' <=> NumbersAll
  BY DEF NumbersAll
<1>4. (GapsNoticed => GapsNoticed') /\ (NumbersCollected => NumbersCollected')
  BY DEF GapsNoticed, NumbersCollected
<1>. QED
  BY <1>1, <1>2, <1>3, <1>4 DEF MappingInv

\* Mapping the ports of a switch collects their numbers, with the index of the switch.
LEMMA MapPortsMapping ==
    ASSUME TreesNumberPorts, IndicesInv, MappingInv, NEW d \in Devices, MapPorts(d)
    PROVE  MappingInv'
<1>. DEFINE ports(l) == {p \in Numbered(d) : deviceTree[d][p] = l}
<1>1. /\ UNCHANGED <<mappingVars, switchdev, deviceTree, finals, mapped, device_select>>
      /\ do_auto_mapping' = (do_auto_mapping \/ \E p \in Ports : deviceTree[d][p] = Missing)
      /\ portMapping' = [l \in LogicalPorts |->
             IF ports(l) = {} THEN portMapping[l]
             ELSE [physicalPort |-> Max(ports(l)), switchId |-> device_select[d]]]
      /\ pc' = [pc EXCEPT ![d] = "mapped"]
  BY Zenon DEF MapPorts, Goto
<1>2. /\ MappingTyped' /\ (Unmapped' <=> Unmapped) /\ (TranslationsAgree' <=> TranslationsAgree)
      /\ (NumbersAll' <=> NumbersAll)
  BY <1>1 DEF mappingVars, MappingInv, MappingTyped, Unmapped, TranslationsAgree, GetSwitchesFromPorts,
     GetPhysicalPortVector, GetPortVectorFromPhysicalPortVector, GetPhysicalPort, GetLogicalPort, NumbersAll
<1>3. MappingIsSound'
  BY <1>1, <1>2 DEF MappingInv, MappingIsSound
<1>4. /\ Mapped(d)' /\ \A e \in Devices \ {d} : Mapped(e)' <=> Mapped(e)
      /\ device_select[d] \in Switches
  BY <1>1 DEF IndicesInv, IndicesTyped, Mapped
<1>5. \A l \in LogicalPorts : ports(l) \in SUBSET Ports
                              /\ (ports(l) # {} => Max(ports(l)) \in ports(l))
  <2>1. \A l \in LogicalPorts : ports(l) \in SUBSET Ports
    BY DEF Numbered
  <2>. HIDE DEF ports
  <2>. QED
    BY <2>1, GreatestPort, Sizes DEF Ports
<1>6. portMapping' \in [LogicalPorts -> PhysicalPort]
  <2>. HIDE DEF ports
  <2>. QED
    BY <1>1, <1>4, <1>5 DEF MappingInv, PhysicalPort
<1>7. \A e \in Devices, p \in Ports : Mapped(e)' /\ deviceTree[e][p] = Missing => do_auto_mapping'
  <2>. SUFFICES ASSUME NEW e \in Devices, NEW p \in Ports, Mapped(e)', deviceTree[e][p] = Missing
                PROVE  do_auto_mapping \/ \E q \in Ports : deviceTree[d][q] = Missing
    BY <1>1
  <2>1. CASE e = d
    BY <2>1
  <2>2. CASE e # d
    BY <1>4, <2>2 DEF MappingInv, GapsNoticed
  <2>. QED
    BY <2>1, <2>2
<1>8. ASSUME NumbersAll, NEW e \in Devices, NEW p \in Ports, Mapped(e)', deviceTree[e][p] \in LogicalPorts
      PROVE  portMapping'[deviceTree[e][p]] = [physicalPort |-> p, switchId |-> device_select[e]]
  <2>1. \A f, g \in Devices, q, r \in Ports :
           deviceTree[f][q] = deviceTree[g][r] /\ deviceTree[f][q] \in LogicalPorts => f = g /\ q = r
    <3>1. deviceTree \in DeviceTrees
      BY DEF MappingInv
    <3>2. ~\E f \in Devices, q \in Ports : deviceTree[f][q] = Missing
      BY <1>8 DEF NumbersAll
    <3>. QED
      BY <3>1, <3>2 DEF TreesNumberPorts
  <2>2. CASE e = d
    <3>1. p \in Numbered(d)
      <4>1. \A q \in 0 .. p : q \in Ports
        BY Sizes DEF Ports
      <4>. QED
        BY <1>8, <2>2, <4>1 DEF Numbered, NumbersAll
    <3>2. ports(deviceTree[d][p]) = {p}
      BY <1>8, <2>1, <2>2, <3>1 DEF Numbered
    <3>3. Max(ports(deviceTree[d][p])) = p
      BY <1>5, <1>8, <2>2, <3>2
    <3>. HIDE DEF ports
    <3>. QED
      BY <1>1, <1>8, <2>2, <3>2, <3>3
  <2>3. CASE e # d
    <3>1. ports(deviceTree[e][p]) = {}
      BY <1>8, <2>1, <2>3 DEF Numbered
    <3>2. portMapping[deviceTree[e][p]] = [physicalPort |-> p, switchId |-> device_select[e]]
      BY <1>4, <1>8, <2>3 DEF MappingInv, NumbersCollected
    <3>. HIDE DEF ports
    <3>. QED
      BY <1>1, <1>8, <3>1, <3>2
  <2>. QED
    BY <2>2, <2>3
<1>9. GapsNoticed' /\ (NumbersAll' => NumbersCollected')
  <2>1. deviceTree' = deviceTree /\ device_select' = device_select /\ (NumbersAll' <=> NumbersAll)
    BY <1>1, <1>2
  <2>2. GapsNoticed'
    BY <1>7, <2>1 DEF GapsNoticed
  <2>3. NumbersAll' => NumbersCollected'
    BY <1>8, <2>1 DEF NumbersCollected
  <2>. QED
    BY <2>2, <2>3
<1>. QED
  BY <1>1, <1>2, <1>3, <1>6, <1>9 DEF MappingInv

\* When the count is complete, every device has an index, and is configured.
LEMMA LineComplete ==
    ASSUME IndicesInv, switches_active = SJA1105P_N_SWITCHES
    PROVE  /\ g_spi_h \in [Switches -> Devices]
           /\ \A s, t \in Switches : g_spi_h[s] = g_spi_h[t] => s = t
           /\ \A s \in Switches : g_spi_h[s] \in configured
           /\ \A d \in Devices : Mapped(d) /\ g_spi_h[device_select[d]] = d
<1>1. \A s \in Switches : s < switches_active
  BY Sizes DEF Switches
<1>2. \A s \in Switches : /\ g_spi_h[s] \in configured /\ g_spi_h[s] \in Devices
                          /\ device_select[g_spi_h[s]] = s
                          /\ pc[g_spi_h[s]] \in {"counted", "active"}
  BY <1>1 DEF IndicesInv, IndicesAgree, IndicesTyped
<1>3. g_spi_h \in [Switches -> Devices]
  BY <1>2 DEF IndicesInv, IndicesTyped
<1>4. \A s, t \in Switches : g_spi_h[s] = g_spi_h[t] => s = t
  BY <1>2
<1>5. g_spi_h \in Injection(Switches, Devices)
  BY <1>3, <1>4, Fun_IsInj, Zenon
<1>6. Cardinality(Switches) = SJA1105P_N_SWITCHES
  <2>1. SJA1105P_N_SWITCHES - 1 \in Int /\ 0 \in Int
        /\ (IF 0 > SJA1105P_N_SWITCHES - 1 THEN 0 ELSE (SJA1105P_N_SWITCHES - 1) - 0 + 1)
              = SJA1105P_N_SWITCHES
    BY Sizes
  <2>. QED
    BY <2>1, FS_Interval DEF Switches
<1>7. g_spi_h \in Surjection(Switches, Devices)
  <2>1. IsFiniteSet(Devices) /\ Cardinality(Devices) <= SJA1105P_N_SWITCHES
    BY DevicesAssumption
  <2>2. Cardinality(Switches) <= Cardinality(Devices)
    BY <1>5, <2>1, FS_Injection
  <2>3. Cardinality(Devices) \in Nat
    BY <2>1, FS_CardinalityType
  <2>4. Cardinality(Switches) = Cardinality(Devices)
    BY <1>6, <2>1, <2>2, <2>3, Sizes
  <2>. QED
    BY <1>5, <2>1, <2>4, FS_Injection
<1>8. \A d \in Devices : \E s \in Switches : g_spi_h[s] = d
  BY <1>7 DEF Surjection
<1>9. \A d \in Devices : Mapped(d) /\ g_spi_h[device_select[d]] = d
  BY <1>2, <1>8 DEF Mapped
<1>. QED
  BY <1>2, <1>3, <1>4, <1>9

\* The mapping of a complete line is sound.
LEMMA FinishMapping ==
    ASSUME LineFits, TreesNumberPorts, IndicesInv, MappingInv, NEW d \in Devices, FinishProbe(d)
    PROVE  MappingInv'
<1>1. /\ UNCHANGED <<device_select, g_spi_h, configured, portMapping, do_auto_mapping, deviceTree>>
      /\ pc[d] = "counted" /\ pc' = [pc EXCEPT ![d] = "active"]
  BY DEF FinishProbe, Goto
<1>2. \A e \in Devices : Mapped(e)' <=> Mapped(e)
  BY <1>1 DEF IndicesInv, IndicesTyped, Mapped
<1>3. CASE ~Complete(switches_active)
  <2>1. UNCHANGED <<mappingVars, mapped, switchdev, finals>>
    BY <1>3 DEF FinishProbe
  <2>. QED
    BY <1>1, <1>2, <2>1, OtherMapping
<1>4. CASE Complete(switches_active)
  <2>. DEFINE parameters == SynchSwitchConfiguration
  <2>0. ProbeFinal /\ switches_active = SJA1105P_N_SWITCHES
    BY <1>4 DEF FinishProbe, Complete
  <2>1. /\ g_spi_h \in [Switches -> Devices]
        /\ \A s, t \in Switches : g_spi_h[s] = g_spi_h[t] => s = t
        /\ \A s \in Switches : g_spi_h[s] \in configured
        /\ \A e \in Devices : Mapped(e) /\ g_spi_h[device_select[e]] = e
    BY <2>0, LineComplete
  <2>2. parameters = [s \in Switches |-> Firmware[g_spi_h[s]]]
    BY <2>1 DEF SynchSwitchConfiguration
  <2>3. Cardinality(ExternalPorts(parameters)) = SJA1105P_N_LOGICAL_PORTS
    <3>1. Cardinality({x \in Switches \X Ports :
                          External([s \in Switches |-> Firmware[g_spi_h[s]]], x[1], x[2])})
             = SJA1105P_N_LOGICAL_PORTS
      BY <2>1 DEF LineFits
    <3>. QED
      BY <2>2, <3>1 DEF ExternalPorts
  <2>. HIDE DEF parameters
  <2>4. /\ IF do_auto_mapping
           THEN InitAutoPortMapping(parameters) /\ mapped' = TRUE
           ELSE /\ InitManualPortMapping(parameters, portMapping)
                /\ mapped' = (Accepted(parameters, portMapping) = LogicalPorts)
        /\ \E portsConfigured \in BOOLEAN : switchdev' = (switchdev \/ portsConfigured)
        /\ finals' = finals + 1
    BY <2>0, Zenon DEF ProbeFinal, parameters
  <2>5. switchdev' \in BOOLEAN
    BY <2>4
  <2>6. /\ MappingTyped'
        /\ Unmapped /\ mapped' => Consistent'
    <3>1. MappingTyped /\ portMapping \in [LogicalPorts -> PhysicalPort]
      BY DEF MappingInv
    <3>2. CASE do_auto_mapping
      BY <2>3, <2>4, <3>1, <3>2, AutoMapping
    <3>3. CASE ~do_auto_mapping
      <4>1. NumbersAll
        BY <2>1, <3>3 DEF MappingInv, NumbersAll, GapsNoticed
      <4>2. /\ \A l \in LogicalPorts : \E e \in Devices, p \in Ports : deviceTree[e][p] = l
            /\ deviceTree \in DeviceTrees
        BY <4>1 DEF TreesNumberPorts, MappingInv, NumbersAll
      <4>3. ASSUME NEW k \in LogicalPorts, NEW l \in LogicalPorts, portMapping[k] = portMapping[l]
            PROVE  k = l
        <5>1. PICK e \in Devices, p \in Ports : deviceTree[e][p] = k
          BY <4>2
        <5>2. PICK f \in Devices, q \in Ports : deviceTree[f][q] = l
          BY <4>2
        <5>3. /\ portMapping[k] = [physicalPort |-> p, switchId |-> device_select[e]]
              /\ portMapping[l] = [physicalPort |-> q, switchId |-> device_select[f]]
          BY <2>1, <4>1, <5>1, <5>2 DEF MappingInv, NumbersCollected
        <5>4. p = q /\ device_select[e] = device_select[f]
          <6>1. /\ portMapping[k].physicalPort = p /\ portMapping[l].physicalPort = q
                /\ portMapping[k].switchId = device_select[e]
                /\ portMapping[l].switchId = device_select[f]
            BY <5>3
          <6>. QED
            BY <4>3, <6>1
        <5>5. e = f
          BY <2>1, <5>4
        <5>. QED
          BY <5>1, <5>2, <5>4, <5>5
      <4>4. InitManualPortMapping(parameters, portMapping)
            /\ (mapped' <=> Accepted(parameters, portMapping) = LogicalPorts)
        BY <2>4, <3>3
      <4>. QED
        BY <3>1, <4>3, <4>4, ManualMapping
    <3>. QED
      BY <3>2, <3>3
  <2>7. MappingIsSound'
    <3>1. Consistent' => TranslationsAgree'
      BY ConsistentTranslates, PTL
    <3>2. finals' = 1 => finals = 0
      BY <2>4 DEF MappingInv
    <3>. QED
      BY <2>6, <3>1, <3>2 DEF MappingIsSound, MappingInv
  <2>8. finals' \in Nat /\ finals' # 0
    BY <2>4 DEF MappingInv
  <2>9. NumbersAll' <=> NumbersAll
    BY <1>1 DEF NumbersAll
  <2>10. (GapsNoticed => GapsNoticed') /\ (NumbersCollected => NumbersCollected')
    BY <1>1, <1>2 DEF GapsNoticed, NumbersCollected
  <2>. QED
    BY <1>1, <2>5, <2>6, <2>7, <2>8, <2>9, <2>10 DEF MappingInv
<1>. QED
  BY <1>3, <1>4

\* Every step preserves the invariant of the mapping.
LEMMA NextMapping ==
    ASSUME LineFits, TreesNumberPorts, IndicesInv, MappingInv, [Next]_vars
    PROVE  MappingInv'
<1>1. CASE UNCHANGED vars
  BY <1>1, OtherMapping DEF vars, probeVars, Mapped
<1>2. ASSUME NEW d \in Devices,
             \/ BeginProbe(d) \/ RegisterSpi(d) \/ ResetSwitch(d) \/ LoadConfiguration(d)
             \/ FailProbe(d) \/ CountSwitch(d) \/ Remove(d)
      PROVE  MappingInv'
  <2>1. UNCHANGED <<mappingVars, switchdev, deviceTree, portMapping, finals, mapped, do_auto_mapping>>
    BY <1>2 DEF BeginProbe, RegisterSpi, ResetSwitch, LoadConfiguration, FailProbe, CountSwitch, Remove
  <2>2. \/ /\ pc' = [pc EXCEPT ![d] = "begun"]
           /\ device_select' = [device_select EXCEPT ![d] = switches_active]
        \/ /\ \E to \in {"registered", "reset", "loaded", "idle"} : pc' = [pc EXCEPT ![d] = to]
           /\ device_select' = device_select
        \/ pc[d] = "mapped" /\ pc' = [pc EXCEPT ![d] = "counted"] /\ device_select' = device_select
    BY <1>2 DEF BeginProbe, RegisterSpi, ResetSwitch, LoadConfiguration, FailProbe, CountSwitch, Remove, Goto
  <2>3. \A e \in Devices : Mapped(e)' => Mapped(e) /\ device_select'[e] = device_select[e]
    BY <2>2 DEF Mapped, IndicesInv, IndicesTyped
  <2>. QED
    BY <2>1, <2>3, OtherMapping
<1>. QED
  BY <1>1, <1>2, MapPortsMapping, FinishMapping DEF Next

-----------------------------------------------------------------------------
(* Theorems *)

\* As long as switches are removed in the reverse order, each index below the
\* count belongs to one configured switch, whichever probes fail.
THEOREM IndicesAreUnique == InOrder => (Spec => []IndicesAgree)
<1>. SUFFICES ASSUME InOrder PROVE Spec => []IndicesAgree
  OBVIOUS
<1>1. IndicesInv /\ [Next]_vars => IndicesInv'
  BY NextIndices
<1>2. IndicesInv => IndicesAgree
  BY DEF IndicesInv
<1>. QED
  BY <1>1, <1>2, IndicesInitially, PTL DEF Spec

\* The invariants of the indices and of the mapping.
LEMMA ProbeInvariant == InOrder /\ LineFits /\ TreesNumberPorts => (Spec => [](IndicesInv /\ MappingInv))
<1>. SUFFICES ASSUME InOrder, LineFits, TreesNumberPorts PROVE Spec => [](IndicesInv /\ MappingInv)
  OBVIOUS
<1>1. IndicesInv /\ MappingInv /\ [Next]_vars => IndicesInv' /\ MappingInv'
  BY NextIndices, NextMapping
<1>. QED
  BY <1>1, IndicesInitially, MappingInitially, PTL DEF Spec

\* For every line that fits the number of logical ports, the arrays of the driver
\* hold what they are declared for.
THEOREM ProbeTypeCorrect == InOrder /\ LineFits /\ TreesNumberPorts => (Spec => []TypeOK)
<1>1. IndicesInv /\ MappingInv => TypeOK
  BY DEF IndicesInv, IndicesTyped, MappingInv, MappingTyped, TypeOK
<1>. QED
  BY <1>1, ProbeInvariant, PTL

\* For every line that fits the number of logical ports and every device tree that
\* numbers each port once or leaves a gap, the translations of ports agree.
THEOREM MappingAgrees == InOrder /\ LineFits /\ TreesNumberPorts => (Spec => []MappingIsSound)
<1>1. MappingInv => MappingIsSound
  BY DEF MappingInv
<1>. QED
  BY <1>1, ProbeInvariant, PTL

-----------------------------------------------------------------------------
(* The line of switches *)

\* What a caller sees as the line.
Line == [i \in 1 .. switches_active |-> g_spi_h[i - 1]]

\* The line is a sequence of the switches counted.
LEMMA LineOf ==
    ASSUME IndicesInv
    PROVE  /\ Line \in Seq(Devices) /\ Len(Line) = switches_active
           /\ \A i \in 1 .. switches_active : Line[i] = g_spi_h[i - 1] /\ (i - 1) \in Switches
           /\ Service!ToSet(Line) = {g_spi_h[s] : s \in {t \in Switches : t < switches_active}}
<1>1. switches_active \in Nat /\ switches_active <= SJA1105P_N_SWITCHES
  BY Sizes DEF IndicesInv, IndicesTyped
<1>2. \A i \in 1 .. switches_active : (i - 1) \in Switches /\ (i - 1) < switches_active
  BY <1>1, Sizes DEF Switches
<1>3. \A s \in Switches : s < switches_active => g_spi_h[s] \in Devices
  BY DEF IndicesInv, IndicesTyped, IndicesAgree
<1>4. Line \in [1 .. switches_active -> Devices] /\ DOMAIN Line = 1 .. switches_active
  BY <1>2, <1>3 DEF Line
<1>5. Line \in Seq(Devices) /\ Len(Line) = switches_active
  BY <1>1, <1>4
<1>6. Service!ToSet(Line) = {Line[i] : i \in 1 .. switches_active}
  BY <1>4, <1>5 DEF Service!ToSet
<1>7. \A s \in Switches : s < switches_active => (s + 1) \in 1 .. switches_active /\ (s + 1) - 1 = s
  BY <1>1, Sizes
<1>8. \A i \in 1 .. switches_active : Line[i] = g_spi_h[i - 1]
  BY DEF Line
<1>9. {Line[i] : i \in 1 .. switches_active} = {g_spi_h[s] : s \in {t \in Switches : t < switches_active}}
  BY <1>2, <1>7, <1>8
<1>. QED
  BY <1>2, <1>5, <1>6, <1>8, <1>9

\* A device that is not counted is not in the line.
LEMMA NotInLine ==
    ASSUME IndicesInv, NEW d \in Devices, pc[d] \notin {"counted", "active"}
    PROVE  d \notin Service!ToSet(Line)
<1>1. \A s \in Switches : s < switches_active => g_spi_h[s] # d
  BY DEF IndicesInv, IndicesAgree
<1>. QED
  BY <1>1, LineOf

\* A line does not change with what is above the count.
LEMMA SameLine ==
    ASSUME switches_active' = switches_active,
           \A i \in 1 .. switches_active : g_spi_h'[i - 1] = g_spi_h[i - 1]
    PROVE  Line' = Line
BY DEF Line

\* The steps of a probe before its end, as steps of the service.
LEMMA ProbeServes ==
    ASSUME IndicesInv, NEW d \in Devices,
           \/ BeginProbe(d) \/ RegisterSpi(d) \/ ResetSwitch(d) \/ LoadConfiguration(d)
           \/ FailProbe(d) \/ MapPorts(d)
    PROVE  [Service!Next]_<<Line, configured, switchdev>>
<1>1. switches_active' = switches_active /\ switchdev' = switchdev
  BY DEF BeginProbe, RegisterSpi, ResetSwitch, LoadConfiguration, FailProbe, MapPorts
<1>2. switches_active \in Nat /\ \A i \in 1 .. switches_active : (i - 1) \in Nat /\ (i - 1) # switches_active
  BY DEF IndicesInv, IndicesTyped
<1>3. Line' = Line
  <2>1. CASE RegisterSpi(d)
    <3>1. g_spi_h' = [g_spi_h EXCEPT ![switches_active] = d]
      BY <2>1 DEF RegisterSpi, Goto, IndicesInv, NextIndex, Underway
    <3>2. \A i \in 1 .. switches_active : (i - 1) \in Switches
      BY LineOf
    <3>3. \A i \in 1 .. switches_active : g_spi_h'[i - 1] = g_spi_h[i - 1]
      BY <1>2, <3>1, <3>2 DEF IndicesInv, IndicesTyped
    <3>. QED
      BY <1>1, <3>3, SameLine
  <2>2. CASE ~RegisterSpi(d)
    <3>1. g_spi_h' = g_spi_h
      BY <2>2 DEF BeginProbe, ResetSwitch, LoadConfiguration, FailProbe, MapPorts
    <3>. QED
      BY <1>1, <3>1, SameLine
  <2>. QED
    BY <2>1, <2>2
<1>4. CASE ResetSwitch(d) \/ LoadConfiguration(d)
  <2>1. d \notin Service!ToSet(Line)
    BY <1>4, NotInLine DEF ResetSwitch, LoadConfiguration, Goto
  <2>2. configured' \in {configured \cup {d}, configured \ {d}}
    BY <1>4 DEF ResetSwitch, LoadConfiguration, Goto, IndicesInv, NextIndex, Underway
  <2>3. Service!Prepare(d)
    BY <1>1, <1>3, <2>1, <2>2 DEF Service!Prepare, Line
  <2>. QED
    BY <2>3 DEF Service!Next
<1>5. CASE ~(ResetSwitch(d) \/ LoadConfiguration(d))
  <2>1. configured' = configured
    BY <1>5 DEF BeginProbe, RegisterSpi, FailProbe, MapPorts
  <2>. QED
    BY <1>1, <1>3, <2>1
<1>. QED
  BY <1>4, <1>5

\* Counting a switch appends it to the line.
LEMMA CountServes ==
    ASSUME IndicesInv, NEW d \in Devices, CountSwitch(d)
    PROVE  Service!Next
<1>1. /\ pc[d] = "mapped" /\ switches_active' = switches_active + 1
      /\ UNCHANGED <<g_spi_h, configured, switchdev>>
  BY DEF CountSwitch, Counted, Goto
<1>2. /\ switches_active \in Nat /\ switches_active < SJA1105P_N_SWITCHES
      /\ g_spi_h[switches_active] = d /\ d \in configured
  BY <1>1 DEF IndicesInv, IndicesTyped, NextIndex, Underway
<1>3. d \notin Service!ToSet(Line)
  BY <1>1, NotInLine
<1>4. Line' = Append(Line, d)
  <2>1. Line' = [i \in 1 .. switches_active + 1 |-> g_spi_h[i - 1]]
    BY <1>1 DEF Line
  <2>2. /\ Append(Line, d) \in Seq(Devices) /\ Len(Append(Line, d)) = switches_active + 1
        /\ \A i \in 1 .. switches_active : Append(Line, d)[i] = g_spi_h[i - 1]
        /\ Append(Line, d)[switches_active + 1] = d
    BY LineOf
  <2>3. \A i \in 1 .. switches_active + 1 : Append(Line, d)[i] = g_spi_h[i - 1]
    BY <1>2, <2>2
  <2>4. \A T \in Seq(Devices) : T = [i \in 1 .. Len(T) |-> T[i]]
    OBVIOUS
  <2>5. Append(Line, d) = [i \in 1 .. switches_active + 1 |-> Append(Line, d)[i]]
    BY <2>2, <2>4, Zenon
  <2>. QED
    BY <2>1, <2>3, <2>5
<1>5. Len(Line) < SJA1105P_N_SWITCHES
  BY <1>2, LineOf
<1>6. Service!Attach(d)
  BY <1>1, <1>2, <1>3, <1>4, <1>5 DEF Service!Attach, Line
<1>. QED
  BY <1>6 DEF Service!Next

\* Removing a switch takes the last of the line.
LEMMA RemoveServes ==
    ASSUME IndicesInv, InOrder, NEW d \in Devices, Remove(d)
    PROVE  Service!Next
<1>1. /\ switches_active' = switches_active - 1 /\ device_select[d] = switches_active - 1
      /\ UNCHANGED <<g_spi_h, configured, switchdev>>
  BY DEF Remove
<1>2. switches_active \in Nat \ {0}
  BY <1>1, Sizes DEF IndicesInv, IndicesTyped
<1>3. /\ Line \in Seq(Devices) /\ Len(Line) = switches_active /\ Line # <<>>
      /\ \A i \in 1 .. switches_active : Line[i] = g_spi_h[i - 1]
  BY <1>2, LineOf
<1>4. Line' = SubSeq(Line, 1, Len(Line) - 1)
  <2>1. Line' = [i \in 1 .. switches_active - 1 |-> g_spi_h[i - 1]]
    BY <1>1 DEF Line
  <2>2. /\ SubSeq(Line, 1, Len(Line) - 1) \in Seq(Devices)
        /\ Len(SubSeq(Line, 1, Len(Line) - 1)) = switches_active - 1
        /\ \A i \in 1 .. switches_active - 1 : SubSeq(Line, 1, Len(Line) - 1)[i] = Line[i]
    BY <1>2, <1>3
  <2>3. SubSeq(Line, 1, Len(Line) - 1)
          = [i \in 1 .. switches_active - 1 |-> SubSeq(Line, 1, Len(Line) - 1)[i]]
    <3>1. \A T \in Seq(Devices) : T = [i \in 1 .. Len(T) |-> T[i]]
      OBVIOUS
    <3>. QED
      BY <2>2, <3>1, Zenon
  <2>4. \A i \in 1 .. switches_active - 1 : SubSeq(Line, 1, Len(Line) - 1)[i] = g_spi_h[i - 1]
    BY <1>2, <1>3, <2>2
  <2>. QED
    BY <2>1, <2>3, <2>4
<1>5. Service!Detach
  BY <1>1, <1>3, <1>4 DEF Service!Detach, Service!Front, Line
<1>. QED
  BY <1>5 DEF Service!Next

\* The end of a probe starts the bridge on a complete line, or changes nothing.
LEMMA FinishServes ==
    ASSUME IndicesInv, MappingInv, NEW d \in Devices, FinishProbe(d)
    PROVE  [Service!Next]_<<Line, configured, switchdev>>
<1>1. UNCHANGED <<switches_active, g_spi_h, configured>>
  BY DEF FinishProbe
<1>2. Line' = Line
  BY <1>1, SameLine
<1>3. CASE switchdev' = switchdev
  BY <1>1, <1>2, <1>3
<1>4. CASE switchdev' # switchdev
  <2>1. switches_active = SJA1105P_N_SWITCHES /\ ProbeFinal
    BY <1>4 DEF FinishProbe, Complete
  <2>2. switchdev' = TRUE
    BY <1>4, <2>1 DEF ProbeFinal, MappingInv
  <2>3. Len(Line) = SJA1105P_N_SWITCHES /\ Service!ToSet(Line) \subseteq configured
    BY <2>1, LineOf, LineComplete
  <2>4. Service!Start
    BY <1>1, <1>2, <2>2, <2>3 DEF Service!Start, Line
  <2>. QED
    BY <2>4 DEF Service!Next
<1>. QED
  BY <1>3, <1>4

\* Probing provides the service: switches are numbered in the order in which they
\* are ready, and the bridge starts on a complete line of configured switches.
THEOREM ProbingServesCallers ==
    InOrder /\ LineFits /\ TreesNumberPorts => (Spec => ProvidesService)
<1>. SUFFICES ASSUME InOrder, LineFits, TreesNumberPorts PROVE Spec => Service!Spec
  BY DEF ProvidesService
<1>1. Init => Service!Init
  <2>. SUFFICES ASSUME Init PROVE Service!Init
    OBVIOUS
  <2>1. Line = <<>>
    <3>1. 1 .. switches_active = {}
      BY DEF Init
    <3>2. IndicesInv /\ switches_active = 0
      BY IndicesInitially DEF Init
    <3>. QED
      BY <3>2, LineOf
  <2>. QED
    BY <2>1 DEF Service!Init, Init, Line
<1>2. IndicesInv /\ MappingInv /\ [Next]_vars => [Service!Next]_<<Line, configured, switchdev>>
  <2>. SUFFICES ASSUME IndicesInv, MappingInv, [Next]_vars
                PROVE  [Service!Next]_<<Line, configured, switchdev>>
    OBVIOUS
  <2>1. CASE UNCHANGED vars
    BY <2>1, SameLine DEF vars, probeVars
  <2>2. CASE Next
    BY <2>2, ProbeServes, CountServes, RemoveServes, FinishServes DEF Next
  <2>. QED
    BY <2>1, <2>2
<1>3. IndicesInv /\ MappingInv /\ [Next]_vars
         => [Service!Next]_<<[i \in 1 .. switches_active |-> g_spi_h[i - 1]], configured, switchdev>>
  BY <1>2 DEF Line
<1>. QED
  BY <1>1, <1>3, ProbeInvariant, PTL DEF Spec, Service!Spec
=============================================================================
