-------------------------------- MODULE Fdb ---------------------------------
(***************************************************************************)
(* The forwarding database operations of the switchdev driver              *)
(* (switchdev/src/sja1105p_switchdev.c, nxp_port_fdb_add and               *)
(* nxp_port_fdb_del) on the address resolution table. Both look a MAC      *)
(* address up in no VLAN, as the entry is zeroed before the search, and    *)
(* write or remove it in the VLAN they were called for.                    *)
(***************************************************************************)
EXTENDS ArlTable

CONSTANTS
    Mac,
    Vlan,
    NoVlan,      \* VLAN identifier 0
    NoDeletion

ASSUME FdbAssumption ==
    /\ Address = Mac \X Vlan
    /\ NoVlan \in Vlan

VARIABLE
    lastDeletion   \* the address and port of a deletion that just succeeded

fdbVars == <<table, requested, lastDeletion>>

FdbTypeOK ==
    /\ TypeOK
    /\ lastDeletion \in (Address \X Port) \cup {NoDeletion}

FdbInit == Init /\ lastDeletion = NoDeletion

-----------------------------------------------------------------------------
\* An existing entry is read "to add current port to the port mask" (line 82),
\* and a further entry is added, in the VLAN given.
FdbAdd(mac, vid, port) ==
    /\ lastDeletion' = NoDeletion
    /\ \/ \E i \in Located(<<mac, NoVlan>>) : \E e \in EntryRead(i) :
              AddArlTableEntry(<<e.address[1], vid>>, e.ports \cup {port})
       \/ /\ \E r \in FindEntryIndex(<<mac, NoVlan>>) : r.error
          /\ AddArlTableEntry(<<mac, vid>>, {port})

\* The entry without the port is added, in the VLAN that was read, or, if this
\* was its last port, the entry of the VLAN given is searched and removed.
FdbDel(mac, vid, port) ==
    \/ \E i \in Located(<<mac, NoVlan>>) : \E e \in EntryRead(i) :
           \/ /\ e.ports \ {port} # {}
              /\ AddArlTableEntry(e.address, e.ports \ {port})
              /\ lastDeletion' = <<<<mac, vid>>, port>>
           \/ /\ e.ports \ {port} = {}
              /\ \E j \in Located(<<e.address[1], vid>>) :
                     RemoveArlTableEntryByIndex(j)
              /\ lastDeletion' = <<<<mac, vid>>, port>>
           \/ /\ e.ports \ {port} = {}
              /\ \E r \in FindEntryIndex(<<e.address[1], vid>>) : r.error
              /\ lastDeletion' = NoDeletion      \* "Could not delete entry!"
              /\ UNCHANGED arlVars
    \/ /\ \E r \in FindEntryIndex(<<mac, NoVlan>>) : r.error
       /\ lastDeletion' = NoDeletion             \* "Entry does not exist!"
       /\ UNCHANGED arlVars

FdbAdds == \E mac \in Mac, vid \in Vlan, p \in Port : FdbAdd(mac, vid, p)
FdbDels == \E mac \in Mac, vid \in Vlan, p \in Port : FdbDel(mac, vid, p)

\* The other users of the table.
ArlStep == Next /\ lastDeletion' = NoDeletion
SwitchStep == (SwitchLearns \/ SwitchForgets) /\ lastDeletion' = NoDeletion

FdbNext == FdbAdds \/ FdbDels \/ ArlStep
FdbSpec == FdbInit /\ [][FdbNext]_fdbVars

\* Users that may also have whatever is at an index mirrored or retagged.
AnyIndexNext == FdbNext \/ (ChangeAny /\ lastDeletion' = NoDeletion)
AnyIndexSpec == FdbInit /\ [][AnyIndexNext]_fdbVars

\* The table is the bridge's alone.
BridgeNext == FdbAdds \/ FdbDels \/ SwitchStep
BridgeSpec == FdbInit /\ [][BridgeNext]_fdbVars

-----------------------------------------------------------------------------
(* Properties *)

\* Removing or deleting an address never changes where frames for another one
\* go, though entries are only found by searching the first switch, and a
\* deletion searches twice, for different addresses: what was found is not the
\* entry of another address, nor nothing at all.
OthersKeepForwarding ==
    [][\A b \in Address : Forwarding(b)' # Forwarding(b) =>
          /\ \A a \in Address \ {b} : ~RemoveArlTableEntryByAddress(a)
          /\ \A mac \in Mac, vid \in Vlan, p \in Port :
                 b \notin {<<mac, NoVlan>>, <<mac, vid>>} =>
                     ~FdbDel(mac, vid, p)]_fdbVars

\* fdb_del "deletes the FDB entry from dev corresponding to addr" (line 108):
\* when it has succeeded, frames for the address no longer go to this port.
DeletedIsGone ==
    lastDeletion # NoDeletion =>
        \A ports \in Forwarding(lastDeletion[1]) : lastDeletion[2] \notin ports
=============================================================================
