---------------------------- MODULE DarwinInventory ----------------------------
(****************************************************************************)
(* Discover on macOS (src/discover_darwin.go): readDarwinNativeInventory calls *)
(* the native collectors, for the storage and then for the adapters and GPUs,  *)
(* and splits their text into records; discoverDarwin makes the entries of the *)
(* report of the records, the disks first.  The collectors share no state, only *)
(* the order of their turns.                                                  *)
(****************************************************************************)
EXTENDS DarwinStorage, DarwinAdapters

CONSTANT
    Computers   \* groups: registries of media, scripts with their heaps, and machines

ASSUME ComputersAssumption ==
    \A g \in Computers : g.registries \subseteq Registries /\ g.scripts \subseteq Scripts

adaptersVars == <<rowVars, adapterVars>>

InventoryInit ==
    \E g \in Computers :
      registry \in g.registries /\ Init /\ AdaptersInit(g.scripts, g.machines)

\* hw_storage
Storage == phase = "walk" /\ Next /\ UNCHANGED adaptersVars

\* hw_network, hw_gpus and darwinRecordsFromC
Rows == phase = "disks" /\ (Write \/ Read) /\ UNCHANGED <<vars, adapterVars>>

\* collectDarwinDisks
Disks == phase # "walk" /\ records # << >> /\ Next /\ UNCHANGED adaptersVars

\* collectDarwinNetworkAdapters or collectDarwinGPUs
Adapters == phase = "done" /\ Collect /\ UNCHANGED vars

InventoryNext == Storage \/ Rows \/ Disks \/ Adapters

InventorySpec == InventoryInit /\ [][InventoryNext]_<<vars, adaptersVars>>
=================================================================================
