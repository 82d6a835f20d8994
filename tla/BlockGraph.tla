------------------------------ MODULE BlockGraph ------------------------------
(****************************************************************************)
(* The block-device graph that src/collect_storage_linux.go walks when it   *)
(* looks for the physical partitions underneath a mounted or formatted      *)
(* block device, and the set it is looking for.                             *)
(*                                                                          *)
(* A graph is a record                                                      *)
(*   blocks      the names found by scanLinuxBlocks (a key of `blocks`),    *)
(*   partitions  the blocks whose sysfs `partition` attribute is non-empty, *)
(*   located     the partitions reported under a physical disk (a key of    *)
(*               `locations`); a location is identified with its name,      *)
(*   parent      the blocks whose resolved path is the directory of the     *)
(*               resolved path of a partition,                              *)
(*   slaves      the entries of the `slaves` directory of a block.  A slave *)
(*               may be a name that the scan did not record.                *)
(*                                                                          *)
(* Names are not ordered here: the code visits parents and slaves in        *)
(* natural order, and nothing below depends on that order.                  *)
(****************************************************************************)
EXTENDS Naturals, FiniteSets

\* What sysfs guarantees: two entries of /sys/class/block never resolve to the
\* same path, so a partition has at most one parent, which is a whole device,
\* and the kernel gives only whole devices a `slaves` directory.  The slaves
\* links themselves are arbitrary, cycles and unknown names included.
WellFormed(g, Names) ==
    /\ DOMAIN g = {"blocks", "partitions", "located", "parent", "slaves"}
    /\ g.blocks \subseteq Names
    /\ g.partitions \subseteq g.blocks
    /\ g.located \subseteq g.partitions
    /\ g.parent \in [Names -> SUBSET Names]
    /\ g.slaves \in [Names -> SUBSET Names]
    /\ \A n \in Names \ g.partitions : g.parent[n] = {}
    /\ \A n \in g.partitions :
         /\ g.slaves[n] = {}
         /\ g.parent[n] \subseteq g.blocks \ g.partitions
         /\ \A p, q \in g.parent[n] : p = q

\* The devices directly underneath n, as far as the walk looks: it stops at a
\* located partition and at a name the scan did not record.
Beneath(g, n) ==
    IF n \in g.blocks \ g.located THEN g.parent[n] \cup g.slaves[n] ELSE {}

Closed(g, S) == \A n \in S : Beneath(g, n) \subseteq S

\* The devices underneath s: those in every closed set that contains s.
Underneath(g, s, Names) ==
    {n \in Names : \A S \in SUBSET Names : s \in S /\ Closed(g, S) => n \in S}

\* The physical partitions that carry s.
Backing(g, s, Names) == g.located \cap Underneath(g, s, Names)
===============================================================================
