------------------------------ MODULE BackingSpec ------------------------------
(****************************************************************************)
(* What a caller of linuxBackingPartitions relies on: the call answers      *)
(* once, with exactly the reported physical partitions underneath the       *)
(* block device it was asked about.                                         *)
(****************************************************************************)
EXTENDS BlockGraph

CONSTANT Names

VARIABLES graph, start, answers

bvars == <<graph, start, answers>>

Init ==
    /\ WellFormed(graph, Names)
    /\ start \in graph.blocks
    /\ answers = {}

Answer ==
    /\ answers = {}
    /\ answers' = {Backing(graph, start, Names)}
    /\ UNCHANGED <<graph, start>>

Spec == Init /\ [][Answer]_bvars
===============================================================================
