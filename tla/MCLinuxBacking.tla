---------------------------- MODULE MCLinuxBacking ----------------------------
(* Every well-formed graph over the names of the .cfg. *)
EXTENDS LinuxBacking

\* What a name may be: not recorded by the scan, a reported partition, another
\* partition, or a whole device.
Shapes ==
    {<<"unknown", {}, {}>>, <<"located", {}, {}>>}
      \cup {<<"partition", P, {}>> : P \in {{}} \cup {{p} : p \in Names}}
      \cup {<<"whole", {}, S>> : S \in SUBSET Names}

GraphOf(shape) ==
    [blocks     |-> {n \in Names : shape[n][1] # "unknown"},
     partitions |-> {n \in Names : shape[n][1] \in {"partition", "located"}},
     located    |-> {n \in Names : shape[n][1] = "located"},
     parent     |-> [n \in Names |-> shape[n][2]],
     slaves     |-> [n \in Names |-> shape[n][3]]]

MCGraphs == {g \in {GraphOf(shape) : shape \in [Names -> Shapes]} : WellFormed(g, Names)}
===============================================================================
