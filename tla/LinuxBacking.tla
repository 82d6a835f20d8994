----------------------------- MODULE LinuxBacking -----------------------------
(****************************************************************************)
(* linuxBackingPartitions (src/collect_storage_linux.go): the recursive     *)
(* walk from a block device down its partition parent and its slaves to the *)
(* physical partitions that carry it.                                       *)
(*                                                                          *)
(* One call from attachLinuxVolumes is one behaviour.  The Go call stack is *)
(* the variable stack, one frame per activation; control says whether the   *)
(* code is entering a call, inside a loop of the top frame, or returning a  *)
(* value to it.  The map visited is created by the caller and shared by all *)
(* the activations.                                                         *)
(****************************************************************************)
EXTENDS BlockGraph, Sequences

CONSTANTS
    Names,      \* block-device names
    Graphs      \* the graphs the walk may be started on

ASSUME GraphsAssumption == \A g \in Graphs : WellFormed(g, Names)

VARIABLES
    graph,      \* blocks, locations and sysfs, fixed during a call
    start,      \* the name the outermost call is about
    visited,    \* the map `visited`
    stack,      \* the activations, innermost last
    control,    \* where the innermost activation stands
    answers     \* the result of the outermost call, once there is one

vars == <<graph, start, visited, stack, control, answers>>

\* Inside an activation: `loop` says which of the two loops of the function is
\* running, todo holds the names it has not called yet, and found is `result`.
Frame == [node : Names, loop : {"parents", "slaves"},
          todo : SUBSET Names, found : SUBSET Names]

Calling(n)   == [op |-> "call", name |-> n]
Returning(R) == [op |-> "return", value |-> R]
Looping      == [op |-> "loop"]
Done         == [op |-> "done"]

Top == stack[Len(stack)]
WithoutTop(s) == SubSeq(s, 1, Len(s) - 1)
WithTop(s, f) == [s EXCEPT ![Len(s)] = f]

Init ==
    /\ graph \in Graphs
    /\ start \in graph.blocks
    /\ visited = {}
    /\ stack = << >>
    /\ control = Calling(start)
    /\ answers = {}

-------------------------------------------------------------------------------
\* Entering a call: the early returns, then the frame.

\* A name already visited answers nothing; this is what stops a cycle.
EnterVisited ==
    /\ control.op = "call"
    /\ control.name \in visited
    /\ control' = Returning({})
    /\ UNCHANGED <<graph, start, visited, stack, answers>>

\* A partition reported under a physical disk is its own answer.
EnterLocated ==
    /\ control.op = "call"
    /\ control.name \in graph.located \ visited
    /\ visited' = visited \cup {control.name}
    /\ control' = Returning({control.name})
    /\ UNCHANGED <<graph, start, stack, answers>>

\* Slip: a name the scan did not record is taken for a location.
EnterUnknownAsLocation ==
    /\ control.op = "call"
    /\ control.name \notin visited \cup graph.blocks
    /\ visited' = visited \cup {control.name}
    /\ control' = Returning({control.name})
    /\ UNCHANGED <<graph, start, stack, answers>>

\* A slave the scan did not record answers nothing.
EnterUnknown ==
    /\ control.op = "call"
    /\ control.name \notin visited \cup graph.blocks
    /\ visited' = visited \cup {control.name}
    /\ control' = Returning({})
    /\ UNCHANGED <<graph, start, stack, answers>>

\* Slip: a partition forgets its parent.
EnterPartitionAlone ==
    /\ control.op = "call"
    /\ control.name \in graph.partitions \ (graph.located \cup visited)
    /\ visited' = visited \cup {control.name}
    /\ stack' = Append(stack, [node |-> control.name, loop |-> "parents",
                               todo |-> {}, found |-> {}])
    /\ control' = Looping
    /\ UNCHANGED <<graph, start, answers>>

\* A partition of a device that is not a reported disk looks at its parent.
EnterPartition ==
    /\ control.op = "call"
    /\ control.name \in graph.partitions \ (graph.located \cup visited)
    /\ visited' = visited \cup {control.name}
    /\ stack' = Append(stack, [node |-> control.name, loop |-> "parents",
                               todo |-> graph.parent[control.name], found |-> {}])
    /\ control' = Looping
    /\ UNCHANGED <<graph, start, answers>>

\* Slip: a whole device is not marked as visited.
EnterWholeUnmarked ==
    /\ control.op = "call"
    /\ control.name \in graph.blocks \ (graph.partitions \cup visited)
    /\ stack' = Append(stack, [node |-> control.name, loop |-> "slaves",
                               todo |-> graph.slaves[control.name], found |-> {}])
    /\ control' = Looping
    /\ UNCHANGED <<graph, start, visited, answers>>

\* Any other device goes straight to its slaves.
EnterWhole ==
    /\ control.op = "call"
    /\ control.name \in graph.blocks \ (graph.partitions \cup visited)
    /\ visited' = visited \cup {control.name}
    /\ stack' = Append(stack, [node |-> control.name, loop |-> "slaves",
                               todo |-> graph.slaves[control.name], found |-> {}])
    /\ control' = Looping
    /\ UNCHANGED <<graph, start, answers>>

-------------------------------------------------------------------------------
\* The loops.

\* Slip: the loop does not advance past a device it has called.
CallSame ==
    /\ control.op = "loop"
    /\ \E n \in Top.todo : control' = Calling(n)
    /\ UNCHANGED <<graph, start, visited, stack, answers>>

CallNext ==
    /\ control.op = "loop"
    /\ \E n \in Top.todo :
         /\ control' = Calling(n)
         /\ stack' = WithTop(stack, [Top EXCEPT !.todo = @ \ {n}])
    /\ UNCHANGED <<graph, start, visited, answers>>

\* The first parent with a non-empty result is the result of the partition.
TakeParentResult ==
    /\ control.op = "return"
    /\ stack # << >>
    /\ Top.loop = "parents"
    /\ IF control.value # {}
         THEN stack' = WithoutTop(stack) /\ control' = control
         ELSE stack' = stack /\ control' = Looping
    /\ UNCHANGED <<graph, start, visited, answers>>

\* Slip: the result of a slave replaces those of the slaves before it.
KeepLastSlaveResult ==
    /\ control.op = "return"
    /\ stack # << >>
    /\ Top.loop = "slaves"
    /\ stack' = WithTop(stack, [Top EXCEPT !.found = control.value])
    /\ control' = Looping
    /\ UNCHANGED <<graph, start, visited, answers>>

\* The results of the slaves are joined (uniqueLocations drops repetitions).
TakeSlaveResult ==
    /\ control.op = "return"
    /\ stack # << >>
    /\ Top.loop = "slaves"
    /\ stack' = WithTop(stack, [Top EXCEPT !.found = @ \cup control.value])
    /\ control' = Looping
    /\ UNCHANGED <<graph, start, visited, answers>>

ParentsExhausted ==
    /\ control.op = "loop"
    /\ Top.loop = "parents"
    /\ Top.todo = {}
    /\ stack' = WithTop(stack, [Top EXCEPT !.loop = "slaves",
                                           !.todo = graph.slaves[Top.node]])
    /\ UNCHANGED <<graph, start, visited, control, answers>>

\* Slip: the first slave with a result ends the loop, as a parent does.
ReturnEarly ==
    /\ control.op = "loop"
    /\ Top.loop = "slaves"
    /\ Top.todo = {} \/ Top.found # {}
    /\ stack' = WithoutTop(stack)
    /\ control' = Returning(Top.found)
    /\ UNCHANGED <<graph, start, visited, answers>>

Return ==
    /\ control.op = "loop"
    /\ Top.loop = "slaves"
    /\ Top.todo = {}
    /\ stack' = WithoutTop(stack)
    /\ control' = Returning(Top.found)
    /\ UNCHANGED <<graph, start, visited, answers>>

\* The outermost call returns to attachLinuxVolumes.
Finish ==
    /\ control.op = "return"
    /\ stack = << >>
    /\ answers' = {control.value}
    /\ control' = Done
    /\ UNCHANGED <<graph, start, visited, stack>>

Next ==
    \/ EnterVisited \/ EnterLocated \/ EnterUnknown \/ EnterPartition \/ EnterWhole
    \/ CallNext \/ TakeParentResult \/ TakeSlaveResult \/ ParentsExhausted
    \/ Return \/ Finish

Spec == Init /\ [][Next]_vars

\* The walk runs in the calling goroutine and blocks on nothing.
FairSpec == Spec /\ WF_vars(Next)

-------------------------------------------------------------------------------
\* The activations hold frames, the results are reported partitions and the
\* answer is one of those results.
TypeOK ==
    /\ WellFormed(graph, Names)
    /\ start \in graph.blocks
    /\ visited \subseteq Names
    /\ stack \in Seq(Frame)
    /\ \/ \E n \in Names : control = Calling(n)
       \/ \E R \in SUBSET graph.located : control = Returning(R)
       \/ control = Looping /\ stack # << >>
       \/ control = Done /\ stack = << >>
    /\ IF control = Done THEN \E R \in SUBSET graph.located : answers = {R} ELSE answers = {}

\* No block device is being walked twice at a time, however the slaves links
\* lead back to it: the recursion is never deeper than the number of blocks.
NoReentry ==
    /\ \A i, j \in 1..Len(stack) : stack[i].node = stack[j].node => i = j
    /\ \A i \in 1..Len(stack) : stack[i].node \in visited \cap graph.blocks

\* The reported partitions that some activation, the value being returned or
\* the answer holds.
FoundIn(s) == UNION {s[i].found : i \in 1..Len(s)}

Held ==
    FoundIn(stack)
      \cup (IF control.op = "return" THEN control.value ELSE {})
      \cup UNION answers

\* A reported partition is visited once and the visit is its only chance to be
\* reported: from then on some activation holds it until the answer does, also
\* when a later path to it is cut short because it was visited.
NothingLost == Held = visited \cap graph.located

\* The names an activation has still to call.
Left(f) == f.todo \cup (IF f.loop = "parents" THEN graph.slaves[f.node] ELSE {})

\* Whatever lies directly underneath a visited device has been visited, is being
\* called, or is still to be called by the activation of that device.
NothingSkipped ==
    \A n \in visited : \A m \in Beneath(graph, n) :
        \/ m \in visited
        \/ control = Calling(m)
        \/ \E i \in 1..Len(stack) : stack[i].node = n /\ m \in Left(stack[i])

\* The frames of a partition's parent loop: they have found nothing yet, and once
\* the single parent has been called nothing is left to call.
FramesOK ==
    \A i \in 1..Len(stack) :
      /\ stack[i].node \in graph.blocks \ graph.located
      /\ stack[i].loop = "slaves" => stack[i].todo \subseteq graph.slaves[stack[i].node]
      /\ stack[i].loop = "parents" =>
           /\ stack[i].node \in graph.partitions
           /\ stack[i].found = {}
           /\ stack[i].todo \subseteq graph.parent[stack[i].node]
           /\ i < Len(stack) \/ control # Looping => stack[i].todo = {}

\* Only devices underneath the start are visited, the start among them.
BeneathStart ==
    /\ start \in visited \/ control = Calling(start)
    /\ visited \subseteq Underneath(graph, start, Names)
    /\ \A n \in Names : control = Calling(n) => n \in Underneath(graph, start, Names)

\* The inductive invariant of the walk.
IInv ==
    /\ TypeOK
    /\ FramesOK
    /\ NoReentry
    /\ NothingLost
    /\ NothingSkipped
    /\ BeneathStart

\* The walk implements its abstract specification: the answer is exactly the
\* set of reported partitions underneath the start.
B == INSTANCE BackingSpec
       WITH Names <- Names, graph <- graph, start <- start, answers <- answers
ImplementsBacking == B!Spec

\* Every call returns, whatever the slaves links are.
Terminates == <>(control = Done)
===============================================================================
