-------------------------- MODULE LinuxBacking_proofs --------------------------
(****************************************************************************)
(* linuxBackingPartitions answers, for every set of names and every         *)
(* well-formed graph, exactly the reported partitions underneath its start. *)
(****************************************************************************)
EXTENDS LinuxBacking, SequenceTheorems, TLAPS

\* Pushing a frame: the stack keeps its frames and gains one on top.
LEMMA Push ==
    ASSUME NEW s \in Seq(Frame), NEW f \in Frame
    PROVE  /\ Append(s, f) \in Seq(Frame)
           /\ Append(s, f) # << >>
           /\ Len(Append(s, f)) = Len(s) + 1
           /\ \A i \in 1..Len(s) : Append(s, f)[i] = s[i]
           /\ Append(s, f)[Len(s) + 1] = f
           /\ FoundIn(Append(s, f)) = FoundIn(s) \cup f.found
<1>1. /\ Append(s, f) \in Seq(Frame)
      /\ Append(s, f) # << >>
      /\ Len(Append(s, f)) = Len(s) + 1
      /\ \A i \in 1..Len(s) : Append(s, f)[i] = s[i]
      /\ Append(s, f)[Len(s) + 1] = f
  OBVIOUS
<1>2. FoundIn(Append(s, f)) = FoundIn(s) \cup f.found
  <2> DEFINE t == Append(s, f)
  <2>1. \A i \in 1..Len(t) : i \in 1..Len(s) \/ i = Len(s) + 1
    BY <1>1
  <2>2. Len(s) + 1 \in 1..Len(t) /\ \A i \in 1..Len(s) : i \in 1..Len(t)
    BY <1>1
  <2> HIDE DEF t
  <2>3. \A x : x \in FoundIn(t) <=> x \in FoundIn(s) \/ x \in f.found
    BY <2>1, <2>2, <1>1 DEF FoundIn, t
  <2> QED BY <2>3 DEF t
<1> QED BY <1>1, <1>2

\* Dropping the top frame.
LEMMA Pop ==
    ASSUME NEW s \in Seq(Frame), s # << >>
    PROVE  /\ WithoutTop(s) \in Seq(Frame)
           /\ Len(s) \in 1..Len(s)
           /\ s[Len(s)] \in Frame
           /\ Len(WithoutTop(s)) = Len(s) - 1
           /\ \A i \in 1..Len(WithoutTop(s)) : i \in 1..Len(s) /\ WithoutTop(s)[i] = s[i]
           /\ \A i \in 1..Len(s) : i \in 1..Len(WithoutTop(s)) \/ i = Len(s)
           /\ FoundIn(s) = FoundIn(WithoutTop(s)) \cup s[Len(s)].found
<1> DEFINE b == WithoutTop(s)
<1>1. Len(s) \in 1..Len(s) /\ s[Len(s)] \in Frame
  OBVIOUS
<1>2. b \in Seq(Frame) /\ Len(b) = Len(s) - 1 /\ \A i \in 1..Len(b) : b[i] = s[i]
  <2>1. PICK m \in Int : m = Len(s) - 1
    OBVIOUS
  <2>2. SubSeq(s, 1, m) \in Seq(Frame)
    BY <2>1
  <2>3. Len(SubSeq(s, 1, m)) = m
    BY <2>1
  <2>4. \A i \in 1..m : SubSeq(s, 1, m)[i] = s[i]
    BY <2>1
  <2> QED BY <2>1, <2>2, <2>3, <2>4 DEF WithoutTop
<1> HIDE DEF b
<1>3. /\ \A i \in 1..Len(b) : i \in 1..Len(s)
      /\ \A i \in 1..Len(s) : i \in 1..Len(b) \/ i = Len(s)
  BY <1>2
<1>4. \A x : x \in FoundIn(s) <=> x \in FoundIn(b) \/ x \in s[Len(s)].found
  BY <1>1, <1>2, <1>3 DEF FoundIn
<1> QED BY <1>1, <1>2, <1>3, <1>4 DEF b

\* Replacing the top frame.
LEMMA Update ==
    ASSUME NEW s \in Seq(Frame), s # << >>, NEW f \in Frame
    PROVE  /\ WithTop(s, f) \in Seq(Frame)
           /\ WithTop(s, f) # << >>
           /\ Len(WithTop(s, f)) = Len(s)
           /\ WithTop(s, f)[Len(s)] = f
           /\ \A i \in 1..Len(s) : i # Len(s) => WithTop(s, f)[i] = s[i]
           /\ s[Len(s)].found \subseteq f.found =>
                FoundIn(WithTop(s, f)) = FoundIn(s) \cup f.found
<1> DEFINE t == WithTop(s, f)
<1>1. Len(s) \in 1..Len(s) /\ s[Len(s)] \in Frame
  OBVIOUS
<1>2. /\ t \in Seq(Frame) /\ t # << >> /\ Len(t) = Len(s)
      /\ t[Len(s)] = f
      /\ \A i \in 1..Len(s) : i # Len(s) => t[i] = s[i]
  BY <1>1 DEF WithTop
<1> HIDE DEF t
<1>3. ASSUME s[Len(s)].found \subseteq f.found
      PROVE  \A x : x \in FoundIn(t) <=> x \in FoundIn(s) \/ x \in f.found
  BY <1>1, <1>2, <1>3 DEF FoundIn
<1>4. s[Len(s)].found \subseteq f.found => FoundIn(t) = FoundIn(s) \cup f.found
  BY <1>3
<1> QED BY <1>2, <1>4 DEF t

-------------------------------------------------------------------------------
\* What lies directly underneath each kind of block device.
LEMMA BeneathFacts ==
    ASSUME WellFormed(graph, Names), NEW n \in Names
    PROVE  /\ graph.located \subseteq graph.partitions
           /\ graph.partitions \subseteq graph.blocks
           /\ graph.blocks \subseteq Names
           /\ graph.parent[n] \subseteq Names
           /\ graph.slaves[n] \subseteq Names
           /\ Beneath(graph, n) \subseteq Names
           /\ n \notin graph.blocks \ graph.located => Beneath(graph, n) = {}
           /\ n \in graph.partitions => graph.slaves[n] = {}
           /\ n \in graph.partitions \ graph.located => Beneath(graph, n) = graph.parent[n]
           /\ n \in graph.blocks \ graph.partitions => Beneath(graph, n) = graph.slaves[n]
           /\ \A p, q \in graph.parent[n] : p = q
<1>1. /\ graph.located \subseteq graph.partitions
      /\ graph.partitions \subseteq graph.blocks
      /\ graph.blocks \subseteq Names
      /\ graph.parent[n] \subseteq Names
      /\ graph.slaves[n] \subseteq Names
      /\ n \in graph.partitions => graph.slaves[n] = {}
      /\ n \notin graph.partitions => graph.parent[n] = {}
      /\ \A p, q \in graph.parent[n] : p = q
  BY DEF WellFormed
<1>2. Beneath(graph, n) \subseteq Names
  BY <1>1 DEF Beneath
<1>3. n \notin graph.blocks \ graph.located => Beneath(graph, n) = {}
  BY <1>1 DEF Beneath
<1>4. n \in graph.partitions \ graph.located => Beneath(graph, n) = graph.parent[n]
  BY <1>1 DEF Beneath
<1>5. n \in graph.blocks \ graph.partitions => Beneath(graph, n) = graph.slaves[n]
  BY <1>1 DEF Beneath
<1> QED
  BY <1>1, <1>2, <1>3, <1>4, <1>5

\* The devices underneath the start are closed, and they are the least closed
\* set that contains it.
LEMMA UnderneathClosed ==
    ASSUME WellFormed(graph, Names),
           NEW n \in Underneath(graph, start, Names), NEW m \in Beneath(graph, n)
    PROVE  m \in Underneath(graph, start, Names)
<1>1. n \in Names /\ m \in Names
  BY BeneathFacts DEF Underneath
<1>2. ASSUME NEW S \in SUBSET Names, start \in S, Closed(graph, S)
      PROVE  m \in S
  BY <1>2 DEF Underneath, Closed
<1> QED BY <1>1, <1>2 DEF Underneath

LEMMA UnderneathLeast ==
    ASSUME NEW S \in SUBSET Names, start \in S, Closed(graph, S)
    PROVE  Underneath(graph, start, Names) \subseteq S
BY DEF Underneath

\* The four values of control are different values.
LEMMA ControlValues ==
    /\ \A n \in Names : Calling(n).op = "call" /\ Calling(n).name = n
    /\ \A R : Returning(R).op = "return" /\ Returning(R).value = R
    /\ Looping.op = "loop" /\ Done.op = "done"
    /\ \A n, m \in Names : Calling(n) = Calling(m) => n = m
BY DEF Calling, Returning, Looping, Done

\* What TypeOK says of control, by the value of its op field.
LEMMA ControlCases ==
    ASSUME TypeOK
    PROVE  /\ control.op = "call" => control.name \in Names /\ control = Calling(control.name)
           /\ control.op = "return" =>
                /\ control.value \subseteq graph.located
                /\ control = Returning(control.value)
           /\ control.op = "loop" <=> control = Looping
           /\ control.op = "done" <=> control = Done
           /\ control.op = "loop" => stack # << >>
           /\ control.op = "done" => stack = << >>
           /\ control.op # "done" => answers = {}
           /\ control.op \in {"call", "return", "loop", "done"}
BY ControlValues DEF TypeOK, Calling, Returning, Looping, Done

LEMMA InitIInv == Init => IInv
<1> SUFFICES ASSUME Init PROVE IInv
  OBVIOUS
<1>1. WellFormed(graph, Names) /\ start \in Names /\ start \in graph.blocks
  <2>1. WellFormed(graph, Names)
    BY GraphsAssumption DEF Init
  <2> QED BY <2>1 DEF WellFormed, Init
<1>2. TypeOK
  BY <1>1 DEF Init, TypeOK, Calling, Done, Frame
<1>3. FramesOK /\ NoReentry
  BY DEF Init, FramesOK, NoReentry
<1>4. NothingLost
  BY DEF Init, NothingLost, Held, FoundIn, Calling
<1>5. NothingSkipped
  BY DEF Init, NothingSkipped
<1>6. start \in Underneath(graph, start, Names)
  BY <1>1 DEF Underneath
<1>7. BeneathStart
  BY <1>1, <1>6, ControlValues DEF Init, BeneathStart, Calling
<1> QED BY <1>2, <1>3, <1>4, <1>5, <1>7 DEF IInv

-------------------------------------------------------------------------------
(* Each action preserves the inductive invariant. *)

USE DEF Calling, Returning, Looping, Done

\* Nothing about the graph changes while the walk runs.
LEMMA GraphUnchanged ==
    ASSUME graph' = graph, start' = start
    PROVE  /\ Underneath(graph, start, Names)' = Underneath(graph, start, Names)
           /\ WellFormed(graph, Names)' <=> WellFormed(graph, Names)
           /\ \A n : Beneath(graph, n)' = Beneath(graph, n)
           /\ \A f : Left(f)' = Left(f)
BY DEF Underneath, Closed, Beneath, WellFormed, Left

\* NothingSkipped after a step, with the graph of before the step.
LEMMA NothingSkippedNext ==
    ASSUME graph' = graph,
           \A k \in visited' : \A m \in Beneath(graph, k) :
             \/ m \in visited'
             \/ control' = Calling(m)
             \/ \E i \in 1..Len(stack') : stack'[i].node = k /\ m \in Left(stack'[i])
    PROVE  NothingSkipped'
BY DEF NothingSkipped, Left, Beneath

LEMMA EnterVisitedStep ==
    ASSUME IInv, EnterVisited
    PROVE  IInv'
<1> USE DEF IInv
<1> DEFINE n == control.name
<1>1. n \in Names /\ control = Calling(n) /\ answers = {} /\ control' = Returning({})
  BY ControlCases DEF EnterVisited
<1>2. TypeOK'
  <2>1. UNCHANGED <<graph, start, stack, answers>> /\ visited' \subseteq Names
    BY <1>1 DEF TypeOK, EnterVisited
  <2>2. \E R \in SUBSET graph.located : control' = Returning(R)
    BY <1>1
  <2>3. control' # Done
    BY <1>1, ControlValues
  <2>4. WellFormed(graph, Names)'
    BY <2>1, GraphUnchanged DEF TypeOK
  <2> QED BY <1>1, <2>1, <2>2, <2>3, <2>4 DEF TypeOK
<1>3. FramesOK'
  BY <1>1 DEF FramesOK, EnterVisited
<1>4. NoReentry'
  BY DEF NoReentry, EnterVisited
<1>5. NothingLost'
  BY <1>1 DEF NothingLost, Held, EnterVisited
<1>6. NothingSkipped'
  BY <1>1, GraphUnchanged DEF NothingSkipped, EnterVisited
<1>7. BeneathStart'
  BY <1>1, GraphUnchanged DEF BeneathStart, EnterVisited
<1> QED BY <1>2, <1>3, <1>4, <1>5, <1>6, <1>7

LEMMA EnterLocatedStep ==
    ASSUME IInv, EnterLocated
    PROVE  IInv'
<1> USE DEF IInv
<1> DEFINE n == control.name
<1>1. /\ n \in Names /\ control = Calling(n) /\ answers = {}
      /\ n \in graph.located /\ n \notin visited
      /\ control' = Returning({n}) /\ visited' = visited \cup {n}
  BY ControlCases DEF EnterLocated
<1>2. WellFormed(graph, Names) /\ Beneath(graph, n) = {}
  BY <1>1, BeneathFacts DEF TypeOK
<1>3. TypeOK'
  <2>1. UNCHANGED <<graph, start, stack, answers>> /\ visited' \subseteq Names
    BY <1>1 DEF TypeOK, EnterLocated
  <2>2. \E R \in SUBSET graph.located : control' = Returning(R)
    BY <1>1
  <2>3. control' # Done
    BY <1>1, ControlValues
  <2>4. WellFormed(graph, Names)'
    BY <2>1, GraphUnchanged DEF TypeOK
  <2> QED BY <1>1, <2>1, <2>2, <2>3, <2>4 DEF TypeOK
<1>4. FramesOK'
  BY <1>1 DEF FramesOK, EnterLocated
<1>5. NoReentry'
  BY <1>1 DEF NoReentry, EnterLocated
<1>6. NothingLost'
  BY <1>1 DEF NothingLost, Held, EnterLocated
<1>7. NothingSkipped'
  BY <1>1, <1>2, GraphUnchanged DEF NothingSkipped, EnterLocated
<1>8. BeneathStart'
  BY <1>1, GraphUnchanged DEF BeneathStart, EnterLocated
<1> QED BY <1>3, <1>4, <1>5, <1>6, <1>7, <1>8

LEMMA EnterUnknownStep ==
    ASSUME IInv, EnterUnknown
    PROVE  IInv'
<1> USE DEF IInv
<1> DEFINE n == control.name
<1>1. /\ n \in Names /\ control = Calling(n) /\ answers = {}
      /\ n \notin graph.blocks /\ n \notin visited
      /\ control' = Returning({}) /\ visited' = visited \cup {n}
  BY ControlCases DEF EnterUnknown
<1>2. WellFormed(graph, Names) /\ Beneath(graph, n) = {} /\ n \notin graph.located
  BY <1>1, BeneathFacts DEF TypeOK
<1>3. TypeOK'
  <2>1. UNCHANGED <<graph, start, stack, answers>> /\ visited' \subseteq Names
    BY <1>1 DEF TypeOK, EnterUnknown
  <2>2. \E R \in SUBSET graph.located : control' = Returning(R)
    BY <1>1
  <2>3. control' # Done
    BY <1>1, ControlValues
  <2>4. WellFormed(graph, Names)'
    BY <2>1, GraphUnchanged DEF TypeOK
  <2> QED BY <1>1, <2>1, <2>2, <2>3, <2>4 DEF TypeOK
<1>4. FramesOK'
  BY <1>1 DEF FramesOK, EnterUnknown
<1>5. NoReentry'
  BY <1>1 DEF NoReentry, EnterUnknown
<1>6. NothingLost'
  BY <1>1, <1>2 DEF NothingLost, Held, EnterUnknown
<1>7. NothingSkipped'
  BY <1>1, <1>2, GraphUnchanged DEF NothingSkipped, EnterUnknown
<1>8. BeneathStart'
  BY <1>1, GraphUnchanged DEF BeneathStart, EnterUnknown
<1> QED BY <1>3, <1>4, <1>5, <1>6, <1>7, <1>8

\* Entering a partition and entering a whole device both push a frame that has
\* found nothing and has everything underneath the device still to call.
LEMMA EnterFrameStep ==
    ASSUME IInv, EnterPartition \/ EnterWhole
    PROVE  IInv'
<1> USE DEF IInv
<1> DEFINE n == control.name
           f == Top'
<1>1. /\ n \in Names /\ control = Calling(n) /\ answers = {} /\ n \notin visited
      /\ n \in graph.blocks \ graph.located
  BY ControlCases, BeneathFacts DEF EnterPartition, EnterWhole, TypeOK
<1>2. PICK g \in Frame :
        /\ stack' = Append(stack, g)
        /\ g.node = n /\ g.found = {} /\ Left(g) = Beneath(graph, n)
        /\ g.loop = "slaves" => g.todo \subseteq graph.slaves[n]
        /\ g.loop = "parents" => n \in graph.partitions /\ g.todo \subseteq graph.parent[n]
  <2>1. WellFormed(graph, Names)
    BY DEF TypeOK
  <2>2. CASE EnterPartition
    <3> DEFINE g == [node |-> n, loop |-> "parents", todo |-> graph.parent[n], found |-> {}]
    <3>1. g \in Frame /\ stack' = Append(stack, g) /\ n \in graph.partitions \ graph.located
      BY <1>1, <2>1, <2>2, BeneathFacts DEF EnterPartition, Frame
    <3>2. Left(g) = Beneath(graph, n)
      BY <1>1, <2>1, <3>1, BeneathFacts DEF Left
    <3> QED BY <3>1, <3>2
  <2>3. CASE EnterWhole
    <3> DEFINE g == [node |-> n, loop |-> "slaves", todo |-> graph.slaves[n], found |-> {}]
    <3>1. g \in Frame /\ stack' = Append(stack, g) /\ n \in graph.blocks \ graph.partitions
      BY <1>1, <2>1, <2>3, BeneathFacts DEF EnterWhole, Frame
    <3>2. Left(g) = Beneath(graph, n)
      BY <1>1, <2>1, <3>1, BeneathFacts DEF Left
    <3> QED BY <3>1, <3>2
  <2> QED BY <2>2, <2>3
<1>3. /\ UNCHANGED <<graph, start, answers>>
      /\ visited' = visited \cup {n} /\ control' = Looping
  BY DEF EnterPartition, EnterWhole
<1>4. /\ stack \in Seq(Frame) /\ stack' \in Seq(Frame) /\ stack' # << >>
      /\ Len(stack) \in Nat /\ Len(stack') = Len(stack) + 1
      /\ \A i \in 1..Len(stack) : stack'[i] = stack[i]
      /\ stack'[Len(stack) + 1] = g
      /\ FoundIn(stack') = FoundIn(stack) \cup g.found
  <2>1. stack \in Seq(Frame) /\ Len(stack) \in Nat /\ g \in Frame
    BY <1>2 DEF TypeOK
  <2>2. stack' = Append(stack, g)
    BY <1>2
  <2> QED BY ONLY <2>1, <2>2, Push
<1>5. \A i \in 1..Len(stack') : i \in 1..Len(stack) \/ i = Len(stack')
  BY <1>4
<1>6. TypeOK'
  BY <1>1, <1>3, <1>4, GraphUnchanged DEF TypeOK
<1>7. FramesOK'
  <2> SUFFICES ASSUME NEW i \in 1..Len(stack')
               PROVE  /\ stack'[i].node \in graph.blocks \ graph.located
                      /\ stack'[i].loop = "slaves" =>
                           stack'[i].todo \subseteq graph.slaves[stack'[i].node]
                      /\ stack'[i].loop = "parents" =>
                           /\ stack'[i].node \in graph.partitions
                           /\ stack'[i].found = {}
                           /\ stack'[i].todo \subseteq graph.parent[stack'[i].node]
                           /\ i < Len(stack') \/ control' # Looping => stack'[i].todo = {}
    BY <1>3 DEF FramesOK
  <2>1. CASE i \in 1..Len(stack)
    BY <1>1, <1>4, <2>1 DEF FramesOK
  <2>2. CASE i = Len(stack')
    BY <1>1, <1>2, <1>3, <1>4, <2>2
  <2> QED BY <1>5, <2>1, <2>2
<1>8. NoReentry'
  BY <1>1, <1>2, <1>3, <1>4, <1>5 DEF NoReentry
<1>9. NothingLost'
  BY <1>1, <1>2, <1>3, <1>4 DEF NothingLost, Held
<1>10. NothingSkipped'
  <2> SUFFICES ASSUME NEW k \in visited', NEW m \in Beneath(graph, k)
               PROVE  \/ m \in visited'
                      \/ control' = Calling(m)
                      \/ \E i \in 1..Len(stack') : stack'[i].node = k /\ m \in Left(stack'[i])
    BY <1>3, NothingSkippedNext
  <2>1. CASE k = n
    BY <1>2, <1>3, <1>4, <1>5, <2>1, GraphUnchanged
  <2>2. CASE k # n
    <3>1. k \in visited
      BY <1>3, <2>2
    <3>2. CASE m \in visited \/ control = Calling(m)
      <4>1. Calling(m) = Calling(n) => m = n
        BY DEF Calling
      <4> QED BY <1>1, <1>3, <3>2, <4>1
    <3>3. ASSUME NEW i \in 1..Len(stack), stack[i].node = k, m \in Left(stack[i])
          PROVE  i \in 1..Len(stack') /\ stack'[i].node = k /\ m \in Left(stack'[i])
      BY <1>3, <1>4, <3>3, GraphUnchanged
    <3> QED BY <3>1, <3>2, <3>3 DEF NothingSkipped
  <2> QED BY <2>1, <2>2
<1>11. BeneathStart'
  BY <1>1, <1>3, GraphUnchanged DEF BeneathStart
<1> QED BY <1>6, <1>7, <1>8, <1>9, <1>10, <1>11

\* The fields of a frame of the stack.
LEMMA TopFacts ==
    ASSUME IInv, stack # << >>
    PROVE  /\ stack \in Seq(Frame) /\ Len(stack) \in Nat /\ Len(stack) \in 1..Len(stack)
           /\ Top \in Frame /\ Top = stack[Len(stack)]
           /\ Top.node \in Names /\ Top.loop \in {"parents", "slaves"}
           /\ Top.todo \subseteq Names /\ Top.found \subseteq graph.located
           /\ Top.node \in visited \cap (graph.blocks \ graph.located)
           /\ Top.todo \subseteq Beneath(graph, Top.node)
           /\ WellFormed(graph, Names)
<1>1. stack \in Seq(Frame) /\ Len(stack) \in Nat /\ Len(stack) \in 1..Len(stack)
  BY DEF IInv, TypeOK
<1>2. Top \in Frame /\ Top = stack[Len(stack)]
  BY <1>1 DEF Top
<1>3. /\ Top.node \in Names /\ Top.loop \in {"parents", "slaves"}
      /\ Top.todo \subseteq Names
  BY <1>2 DEF Frame
<1>4. Top.found \subseteq graph.located
  BY <1>1, <1>2 DEF IInv, NothingLost, Held, FoundIn
<1>5. Top.node \in visited \cap (graph.blocks \ graph.located)
  BY <1>1, <1>2 DEF IInv, FramesOK, NoReentry
<1>6. Top.todo \subseteq Beneath(graph, Top.node)
  BY <1>1, <1>2, <1>3, <1>5 DEF IInv, FramesOK, Beneath
<1> QED BY <1>1, <1>2, <1>3, <1>4, <1>5, <1>6 DEF IInv, TypeOK

LEMMA CallNextStep ==
    ASSUME IInv, CallNext
    PROVE  IInv'
<1> USE DEF IInv
<1> DEFINE l == Len(stack)
<1>1. control = Looping /\ stack # << >> /\ answers = {}
  BY ControlCases DEF CallNext
<1>2. PICK n \in Top.todo :
        /\ control' = Calling(n)
        /\ stack' = WithTop(stack, [Top EXCEPT !.todo = @ \ {n}])
        /\ UNCHANGED <<graph, start, visited, answers>>
  BY DEF CallNext
<1> DEFINE f == [Top EXCEPT !.todo = @ \ {n}]
<1>u. control' = Calling(n) /\ UNCHANGED <<graph, start, visited, answers>>
  BY <1>2
<1>3. f \in Frame /\ stack' = WithTop(stack, f)
  BY <1>1, <1>2, TopFacts DEF Frame
<1>4. /\ f.node = Top.node /\ f.loop = Top.loop /\ f.found = Top.found
      /\ f.todo = Top.todo \ {n}
  BY <1>1, TopFacts DEF Frame
<1>5. /\ stack' \in Seq(Frame) /\ stack' # << >> /\ Len(stack') = l
      /\ stack'[l] = f /\ \A i \in 1..l : i # l => stack'[i] = stack[i]
      /\ FoundIn(stack') = FoundIn(stack)
  <2> HIDE DEF f
  <2>1. stack \in Seq(Frame) /\ Top = stack[l] /\ l \in 1..l
    BY <1>1, TopFacts
  <2>2. /\ stack' \in Seq(Frame) /\ stack' # << >> /\ Len(stack') = l
        /\ stack'[l] = f /\ \A i \in 1..l : i # l => stack'[i] = stack[i]
        /\ stack[l].found \subseteq f.found => FoundIn(stack') = FoundIn(stack) \cup f.found
    BY ONLY <1>1, <1>3, <2>1, Update
  <2>3. f.found \subseteq FoundIn(stack)
    BY <1>4, <2>1 DEF FoundIn
  <2> QED BY <1>4, <2>1, <2>2, <2>3
<1> HIDE DEF f
<1>6. n \in Names /\ n \in Beneath(graph, Top.node)
  BY <1>1, TopFacts
<1>7. TypeOK'
  <2>1. control' # Done /\ \E m \in Names : control' = Calling(m)
    BY <1>u, <1>6, ControlValues
  <2>2. WellFormed(graph, Names)'
    BY <1>u, GraphUnchanged DEF TypeOK
  <2> QED BY <1>1, <1>u, <1>5, <2>1, <2>2 DEF TypeOK
<1>8. FramesOK'
  <2>1. Top.loop = "parents" => f.todo = {}
    <3>1. Top.loop = "parents" => Top.todo \subseteq graph.parent[Top.node]
      BY <1>1, TopFacts DEF FramesOK
    <3> QED BY <1>1, <1>4, <3>1, TopFacts, BeneathFacts
  <2>2. stack[l] = Top /\ Top.loop \in {"parents", "slaves"} /\ l \in Nat
    BY <1>1, TopFacts
  <2>3. ASSUME NEW i \in 1..l
        PROVE  stack'[i].node = stack[i].node /\ stack'[i].loop = stack[i].loop /\
               stack'[i].found = stack[i].found /\ stack'[i].todo \subseteq stack[i].todo
    BY <1>4, <1>5, <2>2
  <2>4. \A i \in 1..l : i # l => i < l
    BY <2>2
  <2> QED BY <1>u, <1>5, <2>1, <2>2, <2>3, <2>4 DEF FramesOK
<1>9. NoReentry'
  <2>1. stack[l] = Top
    BY <1>1, TopFacts
  <2>2. \A i \in 1..l : stack'[i].node = stack[i].node
    BY <1>4, <1>5, <2>1
  <2> QED BY <1>u, <1>5, <2>2 DEF NoReentry
<1>10. NothingLost'
  BY <1>1, <1>u, <1>5 DEF NothingLost, Held
<1>11. NothingSkipped'
  <2> SUFFICES ASSUME NEW k \in visited, NEW m \in Beneath(graph, k)
               PROVE  \/ m \in visited
                      \/ control' = Calling(m)
                      \/ \E i \in 1..l : stack'[i].node = k /\ m \in Left(stack'[i])
    BY <1>u, <1>5, NothingSkippedNext
  <2>1. CASE m = n
    BY <1>u, <2>1
  <2>2. ASSUME m # n, NEW i \in 1..l, stack[i].node = k, m \in Left(stack[i])
        PROVE  stack'[i].node = k /\ m \in Left(stack'[i])
    <3>1. stack[l] = Top
      BY <1>1, TopFacts
    <3>2. CASE i = l
      BY <1>4, <1>5, <2>2, <3>1, <3>2 DEF Left
    <3>3. CASE i # l
      BY <1>5, <2>2, <3>3
    <3> QED BY <3>2, <3>3
  <2>3. control # Calling(m)
    BY <1>1
  <2> QED BY <2>1, <2>2, <2>3 DEF NothingSkipped
<1>12. BeneathStart'
  <2>1. Top.node \in Underneath(graph, start, Names)
    BY <1>1, TopFacts DEF BeneathStart
  <2>2. n \in Underneath(graph, start, Names)
    BY <1>1, <1>6, <2>1, TopFacts, UnderneathClosed
  <2>3. start \in visited
    BY <1>1 DEF BeneathStart
  <2> QED BY <1>u, <2>2, <2>3, GraphUnchanged DEF BeneathStart
<1> QED BY <1>7, <1>8, <1>9, <1>10, <1>11, <1>12

\* A loop that goes on: the top frame changes and still has to call what it had.
LEMMA LoopStep ==
    ASSUME IInv, stack # << >>, NEW f \in Frame,
           stack' = WithTop(stack, f), control' = Looping,
           UNCHANGED <<graph, start, visited, answers>>,
           control = Looping \/ control.op = "return",
           f.node = Top.node, Left(f) = Left(Top),
           FoundIn(stack) \cup f.found = visited \cap graph.located,
           Top.found \subseteq f.found,
           f.loop = "slaves", f.todo \subseteq graph.slaves[f.node]
    PROVE  IInv'
<1> USE DEF IInv
<1> DEFINE l == Len(stack)
<1>1. control # Done /\ answers = {} /\ \A n : control # Calling(n)
  BY ControlCases, ControlValues
<1>2. stack[l] = Top /\ l \in 1..l /\ l \in Nat /\ stack \in Seq(Frame)
  BY TopFacts
<1>3. /\ stack' \in Seq(Frame) /\ stack' # << >> /\ Len(stack') = l
      /\ stack'[l] = f /\ \A i \in 1..l : i # l => stack'[i] = stack[i]
      /\ FoundIn(stack') = FoundIn(stack) \cup f.found
  BY <1>2, Update
<1>4. TypeOK'
  <2>1. WellFormed(graph, Names)'
    BY GraphUnchanged DEF TypeOK
  <2> QED BY <1>1, <1>3, <2>1, ControlValues DEF TypeOK
<1>5. FramesOK'
  <2>1. \A i \in 1..l : i # l => i < l
    BY <1>2
  <2>2. f.node \in graph.blocks \ graph.located
    BY <1>2 DEF FramesOK
  <2> QED BY <1>2, <1>3, <2>1, <2>2 DEF FramesOK
<1>6. NoReentry'
  <2>1. \A i \in 1..l : stack'[i].node = stack[i].node
    BY <1>2, <1>3
  <2> QED BY <1>3, <2>1 DEF NoReentry
<1>7. NothingLost'
  BY <1>1, <1>3 DEF NothingLost, Held
<1>8. NothingSkipped'
  <2> SUFFICES ASSUME NEW k \in visited, NEW m \in Beneath(graph, k), m \notin visited
               PROVE  \E i \in 1..l : stack'[i].node = k /\ m \in Left(stack'[i])
    BY <1>3, NothingSkippedNext
  <2>1. PICK i \in 1..l : stack[i].node = k /\ m \in Left(stack[i])
    BY <1>1 DEF NothingSkipped
  <2>2. CASE i = l
    BY <1>2, <1>3, <2>1, <2>2
  <2>3. CASE i # l
    BY <1>3, <2>1, <2>3
  <2> QED BY <2>2, <2>3
<1>9. BeneathStart'
  BY <1>1, GraphUnchanged, ControlValues DEF BeneathStart
<1> QED BY <1>4, <1>5, <1>6, <1>7, <1>8, <1>9

\* A return: the top frame goes, with nothing left to call.
LEMMA ReturnStep ==
    ASSUME IInv, stack # << >>, NEW R \in SUBSET graph.located,
           stack' = WithoutTop(stack), control' = Returning(R),
           UNCHANGED <<graph, start, visited, answers>>,
           control = Looping \/ control.op = "return",
           Left(Top) = {},
           FoundIn(WithoutTop(stack)) \cup R = visited \cap graph.located
    PROVE  IInv'
<1> USE DEF IInv
<1> DEFINE l == Len(stack)
<1>1. control # Done /\ answers = {} /\ \A n : control # Calling(n)
  BY ControlCases, ControlValues
<1>2. stack[l] = Top /\ l \in 1..l /\ l \in Nat /\ stack \in Seq(Frame)
  BY TopFacts
<1>3. /\ stack' \in Seq(Frame) /\ Len(stack') = l - 1
      /\ \A i \in 1..Len(stack') : i \in 1..l /\ stack'[i] = stack[i]
      /\ \A i \in 1..l : i \in 1..Len(stack') \/ i = l
  BY <1>2, Pop
<1>4. TypeOK'
  <2>1. WellFormed(graph, Names)'
    BY GraphUnchanged DEF TypeOK
  <2>2. control' # Done
    BY ControlValues
  <2> QED BY <1>1, <1>3, <2>1, <2>2 DEF TypeOK
<1>5. FramesOK'
  <2>1. \A i \in 1..Len(stack') : i \in 1..l /\ i < l
    BY <1>2, <1>3
  <2> QED BY <1>3, <2>1 DEF FramesOK
<1>6. NoReentry'
  <2>1. ASSUME NEW i \in 1..Len(stack'), NEW j \in 1..Len(stack'),
               stack'[i].node = stack'[j].node
        PROVE  i = j
    BY <1>3, <2>1 DEF NoReentry
  <2>2. \A i \in 1..Len(stack') : stack'[i].node \in visited \cap graph.blocks
    BY <1>3 DEF NoReentry
  <2> QED BY <2>1, <2>2 DEF NoReentry
<1>7. NothingLost'
  BY <1>1 DEF NothingLost, Held
<1>8. NothingSkipped'
  <2> SUFFICES ASSUME NEW k \in visited, NEW m \in Beneath(graph, k), m \notin visited
               PROVE  \E i \in 1..Len(stack') : stack'[i].node = k /\ m \in Left(stack'[i])
    BY NothingSkippedNext
  <2>1. PICK i \in 1..l : stack[i].node = k /\ m \in Left(stack[i])
    BY <1>1 DEF NothingSkipped
  <2>2. i \in 1..Len(stack')
    BY <1>2, <1>3, <2>1
  <2> QED BY <1>3, <2>1, <2>2
<1>9. BeneathStart'
  BY <1>1, GraphUnchanged, ControlValues DEF BeneathStart
<1> QED BY <1>4, <1>5, <1>6, <1>7, <1>8, <1>9

LEMMA TakeSlaveResultStep ==
    ASSUME IInv, TakeSlaveResult
    PROVE  IInv'
<1> DEFINE f == [Top EXCEPT !.found = @ \cup control.value]
<1>1. /\ stack # << >> /\ control.value \subseteq graph.located /\ answers = {}
      /\ Top.loop = "slaves" /\ control.op = "return"
      /\ stack' = WithTop(stack, f) /\ control' = Looping
      /\ UNCHANGED <<graph, start, visited, answers>>
  BY ControlCases DEF TakeSlaveResult, IInv
<1>2. graph.located \subseteq Names
  BY <1>1, TopFacts, BeneathFacts
<1>3. /\ f \in Frame /\ f.node = Top.node /\ f.todo = Top.todo /\ f.loop = Top.loop
      /\ f.found = Top.found \cup control.value
  BY <1>1, <1>2, TopFacts DEF Frame
<1> HIDE DEF f
<1>4. Left(f) = Left(Top)
  BY <1>3 DEF Left
<1>5. FoundIn(stack) \cup f.found = visited \cap graph.located
  <2>1. Top.found \subseteq FoundIn(stack)
    BY <1>1, TopFacts DEF FoundIn
  <2> QED BY <1>1, <1>3, <2>1 DEF IInv, NothingLost, Held
<1>6. f.todo \subseteq graph.slaves[f.node]
  BY <1>1, <1>3, TopFacts DEF IInv, FramesOK
<1> QED BY <1>1, <1>3, <1>4, <1>5, <1>6, LoopStep

LEMMA ParentsExhaustedStep ==
    ASSUME IInv, ParentsExhausted
    PROVE  IInv'
<1> DEFINE f == [Top EXCEPT !.loop = "slaves", !.todo = graph.slaves[Top.node]]
<1>1. /\ stack # << >> /\ control = Looping /\ Top.loop = "parents" /\ Top.todo = {}
      /\ answers = {} /\ stack' = WithTop(stack, f) /\ control' = Looping
      /\ UNCHANGED <<graph, start, visited, answers>>
  BY ControlCases DEF ParentsExhausted, IInv
<1>2. graph.slaves[Top.node] \subseteq Names
  BY <1>1, TopFacts, BeneathFacts
<1>3. /\ f \in Frame /\ f.node = Top.node /\ f.todo = graph.slaves[Top.node]
      /\ f.loop = "slaves" /\ f.found = Top.found
  BY <1>1, <1>2, TopFacts DEF Frame
<1> HIDE DEF f
<1>4. Left(f) = Left(Top)
  BY <1>1, <1>3 DEF Left
<1>5. FoundIn(stack) \cup f.found = visited \cap graph.located
  <2>1. Top.found \subseteq FoundIn(stack)
    BY <1>1, TopFacts DEF FoundIn
  <2> QED BY <1>1, <1>3, <2>1 DEF IInv, NothingLost, Held
<1> QED BY <1>1, <1>3, <1>4, <1>5, LoopStep

LEMMA TakeParentResultStep ==
    ASSUME IInv, TakeParentResult
    PROVE  IInv'
<1>1. /\ stack # << >> /\ control.value \subseteq graph.located /\ answers = {}
      /\ Top.loop = "parents" /\ control.op = "return" /\ control = Returning(control.value)
      /\ UNCHANGED <<graph, start, visited, answers>>
  BY ControlCases DEF TakeParentResult, IInv
<1>2. Top.found = {} /\ Top.todo = {} /\ Top.node \in graph.partitions
  BY <1>1, TopFacts, ControlValues DEF IInv, FramesOK
<1>3. CASE control.value # {}
  <2>1. stack' = WithoutTop(stack) /\ control' = Returning(control.value)
    BY <1>1, <1>3 DEF TakeParentResult
  <2>2. Left(Top) = {}
    BY <1>1, <1>2, TopFacts, BeneathFacts DEF Left
  <2>3. FoundIn(WithoutTop(stack)) \cup control.value = visited \cap graph.located
    <3>1. FoundIn(stack) = FoundIn(WithoutTop(stack)) \cup Top.found
      BY <1>1, TopFacts, Pop
    <3> QED BY <1>1, <1>2, <3>1 DEF IInv, NothingLost, Held
  <2> QED BY <1>1, <2>1, <2>2, <2>3, ReturnStep
<1>4. CASE control.value = {}
  <2>1. stack' = stack /\ control' = Looping
    BY <1>1, <1>4 DEF TakeParentResult
  <2>2. control # Done /\ \A n : control # Calling(n)
    BY <1>1, ControlValues
  <2>3. TypeOK'
    BY <1>1, <2>1, <2>2, GraphUnchanged, ControlValues DEF IInv, TypeOK
  <2>4. FramesOK' /\ NoReentry'
    BY <1>1, <2>1 DEF IInv, FramesOK, NoReentry
  <2>5. NothingLost'
    BY <1>1, <1>4, <2>1 DEF IInv, NothingLost, Held
  <2>6. NothingSkipped'
    <3>1. \A k \in visited : \A m \in Beneath(graph, k) :
            m \in visited \/ \E i \in 1..Len(stack) : stack[i].node = k /\ m \in Left(stack[i])
      BY <2>2 DEF IInv, NothingSkipped
    <3> QED BY <1>1, <2>1, <3>1, NothingSkippedNext
  <2>7. BeneathStart'
    BY <1>1, <2>1, <2>2, GraphUnchanged, ControlValues DEF IInv, BeneathStart
  <2> QED BY <2>3, <2>4, <2>5, <2>6, <2>7 DEF IInv
<1> QED BY <1>3, <1>4

LEMMA ReturnActionStep ==
    ASSUME IInv, Return
    PROVE  IInv'
<1>1. /\ stack # << >> /\ control = Looping /\ Top.loop = "slaves" /\ Top.todo = {}
      /\ answers = {} /\ stack' = WithoutTop(stack) /\ control' = Returning(Top.found)
      /\ UNCHANGED <<graph, start, visited, answers>>
  BY ControlCases DEF Return, IInv
<1>2. Left(Top) = {}
  BY <1>1 DEF Left
<1>3. FoundIn(WithoutTop(stack)) \cup Top.found = visited \cap graph.located
  <2>1. FoundIn(stack) = FoundIn(WithoutTop(stack)) \cup Top.found
    BY <1>1, TopFacts, Pop
  <2> QED BY <1>1, <2>1 DEF IInv, NothingLost, Held
<1> QED BY <1>1, <1>2, <1>3, TopFacts, ReturnStep

LEMMA FinishStep ==
    ASSUME IInv, Finish
    PROVE  IInv'
<1> USE DEF IInv
<1>1. /\ stack = << >> /\ control.value \subseteq graph.located /\ answers = {}
      /\ control.op = "return" /\ control' = Done /\ answers' = {control.value}
      /\ UNCHANGED <<graph, start, visited, stack>>
  BY ControlCases DEF Finish
<1>2. control # Done /\ \A n : control # Calling(n)
  BY <1>1, ControlValues
<1>3. TypeOK'
  BY <1>1, GraphUnchanged DEF TypeOK
<1>4. FramesOK' /\ NoReentry'
  BY <1>1 DEF FramesOK, NoReentry
<1>5. NothingLost'
  BY <1>1 DEF NothingLost, Held
<1>6. NothingSkipped'
  <2>1. \A k \in visited : \A m \in Beneath(graph, k) : m \in visited
    BY <1>1, <1>2 DEF NothingSkipped
  <2> QED BY <1>1, <2>1, NothingSkippedNext
<1>7. BeneathStart'
  BY <1>1, <1>2, GraphUnchanged, ControlValues DEF BeneathStart
<1> QED BY <1>3, <1>4, <1>5, <1>6, <1>7

LEMMA NextIInv == IInv /\ [Next]_vars => IInv'
<1> SUFFICES ASSUME IInv, [Next]_vars PROVE IInv'
  OBVIOUS
<1>1. CASE EnterVisited
  BY <1>1, EnterVisitedStep
<1>2. CASE EnterLocated
  BY <1>2, EnterLocatedStep
<1>3. CASE EnterUnknown
  BY <1>3, EnterUnknownStep
<1>4. CASE EnterPartition \/ EnterWhole
  BY <1>4, EnterFrameStep
<1>5. CASE CallNext
  BY <1>5, CallNextStep
<1>6. CASE TakeParentResult
  BY <1>6, TakeParentResultStep
<1>7. CASE TakeSlaveResult
  BY <1>7, TakeSlaveResultStep
<1>8. CASE ParentsExhausted
  BY <1>8, ParentsExhaustedStep
<1>9. CASE Return
  BY <1>9, ReturnActionStep
<1>10. CASE Finish
  BY <1>10, FinishStep
<1>11. CASE UNCHANGED vars
  <2>1. /\ graph' = graph /\ start' = start /\ visited' = visited
        /\ stack' = stack /\ control' = control /\ answers' = answers
    BY <1>11 DEF vars
  <2>2. TypeOK' /\ BeneathStart'
    BY <2>1, GraphUnchanged DEF IInv, TypeOK, BeneathStart
  <2>3. FramesOK' /\ NoReentry' /\ NothingLost'
    BY <2>1 DEF IInv, FramesOK, NoReentry, NothingLost, Held
  <2>4. NothingSkipped'
    BY <2>1, NothingSkippedNext DEF IInv, NothingSkipped
  <2> QED BY <2>2, <2>3, <2>4 DEF IInv
<1> QED BY <1>1, <1>2, <1>3, <1>4, <1>5, <1>6, <1>7, <1>8, <1>9, <1>10, <1>11 DEF Next

-------------------------------------------------------------------------------
\* The inductive invariant of linuxBackingPartitions holds throughout a call.
THEOREM Invariance == Spec => []IInv
<1>1. Init => IInv
  BY InitIInv
<1>2. IInv /\ [Next]_vars => IInv'
  BY NextIInv
<1> QED BY <1>1, <1>2, PTL DEF Spec

\* Type correctness: activations hold block names, results are reported
\* partitions, and the answer is one of those results.
THEOREM TypeCorrect == Spec => []TypeOK
<1>1. IInv => TypeOK
  BY DEF IInv
<1> QED BY <1>1, Invariance, PTL

\* The recursion never walks a device it is already walking, on any graph: the
\* call stack is never deeper than there are block devices.
THEOREM RecursionBounded == Spec => []NoReentry
<1>1. IInv => NoReentry
  BY DEF IInv
<1> QED BY <1>1, Invariance, PTL

\* A reported partition that was visited is never dropped on the way up.
THEOREM PartitionsKept == Spec => []NothingLost
<1>1. IInv => NothingLost
  BY DEF IInv
<1> QED BY <1>1, Invariance, PTL

\* Nothing underneath a visited device is forgotten.
THEOREM DevicesKept == Spec => []NothingSkipped
<1>1. IInv => NothingSkipped
  BY DEF IInv
<1> QED BY <1>1, Invariance, PTL

\* When the outermost call returns, the devices visited are exactly those
\* underneath the start, and the value is exactly the reported ones among them.
LEMMA AnswerIsBacking ==
    ASSUME IInv, Finish
    PROVE  control.value = Backing(graph, start, Names)
<1>1. stack = << >> /\ control.op = "return" /\ answers = {}
  BY ControlCases DEF Finish, IInv
<1>2. control # Done /\ \A n : control # Calling(n)
  BY <1>1, ControlValues
<1>3. Closed(graph, visited) /\ start \in visited /\ visited \subseteq Names
  BY <1>1, <1>2 DEF IInv, NothingSkipped, BeneathStart, TypeOK, Closed
<1>4. visited = Underneath(graph, start, Names)
  BY <1>3, UnderneathLeast DEF IInv, BeneathStart
<1>5. control.value = visited \cap graph.located
  BY <1>1 DEF IInv, NothingLost, Held, FoundIn
<1> QED BY <1>4, <1>5 DEF Backing

\* The walk implements its abstract specification: for every well-formed graph
\* the one answer it gives is the set of reported partitions underneath the
\* device attachLinuxVolumes asked about.
THEOREM Implementation == Spec => ImplementsBacking
<1>1. \A g, s : B!Backing(g, s, Names) = Backing(g, s, Names)
  BY DEF B!Backing, B!Underneath, B!Closed, B!Beneath, Backing, Underneath, Closed, Beneath
<1>2. Init => B!Init
  BY GraphsAssumption DEF Init, B!Init, B!WellFormed, WellFormed
<1>3. IInv /\ [Next]_vars => [B!Answer]_B!bvars
  <2> SUFFICES ASSUME IInv, [Next]_vars PROVE [B!Answer]_B!bvars
    OBVIOUS
  <2>1. CASE Finish
    <3>1. control.value = Backing(graph, start, Names) /\ answers = {}
      BY <2>1, AnswerIsBacking, ControlCases DEF Finish, IInv
    <3> QED BY <1>1, <2>1, <3>1 DEF Finish, B!Answer
  <2>2. CASE ~Finish
    BY <2>2 DEF Next, vars, B!bvars, EnterVisited, EnterLocated, EnterUnknown,
                EnterPartition, EnterWhole, CallNext, TakeParentResult,
                TakeSlaveResult, ParentsExhausted, Return
  <2> QED BY <2>1, <2>2
<1> QED BY <1>2, <1>3, Invariance, PTL DEF Spec, ImplementsBacking, B!Spec
===============================================================================
