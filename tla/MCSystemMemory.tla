----------------------------- MODULE MCSystemMemory -----------------------------
(* Bytes of four bits, Kilo = 2 and bytes counted in nine.  Linux: every         *)
(* sequence of up to five bytes from 0 to 5 as an entry, and up to three of a    *)
(* few together, unreadable ones among them.  macOS: every sequence of up to six *)
(* bytes from 0 to 3, and up to four pieces of a table together.  Windows: up to *)
(* three rows.  Sizes lie at the borders: none, unknown, in both units, extended *)
(* ones with and without the reserved top bit, sums just within or beyond.       *)
EXTENDS SystemMemory

Structure(size, extended) == <<1, 9, size % 16, size \div 16, 1>> \o extended \o <<5, 0, 0>>

Sized ==
    {Structure(s, <<0, 0, 0, 0>>) : s \in {0, 255, 128, 129, 254, 1, 126, 127}}
      \cup {Structure(127, e) : e \in {<<0, 0, 0, 8>>, <<15, 7, 0, 0>>, <<0, 8, 0, 0>>, <<1, 0, 0, 8>>}}

Texts ==
    {<<1, 5, 2, 0, 1, 4, 0, 0>>, <<1, 5, 3, 0, 2, 5, 0, 4, 0, 0>>, <<1, 5, 0, 0, 1, 2, 0, 0>>,
     <<1, 5, 1, 0, 3, 0, 0>>}

FewRaws ==
    Texts \cup {<< >>, <<1>>, <<1, 1, 0, 0>>, <<1, 3, 1, 2, 0>>, <<1, 5, 3, 0, 2, 5, 0, 3>>,
                <<1, 4, 2, 1, 0, 3, 3>>, <<3, 2, 0, 0>>, <<1, 7, 0, 0>>, Unreadable}

\* BIOS structures with and without strings, a structure with zeros in the
\* formatted part that look like one, one that is cut, the last one; text and
\* padding that is none.
Pieces ==
    Texts \cup {<<0, 3, 1, 2, 0, 0>>, <<0, 3, 0, 0, 0>>, <<1, 5, 0, 3, 0, 0, 0>>,
                <<1, 3, 1, 0, 3, 0, 0>>, <<3, 2, 0, 0>>, <<0>>, <<4, 4>>, <<0, 4, 0, 0>>}

Rows == {[capacity |-> c, location |-> l] :
           c \in {None, 0, 1, 255, 256, 500, 511}, l \in {<< >>, <<1>>}}

Totals == {0, 1, 255, 256, 511}

Group(s, inputs, totals) == [system |-> s, inputs |-> inputs, totals |-> totals]

MCMachines ==
    {Group("linux", SeqOf(UNION {[1..n -> 0..5] : n \in 0..5}, 1), {0}),
     Group("linux", SeqOf(FewRaws, 3), {0}),
     Group("linux", SeqOf(Sized, 3), Totals),
     Group("darwin", {<<b>> : b \in UNION {[1..n -> 0..3] : n \in 0..6}}, {0}),
     Group("darwin", {<<FlattenSeq(p)>> : p \in SeqOf(Pieces, 4)}, {0}),
     Group("darwin", {<<FlattenSeq(p)>> : p \in SeqOf(Sized, 2)}, Totals),
     Group("windows", SeqOf(Rows, 3), Totals)}
===============================================================================
