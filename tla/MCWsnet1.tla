------------------------------- MODULE MCWsnet1 -------------------------------
(***************************************************************************)
(* Small instances of Wsnet1: two or three nodes, programs of at most      *)
(* three bytes, a run of a few instructions.                               *)
(***************************************************************************)
EXTENDS Wsnet1, TLC

CONSTANTS n1, n2, n3

Two == {n1, n2}
Three == {n1, n2, n3}

\* Early and late bytes, one after the other or far apart: with a period of
\* 5 or 8 a byte of one node often ends before the rendez-vous that another
\* has already reached.
Early2 == {<<1>>, <<1, 3>>, <<4, 5>>, <<6>>}
Late2  == {<<7>>, <<1, 3, 7>>, <<4, 5>>, <<6, 6>>}
\* A byte that is later than both bytes of the other node: its BACKTRACK may
\* end the wait for the first of them.
Torn2  == {<<14>>, <<10, 13>>}
One3   == {<<>>, <<1>>}
Some3  == {<<1>>, <<1, 3>>, <<4>>}

\* The bytes of n1 are longer than those of the others.
Long1 == [n \in Nodes |-> IF n = n1 THEN 2 ELSE 1]
Long24 == [n \in Nodes |-> IF n = n1 THEN 4 ELSE 2]
Ones  == [n \in Nodes |-> 1]

\* The instructions of n2 are longer than those of the others.
Slow2 == [n \in Nodes |-> IF n = n2 THEN 2 ELSE 1]

Run5  == [n \in Nodes |-> 5]
Run8  == [n \in Nodes |-> 8]
Run12 == [n \in Nodes |-> 12]
Run26 == [n \in Nodes |-> 26]

CC1100 == [n \in Nodes |-> "cc1100"]
CC2420 == [n \in Nodes |-> "cc2420"]
Mixed  == [n \in Nodes |-> IF n = n1 THEN "cc1100" ELSE "cc2420"]

\* n2 and n3 have the same bytes and instructions when Quantum is Ones.
Alike == Permutations({n2, n3})
=============================================================================
