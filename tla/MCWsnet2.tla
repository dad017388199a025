------------------------------- MODULE MCWsnet2 -------------------------------
(***************************************************************************)
(* Two nodes of different speeds; the server may refuse them, or list its  *)
(* antennas in an order in which the client does not find its own.         *)
(***************************************************************************)
EXTENDS Wsnet2

CONSTANTS n1, n2

Two == {n1, n2}
One == {n2}

Omni == [n \in Nodes |-> <<"omni">>]
Orders == {<<"omni", "directional">>, <<"directional", "omni">>}

Byte(at, dur) == [at |-> at, dur |-> dur, kind |-> "byte"]
Ask(at, dur) == [at |-> at, dur |-> dur, kind |-> "measure"]

Progs == [n \in Nodes |->
  IF n = n1 THEN {<<Byte(1, 2)>>, <<Byte(1, 1), Byte(3, 2)>>, <<Ask(2, 1)>>}
  ELSE {<<>>, <<Byte(1, 3), Byte(4, 1)>>, <<Byte(2, 1), Ask(2, 3)>>}]

Speed == [n \in Nodes |-> IF n = n2 THEN 2 ELSE 1]
Run10 == [n \in Nodes |-> 10]
=============================================================================
