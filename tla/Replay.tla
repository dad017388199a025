--------------------------------- MODULE Replay --------------------------------
(***************************************************************************)
(* What libselect promises to a machine that may go back in time: an input *)
(* stream it reads in order, and reads again when it goes back.            *)
(***************************************************************************)
EXTENDS Naturals, Sequences

CONSTANT Byte

VARIABLES
  stream,  \* what has come in
  taken,   \* what the machine has read
  kept     \* what it had read when its state was saved

vars == <<stream, taken, kept>>

Init == stream = <<>> /\ taken = <<>> /\ kept = <<>>

Supply ==
  /\ stream' \in Seq(Byte) /\ Len(stream') > Len(stream)
  /\ \A i \in 1..Len(stream) : stream'[i] = stream[i]
  /\ UNCHANGED <<taken, kept>>

Take ==
  /\ Len(taken) < Len(stream)
  /\ taken' = Append(taken, stream[Len(taken) + 1])
  /\ UNCHANGED <<stream, kept>>

Save == kept' = taken /\ UNCHANGED <<stream, taken>>

GoBack == taken' = kept /\ UNCHANGED <<stream, kept>>

Next == Supply \/ Take \/ Save \/ GoBack

Spec == Init /\ [][Next]_vars
=============================================================================
