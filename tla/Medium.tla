-------------------------------- MODULE Medium --------------------------------
(***************************************************************************)
(* The radio medium a WSNet server promises to its nodes, whatever they    *)
(* send and in whatever order their datagrams arrive: bytes are on the air *)
(* from a start to an end, simulated time never passes the end of a byte   *)
(* that nobody has heard yet, and a byte is heard exactly when it ends.    *)
(* There are no rendez-vous, no datagrams and no backtracks here.          *)
(***************************************************************************)
EXTENDS Integers, Sequences

CONSTANT Nodes

VARIABLES
  clock,  \* simulated time
  onair,  \* bytes somebody sends and nobody has heard
  heard   \* bytes handed to the nodes, in order

vars == <<clock, onair, heard>>

Byte == [node : Nodes, seq : Nat, start : Nat, end : Nat]

Init == clock = 0 /\ onair = {} /\ heard = <<>>

\* t takes the air: it starts now or later, ends after it starts, and it is
\* not on the air already.
Fresh(t) ==
  /\ t \in Byte /\ clock <= t.start /\ t.start < t.end
  /\ \A e \in onair : <<e.node, e.seq>> # <<t.node, t.seq>>

Emit ==
  /\ \E t \in onair' : Fresh(t) /\ onair' = onair \cup {t}
  /\ UNCHANGED <<clock, heard>>

\* t takes the air, and those who would have started after its end have to
\* think again, for they may hear t first.
Preempt ==
  /\ \E t \in onair' :
       Fresh(t) /\ onair' = {e \in onair \cup {t} : e.start <= t.end}
  /\ UNCHANGED <<clock, heard>>

Advance ==
  /\ clock' \in Nat /\ clock < clock' /\ \A e \in onair : clock' <= e.end
  /\ UNCHANGED <<onair, heard>>

Hear(e) ==
  /\ e.end = clock
  /\ onair' = onair \ {e}
  /\ heard' = Append(heard, e)
  /\ UNCHANGED clock

\* The last node has left.
Shutdown == onair' = {} /\ UNCHANGED <<clock, heard>>

Next == Emit \/ Preempt \/ Advance \/ (\E e \in onair : Hear(e)) \/ Shutdown

Spec == Init /\ [][Next]_vars

-----------------------------------------------------------------------------

\* Bytes are heard in the order in which they end, and none of those still
\* on the air should have been heard before.
Causal ==
  /\ \A i, j \in 1..Len(heard) : i < j => heard[i].end <= heard[j].end
  /\ \A i \in 1..Len(heard), e \in onair : heard[i].end <= e.end
=============================================================================
