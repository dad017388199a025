-------------------------------- MODULE Journal --------------------------------
(***************************************************************************)
(* What a recorder promises to a machine that may go back in time: what is *)
(* recorded in a time that is given up disappears from the journal, and    *)
(* what is already in the file, which cannot be taken back, is never part  *)
(* of such a time.                                                         *)
(***************************************************************************)
EXTENDS Naturals, Sequences

VARIABLES
  now,     \* everything recorded, up to the machine's present
  kept,    \* the journal when the machine's state was saved
  written  \* the part of it that is in the file

vars == <<now, kept, written>>

IsStart(s, t) == Len(s) <= Len(t) /\ \A i \in 1..Len(s) : s[i] = t[i]

Init == written = <<>> /\ IsStart(kept, now)

Record == IsStart(now, now') /\ UNCHANGED <<kept, written>>

Save ==
  /\ kept' = now
  /\ IsStart(written, written') /\ IsStart(written', now)
  /\ UNCHANGED now

\* Going back may itself be recorded, in one entry.
GoBack ==
  /\ IsStart(kept, now') /\ Len(now') <= Len(kept) + 1
  /\ UNCHANGED <<kept, written>>

Close == kept' = now /\ written' = now /\ UNCHANGED now

Next == Record \/ Save \/ GoBack \/ Close

Spec == Init /\ [][Next]_vars
=============================================================================
