-------------------------------- MODULE Etrace ---------------------------------
(***************************************************************************)
(* libetrace: the slots a node writes for the energy simulator eSimu, one  *)
(* per instruction, those of a machine that sleeps put together.  The file *)
(* itself belongs to eSimu's library: a slot that is pushed can be taken   *)
(* back until it is committed.                                             *)
(***************************************************************************)
EXTENDS Integers, Sequences

CONSTANTS
  MaxIdle,   \* ETRACER_MAX_IDLE
  Margin,    \* 1000: what an instruction may last
  MaxSlots   \* bound: instructions executed

ASSUME EtraceAssumption == MaxIdle \in Nat /\ Margin \in 1..MaxIdle /\ MaxSlots \in Nat

VARIABLE etr  \* [current, slot, backup, recording, pushed, committed, ran, closed, steps]

EtrSlot == [idle |-> FALSE, non_seq |-> FALSE, accesses |-> 0, events |-> 0, timing |-> 0]

\* A slot that is pushed also has, as history, how far it goes: `until`.
PushedSlot(s, now) ==
  [idle |-> s.idle, accesses |-> s.accesses, events |-> s.events, timing |-> s.timing,
   until |-> now]

\* etracer_init.  `ran` has the cycles of the instructions that were traced, and
\* goes back with the machine.
EtrInit ==
  LET current == [stopped |-> TRUE, next_must_be_NS |-> FALSE]
  IN  etr = [current |-> current, slot |-> EtrSlot, recording |-> FALSE, pushed |-> <<>>,
             committed |-> 0, ran |-> 0, closed |-> FALSE, steps |-> 0,
             backup |-> [current |-> current, slot |-> EtrSlot, ran |-> 0]]

\* The pointers to the functions are set and cleared only when `stopped` changes.
EtrStart ==
  etr' = IF etr.current.stopped
         THEN [etr EXCEPT !.recording = TRUE,
                          !.current = [stopped |-> FALSE, next_must_be_NS |-> TRUE]]
         ELSE etr

EtrStop ==
  etr' = IF etr.current.stopped THEN etr
         ELSE [etr EXCEPT !.recording = FALSE,
                          !.current = [stopped |-> TRUE, next_must_be_NS |-> TRUE]]

\* A bug this could have: the time slept is not given to the slot that ends it.
FilledAnew(s, i) ==
  [idle |-> i.idle, non_seq |-> i.non_seq \/ etr.current.next_must_be_NS,
   accesses |-> s.accesses + i.accesses, events |-> s.events + i.events,
   timing |-> i.cycles]

\* etracer_slot_insn, _access and _event, as the machine executes one instruction
\* (or sleeps for as long), and the timing etracer_slot_end adds.
Filled(s, i) ==
  [idle |-> i.idle, non_seq |-> i.non_seq \/ etr.current.next_must_be_NS,
   accesses |-> s.accesses + i.accesses, events |-> s.events + i.events,
   timing |-> s.timing + i.cycles]

\* What etracer_slot_end pushes.
Full(s) == ~ s.idle \/ s.events > 0 \/ s.accesses > 0 \/ MaxIdle - s.timing < Margin

\* A slot that is pushed is left empty but for its instruction, which the next
\* one overwrites.
Instruction(i) ==
  /\ etr.steps < MaxSlots
  /\ \E s \in {Filled(etr.slot, i)} :
       etr' = IF ~ etr.recording THEN [etr EXCEPT !.steps = @ + 1]
              ELSE [etr EXCEPT !.steps = @ + 1, !.ran = @ + i.cycles,
                               !.current.next_must_be_NS = FALSE,
                               !.pushed = IF Full(s) THEN Append(@, PushedSlot(s, etr.ran + i.cycles)) ELSE @,
                               !.slot = IF Full(s)
                                        THEN [EtrSlot EXCEPT !.idle = s.idle, !.non_seq = s.non_seq]
                                        ELSE s]

\* etracer_state_save and etracer_state_restore: the pointers do not go back.
EtrSave ==
  etr' = [etr EXCEPT !.committed = Len(etr.pushed),
                     !.backup = [current |-> etr.current, slot |-> etr.slot, ran |-> etr.ran]]

EtrRestore ==
  etr' = [etr EXCEPT !.pushed = SubSeq(@, 1, etr.committed), !.current = etr.backup.current,
                     !.slot = etr.backup.slot, !.ran = etr.backup.ran]

\* etracer_close: the slot that is being filled is not pushed.
EtrClose == etr' = [etr EXCEPT !.committed = Len(etr.pushed), !.closed = TRUE]

\* What the machine executes: a machine that sleeps reads no memory, but its
\* peripherals may still raise events.  Bound: no instruction jumps, so that the
\* only non_seq marks are those of etracer_start.
Executed ==
  {i \in [idle : BOOLEAN, non_seq : {FALSE}, accesses : 0..1, events : 0..1, cycles : 1..Margin] :
     i.idle => i.accesses = 0}

EtrNext ==
  /\ ~ etr.closed
  /\ \/ EtrStart \/ EtrStop \/ EtrSave \/ EtrRestore \/ EtrClose
     \/ \E i \in Executed : Instruction(i)

EtrSpec == EtrInit /\ [][EtrNext]_etr
-----------------------------------------------------------------------------

\* The cycles traced up to the end of the i-th slot.
Until(i) == IF i = 0 THEN 0 ELSE etr.pushed[i].until

\* Every cycle that was traced, and not given up by going back, is in one slot:
\* a slot has all that was traced since the one before it, and the slot being
\* filled the rest.  No slot is longer than its field can say, and none that is
\* only sleep is written before it is full.
Accounted ==
  /\ \A i \in 1..Len(etr.pushed) :
       etr.pushed[i].timing = Until(i) - Until(i - 1)
  /\ etr.slot.timing = etr.ran - Until(Len(etr.pushed))
  /\ etr.committed <= Len(etr.pushed)
  /\ \A i \in 1..Len(etr.pushed) :
       etr.pushed[i].timing <= MaxIdle /\ Full(etr.pushed[i])
=============================================================================
