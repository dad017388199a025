-------------------------------- MODULE Tracer ---------------------------------
(***************************************************************************)
(* libtracer: the changes of the signals of a node, recorded in a block of *)
(* memory and written to the trace file when the machine's state is saved  *)
(* and the block is filled enough.  The counters go back with the machine; *)
(* the block and the file do not.  This is the recorder of a node that is  *)
(* connected to a WSNet server (the _ws functions).  The time of an event  *)
(* is left out.                                                            *)
(***************************************************************************)
EXTENDS Naturals, Sequences, FiniteSets

CONSTANTS
  Ids,        \* the signals
  BacktrackId,\* the machine's own signal: how often it went back
  Vals,       \* their values
  Block,      \* TRACER_BLOCK_EV
  Threshold,  \* TRACER_BLOCK_THRESHOLD
  MaxTrace,   \* bound: events in the trace
  MaxBacktracks \* bound: how often the machine goes back

ASSUME TracerAssumption ==
  /\ IsFiniteSet(Ids) /\ BacktrackId \in Ids
  /\ Vals \subseteq Nat /\ 0..MaxBacktracks \subseteq Vals
  /\ Block \in Nat /\ Threshold \in Nat /\ Threshold < Block
  /\ MaxTrace \in Nat /\ MaxBacktracks \in Nat

VARIABLES
  trc,        \* tracer_current
  trc_saved,  \* tracer_saved
  block,      \* tracer_buffer
  datafile,   \* the events in the file
  header,     \* the header of the file, once closed
  pointers,   \* the record functions: "none" before tracer_start, then "all",
              \* or "forced" after tracer_stop, which clears only one of them
  running,    \* machine_run has saved a first state
  backtracks  \* machine.backtrack

trcVars == <<trc, trc_saved, block, datafile, header, pointers, running, backtracks>>

Event == Ids \X Vals
Current == [ev_count : 0..Block, ev_count_total : Nat, id_val : [Ids -> Vals],
            id_count : [Ids -> Nat], id_max : [Ids -> Vals]]
Header == [ev_count_total : Nat, id_count : [Ids -> Nat], id_max : [Ids -> Vals]]
NoHeader == [ev_count_total |-> 0]

TrcTypeOK ==
  /\ trc \in Current /\ trc_saved \in Current
  /\ block \in [1..Block -> Event]
  /\ datafile \in Seq(Event)
  /\ header \in Header \cup {NoHeader}
  /\ pointers \in {"none", "all", "forced"} /\ running \in BOOLEAN
  /\ backtracks \in 0..MaxBacktracks

\* What a reader of the trace will find, as of now.
TraceOf(f, b, n) ==
  [i \in 1..(Len(f) + n) |-> IF i <= Len(f) THEN f[i] ELSE b[i - Len(f)]]
Trace == TraceOf(datafile, block, trc.ev_count)

TrcInit ==
  /\ trc = [ev_count |-> 0, ev_count_total |-> 0, id_val |-> [i \in Ids |-> 0],
            id_count |-> [i \in Ids |-> 0], id_max |-> [i \in Ids |-> 0]]
  /\ trc_saved = trc
  /\ block = [i \in 1..Block |-> <<BacktrackId, 0>>]
  /\ datafile = <<>>
  /\ header = NoHeader
  /\ pointers = "none" /\ running = FALSE
  /\ backtracks = 0

\* A bug this could have: an event that is dropped is counted.
CountedDropped(c, id, v) ==
  IF c.ev_count = Block THEN [c EXCEPT !.id_count[id] = @ + 1, !.id_val[id] = v]
  ELSE [ev_count       |-> c.ev_count + 1,
        ev_count_total |-> c.ev_count_total + 1,
        id_val         |-> [c.id_val EXCEPT ![id] = v],
        id_count       |-> [c.id_count EXCEPT ![id] = @ + 1],
        id_max         |-> [c.id_max EXCEPT ![id] = IF @ < v THEN v ELSE @]]

\* tracer_event_record_time_nocheck: its effect on the counters, and on the
\* block.  An event that finds the block full is dropped.
Counted(c, id, v) ==
  IF c.ev_count = Block THEN c
  ELSE [ev_count       |-> c.ev_count + 1,
        ev_count_total |-> c.ev_count_total + 1,
        id_val         |-> [c.id_val EXCEPT ![id] = v],
        id_count       |-> [c.id_count EXCEPT ![id] = @ + 1],
        id_max         |-> [c.id_max EXCEPT ![id] = IF @ < v THEN v ELSE @]]

Stored(c, b, id, v) ==
  IF c.ev_count = Block THEN b ELSE [b EXCEPT ![c.ev_count + 1] = <<id, v>>]

\* Only a change of value is recorded.
Changed(c, id, v) == IF v = c.id_val[id] THEN c ELSE Counted(c, id, v)
ChangeStored(c, b, id, v) == IF v = c.id_val[id] THEN b ELSE Stored(c, b, id, v)

Open == header = NoHeader
Room == Len(Trace) < MaxTrace

\* tracer_event_add_id, while the machine is being built: an event of value 0,
\* recorded although the recorder has not been started.
AddId(id) ==
  /\ Open /\ pointers = "none" /\ ~ running /\ trc.id_count[id] = 0 /\ Room
  /\ trc' = Counted(trc, id, 0)
  /\ block' = Stored(trc, block, id, 0)
  /\ UNCHANGED <<trc_saved, datafile, header, pointers, running, backtracks>>

\* tracer_start and tracer_stop, which the simulated program may also call.
StartTracer ==
  /\ Open /\ pointers' = "all"
  /\ UNCHANGED <<trc, trc_saved, block, datafile, header, running, backtracks>>

StopTracer ==
  /\ Open /\ pointers = "all" /\ pointers' = "forced"
  /\ UNCHANGED <<trc, trc_saved, block, datafile, header, running, backtracks>>

Record(id, v) ==
  /\ Open /\ pointers = "all" /\ Room
  /\ trc' = Changed(trc, id, v)
  /\ block' = ChangeStored(trc, block, id, v)
  /\ UNCHANGED <<trc_saved, datafile, header, pointers, running, backtracks>>

\* tracer_event_record_active_force_ws: a pulse, so that a viewer shows it.
\* tracer_stop leaves this pointer alone.
RecordForce(id, v) ==
  /\ Open /\ pointers # "none" /\ Room /\ v # trc.id_val[id]
  /\ LET one == Counted(trc, id, 0)
         two == Counted(one, id, v)
     IN  /\ trc' = Counted(two, id, 0)
         /\ block' = Stored(two, Stored(one, Stored(trc, block, id, 0), id, v), id, 0)
  /\ UNCHANGED <<trc_saved, datafile, header, pointers, running, backtracks>>

\* A bug this could have: the copy is made before the block is written.
TrcSaveCopyFirst ==
  /\ Open
  /\ LET dump == trc.ev_count > Threshold
     IN  /\ datafile' = IF dump THEN Trace ELSE datafile
         /\ trc' = IF dump THEN [trc EXCEPT !.ev_count = 0] ELSE trc
  /\ trc_saved' = trc
  /\ running' = TRUE
  /\ UNCHANGED <<block, header, pointers, backtracks>>

\* tracer_state_save: the only place where a connected node writes.
TrcSave ==
  /\ Open
  /\ LET dump == trc.ev_count > Threshold
     IN  /\ datafile' = IF dump THEN Trace ELSE datafile
         /\ trc' = IF dump THEN [trc EXCEPT !.ev_count = 0] ELSE trc
  /\ trc_saved' = trc'
  /\ running' = TRUE
  /\ UNCHANGED <<block, header, pointers, backtracks>>

\* tracer_state_restore, and the event that machine_state_restore records.
TrcRestore ==
  /\ Open /\ running /\ backtracks < MaxBacktracks
  /\ backtracks' = backtracks + 1
  /\ trc' = IF pointers = "all" THEN Changed(trc_saved, BacktrackId, backtracks') ELSE trc_saved
  /\ block' = IF pointers = "all" THEN ChangeStored(trc_saved, block, BacktrackId, backtracks')
              ELSE block
  /\ UNCHANGED <<trc_saved, datafile, header, pointers, running>>

\* tracer_close: the rest of the block, and the header with the final counts.
TrcClose ==
  /\ Open
  /\ datafile' = Trace
  /\ trc' = [trc EXCEPT !.ev_count = 0]
  /\ header' = [ev_count_total |-> trc.ev_count_total, id_count |-> trc.id_count,
                id_max |-> trc.id_max]
  /\ UNCHANGED <<trc_saved, block, pointers, running, backtracks>>

TrcStep ==
  \/ \E id \in Ids : AddId(id)
  \/ StartTracer
  \/ StopTracer
  \/ \E id \in Ids \ {BacktrackId}, v \in Vals : Record(id, v) \/ RecordForce(id, v)

TrcNext == TrcStep \/ TrcSave \/ TrcRestore \/ TrcClose

TrcSpec == TrcInit /\ [][TrcNext]_trcVars
-----------------------------------------------------------------------------

\* The block cannot be taken back, but its end can: a machine that goes back
\* finds its trace as it was saved, and no event of a time that was given up
\* is ever in the file.
TraceJournal == INSTANCE Journal WITH
  now     <- Trace,
  kept    <- IF Open THEN TraceOf(datafile, block, trc_saved.ev_count) ELSE datafile,
  written <- datafile

ImplementsTrace == TraceJournal!Spec

Occurrences(id, tr) == Cardinality({i \in DOMAIN tr : tr[i][1] = id})

IsLast(id, v, tr) ==
  \/ v = 0 /\ \A i \in DOMAIN tr : tr[i][1] # id
  \/ \E i \in DOMAIN tr : tr[i] = <<id, v>> /\ \A j \in DOMAIN tr : j > i => tr[j][1] # id

\* The counters speak of the trace as it is, whatever was given up or dropped:
\* the header counts the events of the file, and the value a change is compared
\* with is the last one a reader of the trace will see.
TraceTrue ==
  /\ trc.ev_count_total = Len(Trace)
  /\ \A id \in Ids :
       /\ trc.id_count[id] = Occurrences(id, Trace)
       /\ IsLast(id, trc.id_val[id], Trace)
       /\ \A i \in DOMAIN Trace : Trace[i][1] = id => Trace[i][2] <= trc.id_max[id]
  /\ ~ Open => header.ev_count_total = Len(datafile) /\ header.id_count = trc.id_count
=============================================================================
