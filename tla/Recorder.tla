------------------------------- MODULE Recorder --------------------------------
(***************************************************************************)
(* The recorders of a node, between the machine and their files: both are  *)
(* saved and restored in the same machine_state_save and                   *)
(* machine_state_restore, and both keep in memory what could still be      *)
(* given up.                                                               *)
(***************************************************************************)
EXTENDS Tracer, Logpkt, Etrace, Wtracer

VARIABLE options  \* bound: which of the two the node was started with (--trace,
                  \* --logpkt, --etrace), or the tool that reads its traces;
                  \* TLC looks at each alone, as they share no state

recVars == <<trcVars, logVars, etr, tool, options>>

RecInit ==
  /\ TrcInit /\ LogInit /\ EtrInit /\ WtrInit
  /\ options \in {"trace", "logpkt", "etrace", "wtracer"}

MachineSave == TrcSave /\ LogSave

MachineRestore == TrcRestore /\ LogRestore

\* logpkt_close only closes the file.
MachineClose == TrcClose /\ UNCHANGED logVars

RecNext ==
  /\ \/ options = "trace" /\ TrcStep /\ UNCHANGED <<logVars, etr, tool>>
     \/ options = "logpkt" /\ running /\ Open /\ LogStep /\ UNCHANGED <<trcVars, etr, tool>>
     \/ /\ options \in {"trace", "logpkt"} /\ UNCHANGED <<etr, tool>>
        /\ MachineSave \/ MachineRestore \/ MachineClose
     \/ options = "etrace" /\ EtrNext /\ UNCHANGED <<trcVars, logVars, tool>>
     \/ options = "wtracer" /\ WtrNext /\ UNCHANGED <<trcVars, logVars, etr>>
  /\ UNCHANGED options

RecSpec == RecInit /\ [][RecNext]_recVars

\* What is made of a run is what happened in it: the texts of wtracer tell the
\* changes of the signals, the slots of eSimu the cycles.
FilesTrue == Converted /\ Accounted
=============================================================================
