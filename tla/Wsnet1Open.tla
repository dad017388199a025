------------------------------ MODULE Wsnet1Open ------------------------------
(***************************************************************************)
(* The WSNet1 server alone, against nodes that may send any datagram at    *)
(* any moment: late, repeated, contradictory, from nodes that never        *)
(* connected.  What holds here holds whatever the simulators do.           *)
(*                                                                         *)
(* A datagram arrives when the socket of the server is empty.  As any      *)
(* datagram may come next, a longer queue adds no order in which they are  *)
(* read.  The nodes read their answers; what they do with them is part of  *)
(* "anything", and so is who has joined the group.                         *)
(***************************************************************************)
EXTENDS Wsnet1Server

CONSTANT Datagrams  \* what the nodes may send

ASSUME DatagramAssumption ==
  /\ Datagrams \subseteq ClientPkt
  /\ \A m \in Datagrams : m.type = "TX" => m.duration > 0

vars == <<srvVars, netVars>>

Init == NetInit /\ SrvInit

Arrive ==
  /\ spc = "listen" /\ toServer = <<>>
  /\ \E m \in Datagrams : SendToServer(m)
  /\ reply' = [n \in Nodes |-> <<>>]
  /\ UNCHANGED <<srvVars, mcast, joined>>

Next == Arrive \/ SrvNext

Spec == Init /\ [][Next]_vars

-----------------------------------------------------------------------------

\* The medium the server implements.
Air == INSTANCE Medium
         WITH clock <- global, onair <- events, heard <- delivered

TypeOK == SrvTypeOK /\ toServer \in Seq(Datagrams) /\ Len(toServer) <= 1

\* core_start never meets an event that should have been processed earlier:
\* the "CORE DESYNCHRONIZATION" exception (core.c:157) is unreachable.
NoDesync == spc # "desync"

\* core_update_packet_list and core_backtrack free the packets that an event
\* of g_events still points to (core.c:425, core.c:489) in no execution.
NoDanglingEvent == events \subseteq packets

\* A byte is scheduled once, however often its TX is repeated: what is in
\* the air is identified by its sender and its tx_pkt_seq.
ScheduledOnce ==
  \A p, q \in packets : p.node = q.node /\ p.seq = q.seq => p = q

\* g_c_nodes counts the active nodes, which bounds the array worldsens_data
\* that core_start fills with one entry per active node (core.c:169-201).
NodesCounted == c_nodes = Cardinality(active)

\* Bytes are handed to the nodes in the order in which they end, and none
\* that is still scheduled should have been handed over earlier.
DeliveredInOrder == Air!Causal

\* The rendez-vous only moves back to the end of a byte that is on the air,
\* and never behind a date the nodes have already been released from.
RendezVousAhead ==
  [][/\ global' >= global
     /\ rp' < rp => /\ rp' > global /\ spc = "listen"
                    /\ \E e \in events' : e.end = rp']_vars

\* Datagrams, rendez-vous and backtracks amount to a medium on which bytes
\* are heard once, on time and in order.
ImplementsMedium == Air!Spec

-----------------------------------------------------------------------------
(* The inductive invariant behind these properties. *)

\* Every rendez-vous is at most the end of every scheduled byte.
Punctual ==
  /\ global <= rp
  /\ spc = "core" => global = rp
  /\ \A e \in events : rp <= e.end

\* A scheduled byte has started by the rendez-vous and does not end at once.
Started == \A e \in events : e.start <= rp /\ e.start < e.end

HeardBefore ==
  /\ \A i, j \in 1..Len(delivered) :
       i < j => delivered[i].end <= delivered[j].end
  /\ \A i \in 1..Len(delivered) : delivered[i].end <= global
-----------------------------------------------------------------------------

\* Datagrams for TLC: every node may send short and long bytes, early and late.
FewDatagrams ==
  {ConnectPkt(n) : n \in Nodes} \cup {DisconnectPkt(n) : n \in Nodes}
    \cup {SynchedPkt(s) : s \in 1..3}
    \cup {TxPkt(n, 0, p, d) : n \in Nodes, p \in 0..1, d \in 1..2}
=============================================================================
