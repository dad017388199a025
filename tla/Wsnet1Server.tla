----------------------------- MODULE Wsnet1Server -----------------------------
(***************************************************************************)
(* The WSNet1 server: a discrete event scheduler for the radio medium that *)
(* drives the WSim nodes from rendez-vous to rendez-vous.                  *)
(*                                                                         *)
(* The server is one thread.  It is either inside                          *)
(* worldsens_s_listen_to_next_rp, reading one datagram after another until *)
(* every connected node has reached the rendez-vous rp ("listen"), or in   *)
(* the body of the loop of core_start, where it delivers the radio events  *)
(* that are due and chooses the next rendez-vous ("core").                 *)
(*                                                                         *)
(* g_events and g_packets are linked lists sorted by tx_end; only the      *)
(* order of the ends matters to the scheduler, so they are sets here and   *)
(* the head of the list is any element that ends first.                    *)
(***************************************************************************)
EXTENDS Wsnet1Net, FiniteSets

CONSTANTS
  MaxNodes,      \* g_m_nodes: the number of nodes the server accepts
  SYNCH_PERIOD,  \* WORLDSENS_SYNCH_PERIOD: rendez-vous when the air is idle
  MAGIC,         \* MAGIC_VALUE: rendez-vous after the last byte in the air
  CharMax        \* SCHAR_MAX: "synched" is stored in a char

ASSUME ServerAssumption ==
  /\ MaxNodes \in Nat \ {0}
  /\ SYNCH_PERIOD \in Nat \ {0}
  /\ MAGIC \in Nat \ {0}
  /\ CharMax \in Nat \ {0}

VARIABLES
  spc,        \* where the thread is: "listen", "core", "stopped", "desync"
  global,     \* g_sim_time
  rp,         \* date of the next rendez-vous
  rp_seq,     \* its index
  synched,    \* nodes counted at the rendez-vous
  pkt_seq,    \* sequence number of the next multicast packet
  active,     \* nodes whose g_nodes[].active is set
  c_nodes,    \* g_c_nodes
  events,     \* g_events: transmissions whose end has not been processed
  packets,    \* g_packets: transmissions "in the air tonight"
  delivered   \* history: transmissions handed to the nodes, in order

srvVars == <<spc, global, rp, rp_seq, synched, pkt_seq, active, c_nodes,
             events, packets, delivered>>

schedVars == <<global, events, packets, delivered>>

\* A byte on the air: sender, its tx_pkt_seq, and the dates it occupies.
Transmission == [node : Nodes, seq : Nat, start : Nat, end : Nat]

SrvTypeOK ==
  /\ spc \in {"listen", "core", "stopped", "desync"}
  /\ global \in Nat /\ rp \in Nat /\ rp_seq \in Nat /\ pkt_seq \in Nat
  /\ synched \in Int /\ synched <= CharMax
  /\ active \subseteq Nodes /\ c_nodes \in Int
  /\ events \subseteq Transmission /\ packets \subseteq Transmission
  /\ delivered \in Seq(Transmission)

SrvInit ==
  /\ spc = "listen" /\ global = 0
  /\ rp = SYNCH_PERIOD /\ rp_seq = 1 /\ synched = 0 /\ pkt_seq = 0
  /\ active = {} /\ c_nodes = 0
  /\ events = {} /\ packets = {} /\ delivered = <<>>

-----------------------------------------------------------------------------
(* Helpers. *)

IsFirstAny(e, S) == e \in S   \* mutant: g_events is not sorted

\* e is the head of g_events (or one of the events simultaneous with it).
IsFirst(e, S) == e \in S /\ \A f \in S : e.end <= f.end

\* synched++ on a signed char.
CharIncr(c) == IF c = CharMax THEN -(CharMax + 1) ELSE c + 1

\* Every counted node is there: global time jumps to the rendez-vous and
\* listen_to_next_rp returns to core_start.
BarrierCheck(count, nodes) ==
  IF count = nodes
    THEN global' = rp /\ spc' = "core"
    ELSE UNCHANGED <<global, spc>>

StillInTheAirEnded(now, pending) ==   \* mutant: ended packets are freed
  {p \in packets : p.end > now}

\* core_update_packet_list: forget the packets that ended before every
\* transmission that still has an event.
StillInTheAir(now, pending) ==
  {p \in packets : p.end > now \/ \E e \in pending : e.start < p.end}

StartedBefore(S, t) == {e \in S : e.start < t}   \* mutant: off by one

\* core_backtrack: nothing that starts after the new rendez-vous remains.
StartedBy(S, t) == {e \in S : e.start <= t}

-----------------------------------------------------------------------------
(* worldsens_s_listen_to_next_rp: one action per branch. *)

Recv(type) ==
  /\ spc = "listen" /\ toServer # <<>> /\ Head(toServer).type = type
  /\ toServer' = Tail(toServer)

RecvDisconnect ==
  /\ Recv("DISCONNECT")
  /\ LET n    == Head(toServer).node
         left == IF n \in active THEN c_nodes - 1 ELSE c_nodes
     IN  /\ active' = active \ {n}
         /\ c_nodes' = left
         /\ IF left = 0
              THEN /\ spc' = "stopped" /\ events' = {} /\ packets' = {}
                   /\ UNCHANGED global
              ELSE /\ BarrierCheck(synched, left)
                   /\ UNCHANGED <<events, packets>>
  /\ UNCHANGED <<rp, rp_seq, synched, pkt_seq, delivered, reply, mcast, joined>>

RecvConnectRecount ==   \* mutant: a node that connects again counts twice
  /\ Recv("CONNECT")
  /\ LET n == Head(toServer).node IN
       IF c_nodes = MaxNodes
         THEN /\ reply' = [reply EXCEPT ![n] = Append(@, NoAttrAddrPkt)]
              /\ UNCHANGED <<active, c_nodes>>
         ELSE /\ active' = active \cup {n}
              /\ c_nodes' = c_nodes + 1
              /\ reply' = [reply EXCEPT ![n] = Append(@,
                             AttrAddrPkt(pkt_seq, rp - global, rp_seq, global))]
  /\ UNCHANGED <<spc, rp, rp_seq, synched, pkt_seq, schedVars, mcast, joined>>

RecvConnect ==
  /\ Recv("CONNECT")
  /\ LET n == Head(toServer).node IN
       IF c_nodes = MaxNodes
         THEN /\ reply' = [reply EXCEPT ![n] = Append(@, NoAttrAddrPkt)]
              /\ UNCHANGED <<active, c_nodes>>
         ELSE /\ active' = active \cup {n}
              /\ c_nodes' = IF n \in active THEN c_nodes ELSE c_nodes + 1
              /\ reply' = [reply EXCEPT ![n] = Append(@,
                             AttrAddrPkt(pkt_seq, rp - global, rp_seq, global))]
  /\ UNCHANGED <<spc, rp, rp_seq, synched, pkt_seq, schedVars, mcast, joined>>

RecvSynchedAny ==   \* mutant: late SYNCHED packets count too
  /\ Recv("SYNCHED")
  /\ synched' = CharIncr(synched)
  /\ BarrierCheck(CharIncr(synched), c_nodes)
  /\ UNCHANGED <<rp, rp_seq, pkt_seq, active, c_nodes, events, packets,
                 delivered, reply, mcast, joined>>

RecvSynched ==
  /\ Recv("SYNCHED")
  /\ IF Head(toServer).rp_seq = rp_seq
       THEN /\ synched' = CharIncr(synched)
            /\ BarrierCheck(CharIncr(synched), c_nodes)
       ELSE UNCHANGED <<synched, global, spc>>
  /\ UNCHANGED <<rp, rp_seq, pkt_seq, active, c_nodes, events, packets,
                 delivered, reply, mcast, joined>>

\* The transmission a TX packet announces.
TxOf(m) == [node |-> m.node, seq |-> m.seq, start |-> global + m.period,
            end |-> global + m.period + m.duration]

DeprecatedAt(t) == t.start >= rp       \* mutant: off by one
RetransmittedNever(t) == FALSE         \* mutant: no test

Deprecated(t) == t.start > rp
Retransmitted(t) == \E p \in packets : p.node = t.node /\ p.seq = t.seq

\* The TX starts after the rendez-vous, or it is already known: dropped.
RecvTxDropped ==
  /\ Recv("TX")
  /\ LET t == TxOf(Head(toServer)) IN Deprecated(t) \/ Retransmitted(t)
  /\ UNCHANGED <<srvVars, reply, mcast, joined>>

RecvTxAcceptedAlways ==   \* mutant: also before the rendez-vous
  /\ Recv("TX")
  /\ LET t == TxOf(Head(toServer)) IN
       /\ ~ Deprecated(t) /\ ~ Retransmitted(t)
       /\ events' = events \cup {t}
       /\ packets' = packets \cup {t}
  /\ UNCHANGED <<spc, global, rp, rp_seq, synched, pkt_seq, active, c_nodes,
                 delivered, reply, mcast, joined>>

\* The byte ends at or after the rendez-vous: just one more event.
RecvTxAccepted ==
  /\ Recv("TX")
  /\ LET t == TxOf(Head(toServer)) IN
       /\ ~ Deprecated(t) /\ ~ Retransmitted(t)
       /\ t.end >= rp
       /\ events' = events \cup {t}
       /\ packets' = packets \cup {t}
  /\ UNCHANGED <<spc, global, rp, rp_seq, synched, pkt_seq, active, c_nodes,
                 delivered, reply, mcast, joined>>

RecvTxBacktrackCounted ==   \* mutant: synched is not reset
  /\ Recv("TX")
  /\ LET t == TxOf(Head(toServer)) IN
       /\ ~ Deprecated(t) /\ ~ Retransmitted(t)
       /\ t.end < rp
       /\ rp_seq' = rp_seq + 1
       /\ rp' = t.end
       /\ events' = StartedBy(events \cup {t}, t.end)
       /\ packets' = StartedBy(packets \cup {t}, t.end)
       /\ pkt_seq' = pkt_seq + 1
       /\ Multicast(BacktrackPkt(pkt_seq, t.end - global, rp_seq + 1))
  /\ UNCHANGED <<spc, global, synched, active, c_nodes, delivered, reply, joined>>

RecvTxBacktrackStart ==   \* mutant: back to the start of the byte
  /\ Recv("TX")
  /\ LET t == TxOf(Head(toServer)) IN
       /\ ~ Deprecated(t) /\ ~ Retransmitted(t)
       /\ t.end < rp
       /\ rp_seq' = rp_seq + 1
       /\ rp' = t.start
       /\ synched' = 0
       /\ events' = StartedBy(events \cup {t}, t.start)
       /\ packets' = StartedBy(packets \cup {t}, t.start)
       /\ pkt_seq' = pkt_seq + 1
       /\ Multicast(BacktrackPkt(pkt_seq, t.start - global, rp_seq + 1))
  /\ UNCHANGED <<spc, global, active, c_nodes, delivered, reply, joined>>

\* The byte ends before the rendez-vous: worldsens_s_backtrack_async moves
\* the rendez-vous to its end and cancels what starts later.
RecvTxBacktrack ==
  /\ Recv("TX")
  /\ LET t == TxOf(Head(toServer)) IN
       /\ ~ Deprecated(t) /\ ~ Retransmitted(t)
       /\ t.end < rp
       /\ rp_seq' = rp_seq + 1
       /\ rp' = t.end
       /\ synched' = 0
       /\ events' = StartedBy(events \cup {t}, t.end)
       /\ packets' = StartedBy(packets \cup {t}, t.end)
       /\ pkt_seq' = pkt_seq + 1
       /\ Multicast(BacktrackPkt(pkt_seq, t.end - global, rp_seq + 1))
  /\ UNCHANGED <<spc, global, active, c_nodes, delivered, reply, joined>>

-----------------------------------------------------------------------------
(* The body of the loop of core_start, after the barrier. *)

\* The part the two "save and release" packets have in common.
NextRendezVous(period) ==
  /\ rp' = global + period
  /\ rp_seq' = rp_seq + 1
  /\ synched' = 0
  /\ pkt_seq' = pkt_seq + 1
  /\ spc' = "listen"

SaveReleaseRequest(period) ==
  /\ NextRendezVous(period)
  /\ Multicast(SaveRelPkt(pkt_seq, rp_seq, rp_seq + 1, period))

SaveReleaseRequestRx(t, period) ==
  /\ NextRendezVous(period)
  /\ Multicast(SrRxPkt(pkt_seq, rp_seq, rp_seq + 1, period,
                       <<t.node, t.seq>>, active))

SendRxUnnumbered(t) ==   \* mutant: the sequence number is not incremented
  /\ Multicast(RxPkt(pkt_seq, <<t.node, t.seq>>, active))
  /\ UNCHANGED <<spc, rp, rp_seq, synched, pkt_seq>>

SendRx(t) ==
  /\ pkt_seq' = pkt_seq + 1
  /\ Multicast(RxPkt(pkt_seq, <<t.node, t.seq>>, active))
  /\ UNCHANGED <<spc, rp, rp_seq, synched>>

CoreIdle ==
  /\ spc = "core" /\ events = {}
  /\ SaveReleaseRequest(SYNCH_PERIOD)
  /\ UNCHANGED <<schedVars, active, c_nodes, toServer, reply, joined>>

CoreWaitBack ==   \* mutant: the difference is taken the wrong way round
  /\ spc = "core"
  /\ \E e \in events :
       /\ IsFirst(e, events) /\ global < e.end
       /\ SaveReleaseRequest(global - e.end)
  /\ UNCHANGED <<schedVars, active, c_nodes, toServer, reply, joined>>

CoreWait ==
  /\ spc = "core"
  /\ \E e \in events :
       /\ IsFirst(e, events) /\ global < e.end
       /\ SaveReleaseRequest(e.end - global)
  /\ UNCHANGED <<schedVars, active, c_nodes, toServer, reply, joined>>

HandedTogether(e) ==   \* mutant: simultaneous events are removed with e
  /\ events' = {f \in events : f.end # e.end}
  /\ packets' = StillInTheAir(global, events')
  /\ delivered' = Append(delivered, e)
  /\ IF events' = {}
       THEN SaveReleaseRequestRx(e, MAGIC)
       ELSE \E f \in events' :
              IsFirst(f, events') /\ SaveReleaseRequestRx(e, f.end - global)

\* Event e is removed and its byte handed to every active node; the last of
\* the simultaneous events also carries the next rendez-vous.
Handed(e) ==
  /\ events' = events \ {e}
  /\ packets' = StillInTheAir(global, events')
  /\ delivered' = Append(delivered, e)
  /\ IF events' = {}
       THEN SaveReleaseRequestRx(e, MAGIC)
       ELSE \E f \in events' :
              /\ IsFirst(f, events')
              /\ IF f.end > global
                   THEN SaveReleaseRequestRx(e, f.end - global)
                   ELSE SendRx(e)

\* The first event is due.  An event in the past would be the "CORE
\* DESYNCHRONIZATION" exception.
CoreTx ==
  /\ spc = "core"
  /\ \E e \in events :
       /\ IsFirst(e, events) /\ e.end <= global
       /\ IF e.end = global
            THEN Handed(e)
            ELSE /\ spc' = "desync"
                 /\ UNCHANGED <<rp, rp_seq, synched, pkt_seq, events, packets,
                                delivered, mcast>>
  /\ UNCHANGED <<global, active, c_nodes, toServer, reply, joined>>

-----------------------------------------------------------------------------

SrvListen == \/ RecvDisconnect \/ RecvConnect \/ RecvSynched
             \/ RecvTxDropped \/ RecvTxAccepted \/ RecvTxBacktrack

SrvCore == CoreIdle \/ CoreWait \/ CoreTx

SrvNext == SrvListen \/ SrvCore
=============================================================================
