-------------------------------- MODULE Wsnet2 --------------------------------
(***************************************************************************)
(* WSim nodes in a WSNet2 simulation, and what they may rely on.           *)
(*                                                                         *)
(* The WSNet2 server is another project: here is what the client in        *)
(* libwsnet/wsnet2_net.c expects of it.  It moves global time from one     *)
(* rendez-vous to the next when every node has acknowledged it, answers a  *)
(* byte that ends before the next rendez-vous with a BACKTRACK to its end  *)
(* and any other with a SYNC_REMINDER, and hands a byte to the other nodes *)
(* (a measure to the node that asked) when it ends.  A byte sent again     *)
(* after a backtrack is known by its sender and its date.                  *)
(***************************************************************************)
EXTENDS Wsnet2Client, SequencesExt

CONSTANTS
  Period,  \* largest distance between two rendez-vous
  Models,  \* the antennas the server may have, in order
  Killed   \* nodes the server may kill

ASSUME ServerAssumption == Killed \subseteq Nodes /\ Period \in Nat \ {0}

VARIABLES
  met,      \* nodes that were granted or refused a connection
  active,   \* nodes that are connected
  acked,    \* those that have acknowledged the rendez-vous
  last,     \* date of the last rendez-vous
  duration, \* from it to the next one
  rpseq,    \* index of the next one
  seq,      \* number of the next multicast packet
  air,      \* bytes and measures that have not ended
  heard,    \* history: those that have ended, in order
  killed,   \* history: nodes that were sent a KILL
  up        \* the server runs

srvVars == <<met, active, acked, last, duration, rpseq, seq, air, heard, killed, up>>

Wave == [src : Nodes, start : Nat, end : Nat, kind : {"byte", "measure"}]

SrvTypeOK ==
  /\ met \subseteq Nodes /\ active \subseteq Nodes /\ acked \subseteq Nodes /\ killed \subseteq Nodes
  /\ {last, duration, rpseq, seq} \subseteq Nat
  /\ air \subseteq Wave /\ heard \in Seq(Wave) /\ up \in BOOLEAN

SrvInit ==
  /\ met = {} /\ active = {} /\ acked = {} /\ killed = {}
  /\ last = 0 /\ duration = Period /\ rpseq = 1 /\ seq = 0
  /\ air = {} /\ heard = <<>> /\ up = TRUE

Numbered(pkts) == [i \in 1..Len(pkts) |-> [pkts[i] EXCEPT !.seq = seq + i - 1]]

\* The packets, in this order, to the members of the group.
Multicast(pkts) ==
  /\ mcast' = [n \in Nodes |->
                 IF n \in joined THEN mcast[n] \o Numbered(pkts) ELSE mcast[n]]
  /\ seq' = seq + Len(pkts)

Pkt(type) == [type |-> type, seq |-> 0, node |-> 0, src |-> 0, start |-> 0,
              rp_next |-> 0, rp_duration |-> 0]

From(n, type) ==
  /\ up /\ toServer # <<>>
  /\ Head(toServer).type = type /\ Head(toServer).node = n
  /\ toServer' = Tail(toServer)
  /\ UNCHANGED <<joined, cltVars>>

\* The server knows the node, or it does not.
Grant(n, names) ==
  /\ From(n, "CONNECT_REQ")
  /\ answer' = [answer EXCEPT ![n] = Append(@,
       [type |-> "CONNECT_RSP_OK", seq |-> seq, rp_next |-> rpseq,
        rp_duration |-> duration, names |-> names])]
  /\ active' = active \cup {n} /\ met' = met \cup {n}
  /\ UNCHANGED <<mcast, acked, last, duration, rpseq, seq, air, heard, killed, up>>

Refuse(n) ==
  /\ From(n, "CONNECT_REQ")
  /\ answer' = [answer EXCEPT ![n] = Append(@, [type |-> "CONNECT_RSP_NOK"])]
  /\ met' = met \cup {n}
  /\ UNCHANGED <<mcast, active, acked, last, duration, rpseq, seq, air, heard,
                 killed, up>>

Ack(n) ==
  /\ From(n, "SYNC_ACK")
  /\ acked' = IF Head(toServer).rp_id = rpseq /\ n \in active
                THEN acked \cup {n} ELSE acked
  /\ UNCHANGED <<met, answer, mcast, active, last, duration, rpseq, seq, air, heard,
                 killed, up>>

\* What is asked belongs to a future that is cancelled, or to nobody.
TxDropped(n) ==
  /\ From(n, "BYTE_TX")
  /\ Head(toServer).period > duration \/ n \notin active
  /\ UNCHANGED <<answer, mcast, srvVars>>

WaveOf(pkt) ==
  [src |-> pkt.node, start |-> last + pkt.period,
   end |-> last + pkt.period + pkt.duration, kind |-> pkt.kind]

\* It ends at the rendez-vous or after it.
TxAccepted(n) ==
  /\ From(n, "BYTE_TX")
  /\ Head(toServer).period <= duration /\ n \in active
  /\ LET w == WaveOf(Head(toServer)) IN
       /\ w.end >= last + duration \/ w \in air
       /\ air' = air \cup {w}
       /\ Multicast(<<[Pkt("SYNC_REMINDER") EXCEPT !.rp_next = rpseq]>>)
  /\ UNCHANGED <<met, answer, active, acked, last, duration, rpseq, heard, killed, up>>

\* It ends before it: the rendez-vous is moved back.
TxBacktrack(n) ==
  /\ From(n, "BYTE_TX")
  /\ Head(toServer).period <= duration /\ n \in active
  /\ LET w == WaveOf(Head(toServer)) IN
       /\ w.end < last + duration /\ w \notin air
       /\ air' = {v \in air : v.start <= w.end} \cup {w}
       /\ duration' = w.end - last
  /\ rpseq' = rpseq + 1 /\ acked' = {}
  /\ Multicast(<<[Pkt("BACKTRACK") EXCEPT !.rp_next = rpseq',
                                          !.rp_duration = duration']>>)
  /\ UNCHANGED <<met, answer, active, last, heard, killed, up>>

Disconnect(n) ==
  /\ From(n, "DISCONNECT")
  /\ active' = active \ {n} /\ acked' = acked \ {n}
  /\ UNCHANGED <<met, answer, mcast, last, duration, rpseq, seq, air, heard, killed, up>>

\* The packets of the bytes that end now, one for each node that hears them.
Hearers(w) == IF w.kind = "byte" THEN active \ {w.src} ELSE active \cap {w.src}

\* Packets that tell the end of these waves, in this order, to all who hear them.
RxPkts(order) ==
  {[i \in DOMAIN to |-> [Pkt("RX") EXCEPT !.node = to[i][2], !.src = order[to[i][1]].src,
                                         !.start = order[to[i][1]].start]] :
     to \in {t \in SetToSeqs({p \in (1..Len(order)) \X Nodes : p[2] \in Hearers(order[p[1]])}) :
              \A i, j \in DOMAIN t : i < j => t[i][1] <= t[j][1]}}

KillPkts(k) ==
  {[i \in DOMAIN to |-> [Pkt("KILL") EXCEPT !.node = to[i]]] : to \in SetToSeqs(k)}

\* The next rendez-vous is told by the last packet, or by one of its own.
WithRp(rx, rp, dur) ==
  IF rx = <<>>
  THEN <<[Pkt("SYNC_RELEASE") EXCEPT !.rp_next = rp, !.rp_duration = dur]>>
  ELSE [rx EXCEPT ![Len(rx)] = [@ EXCEPT !.type = "SR_RX", !.rp_next = rp, !.rp_duration = dur]]

\* Every node is at the rendez-vous; nothing moves before all have connected.
\* Killed ones are told first.
RendezVous ==
  /\ up /\ met = Nodes /\ active # {} /\ acked = active
  /\ \E k \in SUBSET (Killed \cap active) :
       LET now   == last + duration
           ended == {w \in air : w.end = now}
           rest  == air \ ended
           ends  == {w.end : w \in rest} \cup {now + Period}
           next  == CHOOSE e \in ends : \A f \in ends : e <= f
       IN  \E order \in SetToSeqs(ended) :
           \E kills \in KillPkts(k), rx \in RxPkts(order) :
             /\ Multicast(kills \o WithRp(rx, rpseq + 1, next - now))
             /\ last' = now /\ duration' = next - now /\ air' = rest
             /\ heard' = heard \o order
             /\ active' = active \ k /\ killed' = killed \cup k
  /\ rpseq' = rpseq + 1 /\ acked' = {}
  /\ UNCHANGED <<met, toServer, answer, joined, cltVars, up>>

\* The end of the simulation, at a rendez-vous.
KillSim ==
  /\ up /\ met = Nodes /\ active # {} /\ acked = active /\ Killed # {}
  /\ Multicast(<<Pkt("KILLSIM")>>)
  /\ up' = FALSE
  /\ killed' = killed \cup active
  /\ UNCHANGED <<met, toServer, answer, joined, cltVars, active, acked, last,
                 duration, rpseq, air, heard>>

SrvNext ==
  \/ \E n \in Nodes : \/ Refuse(n) \/ (\E names \in Models : Grant(n, names))
                      \/ Ack(n) \/ Disconnect(n)
                      \/ TxDropped(n) \/ TxAccepted(n) \/ TxBacktrack(n)
  \/ RendezVous \/ KillSim

-----------------------------------------------------------------------------
\* The server and the nodes

vars == <<netVars, cltVars, srvVars>>

Init == CltInit /\ SrvInit

Node(n) == CltStep(n) /\ UNCHANGED srvVars

Next == SrvNext \/ \E n \in Nodes : Node(n)

Spec == Init /\ [][Next]_vars

\* Processes of the host: each runs whenever it is not blocked on a socket.
FairSpec == Spec /\ WF_vars(SrvNext) /\ \A n \in Nodes : WF_vars(Node(n))

TypeOK == CltTypeOK /\ SrvTypeOK

-----------------------------------------------------------------------------

Live(n) == n \in joined /\ ~ machine[n].kill
UpToDate(n) == Live(n) /\ mcast[n] = <<>>

\* A node that has parsed everything agrees with the server on the number of
\* the next packet, on the next rendez-vous and on its distance from the last
\* one, although none of these goes back with its machine.
Agrees ==
  \A n \in Nodes : UpToDate(n) =>
    /\ wsens[n].seq = seq
    /\ wsens[n].rpseq = rpseq
    /\ wsens[n].n_rp - wsens[n].l_rp = duration

\* No packet is ever taken for an error: none is missing, no release comes
\* to a node that is not waiting for it, and no reminder of a rendez-vous the
\* node does not know.  A node that loses its simulation was told to.
NoProtocolError ==
  \A n \in Nodes : machine[n].kill => n \in killed \/ n \notin joined

\* A node hears the bytes of others, and the measures it asked for.
Hears(n, w) == (w.src = n) <=> (w.kind = "measure")

\* What a node has heard is what ended, each byte once and in its place,
\* however often it went back.
HeardOnce ==
  \A n \in Nodes : UpToDate(n) =>
    LET mine     == {k \in 1..Len(heard) : Hears(n, heard[k])}
        place(k) == Cardinality({j \in mine : j <= k})
    IN  /\ Len(machine[n].got) = Cardinality(mine)
        /\ \A k \in mine : machine[n].got[place(k)] = <<heard[k].src, heard[k].start>>

\* Blocked for ever: the answer will not come from a server that has gone.
Abandoned(n) == ~ up /\ pc[n] \in {"tx", "subscribe"}

\* Every node leaves the simulation, at its end or when it is told to; the
\* only ones that may not are in wsnet2_tx or wsnet2_subscribe when the server has
\* gone.
EveryoneLeaves ==
  <>(\A n \in Nodes : pc[n] = "closed" \/ Abandoned(n))

\* wsnet2_pkt.h:42, "kill all nodes": nobody stays when the server is killed.
KilledLeaves == <>(\A n \in Nodes : pc[n] = "closed")
=============================================================================
