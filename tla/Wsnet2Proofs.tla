----------------------------- MODULE Wsnet2Proofs ------------------------------
(***************************************************************************)
(* What WSNet2 nodes and their server agree on, for any nodes, programs,   *)
(* speeds and period: no node is ever desynchronized, and none loses or    *)
(* repeats a byte by going back.                                           *)
(***************************************************************************)
EXTENDS Wsnet2, FiniteSetTheorems, WellFoundedInduction, TLAPS

-----------------------------------------------------------------------------
(* Types of the packets. *)

PktType ==
  {"BACKTRACK", "SYNC_RELEASE", "SYNC_REMINDER", "RX", "SR_RX", "KILL", "KILLSIM"}

McastPkt ==
  [type : PktType, seq : Nat, node : Nodes \cup {0}, src : Nodes \cup {0}, start : Nat,
   rp_next : Nat, rp_duration : Nat]

ServerPkt ==
  [type : {"CONNECT_REQ", "DISCONNECT"}, node : Nodes]
    \cup [type : {"SYNC_ACK"}, node : Nodes, rp_id : Nat]
    \cup [type : {"BYTE_TX"}, node : Nodes, kind : {"byte", "measure"}, duration : Nat,
          period : Nat]

ConnectedPkt ==
  [type : {"CONNECT_RSP_OK"}, seq : Nat, rp_next : Nat, rp_duration : Nat, names : Models]

AnswerPkt == ConnectedPkt \cup [type : {"CONNECT_RSP_NOK"}]

NetType ==
  /\ toServer \in Seq(ServerPkt)
  /\ answer \in [Nodes -> Seq(AnswerPkt)]
  /\ mcast \in [Nodes -> Seq(McastPkt)]
  /\ \A n \in Nodes : \A i \in 1..Len(mcast[n]) :
       mcast[n][i].type \in {"RX", "SR_RX"} => mcast[n][i].src \in Nodes

\* The backup was made at the last rendez-vous.
Dates ==
  \A n \in Nodes : backup[n].now = wsens[n].l_rp /\ wsens[n].l_rp <= machine[n].now

TypeInv == TypeOK /\ NetType /\ Dates /\ IsFiniteSet(air)

-----------------------------------------------------------------------------
(* The packets on their way to a node. *)

Changing(p) == p.type \in {"BACKTRACK", "SYNC_RELEASE", "SR_RX"}
Tells(p, n) == p.type = "KILLSIM" \/ (p.type = "KILL" /\ p.node = n)

\* They are numbered from the one the node expects.
InSeq(w, q) == \A i \in 1..Len(q) : q[i].seq = w.seq + i - 1

\* Of the first i packets, the j-th is the last to change the rendez-vous; none
\* does when j is 0.
LastChange(q, i, j) ==
  /\ j # 0 => Changing(q[j])
  /\ \A k \in 1..i : j < k => ~ Changing(q[k])

\* The next rendez-vous and its distance, for a node that has parsed i packets.
Knows(w, q, i, rp) ==
  \E j \in 0..i : LastChange(q, i, j) /\ rp = IF j = 0 THEN w.rpseq ELSE q[j].rp_next

Distant(w, q, i, d) ==
  \E j \in 0..i : LastChange(q, i, j)
                  /\ IF j = 0 THEN w.n_rp = w.l_rp + d ELSE q[j].rp_duration = d

Grows(w, q, rp) ==
  /\ w.rpseq <= rp
  /\ \A j \in 1..Len(q) : Changing(q[j]) =>
       /\ w.rpseq < q[j].rp_next /\ q[j].rp_next <= rp
       /\ \A k \in 1..Len(q) : k < j /\ Changing(q[k]) => q[k].rp_next < q[j].rp_next

\* A reminder names a rendez-vous the node will know by then.
Reminded(w, q) ==
  \A i \in 1..Len(q) : q[i].type = "SYNC_REMINDER" => Knows(w, q, i, q[i].rp_next)

\* A release finds the node waiting.
Released(q, waiting) ==
  \A i \in 1..Len(q) : q[i].type = "SYNC_RELEASE" =>
    waiting /\ \A k \in 1..Len(q) : k < i => ~ Changing(q[k])

Untold(q, n) == \A i \in 1..Len(q) : ~ Tells(q[i], n)

Waiting(n) == pc[n] = "sync" /\ wsens[n].state = "pending"

\* A node that goes on: w is what it knows, q are the packets it has not parsed.
GoodOf(w, q, n, waiting, sq, rp, d) ==
  /\ w.seq + Len(q) = sq
  /\ Knows(w, q, Len(q), rp) /\ Distant(w, q, Len(q), d)
  /\ Grows(w, q, rp) /\ Reminded(w, q) /\ Released(q, waiting) /\ Untold(q, n)

Good(n) ==
  /\ GoodOf(wsens[n], mcast[n], n, Waiting(n), seq, rpseq, duration)
  /\ ~ machine[n].kill /\ ~ backup[n].kill

\* A node that was told to leave, or is about to be, does not go back.
KeepsOn(q) ==
  \/ \E k \in 1..Len(q) : /\ q[k].type \in {"SYNC_RELEASE", "SR_RX"}
                          /\ \A j \in 1..Len(q) : j < k => q[j].type # "BACKTRACK"
  \/ ~ up /\ \A j \in 1..Len(q) : q[j].type # "BACKTRACK"

\* A packet that tells the node to leave, before any that lets it go on.
Doomed(q, n) ==
  \E i \in 1..Len(q) : Tells(q[i], n) /\ \A k \in 1..Len(q) : k < i => ~ Changing(q[k])

Leaving(n) ==
  \/ machine[n].kill /\ pc[n] = "run"
  \/ machine[n].kill /\ pc[n] \in {"radio", "tx"} /\ KeepsOn(mcast[n])
  \/ Waiting(n) /\ ~ machine[n].kill /\ KeepsOn(mcast[n]) /\ Doomed(mcast[n], n)

\* The numbers of the queue, and the end of the simulation at its end.
NumbersIn(w, q, sq) ==
  /\ InSeq(w, q) /\ (up => w.seq + Len(q) = sq)
  /\ \A i \in 1..Len(q) : q[i].type = "KILLSIM" => ~ up /\ i = Len(q)

NumbersOf(n) == NumbersIn(wsens[n], mcast[n], seq)

MemberOf(n) == IF n \in killed THEN Leaving(n) ELSE Good(n) /\ up /\ n \in active

Members == \A n \in joined : NumbersOf(n) /\ MemberOf(n)

-----------------------------------------------------------------------------
(* Connections and acknowledgements. *)

Early == {"off", "subscribe", "join"}

ConnectionOf(n) ==
  /\ pc[n] = "off" => n \notin active /\ answer[n] = <<>>
  /\ n \in active /\ pc[n] = "subscribe" =>
       up /\ answer[n] # <<>> /\ answer[n][1].type = "CONNECT_RSP_OK"
          /\ answer[n][1].seq = seq /\ answer[n][1].rp_next = rpseq
          /\ answer[n][1].rp_duration = duration
  /\ n \notin active /\ pc[n] = "subscribe" =>
       \A i \in 1..Len(answer[n]) : answer[n][i].type = "CONNECT_RSP_NOK"
  /\ pc[n] = "join" =>
       /\ n \in active /\ up /\ wsens[n].seq = seq /\ wsens[n].rpseq = rpseq
       /\ wsens[n].n_rp = wsens[n].l_rp + duration
  /\ pc[n] \in Early =>
       /\ n \notin joined /\ n \notin acked /\ n \notin killed
       /\ ~ machine[n].kill /\ ~ backup[n].kill
  /\ pc[n] = "closed" => n \notin joined
  /\ n \notin joined => mcast[n] = <<>>

Connections ==
  /\ \A n \in Nodes : ConnectionOf(n)
  /\ acked \subseteq active /\ (up => active \cap killed = {})

PacketOf(p) ==
  /\ p.type = "CONNECT_REQ" =>
       pc[p.node] = "subscribe" /\ answer[p.node] = <<>> /\ p.node \notin active
  /\ p.type = "DISCONNECT" => pc[p.node] = "closed"
  /\ p.type = "BYTE_TX" => \A m \in Nodes : pc[m] \notin Early
  /\ p.type = "SYNC_ACK" =>
       /\ pc[p.node] \notin Early
       /\ p.node \in joined \ killed =>
            p.rp_id <= wsens[p.node].rpseq /\ (p.rp_id = rpseq => Waiting(p.node))

OnTheWay ==
  /\ \A i \in 1..Len(toServer) : PacketOf(toServer[i])
  /\ \A i, j \in 1..Len(toServer) :
       (toServer[i].type = "CONNECT_REQ" /\ toServer[j].type = "CONNECT_REQ"
          /\ toServer[i].node = toServer[j].node) => i = j

AckedOf(n) == n \in joined \ killed => Waiting(n) /\ wsens[n].rpseq = rpseq

Acked == \A n \in acked : AckedOf(n)

IInv == TypeInv /\ Members /\ Connections /\ OnTheWay /\ Acked

-----------------------------------------------------------------------------
(* The handlers. *)

ClientT == [state : CltState, seq : Nat, rpseq : Nat, l_rp : Nat, n_rp : Nat]
MachineT == [now : Nat, next : Nat \ {0}, got : Seq(Nodes \X Nat), kill : BOOLEAN]
PartsT == [w : ClientT, m : MachineT, b : MachineT, failed : BOOLEAN]

Dated(s) == s.b.now = s.w.l_rp /\ s.w.l_rp <= s.m.now

LEMMA FinalizeParts ==
  ASSUME NEW s \in PartsT
  PROVE  /\ Finalize(s) \in PartsT /\ Finalize(s).w = s.w /\ Finalize(s).b = s.b
         /\ Finalize(s).failed = s.failed /\ Finalize(s).m.kill
         /\ Finalize(s).m.now = s.m.now
<1> DEFINE m == [s.m EXCEPT !.kill = TRUE]
<1>1. s.m \in MachineT
  BY DEF PartsT
<1>2. m \in MachineT /\ m.kill /\ m.now = s.m.now
  BY <1>1 DEF MachineT
<1>3. Finalize(s) = [s EXCEPT !.m = m]
  BY DEF Finalize
<1> HIDE DEF m
<1> QED BY <1>2, <1>3 DEF PartsT

LEMMA ErrorParts ==
  ASSUME NEW s \in PartsT
  PROVE  /\ Error(s) \in PartsT /\ Error(s).w = s.w /\ Error(s).b = s.b
         /\ Error(s).failed /\ Error(s).m.kill /\ Error(s).m.now = s.m.now
<1> DEFINE f == Finalize(s)
<1>1. f \in PartsT /\ f.w = s.w /\ f.b = s.b /\ f.m.kill /\ f.m.now = s.m.now
  BY FinalizeParts
<1>2. Error(s) = [f EXCEPT !.failed = TRUE]
  BY DEF Error
<1> HIDE DEF f
<1>3. Error(s) = [w |-> f.w, m |-> f.m, b |-> f.b, failed |-> TRUE]
  BY <1>1, <1>2 DEF PartsT
<1>4. f.w \in ClientT /\ f.m \in MachineT /\ f.b \in MachineT
  BY <1>1 DEF PartsT
<1>5. Error(s) \in PartsT
  BY <1>3, <1>4 DEF PartsT
<1>6. Error(s).w = f.w /\ Error(s).m = f.m /\ Error(s).b = f.b /\ Error(s).failed = TRUE
  BY <1>3
<1> QED BY <1>1, <1>5, <1>6

LEMMA SaveStateParts ==
  ASSUME NEW s \in PartsT
  PROVE  /\ SaveState(s) \in PartsT /\ SaveState(s).m = s.m /\ SaveState(s).b = s.m
         /\ SaveState(s).failed = s.failed
         /\ SaveState(s).w = [s.w EXCEPT !.l_rp = s.m.now, !.state = "idle"]
<1> DEFINE w == [s.w EXCEPT !.l_rp = s.m.now, !.state = "idle"]
<1>1. w \in ClientT
  BY DEF PartsT, ClientT, MachineT, CltState
<1>2. SaveState(s) = [s EXCEPT !.w = w, !.b = s.m]
  BY DEF SaveState, PartsT, ClientT
<1> HIDE DEF w
<1>3. s.m \in MachineT
  BY DEF PartsT
<1>4. SaveState(s) \in PartsT /\ SaveState(s).m = s.m /\ SaveState(s).b = s.m
      /\ SaveState(s).failed = s.failed /\ SaveState(s).w = w
  BY <1>1, <1>2, <1>3 DEF PartsT
<1> QED BY <1>4 DEF w

LEMMA NextRpParts ==
  ASSUME NEW s \in PartsT, NEW pkt \in McastPkt \cup ConnectedPkt, NEW from \in Nat
  PROVE  /\ NextRp(s, pkt, from) \in PartsT /\ NextRp(s, pkt, from).m = s.m
         /\ NextRp(s, pkt, from).b = s.b /\ NextRp(s, pkt, from).failed = s.failed
         /\ NextRp(s, pkt, from).w =
              [s.w EXCEPT !.rpseq = pkt.rp_next, !.n_rp = from + pkt.rp_duration]
<1> DEFINE w == [s.w EXCEPT !.rpseq = pkt.rp_next, !.n_rp = from + pkt.rp_duration]
<1>0. from + pkt.rp_duration \in Nat /\ pkt.rp_next \in Nat /\ s.w \in ClientT
  <2>1. pkt.rp_duration \in Nat /\ pkt.rp_next \in Nat
    BY DEF McastPkt, ConnectedPkt
  <2> QED BY <2>1 DEF PartsT
<1>1. w \in ClientT
  BY <1>0 DEF ClientT
<1>2. NextRp(s, pkt, from) = [s EXCEPT !.w = w]
  BY DEF NextRp, PartsT, ClientT
<1> HIDE DEF w
<1>3. NextRp(s, pkt, from) \in PartsT /\ NextRp(s, pkt, from).m = s.m
      /\ NextRp(s, pkt, from).b = s.b /\ NextRp(s, pkt, from).failed = s.failed
      /\ NextRp(s, pkt, from).w = w
  BY <1>1, <1>2 DEF PartsT
<1> QED BY <1>3 DEF w

LEMMA HeardParts ==
  ASSUME NEW s \in PartsT, NEW pkt \in McastPkt, NEW n, pkt.src \in Nodes
  PROVE  /\ Heard(s, n, pkt) \in PartsT /\ Heard(s, n, pkt).w = s.w
         /\ Heard(s, n, pkt).b = s.b /\ Heard(s, n, pkt).failed = s.failed
         /\ Heard(s, n, pkt).m.kill = s.m.kill /\ Heard(s, n, pkt).m.now = s.m.now
<1> DEFINE g == Append(s.m.got, <<pkt.src, pkt.start>>)
           m == [s.m EXCEPT !.got = g]
<1>1. s.m \in MachineT
  BY DEF PartsT
<1>2. <<pkt.src, pkt.start>> \in Nodes \X Nat
  BY DEF McastPkt
<1>3. s.m.got \in Seq(Nodes \X Nat)
  BY <1>1 DEF MachineT
<1>4. g \in Seq(Nodes \X Nat)
  <2> HIDE DEF m
  <2> QED BY <1>2, <1>3
<1> HIDE DEF g
<1>5. m \in MachineT /\ m.kill = s.m.kill /\ m.now = s.m.now
  BY <1>1, <1>4 DEF MachineT
<1>6. Heard(s, n, pkt) = IF pkt.node = n THEN [s EXCEPT !.m = m] ELSE s
  BY DEF Heard, PartsT, MachineT, g
<1> HIDE DEF m
<1> QED BY <1>5, <1>6 DEF PartsT

\* The parts of a node after it has parsed a packet that comes in sequence.
NewRp(s, t, pkt) ==
  /\ t.w.rpseq = pkt.rp_next /\ t.w.n_rp = t.w.l_rp + pkt.rp_duration
  /\ t.w.state = "idle" /\ t.w.seq = s.w.seq /\ ~ t.failed

SameRp(s, t) ==
  t.w.rpseq = s.w.rpseq /\ t.w.n_rp = s.w.n_rp /\ t.w.l_rp = s.w.l_rp /\ t.w.seq = s.w.seq

LEMMA BacktrackParts ==
  ASSUME NEW s \in PartsT, NEW pkt \in McastPkt, Dated(s), ~ s.failed
  PROVE  LET t == Backtrack(s, pkt)
         IN  /\ t \in PartsT /\ Dated(t) /\ NewRp(s, t, pkt)
             /\ t.b = s.b /\ t.m \in {s.m, s.b}
<1> DEFINE u == IF s.m.now > s.w.l_rp + pkt.rp_duration THEN [s EXCEPT !.m = s.b] ELSE s
           v == NextRp(u, pkt, u.w.l_rp)
           w == [v.w EXCEPT !.state = "idle"]
           t == Backtrack(s, pkt)
<1>1. u \in PartsT /\ u.w = s.w /\ u.b = s.b /\ u.m \in {s.m, s.b} /\ u.failed = s.failed
  BY DEF PartsT
<1>2. Dated(u)
  BY <1>1 DEF Dated, PartsT, MachineT, ClientT
<1>3. t = [v EXCEPT !.w.state = "idle"]
  BY DEF Backtrack
<1> HIDE DEF u
<1>4. u.w.l_rp \in Nat /\ u.w \in ClientT /\ pkt.rp_next \in Nat /\ pkt.rp_duration \in Nat
  BY <1>1 DEF PartsT, ClientT, McastPkt
<1>11. pkt \in McastPkt \cup ConnectedPkt
  OBVIOUS
<1>12. \A f \in Nat :
         /\ NextRp(u, pkt, f) \in PartsT /\ NextRp(u, pkt, f).m = u.m
         /\ NextRp(u, pkt, f).b = u.b /\ NextRp(u, pkt, f).failed = u.failed
         /\ NextRp(u, pkt, f).w =
              [u.w EXCEPT !.rpseq = pkt.rp_next, !.n_rp = f + pkt.rp_duration]
  <2> HIDE DEF v, w, t
  <2>1. u \in PartsT
    BY <1>1
  <2> QED BY <2>1, <1>11, NextRpParts
<1>5. /\ v \in PartsT /\ v.m = u.m /\ v.b = u.b /\ v.failed = u.failed
      /\ v.w = [u.w EXCEPT !.rpseq = pkt.rp_next, !.n_rp = u.w.l_rp + pkt.rp_duration]
  BY <1>4, <1>12
<1> HIDE DEF v
<1>6. v.w \in ClientT
  BY <1>5 DEF PartsT
<1>7. /\ w \in ClientT /\ w.state = "idle" /\ w.rpseq = pkt.rp_next /\ w.seq = u.w.seq
      /\ w.l_rp = u.w.l_rp /\ w.n_rp = u.w.l_rp + pkt.rp_duration
  BY <1>4, <1>5, <1>6 DEF ClientT, CltState
<1>8. t = [v EXCEPT !.w = w]
  BY <1>3, <1>5, <1>6 DEF PartsT, ClientT
<1> HIDE DEF w, t
<1>9. t \in PartsT /\ t.w = w /\ t.m = v.m /\ t.b = v.b /\ t.failed = v.failed
  BY <1>5, <1>7, <1>8 DEF PartsT
<1>10. t \in PartsT /\ Dated(t) /\ NewRp(s, t, pkt) /\ t.b = s.b /\ t.m \in {s.m, s.b}
  BY <1>1, <1>2, <1>5, <1>7, <1>9 DEF Dated, NewRp
<1> QED BY <1>10 DEF t

LEMMA SavedRp ==
  ASSUME NEW s \in PartsT, NEW pkt \in McastPkt \cup ConnectedPkt, Dated(s), ~ s.failed
  PROVE  LET t == SaveState(NextRp(s, pkt, s.m.now))
         IN  /\ t \in PartsT /\ Dated(t) /\ NewRp(s, t, pkt)
             /\ t.b = s.m /\ t.m = s.m
<1> DEFINE v == NextRp(s, pkt, s.m.now)
           t == SaveState(v)
<1>1. s.m.now \in Nat /\ s.w \in ClientT
  BY DEF PartsT, MachineT
<1>2. /\ v \in PartsT /\ v.m = s.m /\ v.b = s.b /\ v.failed = s.failed
      /\ v.w = [s.w EXCEPT !.rpseq = pkt.rp_next, !.n_rp = s.m.now + pkt.rp_duration]
  BY <1>1, NextRpParts
<1> HIDE DEF v
<1>3. /\ t \in PartsT /\ t.m = v.m /\ t.b = v.m /\ t.failed = v.failed
      /\ t.w = [v.w EXCEPT !.l_rp = v.m.now, !.state = "idle"]
  BY <1>2, SaveStateParts
<1>4. v.w \in ClientT
  BY <1>2 DEF PartsT
<1> HIDE DEF t
<1>5. /\ t.w.rpseq = pkt.rp_next /\ t.w.n_rp = s.m.now + pkt.rp_duration
      /\ t.w.l_rp = s.m.now /\ t.w.state = "idle" /\ t.w.seq = s.w.seq
  BY <1>1, <1>2, <1>3, <1>4 DEF ClientT
<1>6. t \in PartsT /\ Dated(t) /\ NewRp(s, t, pkt) /\ t.b = s.m /\ t.m = s.m
  BY <1>1, <1>2, <1>3, <1>5 DEF Dated, NewRp
<1> QED BY <1>6 DEF t, v

\* What a packet in sequence does, by its type.
Effect(s, t, n, pkt) ==
  /\ t \in PartsT /\ Dated(t) /\ t.w.seq = s.w.seq
  /\ (Changing(pkt) /\ (pkt.type = "SYNC_RELEASE" => s.w.state = "pending")) =>
       /\ NewRp(s, t, pkt) /\ t.m.kill \in {s.m.kill, s.b.kill}
       /\ t.b.kill \in {s.m.kill, s.b.kill}
       /\ pkt.type # "BACKTRACK" => t.m.kill = s.m.kill
  /\ (pkt.type = "SYNC_RELEASE" /\ s.w.state # "pending") => t.m.kill /\ t.failed
  /\ pkt.type = "SYNC_REMINDER" =>
       /\ SameRp(s, t)
       /\ \/ pkt.rp_next = s.w.rpseq /\ ~ t.failed /\ t.m = s.m /\ t.b = s.b
             /\ (s.w.state # "txing" => t.w.state = s.w.state)
          \/ pkt.rp_next # s.w.rpseq /\ t.m.kill /\ t.failed
  /\ (pkt.type = "RX" \/ (pkt.type = "KILL" /\ pkt.node # n)) =>
       /\ SameRp(s, t) /\ t.w.state = s.w.state /\ ~ t.failed
       /\ t.m.kill = s.m.kill /\ t.b.kill = s.b.kill
  /\ Tells(pkt, n) =>
       t.m.kill /\ t.w.state = "killed" /\ ~ t.failed

LEMMA HandlerEffect ==
  ASSUME NEW s \in PartsT, NEW pkt \in McastPkt, NEW n \in Nodes, Dated(s), ~ s.failed,
         pkt.type # "KILLSIM", pkt.type \in {"RX", "SR_RX"} => pkt.src \in Nodes
  PROVE  Effect(s, Handler(s, n, pkt), n, pkt)
<1> DEFINE t == Handler(s, n, pkt)
<1>0. /\ pkt.type \in PktType /\ s.w \in ClientT /\ s.m \in MachineT /\ s.b \in MachineT
      /\ s.failed \in BOOLEAN /\ pkt.rp_next \in Nat /\ pkt.rp_duration \in Nat
  BY DEF McastPkt, PartsT
<1>1. CASE pkt.type = "BACKTRACK"
  <2>1. t = Backtrack(s, pkt)
    BY <1>1 DEF Handler
  <2> HIDE DEF t
  <2>2. t \in PartsT /\ Dated(t) /\ NewRp(s, t, pkt) /\ t.b = s.b /\ t.m \in {s.m, s.b}
    BY <2>1, BacktrackParts
  <2>3. Effect(s, t, n, pkt)
    BY <1>1, <2>2 DEF Effect, Changing, Tells, NewRp, SameRp
  <2> QED BY <2>3 DEF t
<1>2. CASE pkt.type = "SYNC_RELEASE" /\ s.w.state = "pending"
  <2>1. t = SaveState(NextRp(s, pkt, s.m.now))
    BY <1>2 DEF Handler, SyncRelease
  <2> HIDE DEF t
  <2>2. t \in PartsT /\ Dated(t) /\ NewRp(s, t, pkt) /\ t.b = s.m /\ t.m = s.m
    BY <1>0, <2>1, SavedRp
  <2>3. Effect(s, t, n, pkt)
    BY <1>2, <2>2 DEF Effect, Changing, Tells, NewRp, SameRp
  <2> QED BY <2>3 DEF t
<1>3. CASE pkt.type = "SYNC_RELEASE" /\ s.w.state # "pending"
  <2>1. t = Error(s)
    BY <1>3 DEF Handler, SyncRelease
  <2> HIDE DEF t
  <2>2. t \in PartsT /\ t.w = s.w /\ t.b = s.b /\ t.failed /\ t.m.kill /\ t.m.now = s.m.now
    BY <2>1, ErrorParts
  <2>3. Effect(s, t, n, pkt)
    BY <1>3, <2>2 DEF Effect, Changing, Tells, Dated
  <2> QED BY <2>3 DEF t
<1>4. CASE pkt.type = "SYNC_REMINDER" /\ pkt.rp_next # s.w.rpseq
  <2>1. t = Error(s)
    BY <1>4 DEF Handler, SyncReminder
  <2> HIDE DEF t
  <2>2. t \in PartsT /\ t.w = s.w /\ t.b = s.b /\ t.failed /\ t.m.kill /\ t.m.now = s.m.now
    BY <2>1, ErrorParts
  <2>3. Effect(s, t, n, pkt)
    BY <1>4, <2>2 DEF Effect, Changing, Tells, Dated, SameRp
  <2> QED BY <2>3 DEF t
<1>5. CASE pkt.type = "SYNC_REMINDER" /\ pkt.rp_next = s.w.rpseq
  <2> DEFINE w == [s.w EXCEPT !.state = "idle"]
  <2>1. t = IF s.w.state = "txing" THEN [s EXCEPT !.w = w] ELSE s
    BY <1>0, <1>5 DEF Handler, SyncReminder, PartsT, ClientT
  <2>2. w \in ClientT /\ w.rpseq = s.w.rpseq /\ w.n_rp = s.w.n_rp /\ w.l_rp = s.w.l_rp
        /\ w.seq = s.w.seq
    BY <1>0 DEF ClientT, CltState
  <2> HIDE DEF t, w
  <2>3. t \in PartsT /\ t.m = s.m /\ t.b = s.b /\ t.failed = s.failed
        /\ t.w = IF s.w.state = "txing" THEN w ELSE s.w
    BY <1>0, <2>1, <2>2 DEF PartsT
  <2>4. SameRp(s, t) /\ (s.w.state # "txing" => t.w.state = s.w.state) /\ Dated(t)
    BY <2>2, <2>3 DEF SameRp, Dated
  <2>5. Effect(s, t, n, pkt)
    BY <1>5, <2>3, <2>4 DEF Effect, Changing, Tells, NewRp, SameRp
  <2> QED BY <2>5 DEF t
<1>6. CASE pkt.type = "RX"
  <2>1. t = Heard(s, n, pkt)
    BY <1>6 DEF Handler
  <2> HIDE DEF t
  <2>2. t \in PartsT /\ t.w = s.w /\ t.b = s.b /\ t.failed = s.failed
        /\ t.m.kill = s.m.kill /\ t.m.now = s.m.now
    BY <1>6, <2>1, HeardParts
  <2>3. Effect(s, t, n, pkt)
    BY <1>6, <2>2 DEF Effect, Changing, Tells, Dated, SameRp
  <2> QED BY <2>3 DEF t
<1>7. CASE pkt.type = "SR_RX"
  <2> DEFINE h == Heard(s, n, pkt)
  <2>1. t = SaveState(NextRp(h, pkt, s.m.now))
    BY <1>7 DEF Handler, SrRx
  <2>2. h \in PartsT /\ h.w = s.w /\ h.b = s.b /\ h.failed = s.failed
        /\ h.m.kill = s.m.kill /\ h.m.now = s.m.now
    BY <1>7, HeardParts
  <2> HIDE DEF t, h
  <2>3. Dated(h) /\ ~ h.failed /\ t = SaveState(NextRp(h, pkt, h.m.now))
    BY <2>1, <2>2 DEF Dated
  <2>4. t \in PartsT /\ Dated(t) /\ NewRp(h, t, pkt) /\ t.b = h.m /\ t.m = h.m
    BY <1>0, <2>2, <2>3, SavedRp
  <2>5. NewRp(s, t, pkt)
    BY <2>2, <2>4 DEF NewRp
  <2>6. Effect(s, t, n, pkt)
    BY <1>7, <2>2, <2>4, <2>5 DEF Effect, Changing, Tells, NewRp, SameRp
  <2> QED BY <2>6 DEF t
<1>8. CASE pkt.type = "KILL" /\ pkt.node # n
  <2>1. t = s
    BY <1>8 DEF Handler, KillNode
  <2>2. Effect(s, s, n, pkt)
    BY <1>8 DEF Effect, Changing, Tells, SameRp
  <2> QED BY <2>1, <2>2
<1>9. CASE pkt.type = "KILL" /\ pkt.node = n
  <2> DEFINE f == Finalize(s)
             w == [f.w EXCEPT !.state = "killed"]
  <2>1. t = [f EXCEPT !.w.state = "killed"]
    BY <1>9 DEF Handler, KillNode
  <2>2. f \in PartsT /\ f.w = s.w /\ f.b = s.b /\ f.failed = s.failed /\ f.m.kill
        /\ f.m.now = s.m.now
    BY FinalizeParts
  <2> HIDE DEF f
  <2>3. t = [f EXCEPT !.w = w]
    BY <1>0, <2>1, <2>2 DEF PartsT, ClientT
  <2>4. w \in ClientT /\ w.l_rp = s.w.l_rp /\ w.state = "killed" /\ w.seq = s.w.seq
    BY <1>0, <2>2 DEF ClientT, CltState
  <2> HIDE DEF t, w
  <2>5. t \in PartsT /\ t.w = w /\ t.m = f.m /\ t.b = f.b /\ t.failed = f.failed
    BY <2>2, <2>3, <2>4 DEF PartsT
  <2>6. Effect(s, t, n, pkt)
    BY <1>9, <2>2, <2>4, <2>5 DEF Effect, Changing, Tells, Dated
  <2> QED BY <2>6 DEF t
<1> QED BY <1>0, <1>1, <1>2, <1>3, <1>4, <1>5, <1>6, <1>7, <1>8, <1>9 DEF PktType

\* The same for wsnet2_parse, which also counts the packet.
LEMMA ParsedEffect ==
  ASSUME NEW s \in PartsT, NEW pkt \in McastPkt, NEW n \in Nodes, Dated(s), ~ s.failed,
         pkt.seq = s.w.seq, pkt.type \in {"RX", "SR_RX"} => pkt.src \in Nodes
  PROVE  \E r \in PartsT :
           /\ r.m = s.m /\ r.b = s.b /\ ~ r.failed
           /\ r.w.rpseq = s.w.rpseq /\ r.w.n_rp = s.w.n_rp /\ r.w.l_rp = s.w.l_rp
           /\ r.w.state = s.w.state
           /\ pkt.type # "KILLSIM" => r.w.seq = s.w.seq + 1
           /\ Effect(r, Parsed(s, n, pkt), n, pkt)
<1>0. s.w \in ClientT /\ s.w.seq \in Nat
  BY DEF PartsT, ClientT
<1>1. CASE pkt.type = "KILLSIM"
  <2> DEFINE f == Finalize(s)
             w == [f.w EXCEPT !.state = "killed"]
             t == Parsed(s, n, pkt)
  <2>1. t = [f EXCEPT !.w.state = "killed"]
    BY <1>1 DEF Parsed
  <2>2. f \in PartsT /\ f.w = s.w /\ f.b = s.b /\ f.failed = s.failed /\ f.m.kill
        /\ f.m.now = s.m.now
    BY FinalizeParts
  <2> HIDE DEF f
  <2>3. t = [f EXCEPT !.w = w]
    BY <1>0, <2>1, <2>2 DEF PartsT, ClientT
  <2>4. w \in ClientT /\ w.l_rp = s.w.l_rp /\ w.state = "killed" /\ w.seq = s.w.seq
    BY <1>0, <2>2 DEF ClientT, CltState
  <2> HIDE DEF t, w
  <2>5. t \in PartsT /\ t.w = w /\ t.m = f.m /\ t.b = f.b /\ t.failed = f.failed
    BY <2>2, <2>3, <2>4 DEF PartsT
  <2>6. Effect(s, t, n, pkt)
    BY <1>1, <2>2, <2>4, <2>5 DEF Effect, Changing, Tells, Dated
  <2>7. Effect(s, Parsed(s, n, pkt), n, pkt)
    BY <2>6 DEF t
  <2> QED BY <1>1, <2>7
<1>2. CASE pkt.type # "KILLSIM"
  <2> DEFINE w == [s.w EXCEPT !.seq = s.w.seq + 1]
             r == [s EXCEPT !.w = w]
  <2>1. w \in ClientT /\ w.seq = s.w.seq + 1 /\ w.rpseq = s.w.rpseq /\ w.n_rp = s.w.n_rp
        /\ w.l_rp = s.w.l_rp /\ w.state = s.w.state
    BY <1>0 DEF ClientT
  <2>2. r = [s EXCEPT !.w.seq = @ + 1]
    BY <1>0 DEF PartsT, ClientT
  <2>3. Parsed(s, n, pkt) = Handler([s EXCEPT !.w.seq = @ + 1], n, pkt)
    BY <1>0, <1>2 DEF Parsed, InSequence
  <2> HIDE DEF w
  <2>4. r \in PartsT /\ r.w = w /\ r.m = s.m /\ r.b = s.b /\ r.failed = s.failed
    BY <2>1 DEF PartsT
  <2>5. Dated(r)
    BY <2>1, <2>4 DEF Dated
  <2>6. Parsed(s, n, pkt) = Handler(r, n, pkt)
    BY <2>2, <2>3
  <2> HIDE DEF r
  <2>7. Effect(r, Handler(r, n, pkt), n, pkt)
    BY <1>2, <2>4, <2>5, HandlerEffect
  <2> QED BY <1>2, <2>1, <2>4, <2>6, <2>7
<1> QED BY <1>1, <1>2

-----------------------------------------------------------------------------
(* Queues: what parsing their first packet and adding packets keep. *)

\* p is q with r behind it.
Joins(p, q, r) ==
  /\ Len(p) = Len(q) + Len(r)
  /\ \A i \in 1..Len(q) : p[i] = q[i]
  /\ \A i \in 1..Len(r) : p[Len(q) + i] = r[i]

LEMMA ConcatJoins ==
  ASSUME NEW S, NEW q \in Seq(S), NEW r \in Seq(S)
  PROVE  Joins(q \o r, q, r) /\ q \o r \in Seq(S)
  BY DEF Joins

LEMMA Behind ==
  ASSUME NEW p, NEW q, NEW r, Joins(p, q, r), Len(q) \in Nat, Len(r) \in Nat,
         NEW i \in 1..Len(p), i > Len(q)
  PROVE  i - Len(q) \in 1..Len(r) /\ p[i] = r[i - Len(q)]
<1>1. i - Len(q) \in 1..Len(r)
  BY DEF Joins
<1>2. i = Len(q) + (i - Len(q))
  OBVIOUS
<1> QED BY <1>1, <1>2 DEF Joins

\* q without its first packet.
LEMMA TailOf ==
  ASSUME NEW S, NEW q \in Seq(S), q # <<>>
  PROVE  /\ Tail(q) \in Seq(S) /\ Len(q) \in Nat \ {0} /\ Len(Tail(q)) = Len(q) - 1
         /\ \A i \in 1..Len(Tail(q)) : Tail(q)[i] = q[i + 1]
         /\ Head(q) = q[1] /\ q[1] \in S /\ 1 \in 1..Len(q)
  OBVIOUS

LEMMA InSeqTail ==
  ASSUME NEW S, NEW q \in Seq(S), q # <<>>, NEW w, NEW v, w.seq \in Nat,
         v.seq = w.seq + 1, InSeq(w, q)
  PROVE  InSeq(v, Tail(q))
<1>1. ASSUME NEW i \in 1..Len(Tail(q)) PROVE Tail(q)[i].seq = v.seq + i - 1
  <2>1. i + 1 \in 1..Len(q) /\ Tail(q)[i] = q[i + 1]
    BY TailOf
  <2>2. q[i + 1].seq = w.seq + (i + 1) - 1
    BY <2>1 DEF InSeq
  <2> QED BY <2>1, <2>2
<1> QED BY <1>1 DEF InSeq

\* w is what the node knows before a packet, v after it.
Told(w, v, p) == v.rpseq = IF Changing(p) THEN p.rp_next ELSE w.rpseq

LEMMA LastChangeTail ==
  ASSUME NEW S, NEW q \in Seq(S), q # <<>>, NEW i \in 1..Len(q), NEW j \in 0..i,
         LastChange(q, i, j)
  PROVE  LastChange(Tail(q), i - 1, IF j = 0 THEN 0 ELSE j - 1)
<1> DEFINE t == Tail(q)
           h == IF j = 0 THEN 0 ELSE j - 1
<1>1. Len(q) \in Nat /\ Len(t) = Len(q) - 1 /\ \A k \in 1..Len(t) : t[k] = q[k + 1]
  BY TailOf
<1> HIDE DEF t
<1>2. h # 0 => Changing(t[h])
  <2>1. ASSUME h # 0 PROVE h \in 1..Len(t) /\ h + 1 = j /\ j # 0
    BY <1>1, <2>1
  <2> QED BY <1>1, <2>1 DEF LastChange
<1>3. ASSUME NEW k \in 1..(i - 1), h < k PROVE ~ Changing(t[k])
  <2>1. k \in 1..Len(t) /\ k + 1 \in 1..i /\ j < k + 1
    BY <1>1, <1>3
  <2> QED BY <1>1, <2>1 DEF LastChange
<1> QED BY <1>2, <1>3 DEF LastChange, t

LEMMA KnowsTail ==
  ASSUME NEW S, NEW q \in Seq(S), q # <<>>, NEW i \in 1..Len(q), NEW w, NEW v, NEW rp,
         Told(w, v, q[1]), Knows(w, q, i, rp)
  PROVE  Knows(v, Tail(q), i - 1, rp)
<1>1. PICK j \in 0..i : LastChange(q, i, j) /\ rp = IF j = 0 THEN w.rpseq ELSE q[j].rp_next
  BY DEF Knows
<1> DEFINE h == IF j = 0 THEN 0 ELSE j - 1
<1>2. h \in 0..(i - 1)
  OBVIOUS
<1>3. LastChange(Tail(q), i - 1, h)
  BY <1>1, LastChangeTail
<1>4. rp = IF h = 0 THEN v.rpseq ELSE Tail(q)[h].rp_next
  <2>1. CASE j = 0
    <3>1. ~ Changing(q[1])
      BY <1>1, <2>1 DEF LastChange
    <3> QED BY <1>1, <2>1, <3>1 DEF Told
  <2>2. CASE j = 1
    <3>1. Changing(q[1])
      BY <1>1, <2>2 DEF LastChange
    <3> QED BY <1>1, <2>2, <3>1 DEF Told
  <2>3. CASE j > 1
    <3>1. h \in 1..Len(Tail(q)) /\ h + 1 = j /\ h # 0 /\ j # 0
      BY <2>3, TailOf
    <3>2. Tail(q)[h] = q[j]
      BY <3>1, TailOf
    <3> QED BY <1>1, <3>1, <3>2
  <2> QED BY <2>1, <2>2, <2>3
<1> HIDE DEF h
<1> QED BY <1>2, <1>3, <1>4 DEF Knows

LEMMA DistantTail ==
  ASSUME NEW S, NEW q \in Seq(S), q # <<>>, NEW i \in 1..Len(q), NEW w, NEW v, NEW d,
         IF Changing(q[1]) THEN v.n_rp = v.l_rp + q[1].rp_duration
         ELSE v.n_rp = w.n_rp /\ v.l_rp = w.l_rp,
         Distant(w, q, i, d)
  PROVE  Distant(v, Tail(q), i - 1, d)
<1>1. PICK j \in 0..i : /\ LastChange(q, i, j)
                        /\ IF j = 0 THEN w.n_rp = w.l_rp + d ELSE q[j].rp_duration = d
  BY DEF Distant
<1> DEFINE h == IF j = 0 THEN 0 ELSE j - 1
<1>2. h \in 0..(i - 1)
  OBVIOUS
<1>3. LastChange(Tail(q), i - 1, h)
  BY <1>1, LastChangeTail
<1>4. IF h = 0 THEN v.n_rp = v.l_rp + d ELSE Tail(q)[h].rp_duration = d
  <2>1. CASE j = 0
    <3>1. ~ Changing(q[1])
      BY <1>1, <2>1 DEF LastChange
    <3> QED BY <1>1, <2>1, <3>1
  <2>2. CASE j = 1
    <3>1. Changing(q[1])
      BY <1>1, <2>2 DEF LastChange
    <3> QED BY <1>1, <2>2, <3>1
  <2>3. CASE j > 1
    <3>1. h \in 1..Len(Tail(q)) /\ h + 1 = j /\ h # 0 /\ j # 0
      BY <2>3, TailOf
    <3>2. Tail(q)[h] = q[j]
      BY <3>1, TailOf
    <3> QED BY <1>1, <3>1, <3>2
  <2> QED BY <2>1, <2>2, <2>3
<1> HIDE DEF h
<1> QED BY <1>2, <1>3, <1>4 DEF Distant

LEMMA PktFields ==
  ASSUME NEW q \in Seq(McastPkt), NEW k \in 1..Len(q)
  PROVE  /\ q[k] \in McastPkt /\ q[k].type \in PktType /\ q[k].rp_next \in Nat
         /\ q[k].rp_duration \in Nat /\ q[k].seq \in Nat
<1>1. q[k] \in McastPkt
  OBVIOUS
<1> QED BY <1>1 DEF McastPkt

LEMMA GrowsTail ==
  ASSUME NEW q \in Seq(McastPkt), q # <<>>, NEW w, NEW v, NEW rp, Told(w, v, q[1]),
         w.rpseq \in Nat, rp \in Nat, Grows(w, q, rp)
  PROVE  Grows(v, Tail(q), rp) /\ w.rpseq <= v.rpseq
         /\ (Changing(q[1]) => w.rpseq < v.rpseq)
<1> DEFINE t == Tail(q)
<1>1. Len(q) \in Nat /\ Len(t) = Len(q) - 1 /\ 1 \in 1..Len(q)
      /\ \A k \in 1..Len(t) : t[k] = q[k + 1]
  BY TailOf
<1>2. \A k \in 1..Len(q) : q[k].rp_next \in Nat
  BY PktFields
<1> HIDE DEF t
<1>3. CASE Changing(q[1])
  <2>1. v.rpseq = q[1].rp_next /\ w.rpseq < v.rpseq /\ v.rpseq <= rp
    BY <1>1, <1>3 DEF Told, Grows
  <2>2. ASSUME NEW j \in 1..Len(t), Changing(t[j])
        PROVE  v.rpseq < t[j].rp_next /\ t[j].rp_next <= rp
               /\ \A k \in 1..Len(t) : k < j /\ Changing(t[k]) => t[k].rp_next < t[j].rp_next
    <3>1. j + 1 \in 1..Len(q) /\ Changing(q[j + 1]) /\ t[j] = q[j + 1] /\ 1 < j + 1
      BY <1>1, <2>2
    <3>2. \A k \in 1..Len(q) : k < j + 1 /\ Changing(q[k]) => q[k].rp_next < q[j + 1].rp_next
      BY <3>1 DEF Grows
    <3>3. q[j + 1].rp_next <= rp
      BY <3>1 DEF Grows
    <3>4. q[1].rp_next < q[j + 1].rp_next
      BY <1>1, <1>3, <3>1, <3>2
    <3>5. ASSUME NEW k \in 1..Len(t), k < j, Changing(t[k]) PROVE t[k].rp_next < t[j].rp_next
      <4>1. k + 1 \in 1..Len(q) /\ k + 1 < j + 1 /\ t[k] = q[k + 1]
        BY <1>1, <3>5
      <4> QED BY <3>1, <3>2, <3>5, <4>1
    <3> QED BY <2>1, <3>1, <3>3, <3>4, <3>5
  <2>3. w.rpseq <= v.rpseq
    BY <1>1, <1>2, <2>1
  <2> QED BY <2>1, <2>2, <2>3 DEF Grows, t
<1>4. CASE ~ Changing(q[1])
  <2>1. v.rpseq = w.rpseq /\ v.rpseq <= rp
    BY <1>4 DEF Told, Grows
  <2>2. ASSUME NEW j \in 1..Len(t), Changing(t[j])
        PROVE  v.rpseq < t[j].rp_next /\ t[j].rp_next <= rp
               /\ \A k \in 1..Len(t) : k < j /\ Changing(t[k]) => t[k].rp_next < t[j].rp_next
    <3>1. j + 1 \in 1..Len(q) /\ Changing(q[j + 1]) /\ t[j] = q[j + 1]
      BY <1>1, <2>2
    <3>2. \A k \in 1..Len(q) : k < j + 1 /\ Changing(q[k]) => q[k].rp_next < q[j + 1].rp_next
      BY <3>1 DEF Grows
    <3>3. w.rpseq < q[j + 1].rp_next /\ q[j + 1].rp_next <= rp
      BY <3>1 DEF Grows
    <3>5. ASSUME NEW k \in 1..Len(t), k < j, Changing(t[k]) PROVE t[k].rp_next < t[j].rp_next
      <4>1. k + 1 \in 1..Len(q) /\ k + 1 < j + 1 /\ t[k] = q[k + 1]
        BY <1>1, <3>5
      <4> QED BY <3>1, <3>2, <3>5, <4>1
    <3> QED BY <2>1, <3>1, <3>3, <3>5
  <2>3. w.rpseq <= v.rpseq
    BY <2>1
  <2> QED BY <1>4, <2>1, <2>2, <2>3 DEF Grows, t
<1> QED BY <1>3, <1>4

LEMMA RemindedTail ==
  ASSUME NEW S, NEW q \in Seq(S), q # <<>>, NEW w, NEW v, Told(w, v, q[1]), Reminded(w, q)
  PROVE  Reminded(v, Tail(q))
<1>1. ASSUME NEW i \in 1..Len(Tail(q)), Tail(q)[i].type = "SYNC_REMINDER"
      PROVE  Knows(v, Tail(q), i, Tail(q)[i].rp_next)
  <2>1. i + 1 \in 1..Len(q) /\ Tail(q)[i] = q[i + 1] /\ (i + 1) - 1 = i
    BY TailOf
  <2>2. Knows(w, q, i + 1, q[i + 1].rp_next)
    BY <1>1, <2>1 DEF Reminded
  <2>3. Knows(v, Tail(q), (i + 1) - 1, q[i + 1].rp_next)
    BY <2>1, <2>2, KnowsTail
  <2> QED BY <2>1, <2>3
<1> QED BY <1>1 DEF Reminded

LEMMA ReleasedTail ==
  ASSUME NEW S, NEW q \in Seq(S), q # <<>>, NEW a \in BOOLEAN, NEW b \in BOOLEAN,
         ~ Changing(q[1]) /\ a => b, Released(q, a)
  PROVE  Released(Tail(q), b)
<1> DEFINE t == Tail(q)
<1>1. Len(q) \in Nat /\ Len(t) = Len(q) - 1 /\ 1 \in 1..Len(q)
      /\ \A k \in 1..Len(t) : t[k] = q[k + 1]
  BY TailOf
<1> HIDE DEF t
<1>2. ASSUME NEW i \in 1..Len(t), t[i].type = "SYNC_RELEASE"
      PROVE  b /\ \A k \in 1..Len(t) : k < i => ~ Changing(t[k])
  <2>1. i + 1 \in 1..Len(q) /\ t[i] = q[i + 1] /\ 1 < i + 1
    BY <1>1
  <2>2. a /\ \A k \in 1..Len(q) : k < i + 1 => ~ Changing(q[k])
    BY <1>2, <2>1 DEF Released
  <2>3. b
    BY <1>1, <2>1, <2>2
  <2>4. ASSUME NEW k \in 1..Len(t), k < i PROVE ~ Changing(t[k])
    <3>1. k + 1 \in 1..Len(q) /\ k + 1 < i + 1 /\ t[k] = q[k + 1]
      BY <1>1, <2>4
    <3> QED BY <2>2, <3>1
  <2> QED BY <2>3, <2>4
<1> QED BY <1>2 DEF Released, t

LEMMA UntoldTail ==
  ASSUME NEW S, NEW q \in Seq(S), q # <<>>, NEW n, Untold(q, n)
  PROVE  Untold(Tail(q), n)
<1>1. ASSUME NEW i \in 1..Len(Tail(q)) PROVE ~ Tells(Tail(q)[i], n)
  <2>1. i + 1 \in 1..Len(q) /\ Tail(q)[i] = q[i + 1]
    BY TailOf
  <2> QED BY <2>1 DEF Untold
<1> QED BY <1>1 DEF Untold

\* What a node knows is not changed by what comes later.
LEMMA KnowsBefore ==
  ASSUME NEW p, NEW q, NEW r, Joins(p, q, r), Len(q) \in Nat, NEW i \in 0..Len(q),
         NEW w, NEW rp, Knows(w, q, i, rp)
  PROVE  Knows(w, p, i, rp)
<1>1. PICK j \in 0..i : LastChange(q, i, j) /\ rp = IF j = 0 THEN w.rpseq ELSE q[j].rp_next
  BY DEF Knows
<1>2. \A k \in 1..i : p[k] = q[k]
  BY DEF Joins
<1>3. j # 0 => j \in 1..i
  OBVIOUS
<1>4. LastChange(p, i, j)
  BY <1>1, <1>2, <1>3 DEF LastChange
<1> QED BY <1>1, <1>2, <1>3, <1>4 DEF Knows

\* Packets that do not change the rendez-vous.
LEMMA SameLastChange ==
  ASSUME NEW p, NEW q, NEW r, Joins(p, q, r), Len(q) \in Nat, Len(r) \in Nat,
         \A i \in 1..Len(r) : ~ Changing(r[i]),
         NEW j \in 0..Len(q), LastChange(q, Len(q), j)
  PROVE  LastChange(p, Len(p), j) /\ j \in 0..Len(p) /\ (j # 0 => p[j] = q[j])
<1>1. Len(p) = Len(q) + Len(r) /\ \A k \in 1..Len(q) : p[k] = q[k]
  BY DEF Joins
<1>2. j \in 0..Len(p) /\ (j # 0 => p[j] = q[j])
  BY <1>1
<1>3. j # 0 => Changing(p[j])
  BY <1>2 DEF LastChange
<1>4. ASSUME NEW k \in 1..Len(p), j < k PROVE ~ Changing(p[k])
  <2>1. CASE k <= Len(q)
    <3>1. k \in 1..Len(q)
      BY <1>1, <2>1
    <3> QED BY <1>1, <1>4, <3>1 DEF LastChange
  <2>2. CASE k > Len(q)
    <3>1. k - Len(q) \in 1..Len(r) /\ p[k] = r[k - Len(q)]
      BY <2>2, Behind
    <3> QED BY <3>1
  <2> QED BY <1>1, <2>1, <2>2
<1> QED BY <1>2, <1>3, <1>4 DEF LastChange

\* The packets added do not tell a new rendez-vous: they are heard, or remind
\* of the one that is next.
LEMMA QuietKeeps ==
  ASSUME NEW p, NEW q, NEW r, Joins(p, q, r), Len(q) \in Nat, Len(r) \in Nat,
         \A i \in 1..Len(r) : ~ Changing(r[i]), NEW w, NEW rp, NEW d,
         \A i \in 1..Len(r) : r[i].type = "SYNC_REMINDER" => r[i].rp_next = rp,
         Knows(w, q, Len(q), rp), Distant(w, q, Len(q), d), Grows(w, q, rp), Reminded(w, q)
  PROVE  Knows(w, p, Len(p), rp) /\ Distant(w, p, Len(p), d) /\ Grows(w, p, rp)
         /\ Reminded(w, p)
<1>0. Len(p) = Len(q) + Len(r) /\ \A k \in 1..Len(q) : p[k] = q[k]
  BY DEF Joins
<1>1. PICK j \in 0..Len(q) : /\ LastChange(q, Len(q), j)
                             /\ rp = IF j = 0 THEN w.rpseq ELSE q[j].rp_next
  BY DEF Knows
<1>2. LastChange(p, Len(p), j) /\ j \in 0..Len(p) /\ (j # 0 => p[j] = q[j])
  BY <1>1, SameLastChange
<1>3. Knows(w, p, Len(p), rp)
  BY <1>1, <1>2 DEF Knows
<1>4. PICK h \in 0..Len(q) : /\ LastChange(q, Len(q), h)
                             /\ IF h = 0 THEN w.n_rp = w.l_rp + d ELSE q[h].rp_duration = d
  BY DEF Distant
<1>5. LastChange(p, Len(p), h) /\ h \in 0..Len(p) /\ (h # 0 => p[h] = q[h])
  BY <1>4, SameLastChange
<1>6. Distant(w, p, Len(p), d)
  BY <1>4, <1>5 DEF Distant
<1>7. ASSUME NEW i \in 1..Len(p), Changing(p[i]) PROVE i \in 1..Len(q) /\ p[i] = q[i]
  <2>1. CASE i <= Len(q)
    BY <1>0, <2>1
  <2>2. CASE i > Len(q)
    BY <1>7, <2>2, Behind
  <2> QED BY <1>0, <2>1, <2>2
<1>8. Grows(w, p, rp)
  <2>1. w.rpseq <= rp
    BY DEF Grows
  <2>2. ASSUME NEW i \in 1..Len(p), Changing(p[i])
        PROVE  w.rpseq < p[i].rp_next /\ p[i].rp_next <= rp
               /\ \A k \in 1..Len(p) : k < i /\ Changing(p[k]) => p[k].rp_next < p[i].rp_next
    <3>1. i \in 1..Len(q) /\ p[i] = q[i]
      BY <1>7, <2>2
    <3>2. w.rpseq < q[i].rp_next /\ q[i].rp_next <= rp
          /\ \A k \in 1..Len(q) : k < i /\ Changing(q[k]) => q[k].rp_next < q[i].rp_next
      BY <2>2, <3>1 DEF Grows
    <3>3. ASSUME NEW k \in 1..Len(p), k < i, Changing(p[k]) PROVE p[k].rp_next < p[i].rp_next
      <4>1. k \in 1..Len(q) /\ p[k] = q[k]
        BY <1>7, <3>3
      <4> QED BY <3>1, <3>2, <3>3, <4>1
    <3> QED BY <3>1, <3>2, <3>3
  <2> QED BY <2>1, <2>2 DEF Grows
<1>9. Reminded(w, p)
  <2>1. ASSUME NEW i \in 1..Len(p), p[i].type = "SYNC_REMINDER"
        PROVE  Knows(w, p, i, p[i].rp_next)
    <3>1. CASE i <= Len(q)
      <4>1. i \in 1..Len(q) /\ p[i] = q[i] /\ i \in 0..Len(q)
        BY <1>0, <3>1
      <4>2. Knows(w, q, i, q[i].rp_next)
        BY <2>1, <4>1 DEF Reminded
      <4> QED BY <4>1, <4>2, KnowsBefore
    <3>2. CASE i > Len(q)
      <4>1. i - Len(q) \in 1..Len(r) /\ p[i] = r[i - Len(q)]
        BY <3>2, Behind
      <4>2. p[i].rp_next = rp
        BY <2>1, <4>1
      <4>3. j \in 0..i /\ \A k \in 1..i : k \in 1..Len(p)
        BY <1>0, <3>2
      <4>4. LastChange(p, i, j)
        BY <1>2, <4>3 DEF LastChange
      <4>5. rp = IF j = 0 THEN w.rpseq ELSE p[j].rp_next
        BY <1>1, <1>2
      <4> QED BY <4>2, <4>3, <4>4, <4>5 DEF Knows
    <3> QED BY <1>0, <3>1, <3>2
  <2> QED BY <2>1 DEF Reminded
<1> QED BY <1>3, <1>6, <1>8, <1>9

\* The last of the packets added, and only the last, tells the next rendez-vous.
LEMMA ChangeKeeps ==
  ASSUME NEW p, NEW q \in Seq(McastPkt), NEW r \in Seq(McastPkt), Joins(p, q, r), r # <<>>,
         \A i \in 1..Len(r) : Changing(r[i]) <=> i = Len(r),
         \A i \in 1..Len(r) : r[i].type # "SYNC_REMINDER", NEW w, NEW rp \in Nat, NEW d,
         w.rpseq \in Nat, r[Len(r)].rp_next = rp + 1, r[Len(r)].rp_duration = d,
         Grows(w, q, rp), Reminded(w, q)
  PROVE  Knows(w, p, Len(p), rp + 1) /\ Distant(w, p, Len(p), d) /\ Grows(w, p, rp + 1)
         /\ Reminded(w, p)
<1> DEFINE m == Len(p)
<1>0. m = Len(q) + Len(r) /\ Len(q) \in Nat /\ Len(r) \in Nat \ {0}
      /\ \A k \in 1..Len(q) : p[k] = q[k]
  BY DEF Joins
<1>1. Len(r) \in 1..Len(r)
  BY <1>0
<1>2. m \in Nat \ {0} /\ m \in 1..m /\ m \in 0..m /\ p[m] = r[Len(r)]
  BY <1>0, <1>1 DEF Joins
<1>3. Changing(p[m]) /\ p[m].rp_next = rp + 1 /\ p[m].rp_duration = d
  BY <1>1, <1>2
<1>4. LastChange(p, m, m)
  BY <1>2, <1>3 DEF LastChange
<1>5. Knows(w, p, m, rp + 1) /\ Distant(w, p, m, d)
  BY <1>2, <1>3, <1>4 DEF Knows, Distant
<1>6. ASSUME NEW i \in 1..m, Changing(p[i]) PROVE i = m \/ (i \in 1..Len(q) /\ p[i] = q[i])
  <2>1. CASE i <= Len(q)
    BY <1>0, <2>1
  <2>2. CASE i > Len(q)
    <3>1. i - Len(q) \in 1..Len(r) /\ p[i] = r[i - Len(q)]
      BY <1>0, <2>2, Behind
    <3>2. i - Len(q) = Len(r)
      BY <1>6, <3>1
    <3>3. i = Len(q) + Len(r)
      BY <1>0, <3>2
    <3>4. i = m
      BY <1>0, <3>3
    <3> QED BY <3>4
  <2> QED BY <1>0, <2>1, <2>2
<1>7. \A k \in 1..Len(q) : q[k].rp_next \in Nat
  BY PktFields
<1>8. Grows(w, p, rp + 1)
  <2>1. w.rpseq <= rp
    BY DEF Grows
  <2>2. ASSUME NEW i \in 1..m, Changing(p[i])
        PROVE  w.rpseq < p[i].rp_next /\ p[i].rp_next <= rp + 1
               /\ \A k \in 1..m : k < i /\ Changing(p[k]) => p[k].rp_next < p[i].rp_next
    <3>1. CASE i = m
      <4>1. ASSUME NEW k \in 1..m, k < i, Changing(p[k]) PROVE p[k].rp_next < rp + 1
        <5>1. k \in 1..Len(q) /\ p[k] = q[k]
          BY <1>6, <3>1, <4>1
        <5>2. q[k].rp_next <= rp
          BY <4>1, <5>1 DEF Grows
        <5> QED BY <1>7, <5>1, <5>2
      <4>2. p[i].rp_next = rp + 1
        BY <1>3, <3>1
      <4>3. w.rpseq < rp + 1
        BY <2>1
      <4>4. p[i].rp_next <= rp + 1
        BY <4>2
      <4> QED BY <4>1, <4>2, <4>3, <4>4
    <3>2. CASE i # m
      <4>1. i \in 1..Len(q) /\ p[i] = q[i] /\ i < m
        BY <1>2, <1>6, <2>2, <3>2
      <4>2. w.rpseq < q[i].rp_next /\ q[i].rp_next <= rp
            /\ \A k \in 1..Len(q) : k < i /\ Changing(q[k]) => q[k].rp_next < q[i].rp_next
        BY <2>2, <4>1 DEF Grows
      <4>3. ASSUME NEW k \in 1..m, k < i, Changing(p[k]) PROVE p[k].rp_next < p[i].rp_next
        <5>1. k \in 1..Len(q) /\ p[k] = q[k]
          BY <1>6, <4>1, <4>3
        <5> QED BY <4>1, <4>2, <4>3, <5>1
      <4>4. p[i].rp_next <= rp + 1
        BY <1>7, <4>1, <4>2
      <4> QED BY <4>1, <4>2, <4>3, <4>4
    <3> QED BY <3>1, <3>2
  <2>3. w.rpseq <= rp + 1
    BY <2>1
  <2> QED BY <2>2, <2>3 DEF Grows
<1>9. Reminded(w, p)
  <2>1. ASSUME NEW i \in 1..m, p[i].type = "SYNC_REMINDER"
        PROVE  Knows(w, p, i, p[i].rp_next)
    <3>1. CASE i <= Len(q)
      <4>1. i \in 1..Len(q) /\ p[i] = q[i] /\ i \in 0..Len(q)
        BY <1>0, <3>1
      <4>2. Knows(w, q, i, q[i].rp_next)
        BY <2>1, <4>1 DEF Reminded
      <4> QED BY <1>0, <4>1, <4>2, KnowsBefore
    <3>2. CASE i > Len(q)
      <4>1. i - Len(q) \in 1..Len(r) /\ p[i] = r[i - Len(q)]
        BY <1>0, <3>2, Behind
      <4>2. r[i - Len(q)].type # "SYNC_REMINDER"
        BY <4>1
      <4> QED BY <2>1, <4>1, <4>2
    <3> QED BY <1>0, <3>1, <3>2
  <2> QED BY <2>1 DEF Reminded
<1> QED BY <1>5, <1>8, <1>9

-----------------------------------------------------------------------------
(* A node parses the first packet of its queue. *)

\* A node that goes on: the packet is not an error, and it still goes on.
LEMMA GoodParsed ==
  ASSUME NEW s \in PartsT, Dated(s), ~ s.failed, NEW n \in Nodes, NEW q \in Seq(McastPkt),
         q # <<>>, q[1].type \in {"RX", "SR_RX"} => q[1].src \in Nodes, InSeq(s.w, q),
         NEW a \in BOOLEAN, a => s.w.state = "pending", NEW sq, NEW rp \in Nat, NEW d,
         GoodOf(s.w, q, n, a, sq, rp, d), ~ s.m.kill, ~ s.b.kill
  PROVE  LET t == Parsed(s, n, Head(q))
         IN  /\ t \in PartsT /\ Dated(t) /\ ~ t.failed /\ ~ t.m.kill /\ ~ t.b.kill
             /\ InSeq(t.w, Tail(q))
             /\ \A b \in BOOLEAN : (~ Changing(q[1]) /\ a => b) =>
                  GoodOf(t.w, Tail(q), n, b, sq, rp, d)
             /\ s.w.rpseq <= t.w.rpseq
             /\ Changing(q[1]) => t.w.state = "idle" /\ s.w.rpseq < t.w.rpseq
             /\ ~ Changing(q[1]) /\ s.w.state # "txing" => t.w.state = s.w.state
<1> DEFINE t == Parsed(s, n, Head(q))
           m == Tail(q)
<1>1. /\ Head(q) = q[1] /\ q[1] \in McastPkt /\ 1 \in 1..Len(q) /\ Len(q) \in Nat \ {0}
      /\ m \in Seq(McastPkt) /\ Len(m) = Len(q) - 1
  BY TailOf
<1>2. ~ Tells(q[1], n) /\ q[1].type # "KILLSIM" /\ q[1].type \in PktType
  BY <1>1, PktFields DEF GoodOf, Untold, Tells
<1>3. s.w \in ClientT /\ s.w.seq \in Nat /\ s.w.rpseq \in Nat
  BY DEF PartsT, ClientT
<1>4. q[1].seq = s.w.seq
  BY <1>1, <1>3 DEF InSeq
<1>5. PICK r \in PartsT :
        /\ r.m = s.m /\ r.b = s.b /\ ~ r.failed
        /\ r.w.rpseq = s.w.rpseq /\ r.w.n_rp = s.w.n_rp /\ r.w.l_rp = s.w.l_rp
        /\ r.w.state = s.w.state
        /\ q[1].type # "KILLSIM" => r.w.seq = s.w.seq + 1
        /\ Effect(r, Parsed(s, n, q[1]), n, q[1])
  BY <1>1, <1>4, ParsedEffect
<1>6. Effect(r, t, n, q[1]) /\ r.w.seq = s.w.seq + 1
  BY <1>1, <1>2, <1>5
<1> HIDE DEF t, m
<1>7. t \in PartsT /\ Dated(t) /\ t.w.seq = s.w.seq + 1
  BY <1>6 DEF Effect
<1>8. /\ ~ t.failed /\ ~ t.m.kill /\ ~ t.b.kill
      /\ Changing(q[1]) => t.w.rpseq = q[1].rp_next /\ t.w.state = "idle"
                           /\ t.w.n_rp = t.w.l_rp + q[1].rp_duration
      /\ ~ Changing(q[1]) => /\ t.w.rpseq = s.w.rpseq /\ t.w.n_rp = s.w.n_rp
                             /\ t.w.l_rp = s.w.l_rp
                             /\ s.w.state # "txing" => t.w.state = s.w.state
  <2>1. CASE Changing(q[1])
    <3>1. q[1].type = "SYNC_RELEASE" => r.w.state = "pending"
      BY <1>1, <1>5 DEF GoodOf, Released
    <3>2. NewRp(r, t, q[1]) /\ t.m.kill \in {r.m.kill, r.b.kill} /\ t.b.kill \in {r.m.kill, r.b.kill}
      BY <1>6, <2>1, <3>1 DEF Effect
    <3> QED BY <1>5, <2>1, <3>2 DEF NewRp
  <2>2. CASE q[1].type = "SYNC_REMINDER"
    <3>1. Knows(s.w, q, 1, q[1].rp_next)
      BY <1>1, <2>2 DEF GoodOf, Reminded
    <3>2. PICK j \in 0..1 : /\ LastChange(q, 1, j)
                            /\ q[1].rp_next = IF j = 0 THEN s.w.rpseq ELSE q[j].rp_next
      BY <3>1 DEF Knows
    <3>3. ~ Changing(q[1])
      BY <2>2 DEF Changing
    <3>4. j = 0
      BY <3>2, <3>3 DEF LastChange
    <3>5. q[1].rp_next = r.w.rpseq
      BY <1>5, <3>2, <3>4
    <3>6. SameRp(r, t) /\ ~ t.failed /\ t.m = r.m /\ t.b = r.b
          /\ (r.w.state # "txing" => t.w.state = r.w.state)
      BY <1>6, <2>2, <3>5 DEF Effect
    <3> QED BY <1>5, <3>3, <3>6 DEF SameRp
  <2>3. CASE q[1].type = "RX" \/ (q[1].type = "KILL" /\ q[1].node # n)
    <3>1. SameRp(r, t) /\ t.w.state = r.w.state /\ ~ t.failed
          /\ t.m.kill = r.m.kill /\ t.b.kill = r.b.kill
      BY <1>6, <2>3 DEF Effect
    <3>2. ~ Changing(q[1])
      BY <2>3 DEF Changing
    <3> QED BY <1>5, <3>1, <3>2 DEF SameRp
  <2> QED BY <1>2, <2>1, <2>2, <2>3 DEF PktType, Changing, Tells
<1>9. Told(s.w, t.w, q[1])
  BY <1>8 DEF Told
<1>10. InSeq(t.w, m)
  BY <1>3, <1>7, InSeqTail DEF m
<1>11. Knows(t.w, m, Len(m), rp)
  <2>1. Knows(t.w, Tail(q), Len(q) - 1, rp)
    <3>1. Len(q) \in 1..Len(q)
      BY <1>1
    <3> QED BY <1>9, <3>1, KnowsTail DEF GoodOf
  <2> QED BY <1>1, <2>1 DEF m
<1>12. Distant(t.w, m, Len(m), d)
  <2>1. Distant(t.w, Tail(q), Len(q) - 1, d)
    <3>1. Len(q) \in 1..Len(q)
      BY <1>1
    <3> QED BY <1>8, <3>1, DistantTail DEF GoodOf
  <2> QED BY <1>1, <2>1 DEF m
<1>13. Grows(t.w, m, rp) /\ s.w.rpseq <= t.w.rpseq /\ (Changing(q[1]) => s.w.rpseq < t.w.rpseq)
  BY <1>3, <1>9, GrowsTail DEF GoodOf, m
<1>14. Reminded(t.w, m)
  BY <1>9, RemindedTail DEF GoodOf, m
<1>15. Untold(m, n)
  BY UntoldTail DEF GoodOf, m
<1>16. ASSUME NEW b \in BOOLEAN, ~ Changing(q[1]) /\ a => b PROVE Released(m, b)
  BY <1>16, ReleasedTail DEF GoodOf, m
<1>17. t.w.seq + Len(m) = sq
  <2>1. s.w.seq + Len(q) = sq
    BY DEF GoodOf
  <2> QED BY <1>1, <1>3, <1>7, <2>1
<1>18. \A b \in BOOLEAN : (~ Changing(q[1]) /\ a => b) => GoodOf(t.w, m, n, b, sq, rp, d)
  BY <1>11, <1>12, <1>13, <1>14, <1>15, <1>16, <1>17 DEF GoodOf
<1> QED BY <1>7, <1>8, <1>10, <1>13, <1>18 DEF t, m

LEMMA KeepsOnTail ==
  ASSUME NEW S, NEW q \in Seq(S), q # <<>>, KeepsOn(q)
  PROVE  /\ q[1].type # "BACKTRACK"
         /\ q[1].type \notin {"SYNC_RELEASE", "SR_RX"} => KeepsOn(Tail(q))
<1> DEFINE t == Tail(q)
<1>1. Len(q) \in Nat /\ Len(t) = Len(q) - 1 /\ 1 \in 1..Len(q)
      /\ \A k \in 1..Len(t) : t[k] = q[k + 1]
  BY TailOf
<1> HIDE DEF t
<1>2. CASE ~ up /\ \A j \in 1..Len(q) : q[j].type # "BACKTRACK"
  <2>1. ASSUME NEW j \in 1..Len(t) PROVE t[j].type # "BACKTRACK"
    <3>1. j + 1 \in 1..Len(q) /\ t[j] = q[j + 1]
      BY <1>1
    <3> QED BY <1>2, <3>1
  <2> QED BY <1>1, <1>2, <2>1 DEF KeepsOn, t
<1>3. ASSUME NEW k \in 1..Len(q), q[k].type \in {"SYNC_RELEASE", "SR_RX"},
             \A j \in 1..Len(q) : j < k => q[j].type # "BACKTRACK"
      PROVE  /\ q[1].type # "BACKTRACK"
             /\ q[1].type \notin {"SYNC_RELEASE", "SR_RX"} => KeepsOn(t)
  <2>1. CASE k = 1
    BY <1>3, <2>1
  <2>2. CASE k # 1
    <3>1. k - 1 \in 1..Len(t) /\ t[k - 1] = q[k] /\ 1 < k
      <4>1. k - 1 \in 1..Len(t) /\ (k - 1) + 1 = k /\ 1 < k
        BY <1>1, <2>2
      <4> QED BY <1>1, <4>1
    <3>2. ASSUME NEW j \in 1..Len(t), j < k - 1 PROVE t[j].type # "BACKTRACK"
      <4>1. j + 1 \in 1..Len(q) /\ t[j] = q[j + 1] /\ j + 1 < k
        BY <1>1, <3>2
      <4> QED BY <1>3, <4>1
    <3>3. KeepsOn(t)
      BY <1>3, <3>1, <3>2 DEF KeepsOn
    <3> QED BY <1>1, <1>3, <3>1, <3>3
  <2> QED BY <2>1, <2>2
<1> QED BY <1>2, <1>3 DEF KeepsOn, t

LEMMA DoomedTail ==
  ASSUME NEW S, NEW q \in Seq(S), q # <<>>, NEW n, Doomed(q, n), ~ Tells(q[1], n)
  PROVE  ~ Changing(q[1]) /\ Doomed(Tail(q), n)
<1> DEFINE t == Tail(q)
<1>1. Len(q) \in Nat /\ Len(t) = Len(q) - 1 /\ 1 \in 1..Len(q)
      /\ \A k \in 1..Len(t) : t[k] = q[k + 1]
  BY TailOf
<1> HIDE DEF t
<1>2. PICK i \in 1..Len(q) : Tells(q[i], n) /\ \A k \in 1..Len(q) : k < i => ~ Changing(q[k])
  BY DEF Doomed
<1>3. i # 1
  BY <1>2
<1>4. i - 1 \in 1..Len(t) /\ (i - 1) + 1 = i /\ 1 < i
  BY <1>1, <1>3
<1>5. t[i - 1] = q[i]
  BY <1>1, <1>4
<1>6. ASSUME NEW k \in 1..Len(t), k < i - 1 PROVE ~ Changing(t[k])
  <2>1. k + 1 \in 1..Len(q) /\ t[k] = q[k + 1] /\ k + 1 < i
    BY <1>1, <1>6
  <2> QED BY <1>2, <2>1
<1> QED BY <1>1, <1>2, <1>4, <1>5, <1>6 DEF Doomed, t

\* A node that was told to leave, or has the packet that tells it: it does not
\* go back, and when it leaves a wait it is told.
LEMMA LeavingParsed ==
  ASSUME NEW s \in PartsT, Dated(s), ~ s.failed, NEW n \in Nodes, NEW q \in Seq(McastPkt),
         q # <<>>, q[1].type \in {"RX", "SR_RX"} => q[1].src \in Nodes,
         NEW sq, NumbersIn(s.w, q, sq), KeepsOn(q),
         \/ s.m.kill
         \/ s.w.state = "pending" /\ Doomed(q, n)
  PROVE  LET t == Parsed(s, n, Head(q))
         IN  /\ t \in PartsT /\ Dated(t) /\ NumbersIn(t.w, Tail(q), sq)
             /\ \/ t.m.kill /\ (t.w.state = "idle" \/ t.failed \/ KeepsOn(Tail(q)))
                \/ /\ ~ s.m.kill /\ ~ t.failed /\ t.w.state = "pending"
                   /\ KeepsOn(Tail(q)) /\ Doomed(Tail(q), n)
             /\ ~ s.m.kill /\ t.m.kill =>
                  KeepsOn(Tail(q)) /\ (t.w.state = "killed" \/ t.failed)
<1> DEFINE t == Parsed(s, n, Head(q))
           m == Tail(q)
<1>1. /\ Head(q) = q[1] /\ q[1] \in McastPkt /\ 1 \in 1..Len(q) /\ Len(q) \in Nat \ {0}
      /\ m \in Seq(McastPkt) /\ Len(m) = Len(q) - 1 /\ \A i \in 1..Len(m) : m[i] = q[i + 1]
  BY TailOf
<1>2. q[1].type \in PktType /\ s.m.kill \in BOOLEAN /\ s.w.seq \in Nat
  BY <1>1, PktFields DEF PartsT, MachineT, ClientT
<1>4. q[1].seq = s.w.seq
  <2>1. InSeq(s.w, q)
    BY DEF NumbersIn
  <2> QED BY <1>1, <1>2, <2>1 DEF InSeq
<1>5. PICK r \in PartsT :
        /\ r.m = s.m /\ r.b = s.b /\ ~ r.failed
        /\ r.w.rpseq = s.w.rpseq /\ r.w.n_rp = s.w.n_rp /\ r.w.l_rp = s.w.l_rp
        /\ r.w.state = s.w.state
        /\ q[1].type # "KILLSIM" => r.w.seq = s.w.seq + 1
        /\ Effect(r, Parsed(s, n, q[1]), n, q[1])
  BY <1>1, <1>4, ParsedEffect
<1>6. Effect(r, t, n, q[1])
  BY <1>1, <1>5
<1>3. q[1].type = "KILLSIM" => ~ up /\ Len(q) = 1
  BY <1>1 DEF NumbersIn
<1> HIDE DEF t, m
<1>7. t \in PartsT /\ Dated(t) /\ t.w.seq = r.w.seq
  BY <1>6 DEF Effect
<1>8. NumbersIn(t.w, m, sq)
  <2>1. InSeq(t.w, m)
    <3>1. CASE q[1].type = "KILLSIM"
      <4>1. Len(m) = 0
        BY <1>1, <1>3, <3>1
      <4> QED BY <4>1 DEF InSeq
    <3>2. CASE q[1].type # "KILLSIM"
      BY <1>2, <1>5, <1>7, <3>2, InSeqTail DEF NumbersIn, m
    <3> QED BY <3>1, <3>2
  <2>2. ASSUME up PROVE t.w.seq + Len(m) = sq
    <3>1. s.w.seq + Len(q) = sq /\ t.w.seq = s.w.seq + 1
      BY <1>3, <1>5, <1>7, <2>2 DEF NumbersIn
    <3> QED BY <1>1, <1>2, <3>1
  <2>3. ASSUME NEW i \in 1..Len(m), m[i].type = "KILLSIM" PROVE ~ up /\ i = Len(m)
    <3>1. i + 1 \in 1..Len(q) /\ m[i] = q[i + 1]
      BY <1>1
    <3>2. ~ up /\ i + 1 = Len(q)
      BY <2>3, <3>1 DEF NumbersIn
    <3> QED BY <1>1, <3>2
  <2> QED BY <2>1, <2>2, <2>3 DEF NumbersIn
<1>9. q[1].type # "BACKTRACK" /\ (q[1].type \notin {"SYNC_RELEASE", "SR_RX"} => KeepsOn(m))
  BY KeepsOnTail DEF m
<1>10. CASE Tells(q[1], n)
  <2>1. t.m.kill /\ t.w.state = "killed"
    BY <1>6, <1>10 DEF Effect
  <2>2. KeepsOn(m)
    BY <1>9, <1>10 DEF Tells
  <2> QED BY <1>7, <1>8, <2>1, <2>2 DEF t, m
<1>11. CASE ~ Tells(q[1], n) /\ s.m.kill
  <2>1. t.m.kill /\ (t.w.state = "idle" \/ t.failed \/ KeepsOn(m))
    <3>1. CASE q[1].type \in {"SYNC_RELEASE", "SR_RX"}
      <4>1. CASE q[1].type = "SYNC_RELEASE" /\ r.w.state # "pending"
        BY <1>6, <4>1 DEF Effect
      <4>2. CASE ~ (q[1].type = "SYNC_RELEASE" /\ r.w.state # "pending")
        <5>1. NewRp(r, t, q[1]) /\ t.m.kill = r.m.kill
          BY <1>6, <3>1, <4>2 DEF Effect, Changing
        <5> QED BY <1>5, <1>11, <5>1 DEF NewRp
      <4> QED BY <4>1, <4>2
    <3>2. CASE q[1].type = "SYNC_REMINDER"
      <4>1. t.m = r.m \/ t.m.kill
        BY <1>6, <3>2 DEF Effect
      <4> QED BY <1>5, <1>9, <1>11, <3>2, <4>1
    <3>3. CASE q[1].type = "RX" \/ (q[1].type = "KILL" /\ q[1].node # n)
      <4>1. t.m.kill = r.m.kill
        BY <1>6, <3>3 DEF Effect
      <4> QED BY <1>5, <1>9, <1>11, <3>3, <4>1
    <3> QED BY <1>2, <1>9, <1>11, <3>1, <3>2, <3>3 DEF PktType, Tells
  <2> QED BY <1>7, <1>8, <1>11, <2>1 DEF t, m
<1>12. CASE ~ Tells(q[1], n) /\ ~ s.m.kill
  <2>1. s.w.state = "pending" /\ ~ Changing(q[1]) /\ Doomed(m, n)
    BY <1>12, DoomedTail DEF m
  <2>2. KeepsOn(m)
    BY <1>9, <2>1 DEF Changing
  <2>3. \/ t.m.kill /\ t.failed
        \/ ~ t.failed /\ t.w.state = "pending" /\ t.m.kill = s.m.kill
    <3>1. CASE q[1].type = "SYNC_REMINDER"
      BY <1>5, <1>6, <2>1, <3>1 DEF Effect
    <3>2. CASE q[1].type = "RX" \/ (q[1].type = "KILL" /\ q[1].node # n)
      BY <1>5, <1>6, <2>1, <3>2 DEF Effect
    <3> QED BY <1>2, <1>12, <2>1, <3>1, <3>2 DEF PktType, Tells, Changing
  <2> QED BY <1>7, <1>8, <1>12, <2>1, <2>2, <2>3 DEF t, m
<1> QED BY <1>10, <1>11, <1>12

-----------------------------------------------------------------------------
(* A step of a node: what it does to the node is enough for the others. *)

Others(n) ==
  \A m \in Nodes \ {n} :
    /\ pc'[m] = pc[m] /\ wsens'[m] = wsens[m] /\ machine'[m] = machine[m]
    /\ backup'[m] = backup[m] /\ mcast'[m] = mcast[m] /\ answer'[m] = answer[m]
    /\ m \in joined' <=> m \in joined

Sent(n) ==
  \/ toServer' = toServer
  \/ \E p \in ServerPkt :
       /\ toServer' = Append(toServer, p) /\ PacketOf(p)' /\ p.node = n
       /\ p.type = "CONNECT_REQ" => pc[n] = "off"

Stepped(n) ==
  /\ TypeInv' /\ UNCHANGED srvVars /\ Others(n) /\ Sent(n)
  /\ pc[n] # "closed" /\ (pc[n] \notin Early => pc'[n] \notin Early)
  /\ pc[n] = "subscribe" => answer[n] # <<>>
  /\ ConnectionOf(n)' /\ (n \in joined' => NumbersOf(n)' /\ MemberOf(n)')
  /\ pc[n] \notin Early /\ n \in joined' =>
       /\ n \in joined
       /\ n \notin killed => /\ wsens[n].rpseq <= wsens'[n].rpseq
                             /\ Waiting(n) /\ wsens'[n].rpseq = wsens[n].rpseq => Waiting(n)'

LEMMA OthersKeep ==
  ASSUME NEW n \in Nodes, Others(n), UNCHANGED srvVars, NEW m \in Nodes \ {n}
  PROVE  /\ NumbersOf(m) => NumbersOf(m)'
         /\ MemberOf(m) => MemberOf(m)'
         /\ ConnectionOf(m) => ConnectionOf(m)'
         /\ AckedOf(m) => AckedOf(m)'
         /\ Waiting(m) <=> Waiting(m)'
         /\ pc'[m] = pc[m] /\ (m \in joined' <=> m \in joined)
<1>1. /\ pc'[m] = pc[m] /\ wsens'[m] = wsens[m] /\ machine'[m] = machine[m]
      /\ backup'[m] = backup[m] /\ mcast'[m] = mcast[m] /\ answer'[m] = answer[m]
      /\ m \in joined' <=> m \in joined
  BY DEF Others
<1>2. /\ active' = active /\ acked' = acked /\ duration' = duration /\ rpseq' = rpseq
      /\ seq' = seq /\ killed' = killed /\ up' = up
  BY DEF srvVars
<1>3. NumbersOf(m) => NumbersOf(m)'
  BY <1>1, <1>2 DEF NumbersOf, NumbersIn, InSeq
<1>4. Waiting(m) <=> Waiting(m)'
  BY <1>1 DEF Waiting
<1>5. Leaving(m) => Leaving(m)'
  <2>1. KeepsOn(mcast[m]) => KeepsOn(mcast[m])'
    BY <1>1, <1>2 DEF KeepsOn
  <2>2. Doomed(mcast[m], m) => Doomed(mcast[m], m)'
    BY <1>1 DEF Doomed, Tells, Changing
  <2> QED BY <1>1, <1>4, <2>1, <2>2 DEF Leaving
<1>6. Good(m) => Good(m)'
  BY <1>1, <1>2, <1>4 DEF Good, GoodOf, Knows, Distant, Grows, Reminded, Released, Untold, Tells,
       Changing, LastChange
<1>7. MemberOf(m) => MemberOf(m)'
  BY <1>2, <1>5, <1>6 DEF MemberOf
<1>8. ConnectionOf(m) => ConnectionOf(m)'
  BY <1>1, <1>2 DEF ConnectionOf
<1>9. AckedOf(m) => AckedOf(m)'
  BY <1>1, <1>2, <1>4 DEF AckedOf
<1> QED BY <1>1, <1>3, <1>4, <1>7, <1>8, <1>9

\* A packet of any node that is on its way.
LEMMA PacketKept ==
  ASSUME NEW n \in Nodes, IInv, Stepped(n), NEW p \in ServerPkt, PacketOf(p)
  PROVE  PacketOf(p)' /\ (p.type = "CONNECT_REQ" /\ p.node = n => pc[n] # "off")
<1>0. p.node \in Nodes
  BY DEF ServerPkt
<1>1. /\ active' = active /\ acked' = acked /\ duration' = duration /\ rpseq' = rpseq
      /\ seq' = seq /\ killed' = killed /\ up' = up
  BY DEF Stepped, srvVars
<1>2. p.type = "CONNECT_REQ" /\ p.node = n => FALSE
  BY DEF PacketOf, Stepped
<1>3. p.type = "CONNECT_REQ" => pc'[p.node] = "subscribe" /\ answer'[p.node] = <<>>
                                /\ p.node \notin active'
  BY <1>0, <1>1, <1>2 DEF PacketOf, Stepped, Others
<1>4. p.type = "DISCONNECT" => pc'[p.node] = "closed"
  BY <1>0 DEF PacketOf, Stepped, Others
<1>5. p.type = "BYTE_TX" => \A m \in Nodes : pc'[m] \notin Early
  BY DEF PacketOf, Stepped, Others
<1>6. ASSUME p.type = "SYNC_ACK"
      PROVE  /\ pc'[p.node] \notin Early
             /\ p.node \in joined' \ killed' =>
                  p.rp_id <= wsens'[p.node].rpseq /\ (p.rp_id = rpseq' => Waiting(p.node)')
  <2>1. CASE p.node = n
    <3>1. pc[n] \notin Early /\ pc'[n] \notin Early
      BY <1>6, <2>1 DEF PacketOf, Stepped
    <3>2. ASSUME n \in joined' \ killed'
          PROVE  p.rp_id <= wsens'[n].rpseq /\ (p.rp_id = rpseq' => Waiting(n)')
      <4>1. n \in joined \ killed /\ wsens[n].rpseq <= wsens'[n].rpseq
            /\ (Waiting(n) /\ wsens'[n].rpseq = wsens[n].rpseq => Waiting(n)')
        BY <1>1, <3>1, <3>2 DEF Stepped
      <4>2. p.rp_id <= wsens[n].rpseq /\ (p.rp_id = rpseq => Waiting(n))
        BY <1>6, <2>1, <4>1 DEF PacketOf
      <4>3. wsens[n].rpseq \in Nat /\ wsens'[n].rpseq \in Nat /\ p.rp_id \in Nat
        <5>1. p.rp_id \in Nat
          BY <1>6 DEF ServerPkt
        <5>2. wsens[n] \in ClientT /\ wsens'[n] \in ClientT
          BY DEF IInv, Stepped, TypeInv, TypeOK, CltTypeOK, ClientT
        <5> QED BY <5>1, <5>2 DEF ClientT
      <4>4. ASSUME p.rp_id = rpseq PROVE wsens'[n].rpseq <= rpseq
        <5>1. Good(n)'
          BY <1>1, <3>2 DEF Stepped, MemberOf
        <5>2. Grows(wsens[n], mcast[n], rpseq)'
          BY <5>1 DEF Good, GoodOf
        <5> QED BY <1>1, <5>2 DEF Grows
      <4> QED BY <1>1, <4>1, <4>2, <4>3, <4>4
    <3> QED BY <2>1, <3>1, <3>2
  <2>2. CASE p.node # n
    BY <1>0, <1>1, <1>6, <2>2, OthersKeep DEF PacketOf, Stepped, Others
  <2> QED BY <2>1, <2>2
<1> QED BY <1>2, <1>3, <1>4, <1>5, <1>6 DEF PacketOf

LEMMA AppendOf ==
  ASSUME NEW S, NEW q \in Seq(S), NEW p \in S
  PROVE  /\ Append(q, p) \in Seq(S) /\ Len(Append(q, p)) = Len(q) + 1 /\ Len(q) \in Nat
         /\ \A i \in 1..Len(q) : Append(q, p)[i] = q[i]
         /\ Append(q, p)[Len(q) + 1] = p
  OBVIOUS

LEMMA SteppedOnTheWay ==
  ASSUME NEW n \in Nodes, IInv, Stepped(n)
  PROVE  OnTheWay'
<1>0. toServer \in Seq(ServerPkt) /\ \A i \in 1..Len(toServer) : toServer[i] \in ServerPkt
  BY DEF IInv, TypeInv, NetType
<1>1. ASSUME NEW i \in 1..Len(toServer), NEW p \in ServerPkt, p = toServer[i]
      PROVE  PacketOf(p)' /\ (p.type = "CONNECT_REQ" /\ p.node = n => pc[n] # "off")
  <2>1. PacketOf(p)
    BY <1>1 DEF IInv, OnTheWay
  <2> QED BY <2>1, PacketKept
<1>2. CASE toServer' = toServer
  <2>1. ASSUME NEW i \in 1..Len(toServer') PROVE PacketOf(toServer[i])'
    <3>1. PICK p \in ServerPkt : p = toServer[i]
      BY <1>0, <1>2, <2>1
    <3>2. PacketOf(p)'
      BY <1>1, <1>2, <2>1, <3>1
    <3>3. toServer'[i] = p
      BY <1>2, <3>1
    <3> QED BY <3>2, <3>3
  <2> QED BY <1>2, <2>1 DEF IInv, OnTheWay
<1>3. ASSUME NEW p \in ServerPkt, toServer' = Append(toServer, p), PacketOf(p)', p.node = n,
             p.type = "CONNECT_REQ" => pc[n] = "off"
      PROVE  OnTheWay'
  <2> DEFINE l == Len(toServer)
  <2>1. /\ Len(toServer') = l + 1 /\ l \in Nat /\ toServer'[l + 1] = p
        /\ \A i \in 1..l : toServer'[i] = toServer[i]
    BY <1>0, <1>3, AppendOf
  <2> HIDE DEF l
  <2>2. ASSUME NEW i \in 1..Len(toServer') PROVE PacketOf(toServer[i])'
    <3>1. CASE i = l + 1
      <4>1. toServer'[i] = p
        BY <2>1, <3>1
      <4> QED BY <1>3, <4>1
    <3>2. CASE i # l + 1
      <4>1. i \in 1..l /\ toServer'[i] = toServer[i]
        BY <2>1, <2>2, <3>2
      <4>2. PICK o \in ServerPkt : o = toServer[i]
        BY <1>0, <4>1 DEF l
      <4>3. PacketOf(o)'
        BY <1>1, <4>1, <4>2 DEF l
      <4>4. toServer'[i] = o
        BY <4>1, <4>2
      <4> QED BY <4>3, <4>4
    <3> QED BY <3>1, <3>2
  <2>3. ASSUME NEW i \in 1..Len(toServer'), NEW j \in 1..Len(toServer'),
               toServer'[i].type = "CONNECT_REQ", toServer'[j].type = "CONNECT_REQ",
               toServer'[i].node = toServer'[j].node
        PROVE  i = j
    <3>1. ASSUME NEW k \in 1..l, toServer'[k].type = "CONNECT_REQ", toServer'[k].node = n
          PROVE  pc[n] # "off"
      <4>1. PICK o \in ServerPkt : o = toServer[k]
        BY <1>0 DEF l
      <4>2. toServer'[k] = o
        BY <2>1, <4>1
      <4> QED BY <1>1, <3>1, <4>1, <4>2 DEF l
    <3>2. CASE i \in 1..l /\ j \in 1..l
      <4>1. toServer[i].type = "CONNECT_REQ" /\ toServer[j].type = "CONNECT_REQ"
            /\ toServer[i].node = toServer[j].node
        BY <2>1, <2>3, <3>2
      <4> QED BY <3>2, <4>1 DEF IInv, OnTheWay, l
    <3>3. CASE i \in 1..l /\ j = l + 1
      <4>1. p.type = "CONNECT_REQ" /\ toServer'[i].node = n
        BY <1>3, <2>1, <2>3, <3>3
      <4> QED BY <1>3, <2>3, <3>1, <3>3, <4>1
    <3>4. CASE i = l + 1 /\ j \in 1..l
      <4>1. p.type = "CONNECT_REQ" /\ toServer'[j].node = n
        BY <1>3, <2>1, <2>3, <3>4
      <4> QED BY <1>3, <2>3, <3>1, <3>4, <4>1
    <3> QED BY <2>1, <3>2, <3>3, <3>4
  <2> QED BY <2>2, <2>3 DEF OnTheWay
<1> QED BY <1>2, <1>3 DEF Stepped, Sent

\* What a step of a node has to keep for itself is all that has to be kept.
LEMMA SteppedKeeps ==
  ASSUME NEW n \in Nodes, IInv, Stepped(n)
  PROVE  IInv'
<1>0. Others(n) /\ UNCHANGED srvVars /\ joined' \subseteq Nodes
  BY DEF Stepped, TypeInv, TypeOK, CltTypeOK
<1>1. /\ active' = active /\ acked' = acked /\ rpseq' = rpseq /\ killed' = killed /\ up' = up
  BY <1>0 DEF srvVars
<1>2. ASSUME NEW m \in joined' PROVE NumbersOf(m)' /\ MemberOf(m)'
  <2>1. CASE m = n
    BY <1>2, <2>1 DEF Stepped
  <2>2. CASE m # n
    <3>1. m \in Nodes \ {n}
      BY <1>0, <2>2
    <3>2. m \in joined /\ NumbersOf(m) /\ MemberOf(m)
      BY <1>0, <1>2, <3>1, OthersKeep DEF IInv, Members
    <3> QED BY <1>0, <3>1, <3>2, OthersKeep
  <2> QED BY <2>1, <2>2
<1>3. Members'
  BY <1>2 DEF Members
<1>4. ASSUME NEW m \in Nodes PROVE ConnectionOf(m)'
  <2>1. CASE m = n
    BY <2>1 DEF Stepped
  <2>2. CASE m # n
    BY <1>0, <2>2, OthersKeep DEF IInv, Connections
  <2> QED BY <2>1, <2>2
<1>5. Connections'
  BY <1>1, <1>4 DEF IInv, Connections
<1>6. OnTheWay'
  BY SteppedOnTheWay
<1>7. ASSUME NEW m \in acked' PROVE AckedOf(m)'
  <2>1. m \in acked /\ m \in Nodes /\ AckedOf(m)
    BY <1>1 DEF IInv, Acked, TypeInv, TypeOK, SrvTypeOK
  <2>2. CASE m = n
    <3>1. pc[n] \notin Early
      BY <2>1, <2>2 DEF IInv, Connections, ConnectionOf
    <3>2. ASSUME n \in joined' \ killed' PROVE Waiting(n)' /\ wsens'[n].rpseq = rpseq'
      <4>1. n \in joined \ killed /\ wsens[n].rpseq <= wsens'[n].rpseq
            /\ (Waiting(n) /\ wsens'[n].rpseq = wsens[n].rpseq => Waiting(n)')
        BY <1>1, <3>1, <3>2 DEF Stepped
      <4>2. Waiting(n) /\ wsens[n].rpseq = rpseq
        BY <2>1, <2>2, <4>1 DEF AckedOf
      <4>3. wsens'[n].rpseq <= rpseq
        <5>1. Good(n)'
          BY <1>1, <3>2 DEF Stepped, MemberOf
        <5>2. Grows(wsens[n], mcast[n], rpseq)'
          BY <5>1 DEF Good, GoodOf
        <5> QED BY <1>1, <5>2 DEF Grows
      <4>4. wsens'[n].rpseq \in Nat /\ rpseq \in Nat
        <5>1. wsens'[n] \in ClientT /\ rpseq \in Nat
          BY DEF IInv, Stepped, TypeInv, TypeOK, CltTypeOK, SrvTypeOK, ClientT
        <5> QED BY <5>1 DEF ClientT
      <4>5. wsens'[n].rpseq = rpseq
        BY <4>1, <4>2, <4>3, <4>4
      <4> QED BY <1>1, <4>1, <4>2, <4>5
    <3> QED BY <2>2, <3>2 DEF AckedOf
  <2>3. CASE m # n
    BY <1>0, <2>1, <2>3, OthersKeep
  <2> QED BY <2>2, <2>3
<1> QED BY <1>3, <1>5, <1>6, <1>7 DEF IInv, Acked, Stepped

-----------------------------------------------------------------------------
(* The steps of a node. *)

PcT == {"off", "subscribe", "join", "run", "update", "check", "radio", "sync", "tx", "end",
        "closed"}

LEMMA NodeParts ==
  ASSUME TypeInv, NEW n \in Nodes
  PROVE  /\ wsens[n] \in ClientT /\ machine[n] \in MachineT /\ backup[n] \in MachineT
         /\ Parts(n) \in PartsT /\ Dated(Parts(n)) /\ ~ Parts(n).failed
         /\ Parts(n).w = wsens[n] /\ Parts(n).m = machine[n] /\ Parts(n).b = backup[n]
         /\ mcast[n] \in Seq(McastPkt) /\ answer[n] \in Seq(AnswerPkt)
<1>1. wsens[n] \in ClientT /\ machine[n] \in MachineT /\ backup[n] \in MachineT
  BY DEF TypeInv, TypeOK, CltTypeOK, ClientT, MachineT
<1>2. Parts(n).w = wsens[n] /\ Parts(n).m = machine[n] /\ Parts(n).b = backup[n]
      /\ Parts(n).failed = FALSE /\ Parts(n) \in PartsT
  BY <1>1 DEF Parts, PartsT
<1>3. Dated(Parts(n))
  BY <1>2 DEF Dated, TypeInv, Dates
<1> QED BY <1>1, <1>2, <1>3 DEF TypeInv, NetType

\* The types after a step of n: the server has not moved.
LEMMA StepTypes ==
  ASSUME TypeInv, NEW n \in Nodes, UNCHANGED srvVars, joined' \subseteq Nodes,
         NEW s \in PartsT, Dated(s), Become(n, s), NEW x \in PcT, pc' = [pc EXCEPT ![n] = x],
         toServer' \in Seq(ServerPkt), answer' \in [Nodes -> Seq(AnswerPkt)],
         mcast' \in [Nodes -> Seq(McastPkt)],
         \A m \in Nodes : \A i \in 1..Len(mcast'[m]) :
           mcast'[m][i].type \in {"RX", "SR_RX"} => mcast'[m][i].src \in Nodes
  PROVE  /\ TypeInv' /\ wsens'[n] = s.w /\ machine'[n] = s.m /\ backup'[n] = s.b /\ pc'[n] = x
         /\ \A m \in Nodes \ {n} : pc'[m] = pc[m] /\ wsens'[m] = wsens[m]
                                   /\ machine'[m] = machine[m] /\ backup'[m] = backup[m]
<1>1. s.w \in ClientT /\ s.m \in MachineT /\ s.b \in MachineT
  BY DEF PartsT
<1>2. /\ wsens \in [Nodes -> ClientT] /\ machine \in [Nodes -> MachineT]
      /\ backup \in [Nodes -> MachineT] /\ pc \in [Nodes -> PcT]
  BY DEF TypeInv, TypeOK, CltTypeOK, ClientT, MachineT, PcT
<1>3. /\ wsens' = [wsens EXCEPT ![n] = s.w] /\ machine' = [machine EXCEPT ![n] = s.m]
      /\ backup' = [backup EXCEPT ![n] = s.b] /\ program' = program
  BY DEF Become
<1>4. /\ wsens' \in [Nodes -> ClientT] /\ machine' \in [Nodes -> MachineT]
      /\ backup' \in [Nodes -> MachineT] /\ pc' \in [Nodes -> PcT]
  BY <1>1, <1>2, <1>3
<1>5. /\ wsens'[n] = s.w /\ machine'[n] = s.m /\ backup'[n] = s.b /\ pc'[n] = x
      /\ \A m \in Nodes \ {n} : pc'[m] = pc[m] /\ wsens'[m] = wsens[m]
                                /\ machine'[m] = machine[m] /\ backup'[m] = backup[m]
  BY <1>2, <1>3
<1>6. CltTypeOK'
  BY <1>3, <1>4 DEF TypeInv, TypeOK, CltTypeOK, ClientT, MachineT, PcT
<1>7. SrvTypeOK' /\ IsFiniteSet(air)'
  BY DEF TypeInv, TypeOK, SrvTypeOK, srvVars
<1>8. Dates'
  <2>1. ASSUME NEW m \in Nodes
        PROVE  backup'[m].now = wsens'[m].l_rp /\ wsens'[m].l_rp <= machine'[m].now
    <3>1. CASE m = n
      BY <1>5, <3>1 DEF Dated
    <3>2. CASE m # n
      BY <1>5, <3>2 DEF TypeInv, Dates
    <3> QED BY <3>1, <3>2
  <2> QED BY <2>1 DEF Dates
<1>9. NetType'
  BY DEF NetType
<1> QED BY <1>5, <1>6, <1>7, <1>8, <1>9 DEF TypeInv, TypeOK

\* The loops of wsnet2_update, wsnet2_sync and wsnet2_tx: x is where the thread
\* is after the packet.
LEMMA ParseStep ==
  ASSUME NEW n \in Nodes, IInv, ParseNext(n), UNCHANGED srvVars,
         pc[n] \in {"update", "sync", "tx"},
         NEW x \in {"radio", "update", "check", "sync", "run", "tx"}, pc' = [pc EXCEPT ![n] = x],
         LET t == Parsed(Parts(n), n, Head(mcast[n]))
         IN  /\ pc[n] = "sync" /\ t.w.state = "pending" /\ ~ t.failed => x = "sync"
             /\ pc[n] = "sync" /\ (t.w.state = "killed" \/ t.failed) => x = "radio"
             /\ pc[n] = "tx" => x = IF t.w.state = "idle" \/ t.failed THEN "run" ELSE "tx"
  PROVE  Stepped(n)
<1> DEFINE s == Parts(n)
           q == mcast[n]
           t == Parsed(s, n, Head(q))
<1>0. TypeInv /\ ConnectionOf(n)
  BY DEF IInv, Connections
<1>1. /\ q \in Seq(McastPkt) /\ q # <<>> /\ s \in PartsT /\ Dated(s) /\ ~ s.failed
      /\ s.w = wsens[n] /\ s.m = machine[n] /\ s.b = backup[n]
  BY <1>0, NodeParts DEF ParseNext
<1>2. n \in joined /\ NumbersOf(n) /\ MemberOf(n)
  BY <1>0, <1>1 DEF ConnectionOf, IInv, Members
<1>3. /\ Len(q) \in Nat /\ 1 \in 1..Len(q) /\ Tail(q) \in Seq(McastPkt)
      /\ Len(Tail(q)) = Len(q) - 1 /\ \A i \in 1..Len(Tail(q)) : Tail(q)[i] = q[i + 1]
  BY <1>1, TailOf
<1>4. \A i \in 1..Len(q) : q[i].type \in {"RX", "SR_RX"} => q[i].src \in Nodes
  BY <1>0 DEF TypeInv, NetType
<1>5. /\ Become(n, t) /\ mcast' = [mcast EXCEPT ![n] = Tail(q)]
      /\ toServer' = toServer /\ answer' = answer /\ joined' = joined
  BY DEF ParseNext
<1>6. mcast \in [Nodes -> Seq(McastPkt)] /\ toServer \in Seq(ServerPkt)
      /\ answer \in [Nodes -> Seq(AnswerPkt)] /\ joined \subseteq Nodes /\ pc \in [Nodes -> PcT]
  BY <1>0 DEF TypeInv, TypeOK, CltTypeOK, NetType, PcT
<1> HIDE DEF s, q, t
<1>7. mcast' \in [Nodes -> Seq(McastPkt)] /\ mcast'[n] = Tail(q)
      /\ \A m \in Nodes \ {n} : mcast'[m] = mcast[m]
  BY <1>3, <1>5, <1>6
<1>8. ASSUME NEW m \in Nodes, NEW i \in 1..Len(mcast'[m]), mcast'[m][i].type \in {"RX", "SR_RX"}
      PROVE  mcast'[m][i].src \in Nodes
  <2>1. CASE m = n
    <3>1. i + 1 \in 1..Len(q) /\ mcast'[m][i] = q[i + 1]
      BY <1>3, <1>7, <1>8, <2>1
    <3> QED BY <1>4, <1>8, <3>1
  <2>2. CASE m # n
    BY <1>0, <1>7, <1>8, <2>2 DEF TypeInv, NetType
  <2> QED BY <2>1, <2>2
<1>9. /\ up' = up /\ seq' = seq /\ killed' = killed /\ active' = active /\ rpseq' = rpseq
      /\ duration' = duration /\ acked' = acked
  BY DEF srvVars
<1>10. rpseq \in Nat
  BY <1>0 DEF TypeInv, TypeOK, SrvTypeOK
\* What is left when the parts of n are known to be typed.
<1>11. ASSUME t \in PartsT, Dated(t), NumbersIn(t.w, Tail(q), seq),
              /\ pc'[n] = x /\ wsens'[n] = t.w /\ machine'[n] = t.m /\ backup'[n] = t.b =>
                   MemberOf(n)',
              n \notin killed => /\ wsens[n].rpseq <= t.w.rpseq
                                 /\ Waiting(n) /\ t.w.rpseq = wsens[n].rpseq =>
                                      x = "sync" /\ t.w.state = "pending"
       PROVE  Stepped(n)
  <2>1. x \in PcT
    BY DEF PcT
  <2>2. toServer' \in Seq(ServerPkt) /\ answer' \in [Nodes -> Seq(AnswerPkt)]
        /\ joined' \subseteq Nodes
    BY <1>5, <1>6
  <2>3. /\ TypeInv' /\ wsens'[n] = t.w /\ machine'[n] = t.m /\ backup'[n] = t.b /\ pc'[n] = x
        /\ \A m \in Nodes \ {n} : pc'[m] = pc[m] /\ wsens'[m] = wsens[m]
                                  /\ machine'[m] = machine[m] /\ backup'[m] = backup[m]
    BY <1>0, <1>5, <1>7, <1>8, <1>11, <2>1, <2>2, StepTypes
  <2>4. NumbersOf(n)'
    BY <1>7, <1>9, <1>11, <2>3 DEF NumbersOf, NumbersIn, InSeq
  <2>5. MemberOf(n)'
    BY <1>11, <2>3
  <2>6. ConnectionOf(n)'
    BY <1>2, <1>5, <2>3 DEF ConnectionOf, Early
  <2>7. Others(n)
    BY <1>5, <1>7, <2>3 DEF Others
  <2>8. Sent(n)
    BY <1>5 DEF Sent
  <2>9. pc[n] # "closed" /\ pc[n] # "subscribe" /\ pc'[n] \notin Early
    BY <2>3 DEF Early
  <2>10. n \notin killed => /\ wsens[n].rpseq <= wsens'[n].rpseq
                            /\ Waiting(n) /\ wsens'[n].rpseq = wsens[n].rpseq => Waiting(n)'
    BY <1>11, <2>3 DEF Waiting
  <2> QED BY <1>2, <2>3, <2>4, <2>5, <2>6, <2>7, <2>8, <2>9, <2>10 DEF Stepped
<1>12. CASE n \notin killed
  <2>1. /\ GoodOf(s.w, q, n, Waiting(n), seq, rpseq, duration) /\ ~ s.m.kill /\ ~ s.b.kill
        /\ up /\ n \in active
    BY <1>1, <1>2, <1>12 DEF MemberOf, Good, q
  <2>2. Waiting(n) \in BOOLEAN /\ (Waiting(n) => s.w.state = "pending")
        /\ (Waiting(n) => pc[n] = "sync")
    BY <1>1 DEF Waiting
  <2>3. InSeq(s.w, q)
    BY <1>1, <1>2 DEF NumbersOf, NumbersIn, q
  <2>4. /\ t \in PartsT /\ Dated(t) /\ ~ t.failed /\ ~ t.m.kill /\ ~ t.b.kill
        /\ InSeq(t.w, Tail(q))
        /\ \A b \in BOOLEAN : (~ Changing(q[1]) /\ Waiting(n) => b) =>
             GoodOf(t.w, Tail(q), n, b, seq, rpseq, duration)
        /\ s.w.rpseq <= t.w.rpseq
        /\ Changing(q[1]) => t.w.state = "idle" /\ s.w.rpseq < t.w.rpseq
        /\ ~ Changing(q[1]) /\ s.w.state # "txing" => t.w.state = s.w.state
    BY <1>1, <1>3, <1>4, <1>10, <2>1, <2>2, <2>3, GoodParsed DEF t
  <2>5. ASSUME ~ Changing(q[1]), Waiting(n) PROVE x = "sync" /\ t.w.state = "pending"
    <3>1. pc[n] = "sync" /\ t.w.state = "pending" /\ ~ t.failed
      BY <2>2, <2>4, <2>5
    <3> QED BY <3>1 DEF t, s, q
  <2>6. NumbersIn(t.w, Tail(q), seq)
    <3>1. t.w.seq + Len(Tail(q)) = seq
      <4>1. GoodOf(t.w, Tail(q), n, TRUE, seq, rpseq, duration)
        BY <2>4
      <4> QED BY <4>1 DEF GoodOf
    <3>2. ASSUME NEW i \in 1..Len(Tail(q)), Tail(q)[i].type = "KILLSIM" PROVE FALSE
      <4>1. i + 1 \in 1..Len(q) /\ Tail(q)[i] = q[i + 1]
        BY <1>3
      <4> QED BY <2>1, <3>2, <4>1 DEF GoodOf, Untold, Tells
    <3> QED BY <2>4, <3>1, <3>2 DEF NumbersIn
  <2>7. ASSUME pc'[n] = x, wsens'[n] = t.w, machine'[n] = t.m, backup'[n] = t.b
        PROVE  MemberOf(n)'
    <3>1. Waiting(n)' \in BOOLEAN
      BY DEF Waiting
    <3>2. ~ Changing(q[1]) /\ Waiting(n) => Waiting(n)'
      BY <2>5, <2>7 DEF Waiting
    <3>3. GoodOf(t.w, Tail(q), n, Waiting(n)', seq, rpseq, duration)
      BY <2>4, <3>1, <3>2
    <3>4. GoodOf(wsens'[n], mcast'[n], n, Waiting(n)', seq', rpseq', duration')
      BY <1>7, <1>9, <2>7, <3>3
    <3>5. Good(n)'
      BY <2>4, <2>7, <3>4 DEF Good, GoodOf, Knows, Distant, Grows, Reminded, Released, Untold,
         Tells, Changing, LastChange
    <3> QED BY <1>9, <1>12, <2>1, <3>5 DEF MemberOf
  <2>8. /\ wsens[n].rpseq <= t.w.rpseq
        /\ Waiting(n) /\ t.w.rpseq = wsens[n].rpseq => x = "sync" /\ t.w.state = "pending"
    <3>1. s.w \in ClientT /\ t.w \in ClientT
      BY <1>1, <2>4 DEF PartsT
    <3>2. s.w.rpseq \in Nat /\ t.w.rpseq \in Nat
      BY <3>1 DEF ClientT
    <3> QED BY <1>1, <2>4, <2>5, <3>2
  <2> QED BY <1>11, <2>4, <2>6, <2>7, <2>8
<1>13. CASE n \in killed
  <2>1. Leaving(n)
    BY <1>2, <1>13 DEF MemberOf
  <2>2. KeepsOn(q) /\ (s.m.kill \/ (s.w.state = "pending" /\ Doomed(q, n)))
        /\ (pc[n] = "tx" => s.m.kill) /\ (pc[n] # "tx" => pc[n] = "sync" /\ ~ s.m.kill)
    BY <1>1, <2>1 DEF Leaving, Waiting, q
  <2>3. NumbersIn(s.w, q, seq)
    BY <1>1, <1>2 DEF NumbersOf, q
  <2>4. /\ t \in PartsT /\ Dated(t) /\ NumbersIn(t.w, Tail(q), seq)
        /\ \/ t.m.kill /\ (t.w.state = "idle" \/ t.failed \/ KeepsOn(Tail(q)))
           \/ /\ ~ s.m.kill /\ ~ t.failed /\ t.w.state = "pending"
              /\ KeepsOn(Tail(q)) /\ Doomed(Tail(q), n)
        /\ ~ s.m.kill /\ t.m.kill =>
             KeepsOn(Tail(q)) /\ (t.w.state = "killed" \/ t.failed)
    BY <1>1, <1>3, <1>4, <2>2, <2>3, LeavingParsed DEF t
  <2>5. \/ t.m.kill /\ x = "run"
        \/ t.m.kill /\ x \in {"radio", "tx"} /\ KeepsOn(Tail(q))
        \/ x = "sync" /\ t.w.state = "pending" /\ ~ t.m.kill /\ KeepsOn(Tail(q)) /\ Doomed(Tail(q), n)
    <3>1. CASE pc[n] = "tx"
      <4>1. x = IF t.w.state = "idle" \/ t.failed THEN "run" ELSE "tx"
        BY <3>1 DEF t, s, q
      <4> QED BY <2>2, <2>4, <3>1, <4>1
    <3>2. CASE pc[n] = "sync" /\ t.m.kill
      <4>1. t.w.state = "killed" \/ t.failed
        BY <2>2, <2>4, <3>2
      <4>2. x = "radio"
        BY <3>2, <4>1 DEF t, s, q
      <4> QED BY <2>2, <2>4, <3>2, <4>2
    <3>3. CASE pc[n] = "sync" /\ ~ t.m.kill
      <4>1. ~ t.failed /\ t.w.state = "pending" /\ KeepsOn(Tail(q)) /\ Doomed(Tail(q), n)
        BY <2>4, <3>3
      <4>2. x = "sync"
        BY <3>3, <4>1 DEF t, s, q
      <4> QED BY <3>3, <4>1, <4>2
    <3> QED BY <2>2, <3>1, <3>2, <3>3
  <2>6. ASSUME pc'[n] = x, wsens'[n] = t.w, machine'[n] = t.m, backup'[n] = t.b
        PROVE  MemberOf(n)'
    <3>1. KeepsOn(Tail(q)) => KeepsOn(mcast[n])'
      BY <1>7, <1>9 DEF KeepsOn
    <3>2. Doomed(Tail(q), n) => Doomed(mcast[n], n)'
      BY <1>7 DEF Doomed, Tells, Changing
    <3>3. Leaving(n)'
      BY <2>5, <2>6, <3>1, <3>2 DEF Leaving, Waiting
    <3> QED BY <1>9, <1>13, <3>3 DEF MemberOf
  <2> QED BY <1>11, <1>13, <2>4, <2>6
<1> QED BY <1>12, <1>13

\* Steps of the main loop that parse nothing: what the node knows is the same.
LEMMA LocalStep ==
  ASSUME NEW n \in Nodes, IInv, UNCHANGED srvVars, UNCHANGED <<answer, mcast, joined>>,
         NEW s \in PartsT, Dated(s), Become(n, s), NEW x \in PcT, x \notin Early, x # "closed",
         pc' = [pc EXCEPT ![n] = x], pc[n] \in {"run", "check", "radio"},
         pc[n] = "radio" => x \in {"run", "tx"}, pc[n] = "run" => ~ machine[n].kill,
         s.w.seq = wsens[n].seq, s.w.rpseq = wsens[n].rpseq, s.w.l_rp = wsens[n].l_rp,
         s.w.n_rp = wsens[n].n_rp,
         n \in joined => s.m.kill = machine[n].kill /\ s.b.kill = backup[n].kill,
         toServer' \in Seq(ServerPkt), Sent(n)
  PROVE  Stepped(n)
<1>0. TypeInv /\ ConnectionOf(n)
  BY DEF IInv, Connections
<1>1. answer' \in [Nodes -> Seq(AnswerPkt)] /\ mcast' \in [Nodes -> Seq(McastPkt)]
      /\ joined' \subseteq Nodes
      /\ \A m \in Nodes : \A i \in 1..Len(mcast'[m]) :
           mcast'[m][i].type \in {"RX", "SR_RX"} => mcast'[m][i].src \in Nodes
  BY <1>0 DEF TypeInv, TypeOK, CltTypeOK, NetType
<1>2. /\ TypeInv' /\ wsens'[n] = s.w /\ machine'[n] = s.m /\ backup'[n] = s.b /\ pc'[n] = x
      /\ \A m \in Nodes \ {n} : pc'[m] = pc[m] /\ wsens'[m] = wsens[m]
                                /\ machine'[m] = machine[m] /\ backup'[m] = backup[m]
  BY <1>0, <1>1, StepTypes
<1>3. /\ up' = up /\ seq' = seq /\ killed' = killed /\ active' = active /\ rpseq' = rpseq
      /\ duration' = duration /\ acked' = acked
  BY DEF srvVars
<1>4. Others(n)
  BY <1>2 DEF Others
<1>5. ConnectionOf(n)'
  BY <1>0, <1>2 DEF ConnectionOf, Early
<1>6. ASSUME n \in joined PROVE NumbersOf(n)' /\ MemberOf(n)'
  <2>1. NumbersOf(n) /\ MemberOf(n)
    BY <1>6 DEF IInv, Members
  <2>2. NumbersOf(n)'
    BY <1>2, <1>3, <2>1 DEF NumbersOf, NumbersIn, InSeq
  <2>3. ~ Waiting(n)
    BY DEF Waiting
  <2>4. CASE n \notin killed
    <3>1. Good(n) /\ up /\ n \in active
      BY <2>1, <2>4 DEF MemberOf
    <3>2. GoodOf(wsens[n], mcast[n], n, FALSE, seq, rpseq, duration)
      BY <2>3, <3>1 DEF Good, GoodOf, Released
    <3>3. GoodOf(wsens'[n], mcast'[n], n, Waiting(n)', seq', rpseq', duration')
      <4>1. /\ wsens'[n].seq = wsens[n].seq /\ wsens'[n].rpseq = wsens[n].rpseq
            /\ wsens'[n].l_rp = wsens[n].l_rp /\ wsens'[n].n_rp = wsens[n].n_rp
            /\ mcast'[n] = mcast[n]
        BY <1>2
      <4>2. Released(mcast'[n], Waiting(n)')
        BY <3>2, <4>1 DEF GoodOf, Released
      <4> QED BY <1>3, <3>2, <4>1, <4>2 DEF GoodOf, Knows, Distant, Grows, Reminded
    <3>4. ~ machine'[n].kill /\ ~ backup'[n].kill
      BY <1>2, <1>6, <3>1 DEF Good
    <3>5. Good(n)'
      BY <3>3, <3>4 DEF Good, GoodOf, Knows, Distant, Grows, Reminded, Released, Untold,
         Tells, Changing, LastChange
    <3>6. up' /\ n \in active' /\ n \notin killed'
      BY <1>3, <2>4, <3>1
    <3> QED BY <2>2, <3>5, <3>6 DEF MemberOf
  <2>5. CASE n \in killed
    <3>1. Leaving(n)
      BY <2>1, <2>5 DEF MemberOf
    <3>2. machine[n].kill /\ pc[n] = "radio" /\ KeepsOn(mcast[n])
      BY <2>3, <3>1 DEF Leaving
    <3>3. KeepsOn(mcast[n])'
      BY <1>3, <3>2 DEF KeepsOn
    <3>4. Leaving(n)'
      BY <1>2, <1>6, <3>2, <3>3 DEF Leaving
    <3>5. n \in killed'
      BY <1>3, <2>5
    <3> QED BY <2>2, <3>4, <3>5 DEF MemberOf
  <2> QED BY <2>2, <2>4, <2>5
<1>7. wsens[n].rpseq \in Nat
  <2>1. wsens[n] \in ClientT
    BY <1>0, NodeParts
  <2> QED BY <2>1 DEF ClientT
<1>8. wsens[n].rpseq <= wsens'[n].rpseq
  BY <1>2, <1>7
<1>9. ~ Waiting(n)
  BY DEF Waiting
<1>10. pc[n] # "closed" /\ pc[n] # "subscribe" /\ pc'[n] \notin Early
  BY <1>2
<1> QED BY <1>2, <1>4, <1>5, <1>6, <1>8, <1>9, <1>10 DEF Stepped

LEMMA InstructionStep ==
  ASSUME NEW n \in Nodes, IInv, Instruction(n), UNCHANGED srvVars
  PROVE  Stepped(n)
<1> DEFINE m == [machine[n] EXCEPT !.now = machine[n].now + Quantum[n]]
           s == [Parts(n) EXCEPT !.m = m]
<1>1. TypeInv
  BY DEF IInv
<1>2. /\ Parts(n) \in PartsT /\ Dated(Parts(n)) /\ Parts(n).w = wsens[n]
      /\ Parts(n).m = machine[n] /\ Parts(n).b = backup[n]
      /\ machine[n] \in MachineT
  BY <1>1, NodeParts
<1>3. Quantum[n] \in Nat
  BY ClientAssumption
<1>4. m \in MachineT /\ m.kill = machine[n].kill /\ m.now >= machine[n].now
  <2>1. machine[n].now \in Nat /\ machine[n].now + Quantum[n] \in Nat
        /\ machine[n].now + Quantum[n] >= machine[n].now
    BY <1>2, <1>3 DEF MachineT
  <2>2. m.now = machine[n].now + Quantum[n] /\ m.kill = machine[n].kill
    BY <1>2 DEF MachineT
  <2>3. m \in MachineT
    <3> DEFINE d == machine[n].now + Quantum[n]
    <3>1. d \in Nat
      BY <2>1
    <3> HIDE DEF d
    <3>2. [machine[n] EXCEPT !.now = d] \in MachineT
      BY <1>2, <3>1 DEF MachineT
    <3> QED BY <3>2 DEF d
  <2> QED BY <2>1, <2>2, <2>3
<1>5. machine' = [machine EXCEPT ![n] = m]
  BY <1>1 DEF Instruction, TypeInv, TypeOK, CltTypeOK
<1> HIDE DEF m
<1>6. s \in PartsT /\ s.w = wsens[n] /\ s.m = m /\ s.b = backup[n]
  BY <1>2, <1>4 DEF PartsT
<1>7. Dated(s)
  <2>1. wsens[n].l_rp \in Nat /\ machine[n].now \in Nat /\ m.now \in Nat
    BY <1>2, <1>4, <1>6 DEF PartsT, MachineT, ClientT
  <2> QED BY <1>2, <1>4, <1>6, <2>1 DEF Dated
<1> HIDE DEF s
<1>8. Become(n, s)
  BY <1>1, <1>5, <1>6 DEF Become, Instruction, TypeInv, TypeOK, CltTypeOK
<1>9. PICK x \in {"check", "update"} : pc' = [pc EXCEPT ![n] = x]
  BY DEF Instruction, Goto
<1>10. x \in PcT /\ x \notin Early /\ x # "closed"
  BY DEF PcT, Early
<1>11. Sent(n) /\ toServer' \in Seq(ServerPkt)
  BY <1>1 DEF Instruction, netVars, Sent, TypeInv, NetType
<1> QED BY <1>4, <1>6, <1>7, <1>8, <1>9, <1>10, <1>11, LocalStep DEF Instruction, netVars

LEMMA IdleStep ==
  ASSUME NEW n \in Nodes, IInv, UpdateNone(n) \/ NothingDue(n), UNCHANGED srvVars
  PROVE  Stepped(n)
<1>1. TypeInv
  BY DEF IInv
<1>2. /\ Parts(n) \in PartsT /\ Dated(Parts(n)) /\ Parts(n).w = wsens[n]
      /\ Parts(n).m = machine[n] /\ Parts(n).b = backup[n]
  BY <1>1, NodeParts
<1>3. /\ wsens' = wsens /\ machine' = machine /\ backup' = backup /\ program' = program
      /\ UNCHANGED <<toServer, answer, mcast, joined>>
  BY DEF UpdateNone, NothingDue, netVars
<1>4. Become(n, Parts(n))
  BY <1>1, <1>2, <1>3 DEF Become, TypeInv, TypeOK, CltTypeOK
<1>5. PICK x \in {"radio", "run"} : pc' = [pc EXCEPT ![n] = x] /\ pc[n] \in {"check", "radio"}
                                    /\ (pc[n] = "radio" => x = "run")
  BY DEF UpdateNone, NothingDue, Goto
<1>6. x \in PcT /\ x \notin Early /\ x # "closed"
  BY DEF PcT, Early
<1>7. Sent(n) /\ toServer' \in Seq(ServerPkt)
  BY <1>1, <1>3 DEF Sent, TypeInv, NetType
<1> QED BY <1>2, <1>3, <1>4, <1>5, <1>6, <1>7, LocalStep

LEMMA SyncStep ==
  ASSUME NEW n \in Nodes, IInv, UpdateSync(n), UNCHANGED srvVars
  PROVE  Stepped(n)
<1> DEFINE w == [wsens[n] EXCEPT !.state = "pending"]
           u == [Parts(n) EXCEPT !.w = w]
           s == IF n \in joined THEN u ELSE Finalize(u)
           x == IF n \in joined THEN "sync" ELSE "radio"
<1>1. TypeInv
  BY DEF IInv
<1>2. /\ Parts(n) \in PartsT /\ Dated(Parts(n)) /\ Parts(n).w = wsens[n]
      /\ Parts(n).m = machine[n] /\ Parts(n).b = backup[n]
      /\ wsens[n] \in ClientT
  BY <1>1, NodeParts
<1>3. /\ w \in ClientT /\ w.state = "pending" /\ w.seq = wsens[n].seq
      /\ w.rpseq = wsens[n].rpseq /\ w.l_rp = wsens[n].l_rp /\ w.n_rp = wsens[n].n_rp
  BY <1>2 DEF ClientT, CltState
<1>4. u = [Parts(n) EXCEPT !.w.state = "pending"]
  BY <1>2 DEF PartsT, ClientT
<1> HIDE DEF w
<1>5. u \in PartsT /\ u.w = w /\ u.m = machine[n] /\ u.b = backup[n]
  BY <1>2, <1>3 DEF PartsT
<1>6. Become(n, s)
  BY <1>4 DEF UpdateSync
<1> HIDE DEF u
<1>7. s \in PartsT /\ s.w = w /\ s.b = u.b /\ s.m.now = u.m.now
      /\ (n \in joined => s.m = u.m)
  BY <1>5, FinalizeParts
<1>8. Dated(s)
  BY <1>2, <1>3, <1>5, <1>7 DEF Dated
<1>9. pc' = [pc EXCEPT ![n] = x] /\ toServer' = Append(toServer, SyncAck(n)) /\ pc[n] = "check"
      /\ UNCHANGED <<answer, mcast, joined>>
  BY DEF UpdateSync, Goto, Send
<1>10. x \in PcT /\ x \notin Early /\ x # "closed"
  BY DEF PcT, Early
<1>11. wsens[n].rpseq \in Nat
  BY <1>2 DEF ClientT
<1>12. PICK p \in ServerPkt : p = SyncAck(n)
  BY <1>11 DEF SyncAck, ServerPkt
<1>16. p.type = "SYNC_ACK" /\ p.node = n /\ p.rp_id = wsens[n].rpseq
  BY <1>12 DEF SyncAck
<1> HIDE DEF s
<1>13. toServer' \in Seq(ServerPkt)
  BY <1>1, <1>9, <1>12, AppendOf DEF TypeInv, NetType
<1>14. PacketOf(p)'
  <2>1. wsens' = [wsens EXCEPT ![n] = s.w] /\ wsens \in [Nodes -> ClientT] /\ pc \in [Nodes -> PcT]
    BY <1>1, <1>6 DEF Become, TypeInv, TypeOK, CltTypeOK, ClientT, PcT
  <2>2. wsens'[n] = w /\ pc'[n] = x
    BY <1>7, <1>9, <2>1
  <2>3. pc'[n] \notin Early /\ (n \in joined' => pc'[n] = "sync")
    BY <1>9, <2>2 DEF Early
  <2>4. wsens'[n].rpseq = wsens[n].rpseq /\ wsens'[n].state = "pending"
    BY <1>3, <2>2
  <2> QED BY <1>11, <1>16, <2>3, <2>4 DEF PacketOf, Waiting
<1>15. Sent(n)
  BY <1>9, <1>12, <1>14, <1>16 DEF Sent
<1> QED BY <1>3, <1>5, <1>6, <1>7, <1>8, <1>9, <1>10, <1>13, <1>15, LocalStep

LEMMA TransmitStep ==
  ASSUME NEW n \in Nodes, IInv, Transmit(n), UNCHANGED srvVars
  PROVE  Stepped(n)
<1> DEFINE w == [wsens[n] EXCEPT !.state = "txing"]
           m == [machine[n] EXCEPT !.next = machine[n].next + 1]
           u == [Parts(n) EXCEPT !.w = w, !.m = m]
           s == IF n \in joined THEN u ELSE Finalize(u)
           x == IF n \in joined THEN "tx" ELSE "run"
<1>1. TypeInv
  BY DEF IInv
<1>2. /\ Parts(n) \in PartsT /\ Dated(Parts(n)) /\ Parts(n).w = wsens[n]
      /\ Parts(n).m = machine[n] /\ Parts(n).b = backup[n]
      /\ wsens[n] \in ClientT /\ machine[n] \in MachineT
  BY <1>1, NodeParts
<1>3. /\ w \in ClientT /\ w.state = "txing" /\ w.seq = wsens[n].seq
      /\ w.rpseq = wsens[n].rpseq /\ w.l_rp = wsens[n].l_rp /\ w.n_rp = wsens[n].n_rp
  BY <1>2 DEF ClientT, CltState
<1>4. m \in MachineT /\ m.now = machine[n].now /\ m.kill = machine[n].kill
  <2>1. machine[n].next + 1 \in Nat \ {0}
    BY <1>2 DEF MachineT
  <2> QED BY <1>2, <2>1 DEF MachineT
<1>5. u = [Parts(n) EXCEPT !.w.state = "txing", !.m.next = @ + 1]
  BY <1>2 DEF PartsT, ClientT, MachineT
<1> HIDE DEF w, m
<1>6. u \in PartsT /\ u.w = w /\ u.m = m /\ u.b = backup[n]
  BY <1>2, <1>3, <1>4 DEF PartsT
<1>7. Become(n, s)
  BY <1>5 DEF Transmit
<1> HIDE DEF u
<1>8. s \in PartsT /\ s.w = w /\ s.b = u.b /\ s.m.now = u.m.now
      /\ (n \in joined => s.m = u.m)
  BY <1>6, FinalizeParts
<1>9. Dated(s)
  BY <1>2, <1>3, <1>4, <1>6, <1>8 DEF Dated
<1>10. pc' = [pc EXCEPT ![n] = x] /\ pc[n] = "radio" /\ Due(n)
       /\ toServer' = Append(toServer, ByteTx(n, program[n][machine[n].next]))
       /\ UNCHANGED <<answer, mcast, joined>>
  BY DEF Transmit, Goto, Send
<1>11. x \in PcT /\ x \notin Early /\ x # "closed" /\ x \in {"run", "tx"}
  BY DEF PcT, Early
<1>12. PICK p \in ServerPkt :
         /\ p = ByteTx(n, program[n][machine[n].next]) /\ p.type = "BYTE_TX" /\ p.node = n
  <2> DEFINE e == program[n][machine[n].next]
  <2>1. e \in Emission
    <3>1. program[n] \in Seq(Emission) /\ machine[n].next \in Nat \ {0}
      BY <1>1, <1>2 DEF TypeInv, TypeOK, CltTypeOK, MachineT
    <3>2. machine[n].next \in 1..Len(program[n])
      BY <1>10, <3>1 DEF Due
    <3> QED BY <3>1, <3>2
  <2> HIDE DEF e
  <2>2. e.kind \in {"byte", "measure"} /\ e.dur \in Nat
    BY <2>1 DEF Emission
  <2>3. machine[n].now - wsens[n].l_rp \in Nat
    <3>1. wsens[n].l_rp <= machine[n].now
      BY <1>1 DEF TypeInv, Dates
    <3>2. wsens[n].l_rp \in Nat /\ machine[n].now \in Nat
      BY <1>2 DEF MachineT, ClientT
    <3> QED BY <3>1, <3>2
  <2>4. ByteTx(n, e) \in ServerPkt /\ ByteTx(n, e).type = "BYTE_TX" /\ ByteTx(n, e).node = n
    BY <2>2, <2>3 DEF ByteTx, ServerPkt
  <2> QED BY <2>4 DEF e
<1> HIDE DEF s
<1>13. toServer' \in Seq(ServerPkt)
  BY <1>1, <1>10, <1>12, AppendOf DEF TypeInv, NetType
<1>14. PacketOf(p)'
  <2>1. pc \in [Nodes -> PcT]
    BY <1>1 DEF TypeInv, TypeOK, CltTypeOK, PcT
  <2>2. \A o \in Nodes : pc'[o] \notin Early
    BY <1>10, <1>11, <2>1 DEF Due, Early
  <2> QED BY <1>12, <2>2 DEF PacketOf
<1>15. Sent(n)
  BY <1>10, <1>12, <1>14 DEF Sent
<1> QED BY <1>3, <1>4, <1>6, <1>7, <1>8, <1>9, <1>10, <1>11, <1>13, <1>15, LocalStep

\* Steps that leave the node itself as it is.
LEMMA StillParts ==
  ASSUME NEW n \in Nodes, TypeInv, UNCHANGED <<program, wsens, machine, backup>>
  PROVE  Become(n, Parts(n)) /\ Parts(n) \in PartsT /\ Dated(Parts(n))
         /\ Parts(n).w = wsens[n] /\ Parts(n).m = machine[n] /\ Parts(n).b = backup[n]
<1>1. /\ Parts(n) \in PartsT /\ Dated(Parts(n)) /\ Parts(n).w = wsens[n]
      /\ Parts(n).m = machine[n] /\ Parts(n).b = backup[n]
  BY NodeParts
<1> QED BY <1>1 DEF Become, TypeInv, TypeOK, CltTypeOK

LEMMA SubscribeStep ==
  ASSUME NEW n \in Nodes, IInv, Subscribe(n), UNCHANGED srvVars
  PROVE  Stepped(n)
<1>1. TypeInv /\ ConnectionOf(n)
  BY DEF IInv, Connections
<1>2. /\ pc[n] = "off" /\ pc' = [pc EXCEPT ![n] = "subscribe"]
      /\ toServer' = Append(toServer, Plain(n, "CONNECT_REQ"))
      /\ UNCHANGED <<answer, mcast, joined>> /\ UNCHANGED <<program, wsens, machine, backup>>
  BY DEF Subscribe, Goto, Send
<1>3. PICK p \in ServerPkt : p = Plain(n, "CONNECT_REQ")
  BY DEF Plain, ServerPkt
<1>4. p.type = "CONNECT_REQ" /\ p.node = n
  BY <1>3 DEF Plain
<1>5. toServer' \in Seq(ServerPkt) /\ "subscribe" \in PcT
  BY <1>1, <1>2, <1>3, AppendOf DEF TypeInv, NetType, PcT
<1>6. Become(n, Parts(n)) /\ Parts(n) \in PartsT /\ Dated(Parts(n))
      /\ Parts(n).w = wsens[n] /\ Parts(n).m = machine[n] /\ Parts(n).b = backup[n]
  BY <1>1, <1>2, StillParts
<1>7. /\ answer' \in [Nodes -> Seq(AnswerPkt)] /\ mcast' \in [Nodes -> Seq(McastPkt)]
      /\ joined' \subseteq Nodes
      /\ \A m \in Nodes : \A i \in 1..Len(mcast'[m]) :
           mcast'[m][i].type \in {"RX", "SR_RX"} => mcast'[m][i].src \in Nodes
  BY <1>1, <1>2 DEF TypeInv, TypeOK, CltTypeOK, NetType
<1>8. /\ TypeInv' /\ wsens'[n] = wsens[n] /\ machine'[n] = machine[n] /\ backup'[n] = backup[n]
      /\ pc'[n] = "subscribe"
      /\ \A m \in Nodes \ {n} : pc'[m] = pc[m] /\ wsens'[m] = wsens[m]
                                /\ machine'[m] = machine[m] /\ backup'[m] = backup[m]
  BY <1>1, <1>2, <1>5, <1>6, <1>7, StepTypes
<1>9. /\ up' = up /\ seq' = seq /\ killed' = killed /\ active' = active /\ rpseq' = rpseq
      /\ duration' = duration /\ acked' = acked
  BY DEF srvVars
<1>10. n \notin active /\ answer[n] = <<>> /\ n \notin joined
  BY <1>1, <1>2 DEF ConnectionOf, Early
<1>11. ConnectionOf(n)'
  BY <1>1, <1>2, <1>8, <1>9, <1>10 DEF ConnectionOf, Early
<1>12. Others(n)
  BY <1>2, <1>8 DEF Others
<1>13. PacketOf(p)'
  BY <1>2, <1>4, <1>8, <1>9, <1>10 DEF PacketOf
<1>14. Sent(n)
  BY <1>2, <1>3, <1>4, <1>13 DEF Sent
<1>15. n \notin joined' /\ pc[n] # "closed" /\ pc[n] # "subscribe" /\ pc[n] \in Early
  BY <1>2, <1>10 DEF Early
<1> QED BY <1>8, <1>11, <1>12, <1>14, <1>15 DEF Stepped

\* One answer less.
LEMMA AnswerTail ==
  ASSUME NEW n \in Nodes, TypeInv, answer[n] # <<>>,
         answer' = [answer EXCEPT ![n] = Tail(@)], UNCHANGED <<toServer, mcast, joined>>
  PROVE  /\ answer' \in [Nodes -> Seq(AnswerPkt)] /\ mcast' \in [Nodes -> Seq(McastPkt)]
         /\ joined' \subseteq Nodes /\ toServer' \in Seq(ServerPkt)
         /\ \A m \in Nodes : \A i \in 1..Len(mcast'[m]) :
              mcast'[m][i].type \in {"RX", "SR_RX"} => mcast'[m][i].src \in Nodes
         /\ \A m \in Nodes \ {n} : answer'[m] = answer[m]
         /\ Head(answer[n]) = answer[n][1] /\ answer[n][1] \in AnswerPkt /\ 1 \in 1..Len(answer[n])
<1>1. answer \in [Nodes -> Seq(AnswerPkt)] /\ answer[n] \in Seq(AnswerPkt)
  BY DEF TypeInv, NetType
<1>2. Tail(answer[n]) \in Seq(AnswerPkt) /\ Head(answer[n]) = answer[n][1]
      /\ answer[n][1] \in AnswerPkt /\ 1 \in 1..Len(answer[n])
  BY <1>1, TailOf
<1> QED BY <1>1, <1>2 DEF TypeInv, TypeOK, CltTypeOK, NetType

LEMMA RefusedStep ==
  ASSUME NEW n \in Nodes, IInv, Refused(n), UNCHANGED srvVars
  PROVE  Stepped(n)
<1>1. TypeInv /\ ConnectionOf(n)
  BY DEF IInv, Connections
<1>2. /\ pc[n] = "subscribe" /\ answer[n] # <<>> /\ pc' = [pc EXCEPT ![n] = "run"]
      /\ answer' = [answer EXCEPT ![n] = Tail(@)] /\ "run" \in PcT
      /\ UNCHANGED <<toServer, mcast, joined>> /\ UNCHANGED <<program, wsens, machine, backup>>
  BY DEF Refused, Goto, PcT
<1>3. /\ answer' \in [Nodes -> Seq(AnswerPkt)] /\ mcast' \in [Nodes -> Seq(McastPkt)]
      /\ joined' \subseteq Nodes /\ toServer' \in Seq(ServerPkt)
      /\ \A m \in Nodes : \A i \in 1..Len(mcast'[m]) :
           mcast'[m][i].type \in {"RX", "SR_RX"} => mcast'[m][i].src \in Nodes
      /\ \A m \in Nodes \ {n} : answer'[m] = answer[m]
  BY <1>1, <1>2, AnswerTail
<1>4. Become(n, Parts(n)) /\ Parts(n) \in PartsT /\ Dated(Parts(n))
      /\ Parts(n).w = wsens[n] /\ Parts(n).m = machine[n] /\ Parts(n).b = backup[n]
  BY <1>1, <1>2, StillParts
<1>5. /\ TypeInv' /\ pc'[n] = "run"
      /\ \A m \in Nodes \ {n} : pc'[m] = pc[m] /\ wsens'[m] = wsens[m]
                                /\ machine'[m] = machine[m] /\ backup'[m] = backup[m]
  BY <1>1, <1>2, <1>3, <1>4, StepTypes
<1>6. n \notin joined /\ mcast[n] = <<>>
  BY <1>1, <1>2 DEF ConnectionOf, Early
<1>7. ConnectionOf(n)'
  BY <1>2, <1>5, <1>6 DEF ConnectionOf, Early
<1>8. Others(n)
  BY <1>2, <1>3, <1>5 DEF Others
<1>9. n \notin joined' /\ pc[n] # "closed" /\ pc[n] \in Early /\ Sent(n)
  BY <1>2, <1>6 DEF Early, Sent
<1> QED BY <1>2, <1>5, <1>7, <1>8, <1>9 DEF Stepped

LEMMA ConnectedStep ==
  ASSUME NEW n \in Nodes, IInv, Connected(n), UNCHANGED srvVars
  PROVE  Stepped(n)
<1> DEFINE pkt == Head(answer[n])
           w == [wsens[n] EXCEPT !.seq = pkt.seq]
           u == [Parts(n) EXCEPT !.w = w]
           s == SaveState(NextRp(u, pkt, u.m.now))
           x == IF Published(n, pkt.names) THEN "join" ELSE "run"
<1>1. TypeInv /\ ConnectionOf(n)
  BY DEF IInv, Connections
<1>2. /\ Parts(n) \in PartsT /\ Dated(Parts(n)) /\ Parts(n).w = wsens[n] /\ ~ Parts(n).failed
      /\ Parts(n).m = machine[n] /\ Parts(n).b = backup[n] /\ wsens[n] \in ClientT
  BY <1>1, NodeParts
<1>3. /\ pc[n] = "subscribe" /\ answer[n] # <<>> /\ answer' = [answer EXCEPT ![n] = Tail(@)]
      /\ UNCHANGED <<toServer, mcast, joined>> /\ pkt.type = "CONNECT_RSP_OK"
      /\ pc' = [pc EXCEPT ![n] = x]
  BY DEF Connected, Goto
<1>4. /\ answer' \in [Nodes -> Seq(AnswerPkt)] /\ mcast' \in [Nodes -> Seq(McastPkt)]
      /\ joined' \subseteq Nodes /\ toServer' \in Seq(ServerPkt)
      /\ \A m \in Nodes : \A i \in 1..Len(mcast'[m]) :
           mcast'[m][i].type \in {"RX", "SR_RX"} => mcast'[m][i].src \in Nodes
      /\ \A m \in Nodes \ {n} : answer'[m] = answer[m]
      /\ pkt = answer[n][1] /\ pkt \in AnswerPkt /\ 1 \in 1..Len(answer[n])
  BY <1>1, <1>3, AnswerTail
<1>5. pkt.seq \in Nat /\ pkt \in ConnectedPkt
  <2>1. pkt \in ConnectedPkt
    BY <1>3, <1>4 DEF AnswerPkt
  <2> QED BY <2>1 DEF ConnectedPkt
<1>6. Become(n, s)
  <2>1. u = [Parts(n) EXCEPT !.w.seq = pkt.seq]
    BY <1>2 DEF PartsT, ClientT
  <2> QED BY <2>1 DEF Connected
<1>7. x \in PcT /\ x \in {"join", "run"}
  BY DEF PcT
<1>8. n \in active
  BY <1>1, <1>3, <1>4 DEF ConnectionOf
<1>9. up /\ pkt.seq = seq /\ pkt.rp_next = rpseq /\ pkt.rp_duration = duration
  BY <1>1, <1>3, <1>4, <1>8 DEF ConnectionOf
<1>10. n \notin joined /\ n \notin acked /\ n \notin killed /\ mcast[n] = <<>>
       /\ ~ machine[n].kill /\ ~ backup[n].kill
  BY <1>1, <1>3 DEF ConnectionOf, Early
<1> HIDE DEF pkt, x
<1>11. w \in ClientT /\ w.seq = pkt.seq /\ w.l_rp = wsens[n].l_rp
  BY <1>2, <1>5 DEF ClientT
<1> HIDE DEF w
<1>12. u \in PartsT /\ u.w = w /\ u.m = machine[n] /\ u.b = backup[n] /\ ~ u.failed
  BY <1>2, <1>11 DEF PartsT
<1>13. Dated(u)
  BY <1>2, <1>11, <1>12 DEF Dated
<1> HIDE DEF u
<1>14. s \in PartsT /\ Dated(s) /\ NewRp(u, s, pkt) /\ s.b = u.m /\ s.m = u.m
  BY <1>5, <1>12, <1>13, SavedRp
<1> HIDE DEF s
<1>15. /\ TypeInv' /\ wsens'[n] = s.w /\ machine'[n] = s.m /\ backup'[n] = s.b /\ pc'[n] = x
       /\ \A m \in Nodes \ {n} : pc'[m] = pc[m] /\ wsens'[m] = wsens[m]
                                 /\ machine'[m] = machine[m] /\ backup'[m] = backup[m]
  BY <1>1, <1>3, <1>4, <1>6, <1>7, <1>14, StepTypes
<1>16. /\ up' = up /\ seq' = seq /\ killed' = killed /\ active' = active /\ rpseq' = rpseq
       /\ duration' = duration /\ acked' = acked
  BY DEF srvVars
<1>17. /\ wsens'[n].seq = seq /\ wsens'[n].rpseq = rpseq
       /\ wsens'[n].n_rp = wsens'[n].l_rp + duration
       /\ ~ machine'[n].kill /\ ~ backup'[n].kill
  BY <1>9, <1>10, <1>11, <1>12, <1>14, <1>15 DEF NewRp
<1>18. ConnectionOf(n)'
  BY <1>3, <1>7, <1>8, <1>9, <1>10, <1>15, <1>16, <1>17 DEF ConnectionOf, Early
<1>19. Others(n)
  BY <1>3, <1>4, <1>15 DEF Others
<1>20. n \notin joined' /\ pc[n] # "closed" /\ pc[n] \in Early /\ Sent(n)
  BY <1>3, <1>10 DEF Early, Sent
<1> QED BY <1>3, <1>15, <1>18, <1>19, <1>20 DEF Stepped

LEMMA JoinStep ==
  ASSUME NEW n \in Nodes, IInv, Join(n), UNCHANGED srvVars
  PROVE  Stepped(n)
<1>1. TypeInv /\ ConnectionOf(n)
  BY DEF IInv, Connections
<1>2. /\ pc[n] = "join" /\ pc' = [pc EXCEPT ![n] = "run"] /\ joined' = joined \cup {n}
      /\ UNCHANGED <<toServer, answer, mcast>> /\ UNCHANGED <<program, wsens, machine, backup>>
      /\ "run" \in PcT
  BY DEF Join, Goto, PcT
<1>3. /\ n \in active /\ up /\ wsens[n].seq = seq /\ wsens[n].rpseq = rpseq
      /\ wsens[n].n_rp = wsens[n].l_rp + duration
      /\ n \notin joined /\ n \notin acked /\ n \notin killed /\ mcast[n] = <<>>
      /\ ~ machine[n].kill /\ ~ backup[n].kill
  BY <1>1, <1>2 DEF ConnectionOf, Early
<1>4. Become(n, Parts(n)) /\ Parts(n) \in PartsT /\ Dated(Parts(n))
      /\ Parts(n).w = wsens[n] /\ Parts(n).m = machine[n] /\ Parts(n).b = backup[n]
  BY <1>1, <1>2, StillParts
<1>5. /\ answer' \in [Nodes -> Seq(AnswerPkt)] /\ mcast' \in [Nodes -> Seq(McastPkt)]
      /\ joined' \subseteq Nodes /\ toServer' \in Seq(ServerPkt)
      /\ \A m \in Nodes : \A i \in 1..Len(mcast'[m]) :
           mcast'[m][i].type \in {"RX", "SR_RX"} => mcast'[m][i].src \in Nodes
  BY <1>1, <1>2 DEF TypeInv, TypeOK, CltTypeOK, NetType
<1>6. /\ TypeInv' /\ pc'[n] = "run"
      /\ \A m \in Nodes \ {n} : pc'[m] = pc[m] /\ wsens'[m] = wsens[m]
                                /\ machine'[m] = machine[m] /\ backup'[m] = backup[m]
  BY <1>1, <1>2, <1>4, <1>5, StepTypes
<1>7. /\ up' = up /\ seq' = seq /\ killed' = killed /\ active' = active /\ rpseq' = rpseq
      /\ duration' = duration /\ acked' = acked
  BY DEF srvVars
<1>8. Len(mcast'[n]) = 0 /\ seq \in Nat /\ rpseq \in Nat /\ wsens' = wsens
  BY <1>1, <1>2, <1>3 DEF TypeInv, TypeOK, SrvTypeOK
<1>9. NumbersOf(n)'
  BY <1>3, <1>7, <1>8 DEF NumbersOf, NumbersIn, InSeq
<1>10. MemberOf(n)'
  <2>1. LastChange(mcast'[n], 0, 0)
    BY DEF LastChange
  <2>2. Knows(wsens'[n], mcast'[n], 0, rpseq) /\ Distant(wsens'[n], mcast'[n], 0, duration)
    <3>1. 0 \in 0..0
      OBVIOUS
    <3> QED BY <1>3, <1>8, <2>1, <3>1 DEF Knows, Distant
  <2>3. /\ Grows(wsens'[n], mcast'[n], rpseq) /\ Reminded(wsens'[n], mcast'[n])
        /\ Released(mcast'[n], Waiting(n)') /\ Untold(mcast'[n], n)
    BY <1>3, <1>8 DEF Grows, Reminded, Released, Untold
  <2>4. wsens'[n].seq + Len(mcast'[n]) = seq
    BY <1>3, <1>8
  <2>5. GoodOf(wsens'[n], mcast'[n], n, Waiting(n)', seq', rpseq', duration')
    BY <1>7, <1>8, <2>2, <2>3, <2>4 DEF GoodOf
  <2>6. Good(n)'
    BY <1>2, <1>3, <2>5 DEF Good, GoodOf, Knows, Distant, Grows, Reminded, Released, Untold,
       Tells, Changing, LastChange
  <2>7. up' /\ n \in active' /\ n \notin killed'
    BY <1>3, <1>7
  <2> QED BY <2>6, <2>7 DEF MemberOf
<1>11. ConnectionOf(n)'
  BY <1>2, <1>6 DEF ConnectionOf, Early
<1>12. Others(n)
  BY <1>2, <1>6 DEF Others
<1>13. pc[n] # "closed" /\ pc[n] \in Early /\ pc[n] # "subscribe" /\ Sent(n)
  BY <1>2 DEF Early, Sent
<1> QED BY <1>6, <1>9, <1>10, <1>11, <1>12, <1>13 DEF Stepped

LEMMA CloseStep ==
  ASSUME NEW n \in Nodes, IInv, Close(n), UNCHANGED srvVars
  PROVE  Stepped(n)
<1>1. TypeInv
  BY DEF IInv
<1>2. /\ pc[n] = "run" /\ pc' = [pc EXCEPT ![n] = "closed"] /\ joined' = joined \ {n}
      /\ toServer' = Append(toServer, Plain(n, "DISCONNECT"))
      /\ mcast' = [mcast EXCEPT ![n] = <<>>] /\ answer' = answer
      /\ UNCHANGED <<program, wsens, machine, backup>> /\ "closed" \in PcT
  BY DEF Close, Goto, Send, PcT
<1>3. PICK p \in ServerPkt : p = Plain(n, "DISCONNECT")
  BY DEF Plain, ServerPkt
<1>4. p.type = "DISCONNECT" /\ p.node = n
  BY <1>3 DEF Plain
<1>5. toServer' \in Seq(ServerPkt)
  BY <1>1, <1>2, <1>3, AppendOf DEF TypeInv, NetType
<1>6. Become(n, Parts(n)) /\ Parts(n) \in PartsT /\ Dated(Parts(n))
      /\ Parts(n).w = wsens[n] /\ Parts(n).m = machine[n] /\ Parts(n).b = backup[n]
  BY <1>1, <1>2, StillParts
<1>7. /\ mcast' \in [Nodes -> Seq(McastPkt)] /\ mcast'[n] = <<>>
      /\ \A m \in Nodes \ {n} : mcast'[m] = mcast[m]
  <2>1. mcast \in [Nodes -> Seq(McastPkt)]
    BY <1>1 DEF TypeInv, NetType
  <2> QED BY <1>2, <2>1
<1>8. \A m \in Nodes : \A i \in 1..Len(mcast'[m]) :
        mcast'[m][i].type \in {"RX", "SR_RX"} => mcast'[m][i].src \in Nodes
  BY <1>1, <1>7 DEF TypeInv, NetType
<1>9. answer' \in [Nodes -> Seq(AnswerPkt)] /\ joined' \subseteq Nodes
  BY <1>1, <1>2 DEF TypeInv, TypeOK, CltTypeOK, NetType
<1>10. /\ TypeInv' /\ pc'[n] = "closed"
       /\ \A m \in Nodes \ {n} : pc'[m] = pc[m] /\ wsens'[m] = wsens[m]
                                 /\ machine'[m] = machine[m] /\ backup'[m] = backup[m]
  <2>1. pc' = [pc EXCEPT ![n] = "closed"] /\ "closed" \in PcT
    BY <1>2
  <2> QED BY <1>1, <1>5, <1>6, <1>7, <1>8, <1>9, <2>1, StepTypes
<1>11. ConnectionOf(n)'
  BY <1>2, <1>7, <1>10 DEF ConnectionOf, Early
<1>12. Others(n)
  BY <1>2, <1>7, <1>10 DEF Others
<1>13. PacketOf(p)'
  BY <1>4, <1>10 DEF PacketOf
<1>14. Sent(n)
  BY <1>2, <1>3, <1>4, <1>13 DEF Sent
<1>15. n \notin joined' /\ pc[n] # "closed" /\ pc[n] # "subscribe" /\ pc'[n] \notin Early
  BY <1>2, <1>10 DEF Early
<1> QED BY <1>10, <1>11, <1>12, <1>14, <1>15 DEF Stepped

LEMMA NodeSteps ==
  ASSUME NEW n \in Nodes, IInv, Node(n)
  PROVE  Stepped(n)
<1> USE DEF Node
<1>1. UNCHANGED srvVars
  OBVIOUS
<1>2. ASSUME UpdateParse(n) PROVE Stepped(n)
  <2>1. PICK x \in {"radio", "update", "check"} : pc' = [pc EXCEPT ![n] = x]
    BY <1>2 DEF UpdateParse, Goto
  <2> QED BY <1>1, <1>2, <2>1, ParseStep DEF UpdateParse
<1>3. ASSUME SyncParse(n) PROVE Stepped(n)
  <2> DEFINE t == Parsed(Parts(n), n, Head(mcast[n]))
             x == IF SyncDone(t) THEN "radio" ELSE "sync"
  <2>1. /\ pc[n] = "sync" /\ ParseNext(n) /\ pc' = [pc EXCEPT ![n] = x]
        /\ x \in {"radio", "update", "check", "sync", "run", "tx"}
    BY <1>3 DEF SyncParse, Goto
  <2>2. /\ t.w.state = "pending" /\ ~ t.failed => x = "sync"
        /\ t.w.state = "killed" \/ t.failed => x = "radio"
    <3> HIDE DEF t
    <3> QED BY DEF SyncDone
  <2> QED BY <1>1, <2>1, <2>2, ParseStep
<1>4. ASSUME TxParse(n) PROVE Stepped(n)
  <2> DEFINE t == Parsed(Parts(n), n, Head(mcast[n]))
             x == IF t.w.state = "idle" \/ t.failed THEN "run" ELSE "tx"
  <2>1. /\ pc[n] = "tx" /\ ParseNext(n) /\ pc' = [pc EXCEPT ![n] = x]
        /\ x \in {"radio", "update", "check", "sync", "run", "tx"}
    BY <1>4 DEF TxParse, Goto
  <2> QED BY <1>1, <2>1, ParseStep
<1> QED BY <1>1, <1>2, <1>3, <1>4, SubscribeStep, ConnectedStep, RefusedStep, JoinStep,
           InstructionStep, SyncStep, IdleStep, TransmitStep, CloseStep DEF CltStep

LEMMA NodeStep ==
  ASSUME NEW n \in Nodes, IInv, Node(n)
  PROVE  IInv'
  BY NodeSteps, SteppedKeeps

-----------------------------------------------------------------------------
(* What the server sends. *)

\* r is what the packets are once they are numbered.
NumberedAs(r, pkts) ==
  /\ r \in Seq(McastPkt) /\ Len(r) = Len(pkts)
  /\ \A i \in 1..Len(r) :
       /\ r[i].seq = seq + i - 1 /\ r[i].type = pkts[i].type /\ r[i].node = pkts[i].node
       /\ r[i].src = pkts[i].src /\ r[i].start = pkts[i].start
       /\ r[i].rp_next = pkts[i].rp_next /\ r[i].rp_duration = pkts[i].rp_duration

LEMMA NumberedKeeps ==
  ASSUME NEW pkts \in Seq(McastPkt), seq \in Nat
  PROVE  NumberedAs(Numbered(pkts), pkts)
<1> DEFINE r == Numbered(pkts)
<1>1. Len(pkts) \in Nat /\ r = [i \in 1..Len(pkts) |-> [pkts[i] EXCEPT !.seq = seq + i - 1]]
  BY DEF Numbered
<1>2. ASSUME NEW i \in 1..Len(pkts), NEW p, p = pkts[i], NEW t, t = [p EXCEPT !.seq = seq + i - 1]
      PROVE  /\ t \in McastPkt /\ t.seq = seq + i - 1 /\ t.type = p.type /\ t.node = p.node
             /\ t.src = p.src /\ t.start = p.start
             /\ t.rp_next = p.rp_next /\ t.rp_duration = p.rp_duration
  <2>1. p \in McastPkt /\ seq + i - 1 \in Nat
    BY <1>1, <1>2
  <2> QED BY <1>2, <2>1 DEF McastPkt
<1>3. ASSUME NEW i \in 1..Len(pkts)
      PROVE  /\ r[i] \in McastPkt /\ r[i].seq = seq + i - 1 /\ r[i].type = pkts[i].type
             /\ r[i].node = pkts[i].node /\ r[i].src = pkts[i].src /\ r[i].start = pkts[i].start
             /\ r[i].rp_next = pkts[i].rp_next /\ r[i].rp_duration = pkts[i].rp_duration
  <2>1. r[i] = [pkts[i] EXCEPT !.seq = seq + i - 1]
    BY <1>1
  <2> HIDE DEF r
  <2> QED BY <1>2, <2>1
<1>4. Len(r) = Len(pkts) /\ r \in Seq(McastPkt)
  <2>1. DOMAIN r = 1..Len(pkts) /\ r \in [1..Len(pkts) -> McastPkt]
    BY <1>1, <1>3
  <2> HIDE DEF r
  <2> QED BY <1>1, <2>1
<1> HIDE DEF r
<1>5. NumberedAs(r, pkts)
  BY <1>3, <1>4 DEF NumberedAs
<1> QED BY <1>5 DEF r

LEMMA MulticastEffect ==
  ASSUME TypeInv, NEW pkts \in Seq(McastPkt), Multicast(pkts),
         \A i \in 1..Len(pkts) : pkts[i].type \in {"RX", "SR_RX"} => pkts[i].src \in Nodes
  PROVE  \E r \in Seq(McastPkt) :
           /\ NumberedAs(r, pkts) /\ seq' = seq + Len(r) /\ seq' \in Nat
           /\ mcast' \in [Nodes -> Seq(McastPkt)]
           /\ \A n \in Nodes : /\ n \in joined => Joins(mcast'[n], mcast[n], r)
                               /\ n \notin joined => mcast'[n] = mcast[n]
           /\ \A n \in Nodes : \A i \in 1..Len(mcast'[n]) :
                mcast'[n][i].type \in {"RX", "SR_RX"} => mcast'[n][i].src \in Nodes
<1> DEFINE r == Numbered(pkts)
<1>1. mcast \in [Nodes -> Seq(McastPkt)] /\ seq \in Nat
  BY DEF TypeInv, TypeOK, SrvTypeOK, NetType
<1>2. NumberedAs(r, pkts)
  BY <1>1, NumberedKeeps
<1>3. mcast' = [n \in Nodes |-> IF n \in joined THEN mcast[n] \o r ELSE mcast[n]]
      /\ seq' = seq + Len(pkts)
  BY DEF Multicast
<1> HIDE DEF r
<1>4. r \in Seq(McastPkt) /\ Len(r) = Len(pkts) /\ Len(r) \in Nat
  BY <1>2 DEF NumberedAs
<1>5. ASSUME NEW n \in Nodes
      PROVE  /\ mcast'[n] \in Seq(McastPkt)
             /\ n \in joined => Joins(mcast'[n], mcast[n], r)
             /\ n \notin joined => mcast'[n] = mcast[n]
  <2>1. mcast[n] \in Seq(McastPkt)
    BY <1>1
  <2>2. Joins(mcast[n] \o r, mcast[n], r) /\ mcast[n] \o r \in Seq(McastPkt)
    BY <1>4, <2>1, ConcatJoins
  <2>3. CASE n \in joined
    BY <1>3, <2>2, <2>3
  <2>4. CASE n \notin joined
    BY <1>3, <2>1, <2>4
  <2> QED BY <2>3, <2>4
<1>6. mcast' \in [Nodes -> Seq(McastPkt)]
  BY <1>3, <1>5
<1>7. ASSUME NEW n \in Nodes, NEW i \in 1..Len(mcast'[n]), mcast'[n][i].type \in {"RX", "SR_RX"}
      PROVE  mcast'[n][i].src \in Nodes
  <2>1. Len(mcast[n]) \in Nat
    BY <1>1
  <2>2. CASE n \in joined /\ i > Len(mcast[n])
    <3>1. Joins(mcast'[n], mcast[n], r)
      BY <1>5, <2>2
    <3>2. i - Len(mcast[n]) \in 1..Len(r) /\ mcast'[n][i] = r[i - Len(mcast[n])]
      BY <1>4, <2>1, <2>2, <3>1, Behind
    <3>3. \A k \in 1..Len(r) : r[k].type \in {"RX", "SR_RX"} => r[k].src \in Nodes
      BY <1>2, <1>4 DEF NumberedAs
    <3> QED BY <1>7, <3>2, <3>3
  <2>3. CASE n \notin joined \/ i <= Len(mcast[n])
    <3>1. i \in 1..Len(mcast[n]) /\ mcast'[n][i] = mcast[n][i]
      BY <1>5, <2>1, <2>3 DEF Joins
    <3> QED BY <1>7, <3>1 DEF TypeInv, NetType
  <2> QED BY <2>1, <2>2, <2>3
<1>8. seq' = seq + Len(r) /\ seq' \in Nat
  BY <1>1, <1>3, <1>4
<1> QED BY <1>2, <1>4, <1>5, <1>6, <1>7, <1>8

\* What packets put behind a queue keep.
LEMMA NumbersJoin ==
  ASSUME NEW q \in Seq(McastPkt), NEW r \in Seq(McastPkt), NEW p, Joins(p, q, r),
         NEW w, w.seq \in Nat, NEW sq \in Nat, InSeq(w, q), w.seq + Len(q) = sq,
         \A i \in 1..Len(r) : r[i].seq = sq + i - 1
  PROVE  InSeq(w, p) /\ w.seq + Len(p) = sq + Len(r)
<1>1. Len(q) \in Nat /\ Len(r) \in Nat /\ Len(p) = Len(q) + Len(r)
  BY DEF Joins
<1>2. ASSUME NEW i \in 1..Len(p) PROVE p[i].seq = w.seq + i - 1
  <2>1. CASE i <= Len(q)
    <3>1. i \in 1..Len(q) /\ p[i] = q[i]
      BY <1>1, <2>1 DEF Joins
    <3> QED BY <3>1 DEF InSeq
  <2>2. CASE i > Len(q)
    <3>1. i - Len(q) \in 1..Len(r) /\ p[i] = r[i - Len(q)]
      BY <1>1, <2>2, Behind
    <3>2. p[i].seq = sq + (i - Len(q)) - 1
      BY <3>1
    <3> QED BY <1>1, <3>2
  <2> QED BY <1>1, <2>1, <2>2
<1>3. InSeq(w, p)
  BY <1>2 DEF InSeq
<1>4. w.seq + Len(p) = sq + Len(r)
  <2>1. \A a, b, c \in Nat : a + (b + c) = (a + b) + c
    OBVIOUS
  <2>2. w.seq + (Len(q) + Len(r)) = (w.seq + Len(q)) + Len(r)
    BY <1>1, <2>1
  <2> QED BY <1>1, <2>2
<1> QED BY <1>3, <1>4

LEMMA UntoldJoin ==
  ASSUME NEW q \in Seq(McastPkt), NEW r \in Seq(McastPkt), NEW p, Joins(p, q, r), NEW n,
         Untold(q, n), Untold(r, n)
  PROVE  Untold(p, n)
<1>1. Len(q) \in Nat /\ Len(r) \in Nat /\ Len(p) = Len(q) + Len(r)
  BY DEF Joins
<1>2. ASSUME NEW i \in 1..Len(p) PROVE ~ Tells(p[i], n)
  <2>1. CASE i <= Len(q)
    <3>1. i \in 1..Len(q) /\ p[i] = q[i]
      BY <1>1, <2>1 DEF Joins
    <3> QED BY <3>1 DEF Untold
  <2>2. CASE i > Len(q)
    <3>1. i - Len(q) \in 1..Len(r) /\ p[i] = r[i - Len(q)]
      BY <1>1, <2>2, Behind
    <3> QED BY <3>1 DEF Untold
  <2> QED BY <1>1, <2>1, <2>2
<1> QED BY <1>2 DEF Untold

\* A release is put behind the queue of a node that waits, with nothing before
\* it that lets the node go on.
LEMMA ReleasedJoin ==
  ASSUME NEW q \in Seq(McastPkt), NEW r \in Seq(McastPkt), NEW p, Joins(p, q, r),
         NEW a \in BOOLEAN, Released(q, a),
         \/ \A i \in 1..Len(r) : r[i].type # "SYNC_RELEASE"
         \/ /\ a /\ (\A i \in 1..Len(q) : ~ Changing(q[i]))
            /\ \A i \in 1..Len(r) : Changing(r[i]) <=> i = Len(r)
  PROVE  Released(p, a)
<1>1. Len(q) \in Nat /\ Len(r) \in Nat /\ Len(p) = Len(q) + Len(r)
      /\ \A i \in 1..Len(q) : p[i] = q[i]
  BY DEF Joins
<1>2. ASSUME NEW i \in 1..Len(p), p[i].type = "SYNC_RELEASE"
      PROVE  a /\ \A k \in 1..Len(p) : k < i => ~ Changing(p[k])
  <2>1. CASE i <= Len(q)
    <3>1. i \in 1..Len(q) /\ p[i] = q[i] /\ q[i].type = "SYNC_RELEASE"
      BY <1>1, <1>2, <2>1
    <3>2. a /\ \A k \in 1..Len(q) : k < i => ~ Changing(q[k])
      BY <3>1 DEF Released
    <3>3. ASSUME NEW k \in 1..Len(p), k < i PROVE ~ Changing(p[k])
      <4>1. k \in 1..Len(q) /\ p[k] = q[k]
        BY <1>1, <2>1, <3>3
      <4> QED BY <3>2, <3>3, <4>1
    <3> QED BY <3>2, <3>3
  <2>2. CASE i > Len(q)
    <3>1. i - Len(q) \in 1..Len(r) /\ p[i] = r[i - Len(q)]
      BY <1>1, <2>2, Behind
    <3>2. r[i - Len(q)].type = "SYNC_RELEASE"
      BY <1>2, <3>1
    <3>3. /\ a /\ (\A k \in 1..Len(q) : ~ Changing(q[k]))
          /\ \A k \in 1..Len(r) : Changing(r[k]) <=> k = Len(r)
      BY <3>1, <3>2
    <3>4. ASSUME NEW k \in 1..Len(p), k < i PROVE ~ Changing(p[k])
      <4>1. CASE k <= Len(q)
        <5>1. k \in 1..Len(q) /\ p[k] = q[k]
          BY <1>1, <4>1
        <5> QED BY <3>3, <5>1
      <4>2. CASE k > Len(q)
        <5>1. k - Len(q) \in 1..Len(r) /\ p[k] = r[k - Len(q)]
          BY <1>1, <4>2, Behind
        <5>2. k - Len(q) # Len(r)
          BY <1>1, <3>4, <4>2
        <5> QED BY <3>3, <5>1, <5>2
      <4> QED BY <1>1, <4>1, <4>2
    <3> QED BY <3>3, <3>4
  <2> QED BY <1>1, <2>1, <2>2
<1> QED BY <1>2 DEF Released

LEMMA DoomedJoin ==
  ASSUME NEW q \in Seq(McastPkt), NEW r \in Seq(McastPkt), NEW p, Joins(p, q, r), NEW n
  PROVE  /\ Doomed(q, n) => Doomed(p, n)
         /\ (\A i \in 1..Len(q) : ~ Changing(q[i])) /\ Doomed(r, n) => Doomed(p, n)
<1>1. Len(q) \in Nat /\ Len(r) \in Nat /\ Len(p) = Len(q) + Len(r)
      /\ \A i \in 1..Len(q) : p[i] = q[i]
  BY DEF Joins
<1>2. ASSUME NEW i \in 1..Len(q), Tells(q[i], n), \A k \in 1..Len(q) : k < i => ~ Changing(q[k])
      PROVE  Doomed(p, n)
  <2>1. i \in 1..Len(p) /\ p[i] = q[i]
    BY <1>1
  <2>2. ASSUME NEW k \in 1..Len(p), k < i PROVE ~ Changing(p[k])
    <3>1. k \in 1..Len(q) /\ p[k] = q[k]
      BY <1>1, <2>2
    <3> QED BY <1>2, <2>2, <3>1
  <2> QED BY <1>2, <2>1, <2>2 DEF Doomed
<1>3. ASSUME \A k \in 1..Len(q) : ~ Changing(q[k]),
             NEW i \in 1..Len(r), Tells(r[i], n), \A k \in 1..Len(r) : k < i => ~ Changing(r[k])
      PROVE  Doomed(p, n)
  <2>1. Len(q) + i \in 1..Len(p) /\ p[Len(q) + i] = r[i]
    BY <1>1 DEF Joins
  <2>2. ASSUME NEW k \in 1..Len(p), k < Len(q) + i PROVE ~ Changing(p[k])
    <3>1. CASE k <= Len(q)
      <4>1. k \in 1..Len(q) /\ p[k] = q[k]
        BY <1>1, <3>1
      <4> QED BY <1>3, <4>1
    <3>2. CASE k > Len(q)
      <4>1. k - Len(q) \in 1..Len(r) /\ p[k] = r[k - Len(q)]
        BY <1>1, <3>2, Behind
      <4>2. k - Len(q) < i
        BY <1>1, <2>2, <3>2
      <4> QED BY <1>3, <4>1, <4>2
    <3> QED BY <1>1, <3>1, <3>2
  <2> QED BY <1>3, <2>1, <2>2 DEF Doomed
<1> QED BY <1>2, <1>3 DEF Doomed

\* Ended(r): the last packet lets the nodes that wait go on, and none before it
\* takes them back.
Ended(r) ==
  /\ r # <<>> /\ r[Len(r)].type \in {"SYNC_RELEASE", "SR_RX"}
  /\ \A i \in 1..Len(r) : r[i].type # "BACKTRACK"

LEMMA KeepsOnJoin ==
  ASSUME NEW q \in Seq(McastPkt), NEW r \in Seq(McastPkt), NEW p, Joins(p, q, r), up
  PROVE  /\ KeepsOn(q) => \E k \in 1..Len(p) : /\ p[k].type \in {"SYNC_RELEASE", "SR_RX"}
                             /\ \A j \in 1..Len(p) : j < k => p[j].type # "BACKTRACK"
         /\ (\A i \in 1..Len(q) : q[i].type # "BACKTRACK") /\ Ended(r) =>
              \E k \in 1..Len(p) : /\ p[k].type \in {"SYNC_RELEASE", "SR_RX"}
                             /\ \A j \in 1..Len(p) : j < k => p[j].type # "BACKTRACK"
<1>1. Len(q) \in Nat /\ Len(r) \in Nat /\ Len(p) = Len(q) + Len(r)
      /\ \A i \in 1..Len(q) : p[i] = q[i]
  BY DEF Joins
<1>2. ASSUME NEW k \in 1..Len(q), q[k].type \in {"SYNC_RELEASE", "SR_RX"},
             \A j \in 1..Len(q) : j < k => q[j].type # "BACKTRACK"
      PROVE  /\ k \in 1..Len(p) /\ p[k].type \in {"SYNC_RELEASE", "SR_RX"}
             /\ \A j \in 1..Len(p) : j < k => p[j].type # "BACKTRACK"
  <2>1. k \in 1..Len(p) /\ p[k] = q[k]
    BY <1>1
  <2>2. ASSUME NEW j \in 1..Len(p), j < k PROVE p[j].type # "BACKTRACK"
    <3>1. j \in 1..Len(q) /\ p[j] = q[j]
      BY <1>1, <2>2
    <3> QED BY <1>2, <2>2, <3>1
  <2> QED BY <1>2, <2>1, <2>2
<1>3. ASSUME \A i \in 1..Len(q) : q[i].type # "BACKTRACK", Ended(r)
      PROVE  /\ Len(p) \in 1..Len(p) /\ p[Len(p)].type \in {"SYNC_RELEASE", "SR_RX"}
             /\ \A j \in 1..Len(p) : j < Len(p) => p[j].type # "BACKTRACK"
  <2>1. Len(r) \in 1..Len(r)
    BY <1>1, <1>3 DEF Ended
  <2>2. Len(p) \in 1..Len(p) /\ p[Len(p)] = r[Len(r)]
    BY <1>1, <2>1 DEF Joins
  <2>3. ASSUME NEW j \in 1..Len(p) PROVE p[j].type # "BACKTRACK"
    <3>1. CASE j <= Len(q)
      <4>1. j \in 1..Len(q) /\ p[j] = q[j]
        BY <1>1, <3>1
      <4> QED BY <1>3, <4>1
    <3>2. CASE j > Len(q)
      <4>1. j - Len(q) \in 1..Len(r) /\ p[j] = r[j - Len(q)]
        BY <1>1, <3>2, Behind
      <4> QED BY <1>3, <4>1 DEF Ended
    <3> QED BY <1>1, <3>1, <3>2
  <2> QED BY <1>3, <2>2, <2>3 DEF Ended
<1> QED BY <1>2, <1>3 DEF KeepsOn

-----------------------------------------------------------------------------
(* The steps of the server. *)

LEMMA SrvStepTypes ==
  ASSUME TypeInv, UNCHANGED cltVars, joined' = joined, toServer' \in Seq(ServerPkt),
         answer' \in [Nodes -> Seq(AnswerPkt)], mcast' \in [Nodes -> Seq(McastPkt)],
         \A n \in Nodes : \A i \in 1..Len(mcast'[n]) :
           mcast'[n][i].type \in {"RX", "SR_RX"} => mcast'[n][i].src \in Nodes,
         SrvTypeOK', IsFiniteSet(air')
  PROVE  TypeInv'
<1>1. CltTypeOK'
  BY DEF TypeInv, TypeOK, CltTypeOK, cltVars
<1>2. Dates'
  BY DEF TypeInv, Dates, cltVars
<1>3. NetType'
  BY DEF NetType
<1> QED BY <1>1, <1>2, <1>3 DEF TypeInv, TypeOK

\* The server has received the first packet.
LEMMA OnTheWayRest ==
  ASSUME IInv, toServer # <<>>, toServer' = Tail(toServer),
         \A p \in ServerPkt :
           (PacketOf(p)
              /\ ~ (p.type = "CONNECT_REQ" /\ Head(toServer).type = "CONNECT_REQ"
                     /\ p.node = Head(toServer).node))
             => PacketOf(p)'
  PROVE  OnTheWay' /\ toServer' \in Seq(ServerPkt)
<1>1. toServer \in Seq(ServerPkt)
  BY DEF IInv, TypeInv, NetType
<1>2. /\ Head(toServer) = toServer[1] /\ 1 \in 1..Len(toServer) /\ Len(toServer) \in Nat
      /\ toServer' \in Seq(ServerPkt) /\ Len(toServer') = Len(toServer) - 1
      /\ \A i \in 1..Len(toServer') : toServer'[i] = toServer[i + 1]
  BY <1>1, TailOf
<1>3. ASSUME NEW i \in 1..Len(toServer') PROVE PacketOf(toServer[i])'
  <2>1. i + 1 \in 1..Len(toServer) /\ i + 1 # 1
    BY <1>2
  <2>2. PICK p \in ServerPkt : p = toServer[i + 1]
    BY <1>1, <2>1
  <2>3. PacketOf(p)
    BY <2>1, <2>2 DEF IInv, OnTheWay
  <2>4. ~ (p.type = "CONNECT_REQ" /\ Head(toServer).type = "CONNECT_REQ"
             /\ p.node = Head(toServer).node)
    BY <1>2, <2>1, <2>2 DEF IInv, OnTheWay
  <2>5. PacketOf(p)'
    BY <2>3, <2>4
  <2>6. toServer'[i] = p
    BY <1>2, <2>2
  <2> QED BY <2>5, <2>6
<1>4. ASSUME NEW i \in 1..Len(toServer'), NEW j \in 1..Len(toServer'),
             toServer'[i].type = "CONNECT_REQ", toServer'[j].type = "CONNECT_REQ",
             toServer'[i].node = toServer'[j].node
      PROVE  i = j
  <2>1. /\ i + 1 \in 1..Len(toServer) /\ j + 1 \in 1..Len(toServer)
        /\ toServer[i + 1].type = "CONNECT_REQ" /\ toServer[j + 1].type = "CONNECT_REQ"
        /\ toServer[i + 1].node = toServer[j + 1].node
    BY <1>2, <1>4
  <2>2. i + 1 = j + 1
    BY <2>1 DEF IInv, OnTheWay
  <2> QED BY <2>2
<1> QED BY <1>2, <1>3, <1>4 DEF OnTheWay

\* What a request of n brings the server to.
LEMMA FromFacts ==
  ASSUME IInv, NEW n \in Nodes, NEW type, From(n, type)
  PROVE  /\ up /\ toServer # <<>> /\ toServer' = Tail(toServer) /\ joined' = joined
         /\ UNCHANGED cltVars /\ Head(toServer) \in ServerPkt /\ PacketOf(Head(toServer))
         /\ Head(toServer).type = type /\ Head(toServer).node = n
<1>1. toServer \in Seq(ServerPkt) /\ toServer # <<>>
  BY DEF IInv, TypeInv, NetType, From
<1>2. Head(toServer) = toServer[1] /\ 1 \in 1..Len(toServer) /\ toServer[1] \in ServerPkt
  BY <1>1, TailOf
<1> QED BY <1>2 DEF From, IInv, OnTheWay

\* Nodes whose packets and numbers the server leaves alone.
LEMMA SrvLeaves ==
  ASSUME UNCHANGED cltVars, joined' = joined, NEW m, mcast'[m] = mcast[m],
         UNCHANGED <<duration, rpseq, seq, killed, up>>, m \in active => m \in active'
  PROVE  /\ NumbersOf(m) => NumbersOf(m)'
         /\ MemberOf(m) => MemberOf(m)'
         /\ Waiting(m) <=> Waiting(m)'
<1>1. /\ pc' = pc /\ wsens' = wsens /\ machine' = machine /\ backup' = backup
      /\ duration' = duration /\ rpseq' = rpseq /\ seq' = seq /\ killed' = killed /\ up' = up
  BY DEF cltVars
<1>2. NumbersOf(m) => NumbersOf(m)'
  BY <1>1 DEF NumbersOf, NumbersIn, InSeq
<1>3. Waiting(m) <=> Waiting(m)'
  BY <1>1 DEF Waiting
<1>4. Leaving(m) => Leaving(m)'
  BY <1>1, <1>3 DEF Leaving, KeepsOn, Doomed, Tells, Changing
<1>5. Good(m) => Good(m)'
  BY <1>1, <1>3 DEF Good, GoodOf, Knows, Distant, Grows, Reminded, Released, Untold, Tells,
     Changing, LastChange
<1>6. MemberOf(m) => MemberOf(m)'
  BY <1>1, <1>4, <1>5 DEF MemberOf
<1> QED BY <1>2, <1>3, <1>6

LEMMA PacketLeft ==
  ASSUME UNCHANGED cltVars, joined' = joined, NEW p \in ServerPkt, PacketOf(p),
         p.type = "CONNECT_REQ" => answer'[p.node] = answer[p.node] /\ p.node \notin active',
         killed \subseteq killed',
         \/ rpseq' = rpseq
         \/ p.type = "SYNC_ACK" /\ p.node \in joined \ killed' => p.rp_id # rpseq'
  PROVE  PacketOf(p)'
<1>1. pc' = pc /\ wsens' = wsens
  BY DEF cltVars
<1>2. Waiting(p.node) <=> Waiting(p.node)'
  BY <1>1 DEF Waiting
<1>3. p.type = "CONNECT_REQ" =>
        pc'[p.node] = "subscribe" /\ answer'[p.node] = <<>> /\ p.node \notin active'
  BY <1>1 DEF PacketOf
<1>4. p.type = "DISCONNECT" => pc'[p.node] = "closed"
  BY <1>1 DEF PacketOf
<1>5. p.type = "BYTE_TX" => \A m \in Nodes : pc'[m] \notin Early
  BY <1>1 DEF PacketOf
<1>6. p.type = "SYNC_ACK" =>
       /\ pc'[p.node] \notin Early
       /\ p.node \in joined' \ killed' =>
            p.rp_id <= wsens'[p.node].rpseq /\ (p.rp_id = rpseq' => Waiting(p.node)')
  BY <1>1, <1>2 DEF PacketOf
<1> QED BY <1>3, <1>4, <1>5, <1>6 DEF PacketOf

LEMMA GrantStep ==
  ASSUME IInv, NEW n \in Nodes, NEW names \in Models, Grant(n, names)
  PROVE  IInv'
<1>1. /\ up /\ toServer # <<>> /\ toServer' = Tail(toServer) /\ joined' = joined
      /\ UNCHANGED cltVars /\ Head(toServer) \in ServerPkt /\ PacketOf(Head(toServer))
      /\ Head(toServer).type = "CONNECT_REQ" /\ Head(toServer).node = n
  BY FromFacts DEF Grant
<1>2. pc[n] = "subscribe" /\ answer[n] = <<>> /\ n \notin active
  BY <1>1 DEF PacketOf
<1>3. TypeInv /\ ConnectionOf(n) /\ Members /\ Acked
  BY DEF IInv, Connections
<1>4. n \notin joined /\ n \notin acked /\ n \notin killed
  BY <1>2, <1>3 DEF ConnectionOf, Early
<1>5. /\ active' = active \cup {n} /\ met' = met \cup {n}
      /\ UNCHANGED <<mcast, acked, last, duration, rpseq, seq, air, heard, killed, up>>
  BY DEF Grant
<1>6. PICK a \in ConnectedPkt :
        /\ a.type = "CONNECT_RSP_OK" /\ a.seq = seq /\ a.rp_next = rpseq /\ a.rp_duration = duration
        /\ answer' = [answer EXCEPT ![n] = Append(@, a)]
  <2> DEFINE a == [type |-> "CONNECT_RSP_OK", seq |-> seq, rp_next |-> rpseq,
                   rp_duration |-> duration, names |-> names]
  <2>1. a \in ConnectedPkt
    BY <1>3 DEF TypeInv, TypeOK, SrvTypeOK, ConnectedPkt
  <2>2. answer' = [answer EXCEPT ![n] = Append(@, a)]
    BY DEF Grant
  <2>3. a.type = "CONNECT_RSP_OK" /\ a.seq = seq /\ a.rp_next = rpseq /\ a.rp_duration = duration
    OBVIOUS
  <2> HIDE DEF a
  <2> QED BY <2>1, <2>2, <2>3
<1>7. /\ answer' \in [Nodes -> Seq(AnswerPkt)] /\ answer'[n] # <<>> /\ answer'[n][1] = a
      /\ \A m \in Nodes \ {n} : answer'[m] = answer[m]
  <2>1. answer \in [Nodes -> Seq(AnswerPkt)] /\ a \in AnswerPkt
    BY <1>3 DEF TypeInv, NetType, AnswerPkt
  <2>2. Append(answer[n], a) \in Seq(AnswerPkt) /\ Append(answer[n], a)[1] = a
        /\ Append(answer[n], a) # <<>>
    BY <1>2, <2>1
  <2> QED BY <1>6, <2>1, <2>2
<1>8. OnTheWay' /\ toServer' \in Seq(ServerPkt)
  <2>1. ASSUME NEW p \in ServerPkt, PacketOf(p),
               ~ (p.type = "CONNECT_REQ" /\ p.node = n)
        PROVE  PacketOf(p)'
    <3>1. p.node \in Nodes
      BY DEF ServerPkt
    <3>2. p.type = "CONNECT_REQ" => p.node # n /\ p.node \notin active
      BY <2>1 DEF PacketOf
    <3>3. p.type = "CONNECT_REQ" => answer'[p.node] = answer[p.node] /\ p.node \notin active'
      BY <1>5, <1>7, <3>1, <3>2
    <3>4. killed \subseteq killed' /\ rpseq' = rpseq
      BY <1>5
    <3>5. UNCHANGED cltVars /\ joined' = joined
      BY <1>1
    <3> QED BY <2>1, <3>3, <3>4, <3>5, PacketLeft
  <2> QED BY <1>1, <2>1, OnTheWayRest
<1>9. TypeInv'
  <2>1. SrvTypeOK' /\ IsFiniteSet(air')
    BY <1>3, <1>5 DEF TypeInv, TypeOK, SrvTypeOK
  <2>2. mcast' \in [Nodes -> Seq(McastPkt)]
        /\ \A m \in Nodes : \A i \in 1..Len(mcast'[m]) :
             mcast'[m][i].type \in {"RX", "SR_RX"} => mcast'[m][i].src \in Nodes
    BY <1>3, <1>5 DEF TypeInv, NetType
  <2> QED BY <1>1, <1>3, <1>7, <1>8, <2>1, <2>2, SrvStepTypes
<1>10. ASSUME NEW m \in joined PROVE NumbersOf(m)' /\ MemberOf(m)'
  <2>1. NumbersOf(m) /\ MemberOf(m)
    BY <1>3 DEF Members
  <2>2. /\ mcast' = mcast /\ (m \in active => m \in active')
        /\ UNCHANGED <<duration, rpseq, seq, killed, up>>
    BY <1>5
  <2> QED BY <1>1, <2>1, <2>2, SrvLeaves
<1>11. Members'
  BY <1>1, <1>10 DEF Members
<1>12. ASSUME NEW m \in Nodes PROVE ConnectionOf(m)'
  <2>1. CASE m = n
    BY <1>1, <1>2, <1>3, <1>4, <1>5, <1>6, <1>7, <2>1 DEF ConnectionOf, Early, cltVars
  <2>2. CASE m # n
    <3>1. ConnectionOf(m)
      BY DEF IInv, Connections
    <3> QED BY <1>1, <1>5, <1>7, <2>2, <3>1 DEF ConnectionOf, Early, cltVars
  <2> QED BY <2>1, <2>2
<1>13. Connections'
  BY <1>4, <1>5, <1>12 DEF IInv, Connections
<1>14. Acked'
  BY <1>1, <1>3, <1>5 DEF Acked, AckedOf, Waiting, cltVars
<1> QED BY <1>8, <1>9, <1>11, <1>13, <1>14 DEF IInv

LEMMA RefuseStep ==
  ASSUME IInv, NEW n \in Nodes, Refuse(n)
  PROVE  IInv'
<1>1. /\ up /\ toServer # <<>> /\ toServer' = Tail(toServer) /\ joined' = joined
      /\ UNCHANGED cltVars /\ Head(toServer) \in ServerPkt /\ PacketOf(Head(toServer))
      /\ Head(toServer).type = "CONNECT_REQ" /\ Head(toServer).node = n
  BY FromFacts DEF Refuse
<1>2. pc[n] = "subscribe" /\ answer[n] = <<>> /\ n \notin active
  BY <1>1 DEF PacketOf
<1>3. TypeInv /\ ConnectionOf(n) /\ Members /\ Acked
  BY DEF IInv, Connections
<1>4. met' = met \cup {n}
      /\ UNCHANGED <<mcast, active, acked, last, duration, rpseq, seq, air, heard, killed, up>>
  BY DEF Refuse
<1>5. PICK a \in AnswerPkt :
        a.type = "CONNECT_RSP_NOK" /\ answer' = [answer EXCEPT ![n] = Append(@, a)]
  BY DEF Refuse, AnswerPkt
<1>6. /\ answer' \in [Nodes -> Seq(AnswerPkt)] /\ answer'[n] = <<a>>
      /\ \A m \in Nodes \ {n} : answer'[m] = answer[m]
  <2>1. answer \in [Nodes -> Seq(AnswerPkt)]
    BY <1>3 DEF TypeInv, NetType
  <2>2. Append(answer[n], a) \in Seq(AnswerPkt) /\ Append(answer[n], a) = <<a>>
    BY <1>2, <2>1
  <2> QED BY <1>5, <2>1, <2>2
<1>7. OnTheWay' /\ toServer' \in Seq(ServerPkt)
  <2>1. ASSUME NEW p \in ServerPkt, PacketOf(p),
               ~ (p.type = "CONNECT_REQ" /\ p.node = n)
        PROVE  PacketOf(p)'
    <3>1. p.node \in Nodes
      BY DEF ServerPkt
    <3>2. p.type = "CONNECT_REQ" => p.node # n /\ p.node \notin active
      BY <2>1 DEF PacketOf
    <3>3. p.type = "CONNECT_REQ" => answer'[p.node] = answer[p.node] /\ p.node \notin active'
      BY <1>4, <1>6, <3>1, <3>2
    <3>4. killed \subseteq killed' /\ rpseq' = rpseq
      BY <1>4
    <3>5. UNCHANGED cltVars /\ joined' = joined
      BY <1>1
    <3> QED BY <2>1, <3>3, <3>4, <3>5, PacketLeft
  <2> QED BY <1>1, <2>1, OnTheWayRest
<1>8. TypeInv'
  <2>1. SrvTypeOK' /\ IsFiniteSet(air')
    BY <1>3, <1>4 DEF TypeInv, TypeOK, SrvTypeOK
  <2>2. mcast' \in [Nodes -> Seq(McastPkt)]
        /\ \A m \in Nodes : \A i \in 1..Len(mcast'[m]) :
             mcast'[m][i].type \in {"RX", "SR_RX"} => mcast'[m][i].src \in Nodes
    BY <1>3, <1>4 DEF TypeInv, NetType
  <2> QED BY <1>1, <1>3, <1>6, <1>7, <2>1, <2>2, SrvStepTypes
<1>9. ASSUME NEW m \in joined PROVE NumbersOf(m)' /\ MemberOf(m)'
  <2>1. NumbersOf(m) /\ MemberOf(m)
    BY <1>3 DEF Members
  <2>2. /\ mcast' = mcast /\ (m \in active => m \in active')
        /\ UNCHANGED <<duration, rpseq, seq, killed, up>>
    BY <1>4
  <2> QED BY <1>1, <2>1, <2>2, SrvLeaves
<1>10. Members'
  BY <1>1, <1>9 DEF Members
<1>11. ASSUME NEW m \in Nodes PROVE ConnectionOf(m)'
  <2>1. CASE m = n
    <3>1. \A i \in 1..Len(answer'[n]) : answer'[n][i].type = "CONNECT_RSP_NOK"
      BY <1>5, <1>6
    <3> QED BY <1>1, <1>2, <1>3, <1>4, <2>1, <3>1 DEF ConnectionOf, Early, cltVars
  <2>2. CASE m # n
    <3>1. ConnectionOf(m)
      BY DEF IInv, Connections
    <3> QED BY <1>1, <1>4, <1>6, <2>2, <3>1 DEF ConnectionOf, Early, cltVars
  <2> QED BY <2>1, <2>2
<1>12. Connections'
  BY <1>4, <1>11 DEF IInv, Connections
<1>13. Acked'
  BY <1>1, <1>3, <1>4 DEF Acked, AckedOf, Waiting, cltVars
<1> QED BY <1>7, <1>8, <1>10, <1>12, <1>13 DEF IInv

\* A request of a node that has joined, or will not: only what the server knows
\* of the acknowledgements and of the active nodes may change.
LEMMA RequestStep ==
  ASSUME IInv, NEW n \in Nodes, NEW type, From(n, type), type # "CONNECT_REQ",
         UNCHANGED <<answer, mcast, met, last, duration, rpseq, seq, air, heard, killed, up>>,
         active' \subseteq active, active \ {n} \subseteq active',
         n \in active \ active' => n \notin joined /\ pc[n] \notin Early,
         acked' \subseteq active', acked' \subseteq Nodes,
         \A m \in acked' : AckedOf(m)' /\ pc[m] \notin Early
  PROVE  IInv'
<1>1. /\ up /\ toServer # <<>> /\ toServer' = Tail(toServer) /\ joined' = joined
      /\ UNCHANGED cltVars /\ Head(toServer).type = type /\ Head(toServer).node = n
  BY FromFacts
<1>2. TypeInv /\ Members /\ Connections
  BY DEF IInv
<1>3. /\ answer' = answer /\ mcast' = mcast /\ duration' = duration /\ rpseq' = rpseq
      /\ seq' = seq /\ killed' = killed /\ up' = up /\ pc' = pc /\ machine' = machine
      /\ backup' = backup /\ wsens' = wsens
  BY <1>1 DEF cltVars
<1>4. OnTheWay' /\ toServer' \in Seq(ServerPkt)
  <2>1. ASSUME NEW p \in ServerPkt, PacketOf(p) PROVE PacketOf(p)'
    <3>1. p.type = "CONNECT_REQ" => answer'[p.node] = answer[p.node] /\ p.node \notin active'
      BY <1>3, <2>1 DEF PacketOf
    <3>2. UNCHANGED cltVars /\ joined' = joined /\ killed \subseteq killed' /\ rpseq' = rpseq
      BY <1>1, <1>3
    <3> QED BY <2>1, <3>1, <3>2, PacketLeft
  <2> QED BY <1>1, <2>1, OnTheWayRest
<1>5. TypeInv'
  <2>1. SrvTypeOK' /\ IsFiniteSet(air')
    BY <1>2 DEF TypeInv, TypeOK, SrvTypeOK
  <2>2. /\ answer' \in [Nodes -> Seq(AnswerPkt)] /\ mcast' \in [Nodes -> Seq(McastPkt)]
        /\ \A m \in Nodes : \A i \in 1..Len(mcast'[m]) :
             mcast'[m][i].type \in {"RX", "SR_RX"} => mcast'[m][i].src \in Nodes
    BY <1>2, <1>3 DEF TypeInv, NetType
  <2> QED BY <1>1, <1>2, <1>4, <2>1, <2>2, SrvStepTypes
<1>6. ASSUME NEW m \in joined PROVE NumbersOf(m)' /\ MemberOf(m)'
  <2>1. NumbersOf(m) /\ MemberOf(m)
    BY <1>2 DEF Members
  <2>2. m \in active => m \in active'
    OBVIOUS
  <2>3. mcast'[m] = mcast[m] /\ UNCHANGED <<duration, rpseq, seq, killed, up>>
    BY <1>3
  <2>4. UNCHANGED cltVars /\ joined' = joined
    BY <1>1
  <2> QED BY <2>1, <2>2, <2>3, <2>4, SrvLeaves
<1>7. Members'
  BY <1>1, <1>6 DEF Members
<1>8. ASSUME NEW m \in Nodes PROVE ConnectionOf(m)'
  <2>1. ConnectionOf(m)
    BY <1>2 DEF Connections
  <2>2. pc[m] \in Early => m \notin acked' /\ (m \in active <=> m \in active')
    OBVIOUS
  <2> QED BY <1>1, <1>3, <2>1, <2>2 DEF ConnectionOf, Early
<1>9. Connections'
  BY <1>2, <1>3, <1>8 DEF Connections
<1>10. Acked'
  BY DEF Acked
<1> QED BY <1>4, <1>5, <1>7, <1>9, <1>10 DEF IInv

LEMMA AckStep ==
  ASSUME IInv, NEW n \in Nodes, Ack(n)
  PROVE  IInv'
<1>1. /\ UNCHANGED cltVars /\ Head(toServer) \in ServerPkt /\ PacketOf(Head(toServer))
      /\ Head(toServer).type = "SYNC_ACK" /\ Head(toServer).node = n /\ joined' = joined
  BY FromFacts DEF Ack
<1>2. /\ From(n, "SYNC_ACK") /\ active' = active
      /\ acked' = IF Head(toServer).rp_id = rpseq /\ n \in active THEN acked \cup {n} ELSE acked
      /\ UNCHANGED <<answer, mcast, met, last, duration, rpseq, seq, air, heard, killed, up>>
  BY DEF Ack
<1>3. TypeInv /\ Members /\ Connections /\ Acked
  BY DEF IInv
<1>4. ASSUME NEW m \in Nodes, AckedOf(m) PROVE AckedOf(m)'
  BY <1>1, <1>2, <1>4 DEF AckedOf, Waiting, cltVars
<1>5. ASSUME NEW m \in acked PROVE AckedOf(m)' /\ pc[m] \notin Early
  <2>1. m \in Nodes /\ AckedOf(m) /\ ConnectionOf(m)
    BY <1>3 DEF TypeInv, TypeOK, SrvTypeOK, Acked, Connections
  <2> QED BY <1>4, <2>1 DEF ConnectionOf
<1>6. ASSUME Head(toServer).rp_id = rpseq, n \in active
      PROVE  AckedOf(n)' /\ pc[n] \notin Early
  <2>1. pc[n] \notin Early
    BY <1>1 DEF PacketOf
  <2>2. ASSUME n \in joined \ killed PROVE Waiting(n) /\ wsens[n].rpseq = rpseq
    <3>1. rpseq <= wsens[n].rpseq /\ Waiting(n)
      BY <1>1, <1>6, <2>2 DEF PacketOf
    <3>2. Good(n)
      BY <1>3, <2>2 DEF Members, MemberOf
    <3>3. wsens[n].rpseq <= rpseq
      BY <3>2 DEF Good, GoodOf, Grows
    <3>4. wsens[n].rpseq \in Nat /\ rpseq \in Nat
      BY <1>3 DEF TypeInv, TypeOK, CltTypeOK, SrvTypeOK
    <3> QED BY <3>1, <3>3, <3>4
  <2>3. AckedOf(n)
    BY <2>2 DEF AckedOf
  <2> QED BY <1>4, <2>1, <2>3
<1>7. \A m \in acked' : AckedOf(m)' /\ pc[m] \notin Early
  BY <1>2, <1>5, <1>6
<1>8. acked' \subseteq active' /\ acked' \subseteq Nodes
  BY <1>2, <1>3 DEF TypeInv, TypeOK, SrvTypeOK, Connections
<1> QED BY <1>2, <1>7, <1>8, RequestStep

LEMMA TxDroppedStep ==
  ASSUME IInv, NEW n \in Nodes, TxDropped(n)
  PROVE  IInv'
<1>1. UNCHANGED cltVars /\ joined' = joined
  BY FromFacts DEF TxDropped
<1>2. /\ From(n, "BYTE_TX") /\ active' = active /\ acked' = acked
      /\ UNCHANGED <<answer, mcast, met, last, duration, rpseq, seq, air, heard, killed, up>>
  BY DEF TxDropped, srvVars
<1>3. TypeInv /\ Connections /\ Acked
  BY DEF IInv
<1>4. ASSUME NEW m \in acked PROVE AckedOf(m)' /\ pc[m] \notin Early
  <2>1. m \in Nodes /\ AckedOf(m) /\ ConnectionOf(m)
    BY <1>3 DEF TypeInv, TypeOK, SrvTypeOK, Acked, Connections
  <2> QED BY <1>1, <1>2, <2>1 DEF ConnectionOf, AckedOf, Waiting, cltVars
<1>5. acked' \subseteq active' /\ acked' \subseteq Nodes
  BY <1>2, <1>3 DEF TypeInv, TypeOK, SrvTypeOK, Connections
<1> QED BY <1>2, <1>4, <1>5, RequestStep

LEMMA DisconnectStep ==
  ASSUME IInv, NEW n \in Nodes, Disconnect(n)
  PROVE  IInv'
<1>1. /\ UNCHANGED cltVars /\ joined' = joined /\ PacketOf(Head(toServer))
      /\ Head(toServer).type = "DISCONNECT" /\ Head(toServer).node = n
  BY FromFacts DEF Disconnect
<1>2. /\ From(n, "DISCONNECT") /\ active' = active \ {n} /\ acked' = acked \ {n}
      /\ UNCHANGED <<answer, mcast, met, last, duration, rpseq, seq, air, heard, killed, up>>
  BY DEF Disconnect
<1>3. TypeInv /\ Connections /\ Acked
  BY DEF IInv
<1>4. ASSUME NEW m \in acked PROVE AckedOf(m)' /\ pc[m] \notin Early
  <2>1. m \in Nodes /\ AckedOf(m) /\ ConnectionOf(m)
    BY <1>3 DEF TypeInv, TypeOK, SrvTypeOK, Acked, Connections
  <2> QED BY <1>1, <1>2, <2>1 DEF ConnectionOf, AckedOf, Waiting, cltVars
<1>5. acked' \subseteq active' /\ acked' \subseteq Nodes
  BY <1>2, <1>3 DEF TypeInv, TypeOK, SrvTypeOK, Connections
<1>6. pc[n] = "closed" /\ n \notin joined /\ pc[n] \notin Early
  BY <1>1, <1>3 DEF PacketOf, Connections, ConnectionOf, Early
<1> QED BY <1>2, <1>4, <1>5, <1>6, RequestStep

-----------------------------------------------------------------------------
(* The packets the server multicasts. *)

LEMMA LeavingStays ==
  ASSUME up, UNCHANGED cltVars, NEW m, mcast[m] \in Seq(McastPkt), NEW r \in Seq(McastPkt),
         Joins(mcast'[m], mcast[m], r), Leaving(m)
  PROVE  Leaving(m)'
<1>1. pc' = pc /\ wsens' = wsens /\ machine' = machine
  BY DEF cltVars
<1>2. KeepsOn(mcast[m]) => KeepsOn(mcast[m])'
  <2>1. KeepsOn(mcast[m]) =>
          \E k \in 1..Len(mcast'[m]) :
            /\ mcast'[m][k].type \in {"SYNC_RELEASE", "SR_RX"}
            /\ \A j \in 1..Len(mcast'[m]) : j < k => mcast'[m][j].type # "BACKTRACK"
    BY KeepsOnJoin
  <2> QED BY <2>1 DEF KeepsOn
<1>3. Doomed(mcast[m], m) => Doomed(mcast[m], m)'
  <2>1. Doomed(mcast[m], m) => Doomed(mcast'[m], m)
    BY DoomedJoin
  <2> QED BY <2>1 DEF Doomed, Tells, Changing
<1> QED BY <1>1, <1>2, <1>3 DEF Leaving, Waiting

LEMMA GoodStays ==
  ASSUME UNCHANGED cltVars, NEW m, Good(m),
         GoodOf(wsens[m], mcast'[m], m, Waiting(m), seq', rpseq', duration'),
         m \notin killed', up', m \in active'
  PROVE  MemberOf(m)'
<1>1. pc' = pc /\ wsens' = wsens /\ machine' = machine /\ backup' = backup
  BY DEF cltVars
<1>2. Waiting(m)' <=> Waiting(m)
  BY <1>1 DEF Waiting
<1>3. GoodOf(wsens'[m], mcast'[m], m, Waiting(m)', seq', rpseq', duration')
  BY <1>1, <1>2 DEF GoodOf, Released
<1>4. ~ machine'[m].kill /\ ~ backup'[m].kill
  BY <1>1 DEF Good
<1>5. Good(m)'
  BY <1>3, <1>4 DEF Good, GoodOf, Knows, Distant, Grows, Reminded, Released, Untold, Tells,
     Changing, LastChange
<1> QED BY <1>5 DEF MemberOf

\* The end of the simulation, if it is told, is told last.
LEMMA LastJoin ==
  ASSUME NEW q \in Seq(McastPkt), NEW r \in Seq(McastPkt), NEW p, Joins(p, q, r),
         \A i \in 1..Len(q) : q[i].type # "KILLSIM",
         \A i \in 1..Len(r) : r[i].type = "KILLSIM" => i = Len(r)
  PROVE  \A i \in 1..Len(p) : p[i].type = "KILLSIM" =>
            i = Len(p) /\ \E k \in 1..Len(r) : r[k].type = "KILLSIM"
<1>1. Len(q) \in Nat /\ Len(r) \in Nat /\ Len(p) = Len(q) + Len(r)
  BY DEF Joins
<1>2. ASSUME NEW i \in 1..Len(p), p[i].type = "KILLSIM" 
      PROVE  i = Len(p) /\ \E k \in 1..Len(r) : r[k].type = "KILLSIM"
  <2>1. ~ (i <= Len(q))
    BY <1>1, <1>2 DEF Joins
  <2>2. i > Len(q)
    BY <1>1, <2>1
  <2>3. i - Len(q) \in 1..Len(r) /\ p[i] = r[i - Len(q)]
    BY <1>1, <2>2, Behind
  <2>4. r[i - Len(q)].type = "KILLSIM" /\ i - Len(q) = Len(r)
    BY <1>2, <2>3
  <2> QED BY <1>1, <2>3, <2>4
<1> QED BY <1>2

\* What is left to show of packets r that are multicast, once it is known what
\* they make of each member.
LEMMA BroadcastStep ==
  ASSUME IInv, up, NEW r \in Seq(McastPkt), UNCHANGED <<cltVars, joined, answer>>,
         \A i \in 1..Len(r) : r[i].seq = seq + i - 1, seq' = seq + Len(r),
         \A i \in 1..Len(r) : r[i].type = "KILLSIM" => ~ up' /\ i = Len(r),
         mcast' \in [Nodes -> Seq(McastPkt)],
         \A n \in Nodes : /\ n \in joined => Joins(mcast'[n], mcast[n], r)
                          /\ n \notin joined => mcast'[n] = mcast[n],
         \A n \in Nodes : \A i \in 1..Len(mcast'[n]) :
           mcast'[n][i].type \in {"RX", "SR_RX"} => mcast'[n][i].src \in Nodes,
         OnTheWay', toServer' \in Seq(ServerPkt), SrvTypeOK', IsFiniteSet(air'),
         active' \subseteq active, killed' \subseteq killed \cup active,
         \A m \in active : pc[m] \notin Early,
         acked' \subseteq active', up' => active' \cap killed' = {},
         \A m \in acked' : AckedOf(m)',
         \A m \in joined : MemberOf(m)'
  PROVE  IInv'
<1>1. TypeInv /\ Members /\ Connections
  BY DEF IInv
<1>2. /\ pc' = pc /\ wsens' = wsens /\ machine' = machine /\ backup' = backup
      /\ joined' = joined /\ answer' = answer /\ UNCHANGED cltVars
  BY DEF cltVars
<1>3. TypeInv'
  <2>1. answer' \in [Nodes -> Seq(AnswerPkt)]
    BY <1>1, <1>2 DEF TypeInv, NetType
  <2> QED BY <1>1, <1>2, <2>1, SrvStepTypes
<1>4. ASSUME NEW m \in joined PROVE NumbersOf(m)'
  <2>1. m \in Nodes /\ NumbersOf(m)
    BY <1>1 DEF TypeInv, TypeOK, CltTypeOK, Members
  <2>2. mcast[m] \in Seq(McastPkt) /\ wsens[m].seq \in Nat /\ seq \in Nat
    BY <1>1, <2>1 DEF TypeInv, TypeOK, CltTypeOK, SrvTypeOK, NetType
  <2>3. Joins(mcast'[m], mcast[m], r)
    BY <2>1
  <2>4. InSeq(wsens[m], mcast[m]) /\ wsens[m].seq + Len(mcast[m]) = seq
        /\ \A i \in 1..Len(mcast[m]) : mcast[m][i].type # "KILLSIM"
    BY <2>1 DEF NumbersOf, NumbersIn
  <2>5. InSeq(wsens[m], mcast'[m]) /\ wsens[m].seq + Len(mcast'[m]) = seq'
    BY <2>2, <2>3, <2>4, NumbersJoin
  <2>6. \A i \in 1..Len(mcast'[m]) :
          mcast'[m][i].type = "KILLSIM" => ~ up' /\ i = Len(mcast'[m])
    <3>1. \A i \in 1..Len(r) : r[i].type = "KILLSIM" => i = Len(r)
      OBVIOUS
    <3>2. \A i \in 1..Len(mcast'[m]) : mcast'[m][i].type = "KILLSIM" =>
            i = Len(mcast'[m]) /\ \E k \in 1..Len(r) : r[k].type = "KILLSIM"
      BY <2>2, <2>3, <2>4, <3>1, LastJoin
    <3> QED BY <3>2
  <2> QED BY <1>2, <2>5, <2>6 DEF NumbersOf, NumbersIn, InSeq
<1>5. Members'
  BY <1>2, <1>4 DEF Members
<1>6. ASSUME NEW m \in Nodes PROVE ConnectionOf(m)'
  <2>1. ConnectionOf(m)
    BY <1>1 DEF Connections
  <2>2. pc[m] \in Early => m \notin active /\ m \notin active' /\ m \notin killed' /\ m \notin acked'
    BY <2>1 DEF ConnectionOf
  <2>3. pc[m] # "join"
    BY <2>1, <2>2 DEF ConnectionOf, Early
  <2>4. m \notin joined => mcast'[m] = mcast[m]
    OBVIOUS
  <2> QED BY <1>2, <2>1, <2>2, <2>3, <2>4 DEF ConnectionOf, Early
<1>7. Connections'
  BY <1>6 DEF Connections
<1>8. Acked'
  BY DEF Acked
<1> QED BY <1>3, <1>5, <1>7, <1>8 DEF IInv

LEMMA OnePkt ==
  ASSUME TypeInv, NEW p \in McastPkt, p.type \notin {"RX", "SR_RX"}, Multicast(<<p>>)
  PROVE  \E r \in Seq(McastPkt) :
           /\ Len(r) = 1 /\ r # <<>> /\ r[1].type = p.type /\ r[1].rp_next = p.rp_next
           /\ r[1].rp_duration = p.rp_duration /\ r[1].seq = seq
           /\ seq' = seq + Len(r) /\ seq' \in Nat
           /\ mcast' \in [Nodes -> Seq(McastPkt)]
           /\ \A n \in Nodes : /\ n \in joined => Joins(mcast'[n], mcast[n], r)
                               /\ n \notin joined => mcast'[n] = mcast[n]
           /\ \A n \in Nodes : \A i \in 1..Len(mcast'[n]) :
                mcast'[n][i].type \in {"RX", "SR_RX"} => mcast'[n][i].src \in Nodes
<1> DEFINE one == <<p>>
<1>1. one \in Seq(McastPkt) /\ Len(one) = 1 /\ one[1] = p
  OBVIOUS
<1>2. Multicast(one)
  OBVIOUS
<1> HIDE DEF one
<1>3. \A i \in 1..Len(one) : one[i].type \in {"RX", "SR_RX"} => one[i].src \in Nodes
  BY <1>1
<1>4. PICK r \in Seq(McastPkt) :
           /\ NumberedAs(r, one) /\ seq' = seq + Len(r) /\ seq' \in Nat
           /\ mcast' \in [Nodes -> Seq(McastPkt)]
           /\ \A n \in Nodes : /\ n \in joined => Joins(mcast'[n], mcast[n], r)
                               /\ n \notin joined => mcast'[n] = mcast[n]
           /\ \A n \in Nodes : \A i \in 1..Len(mcast'[n]) :
                mcast'[n][i].type \in {"RX", "SR_RX"} => mcast'[n][i].src \in Nodes
  BY <1>1, <1>2, <1>3, MulticastEffect
<1>5. Len(r) = 1 /\ r # <<>> /\ r[1].type = p.type /\ r[1].rp_next = p.rp_next
      /\ r[1].rp_duration = p.rp_duration /\ r[1].seq = seq
  <2>1. Len(r) = 1
    BY <1>1, <1>4 DEF NumberedAs
  <2>4. 1 \in 1..Len(r) /\ r # <<>>
    BY <2>1
  <2>2. seq + 1 - 1 = seq
    BY DEF TypeInv, TypeOK, SrvTypeOK
  <2>3. /\ r[1].seq = seq + 1 - 1 /\ r[1].type = one[1].type /\ r[1].rp_next = one[1].rp_next
        /\ r[1].rp_duration = one[1].rp_duration
    BY <1>4, <2>4 DEF NumberedAs
  <2> QED BY <1>1, <2>1, <2>2, <2>3, <2>4
<1> QED BY <1>4, <1>5

\* A request to transmit: what is known of its byte.
LEMMA TxFacts ==
  ASSUME IInv, NEW n \in Nodes, From(n, "BYTE_TX")
  PROVE  /\ WaveOf(Head(toServer)) \in Wave /\ WaveOf(Head(toServer)).end >= last
         /\ \A m \in Nodes : pc[m] \notin Early
<1>1. Head(toServer) \in ServerPkt /\ PacketOf(Head(toServer)) /\ Head(toServer).type = "BYTE_TX"
  BY FromFacts
<1>2. /\ Head(toServer).node \in Nodes /\ Head(toServer).kind \in {"byte", "measure"}
      /\ Head(toServer).duration \in Nat /\ Head(toServer).period \in Nat
  BY <1>1 DEF ServerPkt
<1>3. last \in Nat
  BY DEF IInv, TypeInv, TypeOK, SrvTypeOK
<1>4. /\ last + Head(toServer).period \in Nat
      /\ last + Head(toServer).period + Head(toServer).duration \in Nat
      /\ last + Head(toServer).period + Head(toServer).duration >= last
  BY <1>2, <1>3
<1>5. \A m \in Nodes : pc[m] \notin Early
  BY <1>1 DEF PacketOf
<1> QED BY <1>2, <1>4, <1>5 DEF WaveOf, Wave

LEMMA MemberTypes ==
  ASSUME TypeInv, NEW m \in Nodes
  PROVE  /\ mcast[m] \in Seq(McastPkt) /\ Len(mcast[m]) \in Nat
         /\ wsens[m].seq \in Nat /\ wsens[m].rpseq \in Nat /\ seq \in Nat /\ rpseq \in Nat
<1>1. mcast[m] \in Seq(McastPkt)
  BY DEF TypeInv, NetType
<1>2. wsens[m].seq \in Nat /\ wsens[m].rpseq \in Nat /\ seq \in Nat /\ rpseq \in Nat
  BY DEF TypeInv, TypeOK, CltTypeOK, SrvTypeOK
<1> QED BY <1>1, <1>2

\* The numbers of what is put behind a member's queue.
LEMMA NumbersAdded ==
  ASSUME IInv, up, NEW m \in joined, NEW r \in Seq(McastPkt), NEW p, Joins(p, mcast[m], r),
         \A i \in 1..Len(r) : r[i].seq = seq + i - 1
  PROVE  InSeq(wsens[m], p) /\ wsens[m].seq + Len(p) = seq + Len(r)
<1>1. m \in Nodes /\ NumbersOf(m) /\ TypeInv
  BY DEF IInv, TypeInv, TypeOK, CltTypeOK, Members
<1>2. mcast[m] \in Seq(McastPkt) /\ wsens[m].seq \in Nat /\ seq \in Nat
  BY <1>1, MemberTypes
<1>3. InSeq(wsens[m], mcast[m]) /\ wsens[m].seq + Len(mcast[m]) = seq
  BY <1>1 DEF NumbersOf, NumbersIn
<1> QED BY <1>2, <1>3, NumbersJoin

\* Members that nothing new is told to, and those that are told the next
\* rendez-vous.
LEMMA QuietBroadcast ==
  ASSUME IInv, up, NEW r \in Seq(McastPkt), UNCHANGED cltVars, NEW m \in joined, m \notin killed,
         Joins(mcast'[m], mcast[m], r), \A i \in 1..Len(r) : r[i].seq = seq + i - 1,
         seq' = seq + Len(r), \A i \in 1..Len(r) : ~ Changing(r[i]),
         \A i \in 1..Len(r) : r[i].type = "SYNC_REMINDER" => r[i].rp_next = rpseq,
         Untold(r, m), rpseq' = rpseq, duration' = duration, m \notin killed', up', m \in active'
  PROVE  MemberOf(m)'
<1> DEFINE q == mcast[m]
           w == wsens[m]
<1>1. m \in Nodes /\ Good(m) /\ NumbersOf(m)
  BY DEF IInv, TypeInv, TypeOK, CltTypeOK, Members, MemberOf
<1>2. q \in Seq(McastPkt) /\ w.seq \in Nat /\ seq \in Nat /\ Len(q) \in Nat /\ Len(r) \in Nat
  <2>1. TypeInv
    BY DEF IInv
  <2>2. Len(r) \in Nat
    OBVIOUS
  <2> QED BY <1>1, <2>1, <2>2, MemberTypes
<1>3. /\ w.seq + Len(q) = seq /\ Knows(w, q, Len(q), rpseq) /\ Distant(w, q, Len(q), duration)
      /\ Grows(w, q, rpseq) /\ Reminded(w, q) /\ Released(q, Waiting(m)) /\ Untold(q, m)
  BY <1>1 DEF Good, GoodOf
<1>4. InSeq(w, q)
  BY <1>1 DEF NumbersOf, NumbersIn
<1>5. Joins(mcast'[m], q, r)
  OBVIOUS
<1> HIDE DEF q, w
<1>6. w.seq + Len(mcast'[m]) = seq'
  <2>1. w.seq + Len(mcast'[m]) = seq + Len(r)
    BY <1>2, <1>3, <1>4, <1>5, NumbersJoin
  <2> QED BY <2>1
<1>7. /\ Knows(w, mcast'[m], Len(mcast'[m]), rpseq)
      /\ Distant(w, mcast'[m], Len(mcast'[m]), duration)
      /\ Grows(w, mcast'[m], rpseq) /\ Reminded(w, mcast'[m])
  BY <1>2, <1>3, <1>5, QuietKeeps
<1>8. Untold(mcast'[m], m)
  BY <1>2, <1>3, <1>5, UntoldJoin
<1>9. Released(mcast'[m], Waiting(m))
  <2>1. Waiting(m) \in BOOLEAN /\ \A i \in 1..Len(r) : r[i].type # "SYNC_RELEASE"
    BY DEF Waiting, Changing
  <2> QED BY <1>2, <1>3, <1>5, <2>1, ReleasedJoin
<1>10. GoodOf(w, mcast'[m], m, Waiting(m), seq', rpseq', duration')
  BY <1>6, <1>7, <1>8, <1>9 DEF GoodOf
<1>11. GoodOf(wsens[m], mcast'[m], m, Waiting(m), seq', rpseq', duration')
  BY <1>10 DEF w
<1> QED BY <1>1, <1>11, GoodStays

LEMMA ChangingBroadcast ==
  ASSUME IInv, up, NEW r \in Seq(McastPkt), UNCHANGED cltVars, NEW m \in joined, m \notin killed,
         Joins(mcast'[m], mcast[m], r), \A i \in 1..Len(r) : r[i].seq = seq + i - 1,
         seq' = seq + Len(r), r # <<>>, \A i \in 1..Len(r) : Changing(r[i]) <=> i = Len(r),
         \A i \in 1..Len(r) : r[i].type # "SYNC_REMINDER",
         r[Len(r)].type = "SYNC_RELEASE" =>
           Waiting(m) /\ \A i \in 1..Len(mcast[m]) : ~ Changing(mcast[m][i]),
         Untold(r, m), rpseq' = rpseq + 1, r[Len(r)].rp_next = rpseq + 1,
         duration' = r[Len(r)].rp_duration, m \notin killed', up', m \in active'
  PROVE  MemberOf(m)'
<1> DEFINE q == mcast[m]
           w == wsens[m]
<1>1. m \in Nodes /\ Good(m) /\ NumbersOf(m)
  BY DEF IInv, TypeInv, TypeOK, CltTypeOK, Members, MemberOf
<1>2. /\ q \in Seq(McastPkt) /\ w.seq \in Nat /\ seq \in Nat /\ Len(q) \in Nat /\ Len(r) \in Nat
      /\ rpseq \in Nat /\ w.rpseq \in Nat
  <2>1. TypeInv
    BY DEF IInv
  <2>2. Len(r) \in Nat
    OBVIOUS
  <2> QED BY <1>1, <2>1, <2>2, MemberTypes
<1>3. /\ w.seq + Len(q) = seq /\ Grows(w, q, rpseq) /\ Reminded(w, q)
      /\ Released(q, Waiting(m)) /\ Untold(q, m)
  BY <1>1 DEF Good, GoodOf
<1>4. InSeq(w, q)
  BY <1>1 DEF NumbersOf, NumbersIn
<1>5. Joins(mcast'[m], q, r)
  OBVIOUS
<1>6. r[Len(r)].type = "SYNC_RELEASE" => Waiting(m) /\ \A i \in 1..Len(q) : ~ Changing(q[i])
  OBVIOUS
<1> HIDE DEF q, w
<1>7. w.seq + Len(mcast'[m]) = seq'
  <2>1. wsens[m].seq + Len(mcast'[m]) = seq + Len(r)
    BY NumbersAdded
  <2> QED BY <2>1 DEF w
<1>8. /\ Knows(w, mcast'[m], Len(mcast'[m]), rpseq + 1)
      /\ Distant(w, mcast'[m], Len(mcast'[m]), duration')
      /\ Grows(w, mcast'[m], rpseq + 1) /\ Reminded(w, mcast'[m])
  <2>1. r[Len(r)].rp_duration = duration'
    OBVIOUS
  <2> QED BY <1>2, <1>3, <1>5, <2>1, ChangeKeeps
<1>9. Untold(mcast'[m], m)
  BY <1>2, <1>3, <1>5, UntoldJoin
<1>10. Released(mcast'[m], Waiting(m))
  <2>1. Waiting(m) \in BOOLEAN
    BY DEF Waiting
  <2>2. CASE r[Len(r)].type = "SYNC_RELEASE"
    <3>1. Waiting(m) /\ \A i \in 1..Len(q) : ~ Changing(q[i])
      BY <1>6, <2>2
    <3>2. TRUE /\ (\A i \in 1..Len(q) : ~ Changing(q[i]))
          /\ \A i \in 1..Len(r) : Changing(r[i]) <=> i = Len(r)
      BY <3>1
    <3>3. TRUE \in BOOLEAN /\ Released(q, TRUE)
      BY <1>3, <3>1 DEF Released
    <3>4. Released(mcast'[m], TRUE)
      BY <1>2, <1>5, <3>2, <3>3, ReleasedJoin
    <3> QED BY <3>1, <3>4 DEF Released
  <2>3. CASE r[Len(r)].type # "SYNC_RELEASE"
    <3>1. \A i \in 1..Len(r) : r[i].type # "SYNC_RELEASE"
      BY <2>3 DEF Changing
    <3> QED BY <1>2, <1>3, <1>5, <2>1, <3>1, ReleasedJoin
  <2> QED BY <2>2, <2>3
<1>11. GoodOf(w, mcast'[m], m, Waiting(m), seq', rpseq', duration')
  BY <1>7, <1>8, <1>9, <1>10 DEF GoodOf
<1>12. GoodOf(wsens[m], mcast'[m], m, Waiting(m), seq', rpseq', duration')
  BY <1>11 DEF w
<1> QED BY <1>1, <1>12, GoodStays

\* Members that were already told to leave.
LEMMA ToldBroadcast ==
  ASSUME IInv, up, NEW r \in Seq(McastPkt), UNCHANGED cltVars, NEW m \in joined, m \in killed,
         Joins(mcast'[m], mcast[m], r), killed \subseteq killed'
  PROVE  MemberOf(m)'
<1>1. Leaving(m) /\ mcast[m] \in Seq(McastPkt)
  BY DEF IInv, TypeInv, TypeOK, CltTypeOK, NetType, Members, MemberOf
<1>2. Leaving(m)'
  BY <1>1, LeavingStays
<1> QED BY <1>2 DEF MemberOf

LEMMA TxAcceptedStep ==
  ASSUME IInv, NEW n \in Nodes, TxAccepted(n)
  PROVE  IInv'
<1> DEFINE v == WaveOf(Head(toServer))
<1>1. /\ From(n, "BYTE_TX") /\ air' = air \cup {v}
      /\ Multicast(<<[Pkt("SYNC_REMINDER") EXCEPT !.rp_next = rpseq]>>)
      /\ UNCHANGED <<met, answer, active, acked, last, duration, rpseq, heard, killed, up>>
  BY DEF TxAccepted
<1>2. /\ up /\ toServer # <<>> /\ toServer' = Tail(toServer) /\ joined' = joined
      /\ UNCHANGED cltVars
  BY <1>1, FromFacts
<1>3. v \in Wave /\ \A m \in Nodes : pc[m] \notin Early
  BY <1>1, TxFacts
<1> HIDE DEF v
<1>4. TypeInv /\ Connections /\ Acked
  BY DEF IInv
<1>5. PICK p \in McastPkt : Multicast(<<p>>) /\ p.type = "SYNC_REMINDER" /\ p.rp_next = rpseq
  <2>1. rpseq \in Nat
    BY <1>4 DEF TypeInv, TypeOK, SrvTypeOK
  <2> DEFINE p == [Pkt("SYNC_REMINDER") EXCEPT !.rp_next = rpseq]
  <2>2. p \in McastPkt /\ p.type = "SYNC_REMINDER" /\ p.rp_next = rpseq
    BY <2>1 DEF Pkt, McastPkt, PktType
  <2>3. Multicast(<<p>>)
    BY <1>1
  <2> HIDE DEF p
  <2> QED BY <2>2, <2>3
<1>6. PICK r \in Seq(McastPkt) :
           /\ Len(r) = 1 /\ r # <<>> /\ r[1].type = p.type /\ r[1].rp_next = p.rp_next
           /\ r[1].rp_duration = p.rp_duration /\ r[1].seq = seq
           /\ seq' = seq + Len(r) /\ seq' \in Nat
           /\ mcast' \in [Nodes -> Seq(McastPkt)]
           /\ \A m \in Nodes : /\ m \in joined => Joins(mcast'[m], mcast[m], r)
                               /\ m \notin joined => mcast'[m] = mcast[m]
           /\ \A m \in Nodes : \A i \in 1..Len(mcast'[m]) :
                mcast'[m][i].type \in {"RX", "SR_RX"} => mcast'[m][i].src \in Nodes
  BY <1>4, <1>5, OnePkt
<1>7. \A i \in 1..Len(r) : i = 1 /\ r[i].seq = seq + i - 1
  <2>1. seq + 1 - 1 = seq
    BY <1>4 DEF TypeInv, TypeOK, SrvTypeOK
  <2> QED BY <1>6, <2>1
<1>8. \A i \in 1..Len(r) : r[i].type = "SYNC_REMINDER" /\ r[i].rp_next = rpseq
  BY <1>5, <1>6, <1>7
<1>9. ASSUME NEW m \in joined PROVE MemberOf(m)'
  <2>1. Joins(mcast'[m], mcast[m], r)
    BY <1>4, <1>6 DEF TypeInv, TypeOK, CltTypeOK
  <2>2. CASE m \in killed
    BY <1>1, <1>2, <2>1, <2>2, ToldBroadcast
  <2>3. CASE m \notin killed
    <3>1. up' /\ m \in active' /\ m \notin killed' /\ rpseq' = rpseq /\ duration' = duration
      BY <1>1, <1>2, <2>3 DEF IInv, Members, MemberOf
    <3>2. \A i \in 1..Len(r) : ~ Changing(r[i])
      BY <1>8 DEF Changing
    <3>3. Untold(r, m)
      BY <1>8 DEF Untold, Tells
    <3> QED BY <1>2, <1>6, <1>7, <1>8, <2>1, <2>3, <3>1, <3>2, <3>3, QuietBroadcast
  <2> QED BY <2>2, <2>3
<1>10. OnTheWay' /\ toServer' \in Seq(ServerPkt)
  <2>1. ASSUME NEW x \in ServerPkt, PacketOf(x) PROVE PacketOf(x)'
    <3>1. x.type = "CONNECT_REQ" => answer'[x.node] = answer[x.node] /\ x.node \notin active'
      BY <1>1, <2>1 DEF PacketOf
    <3>2. UNCHANGED cltVars /\ joined' = joined /\ killed \subseteq killed' /\ rpseq' = rpseq
      BY <1>1, <1>2
    <3> QED BY <2>1, <3>1, <3>2, PacketLeft
  <2> QED BY <1>2, <2>1, OnTheWayRest
<1>11. SrvTypeOK' /\ IsFiniteSet(air')
  <2>1. IsFiniteSet(air')
    BY <1>1, <1>4, FS_AddElement DEF TypeInv
  <2> QED BY <1>1, <1>3, <1>4, <1>6, <2>1 DEF TypeInv, TypeOK, SrvTypeOK
<1>12. ASSUME NEW m \in acked' PROVE AckedOf(m)'
  BY <1>1, <1>2, <1>4, <1>12 DEF Acked, AckedOf, Waiting, cltVars
<1>13. /\ active' \subseteq active /\ killed' \subseteq killed \cup active
       /\ acked' \subseteq active' /\ (up' => active' \cap killed' = {})
       /\ \A m \in active : pc[m] \notin Early
  BY <1>1, <1>3, <1>4 DEF Connections, TypeInv, TypeOK, SrvTypeOK
<1>14. \A i \in 1..Len(r) : r[i].type = "KILLSIM" => ~ up' /\ i = Len(r)
  BY <1>8
<1>15. UNCHANGED <<cltVars, joined, answer>>
  BY <1>1, <1>2
<1> QED BY <1>2, <1>6, <1>7, <1>9, <1>10, <1>11, <1>12, <1>13, <1>14, <1>15, BroadcastStep

LEMMA TxBacktrackStep ==
  ASSUME IInv, NEW n \in Nodes, TxBacktrack(n)
  PROVE  IInv'
<1> DEFINE v == WaveOf(Head(toServer))
<1>1. /\ From(n, "BYTE_TX") /\ air' = {x \in air : x.start <= v.end} \cup {v}
      /\ duration' = v.end - last /\ rpseq' = rpseq + 1 /\ acked' = {}
      /\ Multicast(<<[Pkt("BACKTRACK") EXCEPT !.rp_next = rpseq', !.rp_duration = duration']>>)
      /\ UNCHANGED <<met, answer, active, last, heard, killed, up>>
  BY DEF TxBacktrack
<1>2. /\ up /\ toServer # <<>> /\ toServer' = Tail(toServer) /\ joined' = joined
      /\ UNCHANGED cltVars
  BY <1>1, FromFacts
<1>3. v \in Wave /\ v.end >= last /\ \A m \in Nodes : pc[m] \notin Early
  BY <1>1, TxFacts
<1> HIDE DEF v
<1>4. TypeInv /\ Connections /\ Members
  BY DEF IInv
<1>5. rpseq \in Nat /\ rpseq' \in Nat /\ duration' \in Nat
  <2>1. rpseq \in Nat /\ last \in Nat
    BY <1>4 DEF TypeInv, TypeOK, SrvTypeOK
  <2>2. v.end \in Nat
    BY <1>3 DEF Wave
  <2> QED BY <1>1, <1>3, <2>1, <2>2
<1>6. PICK p \in McastPkt : /\ Multicast(<<p>>) /\ p.type = "BACKTRACK"
                            /\ p.rp_next = rpseq' /\ p.rp_duration = duration'
  <2> DEFINE p == [Pkt("BACKTRACK") EXCEPT !.rp_next = rpseq', !.rp_duration = duration']
  <2>1. p \in McastPkt /\ p.type = "BACKTRACK" /\ p.rp_next = rpseq' /\ p.rp_duration = duration'
    BY <1>5 DEF Pkt, McastPkt, PktType
  <2>2. Multicast(<<p>>)
    BY <1>1
  <2> HIDE DEF p
  <2> QED BY <2>1, <2>2
<1>7. PICK r \in Seq(McastPkt) :
           /\ Len(r) = 1 /\ r # <<>> /\ r[1].type = p.type /\ r[1].rp_next = p.rp_next
           /\ r[1].rp_duration = p.rp_duration /\ r[1].seq = seq
           /\ seq' = seq + Len(r) /\ seq' \in Nat
           /\ mcast' \in [Nodes -> Seq(McastPkt)]
           /\ \A m \in Nodes : /\ m \in joined => Joins(mcast'[m], mcast[m], r)
                               /\ m \notin joined => mcast'[m] = mcast[m]
           /\ \A m \in Nodes : \A i \in 1..Len(mcast'[m]) :
                mcast'[m][i].type \in {"RX", "SR_RX"} => mcast'[m][i].src \in Nodes
  BY <1>4, <1>6, OnePkt
<1>8. \A i \in 1..Len(r) : i = 1 /\ r[i].seq = seq + i - 1 /\ r[i].type = "BACKTRACK"
  <2>1. seq + 1 - 1 = seq
    BY <1>4 DEF TypeInv, TypeOK, SrvTypeOK
  <2> QED BY <1>6, <1>7, <2>1
<1>9. ASSUME NEW m \in joined PROVE MemberOf(m)'
  <2>1. Joins(mcast'[m], mcast[m], r)
    BY <1>4, <1>7 DEF TypeInv, TypeOK, CltTypeOK
  <2>2. CASE m \in killed
    BY <1>1, <1>2, <2>1, <2>2, ToldBroadcast
  <2>3. CASE m \notin killed
    <3>1. up' /\ m \in active' /\ m \notin killed'
      BY <1>1, <1>2, <1>4, <2>3 DEF Members, MemberOf
    <3>2. \A i \in 1..Len(r) : Changing(r[i]) <=> i = Len(r)
      BY <1>7, <1>8 DEF Changing
    <3>3. Untold(r, m) /\ \A i \in 1..Len(r) : r[i].type # "SYNC_REMINDER"
      BY <1>8 DEF Untold, Tells
    <3>4. /\ r[Len(r)].rp_next = rpseq + 1 /\ duration' = r[Len(r)].rp_duration
          /\ r[Len(r)].type # "SYNC_RELEASE"
      BY <1>1, <1>6, <1>7
    <3>5. \A i \in 1..Len(r) : r[i].seq = seq + i - 1
      BY <1>8
    <3>6. rpseq' = rpseq + 1 /\ seq' = seq + Len(r) /\ r # <<>>
      BY <1>1, <1>7
    <3> QED BY <1>2, <2>1, <2>3, <3>1, <3>2, <3>3, <3>4, <3>5, <3>6, ChangingBroadcast
  <2> QED BY <2>2, <2>3
<1>10. OnTheWay' /\ toServer' \in Seq(ServerPkt)
  <2>1. ASSUME NEW x \in ServerPkt, PacketOf(x) PROVE PacketOf(x)'
    <3>1. x.type = "CONNECT_REQ" => answer'[x.node] = answer[x.node] /\ x.node \notin active'
      BY <1>1, <2>1 DEF PacketOf
    <3>2. ASSUME x.type = "SYNC_ACK", x.node \in joined \ killed' PROVE x.rp_id # rpseq'
      <4>1. x.node \in joined \ killed /\ x.node \in Nodes
        BY <1>1, <1>4, <3>2 DEF TypeInv, TypeOK, CltTypeOK
      <4>2. x.rp_id <= wsens[x.node].rpseq
        BY <2>1, <3>2, <4>1 DEF PacketOf
      <4>3. wsens[x.node].rpseq <= rpseq
        BY <1>4, <4>1 DEF Members, MemberOf, Good, GoodOf, Grows
      <4>4. x.rp_id \in Nat /\ wsens[x.node].rpseq \in Nat
        BY <1>4, <3>2, <4>1 DEF TypeInv, TypeOK, CltTypeOK, ServerPkt
      <4> QED BY <1>1, <1>5, <4>2, <4>3, <4>4
    <3>3. UNCHANGED cltVars /\ joined' = joined /\ killed \subseteq killed'
      BY <1>1, <1>2
    <3> QED BY <2>1, <3>1, <3>2, <3>3, PacketLeft
  <2> QED BY <1>2, <2>1, OnTheWayRest
<1>11. SrvTypeOK' /\ IsFiniteSet(air')
  <2>1. IsFiniteSet({x \in air : x.start <= v.end})
    BY <1>4, FS_Subset DEF TypeInv
  <2>2. IsFiniteSet(air')
    BY <1>1, <2>1, FS_AddElement
  <2> QED BY <1>1, <1>3, <1>4, <1>5, <1>7, <2>2 DEF TypeInv, TypeOK, SrvTypeOK
<1>12. \A m \in acked' : AckedOf(m)'
  BY <1>1
<1>13. /\ active' \subseteq active /\ killed' \subseteq killed \cup active
       /\ acked' \subseteq active' /\ (up' => active' \cap killed' = {})
       /\ \A m \in active : pc[m] \notin Early
  BY <1>1, <1>3, <1>4 DEF Connections, TypeInv, TypeOK, SrvTypeOK
<1>14. \A i \in 1..Len(r) : r[i].type = "KILLSIM" => ~ up' /\ i = Len(r)
  BY <1>8
<1>15. UNCHANGED <<cltVars, joined, answer>> /\ \A i \in 1..Len(r) : r[i].seq = seq + i - 1
  BY <1>1, <1>2, <1>8
<1> QED BY <1>2, <1>7, <1>9, <1>10, <1>11, <1>12, <1>13, <1>14, <1>15, BroadcastStep

LEMMA OnTheWayStays ==
  ASSUME IInv, toServer' = toServer, \A p \in ServerPkt : PacketOf(p) => PacketOf(p)'
  PROVE  OnTheWay' /\ toServer' \in Seq(ServerPkt)
<1>1. toServer \in Seq(ServerPkt)
  BY DEF IInv, TypeInv, NetType
<1>2. ASSUME NEW i \in 1..Len(toServer) PROVE PacketOf(toServer[i])'
  <2>1. PICK p \in ServerPkt : p = toServer[i]
    BY <1>1
  <2>2. PacketOf(p)'
    BY <2>1 DEF IInv, OnTheWay
  <2> QED BY <2>1, <2>2
<1>3. \A i, j \in 1..Len(toServer) :
        (toServer[i].type = "CONNECT_REQ" /\ toServer[j].type = "CONNECT_REQ"
           /\ toServer[i].node = toServer[j].node) => i = j
  BY DEF IInv, OnTheWay
<1> QED BY <1>1, <1>2, <1>3 DEF OnTheWay

\* At the rendez-vous every member that goes on waits, and has been told all.
LEMMA AtRendezVous ==
  ASSUME IInv, acked = active, NEW m \in joined, m \notin killed
  PROVE  /\ m \in Nodes /\ m \in active /\ up /\ Waiting(m) /\ Good(m)
         /\ \A i \in 1..Len(mcast[m]) : ~ Changing(mcast[m][i])
<1>1. m \in Nodes /\ m \in active /\ up /\ Good(m)
  BY DEF IInv, TypeInv, TypeOK, CltTypeOK, Members, MemberOf
<1>2. Waiting(m) /\ wsens[m].rpseq = rpseq
  BY <1>1 DEF IInv, Acked, AckedOf
<1>3. TypeInv
  BY DEF IInv
<1>4. mcast[m] \in Seq(McastPkt) /\ rpseq \in Nat
  BY <1>1, <1>3, MemberTypes
<1>5. Grows(wsens[m], mcast[m], rpseq)
  BY <1>1 DEF Good, GoodOf
<1>6. ASSUME NEW i \in 1..Len(mcast[m]), Changing(mcast[m][i]) PROVE FALSE
  <2>1. mcast[m][i].rp_next \in Nat
    BY <1>4, PktFields
  <2>2. rpseq < mcast[m][i].rp_next /\ mcast[m][i].rp_next <= rpseq
    BY <1>2, <1>5, <1>6 DEF Grows
  <2> QED BY <1>4, <2>1, <2>2
<1> QED BY <1>1, <1>2, <1>6

LEMMA ActiveLate ==
  ASSUME IInv, acked = active
  PROVE  \A m \in active : pc[m] \notin Early
<1>1. ASSUME NEW m \in active PROVE pc[m] \notin Early
  <2>1. m \in Nodes /\ ConnectionOf(m)
    BY DEF IInv, TypeInv, TypeOK, SrvTypeOK, Connections
  <2> QED BY <2>1 DEF ConnectionOf
<1> QED BY <1>1

LEMMA KillSimStep ==
  ASSUME IInv, KillSim
  PROVE  IInv'
<1>1. /\ up /\ acked = active /\ Multicast(<<Pkt("KILLSIM")>>) /\ ~ up' /\ up' = FALSE
      /\ killed' = killed \cup active
      /\ UNCHANGED <<toServer, answer, joined, cltVars>>
      /\ UNCHANGED <<met, active, acked, last, duration, rpseq, air, heard>>
  BY DEF KillSim
<1>2. TypeInv /\ Connections /\ Members /\ Acked
  BY DEF IInv
<1>3. PICK p \in McastPkt : Multicast(<<p>>) /\ p.type = "KILLSIM"
  <2> DEFINE p == Pkt("KILLSIM")
  <2>1. p \in McastPkt /\ p.type = "KILLSIM"
    BY DEF Pkt, McastPkt, PktType
  <2>2. Multicast(<<p>>)
    BY <1>1
  <2> HIDE DEF p
  <2> QED BY <2>1, <2>2
<1>4. PICK r \in Seq(McastPkt) :
           /\ Len(r) = 1 /\ r # <<>> /\ r[1].type = p.type /\ r[1].rp_next = p.rp_next
           /\ r[1].rp_duration = p.rp_duration /\ r[1].seq = seq
           /\ seq' = seq + Len(r) /\ seq' \in Nat
           /\ mcast' \in [Nodes -> Seq(McastPkt)]
           /\ \A m \in Nodes : /\ m \in joined => Joins(mcast'[m], mcast[m], r)
                               /\ m \notin joined => mcast'[m] = mcast[m]
           /\ \A m \in Nodes : \A i \in 1..Len(mcast'[m]) :
                mcast'[m][i].type \in {"RX", "SR_RX"} => mcast'[m][i].src \in Nodes
  BY <1>2, <1>3, OnePkt
<1>5. \A i \in 1..Len(r) : i = 1 /\ i = Len(r) /\ r[i].seq = seq + i - 1 /\ r[i].type = "KILLSIM"
  <2>1. seq + 1 - 1 = seq
    BY <1>2 DEF TypeInv, TypeOK, SrvTypeOK
  <2> QED BY <1>3, <1>4, <2>1
<1>6. ASSUME NEW m \in joined PROVE MemberOf(m)'
  <2>1. Joins(mcast'[m], mcast[m], r) /\ mcast[m] \in Seq(McastPkt)
    BY <1>2, <1>4 DEF TypeInv, TypeOK, CltTypeOK, NetType
  <2>2. CASE m \in killed
    <3>1. UNCHANGED cltVars /\ killed \subseteq killed'
      BY <1>1
    <3> QED BY <1>1, <2>1, <2>2, <3>1, ToldBroadcast
  <2>3. CASE m \notin killed
    <3>1. /\ m \in active /\ Waiting(m) /\ Good(m)
          /\ \A i \in 1..Len(mcast[m]) : ~ Changing(mcast[m][i])
      BY <1>1, <2>3, AtRendezVous
    <3>2. Doomed(mcast'[m], m)
      <4>1. 1 \in 1..Len(r) /\ Tells(r[1], m)
        BY <1>4, <1>5 DEF Tells
      <4>2. \A k \in 1..Len(r) : ~ (k < 1)
        BY <1>5
      <4>3. Doomed(r, m)
        BY <4>1, <4>2 DEF Doomed
      <4> QED BY <2>1, <3>1, <4>3, DoomedJoin
    <3>3. ASSUME NEW i \in 1..Len(mcast'[m]) PROVE mcast'[m][i].type # "BACKTRACK"
      <4>1. Len(mcast[m]) \in Nat /\ Len(r) \in Nat /\ Len(mcast'[m]) = Len(mcast[m]) + Len(r)
        BY <2>1 DEF Joins
      <4>2. CASE i <= Len(mcast[m])
        <5>1. i \in 1..Len(mcast[m]) /\ mcast'[m][i] = mcast[m][i]
          BY <2>1, <4>1, <4>2 DEF Joins
        <5> QED BY <3>1, <5>1 DEF Changing
      <4>3. CASE i > Len(mcast[m])
        <5>1. i - Len(mcast[m]) \in 1..Len(r) /\ mcast'[m][i] = r[i - Len(mcast[m])]
          BY <2>1, <4>1, <4>3, Behind
        <5> QED BY <1>5, <5>1
      <4> QED BY <4>1, <4>2, <4>3
    <3>4. ~ machine[m].kill
      BY <3>1 DEF Good
    <3>5. pc' = pc /\ wsens' = wsens /\ machine' = machine
      BY <1>1 DEF cltVars
    <3>6. KeepsOn(mcast[m])'
      BY <1>1, <3>3 DEF KeepsOn
    <3>7. Doomed(mcast[m], m)'
      BY <3>2 DEF Doomed, Tells, Changing
    <3>8. Leaving(m)'
      BY <3>1, <3>4, <3>5, <3>6, <3>7 DEF Leaving, Waiting
    <3>9. m \in killed'
      BY <1>1, <3>1
    <3> QED BY <3>8, <3>9 DEF MemberOf
  <2> QED BY <2>2, <2>3
<1>7. OnTheWay' /\ toServer' \in Seq(ServerPkt)
  <2>1. ASSUME NEW x \in ServerPkt, PacketOf(x) PROVE PacketOf(x)'
    <3>1. x.type = "CONNECT_REQ" => answer'[x.node] = answer[x.node] /\ x.node \notin active'
      BY <1>1, <2>1 DEF PacketOf
    <3>2. UNCHANGED cltVars /\ joined' = joined /\ killed \subseteq killed' /\ rpseq' = rpseq
      BY <1>1
    <3> QED BY <2>1, <3>1, <3>2, PacketLeft
  <2> QED BY <1>1, <2>1, OnTheWayStays
<1>8. SrvTypeOK' /\ IsFiniteSet(air')
  BY <1>1, <1>2, <1>4 DEF TypeInv, TypeOK, SrvTypeOK
<1>9. ASSUME NEW m \in acked' PROVE AckedOf(m)'
  <2>1. m \in killed'
    BY <1>1
  <2> QED BY <2>1 DEF AckedOf
<1>10. /\ active' \subseteq active /\ killed' \subseteq killed \cup active
       /\ acked' \subseteq active' /\ (up' => active' \cap killed' = {})
       /\ \A m \in active : pc[m] \notin Early
  BY <1>1, ActiveLate
<1>11. \A i \in 1..Len(r) : r[i].type = "KILLSIM" => ~ up' /\ i = Len(r)
  BY <1>1, <1>5
<1>12. UNCHANGED <<cltVars, joined, answer>> /\ \A i \in 1..Len(r) : r[i].seq = seq + i - 1
  BY <1>1, <1>5
<1> QED BY <1>1, <1>4, <1>6, <1>7, <1>8, <1>9, <1>10, <1>11, <1>12, BroadcastStep

-----------------------------------------------------------------------------
(* What the server tells at a rendez-vous. *)

LEMMA NatMin ==
  ASSUME NEW S \in SUBSET Nat, S # {}
  PROVE  \E e \in S : \A f \in S : e <= f
<1>1. PICK e \in S : \A f \in S : <<f, e>> \notin OpToRel(<, Nat)
  BY WFMin, NatLessThanWellFounded, Zenon
<1>2. \A f \in S : ~ (f < e)
  BY <1>1, Zenon DEF OpToRel
<1> QED BY <1>2

\* The elements of a finite set, one after the other.
LEMMA InOrder ==
  ASSUME NEW S, IsFiniteSet(S), NEW f \in SetToSeqs(S)
  PROVE  /\ f \in Seq(S) /\ DOMAIN f = 1..Len(f) /\ Len(f) \in Nat
         /\ \A i \in 1..Len(f) : f[i] \in S
         /\ \A x \in S : \E i \in 1..Len(f) : f[i] = x
<1> DEFINE n == Cardinality(S)
<1>1. n \in Nat
  BY FS_CardinalityType
<1>2. f \in [1..n -> S] /\ \A i, j \in 1..n : i # j => f[i] # f[j]
  BY DEF SetToSeqs
<1>3. IsFiniteSet(1..n) /\ Cardinality(1..n) = n
  BY <1>1, FS_Interval
<1>4. f \in Injection(1..n, S)
  <2>1. IsInjective(f)
    BY <1>2 DEF IsInjective
  <2> QED BY <1>2, <2>1 DEF Injection
<1>5. f \in Surjection(1..n, S)
  BY <1>3, <1>4, FS_Injection
<1> HIDE DEF n
<1>6. f \in Seq(S) /\ Len(f) = n /\ DOMAIN f = 1..Len(f)
  BY <1>1, <1>2
<1>7. \A x \in S : \E i \in 1..n : f[i] = x
  BY <1>5 DEF Surjection
<1> QED BY <1>1, <1>2, <1>6, <1>7

LEMMA KillPktsAre ==
  ASSUME NEW k \in SUBSET Nodes, NEW kills \in KillPkts(k)
  PROVE  /\ kills \in Seq(McastPkt) /\ Len(kills) \in Nat
         /\ \A i \in 1..Len(kills) : kills[i].type = "KILL" /\ kills[i].node \in k
         /\ \A x \in k : \E i \in 1..Len(kills) : kills[i].node = x
<1>1. PICK to \in SetToSeqs(k) : kills = [i \in DOMAIN to |-> [Pkt("KILL") EXCEPT !.node = to[i]]]
  BY DEF KillPkts
<1>2. IsFiniteSet(k)
  BY ClientAssumption, FS_Subset
<1>3. /\ DOMAIN to = 1..Len(to) /\ Len(to) \in Nat /\ \A i \in 1..Len(to) : to[i] \in k
      /\ \A x \in k : \E i \in 1..Len(to) : to[i] = x
  BY <1>2, InOrder
<1>4. ASSUME NEW i \in 1..Len(to), NEW p, p = [Pkt("KILL") EXCEPT !.node = to[i]]
      PROVE  p \in McastPkt /\ p.type = "KILL" /\ p.node = to[i]
  <2>1. to[i] \in Nodes
    BY <1>3
  <2> QED BY <1>4, <2>1 DEF Pkt, McastPkt, PktType
<1>5. ASSUME NEW i \in 1..Len(to)
      PROVE  kills[i] \in McastPkt /\ kills[i].type = "KILL" /\ kills[i].node = to[i]
  <2>1. kills[i] = [Pkt("KILL") EXCEPT !.node = to[i]]
    BY <1>1, <1>3
  <2> QED BY <1>4, <2>1
<1>6. DOMAIN kills = 1..Len(to) /\ kills \in [1..Len(to) -> McastPkt]
  BY <1>1, <1>3, <1>5
<1>7. kills \in Seq(McastPkt) /\ Len(kills) = Len(to)
  BY <1>3, <1>6
<1>8. \A x \in k : \E i \in 1..Len(kills) : kills[i].node = x
  BY <1>3, <1>5, <1>7
<1> QED BY <1>3, <1>5, <1>7, <1>8

LEMMA RxPktsAre ==
  ASSUME NEW order \in Seq(Wave), NEW rx \in RxPkts(order)
  PROVE  /\ rx \in Seq(McastPkt) /\ Len(rx) \in Nat
         /\ \A i \in 1..Len(rx) : rx[i].type = "RX" /\ rx[i].src \in Nodes
<1> DEFINE hears == {p \in (1..Len(order)) \X Nodes : p[2] \in Hearers(order[p[1]])}
<1>1. PICK to \in SetToSeqs(hears) :
        rx = [i \in DOMAIN to |-> [Pkt("RX") EXCEPT !.node = to[i][2], !.src = order[to[i][1]].src,
                                                   !.start = order[to[i][1]].start]]
  BY DEF RxPkts
<1>2. IsFiniteSet(hears)
  <2>1. Len(order) \in Nat
    OBVIOUS
  <2>2. IsFiniteSet(1..Len(order))
    BY <2>1, FS_Interval
  <2>3. IsFiniteSet((1..Len(order)) \X Nodes)
    BY <2>2, ClientAssumption, FS_Product
  <2>4. hears \subseteq (1..Len(order)) \X Nodes
    OBVIOUS
  <2> HIDE DEF hears
  <2> QED BY <2>3, <2>4, FS_Subset
<1>3. \A x \in hears : x[1] \in 1..Len(order) /\ x[2] \in Nodes
  OBVIOUS
<1> HIDE DEF hears
<1>4. /\ DOMAIN to = 1..Len(to) /\ Len(to) \in Nat /\ \A i \in 1..Len(to) : to[i] \in hears
  BY <1>2, InOrder
<1>5. ASSUME NEW i \in 1..Len(to), NEW p, NEW w \in Wave, NEW n \in Nodes,
             p = [Pkt("RX") EXCEPT !.node = n, !.src = w.src, !.start = w.start]
      PROVE  p \in McastPkt /\ p.type = "RX" /\ p.src \in Nodes
  BY <1>5 DEF Pkt, McastPkt, PktType, Wave
<1>6. ASSUME NEW i \in 1..Len(to)
      PROVE  rx[i] \in McastPkt /\ rx[i].type = "RX" /\ rx[i].src \in Nodes
  <2>1. to[i][1] \in 1..Len(order) /\ to[i][2] \in Nodes
    BY <1>3, <1>4
  <2>2. order[to[i][1]] \in Wave
    BY <2>1
  <2>3. rx[i] = [Pkt("RX") EXCEPT !.node = to[i][2], !.src = order[to[i][1]].src,
                                 !.start = order[to[i][1]].start]
    BY <1>1, <1>4
  <2> QED BY <1>5, <2>1, <2>2, <2>3
<1>7. DOMAIN rx = 1..Len(to) /\ rx \in [1..Len(to) -> McastPkt]
  BY <1>1, <1>4, <1>6
<1>8. rx \in Seq(McastPkt) /\ Len(rx) = Len(to)
  BY <1>4, <1>7
<1> QED BY <1>4, <1>6, <1>8

\* The packets that end the wait: only the last tells the next rendez-vous.
TellsRp(s, rp, dur) ==
  /\ s \in Seq(McastPkt) /\ Len(s) \in Nat \ {0}
  /\ \A i \in 1..Len(s) : i # Len(s) => s[i].type = "RX"
  /\ \A i \in 1..Len(s) : s[i].type \in {"RX", "SR_RX"} => s[i].src \in Nodes
  /\ s[Len(s)].type \in {"SYNC_RELEASE", "SR_RX"} /\ s[Len(s)].rp_next = rp
  /\ s[Len(s)].rp_duration = dur

LEMMA WithRpTells ==
  ASSUME NEW rx \in Seq(McastPkt), NEW rp \in Nat, NEW dur \in Nat,
         \A i \in 1..Len(rx) : rx[i].type = "RX" /\ rx[i].src \in Nodes
  PROVE  TellsRp(WithRp(rx, rp, dur), rp, dur)
<1>1. CASE rx = <<>>
  <2> DEFINE p == [Pkt("SYNC_RELEASE") EXCEPT !.rp_next = rp, !.rp_duration = dur]
  <2>1. p \in McastPkt /\ p.type = "SYNC_RELEASE" /\ p.rp_next = rp /\ p.rp_duration = dur
    BY DEF Pkt, McastPkt, PktType
  <2>2. WithRp(rx, rp, dur) = <<p>>
    BY <1>1 DEF WithRp
  <2> HIDE DEF p
  <2>3. /\ <<p>> \in Seq(McastPkt) /\ Len(<<p>>) = 1 /\ <<p>>[1] = p
    BY <2>1
  <2>4. TellsRp(<<p>>, rp, dur)
    BY <2>1, <2>3 DEF TellsRp
  <2> QED BY <2>2, <2>4
<1>2. CASE rx # <<>>
  <2> DEFINE n == Len(rx)
             p == [rx[n] EXCEPT !.type = "SR_RX", !.rp_next = rp, !.rp_duration = dur]
             s == [rx EXCEPT ![n] = p]
  <2>1. n \in Nat \ {0} /\ n \in 1..n /\ rx[n] \in McastPkt
    BY <1>2
  <2>2. /\ p \in McastPkt /\ p.type = "SR_RX" /\ p.rp_next = rp /\ p.rp_duration = dur
        /\ p.src = rx[n].src
    BY <2>1 DEF McastPkt, PktType
  <2>3. WithRp(rx, rp, dur) = s
    BY <1>2 DEF WithRp
  <2> HIDE DEF p
  <2>4. s \in Seq(McastPkt) /\ Len(s) = n /\ s[n] = p /\ \A i \in 1..n : i # n => s[i] = rx[i]
    BY <2>1, <2>2
  <2> HIDE DEF n, s
  <2>5. TellsRp(s, rp, dur)
    <3>1. \A i \in 1..n : rx[i].type = "RX" /\ rx[i].src \in Nodes
      BY DEF n
    <3> QED BY <2>1, <2>2, <2>4, <3>1 DEF TellsRp
  <2> QED BY <2>3, <2>5
<1> QED BY <1>1, <1>2

\* With the packets that tell nodes to leave before them.
RpTold(r, k, rp, dur) ==
  /\ Len(r) \in 1..Len(r) /\ r[Len(r)].type \in {"SYNC_RELEASE", "SR_RX"}
  /\ r[Len(r)].rp_next = rp /\ r[Len(r)].rp_duration = dur
  /\ \A i \in 1..Len(r) : i # Len(r) => r[i].type \in {"KILL", "RX"}
  /\ \A i \in 1..Len(r) : r[i].type = "KILL" => r[i].node \in k
  /\ \A x \in k : \E i \in 1..Len(r) : r[i].type = "KILL" /\ r[i].node = x

LEMMA TellsAll ==
  ASSUME NEW k \in SUBSET Nodes, NEW kills \in KillPkts(k), NEW s, NEW rp, NEW dur,
         TellsRp(s, rp, dur), NEW r, NumberedAs(r, kills \o s)
  PROVE  RpTold(r, k, rp, dur)
<1>1. /\ kills \in Seq(McastPkt) /\ Len(kills) \in Nat
      /\ \A i \in 1..Len(kills) : kills[i].type = "KILL" /\ kills[i].node \in k
      /\ \A x \in k : \E i \in 1..Len(kills) : kills[i].node = x
  BY KillPktsAre
<1>2. s \in Seq(McastPkt) /\ Len(s) \in Nat \ {0}
  BY DEF TellsRp
<1>3. PICK pkts : pkts = kills \o s
  OBVIOUS
<1>4. Joins(pkts, kills, s)
  BY <1>1, <1>2, <1>3, ConcatJoins
<1>5. NumberedAs(r, pkts)
  BY <1>3
<1>6. Len(pkts) = Len(kills) + Len(s)
  BY <1>4 DEF Joins
<1>7. Len(r) = Len(kills) + Len(s) /\ Len(r) \in 1..Len(r) /\ Len(s) \in 1..Len(s)
      /\ Len(r) = Len(kills) + Len(s)
  BY <1>1, <1>2, <1>5, <1>6 DEF NumberedAs
<1>8. /\ r[Len(r)].type = s[Len(s)].type /\ r[Len(r)].rp_next = s[Len(s)].rp_next
      /\ r[Len(r)].rp_duration = s[Len(s)].rp_duration
  <2>1. pkts[Len(r)] = s[Len(s)]
    BY <1>4, <1>7 DEF Joins
  <2> QED BY <1>5, <1>7, <2>1 DEF NumberedAs
<1>9. ASSUME NEW i \in 1..Len(r)
      PROVE  \/ i \in 1..Len(kills) /\ r[i].type = "KILL" /\ r[i].node = kills[i].node
             \/ i > Len(kills) /\ i # Len(r) /\ r[i].type = "RX"
             \/ i = Len(r)
  <2>1. CASE i <= Len(kills)
    <3>1. i \in 1..Len(kills) /\ pkts[i] = kills[i]
      BY <1>1, <1>4, <2>1 DEF Joins
    <3> QED BY <1>1, <1>5, <3>1 DEF NumberedAs
  <2>2. CASE i > Len(kills) /\ i # Len(r)
    <3>1. i \in 1..Len(pkts)
      BY <1>6, <1>7
    <3>2. i - Len(kills) \in 1..Len(s) /\ pkts[i] = s[i - Len(kills)]
      BY <1>1, <1>2, <1>4, <2>2, <3>1, Behind
    <3>3. i - Len(kills) # Len(s)
      BY <1>1, <1>2, <1>7, <2>2
    <3>4. pkts[i].type = "RX"
      BY <3>2, <3>3 DEF TellsRp
    <3> QED BY <1>5, <2>2, <3>4 DEF NumberedAs
  <2> QED BY <1>1, <2>1, <2>2
<1>10. s[Len(s)].type \in {"SYNC_RELEASE", "SR_RX"} /\ s[Len(s)].rp_next = rp
       /\ s[Len(s)].rp_duration = dur
  BY DEF TellsRp
<1>11. \A i \in 1..Len(r) : i # Len(r) => r[i].type \in {"KILL", "RX"}
  BY <1>9
<1>12. \A i \in 1..Len(r) : r[i].type = "KILL" => r[i].node \in k
  BY <1>1, <1>8, <1>9, <1>10
<1>13. ASSUME NEW x \in k PROVE \E i \in 1..Len(r) : r[i].type = "KILL" /\ r[i].node = x
  <2>1. PICK i \in 1..Len(kills) : kills[i].node = x
    BY <1>1
  <2>2. i \in 1..Len(r) /\ ~ (i > Len(kills)) /\ i # Len(r)
    BY <1>1, <1>2, <1>7
  <2> QED BY <1>9, <2>1, <2>2
<1> QED BY <1>7, <1>8, <1>10, <1>11, <1>12, <1>13 DEF RpTold

LEMMA EndedKeepsOn ==
  ASSUME NEW q \in Seq(McastPkt), NEW r \in Seq(McastPkt), NEW p, Joins(p, q, r), up,
         \A i \in 1..Len(q) : q[i].type # "BACKTRACK", Ended(r)
  PROVE  KeepsOn(p)
  BY KeepsOnJoin DEF KeepsOn

\* Nothing that has begun ends before the next rendez-vous.
Ahead == \A w \in air : w.end >= last + duration

LEMMA RendezVousParts ==
  ASSUME IInv, Ahead, RendezVous
  PROVE  \E k \in SUBSET (Killed \cap active), dur \in Nat, order \in Seq(Wave) :
         \E kills \in KillPkts(k), rx \in RxPkts(order) :
           /\ Multicast(kills \o WithRp(rx, rpseq + 1, dur))
           /\ last' = last + duration /\ duration' = dur /\ air' \subseteq air
           /\ (\A w \in air' : w.end >= last' + duration')
           /\ heard' \in Seq(Wave) /\ heard' = heard \o order
           /\ active' = active \ k /\ killed' = killed \cup k
<1> DEFINE now   == last + duration
           ended == {w \in air : w.end = now}
           rest  == air \ ended
           ends  == {w.end : w \in rest} \cup {now + Period}
           next  == CHOOSE e \in ends : \A f \in ends : e <= f
<1>1. PICK k \in SUBSET (Killed \cap active), order \in SetToSeqs(ended) :
        \E kills \in KillPkts(k), rx \in RxPkts(order) :
          /\ Multicast(kills \o WithRp(rx, rpseq + 1, next - now))
          /\ last' = now /\ duration' = next - now /\ air' = rest
          /\ heard' = heard \o order
          /\ active' = active \ k /\ killed' = killed \cup k
  BY DEF RendezVous
<1>2. TypeInv
  BY DEF IInv
<1>3. /\ last \in Nat /\ duration \in Nat /\ now \in Nat /\ air \subseteq Wave
      /\ heard \in Seq(Wave) /\ IsFiniteSet(air) /\ now + Period \in Nat /\ now <= now + Period
  BY <1>2, ServerAssumption DEF TypeInv, TypeOK, SrvTypeOK
<1>4. /\ rest \subseteq air /\ ended \subseteq air /\ now + Period \in ends
      /\ (\A w \in rest : w.end \in ends)
      /\ \A e \in ends : e = now + Period \/ \E w \in rest : e = w.end
  OBVIOUS
<1>5. \A w \in air : w.end \in Nat /\ now <= w.end
  BY <1>3 DEF Ahead, Wave
<1> HIDE DEF rest, ended, ends
<1>6. ends \in SUBSET Nat /\ \A e \in ends : now <= e
  BY <1>3, <1>4, <1>5
<1>7. next \in ends /\ \A f \in ends : next <= f
  <2>1. \E e \in ends : \A f \in ends : e <= f
    BY <1>4, <1>6, NatMin
  <2> QED BY <2>1
<1> HIDE DEF now, next
<1>8. next \in Nat /\ now \in Nat /\ now <= next
  BY <1>3, <1>6, <1>7
<1>9. next - now \in Nat /\ now + (next - now) = next
  BY <1>8
<1>10. order \in Seq(Wave)
  <2>1. IsFiniteSet(ended)
    BY <1>3, <1>4, FS_Subset
  <2>2. /\ DOMAIN order = 1..Len(order) /\ Len(order) \in Nat
        /\ \A i \in 1..Len(order) : order[i] \in ended
    BY <2>1, InOrder
  <2>3. order \in Seq(ended)
    BY <2>1, InOrder
  <2>4. \A i \in 1..Len(order) : order[i] \in Wave
    BY <1>3, <1>4, <2>2
  <2> QED BY <2>2, <2>3, <2>4
<1>11. \A w \in rest : w.end >= now + (next - now)
  BY <1>4, <1>5, <1>7, <1>8, <1>9
<1>12. now = last + duration
  BY DEF now
<1>13. heard \o order \in Seq(Wave)
  BY <1>3, <1>10
<1> QED BY <1>1, <1>4, <1>9, <1>10, <1>11, <1>12, <1>13

LEMMA RendezVousStep ==
  ASSUME IInv, Ahead, RendezVous
  PROVE  IInv'
<1>1. PICK k \in SUBSET (Killed \cap active), dur \in Nat, order \in Seq(Wave) :
         \E kills \in KillPkts(k), rx \in RxPkts(order) :
           /\ Multicast(kills \o WithRp(rx, rpseq + 1, dur))
           /\ last' = last + duration /\ duration' = dur /\ air' \subseteq air
           /\ (\A w \in air' : w.end >= last' + duration')
           /\ heard' \in Seq(Wave) /\ heard' = heard \o order
           /\ active' = active \ k /\ killed' = killed \cup k
  BY RendezVousParts
<1>2. PICK kills \in KillPkts(k), rx \in RxPkts(order) :
        Multicast(kills \o WithRp(rx, rpseq + 1, dur))
  BY <1>1
<1>3. /\ last' = last + duration /\ duration' = dur /\ air' \subseteq air
      /\ heard' \in Seq(Wave) /\ active' = active \ k /\ killed' = killed \cup k
  BY <1>1
<1>4. /\ up /\ up' = up /\ acked = active /\ acked' = {} /\ rpseq' = rpseq + 1
      /\ met' = met /\ UNCHANGED <<toServer, answer, joined, cltVars>>
  BY DEF RendezVous
<1>5. TypeInv /\ Connections /\ Members /\ Acked
  BY DEF IInv
<1>6. rpseq \in Nat /\ rpseq + 1 \in Nat /\ seq \in Nat /\ active \subseteq Nodes
      /\ killed \subseteq Nodes /\ met \subseteq Nodes /\ last \in Nat /\ duration \in Nat
      /\ air \subseteq Wave /\ IsFiniteSet(air) /\ joined \subseteq Nodes
  BY <1>5 DEF TypeInv, TypeOK, SrvTypeOK, CltTypeOK
<1>7. PICK s : s = WithRp(rx, rpseq + 1, dur)
  OBVIOUS
<1>8. TellsRp(s, rpseq + 1, dur)
  BY <1>6, <1>7, RxPktsAre, WithRpTells
<1>9. kills \in Seq(McastPkt) /\ (\A i \in 1..Len(kills) : kills[i].type = "KILL")
      /\ k \in SUBSET Nodes
  BY <1>6, KillPktsAre
<1>10. PICK pkts \in Seq(McastPkt) : pkts = kills \o s
  <2>1. s \in Seq(McastPkt)
    BY <1>8 DEF TellsRp
  <2>2. kills \o s \in Seq(McastPkt)
    BY <1>9, <2>1, ConcatJoins
  <2> QED BY <2>2
<1>11. \A i \in 1..Len(pkts) : pkts[i].type \in {"RX", "SR_RX"} => pkts[i].src \in Nodes
  <2>1. s \in Seq(McastPkt)
    BY <1>8 DEF TellsRp
  <2>2. Joins(pkts, kills, s) /\ Len(kills) \in Nat /\ Len(s) \in Nat
    BY <1>9, <1>10, <2>1, ConcatJoins
  <2>3. ASSUME NEW i \in 1..Len(pkts), pkts[i].type \in {"RX", "SR_RX"} PROVE pkts[i].src \in Nodes
    <3>1. CASE i <= Len(kills)
      BY <1>9, <2>2, <2>3, <3>1 DEF Joins
    <3>2. CASE i > Len(kills)
      <4>1. i - Len(kills) \in 1..Len(s) /\ pkts[i] = s[i - Len(kills)]
        BY <2>2, <3>2, Behind
      <4> QED BY <1>8, <2>3, <4>1 DEF TellsRp
    <3> QED BY <2>2, <3>1, <3>2
  <2> QED BY <2>3
<1>12. Multicast(pkts)
  BY <1>2, <1>7, <1>10
<1>13. PICK r \in Seq(McastPkt) :
           /\ NumberedAs(r, pkts) /\ seq' = seq + Len(r) /\ seq' \in Nat
           /\ mcast' \in [Nodes -> Seq(McastPkt)]
           /\ \A m \in Nodes : /\ m \in joined => Joins(mcast'[m], mcast[m], r)
                               /\ m \notin joined => mcast'[m] = mcast[m]
           /\ \A m \in Nodes : \A i \in 1..Len(mcast'[m]) :
                mcast'[m][i].type \in {"RX", "SR_RX"} => mcast'[m][i].src \in Nodes
  BY <1>5, <1>11, <1>12, MulticastEffect
<1>14. RpTold(r, k, rpseq + 1, dur)
  <2>1. NumberedAs(r, kills \o s)
    BY <1>10, <1>13
  <2> QED BY <1>8, <1>9, <2>1, TellsAll
<1>15. \A i \in 1..Len(r) : r[i].seq = seq + i - 1
  BY <1>13 DEF NumberedAs
<1>16. /\ Len(r) \in 1..Len(r) /\ r # <<>> /\ r[Len(r)].type \in {"SYNC_RELEASE", "SR_RX"}
       /\ r[Len(r)].rp_next = rpseq + 1 /\ r[Len(r)].rp_duration = dur
       /\ \A i \in 1..Len(r) : i # Len(r) => r[i].type \in {"KILL", "RX"}
  BY <1>14 DEF RpTold
<1>17. \A i \in 1..Len(r) : /\ Changing(r[i]) <=> i = Len(r)
                            /\ r[i].type \notin {"BACKTRACK", "SYNC_REMINDER", "KILLSIM"}
  BY <1>16 DEF Changing
<1>18. ASSUME NEW m \in joined PROVE MemberOf(m)'
  <2>1. Joins(mcast'[m], mcast[m], r) /\ mcast[m] \in Seq(McastPkt)
    BY <1>5, <1>6, <1>13 DEF TypeInv, NetType
  <2>2. UNCHANGED cltVars /\ killed \subseteq killed'
    BY <1>3, <1>4
  <2>3. CASE m \in killed
    BY <1>4, <2>1, <2>2, <2>3, ToldBroadcast
  <2>4. CASE m \notin killed
    <3>1. /\ m \in active /\ Waiting(m) /\ Good(m)
          /\ \A i \in 1..Len(mcast[m]) : ~ Changing(mcast[m][i])
      BY <1>4, <2>4, AtRendezVous
    <3>2. CASE m \in k
      <4>1. Doomed(mcast'[m], m)
        <5>1. PICK i \in 1..Len(r) : r[i].type = "KILL" /\ r[i].node = m
          BY <1>14, <3>2 DEF RpTold
        <5>2. i # Len(r)
          BY <1>16, <5>1
        <5>3. \A j \in 1..Len(r) : j < i => j # Len(r)
          BY <5>2
        <5>4. Tells(r[i], m) /\ \A j \in 1..Len(r) : j < i => ~ Changing(r[j])
          BY <1>17, <5>1, <5>3 DEF Tells
        <5>5. Doomed(r, m)
          BY <5>4 DEF Doomed
        <5> QED BY <2>1, <3>1, <5>5, DoomedJoin
      <4>2. KeepsOn(mcast[m])'
        <5>1. \A i \in 1..Len(mcast[m]) : mcast[m][i].type # "BACKTRACK"
          BY <3>1 DEF Changing
        <5>2. Ended(r)
          BY <1>16, <1>17 DEF Ended
        <5>3. KeepsOn(mcast'[m])
          BY <1>4, <2>1, <5>1, <5>2, EndedKeepsOn
        <5> QED BY <1>4, <5>3 DEF KeepsOn
      <4>3. ~ machine[m].kill
        BY <3>1 DEF Good
      <4>4. pc' = pc /\ wsens' = wsens /\ machine' = machine
        BY <2>2 DEF cltVars
      <4>5. Doomed(mcast[m], m)'
        BY <4>1 DEF Doomed, Tells, Changing
      <4>6. Leaving(m)'
        BY <3>1, <4>2, <4>3, <4>4, <4>5 DEF Leaving, Waiting
      <4>7. m \in killed'
        BY <1>3, <3>2
      <4> QED BY <4>6, <4>7 DEF MemberOf
    <3>3. CASE m \notin k
      <4>1. Untold(r, m)
        <5>1. ASSUME NEW i \in 1..Len(r), r[i].type = "KILL" PROVE r[i].node # m
          BY <1>14, <3>3, <5>1 DEF RpTold
        <5> QED BY <1>17, <5>1 DEF Untold, Tells
      <4>2. up' /\ m \in active' /\ m \notin killed'
        BY <1>3, <1>4, <2>4, <3>1, <3>3
      <4>3. /\ r # <<>> /\ rpseq' = rpseq + 1 /\ seq' = seq + Len(r)
            /\ duration' = r[Len(r)].rp_duration /\ r[Len(r)].rp_next = rpseq + 1
        BY <1>3, <1>4, <1>13, <1>16
      <4>4. \A i \in 1..Len(r) : Changing(r[i]) <=> i = Len(r)
        BY <1>17
      <4>5. \A i \in 1..Len(r) : r[i].type # "SYNC_REMINDER"
        BY <1>17
      <4> QED BY <1>4, <1>15, <2>1, <2>2, <2>4, <3>1, <4>1, <4>2, <4>3, <4>4, <4>5,
                 ChangingBroadcast
    <3> QED BY <3>2, <3>3
  <2> QED BY <2>3, <2>4
<1>19. OnTheWay' /\ toServer' \in Seq(ServerPkt)
  <2>1. ASSUME NEW x \in ServerPkt, PacketOf(x) PROVE PacketOf(x)'
    <3>1. x.type = "CONNECT_REQ" => answer'[x.node] = answer[x.node] /\ x.node \notin active'
      BY <1>3, <1>4, <2>1 DEF PacketOf
    <3>2. ASSUME x.type = "SYNC_ACK", x.node \in joined \ killed' PROVE x.rp_id # rpseq'
      <4>1. x.node \in joined \ killed /\ x.node \in Nodes
        BY <1>3, <1>6, <3>2
      <4>2. x.rp_id <= wsens[x.node].rpseq
        BY <2>1, <3>2, <4>1 DEF PacketOf
      <4>3. wsens[x.node].rpseq <= rpseq
        BY <1>5, <4>1 DEF Members, MemberOf, Good, GoodOf, Grows
      <4>4. x.rp_id \in Nat /\ wsens[x.node].rpseq \in Nat
        BY <1>5, <3>2, <4>1 DEF TypeInv, TypeOK, CltTypeOK, ServerPkt
      <4> QED BY <1>4, <1>6, <4>2, <4>3, <4>4
    <3>3. UNCHANGED cltVars /\ joined' = joined /\ killed \subseteq killed'
      BY <1>3, <1>4
    <3> QED BY <2>1, <3>1, <3>2, <3>3, PacketLeft
  <2>2. toServer' = toServer
    BY <1>4
  <2> QED BY <2>1, <2>2, OnTheWayStays
<1>20. SrvTypeOK' /\ IsFiniteSet(air')
  <2>1. IsFiniteSet(air')
    BY <1>3, <1>6, FS_Subset
  <2>2. last' \in Nat /\ duration' \in Nat /\ rpseq' \in Nat /\ seq' \in Nat /\ up' \in BOOLEAN
    BY <1>3, <1>4, <1>5, <1>6, <1>13 DEF TypeInv, TypeOK, SrvTypeOK
  <2>3. met' \subseteq Nodes /\ active' \subseteq Nodes /\ acked' \subseteq Nodes
        /\ killed' \subseteq Nodes /\ air' \subseteq Wave
    BY <1>3, <1>4, <1>6
  <2> QED BY <1>3, <2>1, <2>2, <2>3 DEF SrvTypeOK
<1>21. \A m \in acked' : AckedOf(m)'
  BY <1>4
<1>22. /\ active' \subseteq active /\ killed' \subseteq killed \cup active
       /\ acked' \subseteq active' /\ (up' => active' \cap killed' = {})
  <2>1. active \cap killed = {}
    BY <1>4, <1>5 DEF Connections
  <2> QED BY <1>3, <1>4, <2>1
<1>23. \A m \in active : pc[m] \notin Early
  BY <1>4, ActiveLate
<1>24. \A i \in 1..Len(r) : r[i].type = "KILLSIM" => ~ up' /\ i = Len(r)
  BY <1>17
<1>25. UNCHANGED <<cltVars, joined, answer>>
  BY <1>4
<1> QED BY <1>4, <1>13, <1>15, <1>18, <1>19, <1>20, <1>21, <1>22, <1>23, <1>24, <1>25,
           BroadcastStep

-----------------------------------------------------------------------------
(* The invariant. *)

LEMMA InitInv ==
  ASSUME Init
  PROVE  IInv /\ Ahead
<1>1. /\ toServer = <<>> /\ joined = {} /\ pc = [n \in Nodes |-> "off"]
      /\ answer = [n \in Nodes |-> <<>>] /\ mcast = [n \in Nodes |-> <<>>]
      /\ wsens = [n \in Nodes |-> [state |-> "connecting", seq |-> 0, rpseq |-> 1,
                                   l_rp |-> 0, n_rp |-> 0]]
      /\ machine = [n \in Nodes |-> [now |-> 0, next |-> 1, got |-> <<>>, kill |-> FALSE]]
      /\ backup = machine
  BY DEF Init, CltInit
<1>2. /\ met = {} /\ active = {} /\ acked = {} /\ killed = {} /\ last = 0 /\ duration = Period
      /\ rpseq = 1 /\ seq = 0 /\ air = {} /\ heard = <<>> /\ up = TRUE
  BY DEF Init, SrvInit
<1>3. program \in [Nodes -> Seq(Emission)]
  <2>1. program \in [Nodes -> UNION {Programs[n] : n \in Nodes}]
        /\ \A n \in Nodes : program[n] \in Programs[n]
    BY DEF Init, CltInit
  <2>2. \A n \in Nodes : program[n] \in Seq(Emission)
    BY <2>1, ClientAssumption
  <2> QED BY <2>1, <2>2
<1>4. CltTypeOK
  <2>1. pc \in [Nodes -> {"off", "subscribe", "join", "run", "update", "check",
                          "radio", "sync", "tx", "end", "closed"}]
    BY <1>1
  <2>2. wsens \in [Nodes -> [state : CltState, seq : Nat, rpseq : Nat, l_rp : Nat, n_rp : Nat]]
    BY <1>1 DEF CltState
  <2>3. machine \in [Nodes -> [now : Nat, next : Nat \ {0}, got : Seq(Nodes \X Nat),
                               kill : BOOLEAN]]
    <3>1. <<>> \in Seq(Nodes \X Nat)
      OBVIOUS
    <3> QED BY <1>1, <3>1
  <2> QED BY <1>1, <1>3, <2>1, <2>2, <2>3 DEF CltTypeOK
<1>5. SrvTypeOK /\ IsFiniteSet(air)
  BY <1>2, ServerAssumption, FS_EmptySet DEF SrvTypeOK
<1>6. NetType /\ Dates
  <2>1. toServer \in Seq(ServerPkt)
    BY <1>1
  <2>2. answer \in [Nodes -> Seq(AnswerPkt)]
    BY <1>1
  <2>3. mcast \in [Nodes -> Seq(McastPkt)] /\ \A n \in Nodes : Len(mcast[n]) = 0
    BY <1>1
  <2>4. Dates
    BY <1>1 DEF Dates
  <2> QED BY <2>1, <2>2, <2>3, <2>4 DEF NetType
<1>7. TypeInv
  BY <1>4, <1>5, <1>6 DEF TypeInv, TypeOK
<1>8. Members /\ Acked /\ OnTheWay
  BY <1>1, <1>2 DEF Members, Acked, OnTheWay
<1>9. Connections
  <2>1. ASSUME NEW n \in Nodes PROVE ConnectionOf(n)
    <3>1. pc[n] = "off" /\ answer[n] = <<>> /\ mcast[n] = <<>> /\ ~ machine[n].kill
          /\ ~ backup[n].kill
      BY <1>1
    <3> QED BY <1>1, <1>2, <3>1 DEF ConnectionOf
  <2> QED BY <1>2, <2>1 DEF Connections
<1>10. Ahead
  BY <1>2 DEF Ahead
<1> QED BY <1>7, <1>8, <1>9, <1>10 DEF IInv

LEMMA StutterStep ==
  ASSUME IInv, UNCHANGED vars
  PROVE  IInv'
<1>1. UNCHANGED netVars /\ UNCHANGED cltVars /\ UNCHANGED srvVars
  BY DEF vars
<1>2. /\ UNCHANGED cltVars /\ joined' = joined /\ toServer' = toServer /\ answer' = answer
      /\ mcast' = mcast
  BY <1>1 DEF netVars
<1>3. UNCHANGED <<met, active, acked, last, duration, rpseq, seq, air, heard, killed, up>>
  BY <1>1 DEF srvVars
<1>4. TypeInv /\ Members /\ Connections /\ Acked
  BY DEF IInv
<1>5. TypeInv'
  <2>1. SrvTypeOK' /\ IsFiniteSet(air')
    BY <1>3, <1>4 DEF TypeInv, TypeOK, SrvTypeOK
  <2>2. /\ toServer' \in Seq(ServerPkt) /\ answer' \in [Nodes -> Seq(AnswerPkt)]
        /\ mcast' \in [Nodes -> Seq(McastPkt)]
        /\ \A n \in Nodes : \A i \in 1..Len(mcast'[n]) :
             mcast'[n][i].type \in {"RX", "SR_RX"} => mcast'[n][i].src \in Nodes
    BY <1>2, <1>4 DEF TypeInv, NetType
  <2> QED BY <1>2, <1>4, <2>1, <2>2, SrvStepTypes
<1>6. ASSUME NEW m \in joined PROVE NumbersOf(m)' /\ MemberOf(m)'
  <2>1. NumbersOf(m) /\ MemberOf(m)
    BY <1>4 DEF Members
  <2>2. mcast'[m] = mcast[m] /\ (m \in active => m \in active')
        /\ UNCHANGED <<duration, rpseq, seq, killed, up>>
    BY <1>2, <1>3
  <2> QED BY <1>2, <2>1, <2>2, SrvLeaves
<1>7. Members'
  BY <1>2, <1>6 DEF Members
<1>8. ASSUME NEW m \in Nodes PROVE ConnectionOf(m)'
  <2>1. ConnectionOf(m)
    BY <1>4 DEF Connections
  <2> QED BY <1>2, <1>3, <2>1 DEF ConnectionOf, Early, cltVars
<1>9. Connections'
  BY <1>3, <1>4, <1>8 DEF Connections
<1>10. OnTheWay'
  <2>1. ASSUME NEW p \in ServerPkt, PacketOf(p) PROVE PacketOf(p)'
    <3>1. p.type = "CONNECT_REQ" => answer'[p.node] = answer[p.node] /\ p.node \notin active'
      BY <1>2, <1>3, <2>1 DEF PacketOf
    <3>2. killed \subseteq killed' /\ rpseq' = rpseq
      BY <1>3
    <3> QED BY <1>2, <2>1, <3>1, <3>2, PacketLeft
  <2> QED BY <1>2, <2>1, OnTheWayStays
<1>11. Acked'
  BY <1>2, <1>3, <1>4 DEF Acked, AckedOf, Waiting, cltVars
<1> QED BY <1>5, <1>7, <1>9, <1>10, <1>11 DEF IInv

LEMMA AheadStep ==
  ASSUME IInv, Ahead, [Next]_vars
  PROVE  Ahead'
<1>1. /\ last \in Nat /\ duration \in Nat /\ air \subseteq Wave
  BY DEF IInv, TypeInv, TypeOK, SrvTypeOK
<1>2. \A w \in air : w.end \in Nat /\ w.end >= last + duration
  BY <1>1 DEF Ahead, Wave
<1>3. CASE UNCHANGED <<last, duration, air>>
  BY <1>3 DEF Ahead
<1>4. ASSUME NEW n \in Nodes, TxAccepted(n) PROVE Ahead'
  <2> DEFINE v == WaveOf(Head(toServer))
  <2>1. /\ v.end >= last + duration \/ v \in air
        /\ air' = air \cup {v} /\ last' = last /\ duration' = duration
    BY <1>4 DEF TxAccepted
  <2> HIDE DEF v
  <2> QED BY <1>2, <2>1 DEF Ahead
<1>5. ASSUME NEW n \in Nodes, TxBacktrack(n) PROVE Ahead'
  <2> DEFINE v == WaveOf(Head(toServer))
  <2>1. /\ From(n, "BYTE_TX") /\ v.end < last + duration /\ duration' = v.end - last
        /\ air' = {x \in air : x.start <= v.end} \cup {v} /\ last' = last
    BY <1>5 DEF TxBacktrack
  <2>2. v \in Wave
    BY <2>1, TxFacts
  <2> HIDE DEF v
  <2>3. v.end \in Nat
    BY <2>2 DEF Wave
  <2>4. last' + duration' = v.end
    BY <1>1, <2>1, <2>3
  <2>5. \A w \in air' : w.end >= v.end
    BY <1>1, <1>2, <2>1, <2>3
  <2> QED BY <2>4, <2>5 DEF Ahead
<1>6. CASE RendezVous
  BY <1>6, RendezVousParts DEF Ahead
<1> QED BY <1>3, <1>4, <1>5, <1>6 DEF Next, SrvNext, Node, srvVars, vars, Grant, Refuse, Ack,
           Disconnect, TxDropped, KillSim

LEMMA InvStep ==
  ASSUME IInv, Ahead, [Next]_vars
  PROVE  IInv'
<1>1. CASE UNCHANGED vars
  BY <1>1, StutterStep
<1>2. ASSUME NEW n \in Nodes, Node(n) PROVE IInv'
  BY <1>2, NodeStep
<1>3. CASE RendezVous
  BY <1>3, RendezVousStep
<1>4. CASE KillSim
  BY <1>4, KillSimStep
<1>5. ASSUME NEW n \in Nodes, NEW names \in Models, Grant(n, names) PROVE IInv'
  BY <1>5, GrantStep
<1>6. ASSUME NEW n \in Nodes,
             Refuse(n) \/ Ack(n) \/ Disconnect(n) \/ TxDropped(n) \/ TxAccepted(n) \/ TxBacktrack(n)
      PROVE  IInv'
  BY <1>6, RefuseStep, AckStep, DisconnectStep, TxDroppedStep, TxAcceptedStep, TxBacktrackStep
<1> QED BY <1>1, <1>2, <1>3, <1>4, <1>5, <1>6 DEF Next, SrvNext

\* The server and its nodes stay together: what every member of the group
\* knows, and what is in its socket, bring it to the server's rendez-vous.
THEOREM Together == Spec => [](IInv /\ Ahead)
<1>1. Init => IInv /\ Ahead
  BY InitInv
<1>2. IInv /\ Ahead /\ [Next]_vars => (IInv /\ Ahead)'
  BY InvStep, AheadStep
<1> QED BY <1>1, <1>2, PTL DEF Spec

\* The variables of libwsnet/wsnet2_net.c and of the server keep their types.
THEOREM TypeCorrect == Spec => []TypeOK
<1>1. IInv => TypeOK
  BY DEF IInv, TypeInv
<1> QED BY <1>1, Together, PTL

\* wsnet2_seq, wsnet2_sync_release and wsnet2_sync_reminder never meet the
\* error they look for: only a node that is told to leaves the simulation.
THEOREM NeverDesynchronized == Spec => []NoProtocolError
<1>1. IInv => NoProtocolError
  BY DEF IInv, Members, MemberOf, Good, NoProtocolError
<1> QED BY <1>1, Together, PTL

\* A node that has parsed its packets agrees with the server on the number of
\* the next one and on the next rendez-vous, though machine_state_restore
\* never takes wsens back.
THEOREM AgreesAlways == Spec => []Agrees
<1>1. ASSUME IInv PROVE Agrees
  <2>1. ASSUME NEW n \in Nodes, UpToDate(n)
        PROVE  /\ wsens[n].seq = seq /\ wsens[n].rpseq = rpseq
               /\ wsens[n].n_rp - wsens[n].l_rp = duration
    <3>1. n \in joined /\ ~ machine[n].kill /\ mcast[n] = <<>> /\ Len(mcast[n]) = 0
      BY <2>1 DEF UpToDate, Live
    <3>2. ~ Doomed(mcast[n], n)
      BY <3>1 DEF Doomed
    <3>3. ~ Leaving(n)
      BY <3>1, <3>2 DEF Leaving
    <3>4. GoodOf(wsens[n], mcast[n], n, Waiting(n), seq, rpseq, duration)
      BY <1>1, <3>1, <3>3 DEF IInv, Members, MemberOf, Good
    <3>5. /\ wsens[n].seq + 0 = seq /\ Knows(wsens[n], mcast[n], 0, rpseq)
          /\ Distant(wsens[n], mcast[n], 0, duration)
      BY <3>1, <3>4 DEF GoodOf
    <3>6. wsens[n].rpseq = rpseq /\ wsens[n].n_rp = wsens[n].l_rp + duration
      BY <3>5 DEF Knows, Distant
    <3>7. wsens[n].seq \in Nat /\ wsens[n].l_rp \in Nat /\ duration \in Nat
      BY <1>1 DEF IInv, TypeInv, TypeOK, CltTypeOK, SrvTypeOK
    <3> QED BY <3>5, <3>6, <3>7
  <2> QED BY <2>1 DEF Agrees
<1> QED BY <1>1, Together, PTL

-----------------------------------------------------------------------------
(* What a node hears. *)

RxType == {"RX", "SR_RX"}
ForMe(p, n) == p.type \in RxType /\ p.node = n

\* The places in h of what n hears.
Hearing(h, n) == {k \in 1..Len(h) : Hears(n, h[k])}

\* What n has received is at the places up to 0, what it has to parse behind.
Places(g, q, n) == {s \in 1 - Len(g)..Len(q) : s >= 1 => ForMe(q[s], n)}

Tag(w) == <<w.src, w.start>>
TagAt(g, q, s) == IF s <= 0 THEN g[Len(g) + s] ELSE Tag(q[s])

\* Together they are what n hears of h, in order: e tells where each is in h.
Follows(g, q, n, h, e) ==
  /\ \A s \in Places(g, q, n) : e[s] \in Hearing(h, n) /\ TagAt(g, q, s) = Tag(h[e[s]])
  /\ \A s, t \in Places(g, q, n) : s < t => e[s] < e[t]
  /\ \A k \in Hearing(h, n) : \E s \in Places(g, q, n) : e[s] = k

\* The same things at other places: v tells where they were.
LEMMA Moved ==
  ASSUME NEW g, NEW q, NEW n, NEW h, NEW e, Follows(g, q, n, h, e), NEW a, NEW r, NEW f, NEW v,
         \A s \in Places(a, r, n) : /\ v[s] \in Places(g, q, n) /\ f[s] = e[v[s]]
                                    /\ TagAt(a, r, s) = TagAt(g, q, v[s]),
         \A s, t \in Places(a, r, n) : s < t => v[s] < v[t],
         \A p \in Places(g, q, n) : \E s \in Places(a, r, n) : v[s] = p
  PROVE  Follows(a, r, n, h, f)
<1>1. \A s \in Places(a, r, n) : f[s] \in Hearing(h, n) /\ TagAt(a, r, s) = Tag(h[f[s]])
  BY DEF Follows
<1>2. \A s, t \in Places(a, r, n) : s < t => f[s] < f[t]
  BY DEF Follows
<1>3. ASSUME NEW k \in Hearing(h, n) PROVE \E s \in Places(a, r, n) : f[s] = k
  <2>1. PICK p \in Places(g, q, n) : e[p] = k
    BY DEF Follows
  <2>2. PICK s \in Places(a, r, n) : v[s] = p
    OBVIOUS
  <2> QED BY <2>1, <2>2
<1> QED BY <1>1, <1>2, <1>3 DEF Follows

LEMMA PlacesAre ==
  ASSUME NEW g, NEW q, NEW n, Len(g) \in Nat, Len(q) \in Nat, NEW s
  PROVE  s \in Places(g, q, n) <=>
           /\ s \in Int /\ 1 - Len(g) <= s /\ s <= Len(q) /\ (s >= 1 => ForMe(q[s], n))
BY DEF Places

\* The first packet is not for n.
LEMMA FollowsSkip ==
  ASSUME NEW S, NEW g \in Seq(S), NEW q \in Seq(McastPkt), q # <<>>, NEW n, NEW h, NEW e,
         Follows(g, q, n, h, e), ~ ForMe(q[1], n)
  PROVE  \E f : Follows(g, Tail(q), n, h, f)
<1> DEFINE t == Tail(q)
           v == [s \in Int |-> IF s <= 0 THEN s ELSE s + 1]
           u == [s \in Int |-> IF s <= 0 THEN s ELSE s - 1]
           f == [s \in Int |-> e[v[s]]]
<1>1. /\ Len(q) \in Nat \ {0} /\ Len(t) = Len(q) - 1 /\ Len(g) \in Nat /\ Len(t) \in Nat
      /\ \A i \in 1..Len(t) : t[i] = q[i + 1]
  BY TailOf
<1> HIDE DEF t
<1>2. ASSUME NEW s \in Places(g, t, n)
      PROVE  s \in Int /\ v[s] \in Places(g, q, n) /\ TagAt(g, t, s) = TagAt(g, q, v[s])
  <2>1. s \in Int /\ 1 - Len(g) <= s /\ s <= Len(t) /\ (s >= 1 => ForMe(t[s], n))
    BY <1>1, PlacesAre
  <2>2. CASE s <= 0
    <3>1. v[s] = s
      BY <2>1, <2>2
    <3> HIDE DEF v
    <3>2. s \in Places(g, q, n)
      BY <1>1, <2>1, <2>2, PlacesAre
    <3> QED BY <2>1, <2>2, <3>1, <3>2 DEF TagAt
  <2>3. CASE s > 0
    <3>1. v[s] = s + 1 /\ t[s] = q[s + 1] /\ ~ (s <= 0) /\ ~ (s + 1 <= 0)
      BY <1>1, <2>1, <2>3
    <3> HIDE DEF v
    <3>2. s + 1 \in Places(g, q, n)
      <4>1. s + 1 \in Int /\ 1 - Len(g) <= s + 1 /\ s + 1 <= Len(q) /\ ForMe(q[s + 1], n)
        BY <1>1, <2>1, <2>3, <3>1
      <4> QED BY <1>1, <4>1, PlacesAre
    <3> QED BY <2>1, <2>3, <3>1, <3>2 DEF TagAt
  <2> QED BY <2>1, <2>2, <2>3
<1>3. \A s, x \in Int : s < x => v[s] < v[x]
  OBVIOUS
<1>4. ASSUME NEW p \in Places(g, q, n) PROVE \E s \in Places(g, t, n) : v[s] = p
  <2>1. p \in Int /\ 1 - Len(g) <= p /\ p <= Len(q) /\ (p >= 1 => ForMe(q[p], n)) /\ p # 1
    BY <1>1, PlacesAre
  <2>2. u[p] \in Int /\ v[u[p]] = p
    BY <2>1
  <2>3. u[p] \in Places(g, t, n)
    <3>1. CASE p <= 0
      <4>1. u[p] = p
        BY <2>1, <3>1
      <4> HIDE DEF u
      <4> QED BY <1>1, <2>1, <3>1, <4>1, PlacesAre
    <3>2. CASE p > 1
      <4>1. u[p] = p - 1 /\ t[p - 1] = q[p]
        <5>1. p - 1 \in 1..Len(t) /\ (p - 1) + 1 = p
          BY <1>1, <2>1, <3>2
        <5> QED BY <1>1, <2>1, <3>2, <5>1
      <4> HIDE DEF u
      <4>2. p - 1 \in Int /\ 1 - Len(g) <= p - 1 /\ p - 1 <= Len(t) /\ ForMe(t[p - 1], n)
        BY <1>1, <2>1, <3>2, <4>1
      <4> QED BY <1>1, <4>1, <4>2, PlacesAre
    <3> QED BY <2>1, <3>1, <3>2
  <2> QED BY <2>2, <2>3
<1>5. \A s \in Places(g, t, n) : f[s] = e[v[s]]
  <2> HIDE DEF v
  <2> QED BY <1>2
<1> HIDE DEF v, f, u
<1>6. \A s, x \in Places(g, t, n) : s < x => v[s] < v[x]
  BY <1>2, <1>3
<1>7. Follows(g, t, n, h, f)
  BY <1>2, <1>4, <1>5, <1>6, Moved
<1> QED BY <1>7 DEF t

\* The first packet is for n.
LEMMA FollowsTake ==
  ASSUME NEW S, NEW g \in Seq(S), NEW q \in Seq(McastPkt), q # <<>>, NEW n, NEW h, NEW e,
         Follows(g, q, n, h, e), ForMe(q[1], n), Tag(q[1]) \in S
  PROVE  \E f : Follows(Append(g, Tag(q[1])), Tail(q), n, h, f)
<1> DEFINE t == Tail(q)
           a == Append(g, Tag(q[1]))
           v == [s \in Int |-> s + 1]
           f == [s \in Int |-> e[s + 1]]
<1>1. /\ Len(q) \in Nat \ {0} /\ Len(t) = Len(q) - 1 /\ Len(g) \in Nat /\ Len(t) \in Nat
      /\ \A i \in 1..Len(t) : t[i] = q[i + 1]
  BY TailOf
<1>2. PICK x \in S : x = Tag(q[1])
  OBVIOUS
<1>3. /\ Len(a) = Len(g) + 1 /\ a[Len(g) + 1] = Tag(q[1])
      /\ \A i \in 1..Len(g) : a[i] = g[i]
  <2>1. Append(g, x) = a
    BY <1>2
  <2> HIDE DEF a
  <2> QED BY <1>2, <2>1
<1> HIDE DEF t, a
<1>4. \A s \in Int : v[s] = s + 1
  OBVIOUS
<1>5. \A s \in Int : f[s] = e[s + 1]
  OBVIOUS
<1> HIDE DEF v, f
<1>6. ASSUME NEW s \in Places(a, t, n)
      PROVE  s \in Int /\ s + 1 \in Places(g, q, n) /\ TagAt(a, t, s) = TagAt(g, q, s + 1)
  <2>1. s \in Int /\ 1 - Len(a) <= s /\ s <= Len(t) /\ (s >= 1 => ForMe(t[s], n))
    BY <1>1, <1>3, PlacesAre
  <2>2. s + 1 \in Int /\ 1 - Len(g) <= s + 1 /\ s + 1 <= Len(q)
    BY <1>1, <1>3, <2>1
  <2>3. CASE s < 0
    <3>1. ~ (s + 1 >= 1) /\ s + 1 <= 0 /\ s <= 0 /\ Len(g) + (s + 1) \in 1..Len(g)
          /\ Len(a) + s = Len(g) + (s + 1)
      BY <1>1, <1>3, <2>1, <2>2, <2>3
    <3>2. a[Len(a) + s] = g[Len(g) + (s + 1)]
      BY <1>3, <3>1
    <3> QED BY <1>1, <2>1, <2>2, <3>1, <3>2, PlacesAre DEF TagAt
  <2>4. CASE s = 0
    <3>1. s + 1 = 1 /\ Len(a) + s = Len(g) + 1 /\ ~ (1 <= 0) /\ s <= 0
      BY <1>1, <1>3, <2>4
    <3>2. TagAt(a, t, s) = Tag(q[1]) /\ TagAt(g, q, 1) = Tag(q[1])
      BY <1>3, <3>1 DEF TagAt
    <3>3. 1 \in Places(g, q, n)
      BY <1>1, <2>2, <3>1, PlacesAre
    <3> QED BY <2>1, <3>1, <3>2, <3>3
  <2>5. CASE s > 0
    <3>1. t[s] = q[s + 1] /\ ~ (s <= 0) /\ ~ (s + 1 <= 0) /\ ForMe(q[s + 1], n)
      BY <1>1, <2>1, <2>5
    <3> QED BY <1>1, <2>1, <2>2, <3>1, PlacesAre DEF TagAt
  <2> QED BY <2>1, <2>3, <2>4, <2>5
<1>7. ASSUME NEW p \in Places(g, q, n) PROVE p - 1 \in Places(a, t, n) /\ p \in Int
  <2>1. p \in Int /\ 1 - Len(g) <= p /\ p <= Len(q) /\ (p >= 1 => ForMe(q[p], n))
    BY <1>1, PlacesAre
  <2>2. p - 1 \in Int /\ 1 - Len(a) <= p - 1 /\ p - 1 <= Len(t) /\ (p - 1) + 1 = p
    BY <1>1, <1>3, <2>1
  <2>3. p - 1 >= 1 => t[p - 1] = q[p]
    <3>1. p - 1 >= 1 => p - 1 \in 1..Len(t)
      BY <2>2
    <3> QED BY <1>1, <2>2, <3>1
  <2>4. p - 1 >= 1 => p >= 1
    BY <2>1
  <2>5. p - 1 >= 1 => ForMe(t[p - 1], n)
    BY <2>1, <2>3, <2>4
  <2> QED BY <1>1, <1>3, <2>1, <2>2, <2>5, PlacesAre
<1>8. \A s \in Places(a, t, n) : /\ v[s] \in Places(g, q, n) /\ f[s] = e[v[s]]
                                 /\ TagAt(a, t, s) = TagAt(g, q, v[s])
  BY <1>4, <1>5, <1>6
<1>9. ASSUME NEW s \in Places(a, t, n), NEW y \in Places(a, t, n), s < y PROVE v[s] < v[y]
  <2>1. s \in Int /\ y \in Int /\ v[s] = s + 1 /\ v[y] = y + 1
    BY <1>4, <1>6
  <2> QED BY <1>9, <2>1
<1>10. ASSUME NEW p \in Places(g, q, n) PROVE \E s \in Places(a, t, n) : v[s] = p
  <2>1. p - 1 \in Places(a, t, n) /\ p - 1 \in Int /\ (p - 1) + 1 = p
    BY <1>7
  <2> QED BY <1>4, <2>1
<1>11. Follows(a, t, n, h, f)
  BY <1>8, <1>9, <1>10, Moved
<1> QED BY <1>11 DEF t, a

\* More packets behind, r, that tell more of what ends, o.
LEMMA FollowsMore ==
  ASSUME NEW S, NEW g \in Seq(S), NEW q \in Seq(McastPkt), NEW r \in Seq(McastPkt), NEW p,
         Joins(p, q, r), NEW n, NEW h \in Seq(Wave), NEW o \in Seq(Wave), NEW e, NEW m,
         Follows(g, q, n, h, e), Follows(<<>>, r, n, o, m)
  PROVE  \E f : Follows(g, p, n, h \o o, f)
<1> DEFINE b == h \o o
           f == [s \in Int |-> IF s <= Len(q) THEN e[s] ELSE Len(h) + m[s - Len(q)]]
<1>1. /\ Len(g) \in Nat /\ Len(q) \in Nat /\ Len(r) \in Nat /\ Len(h) \in Nat /\ Len(o) \in Nat
      /\ Len(p) \in Nat /\ Len(p) = Len(q) + Len(r) /\ Len(<<>>) = 0
  BY DEF Joins
<1>2. /\ Len(b) = Len(h) + Len(o) /\ \A k \in 1..Len(h) : b[k] = h[k]
      /\ \A k \in 1..Len(o) : b[Len(h) + k] = o[k]
  OBVIOUS
<1>3. \A s \in Int : f[s] = IF s <= Len(q) THEN e[s] ELSE Len(h) + m[s - Len(q)]
  OBVIOUS
<1> HIDE DEF b, f
<1>4. \A k \in Hearing(h, n) : k \in 1..Len(h) /\ k \in Hearing(b, n) /\ b[k] = h[k]
  BY <1>1, <1>2 DEF Hearing
<1>5. ASSUME NEW k \in Hearing(o, n)
      PROVE  k \in 1..Len(o) /\ Len(h) + k \in Hearing(b, n) /\ b[Len(h) + k] = o[k]
  <2>1. k \in 1..Len(o) /\ Hears(n, o[k])
    BY DEF Hearing
  <2>2. Len(h) + k \in 1..Len(b) /\ b[Len(h) + k] = o[k]
    BY <1>1, <1>2, <2>1
  <2> QED BY <2>1, <2>2 DEF Hearing
<1>6. ASSUME NEW s \in Places(g, p, n), s <= Len(q)
      PROVE  /\ s \in Int /\ s \in Places(g, q, n) /\ TagAt(g, p, s) = TagAt(g, q, s) /\ f[s] = e[s]
             /\ f[s] \in 1..Len(h) /\ f[s] \in Hearing(b, n) /\ TagAt(g, p, s) = Tag(b[f[s]])
  <2>1. s \in Int /\ 1 - Len(g) <= s /\ s <= Len(p) /\ (s >= 1 => ForMe(p[s], n))
    BY <1>1, PlacesAre
  <2>2. s >= 1 => p[s] = q[s]
    BY <1>1, <1>6, <2>1 DEF Joins
  <2>3. s \in Places(g, q, n)
    BY <1>1, <1>6, <2>1, <2>2, PlacesAre
  <2>4. TagAt(g, p, s) = TagAt(g, q, s)
    BY <2>1, <2>2 DEF TagAt
  <2>5. f[s] = e[s]
    BY <1>3, <1>6, <2>1
  <2>6. e[s] \in Hearing(h, n) /\ TagAt(g, q, s) = Tag(h[e[s]])
    BY <2>3 DEF Follows
  <2> QED BY <1>4, <2>1, <2>3, <2>4, <2>5, <2>6
<1>7. ASSUME NEW s \in Places(g, p, n), s > Len(q), NEW x, x = s - Len(q)
      PROVE  /\ s \in Int /\ x \in Places(<<>>, r, n) /\ x \in Int /\ f[s] = Len(h) + m[x]
             /\ m[x] \in 1..Len(o) /\ f[s] \in Hearing(b, n) /\ TagAt(g, p, s) = Tag(b[f[s]])
  <2>1. s \in Int /\ s <= Len(p) /\ (s >= 1 => ForMe(p[s], n))
    BY <1>1, PlacesAre
  <2>2. s \in 1..Len(p) /\ ~ (s <= 0) /\ ~ (s <= Len(q))
    BY <1>1, <1>7, <2>1
  <2>3. x \in 1..Len(r) /\ p[s] = r[x]
    BY <1>1, <1>7, <2>2, Behind
  <2>4. x \in Int /\ 1 - 0 <= x /\ x <= Len(r) /\ ForMe(r[x], n) /\ ~ (x <= 0)
    BY <1>1, <2>1, <2>2, <2>3
  <2>5. x \in Places(<<>>, r, n)
    BY <1>1, <2>4, PlacesAre
  <2>6. TagAt(g, p, s) = Tag(r[x]) /\ TagAt(<<>>, r, x) = Tag(r[x])
    BY <2>2, <2>3, <2>4 DEF TagAt
  <2>7. m[x] \in Hearing(o, n) /\ TagAt(<<>>, r, x) = Tag(o[m[x]])
    BY <2>5 DEF Follows
  <2>8. f[s] = Len(h) + m[x]
    BY <1>3, <1>7, <2>1, <2>2
  <2> QED BY <1>5, <2>1, <2>4, <2>5, <2>6, <2>7, <2>8
<1>8. ASSUME NEW s \in Places(g, p, n) PROVE s \in Int
  BY <1>1, PlacesAre
<1>9. ASSUME NEW s \in Places(g, p, n) PROVE f[s] \in Hearing(b, n) /\ TagAt(g, p, s) = Tag(b[f[s]])
  <2>1. s <= Len(q) \/ s > Len(q)
    BY <1>1, <1>8
  <2> QED BY <1>6, <1>7, <2>1
<1>10. ASSUME NEW s \in Places(g, p, n), NEW y \in Places(g, p, n), s < y PROVE f[s] < f[y]
  <2>1. s \in Int /\ y \in Int
    BY <1>8
  <2>2. CASE y <= Len(q)
    <3>1. s <= Len(q)
      BY <1>1, <1>10, <2>1, <2>2
    <3>2. s \in Places(g, q, n) /\ y \in Places(g, q, n) /\ f[s] = e[s] /\ f[y] = e[y]
      BY <1>6, <2>2, <3>1
    <3> QED BY <1>10, <3>2 DEF Follows
  <2>3. CASE s <= Len(q) /\ y > Len(q)
    <3>1. f[s] \in 1..Len(h)
      BY <1>6, <2>3
    <3>2. PICK x : x = y - Len(q)
      OBVIOUS
    <3>3. f[y] = Len(h) + m[x] /\ m[x] \in 1..Len(o)
      BY <1>7, <2>3, <3>2
    <3> QED BY <1>1, <3>1, <3>3
  <2>4. CASE s > Len(q) /\ y > Len(q)
    <3>1. PICK x : x = y - Len(q)
      OBVIOUS
    <3>2. PICK z : z = s - Len(q)
      OBVIOUS
    <3>3. f[y] = Len(h) + m[x] /\ m[x] \in 1..Len(o) /\ x \in Places(<<>>, r, n) /\ x \in Int
      BY <1>7, <2>4, <3>1
    <3>4. f[s] = Len(h) + m[z] /\ m[z] \in 1..Len(o) /\ z \in Places(<<>>, r, n) /\ z \in Int
      BY <1>7, <2>4, <3>2
    <3>5. z < x
      BY <1>1, <1>10, <2>1, <3>1, <3>2
    <3>6. m[z] < m[x]
      BY <3>3, <3>4, <3>5 DEF Follows
    <3> QED BY <1>1, <3>3, <3>4, <3>6
  <2> QED BY <1>1, <2>1, <2>2, <2>3, <2>4
<1>11. ASSUME NEW k \in Hearing(b, n) PROVE \E s \in Places(g, p, n) : f[s] = k
  <2>1. k \in 1..Len(b) /\ Hears(n, b[k])
    BY DEF Hearing
  <2>2. CASE k <= Len(h)
    <3>1. k \in 1..Len(h) /\ b[k] = h[k]
      BY <1>1, <1>2, <2>1, <2>2
    <3>2. k \in Hearing(h, n)
      BY <2>1, <3>1 DEF Hearing
    <3>3. PICK s \in Places(g, q, n) : e[s] = k
      BY <3>2 DEF Follows
    <3>4. s \in Int /\ 1 - Len(g) <= s /\ s <= Len(q) /\ (s >= 1 => ForMe(q[s], n))
      BY <1>1, PlacesAre
    <3>5. s >= 1 => p[s] = q[s]
      BY <1>1, <3>4 DEF Joins
    <3>6. s <= Len(p)
      BY <1>1, <3>4
    <3>7. s \in Places(g, p, n)
      BY <1>1, <3>4, <3>5, <3>6, PlacesAre
    <3> QED BY <1>6, <3>3, <3>4, <3>7
  <2>3. CASE k > Len(h)
    <3>1. PICK j : j = k - Len(h)
      OBVIOUS
    <3>2. j \in 1..Len(o) /\ k = Len(h) + j
      BY <1>1, <1>2, <2>1, <2>3, <3>1
    <3>3. b[k] = o[j]
      BY <1>2, <3>2
    <3>4. j \in Hearing(o, n)
      BY <2>1, <3>2, <3>3 DEF Hearing
    <3>5. PICK x \in Places(<<>>, r, n) : m[x] = j
      BY <3>4 DEF Follows
    <3>6. x \in Int /\ 1 - 0 <= x /\ x <= Len(r) /\ (x >= 1 => ForMe(r[x], n))
      BY <1>1, PlacesAre
    <3>7. x \in 1..Len(r) /\ ForMe(r[x], n)
      BY <1>1, <3>6
    <3>8. PICK s : s = Len(q) + x
      OBVIOUS
    <3>9. p[s] = r[x] /\ s \in Int /\ s > Len(q) /\ x = s - Len(q) /\ s <= Len(p) /\ 1 - Len(g) <= s
      BY <1>1, <3>7, <3>8 DEF Joins
    <3>10. s \in Places(g, p, n)
      BY <1>1, <3>7, <3>9, PlacesAre
    <3>11. f[s] = Len(h) + m[x]
      BY <1>7, <3>9, <3>10
    <3> QED BY <3>2, <3>5, <3>10, <3>11
  <2> QED BY <1>1, <2>1, <2>2, <2>3
<1>12. Follows(g, p, n, b, f)
  BY <1>9, <1>10, <1>11 DEF Follows
<1> QED BY <1>12 DEF b

\* r says the same to n as s.
LEMMA Alike ==
  ASSUME NEW s, NEW r, Len(s) \in Nat, Len(r) = Len(s), NEW n, NEW o, NEW m,
         \A i \in 1..Len(s) : (ForMe(r[i], n) <=> ForMe(s[i], n)) /\ Tag(r[i]) = Tag(s[i]),
         Follows(<<>>, s, n, o, m)
  PROVE  Follows(<<>>, r, n, o, m)
<1>1. Len(<<>>) = 0 /\ Len(<<>>) \in Nat
  OBVIOUS
<1>2. ASSUME NEW x, NEW y, Len(x) = Len(s), Len(y) = Len(s), NEW i \in Places(<<>>, x, n),
             \A j \in 1..Len(s) : ForMe(x[j], n) => ForMe(y[j], n)
      PROVE  i \in Int /\ i \in 1..Len(s) /\ i \in Places(<<>>, y, n)
  <2>1. i \in Int /\ 1 - Len(<<>>) <= i /\ i <= Len(x) /\ (i >= 1 => ForMe(x[i], n))
    BY <1>1, <1>2, PlacesAre
  <2>2. i \in 1..Len(s) /\ i >= 1 /\ i <= Len(y)
    BY <1>1, <1>2, <2>1
  <2>3. ForMe(y[i], n)
    BY <1>2, <2>1, <2>2
  <2> QED BY <1>1, <1>2, <2>1, <2>2, <2>3, PlacesAre
<1>3. \A i \in Places(<<>>, r, n) : i \in Int /\ i \in 1..Len(s) /\ i \in Places(<<>>, s, n)
  BY <1>2
<1>4. \A i \in Places(<<>>, s, n) : i \in Places(<<>>, r, n)
  BY <1>2
<1>5. ASSUME NEW i \in Places(<<>>, r, n) PROVE TagAt(<<>>, r, i) = TagAt(<<>>, s, i)
  <2>1. i \in 1..Len(s) /\ ~ (i <= 0)
    BY <1>3
  <2> QED BY <2>1 DEF TagAt
<1>6. \A i \in Places(<<>>, r, n) : m[i] \in Hearing(o, n) /\ TagAt(<<>>, r, i) = Tag(o[m[i]])
  BY <1>3, <1>5 DEF Follows
<1>7. \A i, j \in Places(<<>>, r, n) : i < j => m[i] < m[j]
  BY <1>3 DEF Follows
<1>8. \A k \in Hearing(o, n) : \E i \in Places(<<>>, r, n) : m[i] = k
  BY <1>4 DEF Follows
<1> QED BY <1>6, <1>7, <1>8 DEF Follows

\* Packets that say nothing to n of nothing.
LEMMA Silent ==
  ASSUME NEW r, Len(r) \in Nat, NEW n, \A i \in 1..Len(r) : ~ ForMe(r[i], n), NEW o, NEW m,
         Hearing(o, n) = {}
  PROVE  Follows(<<>>, r, n, o, m)
<1>1. Len(<<>>) = 0 /\ Len(<<>>) \in Nat
  OBVIOUS
<1>2. ASSUME NEW i \in Places(<<>>, r, n) PROVE FALSE
  <2>1. i \in Int /\ 1 - Len(<<>>) <= i /\ i <= Len(r) /\ (i >= 1 => ForMe(r[i], n))
    BY <1>1, PlacesAre
  <2>2. i \in 1..Len(r)
    BY <1>1, <2>1
  <2> QED BY <2>1, <2>2
<1> QED BY <1>2 DEF Follows

\* The packets of a rendez-vous tell each connected node of what it hears.
LEMMA RxFollows ==
  ASSUME active \subseteq Nodes, NEW n \in active, NEW order \in Seq(Wave), NEW rx \in RxPkts(order)
  PROVE  \E m : Follows(<<>>, rx, n, order, m)
<1> DEFINE hears == {p \in (1..Len(order)) \X Nodes : p[2] \in Hearers(order[p[1]])}
<1>1. PICK to \in SetToSeqs(hears) :
        /\ rx = [i \in DOMAIN to |-> [Pkt("RX") EXCEPT !.node = to[i][2], !.src = order[to[i][1]].src,
                                                   !.start = order[to[i][1]].start]]
        /\ \A i, j \in DOMAIN to : i < j => to[i][1] <= to[j][1]
  BY DEF RxPkts
<1>2. IsFiniteSet(hears)
  <2>1. Len(order) \in Nat
    OBVIOUS
  <2>2. IsFiniteSet(1..Len(order))
    BY <2>1, FS_Interval
  <2>3. IsFiniteSet((1..Len(order)) \X Nodes)
    BY <2>2, ClientAssumption, FS_Product
  <2>4. hears \subseteq (1..Len(order)) \X Nodes
    OBVIOUS
  <2> HIDE DEF hears
  <2> QED BY <2>3, <2>4, FS_Subset
<1>3. \A x \in hears : x[1] \in 1..Len(order) /\ x[2] \in Nodes /\ x = <<x[1], x[2]>>
                       /\ x[2] \in Hearers(order[x[1]])
  OBVIOUS
<1>4. \A k \in 1..Len(order) : n \in Hearers(order[k]) => <<k, n>> \in hears
  OBVIOUS
<1> HIDE DEF hears
<1>5. /\ DOMAIN to = 1..Len(to) /\ Len(to) \in Nat /\ (\A i \in 1..Len(to) : to[i] \in hears)
      /\ \A x \in hears : \E i \in 1..Len(to) : to[i] = x
  BY <1>2, InOrder
<1>6. \A i, j \in 1..Len(to) : i # j => to[i] # to[j]
  <2>1. \A i, j \in 1..Cardinality(hears) : i # j => to[i] # to[j]
    BY DEF SetToSeqs
  <2>2. DOMAIN to = 1..Cardinality(hears)
    BY DEF SetToSeqs
  <2> QED BY <1>5, <2>1, <2>2
<1>7. Len(rx) = Len(to) /\ Len(rx) \in Nat
  <2>1. DOMAIN rx = 1..Len(to)
    BY <1>1, <1>5
  <2>2. rx \in Seq(McastPkt)
    BY RxPktsAre
  <2> QED BY <1>5, <2>1, <2>2
<1>8. ASSUME NEW i \in 1..Len(to)
      PROVE  /\ rx[i].type = "RX" /\ rx[i].node = to[i][2] /\ rx[i].src = order[to[i][1]].src
             /\ rx[i].start = order[to[i][1]].start
  <2>1. rx[i] = [Pkt("RX") EXCEPT !.node = to[i][2], !.src = order[to[i][1]].src,
                                 !.start = order[to[i][1]].start]
    BY <1>1, <1>5
  <2> QED BY <2>1 DEF Pkt
<1>9. ASSUME NEW k \in 1..Len(order) PROVE n \in Hearers(order[k]) <=> Hears(n, order[k])
  <2>1. order[k] \in Wave
    OBVIOUS
  <2>2. order[k].kind \in {"byte", "measure"}
    BY <2>1 DEF Wave
  <2> QED BY <2>2 DEF Hearers, Hears
<1> DEFINE m == [i \in 1..Len(to) |-> to[i][1]]
<1>10. \A i \in 1..Len(to) : m[i] = to[i][1]
  OBVIOUS
<1> HIDE DEF m
<1>11. ASSUME NEW s \in Places(<<>>, rx, n)
       PROVE  /\ s \in 1..Len(to) /\ to[s] \in hears /\ to[s][2] = n /\ ~ (s <= 0)
  <2>1. Len(<<>>) = 0 /\ Len(<<>>) \in Nat
    OBVIOUS
  <2>2. s \in Int /\ 1 - Len(<<>>) <= s /\ s <= Len(rx) /\ (s >= 1 => ForMe(rx[s], n))
    BY <1>7, <2>1, PlacesAre
  <2>3. s \in 1..Len(to) /\ ForMe(rx[s], n) /\ ~ (s <= 0)
    BY <1>7, <2>1, <2>2
  <2> QED BY <1>5, <1>8, <2>3 DEF ForMe
<1>12. ASSUME NEW s \in Places(<<>>, rx, n)
       PROVE  m[s] \in Hearing(order, n) /\ TagAt(<<>>, rx, s) = Tag(order[m[s]])
  <2>1. s \in 1..Len(to) /\ to[s] \in hears /\ to[s][2] = n /\ ~ (s <= 0)
    BY <1>11
  <2>2. to[s][1] \in 1..Len(order) /\ n \in Hearers(order[to[s][1]])
    BY <1>3, <2>1
  <2>3. m[s] \in Hearing(order, n)
    BY <1>9, <1>10, <2>1, <2>2 DEF Hearing
  <2>4. TagAt(<<>>, rx, s) = Tag(rx[s])
    BY <2>1 DEF TagAt
  <2> QED BY <1>8, <1>10, <2>1, <2>3, <2>4 DEF Tag
<1>13. ASSUME NEW s \in Places(<<>>, rx, n), NEW t \in Places(<<>>, rx, n), s < t PROVE m[s] < m[t]
  <2>1. /\ s \in 1..Len(to) /\ to[s] \in hears /\ to[s][2] = n
        /\ t \in 1..Len(to) /\ to[t] \in hears /\ to[t][2] = n
    BY <1>11
  <2>2. to[s][1] <= to[t][1]
    BY <1>1, <1>5, <1>13, <2>1
  <2>3. to[s] # to[t]
    BY <1>6, <1>13, <2>1
  <2>4. to[s][1] # to[t][1]
    BY <1>3, <2>1, <2>3
  <2>5. to[s][1] \in 1..Len(order) /\ to[t][1] \in 1..Len(order)
    BY <1>3, <2>1
  <2> QED BY <1>10, <2>1, <2>2, <2>4, <2>5
<1>14. ASSUME NEW k \in Hearing(order, n) PROVE \E s \in Places(<<>>, rx, n) : m[s] = k
  <2>1. k \in 1..Len(order) /\ Hears(n, order[k])
    BY DEF Hearing
  <2>2. <<k, n>> \in hears
    BY <1>4, <1>9, <2>1
  <2>3. PICK i \in 1..Len(to) : to[i] = <<k, n>>
    BY <1>5, <2>2
  <2>4. rx[i].type = "RX" /\ rx[i].node = n
    BY <1>8, <2>3
  <2>5. Len(<<>>) = 0 /\ Len(<<>>) \in Nat
    OBVIOUS
  <2>6. i \in Int /\ 1 - Len(<<>>) <= i /\ i <= Len(rx) /\ ForMe(rx[i], n)
    BY <1>7, <2>4, <2>5 DEF ForMe, RxType
  <2>7. i \in Places(<<>>, rx, n)
    BY <1>7, <2>5, <2>6, PlacesAre
  <2> QED BY <1>10, <2>3, <2>7
<1>15. Follows(<<>>, rx, n, order, m)
  BY <1>12, <1>13, <1>14 DEF Follows
<1> QED BY <1>15

-----------------------------------------------------------------------------
(* Bytes that end together come one behind the other. *)

Runs(q) == \A i \in 1..Len(q) : q[i].type = "RX" => i + 1 \in 1..Len(q) /\ q[i + 1].type \in RxType

LEMMA RunsTail ==
  ASSUME NEW S, NEW q \in Seq(S), q # <<>>, Runs(q)
  PROVE  Runs(Tail(q)) /\ (q[1].type = "RX" => Tail(q) # <<>> /\ Tail(q)[1].type \in RxType)
<1> DEFINE t == Tail(q)
<1>1. /\ Len(q) \in Nat \ {0} /\ Len(t) = Len(q) - 1 /\ Len(t) \in Nat /\ 1 \in 1..Len(q)
      /\ \A i \in 1..Len(t) : t[i] = q[i + 1]
  BY TailOf
<1> HIDE DEF t
<1>2. ASSUME NEW i \in 1..Len(t), t[i].type = "RX" PROVE i + 1 \in 1..Len(t) /\ t[i + 1].type \in RxType
  <2>1. i + 1 \in 1..Len(q) /\ q[i + 1].type = "RX"
    BY <1>1, <1>2
  <2>2. (i + 1) + 1 \in 1..Len(q) /\ q[(i + 1) + 1].type \in RxType
    BY <2>1 DEF Runs
  <2>3. i + 1 \in 1..Len(t)
    BY <1>1, <2>1, <2>2
  <2> QED BY <1>1, <2>2, <2>3
<1>3. q[1].type = "RX" => Len(t) # 0 /\ t[1].type \in RxType
  <2>1. ASSUME q[1].type = "RX" PROVE Len(t) # 0 /\ t[1].type \in RxType
    <3>1. 1 + 1 \in 1..Len(q) /\ q[1 + 1].type \in RxType
      BY <1>1, <2>1 DEF Runs
    <3>2. 1 \in 1..Len(t)
      BY <1>1, <3>1
    <3> QED BY <1>1, <3>1, <3>2
  <2> QED BY <2>1
<1>4. Len(t) # 0 => t # <<>>
  OBVIOUS
<1>5. Runs(t)
  BY <1>2 DEF Runs
<1> QED BY <1>3, <1>4, <1>5 DEF t

LEMMA RunsJoin ==
  ASSUME NEW p, NEW q, NEW r, Joins(p, q, r), Len(q) \in Nat, Len(r) \in Nat, Runs(q), Runs(r)
  PROVE  Runs(p)
<1>1. Len(p) = Len(q) + Len(r) /\ \A i \in 1..Len(q) : p[i] = q[i]
  BY DEF Joins
<1>2. ASSUME NEW i \in 1..Len(p), p[i].type = "RX" PROVE i + 1 \in 1..Len(p) /\ p[i + 1].type \in RxType
  <2>1. CASE i <= Len(q)
    <3>1. i \in 1..Len(q) /\ q[i].type = "RX"
      BY <1>1, <1>2, <2>1
    <3>2. i + 1 \in 1..Len(q) /\ q[i + 1].type \in RxType
      BY <3>1 DEF Runs
    <3> QED BY <1>1, <3>2
  <2>2. CASE i > Len(q)
    <3>1. PICK j : j = i - Len(q)
      OBVIOUS
    <3>2. j \in 1..Len(r) /\ p[i] = r[j]
      BY <2>2, <3>1, Behind
    <3>3. j + 1 \in 1..Len(r) /\ r[j + 1].type \in RxType
      BY <1>2, <3>2 DEF Runs
    <3>4. p[Len(q) + (j + 1)] = r[j + 1] /\ Len(q) + (j + 1) = i + 1 /\ i + 1 \in 1..Len(p)
      BY <1>1, <3>1, <3>3 DEF Joins
    <3> QED BY <3>3, <3>4
  <2> QED BY <1>1, <2>1, <2>2
<1> QED BY <1>2 DEF Runs

\* What WithRp makes of the packets of a rendez-vous says the same.
LEMMA WithRpSame ==
  ASSUME NEW rx \in Seq(McastPkt), NEW rp \in Nat, NEW dur \in Nat,
         \A i \in 1..Len(rx) : rx[i].type = "RX" /\ rx[i].src \in Nodes,
         NEW n, NEW o, NEW m, Follows(<<>>, rx, n, o, m)
  PROVE  /\ Runs(WithRp(rx, rp, dur)) /\ WithRp(rx, rp, dur) \in Seq(McastPkt)
         /\ Follows(<<>>, WithRp(rx, rp, dur), n, o, m)
<1>1. CASE rx = <<>>
  <2> DEFINE p == [Pkt("SYNC_RELEASE") EXCEPT !.rp_next = rp, !.rp_duration = dur]
             one == <<p>>
  <2>1. p \in McastPkt /\ p.type = "SYNC_RELEASE"
    BY DEF Pkt, McastPkt, PktType
  <2>2. WithRp(rx, rp, dur) = one
    BY <1>1 DEF WithRp
  <2> HIDE DEF p
  <2>3. /\ one \in Seq(McastPkt) /\ Len(one) = 1 /\ Len(one) \in Nat /\ one[1] = p
    BY <2>1
  <2> HIDE DEF one
  <2>4. \A i \in 1..Len(one) : one[i].type = "SYNC_RELEASE"
    <3>1. \A i \in 1..1 : i = 1
      OBVIOUS
    <3> QED BY <2>1, <2>3, <3>1
  <2>5. Runs(one) /\ \A i \in 1..Len(one) : ~ ForMe(one[i], n)
    BY <2>4 DEF Runs, ForMe, RxType
  <2>6. Hearing(o, n) = {}
    <3>1. ASSUME NEW k \in Hearing(o, n) PROVE FALSE
      <4>1. PICK s \in Places(<<>>, rx, n) : m[s] = k
        BY DEF Follows
      <4>2. Len(<<>>) = 0 /\ Len(<<>>) \in Nat
        OBVIOUS
      <4>3. s \in Int /\ 1 - Len(<<>>) <= s /\ s <= Len(<<>>)
        BY <1>1, <4>1, <4>2, PlacesAre
      <4> QED BY <4>2, <4>3
    <3> QED BY <3>1
  <2>7. Follows(<<>>, one, n, o, m)
    BY <2>3, <2>5, <2>6, Silent
  <2> QED BY <2>2, <2>3, <2>5, <2>7
<1>2. CASE rx # <<>>
  <2> DEFINE l == Len(rx)
             p == [rx[l] EXCEPT !.type = "SR_RX", !.rp_next = rp, !.rp_duration = dur]
             s == [rx EXCEPT ![l] = p]
  <2>1. l \in Nat \ {0} /\ l \in 1..l /\ rx[l] \in McastPkt
    BY <1>2
  <2>2. /\ p \in McastPkt /\ p.type = "SR_RX" /\ p.node = rx[l].node
        /\ p.src = rx[l].src /\ p.start = rx[l].start
    BY <2>1 DEF McastPkt, PktType
  <2>3. WithRp(rx, rp, dur) = s
    BY <1>2 DEF WithRp
  <2> HIDE DEF p
  <2>4. s \in Seq(McastPkt) /\ Len(s) = l /\ s[l] = p /\ \A i \in 1..l : i # l => s[i] = rx[i]
    BY <2>1, <2>2
  <2>5. \A i \in 1..l : rx[i].type = "RX"
    OBVIOUS
  <2>6. l = Len(rx)
    OBVIOUS
  <2> HIDE DEF l, s
  <2>7. ASSUME NEW i \in 1..l
        PROVE  /\ s[i].type = (IF i = l THEN "SR_RX" ELSE "RX") /\ s[i].node = rx[i].node
               /\ s[i].src = rx[i].src /\ s[i].start = rx[i].start
    BY <2>2, <2>4, <2>5
  <2>8. ASSUME NEW i \in 1..l
        PROVE  (ForMe(s[i], n) <=> ForMe(rx[i], n)) /\ Tag(s[i]) = Tag(rx[i])
    BY <2>5, <2>7 DEF ForMe, RxType, Tag
  <2>9. Follows(<<>>, s, n, o, m)
    BY <2>1, <2>4, <2>6, <2>8, Alike
  <2>10. Runs(s)
    <3>1. ASSUME NEW i \in 1..l, s[i].type = "RX" PROVE i + 1 \in 1..l /\ s[i + 1].type \in RxType
      <4>1. i # l
        BY <2>7, <3>1
      <4>2. i + 1 \in 1..l
        BY <2>1, <4>1
      <4> QED BY <2>7, <4>2 DEF RxType
    <3> QED BY <2>4, <3>1 DEF Runs
  <2> QED BY <2>3, <2>4, <2>9, <2>10
<1> QED BY <1>1, <1>2

\* With the packets that tell nodes to leave before them, and their numbers.
LEMMA RvFollows ==
  ASSUME active \subseteq Nodes, NEW n \in active, NEW order \in Seq(Wave), NEW rx \in RxPkts(order),
         NEW rp \in Nat, NEW dur \in Nat, NEW k \in SUBSET Nodes, NEW kills \in KillPkts(k),
         NEW r, NumberedAs(r, kills \o WithRp(rx, rp, dur))
  PROVE  Runs(r) /\ \E m : Follows(<<>>, r, n, order, m)
<1>1. rx \in Seq(McastPkt) /\ \A i \in 1..Len(rx) : rx[i].type = "RX" /\ rx[i].src \in Nodes
  BY RxPktsAre
<1>2. PICK m : Follows(<<>>, rx, n, order, m)
  BY RxFollows
<1>3. PICK s : s = WithRp(rx, rp, dur)
  OBVIOUS
<1>4. Runs(s) /\ s \in Seq(McastPkt) /\ Follows(<<>>, s, n, order, m)
  BY <1>1, <1>2, <1>3, WithRpSame
<1>5. /\ kills \in Seq(McastPkt) /\ Len(kills) \in Nat /\ Len(s) \in Nat
      /\ \A i \in 1..Len(kills) : kills[i].type = "KILL"
  BY <1>4, KillPktsAre
<1>6. PICK pkts : pkts = kills \o s
  OBVIOUS
<1>7. Joins(pkts, kills, s) /\ pkts \in Seq(McastPkt) /\ Len(pkts) \in Nat
  BY <1>4, <1>5, <1>6, ConcatJoins
<1>8. Runs(kills) /\ \A i \in 1..Len(kills) : ~ ForMe(kills[i], n)
  BY <1>5 DEF Runs, ForMe, RxType
<1>9. Runs(pkts)
  BY <1>4, <1>5, <1>7, <1>8, RunsJoin
<1>10. /\ <<>> \in Seq(Nodes) /\ <<>> \in Seq(Wave) /\ <<>> \o order = order /\ Len(<<>>) = 0
       /\ Hearing(<<>>, n) = {}
  BY DEF Hearing
<1>11. Follows(<<>>, kills, n, <<>>, m)
  BY <1>5, <1>8, <1>10, Silent
<1>12. \E f : Follows(<<>>, pkts, n, <<>> \o order, f)
  BY <1>4, <1>5, <1>7, <1>10, <1>11, FollowsMore
<1>13. PICK f : Follows(<<>>, pkts, n, order, f)
  BY <1>10, <1>12
<1>14. NumberedAs(r, pkts)
  BY <1>3, <1>6
<1>15. Len(r) = Len(pkts) /\ \A i \in 1..Len(pkts) :
         /\ r[i].type = pkts[i].type /\ r[i].node = pkts[i].node /\ r[i].src = pkts[i].src
         /\ r[i].start = pkts[i].start
  BY <1>14 DEF NumberedAs
<1>16. ASSUME NEW i \in 1..Len(pkts)
       PROVE  (ForMe(r[i], n) <=> ForMe(pkts[i], n)) /\ Tag(r[i]) = Tag(pkts[i])
  BY <1>15 DEF ForMe, Tag
<1>17. Follows(<<>>, r, n, order, f)
  BY <1>7, <1>13, <1>15, <1>16, Alike
<1>18. Runs(r)
  BY <1>9, <1>15 DEF Runs
<1> QED BY <1>17, <1>18

-----------------------------------------------------------------------------
(* What parsing a packet does to what the node has received. *)

Take(g, n, p) == IF p.node = n THEN Append(g, Tag(p)) ELSE g

GotAfter(s, t, n, p) ==
  /\ p.type \in RxType => t.m.got = Take(s.m.got, n, p)
  /\ p.type = "RX" => t.b.got = s.b.got
  /\ p.type = "SR_RX" => t.b.got = t.m.got
  /\ p.type \notin RxType /\ s.m.got = s.b.got => t.m.got = s.m.got /\ t.b.got = s.m.got

LEMMA HeardTakes ==
  ASSUME NEW s \in PartsT, NEW pkt \in McastPkt, NEW n
  PROVE  Heard(s, n, pkt).m.got = Take(s.m.got, n, pkt)
<1>1. s.m \in MachineT
  BY DEF PartsT
<1> DEFINE m == [s.m EXCEPT !.got = Append(s.m.got, <<pkt.src, pkt.start>>)]
<1>2. Heard(s, n, pkt) = IF pkt.node = n THEN [s EXCEPT !.m = m] ELSE s
  BY <1>1 DEF Heard, PartsT, MachineT
<1>3. m.got = Append(s.m.got, <<pkt.src, pkt.start>>)
  BY <1>1 DEF MachineT
<1> HIDE DEF m
<1>4. [s EXCEPT !.m = m].m = m
  BY DEF PartsT
<1> QED BY <1>2, <1>3, <1>4 DEF Take, Tag

LEMMA FinalizeGot ==
  ASSUME NEW s \in PartsT
  PROVE  /\ Finalize(s).m.got = s.m.got /\ Finalize(s).b = s.b
         /\ Error(s).m.got = s.m.got /\ Error(s).b = s.b
<1> DEFINE m == [s.m EXCEPT !.kill = TRUE]
           f == Finalize(s)
<1>1. s.m \in MachineT
  BY DEF PartsT
<1>2. m \in MachineT /\ m.got = s.m.got
  BY <1>1 DEF MachineT
<1>3. f = [s EXCEPT !.m = m]
  BY DEF Finalize
<1> HIDE DEF m
<1>4. f.m = m /\ f.b = s.b /\ f \in PartsT
  BY <1>2, <1>3 DEF PartsT
<1>5. Error(s) = [f EXCEPT !.failed = TRUE]
  BY DEF Error
<1> HIDE DEF f
<1>6. Error(s).m = f.m /\ Error(s).b = f.b
  BY <1>4, <1>5 DEF PartsT
<1> QED BY <1>2, <1>4, <1>6 DEF f

LEMMA HandlerGot ==
  ASSUME NEW s \in PartsT, NEW pkt \in McastPkt, NEW n \in Nodes, Dated(s), ~ s.failed,
         pkt.type # "KILLSIM", ~ Tells(pkt, n), pkt.type \in RxType => pkt.src \in Nodes
  PROVE  GotAfter(s, Handler(s, n, pkt), n, pkt)
<1> DEFINE t == Handler(s, n, pkt)
<1>0. pkt.type \in PktType
  BY DEF McastPkt
<1>1. CASE pkt.type = "BACKTRACK"
  <2>1. t = Backtrack(s, pkt)
    BY <1>1 DEF Handler
  <2> HIDE DEF t
  <2>2. t.b = s.b /\ t.m \in {s.m, s.b}
    BY <2>1, BacktrackParts
  <2>3. GotAfter(s, t, n, pkt)
    BY <1>1, <2>2 DEF GotAfter, RxType
  <2> QED BY <2>3 DEF t
<1>2. CASE pkt.type = "SYNC_RELEASE"
  <2>1. t = IF s.w.state # "pending" THEN Error(s) ELSE SaveState(NextRp(s, pkt, s.m.now))
    BY <1>2 DEF Handler, SyncRelease
  <2>2. pkt \in McastPkt \cup ConnectedPkt
    OBVIOUS
  <2>3. SaveState(NextRp(s, pkt, s.m.now)).m = s.m /\ SaveState(NextRp(s, pkt, s.m.now)).b = s.m
    BY <2>2, SavedRp
  <2> HIDE DEF t
  <2>4. t.m.got = s.m.got /\ (t.b.got = s.b.got \/ t.b.got = s.m.got)
    BY <2>1, <2>3, FinalizeGot
  <2>5. GotAfter(s, t, n, pkt)
    BY <1>2, <2>4 DEF GotAfter, RxType
  <2> QED BY <2>5 DEF t
<1>3. CASE pkt.type = "SYNC_REMINDER"
  <2> DEFINE w == [s.w EXCEPT !.state = "idle"]
  <2>1. t = IF pkt.rp_next # s.w.rpseq THEN Error(s)
            ELSE IF s.w.state = "txing" THEN [s EXCEPT !.w = w] ELSE s
    BY <1>3 DEF Handler, SyncReminder, PartsT, ClientT
  <2> HIDE DEF t, w
  <2>2. [s EXCEPT !.w = w].m = s.m /\ [s EXCEPT !.w = w].b = s.b
    BY DEF PartsT
  <2>3. t.m.got = s.m.got /\ t.b = s.b
    BY <2>1, <2>2, FinalizeGot
  <2>4. GotAfter(s, t, n, pkt)
    BY <1>3, <2>3 DEF GotAfter, RxType
  <2> QED BY <2>4 DEF t
<1>4. CASE pkt.type = "RX"
  <2>1. t = Heard(s, n, pkt) /\ pkt.src \in Nodes
    BY <1>4 DEF Handler, RxType
  <2> HIDE DEF t
  <2>2. t.b = s.b /\ t.m.got = Take(s.m.got, n, pkt)
    BY <2>1, HeardParts, HeardTakes
  <2>3. GotAfter(s, t, n, pkt)
    BY <1>4, <2>2 DEF GotAfter, RxType
  <2> QED BY <2>3 DEF t
<1>5. CASE pkt.type = "SR_RX"
  <2> DEFINE h == Heard(s, n, pkt)
  <2>1. t = SaveState(NextRp(h, pkt, s.m.now)) /\ pkt.src \in Nodes
    BY <1>5 DEF Handler, SrRx, RxType
  <2>2. h \in PartsT /\ h.w = s.w /\ h.b = s.b /\ h.failed = s.failed /\ h.m.now = s.m.now
        /\ h.m.got = Take(s.m.got, n, pkt)
    BY <2>1, HeardParts, HeardTakes
  <2> HIDE DEF t, h
  <2>3. Dated(h) /\ ~ h.failed /\ t = SaveState(NextRp(h, pkt, h.m.now))
    BY <2>1, <2>2 DEF Dated
  <2>4. pkt \in McastPkt \cup ConnectedPkt
    OBVIOUS
  <2>5. t.b = h.m /\ t.m = h.m
    BY <2>2, <2>3, <2>4, SavedRp
  <2>6. GotAfter(s, t, n, pkt)
    BY <1>5, <2>2, <2>5 DEF GotAfter, RxType
  <2> QED BY <2>6 DEF t
<1>6. CASE pkt.type = "KILL"
  <2>1. t = s
    BY <1>6 DEF Handler, KillNode, Tells
  <2> HIDE DEF t
  <2>2. GotAfter(s, t, n, pkt)
    BY <1>6, <2>1 DEF GotAfter, RxType
  <2> QED BY <2>2 DEF t
<1> QED BY <1>0, <1>1, <1>2, <1>3, <1>4, <1>5, <1>6 DEF PktType

LEMMA ParsedGot ==
  ASSUME NEW s \in PartsT, NEW pkt \in McastPkt, NEW n \in Nodes, Dated(s), ~ s.failed,
         pkt.seq = s.w.seq, ~ Tells(pkt, n), pkt.type \in RxType => pkt.src \in Nodes
  PROVE  GotAfter(s, Parsed(s, n, pkt), n, pkt)
<1> DEFINE w == [s.w EXCEPT !.seq = s.w.seq + 1]
           r == [s EXCEPT !.w = w]
<1>0. s.w \in ClientT /\ s.w.seq \in Nat
  BY DEF PartsT, ClientT
<1>1. w \in ClientT /\ w.l_rp = s.w.l_rp
  BY <1>0 DEF ClientT
<1>2. r = [s EXCEPT !.w.seq = @ + 1]
  BY <1>0 DEF PartsT, ClientT
<1>3. pkt.type # "KILLSIM"
  BY DEF Tells
<1>4. Parsed(s, n, pkt) = Handler([s EXCEPT !.w.seq = @ + 1], n, pkt)
  BY <1>0, <1>3 DEF Parsed, InSequence
<1> HIDE DEF w
<1>5. r \in PartsT /\ r.w = w /\ r.m = s.m /\ r.b = s.b /\ r.failed = s.failed
  BY <1>1 DEF PartsT
<1>6. Dated(r)
  BY <1>1, <1>5 DEF Dated
<1>7. Parsed(s, n, pkt) = Handler(r, n, pkt)
  BY <1>2, <1>4
<1> HIDE DEF r
<1>8. GotAfter(r, Handler(r, n, pkt), n, pkt)
  BY <1>3, <1>5, <1>6, HandlerGot
<1> QED BY <1>5, <1>7, <1>8 DEF GotAfter

\* A node that goes on: g is what it has received, b what it had at the save.
HearOf(g, b, q, n, h) ==
  /\ Runs(q) /\ (g = b \/ (q # <<>> /\ q[1].type \in RxType))
  /\ \E e : Follows(g, q, n, h, e)

LEMMA HearParsed ==
  ASSUME NEW s \in PartsT, NEW q \in Seq(McastPkt), q # <<>>, NEW n \in Nodes, Dated(s), ~ s.failed,
         q[1].seq = s.w.seq, ~ Tells(q[1], n), q[1].type \in RxType => q[1].src \in Nodes,
         NEW h, HearOf(s.m.got, s.b.got, q, n, h)
  PROVE  LET t == Parsed(s, n, Head(q)) IN HearOf(t.m.got, t.b.got, Tail(q), n, h)
<1> DEFINE t == Parsed(s, n, Head(q))
<1>1. /\ Tail(q) \in Seq(McastPkt) /\ Head(q) = q[1] /\ q[1] \in McastPkt
  BY TailOf
<1>2. GotAfter(s, t, n, q[1])
  BY <1>1, ParsedGot
<1> HIDE DEF t
<1>3. Runs(Tail(q)) /\ (q[1].type = "RX" => Tail(q) # <<>> /\ Tail(q)[1].type \in RxType)
  BY RunsTail DEF HearOf
<1>4. s.m.got \in Seq(Nodes \X Nat)
  BY DEF PartsT, MachineT
<1>5. PICK e : Follows(s.m.got, q, n, h, e)
  BY DEF HearOf
<1>6. \E f : Follows(t.m.got, Tail(q), n, h, f)
  <2>1. CASE ForMe(q[1], n)
    <3>1. q[1].type \in RxType /\ q[1].node = n /\ q[1].src \in Nodes
      BY <2>1 DEF ForMe
    <3>2. Tag(q[1]) \in Nodes \X Nat
      BY <1>1, <3>1 DEF Tag, McastPkt
    <3>3. t.m.got = Append(s.m.got, Tag(q[1]))
      BY <1>2, <3>1 DEF GotAfter, Take
    <3> QED BY <1>4, <1>5, <2>1, <3>2, <3>3, FollowsTake
  <2>2. CASE ~ ForMe(q[1], n)
    <3>1. t.m.got = s.m.got
      BY <1>2, <2>2 DEF GotAfter, Take, ForMe, HearOf
    <3> QED BY <1>4, <1>5, <2>2, <3>1, FollowsSkip
  <2> QED BY <2>1, <2>2
<1>7. t.m.got = t.b.got \/ (Tail(q) # <<>> /\ Tail(q)[1].type \in RxType)
  <2>1. CASE q[1].type = "RX"
    BY <1>3, <2>1
  <2>2. CASE q[1].type = "SR_RX"
    BY <1>2, <2>2 DEF GotAfter
  <2>3. CASE q[1].type \notin RxType
    BY <1>2, <2>3 DEF GotAfter, HearOf
  <2> QED BY <2>1, <2>2, <2>3 DEF RxType
<1>8. HearOf(t.m.got, t.b.got, Tail(q), n, h)
  BY <1>3, <1>6, <1>7 DEF HearOf
<1> QED BY <1>8 DEF t

LEMMA HearJoin ==
  ASSUME NEW S, NEW g \in Seq(S), NEW b, NEW q \in Seq(McastPkt), NEW n, NEW h \in Seq(Wave),
         HearOf(g, b, q, n, h), NEW r \in Seq(McastPkt), NEW p, Joins(p, q, r), NEW o \in Seq(Wave),
         Runs(r), \E m : Follows(<<>>, r, n, o, m)
  PROVE  HearOf(g, b, p, n, h \o o)
<1>1. Len(q) \in Nat /\ Len(r) \in Nat /\ Len(p) = Len(q) + Len(r)
      /\ \A i \in 1..Len(q) : p[i] = q[i]
  BY DEF Joins
<1>2. Runs(p)
  BY <1>1, RunsJoin DEF HearOf
<1>3. q # <<>> => p # <<>> /\ p[1] = q[1]
  <2>1. ASSUME q # <<>> PROVE p # <<>> /\ p[1] = q[1]
    <3>1. Len(q) # 0 /\ 1 \in 1..Len(q)
      BY <2>1
    <3>2. Len(p) # 0
      BY <1>1, <3>1
    <3>3. Len(<<>>) = 0
      OBVIOUS
    <3> QED BY <1>1, <3>1, <3>2, <3>3
  <2> QED BY <2>1
<1>4. PICK e : Follows(g, q, n, h, e)
  BY DEF HearOf
<1>5. PICK m : Follows(<<>>, r, n, o, m)
  OBVIOUS
<1>6. \E f : Follows(g, p, n, h \o o, f)
  BY <1>4, <1>5, FollowsMore
<1> QED BY <1>2, <1>3, <1>6 DEF HearOf

\* Packets that are not about bytes.
LEMMA HearQuiet ==
  ASSUME NEW S, NEW g \in Seq(S), NEW b, NEW q \in Seq(McastPkt), NEW n, NEW h \in Seq(Wave),
         HearOf(g, b, q, n, h), NEW r \in Seq(McastPkt), NEW p, Joins(p, q, r),
         \A i \in 1..Len(r) : r[i].type \notin RxType
  PROVE  HearOf(g, b, p, n, h)
<1>1. /\ Runs(r) /\ \A i \in 1..Len(r) : ~ ForMe(r[i], n)
  BY DEF Runs, RxType, ForMe
<1>2. <<>> \in Seq(Wave) /\ h \o <<>> = h /\ Hearing(<<>>, n) = {} /\ Len(r) \in Nat
  BY DEF Hearing
<1>3. Follows(<<>>, r, n, <<>>, <<>>)
  BY <1>1, <1>2, Silent
<1>4. HearOf(g, b, p, n, h \o <<>>)
  BY <1>1, <1>2, <1>3, HearJoin
<1> QED BY <1>2, <1>4

-----------------------------------------------------------------------------
(* The invariant of what is heard. *)

Hearings ==
  \A n \in joined \ killed : HearOf(machine[n].got, backup[n].got, mcast[n], n, heard)

\* Nothing ends before all have connected; who connects has received nothing.
MeetOf(n) ==
  /\ pc[n] = "off" => n \notin met
  /\ pc[n] \in Early => machine[n].got = <<>> /\ backup[n].got = <<>>
  /\ pc[n] \in Early /\ n \in active => heard = <<>>

Asking == \A i \in 1..Len(toServer) : toServer[i].type = "CONNECT_REQ" => toServer[i].node \notin met

Meeting == (met # Nodes => heard = <<>>) /\ Asking /\ \A n \in Nodes : MeetOf(n)

\* Instructions and requests receive nothing.
LEMMA LocalGot ==
  ASSUME TypeInv, NEW n \in joined,
         Instruction(n) \/ UpdateSync(n) \/ UpdateNone(n) \/ Transmit(n) \/ NothingDue(n)
  PROVE  /\ machine'[n].got = machine[n].got /\ backup'[n] = backup[n] /\ mcast'[n] = mcast[n]
<1>1. /\ n \in Nodes /\ machine \in [Nodes -> MachineT] /\ backup \in [Nodes -> MachineT]
      /\ machine[n] \in MachineT
  BY DEF TypeInv, TypeOK, CltTypeOK, MachineT
<1>2. /\ Parts(n) \in PartsT /\ Parts(n).m = machine[n] /\ Parts(n).b = backup[n]
      /\ wsens[n] \in ClientT /\ Parts(n).w = wsens[n]
  BY <1>1, NodeParts
<1>3. ASSUME Instruction(n) PROVE machine'[n].got = machine[n].got /\ backup'[n] = backup[n] /\ mcast'[n] = mcast[n]
  <2>1. /\ machine' = [machine EXCEPT ![n].now = @ + Quantum[n]] /\ backup' = backup /\ mcast' = mcast
    BY <1>3 DEF Instruction, netVars
  <2>2. machine'[n] = [machine[n] EXCEPT !.now = @ + Quantum[n]]
    BY <1>1, <2>1
  <2>3. machine'[n].got = machine[n].got
    BY <1>1, <2>2 DEF MachineT
  <2> QED BY <2>1, <2>3
<1>4. ASSUME UpdateNone(n) \/ NothingDue(n)
      PROVE  machine'[n].got = machine[n].got /\ backup'[n] = backup[n] /\ mcast'[n] = mcast[n]
  BY <1>4 DEF UpdateNone, NothingDue, netVars
<1>5. ASSUME UpdateSync(n)
      PROVE  machine'[n].got = machine[n].got /\ backup'[n] = backup[n] /\ mcast'[n] = mcast[n]
  <2> DEFINE u == [Parts(n) EXCEPT !.w.state = "pending"]
  <2>1. u.m = machine[n] /\ u.b = backup[n]
    BY <1>2 DEF PartsT
  <2>2. Become(n, u) /\ mcast' = mcast
    BY <1>5 DEF UpdateSync
  <2> HIDE DEF u
  <2> QED BY <1>1, <2>1, <2>2 DEF Become
<1>6. ASSUME Transmit(n)
      PROVE  machine'[n].got = machine[n].got /\ backup'[n] = backup[n] /\ mcast'[n] = mcast[n]
  <2> DEFINE u == [Parts(n) EXCEPT !.w.state = "txing", !.m.next = @ + 1]
  <2>1. u.m = [machine[n] EXCEPT !.next = @ + 1] /\ u.b = backup[n]
    BY <1>2 DEF PartsT
  <2>2. Become(n, u) /\ mcast' = mcast
    BY <1>6 DEF Transmit
  <2> HIDE DEF u
  <2>3. u.m.got = machine[n].got
    BY <1>1, <2>1 DEF MachineT
  <2> QED BY <1>1, <2>1, <2>2, <2>3 DEF Become
<1> QED BY <1>3, <1>4, <1>5, <1>6

LEMMA ParseHears ==
  ASSUME IInv, Hearings, NEW n \in joined \ killed, ParseNext(n)
  PROVE  HearOf(machine'[n].got, backup'[n].got, mcast'[n], n, heard)
<1> DEFINE s == Parts(n)
           q == mcast[n]
           t == Parsed(s, n, Head(q))
<1>1. n \in Nodes /\ TypeInv /\ NumbersOf(n) /\ MemberOf(n)
  BY DEF IInv, TypeInv, TypeOK, CltTypeOK, Members
<1>2. /\ q \in Seq(McastPkt) /\ q # <<>> /\ s \in PartsT /\ Dated(s) /\ ~ s.failed
      /\ s.w = wsens[n] /\ s.m = machine[n] /\ s.b = backup[n]
  BY <1>1, NodeParts DEF ParseNext
<1>3. /\ Become(n, t) /\ mcast' = [mcast EXCEPT ![n] = Tail(q)]
  BY DEF ParseNext
<1>4. mcast \in [Nodes -> Seq(McastPkt)] /\ machine \in [Nodes -> MachineT]
      /\ backup \in [Nodes -> MachineT]
  BY <1>1 DEF TypeInv, TypeOK, CltTypeOK, NetType, MachineT
<1>5. \A i \in 1..Len(q) : q[i].type \in {"RX", "SR_RX"} => q[i].src \in Nodes
  BY <1>1 DEF TypeInv, NetType
<1>6. HearOf(s.m.got, s.b.got, q, n, heard)
  BY <1>2 DEF Hearings
<1>7. Untold(q, n) /\ InSeq(s.w, q)
  BY <1>1, <1>2 DEF MemberOf, Good, GoodOf, NumbersOf, NumbersIn
<1> HIDE DEF s, q, t
<1>8. 1 \in 1..Len(q) /\ q[1] \in McastPkt
  BY <1>2, TailOf
<1>9. s.w.seq \in Nat
  BY <1>2 DEF PartsT, ClientT
<1>10. q[1].seq = s.w.seq
  BY <1>7, <1>8, <1>9 DEF InSeq
<1>11. ~ Tells(q[1], n)
  BY <1>7, <1>8 DEF Untold
<1>12. q[1].type \in RxType => q[1].src \in Nodes
  BY <1>5, <1>8 DEF RxType
<1>13. HearOf(t.m.got, t.b.got, Tail(q), n, heard)
  BY <1>1, <1>2, <1>6, <1>10, <1>11, <1>12, HearParsed DEF t
<1>14. machine'[n] = t.m /\ backup'[n] = t.b /\ mcast'[n] = Tail(q)
  BY <1>1, <1>3, <1>4 DEF Become
<1> QED BY <1>13, <1>14

LEMMA ConnectGot ==
  ASSUME TypeInv, NEW n \in Nodes, Connected(n), machine[n].got = <<>>
  PROVE  machine'[n].got = <<>> /\ backup'[n].got = <<>>
<1> DEFINE pkt == Head(answer[n])
           w == [wsens[n] EXCEPT !.seq = pkt.seq]
           u == [Parts(n) EXCEPT !.w = w]
           v == NextRp(u, pkt, u.m.now)
           s == SaveState(v)
<1>1. /\ Parts(n) \in PartsT /\ Parts(n).w = wsens[n]
      /\ Parts(n).m = machine[n] /\ Parts(n).b = backup[n] /\ wsens[n] \in ClientT
      /\ answer[n] \in Seq(AnswerPkt)
  BY NodeParts
<1>2. pkt \in ConnectedPkt
  <2>1. answer[n] # <<>> /\ pkt.type = "CONNECT_RSP_OK"
    BY DEF Connected
  <2>2. pkt \in AnswerPkt
    BY <1>1, <2>1, TailOf
  <2> QED BY <2>1, <2>2 DEF AnswerPkt
<1>3. Become(n, s)
  <2>1. u = [Parts(n) EXCEPT !.w.seq = pkt.seq]
    BY <1>1 DEF PartsT, ClientT
  <2> QED BY <2>1 DEF Connected
<1> HIDE DEF pkt
<1>4. w \in ClientT
  BY <1>1, <1>2 DEF ClientT, ConnectedPkt
<1> HIDE DEF w
<1>5. u \in PartsT /\ u.m = machine[n] /\ u.m.now \in Nat
  BY <1>1, <1>4 DEF PartsT, MachineT
<1> HIDE DEF u
<1>6. v \in PartsT /\ v.m = u.m
  <2>1. pkt \in McastPkt \cup ConnectedPkt
    BY <1>2
  <2> QED BY <1>5, <2>1, NextRpParts
<1> HIDE DEF v
<1>7. s.m = v.m /\ s.b = v.m
  BY <1>6, SaveStateParts
<1> HIDE DEF s
<1>8. machine'[n] = s.m /\ backup'[n] = s.b
  BY <1>3 DEF Become, TypeInv, TypeOK, CltTypeOK
<1> QED BY <1>5, <1>6, <1>7, <1>8

\* A step of a node.
LEMMA NodeHears ==
  ASSUME IInv, Hearings, Meeting, NEW n \in Nodes, Node(n)
  PROVE  (Hearings /\ Meeting)'
<1>1. /\ UNCHANGED srvVars /\ CltStep(n) /\ TypeInv
  BY DEF Node, IInv
<1>2. /\ met' = met /\ active' = active /\ killed' = killed /\ heard' = heard
  BY <1>1 DEF srvVars
<1>3. Stepped(n) /\ Others(n)
  BY NodeSteps DEF Stepped
<1>4. /\ pc \in [Nodes -> PcT] /\ mcast \in [Nodes -> Seq(McastPkt)] /\ joined \subseteq Nodes
      /\ toServer \in Seq(ServerPkt)
  BY <1>1 DEF TypeInv, TypeOK, CltTypeOK, NetType, PcT
<1>5. MeetOf(n)
  BY DEF Meeting
<1>6. ConnectionOf(n)
  BY DEF IInv, Connections
<1>7. ASSUME n \in joined' \ killed
      PROVE  HearOf(machine'[n].got, backup'[n].got, mcast'[n], n, heard)
  <2>1. CASE UpdateParse(n) \/ SyncParse(n) \/ TxParse(n)
    <3>1. ParseNext(n) /\ n \in joined
      BY <1>7, <2>1 DEF UpdateParse, SyncParse, TxParse, ParseNext
    <3> QED BY <1>7, <3>1, ParseHears
  <2>2. CASE Instruction(n) \/ UpdateSync(n) \/ UpdateNone(n) \/ Transmit(n) \/ NothingDue(n)
    <3>1. n \in joined
      BY <1>7, <2>2 DEF Instruction, UpdateSync, UpdateNone, Transmit, NothingDue, netVars
    <3>2. machine'[n].got = machine[n].got /\ backup'[n] = backup[n] /\ mcast'[n] = mcast[n]
      BY <1>1, <2>2, <3>1, LocalGot
    <3> QED BY <1>7, <3>1, <3>2 DEF Hearings
  <2>3. CASE Subscribe(n) \/ Connected(n) \/ Refused(n)
    <3>1. pc[n] \in {"off", "subscribe"} /\ joined' = joined
      BY <2>3 DEF Subscribe, Connected, Refused
    <3> QED BY <1>6, <1>7, <3>1 DEF ConnectionOf, Early
  <2>4. CASE Join(n)
    <3>1. pc[n] = "join" /\ UNCHANGED <<mcast, machine, backup>>
      BY <2>4 DEF Join
    <3>2. n \in active /\ mcast[n] = <<>>
      BY <1>6, <3>1 DEF ConnectionOf, Early
    <3>3. machine[n].got = <<>> /\ backup[n].got = <<>> /\ heard = <<>>
      BY <1>5, <3>1, <3>2 DEF MeetOf, Early
    <3>4. Len(<<>>) = 0 /\ Len(<<>>) \in Nat /\ Hearing(<<>>, n) = {} /\ Runs(<<>>)
      BY DEF Hearing, Runs
    <3>5. \A i \in 1..Len(<<>>) : ~ ForMe((<<>>)[i], n)
      BY <3>4
    <3>6. Follows(<<>>, <<>>, n, <<>>, <<>>)
      BY <3>4, <3>5, Silent
    <3>7. HearOf(<<>>, <<>>, <<>>, n, <<>>)
      BY <3>4, <3>6 DEF HearOf
    <3> QED BY <3>1, <3>2, <3>3, <3>7
  <2>5. CASE Close(n)
    BY <1>7, <2>5 DEF Close
  <2> QED BY <1>1, <2>1, <2>2, <2>3, <2>4, <2>5 DEF CltStep
<1>8. ASSUME NEW m \in joined' \ killed'
      PROVE  HearOf(machine'[m].got, backup'[m].got, mcast'[m], m, heard')
  <2>1. CASE m = n
    BY <1>2, <1>7, <1>8, <2>1
  <2>2. CASE m # n
    <3>1. /\ machine'[m] = machine[m] /\ backup'[m] = backup[m] /\ mcast'[m] = mcast[m]
          /\ m \in joined /\ m \in Nodes
      <4>1. m \in Nodes
        BY <1>3, <1>8 DEF Stepped, TypeInv, TypeOK, CltTypeOK
      <4> QED BY <1>3, <1>8, <2>2, <4>1 DEF Others
    <3> QED BY <1>2, <1>8, <3>1 DEF Hearings
  <2> QED BY <2>1, <2>2
<1>9. pc'[n] # "off"
  <2>1. \E x \in PcT : x # "off" /\ pc' = [pc EXCEPT ![n] = x]
    BY <1>1 DEF CltStep, Subscribe, Connected, Refused, Join, Instruction, UpdateParse, UpdateSync,
       UpdateNone, SyncParse, Transmit, TxParse, NothingDue, Close, Goto, PcT
  <2> QED BY <1>4, <2>1
<1>10. ASSUME pc'[n] \in Early PROVE machine'[n].got = <<>> /\ backup'[n].got = <<>> /\ pc[n] \in Early
  <2>1. pc[n] \in Early
    BY <1>3, <1>10 DEF Stepped
  <2>2. machine[n].got = <<>> /\ backup[n].got = <<>>
    BY <1>5, <2>1 DEF MeetOf
  <2>3. CASE Connected(n)
    BY <1>1, <2>1, <2>2, <2>3, ConnectGot
  <2>4. CASE Subscribe(n) \/ Refused(n) \/ Join(n)
    BY <2>1, <2>2, <2>4 DEF Subscribe, Refused, Join
  <2> QED BY <1>1, <2>1, <2>3, <2>4 DEF CltStep, Early, Instruction, UpdateParse, UpdateSync,
             UpdateNone, SyncParse, Transmit, TxParse, NothingDue, Close
<1>11. ASSUME NEW m \in Nodes PROVE MeetOf(m)'
  <2>1. CASE m = n
    BY <1>2, <1>5, <1>9, <1>10, <2>1 DEF MeetOf, Early
  <2>2. CASE m # n
    <3>1. pc'[m] = pc[m] /\ machine'[m] = machine[m] /\ backup'[m] = backup[m]
      BY <1>3, <2>2 DEF Others
    <3>2. MeetOf(m)
      BY DEF Meeting
    <3> QED BY <1>2, <3>1, <3>2 DEF MeetOf, Early
  <2> QED BY <2>1, <2>2
<1>12. Asking'
  <2>1. CASE toServer' = toServer
    BY <1>2, <2>1 DEF Meeting, Asking
  <2>2. CASE toServer' # toServer
    <3>1. PICK p \in ServerPkt : /\ toServer' = Append(toServer, p) /\ p.node = n
                                 /\ p.type = "CONNECT_REQ" => pc[n] = "off"
      BY <1>3, <2>2 DEF Stepped, Sent
    <3>2. p.type = "CONNECT_REQ" => p.node \notin met
      BY <1>5, <3>1 DEF MeetOf
    <3>3. /\ Len(toServer') = Len(toServer) + 1 /\ Len(toServer) \in Nat
          /\ \A i \in 1..Len(toServer) : toServer'[i] = toServer[i]
          /\ toServer'[Len(toServer) + 1] = p
      BY <1>4, <3>1, AppendOf
    <3>4. \A i \in 1..Len(toServer') : i \in 1..Len(toServer) \/ i = Len(toServer) + 1
      BY <3>3
    <3> QED BY <1>2, <3>2, <3>3, <3>4 DEF Meeting, Asking
  <2> QED BY <2>1, <2>2
<1>13. met' # Nodes => heard' = <<>>
  BY <1>2 DEF Meeting
<1> QED BY <1>8, <1>11, <1>12, <1>13 DEF Hearings, Meeting

\* A step of the server that answers n, or takes note of what it says.
LEMMA AnswerMeets ==
  ASSUME IInv, Meeting, NEW n \in Nodes, NEW type, From(n, type), heard' = heard,
         met' = IF type = "CONNECT_REQ" THEN met \cup {n} ELSE met,
         active' \subseteq (IF type = "CONNECT_REQ" THEN active \cup {n} ELSE active)
  PROVE  Meeting'
<1>1. /\ toServer # <<>> /\ toServer' = Tail(toServer) /\ UNCHANGED cltVars
      /\ PacketOf(Head(toServer)) /\ Head(toServer).type = type /\ Head(toServer).node = n
  BY FromFacts
<1>2. toServer \in Seq(ServerPkt)
  BY DEF IInv, TypeInv, NetType
<1>3. /\ Len(toServer) \in Nat \ {0} /\ Len(toServer') = Len(toServer) - 1 /\ Head(toServer) = toServer[1]
      /\ (\A i \in 1..Len(toServer') : toServer'[i] = toServer[i + 1]) /\ 1 \in 1..Len(toServer)
  BY <1>1, <1>2, TailOf
<1>4. pc' = pc /\ machine' = machine /\ backup' = backup
  BY <1>1 DEF cltVars
<1>5. type = "CONNECT_REQ" => n \notin met /\ heard = <<>> /\ pc[n] = "subscribe"
  <2>1. ASSUME type = "CONNECT_REQ" PROVE n \notin met /\ heard = <<>> /\ pc[n] = "subscribe"
    <3>1. n \notin met
      BY <1>1, <1>3, <2>1 DEF Meeting, Asking
    <3>2. pc[n] = "subscribe"
      BY <1>1, <2>1 DEF PacketOf
    <3> QED BY <3>1, <3>2 DEF Meeting
  <2> QED BY <2>1
<1>6. ASSUME NEW i \in 1..Len(toServer'), toServer'[i].type = "CONNECT_REQ"
      PROVE  toServer'[i].node \notin met'
  <2>1. i + 1 \in 1..Len(toServer) /\ toServer'[i] = toServer[i + 1] /\ i + 1 # 1
    BY <1>3
  <2>2. toServer[i + 1].type = "CONNECT_REQ" /\ toServer[i + 1].node \notin met
    BY <1>6, <2>1 DEF Meeting, Asking
  <2>3. type = "CONNECT_REQ" => toServer[i + 1].node # n
    BY <1>1, <1>3, <2>1, <2>2 DEF IInv, OnTheWay
  <2> QED BY <2>1, <2>2, <2>3
<1>7. ASSUME NEW m \in Nodes PROVE MeetOf(m)'
  <2>1. MeetOf(m)
    BY DEF Meeting
  <2>2. pc[m] = "off" => m \notin met'
    BY <1>5, <2>1 DEF MeetOf
  <2>3. pc[m] \in Early /\ m \in active' => heard = <<>>
    BY <1>5, <2>1 DEF MeetOf
  <2> QED BY <1>4, <2>1, <2>2, <2>3 DEF MeetOf, Early
<1>8. met' # Nodes => heard' = <<>>
  BY <1>5 DEF Meeting
<1>9. Asking'
  BY <1>6 DEF Asking
<1> QED BY <1>7, <1>8, <1>9 DEF Meeting

\* A step of the server after which members have what they had.
LEMMA StillHears ==
  ASSUME Hearings, UNCHANGED cltVars, joined' = joined, mcast' = mcast, killed' = killed, heard' = heard
  PROVE  Hearings'
<1>1. machine' = machine /\ backup' = backup
  BY DEF cltVars
<1> QED BY <1>1 DEF Hearings

\* A packet that is not about bytes.
LEMMA TxHears ==
  ASSUME IInv, Hearings, UNCHANGED cltVars, joined' = joined, killed' = killed, heard' = heard,
         NEW p \in McastPkt, p.type \notin RxType, Multicast(<<p>>)
  PROVE  Hearings'
<1>1. TypeInv
  BY DEF IInv
<1>2. PICK r \in Seq(McastPkt) :
           /\ Len(r) = 1 /\ r[1].type = p.type
           /\ \A n \in Nodes : n \in joined => Joins(mcast'[n], mcast[n], r)
  BY <1>1, OnePkt DEF RxType
<1>3. \A i \in 1..Len(r) : r[i].type \notin RxType
  <2>1. \A i \in 1..1 : i = 1
    OBVIOUS
  <2> QED BY <1>2, <2>1
<1>4. machine' = machine /\ backup' = backup
  BY DEF cltVars
<1>5. ASSUME NEW n \in joined \ killed
      PROVE  HearOf(machine[n].got, backup[n].got, mcast'[n], n, heard)
  <2>1. n \in Nodes /\ heard \in Seq(Wave)
    BY <1>1 DEF TypeInv, TypeOK, CltTypeOK, SrvTypeOK
  <2>2. mcast[n] \in Seq(McastPkt) /\ machine[n] \in MachineT
    BY <1>1, <2>1, NodeParts
  <2>3. machine[n].got \in Seq(Nodes \X Nat)
    BY <2>2 DEF MachineT
  <2>4. HearOf(machine[n].got, backup[n].got, mcast[n], n, heard) /\ Joins(mcast'[n], mcast[n], r)
    BY <1>2, <2>1 DEF Hearings
  <2> QED BY <1>3, <2>1, <2>2, <2>3, <2>4, HearQuiet
<1> QED BY <1>4, <1>5 DEF Hearings

LEMMA RendezVousHears ==
  ASSUME IInv, Ahead, Hearings, Meeting, RendezVous
  PROVE  (Hearings /\ Meeting)'
<1>1. PICK k \in SUBSET (Killed \cap active), dur \in Nat, order \in Seq(Wave) :
         \E kills \in KillPkts(k), rx \in RxPkts(order) :
           /\ Multicast(kills \o WithRp(rx, rpseq + 1, dur))
           /\ heard' = heard \o order
           /\ active' = active \ k /\ killed' = killed \cup k
  BY RendezVousParts
<1>2. PICK kills \in KillPkts(k), rx \in RxPkts(order) :
        Multicast(kills \o WithRp(rx, rpseq + 1, dur))
  BY <1>1
<1>3. heard' = heard \o order /\ active' = active \ k /\ killed' = killed \cup k
  BY <1>1
<1>4. /\ met = Nodes /\ met' = met /\ acked = active /\ UNCHANGED <<toServer, joined, cltVars>>
  BY DEF RendezVous
<1>5. TypeInv
  BY DEF IInv
<1>6. rpseq + 1 \in Nat /\ active \subseteq Nodes /\ heard \in Seq(Wave) /\ joined \subseteq Nodes
  BY <1>5 DEF TypeInv, TypeOK, SrvTypeOK, CltTypeOK
<1>7. k \in SUBSET Nodes /\ kills \in Seq(McastPkt)
      /\ \A i \in 1..Len(kills) : kills[i].type = "KILL"
  BY <1>6, KillPktsAre
<1>8. PICK s : s = WithRp(rx, rpseq + 1, dur)
  OBVIOUS
<1>9. TellsRp(s, rpseq + 1, dur)
  BY <1>6, <1>8, RxPktsAre, WithRpTells
<1>10. s \in Seq(McastPkt) /\ \A i \in 1..Len(s) : s[i].type \in {"RX", "SR_RX"} => s[i].src \in Nodes
  BY <1>9 DEF TellsRp
<1>11. PICK pkts \in Seq(McastPkt) : pkts = kills \o s /\ Joins(pkts, kills, s)
  <2>1. kills \o s \in Seq(McastPkt) /\ Joins(kills \o s, kills, s)
    BY <1>7, <1>10, ConcatJoins
  <2> QED BY <2>1
<1>12. \A i \in 1..Len(pkts) : pkts[i].type \in {"RX", "SR_RX"} => pkts[i].src \in Nodes
  <2>1. Len(kills) \in Nat /\ Len(s) \in Nat /\ Len(pkts) \in Nat
    BY <1>7, <1>10
  <2>2. ASSUME NEW i \in 1..Len(pkts), pkts[i].type \in {"RX", "SR_RX"} PROVE pkts[i].src \in Nodes
    <3>1. CASE i <= Len(kills)
      BY <1>7, <1>11, <2>1, <2>2, <3>1 DEF Joins
    <3>2. CASE i > Len(kills)
      <4>1. i - Len(kills) \in 1..Len(s) /\ pkts[i] = s[i - Len(kills)]
        BY <1>11, <2>1, <3>2, Behind
      <4> QED BY <1>10, <2>2, <4>1
    <3> QED BY <2>1, <3>1, <3>2
  <2> QED BY <2>2
<1>13. Multicast(pkts)
  BY <1>2, <1>8, <1>11
<1>14. PICK r \in Seq(McastPkt) :
           /\ NumberedAs(r, pkts)
           /\ \A m \in Nodes : m \in joined => Joins(mcast'[m], mcast[m], r)
  BY <1>5, <1>12, <1>13, MulticastEffect
<1>15. machine' = machine /\ backup' = backup /\ pc' = pc
  BY <1>4 DEF cltVars
<1>16. ASSUME NEW n \in joined' \ killed'
       PROVE  HearOf(machine[n].got, backup[n].got, mcast'[n], n, heard')
  <2>1. n \in joined \ killed /\ n \in Nodes
    BY <1>3, <1>4, <1>6, <1>16
  <2>2. n \in active
    BY <2>1 DEF IInv, Members, MemberOf
  <2>3. mcast[n] \in Seq(McastPkt) /\ machine[n] \in MachineT
    BY <1>5, <2>1, NodeParts
  <2>4. machine[n].got \in Seq(Nodes \X Nat)
    BY <2>3 DEF MachineT
  <2>5. HearOf(machine[n].got, backup[n].got, mcast[n], n, heard) /\ Joins(mcast'[n], mcast[n], r)
    BY <1>14, <2>1 DEF Hearings
  <2>6. NumberedAs(r, kills \o WithRp(rx, rpseq + 1, dur))
    BY <1>8, <1>11, <1>14
  <2>7. Runs(r) /\ \E m : Follows(<<>>, r, n, order, m)
    BY <1>6, <1>7, <2>2, <2>6, RvFollows
  <2>8. HearOf(machine[n].got, backup[n].got, mcast'[n], n, heard \o order)
    BY <1>6, <2>3, <2>4, <2>5, <2>7, HearJoin
  <2> QED BY <1>3, <2>8
<1>17. Hearings'
  BY <1>15, <1>16 DEF Hearings
<1>18. ASSUME NEW m \in Nodes PROVE MeetOf(m)'
  <2>1. MeetOf(m)
    BY DEF Meeting
  <2>2. m \in active' => pc[m] \notin Early
    BY <1>3, <1>4, ActiveLate
  <2> QED BY <1>4, <1>15, <2>1, <2>2 DEF MeetOf, Early
<1>19. Asking'
  BY <1>4 DEF Meeting, Asking
<1> QED BY <1>4, <1>17, <1>18, <1>19 DEF Meeting

LEMMA HearStep ==
  ASSUME IInv, Ahead, Hearings, Meeting, [Next]_vars
  PROVE  (Hearings /\ Meeting)'
<1>1. TypeInv
  BY DEF IInv
<1>2. CASE UNCHANGED vars
  <2>1. UNCHANGED <<toServer, joined, mcast, pc, machine, backup, met, active, killed, heard>>
    BY <1>2 DEF vars, netVars, cltVars, srvVars
  <2> QED BY <2>1 DEF Hearings, Meeting, Asking, MeetOf, Early
<1>3. ASSUME NEW n \in Nodes, Node(n) PROVE (Hearings /\ Meeting)'
  BY <1>3, NodeHears
<1>4. CASE RendezVous
  BY <1>4, RendezVousHears
<1>5. CASE KillSim
  <2>1. /\ UNCHANGED cltVars /\ UNCHANGED <<toServer, joined, met, active, heard>>
        /\ killed' = killed \cup active
    BY <1>5 DEF KillSim
  <2>2. joined' \ killed' = {}
    BY <2>1 DEF IInv, Members, MemberOf
  <2>3. pc' = pc /\ machine' = machine /\ backup' = backup
    BY <2>1 DEF cltVars
  <2>4. Meeting'
    BY <2>1, <2>3 DEF Meeting, Asking, MeetOf, Early
  <2> QED BY <2>2, <2>4 DEF Hearings
<1>6. ASSUME NEW n \in Nodes, NEW names \in Models, Grant(n, names) PROVE (Hearings /\ Meeting)'
  <2>1. /\ From(n, "CONNECT_REQ") /\ active' = active \cup {n} /\ met' = met \cup {n}
        /\ UNCHANGED <<mcast, heard, killed>>
    BY <1>6 DEF Grant
  <2>2. UNCHANGED cltVars /\ joined' = joined
    BY <2>1 DEF From
  <2>3. Hearings'
    BY <2>1, <2>2, StillHears
  <2>4. Meeting'
    BY <2>1, AnswerMeets
  <2> QED BY <2>3, <2>4
<1>7. ASSUME NEW n \in Nodes, Refuse(n) PROVE (Hearings /\ Meeting)'
  <2>1. /\ From(n, "CONNECT_REQ") /\ active' = active /\ met' = met \cup {n}
        /\ UNCHANGED <<mcast, heard, killed>>
    BY <1>7 DEF Refuse
  <2>2. UNCHANGED cltVars /\ joined' = joined
    BY <2>1 DEF From
  <2>3. Hearings'
    BY <2>1, <2>2, StillHears
  <2>4. Meeting'
    BY <2>1, AnswerMeets
  <2> QED BY <2>3, <2>4
<1>8. ASSUME NEW n \in Nodes, Ack(n) \/ Disconnect(n) \/ TxDropped(n) PROVE (Hearings /\ Meeting)'
  <2>1. PICK type \in {"SYNC_ACK", "DISCONNECT", "BYTE_TX"} : From(n, type)
    BY <1>8 DEF Ack, Disconnect, TxDropped
  <2>2. /\ active' \subseteq active /\ met' = met /\ UNCHANGED <<mcast, heard, killed>>
    BY <1>8 DEF Ack, Disconnect, TxDropped, srvVars
  <2>3. UNCHANGED cltVars /\ joined' = joined
    BY <2>1 DEF From
  <2>4. Hearings'
    BY <2>2, <2>3, StillHears
  <2>5. type # "CONNECT_REQ"
    OBVIOUS
  <2>6. Meeting'
    BY <2>1, <2>2, <2>5, AnswerMeets
  <2> QED BY <2>4, <2>6
<1>9. ASSUME NEW n \in Nodes, TxAccepted(n) PROVE (Hearings /\ Meeting)'
  <2> DEFINE p == [Pkt("SYNC_REMINDER") EXCEPT !.rp_next = rpseq]
  <2>1. /\ From(n, "BYTE_TX") /\ Multicast(<<p>>) /\ UNCHANGED <<met, active, heard, killed>>
    BY <1>9 DEF TxAccepted
  <2>2. rpseq \in Nat
    BY <1>1 DEF TypeInv, TypeOK, SrvTypeOK
  <2>3. p \in McastPkt /\ p.type \notin RxType
    BY <2>2 DEF Pkt, McastPkt, PktType, RxType
  <2> HIDE DEF p
  <2>4. UNCHANGED cltVars /\ joined' = joined
    BY <2>1 DEF From
  <2>5. Hearings'
    BY <2>1, <2>3, <2>4, TxHears
  <2>6. Meeting'
    BY <2>1, AnswerMeets
  <2> QED BY <2>5, <2>6
<1>10. ASSUME NEW n \in Nodes, TxBacktrack(n) PROVE (Hearings /\ Meeting)'
  <2> DEFINE p == [Pkt("BACKTRACK") EXCEPT !.rp_next = rpseq', !.rp_duration = duration']
  <2>1. /\ From(n, "BYTE_TX") /\ Multicast(<<p>>) /\ UNCHANGED <<met, active, heard, killed>>
        /\ rpseq' = rpseq + 1
    BY <1>10 DEF TxBacktrack
  <2>2. rpseq' \in Nat
    BY <1>1, <2>1 DEF TypeInv, TypeOK, SrvTypeOK
  <2>3. duration' \in Nat
    <3>1. duration' = WaveOf(Head(toServer)).end - last /\ WaveOf(Head(toServer)).end >= last
          /\ WaveOf(Head(toServer)) \in Wave
      BY <1>10, <2>1, TxFacts DEF TxBacktrack
    <3>2. WaveOf(Head(toServer)).end \in Nat /\ last \in Nat
      BY <1>1, <3>1 DEF Wave, TypeInv, TypeOK, SrvTypeOK
    <3> QED BY <3>1, <3>2
  <2>4. p \in McastPkt /\ p.type \notin RxType
    BY <2>2, <2>3 DEF Pkt, McastPkt, PktType, RxType
  <2> HIDE DEF p
  <2>5. UNCHANGED cltVars /\ joined' = joined
    BY <2>1 DEF From
  <2>6. Hearings'
    BY <2>1, <2>4, <2>5, TxHears
  <2>7. Meeting'
    BY <2>1, AnswerMeets
  <2> QED BY <2>6, <2>7
<1> QED BY <1>2, <1>3, <1>4, <1>5, <1>6, <1>7, <1>8, <1>9, <1>10 DEF Next, SrvNext

LEMMA HearInit ==
  ASSUME Init
  PROVE  Hearings /\ Meeting
<1>1. /\ toServer = <<>> /\ joined = {} /\ backup = machine
      /\ machine = [n \in Nodes |-> [now |-> 0, next |-> 1, got |-> <<>>, kill |-> FALSE]]
      /\ met = {} /\ heard = <<>>
  BY DEF Init, CltInit, SrvInit
<1>2. ASSUME NEW n \in Nodes PROVE MeetOf(n)
  BY <1>1 DEF MeetOf
<1>3. Asking
  BY <1>1 DEF Asking
<1> QED BY <1>1, <1>2, <1>3 DEF Hearings, Meeting

\* When nothing is left to parse, what is received is numbered as it was heard.
Ranked(g, n, h) ==
  LET mine == Hearing(h, n)
      place(k) == Cardinality({j \in mine : j <= k})
  IN  Len(g) = Cardinality(mine) /\ \A k \in mine : g[place(k)] = Tag(h[k])

LEMMA Ranks ==
  ASSUME NEW S, NEW g \in Seq(S), NEW n, NEW h \in Seq(Wave), NEW e, Follows(g, <<>>, n, h, e)
  PROVE  Ranked(g, n, h)
<1> DEFINE mine == Hearing(h, n)
           place(k) == Cardinality({j \in mine : j <= k})
<1>1. Len(g) \in Nat /\ Len(h) \in Nat /\ Len(<<>>) = 0 /\ Len(<<>>) \in Nat
  OBVIOUS
<1>2. \A s : s \in Places(g, <<>>, n) <=> s \in Int /\ 1 - Len(g) <= s /\ s <= 0
  BY <1>1, PlacesAre
<1>3. mine \subseteq 1..Len(h)
  BY DEF Hearing
<1> HIDE DEF mine
<1> DEFINE d == [i \in 1..Len(g) |-> e[i - Len(g)]]
<1>4. ASSUME NEW i \in 1..Len(g)
      PROVE  i - Len(g) \in Places(g, <<>>, n) /\ d[i] = e[i - Len(g)] /\ d[i] \in mine
             /\ g[i] = Tag(h[d[i]])
  <2>1. i - Len(g) \in Int /\ 1 - Len(g) <= i - Len(g) /\ i - Len(g) <= 0 /\ Len(g) + (i - Len(g)) = i
    BY <1>1
  <2>2. i - Len(g) \in Places(g, <<>>, n)
    BY <1>2, <2>1
  <2>3. d[i] = e[i - Len(g)]
    OBVIOUS
  <2> HIDE DEF d
  <2>4. e[i - Len(g)] \in Hearing(h, n) /\ TagAt(g, <<>>, i - Len(g)) = Tag(h[e[i - Len(g)]])
    BY <2>2 DEF Follows
  <2>5. TagAt(g, <<>>, i - Len(g)) = g[i]
    BY <2>1 DEF TagAt
  <2> QED BY <2>2, <2>3, <2>4, <2>5 DEF mine
<1>5. DOMAIN d = 1..Len(g)
  OBVIOUS
<1> HIDE DEF d
<1>6. ASSUME NEW i \in 1..Len(g), NEW j \in 1..Len(g), i < j PROVE d[i] < d[j]
  <2>1. i - Len(g) < j - Len(g)
    BY <1>1, <1>6
  <2>2. e[i - Len(g)] < e[j - Len(g)]
    BY <1>4, <2>1 DEF Follows
  <2> QED BY <1>4, <2>2
<1>7. ASSUME NEW k \in mine PROVE \E i \in 1..Len(g) : d[i] = k
  <2>1. PICK s \in Places(g, <<>>, n) : e[s] = k
    BY DEF Follows, mine
  <2>2. s \in Int /\ 1 - Len(g) <= s /\ s <= 0
    BY <1>2
  <2>3. s + Len(g) \in 1..Len(g) /\ (s + Len(g)) - Len(g) = s
    BY <1>1, <2>2
  <2> QED BY <1>4, <2>1, <2>3
<1>8. \A i \in 1..Len(g) : d[i] \in 1..Len(h)
  BY <1>3, <1>4
\* The first i of them.
<1>9. ASSUME NEW i \in 0..Len(g), NEW M, M \subseteq mine,
             \A j \in 1..Len(g) : d[j] \in M <=> j <= i
      PROVE  Cardinality(M) = i
  <2> DEFINE c == [j \in 1..i |-> d[j]]
  <2>1. i \in Nat /\ \A j \in 1..i : j \in 1..Len(g)
    BY <1>1
  <2>2. IsFiniteSet(1..i) /\ Cardinality(1..i) = i
    BY <2>1, FS_Interval
  <2>3. \A j \in 1..i : c[j] = d[j]
    OBVIOUS
  <2>4. c \in [1..i -> M]
    <3>1. \A j \in 1..i : d[j] \in M
      BY <1>9, <2>1
    <3> QED BY <3>1
  <2> HIDE DEF c
  <2>5. \A x, y \in 1..i : x < y => c[x] < c[y]
    BY <1>6, <2>1, <2>3
  <2>6. \A x \in 1..i : c[x] \in Nat
    BY <1>8, <2>1, <2>3
  <2>7. IsInjective(c)
    <3>1. \A x, y \in 1..i : c[x] = c[y] => x = y
      <4>1. ASSUME NEW x \in 1..i, NEW y \in 1..i, c[x] = c[y] PROVE x = y
        <5>1. ~ (x < y) /\ ~ (y < x)
          BY <2>5, <2>6, <4>1
        <5> QED BY <2>1, <5>1
      <4> QED BY <4>1
    <3>2. DOMAIN c = 1..i
      BY <2>4
    <3> QED BY <3>1, <3>2 DEF IsInjective
  <2>8. c \in Injection(1..i, M)
    BY <2>4, <2>7 DEF Injection
  <2>9. ASSUME NEW k \in M PROVE \E j \in 1..i : c[j] = k
    <3>1. PICK j \in 1..Len(g) : d[j] = k
      BY <1>7, <1>9
    <3>2. j <= i
      BY <1>9, <3>1
    <3>3. j \in 1..i
      BY <2>1, <3>2
    <3> QED BY <2>3, <3>1, <3>3
  <2>10. c \in Surjection(1..i, M)
    BY <2>4, <2>9 DEF Surjection
  <2>11. c \in Bijection(1..i, M)
    BY <2>8, <2>10 DEF Bijection
  <2>12. Cardinality(1..i) = Cardinality(M)
    <3>1. ExistsBijection(1..i, M)
      BY <2>11 DEF ExistsBijection
    <3>2. IsFiniteSet(M) /\ Cardinality(M) = Cardinality(1..i)
      BY <2>2, <3>1, FS_Bijection
    <3> QED BY <3>2
  <2> QED BY <2>2, <2>12
<1>10. Len(g) = Cardinality(mine)
  <2>1. \A j \in 1..Len(g) : d[j] \in mine <=> j <= Len(g)
    BY <1>4
  <2>2. Len(g) \in 0..Len(g)
    BY <1>1
  <2> QED BY <1>9, <2>1, <2>2
<1>11. ASSUME NEW k \in mine PROVE g[place(k)] = Tag(h[k])
  <2>1. PICK i \in 1..Len(g) : d[i] = k
    BY <1>7
  <2>2. PICK M : M = {j \in mine : j <= k}
    OBVIOUS
  <2>3. ASSUME NEW j \in 1..Len(g) PROVE d[j] \in M <=> j <= i
    <3>1. d[j] \in Nat /\ d[i] \in Nat /\ d[j] \in mine
      BY <1>4, <1>8
    <3>2. d[j] \in M <=> d[j] <= d[i]
      BY <2>1, <2>2, <3>1
    <3>3. j < i => d[j] < d[i]
      BY <1>6
    <3>4. i < j => d[i] < d[j]
      BY <1>6
    <3>5. j < i \/ j = i \/ i < j
      OBVIOUS
    <3> QED BY <3>1, <3>2, <3>3, <3>4, <3>5
  <2>4. M \subseteq mine /\ i \in 0..Len(g)
    BY <2>2
  <2>5. Cardinality(M) = i
    BY <1>9, <2>3, <2>4
  <2> QED BY <1>4, <2>1, <2>2, <2>5
<1> QED BY <1>10, <1>11 DEF mine, Ranked

\* A node that has parsed its packets has received what has ended of what it
\* hears, each byte once and in its place, however often machine_state_restore
\* took it back.
THEOREM HeardAlways == Spec => []HeardOnce
<1>1. Init => Hearings /\ Meeting
  BY HearInit
<1>2. (IInv /\ Ahead) /\ (Hearings /\ Meeting) /\ [Next]_vars => (Hearings /\ Meeting)'
  BY HearStep
<1>3. IInv /\ Hearings => HeardOnce
  <2>1. ASSUME IInv, Hearings, NEW n \in Nodes, UpToDate(n)
        PROVE  LET mine     == {k \in 1..Len(heard) : Hears(n, heard[k])}
                   place(k) == Cardinality({j \in mine : j <= k})
               IN  /\ Len(machine[n].got) = Cardinality(mine)
                   /\ \A k \in mine : machine[n].got[place(k)] = <<heard[k].src, heard[k].start>>
    <3>1. n \in joined /\ ~ machine[n].kill /\ mcast[n] = <<>> /\ Len(mcast[n]) = 0
      BY <2>1 DEF UpToDate, Live
    <3>2. ~ Doomed(mcast[n], n)
      BY <3>1 DEF Doomed
    <3>3. ~ Leaving(n)
      BY <3>1, <3>2 DEF Leaving
    <3>4. n \notin killed
      BY <2>1, <3>1, <3>3 DEF IInv, Members, MemberOf
    <3>5. PICK e : Follows(machine[n].got, <<>>, n, heard, e)
      BY <2>1, <3>1, <3>4 DEF Hearings, HearOf
    <3>6. machine[n] \in MachineT /\ heard \in Seq(Wave)
      BY <2>1, NodeParts DEF IInv, TypeInv, TypeOK, SrvTypeOK
    <3>7. machine[n].got \in Seq(Nodes \X Nat)
      BY <3>6 DEF MachineT
    <3>8. Ranked(machine[n].got, n, heard)
      BY <3>5, <3>6, <3>7, Ranks
    <3> QED BY <3>8 DEF Ranked, Hearing, Tag
  <2> QED BY <2>1 DEF HeardOnce
<1> QED BY <1>1, <1>2, <1>3, Together, PTL DEF Spec

=============================================================================
