--------------------------- MODULE Wsnet1OpenProofs ---------------------------
(***************************************************************************)
(* Proofs about the WSNet1 server, for every number of nodes, every        *)
(* period, every size of a char and every set of datagrams.                *)
(***************************************************************************)
EXTENDS Wsnet1Open, FiniteSetTheorems, TLAPS

-----------------------------------------------------------------------------
(* Datagrams. *)

LEMMA TxFields ==
  ASSUME NEW m \in Datagrams, m.type = "TX"
  PROVE  /\ m.node \in Nodes /\ m.seq \in Nat
         /\ m.period \in Nat /\ m.duration \in Nat /\ m.duration > 0
BY DatagramAssumption DEF ClientPkt

LEMMA NodeField ==
  ASSUME NEW m \in Datagrams, m.type \in {"CONNECT", "DISCONNECT"}
  PROVE  m.node \in Nodes
BY DatagramAssumption DEF ClientPkt

\* What a step that reads a datagram of some type knows about it.
LEMMA Received ==
  ASSUME TypeOK, NEW type, Recv(type)
  PROVE  /\ Head(toServer) \in Datagrams /\ Head(toServer).type = type
         /\ spc = "listen"
         /\ toServer' \in Seq(Datagrams) /\ Len(toServer') <= 1
BY DEF TypeOK, Recv

\* The transmission of a TX datagram.
LEMMA TxIsTransmission ==
  ASSUME TypeOK, Recv("TX")
  PROVE  /\ TxOf(Head(toServer)) \in Transmission
         /\ TxOf(Head(toServer)).start >= global
         /\ TxOf(Head(toServer)).start < TxOf(Head(toServer)).end
<1>1. Head(toServer) \in Datagrams /\ Head(toServer).type = "TX"
  BY Received
<1>2. global \in Nat
  BY DEF TypeOK, SrvTypeOK
<1> QED
  BY <1>1, <1>2, TxFields DEF TxOf, Transmission

-----------------------------------------------------------------------------
(* Type correctness. *)

LEMMA TypeInit == Init => TypeOK
BY ServerAssumption DEF Init, NetInit, SrvInit, TypeOK, SrvTypeOK

LEMMA TypeArrive == TypeOK /\ Arrive => TypeOK'
BY DEF Arrive, SendToServer, TypeOK, SrvTypeOK, srvVars

LEMMA CharIncrType ==
  ASSUME NEW c \in Int, c <= CharMax
  PROVE  CharIncr(c) \in Int /\ CharIncr(c) <= CharMax
BY ServerAssumption DEF CharIncr

LEMMA TypeListen == TypeOK /\ SrvListen => TypeOK'
<1> SUFFICES ASSUME TypeOK, SrvListen PROVE TypeOK'
  OBVIOUS
<1>1. CASE RecvDisconnect
  BY <1>1, Received DEF RecvDisconnect, BarrierCheck, TypeOK, SrvTypeOK
<1>2. CASE RecvConnect
  <2>1. Head(toServer).node \in Nodes
    BY <1>2, Received, NodeField DEF RecvConnect
  <2> QED
    BY <1>2, <2>1, Received DEF RecvConnect, TypeOK, SrvTypeOK, schedVars
<1>3. CASE RecvSynched
  <2>1. synched' \in Int /\ synched' <= CharMax
    BY <1>3, CharIncrType DEF RecvSynched, TypeOK, SrvTypeOK
  <2> QED
    BY <1>3, <2>1, Received DEF RecvSynched, BarrierCheck, TypeOK, SrvTypeOK
<1>4. CASE RecvTxDropped
  BY <1>4, Received DEF RecvTxDropped, TypeOK, SrvTypeOK, srvVars
<1>5. CASE RecvTxAccepted
  BY <1>5, Received, TxIsTransmission DEF RecvTxAccepted, TypeOK, SrvTypeOK
<1>6. CASE RecvTxBacktrack
  <2>1. TxOf(Head(toServer)).end \in Nat
    BY <1>6, TxIsTransmission DEF RecvTxBacktrack, Transmission
  <2>2. events' \subseteq Transmission /\ packets' \subseteq Transmission
    BY <1>6, TxIsTransmission
    DEF RecvTxBacktrack, StartedBy, TypeOK, SrvTypeOK
  <2>3. /\ rp' = TxOf(Head(toServer)).end /\ rp_seq' = rp_seq + 1
        /\ synched' = 0 /\ pkt_seq' = pkt_seq + 1
        /\ UNCHANGED <<spc, global, active, c_nodes, delivered>>
    BY <1>6 DEF RecvTxBacktrack
  <2>4. toServer' \in Seq(Datagrams) /\ Len(toServer') <= 1
    BY <1>6, Received DEF RecvTxBacktrack
  <2> QED
    BY <2>1, <2>2, <2>3, <2>4, ServerAssumption DEF TypeOK, SrvTypeOK
<1> QED
  BY <1>1, <1>2, <1>3, <1>4, <1>5, <1>6 DEF SrvListen

LEMMA TypeCore == TypeOK /\ SrvCore => TypeOK'
<1> SUFFICES ASSUME TypeOK, SrvCore PROVE TypeOK'
  OBVIOUS
<1> USE ServerAssumption
<1>1. CASE CoreIdle
  BY <1>1 DEF CoreIdle, SaveReleaseRequest, NextRendezVous, schedVars,
              TypeOK, SrvTypeOK
<1>2. CASE CoreWait
  <2>1. PICK e \in events :
          /\ global < e.end /\ SaveReleaseRequest(e.end - global)
    BY <1>2 DEF CoreWait
  <2>2. e.end - global \in Nat
    BY <2>1 DEF TypeOK, SrvTypeOK, Transmission
  <2> QED
    BY <1>2, <2>1, <2>2 DEF CoreWait, SaveReleaseRequest, NextRendezVous,
                            schedVars, TypeOK, SrvTypeOK
<1>3. CASE CoreTx
  <2>0. UNCHANGED <<global, active, c_nodes, toServer>>
    BY <1>3 DEF CoreTx
  <2>1. CASE /\ spc' = "desync"
             /\ UNCHANGED <<rp, rp_seq, synched, pkt_seq, events, packets,
                            delivered>>
    BY <2>0, <2>1 DEF TypeOK, SrvTypeOK
  <2>2. ASSUME NEW e \in events, e.end = global, Handed(e)
        PROVE  TypeOK'
    <3>1. /\ events' \subseteq Transmission /\ packets' \subseteq Transmission
          /\ delivered' \in Seq(Transmission)
      BY <2>2 DEF Handed, StillInTheAir, TypeOK, SrvTypeOK
    <3>2. /\ rp' \in Nat /\ rp_seq' \in Nat /\ pkt_seq' \in Nat
          /\ synched' \in Int /\ synched' <= CharMax
          /\ spc' \in {"listen", "core"}
      <4>1. CASE events' = {}
        BY <2>2, <4>1 DEF Handed, SaveReleaseRequestRx, NextRendezVous,
                          TypeOK, SrvTypeOK
      <4>2. CASE events' # {}
        <5>1. PICK f \in events' :
                IF f.end > global THEN SaveReleaseRequestRx(e, f.end - global)
                                  ELSE SendRx(e)
          BY <2>2, <4>2 DEF Handed
        <5>2. f.end \in Nat /\ global \in Nat
          BY <3>1 DEF Transmission, TypeOK, SrvTypeOK
        <5>3. CASE f.end > global
          <6>1. NextRendezVous(f.end - global)
            BY <5>1, <5>3 DEF SaveReleaseRequestRx
          <6>2. f.end - global \in Nat
            BY <5>2, <5>3
          <6> QED
            BY <6>1, <6>2 DEF NextRendezVous, TypeOK, SrvTypeOK
        <5>4. CASE ~ (f.end > global)
          <6>1. SendRx(e) /\ spc = "core"
            BY <1>3, <5>1, <5>4 DEF CoreTx
          <6> QED
            BY <6>1 DEF SendRx, TypeOK, SrvTypeOK
        <5> QED
          BY <5>3, <5>4
      <4> QED
        BY <4>1, <4>2
    <3> QED
      BY <2>0, <3>1, <3>2 DEF TypeOK, SrvTypeOK
  <2> QED
    BY <1>3, <2>1, <2>2 DEF CoreTx
<1> QED
  BY <1>1, <1>2, <1>3 DEF SrvCore

\* The types of the server's variables are what SrvTypeOK says, at all times.
THEOREM TypeCorrect == Spec => []TypeOK
<1>1. TypeOK /\ UNCHANGED vars => TypeOK'
  BY DEF TypeOK, SrvTypeOK, vars, srvVars, netVars
<1>2. TypeOK /\ [Next]_vars => TypeOK'
  BY <1>1, TypeArrive, TypeListen, TypeCore DEF Next, SrvNext
<1> QED
  BY <1>2, TypeInit, PTL DEF Spec
-----------------------------------------------------------------------------
(* The rendez-vous never passes the end of a scheduled byte. *)

Timing == NoDesync /\ Punctual /\ Started

LEMMA TimingInit == Init => Timing
BY ServerAssumption DEF Init, SrvInit, Timing, NoDesync, Punctual, Started

\* A datagram that schedules nothing may open the barrier, but leaves the
\* rendez-vous where it is.
LEMMA TimingBarrier ==
  ASSUME TypeOK, Timing, spc = "listen", NEW c, NEW k,
         BarrierCheck(c, k), UNCHANGED <<rp, events>>
  PROVE  Timing'
BY DEF BarrierCheck, TypeOK, SrvTypeOK, Timing, NoDesync, Punctual, Started

LEMMA TimingListen == TypeOK /\ Timing /\ SrvListen => Timing'
<1> SUFFICES ASSUME TypeOK, Timing, SrvListen PROVE Timing'
  OBVIOUS
<1> DEFINE t == TxOf(Head(toServer))
<1>0. UNCHANGED <<spc, global, rp, events>> => Timing'
  BY DEF Timing, NoDesync, Punctual, Started
<1>1. CASE RecvDisconnect
  <2>1. spc = "listen"
    BY <1>1, Received DEF RecvDisconnect
  <2>2. CASE /\ spc' = "stopped" /\ events' = {} /\ UNCHANGED <<global, rp>>
    BY <2>2 DEF Timing, NoDesync, Punctual, Started
  <2>3. CASE UNCHANGED <<rp, events>> /\ \E c, k : BarrierCheck(c, k)
    BY <2>1, <2>3, TimingBarrier
  <2> QED
    BY <1>1, <2>2, <2>3 DEF RecvDisconnect
<1>2. CASE RecvConnect
  BY <1>0, <1>2 DEF RecvConnect, schedVars
<1>3. CASE RecvSynched
  <2>1. spc = "listen"
    BY <1>3, Received DEF RecvSynched
  <2>2. CASE UNCHANGED <<rp, events>> /\ \E c, k : BarrierCheck(c, k)
    BY <2>1, <2>2, TimingBarrier
  <2> QED
    BY <1>0, <1>3, <2>2 DEF RecvSynched
<1>4. CASE RecvTxDropped
  BY <1>0, <1>4 DEF RecvTxDropped, srvVars
<1>5. CASE RecvTxAccepted
  <2>1. t \in Transmission /\ t.start < t.end
    BY <1>5, TxIsTransmission DEF RecvTxAccepted
  <2>2. /\ t.start <= rp /\ rp <= t.end /\ events' = events \cup {t}
        /\ UNCHANGED <<spc, global, rp>>
    BY <1>5, <2>1 DEF RecvTxAccepted, Deprecated, Transmission, TypeOK, SrvTypeOK
  <2> QED
    BY <2>1, <2>2 DEF Timing, NoDesync, Punctual, Started
<1>6. CASE RecvTxBacktrack
  <2>1. /\ t \in Transmission /\ global <= t.start /\ t.start < t.end
        /\ spc = "listen"
    BY <1>6, TxIsTransmission, Received DEF RecvTxBacktrack
  <2>2. /\ t.end < rp /\ rp' = t.end
        /\ events' = StartedBy(events \cup {t}, t.end)
        /\ UNCHANGED <<spc, global>>
    BY <1>6 DEF RecvTxBacktrack
  <2>3. events \subseteq Transmission /\ global \in Nat /\ rp \in Nat
    BY DEF TypeOK, SrvTypeOK
  <2>4. Punctual'
    BY <2>1, <2>2, <2>3 DEF Timing, Punctual, StartedBy, Transmission
  <2>5. Started'
    BY <2>1, <2>2 DEF Timing, Started, StartedBy
  <2> QED
    BY <2>2, <2>4, <2>5 DEF Timing, NoDesync
<1> QED
  BY <1>1, <1>2, <1>3, <1>4, <1>5, <1>6 DEF SrvListen

\* The body of the loop starts at the rendez-vous, so the first event is in
\* the future or due, and the next rendez-vous is at most the first end.
LEMMA FirstIsDue ==
  ASSUME TypeOK, Timing, CoreTx
  PROVE  /\ spc = "core" /\ global = rp
         /\ UNCHANGED <<global, active, c_nodes, toServer>>
         /\ \E e \in events : IsFirst(e, events) /\ e.end = global /\ Handed(e)
BY DEF CoreTx, TypeOK, SrvTypeOK, Transmission, Timing, Punctual

LEMMA TimingCore == TypeOK /\ Timing /\ SrvCore => Timing'
<1> SUFFICES ASSUME TypeOK, Timing, SrvCore PROVE Timing'
  OBVIOUS
<1> USE ServerAssumption
<1>0. /\ events \subseteq Transmission /\ global \in Nat /\ rp \in Nat
      /\ spc = "core" /\ global = rp
  BY DEF SrvCore, CoreIdle, CoreWait, CoreTx, TypeOK, SrvTypeOK, Timing, Punctual
<1>1. CASE CoreIdle
  BY <1>0, <1>1 DEF CoreIdle, SaveReleaseRequest, NextRendezVous, schedVars,
                    Timing, NoDesync, Punctual, Started
<1>2. ASSUME NEW f \in events', events' \subseteq events, IsFirst(f, events'),
             global < f.end, NextRendezVous(f.end - global), UNCHANGED global
      PROVE  Timing'
  <2>1. rp' = f.end /\ spc' = "listen"
    BY <1>0, <1>2 DEF NextRendezVous, Transmission
  <2>2. \A e \in events' : e.start <= rp /\ e.start < e.end /\ f.end <= e.end
                           /\ e \in Transmission
    BY <1>0, <1>2 DEF IsFirst, Timing, Started
  <2> QED
    BY <1>0, <1>2, <2>1, <2>2
    DEF Timing, NoDesync, Punctual, Started, Transmission
<1>3. CASE CoreWait
  <2>1. /\ UNCHANGED <<events, global>>
        /\ \E f \in events : IsFirst(f, events) /\ global < f.end
                             /\ NextRendezVous(f.end - global)
    BY <1>3 DEF CoreWait, SaveReleaseRequest, schedVars
  <2> QED
    BY <1>2, <2>1
<1>4. CASE CoreTx
  <2>1. PICK e \in events :
          IsFirst(e, events) /\ e.end = global /\ Handed(e)
    BY <1>4, FirstIsDue
  <2>2. events' \subseteq events /\ UNCHANGED global
    BY <1>4, <2>1, FirstIsDue DEF Handed
  <2>3. CASE events' = {}
    BY <1>0, <2>1, <2>2, <2>3
    DEF Handed, SaveReleaseRequestRx, NextRendezVous, Timing, NoDesync,
        Punctual, Started
  <2>4. CASE events' # {}
    <3>1. PICK f \in events' :
            /\ IsFirst(f, events')
            /\ IF f.end > global THEN SaveReleaseRequestRx(e, f.end - global)
                                 ELSE SendRx(e)
      BY <2>1, <2>4 DEF Handed
    <3>2. CASE f.end > global
      <4>1. NextRendezVous(f.end - global)
        BY <3>1, <3>2 DEF SaveReleaseRequestRx
      <4>2. global < f.end
        BY <1>0, <2>2, <3>2 DEF Transmission
      <4> QED
        BY <1>2, <2>2, <3>1, <4>1, <4>2
    <3>3. CASE ~ (f.end > global)
      <4>1. UNCHANGED <<spc, rp>>
        BY <3>1, <3>3 DEF SendRx
      <4> QED
        BY <2>2, <4>1 DEF Timing, NoDesync, Punctual, Started
    <3> QED
      BY <3>2, <3>3
  <2> QED
    BY <2>3, <2>4
<1> QED
  BY <1>1, <1>3, <1>4 DEF SrvCore

LEMMA TimingStep == TypeOK /\ Timing /\ [Next]_vars => Timing'
<1>1. Timing /\ UNCHANGED srvVars => Timing'
  BY DEF Timing, NoDesync, Punctual, Started, srvVars
<1> QED
  BY <1>1, TimingListen, TimingCore DEF Next, SrvNext, Arrive, vars

THEOREM TimingCorrect == Spec => []Timing
BY TypeCorrect, TimingInit, TimingStep, PTL DEF Spec

\* The exception of core_start is unreachable, whatever the nodes send.
THEOREM NeverDesynchronized == Spec => []NoDesync
<1>1. Timing => NoDesync
  BY DEF Timing
<1> QED
  BY <1>1, TimingCorrect, PTL

-----------------------------------------------------------------------------
(* The lists of the scheduler. *)

Lists == NoDanglingEvent /\ ScheduledOnce

LEMMA ListsInit == Init => Lists
BY DEF Init, SrvInit, Lists, NoDanglingEvent, ScheduledOnce

LEMMA ListsListen == Lists /\ SrvListen => Lists'
<1> SUFFICES ASSUME Lists, SrvListen PROVE Lists'
  OBVIOUS
<1> USE DEF Lists, NoDanglingEvent, ScheduledOnce
<1>1. CASE RecvDisconnect
  BY <1>1 DEF RecvDisconnect
<1>2. CASE RecvConnect
  BY <1>2 DEF RecvConnect, schedVars
<1>3. CASE RecvSynched
  BY <1>3 DEF RecvSynched
<1>4. CASE RecvTxDropped
  BY <1>4 DEF RecvTxDropped, srvVars
<1>5. CASE RecvTxAccepted
  BY <1>5 DEF RecvTxAccepted, Retransmitted
<1>6. CASE RecvTxBacktrack
  BY <1>6 DEF RecvTxBacktrack, Retransmitted, StartedBy
<1> QED
  BY <1>1, <1>2, <1>3, <1>4, <1>5, <1>6 DEF SrvListen

\* A byte that has not been heard starts before it ends, so the packet of a
\* pending event is never among those core_update_packet_list frees.
LEMMA ListsCore == TypeOK /\ Timing /\ Lists /\ SrvCore => Lists'
<1> SUFFICES ASSUME TypeOK, Timing, Lists, SrvCore PROVE Lists'
  OBVIOUS
<1>1. CASE CoreIdle \/ CoreWait
  BY <1>1 DEF CoreIdle, CoreWait, schedVars, Lists, NoDanglingEvent,
              ScheduledOnce
<1>2. CASE CoreTx
  <2>1. PICK e \in events : Handed(e)
    BY <1>2, FirstIsDue
  <2>2. /\ events' \subseteq events
        /\ packets' = StillInTheAir(global, events')
    BY <2>1 DEF Handed
  <2>3. \A f \in events' : f \in packets /\ f.start < f.end
    BY <2>2 DEF Lists, NoDanglingEvent, Timing, Started
  <2> QED
    BY <2>2, <2>3 DEF StillInTheAir, Lists, NoDanglingEvent, ScheduledOnce
<1> QED
  BY <1>1, <1>2 DEF SrvCore

THEOREM ListsCorrect == Spec => []Lists
<1>1. Lists /\ UNCHANGED srvVars => Lists'
  BY DEF Lists, NoDanglingEvent, ScheduledOnce, srvVars
<1>2. TypeOK /\ Timing /\ Lists /\ [Next]_vars => Lists'
  BY <1>1, ListsListen, ListsCore DEF Next, SrvNext, Arrive, vars
<1> QED
  BY <1>2, ListsInit, TypeCorrect, TimingCorrect, PTL DEF Spec

\* No event of g_events points to a packet that has been freed.
THEOREM EventsNeverDangle == Spec => []NoDanglingEvent
<1>1. Lists => NoDanglingEvent
  BY DEF Lists
<1> QED
  BY <1>1, ListsCorrect, PTL

\* A repeated TX is scheduled only once.
THEOREM NeverScheduledTwice == Spec => []ScheduledOnce
<1>1. Lists => ScheduledOnce
  BY DEF Lists
<1> QED
  BY <1>1, ListsCorrect, PTL

-----------------------------------------------------------------------------
(* The node table. *)

Counting == IsFiniteSet(active) /\ NodesCounted

\* g_c_nodes is the number of active nodes.
THEOREM NodesAlwaysCounted == Spec => []NodesCounted
<1>1. Init => Counting
  BY FS_EmptySet DEF Init, SrvInit, Counting, NodesCounted
<1>2. ASSUME Counting, [Next]_vars PROVE Counting'
  <2>1. CASE UNCHANGED <<active, c_nodes>>
    BY <1>2, <2>1 DEF Counting, NodesCounted
  <2>2. CASE RecvConnect
    <3> DEFINE n == Head(toServer).node
    <3>1. CASE UNCHANGED <<active, c_nodes>>
      BY <2>1, <3>1
    <3>2. CASE /\ active' = active \cup {n}
               /\ c_nodes' = IF n \in active THEN c_nodes ELSE c_nodes + 1
      BY <1>2, <3>2, FS_AddElement DEF Counting, NodesCounted
    <3> QED
      BY <2>2, <3>1, <3>2 DEF RecvConnect
  <2>3. CASE RecvDisconnect
    <3> DEFINE n == Head(toServer).node
    <3>1. /\ active' = active \ {n}
          /\ c_nodes' = IF n \in active THEN c_nodes - 1 ELSE c_nodes
      BY <2>3 DEF RecvDisconnect
    <3> QED
      BY <1>2, <3>1, FS_RemoveElement DEF Counting, NodesCounted
  <2>4. CASE Arrive \/ UNCHANGED vars
    BY <2>1, <2>4 DEF Arrive, vars, srvVars
  <2>5. CASE RecvSynched \/ RecvTxDropped \/ RecvTxAccepted \/ RecvTxBacktrack
    BY <2>1, <2>5
    DEF RecvSynched, RecvTxDropped, RecvTxAccepted, RecvTxBacktrack, srvVars
  <2>6. CASE SrvCore
    BY <2>1, <2>6 DEF SrvCore, CoreIdle, CoreWait, CoreTx
  <2> QED
    BY <1>2, <2>2, <2>3, <2>4, <2>5, <2>6 DEF Next, SrvNext, SrvListen
<1>3. Counting => NodesCounted
  BY DEF Counting
<1> QED
  BY <1>1, <1>2, <1>3, PTL DEF Spec

-----------------------------------------------------------------------------
(* The order in which bytes are handed over. *)

\* What a step does to the clock and to the history.
LEMMA HistoryStep ==
  ASSUME TypeOK, Timing, [Next]_vars
  PROVE  \/ UNCHANGED delivered /\ global' \in Nat /\ global <= global'
         \/ /\ UNCHANGED global
            /\ \E e \in events : e.end = global
                                 /\ delivered' = Append(delivered, e)
<1>0. global \in Nat /\ rp \in Nat /\ global <= rp
  BY DEF TypeOK, SrvTypeOK, Timing, Punctual
<1>1. CASE UNCHANGED srvVars
  BY <1>0, <1>1 DEF srvVars
<1>2. CASE SrvListen
  BY <1>0, <1>2
  DEF SrvListen, RecvDisconnect, RecvConnect, RecvSynched, RecvTxDropped,
      RecvTxAccepted, RecvTxBacktrack, BarrierCheck, schedVars, srvVars
<1>3. CASE CoreIdle \/ CoreWait
  BY <1>0, <1>3 DEF CoreIdle, CoreWait, schedVars
<1>4. CASE CoreTx
  BY <1>4, FirstIsDue DEF Handed
<1> QED
  BY <1>1, <1>2, <1>3, <1>4 DEF Next, SrvNext, SrvCore, Arrive, vars

LEMMA HeardStep == TypeOK /\ Timing /\ HeardBefore /\ [Next]_vars => HeardBefore'
<1> SUFFICES ASSUME TypeOK, Timing, HeardBefore, [Next]_vars PROVE HeardBefore'
  OBVIOUS
<1>0. /\ global \in Nat /\ delivered \in Seq(Transmission)
      /\ events \subseteq Transmission
  BY DEF TypeOK, SrvTypeOK
<1>1. ASSUME NEW i \in 1..Len(delivered) PROVE delivered[i].end \in Nat
  <2>1. delivered[i] \in Transmission
    BY <1>0
  <2> QED
    BY <2>1 DEF Transmission
<1>2. CASE UNCHANGED delivered /\ global' \in Nat /\ global <= global'
  BY <1>0, <1>1, <1>2 DEF HeardBefore
<1>3. ASSUME UNCHANGED global, NEW e \in events, e.end = global,
             delivered' = Append(delivered, e)
      PROVE  HeardBefore'
  <2>1. /\ Len(delivered') = Len(delivered) + 1
        /\ delivered'[Len(delivered) + 1] = e
        /\ \A i \in 1..Len(delivered) : delivered'[i] = delivered[i]
    BY <1>0, <1>3
  <2>2. \A i \in 1..Len(delivered') : delivered'[i].end <= global
    BY <1>0, <1>3, <2>1 DEF HeardBefore
  <2>3. ASSUME NEW i \in 1..Len(delivered'), NEW j \in 1..Len(delivered'), i < j
        PROVE  delivered'[i].end <= delivered'[j].end
    <3>0. Len(delivered) \in Nat
      BY <1>0
    <3>1. CASE j = Len(delivered) + 1
      BY <1>3, <2>1, <2>2, <3>1
    <3>2. CASE j \in 1..Len(delivered)
      <4>1. i \in 1..Len(delivered)
        BY <2>3, <3>0, <3>2
      <4> QED
        BY <2>1, <2>3, <3>2, <4>1 DEF HeardBefore
    <3> QED
      BY <2>1, <2>3, <3>0, <3>1, <3>2
  <2> QED
    BY <1>3, <2>2, <2>3 DEF HeardBefore
<1> QED
  BY <1>2, <1>3, HistoryStep

\* Bytes are handed to the nodes in the order of their ends, and none that
\* is still scheduled is late.
THEOREM DeliveriesAreOrdered == Spec => []DeliveredInOrder
<1>1. Init => HeardBefore
  BY DEF Init, SrvInit, HeardBefore
<1>2. TypeOK /\ Timing /\ HeardBefore => DeliveredInOrder
  <2> SUFFICES ASSUME TypeOK, Timing, HeardBefore,
                      NEW i \in 1..Len(delivered), NEW e \in events
               PROVE  delivered[i].end <= e.end
    BY DEF HeardBefore, DeliveredInOrder, Air!Causal
  <2>1. delivered[i] \in Transmission /\ e \in Transmission
    BY DEF TypeOK, SrvTypeOK
  <2>2. delivered[i].end \in Nat /\ e.end \in Nat
    BY <2>1 DEF Transmission
  <2>3. delivered[i].end <= global /\ global <= rp /\ rp <= e.end
    BY DEF HeardBefore, Timing, Punctual
  <2> QED
    BY <2>2, <2>3 DEF TypeOK, SrvTypeOK
<1> QED
  BY <1>1, <1>2, HeardStep, TypeCorrect, TimingCorrect, PTL DEF Spec

-----------------------------------------------------------------------------
(* The rendez-vous. *)

\* Global time never decreases, and the rendez-vous moves back only to the
\* end of a byte on the air that nobody can have heard yet.
THEOREM RendezVousStaysAhead == Spec => RendezVousAhead
<1> DEFINE Step == /\ global' >= global
                   /\ rp' < rp => /\ rp' > global /\ spc = "listen"
                                  /\ \E e \in events' : e.end = rp'
<1>1. TypeOK /\ Timing /\ Timing' /\ TypeOK' /\ [Next]_vars => [Step]_vars
  <2> SUFFICES ASSUME TypeOK, Timing, Timing', TypeOK', [Next]_vars PROVE Step
    OBVIOUS
  <2>0. /\ global \in Nat /\ rp \in Nat /\ global <= rp
        /\ global' \in Nat /\ rp' \in Nat /\ global' <= rp'
    BY DEF TypeOK, SrvTypeOK, Timing, Punctual
  <2>1. global <= global'
    BY <2>0, HistoryStep
  <2>2. CASE RecvTxBacktrack
    <3> DEFINE t == TxOf(Head(toServer))
    <3>1. /\ t \in Transmission /\ global <= t.start /\ t.start < t.end
          /\ spc = "listen"
      BY <2>2, TxIsTransmission, Received DEF RecvTxBacktrack
    <3>2. rp' = t.end /\ t \in events'
      BY <2>2, <3>1 DEF RecvTxBacktrack, StartedBy, Transmission
    <3> QED
      BY <2>0, <2>1, <3>1, <3>2 DEF Transmission
  <2>3. CASE rp' = rp
    BY <2>0, <2>1, <2>3
  <2>4. CASE SrvCore
    <3>1. rp = global /\ UNCHANGED global
      BY <2>4 DEF SrvCore, CoreIdle, CoreWait, CoreTx, schedVars, Timing, Punctual
    <3> QED
      BY <2>0, <2>1, <3>1
  <2>5. CASE Arrive \/ UNCHANGED vars
    BY <2>3, <2>5 DEF Arrive, vars, srvVars
  <2>6. CASE RecvDisconnect \/ RecvConnect \/ RecvSynched \/ RecvTxDropped
             \/ RecvTxAccepted
    BY <2>3, <2>6 DEF RecvDisconnect, RecvConnect, RecvSynched, RecvTxDropped,
                      RecvTxAccepted, srvVars
  <2> QED
    BY <2>2, <2>4, <2>5, <2>6 DEF Next, SrvNext, SrvListen
<1> QED
  BY <1>1, TypeCorrect, TimingCorrect, PTL DEF Spec, RendezVousAhead

-----------------------------------------------------------------------------
(* The server implements the medium. *)

LEMMA MediumByte == Air!Byte = Transmission
BY DEF Air!Byte, Transmission

\* A datagram that opens the barrier lets simulated time pass.
LEMMA MediumBarrier ==
  ASSUME TypeOK, Timing, NEW c, NEW k, BarrierCheck(c, k),
         UNCHANGED <<events, delivered>>
  PROVE  [Air!Next]_(Air!vars)
<1>1. CASE UNCHANGED global
  BY <1>1 DEF Air!vars
<1>2. CASE global' = rp /\ global # rp
  BY <1>2 DEF TypeOK, SrvTypeOK, Timing, Punctual, Air!Next, Air!Advance
<1> QED
  BY <1>1, <1>2 DEF BarrierCheck

\* A TX that is neither deprecated nor known is fresh.
LEMMA MediumFresh ==
  ASSUME TypeOK, Lists, Recv("TX"), ~ Retransmitted(TxOf(Head(toServer)))
  PROVE  Air!Fresh(TxOf(Head(toServer)))
BY TxIsTransmission, MediumByte
DEF Air!Fresh, Retransmitted, Lists, NoDanglingEvent

LEMMA MediumListen ==
  ASSUME TypeOK, Timing, Lists, SrvListen
  PROVE  [Air!Next]_(Air!vars)
<1> DEFINE t == TxOf(Head(toServer))
<1>1. CASE RecvDisconnect
  <2>1. CASE events' = {} /\ UNCHANGED <<global, delivered>>
    BY <2>1 DEF Air!Next, Air!Shutdown
  <2>2. CASE UNCHANGED <<events, delivered>> /\ \E c, k : BarrierCheck(c, k)
    BY <2>2, MediumBarrier
  <2> QED
    BY <1>1, <2>1, <2>2 DEF RecvDisconnect
<1>2. CASE RecvConnect \/ RecvTxDropped
  BY <1>2 DEF RecvConnect, RecvTxDropped, schedVars, srvVars, Air!vars
<1>3. CASE RecvSynched
  <2>1. CASE UNCHANGED <<global, events, delivered>>
    BY <2>1 DEF Air!vars
  <2>2. CASE UNCHANGED <<events, delivered>> /\ \E c, k : BarrierCheck(c, k)
    BY <2>2, MediumBarrier
  <2> QED
    BY <1>3, <2>1, <2>2 DEF RecvSynched
<1>4. CASE RecvTxAccepted
  <2>1. Air!Fresh(t) /\ events' = events \cup {t} /\ UNCHANGED <<global, delivered>>
    BY <1>4, MediumFresh DEF RecvTxAccepted
  <2> QED
    BY <2>1 DEF Air!Next, Air!Emit
<1>5. CASE RecvTxBacktrack
  <2>1. /\ Air!Fresh(t) /\ UNCHANGED <<global, delivered>>
        /\ events' = {e \in events \cup {t} : e.start <= t.end}
    BY <1>5, MediumFresh DEF RecvTxBacktrack, StartedBy
  <2>2. t \in events'
    BY <2>1, MediumByte DEF Air!Fresh, Transmission
  <2> QED
    BY <2>1, <2>2 DEF Air!Next, Air!Preempt
<1> QED
  BY <1>1, <1>2, <1>3, <1>4, <1>5 DEF SrvListen

LEMMA MediumCore ==
  ASSUME TypeOK, Timing, SrvCore
  PROVE  [Air!Next]_(Air!vars)
<1>1. CASE CoreIdle \/ CoreWait
  BY <1>1 DEF CoreIdle, CoreWait, schedVars, Air!vars
<1>2. CASE CoreTx
  BY <1>2, FirstIsDue DEF Handed, Air!Next, Air!Hear
<1> QED
  BY <1>1, <1>2 DEF SrvCore

\* Rendez-vous, repetitions and backtracks only ever amount to a medium on
\* which bytes are heard once, on time and in order.
THEOREM ServerImplementsMedium == Spec => ImplementsMedium
<1>1. Init => Air!Init
  BY DEF Init, SrvInit, Air!Init
<1>2. TypeOK /\ Timing /\ Lists /\ [Next]_vars => [Air!Next]_(Air!vars)
  <2> SUFFICES ASSUME TypeOK, Timing, Lists, [Next]_vars
               PROVE  [Air!Next]_(Air!vars)
    OBVIOUS
  <2>1. CASE UNCHANGED srvVars
    BY <2>1 DEF srvVars, Air!vars
  <2> QED
    BY <2>1, MediumListen, MediumCore DEF Next, SrvNext, Arrive, vars
<1> QED
  BY <1>1, <1>2, TypeCorrect, TimingCorrect, ListsCorrect, PTL
  DEF Spec, ImplementsMedium, Air!Spec
=============================================================================
