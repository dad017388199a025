----------------------------- MODULE Wsnet2Client -----------------------------
(***************************************************************************)
(* libwsnet/wsnet2_net.c: a WSim node in a simulation driven by a WSNet2   *)
(* server.                                                                 *)
(*                                                                         *)
(* Unlike the WSNet1 client, its own state (struct _worldsens_clt) is not  *)
(* part of what machine_state_save copies; the signals of the MCU are.     *)
(* wsnet2_update and the radio's update are called in this order after     *)
(* each instruction; wsnet2_sync and wsnet2_tx block until a packet makes  *)
(* the client idle again.                                                  *)
(***************************************************************************)
EXTENDS Integers, Sequences, FiniteSets

CONSTANTS
  Nodes,
  Antennas,  \* of a node, the antennas of its radios
  Programs,  \* of a node, the possible sequences of [at, dur, kind]
  Quantum,   \* of a node, the duration of an instruction
  RunTime    \* of a node, when its program ends

VARIABLES
  toServer,  \* datagrams sent to the UDP socket of the server
  answer,    \* answer[n]: datagrams sent to the unicast socket of n
  mcast,     \* mcast[n]: datagrams in the multicast socket of n
  joined,    \* nodes with a multicast socket
  pc,        \* where the thread of a node is
  program,
  wsens,     \* wsens[n]: state, seq, rpseq, l_rp, n_rp
  machine,   \* machine[n]: date, next byte, bytes heard, SIG_WORLDSENS_KILL
  backup     \* the machine when it was saved

netVars == <<toServer, answer, mcast, joined>>
cltVars == <<pc, program, wsens, machine, backup>>

Emission == [at : Nat, dur : Nat, kind : {"byte", "measure"}]

ASSUME ClientAssumption ==
  /\ IsFiniteSet(Nodes) /\ Quantum \in [Nodes -> Nat]
  /\ \A n \in Nodes : Programs[n] \subseteq Seq(Emission)
CltState == {"connecting", "idle", "pending", "txing", "killed"}

CltTypeOK ==
  /\ joined \subseteq Nodes
  /\ pc \in [Nodes -> {"off", "subscribe", "join", "run", "update", "check",
                       "radio", "sync", "tx", "end", "closed"}]
  /\ program \in [Nodes -> Seq(Emission)]
  /\ wsens \in [Nodes -> [state : CltState, seq : Nat, rpseq : Nat,
                          l_rp : Nat, n_rp : Nat]]
  /\ \A m \in {machine, backup} :
       m \in [Nodes -> [now : Nat, next : Nat \ {0}, got : Seq(Nodes \X Nat),
                        kill : BOOLEAN]]

\* wsnet2_init sets rpseq to 1; the rest of wsens is zero.
CltInit ==
  /\ toServer = <<>> /\ joined = {}
  /\ answer = [n \in Nodes |-> <<>>] /\ mcast = [n \in Nodes |-> <<>>]
  /\ pc = [n \in Nodes |-> "off"]
  /\ program \in {f \in [Nodes -> UNION {Programs[n] : n \in Nodes}] :
                    \A n \in Nodes : f[n] \in Programs[n]}
  /\ wsens = [n \in Nodes |-> [state |-> "connecting", seq |-> 0, rpseq |-> 1,
                               l_rp |-> 0, n_rp |-> 0]]
  /\ machine = [n \in Nodes |-> [now |-> 0, next |-> 1, got |-> <<>>,
                                 kill |-> FALSE]]
  /\ backup = machine

Send(pkt) == toServer' = Append(toServer, pkt)
Goto(n, where) == pc' = [pc EXCEPT ![n] = where]

\* A packet to the server: type, and the index of the rendez-vous, or the
\* period, the duration and the kind of what is asked.
SyncAck(n) == [type |-> "SYNC_ACK", node |-> n, rp_id |-> wsens[n].rpseq]
ByteTx(n, e) ==
  [type |-> "BYTE_TX", node |-> n, kind |-> e.kind, duration |-> e.dur,
   period |-> machine[n].now - wsens[n].l_rp]
Plain(n, type) == [type |-> type, node |-> n]

-----------------------------------------------------------------------------
(* The handlers, as functions of what a node is made of:                   *)
(*   [w : wsens[n], m : machine[n], b : backup[n], failed : BOOLEAN]       *)

Parts(n) == [w |-> wsens[n], m |-> machine[n], b |-> backup[n],
             failed |-> FALSE]

\* wsnet2_finalize: the main loop ends after the current instruction.
Finalize(s) == [s EXCEPT !.m.kill = TRUE]
Error(s) == [Finalize(s) EXCEPT !.failed = TRUE]

\* WORLDSENS_SAVE_STATE.
SaveState(s) ==
  [s EXCEPT !.w.l_rp = s.m.now, !.w.state = "idle", !.b = s.m]

NextRp(s, pkt, from) ==
  [s EXCEPT !.w.rpseq = pkt.rp_next, !.w.n_rp = from + pkt.rp_duration]

BacktrackFromNow(s, pkt) ==   \* mutant: the rendez-vous is counted from now
  LET t == IF s.m.now > s.w.l_rp + pkt.rp_duration
             THEN [s EXCEPT !.m = s.b] ELSE s
  IN  [NextRp(t, pkt, t.m.now) EXCEPT !.w.state = "idle"]

BacktrackSameRp(s, pkt) ==   \* mutant: its index is not updated
  LET t == IF s.m.now > s.w.l_rp + pkt.rp_duration
             THEN [s EXCEPT !.m = s.b] ELSE s
  IN  [t EXCEPT !.w.n_rp = t.w.l_rp + pkt.rp_duration, !.w.state = "idle"]

\* wsnet2_backtrack.  machine_state_restore leaves wsens alone.
Backtrack(s, pkt) ==
  LET t == IF s.m.now > s.w.l_rp + pkt.rp_duration
             THEN [s EXCEPT !.m = s.b] ELSE s
  IN  [NextRp(t, pkt, t.w.l_rp) EXCEPT !.w.state = "idle"]

\* wsnet2_sync_release.
SyncRelease(s, pkt) ==
  IF s.w.state # "pending" THEN Error(s)
  ELSE SaveState(NextRp(s, pkt, s.m.now))

\* wsnet2_sync_reminder: only who waits for it goes on.
SyncReminder(s, pkt) ==
  IF pkt.rp_next # s.w.rpseq THEN Error(s)
  ELSE IF s.w.state = "txing" THEN [s EXCEPT !.w.state = "idle"] ELSE s

\* The callback of the radio or of the sensor the packet is for.
Heard(s, n, pkt) ==
  IF pkt.node = n THEN [s EXCEPT !.m.got = Append(@, <<pkt.src, pkt.start>>)]
  ELSE s

SrRxSavedFirst(s, n, pkt) ==   \* mutant: the state is saved, then the byte read
  Heard(SaveState(NextRp(s, pkt, s.m.now)), n, pkt)

\* wsnet2_sr_rx, wsnet2_measure_sr_rsp.
SrRx(s, n, pkt) ==
  SaveState(NextRp(Heard(s, n, pkt), pkt, s.m.now))

\* wsnet2_kill_node.
KillNode(s, n, pkt) ==
  IF pkt.node = n THEN [Finalize(s) EXCEPT !.w.state = "killed"] ELSE s

Handler(s, n, pkt) ==
  CASE pkt.type = "BACKTRACK"     -> Backtrack(s, pkt)
    [] pkt.type = "SYNC_RELEASE"  -> SyncRelease(s, pkt)
    [] pkt.type = "SYNC_REMINDER" -> SyncReminder(s, pkt)
    [] pkt.type = "RX"            -> Heard(s, n, pkt)
    [] pkt.type = "SR_RX"         -> SrRx(s, n, pkt)
    [] pkt.type = "KILL"          -> KillNode(s, n, pkt)

\* wsnet2_seq: a packet after a lost one is an error, an old one is ignored,
\* except that the result for KILL is not looked at by wsnet2_parse.
InSequence(s, n, pkt) ==
  IF pkt.seq > s.w.seq
    THEN IF pkt.type = "KILL" THEN s ELSE Error(s)
  ELSE IF pkt.seq < s.w.seq THEN s
  ELSE Handler([s EXCEPT !.w.seq = @ + 1], n, pkt)

\* wsnet2_parse.  KILLSIM has no number to check.
Parsed(s, n, pkt) ==
  IF pkt.type = "KILLSIM" THEN [Finalize(s) EXCEPT !.w.state = "killed"]
  ELSE InSequence(s, n, pkt)

Become(n, s) ==
  /\ wsens' = [wsens EXCEPT ![n] = s.w]
  /\ machine' = [machine EXCEPT ![n] = s.m]
  /\ backup' = [backup EXCEPT ![n] = s.b]
  /\ UNCHANGED program

\* The next packet of the multicast socket is received and parsed.
ParseNext(n) ==
  /\ mcast[n] # <<>>
  /\ mcast' = [mcast EXCEPT ![n] = Tail(@)]
  /\ Become(n, Parsed(Parts(n), n, Head(mcast[n])))
  /\ UNCHANGED <<toServer, answer, joined>>

Failed(n) == Parsed(Parts(n), n, Head(mcast[n])).failed

-----------------------------------------------------------------------------
(* Connection. *)

\* wsnet2_connect, wsnet2_subscribe.
Subscribe(n) ==
  /\ pc[n] = "off"
  /\ Send(Plain(n, "CONNECT_REQ"))
  /\ Goto(n, "subscribe")
  /\ UNCHANGED <<answer, mcast, joined, program, wsens, machine, backup>>

\* wsnet2_published.  The index of the radios is not reset for the second
\* antenna of the server, so the radios are compared with the first one only.
Published(n, names) ==
  LET matches == {r \in 1..Len(Antennas[n]) :
                    Len(names) > 0 /\ Antennas[n][r] = names[1]}
  IN  Cardinality(matches) = Len(Antennas[n])

\* The answer is OK: the state is saved before the antennas are checked.
\* When they are wrong the node goes on without a multicast socket.
Connected(n) ==
  /\ pc[n] = "subscribe" /\ answer[n] # <<>>
  /\ LET pkt == Head(answer[n])
         s   == [Parts(n) EXCEPT !.w.seq = pkt.seq]
     IN  /\ pkt.type = "CONNECT_RSP_OK"
         /\ Become(n, SaveState(NextRp(s, pkt, s.m.now)))
         /\ Goto(n, IF Published(n, pkt.names) THEN "join" ELSE "run")
  /\ answer' = [answer EXCEPT ![n] = Tail(@)]
  /\ UNCHANGED <<toServer, mcast, joined>>

\* The server refuses.  The signal of wsnet2_finalize is cleared by the reset
\* of the machine that precedes its run.
Refused(n) ==
  /\ pc[n] = "subscribe" /\ answer[n] # <<>>
  /\ Head(answer[n]).type = "CONNECT_RSP_NOK"
  /\ answer' = [answer EXCEPT ![n] = Tail(@)]
  /\ Goto(n, "run")
  /\ UNCHANGED <<toServer, mcast, joined, program, wsens, machine, backup>>

\* The node joins the multicast group; what was sent before is lost for it.
Join(n) ==
  /\ pc[n] = "join"
  /\ joined' = joined \cup {n}
  /\ Goto(n, "run")
  /\ UNCHANGED <<toServer, answer, mcast, program, wsens, machine, backup>>

-----------------------------------------------------------------------------
(* The main loop. *)

\* One instruction.  libselect sees packets in the socket now or later.
Instruction(n) ==
  /\ pc[n] = "run"
  /\ ~ machine[n].kill /\ machine[n].now < RunTime[n]
  /\ machine' = [machine EXCEPT ![n].now = @ + Quantum[n]]
  /\ \/ Goto(n, "check")
     \/ mcast[n] # <<>> /\ Goto(n, "update")
  /\ UNCHANGED <<netVars, program, wsens, backup>>

\* wsnet2_update: packets are parsed until the socket is empty; an error ends
\* the function.
UpdateParse(n) ==
  /\ pc[n] = "update"
  /\ ParseNext(n)
  /\ Goto(n, IF Failed(n) THEN "radio"
             ELSE IF Len(mcast[n]) > 1 THEN "update" ELSE "check")

\* The rendez-vous is reached: wsnet2_sync.  Without a multicast socket recv
\* fails.
UpdateSync(n) ==
  /\ pc[n] = "check" /\ machine[n].now >= wsens[n].n_rp
  /\ Send(SyncAck(n))
  /\ Become(n, LET s == [Parts(n) EXCEPT !.w.state = "pending"]
               IN  IF n \in joined THEN s ELSE Finalize(s))
  /\ Goto(n, IF n \in joined THEN "sync" ELSE "radio")
  /\ UNCHANGED <<answer, mcast, joined>>

UpdateNone(n) ==
  /\ pc[n] = "check" /\ machine[n].now < wsens[n].n_rp
  /\ Goto(n, "radio")
  /\ UNCHANGED <<netVars, program, wsens, machine, backup>>

SyncDoneIdle(s) ==   \* mutant: a killed node keeps waiting
  s.w.state = "idle" \/ s.failed

SyncDone(s) == s.w.state \in {"idle", "killed"} \/ s.failed

\* One turn of the loop of wsnet2_sync.
SyncParse(n) ==
  /\ pc[n] = "sync"
  /\ ParseNext(n)
  /\ Goto(n, IF SyncDone(Parsed(Parts(n), n, Head(mcast[n])))
               THEN "radio" ELSE "sync")

\* Programs are quiet while a node connects: see QuietStart in Wsnet1Client.
Due(n) ==
  /\ \A m \in Nodes : pc[m] \notin {"off", "subscribe", "join"}
  /\ machine[n].next <= Len(program[n])
  /\ program[n][machine[n].next].at <= machine[n].now

\* The radio's update calls worldsens_c_tx, or a device asks for a measure:
\* wsnet2_tx, wsnet2_tx_measure_req.  The byte has left the radio's fifo.
Transmit(n) ==
  /\ pc[n] = "radio" /\ Due(n)
  /\ Send(ByteTx(n, program[n][machine[n].next]))
  /\ Become(n, LET s == [Parts(n) EXCEPT !.w.state = "txing",
                                         !.m.next = @ + 1]
               IN  IF n \in joined THEN s ELSE Finalize(s))
  /\ Goto(n, IF n \in joined THEN "tx" ELSE "run")
  /\ UNCHANGED <<answer, mcast, joined>>

\* One turn of the loop of wsnet2_tx: only the idle state ends it.
TxParse(n) ==
  /\ pc[n] = "tx"
  /\ ParseNext(n)
  /\ Goto(n, LET s == Parsed(Parts(n), n, Head(mcast[n]))
             IN  IF s.w.state = "idle" \/ s.failed THEN "run" ELSE "tx")

NothingDue(n) ==
  /\ pc[n] = "radio" /\ ~ Due(n)
  /\ Goto(n, "run")
  /\ UNCHANGED <<netVars, program, wsens, machine, backup>>

\* The loop ends on a signal or on the time limit: main_end, wsnet2_close.
Close(n) ==
  /\ pc[n] = "run"
  /\ machine[n].kill \/ machine[n].now >= RunTime[n]
  /\ Send(Plain(n, "DISCONNECT"))
  /\ joined' = joined \ {n}
  /\ mcast' = [mcast EXCEPT ![n] = <<>>]
  /\ Goto(n, "closed")
  /\ UNCHANGED <<answer, program, wsens, machine, backup>>

CltStep(n) ==
  \/ Subscribe(n) \/ Connected(n) \/ Refused(n) \/ Join(n)
  \/ Instruction(n) \/ UpdateParse(n) \/ UpdateSync(n) \/ UpdateNone(n)
  \/ SyncParse(n) \/ Transmit(n) \/ TxParse(n) \/ NothingDue(n) \/ Close(n)
=============================================================================
