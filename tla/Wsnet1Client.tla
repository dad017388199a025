----------------------------- MODULE Wsnet1Client -----------------------------
(***************************************************************************)
(* A WSim node connected to the WSNet1 server.                             *)
(*                                                                         *)
(* The simulator is one thread: the loop of machine_run_internal executes  *)
(* an instruction and calls devices_update, which calls                    *)
(* worldsens1_c_update and then the update function of the radio; the      *)
(* radio calls worldsens1_c_tx for every byte it sends.  The thread blocks *)
(* on the multicast socket inside worldsens1_synched (pc = "synched") and  *)
(* inside worldsens1_c_tx (pc = "tx").                                     *)
(*                                                                         *)
(* Everything machine_state_save copies is in the record bt[n], and        *)
(* backup[n] is the copy machine_state_restore puts back: the clock, the   *)
(* worldsens_backtracked structure and the radio.  Packets already read    *)
(* from the socket (WSENS_PKT_LIST) are outside of it; they are the front  *)
(* of mcast[n], because the list and the socket are drained in order.      *)
(***************************************************************************)
EXTENDS Wsnet1Net

CONSTANTS
  Programs,     \* the programs a node may run: sequences of bytes to send
  ByteTime,     \* per node, the duration of one byte
  Quantum,      \* per node, the duration of one instruction
  RunTime,      \* per node, the simulated time it runs for (--mode=time)
  Radio,        \* per node, the radio driver: "cc1100" or "cc2420"
  RxTime,       \* what the reception callback of the radio returns
  QuietStart,   \* do programs keep silent while some node is starting up?
  CanQuit,      \* nodes that may receive SIGINT
  CanStop       \* nodes run from the console or from gdb

ASSUME ClientAssumption ==
  /\ ByteTime \in [Nodes -> Nat \ {0}]
  /\ Quantum \in [Nodes -> Nat \ {0}]
  /\ RunTime \in [Nodes -> Nat]
  /\ Radio \in [Nodes -> {"cc1100", "cc2420"}]
  /\ RxTime \in Nat
  /\ QuietStart \in BOOLEAN
  /\ CanQuit \subseteq Nodes /\ CanStop \subseteq Nodes

\* A program is a sequence of dates: byte k may leave from date prog[k] on,
\* and not before the radio is done with byte k - 1.
ASSUME ProgramAssumption == Programs \subseteq Seq(Nat)

\* The fifo of the radio keeps the order of the bytes, and is empty before the
\* first instruction: no byte may leave at date 0.
ASSUME OrderAssumption ==
  \A p \in Programs : \A j \in 1..Len(p) : p[j] >= 1 /\ \A i \in 1..j : p[i] <= p[j]

VARIABLES
  pc,        \* where the thread of the node is
  prog,      \* the program it runs
  bt,        \* the state machine_state_save copies
  backup,    \* its last copy
  txbyte,    \* the byte worldsens1_c_tx was called for, on the C stack
  sigpipe,   \* SIG_HOST | SIGPIPE is set
  cnx_time   \* tracer_set_initial_time: global time of the connection

cltVars == <<pc, prog, bt, backup, txbyte, sigpipe, cnx_time>>

PcValues == {"off", "connecting", "joining", "run", "radio", "tx", "synched",
             "closed", "refused"}

Machine ==
  [now : Nat,              \* MACHINE_TIME_GET_NANO()
   last_rp : Nat, next_rp : Nat, rp_seq : Nat,
   rx_pkt_seq : Nat, tx_pkt_seq : Nat,
   pending : BOOLEAN, tx_backtracked : BOOLEAN, min_duration : Nat,
   byte : Nat,             \* bytes the radio has taken from its fifo
   io_timer : Nat,         \* cc1100: tx_io_timer, cc2420: tx_timer
   sent : Seq(Nat),        \* liblogpkt: bytes logged as sent
   got : Seq([tx : Nodes \X Nat, at : Nat])]  \* bytes the radio received

CltTypeOK ==
  /\ pc \in [Nodes -> PcValues]
  /\ prog \in [Nodes -> Programs]
  /\ bt \in [Nodes -> Machine] /\ backup \in [Nodes -> Machine]
  /\ txbyte \in [Nodes -> Nat] /\ sigpipe \in [Nodes -> BOOLEAN]
  /\ cnx_time \in [Nodes -> Nat]

PowerOn ==
  [now |-> 0, last_rp |-> 0, next_rp |-> 0, rp_seq |-> 0,
   rx_pkt_seq |-> 0, tx_pkt_seq |-> 0,
   pending |-> FALSE, tx_backtracked |-> FALSE, min_duration |-> 0,
   byte |-> 0, io_timer |-> 0, sent |-> <<>>, got |-> <<>>]

CltInit ==
  /\ pc = [n \in Nodes |-> "off"]
  /\ prog \in [Nodes -> Programs]
  /\ bt = [n \in Nodes |-> PowerOn] /\ backup = bt
  /\ txbyte = [n \in Nodes |-> 0]
  /\ sigpipe = [n \in Nodes |-> FALSE]
  /\ cnx_time = [n \in Nodes |-> 0]

Goto(n, l) == pc' = [pc EXCEPT ![n] = l]
Become(n, b) == bt' = [bt EXCEPT ![n] = b]

-----------------------------------------------------------------------------
(* worldsens1_packet_parse: what becomes of the machine b and of its saved *)
(* copy s when packet m is parsed.                                         *)

Outcome(b, s, ok, d) == [bt |-> b, backup |-> s, ok |-> ok, duration |-> d]

\* The byte is for every node that was active when the server sent it.
DataRx(n, b, m) ==
  IF n \in m.to
    THEN [b EXCEPT !.got = Append(@, [tx |-> m.tx, at |-> b.now])]
    ELSE b

\* worldsens1_packet_parse_rp: leave the rendez-vous and save the state.
ParseRpUnsaved(b, s, m, d) ==   \* mutant: the state is not saved
  IF m.c_rp_seq = b.rp_seq
    THEN Outcome([b EXCEPT !.last_rp = b.now, !.pending = FALSE,
                           !.next_rp = b.now + m.period,
                           !.rp_seq = m.n_rp_seq], s, TRUE, d)
    ELSE Outcome(b, s, TRUE, d)

ParseRp(b, s, m, d) ==
  IF m.c_rp_seq = b.rp_seq
    THEN LET released == [b EXCEPT !.last_rp = b.now, !.pending = FALSE,
                                   !.next_rp = b.now + m.period,
                                   !.rp_seq = m.n_rp_seq]
         IN  Outcome(released, released, TRUE, d)
    ELSE Outcome(b, s, TRUE, d)

\* worldsens1_packet_parse_data_srrx: the byte, then the rendez-vous, so that
\* the byte is part of the state saved there.
ParseSrRxSwapped(n, b, s, m, d) ==   \* mutant: the rendez-vous first
  LET o == ParseRp(b, s, m, d)
  IN  Outcome(DataRx(n, o.bt, m), o.backup, o.ok, o.duration)

ParseSrRx(n, b, s, m, d) == ParseRp(DataRx(n, b, m), s, m, d)

\* A node beyond the new rendez-vous goes back to its last saved state.
Backtracked(r, s, m) ==
  Outcome([r EXCEPT !.next_rp = r.last_rp + m.period, !.rp_seq = m.rp_seq,
                    !.rx_pkt_seq = m.seq + 1, !.tx_backtracked = FALSE],
          s, TRUE, 0)

ParseBacktrackLate(b, s, m) ==   \* mutant: compares with the old rendez-vous
  Backtracked(IF b.now > b.next_rp THEN s ELSE b, s, m)

ParseBacktrackStale(b, s, m) ==  \* mutant: the restored number is kept
  LET r == IF b.now > b.last_rp + m.period THEN s ELSE b IN
  Outcome([r EXCEPT !.next_rp = r.last_rp + m.period, !.rp_seq = m.rp_seq,
                    !.tx_backtracked = FALSE], s, TRUE, 0)

ParseBacktrackOldIndex(b, s, m) ==  \* mutant: rp_seq is not updated
  LET r == IF b.now > b.last_rp + m.period THEN s ELSE b IN
  Outcome([r EXCEPT !.next_rp = r.last_rp + m.period,
                    !.rx_pkt_seq = m.seq + 1, !.tx_backtracked = FALSE],
          s, TRUE, 0)

ParseBacktrack(b, s, m) ==
  Backtracked(IF b.now > b.last_rp + m.period THEN s ELSE b, s, m)

\* The next packet of the sequence; its type selects the handler.
Handle(n, b, s, m) ==
  LET d == IF m.type \in {"RX", "SYNCH_REQ_RX"} /\ n \in m.to
             THEN RxTime ELSE 0
  IN  CASE m.type = "BACKTRACK"    -> ParseBacktrack(b, s, m)
        [] m.type = "RX"           -> Outcome(DataRx(n, b, m), s, TRUE, d)
        [] m.type = "SYNCH_REQ"    -> ParseRp(b, s, m, 0)
        [] m.type = "SYNCH_REQ_RX" -> ParseSrRx(n, b, s, m, d)

MissedNever(b, m) == FALSE   \* mutant: a gap in the sequence is not noticed
Missed(b, m)  == m.seq > b.rx_pkt_seq
Already(b, m) == m.seq < b.rx_pkt_seq

\* A missing packet is an error; one that was parsed already is ignored.
Parse(n, b, m) ==
  CASE Missed(b, m)  -> Outcome(b, backup[n], FALSE, 0)
    [] Already(b, m) -> Outcome(b, backup[n], TRUE, 0)
    [] OTHER -> Handle(n, [b EXCEPT !.rx_pkt_seq = @ + 1], backup[n], m)

-----------------------------------------------------------------------------
(* The radio. *)

TxDue(n, b) ==
  /\ b.byte < Len(prog[n])
  /\ b.now >= prog[n][b.byte + 1] /\ b.now >= b.io_timer

\* What the driver does before it calls worldsens_c_tx.
BeforeTx(n, b) ==
  CASE Radio[n] = "cc1100" -> [b EXCEPT !.byte = @ + 1]
    [] Radio[n] = "cc2420" -> [b EXCEPT !.sent = Append(@, b.byte + 1)]

\* What it does when worldsens_c_tx returns, on the state it finds then.
\* The logged value is the byte on its stack: the one sent last.
AfterTx(n, b, byte) ==
  CASE Radio[n] = "cc1100" -> [b EXCEPT !.sent = Append(@, byte),
                                        !.io_timer = b.now + ByteTime[n]]
    [] Radio[n] = "cc2420" -> [b EXCEPT !.io_timer = b.now + ByteTime[n],
                                        !.byte = @ + 1]

\* After devices_update the loop starts again, unless a byte is due first.
UpdateDone(n, b) == IF TxDue(n, b) THEN "radio" ELSE "run"
-----------------------------------------------------------------------------
(* Connection: worldsens1_c_connect. *)

Connect(n) ==
  /\ pc[n] = "off" /\ Goto(n, "connecting")
  /\ SendToServer(ConnectPkt(n))
  /\ UNCHANGED <<prog, bt, backup, txbyte, sigpipe, cnx_time, reply, mcast, joined>>

\* worldsens1_connect_parse_reply: the state is saved for the first time.
Connected(n) ==
  /\ pc[n] = "connecting" /\ reply[n] # <<>>
  /\ Head(reply[n]).type = "ATTRADDR"
  /\ Goto(n, "joining")
  /\ LET m == Head(reply[n])
         b == [bt[n] EXCEPT !.rx_pkt_seq = m.seq, !.rp_seq = m.rp_seq,
                            !.last_rp = bt[n].now, !.pending = FALSE,
                            !.next_rp = bt[n].now + m.period]
     IN  /\ Become(n, b)
         /\ backup' = [backup EXCEPT ![n] = b]
         /\ cnx_time' = [cnx_time EXCEPT ![n] = m.cnx_time]
  /\ reply' = [reply EXCEPT ![n] = Tail(@)]
  /\ UNCHANGED <<prog, txbyte, sigpipe, toServer, mcast, joined>>

\* NOATTRADDR: the sockets are closed, nothing is sent any more.
Refused(n) ==
  /\ pc[n] = "connecting" /\ reply[n] # <<>>
  /\ Head(reply[n]).type = "NOATTRADDR"
  /\ Goto(n, "refused")
  /\ reply' = [reply EXCEPT ![n] = Tail(@)]
  /\ UNCHANGED <<prog, bt, backup, txbyte, sigpipe, cnx_time, toServer, mcast, joined>>

\* IP_ADD_MEMBERSHIP comes after the connection: what was sent to the group
\* in between is not for this node.
Join(n) ==
  /\ pc[n] = "joining" /\ Goto(n, "run")
  /\ joined' = joined \cup {n}
  /\ UNCHANGED <<prog, bt, backup, txbyte, sigpipe, cnx_time, toServer, reply, mcast>>

-----------------------------------------------------------------------------
(* One turn of the loop of machine_run_internal. *)

Running(n) == pc[n] = "run" /\ ~ sigpipe[n] /\ bt[n].now < RunTime[n]

\* The clock after the instruction.
Ticked(n) == [bt[n] EXCEPT !.now = @ + Quantum[n]]

\* c_update: "something to finish", the previous reception is not over.
UpdateWait(n) ==
  /\ Running(n) /\ Ticked(n).min_duration >= 1
  /\ LET b == [Ticked(n) EXCEPT !.min_duration =
                 IF @ > Quantum[n] THEN @ - Quantum[n] ELSE 0]
     IN  Become(n, b) /\ Goto(n, UpdateDone(n, b))
  /\ UNCHANGED <<prog, backup, txbyte, sigpipe, cnx_time, netVars>>

\* c_update: one packet of the list is parsed.  Its failure is not reported
\* to anybody: devices_update ignores the value of LIBWSNET_UPDATE.
UpdatePacket(n) ==
  /\ Running(n) /\ Ticked(n).min_duration = 0 /\ mcast[n] # <<>>
  /\ LET o == Parse(n, Ticked(n), Head(mcast[n]))
         b == IF o.ok THEN [o.bt EXCEPT !.min_duration = o.duration] ELSE o.bt
     IN  /\ Become(n, b) /\ Goto(n, UpdateDone(n, b))
         /\ backup' = [backup EXCEPT ![n] = o.backup]
  /\ mcast' = [mcast EXCEPT ![n] = Tail(@)]
  /\ UNCHANGED <<prog, txbyte, sigpipe, cnx_time, toServer, reply, joined>>

\* c_update: nothing noticed on the socket, the rendez-vous is not reached.
UpdateNothing(n) ==
  /\ Running(n) /\ Ticked(n).min_duration = 0
  /\ Ticked(n).now < bt[n].next_rp
  /\ Become(n, Ticked(n)) /\ Goto(n, UpdateDone(n, Ticked(n)))
  /\ UNCHANGED <<prog, backup, txbyte, sigpipe, cnx_time, netVars>>

\* c_update: the rendez-vous is reached; worldsens1_synched tells the server
\* and starts to wait.
UpdateSynched(n) ==
  /\ Running(n) /\ Ticked(n).min_duration = 0
  /\ Ticked(n).now >= bt[n].next_rp
  /\ Become(n, [Ticked(n) EXCEPT !.pending = TRUE]) /\ Goto(n, "synched")
  /\ SendToServer(SynchedPkt(bt[n].rp_seq))
  /\ UNCHANGED <<prog, backup, txbyte, sigpipe, cnx_time, reply, mcast, joined>>

\* worldsens1_synched: one packet; the loop ends when nothing is pending.
SynchedPacket(n) ==
  /\ pc[n] = "synched" /\ mcast[n] # <<>>
  /\ LET o == Parse(n, bt[n], Head(mcast[n])) IN
       /\ Become(n, o.bt)
       /\ backup' = [backup EXCEPT ![n] = o.backup]
       /\ sigpipe' = [sigpipe EXCEPT ![n] = ~ o.ok]
       /\ Goto(n, IF o.ok /\ o.bt.pending THEN "synched"
                                          ELSE UpdateDone(n, o.bt))
  /\ mcast' = [mcast EXCEPT ![n] = Tail(@)]
  /\ UNCHANGED <<prog, txbyte, cnx_time, toServer, reply, joined>>

-----------------------------------------------------------------------------
(* worldsens1_c_tx, called by the update function of the radio. *)

\* Nobody is between its CONNECT and the first turn of its loop.
Quiet == \A m \in Nodes : pc[m] \notin {"off", "connecting", "joining"}

TxDateToNext(b) == b.now - b.next_rp   \* mutant: the wrong rendez-vous

\* Dates are counted from the last rendez-vous.
TxDate(b) == b.now - b.last_rp

\* The byte ends before the rendez-vous and no backtrack has come yet.
MustWait(n, b) == b.now + ByteTime[n] < b.next_rp /\ b.tx_backtracked

Transmit(n) ==
  /\ pc[n] = "radio" /\ (QuietStart => Quiet)
  /\ LET b == BeforeTx(n, bt[n])
         c == [b EXCEPT !.tx_pkt_seq = @ + 1, !.tx_backtracked = TRUE]
         k == bt[n].byte + 1
     IN  /\ SendToServer(TxPkt(n, b.tx_pkt_seq, TxDate(b), ByteTime[n]))
         /\ txbyte' = [txbyte EXCEPT ![n] = k]
         /\ IF MustWait(n, c)
              THEN Become(n, c) /\ Goto(n, "tx")
              ELSE Become(n, AfterTx(n, c, k)) /\ Goto(n, "run")
  /\ UNCHANGED <<prog, backup, sigpipe, cnx_time, reply, mcast, joined>>

\* The node stays blocked until a backtrack moves the rendez-vous.
TxPacket(n) ==
  /\ pc[n] = "tx" /\ mcast[n] # <<>>
  /\ LET o == Parse(n, bt[n], Head(mcast[n])) IN
       /\ backup' = [backup EXCEPT ![n] = o.backup]
       /\ IF o.ok /\ MustWait(n, o.bt)
            THEN Become(n, o.bt) /\ Goto(n, "tx")
            ELSE Become(n, AfterTx(n, o.bt, txbyte[n])) /\ Goto(n, "run")
  /\ mcast' = [mcast EXCEPT ![n] = Tail(@)]
  /\ UNCHANGED <<prog, txbyte, sigpipe, cnx_time, toServer, reply, joined>>

-----------------------------------------------------------------------------
(* The end of a run, and the user. *)

\* main_end: worldsens1_c_close sends DISCONNECT and closes the sockets.
Leave(n) ==
  /\ Goto(n, "closed")
  /\ SendToServer(DisconnectPkt(n))
  /\ joined' = joined \ {n}
  /\ mcast' = [mcast EXCEPT ![n] = <<>>]
  /\ UNCHANGED <<prog, bt, backup, txbyte, sigpipe, cnx_time, reply>>

Close(n) ==
  /\ pc[n] = "run" /\ (sigpipe[n] \/ bt[n].now >= RunTime[n])
  /\ (QuietStart => Quiet)
  /\ Leave(n)

\* SIGINT: signal_quit calls main_end wherever the thread is, blocked or not.
Quit(n) ==
  /\ n \in CanQuit /\ pc[n] \in {"run", "radio", "tx", "synched"}
  /\ Leave(n)

\* The loop stops (breakpoint, end of a console command) and is entered
\* again: machine_run_internal starts by saving the state.
StopAndRun(n) ==
  /\ n \in CanStop /\ pc[n] = "run"
  /\ backup' = [backup EXCEPT ![n] = bt[n]]
  /\ UNCHANGED <<pc, prog, bt, txbyte, sigpipe, cnx_time, netVars>>

CltStep(n) ==
  \/ Connect(n) \/ Connected(n) \/ Refused(n) \/ Join(n)
  \/ UpdateWait(n) \/ UpdatePacket(n) \/ UpdateNothing(n) \/ UpdateSynched(n)
  \/ SynchedPacket(n) \/ Transmit(n) \/ TxPacket(n)
  \/ Close(n)

CltUser(n) == Quit(n) \/ StopAndRun(n)
=============================================================================
