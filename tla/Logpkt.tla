-------------------------------- MODULE Logpkt ---------------------------------
(***************************************************************************)
(* liblogpkt: the packets a radio receives and sends, byte by byte.  A     *)
(* packet is logged when the machine's state is saved, once it is          *)
(* complete; the bytes of the next one wait in a second slot until then.   *)
(* Both slots go back with the machine; the log file does not.  One        *)
(* interface (MAX_INTERFACES), the default mode (rx and tx); the times and *)
(* the layout of the log are left out.                                     *)
(***************************************************************************)
EXTENDS Naturals, Sequences

CONSTANTS
  Byte,
  MaxBytes  \* bound: bytes in the machine's past, of both directions

ASSUME LogpktAssumption == MaxBytes \in Nat

VARIABLES
  tab,       \* logpkt_tab: for each direction, the current packet
  tab_buf,   \* logpkt_tab_buf: the one after it
  tab_saved, \* logpkt_tab_saved and logpkt_tab_buf_saved
  logfile,   \* for each direction, the bytes of the packets in the file
  air        \* the radio is half duplex: what it is doing, and the bytes it has
             \* sent; part of the machine's state, with its copy

logVars == <<tab, tab_buf, tab_saved, logfile, air>>

Dirs == {"rx", "tx"}
Slot == [pkt : Seq(Byte), completed : BOOLEAN, error : BOOLEAN]
Empty == [pkt |-> <<>>, completed |-> FALSE, error |-> FALSE]
Air == [mode : {"idle", "rx", "tx"}, sent : Nat]

LogTypeOK ==
  /\ tab \in [Dirs -> Slot] /\ tab_buf \in [Dirs -> Slot]
  /\ tab_saved \in [tab : [Dirs -> Slot], buf : [Dirs -> Slot]]
  /\ logfile \in [Dirs -> Seq(Byte)]
  /\ air \in [now : Air, saved : Air]

LogInit ==
  /\ tab = [d \in Dirs |-> Empty] /\ tab_buf = tab
  /\ tab_saved = [tab |-> tab, buf |-> tab]
  /\ logfile = [d \in Dirs |-> <<>>]
  /\ air = [now |-> [mode |-> "idle", sent |-> 0], saved |-> [mode |-> "idle", sent |-> 0]]

Add(slot, d, b) == [slot EXCEPT ![d].pkt = Append(@, b)]
Finish(slot, d, err) == [slot EXCEPT ![d].completed = TRUE, ![d].error = err]

\* logpkt_rx_byte_op and logpkt_tx_byte_op.  Both look at the packet received.
LogByte(d, b) ==
  IF ~ tab["rx"].completed
  THEN tab' = Add(tab, d, b) /\ UNCHANGED tab_buf
  ELSE tab_buf' = Add(tab_buf, d, b) /\ UNCHANGED tab

\* logpkt_rx_complete_pkt_op, logpkt_tx_complete_pkt_op.
LogComplete(d) ==
  IF ~ tab[d].completed /\ tab[d].pkt # <<>>
  THEN tab' = Finish(tab, d, FALSE) /\ UNCHANGED tab_buf
  ELSE /\ tab_buf' = IF tab_buf[d].pkt # <<>>
                     THEN [tab_buf EXCEPT ![d].completed = TRUE] ELSE tab_buf
       /\ UNCHANGED tab

\* logpkt_rx_abort_pkt_op.
LogAbortRx ==
  IF ~ tab["rx"].completed /\ tab["rx"].pkt # <<>>
  THEN tab' = Finish(tab, "rx", TRUE) /\ UNCHANGED tab_buf
  ELSE /\ tab_buf' = IF tab_buf["rx"].pkt # <<>> THEN Finish(tab_buf, "rx", TRUE) ELSE tab_buf
       /\ UNCHANGED tab

\* logpkt_tx_abort_pkt_op: an aborted packet is found by looking at the one
\* received, too.
LogAbortTx ==
  IF ~ tab["rx"].completed /\ tab["rx"].pkt # <<>>
  THEN /\ tab' = IF tab["tx"].pkt # <<>> THEN Finish(tab, "tx", TRUE) ELSE tab
       /\ UNCHANGED tab_buf
  ELSE /\ tab_buf' = IF tab_buf["tx"].pkt # <<>> THEN Finish(tab_buf, "tx", TRUE) ELSE tab_buf
       /\ UNCHANGED tab

Past == Len(logfile["rx"]) + Len(tab["rx"].pkt) + Len(tab_buf["rx"].pkt) + air.now.sent

\* The radio: a byte in the direction it works in, the end of a packet, or its
\* interruption by a command or by a full fifo.
RadioByte(d, b) ==
  /\ air.now.mode \in {"idle", d} /\ Past < MaxBytes
  /\ LogByte(d, b)
  /\ air' = [air EXCEPT !.now.mode = d, !.now.sent = IF d = "tx" THEN @ + 1 ELSE @]
  /\ UNCHANGED <<tab_saved, logfile>>

RadioEnd(d) ==
  /\ air.now.mode = d
  /\ LogComplete(d)
  /\ air' = [air EXCEPT !.now.mode = "idle"]
  /\ UNCHANGED <<tab_saved, logfile>>

RadioAbort(d) ==
  /\ air.now.mode = d
  /\ IF d = "rx" THEN LogAbortRx ELSE LogAbortTx
  /\ air' = [air EXCEPT !.now.mode = "idle"]
  /\ UNCHANGED <<tab_saved, logfile>>

\* logpkt_state_save_op, for one direction: what goes to the file, what remains.
Dumped(d) ==
  IF ~ tab[d].completed THEN <<>>
  ELSE tab[d].pkt \o IF tab_buf[d].completed THEN tab_buf[d].pkt ELSE <<>>

\* A bug this could have: a packet under way is not moved to the first slot.
RemainsNothing(d) == IF ~ tab[d].completed THEN tab[d] ELSE Empty

Remains(d) ==
  IF ~ tab[d].completed THEN tab[d]
  ELSE IF tab_buf[d].completed THEN Empty ELSE [Empty EXCEPT !.pkt = tab_buf[d].pkt]

\* A bug this could have: the second slot is emptied with nothing moved.
LogSaveClears ==
  /\ logfile' = [d \in Dirs |-> logfile[d] \o Dumped(d)]
  /\ tab' = [d \in Dirs |-> Remains(d)]
  /\ tab_buf' = [d \in Dirs |-> Empty]
  /\ tab_saved' = [tab |-> tab', buf |-> tab_buf']
  /\ air' = [air EXCEPT !.saved = air.now]

LogSave ==
  /\ logfile' = [d \in Dirs |-> logfile[d] \o Dumped(d)]
  /\ tab' = [d \in Dirs |-> Remains(d)]
  /\ tab_buf' = [d \in Dirs |-> IF tab[d].completed THEN Empty ELSE tab_buf[d]]
  /\ tab_saved' = [tab |-> tab', buf |-> tab_buf']
  /\ air' = [air EXCEPT !.saved = air.now]

LogRestore ==
  /\ tab' = tab_saved.tab /\ tab_buf' = tab_saved.buf
  /\ air' = [air EXCEPT !.now = air.saved]
  /\ UNCHANGED <<tab_saved, logfile>>

LogStep ==
  \E d \in Dirs : (\E b \in Byte : RadioByte(d, b)) \/ RadioEnd(d) \/ RadioAbort(d)

LogNext == LogStep \/ LogSave \/ LogRestore

LogSpec == LogInit /\ [][LogNext]_logVars
-----------------------------------------------------------------------------

Logged(d, now, next) == logfile[d] \o now[d].pkt \o next[d].pkt

\* What the radio receives is logged in order, none of it twice and none of it
\* from a time that was given up, although packets are logged from two slots.
RxJournal == INSTANCE Journal WITH
  now     <- Logged("rx", tab, tab_buf),
  kept    <- Logged("rx", tab_saved.tab, tab_saved.buf),
  written <- logfile["rx"]

ImplementsRxLog == RxJournal!Spec

\* No byte sent is lost, whichever slot it went to, and none is logged twice.
NoTxByteLost ==
  /\ Len(Logged("tx", tab, tab_buf)) = air.now.sent
  /\ Len(Logged("tx", tab_saved.tab, tab_saved.buf)) = air.saved.sent

\* logpkt.c:356, "put data in buffer as previous packet is completed but not
\* dumped yet": what is in the buffer comes after what is in the packet.
TxJournal == INSTANCE Journal WITH
  now     <- Logged("tx", tab, tab_buf),
  kept    <- Logged("tx", tab_saved.tab, tab_saved.buf),
  written <- logfile["tx"]

TxLoggedInOrder == TxJournal!Spec
=============================================================================
