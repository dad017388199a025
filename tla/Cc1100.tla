--------------------------------- MODULE Cc1100 --------------------------------
(***************************************************************************)
(* The cc1100 and cc2500 radios: the state machine, the strobes, the two   *)
(* fifos, the packet engine that frames what is transmitted and received,  *)
(* wake on radio and the pins that tell a program what happens, with the   *)
(* driver on the SPI bus and the bytes on the air.  Times are left out: a  *)
(* state that waits for a timer may wait any time, and what the code       *)
(* compares to the time of the next byte is one of "off", "soon", "past".  *)
(* Frequencies, powers, the quality of the link, infinite packets and the  *)
(* registers without effect on the states are left out.                    *)
(***************************************************************************)
EXTENDS Integers, Sequences, FiniteSets
LOCAL INSTANCE SequencesExt

CONSTANTS
  FifoLen,   \* CC1100_TXFIFO_LENGTH, CC1100_RXFIFO_LENGTH
  Threshold, \* the threshold of both fifos, FIFOTHR
  Setups,    \* records: conf, the registers the driver changes, and the bounds below
  Frames     \* what may come on the air: records with to, near and good

(* Bounds, in each setup: arrivals, the frames that come on the air; sends, the *)
(* transmissions; upsets, the strobes and writes that interrupt the radio and   *)
(* the frames that fade.                                                        *)

VARIABLES
  dev,    \* struct _cc1100_t
  air,    \* bytes still to come of the frame on the air
  answer, \* bytes the driver has read of a packet
  log,    \* what the driver and the other nodes did
  flag    \* what has upset a fifo since it was last flushed


\* The registers at a reset: packets of variable length with a check sequence,
\* two synchronisation bytes, and a channel clear when silent and between packets.
DefaultConf ==
  [fixed |-> FALSE, pktlen |-> 255, crc |-> TRUE, append |-> TRUE, addrchk |-> 0, addr |-> 0, sync |-> 2,
   cca |-> "both", rxoff |-> "IDLE", txoff |-> "IDLE", autocal |-> 0, rxtime |-> FALSE, rcosc |-> FALSE]
Configured(c) == [x \in DOMAIN DefaultConf |-> IF x \in DOMAIN c THEN c[x] ELSE DefaultConf[x]]

ResetInternal ==
  [fsm |-> "IDLE", us |-> 0, pending |-> "NONE", cal |-> FALSE, wor |-> FALSE, timer |-> "off", sending |-> FALSE,
   tx |-> [i \in 0..(FifoLen - 1) |-> 0], txBytes |-> 0, txOffset |-> 0, txUnderflow |-> FALSE,
   rx |-> [i \in 0..(FifoLen - 1) |-> 0], rxBytes |-> 0, rxOffset |-> 0, rxOverflow |-> FALSE,
   off |-> 0, length |-> 0, sum |-> 0, conf |-> DefaultConf,
   channel |-> FALSE, quality |-> 0, crc |-> 0, checked |-> 0, ok |-> FALSE, gdo |-> {}, csn |-> TRUE, out |-> <<>>]

\* What a reset leaves alone: the bytes of the two fifos, the select pin, the
\* address check, and what is not in the structure (two static variables).
Reset(r) ==
  [ResetInternal EXCEPT !.tx = r.tx, !.rx = r.rx, !.csn = r.csn, !.channel = r.channel,
                        !.quality = r.quality, !.crc = r.crc, !.checked = r.checked]

CcInit ==
  /\ \E s \in Setups :
    /\ dev = [ResetInternal EXCEPT !.conf = Configured(s.conf)]
    /\ log = [heard |-> 0, due |-> FALSE, frame |-> <<>>, expected |-> <<>>, written |-> <<>>,
              wrote |-> 0, sends |-> 0, offs |-> 0, whole |-> TRUE,
              max |-> [arrivals |-> s.arrivals, sends |-> s.sends, upsets |-> s.upsets]]
  /\ air = <<>> /\ answer = <<>> /\ flag = {}
-----------------------------------------------------------------------------

\* A pin shows the event it is configured for: gdo holds the events asserted.
Up(r, e) == [r EXCEPT !.gdo = @ \cup e]
Down(r, e) == [r EXCEPT !.gdo = @ \ e]

\* The fifos.
At(offset, n) == (offset + n) % FifoLen
PutTxFifo(r, b) ==
  IF r.txBytes = FifoLen THEN Up(r, {"txfull"})
  ELSE LET n == r.txBytes + 1
       IN  [r EXCEPT !.tx[At(r.txOffset, r.txBytes)] = b, !.txBytes = n,
                     !.gdo = @ \cup (IF n = FifoLen THEN {"txfull"} ELSE {})
                               \cup (IF n >= Threshold THEN {"txabove"} ELSE {})]
GetTxFifo(r) ==
  LET s == [r EXCEPT !.txBytes = @ - 1, !.txOffset = At(@, 1)]
  IN  IF s.txBytes < Threshold THEN Down(s, {"txabove", "txfull"}) ELSE s
FlushTxFifo(r) ==
  Down([r EXCEPT !.txBytes = 0, !.txOffset = 0, !.txUnderflow = FALSE], {"underflow", "txabove", "txfull"})

PutRxFifo(r, b) ==
  IF r.rxBytes = FifoLen
  THEN Up(Down([r EXCEPT !.rxOverflow = TRUE, !.fsm = "RX_OVERFLOW"], {"packet"}), {"overflow"})
  ELSE LET s == [r EXCEPT !.rx[At(r.rxOffset, r.rxBytes)] = b, !.rxBytes = @ + 1]
       IN  IF s.rxBytes >= Threshold THEN Up(s, {"above", "end"}) ELSE s
GetRxFifo(r) ==
  IF r.rxBytes = 0 THEN r
  ELSE LET n == r.rxBytes - 1
       IN  [r EXCEPT !.rxBytes = n, !.rxOffset = At(@, 1),
                     !.gdo = (@ \ {"crc"}) \ ((IF n = 0 THEN {"end"} ELSE {})
                                              \cup (IF n < Threshold THEN {"above"} ELSE {}))]
Value(r) == IF r.rxBytes = 0 THEN 0 ELSE r.rx[r.rxOffset]
FlushRxFifo(r) ==
  Down([r EXCEPT !.rxBytes = 0, !.rxOffset = 0, !.rxOverflow = FALSE], {"overflow", "end", "above"})

\* What the driver reads in RXBYTES.
RxBytes(r) == IF r.rxOverflow THEN 128 ELSE r.rxBytes
-----------------------------------------------------------------------------

\* Entering the states.
Enter(r, s) == [r EXCEPT !.fsm = s]
FsCalibrate(r) == [Enter(r, "FS_CALIBRATE") EXCEPT !.cal = FALSE]
Sleep(r) == [Enter(r, "SLEEP") EXCEPT !.pending = "IDLE"]
Xoff(r) == [Enter(r, "XOFF") EXCEPT !.cal = FALSE, !.pending = "IDLE"]
Start(r, s) == [Enter(r, "FS_WAKEUP") EXCEPT !.pending = s]
Turn(r, s) == [Enter(r, "RXTX_SETTLING") EXCEPT !.pending = s]
EndEnter(r) == [r EXCEPT !.us = 5]                     \* RX_END_ENTER, TX_END_ENTER
ToIdle(r) == IF r.conf.autocal \in {2, 3} THEN Enter(r, "CALIBRATE") ELSE EndEnter(r)

ExpectPreamble(r) == [r EXCEPT !.off = 0, !.length = 0, !.us = 1, !.timer = "off"]
ExpectSfd(r)      == [r EXCEPT !.off = 0, !.length = 0, !.us = 2]
ExpectData(r)     == Up([r EXCEPT !.off = 0, !.length = 0, !.us = 3, !.sum = 0, !.checked = 0], {"packet"})
ExpectCrc(r)      == [r EXCEPT !.off = 0, !.length = 0, !.us = 4]
RxEnter(r)        == ExpectPreamble([Enter(r, "RX") EXCEPT !.ok = FALSE, !.pending = "IDLE"])

RxState(r) ==
  CASE r.conf.rxoff = "IDLE" -> ToIdle(r)
    [] r.conf.rxoff \in {"FSTXON", "TX"} -> Turn(r, r.conf.rxoff)
    [] r.conf.rxoff = "RX" -> ExpectPreamble(r)
RxEnd(r) == RxState(Up(Down(r, {"packet"}), {"end"}))
-----------------------------------------------------------------------------

\* The bytes of a packet.
Preamble == 85
PreambleLength == 2                                    \* the shortest one of cc1100_get_preamble_length
SyncWord(c) == CASE c.sync = 0 -> <<>> [] c.sync \in {1, 2} -> <<211, 145>> [] c.sync = 3 -> <<211, 145, 211, 145>>
Wide == 65536                                          \* ioCrc, a uint16_t
High(sum) == sum \div 256
Low(sum) == sum % 256

\* cc1100_compare_byte: how many bits are equal.
CompareByte(sfd, b) == Cardinality({i \in 0..7 : (sfd \div 2^i) % 2 = (b \div 2^i) % 2})

\* Reception, one function for each of what is expected.
RxData(r, b) ==
  LET p == PutRxFifo([r EXCEPT !.sum = (@ + b) % Wide], b)
      c == r.conf
      s == [p EXCEPT !.length = IF c.fixed THEN c.pktlen ELSE IF r.off = 0 THEN b + 1 ELSE @, !.off = @ + 1]
      accepted == CASE c.addrchk = 0 -> TRUE
                    [] c.addrchk = 1 -> b = c.addr
                    [] c.addrchk = 2 -> b \in {c.addr, 0}
                    [] c.addrchk = 3 -> b \in {c.addr, 0, 255}
      t == [s EXCEPT !.checked = @ + 1]
  IN  IF p.fsm = "RX_OVERFLOW" THEN p
      ELSE IF r.checked = 1 /\ ~ accepted THEN ExpectPreamble(Down(s, {"packet"}))
      ELSE IF t.length # t.off THEN t
      ELSE IF c.crc THEN ExpectCrc(t) ELSE RxEnd(t)

RxPreamble(r, b) ==
  LET s == [r EXCEPT !.off = @ + 1]
  IN  IF r.off = 0 /\ r.conf.sync = 0 THEN RxData(ExpectData(r), b)
      ELSE IF b # Preamble THEN ExpectPreamble(r)
      ELSE IF s.off = PreambleLength THEN ExpectSfd(s) ELSE s

RxSfd(r, b) ==
  LET q == (IF r.off = 0 THEN 0 ELSE r.quality) + CompareByte(IF r.off % 2 = 0 THEN 211 ELSE 145, b)
      s == [r EXCEPT !.off = @ + 1, !.quality = q]
      least == CASE r.conf.sync = 1 -> 15 [] r.conf.sync = 2 -> 16 [] r.conf.sync = 3 -> 30
  IN  IF s.off # Len(SyncWord(r.conf)) THEN s ELSE IF q >= least THEN ExpectData(s) ELSE ExpectPreamble(s)

\* Two bytes, the strength of the signal and the quality of the link with the
\* result of the check, may follow the packet in the fifo.
Rssi == 1
Lqi(ok) == 127 + (IF ok THEN 128 ELSE 0)
RxCrc(r, b) ==
  LET good == r.crc * 256 + b = r.sum
      s == IF good THEN Up([r EXCEPT !.ok = TRUE], {"crc"}) ELSE [r EXCEPT !.ok = FALSE]
      first == PutRxFifo(s, Rssi)
      both == PutRxFifo(first, Lqi(good))
  IN  IF r.off = 0 THEN [r EXCEPT !.crc = b, !.off = 1]
      ELSE IF ~ r.conf.append THEN RxEnd(s)
      ELSE IF first.fsm = "RX_OVERFLOW" THEN first
      ELSE IF both.fsm = "RX_OVERFLOW" THEN both ELSE RxEnd(both)

\* cc1100_rx_filter: once a byte was heard, the next must come right after it.
FilterPasses(r) == r.fsm = "RX" /\ r.cal /\ r.timer # "past"
CallbackRx(r, b) ==
  LET s == [r EXCEPT !.channel = TRUE, !.timer = "soon"]
  IN  IF ~ FilterPasses(r) THEN [r EXCEPT !.channel = TRUE]
      ELSE CASE r.us = 1 -> RxPreamble(s, b)
             [] r.us = 2 -> RxSfd(s, b)
             [] r.us = 3 -> RxData(s, b)
             [] r.us = 4 -> RxCrc(s, b)
             [] r.us = 5 -> s

\* cc1100_compute_cca: the channel is clear when silent, between packets, or both.
Clear(r) ==
  /\ r.conf.cca \in {"rssi", "both"} => ~ r.channel
  /\ r.conf.cca \in {"packet", "both"} => r.us = 1
-----------------------------------------------------------------------------

\* Transmission.
SendPreamble(r) == [r EXCEPT !.off = 0, !.length = 0, !.us = 1]
SendSfd(r)      == [r EXCEPT !.off = 0, !.length = 0, !.sum = 0, !.us = 2]
SendData(r)     == Up([r EXCEPT !.off = 0, !.length = 0, !.sum = 0, !.us = 3], {"packet"})
SendCrc(r)      == [r EXCEPT !.off = 0, !.length = 0, !.us = 4]
TxState(r) ==
  CASE r.conf.txoff = "IDLE" -> ToIdle(r)
    [] r.conf.txoff = "FSTXON" -> Enter(r, "FSTXON")
    [] r.conf.txoff = "TX" -> SendPreamble(r)
    [] r.conf.txoff = "RX" -> Enter(r, "TXRX_SETTLING")
TxEnd(r) == TxState(Down(r, {"packet"}))

\* worldsens_c_tx: the byte goes to the air, and lasts.
Byte(r, b) == [r EXCEPT !.out = Append(@, b), !.sending = TRUE]

TxPreamble(r) ==
  LET s == [r EXCEPT !.off = @ + 1]
  IN  Byte(IF s.off < PreambleLength THEN s ELSE IF r.conf.sync = 0 THEN SendData(s) ELSE SendSfd(s), Preamble)
TxSfd(r) ==
  LET word == SyncWord(r.conf)
  IN  Byte(IF r.off + 1 = Len(word) THEN SendData(r) ELSE [r EXCEPT !.off = @ + 1], word[r.off + 1])
TxUnderflow(r) ==
  Up(Down([Enter(r, "TX_UNDERFLOW") EXCEPT !.txUnderflow = TRUE], {"packet"}), {"underflow"})
TxData(r) ==
  LET b == r.tx[r.txOffset]
      s == [GetTxFifo(r) EXCEPT !.length = IF r.conf.fixed THEN r.conf.pktlen ELSE IF r.off = 0 THEN b + 1 ELSE @,
                                !.off = @ + 1, !.sum = (@ + b) % Wide]
  IN  Byte(IF s.length # s.off THEN s ELSE IF r.conf.crc THEN SendCrc(s) ELSE TxEnd(s), b)
TxCrc(r) == IF r.off = 0 THEN Byte([r EXCEPT !.off = 1], High(r.sum)) ELSE Byte(TxEnd(r), Low(r.sum))
Tx(r) ==
  CASE ~ r.cal \/ r.sending \/ r.us = 5 -> r
    [] r.cal /\ ~ r.sending /\ r.us = 1 -> IF r.txBytes = 0 THEN r ELSE TxPreamble(r)
    [] r.cal /\ ~ r.sending /\ r.us = 2 -> TxSfd(r)
    [] r.cal /\ ~ r.sending /\ r.us = 3 -> IF r.txBytes = 0 THEN TxUnderflow(r) ELSE TxData(r)
    [] r.cal /\ ~ r.sending /\ r.us = 4 -> TxCrc(r)
TxEnter(r) == Tx(SendPreamble(Enter(r, "TX")))
-----------------------------------------------------------------------------

\* cc1100_update, one function for each state, once its time has come.  late: the
\* time to receive has passed.
UpdateIdle(r) ==
  CASE r.wor /\ r.pending # "SLEEP" -> Start(r, "RX")
    [] r.wor /\ r.pending = "SLEEP" /\ r.csn -> Sleep(r)
    [] OTHER -> r
UpdateCalibrate(r) == [Enter(r, "IDLE") EXCEPT !.cal = TRUE]
UpdateSleep(r) == IF r.wor \/ ~ r.csn THEN Enter(r, "IDLE") ELSE r
UpdateXoff(r) == IF r.csn THEN r ELSE Enter(r, "IDLE")
UpdateFsWakeup(r) == IF r.conf.autocal = 1 THEN FsCalibrate(r) ELSE Enter(r, "SETTLING")
UpdateFsCalibrate(r) == [Enter(r, "SETTLING") EXCEPT !.cal = TRUE]
UpdateSettling(r) ==
  CASE r.pending = "TX" -> TxEnter(r)
    [] r.pending = "RX" -> RxEnter(r)
    [] r.pending = "FSTXON" -> Enter(r, "FSTXON")
UpdateRxTxSettling(r) == IF r.pending = "TX" THEN TxEnter(r) ELSE Enter(r, "FSTXON")
UpdateTxRxSettling(r) == RxEnter(r)
UpdateTx(r) == IF r.us = 5 THEN Enter(r, "IDLE") ELSE Tx(r)
UpdateRx(r, late) ==
  LET s == IF r.conf.rxtime /\ late /\ r.us < 3 THEN [Enter(r, "IDLE") EXCEPT !.pending = "SLEEP"] ELSE r
  IN  IF r.pending # "IDLE"
      THEN IF Clear(r) THEN Enter(Down(r, {"packet"}), "RXTX_SETTLING") ELSE r
      ELSE IF s.us < 2 \/ s.timer = "soon" THEN s
      ELSE IF s.us = 5 THEN Enter(s, "IDLE") ELSE RxEnd(s)
Update(r, late) ==
  CASE r.fsm = "IDLE" -> UpdateIdle(r)
    [] r.fsm \in {"MANCAL", "CALIBRATE"} -> UpdateCalibrate(r)
    [] r.fsm = "SLEEP" -> UpdateSleep(r)
    [] r.fsm = "XOFF" -> UpdateXoff(r)
    [] r.fsm \in {"TX_UNDERFLOW", "RX_OVERFLOW", "FSTXON"} -> r
    [] r.fsm = "FS_WAKEUP" -> UpdateFsWakeup(r)
    [] r.fsm = "FS_CALIBRATE" -> UpdateFsCalibrate(r)
    [] r.fsm = "SETTLING" -> UpdateSettling(r)
    [] r.fsm = "TXRX_SETTLING" -> UpdateTxRxSettling(r)
    [] r.fsm = "RXTX_SETTLING" -> UpdateRxTxSettling(r)
    [] r.fsm = "RX" -> UpdateRx(r, late)
    [] r.fsm = "TX" -> UpdateTx(r)
-----------------------------------------------------------------------------

\* The strobes, one function for each state; one not named is refused.
StrobeTxUnderflow(r, s) == IF s = "SFTX" THEN Enter(FlushTxFifo(r), "IDLE") ELSE r
StrobeRxOverflow(r, s) == IF s = "SFRX" THEN Enter(FlushRxFifo(r), "IDLE") ELSE r
StrobeIdle(r, s) ==
  CASE s = "SCAL" -> Enter(r, "MANCAL")
    [] s = "SRES" -> Reset(r)
    [] s = "SPWD" -> [r EXCEPT !.pending = "SLEEP"]
    [] s = "SXOFF" -> [r EXCEPT !.pending = "XOFF"]
    [] s = "SIDLE" -> [r EXCEPT !.wor = FALSE]
    [] s = "STX" -> Start(r, "TX")
    [] s = "SRX" -> Start(r, "RX")
    [] s = "SFSTXON" -> Start(r, "FSTXON")
    [] s = "SFRX" -> FlushRxFifo(r)
    [] s = "SFTX" -> FlushTxFifo(r)
    [] s = "SWOR" -> IF r.conf.rcosc THEN [r EXCEPT !.wor = TRUE, !.pending = "SLEEP"] ELSE r
StrobeFstxon(r, s) ==
  CASE s = "SRES" -> Reset(r)
    [] s = "SIDLE" -> [Enter(r, "IDLE") EXCEPT !.wor = FALSE]
    [] s = "STX" -> TxEnter(r)
    [] OTHER -> r
StrobeStarting(r, s) == IF s = "SIDLE" THEN [Enter(r, "IDLE") EXCEPT !.wor = FALSE] ELSE r
StrobeTxRxSettling(r, s) == IF s = "SIDLE" THEN Enter(r, "IDLE") ELSE r
StrobeRx(r, s) ==
  CASE s = "SIDLE" -> ToIdle(Down([r EXCEPT !.wor = FALSE], {"packet"}))
    [] s = "STX" -> IF Clear(r) THEN Turn(r, "TX") ELSE [r EXCEPT !.pending = "TX"]
    [] s = "SFSTXON" -> IF Clear(r) THEN Turn(r, "FSTXON") ELSE [r EXCEPT !.pending = "FSTXON"]
    [] OTHER -> r
StrobeTx(r, s) == IF s = "SIDLE" THEN ToIdle(r) ELSE r
StrobeCommand(r, s) ==
  CASE r.fsm = "IDLE" -> StrobeIdle(r, s)
    [] r.fsm = "FSTXON" -> StrobeFstxon(r, s)
    [] r.fsm \in {"FS_WAKEUP", "CALIBRATE", "FS_CALIBRATE", "SETTLING", "RXTX_SETTLING"} -> StrobeStarting(r, s)
    [] r.fsm = "TXRX_SETTLING" -> StrobeTxRxSettling(r, s)
    [] r.fsm = "RX" -> StrobeRx(r, s)
    [] r.fsm = "TX" -> StrobeTx(r, s)
    [] r.fsm = "TX_UNDERFLOW" -> StrobeTxUnderflow(r, s)
    [] r.fsm = "RX_OVERFLOW" -> StrobeRxOverflow(r, s)
    [] r.fsm \in {"MANCAL", "SLEEP", "XOFF"} -> r
-----------------------------------------------------------------------------

\* The packet the driver asked for, as the air should carry it.
Sum(bytes) == FoldLeft(LAMBDA a, b : a + b, 0, bytes) % Wide
OnAir(c, word, bytes, crc) ==
  [i \in 1..PreambleLength |-> Preamble] \o word \o bytes \o (IF c.crc THEN <<High(crc), Low(crc)>> ELSE <<>>)
PacketLength == 3                                      \* of every packet of the instance

\* A step of the radio to r ends a transmission: what has gone to the air is
\* compared to what the driver wrote.
Transmitted(r) == dev.fsm = "TX" /\ dev.us \in {3, 4} /\ Len(r.out) > Len(dev.out)
                  /\ (r.fsm # "TX" \/ r.us \notin {3, 4})
AsWritten(out) ==
  /\ Len(log.written) >= PacketLength
  /\ LET bytes == SubSeq(log.written, 1, PacketLength)
     IN  out = OnAir(dev.conf, SyncWord(dev.conf), bytes, Sum(bytes))
Cleaned(r) == IF r.fsm # "TX" \/ Transmitted(r) THEN [r EXCEPT !.out = <<>>] ELSE r

\* A packet that is left before its end, received or transmitted.
Left(r) == r.fsm # dev.fsm \/ r.us # dev.us
Torn(r) == IF dev.fsm = "RX" /\ dev.us \in {3, 4} /\ Left(r) THEN {"torn"} ELSE {}
Cut(r) == IF dev.fsm = "TX" /\ dev.us \in {3, 4} /\ ~ Transmitted(r) /\ (r.fsm # "TX" \/ r.us = 5)
          THEN {"cut"} ELSE {}

TimePasses ==
  \E late \in BOOLEAN :
    LET r == Update(dev, late)
    IN  /\ r # dev
        /\ dev' = Cleaned(r)
        /\ flag' = flag \cup Torn(r) \cup Cut(r)
        /\ log' = [log EXCEPT !.due = @ /\ ~ Left(r),
                              !.whole = IF Transmitted(r) THEN "cut" \in flag \/ AsWritten(r.out) ELSE @,
                              !.written = IF Transmitted(r) THEN SubSeq(@, PacketLength + 1, Len(@)) ELSE @]
        /\ UNCHANGED <<air, answer>>
\* The byte being sent has gone; nothing was heard after the last byte.
ByteGone ==
  /\ dev.sending
  /\ dev' = [dev EXCEPT !.sending = FALSE]
  /\ UNCHANGED <<air, answer, log, flag>>
Silence ==
  /\ air = <<>> /\ (dev.channel \/ dev.timer = "soon")
  /\ dev' = [dev EXCEPT !.channel = FALSE, !.timer = IF @ = "soon" THEN "past" ELSE @]
  /\ UNCHANGED <<air, answer, log, flag>>

\* The driver: the select pin, strobes, the frequency, the two fifos.  What it
\* sends while the radio sleeps is not looked at.
Pin ==
  /\ dev' = LET r == [dev EXCEPT !.csn = ~ @]
            IN  CASE r.csn /\ r.fsm = "IDLE" /\ r.pending = "SLEEP" -> Sleep(r)
                  [] r.csn /\ r.fsm = "IDLE" /\ r.pending = "XOFF" -> Xoff(r)
                  [] OTHER -> r
  /\ UNCHANGED <<air, answer, log, flag>>
Listens == ~ dev.csn /\ dev.fsm \notin {"SLEEP", "XOFF"}

Interrupts(s) ==
  \/ s \in {"SRES", "SPWD", "SXOFF"}
  \/ s \in {"SIDLE", "STX", "SFSTXON"} /\ dev.fsm # "IDLE"
  \/ s = "SFTX" /\ dev.fsm # "TX_UNDERFLOW" /\ "cut" \notin flag
  \/ s = "SFRX" /\ dev.fsm # "RX_OVERFLOW" /\ "torn" \notin flag
Strobe(s) ==
  LET r == StrobeCommand(dev, s)
      off == IF Interrupts(s) THEN 1 ELSE 0
      send == IF s \in {"STX", "SFSTXON"} /\ dev.fsm = "IDLE" THEN 1 ELSE 0
      rxflushed == s \in {"SFRX", "SRES"}
      txflushed == s \in {"SFTX", "SRES"}
  IN  /\ Listens
      /\ r # dev
      /\ log.offs + off <= log.max.upsets
      /\ log.sends + send <= log.max.sends
      /\ dev' = Cleaned(r)
      /\ answer' = IF rxflushed THEN <<>> ELSE answer
      /\ flag' = (flag \cup Torn(r) \cup Cut(r)) \ ((IF rxflushed THEN {"torn"} ELSE {})
                                                  \cup (IF txflushed THEN {"cut"} ELSE {}))
      /\ log' = [log EXCEPT !.offs = @ + off, !.sends = @ + send, !.due = @ /\ ~ Left(r),
                            !.expected = IF rxflushed THEN <<>> ELSE @,
                            !.written = IF txflushed THEN <<>> ELSE @,
                            !.wrote = IF txflushed THEN ((@ + PacketLength - 1) \div PacketLength) * PacketLength ELSE @]
      /\ UNCHANGED air
Retune ==
  /\ Listens /\ log.offs < log.max.upsets
  /\ dev' = [dev EXCEPT !.cal = FALSE]
  /\ flag' = IF dev.fsm = "RX" /\ dev.us \in {3, 4} THEN flag \cup {"torn"} ELSE flag
  /\ log' = [log EXCEPT !.offs = @ + 1, !.due = FALSE]
  /\ UNCHANGED <<air, answer>>
WriteTx ==
  /\ Listens
  /\ log.wrote < PacketLength * log.max.sends
  /\ LET b == IF log.wrote % PacketLength = 0 THEN PacketLength - 1 ELSE 40 + log.wrote
     IN  /\ dev' = PutTxFifo(dev, b)
         /\ log' = [log EXCEPT !.wrote = @ + 1, !.written = Append(@, b)]
  /\ dev.txBytes < FifoLen
  /\ UNCHANGED <<air, answer, flag>>

\* It reads what RXBYTES says is there, packet by packet.
Extra(c) == IF c.crc /\ c.append THEN 2 ELSE 0
WholePacket == Len(answer) = PacketLength + Extra(dev.conf)
ReadRx ==
  /\ Listens
  /\ RxBytes(dev) \in 1..FifoLen /\ ~ WholePacket
  /\ dev' = GetRxFifo(dev)
  /\ answer' = Append(answer, Value(dev))
  /\ UNCHANGED <<air, log, flag>>
TakePacket ==
  /\ WholePacket
  /\ answer' = <<>>
  /\ log' = [log EXCEPT !.expected = IF @ = <<>> THEN @ ELSE Tail(@)]
  /\ UNCHANGED <<dev, air, flag>>

\* The air: a frame comes, its bytes are heard one by one, or the rest is lost.
\* It is due when the radio waits for one from its first byte on.  A near frame
\* has one bit wrong in its synchronisation word.
Content(n, f) == <<PacketLength - 1, f.to, 60 + n>>
Word(c, f) == IF f.near /\ c.sync # 0 THEN [SyncWord(c) EXCEPT ![1] = 210] ELSE SyncWord(c)
Waits == dev.fsm = "RX" /\ dev.us = 1 /\ dev.timer = "off" /\ dev.cal /\ dev.conf.sync # 0
Arrives(f) ==
  /\ air = <<>> /\ log.heard < log.max.arrivals
  /\ LET bytes == Content(log.heard, f)
     IN  air' = OnAir(dev.conf, Word(dev.conf, f), bytes, Sum(bytes) + (IF f.good THEN 0 ELSE 1))
  /\ log' = [log EXCEPT !.heard = @ + 1, !.due = Waits, !.frame = f]
  /\ UNCHANGED <<dev, answer, flag>>

\* It is for this node when its word and its address are accepted.
Accepted(c, f) ==
  /\ f.near => c.sync \in {1, 3}
  /\ f.to \in (CASE c.addrchk = 0 -> 0..255
                [] c.addrchk = 1 -> {c.addr}
                [] c.addrchk = 2 -> {c.addr, 0}
                [] c.addrchk = 3 -> {c.addr, 0, 255})
Received(f) ==
  Content(log.heard - 1, f) \o (IF Extra(dev.conf) = 2 THEN <<Rssi, Lqi(f.good)>> ELSE <<>>)

Hear ==
  /\ air # <<>>
  /\ LET r == CallbackRx(dev, Head(air))
         data == r.rxBytes # dev.rxBytes
         refused == dev.us = 3 /\ r.us = 1 /\ Len(air) > 1
         ends == Len(air) = 1 /\ log.due /\ Accepted(dev.conf, log.frame) /\ r.fsm # "RX_OVERFLOW"
     IN  /\ dev' = r
         /\ flag' = IF (data /\ ~ log.due) \/ refused THEN flag \cup {"torn"} ELSE flag
         /\ log' = [log EXCEPT !.expected = IF ends THEN Append(@, Received(log.frame)) ELSE @,
                               !.due = @ /\ Len(air) > 1]
  /\ air' = Tail(air)
  /\ UNCHANGED answer
Fade ==
  /\ air # <<>> /\ log.offs < log.max.upsets
  /\ air' = <<>>
  /\ log' = [log EXCEPT !.offs = @ + 1, !.due = FALSE]
  /\ flag' = IF dev.fsm = "RX" /\ dev.us \in {3, 4} THEN flag \cup {"torn"} ELSE flag
  /\ UNCHANGED <<dev, answer>>

Strobes == {"SCAL", "SRES", "SPWD", "SXOFF", "SIDLE", "STX", "SRX", "SFSTXON", "SFRX", "SFTX", "SWOR"}
CcNext ==
  \/ TimePasses
  \/ ByteGone
  \/ Silence
  \/ Pin
  \/ \E s \in Strobes : Strobe(s)
  \/ Retune
  \/ WriteTx
  \/ ReadRx
  \/ TakePacket
  \/ \E f \in Frames : Arrives(f)
  \/ Hear
  \/ Fade
-----------------------------------------------------------------------------

\* A packet the driver has read is the oldest of those that came while the radio
\* waited for one, with the result of its check.
CcReads ==
  flag \cap {"torn"} = {} /\ WholePacket => log.expected # <<>> /\ answer = Head(log.expected)

\* A completed transmission has put on the air, framed, what the driver wrote.
CcSends == log.whole

\* The count of bytes is that of the packets not read, and the pin of the end of
\* a packet is up while one waits.
Total(packets) == Len(packets) * (PacketLength + Extra(dev.conf))
CcCounts ==
  "torn" \notin flag =>
    /\ dev.fsm # "RX_OVERFLOW" /\ ~ (dev.fsm = "RX" /\ dev.us \in {3, 4})
         => RxBytes(dev) = Total(log.expected) - Len(answer)
    /\ log.expected # <<>> /\ answer = <<>> => "end" \in dev.gdo

\* The end of a reception is left: rx.c says of RXOFF_MODE that the next state
\* after a packet is IDLE.
EndsReception == dev.fsm = "RX" /\ dev.us = 5 ~> dev.fsm # "RX"
===============================================================================
