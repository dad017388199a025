--------------------------------- MODULE Cc2420 --------------------------------
(***************************************************************************)
(* The cc2420 radio: its state machine, its command strobes, the ring in   *)
(* which it keeps the frames it hears and the buffer it transmits from,    *)
(* with the driver on its SPI bus and the bytes on the air around it.      *)
(* Times are left out: a state that waits for a timer may wait any time.   *)
(* So are the status bits and pins that only report (RSSI, LQI, CCA, SFD,  *)
(* PLL lock); whether the channel is clear is chosen freely.  The header   *)
(* of a frame (frame control, sequence number, addresses) is one byte.     *)
(***************************************************************************)
EXTENDS Integers, Sequences

CONSTANTS
  FifoLen,   \* CC2420_RAM_RXFIFO_LEN, CC2420_RAM_TXFIFO_LEN
  Threshold, \* FIFOP_THR
  Setups,    \* records: autocrc, decode and autoack of MDMCTRL0, and the bounds below
  Frames     \* what may come on the air: records with len, mine, ack and good

(* Bounds, in each setup: arrivals, the frames that come on the air; sends, the *)
(* frames the driver transmits; upsets, the strobes and pins that interrupt the *)
(* radio and the frames that fade.                                              *)

VARIABLES
  dev,    \* struct _cc2420_t
  air,    \* bytes still to come of the frame on the air
  answer, \* bytes the driver has read of a frame, its length first
  log,    \* what the driver and the other nodes did
  flag    \* what has upset the ring since it was last flushed


\* Bytes: the length of a frame is a number under FifoLen, its header is Header(n, f).
Zero == 0  Sfd == 90  Good == 91  Bad == 92  Status == 93
Length(b) == b % FifoLen                       \* CC2420_TX_LEN_FIELD: the low 7 bits
Header(n, f) == 100 + 4 * n + (IF f.mine THEN 2 ELSE 0) + (IF f.ack THEN 1 ELSE 0)
IsMine(b) == b \div 2 % 2 = 1
WantsAck(b) == b % 2 = 1
HeaderAt == 2                                  \* rx_data_bytes once the header is in

CcInit ==
  /\ \E s \in Setups :
    /\ log = [heard |-> 0, frame |-> [len |-> 0], expected |-> <<>>, written |-> <<>>,
              sends |-> 0, offs |-> 0, whole |-> TRUE, cut |-> FALSE,
              max |-> [arrivals |-> s.arrivals, sends |-> s.sends, upsets |-> s.upsets]]
    /\ dev = [fsm |-> "VREG_OFF", autocrc |-> s.autocrc, decode |-> s.decode, autoack |-> s.autoack,
              ram |-> [i \in 0..(FifoLen - 1) |-> Zero], read |-> 0, write |-> 0, start |-> 0,
              end |-> 0, first |-> -1, nb |-> 0, len |-> 0, bytes |-> 0, zeros |-> FALSE,
              failed |-> FALSE, ackreq |-> FALSE, seq |-> Zero, sync |-> FALSE, overflow |-> FALSE,
              fifo |-> FALSE, fifop |-> FALSE,
              tx |-> <<>>, txlen |-> 0, needed |-> 0, available |-> 0, txbytes |-> 0,
              completed |-> FALSE, underflow |-> FALSE, active |-> FALSE, out |-> <<>>]
  /\ air = <<>> /\ answer = <<>> /\ flag = {}
-----------------------------------------------------------------------------

\* The states.
VregOff(r)      == [r EXCEPT !.fsm = "VREG_OFF", !.active = FALSE]
VregStarting(r) == [r EXCEPT !.fsm = "VREG_STARTING"]
XoscStarting(r) == [r EXCEPT !.fsm = "XOSC_STARTING"]
Reset(r)        == [r EXCEPT !.fsm = "RESET", !.active = FALSE]
PowerDown(r)    == [r EXCEPT !.fsm = "POWER_DOWN", !.active = FALSE]
Idle(r)         == [r EXCEPT !.fsm = "IDLE", !.read = 0, !.write = 0, !.active = FALSE]
TxCalibrate(r)  == [r EXCEPT !.fsm = "TX_CALIBRATE", !.active = TRUE, !.txbytes = 0, !.out = <<>>]
RxCalibrate(r)  == [r EXCEPT !.fsm = "RX_CALIBRATE", !.active = FALSE]
TxPreamble(r)   == [r EXCEPT !.fsm = "TX_PREAMBLE"]
TxFrame(r)      == [r EXCEPT !.fsm = "TX_FRAME", !.txbytes = 0]
TxUnderflow(r)  == RxCalibrate([r EXCEPT !.underflow = TRUE])
SfdSearch(r)    == [r EXCEPT !.fsm = "RX_SFD_SEARCH", !.zeros = FALSE, !.len = 0, !.bytes = 0, !.failed = FALSE]
RxFrame(r)      == [r EXCEPT !.fsm = "RX_FRAME", !.bytes = 0, !.start = r.write]
RxOverflow(r)   == [r EXCEPT !.fsm = "RX_OVERFLOW", !.overflow = TRUE]
AckCalibrate(r) == [r EXCEPT !.fsm = "TX_ACK_CALIBRATE", !.active = TRUE, !.txbytes = 0, !.out = <<>>]
AckPreamble(r)  == [r EXCEPT !.fsm = "TX_ACK_PREAMBLE"]
TxAck(r)        == [r EXCEPT !.fsm = "TX_ACK", !.txbytes = 0]
-----------------------------------------------------------------------------

\* The receive ring.  A byte too many is refused.
Next1(i) == (i + 1) % FifoLen
Wrapped(i) == IF i >= FifoLen THEN i - FifoLen ELSE i
Full(r) == Next1(r.write) = r.read
Push(r, b) == [r EXCEPT !.ram[r.write] = b, !.write = Next1(@)]

Value(r) == IF r.read = r.write THEN 0 ELSE r.ram[r.read]
\* A plausible bug: the next frame is not announced once the first is read.
PopQuietly(r) ==
  IF r.read = r.write THEN r
  ELSE [r EXCEPT !.fifop = @ /\ r.read # r.first, !.first = IF r.read = r.first THEN -1 ELSE @,
                 !.nb = IF r.read = r.end THEN @ - 1 ELSE @, !.read = Next1(@),
                 !.end = IF r.read = r.end /\ r.nb > 1 THEN Wrapped(Next1(r.read) + r.ram[Next1(r.read)]) ELSE @]

Pop(r) ==
  LET r1 == [r EXCEPT !.fifop = @ /\ r.read # r.first, !.first = IF r.read = r.first THEN -1 ELSE @,
                      !.nb = IF r.read = r.end THEN @ - 1 ELSE @, !.read = Next1(@)]
  IN  IF r.read = r.write THEN r
      ELSE IF r.read = r.end /\ r1.nb > 0
      THEN [r1 EXCEPT !.first = r1.read, !.end = Wrapped(r1.read + r1.ram[r1.read]), !.fifop = TRUE]
      ELSE r1

\* A read on the SPI bus also lowers FIFO when nothing is left.
ReadRxFifo(r) == LET p == Pop(r) IN [p EXCEPT !.fifo = @ /\ p.read # p.write]

FlushCurrentFrame(r) ==
  LET last == (r.start + r.len) % FifoLen
      inside == \/ r.start < r.read /\ r.read < last
                \/ r.read < last /\ last < r.start
                \/ last < r.start /\ r.start < r.read
  IN  [r EXCEPT !.write = r.start,
                !.read = IF r.nb = 0 \/ inside THEN r.start ELSE @,
                !.end = IF r.nb = 0 THEN 0 ELSE @]

\* The two bytes of the check sequence become the strength of the signal and
\* the result of the check; they are not brought back to the start of the ring,
\* and those that fall past its end are written elsewhere in the memory.
FcsReplace(r) ==
  [r EXCEPT !.ram = [i \in DOMAIN r.ram |->
                       IF i \in {r.start + r.len, r.start + r.len - 1} THEN Status ELSE r.ram[i]]]
CrcFails(r) == r.len < 2 \/ r.ram[(r.start + r.len) % FifoLen] # Good

\* cc2420_callback_rx: one byte is heard.  In a frame, each byte must come right
\* after the one before it (sync).
FilterPasses(r) == r.fsm = "RX_SFD_SEARCH" \/ (r.fsm = "RX_FRAME" /\ (r.bytes = 0 \/ r.sync))
HearSync(r, b) ==
  IF b = Zero THEN [r EXCEPT !.zeros = TRUE]
  ELSE IF r.zeros /\ b = Sfd THEN RxFrame(r) ELSE SfdSearch(r)
LengthHeard(r, b) ==
  [r EXCEPT !.len = Length(b), !.fifo = TRUE,
            !.end = IF r.nb = 0 THEN Wrapped(r.start + Length(b)) ELSE @,
            !.first = IF r.nb = 0 THEN r.write ELSE @]
Complete(r) ==
  LET checked == IF r.autocrc THEN FcsReplace(r) ELSE r
      kept == [checked EXCEPT !.nb = @ + 1, !.fifop = TRUE]
  IN  IF r.autocrc /\ CrcFails(r) THEN SfdSearch(FlushCurrentFrame(r))
      ELSE IF r.failed THEN SfdSearch(FlushCurrentFrame(checked))
      ELSE IF r.autoack /\ r.ackreq THEN AckCalibrate(kept) ELSE SfdSearch(kept)
HearByte(r, b) ==
  LET r1 == IF r.bytes = 0 THEN LengthHeard(r, b) ELSE r
      r2 == Push([r1 EXCEPT !.bytes = @ + 1], b)
      header == r2.bytes = HeaderAt
      r3 == IF ~ header THEN r2
            ELSE IF r.decode THEN [r2 EXCEPT !.seq = b, !.ackreq = WantsAck(b)] ELSE [r2 EXCEPT !.seq = b]
      r4 == IF r3.bytes >= Threshold /\ (r.decode => header) THEN [r3 EXCEPT !.fifop = TRUE] ELSE r3
  IN  IF Full(r1) THEN [RxOverflow([r1 EXCEPT !.bytes = @ + 1]) EXCEPT !.fifop = TRUE, !.fifo = FALSE]
      ELSE IF r.decode /\ header /\ ~ IsMine(b) THEN [r3 EXCEPT !.failed = TRUE]
      ELSE IF r4.bytes = r4.len + 1 THEN Complete(r4) ELSE r4
CallbackRx(r, b) ==
  IF FilterPasses(r)
  THEN LET s == [r EXCEPT !.sync = TRUE] IN IF r.fsm = "RX_FRAME" THEN HearByte(s, b) ELSE HearSync(s, b)
  ELSE IF r.fsm = "RX_FRAME" THEN SfdSearch(r) ELSE r
-----------------------------------------------------------------------------

\* The transmit buffer.  Its first byte is the length of the frame; writing
\* after a transmission starts a new frame.
WriteTxFifo(r, b) ==
  LET r1 == IF r.completed THEN [r EXCEPT !.tx = <<>>, !.available = 0, !.completed = FALSE] ELSE r
      short == Length(b) < (IF r.autocrc THEN 2 ELSE 1)
  IN  CASE Len(r1.tx) >= FifoLen -> r1
        [] r1.tx = <<>> /\ short -> [r1 EXCEPT !.txlen = 0]
        [] r1.tx = <<>> /\ ~ short ->
             [r1 EXCEPT !.txlen = Length(b), !.available = 0, !.tx = <<b>>,
                        !.needed = Length(b) + (IF r.autocrc THEN -1 ELSE 1)]
        [] r1.tx # <<>> /\ Len(r1.tx) < FifoLen ->
             IF r1.available = r1.needed THEN r1
             ELSE [r1 EXCEPT !.tx = Append(@, b), !.available = @ + 1]

TxByte(r, b) == [r EXCEPT !.out = Append(@, b)]

\* cc2420_update, one function for each state, once its time has come.
UpdateVregStarting(r) == PowerDown(r)
UpdateXoscStarting(r) == Idle(r)
UpdateRxCalibrate(r)  == SfdSearch(r)
UpdateTxCalibrate(r)  == TxPreamble(r)
UpdateAckCalibrate(r) == AckPreamble(r)

\* The zeros of the preamble and the low byte of the synchronisation word are
\* one byte here, its high byte another.
PreambleBytes == 1
UpdateTxPreamble(r) ==
  IF r.txbytes < PreambleBytes THEN [TxByte(r, Zero) EXCEPT !.txbytes = @ + 1] ELSE TxFrame(TxByte(r, Sfd))
UpdateAckPreamble(r) ==
  IF r.txbytes < PreambleBytes THEN [TxByte(r, Zero) EXCEPT !.txbytes = @ + 1] ELSE TxAck(TxByte(r, Sfd))

\* The lengths are bytes: a length of 0 makes it wait for 255 bytes of the buffer.
FromFifo(r) == (IF r.autocrc THEN r.txlen - 1 ELSE r.txlen + 1) % 256
Sent(r) == RxCalibrate([r EXCEPT !.completed = TRUE])
UpdateTxFrame(r) ==
  CASE r.txbytes < FromFifo(r) /\ r.txbytes >= Len(r.tx) -> TxUnderflow(r)
    [] r.txbytes < FromFifo(r) /\ r.txbytes < Len(r.tx) -> [TxByte(r, r.tx[r.txbytes + 1]) EXCEPT !.txbytes = @ + 1]
    [] r.txbytes = FromFifo(r) /\ r.autocrc -> [TxByte(r, Good) EXCEPT !.txbytes = @ + 1]
    [] r.txbytes > FromFifo(r) /\ r.autocrc -> Sent(TxByte(r, Good))
    [] r.txbytes >= FromFifo(r) /\ ~ r.autocrc -> Sent(r)

\* An acknowledgement: its length, its two control bytes (one here), the
\* sequence number of the frame it answers and its check sequence.
UpdateTxAck(r) ==
  LET ack == <<4, Status, r.seq, Good, Good>>
      sent == [TxByte(r, ack[r.txbytes + 1]) EXCEPT !.txbytes = @ + 1]
  IN  IF r.txbytes = Len(ack) - 1 THEN RxCalibrate(sent) ELSE sent

Waiting == {"VREG_OFF", "RESET", "POWER_DOWN", "IDLE", "RX_SFD_SEARCH", "RX_FRAME", "RX_OVERFLOW"}
Update(r) ==
  CASE r.fsm = "VREG_STARTING" -> UpdateVregStarting(r)
    [] r.fsm = "XOSC_STARTING" -> UpdateXoscStarting(r)
    [] r.fsm = "RX_CALIBRATE" -> UpdateRxCalibrate(r)
    [] r.fsm = "TX_CALIBRATE" -> UpdateTxCalibrate(r)
    [] r.fsm = "TX_PREAMBLE" -> UpdateTxPreamble(r)
    [] r.fsm = "TX_FRAME" -> UpdateTxFrame(r)
    [] r.fsm = "TX_ACK_CALIBRATE" -> UpdateAckCalibrate(r)
    [] r.fsm = "TX_ACK_PREAMBLE" -> UpdateAckPreamble(r)
    [] r.fsm = "TX_ACK" -> UpdateTxAck(r)
-----------------------------------------------------------------------------

\* The strobes, one function for each state; a strobe not named is ignored.
FlushTx(r) == [r EXCEPT !.underflow = FALSE, !.tx = <<>>, !.available = 0, !.completed = FALSE]
FlushRx(r) ==
  [r EXCEPT !.overflow = FALSE, !.bytes = 0, !.len = 0, !.read = 0, !.write = 0, !.start = 0, !.end = 0,
            !.first = -1, !.nb = 0, !.fifop = FALSE, !.fifo = FALSE]
StrobeAny(r, s) ==
  CASE s = "SXOSCOFF" -> PowerDown(r)
    [] s = "SRFOFF" -> Idle(r)
    [] s = "SFLUSHTX" -> FlushTx(r)
    [] s = "SFLUSHRX" -> FlushRx(r)
    [] OTHER -> r
StrobePowerDown(r, s) == IF s = "SXOSCON" THEN XoscStarting(r) ELSE r
StrobeIdle(r, s) ==
  CASE s = "STXON" -> TxCalibrate(r)
    [] s = "SRXON" -> RxCalibrate(r)
    [] s = "SRFOFF" -> r
    [] OTHER -> StrobeAny(r, s)
StrobeTxCalibrate(r, s) == StrobeAny(r, s)
StrobeTxPreamble(r, s) == IF s = "SFLUSHRX" THEN SfdSearch(FlushRx(r)) ELSE StrobeAny(r, s)
StrobeTxFrame(r, s) == StrobeAny(r, s)
StrobeRxCalibrate(r, s) == IF s = "STXON" THEN TxCalibrate(r) ELSE StrobeAny(r, s)
StrobeSfdSearch(r, s) ==
  CASE s = "STXON" -> TxCalibrate(r)
    [] s = "SRXON" -> SfdSearch(r)
    [] s = "SACK" -> AckCalibrate(r)
    [] OTHER -> StrobeAny(r, s)
StrobeRxFrame(r, s) ==
  CASE s = "SFLUSHRX" -> SfdSearch(FlushRx(r))
    [] s = "STXON" -> TxCalibrate(r)
    [] s = "SRXON" -> SfdSearch(r)
    [] OTHER -> StrobeAny(r, s)
StrobeAckCalibrate(r, s) == IF s = "STXON" THEN TxCalibrate(r) ELSE StrobeAny(r, s)
StrobeAckPreamble(r, s) ==
  IF s = "SFLUSHRX" THEN [FlushRx(r) EXCEPT !.fifo = r.fifo] ELSE StrobeAny(r, s)
StrobeTxAck(r, s) == StrobeAny(r, s)
StrobeRxOverflow(r, s) == IF s = "SFLUSHRX" THEN SfdSearch(FlushRx(r)) ELSE StrobeAny(r, s)
StrobeCommand(r, s) ==
  CASE r.fsm = "POWER_DOWN" -> StrobePowerDown(r, s)
    [] r.fsm = "IDLE" -> StrobeIdle(r, s)
    [] r.fsm = "TX_CALIBRATE" -> StrobeTxCalibrate(r, s)
    [] r.fsm = "TX_PREAMBLE" -> StrobeTxPreamble(r, s)
    [] r.fsm = "TX_FRAME" -> StrobeTxFrame(r, s)
    [] r.fsm = "RX_SFD_SEARCH" -> StrobeSfdSearch(r, s)
    [] r.fsm = "RX_FRAME" -> StrobeRxFrame(r, s)
    [] r.fsm = "TX_ACK_CALIBRATE" -> StrobeAckCalibrate(r, s)
    [] r.fsm = "TX_ACK_PREAMBLE" -> StrobeAckPreamble(r, s)
    [] r.fsm = "TX_ACK" -> StrobeTxAck(r, s)
    [] r.fsm = "RX_OVERFLOW" -> StrobeRxOverflow(r, s)
    [] r.fsm = "RX_CALIBRATE" -> StrobeRxCalibrate(r, s)
    [] OTHER -> r
-----------------------------------------------------------------------------

\* What leaves the ring in a state a new frame is not prepared for: a frame not
\* heard to its end and not flushed, pointers set back while frames wait, and
\* the last waiting frame read while another is coming.
Torn(r) == dev.fsm = "RX_FRAME" /\ dev.bytes > 0 /\ r.fsm \in {"TX_CALIBRATE", "RX_SFD_SEARCH"} /\ r.nb = dev.nb
SetBack(r) == r.fsm = "IDLE" /\ dev.fsm # "IDLE" /\ (r.nb > 0 \/ r.fifop)
Crossed(r) == dev.fsm = "RX_FRAME" /\ dev.bytes > 0 /\ dev.nb = 1 /\ r.nb = 0
Upset(r) == flag \cup (IF SetBack(r) THEN {"torn"} ELSE {})

\* A frame that has gone to the air is the one the driver wrote, with its check sequence.
AsWritten(out) ==
  /\ Len(log.written) = dev.txlen - (IF dev.autocrc THEN 1 ELSE -1)
  /\ out = <<Zero, Sfd>> \o log.written \o (IF dev.autocrc THEN <<Good, Good>> ELSE <<>>)

TimePasses ==
  /\ dev.fsm \notin Waiting
  /\ LET r == Update(dev)
     IN  /\ dev' = r
         /\ flag' = Upset(r)
         /\ log' = IF dev.fsm = "TX_FRAME" /\ r.fsm = "RX_CALIBRATE" /\ dev.txbytes >= FromFifo(dev)
                   THEN [log EXCEPT !.whole = log.cut \/ AsWritten(r.out)] ELSE log
  /\ UNCHANGED <<air, answer>>

\* The driver: pins, strobes, the two fifos.
Pins ==
  /\ \/ dev.fsm = "VREG_OFF" /\ dev' = VregStarting(dev) /\ UNCHANGED log
     \/ /\ dev.fsm # "VREG_OFF" /\ log.offs < log.max.upsets
        /\ dev' = VregOff(dev) /\ log' = [log EXCEPT !.offs = @ + 1]
     \/ /\ dev.fsm \notin {"VREG_OFF", "RESET"} /\ log.offs < log.max.upsets
        /\ dev' = Reset(dev) /\ log' = [log EXCEPT !.offs = @ + 1]
     \/ dev.fsm = "RESET" /\ dev' = PowerDown(dev) /\ UNCHANGED log
  /\ UNCHANGED <<air, answer, flag>>

Interrupts(s) ==
  \/ s \in {"SXOSCOFF", "SRFOFF"}
  \/ s = "STXON" /\ dev.fsm \in {"RX_FRAME", "TX_ACK_CALIBRATE"}
  \/ s = "SRXON" /\ dev.fsm \in {"RX_FRAME", "RX_SFD_SEARCH"}
  \/ s = "SACK"
  \/ s = "SFLUSHTX" /\ ~ dev.underflow
  \/ s = "SFLUSHRX" /\ dev.fsm # "RX_OVERFLOW"
Strobe(s) ==
  LET r == StrobeCommand(dev, s)
      off == IF Interrupts(s) THEN 1 ELSE 0
      flushed == s = "SFLUSHRX" /\ r # dev
  IN  /\ r # dev \/ flushed
      /\ log.offs + off <= log.max.upsets
      /\ s = "STXON" => log.sends < log.max.sends
      /\ dev' = r
      /\ answer' = IF flushed THEN <<>> ELSE answer
      /\ flag' = IF flushed THEN {} ELSE Upset(r) \cup (IF Torn(r) THEN {"torn"} ELSE {})
      /\ log' = [log EXCEPT !.offs = @ + off, !.sends = IF s = "STXON" THEN @ + 1 ELSE @,
                            !.expected = IF flushed THEN <<>> ELSE @,
                            !.written = IF s = "SFLUSHTX" THEN <<>> ELSE @,
                            !.cut = IF s = "SFLUSHTX" /\ dev.fsm = "TX_FRAME" THEN TRUE
                                    ELSE IF s = "STXON" THEN FALSE ELSE @]
      /\ UNCHANGED air

\* It writes a frame of three bytes of length, then its header, at any pace; once
\* it is transmitted, another.
WriteTx ==
  /\ dev.fsm \notin {"VREG_OFF", "VREG_STARTING", "RESET", "POWER_DOWN", "XOSC_STARTING"}
  /\ log.sends < log.max.sends \/ dev.active
  /\ LET begins == dev.completed \/ log.written = <<>>
         b == IF begins THEN 3 ELSE 100 + 10 * log.sends + Len(log.written)
     IN  /\ begins \/ Len(log.written) < dev.txlen - (IF dev.autocrc THEN 1 ELSE -1)
         /\ dev' = WriteTxFifo(dev, b)
         /\ log' = [log EXCEPT !.written = IF begins THEN <<b>> ELSE Append(@, b),
                               !.cut = @ \/ (begins /\ dev.fsm = "TX_FRAME" /\ dev.txbytes > 0)]
  /\ UNCHANGED <<air, answer, flag>>

\* Told by FIFOP and FIFO that a frame is there, it reads its length, then as many bytes.
WholeFrame == answer # <<>> /\ Len(answer) = Length(answer[1]) + 1
ReadRx ==
  /\ answer = <<>> => dev.fifop /\ dev.fifo
  /\ ~ WholeFrame
  /\ LET r == ReadRxFifo(dev)
     IN  /\ dev' = r
         /\ flag' = IF Crossed(r) THEN flag \cup {"crossed"} ELSE flag
  /\ answer' = Append(answer, Value(dev))
  /\ UNCHANGED <<air, log>>
TakeFrame ==
  /\ WholeFrame
  /\ answer' = <<>>
  /\ log' = [log EXCEPT !.expected = IF @ = <<>> THEN @ ELSE Tail(@)]
  /\ UNCHANGED <<dev, air, flag>>

\* The air: a frame comes, its bytes are heard one by one, or the rest is lost.
Acceptable(f) == (dev.autocrc => f.good) /\ (dev.decode => f.mine)
Content(n, f) == <<f.len, Header(n, f)>> \o [i \in 1..(f.len - 3) |-> Good]
OnAir(n, f) == <<Zero, Zero, Sfd>> \o Content(n, f) \o <<Good, IF f.good THEN Good ELSE Bad>>
Arrives(f) ==
  /\ air = <<>> /\ log.heard < log.max.arrivals
  /\ air' = OnAir(log.heard, f)
  /\ log' = [log EXCEPT !.heard = @ + 1, !.frame = f]
  /\ UNCHANGED <<dev, answer, flag>>
Hear ==
  /\ air # <<>>
  /\ LET r == CallbackRx(dev, Head(air))
         ends == /\ Len(air) = 1 /\ dev.fsm = "RX_FRAME" /\ dev.bytes = log.frame.len /\ dev.sync
                 /\ r.fsm # "RX_OVERFLOW"
     IN  /\ dev' = r
         /\ log' = IF ends /\ Acceptable(log.frame)
                   THEN [log EXCEPT !.expected = Append(@, Content(log.heard - 1, log.frame))] ELSE log
         /\ flag' = IF dev.fsm = "RX_FRAME" /\ ~ FilterPasses(dev) THEN flag \cup {"torn"} ELSE flag
  /\ air' = Tail(air)
  /\ UNCHANGED answer
Fade ==
  /\ air # <<>> /\ log.offs < log.max.upsets
  /\ air' = <<>>
  /\ dev' = [dev EXCEPT !.sync = FALSE]
  /\ log' = [log EXCEPT !.offs = @ + 1]
  /\ UNCHANGED <<answer, flag>>

Strobes == {"SXOSCON", "SXOSCOFF", "SRXON", "STXON", "SRFOFF", "SFLUSHRX", "SFLUSHTX", "SACK"}
CcNext ==
  \/ TimePasses
  \/ Pins
  \/ \E s \in Strobes : Strobe(s)
  \/ WriteTx
  \/ ReadRx
  \/ TakeFrame
  \/ \E f \in Frames : Arrives(f)
  \/ Hear
  \/ Fade
-----------------------------------------------------------------------------

\* A frame the driver has read is the oldest of those that were heard whole and
\* are for this node: framing survives frames refused, the end of the ring,
\* an overflow and frames that come while others are read.
CcReads ==
  flag = {} /\ WholeFrame /\ dev.autocrc =>
    /\ log.expected # <<>>
    /\ SubSeq(answer, 1, Len(answer) - 2) = Head(log.expected)

\* A completed transmission has put on the air the frame the driver wrote, whole.
CcSends == log.whole

\* nb_rx_frames is the number of frames that wait to be read, and FIFOP tells
\* the driver that there is one.
Left == Len(log.expected) - (IF WholeFrame THEN 1 ELSE 0)
CcCounts(upset) ==
  flag \subseteq upset =>
    /\ dev.nb = Left
    /\ answer = <<>> /\ log.expected # <<>> => dev.fifop
===============================================================================
