------------------------------ MODULE Msp430Serial ------------------------------
(***************************************************************************)
(* A serial port of the MSP430 (USART in UART or SPI mode, USCI A0 or B0), *)
(* a channel of the DMA controller, the device at the other end and the    *)
(* program that polls the port, answers its interrupts or hands it to the  *)
(* DMA.  A turn of the machine is one instruction, the update of the port  *)
(* for the bit clocks it lasted, the update of the DMA, the device, the    *)
(* end of the update, and the start of an interrupt.  A byte is the number *)
(* of its place in what is sent; clock selection and modulation are left   *)
(* to the number of ticks.                                                 *)
(***************************************************************************)
EXTENDS Naturals, Sequences, FiniteSets

CONSTANTS
  Ports,    \* kinds and uses: [kind : {"uart", "spi", "slave", "uscia", "uscib"},
            \*                  how : {"cpu", "dmatx", "dmarx"}]
  Ticks,    \* bit clocks in one turn
  ByteTime, \* bit clocks of a byte (uxbr_div, or 7 + charb)
  MaxTx,    \* bound: bytes the program sends
  MaxRx,    \* bound: bytes the device sends
  Block,    \* bytes of a DMA block
  MaxSets   \* bound: writes of the control registers

VARIABLE m  \* struct msp430_usart_t and sfr, the DMA channel, what is on its way

Usart(s) == s.kind \in {"uart", "spi", "slave"}
IsUart(s) == s.kind \in {"uart", "uscia"}
Sub(a, b) == IF a > b THEN a - b ELSE 0

\* A flag is raised: the interrupt is posted when it is enabled at that moment, and the
\* DMA triggered otherwise (uscib0 has no trigger).
Raise(s, f) ==
  LET n == [s EXCEPT !.ifg = @ \cup {f}]
  IN  IF f \in s.ie THEN [n EXCEPT !.iv = @ \cup {f}]
      ELSE IF s.kind = "uscib" THEN n ELSE [n EXCEPT !.trig = @ \cup {f}]

Load(s) ==
  Raise([s EXCEPT !.txshift = s.txbuf, !.txfull = FALSE, !.fulldelay = 0, !.txempty = FALSE,
                  !.txready = FALSE, !.txdelay = IF s.kind = "slave" THEN 0 ELSE ByteTime,
                  !.slavedone = FALSE], "tx")

\* The shift registers.
TxShift(s, ticks) ==
  IF s.txempty THEN s
  ELSE [s EXCEPT !.txdelay = Sub(@, ticks), !.txready = @ \/ s.txdelay <= ticks]

RxShift(s, ticks) ==
  IF s.rxempty THEN s
  ELSE [s EXCEPT !.rxdelay = Sub(@, ticks), !.rxready = @ \/ s.rxdelay <= ticks]

\* The byte received is delivered even when the last one has not been read; in UART
\* mode the usart frees its shift register at the end of the turn only.
\* Mutant: it is freed at the end of the turn in every mode of every port.
RxDeliverLate(s) ==
  IF ~ s.rxready THEN s
  ELSE Raise([s EXCEPT !.oe = @ \/ s.rxfull, !.rxbuf = s.rxshift, !.rxfull = TRUE], "rx")
RxDeliver(s) ==
  IF ~ s.rxready THEN s
  ELSE Raise([s EXCEPT !.oe = @ \/ s.rxfull, !.rxbuf = s.rxshift, !.rxfull = TRUE,
                       !.rxready = s.kind = "uart", !.rxempty = s.kind # "uart"], "rx")

\* UART: a byte written waits for a bit clock and an empty shift register.
TxBuffer(s, ticks) ==
  IF ~ s.txfull THEN s
  ELSE IF s.fulldelay = 0 /\ s.txempty THEN Load(s)
  ELSE [s EXCEPT !.fulldelay = Sub(@, ticks)]

UartUpdate(s, ticks) ==
  LET a == IF "tx" \in s.me THEN TxBuffer(s, ticks) ELSE s
  IN  RxDeliver(RxShift(TxShift(a, ticks), ticks))
UsciaUpdate(s, ticks) == RxDeliver(RxShift(TxShift(TxBuffer(s, ticks), ticks), ticks))

\* SPI: it goes at once; a slave's, when the master has sent its own.
Clocked(s, ticks) ==
  LET a == IF s.txfull /\ s.txempty /\ (s.kind # "slave" \/ s.slavedone) THEN Load(s) ELSE s
  IN  RxDeliver(RxShift(TxShift(a, ticks), ticks))
SpiUpdate(s, ticks) == IF "rx" \in s.me THEN Clocked(s, ticks) ELSE s
UscibUpdate(s, ticks) == Clocked(s, ticks)

Update(s, ticks) ==
  CASE s.kind = "uart" -> UartUpdate(s, ticks)
    [] s.kind \in {"spi", "slave"} -> SpiUpdate(s, ticks)
    [] s.kind = "uscia" -> UsciaUpdate(s, ticks)
    [] OTHER -> UscibUpdate(s, ticks)

UpdateDone(s) ==
  IF s.kind = "uart" /\ s.rxready THEN [s EXCEPT !.rxready = FALSE, !.rxempty = TRUE] ELSE s
-----------------------------------------------------------------------------

\* The registers of the port: by the instruction, or by the DMA.
WriteTxbuf(s) ==
  [s EXCEPT !.txbuf = s.next, !.txfull = TRUE, !.fulldelay = 1, !.ifg = @ \ {"tx"},
            !.next = @ + 1, !.due = Append(@, s.next)]

ReadRxbuf(s) ==
  [s EXCEPT !.ifg = @ \ {"rx"}, !.rxfull = FALSE, !.oe = FALSE,
            !.came = IF s.oe THEN {b \in @ : b > s.rxbuf} ELSE @ \ {s.rxbuf}]

Flush(s) ==
  [s EXCEPT !.ie = {}, !.ifg = {"tx"}, !.oe = FALSE, !.txfull = FALSE, !.fulldelay = 0,
            !.txempty = TRUE, !.rxfull = FALSE, !.rxempty = TRUE, !.due = <<>>, !.came = {}]

\* A write of SWRST: the usart is flushed when it rises, a usci when it is left at 0.
UsartCtl(s, rst) == [(IF rst /\ ~ s.swrst THEN Flush(s) ELSE s) EXCEPT !.swrst = rst]
UsciCtl(s, rst) == [(IF ~ rst /\ ~ s.swrst THEN Flush(s) ELSE s) EXCEPT !.swrst = rst]

UsciaWrite(s, reg, rst) == IF reg = "txbuf" THEN WriteTxbuf(s) ELSE UsciCtl(s, rst)
UscibWrite(s, reg, rst) == IF reg = "txbuf" THEN WriteTxbuf(s) ELSE UsciCtl(s, rst)
WriteReg(s, reg, rst) ==
  CASE s.kind = "uscia" -> UsciaWrite(s, reg, rst)
    [] s.kind = "uscib" -> UscibWrite(s, reg, rst)
    [] reg = "txbuf" -> WriteTxbuf(s)
    [] OTHER -> UsartCtl(s, rst)

\* The usci are read as the usart is.
UsciaRead(s) == ReadRxbuf(s)
UscibRead(s) == ReadRxbuf(s)
Read(s) == CASE s.kind = "uscia" -> UsciaRead(s) [] s.kind = "uscib" -> UscibRead(s) [] OTHER -> ReadRxbuf(s)
-----------------------------------------------------------------------------

\* The channel, in single mode, edge sensitive, its other end in memory.
DmaCopy(s) ==
  LET done == s.dma.sz = 1
      a == IF s.how = "dmatx" THEN WriteReg(s, "txbuf", FALSE) ELSE Read(s)
  IN  [a EXCEPT !.dma.state = IF done \/ ~ s.dma.en THEN "RESET" ELSE "WAIT",
                !.dma.sz = @ - 1, !.dma.en = @ /\ ~ done, !.dma.ifg = @ \/ (s.dma.en /\ done)]

DmaAwait(s) ==
  IF (IF s.how = "dmatx" THEN "tx" ELSE "rx") \in s.trig
  THEN [s EXCEPT !.dma.state = "HOLD"] ELSE [s EXCEPT !.dma.state = "WAIT"]

DmaUpdate(s) ==
  LET n == IF s.how = "cpu" THEN s
           ELSE IF s.dma.state = "HOLD" THEN DmaCopy(s)
           ELSE IF s.dma.state = "WAIT" \/ (s.dma.en /\ s.dma.sz > 0) THEN DmaAwait(s)
           ELSE IF s.dma.en THEN [s EXCEPT !.dma.en = FALSE, !.dma.ifg = TRUE]
           ELSE s
  IN  [n EXCEPT !.trig = {}]
-----------------------------------------------------------------------------

\* The platform: what the port has shifted out goes to the device ...
DevRead(s) ==
  IF s.txready THEN [s EXCEPT !.txready = FALSE, !.txempty = TRUE, !.due = Tail(@)] ELSE s

\* ... and what the device says goes in.  On the usart it is dropped without URXE.
DevWriteUart(s) ==
  IF ~ s.rxempty \/ (s.kind = "uart" /\ "rx" \notin s.me) THEN s
  ELSE [s EXCEPT !.rxshift = s.fed, !.rxempty = FALSE, !.rxready = FALSE, !.rxdelay = ByteTime,
                 !.fed = @ + 1, !.came = @ \cup {s.fed}]
DevWriteSpi(s) ==
  IF Usart(s) /\ "rx" \notin s.me THEN s
  ELSE [s EXCEPT !.rxshift = s.fed, !.rxempty = FALSE, !.rxready = FALSE, !.rxdelay = 0,
                 !.slavedone = s.kind = "slave", !.fed = @ + 1, !.came = @ \cup {s.fed}]

\* A device on an SPI bus answers each byte; a master, or a terminal, speaks when it likes.
Devices(s, speaks) ==
  LET n == DevRead(s)
  IN  IF s.kind \in {"spi", "uscib"} THEN IF s.txready THEN DevWriteSpi(n) ELSE n
      ELSE IF ~ speaks \/ s.fed = MaxRx THEN n
      ELSE IF IsUart(s) THEN DevWriteUart(n) ELSE DevWriteSpi(n)
-----------------------------------------------------------------------------

\* msp430_interrupt_start_if_any: reception first.  With both usci, the flag cleared is
\* that of A0, whoever posted the interrupt.
StartInterrupt(s) ==
  IF s.iv = {} \/ s.isr # "none" THEN s
  ELSE LET v == IF "rx" \in s.iv THEN "rx" ELSE "tx"
       IN  [s EXCEPT !.iv = @ \ {v}, !.isr = v,
                     !.ifg = IF s.kind = "uscib" THEN @ ELSE @ \ {v}]

\* OP_RETI: the flags are looked at again.
CheckIfg(s) == [s EXCEPT !.iv = @ \cup (s.ifg \cap s.ie)]

SerInit ==
  \E p \in Ports :
    m = [kind |-> p.kind, how |-> p.how, me |-> {"tx", "rx"}, ie |-> {}, ifg |-> {"tx"},
         iv |-> {}, trig |-> {}, isr |-> "none", sets |-> 0, swrst |-> FALSE,
         txbuf |-> 0, txfull |-> FALSE, fulldelay |-> 0,
         txshift |-> 0, txempty |-> TRUE, txready |-> FALSE, txdelay |-> 0,
         rxbuf |-> 0, rxfull |-> FALSE, rxshift |-> 0, rxempty |-> TRUE, rxready |-> FALSE,
         rxdelay |-> 0, oe |-> FALSE, slavedone |-> FALSE,
         dma |-> [state |-> "RESET", en |-> FALSE, sz |-> 0, ifg |-> FALSE],
         next |-> 0, due |-> <<>>, fed |-> 0, came |-> {}]

\* The rest of the turn, from the state the instruction has left.
EndTurn(s) ==
  \E ticks \in Ticks, speaks \in BOOLEAN, i \in {s} :
  \E u \in {Update(i, ticks)} : \E d \in {DmaUpdate(u)} : \E t \in {Devices(d, speaks)} :
    m' = StartInterrupt(UpdateDone(t))

Nop == EndTurn(m)
\* The program sends when the flag says it may, or from the handler.
Awake(f) == IF f \in m.ie THEN m.isr = f ELSE m.isr = "none" /\ f \in m.ifg
Send == /\ m.next < MaxTx /\ m.how # "dmatx" /\ Awake("tx") /\ ~ m.txfull
        /\ EndTurn(WriteReg(m, "txbuf", FALSE))
Receive == m.how # "dmarx" /\ Awake("rx") /\ m.rxfull /\ EndTurn(Read(m))
Return == m.isr # "none" /\ EndTurn(CheckIfg([m EXCEPT !.isr = "none"]))

Set(s) == m.sets < MaxSets /\ EndTurn([s EXCEPT !.sets = @ + 1])
\* An interrupt is enabled while its flag is clear, and disabled by its handler.
SetIe == \E f \in {"tx", "rx"} :
  /\ m.how = "cpu" /\ IF f \in m.ie THEN m.isr = f ELSE f \notin m.ifg
  /\ Set([m EXCEPT !.ie = IF f \in @ THEN @ \ {f} ELSE @ \cup {f}])
SetMe == \E f \in {"tx", "rx"} :
  /\ Usart(m) /\ Set([m EXCEPT !.me = IF f \in @ THEN @ \ {f} ELSE @ \cup {f}])
WriteCtl == /\ m.isr = "none" /\ m.iv = {} /\ m.how = "cpu"
            /\ \E rst \in BOOLEAN : Set(WriteReg(m, "ctl", rst))
\* A block is started by a write of IFG that raises UTXIFG, or by what comes.
StartBlock ==
  /\ m.how # "cpu" /\ m.dma.state = "RESET" /\ ~ m.dma.en /\ m.due = <<>>
  /\ m.how = "dmatx" => m.next + Block <= MaxTx
  /\ \E size \in {0, Block} :
       Set([m EXCEPT !.dma.en = TRUE, !.dma.sz = size, !.dma.ifg = FALSE,
                     !.trig = IF m.how = "dmatx" THEN @ \cup {"tx"} ELSE @])
\* A block stopped between two bytes: the channel copies one more when triggered.
StopBlock == m.dma.en /\ m.dma.state = "WAIT" /\ Set([m EXCEPT !.dma.en = FALSE])

SerNext ==
  Nop \/ Send \/ Receive \/ Return \/ SetIe \/ SetMe \/ WriteCtl \/ StartBlock \/ StopBlock
-----------------------------------------------------------------------------

\* No byte is lost, doubled or reordered on its way out, whatever wrote it; on its way
\* in, only an overrun the program can see loses one.
TxInFlight(s) == (IF s.txempty THEN <<>> ELSE <<s.txshift>>)
                 \o (IF s.txfull THEN <<s.txbuf>> ELSE <<>>)
RxInFlight(s) == (IF s.rxfull THEN {s.rxbuf} ELSE {}) \cup (IF s.rxempty THEN {} ELSE {s.rxshift})
BytesKept ==
  /\ m.due = TxInFlight(m)
  /\ m.rxfull /\ ~ m.rxempty => m.rxbuf < m.rxshift
  /\ m.oe \/ m.came = RxInFlight(m)

\* A flag enabled is pending, or a handler runs whose RETI looks at it again.
SerInterruptKept == m.ifg \cap m.ie \subseteq m.iv \/ m.isr # "none"

\* A block the DMA has begun to send ends.
Sending == m.how = "dmatx" /\ m.dma.en /\ m.dma.state # "RESET"
Ended == ~ m.dma.en \/ m.me # {"tx", "rx"}
=============================================================================
