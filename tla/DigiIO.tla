-------------------------------- MODULE DigiIO ---------------------------------
(***************************************************************************)
(* The digital ports of the two microcontrollers: the registers a program  *)
(* writes, the pins the devices of a board drive and read, and on the      *)
(* MSP430 the flags of ports 1 and 2 with the interrupt they share.  Pull  *)
(* resistors (PxREN) are left out.  The pins of a register are a set.      *)
(***************************************************************************)
EXTENDS Naturals

CONSTANTS
  Pins,          \* the pins of a port, a device on each
  PortKinds,     \* among {"port1", "port3", "avr"}: with and without interrupts, ATmega
  MaxSettings    \* bound: writes that set a port up, writes of the ports of an ATmega

VARIABLE m       \* MCU.digiIO, the vector, the lines of the devices, what they have read

Differ(a, b) == (a \ b) \cup (b \ a)
-----------------------------------------------------------------------------
\* The ATmega: 21 registers, of which the addresses have three gaps and an exception.

Addresses == 32..35 \cup 48..59 \cup 97..101
PinOf == {32, 33, 48, 51, 54, 57, 99}             \* the addresses of the inputs
IndexOf(addr) == IF addr = 32 THEN 15 ELSE ((addr % 81) % 45) % 33
IsInput(addr) == IndexOf(addr) % 3 = 0

AvrWrite(s, addr, val) ==
  IF IsInput(addr) THEN s ELSE [s EXCEPT !.regs[IndexOf(addr)] = val]
AvrRead(s, addr) == s.regs[IndexOf(addr)]
AvrReset == [i \in 0..20 |-> 0]

\* The program writes an output register, or by mistake an input.
AvrStore ==
  /\ m.kind = "avr" /\ m.settings < MaxSettings
  /\ \E addr \in Addresses, val \in 1..2 :
       m' = [AvrWrite(m, addr, val) EXCEPT
               !.settings = @ + 1,
               !.wrote = IF addr \in PinOf THEN @ ELSE [@ EXCEPT ![addr] = val]]
-----------------------------------------------------------------------------
\* The MSP430.

WriteOut(s, val) ==
  LET out == val \ s.sel IN [s EXCEPT !.out = out, !.outup = Differ(s.out, out)]
WriteDir(s, val) == [s EXCEPT !.dir = val]
WriteSel(s, val) == [s EXCEPT !.sel = val]
WriteIes(s, val) == [s EXCEPT !.ies = val]
\* An interrupt enabled after its flag was set waits for the end of another one.
WriteIe(s, val) == [s EXCEPT !.ie = val, !.late = (@ \cup (val \ s.ie)) \cap s.ifg \cap val]
\* A flag the program sets is an interrupt of software.
WriteIfg(s, val) ==
  [s EXCEPT !.ifg = val, !.posted = @ \/ (val \ s.ifg # {} /\ s.ie \cap val # {}),
            !.late = @ \cap val, !.edges = @ \cap val, !.odd = (@ \cup (val \ s.ifg)) \cap val]

\* The devices of the pins of a mask drive them.
Edges(s, val, bitmask) ==
  ((s.in \cap bitmask \cap s.ies) \ val) \cup ((val \cap bitmask) \ (s.in \cup s.ies))
DevWrite(s, val, bitmask) ==
  LET ifg == IF s.kind = "port1" THEN Edges(s, val, bitmask) ELSE {}
  IN  [s EXCEPT !.in = (@ \ bitmask) \cup ((val \cap bitmask) \ s.dir),
                !.ifg = @ \cup ifg, !.posted = @ \/ s.ie \cap ifg # {}]

\* The lines of these pins change; the port knows neither an edge while the pin is an
\* output, nor from what level the line comes when it becomes an input again.
Drive(s, pins) ==
  [DevWrite(s, pins \ s.line, pins) EXCEPT
     !.line = Differ(@, pins),
     !.blind = (@ \ pins) \cup (pins \cap s.dir),
     !.odd = @ \cup (pins \cap (s.dir \cup s.blind)),
     !.edges = @ \cup {pin \in pins : (pin \in s.ies) = (pin \in s.line)}]

\* The board reads the outputs that have changed.
DevRead(s) == IF s.outup = {} THEN s ELSE [s EXCEPT !.seen = s.out]
UpdateDone(s) == [s EXCEPT !.outup = {}]

CheckIfg(s) == [s EXCEPT !.posted = @ \/ s.ifg \cap s.ie # {}, !.late = {}]
StartInterrupt(s) ==
  IF ~ s.posted \/ s.isr THEN s ELSE [s EXCEPT !.posted = FALSE, !.isr = TRUE]

\* What follows an instruction in a turn.
EndTurn(s, changed) ==
  StartInterrupt(UpdateDone(Drive(DevRead(s), changed)))

\* The reset of a key violation keeps the flags and forgets the vector.
Reset(s) == [s EXCEPT !.dir = {}, !.sel = {}, !.posted = FALSE, !.isr = FALSE, !.late = s.ifg \cap s.ie]

PortInit ==
  \E kind \in PortKinds :
    m = [kind |-> kind, settings |-> 0, regs |-> AvrReset, wrote |-> [a \in Addresses |-> 0],
         out |-> {}, dir |-> {}, sel |-> {}, in |-> {}, ie |-> {}, ies |-> {}, ifg |-> {}, outup |-> {},
         posted |-> FALSE, isr |-> FALSE, line |-> {}, seen |-> {},
         late |-> {}, edges |-> {}, odd |-> {}, blind |-> {}]

Turn(s) == \E t \in {s} : \E changed \in SUBSET Pins : m' = EndTurn(t, changed)
Is430 == m.kind # "avr"
PortNop == Is430 /\ Turn(m)
SetUpPort ==
  /\ Is430 /\ m.settings < MaxSettings
  /\ \E val \in SUBSET Pins, w \in {1, 2, 3, 4, 5} :
       Turn([CASE w = 1 -> WriteDir(m, val) [] w = 2 -> WriteSel(m, val) [] w = 3 -> WriteIes(m, val)
               [] w = 4 -> WriteIe(m, val) [] OTHER -> Reset(m) EXCEPT !.settings = @ + 1])
Output == Is430 /\ \E val \in SUBSET Pins : Turn(WriteOut(m, val))
Acknowledge == m.kind = "port1" /\ \E val \in SUBSET m.ifg : Turn(WriteIfg(m, val))
SoftInterrupt ==
  /\ m.kind = "port1" /\ m.settings < MaxSettings
  /\ \E val \in SUBSET Pins : Turn([WriteIfg(m, val) EXCEPT !.settings = @ + 1])
Return == m.isr /\ Turn(CheckIfg([m EXCEPT !.isr = FALSE]))
AvrOver == ~ Is430 /\ m.settings = MaxSettings /\ UNCHANGED m
PortNext ==
  PortNop \/ SetUpPort \/ Output \/ Acknowledge \/ SoftInterrupt \/ Return \/ AvrStore \/ AvrOver
-----------------------------------------------------------------------------

\* A flag whose interrupt is enabled is served, or will be at the end of an interrupt.
PortInterruptKept == (m.ifg \cap m.ie) \ m.late # {} => m.posted \/ m.isr

\* A flag tells of an edge of its line since it was cleared, and of nothing else; an input
\* is at the level of its line; the board has seen the outputs; and a register of the
\* ATmega holds what was written at its address.
PinsKept ==
  /\ m.kind = "port1" => \A pin \in Pins \ m.odd : pin \in m.ifg <=> pin \in m.edges
  /\ \A pin \in Pins \ (m.blind \cup m.dir) : pin \in m.in <=> pin \in m.line
  /\ m.seen = m.out
  /\ m.kind = "avr" => \A addr \in Addresses : AvrRead(m, addr) = m.wrote[addr]
=============================================================================
