------------------------------- MODULE Peripherals ------------------------------
(***************************************************************************)
(* The small devices of the boards, each with what its firmware does to    *)
(* it: the two character displays (devices/hd44780, devices/gdm1602a), the *)
(* thermometer (devices/ds1722), the accelerometer (devices/cma3000_spi),  *)
(* the pressure sensor (devices/scp1000_i2c), and the two devices that     *)
(* become the master of the bus (devices/spidev_master,                    *)
(* devices/spidev_dsp).  A step is a call of the board to a device, with   *)
(* what the board reads back and the update that follows.                  *)
(***************************************************************************)
EXTENDS Integers, Sequences, SequencesExt, FiniteSets

CONSTANTS
  Kinds,       \* which of the devices
  Texts,       \* what the firmware prints: sequences of operations on a display
  MaxOps,      \* bound: for each device, steps of its firmware
  Confs,       \* configurations written to the thermometer: sets of its bits
  Transfers,   \* exchanges with the pressure sensor: sequences of <<"read", register>>, <<"write", register, value>>
  Values       \* bytes sent to a device that sends them back

VARIABLE dev

None == -1
At(n, k) == (n \div 2^k) % 2
Least(a, b) == IF a < b THEN a ELSE b
-----------------------------------------------------------------------------
\* The displays.  Addresses are those of the chip: the second line begins at 64.

Columns == 16
RamChars == 40
Blank == 32
Clear == [l \in 0..1 |-> [c \in 0..(RamChars - 1) |-> Blank]]
Ddram(addr) == <<At(addr, 6), Least(addr - 64 * At(addr, 6), RamChars - 1)>>

\* case 067 is 55: what comes after the end of the second line is not its beginning.
ShiftAddr(addr, increment) ==
  IF increment THEN CASE addr = 39 -> 64 [] addr = 55 -> 0 [] OTHER -> (addr + 1) % 256
  ELSE CASE addr = 0 -> 103 [] addr = 64 -> 39 [] OTHER -> addr - 1

ShiftDisplay(d, increment) ==
  [d EXCEPT !.ram = [l \in 0..1 |-> [c \in 0..(RamChars - 1) |->
     IF increment THEN IF c = RamChars - 1 THEN Blank ELSE d.ram[l][c + 1]
     ELSE IF c # 0 THEN d.ram[l][c - 1] ELSE IF l = 0 THEN Blank ELSE d.ram[l][c]]]]

SetIdleTime(d, time) == [d EXCEPT !.busy = time]
ClearDisplay(d) ==
  [d EXCEPT !.ram = [l \in 0..1 |-> [c \in 0..(RamChars - 1) |-> IF c < Columns THEN Blank ELSE d.ram[l][c]]],
            !.addr = 0, !.increment = TRUE, !.draw = TRUE]

\* What a byte of the instruction register asks for.
DoCommand(d, byte) ==
  CASE At(byte, 7) = 1 -> SetIdleTime([d EXCEPT !.addr = byte % 128], 1)
    [] byte \in 64..127 -> SetIdleTime(d, 1)
    [] byte \in 32..63 -> SetIdleTime([d EXCEPT !.eight = At(byte, 4) = 1], 1)
    [] byte \in 16..31 ->
         SetIdleTime(IF At(byte, 3) = 1 THEN ShiftDisplay(d, At(byte, 2) = 1)
                     ELSE [d EXCEPT !.addr = ShiftAddr(@, At(byte, 2) = 1)], 1)
    [] byte \in 8..15 -> SetIdleTime([d EXCEPT !.on = At(byte, 2) = 1, !.draw = TRUE], 1)
    [] byte \in 4..7 -> SetIdleTime([d EXCEPT !.increment = At(byte, 1) = 1], 1)
    [] byte \in 2..3 -> SetIdleTime([d EXCEPT !.addr = 0, !.draw = TRUE], 2)
    [] byte = 1 -> SetIdleTime(ClearDisplay(d), 2)
    [] OTHER -> d

DoData(d, byte) ==
  LET cell == Ddram(d.addr)
  IN  [SetIdleTime(d, 1) EXCEPT !.ram[cell[1]][cell[2]] = byte, !.addr = ShiftAddr(@, d.increment), !.draw = TRUE]

Execute(d, rs, byte) == IF rs = 1 THEN DoData(d, byte) ELSE DoCommand(d, byte)
\* The gdm only complains of the functions it has not.
GdmCommand(d, byte) == IF byte \in 32..63 THEN SetIdleTime(d, 1) ELSE DoCommand(d, byte)

\* hd44_write_xR: the data lines fill a register, in two halves when the bus has four
\* lines; its lower four lines are not wired and stay at zero.
HdRegister(d) ==
  IF d.eight THEN Execute([d EXCEPT !.reg[d.rs] = 16 * d.data], d.rs, 16 * d.data)
  ELSE IF d.half
  THEN LET byte == 16 * (d.reg[d.rs] \div 16) + d.data
       IN  Execute([d EXCEPT !.reg[d.rs] = byte, !.half = FALSE], d.rs, byte)
  ELSE [d EXCEPT !.reg[d.rs] = 16 * d.data + (@ % 16), !.half = TRUE]

\* hd44_write and gdm_write: the falling edge of E is seen with the register and the
\* direction of the call before.  w is <<rs, rw, e, data>>; the board of the gdm
\* writes its data from another port, and its data lines after the others.
HdWrite(d, w) ==
  LET e == [d EXCEPT !.data = w[4]]
      x == IF d.enable = 1 /\ w[3] = 0 /\ d.rw = 0 THEN HdRegister(e) ELSE e
  IN  [x EXCEPT !.half = @ /\ w[2] = d.rw /\ w[1] = d.rs, !.rs = w[1], !.rw = w[2], !.enable = w[3]]
GdmWrite(d, w) ==
  LET x == IF d.enable # 1 \/ w[3] # 0 \/ d.rw # 0 THEN d
           ELSE IF d.rs = 1 THEN DoData(d, d.data) ELSE GdmCommand(d, d.data)
  IN  [x EXCEPT !.rs = w[1], !.rw = w[2], !.enable = w[3], !.data = w[4]]

\* hd44_read, gdm_read: the busy flag, or the character, when the direction is read.
DisplayRead(d) ==
  IF d.rw = 0 THEN None
  ELSE IF d.rs = 0 THEN (IF d.busy > 0 THEN 128 ELSE 0) + d.addr
  ELSE LET cell == Ddram(d.addr) IN d.ram[cell[1]][cell[2]]

Screen(ram) == [l \in 0..1 |-> [c \in 0..(Columns - 1) |-> ram[l][c]]]
UiDraw(d) == IF d.draw THEN [d EXCEPT !.draw = FALSE, !.drawn = IF d.on THEN Screen(d.ram) ELSE <<>>] ELSE d

HdReset ==
  [ram |-> [l \in 0..1 |-> [c \in 0..(RamChars - 1) |-> 0]], addr |-> 0, busy |-> 0,
   increment |-> TRUE, on |-> FALSE, eight |-> TRUE, half |-> FALSE, reg |-> [r \in 0..1 |-> 0],
   rs |-> 0, rw |-> 0, enable |-> 0, data |-> 0, draw |-> TRUE, drawn |-> <<>>]
GdmReset == [HdReset EXCEPT !.increment = FALSE]

\* The firmware: an operation is a register and a byte.
Byte(op) ==
  CASE op[1] = "char" -> <<1, op[2]>>
    [] op[1] = "at" -> <<0, 128 + 64 * op[2] + op[3]>>
    [] OTHER -> <<0, CASE op[1] = "clear" -> 1 [] op[1] = "home" -> 2 [] op[1] = "leftward" -> 4
                       [] op[1] = "rightward" -> 6 [] op[1] = "off" -> 8 [] op[1] = "on" -> 12
                       [] op[1] = "back" -> 16 [] op[1] = "forth" -> 20 [] op[1] = "scroll" -> 28 [] OTHER -> 24>>

\* _E, SEND_CHAR and SEND_CMD: the halves of a byte, high first.
Pulse(rs, nibble) == <<<<rs, 0, 1, nibble>>, <<rs, 0, 0, nibble>>>>
Nibbles(rs, byte) ==
  <<<<rs, 0, 0, byte \div 16>>>> \o Pulse(rs, byte \div 16) \o <<<<rs, 0, 0, byte % 16>>>> \o Pulse(rs, byte % 16)
InitLCD == Pulse(0, 3) \o Pulse(0, 3) \o Pulse(0, 3) \o Pulse(0, 2) \o Nibbles(0, 12) \o Nibbles(0, 1)
InitGdm == Pulse(0, 56) \o Pulse(0, 12) \o Pulse(0, 1)
Writing(kind, op) ==
  IF kind = "hd44780" THEN Nibbles(Byte(op)[1], Byte(op)[2])
  ELSE <<<<Byte(op)[1], 0, 0, Byte(op)[2]>>>> \o Pulse(Byte(op)[1], Byte(op)[2])

\* What the firmware means to have on the screen: where the next character goes, and
\* whether the display was scrolled or its last address passed.
Meant(m, op) ==
  LET next(l, c, by) ==
        IF by = 1 THEN IF c < RamChars - 1 THEN <<l, c + 1>> ELSE <<1 - l, 0>>
        ELSE IF c > 0 THEN <<l, c - 1>> ELSE <<1 - l, RamChars - 1>>
      moved(by) == [m EXCEPT !.at = next(m.at[1], m.at[2], by), !.lost = @ \/ (m.at = <<1, RamChars - 1>> /\ by = 1)]
  IN  CASE op[1] = "char" -> [moved(m.by) EXCEPT !.text[m.at[1]][m.at[2]] = op[2]]
        [] op[1] = "at" -> [m EXCEPT !.at = <<op[2], op[3]>>]
        [] op[1] = "home" -> [m EXCEPT !.at = <<0, 0>>]
        [] op[1] = "clear" -> [text |-> Clear, at |-> <<0, 0>>, by |-> 1, on |-> m.on, lost |-> FALSE]
        [] op[1] = "back" -> moved(-1)
        [] op[1] = "forth" -> moved(1)
        [] op[1] = "leftward" -> [m EXCEPT !.by = -1]
        [] op[1] = "rightward" -> [m EXCEPT !.by = 1]
        [] op[1] \in {"on", "off"} -> [m EXCEPT !.on = op[1] = "on"]
        [] OTHER -> [m EXCEPT !.lost = TRUE]

DisplayInit ==
  \E kind \in {"hd44780", "gdm1602a"} \cap Kinds, text \in Texts :
    dev = [d |-> UiDraw(IF kind = "hd44780" THEN HdReset ELSE GdmReset), kind |-> kind, left |-> text, ready |-> TRUE,
           prog |-> IF kind = "hd44780" THEN InitLCD ELSE InitGdm,
           meant |-> [text |-> Clear, at |-> <<0, 0>>, by |-> 1, on |-> TRUE, lost |-> FALSE]]

\* A write of the ports, the device read back, its update and its drawing.  The driver
\* of the hd44780 waits long enough after each of them; for the gdm the firmware polls.
DisplayPins ==
  /\ dev.prog # <<>> /\ dev.ready
  /\ \E d \in {IF dev.kind = "hd44780" THEN HdWrite(dev.d, Head(dev.prog)) ELSE GdmWrite(dev.d, Head(dev.prog))} :
       dev' = [dev EXCEPT !.d = UiDraw(IF dev.kind = "hd44780" THEN [d EXCEPT !.busy = 0] ELSE d),
                          !.prog = Tail(@), !.ready = ~ (dev.kind = "gdm1602a" /\ d.busy > 0)]
\* The firmware turns the direction to read, and back when it does not read busy.
DisplayPoll ==
  /\ ~ dev.ready
  /\ LET asks == GdmWrite(dev.d, <<0, 1, 0, dev.d.data>>)
         answer == DisplayRead(asks)
         later == [asks EXCEPT !.busy = IF @ = 0 THEN 0 ELSE @ - 1]
     IN  dev' = IF answer < 128 THEN [dev EXCEPT !.d = GdmWrite(asks, <<0, 0, 0, dev.d.data>>), !.ready = TRUE]
                ELSE [dev EXCEPT !.d = later]
DisplayNext ==
  /\ dev.prog = <<>> /\ dev.ready /\ dev.left # <<>>
  /\ dev' = [dev EXCEPT !.prog = Writing(dev.kind, Head(dev.left)), !.left = Tail(@), !.meant = Meant(@, Head(dev.left))]

Display == dev.kind \in {"hd44780", "gdm1602a"}
\* What is drawn is what the firmware printed, however the lines and the halves of the
\* bytes went, unless it scrolled the display or wrote past the end of the second line.
DisplayShows ==
  Display /\ dev.prog = <<>> /\ dev.ready /\ ~ dev.meant.lost =>
    dev.d.drawn = IF dev.meant.on THEN Screen(dev.meant.text) ELSE <<>>
-----------------------------------------------------------------------------
\* The thermometer.  A configuration is the number of its bits: 1 shutdown, 2 to 8
\* resolution, 16 one shot.

ReadConf == 0
ReadLsb == 1
ReadMsb == 2
WriteConf == 128
Dummy == 0
Lsb == 16
Msb == 25
Resolution(conf) == Least(8 + ((conf \div 2) % 8), 12)

Ds1722Reset ==
  [kind |-> "ds1722", cs |-> FALSE, conf |-> 3, command |-> None, readok |-> FALSE, readval |-> 0,
   start |-> FALSE, timer |-> 0, ops |-> 0,
   asked |-> None, nth |-> 0, byte |-> None, reply |-> None, wrote |-> 3]

Ds1722WriteConf(d, data) ==
  [d EXCEPT !.start = @ \/ (At(data, 0) = 0 /\ At(d.conf, 0) = 1)
                        \/ (At(data, 4) # At(d.conf, 4) /\ At(data, 0) = 1 /\ At(data, 4) = 1),
            !.conf = data]

Ds1722Select(d, on) ==
  IF on THEN [d EXCEPT !.cs = TRUE] ELSE [d EXCEPT !.cs = FALSE, !.command = None, !.readok = FALSE]

Ds1722Data(d, data) ==
  LET answer(val) == [d EXCEPT !.readok = TRUE, !.readval = val]
  IN  IF ~ d.cs THEN d
      ELSE IF d.command = None
      THEN IF data \in {ReadConf, ReadLsb, ReadMsb, WriteConf} THEN [answer(Dummy) EXCEPT !.command = data] ELSE d
      ELSE CASE d.command = ReadConf -> answer(d.conf)
             [] d.command = ReadLsb -> answer(Lsb)
             [] d.command = ReadMsb -> answer(Msb)
             [] d.command = WriteConf -> Ds1722WriteConf(answer(Dummy), data)

Ds1722Read(d) == IF d.cs /\ d.readok THEN [d EXCEPT !.readok = FALSE, !.reply = d.readval] ELSE d

\* The time goes on by a unit, or by none, before the update.
Ds1722Update(d, time) ==
  LET e == IF d.start THEN [d EXCEPT !.start = FALSE, !.timer = Resolution(d.conf) - 7]
           ELSE [d EXCEPT !.timer = IF @ > time THEN @ - time ELSE 0]
  IN  IF e.timer > 0 \/ At(e.conf, 0) = 1 THEN e
      ELSE [e EXCEPT !.start = TRUE, !.conf = IF At(@, 4) = 1 THEN @ - 16 ELSE @]

\* asked and nth: the byte that named an address since the chip was selected, and how many
\* followed it, itself included; byte: the one of this step; wrote: what the firmware wrote to the configuration.
Ds1722Turn(d, data, time) ==
  LET known == d.asked # None \/ data \in {ReadConf, ReadLsb, ReadMsb, WriteConf}
      e == IF data = None \/ ~ d.cs THEN [d EXCEPT !.reply = None, !.byte = None]
           ELSE [d EXCEPT !.reply = None, !.byte = data, !.nth = IF known THEN Least(@ + 1, 2) ELSE @,
                          !.asked = IF @ = None /\ known THEN data ELSE @,
                          !.wrote = IF d.asked = WriteConf THEN data ELSE @]
  IN  Ds1722Update(Ds1722Read(IF data = None THEN e ELSE Ds1722Data(e, data)), time)

Ds1722Step ==
  /\ dev.kind = "ds1722" /\ dev.ops < MaxOps[dev.kind]
  /\ LET d == [dev EXCEPT !.ops = @ + 1]
     IN  \/ dev' = Ds1722Turn(Ds1722Select(d, TRUE), None, 0)
         \/ dev' = Ds1722Turn([Ds1722Select(d, FALSE) EXCEPT !.asked = None, !.nth = 0], None, 0)
         \/ \E data \in {ReadConf, ReadLsb, ReadMsb, WriteConf} \cup Confs : dev' = Ds1722Turn(d, data, 0)
         \/ dev' = Ds1722Turn(d, None, 1)

\* Each byte is answered by what the first one of this selection asks for; a
\* configuration read is the last one written, apart from its one-shot bit.
TemperatureReads ==
  dev.kind = "ds1722" /\ dev.reply # None =>
    /\ dev.byte # None /\ dev.nth > 0
    /\ dev.reply = (IF dev.nth = 1 THEN Dummy
                    ELSE CASE dev.asked = ReadLsb -> Lsb [] dev.asked = ReadMsb -> Msb
                           [] dev.asked = WriteConf -> Dummy
                           [] OTHER -> IF At(dev.wrote, 0) = 0 /\ At(dev.reply, 4) = 0 /\ At(dev.wrote, 4) = 1
                                       THEN dev.wrote - 16 ELSE dev.wrote)
-----------------------------------------------------------------------------
\* The accelerometer: a byte names a register, the next one is answered by its value.

Cma3000Registers == [r \in 0..24 |-> CASE r = 1 -> 240 [] r = 6 -> 35 [] r = 7 -> 55 [] r = 8 -> 66 [] r = 9 -> 8
                                       [] r = 10 -> 51 [] r = 11 -> 8 [] r = 12 -> 28 [] OTHER -> 0]
Cma3000Create ==
  [kind |-> "cma3000", selected |-> FALSE, got |-> FALSE, state |-> 0, addr |-> 0, write |-> 0,
   registers |-> Cma3000Registers, ops |-> 0, first |-> None, reply |-> None, upset |-> FALSE]

\* The write bit is kept as 0 or 1, and 2 is what a write waits for.
Cma3000Data(d, data) ==
  IF d.state = 0 THEN [d EXCEPT !.got = TRUE, !.addr = data \div 4, !.write = At(data, 1)]
  ELSE [d EXCEPT !.got = TRUE, !.registers = IF d.write = 2 THEN [@ EXCEPT ![d.addr] = data] ELSE @]
Cma3000Read(d) ==
  IF ~ (d.selected /\ d.got) THEN [d EXCEPT !.reply = None]
  ELSE [d EXCEPT !.reply = IF d.state = 1 THEN d.registers[d.addr] ELSE 2 + 56 * At(d.registers[3], 3)]
Cma3000Update(d) == IF d.got THEN [d EXCEPT !.got = FALSE, !.state = 1 - @] ELSE d

\* The chip is selected or not, and bytes come on its bus for it or for another one;
\* upset: an exchange was left after its first byte, or the bus was used by another.
Cma3000Step ==
  /\ dev.kind = "cma3000" /\ dev.ops < MaxOps[dev.kind]
  /\ LET d == [dev EXCEPT !.ops = @ + 1]
     IN  \/ \E on \in BOOLEAN :
              dev' = Cma3000Update(Cma3000Read([d EXCEPT !.selected = on, !.first = IF on THEN @ ELSE None,
                                                         !.upset = @ \/ (~ on /\ d.first # None)]))
         \/ \E r \in 0..12 : \E data \in {4 * r, 4 * r + 2} :
              dev' = Cma3000Update(Cma3000Read([Cma3000Data(d, data) EXCEPT
                       !.upset = @ \/ ~ d.selected, !.first = IF @ = None THEN data ELSE None]))

\* The second byte of an exchange is answered by the register the first one names.
AccelerationReads ==
  dev.kind = "cma3000" /\ ~ dev.upset /\ dev.reply # None =>
    IF dev.first # None THEN dev.reply = 2 ELSE dev.reply = Cma3000Registers[dev.addr]
-----------------------------------------------------------------------------
\* The pressure sensor, two wires moved by the firmware one after the other.

Scp1000Registers ==
  [r \in {0, 31, 127, 128, 129, 130, 131} |-> CASE r = 0 -> 3 [] r = 31 -> 5 [] r = 127 -> 1 [] r = 128 -> 35
                                                [] r = 129 -> 69 [] r = 130 -> 103 [] OTHER -> 137]
Scp1000Create ==
  [kind |-> "scp1000", scl |-> 255, sda |-> 255, sclLast |-> 255, sdaLast |-> 255, state |-> "START_0", pos |-> 0,
   next |-> "CHIPADDR", tmp |-> 0, reg |-> 0, sends |-> FALSE, sdaSend |-> 0, registers |-> Scp1000Registers]

Rises(d) == d.sclLast = 0 /\ d.scl = 1
Falls(d) == d.sclLast = 1 /\ d.scl = 0
Shifted(d) == (2 * d.tmp + d.sda) % 256
Goes(d, state) == [d EXCEPT !.state = state]

\* A bit taken into tmp, or the eighth one and what it leads to.
TakeBit(d, after) ==
  IF ~ Rises(d) THEN d
  ELSE IF d.pos < 7 THEN [d EXCEPT !.tmp = Shifted(d), !.pos = @ + 1]
  ELSE [after EXCEPT !.tmp = 0, !.pos = 0, !.state = "SENDACK_0"]
ChipAddr(d) == TakeBit(d, [d EXCEPT !.next = IF d.sda = 1 THEN "SENDDATA" ELSE "REGADDR"])
RegAddr(d) ==
  TakeBit(d, [d EXCEPT !.reg = IF Shifted(d) = 129 THEN 130 ELSE Shifted(d), !.next = "FIRST_0"])
WriteReg(d) == TakeBit(d, [d EXCEPT !.registers[d.reg] = Shifted(d), !.next = "STOP_0"])

SendBit(d) ==
  IF ~ Rises(d) THEN d
  ELSE LET e == [d EXCEPT !.sends = TRUE, !.sdaSend = At(d.registers[d.reg], 7 - d.pos)]
       IN  IF d.pos < 7 THEN [e EXCEPT !.pos = @ + 1] ELSE [e EXCEPT !.tmp = 0, !.pos = 0, !.state = "SENDEND"]

FirstBit(d) ==
  CASE d.scl = 0 -> [d EXCEPT !.tmp = d.sdaLast, !.pos = 1, !.state = "WRITEREG"]
    [] d.sda = 0 /\ d.sdaLast = 1 -> [d EXCEPT !.next = "CHIPADDR", !.state = "START_1"]
    [] OTHER -> d

Released(d, state) == IF Falls(d) THEN [d EXCEPT !.sends = FALSE, !.sdaSend = 1, !.state = state] ELSE d
Scp1000Step(d) ==
  CASE d.state = "START_0" -> IF d.scl = 1 /\ d.sda = 1 THEN Goes(d, "START_1") ELSE d
    [] d.state = "START_1" ->
         IF d.scl = 1 /\ d.sda = 0 THEN Goes(d, d.next) ELSE IF d.scl = 0 THEN Goes(d, "START_0") ELSE d
    [] d.state = "CHIPADDR" -> ChipAddr(d)
    [] d.state = "SENDACK_0" -> IF Rises(d) THEN [Goes(d, "SENDACK_1") EXCEPT !.sends = TRUE, !.sdaSend = 0] ELSE d
    [] d.state = "SENDACK_1" -> Released(d, d.next)
    [] d.state = "REGADDR" -> RegAddr(d)
    [] d.state = "FIRST_0" -> IF Rises(d) THEN Goes(d, "FIRST_1") ELSE d
    [] d.state = "FIRST_1" -> FirstBit(d)
    [] d.state = "WRITEREG" -> WriteReg(d)
    [] d.state = "STOP_0" -> IF Rises(d) /\ d.sda = 0 THEN Goes(d, "STOP_1") ELSE d
    [] d.state = "STOP_1" ->
         IF d.scl = 1 /\ d.sda = 1 THEN [Goes(d, "START_0") EXCEPT !.next = "CHIPADDR"] ELSE d
    [] d.state = "SENDDATA" -> SendBit(d)
    [] d.state = "SENDEND" -> Released(d, "XACK")
    [] d.state = "XACK" ->
         IF ~ Rises(d) THEN d
         ELSE IF d.sda = 1 THEN Goes(d, "NACK_0") ELSE [Goes(d, "ACK_0") EXCEPT !.reg = @ + 1]
    [] d.state = "NACK_0" -> IF Falls(d) THEN [Goes(d, "STOP_0") EXCEPT !.next = "CHIPADDR"] ELSE d
    [] d.state = "ACK_0" -> IF Falls(d) THEN Goes(d, "SENDDATA") ELSE d
Scp1000Update(d) == [Scp1000Step(d) EXCEPT !.sclLast = d.scl, !.sdaLast = d.sda]

\* The firmware: levels of the clock and of the data, 2 where it has freed the data and
\* samples it while the clock is high.
Bit(b) == <<<<0, b>>, <<1, b>>, <<0, b>>>>
Sample == <<<<0, 1>>, <<1, 1>>, <<2, 1>>, <<0, 1>>>>
ByteOut(byte) == FlattenSeq([i \in 1..8 |-> Bit(At(byte, 8 - i))]) \o Sample
ByteIn == FlattenSeq([i \in 1..8 |-> Sample])
Start == <<<<1, 1>>, <<1, 0>>, <<0, 0>>>>
Stop == <<<<0, 0>>, <<1, 0>>, <<1, 1>>>>
Exchange(t) ==
  Start \o ByteOut(34) \o ByteOut(t[2])
    \o (IF t[1] = "write" THEN ByteOut(t[3]) \o Stop
        ELSE <<<<0, 1>>>> \o Start \o ByteOut(35) \o ByteIn
               \o (IF t[1] = "read" THEN Bit(1) ELSE Bit(0) \o ByteIn \o Bit(1)) \o Stop)

Scp1000Init ==
  \E t \in Transfers :
    dev = [kind |-> "scp1000", d |-> Scp1000Create, left |-> t, wires |-> <<>>, samples |-> <<>>, stored |-> Scp1000Registers]

\* Two instructions at least pass between two changes of the wires.
Scp1000Wires ==
  /\ dev.kind = "scp1000" /\ dev.wires # <<>>
  /\ LET w == Head(dev.wires)
         set == IF w[1] = 2 THEN dev.d ELSE [dev.d EXCEPT !.scl = w[1], !.sda = w[2]]
     IN  dev' = [dev EXCEPT !.d = Scp1000Update(Scp1000Update(set)), !.wires = Tail(@),
                            !.samples = IF w[1] = 2 THEN Append(@, IF dev.d.sends THEN dev.d.sdaSend ELSE 1) ELSE @]
Scp1000Next ==
  /\ dev.kind = "scp1000" /\ dev.wires = <<>> /\ dev.left # <<>>
  /\ LET t == Head(dev.left)
     IN  dev' = [dev EXCEPT !.left = Tail(@), !.wires = Exchange(t), !.samples = <<t>>,
                            !.stored = IF t[1] = "write" THEN [@ EXCEPT ![t[2]] = t[3]] ELSE @]

Number(bits) == FoldLeft(LAMBDA n, b : 2 * n + b, 0, bits)
\* Each byte of the firmware is acknowledged, and what it reads is what the register
\* named holds, or the one after it, with what was written; 129 is read as 130.
PressureReads ==
  dev.kind = "scp1000" /\ dev.wires = <<>> /\ dev.samples # <<>> =>
    LET t == Head(dev.samples)
        heard == Tail(dev.samples)
        reg == IF t[2] = 129 THEN 130 ELSE t[2]
    IN  /\ \A i \in 1..3 : heard[i] = 0
        /\ t[1] # "write" => Number(SubSeq(heard, 4, 11)) = dev.stored[reg]
        /\ t[1] = "both" => Number(SubSeq(heard, 12, 19)) = dev.stored[reg + 1]
\* What the firmware writes is in the register it names, and in no other.
PressureWrites == dev.kind = "scp1000" /\ dev.wires = <<>> => dev.d.registers = dev.stored
-----------------------------------------------------------------------------
\* A device that keeps what it is sent, and sends it back when it becomes the master.

WaitForTx == 3       \* updates before it sends again
Lag == 2             \* time that a byte takes
SpiTableSize == 4
SpiMasterCreate ==
  [kind |-> "spidev_master", master |-> FALSE, table |-> [i \in 0..SpiTableSize |-> 0], index |-> 0, max |-> 0,
   val |-> 0, ready |-> FALSE, temp |-> 0, sending |-> FALSE, age |-> 0, wait |-> WaitForTx,
   ops |-> 0, sent |-> <<>>, got |-> <<>>, echo |-> None, cut |-> FALSE]

SpiMasterMode(d, master) ==
  IF master THEN [d EXCEPT !.master = TRUE, !.max = d.index] ELSE [d EXCEPT !.master = FALSE, !.max = 0, !.index = 0]
FillTab(d, byte) ==
  IF d.master THEN d
  ELSE [d EXCEPT !.val = byte, !.ready = TRUE, !.table[d.index] = byte, !.index = @ + 1]
SpiMasterRead(d) ==
  IF ~ d.ready THEN [d EXCEPT !.echo = None]
  ELSE [d EXCEPT !.ready = FALSE, !.got = IF d.master THEN Append(@, d.val) ELSE @,
                 !.echo = IF d.master THEN None ELSE d.val]

TxEnd(d) == [d EXCEPT !.val = d.temp, !.ready = TRUE, !.sending = FALSE, !.wait = WaitForTx]
TxStart(d) ==
  [d EXCEPT !.temp = d.table[d.max - d.index], !.sending = TRUE, !.age = 0, !.index = IF @ > 0 THEN @ - 1 ELSE 0]
SpiMasterUpdate(d, time) ==
  LET e == [d EXCEPT !.wait = IF @ > 0 THEN @ - 1 ELSE 0, !.age = Least(@ + time, Lag)]
  IN  IF ~ d.master THEN e
      ELSE IF e.sending THEN IF e.age >= Lag THEN TxEnd(e) ELSE e
      ELSE IF e.wait = 0 THEN TxStart(e) ELSE e

\* The firmware sends, turns the device to master once it has sent something and back;
\* cut: it turned it back while a byte was leaving, or the device sent them all.
SpiMasterStep ==
  /\ dev.kind = "spidev_master" /\ dev.ops < MaxOps[dev.kind]
  /\ LET d == [dev EXCEPT !.ops = @ + 1]
         Turn(e, time) == SpiMasterUpdate(SpiMasterRead(e), time)
     IN  \/ \E b \in Values :
              /\ ~ d.master /\ Len(d.sent) < SpiTableSize
              /\ dev' = Turn([FillTab(d, b) EXCEPT !.sent = Append(@, b)], 0)
         \/ ~ d.master /\ d.sent # <<>> /\ dev' = Turn(SpiMasterMode([d EXCEPT !.got = <<>>], TRUE), 0)
         \/ d.master /\ dev' = Turn(SpiMasterMode([d EXCEPT !.sent = <<>>, !.cut = d.sending \/ d.ready], FALSE), 0)
         \/ \E time \in {0, 1, 3} : dev' = Turn(d, time)

\* What comes back is what was sent, in order; a byte is echoed when it is sent.
SentBack ==
  dev.kind = "spidev_master" =>
    /\ dev.master /\ ~ dev.cut => IsPrefix(SubSeq(dev.got, 1, Least(Len(dev.got), Len(dev.sent))), dev.sent)
    /\ ~ dev.master /\ ~ dev.cut /\ dev.echo # None => dev.echo = Last(dev.sent)
-----------------------------------------------------------------------------
\* The signal processor: it works by periods when it is the master, and at the end of
\* its long one it sends four of the bytes it was given.

Events == {1, 2}
Period == <<3, 7>>
Duration == <<1, 2>>
StartDelta == 1
OutputBytes == 4
DspMemSize == 3
DspReset ==
  [kind |-> "spidev_dsp", active |-> FALSE, data |-> [i \in 0..(DspMemSize - 1) |-> 0], index |-> 0, max |-> 0,
   output |-> 0, etrace |-> 0, begins |-> 0, start |-> <<0, 0>>, end |-> <<0, 0>>,
   wval |-> None, rval |-> 0, out |-> None, next |-> 0, sending |-> FALSE, left |-> 0, exited |-> FALSE,
   ops |-> 0, given |-> <<>>, got |-> <<>>, echo |-> None, before |-> 0, cut |-> FALSE]

\* mydsp_mode and mydsp_init_fsm; times are how long there is to wait.
DspMode(d, active) ==
  IF d.active = active THEN d
  ELSE IF ~ active THEN [d EXCEPT !.active = FALSE, !.index = 0]
  ELSE [d EXCEPT !.active = TRUE, !.max = d.index, !.index = 0, !.begins = StartDelta, !.output = 0,
                 !.start = [i \in Events |-> StartDelta + Period[i]],
                 !.end = [i \in Events |-> StartDelta + Period[i] + Duration[i]]]

DspWrite(d, byte) ==
  IF d.active THEN d ELSE [d EXCEPT !.data[d.index] = byte, !.index = (@ + 1) % DspMemSize]

\* mydsp_update: at most one start and one end of each event, then a byte to send; the
\* remainder by the number of bytes given ends the program when there are none.
DspEvents(d) ==
  LET starts == {i \in Events : d.start[i] <= 0}
      ends == {i \in Events : d.end[i] <= 0}
  IN  [d EXCEPT !.start = [i \in Events |-> IF i \in starts THEN @[i] + Period[i] ELSE @[i]],
                !.end = [i \in Events |-> IF i \in ends THEN @[i] + Period[i] ELSE @[i]],
                !.etrace = @ + Cardinality(starts) - Cardinality(ends),
                !.output = IF 2 \in ends THEN OutputBytes ELSE @]
DspOutput(d) ==
  IF d.sending \/ d.output = 0 THEN d
  ELSE IF d.max = 0 THEN [d EXCEPT !.exited = TRUE]
  ELSE [d EXCEPT !.next = d.data[d.index], !.index = (@ + 1) % d.max, !.output = @ - 1, !.sending = TRUE, !.left = Lag]
DspWork(d) == IF d.begins > 0 THEN d ELSE DspOutput(DspEvents(d))

DspTransmit(d) == IF d.sending /\ d.left = 0 THEN [d EXCEPT !.out = d.next, !.sending = FALSE] ELSE d
DspUpdate(d) ==
  LET e == IF d.active THEN DspWork(DspTransmit(d)) ELSE IF d.wval # None THEN DspWrite(d, d.wval) ELSE d
  IN  [e EXCEPT !.rval = IF d.wval # None THEN d.wval ELSE @, !.wval = None]
DspRead(d) ==
  [d EXCEPT !.echo = IF d.wval # None THEN d.rval ELSE None,
            !.got = IF d.out # None THEN Append(@, d.out) ELSE @, !.out = None]

Passes(d, time) ==
  IF ~ d.active THEN [d EXCEPT !.left = IF @ > time THEN @ - time ELSE 0]
  ELSE [d EXCEPT !.left = IF @ > time THEN @ - time ELSE 0, !.begins = IF @ > time THEN @ - time ELSE 0,
                 !.start = [i \in Events |-> @[i] - time], !.end = [i \in Events |-> @[i] - time]]

\* The firmware gives bytes, makes the processor work and stops it; time passes, up to a
\* long sleep.  cut: it was stopped while it worked or sent.
DspStep ==
  /\ dev.kind = "spidev_dsp" /\ dev.ops < MaxOps[dev.kind] /\ ~ dev.exited
  /\ LET d == [dev EXCEPT !.ops = @ + 1]
         Turn(e) == DspUpdate(DspRead(e))
     IN  \/ \E b \in Values :
              dev' = Turn([d EXCEPT !.wval = b, !.before = d.rval,
                                    !.given = IF d.active THEN @ ELSE Append(@, b)])
         \/ /\ ~ d.active
            /\ dev' = Turn(DspMode([d EXCEPT !.got = <<>>], TRUE))
         \/ /\ d.active
            /\ dev' = Turn(DspMode([d EXCEPT !.given = <<>>, !.cut = @ \/ d.etrace > 0 \/ d.sending], FALSE))
         \/ \E time \in {1, 4} : dev' = Turn(Passes(d, time))

\* What the processor sends is what it was given since it last worked, over and over,
\* and on its slave side each byte is answered by the one before it.
ProcessorSends ==
  dev.kind = "spidev_dsp" =>
    /\ dev.active /\ ~ dev.cut /\ Len(dev.given) \in 1..(DspMemSize - 1) =>
         \A i \in 1..Len(dev.got) : dev.got[i] = dev.given[((i - 1) % Len(dev.given)) + 1]
    /\ dev.echo # None => dev.echo = dev.before
    /\ dev.exited => Len(dev.given) \in {0, DspMemSize, 2 * DspMemSize}
\* The processor is accounted as working exactly while one of its events lasts.
ProcessorWorks ==
  dev.kind = "spidev_dsp" /\ dev.active /\ ~ dev.cut =>
    dev.etrace = Cardinality({i \in Events : dev.end[i] < dev.start[i]})
-----------------------------------------------------------------------------
PeripheralInit ==
  \/ DisplayInit
  \/ "scp1000" \in Kinds /\ Scp1000Init
  \/ dev \in {Ds1722Reset, Cma3000Create, SpiMasterCreate, DspReset} /\ dev.kind \in Kinds

PeripheralNext ==
  \/ Display /\ (DisplayPins \/ DisplayPoll \/ DisplayNext)
  \/ Ds1722Step \/ Cma3000Step \/ Scp1000Wires \/ Scp1000Next \/ SpiMasterStep \/ DspStep

\* What a device gives is what the firmware asked for, and what a display shows or a
\* device keeps is what the firmware wrote.
PeripheralReads == TemperatureReads /\ AccelerationReads /\ PressureReads /\ SentBack /\ ProcessorSends
PeripheralWrites == DisplayShows /\ PressureWrites /\ ProcessorWorks
=============================================================================
