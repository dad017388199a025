--------------------------------- MODULE Ds2411 --------------------------------
(***************************************************************************)
(* The serial number on its wire (devices/ds2411): the automata that tell  *)
(* a reset, the bits of a command and the bits of the answer by how long   *)
(* the wire is low, with the driver of the examples, which retries until   *)
(* the checksum is right.  A step is one instruction, or the time of a     *)
(* wait until something happens; times are in microseconds.                *)
(***************************************************************************)
EXTENDS Naturals, Sequences, Bitwise

CONSTANTS
  Ids,           \* serial numbers: sequences of bytes, the checksum last
  Wirings,       \* "follows": the wire is high when its pin is an input; "port": it has the bit of P2OUT
  Slack,         \* how much longer the waits of the driver last than it counts
  MaxUpsets      \* bound: interrupts that lengthen a wait or write another pin of the port

VARIABLE dev     \* the device, the pin, and the driver

Late == 45       \* how long an interrupt lasts
Retries == 5
-----------------------------------------------------------------------------
\* onewire_crc8_byte, in the device and in the driver.

Crc8(crc, byte) ==
  LET f[i \in 0..8] == IF i = 0 THEN crc ^^ byte
                       ELSE IF f[i - 1] % 2 = 1 THEN (f[i - 1] \div 2) ^^ 140 ELSE f[i - 1] \div 2
  IN  f[8]
CrcBytes(bytes) ==
  LET f[i \in 0..Len(bytes)] == IF i = 0 THEN 0 ELSE Crc8(f[i - 1], bytes[i]) IN f[Len(bytes)]
CheckCrc(id) == CrcBytes(SubSeq(id, 1, Len(id) - 1)) = id[Len(id)]
-----------------------------------------------------------------------------
\* The device.  Mask of a pin: the value from the MCU when it differs from the wire.

WireWrite(d, level) ==
  IF d.wire = level THEN d ELSE [d EXCEPT !.trans = level, !.write = TRUE, !.wire = level]

Pull(d, level) == [d EXCEPT !.read = TRUE, !.wire = level]
GoWaitReset(d) == [Pull(d, 1) EXCEPT !.lvl = "reset", !.rst = "wait"]
Enter(d) == [d EXCEPT !.age = 0]

UpdateReset(d) ==
  CASE d.rst = "wait" -> IF d.trans = 0 THEN [Enter(d) EXCEPT !.rst = "pulse"] ELSE d
    [] d.rst = "pulse" ->
         IF ~ (d.write /\ d.trans = 1) THEN d
         ELSE IF d.age < 480 \/ d.age > 660 THEN GoWaitReset(d)
         ELSE [Enter(d) EXCEPT !.rst = "presence"]
    [] d.rst = "presence" ->
         IF d.age > 6 /\ d.wire = 1 THEN [Enter(Pull(d, 0)) EXCEPT !.rst = "end"]
         ELSE IF d.wire # 1 THEN GoWaitReset(d) ELSE d
    [] d.rst = "end" ->
         IF d.age > 240 /\ d.wire = 0 THEN [Enter(Pull(d, 1)) EXCEPT !.rst = "rec"]
         ELSE IF d.wire # 0 THEN GoWaitReset(d) ELSE d
    [] OTHER ->
         IF d.age > 5 /\ d.wire = 1
         THEN [Enter(d) EXCEPT !.lvl = "command", !.rcmd = "init", !.rst = "wait"]
         ELSE IF d.wire # 1 THEN GoWaitReset(d) ELSE d

StartLow(d) == IF d.write /\ d.wire = 0 THEN [Enter(d) EXCEPT !.sig = "high"] ELSE d
ResetRequest(d) == [Enter(d) EXCEPT !.sig = "low", !.lvl = "reset", !.rst = "presence"]
EndSlot(d, bit) ==
  [Enter(d) EXCEPT !.sig = "endslot", !.remain = IF d.age < 70 THEN 70 - d.age ELSE 0, !.wbit = bit]

WriteSignal(d) ==
  CASE d.sig = "low" -> StartLow(d)
    [] d.sig = "high" ->
         IF ~ (d.write /\ d.wire = 1) THEN d
         ELSE IF d.age \in 4..15 THEN EndSlot(d, 1)
         ELSE IF d.age \in 60..120 THEN EndSlot(d, 0)
         ELSE IF d.age \in 480..660 THEN ResetRequest(d)
         ELSE GoWaitReset(d)
    [] d.sig = "endslot" ->
         IF d.age >= d.remain
         THEN [Enter(d) EXCEPT !.buf = @ + d.wbit * 2^d.bit, !.bit = @ + 1, !.sig = "low"] ELSE d
    [] OTHER -> d

UpdateCommand(d) ==
  LET e == WriteSignal(IF d.rcmd = "init"
                       THEN [d EXCEPT !.buf = 0, !.bit = 0, !.rcmd = "read", !.sig = "low"] ELSE d)
  IN  IF e.bit # 8 THEN e
      ELSE LET c == [e EXCEPT !.command = e.buf, !.bit = 0, !.rcmd = "init"]
           IN  IF e.buf = 51 THEN [c EXCEPT !.lvl = "device", !.rom = "init"] ELSE GoWaitReset(c)

ReadSignal(d) ==
  CASE d.sig = "low" -> StartLow(d)
    [] d.sig = "high" ->
         IF ~ (d.write /\ d.wire = 1) THEN d
         ELSE IF d.age \in 4..15 THEN [Enter(d) EXCEPT !.sig = "val", !.remain = 0, !.wbit = 1]
         ELSE IF d.age \in 480..660 THEN ResetRequest(d)
         ELSE GoWaitReset(d)
    [] d.sig = "val" ->
         IF d.age >= d.remain
         THEN LET bit == (d.buf \div 2^d.bit) % 2
              IN  [Enter(Pull(d, bit)) EXCEPT !.sig = "hold", !.wbit = bit]
         ELSE IF d.write THEN GoWaitReset(d) ELSE d
    [] d.sig = "hold" ->
         IF d.age >= 15
         THEN [(IF d.wbit # d.wire THEN GoWaitReset(d) ELSE IF d.wbit = 0 THEN Pull(d, 1) ELSE d)
                 EXCEPT !.sig = "recover"]
         ELSE IF d.write /\ d.wire # d.wbit THEN GoWaitReset(d) ELSE d
    [] d.sig = "recover" -> IF d.age >= 5 THEN [d EXCEPT !.bit = @ + 1, !.sig = "low"] ELSE d
    [] OTHER -> GoWaitReset(d)

ReadRom(d) ==
  LET e == ReadSignal(IF d.rom = "init"
                      THEN [d EXCEPT !.byte = 1, !.rom = "read", !.buf = d.id[1], !.bit = 0, !.sig = "low"] ELSE d)
  IN  IF e.bit # 8 THEN e
      ELSE IF e.byte < Len(e.id)
      THEN [e EXCEPT !.byte = @ + 1, !.buf = e.id[e.byte + 1], !.bit = 0, !.sig = "low"]
      ELSE GoWaitReset([e EXCEPT !.byte = 1])

UpdateState(d) == IF d.command = 51 THEN ReadRom(d) ELSE GoWaitReset(d)

TimesOut(d) == d.wire = 0 /\ d.age >= 660
Ds2411Update(d) ==
  IF ~ d.write /\ d.lvl = "reset" /\ d.rst = "wait" THEN d
  ELSE IF ~ d.write /\ TimesOut(d) THEN [d EXCEPT !.lvl = "reset", !.rst = "wait"]
  ELSE [(CASE d.lvl = "reset" -> UpdateReset(d) [] d.lvl = "command" -> UpdateCommand(d) [] OTHER -> UpdateState(d))
          EXCEPT !.write = FALSE]

\* When the device next does something by itself.
Deadline(d) ==
  CASE d.wire = 0 /\ ~ (d.lvl = "reset" /\ d.rst = "end") /\ ~ (d.lvl = "device" /\ d.sig = "hold") -> 660
    [] d.lvl = "reset" ->
         CASE d.rst = "presence" -> 7 [] d.rst = "end" -> 241 [] d.rst = "rec" -> 6 [] OTHER -> 0
    [] d.sig = "endslot" -> d.remain
    [] d.lvl = "device" /\ d.sig = "hold" -> 15
    [] d.lvl = "device" /\ d.sig = "recover" -> 5
    [] OTHER -> 0
-----------------------------------------------------------------------------
\* The board: the pin goes to the device, and the device's wire to the pin.

PinToWire(s, p2dir, updated) ==
  IF s.wiring = "port" THEN IF updated THEN [s EXCEPT !.ds = WireWrite(@, s.out)] ELSE s
  ELSE IF p2dir # s.dir THEN [s EXCEPT !.ds = WireWrite(@, IF s.dir = 1 THEN s.out ELSE 1)]
  ELSE IF s.dir = 1 /\ updated THEN [s EXCEPT !.ds = WireWrite(@, s.out)] ELSE s
WireToPin(s) ==
  IF s.ds.read THEN [s EXCEPT !.in = IF s.dir = 1 THEN 0 ELSE s.ds.wire, !.ds.read = FALSE] ELSE s

\* An instruction lasts a time, and the devices are updated after it.
Turn(s, op, time) ==
  LET t == [s EXCEPT !.dir = CASE op = "drive" -> 1 [] op = "free" -> 0 [] OTHER -> @,
                     !.out = CASE op = "set" -> 1 [] op = "clear" -> 0 [] OTHER -> @,
                     !.ds.age = IF @ + time < 661 THEN @ + time ELSE 661]
      u == WireToPin(PinToWire(t, s.dir, t.out # s.out \/ op = "other"))
  IN  [u EXCEPT !.ds = Ds2411Update(@)]
-----------------------------------------------------------------------------
\* The driver: what it does with the pin for a reset and for a bit.

I(op) == <<op, 1>>
Wait(n) == <<"wait", n + Slack>>
ResetPulse == <<I("drive"), I("clear"), Wait(480), I("set"), I("free"), Wait(70), I("sample"), Wait(410)>>
WriteBitOne == <<I("drive"), I("clear"), Wait(6), I("set"), Wait(64)>>
WriteBitZero == <<I("drive"), I("clear"), Wait(60), I("set"), Wait(10)>>
ReadBit == <<I("drive"), I("clear"), Wait(6), I("set"), I("free"), Wait(6), I("sample"), Wait(55)>>

Ds2411Init ==
  \E id \in Ids, wiring \in Wirings :
    dev = [wiring |-> wiring, out |-> 1, dir |-> 1, in |-> 0, upsets |-> 0, prog |-> ResetPulse,
           phase |-> "first", n |-> 0, byte |-> 0, crc |-> 0, got |-> <<>>, sampled |-> 1, retry |-> Retries,
           ds |-> [id |-> id, lvl |-> "reset", rst |-> "wait", rcmd |-> "init", rom |-> "init", sig |-> "low",
                   age |-> 0, buf |-> 0, bit |-> 0, byte |-> 1, command |-> 0, wbit |-> 0, remain |-> 0,
                   wire |-> 1, read |-> FALSE, write |-> FALSE, trans |-> 0]]

Least(a, b) == IF a < b THEN a ELSE b
Instruction ==
  /\ dev.prog # <<>>
  /\ LET op == Head(dev.prog)[1]
         left == Head(dev.prog)[2]
         next == IF Deadline(dev.ds) > dev.ds.age THEN Deadline(dev.ds) - dev.ds.age ELSE 1
         time == IF op = "wait" /\ Deadline(dev.ds) # 0 THEN Least(left, next) ELSE left
     IN  \E t \in {Turn(dev, op, time)} :
           dev' = [t EXCEPT !.prog = IF time < left THEN <<<<op, left - time>>>> \o Tail(@) ELSE Tail(@),
                            !.sampled = IF op = "sample" THEN dev.in ELSE @]

\* An interrupt: it lasts, and may write another pin of the port.
Upset ==
  /\ dev.upsets < MaxUpsets /\ dev.prog # <<>> /\ dev.phase # "first"
  /\ \/ /\ Head(dev.prog)[1] = "wait"
        /\ dev' = [dev EXCEPT !.prog = <<<<"wait", Head(dev.prog)[2] + Late>>>> \o Tail(dev.prog), !.upsets = @ + 1]
     \/ dev' = [Turn(dev, "other", 1) EXCEPT !.upsets = @ + 1]

Goto(phase, n, prog) == [dev EXCEPT !.phase = phase, !.n = n, !.prog = prog]
Retry ==
  IF dev.retry = 0 THEN [dev EXCEPT !.phase = "error"]
  ELSE [Goto("reset", 0, ResetPulse) EXCEPT !.retry = @ - 1]
CommandBit(n) == IF (51 \div 2^n) % 2 = 1 THEN WriteBitOne ELSE WriteBitZero

AfterReset ==
  /\ dev.prog = <<>> /\ dev.phase \in {"first", "reset"}
  /\ dev' = IF dev.phase = "reset" /\ dev.sampled = 0
            THEN [Goto("write", 0, CommandBit(0)) EXCEPT !.got = <<>>, !.crc = 0, !.byte = 0] ELSE Retry
AfterWrite ==
  /\ dev.prog = <<>> /\ dev.phase = "write"
  /\ dev' = IF dev.n < 7 THEN Goto("write", dev.n + 1, CommandBit(dev.n + 1)) ELSE Goto("read", 0, ReadBit)
AfterRead ==
  /\ dev.prog = <<>> /\ dev.phase = "read"
  /\ LET byte == dev.byte + dev.sampled * 2^dev.n
         got == Append(dev.got, byte)
         crc == Crc8(dev.crc, byte)
     IN  dev' = IF dev.n < 7 THEN [Goto("read", dev.n + 1, ReadBit) EXCEPT !.byte = byte]
                ELSE IF Len(got) < Len(dev.ds.id)
                THEN [Goto("read", 0, ReadBit) EXCEPT !.byte = 0, !.got = got, !.crc = crc]
                ELSE IF crc = 0 THEN [dev EXCEPT !.phase = "success", !.got = got, !.crc = 0]
                ELSE [Retry EXCEPT !.crc = crc]
Ds2411Over == dev.phase \in {"success", "error"} /\ dev.prog = <<>> /\ UNCHANGED dev

Ds2411Next == Instruction \/ Upset \/ AfterReset \/ AfterWrite \/ AfterRead \/ Ds2411Over
-----------------------------------------------------------------------------

\* What the driver takes for the serial number is the device's, when its checksum is
\* right or nothing happened to the wire; it gives up only when the checksum is wrong.
IdReads ==
  /\ dev.phase = "success" /\ (CheckCrc(dev.ds.id) \/ dev.upsets = 0) => dev.got = dev.ds.id
  /\ dev.phase = "error" => ~ CheckCrc(dev.ds.id) /\ dev.retry = 0

\* The device takes the command the driver writes and no other, unless it was disturbed.
CommandHeard == dev.phase = "read" /\ dev.upsets = 0 => dev.ds.command = 51 /\ dev.ds.lvl # "command"
=============================================================================
