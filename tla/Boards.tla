--------------------------------- MODULE Boards --------------------------------
(***************************************************************************)
(* The boards: what devices_update does after each instruction, carrying   *)
(* the pins of the ports and the bytes of the serial units between the     *)
(* MCU and the devices, with the firmware that uses them.  A pin is ten    *)
(* times its port plus its bit (42 is P4.2; the tenth port is PJ), a line  *)
(* of a device is its device, its name and its number.  What the devices   *)
(* answer is in their own modules: here an answer is its device's name.    *)
(***************************************************************************)
EXTENDS Naturals, Sequences, FiniteSets

CONSTANTS
  BoardNames,    \* the boards among those below
  MaxBytes       \* bound: bytes the firmware and the devices exchange, and buttons

VARIABLE dev     \* machine.device[] of the board, its ports and serial units, its firmware

-----------------------------------------------------------------------------
\* What a port drives: pin, line, whether the line is at the level of the pin.

W(pin, device, line) == <<pin, <<device, line, 0>>, TRUE>>
Leds(pins) == {<<p, <<"led", "", p>>, FALSE>> : p \in pins}
LedsUp(pins) == {<<p, <<"led", "", p>>, TRUE>> : p \in pins}
Lcd(pins) == {<<p, <<"lcd", "", p>>, TRUE>> : p \in pins}

SenslabOut == {W(12, "flash", "w"), W(24, "ds2411", "d"), W(47, "flash", "h"), W(44, "flash", "s"),
               W(43, "ds1722", "cs"), W(42, "radio", "csn")} \cup Leds({54, 55, 56})
Senslab14Out == SenslabOut \cup {W(17, "radio", "reset"), W(30, "radio", "vreg")}
TelosbOut == {W(12, "flash", "w"), W(47, "flash", "h"), W(44, "flash", "s"), W(42, "radio", "csn"),
              W(45, "radio", "vreg"), W(46, "radio", "reset")} \cup Leds({54, 55, 56})
Wsn430Out == {W(12, "flash", "w"), W(24, "ds2411", "d"), W(47, "flash", "h"), W(44, "flash", "s"), W(42, "radio", "csn")}
             \cup Leds({54, 55, 56})
WisenodeOut == {W(45, "flash", "w"), W(46, "flash", "s"), W(47, "flash", "h"), W(42, "radio", "csn")}
               \cup Leds({54, 55, 56, 57})
IclbsnOut == {W(43, "flash", "r"), W(43, "flash", "w"), W(44, "flash", "s"), W(42, "radio", "csn"),
              W(45, "radio", "vreg"), W(46, "radio", "reset")} \cup Leds({54, 55, 56})
WaspOut == IclbsnOut
MosarOut == {W(47, "flash", "h"), W(44, "flash", "s"), W(42, "radio", "csn")} \cup Leds({10, 11})
WaspxOut == {W(47, "dsp", "s"), W(46, "dsp", "m"), W(45, "dsp", "w")} \cup LedsUp(60..67)
PowwowOut == LedsUp(10..13)
OtsetreOut ==
  {W(22, "lcd", "rs"), W(23, "lcd", "e")} \cup Lcd(24..27)
  \cup Leds({21}) \cup {<<61, <<"led", "", 9>>, FALSE>>, <<61, <<"led", "", 10>>, TRUE>>}
Ot2006Out ==
  {W(65, "lcd", "e"), W(66, "lcd", "rs"), W(67, "lcd", "rw")} \cup Lcd(50..57) \cup LedsUp(40..47)
Ez430Out == LedsUp({10})
Ez430rfOut == {W(30, "radio", "csn")} \cup Leds({10, 11})
ChronosOut == {W(101, "cma3000", "csb"), W(102, "scp1000", "sda"), W(103, "scp1000", "scl")} \cup Leds({17})
Test1Out == LedsUp(10..17)
Test2Out == {W(47, "spidev", "s"), W(45, "spidev", "w")} \cup LedsUp(50..57)
Test3Out == Test2Out \cup {W(46, "spidev", "m")}

Out == [senslab13 |-> SenslabOut, senslab14 |-> Senslab14Out, telosb |-> TelosbOut, wsn430 |-> Wsn430Out,
  wisenode |-> WisenodeOut, iclbsn |-> IclbsnOut, wasp |-> WaspOut, mosar |-> MosarOut, waspx |-> WaspxOut,
  powwow |-> PowwowOut, otsetre |-> OtsetreOut, ot2006 |-> Ot2006Out, ez430 |-> Ez430Out,
  ez430rf |-> Ez430rfOut, chronos |-> ChronosOut, test1 |-> Test1Out, test2 |-> Test2Out, test3 |-> Test3Out]
-----------------------------------------------------------------------------
\* The serial units: the devices that get the bytes of each, the unit each one answers
\* on, and the serial ports, by unit, of the MCU.

Bus(spi, answers, uart) == [spi |-> spi, answers |-> answers, uart |-> uart]
NoSpi == [u \in {} |-> {}]

SenslabBus == Bus([usart1 |-> {"flash", "ds1722", "radio"}],
                  [flash |-> "usart1", ds1722 |-> "usart1", radio |-> "usart1"], {"usart0"})
TelosbBus == Bus([usart0 |-> {"flash", "radio"}], [flash |-> "usart0", radio |-> "usart0"], {"usart1"})
Wsn430Bus == Bus([usart0 |-> {"radio"}, usart1 |-> {"flash"}], [flash |-> "usart1", radio |-> "usart0"], {"usart1"})
\* The flash hears usart0 and answers on usart1.
WisenodeBus == Bus([usart0 |-> {"flash", "radio"}], [flash |-> "usart1", radio |-> "usart0"], {"usart1"})
IclbsnBus == Bus([usart0 |-> {"flash", "radio"}], [flash |-> "usart0", radio |-> "usart0"], {"usart1"})
WaspBus == IclbsnBus
\* Nothing reads usart1.
MosarBus == [spi |-> [usart0 |-> {"radio"}], answers |-> [flash |-> "usart1", radio |-> "usart0"], uart |-> {}]
WaspxBus == Bus([usart0 |-> {"dsp"}], [dsp |-> "usart0"], {})
PowwowBus == Bus(NoSpi, NoSpi, {"usart0", "usart1"})
OtsetreBus == Bus(NoSpi, NoSpi, {"usart0"})
Ez430rfBus == Bus([uscib0 |-> {"radio"}], [radio |-> "uscib0"], {"uscia0"})
ChronosBus == Bus([uscib0 |-> {"cma3000"}], [cma3000 |-> "uscib0"], {})
Test1Bus == Bus(NoSpi, NoSpi, {"usart0", "usart1"})
Test2Bus == Bus(NoSpi, NoSpi, {"usart0", "usart1"})
Test3Bus == Bus([usart0 |-> {"spidev"}], [spidev |-> "usart0"], {"usart0", "usart1"})

Serial == [senslab13 |-> SenslabBus, senslab14 |-> SenslabBus, telosb |-> TelosbBus, wsn430 |-> Wsn430Bus,
  wisenode |-> WisenodeBus, iclbsn |-> IclbsnBus, wasp |-> WaspBus, mosar |-> MosarBus, waspx |-> WaspxBus,
  powwow |-> PowwowBus, otsetre |-> OtsetreBus, ot2006 |-> OtsetreBus, ez430 |-> Bus(NoSpi, NoSpi, {}),
  ez430rf |-> Ez430rfBus, chronos |-> ChronosBus, test1 |-> Test1Bus, test2 |-> Test2Bus, test3 |-> Test3Bus]
-----------------------------------------------------------------------------
\* The lines of the devices a port sees, and the pins of the buttons: pin, level of a
\* button that is pressed, level when it is released (or "same").

Senslab13In == {<<14, "gdo2">>, <<13, "gdo0">>, <<24, "ds2411">>}
Senslab14In == {<<14, "fifop">>, <<13, "fifo">>, <<15, "sfd">>, <<16, "cca">>, <<24, "ds2411">>}
TelosbIn == {<<10, "fifop">>, <<13, "fifo">>, <<41, "sfd">>, <<14, "cca">>, <<24, "ds2411">>}
Wsn430In == {<<32, "so">>, <<14, "gdo2">>, <<13, "gdo0">>, <<24, "ds2411">>}
WisenodeIn == {<<32, "so">>, <<14, "gdo2">>, <<13, "gdo0">>}
IclbsnIn == {<<10, "fifop">>, <<13, "fifo">>, <<41, "sfd">>, <<14, "cca">>}
WaspIn == IclbsnIn
MosarIn == {<<14, "gdo2">>, <<13, "gdo0">>}
OtsetreIn == {<<p, "lcd">> : p \in 24..27}
Ot2006In == {<<p, "lcd">> : p \in 50..57}
Ez430rfIn == {<<27, "gdo2">>, <<26, "gdo0">>}
ChronosIn == {<<25, "int">>, <<26, "drdy">>, <<102, "sda">>}
ChronosInverts == {"int", "drdy"}

In == [senslab13 |-> Senslab13In, senslab14 |-> Senslab14In, telosb |-> TelosbIn, wsn430 |-> Wsn430In,
  wisenode |-> WisenodeIn, iclbsn |-> IclbsnIn, wasp |-> WaspIn, mosar |-> MosarIn, waspx |-> {},
  powwow |-> {}, otsetre |-> OtsetreIn, ot2006 |-> Ot2006In, ez430 |-> {}, ez430rf |-> Ez430rfIn,
  chronos |-> ChronosIn, test1 |-> {}, test2 |-> {}, test3 |-> {}]

\* An event of the interface writes the pins of all the buttons that are down.
WisenodeButtons(down) == {27, 26} \ down
OtsetreButtons(down) == ({44, 45, 46, 47} \ down) \cup (IF down = {} THEN {17} ELSE {})
PowwowButtons(down) == {16, 17} \ down
Ot2006Buttons(down) == {10, 11, 12, 13} \cap down
ChronosButtons(down) == {20, 21, 22, 23, 24} \cap down
PressedHigh == {"ot2006", "chronos"}
\* Pressed only: the mask of the release has no bit in a port.
Ez430rfButtons(down, in) == IF down = {} THEN in \cap {12} ELSE {}
ButtonPins ==
  [b \in DOMAIN Out |->
    CASE b = "wisenode" -> {26, 27} [] b = "otsetre" -> {44, 45, 46, 47} [] b = "powwow" -> {16, 17}
      [] b = "ot2006" -> {10, 11, 12, 13} [] b = "chronos" -> {20, 21, 22, 23, 24} [] b = "ez430rf" -> {12}
      [] OTHER -> {}]
ButtonsTo(b) == ButtonPins[b] \cup (IF b = "otsetre" THEN {17} ELSE {})
Buttons(b, down, in) ==
  CASE b = "wisenode" -> WisenodeButtons(down) [] b = "otsetre" -> OtsetreButtons(down)
    [] b = "powwow" -> PowwowButtons(down) [] b = "ot2006" -> Ot2006Buttons(down)
    [] b = "chronos" -> ChronosButtons(down) [] OTHER -> Ez430rfButtons(down, in)
-----------------------------------------------------------------------------
\* The devices each board has created and given a part of the state that is saved.

SenslabDevices == {"flash", "led", "ds1722", "ds2411", "radio", "serial"}
TelosbDevices == {"led", "flash", "ds2411", "radio", "serial"}
Wsn430Devices == {"flash", "led", "ds2411", "radio", "serial"}
WisenodeDevices == {"flash", "led", "radio", "serial"}
IclbsnDevices == {"led", "flash", "radio", "serial"}
WaspDevices == IclbsnDevices
MosarDevices == {"flash", "led", "radio", "serial"}
WaspxDevices == {"led", "dsp"}
PowwowDevices == {"led", "radio", "serial"}
OtsetreDevices == {"led", "lcd", "serial", "bargraph"}
Ot2006Devices == {"7seg", "led", "lcd", "serial"}
Ez430Devices == {"led"}
Ez430rfDevices == {"led", "radio", "serial"}
ChronosDevices == {"led", "cma3000", "scp1000", "lcd"}
Test1Devices == {"led", "serial"}
Test2Devices == {"led", "serial", "spidev"}
Test3Devices == {"led", "serial", "spidev"}

Devices == [senslab13 |-> SenslabDevices, senslab14 |-> SenslabDevices, telosb |-> TelosbDevices,
  wsn430 |-> Wsn430Devices, wisenode |-> WisenodeDevices, iclbsn |-> IclbsnDevices, wasp |-> WaspDevices,
  mosar |-> MosarDevices, waspx |-> WaspxDevices, powwow |-> PowwowDevices, otsetre |-> OtsetreDevices,
  ot2006 |-> Ot2006Devices, ez430 |-> Ez430Devices, ez430rf |-> Ez430rfDevices, chronos |-> ChronosDevices,
  test1 |-> Test1Devices, test2 |-> Test2Devices, test3 |-> Test3Devices]

\* devices_update: ports to devices, bytes to devices, answers to the serial units.

Port(pin) == pin \div 10
High(s, device, line) == <<device, line, 0>> \in s.line
Has(b, device, line) == \E w \in Out[b] : w[2] = <<device, line, 0>>
SetLines(s, port) ==
  LET wires == {w \in Out[s.board] : Port(w[1]) = port}
  IN  [s EXCEPT !.called = @ \cup {w[2][1] : w \in wires},
                !.line = {l \in @ : \A w \in wires : w[2] # l}
                         \cup {w[2] : w \in {v \in wires : (v[1] \in s.out) = v[3]}}]

Data == <<"ds2411", "d", 0>>
\* On the telosb the one wire follows the direction of its pin, and is pulled up.
OneWire(s, updated) ==
  LET high == IF 24 \in s.dir THEN 24 \in s.out ELSE TRUE
      heeds == (24 \in s.p2dir) # (24 \in s.dir) \/ (24 \in s.dir /\ updated)
  IN  [s EXCEPT !.line = IF ~ heeds THEN @ ELSE IF high THEN @ \cup {Data} ELSE @ \ {Data},
                !.p2dir = s.dir]

\* Otsetre: the latch in front of the bargraph takes a bit when P6.7 falls.
BarLatch(s, last) ==
  LET bit == (IF 61 \in s.out THEN 1 ELSE 0) + (IF 62 \in s.out THEN 2 ELSE 0) + (IF 63 \in s.out THEN 4 ELSE 0)
  IN  IF 67 \notin s.out /\ 67 \in last
      THEN [s EXCEPT !.bar = IF 60 \in s.out THEN @ \cup {bit} ELSE @ \ {bit}] ELSE s

\* OT 2006: port 3 is kept, and goes to a digit while its pin of port 6 is high.
SegLatch(s) == [s EXCEPT !.latch = {p \in s.out : Port(p) = 3}]
Digits(s) ==
  [s EXCEPT !.seg = [d \in {63, 64} |-> IF d \in s.out THEN s.latch ELSE @[d]]]

\* The device on a serial bus takes the byte when its pins let it.
Selected(s, d) ==
  CASE d = "radio" -> /\ ~ High(s, d, "csn")
                      /\ \A l \in {"vreg", "reset"} : Has(s.board, d, l) => High(s, d, l)
    [] d = "flash" -> /\ ~ High(s, d, "s")
                      /\ \A l \in {"h", "r"} : Has(s.board, d, l) => High(s, d, l)
    [] d = "ds1722" -> High(s, d, "cs")
    [] d = "cma3000" -> ~ High(s, d, "csb")
    [] OTHER -> ~ High(s, d, "s")

\* Each device that took the byte answers on its unit; on a unit the last one stays.
Exchange(s, unit, mode) ==
  LET bus == Serial[s.board]
      takers == IF mode = "spi" /\ unit \in DOMAIN bus.spi THEN {d \in bus.spi[unit] : Selected(s, d)} ELSE {}
  IN  [s EXCEPT !.got = [d \in DOMAIN @ |-> IF d \in takers THEN @[d] + 1 ELSE @[d]],
                !.heard = {<<bus.answers[d], d>> : d \in takers},
                !.called = @ \cup (IF unit \in DOMAIN bus.spi THEN bus.spi[unit] ELSE {}),
                !.sent = IF mode = "uart" /\ unit \in bus.uart THEN @ + 1 ELSE @]

Update(s, updated, unit, mode, last) ==
  LET a == IF updated # 0 THEN SetLines(s, updated) ELSE s
      b == IF s.board = "telosb" THEN OneWire(a, updated = 2) ELSE a
      c == IF s.board = "otsetre" /\ updated = 6 THEN BarLatch(b, last) ELSE b
      d == IF s.board # "ot2006" THEN c
           ELSE IF updated = 3 THEN SegLatch(c) ELSE IF updated = 6 THEN Digits(c) ELSE c
  IN  Exchange(d, unit, mode)

\* After the instruction, with a change of at most one thing outside: the devices' side.
Input(s, line) ==
  LET high == line \notin s.ext
      to == {w[1] : w \in {v \in In[s.board] : v[2] = line}}
  IN  [s EXCEPT !.ext = IF high THEN @ \cup {line} ELSE @ \ {line},
                !.in = IF high # (s.board = "chronos" /\ line \in ChronosInverts) THEN @ \cup to ELSE @ \ to]
Press(s, down) ==
  [s EXCEPT !.down = down,
            !.in = (@ \ ButtonsTo(s.board)) \cup Buttons(s.board, down, s.in)]
-----------------------------------------------------------------------------
\* What the firmware takes the wiring to be, from the head of each file and the drivers
\* of the examples: the pin of each device it selects and its unit, the pins it keeps
\* high, its leds, and the inputs it reads.

Firmware(pins, unit, high, leds, inputs) ==
  [pins |-> pins, unit |-> unit, high |-> high, leds |-> leds, inputs |-> inputs]
On(unit, devices) == [d \in devices |-> unit]
Cc2420Inputs == {<<"fifop", 10>>, <<"fifo", 13>>, <<"sfd", 41>>, <<"cca", 14>>}
Cc1100Inputs == {<<"gdo2", 14>>, <<"gdo0", 13>>}
SlabPins == [flash |-> 44, ds1722 |-> 43, radio |-> 42]
NodePins == [flash |-> 44, radio |-> 42]
OnlyLeds(pins) == Firmware(NoSpi, NoSpi, {}, pins, {})
WaspFirmware == Firmware(NodePins, On("usart0", {"flash", "radio"}), {43, 45, 46}, {54, 55, 56}, Cc2420Inputs)
Uses == [
  senslab13 |-> Firmware(SlabPins, On("usart1", DOMAIN SlabPins), {12, 47}, {54, 55, 56}, Cc1100Inputs),
  senslab14 |-> Firmware(SlabPins, On("usart1", DOMAIN SlabPins), {12, 17, 30, 47}, {54, 55, 56},
                         {<<"fifop", 14>>, <<"fifo", 13>>, <<"sfd", 15>>, <<"cca", 16>>}),
  telosb |-> Firmware(NodePins, On("usart0", {"flash", "radio"}), {12, 45, 46, 47}, {54, 55, 56}, Cc2420Inputs),
  wsn430 |-> Firmware(NodePins, [flash |-> "usart1", radio |-> "usart0"], {12, 47}, {54, 55, 56}, Cc1100Inputs),
  wisenode |-> Firmware([flash |-> 46, radio |-> 42], On("usart0", {"flash", "radio"}), {45, 47}, 54..57, {}),
  iclbsn |-> WaspFirmware, wasp |-> WaspFirmware, mosar |-> OnlyLeds({10, 11}),
  waspx |-> Firmware([dsp |-> 47], On("usart0", {"dsp"}), {45, 46}, {60, 67}, {}),
  powwow |-> OnlyLeds(10..13), otsetre |-> OnlyLeds({21}), ot2006 |-> OnlyLeds({40, 47}),
  ez430 |-> OnlyLeds({10}),
  ez430rf |-> Firmware([radio |-> 30], On("uscib0", {"radio"}), {}, {10, 11}, {<<"gdo2", 27>>, <<"gdo0", 26>>}),
  chronos |-> Firmware([cma3000 |-> 101], On("uscib0", {"cma3000"}), {}, {17}, {<<"sda", 102>>}),
  test1 |-> OnlyLeds({10, 17}), test2 |-> OnlyLeds({50, 57}),
  test3 |-> Firmware([spidev |-> 47], On("usart0", {"spidev"}), {45, 46}, {50, 57}, {})]
F == Uses[dev.board]

LightUp == {"waspx", "powwow", "ot2006", "ez430", "test1", "test2", "test3"}
Idle(b) ==
  Uses[b].high \cup {Uses[b].pins[d] : d \in DOMAIN Uses[b].pins \ {"ds1722"}}
  \cup (IF b \in LightUp THEN {} ELSE Uses[b].leds) \cup (IF b = "otsetre" THEN {67} ELSE {})

\* devices_create and devices_reset_post.
BoardInit ==
  \E b \in BoardNames :
    dev = [board |-> b, out |-> {}, dir |-> {}, p2dir |-> {}, ext |-> {}, down |-> {},
           line |-> IF b \in {"senslab13", "senslab14", "telosb", "wsn430"} THEN {<<"flash", "w", 0>>} ELSE {},
           in |-> IF b = "otsetre" THEN {17, 44, 45, 46, 47} ELSE IF b = "powwow" THEN {16, 17} ELSE {},
           got |-> [d \in DOMAIN Serial[b].answers |-> 0], heard |-> {}, sent |-> 0, called |-> {},
           bar |-> {}, latch |-> {}, seg |-> [d \in {63, 64} |-> {}],
           \* the firmware: what it is doing, what it has asked for, what it has read
           prog |-> [i \in 1..6 |-> <<"port", i, {p \in Idle(b) : Port(p) = i}>>]
                    \o <<<<"port", 10, {p \in Idle(b) : Port(p) = 10}>>>>,
           asked |-> [d \in DOMAIN Uses[b].pins |-> 0], back |-> [d \in DOMAIN Uses[b].pins |-> 0],
           written |-> 0, lit |-> {}, wire |-> FALSE, wantbar |-> {}, wantseg |-> [d \in {63, 64} |-> {}],
           ops |-> 0]

\* One instruction and the turn it makes: a port written, a direction, a byte shifted out.
Instruction(s, i) ==
  LET out == CASE i[1] = "port" -> {p \in s.out : Port(p) # i[2]} \cup i[3]
               [] i[1] = "set" -> s.out \cup {i[2]}
               [] i[1] = "clear" -> s.out \ {i[2]}
               [] i[1] = "toggle" -> IF i[2] \in s.out THEN s.out \ {i[2]} ELSE s.out \cup {i[2]}
               [] OTHER -> s.out
      port == IF i[1] = "port" THEN i[2] ELSE IF i[1] = "byte" THEN 0 ELSE Port(i[2])
      t == Update([s EXCEPT !.out = out,
                            !.dir = CASE i[1] = "drive" -> @ \cup {i[2]} [] i[1] = "free" -> @ \ {i[2]} [] OTHER -> @],
                  IF out # s.out THEN port ELSE 0, IF i[1] = "byte" THEN i[2] ELSE "none",
                  IF i[1] = "byte" THEN i[3] ELSE "none", s.out)
  IN  [t EXCEPT !.back = [d \in DOMAIN @ |->
                            IF i[1] = "byte" /\ {h \in t.heard : h[1] = i[2]} = {<<i[2], d>>} THEN @[d] + 1 ELSE @[d]]]

Run == dev.prog # <<>> /\ dev' = [Instruction(dev, Head(dev.prog)) EXCEPT !.prog = Tail(@)]

Bounded == dev.ops < MaxBytes
Begin(prog) == [dev EXCEPT !.prog = prog, !.ops = @ + 1]
Ready == Bounded /\ dev.prog = <<>>
Talk ==
  /\ Ready
  /\ \E d \in DOMAIN F.pins :
       LET on == IF d = "ds1722" THEN "set" ELSE "clear"
           off == IF d = "ds1722" THEN "clear" ELSE "set"
       IN  dev' = [Begin(<<<<on, F.pins[d]>>, <<"byte", F.unit[d], "spi">>, <<off, F.pins[d]>>>>)
                     EXCEPT !.asked[d] = @ + 1]
Light ==
  /\ Ready
  /\ \E p \in F.leds :
       dev' = [Begin(<<<<"toggle", p>>>>) EXCEPT !.lit = IF p \in @ THEN @ \ {p} ELSE @ \cup {p}]
SerialOut ==
  /\ Ready
  /\ \E u \in Serial[dev.board].uart : dev' = [Begin(<<<<"byte", u, "uart">>>>) EXCEPT !.written = @ + 1]
\* The one wire: driven low, driven high, and let go when it is high.
Wire ==
  /\ Ready /\ dev.board \in {"senslab13", "senslab14", "telosb", "wsn430"}
  /\ \/ dev' = [Begin(<<<<"drive", 24>>, <<"clear", 24>>>>) EXCEPT !.wire = FALSE]
     \/ dev' = [Begin(<<<<"drive", 24>>, <<"set", 24>>>>) EXCEPT !.wire = TRUE]
     \/ dev.wire /\ dev' = Begin(<<<<"free", 24>>>>)
SetBar ==
  /\ Ready /\ dev.board = "otsetre"
  /\ \E bit \in 0..7, on \in BOOLEAN :
       LET pins == {p \in 61..63 : (bit \div (IF p = 61 THEN 1 ELSE IF p = 62 THEN 2 ELSE 4)) % 2 = 1}
                   \cup (IF on THEN {60} ELSE {})
       IN  dev' = [Begin(<<<<"port", 6, pins \cup {67}>>, <<"port", 6, pins>>, <<"set", 67>>>>)
                     EXCEPT !.wantbar = IF on THEN @ \cup {bit} ELSE @ \ {bit}]
SetDigit ==
  /\ Ready /\ dev.board = "ot2006"
  /\ \E d \in {63, 64}, segments \in {{30, 31}, {31, 37}} :
       dev' = [Begin(<<<<"port", 3, segments>>, <<"set", d>>, <<"clear", d>>>>) EXCEPT !.wantseg[d] = segments]

\* Outside, while the firmware goes on.
Change == Bounded /\ \E w \in In[dev.board] : dev' = [Input(dev, w[2]) EXCEPT !.ops = @ + 1]
Button ==
  /\ Bounded
  /\ \E p \in ButtonPins[dev.board] :
       dev' = [Press(dev, IF p \in dev.down THEN dev.down \ {p} ELSE dev.down \cup {p}) EXCEPT !.ops = @ + 1]
Over == dev.prog = <<>> /\ ~ Bounded /\ UNCHANGED dev

BoardNext ==
  Run \/ Talk \/ Light \/ SerialOut \/ Wire \/ SetBar \/ SetDigit \/ Change \/ Button \/ Over
-----------------------------------------------------------------------------

\* Between its operations, what the firmware has asked for has happened: each device has
\* taken the bytes meant for it and no other, its leds, digits and one wire are as they
\* were set, the serial port has its bytes, and no device was called that the board lacks.
BoardWrites ==
  dev.prog = <<>> =>
    /\ \A d \in DOMAIN dev.asked : dev.got[d] = dev.asked[d]
    /\ \A p \in F.leds : (<<"led", "", p>> \in dev.line) = (p \in dev.lit)
    /\ dev.board \in {"senslab13", "senslab14", "telosb", "wsn430"} /\ 24 \in dev.dir =>
         (Data \in dev.line) = dev.wire
    /\ dev.bar = dev.wantbar /\ dev.seg = dev.wantseg
    /\ dev.sent = dev.written
    /\ dev.called \subseteq Devices[dev.board]

\* The firmware reads the answers of the device it talks to, the lines of the devices at
\* the pins it expects them, and the buttons; the flash of the wisenode answers elsewhere.
BoardReads ==
  /\ dev.prog = <<>> =>
       \A d \in DOMAIN dev.asked :
         <<dev.board, d>> # <<"wisenode", "flash">> => dev.back[d] = dev.asked[d]
  /\ \A l \in F.inputs : (l[1] \in dev.ext) = (l[2] \in dev.in)
  /\ dev.down # {} =>
       ButtonPins[dev.board] \cap dev.in =
         IF dev.board \in PressedHigh THEN dev.down ELSE ButtonPins[dev.board] \ dev.down
=============================================================================
