# WSim: models, checks and proofs

WSim simulates the hardware of a wireless sensor node (an MSP430 or ATmega
microcontroller and the chips around it) and runs its native program. Several
WSim processes form a network through a WSNet server, which simulates the
radio medium. This directory holds TLA+ modules of that system, the TLC
configurations that check them and the theorems TLAPS proves about them.

Four subjects, in the order in which they were modelled:

1. what makes a distributed simulation right: the protocols (`src/libwsnet`,
   `src/utils/wsnet1`) by which processes that each run at their own speed agree
   on simulated time, go back in time when a radio byte reaches them late, and
   receive every byte once, in order, when it ends;
2. what going back in time does to the outside: libselect, which connects the
   serial ports of the simulated machine to files and sockets, the trace and the
   log of packets;
3. the devices: two flash memories and two radios on the SPI bus, each a state
   machine driven byte by byte, with fifos and pins; the serial number on its
   wire, sensors and displays; and the boards that wire them;
4. the processors: the peripherals and the interrupts of the MSP430, the
   instructions of both cores, and a core under gdb.

## 1. Inventory

| Component | Source | State | Operations | Model |
|---|---|---|---|---|
| WSNet1 server | `utils/wsnet1/src/{worldsens_srv,core,nodes,simulation}.c` | global time, next rendez-vous (date, index), `synched`, `g_nodes`, `g_c_nodes`, `g_events`, `g_packets`, packet number | one branch per datagram type; the loop of `core_start` | `Wsnet1Server`, `Wsnet1Open`, `Medium` |
| WSNet1 client | `libwsnet/wsnet1.c` | `worldsens_backtracked` (saved with the machine), sockets, packet list | connect, `c_update`, `synched`, `c_tx`, parse, close | `Wsnet1Client`, `Wsnet1` |
| Packet list | `libwsnet/pktlist.c` | ring of 127 slots | enqueue, dequeue, fill from the socket | `Wsnet1Fifo` |
| WSNet2 client | `libwsnet/wsnet2_net.c`, `wsnet2_pkt.c` | as WSNet1, with subscriptions to radios and measures; the protocol state is not saved with the machine | connect, subscribe, update, sync, tx, measures, parse, close | `Wsnet2Client`, `Wsnet2` |
| Main loop, save and restore | `machine/machine.c`, `src/mainworker.c` | the machine and its copy | run, save, restore, signals | part of `Wsnet1Client`, `Wsnet2Client`, `LibSelect`, `Recorder` |
| libselect, serial port | `libselect/libselect.c`, `libselect_fifomem.c`, `devices/ptty` | descriptor table, per descriptor an input ring with two read marks and an output ring | update, read, write, put, get, commit, cancel, save, restore | `LibSelect` (one descriptor) |
| libtracer | `libtracer/tracer.c` | block of events, their counts, last values, what is recorded | register, start, stop, record, dump, save, restore, close | `Tracer` |
| wtracer | `utils/wtracer/src`, `libtracer` | the files of traces, the windows and formats asked for | read, merge, convert | `Wtracer` |
| libetrace | `libetrace/libetrace.c` | the slot being filled, what is put together of a sleep, the function pointers | start, stop, instruction, save, restore, close | `Etrace` |
| Packet log | `liblogpkt/logpkt.c` | two slots per interface, saved copies | rx, tx, complete, abort, dump, save, restore | `Logpkt` |
| Flash memories | `devices/m25p80`, `devices/at45db` | SPI state, command, address, page buffers, busy time | select, byte, deselect, update | `M25p`, `At45` |
| Radios | `devices/cc2420`, `devices/cc1100_2500` | FSM, fifos, registers, pins, bytes being transmitted or received | strobes, fifo access, tx, rx, update | `Cc2420`, `Cc1100` |
| Serial number | `devices/ds2411` | automata of the wire, command, answer | level of the wire, update | `Ds2411` |
| Sensors, displays, bus masters | `devices/{ds1722,cma3000,scp1000,hd44780,gdm1602a,spidev_master,spidev_dsp}` | registers, position, text | select, byte, line, update | `Peripherals` |
| Boards | `platforms` | the lines between ports, serial units and devices | the update after each instruction | `Boards` |
| MSP430 | `arch/msp430` | registers, timers, interrupts, other peripherals | instructions, clock ticks, register access, interrupts | `Msp430Alu`, `Msp430Timer`, `Msp430Serial`, `Msp430Adc`, `Msp430Clock`, `Msp430System`, `DigiIO` |
| ATmega | `arch/atmega` | registers, ports | instructions, ports | `AvrAlu`, `DigiIO` |
| gdb stub, monitor | `libgdb`, `machine/machine_mon.c` | breakpoints, run mode, what is awaited from gdb, watched variables | packets, accesses to memory | `Debugger`; a stop seen from the network is `StopAndRun` of `Wsnet1Client` |
| Console, GUI, ELF loader, loggers, options, other tools | `libconsole`, `libgui`, `libelf`, ... | presentation, files | | not modelled |

`PROJECT.json` lists each of them with the reason when it is left out.

### How the parts interact

* `machine_run_internal` executes an instruction, advances the clock, updates
  the peripherals of the processor and calls `devices_update`. That calls
  `LIBWSNET_UPDATE` first, which may block on a socket, parse a packet, call the
  radio back (`wsnet_rx`) and replace the whole state of the machine
  (`machine_state_restore`), then the devices, of which a radio may call
  `worldsens_c_tx`, which may block and replace the state as well. Interrupts
  are looked for last.
* Nodes send CONNECT, DISCONNECT, SYNCHED and TX to the UDP socket of the
  server. It answers a CONNECT with a unicast datagram and multicasts
  BACKTRACK, SYNCH_REQ, RX and SYNCH_REQ|RX, all numbered. WSNet2 adds
  subscriptions, measures and a KILL, and acknowledges a TX.
* At a rendez-vous every node blocks until the server multicasts a SYNCH_REQ;
  the node then saves its state. A byte that ends before the rendez-vous makes
  the server move the rendez-vous back to its end and multicast a BACKTRACK:
  nodes beyond it restore the saved state.
* `machine_state_save` and `machine_state_restore` call libselect, the tracer,
  the packet log and the network client in turn. With a network, what the
  program reads from a descriptor can be read again, and what it writes is kept
  back, until the next save; events and packets are written to their files at a
  save only.
* A platform carries bytes and pins between the processor and its devices: a
  byte written to the USART comes to the selected device at the next update, and
  the answer goes back at the same update.

### What is hard, and what makes it correct

The server reads datagrams written before its last decision; two nodes send at
once; a saved state brings back fields the protocol must not go back on; bytes
end at the same instant; a node joins, leaves or is killed at any moment;
multicast datagrams are lost; a strobe comes while a byte is on the air; a
driver stops in the middle of a command; an interrupt is raised in the turn that
clears its flag; counters and rings meet their limits. `PROJECT.json`
("hazards") lists each at the line where it bites, with its properties:

* server: an event is never in the past, its two lists stay consistent, bytes
  are delivered in order of their ends, whatever it is sent;
* client and server: they agree on the rendez-vous once nothing is in flight;
  the barrier opens exactly when all are there; no byte is lost, delivered
  twice, received twice or received before it ends, however often nodes go back;
* everybody terminates: no two of them wait for each other;
* packet list: a queue, drained, that loses or cuts only what its size explains;
* libselect: after a restore the machine reads the same bytes again, and what it
  wrote in the cancelled future is never seen outside;
* trace and log: they tell what happened in the time that was kept, no more and
  no less, in order;
* devices: what the driver reads is what the chip holds or heard, what it asks
  for is written or sent whole, and a frame that waits is announced;
* processor: no interrupt is lost, a comparator matches once in a period, no byte
  or sample is lost between a program and a peripheral, clocks keep time, a
  program computes what arithmetic says, and the same under gdb.

## 2. Modules

| Module | Models | Lines it stands for |
|---|---|---|
| `Wsnet1Net` | datagrams, server socket, multicast group, optional loss | `worldsens.h`, `worldsens_s_sendto` |
| `Wsnet1Server` | the server, one action per branch | `worldsens_srv.c`, `core.c` |
| `Wsnet1Client` | a WSim node, one action per packet parsed or instruction | `wsnet1.c`, `machine.c`, the radios' tx |
| `Wsnet1`, `Wsnet1Proofs`, `Wsnet1TxProofs` | server + nodes + network, their properties and fairness; TLAPS proofs for every network, and for one that loses nobody and nothing: the rendez-vous and receptions, then the bytes sent | |
| `Medium` | abstract radio medium: what the server promises | |
| `Wsnet1Open`, `Wsnet1OpenProofs` | the server against arbitrary datagrams (`Air == INSTANCE Medium`), a small set of them for TLC, and TLAPS proofs | |
| `Wsnet1Fifo`, `Wsnet1FifoProofs` | the ring of received packets, the socket and the parser around it, and TLAPS proofs | `pktlist.c`, `wsnet1.c:492-538`, `769-824` |
| `BoundedFifo` | abstract bounded queue | |
| `LibSelect`, `LibSelectProofs` | the two rings as functions; one descriptor, its peer, the serial port, save and restore; TLAPS proofs | `libselect_fifomem.c`, `libselect.c`, `ptty_dev.c` |
| `Replay` | abstract input stream with save and go back | |
| `Wsnet2Client`, `Wsnet2`, `Wsnet2Proofs` | a node of a WSNet2 simulation; the server, as the client expects it (external), with the nodes; TLAPS proofs | `wsnet2_net.c`, `machine.c` |
| `Tracer` | the tracer | `tracer.c` |
| `Logpkt` | the packet log | `logpkt.c` |
| `Etrace` | the energy trace | `libetrace.c` |
| `Wtracer` | what wtracer makes of the files, and the VCD a node writes by itself | `wtracer.c`, `libtracer/drv_*.c`, `tracer.c` |
| `Journal` | abstract journal: entries are made, kept at a save, given up at a restore | |
| `Recorder`, `RecorderProofs` | a machine with a tracer, a log and an energy trace, saves and restores; TLAPS proofs | `machine.c` |
| `M25p`, `At45` | the two flash memories and a driver | `m25p80_dev.c`, `at45db_dev.c` |
| `Cc2420`, `Cc1100` | the two radios, a driver, the air | `devices/cc2420`, `devices/cc1100_2500` |
| `Ds2411` | the one-wire serial number and its driver | `ds2411_dev.c` |
| `Peripherals` | thermometer, accelerometer, pressure sensor, two displays, two bus masters | `devices/...` |
| `Boards` | the wiring of eighteen boards | `platforms/...` |
| `Msp430Timer` | timers A and B, captures, the interrupt core, a program that sleeps | `msp430_timer.c`, `msp430.c` |
| `Msp430Serial` | USART, USCI, a channel of the DMA, a program | `msp430_usart.c`, `msp430_usci.c`, `msp430_dma.c` |
| `Msp430Adc` | the ADC12 and a program | `msp430_adc12.c` |
| `Msp430Clock` | four clock systems | `msp430_*clock*.c`, `msp430_fll.c`, `msp430_ucs.c` |
| `Msp430System` | interrupts that are not maskable, flash controller, watchdog, multiplier | `msp430_flash.c`, `msp430_watchdog.c`, `msp430_hwmul.c` |
| `DigiIO` | the ports of both microcontrollers | `msp430_digiIO.c`, `atmega128_digiIO.c` |
| `Msp430Alu`, `AvrAlu` | the instructions of the two cores, short programs and what they must compute | `msp430_alu.c`, `atmega128_alu.c` |
| `McuProofs` | TLAPS proofs about the peripherals of the MSP430 and the ports, as `MCMcu` puts them together | |
| `Debugger` | the gdb stub, the monitor, a core between them | `gdbremote.c`, `machine_mon.c`, `machine.c` |
| `MC...` | small instances; `MCDevices` and `MCMcu` also choose which device or core a behaviour is about | |

Operators marked `\* mutant` are plausible bugs of the definition they precede.
The specification never uses them; replacing the definition by its mutant must
break the property it is listed with in `PROJECT.json`.

### State and actions

`Wsnet1Server`. `spc` is where the one thread is: in
`worldsens_s_listen_to_next_rp` ("listen") or in the body of `core_start`
("core"). `events` and `packets` are `g_events` and `g_packets`; the C keeps
them as lists sorted by `tx_end`, the order among equal ends being insertion
order. The model keeps sets and lets any element with the least end be the
head, which covers both. A `char` holds `synched`, so `CharIncr` wraps. Each
action `Recv...` is a branch of the `switch` on the packet type together with
the tests that follow it; `BarrierCheck` is the test that ends the function.
`RecvTxBacktrack` is `worldsens_s_backtrack_async`; `CoreIdle`, `CoreWait` and
`CoreTx` are the three branches of the loop of `core_start`. `desync` stands
for the exception CORE DESYNCHRONIZATION. `delivered` is a history variable.
SiNR and reception power are left out: they do not influence the protocol.

`Wsnet1Client`. `bt[n]` is everything `machine_state_save` copies, `backup[n]`
the copy. `pc[n]` is where the thread is: "run" between two turns of the loop,
"radio" when the radio is about to call `worldsens1_c_tx`, "tx" and "synched"
blocked in it or in `worldsens1_synched`. Each action executes an instruction
and the whole `devices_update` up to the next blocking point. `Parse` is
`worldsens1_packet_parse` (the number of the packet, the four handlers, the
restore and what is set again after it). Programs are sequences of dates at
which a byte may leave, in order (the radio takes them from a fifo) and never 0 (the
fifo is empty when the program starts): `OrderAssumption`. `BeforeTx` and `AfterTx` are what the two drivers do on
the two sides of `worldsens_c_tx`. `got` and `sent` are parts of the saved
state (the radio's fifo and the packet log), so a restore removes their ends.
`UpdateNothing` is allowed even with a packet in the socket: libselect looks at
descriptors every few instructions, so `SIG_WORLDSENS_IO` comes at any later
time. `StopAndRun` is a stop in gdb or the console followed by another run.

`Wsnet1`. A step is a step of the server, of a node, or of the user (SIGINT,
gdb). The list and the socket of a node are one queue `mcast[n]`; `Wsnet1Fifo`
is about the difference.

`Wsnet1Fifo`. `rpc` is the position in `worldsens1_fill_fifo_from_socket`;
`limit` is its `len`, first the size of the buffer and then the result of the
last `recv`. Datagrams arrive between any two steps.

`LibSelect`. A fifo is a record with the fields of the C structure; `Written` and
`ReadFrom` are the two `memcpy` of each function, and its operations are functions
from a fifo to a fifo. A byte is known by its place in the stream it belongs to.
There is one descriptor, with the default setting (`backtrack = 1`): `UpdateAccept`,
`UpdateRead` and `UpdateClose` are what `libselect_update_registered` does when
`select` reports the descriptor, `Read` and `Write` are the serial port's,
`Save` and `Restore` libselect's part of the machine's. `machine` stands for the
memory of the machine: the bytes it has read and written; `backup` for its
copy. `wsnet` tells the two ways of `libselect_id_read` and `libselect_id_write`
apart; a restore needs a server. `accepted`, `lost`, `reported`, `sent`,
`writes`, `seen` and `unsent` are histories. The write to a descriptor is taken
as complete: it fails only when there is none (`fd_out = -1`).

`Wsnet2Client`, `Wsnet2`. Here the state of the protocol (number of the last
packet, rendez-vous, its sequence number) is not among what
`machine_state_save` copies; the client saves a part of it itself
(`SaveState`, `Backtrack...`). `Subscribe`, `Published`, `Connected`,
`Refused` and `Join` are the exchange of `wsnet2_connect` and
`wsnet2_subscribe`, which have no timeout; `UpdateSync`, `SyncParse`,
`Transmit` and `TxParse` are the places where a node blocks; `Parsed` is the
parser with one operator per kind of packet. The search for the radio of a packet
never resets its index, so an antenna is found only if the server lists it in
order: `Antennas` and `Models` give other orders too. A KILL raises a signal
that `machine_reset` and a restore may erase, since the signals are part of the
saved state (`msp430.c:472`).

`Tracer`. `trc` is `tracer_current` and `trc_saved` its copy, `block` and
`datafile` the events in memory and in the file, `pointers` which of the record
functions are installed: `tracer_stop` clears only one. The block is dumped at
a save, when it is filled beyond `Threshold`. `Logpkt` keeps the packet of each
direction and the one after it (`tab`, `tab_buf`); `logpkt_tx` tests the flag of
the *rx* packet (`logpkt.c:343`), as the model does. `Journal` is the abstract
view of both: what is recorded, what is kept, what is in the file.

`M25p`, `At45`. `dev` is the record of the C structure: where the SPI automaton
is, the command, the address, what the command still needs. A driver selects the
chip, sends bytes of the sets of commands, addresses and data, deselects it, and
lets time pass; `frame` has what it sent since it selected the chip, `before` the
memory as it was then. `Poke` of `At45` is the write to port 4 of a platform
while the chip is selected (`wasp.c:418`), which sends the last byte again.

`Cc2420`, `Cc1100`. `dev` holds the FSM, the fifos with their indices, the
pins, what is being sent and received. A frame is a length, a header byte, a
body and bytes of check; `air` is what is still to come of the one on the
air. `TimePasses` is an update of the FSM (the timers are nondeterministic),
`ByteGone` one that sends a byte, `Hear` the reception of one, `Silence` the
end of what lasts. `log` has what the driver and the other nodes did, `flag` what
upset a fifo since it was last flushed: a frame abandoned in the middle
(`torn`), for example, is not one `Reads` speaks of. What a setup gives to the
registers never changes during a behaviour.

`Msp430Timer`. A turn of the machine is one instruction, the update of the
timer, the captures and the start of an interrupt (`EndTurn`): `UpdateUp`,
`UpdateCont` and `UpdateUpDown` are the three modes, `Capture`, `CheckIfg` and
`StartInterrupt` what follows. The program writes the control, compare and
count registers, reads the vector, sleeps, handles interrupts and returns.
The other peripherals have one variable `m`, a record of the registers and of
what the program and the outside have seen. A turn of `Msp430Serial`,
`Msp430Adc` and `Msp430System` is an instruction of the program, the updates of
the peripherals for the ticks it lasted, in the order of the code, and the start
of an interrupt. In `Msp430Alu` and `AvrAlu` an instruction is a function from
the state of the core to the next; each module has programs, which are run to
their end for every choice of operands.

`Debugger`. gdb and the core are two processes: gdb sends a packet, waits for
its acknowledgement and answer, or sends Ctrl-C, detaches, dies. The core runs a
program of accesses to two variables; `before` is what it would compute alone.

`Ds2411`, `Peripherals`, `Boards` have one variable `dev`. A step of the first is
an instruction, or the wait until the level of the wire changes or a timer of
the device ends; of the second, an operation of the firmware with all its calls;
of the third, an instruction of the firmware and the update of the board, in
which each device is called in the order of the code.

`Etrace`. `slot` has the accesses, events and cycles of the instruction being
executed; those of a machine that sleeps are put together in it until
`MaxIdle` is near. `pushed` are the slots given to eSimu's library, of which the
first `committed` cannot be taken back. `Wtracer` records a few samples in one
or two files and then converts them: an option is a choice of `WtrInit`, a
driver of a format a function from the samples to the text, and `FilesTrue`
compares the texts with what the signals did. `Recorder` puts the save, the
restore and the end of the machine around them; `options` says which of them a
behaviour is about, as they share no state.

## 3. Runs

| Run | Module | Question | Instance |
|---|---|---|---|
| `wsnet1_open` | `Wsnet1Open` | is the server right whatever arrives, in any order? | 2 nodes, 15 datagrams: early, late, repeated, contradictory; period 3 |
| `wsnet1_pair` | `MCWsnet1` | do two nodes of different speeds agree with the server, lose nothing, and hear each byte once, not before its end? | a cc1100 and a cc2420, 4 programs of up to 3 bytes, 12 instructions, period 5, `MAGIC` 2 |
| `wsnet1_live` | `MCWsnet1` | with simultaneous bytes and a third node, one of them refused: does every simulation end? | 3 nodes, both radios, room for 2 nodes |
| `wsnet1_faults` | `MCWsnet1` | order of reception with losses, late joins, SIGINT, gdb | 2 nodes, 5 instructions |
| `wsnet1_fifo` | `Wsnet1Fifo` | is the ring a queue, what may be cut or lost, is it drained? | 3 slots of 5 bytes, 5 datagrams of 2, 3 or 5 bytes |
| `wsnet1_twice` | `MCWsnet1` | a finding, below | 2 cc1100, a byte of 4 units against two of 2, 26 instructions, period 10, `MAGIC` 3 |
| `libselect_io` | `LibSelect` | is input read again, and cancelled output never sent? | rings of 3 bytes, 5 bytes in, 4 bytes out, a file or a TCP client |
| `wsnet2` | `MCWsnet2` | do nodes agree with the server, hear once, leave, also when killed? | 2 nodes, 10 instructions, period 4, one of them killed at any time |
| `recorder` | `Recorder` | do the trace, the log and the energy trace tell what was kept, and wtracer what is in the files? | a signal of 2 values, block of 3, 6 events, 4 bytes on the radio, 2 slots of energy, 2 files, one backtrack |
| `devices` | `MCDevices` | does a device do what its driver asks, in any order of its bytes, and a board bring it there? | memories of 2 pages of 2 bytes; fifos of 9 and 8 bytes, 5 and 9 setups, at most 3 frames; 3 serial numbers, 7 other devices, 18 boards |
| `devices_stuck` | `MCDevices` | a finding, below | one packet, one strobe during its reception |
| `mcu` | `MCMcu` | are interrupts, matches, data and ticks kept, do sleepers wake, do programs compute, also under gdb? | period 4, TAR of 3 bits, 3 comparators, ticks of 1 and 2; 5 ports, 3 bytes; 2 channels; 4 clock systems; operands at the limits of a byte |

### Bounds, and why they are enough

* Time is bounded by `RunTime`, bytes by the programs, hence every counter.
  A period of 4, 5, 6 or 8 and runs of 5 to 12 instructions give two or three
  rendez-vous, with a backtrack before, at and after the end of the run.
* Programs have bytes of one and of two units that start at the same date,
  nest, overlap, and end together, before, at and after a rendez-vous. Two
  nodes give all the races between a TX and a SYNCHED, three those between two
  TX with a third node ahead or behind.
* `MAGIC` (31250 ns in the code) is shorter than the period (`SYNCH_PERIOD`)
  as it is in the code, but close to a byte.
* In `wsnet1_open` a datagram arrives only when the socket is empty: since any
  datagram may come next, a longer queue adds no order of reading.
* 3 slots and 5 datagrams fill the ring, wrap both indices and refuse a packet;
  the code has 127 slots. 5 is `PKTSIZE_MAX`: such a packet is refused.
* In `libselect_io` the other end sends 5 bytes and the program writes 4, with
  rings of 3: every mark wraps around, both rings fill, blocks are refused.
  Saves and restores are not bounded. As in the code, the largest block read from
  a descriptor (`BUFFER_MAX`) has the size of the ring (5120 bytes there).
* In `recorder` 6 events fill the block of 3 and dump it with and without the
  threshold; saves are not bounded, and one backtrack may come at any time.
* In `devices` an address of a memory has two bytes of base 2, so that a
  program wraps in its page and an erase has a neighbour to spare. A fifo is
  longer than one frame and shorter than two, so it wraps and overflows. One
  strobe or flush interrupts each phase of a reception or transmission
  (`upsets`). The threshold of the cc2420 is above the length of a frame, that
  of the cc1100 within one.
* In `mcu` every mode meets compare values at and below the period, ticks that
  jump over a value, and interrupts within an interrupt. TAR has 3 bits, TBR 2 or
  3; the greater of the compare values, 4, is negative when it is written to
  CCR0 (an `int16_t` there), so that TAR is taken to be beyond it. A byte lasts 3 ticks on a
  serial port, so that its shift register and its buffer fill in turn; a block of
  the DMA has 2 bytes. The ATmega has its 8 bits, with operands at 0, 1, 128 and
  255; the MSP430 has bytes of 4 bits and words of 8 (`W`), enough for each carry
  and sign. The
  program under gdb has 5 instructions; gdb sends 2 commands, has one breakpoint,
  dies once, and the network goes back once.
* `Boards` bounds the bytes exchanged (3), `Ds2411` the interrupts that upset a
  wait (1), `Peripherals` the steps of each firmware (5 to 12); texts that wrap
  both lines of a display are given as they are.

### Fairness, and runs that stop

`FairSpec` of `Wsnet1` and `Wsnet2` has weak fairness of the server and of each
node: they are processes of the host, and each takes a step whenever it is not
blocked on its socket. No fairness is assumed of the user, of the network, or
between the branches of one process. `UpdateNothing` may ignore the socket of a
running node, but each of its steps advances the clock, so a rendez-vous or the
end of the run comes. `Wsnet1Fifo` has weak fairness of the reader only.
`MCMcu` has weak fairness of `Asleep`: `machine_run_internal` goes on turning,
and the clock with it, while the processor sleeps. `FairSpec` of `MCDevices`
says that a machine that runs updates its radio, and that what lasts on the air
ends.

`CHECK_DEADLOCK FALSE`: in `wsnet1_open` the server stops when the last node
leaves. In `wsnet1_faults` the system may stop: a lost SYNCH_REQ is never sent
again. `wsnet1_fifo` ends when all datagrams are parsed,
`recorder` when the machine is closed, `devices` when what the driver and the air
may do is used up. In `wsnet2` a node whose server has left waits for ever
(`Abandoned`; the protocol has no timeout). `wsnet1_live` and `wsnet2` check
`Terminates` and `EveryoneLeaves`, which fail in any state where everybody waits,
and a step of a system that has come to its end is a step of its own there.

`QuietStart = TRUE` says that programs send nothing, and do not end, while a
node is still connecting; programs are quiet then in `wsnet2` too. The code does
not enforce it (see "AdvancedGoBack" below); simulations are started by scripts
that start all nodes, and the properties about completeness are properties of
the simulation that follows. `wsnet1_faults` does without.

`MatchEachPeriod` is about the modes up and continuous: in up/down a tick that
reaches an end of the count skips the comparators. `Announces` excludes a last
frame that is read while another comes (below).

## 4. Findings

Two runs must violate one property, stated by a document or a comment.

* `wsnet1_twice`: a byte is delivered twice, although a TX that is repeated is
  "Retransmission" and dropped (`worldsens_srv.c:463`). A cc1100 waits in
  `worldsens1_c_tx` for its first byte; the BACKTRACK of another node ends the
  wait (`wsnet1.c:465`), and it goes on and waits for its second byte before the
  BACKTRACK for the first one comes. That one restores the machine inside
  `worldsens1_c_tx`, to before the first byte, and the second half of the driver,
  written for the second one, makes the restored radio wait for the length of a
  byte (`cc1100_2500_tx.c:613`). So the first byte is sent again when its first
  transmission may have ended: it has been delivered and is forgotten, and it is
  delivered again with the same number. A radio of which the two halves ran on
  different machines is `Torn`; for all others `OnceUnlessTorn` holds.
* `devices_stuck`: while a transmission is pending the cc1100 only waits for a
  clear channel (`cc1100_2500_state.c:334`) and never ends the reception it is
  in, which is what keeps the channel busy: a STX strobed during a packet leaves
  the radio in RX for ever, deaf.

Eight more disagreements, which TLC shows with the modules as they are (with the
property named, in place of those of the configuration named):

* `AdvancedGoBack` (`MCWsnet1`, as in `wsnet1_faults` without losses): a node
  joins the multicast group after its CONNECT was answered (`wsnet1.c:395`); a
  BACKTRACK sent in between is lost for it.
* `BarrierExact` (`MCWsnet1`, as in `wsnet1_faults` without losses): a node that
  leaves (SIGINT) while it is counted at the rendez-vous stays in `synched`
  (`worldsens_srv.c:381`), which `wsnet_proto.txt:20` calls the "number of
  currently synchronized nodes (blocked)". The barrier then opens when one node
  fewer than all is there.
* `SentInOrder` (`MCWsnet1`, as in `wsnet1_pair`): the driver
  counts the byte after `worldsens_c_tx` returns (`cc2420_state.c:760`), on the
  state just restored: one byte of the frame is skipped.
* `DeliveredOnce` (`MCWsnet1`, as in `wsnet1_pair`): the bytes in question are
  those of the cc2420, and they are not the same byte. The number of the datagram,
  counted before the wait (`wsnet1.c:461`), has gone back with the machine while
  the driver goes on to its next byte: two bytes are delivered under one number,
  by which `worldsens_srv.c:461` tells a TX that is repeated.
* `Whole` (`Wsnet1Fifo`, as in `wsnet1_fifo`): `len` is both the size and the
  result of `recv` (`wsnet1.c:799`), so a second datagram is cut to the length of
  the first.
* `LossReported` (`LibSelect`, as in `libselect_io`): `putblock` returns the size
  of a refused block minus the free space (`libselect_fifomem.c:309`), so with a
  full fifo it returns the size and the caller prints no overrun error. A file of
  more than 5120 bytes given as input meets it at once.
* `KilledLeaves` (`MCWsnet2`, as in `wsnet2`): a node killed at a rendez-vous
  while `wsnet2_tx` waits has its state overwritten with TXING
  (`wsnet2_net.c:539`) and waits for ever; `wsnet2_pkt.h:42` says "kill all
  nodes".
* `AnnouncesAlways` (`MCDevices`, as in `devices`): when the driver reads the
  last waiting frame of a cc2420 while another comes, the count of frames and
  FIFOP are wrong afterwards.

Met while modelling, without a run of their own; the models do what the code
does, and the properties are stated so that they hold with it:

* WSNet1. `synched` is a `char` (`worldsens.h:260`) and the server accepts 128
  nodes (`sim_conf.c:23`), so where `char` is signed the last SYNCHED makes the
  count negative and the barrier never opens (`CharMax` is large enough in the
  runs). `ptty_write` ignores that the output fifo is full. Every entry of the
  main loop saves the state, so after a stop in gdb a backtracked node may stay
  beyond the rendez-vous. A node leaves each rendez-vous with its own date, late
  by up to two instructions (`RxNotEarly` is the half that holds: never early).
  The result of the connection is ignored (`mainworker.c:297`), and a refused
  node runs alone.
* WSNet2. A subscription never times out. A refused node goes on without a
  multicast socket. Signals are part of the saved state, so a BACKTRACK parsed
  after a KILL forgets the kill.
* Recorder. `logpkt_tx` looks at the flag of the received packet.
  `tracer_stop` clears one record function of several, and nothing installs them
  again; without `--trace` the threshold is 0.
* Flash. A continuous read of the at45db takes its address as linear although
  pages have 264 bytes; a read of its buffer needs no dummy byte although a
  comment counts one; page commands end one byte later than the opcode and
  three; a reset forgets nothing of the command. In the m25p80 a sector erase
  needs a byte after the address, WRSR a second byte and only sets bits, a page
  program is never busy, and a protected sector is written with a message.
* cc2420. A frame cut by a strobe stays in the fifo; returning to IDLE resets the
  indices but not the count of frames, nor FIFOP; STXONCCA goes on into STXON;
  SFLUSHRX during the preamble of an acknowledgement misses FIFO, and during
  that of a frame drops it while `tx_active` stays; the frame check of a short
  fifo end is written without wrapping; a frame for another node skips the test
  of completeness.
* cc1100. SIDLE in RX with `FS_AUTOCAL` 0 or 1 stays in RX until silence, and an
  SRX strobed meanwhile is ignored; SIDLE in TX leaves the sync pin up and the
  rest of the packet in the fifo; with no synchronisation a receiver takes the
  preamble for data; the pin for a full tx fifo falls only below the threshold;
  wake on radio ends in SLEEP at the next edge of CSn; after one byte of preamble
  and silence every byte is late until RX is entered again; two radios of a
  machine share static variables that no save keeps.
* MSP430 timers. Reading TAIV clears the highest flag even when it is not
  enabled; a write of TAR or TACLR leaves the second target of a comparator out
  of reach, so the next match is missed; in up/down a tick that reaches an end
  skips the comparators; of the interrupts of a timer only the overflow updates
  the vector; periods are one short.
* Ports, serial ports, converter. Enabling the interrupt of a flag that is
  already set posts nothing until the next RETI; a vector stays posted when its
  flag is cleared by polling. `INTR_USCIX0_RX` clears only the flag of A0. The
  DMA has no block, burst or level modes, and disabled in WAIT it copies one
  more. ADC12 posts only when exactly one enabled flag is set.
* Flash controller. `flash_ticks_left -= div` is unsigned, and its test `<= 0`
  misses a timer that passes zero: the model keeps the dividers no smaller than a
  turn. Writing FCTL3 while busy ends BUSY and leaves reads at 0x3FFF. The
  pointers to its handlers are not saved with the machine.
* Watchdog, clocks. The first period has one tick too many; a shortened interval
  expires at each update; a reset of the watchdog only jumps to the vector.
  `msp430_ucs_write` writes every register into `ucsctl0`; `flld = 0` divides by
  zero.
* Cores. MSP430: DADD carries at 99, not above; MOV.b to a register keeps its
  high byte; PUSH and CALL move SP before they read their operand; SR as a
  destination is overwritten by the flags. ATmega (the file says it is work in
  progress): the tests of a bit are decoded one place off, LD and ST with Y and
  increment are unknown, LSR never writes, ASR loses the sign, CPC sets Z from
  its own byte, POP reads before it moves SP, LDD with Z reads Y, CALL pushes one
  word too far, ICALL does not jump, MULS reads the low registers. The programs
  use what is right.
* Debugger. `z` and `Z` are not supported, so gdb writes its breakpoints into
  the memory; a `pc` written with P does not change where execution resumes; a
  Ctrl-C stays in the socket after the stop (`gdbremote.c:195`), so that the stop
  is told twice; a step during which the network goes back executes nothing.
  Reads of a byte of a monitored variable are never recorded.
* Sensors and displays. The accelerometer compares the bit of a write wrongly:
  writes have no effect. The chip address of the pressure sensor is never
  compared. In the displays an octal `067` is a wrong limit; clear blanks 16
  of 40 characters; return home does not undo a scroll. The table of the bus
  master is never bounded.
* Boards. On wsn430 and senslab a write of another pin of port 2 drives the
  one-wire high in the middle of a bit (the driver retries); the mask of the
  button of the ez430rf is cut to 8 bits, so it stays pressed; wisenode answers
  the flash on the other USART.
* libetrace. The function pointers are not saved: stopped after a save and
  restored, it believes it is running and can never be started again.
* wtracer. A VCD of one file starts at its second sample and loses the last;
  SITC loses a sample that is the last of its file; a merged VCD ignores the
  window; `#time` is missing when the sample before was as late, though not
  shown; raw and gplot refuse `--merge` but go on; conflicting modes end the
  options at the first.

## 5. Proofs

`Wsnet1OpenProofs` proves, for any set of nodes, periods, size of the char and
set of datagrams (`ServerAssumption`: the constants are positive numbers;
`DatagramAssumption`: datagrams have the fields of the protocol and the
duration of a TX is positive):

| Theorem | States |
|---|---|
| `TypeCorrect` | `TypeOK` |
| `TimingCorrect`, `NeverDesynchronized` | `NoDesync` |
| `ListsCorrect`, `EventsNeverDangle`, `NeverScheduledTwice` | `NoDanglingEvent`, `ScheduledOnce` |
| `NodesAlwaysCounted` | `NodesCounted` (for a finite set of nodes) |
| `DeliveriesAreOrdered` | `DeliveredInOrder` |
| `RendezVousStaysAhead` | `RendezVousAhead` |
| `ServerImplementsMedium` | `Wsnet1Open` implements `Medium` |

`NoDesync` is not inductive. What keeps events out of the past is `Punctual`:
the rendez-vous is at most the end of every event, and global time is at most
the rendez-vous and equals it in the core. It is kept because a TX that ends
earlier moves the rendez-vous to its end. That the rendez-vous never moves
behind global time needs `Started`: what is scheduled starts by the rendez-vous
and lasts, which in turn needs the two tests of the TX branch and the pruning
of `core_backtrack`. `ScheduledOnce` needs `events \subseteq packets`, since only
`g_packets` is searched. Order of delivery adds `HeardBefore`. The refinement
maps the clock to `g_sim_time` and the air to `g_events`: a TX is `Emit` or
`Preempt`, the opening of the barrier is `Advance`, `CoreTx` is `Hear`, the last
DISCONNECT `Shutdown`, and everything else stutters.

`Wsnet1FifoProofs` proves, for any number and size of slots, that the reader
never indexes outside of the ring (`TypeCorrect`) and that the ring implements
`BoundedFifo` (`RingIsFifo`). The invariant `RingInv` says that the write index
is `size` places after the read index; the lemmas `After...` are the modular
arithmetic of `pktlist.c:79` and `:102`, `EnqueuePuts` and `DequeueGets` what
the two operations do to the queue.

`LibSelectProofs` proves, for any sizes of the rings and of the blocks, that the
rings of libselect are never indexed out of bounds (`TypeCorrect`) and that the
input implements `Replay` (`InputIsReplayed`). The invariant has two parts.
`Holds` is about the ring: it holds the end of the stream that was accepted, and
both the second read mark and the write mark are where the counts say. `ReadInv`
is about the machine: what it has read ends at the second mark, and what it had
read when it was saved ends at the first. The lemmas `PutHolds`, `ReadHolds`,
`CommitHolds` and `CancelHolds` say what the four operations do to a ring that
`Holds` a stream; they rest on `WrittenOld` and `WrittenNew`, the two `memcpy`.

The output of `LibSelect` adds two invariants. `PendingInv` says that the ring
holds, between its marks, what the machine has written since it was saved
(`PendingIsTheRest`). `SeenInv` says that bytes are numbered in the order in
which they are written, so that what the other end has seen is what was kept,
without what its descriptor refused (`NothingCancelledIsSeen`): the histories are
compared as increasing sequences with the same elements and not by selecting a
subsequence, which would need induction.

What `Wsnet1Fifo` says beyond the ring: `CutsFollow`, a packet is cut only to
the length of the previous one (`CutInvariant` says that `limit` is then the size of
a slot or the length of the last packet kept, and that a datagram in the socket
is whole), and `ParsedInOrder`, the parser gets packets in the order in which
the server sent them.

`RecorderProofs` proves, for any signals, values and sizes of the block and its
threshold:

| Theorem | States |
|---|---|
| `TraceIsTrue`, `NodeTraceIsTrue` | `TraceTrue`: counts and header are those of the events of the trace |
| `TraceIsJournal`, `NodeTraceIsJournal` | `ImplementsTrace`: the tracer implements `Journal` |
| `LogCorrect` | the invariant of the packet log |
| `NodeKeepsTxBytes`, `NodeRxLogIsJournal` | `NoTxByteLost`, `ImplementsRxLog` |
| `EtrCorrect`, `NodeSlotsShareOut` | `Accounted` of `FilesTrue`: the slots of the energy trace share out the cycles |
| `RecorderRefines` | a behaviour of the node is one of the tracer and one of the log |

In a journal the file only grows, with what was kept, and a restore takes back
exactly what was recorded since the save. The invariant `TrcInv` says that the
counts speak of the trace, that their saved copy speaks of the part of it that
was kept, and that the saved number of events in the block is at most the
present one: this is what lets a restore cut the block without looking at it.
`LogInv` says the same of the two slots of an interface, with
`SecondAfterFirst`: the second slot is used only while the first waits to be
dumped. `EtrInv` adds `Shares`: the slots pushed end one after the other, each
with the cycles since the one before, and the open one has the rest; the same
holds of what is committed and the saved slot.

`Wsnet1Proofs` is about the composition of `Wsnet1`: any nodes, programs, radios,
speeds, period, with datagrams lost, nodes killed, stopped or refused at any time.

| Theorem | States |
|---|---|
| `TypeCorrect` | `TypeOK` |
| `ReceptionInOrder` | `RxInOrder` |

`RxInOrder` compares what one node has with a history of the server, and between
them are packets, some lost, and a saved state that may come back. What ties them
together is the *trail* `T`: for each packet number, what is known when all packets
before it have been parsed (`Mark`: the index of the rendez-vous, its distance
from the last one, how many bytes were delivered, and how many of them had been
when the last release was sent). `Known(T)` says that the server is at the end of
the trail (`ServerTrail`), that each packet in a queue leads from the mark of its
number to the next (`Carries`), and that a node, with its saved state, is at the
mark of the next packet it expects (`At`). The invariant is that some trail is
known. A server that sends extends it; a node that parses moves along it; one
that misses a packet stays, since `Missed` is then true of every packet to come.
For a BACKTRACK the saved state must be at the new mark too: it holds since no
byte was delivered since the release (`a.dlv = a.sav` in `Carries`), which is why
the fourth field is there.

Its second part proves of the same composition, when it is `Tame`:

| Theorem | States |
|---|---|
| `NodesAgree` | `ViewAgrees` |
| `BarrierCounts` | `BarrierExact` |
| `ReceptionComplete` | `RxComplete` |
| `NodesAreNear` | `NearRendezVous` (nobody stops in gdb either) |
| `ReceptionNotEarly` | `RxNotEarly` |

`Tame` says that no datagram is lost, that programs are quiet while a node starts,
that nobody is killed, and that the server accepts no more nodes than its `char`
counts. None can be left out: a lost packet stops a node; a BACKTRACK between the
answer to a CONNECT and the membership of the group is missed (`AdvancedGoBack`);
a node killed at the rendez-vous stays counted (`BarrierExact`, above); with 128 nodes the
count wraps. Stops in gdb (`CanStop`), all programs and all orders remain. `Orderly`
adds to the trail

* for each node, `Calls` (one CONNECT at a time), `Starting` (an answer carries the
  number of the next packet, and stays right until the node has joined),
  `InSequence` (the packets on their way are the next ones, without a gap) and
  `Waiting` (`pending` is set exactly while the node is blocked, never in its
  saved state, and then the clock has reached the rendez-vous);
* `Requests`: no SYNCHED is ahead of the server, and a TX is on its way only when
  all have started;
* `Barrier`: while the server listens, the nodes it has counted and the SYNCHED
  that it has still to read are together the nodes blocked; in the core, all are.

A SYNCHED written before a BACKTRACK is read after it has no effect because the
index has moved; that the node which wrote it is not counted twice follows from
`Waiting` and the trail, since it is blocked for an older index. The lemmas
`SynchedTail` and `SynchedAppend` count such packets in a queue.

The last two theorems are about dates. `Shapes` says what a node may have in its
queue: bytes, then at most one packet that releases it, then packets that send it
back, and nothing but the latter unless it is blocked. `AllPaced` follows: a node
executes only before its rendez-vous, so it crosses it by one instruction at most,
and the date it goes back to is that of its last rendez-vous. Only this theorem
needs `CanStop = {}`: a stop in gdb saves the machine wherever it is, maybe
beyond the rendez-vous, and from there the node may go one instruction further
each time. For `RxNotEarly` two clocks are compared. `Past`: the server has handed
out nothing that ends after its global time. `Clocks`: the date of a node, with that
of its connection, is not behind the global time; its last rendez-vous may be
behind only while the bytes of the next one are handed out (`Releasing`). `Backlogs`
carries this over to the bytes in the queue: a node has received the first `c` bytes,
each in time (`Timely`), those of its queue are the following ones up to the last one
delivered (`ToCome`), and its saved copy lacks only those of the rendez-vous
it is about to leave.

`Wsnet1TxProofs` is about what nodes send, in the same composition:

| Theorem | States |
|---|---|
| `TransmissionsKept` | `NoTxLost` (`Tame`, and nobody stops in gdb) |
| `DeliveredUnlessTorn` | `OnceUnlessTorn` (under the same conditions) |
| `LedgerAlways` | their inductive invariant |
| `NoDesync` | `core_start` never finds an event in its past (always) |

A TX is announced once and for all, but its sender may go back before it, and then
announces it again; meanwhile the server drops the TX of a byte that starts after a
rendez-vous it has moved, keeps one it has scheduled, and forgets one it has
delivered. Neither property is inductive: in a state where both hold, a node might
be about to send a byte at another date than before it went back, and the server
would keep two, or wait for one that never comes. What excludes it is that the
state a node saved decides the dates of all its bytes:

* `Plan(n, q, u, v, d, m, lim)`: from the saved radio `u`, program `q` sends its
  bytes at the dates `d[u.seq]`, ... `d[m - 1]` until the rendez-vous `lim`, each at
  the first instruction at which it may, and the present radio `v` is somewhere in
  this plan (`InPlan`), or beyond it and about to go back (`Ahead`).
* `Story` adds the server and the network: each byte of the plan is delivered,
  scheduled, or announced by a TX on its way with exactly the date of the plan
  (`OnItsWay`), a TX dated before `lim` is one of the plan, an event is at its date
  (`Foreseen`), and what was sent before the save has started (`Settled`).
* A node that is being released owes nothing: the server has all its bytes, and
  they have begun (`Fulfilled`). So the plan of the next period starts from a
  clean page. `Account` is one or the other.
* `Ledger` takes the accounts of all nodes with what they rest on: no event is in
  the past (`Punctual`), a packet is known once (`OnePacket`), a TX is ahead of the
  SYNCHED and of the DISCONNECT of its sender (`InFlight`), nothing is on the air
  while nodes start (`Silence`), a byte delivered is not on its way again (`Once`),
  and a radio is at an instruction of its clock (`Motion`).

When the server moves the rendez-vous back, the plan is cut at the new date
(`CutPlan`): the bytes after it are no longer owed, and the TX that announce
them may be dropped. A node that goes back returns to `u` with the same `d`. A node
that sends extends `d` by the date of its clock (`Foresees`), or finds the byte in
it. A radio torn by a restore (section 4) is later than the plan, never before it,
so it loses nothing, but it may send again what was delivered (a cc1100) or another
byte with its number (a cc2420): hence the condition of `OnceUnlessTorn`. `OrderAssumption` is used there, since a torn cc2420 skips a byte and must not be
due earlier for it, and at date 0, when a node that connects has nothing to
send yet. With stops in gdb (`CanStop`) the machine is saved at any date, also
beyond the rendez-vous, and no longer where the account is settled: they are left out.

`Wsnet2Proofs` is about the composition of `Wsnet2`: any finite set of nodes,
any programs, speeds, run times, antennas, models, period and kills
(`ClientAssumption`: the constants have their types and the set of nodes is
finite; `ServerAssumption`: the period is positive). It proves that a node never meets a packet it does not expect
(`NeverDesynchronized`) and that a node with nothing on the way agrees with the
server on the rendez-vous (`AgreesAlways`). Neither is inductive. `IInv` is a
conjunction of

* `TypeInv`;
* `Members`: who takes part for the server, who for itself, and what each
  situation of a node says of the other (`Good` for a node that takes part,
  `Leaving` for one that closes or was killed);
* `Connections`: between a node that subscribes and the answers on their way to it;
* `OnTheWay`: the packets on their way to a node are numbered one after the
  other from the next it expects to the last the server sent, and their
  rendez-vous lead from the node's to the server's: each packet can be parsed in
  the state the packets before it leave behind;
* `Acked`: a node waits for the acknowledgement of its TX exactly when the server
  has the TX still to read, or the acknowledgement is on its way.

`Ahead` says that nothing in the air ends before the next rendez-vous; it needs
`IInv` (a node sends only before its rendez-vous) and gives what the server
checks. The proof takes the two together (`Together`).

`HeardAlways` (`HeardOnce`) relates what a node has received to the history
`heard` of what has ended, with packets on their way between them.
`Follows(g, q, n, h, e)` joins the three: the bytes received, `g`, and behind them
the packets for the node still in its queue, `q`, are one after the other what it
hears of `h`; `e` says where each is in `h`. `Hearings` demands it of all that go
on. To parse a packet moves a place from `q` to `g` (`FollowsTake`); what ends
appends the same to `h` and to each queue (`FollowsMore`). What is difficult is
to go back. The machine loses what it received since it was saved, and nothing is
sent again, so it must have received nothing since: `HearOf` says that machine
and saved copy have the same bytes, except inside a run. By `Runs`, bytes that end
together stand one behind the other in the queue, up to the one that
releases the node and saves it; a BACKTRACK never stands between them.
`Meeting` says that nothing ends before all have connected, so that who
connects has missed nothing. At the end, with an empty queue, the places are
counted: `e` is a bijection that keeps the order (`Ranks`).

`McuProofs` is about the peripherals of the MSP430 in `MCMcu`, for any values of the
constants: periods, dividers, instructions, programs, number of turns.

| Theorem | States |
|---|---|
| `TicksKeptAlways` | `TicksKept` |
| `DataKeptAlways` | `DataKept` |
| `InterruptKeptAlways` | `InterruptKept` |
| `MatchEachPeriodAlways` | `MatchEachPeriod` |

None of them is inductive. `McuInv` has one part or two for each peripheral:

* `ClockInv`: each source has counted as many ticks as the time it ran holds, to
  the remainder its divider keeps (`Exact`), and what a signal has counted
  since it was set is that of its source, divided (`Steady`); the lemma
  `Accumulate` says that dividing piece by piece, the remainder carried over,
  is dividing the sum.
* `SystemInv`: the counter of the watchdog and the intervals it has ended make its age
  (`WatchInv`), and the memory of the flash is what was asked, since a mode is
  chosen only when the flash is unlocked and idle (`FlashInv`).
* `AdcInv`: the memory that comes next is that of the conversions done
  since the start; the single conversions leave no start behind.
* `PortInv`: a flag tells an edge, a pin its line, and the outputs that changed
  since the board read are in `outup`. The 21 registers of the ATmega have 19
  addresses, and `OneIndex` says that `IndexOf` gives no two of them the same.
* `SerialInv`: what has been sent is what was written before the bytes in the shift
  register and the buffer (`TxPart`); what has come is what was read, and what is
  in the buffer and shift register (`RxPart`); the DMA has a trigger exactly when
  there is room for it (`DmaPart`); a flag has its interrupt posted or a handler
  running (`IntPart`).
* `VectorInv`, `AdcVector`, `PortVector`: what is due of the watchdog, the converter
  and the ports is posted, or their handler runs. A handler ends with RETI, which
  looks at the flags again: each is shown for a state between two steps
  of an instruction, where a flag has changed and nothing has been posted, then
  for the turn.
* `TimerInv`: the interrupts and the comparators of a timer. RETI posts the vector 1
  only when TxIV is not 0, so `Posted` (what asks is posted, or a handler runs)
  needs `TivTells` (TxIV is not 0 while something asks), and
  `TivTells` that each write of a flag or its mask computes TxIV again. `Wary` is what makes a match of each
  period: a comparator that is watched and has not matched has its flag
  clear, is not in capture mode, lies within the period, and the value of TAR it was last
  compared with is below its own (`Low`). `Advances` then says what an update, of
  however many ticks, does to such a comparator: nothing; or TAR is further by the ticks,
  and it has matched or is still not reached; or the period has ended, and it has
  matched. The first turn of a period compares with 0, which is below every watched
  value; that is why the wrap resets the last value of the other comparators, and
  why the mutant `WrapsKeepsAll` breaks the property.

`ClockAssumption`, `TickAssumption`, `TimerAssumption` and `ChannelAssumption` are the
widths and signs of the constants: the values compared and the limits of the
timers fit in TAR, and comparator 0 is not one of the others. The limits are also
all ones (`MaskAssumption`), which no proof needs. `IntervalAssumption` says that no instruction is
longer than an interval of the watchdog: the shortest has 64 ticks
(`msp430_watchdog.c`) and the longest instruction is far below. With longer ones the watchdog would
lose an end, since `WatchdogUpdate` takes away one interval only.

Only model-checked:

* liveness (`Terminates`, `EveryoneLeaves`, `Drained`, `Wakes`, `EndsReception`):
  temporal proofs under fairness need ENABLED, which the prover does not
  support;
* `Converted` of `FilesTrue` speaks of folds over files, which needs induction
  over data;
* the devices (`Reads`, `Writes`, `Announces`): `Ds2411` reaches `Bitwise`, of which the
  prover knows nothing, and `Cc2420`, `Cc1100`, `M25p` compare folds and tables of bytes;
* `Computes`: what a program of the two cores leaves is a fold over its
  instructions.

## 6. Limits

* The composition takes datagrams whole; cutting and the limit of the list are
  in `Wsnet1Fifo`. `pktlist_getn` has no caller.
* The server's own SIGINT is left out: its nodes then stay blocked. So do nodes
  that lose a SYNCH_REQ: the protocol has no timeout, so no liveness is claimed
  with losses.
* Callback events of the server's core have no user and are left out.
* The server of WSNet2 is not in this repository: the one of `Wsnet2` is what
  the client expects of it.
* In the compositions radios are reduced to the order of their effects around
  `worldsens_c_tx` and to the duration they return for a reception; `Cc2420` and
  `Cc1100` are the radios themselves, alone with their driver.
* One descriptor of libselect; the table, `ENTRY_FD_ONLY`, UDP and the callbacks
  are left out.
* Datagrams keep their order on the server socket and on each multicast queue,
  as on one host.
* The block erase of the at45db is left out: its `memset` runs past the memory.
* cc2420: RSSI, LQI, CCA, SFD, the PLL and registers other than the options of
  the frame check are left out; the header of a frame is one byte.
* cc1100: infinite packets, the quality of the link (the threshold of quality is
  always reached), the PA table, the carrier sense modes 4 to 7 (as 0 to 3), the
  inversion of pins and the memory-mapped cc1101 are left out; dates of wake on
  radio are any.
* MSP430: decoding, cycles, the output units of the timers, the LCD, the
  ADC10 (its update is compiled out), comparators, I2C, the newer USCI and the
  radio inside the cc430 are left out. ATmega: everything but the instructions and
  the ports.
* Clocks: what a setting of the DCO gives and the rounding of floats are left out.
* Boards: the bytes the host sends to a serial port, the options and the creation
  of devices are left out; segment displays and windows are presentation.
* gdb: the text of packets and hardware breakpoints (compiled out) are left out.
* wtracer: byte order, headings and the limit of 200 merged files are left out.

## 7. Plan

1. `LibSelect`: the descriptor table and its signals.
2. `EventList`: the sorted list of `core_add_packet`, refined to the sets used
   here.
3. `Console`: run control over the main loop.
4. The SPI automaton of the registers of the two radios.
