---------------------------------- MODULE MCMcu ---------------------------------
(***************************************************************************)
(* The microcontrollers, for TLC: the timers of the MSP430, a serial port  *)
(* with the DMA or the converter, with the interrupts they raise, its      *)
(* clocks, the ports, the instructions of one of the two cores, or a core  *)
(* under gdb.                                                              *)
(***************************************************************************)
EXTENDS Integers, Sequences, FiniteSets, FiniteSetsExt

CONSTANTS Top, Limits, Others, Ccr, Ticks, MaxWrites, MaxNest,             \* Msp430Timer
          W, Operands, MemTop, Stack, TextAt,                        \* Msp430Alu
          Values, RamTop, Ramend, Data,                            \* AvrAlu
          ByteTime, MaxTx, MaxRx, Block, MaxSets,                  \* Msp430Serial
          Channels, AdcTicks, Sht, Conv, MaxStarts,                \* Msp430Adc
          Systems, Period, Confs, Fraction, Cycles, MaxTurns, MaxConfs,  \* Msp430Clock
          Pins, PortKinds, MaxSettings,                            \* DigiIO
          Factors, Times, Dividers, Intervals, MaxFlashOps, MaxSystem, MaxAge,   \* Msp430System
          Program, Monitors, NewValue, MaxOps, MaxBreaks, MaxBacktracks, MaxDeaths  \* Debugger
VARIABLES unit,                                  \* what this behaviour is about
          m, writes, watch, hit, missed, twice   \* of Msp430Timer; of a core, m and watch;
                                                 \* of the other peripherals, m

\* Each mode, compare values equal or below the period, and either comparator 0 alone
\* or the sources of the other vector enabled; timer B in two modes, the later timers in
\* one.  The larger value is negative for who writes it.
Setup(timer, mc, first, enabled) ==
  [timer |-> timer, mc |-> mc, ccie |-> enabled, ie |-> 0 \notin enabled,
   ccis |-> IF timer \in {"TA0", "TA1"} \/ first = Min(Ccr) THEN "B" ELSE "A",
   ccr |-> [i \in {0} \cup Others |-> IF i = 0 THEN Max(Ccr) ELSE IF i = 1 THEN first ELSE Min(Ccr)]]
Setups ==
  {Setup("A", 1, first, {1, 2}) : first \in Ccr}
  \cup {Setup("A", 2, Min(Ccr), {1, 2}), Setup("A", 3, Max(Ccr), {1, 2}), Setup("A", 3, Min(Ccr), {0}),
        Setup("B", 1, Max(Ccr), {0}), Setup("B", 2, Min(Ccr), {1, 2}),
        Setup("TA0", 1, Min(Ccr), {1, 2}), Setup("TA1", 1, Max(Ccr), {1, 2})}

\* Each port polled or by interrupts; those the DMA serves, by either direction of it.
Ports == {[kind |-> k, how |-> "cpu"] : k \in {"uart", "spi", "slave", "uscia", "uscib"}}
         \cup {[kind |-> k, how |-> h] : k \in {"uart", "spi", "uscia"}, h \in {"dmatx", "dmarx"}}

\* The periods of the sources, and settings of the clocks: faster and slower, from each
\* source, with and without dividers.
MCPeriod == [lfxt1 |-> 11, xt2 |-> 3, vlo |-> 17, refo |-> 10]
Conf(dco, selm, sels, diva, divm, divs, off) ==
  [dco |-> dco, selm |-> selm, sels |-> sels, diva |-> diva, divm |-> divm, divs |-> divs, off |-> off]
MCConfs ==
  {Conf(7, 0, 0, 1, 0, 1, TRUE), Conf(4, 2, 1, 2, 1, 0, FALSE),
   Conf(4, 3, 0, 0, 0, 2, TRUE), Conf(5, 0, 1, 0, 1, 1, FALSE)}

\* Periods are of time, an instruction lasts no negative time, and the registers have the
\* widths of the source: two bits choose a divider.
ASSUME ClockAssumption ==
  /\ Systems \subseteq {"basic", "plus", "fll", "ucs"} /\ Fraction \in Nat \ {0} /\ Cycles \subseteq Nat
  /\ Period \in [{"lfxt1", "xt2", "vlo", "refo"} -> Nat \ {0}]
  /\ Confs \subseteq [dco : Nat \ {0}, selm : 0..3, sels : 0..3, diva : 0..3, divm : 0..3, divs : 0..3, off : BOOLEAN]

\* The clocks of a turn are counted.
ASSUME TickAssumption == Ticks \subseteq Nat

\* The limits of the timers and the values compared are those of their registers, and
\* comparator 0 is not one of the others.
ASSUME TimerAssumption ==
  /\ Top \in Nat /\ Others \subseteq Nat \ {0} /\ IsFiniteSet(Others)
  /\ Ccr \subseteq 0..Top /\ Ccr # {} /\ Limits \subseteq 0..Top /\ Limits # {}

\* They are masks: all ones.
ASSUME MaskAssumption == \A limit \in Limits \cup {Top} : \E w \in 1..16 : limit = 2^w - 1

\* The converter has memories.
ASSUME ChannelAssumption == Channels \in Nat \ {0}

\* The timing generator of the flash, slower than the core, and the watchdog's intervals.
MCTimes == [byte |-> 2, first |-> 2, next |-> 1, last |-> 1, segment |-> 3, mass |-> 4]
MCIntervals == <<6, 3>>

\* Each interval is longer than an instruction: they are of 64 ticks and more.
ASSUME IntervalAssumption ==
  1 \in DOMAIN Intervals /\ \A i \in DOMAIN Intervals :
                              Intervals[i] \in Nat \ {0} /\ \A n \in Cycles : n <= Intervals[i]

\* A program of accesses by words and by a byte; variables monitored, or changed at their
\* first read or write.
Insn(op, v) == [op |-> op, at |-> v]
MCProgram == <<Insn("inc", "x"), Insn("st", "x"), Insn("ld", "y"), Insn("ldb", "x"), Insn("jmp", "x")>>
Entry(v, mode) == [at |-> v, mode |-> mode]
MCMonitors ==
  {[monitor |-> <<Entry("x", {"r", "w"}), Entry("y", {})>>, modify |-> {"x"}],
   [monitor |-> <<Entry("y", {"r"}), Entry("x", {"w"})>>, modify |-> {"y"}]}

T == INSTANCE Msp430Timer
S == INSTANCE Msp430Serial
A == INSTANCE Msp430Adc
K == INSTANCE Msp430Clock
D == INSTANCE DigiIO
Y == INSTANCE Msp430System
G == INSTANCE Debugger
M == INSTANCE Msp430Alu WITH cpu <- m, task <- watch
V == INSTANCE AvrAlu WITH cpu <- m, task <- watch

rest == <<writes, hit, missed, twice>>
Unused == writes = 0 /\ hit = {} /\ missed = FALSE /\ twice = FALSE
Unwatched == watch = {} /\ Unused

Init ==
  \/ unit = "timer" /\ T!TimInit
  \/ unit = "serial" /\ S!SerInit /\ Unwatched
  \/ unit = "adc" /\ A!AdcInit /\ Unwatched
  \/ unit = "clock" /\ K!ClkInit /\ Unwatched
  \/ unit = "ports" /\ D!PortInit /\ Unwatched
  \/ unit = "system" /\ Y!SystemInit /\ Unwatched
  \/ unit = "gdb" /\ G!DebugInit /\ Unwatched
  \/ unit = "msp430" /\ M!AluInit /\ Unused
  \/ unit = "atmega128" /\ V!AvrInit /\ Unused

StepTimer == unit = "timer" /\ T!TimNext /\ UNCHANGED unit
StepSerial == unit = "serial" /\ S!SerNext /\ UNCHANGED <<unit, watch, rest>>
StepAdc == unit = "adc" /\ A!AdcNext /\ UNCHANGED <<unit, watch, rest>>
StepClock == unit = "clock" /\ K!ClkNext /\ UNCHANGED <<unit, watch, rest>>
StepPorts == unit = "ports" /\ D!PortNext /\ UNCHANGED <<unit, watch, rest>>
StepSystem == unit = "system" /\ Y!SystemNext /\ UNCHANGED <<unit, watch, rest>>
StepGdb == unit = "gdb" /\ G!DebugNext /\ UNCHANGED <<unit, watch, rest>>
StepMsp430 == unit = "msp430" /\ M!AluNext /\ UNCHANGED <<unit, rest>>
StepAtmega == unit = "atmega128" /\ V!AvrNext /\ UNCHANGED <<unit, rest>>
Next == StepTimer \/ StepSerial \/ StepAdc \/ StepClock \/ StepPorts \/ StepSystem
        \/ StepGdb \/ StepMsp430 \/ StepAtmega

\* A turn in which the program does nothing to the peripheral.
Idle ==
  \/ unit = "timer" /\ T!Asleep /\ UNCHANGED unit
  \/ unit = "serial" /\ S!Nop /\ UNCHANGED <<unit, watch, rest>>
  \/ unit = "adc" /\ A!Nop /\ UNCHANGED <<unit, watch, rest>>
  \/ unit = "system" /\ Y!Nop /\ UNCHANGED <<unit, watch, rest>>

vars == <<unit, m, watch, rest>>
Spec == Init /\ [][Next]_vars /\ WF_vars(Idle)

\* An enabled interrupt whose flag is set stays pending (Msp430Timer, Msp430Serial,
\* Msp430Adc, DigiIO, Msp430System).
InterruptKept ==
  CASE unit = "timer" -> T!InterruptKept
    [] unit = "serial" -> S!SerInterruptKept
    [] unit = "adc" -> A!AdcInterruptKept
    [] unit = "ports" -> D!PortInterruptKept
    [] unit = "system" -> Y!SystemInterruptKept
    [] OTHER -> TRUE

\* A comparator matches in each period its register is left alone (Msp430Timer).
MatchEachPeriod == unit = "timer" => T!MatchEachPeriod

\* No byte is lost, doubled or reordered on its way through a serial port, the conversions
\* fill the memories in sequence from CSTARTADD on, and the pins, their flags and the board
\* agree (Msp430Serial, Msp430Adc, DigiIO).
DataKept ==
  CASE unit = "serial" -> S!BytesKept
    [] unit = "adc" -> A!ConvertsInOrder
    [] unit = "ports" -> D!PinsKept
    [] unit = "system" -> Y!FlashKept
    [] OTHER -> TRUE

\* The sources and the signals of the clocks lose no tick, and tell the time of the
\* machine (Msp430Clock).
TicksKept ==
  CASE unit = "clock" -> K!NoTickLost /\ K!OnTime
    [] unit = "system" -> Y!WatchdogOnTime
    [] OTHER -> TRUE

\* The core wakes when a comparator it awaits matches, a block the DMA has begun to
\* send ends, and a converter enabled converts.
Waiting ==
  CASE unit = "timer" -> m.off /\ \E i \in {0} \cup Others : T!Awaits(i)
    [] unit = "serial" -> S!Sending
    [] unit = "adc" -> A!Started
    [] unit = "system" -> m.flash.busy
    [] OTHER -> FALSE
Served ==
  CASE unit = "timer" -> ~ m.off
    [] unit = "serial" -> S!Ended
    [] unit = "adc" -> A!Converted
    [] unit = "system" -> ~ m.flash.busy
    [] OTHER -> TRUE
Wakes == Waiting ~> Served

\* The programs end with what arithmetic says (Msp430Alu, AvrAlu, Msp430System),
\* and under gdb with what they compute alone, stopped where it asked (Debugger).
Computes ==
  CASE unit = "msp430" -> M!Computes
    [] unit = "atmega128" -> V!AvrComputes
    [] unit = "system" -> Y!Multiplies
    [] unit = "gdb" -> G!DebugComputes /\ G!StopsWhereAsked
    [] OTHER -> TRUE
=============================================================================
