------------------------------ MODULE Msp430Clock -------------------------------
(***************************************************************************)
(* The clock systems of the MSP430 (basic clock, basic clock plus, FLL+,   *)
(* UCS): the time an instruction takes, what it is in ticks of each source *)
(* and in ticks of the signals the peripherals count, with the dividers    *)
(* and the low power modes that stop them.  A period is in fractions of a  *)
(* nanosecond, which the two basic clocks compute with (HIGH_RES_CLOCK)    *)
(* while the time of the machine is a whole number of them; rounding of    *)
(* floats, and the value of the frequency a setting of the DCO gives, are  *)
(* left out.                                                               *)
(***************************************************************************)
EXTENDS Naturals

CONSTANTS
  Systems,     \* among {"basic", "plus", "fll", "ucs"}
  Period,      \* [{"lfxt1", "xt2", "vlo", "refo"} -> fractions]: *_cycle_nanotime
  Confs,       \* settings a program writes: [dco, selm, sels, diva, divm, divs, off]
  Fraction,    \* fractions in a nanosecond
  Cycles,      \* cycles of an instruction
  MaxTurns,    \* bound: turns
  MaxConfs     \* bound: writes of the registers and changes of mode

VARIABLE m     \* struct msp430_basic_clock_t and its siblings, SR, what has been counted

Sources == {"lfxt1", "xt2", "vlo", "refo", "dco"}
Signals == {"MCLK", "ACLK", "ACLKn", "SMCLK"}
PeriodOf(s, src) == IF src = "dco" THEN s.dco ELSE Period[src]
CpuOn(s) == "CPUOFF" \notin s.sr
OscOn(s) == "OSCOFF" \notin s.sr

\* The source of a signal: lfxt1s replaces the crystal of the basic clock plus, which has
\* no second one; the selections of the UCS are 0..7.
UcsSource(sel) ==
  CASE sel = 0 -> "lfxt1" [] sel = 1 -> "vlo" [] sel = 2 -> "refo" [] sel \in {3, 4} -> "dco" [] OTHER -> "xt2"
Crystal(s) == IF s.kind = "plus" /\ s.vlo THEN "vlo" ELSE "lfxt1"
MclkSource(s) ==
  CASE s.kind = "ucs" -> UcsSource(s.selm)
    [] s.kind # "ucs" /\ s.selm < 2 -> "dco"
    [] s.kind \in {"basic", "fll"} /\ s.selm = 2 -> "xt2"
    [] OTHER -> Crystal(s)
AclkSource(s) == IF s.kind = "ucs" THEN UcsSource(s.sela) ELSE Crystal(s)
SmclkSource(s) ==
  CASE s.kind = "ucs" -> UcsSource(s.sels)
    [] s.kind # "ucs" /\ s.sels = 0 -> "dco"
    [] s.kind = "plus" /\ s.sels = 1 -> Crystal(s)
    [] OTHER -> "xt2"

\* The time an instruction lasts.
DividedBy(s) == CASE s.kind \in {"basic", "plus"} -> 2^s.divm [] s.kind = "ucs" /\ s.selm = 3 -> 2^s.flld [] OTHER -> 1
NanoAdd(s, cycles) == cycles * DividedBy(s) * PeriodOf(s, MclkSource(s))

\* Which sources run.  The UCS looks at OSCOFF and CPUOFF the wrong way round when the
\* DCO is derived from one.
SmclkWanted(s, sel) == s.sels \in sel /\ (s.kind \in {"basic", "plus"} \/ ~ s.smclkoff)
RunsBasic(s, src) ==
  CASE src = "lfxt1" -> OscOn(s) \/ (s.selm = 3 /\ CpuOn(s))
    [] src = "xt2" -> s.kind # "plus" /\ (~ s.xt2off \/ (s.selm = 2 /\ CpuOn(s)) \/ SmclkWanted(s, {1}))
    [] src = "dco" -> "SCG0" \notin s.sr \/ (s.selm < 2 /\ CpuOn(s)) \/ SmclkWanted(s, {0})
    [] OTHER -> src = "vlo" /\ s.kind = "plus"
RunsUcs(s, src) ==
  LET reference == src = UcsSource(s.selref) /\ src # "vlo"
      sel == {x \in 0..7 : UcsSource(x) = src}
  IN  CASE src \in {"dco", "xt2"} -> TRUE
        [] src = "vlo" -> s.sela = 4 \/ s.selm = 1 \/ s.sels = 1
        [] OTHER -> \/ OscOn(s) /\ s.sela \in sel
                    \/ CpuOn(s) /\ s.selm \in sel
                    \/ SmclkWanted(s, sel)
                    \/ reference /\ (\/ s.sela \in {3, 4} /\ ~ OscOn(s)
                                     \/ s.selm \in {3, 4} /\ ~ CpuOn(s)
                                     \/ SmclkWanted(s, {3, 4}))
Runs(s, src) == IF s.kind = "ucs" THEN RunsUcs(s, src) ELSE RunsBasic(s, src)

\* CLOCK_DIVMOD_TEMP.  Mutant: what remains of a turn is forgotten.
DivModForgets(s, src, nano) == [inc |-> nano \div PeriodOf(s, src), temp |-> 0]
DivMod(s, src, nano) ==
  [inc |-> (s.temp[src] + nano) \div PeriodOf(s, src), temp |-> (s.temp[src] + nano) % PeriodOf(s, src)]

\* A signal: the ticks of its source, divided.  The mask of the remainder is that of the
\* last divider written (the UCS has none for ACLK and SMCLK).
Divide(left, inc, div, mask) ==
  [fed |-> inc, inc |-> (left + inc) \div 2^div, left |-> (left + inc) % 2^mask]
Undivided(inc) == Divide(0, inc, 0, 0)

Mclk(s, cycles) == Undivided(IF CpuOn(s) THEN cycles ELSE 0)
Aclk(s, inc) ==
  IF s.kind = "fll" THEN Undivided(inc["lfxt1"])
  ELSE Divide(s.left["ACLK"], inc[AclkSource(s)], s.diva, s.diva)
AclkN(s, aclk) ==
  CASE s.kind = "fll" -> Divide(s.left["ACLKn"], aclk, s.diva, s.diva)
    [] s.kind = "ucs" -> Divide(s.left["ACLKn"], aclk, s.divpa, s.diva)
    [] OTHER -> Undivided(0)
Smclk(s, inc) ==
  CASE "SCG1" \in s.sr /\ s.kind # "ucs" -> [fed |-> 0, inc |-> 0, left |-> s.left["SMCLK"]]
    [] "SCG1" \notin s.sr /\ s.kind = "fll" -> Undivided(IF s.smclkoff THEN 0 ELSE inc[SmclkSource(s)])
    [] OTHER -> Divide(s.left["SMCLK"], inc[SmclkSource(s)], s.divs, s.divs)

\* MCU_CLOCK_SYSTEM_UPDATE, as the peripherals see it before UPDATE_DONE clears the
\* increments.  The time of the machine is in whole nanoseconds.
Whole(s, nano) == IF s.kind \in {"basic", "plus"} THEN nano \div Fraction ELSE nano
Update(s, cycles) ==
  LET nano == NanoAdd(s, cycles)
      on == {x \in Sources : Runs(s, x)}
      src == [x \in Sources |-> IF x \in on THEN DivMod(s, x, nano) ELSE [inc |-> 0, temp |-> s.temp[x]]]
      inc == [x \in Sources |-> src[x].inc]
      aclk == Aclk(s, inc)
      sig == [x \in Signals |-> CASE x = "MCLK" -> Mclk(s, cycles) [] x = "ACLK" -> aclk
                                  [] x = "ACLKn" -> AclkN(s, aclk.inc) [] OTHER -> Smclk(s, inc)]
  IN  [s EXCEPT !.temp = [x \in Sources |-> src[x].temp],
                !.left = [x \in Signals |-> sig[x].left],
                !.turns = @ + 1, !.since = @ + 1, !.time = @ + Whole(s, nano), !.held = @ \cap on,
                !.ran = [x \in Sources |-> IF x \in on THEN @[x] + nano ELSE @[x]],
                !.ticks = [x \in Sources |-> @[x] + inc[x]],
                !.in = [x \in Signals |-> @[x] + sig[x].fed],
                !.out = [x \in Signals |-> @[x] + sig[x].inc]]
-----------------------------------------------------------------------------

\* DCOCTL, BCSCTL1-3 and their siblings; the UCS writes each of its registers into UCSCTL0.
WriteBasic(s, c) ==
  [s EXCEPT !.dco = c.dco, !.selm = c.selm, !.sels = c.sels, !.diva = c.diva, !.divm = c.divm,
            !.divs = c.divs, !.xt2off = c.off]
WritePlus(s, c) ==
  [s EXCEPT !.dco = c.dco, !.selm = c.selm, !.sels = c.sels, !.diva = c.diva, !.divm = c.divm,
            !.divs = c.divs, !.vlo = c.off]
WriteFll(s, c) ==
  [s EXCEPT !.dco = c.dco, !.selm = c.selm, !.sels = c.sels, !.diva = c.diva,
            !.xt2off = c.off, !.smclkoff = c.off]
WriteUcs(s, c) == s
Write(s, c) ==
  CASE s.kind = "basic" -> WriteBasic(s, c)
    [] s.kind = "plus" -> WritePlus(s, c)
    [] s.kind = "fll" -> WriteFll(s, c)
    [] OTHER -> WriteUcs(s, c)

\* What is counted for the properties starts again at a write.
Recount(s) ==
  [s EXCEPT !.time = 0, !.since = 0, !.held = Sources, !.start = s.temp, !.ran = s.temp,
            !.ticks = [x \in Sources |-> 0], !.in = s.left, !.out = [x \in Signals |-> 0]]

Reset(kind) ==
  [kind |-> kind, sr |-> {}, dco |-> 4,
   selm |-> IF kind = "ucs" THEN 4 ELSE 0, sels |-> IF kind = "ucs" THEN 4 ELSE 0, sela |-> 0, selref |-> 0,
   flld |-> 1, diva |-> 0, divm |-> 0, divs |-> 0, divpa |-> 0,
   xt2off |-> kind = "basic", smclkoff |-> FALSE, vlo |-> FALSE,
   temp |-> [x \in Sources |-> 0], left |-> [x \in Signals |-> 0],
   turns |-> 0, confs |-> 0, time |-> 0, since |-> 0, held |-> Sources,
   start |-> [x \in Sources |-> 0], ran |-> [x \in Sources |-> 0], ticks |-> [x \in Sources |-> 0],
   in |-> [x \in Signals |-> 0], out |-> [x \in Signals |-> 0]]
ClkInit == \E kind \in Systems : m = Reset(kind)

Turn == m.turns < MaxTurns /\ \E cycles \in Cycles : m' = Update(m, cycles)
SetClock ==
  /\ CpuOn(m) /\ m.confs < MaxConfs
  /\ \E c \in Confs : m' = Recount([Write(m, c) EXCEPT !.confs = @ + 1])
\* The program goes to LPM0, LPM1, LPM3 or LPM4; an interrupt wakes it, SCG0 kept.
Sleep ==
  /\ CpuOn(m) /\ m.confs < MaxConfs
  /\ \E off \in {{}, {"SCG0"}, {"SCG0", "SCG1"}, {"SCG0", "SCG1", "OSCOFF"}} :
       m' = [m EXCEPT !.sr = {"CPUOFF"} \cup off, !.confs = @ + 1]
Wake == ~ CpuOn(m) /\ m' = [m EXCEPT !.sr = @ \cap {"SCG0"}]
Over == m.turns = MaxTurns /\ UNCHANGED m
ClkNext == Turn \/ SetClock \/ Sleep \/ Wake \/ Over
-----------------------------------------------------------------------------

\* No tick of a source is lost, or counted twice, over the turns, the times it was
\* stopped and the changes of its period; nor by the dividers.
Shift(x) == CASE x = "ACLK" /\ m.kind # "fll" -> m.diva [] x = "ACLKn" /\ m.kind = "fll" -> m.diva
              [] x = "SMCLK" /\ m.kind # "fll" -> m.divs [] OTHER -> 0
NoTickLost ==
  /\ \A x \in Sources : m.ticks[x] * PeriodOf(m, x) + m.temp[x] = m.ran[x]
  /\ \A x \in {"ACLK", "SMCLK"} : m.out[x] * 2^Shift(x) + m.left[x] = m.in[x]

\* The sources that have not stopped tell the time of the machine, which falls behind by
\* less than a nanosecond at each turn.
OnTime ==
  \A x \in m.held :
    LET unit == IF m.kind \in {"basic", "plus"} THEN Fraction ELSE 1
        behind == m.ran[x] - m.start[x] - unit * m.time
    IN  0 <= behind /\ behind <= (unit - 1) * m.since
=============================================================================
