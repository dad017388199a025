------------------------------- MODULE Msp430Timer ------------------------------
(***************************************************************************)
(* The timers of the MSP430 (A, B and, on the later chips, TA0 and TA1: a   *)
(* copy of the code for each), with the interrupt vectors they share with  *)
(* the core, and the program that drives one of them.                      *)
(* A turn of the machine is one instruction, the update of the timer for   *)
(* the ticks it lasted, the captures, and the start of an interrupt.  The  *)
(* clock divider is left to the number of ticks; the output units, which   *)
(* nothing reads, are left out.                                            *)
(***************************************************************************)
EXTENDS Naturals, Integers, Sequences, FiniteSets, FiniteSetsExt

CONSTANTS
  Top,       \* TAR_MAX_LIMIT
  Limits,    \* tbr_limit, as CNTL chooses it
  Others,    \* the comparators of the vector 1: 1..2, 1..4 or 1..6
  Setups,    \* the timer and how the program has set it up: mode, compare values, interrupts
  Ccr,       \* values written in the compare registers
  Ticks,     \* ticks of the timer in one turn
  MaxWrites, \* bound: writes of registers by the program
  MaxNest    \* bound: interrupts within interrupts

VARIABLES
  m,      \* struct msp430_timerA_t, with the core's SR, MCU_IV and stack
  writes, \* of MaxWrites, so far
  watch,  \* comparators whose period the program leaves alone
  hit,    \* comparators that have matched in this period
  missed, \* a watched comparator ended its period without a match
  twice   \* a watched comparator matched twice in a period

timVars == <<m, writes, watch, hit, missed, twice>>

STOP == 0  UP == 1  CONT == 2  UD == 3     \* enum timer_mode_t
Unreachable == Top + 1                     \* COMPARE_UNREACHABLE
UnreachableDown == -1                      \* COMPARE_UNREACHABLE_DOWN
Overflow == Cardinality(Others) + 1        \* the last source of the vector 1
Comparators == {0} \cup Others

Vector(i) == IF i = 0 THEN 0 ELSE 1

\* msp430_interrupt_set, whatever GIE is.
Post(s, v) == [s EXCEPT !.iv = @ \cup {v}]

TimersTA == {"TA0", "TA1"}

\* The interrupt vector register: with nothing pending it keeps its value; that of TA0
\* and TA1 only tells an overflow.
Pending(s, i) == s.ccifg[i] /\ s.ccie[i]
HighestTiv(s) ==
  LET some == {i \in Others : Pending(s, i)}
  IN  [s EXCEPT !.tiv = IF some # {} THEN Min(some) ELSE IF s.ifg THEN Overflow ELSE @]
OverflowTiv(s) == [s EXCEPT !.tiv = IF s.ifg THEN Overflow ELSE @]
SetTivA(s) == HighestTiv(s)
SetTivB(s) == HighestTiv(s)
SetTivTA0(s) == OverflowTiv(s)
SetTivTA1(s) == OverflowTiv(s)
SetTiv(s) ==
  CASE s.timer = "A" -> SetTivA(s) [] s.timer = "B" -> SetTivB(s)
    [] s.timer = "TA0" -> SetTivTA0(s) [] OTHER -> SetTivTA1(s)

\* msp430_timerA_reset_highest_intr: whether or not it is enabled.
ClearFirst(s, sources) ==
  LET some == {i \in sources : s.ccifg[i]}
  IN  SetTiv(IF some = {} THEN [s EXCEPT !.ifg = FALSE]
             ELSE [s EXCEPT !.ccifg[Min(some)] = FALSE])
ResetHighestA(s) == ClearFirst(s, Others)
ResetHighestB(s) == ClearFirst(s, Others)
ResetHighestTA0(s) == ClearFirst(s, Others \cap {1, 2})
ResetHighestTA1(s) == ClearFirst(s, Others \cap {1, 2})

\* Comparators raise their flags.
RaiseCcifg(s, some) ==
  IF some = {} THEN s
  ELSE LET n == SetTiv([s EXCEPT !.ccifg = [i \in Comparators |-> i \in some \/ s.ccifg[i]]])
       IN  [n EXCEPT !.iv = @ \cup {Vector(i) : i \in {j \in some : s.ccie[j]}}]

RaiseIfg(s) ==
  LET n == SetTiv([s EXCEPT !.ifg = TRUE]) IN IF s.ie THEN Post(n, 1) ELSE n

\* TIMER_COMPARE, TIMER_COMPARE_DOWN, TIMER_COMPARE_WRAPS(_DOWN): each comparator looks at
\* itself only, so that their order is indifferent.  Timer B compares with its latches,
\* which a capture leaves alone.
Compare(s, some) ==
  LET free == {i \in some : ~ s.cap[i] /\ ~ s.ccifg[i]}
      hits == {i \in free : s.tar >= s.cl[i] /\ s.tar > s.b[i]}
      Last(i) == IF i \in hits THEN Unreachable
                 ELSE IF i \in free /\ s.b[i] # Unreachable THEN s.tar ELSE s.b[i]
  IN  RaiseCcifg([s EXCEPT !.b = [i \in Comparators |-> Last(i)]], hits)

CompareDown(s, some) ==
  LET free == {i \in some : s.cl[i] > 0 /\ s.cl[i] <= s.ccr[0] /\ ~ s.cap[i] /\ ~ s.ccifg[i]}
      hits == {i \in free : s.cl[i] >= s.tar /\ s.b[i] > s.tar}
      Last(i) == IF i \in hits THEN UnreachableDown
                 ELSE IF i \in free /\ s.b[i] # UnreachableDown THEN s.tar ELSE s.b[i]
  IN  RaiseCcifg([s EXCEPT !.b = [i \in Comparators |-> Last(i)]], hits)

\* Mutant: the wrap leaves the value of the last comparison.
WrapsKeepsAll(s, value) == s
Wraps(s, value) == [s EXCEPT !.b = [i \in Comparators |-> IF i = 0 THEN s.b[0] ELSE value]]

\* msp430_timerA_update, one case for each mode.
UpdateUp(s, ticks) ==
  LET a == Compare([s EXCEPT !.tar = @ + ticks], Others)
  IN  IF a.tar < a.ccr[0] THEN a
      ELSE Wraps([RaiseIfg(RaiseCcifg(a, {0})) EXCEPT !.tar = @ - a.ccr[0]], 0)

\* Mutant: the wrap of comparator 0 is forgotten, as in the other modes.
UpdateContOthersOnly(s, ticks, limit) ==
  LET a == Compare([s EXCEPT !.tar = @ + ticks], Comparators)
  IN  IF a.tar < limit THEN a ELSE Wraps([RaiseIfg(a) EXCEPT !.tar = @ - limit], 0)
UpdateCont(s, ticks, limit) ==
  LET a == Compare([s EXCEPT !.tar = @ + ticks], Comparators)
  IN  IF a.tar < limit THEN a
      ELSE [RaiseIfg(a) EXCEPT !.tar = @ - limit, !.b = [i \in Comparators |-> 0]]

UpdateUpDown(s, ticks) ==
  IF ~ s.down
  THEN LET a == [s EXCEPT !.tar = @ + ticks]
       IN  IF a.tar < a.ccr[0] THEN Compare(a, Others)
           ELSE Wraps(RaiseCcifg([a EXCEPT !.down = TRUE, !.tar = a.ccr[0]], {0}), a.ccr[0])
  ELSE LET a == [s EXCEPT !.tar = @ - ticks]
       IN  IF a.tar > 0 THEN CompareDown(a, Others)
           ELSE Wraps(RaiseIfg([a EXCEPT !.down = FALSE, !.tar = 0]), 0)

ByMode(s, ticks, limit) ==
  IF ticks = 0 THEN s
  ELSE CASE s.mc = UP /\ s.ccr[0] > 0 -> UpdateUp(s, ticks)
         [] s.mc = CONT -> UpdateCont(s, ticks, limit)
         [] s.mc = UD /\ s.ccr[0] > 0 -> UpdateUpDown(s, ticks)
         [] OTHER -> s
UpdateA(s, ticks) == ByMode(s, ticks, Top)
UpdateB(s, ticks) == ByMode(s, ticks, s.limit)
UpdateTA0(s, ticks) == ByMode(s, ticks, Top)
UpdateTA1(s, ticks) == ByMode(s, ticks, Top)
UpdateTimer(s, ticks) ==
  CASE s.timer = "A" -> UpdateA(s, ticks) [] s.timer = "B" -> UpdateB(s, ticks)
    [] s.timer = "TA0" -> UpdateTA0(s, ticks) [] OTHER -> UpdateTA1(s, ticks)

\* The inputs in capture mode, CCIxA or CCIxB as CCIS chooses: pins of the ports, or the
\* ACLK; TA0 and TA1 have one input only.
InputA(i, ccis) ==
  CASE ccis = "A" -> "port1" [] ccis = "B" /\ i = 0 -> "port2" [] ccis = "B" /\ i = 2 -> "aclk"
    [] OTHER -> "none"
InputB(i, ccis) == IF ccis = "B" /\ i = 6 THEN "aclk" ELSE "port4"
InputTA(i, ccis) == IF ccis = "B" /\ i = 2 THEN "aclk" ELSE "none"

\* What TAR holds goes to the compare registers.
Load(s, some, to) == [i \in Comparators |-> IF i \in some THEN s.tar ELSE to[i]]
CaptureAt(s, some) ==
  RaiseCcifg([s EXCEPT !.ccr = Load(s, some, s.ccr), !.cl = Load(s, some, s.cl)], some)
CaptureAtB(s, some) == RaiseCcifg([s EXCEPT !.ccr = Load(s, some, s.ccr)], some)
CaptureA(s, edges) == CaptureAt(s, {i \in edges : InputA(i, s.ccis) # "none"})
CaptureB(s, edges) == CaptureAtB(s, {i \in edges : InputB(i, s.ccis) # "none"})
CaptureTA0(s, edges) == CaptureAt(s, {i \in edges : InputTA(i, s.ccis) # "none"})
CaptureTA1(s, edges) == CaptureAt(s, {i \in edges : InputTA(i, s.ccis) # "none"})
Capture(s, edges) ==
  CASE s.timer = "A" -> CaptureA(s, edges) [] s.timer = "B" -> CaptureB(s, edges)
    [] s.timer = "TA0" -> CaptureTA0(s, edges) [] OTHER -> CaptureTA1(s, edges)

\* msp430_timerA_chkifg, on RETI.
\* Mutant: only vector 0 is looked at again.
CheckIfgFirstOnly(s) == IF Pending(s, 0) THEN Post(s, 0) ELSE s
CheckIfg(s) ==
  IF Pending(s, 0) THEN Post(s, 0)
  ELSE IF s.tiv # 0 /\ ((s.ie /\ s.ifg) \/ \E i \in Others : Pending(s, i)) THEN Post(s, 1)
  ELSE s
CheckIfgB(s) == CheckIfg(s)

\* msp430_interrupt_checkifg, which does not look at TA0 and TA1.
CheckFlags(s) ==
  CASE s.timer = "A" -> CheckIfg(s) [] s.timer = "B" -> CheckIfgB(s) [] OTHER -> s
-----------------------------------------------------------------------------

\* The registers, in the order of msp430_timerA_write: TACTL, TACCTLx, TAR, TACCRx.
WriteCtl(s, mc, ie, ifg, clr) ==
  LET a == [s EXCEPT !.tar = IF clr \/ (mc # s.mc /\ mc = UP /\ @ > s.ccr[0]) THEN 0 ELSE @,
                     !.down = IF mc # s.mc THEN FALSE ELSE @]
      n == IF (ie # s.ie \/ ifg # s.ifg) /\ ie /\ ifg THEN Post(a, 1) ELSE a
  IN  SetTiv([n EXCEPT !.mc = mc, !.ie = ie, !.ifg = ifg])

\* TCCTLWRITE_BEGIN, TCCTLWRITE_END, TCHKIFG_WRITE.
WriteCctl(s, i, cap, ie, ifg, vector) ==
  LET n == IF (ie # s.ccie[i] \/ ifg # s.ccifg[i]) /\ ie /\ ifg THEN Post(s, vector) ELSE s
  IN  SetTiv([n EXCEPT !.cap[i] = cap, !.ccie[i] = ie, !.ccifg[i] = ifg])

\* WRITE_TIMERA_CCR; timer B loads its latch at once, whatever CLLD says.
SetCcr(s, i, v) ==
  [s EXCEPT !.ccr[i] = v, !.cl[i] = v, !.b[i] = IF s.tar > v THEN Unreachable ELSE 0]

\* The value written is an int16_t: in its upper half it is negative, hence never above 0
\* and always below TAR, although the register then holds it unsigned.
Signed(v) == IF v > Top \div 2 THEN v - (Top + 1) ELSE v

WriteCcr0(s, v) ==
  LET restarts == s.mc \in {UP, UD} /\ s.ccr[0] = 0 /\ Signed(v) > 0
      below    == s.mc \in {UP, UD} /\ ~ restarts /\ Signed(v) < s.tar
  IN  SetCcr([s EXCEPT !.tar = IF restarts \/ (below /\ s.mc = UP) THEN 0 ELSE @,
                       !.down = IF restarts THEN FALSE ELSE @ \/ (below /\ s.mc = UD)], 0, v)

WriteCcr(s, i, v) == IF i = 0 THEN WriteCcr0(s, v) ELSE SetCcr(s, i, v)

\* What a register holds; reading the vector register also resets the flag it tells.
Content(s, r) ==
  CASE r.reg = "ctl" -> [mc |-> s.mc, ie |-> s.ie, ifg |-> s.ifg]
    [] r.reg = "cctl" -> [cap |-> s.cap[r.i], ie |-> s.ccie[r.i], ifg |-> s.ccifg[r.i]]
    [] r.reg = "tar" -> s.tar [] r.reg = "ccr" -> s.ccr[r.i] [] OTHER -> s.tiv
ReadA(s, r) == [v |-> Content(s, r), s |-> IF r.reg = "tiv" THEN ResetHighestA(s) ELSE s]
ReadB(s, r) == [v |-> Content(s, r), s |-> IF r.reg = "tiv" THEN ResetHighestB(s) ELSE s]
ReadTA0(s, r) == [v |-> Content(s, r), s |-> IF r.reg = "tiv" THEN ResetHighestTA0(s) ELSE s]
ReadTA1(s, r) == [v |-> Content(s, r), s |-> IF r.reg = "tiv" THEN ResetHighestTA1(s) ELSE s]
ReadTimer(s, r) ==
  CASE s.timer = "A" -> ReadA(s, r) [] s.timer = "B" -> ReadB(s, r)
    [] s.timer = "TA0" -> ReadTA0(s, r) [] OTHER -> ReadTA1(s, r)

\* TBR keeps the bits of its limit, which is all ones.
WriteTar(s, v) == [s EXCEPT !.tar = IF s.timer = "B" THEN v % (s.limit + 1) ELSE v]

\* w: a value for a register.
WriteAny(s, w, vector) ==
  CASE w.reg = "ctl" -> WriteCtl(s, w.mc, w.ie, w.ifg, w.clr)
    [] w.reg = "cctl" -> WriteCctl(s, w.i, w.cap, w.ie, w.ifg, vector[w.i])
    [] w.reg = "tar" -> WriteTar(s, w.v)
    [] OTHER -> WriteCcr(s, w.i, w.v)
Vectors == [i \in Comparators |-> Vector(i)]
NoVector1 == [i \in Comparators |-> 0]
WriteA(s, w) == WriteAny(s, w, Vectors)
WriteB(s, w) == WriteAny(IF w.reg = "ctl" THEN [s EXCEPT !.limit = w.limit] ELSE s, w, Vectors)
WriteTA0(s, w) == WriteAny(s, w, NoVector1)
WriteTA1(s, w) == WriteAny(s, w, NoVector1)
WriteTimer(s, w) ==
  CASE s.timer = "A" -> WriteA(s, w) [] s.timer = "B" -> WriteB(s, w)
    [] s.timer = "TA0" -> WriteTA0(s, w) [] OTHER -> WriteTA1(s, w)
-----------------------------------------------------------------------------

\* msp430_interrupt_start_if_any: vector 0 has the priority, and its flag is
\* reset; SR is pushed and cleared.
StartInterrupt(s) ==
  IF s.iv = {} \/ ~ s.gie THEN s
  ELSE LET v == IF 0 \in s.iv THEN 0 ELSE 1
       IN  [s EXCEPT !.iv = @ \ {v}, !.gie = FALSE, !.off = FALSE,
                     !.ccifg[0] = IF v = 0 THEN FALSE ELSE @,
                     !.stack = Append(@, [gie |-> s.gie, off |-> s.off])]

\* OP_RETI.
Reti(s) ==
  LET top == s.stack[Len(s.stack)]
  IN  CheckFlags([s EXCEPT !.gie = top.gie, !.off = top.off,
                         !.stack = SubSeq(@, 1, Len(@) - 1)])

\* The timers after a reset, which stops them, and the core.
ZeroTimer(timer, limit) ==
  [timer |-> timer, limit |-> limit, mc |-> STOP, ie |-> FALSE, ifg |-> FALSE, tar |-> 0, down |-> FALSE,
   ccr |-> [i \in Comparators |-> 0], cl |-> [i \in Comparators |-> 0], b |-> [i \in Comparators |-> 0],
   ccie |-> [i \in Comparators |-> FALSE], ccifg |-> [i \in Comparators |-> FALSE],
   cap |-> [i \in Comparators |-> FALSE], ccis |-> "A", tiv |-> 0,
   iv |-> {}, gie |-> FALSE, off |-> FALSE, stack |-> <<>>]
ResetA == ZeroTimer("A", Top)
ResetB == ZeroTimer("B", Max(Limits))
ResetTA0 == ZeroTimer("TA0", Top)
ResetTA1 == ZeroTimer("TA1", Top)
ResetTimer(timer) ==
  CASE timer = "A" -> ResetA [] timer = "B" -> ResetB [] timer = "TA0" -> ResetTA0 [] OTHER -> ResetTA1

\* The program has reset the timer, written the registers of its comparators, then TACTL,
\* and set GIE.
SetUp(u) ==
  LET n == [ResetTimer(u.timer) EXCEPT !.ccis = u.ccis, !.ccr = u.ccr, !.cl = u.ccr,
                                       !.ccie = [i \in Comparators |-> i \in u.ccie]]
  IN  [WriteTimer(n, [reg |-> "ctl", mc |-> u.mc, ie |-> u.ie, ifg |-> FALSE, clr |-> TRUE, limit |-> n.limit])
       EXCEPT !.gie = TRUE]
TimInit ==
  /\ \E u \in Setups : m = SetUp(u)
  /\ writes = 0 /\ watch = {} /\ hit = {} /\ missed = FALSE /\ twice = FALSE

\* The end of a turn, from the state the instruction has left; cut: comparators
\* whose period the instruction has disturbed.
EndTurn(s, cut) ==
  \E ticks \in Ticks, edges \in SUBSET {i \in Comparators : s.cap[i]} :
  \E t \in {UpdateTimer(s, ticks)} :
    LET start   == s.mc \in {UP, CONT} /\ t # s /\ t.tar < s.tar + ticks
        matched == {i \in Others : t.ccifg[i] /\ ~ s.ccifg[i]}
        left    == watch \ cut
    IN  /\ 0 \in edges => t.tar >= Max(Ticks)      \* bound: periods of more than a turn
        /\ m' = StartInterrupt(Capture(t, edges))
        /\ missed' = (missed \/ (start /\ ~ (left \subseteq hit \cup matched)))
        /\ twice' = (twice \/ (left \cap hit \cap matched # {}))
        /\ watch' = IF s.mc \notin {UP, CONT} \/ 0 \in edges THEN {}
                    ELSE IF start
                    THEN {i \in Others : /\ ~ s.cap[i] /\ ~ m'.ccifg[i]
                                         /\ s.cl[i] \in 1..(IF s.mc = CONT THEN s.limit ELSE s.ccr[0])}
                    ELSE left
        /\ hit' = IF start THEN {} ELSE hit \cup matched

\* One instruction, then the rest of the turn.
Run(s, cut) == /\ ~ m.off /\ EndTurn(s, cut) /\ UNCHANGED writes
Write(s, cut) ==
  /\ ~ m.off /\ writes < MaxWrites /\ EndTurn(s, cut) /\ writes' = writes + 1

Nop == Run(m, {})
Asleep == m.off /\ EndTurn(m, {}) /\ UNCHANGED writes
Sleep == Len(m.stack) < MaxNest /\ Run([m EXCEPT !.off = TRUE, !.gie = TRUE], {})
SetGie(b) == /\ b => Len(m.stack) < MaxNest
             /\ Write([m EXCEPT !.gie = b], {})
ReturnFromInterrupt == m.stack # <<>> /\ Run(Reti(m), {})
\* A write of the vector register does the same.
ReadTiv == Run(ReadTimer(m, [reg |-> "tiv"]).s, {})
DoWriteCtl ==
  \E mc \in {STOP, UP, CONT, UD}, ie, ifg, clr \in BOOLEAN,
     limit \in IF m.timer = "B" THEN Limits ELSE {m.limit} :
    Write(WriteTimer(m, [reg |-> "ctl", mc |-> mc, ie |-> ie, ifg |-> ifg, clr |-> clr, limit |-> limit]),
          IF clr \/ mc # m.mc \/ limit # m.limit THEN Others ELSE {})
DoWriteCctl ==
  \E i \in Comparators, cap, ie, ifg \in BOOLEAN :
    Write(WriteTimer(m, [reg |-> "cctl", i |-> i, cap |-> cap, ie |-> ie, ifg |-> ifg]), {i})
DoWriteCcr ==
  \E i \in Comparators, v \in Ccr :
    Write(WriteTimer(m, [reg |-> "ccr", i |-> i, v |-> v]), IF i = 0 THEN Others ELSE {i})
DoWriteTar == \E v \in Ccr : Write(WriteTimer(m, [reg |-> "tar", v |-> v]), Others)

TimNext ==
  \/ Nop \/ Asleep \/ Sleep \/ ReturnFromInterrupt \/ ReadTiv
  \/ \E b \in BOOLEAN : SetGie(b)
  \/ DoWriteCtl \/ DoWriteCctl \/ DoWriteCcr \/ DoWriteTar

\* Fairness: machine_run_internal goes on turning while the processor sleeps.
TimSpec == TimInit /\ [][TimNext]_timVars /\ WF_timVars(Asleep)
-----------------------------------------------------------------------------

\* An enabled flag is never left behind: its interrupt is pending, or a handler
\* is running whose RETI looks at the flags again, which it does not for TA0 and TA1.
InterruptKept ==
  /\ Pending(m, 0) => 0 \in m.iv
  /\ m.timer \notin TimersTA /\ ((m.ie /\ m.ifg) \/ \E i \in Others : Pending(m, i))
       => m.iv # {} \/ m.stack # <<>>

\* A comparator the program leaves alone, its flag clear when the period starts,
\* matches before the period ends, however many ticks an instruction lasts.
MatchEachPeriod == ~ missed

\* A processor asleep is woken by any comparator it has enabled, as long as the
\* timer counts far enough to reach it; TA0 and TA1 also need its flag to be clear.
Awaits(i) ==
  /\ m.ccie[i] /\ ~ m.cap[i]
  /\ m.mc \in {UP, UD} => m.cl[i] \in 1..m.ccr[0]
  /\ m.mc = CONT => m.cl[i] \in 1..m.limit
  /\ m.timer \in TimersTA => ~ m.ccifg[i]
  /\ m.mc # STOP
Wakes == (m.off /\ \E i \in Comparators : Awaits(i)) ~> ~ m.off

\* "put unreachable value, back to 0 on wrap": it does not match again before the
\* timer wraps.
MatchOnce == ~ twice
=============================================================================
