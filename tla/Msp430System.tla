------------------------------ MODULE Msp430System -----------------------------
(***************************************************************************)
(* What the MSP430 has besides its timers and ports: the interrupts of the *)
(* core with those that are not maskable, the flash controller, the        *)
(* watchdog and the multiplier, each with a program that uses it.          *)
(* A turn is an instruction, the updates of the watchdog and the flash for *)
(* the ticks it lasted, and the start of an interrupt.  The program of the *)
(* flash runs in RAM while an operation goes on.                           *)
(***************************************************************************)
EXTENDS Naturals, Integers, FiniteSets, SequencesExt

CONSTANTS
  W,           \* bits of a byte; a word has twice as many
  Factors,     \* words the multiplier is given
  Cycles,      \* ticks in one turn
  Times,       \* FLASH_WRITE_TIMING_*, FLASH_ERASE_TIMING_*
  Dividers,    \* fnx + 1, no less than the ticks of a turn: f(FTG) is below 476 kHz
  Intervals,   \* wdt_intervals
  MaxFlashOps, \* bound: stores of the program in the flash
  MaxSystem,   \* bound: other mistakes and settings of the program
  MaxNest,     \* bound: interrupts within interrupts
  MaxAge       \* bound: ticks between two clears of the watchdog

VARIABLE m     \* the core's SR, MCU_IV and stack, MCU.sfr, and one of the three units

INTR_WATCHDOG == 10  INTR_NMI == 14  INTR_RESET == 15
-----------------------------------------------------------------------------
\* The interrupts: gie of SR, iv of MCU_IV, stack the GIE pushed by each handler.

\* msp430_interrupt_set: also while GIE is 0.
InterruptSet(s, n) == [s EXCEPT !.iv = @ \cup {n}]

\* Serving the reset vector begins the program again, on a new stack; the registers of
\* the peripherals keep their values.
Enter(s, n) ==
  [s EXCEPT !.iv = @ \ {n}, !.gie = FALSE,
            !.stack = IF n = INTR_RESET THEN <<>> ELSE Append(@, s.gie),
            !.ifg = IF n = INTR_WATCHDOG /\ s.wd.tmsel THEN @ \ {"wdt"} ELSE @,
            !.odd = @ \/ (n = INTR_RESET /\ "wdt" \in s.ifg)]

\* The highest vector, if GIE or one of the two that are not maskable lets it.
InterruptStartIfAny(s) ==
  IF s.iv # {} /\ (s.gie \/ s.iv \cap {INTR_NMI, INTR_RESET} # {}) THEN Enter(s, Max(s.iv)) ELSE s
-----------------------------------------------------------------------------
\* The flash: cells two by two in segments, the last segment that of information.

Cells == 0..5
Main == 0..3
Segment(c) == {d \in Cells : d \div 2 = c \div 2}
LastOfBlock(c) == c % 2 = 1                    \* (u16addr & 0x3f) == 0x3f
ERASED == 0
Word == 1
Endless == 1000000                             \* flash_ticks_left below zero wraps at 2^32
JUMP_PC == 3                                   \* 0x3FFF, an instruction that jumps to itself

\* The modes of FCTL1 a program uses.
Modes == {{}, {"WRT"}, {"WRT", "BLKWRT"}, {"ERASE"}, {"MERAS"}, {"ERASE", "MERAS"}}

\* The handlers installed for the addresses are not among what a reset restores.
FlashReset(f) ==
  [f EXCEPT !.mode = {}, !.fnx = Max(Dividers), !.lock = TRUE, !.wait = TRUE, !.busy = FALSE,
            !.accvifg = FALSE, !.keyv = FALSE, !.divider = 0, !.left = 0, !.first = 0,
            !.updating = FALSE]

\* msp430_io_set_flash_write_normal ends the simulation where it is normal already.
SetWriteNormal(f) == IF f.armed THEN [f EXCEPT !.armed = FALSE] ELSE [f EXCEPT !.exited = TRUE]

\* A write without the key.
BadKey(f) == [f EXCEPT !.keyv = TRUE]

WriteFctl1(f, mode) ==
  IF f.busy THEN [f EXCEPT !.accvifg = TRUE]
  ELSE [f EXCEPT !.first = IF \E b \in {"WRT", "BLKWRT"} : (b \in mode) # (b \in f.mode) THEN 0 ELSE @,
                 !.armed = @ \/ mode # {}, !.mode = mode]
WriteFctl2(f, fnx) == IF f.busy THEN [f EXCEPT !.accvifg = TRUE] ELSE [f EXCEPT !.fnx = fnx]

\* BUSY and WAIT are taken out of the value written, KEYV and ACCVIFG are its own.
WriteFctl3(f, lock, emex) ==
  IF emex THEN FlashReset(SetWriteNormal(f))
  ELSE LET n == IF lock /\ ~ f.lock THEN [SetWriteNormal(f) EXCEPT !.updating = FALSE] ELSE f
       IN  [n EXCEPT !.lock = lock, !.busy = FALSE, !.wait = FALSE, !.accvifg = FALSE, !.keyv = FALSE]

\* msp430_flash_start_erase: what a store does where the handlers are armed.
StoreTime(f, c) ==
  CASE "BLKWRT" \notin f.mode -> Times.byte
    [] "BLKWRT" \in f.mode /\ f.first = 0 -> Times.first
    [] OTHER -> IF LastOfBlock(c) THEN Times.last ELSE Times.next
StartWrite(f, c, v) ==
  IF "WRT" \notin f.mode THEN f
  ELSE [f EXCEPT !.left = StoreTime(f, c), !.mem[c] = v,
                 !.jump = @ \/ "BLKWRT" \notin f.mode,
                 !.wait = @ /\ "BLKWRT" \notin f.mode,
                 !.first = CASE "BLKWRT" \notin f.mode -> @ [] f.first = 0 -> 1
                             [] OTHER -> IF LastOfBlock(c) THEN 2 ELSE @]
Region(f, c) ==
  IF "MERAS" \notin f.mode THEN Segment(c) ELSE IF "ERASE" \in f.mode THEN Cells ELSE Main
StartErase(f, c) ==
  IF f.mode \cap {"ERASE", "MERAS"} = {} THEN f
  ELSE [f EXCEPT !.jump = TRUE, !.left = IF "MERAS" \in f.mode THEN Times.mass ELSE Times.segment,
                 !.mem = [d \in Cells |-> IF d \in Region(f, c) THEN ERASED ELSE @[d]]]
StoreFlash(f, c, v) ==
  IF ~ f.armed THEN f
  ELSE [StartErase(StartWrite(f, c, v), c) EXCEPT !.busy = TRUE, !.updating = TRUE]

\* msp430_flash_update_wait.
FlashUpdate(f, ticks) ==
  IF ~ f.updating \/ ~ f.busy THEN f
  ELSE IF f.left = 0 THEN [f EXCEPT !.jump = FALSE, !.updating = FALSE, !.busy = FALSE, !.wait = TRUE]
  ELSE LET run == f.divider + ticks
           div == run \div f.fnx
       IN  [f EXCEPT !.divider = run % f.fnx, !.left = IF div > @ THEN Endless ELSE @ - div]

\* Words of the main memory read as a jump while an operation goes on; bytes do not.
ReadFlash(f, c) == IF f.jump /\ c \in Main THEN JUMP_PC ELSE f.mem[c]
-----------------------------------------------------------------------------
\* The watchdog.

WatchdogReset(w) == [w EXCEPT !.hold = TRUE, !.cnt = 0, !.limit = Intervals[w.is]]

WatchdogCount(w, ticks) ==
  LET cnt == w.cnt + ticks
  IN  IF cnt > w.limit THEN [w EXCEPT !.age = w.age + ticks, !.cnt = cnt - w.limit, !.ends = w.ends + 1]
      ELSE [w EXCEPT !.age = w.age + ticks, !.cnt = cnt]
WatchdogUpdate(s, ticks) ==
  LET n == [s EXCEPT !.wd = WatchdogCount(s.wd, ticks)]
      set == [n EXCEPT !.ifg = @ \cup {"wdt"}]
  IN  IF s.wd.hold THEN s
      ELSE IF s.wd.cnt + ticks <= s.wd.limit THEN n
      ELSE IF ~ s.wd.tmsel THEN [InterruptSet(set, INTR_RESET) EXCEPT !.odd = TRUE]
      ELSE IF "wdt" \in s.ie THEN InterruptSet(set, INTR_WATCHDOG) ELSE set
-----------------------------------------------------------------------------

\* mcu_reset.
McuReset(s) ==
  [s EXCEPT !.ie = {}, !.ifg = {}, !.iv = {}, !.gie = FALSE, !.stack = <<>>, !.odd = FALSE,
            !.wd = [WatchdogReset(s.wd) EXCEPT !.age = 0, !.ends = 0, !.mixed = FALSE],
            !.flash = [FlashReset(s.flash) EXCEPT !.job = "none", !.stuck = s.flash.stuck \/ s.flash.jump]]

\* The key and the modes of WDTCTL; a write without the password resets, then applies.
WriteWdtctl(s, good, hold, tmsel, clear, is) ==
  LET r == IF good THEN s ELSE McuReset(s)
      w == r.wd
  IN  [r EXCEPT !.wd = [hold |-> hold, tmsel |-> tmsel, is |-> is, cnt |-> IF clear THEN 0 ELSE w.cnt,
                        age |-> IF clear THEN 0 ELSE w.age, ends |-> IF clear THEN 0 ELSE w.ends,
                        limit |-> IF is # w.is THEN Intervals[is] ELSE w.limit,
                        mixed |-> ~ clear /\ (w.mixed \/ is # w.is)],
                !.odd = @ \/ (tmsel # w.tmsel /\ "wdt" \in r.ifg)]

\* What an RETI looks at, of the controllers modelled here.
FlashCheckIfg(s) ==
  IF s.flash.keyv THEN McuReset(s)
  ELSE IF "acc" \in s.ie /\ s.flash.accvifg THEN InterruptSet(s, INTR_NMI) ELSE s
WatchdogCheckIfg(s) ==
  IF "wdt" \in s.ifg \cap s.ie THEN [InterruptSet(s, INTR_WATCHDOG) EXCEPT !.odd = FALSE] ELSE s
CheckIfg(s) == WatchdogCheckIfg(FlashCheckIfg(s))
Return(s) == CheckIfg([s EXCEPT !.gie = Last(s.stack), !.stack = Front(s.stack)])
-----------------------------------------------------------------------------
\* The multiplier: registers of words, signed where they are widened.

R == 2^(2 * W)
Signed(v) == IF v < R \div 2 THEN v ELSE v - R
Low(n) == n % R
High(n) == (n \div R) % R
Result(u, n, sumext) == [u EXCEPT !.reslo = Low(n), !.reshi = High(n), !.sumext = sumext]

\* (reshi << 16) | reslo: the sign of reslo covers reshi.
Accumulated(u) ==
  IF u.reslo < R \div 2 THEN Signed(u.reshi) * R + u.reslo ELSE Signed(u.reslo)

Multiply(u) ==
  CASE u.mode = "MPY" -> Result(u, u.op1 * u.op2, 0)
    [] u.mode = "MPYS" ->
         LET res == Signed(u.op1) * Signed(u.op2)
         IN  Result(u, res, IF res < 0 THEN R - 1 ELSE 0)
    [] u.mode = "MAC" ->
         LET t == (Accumulated(u) % (R * R)) + ((Signed(u.op1) * Signed(u.op2)) % (R * R))
         IN  Result(u, t, (t \div (R * R)) % 2)
    [] u.mode = "MACS" ->
         LET t == Accumulated(u) + Signed(u.op1) * Signed(u.op2)
         IN  Result(u, t, IF t < 0 THEN R - 1 ELSE 0)
    [] OTHER -> u

Write16(u, reg, val) ==
  CASE reg \in {"MPY", "MPYS", "MAC", "MACS"} -> [u EXCEPT !.op1 = val, !.mode = reg]
    [] reg = "OP2" -> Multiply([u EXCEPT !.op2 = val])
    [] reg = "RESLO" -> [u EXCEPT !.reslo = val]
    [] reg = "RESHI" -> [u EXCEPT !.reshi = val]
    [] OTHER -> u                                 \* SUMEXT is read only
Read16(u, reg) ==
  CASE reg = "OP2" -> u.op2 [] reg = "RESLO" -> u.reslo [] reg = "RESHI" -> u.reshi
    [] reg = "SUMEXT" -> u.sumext [] OTHER -> u.op1

\* Bytes: the low one is widened with its sign, the high one goes to what is there.
B == 2^W
Widened(b) == IF b < B \div 2 THEN b ELSE R - B + b
Write8(u, reg, high, b) ==
  IF reg = "SUMEXT" THEN u
  ELSE Write16(u, reg, IF high THEN (b * B) + (Read16(u, reg) % B) ELSE Widened(b))
Read8(u, reg, high) == IF high THEN Read16(u, reg) \div B ELSE Read16(u, reg) % B
-----------------------------------------------------------------------------
\* The turns of the three programs.

EndTurn(s) ==
  \E ticks \in Cycles : \E u \in {WatchdogUpdate(s, ticks)} :
    /\ u.wd.age <= MaxAge
    /\ m' = InterruptStartIfAny([u EXCEPT !.flash = FlashUpdate(@, ticks)])

Counted == [m EXCEPT !.count = @ + 1]

\* Of the programs: nothing, GIE, the end of a handler, another interrupt.
Nop == m.kind # "hwmul" /\ EndTurn(m)
SetGie == /\ m.kind = "watchdog" /\ (m.gie \/ Len(m.stack) < MaxNest + 1)
          /\ EndTurn([m EXCEPT !.gie = ~ @])
Reti == m.stack # <<>> /\ EndTurn(Return(m))
Other == /\ m.kind # "hwmul" /\ m.stack = <<>> /\ m.gie /\ m.count < MaxSystem
         /\ EndTurn(InterruptSet(Counted, 0))
WriteIe ==
  /\ m.kind # "hwmul" /\ m.count < MaxSystem
  /\ \E ie \in SUBSET (IF m.kind = "flash" THEN {"acc"} ELSE {"wdt"}) :
       ie # m.ie /\ EndTurn([Counted EXCEPT !.ie = ie,
                                            !.odd = (@ \/ ie \ m.ie # {}) /\ "wdt" \in m.ifg])

\* The driver of the flash: it waits for BUSY before it writes FCTL3 or stores, and
\* unlocks before it chooses a mode.  Its other stores come from elsewhere.
Jobs == {"none", "write", "block", "segment", "main", "all"}
ModeOf(job) ==
  CASE job = "none" -> {} [] job = "write" -> {"WRT"} [] job = "block" -> {"WRT", "BLKWRT"}
    [] job = "segment" -> {"ERASE"} [] job = "main" -> {"MERAS"} [] OTHER -> {"ERASE", "MERAS"}
Asked(f, c, v) ==
  CASE f.job = "none" -> f.want
    [] f.job \in {"write", "block"} -> [f.want EXCEPT ![c] = v]
    [] OTHER -> [d \in Cells |->
         IF f.job = "all" \/ (f.job = "main" /\ d < 4) \/ (f.job = "segment" /\ d \div 2 = c \div 2)
         THEN ERASED ELSE f.want[d]]

Flash == m.kind = "flash" /\ ~ m.flash.exited
WithFlash(f) == EndTurn([m EXCEPT !.flash = f])
Lock == /\ Flash /\ ~ m.flash.busy
        /\ \E lock \in BOOLEAN : lock # m.flash.lock
             /\ WithFlash([WriteFctl3(m.flash, lock, FALSE) EXCEPT !.job = "none"])
Exit == Flash /\ ~ m.flash.busy /\ WithFlash([WriteFctl3(m.flash, TRUE, TRUE) EXCEPT !.job = "none"])
Choose == /\ Flash /\ ~ m.flash.busy /\ ~ m.flash.lock
          /\ \E job \in Jobs : WithFlash([WriteFctl1(m.flash, ModeOf(job)) EXCEPT !.job = job])
Divide == /\ Flash /\ ~ m.flash.busy /\ m.flash.divider = 0      \* once and for all
          /\ \E n \in Dividers : n # m.flash.fnx /\ WithFlash(WriteFctl2(m.flash, n))
Store == /\ Flash /\ ~ m.flash.busy /\ m.flash.stores < MaxFlashOps
         /\ \E c \in Cells :
              WithFlash([StoreFlash(m.flash, c, Word) EXCEPT !.want = Asked(m.flash, c, Word), !.stores = @ + 1])
\* The registers written at the wrong time, or without the key.
Violate == /\ Flash /\ m.flash.busy /\ m.count < MaxSystem
           /\ \/ EndTurn([Counted EXCEPT !.flash = WriteFctl1(@, {})])
              \/ EndTurn([Counted EXCEPT !.flash = WriteFctl2(@, Min(Dividers))])
Mistake == Flash /\ m.count < MaxSystem /\ EndTurn([Counted EXCEPT !.flash = BadKey(@)])

\* The program of the watchdog.
Wdtctl ==
  /\ m.kind = "watchdog" /\ m.count < MaxSystem
  /\ \E good, hold, tmsel, clear \in BOOLEAN, is \in DOMAIN Intervals :
       EndTurn(WriteWdtctl(Counted, good, hold, tmsel, clear, is))
Feed == /\ m.kind = "watchdog" /\ m.wd.age > 0
        /\ EndTurn(WriteWdtctl(m, TRUE, m.wd.hold, m.wd.tmsel, TRUE, m.wd.is))
WriteIfg ==
  /\ m.kind = "watchdog" /\ m.count < MaxSystem
  /\ \E ifg \in {{}, {"wdt"}} :
       ifg # m.ifg /\ EndTurn([Counted EXCEPT !.ifg = ifg, !.odd = ifg # {}])

\* The program of the multiplier, and what the operands it gives should make.
WriteOperand ==
  /\ m.kind = "hwmul"
  /\ \E reg \in {"MPY", "MPYS", "MAC", "MACS"}, val \in Factors :
       m' = [m EXCEPT !.mul = Write16(@, reg, val)]
Product(u, val) ==
  IF u.mode \in {"MPYS", "MACS"} THEN Signed(u.op1) * Signed(val) ELSE u.op1 * val
Signs(u, val) == {u.op1, val, u.reslo, u.reshi}
Operate ==
  /\ m.kind = "hwmul" /\ m.count < MaxSystem /\ m.mul.mode # "none"
  /\ \E val \in Factors :
       LET from == IF m.mul.mode \in {"MPY", "MPYS"} THEN 0 ELSE m.sum
       IN  m' = [Counted EXCEPT !.mul = Write16(@, "OP2", val),
                                !.sum = (from + Product(m.mul, val)) % (R * R),
                                !.exact = CASE m.mul.mode \in {"MPY", "MPYS"} -> TRUE
                                            [] m.mul.mode = "MAC" ->
                                                 @ /\ \A v \in Signs(m.mul, val) : v < R \div 2
                                            [] OTHER -> @ /\ m.mul.reslo < R \div 2]
\* The same a byte at a time: the low one first, then the high one.
OperateBytes ==
  /\ m.kind = "hwmul" /\ m.count < MaxSystem /\ m.mul.mode \in {"MPY", "MPYS"}
  /\ \E val \in Factors :
       m' = [Counted EXCEPT !.mul = Write8(Write8(@, "OP2", FALSE, val % B), "OP2", TRUE, val \div B),
                            !.sum = Product(m.mul, val) % (R * R), !.exact = TRUE]
Preset ==
  /\ m.kind = "hwmul" /\ m.count < MaxSystem
  /\ \E val \in Factors :
       m' = [m EXCEPT !.mul = Write16(Write16(@, "RESLO", val), "RESHI", 0), !.sum = val, !.exact = TRUE]

Cleared == [c \in Cells |-> ERASED]
SystemInit ==
  \E kind \in {"flash", "watchdog", "hwmul"} :
    m = [kind |-> kind, count |-> 0, iv |-> {}, gie |-> TRUE, stack |-> <<>>, ie |-> {}, ifg |-> {},
         odd |-> FALSE, sum |-> 0, exact |-> FALSE,
         flash |-> [mode |-> {}, fnx |-> Max(Dividers), lock |-> TRUE, wait |-> TRUE, busy |-> FALSE,
                    accvifg |-> FALSE, keyv |-> FALSE, divider |-> 0, left |-> 0, first |-> 0,
                    updating |-> FALSE, armed |-> FALSE, jump |-> FALSE, exited |-> FALSE,
                    stuck |-> FALSE, mem |-> Cleared, want |-> Cleared, job |-> "none", stores |-> 0],
         wd |-> [hold |-> TRUE, tmsel |-> FALSE, is |-> 1, cnt |-> 0, limit |-> Intervals[1],
                 age |-> 0, ends |-> 0, mixed |-> FALSE],
         mul |-> [op1 |-> 0, op2 |-> 0, reslo |-> 0, reshi |-> 0, sumext |-> 0, mode |-> "none"]]

SystemNext ==
  \/ Nop \/ SetGie \/ Reti \/ Other \/ WriteIe
  \/ Lock \/ Exit \/ Choose \/ Divide \/ Store \/ Violate \/ Mistake
  \/ Wdtctl \/ Feed \/ WriteIfg
  \/ WriteOperand \/ Operate \/ OperateBytes \/ Preset
-----------------------------------------------------------------------------

\* An interval of the watchdog that has ended, its interrupt enabled, is pending or will be
\* looked at by the handler that runs.  A flag the program sets itself or enables when it is
\* set waits for an RETI, and so does that of the other mode.
SystemInterruptKept ==
  m.wd.tmsel /\ "wdt" \in m.ifg \cap m.ie /\ ~ m.odd => INTR_WATCHDOG \in m.iv \/ m.stack # <<>>

\* The flash holds what was stored between the choice of a mode and the next lock, whatever
\* is stored at other times, and can be read again once the operation has ended.
FlashKept ==
  /\ m.flash.mem = m.flash.want
  /\ ~ m.flash.busy /\ ~ m.flash.stuck => \A c \in Cells : ReadFlash(m.flash, c) = m.flash.want[c]

\* A watchdog left alone ends once in each of its intervals.
WatchdogOnTime ==
  ~ m.wd.mixed => m.wd.ends = IF m.wd.age = 0 THEN 0 ELSE (m.wd.age - 1) \div m.wd.limit

\* Products, signed or not, and sums of products whose operands have no sign bit.
Multiplies == m.exact => m.mul.reshi * R + m.mul.reslo = m.sum
=============================================================================
