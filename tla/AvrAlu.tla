---------------------------------- MODULE AvrAlu --------------------------------
(***************************************************************************)
(* Execution of one ATmega128 instruction (atmega128_mcu_run_insn): a word *)
(* of the flash is decoded (extract_opcode) and the function of its opcode *)
(* run, from the state of the core to the next one.  The registers are the *)
(* first addresses of the memory; the flags and the stack pointer, which   *)
(* are I/O registers of it, are kept apart.  Cycles are not counted by the *)
(* code and are left out, like the functions no word decodes to (sbr, cbr, *)
(* ser, sbrs).                                                             *)
(***************************************************************************)
EXTENDS Integers, Sequences, TLC

CONSTANTS RamTop,   \* the last address of the memory
          Values,   \* values of a register
          Ramend,   \* the first stack pointer
          Data      \* an address of data

VARIABLES cpu, task   \* the state of the core; the program, its operands and its words

Byte == 256
Word == Byte * Byte
Has(x, b) == (x \div 2^b) % 2 = 1                     \* BITx_
Bits(w, first, n) == (w \div 2^first) % 2^n
Int8(x) == IF x >= 128 THEN x - Byte ELSE x
One(b) == IF b THEN 1 ELSE 0
\* Bitwise on bytes: the sum of the bits set in both; what C writes |, and ^.
And(x, y) ==
  LET f[n \in 0..8] == IF n = 0 THEN 0 ELSE IF Has(x, n - 1) /\ Has(y, n - 1) THEN f[n - 1] + 2^(n - 1) ELSE f[n - 1]
  IN  f[8]
Or(x, y) == x + y - And(x, y)
Xor(x, y) == x + y - 2 * And(x, y)
-----------------------------------------------------------------------------

\* The I/O registers at addresses of the memory.
SPL == 93  SPH == 94  SREG == 95  RAMPZ == 91
FlagsOf(s) == <<s.c, s.z, s.n, s.v, s.s, s.h, s.t, s.i>>
Sreg(s) ==
  One(s.c) + 2 * One(s.z) + 4 * One(s.n) + 8 * One(s.v)
  + 16 * One(s.s) + 32 * One(s.h) + 64 * One(s.t) + 128 * One(s.i)
SetSreg(s, x) ==
  [s EXCEPT !.c = Has(x, 0), !.z = Has(x, 1), !.n = Has(x, 2), !.v = Has(x, 3),
            !.s = Has(x, 4), !.h = Has(x, 5), !.t = Has(x, 6), !.i = Has(x, 7)]

REG(s, r) == s.ram[r]
Put(s, r, v) == [s EXCEPT !.ram[r] = v % Byte]
Pair(s, r) == s.ram[r] + Byte * s.ram[r + 1]          \* REG_16_READ
PutPair(s, r, v) == [s EXCEPT !.ram[r] = v % Byte, !.ram[r + 1] = (v \div Byte) % Byte]
REG_X == 26  REG_Y == 28  REG_Z == 30

Read(s, a) ==
  CASE a = SPL -> s.sp % Byte [] a = SPH -> s.sp \div Byte [] a = SREG -> Sreg(s) [] OTHER -> s.ram[a]
Write(s, a, v) ==
  CASE a = SPL -> [s EXCEPT !.sp = @ - (@ % Byte) + v]
    [] a = SPH -> [s EXCEPT !.sp = (@ % Byte) + Byte * v]
    [] a = SREG -> SetSreg(s, v)
    [] OTHER -> Put(s, a, v)
IoRead(s, a) == Read(s, a + 32)
IoWrite(s, a, v) == Write(s, a + 32, v)

\* The little-endian bytes of the flash, an address of a byte.
FlashByte(flash, a) ==
  LET w == IF a \div 2 < Len(flash) THEN flash[a \div 2 + 1] ELSE 65535
  IN  IF a % 2 = 0 THEN w % Byte ELSE w \div Byte

PcAdd(s, k) == [s EXCEPT !.next = (s.pc + k) % Word]  \* ADD_TO_PC
JumpTo(s, a) == [s EXCEPT !.next = a % Word]          \* mcu_set_pc_next
Stop(s) == [s EXCEPT !.signal = TRUE]                 \* SIG_MCU_ILL

AluReset ==
  [pc |-> 0, next |-> 0, sp |-> 0, signal |-> FALSE, c |-> FALSE, z |-> FALSE, n |-> FALSE, v |-> FALSE,
   s |-> FALSE, h |-> FALSE, t |-> FALSE, i |-> FALSE, ram |-> [a \in 0..RamTop |-> 0]]
-----------------------------------------------------------------------------

\* The operands of an instruction.
Dreg5(w) == Bits(w, 4, 5)
Sreg5(w) == 16 * Bits(w, 9, 1) + Bits(w, 0, 4)
Dreg4(w) == Bits(w, 4, 4) + 16
K8(w) == 16 * Bits(w, 8, 4) + Bits(w, 0, 4)
K6(w) == 16 * Bits(w, 6, 2) + Bits(w, 0, 4)
A6(w) == 16 * Bits(w, 9, 2) + Bits(w, 0, 4)
A5(w) == Bits(w, 3, 5)
BitNum(w) == Bits(w, 0, 3)
Offset12(w) == LET k == Bits(w, 0, 12) IN IF k >= 2048 THEN k - 4096 ELSE k
Offset7(w) == LET k == Bits(w, 3, 7) IN IF k >= 64 THEN k - 128 ELSE k
\* The sixth bit is looked for at bit 12, which is 0 in this form.
Displacement(w) == 16 * Bits(w, 12, 1) + 8 * Bits(w, 10, 2) + Bits(w, 0, 3)

\* WRITE_S(READ_N ^ READ_V) after N and V are written, or before.
NZVS(s, res, v, bit) ==
  [s EXCEPT !.n = Has(res, bit), !.z = (res = 0), !.v = v, !.s = (Has(res, bit) # v)]
NZVStale(s, res, v, bit) ==
  [s EXCEPT !.n = Has(res, bit), !.z = (res = 0), !.v = v, !.s = (s.n # s.v)]

Carry(d, r, res, b) ==
  \/ Has(d, b) /\ Has(r, b)
  \/ Has(r, b) /\ ~ Has(res, b)
  \/ ~ Has(res, b) /\ Has(d, b)
Borrow(d, r, res, b) ==
  \/ ~ Has(d, b) /\ Has(r, b)
  \/ Has(r, b) /\ Has(res, b)
  \/ Has(res, b) /\ ~ Has(d, b)
OverflowAdd(d, r, res) == Has(d, 7) = Has(r, 7) /\ Has(res, 7) # Has(d, 7)
OverflowSub(d, r, res) == Has(d, 7) # Has(r, 7) /\ Has(res, 7) # Has(d, 7)
-----------------------------------------------------------------------------

Sum(s, w, carry) ==
  LET d == REG(s, Dreg5(w))  r == REG(s, Sreg5(w))
      res == (d + r + carry) % Byte
      t == [Put(s, Dreg5(w), res) EXCEPT !.h = Carry(d, r, res, 3), !.c = Carry(d, r, res, 7)]
  IN  PcAdd(NZVS(t, res, OverflowAdd(d, r, res), 7), 1)
opcode_add(s, w) == Sum(s, w, 0)
opcode_adc(s, w) == Sum(s, w, One(s.c))

\* The flags of d - r: Z is that of this byte.
Compare(s, d, r, res) ==
  LET f == [s EXCEPT !.h = Borrow(d, r, res, 3), !.c = Borrow(d, r, res, 7)]
  IN  PcAdd(NZVS(f, res, OverflowSub(d, r, res), 7), 1)
Minus(s, i, d, r) == LET res == (d - r) % Byte IN Compare(Put(s, i, res), d, r, res)
opcode_cp(s, w) ==
  LET d == REG(s, Dreg5(w))  r == REG(s, Sreg5(w)) IN Compare(s, d, r, (d - r) % Byte)
opcode_cpc(s, w) ==
  LET d == REG(s, Dreg5(w))  r == REG(s, Sreg5(w)) IN Compare(s, d, r, (d - r - One(s.c)) % Byte)
opcode_cpi(s, w) == LET d == REG(s, Dreg4(w)) IN Compare(s, d, K8(w), (d - K8(w)) % Byte)
opcode_sub(s, w) == Minus(s, Dreg5(w), REG(s, Dreg5(w)), REG(s, Sreg5(w)))
opcode_subi(s, w) == Minus(s, Dreg4(w), REG(s, Dreg4(w)), K8(w))

\* Z is that of all the bytes so far, S that of the last one.
MinusCarry(s, i, d, r) ==
  LET res == (d - r - One(s.c)) % Byte
      f == [Put(s, i, res) EXCEPT !.h = Borrow(d, r, res, 3), !.c = Borrow(d, r, res, 7)]
  IN  PcAdd([NZVStale(f, res, OverflowSub(d, r, res), 7) EXCEPT !.z = (res = 0 /\ s.z)], 1)
\* Mutant: Z is that of the last byte only.
SbcLastZ(s, w) ==
  LET t == MinusCarry(s, Dreg5(w), REG(s, Dreg5(w)), REG(s, Sreg5(w)))
  IN  [t EXCEPT !.z = (REG(t, Dreg5(w)) = 0)]
opcode_sbc(s, w) == MinusCarry(s, Dreg5(w), REG(s, Dreg5(w)), REG(s, Sreg5(w)))
opcode_sbci(s, w) == MinusCarry(s, Dreg4(w), REG(s, Dreg4(w)), K8(w))

Bitwise2(s, i, res) == PcAdd(NZVS(Put(s, i, res), res, FALSE, 7), 1)
opcode_and(s, w) == Bitwise2(s, Dreg5(w), And(REG(s, Dreg5(w)), REG(s, Sreg5(w))))
opcode_andi(s, w) == Bitwise2(s, Dreg4(w), And(REG(s, Dreg4(w)), K8(w)))
opcode_ori(s, w) == Bitwise2(s, Dreg4(w), Or(REG(s, Dreg4(w)), K8(w)))
opcode_eor(s, w) == Bitwise2(s, Dreg5(w), Xor(REG(s, Dreg5(w)), REG(s, Sreg5(w))))
opcode_or(s, w) ==
  LET res == Or(REG(s, Dreg5(w)), REG(s, Sreg5(w)))
  IN  PcAdd(NZVStale(Put(s, Dreg5(w), res), res, FALSE, 7), 1)

opcode_com(s, w) ==
  LET res == 255 - REG(s, Dreg5(w))
  IN  PcAdd([NZVS(Put(s, Dreg5(w), res), res, FALSE, 7) EXCEPT !.c = TRUE], 1)
opcode_neg(s, w) ==
  LET d == REG(s, Dreg5(w))
      res == (0 - d) % Byte
      t == [Put(s, Dreg5(w), res) EXCEPT !.h = Has(res, 3) \/ Has(d, 3), !.c = (res # 0)]
  IN  PcAdd(NZVS(t, res, res = 128, 7), 1)
opcode_inc(s, w) ==
  LET d == REG(s, Dreg5(w))  res == (d + 1) % Byte
  IN  PcAdd(NZVStale(Put(s, Dreg5(w), res), res, d = 127, 7), 1)
opcode_dec(s, w) ==
  LET d == REG(s, Dreg5(w))  res == (d - 1) % Byte
  IN  PcAdd(NZVStale(Put(s, Dreg5(w), res), res, d = 128, 7), 1)

\* V is the N before with the C after; asr clears bit 7, lsr does not write its register.
ShiftFlags(s, c, v, sign, n, z) == PcAdd([s EXCEPT !.c = c, !.v = v, !.s = sign, !.n = n, !.z = z], 1)
opcode_asr(s, w) ==
  LET d == REG(s, Dreg5(w))  c == Has(d, 0)  v == s.n # c  res == (d % 128) \div 2
  IN  ShiftFlags(Put(s, Dreg5(w), res), c, v, s.n # v, FALSE, res = 0)
opcode_ror(s, w) ==
  LET d == REG(s, Dreg5(w))  c == Has(d, 0)  v == s.n # c  res == 128 * One(s.c) + d \div 2
  IN  ShiftFlags(Put(s, Dreg5(w), res), c, v, s.n # v, Has(res, 7), res = 0)
opcode_lsr(s, w) ==
  LET d == REG(s, Dreg5(w))  c == Has(d, 0)
  IN  ShiftFlags(s, c, s.n # c, s.n # s.v, FALSE, d \div 2 = 0)

\* S has the new V and the old N.
WideFlags(s, i, res, v, c) ==
  PcAdd([PutPair(s, i, res) EXCEPT !.v = v, !.c = c, !.s = (s.n # v), !.n = Has(res, 15), !.z = (res = 0)], 1)
Pair2(w) == 2 * Bits(w, 4, 2) + 24
opcode_adiw(s, w) ==
  LET p == Pair(s, Pair2(w))  res == (p + K6(w)) % Word
  IN  WideFlags(s, Pair2(w), res, ~ Has(p, 15) /\ Has(res, 15), Has(p, 15) /\ ~ Has(res, 15))
opcode_sbiw(s, w) ==
  LET p == Pair(s, Pair2(w))  res == (p - K6(w)) % Word
  IN  WideFlags(s, Pair2(w), res, Has(p, 15) /\ ~ Has(res, 15), ~ Has(p, 15) /\ Has(res, 15))

\* The product in r1:r0; muls, fmul and fmuls take other registers than the assembler's.
Product(s, product, res) == PcAdd([PutPair(s, 0, res) EXCEPT !.c = Has(product, 15), !.z = (res = 0)], 1)
Whole(s, x, y) == LET p == (x * y) % Word IN Product(s, p, p)
Fraction2(s, x, y) == LET p == (x * y) % Word IN Product(s, p, (2 * p) % Word)
D3(w) == Bits(w, 4, 3) + 16
R3(w) == Bits(w, 0, 3) + 16
opcode_mul(s, w) == Whole(s, REG(s, Dreg5(w)), REG(s, Sreg5(w)))
opcode_muls(s, w) == Whole(s, Int8(REG(s, Bits(w, 4, 4))), Int8(REG(s, Bits(w, 0, 4))))
opcode_mulsu(s, w) == Whole(s, Int8(REG(s, D3(w))), REG(s, R3(w)))
opcode_fmul(s, w) == Fraction2(s, REG(s, Dreg5(w)), REG(s, Sreg5(w)))
opcode_fmuls(s, w) == Fraction2(s, Int8(REG(s, Dreg5(w))), Int8(REG(s, Sreg5(w))))
opcode_fmulsu(s, w) == Fraction2(s, Int8(REG(s, D3(w))), REG(s, R3(w)))
-----------------------------------------------------------------------------

\* The address a pointer gives before the access, and the pointer after it.
Before(w, p) == IF Has(w, 1) THEN (p - 1) % Word ELSE p
After(w, a) == IF Has(w, 0) THEN (a + 1) % Word ELSE a

opcode_ld(s, w) ==
  LET a == Before(w, Pair(s, REG_X))
  IN  PcAdd(PutPair(Put(s, Dreg5(w), Read(s, a)), REG_X, After(w, a)), 1)
opcode_st(s, w) ==
  LET a == Before(w, Pair(s, REG_X))
  IN  PcAdd(PutPair(Write(s, a, REG(s, Dreg5(w))), REG_X, After(w, a)), 1)

\* Y is read for Z too; the pointer written back is the one named.
Pointer(w) == IF Has(w, 3) THEN REG_Y ELSE REG_Z
opcode_ldd(s, w) ==
  LET y == Pair(s, REG_Y)
      a == Before(w, y)
      load(x) == Put(s, Dreg5(w), Read(s, x))
  IN  PcAdd(IF ~ Has(w, 12) THEN load(y + Displacement(w)) ELSE PutPair(load(a), Pointer(w), After(w, a)), 1)
opcode_std(s, w) ==
  LET y == Pair(s, REG_Y)
      a == Before(w, y)
      store(x) == Write(s, x, REG(s, Dreg5(w)))
  IN  PcAdd(IF ~ Has(w, 12) THEN store(y + Displacement(w)) ELSE PutPair(store(a), Pointer(w), After(w, a)), 1)

\* k is the second word of the instruction; lds goes on with it.
opcode_lds(s, w, k) == PcAdd(IF k <= RamTop THEN Put(s, Dreg5(w), Read(s, k)) ELSE s, 1)
opcode_sts(s, w, k) == PcAdd(Write(s, k, REG(s, Dreg5(w))), 2)

\* The form with a register takes r0 for an odd one, and Z is never incremented.
opcode_elpm(s, w, flash) ==
  LET d == IF Has(w, 4) THEN 0 ELSE Dreg5(w)
      a == Word * (s.ram[RAMPZ] % 2) + Pair(s, REG_Z)
  IN  PcAdd(Put(s, d, FlashByte(flash, a)), 1)

opcode_in(s, w) == PcAdd(Put(s, Dreg5(w), IoRead(s, A6(w))), 1)
opcode_out(s, w) == PcAdd(IoWrite(s, A6(w), REG(s, Dreg5(w))), 1)
opcode_sbi(s, w) == PcAdd(IoWrite(s, A5(w), Or(IoRead(s, A5(w)), 2^BitNum(w))), 1)
opcode_cbi(s, w) == PcAdd(IoWrite(s, A5(w), And(IoRead(s, A5(w)), 255 - 2^BitNum(w))), 1)

opcode_mov(s, w) == PcAdd(Put(s, Dreg5(w), REG(s, Sreg5(w))), 1)
opcode_movw(s, w) == PcAdd(PutPair(s, 2 * Bits(w, 4, 4), Pair(s, 2 * Bits(w, 0, 4))), 1)
opcode_ldi(s, w) == PcAdd(Put(s, Dreg4(w), K8(w)), 1)

\* pop reads the byte that push has not written yet.
opcode_push(s, w) == PcAdd([Put(s, s.sp, REG(s, Dreg5(w))) EXCEPT !.sp = @ - 1], 1)
opcode_pop(s, w) == PcAdd([Put(s, Dreg5(w), s.ram[s.sp]) EXCEPT !.sp = @ + 1], 1)

\* The word after the first one is stacked; icall does not jump.
PushPc(s) == [PutPair(s, s.sp, s.pc + 1) EXCEPT !.sp = @ - 2]
opcode_call(s, k) == JumpTo(PushPc(s), k)
opcode_rcall(s, w) == PcAdd(PushPc(s), Offset12(w) + 1)
opcode_icall(s) == PushPc(s)
opcode_ret(s) == LET t == [s EXCEPT !.sp = @ + 2] IN JumpTo(t, Pair(t, t.sp))
opcode_rjmp(s, w) == PcAdd(s, Offset12(w) + 1)
opcode_jmp(s, k) == JumpTo(s, k)
opcode_ijmp(s) == JumpTo(s, Pair(s, REG_Z))
opcode_nop(s) == PcAdd(s, 1)
opcode_sleep(s) == PcAdd(Stop(s), 1)

\* The branch on S computes it from N and V.
Tested(s, w) == IF BitNum(w) = 4 THEN s.n # s.v ELSE FlagsOf(s)[BitNum(w) + 1]
opcode_brbc(s, w) == PcAdd(s, IF Tested(s, w) THEN 1 ELSE Offset7(w) + 1)
opcode_brbs(s, w) == PcAdd(s, IF Tested(s, w) THEN Offset7(w) + 1 ELSE 1)

SetFlag(s, b, on) ==
  PcAdd(CASE b = 0 -> [s EXCEPT !.c = on] [] b = 1 -> [s EXCEPT !.z = on]
          [] b = 2 -> [s EXCEPT !.n = on] [] b = 3 -> [s EXCEPT !.v = on]
          [] b = 4 -> [s EXCEPT !.s = on] [] b = 5 -> [s EXCEPT !.h = on]
          [] b = 6 -> [s EXCEPT !.t = on] [] b = 7 -> [s EXCEPT !.i = on], 1)
opcode_bset(s, w) == SetFlag(s, Bits(w, 4, 3), TRUE)
opcode_bclr(s, w) == SetFlag(s, Bits(w, 4, 3), FALSE)

opcode_bst(s, w) == PcAdd([s EXCEPT !.t = Has(REG(s, Dreg5(w)), BitNum(w))], 1)
opcode_bld(s, w) ==
  LET d == REG(s, Dreg5(w))  bit == 2^BitNum(w)
  IN  PcAdd(Put(s, Dreg5(w), IF s.t THEN Or(d, bit) ELSE And(d, 255 - bit)), 1)
-----------------------------------------------------------------------------

\* extract_opcode.  "none" is decoded in silence, "unknown" raises the signal.
DecodeFirst(w) ==
  LET signed == 2 * Bits(w, 7, 1) + Bits(w, 3, 1)
  IN CASE Bits(w, 8, 4) = 0 -> IF w = 0 THEN "NOP" ELSE "none"
       [] Bits(w, 8, 4) = 1 -> "MOVW"
       [] Bits(w, 8, 4) = 2 -> "MULS"
       [] Bits(w, 8, 4) = 3 -> <<"MULSU", "FMUL", "FMULS", "FMULSU">>[signed + 1]
       [] OTHER -> <<"CPC", "SBC", "ADD">>[Bits(w, 10, 2)]
DecodeLogic(w) ==
  LET two == Bits(w, 10, 2) + 1
      high == Bits(w, 12, 4)
  IN CASE high = 0 -> DecodeFirst(w)
       [] high = 1 -> <<"CPSE", "CP", "SUB", "ADC">>[two]
       [] high = 2 -> <<"AND", "EOR", "OR", "MOV">>[two]
       [] high \in 3..7 -> <<"CPI", "SBCI", "SUBI", "ORI", "ANDI">>[high - 2]
       [] high \in {8, 10} -> IF Has(w, 9) THEN "STD" ELSE "LDD"

\* 1001 00xx: the forms with Y and a post-increment (xx01) are not there.
DecodeMemory(w) ==
  LET form == Bits(w, 0, 4)
      store == Has(w, 9)
  IN CASE form = 0 -> IF store THEN "STS" ELSE "LDS"
       [] form \in {1, 2, 8, 10} -> IF store THEN "STD" ELSE "LDD"
       [] form \in {4, 5} /\ ~ store -> "LPM"
       [] form \in {6, 7} /\ ~ store -> "ELPM"
       [] form \in {12, 13, 14} -> IF store THEN "ST" ELSE "LD"
       [] form = 15 -> IF store THEN "PUSH" ELSE "POP"
       [] OTHER -> "unknown"

\* 1001 0101 xxxx 1000.
Special(more) ==
  CASE more = 0 -> "RET" [] more = 1 -> "RETI" [] more = 8 -> "SLEEP" [] more = 9 -> "BREAK"
    [] more = 10 -> "WDR" [] more = 12 -> "LPM" [] more = 13 -> "ELPM" [] more = 14 -> "SPM"
    [] OTHER -> "unknown"

\* 1001 010x.
DecodeUnary(w) ==
  LET form == Bits(w, 0, 4)
      more == Bits(w, 4, 4)
  IN CASE form \in 0..3 -> <<"COM", "NEG", "SWAP", "INC">>[form + 1]
       [] form \in 5..7 -> <<"ASR", "LSR", "ROR">>[form - 4]
       [] form = 10 -> "DEC"
       [] form \in {12, 13} -> "JMP"
       [] form \in {14, 15} -> "CALL"
       [] form = 9 /\ more \in {0, 1} ->
            IF Has(w, 8) THEN <<"ICALL", "EICALL">>[more + 1] ELSE <<"IJMP", "EIJMP">>[more + 1]
       [] form = 8 /\ ~ Has(w, 8) -> IF Has(w, 7) THEN "BCLR" ELSE "BSET"
       [] form = 8 /\ Has(w, 8) -> Special(more)
       [] OTHER -> "unknown"

\* The bit tests are decoded one place off: 00 is bld for the assembler, 01 bst, 10 sbrc, 11 sbrs.
DecodeFlow(w) ==
  CASE Bits(w, 12, 4) = 9 ->
         IF Has(w, 10) THEN "MUL" ELSE <<"CBI", "SBIC", "SBI", "SBIS">>[Bits(w, 8, 2) + 1]
    [] Bits(w, 12, 4) = 11 -> IF Has(w, 11) THEN "OUT" ELSE "IN"
    [] Bits(w, 12, 4) \in 12..14 -> <<"RJMP", "RCALL", "LDI">>[Bits(w, 12, 4) - 11]
    [] Bits(w, 11, 5) = 30 -> IF Has(w, 10) THEN "BRBC" ELSE "BRBS"
    [] Bits(w, 9, 2) = 1 -> "BLD"
    [] Bits(w, 9, 2) = 2 /\ ~ Has(w, 3) -> "BST"
    [] Bits(w, 9, 2) = 3 /\ ~ Has(w, 3) -> "SBRC"
    [] OTHER -> "unknown"

Decode(w) ==
  CASE Bits(w, 12, 4) \in 0..8 \cup {10} -> DecodeLogic(w)
    [] Bits(w, 10, 6) = 36 -> DecodeMemory(w)
    [] Bits(w, 9, 7) = 74 -> DecodeUnary(w)
    [] Bits(w, 8, 8) = 150 -> "ADIW"
    [] Bits(w, 8, 8) = 151 -> "SBIW"
    [] OTHER -> DecodeFlow(w)

\* The length of an instruction that is skipped.
Length(op) ==
  CASE op \in {"JMP", "CALL", "LDS", "STS"} -> 2 [] op \in {"none", "unknown"} -> 0 [] OTHER -> 1
Skip(s, skips, k) ==
  LET op == Decode(k)
      t == IF skips /\ op = "unknown" THEN Stop(s) ELSE s
  IN  PcAdd(t, IF skips THEN 1 + Length(op) ELSE 1)
opcode_cpse(s, w, k) == Skip(s, REG(s, Dreg5(w)) = REG(s, Sreg5(w)), k)
opcode_sbrc(s, w, k) == Skip(s, ~ Has(REG(s, Dreg5(w)), BitNum(w)), k)

\* The functions of 8bit_avr_instruction_set.def; those that are opcode_default stop.
Execute(s, op, w, k, flash) ==
  CASE op = "ADD" -> opcode_add(s, w)      [] op = "ADC" -> opcode_adc(s, w)
    [] op = "SUB" -> opcode_sub(s, w)      [] op = "SUBI" -> opcode_subi(s, w)
    [] op = "SBC" -> opcode_sbc(s, w)      [] op = "SBCI" -> opcode_sbci(s, w)
    [] op = "CP" -> opcode_cp(s, w)        [] op = "CPC" -> opcode_cpc(s, w)
    [] op = "CPI" -> opcode_cpi(s, w)      [] op = "CPSE" -> opcode_cpse(s, w, k)
    [] op = "LDI" -> opcode_ldi(s, w)      [] op = "MOV" -> opcode_mov(s, w)
    [] op = "MOVW" -> opcode_movw(s, w)    [] op = "BRBS" -> opcode_brbs(s, w)
    [] op = "BRBC" -> opcode_brbc(s, w)    [] op = "EOR" -> opcode_eor(s, w)
    [] op = "AND" -> opcode_and(s, w)      [] op = "ANDI" -> opcode_andi(s, w)
    [] op = "OR" -> opcode_or(s, w)        [] op = "ORI" -> opcode_ori(s, w)
    [] op = "COM" -> opcode_com(s, w)      [] op = "NEG" -> opcode_neg(s, w)
    [] op = "INC" -> opcode_inc(s, w)      [] op = "DEC" -> opcode_dec(s, w)
    [] op = "ASR" -> opcode_asr(s, w)      [] op = "LSR" -> opcode_lsr(s, w)
    [] op = "ROR" -> opcode_ror(s, w)      [] op = "ADIW" -> opcode_adiw(s, w)
    [] op = "SBIW" -> opcode_sbiw(s, w)    [] op = "MUL" -> opcode_mul(s, w)
    [] op = "MULS" -> opcode_muls(s, w)    [] op = "MULSU" -> opcode_mulsu(s, w)
    [] op = "FMUL" -> opcode_fmul(s, w)    [] op = "FMULS" -> opcode_fmuls(s, w)
    [] op = "FMULSU" -> opcode_fmulsu(s, w)
    [] op = "LD" -> opcode_ld(s, w)        [] op = "ST" -> opcode_st(s, w)
    [] op = "LDD" -> opcode_ldd(s, w)      [] op = "STD" -> opcode_std(s, w)
    [] op = "LDS" -> opcode_lds(s, w, k)   [] op = "STS" -> opcode_sts(s, w, k)
    [] op = "ELPM" -> opcode_elpm(s, w, flash)
    [] op = "PUSH" -> opcode_push(s, w)    [] op = "POP" -> opcode_pop(s, w)
    [] op = "IN" -> opcode_in(s, w)        [] op = "OUT" -> opcode_out(s, w)
    [] op = "SBI" -> opcode_sbi(s, w)      [] op = "CBI" -> opcode_cbi(s, w)
    [] op = "RCALL" -> opcode_rcall(s, w)  [] op = "CALL" -> opcode_call(s, k)
    [] op = "ICALL" -> opcode_icall(s)     [] op = "RET" -> opcode_ret(s)
    [] op = "RJMP" -> opcode_rjmp(s, w)    [] op = "JMP" -> opcode_jmp(s, k)
    [] op = "IJMP" -> opcode_ijmp(s)       [] op = "BSET" -> opcode_bset(s, w)
    [] op = "BCLR" -> opcode_bclr(s, w)    [] op = "SBRC" -> opcode_sbrc(s, w, k)
    [] op = "BLD" -> opcode_bld(s, w)      [] op = "BST" -> opcode_bst(s, w)
    [] op = "NOP" -> opcode_nop(s)         [] op = "SLEEP" -> opcode_sleep(s)
    [] op = "none" -> s
    [] OTHER -> Stop(s)

\* atmega128_mcu_run_insn, from the words of the flash; beyond them it is erased.
RunInsn(core, flash) ==
  LET s == [core EXCEPT !.pc = core.next]
      word(a) == IF a < Len(flash) THEN flash[a + 1] ELSE 65535
      w == word(s.pc)
  IN  Execute(s, Decode(w), w, word(s.pc + 1), flash)
-----------------------------------------------------------------------------
\* What compilers make of these instructions: arithmetic on two and three
\* registers, comparisons, calls, skips, loops, memory and I/O.  Each program is
\* assembled into the words of the flash, run from every operand of a set, and
\* its result compared with arithmetic.  r16, r17 hold the first operand (low,
\* high byte), r18, r19 the second.

avrVars == <<cpu, task>>

I(op, d, r) == [op |-> op, d |-> d, r |-> r, k |-> 0]
K(op, d, k) == [I(op, d, 0) EXCEPT !.k = k]
Jump(op, k) == K(op, 0, k)
On(op, bit, k) == [I(op, 0, bit) EXCEPT !.k = k]
Second(k) == K("word", 0, k)                  \* a second word, or data

\* The words of the assembler: opcode bits of two registers, of a register and a constant,
\* of one register, and of the others.
TwoRegisters ==
  [ADD |-> 3072, ADC |-> 7168, SUB |-> 6144, SBC |-> 2048, AND |-> 8192, EOR |-> 9216, OR |-> 10240,
   MOV |-> 11264, CP |-> 5120, CPC |-> 1024, CPSE |-> 4096, MUL |-> 39936]
Immediate ==
  [CPI |-> 12288, SBCI |-> 16384, SUBI |-> 20480, ORI |-> 24576, ANDI |-> 28672, LDI |-> 57344]
OneRegister ==
  [COM |-> 37888, NEG |-> 37889, INC |-> 37891, ASR |-> 37893, LSR |-> 37894, ROR |-> 37895,
   DEC |-> 37898, PUSH |-> 37391, POP |-> 36879, STS |-> 37376, ELPM |-> 36870,
   LDX |-> 36876, LDXplus |-> 36877, LDminusX |-> 36878, STX |-> 37388, STXplus |-> 37389,
   STminusX |-> 37390, LDminusY |-> 36874, STminusY |-> 37386]
NoOperand == [RET |-> 38152, IJMP |-> 37897, NOP |-> 0]
InRange(f, k, n) == f + (k % n)
Assemble(x) ==
  CASE x.op \in DOMAIN TwoRegisters -> TwoRegisters[x.op] + 512 * (x.r \div 16) + 16 * x.d + (x.r % 16)
    [] x.op \in DOMAIN Immediate ->
         Immediate[x.op] + 256 * (x.k \div 16) + 16 * (x.d - 16) + (x.k % 16)
    [] x.op \in DOMAIN OneRegister -> OneRegister[x.op] + 16 * x.d
    [] x.op \in DOMAIN NoOperand -> NoOperand[x.op]
    [] x.op \in {"ADIW", "SBIW"} ->
         (IF x.op = "ADIW" THEN 38400 ELSE 38656) + 64 * (x.k \div 16) + 16 * ((x.d - 24) \div 2) + (x.k % 16)
    [] x.op = "MOVW" -> 256 + 16 * (x.d \div 2) + x.r \div 2
    [] x.op = "MULSU" -> 768 + 16 * (x.d - 16) + x.r - 16
    [] x.op = "FMULSU" -> 904 + 16 * (x.d - 16) + x.r - 16
    [] x.op \in {"LDDY", "STDY"} ->
         (IF x.op = "LDDY" THEN 32776 ELSE 33288) + 1024 * (x.k \div 8) + 16 * x.d + (x.k % 8)
    [] x.op \in {"IN", "OUT"} ->
         (IF x.op = "IN" THEN 45056 ELSE 47104) + 512 * (x.k \div 16) + 16 * x.d + (x.k % 16)
    [] x.op \in {"CBI", "SBI"} -> (IF x.op = "CBI" THEN 38912 ELSE 39424) + 8 * x.k + x.r
    [] x.op = "RJMP" -> InRange(49152, x.k, 4096)
    [] x.op = "RCALL" -> InRange(53248, x.k, 4096)
    [] x.op \in {"BRBS", "BRBC"} -> (IF x.op = "BRBS" THEN 61440 ELSE 62464) + 8 * (x.k % 128) + x.r
    [] x.op \in {"BSET", "BCLR"} -> (IF x.op = "BSET" THEN 37896 ELSE 38024) + 16 * x.r
    [] x.op = "JMP" -> 37900
    [] x.op = "word" -> x.k

\* r20 ends as one when the branch is taken.
Test(op, bit) == <<K("LDI", 20, 1), On(op, bit, 1), K("LDI", 20, 0)>>
IoSreg == 63
Port == 27      \* the I/O address of PORTA

AvrProgram(t) ==
  CASE t.name = "add" -> <<I("ADD", 18, 16), I("ADC", 19, 17)>>
    [] t.name = "sub" -> <<I("SUB", 18, 16), I("SBC", 19, 17)>>
    [] t.name = "subi" -> <<K("SUBI", 18, t.a), K("SBCI", 19, t.b)>>
    [] t.name = "wide" ->
         <<I("MOVW", 24, 16), K("ADIW", 24, t.c % 64), I("MOVW", REG_Z, 24), K("SBIW", 24, t.c % 64)>>
    [] t.name = "negate" -> <<I("COM", 17, 0), I("NEG", 16, 0), K("SBCI", 17, 255)>>
    [] t.name = "multiply" ->
         <<I("MUL", 16, 18), I("MOVW", 20, 0), I("MUL", 17, 18), I("EOR", 22, 22),
           I("ADD", 21, 0), I("ADC", 22, 1)>>
    [] t.name = "mulsu" -> <<I("MULSU", 16, 18), I("MOVW", 20, 0), I("FMULSU", 16, 18)>>
    [] t.name = "compare" -> <<I("CP", 18, 16)>> \o Test(t.op, t.bit)
    [] t.name = "comparei" -> <<K("CPI", 18, t.a)>> \o Test(t.op, t.bit)
    [] t.name = "less" -> <<I("CP", 18, 16), I("CPC", 19, 17)>> \o Test(t.op, t.bit)
    [] t.name = "half" -> <<On("BCLR", 0, 0), I("ROR", 17, 0), I("ROR", 16, 0)>>
    [] t.name = "logic" ->
         <<I("MOV", 20, 16), I("AND", 20, 18), I("OR", 16, 18), I("ADD", 20, 16)>>
    [] t.name = "masks" ->     \* swap by EOR, then a mask and its complement
         <<I("EOR", 16, 18), I("EOR", 18, 16), I("EOR", 16, 18), I("MOV", 20, 16),
           K("ANDI", 20, 15), K("ANDI", 16, 240), I("OR", 20, 16), K("ORI", 16, 15)>>
    [] t.name = "call" ->      \* 0 calls 3, which calls 6
         <<Jump("RCALL", 2), I("EOR", 16, 17), Jump("RJMP", 6),
           I("ADD", 16, 18), Jump("RCALL", 1), I("RET", 0, 0),
           I("SUB", 16, 18), I("EOR", 16, 17), I("RET", 0, 0)>>
    [] t.name = "jump" ->      \* to 5 by the pointer, back to 4 by jmp
         <<K("LDI", REG_Z, 5), K("LDI", REG_Z + 1, 0), I("IJMP", 0, 0), I("NOP", 0, 0), Jump("RJMP", 3),
           I("ADD", 16, 18), Jump("JMP", 0), Second(4)>>
    [] t.name = "skip" ->
         <<I("MOV", 20, 16), I("CPSE", 16, 18), K("STS", 17, 0), Second(Data), I("CPSE", 16, 19), K("LDI", 20, 0)>>
    [] t.name = "copy" ->
         <<K("LDI", REG_X, Data), K("LDI", REG_X + 1, 0), I("STXplus", 16, 0), I("STX", 17, 0),
           I("LDX", 21, 0), I("LDminusX", 20, 0)>>
    [] t.name = "frame" ->
         <<K("LDI", REG_Y, Data), K("LDI", REG_Y + 1, 0), K("STDY", 16, 10), K("STDY", 17, 1),
           K("LDDY", 20, 1), K("LDDY", 21, 10), K("LDI", REG_Y, Data + 2), I("STminusY", 18, 0)>>
    [] t.name = "loop" ->      \* c times a, by a count down to zero
         <<K("LDI", 20, t.count), I("EOR", 21, 21), I("ADD", 21, 16), I("DEC", 20, 0), On("BRBC", 1, -3)>>
    [] t.name = "status" ->    \* the flags of a comparison, saved and restored around another
         <<I("CP", 18, 16), K("IN", 0, IoSreg), I("CP", 16, 17), I("INC", 16, 0), K("OUT", 0, IoSreg)>>
           \o Test(t.op, t.bit)
    [] t.name = "port" ->
         <<K("OUT", 16, Port), On("SBI", t.bit, Port), K("IN", 20, Port), On("CBI", t.bit, Port),
           K("IN", 21, Port)>>
    [] t.name = "table" ->     \* a byte of a word of the program
         <<Jump("RJMP", 1), Second(t.a + Byte * t.b), K("LDI", REG_Z, 2 + t.bit), K("LDI", REG_Z + 1, 0),
           I("ELPM", 20, 0)>>

Choices(cs, ds) == [a : Values, b : Values, c : cs, d : ds]
Variants(names, ops, bits, counts) == [name : names, op : ops, bit : bits, count : counts]
Branches == {"BRBS", "BRBC"}
Plain(names) == Variants(names, {""}, {0}, {0})
Tasks ==
  LET four(v) == {[x |-> x, o |-> o] : x \in v, o \in Choices(Values, Values)}
      three(v) == {[x |-> x, o |-> o] : x \in v, o \in Choices(Values, {0})}
      two(v) == {[x |-> x, o |-> o] : x \in v, o \in Choices({0}, {0})}
      all == four(Plain({"add", "sub", "subi", "skip"}))
             \cup four(Variants({"less"}, Branches, {0, 4}, {0}))
             \cup three(Plain({"wide", "negate", "multiply", "mulsu", "half", "logic", "masks", "call", "jump",
                               "copy", "frame"}))
             \cup three(Variants({"compare", "comparei"}, Branches, 0..4, {0}))
             \cup three(Variants({"status"}, Branches, {0, 1}, {0}))
             \cup three(Variants({"loop"}, {""}, {0}, 1..3))
             \cup two(Variants({"port"}, {""}, {0, 7}, {0}))
             \cup two(Variants({"table"}, {""}, {0, 1}, {0}))
  IN  {t.x @@ t.o : t \in all}

\* The core after the reset, its stack set and its operands loaded.
AvrInit ==
  \E t \in Tasks : \E text \in {AvrProgram(t)} :
    /\ task = [t |-> t, flash |-> [n \in DOMAIN text |-> Assemble(text[n])]]
    /\ cpu = [AluReset EXCEPT !.sp = Ramend, !.ram[16] = t.a, !.ram[17] = t.b, !.ram[18] = t.c, !.ram[19] = t.d]

Ended == cpu.next >= Len(task.flash) \/ cpu.signal
Instruction == ~ Ended /\ cpu' = RunInsn(cpu, task.flash) /\ UNCHANGED task
Stopped == Ended /\ UNCHANGED avrVars
AvrNext == Instruction \/ Stopped
-----------------------------------------------------------------------------

R(n) == cpu.ram[n]
Both(n) == Pair(cpu, n)
SignedOf(v, size) == IF v >= size \div 2 THEN v - size ELSE v

\* What a branch on a flag decides after the comparison of y with x.
Relation(t, x, y, size) ==
  LET set == CASE t.bit = 0 -> y < x
               [] t.bit = 1 -> x = y
               [] t.bit = 2 -> (y - x) % size >= size \div 2
               [] t.bit = 3 -> SignedOf(y, size) - SignedOf(x, size) # SignedOf((y - x) % size, size)
               [] t.bit = 4 -> SignedOf(y, size) < SignedOf(x, size)
  IN  (R(20) = 1) = (set = (t.op = "BRBS"))

Expected(t) ==
  LET one == t.a + Byte * t.b
      two == t.c + Byte * t.d
  IN CASE t.name = "add" -> /\ Both(18) = (one + two) % Word
                            /\ cpu.c = (one + two >= Word)
                            /\ cpu.v = (SignedOf(one, Word) + SignedOf(two, Word)
                                        # SignedOf((one + two) % Word, Word))
       [] t.name \in {"sub", "subi"} -> /\ Both(18) = (two - one) % Word
                                        /\ cpu.c = (two < one)
                                        /\ cpu.z = (two = one)
       [] t.name = "wide" -> /\ Both(REG_Z) = (one + (t.c % 64)) % Word
                             /\ Both(24) = one
                             /\ cpu.c = (one + (t.c % 64) >= Word)
       [] t.name = "negate" -> Both(16) = (0 - one) % Word
       [] t.name = "multiply" -> Both(20) + Word * R(22) = one * t.c
       [] t.name = "mulsu" -> /\ Both(20) = (Int8(t.a) * t.c) % Word
                              /\ Both(0) = (2 * Int8(t.a) * t.c) % Word
       [] t.name \in {"compare", "comparei", "status"} -> Relation(t, t.a, t.c, Byte)
       [] t.name = "less" -> Relation(t, one, two, Word)
       [] t.name = "half" -> Both(16) = one \div 2 /\ cpu.c = (one % 2 = 1)
       [] t.name = "logic" -> R(20) = (t.a + t.c) % Byte
       [] t.name = "masks" -> R(20) = t.c /\ R(18) = t.a /\ R(16) = 16 * (t.c \div 16) + 15
       [] t.name = "call" -> R(16) = t.a /\ cpu.sp = Ramend
       [] t.name = "jump" -> R(16) = (t.a + t.c) % Byte
       [] t.name = "skip" -> /\ R(Data) = (IF t.a = t.c THEN 0 ELSE t.b)
                             /\ R(20) = (IF t.a = t.d THEN t.a ELSE 0)
       [] t.name = "copy" -> R(20) = t.a /\ R(21) = t.b /\ Both(REG_X) = Data
       [] t.name = "frame" -> /\ R(20) = t.b /\ R(21) = t.a /\ Both(REG_Y) = Data + 1
                              /\ R(Data + 1) = t.c /\ R(Data + 10) = t.a
       [] t.name = "loop" -> R(21) = (t.count * t.a) % Byte
       [] t.name = "port" -> R(20) = Or(t.a, 2^t.bit) /\ R(21) = And(t.a, 255 - 2^t.bit) /\ R(Port + 32) = R(21)
       [] t.name = "table" -> R(20) = (IF t.bit = 0 THEN t.a ELSE t.b)

\* Multi-byte arithmetic with its carries, signed and unsigned branches, calls,
\* skips over one and two words, memory copies, saved flags, ports and tables in the flash
\* end with what arithmetic says.
AvrComputes == Ended => ~ cpu.signal /\ Expected(task.t)
=============================================================================
