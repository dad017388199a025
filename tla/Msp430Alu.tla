-------------------------------- MODULE Msp430Alu -------------------------------
(***************************************************************************)
(* Execution of one MSP430 instruction: operands, result, flags, stack and *)
(* program counter (msp430_mcu_run_insn).  An instruction is a record      *)
(* [op, byte, src, dst], an operand a record [as, reg, x] where x is its   *)
(* extension word; the program counter counts instructions.  Cycles and    *)
(* traces are left out.  SR has its arithmetic flags, GIE and CPUOFF, in   *)
(* consecutive bits.                                                       *)
(***************************************************************************)
EXTENDS Integers, Sequences, FiniteSets

CONSTANT W   \* bits of a byte: 8 in the source

PC == 0  SP == 1  SR == 2  CG2 == 3
Size(byte) == 2^(IF byte THEN W ELSE 2 * W)
Word == Size(FALSE)
Msb(v, byte) == v % Size(byte) >= Size(byte) \div 2
Signed(v, byte) == IF Msb(v, byte) THEN (v % Size(byte)) - Size(byte) ELSE v % Size(byte)
Bit(b) == IF b THEN 1 ELSE 0

SrWord(s) == Bit(s.c) + 2 * Bit(s.z) + 4 * Bit(s.n) + 8 * Bit(s.gie) + 16 * Bit(s.off)
             + 32 * Bit(s.v)
SetSr(s, w) ==
  LET on(k) == (w \div 2^k) % 2 = 1
  IN  [s EXCEPT !.c = on(0), !.z = on(1), !.n = on(2), !.gie = on(3), !.off = on(4), !.v = on(5)]

ReadShort(s, a) == s.mem[a] + 2^W * s.mem[a + 1]
WriteShort(s, a, v) == [s EXCEPT !.mem[a] = v % 2^W, !.mem[a + 1] = (v % Word) \div 2^W]
ReadSrc(s, a, byte) == IF byte THEN s.mem[a] ELSE ReadShort(s, a)
-----------------------------------------------------------------------------

\* The source operand of type 1, the operand of type 2.
IsConstant(o) == o.reg = CG2 \/ (o.reg = SR /\ o.as >= 2)
ConstantOf(o) == IF o.reg = CG2 THEN <<0, 1, 2, Word - 1>>[o.as + 1] ELSE 2^o.as

Reg(s, r) == CASE r = PC -> s.next [] r = SR -> SrWord(s) [] OTHER -> s.r[r]

\* Symbolic and absolute addresses are the extension word itself.
Address(s, o) ==
  CASE o.as = 1 /\ o.reg \in {PC, SR} -> o.x
    [] o.as = 1 -> (o.x + s.r[o.reg]) % Word
    [] OTHER -> s.r[o.reg]

\* A symbolic operand is read as a word, even by an instruction on bytes.
Operand(s, o, byte) ==
  CASE IsConstant(o) -> ConstantOf(o)
    [] o.as = 0 -> Reg(s, o.reg)
    [] o.reg = PC /\ o.as = 3 -> o.x
    [] o.reg = PC /\ o.as = 1 -> ReadShort(s, Address(s, o))
    [] OTHER -> ReadSrc(s, Address(s, o), byte)

AutoIncrement(s, o, byte) ==
  IF o.as = 3 /\ o.reg # PC /\ ~ IsConstant(o)
  THEN [s EXCEPT !.r[o.reg] = (@ + (IF byte THEN 1 ELSE 2)) % Word] ELSE s

\* READ_OPT1_DST.
Destination(s, o, byte) ==
  IF o.as = 0 THEN Reg(s, o.reg) ELSE ReadSrc(s, Address(s, o), byte)

\* WRITE: a register takes the whole result.
WriteTo(s, o, a, byte, v) ==
  CASE o.as = 0 /\ o.reg = PC -> [s EXCEPT !.next = v]
    [] o.as = 0 /\ o.reg = SR -> SetSr(s, v)
    [] o.as = 0 -> [s EXCEPT !.r[o.reg] = v % Word]
    [] byte -> [s EXCEPT !.mem[a] = v % 2^W]
    [] OTHER -> WriteShort(s, a, v)

Flags(s, res, c, v, byte) ==
  [s EXCEPT !.c = c, !.v = v, !.z = (res = 0), !.n = Msb(res, byte)]
-----------------------------------------------------------------------------

Adder(x, y, carry, byte) ==
  LET sum == x + y + carry
  IN  [res |-> sum % Size(byte), c |-> sum >= Size(byte),
       v |-> Msb(x, byte) = Msb(y, byte) /\ Msb(sum, byte) # Msb(x, byte)]
Inverse(x, byte) == Size(byte) - 1 - x
Subtract(x, y, carry, byte) == Adder(Inverse(x, byte), y, carry, byte)
LogicOf(res, v) == [res |-> res, c |-> res # 0, v |-> v]

\* Bitwise on words: the sum of the bits set in both; what C writes |, and ^.
And(x, y) ==
  LET set(v, k) == (v \div 2^k) % 2 = 1
      f[n \in 0..(2 * W)] ==
        IF n = 0 THEN 0 ELSE IF set(x, n - 1) /\ set(y, n - 1) THEN f[n - 1] + 2^(n - 1) ELSE f[n - 1]
  IN  f[2 * W]
Or(x, y) == x + y - And(x, y)
Xor(x, y) == x + y - 2 * And(x, y)

Compute(s, op, x, y, byte) ==
  CASE op = "ADD"  -> Adder(x, y, 0, byte)
    [] op = "ADDC" -> Adder(x, y, Bit(s.c), byte)
    [] op \in {"SUB", "CMP"} -> Subtract(x, y, 1, byte)
    [] op = "SUBC" -> Subtract(x, y, Bit(s.c), byte)
    [] op \in {"AND", "BIT"} -> LogicOf(And(x, y), FALSE)
    [] op = "XOR" -> LogicOf(Xor(x, y), Msb(x, byte) /\ Msb(y, byte))

\* OP_DADD: digit by digit; the carry compares the digits with a number.
DaddDigits(s, x, y, byte) ==
  LET n == (IF byte THEN W ELSE 2 * W) \div 4
      digit(v, k) == (v \div 16^k) % 16
      carry[k \in 0..n] ==
        IF k = 0 THEN Bit(s.c)
        ELSE Bit(digit(x, k - 1) + digit(y, k - 1) + carry[k - 1] >= 10)
      d(k) == LET t == digit(x, k) + digit(y, k) + carry[k] IN IF t >= 10 THEN t - 10 ELSE t
      sum[k \in 0..n] == IF k = 0 THEN 0 ELSE sum[k - 1] + (d(k - 1) % 16) * 16^(k - 1)
  IN  [res |-> sum[n], c |-> Signed(sum[n], FALSE) > 10^n - 1]

\* msp430_type1_double_operands, then the case of the opcode.
Execute1(s, i) ==
  LET src == Operand(s, i.src, i.byte)
      t   == AutoIncrement(s, i.src, i.byte)
      a   == IF i.dst.as = 0 THEN 0 ELSE Address(t, i.dst)
      x   == src % Size(i.byte)
      y   == Destination(t, i.dst, i.byte) % Size(i.byte)
      alu == Compute(s, i.op, x, y, i.byte)
      bcd == DaddDigits(s, x, y, i.byte)
      put(v) == WriteTo(t, i.dst, a, i.byte, v)
  IN  CASE i.op = "MOV" -> put(src)
        [] i.op = "BIC" -> put(And(y, Inverse(x, i.byte)))
        [] i.op = "BIS" -> put(Or(x, y))
        [] i.op = "DADD" -> Flags(put(bcd.res), bcd.res, bcd.c, s.v, i.byte)
        [] i.op \in {"BIT", "CMP"} -> Flags(t, alu.res, alu.c, alu.v, i.byte)
        [] OTHER -> Flags(put(alu.res), alu.res, alu.c, alu.v, i.byte)
-----------------------------------------------------------------------------

Down(s, k) == [s EXCEPT !.r[SP] = (@ - k) % Word]
Push(s, v) == LET d == Down(s, 2) IN WriteShort(d, d.r[SP], v)
Up(s, k) == [s EXCEPT !.r[SP] = (@ + k) % Word]
StackTop(s) == ReadShort(s, s.r[SP])

\* OP_RRA, OP_RRC, OP_SWPB, OP_SXT.
Rra(s, v, byte) ==
  LET h == Size(byte) \div 2
      res == (IF Msb(v, byte) THEN h ELSE 0) + ((v \div 2) % h)
  IN  [res |-> res, c |-> v % 2 = 1, v |-> FALSE]
Rrc(s, v, byte) ==
  [res |-> (v % Size(byte)) \div 2 + Bit(s.c) * (Size(byte) \div 2), c |-> v % 2 = 1,
   v |-> ~ Msb(v, byte) /\ s.c]
Swpb(v) == (v % 2^W) * 2^W + (v % Word) \div 2^W
Sxt(v) == Signed(v, TRUE) % Word

Execute2(s, i) ==
  LET o == i.dst
      v == Operand(s, o, i.byte)
      t == AutoIncrement(s, o, i.byte)
      a == IF o.as = 0 THEN 0 ELSE Address(s, o)
      shifted == IF i.op = "RRA" THEN Rra(s, v, i.byte) ELSE Rrc(s, v, i.byte)
      put(r) == WriteTo(t, o, a, i.byte, r)
  IN  CASE i.op \in {"RRA", "RRC"} ->
             Flags(put(shifted.res), shifted.res, shifted.c, shifted.v, i.byte)
        [] i.op = "SWPB" -> put(Swpb(v))
        [] i.op = "SXT" -> Flags(put(Sxt(v)), Sxt(v), Sxt(v) # 0, FALSE, i.byte)

\* OP_PUSH, OP_CALL: the stack pointer moves before the operand is read.
PushOperand(s, i) ==
  LET d == Down(s, 2)
      t == AutoIncrement(d, i.dst, i.byte)
  IN  WriteShort(t, t.r[SP], Operand(d, i.dst, i.byte))
CallTo(s, i) ==
  LET d == Down(s, 2)
      t == AutoIncrement(d, i.dst, i.byte)
  IN  [WriteShort(t, t.r[SP], t.next) EXCEPT !.next = Operand(d, i.dst, i.byte)]

\* OP_PUSHM, OP_POPM of count + 1 registers; wide (.A) leaves a second word for each.
PushMany(s, i) ==
  LET high(v) == IF Msb(v, FALSE) THEN Word - 1 ELSE 0
      one(t, v) == IF i.wide THEN Push(Push(t, v), high(v)) ELSE Push(t, v)
      after[k \in 0..i.count + 1] ==
        IF k = 0 THEN s ELSE one(after[k - 1], after[k - 1].r[i.reg - (k - 1)])
  IN  after[i.count + 1]
PopMany(s, i) ==
  LET one(t, r) == LET u == IF i.wide THEN Up(t, 2) ELSE t
                   IN  [Up(u, 2) EXCEPT !.r[r] = StackTop(u)]
      after[k \in 0..i.count + 1] == IF k = 0 THEN s ELSE one(after[k - 1], i.reg + (k - 1))
  IN  after[i.count + 1]

\* OP_RETI; the check of the flags of the peripherals is in Msp430Timer.
ReturnInterrupt(s) ==
  LET t == Up(SetSr(s, StackTop(s)), 2) IN [Up(t, 2) EXCEPT !.next = StackTop(t)]

\* The conditions of the jumps.
Taken(s, op) ==
  CASE op = "JNZ" -> ~ s.z [] op = "JZ" -> s.z [] op = "JC" -> s.c [] op = "JNC" -> ~ s.c
    [] op = "JN" -> s.n [] op = "JGE" -> s.n = s.v [] op = "JL" -> s.n # s.v
    [] op = "JMP" -> TRUE

\* msp430_mcu_run_insn.
RunInsn(cpu, i) ==
  LET s == [cpu EXCEPT !.next = @ + 1]
      t == CASE i.op \in {"MOV", "ADD", "ADDC", "SUB", "SUBC", "CMP", "DADD", "BIC", "BIS",
                          "BIT", "XOR", "AND"} -> Execute1(s, i)
             [] i.op \in {"RRA", "RRC", "SWPB", "SXT"} -> Execute2(s, i)
             [] i.op = "PUSH" -> PushOperand(s, i)
             [] i.op = "CALL" -> CallTo(s, i)
             [] i.op = "PUSHM" -> PushMany(s, i)
             [] i.op = "POPM" -> PopMany(s, i)
             [] i.op = "RETI" -> ReturnInterrupt(s)
             [] OTHER -> [s EXCEPT !.next = IF Taken(s, i.op) THEN @ + i.offset ELSE @]
  IN  t
-----------------------------------------------------------------------------

(***************************************************************************)
(* What compilers make of these instructions: arithmetic on pairs of       *)
(* words, comparisons, shifts, calls.  Each program runs from every        *)
(* operand of a set and its result is compared with arithmetic.            *)
(* r4, r5 hold the first operand (low, high word), r6, r7 the second.      *)
(***************************************************************************)
CONSTANTS Operands,   \* values of a word
          MemTop,     \* the last address
          Stack,      \* the first stack pointer
          TextAt        \* an address of data

VARIABLES cpu, task   \* the state of the core; the program and its operands

aluVars == <<cpu, task>>

R(n) == [as |-> 0, reg |-> n, x |-> 0]
Imm(v) == [as |-> 3, reg |-> PC, x |-> v]
Const(v) == CASE v = 0 -> [as |-> 0, reg |-> CG2, x |-> 0] [] v = 1 -> [as |-> 1, reg |-> CG2, x |-> 0]
              [] v = -1 -> [as |-> 3, reg |-> CG2, x |-> 0]
Pop == [as |-> 3, reg |-> SP, x |-> 0]
Inc(n) == [as |-> 3, reg |-> n, x |-> 0]
At(k, n) == [as |-> 1, reg |-> n, x |-> k]
Abs(a) == [as |-> 1, reg |-> SR, x |-> a]
I(op, src, dst) == [op |-> op, byte |-> FALSE, src |-> src, dst |-> dst]
B(op, src, dst) == [op |-> op, byte |-> TRUE, src |-> src, dst |-> dst]
One(op, dst) == I(op, dst, dst)
Jump(op, k) == [op |-> op, offset |-> k]
Many(op, n, reg, wide) == [op |-> op, count |-> n - 1, reg |-> reg, wide |-> wide]
\* r8 ends as one when the jump is taken.
Test(j) == <<I("MOV", Const(1), R(8)), Jump(j, 1), I("MOV", Const(0), R(8))>>
Jumps == {"JZ", "JNZ", "JC", "JNC", "JN", "JGE", "JL"}

AluProgram(t) ==
  CASE t.name = "add" -> <<I("ADD", R(4), R(6)), I("ADDC", R(5), R(7))>>
    [] t.name = "sub" -> <<I("SUB", R(4), R(6)), I("SUBC", R(5), R(7))>>
    [] t.name = "twice" -> <<I("ADD", R(4), R(4)), I("ADDC", R(5), R(5))>>
    [] t.name = "negate" ->
         <<I("XOR", Const(-1), R(4)), I("XOR", Const(-1), R(5)), I("ADD", Const(1), R(4)),
           I("ADDC", Const(0), R(5))>>
    [] t.name = "half" -> <<One("RRA", R(5)), One("RRC", R(4))>>
    [] t.name = "uhalf" -> <<I("BIC", Const(1), R(SR)), One("RRC", R(5)), One("RRC", R(4))>>
    [] t.name = "less" -> <<I("CMP", R(4), R(6)), I("SUBC", R(5), R(7))>> \o Test(t.jump)
    [] t.name = "compare" -> <<[I("CMP", R(4), R(6)) EXCEPT !.byte = t.byte]>> \o Test(t.jump)
    [] t.name = "swap" -> <<I("XOR", R(4), R(6)), I("XOR", R(6), R(4)), I("XOR", R(4), R(6))>>
    [] t.name = "mask" ->
         <<I("MOV", R(6), R(7)), I("AND", R(4), R(6)), I("BIS", R(4), R(7)), I("ADD", R(6), R(7))>>
    [] t.name = "clear" ->
         <<I("MOV", R(6), R(7)), I("AND", R(4), R(7)), I("BIC", R(4), R(6)), I("BIT", R(4), R(6))>>
         \o Test("JZ") \o <<I("BIS", R(7), R(6))>>
    [] t.name = "bytes" ->     \* a word copied by bytes, in the other order
         <<I("MOV", Imm(TextAt), R(9)), I("MOV", R(4), Abs(TextAt)), B("MOV", Inc(9), At(2, 9)),
           B("MOV", Inc(9), At(0, 9)), I("MOV", Abs(TextAt + 2), R(8)), One("SWPB", R(8))>>
    [] t.name = "extend" -> <<One("SXT", R(4)), One("RRA", R(4)), I("ADD", R(4), R(4))>>
    [] t.name = "decimal" -> <<I("BIC", Const(1), R(SR)), I("DADD", R(4), R(6))>>
    [] t.name = "call" ->
         <<One("PUSH", R(4)), One("CALL", Imm(5)), I("MOV", Pop, R(4)), Jump("JMP", 6),
           Many("PUSHM", 3, 6, t.wide), I("ADD", R(5), R(4)), I("XOR", R(6), R(5)), I("MOV", Const(0), R(6)),
           Many("POPM", 3, 4, t.wide), I("MOV", Pop, R(PC))>>
    [] t.name = "interrupt" ->
         <<One("PUSH", R(4)), I("ADD", R(5), R(4)), I("CMP", R(4), R(6)), I("MOV", Pop, R(4)),
           [op |-> "RETI"]>>

\* The memory before: an interrupt has pushed its return address, 6, and SR.
Entry(t) ==
  LET m == [mem |-> [a \in 0..MemTop |-> 0]]
  IN  WriteShort(WriteShort(m, Stack, t.a), Stack + 2, 6).mem

Tasks ==
  [name : {"add", "sub"}, a : Operands, b : Operands, c : Operands, d : Operands]
  \cup [name : {"less"}, jump : {"JGE", "JL", "JC"}, a : Operands, b : Operands, c : Operands, d : Operands]
  \cup [name : {"twice", "negate", "half", "uhalf", "swap", "mask", "clear", "bytes", "extend", "interrupt"},
        a : Operands, b : Operands, c : Operands, d : {0}]
  \cup [name : {"decimal"}, a : {16 * i + j : i, j \in {0, 1, 4, 5, 9}}, b : {0},
        c : {16 * i + j : i, j \in {0, 5, 8, 9}}, d : {0}]
  \cup [name : {"compare"}, jump : Jumps, byte : BOOLEAN, a : Operands, b : {0}, c : Operands, d : {0}]
  \cup [name : {"call"}, wide : BOOLEAN, a : Operands, b : Operands, c : Operands, d : {0}]

AluInit ==
  /\ task \in Tasks
  /\ cpu = [next |-> 1, c |-> FALSE, z |-> FALSE, n |-> FALSE, v |-> FALSE, gie |-> FALSE, off |-> FALSE,
            mem |-> Entry(task),
            r |-> [i \in 0..15 |-> CASE i = 4 -> task.a [] i = 5 -> task.b [] i = 6 -> task.c
                                     [] i = 7 -> task.d [] i = SP -> Stack [] OTHER -> 0]]

Ended == cpu.next > Len(AluProgram(task))
Instruction == ~ Ended /\ cpu' = RunInsn(cpu, AluProgram(task)[cpu.next]) /\ UNCHANGED task
Stopped == Ended /\ UNCHANGED aluVars
AluNext == Instruction \/ Stopped
-----------------------------------------------------------------------------

Pair(lo, hi) == lo + Word * hi
SignedPair(p) == IF p >= (Word * Word) \div 2 THEN p - Word * Word ELSE p
First == Pair(task.a, task.b)
Second == Pair(task.c, task.d)
Decimal(v) == 10 * (v \div 16) + (v % 16)

\* What the jump of a comparison of y with x decides, from their difference.
Relation(j, x, y, size) ==
  LET signed(v) == IF v >= size \div 2 THEN v - size ELSE v
  IN  CASE j = "JZ" -> x = y [] j = "JNZ" -> x # y [] j = "JC" -> y >= x [] j = "JNC" -> y < x
        [] j = "JN" -> (y - x) % size >= size \div 2
        [] j = "JGE" -> signed(y) >= signed(x) [] j = "JL" -> signed(y) < signed(x)

Expected(s, t) ==
  LET wide == Word * Word
  IN CASE t.name = "add" -> /\ Pair(s.r[6], s.r[7]) = (First + Second) % wide
                            /\ s.c = (First + Second >= wide)
                            /\ s.v = (SignedPair(First) + SignedPair(Second)
                                      # SignedPair((First + Second) % wide))
       [] t.name = "sub" -> /\ Pair(s.r[6], s.r[7]) = (Second - First) % wide
                            /\ s.c = (Second >= First)
       [] t.name = "twice" -> Pair(s.r[4], s.r[5]) = (2 * First) % wide
       [] t.name = "negate" -> Pair(s.r[4], s.r[5]) = (0 - First) % wide
       [] t.name = "half" -> SignedPair(Pair(s.r[4], s.r[5])) = SignedPair(First) \div 2
       [] t.name = "uhalf" -> Pair(s.r[4], s.r[5]) = First \div 2
       [] t.name = "less" -> (s.r[8] = 1) = Relation(t.jump, First, Second, wide)
       [] t.name = "compare" -> (s.r[8] = 1) = Relation(t.jump, t.a % Size(t.byte), t.c % Size(t.byte), Size(t.byte))
       [] t.name = "swap" -> s.r[4] = t.c /\ s.r[6] = t.a
       [] t.name = "mask" -> s.r[7] = (t.a + t.c) % Word
       [] t.name = "clear" -> s.r[6] = t.c /\ s.r[8] = 1
       [] t.name = "bytes" -> s.r[8] = t.a /\ s.r[9] = TextAt + 2
       [] t.name = "extend" -> Signed(s.r[4], FALSE) = 2 * (Signed(t.a, TRUE) \div 2)
       [] t.name = "decimal" -> Decimal(s.r[6]) = (Decimal(t.a) + Decimal(t.c)) % 100
       [] t.name = "call" -> s.r[4] = t.a /\ s.r[5] = t.b /\ s.r[6] = t.c /\ s.r[SP] = Stack
       [] t.name = "interrupt" -> s.r[4] = t.a /\ SrWord(s) = t.a % 64 /\ s.r[SP] = Stack + 4

\* Programs on pairs of words, signed and unsigned comparisons, shifts through the
\* carry, nested calls and interrupts end with what arithmetic says.
Computes == Ended => Expected(cpu, task)
=============================================================================
