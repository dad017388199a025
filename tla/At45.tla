---------------------------------- MODULE At45 ----------------------------------
(***************************************************************************)
(* The at45db flash memory.  It has a memory of pages and two buffers of   *)
(* one page, and is written to in two ways: a byte on the SPI bus, and the *)
(* pins of the port that selects it, which also carries other signals, so  *)
(* that a write of the port may reach the chip within a frame.  The page   *)
(* number of an address is kept in its first byte and the position in the  *)
(* page in the last.  BLOCK_ERASE is left out: its memset of the size of   *)
(* the whole flash for each page of the block runs past the memory.        *)
(***************************************************************************)
EXTENDS Naturals, Sequences

CONSTANTS
  Pages,      \* AT45_PAGE_MAX
  PageSize,   \* AT45_PAGE_SIZE
  Field,      \* values of the byte address of a page: more than PageSize
  MaxPrograms \* bound: frames that write, and writes of the port in a frame

VARIABLES
  dev,    \* struct at45db_t
  frame,  \* the bytes sent since the chip was selected
  answer, \* what it sent back for the last of them
  before, \* memory and buffers when it was selected
  poked,  \* the port was written since then
  writes  \* of MaxPrograms, so far

at45Vars == <<dev, frame, answer, before, poked, writes>>

NOP == 0  CONTREAD == 104  PAGE_READ == 82  STATUS_READ == 87  PAGE_ERASE == 129
BUFFER_READ  == <<84, 86>>   SI_TO_BUFFER == <<132, 135>>  SI_PPE == <<130, 133>>
WI_ERASE     == <<131, 134>> WO_ERASE     == <<136, 137>>
COPY_BUFFER  == <<83, 85>>   COMP_BUFFER  == <<96, 97>>    MULTI_BUFFER == <<88, 89>>
Of(pair) == {pair[1], pair[2]}
Families == {BUFFER_READ, SI_TO_BUFFER, SI_PPE, WI_ERASE, WO_ERASE, COPY_BUFFER, COMP_BUFFER, MULTI_BUFFER}
Reading == {CONTREAD, PAGE_READ, STATUS_READ} \cup Of(BUFFER_READ)
Opcodes == Reading \cup {PAGE_ERASE} \cup UNION {Of(f) : f \in Families}
BufferOf(c) == IF \E f \in Families : f[2] = c THEN 2 ELSE 1

\* The value k of a byte stands for the byte whose k lowest bits are set, so that
\* the bits set in both of two bytes are those of the least.
Byte == 0..(Field - 1)
Erased == Field - 1   \* 0xff
And(x, y) == IF x < y THEN x ELSE y
FlashSize == Pages * PageSize

At45Init ==
  /\ dev = [select |-> FALSE, ready |-> TRUE, comp |-> FALSE, busy |-> FALSE,
            command |-> NOP, next |-> NOP, needed |-> 0, complete |-> FALSE,
            stored |-> [i \in 0..7 |-> 0], page |-> 0, addr |-> 0, start |-> FALSE,
            valid |-> FALSE, value |-> 0, read |-> 0, differ |-> FALSE, compare |-> FALSE,
            mem |-> [a \in 0..(FlashSize - 1) |-> Erased],
            buf |-> [i \in 1..2 |-> [a \in 0..(PageSize - 1) |-> 0]]]
  /\ frame = <<>> /\ answer = 0 /\ poked = FALSE /\ writes = 0
  /\ before = [mem |-> dev.mem, buf |-> dev.buf]

\* at45db_needed_data, at45db_need_to_complete, at45db_busy_time.
NeededData(c) ==
  CASE c \in {CONTREAD, PAGE_READ} -> 7
    [] c \in Opcodes \ {CONTREAD, PAGE_READ, STATUS_READ} -> 3
    [] OTHER -> 0
NeedToComplete(c) ==
  c \in {PAGE_ERASE} \cup UNION {Of(f) : f \in {WI_ERASE, WO_ERASE, SI_PPE, COPY_BUFFER, COMP_BUFFER}}

\* READ_PAGE_ADDRESS, READ_BYTE_ADDRESS, READ_LINEAR_ADDRESS.
PageAddress(st) == st[0] % Pages
ByteAddress(st) == st[2] % PageSize
LinearAddress(st) == (st[0] * Field + st[2]) % FlashSize

\* The page of the memory, and the memory with a page replaced.
Page(m, p) == [a \in 0..(PageSize - 1) |-> m.mem[p * PageSize + a]]
WithPage(m, p, data) ==
  [a \in DOMAIN m.mem |-> IF a \div PageSize = p THEN data[a % PageSize] ELSE m.mem[a]]

\* The beginning of the commands on a page: the first call takes the address.
AtPage(m) == [m EXCEPT !.page = IF m.start THEN PageAddress(m.stored) ELSE @, !.start = FALSE]
Busy(m) == [m EXCEPT !.busy = TRUE, !.complete = TRUE, !.read = 0]

ReadFromBuffer(m, i) ==
  LET a == IF m.start THEN ByteAddress(m.stored) ELSE m.addr
  IN  [m EXCEPT !.start = FALSE, !.read = m.buf[i][a], !.addr = (a + 1) % PageSize]

WriteSiToBuffer(m, i) ==
  LET a == IF m.start THEN ByteAddress(m.stored) ELSE m.addr
  IN  [AtPage(m) EXCEPT !.buf[i][a] = m.value, !.addr = (a + 1) % PageSize, !.read = 0]

WriteBufferWithErase(m, i) ==
  LET n == AtPage(m) IN Busy([n EXCEPT !.mem = WithPage(n, n.page, n.buf[i])])

WriteBufferWithoutErase(m, i) ==
  LET n == AtPage(m)
      old == Page(n, n.page)
  IN  Busy([n EXCEPT !.mem = WithPage(n, n.page, [a \in DOMAIN old |-> And(old[a], n.buf[i][a])]),
                     !.addr = PageSize])

PageErase(m) ==
  LET n == AtPage(m)
  IN  [n EXCEPT !.mem = WithPage(n, n.page, [a \in 0..(PageSize - 1) |-> 0]),
                !.busy = TRUE, !.complete = TRUE]

\* The multiple rewrite copies, and "back is a null operation".
CopyPageToBuffer(m, i) == LET n == AtPage(m) IN Busy([n EXCEPT !.buf[i] = Page(n, n.page)])

ComparePageToBuffer(m, i) ==
  LET n == AtPage(m)
  IN  Busy([n EXCEPT !.differ = Page(n, n.page) # n.buf[i], !.compare = TRUE, !.addr = PageSize])

\* A byte that arrives when no command is under way: an opcode, or an argument.
Opening(m) ==
  IF ~ m.valid THEN m
  ELSE LET n == IF m.needed = 0
                THEN [m EXCEPT !.next = m.value, !.needed = NeededData(m.value), !.addr = 0,
                               !.complete = NeedToComplete(m.value)]
                ELSE [m EXCEPT !.stored[m.addr] = m.value, !.addr = @ + 1, !.needed = @ - 1]
       IN  [n EXCEPT !.command = IF n.needed = 0 THEN n.next ELSE @,
                     !.start = IF n.needed = 0 THEN TRUE ELSE @, !.read = 0]

ContinuousRead(m) ==
  LET a == IF m.start THEN LinearAddress(m.stored) ELSE m.addr
  IN  [m EXCEPT !.start = FALSE, !.read = m.mem[a], !.addr = (a + 1) % FlashSize]

PageRead(m) ==
  LET n == AtPage(m)
      a == IF m.start THEN ByteAddress(m.stored) ELSE m.addr
  IN  [n EXCEPT !.read = m.mem[n.page * PageSize + a], !.addr = (a + 1) % PageSize]

StatusByte(m) == (IF m.ready THEN 2 ELSE 0) + (IF m.comp THEN 1 ELSE 0)

\* at45db_update: called at the end of every write, of a byte or of the pins.
Update(m) ==
  LET i == BufferOf(m.command)
  IN  CASE m.command = NOP -> Opening(m)
        [] m.command = CONTREAD -> ContinuousRead(m)
        [] m.command = PAGE_READ -> PageRead(m)
        [] m.command = STATUS_READ -> [m EXCEPT !.read = StatusByte(m)]
        [] m.command \in Of(BUFFER_READ) -> ReadFromBuffer(m, i)
        [] m.command \in Of(SI_TO_BUFFER) \cup Of(SI_PPE) -> WriteSiToBuffer(m, i)
        [] m.command \in Of(WI_ERASE) -> WriteBufferWithErase(m, i)
        [] m.command \in Of(WO_ERASE) -> WriteBufferWithoutErase(m, i)
        [] m.command = PAGE_ERASE -> PageErase(m)
        [] m.command \in Of(COPY_BUFFER) \cup Of(MULTI_BUFFER) -> CopyPageToBuffer(m, i)
        [] m.command \in Of(COMP_BUFFER) -> ComparePageToBuffer(m, i)
        [] OTHER -> m

\* at45db_reset: the arguments still expected are not forgotten.
ResetChip(m) ==
  [m EXCEPT !.command = NOP, !.busy = FALSE, !.complete = FALSE, !.compare = FALSE,
            !.valid = FALSE, !.read = 0, !.ready = TRUE, !.comp = FALSE]

\* The arguments of a frame cut short are still expected.
NegatedStillExpects(m) ==
  LET n == IF m.command \in Of(SI_PPE) THEN WriteBufferWithErase(m, BufferOf(m.command)) ELSE m
  IN  [n EXCEPT !.ready = IF n.busy \/ n.complete THEN FALSE ELSE @,
                !.command = NOP, !.complete = FALSE, !.valid = FALSE]

\* The chip is not selected: the page is programmed, and the time of the command
\* starts to run.
Negated(m) ==
  LET n == IF m.command \in Of(SI_PPE) THEN WriteBufferWithErase(m, BufferOf(m.command)) ELSE m
  IN  [n EXCEPT !.ready = IF n.busy \/ n.complete THEN FALSE ELSE @,
                !.command = NOP, !.needed = 0, !.complete = FALSE, !.valid = FALSE]

\* at45db_write: a byte of the bus; the pins of the port.
WriteByte(m, b) == Update([m EXCEPT !.value = b, !.valid = TRUE])
WritePins(m, select, reset) ==
  LET n == [m EXCEPT !.select = select, !.valid = FALSE]
      r == IF reset THEN ResetChip(n) ELSE n
  IN  Update(IF select THEN r ELSE Negated(r))

\* at45db_read, at the end of the turn of the main loop.
ReadChip(m) == [m EXCEPT !.valid = FALSE, !.read = 0]
-----------------------------------------------------------------------------

\* The driver: it clocks answers and arguments that do not matter with 0.
Arguments(c) == IF c \in {CONTREAD, PAGE_READ} THEN 8 ELSE IF c = STATUS_READ THEN 1 ELSE 4
Meant(i, b) ==
  CASE i = 1 -> b \in Opcodes
    [] i = 2 -> b < Pages
    [] i = 4 -> b \in Byte
    [] i > 4 /\ frame[1] \in Of(SI_TO_BUFFER) \cup Of(SI_PPE) -> b \in {0, Erased}
    [] OTHER -> b = 0

SelectChip ==
  /\ ~ dev.select
  /\ dev' = ReadChip(WritePins(dev, TRUE, FALSE))
  /\ frame' = <<>> /\ answer' = 0 /\ poked' = FALSE
  /\ before' = [mem |-> dev.mem, buf |-> dev.buf]
  /\ UNCHANGED writes

SendByte(b) ==
  /\ dev.select
  /\ Meant(Len(frame) + 1, b)
  /\ IF frame = <<>>
     THEN /\ b = STATUS_READ \/ dev.ready
          /\ b \notin Reading => writes < MaxPrograms
          /\ writes' = IF b \in Reading THEN writes ELSE writes + 1
     ELSE Len(frame) < Arguments(frame[1]) + 2 /\ UNCHANGED writes
  /\ LET m == WriteByte(dev, b) IN dev' = ReadChip(m) /\ answer' = m.read
  /\ frame' = Append(frame, b)
  /\ UNCHANGED <<before, poked>>

\* The port is written for another of its signals, or to reset the chip.
Poke(reset) ==
  /\ dev.select /\ ~ poked /\ writes < MaxPrograms
  /\ dev' = ReadChip(WritePins(dev, TRUE, reset))
  /\ poked' = TRUE
  /\ writes' = writes + 1
  /\ UNCHANGED <<frame, answer, before>>

DeselectChip ==
  /\ dev.select /\ frame # <<>>
  /\ dev' = ReadChip(WritePins(dev, FALSE, FALSE))
  /\ UNCHANGED <<frame, answer, before, poked, writes>>

\* at45db_update_cycle, once the time has passed.
UpdateCycle ==
  /\ ~ dev.ready
  /\ dev' = [dev EXCEPT !.ready = TRUE, !.busy = FALSE, !.compare = FALSE,
                        !.comp = IF dev.compare THEN dev.differ ELSE @]
  /\ UNCHANGED <<frame, answer, before, poked, writes>>

At45Next ==
  \/ SelectChip
  \/ \E b \in Opcodes \cup Byte : SendByte(b)
  \/ \E reset \in BOOLEAN : Poke(reset)
  \/ DeselectChip
  \/ UpdateCycle
-----------------------------------------------------------------------------

\* What the frame means: the address it carries, the bytes of data, the page
\* and the buffer it is about.
Extra == Len(frame) - Arguments(frame[1])
At(k) == (frame[4] + k) % PageSize
SentPage(data) == [a \in 0..(PageSize - 1) |-> data[frame[2] * PageSize + a]]

\* The answers to a frame the port does not disturb are, in order, the bytes of
\* the page or of the buffer as it was when the frame began, from the address
\* sent, around its end.
At45Reads ==
  dev.select /\ ~ poked /\ frame # <<>> /\ Extra > 0 =>
    /\ frame[1] = PAGE_READ => answer = SentPage(before.mem)[At(Extra - 1)]
    /\ frame[1] \in Of(BUFFER_READ) => answer = before.buf[BufferOf(frame[1])][At(Extra - 1)]

\* What a frame has written once it is over: a buffer loaded from the bus, a
\* page programmed from the buffer it has just loaded; nothing else.  The
\* commands on a page need one byte more than their address, without which they
\* do nothing.
Loaded(i) ==
  [a \in 0..(PageSize - 1) |->
     LET ks == {k \in 0..(Extra - 1) : At(k) = a}
     IN  IF ks = {} THEN before.buf[i][a]
         ELSE frame[5 + CHOOSE k \in ks : \A l \in ks : l <= k]]
BufferAfter(i) ==
  IF i # BufferOf(frame[1]) THEN before.buf[i]
  ELSE CASE frame[1] \in Of(SI_TO_BUFFER) \cup Of(SI_PPE) -> Loaded(i)
         [] frame[1] \in Of(COPY_BUFFER) \cup Of(MULTI_BUFFER) /\ Extra > 0 -> SentPage(before.mem)
         [] OTHER -> before.buf[i]
PageAfter ==
  LET i == BufferOf(frame[1])
      old == SentPage(before.mem)
  IN  CASE frame[1] \in Of(SI_PPE) -> Loaded(i)
        [] frame[1] \in Of(WI_ERASE) /\ Extra > 0 -> before.buf[i]
        [] frame[1] \in Of(WO_ERASE) /\ Extra > 0 -> [a \in DOMAIN old |-> And(old[a], before.buf[i][a])]
        [] frame[1] = PAGE_ERASE /\ Extra > 0 -> [a \in DOMAIN old |-> 0]
        [] OTHER -> old
At45Programs ==
  ~ dev.select /\ ~ poked /\ Len(frame) >= 4 /\ frame[1] # STATUS_READ /\ Extra >= 0 =>
    /\ \A i \in 1..2 : dev.buf[i] = BufferAfter(i)
    /\ dev.mem = [a \in DOMAIN before.mem |->
                  IF a \div PageSize = frame[2] THEN PageAfter[a % PageSize] ELSE before.mem[a]]
=============================================================================
