--------------------------------- MODULE M25p ----------------------------------
(***************************************************************************)
(* The m25p80 flash memory, as its driver sees it on the SPI bus: a frame  *)
(* is what is exchanged while the chip is selected.  The driver waits for  *)
(* the end of an erasure, and keeps the hold pin high.  A byte of data or  *)
(* of address is a digit in 0..Base-1, so that a page has Base bytes and a *)
(* sector Base pages; a command is its code.                               *)
(***************************************************************************)
EXTENDS Naturals, Integers, Sequences

CONSTANTS
  Base,      \* M25P_PAGE_SIZE, and pages in a sector, and sectors
  MaxFrame,  \* bound: bytes in a frame
  MaxWrites  \* bound: page programs, erasures and status writes

VARIABLES
  dev,    \* struct m25p_t
  frame,  \* the bytes sent since the chip was selected
  answer, \* what the chip sent back for the last of them
  before, \* the memory when it was selected
  waits,  \* the driver has started an erasure and not yet seen its end
  writes  \* frames that write, so far

m25Vars == <<dev, frame, answer, before, waits, writes>>

NOP == 0   WRSR == 1   PP == 2   READ == 3   WRDI == 4   RDSR == 5   WREN == 6
FASTREAD == 11   RES == 171   DP == 185   BE == 199   SE == 216
Commands == {WRSR, PP, READ, WRDI, RDSR, WREN, FASTREAD, RES, DP, BE, SE}
Writing == {WRSR, PP, SE, BE}
Signature == 19   \* M25P_ELECTRONIC_SIGNATURE

Data == 0..(Base - 1)
Size == Base * Base * Base
Address(a) == (a[1] * Base + a[2]) * Base + a[3]
\* The bits that are set in both bytes, for the one digit that is kept of each.
And(a, b) == IF a < b THEN a ELSE b
Or(a, b) == IF a < b THEN b ELSE a

M25Init ==
  /\ dev = [select |-> FALSE, power |-> "standby", command |-> NOP, needed |-> 0,
            stored |-> <<0, 0, 0, 0>>, pointer |-> 0, complete |-> FALSE,
            dummy |-> FALSE, readByte |-> FALSE,
            wip |-> FALSE, wel |-> FALSE, bp |-> 0,
            mem |-> [a \in 0..(Size - 1) |-> Base - 1]]
  /\ frame = <<>> /\ answer = 0 /\ before = dev.mem /\ waits = FALSE
  /\ writes = 0

\* FAST_READ without its dummy byte.
NeededNoDummy(b, old) ==
  CASE b = WRSR -> 1 [] b \in {READ, PP, SE, RES, FASTREAD} -> 3 [] OTHER -> old

\* m25p_write_spidata: the first byte of a frame is a command.
Needed(b, old) ==
  CASE b = WRSR -> 1 [] b \in {READ, PP, SE, RES} -> 3 [] b = FASTREAD -> 4 [] OTHER -> old

StartCommand(m, b) ==
  [m EXCEPT !.command = b, !.readByte = TRUE, !.dummy = TRUE,
            !.complete = b \in {WREN, WRDI, BE, DP}, !.needed = Needed(b, @)]

\* The byte of an address: the last one of a read or of a page program sets
\* the pointer.  FAST_READ has one byte more, which counts for nothing.
Argument(m, b) ==
  LET all == Needed(m.command, 0)
      st  == [m.stored EXCEPT ![all - m.needed + 1] = b]
  IN  [m EXCEPT !.stored = st, !.needed = @ - 1, !.dummy = TRUE,
                !.pointer = IF m.needed = 1 /\ m.command \in {READ, FASTREAD, PP}
                            THEN Address(st) ELSE @]

Program(m, b) ==
  LET page == m.pointer \div Base
      last == m.pointer % Base = Base - 1
  IN  [m EXCEPT !.mem[m.pointer] = And(@, b), !.dummy = TRUE,
                !.pointer = IF last THEN page ELSE @ + 1]

\* The sector to erase is set by a byte that follows the address.
AfterArguments(m, b) ==
  CASE m.command = WRSR -> [m EXCEPT !.needed = @ - 1, !.complete = TRUE, !.dummy = TRUE]
    [] m.command = SE   -> [m EXCEPT !.pointer = Address(m.stored), !.complete = TRUE,
                                     !.dummy = TRUE]
    [] m.command = PP   -> Program(m, b)
    [] m.command \in {READ, FASTREAD, RES} -> [m EXCEPT !.needed = @ - 1, !.dummy = TRUE]
    [] OTHER            -> [m EXCEPT !.dummy = TRUE]

HasArguments(c) == c \in {WRSR, READ, FASTREAD, PP, SE, RES}

WriteSpiData(m, b) ==
  CASE m.complete           -> m
    [] m.power = "standby"  -> [m EXCEPT !.dummy = TRUE]
    [] m.power = "deep"     -> [m EXCEPT !.dummy = TRUE, !.command = b,
                                         !.power = IF b = RES THEN "active" ELSE @]
    [] m.command = NOP      -> StartCommand(m, b)
    [] HasArguments(m.command) /\ m.needed > 0 -> Argument(m, b)
    [] OTHER                -> AfterArguments(m, b)

Bit(b) == IF b THEN 1 ELSE 0

\* m25p_read, after each byte: the value, and the chip that has sent it.
Value(m) ==
  CASE m.readByte \/ ~ m.dummy -> 0
    [] m.command = RDSR -> Bit(m.wip) + 2 * Bit(m.wel) + 4 * m.bp
    [] m.command \in {READ, FASTREAD} /\ m.needed < 0 -> m.mem[m.pointer]
    [] m.command = RES /\ m.needed < 0 -> Signature
    [] OTHER -> 0

ReadSpi(m) ==
  [m EXCEPT !.readByte = FALSE, !.dummy = FALSE,
            !.pointer = IF ~ m.readByte /\ m.dummy /\ m.command \in {READ, FASTREAD} /\ m.needed < 0
                        THEN (@ + 1) % Size ELSE @]

\* m25p_erase_sector, m25p_erase_bulk: a protected sector is erased all the same.
EraseSector(m) ==
  LET sector == m.pointer \div (Base * Base)
  IN  [m EXCEPT !.wip = TRUE,
                !.mem = [a \in DOMAIN @ |-> IF a \div (Base * Base) = sector THEN Base - 1 ELSE @[a]]]

EraseBulk(m) == [m EXCEPT !.wip = TRUE, !.mem = [a \in DOMAIN @ |-> Base - 1]]

\* m25p_write_status_register only sets bits.
WriteStatus(m) == [m EXCEPT !.bp = Or(@, m.stored[1]), !.wip = TRUE]

EndCommand(m) == [m EXCEPT !.complete = FALSE, !.command = NOP]
GoStandby(m) == [EndCommand(m) EXCEPT !.power = "standby"]

\* m25p_write, the chip select: a command takes effect when the frame ends.
\* Without the byte after its argument WRSR does nothing.
DeselectedChip(m) ==
  LET n == [m EXCEPT !.select = FALSE]
  IN  CASE n.command = NOP  -> n
        [] n.command = WREN -> GoStandby([n EXCEPT !.wel = TRUE])
        [] n.command = WRDI -> GoStandby([n EXCEPT !.wel = FALSE])
        [] n.command \in {RDSR, READ, FASTREAD} -> GoStandby(n)
        [] n.command = WRSR -> GoStandby(IF n.complete THEN WriteStatus(n) ELSE n)
        [] n.command = PP   -> EndCommand([n EXCEPT !.wel = FALSE])
        [] n.command = SE   -> EndCommand([EraseSector(n) EXCEPT !.wel = FALSE])
        [] n.command = BE   -> EndCommand([EraseBulk(n) EXCEPT !.wel = FALSE])
        [] n.command = DP   -> [EndCommand(n) EXCEPT !.power = "deep"]
        [] n.command = RES  -> [EndCommand(n) EXCEPT !.power = "active"]
        [] OTHER            -> EndCommand(n)

SelectedChip(m) == [m EXCEPT !.select = TRUE, !.power = "active"]
-----------------------------------------------------------------------------

\* The driver.  The bytes it sends only to clock an answer out are 0.
Meaningful(c) ==
  CASE c \in {READ, FASTREAD, SE} -> 4 [] c = PP -> MaxFrame [] c = WRSR -> 2 [] OTHER -> 1

Select ==
  /\ ~ dev.select
  /\ dev' = SelectedChip(dev)
  /\ frame' = <<>> /\ before' = dev.mem
  /\ UNCHANGED <<answer, waits, writes>>

Exchange(b) ==
  /\ dev.select /\ Len(frame) < MaxFrame
  /\ frame = <<>> => /\ b \in Commands /\ (waits => b = RDSR)
                     /\ b \in Writing => writes < MaxWrites
  /\ frame # <<>> => b \in Data /\ (Len(frame) >= Meaningful(frame[1]) => b = 0)
  /\ LET m == WriteSpiData(dev, b)
     IN  dev' = ReadSpi(m) /\ answer' = Value(m)
  /\ frame' = Append(frame, b)
  /\ waits' = (waits /\ (Len(frame) = 0 \/ answer' % 2 = 1))
  /\ writes' = IF frame = <<>> /\ b \in Writing THEN writes + 1 ELSE writes
  /\ UNCHANGED before

Deselect ==
  /\ dev.select /\ frame # <<>>
  /\ dev' = DeselectedChip(dev)
  /\ waits' = (waits \/ frame[1] \in {WRSR, SE, BE})
  /\ UNCHANGED <<frame, answer, before, writes>>

\* m25p_update, when the time of the operation has passed.
Update ==
  /\ dev.power = "active" /\ dev.wip
  /\ dev' = [dev EXCEPT !.wip = FALSE, !.command = NOP]
  /\ UNCHANGED <<frame, answer, before, waits, writes>>

M25Next ==
  \/ Select
  \/ \E b \in Commands \cup Data : Exchange(b)
  \/ Deselect
  \/ Update
-----------------------------------------------------------------------------

\* A read returns the bytes of the memory, from the address sent, one after the
\* other and around its end, whatever the frames before it did to the chip.
Skipped == IF frame[1] = FASTREAD THEN 5 ELSE 4
M25Reads ==
  dev.select /\ frame # <<>> =>
    /\ frame[1] \in {READ, FASTREAD} /\ Len(frame) > Skipped =>
         answer = dev.mem[(Address(SubSeq(frame, 2, 4)) + Len(frame) - Skipped - 1) % Size]
    /\ frame[1] = RES /\ Len(frame) > 4 => answer = Signature

\* A page program clears the bits it is given from the address on, as long as it
\* stays in its page; no other frame touches the memory before it ends.
Programmed(a) ==
  LET at == Address(SubSeq(frame, 2, 4)) IN a >= at /\ a < at + Len(frame) - 4
M25Programs ==
  dev.select =>
    IF Len(frame) > 4 /\ frame[1] = PP
    THEN frame[4] + Len(frame) - 4 <= Base =>
           dev.mem = [a \in DOMAIN before |->
                        IF Programmed(a)
                        THEN And(before[a], frame[5 + a - Address(SubSeq(frame, 2, 4))])
                        ELSE before[a]]
    ELSE dev.mem = before
=============================================================================
