------------------------------- MODULE LibSelect -------------------------------
(***************************************************************************)
(* libselect/libselect.c: a serial port of the simulated machine connected *)
(* to a file or to a TCP client, with the buffers that let the machine go  *)
(* back in time.  The device is devices/ptty, which reads and writes one   *)
(* byte at a time.                                                         *)
(*                                                                         *)
(* In a simulation with a WSNet server, reads are pending until the state  *)
(* is saved, and writes reach the descriptor only then; a restore cancels  *)
(* both.  Without a server nothing is ever restored and I/O is immediate.  *)
(*                                                                         *)
(* The simulator is one thread: the actions of this module are calls from  *)
(* its main loop, in an order that depends on the program, on the network  *)
(* and on the other end of the descriptor.                                 *)
(***************************************************************************)
EXTENDS Integers, Sequences

CONSTANTS
  FIFO_SIZE,   \* fifo->size: DEFAULT_FIFO_SIZE
  BUFFER_MAX,  \* bytes read from a descriptor at once
  MaxIn,       \* bound: bytes sent by the other end
  MaxOut       \* bound: bytes written by the program

ASSUME FifoSizeAssumption == FIFO_SIZE \in Nat \ {0}

ASSUME LibSelectAssumption ==
  BUFFER_MAX \in Nat \ {0} /\ MaxIn \in Nat /\ MaxOut \in Nat

-----------------------------------------------------------------------------
(* libselect_fifomem.c: the two rings behind a descriptor of the           *)
(* simulator, as functions from a fifo to a fifo.  The input fifo has two  *)
(* read marks.  What is before read_ptr is gone; what is between read_ptr  *)
(* and read_ptr_virtual has been read and may be read again, until         *)
(* readcommit or readcancel brings the marks together.  A byte is known by *)
(* its place in the stream it belongs to.                                  *)

Cells == 0..FIFO_SIZE - 1

InputFifo ==
  [val : [Cells -> Nat], read_ptr : Cells, read_ptr_virtual : Cells,
   write_ptr : Cells, state : 0..FIFO_SIZE, state_virtual : 0..FIFO_SIZE]

OutputFifo ==
  [val : [Cells -> Nat], read_ptr : Cells, write_ptr : Cells,
   state : 0..FIFO_SIZE]

EmptyInput ==
  [val |-> [k \in Cells |-> 0], read_ptr |-> 0, read_ptr_virtual |-> 0,
   write_ptr |-> 0, state |-> 0, state_virtual |-> 0]

EmptyOutput ==
  [val |-> [k \in Cells |-> 0], read_ptr |-> 0, write_ptr |-> 0, state |-> 0]

\* A pointer moved n cells on.
Moved(p, n) == (p + n) % FIFO_SIZE

\* The two memcpy of putblock: data from cell w on, the rest from cell 0 on.
Written(val, w, data) ==
  LET part1 == FIFO_SIZE - w
      part2 == Len(data) - part1
  IN  [k \in Cells |->
         IF w <= k /\ k < w + Len(data) THEN data[k - w + 1]
         ELSE IF k < part2 THEN data[part1 + k + 1]
         ELSE val[k]]

\* The two memcpy of getblock and readblock: n bytes from cell r on.
ReadFrom(val, r, n) ==
  LET part1 == FIFO_SIZE - r
  IN  [i \in 1..n |-> IF i <= part1 THEN val[r + i - 1] ELSE val[i - part1 - 1]]

\* A block that does not fit is not written at all.
Fits(f, n) == f.state + n <= FIFO_SIZE

\* What putblock returns: the size of the block if it was written, and how
\* much of it was too much otherwise.
PutResult(f, n) == IF Fits(f, n) THEN n ELSE n - (FIFO_SIZE - f.state)

(* Input: from a descriptor to the simulated machine. *)

InputPut(f, data) ==
  IF Fits(f, Len(data))
    THEN [f EXCEPT !.val = Written(@, f.write_ptr, data),
                   !.state = @ + Len(data),
                   !.state_virtual = @ + Len(data),
                   !.write_ptr = Moved(@, Len(data))]
    ELSE f

CanRead(f, n) == n <= f.state_virtual

InputRead(f, n) ==
  IF CanRead(f, n)
    THEN [f EXCEPT !.state_virtual = @ - n,
                   !.read_ptr_virtual = Moved(@, n)]
    ELSE f

InputBlock(f, n) == ReadFrom(f.val, f.read_ptr_virtual, n)

InputCommit(f) ==
  [f EXCEPT !.read_ptr = f.read_ptr_virtual, !.state = f.state_virtual]

InputCancelHalf(f) ==   \* mutant: only the count is put back
  [f EXCEPT !.state_virtual = f.state]

InputCancel(f) ==
  [f EXCEPT !.read_ptr_virtual = f.read_ptr, !.state_virtual = f.state]

(* Output: from the simulated machine to a descriptor. *)

OutputPut(f, data) ==
  IF Fits(f, Len(data))
    THEN [f EXCEPT !.val = Written(@, f.write_ptr, data),
                   !.state = @ + Len(data),
                   !.write_ptr = Moved(@, Len(data))]
    ELSE f

OutputBlock(f) == ReadFrom(f.val, f.read_ptr, f.state)

\* flush forgets what the ring holds, not where it holds it.
OutputFlush(f) == [f EXCEPT !.read_ptr = 0, !.write_ptr = 0, !.state = 0]
-----------------------------------------------------------------------------
(* A descriptor, what is behind it, and the machine. *)

VARIABLES
  wsnet,       \* libselect_ws_mode # WS_MODE_WSNET0
  entry_type,  \* "file" or "tcp"
  registered,
  link,        \* the other end: "none", "asking", "open", "closed"
  socket,      \* bytes sent by the other end and not read
  fifo_input, fifo_output,
  machine,     \* history of the machine: bytes it has read and written
  backup,      \* that history when the state was saved
  sent,        \* history: number of bytes the other end has sent
  accepted,    \* history: bytes put in the input fifo
  lost,        \* history: bytes that did not fit
  reported,    \* history: those for which an overrun error was printed
  writes,      \* history: number of bytes the program has written, cancelled
               \* ones included
  seen,        \* history: bytes written to the descriptor
  unsent       \* history: bytes the descriptor refused

hostVars == <<link, socket, sent>>
inVars   == <<fifo_input, accepted, lost, reported>>
outVars  == <<fifo_output, writes, seen, unsent>>
vars == <<wsnet, entry_type, registered, hostVars, inVars, outVars,
          machine, backup>>

History == [read : Seq(Nat), wrote : Seq(Nat)]

TypeOK ==
  /\ wsnet \in BOOLEAN /\ entry_type \in {"file", "tcp"}
  /\ registered \in BOOLEAN
  /\ link \in {"none", "asking", "open", "closed"}
  /\ socket \in Seq(Nat)
  /\ fifo_input \in InputFifo /\ fifo_output \in OutputFifo
  /\ machine \in History /\ backup \in History
  /\ sent \in Nat /\ accepted \in Seq(Nat)
  /\ lost \subseteq Nat /\ reported \subseteq Nat
  /\ writes \in Nat /\ seen \in Seq(Nat) /\ unsent \subseteq Nat

\* libselect_id_create and libselect_id_register.
Init ==
  /\ wsnet \in BOOLEAN /\ entry_type \in {"file", "tcp"}
  /\ registered = TRUE
  /\ link = (IF entry_type = "file" THEN "open" ELSE "none")
  /\ socket = <<>> /\ sent = 0
  /\ fifo_input = EmptyInput /\ accepted = <<>>
  /\ lost = {} /\ reported = {}
  /\ fifo_output = EmptyOutput /\ writes = 0 /\ seen = <<>> /\ unsent = {}
  /\ machine = [read |-> <<>>, wrote |-> <<>>] /\ backup = machine

-----------------------------------------------------------------------------
(* The other end. *)

PeerSend ==
  /\ link = "open" /\ sent < MaxIn
  /\ sent' = sent + 1 /\ socket' = Append(socket, sent + 1)
  /\ UNCHANGED <<wsnet, entry_type, registered, link, inVars, outVars,
                 machine, backup>>

PeerConnect ==
  /\ entry_type = "tcp" /\ link = "none"
  /\ link' = "asking"
  /\ UNCHANGED <<wsnet, entry_type, registered, socket, sent, inVars, outVars,
                 machine, backup>>

\* End of the file, or the client closes its connection.
PeerClose ==
  /\ link = "open"
  /\ link' = "closed"
  /\ UNCHANGED <<wsnet, entry_type, registered, socket, sent, inVars, outVars,
                 machine, backup>>

-----------------------------------------------------------------------------
(* libselect_update_registered: what select reports on this descriptor. *)

\* A connection: accept.
UpdateAccept ==
  /\ registered /\ link = "asking"
  /\ link' = "open"
  /\ UNCHANGED <<wsnet, entry_type, registered, socket, sent, inVars, outVars,
                 machine, backup>>

\* Bytes: the whole block goes to the fifo, or none of it.
UpdateRead ==
  /\ registered /\ socket # <<>>
  /\ LET n    == IF Len(socket) < BUFFER_MAX THEN Len(socket) ELSE BUFFER_MAX
         data == SubSeq(socket, 1, n)
         got  == {data[i] : i \in 1..n}
     IN  /\ fifo_input' = InputPut(fifo_input, data)
         /\ socket' = SubSeq(socket, n + 1, Len(socket))
         /\ IF Fits(fifo_input, n)
              THEN accepted' = accepted \o data /\ UNCHANGED lost
              ELSE lost' = lost \cup got /\ UNCHANGED accepted
         /\ reported' = IF PutResult(fifo_input, n) < n
                          THEN reported \cup got ELSE reported
  /\ UNCHANGED <<wsnet, entry_type, registered, link, sent, outVars,
                 machine, backup>>

\* End of file: a file is unregistered, a server waits for a new client.
UpdateClose ==
  /\ registered /\ socket = <<>> /\ link = "closed"
  /\ IF entry_type = "file"
       THEN registered' = FALSE /\ UNCHANGED link
       ELSE link' = "none" /\ UNCHANGED registered
  /\ UNCHANGED <<wsnet, entry_type, socket, sent, inVars, outVars,
                 machine, backup>>

-----------------------------------------------------------------------------
(* The device, and the machine. *)

\* fd_out # -1.
Writable == entry_type = "file" \/ link \in {"open", "closed"}

ReadOne(f) == IF wsnet THEN InputRead(f, 1) ELSE InputCommit(InputRead(f, 1))

\* ptty_read, when the fifo has something.
Read ==
  /\ CanRead(fifo_input, 1)
  /\ fifo_input' = ReadOne(fifo_input)
  /\ machine' = [machine EXCEPT !.read = Append(@, InputBlock(fifo_input, 1)[1])]
  /\ UNCHANGED <<wsnet, entry_type, registered, hostVars, accepted, lost,
                 reported, outVars, backup>>

\* ptty_write: the device does not look at what libselect_id_write returns.
Write ==
  /\ writes < MaxOut /\ Writable
  /\ writes' = writes + 1
  /\ LET c == writes + 1 IN
       IF wsnet
         THEN /\ fifo_output' = OutputPut(fifo_output, <<c>>)
              /\ machine' = IF Fits(fifo_output, 1)
                              THEN [machine EXCEPT !.wrote = Append(@, c)]
                              ELSE machine
              /\ UNCHANGED seen
         ELSE /\ seen' = Append(seen, c)
              /\ machine' = [machine EXCEPT !.wrote = Append(@, c)]
              /\ UNCHANGED fifo_output
  /\ UNCHANGED <<wsnet, entry_type, registered, hostVars, inVars, unsent,
                 backup>>

SaveUnflushed ==   \* mutant: what was written stays in the fifo
  /\ backup' = machine
  /\ fifo_input' = InputCommit(fifo_input)
  /\ LET data == OutputBlock(fifo_output) IN
       IF Writable
         THEN seen' = seen \o data /\ UNCHANGED unsent
         ELSE /\ unsent' = unsent \cup {data[i] : i \in 1..Len(data)}
              /\ UNCHANGED seen
  /\ UNCHANGED <<wsnet, entry_type, registered, hostVars, accepted, lost,
                 reported, writes, machine, fifo_output>>

\* machine_state_save: the reads are committed, the writes are made.
Save ==
  /\ backup' = machine
  /\ fifo_input' = InputCommit(fifo_input)
  /\ fifo_output' = IF fifo_output.state > 0 THEN OutputFlush(fifo_output)
                                             ELSE fifo_output
  /\ LET data == OutputBlock(fifo_output) IN
       IF Writable
         THEN seen' = seen \o data /\ UNCHANGED unsent
         ELSE /\ unsent' = unsent \cup {data[i] : i \in 1..Len(data)}
              /\ UNCHANGED seen
  /\ UNCHANGED <<wsnet, entry_type, registered, hostVars, accepted, lost,
                 reported, writes, machine>>

RestoreUnflushed ==   \* mutant: the cancelled output stays in the fifo
  /\ wsnet
  /\ machine' = backup
  /\ fifo_input' = InputCancel(fifo_input)
  /\ UNCHANGED <<wsnet, entry_type, registered, hostVars, accepted, lost,
                 reported, fifo_output, writes, seen, unsent, backup>>

\* machine_state_restore, on a backtrack asked by the WSNet server.
Restore ==
  /\ wsnet
  /\ machine' = backup
  /\ fifo_input' = InputCancel(fifo_input)
  /\ fifo_output' = OutputFlush(fifo_output)
  /\ UNCHANGED <<wsnet, entry_type, registered, hostVars, accepted, lost,
                 reported, writes, seen, unsent, backup>>

Peer == PeerSend \/ PeerConnect \/ PeerClose
Update == UpdateAccept \/ UpdateRead \/ UpdateClose
Next == Peer \/ Update \/ Read \/ Write \/ Save \/ Restore

Spec == Init /\ [][Next]_vars

-----------------------------------------------------------------------------

\* The machine reads the bytes that were put in the fifo, each once and in
\* order, and after a restore the same ones again.
Input == INSTANCE Replay WITH stream <- accepted, taken <- machine.read,
                              kept <- backup.read, Byte <- Nat
ImplementsReplay == Input!Spec

Increasing(s) == \A i, j \in 1..Len(s) : i < j => s[i] < s[j]
Bytes(s) == {s[i] : i \in 1..Len(s)}

\* What the other end has seen, and what its descriptor refused, is what the
\* machine had written when its state was last saved, in order and once: a
\* cancelled future leaves no trace outside.  Bytes are numbered as they are
\* written.
Kept == IF wsnet THEN backup.wrote ELSE machine.wrote
OnlyKeptIsSeen ==
  /\ Increasing(Kept) /\ Increasing(seen)
  /\ Bytes(seen) = Bytes(Kept) \ unsent
  /\ unsent \subseteq Bytes(Kept)

\* What the machine has written since then is waiting in the output fifo.
RestIsPending ==
  wsnet => machine.wrote = backup.wrote \o OutputBlock(fifo_output)

\* libselect.c:297-300: "Overrun error on input", "data have been lost during
\* simulation": whatever is lost is reported.
LossReported == lost \subseteq reported
=============================================================================
