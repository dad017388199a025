------------------------------ MODULE Wsnet1Fifo ------------------------------
(***************************************************************************)
(* From the multicast socket of a node to worldsens1_packet_parse.         *)
(*                                                                         *)
(* worldsens1_fill_fifo_from_socket moves datagrams from the socket to the *)
(* packet list until select finds no more of them; more may arrive         *)
(* between two of its calls to recv.  It is called by worldsens1_c_update  *)
(* when libselect has noticed something on the socket, and by              *)
(* worldsens1_packet_recv_fifo when a blocked node has an empty list.      *)
(* Module Wsnet1 takes the list and the socket together as one queue of    *)
(* whole datagrams; the difference is what this module is about.           *)
(*                                                                         *)
(* The list (libwsnet/pktlist.c) is a ring of PKTLIST_MAX slots.  A packet *)
(* is known by the place it has among the datagrams sent and by its        *)
(* length.                                                                 *)
(***************************************************************************)
EXTENDS Integers, Sequences

CONSTANTS
  PKTLIST_MAX,  \* slots in the ring
  PKTSIZE_MAX,  \* bytes in a slot
  Lengths,      \* lengths of the datagrams the server multicasts
  MaxSent       \* bound: datagrams sent

ASSUME PktListAssumption ==
  PKTLIST_MAX \in Nat \ {0} /\ PKTSIZE_MAX \in Nat \ {0}

ASSUME FifoAssumption == Lengths \subseteq Nat /\ MaxSent \in Nat

-----------------------------------------------------------------------------
\* pktlist.c

VARIABLES msg, rptr, wptr, size

listVars == <<msg, rptr, wptr, size>>

Slots == 0..PKTLIST_MAX - 1
Pkt == [id : Nat, len : Nat]

PktListTypeOK ==
  /\ msg \in [Slots -> Pkt]
  /\ rptr \in Slots /\ wptr \in Slots /\ size \in 0..PKTLIST_MAX

PktListInit ==
  /\ msg = [i \in Slots |-> [id |-> 0, len |-> 0]]
  /\ rptr = 0 /\ wptr = 0 /\ size = 0

-----------------------------------------------------------------------------

\* The index i places after p in the ring.
After(p, i) == (p + i) % PKTLIST_MAX

CanEnqueueOver(p) == p.len < PKTSIZE_MAX   \* mutant: full lists are not refused
CanEnqueueEarly(p) ==                      \* mutant: the last slot is not used
  size < PKTLIST_MAX - 1 /\ p.len < PKTSIZE_MAX

\* pktlist_enqueue returns -1 on a full list and on a packet too large.
CanEnqueue(p) == size # PKTLIST_MAX /\ p.len < PKTSIZE_MAX

EnqueueUnwrapped(p) ==   \* mutant: the index does not wrap around
  /\ msg' = [msg EXCEPT ![wptr] = p]
  /\ wptr' = wptr + 1
  /\ size' = size + 1
  /\ UNCHANGED rptr

Enqueue(p) ==
  /\ msg' = [msg EXCEPT ![wptr] = p]
  /\ wptr' = After(wptr, 1)
  /\ size' = size + 1
  /\ UNCHANGED rptr

\* pktlist_dequeue copies msg[rptr] to its caller.
Dequeue ==
  /\ size > 0
  /\ rptr' = After(rptr, 1)
  /\ size' = size - 1
  /\ UNCHANGED <<msg, wptr>>

\* The packets of the list, the next one to parse first.
Queue == [i \in 1..size |-> msg[After(rptr, i - 1)]]

-----------------------------------------------------------------------------
\* The socket and its reader

VARIABLES
  sent,     \* history: the length of every datagram sent
  socket,   \* datagrams received by the host and not read
  rpc,      \* in fill_fifo: "recv", "select"; out of it: "idle", "failed"
  waiting,  \* called by recv_fifo: the thread is blocked for a packet
  limit,    \* len: how many bytes the next recv may return
  parsed    \* history: packets parsed

vars == <<listVars, sent, socket, rpc, waiting, limit, parsed>>

TypeOK ==
  /\ PktListTypeOK
  /\ sent \in Seq(Lengths) /\ socket \in Seq(Pkt)
  /\ rpc \in {"idle", "recv", "select", "failed"}
  /\ waiting \in BOOLEAN /\ limit \in Nat
  /\ parsed \in Seq(Pkt)

Init ==
  /\ PktListInit
  /\ sent = <<>> /\ socket = <<>> /\ parsed = <<>>
  /\ rpc = "idle" /\ waiting = FALSE /\ limit = PKTSIZE_MAX

-----------------------------------------------------------------------------

Arrive ==
  /\ Len(sent) < MaxSent
  /\ \E l \in Lengths :
       /\ sent' = Append(sent, l)
       /\ socket' = Append(socket, [id |-> Len(sent) + 1, len |-> l])
  /\ UNCHANGED <<listVars, rpc, waiting, limit, parsed>>

FillShort ==   \* mutant: the buffer is taken for one byte shorter
  /\ rpc' = "recv" /\ limit' = PKTSIZE_MAX - 1

\* The callers pass WORLDSENS_MAX_PKTLENGTH, which equals PKTSIZE_MAX.
Fill ==
  /\ rpc' = "recv" /\ limit' = PKTSIZE_MAX

\* worldsens1_c_update: SIG_WORLDSENS_IO is set.
UpdateFill ==
  /\ rpc = "idle" /\ ~ waiting /\ socket # <<>>
  /\ Fill
  /\ UNCHANGED <<listVars, sent, socket, waiting, parsed>>

\* worldsens1_packet_recv_fifo: the list is empty, recv may block.
WaitFill ==
  /\ rpc = "idle" /\ ~ waiting /\ size = 0
  /\ Fill
  /\ waiting' = TRUE
  /\ UNCHANGED <<listVars, sent, socket, parsed>>

\* recv discards what it does not return, and its result replaces len, the
\* limit of the next one.  A packet the list refuses ends the loop.
Recv ==
  /\ rpc = "recv" /\ socket # <<>>
  /\ LET p == Head(socket)
         got == [p EXCEPT !.len = IF @ < limit THEN @ ELSE limit]
     IN  /\ limit' = got.len
         /\ IF CanEnqueue(got)
              THEN Enqueue(got) /\ rpc' = "select"
              ELSE UNCHANGED listVars /\ rpc' = "idle"
  /\ socket' = Tail(socket)
  /\ UNCHANGED <<sent, waiting, parsed>>

SelectAlways ==   \* mutant: recv is called without asking
  /\ rpc = "select" /\ rpc' = "recv"
  /\ UNCHANGED <<listVars, sent, socket, waiting, limit, parsed>>

\* worldsens1_packet_waiting_in_socket.
Select ==
  /\ rpc = "select"
  /\ rpc' = IF socket = <<>> THEN "idle" ELSE "recv"
  /\ UNCHANGED <<listVars, sent, socket, waiting, limit, parsed>>

\* The next packet is parsed, by worldsens1_c_update or by who was blocked.
ParseNext ==
  /\ rpc = "idle"
  /\ Dequeue
  /\ parsed' = Append(parsed, msg[rptr])
  /\ waiting' = FALSE
  /\ UNCHANGED <<sent, socket, rpc, limit>>

\* pktlist_dequeue returns -1 to who was blocked: the simulator ends.
Fail ==
  /\ rpc = "idle" /\ waiting /\ size = 0
  /\ rpc' = "failed"
  /\ UNCHANGED <<listVars, sent, socket, waiting, limit, parsed>>

Reader == UpdateFill \/ WaitFill \/ Recv \/ Select \/ ParseNext \/ Fail

Next == Arrive \/ Reader

\* The simulator runs, and reaches its rendez-vous if nothing is noticed.
Spec == Init /\ [][Next]_vars /\ WF_vars(Reader)

-----------------------------------------------------------------------------

\* The ring is a queue: nothing is overwritten, repeated or reordered in it.
Fifo == INSTANCE BoundedFifo
          WITH queue <- Queue, Capacity <- PKTLIST_MAX, Item <- Pkt
ImplementsFifo == Fifo!Spec

\* What was kept of the datagrams that were read, in the order of the list.
Kept == parsed \o Queue

\* A packet is shorter than its datagram only when it follows a packet of
\* exactly that length: the second recv of a loop is limited by the first.
CutLikePrevious ==
  \A i \in 1..Len(Kept) :
    Kept[i].len < sent[Kept[i].id] => i > 1 /\ Kept[i].len = Kept[i - 1].len

\* A datagram that has been read and is not kept was too large for a slot,
\* or found as many packets before it as the list holds.
LostOnlyWhenFull ==
  \A k \in 1..Len(sent) :
    \/ \E i \in 1..Len(Kept) : Kept[i].id = k
    \/ \E i \in 1..Len(socket) : socket[i].id = k
    \/ sent[k] >= PKTSIZE_MAX
    \/ k > PKTLIST_MAX

\* The reader never stays blocked in recv while the list holds packets, nor
\* leaves any behind; it may fail, on a datagram that no slot can hold.
Drained ==
  []<>(\/ socket = <<>> /\ size = 0 /\ rpc \in {"idle", "recv"}
       \/ rpc = "failed" /\ \E k \in 1..Len(sent) : sent[k] >= PKTSIZE_MAX)

\* wsnet1.c:520: "empties the input socket fifo and fills wsnetclient fifo":
\* what is in the list is what was in the socket.
Whole == \A i \in 1..Len(Kept) : Kept[i].len = sent[Kept[i].id]
=============================================================================
