--------------------------- MODULE Wsnet1FifoProofs ---------------------------
(***************************************************************************)
(* The packet list of a node is a bounded queue, whatever arrives on the   *)
(* socket and whenever it is read.                                         *)
(***************************************************************************)
EXTENDS Wsnet1Fifo, SequenceTheorems, TLAPS

\* The ring is consistent: the next packet is written after the last one.
RingInv == TypeOK /\ wptr = After(rptr, size)

-----------------------------------------------------------------------------
(* The arithmetic of the ring. *)

\* "% PKTLIST_MAX" subtracts the size of the ring at most once.
LEMMA AfterIs ==
  ASSUME NEW p \in Slots, NEW i \in 0..PKTLIST_MAX
  PROVE  After(p, i) = IF p + i < PKTLIST_MAX THEN p + i ELSE p + i - PKTLIST_MAX
  BY PktListAssumption, SMT DEF After, Slots

\* An index of the ring is a slot.
LEMMA AfterInSlots ==
  ASSUME NEW p \in Slots, NEW i \in 0..PKTLIST_MAX
  PROVE  After(p, i) \in Slots
  BY AfterIs, PktListAssumption DEF Slots

\* Packets written in one turn of the ring do not overwrite each other.
LEMMA AfterInjective ==
  ASSUME NEW p \in Slots, NEW i \in 0..PKTLIST_MAX, NEW j \in 0..PKTLIST_MAX,
         i < j, j - i < PKTLIST_MAX
  PROVE  After(p, i) # After(p, j)
  <1>1. p \in Int /\ i \in Int /\ j \in Int /\ PKTLIST_MAX \in Int
        /\ 0 <= p /\ p < PKTLIST_MAX
    BY PktListAssumption DEF Slots
  <1> QED BY <1>1, AfterIs

\* Going on from a later place.
LEMMA AfterAfter ==
  ASSUME NEW p \in Slots, NEW i \in 0..PKTLIST_MAX - 1
  PROVE  After(After(p, 1), i) = After(p, i + 1)
  <1>1. /\ p \in Int /\ 0 <= p /\ p < PKTLIST_MAX
        /\ i \in Int /\ PKTLIST_MAX \in Int
        /\ 1 \in 0..PKTLIST_MAX /\ i \in 0..PKTLIST_MAX
        /\ i + 1 \in 0..PKTLIST_MAX
    BY PktListAssumption DEF Slots
  <1>2. /\ After(p, 1) \in Slots
        /\ After(p, 1) = IF p + 1 < PKTLIST_MAX THEN p + 1
                                                ELSE p + 1 - PKTLIST_MAX
    BY <1>1, AfterIs, AfterInSlots
  <1>3. After(After(p, 1), i) =
          IF After(p, 1) + i < PKTLIST_MAX THEN After(p, 1) + i
                                           ELSE After(p, 1) + i - PKTLIST_MAX
    BY <1>1, <1>2, AfterIs
  <1>4. After(p, i + 1) = IF p + (i + 1) < PKTLIST_MAX THEN p + (i + 1)
                                        ELSE p + (i + 1) - PKTLIST_MAX
    BY <1>1, AfterIs
  <1> QED BY <1>1, <1>2, <1>3, <1>4

\* An empty list follows itself.
LEMMA AfterZero ==
  ASSUME NEW p \in Slots
  PROVE  After(p, 0) = p
  <1>1. 0 \in 0..PKTLIST_MAX /\ p \in Int /\ p < PKTLIST_MAX
    BY PktListAssumption DEF Slots
  <1> QED BY <1>1, AfterIs

-----------------------------------------------------------------------------
(* The list as a queue. *)

LEMMA QueueLen ==
  ASSUME size \in Nat
  PROVE  Len(Queue) = size
  BY DEF Queue

LEMMA QueueEmpty ==
  ASSUME size = 0
  PROVE  Queue = <<>>
  BY DEF Queue

\* pktlist_enqueue adds p at the end of the queue.
LEMMA EnqueuePuts ==
  ASSUME RingInv, NEW p \in Pkt, CanEnqueue(p), Enqueue(p)
  PROVE  /\ PktListTypeOK' /\ (wptr = After(rptr, size))'
         /\ Fifo!Put /\ Queue'[Len(Queue')] = p
  <1>1. /\ msg \in [Slots -> Pkt] /\ rptr \in Slots /\ wptr \in Slots
        /\ size \in 0..PKTLIST_MAX - 1 /\ wptr = After(rptr, size)
        /\ PKTLIST_MAX \in Nat \ {0} /\ size \in Nat /\ size + 1 \in Nat
        /\ size \in 0..PKTLIST_MAX /\ 1 \in 0..PKTLIST_MAX
    BY PktListAssumption DEF RingInv, TypeOK, PktListTypeOK, CanEnqueue
  <1>2. /\ msg' = [msg EXCEPT ![wptr] = p] /\ rptr' = rptr
        /\ wptr' = After(wptr, 1) /\ size' = size + 1
    BY DEF Enqueue
  <1>3. wptr' = After(rptr, size + 1) /\ wptr' \in Slots
    <2>1. After(After(rptr, size), 1) = After(rptr, size + 1)
      <3>1. /\ rptr \in Int /\ 0 <= rptr /\ rptr < PKTLIST_MAX
            /\ size + 1 \in 0..PKTLIST_MAX
        BY <1>1 DEF Slots
      <3>2. After(rptr, size) = IF rptr + size < PKTLIST_MAX THEN rptr + size
                                ELSE rptr + size - PKTLIST_MAX
        BY <1>1, AfterIs
      <3>3. After(After(rptr, size), 1) =
              IF After(rptr, size) + 1 < PKTLIST_MAX THEN After(rptr, size) + 1
              ELSE After(rptr, size) + 1 - PKTLIST_MAX
        BY <1>1, AfterIs
      <3>4. After(rptr, size + 1) =
              IF rptr + (size + 1) < PKTLIST_MAX THEN rptr + (size + 1)
              ELSE rptr + (size + 1) - PKTLIST_MAX
        BY <1>1, <3>1, AfterIs
      <3> QED BY <1>1, <3>1, <3>2, <3>3, <3>4
    <2> QED BY <1>1, <1>2, <2>1, AfterInSlots
  <1>4. PktListTypeOK'
    BY <1>1, <1>2, <1>3 DEF PktListTypeOK
  <1>5. Len(Queue) = size /\ Len(Queue') = size + 1
    BY <1>1, <1>2 DEF Queue
  <1>6. Queue'[size + 1] = p
    BY <1>1, <1>2 DEF Queue
  <1>7. \A i \in 1..size : Queue'[i] = Queue[i]
    <2> TAKE i \in 1..size
    <2>1. /\ i - 1 \in 0..PKTLIST_MAX /\ i - 1 < size /\ size - (i - 1) < PKTLIST_MAX
          /\ i \in 1..size + 1
      BY <1>1
    <2>2. After(rptr, i - 1) # wptr
      BY <1>1, <2>1, AfterInjective
    <2>3. After(rptr, i - 1) \in Slots
      BY <1>1, <2>1, AfterInSlots
    <2>4. msg'[After(rptr, i - 1)] = msg[After(rptr, i - 1)]
      BY <1>1, <1>2, <2>2, <2>3
    <2> QED BY <1>2, <2>1, <2>4 DEF Queue
  <1> QED
    BY <1>1, <1>2, <1>3, <1>4, <1>5, <1>6, <1>7 DEF Fifo!Put

\* pktlist_dequeue removes the head of the queue.
LEMMA DequeueGets ==
  ASSUME RingInv, Dequeue
  PROVE  /\ PktListTypeOK' /\ (wptr = After(rptr, size))'
         /\ Fifo!Get /\ Queue[1] = msg[rptr]
  <1>1. /\ msg \in [Slots -> Pkt] /\ rptr \in Slots /\ wptr \in Slots
        /\ size \in 1..PKTLIST_MAX /\ wptr = After(rptr, size)
        /\ PKTLIST_MAX \in Nat \ {0} /\ size \in Nat /\ size - 1 \in Nat
        /\ 1 \in 0..PKTLIST_MAX
    BY PktListAssumption DEF RingInv, TypeOK, PktListTypeOK, Dequeue
  <1>2. /\ msg' = msg /\ rptr' = After(rptr, 1) /\ wptr' = wptr
        /\ size' = size - 1
    BY DEF Dequeue
  <1>3. rptr' \in Slots
    BY <1>1, <1>2, AfterInSlots
  <1>4. \A i \in 0..PKTLIST_MAX - 1 : After(rptr', i) = After(rptr, i + 1)
    BY <1>1, <1>2, AfterAfter
  <1>5. wptr' = After(rptr', size')
    <2>1. size - 1 \in 0..PKTLIST_MAX - 1 /\ size - 1 + 1 = size
      BY <1>1
    <2> QED BY <1>1, <1>2, <1>4, <2>1
  <1>6. PktListTypeOK'
    BY <1>1, <1>2, <1>3 DEF PktListTypeOK
  <1>7. Len(Queue) = size /\ Len(Queue') = size - 1
    BY <1>1, <1>2 DEF Queue
  <1>8. \A i \in 1..size - 1 : Queue'[i] = Queue[i + 1]
    <2> TAKE i \in 1..size - 1
    <2>1. i - 1 \in 0..PKTLIST_MAX - 1 /\ i - 1 + 1 = i /\ i + 1 - 1 = i
          /\ i + 1 \in 1..size
      BY <1>1
    <2>2. After(rptr', i - 1) = After(rptr, i)
      BY <1>4, <2>1
    <2> QED BY <1>2, <2>1, <2>2 DEF Queue
  <1>9. Queue[1] = msg[rptr]
    BY <1>1, AfterZero DEF Queue
  <1> QED BY <1>1, <1>5, <1>6, <1>7, <1>8, <1>9 DEF Fifo!Get

\* What leaves the list alone leaves the queue alone.
LEMMA QueueUnchanged ==
  ASSUME UNCHANGED listVars
  PROVE  UNCHANGED Queue
  BY DEF listVars, Queue, After

-----------------------------------------------------------------------------
(* The invariant of the ring, and the refinement. *)

\* A datagram read from the socket, cut or not, is a packet.
LEMMA GotIsPkt ==
  ASSUME NEW p \in Pkt, NEW l \in Nat
  PROVE  [p EXCEPT !.len = IF @ < l THEN @ ELSE l] \in Pkt
  BY DEF Pkt

LEMMA InitRing == Init => RingInv /\ Queue = <<>>
  <1> SUFFICES ASSUME Init PROVE RingInv /\ Queue = <<>>
    OBVIOUS
  <1>1. 0 \in Slots /\ 0 \in 0..PKTLIST_MAX /\ PKTSIZE_MAX \in Nat
    BY PktListAssumption DEF Slots
  <1>2. TypeOK
    <2>1. PktListTypeOK
      BY <1>1 DEF Init, PktListInit, PktListTypeOK, Pkt
    <2>2. waiting \in BOOLEAN
      BY DEF Init
    <2>3. /\ sent \in Seq(Lengths) /\ socket \in Seq(Pkt) /\ parsed \in Seq(Pkt)
          /\ rpc \in {"idle", "recv", "select", "failed"} /\ limit \in Nat
      BY <1>1 DEF Init
    <2> QED BY <2>1, <2>2, <2>3 DEF TypeOK
  <1>3. wptr = After(rptr, size)
    BY <1>1, AfterZero DEF Init, PktListInit
  <1>4. Queue = <<>>
    BY QueueEmpty DEF Init, PktListInit
  <1> QED BY <1>2, <1>3, <1>4 DEF RingInv

\* One step of the reader or of the network: one case per action.
LEMMA NextRing ==
  ASSUME RingInv, [Next]_vars
  PROVE  RingInv' /\ [Fifo!Next]_Queue
  <1> USE DEF RingInv
  <1>1. CASE Arrive
    <2>1. UNCHANGED listVars
      BY <1>1 DEF Arrive
    <2>2. TypeOK'
      <3>1. PICK l \in Lengths :
               /\ sent' = Append(sent, l)
               /\ socket' = Append(socket, [id |-> Len(sent) + 1, len |-> l])
        BY <1>1 DEF Arrive
      <3>2. [id |-> Len(sent) + 1, len |-> l] \in Pkt
        <4>1. Len(sent) \in Nat /\ l \in Nat
          BY FifoAssumption DEF TypeOK
        <4> QED BY <4>1 DEF Pkt
      <3> QED BY <1>1, <2>1, <3>1, <3>2
              DEF Arrive, TypeOK, PktListTypeOK, listVars
    <2> QED BY <2>1, <2>2, QueueUnchanged DEF listVars, After
  <1>2. CASE UpdateFill \/ WaitFill
    <2>1. UNCHANGED listVars
      BY <1>2 DEF UpdateFill, WaitFill
    <2>2. TypeOK'
      BY <1>2, <2>1, PktListAssumption
         DEF UpdateFill, WaitFill, Fill, TypeOK, PktListTypeOK, listVars
    <2> QED BY <2>1, <2>2, QueueUnchanged DEF listVars, After
  <1>3. CASE Recv
    <2> DEFINE p   == Head(socket)
               got == [p EXCEPT !.len = IF @ < limit THEN @ ELSE limit]
    <2>1. p \in Pkt /\ Tail(socket) \in Seq(Pkt) /\ limit \in Nat
      BY <1>3 DEF Recv, TypeOK
    <2>2. got \in Pkt /\ got.len \in Nat
      <3>1. got \in Pkt
        BY <2>1, GotIsPkt
      <3> QED BY <3>1 DEF Pkt
    <2> HIDE DEF p, got
    <2>3. /\ limit' = got.len /\ rpc' \in {"select", "idle"}
          /\ socket' = Tail(socket) /\ sent' = sent /\ parsed' = parsed
          /\ waiting' = waiting
      BY <1>3 DEF Recv, p, got
    <2>4. PktListTypeOK' => TypeOK'
      BY <2>1, <2>2, <2>3 DEF TypeOK
    <2>5. CASE CanEnqueue(got) /\ Enqueue(got)
      BY <2>2, <2>4, <2>5, EnqueuePuts DEF Fifo!Next
    <2>6. CASE UNCHANGED listVars
      BY <2>4, <2>6, QueueUnchanged
         DEF listVars, After, TypeOK, PktListTypeOK
    <2> QED BY <1>3, <2>5, <2>6 DEF Recv, p, got
  <1>4. CASE Select \/ Fail
    <2>1. UNCHANGED listVars
      BY <1>4 DEF Select, Fail
    <2>2. TypeOK'
      BY <1>4, <2>1 DEF Select, Fail, TypeOK, PktListTypeOK, listVars
    <2> QED BY <2>1, <2>2, QueueUnchanged DEF listVars, After
  <1>5. CASE ParseNext
    <2>1. PktListTypeOK' /\ (wptr = After(rptr, size))' /\ Fifo!Get
      BY <1>5, DequeueGets DEF ParseNext
    <2>2. msg[rptr] \in Pkt
      BY DEF TypeOK, PktListTypeOK
    <2>3. TypeOK'
      <3>1. waiting' \in BOOLEAN
        BY <1>5 DEF ParseNext
      <3>2. parsed' \in Seq(Pkt)
        BY <1>5, <2>2 DEF ParseNext, TypeOK
      <3>3. UNCHANGED <<sent, socket, rpc, limit>>
        BY <1>5 DEF ParseNext
      <3> QED BY <2>1, <3>1, <3>2, <3>3 DEF TypeOK
    <2> QED BY <2>1, <2>3 DEF Fifo!Next
  <1>6. CASE UNCHANGED vars
    <2>1. UNCHANGED listVars
      BY <1>6 DEF vars
    <2> QED BY <1>6, <2>1, QueueUnchanged
            DEF vars, listVars, After, TypeOK, PktListTypeOK
  <1> QED BY <1>1, <1>2, <1>3, <1>4, <1>5, <1>6 DEF Next, Reader

\* rptr, wptr and size always describe the same list, whatever is received:
\* the ring of pktlist.c is never indexed out of its bounds.
THEOREM RingCorrect == Spec => []RingInv
  <1>1. Init => RingInv
    BY InitRing
  <1>2. RingInv /\ [Next]_vars => RingInv'
    BY NextRing
  <1> QED BY <1>1, <1>2, PTL DEF Spec

\* The type invariant of the reader, which the runs check.
THEOREM TypeCorrect == Spec => []TypeOK
  <1>1. RingInv => TypeOK
    BY DEF RingInv
  <1> QED BY <1>1, RingCorrect, PTL

\* pktlist_enqueue and pktlist_dequeue are the Put and the Get of a bounded
\* queue, for any number of slots.
THEOREM RingIsFifo == Spec => ImplementsFifo
  <1>1. Init => Fifo!Init
    BY InitRing DEF Fifo!Init
  <1>2. RingInv /\ [Next]_vars => [Fifo!Next]_Queue
    BY NextRing
  <1> QED BY <1>1, <1>2, RingCorrect, PTL DEF Spec, ImplementsFifo, Fifo!Spec

-----------------------------------------------------------------------------
(* What is kept of each datagram: the packets keep their order, and one is *)
(* cut only to the length of the packet before it.                         *)

\* The packets of s are in the order in which the server sent them.
InOrder(s) == \A i, j \in 1..Len(s) : i < j => s[i].id < s[j].id

\* Every packet kept is a datagram sent, cut only as CutLikePrevious allows.
CutAt(i) ==
  Kept[i].len < sent[Kept[i].id] => i > 1 /\ Kept[i].len = Kept[i - 1].len

KeptInv ==
  /\ \A i \in 1..Len(Kept) : Kept[i].id \in 1..Len(sent) /\ CutAt(i)
  /\ InOrder(Kept)

\* A datagram of the socket is whole, and was sent after all that was read.
SocketInv ==
  /\ \A i \in 1..Len(socket) :
       /\ socket[i].id \in 1..Len(sent)
       /\ socket[i].len = sent[socket[i].id]
       /\ \A j \in 1..Len(Kept) : Kept[j].id < socket[i].id
  /\ InOrder(socket)

\* Inside the loop, recv is limited by the slot or by the last packet kept.
LimitInv ==
  rpc \in {"recv", "select"} =>
    \/ limit = PKTSIZE_MAX
    \/ Len(Kept) > 0 /\ limit = Kept[Len(Kept)].len

CutInv == KeptInv /\ SocketInv /\ LimitInv

\* What a ring holds is a sequence of packets.
LEMMA RingIsSeq ==
  ASSUME NEW m \in [Slots -> Pkt], NEW r \in Slots, NEW n \in 0..PKTLIST_MAX
  PROVE  /\ [i \in 1..n |-> m[After(r, i - 1)]] \in Seq(Pkt)
         /\ Len([i \in 1..n |-> m[After(r, i - 1)]]) = n
  <1>1. \A i \in 1..n : m[After(r, i - 1)] \in Pkt
    <2> TAKE i \in 1..n
    <2>1. i - 1 \in 0..PKTLIST_MAX
      BY PktListAssumption
    <2> QED BY <2>1, AfterInSlots
  <1>2. n \in Nat
    BY PktListAssumption
  <1> QED BY <1>1, <1>2

LEMMA KeptIsSeq ==
  ASSUME RingInv
  PROVE  parsed \in Seq(Pkt) /\ Queue \in Seq(Pkt) /\ Kept \in Seq(Pkt)
  <1>1. parsed \in Seq(Pkt) /\ Queue \in Seq(Pkt)
    BY RingIsSeq DEF RingInv, TypeOK, PktListTypeOK, Queue
  <1> HIDE DEF Queue
  <1> QED BY <1>1 DEF Kept

\* A packet enqueued comes last among those kept.
LEMMA EnqueueKeeps ==
  ASSUME RingInv, RingInv', NEW p \in Pkt, CanEnqueue(p), Enqueue(p),
         parsed' = parsed
  PROVE  /\ Kept \in Seq(Pkt) /\ Kept' \in Seq(Pkt)
         /\ Len(Kept') = Len(Kept) + 1 /\ Kept'[Len(Kept')] = p
         /\ \A i \in 1..Len(Kept) : Kept'[i] = Kept[i]
  <1>1. /\ Len(Queue') = Len(Queue) + 1 /\ Queue'[Len(Queue')] = p
        /\ \A i \in 1..Len(Queue) : Queue'[i] = Queue[i]
    BY EnqueuePuts DEF Fifo!Put
  <1>2. parsed \in Seq(Pkt) /\ Queue \in Seq(Pkt) /\ Queue' \in Seq(Pkt)
    BY RingIsSeq DEF RingInv, TypeOK, PktListTypeOK, Queue
  <1> QED BY <1>1, <1>2 DEF Kept

\* Moving the head of one sequence to the end of another.
LEMMA MoveHead ==
  ASSUME NEW S, NEW a \in Seq(S), NEW s \in Seq(S), NEW t \in Seq(S),
         Len(s) > 0, Len(t) = Len(s) - 1, \A i \in 1..Len(t) : t[i] = s[i + 1]
  PROVE  Append(a, s[1]) \o t = a \o s
  <1> DEFINE b == Append(a, s[1])
  <1>1. /\ Len(a) \in Nat /\ Len(s) \in Nat /\ Len(t) \in Nat
        /\ s[1] \in S /\ b \in Seq(S) /\ Len(b) = Len(a) + 1
        /\ b[Len(a) + 1] = s[1] /\ \A i \in 1..Len(a) : b[i] = a[i]
    OBVIOUS
  <1> HIDE DEF b
  <1> DEFINE u == b \o t
             v == a \o s
  <1>2. /\ u \in Seq(S) /\ Len(u) = Len(b) + Len(t)
        /\ \A i \in 1..Len(b) + Len(t) :
             u[i] = IF i <= Len(b) THEN b[i] ELSE t[i - Len(b)]
    BY <1>1, ConcatProperties, Zenon
  <1>3. /\ v \in Seq(S) /\ Len(v) = Len(a) + Len(s)
        /\ \A i \in 1..Len(a) + Len(s) :
             v[i] = IF i <= Len(a) THEN a[i] ELSE s[i - Len(a)]
    BY <1>1, ConcatProperties, Zenon
  <1> HIDE DEF u, v
  <1>4. Len(u) = Len(v)
    BY <1>1, <1>2, <1>3
  <1>5. ASSUME NEW i \in 1..Len(a) + Len(s) PROVE u[i] = v[i]
    <2>0. /\ i \in Int /\ 1 <= i /\ i \in 1..Len(b) + Len(t)
          /\ u[i] = IF i <= Len(b) THEN b[i] ELSE t[i - Len(b)]
          /\ v[i] = IF i <= Len(a) THEN a[i] ELSE s[i - Len(a)]
      <3>1. i \in Int /\ 1 <= i /\ i \in 1..Len(b) + Len(t)
        BY <1>1
      <3> QED BY <1>2, <1>3, <3>1, Zenon
    <2>1. CASE i <= Len(a)
      <3>1. i <= Len(b) /\ i \in 1..Len(a)
        BY <1>1, <2>0, <2>1
      <3> QED BY <1>1, <2>0, <2>1, <3>1, Zenon
    <2>2. CASE i = Len(a) + 1
      <3>1. i <= Len(b) /\ ~ i <= Len(a) /\ i - Len(a) = 1
        BY <1>1, <2>2
      <3> QED BY <1>1, <2>0, <2>2, <3>1, Zenon
    <2>3. CASE i > Len(a) + 1
      <3>1. /\ ~ i <= Len(b) /\ ~ i <= Len(a)
            /\ i - Len(b) \in 1..Len(t) /\ i - Len(b) + 1 = i - Len(a)
        BY <1>1, <2>3
      <3> QED BY <2>0, <3>1, Zenon
    <2> QED BY <1>1, <2>1, <2>2, <2>3
  <1>6. u = v
    BY <1>1, <1>2, <1>3, <1>4, <1>5
  <1> QED BY <1>6 DEF u, v, b

\* Parsing a packet moves it from the list to the history.
LEMMA ParseKeeps ==
  ASSUME RingInv, RingInv', ParseNext
  PROVE  Kept' = Kept
  <1>1. /\ Len(Queue) > 0 /\ Len(Queue') = Len(Queue) - 1
        /\ \A i \in 1..Len(Queue') : Queue'[i] = Queue[i + 1]
        /\ Queue[1] = msg[rptr]
    BY DequeueGets DEF ParseNext, Fifo!Get
  <1>2. parsed' = Append(parsed, Queue[1])
    BY <1>1 DEF ParseNext
  <1>3. parsed \in Seq(Pkt) /\ Queue \in Seq(Pkt) /\ Queue' \in Seq(Pkt)
    BY RingIsSeq DEF RingInv, TypeOK, PktListTypeOK, Queue
  <1> HIDE DEF Queue
  <1>4. Append(parsed, Queue[1]) \o Queue' = parsed \o Queue
    BY <1>1, <1>3, MoveHead
  <1> QED BY <1>2, <1>4 DEF Kept

\* What an added packet must satisfy for the invariant to go on.
LEMMA KeptGrows ==
  ASSUME RingInv, CutInv, sent' = sent, NEW p \in Pkt,
         p.id \in 1..Len(sent), p.len <= sent[p.id],
         \A j \in 1..Len(Kept) : Kept[j].id < p.id,
         p.len < sent[p.id] => Len(Kept) > 0 /\ p.len = Kept[Len(Kept)].len,
         Kept \in Seq(Pkt), Kept' \in Seq(Pkt),
         Len(Kept') = Len(Kept) + 1, Kept'[Len(Kept')] = p,
         \A i \in 1..Len(Kept) : Kept'[i] = Kept[i]
  PROVE  KeptInv'
  <1> DEFINE n == Len(Kept)
  <1>1. n \in Nat
    OBVIOUS
  <1> HIDE DEF n
  <1>2. ASSUME NEW i \in 1..n + 1
        PROVE  Kept'[i].id \in 1..Len(sent) /\ CutAt(i)'
    <2>1. CASE i = n + 1
      BY <1>1, <2>1 DEF CutAt, n
    <2>2. CASE i # n + 1
      <3>1. i \in 1..n /\ Kept'[i] = Kept[i] /\ (i > 1 => Kept'[i - 1] = Kept[i - 1])
        BY <1>1, <2>2 DEF n
      <3> QED BY <3>1 DEF CutInv, KeptInv, CutAt, n
    <2> QED BY <2>1, <2>2
  <1>3. InOrder(Kept)'
    <2> SUFFICES ASSUME NEW i \in 1..n + 1, NEW j \in 1..n + 1, i < j
                 PROVE  Kept'[i].id < Kept'[j].id
      BY <1>1 DEF InOrder, n
    <2>1. i \in 1..n /\ Kept'[i] = Kept[i]
      BY <1>1 DEF n
    <2>2. CASE j = n + 1
      BY <1>1, <2>1, <2>2 DEF n
    <2>3. CASE j # n + 1
      <3>1. j \in 1..n /\ Kept'[j] = Kept[j]
        <4>1. j \in 1..n
          BY <1>1, <2>3
        <4> QED BY <4>1 DEF n
      <3>2. InOrder(Kept)
        BY DEF CutInv, KeptInv
      <3>3. Kept[i].id < Kept[j].id
        BY <2>1, <3>1, <3>2 DEF InOrder, n
      <3> QED BY <2>1, <3>1, <3>3
    <2> QED BY <2>2, <2>3
  <1> QED BY <1>1, <1>2, <1>3 DEF KeptInv, n

\* The loop, the parser and the network preserve the invariant.
LEMMA NextCut ==
  ASSUME RingInv, CutInv, [Next]_vars, RingInv'
  PROVE  CutInv'
  <1>0. /\ sent \in Seq(Lengths) /\ socket \in Seq(Pkt) /\ parsed \in Seq(Pkt)
        /\ Kept \in Seq(Pkt) /\ limit \in Nat
    BY KeptIsSeq DEF RingInv, TypeOK
  <1>1. CASE Arrive
    <2>1. Kept' = Kept
      BY <1>1, QueueUnchanged DEF Arrive, Kept
    <2>2. PICK l \in Lengths :
             /\ sent' = Append(sent, l)
             /\ socket' = Append(socket, [id |-> Len(sent) + 1, len |-> l])
      BY <1>1 DEF Arrive
    <2>3. /\ Len(sent') = Len(sent) + 1 /\ Len(sent) \in Nat
          /\ \A k \in 1..Len(sent) : sent'[k] = sent[k]
          /\ sent'[Len(sent) + 1] = l
      BY <1>0, <2>2
    <2>4. KeptInv'
      BY <2>1, <2>3 DEF CutInv, KeptInv, CutAt
    <2>5. SocketInv'
      <3> DEFINE m == Len(socket)
      <3>1. /\ m \in Nat /\ Len(socket') = m + 1
            /\ socket'[m + 1].id = Len(sent) + 1 /\ socket'[m + 1].len = l
            /\ \A i \in 1..m : socket'[i] = socket[i]
        BY <1>0, <2>2
      <3> HIDE DEF m
      <3>2. ASSUME NEW i \in 1..m + 1
            PROVE  /\ socket'[i].id \in 1..Len(sent')
                   /\ socket'[i].len = sent'[socket'[i].id]
                   /\ \A j \in 1..Len(Kept) : Kept[j].id < socket'[i].id
        <4>1. CASE i = m + 1
          BY <2>3, <3>1, <4>1 DEF CutInv, KeptInv
        <4>2. CASE i # m + 1
          <5>1. i \in 1..m
            BY <3>1, <4>2
          <5> QED BY <2>3, <3>1, <5>1 DEF CutInv, SocketInv, m
        <4> QED BY <4>1, <4>2
      <3>3. ASSUME NEW i \in 1..m + 1, NEW j \in 1..m + 1, i < j
            PROVE  socket'[i].id < socket'[j].id
        <4>1. i \in 1..m
          BY <3>1, <3>3
        <4>2. CASE j = m + 1
          BY <2>3, <3>1, <4>1, <4>2 DEF CutInv, SocketInv, m
        <4>3. CASE j # m + 1
          BY <3>1, <3>3, <4>1, <4>3 DEF CutInv, SocketInv, InOrder, m
        <4> QED BY <4>2, <4>3
      <3> QED BY <2>1, <3>1, <3>2, <3>3 DEF SocketInv, InOrder
    <2>6. LimitInv'
      BY <1>1, <2>1 DEF Arrive, CutInv, LimitInv
    <2> QED BY <2>4, <2>5, <2>6 DEF CutInv
  <1>2. CASE UpdateFill \/ WaitFill
    <2>1. Kept' = Kept /\ UNCHANGED <<sent, socket>> /\ limit' = PKTSIZE_MAX
      BY <1>2, QueueUnchanged DEF UpdateFill, WaitFill, Fill, Kept
    <2> QED BY <2>1
            DEF CutInv, KeptInv, CutAt, InOrder, SocketInv, LimitInv
  <1>3. CASE Recv
    <2> DEFINE p   == Head(socket)
               got == [p EXCEPT !.len = IF @ < limit THEN @ ELSE limit]
    <2>1. /\ Len(socket) \in Nat /\ Len(socket) > 0 /\ p = socket[1] /\ p \in Pkt
          /\ Len(socket') = Len(socket) - 1
          /\ \A i \in 1..Len(socket') : socket'[i] = socket[i + 1]
      BY <1>0, <1>3 DEF Recv
    <2>2. /\ got \in Pkt /\ got.id = p.id
          /\ got.len = IF p.len < limit THEN p.len ELSE limit
          /\ p.id \in Nat /\ p.len \in Nat
      BY <1>0, <2>1, GotIsPkt DEF Pkt
    <2>3. /\ p.id \in 1..Len(sent) /\ p.len = sent[p.id]
          /\ \A j \in 1..Len(Kept) : Kept[j].id < p.id
          /\ \A i \in 1..Len(socket') : p.id < socket'[i].id
      BY <2>1 DEF CutInv, SocketInv, InOrder
    <2> HIDE DEF p, got
    <2>4. /\ limit' = got.len /\ sent' = sent /\ parsed' = parsed
          /\ \/ CanEnqueue(got) /\ Enqueue(got)
             \/ UNCHANGED listVars /\ rpc' = "idle"
      BY <1>3 DEF Recv, p, got
    <2>5. InOrder(socket')
      <3> SUFFICES ASSUME NEW i \in 1..Len(socket'), NEW j \in 1..Len(socket'),
                          i < j
                   PROVE  socket'[i].id < socket'[j].id
        BY DEF InOrder
      <3>1. /\ i + 1 \in 1..Len(socket) /\ j + 1 \in 1..Len(socket) /\ i + 1 < j + 1
            /\ socket'[i] = socket[i + 1] /\ socket'[j] = socket[j + 1]
        BY <2>1
      <3>2. InOrder(socket)
        BY DEF CutInv, SocketInv
      <3> QED BY <3>1, <3>2 DEF InOrder
    <2>6. ASSUME NEW i \in 1..Len(socket')
          PROVE  /\ socket'[i].id \in 1..Len(sent)
                 /\ socket'[i].len = sent[socket'[i].id]
                 /\ \A j \in 1..Len(Kept) : Kept[j].id < socket'[i].id
      <3>1. i + 1 \in 1..Len(socket) /\ socket'[i] = socket[i + 1]
        BY <2>1
      <3> QED BY <3>1 DEF CutInv, SocketInv
    <2>7. CASE UNCHANGED listVars /\ rpc' = "idle"
      <3>1. Kept' = Kept
        BY <2>4, <2>7, QueueUnchanged DEF Kept
      <3> QED BY <2>4, <2>5, <2>6, <2>7, <3>1
              DEF CutInv, KeptInv, CutAt, InOrder, SocketInv, LimitInv
    <2>8. CASE CanEnqueue(got) /\ Enqueue(got)
      <3>1. /\ Kept \in Seq(Pkt) /\ Kept' \in Seq(Pkt)
            /\ Len(Kept') = Len(Kept) + 1 /\ Kept'[Len(Kept')] = got
            /\ \A i \in 1..Len(Kept) : Kept'[i] = Kept[i]
        BY <2>2, <2>4, <2>8, EnqueueKeeps
      <3>2. got.len < sent[got.id] => Len(Kept) > 0 /\ got.len = Kept[Len(Kept)].len
        <4>1. rpc = "recv" /\ got.len < PKTSIZE_MAX
          BY <1>3, <2>8 DEF Recv, CanEnqueue
        <4> QED BY <1>0, <2>2, <2>3, <4>1, PktListAssumption DEF CutInv, LimitInv
      <3>3. got.len <= sent[got.id] /\ got.id \in 1..Len(sent)
        BY <1>0, <2>2, <2>3
      <3>4. \A j \in 1..Len(Kept) : Kept[j].id < got.id
        BY <2>2, <2>3
      <3>5. KeptInv'
        BY <2>2, <2>4, <3>1, <3>2, <3>3, <3>4, KeptGrows
      <3>6. SocketInv'
        <4> SUFFICES ASSUME NEW i \in 1..Len(socket'), NEW j \in 1..Len(Kept')
                     PROVE  Kept'[j].id < socket'[i].id
          BY <2>4, <2>5, <2>6 DEF SocketInv
        <4>1. CASE j = Len(Kept')
          BY <2>2, <2>3, <3>1, <4>1
        <4>2. CASE j # Len(Kept')
          <5>1. j \in 1..Len(Kept)
            BY <3>1, <4>2
          <5> QED BY <2>6, <3>1, <5>1
        <4> QED BY <4>1, <4>2
      <3>7. LimitInv'
        BY <2>4, <3>1 DEF LimitInv
      <3> QED BY <3>5, <3>6, <3>7 DEF CutInv
    <2> QED BY <2>4, <2>7, <2>8
  <1>4. CASE Select \/ Fail
    <2>1. Kept' = Kept /\ UNCHANGED <<sent, socket, limit>>
          /\ (rpc' \in {"recv", "select"} => rpc = "select")
      BY <1>4, QueueUnchanged DEF Select, Fail, Kept
    <2> QED BY <2>1
            DEF CutInv, KeptInv, CutAt, InOrder, SocketInv, LimitInv
  <1>5. CASE ParseNext
    <2>1. Kept' = Kept /\ UNCHANGED <<sent, socket, rpc, limit>>
      BY <1>5, ParseKeeps DEF ParseNext
    <2> QED BY <2>1
            DEF CutInv, KeptInv, CutAt, InOrder, SocketInv, LimitInv
  <1>6. CASE UNCHANGED vars
    <2>1. Kept' = Kept /\ UNCHANGED <<sent, socket, rpc, limit>>
      BY <1>6, QueueUnchanged DEF vars, Kept, listVars
    <2> QED BY <2>1
            DEF CutInv, KeptInv, CutAt, InOrder, SocketInv, LimitInv
  <1> QED BY <1>1, <1>2, <1>3, <1>4, <1>5, <1>6 DEF Next, Reader

LEMMA InitCut == Init => CutInv
  <1> SUFFICES ASSUME Init PROVE CutInv
    OBVIOUS
  <1>1. Kept = <<>> /\ socket = <<>> /\ rpc = "idle"
    BY InitRing DEF Init, Kept
  <1> QED BY <1>1 DEF CutInv, KeptInv, SocketInv, LimitInv, InOrder

\* The invariant of the loop of worldsens1_fill_fifo_from_socket.
THEOREM CutInvariant == Spec => []CutInv
  <1>1. RingInv /\ RingInv' /\ CutInv /\ [Next]_vars => CutInv'
    BY NextCut
  <1> QED BY <1>1, InitCut, RingCorrect, PTL DEF Spec

\* The second recv of a loop is limited by the length the first returned, and
\* that is the only way a packet loses bytes: for any lengths of datagrams.
THEOREM CutsFollow == Spec => []CutLikePrevious
  <1>1. RingInv /\ CutInv => CutLikePrevious
    BY DEF CutInv, KeptInv, CutAt, CutLikePrevious
  <1> QED BY <1>1, CutInvariant, RingCorrect, PTL

\* The packets are parsed in the order in which the server sent them, none of
\* them twice, though some may be missing.
THEOREM ParsedInOrder == Spec => []InOrder(parsed)
  <1>1. RingInv /\ CutInv => InOrder(parsed)
    <2> SUFFICES ASSUME RingInv, CutInv, NEW i \in 1..Len(parsed),
                        NEW j \in 1..Len(parsed), i < j
                 PROVE  parsed[i].id < parsed[j].id
      BY DEF InOrder
    <2>1. parsed \in Seq(Pkt) /\ Queue \in Seq(Pkt)
      BY RingIsSeq DEF RingInv, TypeOK, PktListTypeOK, Queue
    <2>2. /\ i \in 1..Len(Kept) /\ j \in 1..Len(Kept)
          /\ Kept[i] = parsed[i] /\ Kept[j] = parsed[j]
      BY <2>1 DEF Kept
    <2> QED BY <2>2 DEF CutInv, KeptInv, InOrder
  <1> QED BY <1>1, CutInvariant, RingCorrect, PTL
=============================================================================
