---------------------------- MODULE Wsnet1TxProofs ----------------------------
(***************************************************************************)
(* Proofs about the bytes WSNet1 nodes send, when no datagram is lost and  *)
(* nobody is interrupted or stopped: the server learns of every byte that  *)
(* was sent before the rendez-vous, before anybody is released from it,    *)
(* and hands each to the nodes once, unless a BACKTRACK has torn a radio.  *)
(*                                                                         *)
(* A node that goes back sends again what it had sent, and the server must *)
(* recognise it.  The argument is a timeline: the saved state of a node    *)
(* decides the dates of all its bytes, so that what it has sent, what it   *)
(* will send again, what is on its way and what the server knows are the   *)
(* same bytes at the same dates.  Plan says so of the node, Story of the   *)
(* node and the server, and Ledger, the inductive invariant, of all nodes. *)
(***************************************************************************)
EXTENDS Wsnet1Proofs, WellFoundedInduction

-----------------------------------------------------------------------------
(* The radio of a node, and the dates at which it sends. *)

\* A radio and the clock of its node.  A byte whose worldsens1_c_tx has not
\* returned counts as sent; "torn" is the number of bytes the driver has
\* logged but not taken from its fifo, or taken but not logged.
Air == [now : Nat, seq : Nat, byte : Nat, timer : Nat, torn : Int]

\* Dates of bytes.
Timeline == [Nat -> Nat]

\* The next byte of the program q is due.
Due(q, v) == v.byte < Len(q) /\ v.now >= q[v.byte + 1] /\ v.now >= v.timer

\* The dates of the bytes that follow the saved state u, when nothing stops
\* the node, are d[u.seq], d[u.seq + 1]...: when byte s is possible at last,
TimerAt(n, u, d, s) == IF s = u.seq THEN u.timer ELSE d[s - 1] + ByteTime[n]

\* and whether it may leave at x,
Ready(n, q, u, d, s, x) ==
  LET k == u.byte + (s - u.seq) + 1
  IN  k <= Len(q) /\ q[k] <= x /\ TimerAt(n, u, d, s) <= x

\* a date of the clock of the node,
OnGrid(n, u, x) == \E k \in Nat : x = u.now + k * Quantum[n]

\* the instruction before being too early.
First(n, q, u, d, s, x) == x = u.now \/ ~ Ready(n, q, u, d, s, x - Quantum[n])

\* No byte m before lim, nor at lim.
Beyond(n, q, u, d, m, lim) ==
  \A x \in Nat : OnGrid(n, u, x) /\ x <= lim => ~ Ready(n, q, u, d, m, x)

\* The bytes before m leave until lim, each as early as it may.
Planned(n, q, u, d, m, lim) ==
  /\ u.seq <= m
  /\ \A s \in u.seq..m - 1 :
       /\ OnGrid(n, u, d[s]) /\ d[s] <= lim
       /\ Ready(n, q, u, d, s, d[s]) /\ First(n, q, u, d, s, d[s])
       /\ \A r \in u.seq..s - 1 : d[r] < d[s]

\* The radio v has done nothing else since the state u was saved,
OnBase(n, q, u, v, d) ==
  /\ v.byte = u.byte + (v.seq - u.seq)
  /\ v.timer = TimerAt(n, u, d, v.seq)
  /\ v.torn = u.torn
  /\ First(n, q, u, d, v.seq, v.now)

\* or it has been torn meanwhile, and it is late.
InPlan(n, q, u, v, d, m, lim) ==
  /\ u.seq <= v.seq /\ v.seq <= m
  /\ v.byte >= u.byte + (v.seq - u.seq)
  /\ v.timer >= TimerAt(n, u, d, v.seq)
  /\ OnBase(n, q, u, v, d) \/ v.torn > u.torn
  /\ Beyond(n, q, u, d, m, lim) \/ (OnBase(n, q, u, v, d) /\ v.seq = m)

\* Or its last byte left after lim: it will go back.
Ahead(n, q, u, v, d, m, lim) ==
  u.seq <= v.seq /\ lim < v.timer - ByteTime[n] /\ Beyond(n, q, u, d, m, lim)

\* The bytes of a node until the rendez-vous lim: d and m are its plan.
Plan(n, q, u, v, d, m, lim) ==
  /\ Planned(n, q, u, d, m, lim)
  /\ InPlan(n, q, u, v, d, m, lim) \/ Ahead(n, q, u, v, d, m, lim)

LEMMA DateIs ==
  ASSUME NEW d \in Timeline, NEW s \in Nat
  PROVE  d[s] \in Nat
BY DEF Timeline

LEMMA ByteTimeIs ==
  ASSUME NEW n \in Nodes
  PROVE  ByteTime[n] \in Nat /\ ByteTime[n] >= 1
<1>1. ByteTime[n] \in Nat \ {0}
  BY ClientAssumption
<1> QED BY <1>1

LEMMA GridApart ==
  ASSUME NEW n \in Nodes, NEW u \in Air, NEW x \in Nat, NEW y \in Nat,
         OnGrid(n, u, x), OnGrid(n, u, y)
  PROVE  u.now <= x /\ (x < y => x + Quantum[n] <= y)
<1> DEFINE g == Quantum[n]
           a == u.now
<1>1. g \in Nat /\ g >= 1 /\ a \in Nat
  BY QuantumIs DEF Air
<1>2. PICK i \in Nat : x = a + i * g
  BY DEF OnGrid
<1>3. PICK j \in Nat : y = a + j * g
  BY DEF OnGrid
<1> HIDE DEF g, a
<1>4. i * g >= 0 /\ i * g \in Nat /\ j * g \in Nat
  BY <1>1
<1>5. j <= i => j * g <= i * g
  BY <1>1
<1>6. j >= i + 1 => j * g >= i * g + g
  <2>1. j >= i + 1 => (j - (i + 1)) * g >= 0
    BY <1>1
  <2>2. (j - (i + 1)) * g = j * g - (i * g + g)
    BY <1>1
  <2> QED BY <1>1, <1>4, <2>1, <2>2
<1> QED BY <1>1, <1>2, <1>3, <1>4, <1>5, <1>6 DEF g, a

LEMMA GridNext ==
  ASSUME NEW n \in Nodes, NEW u \in Air, NEW x \in Nat, OnGrid(n, u, x)
  PROVE  OnGrid(n, u, x + Quantum[n])
<1> DEFINE g == Quantum[n]
           a == u.now
<1>1. g \in Nat /\ a \in Nat
  BY QuantumIs DEF Air
<1>2. PICK i \in Nat : x = a + i * g
  BY DEF OnGrid
<1> HIDE DEF g, a
<1>3. (i + 1) * g = i * g + g /\ i * g \in Nat
  BY <1>1
<1>4. x + g = a + (i + 1) * g /\ i + 1 \in Nat
  BY <1>1, <1>2, <1>3
<1> QED BY <1>4 DEF g, a, OnGrid

LEMMA GridBase ==
  ASSUME NEW n \in Nodes, NEW u \in Air
  PROVE  OnGrid(n, u, u.now)
<1>1. u.now = u.now + 0 * Quantum[n]
  BY QuantumIs DEF Air
<1> QED BY <1>1 DEF OnGrid

\* What may leave may leave later.
LEMMA ReadyLater ==
  ASSUME NEW n \in Nodes, NEW q \in Seq(Nat), NEW u \in Air, NEW d \in Timeline,
         NEW s \in Nat, u.seq <= s, NEW x \in Int, NEW y \in Int, x <= y,
         Ready(n, q, u, d, s, x)
  PROVE  Ready(n, q, u, d, s, y)
<1> DEFINE k == u.byte + (s - u.seq) + 1
           t == TimerAt(n, u, d, s)
<1>1. k <= Len(q) /\ q[k] <= x /\ t <= x
  BY DEF Ready
<1>2. u.seq \in Nat /\ u.byte \in Nat /\ u.timer \in Nat
  BY DEF Air
<1>3. k \in 1..Len(q)
  BY <1>1, <1>2
<1>4. q[k] \in Nat
  BY <1>3
<1>5. t \in Nat
  <2>1. CASE s = u.seq
    BY <1>2, <2>1 DEF TimerAt
  <2>2. CASE s # u.seq
    <3>1. s - 1 \in Nat
      BY <1>2, <2>2
    <3> QED BY <2>2, <3>1, DateIs, ByteTimeIs DEF TimerAt
  <2> QED BY <2>1, <2>2
<1> HIDE DEF k, t
<1>6. q[k] <= y /\ t <= y
  BY <1>1, <1>4, <1>5
<1> QED BY <1>1, <1>6 DEF Ready, k, t

\* The first date at which a byte may leave is not after any other.
LEMMA FirstReady ==
  ASSUME NEW n \in Nodes, NEW q \in Seq(Nat), NEW u \in Air, NEW d \in Timeline,
         NEW s \in Nat, u.seq <= s, NEW x \in Nat, NEW y \in Nat,
         OnGrid(n, u, x), OnGrid(n, u, y),
         Ready(n, q, u, d, s, x), First(n, q, u, d, s, y)
  PROVE  y <= x
<1> SUFFICES ASSUME x < y PROVE FALSE
  OBVIOUS
<1>1. u.now <= x /\ x + Quantum[n] <= y
  BY GridApart
<1>2. u.now \in Nat /\ Quantum[n] \in Nat
  BY QuantumIs DEF Air
<1>3. x <= y - Quantum[n] /\ y - Quantum[n] \in Int /\ y # u.now
  BY <1>1, <1>2
<1>4. Ready(n, q, u, d, s, y - Quantum[n])
  BY <1>3, ReadyLater
<1> QED BY <1>3, <1>4 DEF First

\* The bytes of a program are due one after the other.
Sorted(q) == \A j \in 1..Len(q) : q[j] >= 1 /\ \A i \in 1..j : q[i] <= q[j]

LEMMA AirFields ==
  ASSUME NEW v \in Air
  PROVE  /\ v.now \in Nat /\ v.seq \in Nat /\ v.byte \in Nat /\ v.timer \in Nat
         /\ v.torn \in Int
BY DEF Air

LEMMA TimerIs ==
  ASSUME NEW n \in Nodes, NEW u \in Air, NEW d \in Timeline, NEW s \in Nat, u.seq <= s
  PROVE  TimerAt(n, u, d, s) \in Nat
<1>1. CASE s = u.seq
  BY <1>1, AirFields DEF TimerAt
<1>2. CASE s # u.seq
  <2>1. s - 1 \in Nat
    BY <1>2, AirFields
  <2> QED BY <1>2, <2>1, DateIs, ByteTimeIs DEF TimerAt
<1> QED BY <1>1, <1>2

\* A byte that is due on a radio that is not early may leave.
LEMMA DueReady ==
  ASSUME NEW n \in Nodes, NEW q \in Seq(Nat), Sorted(q), NEW u \in Air, NEW v \in Air,
         NEW d \in Timeline, u.seq <= v.seq, v.byte >= u.byte + (v.seq - u.seq),
         v.timer >= TimerAt(n, u, d, v.seq), Due(q, v)
  PROVE  Ready(n, q, u, d, v.seq, v.now)
<1> DEFINE k == u.byte + (v.seq - u.seq) + 1
           t == TimerAt(n, u, d, v.seq)
<1>1. /\ u.seq \in Nat /\ u.byte \in Nat /\ v.seq \in Nat /\ v.byte \in Nat
      /\ v.timer \in Nat /\ v.now \in Nat
  BY AirFields
<1>2. t \in Nat
  BY <1>1, TimerIs
<1>3. v.byte < Len(q) /\ v.now >= q[v.byte + 1] /\ v.now >= v.timer
  BY DEF Due
<1>4. v.byte + 1 \in 1..Len(q) /\ k \in 1..v.byte + 1 /\ k <= Len(q)
  BY SMTT(20), <1>1, <1>3
<1>5. q[k] <= q[v.byte + 1]
  BY <1>4 DEF Sorted
<1>6. q[k] \in Nat /\ q[v.byte + 1] \in Nat
  <2>1. k \in 1..Len(q)
    BY <1>1, <1>4
  <2> QED BY <1>4, <2>1
<1>7. t <= v.now
  BY <1>1, <1>2, <1>3
<1>8. q[k] <= v.now
  <2> HIDE DEF k
  <2> QED BY <1>1, <1>3, <1>5, <1>6
<1> QED BY <1>4, <1>7, <1>8 DEF Ready

LEMMA ReadyDue ==
  ASSUME NEW n \in Nodes, NEW q \in Seq(Nat), NEW u \in Air, NEW v \in Air,
         NEW d \in Timeline, u.seq <= v.seq, v.byte = u.byte + (v.seq - u.seq),
         v.timer = TimerAt(n, u, d, v.seq), Ready(n, q, u, d, v.seq, v.now)
  PROVE  Due(q, v)
<1>1. /\ u.seq \in Nat /\ u.byte \in Nat /\ v.seq \in Nat /\ v.byte \in Nat
  BY AirFields
<1>2. v.byte + 1 <= Len(q) /\ q[v.byte + 1] <= v.now /\ v.timer <= v.now
  BY DEF Ready
<1> QED BY <1>1, <1>2 DEF Due

\* At the instruction after, nothing being due, nothing changes.
LEMMA TickPlan ==
  ASSUME NEW n \in Nodes, NEW q \in Seq(Nat), NEW u \in Air, NEW v \in Air, NEW w \in Air,
         NEW d \in Timeline, NEW m, NEW lim, Plan(n, q, u, v, d, m, lim), ~ Due(q, v),
         w.now = v.now + Quantum[n], w.seq = v.seq, w.byte = v.byte, w.timer = v.timer,
         w.torn = v.torn
  PROVE  Plan(n, q, u, w, d, m, lim)
<1>1. ASSUME OnBase(n, q, u, v, d), u.seq <= v.seq PROVE OnBase(n, q, u, w, d)
  <2>1. ~ Ready(n, q, u, d, v.seq, v.now)
    BY <1>1, ReadyDue DEF OnBase
  <2>2. w.now - Quantum[n] = v.now
    BY AirFields, QuantumIs
  <2>3. First(n, q, u, d, w.seq, w.now)
    BY <2>1, <2>2 DEF First
  <2> QED BY <1>1, <2>3 DEF OnBase
<1>2. CASE InPlan(n, q, u, v, d, m, lim)
  <2>1. InPlan(n, q, u, w, d, m, lim)
    BY <1>1, <1>2 DEF InPlan
  <2> QED BY <2>1 DEF Plan
<1>3. CASE Ahead(n, q, u, v, d, m, lim)
  BY <1>3 DEF Plan, Ahead
<1> QED BY <1>2, <1>3 DEF Plan

\* A radio that is at lim or before it, on base, with a byte to send: no byte
\* before that one may leave until lim.
LEMMA BaseBeyond ==
  ASSUME NEW n \in Nodes, NEW q \in Seq(Nat), NEW u \in Air, NEW v \in Air,
         NEW d \in Timeline, NEW m \in Nat, NEW lim \in Nat, u.seq <= m,
         InPlan(n, q, u, v, d, m, lim), OnGrid(n, u, v.now), lim < v.now
  PROVE  Beyond(n, q, u, d, m, lim)
<1> SUFFICES ASSUME OnBase(n, q, u, v, d), v.seq = m,
                    NEW x \in Nat, OnGrid(n, u, x), x <= lim, Ready(n, q, u, d, m, x)
             PROVE  FALSE
  BY DEF InPlan, Beyond
<1>1. v.now \in Nat
  BY AirFields
<1>2. v.now <= x
  BY <1>1, FirstReady DEF OnBase
<1> QED BY <1>1, <1>2

\* The saved state itself.
LEMMA FreshPlan ==
  ASSUME NEW n \in Nodes, NEW q, NEW u \in Air, NEW d, NEW lim
  PROVE  Plan(n, q, u, u, d, u.seq, lim)
<1>1. u.seq \in Nat /\ u.byte \in Nat /\ u.timer \in Nat
  BY AirFields
<1>2. u.seq..u.seq - 1 = {}
  BY <1>1
<1>3. Planned(n, q, u, d, u.seq, lim)
  BY <1>1, <1>2 DEF Planned
<1>4. OnBase(n, q, u, u, d)
  <2>1. u.byte = u.byte + (u.seq - u.seq)
    BY <1>1
  <2> QED BY <2>1 DEF OnBase, TimerAt, First
<1>5. InPlan(n, q, u, u, d, u.seq, lim)
  BY <1>1, <1>4 DEF InPlan, OnBase
<1> QED BY <1>3, <1>5 DEF Plan

\* The radio goes back from beyond lim, and is torn if it was sending.
LEMMA BackPlan ==
  ASSUME NEW n \in Nodes, NEW q \in Seq(Nat), NEW u \in Air, NEW v \in Air, NEW w \in Air,
         NEW d \in Timeline, NEW m \in Nat, NEW lim \in Nat, Plan(n, q, u, v, d, m, lim),
         OnGrid(n, u, v.now), lim < v.now, w.seq = u.seq,
         w = u \/ (w.byte >= u.byte /\ w.timer >= u.timer /\ w.torn > u.torn)
  PROVE  Plan(n, q, u, w, d, m, lim)
<1>1. u.seq <= m
  BY DEF Plan, Planned
<1>2. Beyond(n, q, u, d, m, lim)
  BY <1>1, BaseBeyond DEF Plan, Ahead
<1>3. u.seq \in Nat /\ u.byte \in Nat /\ u.timer \in Nat
  BY AirFields
<1>4. u.byte + (w.seq - u.seq) = u.byte /\ TimerAt(n, u, d, w.seq) = u.timer
  BY <1>3 DEF TimerAt
<1>5. CASE w = u
  <2>1. OnBase(n, q, u, w, d)
    BY <1>4, <1>5 DEF OnBase, First
  <2>2. InPlan(n, q, u, w, d, m, lim)
    <3>1. w.byte >= u.byte /\ w.timer >= u.timer /\ u.seq <= w.seq
      BY <1>3, <1>5
    <3> QED BY <1>1, <1>2, <1>4, <2>1, <3>1 DEF InPlan
  <2> QED BY <2>2 DEF Plan
<1>6. CASE w.byte >= u.byte /\ w.timer >= u.timer /\ w.torn > u.torn
  <2>1. u.seq <= w.seq /\ w.seq <= m
    BY <1>1, <1>3
  <2>2. InPlan(n, q, u, w, d, m, lim)
    BY <1>2, <1>4, <1>6, <2>1 DEF InPlan
  <2> QED BY <2>2 DEF Plan
<1> QED BY <1>5, <1>6

LEMMA NatLeast ==
  ASSUME NEW S \in SUBSET Nat, S # {}
  PROVE  \E e \in S : \A f \in S : e <= f
<1>1. PICK e \in S : \A f \in S : <<f, e>> \notin OpToRel(<, Nat)
  BY WFMin, NatLessThanWellFounded, Zenon
<1>2. \A f \in S : ~ (f < e)
  BY <1>1, Zenon DEF OpToRel
<1> QED BY <1>2

\* The bytes of the plan that leave until an earlier date.
LEMMA Cut ==
  ASSUME NEW d \in Timeline, NEW a \in Nat, NEW m \in Nat, a <= m, NEW lim \in Nat,
         \A s \in a..m - 1 : \A r \in a..s - 1 : d[r] < d[s]
  PROVE  \E k \in a..m : \A s \in a..m - 1 : d[s] <= lim <=> s < k
<1> DEFINE S == {s \in a..m : s = m \/ d[s] > lim}
<1>1. S \in SUBSET Nat /\ m \in S
  OBVIOUS
<1>2. PICK k \in S : \A f \in S : k <= f
  BY <1>1, NatLeast
<1>3. k \in a..m /\ (k = m \/ d[k] > lim)
  BY <1>2
<1>4. \A f \in a..m : f = m \/ d[f] > lim => k <= f
  BY <1>2
<1> HIDE DEF S
<1>5. ASSUME NEW s \in a..m - 1 PROVE d[s] <= lim <=> s < k
  <2>1. s \in a..m /\ s # m /\ s \in Nat /\ k \in Nat
    BY <1>3
  <2>2. d[s] \in Nat /\ d[k] \in Nat
    BY <2>1, DateIs
  <2>3. s < k => d[s] <= lim
    BY <1>4, <2>1, <2>2
  <2>4. ASSUME ~ (s < k) PROVE d[s] > lim
    <3>1. k # m /\ d[k] > lim
      BY <1>3, <2>1, <2>4
    <3>2. CASE s = k
      BY <3>1, <3>2
    <3>3. CASE s # k
      <4>1. k \in a..s - 1
        BY <1>3, <2>1, <2>4, <3>3
      <4>2. d[k] < d[s]
        BY <4>1
      <4> QED BY <2>2, <3>1, <4>2
    <3> QED BY <3>2, <3>3
  <2> QED BY <2>2, <2>3, <2>4
<1> QED BY <1>3, <1>5

\* The rendez-vous comes nearer.
LEMMA CutPlan ==
  ASSUME NEW n \in Nodes, NEW q \in Seq(Nat), NEW u \in Air, NEW v \in Air,
         NEW d \in Timeline, NEW m \in Nat, NEW lim \in Nat, NEW new \in Nat, new <= lim,
         Plan(n, q, u, v, d, m, lim)
  PROVE  \E k \in u.seq..m : /\ Plan(n, q, u, v, d, k, new)
                             /\ \A s \in u.seq..m - 1 : d[s] <= new <=> s < k
<1>0. /\ u.seq \in Nat /\ u.seq <= m /\ v.seq \in Nat /\ v.timer \in Nat /\ u.now \in Nat
      /\ ByteTime[n] \in Nat
  BY AirFields, ByteTimeIs DEF Plan, Planned
<1>1. \A s \in u.seq..m - 1 :
       /\ OnGrid(n, u, d[s]) /\ d[s] <= lim
       /\ Ready(n, q, u, d, s, d[s]) /\ First(n, q, u, d, s, d[s])
       /\ \A r \in u.seq..s - 1 : d[r] < d[s]
  BY DEF Plan, Planned
<1>2. PICK k \in u.seq..m : \A s \in u.seq..m - 1 : d[s] <= new <=> s < k
  BY <1>0, <1>1, Cut
<1>3. k \in Nat /\ u.seq <= k /\ k <= m
  BY <1>0, <1>2
<1>4. Planned(n, q, u, d, k, new)
  <2>1. ASSUME NEW s \in u.seq..k - 1 PROVE s \in u.seq..m - 1 /\ s < k
    BY <1>0, <1>3
  <2> QED BY <1>1, <1>2, <1>3, <2>1 DEF Planned
<1>5. k < m => Beyond(n, q, u, d, k, new)
  <2> SUFFICES ASSUME k < m, NEW x \in Nat, OnGrid(n, u, x), x <= new,
                      Ready(n, q, u, d, k, x)
               PROVE  FALSE
    BY DEF Beyond
  <2>1. k \in u.seq..m - 1
    BY <1>0, <1>3
  <2>2. d[k] \in Nat /\ OnGrid(n, u, d[k]) /\ First(n, q, u, d, k, d[k])
    BY <1>1, <1>3, <2>1, DateIs
  <2>3. d[k] <= x
    BY <1>3, <2>2, FirstReady
  <2>4. ~ (d[k] <= new)
    BY <1>2, <1>3, <2>1
  <2> QED BY <2>2, <2>3, <2>4
<1>6. Beyond(n, q, u, d, m, lim) => Beyond(n, q, u, d, m, new)
  <2> SUFFICES ASSUME Beyond(n, q, u, d, m, lim), NEW x \in Nat, OnGrid(n, u, x), x <= new
               PROVE  ~ Ready(n, q, u, d, m, x)
    BY DEF Beyond
  <2>1. x <= lim
    OBVIOUS
  <2> QED BY <2>1 DEF Beyond
<1>7. CASE Ahead(n, q, u, v, d, m, lim)
  <2>1. Beyond(n, q, u, d, k, new)
    BY <1>3, <1>5, <1>6, <1>7 DEF Ahead
  <2>2. u.seq <= v.seq /\ new < v.timer - ByteTime[n]
    BY <1>0, <1>7 DEF Ahead
  <2> QED BY <1>2, <1>4, <2>1, <2>2 DEF Plan, Ahead
<1>8. CASE InPlan(n, q, u, v, d, m, lim)
  <2>1. CASE v.seq <= k
    <3>1. Beyond(n, q, u, d, k, new) \/ (OnBase(n, q, u, v, d) /\ v.seq = k)
      BY <1>3, <1>5, <1>6, <1>8 DEF InPlan
    <3>2. InPlan(n, q, u, v, d, k, new)
      BY <1>8, <2>1, <3>1 DEF InPlan
    <3> QED BY <1>2, <1>4, <3>2 DEF Plan
  <2>2. CASE ~ (v.seq <= k)
    <3>1. u.seq <= v.seq /\ v.seq <= m /\ v.timer >= TimerAt(n, u, d, v.seq)
      BY <1>8 DEF InPlan
    <3>2. k < m /\ v.seq # u.seq /\ v.seq - 1 \in u.seq..m - 1 /\ ~ (v.seq - 1 < k)
      BY <1>0, <1>3, <2>2, <3>1
    <3>3. d[v.seq - 1] \in Nat /\ d[v.seq - 1] > new
      <4>1. v.seq - 1 \in Nat
        BY <1>0, <3>2
      <4>2. d[v.seq - 1] \in Nat
        BY <4>1, DateIs
      <4>3. ~ (d[v.seq - 1] <= new)
        BY <1>2, <3>2
      <4> QED BY <4>2, <4>3
    <3>4. TimerAt(n, u, d, v.seq) = d[v.seq - 1] + ByteTime[n]
      BY <3>2 DEF TimerAt
    <3>5. new < v.timer - ByteTime[n]
      BY <1>0, <3>1, <3>3, <3>4
    <3>6. Ahead(n, q, u, v, d, k, new)
      BY <1>5, <3>1, <3>2, <3>5 DEF Ahead
    <3> QED BY <1>2, <1>4, <3>6 DEF Plan
  <2> QED BY <2>1, <2>2
<1> QED BY <1>7, <1>8 DEF Plan

\* A node that has not sent anything after lim has kept to the plan.
LEMMA NotAhead ==
  ASSUME NEW n, NEW q, NEW u, NEW v \in Air, NEW d, NEW m, NEW lim \in Nat, n \in Nodes,
         Plan(n, q, u, v, d, m, lim), v.timer - ByteTime[n] <= lim
  PROVE  InPlan(n, q, u, v, d, m, lim)
<1>1. ~ (lim < v.timer - ByteTime[n])
  BY AirFields, ByteTimeIs
<1> QED BY <1>1 DEF Plan, Ahead

\* Radio v sends its next byte and becomes w.
Sending(n, v, w) ==
  /\ w.now = v.now /\ w.seq = v.seq + 1 /\ w.byte = v.byte + 1
  /\ w.timer = v.now + ByteTime[n] /\ w.torn = v.torn

\* A byte that is sent after lim.
LEMMA LatePlan ==
  ASSUME NEW n \in Nodes, NEW q \in Seq(Nat), NEW u \in Air, NEW v \in Air, NEW w \in Air,
         NEW d \in Timeline, NEW m \in Nat, NEW lim \in Nat, Plan(n, q, u, v, d, m, lim),
         OnGrid(n, u, v.now), Sending(n, v, w), lim < v.now
  PROVE  Plan(n, q, u, w, d, m, lim)
<1>0. /\ v.now \in Nat /\ v.seq \in Nat /\ u.seq \in Nat /\ w.timer \in Nat
      /\ ByteTime[n] \in Nat
  BY AirFields, ByteTimeIs
<1>1. u.seq <= m /\ u.seq <= v.seq
  BY DEF Plan, Planned, InPlan, Ahead
<1>2. Beyond(n, q, u, d, m, lim)
  BY <1>1, BaseBeyond DEF Plan, Ahead
<1>3. lim < w.timer - ByteTime[n] /\ u.seq <= w.seq
  BY <1>0, <1>1 DEF Sending
<1> QED BY <1>2, <1>3 DEF Plan, Ahead

\* A byte of the plan is sent, at its date or later.
LEMMA KeptPlan ==
  ASSUME NEW n \in Nodes, NEW q \in Seq(Nat), Sorted(q), NEW u \in Air, NEW v \in Air,
         NEW w \in Air, NEW d \in Timeline, NEW m \in Nat, NEW lim \in Nat,
         Planned(n, q, u, d, m, lim), InPlan(n, q, u, v, d, m, lim), v.seq < m,
         OnGrid(n, u, v.now), Due(q, v), Sending(n, v, w)
  PROVE  Plan(n, q, u, w, d, m, lim) /\ d[v.seq] <= v.now
<1>0. /\ v.now \in Nat /\ v.seq \in Nat /\ u.seq \in Nat /\ w.timer \in Nat
      /\ w.seq \in Nat /\ u.byte \in Nat /\ v.byte \in Nat
      /\ ByteTime[n] \in Nat /\ ByteTime[n] >= 1 /\ Quantum[n] \in Nat
  BY AirFields, ByteTimeIs, QuantumIs
<1>a. w.seq = v.seq + 1 /\ w.byte = v.byte + 1
  BY DEF Sending
<1>1. /\ u.seq <= v.seq /\ v.byte >= u.byte + (v.seq - u.seq)
      /\ v.timer >= TimerAt(n, u, d, v.seq)
      /\ OnBase(n, q, u, v, d) \/ v.torn > u.torn
      /\ Beyond(n, q, u, d, m, lim)
  BY <1>0 DEF InPlan
<1>2. v.seq \in u.seq..m - 1
  BY <1>0, <1>1
<1>3. /\ OnGrid(n, u, d[v.seq]) /\ d[v.seq] \in Nat /\ d[v.seq] <= lim
      /\ Ready(n, q, u, d, v.seq, d[v.seq]) /\ First(n, q, u, d, v.seq, d[v.seq])
  BY <1>0, <1>2, DateIs DEF Planned
<1>4. Ready(n, q, u, d, v.seq, v.now)
  BY <1>1, DueReady
<1>5. d[v.seq] <= v.now
  BY <1>0, <1>1, <1>3, <1>4, FirstReady
<1>6. w.seq # u.seq /\ w.seq - 1 = v.seq /\ u.seq <= w.seq /\ w.seq <= m
  <2>1. \A x, y, z \in Nat : z = y + 1 /\ x <= y /\ y < m =>
          z # x /\ z - 1 = y /\ x <= z /\ z <= m
    OBVIOUS
  <2> QED BY <1>0, <1>1, <1>a, <2>1
<1>7. TimerAt(n, u, d, w.seq) = d[v.seq] + ByteTime[n]
  BY <1>6 DEF TimerAt
<1>8. w.timer >= TimerAt(n, u, d, w.seq)
  <2>1. \A x, y, z \in Nat : x <= y => y + z >= x + z
    OBVIOUS
  <2>2. v.now + ByteTime[n] >= d[v.seq] + ByteTime[n]
    BY <1>0, <1>3, <1>5, <2>1, Zenon
  <2>3. w.timer = v.now + ByteTime[n]
    BY DEF Sending
  <2> QED BY <1>7, <2>2, <2>3, Zenon
<1>9. w.byte >= u.byte + (w.seq - u.seq)
  BY SMTT(20), <1>0, <1>1 DEF Sending
<1>10. ASSUME OnBase(n, q, u, v, d) PROVE OnBase(n, q, u, w, d)
  <2>1. v.now <= d[v.seq]
    BY <1>0, <1>1, <1>3, <1>10, FirstReady DEF OnBase
  <2>2. d[v.seq] = v.now
    <3>1. \A x, y \in Nat : x <= y /\ y <= x => x = y
      OBVIOUS
    <3> QED BY <1>0, <1>3, <1>5, <2>1, <3>1, Zenon
  <2>3. w.byte = u.byte + (w.seq - u.seq)
    <3>1. v.byte = u.byte + (v.seq - u.seq)
      BY <1>10 DEF OnBase
    <3>2. \A x, y, z, r, t \in Nat : x = r + (y - z) => x + 1 = r + ((y + 1) - z)
      OBVIOUS
    <3> QED BY SMTT(20), <1>0, <1>a, <3>1, <3>2
  <2>4. w.timer = TimerAt(n, u, d, w.seq)
    BY <1>7, <2>2 DEF Sending
  <2>5. ~ Ready(n, q, u, d, w.seq, w.now - Quantum[n])
    <3>1. \A x, y, z \in Nat : y >= 1 => ~ (x + y <= x - z)
      OBVIOUS
    <3>2. ~ (v.now + ByteTime[n] <= v.now - Quantum[n])
      BY <1>0, <3>1
    <3>3. TimerAt(n, u, d, w.seq) = v.now + ByteTime[n] /\ w.now = v.now
      BY <1>7, <2>2 DEF Sending
    <3>4. ~ (TimerAt(n, u, d, w.seq) <= w.now - Quantum[n])
      BY <3>2, <3>3, Zenon
    <3> QED BY <3>4, Zenon DEF Ready
  <2>6. w.torn = u.torn
    BY <1>10 DEF OnBase, Sending
  <2> QED BY <2>3, <2>4, <2>5, <2>6 DEF OnBase, First
<1>11. OnBase(n, q, u, w, d) \/ w.torn > u.torn
  BY <1>1, <1>10 DEF Sending
<1>12. InPlan(n, q, u, w, d, m, lim)
  BY <1>1, <1>6, <1>8, <1>9, <1>11 DEF InPlan
<1> QED BY <1>5, <1>12 DEF Plan

\* Two timelines that agree before s agree on s.
LEMMA SameDates ==
  ASSUME NEW n \in Nodes, NEW q, NEW u \in Air, NEW d, NEW e, NEW s \in Nat, u.seq <= s,
         s # u.seq => e[s - 1] = d[s - 1]
  PROVE  /\ TimerAt(n, u, e, s) = TimerAt(n, u, d, s)
         /\ \A x : Ready(n, q, u, e, s, x) <=> Ready(n, q, u, d, s, x)
         /\ \A x : First(n, q, u, e, s, x) <=> First(n, q, u, d, s, x)
<1>1. TimerAt(n, u, e, s) = TimerAt(n, u, d, s)
  BY DEF TimerAt
<1>2. \A x : Ready(n, q, u, e, s, x) <=> Ready(n, q, u, d, s, x)
  BY <1>1 DEF Ready
<1> QED BY <1>1, <1>2 DEF First

\* The timeline d, until m, followed by x.
Then(d, m, x) == [d EXCEPT ![m] = x]

LEMMA ThenIs ==
  ASSUME NEW d \in Timeline, NEW m \in Nat, NEW x \in Nat
  PROVE  /\ Then(d, m, x) \in Timeline /\ Then(d, m, x)[m] = x
         /\ \A s \in Nat : s # m => Then(d, m, x)[s] = d[s]
BY DEF Timeline, Then

\* The next byte of the plan is sent: the timeline grows.
LEMMA NextPlan ==
  ASSUME NEW n \in Nodes, NEW q \in Seq(Nat), Sorted(q), NEW u \in Air, NEW v \in Air,
         NEW w \in Air, NEW d \in Timeline, NEW m \in Nat, NEW lim \in Nat,
         Planned(n, q, u, d, m, lim), OnBase(n, q, u, v, d), v.seq = m,
         v.now <= lim, OnGrid(n, u, v.now), Due(q, v), Sending(n, v, w)
  PROVE  Plan(n, q, u, w, Then(d, m, v.now), m + 1, lim)
<1> DEFINE e == Then(d, m, v.now)
<1>0. /\ v.now \in Nat /\ v.seq \in Nat /\ u.seq \in Nat /\ w.timer \in Nat
      /\ w.seq \in Nat /\ u.byte \in Nat /\ v.byte \in Nat /\ v.timer \in Nat
      /\ ByteTime[n] \in Nat /\ ByteTime[n] >= 1 /\ Quantum[n] \in Nat /\ u.seq <= m
  BY AirFields, ByteTimeIs, QuantumIs DEF Planned
<1>1. /\ w.now = v.now /\ w.seq = m + 1 /\ w.byte = v.byte + 1
      /\ w.timer = v.now + ByteTime[n] /\ w.torn = v.torn
  BY DEF Sending
<1>2. /\ v.byte = u.byte + (v.seq - u.seq) /\ v.timer = TimerAt(n, u, d, m)
      /\ v.torn = u.torn /\ First(n, q, u, d, m, v.now)
  BY DEF OnBase
<1>3. e \in Timeline /\ e[m] = v.now /\ \A s \in Nat : s # m => e[s] = d[s]
  <2>1. \A x \in Nat : /\ Then(d, m, x) \in Timeline /\ Then(d, m, x)[m] = x
                       /\ \A s \in Nat : s # m => Then(d, m, x)[s] = d[s]
    BY ThenIs
  <2>2. v.now \in Nat
    BY <1>0
  <2> QED BY <2>1, <2>2, Zenon
<1> HIDE DEF e
<1>4. ASSUME NEW s \in u.seq..m
      PROVE  /\ TimerAt(n, u, e, s) = TimerAt(n, u, d, s)
             /\ \A x : Ready(n, q, u, e, s, x) <=> Ready(n, q, u, d, s, x)
             /\ \A x : First(n, q, u, e, s, x) <=> First(n, q, u, d, s, x)
  <2>1. s \in Nat /\ u.seq <= s /\ (s # u.seq => s - 1 \in Nat /\ s - 1 # m)
    BY <1>0
  <2>2. s # u.seq => e[s - 1] = d[s - 1]
    BY <1>3, <2>1
  <2> QED BY <2>1, <2>2, SameDates
<1>5. Ready(n, q, u, d, m, v.now)
  <2>1. v.byte >= u.byte + (v.seq - u.seq) /\ v.timer >= TimerAt(n, u, d, v.seq)
    BY <1>0, <1>2
  <2>2. Ready(n, q, u, d, v.seq, v.now)
    BY <1>0, <2>1, DueReady
  <2> QED BY <2>2
<1>6. ASSUME NEW s \in u.seq..m - 1
      PROVE  /\ s \in Nat /\ s \in u.seq..m /\ e[s] = d[s] /\ d[s] \in Nat
             /\ OnGrid(n, u, d[s]) /\ d[s] <= lim
             /\ Ready(n, q, u, d, s, d[s]) /\ First(n, q, u, d, s, d[s])
             /\ \A r \in u.seq..s - 1 : d[r] < d[s]
  <2>1. s \in Nat /\ s # m /\ s \in u.seq..m
    BY <1>0
  <2> QED BY <1>3, <2>1, DateIs DEF Planned
<1>7. ASSUME NEW r \in u.seq..m - 1 PROVE d[r] < v.now
  <2>1. TimerAt(n, u, d, m) <= v.now
    BY <1>5 DEF Ready
  <2>2. m # u.seq /\ m - 1 \in u.seq..m - 1 /\ m - 1 \in Nat
    BY <1>0
  <2>3. TimerAt(n, u, d, m) = d[m - 1] + ByteTime[n]
    BY <2>2 DEF TimerAt
  <2>4. d[m - 1] \in Nat /\ d[r] \in Nat
    BY <1>6, <2>2
  <2>5. d[m - 1] < v.now
    BY <1>0, <2>1, <2>3, <2>4
  <2>6. CASE r = m - 1
    BY <2>5, <2>6
  <2>7. CASE r # m - 1
    <3>1. r \in u.seq..(m - 1) - 1
      BY <1>0, <2>7
    <3>2. d[r] < d[m - 1]
      BY <1>6, <2>2, <3>1
    <3> QED BY <1>0, <2>4, <2>5, <3>2
  <2> QED BY <2>6, <2>7
<1>8. Planned(n, q, u, e, m + 1, lim)
  <2>1. u.seq <= m + 1
    BY <1>0
  <2>2. ASSUME NEW s \in u.seq..(m + 1) - 1
        PROVE  /\ OnGrid(n, u, e[s]) /\ e[s] <= lim
               /\ Ready(n, q, u, e, s, e[s]) /\ First(n, q, u, e, s, e[s])
               /\ \A r \in u.seq..s - 1 : e[r] < e[s]
    <3>0. s \in u.seq..m
      BY <1>0
    <3>1. CASE s = m
      <4>1. ASSUME NEW r \in u.seq..s - 1 PROVE e[r] < e[s]
        <5>1. r \in u.seq..m - 1
          BY <3>1
        <5>2. e[r] = d[r] /\ d[r] < v.now
          BY <1>6, <1>7, <5>1
        <5> QED BY <1>3, <3>1, <5>2
      <4>2. OnGrid(n, u, e[s]) /\ e[s] <= lim
        BY <1>3, <3>1
      <4>3. Ready(n, q, u, e, s, e[s]) /\ First(n, q, u, e, s, e[s])
        BY <1>2, <1>3, <1>4, <1>5, <3>0, <3>1
      <4> QED BY <4>1, <4>2, <4>3
    <3>2. CASE s # m
      <4>0. s \in u.seq..m - 1
        BY <1>0, <3>0, <3>2
      <4>1. ASSUME NEW r \in u.seq..s - 1 PROVE e[r] < e[s]
        <5>1. r \in u.seq..m - 1
          BY <1>0, <3>0
        <5>2. e[r] = d[r] /\ e[s] = d[s] /\ d[r] < d[s]
          BY <1>6, <4>0, <5>1
        <5> QED BY <5>2
      <4>2. OnGrid(n, u, e[s]) /\ e[s] <= lim
        BY <1>6, <4>0
      <4>3. Ready(n, q, u, e, s, e[s]) /\ First(n, q, u, e, s, e[s])
        BY <1>4, <1>6, <3>0, <4>0
      <4> QED BY <4>1, <4>2, <4>3
    <3> QED BY <3>1, <3>2
  <2> QED BY <2>1, <2>2 DEF Planned
<1>9. OnBase(n, q, u, w, e)
  <2>1. w.byte = u.byte + (w.seq - u.seq)
    <3>1. v.byte = u.byte + (m - u.seq)
      BY <1>2
    <3>2. \A x, y, z, r \in Nat : x = r + (y - z) => x + 1 = r + ((y + 1) - z)
      OBVIOUS
    <3>3. v.byte + 1 = u.byte + ((m + 1) - u.seq)
      BY SMTT(20), <1>0, <3>1, <3>2
    <3> QED BY <1>1, <3>3
  <2>2. TimerAt(n, u, e, w.seq) = v.now + ByteTime[n]
    <3>1. w.seq # u.seq /\ w.seq - 1 = m
      BY <1>0, <1>1
    <3> QED BY <1>3, <3>1 DEF TimerAt
  <2>3. ~ Ready(n, q, u, e, w.seq, w.now - Quantum[n])
    <3>1. ~ (v.now + ByteTime[n] <= v.now - Quantum[n])
      BY <1>0
    <3> QED BY <1>1, <2>2, <3>1 DEF Ready
  <2> QED BY <1>1, <1>2, <2>1, <2>2, <2>3 DEF OnBase, First
<1>10. InPlan(n, q, u, w, e, m + 1, lim)
  <2>1. /\ u.seq <= w.seq /\ w.seq <= m + 1 /\ w.byte >= u.byte + (w.seq - u.seq)
        /\ w.timer >= TimerAt(n, u, e, w.seq)
    <3>1. w.byte = u.byte + (w.seq - u.seq) /\ w.timer = TimerAt(n, u, e, w.seq)
      BY <1>9 DEF OnBase
    <3>2. w.byte \in Nat
      BY AirFields
    <3> QED BY <1>0, <1>1, <3>1, <3>2
  <2> QED BY <1>1, <1>9, <2>1 DEF InPlan
<1> QED BY <1>8, <1>10 DEF Plan, e

\* The plan d, m becomes e, k when radio v sends its next byte: after lim, or
\* in the plan, or as its next byte.
Foresees(n, q, u, v, d, m, e, k, lim) ==
  /\ u.seq <= v.seq
  /\ \/ lim < v.now /\ e = d /\ k = m
     \/ v.seq < m /\ d[v.seq] <= v.now /\ e = d /\ k = m
     \/ /\ v.seq = m /\ k = m + 1 /\ e = Then(d, m, v.now)
        /\ Ready(n, q, u, d, m, u.now) => v.now = u.now

LEMMA SendPlan ==
  ASSUME NEW n \in Nodes, NEW q \in Seq(Nat), Sorted(q), NEW u \in Air, NEW v \in Air,
         NEW w \in Air, NEW d \in Timeline, NEW m \in Nat, NEW lim \in Nat,
         Plan(n, q, u, v, d, m, lim),
         OnGrid(n, u, v.now), Due(q, v), Sending(n, v, w)
  PROVE  \E e \in Timeline, k \in Nat :
           Plan(n, q, u, w, e, k, lim) /\ Foresees(n, q, u, v, d, m, e, k, lim)
<1>0. /\ v.now \in Nat /\ v.seq \in Nat /\ u.seq \in Nat /\ v.timer \in Nat /\ u.now \in Nat
      /\ ByteTime[n] \in Nat /\ u.seq <= m
  BY AirFields, ByteTimeIs DEF Plan, Planned
<1>1. Planned(n, q, u, d, m, lim) /\ u.seq <= v.seq
  BY DEF Plan, InPlan, Ahead
<1>2. CASE lim < v.now
  <2>1. Plan(n, q, u, w, d, m, lim)
    BY <1>2, LatePlan
  <2> QED BY <1>1, <1>2, <2>1 DEF Foresees
<1>3. CASE ~ (lim < v.now)
  <2>1. v.timer <= v.now /\ v.now <= lim
    BY <1>0, <1>3 DEF Due
  <2>2. v.timer - ByteTime[n] <= lim
    <3>1. \A x, y, z, r \in Nat : x <= y /\ y <= z => x - r <= z
      OBVIOUS
    <3> QED BY <1>0, <2>1, <3>1
  <2>3. InPlan(n, q, u, v, d, m, lim)
    BY <2>2, NotAhead
  <2>4. CASE v.seq < m
    <3>1. Plan(n, q, u, w, d, m, lim) /\ d[v.seq] <= v.now
      BY <1>1, <2>3, <2>4, KeptPlan
    <3> QED BY <1>1, <2>4, <3>1 DEF Foresees
  <2>5. CASE v.seq = m
    <3>1. Ready(n, q, u, d, m, v.now)
      <4>1. v.byte >= u.byte + (v.seq - u.seq) /\ v.timer >= TimerAt(n, u, d, v.seq)
        BY <2>3 DEF InPlan
      <4>2. Ready(n, q, u, d, v.seq, v.now)
        BY <1>1, <4>1, DueReady
      <4> QED BY <2>5, <4>2
    <3>2. ~ Beyond(n, q, u, d, m, lim)
      BY <1>0, <2>1, <3>1 DEF Beyond
    <3>3. OnBase(n, q, u, v, d)
      BY <2>3, <3>2 DEF InPlan
    <3>4. Plan(n, q, u, w, Then(d, m, v.now), m + 1, lim)
      BY <1>1, <2>1, <2>5, <3>3, NextPlan
    <3>5. Then(d, m, v.now) \in Timeline /\ m + 1 \in Nat
      <4>1. \A x \in Nat : Then(d, m, x) \in Timeline
        BY ThenIs
      <4>2. m + 1 \in Nat /\ v.now \in Nat
        BY <1>0
      <4> QED BY <4>1, <4>2, Zenon
    <3>6. ASSUME Ready(n, q, u, d, m, u.now) PROVE v.now = u.now
      <4>1. OnGrid(n, u, u.now) /\ First(n, q, u, d, m, v.now)
        BY <2>5, <3>3, GridBase DEF OnBase
      <4>2. v.now <= u.now
        BY <1>0, <3>6, <4>1, FirstReady
      <4>3. u.now <= v.now
        BY <1>0, <4>1, GridApart
      <4> QED BY <1>0, <4>2, <4>3
    <3>7. Foresees(n, q, u, v, d, m, Then(d, m, v.now), m + 1, lim)
      BY <1>1, <2>5, <3>6 DEF Foresees
    <3> QED BY <3>4, <3>5, <3>7
  <2>6. v.seq <= m
    BY <2>3 DEF InPlan
  <2> QED BY <1>0, <2>4, <2>5, <2>6
<1> QED BY <1>2, <1>3

-----------------------------------------------------------------------------
(* The bytes on their way to the server. *)

TxIs(p, n) == p.type = "TX" /\ p.node = n

\* Byte s of n, sent at the date of the timeline.
Exact(p, n, s, u, d) == TxIs(p, n) /\ p.seq = s /\ p.period + u.now = d[s]

\* The bytes of the plan are in S, that is known to the server, or on their way,
Announces(w, n, u, d, m, S) ==
  \A s \in u.seq..m - 1 : s \in S \/ \E i \in 1..Len(w) : Exact(w[i], n, s, u, d)

\* and a byte that was sent until lim is one of the plan, and comes after it.
Obeys(w, n, u, d, m, lim, S) ==
  \A j \in 1..Len(w) : TxIs(w[j], n) =>
    /\ u.seq <= w[j].seq
    /\ w[j].period + u.now <= lim =>
         /\ w[j].seq < m /\ d[w[j].seq] <= w[j].period + u.now
         /\ w[j].seq \in S \/ \E i \in 1..j : Exact(w[i], n, w[j].seq, u, d)

OnItsWay(w, n, u, d, m, lim, S) ==
  Announces(w, n, u, d, m, S) /\ Obeys(w, n, u, d, m, lim, S)

LEMMA OtherWritten ==
  ASSUME NEW w \in Seq(ClientPkt), NEW p \in ClientPkt, NEW n, ~ TxIs(p, n), NEW u, NEW d,
         NEW m, NEW lim, NEW S, OnItsWay(w, n, u, d, m, lim, S)
  PROVE  OnItsWay(Append(w, p), n, u, d, m, lim, S)
<1> DEFINE x == Append(w, p)
<1>1. /\ Len(x) = Len(w) + 1 /\ Len(w) \in Nat /\ x[Len(w) + 1] = p
      /\ \A i \in 1..Len(w) : x[i] = w[i] /\ i \in 1..Len(x)
  OBVIOUS
<1> HIDE DEF x
<1>2. Announces(x, n, u, d, m, S)
  <2> SUFFICES ASSUME NEW s \in u.seq..m - 1
               PROVE  s \in S \/ \E i \in 1..Len(x) : Exact(x[i], n, s, u, d)
    BY DEF Announces
  <2>1. s \in S \/ \E i \in 1..Len(w) : Exact(w[i], n, s, u, d)
    BY DEF OnItsWay, Announces
  <2>2. ASSUME NEW i \in 1..Len(w), Exact(w[i], n, s, u, d)
        PROVE  \E j \in 1..Len(x) : Exact(x[j], n, s, u, d)
    <3>1. x[i] = w[i] /\ i \in 1..Len(x)
      BY <1>1
    <3> QED BY <2>2, <3>1
  <2> QED BY <2>1, <2>2
<1>3. Obeys(x, n, u, d, m, lim, S)
  <2> SUFFICES ASSUME NEW j \in 1..Len(x), TxIs(x[j], n)
               PROVE  /\ u.seq <= x[j].seq
                      /\ x[j].period + u.now <= lim =>
                           /\ x[j].seq < m /\ d[x[j].seq] <= x[j].period + u.now
                           /\ x[j].seq \in S \/ \E i \in 1..j : Exact(x[i], n, x[j].seq, u, d)
    BY DEF Obeys
  <2>1. j \in 1..Len(w)
    BY <1>1
  <2>2. x[j] = w[j] /\ \A i \in 1..j : i \in 1..Len(w) /\ x[i] = w[i]
    BY <1>1, <2>1
  <2>3. /\ u.seq <= w[j].seq
        /\ w[j].period + u.now <= lim =>
             /\ w[j].seq < m /\ d[w[j].seq] <= w[j].period + u.now
             /\ w[j].seq \in S \/ \E i \in 1..j : Exact(w[i], n, w[j].seq, u, d)
    BY <2>1, <2>2 DEF OnItsWay, Obeys
  <2>4. ASSUME NEW i \in 1..j, Exact(w[i], n, w[j].seq, u, d)
        PROVE  \E k \in 1..j : Exact(x[k], n, x[j].seq, u, d)
    BY <2>2, <2>4
  <2> QED BY <2>2, <2>3, <2>4
<1> QED BY <1>2, <1>3 DEF OnItsWay, x

\* The node sends a byte.
LEMMA OwnWritten ==
  ASSUME NEW w \in Seq(ClientPkt), NEW p \in ClientPkt, NEW n \in Nodes, TxIs(p, n),
         NEW q, NEW u \in Air, NEW v \in Air, NEW d \in Timeline, NEW m \in Nat,
         NEW e \in Timeline, NEW k \in Nat, NEW lim, NEW S,
         p.seq = v.seq, p.period + u.now = v.now,
         OnItsWay(w, n, u, d, m, lim, S), Foresees(n, q, u, v, d, m, e, k, lim),
         v.now <= lim <=> ~ (lim < v.now)
  PROVE  OnItsWay(Append(w, p), n, u, e, k, lim, S)
<1> DEFINE x == Append(w, p)
<1>0. /\ Len(x) = Len(w) + 1 /\ Len(w) \in Nat /\ x[Len(w) + 1] = p
      /\ \A i \in 1..Len(w) : x[i] = w[i] /\ i \in 1..Len(x)
      /\ Len(w) + 1 \in 1..Len(x)
  OBVIOUS
<1> HIDE DEF x
<1>a. /\ u.seq <= v.seq /\ u.seq \in Nat /\ v.seq \in Nat /\ v.now \in Nat
  BY AirFields DEF Foresees
<1>1. m <= k /\ \A s \in u.seq..m - 1 : s \in Nat /\ e[s] = d[s]
  <2>1. CASE e = d /\ k = m
    BY <1>a, <2>1
  <2>2. CASE k = m + 1 /\ e = Then(d, m, v.now)
    <3>1. \A s \in Nat : s # m => e[s] = d[s]
      <4>1. \A y \in Nat, s \in Nat : s # m => Then(d, m, y)[s] = d[s]
        BY ThenIs
      <4> QED BY <1>a, <2>2, <4>1
    <3>2. \A s \in u.seq..m - 1 : s \in Nat /\ s # m
      BY <1>a
    <3> QED BY <2>2, <3>1, <3>2
  <2> QED BY <2>1, <2>2 DEF Foresees
<1>2. ASSUME NEW s \in u.seq..m - 1, NEW i \in 1..Len(w), Exact(w[i], n, s, u, d)
      PROVE  i \in 1..Len(x) /\ Exact(x[i], n, s, u, e)
  BY <1>0, <1>1, <1>2 DEF Exact
<1>3. k = m \/ (k = m + 1 /\ v.seq = m /\ e[m] = v.now)
  <2>1. \A y \in Nat : Then(d, m, y)[m] = y
    BY ThenIs
  <2> QED BY <1>a, <2>1 DEF Foresees
<1>4. ASSUME e[v.seq] = v.now PROVE Exact(x[Len(w) + 1], n, v.seq, u, e)
  BY <1>0, <1>4 DEF Exact
<1>5. Announces(x, n, u, e, k, S)
  <2> SUFFICES ASSUME NEW s \in u.seq..k - 1
               PROVE  s \in S \/ \E i \in 1..Len(x) : Exact(x[i], n, s, u, e)
    BY DEF Announces
  <2>1. CASE s \in u.seq..m - 1
    <3>1. s \in S \/ \E i \in 1..Len(w) : Exact(w[i], n, s, u, d)
      BY <2>1 DEF OnItsWay, Announces
    <3> QED BY <1>2, <2>1, <3>1
  <2>2. CASE s \notin u.seq..m - 1
    <3>1. s = m /\ v.seq = m /\ e[m] = v.now
      BY <1>3, <1>a, <2>2
    <3> QED BY <1>0, <1>4, <3>1
  <2> QED BY <2>1, <2>2
<1>6. Obeys(x, n, u, e, k, lim, S)
  <2> SUFFICES ASSUME NEW j \in 1..Len(x), TxIs(x[j], n)
               PROVE  /\ u.seq <= x[j].seq
                      /\ x[j].period + u.now <= lim =>
                           /\ x[j].seq < k /\ e[x[j].seq] <= x[j].period + u.now
                           /\ x[j].seq \in S \/ \E i \in 1..j : Exact(x[i], n, x[j].seq, u, e)
    BY DEF Obeys
  <2>1. CASE j \in 1..Len(w)
    <3>1. x[j] = w[j] /\ \A i \in 1..j : i \in 1..Len(w) /\ x[i] = w[i]
      BY <1>0, <2>1
    <3>2. PICK r \in ClientPkt : r = w[j]
      BY <2>1
    <3>3. r.seq \in Nat
      BY <3>1, <3>2, ClientFields DEF TxIs
    <3>4. /\ u.seq <= r.seq
          /\ r.period + u.now <= lim =>
               /\ r.seq < m /\ d[r.seq] <= r.period + u.now
               /\ r.seq \in S \/ \E i \in 1..j : Exact(w[i], n, r.seq, u, d)
      BY <2>1, <3>1, <3>2 DEF OnItsWay, Obeys
    <3>5. ASSUME r.period + u.now <= lim
          PROVE  /\ r.seq < k /\ e[r.seq] <= r.period + u.now
                 /\ r.seq \in S \/ \E i \in 1..j : Exact(x[i], n, r.seq, u, e)
      <4>1. r.seq \in u.seq..m - 1
        BY <1>a, <3>3, <3>4, <3>5
      <4>2. e[r.seq] = d[r.seq] /\ r.seq < k
        BY <1>1, <3>3, <3>4, <3>5, <4>1
      <4>3. ASSUME NEW i \in 1..j, Exact(w[i], n, r.seq, u, d)
            PROVE  Exact(x[i], n, r.seq, u, e)
        BY <1>2, <3>1, <4>1, <4>3
      <4> QED BY <3>4, <3>5, <4>2, <4>3
    <3> QED BY <3>1, <3>2, <3>4, <3>5
  <2>2. CASE j = Len(w) + 1
    <3>1. x[j] = p /\ j \in 1..j
      BY <1>0, <2>2
    <3>2. ASSUME v.now <= lim
          PROVE  /\ v.seq < k /\ e[v.seq] <= v.now
                 /\ v.seq \in S \/ \E i \in 1..j : Exact(x[i], n, v.seq, u, e)
      <4>1. CASE v.seq < m /\ d[v.seq] <= v.now /\ e = d /\ k = m
        <5>1. v.seq \in u.seq..m - 1
          BY <1>a, <4>1
        <5>2. v.seq \in S \/ \E i \in 1..Len(w) : Exact(w[i], n, v.seq, u, d)
          BY <5>1 DEF OnItsWay, Announces
        <5>3. \A i \in 1..Len(w) : i \in 1..j
          BY <1>0, <2>2
        <5> QED BY <1>2, <4>1, <5>1, <5>2, <5>3
      <4>2. CASE v.seq = m /\ k = m + 1 /\ e = Then(d, m, v.now)
        <5>1. e[v.seq] = v.now
          <6>1. \A y \in Nat : Then(d, m, y)[m] = y
            BY ThenIs
          <6> QED BY <1>a, <4>2, <6>1
        <5>2. v.seq < k /\ e[v.seq] <= v.now
          BY <1>a, <4>2, <5>1
        <5> QED BY <1>4, <2>2, <3>1, <5>1, <5>2
      <4> QED BY <3>2, <4>1, <4>2 DEF Foresees
    <3>3. p.seq = v.seq /\ p.period + u.now = v.now
      OBVIOUS
    <3> QED BY <1>a, <3>1, <3>2, <3>3
  <2> QED BY <1>0, <2>1, <2>2
<1> QED BY <1>5, <1>6 DEF OnItsWay, x

\* The server takes the first packet of the queue, and the rendez-vous may
\* come nearer.
LEMMA TailOnItsWay ==
  ASSUME NEW w \in Seq(ClientPkt), w # <<>>, NEW n \in Nodes, NEW q, NEW u \in Air,
         NEW d \in Timeline, NEW m \in Nat, NEW lim \in Nat, NEW k \in u.seq..m,
         NEW new \in Nat, new <= lim, NEW S, NEW S2,
         OnItsWay(w, n, u, d, m, lim, S),
         \A s \in u.seq..m - 1 : d[s] <= new <=> s < k,
         \A s \in u.seq..k - 1 : s \in S => s \in S2,
         \A s \in u.seq..k - 1 : Exact(Head(w), n, s, u, d) => s \in S2
  PROVE  OnItsWay(Tail(w), n, u, d, k, new, S2)
<1> DEFINE x == Tail(w)
<1>0. /\ Len(x) = Len(w) - 1 /\ Len(w) \in Nat /\ Len(x) \in Nat /\ Head(w) = w[1]
      /\ \A i \in 1..Len(x) : x[i] = w[i + 1] /\ i + 1 \in 1..Len(w)
      /\ \A i \in 1..Len(w) : i # 1 => i - 1 \in 1..Len(x) /\ x[i - 1] = w[i]
  OBVIOUS
<1> HIDE DEF x
<1>a. u.seq \in Nat /\ k \in Nat /\ u.seq <= k /\ k <= m /\ u.now \in Nat
  BY AirFields
<1>1. \A s \in u.seq..k - 1 : s \in u.seq..m - 1 /\ s \in Nat
  BY <1>a
\* A byte of the shorter plan is still known or on its way, before position j.
<1>2. ASSUME NEW s \in u.seq..k - 1, NEW i \in 1..Len(w), Exact(w[i], n, s, u, d)
      PROVE  s \in S2 \/ (i # 1 /\ i - 1 \in 1..Len(x) /\ Exact(x[i - 1], n, s, u, d))
  <2>1. CASE i = 1
    BY <1>0, <1>2, <2>1
  <2>2. CASE i # 1
    BY <1>0, <1>2, <2>2
  <2> QED BY <2>1, <2>2
<1>3. Announces(x, n, u, d, k, S2)
  <2> SUFFICES ASSUME NEW s \in u.seq..k - 1
               PROVE  s \in S2 \/ \E i \in 1..Len(x) : Exact(x[i], n, s, u, d)
    BY DEF Announces
  <2>1. s \in S \/ \E i \in 1..Len(w) : Exact(w[i], n, s, u, d)
    BY <1>1 DEF OnItsWay, Announces
  <2> QED BY <1>2, <2>1
<1>4. Obeys(x, n, u, d, k, new, S2)
  <2> SUFFICES ASSUME NEW j \in 1..Len(x), TxIs(x[j], n)
               PROVE  /\ u.seq <= x[j].seq
                      /\ x[j].period + u.now <= new =>
                           /\ x[j].seq < k /\ d[x[j].seq] <= x[j].period + u.now
                           /\ x[j].seq \in S2 \/ \E i \in 1..j : Exact(x[i], n, x[j].seq, u, d)
    BY DEF Obeys
  <2>1. x[j] = w[j + 1] /\ j + 1 \in 1..Len(w) /\ j \in Nat
    BY <1>0
  <2>2. PICK r \in ClientPkt : r = x[j]
    BY <2>1
  <2>3. r.seq \in Nat /\ r.period \in Nat
    BY <2>2, ClientFields DEF TxIs
  <2>4. /\ u.seq <= r.seq
        /\ r.period + u.now <= lim =>
             /\ r.seq < m /\ d[r.seq] <= r.period + u.now
             /\ r.seq \in S \/ \E i \in 1..j + 1 : Exact(w[i], n, r.seq, u, d)
    BY <2>1, <2>2 DEF OnItsWay, Obeys
  <2>5. ASSUME r.period + u.now <= new
        PROVE  /\ r.seq < k /\ d[r.seq] <= r.period + u.now
               /\ r.seq \in S2 \/ \E i \in 1..j : Exact(x[i], n, r.seq, u, d)
    <3> DEFINE t == r.period + u.now
               s == r.seq
    <3>1. t \in Nat /\ t <= lim /\ s \in Nat
      BY <1>a, <2>3, <2>5
    <3>2. s < m /\ d[s] <= t /\ (s \in S \/ \E i \in 1..j + 1 : Exact(w[i], n, s, u, d))
      BY <2>4, <3>1
    <3>3. d[s] \in Nat
      BY <3>1, DateIs
    <3>4. t <= new /\ u.seq <= s
      BY <2>4, <2>5
    <3> HIDE DEF t, s
    <3>5. d[s] <= new
      BY <3>1, <3>2, <3>3, <3>4
    <3>6. s \in u.seq..m - 1
      BY <1>a, <3>1, <3>2, <3>4
    <3>7. s < k
      BY <3>5, <3>6
    <3>8. s \in u.seq..k - 1
      BY <1>a, <3>1, <3>4, <3>7
    <3>9. ASSUME NEW i \in 1..j + 1, Exact(w[i], n, s, u, d)
          PROVE  s \in S2 \/ \E l \in 1..j : Exact(x[l], n, s, u, d)
      <4>1. i \in 1..Len(w)
        BY <1>0, <2>1
      <4>2. s \in S2 \/ (i # 1 /\ i - 1 \in 1..Len(x) /\ Exact(x[i - 1], n, s, u, d))
        BY <1>2, <3>8, <3>9, <4>1
      <4>3. i # 1 => i - 1 \in 1..j
        BY <2>1
      <4> QED BY <4>2, <4>3
    <3> QED BY <3>2, <3>7, <3>8, <3>9 DEF t, s
  <2> QED BY <2>2, <2>4, <2>5
<1> QED BY <1>3, <1>4 DEF OnItsWay, x

-----------------------------------------------------------------------------
(* The bytes of a node and what the server knows of them: D are the numbers *)
(* of those it has delivered, E its events, g the global time, lim the date *)
(* of the rendez-vous on the clock of the node, w the queue of the server.  *)

\* The bytes before k are delivered, or on the air since g at the latest.
Settled(g, D, E, k) ==
  \A s \in Nat : s < k => s \in D \/ \E e \in E : e.seq = s /\ e.start <= g

\* An event is older than the saved state, or one of the plan, or it is the
\* first byte that follows it at once, or the radio was torn.
Foreseen(n, q, u, d, m, g, D, e) ==
  \/ e.seq < u.seq /\ e.start <= g
  \/ e.seq \in u.seq..m - 1 /\ e.start + u.now = g + d[e.seq]
  \/ e.seq = m /\ m = u.seq /\ e.start = g /\ Ready(n, q, u, d, m, u.now)
  \/ u.torn # 0 /\ (e.start <= g \/ e.seq \in D)

Noted(D, E) == D \cup {e.seq : e \in E}

\* What a node, the network and the server know until lim is one plan.
Story(n, q, u, v, d, m, lim, g, D, E, w) ==
  /\ Plan(n, q, u, v, d, m, lim)
  /\ OnItsWay(w, n, u, d, m, lim, Noted(D, E))
  /\ Settled(g, D, E, u.seq)
  /\ \A e \in E : Foreseen(n, q, u, d, m, g, D, e)
  /\ u.torn = 0 => \A s \in D : s < u.seq

\* When the rendez-vous is reached, every byte sent has begun.
Fulfilled(q, u, v, g, D, E) ==
  /\ Settled(g, D, E, v.seq)
  /\ \A e \in E : e.start <= g
  /\ v.torn = 0 =>
       /\ u.torn = 0 /\ \A s \in D : s < v.seq
       /\ \A e \in E : e.seq < v.seq \/ (e.seq = v.seq /\ e.start = g /\ Due(q, v))

NoTx(w, n) == \A i \in 1..Len(w) : ~ TxIs(w[i], n)

LEMMA EventIs ==
  ASSUME NEW e \in Transmission
  PROVE  e.node \in Nodes /\ e.seq \in Nat /\ e.start \in Nat /\ e.end \in Nat
BY DEF Transmission

\* The radio moves without sending.
LEMMA StoryMoves ==
  ASSUME NEW n, NEW q, NEW u, NEW v, NEW w, NEW d, NEW m, NEW lim, NEW g, NEW D, NEW E,
         NEW z, Story(n, q, u, v, d, m, lim, g, D, E, z), Plan(n, q, u, w, d, m, lim)
  PROVE  Story(n, q, u, w, d, m, lim, g, D, E, z)
BY DEF Story

\* Something else is written to the server.
LEMMA StoryWritten ==
  ASSUME NEW w \in Seq(ClientPkt), NEW p \in ClientPkt, NEW n, ~ TxIs(p, n), NEW q, NEW u,
         NEW v, NEW d, NEW m, NEW lim, NEW g, NEW D, NEW E,
         Story(n, q, u, v, d, m, lim, g, D, E, w)
  PROVE  Story(n, q, u, v, d, m, lim, g, D, E, Append(w, p))
<1>1. OnItsWay(w, n, u, d, m, lim, Noted(D, E))
  BY DEF Story
<1>2. OnItsWay(Append(w, p), n, u, d, m, lim, Noted(D, E))
  BY <1>1, OtherWritten
<1> QED BY <1>2 DEF Story

\* The node sends a byte.
LEMMA StorySend ==
  ASSUME NEW z \in Seq(ClientPkt), NEW p \in ClientPkt, NEW n \in Nodes, TxIs(p, n),
         NEW q \in Seq(Nat), Sorted(q), NEW u \in Air, NEW v \in Air, NEW w \in Air,
         NEW d \in Timeline, NEW m \in Nat, NEW lim \in Nat, NEW g \in Nat, NEW D,
         NEW E \in SUBSET Transmission,
         p.seq = v.seq, p.period + u.now = v.now, OnGrid(n, u, v.now), Due(q, v),
         Sending(n, v, w), Story(n, q, u, v, d, m, lim, g, D, E, z)
  PROVE  \E e \in Timeline, k \in Nat : Story(n, q, u, w, e, k, lim, g, D, E, Append(z, p))
<1>0. /\ v.now \in Nat /\ v.seq \in Nat /\ u.seq \in Nat /\ u.now \in Nat
      /\ u.seq <= m
  BY AirFields DEF Story, Plan, Planned
<1>1. PICK e \in Timeline, k \in Nat :
        Plan(n, q, u, w, e, k, lim) /\ Foresees(n, q, u, v, d, m, e, k, lim)
  BY SendPlan DEF Story
<1>2. OnItsWay(Append(z, p), n, u, e, k, lim, Noted(D, E))
  <2>1. OnItsWay(z, n, u, d, m, lim, Noted(D, E))
    BY DEF Story
  <2>2. v.now <= lim <=> ~ (lim < v.now)
    BY <1>0
  <2> HIDE DEF Noted
  <2> QED BY <1>1, <2>1, <2>2, OwnWritten
<1>3. \/ e = d /\ k = m
      \/ /\ k = m + 1 /\ e[m] = v.now /\ (Ready(n, q, u, d, m, u.now) => v.now = u.now)
         /\ \A s \in Nat : s # m => e[s] = d[s]
  <2>1. \A y \in Nat : /\ Then(d, m, y)[m] = y
                       /\ \A s \in Nat : s # m => Then(d, m, y)[s] = d[s]
    <3>1. \A y \in Nat : Then(d, m, y)[m] = y
      BY ThenIs
    <3>2. \A y \in Nat, s \in Nat : s # m => Then(d, m, y)[s] = d[s]
      BY ThenIs
    <3> QED BY <3>1, <3>2
  <2> QED BY <1>0, <1>1, <2>1 DEF Foresees
<1>4. ASSUME NEW f \in E
      PROVE  Foreseen(n, q, u, e, k, g, D, f)
  <2>0. Foreseen(n, q, u, d, m, g, D, f) /\ f.seq \in Nat /\ f.start \in Nat
    BY EventIs DEF Story
  <2>1. CASE e = d /\ k = m
    BY <2>0, <2>1
  <2>2. CASE /\ k = m + 1 /\ e[m] = v.now /\ (Ready(n, q, u, d, m, u.now) => v.now = u.now)
             /\ \A s \in Nat : s # m => e[s] = d[s]
    <3>1. CASE f.seq \in u.seq..m - 1 /\ f.start + u.now = g + d[f.seq]
      <4>1. f.seq # m /\ f.seq \in u.seq..k - 1
        BY <1>0, <2>0, <2>2, <3>1
      <4>2. e[f.seq] = d[f.seq]
        BY <2>0, <2>2, <4>1
      <4> QED BY <3>1, <4>1, <4>2 DEF Foreseen
    <3>2. CASE f.seq = m /\ m = u.seq /\ f.start = g /\ Ready(n, q, u, d, m, u.now)
      <4>1. f.seq \in u.seq..k - 1
        BY <1>0, <2>2, <3>2
      <4>2. f.start + u.now = g + e[f.seq]
        BY <2>2, <3>2
      <4> QED BY <4>1, <4>2 DEF Foreseen
    <3> QED BY <2>0, <3>1, <3>2 DEF Foreseen
  <2> QED BY <1>3, <2>1, <2>2
<1>5. Settled(g, D, E, u.seq) /\ (u.torn = 0 => \A s \in D : s < u.seq)
  BY DEF Story
<1>6. Story(n, q, u, w, e, k, lim, g, D, E, Append(z, p))
  BY <1>1, <1>2, <1>4, <1>5 DEF Story
<1> QED BY <1>6

\* The server takes packet p of n: it announces a byte that starts at e.start.
Starts(p, n, g, e) == TxIs(p, n) /\ e.seq = p.seq /\ e.start = g + p.period

\* The server reads a packet; r is the rendez-vous after it.
LEMMA StoryRead ==
  ASSUME NEW w \in Seq(ClientPkt), w # <<>>, NEW n \in Nodes, NEW q \in Seq(Nat),
         NEW u \in Air, NEW v \in Air, NEW d \in Timeline, NEW m \in Nat, NEW lim \in Nat,
         NEW new \in Nat, new <= lim, NEW g \in Nat, NEW r \in Nat, g <= r,
         u.now + r = new + g, NEW D,
         NEW E \in SUBSET Transmission, NEW F \in SUBSET Transmission,
         Story(n, q, u, v, d, m, lim, g, D, E, w),
         \A e \in E : e.start <= r => e \in F,
         \A e \in F : /\ e.start <= r
                      /\ e \in E \/ (Starts(Head(w), n, g, e) /\ \A f \in E : f.seq # e.seq),
         TxIs(Head(w), n) /\ Head(w).period + u.now <= new => Head(w).seq \in Noted(D, F)
  PROVE  \E k \in Nat : Story(n, q, u, v, d, k, new, g, D, F, Tail(w))
<1>0. /\ u.seq \in Nat /\ u.now \in Nat /\ u.seq <= m
      /\ Head(w) = w[1] /\ 1 \in 1..Len(w) /\ Head(w) \in ClientPkt
  BY AirFields DEF Story, Plan, Planned
<1>1. PICK k \in u.seq..m : /\ Plan(n, q, u, v, d, k, new)
                            /\ \A s \in u.seq..m - 1 : d[s] <= new <=> s < k
  BY CutPlan DEF Story
<1>2. k \in Nat /\ u.seq <= k /\ k <= m
  BY <1>0
\* What was known of the shorter plan is still known.
<1>3. ASSUME NEW s \in u.seq..k - 1, s \in Noted(D, E) PROVE s \in Noted(D, F)
  <2>1. CASE s \in D
    BY <2>1 DEF Noted
  <2>2. ASSUME NEW e \in E, e.seq = s PROVE s \in Noted(D, F)
    <3>0. /\ Foreseen(n, q, u, d, m, g, D, e) /\ e.start \in Nat /\ s \in Nat
          /\ u.seq <= s /\ s < k /\ s \in u.seq..m - 1
      BY <1>0, <1>2, EventIs DEF Story
    <3>1. s \in D \/ e.start <= r
      <4>1. d[s] <= new /\ d[s] \in Nat
        BY <1>1, <3>0, DateIs
      <4>2. CASE e.start + u.now = g + d[s]
        BY SMTT(20), <1>0, <3>0, <4>1, <4>2
      <4>3. CASE e.seq < u.seq \/ e.seq = m
        <5>1. s < u.seq \/ s = m
          BY <2>2, <4>3
        <5>2. \A a, b, c, y \in Nat : a <= y /\ y < b /\ b <= c => ~ (y < a) /\ y # c
          OBVIOUS
        <5>3. s \in Nat /\ u.seq <= s /\ s < k
          BY <3>0
        <5> HIDE DEF Noted
        <5> QED BY <1>0, <1>2, <5>1, <5>2, <5>3
      <4>4. CASE e.start <= g \/ e.seq \in D
        BY <2>2, <3>0, <4>4
      <4> QED BY <2>2, <3>0, <4>2, <4>3, <4>4 DEF Foreseen
    <3>2. e.start <= r => e \in F
      OBVIOUS
    <3> QED BY <2>2, <3>1, <3>2 DEF Noted
  <2> QED BY <1>3, <2>1, <2>2 DEF Noted
<1>4. OnItsWay(Tail(w), n, u, d, k, new, Noted(D, F))
  <2>1. OnItsWay(w, n, u, d, m, lim, Noted(D, E))
    BY DEF Story
  <2>2. ASSUME NEW s \in u.seq..k - 1, Exact(Head(w), n, s, u, d)
        PROVE  s \in Noted(D, F)
    <3>1. s \in u.seq..m - 1 /\ s < k
      BY <1>0, <1>2
    <3>2. d[s] <= new
      BY <1>1, <3>1
    <3> QED BY <2>2, <3>2 DEF Exact
  <2> HIDE DEF Noted
  <2> QED BY <1>1, <1>3, <2>1, <2>2, TailOnItsWay
<1>5. Settled(g, D, F, u.seq)
  <2> SUFFICES ASSUME NEW s \in Nat, s < u.seq
               PROVE  s \in D \/ \E e \in F : e.seq = s /\ e.start <= g
    BY DEF Settled
  <2>1. s \in D \/ \E e \in E : e.seq = s /\ e.start <= g
    BY DEF Story, Settled
  <2>2. ASSUME NEW e \in E, e.start <= g PROVE e \in F
    BY <2>2, EventIs
  <2> QED BY <2>1, <2>2
<1>6. ASSUME NEW e \in F PROVE Foreseen(n, q, u, d, k, g, D, e)
  <2>0. e.seq \in Nat /\ e.start \in Nat /\ e.start <= r
    BY EventIs
  <2>a. ASSUME e.seq \in u.seq..m - 1, e.start + u.now = g + d[e.seq]
        PROVE  e.seq \in u.seq..k - 1
    <3>1. d[e.seq] \in Nat
      BY <2>0, DateIs
    <3>2. d[e.seq] <= new
      <4> DEFINE y == e.start
                 z == d[e.seq]
                 a == u.now
      <4>1. /\ y \in Nat /\ z \in Nat /\ a \in Nat /\ y <= r /\ y + a = g + z
            /\ a + r = new + g
        BY <1>0, <2>0, <2>a, <3>1
      <4> HIDE DEF y, z, a
      <4>2. z <= new
        BY <4>1
      <4> QED BY <4>2 DEF z
    <3>3. e.seq < k
      BY <1>1, <2>a, <3>2
    <3> QED BY <2>a, <3>3, <1>0, <1>2, <2>0
  <2>1. CASE e \in E
    <3>1. Foreseen(n, q, u, d, m, g, D, e)
      BY <2>1 DEF Story
    <3>2. CASE e.seq < u.seq /\ e.start <= g
      BY <3>2 DEF Foreseen
    <3>3. CASE e.seq \in u.seq..m - 1 /\ e.start + u.now = g + d[e.seq]
      BY <2>a, <3>3 DEF Foreseen
    <3>4. CASE e.seq = m /\ m = u.seq /\ e.start = g /\ Ready(n, q, u, d, m, u.now)
      <4>1. k = m
        BY <1>0, <1>2, <3>4
      <4> QED BY <3>4, <4>1 DEF Foreseen
    <3>5. CASE u.torn # 0 /\ (e.start <= g \/ e.seq \in D)
      BY <3>5 DEF Foreseen
    <3> QED BY <3>1, <3>2, <3>3, <3>4, <3>5 DEF Foreseen
  <2>2. CASE Starts(Head(w), n, g, e) /\ \A f \in E : f.seq # e.seq
    <3> DEFINE s == e.seq
               x == Head(w).period + u.now
    <3>0. TxIs(w[1], n) /\ w[1].seq = s /\ e.start = g + w[1].period /\ w[1].period \in Nat
      BY <1>0, <2>2, ClientFields DEF Starts, TxIs
    <3>1. x <= lim
      <4>1. x <= new
        BY SMTT(20), <1>0, <2>0, <3>0
      <4> QED BY SMTT(20), <1>0, <3>0, <4>1
    <3>2. /\ u.seq <= s /\ s < m /\ d[s] <= x
          /\ s \in Noted(D, E) \/ \E i \in 1..1 : Exact(w[i], n, s, u, d)
      <4>1. Obeys(w, n, u, d, m, lim, Noted(D, E))
        BY DEF Story, OnItsWay
      <4> HIDE DEF Noted
      <4> QED BY <1>0, <3>0, <3>1, <4>1 DEF Obeys
    <3>3. CASE Exact(w[1], n, s, u, d)
      <4>1. e.start + u.now = g + d[s]
        BY SMTT(20), <1>0, <3>0, <3>3, <2>0 DEF Exact
      <4>2. s \in u.seq..m - 1
        BY <1>0, <2>0, <3>2
      <4> QED BY <2>a, <4>1, <4>2 DEF Foreseen
    <3>4. CASE s \in Noted(D, E)
      <4>1. s \in D
        BY <2>2, <3>4 DEF Noted
      <4>2. u.torn # 0
        <5>1. u.torn = 0 => s < u.seq
          BY <4>1 DEF Story
        <5> QED BY <1>0, <2>0, <3>2, <5>1
      <4> QED BY <4>1, <4>2 DEF Foreseen
    <3>5. \A i \in 1..1 : i = 1
      OBVIOUS
    <3> QED BY <3>2, <3>3, <3>4, <3>5
  <2> QED BY <2>1, <2>2
<1>7. Story(n, q, u, v, d, k, new, g, D, F, Tail(w))
  <2>1. u.torn = 0 => \A s \in D : s < u.seq
    BY DEF Story
  <2> QED BY <1>1, <1>4, <1>5, <1>6, <2>1 DEF Story
<1> QED BY <1>2, <1>7

\* The node is released: its state is saved.
LEMMA StoryFresh ==
  ASSUME NEW w \in Seq(ClientPkt), NEW n \in Nodes, NEW q \in Seq(Nat), NEW u, NEW v \in Air,
         NEW d \in Timeline, NEW lim \in Nat, NEW g \in Nat, NEW D \in SUBSET Nat,
         NEW E \in SUBSET Transmission, Fulfilled(q, u, v, g, D, E), NoTx(w, n)
  PROVE  Story(n, q, v, v, d, v.seq, lim, g, D, E, w)
<1>0. v.seq \in Nat /\ v.byte \in Nat /\ v.now \in Nat /\ v.timer \in Nat
  BY AirFields
<1>1. Plan(n, q, v, v, d, v.seq, lim)
  BY FreshPlan
<1>2. OnItsWay(w, n, v, d, v.seq, lim, Noted(D, E))
  <2>1. Announces(w, n, v, d, v.seq, Noted(D, E))
    <3>1. v.seq..v.seq - 1 = {}
      BY <1>0
    <3> QED BY <3>1 DEF Announces
  <2>2. Obeys(w, n, v, d, v.seq, lim, Noted(D, E))
    BY DEF Obeys, NoTx
  <2> QED BY <2>1, <2>2 DEF OnItsWay
<1>3. Settled(g, D, E, v.seq)
  BY DEF Fulfilled
<1>4. ASSUME NEW e \in E PROVE Foreseen(n, q, v, d, v.seq, g, D, e)
  <2>0. e.start <= g /\ e.seq \in Nat
    BY EventIs DEF Fulfilled
  <2>1. CASE v.torn # 0
    BY <2>0, <2>1 DEF Foreseen
  <2>2. CASE v.torn = 0
    <3>1. e.seq < v.seq \/ (e.seq = v.seq /\ e.start = g /\ Due(q, v))
      BY <2>2 DEF Fulfilled
    <3>2. ASSUME Due(q, v) PROVE Ready(n, q, v, d, v.seq, v.now)
      <4>1. v.byte + (v.seq - v.seq) + 1 = v.byte + 1
        BY <1>0
      <4>2. TimerAt(n, v, d, v.seq) = v.timer
        BY DEF TimerAt
      <4>3. v.byte + 1 <= Len(q)
        BY <1>0, <3>2 DEF Due
      <4>4. v.byte + 1 \in 1..Len(q)
        BY <1>0, <4>3
      <4>5. q[v.byte + 1] \in Nat
        BY <4>4
      <4>6. q[v.byte + 1] <= v.now /\ v.timer <= v.now
        BY <1>0, <3>2, <4>5 DEF Due
      <4> QED BY <4>1, <4>2, <4>3, <4>6 DEF Ready
    <3> QED BY <2>0, <3>1, <3>2 DEF Foreseen
  <2> QED BY <2>1, <2>2
<1>5. v.torn = 0 => \A s \in D : s < v.seq
  BY DEF Fulfilled
<1> QED BY <1>1, <1>2, <1>3, <1>4, <1>5 DEF Story

\* The barrier opens at date r, when the clock of the node has passed lim and
\* its last byte has left until lim.
LEMMA StoryEnds ==
  ASSUME NEW w \in Seq(ClientPkt), NEW n \in Nodes, NEW q \in Seq(Nat), NEW u \in Air,
         NEW v \in Air, NEW d \in Timeline, NEW m \in Nat, NEW lim \in Nat, NEW g \in Nat,
         NEW r \in Nat, g <= r, u.now + r = lim + g, NEW D \in SUBSET Nat,
         NEW E \in SUBSET Transmission, Story(n, q, u, v, d, m, lim, g, D, E, w), NoTx(w, n),
         lim <= v.now, v.timer - ByteTime[n] <= lim, OnGrid(n, u, v.now),
         0 <= u.torn, u.torn <= v.torn, \A e \in E : e.start <= r
  PROVE  Fulfilled(q, u, v, r, D, E)
<1>0. /\ v.now \in Nat /\ v.seq \in Nat /\ u.seq \in Nat /\ u.now \in Nat /\ u.byte \in Nat
      /\ u.torn \in Int /\ v.torn \in Int
  BY AirFields
<1>1. Planned(n, q, u, d, m, lim) /\ InPlan(n, q, u, v, d, m, lim)
  BY NotAhead DEF Story, Plan
<1>2. u.seq <= v.seq /\ v.seq <= m
  BY <1>1 DEF InPlan
<1>3. Settled(r, D, E, v.seq)
  <2> SUFFICES ASSUME NEW s \in Nat, s < v.seq
               PROVE  s \in D \/ \E e \in E : e.seq = s /\ e.start <= r
    BY DEF Settled
  <2>1. CASE s < u.seq
    <3>1. s \in D \/ \E e \in E : e.seq = s
      BY <2>1 DEF Story, Settled
    <3> QED BY <3>1
  <2>2. CASE ~ (s < u.seq)
    <3>1. s \in u.seq..m - 1
      BY <1>0, <1>2, <2>2
    <3>2. s \in Noted(D, E) \/ \E i \in 1..Len(w) : Exact(w[i], n, s, u, d)
      <4> HIDE DEF Noted
      <4> QED BY <3>1 DEF Story, OnItsWay, Announces
    <3>3. \A i \in 1..Len(w) : ~ Exact(w[i], n, s, u, d)
      BY DEF NoTx, Exact
    <3> QED BY <3>2, <3>3 DEF Noted
  <2> QED BY <2>1, <2>2
<1>4. ASSUME v.torn = 0
      PROVE  /\ u.torn = 0 /\ \A s \in D : s < v.seq
             /\ \A e \in E : e.seq < v.seq \/ (e.seq = v.seq /\ e.start = r /\ Due(q, v))
  <2>1. u.torn = 0 /\ ~ (v.torn > u.torn)
    BY <1>0, <1>4
  <2>2. OnBase(n, q, u, v, d)
    BY <1>1, <2>1 DEF InPlan
  <2>a. ASSUME NEW x \in Nat, OnGrid(n, u, x), Ready(n, q, u, d, v.seq, x), x <= lim
        PROVE  v.now = x /\ lim = x /\ Due(q, v)
    <3>1. v.now <= x
      BY <1>0, <1>2, <2>2, <2>a, FirstReady DEF OnBase
    <3>2. v.now = x /\ lim = x
      BY <1>0, <2>a, <3>1
    <3>3. Due(q, v)
      BY <1>2, <2>2, <2>a, <3>2, ReadyDue DEF OnBase
    <3> QED BY <3>2, <3>3
  <2>3. ASSUME NEW s \in D PROVE s < v.seq
    <3>1. s < u.seq
      BY <2>1, <2>3 DEF Story
    <3>2. u.torn = 0 => \A y \in D : y < u.seq
      BY DEF Story
    <3> QED BY <1>0, <1>2, <3>1
  <2>4. ASSUME NEW e \in E
        PROVE  e.seq < v.seq \/ (e.seq = v.seq /\ e.start = r /\ Due(q, v))
    <3>0. /\ Foreseen(n, q, u, d, m, g, D, e) /\ e.seq \in Nat /\ e.start \in Nat
          /\ e.start <= r
      BY EventIs DEF Story
    <3>1. CASE e.seq < u.seq
      BY <1>0, <1>2, <3>0, <3>1
    <3>2. CASE e.seq \in u.seq..m - 1 /\ e.start + u.now = g + d[e.seq]
      <4> SUFFICES ASSUME ~ (e.seq < v.seq)
                   PROVE  e.seq = v.seq /\ e.start = r /\ Due(q, v)
        OBVIOUS
      <4>1. v.seq \in u.seq..m - 1 /\ v.seq <= e.seq
        BY SMTT(20), <1>0, <1>2, <3>0, <3>2
      <4>2. /\ OnGrid(n, u, d[v.seq]) /\ d[v.seq] <= lim
            /\ Ready(n, q, u, d, v.seq, d[v.seq]) /\ d[v.seq] \in Nat
        BY <1>0, <1>1, <4>1, DateIs DEF Planned
      <4>3. v.now = d[v.seq] /\ lim = d[v.seq] /\ Due(q, v)
        BY <2>a, <4>2
      <4>4. e.seq = v.seq
        <5>1. d[e.seq] <= lim /\ \A y \in u.seq..e.seq - 1 : d[y] < d[e.seq]
          BY <1>1, <3>2 DEF Planned
        <5>2. ASSUME v.seq < e.seq PROVE d[v.seq] < d[e.seq]
          <6>1. v.seq \in u.seq..e.seq - 1
            BY <1>0, <1>2, <3>0, <5>2
          <6> QED BY <5>1, <6>1
        <5>3. d[e.seq] \in Nat
          BY <3>0, DateIs
        <5> QED BY SMTT(20), <1>0, <3>0, <4>1, <4>3, <5>1, <5>2, <5>3
      <4>5. e.start + u.now = g + lim
        BY <3>2, <4>3, <4>4
      <4>6. e.start = r
        BY <1>0, <3>0, <4>5
      <4> QED BY <4>3, <4>4, <4>6
    <3>3. CASE e.seq = m /\ m = u.seq /\ e.start = g /\ Ready(n, q, u, d, m, u.now)
      <4>1. v.seq = m
        BY <1>0, <1>2, <3>3
      <4>2. OnGrid(n, u, u.now) /\ u.now <= lim
        BY <1>0, GridBase
      <4>3. v.now = u.now /\ lim = u.now /\ Due(q, v)
        BY <1>0, <2>a, <3>3, <4>1, <4>2
      <4>4. g = r
        BY <1>0, <4>3
      <4> QED BY <3>3, <4>1, <4>3, <4>4
    <3> QED BY <2>1, <3>0, <3>1, <3>2, <3>3 DEF Foreseen
  <2> QED BY <2>1, <2>3, <2>4
<1> QED BY <1>3, <1>4 DEF Fulfilled

\* The server delivers a byte of the node, or one of another node.
LEMMA FulfilledHands ==
  ASSUME NEW q, NEW u, NEW v \in Air, NEW g, NEW D, NEW E \in SUBSET Transmission,
         Fulfilled(q, u, v, g, D, E), NEW e \in E, e.start # g
  PROVE  Fulfilled(q, u, v, g, D \cup {e.seq}, E \ {e})
<1>1. Settled(g, D \cup {e.seq}, E \ {e}, v.seq)
  BY DEF Fulfilled, Settled
<1>2. \A f \in E \ {e} : f.start <= g
  BY DEF Fulfilled
<1>3. v.torn = 0 => e.seq < v.seq
  BY DEF Fulfilled
<1> QED BY <1>1, <1>2, <1>3 DEF Fulfilled

-----------------------------------------------------------------------------
(* The radio of machine b, when the thread of n is at l: inside            *)
(* worldsens1_c_tx one half of the driver has run, and the other will.     *)

TakenBy(n, l, b) == b.byte + (IF l = "tx" /\ Radio[n] = "cc2420" THEN 1 ELSE 0)
Logged(n, l, b) == Len(b.sent) + (IF l = "tx" /\ Radio[n] = "cc1100" THEN 1 ELSE 0)

AirOf(n, l, b) ==
  [now   |-> b.now, seq |-> b.tx_pkt_seq, byte |-> TakenBy(n, l, b),
   timer |-> IF l = "tx" THEN b.now + ByteTime[n] ELSE b.io_timer,
   torn  |-> IF Radio[n] = "cc1100" THEN Logged(n, l, b) - TakenBy(n, l, b)
                                    ELSE TakenBy(n, l, b) - Logged(n, l, b)]

\* Air v becomes w after an instruction.
Ticks(n, v, w) ==
  /\ w.now = v.now + Quantum[n] /\ w.seq = v.seq /\ w.byte = v.byte
  /\ w.timer = v.timer /\ w.torn = v.torn

LEMMA RadioIs ==
  ASSUME NEW n \in Nodes
  PROVE  Radio[n] = "cc1100" \/ Radio[n] = "cc2420"
<1>1. Radio[n] \in {"cc1100", "cc2420"}
  BY ClientAssumption
<1> QED BY <1>1

LEMMA AirFieldsOf ==
  ASSUME NEW n \in Nodes, NEW l, NEW b \in Machine
  PROVE  /\ AirOf(n, l, b) \in Air
         /\ AirOf(n, l, b).now = b.now /\ AirOf(n, l, b).seq = b.tx_pkt_seq
         /\ l # "tx" => /\ AirOf(n, l, b).byte = b.byte /\ AirOf(n, l, b).timer = b.io_timer
                        /\ Radio[n] = "cc1100" => AirOf(n, l, b).torn = Len(b.sent) - b.byte
                        /\ Radio[n] = "cc2420" => AirOf(n, l, b).torn = b.byte - Len(b.sent)
         /\ l = "tx" =>
              /\ AirOf(n, l, b).timer = b.now + ByteTime[n]
              /\ Radio[n] = "cc1100" => /\ AirOf(n, l, b).byte = b.byte
                                        /\ AirOf(n, l, b).torn = (Len(b.sent) + 1) - b.byte
              /\ Radio[n] = "cc2420" => /\ AirOf(n, l, b).byte = b.byte + 1
                                        /\ AirOf(n, l, b).torn = (b.byte + 1) - Len(b.sent)
<1>1. /\ b.now \in Nat /\ b.tx_pkt_seq \in Nat /\ b.byte \in Nat /\ b.io_timer \in Nat
      /\ Len(b.sent) \in Nat /\ ByteTime[n] \in Nat
  BY MachineFields, ByteTimeIs
<1>2. Radio[n] = "cc1100" \/ Radio[n] = "cc2420"
  BY RadioIs
<1>3. TakenBy(n, l, b) = IF l = "tx" /\ Radio[n] = "cc2420" THEN b.byte + 1 ELSE b.byte
  BY <1>1 DEF TakenBy
<1>4. Logged(n, l, b) = IF l = "tx" /\ Radio[n] = "cc1100" THEN Len(b.sent) + 1 ELSE Len(b.sent)
  <2> DEFINE k == Len(b.sent)
  <2>1. k + 0 = k
    BY <1>1
  <2> HIDE DEF k
  <2>2. CASE l = "tx" /\ Radio[n] = "cc1100"
    BY <2>2 DEF Logged, k
  <2>3. CASE ~ (l = "tx" /\ Radio[n] = "cc1100")
    BY <2>1, <2>3 DEF Logged, k
  <2> QED BY <2>2, <2>3
<1>5. TakenBy(n, l, b) \in Nat /\ Logged(n, l, b) \in Nat
  BY <1>1, <1>3, <1>4
<1>6. AirOf(n, l, b) \in Air
  BY <1>1, <1>5 DEF AirOf, Air
<1> QED BY <1>2, <1>3, <1>4, <1>6 DEF AirOf

\* The same radio at the same time.
LEMMA AirSame ==
  ASSUME NEW n \in Nodes, NEW l, NEW k, NEW b \in Machine, NEW c \in Machine,
         SameRadio(b, c), c.now = b.now, l = "tx" <=> k = "tx"
  PROVE  AirOf(n, k, c) = AirOf(n, l, b)
<1>1. TakenBy(n, k, c) = TakenBy(n, l, b) /\ Logged(n, k, c) = Logged(n, l, b)
  BY DEF SameRadio, TakenBy, Logged
<1> QED BY <1>1 DEF AirOf, SameRadio

LEMMA AirTicks ==
  ASSUME NEW n \in Nodes, NEW l, NEW k, NEW b \in Machine, NEW c \in Machine,
         SameRadio(b, c), c.now = b.now + Quantum[n], l # "tx", k # "tx"
  PROVE  Ticks(n, AirOf(n, l, b), AirOf(n, k, c))
<1>1. TakenBy(n, k, c) = TakenBy(n, l, b) /\ Logged(n, k, c) = Logged(n, l, b)
  BY DEF SameRadio, TakenBy, Logged
<1> QED BY <1>1 DEF AirOf, SameRadio, Ticks

LEMMA AirDue ==
  ASSUME NEW n \in Nodes, NEW l, l # "tx", NEW b \in Machine
  PROVE  Due(prog[n], AirOf(n, l, b)) <=> TxDue(n, b)
<1>1. /\ AirOf(n, l, b).now = b.now /\ AirOf(n, l, b).byte = b.byte
      /\ AirOf(n, l, b).timer = b.io_timer
  BY AirFieldsOf
<1> QED BY <1>1 DEF Due, TxDue

LEMMA BeforeTxRadio ==
  ASSUME NEW n \in Nodes, NEW b \in Machine
  PROVE  LET c == BeforeTx(n, b) IN
         /\ Radio[n] = "cc1100" => c.byte = b.byte + 1 /\ c.sent = b.sent
         /\ Radio[n] = "cc2420" => c.byte = b.byte /\ Len(c.sent) = Len(b.sent) + 1
<1>1. b.sent \in Seq(Nat) /\ b.byte \in Nat
  BY MachineFields
<1>2. Len(Append(b.sent, b.byte + 1)) = Len(b.sent) + 1
  BY <1>1
<1>3. CASE Radio[n] = "cc1100"
  BY <1>3 DEF BeforeTx, Machine
<1>4. CASE Radio[n] = "cc2420"
  <2>1. BeforeTx(n, b) = [b EXCEPT !.sent = Append(@, b.byte + 1)]
    BY <1>4 DEF BeforeTx
  <2>2. BeforeTx(n, b).byte = b.byte /\ BeforeTx(n, b).sent = Append(b.sent, b.byte + 1)
    BY <2>1 DEF Machine
  <2> QED BY <1>2, <1>4, <2>2
<1> QED BY <1>3, <1>4, RadioIs

\* The machine once worldsens1_c_tx has sent the byte.
CallsTx(b) == [b EXCEPT !.tx_pkt_seq = @ + 1, !.tx_backtracked = TRUE]

\* The driver calls worldsens1_c_tx.
LEMMA AirSends ==
  ASSUME NEW n \in Nodes, NEW b \in Machine, NEW l, l # "tx", NEW c \in Machine,
         c = CallsTx(BeforeTx(n, b))
  PROVE  Sending(n, AirOf(n, l, b), AirOf(n, "tx", c))
<1> DEFINE a == BeforeTx(n, b)
<1>1. a \in Machine /\ a.now = b.now /\ a.tx_pkt_seq = b.tx_pkt_seq
  BY BeforeTxEffect DEF SameMoment, SameView
<1>2. /\ Radio[n] = "cc1100" => a.byte = b.byte + 1 /\ a.sent = b.sent
      /\ Radio[n] = "cc2420" => a.byte = b.byte /\ Len(a.sent) = Len(b.sent) + 1
  BY BeforeTxRadio
<1> HIDE DEF a
<1>3. /\ c.now = a.now /\ c.tx_pkt_seq = a.tx_pkt_seq + 1
      /\ c.byte = a.byte /\ c.sent = a.sent
  BY <1>1, SentEffect DEF SameMoment, SameView, a, CallsTx
<1>4. b.byte \in Nat /\ Len(b.sent) \in Nat /\ b.tx_pkt_seq \in Nat
  BY MachineFields
<1> DEFINE v == AirOf(n, l, b)
           w == AirOf(n, "tx", c)
<1>5. w.now = v.now /\ w.seq = v.seq + 1 /\ w.timer = v.now + ByteTime[n]
  <2>1. v.now = b.now /\ v.seq = b.tx_pkt_seq
    BY AirFieldsOf
  <2>2. w.now = c.now /\ w.seq = c.tx_pkt_seq /\ w.timer = c.now + ByteTime[n]
    BY AirFieldsOf
  <2> HIDE DEF v, w
  <2> QED BY <1>1, <1>3, <2>1, <2>2
<1>6. CASE Radio[n] = "cc1100"
  <2>1. v.byte = b.byte /\ v.torn = Len(b.sent) - b.byte
    BY <1>6, AirFieldsOf
  <2>2. w.byte = c.byte /\ w.torn = (Len(c.sent) + 1) - c.byte
    <3>1. AirOf(n, "tx", c).byte = c.byte /\ AirOf(n, "tx", c).torn = (Len(c.sent) + 1) - c.byte
      BY <1>6, AirFieldsOf
    <3> QED BY <3>1
  <2>3. c.byte = b.byte + 1 /\ c.sent = b.sent
    BY <1>2, <1>3, <1>6
  <2> HIDE DEF v, w
  <2>4. w.byte = v.byte + 1 /\ w.torn = v.torn
    BY <1>4, <2>1, <2>2, <2>3
  <2> QED BY <1>5, <2>4 DEF Sending, v, w
<1>7. CASE Radio[n] = "cc2420"
  <2>1. v.byte = b.byte /\ v.torn = b.byte - Len(b.sent)
    BY <1>7, AirFieldsOf
  <2>2. w.byte = c.byte + 1 /\ w.torn = (c.byte + 1) - Len(c.sent)
    BY <1>7, AirFieldsOf
  <2>3. c.byte = b.byte /\ Len(c.sent) = Len(b.sent) + 1
    BY <1>2, <1>3, <1>7
  <2> HIDE DEF v, w
  <2>4. w.byte = v.byte + 1 /\ w.torn = v.torn
    BY <1>4, <2>1, <2>2, <2>3
  <2> QED BY <1>5, <2>4 DEF Sending, v, w
<1> QED BY <1>6, <1>7, RadioIs

\* It returns: nothing more happens in the air.
LEMMA AirReturns ==
  ASSUME NEW n \in Nodes, NEW b \in Machine, NEW k \in Nat, NEW l, l # "tx"
  PROVE  /\ AirOf(n, l, AfterTx(n, b, k)) = AirOf(n, "tx", b)
         /\ ~ TxDue(n, AfterTx(n, b, k))
<1> DEFINE c == AfterTx(n, b, k)
<1>1. /\ c \in Machine /\ c.now = b.now /\ c.tx_pkt_seq = b.tx_pkt_seq
      /\ c.io_timer = b.now + ByteTime[n]
  BY AfterTxEffect DEF SameMoment, SameView
<1>2. b.byte \in Nat /\ b.sent \in Seq(Nat) /\ b.now \in Nat
  BY MachineFields
<1>5. AirOf(n, l, c) = AirOf(n, "tx", b)
  <2>1. TakenBy(n, l, c) = TakenBy(n, "tx", b) /\ Logged(n, l, c) = Logged(n, "tx", b)
    <3>1. CASE Radio[n] = "cc1100"
      <4>1. c = [b EXCEPT !.sent = Append(@, k), !.io_timer = b.now + ByteTime[n]]
        BY <3>1 DEF AfterTx
      <4>2. c.byte = b.byte /\ c.sent = Append(b.sent, k)
        BY <4>1 DEF Machine
      <4>3. Len(c.sent) = Len(b.sent) + 1 /\ Len(b.sent) \in Nat
        BY <1>2, <4>2
      <4> HIDE DEF c
      <4> QED BY <3>1, <4>2, <4>3 DEF TakenBy, Logged
    <3>2. CASE Radio[n] = "cc2420"
      <4>1. c = [b EXCEPT !.io_timer = b.now + ByteTime[n], !.byte = @ + 1]
        BY <3>2 DEF AfterTx
      <4>2. c.byte = b.byte + 1 /\ c.sent = b.sent
        BY <4>1 DEF Machine
      <4> HIDE DEF c
      <4> QED BY <1>2, <3>2, <4>2 DEF TakenBy, Logged
    <3> QED BY <3>1, <3>2, RadioIs
  <2> HIDE DEF c
  <2> QED BY <1>1, <2>1 DEF AirOf
<1>6. ~ TxDue(n, c)
  <2>1. c.now < c.io_timer
    BY <1>1, <1>2, ByteTimeIs
  <2>2. c.now \in Nat /\ c.io_timer \in Nat
    BY <1>1, MachineFields
  <2> QED BY <2>1, <2>2 DEF TxDue
<1> QED BY <1>5, <1>6

\* The saved machine is put back while the driver is inside worldsens1_c_tx.
LEMMA AirTorn ==
  ASSUME NEW n \in Nodes, NEW s \in Machine, NEW c \in Machine, SameRadio(s, c),
         c.now = s.now, NEW l, l # "tx", s.io_timer <= s.now + ByteTime[n]
  PROVE  LET u == AirOf(n, l, s)
             w == AirOf(n, "tx", c)
         IN  /\ w.now = u.now /\ w.seq = u.seq /\ w.byte >= u.byte /\ w.timer >= u.timer
             /\ w.torn > u.torn /\ w.timer = w.now + ByteTime[n]
<1> DEFINE u == AirOf(n, l, s)
           w == AirOf(n, "tx", c)
<1>1. /\ c.byte = s.byte /\ c.sent = s.sent /\ c.tx_pkt_seq = s.tx_pkt_seq
      /\ s.byte \in Nat /\ Len(s.sent) \in Nat /\ s.now \in Nat /\ s.io_timer \in Nat
      /\ ByteTime[n] \in Nat
  BY MachineFields, ByteTimeIs DEF SameRadio
<1>2. /\ w.now = u.now /\ w.seq = u.seq /\ w.timer >= u.timer
      /\ w.timer = w.now + ByteTime[n]
  BY <1>1, AirFieldsOf
<1>3. CASE Radio[n] = "cc1100"
  <2>1. u.byte = s.byte /\ u.torn = Len(s.sent) - s.byte
    BY <1>3, AirFieldsOf
  <2>2. w.byte = s.byte /\ w.torn = (Len(s.sent) + 1) - s.byte
    BY <1>1, <1>3, AirFieldsOf
  <2> HIDE DEF u, w
  <2>3. w.byte >= u.byte /\ w.torn > u.torn
    BY <1>1, <2>1, <2>2
  <2> QED BY <1>2, <2>3 DEF u, w
<1>4. CASE Radio[n] = "cc2420"
  <2>1. u.byte = s.byte /\ u.torn = s.byte - Len(s.sent)
    BY <1>4, AirFieldsOf
  <2>2. w.byte = s.byte + 1 /\ w.torn = (s.byte + 1) - Len(s.sent)
    BY <1>1, <1>4, AirFieldsOf
  <2> HIDE DEF u, w
  <2>3. w.byte >= u.byte /\ w.torn > u.torn
    BY <1>1, <2>1, <2>2
  <2> QED BY <1>2, <2>3 DEF u, w
<1> QED BY <1>3, <1>4, RadioIs

\* Air w is that of the saved state u, put back in the middle of a byte.
TornFrom(n, u, w) ==
  /\ w.now = u.now /\ w.seq = u.seq /\ w.byte >= u.byte /\ w.timer >= u.timer
  /\ w.torn > u.torn /\ w.timer = w.now + ByteTime[n]

\* A node whose last rendez-vous was at date r parses packet m with air x and
\* saved air u: they become w and t.
Hears(n, m, r, u, x, t, w) ==
  \/ /\ m.type = "BACKTRACK" /\ t = u
     /\ IF x.now > r + m.period THEN w = u \/ TornFrom(n, u, w) ELSE w = x
  \/ m.type \in ReleaseTypes /\ t = x /\ w = x
  \/ m.type = "RX" /\ t = u /\ w = x

LEMMA HearsIs ==
  ASSUME NEW n \in Nodes, NEW b \in Machine, NEW s \in Machine, NEW m \in McastPkt,
         NEW c \in Machine, NEW t \in Machine, ParsedTo(n, b, s, m, c, t),
         m.type \in ReleaseTypes => m.c_rp_seq = b.rp_seq,
         NEW l, NEW k, l # "tx", k # "tx"
  PROVE  Hears(n, m, b.last_rp, AirOf(n, "run", s), AirOf(n, l, b),
               AirOf(n, "run", t), AirOf(n, k, c))
<1>0. AirOf(n, l, b).now = b.now
  BY AirFieldsOf
<1>1. m.type \in {"BACKTRACK", "SYNCH_REQ", "RX", "SYNCH_REQ_RX"}
  BY McastFields
<1>2. CASE m.type = "BACKTRACK"
  <2>1. t = s /\ Moved(IF b.now > b.last_rp + m.period THEN s ELSE b, m, c)
    BY <1>2 DEF ParsedTo, ReleaseTypes
  <2>2. CASE b.now > b.last_rp + m.period
    <3>1. c.now = s.now /\ SameRadio(s, c)
      BY <2>1, <2>2 DEF Moved
    <3>2. AirOf(n, k, c) = AirOf(n, "run", s)
      BY <3>1, AirSame
    <3> QED BY <1>0, <1>2, <2>1, <2>2, <3>2 DEF Hears
  <2>3. CASE ~ (b.now > b.last_rp + m.period)
    <3>1. c.now = b.now /\ SameRadio(b, c)
      BY <2>1, <2>3 DEF Moved
    <3>2. AirOf(n, k, c) = AirOf(n, l, b)
      BY <3>1, AirSame
    <3> QED BY <1>0, <1>2, <2>1, <2>3, <3>2 DEF Hears
  <2> QED BY <2>2, <2>3
<1>3. CASE m.type \in ReleaseTypes
  <2>1. t = c /\ c.now = b.now /\ SameRadio(b, c)
    BY <1>3 DEF ParsedTo, Takes, ReleaseTypes
  <2>2. AirOf(n, k, c) = AirOf(n, l, b) /\ AirOf(n, "run", c) = AirOf(n, l, b)
    BY <2>1, AirSame
  <2> QED BY <1>3, <2>1, <2>2 DEF Hears
<1>4. CASE m.type = "RX"
  <2>1. t = s /\ c.now = b.now /\ SameRadio(b, c)
    BY <1>4 DEF ParsedTo, Takes, ReleaseTypes
  <2>2. AirOf(n, k, c) = AirOf(n, l, b)
    BY <2>1, AirSame
  <2> QED BY <1>4, <2>1, <2>2 DEF Hears
<1> QED BY <1>1, <1>2, <1>3, <1>4 DEF ReleaseTypes

LEMMA HearsInTx ==
  ASSUME NEW n \in Nodes, NEW b \in Machine, NEW s \in Machine, NEW m \in McastPkt,
         NEW c \in Machine, NEW t \in Machine, ParsedTo(n, b, s, m, c, t),
         m.type = "BACKTRACK", s.io_timer <= s.now + ByteTime[n]
  PROVE  /\ Hears(n, m, b.last_rp, AirOf(n, "run", s), AirOf(n, "tx", b),
                  AirOf(n, "run", t), AirOf(n, "tx", c))
         /\ c.tx_backtracked = FALSE
<1>0. AirOf(n, "tx", b).now = b.now
  BY AirFieldsOf
<1>1. t = s /\ Moved(IF b.now > b.last_rp + m.period THEN s ELSE b, m, c)
  BY DEF ParsedTo, ReleaseTypes
<1>2. CASE b.now > b.last_rp + m.period
  <2>1. c.now = s.now /\ SameRadio(s, c) /\ c.tx_backtracked = FALSE
    BY <1>1, <1>2 DEF Moved
  <2>2. TornFrom(n, AirOf(n, "run", s), AirOf(n, "tx", c))
    BY <2>1, AirTorn DEF TornFrom
  <2> QED BY <1>0, <1>1, <1>2, <2>1, <2>2 DEF Hears
<1>3. CASE ~ (b.now > b.last_rp + m.period)
  <2>1. c.now = b.now /\ SameRadio(b, c) /\ c.tx_backtracked = FALSE
    BY <1>1, <1>3 DEF Moved
  <2>2. AirOf(n, "tx", c) = AirOf(n, "tx", b)
    BY <2>1, AirSame
  <2> QED BY <1>0, <1>1, <1>3, <2>1, <2>2 DEF Hears
<1> QED BY <1>2, <1>3

\* The saved radio of n, and its radio.
Base(n) == AirOf(n, "run", backup[n])
OnAir(n) == AirOf(n, pc[n], bt[n])

\* The loop goes to the radio when a byte is due, and never otherwise.
DueThere(n) ==
  /\ pc[n] = "run" => ~ Due(prog[n], OnAir(n))
  /\ pc[n] = "radio" => Due(prog[n], OnAir(n))

\* Node n parses a packet when its air is x.
HeardAir(n, x) ==
  /\ IF pc[n] = "run" THEN Ticks(n, OnAir(n), x) ELSE x = OnAir(n)
  /\ Hears(n, Head(mcast[n]), Base(n).now, Base(n), x, Base(n)', OnAir(n)')

LEMMA ProgramStays ==
  ASSUME NEW n \in Nodes, CltStep(n) \/ CltUser(n)
  PROVE  prog' = prog
<1>1. CASE CltUser(n)
  BY <1>1 DEF CltUser, Quit, StopAndRun, Leave
<1>2. CASE Connect(n) \/ Connected(n) \/ Refused(n) \/ Join(n) \/ Close(n)
  BY <1>2 DEF Connect, Connected, Refused, Join, Close, Leave
<1>3. CASE UpdateWait(n) \/ UpdatePacket(n) \/ UpdateNothing(n) \/ UpdateSynched(n)
  BY <1>3 DEF UpdateWait, UpdatePacket, UpdateNothing, UpdateSynched
<1>4. CASE SynchedPacket(n) \/ Transmit(n) \/ TxPacket(n)
  BY <1>4 DEF SynchedPacket, Transmit, TxPacket
<1> QED BY <1>1, <1>2, <1>3, <1>4 DEF CltStep

LEMMA BaseDate ==
  ASSUME NEW T, Known(T), AllPaced, NEW n \in Nodes, Inside(n)
  PROVE  /\ Base(n).now = bt[n].last_rp /\ bt[n].last_rp <= bt[n].now
         /\ backup[n] \in Machine /\ bt[n] \in Machine
         /\ Base(n) \in Air /\ OnAir(n) \in Air /\ OnAir(n).now = bt[n].now
         /\ OnAir(n).seq = bt[n].tx_pkt_seq
<1>1. Paced(n) /\ backup[n].last_rp = bt[n].last_rp
  BY DEF AllPaced, Known, Follows, NodeTrail, Knows, At
<1>2. backup[n] \in Machine /\ bt[n] \in Machine /\ bt[n].last_rp <= bt[n].now
  BY NodeDates DEF Known
<1> QED BY <1>1, <1>2, AirFieldsOf DEF Base, OnAir, Paced

LEMMA NextParsed ==
  ASSUME NEW T, Known(T), Orderly, Shapes, AllPaced, NEW n \in Nodes, Parsed(n)
  PROVE  LET m == Head(mcast[n])
             b == Before(n)
         IN  /\ m \in McastPkt /\ b \in Machine /\ backup[n] \in Machine
             /\ m.seq = b.rx_pkt_seq /\ b.last_rp = Base(n).now
             /\ m.type \in ReleaseTypes => m.c_rp_seq = b.rp_seq
             /\ pc[n] # "synched" => m.type = "BACKTRACK"
             /\ CltTypeOK /\ Inside(n) /\ SameView(bt[n], b)
<1> DEFINE m == Head(mcast[n])
           x == bt[n].rx_pkt_seq
<1>0. CltTypeOK /\ NetType /\ Live(n) /\ Inside(n) /\ mcast[n] # <<>>
  BY DEF Known, TypeInv, Parsed, Inside
<1>1. /\ x \in Nat /\ m \in McastPkt /\ m = mcast[n][1] /\ 1 \in 1..Len(mcast[n])
      /\ Carries(m, T[x], T[x + 1]) /\ bt[n].rp_seq = T[x].rp
  BY ParsedNext
<1>2. m.type \in ReleaseTypes => m.c_rp_seq = bt[n].rp_seq
  BY <1>1 DEF Carries
<1>3. Before(n) \in Machine /\ SameView(bt[n], Before(n))
  BY <1>0, BeforeIs
<1>4. m.seq = x
  <2>1. InSequence(n)
    BY DEF Orderly, NodeOrder
  <2>2. mcast[n][1].seq = (bt[n].rx_pkt_seq + 1) - 1
    BY <1>0, <1>1, <2>1 DEF InSequence
  <2>3. (x + 1) - 1 = x
    BY <1>1
  <2> QED BY <1>1, <2>2, <2>3
<1>5. pc[n] # "synched" => m.type = "BACKTRACK"
  BY <1>0, <1>1 DEF Shapes, Shape, BytesFirst
<1>6. Base(n).now = bt[n].last_rp /\ backup[n] \in Machine
  BY <1>0, BaseDate
<1> HIDE DEF m
<1> QED BY <1>0, <1>1, <1>2, <1>3, <1>4, <1>5, <1>6 DEF SameView, m

\* Where the loop goes after devices_update.
LEMMA DoneIsDue ==
  ASSUME NEW n \in Nodes, NEW b \in Machine, bt'[n] = b, pc'[n] = UpdateDone(n, b),
         prog'[n] = prog[n]
  PROVE  DueThere(n)' /\ pc'[n] \in {"run", "radio"} /\ OnAir(n)' = AirOf(n, "run", b)
<1>1. pc'[n] = "run" \/ pc'[n] = "radio"
  BY DEF UpdateDone
<1>2. pc'[n] = "radio" <=> TxDue(n, b)
  BY DEF UpdateDone
<1>3. OnAir(n)' = AirOf(n, pc'[n], b)
  BY DEF OnAir
<1>4. AirOf(n, pc'[n], b) = AirOf(n, "run", b)
  BY <1>1, AirSame DEF SameRadio
<1>5. Due(prog[n], AirOf(n, "run", b)) <=> TxDue(n, b)
  BY AirDue
<1>6. Due(prog'[n], OnAir(n)') <=> TxDue(n, b)
  BY <1>3, <1>4, <1>5
<1>7. DueThere(n)'
  BY <1>1, <1>2, <1>6 DEF DueThere
<1> QED BY <1>1, <1>3, <1>4, <1>7

LEMMA PacketAir ==
  ASSUME NEW T, Known(T), Orderly, Shapes, AllPaced, NEW n \in Nodes, Parsed(n),
         UpdatePacket(n)
  PROVE  /\ DueThere(n)' /\ pc'[n] \in {"run", "radio"}
         /\ \E x \in Air : HeardAir(n, x)
<1> DEFINE m == Head(mcast[n])
           b == Ticked(n)
           o == Parse(n, b, m)
           e == IF o.ok THEN [o.bt EXCEPT !.min_duration = o.duration] ELSE o.bt
<1>1. /\ pc[n] = "run" /\ Become(n, e) /\ Goto(n, UpdateDone(n, e))
      /\ backup' = [backup EXCEPT ![n] = o.backup] /\ prog' = prog
  BY DEF UpdatePacket, Running
<1>2. Before(n) = b
  BY <1>1 DEF Before
<1>3. /\ m \in McastPkt /\ b \in Machine /\ backup[n] \in Machine
      /\ m.seq = b.rx_pkt_seq /\ b.last_rp = Base(n).now
      /\ m.type \in ReleaseTypes => m.c_rp_seq = b.rp_seq
      /\ CltTypeOK
  BY <1>2, NextParsed
<1>4. SameRadio(bt[n], b) /\ b.now = bt[n].now + Quantum[n] /\ bt[n] \in Machine
  BY <1>3, TickEffect DEF CltTypeOK
<1> HIDE DEF m, b
<1>5. /\ o.duration \in Nat /\ o.bt \in Machine /\ o.backup \in Machine
      /\ ParsedTo(n, b, backup[n], m, o.bt, o.backup)
  BY <1>3, ParseEffect
<1> HIDE DEF o
<1>6. e \in Machine /\ SameRadio(o.bt, e) /\ e.now = o.bt.now
  <2>1. CASE o.ok
    <3>1. e = [o.bt EXCEPT !.min_duration = o.duration]
      BY <2>1
    <3> HIDE DEF e
    <3> QED BY <1>5, <3>1, DurationEffect DEF SameMoment
  <2>2. CASE ~ o.ok
    BY <1>5, <2>2 DEF SameRadio
  <2> QED BY <2>1, <2>2
<1> HIDE DEF e
<1>7. pc'[n] = UpdateDone(n, e) /\ bt'[n] = e /\ backup'[n] = o.backup
  BY <1>1, <1>3 DEF Goto, Become, CltTypeOK
<1>8. /\ DueThere(n)' /\ pc'[n] \in {"run", "radio"} /\ OnAir(n)' = AirOf(n, "run", e)
  BY <1>1, <1>6, <1>7, DoneIsDue
<1> DEFINE x == AirOf(n, "run", b)
<1>9. x \in Air
  BY <1>3, AirFieldsOf
<1>10. Ticks(n, OnAir(n), x)
  BY <1>1, <1>3, <1>4, AirTicks DEF OnAir
<1>11. AirOf(n, "run", e) = AirOf(n, "run", o.bt)
  BY <1>5, <1>6, AirSame
<1>12. Hears(n, m, b.last_rp, Base(n), x, AirOf(n, "run", o.backup), AirOf(n, "run", o.bt))
  BY <1>3, <1>5, HearsIs DEF Base
<1>13. Base(n)' = AirOf(n, "run", o.backup)
  BY <1>7 DEF Base
<1> HIDE DEF x
<1>14. HeardAir(n, x)
  BY <1>1, <1>3, <1>8, <1>10, <1>11, <1>12, <1>13 DEF HeardAir, m
<1> QED BY <1>8, <1>9, <1>14

LEMMA BlockedAir ==
  ASSUME NEW T, Known(T), Orderly, Shapes, AllPaced, NEW n \in Nodes, Parsed(n),
         SynchedPacket(n)
  PROVE  /\ DueThere(n)' /\ pc'[n] \in {"synched", "run", "radio"}
         /\ \E x \in Air : HeardAir(n, x)
<1> DEFINE m == Head(mcast[n])
           b == bt[n]
           o == Parse(n, b, m)
<1>1. /\ pc[n] = "synched" /\ Become(n, o.bt)
      /\ Goto(n, IF o.ok /\ o.bt.pending THEN "synched" ELSE UpdateDone(n, o.bt))
      /\ backup' = [backup EXCEPT ![n] = o.backup] /\ prog' = prog
  BY DEF SynchedPacket
<1>2. Before(n) = b
  BY <1>1 DEF Before
<1>3. /\ m \in McastPkt /\ b \in Machine /\ backup[n] \in Machine
      /\ m.seq = b.rx_pkt_seq /\ b.last_rp = Base(n).now
      /\ m.type \in ReleaseTypes => m.c_rp_seq = b.rp_seq
      /\ CltTypeOK
  BY <1>2, NextParsed
<1> HIDE DEF m, b
<1>5. /\ o.bt \in Machine /\ o.backup \in Machine
      /\ ParsedTo(n, b, backup[n], m, o.bt, o.backup)
  BY <1>3, ParseEffect
<1> HIDE DEF o
<1>7. /\ pc'[n] = IF o.ok /\ o.bt.pending THEN "synched" ELSE UpdateDone(n, o.bt)
      /\ bt'[n] = o.bt /\ backup'[n] = o.backup
  BY <1>1, <1>3 DEF Goto, Become, CltTypeOK
<1>8. /\ DueThere(n)' /\ pc'[n] \in {"synched", "run", "radio"}
      /\ OnAir(n)' = AirOf(n, "run", o.bt)
  <2>1. CASE o.ok /\ o.bt.pending
    <3>1. pc'[n] = "synched" /\ OnAir(n)' = AirOf(n, "synched", o.bt)
      BY <1>7, <2>1 DEF OnAir
    <3>2. AirOf(n, "synched", o.bt) = AirOf(n, "run", o.bt)
      BY <1>5, AirSame DEF SameRadio
    <3> QED BY <3>1, <3>2 DEF DueThere
  <2>2. CASE ~ (o.ok /\ o.bt.pending)
    <3>1. pc'[n] = UpdateDone(n, o.bt)
      BY <1>7, <2>2
    <3> QED BY <1>1, <1>5, <1>7, <3>1, DoneIsDue
  <2> QED BY <2>1, <2>2
<1> DEFINE x == AirOf(n, "synched", b)
<1>9. x \in Air
  BY <1>3, AirFieldsOf
<1>10. OnAir(n) = x
  BY <1>1 DEF OnAir, b
<1>12. Hears(n, m, b.last_rp, Base(n), x, AirOf(n, "run", o.backup), AirOf(n, "run", o.bt))
  BY <1>3, <1>5, HearsIs DEF Base
<1>13. Base(n)' = AirOf(n, "run", o.backup)
  BY <1>7 DEF Base
<1> HIDE DEF x
<1>14. HeardAir(n, x)
  BY <1>1, <1>3, <1>8, <1>10, <1>12, <1>13 DEF HeardAir, m
<1> QED BY <1>8, <1>9, <1>14

LEMMA SendingAir ==
  ASSUME NEW T, Known(T), Orderly, Shapes, AllPaced, NEW n \in Nodes, Parsed(n),
         TxPacket(n), Base(n).timer <= Base(n).now + ByteTime[n]
  PROVE  /\ DueThere(n)' /\ pc'[n] = "run"
         /\ \E x \in Air : HeardAir(n, x)
<1> DEFINE m == Head(mcast[n])
           b == bt[n]
           o == Parse(n, b, m)
           e == AfterTx(n, o.bt, txbyte[n])
<1>1. /\ pc[n] = "tx" /\ backup' = [backup EXCEPT ![n] = o.backup] /\ prog' = prog
      /\ IF o.ok /\ MustWait(n, o.bt) THEN Become(n, o.bt) /\ Goto(n, "tx")
                                      ELSE Become(n, e) /\ Goto(n, "run")
  BY DEF TxPacket
<1>2. Before(n) = b /\ pc[n] # "synched"
  BY <1>1 DEF Before
<1>3. /\ m \in McastPkt /\ b \in Machine /\ backup[n] \in Machine
      /\ m.seq = b.rx_pkt_seq /\ b.last_rp = Base(n).now
      /\ m.type = "BACKTRACK"
      /\ CltTypeOK /\ txbyte[n] \in Nat
  BY <1>2, NextParsed DEF CltTypeOK
<1> HIDE DEF m, b
<1>5. /\ o.bt \in Machine /\ o.backup \in Machine
      /\ ParsedTo(n, b, backup[n], m, o.bt, o.backup)
  BY <1>3, ParseEffect
<1> HIDE DEF o
<1>6. backup[n].io_timer <= backup[n].now + ByteTime[n]
  <2>1. Base(n).timer = backup[n].io_timer /\ Base(n).now = backup[n].now
    BY <1>3, AirFieldsOf DEF Base
  <2> QED BY <2>1
<1>7. /\ Hears(n, m, b.last_rp, Base(n), AirOf(n, "tx", b), AirOf(n, "run", o.backup),
               AirOf(n, "tx", o.bt))
      /\ o.bt.tx_backtracked = FALSE
  <2>1. ASSUME NEW c \in Machine, NEW r \in Machine, ParsedTo(n, b, backup[n], m, c, r)
        PROVE  /\ Hears(n, m, b.last_rp, AirOf(n, "run", backup[n]), AirOf(n, "tx", b),
                        AirOf(n, "run", r), AirOf(n, "tx", c))
               /\ c.tx_backtracked = FALSE
    BY <1>3, <1>6, <2>1, HearsInTx
  <2> QED BY <1>5, <2>1 DEF Base
<1>8. ~ MustWait(n, o.bt)
  BY <1>7 DEF MustWait
<1>9. e \in Machine /\ AirOf(n, "run", e) = AirOf(n, "tx", o.bt) /\ ~ TxDue(n, e)
  BY <1>3, <1>5, AirReturns, AfterTxEffect
<1> HIDE DEF e
<1>10. pc'[n] = "run" /\ bt'[n] = e /\ backup'[n] = o.backup
  BY <1>1, <1>3, <1>8 DEF Goto, Become, CltTypeOK
<1>11. OnAir(n)' = AirOf(n, "tx", o.bt) /\ Base(n)' = AirOf(n, "run", o.backup)
  BY <1>9, <1>10 DEF OnAir, Base
<1>12. DueThere(n)'
  <2>1. Due(prog[n], AirOf(n, "run", e)) <=> TxDue(n, e)
    BY <1>9, AirDue
  <2>2. ~ Due(prog'[n], OnAir(n)')
    BY <1>1, <1>9, <1>11, <2>1
  <2> QED BY <1>10, <2>2 DEF DueThere
<1> DEFINE x == AirOf(n, "tx", b)
<1>13. x \in Air /\ OnAir(n) = x
  BY <1>1, <1>3, AirFieldsOf DEF OnAir, b
<1> HIDE DEF x
<1>14. HeardAir(n, x)
  BY <1>1, <1>3, <1>7, <1>11, <1>13 DEF HeardAir, m, x
<1> QED BY <1>10, <1>12, <1>13, <1>14

\* The packet a node sends for a byte.
Announcing(n, p) ==
  /\ p \in ClientPkt /\ TxIs(p, n) /\ p.seq = OnAir(n).seq
  /\ p.period + Base(n).now = OnAir(n).now /\ p.duration >= 1

\* A node executes an instruction, or sends a byte.
Advances(n) ==
  \/ /\ Ticks(n, OnAir(n), OnAir(n)') /\ ~ Due(prog[n], OnAir(n))
     /\ toServer' = toServer \/ toServer' = Append(toServer, SynchedPkt(bt[n].rp_seq))
  \/ /\ Sending(n, OnAir(n), OnAir(n)') /\ Due(prog[n], OnAir(n))
     /\ OnAir(n).now <= bt[n].next_rp
     /\ \E p : Announcing(n, p) /\ toServer' = Append(toServer, p)

WorkAir(n) == Advances(n) /\ DueThere(n)' /\ Base(n)' = Base(n)

LEMMA InstructionAir ==
  ASSUME NEW T, Known(T), AllPaced, NEW n \in Nodes, DueThere(n),
         UpdateNothing(n) \/ UpdateSynched(n)
  PROVE  WorkAir(n)
<1>1. pc[n] = "run" /\ prog' = prog /\ backup' = backup
  BY DEF UpdateNothing, UpdateSynched, Running
<1>2. CltTypeOK /\ bt[n] \in Machine
  BY DEF Known, TypeInv, CltTypeOK
<1>3. /\ Ticked(n) \in Machine /\ SameRadio(bt[n], Ticked(n))
      /\ Ticked(n).now = bt[n].now + Quantum[n]
  BY <1>2, TickEffect
<1>4. ~ Due(prog[n], OnAir(n)) /\ OnAir(n) = AirOf(n, "run", bt[n])
  BY <1>1 DEF DueThere, OnAir
<1>5. Base(n)' = Base(n)
  BY <1>1 DEF Base
<1>6. CASE UpdateNothing(n)
  <2> DEFINE b == Ticked(n)
  <2>1. /\ bt'[n] = b /\ pc'[n] = UpdateDone(n, b) /\ toServer' = toServer
    BY <1>2, <1>6 DEF UpdateNothing, Become, Goto, CltTypeOK, netVars
  <2> HIDE DEF b
  <2>2. DueThere(n)' /\ OnAir(n)' = AirOf(n, "run", b)
    BY <1>1, <1>3, <2>1, DoneIsDue DEF b
  <2>3. Ticks(n, AirOf(n, "run", bt[n]), AirOf(n, "run", b))
    BY <1>2, <1>3, AirTicks DEF b
  <2> QED BY <1>4, <1>5, <2>1, <2>2, <2>3 DEF WorkAir, Advances
<1>7. CASE UpdateSynched(n)
  <2> DEFINE b == [Ticked(n) EXCEPT !.pending = TRUE]
  <2>1. /\ bt'[n] = b /\ pc'[n] = "synched"
        /\ toServer' = Append(toServer, SynchedPkt(bt[n].rp_seq))
    BY <1>2, <1>7 DEF UpdateSynched, Become, Goto, CltTypeOK, SendToServer
  <2>2. b \in Machine /\ SameRadio(Ticked(n), b) /\ b.now = Ticked(n).now
    BY <1>3, PendingEffect
  <2> HIDE DEF b
  <2>3. DueThere(n)' /\ OnAir(n)' = AirOf(n, "synched", b)
    BY <2>1 DEF DueThere, OnAir
  <2>4. SameRadio(bt[n], b) /\ b.now = bt[n].now + Quantum[n]
    BY <1>3, <2>2 DEF SameRadio
  <2>5. Ticks(n, AirOf(n, "run", bt[n]), AirOf(n, "synched", b))
    BY <1>2, <2>2, <2>4, AirTicks
  <2> QED BY <1>4, <1>5, <2>1, <2>3, <2>5 DEF WorkAir, Advances
<1> QED BY <1>6, <1>7

LEMMA NeverWaits ==
  ASSUME NEW T, Known(T), AllPaced, NEW n \in Nodes
  PROVE  ~ UpdateWait(n)
<1> SUFFICES ASSUME UpdateWait(n) PROVE FALSE
  OBVIOUS
<1>1. pc[n] = "run" /\ Ticked(n).min_duration >= 1
  BY DEF UpdateWait, Running
<1>2. bt[n].min_duration = 0
  BY <1>1 DEF AllPaced, Paced, Inside, Live
<1>3. Ticked(n).min_duration = bt[n].min_duration
  BY TickEffect DEF Known, TypeInv
<1> QED BY <1>1, <1>2, <1>3

LEMMA TransmitAir ==
  ASSUME NEW T, Known(T), AllPaced, NEW n \in Nodes, DueThere(n), Transmit(n)
  PROVE  WorkAir(n)
<1> DEFINE b == BeforeTx(n, bt[n])
           c == CallsTx(b)
           k == bt[n].byte + 1
           p == TxPkt(n, b.tx_pkt_seq, TxDate(b), ByteTime[n])
<1>0. CltTypeOK /\ NetType /\ bt[n] \in Machine
  BY DEF Known, TypeInv, CltTypeOK
<1>1. b \in Machine /\ SameMoment(bt[n], b) /\ b.tx_pkt_seq = bt[n].tx_pkt_seq
  BY <1>0, BeforeTxEffect
<1>2. c \in Machine
  BY <1>1, SentEffect DEF CallsTx
<1>3. k \in Nat
  BY <1>0, MachineFields
<1>4. /\ pc[n] = "radio" /\ toServer' = Append(toServer, p) /\ backup' = backup /\ prog' = prog
      /\ \/ Become(n, c) /\ Goto(n, "tx")
         \/ Become(n, AfterTx(n, c, k)) /\ Goto(n, "run")
  BY DEF Transmit, SendToServer, CallsTx
<1>5. /\ Base(n).now = bt[n].last_rp /\ bt[n].last_rp <= bt[n].now /\ OnAir(n).now = bt[n].now
      /\ OnAir(n).seq = bt[n].tx_pkt_seq
      /\ bt[n].last_rp \in Nat /\ bt[n].now \in Nat /\ bt[n].tx_pkt_seq \in Nat
  BY <1>0, <1>4, BaseDate, MachineFields DEF Inside, Live
<1>6. Announcing(n, p)
  <2>1. /\ p.type = "TX" /\ p.node = n /\ p.seq = b.tx_pkt_seq /\ p.period = b.now - b.last_rp
        /\ p.duration = ByteTime[n]
    BY DEF TxPkt, TxDate
  <2>2. b.now = bt[n].now /\ b.last_rp = bt[n].last_rp
    BY <1>1 DEF SameMoment, SameView
  <2>3. p.period = bt[n].now - bt[n].last_rp /\ p.seq = bt[n].tx_pkt_seq
    BY <1>1, <2>1, <2>2
  <2>4. p.period \in Nat /\ p.period + bt[n].last_rp = bt[n].now
    BY <1>5, <2>3
  <2>5. p \in ClientPkt
    <3>1. TxDate(b) \in Nat /\ b.tx_pkt_seq \in Nat
      BY <1>1, <1>5, <2>2 DEF TxDate
    <3> HIDE DEF b
    <3> QED BY <3>1, ByteTimeIs DEF TxPkt, ClientPkt
  <2> HIDE DEF p, b
  <2> QED BY <1>5, <2>1, <2>3, <2>4, <2>5, ByteTimeIs DEF Announcing, TxIs
<1>7. Due(prog[n], OnAir(n)) /\ OnAir(n) = AirOf(n, "radio", bt[n])
  BY <1>4 DEF DueThere, OnAir
<1>8. Sending(n, AirOf(n, "radio", bt[n]), AirOf(n, "tx", c))
  BY <1>0, <1>2, AirSends
<1>9. OnAir(n).now <= bt[n].next_rp
  <2>1. Paced(n) /\ Inside(n)
    BY <1>4 DEF AllPaced, Inside, Live
  <2> QED BY <1>4, <1>5, <2>1 DEF Paced
<1> HIDE DEF b, c, k, p
<1>10. OnAir(n)' = AirOf(n, "tx", c) /\ DueThere(n)'
  <2>1. CASE Become(n, c) /\ Goto(n, "tx")
    <3>1. bt'[n] = c /\ pc'[n] = "tx"
      BY <1>0, <2>1 DEF Become, Goto, CltTypeOK
    <3> QED BY <3>1 DEF OnAir, DueThere
  <2>2. CASE Become(n, AfterTx(n, c, k)) /\ Goto(n, "run")
    <3> DEFINE e == AfterTx(n, c, k)
    <3>1. bt'[n] = e /\ pc'[n] = "run"
      BY <1>0, <2>2 DEF Become, Goto, CltTypeOK
    <3>2. AirOf(n, "run", e) = AirOf(n, "tx", c) /\ ~ TxDue(n, e) /\ e \in Machine
      BY <1>2, <1>3, AirReturns, AfterTxEffect
    <3> HIDE DEF e
    <3>3. OnAir(n)' = AirOf(n, "run", e)
      BY <3>1 DEF OnAir
    <3>4. Due(prog[n], AirOf(n, "run", e)) <=> TxDue(n, e)
      BY <3>2, AirDue
    <3>5. ~ Due(prog'[n], OnAir(n)')
      BY <1>4, <3>2, <3>3, <3>4
    <3> QED BY <3>1, <3>2, <3>3, <3>5 DEF DueThere
  <2> QED BY <1>4, <2>1, <2>2
<1>11. Base(n)' = Base(n)
  BY <1>4 DEF Base
<1>12. Sending(n, OnAir(n), OnAir(n)')
  BY <1>7, <1>8, <1>10
<1> QED BY <1>4, <1>6, <1>7, <1>9, <1>10, <1>11, <1>12 DEF WorkAir, Advances

LEMMA WorksAir ==
  ASSUME NEW T, Known(T), AllPaced, NEW n \in Nodes, DueThere(n), Works(n)
  PROVE  WorkAir(n)
BY InstructionAir, NeverWaits, TransmitAir DEF Works

-----------------------------------------------------------------------------
(* What a radio and its clock do, whatever is sent. *)

\* The radio v goes on from the saved u, the next rendez-vous being at next.
Moves(n, u, v, next) ==
  /\ u.timer <= u.now + ByteTime[n] /\ v.timer <= v.now + ByteTime[n]
  /\ v.timer <= next + ByteTime[n]
  /\ 0 <= u.torn /\ u.torn <= v.torn
  /\ OnGrid(n, u, v.now)

Motion(n) ==
  /\ Moves(n, Base(n), OnAir(n), bt[n].next_rp) /\ DueThere(n)
  /\ pc[n] = "joining" => OnAir(n).now = 0

LEMMA TicksMoves ==
  ASSUME NEW n \in Nodes, NEW u \in Air, NEW v \in Air, NEW w \in Air, NEW next \in Nat,
         Moves(n, u, v, next), Ticks(n, v, w)
  PROVE  Moves(n, u, w, next)
<1> DEFINE a == v.now
           b == v.timer
<1>1. a \in Nat /\ b \in Nat /\ Quantum[n] \in Nat /\ ByteTime[n] \in Nat
  BY AirFields, QuantumIs, ByteTimeIs
<1>2. w.now = a + Quantum[n] /\ w.timer = b /\ w.torn = v.torn
  BY DEF Ticks
<1>3. OnGrid(n, u, w.now)
  BY <1>1, <1>2, GridNext DEF Moves
<1>4. b <= a + ByteTime[n] /\ b <= next + ByteTime[n]
  BY DEF Moves
<1> HIDE DEF a, b
<1>5. w.timer <= w.now + ByteTime[n] /\ w.timer <= next + ByteTime[n]
  BY <1>1, <1>2, <1>4
<1> QED BY <1>2, <1>3, <1>5 DEF Moves

LEMMA SendingMoves ==
  ASSUME NEW n \in Nodes, NEW u \in Air, NEW v \in Air, NEW w \in Air, NEW next \in Nat,
         Moves(n, u, v, next), Sending(n, v, w), v.now <= next
  PROVE  Moves(n, u, w, next)
<1> DEFINE a == v.now
<1>1. a \in Nat /\ ByteTime[n] \in Nat
  BY AirFields, ByteTimeIs
<1>2. w.now = a /\ w.timer = a + ByteTime[n] /\ w.torn = v.torn /\ a <= next
  BY DEF Sending
<1>3. OnGrid(n, u, w.now)
  BY DEF Moves, Sending
<1> HIDE DEF a
<1>4. w.timer <= w.now + ByteTime[n] /\ w.timer <= next + ByteTime[n]
  BY <1>1, <1>2
<1> QED BY <1>2, <1>3, <1>4 DEF Moves

\* The rendez-vous a packet leads to, when the clock is at x.
NextRp(m, r, x, next) ==
  CASE m.type = "BACKTRACK" -> r + m.period
    [] m.type \in ReleaseTypes -> x + m.period
    [] OTHER -> next

LEMMA HearsMoves ==
  ASSUME NEW n \in Nodes, NEW m \in McastPkt, NEW u \in Air, NEW x \in Air, NEW t \in Air,
         NEW w \in Air, NEW next \in Nat, Moves(n, u, x, next),
         Hears(n, m, u.now, u, x, t, w)
  PROVE  Moves(n, t, w, NextRp(m, u.now, x.now, next))
<1> DEFINE a == u.now
           b == x.now
           p == m.period
           g == ByteTime[n]
           y == NextRp(m, a, b, next)
<1>1. /\ a \in Nat /\ u.timer \in Nat /\ u.torn \in Int
      /\ b \in Nat /\ x.timer \in Nat /\ x.torn \in Int /\ g \in Nat
      /\ w.now \in Nat /\ w.timer \in Nat /\ w.torn \in Int
  BY AirFields, ByteTimeIs
<1>2. /\ u.timer <= a + g /\ x.timer <= b + g /\ x.timer <= next + g
      /\ 0 <= u.torn /\ u.torn <= x.torn /\ OnGrid(n, u, x.now)
  BY DEF Moves
<1>3. CASE m.type = "BACKTRACK"
  <2>1. p \in Nat /\ y = a + p
    BY <1>3, McastFields DEF NextRp, ReleaseTypes
  <2>2. t = u
    BY <1>3 DEF Hears, ReleaseTypes
  <2>3. CASE b > a + p
    <3>1. w = u \/ TornFrom(n, u, w)
      BY <1>3, <2>3 DEF Hears, ReleaseTypes
    <3>2. w.now = a /\ w.timer <= a + g /\ u.torn <= w.torn
      <4>1. CASE w = u
        BY <1>1, <1>2, <4>1
      <4>2. CASE TornFrom(n, u, w)
        <5>1. w.now = a /\ w.timer = w.now + g /\ w.torn > u.torn
          BY <4>2 DEF TornFrom
        <5> HIDE DEF a, g
        <5> QED BY <1>1, <5>1
      <4> QED BY <3>1, <4>1, <4>2
    <3>3. OnGrid(n, u, w.now)
      BY <3>2, GridBase
    <3> HIDE DEF a, b, g, p, y
    <3>4. w.timer <= y + g
      BY <1>1, <2>1, <3>2
    <3>5. w.timer <= w.now + g
      BY <3>2
    <3> QED BY <1>2, <2>2, <3>2, <3>3, <3>4, <3>5 DEF Moves, a, b, g, y
  <2>4. CASE ~ (b > a + p)
    <3>1. w = x
      BY <1>3, <2>4 DEF Hears, ReleaseTypes
    <3> HIDE DEF a, b, g, p, y
    <3>2. x.timer <= y + g
      BY <1>1, <1>2, <2>1, <2>4
    <3> QED BY <1>2, <2>2, <3>1, <3>2 DEF Moves, a, b, g, y
  <2> QED BY <2>3, <2>4
<1>4. CASE m.type \in ReleaseTypes
  <2>1. p \in Nat /\ y = b + p /\ t = x /\ w = x
    BY <1>4, McastFields DEF NextRp, Hears, ReleaseTypes
  <2>2. OnGrid(n, x, x.now)
    BY GridBase
  <2> HIDE DEF a, b, g, p, y
  <2>3. x.timer <= y + g /\ 0 <= x.torn
    BY <1>1, <1>2, <2>1
  <2> QED BY <1>1, <1>2, <2>1, <2>2, <2>3 DEF Moves, a, b, g, y
<1>5. CASE m.type = "RX"
  <2>1. y = next /\ t = u /\ w = x
    BY <1>5 DEF NextRp, Hears, ReleaseTypes
  <2> QED BY <2>1
<1>6. m.type = "BACKTRACK" \/ m.type \in ReleaseTypes \/ m.type = "RX"
  BY McastFields DEF ReleaseTypes
<1> QED BY <1>3, <1>4, <1>5, <1>6

LEMMA WorksMotion ==
  ASSUME NEW T, Known(T), AllPaced, NEW n \in Nodes, Motion(n), Local(n), WorkAir(n),
         TypeInv'
  PROVE  Motion(n)'
<1>1. /\ Base(n) \in Air /\ OnAir(n) \in Air /\ bt[n].next_rp \in Nat
      /\ OnAir(n)' \in Air
  <2>1. bt[n] \in Machine /\ backup[n] \in Machine /\ bt'[n] \in Machine
    BY DEF Known, TypeInv, CltTypeOK
  <2> QED BY <2>1, AirFieldsOf, MachineFields DEF Base, OnAir
<1>2. /\ bt'[n].next_rp = bt[n].next_rp /\ pc'[n] # "joining"
  BY DEF Local, SameView
<1>3. Moves(n, Base(n), OnAir(n)', bt[n].next_rp)
  <2>1. Moves(n, Base(n), OnAir(n), bt[n].next_rp)
    BY DEF Motion
  <2>2. \/ Ticks(n, OnAir(n), OnAir(n)')
        \/ Sending(n, OnAir(n), OnAir(n)') /\ OnAir(n).now <= bt[n].next_rp
    BY DEF WorkAir, Advances
  <2> QED BY <1>1, <2>1, <2>2, TicksMoves, SendingMoves
<1> QED BY <1>2, <1>3 DEF Motion, WorkAir

\* Where the packet leads.
LEMMA ParsedPlace ==
  ASSUME NEW T, Known(T), Orderly, Shapes, AllPaced, NEW n \in Nodes, Parsed(n),
         NEW x \in Air, HeardAir(n, x)
  PROVE  bt'[n].next_rp = NextRp(Head(mcast[n]), Base(n).now, x.now, bt[n].next_rp)
<1> DEFINE m == Head(mcast[n])
           b == Before(n)
<1>1. /\ m \in McastPkt /\ b \in Machine /\ b.last_rp = Base(n).now
      /\ m.type \in ReleaseTypes => m.c_rp_seq = b.rp_seq
      /\ b.next_rp = bt[n].next_rp /\ CltTypeOK /\ backup[n].last_rp = bt[n].last_rp
      /\ b.last_rp = bt[n].last_rp
  BY NextParsed DEF SameView, Known, Follows, NodeTrail, Knows, At
<1>2. PICK c \in Machine : /\ SameMoment(c, bt'[n])
                           /\ ParsedTo(n, b, backup[n], m, c, backup'[n])
  BY ParsedNext
<1>3. x.now = b.now
  <2>1. CASE pc[n] = "run"
    <3>1. b.now = bt[n].now + Quantum[n]
      BY <1>1, <2>1, TickEffect DEF Before
    <3>2. OnAir(n).now = bt[n].now
      BY <1>1, AirFieldsOf DEF OnAir, CltTypeOK
    <3> QED BY <2>1, <3>1, <3>2 DEF HeardAir, Ticks
  <2>2. CASE pc[n] # "run"
    <3>1. b = bt[n]
      BY <2>2 DEF Before
    <3>2. OnAir(n).now = bt[n].now
      BY <1>1, AirFieldsOf DEF OnAir, CltTypeOK
    <3> QED BY <2>2, <3>1, <3>2 DEF HeardAir
  <2> QED BY <2>1, <2>2
<1>4. bt'[n].next_rp = c.next_rp
  BY <1>2 DEF SameMoment, SameView
<1> HIDE DEF m, b
<1>5. CASE m.type = "BACKTRACK"
  <2>1. Moved(IF b.now > b.last_rp + m.period THEN backup[n] ELSE b, m, c)
    BY <1>2, <1>5 DEF ParsedTo, ReleaseTypes
  <2>2. c.next_rp = b.last_rp + m.period
    BY <1>1, <2>1 DEF Moved
  <2> QED BY <1>1, <1>4, <1>5, <2>2 DEF NextRp, ReleaseTypes, m
<1>6. CASE m.type \in ReleaseTypes
  <2>1. Leaves(b, m, c) /\ m.type # "BACKTRACK"
    BY <1>1, <1>2, <1>6 DEF ParsedTo, ReleaseTypes
  <2>2. c.next_rp = b.now + m.period
    BY <2>1 DEF Leaves
  <2> QED BY <1>3, <1>4, <1>6, <2>1, <2>2 DEF NextRp, m
<1>7. CASE m.type = "RX"
  <2>1. Stays(b, c)
    BY <1>2, <1>7 DEF ParsedTo, ReleaseTypes
  <2>2. c.next_rp = b.next_rp
    BY <2>1 DEF Stays
  <2> QED BY <1>1, <1>4, <1>7, <2>2 DEF NextRp, m, ReleaseTypes
<1>8. m.type = "BACKTRACK" \/ m.type \in ReleaseTypes \/ m.type = "RX"
  BY <1>1, McastFields DEF ReleaseTypes
<1> QED BY <1>5, <1>6, <1>7, <1>8

LEMMA ParsedMotion ==
  ASSUME NEW T, Known(T), Orderly, Shapes, AllPaced, NEW n \in Nodes, Motion(n), Parsed(n),
         NEW x \in Air, HeardAir(n, x), DueThere(n)', TypeInv'
  PROVE  Motion(n)' /\ Moves(n, Base(n), x, bt[n].next_rp)
<1>1. /\ Base(n) \in Air /\ OnAir(n) \in Air /\ bt[n].next_rp \in Nat
      /\ OnAir(n)' \in Air /\ Base(n)' \in Air
  <2>1. /\ bt[n] \in Machine /\ backup[n] \in Machine /\ bt'[n] \in Machine
        /\ backup'[n] \in Machine
    BY DEF Known, TypeInv, CltTypeOK
  <2> QED BY <2>1, AirFieldsOf, MachineFields DEF Base, OnAir
<1>2. Moves(n, Base(n), x, bt[n].next_rp)
  <2>1. Moves(n, Base(n), OnAir(n), bt[n].next_rp)
    BY DEF Motion
  <2>2. Ticks(n, OnAir(n), x) \/ x = OnAir(n)
    BY DEF HeardAir
  <2> QED BY <1>1, <2>1, <2>2, TicksMoves
<1>3. Head(mcast[n]) \in McastPkt
  BY NextParsed
<1>4. Moves(n, Base(n)', OnAir(n)', NextRp(Head(mcast[n]), Base(n).now, x.now, bt[n].next_rp))
  BY <1>1, <1>2, <1>3, HearsMoves DEF HeardAir
<1>5. Moves(n, Base(n)', OnAir(n)', bt'[n].next_rp)
  BY <1>4, ParsedPlace
<1>6. pc'[n] # "joining"
  BY DEF Parsed
<1> QED BY <1>2, <1>5, <1>6 DEF Motion

-----------------------------------------------------------------------------
(* The events of the server. *)

\* No event ends before the rendez-vous: core_start never finds one in its
\* past.
Punctual == spc # "desync" /\ (spc # "stopped" => \A e \in events : e.end >= rp)

LEMMA ReadsPunctual ==
  ASSUME TypeInv, Punctual, SrvListen
  PROVE  Punctual'
<1>0. rp \in Nat /\ global \in Nat /\ NetType /\ \A e \in events : e.end \in Nat
  BY EventIs DEF TypeInv, SrvTypeOK
<1>1. CASE RecvDisconnect
  BY <1>1 DEF Punctual, RecvDisconnect, BarrierCheck, Recv
<1>2. CASE RecvConnect
  BY <1>2 DEF Punctual, RecvConnect, schedVars, Recv
<1>3. CASE RecvSynched
  BY <1>3 DEF Punctual, RecvSynched, BarrierCheck, Recv
<1>4. CASE RecvTxDropped
  BY <1>4 DEF Punctual, RecvTxDropped, srvVars, Recv
<1>5. CASE RecvTxAccepted
  <2> DEFINE t == TxOf(Head(toServer))
  <2>1. t.end >= rp /\ events' = events \cup {t} /\ rp' = rp /\ spc' = spc
    BY <1>5 DEF RecvTxAccepted
  <2> HIDE DEF t
  <2> QED BY <2>1 DEF Punctual
<1>6. CASE RecvTxBacktrack
  <2> DEFINE t == TxOf(Head(toServer))
  <2>1. /\ t.end < rp /\ events' = StartedBy(events \cup {t}, t.end) /\ rp' = t.end
        /\ spc' = spc /\ spc = "listen"
    BY <1>6 DEF RecvTxBacktrack, Recv
  <2>2. t.end \in Nat
    BY <1>6, TxIsTransmission, EventIs DEF RecvTxBacktrack
  <2> HIDE DEF t
  <2>3. ASSUME NEW e \in events' PROVE e.end >= rp'
    <3>1. e \in events \/ e = t
      BY <2>1 DEF StartedBy
    <3> QED BY <1>0, <2>1, <2>2, <3>1 DEF Punctual
  <2> QED BY <2>1, <2>3 DEF Punctual
<1> QED BY <1>1, <1>2, <1>3, <1>4, <1>5, <1>6 DEF SrvListen

\* What the thread does between the barrier and the next rendez-vous: the
\* first event e is handed to the nodes, or nothing is.
HandsOver(e) ==
  /\ e \in events /\ e.end = global /\ events' = events \ {e}
  /\ packets' = StillInTheAir(global, events') /\ delivered' = Append(delivered, e)
  /\ spc' \in {"core", "listen"} /\ (spc' = "core" => rp' = rp)
  /\ \A f \in events' : rp' <= f.end

HandsNothing ==
  /\ UNCHANGED schedVars /\ spc' = "listen" /\ \A f \in events : rp' <= f.end

LEMMA CoreIs ==
  ASSUME TypeInv, Punctual, SrvCore
  PROVE  HandsNothing \/ \E e \in Transmission : HandsOver(e)
<1>0. /\ rp \in Nat /\ global \in Nat /\ spc = "core" /\ global = rp
      /\ \A e \in events : e.end \in Nat /\ e \in Transmission
  BY EventIs DEF TypeInv, SrvTypeOK, Dates, SrvCore, CoreIdle, CoreWait, CoreTx
<1>1. CASE CoreIdle
  BY <1>1 DEF CoreIdle, HandsNothing, SaveReleaseRequest, NextRendezVous
<1>2. CASE CoreWait
  <2>1. PICK e \in events : IsFirst(e, events) /\ SaveReleaseRequest(e.end - global)
    BY <1>2 DEF CoreWait
  <2>2. rp' = global + (e.end - global) /\ spc' = "listen"
    BY <2>1 DEF SaveReleaseRequest, NextRendezVous
  <2>3. rp' = e.end
    BY <1>0, <2>2
  <2>4. \A f \in events : rp' <= f.end
    BY <2>1, <2>3 DEF IsFirst
  <2> QED BY <1>2, <2>2, <2>4 DEF CoreWait, HandsNothing
<1>3. CASE CoreTx
  <2>1. PICK e \in events :
          /\ e.end <= global
          /\ IF e.end = global THEN Handed(e) ELSE spc' = "desync"
    BY <1>3 DEF CoreTx
  <2>2. e.end = global
    BY <1>0, <2>1 DEF Punctual
  <2>3. Handed(e)
    BY <2>1, <2>2
  <2>4. /\ events' = events \ {e} /\ packets' = StillInTheAir(global, events')
        /\ delivered' = Append(delivered, e)
    BY <2>3 DEF Handed
  <2>5. /\ spc' \in {"core", "listen"} /\ (spc' = "core" => rp' = rp)
        /\ \A f \in events' : rp' <= f.end
    <3>1. CASE events' = {}
      BY <2>3, <3>1 DEF Handed, SaveReleaseRequestRx, NextRendezVous
    <3>2. CASE events' # {}
      <4>1. PICK f \in events' :
              /\ IsFirst(f, events')
              /\ IF f.end > global THEN SaveReleaseRequestRx(e, f.end - global)
                                   ELSE SendRx(e)
        BY <2>3, <3>2 DEF Handed
      <4>2. f.end \in Nat /\ \A h \in events' : f.end <= h.end
        BY <1>0, <2>4, <4>1 DEF IsFirst
      <4>3. CASE f.end > global
        <5>1. rp' = global + (f.end - global) /\ spc' = "listen"
          BY <4>1, <4>3 DEF SaveReleaseRequestRx, NextRendezVous
        <5>2. rp' = f.end
          BY <1>0, <4>2, <5>1
        <5> QED BY <4>2, <5>1, <5>2
      <4>4. CASE ~ (f.end > global)
        <5>1. rp' = rp /\ spc' = spc
          BY <4>1, <4>4 DEF SendRx
        <5>2. \A h \in events' : h.end >= rp
          BY <1>0, <2>4 DEF Punctual
        <5> QED BY <1>0, <5>1, <5>2
      <4> QED BY <4>3, <4>4
    <3> QED BY <3>1, <3>2
  <2>6. HandsOver(e)
    BY <2>1, <2>2, <2>4, <2>5 DEF HandsOver
  <2> QED BY <1>0, <2>6
<1> QED BY <1>1, <1>2, <1>3 DEF SrvCore

LEMMA InitPunctual == Init => Punctual
BY DEF Init, SrvInit, Punctual

LEMMA NextPunctual == TypeInv /\ Punctual /\ [Next]_vars => Punctual'
<1> SUFFICES ASSUME TypeInv, Punctual, [Next]_vars PROVE Punctual'
  OBVIOUS
<1>1. CASE Server
  <2>1. CASE SrvListen
    BY <2>1, ReadsPunctual
  <2>2. CASE SrvCore
    BY <2>2, CoreIs DEF HandsNothing, HandsOver, Punctual, schedVars
  <2> QED BY <1>1, <2>1, <2>2 DEF Server, SrvNext
<1>2. CASE UNCHANGED srvVars
  BY <1>2 DEF srvVars, Punctual
<1> QED BY <1>1, <1>2 DEF Next, Node, User, Finished, vars

\* core_start never meets its "CORE DESYNCHRONIZATION" exception: an event is
\* processed at the very date at which its byte ends.
NeverDesynchronized == spc # "desync"

\* Whatever is lost and whoever is interrupted, core_start finds no event in
\* its past (core.c:157).
THEOREM NoDesync == Spec => []NeverDesynchronized
<1>1. Init => Punctual
  BY InitPunctual
<1>2. TypeInv /\ Punctual /\ [Next]_vars => Punctual'
  BY NextPunctual
<1>3. Spec => []TypeInv
  BY TypesAlways
<1>4. Punctual => NeverDesynchronized
  BY DEF Punctual, NeverDesynchronized
<1> QED BY <1>1, <1>2, <1>3, <1>4, PTL DEF Spec

-----------------------------------------------------------------------------
(* The packets on their way to the server, and those it has taken. *)

\* A TX packet of the queue w: its sender is one of the active nodes A; when
\* it is blocked at rendez-vous r its SYNCHED comes later, and so does its
\* DISCONNECT.
Queued(w, i, A, B, r) ==
  /\ w[i].node \in A /\ w[i].duration >= 1
  /\ w[i].node \in B =>
       \E j \in 1..Len(w) : i < j /\ w[j].type = "SYNCHED" /\ w[j].rp_seq = r
  /\ \A j \in 1..Len(w) : w[j].type = "DISCONNECT" /\ w[j].node = w[i].node => i < j

InLine(w, A, B, r) == \A i \in 1..Len(w) : w[i].type = "TX" => Queued(w, i, A, B, r)

InFlight == InLine(toServer, active, Blocks, rp_seq)

LEMMA LineWritten ==
  ASSUME NEW w \in Seq(ClientPkt), NEW p \in ClientPkt, NEW A, NEW B, NEW C, NEW r,
         InLine(w, A, B, r),
         C \subseteq B \/ (p.type = "SYNCHED" /\ p.rp_seq = r),
         p.type = "TX" =>
           /\ p.node \in A /\ p.node \notin C /\ p.duration >= 1
           /\ \A j \in 1..Len(w) : ~ (w[j].type = "DISCONNECT" /\ w[j].node = p.node)
  PROVE  InLine(Append(w, p), A, C, r)
<1> DEFINE x == Append(w, p)
           k == Len(w) + 1
<1>1. /\ Len(x) = k /\ Len(w) \in Nat /\ x[k] = p /\ k \in 1..Len(x)
      /\ \A i \in 1..Len(w) : x[i] = w[i] /\ i \in 1..Len(x) /\ i < k
      /\ \A i \in 1..Len(x) : i \in 1..Len(w) \/ i = k
  OBVIOUS
<1> HIDE DEF x, k
<1>2. SUFFICES ASSUME NEW i \in 1..Len(x), x[i].type = "TX" PROVE Queued(x, i, A, C, r)
  BY DEF InLine, x
<1>3. CASE i \in 1..Len(w)
  <2>1. x[i] = w[i] /\ Queued(w, i, A, B, r) /\ i < k
    BY <1>1, <1>2, <1>3 DEF InLine
  <2>2. ASSUME x[i].node \in C
        PROVE  \E j \in 1..Len(x) : i < j /\ x[j].type = "SYNCHED" /\ x[j].rp_seq = r
    <3>1. CASE C \subseteq B
      <4>1. PICK j \in 1..Len(w) : i < j /\ w[j].type = "SYNCHED" /\ w[j].rp_seq = r
        BY <2>1, <2>2, <3>1 DEF Queued
      <4> QED BY <1>1, <4>1
    <3>2. CASE p.type = "SYNCHED" /\ p.rp_seq = r
      BY <1>1, <2>1, <3>2
    <3> QED BY <3>1, <3>2
  <2>3. ASSUME NEW j \in 1..Len(x), x[j].type = "DISCONNECT" /\ x[j].node = x[i].node
        PROVE  i < j
    <3>1. CASE j \in 1..Len(w)
      BY <1>1, <2>1, <2>3, <3>1 DEF Queued
    <3> QED BY <1>1, <2>1, <3>1
  <2> QED BY <2>1, <2>2, <2>3 DEF Queued
<1>4. CASE i = k
  <2>1. /\ x[i] = p /\ p.type = "TX" /\ p.node \in A /\ p.node \notin C /\ p.duration >= 1
        /\ \A j \in 1..Len(w) : ~ (w[j].type = "DISCONNECT" /\ w[j].node = p.node)
    BY <1>1, <1>2, <1>4
  <2>2. ASSUME NEW j \in 1..Len(x), x[j].type = "DISCONNECT" /\ x[j].node = x[i].node
        PROVE  FALSE
    <3>1. CASE j \in 1..Len(w)
      BY <1>1, <2>1, <2>2, <3>1
    <3>2. CASE j = k
      BY <1>1, <2>1, <2>2, <3>2
    <3> QED BY <1>1, <3>1, <3>2
  <2> QED BY <2>1, <2>2 DEF Queued
<1> QED BY <1>1, <1>3, <1>4

LEMMA LineRead ==
  ASSUME NEW w \in Seq(ClientPkt), w # <<>>, NEW A, NEW B, NEW C, NEW D, NEW r, NEW s,
         InLine(w, A, B, r),
         \A a \in A : a \in D \/ (Head(w).type = "DISCONNECT" /\ Head(w).node = a),
         C = {} \/ (C \subseteq B /\ s = r)
  PROVE  InLine(Tail(w), D, C, s)
<1> DEFINE x == Tail(w)
<1>1. /\ Head(w) = w[1] /\ 1 \in 1..Len(w) /\ Len(w) \in Nat
      /\ \A i \in 1..Len(x) : i + 1 \in 1..Len(w) /\ x[i] = w[i + 1] /\ i \in Nat
      /\ \A i \in 1..Len(w) : i > 1 => i - 1 \in 1..Len(x) /\ x[i - 1] = w[i]
  OBVIOUS
<1> HIDE DEF x
<1>2. SUFFICES ASSUME NEW i \in 1..Len(x), x[i].type = "TX" PROVE Queued(x, i, D, C, s)
  BY DEF InLine, x
<1>3. i + 1 \in 1..Len(w) /\ x[i] = w[i + 1] /\ i \in Nat /\ Queued(w, i + 1, A, B, r)
  BY <1>1, <1>2 DEF InLine
<1>4. x[i].node \in D
  <2>1. w[i + 1].node \in A
    BY <1>3 DEF Queued
  <2>2. ~ (w[1].type = "DISCONNECT" /\ w[1].node = w[i + 1].node)
    <3> SUFFICES ASSUME w[1].type = "DISCONNECT", w[1].node = w[i + 1].node PROVE FALSE
      OBVIOUS
    <3>1. i + 1 < 1
      BY <1>1, <1>3 DEF Queued
    <3> QED BY <1>3, <3>1
  <2> QED BY <1>1, <1>3, <2>1, <2>2
<1>5. ASSUME x[i].node \in C
      PROVE  \E j \in 1..Len(x) : i < j /\ x[j].type = "SYNCHED" /\ x[j].rp_seq = s
  <2>1. x[i].node \in B /\ s = r
    BY <1>5
  <2>2. PICK j \in 1..Len(w) : i + 1 < j /\ w[j].type = "SYNCHED" /\ w[j].rp_seq = r
    BY <1>3, <2>1 DEF Queued
  <2>3. j - 1 \in 1..Len(x) /\ x[j - 1] = w[j] /\ i < j - 1
    BY <1>1, <1>3, <2>2
  <2> QED BY <2>1, <2>2, <2>3
<1>6. ASSUME NEW j \in 1..Len(x), x[j].type = "DISCONNECT" /\ x[j].node = x[i].node
      PROVE  i < j
  <2>1. j + 1 \in 1..Len(w) /\ x[j] = w[j + 1] /\ j \in Nat
    BY <1>1
  <2>2. i + 1 < j + 1
    BY <1>3, <1>6, <2>1 DEF Queued
  <2> QED BY <1>3, <2>1, <2>2
<1>7. x[i].duration >= 1
  BY <1>3 DEF Queued
<1> QED BY <1>4, <1>5, <1>6, <1>7 DEF Queued

\* A transmission is known once, is an event until it is delivered, and does
\* not start after the rendez-vous.
OnePacket ==
  /\ \A p \in packets : \A q \in packets : p.node = q.node /\ p.seq = q.seq => p = q
  /\ events \subseteq packets
  /\ \A p \in packets : p \in events \/ Tag(p) \in Delivered
  /\ \A p \in packets : p.start <= rp /\ p.start < p.end

\* Nothing is on the air while some node starts up.
Silence == ~ Quiet => events = {} /\ packets = {} /\ delivered = <<>>

\* The server stops when nobody is left.
Ended == spc = "stopped" => active = {}

LEMMA DeliveredIs ==
  ASSUME delivered \in Seq(Transmission), NEW e \in Transmission,
         delivered' = Append(delivered, e)
  PROVE  Delivered' = Delivered \cup {Tag(e)}
<1>1. /\ Len(delivered') = Len(delivered) + 1 /\ Len(delivered) \in Nat
      /\ delivered'[Len(delivered) + 1] = e
      /\ \A i \in 1..Len(delivered) : delivered'[i] = delivered[i]
  OBVIOUS
<1>2. 1..Len(delivered') = 1..Len(delivered) \cup {Len(delivered) + 1}
  BY <1>1
<1>3. Delivered' = {Tag(delivered'[i]) : i \in 1..Len(delivered')}
  BY DEF Delivered, Tag
<1>4. Delivered = {Tag(delivered[i]) : i \in 1..Len(delivered)}
  BY DEF Delivered, Tag
<1> QED BY <1>1, <1>2, <1>3, <1>4

LEMMA DeliveredSame ==
  ASSUME UNCHANGED delivered
  PROVE  Delivered' = Delivered
BY DEF Delivered

\* The steps of the nodes, without SIGINT or debugger.
TakesPacket(n) == UpdatePacket(n) \/ SynchedPacket(n) \/ TxPacket(n)

LEMMA TameStep ==
  ASSUME Tame, CanStop = {}, TypeInv, NEW n \in Nodes, CltStep(n) \/ CltUser(n),
         UNCHANGED srvVars
  PROVE  \/ Works(n) /\ Local(n)
         \/ TakesPacket(n) /\ Parsed(n)
         \/ Comes(n) \/ Close(n)
<1>1. Works(n) \/ TakesPacket(n) \/ Comes(n) \/ Close(n)
  BY DEF CltStep, CltUser, Quit, StopAndRun, Tame, Works, Comes, TakesPacket
<1>2. CASE Works(n)
  BY <1>2, WaitStep, NothingStep, SynchedStep, TransmitStep DEF Works
<1>3. CASE TakesPacket(n)
  BY <1>3, PacketStep, SynchedPacketStep, TxPacketStep DEF TakesPacket
<1> QED BY <1>1, <1>2, <1>3

LEMMA NodeBlocks ==
  ASSUME NEW n \in Nodes, UNCHANGED <<active, rp_seq>>, \A m \in Nodes \ {n} : Idle(m),
         active \subseteq Nodes, Blocked(n)' => Blocked(n)
  PROVE  Blocks' \subseteq Blocks
<1>1. ASSUME NEW m \in Nodes \ {n} PROVE Blocked(m)' => Blocked(m)
  BY IdleBlocked
<1> QED BY <1>1 DEF Blocks

\* n announces that it waits at rp_seq.
LEMMA NodeBlocked ==
  ASSUME NEW n \in Nodes, UNCHANGED <<active, rp_seq>>, \A m \in Nodes \ {n} : Idle(m),
         active \subseteq Nodes, bt'[n].rp_seq = bt[n].rp_seq
  PROVE  Blocks' \subseteq Blocks \/ bt[n].rp_seq = rp_seq
<1>1. ASSUME bt[n].rp_seq # rp_seq PROVE Blocks' \subseteq Blocks
  <2>1. ~ Blocked(n)'
    BY <1>1 DEF Blocked
  <2> QED BY <2>1, NodeBlocks
<1> QED BY <1>1

LEMMA InsideActive ==
  ASSUME NEW T, Known(T), NEW n \in Nodes
  PROVE  /\ Inside(n) => n \in active
         /\ active \subseteq Nodes /\ toServer \in Seq(ClientPkt)
         /\ Inside(n) => \A i \in 1..Len(toServer) :
              ~ (toServer[i].type = "DISCONNECT" /\ toServer[i].node = n)
<1>1. Member(n) /\ TypeInv
  BY OwnState
<1> QED BY <1>1 DEF Member, TypeInv, SrvTypeOK, NetType, Inside, Live

LEMMA WorksFlight ==
  ASSUME NEW T, Known(T), AllPaced, InFlight, NEW n \in Nodes, Local(n), WorkAir(n)
  PROVE  InFlight'
<1>0. /\ active \subseteq Nodes /\ toServer \in Seq(ClientPkt) /\ n \in active
      /\ \A i \in 1..Len(toServer) : ~ (toServer[i].type = "DISCONNECT" /\ toServer[i].node = n)
  BY InsideActive DEF Local, Inside
<1>1. /\ UNCHANGED <<active, rp_seq>> /\ \A m \in Nodes \ {n} : Idle(m)
      /\ bt'[n].rp_seq = bt[n].rp_seq /\ bt[n].rp_seq \in Nat
  BY KnownIndex DEF Local, srvVars, SameView, Inside
<1>2. CASE toServer' = toServer
  <2>1. pc'[n] # "synched"
    <3>1. \A p : Append(toServer, p) # toServer
      BY <1>0
    <3> QED BY <1>2, <3>1 DEF Local
  <2>2. Blocks' \subseteq Blocks
    BY <1>0, <1>1, <2>1, NodeBlocks DEF Blocked
  <2> QED BY <1>1, <1>2, <2>2 DEF InFlight, InLine, Queued
<1>3. CASE toServer' = Append(toServer, SynchedPkt(bt[n].rp_seq))
  <2> DEFINE p == SynchedPkt(bt[n].rp_seq)
  <2>1. p \in ClientPkt /\ p.type = "SYNCHED" /\ p.rp_seq = bt[n].rp_seq
    BY <1>1 DEF SynchedPkt, ClientPkt
  <2>2. Blocks' \subseteq Blocks \/ bt[n].rp_seq = rp_seq
    BY <1>0, <1>1, NodeBlocked
  <2> HIDE DEF p
  <2>3. InLine(Append(toServer, p), active, Blocks', rp_seq)
    BY <1>0, <2>1, <2>2, LineWritten DEF InFlight
  <2> QED BY <1>1, <1>3, <2>3 DEF InFlight, p
<1>4. CASE \E p : Announcing(n, p) /\ toServer' = Append(toServer, p)
  <2>1. PICK p : Announcing(n, p) /\ toServer' = Append(toServer, p)
    BY <1>4
  <2>2. p \in ClientPkt /\ p.type = "TX" /\ p.node = n /\ p.duration >= 1
    BY <2>1 DEF Announcing, TxIs
  <2>3. pc'[n] # "synched"
    <3>1. SynchedPkt(bt[n].rp_seq).type = "SYNCHED"
      BY DEF SynchedPkt
    <3>2. \A q : Append(toServer, q) = toServer' => q = p
      <4>1. ASSUME NEW q, Append(toServer, q) = Append(toServer, p) PROVE q = p
        <5>1. /\ Append(toServer, q)[Len(toServer) + 1] = q
              /\ Append(toServer, p)[Len(toServer) + 1] = p
          BY <1>0
        <5> QED BY <4>1, <5>1
      <4> QED BY <2>1, <4>1
    <3> QED BY <2>2, <3>1, <3>2 DEF Local
  <2>4. Blocks' \subseteq Blocks /\ n \notin Blocks'
    BY <1>0, <1>1, <2>3, NodeBlocks DEF Blocked, Blocks
  <2>5. InLine(Append(toServer, p), active, Blocks', rp_seq)
    BY <1>0, <2>2, <2>4, LineWritten DEF InFlight
  <2> QED BY <1>1, <2>1, <2>5 DEF InFlight
<1> QED BY <1>2, <1>3, <1>4 DEF WorkAir, Advances

LEMMA NodeFlight ==
  ASSUME Tame, CanStop = {}, NEW T, Known(T), Orderly, AllPaced, InFlight, NEW n \in Nodes,
         CltStep(n) \/ CltUser(n), UNCHANGED srvVars, Works(n) => WorkAir(n)
  PROVE  InFlight'
<1>0. TypeInv /\ active \subseteq Nodes /\ toServer \in Seq(ClientPkt)
  BY InsideActive DEF Known
<1>1. UNCHANGED <<active, rp_seq>>
  BY DEF srvVars
<1>2. CASE Works(n) /\ Local(n)
  BY <1>2, WorksFlight
<1>3. CASE Parsed(n)
  <2>1. Blocked(n)' => Blocked(n)
    BY <1>3, ParsedOwn
  <2>2. Blocks' \subseteq Blocks /\ toServer' = toServer
    BY <1>0, <1>1, <1>3, <2>1, NodeBlocks DEF Parsed
  <2> QED BY <1>1, <2>2 DEF InFlight, InLine, Queued
<1>4. CASE Comes(n) \/ Close(n)
  <2>1. /\ \A m \in Nodes \ {n} : Idle(m)
        /\ pc'[n] \in {"connecting", "joining", "refused", "run", "closed"}
        /\ \/ toServer' = toServer
           \/ \E p \in ClientPkt : /\ toServer' = Append(toServer, p)
                                   /\ p.type \in {"CONNECT", "DISCONNECT"}
    <3>1. CASE Connect(n)
      BY <1>0, <3>1, ConnectStep DEF Elsewhere, ConnectPkt
    <3>2. CASE Connected(n) \/ Refused(n) \/ Join(n)
      BY <1>0, <3>2, ConnectedStep, RefusedStep, JoinStep DEF Elsewhere
    <3>3. CASE Close(n)
      BY <1>0, <3>3, LeaveStep DEF Elsewhere, Close, DisconnectPkt
    <3> QED BY <1>4, <3>1, <3>2, <3>3 DEF Comes
  <2>2. Blocks' \subseteq Blocks
    BY <1>0, <1>1, <2>1, NodeBlocks DEF Blocked
  <2>3. CASE toServer' = toServer
    BY <1>1, <2>2, <2>3 DEF InFlight, InLine, Queued
  <2>4. ASSUME NEW p \in ClientPkt, toServer' = Append(toServer, p),
               p.type \in {"CONNECT", "DISCONNECT"}
        PROVE  InFlight'
    <3>1. InLine(Append(toServer, p), active, Blocks', rp_seq)
      BY <1>0, <2>2, <2>4, LineWritten DEF InFlight
    <3> QED BY <1>1, <2>4, <3>1 DEF InFlight
  <2> QED BY <2>1, <2>3, <2>4
<1> QED BY <1>0, <1>2, <1>3, <1>4, TameStep

\* While the server is in its core nothing is on its way that it counts on.
LEMMA CoreSilent ==
  ASSUME NEW T, Known(T), Orderly, InFlight, spc = "core"
  PROVE  \A i \in 1..Len(toServer) : toServer[i].type # "TX"
<1>1. Blocks = active /\ Unheard = 0 /\ toServer \in Seq(ClientPkt)
  BY DEF Orderly, Barrier, Known, TypeInv, NetType
<1>2. SynchedAt(toServer, rp_seq) = {}
  BY <1>1, SynchedFinite, FS_EmptySet DEF Unheard
<1>3. SUFFICES ASSUME NEW i \in 1..Len(toServer), toServer[i].type = "TX" PROVE FALSE
  OBVIOUS
<1>4. toServer[i].node \in Blocks
  BY <1>1, <1>3 DEF InFlight, InLine, Queued
<1>5. PICK j \in 1..Len(toServer) : toServer[j].type = "SYNCHED" /\ toServer[j].rp_seq = rp_seq
  BY <1>3, <1>4 DEF InFlight, InLine, Queued
<1> QED BY <1>2, <1>5 DEF SynchedAt

\* A packet is read.
LEMMA ListenReads ==
  ASSUME TypeInv, SrvListen, UNCHANGED cltVars
  PROVE  /\ spc = "listen" /\ toServer # <<>> /\ Head(toServer) \in ClientPkt
         /\ toServer' = Tail(toServer) /\ delivered' = delivered
         /\ \/ RecvTxBacktrack /\ rp_seq' = rp_seq + 1
            \/ UNCHANGED <<rp, rp_seq, mcast>>
<1>1. CASE RecvDisconnect
  BY <1>1, DisconnectTypes DEF Reads
<1>2. CASE RecvConnect
  BY <1>2, ConnectTypes DEF Reads
<1>3. CASE RecvSynched
  BY <1>3, SynchedTypes DEF Reads
<1>4. CASE RecvTxDropped \/ RecvTxAccepted
  BY <1>4, TxTypes DEF Reads
<1>5. CASE RecvTxBacktrack
  <2>1. Head(toServer) \in ClientPkt
    BY <1>5, Received DEF RecvTxBacktrack, TypeInv
  <2> QED BY <1>5, <2>1, BacktrackTypes
<1> QED BY <1>1, <1>2, <1>3, <1>4, <1>5 DEF SrvListen

LEMMA ServerFlight ==
  ASSUME NEW T, Known(T), Orderly, InFlight, SrvNext, UNCHANGED cltVars, TypeInv'
  PROVE  InFlight'
<1>0. TypeInv /\ NetType /\ toServer \in Seq(ClientPkt) /\ Members /\ rp_seq \in Nat
      /\ active' \subseteq Nodes
  BY DEF Known, TypeInv, NetType, SrvTypeOK
<1>1. \A m \in Nodes : bt'[m] = bt[m] /\ pc'[m] = pc[m]
  BY DEF cltVars
<1>2. \A m \in Nodes : Blocked(m) => m \in active
  BY <1>0 DEF Members, Member, Inside, Live, Blocked
<1>3. ASSUME UNCHANGED rp_seq PROVE Blocks' \subseteq Blocks
  BY <1>0, <1>1, <1>2, <1>3 DEF Blocks, Blocked
<1>4. ASSUME rp_seq' = rp_seq + 1 PROVE Blocks' = {}
  <2>1. SUFFICES ASSUME NEW m \in active', Blocked(m)' PROVE FALSE
    BY DEF Blocks
  <2>2. m \in Nodes /\ bt[m].rp_seq = rp_seq + 1 /\ Inside(m)
    BY <1>0, <1>1, <1>4, <2>1 DEF Blocked, Inside, Live
  <2>3. bt[m].rp_seq <= rp_seq /\ bt[m].rp_seq \in Nat
    BY <2>2, KnownIndex
  <2> QED BY <1>0, <2>2, <2>3
<1>5. CASE SrvListen
  <2>1. /\ toServer # <<>> /\ toServer' = Tail(toServer)
        /\ rp_seq' = rp_seq \/ rp_seq' = rp_seq + 1
    BY <1>0, <1>5, ListenReads
  <2>2. \A a \in active : a \in active' \/ (Head(toServer).type = "DISCONNECT"
                                            /\ Head(toServer).node = a)
    BY <1>5 DEF SrvListen, RecvDisconnect, RecvConnect, RecvSynched, RecvTxDropped,
                RecvTxAccepted, RecvTxBacktrack, Recv, srvVars
  <2>3. Blocks' = {} \/ (Blocks' \subseteq Blocks /\ rp_seq' = rp_seq)
    BY <1>3, <1>4, <2>1
  <2>4. InLine(Tail(toServer), active', Blocks', rp_seq')
    BY <1>0, <2>1, <2>2, <2>3, LineRead DEF InFlight
  <2> QED BY <2>1, <2>4 DEF InFlight
<1>6. CASE SrvCore
  <2>1. spc = "core" /\ toServer' = toServer
    BY <1>6 DEF SrvCore, CoreIdle, CoreWait, CoreTx
  <2>2. \A i \in 1..Len(toServer) : toServer[i].type # "TX"
    BY <2>1, CoreSilent
  <2> QED BY <2>1, <2>2 DEF InFlight, InLine
<1> QED BY <1>5, <1>6 DEF SrvNext

LEMMA OnePacketSame ==
  ASSUME OnePacket, UNCHANGED <<events, packets, delivered>>, TypeInv, rp' \in Nat, rp <= rp'
  PROVE  OnePacket'
<1>1. Delivered' = Delivered
  BY DeliveredSame
<1>2. rp \in Nat /\ \A p \in packets : p.start \in Nat
  BY EventIs DEF TypeInv, SrvTypeOK
<1>3. \A p \in packets' : p.start <= rp'
  BY <1>2 DEF OnePacket
<1> QED BY <1>1, <1>3 DEF OnePacket

LEMMA ListenOnePacket ==
  ASSUME TypeInv, InFlight, OnePacket, SrvListen
  PROVE  OnePacket'
<1>0. /\ rp \in Nat /\ NetType
      /\ \A p \in packets : p \in Transmission /\ p.start \in Nat /\ p.end \in Nat
  BY EventIs DEF TypeInv, SrvTypeOK
<1>1. CASE RecvDisconnect
  <2>1. UNCHANGED <<rp, delivered>>
    BY <1>1 DEF RecvDisconnect
  <2>2. CASE UNCHANGED <<events, packets>>
    BY <1>0, <2>1, <2>2, OnePacketSame
  <2>3. CASE events' = {} /\ packets' = {}
    BY <2>3 DEF OnePacket
  <2> QED BY <1>1, <2>2, <2>3 DEF RecvDisconnect
<1>2. CASE RecvConnect \/ RecvSynched \/ RecvTxDropped
  <2>1. UNCHANGED <<rp, events, packets, delivered>>
    BY <1>2 DEF RecvConnect, RecvSynched, RecvTxDropped, schedVars, srvVars
  <2> QED BY <1>0, <2>1, OnePacketSame
<1>3. CASE RecvTxAccepted \/ RecvTxBacktrack
  <2> DEFINE t == TxOf(Head(toServer))
  <2>1. /\ ~ Deprecated(t) /\ ~ Retransmitted(t) /\ delivered' = delivered /\ Recv("TX")
    BY <1>3 DEF RecvTxAccepted, RecvTxBacktrack
  <2>2. t \in Transmission /\ t.start \in Nat /\ t.end \in Nat
    BY <2>1, TxIsTransmission, EventIs
  <2>3. t.start < t.end
    <3>1. Head(toServer).duration >= 1
      <4>1. toServer # <<>> /\ Head(toServer).type = "TX" /\ toServer \in Seq(ClientPkt)
        BY <1>0, <2>1 DEF Recv, NetType
      <4>2. 1 \in 1..Len(toServer) /\ Head(toServer) = toServer[1]
        BY <4>1, TailIs
      <4> QED BY <4>1, <4>2 DEF InFlight, InLine, Queued
    <3>2. Head(toServer) \in ClientPkt /\ Head(toServer).type = "TX"
      BY <1>0, <2>1, Received
    <3>3. /\ Head(toServer).period \in Nat /\ Head(toServer).duration \in Nat /\ global \in Nat
      BY <3>2, ClientFields DEF TypeInv, SrvTypeOK
    <3>4. /\ t.start = global + Head(toServer).period
          /\ t.end = global + Head(toServer).period + Head(toServer).duration
      BY DEF TxOf
    <3> HIDE DEF t
    <3> QED BY <3>1, <3>3, <3>4
  <2>4. \A p \in packets : p.node = t.node /\ p.seq = t.seq => FALSE
    BY <2>1 DEF Retransmitted
  <2>5. t.start <= rp
    BY <1>0, <2>1, <2>2 DEF Deprecated
  <2> HIDE DEF t
  <2>6. /\ events' \subseteq events \cup {t} /\ packets' \subseteq packets \cup {t}
        /\ \A p \in packets' : p.start <= rp'
        /\ \A p \in packets' : p \in events \cup {t} => p \in events'
        /\ events' \subseteq packets'
    <3>1. CASE RecvTxAccepted
      <4>1. events' = events \cup {t} /\ packets' = packets \cup {t} /\ rp' = rp
        BY <3>1 DEF RecvTxAccepted, t
      <4> QED BY <2>5, <4>1 DEF OnePacket
    <3>2. CASE RecvTxBacktrack
      <4>1. /\ events' = StartedBy(events \cup {t}, t.end) /\ rp' = t.end
            /\ packets' = StartedBy(packets \cup {t}, t.end)
        BY <3>2 DEF RecvTxBacktrack, t
      <4> QED BY <2>5, <4>1 DEF OnePacket, StartedBy
    <3> QED BY <1>3, <3>1, <3>2
  <2>7. Delivered' = Delivered
    BY <2>1, DeliveredSame
  <2>8. \A p \in packets' : p \in events' \/ Tag(p) \in Delivered
    BY <2>6 DEF OnePacket
  <2>9. \A p \in packets' : p.start < p.end
    BY <2>3, <2>6 DEF OnePacket
  <2>10. \A p \in packets' : \A q \in packets' : p.node = q.node /\ p.seq = q.seq => p = q
    BY <2>4, <2>6 DEF OnePacket
  <2> QED BY <2>6, <2>7, <2>8, <2>9, <2>10 DEF OnePacket
<1> QED BY <1>1, <1>2, <1>3 DEF SrvListen

LEMMA CoreOnePacket ==
  ASSUME TypeInv, TypeInv', Punctual, OnePacket, SrvCore
  PROVE  OnePacket'
<1>0. /\ rp \in Nat /\ rp' \in Nat /\ global \in Nat /\ global = rp /\ global' = global
      /\ delivered \in Seq(Transmission) /\ global' <= rp'
      /\ \A p \in packets : p \in Transmission /\ p.start \in Nat /\ p.end \in Nat
  BY EventIs DEF TypeInv, SrvTypeOK, Dates, SrvCore, CoreIdle, CoreWait, CoreTx, schedVars
<1>1. CASE HandsNothing
  BY <1>0, <1>1, OnePacketSame DEF HandsNothing, schedVars
<1>2. ASSUME NEW e \in Transmission, HandsOver(e) PROVE OnePacket'
  <2>1. /\ e \in events /\ events' = events \ {e} /\ delivered' = Append(delivered, e)
        /\ packets' = StillInTheAir(global, events')
    BY <1>2 DEF HandsOver
  <2>2. Delivered' = Delivered \cup {Tag(e)}
    BY <1>0, <2>1, DeliveredIs
  <2>3. packets' \subseteq packets
    BY <2>1 DEF StillInTheAir
  <2>4. events' \subseteq packets'
    <3>1. SUFFICES ASSUME NEW f \in events' PROVE f \in packets'
      OBVIOUS
    <3>2. f \in packets /\ f.start < f.end
      BY <2>1, <3>1 DEF OnePacket
    <3> QED BY <2>1, <3>1, <3>2 DEF StillInTheAir
  <2>5. ASSUME NEW p \in packets' PROVE p \in events' \/ Tag(p) \in Delivered'
    BY <2>1, <2>2, <2>3 DEF OnePacket
  <2>6. ASSUME NEW p \in packets' PROVE p.start <= rp' /\ p.start < p.end
    <3>1. p \in packets /\ p.start <= rp /\ p.start < p.end
      BY <2>3 DEF OnePacket
    <3> QED BY <1>0, <3>1
  <2>7. \A p \in packets' : \A q \in packets' : p.node = q.node /\ p.seq = q.seq => p = q
    BY <2>3 DEF OnePacket
  <2> QED BY <2>4, <2>5, <2>6, <2>7 DEF OnePacket
<1> QED BY <1>1, <1>2, CoreIs

LEMMA NodeQuiet ==
  ASSUME Tame, CanStop = {}, TypeInv, NEW n \in Nodes, CltStep(n) \/ CltUser(n),
         UNCHANGED srvVars
  PROVE  Quiet => Quiet'
<1>1. CASE Local(n)
  <2>1. /\ \A m \in Nodes \ {n} : pc'[m] = pc[m]
        /\ pc'[n] \in StartValues => pc[n] \in StartValues
    BY <1>1 DEF Local, Idle, StartValues
  <2> QED BY <2>1, QuietLater
<1>2. CASE Parsed(n)
  <2>1. /\ \A m \in Nodes \ {n} : pc'[m] = pc[m]
        /\ pc'[n] \in StartValues => pc[n] \in StartValues
    BY <1>2 DEF Parsed, Idle, StartValues
  <2> QED BY <2>1, QuietLater
<1>3. CASE Comes(n) \/ Close(n)
  <2>1. /\ \A m \in Nodes \ {n} : Idle(m)
        /\ pc'[n] \in StartValues => pc[n] \in StartValues
    <3>1. CASE Connect(n)
      BY <3>1, ConnectStep DEF Elsewhere, StartValues
    <3>2. CASE Connected(n) \/ Refused(n) \/ Join(n)
      BY <3>2, ConnectedStep, RefusedStep, JoinStep DEF Elsewhere, StartValues
    <3>3. CASE Close(n)
      BY <3>3, LeaveStep DEF Elsewhere, Close, StartValues
    <3> QED BY <1>3, <3>1, <3>2, <3>3 DEF Comes
  <2> QED BY <2>1, QuietLater DEF Idle
<1> QED BY <1>1, <1>2, <1>3, TameStep

LEMMA ServerSilence ==
  ASSUME NEW T, Known(T), Orderly, Punctual, OnePacket, Silence, SrvNext, UNCHANGED cltVars
  PROVE  Silence'
<1>1. Quiet' <=> Quiet
  BY DEF cltVars, Quiet
<1>2. SUFFICES ASSUME ~ Quiet PROVE events' = {} /\ packets' = {} /\ delivered' = <<>>
  BY <1>1 DEF Silence
<1>3. events = {} /\ packets = {} /\ delivered = <<>> /\ TypeInv
  BY <1>2 DEF Silence, Known
<1>4. ~ Recv("TX")
  <2>1. SUFFICES ASSUME Recv("TX") PROVE FALSE
    OBVIOUS
  <2>2. toServer # <<>> /\ Head(toServer).type = "TX" /\ toServer \in Seq(ClientPkt)
    BY <1>3, <2>1 DEF Recv, TypeInv, NetType
  <2>3. 1 \in 1..Len(toServer) /\ Head(toServer) = toServer[1]
    BY <2>2, TailIs
  <2> QED BY <1>2, <2>2, <2>3 DEF Orderly, Requests
<1>5. CASE SrvListen
  <2>1. RecvDisconnect \/ RecvConnect \/ RecvSynched
    BY <1>4, <1>5 DEF SrvListen, RecvTxDropped, RecvTxAccepted, RecvTxBacktrack
  <2> QED BY <1>3, <2>1 DEF RecvDisconnect, RecvConnect, RecvSynched, schedVars
<1>6. CASE SrvCore
  BY <1>3, <1>6, CoreIs DEF HandsNothing, HandsOver, schedVars
<1> QED BY <1>5, <1>6 DEF SrvNext

LEMMA ServerEnded ==
  ASSUME TypeInv, Orderly', Punctual, Ended, SrvNext
  PROVE  Ended'
<1>1. CASE SrvListen
  <2>1. CASE RecvDisconnect
    <3>1. SUFFICES ASSUME spc' = "stopped" PROVE active' = {}
      BY DEF Ended
    <3>2. c_nodes' = 0
      BY <2>1, <3>1 DEF RecvDisconnect, Recv, BarrierCheck
    <3>3. IsFiniteSet(active') /\ c_nodes' = Cardinality(active')
      BY DEF Orderly, Barrier
    <3> QED BY <3>2, <3>3, FS_EmptySet
  <2>2. CASE ~ RecvDisconnect
    <3>1. spc' \in {"listen", "core"}
      BY <1>1, <2>2 DEF SrvListen, RecvConnect, RecvSynched, RecvTxDropped, RecvTxAccepted,
         RecvTxBacktrack, Recv, BarrierCheck, srvVars
    <3> QED BY <3>1 DEF Ended
  <2> QED BY <2>1, <2>2
<1>2. CASE SrvCore
  BY <1>2, CoreIs DEF HandsNothing, HandsOver, Ended
<1> QED BY <1>1, <1>2 DEF SrvNext

-----------------------------------------------------------------------------
(* What is delivered twice. *)

\* A byte of n is delivered once, and is neither an event nor on its way
\* then, as long as the saved radio is whole.
Once(n) ==
  Base(n).torn = 0 =>
    /\ \A i, j \in 1..Len(delivered) : Twice(i, j) => delivered[i].node # n
    /\ \A e \in events : e.node = n => Tag(e) \notin Delivered
    /\ \A i \in 1..Len(toServer) :
         TxIs(toServer[i], n) => <<n, toServer[i].seq>> \notin Delivered

LEMMA OnceKept ==
  ASSUME TypeInv, NEW m \in Nodes, Once(m), Base(m)'.torn = 0 => Base(m).torn = 0,
         UNCHANGED <<events, delivered>>, NEW p \in ClientPkt, Writes(p),
         Base(m)'.torn = 0 /\ TxIs(p, m) => <<m, p.seq>> \notin Delivered
  PROVE  Once(m)'
<1>1. SUFFICES ASSUME Base(m)'.torn = 0
               PROVE  /\ \A i, j \in 1..Len(delivered') : Twice(i, j)' => delivered'[i].node # m
                      /\ \A e \in events' : e.node = m => Tag(e) \notin Delivered'
                      /\ \A i \in 1..Len(toServer') :
                           TxIs(toServer'[i], m) => <<m, toServer'[i].seq>> \notin Delivered'
  BY DEF Once, Tag
<1>2. Delivered' = Delivered
  BY DeliveredSame
<1>3. \A i, j \in 1..Len(delivered') : Twice(i, j)' => delivered'[i].node # m
  BY <1>1 DEF Once, Twice
<1>4. \A e \in events' : e.node = m => Tag(e) \notin Delivered'
  BY <1>1, <1>2 DEF Once
<1>5. ASSUME NEW i \in 1..Len(toServer'), TxIs(toServer'[i], m)
      PROVE  <<m, toServer'[i].seq>> \notin Delivered'
  <2>1. (i \in 1..Len(toServer) /\ toServer'[i] = toServer[i]) \/ toServer'[i] = p
    BY WrittenIs DEF TypeInv
  <2> QED BY <1>1, <1>2, <1>5, <2>1 DEF Once
<1> QED BY <1>3, <1>4, <1>5

\* The events after a packet is read: some of the old ones, and the byte it
\* announces.
LEMMA ListenEvents ==
  ASSUME TypeInv, SrvListen, NEW e \in events', e \notin events
  PROVE  e = TxOf(Head(toServer)) /\ Head(toServer).type = "TX" /\ toServer # <<>>
<1>1. CASE RecvDisconnect \/ RecvConnect \/ RecvSynched \/ RecvTxDropped
  BY <1>1 DEF RecvDisconnect, RecvConnect, RecvSynched, RecvTxDropped, schedVars, srvVars
<1>2. CASE RecvTxAccepted
  BY <1>2 DEF RecvTxAccepted, Recv
<1>3. CASE RecvTxBacktrack
  BY <1>3 DEF RecvTxBacktrack, Recv, StartedBy
<1> QED BY <1>1, <1>2, <1>3 DEF SrvListen

LEMMA ServerOnce ==
  ASSUME NEW T, Known(T), Orderly, Punctual, InFlight, OnePacket, SrvNext, UNCHANGED cltVars,
         NEW m \in Nodes, Once(m)
  PROVE  Once(m)'
<1>0. /\ TypeInv /\ toServer \in Seq(ClientPkt) /\ delivered \in Seq(Transmission)
      /\ \A e \in events : e \in Transmission
  BY DEF Known, TypeInv, NetType, SrvTypeOK
<1>1. Base(m)' = Base(m)
  BY DEF Base, cltVars
<1>2. SUFFICES ASSUME Base(m).torn = 0
               PROVE  /\ \A i, j \in 1..Len(delivered') : Twice(i, j)' => delivered'[i].node # m
                      /\ \A e \in events' : e.node = m => Tag(e) \notin Delivered'
                      /\ \A i \in 1..Len(toServer') :
                           TxIs(toServer'[i], m) => <<m, toServer'[i].seq>> \notin Delivered'
  BY <1>1 DEF Once, Tag
<1>3. /\ \A i, j \in 1..Len(delivered) : Twice(i, j) => delivered[i].node # m
      /\ \A e \in events : e.node = m => Tag(e) \notin Delivered
      /\ \A i \in 1..Len(toServer) :
           TxIs(toServer[i], m) => <<m, toServer[i].seq>> \notin Delivered
  BY <1>2 DEF Once
<1>4. CASE SrvListen
  <2>1. toServer # <<>> /\ toServer' = Tail(toServer) /\ delivered' = delivered
    BY <1>0, <1>4, ListenReads DEF Known
  <2>2. /\ Head(toServer) = toServer[1] /\ 1 \in 1..Len(toServer)
        /\ \A i \in 1..Len(toServer') :
             i + 1 \in 1..Len(toServer) /\ toServer'[i] = toServer[i + 1]
    BY <1>0, <2>1, TailOf DEF TypeInv
  <2>3. Delivered' = Delivered
    BY <2>1, DeliveredSame
  <2>4. ASSUME NEW e \in events', e.node = m PROVE Tag(e) \notin Delivered
    <3>1. CASE e \in events
      BY <1>3, <2>4, <3>1
    <3>2. CASE e \notin events
      <4>1. e = TxOf(toServer[1]) /\ toServer[1].type = "TX"
        BY <1>0, <1>4, <2>2, <3>2, ListenEvents
      <4>2. e.node = toServer[1].node /\ e.seq = toServer[1].seq
        BY <4>1 DEF TxOf
      <4>3. <<m, toServer[1].seq>> \notin Delivered
        BY <1>3, <2>2, <2>4, <4>1, <4>2 DEF TxIs
      <4> QED BY <2>4, <4>2, <4>3 DEF Tag
    <3> QED BY <3>1, <3>2
  <2>5. \A i, j \in 1..Len(delivered') : Twice(i, j)' => delivered'[i].node # m
    BY <1>3, <2>1 DEF Twice
  <2>6. \A i \in 1..Len(toServer') :
          TxIs(toServer'[i], m) => <<m, toServer'[i].seq>> \notin Delivered
    BY <1>3, <2>2
  <2> QED BY <2>3, <2>4, <2>5, <2>6
<1>5. CASE SrvCore
  <2>1. spc = "core" /\ toServer' = toServer
    BY <1>5 DEF SrvCore, CoreIdle, CoreWait, CoreTx
  <2>2. \A i \in 1..Len(toServer') : ~ TxIs(toServer'[i], m)
    BY <2>1, CoreSilent DEF TxIs
  <2>3. CASE HandsNothing
    <3>1. UNCHANGED <<events, delivered>>
      BY <2>3 DEF HandsNothing, schedVars
    <3> QED BY <1>3, <2>2, <3>1, DeliveredSame DEF Twice
  <2>4. ASSUME NEW e \in Transmission, HandsOver(e)
        PROVE  /\ \A i, j \in 1..Len(delivered') : Twice(i, j)' => delivered'[i].node # m
               /\ \A f \in events' : f.node = m => Tag(f) \notin Delivered'
    <3>1. e \in events /\ events' = events \ {e} /\ delivered' = Append(delivered, e)
      BY <2>4 DEF HandsOver
    <3>2. Delivered' = Delivered \cup {Tag(e)}
      BY <1>0, <3>1, DeliveredIs
    <3>3. ASSUME NEW f \in events', f.node = m PROVE Tag(f) \notin Delivered'
      <4>1. f \in events /\ f # e /\ Tag(f) \notin Delivered
        BY <1>3, <3>1, <3>3
      <4>2. f \in packets /\ e \in packets
        BY <3>1, <4>1 DEF OnePacket
      <4>3. ~ (f.node = e.node /\ f.seq = e.seq)
        BY <4>1, <4>2 DEF OnePacket
      <4> QED BY <3>2, <4>1, <4>3 DEF Tag
    <3> DEFINE k == Len(delivered) + 1
    <3>4. /\ Len(delivered') = k /\ delivered'[k] = e
          /\ \A i \in 1..k : i \in 1..Len(delivered) \/ i = k
          /\ \A i \in 1..Len(delivered) : delivered'[i] = delivered[i]
      BY <1>0, <3>1
    <3> HIDE DEF k
    <3>5. ASSUME e.node = m, NEW i \in 1..Len(delivered),
                 delivered[i].node = e.node, delivered[i].seq = e.seq
          PROVE  FALSE
      <4>1. Tag(e) \in Delivered
        BY <3>5 DEF Tag, Delivered
      <4> QED BY <1>3, <3>1, <3>5, <4>1
    <3>6. ASSUME NEW i \in 1..Len(delivered'), NEW j \in 1..Len(delivered'), Twice(i, j)',
                 delivered'[i].node = m
          PROVE  FALSE
      <4>1. /\ i # j /\ delivered'[i].node = delivered'[j].node
            /\ delivered'[i].seq = delivered'[j].seq
        BY <3>6 DEF Twice
      <4>2. CASE i = k
        <5>1. j \in 1..Len(delivered) /\ delivered'[j] = delivered[j] /\ delivered'[i] = e
          BY <3>4, <4>1, <4>2
        <5> QED BY <3>5, <3>6, <4>1, <5>1
      <4>3. CASE j = k
        <5>1. i \in 1..Len(delivered) /\ delivered'[i] = delivered[i] /\ delivered'[j] = e
          BY <3>4, <4>1, <4>3
        <5> QED BY <3>5, <3>6, <4>1, <5>1
      <4>4. CASE i # k /\ j # k
        <5>1. /\ i \in 1..Len(delivered) /\ j \in 1..Len(delivered)
              /\ delivered'[i] = delivered[i] /\ delivered'[j] = delivered[j]
          BY <3>4, <4>4
        <5> QED BY <1>3, <3>6, <4>1, <5>1 DEF Twice
      <4> QED BY <4>2, <4>3, <4>4
    <3> QED BY <3>3, <3>6
  <2> QED BY <1>0, <1>5, <2>2, <2>3, <2>4, CoreIs
<1> QED BY <1>4, <1>5 DEF SrvNext

-----------------------------------------------------------------------------
(* The account of the bytes of a node. *)

EventsOf(n) == {e \in events : e.node = n}
NumbersOf(n) == {s \in Nat : <<n, s>> \in Delivered}

\* The date of the rendez-vous on the clock of n.
Limit(n) == Base(n).now + (rp - global)

\* What the server does not know yet of a node that has not been released,
\* it will be told.
Owing(n, q, u, v, lim, g, D, E, w) ==
  \E d \in Timeline, m \in Nat : Story(n, q, u, v, d, m, lim, g, D, E, w)

\* There is nothing to be told of a node that is being released.
Settles(n, q, u, v, g, D, E, w) == Fulfilled(q, u, v, g, D, E) /\ NoTx(w, n)

Account(n) ==
  IF Releasing(n)
    THEN Settles(n, prog[n], Base(n), OnAir(n), global, NumbersOf(n), EventsOf(n), toServer)
    ELSE Owing(n, prog[n], Base(n), OnAir(n), Limit(n), global, NumbersOf(n), EventsOf(n),
               toServer)

\* Every BACKTRACK n has not parsed was sent for a later rendez-vous.
Windows(n) ==
  spc = "listen" => \A i \in 1..Len(mcast[n]) :
    mcast[n][i].type = "BACKTRACK" => mcast[n][i].period >= rp - global

Balanced(n) == Inside(n) => Motion(n) /\ Windows(n) /\ Account(n)

LEMMA AccountTypes ==
  ASSUME TypeInv, NEW n \in Nodes
  PROVE  /\ prog[n] \in Seq(Nat) /\ Base(n) \in Air /\ OnAir(n) \in Air
         /\ Limit(n) \in Nat /\ global \in Nat /\ rp \in Nat /\ global <= rp
         /\ NumbersOf(n) \in SUBSET Nat /\ EventsOf(n) \in SUBSET Transmission
         /\ toServer \in Seq(ClientPkt) /\ Base(n).now \in Nat
         /\ mcast[n] \in Seq(McastPkt) /\ bt[n] \in Machine /\ backup[n] \in Machine
<1>1. /\ prog[n] \in Seq(Nat) /\ bt[n] \in Machine /\ backup[n] \in Machine
      /\ global \in Nat /\ rp \in Nat /\ global <= rp /\ toServer \in Seq(ClientPkt)
      /\ mcast[n] \in Seq(McastPkt) /\ events \subseteq Transmission
  BY ProgramAssumption DEF TypeInv, CltTypeOK, SrvTypeOK, NetType, Dates
<1>2. Base(n) \in Air /\ OnAir(n) \in Air
  BY <1>1, AirFieldsOf DEF Base, OnAir
<1>3. Base(n).now \in Nat
  BY <1>2, AirFields
<1>4. Limit(n) \in Nat
  BY <1>1, <1>3 DEF Limit
<1>5. NumbersOf(n) \in SUBSET Nat /\ EventsOf(n) \in SUBSET Transmission
  BY <1>1 DEF NumbersOf, EventsOf
<1> QED BY <1>1, <1>2, <1>3, <1>4, <1>5

\* The dates of a program grow.
LEMMA ProgramSorted ==
  ASSUME TypeInv, NEW n \in Nodes
  PROVE  Sorted(prog[n])
BY OrderAssumption DEF TypeInv, CltTypeOK, Sorted

LEMMA NumberOf ==
  ASSUME NEW n, NEW s \in Nat
  PROVE  s \in NumbersOf(n) <=> <<n, s>> \in Delivered
BY DEF NumbersOf

\* A node that is being released waits in worldsens1_synched.
LEMMA ReleasingWaits ==
  ASSUME NEW T, Known(T), Orderly, Shapes, Punctual, NEW n \in Nodes, Inside(n), Releasing(n),
         pc[n] # "joining"
  PROVE  pc[n] = "synched"
<1>1. CASE spc \in {"core", "desync"}
  <2>1. spc = "core" /\ n \in active /\ Blocks = active
    BY <1>1, InsideActive DEF Punctual, Orderly, Barrier
  <2> QED BY <2>1 DEF Blocks, Blocked
<1>2. CASE \E i \in 1..Len(mcast[n]) : mcast[n][i].type \in ReleaseTypes
  <2>1. Live(n)
    BY DEF Inside
  <2>2. BytesFirst(n)
    BY <2>1 DEF Shapes, Shape
  <2> QED BY <1>2, <2>2 DEF BytesFirst, ReleaseTypes
<1> QED BY <1>1, <1>2 DEF Releasing

LEMMA ReleasingSame ==
  ASSUME NEW n, mcast'[n] = mcast[n], spc' = spc
  PROVE  Releasing(n)' <=> Releasing(n)
BY DEF Releasing

\* What the server knows of n when another node or the network moves.
LEMMA ServerView ==
  ASSUME NEW n \in Nodes, UNCHANGED <<rp, global, events, delivered>>
  PROVE  /\ EventsOf(n)' = EventsOf(n) /\ NumbersOf(n)' = NumbersOf(n)
         /\ Base(n)' = Base(n) => Limit(n)' = Limit(n)
BY DeliveredSame DEF EventsOf, NumbersOf, Limit

LEMMA NoTxWritten ==
  ASSUME NEW w \in Seq(ClientPkt), NEW p \in ClientPkt, NEW n, ~ TxIs(p, n), NoTx(w, n)
  PROVE  NoTx(Append(w, p), n)
<1>1. \A i \in 1..Len(Append(w, p)) : Append(w, p)[i] = p \/ \E j \in 1..Len(w) :
        Append(w, p)[i] = w[j]
  OBVIOUS
<1> QED BY <1>1 DEF NoTx

LEMMA OwingWritten ==
  ASSUME NEW w \in Seq(ClientPkt), NEW p \in ClientPkt, NEW n, ~ TxIs(p, n), NEW q, NEW u,
         NEW v, NEW lim, NEW g, NEW D, NEW E, Owing(n, q, u, v, lim, g, D, E, w)
  PROVE  Owing(n, q, u, v, lim, g, D, E, Append(w, p))
<1>1. PICK d \in Timeline, m \in Nat : Story(n, q, u, v, d, m, lim, g, D, E, w)
  BY DEF Owing
<1>2. Story(n, q, u, v, d, m, lim, g, D, E, Append(w, p))
  BY <1>1, StoryWritten
<1> QED BY <1>2 DEF Owing

\* Nothing is said of n, nor to n.
LEMMA AccountWritten ==
  ASSUME TypeInv, NEW n \in Nodes, Account(n), spc' = spc, mcast'[n] = mcast[n],
         UNCHANGED <<rp, global, events, delivered>>, prog'[n] = prog[n],
         Base(n)' = Base(n), OnAir(n)' = OnAir(n),
         NEW p \in ClientPkt, Writes(p), ~ TxIs(p, n)
  PROVE  Account(n)'
<1>1. toServer \in Seq(ClientPkt)
  BY AccountTypes
<1>2. EventsOf(n)' = EventsOf(n) /\ NumbersOf(n)' = NumbersOf(n) /\ Limit(n)' = Limit(n)
  BY ServerView
<1>3. Releasing(n)' <=> Releasing(n)
  BY ReleasingSame
<1>4. CASE Releasing(n)
  <2>1. Settles(n, prog[n], Base(n), OnAir(n), global, NumbersOf(n), EventsOf(n), toServer)
    BY <1>4 DEF Account
  <2>2. Settles(n, prog[n], Base(n), OnAir(n), global, NumbersOf(n), EventsOf(n), toServer')
    BY <1>1, <2>1, NoTxWritten DEF Settles, Writes
  <2> QED BY <1>2, <1>3, <1>4, <2>2 DEF Account
<1>5. CASE ~ Releasing(n)
  <2>1. Owing(n, prog[n], Base(n), OnAir(n), Limit(n), global, NumbersOf(n), EventsOf(n),
              toServer)
    BY <1>5 DEF Account
  <2>2. Owing(n, prog[n], Base(n), OnAir(n), Limit(n), global, NumbersOf(n), EventsOf(n),
              toServer')
    BY <1>1, <2>1, OwingWritten DEF Writes
  <2> QED BY <1>2, <1>3, <1>5, <2>2 DEF Account
<1> QED BY <1>4, <1>5

LEMMA OtherBalanced ==
  ASSUME TypeInv, NEW n \in Nodes, Balanced(n), Idle(n), UNCHANGED srvVars, prog' = prog,
         mcast'[n] = mcast[n], NEW p \in ClientPkt, Writes(p), ~ TxIs(p, n)
  PROVE  Balanced(n)'
<1>1. /\ UNCHANGED <<spc, rp, global, events, delivered>>
      /\ pc'[n] = pc[n] /\ bt'[n] = bt[n] /\ backup'[n] = backup[n]
  BY DEF srvVars, schedVars, Idle
<1>2. Base(n)' = Base(n) /\ OnAir(n)' = OnAir(n) /\ prog'[n] = prog[n]
  BY <1>1 DEF Base, OnAir
<1>3. SUFFICES ASSUME Inside(n) PROVE Motion(n)' /\ Windows(n)' /\ Account(n)'
  BY <1>1 DEF Balanced, Inside, Live
<1>4. Motion(n)'
  <2>1. Motion(n)
    BY <1>3 DEF Balanced
  <2>2. DueThere(n)'
    BY <1>1, <1>2, <2>1 DEF Motion, DueThere
  <2> QED BY <1>1, <1>2, <2>1, <2>2 DEF Motion
<1>5. Windows(n)'
  BY <1>1, <1>3 DEF Balanced, Windows
<1>6. Account(n)'
  BY <1>1, <1>2, <1>3, AccountWritten DEF Balanced
<1> QED BY <1>4, <1>5, <1>6

LEMMA OwingTicks ==
  ASSUME NEW z \in Seq(ClientPkt), NEW n \in Nodes, NEW q \in Seq(Nat), NEW u \in Air,
         NEW v \in Air, NEW w \in Air, NEW lim, NEW g, NEW D, NEW E,
         Owing(n, q, u, v, lim, g, D, E, z), Ticks(n, v, w), ~ Due(q, v)
  PROVE  Owing(n, q, u, w, lim, g, D, E, z)
<1>1. PICK d \in Timeline, m \in Nat : Story(n, q, u, v, d, m, lim, g, D, E, z)
  BY DEF Owing
<1>2. Plan(n, q, u, v, d, m, lim)
  BY <1>1 DEF Story
<1>3. Plan(n, q, u, w, d, m, lim)
  BY <1>2, TickPlan DEF Ticks
<1>4. Story(n, q, u, w, d, m, lim, g, D, E, z)
  BY <1>1, <1>3, StoryMoves
<1> QED BY <1>4 DEF Owing

LEMMA WorksBalanced ==
  ASSUME NEW T, Known(T), Orderly, Shapes, AllPaced, Punctual, NEW n \in Nodes, Balanced(n),
         Local(n), WorkAir(n), prog' = prog, TypeInv'
  PROVE  Balanced(n)'
<1>0. /\ TypeInv /\ Live(n) /\ Inside(n) /\ pc[n] # "joining" /\ pc[n] # "synched"
      /\ Motion(n) /\ Windows(n) /\ Account(n)
  BY DEF Known, Local, Live, Inside, Balanced
<1>1. /\ UNCHANGED <<spc, rp, global, events, delivered>> /\ mcast' = mcast
      /\ Base(n)' = Base(n)
  BY DEF Local, srvVars, schedVars, WorkAir
<1>2. /\ prog[n] \in Seq(Nat) /\ Base(n) \in Air /\ OnAir(n) \in Air
      /\ Limit(n) \in Nat /\ global \in Nat
      /\ EventsOf(n) \in SUBSET Transmission /\ toServer \in Seq(ClientPkt)
      /\ bt[n] \in Machine /\ OnAir(n)' \in Air /\ Sorted(prog[n])
  <2>1. OnAir(n)' \in Air
    <3>1. bt'[n] \in Machine
      BY DEF TypeInv, CltTypeOK
    <3> QED BY <3>1, AirFieldsOf DEF OnAir
  <2> QED BY <1>0, <2>1, AccountTypes, ProgramSorted
<1>3. EventsOf(n)' = EventsOf(n) /\ NumbersOf(n)' = NumbersOf(n) /\ Limit(n)' = Limit(n)
  BY <1>1, ServerView
<1>4. ~ Releasing(n) /\ ~ Releasing(n)'
  BY <1>0, <1>1, ReleasingWaits, ReleasingSame
<1> DEFINE q == prog[n]
           u == Base(n)
           v == OnAir(n)
           w == OnAir(n)'
           lim == Limit(n)
           D == NumbersOf(n)
           E == EventsOf(n)
<1>5. Owing(n, q, u, v, lim, global, D, E, toServer)
  BY <1>0, <1>4 DEF Account
<1>6. Owing(n, q, u, w, lim, global, D, E, toServer')
  <2>1. CASE /\ Ticks(n, v, w) /\ ~ Due(q, v)
             /\ toServer' = toServer \/ toServer' = Append(toServer, SynchedPkt(bt[n].rp_seq))
    <3>1. Owing(n, q, u, w, lim, global, D, E, toServer)
      BY <1>2, <1>5, <2>1, OwingTicks
    <3>2. SynchedPkt(bt[n].rp_seq) \in ClientPkt /\ ~ TxIs(SynchedPkt(bt[n].rp_seq), n)
      BY <1>2, MachineFields DEF SynchedPkt, ClientPkt, TxIs
    <3> QED BY <1>2, <2>1, <3>1, <3>2, OwingWritten
  <2>2. CASE Sending(n, v, w) /\ Due(q, v)
             /\ \E p : Announcing(n, p) /\ toServer' = Append(toServer, p)
    <3>1. PICK p : Announcing(n, p) /\ toServer' = Append(toServer, p)
      BY <2>2
    <3>2. /\ p \in ClientPkt /\ TxIs(p, n) /\ p.seq = v.seq /\ p.period + u.now = v.now
      BY <3>1 DEF Announcing
    <3>3. OnGrid(n, u, v.now)
      BY <1>0 DEF Motion, Moves
    <3>4. PICK d \in Timeline, m \in Nat : Story(n, q, u, v, d, m, lim, global, D, E, toServer)
      BY <1>5 DEF Owing
    <3> HIDE DEF q, u, v, w, lim, D, E
    <3>5. \E e \in Timeline, k \in Nat :
            Story(n, q, u, w, e, k, lim, global, D, E, Append(toServer, p))
      BY <1>2, <2>2, <3>2, <3>3, <3>4, StorySend DEF q, u, v, w, lim, E
    <3> QED BY <3>1, <3>5 DEF Owing
  <2> QED BY <2>1, <2>2 DEF WorkAir, Advances
<1>7. Account(n)'
  BY <1>1, <1>3, <1>4, <1>6 DEF Account
<1>8. Motion(n)'
  BY <1>0, WorksMotion
<1>9. Windows(n)'
  BY <1>0, <1>1 DEF Windows
<1> QED BY <1>7, <1>8, <1>9 DEF Balanced

\* The node goes back, torn or not.
LEMMA OwingBack ==
  ASSUME NEW z \in Seq(ClientPkt), NEW n \in Nodes, NEW q \in Seq(Nat), NEW u \in Air,
         NEW x \in Air, NEW w \in Air, NEW lim \in Nat, NEW g, NEW D, NEW E,
         Owing(n, q, u, x, lim, g, D, E, z), OnGrid(n, u, x.now), lim < x.now,
         w = u \/ TornFrom(n, u, w)
  PROVE  Owing(n, q, u, w, lim, g, D, E, z)
<1>1. PICK d \in Timeline, m \in Nat : Story(n, q, u, x, d, m, lim, g, D, E, z)
  BY DEF Owing
<1>2. Plan(n, q, u, x, d, m, lim)
  BY <1>1 DEF Story
<1>3. w.seq = u.seq /\ (w = u \/ (w.byte >= u.byte /\ w.timer >= u.timer /\ w.torn > u.torn))
  BY DEF TornFrom
<1>4. Plan(n, q, u, w, d, m, lim)
  BY <1>2, <1>3, BackPlan
<1>5. Story(n, q, u, w, d, m, lim, g, D, E, z)
  BY <1>1, <1>4, StoryMoves
<1> QED BY <1>5 DEF Owing

LEMMA SettlesOwing ==
  ASSUME NEW w \in Seq(ClientPkt), NEW n \in Nodes, NEW q \in Seq(Nat), NEW u, NEW v \in Air,
         NEW lim \in Nat, NEW g \in Nat, NEW D \in SUBSET Nat, NEW E \in SUBSET Transmission,
         Settles(n, q, u, v, g, D, E, w)
  PROVE  Owing(n, q, v, v, lim, g, D, E, w)
<1>1. [k \in Nat |-> 0] \in Timeline
  BY DEF Timeline
<1>2. PICK d : d \in Timeline
  BY <1>1
<1>3. v.seq \in Nat
  BY AirFields
<1>4. Story(n, q, v, v, d, v.seq, lim, g, D, E, w)
  BY <1>2, StoryFresh DEF Settles
<1> QED BY <1>2, <1>3, <1>4 DEF Owing

\* The server listens while a BACKTRACK has not been parsed.
LEMMA BacktrackListens ==
  ASSUME NEW T, Known(T), Shapes, Punctual, Ended, NEW n \in Nodes, Live(n),
         NEW i \in 1..Len(mcast[n]), mcast[n][i].type = "BACKTRACK"
  PROVE  spc = "listen"
<1>1. Inside(n) /\ n \in active
  BY InsideActive DEF Inside
<1>2. spc # "stopped" /\ spc # "desync"
  BY <1>1 DEF Ended, Punctual
<1>3. spc # "core"
  BY DEF Shapes, Shape, BytesOnly
<1> QED BY <1>2, <1>3 DEF Known, TypeInv, SrvTypeOK

\* The account after a packet, from that before it; x is the radio when the
\* packet is parsed.
LEMMA ParsedAccount ==
  ASSUME NEW T, Known(T), Orderly, Shapes, AllPaced, Clocks, Punctual, Ended,
         NEW n \in Nodes, Parsed(n), prog' = prog, TypeInv', Account(n), Windows(n),
         DueThere(n), NEW x \in Air, HeardAir(n, x), OnGrid(n, Base(n), x.now)
  PROVE  Account(n)'
<1>0. /\ TypeInv /\ NetType /\ Live(n) /\ Inside(n) /\ mcast[n] # <<>>
      /\ mcast[n] \in Seq(McastPkt)
      /\ BytesFirst(n) /\ BytesOnly(n) /\ Clock(n)
  BY DEF Known, TypeInv, NetType, Parsed, Inside, Shapes, Shape, Clocks
<1>1. /\ UNCHANGED <<spc, rp, global, events, delivered, toServer>>
      /\ mcast'[n] = Tail(mcast[n]) /\ prog'[n] = prog[n]
  BY <1>0 DEF Parsed, srvVars, NetType
<1>2. /\ prog[n] \in Seq(Nat) /\ Base(n) \in Air /\ OnAir(n) \in Air
      /\ Limit(n) \in Nat /\ global \in Nat /\ rp \in Nat /\ Base(n).now \in Nat
      /\ EventsOf(n) \in SUBSET Transmission /\ NumbersOf(n) \in SUBSET Nat
      /\ toServer \in Seq(ClientPkt)
  BY <1>0, AccountTypes
<1>3. OnAir(n)' \in Air /\ Limit(n)' \in Nat
  <2>1. OnAir(n)' \in Air
    <3>1. bt'[n] \in Machine
      BY DEF TypeInv, CltTypeOK
    <3> QED BY <3>1, AirFieldsOf DEF OnAir
  <2>2. backup'[n] \in Machine /\ rp' \in Nat /\ global' \in Nat /\ global' <= rp'
    BY DEF TypeInv, CltTypeOK, SrvTypeOK, Dates
  <2>3. Base(n)' \in Air
    BY <2>2, AirFieldsOf DEF Base
  <2>4. Base(n)'.now \in Nat
    BY <2>3, AirFields
  <2>5. Limit(n)' = Base(n)'.now + (rp' - global')
    BY DEF Limit
  <2> QED BY <2>1, <2>2, <2>4, <2>5
<1>4. EventsOf(n)' = EventsOf(n) /\ NumbersOf(n)' = NumbersOf(n)
      /\ (Base(n)' = Base(n) => Limit(n)' = Limit(n))
  BY <1>1, ServerView
<1> DEFINE m == Head(mcast[n])
           q == prog[n]
           u == Base(n)
           v == OnAir(n)
           D == NumbersOf(n)
           E == EventsOf(n)
<1>5. /\ m \in McastPkt /\ m = mcast[n][1] /\ 1 \in 1..Len(mcast[n])
      /\ m.type \in {"BACKTRACK", "SYNCH_REQ", "RX", "SYNCH_REQ_RX"}
      /\ m.type = "BACKTRACK" => m.period \in Nat
  BY <1>0, TailIs, HeadIs, McastFields
<1>6. /\ m.type = "BACKTRACK" => ~ Releasing(n) /\ ~ Releasing(n)'
      /\ m.type \in ReleaseTypes => ~ Releasing(n)'
      /\ m.type = "RX" => (Releasing(n) => Releasing(n)')
  BY <1>0, <1>1, ReleasingParsed
<1>7. m.type # "BACKTRACK" => pc[n] = "synched" /\ x = v
  BY <1>0, <1>5 DEF BytesFirst, HeardAir
<1>8. Hears(n, m, Base(n).now, u, x, Base(n)', OnAir(n)')
  BY DEF HeardAir
<1>9. CASE m.type = "BACKTRACK"
  <2>1. /\ Base(n)' = u
        /\ IF x.now > u.now + m.period THEN OnAir(n)' = u \/ TornFrom(n, u, OnAir(n)')
                                       ELSE OnAir(n)' = x
    BY <1>8, <1>9 DEF Hears, ReleaseTypes
  <2>2. Owing(n, q, u, v, Limit(n), global, D, E, toServer)
    BY <1>6, <1>9 DEF Account
  <2>3. Owing(n, q, u, x, Limit(n), global, D, E, toServer)
    <3>1. CASE pc[n] = "run"
      <4>1. Ticks(n, v, x) /\ ~ Due(q, v)
        BY <3>1 DEF HeardAir, DueThere
      <4> QED BY <1>2, <2>2, <4>1, OwingTicks
    <3>2. CASE pc[n] # "run"
      BY <2>2, <3>2 DEF HeardAir
    <3> QED BY <3>1, <3>2
  <2>4. Owing(n, q, u, OnAir(n)', Limit(n), global, D, E, toServer)
    <3>1. CASE x.now > u.now + m.period
      <4>1. m.period >= rp - global
        BY <1>0, <1>5, <1>9, BacktrackListens DEF Windows
      <4>2. Limit(n) = u.now + (rp - global) /\ x.now \in Nat
        BY AirFields DEF Limit
      <4> HIDE DEF m, u
      <4>3. Limit(n) < x.now
        <5>1. \A a, b, c, d, e \in Nat : a >= b - c /\ d > e + a => e + (b - c) < d
          OBVIOUS
        <5> QED BY <1>2, <1>5, <1>9, <3>1, <4>1, <4>2, <5>1 DEF u
      <4> QED BY <1>2, <1>3, <2>1, <2>3, <3>1, <4>3, OwingBack DEF u
    <3>2. CASE ~ (x.now > u.now + m.period)
      BY <2>1, <2>3, <3>2
    <3> QED BY <3>1, <3>2
  <2>5. Account(n)' = Owing(n, q, u, OnAir(n)', Limit(n), global, D, E, toServer)
    BY <1>1, <1>4, <1>6, <1>9, <2>1 DEF Account
  <2> QED BY <2>4, <2>5
<1>10. CASE m.type \in ReleaseTypes
  <2>1. Base(n)' = v /\ OnAir(n)' = v /\ ~ Releasing(n)'
    BY <1>6, <1>7, <1>8, <1>10 DEF Hears, ReleaseTypes
  <2>2. Releasing(n)
    BY <1>5, <1>10 DEF Releasing
  <2>3. Settles(n, q, u, v, global, D, E, toServer)
    BY <2>2 DEF Account
  <2>4. Owing(n, q, v, v, Limit(n)', global, D, E, toServer)
    BY <1>2, <1>3, <2>3, SettlesOwing
  <2> QED BY <1>1, <1>4, <2>1, <2>4 DEF Account
<1>11. CASE m.type = "RX"
  <2>1. Base(n)' = u /\ OnAir(n)' = v
    BY <1>7, <1>8, <1>11 DEF Hears, ReleaseTypes
  <2>2. Releasing(n) /\ Releasing(n)'
    BY <1>0, <1>5, <1>6, <1>11 DEF Clock
  <2>3. Settles(n, q, u, v, global, D, E, toServer)
    BY <2>2 DEF Account
  <2> QED BY <1>1, <1>4, <2>1, <2>2, <2>3 DEF Account
<1> QED BY <1>5, <1>9, <1>10, <1>11 DEF ReleaseTypes

LEMMA ParsedBalanced ==
  ASSUME NEW T, Known(T), Orderly, Shapes, AllPaced, Clocks, Punctual, Ended,
         NEW n \in Nodes, Balanced(n), Parsed(n), TakesPacket(n), TypeInv'
  PROVE  Balanced(n)'
<1>0. /\ TypeInv /\ NetType /\ Live(n) /\ Inside(n) /\ Motion(n) /\ Windows(n) /\ Account(n)
  BY DEF Known, TypeInv, Parsed, Inside, Balanced
<1>1. /\ UNCHANGED <<spc, rp, global>> /\ mcast[n] # <<>> /\ mcast[n] \in Seq(McastPkt)
      /\ mcast'[n] = Tail(mcast[n])
  BY <1>0 DEF Parsed, srvVars, schedVars, NetType
<1>2. prog' = prog
  BY ProgramStays DEF TakesPacket, CltStep
<1>3. DueThere(n)' /\ \E x \in Air : HeardAir(n, x)
  <2>1. CASE UpdatePacket(n)
    BY <2>1, PacketAir
  <2>2. CASE SynchedPacket(n)
    BY <2>2, BlockedAir
  <2>3. CASE TxPacket(n)
    BY <1>0, <2>3, SendingAir DEF Motion, Moves
  <2> QED BY <2>1, <2>2, <2>3 DEF TakesPacket
<1>4. PICK x \in Air : HeardAir(n, x)
  BY <1>3
<1>5. Motion(n)' /\ Moves(n, Base(n), x, bt[n].next_rp)
  BY <1>0, <1>3, <1>4, ParsedMotion
<1>6. Account(n)'
  BY <1>0, <1>2, <1>4, <1>5, ParsedAccount DEF Moves, Motion
<1>7. Windows(n)'
  <2>1. \A i \in 1..Len(Tail(mcast[n])) :
          i + 1 \in 1..Len(mcast[n]) /\ Tail(mcast[n])[i] = mcast[n][i + 1]
    BY <1>1, TailIs
  <2> QED BY <1>0, <1>1, <2>1 DEF Windows
<1> QED BY <1>5, <1>6, <1>7 DEF Balanced

LEMMA OutsideBalanced ==
  ASSUME NEW n \in Nodes, ~ Inside(n)'
  PROVE  Balanced(n)'
BY DEF Balanced

LEMMA JoinBalanced ==
  ASSUME NEW T, Known(T), NEW n \in Nodes, Balanced(n), Join(n), UNCHANGED srvVars
  PROVE  Balanced(n)'
<1>0. TypeInv /\ bt[n] \in Machine
  BY DEF Known, TypeInv, CltTypeOK
<1>1. /\ pc[n] = "joining" /\ pc'[n] = "run"
      /\ UNCHANGED <<bt, backup, toServer, mcast, spc, rp, global, events, delivered>>
  BY <1>0, JoinStep DEF Elsewhere, srvVars, schedVars
<1>2. prog' = prog
  BY ProgramStays DEF CltStep
<1>3. Inside(n) /\ Motion(n) /\ Windows(n) /\ Account(n)
  BY <1>1 DEF Inside, Balanced
<1>4. Base(n)' = Base(n)
  BY <1>1 DEF Base
<1>5. OnAir(n)' = OnAir(n)
  <2>1. AirOf(n, "run", bt[n]) = AirOf(n, "joining", bt[n])
    BY <1>0, AirSame DEF SameRadio
  <2> QED BY <1>1, <2>1 DEF OnAir
<1>6. ~ Due(prog[n], OnAir(n))
  <2>1. OnAir(n).now = 0 /\ OnAir(n) \in Air /\ Sorted(prog[n]) /\ prog[n] \in Seq(Nat)
    BY <1>0, <1>1, <1>3, AccountTypes, ProgramSorted DEF Motion
  <2>2. OnAir(n).byte \in Nat
    BY <2>1, AirFields
  <2>3. ASSUME OnAir(n).byte < Len(prog[n]) PROVE prog[n][OnAir(n).byte + 1] >= 1
    BY <2>1, <2>2, <2>3 DEF Sorted
  <2>4. ASSUME OnAir(n).byte < Len(prog[n]) PROVE prog[n][OnAir(n).byte + 1] \in Nat
    BY <2>1, <2>2, <2>4
  <2> QED BY <2>1, <2>3, <2>4 DEF Due
<1>7. Motion(n)'
  BY <1>1, <1>2, <1>3, <1>4, <1>5, <1>6 DEF Motion, DueThere
<1>8. Windows(n)'
  BY <1>1, <1>3 DEF Windows
<1>9. EventsOf(n)' = EventsOf(n) /\ NumbersOf(n)' = NumbersOf(n) /\ Limit(n)' = Limit(n)
  BY <1>1, <1>4, ServerView
<1>10. Releasing(n)' <=> Releasing(n)
  BY <1>1, ReleasingSame
<1>11. Account(n)'
  BY <1>1, <1>2, <1>3, <1>4, <1>5, <1>9, <1>10 DEF Account
<1> QED BY <1>7, <1>8, <1>11 DEF Balanced

\* The radio of a node that is connected.
LEMMA ConnectedAir ==
  ASSUME NEW T, Known(T), NEW n \in Nodes, Connected(n), UNCHANGED srvVars
  PROVE  /\ OnAir(n)' = Base(n)' /\ Base(n)' \in Air /\ pc'[n] = "joining"
         /\ Base(n)'.now = 0 /\ Base(n)'.seq = 0 /\ Base(n)'.timer = 0 /\ Base(n)'.torn = 0
         /\ bt'[n].next_rp \in Nat
<1>0. TypeInv /\ Member(n)
  BY DEF Known, Members
<1>1. /\ pc[n] = "connecting" /\ pc'[n] = "joining" /\ CltTypeOK'
      /\ Answered(bt[n], Head(reply[n]), bt'[n]) /\ backup'[n] = bt'[n]
  BY <1>0, ConnectedStep DEF Elsewhere
<1>2. bt[n] = PowerOn /\ bt'[n] \in Machine /\ bt'[n].next_rp \in Nat
  BY <1>0, <1>1, MachineFields DEF Member, CltTypeOK
<1> DEFINE b == bt'[n]
<1>3. /\ PowerOn.now = 0 /\ PowerOn.tx_pkt_seq = 0 /\ PowerOn.byte = 0
      /\ PowerOn.io_timer = 0 /\ PowerOn.sent = <<>>
  BY DEF PowerOn
<1>4. b.now = 0 /\ b.tx_pkt_seq = 0 /\ b.byte = 0 /\ b.io_timer = 0 /\ b.sent = <<>>
  BY <1>1, <1>2, <1>3 DEF Answered, SameRadio
<1>5. Len(b.sent) - b.byte = 0 /\ b.byte - Len(b.sent) = 0
  <2>1. Len(b.sent) = 0
    BY <1>4
  <2>2. b.byte = 0
    BY <1>4
  <2> HIDE DEF b
  <2> QED BY <2>1, <2>2
<1>6. AirOf(n, "joining", b) = AirOf(n, "run", b)
  BY <1>2, AirSame DEF SameRadio
<1>7. /\ AirOf(n, "run", b) \in Air /\ AirOf(n, "run", b).now = b.now
      /\ AirOf(n, "run", b).seq = b.tx_pkt_seq /\ AirOf(n, "run", b).timer = b.io_timer
      /\ Radio[n] = "cc1100" => AirOf(n, "run", b).torn = Len(b.sent) - b.byte
      /\ Radio[n] = "cc2420" => AirOf(n, "run", b).torn = b.byte - Len(b.sent)
  BY <1>2, AirFieldsOf
<1>8. AirOf(n, "run", b).torn = 0
  BY <1>5, <1>7, RadioIs
<1>9. OnAir(n)' = AirOf(n, "joining", b) /\ Base(n)' = AirOf(n, "run", b)
  BY <1>1 DEF OnAir, Base
<1> HIDE DEF b
<1> QED BY <1>1, <1>2, <1>4, <1>6, <1>7, <1>8, <1>9

LEMMA ConnectedBalanced ==
  ASSUME NEW T, Known(T), Orderly, Punctual, Silence, NEW n \in Nodes, Connected(n),
         UNCHANGED srvVars, TypeInv'
  PROVE  Balanced(n)'
<1>0. TypeInv /\ NetType /\ Members /\ Member(n) /\ NodeOrder(n) /\ Requests
  BY DEF Known, TypeInv, Members, Orderly
<1>1. /\ pc[n] = "connecting" /\ reply[n] # <<>> /\ Head(reply[n]).type = "ATTRADDR"
      /\ UNCHANGED <<toServer, mcast, spc, rp, global, events, delivered, active>>
  BY <1>0, ConnectedStep DEF srvVars, schedVars
<1>2. ~ Quiet
  BY <1>1 DEF Quiet
<1>3. events = {} /\ delivered = <<>>
  BY <1>2 DEF Silence
<1>4. mcast[n] = <<>>
  BY <1>0, <1>1 DEF Member, Live
<1>5. spc \notin {"core", "desync"}
  <2>1. n \in active
    BY <1>0, <1>1, AnsweredOnce
  <2>2. spc # "core"
    BY <1>0, <1>1, <2>1, CoreStarted DEF Started
  <2> QED BY <2>2 DEF Punctual
<1>6. ~ Releasing(n)'
  BY <1>1, <1>4, <1>5 DEF Releasing
<1>7. /\ OnAir(n)' = Base(n)' /\ Base(n)' \in Air /\ pc'[n] = "joining"
      /\ Base(n)'.now = 0 /\ Base(n)'.seq = 0 /\ Base(n)'.timer = 0 /\ Base(n)'.torn = 0
      /\ bt'[n].next_rp \in Nat
  BY ConnectedAir
<1>8. Windows(n)'
  BY <1>1, <1>4 DEF Windows
<1>9. Motion(n)'
  <2>1. OnGrid(n, Base(n)', 0)
    BY <1>7, GridBase
  <2> DEFINE u == Base(n)'
  <2>2. Moves(n, u, u, bt'[n].next_rp)
    <3> HIDE DEF u
    <3> QED BY <1>7, <2>1, ByteTimeIs DEF Moves, u
  <2>3. DueThere(n)'
    BY <1>7 DEF DueThere
  <2> QED BY <1>7, <2>2, <2>3 DEF Motion
<1>10. NoTx(toServer, n)
  BY <1>0, <1>2 DEF NoTx, TxIs, Requests
<1>11. EventsOf(n)' = {} /\ NumbersOf(n)' = {}
  <2>1. EventsOf(n)' = {}
    BY <1>1, <1>3 DEF EventsOf
  <2>2. Delivered' = {}
    BY <1>1, <1>3 DEF Delivered
  <2> QED BY <2>1, <2>2 DEF NumbersOf
<1>12. Account(n)'
  <2> DEFINE q == prog'[n]
             u == Base(n)'
  <2>1. /\ global \in Nat /\ toServer \in Seq(ClientPkt) /\ q \in Seq(Nat) /\ u \in Air
        /\ Limit(n)' \in Nat
    <3>1. global' \in Nat /\ rp' \in Nat /\ global' <= rp' /\ prog'[n] \in Programs
      BY DEF TypeInv, SrvTypeOK, Dates, CltTypeOK
    <3>2. Limit(n)' = Base(n)'.now + (rp' - global')
      BY DEF Limit
    <3>3. Limit(n)' \in Nat
      <4>1. \A a, b \in Nat : a <= b => 0 + (b - a) \in Nat
        OBVIOUS
      <4> QED BY <1>7, <3>1, <3>2, <4>1
    <3>4. q \in Seq(Nat)
      BY <3>1, ProgramAssumption
    <3> QED BY <1>0, <1>7, <3>3, <3>4, AccountTypes
  <2>2. Settles(n, q, u, u, global, {}, {}, toServer)
    <3> HIDE DEF q, u
    <3>1. Settled(global, {}, {}, u.seq)
      BY <1>7 DEF Settled, u
    <3>2. u.torn = 0
      BY <1>7 DEF u
    <3> QED BY <1>10, <3>1, <3>2 DEF Settles, Fulfilled
  <2>3. Owing(n, q, u, u, Limit(n)', global, {}, {}, toServer)
    <3> HIDE DEF q, u
    <3> QED BY <2>1, <2>2, SettlesOwing
  <2> QED BY <1>1, <1>6, <1>7, <1>11, <2>3 DEF Account
<1> QED BY <1>8, <1>9, <1>12 DEF Balanced

WorkingIs(n) == Works(n) /\ Local(n) /\ WorkAir(n)

\* The steps of a node.
LEMMA NodeMoves ==
  ASSUME Tame, CanStop = {}, NEW T, Known(T), AllPaced, NEW n \in Nodes, Balanced(n),
         CltStep(n) \/ CltUser(n), UNCHANGED srvVars
  PROVE  \/ WorkingIs(n)
         \/ TakesPacket(n) /\ Parsed(n)
         \/ Comes(n) \/ Close(n)
<1>1. TypeInv
  BY DEF Known
<1>2. ASSUME Works(n), Local(n) PROVE WorkingIs(n)
  <2>1. Inside(n)
    BY <1>2 DEF Local, Inside
  <2>2. DueThere(n)
    BY <2>1 DEF Balanced, Motion
  <2> QED BY <1>2, <2>2, WorksAir DEF WorkingIs
<1> QED BY <1>1, <1>2, TameStep

\* What a node says.
LEMMA WorkSays ==
  ASSUME TypeInv, NEW n \in Nodes, WorkAir(n)
  PROVE  \E p \in ClientPkt :
           /\ Writes(p) /\ \A m \in Nodes \ {n} : ~ TxIs(p, m)
           /\ ~ TxIs(p, n) \/ Announcing(n, p)
<1>1. CASE toServer' = toServer \/ toServer' = Append(toServer, SynchedPkt(bt[n].rp_seq))
  <2>1. SynchedPkt(bt[n].rp_seq) \in ClientPkt /\ SynchedPkt(bt[n].rp_seq).type = "SYNCHED"
    BY MachineFields DEF TypeInv, CltTypeOK, SynchedPkt, ClientPkt
  <2> QED BY <1>1, <2>1 DEF Writes, TxIs
<1>2. ASSUME NEW p, Announcing(n, p), toServer' = Append(toServer, p)
      PROVE  \E r \in ClientPkt :
               /\ Writes(r) /\ \A m \in Nodes \ {n} : ~ TxIs(r, m)
               /\ ~ TxIs(r, n) \/ Announcing(n, r)
  <2>1. p \in ClientPkt /\ p.node = n
    BY <1>2 DEF Announcing, TxIs
  <2> QED BY <1>2, <2>1 DEF Writes, TxIs
<1> QED BY <1>1, <1>2 DEF WorkAir, Advances

LEMMA NodeSays ==
  ASSUME TypeInv, NEW n \in Nodes, UNCHANGED srvVars,
         \/ WorkingIs(n)
         \/ TakesPacket(n) /\ Parsed(n)
         \/ Comes(n) \/ Close(n)
  PROVE  /\ \A m \in Nodes \ {n} : Idle(m) /\ mcast'[m] = mcast[m]
         /\ \E p \in ClientPkt : /\ Writes(p) /\ \A m \in Nodes \ {n} : ~ TxIs(p, m)
                                 /\ ~ TxIs(p, n) \/ (WorkAir(n) /\ Announcing(n, p))
<1>0. NetType
  BY DEF TypeInv
<1>1. CASE WorkingIs(n)
  <2>1. WorkAir(n) /\ \A m \in Nodes \ {n} : Idle(m) /\ mcast'[m] = mcast[m]
    BY <1>1 DEF WorkingIs, Local
  <2> QED BY <2>1, WorkSays
<1>2. DisconnectPkt(n) \in ClientPkt /\ \A m : ~ TxIs(DisconnectPkt(n), m)
  BY DEF DisconnectPkt, ClientPkt, TxIs
<1>3. CASE Parsed(n)
  <2>1. \A m \in Nodes \ {n} : Idle(m) /\ mcast'[m] = mcast[m]
    BY <1>0, <1>3 DEF Parsed, NetType
  <2>2. Writes(DisconnectPkt(n))
    BY <1>3 DEF Parsed, Writes
  <2> QED BY <1>2, <2>1, <2>2
<1>4. CASE Connect(n)
  <2>1. \A m \in Nodes \ {n} : Idle(m) /\ mcast'[m] = mcast[m]
    BY <1>4, ConnectStep DEF Elsewhere
  <2>2. Writes(ConnectPkt(n)) /\ ConnectPkt(n) \in ClientPkt /\ \A m : ~ TxIs(ConnectPkt(n), m)
    BY <1>4, ConnectStep DEF Writes, ConnectPkt, TxIs
  <2> QED BY <2>1, <2>2
<1>5. CASE Connected(n) \/ Refused(n) \/ Join(n)
  <2>1. UNCHANGED <<toServer, mcast>> /\ \A m \in Nodes \ {n} : Idle(m)
    BY <1>5, ConnectedStep, RefusedStep, JoinStep DEF Elsewhere
  <2> QED BY <1>2, <2>1 DEF Writes
<1>6. CASE Close(n)
  <2>1. Leave(n)
    BY <1>6 DEF Close
  <2>2. /\ \A m \in Nodes \ {n} : Idle(m)
        /\ toServer' = Append(toServer, DisconnectPkt(n))
        /\ mcast' = [mcast EXCEPT ![n] = <<>>]
    BY <2>1, LeaveStep DEF Elsewhere
  <2>3. \A m \in Nodes \ {n} : mcast'[m] = mcast[m]
    BY <1>0, <2>2 DEF NetType
  <2> QED BY <1>2, <2>2, <2>3 DEF Writes
<1> QED BY <1>1, <1>3, <1>4, <1>5, <1>6 DEF Comes

\* A byte that is sent has not been delivered, as long as the radio is whole.
LEMMA SentIsNew ==
  ASSUME NEW T, Known(T), Orderly, Shapes, Punctual, NEW n \in Nodes, Balanced(n),
         Local(n), Base(n).torn = 0
  PROVE  <<n, OnAir(n).seq>> \notin Delivered
<1>1. Inside(n) /\ pc[n] # "joining" /\ pc[n] # "synched" /\ Account(n) /\ TypeInv
  BY DEF Local, Live, Inside, Balanced, Known
<1>2. ~ Releasing(n)
  BY <1>1, ReleasingWaits
<1> DEFINE u == Base(n)
           v == OnAir(n)
           D == NumbersOf(n)
<1>3. u \in Air /\ v \in Air
  BY <1>1, AccountTypes
<1>4. PICK d \in Timeline, m \in Nat :
        Story(n, prog[n], u, v, d, m, Limit(n), global, D, EventsOf(n), toServer)
  BY <1>1, <1>2 DEF Account, Owing
<1>5. \A s \in D : s < u.seq
  BY <1>4 DEF Story
<1>6. u.seq <= v.seq
  BY <1>4 DEF Story, Plan, InPlan, Ahead
<1>7. u.seq \in Nat /\ v.seq \in Nat
  BY <1>3, AirFields
<1>8. v.seq \notin D
  <2>1. v.seq \in D => v.seq < u.seq
    BY <1>5
  <2> HIDE DEF u, v, D
  <2> QED BY <1>6, <1>7, <2>1
<1> QED BY <1>7, <1>8, NumberOf

\* The saved radio is not mended.
LEMMA ParsedTorn ==
  ASSUME NEW T, Known(T), Orderly, Shapes, AllPaced, NEW n \in Nodes, Balanced(n), Parsed(n),
         TakesPacket(n), TypeInv', Base(n)'.torn = 0
  PROVE  Base(n).torn = 0
<1>1. TypeInv /\ Inside(n) /\ Motion(n)
  BY DEF Known, Parsed, Inside, Balanced
<1>2. DueThere(n)' /\ \E x \in Air : HeardAir(n, x)
  <2>1. CASE UpdatePacket(n)
    BY <2>1, PacketAir
  <2>2. CASE SynchedPacket(n)
    BY <2>2, BlockedAir
  <2>3. CASE TxPacket(n)
    BY <1>1, <2>3, SendingAir DEF Motion, Moves
  <2> QED BY <2>1, <2>2, <2>3 DEF TakesPacket
<1>3. PICK x \in Air : HeardAir(n, x)
  BY <1>2
<1>4. Moves(n, Base(n), x, bt[n].next_rp)
  BY <1>1, <1>2, <1>3, ParsedMotion
<1>5. Base(n)' = Base(n) \/ Base(n)' = x
  BY <1>3 DEF HeardAir, Hears
<1>6. /\ 0 <= Base(n).torn /\ Base(n).torn <= x.torn
      /\ Base(n).torn \in Int /\ x.torn \in Int
  BY <1>1, <1>4, AccountTypes, AirFields DEF Moves
<1>7. CASE Base(n)' = x
  <2>1. x.torn = 0
    BY <1>7
  <2> QED BY <1>6, <2>1
<1> QED BY <1>5, <1>7

\* The account of a simulation: no event is in the past, a packet is known
\* once, and of each node nothing is forgotten and nothing is counted twice.
Ledger ==
  /\ Punctual /\ Ended /\ Silence /\ InFlight /\ OnePacket
  /\ \A n \in Nodes : Once(n) /\ Balanced(n)

LEMMA OwnOnce ==
  ASSUME NEW T, Known(T), Orderly, Shapes, AllPaced, Ledger, TypeInv', NEW n \in Nodes,
         UNCHANGED srvVars,
         \/ WorkingIs(n)
         \/ TakesPacket(n) /\ Parsed(n)
         \/ Comes(n) \/ Close(n)
  PROVE  Once(n)'
<1>0. TypeInv /\ Once(n) /\ Balanced(n) /\ Punctual /\ Silence
  BY DEF Known, Ledger
<1>1. UNCHANGED <<events, delivered>>
  BY DEF srvVars
<1>2. PICK p \in ClientPkt : /\ Writes(p)
                             /\ ~ TxIs(p, n) \/ (WorkAir(n) /\ Announcing(n, p))
  BY <1>0, NodeSays
<1>3. CASE WorkingIs(n)
  <2>1. Local(n) /\ Base(n)' = Base(n)
    BY <1>3 DEF WorkingIs, WorkAir
  <2>2. ASSUME Base(n).torn = 0, TxIs(p, n) PROVE <<n, p.seq>> \notin Delivered
    <3>1. p.seq = OnAir(n).seq
      BY <1>2, <2>2 DEF Announcing
    <3> QED BY <1>0, <2>1, <2>2, <3>1, SentIsNew
  <2> QED BY <1>0, <1>1, <1>2, <2>1, <2>2, OnceKept
<1>4. CASE TakesPacket(n) /\ Parsed(n)
  <2>1. Base(n)'.torn = 0 => Base(n).torn = 0
    BY <1>0, <1>4, ParsedTorn
  <2>2. \A m : ~ TxIs(DisconnectPkt(n), m)
    BY DEF DisconnectPkt, TxIs
  <2>3. Writes(DisconnectPkt(n)) /\ DisconnectPkt(n) \in ClientPkt
    BY <1>4 DEF Parsed, Writes, DisconnectPkt, ClientPkt
  <2> QED BY <1>0, <1>1, <2>1, <2>2, <2>3, OnceKept
<1>5. CASE Connected(n)
  <2>1. pc[n] = "connecting" /\ toServer' = toServer
    BY <1>0, <1>5, ConnectedStep
  <2>2. ~ Quiet
    BY <2>1 DEF Quiet
  <2>3. events' = {} /\ delivered' = <<>>
    BY <1>0, <1>1, <2>2 DEF Silence
  <2>4. Delivered' = {}
    BY <2>3 DEF Delivered
  <2>5. Len(delivered') = 0
    BY <2>3
  <2> QED BY <2>3, <2>4, <2>5 DEF Once
<1>6. CASE Connect(n) \/ Refused(n) \/ Join(n) \/ Close(n)
  <2>1. UNCHANGED backup
    <3>1. CASE Close(n)
      <4>1. Leave(n)
        BY <3>1 DEF Close
      <4> QED BY <1>0, <4>1, LeaveStep
    <3> QED BY <1>0, <1>6, <3>1, ConnectStep, RefusedStep, JoinStep
  <2>2. Base(n)' = Base(n)
    BY <2>1 DEF Base
  <2>3. \E r \in ClientPkt : Writes(r) /\ ~ TxIs(r, n)
    <3>1. CASE Connect(n)
      <4>1. Writes(ConnectPkt(n)) /\ ConnectPkt(n) \in ClientPkt
        BY <1>0, <3>1, ConnectStep DEF Writes
      <4> QED BY <4>1 DEF ConnectPkt, TxIs
    <3>2. CASE Refused(n) \/ Join(n)
      <4>1. toServer' = toServer
        BY <1>0, <3>2, RefusedStep, JoinStep
      <4>2. DisconnectPkt(n) \in ClientPkt /\ ~ TxIs(DisconnectPkt(n), n)
        BY DEF DisconnectPkt, ClientPkt, TxIs
      <4> QED BY <4>1, <4>2 DEF Writes
    <3>3. CASE Close(n)
      <4>1. Leave(n)
        BY <3>3 DEF Close
      <4>2. Writes(DisconnectPkt(n)) /\ DisconnectPkt(n) \in ClientPkt
        BY <1>0, <4>1, LeaveStep DEF Writes
      <4> QED BY <4>2 DEF DisconnectPkt, TxIs
    <3> QED BY <1>6, <3>1, <3>2, <3>3
  <2> QED BY <1>0, <1>1, <2>2, <2>3, OnceKept
<1> QED BY <1>3, <1>4, <1>5, <1>6 DEF Comes

LEMMA OwnBalanced ==
  ASSUME NEW T, Known(T), Orderly, Shapes, AllPaced, Clocks, Ledger, TypeInv',
         NEW n \in Nodes, UNCHANGED srvVars, prog' = prog,
         \/ WorkingIs(n)
         \/ TakesPacket(n) /\ Parsed(n)
         \/ Comes(n) \/ Close(n)
  PROVE  Balanced(n)'
<1>0. TypeInv /\ Balanced(n) /\ Punctual /\ Silence /\ Ended
  BY DEF Known, Ledger
<1>1. CASE WorkingIs(n)
  BY <1>0, <1>1, WorksBalanced DEF WorkingIs
<1>2. CASE TakesPacket(n) /\ Parsed(n)
  BY <1>0, <1>2, ParsedBalanced
<1>3. CASE Connected(n)
  BY <1>0, <1>3, ConnectedBalanced
<1>4. CASE Join(n)
  BY <1>0, <1>4, JoinBalanced
<1>5. CASE Connect(n) \/ Refused(n) \/ Close(n)
  <2>1. pc'[n] \in {"connecting", "refused", "closed"}
    <3>1. CASE Close(n)
      <4>1. Leave(n)
        BY <3>1 DEF Close
      <4> QED BY <1>0, <4>1, LeaveStep DEF Elsewhere
    <3> QED BY <1>0, <1>5, <3>1, ConnectStep, RefusedStep DEF Elsewhere
  <2>2. ~ Inside(n)'
    BY <2>1 DEF Inside, Live
  <2> QED BY <2>2, OutsideBalanced
<1> QED BY <1>1, <1>2, <1>3, <1>4, <1>5 DEF Comes

LEMMA NodeLedger ==
  ASSUME Tame, CanStop = {}, NEW T, Known(T), Orderly, Shapes, AllPaced, Clocks, Ledger,
         TypeInv', NEW n \in Nodes, CltStep(n) \/ CltUser(n), UNCHANGED srvVars
  PROVE  Ledger'
<1>0. TypeInv /\ Punctual /\ Ended /\ Silence /\ InFlight /\ OnePacket /\ Balanced(n)
  BY DEF Known, Ledger
<1>1. UNCHANGED <<spc, rp, active, events, packets, delivered>>
  BY DEF srvVars
<1>2. \/ WorkingIs(n)
      \/ TakesPacket(n) /\ Parsed(n)
      \/ Comes(n) \/ Close(n)
  BY <1>0, NodeMoves
<1>3. Punctual' /\ Ended'
  BY <1>0, <1>1 DEF Punctual, Ended
<1>4. Silence'
  BY <1>0, <1>1, NodeQuiet DEF Silence
<1>5. InFlight'
  <2>1. Works(n) => WorkAir(n)
    <3>1. ASSUME Works(n) PROVE Inside(n)
      BY <3>1 DEF Works, UpdateWait, UpdateNothing, UpdateSynched, Transmit, Running,
                  Inside, Live
    <3>2. ASSUME Works(n) PROVE DueThere(n)
      BY <1>0, <3>1, <3>2 DEF Balanced, Motion
    <3> QED BY <3>2, WorksAir
  <2> QED BY <1>0, <2>1, NodeFlight
<1>6. OnePacket'
  <2>1. Delivered' = Delivered
    BY <1>1, DeliveredSame
  <2> QED BY <1>0, <1>1, <2>1 DEF OnePacket
<1>7. prog' = prog
  BY ProgramStays
<1>8. PICK p \in ClientPkt : Writes(p) /\ \A m \in Nodes \ {n} : ~ TxIs(p, m)
  BY <1>0, <1>2, NodeSays
<1>9. ASSUME NEW m \in Nodes \ {n} PROVE Once(m)' /\ Balanced(m)'
  <2>1. Idle(m) /\ mcast'[m] = mcast[m] /\ Once(m) /\ Balanced(m) /\ ~ TxIs(p, m)
    BY <1>0, <1>2, <1>8, NodeSays DEF Ledger
  <2>2. Base(m)' = Base(m)
    BY <2>1 DEF Base, Idle
  <2>3. Once(m)'
    BY <1>0, <1>1, <1>8, <2>1, <2>2, OnceKept
  <2>4. Balanced(m)'
    BY <1>0, <1>7, <1>8, <2>1, OtherBalanced
  <2> QED BY <2>3, <2>4
<1>10. Once(n)' /\ Balanced(n)'
  BY <1>2, <1>7, OwnOnce, OwnBalanced
<1> QED BY <1>3, <1>4, <1>5, <1>6, <1>9, <1>10 DEF Ledger

\* The server reads a packet and keeps on listening.
Updates ==
  LET t == TxOf(Head(toServer))
      sent == Head(toServer).type = "TX"
  IN  /\ toServer # <<>> /\ toServer' = Tail(toServer) /\ UNCHANGED <<global, delivered>>
      /\ rp' <= rp
      /\ \A e \in events : e.start <= rp' => e \in events'
      /\ \A e \in events' :
           e.start <= rp' /\ (e \in events \/ (sent /\ e = t /\ ~ Retransmitted(t)))
      /\ sent /\ t.start <= rp' =>
           Tag(t) \in Delivered \/ \E e \in events' : Tag(e) = Tag(t)

LEMMA ListenUpdates ==
  ASSUME TypeInv, OnePacket, OnePacket', SrvListen, UNCHANGED cltVars, spc' = "listen"
  PROVE  Updates
<1> DEFINE t == TxOf(Head(toServer))
<1>1. /\ spc = "listen" /\ toServer # <<>> /\ toServer' = Tail(toServer)
      /\ delivered' = delivered
  BY ListenReads
<1>2. rp \in Nat /\ \A e \in events' : e.start <= rp'
  BY DEF OnePacket, TypeInv, SrvTypeOK
<1>3. CASE RecvDisconnect \/ RecvConnect \/ RecvSynched
  <2>1. UNCHANGED <<rp, events>> /\ global' = global
    BY <1>1, <1>3, spc' = "listen"
       DEF RecvDisconnect, RecvConnect, RecvSynched, BarrierCheck, schedVars
  <2>2. Head(toServer).type # "TX"
    BY <1>3 DEF RecvDisconnect, RecvConnect, RecvSynched, Recv
  <2>3. rp' <= rp
    BY <1>2, <2>1
  <2> QED BY <1>1, <1>2, <2>1, <2>2, <2>3 DEF Updates
<1>4. CASE RecvTxDropped
  <2>1. UNCHANGED <<rp, events, global>> /\ (Deprecated(t) \/ Retransmitted(t)) /\ Recv("TX")
    BY <1>4 DEF RecvTxDropped, srvVars, schedVars
  <2>2. rp' <= rp
    BY <1>2, <2>1
  <2>3. t.start <= rp' => Tag(t) \in Delivered \/ \E e \in events' : Tag(e) = Tag(t)
    <3>1. t.start \in Nat
      BY <2>1, TxIsTransmission, EventIs
    <3>2. CASE Deprecated(t)
      <4>1. t.start > rp
        BY <3>2 DEF Deprecated
      <4> HIDE DEF t
      <4> QED BY <1>2, <2>1, <3>1, <4>1
    <3>3. CASE Retransmitted(t)
      <4>1. PICK p \in packets : p.node = t.node /\ p.seq = t.seq
        BY <3>3 DEF Retransmitted
      <4>2. Tag(p) = Tag(t) /\ (p \in events \/ Tag(p) \in Delivered)
        BY <4>1 DEF Tag, OnePacket
      <4> QED BY <2>1, <4>2
    <3> QED BY <2>1, <3>2, <3>3
  <2> QED BY <1>1, <1>2, <2>1, <2>2, <2>3 DEF Updates
<1>5. CASE RecvTxAccepted
  <2>1. /\ UNCHANGED <<rp, global>> /\ events' = events \cup {t} /\ ~ Retransmitted(t)
        /\ Head(toServer).type = "TX"
    BY <1>5 DEF RecvTxAccepted, Recv
  <2>2. rp' <= rp
    BY <1>2, <2>1
  <2> HIDE DEF t
  <2> QED BY <1>1, <1>2, <2>1, <2>2 DEF Updates, t
<1>6. CASE RecvTxBacktrack
  <2>1. /\ global' = global /\ rp' = t.end /\ t.end < rp /\ ~ Retransmitted(t)
        /\ events' = StartedBy(events \cup {t}, rp') /\ Head(toServer).type = "TX"
        /\ Recv("TX")
    BY <1>6 DEF RecvTxBacktrack, Recv
  <2>2. rp' <= rp
    <3>1. t.end \in Nat
      BY <2>1, TxIsTransmission, EventIs
    <3> HIDE DEF t
    <3> QED BY <1>2, <2>1, <3>1
  <2>3. /\ \A e \in events : e.start <= rp' => e \in events'
        /\ \A e \in events' : e \in events \/ e = t
        /\ t.start <= rp' => t \in events'
    <3> HIDE DEF t
    <3> QED BY <2>1 DEF StartedBy
  <2> HIDE DEF t
  <2> QED BY <1>1, <1>2, <2>1, <2>2, <2>3 DEF Updates, t
<1> QED BY <1>3, <1>4, <1>5, <1>6 DEF SrvListen

\* What is known of the bytes of n, and what is read.
LEMMA UpdatesEvents ==
  ASSUME TypeInv, OnePacket, Updates, NEW n \in Nodes
  PROVE  LET p == Head(toServer)
             E == EventsOf(n)
             F == EventsOf(n)'
         IN  /\ \A e \in E : e.start <= rp' => e \in F
             /\ \A e \in F : /\ e.start <= rp'
                             /\ e \in E \/ (Starts(p, n, global, e)
                                            /\ \A f \in E : f.seq # e.seq)
             /\ TxIs(p, n) /\ global + p.period <= rp' => p.seq \in Noted(NumbersOf(n), F)
<1> DEFINE p == Head(toServer)
           t == TxOf(p)
           E == EventsOf(n)
           F == EventsOf(n)'
<1>1. \A e \in E : e.start <= rp' => e \in F
  BY DEF EventsOf, Updates
<1>2. /\ t.node = p.node /\ t.seq = p.seq /\ t.start = global + p.period
  BY DEF TxOf
<1>3. ASSUME NEW e \in F
      PROVE  /\ e.start <= rp'
             /\ e \in E \/ (Starts(p, n, global, e) /\ \A f \in E : f.seq # e.seq)
  <2>1. e \in events' /\ e.node = n
    BY <1>3 DEF EventsOf
  <2>2. /\ e.start <= rp'
        /\ e \in events \/ (p.type = "TX" /\ e = t /\ ~ Retransmitted(t))
    BY <2>1 DEF Updates
  <2>3. CASE e \in events
    BY <2>1, <2>2, <2>3 DEF EventsOf
  <2>4. CASE p.type = "TX" /\ e = t /\ ~ Retransmitted(t)
    <3>1. Starts(p, n, global, e)
      BY <1>2, <2>1, <2>4 DEF Starts, TxIs
    <3>2. ASSUME NEW f \in E PROVE f.seq # e.seq
      <4>1. f \in packets /\ f.node = n
        BY <3>2 DEF EventsOf, OnePacket
      <4> QED BY <2>1, <2>4, <4>1 DEF Retransmitted
    <3> QED BY <2>2, <3>1, <3>2
  <2> QED BY <2>2, <2>3, <2>4
<1>4. ASSUME TxIs(p, n), global + p.period <= rp' PROVE p.seq \in Noted(NumbersOf(n), F)
  <2>1. Tag(t) \in Delivered \/ \E e \in events' : Tag(e) = Tag(t)
    BY <1>2, <1>4 DEF Updates, TxIs
  <2>2. Tag(t) = <<n, p.seq>>
    BY <1>2, <1>4 DEF Tag, TxIs
  <2>3. p.seq \in Nat
    <3>1. p \in ClientPkt
      BY TailIs DEF TypeInv, NetType, Updates
    <3> QED BY <1>4, <3>1, ClientFields DEF TxIs
  <2>4. CASE Tag(t) \in Delivered
    BY <2>2, <2>3, <2>4, NumberOf DEF Noted
  <2>5. ASSUME NEW e \in events', Tag(e) = Tag(t) PROVE p.seq \in Noted(NumbersOf(n), F)
    BY <2>2, <2>5 DEF Tag, EventsOf, Noted
  <2> QED BY <2>1, <2>4, <2>5
<1> QED BY <1>1, <1>3, <1>4

LEMMA UpdatesAccount ==
  ASSUME TypeInv, TypeInv', UNCHANGED cltVars, OnePacket, Updates, NEW n \in Nodes,
         Account(n), Releasing(n)' <=> Releasing(n)
  PROVE  Account(n)'
<1> DEFINE p == Head(toServer)
           q == prog[n]
           u == Base(n)
           v == OnAir(n)
           D == NumbersOf(n)
           E == EventsOf(n)
           F == EventsOf(n)'
           lim == Limit(n)
           new == Limit(n)'
           w == toServer
<1>1. /\ Base(n)' = u /\ OnAir(n)' = v /\ prog'[n] = q /\ NumbersOf(n)' = D
      /\ toServer' = Tail(toServer) /\ global' = global /\ toServer # <<>>
  <2>1. Delivered' = Delivered
    BY DeliveredSame DEF Updates
  <2> QED BY <2>1 DEF cltVars, Base, OnAir, NumbersOf, Updates
<1>2. /\ q \in Seq(Nat) /\ u \in Air /\ v \in Air /\ lim \in Nat /\ global \in Nat
      /\ E \in SUBSET Transmission /\ D \in SUBSET Nat /\ w \in Seq(ClientPkt)
      /\ u.now \in Nat /\ rp \in Nat /\ global <= rp
  BY AccountTypes
<1>3. /\ F \in SUBSET Transmission /\ rp' \in Nat /\ global <= rp'
  BY <1>1 DEF TypeInv, SrvTypeOK, Dates, EventsOf
<1>4. /\ new \in Nat /\ new <= lim /\ u.now + rp' = new + global
      /\ \A x \in Nat : x + u.now <= new => global + x <= rp'
  <2>1. lim = u.now + (rp - global) /\ new = u.now + (rp' - global)
    BY <1>1 DEF Limit
  <2>2. rp' <= rp
    BY DEF Updates
  <2>3. \A a, b, c, d \in Nat : a <= b /\ a <= c /\ c <= b =>
          /\ d + (c - a) \in Nat /\ d + (c - a) <= d + (b - a)
          /\ d + c = (d + (c - a)) + a
          /\ \A x \in Nat : x + d <= d + (c - a) => a + x <= c
    OBVIOUS
  <2> HIDE DEF u, lim, new
  <2> QED BY SMTT(20), <1>2, <1>3, <2>1, <2>2, <2>3
<1>5. /\ \A e \in E : e.start <= rp' => e \in F
      /\ \A e \in F : /\ e.start <= rp'
                      /\ e \in E \/ (Starts(p, n, global, e) /\ \A f \in E : f.seq # e.seq)
      /\ TxIs(p, n) /\ global + p.period <= rp' => p.seq \in Noted(D, F)
  BY UpdatesEvents
<1>6. p = w[1] /\ 1 \in 1..Len(w) /\ p \in ClientPkt
  BY <1>1, <1>2, TailIs
<1>7. CASE ~ Releasing(n)
  <2>1. Owing(n, q, u, v, lim, global, D, E, w)
    BY <1>7 DEF Account
  <2>2. PICK d \in Timeline, m \in Nat : Story(n, q, u, v, d, m, lim, global, D, E, w)
    BY <2>1 DEF Owing
  <2>3. TxIs(p, n) /\ p.period + u.now <= new => p.seq \in Noted(D, F)
    <3>1. TxIs(p, n) => p.period \in Nat
      BY <1>6, ClientFields DEF TxIs
    <3> HIDE DEF p, u, new, D, F
    <3> QED BY <1>4, <1>5, <3>1
  <2>4. \E k \in Nat : Story(n, q, u, v, d, k, new, global, D, F, Tail(w))
    <3> HIDE DEF q, u, v, D, E, F, lim, new, w
    <3> QED BY <1>1, <1>2, <1>3, <1>4, <1>5, <2>2, <2>3, StoryRead DEF w
  <2>5. Owing(n, q, u, v, new, global, D, F, Tail(w))
    BY <2>4 DEF Owing
  <2> QED BY <1>1, <1>7, <2>5 DEF Account
<1>8. CASE Releasing(n)
  <2>1. Fulfilled(q, u, v, global, D, E) /\ NoTx(w, n)
    BY <1>8 DEF Account, Settles
  <2>2. \A e \in E : e.start <= global /\ e.start \in Nat
    BY <1>2, <2>1, EventIs DEF Fulfilled
  <2>3. ~ TxIs(p, n)
    BY <1>6, <2>1 DEF NoTx
  <2>4. F = E
    <3>1. \A e \in E : e \in F
      BY <1>2, <1>3, <1>5, <2>2
    <3>2. \A e \in F : e \in E
      BY <1>5, <2>3 DEF Starts
    <3> HIDE DEF E, F
    <3> QED BY <3>1, <3>2
  <2>5. NoTx(Tail(w), n)
    BY <1>1, <1>2, <2>1, TailIs DEF NoTx
  <2>6. Settles(n, q, u, v, global, D, F, Tail(w))
    BY <2>1, <2>4, <2>5 DEF Settles
  <2> QED BY <1>1, <1>8, <2>6 DEF Account
<1> QED BY <1>7, <1>8

\* What a step of the server leaves.
LEMMA ServerStays ==
  ASSUME UNCHANGED cltVars, NEW n
  PROVE  /\ Inside(n)' <=> Inside(n)
         /\ Motion(n)' <=> Motion(n)
         /\ Base(n)' = Base(n) /\ OnAir(n)' = OnAir(n)
         /\ prog'[n] = prog[n] /\ pc'[n] = pc[n] /\ bt'[n] = bt[n]
<1>1. /\ pc'[n] = pc[n] /\ bt'[n] = bt[n] /\ backup'[n] = backup[n] /\ prog'[n] = prog[n]
  BY DEF cltVars
<1>2. Base(n)' = Base(n) /\ OnAir(n)' = OnAir(n)
  BY <1>1 DEF Base, OnAir
<1>3. DueThere(n)' <=> DueThere(n)
  BY <1>1, <1>2 DEF DueThere
<1>4. Motion(n)' <=> Motion(n)
  BY <1>1, <1>2, <1>3 DEF Motion
<1> QED BY <1>1, <1>2, <1>4 DEF Inside, Live

LEMMA ListenBalanced ==
  ASSUME Tame, NEW T, Known(T), Ledger, OnePacket', SrvListen, UNCHANGED cltVars,
         spc' = "listen", TypeInv', NEW n \in Nodes
  PROVE  Balanced(n)'
<1>1. TypeInv /\ Members /\ Member(n) /\ NetType /\ OnePacket /\ Balanced(n)
  BY DEF Known, TypeInv, Members, Ledger
<1>2. SUFFICES ASSUME Inside(n) PROVE Motion(n)' /\ Windows(n)' /\ Account(n)'
  BY ServerStays DEF Balanced
<1>3. Motion(n)' /\ Windows(n) /\ Account(n)
  BY <1>1, <1>2, ServerStays DEF Balanced
<1>4. Updates /\ spc = "listen"
  BY <1>1, ListenUpdates, ListenReads
<1>5. CASE UNCHANGED <<rp, mcast>>
  <2>1. Windows(n)'
    BY <1>3, <1>4, <1>5 DEF Windows, Updates
  <2>2. Releasing(n)' <=> Releasing(n)
    BY <1>4, <1>5, ReleasingSame
  <2> QED BY <1>1, <1>3, <1>4, <2>1, <2>2, UpdatesAccount
<1>6. CASE RecvTxBacktrack
  <2>1. /\ Sends(BacktrackTo) /\ BacktrackTo \in McastPkt
        /\ rp' = TxOf(Head(toServer)).end /\ global' = global /\ rp' < rp
    BY <1>1, <1>6, BacktrackTypes DEF Sends
  <2>2. BacktrackTo.type = "BACKTRACK" /\ BacktrackTo.period = rp' - global
    BY <2>1 DEF BacktrackTo, BacktrackPkt
  <2>3. \/ mcast'[n] = mcast[n] /\ mcast[n] = <<>>
        \/ mcast'[n] = Append(mcast[n], BacktrackTo)
    <3>1. CASE Live(n)
      <4>1. Live(n)'
        BY <3>1, ServerStays DEF Live
      <4> QED BY <1>1, <2>1, <4>1, SendsTo
    <3>2. CASE ~ Live(n)
      <4>1. n \notin joined /\ mcast[n] = <<>>
        BY <1>1, <3>2 DEF Member
      <4>2. mcast'[n] = mcast[n]
        BY <2>1, <4>1 DEF Sends, SentTo
      <4> QED BY <4>1, <4>2
    <3> QED BY <3>1, <3>2
  <2>4. CASE mcast'[n] = mcast[n] /\ mcast[n] = <<>>
    <3>1. Windows(n)'
      BY <2>4 DEF Windows
    <3>2. Releasing(n)' <=> Releasing(n)
      BY <1>4, <2>4, ReleasingSame
    <3> QED BY <1>1, <1>3, <1>4, <3>1, <3>2, UpdatesAccount
  <2>5. CASE mcast'[n] = Append(mcast[n], BacktrackTo)
    <3>1. /\ Len(mcast'[n]) = Len(mcast[n]) + 1 /\ Len(mcast[n]) \in Nat
          /\ mcast'[n][Len(mcast[n]) + 1] = BacktrackTo
          /\ \A i \in 1..Len(mcast[n]) : mcast'[n][i] = mcast[n][i]
          /\ \A i \in 1..Len(mcast'[n]) : i \in 1..Len(mcast[n]) \/ i = Len(mcast[n]) + 1
      BY <1>1, <2>1, <2>5, AppendedTo DEF NetType
    <3>2. Windows(n)'
      <4>1. SUFFICES ASSUME NEW i \in 1..Len(mcast'[n]), mcast'[n][i].type = "BACKTRACK"
                     PROVE  mcast'[n][i].period >= rp' - global'
        BY DEF Windows
      <4>2. CASE i \in 1..Len(mcast[n])
        <5>1. mcast[n][i].period >= rp - global /\ mcast'[n][i] = mcast[n][i]
          BY <1>3, <1>4, <3>1, <4>1, <4>2 DEF Windows
        <5>2. mcast[n][i].period \in Nat
          <6>1. mcast[n][i] \in McastPkt
            BY <1>1, <4>2 DEF NetType
          <6> QED BY <3>1, <4>1, <4>2, <6>1, McastFields
        <5>3. rp \in Nat /\ global \in Nat /\ rp' \in Nat
          BY <1>1 DEF TypeInv, SrvTypeOK
        <5>4. \A a, b, c, d \in Nat : a >= b - c /\ d < b => a >= d - c
          OBVIOUS
        <5>5. mcast[n][i].period >= rp' - global
          BY <2>1, <5>1, <5>2, <5>3, <5>4
        <5> QED BY <2>1, <5>1, <5>5
      <4>3. CASE i = Len(mcast[n]) + 1
        <5>1. rp' - global \in Int
          BY <1>1 DEF TypeInv, SrvTypeOK
        <5>2. mcast'[n][i].period = rp' - global
          BY <2>2, <3>1, <4>3
        <5> QED BY <2>1, <5>1, <5>2
      <4> QED BY <3>1, <4>2, <4>3
    <3>3. Releasing(n)' <=> Releasing(n)
      <4>1. \A i \in 1..Len(mcast'[n]) : mcast'[n][i].type \in ReleaseTypes =>
              i \in 1..Len(mcast[n]) /\ mcast'[n][i] = mcast[n][i]
        BY <2>2, <3>1 DEF ReleaseTypes
      <4>2. \A i \in 1..Len(mcast[n]) : i \in 1..Len(mcast'[n]) /\ mcast'[n][i] = mcast[n][i]
        BY <3>1
      <4> QED BY <1>4, <4>1, <4>2 DEF Releasing
    <3> QED BY <1>1, <1>3, <1>4, <3>2, <3>3, UpdatesAccount
  <2> QED BY <2>3, <2>4, <2>5
<1> QED BY <1>1, <1>5, <1>6, ListenReads

\* At the barrier nothing of a blocked node is on its way.
LEMMA LineSilent ==
  ASSUME NEW w \in Seq(ClientPkt), NEW A, NEW B, NEW r, InLine(w, A, B, r),
         Cardinality(SynchedAt(w, r)) = 0, NEW a \in B
  PROVE  NoTx(w, a)
<1>1. SynchedAt(w, r) = {}
  BY SynchedFinite, FS_EmptySet
<1> QED BY <1>1 DEF NoTx, TxIs, InLine, Queued, SynchedAt

\* The barrier opens.
LEMMA ServerOpens ==
  ASSUME TypeInv, SrvListen, spc' = "core"
  PROVE  /\ UNCHANGED <<rp, rp_seq, events, delivered, mcast>> /\ global' = rp
         /\ Head(toServer).type # "TX"
<1>1. CASE RecvDisconnect \/ RecvSynched
  <2>1. /\ UNCHANGED <<rp, rp_seq, delivered, mcast>> /\ spc = "listen"
        /\ Head(toServer).type # "TX"
    BY <1>1 DEF RecvDisconnect, RecvSynched, Recv
  <2>2. events' = events /\ global' = rp
    BY <1>1, <2>1 DEF RecvDisconnect, RecvSynched, BarrierCheck
  <2> QED BY <2>1, <2>2
<1>2. CASE RecvConnect \/ RecvTxDropped \/ RecvTxAccepted \/ RecvTxBacktrack
  <2>1. spc' = spc /\ spc = "listen"
    BY <1>2 DEF RecvConnect, RecvTxDropped, RecvTxAccepted, RecvTxBacktrack, srvVars, Recv
  <2> QED BY <2>1
<1> QED BY <1>1, <1>2 DEF SrvListen

\* A node that is up to date has the rendez-vous of the server, and has sent
\* nothing after it.
LEMMA NearLimit ==
  ASSUME NEW T, Known(T), Orderly, AllPaced, NEW n \in Nodes, Motion(n), UpToDate(n)
  PROVE  /\ Limit(n) = bt[n].next_rp /\ OnAir(n).timer - ByteTime[n] <= Limit(n)
         /\ OnAir(n).now = bt[n].now /\ OnAir(n).seq = bt[n].tx_pkt_seq
<1>0. TypeInv /\ Inside(n)
  BY DEF Known, UpToDate, Inside
<1>1. bt[n].next_rp - bt[n].last_rp = rp - global
  BY AgreesWhen DEF Trail, ViewAgrees
<1>2. /\ Base(n).now = bt[n].last_rp /\ OnAir(n).now = bt[n].now
      /\ OnAir(n).seq = bt[n].tx_pkt_seq /\ bt[n] \in Machine /\ OnAir(n) \in Air
  BY <1>0, BaseDate
<1>3. OnAir(n).timer <= bt[n].next_rp + ByteTime[n]
  BY DEF Motion, Moves
<1>4. /\ bt[n].now \in Nat /\ bt[n].next_rp \in Nat /\ bt[n].last_rp \in Nat
      /\ OnAir(n).timer \in Nat /\ rp \in Nat /\ global \in Nat /\ ByteTime[n] \in Nat
  BY <1>0, <1>2, MachineFields, AirFields, ByteTimeIs DEF TypeInv, SrvTypeOK
<1>5. Limit(n) = bt[n].next_rp
  <2>1. Limit(n) = bt[n].last_rp + (rp - global)
    BY <1>2 DEF Limit
  <2>2. \A a, b, c, d \in Nat : a - b = c - d => b + (c - d) = a
    OBVIOUS
  <2> QED BY <1>1, <1>4, <2>1, <2>2
<1>6. OnAir(n).timer - ByteTime[n] <= Limit(n)
  BY <1>3, <1>4, <1>5
<1> QED BY <1>2, <1>5, <1>6

\* A node is at the rendez-vous when the barrier opens.
LEMMA AtTheBarrier ==
  ASSUME NEW T, Known(T), Orderly, Shapes, AllPaced, NEW n \in Nodes, Motion(n),
         Blocked(n), spc = "listen"
  PROVE  /\ ~ Releasing(n) /\ Limit(n) <= OnAir(n).now
         /\ OnAir(n).timer - ByteTime[n] <= Limit(n)
<1>0. /\ TypeInv /\ NodeOrder(n) /\ pc[n] = "synched" /\ bt[n].pending
      /\ bt[n].rp_seq = rp_seq /\ Live(n) /\ Inside(n) /\ rp_seq \in Nat
  BY DEF Known, TypeInv, SrvTypeOK, Orderly, Blocked, Live, Inside
<1>1. mcast[n] = <<>>
  <2>1. IsBehind(n)
    BY <1>0 DEF Shapes, Shape
  <2> QED BY <1>0, <2>1 DEF IsBehind
<1>2. ~ Releasing(n)
  BY <1>1 DEF Releasing
<1>3. /\ Limit(n) = bt[n].next_rp /\ OnAir(n).timer - ByteTime[n] <= Limit(n)
      /\ OnAir(n).now = bt[n].now
  BY <1>0, <1>1, NearLimit DEF UpToDate
<1>4. bt[n].next_rp <= bt[n].now
  <2>1. bt[n].now >= bt[n].next_rp
    BY <1>0 DEF NodeOrder, Waiting
  <2>2. bt[n].now \in Nat /\ bt[n].next_rp \in Nat
    BY <1>0, MachineFields DEF TypeInv, CltTypeOK
  <2> QED BY <2>1, <2>2
<1> QED BY <1>2, <1>3, <1>4

LEMMA OpensBalanced ==
  ASSUME NEW T, Known(T), Orderly, Shapes, AllPaced, Ledger, SrvListen, UNCHANGED cltVars,
         spc' = "core", TypeInv', Members', Orderly', InFlight', NEW n \in Nodes
  PROVE  Balanced(n)'
<1>1. TypeInv /\ NetType /\ OnePacket /\ Balanced(n)
  BY DEF Known, TypeInv, Ledger
<1>2. /\ UNCHANGED <<rp, rp_seq, events, delivered, mcast>> /\ global' = rp
      /\ spc = "listen" /\ toServer # <<>> /\ toServer' = Tail(toServer)
  BY <1>1, ServerOpens, ListenReads
<1>3. SUFFICES ASSUME Inside(n) PROVE Motion(n)' /\ Windows(n)' /\ Account(n)'
  BY ServerStays DEF Balanced
<1>4. Motion(n) /\ Account(n) /\ Motion(n)'
  BY <1>1, <1>3, ServerStays DEF Balanced
<1>5. Windows(n)'
  BY DEF Windows
<1>6. n \in Blocks' /\ Unheard' = 0
  <2>1. n \in active'
    BY <1>3, ServerStays DEF Members, Member
  <2> QED BY <2>1 DEF Orderly, Barrier
<1>7. Blocked(n)
  <2>1. Blocked(n)'
    BY <1>6 DEF Blocks
  <2> QED BY <1>2, <2>1, ServerStays DEF Blocked
<1>8. NoTx(toServer', n)
  <2>1. toServer' \in Seq(ClientPkt)
    BY DEF TypeInv, NetType
  <2>2. Cardinality(SynchedAt(toServer', rp_seq')) = 0
    BY <1>6 DEF Unheard
  <2>3. InLine(toServer', active', Blocks', rp_seq')
    BY DEF InFlight
  <2> QED BY <1>6, <2>1, <2>2, <2>3, LineSilent
<1> DEFINE q == prog[n]
           u == Base(n)
           v == OnAir(n)
           D == NumbersOf(n)
           E == EventsOf(n)
           lim == Limit(n)
           w == toServer
<1>9. NoTx(w, n)
  <2>1. Head(toServer) = toServer[1] /\ ~ TxIs(Head(toServer), n)
    BY <1>1, <1>2, ServerOpens, TailOf DEF TxIs
  <2>2. \A i \in 1..Len(toServer) : i = 1 \/ (i - 1 \in 1..Len(toServer')
                                              /\ toServer'[i - 1] = toServer[i])
    <3>1. toServer \in Seq(ClientPkt)
      BY <1>1 DEF NetType
    <3> QED BY <1>2, <3>1
  <2> QED BY <1>8, <2>1, <2>2 DEF NoTx
<1>10. /\ ~ Releasing(n) /\ lim <= v.now /\ v.timer - ByteTime[n] <= lim
  BY <1>2, <1>3, <1>4, <1>7, AtTheBarrier
<1>11. PICK d \in Timeline, m \in Nat : Story(n, q, u, v, d, m, lim, global, D, E, w)
  BY <1>4, <1>10 DEF Account, Owing
<1>12. /\ q \in Seq(Nat) /\ u \in Air /\ v \in Air /\ lim \in Nat /\ global \in Nat
       /\ rp \in Nat /\ global <= rp /\ D \in SUBSET Nat /\ E \in SUBSET Transmission
       /\ w \in Seq(ClientPkt) /\ u.now \in Nat
  BY <1>1, AccountTypes
<1>13. u.now + rp = lim + global
  <2>1. lim = u.now + (rp - global)
    BY DEF Limit
  <2>2. \A a, b, c \in Nat : a + b = (a + (b - c)) + c
    OBVIOUS
  <2> HIDE DEF u, lim
  <2> QED BY <1>12, <2>1, <2>2
<1>14. OnGrid(n, u, v.now) /\ 0 <= u.torn /\ u.torn <= v.torn
  BY <1>4 DEF Motion, Moves
<1>15. \A e \in E : e.start <= rp
  BY <1>1 DEF OnePacket, EventsOf
<1>16. Fulfilled(q, u, v, rp, D, E)
  <2> HIDE DEF q, u, v, D, E, lim, w
  <2> QED BY <1>9, <1>10, <1>11, <1>12, <1>13, <1>14, <1>15, StoryEnds
<1>17. Releasing(n)'
  BY DEF Releasing
<1>18. NumbersOf(n)' = D /\ EventsOf(n)' = E /\ Base(n)' = u /\ OnAir(n)' = v /\ prog'[n] = q
  BY <1>2, ServerStays, DeliveredSame DEF NumbersOf, EventsOf
<1>19. Account(n)'
  BY <1>2, <1>8, <1>16, <1>17, <1>18 DEF Account, Settles
<1> QED BY <1>4, <1>5, <1>19

LEMMA CoreBalanced ==
  ASSUME Tame, NEW T, Known(T), Orderly, Shapes, Ledger, SrvCore, UNCHANGED cltVars,
         TypeInv', NEW n \in Nodes
  PROVE  Balanced(n)'
<1>0. /\ TypeInv /\ NetType /\ Members /\ Punctual /\ OnePacket /\ Balanced(n)
      /\ delivered \in Seq(Transmission)
  BY DEF Known, TypeInv, SrvTypeOK, Ledger
<1>1. spc = "core" /\ global' = global /\ toServer' = toServer
  BY DEF SrvCore, CoreIdle, CoreWait, CoreTx, schedVars
<1>2. HandsNothing \/ \E e \in Transmission : HandsOver(e)
  BY <1>0, CoreIs
<1>3. spc' \in {"core", "listen"}
  BY <1>2 DEF HandsNothing, HandsOver
<1>4. PICK p \in McastPkt : /\ Sends(p)
                            /\ \/ p.type \in ReleaseTypes /\ spc' = "listen"
                               \/ p.type = "RX" /\ spc' = "core"
  BY <1>0, <1>3, CoreTypes DEF Releases, Hands, Desynchronizes
<1>5. SUFFICES ASSUME Inside(n) PROVE Motion(n)' /\ Windows(n)' /\ Account(n)'
  BY ServerStays DEF Balanced
<1>6. Motion(n)' /\ Account(n)
  BY <1>0, <1>5, ServerStays DEF Balanced
<1>7. Live(n)
  <2>1. pc[n] # "joining"
    BY <1>0, <1>1, CoreStarted DEF Started
  <2> QED BY <1>5, <2>1 DEF Inside
<1>8. mcast'[n] = Append(mcast[n], p) /\ mcast[n] \in Seq(McastPkt)
  <2>1. Live(n)'
    BY <1>7, ServerStays DEF Live
  <2> QED BY <1>0, <1>4, <2>1, SendsTo
<1>9. /\ Len(mcast'[n]) = Len(mcast[n]) + 1 /\ Len(mcast[n]) \in Nat
      /\ mcast'[n][Len(mcast[n]) + 1] = p
      /\ \A i \in 1..Len(mcast[n]) : mcast'[n][i] = mcast[n][i]
      /\ \A i \in 1..Len(mcast'[n]) : i \in 1..Len(mcast[n]) \/ i = Len(mcast[n]) + 1
  BY <1>8, AppendedTo
<1>10. Windows(n)'
  <2>1. \A i \in 1..Len(mcast[n]) : mcast[n][i].type = "RX"
    BY <1>1, <1>7 DEF Shapes, Shape, BytesOnly
  <2>2. p.type # "BACKTRACK"
    BY <1>4 DEF ReleaseTypes
  <2>3. \A i \in 1..Len(mcast'[n]) : mcast'[n][i].type # "BACKTRACK"
    BY <1>9, <2>1, <2>2
  <2> QED BY <2>3 DEF Windows
<1>11. Releasing(n)'
  <2>1. CASE p.type \in ReleaseTypes
    <3>1. Len(mcast[n]) + 1 \in 1..Len(mcast'[n])
      BY <1>9
    <3> QED BY <1>9, <2>1, <3>1 DEF Releasing
  <2> QED BY <1>4, <2>1 DEF Releasing
<1> DEFINE q == prog[n]
           u == Base(n)
           v == OnAir(n)
           D == NumbersOf(n)
           E == EventsOf(n)
<1>12. Base(n)' = u /\ OnAir(n)' = v /\ prog'[n] = q
  BY ServerStays
<1>13. Fulfilled(q, u, v, global, D, E) /\ NoTx(toServer, n)
  <2>1. Releasing(n)
    BY <1>1 DEF Releasing
  <2> QED BY <1>6, <2>1 DEF Account, Settles
<1>14. Fulfilled(q, u, v, global, NumbersOf(n)', EventsOf(n)')
  <2>1. CASE HandsNothing
    <3>1. NumbersOf(n)' = D /\ EventsOf(n)' = E
      BY <2>1, DeliveredSame DEF HandsNothing, schedVars, NumbersOf, EventsOf
    <3> QED BY <1>13, <3>1
  <2>2. ASSUME NEW e \in Transmission, HandsOver(e)
        PROVE  Fulfilled(q, u, v, global, NumbersOf(n)', EventsOf(n)')
    <3>1. /\ e \in events /\ e.end = global /\ events' = events \ {e}
          /\ delivered' = Append(delivered, e)
      BY <2>2 DEF HandsOver
    <3>2. Delivered' = Delivered \cup {<<e.node, e.seq>>}
      BY <1>0, <3>1, DeliveredIs DEF Tag
    <3>3. e.seq \in Nat /\ e.start \in Nat
      BY EventIs
    <3>4. CASE e.node = n
      <4>1. EventsOf(n)' = E \ {e} /\ e \in E
        BY <3>1, <3>4 DEF EventsOf
      <4>2. NumbersOf(n)' = D \cup {e.seq}
        BY <3>2, <3>3, <3>4 DEF NumbersOf
      <4>3. e.start # global
        <5>1. e.start < e.end
          BY <1>0, <3>1 DEF OnePacket
        <5> QED BY <3>1, <3>3, <5>1
      <4>4. v \in Air /\ E \in SUBSET Transmission
        BY <1>0, AccountTypes
      <4> HIDE DEF q, u, v, D, E
      <4>5. Fulfilled(q, u, v, global, D \cup {e.seq}, E \ {e})
        BY <1>13, <4>1, <4>3, <4>4, FulfilledHands
      <4> QED BY <4>1, <4>2, <4>5
    <3>5. CASE e.node # n
      <4>1. EventsOf(n)' = E
        BY <3>1, <3>5 DEF EventsOf
      <4>2. NumbersOf(n)' = D
        BY <3>2, <3>5 DEF NumbersOf
      <4> QED BY <1>13, <4>1, <4>2
    <3> QED BY <3>4, <3>5
  <2> QED BY <1>2, <2>1, <2>2
<1>15. Account(n)'
  BY <1>1, <1>11, <1>12, <1>13, <1>14 DEF Account, Settles
<1> QED BY <1>6, <1>10, <1>15

LEMMA ServerLedger ==
  ASSUME Tame, CanStop = {}, NEW T, Known(T), Orderly, Shapes, AllPaced, Ledger, Server,
         TypeInv', Members', Orderly'
  PROVE  Ledger'
<1>1. /\ TypeInv /\ Punctual /\ Ended /\ Silence /\ InFlight /\ OnePacket
      /\ SrvNext /\ UNCHANGED cltVars
  BY DEF Known, Ledger, Server
<1>2. Punctual'
  <2>1. [Next]_vars
    BY DEF Next
  <2> QED BY <1>1, <2>1, NextPunctual
<1>3. Ended' /\ Silence' /\ InFlight'
  BY <1>1, ServerEnded, ServerSilence, ServerFlight
<1>4. OnePacket'
  BY <1>1, ListenOnePacket, CoreOnePacket DEF SrvNext
<1>5. ASSUME NEW n \in Nodes PROVE Once(n)'
  <2>1. Once(n)
    BY DEF Ledger
  <2> QED BY <1>1, <2>1, ServerOnce
<1>6. ASSUME NEW n \in Nodes PROVE Balanced(n)'
  <2>1. CASE SrvCore
    BY <1>1, <2>1, CoreBalanced
  <2>2. CASE SrvListen /\ spc' = "listen"
    BY <1>1, <1>4, <2>2, ListenBalanced
  <2>3. CASE SrvListen /\ spc' = "core"
    BY <1>1, <1>3, <2>3, OpensBalanced
  <2>4. CASE spc' = "stopped"
    <3>1. ~ Inside(n)'
      BY <1>3, <2>4 DEF Ended, Members, Member
    <3> QED BY <3>1, OutsideBalanced
  <2>5. spc' \in {"listen", "core", "stopped"}
    BY <1>2 DEF Punctual, TypeInv, SrvTypeOK
  <2> QED BY <1>1, <2>1, <2>2, <2>3, <2>4, <2>5 DEF SrvNext
<1> QED BY <1>2, <1>3, <1>4, <1>5, <1>6 DEF Ledger

LEMMA StutterLedger ==
  ASSUME Ledger, UNCHANGED vars
  PROVE  Ledger'
<1>1. /\ UNCHANGED <<spc, global, rp, rp_seq, active, events, packets, delivered>>
      /\ UNCHANGED <<toServer, mcast, pc, bt, cltVars>>
  BY DEF vars, srvVars, schedVars, netVars, cltVars
<1>2. Delivered' = Delivered
  BY <1>1, DeliveredSame
<1>3. Punctual' /\ Ended'
  BY <1>1 DEF Ledger, Punctual, Ended
<1>4. Silence'
  <2>1. Quiet' <=> Quiet
    BY <1>1 DEF Quiet
  <2> QED BY <1>1, <2>1 DEF Ledger, Silence
<1>5. InFlight'
  <2>1. Blocks' = Blocks
    BY <1>1 DEF Blocks, Blocked
  <2>2. InFlight
    BY DEF Ledger
  <2> QED BY <1>1, <2>1, <2>2 DEF InFlight
<1>6. OnePacket'
  BY <1>1, <1>2 DEF Ledger, OnePacket
<1>7. ASSUME NEW n \in Nodes PROVE Once(n)' /\ Balanced(n)'
  <2>1. /\ Inside(n)' <=> Inside(n)
        /\ Motion(n)' <=> Motion(n)
        /\ Base(n)' = Base(n) /\ OnAir(n)' = OnAir(n) /\ prog'[n] = prog[n]
    BY <1>1, ServerStays
  <2>2. Once(n) /\ Balanced(n)
    BY DEF Ledger
  <2>3. Once(n)'
    BY <1>1, <1>2, <2>1, <2>2 DEF Once, Twice
  <2>4. Windows(n)' <=> Windows(n)
    BY <1>1 DEF Windows
  <2>5. /\ Releasing(n)' <=> Releasing(n)
        /\ EventsOf(n)' = EventsOf(n) /\ NumbersOf(n)' = NumbersOf(n)
        /\ Limit(n)' = Limit(n)
    BY <1>1, <1>2, <2>1 DEF Releasing, EventsOf, NumbersOf, Limit
  <2>6. Account(n)' <=> Account(n)
    BY <1>1, <2>1, <2>5 DEF Account
  <2> QED BY <2>1, <2>2, <2>3, <2>4, <2>6 DEF Balanced
<1> QED BY <1>3, <1>4, <1>5, <1>6, <1>7 DEF Ledger

\* The account of a simulation without faults.
Accounted == Tame /\ CanStop = {} => Ledger

LEMMA InitLedger == Init => Accounted
<1> SUFFICES ASSUME Init PROVE Ledger
  BY DEF Accounted
<1>1. /\ spc = "listen" /\ active = {} /\ events = {} /\ packets = {} /\ delivered = <<>>
      /\ toServer = <<>> /\ \A n \in Nodes : pc[n] = "off"
  BY DEF Init, NetInit, SrvInit, CltInit
<1>2. Len(toServer) = 0 /\ Len(delivered) = 0
  BY <1>1
<1>3. Punctual /\ Ended /\ Silence /\ OnePacket
  BY <1>1 DEF Punctual, Ended, Silence, OnePacket
<1>4. InFlight
  BY <1>2 DEF InFlight, InLine
<1>5. ASSUME NEW n \in Nodes PROVE Once(n) /\ Balanced(n)
  <2>1. Balanced(n)
    BY <1>1 DEF Balanced, Inside, Live
  <2> QED BY <1>1, <1>2, <2>1 DEF Once
<1> QED BY <1>3, <1>4, <1>5 DEF Ledger

LEMMA NextLedger ==
  /\ Trail /\ Ordered /\ Shaped /\ Timed /\ InPace /\ Accounted
  /\ Trail' /\ Ordered' /\ [Next]_vars
  => Accounted'
<1> SUFFICES ASSUME Tame, CanStop = {}, Trail, Trail', Orderly, Orderly', Shapes, Clocks,
                    AllPaced, Ledger, [Next]_vars
             PROVE  Ledger'
  BY DEF Ordered, Shaped, Timed, InPace, Accounted, Tame
<1>1. PICK T : Known(T)
  BY DEF Trail
<1>2. TypeInv' /\ Members'
  BY DEF Trail, Known
<1>3. CASE Server
  BY <1>1, <1>2, <1>3, ServerLedger
<1>4. ASSUME NEW n \in Nodes, Node(n) \/ User(n) PROVE Ledger'
  BY <1>1, <1>2, <1>4, NodeLedger DEF Node, User
<1>5. CASE UNCHANGED vars
  BY <1>5, StutterLedger
<1> QED BY <1>3, <1>4, <1>5 DEF Next, Finished

\* Whatever is sent again after a BACKTRACK, the accounts of the nodes, of the
\* network and of the server stay those of one timeline per node.
THEOREM LedgerAlways == Spec => [](Trail /\ Ordered /\ Shaped /\ Timed /\ InPace /\ Accounted)
<1>1. Trail /\ Ordered /\ Shaped /\ Timed /\ InPace /\ Accounted /\ (Trail /\ Ordered)'
        /\ [Next]_vars => Accounted'
  BY NextLedger
<1> QED BY <1>1, InitPaced, NextPaced, InitLedger, ClockAlways, PTL DEF Spec

-----------------------------------------------------------------------------
(* What follows from the account. *)

\* What a node has sent and the server does not know is on its way.
LEMMA LostWhen ==
  ASSUME Trail, Orderly, Shapes, Clocks, AllPaced, Ledger
  PROVE  NoTxLost
<1> SUFFICES ASSUME spc # "stopped", NEW n \in Nodes, Live(n),
                    \A i \in 1..Len(mcast[n]) : mcast[n][i].type # "BACKTRACK",
                    NEW s \in 0..bt[n].tx_pkt_seq - 1
             PROVE  <<n, s>> \in TxInFlight \cup Scheduled \cup Delivered
  BY DEF NoTxLost
<1>0. PICK T : Known(T)
  BY DEF Trail
<1>1. /\ TypeInv /\ Inside(n) /\ Motion(n) /\ Account(n) /\ Clock(n)
      /\ mcast[n] \in Seq(McastPkt)
  BY <1>0 DEF Known, Inside, Ledger, Balanced, Clocks, TypeInv, NetType
<1>2. OnAir(n).seq = bt[n].tx_pkt_seq /\ OnAir(n) \in Air
  BY <1>0, <1>1, BaseDate
<1>3. s \in Nat /\ s < OnAir(n).seq /\ OnAir(n).seq \in Nat
  BY <1>2, AirFields
<1> DEFINE u == Base(n)
           v == OnAir(n)
           D == NumbersOf(n)
           E == EventsOf(n)
<1>4. s \in D => <<n, s>> \in Delivered
  BY <1>3, NumberOf
<1>5. ASSUME NEW e \in E, e.seq = s PROVE <<n, s>> \in Scheduled
  BY <1>5 DEF EventsOf, Scheduled
<1>6. CASE Releasing(n)
  <2>1. Settled(global, D, E, v.seq)
    BY <1>1, <1>6 DEF Account, Settles, Fulfilled
  <2>2. s \in D \/ \E e \in E : e.seq = s
    BY <1>3, <2>1 DEF Settled
  <2> QED BY <1>4, <1>5, <2>2
<1>7. CASE ~ Releasing(n)
  <2>1. mcast[n] = <<>>
    <3>1. ASSUME NEW i \in 1..Len(mcast[n]) PROVE FALSE
      <4>1. mcast[n][i].type \in {"BACKTRACK", "SYNCH_REQ", "RX", "SYNCH_REQ_RX"}
        BY <1>1, McastFields
      <4>2. mcast[n][i].type # "RX"
        BY <1>1, <1>7 DEF Clock
      <4> QED BY <1>7, <4>1, <4>2 DEF Releasing, ReleaseTypes
    <3> QED BY <1>1, <3>1
  <2>2. UpToDate(n)
    BY <1>1, <1>7, <2>1 DEF UpToDate, Releasing, TypeInv, SrvTypeOK
  <2>3. v.timer - ByteTime[n] <= Limit(n)
    BY <1>0, <1>1, <2>2, NearLimit
  <2>4. PICK d \in Timeline, m \in Nat :
          Story(n, prog[n], u, v, d, m, Limit(n), global, D, E, toServer)
    BY <1>1, <1>7 DEF Account, Owing
  <2>5. InPlan(n, prog[n], u, v, d, m, Limit(n))
    <3>1. v \in Air /\ Limit(n) \in Nat
      BY <1>1, AccountTypes
    <3> QED BY <2>3, <2>4, <3>1, NotAhead DEF Story
  <2>6. v.seq <= m /\ u.seq \in Nat
    BY <1>1, <2>5, AccountTypes, AirFields DEF InPlan
  <2>7. CASE s < u.seq
    <3>1. s \in D \/ \E e \in E : e.seq = s
      BY <1>3, <2>4, <2>7 DEF Story, Settled
    <3> QED BY <1>4, <1>5, <3>1
  <2>8. CASE ~ (s < u.seq)
    <3>1. s \in u.seq..m - 1
      BY <1>3, <2>6, <2>8
    <3>2. s \in Noted(D, E) \/ \E i \in 1..Len(toServer) : Exact(toServer[i], n, s, u, d)
      BY <2>4, <3>1 DEF Story, OnItsWay, Announces
    <3>3. CASE s \in Noted(D, E)
      BY <1>4, <1>5, <3>3 DEF Noted
    <3>4. ASSUME NEW i \in 1..Len(toServer), Exact(toServer[i], n, s, u, d)
          PROVE  <<n, s>> \in TxInFlight
      BY <3>4 DEF Exact, TxIs, TxInFlight
    <3> QED BY <3>2, <3>3, <3>4
  <2> QED BY <2>7, <2>8
<1> QED BY <1>6, <1>7

LEMMA OnceWhen ==
  ASSUME Trail, Ledger
  PROVE  OnceUnlessTorn
<1> SUFFICES ASSUME NEW i \in 1..Len(delivered), NEW j \in 1..Len(delivered), Twice(i, j)
             PROVE  Torn(delivered[i].node)
  BY DEF OnceUnlessTorn
<1> DEFINE n == delivered[i].node
<1>1. TypeInv
  BY DEF Trail, Known
<1>2. n \in Nodes
  <2>1. delivered[i] \in Transmission
    BY <1>1 DEF TypeInv, SrvTypeOK
  <2> QED BY <2>1, EventIs
<1> HIDE DEF n
<1>3. Base(n).torn # 0
  BY <1>2 DEF Ledger, Once, n
<1>4. backup[n] \in Machine
  BY <1>1, <1>2 DEF TypeInv, CltTypeOK
<1>5. /\ Radio[n] = "cc1100" => Base(n).torn = Len(backup[n].sent) - backup[n].byte
      /\ Radio[n] = "cc2420" => Base(n).torn = backup[n].byte - Len(backup[n].sent)
  BY <1>2, <1>4, AirFieldsOf DEF Base
<1>6. Len(backup[n].sent) # backup[n].byte
  <2>1. backup[n].byte \in Nat
    BY <1>4, MachineFields
  <2> QED BY <1>2, <1>3, <1>5, <2>1, RadioIs
<1> QED BY <1>6 DEF Torn, n

\* A byte a node has counted in tx_pkt_seq is on its way to the server,
\* scheduled or delivered, unless the node is about to go back and send it
\* again: no TX is forgotten by the backtracks of the nodes and of the server.
THEOREM TransmissionsKept == Spec => [](Tame /\ CanStop = {} => NoTxLost)
<1>1. Trail /\ Ordered /\ Shaped /\ Timed /\ InPace /\ Accounted
        => (Tame /\ CanStop = {} => NoTxLost)
  BY LostWhen DEF Ordered, Shaped, Timed, InPace, Accounted
<1> QED BY <1>1, LedgerAlways, PTL

\* The TX packets that a node repeats after a BACKTRACK are recognised: the
\* server hands a byte over twice only if a restore has caught the radio of
\* its sender in the middle of a byte.
THEOREM DeliveredUnlessTorn == Spec => [](Tame /\ CanStop = {} => OnceUnlessTorn)
<1>1. Trail /\ Accounted => (Tame /\ CanStop = {} => OnceUnlessTorn)
  BY OnceWhen DEF Accounted
<1> QED BY <1>1, LedgerAlways, PTL
=============================================================================
