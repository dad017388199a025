---------------------------- MODULE LibSelectProofs ----------------------------
(***************************************************************************)
(* Whatever the sizes of the buffers, a machine that goes back in time     *)
(* reads the same input again.                                             *)
(***************************************************************************)
EXTENDS LibSelect, SequenceTheorems, TLAPS

-----------------------------------------------------------------------------
(* The arithmetic of the ring. *)

\* "% FIFO_SIZE" subtracts the size of the ring at most once.
LEMMA MovedIs ==
  ASSUME NEW p \in Cells, NEW n \in 0..FIFO_SIZE
  PROVE  Moved(p, n) = IF p + n < FIFO_SIZE THEN p + n ELSE p + n - FIFO_SIZE
  BY FifoSizeAssumption, SMT DEF Moved, Cells

LEMMA MovedInCells ==
  ASSUME NEW p \in Cells, NEW n \in 0..FIFO_SIZE
  PROVE  Moved(p, n) \in Cells
  BY MovedIs, FifoSizeAssumption DEF Cells

LEMMA MovedZero ==
  ASSUME NEW p \in Cells
  PROVE  Moved(p, 0) = p
  BY MovedIs, FifoSizeAssumption DEF Cells

\* Two moves that stay within one turn of the ring make one.
LEMMA MovedMoved ==
  ASSUME NEW p \in Cells, NEW i \in Nat, NEW j \in Nat, i + j <= FIFO_SIZE
  PROVE  Moved(Moved(p, i), j) = Moved(p, i + j)
<1>1. /\ i \in 0..FIFO_SIZE /\ j \in 0..FIFO_SIZE
      /\ i + j \in 0..FIFO_SIZE
      /\ p \in Int /\ 0 <= p /\ p < FIFO_SIZE /\ FIFO_SIZE \in Int
  BY FifoSizeAssumption DEF Cells
<1>2. Moved(p, i) \in Cells
  BY <1>1, MovedInCells
<1>3. Moved(p, i) = IF p + i < FIFO_SIZE THEN p + i ELSE p + i - FIFO_SIZE
  BY <1>1, MovedIs
<1>4. Moved(Moved(p, i), j) = IF Moved(p, i) + j < FIFO_SIZE
                                THEN Moved(p, i) + j
                                ELSE Moved(p, i) + j - FIFO_SIZE
  BY <1>1, <1>2, MovedIs
<1>5. Moved(p, i + j) = IF p + (i + j) < FIFO_SIZE
                          THEN p + (i + j) ELSE p + (i + j) - FIFO_SIZE
  BY <1>1, MovedIs
<1> QED
  BY <1>1, <1>3, <1>4, <1>5

-----------------------------------------------------------------------------
(* The two memcpy of putblock. *)

LEMMA WrittenType ==
  ASSUME NEW val \in [Cells -> Nat], NEW w \in Cells, NEW data \in Seq(Nat),
         Len(data) <= FIFO_SIZE
  PROVE  Written(val, w, data) \in [Cells -> Nat]
<1> SUFFICES ASSUME NEW k \in Cells
             PROVE  (IF w <= k /\ k < w + Len(data) THEN data[k - w + 1]
                     ELSE IF k < Len(data) - (FIFO_SIZE - w)
                       THEN data[FIFO_SIZE - w + k + 1] ELSE val[k]) \in Nat
  BY DEF Written
<1>1. /\ k \in Int /\ 0 <= k /\ k < FIFO_SIZE
      /\ w \in Int /\ 0 <= w /\ w < FIFO_SIZE
      /\ FIFO_SIZE \in Int /\ Len(data) \in Nat
  BY FifoSizeAssumption DEF Cells
<1>2. CASE w <= k /\ k < w + Len(data)
  <2>1. k - w + 1 \in 1..Len(data)
    BY <1>1, <1>2
  <2> QED
    BY <1>2, <2>1
<1>3. CASE ~ (w <= k /\ k < w + Len(data)) /\ k < Len(data) - (FIFO_SIZE - w)
  <2>1. FIFO_SIZE - w + k + 1 \in 1..Len(data)
    BY <1>1, <1>3
  <2> QED
    BY <1>3, <2>1
<1>4. CASE ~ (w <= k /\ k < w + Len(data))
           /\ ~ (k < Len(data) - (FIFO_SIZE - w))
  BY <1>4
<1> QED
  BY <1>2, <1>3, <1>4

\* A block that fits leaves the bytes of the ring alone.
LEMMA WrittenOld ==
  ASSUME NEW val \in [Cells -> Nat], NEW p \in Cells, NEW s \in Nat,
         NEW data \in Seq(Nat), s + Len(data) <= FIFO_SIZE,
         NEW i \in 0..s - 1
  PROVE  Written(val, Moved(p, s), data)[Moved(p, i)] = val[Moved(p, i)]
<1> DEFINE w == Moved(p, s)
           k == Moved(p, i)
<1>1. /\ s \in 0..FIFO_SIZE /\ i \in 0..FIFO_SIZE
      /\ p \in Int /\ 0 <= p /\ p < FIFO_SIZE
      /\ FIFO_SIZE \in Int /\ Len(data) \in Nat
      /\ i \in Int /\ 0 <= i /\ i < s
  BY FifoSizeAssumption DEF Cells
<1>2. w = IF p + s < FIFO_SIZE THEN p + s ELSE p + s - FIFO_SIZE
  BY <1>1, MovedIs
<1>3. k = IF p + i < FIFO_SIZE THEN p + i ELSE p + i - FIFO_SIZE
  BY <1>1, MovedIs
<1>4. k \in Cells
  BY <1>1, MovedInCells
<1> HIDE DEF w, k
<1>5. ~ (w <= k /\ k < w + Len(data)) /\ ~ (k < Len(data) - (FIFO_SIZE - w))
  BY <1>1, <1>2, <1>3
<1>6. Written(val, w, data)[k] = val[k]
  BY <1>4, <1>5 DEF Written
<1> QED
  BY <1>6 DEF w, k

\* The bytes of the block follow them.
LEMMA WrittenNew ==
  ASSUME NEW val \in [Cells -> Nat], NEW p \in Cells, NEW s \in Nat,
         NEW data \in Seq(Nat), s + Len(data) <= FIFO_SIZE,
         NEW i \in 0..Len(data) - 1
  PROVE  Written(val, Moved(p, s), data)[Moved(p, s + i)] = data[i + 1]
<1> DEFINE w == Moved(p, s)
           k == Moved(p, s + i)
<1>1. /\ s \in 0..FIFO_SIZE /\ s + i \in 0..FIFO_SIZE
      /\ p \in Int /\ 0 <= p /\ p < FIFO_SIZE
      /\ FIFO_SIZE \in Int /\ Len(data) \in Nat
      /\ i \in Int /\ 0 <= i /\ i < Len(data)
  BY FifoSizeAssumption DEF Cells
<1>2. w = IF p + s < FIFO_SIZE THEN p + s ELSE p + s - FIFO_SIZE
  BY <1>1, MovedIs
<1>3. k = IF p + (s + i) < FIFO_SIZE THEN p + (s + i)
                                     ELSE p + (s + i) - FIFO_SIZE
  BY <1>1, MovedIs
<1>4. k \in Cells
  BY <1>1, MovedInCells
<1> HIDE DEF w, k
<1>5. CASE w <= k /\ k < w + Len(data)
  <2>1. k - w + 1 = i + 1
    BY <1>1, <1>2, <1>3, <1>5
  <2>2. Written(val, w, data)[k] = data[k - w + 1]
    BY <1>4, <1>5 DEF Written
  <2> QED
    BY <2>1, <2>2 DEF w, k
<1>6. CASE ~ (w <= k /\ k < w + Len(data))
  <2>1. k < Len(data) - (FIFO_SIZE - w) /\ FIFO_SIZE - w + k + 1 = i + 1
    BY <1>1, <1>2, <1>3, <1>6
  <2>2. Written(val, w, data)[k] = data[FIFO_SIZE - w + k + 1]
    BY <1>4, <1>6, <2>1 DEF Written
  <2> QED
    BY <2>1, <2>2 DEF w, k
<1> QED
  BY <1>5, <1>6

-----------------------------------------------------------------------------
(* The input fifo as the end of a stream. *)

\* From cell p on, the ring holds the last m bytes of s.
Content(val, p, m, s) ==
  \A i \in 0..m - 1 : val[Moved(p, i)] = s[Len(s) - m + i + 1]

\* The ring holds the last f.state bytes of s, and the second read mark is
\* between the first one and the write mark.
Holds(f, s) ==
  /\ f.state_virtual <= f.state /\ f.state <= Len(s)
  /\ f.write_ptr = Moved(f.read_ptr, f.state)
  /\ f.read_ptr_virtual = Moved(f.read_ptr, f.state - f.state_virtual)
  /\ Content(f.val, f.read_ptr, f.state, s)

\* What the fields of a fifo are.
LEMMA InputTypes ==
  ASSUME NEW f \in InputFifo
  PROVE  /\ f.val \in [Cells -> Nat]
         /\ f.read_ptr \in Cells /\ f.read_ptr_virtual \in Cells
         /\ f.write_ptr \in Cells
         /\ f.state \in 0..FIFO_SIZE /\ f.state_virtual \in 0..FIFO_SIZE
         /\ f.state \in Nat /\ f.state_virtual \in Nat
         /\ FIFO_SIZE \in Nat
  BY FifoSizeAssumption DEF InputFifo

LEMMA EmptyHolds ==
  EmptyInput \in InputFifo /\ Holds(EmptyInput, <<>>)
<1>1. 0 \in Cells /\ 0 \in 0..FIFO_SIZE
  BY FifoSizeAssumption DEF Cells
<1>2. EmptyInput \in InputFifo
  BY <1>1 DEF EmptyInput, InputFifo
<1>3. Moved(0, 0) = 0
  BY <1>1, MovedZero
<1> QED
  BY <1>2, <1>3 DEF EmptyInput, Holds, Content

\* A block put in the ring follows the bytes of the stream it holds.
LEMMA PutContent ==
  ASSUME NEW val \in [Cells -> Nat], NEW p \in Cells, NEW m \in Nat,
         NEW s \in Seq(Nat), m <= Len(s),
         NEW data \in Seq(Nat), m + Len(data) <= FIFO_SIZE,
         Content(val, p, m, s)
  PROVE  Content(Written(val, Moved(p, m), data), p, m + Len(data), s \o data)
<1> DEFINE n == Len(data)
           l == Len(s)
           t == s \o data
<1> SUFFICES ASSUME NEW i \in 0..m + n - 1
             PROVE  Written(val, Moved(p, m), data)[Moved(p, i)]
                      = t[Len(t) - (m + n) + i + 1]
  BY DEF Content
<1>0. Len(t) - (m + n) = l - m
  OBVIOUS
<1>1. n \in Nat /\ l \in Nat /\ m <= l /\ m \in Nat /\ i \in Int /\ 0 <= i
      /\ i < m + n
  OBVIOUS
<1>2. \A k \in 1..l + n : t[k] = IF k <= l THEN s[k] ELSE data[k - l]
  OBVIOUS
<1> HIDE DEF t, l
<1>3. CASE i < m
  <2>1. i \in 0..m - 1
    BY <1>1, <1>3
  <2>2. Written(val, Moved(p, m), data)[Moved(p, i)] = val[Moved(p, i)]
    BY <2>1, WrittenOld
  <2>3. val[Moved(p, i)] = s[l - m + i + 1]
    BY <2>1 DEF l, Content
  <2>4. l - m + i + 1 \in 1..l + n /\ l - m + i + 1 <= l
    BY <1>1, <1>3
  <2>5. t[l - m + i + 1] = s[l - m + i + 1]
    BY <1>2, <2>4
  <2> QED
    BY <1>0, <2>2, <2>3, <2>5
<1>4. CASE ~ (i < m)
  <2> DEFINE j == i - m
  <2>1. j \in 0..n - 1 /\ i = m + j
    BY <1>1, <1>4
  <2> HIDE DEF j
  <2>2. Written(val, Moved(p, m), data)[Moved(p, m + j)] = data[j + 1]
    BY <2>1, WrittenNew
  <2> DEFINE k == l - m + i + 1
  <2>3. k \in 1..l + n /\ ~ (k <= l) /\ k - l = j + 1
    BY <1>1, <2>1
  <2> HIDE DEF k
  <2>4. t[k] = data[j + 1]
    BY <1>2, <2>3
  <2> QED
    BY <1>0, <2>1, <2>2, <2>4 DEF k
<1> QED
  BY <1>3, <1>4

\* libselect_fifo_input_putblock puts the block at the end of the stream.
LEMMA PutHolds ==
  ASSUME NEW f \in InputFifo, NEW s \in Seq(Nat), Holds(f, s),
         NEW data \in Seq(Nat), Fits(f, Len(data))
  PROVE  /\ InputPut(f, data) \in InputFifo
         /\ Holds(InputPut(f, data), s \o data)
         /\ InputPut(f, data).state_virtual = f.state_virtual + Len(data)
         /\ InputPut(f, data).state = f.state + Len(data)
<1> DEFINE n == Len(data)
           g == InputPut(f, data)
           t == s \o data
<1>1. /\ f.val \in [Cells -> Nat] /\ f.read_ptr \in Cells
      /\ f.read_ptr_virtual \in Cells /\ f.write_ptr \in Cells
      /\ f.state \in Nat /\ f.state_virtual \in Nat /\ FIFO_SIZE \in Nat
  BY InputTypes
<1>2. f.write_ptr = Moved(f.read_ptr, f.state) /\ f.state_virtual <= f.state
      /\ f.state <= Len(s)
  BY DEF Holds
<1>3. n \in Nat /\ f.state + n <= FIFO_SIZE /\ Len(s) \in Nat
      /\ n <= FIFO_SIZE /\ n \in 0..FIFO_SIZE
      /\ f.state + n \in 0..FIFO_SIZE /\ f.state_virtual + n \in 0..FIFO_SIZE
  BY <1>1, <1>2 DEF Fits
<1>4. t \in Seq(Nat) /\ Len(t) = Len(s) + n
  OBVIOUS
<1>5. g = [f EXCEPT !.val = Written(@, f.write_ptr, data),
                    !.state = @ + n, !.state_virtual = @ + n,
                    !.write_ptr = Moved(@, n)]
  BY DEF InputPut
<1>6. Written(f.val, f.write_ptr, data) \in [Cells -> Nat]
  BY <1>1, <1>3, WrittenType
<1>7. Moved(f.write_ptr, n) \in Cells
  BY <1>1, <1>3, MovedInCells
<1>8. Moved(f.write_ptr, n) = Moved(f.read_ptr, f.state + n)
  BY <1>1, <1>2, <1>3, MovedMoved
<1>9. Content(Written(f.val, f.write_ptr, data), f.read_ptr, f.state + n, t)
  <2>1. Content(f.val, f.read_ptr, f.state, s)
    BY DEF Holds
  <2> QED
    BY <1>1, <1>2, <1>3, <2>1, PutContent
<1> HIDE DEF n, t, g
<1>10. /\ g.val = Written(f.val, f.write_ptr, data)
       /\ g.state = f.state + n /\ g.state_virtual = f.state_virtual + n
       /\ g.write_ptr = Moved(f.write_ptr, n)
       /\ g.read_ptr = f.read_ptr
       /\ g.read_ptr_virtual = f.read_ptr_virtual
  BY <1>5 DEF InputFifo
<1>11. g \in InputFifo
  BY <1>3, <1>5, <1>6, <1>7 DEF InputFifo
<1>12. Holds(g, t)
  <2>1. f.state_virtual + n <= f.state + n /\ f.state + n <= Len(t)
    BY <1>1, <1>2, <1>3, <1>4
  <2>2. g.write_ptr = Moved(g.read_ptr, g.state)
    BY <1>8, <1>10
  <2>3. g.state - g.state_virtual = f.state - f.state_virtual
    BY <1>1, <1>3, <1>10
  <2>4. g.read_ptr_virtual = Moved(g.read_ptr, g.state - g.state_virtual)
    BY <1>10, <2>3 DEF Holds
  <2>5. Content(g.val, g.read_ptr, g.state, t)
    BY <1>9, <1>10
  <2> QED
    BY <1>10, <2>1, <2>2, <2>4, <2>5 DEF Holds
<1> QED
  BY <1>10, <1>11, <1>12 DEF g, n, t

\* libselect_fifo_input_readblock gives the first byte between the second read
\* mark and the write mark, and forgets nothing.
LEMMA ReadHolds ==
  ASSUME NEW f \in InputFifo, NEW s \in Seq(Nat), Holds(f, s), CanRead(f, 1)
  PROVE  /\ InputRead(f, 1) \in InputFifo
         /\ Holds(InputRead(f, 1), s)
         /\ InputRead(f, 1).state_virtual = f.state_virtual - 1
         /\ InputRead(f, 1).state = f.state
         /\ InputBlock(f, 1)[1] = s[Len(s) - f.state_virtual + 1]
         /\ Len(s) - f.state_virtual + 1 \in 1..Len(s)
<1> DEFINE g == InputRead(f, 1)
           m == f.state
           v == f.state_virtual
           p == f.read_ptr
           q == f.read_ptr_virtual
           l == Len(s)
           d == m - v
<1>1. /\ f.val \in [Cells -> Nat] /\ p \in Cells /\ q \in Cells
      /\ m \in Nat /\ v \in Nat /\ FIFO_SIZE \in Nat
      /\ m <= FIFO_SIZE /\ v <= FIFO_SIZE
  BY InputTypes
<1>2. v <= m /\ m <= l /\ l \in Nat /\ 1 <= v
  BY DEF Holds, CanRead
<1>3. q = Moved(p, d) /\ Content(f.val, p, m, s)
  BY DEF Holds
<1>4. g = [f EXCEPT !.state_virtual = v - 1, !.read_ptr_virtual = Moved(q, 1)]
  BY DEF InputRead
<1>5. InputBlock(f, 1)[1] = IF 1 <= FIFO_SIZE - q
                              THEN f.val[q + 1 - 1]
                              ELSE f.val[1 - (FIFO_SIZE - q) - 1]
  BY DEF InputBlock, ReadFrom
<1> HIDE DEF g, m, v, p, q, l
<1>6. /\ d \in Nat /\ 1 \in Nat /\ d + 1 <= FIFO_SIZE /\ d \in 0..m - 1
      /\ 1 \in 0..FIFO_SIZE /\ v - 1 \in 0..FIFO_SIZE /\ v - 1 <= m
      /\ m - (v - 1) = d + 1
      /\ l - m + d + 1 = l - v + 1
      /\ l - v + 1 \in 1..l
  BY <1>1, <1>2
<1> HIDE DEF d
<1>7. Moved(q, 1) \in Cells
  BY <1>1, <1>6, MovedInCells
<1>8. Moved(q, 1) = Moved(p, d + 1)
  BY <1>1, <1>3, <1>6, MovedMoved
<1>9. /\ g.val = f.val /\ g.state = m /\ g.state_virtual = v - 1
      /\ g.write_ptr = f.write_ptr /\ g.read_ptr = p
      /\ g.read_ptr_virtual = Moved(q, 1)
  BY <1>4 DEF InputFifo, m, p
<1>10. g \in InputFifo
  BY <1>4, <1>6, <1>7 DEF InputFifo
<1>11. Holds(g, s)
  <2>1. /\ g.state_virtual <= g.state
        /\ g.read_ptr_virtual = Moved(g.read_ptr, g.state - g.state_virtual)
    BY <1>6, <1>8, <1>9
  <2> QED
    BY <1>9, <2>1 DEF Holds, m, p
<1>12. InputBlock(f, 1)[1] = f.val[q]
  <2>1. 1 <= FIFO_SIZE - q /\ q + 1 - 1 = q
    BY <1>1 DEF Cells
  <2> QED
    BY <1>5, <2>1
<1>13. f.val[q] = s[l - v + 1]
  <2>1. f.val[Moved(p, d)] = s[l - m + d + 1]
    BY <1>3, <1>6 DEF Content, l
  <2> QED
    BY <1>3, <1>6, <2>1
<1> QED
  BY <1>6, <1>9, <1>10, <1>11, <1>12, <1>13 DEF g, m, v, l

\* libselect_fifo_input_readcommit forgets what has been read.
LEMMA CommitHolds ==
  ASSUME NEW f \in InputFifo, NEW s \in Seq(Nat), Holds(f, s)
  PROVE  /\ InputCommit(f) \in InputFifo
         /\ Holds(InputCommit(f), s)
         /\ InputCommit(f).state_virtual = f.state_virtual
         /\ InputCommit(f).state = f.state_virtual
<1> DEFINE g == InputCommit(f)
           m == f.state
           v == f.state_virtual
           p == f.read_ptr
           q == f.read_ptr_virtual
           l == Len(s)
           d == m - v
<1>1. /\ p \in Cells /\ q \in Cells /\ v \in 0..FIFO_SIZE
      /\ m \in Nat /\ v \in Nat /\ FIFO_SIZE \in Nat /\ m <= FIFO_SIZE
  BY InputTypes
<1>2. v <= m /\ m <= l /\ l \in Nat
  BY DEF Holds
<1>3. /\ q = Moved(p, d) /\ f.write_ptr = Moved(p, m)
      /\ Content(f.val, p, m, s)
  BY DEF Holds
<1>4. g = [f EXCEPT !.read_ptr = q, !.state = v]
  BY DEF InputCommit
<1> HIDE DEF g, m, v, p, q, l
<1>5. /\ d \in Nat /\ d + v = m /\ d + v <= FIFO_SIZE /\ v <= l
      /\ v - v = 0 /\ v <= v
  BY <1>1, <1>2
<1>6. ASSUME NEW i \in 0..v - 1
      PROVE  f.val[Moved(q, i)] = s[l - v + i + 1]
  <2>1. /\ i \in Nat /\ d + i <= FIFO_SIZE /\ d + i \in 0..m - 1
        /\ l - m + (d + i) + 1 = l - v + i + 1
    BY <1>1, <1>2
  <2> HIDE DEF d
  <2>2. Moved(q, i) = Moved(p, d + i)
    BY <1>1, <1>3, <1>5, <2>1, MovedMoved
  <2>3. f.val[Moved(p, d + i)] = s[l - m + (d + i) + 1]
    BY <1>3, <2>1 DEF Content, l
  <2> QED
    BY <2>1, <2>2, <2>3
<1> HIDE DEF d
<1>7. f.write_ptr = Moved(q, v)
  BY <1>1, <1>3, <1>5, MovedMoved
<1>8. q = Moved(q, 0)
  BY <1>1, MovedZero
<1>9. /\ g.val = f.val /\ g.state = v /\ g.state_virtual = v
      /\ g.write_ptr = f.write_ptr /\ g.read_ptr = q
      /\ g.read_ptr_virtual = q
  BY <1>4 DEF InputFifo, v, q
<1>10. g \in InputFifo
  BY <1>1, <1>4 DEF InputFifo
<1>11. Content(g.val, g.read_ptr, g.state, s)
  BY <1>6, <1>9 DEF Content, l
<1>12. Holds(g, s)
  BY <1>5, <1>7, <1>8, <1>9, <1>11 DEF Holds, l
<1> QED
  BY <1>9, <1>10, <1>12 DEF g, v

\* libselect_fifo_input_readcancel puts the second read mark on the first.
LEMMA CancelHolds ==
  ASSUME NEW f \in InputFifo, NEW s \in Seq(Nat), Holds(f, s)
  PROVE  /\ InputCancel(f) \in InputFifo
         /\ Holds(InputCancel(f), s)
         /\ InputCancel(f).state_virtual = f.state
         /\ InputCancel(f).state = f.state
<1> DEFINE g == InputCancel(f)
<1>1. f.read_ptr \in Cells /\ f.state \in 0..FIFO_SIZE /\ f.state \in Nat
  BY InputTypes
<1>2. g = [f EXCEPT !.read_ptr_virtual = f.read_ptr,
                    !.state_virtual = f.state]
  BY DEF InputCancel
<1> HIDE DEF g
<1>3. /\ g.val = f.val /\ g.state = f.state
      /\ g.state_virtual = f.state
      /\ g.write_ptr = f.write_ptr /\ g.read_ptr = f.read_ptr
      /\ g.read_ptr_virtual = f.read_ptr
  BY <1>2 DEF InputFifo
<1>4. g \in InputFifo
  BY <1>1, <1>2 DEF InputFifo
<1>5. f.state <= f.state /\ f.state - f.state = 0
  BY <1>1
<1>6. f.read_ptr = Moved(f.read_ptr, 0)
  BY <1>1, MovedZero
<1>7. Holds(g, s)
  BY <1>3, <1>5, <1>6 DEF Holds
<1> QED
  BY <1>3, <1>4, <1>7 DEF g

-----------------------------------------------------------------------------
(* The output fifo. *)

LEMMA OutputPutType ==
  ASSUME NEW f \in OutputFifo, NEW data \in Seq(Nat), Len(data) <= FIFO_SIZE
  PROVE  OutputPut(f, data) \in OutputFifo
<1>1. CASE ~ Fits(f, Len(data))
  BY <1>1 DEF OutputPut
<1>2. CASE Fits(f, Len(data))
  <2>1. /\ f.val \in [Cells -> Nat] /\ f.write_ptr \in Cells
        /\ f.state \in Nat /\ Len(data) \in 0..FIFO_SIZE
        /\ f.state + Len(data) \in 0..FIFO_SIZE
    BY <1>2, FifoSizeAssumption DEF OutputFifo, Fits
  <2>2. Written(f.val, f.write_ptr, data) \in [Cells -> Nat]
    BY <2>1, WrittenType
  <2>3. Moved(f.write_ptr, Len(data)) \in Cells
    BY <2>1, MovedInCells
  <2>4. OutputPut(f, data) =
          [f EXCEPT !.val = Written(@, f.write_ptr, data),
                    !.state = @ + Len(data),
                    !.write_ptr = Moved(@, Len(data))]
    BY <1>2 DEF OutputPut
  <2> QED
    BY <2>1, <2>2, <2>3, <2>4 DEF OutputFifo
<1> QED
  BY <1>1, <1>2

LEMMA OutputFlushType ==
  ASSUME NEW f \in OutputFifo
  PROVE  OutputFlush(f) \in OutputFifo
<1>1. 0 \in Cells /\ 0 \in 0..FIFO_SIZE
  BY FifoSizeAssumption DEF Cells
<1> QED
  BY <1>1 DEF OutputFlush, OutputFifo

LEMMA OutputBlockType ==
  ASSUME NEW f \in OutputFifo
  PROVE  OutputBlock(f) \in Seq(Nat)
<1>1. /\ f.val \in [Cells -> Nat] /\ f.read_ptr \in Cells
      /\ f.state \in 0..FIFO_SIZE /\ f.state \in Nat /\ FIFO_SIZE \in Nat
  BY FifoSizeAssumption DEF OutputFifo
<1> DEFINE r == f.read_ptr
           b(i) == IF i <= FIFO_SIZE - r THEN f.val[r + i - 1]
                                         ELSE f.val[i - (FIFO_SIZE - r) - 1]
<1>2. ASSUME NEW i \in 1..f.state
      PROVE  b(i) \in Nat
  <2>1. CASE i <= FIFO_SIZE - r
    <3>1. r + i - 1 \in Cells
      BY <1>1, <2>1 DEF Cells
    <3> QED
      BY <1>1, <2>1, <3>1
  <2>2. CASE ~ (i <= FIFO_SIZE - r)
    <3>1. i - (FIFO_SIZE - r) - 1 \in Cells
      <4> HIDE DEF r
      <4>1. r \in Cells /\ i \in Int /\ 1 <= i /\ i <= FIFO_SIZE
        BY <1>1 DEF r
      <4> QED
        BY <1>1, <2>2, <4>1 DEF Cells
    <3> QED
      BY <1>1, <2>2, <3>1
  <2> QED
    BY <2>1, <2>2
<1>3. OutputBlock(f) = [i \in 1..f.state |-> b(i)]
  BY DEF OutputBlock, ReadFrom
<1> HIDE DEF b
<1>4. OutputBlock(f) \in [1..f.state -> Nat]
  BY <1>2, <1>3
<1> QED
  BY <1>1, <1>4

-----------------------------------------------------------------------------
(* The descriptor. *)

\* What the machine has read is where the second read mark is, and what it had
\* read when it was saved is where the first one is: without a server nothing
\* is restored, and reads move both marks.
ReadInv ==
  /\ Holds(fifo_input, accepted)
  /\ Len(machine.read) = Len(accepted) - fifo_input.state_virtual
  /\ wsnet => Len(backup.read) = Len(accepted) - fifo_input.state

SelectInv == TypeOK /\ ReadInv

\* The size of the block that libselect_update_registered reads.
BlockLen(q) == IF Len(q) < BUFFER_MAX THEN Len(q) ELSE BUFFER_MAX

LEMMA SocketBlock ==
  ASSUME NEW q \in Seq(Nat), q # <<>>, NEW n, n = BlockLen(q)
  PROVE  /\ SubSeq(q, 1, n) \in Seq(Nat) /\ Len(SubSeq(q, 1, n)) = n
         /\ n \in Nat \ {0}
         /\ SubSeq(q, n + 1, Len(q)) \in Seq(Nat)
         /\ {SubSeq(q, 1, n)[i] : i \in 1..n} \subseteq Nat
<1>1. Len(q) \in Nat /\ Len(q) # 0
  OBVIOUS
<1>2. n \in Nat /\ 1 <= n /\ n <= Len(q)
  BY <1>1, LibSelectAssumption DEF BlockLen
<1>3. /\ \A i \in 1..n : q[i] \in Nat
      /\ \A i \in n + 1..Len(q) : q[i] \in Nat
  BY <1>1, <1>2
<1>4. SubSeq(q, 1, n) \in Seq(Nat) /\ Len(SubSeq(q, 1, n)) = n
  BY <1>2, <1>3, SubSeqProperties
<1>5. SubSeq(q, n + 1, Len(q)) \in Seq(Nat)
  BY <1>1, <1>2, <1>3, SubSeqProperties
<1>6. \A i \in 1..n : SubSeq(q, 1, n)[i] \in Nat
  BY <1>4
<1> QED
  BY <1>2, <1>4, <1>5, <1>6

\* What is put at the end of a stream does not change its beginning.
LEMMA ConcatIs ==
  ASSUME NEW s \in Seq(Nat), NEW t \in Seq(Nat)
  PROVE  /\ s \o t \in Seq(Nat) /\ Len(s \o t) = Len(s) + Len(t)
         /\ \A i \in 1..Len(s) : (s \o t)[i] = s[i]
  OBVIOUS

\* A byte more in a history of the machine.
LEMMA HistoryIs ==
  ASSUME NEW h \in History, NEW c \in Nat
  PROVE  /\ h.read \in Seq(Nat)
         /\ Append(h.read, c) \in Seq(Nat)
         /\ Len(Append(h.read, c)) = Len(h.read) + 1
         /\ [h EXCEPT !.read = Append(@, c)] \in History
         /\ [h EXCEPT !.read = Append(@, c)].read = Append(h.read, c)
         /\ [h EXCEPT !.wrote = Append(@, c)] \in History
         /\ [h EXCEPT !.wrote = Append(@, c)].read = h.read
<1>1. h.read \in Seq(Nat) /\ h.wrote \in Seq(Nat)
  BY DEF History
<1>2. /\ Append(h.read, c) \in Seq(Nat) /\ Append(h.wrote, c) \in Seq(Nat)
      /\ Len(Append(h.read, c)) = Len(h.read) + 1
  BY <1>1
<1>3. /\ [h EXCEPT !.read = Append(@, c)] \in History
      /\ [h EXCEPT !.wrote = Append(@, c)] \in History
  BY <1>2 DEF History
<1>4. /\ [h EXCEPT !.read = Append(@, c)].read = Append(h.read, c)
      /\ [h EXCEPT !.wrote = Append(@, c)].read = h.read
  BY DEF History
<1> QED
  BY <1>1, <1>2, <1>3, <1>4

LEMMA InitSelect ==
  Init => SelectInv /\ Input!Init
<1> SUFFICES ASSUME Init
             PROVE  SelectInv /\ Input!Init
  OBVIOUS
<1>1. fifo_output \in OutputFifo
  BY FifoSizeAssumption DEF Init, EmptyOutput, OutputFifo, Cells
<1>2. machine \in History /\ backup \in History
  BY DEF Init, History
<1>3. TypeOK
  BY <1>1, <1>2, EmptyHolds DEF Init, TypeOK
<1>4. ReadInv
  <2>1. Len(accepted) = 0 /\ Len(machine.read) = 0 /\ Len(backup.read) = 0
    BY DEF Init
  <2>2. fifo_input.state = 0 /\ fifo_input.state_virtual = 0
    BY DEF Init, EmptyInput
  <2> QED
    BY <2>1, <2>2, EmptyHolds DEF Init, ReadInv
<1> QED
  BY <1>3, <1>4 DEF SelectInv, Init, Input!Init

\* A block is accepted whole, and the machine has not read it.
LEMMA UpdateReadSelect ==
  SelectInv /\ UpdateRead => SelectInv' /\ [Input!Next]_Input!vars
<1> SUFFICES ASSUME SelectInv, UpdateRead
             PROVE  SelectInv' /\ [Input!Next]_Input!vars
  OBVIOUS
<1> USE DEF SelectInv
<1> DEFINE n == BlockLen(socket)
           data == SubSeq(socket, 1, n)
           got == {data[i] : i \in 1..n}
<1>1. /\ socket # <<>>
      /\ fifo_input' = InputPut(fifo_input, data)
      /\ socket' = SubSeq(socket, n + 1, Len(socket))
      /\ IF Fits(fifo_input, n)
           THEN accepted' = accepted \o data /\ UNCHANGED lost
           ELSE lost' = lost \cup got /\ UNCHANGED accepted
      /\ reported' = IF PutResult(fifo_input, n) < n
                       THEN reported \cup got ELSE reported
      /\ UNCHANGED <<wsnet, entry_type, registered, link, sent, outVars,
                     machine, backup>>
  BY DEF UpdateRead, BlockLen
<1>2. /\ data \in Seq(Nat) /\ Len(data) = n /\ n \in Nat \ {0}
      /\ SubSeq(socket, n + 1, Len(socket)) \in Seq(Nat)
      /\ got \subseteq Nat
  <2>1. socket \in Seq(Nat) /\ socket # <<>>
    BY <1>1 DEF TypeOK
  <2> HIDE DEF n
  <2> QED
    BY <2>1, SocketBlock DEF n
<1> HIDE DEF n, data, got
<1>3. /\ fifo_input \in InputFifo /\ accepted \in Seq(Nat)
      /\ Holds(fifo_input, accepted)
  BY DEF TypeOK, ReadInv
<1>4. /\ socket' \in Seq(Nat) /\ lost' \subseteq Nat /\ reported' \subseteq Nat
  BY <1>1, <1>2 DEF TypeOK
<1>5. CASE Fits(fifo_input, n)
  <2>1. /\ fifo_input' \in InputFifo
        /\ Holds(fifo_input', accepted')
        /\ fifo_input'.state_virtual = fifo_input.state_virtual + n
        /\ fifo_input'.state = fifo_input.state + n
    BY <1>1, <1>2, <1>3, <1>5, PutHolds
  <2>2. /\ accepted' = accepted \o data /\ accepted' \in Seq(Nat)
        /\ Len(accepted') = Len(accepted) + n
        /\ \A i \in 1..Len(accepted) : accepted'[i] = accepted[i]
    <3>1. accepted' = accepted \o data
      BY <1>1, <1>5
    <3>2. /\ accepted \o data \in Seq(Nat)
          /\ Len(accepted \o data) = Len(accepted) + Len(data)
          /\ \A i \in 1..Len(accepted) : (accepted \o data)[i] = accepted[i]
      BY <1>2, <1>3, ConcatIs
    <3> QED
      BY <1>2, <3>1, <3>2
  <2>3. Len(accepted) \in Nat
        /\ fifo_input.state \in Nat /\ fifo_input.state_virtual \in Nat
    BY <1>3, InputTypes
  <2>4. /\ Len(accepted') - fifo_input'.state_virtual
             = Len(accepted) - fifo_input.state_virtual
        /\ Len(accepted') - fifo_input'.state
             = Len(accepted) - fifo_input.state
        /\ Len(accepted') > Len(accepted)
    BY <1>2, <2>1, <2>2, <2>3
  <2>5. TypeOK'
    BY <1>1, <1>4, <2>1, <2>2 DEF TypeOK, outVars
  <2>6. ReadInv'
    BY <1>1, <2>1, <2>4 DEF ReadInv
  <2>7. Input!Supply
    BY <1>1, <2>2, <2>4 DEF Input!Supply
  <2> QED
    BY <2>5, <2>6, <2>7 DEF Input!Next
<1>6. CASE ~ Fits(fifo_input, n)
  <2>1. fifo_input' = fifo_input /\ accepted' = accepted
    BY <1>1, <1>2, <1>6 DEF InputPut
  <2>2. TypeOK'
    BY <1>1, <1>4, <2>1 DEF TypeOK, outVars
  <2>3. ReadInv'
    BY <1>1, <2>1 DEF ReadInv
  <2>4. UNCHANGED Input!vars
    BY <1>1, <2>1 DEF Input!vars
  <2> QED
    BY <2>2, <2>3, <2>4
<1> QED
  BY <1>5, <1>6

\* The machine reads the byte that follows those it has read.
LEMMA ReadSelect ==
  SelectInv /\ Read => SelectInv' /\ Input!Take
<1> SUFFICES ASSUME SelectInv, Read
             PROVE  SelectInv' /\ Input!Take
  OBVIOUS
<1> USE DEF SelectInv
<1> DEFINE g == InputRead(fifo_input, 1)
           c == InputBlock(fifo_input, 1)[1]
<1>1. /\ CanRead(fifo_input, 1)
      /\ fifo_input' = IF wsnet THEN g ELSE InputCommit(g)
      /\ machine' = [machine EXCEPT !.read = Append(@, c)]
      /\ UNCHANGED <<wsnet, entry_type, registered, hostVars, accepted, lost,
                     reported, outVars, backup>>
  BY DEF Read, ReadOne
<1>2. /\ fifo_input \in InputFifo /\ accepted \in Seq(Nat)
      /\ Holds(fifo_input, accepted)
      /\ machine \in History /\ backup \in History
      /\ Len(machine.read) = Len(accepted) - fifo_input.state_virtual
      /\ wsnet => Len(backup.read) = Len(accepted) - fifo_input.state
  BY DEF TypeOK, ReadInv
<1>3. /\ g \in InputFifo /\ Holds(g, accepted)
      /\ g.state_virtual = fifo_input.state_virtual - 1
      /\ g.state = fifo_input.state
      /\ c = accepted[Len(accepted) - fifo_input.state_virtual + 1]
      /\ Len(accepted) - fifo_input.state_virtual + 1 \in 1..Len(accepted)
  BY <1>1, <1>2, ReadHolds
<1> HIDE DEF g, c
<1>4. /\ InputCommit(g) \in InputFifo /\ Holds(InputCommit(g), accepted)
      /\ InputCommit(g).state_virtual = g.state_virtual
  BY <1>2, <1>3, CommitHolds
<1>5. /\ fifo_input' \in InputFifo /\ Holds(fifo_input', accepted)
      /\ fifo_input'.state_virtual = fifo_input.state_virtual - 1
      /\ wsnet => fifo_input'.state = fifo_input.state
  BY <1>1, <1>3, <1>4
<1>6. c \in Nat
  BY <1>2, <1>3
<1>7. /\ machine.read \in Seq(Nat) /\ machine'.read = Append(machine.read, c)
      /\ machine' \in History /\ Len(machine'.read) = Len(machine.read) + 1
  BY <1>1, <1>2, <1>6, HistoryIs
<1>8. /\ Len(accepted) \in Nat /\ fifo_input.state_virtual \in Nat
  BY <1>2, InputTypes
<1>9. TypeOK'
  BY <1>1, <1>5, <1>7 DEF TypeOK, hostVars, outVars
<1>10. ReadInv'
  <2>1. Len(machine'.read) = Len(accepted) - fifo_input'.state_virtual
    BY <1>2, <1>5, <1>7, <1>8
  <2> QED
    BY <1>1, <1>2, <1>5, <2>1 DEF ReadInv
<1>11. Input!Take
  <2>1. /\ Len(machine.read) + 1
             = Len(accepted) - fifo_input.state_virtual + 1
        /\ Len(machine.read) < Len(accepted)
    BY <1>2, <1>3, <1>8
  <2> QED
    BY <1>1, <1>3, <1>7, <2>1 DEF Input!Take
<1> QED
  BY <1>9, <1>10, <1>11

\* A save commits the reads.
LEMMA SaveSelect ==
  SelectInv /\ Save => SelectInv' /\ Input!Save
<1> SUFFICES ASSUME SelectInv, Save
             PROVE  SelectInv' /\ Input!Save
  OBVIOUS
<1> USE DEF SelectInv
<1> DEFINE data == OutputBlock(fifo_output)
<1>1. /\ backup' = machine
      /\ fifo_input' = InputCommit(fifo_input)
      /\ fifo_output' = IF fifo_output.state > 0 THEN OutputFlush(fifo_output)
                                                 ELSE fifo_output
      /\ IF Writable
           THEN seen' = seen \o data /\ UNCHANGED unsent
           ELSE /\ unsent' = unsent \cup {data[i] : i \in 1..Len(data)}
                /\ UNCHANGED seen
      /\ UNCHANGED <<wsnet, entry_type, registered, hostVars, accepted, lost,
                     reported, writes, machine>>
  BY DEF Save
<1>2. /\ fifo_input \in InputFifo /\ accepted \in Seq(Nat)
      /\ Holds(fifo_input, accepted)
      /\ machine \in History /\ fifo_output \in OutputFifo
      /\ Len(machine.read) = Len(accepted) - fifo_input.state_virtual
  BY DEF TypeOK, ReadInv
<1>3. data \in Seq(Nat)
  BY <1>2, OutputBlockType
<1> HIDE DEF data
<1>4. seen' \in Seq(Nat) /\ unsent' \subseteq Nat
  <2>1. \A i \in 1..Len(data) : data[i] \in Nat
    BY <1>3
  <2>2. seen \in Seq(Nat) /\ unsent \subseteq Nat /\ seen \o data \in Seq(Nat)
    BY <1>3 DEF TypeOK
  <2> QED
    BY <1>1, <2>1, <2>2
<1>5. OutputFlush(fifo_output) \in OutputFifo
  BY <1>2, OutputFlushType
<1>6. fifo_output' \in OutputFifo
  BY <1>1, <1>2, <1>5
<1>7. /\ fifo_input' \in InputFifo /\ Holds(fifo_input', accepted)
      /\ fifo_input'.state_virtual = fifo_input.state_virtual
      /\ fifo_input'.state = fifo_input.state_virtual
  BY <1>1, <1>2, CommitHolds
<1>8. TypeOK'
  BY <1>1, <1>2, <1>4, <1>6, <1>7 DEF TypeOK, hostVars
<1>9. ReadInv'
  BY <1>1, <1>2, <1>7 DEF ReadInv
<1>10. Input!Save
  BY <1>1 DEF Input!Save
<1> QED
  BY <1>8, <1>9, <1>10

\* A restore cancels the reads since the save.
LEMMA RestoreSelect ==
  SelectInv /\ Restore => SelectInv' /\ Input!GoBack
<1> SUFFICES ASSUME SelectInv, Restore
             PROVE  SelectInv' /\ Input!GoBack
  OBVIOUS
<1> USE DEF SelectInv
<1>1. /\ wsnet /\ machine' = backup
      /\ fifo_input' = InputCancel(fifo_input)
      /\ fifo_output' = OutputFlush(fifo_output)
      /\ UNCHANGED <<wsnet, entry_type, registered, hostVars, accepted, lost,
                     reported, writes, seen, unsent, backup>>
  BY DEF Restore
<1>2. /\ fifo_input \in InputFifo /\ accepted \in Seq(Nat)
      /\ Holds(fifo_input, accepted)
      /\ backup \in History /\ fifo_output \in OutputFifo
      /\ Len(backup.read) = Len(accepted) - fifo_input.state
  BY <1>1 DEF TypeOK, ReadInv
<1>3. OutputFlush(fifo_output) \in OutputFifo
  BY <1>2, OutputFlushType
<1>4. /\ fifo_input' \in InputFifo /\ Holds(fifo_input', accepted)
      /\ fifo_input'.state_virtual = fifo_input.state
      /\ fifo_input'.state = fifo_input.state
  BY <1>1, <1>2, CancelHolds
<1>5. TypeOK'
  BY <1>1, <1>2, <1>3, <1>4 DEF TypeOK, hostVars
<1>6. ReadInv'
  BY <1>1, <1>2, <1>4 DEF ReadInv
<1>7. Input!GoBack
  BY <1>1 DEF Input!GoBack
<1> QED
  BY <1>5, <1>6, <1>7

\* A write of the program leaves the input alone.
LEMMA WriteSelect ==
  SelectInv /\ Write => SelectInv' /\ UNCHANGED Input!vars
<1> SUFFICES ASSUME SelectInv, Write
             PROVE  SelectInv' /\ UNCHANGED Input!vars
  OBVIOUS
<1> USE DEF SelectInv
<1> DEFINE c == writes + 1
<1>1. /\ writes' = c
      /\ IF wsnet
           THEN /\ fifo_output' = OutputPut(fifo_output, <<c>>)
                /\ machine' = IF Fits(fifo_output, 1)
                                THEN [machine EXCEPT !.wrote = Append(@, c)]
                                ELSE machine
                /\ UNCHANGED seen
           ELSE /\ seen' = Append(seen, c)
                /\ machine' = [machine EXCEPT !.wrote = Append(@, c)]
                /\ UNCHANGED fifo_output
      /\ UNCHANGED <<wsnet, entry_type, registered, hostVars, inVars, unsent,
                     backup>>
  BY DEF Write
<1>2. /\ c \in Nat /\ fifo_output \in OutputFifo /\ seen \in Seq(Nat)
      /\ machine \in History
  BY DEF TypeOK
<1> HIDE DEF c
<1>3. <<c>> \in Seq(Nat) /\ Len(<<c>>) = 1 /\ 1 <= FIFO_SIZE
  BY <1>2, FifoSizeAssumption
<1>4. OutputPut(fifo_output, <<c>>) \in OutputFifo
  BY <1>2, <1>3, OutputPutType
<1>5. fifo_output' \in OutputFifo /\ seen' \in Seq(Nat)
  <2>1. Append(seen, c) \in Seq(Nat)
    BY <1>2
  <2>2. CASE wsnet
    BY <1>1, <1>2, <1>4, <2>2
  <2>3. CASE ~ wsnet
    BY <1>1, <1>2, <2>1, <2>3
  <2> QED
    BY <2>2, <2>3
<1>6. /\ [machine EXCEPT !.wrote = Append(@, c)] \in History
      /\ [machine EXCEPT !.wrote = Append(@, c)].read = machine.read
  BY <1>2, HistoryIs
<1>7. machine' \in History /\ machine'.read = machine.read
  BY <1>1, <1>2, <1>6
<1>8. TypeOK'
  BY <1>1, <1>2, <1>5, <1>7 DEF TypeOK, hostVars, inVars
<1>9. ReadInv'
  BY <1>1, <1>7 DEF ReadInv, inVars
<1> QED
  BY <1>1, <1>7, <1>8, <1>9 DEF Input!vars, inVars

\* Neither does anything else.
LEMMA OtherSelect ==
  SelectInv /\ (Peer \/ UpdateAccept \/ UpdateClose \/ UNCHANGED vars)
    => SelectInv' /\ UNCHANGED Input!vars
<1> SUFFICES ASSUME SelectInv,
                    Peer \/ UpdateAccept \/ UpdateClose \/ UNCHANGED vars
             PROVE  SelectInv' /\ UNCHANGED Input!vars
  OBVIOUS
<1> USE DEF SelectInv
<1>1. /\ UNCHANGED <<wsnet, entry_type, inVars, outVars, machine, backup>>
      /\ registered' \in BOOLEAN
      /\ link' \in {"none", "asking", "open", "closed"}
      /\ socket' \in Seq(Nat) /\ sent' \in Nat
  <2>1. CASE PeerSend
    <3>1. sent + 1 \in Nat /\ Append(socket, sent + 1) \in Seq(Nat)
      BY DEF TypeOK
    <3> QED
      BY <2>1, <3>1 DEF PeerSend, TypeOK
  <2>2. CASE PeerConnect
    BY <2>2 DEF PeerConnect, TypeOK
  <2>3. CASE PeerClose
    BY <2>3 DEF PeerClose, TypeOK
  <2>4. CASE UpdateAccept
    BY <2>4 DEF UpdateAccept, TypeOK
  <2>5. CASE UpdateClose
    BY <2>5 DEF UpdateClose, TypeOK
  <2>6. CASE UNCHANGED vars
    BY <2>6 DEF vars, hostVars, TypeOK
  <2> QED
    BY <2>1, <2>2, <2>3, <2>4, <2>5, <2>6 DEF Peer
<1>2. TypeOK'
  BY <1>1 DEF TypeOK, inVars, outVars
<1>3. ReadInv'
  BY <1>1 DEF ReadInv, inVars
<1> QED
  BY <1>1, <1>2, <1>3 DEF Input!vars, inVars

LEMMA NextSelect ==
  SelectInv /\ [Next]_vars => SelectInv' /\ [Input!Next]_Input!vars
<1> SUFFICES ASSUME SelectInv, [Next]_vars
             PROVE  SelectInv' /\ [Input!Next]_Input!vars
  OBVIOUS
<1>1. CASE UpdateRead
  BY <1>1, UpdateReadSelect
<1>2. CASE Read
  BY <1>2, ReadSelect DEF Input!Next
<1>3. CASE Save
  BY <1>3, SaveSelect DEF Input!Next
<1>4. CASE Restore
  BY <1>4, RestoreSelect DEF Input!Next
<1>5. CASE Write
  BY <1>5, WriteSelect
<1>6. CASE Peer \/ UpdateAccept \/ UpdateClose \/ UNCHANGED vars
  BY <1>6, OtherSelect
<1> QED
  BY <1>1, <1>2, <1>3, <1>4, <1>5, <1>6 DEF Next, Update

-----------------------------------------------------------------------------

\* The read marks always say what the machine has read and what it had read
\* when it was saved.
THEOREM MarksCorrect == Spec => []SelectInv
<1>1. Init => SelectInv
  BY InitSelect
<1>2. SelectInv /\ [Next]_vars => SelectInv'
  BY NextSelect
<1> QED
  BY <1>1, <1>2, PTL DEF Spec

\* The rings of libselect_fifomem.c are never indexed out of their bounds, and
\* their counts never leave 0..size, for any size and any order of the calls.
THEOREM TypeCorrect == Spec => []TypeOK
<1>1. SelectInv => TypeOK
  BY DEF SelectInv
<1> QED
  BY <1>1, MarksCorrect, PTL

\* A machine that goes back in time reads the same input again, for any size
\* of the buffers and any number of saves and restores.
THEOREM InputIsReplayed == Spec => ImplementsReplay
<1>1. Init => Input!Init
  BY InitSelect
<1>2. SelectInv /\ [Next]_vars => [Input!Next]_Input!vars
  BY NextSelect
<1> QED
  BY <1>1, <1>2, MarksCorrect, PTL DEF Spec, ImplementsReplay, Input!Spec

-----------------------------------------------------------------------------
(* The output: what is written waits in the ring until the state is saved. *)

\* The fields of an output fifo.
LEMMA OutputTypes ==
  ASSUME NEW f \in OutputFifo
  PROVE  /\ f.val \in [Cells -> Nat]
         /\ f.read_ptr \in Cells /\ f.write_ptr \in Cells
         /\ f.state \in 0..FIFO_SIZE /\ f.state \in Nat /\ FIFO_SIZE \in Nat
  BY FifoSizeAssumption DEF OutputFifo

\* The two memcpy of getblock read the cells of the ring in their order.
LEMMA OutputBlockIs ==
  ASSUME NEW f \in OutputFifo
  PROVE  /\ OutputBlock(f) \in Seq(Nat) /\ Len(OutputBlock(f)) = f.state
         /\ \A i \in 1..f.state :
              OutputBlock(f)[i] = f.val[Moved(f.read_ptr, i - 1)]
<1> DEFINE r == f.read_ptr
           n == f.state
<1>1. /\ r \in Cells /\ n \in Nat /\ n <= FIFO_SIZE /\ FIFO_SIZE \in Nat
      /\ r \in Int /\ 0 <= r /\ r < FIFO_SIZE
  BY OutputTypes DEF Cells
<1>2. OutputBlock(f) = [i \in 1..n |-> IF i <= FIFO_SIZE - r THEN f.val[r + i - 1]
                                       ELSE f.val[i - (FIFO_SIZE - r) - 1]]
  BY DEF OutputBlock, ReadFrom
<1> HIDE DEF r, n
<1>3. ASSUME NEW i \in 1..n
      PROVE  OutputBlock(f)[i] = f.val[Moved(r, i - 1)]
  <2>1. i - 1 \in 0..FIFO_SIZE /\ i \in Int
    BY <1>1
  <2>2. Moved(r, i - 1) = IF r + (i - 1) < FIFO_SIZE THEN r + (i - 1)
                                                     ELSE r + (i - 1) - FIFO_SIZE
    BY <1>1, <2>1, MovedIs
  <2>3. Moved(r, i - 1) = IF i <= FIFO_SIZE - r THEN r + i - 1
                                                ELSE i - (FIFO_SIZE - r) - 1
    BY <1>1, <2>1, <2>2
  <2> QED BY <1>2, <2>3
<1>4. OutputBlock(f) \in Seq(Nat)
  BY OutputBlockType
<1>5. Len(OutputBlock(f)) = n
  BY <1>1, <1>2
<1> QED BY <1>3, <1>4, <1>5 DEF n, r

\* The write mark is where the block ends.
Marked(f) == f.write_ptr = Moved(f.read_ptr, f.state)

LEMMA ConcatThree ==
  ASSUME NEW s \in Seq(Nat), NEW t \in Seq(Nat), NEW u \in Seq(Nat)
  PROVE  (s \o t) \o u = s \o (t \o u)
  BY ConcatAssociative

LEMMA SameSeq ==
  ASSUME NEW s \in Seq(Nat), NEW t \in Seq(Nat), NEW n \in Nat,
         Len(s) = n, Len(t) = n, \A i \in 1..n : s[i] = t[i]
  PROVE  s = t
  OBVIOUS

\* libselect_fifo_output_putblock adds the block to what waits.
LEMMA OutputPutIs ==
  ASSUME NEW f \in OutputFifo, Marked(f),
         NEW data \in Seq(Nat), Fits(f, Len(data))
  PROVE  /\ Marked(OutputPut(f, data))
         /\ OutputBlock(OutputPut(f, data)) = OutputBlock(f) \o data
<1> DEFINE g == OutputPut(f, data)
           n == Len(data)
           m == f.state
           p == f.read_ptr
<1>1. /\ f.val \in [Cells -> Nat] /\ p \in Cells /\ f.write_ptr \in Cells
      /\ m \in Nat /\ FIFO_SIZE \in Nat /\ n \in Nat /\ m + n <= FIFO_SIZE
  BY OutputTypes DEF Fits
<1>2. n <= FIFO_SIZE
  BY <1>1
<1>3. g \in OutputFifo
  BY <1>2, OutputPutType
<1>4. /\ g.val = Written(f.val, f.write_ptr, data) /\ g.state = m + n
      /\ g.write_ptr = Moved(f.write_ptr, n) /\ g.read_ptr = p
  BY DEF OutputPut, OutputFifo
<1>5. f.write_ptr = Moved(p, m)
  BY DEF Marked
<1> HIDE DEF g, n, m, p
<1>6. g.write_ptr = Moved(p, m + n)
  BY <1>1, <1>4, <1>5, MovedMoved
<1> DEFINE u == OutputBlock(g)
           s == OutputBlock(f)
           v == s \o data
<1>7. /\ u \in Seq(Nat) /\ Len(u) = m + n
      /\ \A i \in 1..m + n : u[i] = g.val[Moved(p, i - 1)]
  BY <1>3, <1>4, OutputBlockIs
<1>8. /\ s \in Seq(Nat) /\ Len(s) = m
      /\ \A i \in 1..m : s[i] = f.val[Moved(p, i - 1)]
  BY OutputBlockIs DEF m, p
<1> HIDE DEF u, s
<1>9. /\ v \in Seq(Nat) /\ Len(v) = m + n
      /\ \A i \in 1..m + n : v[i] = IF i <= m THEN s[i] ELSE data[i - m]
  <2>1. /\ v \in Seq(Nat) /\ Len(v) = Len(s) + Len(data)
        /\ \A i \in 1..Len(s) + Len(data) :
             v[i] = IF i <= Len(s) THEN s[i] ELSE data[i - Len(s)]
    BY <1>8, ConcatProperties, Zenon
  <2> QED BY <1>8, <2>1 DEF n
<1> HIDE DEF v
<1>10. ASSUME NEW i \in 1..m + n PROVE u[i] = v[i]
  <2>1. i \in Int /\ 1 <= i /\ i <= m + n
    BY <1>1
  <2>2. u[i] = Written(f.val, Moved(p, m), data)[Moved(p, i - 1)]
    BY <1>4, <1>5, <1>7
  <2>3. CASE i <= m
    <3>1. i \in 1..m /\ i - 1 \in 0..m - 1
      BY <1>1, <2>1, <2>3
    <3>2. Written(f.val, Moved(p, m), data)[Moved(p, i - 1)]
            = f.val[Moved(p, i - 1)]
      BY <1>1, <3>1, WrittenOld DEF n
    <3> QED BY <1>8, <1>9, <2>2, <2>3, <3>1, <3>2
  <2>4. CASE ~ (i <= m)
    <3> DEFINE j == i - m - 1
    <3>1. j \in 0..n - 1 /\ i - 1 = m + j /\ j + 1 = i - m
      BY <1>1, <2>1, <2>4
    <3> HIDE DEF j
    <3>2. Written(f.val, Moved(p, m), data)[Moved(p, m + j)] = data[j + 1]
      BY <1>1, <3>1, WrittenNew DEF n
    <3> QED BY <1>9, <2>2, <2>4, <3>1, <3>2
  <2> QED BY <2>3, <2>4
<1>11. u = v
  BY <1>1, <1>7, <1>9, <1>10, SameSeq
<1>12. Marked(g)
  BY <1>4, <1>6 DEF Marked
<1> QED BY <1>11, <1>12 DEF g, u, v, s

\* Nothing waits in a ring that is empty, or has been flushed.
LEMMA OutputEmpty ==
  ASSUME NEW f \in OutputFifo, f.state = 0
  PROVE  OutputBlock(f) = <<>>
<1>1. OutputBlock(f) \in Seq(Nat) /\ Len(OutputBlock(f)) = 0
  BY OutputBlockIs
<1> QED BY <1>1, EmptySeq

LEMMA OutputFlushed ==
  ASSUME NEW f \in OutputFifo
  PROVE  /\ Marked(OutputFlush(f)) /\ OutputFlush(f).state = 0
         /\ OutputBlock(OutputFlush(f)) = <<>>
<1>1. OutputFlush(f) \in OutputFifo
  BY OutputFlushType
<1>2. /\ OutputFlush(f).state = 0 /\ OutputFlush(f).read_ptr = 0
      /\ OutputFlush(f).write_ptr = 0
  BY DEF OutputFlush, OutputFifo
<1>3. Moved(0, 0) = 0
  BY MovedZero, FifoSizeAssumption DEF Cells
<1> QED BY <1>1, <1>2, <1>3, OutputEmpty DEF Marked

\* The ring is marked and, without a server, not used; with one it holds what
\* the machine has written since it was saved.
PendingInv ==
  /\ Marked(fifo_output)
  /\ ~ wsnet => fifo_output.state = 0
  /\ RestIsPending

LEMMA InitPending == Init => PendingInv
<1> SUFFICES ASSUME Init PROVE PendingInv
  OBVIOUS
<1>1. fifo_output = EmptyOutput /\ machine.wrote = <<>> /\ backup.wrote = <<>>
  BY DEF Init
<1>2. /\ EmptyOutput \in OutputFifo /\ EmptyOutput.state = 0
      /\ EmptyOutput.read_ptr = 0 /\ EmptyOutput.write_ptr = 0
  BY FifoSizeAssumption DEF EmptyOutput, OutputFifo, Cells
<1>3. Moved(0, 0) = 0
  BY MovedZero, FifoSizeAssumption DEF Cells
<1>4. OutputBlock(EmptyOutput) = <<>>
  BY <1>2, OutputEmpty
<1> QED BY <1>1, <1>2, <1>3, <1>4 DEF PendingInv, Marked, RestIsPending

\* One case per action that touches the output or the histories.
LEMMA NextPending ==
  ASSUME TypeOK, PendingInv, [Next]_vars
  PROVE  PendingInv'
<1>0. /\ fifo_output \in OutputFifo /\ writes \in Nat
      /\ machine \in History /\ backup \in History
      /\ machine.wrote \in Seq(Nat) /\ backup.wrote \in Seq(Nat)
  BY DEF TypeOK, History
<1>1. CASE Write
  <2> DEFINE c == writes + 1
  <2>1. /\ c \in Nat /\ <<c>> \in Seq(Nat) /\ Len(<<c>>) = 1
    BY <1>0
  <2>2. /\ IF wsnet
             THEN /\ fifo_output' = OutputPut(fifo_output, <<c>>)
                  /\ machine' = IF Fits(fifo_output, 1)
                                  THEN [machine EXCEPT !.wrote = Append(@, c)]
                                  ELSE machine
             ELSE UNCHANGED fifo_output
        /\ UNCHANGED <<wsnet, backup>>
    BY <1>1 DEF Write
  <2> HIDE DEF c
  <2>3. CASE ~ wsnet
    BY <2>2, <2>3 DEF PendingInv, RestIsPending, Marked
  <2>4. CASE wsnet /\ ~ Fits(fifo_output, 1)
    BY <2>1, <2>2, <2>4
       DEF PendingInv, RestIsPending, Marked, OutputPut
  <2>5. CASE wsnet /\ Fits(fifo_output, 1)
    <3>1. /\ Marked(fifo_output')
          /\ OutputBlock(fifo_output') = OutputBlock(fifo_output) \o <<c>>
      BY <1>0, <2>1, <2>2, <2>5, OutputPutIs DEF PendingInv
    <3>2. machine'.wrote = machine.wrote \o <<c>>
      <4>1. machine'.wrote = Append(machine.wrote, c)
        BY <1>0, <2>2, <2>5 DEF History
      <4> QED BY <1>0, <2>1, <4>1, AppendIsConcat
    <3>3. machine.wrote = backup.wrote \o OutputBlock(fifo_output)
      BY <2>5 DEF PendingInv, RestIsPending
    <3>4. OutputBlock(fifo_output) \in Seq(Nat)
      BY <1>0, OutputBlockType
    <3>5. (backup.wrote \o OutputBlock(fifo_output)) \o <<c>>
             = backup.wrote \o (OutputBlock(fifo_output) \o <<c>>)
      BY <1>0, <2>1, <3>4, ConcatThree
    <3>6. machine'.wrote = backup.wrote \o OutputBlock(fifo_output')
      BY <3>1, <3>2, <3>3, <3>5, Zenon
    <3> QED BY <2>2, <2>5, <3>1, <3>6 DEF PendingInv, RestIsPending
  <2> QED BY <2>3, <2>4, <2>5
<1>2. CASE Save \/ Restore
  <2>1. /\ UNCHANGED wsnet /\ machine' = backup'
        /\ \/ fifo_output' = OutputFlush(fifo_output)
           \/ fifo_output' = fifo_output /\ fifo_output.state = 0
    <3>1. CASE Save
      <4>1. /\ UNCHANGED wsnet /\ machine' = machine /\ backup' = machine
            /\ fifo_output' = IF fifo_output.state > 0
                                THEN OutputFlush(fifo_output) ELSE fifo_output
        BY <3>1 DEF Save
      <4>2. fifo_output.state \in Nat
        BY <1>0, OutputTypes
      <4> QED BY <4>1, <4>2
    <3>2. CASE Restore
      BY <3>2 DEF Restore
    <3> QED BY <1>2, <3>1, <3>2
  <2>2. /\ Marked(fifo_output') /\ fifo_output'.state = 0
        /\ OutputBlock(fifo_output') = <<>>
    BY <1>0, <2>1, OutputFlushed, OutputEmpty DEF PendingInv
  <2>3. machine'.wrote = backup'.wrote \o <<>>
    <3>1. backup'.wrote \in Seq(Nat)
      BY <1>0, <1>2 DEF Save, Restore
    <3> QED BY <2>1, <3>1, ConcatEmptySeq
  <2> QED BY <2>1, <2>2, <2>3 DEF PendingInv, RestIsPending
<1>3. CASE Read
  <2>1. /\ machine' = [machine EXCEPT !.read =
                         Append(@, InputBlock(fifo_input, 1)[1])]
        /\ UNCHANGED <<wsnet, fifo_output, backup>>
    BY <1>3 DEF Read, outVars
  <2>2. machine'.wrote = machine.wrote
    BY <1>0, <2>1 DEF History
  <2> QED BY <2>1, <2>2 DEF PendingInv, RestIsPending, Marked
<1>4. CASE Peer \/ Update \/ UNCHANGED vars
  <2>1. UNCHANGED <<wsnet, fifo_output, machine, backup>>
    BY <1>4 DEF Peer, PeerSend, PeerConnect, PeerClose, Update, UpdateAccept,
                UpdateRead, UpdateClose, vars, outVars
  <2> QED BY <2>1 DEF PendingInv, RestIsPending, Marked
<1> QED BY <1>1, <1>2, <1>3, <1>4 DEF Next

THEOREM PendingCorrect == Spec => []PendingInv
<1>1. TypeOK /\ PendingInv /\ [Next]_vars => PendingInv'
  BY NextPending
<1> QED BY <1>1, InitPending, TypeCorrect, PTL DEF Spec

\* What the machine has written since its state was saved waits in the output
\* ring, in order and nothing else, for any size of the ring: a restore that
\* flushes it cancels exactly that.
THEOREM PendingIsTheRest == Spec => []RestIsPending
<1>1. PendingInv => RestIsPending
  BY DEF PendingInv
<1> QED BY <1>1, PendingCorrect, PTL

-----------------------------------------------------------------------------
(* The outside: what has been seen is what was kept. *)

LEMMA BytesConcat ==
  ASSUME NEW s \in Seq(Nat), NEW t \in Seq(Nat)
  PROVE  s \o t \in Seq(Nat) /\ Bytes(s \o t) = Bytes(s) \cup Bytes(t)
<1> DEFINE v == s \o t
<1>1. /\ v \in Seq(Nat) /\ Len(v) = Len(s) + Len(t)
      /\ \A i \in 1..Len(s) + Len(t) :
           v[i] = IF i <= Len(s) THEN s[i] ELSE t[i - Len(s)]
  BY ConcatProperties, Zenon
<1> HIDE DEF v
<1>2. Len(s) \in Nat /\ Len(t) \in Nat
  OBVIOUS
<1>3. ASSUME NEW x \in Bytes(v) PROVE x \in Bytes(s) \cup Bytes(t)
  <2>1. PICK i \in 1..Len(v) : x = v[i]
    BY DEF Bytes
  <2>2. CASE i <= Len(s)
    <3>1. i \in 1..Len(s) /\ x = s[i]
      BY <1>1, <1>2, <2>1, <2>2
    <3> QED BY <3>1 DEF Bytes
  <2>3. CASE ~ (i <= Len(s))
    <3>1. i - Len(s) \in 1..Len(t) /\ x = t[i - Len(s)]
      BY <1>1, <1>2, <2>1, <2>3
    <3> QED BY <3>1 DEF Bytes
  <2> QED BY <2>2, <2>3
<1>4. ASSUME NEW x \in Bytes(s) PROVE x \in Bytes(v)
  <2>1. PICK i \in 1..Len(s) : x = s[i]
    BY DEF Bytes
  <2>2. i \in 1..Len(v) /\ v[i] = x
    BY <1>1, <1>2, <2>1
  <2> QED BY <2>2 DEF Bytes
<1>5. ASSUME NEW x \in Bytes(t) PROVE x \in Bytes(v)
  <2>1. PICK i \in 1..Len(t) : x = t[i]
    BY DEF Bytes
  <2>2. /\ i + Len(s) \in 1..Len(v) /\ ~ (i + Len(s) <= Len(s))
        /\ i + Len(s) - Len(s) = i
    BY <1>1, <1>2, <2>1
  <2>3. v[i + Len(s)] = x
    BY <1>1, <2>1, <2>2
  <2> QED BY <2>2, <2>3 DEF Bytes
<1>6. Bytes(v) = Bytes(s) \cup Bytes(t)
  BY <1>3, <1>4, <1>5
<1> QED BY <1>1, <1>6 DEF v

\* Two increasing sequences, the second one after the first.
LEMMA IncreasingConcat ==
  ASSUME NEW s \in Seq(Nat), NEW t \in Seq(Nat)
  PROVE  Increasing(s \o t) <=> /\ Increasing(s) /\ Increasing(t)
                                /\ \A x \in Bytes(s), y \in Bytes(t) : x < y
<1> DEFINE v == s \o t
<1>1. /\ Len(v) = Len(s) + Len(t) /\ Len(s) \in Nat /\ Len(t) \in Nat
      /\ \A i \in 1..Len(s) + Len(t) :
           v[i] = IF i <= Len(s) THEN s[i] ELSE t[i - Len(s)]
  BY ConcatProperties, LenProperties
<1> HIDE DEF v
<1>2. \A i \in 1..Len(s) : i \in 1..Len(v) /\ v[i] = s[i]
  BY <1>1
<1>3. ASSUME NEW i \in 1..Len(t)
      PROVE  i + Len(s) \in 1..Len(v) /\ v[i + Len(s)] = t[i]
  <2>1. /\ i + Len(s) \in 1..Len(v) /\ ~ (i + Len(s) <= Len(s))
        /\ i + Len(s) - Len(s) = i
    BY <1>1
  <2> QED BY <1>1, <2>1
<1>4. ASSUME Increasing(v)
      PROVE  /\ Increasing(s) /\ Increasing(t)
             /\ \A x \in Bytes(s), y \in Bytes(t) : x < y
  <2>1. Increasing(s)
    BY <1>2, <1>4 DEF Increasing
  <2>2. ASSUME NEW i \in 1..Len(t), NEW j \in 1..Len(t), i < j
        PROVE  t[i] < t[j]
    <3>1. i + Len(s) < j + Len(s)
      BY <1>1, <2>2
    <3> QED BY <1>3, <1>4, <3>1 DEF Increasing
  <2>3. ASSUME NEW x \in Bytes(s), NEW y \in Bytes(t) PROVE x < y
    <3>1. PICK i \in 1..Len(s) : x = s[i]
      BY DEF Bytes
    <3>2. PICK j \in 1..Len(t) : y = t[j]
      BY DEF Bytes
    <3>3. i < j + Len(s)
      BY <1>1
    <3>4. v[i] < v[j + Len(s)]
      BY <1>2, <1>3, <1>4, <3>3 DEF Increasing
    <3> QED BY <1>2, <1>3, <3>1, <3>2, <3>4
  <2> QED BY <2>1, <2>2, <2>3 DEF Increasing
<1>5. ASSUME Increasing(s), Increasing(t),
             \A x \in Bytes(s), y \in Bytes(t) : x < y,
             NEW i \in 1..Len(v), NEW j \in 1..Len(v), i < j
      PROVE  v[i] < v[j]
  <2>1. CASE j <= Len(s)
    <3>1. i \in 1..Len(s) /\ j \in 1..Len(s)
      BY <1>1, <1>5, <2>1
    <3> QED BY <1>2, <1>5, <3>1 DEF Increasing
  <2>2. CASE i <= Len(s) /\ ~ (j <= Len(s))
    <3>1. i \in 1..Len(s) /\ j - Len(s) \in 1..Len(t)
      BY <1>1, <2>2
    <3>2. v[i] = s[i] /\ v[j] = t[j - Len(s)]
      BY <1>1, <2>2
    <3> QED BY <1>5, <3>1, <3>2 DEF Bytes
  <2>3. CASE ~ (i <= Len(s))
    <3>1. /\ i - Len(s) \in 1..Len(t) /\ j - Len(s) \in 1..Len(t)
          /\ i - Len(s) < j - Len(s) /\ ~ (j <= Len(s))
      BY <1>1, <1>5, <2>3
    <3>2. v[i] = t[i - Len(s)] /\ v[j] = t[j - Len(s)]
      BY <1>1, <2>3, <3>1
    <3> QED BY <1>5, <3>1, <3>2 DEF Increasing
  <2> QED BY <2>1, <2>2, <2>3
<1>6. Increasing(v) <=> /\ Increasing(s) /\ Increasing(t)
                        /\ \A x \in Bytes(s), y \in Bytes(t) : x < y
  BY <1>4, <1>5 DEF Increasing
<1> QED BY <1>6 DEF v

\* A byte written gets a number of its own.
LEMMA IncreasingAppend ==
  ASSUME NEW s \in Seq(Nat), NEW n \in Nat, Increasing(s), Bytes(s) \subseteq 1..n
  PROVE  /\ Increasing(Append(s, n + 1))
         /\ Bytes(Append(s, n + 1)) = Bytes(s) \cup {n + 1}
<1> DEFINE c == n + 1
<1>1. c \in Nat /\ <<c>> \in Seq(Nat) /\ \A x \in 1..n : x < c
  OBVIOUS
<1> HIDE DEF c
<1>2. Bytes(<<c>>) = {c} /\ Increasing(<<c>>)
  BY <1>1 DEF Bytes, Increasing
<1>3. Append(s, c) = s \o <<c>>
  BY <1>1, AppendIsConcat
<1>4. \A x \in Bytes(s), y \in Bytes(<<c>>) : x < y
  BY <1>1, <1>2
<1> QED BY <1>1, <1>2, <1>3, <1>4, BytesConcat, IncreasingConcat DEF c

\* The machine writes new bytes only, and OnlyKeptIsSeen.
SeenInv ==
  /\ Increasing(machine.wrote) /\ Bytes(machine.wrote) \subseteq 1..writes
  /\ OnlyKeptIsSeen

LEMMA InitSeen == Init => SeenInv
<1> SUFFICES ASSUME Init PROVE SeenInv
  OBVIOUS
<1>1. /\ machine.wrote = <<>> /\ backup.wrote = <<>> /\ Kept = <<>>
      /\ seen = <<>> /\ unsent = {}
  BY DEF Init, Kept
<1> QED BY <1>1 DEF SeenInv, OnlyKeptIsSeen, Increasing, Bytes

\* A byte written is kept if the state is saved; without a server it is seen.
LEMMA WriteSeen ==
  ASSUME TypeOK, PendingInv, SeenInv, Write
  PROVE  SeenInv'
<1>1. /\ writes \in Nat /\ machine \in History
      /\ machine.wrote \in Seq(Nat) /\ seen \in Seq(Nat)
  BY DEF TypeOK, History
<1>2. /\ writes' = writes + 1 /\ UNCHANGED <<wsnet, unsent, backup>>
      /\ \/ machine' = machine
         \/ machine' = [machine EXCEPT !.wrote = Append(@, writes + 1)]
      /\ wsnet => UNCHANGED seen
      /\ ~ wsnet =>
           /\ seen' = Append(seen, writes + 1)
           /\ machine' = [machine EXCEPT !.wrote = Append(@, writes + 1)]
  BY DEF Write
<1>3. /\ Increasing(machine.wrote) /\ Bytes(machine.wrote) \subseteq 1..writes
      /\ OnlyKeptIsSeen
  BY DEF SeenInv
<1>4. \/ machine'.wrote = machine.wrote
      \/ machine'.wrote = Append(machine.wrote, writes + 1)
  BY <1>1, <1>2 DEF History
<1>5. /\ Increasing(Append(machine.wrote, writes + 1))
      /\ Bytes(Append(machine.wrote, writes + 1))
           = Bytes(machine.wrote) \cup {writes + 1}
  BY <1>1, <1>3, IncreasingAppend
<1>6. 1..writes \subseteq 1..writes + 1 /\ writes + 1 \in 1..writes + 1
      /\ writes + 1 \notin 1..writes
  BY <1>1
<1>7. Increasing(machine'.wrote) /\ Bytes(machine'.wrote) \subseteq 1..writes'
  <2>1. writes' = writes + 1
    BY <1>2
  <2>2. CASE machine'.wrote = machine.wrote
    BY <1>3, <1>6, <2>1, <2>2
  <2>3. CASE machine'.wrote = Append(machine.wrote, writes + 1)
    BY <1>3, <1>5, <1>6, <2>1, <2>3
  <2> QED BY <1>4, <2>2, <2>3
<1>8. CASE wsnet
  <2>1. Kept' = Kept
    BY <1>2, <1>8 DEF Kept
  <2> QED BY <1>2, <1>3, <1>7, <1>8, <2>1
          DEF SeenInv, OnlyKeptIsSeen
<1>9. CASE ~ wsnet
  <2>1. Kept = machine.wrote /\ Kept' = Append(machine.wrote, writes + 1)
    BY <1>1, <1>2, <1>9 DEF Kept, History
  <2>2. Increasing(seen) /\ Bytes(seen) \subseteq 1..writes
        /\ Bytes(seen) = Bytes(machine.wrote) \ unsent
        /\ unsent \subseteq Bytes(machine.wrote)
    BY <1>3, <2>1 DEF OnlyKeptIsSeen
  <2>3. /\ Increasing(Append(seen, writes + 1))
        /\ Bytes(Append(seen, writes + 1)) = Bytes(seen) \cup {writes + 1}
    BY <1>1, <2>2, IncreasingAppend
  <2>4. writes + 1 \notin unsent
    BY <1>3, <1>6, <2>2
  <2>5. OnlyKeptIsSeen'
    BY <1>2, <1>5, <1>9, <2>1, <2>2, <2>3, <2>4 DEF OnlyKeptIsSeen
  <2> QED BY <1>7, <2>5 DEF SeenInv
<1> QED BY <1>8, <1>9

\* What a save writes follows what was seen, and none of it had been refused.
LEMMA SaveSeen ==
  ASSUME TypeOK, PendingInv, SeenInv, Save
  PROVE  SeenInv'
<1> DEFINE data == OutputBlock(fifo_output)
<1>1. /\ machine.wrote \in Seq(Nat) /\ backup.wrote \in Seq(Nat)
      /\ seen \in Seq(Nat) /\ fifo_output \in OutputFifo
  BY DEF TypeOK, History
<1>2. /\ UNCHANGED <<wsnet, writes, machine>> /\ backup' = machine
      /\ \/ seen' = seen \o data /\ unsent' = unsent
         \/ /\ unsent' = unsent \cup {data[i] : i \in 1..Len(data)}
            /\ seen' = seen
  BY DEF Save
<1>3. data \in Seq(Nat)
  BY <1>1, OutputBlockType
<1>4. Kept' = machine.wrote
  BY <1>2 DEF Kept
<1>5. /\ Increasing(machine.wrote) /\ Bytes(machine.wrote) \subseteq 1..writes
      /\ Increasing(seen) /\ Bytes(seen) = Bytes(Kept) \ unsent
      /\ unsent \subseteq Bytes(Kept)
  BY DEF SeenInv, OnlyKeptIsSeen
<1>6. Kept \in Seq(Nat) /\ machine.wrote = Kept \o data
  <2>1. CASE wsnet
    BY <1>1, <2>1 DEF PendingInv, RestIsPending, Kept
  <2>2. CASE ~ wsnet
    <3>1. data = <<>> /\ Kept = machine.wrote
      BY <1>1, <2>2, OutputEmpty DEF PendingInv, Kept
    <3> QED BY <1>1, <3>1, ConcatEmptySeq
  <2> QED BY <2>1, <2>2
<1> HIDE DEF data
<1>7. /\ Increasing(data) /\ Bytes(machine.wrote) = Bytes(Kept) \cup Bytes(data)
      /\ \A x \in Bytes(Kept), y \in Bytes(data) : x < y
  BY <1>3, <1>5, <1>6, IncreasingConcat, BytesConcat
<1>8. Bytes(Kept) \cap Bytes(data) = {}
  <2>1. Bytes(Kept) \subseteq Nat
    BY <1>6 DEF Bytes
  <2> QED BY <1>7, <2>1
<1>9. /\ Increasing(seen \o data)
      /\ Bytes(seen \o data) = Bytes(seen) \cup Bytes(data)
  <2>1. \A x \in Bytes(seen), y \in Bytes(data) : x < y
    BY <1>5, <1>7
  <2> QED BY <1>1, <1>3, <1>5, <1>7, <2>1, IncreasingConcat, BytesConcat
<1>10. {data[i] : i \in 1..Len(data)} = Bytes(data)
  BY DEF Bytes
<1>11. OnlyKeptIsSeen'
  <2>1. CASE seen' = seen \o data /\ unsent' = unsent
    BY <1>4, <1>5, <1>7, <1>8, <1>9, <2>1 DEF OnlyKeptIsSeen
  <2>2. CASE unsent' = unsent \cup Bytes(data) /\ seen' = seen
    BY <1>4, <1>5, <1>7, <1>8, <2>2 DEF OnlyKeptIsSeen
  <2> QED BY <1>2, <1>10, <2>1, <2>2
<1> QED BY <1>2, <1>5, <1>11 DEF SeenInv

\* A restore takes back what has not been seen.
LEMMA RestoreSeen ==
  ASSUME TypeOK, PendingInv, SeenInv, Restore
  PROVE  SeenInv'
<1>1. /\ backup.wrote \in Seq(Nat) /\ fifo_output \in OutputFifo
  BY DEF TypeOK, History
<1>2. wsnet /\ machine' = backup
      /\ UNCHANGED <<wsnet, writes, seen, unsent, backup>>
  BY DEF Restore
<1>3. /\ OutputBlock(fifo_output) \in Seq(Nat)
      /\ machine.wrote = backup.wrote \o OutputBlock(fifo_output)
  BY <1>1, <1>2, OutputBlockType DEF PendingInv, RestIsPending
<1>4. Bytes(backup.wrote) \subseteq Bytes(machine.wrote)
  BY <1>1, <1>3, BytesConcat
<1>5. Increasing(backup.wrote)
  BY <1>2 DEF SeenInv, OnlyKeptIsSeen, Kept
<1>6. Kept' = Kept
  BY <1>2 DEF Kept
<1> QED BY <1>2, <1>4, <1>5, <1>6 DEF SeenInv, OnlyKeptIsSeen

LEMMA NextSeen ==
  ASSUME TypeOK, PendingInv, SeenInv, [Next]_vars
  PROVE  SeenInv'
<1>1. CASE Write
  BY <1>1, WriteSeen
<1>2. CASE Save
  BY <1>2, SaveSeen
<1>3. CASE Restore
  BY <1>3, RestoreSeen
<1>4. CASE Read
  <2>1. /\ UNCHANGED <<wsnet, writes, seen, unsent, backup>>
        /\ machine' = [machine EXCEPT !.read =
                         Append(@, InputBlock(fifo_input, 1)[1])]
    BY <1>4 DEF Read, outVars
  <2>2. machine'.wrote = machine.wrote
    BY <2>1 DEF TypeOK, History
  <2> QED BY <2>1, <2>2 DEF SeenInv, OnlyKeptIsSeen, Kept
<1>5. CASE Peer \/ Update \/ UNCHANGED vars
  <2>1. UNCHANGED <<wsnet, writes, seen, unsent, machine, backup>>
    BY <1>5 DEF Peer, PeerSend, PeerConnect, PeerClose, Update, UpdateAccept,
                UpdateRead, UpdateClose, vars, outVars
  <2> QED BY <2>1 DEF SeenInv, OnlyKeptIsSeen, Kept
<1> QED BY <1>1, <1>2, <1>3, <1>4, <1>5 DEF Next

THEOREM SeenCorrect == Spec => []SeenInv
<1>1. TypeOK /\ PendingInv /\ SeenInv /\ [Next]_vars => SeenInv'
  BY NextSeen
<1> QED BY <1>1, InitSeen, TypeCorrect, PendingCorrect, PTL DEF Spec

\* No cancelled future is seen from outside, and no byte of the kept past is
\* seen twice, out of its order or not at all unless the descriptor refused it:
\* for any sizes of the rings and any order of writes, saves and restores.
THEOREM NothingCancelledIsSeen == Spec => []OnlyKeptIsSeen
<1>1. SeenInv => OnlyKeptIsSeen
  BY DEF SeenInv
<1> QED BY <1>1, SeenCorrect, PTL
=============================================================================
