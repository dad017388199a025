---------------------------- MODULE RecorderProofs -----------------------------
(***************************************************************************)
(* The recorders of a node.  The trace file never holds an event of a time *)
(* that was given up, and the counters of its header are those of the      *)
(* file, whatever the number of signals and the sizes of the block and of  *)
(* its threshold; no byte of the radio is lost by the log of packets; and  *)
(* the slots of eSimu share out the cycles that were traced.               *)
(***************************************************************************)
EXTENDS Recorder, SequenceTheorems, FiniteSetTheorems, TLAPS

-----------------------------------------------------------------------------
(* The trace: the file, then the block. *)

LEMMA TraceOfIs ==
  ASSUME NEW f \in Seq(Event), NEW b \in [1..Block -> Event], NEW n \in 0..Block
  PROVE  /\ TraceOf(f, b, n) \in Seq(Event)
         /\ Len(TraceOf(f, b, n)) = Len(f) + n
         /\ DOMAIN TraceOf(f, b, n) = 1..(Len(f) + n)
         /\ \A i \in 1..Len(f) : TraceOf(f, b, n)[i] = f[i]
         /\ \A i \in 1..n : TraceOf(f, b, n)[Len(f) + i] = b[i]
<1> DEFINE t == TraceOf(f, b, n)
<1>1. /\ Len(f) \in Nat /\ n \in Nat /\ Block \in Nat /\ n <= Block
      /\ \A i \in 1..Len(f) : f[i] \in Event
      /\ \A i \in 1..Block : b[i] \in Event
  BY TracerAssumption
<1>2. t = [i \in 1..(Len(f) + n) |-> IF i <= Len(f) THEN f[i] ELSE b[i - Len(f)]]
  BY DEF TraceOf
<1>3. ASSUME NEW i \in 1..(Len(f) + n)
      PROVE  (IF i <= Len(f) THEN f[i] ELSE b[i - Len(f)]) \in Event
  <2>1. CASE i <= Len(f)
    BY <1>1, <2>1
  <2>2. CASE ~ (i <= Len(f))
    <3>1. i - Len(f) \in 1..Block
      BY <1>1, <2>2
    <3> QED
      BY <1>1, <2>2, <3>1
  <2> QED
    BY <2>1, <2>2
<1>4. t \in [1..(Len(f) + n) -> Event]
  BY <1>2, <1>3
<1>5. t \in Seq(Event) /\ Len(t) = Len(f) + n /\ DOMAIN t = 1..(Len(f) + n)
  BY <1>1, <1>4
<1>6. \A i \in 1..Len(f) : t[i] = f[i]
  BY <1>1, <1>2
<1>7. \A i \in 1..n : t[Len(f) + i] = b[i]
  <2> TAKE i \in 1..n
  <2>1. Len(f) + i \in 1..(Len(f) + n) /\ ~ (Len(f) + i <= Len(f)) /\ Len(f) + i - Len(f) = i
    BY <1>1
  <2> QED
    BY <1>2, <2>1
<1> QED
  BY <1>5, <1>6, <1>7

\* A block of which nothing is used adds nothing to the file.
LEMMA TraceOfNothing ==
  ASSUME NEW f \in Seq(Event), NEW b \in [1..Block -> Event]
  PROVE  TraceOf(f, b, 0) = f
<1>1. 0 \in 0..Block /\ Len(f) \in Nat
  BY TracerAssumption
<1>2. /\ TraceOf(f, b, 0) \in Seq(Event) /\ Len(TraceOf(f, b, 0)) = Len(f)
      /\ \A i \in 1..Len(f) : TraceOf(f, b, 0)[i] = f[i]
  BY <1>1, TraceOfIs
<1> QED
  BY <1>2

\* Two traces that differ in what the block has beyond n are the same up to n.
LEMMA TraceOfSame ==
  ASSUME NEW f \in Seq(Event), NEW b \in [1..Block -> Event], NEW c \in [1..Block -> Event],
         NEW n \in 0..Block, \A i \in 1..n : b[i] = c[i]
  PROVE  TraceOf(f, b, n) = TraceOf(f, c, n)
<1>1. Len(f) \in Nat /\ n \in Nat
  OBVIOUS
<1>2. ASSUME NEW i \in 1..(Len(f) + n), ~ (i <= Len(f))
      PROVE  b[i - Len(f)] = c[i - Len(f)]
  <2>1. i - Len(f) \in 1..n
    BY <1>1, <1>2
  <2> QED
    BY <2>1
<1> QED
  BY <1>2 DEF TraceOf

-----------------------------------------------------------------------------
(* The counters. *)

\* The counters c are those of the trace tr.
Speaks(c, tr) ==
  /\ c.ev_count_total = Len(tr)
  /\ \A id \in Ids :
       /\ c.id_count[id] = Occurrences(id, tr)
       /\ IsLast(id, c.id_val[id], tr)
       /\ \A i \in DOMAIN tr : tr[i][1] = id => tr[i][2] <= c.id_max[id]

\* tr is one event longer than old.
Longer(old, tr, id, v) ==
  /\ Len(tr) = Len(old) + 1 /\ tr[Len(tr)] = <<id, v>>
  /\ \A i \in 1..Len(old) : tr[i] = old[i]

LEMMA OccurrencesLonger ==
  ASSUME NEW old \in Seq(Event), NEW tr \in Seq(Event), NEW id \in Ids, NEW v \in Vals,
         Longer(old, tr, id, v), NEW x \in Ids
  PROVE  Occurrences(x, tr) = IF x = id THEN Occurrences(x, old) + 1 ELSE Occurrences(x, old)
<1> DEFINE S == {i \in DOMAIN old : old[i][1] = x}
           T == {i \in DOMAIN tr : tr[i][1] = x}
           n == Len(old)
<1>1. /\ n \in Nat /\ DOMAIN old = 1..n /\ DOMAIN tr = 1..(n + 1)
      /\ tr[n + 1] = <<id, v>> /\ \A i \in 1..n : tr[i] = old[i]
  BY DEF Longer
<1>2. IsFiniteSet(S)
  <2>1. IsFiniteSet(1..n)
    BY <1>1, FS_Interval
  <2> QED
    BY <1>1, <2>1, FS_Subset
<1>3. CASE x = id
  <2>1. T = S \cup {n + 1}
    BY <1>1, <1>3
  <2>2. n + 1 \notin S
    BY <1>1
  <2>3. Cardinality(T) = Cardinality(S) + 1
    BY <1>2, <2>1, <2>2, FS_AddElement
  <2> QED
    BY <1>3, <2>3 DEF Occurrences
<1>4. CASE x # id
  <2>1. T = S
    BY <1>1, <1>4
  <2> QED
    BY <1>4, <2>1 DEF Occurrences
<1> QED
  BY <1>3, <1>4

\* Recording one event: the counters follow, and what is before it stays.
LEMMA CountedSpeaks ==
  ASSUME NEW f \in Seq(Event), NEW b \in [1..Block -> Event], NEW c \in Current,
         NEW id \in Ids, NEW v \in Vals, Speaks(c, TraceOf(f, b, c.ev_count))
  PROVE  LET d == Counted(c, id, v)
             e == Stored(c, b, id, v)
         IN  /\ d \in Current /\ e \in [1..Block -> Event]
             /\ Speaks(d, TraceOf(f, e, d.ev_count))
             /\ c.ev_count <= d.ev_count /\ d.ev_count <= c.ev_count + 1
             /\ \A i \in 1..c.ev_count : e[i] = b[i]
<1> DEFINE d == Counted(c, id, v)
           e == Stored(c, b, id, v)
           n == c.ev_count
           old == TraceOf(f, b, n)
           tr == TraceOf(f, e, n + 1)
<1>1. /\ n \in 0..Block /\ n \in Nat /\ Block \in Nat /\ c.ev_count_total \in Nat
      /\ c.id_val \in [Ids -> Vals] /\ c.id_count \in [Ids -> Nat] /\ c.id_max \in [Ids -> Vals]
      /\ Vals \subseteq Nat /\ Len(f) \in Nat /\ <<id, v>> \in Event
  BY TracerAssumption DEF Current, Event
<1>2. CASE n = Block
  <2>1. d = c /\ e = b
    BY <1>2 DEF Counted, Stored
  <2> QED
    BY <1>1, <2>1
<1>3. CASE n # Block
  <2>1. d = [ev_count       |-> n + 1,
             ev_count_total |-> c.ev_count_total + 1,
             id_val         |-> [c.id_val EXCEPT ![id] = v],
             id_count       |-> [c.id_count EXCEPT ![id] = @ + 1],
             id_max         |-> [c.id_max EXCEPT ![id] = IF @ < v THEN v ELSE @]]
    BY <1>3 DEF Counted
  <2>2. n + 1 \in 0..Block /\ n + 1 \in 1..Block
    BY <1>1, <1>3
  <2>3. e = [b EXCEPT ![n + 1] = <<id, v>>]
    BY <1>3 DEF Stored
  <2>4. e \in [1..Block -> Event] /\ e[n + 1] = <<id, v>> /\ \A i \in 1..n : e[i] = b[i]
    BY <1>1, <2>2, <2>3
  <2>5. d \in Current
    BY <1>1, <2>1, <2>2 DEF Current
  <2>6. /\ old \in Seq(Event) /\ Len(old) = Len(f) + n
        /\ \A i \in 1..Len(f) : old[i] = f[i]
        /\ \A i \in 1..n : old[Len(f) + i] = b[i]
    BY <1>1, TraceOfIs
  <2>7. /\ tr \in Seq(Event) /\ Len(tr) = Len(f) + (n + 1)
        /\ \A i \in 1..Len(f) : tr[i] = f[i]
        /\ \A i \in 1..(n + 1) : tr[Len(f) + i] = e[i]
    BY <2>2, <2>4, TraceOfIs
  <2>8. Longer(old, tr, id, v)
    <3>1. Len(tr) = Len(old) + 1
      BY <1>1, <2>6, <2>7
    <3>2. tr[Len(tr)] = <<id, v>>
      <4>1. n + 1 \in 1..(n + 1)
        BY <1>1
      <4>2. tr[Len(f) + (n + 1)] = e[n + 1]
        BY <2>7, <4>1
      <4> QED
        BY <2>4, <2>7, <4>2
    <3>3. ASSUME NEW i \in 1..Len(old)
          PROVE  tr[i] = old[i]
      <4>1. CASE i <= Len(f)
        BY <1>1, <2>6, <2>7, <4>1
      <4>2. CASE ~ (i <= Len(f))
        <5>1. /\ i - Len(f) \in 1..n /\ i - Len(f) \in 1..(n + 1)
              /\ i = Len(f) + (i - Len(f))
          BY <1>1, <2>6, <4>2
        <5> QED
          BY <2>4, <2>6, <2>7, <5>1
      <4> QED
        BY <4>1, <4>2
    <3> QED
      BY <3>1, <3>2, <3>3 DEF Longer
  <2>9. Speaks(d, tr)
    <3>1. d.ev_count_total = Len(tr)
      BY <1>1, <2>1, <2>6, <2>8 DEF Speaks, Longer
    <3>2. ASSUME NEW x \in Ids
          PROVE  d.id_count[x] = Occurrences(x, tr)
      <4>1. Occurrences(x, tr) = IF x = id THEN Occurrences(x, old) + 1 ELSE Occurrences(x, old)
        BY <2>6, <2>7, <2>8, OccurrencesLonger
      <4>2. c.id_count[x] = Occurrences(x, old)
        BY DEF Speaks
      <4>3. d.id_count[x] = IF x = id THEN c.id_count[x] + 1 ELSE c.id_count[x]
        BY <1>1, <2>1
      <4> QED
        BY <4>1, <4>2, <4>3
    <3> DEFINE k == Len(old)
    <3>3. /\ k \in Nat /\ DOMAIN tr = 1..(k + 1) /\ DOMAIN old = 1..k
          /\ tr[k + 1] = <<id, v>> /\ \A i \in 1..k : tr[i] = old[i]
      BY <2>6, <2>7, <2>8 DEF Longer
    <3>4. ASSUME NEW x \in Ids
          PROVE  IsLast(x, d.id_val[x], tr)
      <4>1. CASE x = id
        <5>1. d.id_val[x] = v
          BY <1>1, <2>1, <4>1
        <5>2. \A j \in DOMAIN tr : j > k + 1 => tr[j][1] # id
          BY <3>3
        <5>3. k + 1 \in DOMAIN tr /\ tr[k + 1] = <<x, d.id_val[x]>>
          BY <3>3, <4>1, <5>1
        <5>4. \E i \in DOMAIN tr : /\ tr[i] = <<x, d.id_val[x]>>
                                   /\ \A j \in DOMAIN tr : j > i => tr[j][1] # x
          BY <4>1, <5>2, <5>3
        <5> QED
          BY <5>4 DEF IsLast
      <4>2. CASE x # id
        <5> DEFINE w == c.id_val[x]
        <5>1. d.id_val[x] = w
          BY <1>1, <2>1, <4>2
        <5>2. IsLast(x, w, old)
          BY DEF Speaks
        <5>3. CASE w = 0 /\ \A i \in DOMAIN old : old[i][1] # x
          BY <3>3, <4>2, <5>1, <5>3 DEF IsLast
        <5>4. CASE \E i \in DOMAIN old : old[i] = <<x, w>> /\ \A j \in DOMAIN old : j > i => old[j][1] # x
          <6>1. PICK i \in DOMAIN old : old[i] = <<x, w>> /\ \A j \in DOMAIN old : j > i => old[j][1] # x
            BY <5>4
          <6>2. i \in DOMAIN tr /\ tr[i] = <<x, w>>
            BY <3>3, <6>1
          <6>3. \A j \in DOMAIN tr : j > i => tr[j][1] # x
            BY <3>3, <4>2, <6>1
          <6> QED
            BY <5>1, <6>2, <6>3 DEF IsLast
        <5> QED
          BY <5>2, <5>3, <5>4 DEF IsLast
      <4> QED
        BY <4>1, <4>2
    <3>5. ASSUME NEW x \in Ids, NEW i \in DOMAIN tr, tr[i][1] = x
          PROVE  tr[i][2] <= d.id_max[x]
      <4>1. d.id_max[x] = IF x = id THEN (IF c.id_max[x] < v THEN v ELSE c.id_max[x])
                          ELSE c.id_max[x]
        BY <1>1, <2>1
      <4>2. c.id_max[x] \in Nat /\ v \in Nat
        BY <1>1
      <4>3. CASE i = k + 1
        BY <3>3, <3>5, <4>1, <4>2, <4>3
      <4>4. CASE i \in 1..k
        <5>1. tr[i] = old[i] /\ i \in DOMAIN old
          BY <3>3, <4>4
        <5>2. old[i][2] <= c.id_max[x]
          BY <3>5, <5>1 DEF Speaks
        <5>3. old[i][2] \in Nat
          <6>1. old[i] \in Event
            BY <2>6, <5>1
          <6>2. old[i][2] \in Vals
            BY <6>1 DEF Event
          <6> QED
            BY <1>1, <6>2
        <5> QED
          BY <4>1, <4>2, <5>1, <5>2, <5>3
      <4> QED
        BY <3>3, <4>3, <4>4
    <3> QED
      BY <3>1, <3>2, <3>4, <3>5 DEF Speaks
  <2>10. d.ev_count = n + 1
    BY <2>1
  <2> QED
    BY <1>1, <2>4, <2>5, <2>9, <2>10
<1> QED
  BY <1>2, <1>3

-----------------------------------------------------------------------------
(* The recorder. *)

\* The trace a restore would bring back.
KeptTrace == TraceOf(datafile, block, trc_saved.ev_count)

TrcInv ==
  /\ TrcTypeOK
  /\ Speaks(trc, Trace)
  /\ Open => trc_saved.ev_count <= trc.ev_count /\ Speaks(trc_saved, KeptTrace)
  /\ ~ Open => header.ev_count_total = Len(datafile) /\ header.id_count = trc.id_count

\* What happens to the recorder while the machine runs: events are added, and
\* what a restore brings back does not change.
OnlyRecords ==
  /\ trc' \in Current /\ block' \in [1..Block -> Event]
  /\ Speaks(trc', TraceOf(datafile, block', trc'.ev_count))
  /\ trc.ev_count <= trc'.ev_count
  /\ \A i \in 1..trc.ev_count : block'[i] = block[i]

LEMMA BlockEnds ==
  ASSUME TrcTypeOK
  PROVE  /\ trc.ev_count \in 0..Block /\ trc_saved.ev_count \in 0..Block
         /\ trc \in Current /\ trc_saved \in Current
         /\ block \in [1..Block -> Event] /\ datafile \in Seq(Event)
  BY DEF TrcTypeOK, Current

LEMMA RecordedKeeps ==
  ASSUME TrcInv, Open, OnlyRecords, pointers' \in {"none", "all", "forced"},
         UNCHANGED <<trc_saved, datafile, header, running, backtracks>>
  PROVE  TrcInv' /\ TraceJournal!Record
<1>1. /\ trc.ev_count \in 0..Block /\ trc_saved.ev_count \in 0..Block
      /\ trc_saved.ev_count <= trc.ev_count
      /\ block \in [1..Block -> Event] /\ datafile \in Seq(Event)
      /\ trc' \in Current /\ block' \in [1..Block -> Event] /\ trc'.ev_count \in 0..Block
      /\ trc_saved.ev_count <= trc'.ev_count
  BY BlockEnds DEF TrcInv, OnlyRecords, Current
<1>2. \A i \in 1..trc_saved.ev_count : block[i] = block'[i]
  BY <1>1 DEF OnlyRecords
<1>3. TraceOf(datafile, block', trc_saved.ev_count) = KeptTrace
  BY <1>1, <1>2, TraceOfSame DEF KeptTrace
<1>4. /\ KeptTrace' = KeptTrace /\ Open'
      /\ Trace' = TraceOf(datafile, block', trc'.ev_count)
  BY <1>3 DEF KeptTrace, Open, Trace
<1>5. TrcTypeOK'
  BY <1>1 DEF TrcInv, TrcTypeOK, OnlyRecords
<1>6. TrcInv'
  <2>1. Speaks(trc, Trace)' <=> Speaks(trc', Trace')
    BY DEF Speaks, Occurrences, IsLast
  <2>2. Speaks(trc_saved, KeptTrace)' <=> Speaks(trc_saved, KeptTrace)
    BY <1>4 DEF Speaks, Occurrences, IsLast
  <2> QED
    BY <1>1, <1>4, <1>5, <2>1, <2>2 DEF TrcInv, OnlyRecords
<1>7. TraceJournal!IsStart(Trace, Trace')
  <2> DEFINE n == trc.ev_count
             m == trc'.ev_count
             old == TraceOf(datafile, block, n)
             new == TraceOf(datafile, block', m)
  <2>1. /\ Len(old) = Len(datafile) + n
        /\ \A i \in 1..Len(datafile) : old[i] = datafile[i]
        /\ \A i \in 1..n : old[Len(datafile) + i] = block[i]
    BY <1>1, TraceOfIs
  <2>2. /\ Len(new) = Len(datafile) + m
        /\ \A i \in 1..Len(datafile) : new[i] = datafile[i]
        /\ \A i \in 1..m : new[Len(datafile) + i] = block'[i]
    BY <1>1, TraceOfIs
  <2>3. n \in Nat /\ m \in Nat /\ n <= m /\ Len(datafile) \in Nat
    BY <1>1 DEF OnlyRecords
  <2>4. ASSUME NEW i \in 1..Len(old)
        PROVE  old[i] = new[i]
    <3>1. CASE i <= Len(datafile)
      BY <2>1, <2>2, <2>3, <3>1
    <3>2. CASE ~ (i <= Len(datafile))
      <4>1. /\ i - Len(datafile) \in 1..n /\ i - Len(datafile) \in 1..m
            /\ i = Len(datafile) + (i - Len(datafile))
        BY <2>1, <2>3, <3>2
      <4>2. block'[i - Len(datafile)] = block[i - Len(datafile)]
        BY <4>1 DEF OnlyRecords
      <4> QED
        BY <2>1, <2>2, <4>1, <4>2
    <3> QED
      BY <3>1, <3>2
  <2>5. Len(old) <= Len(new)
    BY <2>1, <2>2, <2>3
  <2> QED
    BY <1>4, <2>4, <2>5 DEF Trace, TraceJournal!IsStart
<1>8. UNCHANGED <<IF Open THEN KeptTrace ELSE datafile, datafile>>
  BY <1>4
<1> QED
  BY <1>6, <1>7, <1>8 DEF TraceJournal!Record, KeptTrace

\* One event, recorded or dropped.
LEMMA OneRecorded ==
  ASSUME TrcInv, NEW id \in Ids, NEW v \in Vals,
         trc' = Counted(trc, id, v), block' = Stored(trc, block, id, v)
  PROVE  OnlyRecords
<1>1. /\ datafile \in Seq(Event) /\ block \in [1..Block -> Event] /\ trc \in Current
      /\ Speaks(trc, TraceOf(datafile, block, trc.ev_count))
  BY BlockEnds DEF TrcInv, Trace
<1> QED
  BY <1>1, CountedSpeaks DEF OnlyRecords

LEMMA SameRecorded ==
  ASSUME TrcInv, UNCHANGED <<trc, block>>
  PROVE  OnlyRecords
<1>1. block \in [1..Block -> Event] /\ trc \in Current /\ trc.ev_count \in Nat
  BY BlockEnds DEF TrcInv
<1>2. Speaks(trc', TraceOf(datafile, block', trc'.ev_count))
  BY DEF TrcInv, Trace
<1> QED
  BY <1>1, <1>2 DEF OnlyRecords

LEMMA ZeroIsValue == 0 \in Vals
  BY TracerAssumption

LEMMA StepKeeps ==
  ASSUME TrcInv, TrcStep
  PROVE  TrcInv' /\ TraceJournal!Record
<1>1. ASSUME NEW id \in Ids, AddId(id)
      PROVE  TrcInv' /\ TraceJournal!Record
  <2>1. OnlyRecords
    BY <1>1, OneRecorded, ZeroIsValue DEF AddId
  <2> QED
    BY <1>1, <2>1, RecordedKeeps DEF AddId, TrcInv, TrcTypeOK
<1>2. CASE StartTracer
  BY <1>2, SameRecorded, RecordedKeeps DEF StartTracer
<1>3. CASE StopTracer
  BY <1>3, SameRecorded, RecordedKeeps DEF StopTracer
<1>4. ASSUME NEW id \in Ids, NEW v \in Vals, Record(id, v)
      PROVE  TrcInv' /\ TraceJournal!Record
  <2>1. CASE v = trc.id_val[id]
    <3>1. OnlyRecords
      BY <1>4, <2>1, SameRecorded DEF Record, Changed, ChangeStored
    <3> QED
      BY <1>4, <3>1, RecordedKeeps DEF Record, TrcInv, TrcTypeOK
  <2>2. CASE v # trc.id_val[id]
    <3>1. OnlyRecords
      BY <1>4, <2>2, OneRecorded DEF Record, Changed, ChangeStored
    <3> QED
      BY <1>4, <3>1, RecordedKeeps DEF Record, TrcInv, TrcTypeOK
  <2> QED
    BY <2>1, <2>2
<1>5. ASSUME NEW id \in Ids, NEW v \in Vals, RecordForce(id, v)
      PROVE  TrcInv' /\ TraceJournal!Record
  <2> DEFINE one == Counted(trc, id, 0)
             two == Counted(one, id, v)
             b1 == Stored(trc, block, id, 0)
             b2 == Stored(one, b1, id, v)
  <2>1. /\ datafile \in Seq(Event) /\ block \in [1..Block -> Event] /\ trc \in Current
        /\ Speaks(trc, TraceOf(datafile, block, trc.ev_count)) /\ trc.ev_count \in Nat
    BY BlockEnds DEF TrcInv, Trace
  <2>2. /\ one \in Current /\ b1 \in [1..Block -> Event]
        /\ Speaks(one, TraceOf(datafile, b1, one.ev_count))
        /\ trc.ev_count <= one.ev_count /\ \A i \in 1..trc.ev_count : b1[i] = block[i]
    BY <2>1, ZeroIsValue, CountedSpeaks
  <2>3. /\ two \in Current /\ b2 \in [1..Block -> Event]
        /\ Speaks(two, TraceOf(datafile, b2, two.ev_count))
        /\ one.ev_count <= two.ev_count /\ \A i \in 1..one.ev_count : b2[i] = b1[i]
    BY <2>1, <2>2, CountedSpeaks
  <2>4. /\ trc' = Counted(two, id, 0) /\ block' = Stored(two, b2, id, 0)
    BY <1>5 DEF RecordForce
  <2>5. /\ trc' \in Current /\ block' \in [1..Block -> Event]
        /\ Speaks(trc', TraceOf(datafile, block', trc'.ev_count))
        /\ two.ev_count <= trc'.ev_count /\ \A i \in 1..two.ev_count : block'[i] = b2[i]
    BY <2>1, <2>3, <2>4, ZeroIsValue, CountedSpeaks
  <2>6. /\ one.ev_count \in Nat /\ two.ev_count \in Nat /\ trc'.ev_count \in Nat
    BY <2>2, <2>3, <2>5 DEF Current
  <2>7. OnlyRecords
    <3> HIDE DEF one, two, b1, b2
    <3>1. trc.ev_count <= trc'.ev_count
      BY <2>1, <2>2, <2>3, <2>5, <2>6
    <3>2. ASSUME NEW i \in 1..trc.ev_count
          PROVE  block'[i] = block[i]
      <4>1. i \in 1..one.ev_count /\ i \in 1..two.ev_count
        BY <2>1, <2>2, <2>3, <2>6
      <4> QED
        BY <2>2, <2>3, <2>5, <4>1
    <3> QED
      BY <2>5, <3>1, <3>2 DEF OnlyRecords
  <2> QED
    BY <1>5, <2>7, RecordedKeeps DEF RecordForce, TrcInv, TrcTypeOK
<1> QED
  BY <1>1, <1>2, <1>3, <1>4, <1>5 DEF TrcStep

\* The block is written and the copy made of what is left of it.
LEMMA SaveKeeps ==
  ASSUME TrcInv, TrcSave
  PROVE  TrcInv' /\ TraceJournal!Save
<1> DEFINE n == trc.ev_count
<1>1. /\ n \in 0..Block /\ trc \in Current /\ 0 \in 0..Block
      /\ block \in [1..Block -> Event] /\ datafile \in Seq(Event)
  BY BlockEnds, TracerAssumption DEF TrcInv
<1>2. /\ Trace \in Seq(Event) /\ Len(Trace) = Len(datafile) + n
      /\ \A i \in 1..Len(datafile) : Trace[i] = datafile[i]
  BY <1>1, TraceOfIs DEF Trace
<1>3. block' = block /\ header' = header /\ Open /\ Open' /\ trc_saved' = trc'
  BY DEF TrcSave, Open
<1>4. /\ trc' \in Current /\ datafile' \in Seq(Event) /\ Trace' = Trace
      /\ trc'.ev_count_total = trc.ev_count_total /\ trc'.id_count = trc.id_count
      /\ trc'.id_val = trc.id_val /\ trc'.id_max = trc.id_max /\ trc'.ev_count \in 0..Block
      /\ datafile' = Trace \/ datafile' = datafile
  <2>1. CASE n > Threshold
    <3>1. datafile' = Trace /\ trc' = [trc EXCEPT !.ev_count = 0]
      BY <2>1 DEF TrcSave
    <3>2. trc' \in Current /\ trc'.ev_count = 0
      BY <1>1, <3>1 DEF Current
    <3>3. Trace' = TraceOf(datafile', block, 0)
      BY <1>3, <3>2 DEF Trace
    <3>4. Trace' = Trace
      BY <1>1, <1>2, <3>1, <3>3, TraceOfNothing
    <3> QED
      BY <1>1, <1>2, <3>1, <3>2, <3>4 DEF Current
  <2>2. CASE ~ (n > Threshold)
    <3>1. datafile' = datafile /\ trc' = trc
      BY <2>2 DEF TrcSave
    <3> QED
      BY <1>1, <1>3, <3>1 DEF Trace
  <2> QED
    BY <2>1, <2>2
<1>5. KeptTrace' = Trace'
  BY <1>3 DEF KeptTrace, Trace
<1>6. Speaks(trc', Trace)
  BY <1>4 DEF TrcInv, Speaks
<1>7. TrcInv'
  <2>1. Speaks(trc, Trace)' /\ Speaks(trc_saved, KeptTrace)'
    <3>1. Speaks(trc', Trace') /\ Speaks(trc_saved', KeptTrace')
      BY <1>3, <1>4, <1>5, <1>6
    <3>2. /\ Speaks(trc, Trace)' <=> Speaks(trc', Trace')
          /\ Speaks(trc_saved, KeptTrace)' <=> Speaks(trc_saved', KeptTrace')
      BY DEF Speaks, Occurrences, IsLast
    <3> QED
      BY <3>1, <3>2
  <2>2. TrcTypeOK'
    BY <1>3, <1>4, <1>1 DEF TrcInv, TrcTypeOK, TrcSave
  <2> QED
    BY <1>3, <1>4, <2>1, <2>2 DEF TrcInv
<1>8. TraceJournal!IsStart(datafile, datafile') /\ TraceJournal!IsStart(datafile', Trace)
  <2>1. Len(datafile) \in Nat /\ n \in Nat /\ Len(Trace) \in Nat
    BY <1>1, <1>2
  <2>2. /\ TraceJournal!IsStart(datafile, datafile) /\ TraceJournal!IsStart(Trace, Trace)
        /\ TraceJournal!IsStart(datafile, Trace)
    BY <1>2, <2>1 DEF TraceJournal!IsStart
  <2> QED
    BY <1>4, <2>2
<1> QED
  BY <1>3, <1>4, <1>5, <1>7, <1>8 DEF TraceJournal!Save, KeptTrace

\* The end of the block is taken back to where it was.
LEMMA RestoreKeeps ==
  ASSUME TrcInv, TrcRestore
  PROVE  TrcInv' /\ TraceJournal!GoBack
<1> DEFINE n == trc_saved.ev_count
           v == backtracks'
<1>1. /\ n \in 0..Block /\ n \in Nat /\ trc_saved \in Current
      /\ block \in [1..Block -> Event] /\ datafile \in Seq(Event)
      /\ Speaks(trc_saved, TraceOf(datafile, block, n))
  BY BlockEnds DEF TrcInv, TrcRestore, KeptTrace
<1>2. Open /\ Open' /\ UNCHANGED <<trc_saved, datafile, header, pointers, running>>
  BY DEF TrcRestore, Open
<1>3. v \in Vals /\ v \in 0..MaxBacktracks /\ BacktrackId \in Ids
  BY TracerAssumption DEF TrcInv, TrcTypeOK, TrcRestore
<1>4. /\ trc' \in Current /\ block' \in [1..Block -> Event]
      /\ Speaks(trc', TraceOf(datafile, block', trc'.ev_count))
      /\ n <= trc'.ev_count /\ trc'.ev_count <= n + 1
      /\ \A i \in 1..n : block'[i] = block[i]
  <2>1. CASE trc' = trc_saved /\ block' = block
    BY <1>1, <2>1
  <2>2. CASE trc' = Counted(trc_saved, BacktrackId, v) /\ block' = Stored(trc_saved, block, BacktrackId, v)
    BY <1>1, <1>3, <2>2, CountedSpeaks
  <2> QED
    BY <2>1, <2>2 DEF TrcRestore, Changed, ChangeStored
<1>5. KeptTrace' = KeptTrace
  BY <1>1, <1>2, <1>4, TraceOfSame DEF KeptTrace
<1>6. Trace' = TraceOf(datafile, block', trc'.ev_count)
  BY <1>2 DEF Trace
<1>7. TrcInv'
  <2>1. Speaks(trc, Trace)'
    <3>1. Speaks(trc', Trace')
      BY <1>4, <1>6
    <3>2. Speaks(trc, Trace)' <=> Speaks(trc', Trace')
      BY DEF Speaks, Occurrences, IsLast
    <3> QED
      BY <3>1, <3>2
  <2>2. Speaks(trc_saved, KeptTrace)'
    <3>1. Speaks(trc_saved', KeptTrace')
      BY <1>1, <1>2, <1>5 DEF KeptTrace
    <3>2. Speaks(trc_saved, KeptTrace)' <=> Speaks(trc_saved', KeptTrace')
      BY DEF Speaks, Occurrences, IsLast
    <3> QED
      BY <3>1, <3>2
  <2>3. TrcTypeOK'
    BY <1>2, <1>3, <1>4 DEF TrcInv, TrcTypeOK
  <2> QED
    BY <1>2, <1>4, <2>1, <2>2, <2>3 DEF TrcInv
<1>8. TraceJournal!IsStart(KeptTrace, Trace') /\ Len(Trace') <= Len(KeptTrace) + 1
  <2> DEFINE m == trc'.ev_count
             old == TraceOf(datafile, block, n)
             new == TraceOf(datafile, block', m)
  <2>1. /\ Len(old) = Len(datafile) + n
        /\ \A i \in 1..Len(datafile) : old[i] = datafile[i]
        /\ \A i \in 1..n : old[Len(datafile) + i] = block[i]
    BY <1>1, TraceOfIs
  <2>2. m \in 0..Block /\ m \in Nat /\ Len(datafile) \in Nat
    BY <1>1, <1>4 DEF Current
  <2>3. /\ Len(new) = Len(datafile) + m
        /\ \A i \in 1..Len(datafile) : new[i] = datafile[i]
        /\ \A i \in 1..m : new[Len(datafile) + i] = block'[i]
    BY <1>1, <1>4, <2>2, TraceOfIs
  <2>4. ASSUME NEW i \in 1..Len(old)
        PROVE  old[i] = new[i]
    <3>1. CASE i <= Len(datafile)
      BY <2>1, <2>2, <2>3, <3>1
    <3>2. CASE ~ (i <= Len(datafile))
      <4>1. /\ i - Len(datafile) \in 1..n /\ i - Len(datafile) \in 1..m
            /\ i = Len(datafile) + (i - Len(datafile))
        BY <1>1, <1>4, <2>1, <2>2, <3>2
      <4> QED
        BY <1>4, <2>1, <2>3, <4>1
    <3> QED
      BY <3>1, <3>2
  <2>5. Len(old) <= Len(new) /\ Len(new) <= Len(old) + 1
    BY <1>1, <1>4, <2>1, <2>2, <2>3
  <2> QED
    BY <1>6, <2>4, <2>5 DEF KeptTrace, TraceJournal!IsStart
<1> QED
  BY <1>2, <1>5, <1>7, <1>8 DEF TraceJournal!GoBack, KeptTrace

LEMMA CloseKeeps ==
  ASSUME TrcInv, TrcClose
  PROVE  TrcInv' /\ TraceJournal!Close
<1>1. /\ trc.ev_count \in 0..Block /\ trc \in Current /\ 0 \in 0..Block
      /\ block \in [1..Block -> Event] /\ datafile \in Seq(Event)
  BY BlockEnds, TracerAssumption DEF TrcInv
<1>2. Trace \in Seq(Event)
  BY <1>1, TraceOfIs DEF Trace
<1>3. /\ datafile' = Trace /\ block' = block /\ trc' = [trc EXCEPT !.ev_count = 0]
      /\ header' = [ev_count_total |-> trc.ev_count_total, id_count |-> trc.id_count,
                    id_max |-> trc.id_max]
      /\ Open
  BY DEF TrcClose
<1>4. ~ Open'
  BY <1>3 DEF Open, NoHeader
<1>5. /\ trc' \in Current /\ trc'.ev_count = 0
      /\ trc'.ev_count_total = trc.ev_count_total /\ trc'.id_count = trc.id_count
      /\ trc'.id_val = trc.id_val /\ trc'.id_max = trc.id_max
  BY <1>1, <1>3 DEF Current
<1>6. Trace' = Trace
  <2>1. Trace' = TraceOf(Trace, block, 0)
    BY <1>3, <1>5 DEF Trace
  <2> QED
    BY <1>1, <1>2, <2>1, TraceOfNothing
<1>7. TrcTypeOK'
  <2>1. header' \in Header
    BY <1>1, <1>3 DEF Header, Current
  <2> QED
    BY <1>1, <1>2, <1>3, <1>5, <2>1 DEF TrcInv, TrcTypeOK, TrcClose
<1>8. TrcInv'
  <2>1. Speaks(trc', Trace)
    BY <1>5 DEF TrcInv, Speaks
  <2>2. Speaks(trc, Trace)'
    BY <1>6, <2>1 DEF Speaks, Occurrences, IsLast
  <2>3. header'.ev_count_total = Len(datafile') /\ header'.id_count = trc'.id_count
    BY <1>3, <1>5 DEF TrcInv, Speaks
  <2> QED
    BY <1>4, <1>7, <2>2, <2>3 DEF TrcInv
<1> QED
  BY <1>3, <1>4, <1>6, <1>8 DEF TraceJournal!Close

LEMMA TrcInitKeeps ==
  ASSUME TrcInit
  PROVE  TrcInv /\ TraceJournal!Init
<1>1. /\ 0 \in 0..Block /\ <<>> \in Seq(Event) /\ 0 \in Vals /\ BacktrackId \in Ids
      /\ 0 \in 0..MaxBacktracks
  BY TracerAssumption
<1>2. block \in [1..Block -> Event]
  BY <1>1 DEF TrcInit, Event
<1>3. trc \in Current /\ trc_saved = trc /\ trc.ev_count = 0
  BY <1>1 DEF TrcInit, Current
<1>4. Trace = <<>> /\ KeptTrace = <<>> /\ datafile = <<>>
  BY <1>1, <1>2, <1>3, TraceOfNothing DEF TrcInit, Trace, KeptTrace
<1>5. Speaks(trc, <<>>)
  <2>1. ASSUME NEW id \in Ids
        PROVE  /\ trc.id_count[id] = Occurrences(id, <<>>)
               /\ IsLast(id, trc.id_val[id], <<>>)
               /\ \A i \in DOMAIN <<>> : <<>>[i][1] = id => <<>>[i][2] <= trc.id_max[id]
    <3>1. DOMAIN <<>> = {}
      OBVIOUS
    <3>2. {i \in DOMAIN <<>> : <<>>[i][1] = id} = {}
      BY <3>1
    <3>3. Occurrences(id, <<>>) = 0
      BY <3>2, FS_EmptySet DEF Occurrences
    <3>4. trc.id_count[id] = 0 /\ trc.id_val[id] = 0
      BY DEF TrcInit
    <3> QED
      BY <3>1, <3>3, <3>4 DEF IsLast
  <2>2. trc.ev_count_total = Len(<<>>)
    BY DEF TrcInit
  <2> QED
    BY <2>1, <2>2 DEF Speaks
<1>6. Open /\ TrcTypeOK
  BY <1>1, <1>2, <1>3 DEF TrcInit, TrcTypeOK, Open
<1>7. TrcInv
  BY <1>3, <1>4, <1>5, <1>6 DEF TrcInv
<1> QED
  BY <1>4, <1>6, <1>7 DEF TraceJournal!Init, TraceJournal!IsStart, KeptTrace

LEMMA TrcNextKeeps ==
  ASSUME TrcInv, [TrcNext]_trcVars
  PROVE  TrcInv' /\ [TraceJournal!Next]_(TraceJournal!vars)
<1>1. CASE TrcStep
  BY <1>1, StepKeeps DEF TraceJournal!Next
<1>2. CASE TrcSave
  BY <1>2, SaveKeeps DEF TraceJournal!Next
<1>3. CASE TrcRestore
  BY <1>3, RestoreKeeps DEF TraceJournal!Next
<1>4. CASE TrcClose
  BY <1>4, CloseKeeps DEF TraceJournal!Next
<1>5. CASE UNCHANGED trcVars
  <2>1. UNCHANGED <<Trace, KeptTrace, Open, datafile>>
    BY <1>5 DEF trcVars, Trace, KeptTrace, Open
  <2>2. TrcInv'
    <3>1. TrcTypeOK'
      BY <1>5 DEF trcVars, TrcInv, TrcTypeOK
    <3>2. Speaks(trc, Trace)' <=> Speaks(trc, Trace)
      BY <1>5, <2>1 DEF trcVars, Speaks, Occurrences, IsLast
    <3>3. Speaks(trc_saved, KeptTrace)' <=> Speaks(trc_saved, KeptTrace)
      BY <1>5, <2>1 DEF trcVars, Speaks, Occurrences, IsLast
    <3> QED
      BY <1>5, <2>1, <3>1, <3>2, <3>3 DEF trcVars, TrcInv
  <2>3. UNCHANGED TraceJournal!vars
    BY <2>1 DEF TraceJournal!vars, KeptTrace
  <2> QED
    BY <2>2, <2>3
<1> QED
  BY <1>1, <1>2, <1>3, <1>4, <1>5 DEF TrcNext

-----------------------------------------------------------------------------

\* The block and the copy of the counters made at a save always describe the
\* trace that a restore brings back.
THEOREM RecorderCorrect == TrcSpec => []TrcInv
<1>1. TrcInit => TrcInv
  BY TrcInitKeeps
<1>2. TrcInv /\ [TrcNext]_trcVars => TrcInv'
  BY TrcNextKeeps
<1> QED
  BY <1>1, <1>2, PTL DEF TrcSpec

\* The counters of libtracer, and the header written when it is closed, speak
\* of the events that are in the trace, whatever was given up or dropped.
THEOREM TraceIsTrue == TrcSpec => []TraceTrue
<1>1. TrcInv => TraceTrue
  BY DEF TrcInv, TraceTrue, Speaks
<1> QED
  BY <1>1, RecorderCorrect, PTL

\* No event of a time that was given up is ever in the trace file, and no event
\* that was kept is missing from it, for any sizes of the block.
THEOREM TraceIsJournal == TrcSpec => ImplementsTrace
<1>1. TrcInit => TraceJournal!Init
  BY TrcInitKeeps
<1>2. TrcInv /\ [TrcNext]_trcVars => [TraceJournal!Next]_(TraceJournal!vars)
  BY TrcNextKeeps
<1> QED
  BY <1>1, <1>2, RecorderCorrect, PTL DEF TrcSpec, ImplementsTrace, TraceJournal!Spec

-----------------------------------------------------------------------------
(* The log of packets. *)

\* The second slot of the receiver is used only while the first one waits to
\* be written: this is what keeps the bytes in order.
SecondAfterFirst(first, second) == ~ first["rx"].completed => second["rx"].pkt = <<>>

LogInv ==
  /\ LogTypeOK
  /\ NoTxByteLost
  /\ SecondAfterFirst(tab, tab_buf)
  /\ SecondAfterFirst(tab_saved.tab, tab_saved.buf)

\* The start of a concatenation.
LEMMA ConcatStart ==
  ASSUME NEW S, NEW s \in Seq(S), NEW t \in Seq(S)
  PROVE  s \o t \in Seq(S) /\ TraceJournal!IsStart(s, s \o t)
<1>1. /\ s \o t \in Seq(S) /\ Len(s \o t) = Len(s) + Len(t)
      /\ \A i \in 1..Len(s) + Len(t) :
           (s \o t)[i] = IF i <= Len(s) THEN s[i] ELSE t[i - Len(s)]
  BY ConcatProperties, Zenon
<1>2. Len(s) \in Nat /\ Len(t) \in Nat
  OBVIOUS
<1> QED BY <1>1, <1>2 DEF TraceJournal!IsStart

LEMMA OneMore ==
  ASSUME NEW s \in Seq(Byte), NEW e \in Byte
  PROVE  Len(s) \in Nat /\ Len(Append(s, e)) = Len(s) + 1
  OBVIOUS

LEMMA ConcatThree ==
  ASSUME NEW s \in Seq(Byte), NEW t \in Seq(Byte), NEW u \in Seq(Byte)
  PROVE  s \o (t \o u) = s \o t \o u
  BY ConcatAssociative

\* The start of a start.
LEMMA StartOfStart ==
  ASSUME NEW S, NEW s \in Seq(S), NEW t \in Seq(S), NEW u \in Seq(S),
         TraceJournal!IsStart(s, t), TraceJournal!IsStart(t, u)
  PROVE  TraceJournal!IsStart(s, u)
<1>1. Len(s) \in Nat /\ Len(t) \in Nat /\ Len(u) \in Nat
  OBVIOUS
<1> QED BY <1>1 DEF TraceJournal!IsStart

LEMMA LogInitKeeps == LogInit => LogInv /\ RxJournal!Init
<1> SUFFICES ASSUME LogInit PROVE LogInv /\ RxJournal!Init
  OBVIOUS
<1>1. Empty \in Slot /\ Empty.pkt = <<>> /\ [mode |-> "idle", sent |-> 0] \in Air
  BY DEF Empty, Slot, Air
<1>2. /\ tab = [d \in Dirs |-> Empty] /\ tab_buf = tab
      /\ tab_saved = [tab |-> tab, buf |-> tab]
      /\ logfile = [d \in Dirs |-> <<>>]
      /\ air.now.sent = 0 /\ air.saved.sent = 0
  BY DEF LogInit
<1>3. LogTypeOK
  BY <1>1, <1>2 DEF LogInit, LogTypeOK
<1>4. /\ \A d \in Dirs : Logged(d, tab, tab_buf) = <<>>
                         /\ Logged(d, tab_saved.tab, tab_saved.buf) = <<>>
      /\ logfile["rx"] = <<>>
  BY <1>1, <1>2 DEF Logged, Dirs
<1>5. NoTxByteLost
  BY <1>2, <1>4 DEF NoTxByteLost, Dirs
<1>6. SecondAfterFirst(tab, tab_buf) /\ SecondAfterFirst(tab_saved.tab, tab_saved.buf)
  BY <1>1, <1>2 DEF SecondAfterFirst, Dirs
<1>7. RxJournal!Init
  BY <1>4 DEF RxJournal!Init, RxJournal!IsStart, Dirs
<1> QED BY <1>3, <1>5, <1>6, <1>7 DEF LogInv

\* What the two operations on a packet do to the slots of both directions.
LEMMA AddIs ==
  ASSUME NEW slot \in [Dirs -> Slot], NEW d \in Dirs, NEW b \in Byte
  PROVE  /\ Add(slot, d, b) \in [Dirs -> Slot]
         /\ Add(slot, d, b)[d].pkt = Append(slot[d].pkt, b)
         /\ Add(slot, d, b)[d].completed = slot[d].completed
         /\ \A e \in Dirs \ {d} : Add(slot, d, b)[e] = slot[e]
<1>1. slot[d] \in Slot /\ slot[d].pkt \in Seq(Byte)
  BY DEF Slot
<1>2. Append(slot[d].pkt, b) \in Seq(Byte)
  BY <1>1
<1> DEFINE p == Append(slot[d].pkt, b)
<1>3. Add(slot, d, b) = [slot EXCEPT ![d].pkt = p]
  BY DEF Add
<1> HIDE DEF p
<1>4. [slot[d] EXCEPT !.pkt = p] \in Slot /\ [slot[d] EXCEPT !.pkt = p].pkt = p
      /\ [slot[d] EXCEPT !.pkt = p].completed = slot[d].completed
  BY <1>1, <1>2 DEF Slot, p
<1> QED BY <1>3, <1>4 DEF p

LEMMA FinishIs ==
  ASSUME NEW slot \in [Dirs -> Slot], NEW d \in Dirs, NEW err \in BOOLEAN
  PROVE  /\ Finish(slot, d, err) \in [Dirs -> Slot]
         /\ \A e \in Dirs : /\ Finish(slot, d, err)[e].pkt = slot[e].pkt
                            /\ slot[e].completed => Finish(slot, d, err)[e].completed
<1>1. slot[d] \in Slot
  OBVIOUS
<1> DEFINE r == [slot[d] EXCEPT !.completed = TRUE, !.error = err]
<1>2. r \in Slot /\ r.pkt = slot[d].pkt /\ r.completed
  BY <1>1 DEF Slot
<1>3. Finish(slot, d, err) = [slot EXCEPT ![d] = r]
  BY <1>1 DEF Finish, Slot
<1> HIDE DEF r
<1> QED BY <1>2, <1>3

LEMMA CompletedIs ==
  ASSUME NEW slot \in [Dirs -> Slot], NEW d \in Dirs
  PROVE  /\ [slot EXCEPT ![d].completed = TRUE] \in [Dirs -> Slot]
         /\ \A e \in Dirs : /\ [slot EXCEPT ![d].completed = TRUE][e].pkt = slot[e].pkt
                            /\ slot[e].completed =>
                                 [slot EXCEPT ![d].completed = TRUE][e].completed
<1>1. slot[d] \in Slot
  OBVIOUS
<1> DEFINE r == [slot[d] EXCEPT !.completed = TRUE]
<1>2. r \in Slot /\ r.pkt = slot[d].pkt /\ r.completed
  BY <1>1 DEF Slot
<1>3. [slot EXCEPT ![d].completed = TRUE] = [slot EXCEPT ![d] = r]
  BY <1>1 DEF Slot
<1> HIDE DEF r
<1> QED BY <1>2, <1>3

\* What is logged of a direction.
LEMMA LoggedIs ==
  ASSUME NEW f \in Seq(Byte), NEW p \in Seq(Byte), NEW q \in Seq(Byte)
  PROVE  /\ f \o p \o q \in Seq(Byte)
         /\ Len(f \o p \o q) = Len(f) + Len(p) + Len(q)
<1>1. f \o p \in Seq(Byte) /\ Len(f \o p) = Len(f) + Len(p)
  BY ConcatProperties
<1> QED BY <1>1, ConcatProperties

\* A byte in one of the slots is one more byte logged.
LEMMA OneLogged ==
  ASSUME NEW f \in Seq(Byte), NEW p \in Seq(Byte), NEW q \in Seq(Byte),
         NEW b \in Byte
  PROVE  /\ Len(f \o p \o Append(q, b)) = Len(f \o p \o q) + 1
         /\ Len(f \o Append(p, b) \o q) = Len(f \o p \o q) + 1
<1> DEFINE p1 == Append(p, b)
           q1 == Append(q, b)
<1>1. /\ p1 \in Seq(Byte) /\ Len(p1) = Len(p) + 1
      /\ q1 \in Seq(Byte) /\ Len(q1) = Len(q) + 1
  BY OneMore, AppendProperties
<1>2. Len(f) \in Nat /\ Len(p) \in Nat /\ Len(q) \in Nat
  BY OneMore
<1> HIDE DEF p1, q1
<1>3. /\ Len(f \o p \o q1) = Len(f) + Len(p) + Len(q1)
      /\ Len(f \o p1 \o q) = Len(f) + Len(p1) + Len(q)
      /\ Len(f \o p \o q) = Len(f) + Len(p) + Len(q)
  BY <1>1, LoggedIs
<1>4. /\ Len(f \o p \o q1) = Len(f \o p \o q) + 1
      /\ Len(f \o p1 \o q) = Len(f \o p \o q) + 1
  BY <1>1, <1>2, <1>3
<1> QED BY <1>4 DEF p1, q1

LEMMA LoggedLen ==
  ASSUME LogTypeOK, NEW d \in Dirs
  PROVE  /\ logfile[d] \in Seq(Byte)
         /\ tab[d].pkt \in Seq(Byte) /\ tab_buf[d].pkt \in Seq(Byte)
         /\ tab_saved.tab[d].pkt \in Seq(Byte) /\ tab_saved.buf[d].pkt \in Seq(Byte)
         /\ Len(Logged(d, tab, tab_buf))
              = Len(logfile[d]) + Len(tab[d].pkt) + Len(tab_buf[d].pkt)
         /\ Len(Logged(d, tab_saved.tab, tab_saved.buf))
              = Len(logfile[d]) + Len(tab_saved.tab[d].pkt) + Len(tab_saved.buf[d].pkt)
<1>1. /\ tab[d] \in Slot /\ tab_buf[d] \in Slot /\ logfile[d] \in Seq(Byte)
      /\ tab_saved.tab[d] \in Slot /\ tab_saved.buf[d] \in Slot
  BY DEF LogTypeOK
<1>2. /\ tab[d].pkt \in Seq(Byte) /\ tab_buf[d].pkt \in Seq(Byte)
      /\ tab_saved.tab[d].pkt \in Seq(Byte) /\ tab_saved.buf[d].pkt \in Seq(Byte)
  BY <1>1 DEF Slot
<1> QED BY <1>1, <1>2, LoggedIs DEF Logged

\* A packet that ends keeps its bytes; the slots only become more complete.
LEMMA EndIs ==
  ASSUME LogTypeOK, NEW d \in Dirs, RadioEnd(d) \/ RadioAbort(d)
  PROVE  /\ tab' \in [Dirs -> Slot] /\ tab_buf' \in [Dirs -> Slot]
         /\ air' \in [now : Air, saved : Air]
         /\ air'.now.sent = air.now.sent /\ air'.saved = air.saved
         /\ UNCHANGED <<tab_saved, logfile>>
         /\ \A e \in Dirs : /\ tab'[e].pkt = tab[e].pkt
                            /\ tab_buf'[e].pkt = tab_buf[e].pkt
                            /\ tab[e].completed => tab'[e].completed
<1>1. tab \in [Dirs -> Slot] /\ tab_buf \in [Dirs -> Slot] /\ air \in [now : Air, saved : Air]
  BY DEF LogTypeOK
<1>2. /\ air' = [air EXCEPT !.now.mode = "idle"]
      /\ UNCHANGED <<tab_saved, logfile>>
      /\ \E e \in Dirs, err \in BOOLEAN :
           /\ tab' \in {tab, Finish(tab, e, err)}
           /\ tab_buf' \in {tab_buf, Finish(tab_buf, e, err),
                            [tab_buf EXCEPT ![e].completed = TRUE]}
  <2>1. CASE RadioEnd(d)
    <3>1. /\ tab' \in {tab, Finish(tab, d, FALSE)}
          /\ tab_buf' \in {tab_buf, [tab_buf EXCEPT ![d].completed = TRUE]}
      BY <2>1 DEF RadioEnd, LogComplete
    <3> QED BY <2>1, <3>1 DEF RadioEnd
  <2>2. CASE RadioAbort(d)
    <3>1. \E e \in Dirs : /\ tab' \in {tab, Finish(tab, e, TRUE)}
                          /\ tab_buf' \in {tab_buf, Finish(tab_buf, e, TRUE)}
      BY <2>2 DEF RadioAbort, LogAbortRx, LogAbortTx, Dirs
    <3> QED BY <2>2, <3>1 DEF RadioAbort
  <2> QED BY <2>1, <2>2
<1>3. PICK e \in Dirs, err \in BOOLEAN :
        /\ tab' \in {tab, Finish(tab, e, err)}
        /\ tab_buf' \in {tab_buf, Finish(tab_buf, e, err),
                         [tab_buf EXCEPT ![e].completed = TRUE]}
  BY <1>2
<1>4. /\ air' \in [now : Air, saved : Air]
      /\ air'.now.sent = air.now.sent /\ air'.saved = air.saved
  BY <1>1, <1>2 DEF Air
<1>5. /\ tab' \in [Dirs -> Slot]
      /\ \A x \in Dirs : tab'[x].pkt = tab[x].pkt
                         /\ (tab[x].completed => tab'[x].completed)
  BY <1>1, <1>3, FinishIs
<1>6. /\ tab_buf' \in [Dirs -> Slot]
      /\ \A x \in Dirs : tab_buf'[x].pkt = tab_buf[x].pkt
  <2>1. CASE tab_buf' = tab_buf
    BY <1>1, <2>1
  <2>2. CASE tab_buf' = Finish(tab_buf, e, err)
    BY <1>1, <2>2, FinishIs
  <2>3. CASE tab_buf' = [tab_buf EXCEPT ![e].completed = TRUE]
    BY <1>1, <2>3, CompletedIs
  <2> QED BY <1>3, <2>1, <2>2, <2>3
<1> QED BY <1>2, <1>4, <1>5, <1>6

\* The end of a packet changes nothing of what is logged.
LEMMA EndKeeps ==
  ASSUME LogInv, NEW d \in Dirs, RadioEnd(d) \/ RadioAbort(d)
  PROVE  LogInv' /\ UNCHANGED RxJournal!vars
<1> USE DEF LogInv
<1>1. /\ tab' \in [Dirs -> Slot] /\ tab_buf' \in [Dirs -> Slot]
      /\ air' \in [now : Air, saved : Air]
      /\ air'.now.sent = air.now.sent /\ air'.saved = air.saved
      /\ tab_saved' = tab_saved /\ logfile' = logfile
      /\ \A e \in Dirs : /\ tab'[e].pkt = tab[e].pkt
                         /\ tab_buf'[e].pkt = tab_buf[e].pkt
                         /\ tab[e].completed => tab'[e].completed
  BY EndIs
<1>2. LogTypeOK'
  BY <1>1 DEF LogTypeOK
<1>3. "rx" \in Dirs /\ "tx" \in Dirs
  BY DEF Dirs
<1>4. \A e \in Dirs : /\ Logged(e, tab, tab_buf)' = Logged(e, tab, tab_buf)
                      /\ Logged(e, tab_saved.tab, tab_saved.buf)'
                           = Logged(e, tab_saved.tab, tab_saved.buf)
  BY <1>1 DEF Logged
<1>5. NoTxByteLost'
  BY <1>1, <1>3, <1>4 DEF NoTxByteLost
<1>6. SecondAfterFirst(tab, tab_buf)' /\ SecondAfterFirst(tab_saved.tab, tab_saved.buf)'
  BY <1>1, <1>3 DEF SecondAfterFirst
<1> QED BY <1>1, <1>2, <1>3, <1>4, <1>5, <1>6 DEF RxJournal!vars

\* A byte, received or sent, goes to the end of what its slot has.
LEMMA ByteIs ==
  ASSUME LogTypeOK, NEW d \in Dirs, NEW b \in Byte, RadioByte(d, b)
  PROVE  /\ tab' \in [Dirs -> Slot] /\ tab_buf' \in [Dirs -> Slot]
         /\ air' \in [now : Air, saved : Air]
         /\ air'.now.sent = (IF d = "tx" THEN air.now.sent + 1 ELSE air.now.sent)
         /\ air'.saved = air.saved /\ air.now.sent \in Nat
         /\ UNCHANGED <<tab_saved, logfile>>
         /\ \A e \in Dirs \ {d} : tab'[e] = tab[e] /\ tab_buf'[e] = tab_buf[e]
         /\ \A e \in Dirs : tab'[e].completed = tab[e].completed
         /\ \/ /\ tab["rx"].completed /\ tab'[d] = tab[d]
               /\ tab_buf'[d].pkt = Append(tab_buf[d].pkt, b)
            \/ /\ ~ tab["rx"].completed /\ tab_buf'[d] = tab_buf[d]
               /\ tab'[d].pkt = Append(tab[d].pkt, b)
<1>1. tab \in [Dirs -> Slot] /\ tab_buf \in [Dirs -> Slot] /\ air \in [now : Air, saved : Air]
  BY DEF LogTypeOK
<1>2. /\ air' = [air EXCEPT !.now.mode = d,
                            !.now.sent = IF d = "tx" THEN @ + 1 ELSE @]
      /\ UNCHANGED <<tab_saved, logfile>>
      /\ \/ ~ tab["rx"].completed /\ tab' = Add(tab, d, b) /\ tab_buf' = tab_buf
         \/ tab["rx"].completed /\ tab_buf' = Add(tab_buf, d, b) /\ tab' = tab
  BY DEF RadioByte, LogByte
<1>3. /\ air' \in [now : Air, saved : Air] /\ air.now.sent \in Nat
      /\ air'.now.sent = (IF d = "tx" THEN air.now.sent + 1 ELSE air.now.sent)
      /\ air'.saved = air.saved
  <2>1. air.now \in Air /\ air.now.sent \in Nat /\ d \in {"rx", "tx"}
    BY <1>1 DEF Air, Dirs
  <2> DEFINE n == IF d = "tx" THEN air.now.sent + 1 ELSE air.now.sent
             a == [air.now EXCEPT !.mode = d, !.sent = n]
  <2>2. n \in Nat
    BY <2>1
  <2>3. air' = [air EXCEPT !.now = a]
    BY <1>1, <1>2, <2>1 DEF Air
  <2> HIDE DEF n
  <2>4. a \in Air /\ a.sent = n
    BY <2>1, <2>2 DEF Air
  <2> HIDE DEF a
  <2>5. air' \in [now : Air, saved : Air] /\ air'.now = a /\ air'.saved = air.saved
    BY <1>1, <2>3, <2>4
  <2> QED BY <2>1, <2>4, <2>5 DEF n
<1>4. CASE ~ tab["rx"].completed /\ tab' = Add(tab, d, b) /\ tab_buf' = tab_buf
  <2>1. /\ tab' \in [Dirs -> Slot] /\ tab'[d].pkt = Append(tab[d].pkt, b)
        /\ \A e \in Dirs \ {d} : tab'[e] = tab[e]
        /\ tab'[d].completed = tab[d].completed
    BY <1>1, <1>4, AddIs
  <2>2. \A e \in Dirs : tab'[e].completed = tab[e].completed
    BY <2>1
  <2> QED BY <1>1, <1>2, <1>3, <1>4, <2>1, <2>2
<1>5. CASE tab["rx"].completed /\ tab_buf' = Add(tab_buf, d, b) /\ tab' = tab
  <2>1. /\ tab_buf' \in [Dirs -> Slot] /\ tab_buf'[d].pkt = Append(tab_buf[d].pkt, b)
        /\ \A e \in Dirs \ {d} : tab_buf'[e] = tab_buf[e]
    BY <1>1, <1>5, AddIs
  <2> QED BY <1>1, <1>2, <1>3, <1>5, <2>1
<1> QED BY <1>2, <1>4, <1>5

LEMMA ByteKeeps ==
  ASSUME LogInv, NEW d \in Dirs, NEW b \in Byte, RadioByte(d, b)
  PROVE  LogInv' /\ [RxJournal!Next]_(RxJournal!vars)
<1> USE DEF LogInv
<1>1. /\ tab' \in [Dirs -> Slot] /\ tab_buf' \in [Dirs -> Slot]
      /\ air' \in [now : Air, saved : Air]
      /\ air'.now.sent = (IF d = "tx" THEN air.now.sent + 1 ELSE air.now.sent)
      /\ air'.saved = air.saved /\ air.now.sent \in Nat
      /\ tab_saved' = tab_saved /\ logfile' = logfile
      /\ \A e \in Dirs \ {d} : tab'[e] = tab[e] /\ tab_buf'[e] = tab_buf[e]
      /\ \A e \in Dirs : tab'[e].completed = tab[e].completed
      /\ \/ /\ tab["rx"].completed /\ tab'[d] = tab[d]
            /\ tab_buf'[d].pkt = Append(tab_buf[d].pkt, b)
         \/ /\ ~ tab["rx"].completed /\ tab_buf'[d] = tab_buf[d]
            /\ tab'[d].pkt = Append(tab[d].pkt, b)
  BY ByteIs
<1>2. LogTypeOK'
  BY <1>1 DEF LogTypeOK
<1>3. "rx" \in Dirs /\ "tx" \in Dirs /\ d \in {"rx", "tx"} /\ "rx" # "tx"
  BY DEF Dirs
<1>4. /\ logfile["rx"] \in Seq(Byte) /\ logfile["tx"] \in Seq(Byte)
      /\ \A e \in Dirs : tab[e].pkt \in Seq(Byte) /\ tab_buf[e].pkt \in Seq(Byte)
  BY <1>3, LoggedLen
<1>5. \A e \in Dirs : Logged(e, tab_saved.tab, tab_saved.buf)'
                        = Logged(e, tab_saved.tab, tab_saved.buf)
  BY <1>1 DEF Logged
<1>6. NoTxByteLost'
  <2>1. Len(Logged("tx", tab_saved.tab, tab_saved.buf)') = air'.saved.sent
    BY <1>1, <1>3, <1>5 DEF NoTxByteLost
  <2>4. CASE d = "tx"
    <3>1. Len(Logged("tx", tab, tab_buf)') = Len(Logged("tx", tab, tab_buf)) + 1
      <4>1. \/ Logged("tx", tab, tab_buf)'
                 = logfile["tx"] \o tab["tx"].pkt \o Append(tab_buf["tx"].pkt, b)
            \/ Logged("tx", tab, tab_buf)'
                 = logfile["tx"] \o Append(tab["tx"].pkt, b) \o tab_buf["tx"].pkt
        BY <1>1, <2>4 DEF Logged
      <4>2. Logged("tx", tab, tab_buf)
              = logfile["tx"] \o tab["tx"].pkt \o tab_buf["tx"].pkt
        BY DEF Logged
      <4>3. /\ logfile["tx"] \in Seq(Byte) /\ tab["tx"].pkt \in Seq(Byte)
            /\ tab_buf["tx"].pkt \in Seq(Byte)
        BY <1>3, <1>4
      <4> DEFINE f == logfile["tx"]
                 p == tab["tx"].pkt
                 q == tab_buf["tx"].pkt
      <4> HIDE DEF f, p, q
      <4>4. /\ Len(f \o p \o Append(q, b)) = Len(f \o p \o q) + 1
            /\ Len(f \o Append(p, b) \o q) = Len(f \o p \o q) + 1
        BY <4>3, OneLogged DEF f, p, q
      <4> QED BY <4>1, <4>2, <4>4 DEF f, p, q
    <3> QED BY <1>1, <2>1, <2>4, <3>1 DEF NoTxByteLost
  <2>5. CASE d # "tx"
    <3>1. tab'["tx"] = tab["tx"] /\ tab_buf'["tx"] = tab_buf["tx"]
      BY <1>1, <1>3, <2>5
    <3> QED BY <1>1, <2>1, <2>5, <3>1 DEF NoTxByteLost, Logged
  <2> QED BY <2>4, <2>5
<1>7. SecondAfterFirst(tab, tab_buf)' /\ SecondAfterFirst(tab_saved.tab, tab_saved.buf)'
  BY <1>1, <1>3 DEF SecondAfterFirst
<1>8. [RxJournal!Next]_(RxJournal!vars)
  <2>1. CASE d = "tx"
    <3>1. tab'["rx"] = tab["rx"] /\ tab_buf'["rx"] = tab_buf["rx"]
      BY <1>1, <1>3, <2>1
    <3>2. Logged("rx", tab, tab_buf)' = Logged("rx", tab, tab_buf)
      BY <1>1, <3>1 DEF Logged
    <3> QED BY <1>1, <1>3, <1>5, <3>2 DEF RxJournal!vars
  <2>2. CASE d = "rx"
    <3> DEFINE f == logfile["rx"]
               p == tab["rx"].pkt
               q == tab_buf["rx"].pkt
    <3>1. /\ f \in Seq(Byte) /\ p \in Seq(Byte) /\ q \in Seq(Byte)
          /\ <<b>> \in Seq(Byte)
      BY <1>3, <1>4
    <3> HIDE DEF f, p, q
    <3>2. Logged("rx", tab, tab_buf)' = (f \o p \o q) \o <<b>>
      <4>1. CASE tab["rx"].completed
        <5>1. Logged("rx", tab, tab_buf)' = f \o p \o Append(q, b)
          BY <1>1, <2>2, <4>1 DEF Logged, f, p, q
        <5>2. Append(q, b) = q \o <<b>> /\ f \o p \in Seq(Byte)
          BY <3>1, AppendIsConcat, ConcatProperties
        <5>3. (f \o p) \o (q \o <<b>>) = ((f \o p) \o q) \o <<b>>
          BY <3>1, <5>2, ConcatAssociative
        <5> QED BY <5>1, <5>2, <5>3
      <4>2. CASE ~ tab["rx"].completed
        <5>1. q = <<>>
          BY <4>2 DEF SecondAfterFirst, q
        <5>2. Logged("rx", tab, tab_buf)' = f \o Append(p, b) \o <<>>
          BY <1>1, <2>2, <4>2, <5>1 DEF Logged, f, p, q
        <5>3. /\ Append(p, b) = p \o <<b>> /\ f \o p \in Seq(Byte)
              /\ Append(p, b) \in Seq(Byte) /\ f \o Append(p, b) \in Seq(Byte)
          BY <3>1, AppendIsConcat, ConcatProperties
        <5>4. /\ f \o Append(p, b) \o <<>> = f \o Append(p, b)
              /\ (f \o p) \o <<>> = f \o p
          BY <5>3, ConcatEmptySeq
        <5>5. f \o (p \o <<b>>) = (f \o p) \o <<b>>
          BY <3>1, ConcatAssociative
        <5> QED BY <5>1, <5>2, <5>3, <5>4, <5>5
      <4> QED BY <4>1, <4>2
    <3>3. Logged("rx", tab, tab_buf) = f \o p \o q /\ f \o p \o q \in Seq(Byte)
      BY <3>1, LoggedIs DEF Logged, f, p, q
    <3>4. RxJournal!IsStart(f \o p \o q, (f \o p \o q) \o <<b>>)
      BY <3>1, <3>3, ConcatStart DEF RxJournal!IsStart, TraceJournal!IsStart
    <3>5. RxJournal!Record
      BY <1>1, <1>3, <1>5, <3>2, <3>3, <3>4 DEF RxJournal!Record
    <3> QED BY <3>5 DEF RxJournal!Next
  <2> QED BY <1>3, <2>1, <2>2
<1> QED BY <1>2, <1>6, <1>7, <1>8

\* What a save leaves in the two slots of a direction, after what it writes.
LEMMA DumpIs ==
  ASSUME LogTypeOK, NEW d \in Dirs
  PROVE  LET next == IF tab[d].completed THEN Empty ELSE tab_buf[d] IN
         /\ Dumped(d) \in Seq(Byte) /\ Remains(d) \in Slot /\ next \in Slot
         /\ (logfile[d] \o Dumped(d)) \o Remains(d).pkt \o next.pkt
              = Logged(d, tab, tab_buf)
         /\ ~ Remains(d).completed =>
              next.pkt = (IF tab[d].completed THEN <<>> ELSE tab_buf[d].pkt)
<1> DEFINE next == IF tab[d].completed THEN Empty ELSE tab_buf[d]
           f == logfile[d]
           p == tab[d].pkt
           q == tab_buf[d].pkt
<1>1. /\ f \in Seq(Byte) /\ p \in Seq(Byte) /\ q \in Seq(Byte)
      /\ tab[d] \in Slot /\ tab_buf[d] \in Slot
  BY LoggedLen DEF LogTypeOK
<1>2. Empty \in Slot /\ Empty.pkt = <<>>
  BY DEF Empty, Slot
<1>3. next \in Slot
  BY <1>1, <1>2
<1>4. f \o p \in Seq(Byte) /\ p \o q \in Seq(Byte) /\ f \o p \o q \in Seq(Byte)
      /\ <<>> \in Seq(Byte)
  BY <1>1, ConcatProperties, EmptySeq
<1>5. Logged(d, tab, tab_buf) = f \o p \o q
  BY DEF Logged
<1>6. CASE ~ tab[d].completed
  <2>1. Dumped(d) = <<>> /\ Remains(d) = tab[d] /\ next = tab_buf[d]
    BY <1>6 DEF Dumped, Remains
  <2>2. f \o <<>> = f
    BY <1>1, ConcatEmptySeq
  <2> QED BY <1>1, <1>4, <1>5, <1>6, <2>1, <2>2
<1>7. CASE tab[d].completed /\ tab_buf[d].completed
  <2>1. Dumped(d) = p \o q /\ Remains(d) = Empty /\ next = Empty
    BY <1>7 DEF Dumped, Remains
  <2>2. f \o (p \o q) = f \o p \o q
    BY <1>1, ConcatThree
  <2>3. (f \o p \o q) \o <<>> = f \o p \o q
    BY <1>4, ConcatEmptySeq
  <2> QED BY <1>2, <1>4, <1>5, <1>7, <2>1, <2>2, <2>3
<1>8. CASE tab[d].completed /\ ~ tab_buf[d].completed
  <2>1. Dumped(d) = p \o <<>> /\ next = Empty
        /\ Remains(d) = [Empty EXCEPT !.pkt = q]
    BY <1>8 DEF Dumped, Remains
  <2>2. Remains(d) \in Slot /\ Remains(d).pkt = q
    BY <1>1, <2>1 DEF Empty, Slot
  <2>3. p \o <<>> = p /\ (f \o p \o q) \o <<>> = f \o p \o q
    BY <1>1, <1>4, ConcatEmptySeq
  <2> QED BY <1>1, <1>2, <1>4, <1>5, <1>8, <2>1, <2>2, <2>3
<1> QED BY <1>6, <1>7, <1>8

LEMMA SaveKeepsLog ==
  ASSUME LogInv, LogSave
  PROVE  LogInv' /\ RxJournal!Save
<1> USE DEF LogInv
<1> DEFINE next(d) == IF tab[d].completed THEN Empty ELSE tab_buf[d]
<1>1. /\ logfile' = [d \in Dirs |-> logfile[d] \o Dumped(d)]
      /\ tab' = [d \in Dirs |-> Remains(d)]
      /\ tab_buf' = [d \in Dirs |-> next(d)]
      /\ tab_saved' = [tab |-> tab', buf |-> tab_buf']
      /\ air' = [air EXCEPT !.saved = air.now]
  BY DEF LogSave
<1>2. \A d \in Dirs :
        /\ logfile[d] \in Seq(Byte) /\ Dumped(d) \in Seq(Byte)
        /\ Remains(d) \in Slot /\ next(d) \in Slot
        /\ (logfile[d] \o Dumped(d)) \o Remains(d).pkt \o next(d).pkt
             = Logged(d, tab, tab_buf)
        /\ ~ Remains(d).completed =>
             next(d).pkt = (IF tab[d].completed THEN <<>> ELSE tab_buf[d].pkt)
  BY DumpIs, LoggedLen
<1> HIDE DEF next
<1>3. \A d \in Dirs : logfile[d] \o Dumped(d) \in Seq(Byte)
                      /\ TraceJournal!IsStart(logfile[d], logfile[d] \o Dumped(d))
  BY <1>2, ConcatStart
<1>4. air \in [now : Air, saved : Air]
  BY DEF LogTypeOK
<1>5. /\ air' \in [now : Air, saved : Air] /\ air'.now = air.now /\ air'.saved = air.now
  BY <1>1, <1>4
<1>6. LogTypeOK'
  BY <1>1, <1>2, <1>3, <1>5 DEF LogTypeOK
<1>7. "rx" \in Dirs /\ "tx" \in Dirs
  BY DEF Dirs
<1>8. tab_saved'.tab = tab' /\ tab_saved'.buf = tab_buf'
  BY <1>1
<1>9. \A d \in Dirs : /\ Logged(d, tab, tab_buf)' = Logged(d, tab, tab_buf)
                      /\ Logged(d, tab_saved.tab, tab_saved.buf)' = Logged(d, tab, tab_buf)
  BY <1>1, <1>2, <1>8 DEF Logged
<1>10. NoTxByteLost'
  BY <1>5, <1>7, <1>9 DEF NoTxByteLost
<1>11. SecondAfterFirst(tab, tab_buf)' /\ SecondAfterFirst(tab_saved.tab, tab_saved.buf)'
  <2>1. ~ Remains("rx").completed => next("rx").pkt = <<>>
    BY <1>2, <1>7 DEF SecondAfterFirst
  <2> QED BY <1>1, <1>7, <1>8, <2>1 DEF SecondAfterFirst
<1>12. RxJournal!Save
  <2> DEFINE f == logfile["rx"] \o Dumped("rx")
             r == Remains("rx").pkt
             n == next("rx").pkt
  <2>1. f \in Seq(Byte) /\ r \in Seq(Byte) /\ n \in Seq(Byte)
    BY <1>2, <1>3, <1>7 DEF Slot
  <2> HIDE DEF f, r, n
  <2>2. f \o r \in Seq(Byte) /\ TraceJournal!IsStart(f, f \o r)
        /\ TraceJournal!IsStart(f \o r, f \o r \o n) /\ f \o r \o n \in Seq(Byte)
    BY <2>1, ConcatStart
  <2>3. TraceJournal!IsStart(f, f \o r \o n)
    BY <2>1, <2>2, StartOfStart
  <2>4. RxJournal!IsStart(logfile["rx"], logfile'["rx"])
    BY <1>1, <1>3, <1>7 DEF RxJournal!IsStart, TraceJournal!IsStart
  <2>5. RxJournal!IsStart(logfile'["rx"], Logged("rx", tab, tab_buf))
    BY <1>1, <1>2, <1>7, <2>3
       DEF RxJournal!IsStart, TraceJournal!IsStart, f, r, n
  <2> QED BY <1>7, <1>9, <2>4, <2>5 DEF RxJournal!Save
<1> QED BY <1>6, <1>10, <1>11, <1>12

LEMMA RestoreKeepsLog ==
  ASSUME LogInv, LogRestore
  PROVE  LogInv' /\ RxJournal!GoBack
<1> USE DEF LogInv
<1>1. /\ tab' = tab_saved.tab /\ tab_buf' = tab_saved.buf
      /\ air' = [air EXCEPT !.now = air.saved]
      /\ tab_saved' = tab_saved /\ logfile' = logfile
  BY DEF LogRestore
<1>2. air \in [now : Air, saved : Air]
  BY DEF LogTypeOK
<1>3. air' \in [now : Air, saved : Air] /\ air'.now = air.saved /\ air'.saved = air.saved
  BY <1>1, <1>2
<1>4. LogTypeOK'
  BY <1>1, <1>3 DEF LogTypeOK
<1>5. "rx" \in Dirs /\ "tx" \in Dirs
  BY DEF Dirs
<1>6. \A d \in Dirs : /\ Logged(d, tab, tab_buf)' = Logged(d, tab_saved.tab, tab_saved.buf)
                      /\ Logged(d, tab_saved.tab, tab_saved.buf)'
                           = Logged(d, tab_saved.tab, tab_saved.buf)
  BY <1>1 DEF Logged
<1>7. NoTxByteLost'
  BY <1>3, <1>5, <1>6 DEF NoTxByteLost
<1>8. SecondAfterFirst(tab, tab_buf)' /\ SecondAfterFirst(tab_saved.tab, tab_saved.buf)'
  BY <1>1 DEF SecondAfterFirst
<1>9. RxJournal!GoBack
  <2> DEFINE k == Logged("rx", tab_saved.tab, tab_saved.buf)
  <2>1. /\ logfile["rx"] \in Seq(Byte) /\ tab_saved.tab["rx"].pkt \in Seq(Byte)
        /\ tab_saved.buf["rx"].pkt \in Seq(Byte)
    BY <1>5, LoggedLen
  <2>2. k \in Seq(Byte)
    BY <2>1, LoggedIs DEF Logged
  <2> HIDE DEF k
  <2>3. RxJournal!IsStart(k, k) /\ Len(k) <= Len(k) + 1
    BY <2>2 DEF RxJournal!IsStart
  <2> QED BY <1>1, <1>5, <1>6, <2>3 DEF RxJournal!GoBack, k
<1> QED BY <1>4, <1>7, <1>8, <1>9

LEMMA LogNextKeeps ==
  ASSUME LogInv, [LogNext]_logVars
  PROVE  LogInv' /\ [RxJournal!Next]_(RxJournal!vars)
<1>1. CASE LogStep
  <2>1. PICK d \in Dirs : \/ \E b \in Byte : RadioByte(d, b)
                          \/ RadioEnd(d) \/ RadioAbort(d)
    BY <1>1 DEF LogStep
  <2>2. CASE \E b \in Byte : RadioByte(d, b)
    BY <2>2, ByteKeeps
  <2>3. CASE RadioEnd(d) \/ RadioAbort(d)
    BY <2>3, EndKeeps
  <2> QED BY <2>1, <2>2, <2>3
<1>2. CASE LogSave
  BY <1>2, SaveKeepsLog DEF RxJournal!Next
<1>3. CASE LogRestore
  BY <1>3, RestoreKeepsLog DEF RxJournal!Next
<1>4. CASE UNCHANGED logVars
  <2>1. UNCHANGED <<tab, tab_buf, tab_saved, logfile, air>>
    BY <1>4 DEF logVars
  <2>2. /\ LogTypeOK' /\ UNCHANGED RxJournal!vars /\ NoTxByteLost'
    BY <2>1 DEF LogInv, LogTypeOK, NoTxByteLost, Logged, RxJournal!vars
  <2> QED BY <2>1, <2>2 DEF LogInv, SecondAfterFirst
<1> QED BY <1>1, <1>2, <1>3, <1>4 DEF LogNext

\* The two slots of liblogpkt always share out what the machine's present has
\* received and sent.
THEOREM LogCorrect == LogSpec => []LogInv
<1>1. LogInit => LogInv
  BY LogInitKeeps
<1>2. LogInv /\ [LogNext]_logVars => LogInv'
  BY LogNextKeeps
<1> QED BY <1>1, <1>2, PTL DEF LogSpec

\* No byte sent is lost or logged twice, although both slots are chosen by
\* looking at the packet received.
THEOREM TxBytesAreKept == LogSpec => []NoTxByteLost
<1>1. LogInv => NoTxByteLost
  BY DEF LogInv
<1> QED BY <1>1, LogCorrect, PTL

\* What the radio receives is logged in order, and nothing of a time that was
\* given up.
THEOREM RxLogIsJournal == LogSpec => ImplementsRxLog
<1>1. LogInit => RxJournal!Init
  BY LogInitKeeps
<1>2. LogInv /\ [LogNext]_logVars => [RxJournal!Next]_(RxJournal!vars)
  BY LogNextKeeps
<1> QED BY <1>1, <1>2, LogCorrect, PTL DEF LogSpec, ImplementsRxLog, RxJournal!Spec

-----------------------------------------------------------------------------
(* The recorders together: each one behaves as it does alone. *)

LEMMA EachRecorder ==
  ASSUME [RecNext]_recVars
  PROVE  [TrcNext]_trcVars /\ [LogNext]_logVars /\ [EtrNext]_etr
<1>1. CASE options = "trace" /\ TrcStep /\ UNCHANGED <<logVars, etr, tool>>
  BY <1>1 DEF TrcNext
<1>2. CASE options = "logpkt" /\ running /\ Open /\ LogStep
           /\ UNCHANGED <<trcVars, etr, tool>>
  BY <1>2 DEF LogNext
<1>3. CASE UNCHANGED <<etr, tool>> /\ (MachineSave \/ MachineRestore \/ MachineClose)
  BY <1>3 DEF MachineSave, MachineRestore, MachineClose, TrcNext, LogNext
<1>4. CASE EtrNext /\ UNCHANGED <<trcVars, logVars, tool>>
  BY <1>4
<1>5. CASE WtrNext /\ UNCHANGED <<trcVars, logVars, etr>>
  BY <1>5
<1>6. CASE UNCHANGED recVars
  BY <1>6 DEF recVars
<1> QED BY <1>1, <1>2, <1>3, <1>4, <1>5, <1>6 DEF RecNext

THEOREM RecorderRefines == RecSpec => TrcSpec /\ LogSpec
<1>1. RecInit => TrcInit /\ LogInit
  BY DEF RecInit
<1>2. [RecNext]_recVars => [TrcNext]_trcVars /\ [LogNext]_logVars
  BY EachRecorder
<1> QED BY <1>1, <1>2, PTL DEF RecSpec, TrcSpec, LogSpec

\* The counters and the header of the trace speak of the trace, in a node whose
\* recorders are saved and restored together.
THEOREM NodeTraceIsTrue == RecSpec => []TraceTrue
  BY RecorderRefines, TraceIsTrue, PTL

\* The trace of the node is a journal of its kept past.
THEOREM NodeTraceIsJournal == RecSpec => ImplementsTrace
  BY RecorderRefines, TraceIsJournal, PTL

\* The log of the node has every byte its radio sent, once.
THEOREM NodeKeepsTxBytes == RecSpec => []NoTxByteLost
  BY RecorderRefines, TxBytesAreKept, PTL

\* The log of the node is a journal of what its radio received.
THEOREM NodeRxLogIsJournal == RecSpec => ImplementsRxLog
  BY RecorderRefines, RxLogIsJournal, PTL

-----------------------------------------------------------------------------
(* The slots of eSimu. *)

SlotType == [idle : BOOLEAN, non_seq : BOOLEAN, accesses : Nat, events : Nat, timing : Nat]
PushedType == [idle : BOOLEAN, accesses : Nat, events : Nat, timing : Nat, until : Nat]
EtrCurrent == [stopped : BOOLEAN, next_must_be_NS : BOOLEAN]
EtrType ==
  [current : EtrCurrent, slot : SlotType, recording : BOOLEAN, pushed : Seq(PushedType),
   committed : Nat, ran : Nat, closed : BOOLEAN, steps : Nat,
   backup : [current : EtrCurrent, slot : SlotType, ran : Nat]]

End(p, i) == IF i = 0 THEN 0 ELSE p[i].until

\* The first n slots of p, and the slot s being filled, share out r cycles.
Shares(p, n, s, r) ==
  /\ \A i \in 1..n : /\ p[i].timing = End(p, i) - End(p, i - 1)
                     /\ p[i].timing <= MaxIdle /\ Full(p[i])
  /\ s.timing = r - End(p, n)
  /\ s.timing + Margin <= MaxIdle

\* What is committed can be gone back to.
EtrInv ==
  /\ etr \in EtrType
  /\ etr.committed <= Len(etr.pushed)
  /\ Shares(etr.pushed, Len(etr.pushed), etr.slot, etr.ran)
  /\ ~ etr.closed => Shares(etr.pushed, etr.committed, etr.backup.slot, etr.backup.ran)

LEMMA EtraceConstants ==
  MaxIdle \in Nat /\ Margin \in Nat /\ 1 <= Margin /\ Margin <= MaxIdle
  BY EtraceAssumption

\* Only the slots looked at matter.
LEMMA SharesSame ==
  ASSUME NEW p, NEW q, NEW n \in Nat, NEW s, NEW r,
         \A i \in 1..n : q[i] = p[i], Shares(p, n, s, r)
  PROVE  Shares(q, n, s, r)
<1>1. \A i \in 0..n : End(q, i) = End(p, i)
  BY DEF End
<1>2. n \in 0..n /\ \A i \in 1..n : i \in 0..n /\ i - 1 \in 0..n
  OBVIOUS
<1> QED BY <1>1, <1>2 DEF Shares

LEMMA EtrInitKeeps == EtrInit => EtrInv
<1> SUFFICES ASSUME EtrInit PROVE EtrInv
  OBVIOUS
<1> DEFINE c == [stopped |-> TRUE, next_must_be_NS |-> FALSE]
<1>1. etr = [current |-> c, slot |-> EtrSlot, recording |-> FALSE, pushed |-> <<>>,
             committed |-> 0, ran |-> 0, closed |-> FALSE, steps |-> 0,
             backup |-> [current |-> c, slot |-> EtrSlot, ran |-> 0]]
  BY DEF EtrInit
<1>2. c \in EtrCurrent /\ EtrSlot \in SlotType /\ EtrSlot.timing = 0
      /\ <<>> \in Seq(PushedType)
  BY DEF EtrCurrent, EtrSlot, SlotType
<1> HIDE DEF c
<1>3. etr \in EtrType
  BY <1>1, <1>2 DEF EtrType
<1>4. Shares(<<>>, 0, EtrSlot, 0)
  BY <1>2, EtraceConstants DEF Shares, End
<1> QED BY <1>1, <1>3, <1>4 DEF EtrInv

\* An instruction, or a time asleep, goes to the slot being filled; a slot that
\* is full is followed by an empty one.
LEMMA InstructionKeeps ==
  ASSUME EtrInv, ~ etr.closed, NEW i \in Executed, Instruction(i)
  PROVE  EtrInv'
<1> DEFINE p == etr.pushed
           n == Len(p)
           c == i.cycles
           s == Filled(etr.slot, i)
           x == PushedSlot(s, etr.ran + c)
           e == [EtrSlot EXCEPT !.idle = s.idle, !.non_seq = s.non_seq]
<1>1. /\ etr \in EtrType /\ etr.slot \in SlotType /\ etr.ran \in Nat
      /\ p \in Seq(PushedType) /\ etr.committed \in Nat /\ etr.committed <= n
      /\ etr.current \in EtrCurrent /\ etr.steps \in Nat
  BY DEF EtrInv, EtrType
<1>2. i.idle \in BOOLEAN /\ i.non_seq \in BOOLEAN /\ i.accesses \in Nat
      /\ i.events \in Nat /\ c \in Nat /\ 1 <= c /\ c <= Margin
  <2>1. i \in [idle : BOOLEAN, non_seq : {FALSE}, accesses : 0..1, events : 0..1,
               cycles : 1..Margin]
    BY DEF Executed
  <2>2. i.idle \in BOOLEAN /\ i.non_seq \in {FALSE} /\ i.accesses \in 0..1
        /\ i.events \in 0..1 /\ i.cycles \in 1..Margin
    BY <2>1
  <2>3. \A k \in 1..Margin : k \in Nat /\ 1 <= k /\ k <= Margin
    BY EtraceConstants
  <2>4. c \in Nat /\ 1 <= c /\ c <= Margin
    BY <2>2, <2>3
  <2>5. i.idle \in BOOLEAN /\ i.non_seq \in BOOLEAN
    BY <2>2
  <2>6. i.accesses \in Nat /\ i.events \in Nat
    BY <2>2
  <2> QED BY <2>4, <2>5, <2>6
<1>3. s \in SlotType /\ s.timing = etr.slot.timing + c
  <2>1. etr.slot.accesses \in Nat /\ etr.slot.events \in Nat /\ etr.slot.timing \in Nat
        /\ etr.current.next_must_be_NS \in BOOLEAN
    BY <1>1 DEF SlotType, EtrCurrent
  <2>2. (i.non_seq \/ etr.current.next_must_be_NS) \in BOOLEAN
    OBVIOUS
  <2> QED BY <1>2, <2>1, <2>2 DEF Filled, SlotType
<1>4. /\ Shares(p, n, etr.slot, etr.ran)
      /\ Shares(p, etr.committed, etr.backup.slot, etr.backup.ran)
  BY DEF EtrInv
<1>5. n \in Nat /\ etr.slot.timing \in Nat
  BY <1>1 DEF SlotType
<1>6. etr' = IF ~ etr.recording THEN [etr EXCEPT !.steps = @ + 1]
             ELSE [etr EXCEPT !.steps = @ + 1, !.ran = @ + c,
                              !.current.next_must_be_NS = FALSE,
                              !.pushed = IF Full(s) THEN Append(@, x) ELSE @,
                              !.slot = IF Full(s) THEN e ELSE s]
  BY DEF Instruction
<1>7. /\ x \in PushedType /\ x.timing = s.timing /\ x.until = etr.ran + c
      /\ x.idle = s.idle /\ x.accesses = s.accesses /\ x.events = s.events
  <2>1. etr.ran + c \in Nat
    BY <1>1, <1>2
  <2>2. s.idle \in BOOLEAN /\ s.accesses \in Nat /\ s.events \in Nat /\ s.timing \in Nat
    BY <1>3 DEF SlotType
  <2> HIDE DEF s, c
  <2> QED BY <2>1, <2>2 DEF PushedSlot, PushedType
<1>8. e \in SlotType /\ e.timing = 0
  BY <1>3 DEF EtrSlot, SlotType
<1> DEFINE cur == [etr.current EXCEPT !.next_must_be_NS = FALSE]
<1>12. cur \in EtrCurrent
  BY <1>1 DEF EtrCurrent
<1>13. etr.ran + c \in Nat /\ etr.steps + 1 \in Nat
  BY <1>1, <1>2
<1>14. \A k \in 0..n : End(p, k) \in Nat
  <2> SUFFICES ASSUME NEW k \in 0..n PROVE End(p, k) \in Nat
    OBVIOUS
  <2>1. CASE k = 0
    BY <2>1 DEF End
  <2>2. CASE k # 0
    <3>1. k \in 1..n
      BY <1>5, <2>2
    <3>2. p[k] \in PushedType
      BY <1>1, <3>1
    <3> QED BY <2>2, <3>2 DEF End, PushedType
  <2> QED BY <2>1, <2>2
<1>15. End(p, n) \in Nat
  BY <1>5, <1>14
<1> HIDE DEF c, s, x, e
<1>9. CASE ~ etr.recording
  <2>1. etr' = [etr EXCEPT !.steps = etr.steps + 1]
    BY <1>6, <1>9
  <2>2. /\ etr' \in EtrType /\ etr'.pushed = p /\ etr'.slot = etr.slot
        /\ etr'.ran = etr.ran /\ etr'.backup = etr.backup
        /\ etr'.committed = etr.committed /\ etr'.closed = etr.closed
    BY <1>1, <2>1 DEF EtrType
  <2> QED BY <1>1, <1>4, <2>2 DEF EtrInv
<1>10. CASE etr.recording /\ ~ Full(s)
  <2>1. etr' = [etr EXCEPT !.steps = etr.steps + 1, !.ran = etr.ran + c,
                           !.current = cur, !.slot = s,
                           !.pushed = p]
    BY <1>6, <1>10
  <2> HIDE DEF cur
  <2>3. /\ etr' \in EtrType /\ etr'.pushed = p /\ etr'.slot = s
        /\ etr'.ran = etr.ran + c /\ etr'.backup = etr.backup
        /\ etr'.committed = etr.committed /\ etr'.closed = etr.closed
    BY <1>1, <1>3, <1>12, <1>13, <2>1 DEF EtrType
  <2>4. Shares(p, n, s, etr.ran + c)
    <3>1. s.timing + Margin <= MaxIdle
      BY <1>2, <1>3, <1>5, <1>10, EtraceConstants DEF Full
    <3>2. etr.slot.timing = etr.ran - End(p, n)
      BY <1>4 DEF Shares
    <3>3. s.timing = (etr.ran + c) - End(p, n)
      BY <1>1, <1>2, <1>3, <1>5, <1>15, <3>2
    <3> QED BY <1>4, <3>1, <3>3 DEF Shares
  <2> QED BY <1>1, <1>4, <2>3, <2>4 DEF EtrInv
<1>11. CASE etr.recording /\ Full(s)
  <2> DEFINE q == Append(p, x)
  <2>1. etr' = [etr EXCEPT !.steps = etr.steps + 1, !.ran = etr.ran + c,
                           !.current = cur, !.slot = e,
                           !.pushed = q]
    BY <1>6, <1>11
  <2> HIDE DEF cur
  <2>3. /\ q \in Seq(PushedType) /\ Len(q) = n + 1 /\ q[n + 1] = x
        /\ \A j \in 1..n : q[j] = p[j]
    BY <1>1, <1>7
  <2> HIDE DEF q
  <2>4. /\ etr' \in EtrType /\ etr'.pushed = q /\ etr'.slot = e
        /\ etr'.ran = etr.ran + c /\ etr'.backup = etr.backup
        /\ etr'.committed = etr.committed /\ etr'.closed = etr.closed
    BY <1>1, <1>8, <1>12, <1>13, <2>1, <2>3 DEF EtrType
  <2>5. Shares(q, n, etr.slot, etr.ran)
    BY <1>4, <1>5, <2>3, SharesSame
  <2>6. Shares(q, etr.committed, etr.backup.slot, etr.backup.ran)
    <3>1. \A j \in 1..etr.committed : q[j] = p[j]
      BY <1>1, <1>5, <2>3
    <3> QED BY <1>1, <1>4, <3>1, SharesSame
  <2>7. Shares(q, n + 1, e, etr.ran + c)
    <3>1. End(q, n + 1) = etr.ran + c /\ n + 1 - 1 = n /\ End(q, n) \in Nat
      <4>1. End(q, n + 1) = etr.ran + c
        BY <1>5, <1>7, <2>3 DEF End
      <4>2. End(q, n) = End(p, n)
        BY <1>5, <2>3 DEF End
      <4> QED BY <1>5, <1>15, <4>1, <4>2
    <3>2. /\ x.timing = End(q, n + 1) - End(q, n)
          /\ x.timing <= MaxIdle /\ Full(x)
      <4>1. s.timing <= MaxIdle
        BY <1>2, <1>3, <1>4, <1>5, EtraceConstants DEF Shares
      <4>2. etr.slot.timing = etr.ran - End(q, n)
        BY <2>5 DEF Shares
      <4>3. Full(x)
        BY <1>7, <1>11 DEF Full
      <4> QED BY <1>1, <1>2, <1>3, <1>5, <1>7, <3>1, <4>1, <4>2, <4>3
    <3>3. ASSUME NEW j \in 1..n + 1
          PROVE  /\ q[j].timing = End(q, j) - End(q, j - 1)
                 /\ q[j].timing <= MaxIdle /\ Full(q[j])
      <4>1. CASE j = n + 1
        <5>1. q[j] = x /\ j - 1 = n
          BY <1>5, <2>3, <4>1
        <5> QED BY <3>2, <4>1, <5>1
      <4>2. CASE j # n + 1
        <5>1. j \in 1..n
          BY <1>5, <4>2
        <5> QED BY <2>5, <5>1 DEF Shares
      <4> QED BY <4>1, <4>2
    <3>4. e.timing = (etr.ran + c) - End(q, n + 1) /\ e.timing + Margin <= MaxIdle
      BY <1>1, <1>2, <1>8, <3>1, EtraceConstants
    <3> QED BY <3>3, <3>4 DEF Shares
  <2> QED BY <1>1, <1>5, <2>3, <2>4, <2>6, <2>7 DEF EtrInv
<1> QED BY <1>9, <1>10, <1>11

LEMMA StartKeeps == ASSUME EtrInv, EtrStart PROVE EtrInv'
<1>1. CASE etr.current.stopped
  <2> DEFINE cur == [stopped |-> FALSE, next_must_be_NS |-> TRUE]
  <2>1. etr' = [etr EXCEPT !.recording = TRUE, !.current = cur]
    BY <1>1 DEF EtrStart
  <2>2. cur \in EtrCurrent /\ etr \in EtrType
    BY DEF EtrCurrent, EtrInv
  <2> HIDE DEF cur
  <2>3. /\ etr' \in EtrType /\ etr'.pushed = etr.pushed /\ etr'.slot = etr.slot
        /\ etr'.ran = etr.ran /\ etr'.backup = etr.backup
        /\ etr'.committed = etr.committed /\ etr'.closed = etr.closed
    BY <2>1, <2>2 DEF EtrType
  <2> QED BY <2>3 DEF EtrInv
<1>2. CASE ~ etr.current.stopped
  BY <1>2 DEF EtrStart, EtrInv
<1> QED BY <1>1, <1>2

LEMMA StopKeeps == ASSUME EtrInv, EtrStop PROVE EtrInv'
<1>1. CASE ~ etr.current.stopped
  <2> DEFINE cur == [stopped |-> TRUE, next_must_be_NS |-> TRUE]
  <2>1. etr' = [etr EXCEPT !.recording = FALSE, !.current = cur]
    BY <1>1 DEF EtrStop
  <2>2. cur \in EtrCurrent /\ etr \in EtrType
    BY DEF EtrCurrent, EtrInv
  <2> HIDE DEF cur
  <2>3. /\ etr' \in EtrType /\ etr'.pushed = etr.pushed /\ etr'.slot = etr.slot
        /\ etr'.ran = etr.ran /\ etr'.backup = etr.backup
        /\ etr'.committed = etr.committed /\ etr'.closed = etr.closed
    BY <2>1, <2>2 DEF EtrType
  <2> QED BY <2>3 DEF EtrInv
<1>2. CASE etr.current.stopped
  BY <1>2 DEF EtrStop, EtrInv
<1> QED BY <1>1, <1>2

\* What is committed is all that was pushed, and the backup what is kept of it.
LEMMA EtrSaveKeeps == ASSUME EtrInv, EtrSave PROVE EtrInv'
<1> DEFINE b == [current |-> etr.current, slot |-> etr.slot, ran |-> etr.ran]
           n == Len(etr.pushed)
<1>1. etr' = [etr EXCEPT !.committed = n, !.backup = b]
  BY DEF EtrSave
<1>2. etr \in EtrType /\ etr.pushed \in Seq(PushedType) /\ n \in Nat
  BY DEF EtrInv, EtrType
<1>3. /\ b \in [current : EtrCurrent, slot : SlotType, ran : Nat]
      /\ b.slot = etr.slot /\ b.ran = etr.ran
  BY <1>2 DEF EtrType
<1>4. Shares(etr.pushed, n, etr.slot, etr.ran)
  BY DEF EtrInv
<1> HIDE DEF b, n
<1>5. /\ etr' \in EtrType /\ etr'.pushed = etr.pushed /\ etr'.slot = etr.slot
      /\ etr'.ran = etr.ran /\ etr'.backup = b /\ etr'.committed = n
  BY <1>1, <1>2, <1>3 DEF EtrType
<1> QED BY <1>2, <1>3, <1>4, <1>5 DEF EtrInv, n

\* Going back leaves the slots that were committed.
LEMMA EtrRestoreKeeps == ASSUME EtrInv, ~ etr.closed, EtrRestore PROVE EtrInv'
<1> DEFINE n == etr.committed
           q == SubSeq(etr.pushed, 1, n)
           b == etr.backup
<1>1. etr' = [etr EXCEPT !.pushed = q, !.current = b.current, !.slot = b.slot, !.ran = b.ran]
  BY DEF EtrRestore
<1>2. /\ etr \in EtrType /\ etr.pushed \in Seq(PushedType) /\ n \in Nat
      /\ n <= Len(etr.pushed) /\ b.current \in EtrCurrent /\ b.slot \in SlotType
      /\ b.ran \in Nat
  BY DEF EtrInv, EtrType
<1>3. /\ q \in Seq(PushedType) /\ Len(q) = n
      /\ \A j \in 1..n : q[j] = etr.pushed[j]
  BY <1>2
<1>4. Shares(etr.pushed, n, b.slot, b.ran)
  BY DEF EtrInv
<1>5. Shares(q, n, b.slot, b.ran)
  BY <1>2, <1>3, <1>4, SharesSame
<1> HIDE DEF q, b, n
<1>6. /\ etr' \in EtrType /\ etr'.pushed = q /\ etr'.slot = b.slot
      /\ etr'.ran = b.ran /\ etr'.backup = etr.backup
      /\ etr'.committed = etr.committed /\ etr'.closed = etr.closed
  BY <1>1, <1>2, <1>3 DEF EtrType
<1>7. etr'.backup = b /\ etr'.committed = n
  BY <1>6 DEF b, n
<1> QED BY <1>2, <1>3, <1>5, <1>6, <1>7 DEF EtrInv

LEMMA EtrCloseKeeps == ASSUME EtrInv, EtrClose PROVE EtrInv'
<1> DEFINE n == Len(etr.pushed)
<1>1. etr' = [etr EXCEPT !.committed = n, !.closed = TRUE]
  BY DEF EtrClose
<1>2. etr \in EtrType /\ etr.pushed \in Seq(PushedType) /\ n \in Nat
  BY DEF EtrInv, EtrType
<1>3. Shares(etr.pushed, n, etr.slot, etr.ran)
  BY DEF EtrInv
<1> HIDE DEF n
<1>4. /\ etr' \in EtrType /\ etr'.pushed = etr.pushed /\ etr'.slot = etr.slot
      /\ etr'.ran = etr.ran /\ etr'.committed = n /\ etr'.closed
  BY <1>1, <1>2 DEF EtrType
<1> QED BY <1>2, <1>3, <1>4 DEF EtrInv, n

THEOREM EtrCorrect == EtrSpec => []EtrInv
<1>1. ASSUME EtrInv, [EtrNext]_etr PROVE EtrInv'
  <2>1. CASE UNCHANGED etr
    BY <1>1, <2>1 DEF EtrInv
  <2>2. CASE EtrNext
    BY <1>1, <2>2, StartKeeps, StopKeeps, EtrSaveKeeps, EtrRestoreKeeps, EtrCloseKeeps,
       InstructionKeeps DEF EtrNext
  <2> QED BY <1>1, <2>1, <2>2
<1> QED BY EtrInitKeeps, <1>1, PTL DEF EtrSpec

LEMMA EtrInvAccounts == ASSUME EtrInv PROVE Accounted
<1>1. \A i \in Int : Until(i) = End(etr.pushed, i)
  BY DEF Until, End
<1>2. etr.pushed \in Seq(PushedType) /\ Len(etr.pushed) \in Nat
  BY DEF EtrInv, EtrType
<1>3. \A i \in 1..Len(etr.pushed) : i \in Int /\ i - 1 \in Int
  BY <1>2
<1>4. Len(etr.pushed) \in Int
  BY <1>2
<1> QED BY <1>1, <1>3, <1>4 DEF EtrInv, Shares, Accounted

\* The slots share out the cycles that were traced and not given up.
THEOREM SlotsShareOut == EtrSpec => []Accounted
  BY EtrCorrect, EtrInvAccounts, PTL

\* And they do in a node, whose slots are saved and restored by themselves.
THEOREM NodeSlotsShareOut == RecSpec => []Accounted
<1>1. RecInit => EtrInit
  BY DEF RecInit
<1>2. [RecNext]_recVars => [EtrNext]_etr
  BY EachRecorder
<1>3. RecSpec => EtrSpec
  BY <1>1, <1>2, PTL DEF RecSpec, EtrSpec
<1> QED BY <1>3, SlotsShareOut, PTL
=============================================================================
