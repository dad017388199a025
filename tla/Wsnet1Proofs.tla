----------------------------- MODULE Wsnet1Proofs -----------------------------
(***************************************************************************)
(* Proofs about the WSNet1 simulation, server and nodes together.          *)
(*                                                                         *)
(* The packets of the server are numbered.  A trail gives, for each number *)
(* k, what a node that has parsed the packets before k knows: the index of *)
(* the rendez-vous, its distance, and the bytes delivered until then.      *)
(***************************************************************************)
EXTENDS Wsnet1, FiniteSetTheorems, TLAPS

-----------------------------------------------------------------------------
(* Types of the packets. *)

RxTypes == {"RX", "SYNCH_REQ_RX"}
ReleaseTypes == {"SYNCH_REQ", "SYNCH_REQ_RX"}

McastPkt ==
  [type : {"BACKTRACK"}, seq : Nat, period : Nat, rp_seq : Nat]
    \cup [type : {"SYNCH_REQ"}, seq : Nat, c_rp_seq : Nat, n_rp_seq : Nat,
          period : Nat]
    \cup [type : {"RX"}, seq : Nat, tx : Nodes \X Nat, to : SUBSET Nodes]
    \cup [type : {"SYNCH_REQ_RX"}, seq : Nat, c_rp_seq : Nat, n_rp_seq : Nat,
          period : Nat, tx : Nodes \X Nat, to : SUBSET Nodes]

ReplyPkt ==
  [type : {"NOATTRADDR"}]
    \cup [type : {"ATTRADDR"}, seq : Nat, period : Nat, rp_seq : Nat, cnx_time : Nat]

NetType ==
  /\ toServer \in Seq(ClientPkt) /\ joined \subseteq Nodes
  /\ mcast \in [Nodes -> Seq(McastPkt)]
  /\ reply \in [Nodes -> Seq(ReplyPkt)]

\* No clock is behind the last rendez-vous, the server's behind the next one.
Dates ==
  /\ \A n \in Nodes :
       bt[n].last_rp <= bt[n].now /\ backup[n].last_rp <= backup[n].now
  /\ global <= rp /\ (spc = "core" => global = rp)

TypeInv == SrvTypeOK /\ CltTypeOK /\ NetType /\ Dates

LEMMA McastFields ==
  ASSUME NEW m \in McastPkt
  PROVE  /\ m.seq \in Nat
         /\ m.type \in {"BACKTRACK", "SYNCH_REQ", "RX", "SYNCH_REQ_RX"}
         /\ m.type \in RxTypes => m.tx \in Nodes \X Nat /\ m.to \subseteq Nodes
         /\ m.type \in ReleaseTypes =>
              m.c_rp_seq \in Nat /\ m.n_rp_seq \in Nat /\ m.period \in Nat
         /\ m.type = "BACKTRACK" => m.period \in Nat /\ m.rp_seq \in Nat
BY DEF McastPkt, RxTypes, ReleaseTypes

-----------------------------------------------------------------------------
(* What parsing a packet does to the state of a node. *)

Got == [tx : Nodes \X Nat, at : Nat]

LEMMA MachineFields ==
  ASSUME NEW b \in Machine
  PROVE  /\ b.now \in Nat /\ b.last_rp \in Nat /\ b.next_rp \in Nat /\ b.rp_seq \in Nat
         /\ b.rx_pkt_seq \in Nat /\ b.tx_pkt_seq \in Nat
         /\ b.pending \in BOOLEAN /\ b.tx_backtracked \in BOOLEAN
         /\ b.min_duration \in Nat /\ b.byte \in Nat /\ b.io_timer \in Nat
         /\ b.sent \in Seq(Nat) /\ b.got \in Seq(Got)
BY DEF Machine, Got

\* What the radio has sent, and when it may go on.
SameRadio(b, c) ==
  /\ c.tx_pkt_seq = b.tx_pkt_seq /\ c.byte = b.byte
  /\ c.io_timer = b.io_timer /\ c.sent = b.sent

\* What a node knows of the simulation.
SameView(b, c) ==
  /\ c.last_rp = b.last_rp /\ c.next_rp = b.next_rp /\ c.rp_seq = b.rp_seq
  /\ c.rx_pkt_seq = b.rx_pkt_seq /\ c.got = b.got

\* The node leaves its rendez-vous at the date it is at.
Leaves(b, m, c) ==
  /\ c.last_rp = b.now /\ c.next_rp = b.now + m.period /\ c.rp_seq = m.n_rp_seq
  /\ ~ c.pending

ReleasedTo(b, s, m, d, o) ==
  /\ o.ok = TRUE /\ o.duration = d /\ o.bt \in Machine /\ o.backup \in Machine
  /\ o.bt.now = b.now /\ o.bt.rx_pkt_seq = b.rx_pkt_seq /\ o.bt.got = b.got
  /\ o.bt.min_duration = b.min_duration /\ SameRadio(b, o.bt)
  /\ o.bt.tx_backtracked = b.tx_backtracked
  /\ m.c_rp_seq = b.rp_seq => Leaves(b, m, o.bt) /\ o.backup = o.bt
  /\ m.c_rp_seq # b.rp_seq => o.bt = b /\ o.backup = s

LEMMA ReleasedType ==
  ASSUME NEW b \in Machine, NEW t \in Nat, NEW u \in Nat, NEW v \in Nat
  PROVE  [b EXCEPT !.last_rp = t, !.pending = FALSE, !.next_rp = u, !.rp_seq = v]
           \in Machine
<1> DEFINE c == [b EXCEPT !.last_rp = t, !.pending = FALSE]
<1>1. c \in Machine
  BY DEF Machine
<1> HIDE DEF c
<1>2. [c EXCEPT !.next_rp = u, !.rp_seq = v] \in Machine
  BY <1>1 DEF Machine
<1> QED BY <1>2 DEF c

LEMMA MovedType ==
  ASSUME NEW b \in Machine, NEW t \in Nat, NEW u \in Nat, NEW v \in Nat
  PROVE  [b EXCEPT !.next_rp = t, !.rp_seq = u, !.rx_pkt_seq = v,
                   !.tx_backtracked = FALSE] \in Machine
<1> DEFINE c == [b EXCEPT !.next_rp = t, !.rp_seq = u]
<1>1. c \in Machine
  BY DEF Machine
<1> HIDE DEF c
<1>2. [c EXCEPT !.rx_pkt_seq = v, !.tx_backtracked = FALSE] \in Machine
  BY <1>1 DEF Machine
<1> QED BY <1>2 DEF c

LEMMA ReleaseEffect ==
  ASSUME NEW b \in Machine, NEW s \in Machine, NEW m \in McastPkt,
         m.type \in ReleaseTypes, NEW d \in Nat
  PROVE  ReleasedTo(b, s, m, d, ParseRp(b, s, m, d))
<1> DEFINE released == [b EXCEPT !.last_rp = b.now, !.pending = FALSE,
                                 !.next_rp = b.now + m.period, !.rp_seq = m.n_rp_seq]
<1>1. m.period \in Nat /\ m.n_rp_seq \in Nat /\ b.now \in Nat
  BY McastFields DEF Machine
<1>2. /\ SameRadio(b, released)
      /\ released.now = b.now /\ released.rx_pkt_seq = b.rx_pkt_seq
      /\ released.got = b.got /\ released.min_duration = b.min_duration
      /\ released.last_rp = b.now /\ released.next_rp = b.now + m.period
      /\ released.rp_seq = m.n_rp_seq
  BY <1>1 DEF Machine, SameRadio
<1>4. released \in Machine
  <2>1. b.now + m.period \in Nat
    BY <1>1
  <2> QED BY <1>1, <2>1, ReleasedType
<1>5. released.tx_backtracked = b.tx_backtracked
  BY <1>1 DEF Machine
<1>6. ~ released.pending
  BY <1>1 DEF Machine
<1>7. Leaves(b, m, released)
  BY <1>2, <1>6 DEF Leaves
<1>3. ParseRp(b, s, m, d) = IF m.c_rp_seq = b.rp_seq
                             THEN Outcome(released, released, TRUE, d)
                             ELSE Outcome(b, s, TRUE, d)
  BY DEF ParseRp
<1> HIDE DEF released
<1>8. CASE m.c_rp_seq = b.rp_seq
  BY <1>2, <1>3, <1>4, <1>5, <1>7, <1>8 DEF Outcome, ReleasedTo
<1>9. CASE m.c_rp_seq # b.rp_seq
  BY <1>3, <1>9 DEF Outcome, SameRadio, ReleasedTo
<1> QED BY <1>8, <1>9

\* The node is told of an earlier rendez-vous, and goes on from r.
Moved(r, m, c) ==
  /\ c.now = r.now /\ c.last_rp = r.last_rp /\ c.next_rp = r.last_rp + m.period
  /\ c.rp_seq = m.rp_seq /\ c.rx_pkt_seq = m.seq + 1 /\ c.got = r.got
  /\ c.pending = r.pending /\ c.min_duration = r.min_duration /\ SameRadio(r, c)
  /\ c.tx_backtracked = FALSE

LEMMA MovedEffect ==
  ASSUME NEW r \in Machine, NEW m \in McastPkt, m.type = "BACKTRACK"
  PROVE  LET c == [r EXCEPT !.next_rp = r.last_rp + m.period, !.rp_seq = m.rp_seq,
                            !.rx_pkt_seq = m.seq + 1, !.tx_backtracked = FALSE]
         IN  c \in Machine /\ Moved(r, m, c)
<1> DEFINE c == [r EXCEPT !.next_rp = r.last_rp + m.period, !.rp_seq = m.rp_seq,
                          !.rx_pkt_seq = m.seq + 1, !.tx_backtracked = FALSE]
<1>1. m.period \in Nat /\ m.rp_seq \in Nat /\ m.seq \in Nat
  BY McastFields
<1>2. r.last_rp + m.period \in Nat /\ m.seq + 1 \in Nat
  BY <1>1, MachineFields
<1>3. c \in Machine
  <2>1. \A t, u, v \in Nat :
          [r EXCEPT !.next_rp = t, !.rp_seq = u, !.rx_pkt_seq = v,
                    !.tx_backtracked = FALSE] \in Machine
    BY MovedType
  <2> QED BY <1>1, <1>2, <2>1
<1>4. /\ c.now = r.now /\ c.last_rp = r.last_rp /\ c.next_rp = r.last_rp + m.period
      /\ c.rp_seq = m.rp_seq /\ c.rx_pkt_seq = m.seq + 1 /\ c.got = r.got
      /\ c.min_duration = r.min_duration /\ SameRadio(r, c)
  BY DEF Machine, SameRadio
<1>5. c.pending = r.pending
  BY DEF Machine
<1>6. c.tx_backtracked = FALSE
  BY DEF Machine
<1> HIDE DEF c
<1>7. Moved(r, m, c)
  BY <1>4, <1>5, <1>6 DEF Moved
<1> QED BY <1>3, <1>7 DEF c

LEMMA BacktrackEffect ==
  ASSUME NEW b \in Machine, NEW s \in Machine, NEW m \in McastPkt, m.type = "BACKTRACK"
  PROVE  LET o == ParseBacktrack(b, s, m) IN
         /\ o.ok = TRUE /\ o.duration = 0 /\ o.bt \in Machine /\ o.backup = s
         /\ Moved(IF b.now > b.last_rp + m.period THEN s ELSE b, m, o.bt)
<1> DEFINE r == IF b.now > b.last_rp + m.period THEN s ELSE b
           c(x) == [x EXCEPT !.next_rp = x.last_rp + m.period, !.rp_seq = m.rp_seq,
                             !.rx_pkt_seq = m.seq + 1, !.tx_backtracked = FALSE]
<1>1. ParseBacktrack(b, s, m) = Outcome(c(r), s, TRUE, 0)
  BY DEF ParseBacktrack, Backtracked
<1>2. \A x \in Machine : c(x) \in Machine /\ Moved(x, m, c(x))
  BY MovedEffect
<1>3. r \in Machine
  OBVIOUS
<1> HIDE DEF c
<1> QED BY <1>1, <1>2, <1>3 DEF Outcome

Taken(n, b, m) ==
  IF m.type \in RxTypes /\ n \in m.to
    THEN Append(b.got, [tx |-> m.tx, at |-> b.now]) ELSE b.got

\* The packet is the next one, and leaves the clock and the radio alone.
Takes(n, b, m, c) ==
  /\ c.now = b.now /\ c.min_duration = b.min_duration /\ SameRadio(b, c)
  /\ c.tx_backtracked = b.tx_backtracked
  /\ c.rx_pkt_seq = b.rx_pkt_seq + 1 /\ c.got = Taken(n, b, m)

Stays(b, c) ==
  /\ c.last_rp = b.last_rp /\ c.next_rp = b.next_rp /\ c.rp_seq = b.rp_seq
  /\ c.pending = b.pending

\* The state b and its copy s become c and t when the next packet is m.
ParsedTo(n, b, s, m, c, t) ==
  \/ /\ m.type = "BACKTRACK"
     /\ t = s /\ Moved(IF b.now > b.last_rp + m.period THEN s ELSE b, m, c)
  \/ /\ m.type \in ReleaseTypes /\ m.c_rp_seq = b.rp_seq
     /\ Takes(n, b, m, c) /\ Leaves(b, m, c) /\ t = c
  \/ /\ m.type \in ReleaseTypes => m.c_rp_seq # b.rp_seq
     /\ m.type # "BACKTRACK"
     /\ Takes(n, b, m, c) /\ Stays(b, c) /\ t = s

LEMMA DataRxEffect ==
  ASSUME NEW n \in Nodes, NEW b \in Machine, NEW m \in McastPkt, m.type \in RxTypes
  PROVE  LET c == DataRx(n, b, m) IN
         /\ c \in Machine /\ c.got = Taken(n, b, m) /\ c.now = b.now
         /\ c.min_duration = b.min_duration /\ SameRadio(b, c) /\ Stays(b, c)
         /\ c.tx_backtracked = b.tx_backtracked /\ c.rx_pkt_seq = b.rx_pkt_seq
<1> DEFINE g == Taken(n, b, m)
           c == [b EXCEPT !.got = g]
<1>1. b.got \in Seq(Got) /\ b.now \in Nat
  BY MachineFields
<1>2. m.tx \in Nodes \X Nat
  BY McastFields
<1>3. [tx |-> m.tx, at |-> b.now] \in Got
  BY <1>1, <1>2 DEF Got
<1>4. g \in Seq(Got)
  BY <1>1, <1>3 DEF Taken
<1>5. DataRx(n, b, m) = c
  BY DEF DataRx, Machine, Taken
<1> HIDE DEF g
<1>6. c \in Machine /\ c.got = g
  BY <1>4 DEF Machine, Got
<1>7. /\ c.now = b.now /\ c.min_duration = b.min_duration /\ SameRadio(b, c)
      /\ c.rx_pkt_seq = b.rx_pkt_seq
      /\ c.last_rp = b.last_rp /\ c.next_rp = b.next_rp /\ c.rp_seq = b.rp_seq
  BY DEF Machine, SameRadio
<1>8. c.pending = b.pending
  BY DEF Machine
<1>9. c.tx_backtracked = b.tx_backtracked
  BY DEF Machine
<1> HIDE DEF c
<1> QED BY <1>5, <1>6, <1>7, <1>8, <1>9 DEF g, Stays

LEMMA NextNumber ==
  ASSUME NEW b \in Machine
  PROVE  LET x == [b EXCEPT !.rx_pkt_seq = @ + 1] IN
         /\ x \in Machine /\ x.now = b.now /\ x.min_duration = b.min_duration
         /\ SameRadio(b, x) /\ x.tx_backtracked = b.tx_backtracked
         /\ x.rx_pkt_seq = b.rx_pkt_seq + 1 /\ x.got = b.got /\ Stays(b, x)
<1> DEFINE x == [b EXCEPT !.rx_pkt_seq = @ + 1]
<1>1. b.rx_pkt_seq + 1 \in Nat
  BY MachineFields
<1>2. x \in Machine
  BY <1>1 DEF Machine
<1>3. /\ x.now = b.now /\ x.min_duration = b.min_duration /\ SameRadio(b, x)
      /\ x.rx_pkt_seq = b.rx_pkt_seq + 1 /\ x.got = b.got
      /\ x.last_rp = b.last_rp /\ x.next_rp = b.next_rp /\ x.rp_seq = b.rp_seq
  BY DEF Machine, SameRadio
<1>4. x.pending = b.pending
  BY DEF Machine
<1>5. x.tx_backtracked = b.tx_backtracked
  BY DEF Machine
<1> HIDE DEF x
<1>6. Stays(b, x)
  BY <1>3, <1>4 DEF Stays
<1> QED BY <1>2, <1>3, <1>5, <1>6 DEF x

HandledTo(n, b, s, m, o) ==
  /\ o.ok = TRUE /\ o.duration \in Nat /\ o.bt \in Machine /\ o.backup \in Machine
  /\ o.duration # 0 => m.type \in RxTypes
  /\ ParsedTo(n, b, s, m, o.bt, o.backup)

LEMMA HandleEffect ==
  ASSUME NEW n \in Nodes, NEW b \in Machine, NEW s \in Machine, NEW m \in McastPkt,
         m.seq = b.rx_pkt_seq
  PROVE  HandledTo(n, b, s, m, Handle(n, [b EXCEPT !.rx_pkt_seq = @ + 1], s, m))
<1> DEFINE x == [b EXCEPT !.rx_pkt_seq = @ + 1]
           d == IF m.type \in {"RX", "SYNCH_REQ_RX"} /\ n \in m.to THEN RxTime ELSE 0
           o == Handle(n, x, s, m)
<1>1. /\ x \in Machine /\ x.now = b.now /\ x.min_duration = b.min_duration
      /\ SameRadio(b, x) /\ x.tx_backtracked = b.tx_backtracked
      /\ x.rx_pkt_seq = b.rx_pkt_seq + 1 /\ x.got = b.got /\ Stays(b, x)
  BY NextNumber
<1> HIDE DEF x
<1>2. d \in Nat /\ (d # 0 => m.type \in RxTypes)
  BY ClientAssumption DEF RxTypes
<1> HIDE DEF d
<1>3. CASE m.type = "BACKTRACK"
  <2>1. o = ParseBacktrack(x, s, m)
    BY <1>3 DEF Handle
  <2> HIDE DEF o
  <2>2. /\ o.ok = TRUE /\ o.duration = 0 /\ o.bt \in Machine /\ o.backup = s
        /\ Moved(IF x.now > x.last_rp + m.period THEN s ELSE x, m, o.bt)
    BY <1>1, <1>3, <2>1, BacktrackEffect
  <2>3. Moved(IF b.now > b.last_rp + m.period THEN s ELSE b, m, o.bt)
    BY <1>1, <2>2 DEF Moved, Stays, SameRadio
  <2> QED BY <1>3, <2>2, <2>3 DEF ParsedTo, HandledTo, o, x
<1>4. CASE m.type = "RX"
  <2> DEFINE y == DataRx(n, x, m)
  <2>1. o = Outcome(y, s, TRUE, d)
    BY <1>4 DEF Handle, d
  <2>2. /\ y \in Machine /\ y.got = Taken(n, x, m) /\ y.now = x.now
        /\ y.min_duration = x.min_duration /\ SameRadio(x, y) /\ Stays(x, y)
        /\ y.tx_backtracked = x.tx_backtracked /\ y.rx_pkt_seq = x.rx_pkt_seq
    BY <1>1, <1>4, DataRxEffect DEF RxTypes
  <2> HIDE DEF o, y
  <2>3. Takes(n, b, m, y) /\ Stays(b, y)
    BY <1>1, <2>2 DEF Takes, Stays, SameRadio, Taken
  <2>4. ParsedTo(n, b, s, m, y, s)
    BY <1>4, <2>3 DEF ParsedTo, ReleaseTypes
  <2>5. o.ok = TRUE /\ o.duration = d /\ o.bt = y /\ o.backup = s
    BY <2>1 DEF Outcome
  <2> QED BY <1>2, <2>2, <2>4, <2>5 DEF o, x, HandledTo
<1>5. CASE m.type \in ReleaseTypes
  <2> DEFINE y == IF m.type \in RxTypes THEN DataRx(n, x, m) ELSE x
             p == ParseRp(y, s, m, d)
  <2>1. o = p
    BY <1>5 DEF Handle, d, ReleaseTypes, RxTypes, ParseSrRx
  <2>2. /\ y \in Machine /\ y.got = Taken(n, x, m) /\ y.now = x.now
        /\ y.min_duration = x.min_duration /\ SameRadio(x, y) /\ Stays(x, y)
        /\ y.tx_backtracked = x.tx_backtracked /\ y.rx_pkt_seq = x.rx_pkt_seq
    <3>1. CASE m.type \in RxTypes
      BY <1>1, <3>1, DataRxEffect
    <3>2. CASE m.type \notin RxTypes
      BY <1>1, <3>2 DEF Taken, SameRadio, Stays
    <3> QED BY <3>1, <3>2
  <2> HIDE DEF y
  <2>0. p = ParseRp(y, s, m, d)
    OBVIOUS
  <2> HIDE DEF p
  <2>3. /\ p.ok = TRUE /\ p.duration = d /\ p.bt \in Machine /\ p.backup \in Machine
        /\ p.bt.now = y.now /\ p.bt.rx_pkt_seq = y.rx_pkt_seq /\ p.bt.got = y.got
        /\ p.bt.min_duration = y.min_duration /\ SameRadio(y, p.bt)
        /\ p.bt.tx_backtracked = y.tx_backtracked
        /\ m.c_rp_seq = y.rp_seq => Leaves(y, m, p.bt) /\ p.backup = p.bt
        /\ m.c_rp_seq # y.rp_seq => p.bt = y /\ p.backup = s
    <3>1. ReleasedTo(y, s, m, d, p)
      BY <1>2, <1>5, <2>0, <2>2, ReleaseEffect
    <3> QED BY <3>1 DEF ReleasedTo
  <2>4. Takes(n, b, m, p.bt)
    BY <1>1, <2>2, <2>3 DEF Takes, SameRadio, Taken
  <2>5. y.rp_seq = b.rp_seq /\ Stays(b, y)
    BY <1>1, <2>2 DEF Stays
  <2>6. ParsedTo(n, b, s, m, p.bt, p.backup)
    <3>1. CASE m.c_rp_seq = b.rp_seq
      <4>1. Leaves(b, m, p.bt)
        BY <1>1, <2>2, <2>3, <2>5, <3>1 DEF Leaves
      <4> QED BY <1>5, <2>3, <2>4, <2>5, <3>1, <4>1 DEF ParsedTo
    <3>2. CASE m.c_rp_seq # b.rp_seq
      BY <1>5, <2>3, <2>4, <2>5, <3>2 DEF ParsedTo, ReleaseTypes
    <3> QED BY <3>1, <3>2
  <2> HIDE DEF o
  <2> QED BY <1>2, <2>1, <2>3, <2>6 DEF o, x, HandledTo
<1> QED BY <1>3, <1>4, <1>5, McastFields DEF ReleaseTypes

LEMMA ParseEffect ==
  ASSUME NEW n \in Nodes, NEW b \in Machine, backup[n] \in Machine, NEW m \in McastPkt
  PROVE  LET o == Parse(n, b, m) IN
         /\ o.duration \in Nat /\ o.bt \in Machine /\ o.backup \in Machine
         /\ o.ok <=> m.seq <= b.rx_pkt_seq
         /\ o.duration # 0 => m.type \in RxTypes
         /\ m.seq # b.rx_pkt_seq => o.bt = b /\ o.backup = backup[n]
         /\ m.seq = b.rx_pkt_seq => ParsedTo(n, b, backup[n], m, o.bt, o.backup)
<1> DEFINE o == Parse(n, b, m)
<1>1. m.seq \in Nat /\ b.rx_pkt_seq \in Nat
  BY McastFields, MachineFields
<1>2. CASE m.seq > b.rx_pkt_seq
  <2>1. o = Outcome(b, backup[n], FALSE, 0)
    <3>1. Missed(b, m) /\ ~ Already(b, m)
      BY <1>1, <1>2 DEF Missed, Already
    <3> QED BY <3>1, Zenon DEF Parse
  <2> HIDE DEF o
  <2> QED BY <1>1, <1>2, <2>1 DEF o, Outcome
<1>3. CASE m.seq < b.rx_pkt_seq
  <2>1. o = Outcome(b, backup[n], TRUE, 0)
    <3>1. ~ Missed(b, m) /\ Already(b, m)
      BY <1>1, <1>3 DEF Missed, Already
    <3> QED BY <3>1, Zenon DEF Parse
  <2> HIDE DEF o
  <2> QED BY <1>1, <1>3, <2>1 DEF o, Outcome
<1>4. CASE m.seq = b.rx_pkt_seq
  <2>1. o = Handle(n, [b EXCEPT !.rx_pkt_seq = @ + 1], backup[n], m)
    <3>1. ~ Missed(b, m) /\ ~ Already(b, m)
      BY <1>1, <1>4 DEF Missed, Already
    <3> QED BY <3>1, Zenon DEF Parse
  <2> HIDE DEF o
  <2>2. HandledTo(n, b, backup[n], m, o)
    BY <1>4, <2>1, HandleEffect
  <2> QED BY <1>1, <1>4, <2>2 DEF o, HandledTo
<1> QED BY <1>1, <1>2, <1>3, <1>4

-----------------------------------------------------------------------------
(* What the steps of a node do. *)

\* The same node at the same date, whatever its radio does.
SameMoment(b, c) == SameView(b, c) /\ c.now = b.now /\ c.pending = b.pending

LEMMA TickEffect ==
  ASSUME CltTypeOK, NEW n \in Nodes
  PROVE  LET c == Ticked(n) IN
         /\ c \in Machine /\ SameView(bt[n], c) /\ c.now = bt[n].now + Quantum[n]
         /\ bt[n].now < c.now /\ c.pending = bt[n].pending
         /\ c.min_duration = bt[n].min_duration /\ SameRadio(bt[n], c)
         /\ c.tx_backtracked = bt[n].tx_backtracked
<1> DEFINE b == bt[n]
           t == b.now + Quantum[n]
           c == [b EXCEPT !.now = t]
<1>1. b \in Machine /\ b.now \in Nat /\ t \in Nat /\ b.now < t
  BY ClientAssumption, MachineFields DEF CltTypeOK
<1>2. Ticked(n) = c
  BY DEF Ticked
<1> HIDE DEF b, t
<1>3. c \in Machine /\ c.now = t
  BY <1>1 DEF Machine
<1>4. SameView(b, c) /\ c.min_duration = b.min_duration /\ SameRadio(b, c)
  BY <1>1 DEF Machine, SameView, SameRadio
<1>5. c.pending = b.pending
  BY <1>1 DEF Machine
<1>6. c.tx_backtracked = b.tx_backtracked
  BY <1>1 DEF Machine
<1> HIDE DEF c
<1> QED BY <1>1, <1>2, <1>3, <1>4, <1>5, <1>6 DEF b, t

LEMMA DurationEffect ==
  ASSUME NEW b \in Machine, NEW d \in Nat
  PROVE  LET c == [b EXCEPT !.min_duration = d] IN
         /\ c \in Machine /\ SameMoment(b, c) /\ c.min_duration = d /\ SameRadio(b, c)
         /\ c.tx_backtracked = b.tx_backtracked
<1> DEFINE c == [b EXCEPT !.min_duration = d]
<1>1. c \in Machine
  BY DEF Machine
<1>2. SameView(b, c) /\ c.min_duration = d /\ SameRadio(b, c) /\ c.now = b.now
  BY DEF Machine, SameView, SameRadio
<1>3. c.pending = b.pending
  BY DEF Machine
<1>4. c.tx_backtracked = b.tx_backtracked
  BY DEF Machine
<1> HIDE DEF c
<1> QED BY <1>1, <1>2, <1>3, <1>4 DEF c, SameMoment

LEMMA PendingEffect ==
  ASSUME NEW b \in Machine
  PROVE  LET c == [b EXCEPT !.pending = TRUE] IN
         /\ c \in Machine /\ SameView(b, c) /\ c.now = b.now /\ c.pending
         /\ c.min_duration = b.min_duration /\ SameRadio(b, c)
         /\ c.tx_backtracked = b.tx_backtracked
<1> DEFINE c == [b EXCEPT !.pending = TRUE]
<1>1. c \in Machine
  BY DEF Machine
<1>2. /\ SameView(b, c) /\ c.min_duration = b.min_duration /\ SameRadio(b, c)
      /\ c.now = b.now
  BY DEF Machine, SameView, SameRadio
<1>3. c.pending
  BY DEF Machine
<1>4. c.tx_backtracked = b.tx_backtracked
  BY DEF Machine
<1> HIDE DEF c
<1> QED BY <1>1, <1>2, <1>3, <1>4 DEF c

LEMMA BeforeTxEffect ==
  ASSUME NEW n \in Nodes, NEW b \in Machine
  PROVE  LET c == BeforeTx(n, b) IN
         /\ c \in Machine /\ SameMoment(b, c) /\ c.min_duration = b.min_duration
         /\ c.tx_backtracked = b.tx_backtracked
         /\ c.tx_pkt_seq = b.tx_pkt_seq /\ c.io_timer = b.io_timer
<1>1. CASE Radio[n] = "cc1100"
  <2> DEFINE c == [b EXCEPT !.byte = @ + 1]
  <2>1. BeforeTx(n, b) = c
    BY <1>1 DEF BeforeTx
  <2>2. b.byte + 1 \in Nat
    BY MachineFields
  <2>3. c \in Machine
    BY <2>2 DEF Machine
  <2>4. /\ SameView(b, c) /\ c.now = b.now /\ c.min_duration = b.min_duration
        /\ c.tx_pkt_seq = b.tx_pkt_seq /\ c.io_timer = b.io_timer
    BY DEF Machine, SameView
  <2>5. c.pending = b.pending
    BY DEF Machine
  <2>6. c.tx_backtracked = b.tx_backtracked
    BY DEF Machine
  <2> HIDE DEF c
  <2> QED BY <2>1, <2>3, <2>4, <2>5, <2>6 DEF SameMoment
<1>2. CASE Radio[n] = "cc2420"
  <2> DEFINE g == Append(b.sent, b.byte + 1)
             c == [b EXCEPT !.sent = g]
  <2>1. BeforeTx(n, b) = c
    BY <1>2 DEF BeforeTx
  <2>2. g \in Seq(Nat)
    BY MachineFields
  <2> HIDE DEF g
  <2>3. c \in Machine
    BY <2>2 DEF Machine
  <2>4. /\ SameView(b, c) /\ c.now = b.now /\ c.min_duration = b.min_duration
        /\ c.tx_pkt_seq = b.tx_pkt_seq /\ c.io_timer = b.io_timer
    BY DEF Machine, SameView
  <2>5. c.pending = b.pending
    BY DEF Machine
  <2>6. c.tx_backtracked = b.tx_backtracked
    BY DEF Machine
  <2> HIDE DEF c
  <2> QED BY <2>1, <2>3, <2>4, <2>5, <2>6 DEF SameMoment
<1> QED BY <1>1, <1>2, ClientAssumption

LEMMA SentEffect ==
  ASSUME NEW b \in Machine
  PROVE  LET c == [b EXCEPT !.tx_pkt_seq = @ + 1, !.tx_backtracked = TRUE] IN
         /\ c \in Machine /\ SameMoment(b, c) /\ c.min_duration = b.min_duration
         /\ c.tx_backtracked = TRUE
         /\ c.tx_pkt_seq = b.tx_pkt_seq + 1 /\ c.byte = b.byte
         /\ c.io_timer = b.io_timer /\ c.sent = b.sent
<1> DEFINE s == b.tx_pkt_seq + 1
           c == [b EXCEPT !.tx_pkt_seq = s, !.tx_backtracked = TRUE]
<1>1. s \in Nat
  BY MachineFields
<1> HIDE DEF s
<1>2. c \in Machine
  BY <1>1 DEF Machine
<1>3. /\ SameView(b, c) /\ c.now = b.now /\ c.min_duration = b.min_duration
      /\ c.tx_pkt_seq = s /\ c.byte = b.byte
      /\ c.io_timer = b.io_timer /\ c.sent = b.sent
  BY DEF Machine, SameView
<1>4. c.pending = b.pending
  BY DEF Machine
<1>5. c.tx_backtracked = TRUE
  BY DEF Machine
<1> HIDE DEF c
<1> QED BY <1>2, <1>3, <1>4, <1>5 DEF c, s, SameMoment

LEMMA AfterTxEffect ==
  ASSUME NEW n \in Nodes, NEW b \in Machine, NEW k \in Nat
  PROVE  LET c == AfterTx(n, b, k) IN
         /\ c \in Machine /\ SameMoment(b, c) /\ c.min_duration = b.min_duration
         /\ c.tx_backtracked = b.tx_backtracked
         /\ c.tx_pkt_seq = b.tx_pkt_seq /\ c.io_timer = b.now + ByteTime[n]
<1> DEFINE t == b.now + ByteTime[n]
<1>0. t \in Nat
  BY MachineFields, ClientAssumption
<1>1. CASE Radio[n] = "cc1100"
  <2> DEFINE g == Append(b.sent, k)
             c == [b EXCEPT !.sent = g, !.io_timer = t]
  <2>1. AfterTx(n, b, k) = c
    BY <1>1 DEF AfterTx
  <2>2. g \in Seq(Nat)
    BY MachineFields
  <2> HIDE DEF g, t
  <2>3. c \in Machine
    BY <1>0, <2>2 DEF Machine
  <2>4. /\ SameView(b, c) /\ c.now = b.now /\ c.min_duration = b.min_duration
        /\ c.tx_pkt_seq = b.tx_pkt_seq /\ c.io_timer = t
    BY DEF Machine, SameView
  <2>5. c.pending = b.pending
    BY DEF Machine
  <2>6. c.tx_backtracked = b.tx_backtracked
    BY DEF Machine
  <2> HIDE DEF c
  <2> QED BY <2>1, <2>3, <2>4, <2>5, <2>6 DEF SameMoment, t
<1>2. CASE Radio[n] = "cc2420"
  <2> DEFINE y == b.byte + 1
             c == [b EXCEPT !.io_timer = t, !.byte = y]
  <2>1. AfterTx(n, b, k) = c
    BY <1>2 DEF AfterTx
  <2>2. y \in Nat
    BY MachineFields
  <2> HIDE DEF y, t
  <2>3. c \in Machine
    BY <1>0, <2>2 DEF Machine
  <2>4. /\ SameView(b, c) /\ c.now = b.now /\ c.min_duration = b.min_duration
        /\ c.tx_pkt_seq = b.tx_pkt_seq /\ c.io_timer = t
    BY DEF Machine, SameView
  <2>5. c.pending = b.pending
    BY DEF Machine
  <2>6. c.tx_backtracked = b.tx_backtracked
    BY DEF Machine
  <2> HIDE DEF c
  <2> QED BY <2>1, <2>3, <2>4, <2>5, <2>6 DEF SameMoment, t
<1> QED BY <1>1, <1>2, ClientAssumption

\* Nothing happens to node m, apart from what is sent to it.
Idle(m) ==
  /\ pc'[m] = pc[m] /\ bt'[m] = bt[m] /\ backup'[m] = backup[m]
  /\ sigpipe'[m] = sigpipe[m] /\ cnx_time'[m] = cnx_time[m]

\* A live node works on its own: it waits, reaches its rendez-vous or sends.
Local(n) ==
  /\ CltTypeOK' /\ NetType' /\ Live(n) /\ pc[n] # "synched"
  /\ pc'[n] \in {"run", "radio", "tx", "synched"}
  /\ SameView(bt[n], bt'[n]) /\ bt[n].now <= bt'[n].now
  /\ \A m \in Nodes \ {n} : Idle(m)
  /\ UNCHANGED <<srvVars, backup, mcast, reply, joined, cnx_time, sigpipe>>
  /\ \/ /\ pc'[n] # "synched" /\ bt'[n].pending = bt[n].pending
        /\ \/ toServer' = toServer
           \/ \E p \in ClientPkt : /\ toServer' = Append(toServer, p) /\ p.type = "TX"
                                   /\ QuietStart => Quiet
     \/ /\ pc'[n] = "synched" /\ bt'[n].pending /\ bt'[n].now >= bt'[n].next_rp
        /\ toServer' = Append(toServer, SynchedPkt(bt[n].rp_seq))

LEMMA IdleOthers ==
  ASSUME CltTypeOK, NEW n \in Nodes, NEW l, NEW b,
         Goto(n, l), Become(n, b), UNCHANGED <<backup, sigpipe, cnx_time>>
  PROVE  /\ pc'[n] = l /\ bt'[n] = b
         /\ \A m \in Nodes \ {n} : Idle(m)
BY DEF Goto, Become, Idle, CltTypeOK

LEMMA UpdateDoneIs ==
  ASSUME NEW n \in Nodes, NEW b
  PROVE  UpdateDone(n, b) \in {"run", "radio"}
BY DEF UpdateDone

LEMMA LocalTypes ==
  ASSUME CltTypeOK, NEW n \in Nodes, NEW l \in PcValues, NEW b \in Machine,
         Goto(n, l), Become(n, b), UNCHANGED <<prog, backup, sigpipe, cnx_time>>,
         txbyte' \in [Nodes -> Nat]
  PROVE  CltTypeOK'
BY DEF Goto, Become, CltTypeOK

LEMMA LocalRest ==
  ASSUME TypeInv, NEW n \in Nodes, Live(n), pc[n] # "synched",
         NEW l \in {"run", "radio", "tx"}, NEW b \in Machine,
         SameView(bt[n], b), bt[n].now <= b.now, b.pending = bt[n].pending,
         Goto(n, l), Become(n, b), txbyte' \in [Nodes -> Nat],
         UNCHANGED <<srvVars, prog, backup, sigpipe, cnx_time, mcast, reply, joined>>,
         \/ toServer' = toServer
         \/ \E p \in ClientPkt : /\ toServer' = Append(toServer, p) /\ p.type = "TX"
                                 /\ QuietStart => Quiet
  PROVE  Local(n)
<1>0. CltTypeOK /\ NetType
  BY DEF TypeInv
<1>1. CltTypeOK'
  BY <1>0, LocalTypes DEF PcValues
<1>2. NetType'
  <2>0. toServer \in Seq(ClientPkt)
    BY <1>0 DEF NetType
  <2>1. toServer' \in Seq(ClientPkt)
    <3>1. CASE toServer' = toServer
      BY <2>0, <3>1
    <3>2. ASSUME NEW p \in ClientPkt, toServer' = Append(toServer, p)
          PROVE  toServer' \in Seq(ClientPkt)
      BY <2>0, <3>2
    <3> QED BY <3>1, <3>2
  <2> QED BY <1>0, <2>1 DEF NetType
<1>3. pc'[n] = l /\ bt'[n] = b /\ \A m \in Nodes \ {n} : Idle(m)
  BY <1>0, IdleOthers
<1> QED BY <1>1, <1>2, <1>3 DEF Local

LEMMA RunningIs ==
  ASSUME NEW n \in Nodes, Running(n)
  PROVE  Live(n) /\ pc[n] # "synched"
BY DEF Running, Live

LEMMA WaitStep ==
  ASSUME TypeInv, NEW n \in Nodes, UpdateWait(n), UNCHANGED srvVars
  PROVE  Local(n)
<1> DEFINE d == IF Ticked(n).min_duration > Quantum[n]
                  THEN Ticked(n).min_duration - Quantum[n] ELSE 0
           b == [Ticked(n) EXCEPT !.min_duration = d]
<1>0. CltTypeOK
  BY DEF TypeInv
<1>1. /\ Ticked(n) \in Machine /\ SameView(bt[n], Ticked(n))
      /\ bt[n].now < Ticked(n).now /\ Ticked(n).pending = bt[n].pending
  BY <1>0, TickEffect
<1>2. d \in Nat
  BY <1>1, MachineFields, ClientAssumption
<1>3. b \in Machine /\ SameMoment(Ticked(n), b)
  BY <1>1, <1>2, DurationEffect
<1>4. /\ Running(n) /\ Become(n, b) /\ Goto(n, UpdateDone(n, b))
      /\ UNCHANGED <<prog, backup, txbyte, sigpipe, cnx_time, netVars>>
  BY DEF UpdateWait
<1> HIDE DEF b
<1>5. SameView(bt[n], b) /\ bt[n].now <= b.now /\ b.pending = bt[n].pending
  <2>1. b.now = Ticked(n).now /\ b.now \in Nat /\ bt[n].now \in Nat
    BY <1>0, <1>3, MachineFields DEF SameMoment, CltTypeOK
  <2> QED BY <1>1, <1>3, <2>1 DEF SameMoment, SameView
<1> QED BY <1>0, <1>3, <1>4, <1>5, RunningIs, UpdateDoneIs, LocalRest DEF netVars, CltTypeOK

LEMMA NothingStep ==
  ASSUME TypeInv, NEW n \in Nodes, UpdateNothing(n), UNCHANGED srvVars
  PROVE  Local(n)
<1>0. CltTypeOK
  BY DEF TypeInv
<1>1. /\ Ticked(n) \in Machine /\ SameView(bt[n], Ticked(n))
      /\ bt[n].now <= Ticked(n).now /\ Ticked(n).pending = bt[n].pending
  BY <1>0, TickEffect, MachineFields DEF CltTypeOK
<1>2. /\ Running(n) /\ Become(n, Ticked(n)) /\ Goto(n, UpdateDone(n, Ticked(n)))
      /\ UNCHANGED <<prog, backup, txbyte, sigpipe, cnx_time, netVars>>
  BY DEF UpdateNothing
<1> QED BY <1>0, <1>1, <1>2, RunningIs, UpdateDoneIs, LocalRest DEF netVars, CltTypeOK

LEMMA SynchedStep ==
  ASSUME TypeInv, NEW n \in Nodes, UpdateSynched(n), UNCHANGED srvVars
  PROVE  Local(n)
<1> DEFINE b == [Ticked(n) EXCEPT !.pending = TRUE]
           p == SynchedPkt(bt[n].rp_seq)
<1>0. CltTypeOK /\ NetType
  BY DEF TypeInv
<1>1. /\ Ticked(n) \in Machine /\ SameView(bt[n], Ticked(n))
      /\ bt[n].now < Ticked(n).now
  BY <1>0, TickEffect
<1>2. b \in Machine /\ SameView(Ticked(n), b) /\ b.now = Ticked(n).now /\ b.pending
  BY <1>1, PendingEffect
<1>3. /\ Running(n) /\ Ticked(n).now >= bt[n].next_rp
      /\ Become(n, b) /\ Goto(n, "synched") /\ toServer' = Append(toServer, p)
      /\ UNCHANGED <<prog, backup, txbyte, sigpipe, cnx_time, reply, mcast, joined>>
  BY DEF UpdateSynched, SendToServer
<1> HIDE DEF b
<1>4. p \in ClientPkt
  <2>1. bt[n].rp_seq \in Nat
    BY <1>0, MachineFields DEF CltTypeOK
  <2> QED BY <2>1 DEF ClientPkt, SynchedPkt
<1>5. CltTypeOK'
  BY <1>0, <1>2, <1>3, LocalTypes DEF PcValues, CltTypeOK
<1>6. NetType'
  BY <1>0, <1>3, <1>4 DEF NetType
<1>7. pc'[n] = "synched" /\ bt'[n] = b /\ \A m \in Nodes \ {n} : Idle(m)
  BY <1>0, <1>3, IdleOthers
<1>8. SameView(bt[n], b) /\ bt[n].now <= b.now /\ b.now >= b.next_rp
  <2>1. b.now \in Nat /\ bt[n].now \in Nat
    BY <1>0, <1>2, MachineFields DEF CltTypeOK
  <2> QED BY <1>1, <1>2, <1>3, <2>1 DEF SameView
<1> QED BY <1>2, <1>3, <1>5, <1>6, <1>7, <1>8, RunningIs DEF Local

LEMMA TransmitStep ==
  ASSUME TypeInv, NEW n \in Nodes, Transmit(n), UNCHANGED srvVars
  PROVE  Local(n)
<1> DEFINE b == BeforeTx(n, bt[n])
           c == [b EXCEPT !.tx_pkt_seq = @ + 1, !.tx_backtracked = TRUE]
           k == bt[n].byte + 1
           p == TxPkt(n, b.tx_pkt_seq, TxDate(b), ByteTime[n])
           l == IF MustWait(n, c) THEN "tx" ELSE "run"
           e == IF MustWait(n, c) THEN c ELSE AfterTx(n, c, k)
<1>0. CltTypeOK /\ NetType /\ bt[n] \in Machine /\ bt[n].last_rp <= bt[n].now
  BY DEF TypeInv, CltTypeOK, Dates
<1>1. b \in Machine /\ SameMoment(bt[n], b)
  BY <1>0, BeforeTxEffect
<1>2. c \in Machine /\ SameMoment(b, c)
  BY <1>1, SentEffect
<1>3. k \in Nat
  BY <1>0, MachineFields
<1>4. /\ pc[n] = "radio" /\ (QuietStart => Quiet) /\ toServer' = Append(toServer, p)
      /\ txbyte' = [txbyte EXCEPT ![n] = k]
      /\ Become(n, e) /\ Goto(n, l)
      /\ UNCHANGED <<prog, backup, sigpipe, cnx_time, reply, mcast, joined>>
  BY DEF Transmit, SendToServer
<1>5. p \in ClientPkt /\ p.type = "TX"
  <2>1. b.now - b.last_rp \in Nat
    BY <1>0, <1>1, MachineFields DEF SameMoment, SameView
  <2>2. b.tx_pkt_seq \in Nat /\ ByteTime[n] \in Nat
    BY <1>1, MachineFields, ClientAssumption
  <2> HIDE DEF b
  <2> QED BY <2>1, <2>2 DEF ClientPkt, TxPkt, TxDate
<1> HIDE DEF b, c, k
<1>6. e \in Machine /\ SameMoment(c, e)
  <2>1. AfterTx(n, c, k) \in Machine /\ SameMoment(c, AfterTx(n, c, k))
    BY <1>2, <1>3, AfterTxEffect
  <2> QED BY <1>2, <2>1 DEF SameMoment, SameView
<1> HIDE DEF e, p
<1>7. /\ SameView(bt[n], e) /\ bt[n].now <= e.now /\ e.pending = bt[n].pending
  BY <1>0, <1>1, <1>2, <1>6, MachineFields DEF SameMoment, SameView
<1>8. Live(n) /\ pc[n] # "synched" /\ l \in {"run", "radio", "tx"}
  BY <1>4 DEF Live
<1> HIDE DEF l
<1>9. txbyte' \in [Nodes -> Nat]
  BY <1>0, <1>3, <1>4 DEF CltTypeOK
<1> QED BY <1>4, <1>5, <1>6, <1>7, <1>8, <1>9, LocalRest

\* The state in which node n parses a packet.
Before(n) == IF pc[n] = "run" THEN Ticked(n) ELSE bt[n]

\* The packet m was parsed in state b of node n: c is the state it leads to.
ParsedAs(n, b, m, c) ==
  /\ m.seq # b.rx_pkt_seq => c = b /\ backup'[n] = backup[n]
  /\ m.seq = b.rx_pkt_seq => ParsedTo(n, b, backup[n], m, c, backup'[n])
  /\ SameMoment(c, bt'[n])
  /\ \/ bt'[n].min_duration \in {c.min_duration, 0}
     \/ pc[n] = "run" /\ m.type \in RxTypes
  /\ IF pc[n] = "synched"
       THEN m.seq <= b.rx_pkt_seq =>
              ~ sigpipe'[n] /\ (pc'[n] = "synched" <=> c.pending)
       ELSE pc'[n] # "synched" /\ sigpipe'[n] = sigpipe[n]

\* A live node parses a packet.
Parsed(n) ==
  /\ CltTypeOK' /\ NetType' /\ Live(n) /\ mcast[n] # <<>>
  /\ pc[n] # "radio" /\ pc'[n] \in {"run", "radio", "tx", "synched"}
  /\ \A m \in Nodes \ {n} : Idle(m)
  /\ mcast' = [mcast EXCEPT ![n] = Tail(@)]
  /\ UNCHANGED <<srvVars, toServer, reply, joined, cnx_time>>
  /\ \E c \in Machine : ParsedAs(n, Before(n), Head(mcast[n]), c)

LEMMA HeadIs ==
  ASSUME NetType, NEW n \in Nodes, mcast[n] # <<>>
  PROVE  Head(mcast[n]) \in McastPkt
BY DEF NetType

\* What is left to show of a step that parses a packet.
LEMMA ParsedRest ==
  ASSUME TypeInv, NEW n \in Nodes, Live(n), pc[n] # "radio", mcast[n] # <<>>,
         NEW l \in {"run", "radio", "tx", "synched"}, NEW e \in Machine,
         NEW s \in Machine, NEW f \in BOOLEAN,
         Goto(n, l), Become(n, e), backup' = [backup EXCEPT ![n] = s],
         sigpipe' = [sigpipe EXCEPT ![n] = f],
         mcast' = [mcast EXCEPT ![n] = Tail(@)],
         UNCHANGED <<srvVars, toServer, reply, joined, cnx_time, prog, txbyte>>,
         NEW c \in Machine, ParsedAs(n, Before(n), Head(mcast[n]), c)
  PROVE  Parsed(n)
<1>0. CltTypeOK /\ NetType
  BY DEF TypeInv
<1>1. CltTypeOK'
  BY <1>0 DEF CltTypeOK, Goto, Become, PcValues
<1>2. NetType'
  <2>1. mcast[n] \in Seq(McastPkt) /\ mcast[n] # <<>>
    BY <1>0 DEF NetType
  <2>2. Tail(mcast[n]) \in Seq(McastPkt)
    BY <2>1
  <2> QED BY <1>0, <2>2 DEF NetType
<1>3. /\ pc'[n] = l /\ \A m \in Nodes \ {n} : Idle(m)
  BY <1>0 DEF Goto, Become, Idle, CltTypeOK
<1> QED BY <1>1, <1>2, <1>3 DEF Parsed

LEMMA PacketStep ==
  ASSUME TypeInv, NEW n \in Nodes, UpdatePacket(n), UNCHANGED srvVars
  PROVE  Parsed(n)
<1> DEFINE m == Head(mcast[n])
           o == Parse(n, Ticked(n), m)
           e == IF o.ok THEN [o.bt EXCEPT !.min_duration = o.duration] ELSE o.bt
<1>0. CltTypeOK /\ NetType /\ backup[n] \in Machine
  BY DEF TypeInv, CltTypeOK
<1>1. /\ Running(n) /\ mcast[n] # <<>> /\ Ticked(n).min_duration = 0
      /\ Become(n, e) /\ Goto(n, UpdateDone(n, e))
      /\ backup' = [backup EXCEPT ![n] = o.backup]
      /\ mcast' = [mcast EXCEPT ![n] = Tail(@)]
      /\ UNCHANGED <<prog, txbyte, sigpipe, cnx_time, toServer, reply, joined>>
  BY DEF UpdatePacket
<1>2. m \in McastPkt
  BY <1>0, <1>1, HeadIs
<1>3. Ticked(n) \in Machine
  BY <1>0, TickEffect
<1> HIDE DEF m
<1>4. /\ o.duration \in Nat /\ o.bt \in Machine /\ o.backup \in Machine
      /\ o.ok <=> m.seq <= Ticked(n).rx_pkt_seq
      /\ o.duration # 0 => m.type \in RxTypes
      /\ m.seq # Ticked(n).rx_pkt_seq => o.bt = Ticked(n) /\ o.backup = backup[n]
      /\ m.seq = Ticked(n).rx_pkt_seq =>
           ParsedTo(n, Ticked(n), backup[n], m, o.bt, o.backup)
  BY <1>0, <1>2, <1>3, ParseEffect
<1> HIDE DEF o
<1>5. /\ e \in Machine /\ SameMoment(o.bt, e)
      /\ e.min_duration \in {o.bt.min_duration, 0} \/ m.type \in RxTypes
  <2>1. CASE o.ok
    <3>1. e = [o.bt EXCEPT !.min_duration = o.duration]
      BY <2>1
    <3> HIDE DEF e
    <3> QED BY <1>4, <3>1, DurationEffect
  <2>2. CASE ~ o.ok
    BY <1>4, <2>2 DEF SameMoment, SameView
  <2> QED BY <2>1, <2>2
<1> HIDE DEF e
<1>6. pc[n] = "run" /\ Live(n)
  BY <1>1 DEF Running, Live
<1>7. pc'[n] \in {"run", "radio"} /\ bt'[n] = e /\ backup'[n] = o.backup
  BY <1>0, <1>1, UpdateDoneIs DEF Goto, Become, CltTypeOK
<1>8. Before(n) = Ticked(n)
  BY <1>6 DEF Before
<1>9. ParsedAs(n, Before(n), m, o.bt)
  BY <1>1, <1>4, <1>5, <1>6, <1>7, <1>8 DEF ParsedAs
<1>10. sigpipe' = [sigpipe EXCEPT ![n] = sigpipe[n]] /\ sigpipe[n] \in BOOLEAN
  BY <1>0, <1>1 DEF CltTypeOK
<1> QED BY <1>1, <1>4, <1>5, <1>6, <1>9, <1>10, UpdateDoneIs, ParsedRest DEF m

LEMMA SynchedPacketStep ==
  ASSUME TypeInv, NEW n \in Nodes, SynchedPacket(n), UNCHANGED srvVars
  PROVE  Parsed(n)
<1> DEFINE m == Head(mcast[n])
           o == Parse(n, bt[n], m)
           l == IF o.ok /\ o.bt.pending THEN "synched" ELSE UpdateDone(n, o.bt)
           f == ~ o.ok
<1>0. CltTypeOK /\ NetType /\ backup[n] \in Machine /\ bt[n] \in Machine
  BY DEF TypeInv, CltTypeOK
<1>1. /\ pc[n] = "synched" /\ mcast[n] # <<>>
      /\ Become(n, o.bt) /\ Goto(n, l)
      /\ sigpipe' = [sigpipe EXCEPT ![n] = f]
      /\ backup' = [backup EXCEPT ![n] = o.backup]
      /\ mcast' = [mcast EXCEPT ![n] = Tail(@)]
      /\ UNCHANGED <<prog, txbyte, cnx_time, toServer, reply, joined>>
  BY DEF SynchedPacket
<1>2. m \in McastPkt
  BY <1>0, <1>1, HeadIs
<1> HIDE DEF m
<1>4. /\ o.bt \in Machine /\ o.backup \in Machine
      /\ o.ok <=> m.seq <= bt[n].rx_pkt_seq
      /\ m.seq # bt[n].rx_pkt_seq => o.bt = bt[n] /\ o.backup = backup[n]
      /\ m.seq = bt[n].rx_pkt_seq => ParsedTo(n, bt[n], backup[n], m, o.bt, o.backup)
  BY <1>0, <1>2, ParseEffect
<1> HIDE DEF o
<1>5. l \in {"synched", "run", "radio"} /\ (l = "synched" <=> o.ok /\ o.bt.pending)
  BY UpdateDoneIs
<1>6. f \in BOOLEAN /\ (f <=> ~ o.ok)
  OBVIOUS
<1> HIDE DEF l, f
<1>7. pc'[n] = l /\ bt'[n] = o.bt /\ backup'[n] = o.backup /\ sigpipe'[n] = f
  BY <1>0, <1>1 DEF Goto, Become, CltTypeOK
<1>8. Before(n) = bt[n] /\ Live(n)
  BY <1>1 DEF Before, Live
<1>9. SameMoment(o.bt, bt'[n])
  BY <1>7 DEF SameMoment, SameView
<1>10. ParsedAs(n, Before(n), m, o.bt)
  BY <1>1, <1>4, <1>5, <1>6, <1>7, <1>8, <1>9 DEF ParsedAs
<1> QED BY <1>1, <1>4, <1>5, <1>6, <1>8, <1>10, ParsedRest DEF m

LEMMA TxPacketStep ==
  ASSUME TypeInv, NEW n \in Nodes, TxPacket(n), UNCHANGED srvVars
  PROVE  Parsed(n)
<1> DEFINE m == Head(mcast[n])
           o == Parse(n, bt[n], m)
           w == o.ok /\ MustWait(n, o.bt)
           e == IF w THEN o.bt ELSE AfterTx(n, o.bt, txbyte[n])
           l == IF w THEN "tx" ELSE "run"
<1>0. /\ CltTypeOK /\ NetType /\ backup[n] \in Machine /\ bt[n] \in Machine
      /\ txbyte[n] \in Nat
  BY DEF TypeInv, CltTypeOK
<1>1. /\ pc[n] = "tx" /\ mcast[n] # <<>>
      /\ Become(n, e) /\ Goto(n, l)
      /\ backup' = [backup EXCEPT ![n] = o.backup]
      /\ mcast' = [mcast EXCEPT ![n] = Tail(@)]
      /\ UNCHANGED <<prog, txbyte, sigpipe, cnx_time, toServer, reply, joined>>
  BY DEF TxPacket
<1>2. m \in McastPkt
  BY <1>0, <1>1, HeadIs
<1> HIDE DEF m
<1>4. /\ o.bt \in Machine /\ o.backup \in Machine
      /\ m.seq # bt[n].rx_pkt_seq => o.bt = bt[n] /\ o.backup = backup[n]
      /\ m.seq = bt[n].rx_pkt_seq => ParsedTo(n, bt[n], backup[n], m, o.bt, o.backup)
  BY <1>0, <1>2, ParseEffect
<1> HIDE DEF o
<1>5. e \in Machine /\ SameMoment(o.bt, e) /\ e.min_duration = o.bt.min_duration
  <2>1. /\ AfterTx(n, o.bt, txbyte[n]) \in Machine
        /\ SameMoment(o.bt, AfterTx(n, o.bt, txbyte[n]))
        /\ AfterTx(n, o.bt, txbyte[n]).min_duration = o.bt.min_duration
    BY <1>0, <1>4, AfterTxEffect
  <2> QED BY <1>4, <2>1 DEF SameMoment, SameView
<1>6. l \in {"run", "tx"}
  OBVIOUS
<1> HIDE DEF l, e
<1>7. pc'[n] = l /\ bt'[n] = e /\ backup'[n] = o.backup
  BY <1>0, <1>1 DEF Goto, Become, CltTypeOK
<1>8. Before(n) = bt[n] /\ Live(n)
  BY <1>1 DEF Before, Live
<1>9. ParsedAs(n, Before(n), m, o.bt)
  BY <1>1, <1>4, <1>5, <1>6, <1>7, <1>8 DEF ParsedAs
<1>10. sigpipe' = [sigpipe EXCEPT ![n] = sigpipe[n]] /\ sigpipe[n] \in BOOLEAN
  BY <1>0, <1>1 DEF CltTypeOK
<1> QED BY <1>1, <1>4, <1>5, <1>6, <1>8, <1>9, <1>10, ParsedRest DEF m

LEMMA BeforeIs ==
  ASSUME CltTypeOK, NEW n \in Nodes
  PROVE  /\ Before(n) \in Machine /\ SameView(bt[n], Before(n))
         /\ bt[n].now <= Before(n).now /\ Before(n).pending = bt[n].pending
         /\ Before(n).min_duration = bt[n].min_duration
<1>1. bt[n] \in Machine /\ bt[n].now \in Nat
  BY MachineFields DEF CltTypeOK
<1>2. CASE pc[n] = "run"
  <2>1. Before(n) = Ticked(n)
    BY <1>2 DEF Before
  <2>2. /\ Ticked(n) \in Machine /\ SameView(bt[n], Ticked(n))
        /\ bt[n].now < Ticked(n).now /\ Ticked(n).pending = bt[n].pending
        /\ Ticked(n).min_duration = bt[n].min_duration
    BY TickEffect
  <2>3. Ticked(n).now \in Nat
    BY <2>2, MachineFields
  <2> QED BY <1>1, <2>1, <2>2, <2>3
<1>3. CASE pc[n] # "run"
  BY <1>1, <1>3 DEF Before, SameView
<1> QED BY <1>2, <1>3

-----------------------------------------------------------------------------
(* Connection and end. *)

\* Every node is as it was, except n, which is now at l.
Elsewhere(n, l) ==
  /\ pc'[n] = l /\ \A m \in Nodes \ {n} : Idle(m)
  /\ UNCHANGED srvVars

LEMMA ConnectStep ==
  ASSUME TypeInv, NEW n \in Nodes, Connect(n), UNCHANGED srvVars
  PROVE  /\ CltTypeOK' /\ NetType' /\ pc[n] = "off" /\ Elsewhere(n, "connecting")
         /\ toServer' = Append(toServer, ConnectPkt(n)) /\ ConnectPkt(n) \in ClientPkt
         /\ UNCHANGED <<bt, backup, sigpipe, cnx_time, reply, mcast, joined>>
<1>1. ConnectPkt(n) \in ClientPkt
  BY DEF ConnectPkt, ClientPkt
<1> QED BY <1>1 DEF Connect, SendToServer, TypeInv, CltTypeOK, NetType, Goto, PcValues,
                    Elsewhere, Idle

LEMMA LeaveStep ==
  ASSUME TypeInv, NEW n \in Nodes, Leave(n), UNCHANGED srvVars
  PROVE  /\ CltTypeOK' /\ NetType' /\ Elsewhere(n, "closed")
         /\ toServer' = Append(toServer, DisconnectPkt(n))
         /\ DisconnectPkt(n) \in ClientPkt
         /\ joined' = joined \ {n} /\ mcast' = [mcast EXCEPT ![n] = <<>>]
         /\ UNCHANGED <<bt, backup, sigpipe, cnx_time, reply>>
<1>1. DisconnectPkt(n) \in ClientPkt
  BY DEF DisconnectPkt, ClientPkt
<1> QED BY <1>1 DEF Leave, SendToServer, TypeInv, CltTypeOK, NetType, Goto, PcValues,
                    Elsewhere, Idle

LEMMA JoinStep ==
  ASSUME TypeInv, NEW n \in Nodes, Join(n), UNCHANGED srvVars
  PROVE  /\ CltTypeOK' /\ NetType' /\ pc[n] = "joining" /\ Elsewhere(n, "run")
         /\ joined' = joined \cup {n}
         /\ UNCHANGED <<bt, backup, sigpipe, cnx_time, toServer, reply, mcast>>
BY DEF Join, TypeInv, CltTypeOK, NetType, Goto, PcValues, Elsewhere, Idle

LEMMA StopStep ==
  ASSUME TypeInv, NEW n \in Nodes, StopAndRun(n), UNCHANGED srvVars
  PROVE  /\ CltTypeOK' /\ NetType' /\ pc[n] = "run" /\ n \in CanStop
         /\ Elsewhere(n, "run") /\ backup' = [backup EXCEPT ![n] = bt[n]]
         /\ UNCHANGED <<pc, bt, sigpipe, cnx_time, netVars>>
BY DEF StopAndRun, TypeInv, CltTypeOK, NetType, netVars, PcValues, Elsewhere, Idle

LEMMA RefusedStep ==
  ASSUME TypeInv, NEW n \in Nodes, Refused(n), UNCHANGED srvVars
  PROVE  /\ CltTypeOK' /\ NetType' /\ pc[n] = "connecting" /\ Elsewhere(n, "refused")
         /\ reply[n] # <<>> /\ Head(reply[n]).type = "NOATTRADDR"
         /\ reply' = [reply EXCEPT ![n] = Tail(@)]
         /\ UNCHANGED <<bt, backup, sigpipe, cnx_time, toServer, mcast, joined>>
<1>1. CltTypeOK /\ NetType
  BY DEF TypeInv
<1>2. reply' = [reply EXCEPT ![n] = Tail(@)] /\ reply[n] # <<>>
  BY DEF Refused
<1>3. reply' \in [Nodes -> Seq(ReplyPkt)]
  BY <1>1, <1>2 DEF NetType
<1> QED BY <1>1, <1>3 DEF Refused, CltTypeOK, NetType, Goto, PcValues, Elsewhere, Idle

\* The state of a node that has read the answer m to its CONNECT.
Answered(b, m, c) ==
  /\ c.rx_pkt_seq = m.seq /\ c.rp_seq = m.rp_seq /\ c.last_rp = b.now
  /\ c.next_rp = b.now + m.period /\ ~ c.pending
  /\ c.now = b.now /\ c.got = b.got /\ c.min_duration = b.min_duration
  /\ SameRadio(b, c) /\ c.tx_backtracked = b.tx_backtracked

ConnectedAt(b, x, r, t, u) ==
  [b EXCEPT !.rx_pkt_seq = x, !.rp_seq = r, !.last_rp = t, !.pending = FALSE,
            !.next_rp = u]

IsConnectedAt(b, x, r, t, u, c) ==
  /\ c \in Machine /\ c.rx_pkt_seq = x /\ c.rp_seq = r /\ c.last_rp = t
  /\ c.next_rp = u /\ ~ c.pending
  /\ c.now = b.now /\ c.got = b.got /\ c.min_duration = b.min_duration
  /\ SameRadio(b, c) /\ c.tx_backtracked = b.tx_backtracked

LEMMA AnsweredEffect ==
  ASSUME NEW b \in Machine, NEW x \in Nat, NEW r \in Nat, NEW t \in Nat, NEW u \in Nat
  PROVE  IsConnectedAt(b, x, r, t, u, ConnectedAt(b, x, r, t, u))
<1> DEFINE d == [b EXCEPT !.rx_pkt_seq = x, !.rp_seq = r]
           f == [d EXCEPT !.last_rp = t]
           c == [f EXCEPT !.pending = FALSE, !.next_rp = u]
<1>1. d \in Machine
  BY DEF Machine
<1>2. /\ d.rx_pkt_seq = x /\ d.rp_seq = r /\ d.now = b.now /\ d.got = b.got
      /\ d.min_duration = b.min_duration /\ SameRadio(b, d)
      /\ d.tx_backtracked = b.tx_backtracked
  BY DEF Machine, SameRadio
<1>3. c = ConnectedAt(b, x, r, t, u)
  BY DEF ConnectedAt
<1> HIDE DEF d
<1>4. f \in Machine
  BY <1>1 DEF Machine
<1>5. /\ f.rx_pkt_seq = x /\ f.rp_seq = r /\ f.now = b.now /\ f.got = b.got
      /\ f.last_rp = t /\ f.min_duration = b.min_duration /\ SameRadio(b, f)
      /\ f.tx_backtracked = b.tx_backtracked
  BY <1>1, <1>2 DEF Machine, SameRadio
<1> HIDE DEF f
<1>6. c \in Machine
  BY <1>4 DEF Machine
<1>7. /\ c.rx_pkt_seq = x /\ c.rp_seq = r /\ c.now = b.now /\ c.got = b.got
      /\ c.last_rp = t /\ c.next_rp = u /\ c.min_duration = b.min_duration
      /\ SameRadio(b, c) /\ c.tx_backtracked = b.tx_backtracked
  BY <1>4, <1>5 DEF Machine, SameRadio
<1>8. ~ c.pending
  BY <1>4 DEF Machine
<1> HIDE DEF c
<1> QED BY <1>3, <1>6, <1>7, <1>8 DEF IsConnectedAt

LEMMA ReplyFields ==
  ASSUME NEW m \in ReplyPkt
  PROVE  /\ m.type \in {"NOATTRADDR", "ATTRADDR"}
         /\ m.type = "ATTRADDR" => /\ m.seq \in Nat /\ m.period \in Nat
                                   /\ m.rp_seq \in Nat /\ m.cnx_time \in Nat
BY DEF ReplyPkt

LEMMA ConnectedStep ==
  ASSUME TypeInv, NEW n \in Nodes, Connected(n), UNCHANGED srvVars
  PROVE  /\ CltTypeOK' /\ NetType' /\ pc[n] = "connecting" /\ Elsewhere(n, "joining")
         /\ reply[n] # <<>> /\ Head(reply[n]).type = "ATTRADDR"
         /\ Head(reply[n]) \in ReplyPkt
         /\ Answered(bt[n], Head(reply[n]), bt'[n]) /\ backup'[n] = bt'[n]
         /\ cnx_time'[n] = Head(reply[n]).cnx_time
         /\ reply' = [reply EXCEPT ![n] = Tail(@)]
         /\ UNCHANGED <<sigpipe, toServer, mcast, joined>>
<1> DEFINE m == Head(reply[n])
           c == [bt[n] EXCEPT !.rx_pkt_seq = m.seq, !.rp_seq = m.rp_seq,
                              !.last_rp = bt[n].now, !.pending = FALSE,
                              !.next_rp = bt[n].now + m.period]
<1>0. CltTypeOK /\ NetType /\ bt[n] \in Machine /\ bt[n].now \in Nat
  BY MachineFields DEF TypeInv, CltTypeOK
<1>1. /\ pc[n] = "connecting" /\ reply[n] # <<>> /\ m.type = "ATTRADDR"
      /\ Goto(n, "joining") /\ Become(n, c) /\ backup' = [backup EXCEPT ![n] = c]
      /\ cnx_time' = [cnx_time EXCEPT ![n] = m.cnx_time]
      /\ reply' = [reply EXCEPT ![n] = Tail(@)]
      /\ UNCHANGED <<prog, txbyte, sigpipe, toServer, mcast, joined>>
  BY DEF Connected
<1>2. m \in ReplyPkt /\ reply' \in [Nodes -> Seq(ReplyPkt)]
  BY <1>0, <1>1 DEF NetType
<1> HIDE DEF m
<1>3. /\ m.seq \in Nat /\ m.rp_seq \in Nat /\ m.cnx_time \in Nat
      /\ bt[n].now + m.period \in Nat
  BY <1>0, <1>1, <1>2, ReplyFields
<1>4. c \in Machine /\ Answered(bt[n], m, c)
  <2> DEFINE b == bt[n]
             u == b.now + m.period
             e == ConnectedAt(b, m.seq, m.rp_seq, b.now, u)
  <2>1. e = c
    BY DEF ConnectedAt
  <2>2. b \in Machine /\ b.now \in Nat /\ u \in Nat /\ u = b.now + m.period
    BY <1>0, <1>3
  <2> HIDE DEF b, u, c
  <2>3. IsConnectedAt(b, m.seq, m.rp_seq, b.now, u, e)
    BY <1>3, <2>2, AnsweredEffect
  <2> HIDE DEF e
  <2>4. e \in Machine /\ Answered(b, m, e)
    BY <2>2, <2>3 DEF Answered, IsConnectedAt
  <2> QED BY <2>1, <2>4 DEF b
<1> HIDE DEF c
<1>5. CltTypeOK' /\ NetType'
  BY <1>0, <1>1, <1>2, <1>3, <1>4 DEF CltTypeOK, NetType, Goto, Become, PcValues
<1>6. bt'[n] = c /\ backup'[n] = c /\ cnx_time'[n] = m.cnx_time /\ Elsewhere(n, "joining")
  BY <1>0, <1>1 DEF CltTypeOK, Goto, Become, Elsewhere, Idle
<1> QED BY <1>1, <1>2, <1>4, <1>5, <1>6 DEF m

-----------------------------------------------------------------------------
(* What the steps of the server do. *)

LEMMA ClientFields ==
  ASSUME NEW m \in ClientPkt
  PROVE  /\ m.type \in {"CONNECT", "DISCONNECT", "SYNCHED", "TX"}
         /\ m.type \in {"CONNECT", "DISCONNECT", "TX"} => m.node \in Nodes
         /\ m.type = "SYNCHED" => m.rp_seq \in Nat
         /\ m.type = "TX" => m.seq \in Nat /\ m.period \in Nat /\ m.duration \in Nat
BY DEF ClientPkt

LEMMA Received ==
  ASSUME NetType, NEW type, Recv(type)
  PROVE  /\ Head(toServer) \in ClientPkt /\ Head(toServer).type = type
         /\ spc = "listen" /\ toServer # <<>>
         /\ toServer' = Tail(toServer) /\ toServer' \in Seq(ClientPkt)
BY DEF NetType, Recv

LEMMA TxIsTransmission ==
  ASSUME TypeInv, Recv("TX")
  PROVE  /\ TxOf(Head(toServer)) \in Transmission
         /\ TxOf(Head(toServer)).start >= global
         /\ TxOf(Head(toServer)).end >= TxOf(Head(toServer)).start
<1>1. Head(toServer) \in ClientPkt /\ Head(toServer).type = "TX"
  BY Received DEF TypeInv
<1>2. global \in Nat
  BY DEF TypeInv, SrvTypeOK
<1> QED BY <1>1, <1>2, ClientFields DEF TxOf, Transmission

LEMMA CharIncrType ==
  ASSUME NEW c \in Int, c <= CharMax
  PROVE  CharIncr(c) \in Int /\ CharIncr(c) <= CharMax
BY ServerAssumption DEF CharIncr

\* The nodes of got, which are members of the group, are sent the packet p.
SentTo(got, p) ==
  /\ got \subseteq joined /\ (~ Loss => got = joined)
  /\ \A n \in Nodes : mcast'[n] = IF n \in got THEN Append(mcast[n], p) ELSE mcast[n]

LEMMA MulticastEffect ==
  ASSUME NetType, NEW p \in McastPkt, Multicast(p)
  PROVE  /\ mcast' \in [Nodes -> Seq(McastPkt)]
         /\ \E got \in SUBSET joined : SentTo(got, p)
<1>1. PICK got \in (IF Loss THEN SUBSET joined ELSE {joined}) :
        mcast' = [n \in Nodes |->
                    IF n \in got THEN Append(mcast[n], p) ELSE mcast[n]]
  BY DEF Multicast
<1>2. got \in SUBSET joined /\ (~ Loss => got = joined)
  BY <1>1, LossAssumption
<1>3. \A n \in Nodes : Append(mcast[n], p) \in Seq(McastPkt) /\ mcast[n] \in Seq(McastPkt)
  BY DEF NetType
<1>4. mcast' \in [Nodes -> Seq(McastPkt)]
  BY <1>1, <1>3
<1>5. SentTo(got, p)
  BY <1>1, <1>2 DEF SentTo
<1> QED BY <1>2, <1>4, <1>5

\* The server reads a datagram and sends nothing to the group.
Reads(type) ==
  /\ spc = "listen" /\ toServer # <<>>
  /\ Head(toServer) \in ClientPkt /\ Head(toServer).type = type
  /\ toServer' = Tail(toServer) /\ (spc' = "listen" => global' = global)
  /\ UNCHANGED <<rp, rp_seq, pkt_seq, delivered, mcast, joined, cltVars>>

\* The server sends the next packet p to the group.
Sends(p) ==
  /\ p \in McastPkt /\ p.seq = pkt_seq
  /\ pkt_seq' = pkt_seq + 1
  /\ \E got \in SUBSET joined : SentTo(got, p)
  /\ UNCHANGED <<active, c_nodes, reply, joined, cltVars>>

LEMMA BarrierTypes ==
  ASSUME TypeInv, NEW c, NEW k, BarrierCheck(c, k), spc = "listen", UNCHANGED rp
  PROVE  /\ spc' \in {"listen", "core"} /\ global' \in Nat /\ global' <= rp'
         /\ (spc' = "core" => global' = rp')
         /\ (spc' = "listen" => global' = global)
BY DEF BarrierCheck, TypeInv, SrvTypeOK, Dates

LEMMA CltDates ==
  ASSUME TypeInv, UNCHANGED cltVars, SrvTypeOK', NetType', global' <= rp',
         spc' = "core" => global' = rp'
  PROVE  TypeInv'
<1>1. CltTypeOK'
  BY DEF TypeInv, CltTypeOK, cltVars
<1>2. Dates'
  BY DEF TypeInv, Dates, cltVars
<1> QED BY <1>1, <1>2 DEF TypeInv

LEMMA DisconnectTypes ==
  ASSUME TypeInv, RecvDisconnect, UNCHANGED cltVars
  PROVE  TypeInv' /\ Reads("DISCONNECT") /\ reply' = reply
<1>1. Recv("DISCONNECT") /\ UNCHANGED <<rp, rp_seq, synched, pkt_seq, delivered, reply,
                                        mcast, joined>>
  BY DEF RecvDisconnect
<1>2. /\ Head(toServer) \in ClientPkt /\ Head(toServer).type = "DISCONNECT"
      /\ spc = "listen" /\ toServer # <<>>
      /\ toServer' = Tail(toServer) /\ toServer' \in Seq(ClientPkt)
  BY <1>1, Received DEF TypeInv
<1>3. /\ spc' \in {"listen", "core", "stopped"} /\ global' \in Nat /\ global' <= rp'
      /\ (spc' = "core" => global' = rp') /\ (spc' = "listen" => global' = global)
      /\ events' \subseteq events /\ packets' \subseteq packets
  <2> DEFINE left == IF Head(toServer).node \in active THEN c_nodes - 1 ELSE c_nodes
  <2>1. CASE left = 0
    <3>1. spc' = "stopped" /\ events' = {} /\ packets' = {} /\ UNCHANGED <<global, rp>>
      BY <1>1, <2>1 DEF RecvDisconnect
    <3> QED BY <3>1 DEF TypeInv, SrvTypeOK, Dates
  <2>2. CASE left # 0
    <3>1. BarrierCheck(synched, left) /\ UNCHANGED <<events, packets>>
      BY <2>2 DEF RecvDisconnect
    <3> QED BY <1>1, <1>2, <3>1, BarrierTypes
  <2> QED BY <2>1, <2>2
<1>4. active' \subseteq active /\ c_nodes' \in Int
  BY DEF RecvDisconnect, TypeInv, SrvTypeOK
<1>5. SrvTypeOK'
  BY <1>1, <1>3, <1>4 DEF TypeInv, SrvTypeOK
<1>6. NetType'
  BY <1>1, <1>2 DEF TypeInv, NetType
<1> QED BY <1>1, <1>2, <1>3, <1>5, <1>6, CltDates DEF Reads

LEMMA ConnectTypes ==
  ASSUME TypeInv, RecvConnect, UNCHANGED cltVars
  PROVE  TypeInv' /\ Reads("CONNECT") /\ UNCHANGED <<spc, global, synched>>
<1> DEFINE n == Head(toServer).node
           refused == Append(reply[n], NoAttrAddrPkt)
           accepted == Append(reply[n], AttrAddrPkt(pkt_seq, rp - global, rp_seq, global))
<1>1. Recv("CONNECT") /\ UNCHANGED <<spc, rp, rp_seq, synched, pkt_seq, schedVars, mcast,
                                     joined>>
  BY DEF RecvConnect
<1>2. /\ Head(toServer) \in ClientPkt /\ Head(toServer).type = "CONNECT"
      /\ spc = "listen" /\ toServer # <<>>
      /\ toServer' = Tail(toServer) /\ toServer' \in Seq(ClientPkt)
  BY <1>1, Received DEF TypeInv
<1>3. n \in Nodes
  BY <1>2, ClientFields
<1>4. reply[n] \in Seq(ReplyPkt) /\ reply \in [Nodes -> Seq(ReplyPkt)]
  BY <1>3 DEF TypeInv, NetType
<1>5. NoAttrAddrPkt \in ReplyPkt
  BY DEF NoAttrAddrPkt, ReplyPkt
<1>6. AttrAddrPkt(pkt_seq, rp - global, rp_seq, global) \in ReplyPkt
  <2>1. rp - global \in Nat /\ pkt_seq \in Nat /\ rp_seq \in Nat /\ global \in Nat
    BY DEF TypeInv, SrvTypeOK, Dates
  <2> QED BY <2>1 DEF AttrAddrPkt, ReplyPkt
<1>7. refused \in Seq(ReplyPkt) /\ accepted \in Seq(ReplyPkt)
  BY <1>4, <1>5, <1>6
<1>8. reply' = [reply EXCEPT ![n] = refused] \/ reply' = [reply EXCEPT ![n] = accepted]
  BY DEF RecvConnect
<1>9. active' \subseteq Nodes /\ c_nodes' \in Int
  BY <1>3 DEF RecvConnect, TypeInv, SrvTypeOK
<1> HIDE DEF refused, accepted, n
<1>10. SrvTypeOK'
  BY <1>1, <1>9 DEF TypeInv, SrvTypeOK, schedVars
<1>11. NetType'
  BY <1>1, <1>2, <1>4, <1>7, <1>8 DEF TypeInv, NetType
<1>12. global' <= rp' /\ (spc' = "core" => global' = rp')
  BY <1>1 DEF TypeInv, Dates, schedVars
<1> QED BY <1>1, <1>2, <1>10, <1>11, <1>12, CltDates DEF Reads, schedVars

LEMMA SynchedTypes ==
  ASSUME TypeInv, RecvSynched, UNCHANGED cltVars
  PROVE  TypeInv' /\ Reads("SYNCHED") /\ UNCHANGED <<reply, active, c_nodes>>
<1>1. Recv("SYNCHED") /\ UNCHANGED <<rp, rp_seq, pkt_seq, active, c_nodes, events, packets,
                                     delivered, reply, mcast, joined>>
  BY DEF RecvSynched
<1>2. /\ Head(toServer) \in ClientPkt /\ Head(toServer).type = "SYNCHED"
      /\ spc = "listen" /\ toServer # <<>>
      /\ toServer' = Tail(toServer) /\ toServer' \in Seq(ClientPkt)
  BY <1>1, Received DEF TypeInv
<1>3. synched' \in Int /\ synched' <= CharMax
  BY CharIncrType DEF RecvSynched, TypeInv, SrvTypeOK
<1>4. /\ spc' \in {"listen", "core"} /\ global' \in Nat /\ global' <= rp'
      /\ (spc' = "core" => global' = rp') /\ (spc' = "listen" => global' = global)
  <2>1. CASE Head(toServer).rp_seq = rp_seq
    <3>1. BarrierCheck(CharIncr(synched), c_nodes)
      BY <2>1 DEF RecvSynched
    <3> QED BY <1>1, <1>2, <3>1, BarrierTypes
  <2>2. CASE Head(toServer).rp_seq # rp_seq
    <3>1. UNCHANGED <<global, spc>>
      BY <2>2 DEF RecvSynched
    <3> QED BY <1>1, <1>2, <3>1 DEF TypeInv, SrvTypeOK, Dates
  <2> QED BY <2>1, <2>2
<1>5. SrvTypeOK'
  BY <1>1, <1>3, <1>4 DEF TypeInv, SrvTypeOK
<1>6. NetType'
  BY <1>1, <1>2 DEF TypeInv, NetType
<1> QED BY <1>1, <1>2, <1>4, <1>5, <1>6, CltDates DEF Reads

LEMMA TxTypes ==
  ASSUME TypeInv, RecvTxDropped \/ RecvTxAccepted, UNCHANGED cltVars
  PROVE  /\ TypeInv' /\ Reads("TX")
         /\ UNCHANGED <<spc, global, synched, reply, active, c_nodes>>
<1>1. Recv("TX") /\ UNCHANGED <<spc, global, rp, rp_seq, synched, pkt_seq, active, c_nodes,
                                delivered, reply, mcast, joined>>
  BY DEF RecvTxDropped, RecvTxAccepted, srvVars
<1>2. /\ Head(toServer) \in ClientPkt /\ Head(toServer).type = "TX"
      /\ spc = "listen" /\ toServer # <<>>
      /\ toServer' = Tail(toServer) /\ toServer' \in Seq(ClientPkt)
  BY <1>1, Received DEF TypeInv
<1>3. events' \subseteq Transmission /\ packets' \subseteq Transmission
  <2>1. TxOf(Head(toServer)) \in Transmission
    BY <1>1, TxIsTransmission
  <2> QED BY <2>1 DEF RecvTxDropped, RecvTxAccepted, srvVars, TypeInv, SrvTypeOK
<1>4. SrvTypeOK'
  BY <1>1, <1>3 DEF TypeInv, SrvTypeOK
<1>5. NetType'
  BY <1>1, <1>2 DEF TypeInv, NetType
<1>6. global' <= rp' /\ (spc' = "core" => global' = rp')
  BY <1>1 DEF TypeInv, Dates
<1> QED BY <1>1, <1>2, <1>4, <1>5, <1>6, CltDates DEF Reads

\* The packet of a backtrack to the end of the byte the server has read.
BacktrackTo == BacktrackPkt(pkt_seq, TxOf(Head(toServer)).end - global, rp_seq + 1)

LEMMA BacktrackTypes ==
  ASSUME TypeInv, RecvTxBacktrack, UNCHANGED cltVars
  PROVE  /\ TypeInv' /\ spc = "listen" /\ spc' = "listen" /\ toServer # <<>>
         /\ Head(toServer).type = "TX" /\ toServer' = Tail(toServer)
         /\ Sends(BacktrackTo)
         /\ rp_seq' = rp_seq + 1 /\ synched' = 0 /\ rp' = TxOf(Head(toServer)).end
         /\ rp' < rp /\ UNCHANGED <<global, delivered>>
<1> DEFINE t == TxOf(Head(toServer))
<1>1. /\ Recv("TX") /\ t.end < rp /\ rp_seq' = rp_seq + 1 /\ rp' = t.end
      /\ synched' = 0 /\ events' = StartedBy(events \cup {t}, t.end)
      /\ packets' = StartedBy(packets \cup {t}, t.end)
      /\ pkt_seq' = pkt_seq + 1
      /\ Multicast(BacktrackPkt(pkt_seq, t.end - global, rp_seq + 1))
      /\ UNCHANGED <<spc, global, active, c_nodes, delivered, reply, joined>>
  BY DEF RecvTxBacktrack
<1>2. /\ Head(toServer) \in ClientPkt /\ Head(toServer).type = "TX"
      /\ spc = "listen" /\ toServer # <<>>
      /\ toServer' = Tail(toServer) /\ toServer' \in Seq(ClientPkt)
  BY <1>1, Received DEF TypeInv
<1>3. t \in Transmission /\ t.start >= global /\ t.end >= t.start
  BY <1>1, TxIsTransmission
<1>4. BacktrackTo = BacktrackPkt(pkt_seq, t.end - global, rp_seq + 1)
  BY DEF BacktrackTo
<1> HIDE DEF t
<1>5. /\ global \in Nat /\ rp_seq \in Nat /\ pkt_seq \in Nat /\ rp \in Nat
      /\ t.end \in Nat /\ t.start \in Nat
  BY <1>3 DEF Transmission, TypeInv, SrvTypeOK
<1>6. BacktrackTo \in McastPkt /\ BacktrackTo.seq = pkt_seq
  BY <1>3, <1>4, <1>5 DEF BacktrackPkt, McastPkt
<1>7. events' \subseteq Transmission /\ packets' \subseteq Transmission
  BY <1>1, <1>3 DEF StartedBy, TypeInv, SrvTypeOK
<1>8. SrvTypeOK'
  <2>1. /\ rp' \in Nat /\ rp_seq' \in Nat /\ pkt_seq' \in Nat
        /\ synched' = 0 /\ 0 <= CharMax
        /\ UNCHANGED <<spc, global, active, c_nodes, delivered>>
    BY <1>1, <1>5, ServerAssumption
  <2> QED BY <1>7, <2>1 DEF TypeInv, SrvTypeOK
<1>9. mcast' \in [Nodes -> Seq(McastPkt)] /\ \E got \in SUBSET joined : SentTo(got, BacktrackTo)
  BY <1>1, <1>4, <1>6, MulticastEffect DEF TypeInv
<1>10. NetType'
  BY <1>1, <1>2, <1>9 DEF TypeInv, NetType
<1>11. global' <= rp' /\ spc' # "core"
  BY <1>1, <1>2, <1>3, <1>5
<1> QED BY <1>1, <1>2, <1>6, <1>8, <1>9, <1>10, <1>11, CltDates DEF Sends, t

\* The packet p carries the byte that is delivered.
Delivers(p) ==
  IF p.type \in RxTypes
    THEN \E e \in Transmission : /\ delivered' = Append(delivered, e)
                                 /\ p.tx = <<e.node, e.seq>> /\ p.to = active
    ELSE delivered' = delivered

\* The packet p releases the nodes from the rendez-vous.
Releases(p) ==
  /\ spc = "core" /\ spc' = "listen" /\ Sends(p) /\ Delivers(p)
  /\ p.type \in ReleaseTypes /\ p.c_rp_seq = rp_seq /\ p.n_rp_seq = rp_seq + 1
  /\ rp' = global + p.period /\ rp_seq' = rp_seq + 1 /\ synched' = 0
  /\ UNCHANGED <<global, toServer>>

Hands(p) ==
  /\ spc = "core" /\ spc' = "core" /\ Sends(p) /\ Delivers(p) /\ p.type = "RX"
  /\ UNCHANGED <<global, rp, rp_seq, synched, toServer>>

Desynchronizes ==
  /\ spc = "core" /\ spc' = "desync"
  /\ UNCHANGED <<global, rp, rp_seq, synched, pkt_seq, active, c_nodes, delivered,
                 netVars, cltVars>>

LEMMA SaveRelTypes ==
  ASSUME TypeInv, spc = "core", NEW d \in Nat, SaveReleaseRequest(d),
         UNCHANGED <<schedVars, active, c_nodes, toServer, reply, joined, cltVars>>
  PROVE  TypeInv' /\ \E p \in McastPkt : Releases(p)
<1> DEFINE p == SaveRelPkt(pkt_seq, rp_seq, rp_seq + 1, d)
<1>1. /\ rp' = global + d /\ rp_seq' = rp_seq + 1 /\ synched' = 0
      /\ pkt_seq' = pkt_seq + 1 /\ spc' = "listen" /\ Multicast(p)
  BY DEF SaveReleaseRequest, NextRendezVous
<1>2. global \in Nat /\ rp_seq \in Nat /\ pkt_seq \in Nat
  BY DEF TypeInv, SrvTypeOK
<1>3. /\ p \in McastPkt /\ p.type = "SYNCH_REQ" /\ p.seq = pkt_seq /\ p.period = d
      /\ p.c_rp_seq = rp_seq /\ p.n_rp_seq = rp_seq + 1
  BY <1>2 DEF SaveRelPkt, McastPkt
<1> HIDE DEF p
<1>4. mcast' \in [Nodes -> Seq(McastPkt)] /\ \E got \in SUBSET joined : SentTo(got, p)
  BY <1>1, <1>3, MulticastEffect DEF TypeInv
<1>5. SrvTypeOK'
  BY <1>1, <1>2, ServerAssumption DEF TypeInv, SrvTypeOK, schedVars
<1>6. NetType'
  BY <1>4 DEF TypeInv, NetType
<1>7. global' <= rp' /\ spc' # "core"
  BY <1>1, <1>2 DEF schedVars
<1>8. TypeInv'
  BY <1>5, <1>6, <1>7, CltDates
<1>9. Sends(p) /\ Delivers(p)
  BY <1>1, <1>3, <1>4 DEF Sends, Delivers, RxTypes, schedVars
<1> QED BY <1>1, <1>3, <1>8, <1>9 DEF Releases, ReleaseTypes, schedVars

\* What the delivery of a byte leaves alone, and the byte it adds.
Handing(e) ==
  /\ e \in events /\ delivered' = Append(delivered, e)
  /\ events' \subseteq events /\ packets' \subseteq packets
  /\ UNCHANGED <<global, active, c_nodes, toServer, reply, joined, cltVars>>

LEMMA SrRxTypes ==
  ASSUME TypeInv, spc = "core", NEW d \in Nat, NEW e, Handing(e), SaveReleaseRequestRx(e, d)
  PROVE  TypeInv' /\ \E p \in McastPkt : Releases(p)
<1> DEFINE p == SrRxPkt(pkt_seq, rp_seq, rp_seq + 1, d, <<e.node, e.seq>>, active)
<1>1. /\ rp' = global + d /\ rp_seq' = rp_seq + 1 /\ synched' = 0
      /\ pkt_seq' = pkt_seq + 1 /\ spc' = "listen" /\ Multicast(p)
  BY DEF SaveReleaseRequestRx, NextRendezVous
<1>2. /\ global \in Nat /\ rp_seq \in Nat /\ pkt_seq \in Nat
      /\ e \in Transmission /\ e.node \in Nodes /\ e.seq \in Nat /\ active \subseteq Nodes
      /\ delivered \in Seq(Transmission)
  BY DEF TypeInv, SrvTypeOK, Handing, Transmission
<1>3. /\ p \in McastPkt /\ p.type = "SYNCH_REQ_RX" /\ p.seq = pkt_seq /\ p.period = d
      /\ p.c_rp_seq = rp_seq /\ p.n_rp_seq = rp_seq + 1
      /\ p.tx = <<e.node, e.seq>> /\ p.to = active
  BY <1>2 DEF SrRxPkt, McastPkt
<1> HIDE DEF p
<1>4. mcast' \in [Nodes -> Seq(McastPkt)] /\ \E got \in SUBSET joined : SentTo(got, p)
  BY <1>1, <1>3, MulticastEffect DEF TypeInv
<1>5. SrvTypeOK'
  <2>1. /\ rp' \in Nat /\ rp_seq' \in Nat /\ pkt_seq' \in Nat
        /\ synched' = 0 /\ 0 <= CharMax /\ spc' = "listen"
        /\ delivered' \in Seq(Transmission)
        /\ UNCHANGED <<global, active, c_nodes>>
    BY <1>1, <1>2, ServerAssumption DEF Handing
  <2>2. events' \subseteq Transmission /\ packets' \subseteq Transmission
    BY DEF Handing, TypeInv, SrvTypeOK
  <2> QED BY <2>1, <2>2 DEF TypeInv, SrvTypeOK
<1>6. NetType'
  BY <1>4 DEF TypeInv, NetType, Handing
<1>7. global' <= rp' /\ spc' # "core"
  BY <1>1, <1>2 DEF Handing
<1>8. TypeInv'
  BY <1>5, <1>6, <1>7, CltDates DEF Handing
<1>9. Sends(p) /\ Delivers(p)
  BY <1>1, <1>2, <1>3, <1>4 DEF Sends, Delivers, RxTypes, Handing
<1> QED BY <1>1, <1>3, <1>8, <1>9 DEF Releases, ReleaseTypes, Handing

LEMMA SendRxTypes ==
  ASSUME TypeInv, spc = "core", NEW e, Handing(e), SendRx(e)
  PROVE  TypeInv' /\ \E p \in McastPkt : Hands(p)
<1> DEFINE p == RxPkt(pkt_seq, <<e.node, e.seq>>, active)
<1>1. pkt_seq' = pkt_seq + 1 /\ Multicast(p) /\ UNCHANGED <<spc, rp, rp_seq, synched>>
  BY DEF SendRx
<1>2. /\ pkt_seq \in Nat /\ e \in Transmission /\ e.node \in Nodes /\ e.seq \in Nat
      /\ active \subseteq Nodes /\ delivered \in Seq(Transmission)
  BY DEF TypeInv, SrvTypeOK, Handing, Transmission
<1>3. /\ p \in McastPkt /\ p.type = "RX" /\ p.seq = pkt_seq
      /\ p.tx = <<e.node, e.seq>> /\ p.to = active
  BY <1>2 DEF RxPkt, McastPkt
<1> HIDE DEF p
<1>4. mcast' \in [Nodes -> Seq(McastPkt)] /\ \E got \in SUBSET joined : SentTo(got, p)
  BY <1>1, <1>3, MulticastEffect DEF TypeInv
<1>5. SrvTypeOK'
  <2>1. /\ pkt_seq' \in Nat /\ delivered' \in Seq(Transmission)
        /\ UNCHANGED <<spc, rp, rp_seq, synched, global, active, c_nodes>>
    BY <1>1, <1>2 DEF Handing
  <2>2. events' \subseteq Transmission /\ packets' \subseteq Transmission
    BY DEF Handing, TypeInv, SrvTypeOK
  <2> QED BY <2>1, <2>2 DEF TypeInv, SrvTypeOK
<1>6. NetType'
  BY <1>4 DEF TypeInv, NetType, Handing
<1>7. global' <= rp' /\ (spc' = "core" => global' = rp')
  BY <1>1 DEF Handing, TypeInv, Dates
<1>8. TypeInv'
  BY <1>5, <1>6, <1>7, CltDates DEF Handing
<1>9. Sends(p) /\ Delivers(p)
  BY <1>1, <1>2, <1>3, <1>4 DEF Sends, Delivers, RxTypes, Handing
<1> QED BY <1>1, <1>3, <1>8, <1>9 DEF Hands, Handing

LEMMA CoreTypes ==
  ASSUME TypeInv, SrvCore, UNCHANGED cltVars
  PROVE  /\ TypeInv'
         /\ \/ \E p \in McastPkt : Releases(p) \/ Hands(p)
            \/ Desynchronizes
<1>0. /\ SrvTypeOK /\ global \in Nat /\ events \subseteq Transmission
      /\ \A e \in events : e.end \in Nat
  BY DEF TypeInv, SrvTypeOK, Transmission
<1>1. CASE CoreIdle
  <2>1. SYNCH_PERIOD \in Nat
    BY ServerAssumption
  <2> QED BY <1>1, <2>1, SaveRelTypes DEF CoreIdle
<1>2. CASE CoreWait
  <2>1. PICK e \in events : global < e.end /\ SaveReleaseRequest(e.end - global)
    BY <1>2 DEF CoreWait
  <2>2. e.end - global \in Nat
    BY <1>0, <2>1
  <2> QED BY <1>2, <2>1, <2>2, SaveRelTypes DEF CoreWait
<1>3. CASE CoreTx
  <2>1. PICK e \in events :
          /\ e.end <= global
          /\ IF e.end = global
               THEN Handed(e)
               ELSE /\ spc' = "desync"
                    /\ UNCHANGED <<rp, rp_seq, synched, pkt_seq, events, packets,
                                   delivered, mcast>>
    BY <1>3 DEF CoreTx
  <2>2. spc = "core" /\ UNCHANGED <<global, active, c_nodes, toServer, reply, joined>>
    BY <1>3 DEF CoreTx
  <2>3. CASE e.end = global
    <3>1. Handed(e)
      BY <2>1, <2>3
    <3>2. Handing(e)
      BY <2>2, <3>1 DEF Handed, Handing, StillInTheAir
    <3>3. CASE events' = {}
      <4>1. SaveReleaseRequestRx(e, MAGIC) /\ MAGIC \in Nat
        BY <3>1, <3>3, ServerAssumption DEF Handed
      <4> QED BY <2>2, <3>2, <4>1, SrRxTypes
    <3>4. CASE events' # {}
      <4>1. PICK f \in events' :
              IF f.end > global THEN SaveReleaseRequestRx(e, f.end - global)
                                ELSE SendRx(e)
        BY <3>1, <3>4 DEF Handed
      <4>2. f.end \in Nat
        BY <1>0, <3>2 DEF Handing
      <4>3. CASE f.end > global
        <5>1. f.end - global \in Nat
          BY <1>0, <4>2, <4>3
        <5> QED BY <2>2, <3>2, <4>1, <4>3, <5>1, SrRxTypes
      <4>4. CASE ~ (f.end > global)
        BY <2>2, <3>2, <4>1, <4>4, SendRxTypes
      <4> QED BY <4>3, <4>4
    <3> QED BY <3>3, <3>4
  <2>4. CASE e.end # global
    <3>1. /\ spc' = "desync"
          /\ UNCHANGED <<rp, rp_seq, synched, pkt_seq, events, packets, delivered, mcast>>
      BY <2>1, <2>4
    <3>2. SrvTypeOK' /\ NetType'
      BY <2>2, <3>1 DEF TypeInv, SrvTypeOK, NetType
    <3>3. global' <= rp' /\ spc' # "core"
      BY <2>2, <3>1 DEF TypeInv, Dates
    <3> QED BY <2>2, <3>1, <3>2, <3>3, CltDates DEF Desynchronizes, netVars
  <2> QED BY <2>3, <2>4
<1> QED BY <1>1, <1>2, <1>3 DEF SrvCore

-----------------------------------------------------------------------------
(* Types are kept by every step. *)

LEMMA OthersDates ==
  ASSUME TypeInv, CltTypeOK', NetType', UNCHANGED srvVars, NEW n \in Nodes,
         \A m \in Nodes \ {n} : Idle(m),
         bt'[n].last_rp <= bt'[n].now, backup'[n].last_rp <= backup'[n].now
  PROVE  TypeInv'
<1>1. Dates'
  BY DEF TypeInv, Dates, Idle, srvVars
<1>2. SrvTypeOK'
  BY DEF TypeInv, SrvTypeOK, srvVars
<1> QED BY <1>1, <1>2 DEF TypeInv

LEMMA NodeDates ==
  ASSUME TypeInv, NEW n \in Nodes
  PROVE  /\ bt[n] \in Machine /\ backup[n] \in Machine
         /\ bt[n].last_rp <= bt[n].now /\ backup[n].last_rp <= backup[n].now
         /\ bt[n].now \in Nat /\ bt[n].last_rp \in Nat
         /\ backup[n].now \in Nat /\ backup[n].last_rp \in Nat
BY MachineFields DEF TypeInv, CltTypeOK, Dates

LEMMA LocalDates ==
  ASSUME TypeInv, NEW n \in Nodes, Local(n)
  PROVE  TypeInv'
<1>1. CltTypeOK' /\ NetType' /\ UNCHANGED <<srvVars, backup>> /\ \A m \in Nodes \ {n} : Idle(m)
  BY DEF Local
<1>2. bt'[n].now \in Nat
  BY <1>1, MachineFields DEF CltTypeOK
<1>3. bt'[n].last_rp = bt[n].last_rp /\ bt[n].now <= bt'[n].now
  BY DEF Local, SameView
<1>4. bt'[n].last_rp <= bt'[n].now
  BY <1>2, <1>3, NodeDates
<1> QED BY <1>1, <1>4, NodeDates, OthersDates

\* What was last saved is not ahead of the date it was saved at.
LEMMA ParsedToDates ==
  ASSUME NEW n \in Nodes, NEW b \in Machine, NEW s \in Machine, NEW m \in McastPkt,
         NEW c \in Machine, NEW t \in Machine, ParsedTo(n, b, s, m, c, t),
         b.last_rp <= b.now, s.last_rp <= s.now
  PROVE  c.last_rp <= c.now /\ t.last_rp <= t.now
<1>0. b.now \in Nat
  BY MachineFields
<1>1. CASE t = s /\ Moved(IF b.now > b.last_rp + m.period THEN s ELSE b, m, c)
  <2>1. CASE b.now > b.last_rp + m.period
    BY <1>1, <2>1 DEF Moved
  <2>2. CASE ~ (b.now > b.last_rp + m.period)
    BY <1>1, <2>2 DEF Moved
  <2> QED BY <2>1, <2>2
<1>2. CASE Takes(n, b, m, c) /\ Leaves(b, m, c) /\ t = c
  BY <1>0, <1>2 DEF Takes, Leaves
<1>3. CASE Takes(n, b, m, c) /\ Stays(b, c) /\ t = s
  BY <1>3 DEF Takes, Stays
<1> QED BY <1>1, <1>2, <1>3 DEF ParsedTo

LEMMA BeforeDates ==
  ASSUME TypeInv, NEW n \in Nodes
  PROVE  Before(n) \in Machine /\ Before(n).last_rp <= Before(n).now
<1>1. /\ Before(n) \in Machine /\ SameView(bt[n], Before(n))
      /\ bt[n].now <= Before(n).now
  BY BeforeIs DEF TypeInv
<1>2. Before(n).now \in Nat
  BY <1>1, MachineFields
<1> QED BY <1>1, <1>2, NodeDates DEF SameView

LEMMA ParsedDates ==
  ASSUME TypeInv, NEW n \in Nodes, Parsed(n)
  PROVE  TypeInv'
<1>1. /\ CltTypeOK' /\ NetType' /\ UNCHANGED srvVars /\ \A m \in Nodes \ {n} : Idle(m)
      /\ mcast[n] # <<>>
  BY DEF Parsed
<1>2. PICK c \in Machine : ParsedAs(n, Before(n), Head(mcast[n]), c)
  BY DEF Parsed
<1>3. backup'[n] \in Machine
  BY <1>1 DEF CltTypeOK
<1>4. Head(mcast[n]) \in McastPkt
  BY <1>1, HeadIs DEF TypeInv
<1>5. c.last_rp <= c.now /\ backup'[n].last_rp <= backup'[n].now
  <2>1. CASE Head(mcast[n]).seq = Before(n).rx_pkt_seq
    <3>1. ParsedTo(n, Before(n), backup[n], Head(mcast[n]), c, backup'[n])
      BY <1>2, <2>1 DEF ParsedAs
    <3> QED BY <1>3, <1>4, <3>1, BeforeDates, NodeDates, ParsedToDates
  <2>2. CASE Head(mcast[n]).seq # Before(n).rx_pkt_seq
    <3>1. c = Before(n) /\ backup'[n] = backup[n]
      BY <1>2, <2>2 DEF ParsedAs
    <3> QED BY <3>1, BeforeDates, NodeDates
  <2> QED BY <2>1, <2>2
<1>6. bt'[n].last_rp = c.last_rp /\ bt'[n].now = c.now
  BY <1>2 DEF ParsedAs, SameMoment, SameView
<1> QED BY <1>1, <1>5, <1>6, OthersDates

\* A node that connects, joins, stops or leaves.
Comes(n) == Connect(n) \/ Connected(n) \/ Refused(n) \/ Join(n)
Goes(n)  == Close(n) \/ Quit(n)

LEMMA ComesTypes ==
  ASSUME TypeInv, NEW n \in Nodes, Comes(n) \/ Goes(n) \/ StopAndRun(n), UNCHANGED srvVars
  PROVE  TypeInv'
<1>0. /\ bt[n].last_rp <= bt[n].now /\ backup[n].last_rp <= backup[n].now
      /\ bt[n].now \in Nat
  BY NodeDates
<1>1. CASE Connect(n)
  <2>1. CltTypeOK' /\ NetType' /\ UNCHANGED <<bt, backup>> /\ \A m \in Nodes \ {n} : Idle(m)
    BY <1>1, ConnectStep DEF Elsewhere
  <2> QED BY <1>0, <2>1, OthersDates
<1>2. CASE Connected(n)
  <2>1. /\ CltTypeOK' /\ NetType' /\ \A m \in Nodes \ {n} : Idle(m)
        /\ Answered(bt[n], Head(reply[n]), bt'[n]) /\ backup'[n] = bt'[n]
    BY <1>2, ConnectedStep DEF Elsewhere
  <2>2. bt'[n].last_rp <= bt'[n].now
    BY <1>0, <2>1 DEF Answered
  <2> QED BY <2>1, <2>2, OthersDates
<1>3. CASE Refused(n)
  <2>1. CltTypeOK' /\ NetType' /\ UNCHANGED <<bt, backup>> /\ \A m \in Nodes \ {n} : Idle(m)
    BY <1>3, RefusedStep DEF Elsewhere
  <2> QED BY <1>0, <2>1, OthersDates
<1>4. CASE Join(n)
  <2>1. CltTypeOK' /\ NetType' /\ UNCHANGED <<bt, backup>> /\ \A m \in Nodes \ {n} : Idle(m)
    BY <1>4, JoinStep DEF Elsewhere
  <2> QED BY <1>0, <2>1, OthersDates
<1>5. CASE Goes(n)
  <2>1. CltTypeOK' /\ NetType' /\ UNCHANGED <<bt, backup>> /\ \A m \in Nodes \ {n} : Idle(m)
    BY <1>5, LeaveStep DEF Elsewhere, Goes, Close, Quit
  <2> QED BY <1>0, <2>1, OthersDates
<1>6. CASE StopAndRun(n)
  <2>1. /\ CltTypeOK' /\ NetType' /\ UNCHANGED bt /\ \A m \in Nodes \ {n} : Idle(m)
        /\ backup' = [backup EXCEPT ![n] = bt[n]]
    BY <1>6, StopStep DEF Elsewhere
  <2>2. backup'[n] = bt[n]
    BY <2>1 DEF TypeInv, CltTypeOK
  <2> QED BY <1>0, <2>1, <2>2, OthersDates
<1> QED BY <1>1, <1>2, <1>3, <1>4, <1>5, <1>6 DEF Comes

LEMMA NodeStep ==
  ASSUME TypeInv, NEW n \in Nodes, CltStep(n) \/ CltUser(n), UNCHANGED srvVars
  PROVE  Local(n) \/ Parsed(n) \/ Comes(n) \/ Goes(n) \/ StopAndRun(n)
<1>1. CASE UpdateWait(n) \/ UpdateNothing(n) \/ UpdateSynched(n) \/ Transmit(n)
  BY <1>1, WaitStep, NothingStep, SynchedStep, TransmitStep
<1>2. CASE UpdatePacket(n) \/ SynchedPacket(n) \/ TxPacket(n)
  BY <1>2, PacketStep, SynchedPacketStep, TxPacketStep
<1>3. CASE Comes(n) \/ Goes(n) \/ StopAndRun(n)
  BY <1>3
<1> QED BY <1>1, <1>2, <1>3 DEF CltStep, CltUser, Comes, Goes

LEMMA InitTypes == Init => TypeInv
<1> SUFFICES ASSUME Init PROVE TypeInv
  OBVIOUS
<1>1. SrvTypeOK
  BY ServerAssumption DEF Init, SrvInit, SrvTypeOK
<1>2. PowerOn \in Machine
  BY DEF PowerOn, Machine
<1>3. CltTypeOK
  BY <1>2 DEF Init, CltInit, CltTypeOK, PcValues
<1>4. NetType
  BY DEF Init, NetInit, NetType
<1>5. Dates
  <2>1. PowerOn.last_rp <= PowerOn.now
    BY DEF PowerOn
  <2> QED BY <2>1, ServerAssumption DEF Init, CltInit, SrvInit, Dates
<1> QED BY <1>1, <1>3, <1>4, <1>5 DEF TypeInv

LEMMA NextTypes == TypeInv /\ [Next]_vars => TypeInv'
<1> SUFFICES ASSUME TypeInv, [Next]_vars PROVE TypeInv'
  OBVIOUS
<1>1. CASE Server
  <2>1. UNCHANGED cltVars /\ SrvNext
    BY <1>1 DEF Server
  <2>2. CASE SrvCore
    BY <2>1, <2>2, CoreTypes
  <2>3. CASE SrvListen
    BY <2>1, <2>3, DisconnectTypes, ConnectTypes, SynchedTypes, TxTypes, BacktrackTypes
       DEF SrvListen
  <2> QED BY <2>1, <2>2, <2>3 DEF SrvNext
<1>2. ASSUME NEW n \in Nodes, Node(n) \/ User(n)
      PROVE  TypeInv'
  <2>1. UNCHANGED srvVars /\ (CltStep(n) \/ CltUser(n))
    BY <1>2 DEF Node, User
  <2>2. CASE Local(n)
    BY <2>2, LocalDates
  <2>3. CASE Parsed(n)
    BY <2>3, ParsedDates
  <2>4. CASE Comes(n) \/ Goes(n) \/ StopAndRun(n)
    BY <2>1, <2>4, ComesTypes
  <2> QED BY <2>1, <2>2, <2>3, <2>4, NodeStep
<1>3. CASE UNCHANGED vars
  <2>1. UNCHANGED <<srvVars, cltVars, netVars>>
    BY <1>3 DEF vars
  <2>2. SrvTypeOK' /\ CltTypeOK' /\ NetType' /\ Dates'
    BY <2>1 DEF TypeInv, SrvTypeOK, srvVars, CltTypeOK, cltVars, NetType, netVars, Dates
  <2> QED BY <2>2 DEF TypeInv
<1> QED BY <1>1, <1>2, <1>3 DEF Next, Finished

LEMMA TypesAlways == Spec => []TypeInv
<1>1. Init => TypeInv
  BY InitTypes
<1>2. TypeInv /\ [Next]_vars => TypeInv'
  BY NextTypes
<1> QED BY <1>1, <1>2, PTL DEF Spec

\* Whatever the number of nodes, their programs and the losses, every variable
\* of the simulation keeps its type.
THEOREM TypeCorrect == Spec => []TypeOK
<1>1. TypeInv => TypeOK
  BY DEF TypeInv, TypeOK, NetType
<1> QED BY <1>1, TypesAlways, PTL

-----------------------------------------------------------------------------
(* The group, and who is connected. *)

Inside(n) == Live(n) \/ pc[n] = "joining"

Member(n) ==
  /\ n \in joined <=> Live(n)
  /\ n \notin joined => mcast[n] = <<>>
  /\ Inside(n) => n \in active
  /\ pc[n] \in {"off", "connecting"} => bt[n] = PowerOn
  /\ \A i \in 1..Len(reply[n]) :
       reply[n][i].type = "ATTRADDR" /\ pc[n] # "closed" => n \in active
  /\ \A i \in 1..Len(toServer) :
       toServer[i].type = "DISCONNECT" /\ toServer[i].node = n => pc[n] = "closed"

Members == \A n \in Nodes : Member(n)

\* What a CONNECT is answered.
Answers(n) ==
  /\ \A m \in Nodes \ {n} : reply'[m] = reply[m]
  /\ active \subseteq active'
  /\ \/ reply'[n] = Append(reply[n], NoAttrAddrPkt)
     \/ /\ reply'[n] = Append(reply[n], AttrAddrPkt(pkt_seq, rp - global, rp_seq, global))
        /\ n \in active'

LEMMA ConnectAnswers ==
  ASSUME TypeInv, RecvConnect
  PROVE  Head(toServer).node \in Nodes /\ Answers(Head(toServer).node)
<1>1. Recv("CONNECT")
  BY DEF RecvConnect
<1>2. Head(toServer).node \in Nodes
  BY <1>1, Received, ClientFields DEF TypeInv
<1> QED BY <1>2 DEF RecvConnect, Answers, TypeInv, NetType

-----------------------------------------------------------------------------
(* The trail. *)

\* What is known after some number of packets: the index of the rendez-vous,
\* its distance from the last one, the bytes delivered, and those that had
\* been delivered when the last release was sent, which every node saves.
Mark == [rp : Nat, dist : Nat, dlv : Nat, sav : Nat]

Tag(e) == <<e.node, e.seq>>

\* The packet m leads from a to z.
Carries(m, a, z) ==
  /\ m.type = "RX" => z.rp = a.rp /\ z.dist = a.dist /\ z.sav = a.sav
  /\ m.type \in RxTypes => z.dlv = a.dlv + 1 /\ m.tx = Tag(delivered[z.dlv])
  /\ m.type \notin RxTypes => z.dlv = a.dlv
  /\ m.type \in ReleaseTypes => m.c_rp_seq = a.rp /\ m.n_rp_seq = z.rp /\ z.sav = z.dlv
  /\ m.type = "BACKTRACK" => /\ m.rp_seq = z.rp /\ z.dist < a.dist
                             /\ z.sav = a.sav /\ a.dlv = a.sav
  /\ m.type # "RX" => m.period = z.dist /\ z.rp = a.rp + 1

ServerTrail(T) ==
  /\ T[pkt_seq].rp = rp_seq /\ T[pkt_seq].dlv = Len(delivered)
  /\ spc = "listen" => T[pkt_seq].dist = rp - global /\ T[pkt_seq].sav = Len(delivered)
  /\ \A k \in 0..pkt_seq :
       T[k].sav <= T[k].dlv /\ T[k].dlv <= Len(delivered) /\ T[k].rp <= rp_seq

InBox(T, n) ==
  \A i \in 1..Len(mcast[n]) :
    /\ mcast[n][i].seq < pkt_seq
    /\ Carries(mcast[n][i], T[mcast[n][i].seq], T[mcast[n][i].seq + 1])
    /\ mcast[n][i].type \in RxTypes => n \in mcast[n][i].to

InReply(T, n) ==
  \A i \in 1..Len(reply[n]) : reply[n][i].type = "ATTRADDR" =>
    /\ reply[n][i].seq <= pkt_seq
    /\ reply[n][i].rp_seq = T[reply[n][i].seq].rp
    /\ reply[n][i].period = T[reply[n][i].seq].dist

\* g holds the last bytes of the k first ones.
Heard(g, k) ==
  Len(g) <= k /\ \A i \in 1..Len(g) : g[i].tx = Tag(delivered[k - Len(g) + i])

\* The state b of a node and its copy s are at the mark t.
At(b, s, t) ==
  /\ b.rp_seq = t.rp /\ b.next_rp = b.last_rp + t.dist /\ s.last_rp = b.last_rp
  /\ Heard(b.got, t.dlv) /\ \E k \in t.sav..t.dlv : Heard(s.got, k)

Knows(T, n) == bt[n].rx_pkt_seq <= pkt_seq /\ At(bt[n], backup[n], T[bt[n].rx_pkt_seq])

NodeTrail(T, n) == InBox(T, n) /\ InReply(T, n) /\ (Inside(n) => Knows(T, n))

Follows(T) == ServerTrail(T) /\ \A n \in Nodes : NodeTrail(T, n)

LEMMA HeardLater ==
  ASSUME NEW g \in Seq(Got), NEW k \in Nat, k <= Len(delivered), Heard(g, k),
         delivered \in Seq(Transmission),
         delivered' = delivered \/ \E e \in Transmission : delivered' = Append(delivered, e)
  PROVE  Heard(g, k)'
<1>1. \A j \in 1..Len(delivered) : delivered'[j] = delivered[j]
  OBVIOUS
<1>2. \A i \in 1..Len(g) : k - Len(g) + i \in 1..Len(delivered)
  BY DEF Heard
<1> QED BY <1>1, <1>2 DEF Heard

LEMMA HeardNext ==
  ASSUME NEW g \in Seq(Got), NEW k \in Nat, Heard(g, k), NEW x \in Got,
         x.tx = Tag(delivered[k + 1])
  PROVE  Heard(Append(g, x), k + 1)
<1> DEFINE h == Append(g, x)
<1>1. /\ Len(h) = Len(g) + 1 /\ h[Len(g) + 1] = x /\ Len(g) \in Nat
      /\ \A i \in 1..Len(g) : h[i] = g[i]
  OBVIOUS
<1> HIDE DEF h
<1>2. ASSUME NEW i \in 1..Len(h)
      PROVE  h[i].tx = Tag(delivered[(k + 1) - Len(h) + i])
  <2>1. (k + 1) - Len(h) + i = k - Len(g) + i
    BY <1>1
  <2>2. CASE i \in 1..Len(g)
    BY <1>1, <2>1, <2>2 DEF Heard
  <2>3. CASE i = Len(g) + 1
    BY <1>1, <2>1, <2>3
  <2> QED BY <1>1, <2>2, <2>3
<1>3. Len(h) <= k + 1
  BY <1>1 DEF Heard
<1> QED BY <1>2, <1>3 DEF Heard, h

\* Only what a node knows of the simulation matters to its mark.
LEMMA AtSameView ==
  ASSUME NEW b, NEW c, NEW s, NEW t, SameView(b, c), At(b, s, t)
  PROVE  At(c, s, t)
BY DEF At, SameView

LEMMA TakenHeard ==
  ASSUME NEW n \in Nodes, NEW b \in Machine, NEW m \in McastPkt, NEW a \in Mark,
         NEW z \in Mark, Carries(m, a, z), m.type \in RxTypes => n \in m.to,
         Heard(b.got, a.dlv)
  PROVE  Heard(Taken(n, b, m), z.dlv)
<1>1. a.dlv \in Nat /\ b.got \in Seq(Got) /\ b.now \in Nat
  BY MachineFields DEF Mark
<1>2. CASE m.type \in RxTypes
  <2> DEFINE x == [tx |-> m.tx, at |-> b.now]
  <2>1. m.tx \in Nodes \X Nat
    BY <1>2, McastFields
  <2>2. x \in Got /\ x.tx = m.tx
    BY <1>1, <2>1 DEF Got
  <2>3. z.dlv = a.dlv + 1 /\ m.tx = Tag(delivered[z.dlv])
    BY <1>2 DEF Carries
  <2>4. Taken(n, b, m) = Append(b.got, x)
    BY <1>2 DEF Taken
  <2> HIDE DEF x
  <2> QED BY <1>1, <2>2, <2>3, <2>4, HeardNext
<1>3. CASE m.type \notin RxTypes
  BY <1>3 DEF Taken, Carries
<1> QED BY <1>2, <1>3

LEMMA ParsedAt ==
  ASSUME NEW n \in Nodes, NEW b \in Machine, NEW s \in Machine, NEW m \in McastPkt,
         NEW c \in Machine, NEW t \in Machine, ParsedTo(n, b, s, m, c, t),
         NEW a \in Mark, NEW z \in Mark, Carries(m, a, z), At(b, s, a),
         m.type \in RxTypes => n \in m.to
  PROVE  At(c, t, z)
<1>0. /\ a.dlv \in Nat /\ a.sav \in Nat /\ z.dlv \in Nat /\ z.sav \in Nat
      /\ a.dist \in Nat /\ z.dist \in Nat
  BY DEF Mark
<1>1. /\ b.rp_seq = a.rp /\ b.next_rp = b.last_rp + a.dist /\ s.last_rp = b.last_rp
      /\ Heard(b.got, a.dlv)
  BY DEF At
<1>2. PICK k \in a.sav..a.dlv : Heard(s.got, k)
  BY DEF At
<1>3. CASE /\ m.type = "BACKTRACK" /\ t = s
           /\ Moved(IF b.now > b.last_rp + m.period THEN s ELSE b, m, c)
  <2>1. /\ m.rp_seq = z.rp /\ z.sav = a.sav /\ a.dlv = a.sav /\ m.period = z.dist
        /\ z.dlv = a.dlv
    BY <1>3 DEF Carries, RxTypes
  <2>2. k = a.dlv
    BY <1>0, <2>1
  <2>3. ASSUME NEW r \in {b, s}, Moved(r, m, c)
        PROVE  At(c, t, z)
    <3>1. Heard(r.got, z.dlv) /\ r.last_rp = b.last_rp
      BY <1>1, <1>2, <2>1, <2>2
    <3>2. Heard(c.got, z.dlv) /\ c.last_rp = b.last_rp
      BY <2>3, <3>1 DEF Moved
    <3>3. Heard(t.got, z.dlv) /\ z.dlv \in z.sav..z.dlv
      BY <1>0, <1>2, <1>3, <2>1, <2>2
    <3>4. c.rp_seq = z.rp /\ c.next_rp = c.last_rp + z.dist
      BY <2>1, <2>3 DEF Moved
    <3> QED BY <1>1, <1>3, <3>2, <3>3, <3>4 DEF At
  <2> QED BY <1>3, <2>3
<1>4. Heard(Taken(n, b, m), z.dlv)
  BY <1>1, TakenHeard
<1>5. CASE m.type \in ReleaseTypes /\ Takes(n, b, m, c) /\ Leaves(b, m, c) /\ t = c
  <2>1. m.n_rp_seq = z.rp /\ z.sav = z.dlv /\ m.period = z.dist
    BY <1>5 DEF Carries, ReleaseTypes
  <2>2. Heard(c.got, z.dlv) /\ z.dlv \in z.sav..z.dlv
    BY <1>0, <1>4, <1>5, <2>1 DEF Takes
  <2> QED BY <1>5, <2>1, <2>2 DEF At, Leaves
<1>6. CASE /\ m.type \in ReleaseTypes => m.c_rp_seq # b.rp_seq
           /\ m.type # "BACKTRACK"
           /\ Takes(n, b, m, c) /\ Stays(b, c) /\ t = s
  <2>1. m.type = "RX"
    <3>1. m.type \notin ReleaseTypes
      BY <1>1, <1>6 DEF Carries
    <3> QED BY <1>6, <3>1, McastFields DEF ReleaseTypes
  <2>2. /\ z.rp = a.rp /\ z.dist = a.dist /\ z.sav = a.sav /\ z.dlv = a.dlv + 1
    BY <2>1 DEF Carries, RxTypes
  <2>3. Heard(c.got, z.dlv) /\ k \in z.sav..z.dlv
    BY <1>0, <1>4, <1>6, <2>2 DEF Takes
  <2> QED BY <1>1, <1>2, <1>6, <2>2, <2>3 DEF At, Stays
<1> QED BY <1>3, <1>5, <1>6 DEF ParsedTo

-----------------------------------------------------------------------------
(* The steps of a node keep the members and follow the trail. *)

\* What is sent to the server by a step, if anything.
Writes(p) == toServer' = toServer \/ toServer' = Append(toServer, p)

LEMMA WrittenIs ==
  ASSUME NetType, NEW p \in ClientPkt, Writes(p), NEW i \in 1..Len(toServer')
  PROVE  (i \in 1..Len(toServer) /\ toServer'[i] = toServer[i]) \/ toServer'[i] = p
<1>1. toServer \in Seq(ClientPkt)
  BY DEF NetType
<1>2. CASE toServer' = toServer
  BY <1>2
<1>3. CASE toServer' = Append(toServer, p)
  BY <1>1, <1>3
<1> QED BY <1>2, <1>3 DEF Writes

LEMMA IdleMember ==
  ASSUME NetType, NEW m \in Nodes, Member(m), Idle(m), mcast'[m] = mcast[m],
         reply'[m] = reply[m], UNCHANGED active, m \in joined' <=> m \in joined,
         NEW p \in ClientPkt, Writes(p), p.type = "DISCONNECT" => p.node # m
  PROVE  Member(m)'
<1>1. \A i \in 1..Len(toServer') :
        toServer'[i].type = "DISCONNECT" /\ toServer'[i].node = m => pc[m] = "closed"
  BY WrittenIs DEF Member
<1>2. pc'[m] = pc[m] /\ bt'[m] = bt[m]
  BY DEF Idle
<1> QED BY <1>1, <1>2 DEF Member, Inside, Live

LEMMA IdleTrail ==
  ASSUME NEW T, NEW m \in Nodes, NodeTrail(T, m), Idle(m), mcast'[m] = mcast[m],
         reply'[m] = reply[m], UNCHANGED <<pkt_seq, delivered>>
  PROVE  NodeTrail(T, m)'
<1>1. /\ pc'[m] = pc[m] /\ bt'[m] = bt[m] /\ backup'[m] = backup[m]
      /\ mcast'[m] = mcast[m] /\ reply'[m] = reply[m]
      /\ pkt_seq' = pkt_seq /\ delivered' = delivered
  BY DEF Idle
<1>2. InBox(T, m)'
  BY <1>1 DEF NodeTrail, InBox, Carries
<1>3. InReply(T, m)'
  BY <1>1 DEF NodeTrail, InReply
<1>4. Inside(m)' => Knows(T, m)'
  BY <1>1 DEF NodeTrail, Inside, Live, Knows, At, Heard
<1> QED BY <1>2, <1>3, <1>4 DEF NodeTrail

LEMMA SameServerTrail ==
  ASSUME NEW T, ServerTrail(T), UNCHANGED srvVars
  PROVE  ServerTrail(T)'
BY DEF ServerTrail, srvVars

\* The invariant, for the trail T.
Known(T) == TypeInv /\ Members /\ T \in [Nat -> Mark] /\ Follows(T)

LEMMA NodeMark ==
  ASSUME NEW T, Known(T), NEW n \in Nodes
  PROVE  /\ bt[n] \in Machine /\ backup[n] \in Machine /\ bt[n].rx_pkt_seq \in Nat
         /\ T[bt[n].rx_pkt_seq] \in Mark
<1>1. bt[n] \in Machine /\ backup[n] \in Machine
  BY DEF Known, TypeInv, CltTypeOK
<1>2. bt[n].rx_pkt_seq \in Nat
  BY <1>1, MachineFields
<1> QED BY <1>1, <1>2 DEF Known

LEMMA LocalKnown ==
  ASSUME NEW T, Known(T), NEW n \in Nodes, Local(n)
  PROVE  Known(T)'
<1>0. /\ TypeInv /\ NetType /\ Members /\ Follows(T) /\ T \in [Nat -> Mark]
  BY DEF Known, TypeInv
<1>1. TypeInv'
  BY <1>0, LocalDates
<1>2. /\ UNCHANGED <<srvVars, backup, mcast, reply, joined>>
      /\ \A m \in Nodes \ {n} : Idle(m)
      /\ SameView(bt[n], bt'[n])
  BY DEF Local
<1>3. Live(n) /\ Live(n)'
  BY DEF Local, Live
<1>4. PICK p \in ClientPkt : Writes(p) /\ p.type # "DISCONNECT"
  <2>1. SynchedPkt(bt[n].rp_seq) \in ClientPkt /\ SynchedPkt(bt[n].rp_seq).type = "SYNCHED"
    BY <1>0, NodeDates, MachineFields DEF SynchedPkt, ClientPkt
  <2>2. SynchedPkt(bt[n].rp_seq).type # "DISCONNECT"
    BY <2>1
  <2> QED BY <2>1, <2>2 DEF Local, Writes
<1>5. Members'
  <2> SUFFICES ASSUME NEW m \in Nodes PROVE Member(m)'
    BY DEF Members
  <2>1. CASE m # n
    BY <1>0, <1>2, <1>4, <2>1, IdleMember DEF Members, srvVars
  <2>2. CASE m = n
    <3>1. \A i \in 1..Len(toServer') :
            toServer'[i].type = "DISCONNECT" /\ toServer'[i].node = n => pc[n] = "closed"
      BY <1>0, <1>4, WrittenIs DEF Members, Member
    <3>2. pc[n] # "closed" /\ pc'[n] \notin {"off", "connecting"}
      BY <1>3 DEF Live
    <3> QED BY <1>0, <1>2, <1>3, <2>2, <3>1, <3>2 DEF Members, Member, Inside, srvVars
  <2> QED BY <2>1, <2>2
<1>6. Follows(T)'
  <2>1. ServerTrail(T)'
    BY <1>0, <1>2, SameServerTrail DEF Follows
  <2>2. ASSUME NEW m \in Nodes PROVE NodeTrail(T, m)'
    <3>1. CASE m # n
      BY <1>0, <1>2, <2>2, <3>1, IdleTrail DEF Follows, srvVars
    <3>2. CASE m = n
      <4>1. /\ InBox(T, n) /\ InReply(T, n) /\ Knows(T, n)
        BY <1>0, <1>3 DEF Follows, NodeTrail, Inside
      <4>2. InBox(T, n)' /\ InReply(T, n)'
        BY <1>2, <4>1 DEF InBox, InReply, Carries, srvVars
      <4>3. At(bt'[n], backup[n], T[bt[n].rx_pkt_seq])
        BY <1>2, <4>1, AtSameView DEF Knows
      <4>4. bt'[n].rx_pkt_seq = bt[n].rx_pkt_seq
        BY <1>2 DEF SameView
      <4>5. Knows(T, n)'
        BY <1>2, <4>1, <4>3, <4>4 DEF Knows, At, Heard, srvVars
      <4> QED BY <3>2, <4>2, <4>5 DEF NodeTrail
    <3> QED BY <3>1, <3>2
  <2> QED BY <2>1, <2>2 DEF Follows
<1> QED BY <1>0, <1>1, <1>5, <1>6 DEF Known

LEMMA TailIs ==
  ASSUME NEW S, NEW q \in Seq(S), q # <<>>
  PROVE  /\ Head(q) = q[1] /\ 1 \in 1..Len(q)
         /\ \A i \in 1..Len(Tail(q)) : i + 1 \in 1..Len(q) /\ Tail(q)[i] = q[i + 1]
OBVIOUS

\* A packet that a node parses is next on its way along the trail, or ignored.
LEMMA ParsedMark ==
  ASSUME NEW T, Known(T), NEW n \in Nodes, Parsed(n)
  PROVE  /\ bt'[n].rx_pkt_seq <= pkt_seq
         /\ At(bt'[n], backup'[n], T[bt'[n].rx_pkt_seq])
<1> DEFINE m == Head(mcast[n])
           b == Before(n)
           x == b.rx_pkt_seq
<1>0. /\ CltTypeOK /\ TypeInv /\ NetType /\ Live(n) /\ mcast[n] # <<>>
      /\ CltTypeOK'
  BY DEF Known, TypeInv, Parsed
<1>1. InBox(T, n) /\ Knows(T, n)
  BY <1>0 DEF Known, Follows, NodeTrail, Inside
<1>2. PICK c \in Machine : ParsedAs(n, b, m, c)
  BY DEF Parsed
<1>3. /\ b \in Machine /\ SameView(bt[n], b) /\ x \in Nat /\ x = bt[n].rx_pkt_seq
      /\ x <= pkt_seq
  BY <1>0, <1>1, BeforeIs, MachineFields DEF SameView, Knows
<1>4. At(b, backup[n], T[x])
  BY <1>1, <1>3, AtSameView DEF Knows
<1>5. /\ backup[n] \in Machine /\ backup'[n] \in Machine /\ bt'[n] \in Machine
      /\ bt'[n].rx_pkt_seq \in Nat
  BY <1>0, MachineFields DEF CltTypeOK
<1>6. /\ m \in McastPkt /\ m.seq \in Nat /\ m.seq < pkt_seq
      /\ Carries(m, T[m.seq], T[m.seq + 1])
      /\ m.type \in RxTypes => n \in m.to
  <2>1. m = mcast[n][1] /\ 1 \in 1..Len(mcast[n])
    BY <1>0, TailIs DEF NetType
  <2>2. m \in McastPkt
    BY <1>0, HeadIs
  <2> QED BY <1>1, <2>1, <2>2, McastFields DEF InBox
<1>7. SameView(c, bt'[n])
  BY <1>2 DEF ParsedAs, SameMoment
<1> HIDE DEF m, b, x
<1>8. pkt_seq \in Nat
  BY <1>0 DEF TypeInv, SrvTypeOK
<1>9. CASE m.seq = x
  <2>1. ParsedTo(n, b, backup[n], m, c, backup'[n])
    BY <1>2, <1>9 DEF ParsedAs, x
  <2>2. T[x] \in Mark /\ T[x + 1] \in Mark
    BY <1>3 DEF Known
  <2>3. At(c, backup'[n], T[x + 1])
    BY <1>3, <1>4, <1>5, <1>6, <1>9, <2>1, <2>2, ParsedAt
  <2>4. c.rx_pkt_seq = x + 1
    <3>1. CASE m.type = "BACKTRACK"
      <4>1. \E r \in Machine : Moved(r, m, c)
        BY <1>3, <1>5, <2>1, <3>1 DEF ParsedTo, ReleaseTypes
      <4> QED BY <1>9, <4>1 DEF Moved
    <3>2. CASE m.type # "BACKTRACK"
      <4>1. Takes(n, b, m, c)
        BY <2>1, <3>2 DEF ParsedTo
      <4> QED BY <4>1 DEF Takes, x
    <3> QED BY <3>1, <3>2
  <2>5. bt'[n].rx_pkt_seq = x + 1 /\ x + 1 <= pkt_seq
    BY <1>3, <1>6, <1>7, <1>8, <1>9, <2>4 DEF SameView
  <2> QED BY <1>7, <2>3, <2>5, AtSameView
<1>10. CASE m.seq # x
  <2>1. c = b /\ backup'[n] = backup[n]
    BY <1>2, <1>10 DEF ParsedAs, x
  <2>2. bt'[n].rx_pkt_seq = x
    BY <1>7, <2>1 DEF SameView, x
  <2> QED BY <1>3, <1>4, <1>7, <2>1, <2>2, AtSameView
<1> QED BY <1>9, <1>10

LEMMA TailInBox ==
  ASSUME NEW T, NEW n \in Nodes, NetType, InBox(T, n), mcast[n] # <<>>,
         mcast'[n] = Tail(mcast[n]), UNCHANGED <<pkt_seq, delivered>>
  PROVE  InBox(T, n)'
<1>1. \A i \in 1..Len(mcast'[n]) :
        i + 1 \in 1..Len(mcast[n]) /\ mcast'[n][i] = mcast[n][i + 1]
  BY TailIs DEF NetType
<1> QED BY <1>1 DEF InBox, Carries

LEMMA ParsedKnown ==
  ASSUME NEW T, Known(T), NEW n \in Nodes, Parsed(n)
  PROVE  Known(T)'
<1>0. /\ TypeInv /\ NetType /\ Members /\ Follows(T) /\ T \in [Nat -> Mark]
  BY DEF Known, TypeInv
<1>1. TypeInv'
  BY <1>0, ParsedDates
<1>2. /\ UNCHANGED <<srvVars, toServer, reply, joined>>
      /\ \A m \in Nodes \ {n} : Idle(m)
      /\ mcast' = [mcast EXCEPT ![n] = Tail(@)] /\ mcast[n] # <<>>
      /\ Live(n) /\ Live(n)'
  BY DEF Parsed, Live
<1>3. mcast'[n] = Tail(mcast[n]) /\ \A m \in Nodes \ {n} : mcast'[m] = mcast[m]
  BY <1>0, <1>2 DEF NetType
<1>4. Members'
  <2> SUFFICES ASSUME NEW m \in Nodes PROVE Member(m)'
    BY DEF Members
  <2>1. CASE m # n
    <3>1. DisconnectPkt(n) \in ClientPkt /\ DisconnectPkt(n).node # m
      BY <2>1 DEF DisconnectPkt, ClientPkt
    <3> QED BY <1>0, <1>2, <1>3, <2>1, <3>1, IdleMember DEF Members, srvVars, Writes
  <2>2. CASE m = n
    <3>1. pc'[n] \notin {"off", "connecting", "closed"} /\ pc[n] # "closed"
      BY <1>2 DEF Live
    <3> QED BY <1>0, <1>2, <2>2, <3>1 DEF Members, Member, Inside, srvVars
  <2> QED BY <2>1, <2>2
<1>5. Follows(T)'
  <2>1. ServerTrail(T)'
    BY <1>0, <1>2, SameServerTrail DEF Follows
  <2>2. ASSUME NEW m \in Nodes PROVE NodeTrail(T, m)'
    <3>1. CASE m # n
      BY <1>0, <1>2, <1>3, <2>2, <3>1, IdleTrail DEF Follows, srvVars
    <3>2. CASE m = n
      <4>1. InBox(T, n) /\ InReply(T, n)
        BY <1>0 DEF Follows, NodeTrail
      <4>2. InBox(T, n)'
        BY <1>0, <1>2, <1>3, <4>1, TailInBox DEF srvVars
      <4>3. InReply(T, n)'
        BY <1>2, <4>1 DEF InReply, srvVars
      <4>4. /\ bt'[n].rx_pkt_seq <= pkt_seq
            /\ At(bt'[n], backup'[n], T[bt'[n].rx_pkt_seq])
        BY ParsedMark
      <4>5. Knows(T, n)'
        BY <1>2, <4>4 DEF Knows, At, Heard, srvVars
      <4> QED BY <3>2, <4>2, <4>3, <4>5 DEF NodeTrail
    <3> QED BY <3>1, <3>2
  <2> QED BY <2>1, <2>2 DEF Follows
<1> QED BY <1>0, <1>1, <1>4, <1>5 DEF Known

\* A step of node n matters to that node only.
LEMMA OneKnown ==
  ASSUME NEW T, Known(T), NEW n \in Nodes, TypeInv', Elsewhere(n, pc'[n]),
         \A m \in Nodes \ {n} : /\ mcast'[m] = mcast[m] /\ reply'[m] = reply[m]
                                /\ m \in joined' <=> m \in joined,
         NEW p \in ClientPkt, Writes(p), p.type = "DISCONNECT" => p.node = n,
         Member(n)', NodeTrail(T, n)'
  PROVE  Known(T)'
<1>0. /\ TypeInv /\ NetType /\ Members /\ Follows(T) /\ T \in [Nat -> Mark]
      /\ UNCHANGED srvVars /\ \A m \in Nodes \ {n} : Idle(m)
  BY DEF Known, TypeInv, Elsewhere
<1>1. Members'
  <2> SUFFICES ASSUME NEW m \in Nodes PROVE Member(m)'
    BY DEF Members
  <2>1. CASE m # n
    BY <1>0, <2>1, IdleMember DEF Members, srvVars
  <2> QED BY <2>1
<1>2. Follows(T)'
  <2>1. ServerTrail(T)'
    BY <1>0, SameServerTrail DEF Follows
  <2>2. ASSUME NEW m \in Nodes PROVE NodeTrail(T, m)'
    <3>1. CASE m # n
      BY <1>0, <2>2, <3>1, IdleTrail DEF Follows, srvVars
    <3> QED BY <3>1
  <2> QED BY <2>1, <2>2 DEF Follows
<1> QED BY <1>0, <1>1, <1>2 DEF Known

LEMMA OwnState ==
  ASSUME NEW T, Known(T), NEW n \in Nodes
  PROVE  TypeInv /\ NetType /\ CltTypeOK /\ Member(n) /\ NodeTrail(T, n) /\ ServerTrail(T)
BY DEF Known, TypeInv, Members, Follows

LEMMA ConnectKnown ==
  ASSUME NEW T, Known(T), NEW n \in Nodes, Connect(n), UNCHANGED srvVars
  PROVE  Known(T)'
<1>0. TypeInv /\ NetType /\ Member(n) /\ NodeTrail(T, n)
  BY OwnState
<1>1. /\ pc[n] = "off" /\ Elsewhere(n, "connecting") /\ ConnectPkt(n) \in ClientPkt
      /\ toServer' = Append(toServer, ConnectPkt(n))
      /\ UNCHANGED <<bt, backup, sigpipe, cnx_time, reply, mcast, joined>>
  BY <1>0, ConnectStep
<1>2. TypeInv'
  BY <1>0, ComesTypes DEF Comes
<1>3. Writes(ConnectPkt(n)) /\ ConnectPkt(n).type # "DISCONNECT"
  BY <1>1 DEF Writes, ConnectPkt
<1>4. pc'[n] = "connecting" /\ UNCHANGED srvVars
  BY <1>1 DEF Elsewhere
<1>5. \A i \in 1..Len(toServer') :
        ~ (toServer'[i].type = "DISCONNECT" /\ toServer'[i].node = n)
  BY <1>0, <1>1, <1>3, WrittenIs DEF Member
<1>6. Member(n)'
  BY <1>0, <1>1, <1>4, <1>5 DEF Member, Inside, Live, srvVars
<1>7. NodeTrail(T, n)'
  <2>1. InBox(T, n)' /\ InReply(T, n)'
    BY <1>0, <1>1, <1>4 DEF NodeTrail, InBox, InReply, Carries, srvVars
  <2>2. ~ Inside(n)'
    BY <1>4 DEF Inside, Live
  <2> QED BY <2>1, <2>2 DEF NodeTrail
<1> QED BY <1>1, <1>2, <1>3, <1>4, <1>6, <1>7, OneKnown

LEMMA ReplyTail ==
  ASSUME NEW T, NEW n \in Nodes, NetType, InReply(T, n), reply[n] # <<>>,
         reply' = [reply EXCEPT ![n] = Tail(@)], UNCHANGED pkt_seq
  PROVE  InReply(T, n)'
<1>1. reply'[n] = Tail(reply[n])
  BY DEF NetType
<1>2. \A i \in 1..Len(reply'[n]) :
        i + 1 \in 1..Len(reply[n]) /\ reply'[n][i] = reply[n][i + 1]
  BY <1>1, TailIs DEF NetType
<1> QED BY <1>2 DEF InReply

LEMMA RefusedKnown ==
  ASSUME NEW T, Known(T), NEW n \in Nodes, Refused(n), UNCHANGED srvVars
  PROVE  Known(T)'
<1>0. TypeInv /\ NetType /\ Member(n) /\ NodeTrail(T, n)
  BY OwnState
<1>1. /\ pc[n] = "connecting" /\ Elsewhere(n, "refused") /\ reply[n] # <<>>
      /\ reply' = [reply EXCEPT ![n] = Tail(@)]
      /\ UNCHANGED <<bt, backup, sigpipe, cnx_time, toServer, mcast, joined>>
  BY <1>0, RefusedStep
<1>2. TypeInv'
  BY <1>0, ComesTypes DEF Comes
<1>3. Writes(ConnectPkt(n)) /\ ConnectPkt(n).type # "DISCONNECT" /\ ConnectPkt(n) \in ClientPkt
  BY <1>1 DEF Writes, ConnectPkt, ClientPkt
<1>4. pc'[n] = "refused" /\ UNCHANGED srvVars
  BY <1>1 DEF Elsewhere
<1>5. /\ \A m \in Nodes \ {n} : reply'[m] = reply[m]
      /\ \A i \in 1..Len(reply'[n]) :
           i + 1 \in 1..Len(reply[n]) /\ reply'[n][i] = reply[n][i + 1]
  BY <1>0, <1>1, TailIs DEF NetType
<1>6. Member(n)'
  <2>1. \A i \in 1..Len(reply'[n]) : reply'[n][i].type = "ATTRADDR" => n \in active
    BY <1>0, <1>1, <1>5 DEF Member
  <2> QED BY <1>0, <1>1, <1>4, <2>1 DEF Member, Inside, Live, srvVars
<1>7. NodeTrail(T, n)'
  <2>1. InBox(T, n)'
    BY <1>0, <1>1, <1>4 DEF NodeTrail, InBox, Carries, srvVars
  <2>2. InReply(T, n)'
    BY <1>0, <1>1, <1>4, ReplyTail DEF NodeTrail, srvVars
  <2>3. ~ Inside(n)'
    BY <1>4 DEF Inside, Live
  <2> QED BY <2>1, <2>2, <2>3 DEF NodeTrail
<1> QED BY <1>1, <1>2, <1>3, <1>4, <1>5, <1>6, <1>7, OneKnown

LEMMA ConnectedKnown ==
  ASSUME NEW T, Known(T), NEW n \in Nodes, Connected(n), UNCHANGED srvVars
  PROVE  Known(T)'
<1> DEFINE r == Head(reply[n])
<1>0. TypeInv /\ NetType /\ CltTypeOK /\ Member(n) /\ NodeTrail(T, n) /\ ServerTrail(T)
  BY OwnState
<1>1. /\ pc[n] = "connecting" /\ Elsewhere(n, "joining") /\ reply[n] # <<>>
      /\ r.type = "ATTRADDR" /\ r \in ReplyPkt
      /\ Answered(bt[n], r, bt'[n]) /\ backup'[n] = bt'[n]
      /\ reply' = [reply EXCEPT ![n] = Tail(@)]
      /\ UNCHANGED <<sigpipe, toServer, mcast, joined>>
  BY <1>0, ConnectedStep
<1>2. TypeInv'
  BY <1>0, ComesTypes DEF Comes
<1>3. Writes(ConnectPkt(n)) /\ ConnectPkt(n).type # "DISCONNECT" /\ ConnectPkt(n) \in ClientPkt
  BY <1>1 DEF Writes, ConnectPkt, ClientPkt
<1>4. pc'[n] = "joining" /\ UNCHANGED srvVars
  BY <1>1 DEF Elsewhere
<1>5. /\ r = reply[n][1] /\ 1 \in 1..Len(reply[n])
      /\ \A m \in Nodes \ {n} : reply'[m] = reply[m]
      /\ \A i \in 1..Len(reply'[n]) :
           i + 1 \in 1..Len(reply[n]) /\ reply'[n][i] = reply[n][i + 1]
  BY <1>0, <1>1, TailIs DEF NetType
<1>6. r.seq \in Nat /\ r.seq <= pkt_seq /\ r.rp_seq = T[r.seq].rp /\ r.period = T[r.seq].dist
  BY <1>0, <1>1, <1>5, ReplyFields DEF NodeTrail, InReply
<1>7. n \in active
  BY <1>0, <1>1, <1>5 DEF Member
<1> HIDE DEF r
<1>8. Member(n)'
  BY <1>0, <1>1, <1>4, <1>7 DEF Member, Inside, Live, srvVars
<1>9. NodeTrail(T, n)'
  <2>1. InBox(T, n)'
    BY <1>0, <1>1, <1>4 DEF NodeTrail, InBox, Carries, srvVars
  <2>2. InReply(T, n)'
    BY <1>0, <1>1, <1>4, ReplyTail DEF NodeTrail, srvVars
  <2>3. Heard(<<>>, T[r.seq].dlv) /\ T[r.seq].dlv \in T[r.seq].sav..T[r.seq].dlv
    <3>1. T[r.seq] \in Mark /\ pkt_seq \in Nat
      BY <1>0, <1>6 DEF Known, TypeInv, SrvTypeOK
    <3>2. T[r.seq].dlv \in Nat /\ T[r.seq].sav \in Nat
      BY <3>1 DEF Mark
    <3>3. T[r.seq].sav <= T[r.seq].dlv
      BY <1>0, <1>6, <3>1 DEF ServerTrail
    <3> QED BY <3>2, <3>3 DEF Heard
  <2>4. bt[n].got = <<>>
    BY <1>0, <1>1 DEF Member, PowerOn
  <2>5. At(bt'[n], backup'[n], T[r.seq]) /\ bt'[n].rx_pkt_seq = r.seq
    BY <1>1, <1>6, <2>3, <2>4 DEF At, Answered
  <2>6. Knows(T, n)'
    BY <1>4, <1>6, <2>5 DEF Knows, At, Heard, srvVars
  <2> QED BY <2>1, <2>2, <2>6 DEF NodeTrail
<1> QED BY <1>1, <1>2, <1>3, <1>4, <1>5, <1>8, <1>9, OneKnown

LEMMA JoinKnown ==
  ASSUME NEW T, Known(T), NEW n \in Nodes, Join(n), UNCHANGED srvVars
  PROVE  Known(T)'
<1>0. TypeInv /\ NetType /\ Member(n) /\ NodeTrail(T, n)
  BY OwnState
<1>1. /\ pc[n] = "joining" /\ Elsewhere(n, "run") /\ joined' = joined \cup {n}
      /\ UNCHANGED <<bt, backup, sigpipe, cnx_time, toServer, reply, mcast>>
  BY <1>0, JoinStep
<1>2. TypeInv'
  BY <1>0, ComesTypes DEF Comes
<1>3. Writes(ConnectPkt(n)) /\ ConnectPkt(n).type # "DISCONNECT" /\ ConnectPkt(n) \in ClientPkt
  BY <1>1 DEF Writes, ConnectPkt, ClientPkt
<1>4. pc'[n] = "run" /\ UNCHANGED srvVars
  BY <1>1 DEF Elsewhere
<1>5. Member(n)'
  BY <1>0, <1>1, <1>4 DEF Member, Inside, Live, srvVars
<1>6. NodeTrail(T, n)'
  <2>1. InBox(T, n)' /\ InReply(T, n)'
    BY <1>0, <1>1, <1>4 DEF NodeTrail, InBox, InReply, Carries, srvVars
  <2>2. Knows(T, n)'
    BY <1>0, <1>1, <1>4 DEF NodeTrail, Inside, Knows, At, Heard, srvVars
  <2> QED BY <2>1, <2>2 DEF NodeTrail
<1> QED BY <1>1, <1>2, <1>3, <1>4, <1>5, <1>6, OneKnown

LEMMA LeaveKnown ==
  ASSUME NEW T, Known(T), NEW n \in Nodes, Leave(n), TypeInv', UNCHANGED srvVars
  PROVE  Known(T)'
<1>0. TypeInv /\ NetType /\ Member(n) /\ NodeTrail(T, n)
  BY OwnState
<1>1. /\ Elsewhere(n, "closed") /\ toServer' = Append(toServer, DisconnectPkt(n))
      /\ DisconnectPkt(n) \in ClientPkt
      /\ joined' = joined \ {n} /\ mcast' = [mcast EXCEPT ![n] = <<>>]
      /\ UNCHANGED <<bt, backup, sigpipe, cnx_time, reply>>
  BY <1>0, LeaveStep
<1>3. Writes(DisconnectPkt(n)) /\ DisconnectPkt(n).node = n
  BY <1>1 DEF Writes, DisconnectPkt
<1>4. /\ pc'[n] = "closed" /\ UNCHANGED srvVars
      /\ mcast'[n] = <<>> /\ \A m \in Nodes \ {n} : mcast'[m] = mcast[m]
  BY <1>0, <1>1 DEF Elsewhere, NetType
<1>5. Member(n)'
  BY <1>0, <1>1, <1>4 DEF Member, Inside, Live, srvVars
<1>6. NodeTrail(T, n)'
  <2>1. InBox(T, n)' /\ InReply(T, n)'
    BY <1>0, <1>1, <1>4 DEF NodeTrail, InBox, InReply, srvVars
  <2>2. ~ Inside(n)'
    BY <1>4 DEF Inside, Live
  <2> QED BY <2>1, <2>2 DEF NodeTrail
<1> QED BY <1>1, <1>3, <1>4, <1>5, <1>6, OneKnown

LEMMA StopKnown ==
  ASSUME NEW T, Known(T), NEW n \in Nodes, StopAndRun(n), UNCHANGED srvVars
  PROVE  Known(T)'
<1>0. TypeInv /\ NetType /\ CltTypeOK /\ Member(n) /\ NodeTrail(T, n) /\ ServerTrail(T)
  BY OwnState
<1>1. /\ pc[n] = "run" /\ Elsewhere(n, "run") /\ backup' = [backup EXCEPT ![n] = bt[n]]
      /\ UNCHANGED <<pc, bt, sigpipe, cnx_time, netVars>>
  BY <1>0, StopStep
<1>2. TypeInv'
  BY <1>0, ComesTypes
<1>3. Writes(ConnectPkt(n)) /\ ConnectPkt(n).type # "DISCONNECT" /\ ConnectPkt(n) \in ClientPkt
  BY <1>1 DEF Writes, ConnectPkt, ClientPkt, netVars
<1>4. backup'[n] = bt[n] /\ UNCHANGED srvVars
  BY <1>0, <1>1 DEF CltTypeOK, Elsewhere
<1>5. Member(n)'
  BY <1>0, <1>1, <1>4 DEF Member, Inside, Live, srvVars, netVars
<1>6. NodeTrail(T, n)'
  <2>1. InBox(T, n)' /\ InReply(T, n)'
    BY <1>0, <1>1, <1>4 DEF NodeTrail, InBox, InReply, Carries, srvVars, netVars
  <2> DEFINE t == T[bt[n].rx_pkt_seq]
  <2>2. Knows(T, n)
    BY <1>0, <1>1 DEF NodeTrail, Inside, Live
  <2>3. t.dlv \in t.sav..t.dlv
    <3>1. t \in Mark /\ bt[n].rx_pkt_seq \in Nat /\ pkt_seq \in Nat
      BY <1>0, NodeMark DEF TypeInv, SrvTypeOK
    <3>2. t.sav <= t.dlv
      BY <1>0, <2>2, <3>1 DEF ServerTrail, Knows
    <3> HIDE DEF t
    <3> QED BY <3>1, <3>2 DEF Mark
  <2>4. At(bt[n], backup[n], t) => At(bt[n], bt[n], t)
    BY <2>3 DEF At
  <2>5. At(bt'[n], backup'[n], T[bt'[n].rx_pkt_seq])
    BY <1>1, <1>4, <2>2, <2>4 DEF Knows
  <2>6. bt'[n].rx_pkt_seq <= pkt_seq' /\ delivered' = delivered
    BY <1>1, <1>4, <2>2 DEF Knows, srvVars
  <2>7. Knows(T, n)'
    BY <2>5, <2>6 DEF Knows, At, Heard
  <2> QED BY <2>1, <2>7 DEF NodeTrail
<1>7. /\ Elsewhere(n, pc'[n])
      /\ \A m \in Nodes \ {n} : /\ mcast'[m] = mcast[m] /\ reply'[m] = reply[m]
                                /\ m \in joined' <=> m \in joined
  BY <1>1 DEF Elsewhere, netVars
<1> QED BY <1>2, <1>3, <1>5, <1>6, <1>7, OneKnown

LEMMA NodeKnown ==
  ASSUME NEW T, Known(T), NEW n \in Nodes, CltStep(n) \/ CltUser(n), UNCHANGED srvVars
  PROVE  Known(T)'
<1>0. TypeInv
  BY DEF Known
<1>1. CASE Local(n)
  BY <1>1, LocalKnown
<1>2. CASE Parsed(n)
  BY <1>2, ParsedKnown
<1>3. CASE Comes(n)
  BY <1>3, ConnectKnown, ConnectedKnown, RefusedKnown, JoinKnown DEF Comes
<1>4. CASE Goes(n)
  <2>1. Leave(n) /\ TypeInv'
    BY <1>0, <1>4, ComesTypes DEF Goes, Close, Quit
  <2> QED BY <2>1, LeaveKnown
<1>5. CASE StopAndRun(n)
  BY <1>5, StopKnown
<1> QED BY <1>0, <1>1, <1>2, <1>3, <1>4, <1>5, NodeStep

-----------------------------------------------------------------------------
(* The steps of the server extend the trail. *)

\* The ith answer to node n is an old one, a refusal, or where the server is.
Answer(n, i) ==
  \/ i \in 1..Len(reply[n]) /\ reply'[n][i] = reply[n][i]
  \/ reply'[n][i] = NoAttrAddrPkt
  \/ /\ reply'[n][i] = AttrAddrPkt(pkt_seq, rp - global, rp_seq, global)
     /\ n \in active'

LEMMA ReadsKnown ==
  ASSUME NEW T, Known(T), TypeInv', NEW type, Reads(type),
         \A n \in active : pc[n] # "closed" => n \in active',
         \A n \in Nodes : \A i \in 1..Len(reply'[n]) : Answer(n, i)
  PROVE  Known(T)'
<1>0. /\ TypeInv /\ NetType /\ Members /\ Follows(T) /\ T \in [Nat -> Mark]
      /\ ServerTrail(T) /\ pkt_seq \in Nat
  BY DEF Known, TypeInv, SrvTypeOK, Follows
<1>1. /\ spc = "listen" /\ toServer # <<>> /\ toServer' = Tail(toServer)
      /\ spc' = "listen" => global' = global
      /\ UNCHANGED <<rp, rp_seq, pkt_seq, delivered, mcast, joined, cltVars>>
  BY DEF Reads
<1>2. \A i \in 1..Len(toServer') :
        i + 1 \in 1..Len(toServer) /\ toServer'[i] = toServer[i + 1]
  BY <1>0, <1>1, TailIs DEF NetType
<1>3. ServerTrail(T)'
  BY <1>0, <1>1 DEF ServerTrail
<1>4. ASSUME NEW n \in Nodes
      PROVE  Member(n)' /\ NodeTrail(T, n)'
  <2>1. Member(n) /\ NodeTrail(T, n)
    BY <1>0 DEF Members, Follows
  <2>2. UNCHANGED <<pc, bt, backup>>
    BY <1>1 DEF cltVars
  <2>3. \A i \in 1..Len(toServer') :
          toServer'[i].type = "DISCONNECT" /\ toServer'[i].node = n => pc[n] = "closed"
    BY <1>2, <2>1 DEF Member
  <2>4. ASSUME NEW i \in 1..Len(reply'[n]), reply'[n][i].type = "ATTRADDR"
        PROVE  /\ pc[n] # "closed" => n \in active'
               /\ reply'[n][i].seq <= pkt_seq
               /\ reply'[n][i].rp_seq = T[reply'[n][i].seq].rp
               /\ reply'[n][i].period = T[reply'[n][i].seq].dist
    <3>1. CASE i \in 1..Len(reply[n]) /\ reply'[n][i] = reply[n][i]
      BY <2>1, <2>4, <3>1 DEF Member, NodeTrail, InReply
    <3>2. CASE reply'[n][i] = NoAttrAddrPkt
      BY <2>4, <3>2 DEF NoAttrAddrPkt
    <3>3. CASE /\ reply'[n][i] = AttrAddrPkt(pkt_seq, rp - global, rp_seq, global)
               /\ n \in active'
      BY <1>0, <1>1, <3>3 DEF AttrAddrPkt, ServerTrail
    <3> QED BY <2>4, <3>1, <3>2, <3>3 DEF Answer
  <2>5. Member(n)'
    <3>1. Inside(n) => pc[n] # "closed"
      BY DEF Inside, Live
    <3> QED BY <1>1, <2>1, <2>2, <2>3, <2>4, <3>1 DEF Member, Inside, Live
  <2>6. InBox(T, n)' /\ (Inside(n)' => Knows(T, n)')
    BY <1>1, <2>1, <2>2 DEF NodeTrail, InBox, Carries, Inside, Live, Knows, At, Heard
  <2>7. InReply(T, n)'
    BY <1>1, <2>4 DEF InReply
  <2> QED BY <2>5, <2>6, <2>7 DEF NodeTrail
<1> QED BY <1>0, <1>3, <1>4 DEF Known, Members, Follows

LEMMA ListenKnown ==
  ASSUME NEW T, Known(T), SrvListen, ~ RecvTxBacktrack, UNCHANGED cltVars
  PROVE  Known(T)'
<1>0. TypeInv /\ Members /\ NetType
  BY DEF Known, TypeInv
<1>1. CASE RecvDisconnect
  <2>1. TypeInv' /\ Reads("DISCONNECT") /\ reply' = reply
    BY <1>0, <1>1, DisconnectTypes
  <2>2. Head(toServer) = toServer[1] /\ 1 \in 1..Len(toServer)
    BY <1>0, <2>1, TailIs DEF Reads, NetType
  <2>3. /\ active' = active \ {Head(toServer).node}
        /\ Head(toServer).type = "DISCONNECT" /\ Head(toServer) \in ClientPkt
    BY <1>1, <2>1 DEF RecvDisconnect, Reads
  <2>4. pc[Head(toServer).node] = "closed"
    BY <1>0, <2>2, <2>3, ClientFields DEF Members, Member
  <2>5. \A n \in active : pc[n] # "closed" => n \in active'
    BY <2>3, <2>4
  <2> QED BY <2>1, <2>5, ReadsKnown DEF Answer
<1>2. CASE RecvConnect
  <2>1. TypeInv' /\ Reads("CONNECT")
    BY <1>0, <1>2, ConnectTypes
  <2> DEFINE c == Head(toServer).node
  <2>2. c \in Nodes /\ Answers(c)
    BY <1>0, <1>2, ConnectAnswers
  <2> HIDE DEF c
  <2>3. ASSUME NEW n \in Nodes, NEW i \in 1..Len(reply'[n]) PROVE Answer(n, i)
    <3>0. reply[n] \in Seq(ReplyPkt)
      BY <1>0 DEF NetType
    <3>1. CASE n # c
      BY <2>2, <2>3, <3>1 DEF Answers, Answer
    <3>2. CASE n = c /\ reply'[n] = Append(reply[n], NoAttrAddrPkt)
      BY <2>3, <3>0, <3>2 DEF Answer
    <3>3. CASE /\ n = c /\ n \in active'
               /\ reply'[n] = Append(reply[n],
                                     AttrAddrPkt(pkt_seq, rp - global, rp_seq, global))
      <4> DEFINE a == AttrAddrPkt(pkt_seq, rp - global, rp_seq, global)
      <4> HIDE DEF a
      <4>1. (i \in 1..Len(reply[n]) /\ reply'[n][i] = reply[n][i]) \/ reply'[n][i] = a
        BY <2>3, <3>0, <3>3 DEF a
      <4> QED BY <3>3, <4>1 DEF a, Answer
    <3> QED BY <2>2, <3>1, <3>2, <3>3 DEF Answers
  <2> QED BY <2>1, <2>2, <2>3, ReadsKnown DEF Answers
<1>3. CASE RecvSynched
  <2>1. TypeInv' /\ Reads("SYNCHED") /\ UNCHANGED <<reply, active>>
    BY <1>0, <1>3, SynchedTypes
  <2> QED BY <2>1, ReadsKnown DEF Answer
<1>4. CASE RecvTxDropped \/ RecvTxAccepted
  <2>1. TypeInv' /\ Reads("TX") /\ UNCHANGED <<reply, active>>
    BY <1>0, <1>4, TxTypes
  <2> QED BY <2>1, ReadsKnown DEF Answer
<1> QED BY <1>1, <1>2, <1>3, <1>4 DEF SrvListen

\* Only what was in the queue of the server remains there.
Drains == \A i \in 1..Len(toServer') : \E j \in 1..Len(toServer) : toServer'[i] = toServer[j]

\* The packet p is the next step of the trail, from a to z.
Extends(p, a, z) ==
  /\ Sends(p) /\ Carries(p, a, z)' /\ (p.type \in RxTypes => p.to = active)
  /\ delivered' = delivered \/ \E e \in Transmission : delivered' = Append(delivered, e)
  /\ z.rp = rp_seq' /\ rp_seq <= rp_seq' /\ z.dlv = Len(delivered') /\ z.sav <= z.dlv
  /\ spc' = "listen" => z.dist = rp' - global' /\ z.sav = Len(delivered')

LEMMA SendsServer ==
  ASSUME NEW T, Known(T), TypeInv', NEW p, NEW a, NEW z \in Mark, Extends(p, a, z),
         NEW U, U = [T EXCEPT ![pkt_seq + 1] = z]
  PROVE  ServerTrail(U)'
<1>0. /\ ServerTrail(T) /\ T \in [Nat -> Mark] /\ pkt_seq \in Nat
      /\ rp_seq \in Nat /\ rp_seq' \in Nat
      /\ delivered \in Seq(Transmission) /\ delivered' \in Seq(Transmission)
  BY DEF Known, TypeInv, SrvTypeOK, Follows
<1>1. pkt_seq' = pkt_seq + 1
  BY DEF Extends, Sends
<1>2. U[pkt_seq'] = z /\ \A k \in 0..pkt_seq : U[k] = T[k]
  BY <1>0, <1>1
<1>3. Len(delivered) <= Len(delivered')
  BY <1>0 DEF Extends
<1>4. ASSUME NEW k \in 0..pkt_seq'
      PROVE  U[k].sav <= U[k].dlv /\ U[k].dlv <= Len(delivered') /\ U[k].rp <= rp_seq'
  <2>1. CASE k = pkt_seq'
    BY <1>0, <1>2, <2>1 DEF Extends
  <2>2. CASE k \in 0..pkt_seq
    <3>1. /\ T[k].sav <= T[k].dlv /\ T[k].dlv <= Len(delivered) /\ T[k].rp <= rp_seq
          /\ T[k].dlv \in Nat /\ T[k].rp \in Nat
      BY <1>0, <2>2 DEF ServerTrail, Mark
    <3>2. rp_seq <= rp_seq'
      BY DEF Extends
    <3> QED BY <1>0, <1>2, <1>3, <2>2, <3>1, <3>2
  <2> QED BY <1>0, <1>1, <2>1, <2>2
<1>5. /\ z.rp = rp_seq' /\ z.dlv = Len(delivered')
      /\ spc' = "listen" => z.dist = rp' - global' /\ z.sav = Len(delivered')
  BY DEF Extends
<1> QED BY <1>2, <1>4, <1>5 DEF ServerTrail

LEMMA CarriesLater ==
  ASSUME NEW m \in McastPkt, NEW a \in Mark, NEW z \in Mark, Carries(m, a, z),
         z.dlv <= Len(delivered), delivered \in Seq(Transmission),
         delivered' = delivered \/ \E e \in Transmission : delivered' = Append(delivered, e)
  PROVE  Carries(m, a, z)'
<1>1. \A j \in 1..Len(delivered) : delivered'[j] = delivered[j]
  OBVIOUS
<1>2. m.type \in RxTypes => m.tx = Tag(delivered'[z.dlv])
  <2> SUFFICES ASSUME m.type \in RxTypes PROVE m.tx = Tag(delivered'[z.dlv])
    OBVIOUS
  <2>1. z.dlv = a.dlv + 1 /\ m.tx = Tag(delivered[z.dlv])
    BY DEF Carries
  <2>2. z.dlv \in 1..Len(delivered)
    BY <2>1 DEF Mark
  <2> QED BY <1>1, <2>1, <2>2 DEF Tag
<1> QED BY <1>2 DEF Carries

LEMMA SendsNode ==
  ASSUME NEW T, Known(T), TypeInv', NEW p, NEW a, NEW z \in Mark, Extends(p, a, z),
         NEW U, U = [T EXCEPT ![pkt_seq + 1] = z], a = T[pkt_seq], NEW n \in Nodes
  PROVE  NodeTrail(U, n)'
<1>0. /\ ServerTrail(T) /\ T \in [Nat -> Mark] /\ pkt_seq \in Nat /\ NodeTrail(T, n)
      /\ Member(n) /\ NetType /\ delivered \in Seq(Transmission)
      /\ mcast[n] \in Seq(McastPkt) /\ mcast'[n] \in Seq(McastPkt)
  BY DEF Known, TypeInv, SrvTypeOK, Follows, Members, NetType
<1>1. /\ pkt_seq' = pkt_seq + 1 /\ p \in McastPkt /\ p.seq = pkt_seq
      /\ UNCHANGED <<active, c_nodes, reply, joined, cltVars>>
  BY DEF Extends, Sends
<1>2. U[pkt_seq + 1] = z /\ \A k \in 0..pkt_seq : U[k] = T[k]
  BY <1>0
<1>3. delivered' = delivered \/ \E e \in Transmission : delivered' = Append(delivered, e)
  BY DEF Extends
<1>4. ASSUME NEW k \in 0..pkt_seq
      PROVE  T[k] \in Mark /\ T[k].dlv \in Nat /\ T[k].sav \in Nat /\ T[k].dlv <= Len(delivered)
  <2>1. T[k] \in Mark /\ T[k].dlv <= Len(delivered)
    BY <1>0 DEF ServerTrail
  <2> QED BY <2>1 DEF Mark
<1>5. PICK got \in SUBSET joined : SentTo(got, p)
  BY DEF Extends, Sends
<1>6. InBox(U, n)'
  <2>1. ASSUME NEW m \in McastPkt, m.seq < pkt_seq, Carries(m, T[m.seq], T[m.seq + 1])
        PROVE  m.seq < pkt_seq' /\ Carries(m, U[m.seq], U[m.seq + 1])'
    <3>1. m.seq \in 0..pkt_seq /\ m.seq + 1 \in 0..pkt_seq
      BY <1>0, <2>1, McastFields
    <3> DEFINE b == T[m.seq]
               c == T[m.seq + 1]
    <3>2. b \in Mark /\ c \in Mark /\ c.dlv <= Len(delivered) /\ Carries(m, b, c)
      BY <1>4, <2>1, <3>1
    <3>3. U[m.seq] = b /\ U[m.seq + 1] = c
      BY <1>2, <3>1
    <3> HIDE DEF b, c
    <3>4. Carries(m, b, c)'
      BY <1>0, <1>3, <3>2, CarriesLater DEF b, c
    <3> QED BY <1>0, <1>1, <2>1, <3>1, <3>3, <3>4 DEF b, c
  <2>2. p.seq < pkt_seq' /\ Carries(p, U[p.seq], U[p.seq + 1])'
    <3>1. U[p.seq] = a /\ U[p.seq + 1] = z
      BY <1>0, <1>1, <1>2
    <3>2. Carries(p, a, z)'
      BY DEF Extends
    <3> QED BY <1>0, <1>1, <3>1, <3>2
  <2>3. n \in got /\ p.type \in RxTypes => n \in p.to
    BY <1>0, <1>5 DEF Member, Inside, Extends
  <2>4. ASSUME NEW i \in 1..Len(mcast'[n])
        PROVE  \/ i \in 1..Len(mcast[n]) /\ mcast'[n][i] = mcast[n][i]
               \/ n \in got /\ mcast'[n][i] = p
    <3>1. CASE n \in got
      <4>1. mcast'[n] = Append(mcast[n], p)
        BY <1>5, <3>1 DEF SentTo
      <4> QED BY <1>0, <1>1, <2>4, <3>1, <4>1
    <3>2. CASE n \notin got
      BY <1>5, <2>4, <3>2 DEF SentTo
    <3> QED BY <3>1, <3>2
  <2>5. InBox(T, n)
    BY <1>0 DEF NodeTrail
  <2>6. ASSUME NEW i \in 1..Len(mcast'[n]), NEW m \in McastPkt, m = mcast'[n][i]
        PROVE  /\ m.seq < pkt_seq' /\ Carries(m, U[m.seq], U[m.seq + 1])'
               /\ m.type \in RxTypes => n \in m.to
    <3>1. CASE i \in 1..Len(mcast[n]) /\ mcast'[n][i] = mcast[n][i]
      <4>1. /\ m.seq < pkt_seq /\ Carries(m, T[m.seq], T[m.seq + 1])
            /\ m.type \in RxTypes => n \in m.to
        BY <2>5, <2>6, <3>1 DEF InBox
      <4> QED BY <2>1, <4>1
    <3>2. CASE n \in got /\ mcast'[n][i] = p
      <4>1. m = p
        BY <2>6, <3>2
      <4> QED BY <2>2, <2>3, <3>2, <4>1 DEF Carries
    <3> QED BY <2>4, <3>1, <3>2
  <2>7. \A i \in 1..Len(mcast'[n]) : mcast'[n][i] \in McastPkt
    BY <1>0
  <2> QED BY <2>6, <2>7 DEF InBox, Carries
<1>7. InReply(U, n)'
  <2>1. reply' = reply /\ InReply(T, n) /\ reply[n] \in Seq(ReplyPkt)
    BY <1>0, <1>1 DEF NodeTrail, NetType
  <2> SUFFICES ASSUME NEW i \in 1..Len(reply[n]), reply[n][i].type = "ATTRADDR"
               PROVE  /\ reply[n][i].seq <= pkt_seq'
                      /\ reply[n][i].rp_seq = U[reply[n][i].seq].rp
                      /\ reply[n][i].period = U[reply[n][i].seq].dist
    BY <2>1 DEF InReply
  <2>2. reply[n][i].seq \in 0..pkt_seq
    BY <1>0, <2>1, ReplyFields DEF InReply
  <2> QED BY <1>0, <1>1, <1>2, <2>1, <2>2 DEF InReply
<1>8. Inside(n)' => Knows(U, n)'
  <2> SUFFICES ASSUME Inside(n)' PROVE Knows(U, n)'
    OBVIOUS
  <2>1. Inside(n) /\ UNCHANGED <<bt, backup>>
    BY <1>1 DEF Inside, Live, cltVars
  <2>2. PICK x \in Nat : x = bt[n].rx_pkt_seq
    BY NodeMark
  <2>3. PICK b, s \in Machine : b = bt[n] /\ s = backup[n]
    BY NodeMark
  <2>4. x <= pkt_seq /\ At(b, s, T[x])
    BY <1>0, <2>1, <2>2, <2>3 DEF NodeTrail, Knows
  <2>5. x \in 0..pkt_seq
    BY <1>0, <2>4
  <2>6. PICK t \in Mark : t = T[x] /\ t.dlv \in Nat /\ t.sav \in Nat /\ t.dlv <= Len(delivered)
    BY <1>4, <2>5
  <2>7. PICK k \in t.sav..t.dlv : Heard(s.got, k)
    BY <2>4, <2>6 DEF At
  <2>8. Heard(b.got, t.dlv) /\ b.got \in Seq(Got) /\ s.got \in Seq(Got)
    BY <2>4, <2>6, MachineFields DEF At
  <2>9. k \in Nat /\ k <= Len(delivered)
    BY <1>0, <2>6
  <2>10. Heard(b.got, t.dlv)' /\ Heard(s.got, k)'
    BY <1>0, <1>3, <2>6, <2>7, <2>8, <2>9, HeardLater
  <2>11. At(b, s, t)'
    BY <2>4, <2>6, <2>7, <2>10 DEF At
  <2>12. /\ U[x] = t /\ x <= pkt_seq' /\ bt'[n] = b /\ backup'[n] = s
         /\ bt'[n].rx_pkt_seq = x
    BY <1>0, <1>1, <1>2, <2>1, <2>2, <2>3, <2>4, <2>5, <2>6
  <2> QED BY <2>11, <2>12 DEF Knows, At, Heard
<1> QED BY <1>6, <1>7, <1>8 DEF NodeTrail

LEMMA SendsMember ==
  ASSUME TypeInv, NEW p, Sends(p), Drains, NEW n \in Nodes, Member(n)
  PROVE  Member(n)'
<1>1. /\ UNCHANGED <<active, reply, joined, pc, bt>>
      /\ \E got \in SUBSET joined : SentTo(got, p)
  BY DEF Sends, cltVars
<1>2. \A i \in 1..Len(toServer') :
        toServer'[i].type = "DISCONNECT" /\ toServer'[i].node = n => pc[n] = "closed"
  BY DEF Drains, Member
<1>3. n \notin joined => mcast'[n] = mcast[n]
  BY <1>1 DEF SentTo
<1> QED BY <1>1, <1>2, <1>3 DEF Member, Inside, Live

LEMMA SendsKnown ==
  ASSUME NEW T, Known(T), TypeInv', NEW p, NEW a, a = T[pkt_seq], NEW z \in Mark,
         Extends(p, a, z), Drains
  PROVE  \E U : Known(U)'
<1>0. TypeInv /\ Members /\ T \in [Nat -> Mark] /\ pkt_seq \in Nat
  BY DEF Known, TypeInv, SrvTypeOK
<1>1. PICK U : U = [T EXCEPT ![pkt_seq + 1] = z]
  OBVIOUS
<1>2. U \in [Nat -> Mark]
  BY <1>0, <1>1
<1>3. ServerTrail(U)'
  BY <1>1, SendsServer
<1>4. \A n \in Nodes : NodeTrail(U, n)'
  BY <1>1, SendsNode
<1>5. \A n \in Nodes : Member(n)'
  BY <1>0, SendsMember DEF Members, Extends
<1>6. Known(U)'
  BY <1>2, <1>3, <1>4, <1>5 DEF Known, Members, Follows
<1> QED BY <1>6

MarkOf(i, j, k, l) == [rp |-> i, dist |-> j, dlv |-> k, sav |-> l]

LEMMA MarkType ==
  ASSUME NEW i \in Nat, NEW j \in Nat, NEW k \in Nat, NEW l \in Nat
  PROVE  /\ MarkOf(i, j, k, l) \in Mark
         /\ MarkOf(i, j, k, l).rp = i /\ MarkOf(i, j, k, l).dist = j
         /\ MarkOf(i, j, k, l).dlv = k /\ MarkOf(i, j, k, l).sav = l
BY DEF Mark, MarkOf

LEMMA MarkExists ==
  \A i, j, k, l \in Nat :
    \E z \in Mark : z.rp = i /\ z.dist = j /\ z.dlv = k /\ z.sav = l
<1> SUFFICES ASSUME NEW i \in Nat, NEW j \in Nat, NEW k \in Nat, NEW l \in Nat
             PROVE  \E z \in Mark : z.rp = i /\ z.dist = j /\ z.dlv = k /\ z.sav = l
  OBVIOUS
<1> DEFINE y == MarkOf(i, j, k, l)
<1>1. y \in Mark /\ y.rp = i /\ y.dist = j /\ y.dlv = k /\ y.sav = l
  BY MarkType
<1> QED BY <1>1

LEMMA ServerMark ==
  ASSUME NEW T, Known(T)
  PROVE  /\ T[pkt_seq] \in Mark /\ T[pkt_seq].rp = rp_seq /\ T[pkt_seq].dlv = Len(delivered)
         /\ T[pkt_seq].sav \in Nat /\ T[pkt_seq].sav <= Len(delivered)
         /\ T[pkt_seq].dist \in Nat
         /\ spc = "listen" => T[pkt_seq].dist = rp - global /\ T[pkt_seq].sav = Len(delivered)
         /\ rp_seq \in Nat /\ rp \in Nat /\ global \in Nat /\ delivered \in Seq(Transmission)
<1>1. ServerTrail(T) /\ pkt_seq \in Nat /\ pkt_seq \in 0..pkt_seq /\ T[pkt_seq] \in Mark
  BY DEF Known, TypeInv, SrvTypeOK, Follows
<1>2. T[pkt_seq].sav \in Nat /\ T[pkt_seq].dist \in Nat
  BY <1>1 DEF Mark
<1>3. rp_seq \in Nat /\ rp \in Nat /\ global \in Nat /\ delivered \in Seq(Transmission)
  BY DEF Known, TypeInv, SrvTypeOK
<1> QED BY <1>1, <1>2, <1>3 DEF ServerTrail

LEMMA BacktrackKnown ==
  ASSUME NEW T, Known(T), RecvTxBacktrack, UNCHANGED cltVars
  PROVE  \E U : Known(U)'
<1>0. TypeInv /\ NetType
  BY DEF Known, TypeInv
<1>1. /\ TypeInv' /\ spc = "listen" /\ spc' = "listen" /\ toServer # <<>>
      /\ toServer' = Tail(toServer) /\ Sends(BacktrackTo)
      /\ rp_seq' = rp_seq + 1 /\ rp' = TxOf(Head(toServer)).end
      /\ rp' < rp /\ UNCHANGED <<global, delivered>>
  BY <1>0, BacktrackTypes
<1>2. rp' \in Nat /\ global <= rp'
  BY <1>1 DEF TypeInv, SrvTypeOK, Dates
<1>3. PICK a \in Mark : a = T[pkt_seq]
  BY ServerMark
<1>4. /\ a.rp = rp_seq /\ a.dlv = Len(delivered) /\ a.dist = rp - global
      /\ a.sav = Len(delivered) /\ rp_seq \in Nat /\ rp \in Nat /\ global \in Nat
      /\ delivered \in Seq(Transmission)
  BY <1>1, <1>3, ServerMark
<1>5. PICK i, j, k \in Nat : i = rp_seq + 1 /\ j = rp' - global /\ k = Len(delivered)
  <2>0. global \in Nat
    BY <1>4
  <2>1. rp' - global \in Nat
    <3>1. \A x, y \in Nat : x <= y => y - x \in Nat
      OBVIOUS
    <3> QED BY <1>2, <2>0, <3>1, Zenon
  <2>2. Len(delivered) \in Nat /\ rp_seq + 1 \in Nat
    BY <1>4
  <2> QED BY <2>1, <2>2
<1>6. PICK z \in Mark : z.rp = i /\ z.dist = j /\ z.dlv = k /\ z.sav = k
  BY MarkExists
<1>7. PICK p : p = BacktrackTo
  OBVIOUS
<1>8. p.type = "BACKTRACK" /\ p.period = rp' - global /\ p.rp_seq = rp_seq + 1
  BY <1>1, <1>7 DEF BacktrackTo, BacktrackPkt
<1>9. Carries(p, a, z)'
  <2>1. z.dist < a.dist
    BY <1>1, <1>2, <1>4, <1>5, <1>6
  <2> QED BY <1>4, <1>5, <1>6, <1>8, <2>1 DEF Carries, RxTypes, ReleaseTypes
<1>10. Extends(p, a, z)
  BY <1>1, <1>4, <1>5, <1>6, <1>7, <1>8, <1>9 DEF Extends, RxTypes
<1>11. Drains
  BY <1>0, <1>1, TailIs DEF Drains, NetType
<1> QED BY <1>1, <1>3, <1>10, <1>11, SendsKnown

LEMMA DeliversIs ==
  ASSUME NEW p, Delivers(p), delivered \in Seq(Transmission)
  PROVE  /\ delivered' = delivered \/ \E e \in Transmission : delivered' = Append(delivered, e)
         /\ p.type \in RxTypes =>
              /\ p.to = active /\ Len(delivered') = Len(delivered) + 1
              /\ p.tx = Tag(delivered'[Len(delivered')])
         /\ p.type \notin RxTypes => delivered' = delivered
BY DEF Delivers, Tag

LEMMA ReleasesKnown ==
  ASSUME NEW T, Known(T), TypeInv', NEW p \in McastPkt, Releases(p)
  PROVE  \E U : Known(U)'
<1>1. /\ spc' = "listen" /\ Sends(p) /\ Delivers(p) /\ p.type \in ReleaseTypes
      /\ p.c_rp_seq = rp_seq /\ p.n_rp_seq = rp_seq + 1 /\ rp' = global + p.period
      /\ rp_seq' = rp_seq + 1 /\ UNCHANGED <<global, toServer>>
  BY DEF Releases
<1>2. PICK a \in Mark : a = T[pkt_seq]
  BY ServerMark
<1>3. /\ a.rp = rp_seq /\ a.dlv = Len(delivered)
      /\ rp_seq \in Nat /\ rp \in Nat /\ global \in Nat /\ delivered \in Seq(Transmission)
  BY <1>2, ServerMark
<1>4. p.period \in Nat
  BY <1>1, McastFields
<1>5. delivered' \in Seq(Transmission)
  BY DEF TypeInv, SrvTypeOK
<1>6. PICK i, k \in Nat : i = rp_seq + 1 /\ k = Len(delivered')
  BY <1>3, <1>5
<1>7. PICK z \in Mark : z.rp = i /\ z.dist = p.period /\ z.dlv = k /\ z.sav = k
  <2>1. PICK d \in Nat : d = p.period
    BY <1>4
  <2>2. \E z \in Mark : z.rp = i /\ z.dist = d /\ z.dlv = k /\ z.sav = k
    BY MarkExists
  <2> QED BY <2>1, <2>2
<1>8. /\ delivered' = delivered \/ \E e \in Transmission : delivered' = Append(delivered, e)
      /\ p.type \in RxTypes =>
           /\ p.to = active /\ Len(delivered') = Len(delivered) + 1
           /\ p.tx = Tag(delivered'[Len(delivered')])
      /\ p.type \notin RxTypes => delivered' = delivered
  BY <1>1, <1>3, DeliversIs
<1>9. Carries(p, a, z)'
  <2>1. p.type \in RxTypes => z.dlv = a.dlv + 1 /\ p.tx = Tag(delivered'[z.dlv])
    BY <1>3, <1>6, <1>7, <1>8
  <2>2. p.type \notin RxTypes => z.dlv = a.dlv
    BY <1>3, <1>6, <1>7, <1>8
  <2>3. p.type # "BACKTRACK" /\ p.type # "RX"
    BY <1>1 DEF ReleaseTypes
  <2> QED BY <1>1, <1>3, <1>6, <1>7, <2>1, <2>2, <2>3 DEF Carries, Tag
<1>10. Extends(p, a, z)
  BY <1>1, <1>3, <1>4, <1>6, <1>7, <1>8, <1>9 DEF Extends
<1> QED BY <1>1, <1>2, <1>10, SendsKnown DEF Drains

LEMMA HandsKnown ==
  ASSUME NEW T, Known(T), TypeInv', NEW p \in McastPkt, Hands(p)
  PROVE  \E U : Known(U)'
<1>1. /\ spc' = "core" /\ Sends(p) /\ Delivers(p) /\ p.type = "RX"
      /\ UNCHANGED <<rp_seq, toServer>>
  BY DEF Hands
<1>2. PICK a \in Mark : a = T[pkt_seq]
  BY ServerMark
<1>3. /\ a.rp = rp_seq /\ a.dlv = Len(delivered) /\ a.sav \in Nat /\ a.sav <= Len(delivered)
      /\ a.dist \in Nat /\ rp_seq \in Nat /\ delivered \in Seq(Transmission)
  BY <1>2, ServerMark
<1>5. delivered' \in Seq(Transmission)
  BY DEF TypeInv, SrvTypeOK
<1>6. PICK k \in Nat : k = Len(delivered')
  BY <1>5
<1>7. PICK z \in Mark : z.rp = rp_seq /\ z.dist = a.dist /\ z.dlv = k /\ z.sav = a.sav
  <2>1. PICK i, j, l \in Nat : i = rp_seq /\ j = a.dist /\ l = a.sav
    BY <1>3
  <2>2. \E z \in Mark : z.rp = i /\ z.dist = j /\ z.dlv = k /\ z.sav = l
    BY MarkExists
  <2> QED BY <2>1, <2>2
<1>8. /\ delivered' = delivered \/ \E e \in Transmission : delivered' = Append(delivered, e)
      /\ p.to = active /\ Len(delivered') = Len(delivered) + 1
      /\ p.tx = Tag(delivered'[Len(delivered')])
  BY <1>1, <1>3, DeliversIs DEF RxTypes
<1>9. Carries(p, a, z)'
  <2>1. z.dlv = a.dlv + 1 /\ p.tx = Tag(delivered'[z.dlv])
    BY <1>3, <1>6, <1>7, <1>8
  <2> QED BY <1>1, <1>3, <1>7, <2>1 DEF Carries, Tag, RxTypes, ReleaseTypes
<1>10. Extends(p, a, z)
  BY <1>1, <1>3, <1>6, <1>7, <1>8, <1>9 DEF Extends
<1> QED BY <1>1, <1>2, <1>10, SendsKnown DEF Drains

LEMMA DesyncKnown ==
  ASSUME NEW T, Known(T), TypeInv', Desynchronizes
  PROVE  Known(T)'
<1>1. /\ spc' = "desync"
      /\ UNCHANGED <<rp_seq, pkt_seq, active, delivered, toServer, reply, mcast, joined,
                     pc, bt, backup>>
  BY DEF Desynchronizes, netVars, cltVars
<1>2. Members'
  BY <1>1 DEF Known, Members, Member, Inside, Live
<1>3. ServerTrail(T)'
  BY <1>1 DEF Known, Follows, ServerTrail
<1>4. ASSUME NEW n \in Nodes PROVE NodeTrail(T, n)'
  <2>1. NodeTrail(T, n)
    BY DEF Known, Follows
  <2>2. InBox(T, n)' /\ InReply(T, n)'
    BY <1>1, <2>1 DEF NodeTrail, InBox, InReply, Carries
  <2>3. Inside(n)' => Knows(T, n)'
    BY <1>1, <2>1 DEF NodeTrail, Inside, Live, Knows, At, Heard
  <2> QED BY <2>2, <2>3 DEF NodeTrail
<1> QED BY <1>2, <1>3, <1>4 DEF Known, Follows

LEMMA ServerKnown ==
  ASSUME NEW T, Known(T), SrvNext, UNCHANGED cltVars
  PROVE  \E U : Known(U)'
<1>0. TypeInv
  BY DEF Known
<1>1. CASE RecvTxBacktrack
  BY <1>1, BacktrackKnown
<1>2. CASE SrvListen /\ ~ RecvTxBacktrack
  <2>1. Known(T)'
    BY <1>2, ListenKnown
  <2> QED BY <2>1
<1>3. CASE SrvCore
  <2>1. /\ TypeInv'
        /\ \/ \E p \in McastPkt : Releases(p) \/ Hands(p)
           \/ Desynchronizes
    BY <1>0, <1>3, CoreTypes
  <2>2. ASSUME NEW p \in McastPkt, Releases(p)
        PROVE  \E U : Known(U)'
    BY <2>1, <2>2, ReleasesKnown
  <2>3. ASSUME NEW p \in McastPkt, Hands(p)
        PROVE  \E U : Known(U)'
    BY <2>1, <2>3, HandsKnown
  <2>4. CASE Desynchronizes
    <3>1. Known(T)'
      BY <2>1, <2>4, DesyncKnown
    <3> QED BY <3>1
  <2> QED BY <2>1, <2>2, <2>3, <2>4
<1> QED BY <1>1, <1>2, <1>3 DEF SrvNext

Trail == \E T : Known(T)

LEMMA InitTrail == Init => Trail
<1> SUFFICES ASSUME Init PROVE Trail
  OBVIOUS
<1>1. TypeInv
  BY InitTypes
<1>2. Members
  <2> SUFFICES ASSUME NEW n \in Nodes PROVE Member(n)
    BY DEF Members
  <2>1. /\ pc[n] = "off" /\ bt[n] = PowerOn /\ mcast[n] = <<>> /\ reply[n] = <<>>
        /\ toServer = <<>> /\ joined = {}
    BY DEF Init, CltInit, NetInit
  <2> QED BY <2>1 DEF Member, Inside, Live
<1>3. PICK z \in Mark : z.rp = 1 /\ z.dist = SYNCH_PERIOD /\ z.dlv = 0 /\ z.sav = 0
  <2>1. SYNCH_PERIOD \in Nat
    BY ServerAssumption
  <2> QED BY <2>1, MarkExists
<1>4. PICK T \in [Nat -> Mark] : T = [k \in Nat |-> z]
  BY <1>3
<1>6. ServerTrail(T)
  <2>1. /\ pkt_seq = 0 /\ rp_seq = 1 /\ rp = SYNCH_PERIOD /\ global = 0
        /\ delivered = <<>>
    BY DEF Init, SrvInit
  <2>2. \A k \in 0..pkt_seq : T[k] = z
    BY <1>4, <2>1
  <2> QED BY <1>3, <2>1, <2>2, ServerAssumption DEF ServerTrail
<1>7. ASSUME NEW n \in Nodes PROVE NodeTrail(T, n)
  <2>1. ~ Inside(n) /\ mcast[n] = <<>> /\ reply[n] = <<>>
    BY DEF Init, CltInit, NetInit, Inside, Live
  <2> QED BY <2>1 DEF NodeTrail, InBox, InReply
<1> QED BY <1>1, <1>2, <1>6, <1>7 DEF Trail, Known, Follows

LEMMA NextTrail == Trail /\ [Next]_vars => Trail'
<1> SUFFICES ASSUME Trail, [Next]_vars PROVE Trail'
  OBVIOUS
<1>0. PICK T : Known(T)
  BY DEF Trail
<1>1. CASE Server
  BY <1>0, <1>1, ServerKnown DEF Server, Trail
<1>2. ASSUME NEW n \in Nodes, Node(n) \/ User(n)
      PROVE  Trail'
  <2>1. UNCHANGED srvVars /\ (CltStep(n) \/ CltUser(n))
    BY <1>2 DEF Node, User
  <2>2. Known(T)'
    BY <1>0, <2>1, NodeKnown
  <2> QED BY <2>2 DEF Trail
<1>3. CASE UNCHANGED vars
  <2>1. TypeInv'
    BY <1>0, NextTypes DEF Known
  <2>2. UNCHANGED <<spc, global, rp, rp_seq, pkt_seq, active, delivered, toServer, reply,
                    mcast, joined, pc, bt, backup>>
    BY <1>3 DEF vars, srvVars, cltVars, netVars
  <2>3. Members'
    BY <1>0, <2>2 DEF Known, Members, Member, Inside, Live
  <2>4. ServerTrail(T)'
    BY <1>0, <2>2 DEF Known, Follows, ServerTrail
  <2>5. ASSUME NEW n \in Nodes PROVE NodeTrail(T, n)'
    <3>1. NodeTrail(T, n)
      BY <1>0 DEF Known, Follows
    <3>2. InBox(T, n)' /\ InReply(T, n)'
      BY <2>2, <3>1 DEF NodeTrail, InBox, InReply, Carries
    <3>3. Inside(n)' => Knows(T, n)'
      BY <2>2, <3>1 DEF NodeTrail, Inside, Live, Knows, At, Heard
    <3> QED BY <3>2, <3>3 DEF NodeTrail
  <2>6. Known(T)'
    BY <1>0, <2>1, <2>3, <2>4, <2>5 DEF Known, Follows
  <2> QED BY <2>6 DEF Trail
<1> QED BY <1>1, <1>2, <1>3 DEF Next, Finished

LEMMA TrailAlways == Spec => []Trail
<1>1. Init => Trail
  BY InitTrail
<1>2. Trail /\ [Next]_vars => Trail'
  BY NextTrail
<1> QED BY <1>1, <1>2, PTL DEF Spec

LEMMA TrailOrder == Trail => RxInOrder
<1> SUFFICES ASSUME NEW T, Known(T), NEW n \in Nodes, Live(n)
             PROVE  \E k \in 0..Len(delivered) - Len(bt[n].got) : GotFrom(n, k)
  BY DEF Trail, RxInOrder
<1>1. Knows(T, n) /\ bt[n].got \in Seq(Got) /\ pkt_seq \in Nat /\ ServerTrail(T)
      /\ delivered \in Seq(Transmission)
  BY NodeMark, MachineFields DEF Known, Follows, NodeTrail, Inside, TypeInv, SrvTypeOK
<1>2. PICK x \in Nat : x = bt[n].rx_pkt_seq
  BY NodeMark
<1>3. x \in 0..pkt_seq /\ T[x] \in Mark
  BY <1>1, <1>2, NodeMark DEF Knows
<1>4. PICK d \in Nat : d = T[x].dlv
  BY <1>3 DEF Mark
<1>5. d <= Len(delivered) /\ Heard(bt[n].got, d)
  BY <1>1, <1>2, <1>3, <1>4 DEF ServerTrail, Knows, At
<1>6. d - Len(bt[n].got) \in 0..Len(delivered) - Len(bt[n].got)
  BY <1>1, <1>5 DEF Heard
<1>7. GotFrom(n, d - Len(bt[n].got))
  BY <1>5 DEF GotFrom, Heard, Tag
<1> QED BY <1>6, <1>7

\* Whatever is lost, however often the nodes go back, quit, or are stopped and
\* restarted, what a node has received are consecutive deliveries, in the order
\* in which the server made them.
THEOREM ReceptionInOrder == Spec => []RxInOrder
BY TrailAlways, TrailOrder, PTL
-----------------------------------------------------------------------------
(***************************************************************************)
(* The rendez-vous of WSNet1: when no datagram is lost and no node is      *)
(* interrupted, the server counts exactly the nodes that wait for it, a    *)
(* node that is up to date agrees with it, no node goes far beyond its     *)
(* rendez-vous, and none receives a byte before the byte has ended.        *)
(***************************************************************************)

\* Nothing is lost, programs are silent while nodes start, nobody types
\* Control-C, and the char that counts the nodes is large enough for them.
Tame == ~ Loss /\ QuietStart /\ CanQuit = {} /\ MaxNodes <= CharMax

-----------------------------------------------------------------------------
(* Counting the SYNCHED packets of a queue. *)

SynchedAt(q, s) == {i \in 1..Len(q) : q[i].type = "SYNCHED" /\ q[i].rp_seq = s}

LEMMA SynchedFinite ==
  ASSUME NEW q \in Seq(ClientPkt), NEW s
  PROVE  IsFiniteSet(SynchedAt(q, s)) /\ Cardinality(SynchedAt(q, s)) \in Nat
<1>1. IsFiniteSet(1..Len(q))
  BY FS_Interval
<1>2. SynchedAt(q, s) \in SUBSET (1..Len(q))
  BY DEF SynchedAt
<1> QED BY <1>1, <1>2, FS_Subset, FS_CardinalityType

LEMMA SynchedAppend ==
  ASSUME NEW q \in Seq(ClientPkt), NEW s, NEW p \in ClientPkt
  PROVE  Cardinality(SynchedAt(Append(q, p), s)) =
           IF p.type = "SYNCHED" /\ p.rp_seq = s THEN Cardinality(SynchedAt(q, s)) + 1
                                                 ELSE Cardinality(SynchedAt(q, s))
<1> DEFINE r == Append(q, p)
           A == SynchedAt(q, s)
<1>1. /\ Len(r) = Len(q) + 1 /\ r[Len(q) + 1] = p /\ Len(q) \in Nat
      /\ \A i \in 1..Len(q) : r[i] = q[i]
  OBVIOUS
<1>2. 1..Len(r) = (1..Len(q)) \cup {Len(q) + 1}
  BY <1>1
<1> HIDE DEF r
<1>3. CASE p.type = "SYNCHED" /\ p.rp_seq = s
  <2>1. SynchedAt(r, s) = A \cup {Len(q) + 1}
    BY <1>1, <1>2, <1>3 DEF SynchedAt
  <2>2. Len(q) + 1 \notin A
    BY <1>1 DEF SynchedAt
  <2>3. IsFiniteSet(A)
    BY SynchedFinite
  <2> HIDE DEF A
  <2>4. Cardinality(A \cup {Len(q) + 1}) = Cardinality(A) + 1
    BY <2>2, <2>3, FS_AddElement
  <2> QED BY <1>3, <2>1, <2>4 DEF r, A
<1>4. CASE ~ (p.type = "SYNCHED" /\ p.rp_seq = s)
  <2>1. SynchedAt(r, s) = A
    BY <1>1, <1>2, <1>4 DEF SynchedAt
  <2> QED BY <1>4, <2>1 DEF r
<1> QED BY <1>3, <1>4

LEMMA SynchedTail ==
  ASSUME NEW q \in Seq(ClientPkt), q # <<>>, NEW s
  PROVE  Cardinality(SynchedAt(q, s)) =
           IF Head(q).type = "SYNCHED" /\ Head(q).rp_seq = s
             THEN Cardinality(SynchedAt(Tail(q), s)) + 1
             ELSE Cardinality(SynchedAt(Tail(q), s))
<1> DEFINE t == Tail(q)
           A == SynchedAt(t, s)
           B == SynchedAt(q, s) \ {1}
           f == [i \in A |-> i + 1]
<1>1. /\ t \in Seq(ClientPkt) /\ Head(q) = q[1] /\ Len(t) = Len(q) - 1 /\ Len(q) \in Nat
      /\ Len(t) \in Nat /\ Len(q) >= 1 /\ \A i \in 1..Len(t) : t[i] = q[i + 1]
  OBVIOUS
<1> HIDE DEF t
<1>2. IsFiniteSet(A) /\ IsFiniteSet(SynchedAt(q, s))
  BY <1>1, SynchedFinite
<1>3. \A i \in A : i \in Nat /\ i + 1 \in B
  BY <1>1 DEF SynchedAt
<1>4. \A j \in B : j \in Nat /\ j - 1 \in A /\ (j - 1) + 1 = j
  BY <1>1 DEF SynchedAt
<1>5. ExistsBijection(A, B)
  <2>1. f \in [A -> B]
    BY <1>3
  <2>2. \A i, j \in A : f[i] = f[j] => i = j
    BY <1>3
  <2>3. \A j \in B : \E i \in A : f[i] = j
    BY <1>4
  <2> HIDE DEF f, A, B
  <2>4. f \in Injection(A, B)
    BY <2>1, <2>2, Zenon DEF Injection, IsInjective
  <2>5. f \in Surjection(A, B)
    BY <2>1, <2>3, Zenon DEF Surjection
  <2> QED BY <2>4, <2>5 DEF ExistsBijection, Bijection
<1>6. Cardinality(B) = Cardinality(A)
  BY <1>2, <1>5, FS_Bijection
<1>7. Cardinality(B) = IF 1 \in SynchedAt(q, s) THEN Cardinality(SynchedAt(q, s)) - 1
                                                ELSE Cardinality(SynchedAt(q, s))
  BY <1>2, FS_RemoveElement
<1>8. 1 \in SynchedAt(q, s) <=> Head(q).type = "SYNCHED" /\ Head(q).rp_seq = s
  BY <1>1 DEF SynchedAt
<1>9. Cardinality(A) \in Nat /\ Cardinality(SynchedAt(q, s)) \in Nat
  BY <1>2, FS_CardinalityType
<1> QED BY <1>6, <1>7, <1>8, <1>9 DEF t

-----------------------------------------------------------------------------
(* The order of the simulation: an inductive invariant. *)

\* No CONNECT of n is waiting for the server, unless n waits for its answer;
\* and then there is one only.
Calls(n) ==
  \A i \in 1..Len(toServer) :
    toServer[i].type = "CONNECT" /\ toServer[i].node = n =>
      /\ pc[n] = "connecting" /\ n \notin active /\ reply[n] = <<>>
      /\ \A j \in 1..Len(toServer) :
           toServer[j].type = "CONNECT" /\ toServer[j].node = n => j = i

\* A node that is starting up is answered once, and nothing is sent to the
\* group between the answer and its first turn.
Starting(n) ==
  /\ pc[n] = "off" => n \notin active /\ reply[n] = <<>>
  /\ pc[n] = "connecting" =>
       IF n \in active
         THEN Len(reply[n]) = 1 /\ reply[n][1].type = "ATTRADDR" /\ reply[n][1].seq = pkt_seq
         ELSE \A i \in 1..Len(reply[n]) : reply[n][i].type = "NOATTRADDR"
  /\ pc[n] = "joining" => bt[n].rx_pkt_seq = pkt_seq

\* The packets a live node has to parse are the next ones, up to the last.
InSequence(n) ==
  Live(n) => /\ bt[n].rx_pkt_seq + Len(mcast[n]) = pkt_seq
             /\ \A i \in 1..Len(mcast[n]) :
                  mcast[n][i].seq = (bt[n].rx_pkt_seq + i) - 1

\* A node waits for the others exactly when it is blocked, at its rendez-vous
\* or beyond it, and its saved state waits for nothing.
Waiting(n) ==
  Inside(n) => /\ bt[n].pending <=> pc[n] = "synched"
               /\ bt[n].pending => bt[n].now >= bt[n].next_rp
               /\ ~ backup[n].pending

NodeOrder(n) == Calls(n) /\ Starting(n) /\ InSequence(n) /\ Waiting(n)

\* Nobody has announced a rendez-vous to come, and a byte is on its way to the
\* server only when every node has started.
Requests ==
  \A i \in 1..Len(toServer) :
    /\ toServer[i].type = "TX" => Quiet
    /\ toServer[i].type = "SYNCHED" => toServer[i].rp_seq <= rp_seq

Blocks == {n \in active : Blocked(n)}
Unheard == Cardinality(SynchedAt(toServer, rp_seq))

Barrier ==
  /\ IsFiniteSet(active) /\ c_nodes = Cardinality(active) /\ c_nodes <= MaxNodes
  /\ spc = "listen" => synched >= 0 /\ synched + Unheard = Cardinality(Blocks)
  /\ spc = "core" => Unheard = 0 /\ Blocks = active

Orderly == (\A n \in Nodes : NodeOrder(n)) /\ Requests /\ Barrier

LEMMA BarrierFacts ==
  ASSUME TypeInv, Barrier
  PROVE  /\ IsFiniteSet(Blocks) /\ Cardinality(Blocks) \in Nat /\ c_nodes \in Nat
         /\ Cardinality(Blocks) <= c_nodes /\ Unheard \in Nat
         /\ Cardinality(Blocks) = c_nodes => Blocks = active
<1>1. Blocks \in SUBSET active
  BY DEF Blocks
<1>2. IsFiniteSet(active) /\ c_nodes = Cardinality(active)
  BY DEF Barrier
<1>3. toServer \in Seq(ClientPkt)
  BY DEF TypeInv, NetType
<1> QED BY <1>1, <1>2, <1>3, FS_Subset, FS_CardinalityType, SynchedFinite DEF Unheard

\* A step that does not touch what the barrier is about.
LEMMA BarrierSame ==
  ASSUME TypeInv, Barrier, UNCHANGED <<spc, synched, c_nodes, rp_seq, active>>,
         \A m \in Nodes : Blocked(m)' <=> Blocked(m),
         Unheard' = Unheard
  PROVE  Barrier'
<1>1. active \subseteq Nodes
  BY DEF TypeInv, SrvTypeOK
<1>2. Blocks' = Blocks
  BY <1>1 DEF Blocks
<1> QED BY <1>2 DEF Barrier

\* A node reaches the rendez-vous of the server, and tells it.
LEMMA BarrierJoined ==
  ASSUME TypeInv, Barrier, UNCHANGED <<spc, synched, c_nodes, rp_seq, active>>,
         NEW n \in active, ~ Blocked(n), Blocked(n)',
         \A m \in Nodes \ {n} : Blocked(m)' <=> Blocked(m),
         Unheard' = Unheard + 1
  PROVE  Barrier'
<1>1. active \subseteq Nodes
  BY DEF TypeInv, SrvTypeOK
<1>2. Blocks' = Blocks \cup {n} /\ n \notin Blocks /\ Blocks # active
  BY <1>1 DEF Blocks
<1>3. IsFiniteSet(Blocks) /\ Unheard \in Nat /\ Cardinality(Blocks) \in Nat
  BY BarrierFacts
<1>4. Cardinality(Blocks') = Cardinality(Blocks) + 1
  BY <1>2, <1>3, FS_AddElement
<1>5. spc # "core" /\ (spc = "listen" => synched >= 0 /\ synched + Unheard = Cardinality(Blocks))
  BY <1>2 DEF Barrier
<1>6. synched \in Int
  BY DEF TypeInv, SrvTypeOK
<1>7. spc = "listen" => synched' >= 0 /\ synched' + Unheard' = Cardinality(Blocks')
  <2> DEFINE u == Unheard
             k == Cardinality(Blocks)
  <2>1. spc = "listen" => synched >= 0 /\ synched + (u + 1) = k + 1
    BY <1>3, <1>5, <1>6
  <2> QED BY <1>4, <2>1
<1>8. /\ IsFiniteSet(active)' /\ (c_nodes = Cardinality(active))' /\ (c_nodes <= MaxNodes)'
  BY DEF Barrier
<1> QED BY <1>5, <1>7, <1>8 DEF Barrier

-----------------------------------------------------------------------------
(* What a step of one node leaves alone. *)

CallOf(p, n) == p.type = "CONNECT" /\ p.node = n

LEMMA WrittenCalls ==
  ASSUME NetType, NEW m \in Nodes, Calls(m), NEW p \in ClientPkt, Writes(p), ~ CallOf(p, m),
         pc'[m] = pc[m], reply'[m] = reply[m], m \in active' => m \in active
  PROVE  Calls(m)'
<1>1. \A i \in 1..Len(toServer') : CallOf(toServer'[i], m) =>
        i \in 1..Len(toServer) /\ toServer'[i] = toServer[i]
  BY WrittenIs
<1> QED BY <1>1 DEF Calls, CallOf

LEMMA WrittenNoCall ==
  ASSUME NetType, NEW m \in Nodes, NEW p \in ClientPkt, Writes(p), ~ CallOf(p, m),
         \A i \in 1..Len(toServer) : ~ CallOf(toServer[i], m)
  PROVE  Calls(m)'
<1>1. \A i \in 1..Len(toServer') : ~ CallOf(toServer'[i], m)
  BY WrittenIs
<1> QED BY <1>1 DEF Calls, CallOf

LEMMA IdleOrder ==
  ASSUME NetType, NEW m \in Nodes, NodeOrder(m), Idle(m), mcast'[m] = mcast[m],
         reply'[m] = reply[m], UNCHANGED <<active, pkt_seq>>,
         NEW p \in ClientPkt, Writes(p), ~ CallOf(p, m)
  PROVE  NodeOrder(m)'
<1>1. /\ pc'[m] = pc[m] /\ bt'[m] = bt[m] /\ backup'[m] = backup[m]
      /\ active' = active /\ pkt_seq' = pkt_seq
  BY DEF Idle
<1>2. Calls(m)'
  BY <1>1, WrittenCalls DEF NodeOrder
<1>3. Starting(m)'
  BY <1>1 DEF NodeOrder, Starting
<1>4. InSequence(m)'
  BY <1>1 DEF NodeOrder, InSequence, Live
<1>5. Waiting(m)'
  BY <1>1 DEF NodeOrder, Waiting, Inside, Live
<1> QED BY <1>2, <1>3, <1>4, <1>5 DEF NodeOrder

LEMMA WrittenRequests ==
  ASSUME NetType, Requests, NEW p \in ClientPkt, Writes(p), UNCHANGED rp_seq,
         Quiet => Quiet', p.type = "TX" => Quiet',
         p.type = "SYNCHED" => p.rp_seq <= rp_seq
  PROVE  Requests'
<1>1. ASSUME NEW i \in 1..Len(toServer')
      PROVE  /\ toServer'[i].type = "TX" => Quiet'
             /\ toServer'[i].type = "SYNCHED" => toServer'[i].rp_seq <= rp_seq
  BY WrittenIs DEF Requests
<1> QED BY <1>1 DEF Requests

StartValues == {"off", "connecting", "joining"}

LEMMA QuietLater ==
  ASSUME NEW n \in Nodes, \A m \in Nodes \ {n} : pc'[m] = pc[m],
         pc'[n] \in StartValues => pc[n] \in StartValues
  PROVE  Quiet => Quiet'
BY DEF Quiet, StartValues

LEMMA WrittenUnheard ==
  ASSUME NetType, NEW p \in ClientPkt, Writes(p), UNCHANGED rp_seq
  PROVE  /\ p.type # "SYNCHED" \/ p.rp_seq # rp_seq => Unheard' = Unheard
         /\ toServer' = Append(toServer, p) /\ p.type = "SYNCHED" /\ p.rp_seq = rp_seq
              => Unheard' = Unheard + 1
<1>1. toServer \in Seq(ClientPkt)
  BY DEF NetType
<1>2. CASE toServer' = Append(toServer, p)
  <2>1. Cardinality(SynchedAt(Append(toServer, p), rp_seq)) =
          IF p.type = "SYNCHED" /\ p.rp_seq = rp_seq
            THEN Cardinality(SynchedAt(toServer, rp_seq)) + 1
            ELSE Cardinality(SynchedAt(toServer, rp_seq))
    BY <1>1, SynchedAppend
  <2> QED BY <1>2, <2>1 DEF Unheard
<1>3. CASE toServer' = toServer
  <2>1. toServer # Append(toServer, p)
    BY <1>1
  <2>2. Unheard' = Unheard
    BY <1>3 DEF Unheard
  <2> QED BY <1>3, <2>1, <2>2
<1> QED BY <1>2, <1>3 DEF Writes

LEMMA IdleBlocked ==
  ASSUME NEW m \in Nodes, Idle(m), UNCHANGED rp_seq
  PROVE  Blocked(m)' <=> Blocked(m)
BY DEF Idle, Blocked

\* A step of node n that announces nothing.
LEMMA OneOrder ==
  ASSUME TypeInv, Orderly, NEW n \in Nodes, UNCHANGED srvVars,
         \A m \in Nodes \ {n} : Idle(m) /\ mcast'[m] = mcast[m] /\ reply'[m] = reply[m],
         NEW p \in ClientPkt, Writes(p), p.type = "CONNECT" => p.node = n,
         p.type # "SYNCHED", p.type = "TX" => Quiet,
         pc'[n] \in StartValues => pc[n] \in StartValues,
         NodeOrder(n)', Blocked(n)' <=> Blocked(n)
  PROVE  Orderly'
<1>0. NetType /\ UNCHANGED <<spc, synched, c_nodes, rp_seq, active, pkt_seq>>
  BY DEF TypeInv, srvVars
<1>1. ASSUME NEW m \in Nodes PROVE NodeOrder(m)'
  <2>1. CASE m # n
    <3>1. ~ CallOf(p, m)
      BY <2>1 DEF CallOf
    <3> QED BY <1>0, <2>1, <3>1, IdleOrder DEF Orderly
  <2> QED BY <2>1
<1>2. Quiet => Quiet'
  BY QuietLater DEF Idle
<1>3. Requests'
  BY <1>0, <1>2, WrittenRequests DEF Orderly
<1>4. \A m \in Nodes : Blocked(m)' <=> Blocked(m)
  BY <1>0, IdleBlocked
<1>5. Barrier'
  BY <1>0, <1>4, WrittenUnheard, BarrierSame DEF Orderly
<1> QED BY <1>1, <1>3, <1>5 DEF Orderly

-----------------------------------------------------------------------------
(* The steps of a node keep the order. *)

LEMMA LiveIs ==
  ASSUME NEW n \in Nodes, Live(n)
  PROVE  /\ Inside(n) /\ pc[n] # "off" /\ pc[n] # "connecting" /\ pc[n] # "joining"
         /\ pc[n] \notin StartValues
BY DEF Live, Inside, StartValues

\* A live node has called nobody, and calls nobody.
LEMMA LiveCalls ==
  ASSUME NetType, NEW n \in Nodes, Calls(n), Live(n), NEW p \in ClientPkt, Writes(p),
         p.type # "CONNECT"
  PROVE  Calls(n)'
<1>1. \A i \in 1..Len(toServer) : ~ CallOf(toServer[i], n)
  BY LiveIs DEF Calls, CallOf
<1>2. ~ CallOf(p, n)
  BY DEF CallOf
<1> QED BY <1>1, <1>2, WrittenNoCall

LEMMA LiveStarting ==
  ASSUME NEW n \in Nodes, Live(n)'
  PROVE  Starting(n)'
BY DEF Live, Starting

LEMMA LocalOrder ==
  ASSUME Tame, NEW T, Known(T), Orderly, NEW n \in Nodes, Local(n)
  PROVE  Orderly'
<1>0. /\ TypeInv /\ NetType /\ CltTypeOK /\ Member(n) /\ NodeOrder(n) /\ Requests /\ Barrier
  BY OwnState DEF Orderly
<1>1. /\ UNCHANGED <<srvVars, backup, mcast, reply, joined>>
      /\ \A m \in Nodes \ {n} : Idle(m)
      /\ SameView(bt[n], bt'[n])
      /\ Live(n) /\ Live(n)' /\ pc[n] # "synched"
  BY DEF Local, Live
<1>2. Inside(n) /\ Inside(n)' /\ ~ bt[n].pending /\ ~ backup[n].pending
  BY <1>0, <1>1 DEF NodeOrder, Waiting, Inside
<1>3. InSequence(n)'
  <2>1. bt'[n].rx_pkt_seq = bt[n].rx_pkt_seq /\ mcast' = mcast /\ pkt_seq' = pkt_seq
    BY <1>1 DEF SameView, srvVars
  <2> QED BY <1>0, <1>1, <2>1 DEF NodeOrder, InSequence
<1>4. Starting(n)'
  BY <1>1, LiveStarting
<1>5. pc[n] \notin StartValues /\ pc'[n] \notin StartValues
  BY <1>1 DEF Live, StartValues
<1>6. CASE pc'[n] # "synched"
  <2>1. ~ bt'[n].pending
    BY <1>2, <1>6 DEF Local
  <2>2. Waiting(n)'
    BY <1>1, <1>2, <1>6, <2>1 DEF Waiting
  <2>3. Blocked(n)' <=> Blocked(n)
    BY <1>1, <1>6 DEF Blocked
  <2>4. PICK p \in ClientPkt :
          /\ Writes(p) /\ p.type \notin {"CONNECT", "SYNCHED"} /\ (p.type = "TX" => Quiet)
    <3>1. CASE toServer' = toServer
      <4>1. DisconnectPkt(n) \in ClientPkt /\ DisconnectPkt(n).type = "DISCONNECT"
        BY DEF DisconnectPkt, ClientPkt
      <4> QED BY <3>1, <4>1 DEF Writes
    <3>2. CASE toServer' # toServer
      <4>1. PICK p \in ClientPkt : /\ toServer' = Append(toServer, p) /\ p.type = "TX"
                                   /\ QuietStart => Quiet
        BY <1>6, <3>2 DEF Local
      <4> QED BY <4>1 DEF Writes, Tame
    <3> QED BY <3>1, <3>2
  <2>5. Calls(n)'
    BY <1>0, <1>1, <2>4, LiveCalls DEF NodeOrder
  <2>6. NodeOrder(n)'
    BY <1>3, <1>4, <2>2, <2>5 DEF NodeOrder
  <2> QED BY <1>0, <1>1, <1>5, <2>3, <2>4, <2>6, OneOrder
<1>7. CASE pc'[n] = "synched"
  <2> DEFINE p == SynchedPkt(bt[n].rp_seq)
  <2>1. /\ bt'[n].pending /\ bt'[n].now >= bt'[n].next_rp /\ toServer' = Append(toServer, p)
    BY <1>7 DEF Local
  <2>2. bt[n].rp_seq \in Nat
    BY <1>0, MachineFields DEF CltTypeOK
  <2>3. p \in ClientPkt /\ p.type = "SYNCHED" /\ p.rp_seq = bt[n].rp_seq
    BY <2>2 DEF SynchedPkt, ClientPkt
  <2> HIDE DEF p
  <2>4. Writes(p)
    BY <2>1 DEF Writes
  <2>5. bt[n].rp_seq <= rp_seq
    <3>1. Knows(T, n) /\ ServerTrail(T)
      BY <1>2 DEF Known, Follows, NodeTrail
    <3>2. bt[n].rp_seq = T[bt[n].rx_pkt_seq].rp /\ bt[n].rx_pkt_seq \in 0..pkt_seq
      BY <3>1, NodeMark DEF Knows, At
    <3> QED BY <3>1, <3>2 DEF ServerTrail
  <2>6. Waiting(n)'
    BY <1>1, <1>2, <1>7, <2>1 DEF Waiting
  <2>7. NodeOrder(n)'
    <3>1. Calls(n)'
      BY <1>0, <1>1, <2>3, <2>4, LiveCalls DEF NodeOrder
    <3> QED BY <1>3, <1>4, <2>6, <3>1 DEF NodeOrder
  <2>8. UNCHANGED <<spc, synched, c_nodes, rp_seq, active, pkt_seq>>
    BY <1>1 DEF srvVars
  <2>9. ASSUME NEW m \in Nodes PROVE NodeOrder(m)'
    <3>1. CASE m # n
      <4>1. ~ CallOf(p, m)
        BY <2>3 DEF CallOf
      <4>2. NodeOrder(m) /\ Idle(m) /\ mcast'[m] = mcast[m] /\ reply'[m] = reply[m]
        BY <1>1, <3>1 DEF Orderly
      <4> QED BY <1>0, <2>3, <2>4, <2>8, <4>1, <4>2, IdleOrder
    <3> QED BY <2>7, <3>1
  <2>10. Requests'
    <3>1. Quiet => Quiet'
      BY <1>1, <1>5, QuietLater DEF Idle
    <3> QED BY <1>0, <2>3, <2>4, <2>5, <2>8, <3>1, WrittenRequests
  <2>11. \A m \in Nodes \ {n} : Blocked(m)' <=> Blocked(m)
    BY <1>1, <2>8, IdleBlocked
  <2>12. ~ Blocked(n) /\ n \in active
    BY <1>0, <1>1, <1>2 DEF Blocked, Member
  <2>13. Barrier'
    <3>1. CASE bt[n].rp_seq = rp_seq
      <4>1. Blocked(n)'
        BY <1>1, <1>7, <2>1, <2>8, <3>1 DEF Blocked, SameView
      <4>2. Unheard' = Unheard + 1
        BY <1>0, <2>1, <2>3, <2>4, <2>8, <3>1, WrittenUnheard
      <4> QED BY <1>0, <2>8, <2>11, <2>12, <4>1, <4>2, BarrierJoined
    <3>2. CASE bt[n].rp_seq # rp_seq
      <4>1. ~ Blocked(n)'
        BY <1>1, <2>8, <3>2 DEF Blocked, SameView
      <4>2. Unheard' = Unheard
        BY <1>0, <2>3, <2>4, <2>8, <3>2, WrittenUnheard
      <4>3. \A m \in Nodes : Blocked(m)' <=> Blocked(m)
        BY <2>11, <2>12, <4>1
      <4> QED BY <1>0, <2>8, <4>2, <4>3, BarrierSame
    <3> QED BY <3>1, <3>2
  <2> QED BY <2>9, <2>10, <2>13 DEF Orderly
<1> QED BY <1>6, <1>7

\* A node that waits goes on waiting only when the packet is a mere byte:
\* the others release it, or make it go back.
WaitsOn(b, c, t, a, z) ==
  /\ ~ t.pending
  /\ c.pending => b.pending /\ c.now >= c.next_rp /\ c.rp_seq = b.rp_seq
  /\ b.pending /\ ~ c.pending => z.rp = a.rp + 1

LEMMA ParsedWaits ==
  ASSUME NEW n \in Nodes, NEW b \in Machine, NEW s \in Machine, NEW m \in McastPkt,
         NEW c \in Machine, NEW t \in Machine, ParsedTo(n, b, s, m, c, t),
         NEW a \in Mark, NEW z \in Mark, Carries(m, a, z),
         b.rp_seq = a.rp, b.next_rp = b.last_rp + a.dist,
         ~ s.pending, b.pending => b.now >= b.next_rp
  PROVE  WaitsOn(b, c, t, a, z)
<1>0. /\ a.dist \in Nat /\ z.dist \in Nat /\ b.last_rp \in Nat /\ b.now \in Nat
      /\ b.next_rp \in Nat
  BY MachineFields DEF Mark
<1>1. CASE /\ m.type = "BACKTRACK" /\ t = s
           /\ Moved(IF b.now > b.last_rp + m.period THEN s ELSE b, m, c)
  <2>1. m.period = z.dist /\ z.dist < a.dist /\ z.rp = a.rp + 1
    BY <1>1 DEF Carries
  <2>2. CASE b.pending
    <3>1. b.now > b.last_rp + m.period
      BY <1>0, <2>1, <2>2
    <3>2. Moved(s, m, c)
      BY <1>1, <3>1
    <3>3. ~ c.pending
      BY <3>2 DEF Moved
    <3> QED BY <1>1, <2>1, <3>3 DEF WaitsOn
  <2>3. CASE ~ b.pending
    <3>1. \E r \in {b, s} : Moved(r, m, c)
      BY <1>1
    <3>2. ~ c.pending
      BY <2>3, <3>1 DEF Moved
    <3> QED BY <1>1, <2>3, <3>2 DEF WaitsOn
  <2> QED BY <2>2, <2>3
<1>2. CASE m.type \in ReleaseTypes /\ Takes(n, b, m, c) /\ Leaves(b, m, c) /\ t = c
  <2>1. ~ c.pending /\ m.type # "RX"
    BY <1>2 DEF Leaves, ReleaseTypes
  <2>2. z.rp = a.rp + 1
    BY <2>1 DEF Carries
  <2> QED BY <1>2, <2>1, <2>2 DEF WaitsOn
<1>3. CASE /\ m.type \in ReleaseTypes => m.c_rp_seq # b.rp_seq
           /\ m.type # "BACKTRACK"
           /\ Takes(n, b, m, c) /\ Stays(b, c) /\ t = s
  <2>1. c.now = b.now /\ c.next_rp = b.next_rp /\ c.rp_seq = b.rp_seq /\ c.pending = b.pending
    BY <1>3 DEF Takes, Stays
  <2> QED BY <1>3, <2>1 DEF WaitsOn
<1> QED BY <1>1, <1>2, <1>3 DEF ParsedTo

LEMMA ParsedOwn ==
  ASSUME NEW T, Known(T), Orderly, NEW n \in Nodes, Parsed(n)
  PROVE  InSequence(n)' /\ Waiting(n)' /\ (Blocked(n)' <=> Blocked(n))
<1> DEFINE m == Head(mcast[n])
           b == Before(n)
           x == b.rx_pkt_seq
<1>0. /\ CltTypeOK /\ TypeInv /\ NetType /\ Live(n) /\ mcast[n] # <<>> /\ NodeOrder(n)
      /\ CltTypeOK' /\ Live(n)'
  BY DEF Known, TypeInv, Parsed, Orderly, Live
<1>1. InBox(T, n) /\ Knows(T, n) /\ ServerTrail(T)
  BY <1>0 DEF Known, Follows, NodeTrail, Inside
<1>2. PICK c \in Machine : ParsedAs(n, b, m, c)
  BY DEF Parsed
<1>3. /\ b \in Machine /\ SameView(bt[n], b) /\ x \in Nat /\ x = bt[n].rx_pkt_seq
      /\ b.pending = bt[n].pending
  BY <1>0, BeforeIs, MachineFields DEF SameView
<1>4. /\ backup[n] \in Machine /\ backup'[n] \in Machine /\ bt'[n] \in Machine
      /\ bt[n] \in Machine /\ bt[n].now \in Nat /\ b.now \in Nat
      /\ bt[n].pending \in BOOLEAN
  BY <1>0, <1>3, MachineFields DEF CltTypeOK
<1>5. /\ ~ backup[n].pending /\ (bt[n].pending <=> pc[n] = "synched")
      /\ b.pending => b.now >= b.next_rp
  <2>1. /\ ~ backup[n].pending /\ (bt[n].pending <=> pc[n] = "synched")
        /\ bt[n].pending => bt[n].now >= bt[n].next_rp
    BY <1>0 DEF NodeOrder, Waiting, Inside
  <2>2. pc[n] = "synched" => b = bt[n]
    BY DEF Before
  <2> QED BY <1>3, <2>1, <2>2
<1>6. /\ m \in McastPkt /\ m.seq = x /\ x < pkt_seq /\ Carries(m, T[x], T[x + 1])
      /\ m = mcast[n][1] /\ 1 \in 1..Len(mcast[n])
  <2>1. m = mcast[n][1] /\ 1 \in 1..Len(mcast[n])
    BY <1>0, TailIs DEF NetType
  <2>2. mcast[n][1].seq = (bt[n].rx_pkt_seq + 1) - 1
    BY <1>0, <2>1 DEF NodeOrder, InSequence
  <2>3. m.seq = x
    BY <1>3, <2>1, <2>2
  <2>4. m \in McastPkt
    BY <1>0, HeadIs
  <2> QED BY <1>1, <2>1, <2>3, <2>4 DEF InBox
<1>7. /\ T[x] \in Mark /\ T[x + 1] \in Mark
      /\ b.rp_seq = T[x].rp /\ b.next_rp = b.last_rp + T[x].dist
  <2>1. T[x] \in Mark /\ T[x + 1] \in Mark
    BY <1>3 DEF Known
  <2>2. At(b, backup[n], T[x])
    BY <1>1, <1>3, AtSameView DEF Knows
  <2> QED BY <2>1, <2>2 DEF At
<1>8. /\ ParsedTo(n, b, backup[n], m, c, backup'[n]) /\ SameMoment(c, bt'[n])
      /\ IF pc[n] = "synched" THEN pc'[n] = "synched" <=> c.pending
                              ELSE pc'[n] # "synched"
  <2>1. m.seq = b.rx_pkt_seq /\ m.seq <= b.rx_pkt_seq
    BY <1>3, <1>6
  <2> QED BY <1>2, <2>1 DEF ParsedAs
<1> HIDE DEF m, b, x
<1>9. /\ ~ backup'[n].pending
      /\ c.pending => b.pending /\ c.now >= c.next_rp /\ c.rp_seq = b.rp_seq
      /\ b.pending /\ ~ c.pending => T[x + 1].rp = T[x].rp + 1
  <2>1. WaitsOn(b, c, backup'[n], T[x], T[x + 1])
    BY <1>3, <1>4, <1>5, <1>6, <1>7, <1>8, ParsedWaits
  <2> QED BY <2>1 DEF WaitsOn
<1>10. c.pending \in BOOLEAN /\ bt'[n].pending = c.pending /\ b.pending \in BOOLEAN
  BY <1>3, <1>8, MachineFields DEF SameMoment
<1>11. pc'[n] = "synched" <=> bt'[n].pending
  BY <1>3, <1>5, <1>8, <1>9, <1>10
<1>12. bt'[n].pending => bt'[n].now >= bt'[n].next_rp
  BY <1>8, <1>9, <1>10 DEF SameMoment, SameView
<1>13. Waiting(n)'
  BY <1>9, <1>11, <1>12 DEF Waiting
<1>14. UNCHANGED <<rp_seq, pkt_seq>> /\ mcast'[n] = Tail(mcast[n])
  BY <1>0 DEF Parsed, srvVars, NetType
<1>15. InSequence(n)'
  <2>1. c.rx_pkt_seq = x + 1
    <3>1. CASE m.type = "BACKTRACK"
      <4>1. \E r \in Machine : Moved(r, m, c)
        BY <1>3, <1>4, <1>8, <3>1 DEF ParsedTo, ReleaseTypes
      <4> QED BY <1>6, <4>1 DEF Moved
    <3>2. CASE m.type # "BACKTRACK"
      <4>1. Takes(n, b, m, c)
        BY <1>8, <3>2 DEF ParsedTo
      <4> QED BY <4>1 DEF Takes, x
    <3> QED BY <3>1, <3>2
  <2>2. bt'[n].rx_pkt_seq = x + 1 /\ x = bt[n].rx_pkt_seq /\ x \in Nat
    BY <1>3, <1>8, <2>1 DEF SameMoment, SameView
  <2>3. mcast[n] \in Seq(McastPkt)
    BY <1>0 DEF NetType
  <2>4. /\ Len(mcast'[n]) = Len(mcast[n]) - 1 /\ Len(mcast[n]) \in Nat
        /\ \A i \in 1..Len(mcast'[n]) :
             i + 1 \in 1..Len(mcast[n]) /\ mcast'[n][i] = mcast[n][i + 1]
    BY <1>0, <1>14, <2>3
  <2>5. /\ x + Len(mcast[n]) = pkt_seq
        /\ \A i \in 1..Len(mcast[n]) : mcast[n][i].seq = (x + i) - 1
    BY <1>0, <2>2 DEF NodeOrder, InSequence
  <2>6. (x + 1) + Len(mcast'[n]) = pkt_seq
    <3>1. Len(mcast'[n]) = Len(mcast[n]) - 1 /\ Len(mcast[n]) \in Nat
      BY <2>4
    <3>2. x + Len(mcast[n]) = pkt_seq /\ x \in Nat
      BY <2>2, <2>5
    <3>3. \A k, l \in Nat : (x + 1) + (k - 1) = x + k
      BY <3>2
    <3> QED BY <3>1, <3>2, <3>3
  <2>7. ASSUME NEW i \in 1..Len(mcast'[n])
        PROVE  mcast'[n][i].seq = ((x + 1) + i) - 1
    <3>1. i + 1 \in 1..Len(mcast[n]) /\ mcast'[n][i] = mcast[n][i + 1]
      BY <2>4
    <3>2. mcast[n][i + 1].seq = (x + (i + 1)) - 1
      BY <2>5, <3>1
    <3>3. i \in Int /\ x \in Int
      BY <2>2
    <3>4. (x + (i + 1)) - 1 = ((x + 1) + i) - 1
      BY <3>3
    <3> QED BY <3>1, <3>2, <3>4
  <2> QED BY <1>14, <2>2, <2>6, <2>7 DEF InSequence
<1>16. Blocked(n)' <=> Blocked(n)
  <2>1. bt'[n].rp_seq = c.rp_seq /\ bt[n].rp_seq = b.rp_seq
    BY <1>3, <1>8 DEF SameMoment, SameView
  <2>2. CASE bt'[n].pending
    BY <1>3, <1>5, <1>9, <1>10, <1>11, <1>14, <2>1, <2>2 DEF Blocked
  <2>3. CASE ~ bt'[n].pending
    <3>1. ~ Blocked(n)'
      BY <2>3 DEF Blocked
    <3>2. ~ Blocked(n)
      <4>1. SUFFICES ASSUME Blocked(n) PROVE FALSE
        OBVIOUS
      <4>2. T[x + 1].rp = rp_seq + 1
        BY <1>3, <1>7, <1>9, <1>10, <2>1, <2>3, <4>1 DEF Blocked
      <4>3. x + 1 \in 0..pkt_seq /\ rp_seq \in Nat
        BY <1>0, <1>3, <1>6 DEF TypeInv, SrvTypeOK
      <4> QED BY <1>1, <4>2, <4>3 DEF ServerTrail
    <3> QED BY <3>1, <3>2
  <2> QED BY <1>10, <2>2, <2>3
<1> QED BY <1>13, <1>15, <1>16

LEMMA ParsedOrder ==
  ASSUME NEW T, Known(T), Orderly, NEW n \in Nodes, Parsed(n)
  PROVE  Orderly'
<1>0. TypeInv /\ NetType /\ NodeOrder(n)
  BY OwnState DEF Orderly
<1>1. /\ UNCHANGED <<srvVars, toServer, reply, joined>> /\ Live(n) /\ Live(n)'
      /\ \A m \in Nodes \ {n} : Idle(m) /\ mcast'[m] = mcast[m] /\ reply'[m] = reply[m]
  BY <1>0 DEF Parsed, Live, NetType
<1>2. PICK p \in ClientPkt : Writes(p) /\ p.type = "DISCONNECT"
  <2>1. DisconnectPkt(n) \in ClientPkt /\ DisconnectPkt(n).type = "DISCONNECT"
    BY DEF DisconnectPkt, ClientPkt
  <2> QED BY <1>1, <2>1 DEF Writes
<1>3. NodeOrder(n)'
  BY <1>0, <1>1, <1>2, ParsedOwn, LiveCalls, LiveStarting DEF NodeOrder
<1>4. pc'[n] \notin StartValues
  BY <1>1 DEF Live, StartValues
<1> QED BY <1>0, <1>1, <1>2, <1>3, <1>4, ParsedOwn, OneOrder

LEMMA OutsideOrder ==
  ASSUME NEW n \in Nodes, ~ Inside(n)'
  PROVE  InSequence(n)' /\ Waiting(n)' /\ ~ Blocked(n)'
BY DEF Inside, InSequence, Waiting, Blocked, Live

\* Nothing is written by a step that leaves the queue of the server alone.
LEMMA Silent ==
  ASSUME NEW n \in Nodes, UNCHANGED toServer
  PROVE  /\ DisconnectPkt(n) \in ClientPkt /\ Writes(DisconnectPkt(n))
         /\ DisconnectPkt(n).type = "DISCONNECT"
BY DEF DisconnectPkt, ClientPkt, Writes

LEMMA ConnectOrder ==
  ASSUME NEW T, Known(T), Orderly, NEW n \in Nodes, Connect(n), UNCHANGED srvVars
  PROVE  Orderly'
<1> DEFINE p == ConnectPkt(n)
<1>0. TypeInv /\ NetType /\ NodeOrder(n) /\ toServer \in Seq(ClientPkt)
  BY OwnState DEF Orderly, NetType
<1>1. /\ pc[n] = "off" /\ pc'[n] = "connecting" /\ p \in ClientPkt
      /\ \A m \in Nodes \ {n} : Idle(m)
      /\ toServer' = Append(toServer, p)
      /\ UNCHANGED <<bt, backup, reply, mcast, joined, active>>
  BY <1>0, ConnectStep DEF Elsewhere, srvVars
<1>2. n \notin active /\ reply[n] = <<>>
  BY <1>0, <1>1 DEF NodeOrder, Starting
<1>3. \A i \in 1..Len(toServer) : ~ CallOf(toServer[i], n)
  BY <1>0, <1>1 DEF NodeOrder, Calls, CallOf
<1>4. p.type = "CONNECT" /\ p.node = n
  BY DEF ConnectPkt
<1> HIDE DEF p
<1>5. \A i \in 1..Len(toServer') : CallOf(toServer'[i], n) => i = Len(toServer) + 1
  <2>1. \A i \in 1..Len(toServer') : i = Len(toServer) + 1 \/ i \in 1..Len(toServer)
    BY <1>0, <1>1
  <2>2. \A i \in 1..Len(toServer) : toServer'[i] = toServer[i]
    BY <1>0, <1>1
  <2> QED BY <1>3, <2>1, <2>2
<1>6. Calls(n)'
  BY <1>1, <1>2, <1>5 DEF Calls, CallOf
<1>7. Starting(n)'
  BY <1>1, <1>2 DEF Starting
<1>8. ~ Inside(n)' /\ ~ Blocked(n)
  BY <1>1 DEF Inside, Live, Blocked
<1>9. NodeOrder(n)' /\ (Blocked(n)' <=> Blocked(n))
  BY <1>6, <1>7, <1>8, OutsideOrder DEF NodeOrder
<1>10. Writes(p) /\ p.type # "SYNCHED" /\ p.type # "TX"
  BY <1>1, <1>4 DEF Writes
<1>11. pc[n] \in StartValues
  BY <1>1 DEF StartValues
<1> QED BY <1>0, <1>1, <1>4, <1>9, <1>10, <1>11, OneOrder

\* The one answer of the server, if it is the address.
LEMMA AnsweredOnce ==
  ASSUME NetType, NEW n \in Nodes, NodeOrder(n), pc[n] = "connecting", reply[n] # <<>>
  PROVE  /\ \A i \in 1..Len(toServer) : ~ CallOf(toServer[i], n)
         /\ Head(reply[n]).type = "ATTRADDR" =>
              n \in active /\ Head(reply[n]).seq = pkt_seq
<1>1. \A i \in 1..Len(toServer) : ~ CallOf(toServer[i], n)
  BY DEF NodeOrder, Calls, CallOf
<1>2. reply[n] \in Seq(ReplyPkt) /\ Head(reply[n]) = reply[n][1] /\ 1 \in 1..Len(reply[n])
  BY DEF NetType
<1>3. CASE n \in active
  <2>1. Len(reply[n]) = 1 /\ reply[n][1].seq = pkt_seq
    BY <1>3 DEF NodeOrder, Starting
  <2> QED BY <1>1, <1>2, <1>3, <2>1
<1>4. CASE n \notin active
  <2>1. reply[n][1].type = "NOATTRADDR"
    BY <1>2, <1>4 DEF NodeOrder, Starting
  <2> QED BY <1>1, <1>2, <2>1
<1> QED BY <1>3, <1>4

LEMMA ConnectedOrder ==
  ASSUME NEW T, Known(T), Orderly, NEW n \in Nodes, Connected(n), UNCHANGED srvVars
  PROVE  Orderly'
<1> DEFINE p == DisconnectPkt(n)
<1>0. TypeInv /\ NetType /\ CltTypeOK /\ NodeOrder(n)
  BY OwnState DEF Orderly
<1>1. /\ pc[n] = "connecting" /\ pc'[n] = "joining" /\ \A m \in Nodes \ {n} : Idle(m)
      /\ reply[n] # <<>> /\ Head(reply[n]).type = "ATTRADDR"
      /\ Answered(bt[n], Head(reply[n]), bt'[n]) /\ backup'[n] = bt'[n]
      /\ reply' = [reply EXCEPT ![n] = Tail(@)]
      /\ UNCHANGED <<toServer, mcast, joined, pkt_seq>>
  BY <1>0, ConnectedStep DEF Elsewhere, srvVars
<1>2. /\ \A i \in 1..Len(toServer) : ~ CallOf(toServer[i], n)
      /\ Head(reply[n]).seq = pkt_seq
  BY <1>0, <1>1, AnsweredOnce
<1>3. p \in ClientPkt /\ Writes(p) /\ p.type = "DISCONNECT"
  BY <1>1, Silent
<1> HIDE DEF p
<1>4. Calls(n)'
  <2>1. ~ CallOf(p, n)
    BY <1>3 DEF CallOf
  <2> QED BY <1>0, <1>2, <1>3, <2>1, WrittenNoCall
<1>5. bt'[n].rx_pkt_seq = pkt_seq /\ ~ bt'[n].pending
  BY <1>1, <1>2 DEF Answered
<1>6. Starting(n)' /\ InSequence(n)' /\ Waiting(n)'
  BY <1>1, <1>5 DEF Starting, InSequence, Waiting, Live
<1>7. Blocked(n)' <=> Blocked(n)
  BY <1>1 DEF Blocked
<1>8. \A m \in Nodes \ {n} : Idle(m) /\ mcast'[m] = mcast[m] /\ reply'[m] = reply[m]
  BY <1>0, <1>1 DEF NetType
<1>9. NodeOrder(n)' /\ pc[n] \in StartValues
  BY <1>1, <1>4, <1>6 DEF NodeOrder, StartValues
<1> QED BY <1>0, <1>3, <1>7, <1>8, <1>9, OneOrder

LEMMA RefusedOrder ==
  ASSUME NEW T, Known(T), Orderly, NEW n \in Nodes, Refused(n), UNCHANGED srvVars
  PROVE  Orderly'
<1> DEFINE p == DisconnectPkt(n)
<1>0. TypeInv /\ NetType /\ NodeOrder(n)
  BY OwnState DEF Orderly
<1>1. /\ pc[n] = "connecting" /\ pc'[n] = "refused" /\ \A m \in Nodes \ {n} : Idle(m)
      /\ reply[n] # <<>>
      /\ reply' = [reply EXCEPT ![n] = Tail(@)]
      /\ UNCHANGED <<toServer, mcast, joined>>
  BY <1>0, RefusedStep DEF Elsewhere
<1>2. \A i \in 1..Len(toServer) : ~ CallOf(toServer[i], n)
  BY <1>0, <1>1, AnsweredOnce
<1>3. p \in ClientPkt /\ Writes(p) /\ p.type = "DISCONNECT"
  BY <1>1, Silent
<1> HIDE DEF p
<1>4. Calls(n)'
  <2>1. ~ CallOf(p, n)
    BY <1>3 DEF CallOf
  <2> QED BY <1>0, <1>2, <1>3, <2>1, WrittenNoCall
<1>5. ~ Inside(n)' /\ Starting(n)' /\ ~ Blocked(n)
  BY <1>1 DEF Starting, Inside, Live, Blocked
<1>6. NodeOrder(n)' /\ (Blocked(n)' <=> Blocked(n))
  BY <1>4, <1>5, OutsideOrder DEF NodeOrder
<1>7. \A m \in Nodes \ {n} : Idle(m) /\ mcast'[m] = mcast[m] /\ reply'[m] = reply[m]
  BY <1>0, <1>1 DEF NetType
<1>8. pc'[n] \notin StartValues
  BY <1>1 DEF StartValues
<1> QED BY <1>0, <1>3, <1>6, <1>7, <1>8, OneOrder

\* Nothing was sent to the group since the node was answered.
LEMMA JoinOrder ==
  ASSUME NEW T, Known(T), Orderly, NEW n \in Nodes, Join(n), UNCHANGED srvVars
  PROVE  Orderly'
<1> DEFINE p == DisconnectPkt(n)
<1>0. TypeInv /\ NetType /\ CltTypeOK /\ NodeOrder(n) /\ Member(n)
  BY OwnState DEF Orderly
<1>1. /\ pc[n] = "joining" /\ pc'[n] = "run" /\ \A m \in Nodes \ {n} : Idle(m)
      /\ UNCHANGED <<bt, backup, toServer, reply, mcast, pkt_seq>>
  BY <1>0, JoinStep DEF Elsewhere, srvVars
<1>2. /\ \A i \in 1..Len(toServer) : ~ CallOf(toServer[i], n)
      /\ bt[n].rx_pkt_seq = pkt_seq /\ ~ bt[n].pending /\ ~ backup[n].pending
  BY <1>0, <1>1 DEF NodeOrder, Calls, CallOf, Starting, Waiting, Inside
<1>3. mcast[n] = <<>>
  BY <1>0, <1>1 DEF Member, Live
<1>4. p \in ClientPkt /\ Writes(p) /\ p.type = "DISCONNECT"
  BY <1>1, Silent
<1> HIDE DEF p
<1>5. Calls(n)'
  <2>1. ~ CallOf(p, n)
    BY <1>4 DEF CallOf
  <2> QED BY <1>0, <1>2, <1>4, <2>1, WrittenNoCall
<1>6. Starting(n)' /\ Waiting(n)'
  BY <1>1, <1>2 DEF Starting, Waiting
<1>7. InSequence(n)'
  <2>1. pkt_seq \in Nat /\ Len(mcast'[n]) = 0
    BY <1>0, <1>1, <1>3 DEF TypeInv, SrvTypeOK
  <2> QED BY <1>1, <1>2, <2>1 DEF InSequence
<1>8. Blocked(n)' <=> Blocked(n)
  BY <1>1 DEF Blocked
<1>9. \A m \in Nodes \ {n} : Idle(m) /\ mcast'[m] = mcast[m] /\ reply'[m] = reply[m]
  BY <1>1
<1>10. NodeOrder(n)' /\ pc[n] \in StartValues
  BY <1>1, <1>5, <1>6, <1>7 DEF NodeOrder, StartValues
<1> QED BY <1>0, <1>4, <1>8, <1>9, <1>10, OneOrder

LEMMA CloseOrder ==
  ASSUME NEW T, Known(T), Orderly, NEW n \in Nodes, Close(n), UNCHANGED srvVars
  PROVE  Orderly'
<1> DEFINE p == DisconnectPkt(n)
<1>0. TypeInv /\ NetType /\ NodeOrder(n)
  BY OwnState DEF Orderly
<1>1. /\ pc[n] = "run" /\ pc'[n] = "closed" /\ \A m \in Nodes \ {n} : Idle(m)
      /\ toServer' = Append(toServer, p) /\ p \in ClientPkt
      /\ mcast' = [mcast EXCEPT ![n] = <<>>] /\ UNCHANGED reply
  BY <1>0, LeaveStep DEF Elsewhere, Close
<1>2. p.type = "DISCONNECT" /\ Writes(p)
  BY <1>1 DEF DisconnectPkt, Writes
<1> HIDE DEF p
<1>3. Calls(n)'
  <2>1. Live(n) /\ p.type # "CONNECT"
    BY <1>1, <1>2 DEF Live
  <2> QED BY <1>0, <1>1, <1>2, <2>1, LiveCalls DEF NodeOrder
<1>4. ~ Inside(n)' /\ Starting(n)' /\ ~ Blocked(n)
  BY <1>1 DEF Starting, Inside, Live, Blocked
<1>5. NodeOrder(n)' /\ (Blocked(n)' <=> Blocked(n))
  BY <1>3, <1>4, OutsideOrder DEF NodeOrder
<1>6. \A m \in Nodes \ {n} : Idle(m) /\ mcast'[m] = mcast[m] /\ reply'[m] = reply[m]
  BY <1>0, <1>1 DEF NetType
<1>7. pc'[n] \notin StartValues
  BY <1>1 DEF StartValues
<1> QED BY <1>0, <1>1, <1>2, <1>5, <1>6, <1>7, OneOrder

LEMMA StopOrder ==
  ASSUME NEW T, Known(T), Orderly, NEW n \in Nodes, StopAndRun(n), UNCHANGED srvVars
  PROVE  Orderly'
<1> DEFINE p == DisconnectPkt(n)
<1>0. TypeInv /\ NetType /\ CltTypeOK /\ NodeOrder(n)
  BY OwnState DEF Orderly
<1>1. /\ pc[n] = "run" /\ backup' = [backup EXCEPT ![n] = bt[n]]
      /\ \A m \in Nodes \ {n} : Idle(m)
      /\ UNCHANGED <<pc, bt, toServer, reply, mcast, pkt_seq, rp_seq>>
  BY <1>0, StopStep DEF Elsewhere, netVars, srvVars
<1>2. Live(n) /\ Live(n)' /\ Inside(n)
  BY <1>1 DEF Live, Inside
<1>3. p \in ClientPkt /\ Writes(p) /\ p.type = "DISCONNECT"
  BY <1>1, Silent
<1> HIDE DEF p
<1>4. backup'[n] = bt[n] /\ ~ bt[n].pending
  BY <1>0, <1>1, <1>2 DEF CltTypeOK, NodeOrder, Waiting
<1>5. Calls(n)' /\ Starting(n)' /\ InSequence(n)' /\ Waiting(n)'
  <2>1. Calls(n)'
    BY <1>0, <1>2, <1>3, LiveCalls DEF NodeOrder
  <2>2. Waiting(n)'
    BY <1>1, <1>4 DEF Waiting
  <2>3. InSequence(n)'
    BY <1>0, <1>1 DEF NodeOrder, InSequence, Live
  <2> QED BY <1>2, <2>1, <2>2, <2>3, LiveStarting
<1>6. Blocked(n)' <=> Blocked(n)
  BY <1>1 DEF Blocked
<1>7. \A m \in Nodes \ {n} : Idle(m) /\ mcast'[m] = mcast[m] /\ reply'[m] = reply[m]
  BY <1>1
<1>8. NodeOrder(n)' /\ pc'[n] \notin StartValues
  BY <1>1, <1>5 DEF NodeOrder, StartValues
<1> QED BY <1>0, <1>3, <1>6, <1>7, <1>8, OneOrder

LEMMA NodesOrder ==
  ASSUME Tame, NEW T, Known(T), Orderly, NEW n \in Nodes, CltStep(n) \/ CltUser(n),
         UNCHANGED srvVars
  PROVE  Orderly'
<1>1. TypeInv
  BY DEF Known
<1>2. Local(n) \/ Parsed(n) \/ Comes(n) \/ Goes(n) \/ StopAndRun(n)
  BY <1>1, NodeStep
<1>3. CASE Comes(n)
  BY <1>3, ConnectOrder, ConnectedOrder, RefusedOrder, JoinOrder DEF Comes
<1>4. CASE Goes(n)
  BY <1>4, CloseOrder DEF Goes, Quit, Tame
<1> QED BY <1>2, <1>3, <1>4, LocalOrder, ParsedOrder, StopOrder

-----------------------------------------------------------------------------
(* The steps of the server keep the order. *)

LEMMA TailOf ==
  ASSUME NetType, toServer # <<>>, toServer' = Tail(toServer)
  PROVE  /\ Head(toServer) = toServer[1] /\ 1 \in 1..Len(toServer)
         /\ \A i \in 1..Len(toServer') :
              i + 1 \in 1..Len(toServer) /\ toServer'[i] = toServer[i + 1]
BY TailIs DEF NetType

\* What is left in the queue when the server has read a packet, or none.
Shrinks == toServer' = toServer \/ (toServer # <<>> /\ toServer' = Tail(toServer))

LEMMA ShrinksTo ==
  ASSUME NetType, Shrinks, NEW i \in 1..Len(toServer')
  PROVE  \E j \in 1..Len(toServer) : toServer'[i] = toServer[j]
<1>1. CASE toServer' = toServer
  BY <1>1
<1>2. CASE toServer # <<>> /\ toServer' = Tail(toServer)
  BY <1>2, TailOf
<1> QED BY <1>1, <1>2 DEF Shrinks

LEMMA ShrinksCalls ==
  ASSUME NetType, Shrinks, NEW m \in Nodes, Calls(m), pc'[m] = pc[m],
         reply'[m] = reply[m], m \in active' => m \in active
  PROVE  Calls(m)'
<1>1. CASE toServer' = toServer
  BY <1>1 DEF Calls
<1>2. CASE toServer # <<>> /\ toServer' = Tail(toServer)
  <2>1. \A i \in 1..Len(toServer') :
          i + 1 \in 1..Len(toServer) /\ toServer'[i] = toServer[i + 1]
    BY <1>2, TailOf
  <2>2. ASSUME NEW i \in 1..Len(toServer'), CallOf(toServer'[i], m)
        PROVE  /\ pc[m] = "connecting" /\ m \notin active /\ reply[m] = <<>>
               /\ \A j \in 1..Len(toServer') : CallOf(toServer'[j], m) => j = i
    <3>1. CallOf(toServer[i + 1], m) /\ i + 1 \in 1..Len(toServer)
      BY <2>1, <2>2
    <3>2. /\ pc[m] = "connecting" /\ m \notin active /\ reply[m] = <<>>
          /\ \A j \in 1..Len(toServer) : CallOf(toServer[j], m) => j = i + 1
      BY <3>1 DEF Calls, CallOf
    <3>3. ASSUME NEW j \in 1..Len(toServer'), CallOf(toServer'[j], m)
          PROVE  j = i
      <4>1. CallOf(toServer[j + 1], m) /\ j + 1 \in 1..Len(toServer)
        BY <2>1, <3>3
      <4>2. j + 1 = i + 1
        BY <3>2, <4>1
      <4> QED BY <4>2
    <3> QED BY <3>2, <3>3
  <2> QED BY <2>2 DEF Calls, CallOf
<1> QED BY <1>1, <1>2 DEF Shrinks

LEMMA ShrinksRequests ==
  ASSUME TypeInv, Shrinks, Requests, UNCHANGED pc, rp_seq' \in Nat, rp_seq' >= rp_seq
  PROVE  Requests'
<1>0. NetType /\ toServer \in Seq(ClientPkt) /\ rp_seq \in Nat
  BY DEF TypeInv, NetType, SrvTypeOK
<1>1. Quiet' <=> Quiet
  BY DEF Quiet
<1>2. ASSUME NEW i \in 1..Len(toServer')
      PROVE  /\ toServer'[i].type = "TX" => Quiet
             /\ toServer'[i].type = "SYNCHED" => toServer'[i].rp_seq <= rp_seq'
  <2>1. PICK j \in 1..Len(toServer) : toServer'[i] = toServer[j]
    BY <1>0, ShrinksTo
  <2>2. toServer[j] \in ClientPkt
    BY <1>0
  <2>3. toServer[j].type = "SYNCHED" => toServer[j].rp_seq \in Nat
    BY <2>2, ClientFields
  <2>4. /\ toServer[j].type = "TX" => Quiet
        /\ toServer[j].type = "SYNCHED" => toServer[j].rp_seq <= rp_seq
    BY DEF Requests
  <2> QED BY <1>0, <2>1, <2>3, <2>4
<1> QED BY <1>1, <1>2 DEF Requests

LEMMA ReadUnheard ==
  ASSUME TypeInv, toServer # <<>>, toServer' = Tail(toServer), UNCHANGED rp_seq
  PROVE  /\ Unheard = IF Head(toServer).type = "SYNCHED" /\ Head(toServer).rp_seq = rp_seq
                        THEN Unheard' + 1 ELSE Unheard'
         /\ Unheard \in Nat /\ Unheard' \in Nat
<1>1. toServer \in Seq(ClientPkt) /\ Tail(toServer) \in Seq(ClientPkt)
  BY DEF TypeInv, NetType
<1>2. Cardinality(SynchedAt(toServer, rp_seq)) =
        IF Head(toServer).type = "SYNCHED" /\ Head(toServer).rp_seq = rp_seq
          THEN Cardinality(SynchedAt(Tail(toServer), rp_seq)) + 1
          ELSE Cardinality(SynchedAt(Tail(toServer), rp_seq))
  BY <1>1, SynchedTail
<1>3. /\ Cardinality(SynchedAt(toServer, rp_seq)) \in Nat
      /\ Cardinality(SynchedAt(Tail(toServer), rp_seq)) \in Nat
  BY <1>1, SynchedFinite
<1> QED BY <1>2, <1>3 DEF Unheard

\* When the server counts the nodes and finds that all are there, nobody who
\* was announced is left, and every node is blocked.
LEMMA BarrierChecked ==
  ASSUME IsFiniteSet(active'), c_nodes' = Cardinality(active'), c_nodes' <= MaxNodes,
         spc = "listen", Unheard' \in Nat, synched' \in Int, synched' >= 0,
         synched' + Unheard' = Cardinality(Blocks'),
         BarrierCheck(synched', c_nodes')
  PROVE  Barrier'
<1>1. CASE spc' = "listen"
  BY <1>1 DEF Barrier
<1>2. CASE spc' # "listen"
  <2>1. spc' = "core" /\ synched' = c_nodes'
    BY <1>2 DEF BarrierCheck
  <2>2. Blocks' \in SUBSET active'
    BY DEF Blocks
  <2>3. /\ Cardinality(Blocks') \in Nat /\ Cardinality(active') \in Nat
        /\ Cardinality(Blocks') <= Cardinality(active')
        /\ Cardinality(Blocks') = Cardinality(active') => Blocks' = active'
    BY <2>2, FS_Subset, FS_CardinalityType
  <2>4. synched' + Unheard' <= synched'
    BY <2>1, <2>3
  <2>5. Unheard' = 0
    <3>1. \A k \in Int, u \in Nat : k + u <= k => u = 0
      OBVIOUS
    <3> QED BY <2>4, <3>1
  <2>6. Blocks' = active'
    BY <2>1, <2>3, <2>5
  <2> QED BY <2>1, <2>5, <2>6 DEF Barrier
<1> QED BY <1>1, <1>2

\* What the node m sees of a step of the server that sends nothing to it.
LEMMA ReadsOrder ==
  ASSUME TypeInv, NEW type, Reads(type), NEW m \in Nodes, NodeOrder(m), reply'[m] = reply[m],
         m \in active' => m \in active, m \in active => m \in active' \/ pc[m] = "closed"
  PROVE  NodeOrder(m)'
<1>0. /\ NetType /\ Shrinks /\ mcast' = mcast /\ pkt_seq' = pkt_seq
      /\ pc' = pc /\ bt' = bt /\ backup' = backup
  BY DEF TypeInv, Reads, Shrinks, cltVars
<1>1. Calls(m)'
  BY <1>0, ShrinksCalls DEF NodeOrder
<1>2. Starting(m)'
  BY <1>0 DEF NodeOrder, Starting
<1>3. InSequence(m)'
  BY <1>0 DEF NodeOrder, InSequence, Live
<1>4. Waiting(m)'
  BY <1>0 DEF NodeOrder, Waiting, Inside, Live
<1> QED BY <1>1, <1>2, <1>3, <1>4 DEF NodeOrder

LEMMA ReadsSame ==
  ASSUME TypeInv, Orderly, NEW type, Reads(type)
  PROVE  /\ Requests' /\ \A m \in Nodes : Blocked(m)' <=> Blocked(m)
<1>1. Shrinks /\ UNCHANGED <<rp_seq, pc, bt>> /\ rp_seq \in Nat
  BY DEF Reads, Shrinks, TypeInv, SrvTypeOK, cltVars
<1>2. Requests'
  BY <1>1, ShrinksRequests DEF Orderly
<1>3. \A m \in Nodes : Blocked(m)' <=> Blocked(m)
  BY <1>1 DEF Blocked
<1> QED BY <1>2, <1>3

LEMMA DisconnectOrder ==
  ASSUME NEW T, Known(T), Orderly, RecvDisconnect, UNCHANGED cltVars
  PROVE  Orderly'
<1> DEFINE n == Head(toServer).node
           left == IF n \in active THEN c_nodes - 1 ELSE c_nodes
<1>0. TypeInv /\ NetType /\ Members /\ Barrier /\ active \subseteq Nodes /\ synched \in Int
  BY DEF Known, TypeInv, SrvTypeOK, Orderly
<1>1. Reads("DISCONNECT") /\ reply' = reply
  BY <1>0, DisconnectTypes
<1>2. /\ spc = "listen" /\ toServer # <<>> /\ toServer' = Tail(toServer)
      /\ Head(toServer).type = "DISCONNECT" /\ n \in Nodes
      /\ UNCHANGED <<rp_seq, pkt_seq, pc>>
  BY <1>1, ClientFields DEF Reads, cltVars
<1>3. pc[n] = "closed"
  <2>1. Head(toServer) = toServer[1] /\ 1 \in 1..Len(toServer)
    BY <1>0, <1>2, TailOf
  <2> QED BY <1>0, <1>2, <2>1 DEF Members, Member
<1>4. /\ active' = active \ {n} /\ c_nodes' = left /\ synched' = synched
      /\ left # 0 => BarrierCheck(synched, left)
      /\ left = 0 => spc' = "stopped"
  BY DEF RecvDisconnect
<1> HIDE DEF n
<1>5. \A m \in Nodes : NodeOrder(m)'
  BY <1>0, <1>1, <1>3, <1>4, ReadsOrder DEF Orderly
<1>6. Requests' /\ \A m \in Nodes : Blocked(m)' <=> Blocked(m)
  BY <1>0, <1>1, ReadsSame
<1>7. Blocks' = Blocks
  <2>1. ~ Blocked(n)
    BY <1>3 DEF Blocked
  <2> QED BY <1>0, <1>4, <1>6, <2>1 DEF Blocks
<1>8. /\ IsFiniteSet(active') /\ Cardinality(active') = left /\ left <= MaxNodes
  <2>1. IsFiniteSet(active) /\ c_nodes = Cardinality(active) /\ c_nodes <= MaxNodes
    BY <1>0 DEF Barrier
  <2>2. /\ IsFiniteSet(active \ {n})
        /\ Cardinality(active \ {n}) = IF n \in active THEN Cardinality(active) - 1
                                                       ELSE Cardinality(active)
    BY <2>1, FS_RemoveElement
  <2>3. Cardinality(active) \in Nat /\ MaxNodes \in Nat
    BY <2>1, FS_CardinalityType, ServerAssumption
  <2> QED BY <1>4, <2>1, <2>2, <2>3
<1>9. Barrier'
  <2>1. CASE left = 0
    BY <1>4, <1>8, <2>1 DEF Barrier
  <2>2. CASE left # 0
    <3>1. Unheard' = Unheard /\ Unheard' \in Nat
      BY <1>0, <1>2, ReadUnheard
    <3>2. synched >= 0 /\ synched + Unheard = Cardinality(Blocks)
      BY <1>0, <1>2 DEF Barrier
    <3>3. synched' + Unheard' = Cardinality(Blocks')
      BY <1>4, <1>7, <3>1, <3>2
    <3>4. synched' \in Int /\ synched' >= 0 /\ BarrierCheck(synched', c_nodes')
      BY <1>0, <1>4, <2>2, <3>2
    <3> HIDE DEF left
    <3> QED BY <1>2, <1>4, <1>8, <3>1, <3>3, <3>4, BarrierChecked
  <2> QED BY <2>1, <2>2
<1> QED BY <1>5, <1>6, <1>9 DEF Orderly

LEMMA ConnectingOrder ==
  ASSUME NEW T, Known(T), Orderly, RecvConnect, UNCHANGED cltVars
  PROVE  Orderly'
<1> DEFINE n == Head(toServer).node
           no == Append(reply[n], NoAttrAddrPkt)
           yes == Append(reply[n], AttrAddrPkt(pkt_seq, rp - global, rp_seq, global))
<1>0. TypeInv /\ NetType /\ Members /\ Barrier /\ active \subseteq Nodes /\ synched \in Int
  BY DEF Known, TypeInv, SrvTypeOK, Orderly
<1>1. Reads("CONNECT") /\ UNCHANGED <<spc, synched>>
  BY <1>0, ConnectTypes
<1>2. /\ spc = "listen" /\ toServer # <<>> /\ toServer' = Tail(toServer)
      /\ Head(toServer).type = "CONNECT" /\ n \in Nodes
      /\ UNCHANGED <<rp_seq, pkt_seq, pc, bt, backup, mcast>>
  BY <1>1, ClientFields DEF Reads, cltVars
<1>3. /\ Head(toServer) = toServer[1] /\ 1 \in 1..Len(toServer)
      /\ \A i \in 1..Len(toServer') :
           i + 1 \in 1..Len(toServer) /\ toServer'[i] = toServer[i + 1]
  BY <1>0, <1>2, TailOf
<1>4. NodeOrder(n)
  BY <1>2 DEF Orderly
<1>5. /\ pc[n] = "connecting" /\ n \notin active /\ reply[n] = <<>>
      /\ \A j \in 1..Len(toServer) : CallOf(toServer[j], n) => j = 1
  <2>1. toServer[1].type = "CONNECT" /\ toServer[1].node = n
    BY <1>2, <1>3
  <2> QED BY <1>3, <1>4, <2>1 DEF NodeOrder, Calls, CallOf
<1>6. IF c_nodes = MaxNodes
        THEN reply' = [reply EXCEPT ![n] = no] /\ UNCHANGED <<active, c_nodes>>
        ELSE /\ active' = active \cup {n} /\ c_nodes' = c_nodes + 1
             /\ reply' = [reply EXCEPT ![n] = yes]
  BY <1>5 DEF RecvConnect
<1>7. /\ no = <<NoAttrAddrPkt>>
      /\ yes = <<AttrAddrPkt(pkt_seq, rp - global, rp_seq, global)>>
  BY <1>5
<1>8. /\ NoAttrAddrPkt.type = "NOATTRADDR"
      /\ AttrAddrPkt(pkt_seq, rp - global, rp_seq, global).type = "ATTRADDR"
      /\ AttrAddrPkt(pkt_seq, rp - global, rp_seq, global).seq = pkt_seq
  BY DEF NoAttrAddrPkt, AttrAddrPkt
<1> HIDE DEF n, no, yes
<1>9. ASSUME NEW m \in Nodes PROVE NodeOrder(m)'
  <2>1. CASE m # n
    <3>1. reply'[m] = reply[m] /\ (m \in active' <=> m \in active)
      BY <1>0, <1>6, <2>1 DEF NetType
    <3> QED BY <1>0, <1>1, <3>1, ReadsOrder DEF Orderly
  <2>2. CASE m = n
    <3>0. /\ pc'[m] = "connecting" /\ m \notin active
          /\ \A j \in 1..Len(toServer) : CallOf(toServer[j], m) => j = 1
      BY <1>2, <1>5, <2>2
    <3>1. Calls(m)'
      <4>1. ASSUME NEW i \in 1..Len(toServer'), CallOf(toServer'[i], m)
            PROVE  FALSE
        <5>1. i + 1 \in 1..Len(toServer) /\ toServer'[i] = toServer[i + 1]
          BY <1>3
        <5>2. i + 1 = 1 /\ i \in Nat /\ i >= 1
          BY <3>0, <4>1, <5>1
        <5> QED BY <5>2
      <4> QED BY <4>1 DEF Calls, CallOf
    <3>2. Starting(m)'
      <4>1. CASE c_nodes = MaxNodes
        <5>1. reply'[m] = <<NoAttrAddrPkt>> /\ active' = active
          BY <1>0, <1>2, <1>6, <1>7, <2>2, <4>1 DEF NetType
        <5>2. \A i \in 1..Len(reply'[m]) : reply'[m][i].type = "NOATTRADDR"
          BY <1>8, <5>1
        <5> QED BY <3>0, <5>1, <5>2 DEF Starting
      <4>2. CASE c_nodes # MaxNodes
        <5>1. /\ reply'[m] = <<AttrAddrPkt(pkt_seq, rp - global, rp_seq, global)>>
              /\ m \in active'
          BY <1>0, <1>2, <1>6, <1>7, <2>2, <4>2 DEF NetType
        <5>2. /\ Len(reply'[m]) = 1 /\ reply'[m][1].type = "ATTRADDR"
              /\ reply'[m][1].seq = pkt_seq'
          BY <1>2, <1>8, <5>1
        <5> QED BY <3>0, <5>1, <5>2 DEF Starting
      <4> QED BY <4>1, <4>2
    <3>3. ~ Inside(m)'
      BY <3>0 DEF Inside, Live
    <3> QED BY <3>1, <3>2, <3>3, OutsideOrder DEF NodeOrder
  <2> QED BY <2>1, <2>2
<1>10. Requests' /\ \A m \in Nodes : Blocked(m)' <=> Blocked(m)
  BY <1>0, <1>1, ReadsSame
<1>11. Blocks' = Blocks
  <2>1. ~ Blocked(n)
    BY <1>5 DEF Blocked
  <2> QED BY <1>0, <1>2, <1>6, <1>10, <2>1 DEF Blocks
<1>12. IsFiniteSet(active') /\ c_nodes' = Cardinality(active') /\ c_nodes' <= MaxNodes
  <2>1. IsFiniteSet(active) /\ c_nodes = Cardinality(active) /\ c_nodes <= MaxNodes
    BY <1>0 DEF Barrier
  <2>2. CASE c_nodes = MaxNodes
    BY <1>6, <2>1, <2>2
  <2>3. CASE c_nodes # MaxNodes
    <3>1. /\ IsFiniteSet(active \cup {n})
          /\ Cardinality(active \cup {n}) = Cardinality(active) + 1
      BY <1>5, <2>1, FS_AddElement
    <3>2. Cardinality(active) \in Nat /\ MaxNodes \in Nat
      BY <2>1, FS_CardinalityType, ServerAssumption
    <3>3. c_nodes + 1 <= MaxNodes
      BY <2>1, <2>3, <3>2
    <3> QED BY <1>6, <2>1, <2>3, <3>1, <3>3
  <2> QED BY <2>2, <2>3
<1>13. Barrier'
  <2>1. Unheard' = Unheard
    BY <1>0, <1>2, ReadUnheard
  <2>2. synched >= 0 /\ synched + Unheard = Cardinality(Blocks)
    BY <1>0, <1>2 DEF Barrier
  <2> QED BY <1>1, <1>2, <1>11, <1>12, <2>1, <2>2 DEF Barrier
<1> QED BY <1>9, <1>10, <1>13 DEF Orderly

\* The count of the nodes is a char: it never reaches its limit.
LEMMA AnnouncedOrder ==
  ASSUME Tame, NEW T, Known(T), Orderly, RecvSynched, UNCHANGED cltVars
  PROVE  Orderly'
<1>0. /\ TypeInv /\ NetType /\ Barrier /\ active \subseteq Nodes /\ synched \in Int
      /\ CharMax \in Nat /\ MaxNodes \in Nat /\ MaxNodes <= CharMax
  BY ServerAssumption DEF Known, TypeInv, SrvTypeOK, Orderly, Tame
<1>1. Reads("SYNCHED") /\ UNCHANGED <<reply, active, c_nodes>>
  BY <1>0, SynchedTypes
<1>2. /\ spc = "listen" /\ toServer # <<>> /\ toServer' = Tail(toServer)
      /\ Head(toServer).type = "SYNCHED" /\ UNCHANGED rp_seq
  BY <1>1 DEF Reads
<1>3. \A m \in Nodes : NodeOrder(m)'
  BY <1>0, <1>1, ReadsOrder DEF Orderly
<1>4. Requests' /\ \A m \in Nodes : Blocked(m)' <=> Blocked(m)
  BY <1>0, <1>1, ReadsSame
<1>5. Blocks' = Blocks
  BY <1>0, <1>1, <1>4 DEF Blocks
<1>6. /\ Unheard = IF Head(toServer).rp_seq = rp_seq THEN Unheard' + 1 ELSE Unheard'
      /\ Unheard \in Nat /\ Unheard' \in Nat
  BY <1>0, <1>2, ReadUnheard
<1>7. synched >= 0 /\ synched + Unheard = Cardinality(Blocks)
  BY <1>0, <1>2 DEF Barrier
<1>8. /\ IsFiniteSet(active') /\ c_nodes' = Cardinality(active') /\ c_nodes' <= MaxNodes
  BY <1>0, <1>1 DEF Barrier
<1>9. Barrier'
  <2>1. CASE Head(toServer).rp_seq = rp_seq
    <3>1. Cardinality(Blocks) <= c_nodes /\ c_nodes \in Nat /\ Cardinality(Blocks) \in Nat
      BY <1>0, BarrierFacts
    <3>2. c_nodes <= MaxNodes
      BY <1>0 DEF Barrier
    <3>3. synched < CharMax
      <4>1. Unheard = Unheard' + 1
        BY <1>6, <2>1
      <4>2. \A k \in Int, u \in Nat, c, x, y \in Nat :
              k + (u + 1) <= c /\ c <= x /\ x <= y => k < y
        OBVIOUS
      <4> QED BY <1>0, <1>6, <1>7, <3>1, <3>2, <4>1, <4>2
    <3>4. synched' = synched + 1 /\ BarrierCheck(synched', c_nodes')
      <4>1. synched' = CharIncr(synched) /\ BarrierCheck(CharIncr(synched), c_nodes)
        BY <2>1 DEF RecvSynched
      <4>2. CharIncr(synched) = synched + 1
        BY <1>0, <3>3 DEF CharIncr
      <4> QED BY <1>1, <4>1, <4>2
    <3>5. synched' \in Int /\ synched' >= 0
      BY <1>0, <1>7, <3>4
    <3>6. synched' + Unheard' = Cardinality(Blocks')
      <4>1. \A k \in Int, u \in Nat : (k + 1) + u = k + (u + 1)
        OBVIOUS
      <4> QED BY <1>0, <1>5, <1>6, <1>7, <2>1, <3>4, <4>1
    <3> QED BY <1>2, <1>6, <1>8, <3>4, <3>5, <3>6, BarrierChecked
  <2>2. CASE Head(toServer).rp_seq # rp_seq
    <3>1. UNCHANGED <<synched, global, spc>>
      BY <2>2 DEF RecvSynched
    <3>2. Unheard' = Unheard
      BY <1>6, <2>2
    <3> QED BY <1>0, <1>1, <1>2, <1>4, <3>1, <3>2, BarrierSame
  <2> QED BY <2>1, <2>2
<1> QED BY <1>3, <1>4, <1>9 DEF Orderly

LEMMA TxOrder ==
  ASSUME NEW T, Known(T), Orderly, RecvTxDropped \/ RecvTxAccepted, UNCHANGED cltVars
  PROVE  Orderly'
<1>0. TypeInv /\ NetType /\ Barrier
  BY DEF Known, TypeInv, Orderly
<1>1. Reads("TX") /\ UNCHANGED <<spc, global, synched, reply, active, c_nodes>>
  BY <1>0, TxTypes
<1>2. /\ toServer # <<>> /\ toServer' = Tail(toServer)
      /\ Head(toServer).type = "TX" /\ UNCHANGED rp_seq
  BY <1>1 DEF Reads
<1>3. \A m \in Nodes : NodeOrder(m)'
  BY <1>0, <1>1, ReadsOrder DEF Orderly
<1>4. Requests' /\ \A m \in Nodes : Blocked(m)' <=> Blocked(m)
  BY <1>0, <1>1, ReadsSame
<1>5. Unheard' = Unheard
  BY <1>0, <1>2, ReadUnheard
<1>6. Barrier'
  BY <1>0, <1>1, <1>2, <1>4, <1>5, BarrierSame
<1> QED BY <1>3, <1>4, <1>6 DEF Orderly

\* Nobody who has been answered is still starting up.
Started == \A m \in Nodes : pc[m] # "joining" /\ (pc[m] = "connecting" => m \notin active)

LEMMA SendsOrder ==
  ASSUME Tame, TypeInv, Members, Started, NEW p, Sends(p), Shrinks,
         NEW m \in Nodes, NodeOrder(m)
  PROVE  NodeOrder(m)'
<1>0. /\ NetType /\ pkt_seq \in Nat /\ p.seq = pkt_seq /\ pkt_seq' = pkt_seq + 1
      /\ UNCHANGED <<active, reply>> /\ pc' = pc /\ bt' = bt /\ backup' = backup
  BY DEF TypeInv, SrvTypeOK, Sends, cltVars
<1>1. Calls(m)'
  BY <1>0, ShrinksCalls DEF NodeOrder
<1>2. Starting(m)'
  BY <1>0 DEF NodeOrder, Starting, Started
<1>3. Waiting(m)'
  BY <1>0 DEF NodeOrder, Waiting, Inside, Live
<1>4. InSequence(m)'
  <2>1. SUFFICES ASSUME Live(m)
        PROVE  /\ bt[m].rx_pkt_seq + Len(mcast'[m]) = pkt_seq + 1
               /\ \A i \in 1..Len(mcast'[m]) : mcast'[m][i].seq = (bt[m].rx_pkt_seq + i) - 1
    BY <1>0 DEF InSequence, Live
  <2>2. mcast'[m] = Append(mcast[m], p)
    <3>1. m \in joined
      BY <2>1 DEF Members, Member
    <3> QED BY <3>1 DEF Sends, SentTo, Tame
  <2>3. mcast[m] \in Seq(McastPkt) /\ p \in McastPkt
    BY <1>0 DEF NetType, Sends
  <2> DEFINE q == mcast[m]
             r == Append(q, p)
             x == bt[m].rx_pkt_seq
  <2>4. /\ Len(r) = Len(q) + 1 /\ Len(q) \in Nat /\ r[Len(q) + 1] = p
        /\ \A i \in 1..Len(q) : r[i] = q[i]
    BY <2>3
  <2>5. x + Len(q) = pkt_seq /\ x \in Nat /\ \A i \in 1..Len(q) : q[i].seq = (x + i) - 1
    <3>1. bt[m] \in Machine
      BY DEF TypeInv, CltTypeOK
    <3>2. x \in Nat
      BY <3>1, MachineFields
    <3> QED BY <2>1, <3>2 DEF NodeOrder, InSequence
  <2> HIDE DEF q, r, x
  <2>6. x + Len(r) = pkt_seq + 1
    BY <2>4, <2>5
  <2>7. ASSUME NEW i \in 1..Len(r) PROVE r[i].seq = (x + i) - 1
    <3>1. CASE i \in 1..Len(q)
      BY <2>4, <2>5, <3>1
    <3>2. CASE i = Len(q) + 1
      <4>1. (x + i) - 1 = x + Len(q)
        BY <2>4, <2>5, <3>2
      <4> QED BY <1>0, <2>4, <2>5, <3>2, <4>1
    <3> QED BY <2>4, <3>1, <3>2
  <2> QED BY <2>2, <2>6, <2>7 DEF q, r, x
<1> QED BY <1>1, <1>2, <1>3, <1>4 DEF NodeOrder

LEMMA KnownIndex ==
  ASSUME NEW T, Known(T), NEW n \in Nodes, Inside(n)
  PROVE  bt[n].rp_seq <= rp_seq /\ bt[n].rp_seq \in Nat
<1>1. Knows(T, n) /\ ServerTrail(T)
  BY DEF Known, Follows, NodeTrail
<1>2. bt[n].rp_seq = T[bt[n].rx_pkt_seq].rp /\ bt[n].rx_pkt_seq \in 0..pkt_seq
  BY <1>1, NodeMark DEF Knows, At
<1> QED BY <1>1, <1>2, NodeMark, MachineFields DEF ServerTrail

\* With a new rendez-vous the count starts again.
LEMMA BarrierReset ==
  ASSUME NEW T, Known(T), Orderly, Shrinks, UNCHANGED <<active, c_nodes, pc, bt>>,
         spc' = "listen", synched' = 0, rp_seq' = rp_seq + 1
  PROVE  Requests' /\ Barrier'
<1>0. /\ TypeInv /\ NetType /\ Requests /\ Barrier /\ rp_seq \in Nat
      /\ active \subseteq Nodes
  BY DEF Known, TypeInv, SrvTypeOK, Orderly
<1>1. Requests'
  BY <1>0, ShrinksRequests
<1>2. Unheard' = 0
  <2>1. ASSUME NEW i \in 1..Len(toServer'), toServer'[i].type = "SYNCHED",
               toServer'[i].rp_seq = rp_seq + 1
        PROVE  FALSE
    <3>1. PICK j \in 1..Len(toServer) : toServer'[i] = toServer[j]
      BY <1>0, ShrinksTo
    <3>2. toServer[j].rp_seq <= rp_seq
      BY <1>0, <2>1, <3>1 DEF Requests
    <3> QED BY <1>0, <2>1, <3>1, <3>2
  <2>2. SynchedAt(toServer', rp_seq + 1) = {}
    BY <2>1 DEF SynchedAt
  <2>3. Cardinality(SynchedAt(toServer', rp_seq + 1)) = 0
    BY <2>2, FS_EmptySet
  <2> QED BY <2>3 DEF Unheard
<1>3. Cardinality(Blocks') = 0
  <2>1. ASSUME NEW n \in Nodes PROVE ~ Blocked(n)'
    <3>1. SUFFICES ASSUME Blocked(n)' PROVE FALSE
      OBVIOUS
    <3>2. pc[n] = "synched" /\ bt[n].rp_seq = rp_seq + 1
      BY <3>1 DEF Blocked
    <3>3. Inside(n)
      BY <3>2 DEF Inside, Live
    <3> QED BY <1>0, <3>2, <3>3, KnownIndex
  <2>2. Blocks' = {}
    BY <1>0, <2>1 DEF Blocks
  <2> QED BY <2>2, FS_EmptySet
<1>4. Barrier'
  BY <1>0, <1>2, <1>3 DEF Barrier
<1> QED BY <1>1, <1>4

LEMMA BacktrackOrder ==
  ASSUME Tame, NEW T, Known(T), Orderly, RecvTxBacktrack, UNCHANGED cltVars
  PROVE  Orderly'
<1>0. TypeInv /\ NetType /\ Members
  BY DEF Known, TypeInv
<1>1. /\ spc' = "listen" /\ toServer # <<>> /\ Head(toServer).type = "TX"
      /\ toServer' = Tail(toServer) /\ Sends(BacktrackTo)
      /\ rp_seq' = rp_seq + 1 /\ synched' = 0
  BY <1>0, BacktrackTypes
<1>2. Shrinks /\ UNCHANGED <<active, c_nodes, pc, bt>>
  BY <1>1 DEF Shrinks, Sends, cltVars
<1>3. Quiet
  <2>1. Head(toServer) = toServer[1] /\ 1 \in 1..Len(toServer)
    BY <1>0, <1>1, TailOf
  <2> QED BY <1>1, <2>1 DEF Orderly, Requests
<1>4. Started
  BY <1>3 DEF Started, Quiet
<1>5. \A m \in Nodes : NodeOrder(m)'
  BY <1>0, <1>1, <1>2, <1>4, SendsOrder DEF Orderly
<1>6. Requests' /\ Barrier'
  BY <1>1, <1>2, BarrierReset
<1> QED BY <1>5, <1>6 DEF Orderly

\* When the server has work to do all the nodes are blocked.
LEMMA CoreStarted ==
  ASSUME TypeInv, Members, Orderly, spc = "core"
  PROVE  Started
<1> SUFFICES ASSUME NEW m \in Nodes
             PROVE  pc[m] # "joining" /\ (pc[m] = "connecting" => m \notin active)
  BY DEF Started
<1>1. Blocks = active
  BY DEF Orderly, Barrier
<1>2. m \in active => pc[m] = "synched"
  BY <1>1 DEF Blocks, Blocked
<1>3. pc[m] = "joining" => m \in active
  BY DEF Members, Member, Inside
<1> QED BY <1>2, <1>3

LEMMA CoreOrder ==
  ASSUME Tame, NEW T, Known(T), Orderly, SrvCore, UNCHANGED cltVars
  PROVE  Orderly'
<1>0. TypeInv /\ NetType /\ Members /\ Barrier /\ Requests
  BY DEF Known, TypeInv, Orderly
<1>1. ASSUME NEW p \in McastPkt, Releases(p)
      PROVE  Orderly'
  <2>1. /\ spc = "core" /\ spc' = "listen" /\ Sends(p) /\ synched' = 0
        /\ rp_seq' = rp_seq + 1 /\ toServer' = toServer
    BY <1>1 DEF Releases
  <2>2. Shrinks /\ UNCHANGED <<active, c_nodes, pc, bt>>
    BY <2>1 DEF Shrinks, Sends, cltVars
  <2>3. Started
    BY <1>0, <2>1, CoreStarted
  <2>4. \A m \in Nodes : NodeOrder(m)'
    BY <1>0, <2>1, <2>2, <2>3, SendsOrder DEF Orderly
  <2>5. Requests' /\ Barrier'
    BY <2>1, <2>2, BarrierReset
  <2> QED BY <2>4, <2>5 DEF Orderly
<1>2. ASSUME NEW p \in McastPkt, Hands(p)
      PROVE  Orderly'
  <2>1. /\ spc = "core" /\ spc' = "core" /\ Sends(p)
        /\ UNCHANGED <<rp_seq, synched, toServer>>
    BY <1>2 DEF Hands
  <2>2. Shrinks /\ UNCHANGED <<active, c_nodes, pc, bt>> /\ rp_seq \in Nat
    BY <1>0, <2>1 DEF Shrinks, Sends, cltVars, TypeInv, SrvTypeOK
  <2>3. Started
    BY <1>0, <2>1, CoreStarted
  <2>4. \A m \in Nodes : NodeOrder(m)'
    BY <1>0, <2>1, <2>2, <2>3, SendsOrder DEF Orderly
  <2>5. Requests'
    BY <1>0, <2>1, <2>2, ShrinksRequests
  <2>6. Unheard' = Unheard /\ \A m \in Nodes : Blocked(m)' <=> Blocked(m)
    BY <2>1, <2>2 DEF Unheard, Blocked
  <2>7. Barrier'
    BY <1>0, <2>1, <2>2, <2>6, BarrierSame
  <2> QED BY <2>4, <2>5, <2>7 DEF Orderly
<1>3. CASE Desynchronizes
  <2>1. /\ spc' = "desync" /\ UNCHANGED <<rp_seq, pkt_seq, active, c_nodes>>
        /\ UNCHANGED <<toServer, reply, mcast, pc, bt, backup>>
    BY <1>3 DEF Desynchronizes, netVars, cltVars
  <2>2. Shrinks /\ rp_seq \in Nat
    BY <1>0, <2>1 DEF Shrinks, TypeInv, SrvTypeOK
  <2>3. ASSUME NEW m \in Nodes PROVE NodeOrder(m)'
    <3>1. NodeOrder(m)
      BY DEF Orderly
    <3>2. Calls(m)'
      BY <1>0, <2>1, <2>2, <3>1, ShrinksCalls DEF NodeOrder
    <3>3. Starting(m)' /\ InSequence(m)' /\ Waiting(m)'
      BY <2>1, <3>1 DEF NodeOrder, Starting, InSequence, Waiting, Inside, Live
    <3> QED BY <3>2, <3>3 DEF NodeOrder
  <2>4. Requests'
    BY <1>0, <2>1, <2>2, ShrinksRequests
  <2>5. Barrier'
    BY <1>0, <2>1 DEF Barrier
  <2> QED BY <2>3, <2>4, <2>5 DEF Orderly
<1>4. (\E p \in McastPkt : Releases(p) \/ Hands(p)) \/ Desynchronizes
  BY <1>0, CoreTypes
<1> QED BY <1>1, <1>2, <1>3, <1>4

-----------------------------------------------------------------------------
(* The order is kept for ever, and what follows from it. *)

LEMMA InitOrder == Init => Orderly
<1> SUFFICES ASSUME Init PROVE Orderly
  OBVIOUS
<1>1. /\ toServer = <<>> /\ spc = "listen" /\ synched = 0 /\ active = {} /\ c_nodes = 0
      /\ \A n \in Nodes : pc[n] = "off" /\ reply[n] = <<>>
  BY DEF Init, NetInit, SrvInit, CltInit
<1>2. ASSUME NEW n \in Nodes PROVE NodeOrder(n)
  <2>1. Calls(n)
    BY <1>1 DEF Calls
  <2>2. Starting(n) /\ InSequence(n) /\ Waiting(n)
    BY <1>1 DEF Starting, InSequence, Waiting, Inside, Live
  <2> QED BY <2>1, <2>2 DEF NodeOrder
<1>3. Requests
  BY <1>1 DEF Requests
<1>4. Barrier
  <2>1. Blocks = {}
    BY <1>1 DEF Blocks
  <2>2. SynchedAt(toServer, rp_seq) = {}
    BY <1>1 DEF SynchedAt
  <2>3. IsFiniteSet(active) /\ Cardinality(active) = 0 /\ Unheard = 0 /\ Cardinality(Blocks) = 0
    BY <1>1, <2>1, <2>2, FS_EmptySet DEF Unheard
  <2> QED BY <1>1, <2>3, ServerAssumption DEF Barrier
<1> QED BY <1>2, <1>3, <1>4 DEF Orderly

LEMMA StepOrder ==
  ASSUME Tame, NEW T, Known(T), Orderly, [Next]_vars
  PROVE  Orderly'
<1>1. CASE Server
  <2>1. UNCHANGED cltVars /\ SrvNext
    BY <1>1 DEF Server
  <2>2. CASE SrvCore
    BY <2>1, <2>2, CoreOrder
  <2>3. CASE SrvListen
    BY <2>1, <2>3, DisconnectOrder, ConnectingOrder, AnnouncedOrder, TxOrder, BacktrackOrder
       DEF SrvListen
  <2> QED BY <2>1, <2>2, <2>3 DEF SrvNext
<1>2. ASSUME NEW n \in Nodes, Node(n) \/ User(n)
      PROVE  Orderly'
  BY <1>2, NodesOrder DEF Node, User
<1>3. CASE UNCHANGED vars
  <2>1. UNCHANGED <<srvVars, cltVars, netVars>>
    BY <1>3 DEF vars
  <2>2. /\ UNCHANGED <<spc, synched, rp_seq, pkt_seq, active, c_nodes>>
        /\ UNCHANGED <<toServer, reply, mcast, pc, bt, backup>>
    BY <2>1 DEF srvVars, cltVars, netVars
  <2>3. TypeInv /\ NetType /\ Shrinks /\ rp_seq \in Nat
    BY <2>2 DEF Shrinks, Known, TypeInv, SrvTypeOK
  <2>4. ASSUME NEW m \in Nodes PROVE NodeOrder(m)'
    <3>1. NodeOrder(m)
      BY DEF Orderly
    <3>2. Calls(m)'
      BY <2>2, <2>3, <3>1, ShrinksCalls DEF NodeOrder
    <3>3. Starting(m)' /\ InSequence(m)' /\ Waiting(m)'
      BY <2>2, <3>1 DEF NodeOrder, Starting, InSequence, Waiting, Inside, Live
    <3> QED BY <3>2, <3>3 DEF NodeOrder
  <2>5. Requests'
    BY <2>2, <2>3, ShrinksRequests DEF Orderly
  <2>6. Unheard' = Unheard /\ \A m \in Nodes : Blocked(m)' <=> Blocked(m)
    BY <2>2 DEF Unheard, Blocked
  <2>7. Barrier'
    BY <2>2, <2>3, <2>6, BarrierSame DEF Orderly
  <2> QED BY <2>4, <2>5, <2>7 DEF Orderly
<1> QED BY <1>1, <1>2, <1>3 DEF Next, Finished

Ordered == Tame => Orderly

LEMMA NextOrder == Trail /\ Ordered /\ [Next]_vars => Ordered'
<1> SUFFICES ASSUME Tame, Trail, Orderly, [Next]_vars PROVE Orderly'
  BY DEF Ordered, Tame
<1>1. PICK T : Known(T)
  BY DEF Trail
<1> QED BY <1>1, StepOrder

LEMMA OrderAlways == Spec => [](Trail /\ Ordered)
<1>1. Init => Ordered
  BY InitOrder DEF Ordered
<1> QED BY <1>1, NextOrder, TrailAlways, PTL DEF Spec

LEMMA AgreesWhen == Trail /\ Orderly => ViewAgrees
<1> SUFFICES ASSUME Trail, Orderly, NEW n \in Nodes, UpToDate(n)
             PROVE  /\ bt[n].rx_pkt_seq = pkt_seq
                    /\ bt[n].rp_seq = rp_seq
                    /\ bt[n].next_rp - bt[n].last_rp = rp - global
  BY DEF ViewAgrees
<1>1. PICK T : Known(T)
  BY DEF Trail
<1>2. Knows(T, n) /\ ServerTrail(T) /\ spc = "listen" /\ InSequence(n)
  BY <1>1 DEF Known, Follows, NodeTrail, Inside, UpToDate, Orderly, NodeOrder
<1>3. bt[n].rx_pkt_seq = pkt_seq
  <2>1. bt[n].rx_pkt_seq + 0 = pkt_seq
    BY <1>2 DEF InSequence, UpToDate
  <2> QED BY <1>1, <2>1, NodeMark
<1>4. /\ bt[n].rp_seq = rp_seq /\ bt[n].next_rp = bt[n].last_rp + (rp - global)
  BY <1>2, <1>3 DEF Knows, At, ServerTrail
<1>5. bt[n].last_rp \in Nat /\ rp \in Nat /\ global \in Nat
  BY <1>1, NodeMark, MachineFields DEF Known, TypeInv, SrvTypeOK
<1> QED BY <1>3, <1>4, <1>5

LEMMA CompleteWhen == Trail /\ Orderly => RxComplete
<1> SUFFICES ASSUME Trail, Orderly, NEW n \in Nodes, UpToDate(n)
             PROVE  /\ Len(bt[n].got) <= Len(delivered)
                    /\ GotFrom(n, Len(delivered) - Len(bt[n].got))
  BY DEF RxComplete
<1>1. PICK T : Known(T)
  BY DEF Trail
<1>2. Knows(T, n) /\ ServerTrail(T)
  BY <1>1 DEF Known, Follows, NodeTrail, Inside, UpToDate
<1>3. bt[n].rx_pkt_seq = pkt_seq
  <2>1. ViewAgrees
    BY AgreesWhen
  <2> QED BY <2>1 DEF ViewAgrees
<1>4. Heard(bt[n].got, Len(delivered))
  BY <1>2, <1>3 DEF Knows, At, ServerTrail
<1> QED BY <1>4 DEF Heard, GotFrom, Tag

LEMMA ExactWhen == Trail /\ Orderly => BarrierExact
<1> SUFFICES ASSUME Trail, Orderly, spc = "listen"
             PROVE  synched = Cardinality(Blocks) - Unheard
  BY DEF BarrierExact, Blocks, Unheard, Announced, SynchedAt
<1>1. TypeInv /\ Barrier
  BY DEF Trail, Known, Orderly
<1>2. synched + Unheard = Cardinality(Blocks)
  BY <1>1 DEF Barrier
<1>3. Unheard \in Nat /\ Cardinality(Blocks) \in Nat /\ synched \in Int
  BY <1>1, BarrierFacts DEF TypeInv, SrvTypeOK
<1> QED BY <1>2, <1>3

\* When no datagram is lost, no user interrupts a node and the count of the
\* nodes fits in its char, a node that has parsed what it was sent has the
\* index and the distance of the server's rendez-vous, however many backtracks
\* there were and whoever joined in between.
THEOREM NodesAgree == Spec => [](Tame => ViewAgrees)
<1>1. Trail /\ Ordered => (Tame => ViewAgrees)
  BY AgreesWhen DEF Ordered
<1> QED BY <1>1, OrderAlways, PTL

\* Then the server's count is the number of nodes that wait and were heard:
\* the barrier never opens early, and never misses a node.
THEOREM BarrierCounts == Spec => [](Tame => BarrierExact)
<1>1. Trail /\ Ordered => (Tame => BarrierExact)
  BY ExactWhen DEF Ordered
<1> QED BY <1>1, OrderAlways, PTL

\* Then a node that has parsed what it was sent has missed no byte since its
\* connection, and has received none twice, although it may have gone back.
THEOREM ReceptionComplete == Spec => [](Tame => RxComplete)
<1>1. Trail /\ Ordered => (Tame => RxComplete)
  BY CompleteWhen DEF Ordered
<1> QED BY <1>1, OrderAlways, PTL

-----------------------------------------------------------------------------
(* What a node has to parse. *)

\* The index of the rendez-vous that a release or a backtrack leads to.
NewIndex(m) == IF m.type = "BACKTRACK" THEN m.rp_seq ELSE m.n_rp_seq

\* Bytes and releases come to blocked nodes only, and a release comes last:
\* behind it are backtracks.
BytesFirst(n) ==
  \A i \in 1..Len(mcast[n]) : mcast[n][i].type # "BACKTRACK" =>
    pc[n] = "synched" /\ \A j \in 1..i - 1 : mcast[n][j].type = "RX"

\* While the server hands bytes, nothing else is on its way.
BytesOnly(n) ==
  spc \in {"core", "desync"} => \A i \in 1..Len(mcast[n]) : mcast[n][i].type = "RX"

\* Only the last packet may lead to the rendez-vous of the server.
LastLeads(n) ==
  \A i \in 1..Len(mcast[n]) - 1 : mcast[n][i].type # "RX" => NewIndex(mcast[n][i]) < rp_seq

\* While the server listens, a node with something to parse is behind it.
IsBehind(n) == spc = "listen" /\ mcast[n] # <<>> => bt[n].rp_seq < rp_seq

Shape(n) == Live(n) => BytesFirst(n) /\ BytesOnly(n) /\ LastLeads(n) /\ IsBehind(n)

Shapes == \A n \in Nodes : Shape(n)

\* Nothing happens to the queue of m, nor to the index of its rendez-vous.
LEMMA SameShape ==
  ASSUME NEW m \in Nodes, Shape(m), Live(m)' => Live(m), mcast'[m] = mcast[m],
         UNCHANGED <<rp_seq, spc>>, bt'[m].rp_seq = bt[m].rp_seq,
         pc[m] = "synched" => pc'[m] = "synched"
  PROVE  Shape(m)'
<1> SUFFICES ASSUME Live(m)'
             PROVE  BytesFirst(m)' /\ BytesOnly(m)' /\ LastLeads(m)' /\ IsBehind(m)'
  BY DEF Shape
<1>1. BytesFirst(m) /\ BytesOnly(m) /\ LastLeads(m) /\ IsBehind(m)
  BY DEF Shape
<1>2. BytesFirst(m)'
  BY <1>1 DEF BytesFirst
<1>3. BytesOnly(m)' /\ IsBehind(m)'
  BY <1>1 DEF BytesOnly, IsBehind
<1>4. LastLeads(m)'
  BY <1>1 DEF LastLeads
<1> QED BY <1>2, <1>3, <1>4

\* A node that is not live, or that has nothing to parse, has a queue in shape.
LEMMA EmptyShape ==
  ASSUME NEW m \in Nodes, ~ Live(m)' \/ mcast'[m] = <<>>
  PROVE  Shape(m)'
<1>1. CASE ~ Live(m)'
  BY <1>1 DEF Shape
<1>2. CASE mcast'[m] = <<>>
  <2>1. Len(mcast'[m]) = 0 /\ 1..Len(mcast'[m]) = {} /\ 1..Len(mcast'[m]) - 1 = {}
    BY <1>2
  <2> QED BY <1>2, <2>1 DEF Shape, BytesFirst, BytesOnly, LastLeads, IsBehind
<1> QED BY <1>1, <1>2

LEMMA IdleShape ==
  ASSUME NEW m \in Nodes, Shape(m), Idle(m), mcast'[m] = mcast[m], UNCHANGED <<rp_seq, spc>>
  PROVE  Shape(m)'
<1>1. Live(m)' <=> Live(m)
  BY DEF Idle, Live
<1> QED BY <1>1, SameShape DEF Idle

LEMMA LocalShape ==
  ASSUME Shapes, NEW n \in Nodes, Local(n)
  PROVE  Shapes'
<1>1. UNCHANGED <<rp_seq, spc, mcast>> /\ SameView(bt[n], bt'[n]) /\ Live(n)
      /\ pc[n] # "synched" /\ \A m \in Nodes \ {n} : Idle(m)
  BY DEF Local, srvVars
<1>2. Shape(n)'
  BY <1>1, SameShape DEF Shapes, SameView
<1>3. ASSUME NEW m \in Nodes \ {n} PROVE Shape(m)'
  BY <1>1, IdleShape DEF Shapes
<1> QED BY <1>2, <1>3 DEF Shapes

\* The packet that a node parses is the next one, and the trail says what it is.
LEMMA ParsedNext ==
  ASSUME NEW T, Known(T), Orderly, NEW n \in Nodes, Parsed(n)
  PROVE  LET m == Head(mcast[n])
             x == bt[n].rx_pkt_seq
         IN  /\ x \in Nat /\ x < pkt_seq /\ T[x] \in Mark /\ T[x + 1] \in Mark
             /\ m \in McastPkt /\ m = mcast[n][1] /\ 1 \in 1..Len(mcast[n])
             /\ Carries(m, T[x], T[x + 1])
             /\ m.type \in RxTypes => n \in m.to
             /\ bt[n].rp_seq = T[x].rp /\ bt[n].next_rp = bt[n].last_rp + T[x].dist
             /\ \E c \in Machine :
                  /\ ParsedAs(n, Before(n), m, c) /\ SameMoment(c, bt'[n])
                  /\ ParsedTo(n, Before(n), backup[n], m, c, backup'[n])
                  /\ IF pc[n] = "synched" THEN pc'[n] = "synched" <=> c.pending
                                          ELSE pc'[n] # "synched"
<1> DEFINE m == Head(mcast[n])
           x == bt[n].rx_pkt_seq
           b == Before(n)
<1>0. /\ CltTypeOK /\ NetType /\ Live(n) /\ mcast[n] # <<>> /\ NodeOrder(n) /\ Inside(n)
  BY DEF Known, TypeInv, Parsed, Orderly, Inside
<1>1. InBox(T, n) /\ Knows(T, n)
  BY <1>0 DEF Known, Follows, NodeTrail
<1>2. PICK c \in Machine : ParsedAs(n, b, m, c)
  BY DEF Parsed
<1>3. /\ SameView(bt[n], b) /\ x \in Nat /\ b.rx_pkt_seq = x
  BY <1>0, BeforeIs, NodeMark DEF SameView
<1>4. /\ m = mcast[n][1] /\ 1 \in 1..Len(mcast[n]) /\ m \in McastPkt /\ m.seq = x
  <2>1. m = mcast[n][1] /\ 1 \in 1..Len(mcast[n]) /\ m \in McastPkt
    BY <1>0, TailIs, HeadIs DEF NetType
  <2>2. mcast[n][1].seq = (bt[n].rx_pkt_seq + 1) - 1
    BY <1>0, <2>1 DEF NodeOrder, InSequence
  <2> QED BY <1>3, <2>1, <2>2
<1>5. x < pkt_seq /\ Carries(m, T[x], T[x + 1]) /\ (m.type \in RxTypes => n \in m.to)
  BY <1>1, <1>4 DEF InBox
<1>6. T[x] \in Mark /\ T[x + 1] \in Mark
  BY <1>3 DEF Known
<1>7. bt[n].rp_seq = T[x].rp /\ bt[n].next_rp = bt[n].last_rp + T[x].dist
  BY <1>1 DEF Knows, At
<1>8. m.seq = b.rx_pkt_seq /\ m.seq <= b.rx_pkt_seq
  BY <1>3, <1>4
<1> HIDE DEF m, b, x
<1>9. /\ ParsedTo(n, b, backup[n], m, c, backup'[n]) /\ SameMoment(c, bt'[n])
      /\ IF pc[n] = "synched" THEN pc'[n] = "synched" <=> c.pending
                              ELSE pc'[n] # "synched"
  BY <1>2, <1>8 DEF ParsedAs
<1> QED BY <1>2, <1>3, <1>4, <1>5, <1>6, <1>7, <1>9 DEF m, b, x

\* The index a packet leads to, and what a mere byte leaves alone.
LEMMA ParsedIndex ==
  ASSUME NEW n \in Nodes, NEW b \in Machine, NEW s \in Machine, NEW m \in McastPkt,
         NEW c \in Machine, NEW t \in Machine, ParsedTo(n, b, s, m, c, t),
         NEW a \in Mark, NEW z \in Mark, Carries(m, a, z), b.rp_seq = a.rp
  PROVE  /\ m.type # "RX" => c.rp_seq = NewIndex(m)
         /\ m.type = "RX" => c.rp_seq = b.rp_seq /\ c.pending = b.pending
<1>1. m.type \in {"BACKTRACK", "SYNCH_REQ", "RX", "SYNCH_REQ_RX"}
  BY McastFields
<1>2. CASE m.type = "BACKTRACK"
  <2>1. \E r \in {b, s} : Moved(r, m, c)
    BY <1>2 DEF ParsedTo, ReleaseTypes
  <2> QED BY <1>2, <2>1 DEF Moved, NewIndex
<1>3. CASE m.type \in ReleaseTypes
  <2>1. m.c_rp_seq = b.rp_seq /\ m.type # "RX" /\ m.type # "BACKTRACK"
    BY <1>3 DEF Carries, ReleaseTypes
  <2>2. Leaves(b, m, c)
    BY <1>3, <2>1 DEF ParsedTo
  <2> QED BY <2>1, <2>2 DEF Leaves, NewIndex
<1>4. CASE m.type = "RX"
  <2>1. Stays(b, c)
    BY <1>4 DEF ParsedTo, ReleaseTypes
  <2> QED BY <1>4, <2>1 DEF Stays
<1> QED BY <1>1, <1>2, <1>3, <1>4 DEF ReleaseTypes

LEMMA ParsedShape ==
  ASSUME NEW T, Known(T), Orderly, Shapes, NEW n \in Nodes, Parsed(n)
  PROVE  Shapes'
<1> DEFINE q == mcast[n]
           m == Head(q)
           b == Before(n)
<1>0. /\ NetType /\ CltTypeOK /\ Live(n) /\ Inside(n) /\ q # <<>> /\ NodeOrder(n) /\ Shape(n)
      /\ UNCHANGED <<rp_seq, spc>> /\ \A k \in Nodes \ {n} : Idle(k)
      /\ mcast' = [mcast EXCEPT ![n] = Tail(q)]
      /\ backup[n] \in Machine /\ backup'[n] \in Machine
  BY NodeMark DEF Parsed, Known, TypeInv, Orderly, Shapes, Inside, srvVars, CltTypeOK
<1>1. /\ mcast'[n] = Tail(q) /\ \A k \in Nodes \ {n} : mcast'[k] = mcast[k]
      /\ q \in Seq(McastPkt)
  BY <1>0 DEF NetType
<1>2. /\ Len(mcast'[n]) = Len(q) - 1 /\ Len(q) \in Nat /\ Len(q) >= 1
      /\ \A i \in 1..Len(mcast'[n]) : i + 1 \in 1..Len(q) /\ mcast'[n][i] = q[i + 1]
  <2> HIDE DEF q
  <2>1. q # <<>> /\ q \in Seq(McastPkt) /\ mcast'[n] = Tail(q)
    BY <1>0, <1>1
  <2>2. /\ Len(Tail(q)) = Len(q) - 1 /\ Len(q) \in Nat /\ Len(q) >= 1
        /\ \A i \in 1..Len(Tail(q)) : i + 1 \in 1..Len(q) /\ Tail(q)[i] = q[i + 1]
    BY <2>1
  <2> QED BY <2>1, <2>2
<1>3. PICK a \in Mark, z \in Mark : Carries(m, a, z) /\ bt[n].rp_seq = a.rp
  BY ParsedNext
<1>4. /\ m \in McastPkt /\ m = q[1] /\ 1 \in 1..Len(q)
  BY ParsedNext
<1>5. PICK c \in Machine :
        /\ SameMoment(c, bt'[n]) /\ ParsedTo(n, b, backup[n], m, c, backup'[n])
        /\ IF pc[n] = "synched" THEN pc'[n] = "synched" <=> c.pending
                                ELSE pc'[n] # "synched"
  BY ParsedNext
<1>6. b \in Machine /\ b.rp_seq = bt[n].rp_seq /\ b.pending = bt[n].pending
  BY <1>0, BeforeIs DEF SameView
<1>7. /\ m.type # "RX" => c.rp_seq = NewIndex(m)
      /\ m.type = "RX" => c.rp_seq = bt[n].rp_seq /\ c.pending = bt[n].pending
  BY <1>0, <1>3, <1>4, <1>5, <1>6, ParsedIndex
<1>8. bt'[n].rp_seq = c.rp_seq /\ (bt[n].pending <=> pc[n] = "synched")
  BY <1>0, <1>5 DEF SameMoment, SameView, NodeOrder, Waiting
<1> HIDE DEF m, b
<1>9. BytesFirst(n) /\ BytesOnly(n) /\ LastLeads(n) /\ IsBehind(n)
  BY <1>0 DEF Shape
<1> HIDE DEF q
<1>10. BytesFirst(n)'
  <2>1. SUFFICES ASSUME NEW i \in 1..Len(mcast'[n]), mcast'[n][i].type # "BACKTRACK"
                 PROVE  /\ pc'[n] = "synched"
                        /\ \A j \in 1..i - 1 : mcast'[n][j].type = "RX"
    BY DEF BytesFirst
  <2>2. i + 1 \in 1..Len(q) /\ q[i + 1].type # "BACKTRACK" /\ i \in Nat /\ i >= 1
    BY <1>2, <2>1
  <2>3. pc[n] = "synched" /\ \A j \in 1..(i + 1) - 1 : q[j].type = "RX"
    BY <1>9, <2>2 DEF BytesFirst, q
  <2>4. m.type = "RX"
    BY <1>4, <2>2, <2>3
  <2>5. pc'[n] = "synched"
    BY <1>5, <1>7, <1>8, <2>3, <2>4
  <2>6. ASSUME NEW j \in 1..i - 1 PROVE mcast'[n][j].type = "RX"
    <3>1. j \in 1..Len(mcast'[n]) /\ j + 1 \in 1..(i + 1) - 1
      BY <2>2
    <3> QED BY <1>2, <2>3, <3>1
  <2> QED BY <2>5, <2>6
<1>11. BytesOnly(n)'
  BY <1>0, <1>2, <1>9 DEF BytesOnly, q
<1>12. LastLeads(n)'
  <2>1. SUFFICES ASSUME NEW i \in 1..Len(mcast'[n]) - 1, mcast'[n][i].type # "RX"
                 PROVE  NewIndex(mcast'[n][i]) < rp_seq
    BY <1>0 DEF LastLeads
  <2>2. i + 1 \in 1..Len(q) - 1 /\ i \in 1..Len(mcast'[n])
    BY <1>2
  <2> QED BY <1>2, <1>9, <2>1, <2>2 DEF LastLeads, q
<1>13. IsBehind(n)'
  <2>1. SUFFICES ASSUME spc = "listen", mcast'[n] # <<>> PROVE bt'[n].rp_seq < rp_seq
    BY <1>0 DEF IsBehind
  <2>2. bt[n].rp_seq < rp_seq
    BY <1>0, <1>9, <2>1 DEF IsBehind, q
  <2>3. 1 \in 1..Len(q) - 1
    <3>1. mcast'[n] \in Seq(McastPkt)
      BY <1>0, <1>1
    <3>2. Len(mcast'[n]) # 0 /\ Len(mcast'[n]) \in Nat
      BY <2>1, <3>1
    <3>3. Len(mcast'[n]) = Len(q) - 1 /\ Len(q) \in Nat
      BY <1>2
    <3>4. \A k, l \in Nat : k = l - 1 /\ k # 0 => 1 \in 1..l - 1
      OBVIOUS
    <3> QED BY <3>2, <3>3, <3>4
  <2>4. m.type # "RX" => NewIndex(m) < rp_seq
    BY <1>4, <1>9, <2>3 DEF LastLeads, q
  <2> QED BY <1>7, <1>8, <2>2, <2>4
<1>14. Shape(n)'
  BY <1>10, <1>11, <1>12, <1>13 DEF Shape
<1>15. ASSUME NEW k \in Nodes \ {n} PROVE Shape(k)'
  BY <1>0, <1>1, IdleShape DEF Shapes
<1> QED BY <1>14, <1>15 DEF Shapes

LEMMA OtherShapes ==
  ASSUME TypeInv, Shapes, NEW n \in Nodes, UNCHANGED srvVars, Shape(n)',
         \A k \in Nodes \ {n} : Idle(k) /\ mcast'[k] = mcast[k]
  PROVE  Shapes'
<1>1. UNCHANGED <<rp_seq, spc>>
  BY DEF srvVars
<1>2. ASSUME NEW k \in Nodes \ {n} PROVE Shape(k)'
  BY <1>1, IdleShape DEF Shapes
<1> QED BY <1>2 DEF Shapes

LEMMA NodeShape ==
  ASSUME Tame, NEW T, Known(T), Orderly, Shapes, NEW n \in Nodes, CltStep(n) \/ CltUser(n),
         UNCHANGED srvVars
  PROVE  Shapes'
<1>0. TypeInv /\ NetType /\ Member(n) /\ Shape(n)
  BY OwnState DEF Shapes
<1>1. Local(n) \/ Parsed(n) \/ Comes(n) \/ Close(n) \/ StopAndRun(n)
  BY <1>0, NodeStep DEF Goes, Quit, Tame
<1>2. CASE Connect(n)
  <2>1. /\ pc'[n] = "connecting" /\ mcast' = mcast /\ \A m \in Nodes \ {n} : Idle(m)
    BY <1>0, <1>2, ConnectStep DEF Elsewhere
  <2>2. Shape(n)'
    BY <2>1, EmptyShape DEF Live
  <2> QED BY <1>0, <2>1, <2>2, OtherShapes
<1>3. CASE Connected(n)
  <2>1. /\ pc'[n] = "joining" /\ mcast' = mcast /\ \A m \in Nodes \ {n} : Idle(m)
    BY <1>0, <1>3, ConnectedStep DEF Elsewhere
  <2>2. Shape(n)'
    BY <2>1, EmptyShape DEF Live
  <2> QED BY <1>0, <2>1, <2>2, OtherShapes
<1>4. CASE Refused(n)
  <2>1. /\ pc'[n] = "refused" /\ mcast' = mcast /\ \A m \in Nodes \ {n} : Idle(m)
    BY <1>0, <1>4, RefusedStep DEF Elsewhere
  <2>2. Shape(n)'
    BY <2>1, EmptyShape DEF Live
  <2> QED BY <1>0, <2>1, <2>2, OtherShapes
<1>5. CASE Join(n)
  <2>1. /\ pc[n] = "joining" /\ mcast' = mcast /\ \A m \in Nodes \ {n} : Idle(m)
    BY <1>0, <1>5, JoinStep DEF Elsewhere
  <2>2. mcast[n] = <<>>
    BY <1>0, <2>1 DEF Member, Live
  <2>3. Shape(n)'
    BY <2>1, <2>2, EmptyShape
  <2> QED BY <1>0, <2>1, <2>3, OtherShapes
<1>6. CASE Close(n)
  <2>1. /\ pc'[n] = "closed" /\ \A m \in Nodes \ {n} : Idle(m)
        /\ mcast' = [mcast EXCEPT ![n] = <<>>]
    BY <1>0, <1>6, LeaveStep DEF Elsewhere, Close
  <2>2. Shape(n)'
    BY <2>1, EmptyShape DEF Live
  <2> QED BY <1>0, <2>1, <2>2, OtherShapes DEF NetType
<1>7. CASE StopAndRun(n)
  <2>1. /\ UNCHANGED <<pc, bt, mcast>> /\ \A m \in Nodes \ {n} : Idle(m)
        /\ UNCHANGED <<rp_seq, spc>>
    BY <1>0, <1>7, StopStep DEF Elsewhere, netVars, srvVars
  <2>2. Shape(n)'
    BY <1>0, <2>1, SameShape DEF Live
  <2> QED BY <1>0, <2>1, <2>2, OtherShapes
<1> QED BY <1>1, <1>2, <1>3, <1>4, <1>5, <1>6, <1>7, LocalShape, ParsedShape DEF Comes

\* When the server reads a packet, only the opening of the barrier matters:
\* then every node is at the rendez-vous, with nothing to parse.
LEMMA ReadsShape ==
  ASSUME TypeInv, Members', Orderly', NEW type, Reads(type), spc' # "desync", Shapes
  PROVE  Shapes'
<1>0. spc = "listen" /\ UNCHANGED <<rp_seq, mcast, pc, bt>>
  BY DEF Reads, cltVars
<1> SUFFICES ASSUME NEW m \in Nodes, Live(m)' PROVE Shape(m)'
  BY DEF Shapes, Shape
<1>1. Live(m) /\ Shape(m)
  BY <1>0 DEF Live, Shapes
<1>2. BytesFirst(m) /\ LastLeads(m) /\ IsBehind(m)
  BY <1>1 DEF Shape
<1>3. CASE spc' = "core"
  <2>1. m \in active' /\ Blocks' = active'
    BY <1>3 DEF Members, Member, Inside, Orderly, Barrier
  <2>2. bt[m].rp_seq = rp_seq
    BY <1>0, <2>1 DEF Blocks, Blocked
  <2>3. bt[m].rp_seq \in Nat
    BY MachineFields DEF TypeInv, CltTypeOK
  <2>4. mcast'[m] = <<>>
    BY <1>0, <1>2, <2>2, <2>3 DEF IsBehind
  <2> QED BY <2>4, EmptyShape
<1>4. CASE spc' # "core"
  <2>1. BytesFirst(m)' /\ LastLeads(m)'
    BY <1>0, <1>2 DEF BytesFirst, LastLeads
  <2>2. BytesOnly(m)'
    BY <1>4 DEF BytesOnly
  <2>3. IsBehind(m)'
    BY <1>0, <1>2 DEF IsBehind
  <2> QED BY <2>1, <2>2, <2>3 DEF Shape
<1> QED BY <1>3, <1>4

\* A queue that gets the packet p.
LEMMA AppendedTo ==
  ASSUME NEW q \in Seq(McastPkt), NEW p \in McastPkt
  PROVE  /\ Len(Append(q, p)) = Len(q) + 1 /\ Len(q) \in Nat
         /\ Append(q, p)[Len(q) + 1] = p
         /\ \A i \in 1..Len(q) : Append(q, p)[i] = q[i]
         /\ \A i \in 1..Len(Append(q, p)) : i \in 1..Len(q) \/ i = Len(q) + 1
OBVIOUS

LEMMA SendsTo ==
  ASSUME Tame, TypeInv, Members, NEW p, Sends(p), NEW m \in Nodes, Live(m)'
  PROVE  /\ Live(m) /\ mcast[m] \in Seq(McastPkt) /\ p \in McastPkt
         /\ mcast'[m] = Append(mcast[m], p)
<1>1. Live(m) /\ p \in McastPkt
  BY DEF Live, Sends, cltVars
<1>2. m \in joined
  BY <1>1 DEF Members, Member
<1>3. mcast'[m] = Append(mcast[m], p)
  BY <1>2 DEF Sends, SentTo, Tame
<1> QED BY <1>1, <1>3 DEF TypeInv, NetType

\* The packets on their way lead at most to the rendez-vous of the server.
LEMMA LeadsTo ==
  ASSUME NEW T, Known(T), NEW m \in Nodes, NEW i \in 1..Len(mcast[m]),
         mcast[m][i].type # "RX"
  PROVE  NewIndex(mcast[m][i]) \in Nat /\ NewIndex(mcast[m][i]) <= rp_seq
<1> DEFINE p == mcast[m][i]
           k == p.seq
<1>1. NetType /\ InBox(T, m) /\ ServerTrail(T) /\ pkt_seq \in Nat
  BY DEF Known, TypeInv, SrvTypeOK, Follows, NodeTrail
<1>2. p \in McastPkt
  BY <1>1 DEF NetType
<1>3. k \in Nat /\ k < pkt_seq /\ Carries(p, T[k], T[k + 1])
  BY <1>1, <1>2, McastFields DEF InBox
<1>4. T[k + 1] \in Mark /\ T[k + 1].rp <= rp_seq
  BY <1>1, <1>3 DEF Known, ServerTrail
<1>5. NewIndex(p) = T[k + 1].rp
  BY <1>2, <1>3, McastFields DEF Carries, NewIndex, ReleaseTypes
<1> QED BY <1>4, <1>5 DEF Mark

\* A backtrack goes to every node.
LEMMA BacktrackShape ==
  ASSUME Tame, NEW T, Known(T), Orderly, Shapes, RecvTxBacktrack, UNCHANGED cltVars
  PROVE  Shapes'
<1>0. TypeInv /\ Members /\ rp_seq \in Nat
  BY DEF Known, TypeInv, SrvTypeOK
<1>1. /\ spc = "listen" /\ spc' = "listen" /\ Sends(BacktrackTo) /\ rp_seq' = rp_seq + 1
      /\ UNCHANGED <<pc, bt>>
  BY <1>0, BacktrackTypes DEF cltVars
<1> DEFINE p == BacktrackTo
<1>2. p.type = "BACKTRACK"
  BY DEF BacktrackTo, BacktrackPkt
<1> HIDE DEF p
<1> SUFFICES ASSUME NEW m \in Nodes, Live(m)' PROVE Shape(m)'
  BY DEF Shapes, Shape
<1> DEFINE q == mcast[m]
<1>3. Live(m) /\ q \in Seq(McastPkt) /\ p \in McastPkt /\ mcast'[m] = Append(q, p)
  BY <1>0, <1>1, SendsTo DEF p
<1>4. BytesFirst(m) /\ Inside(m)
  BY <1>3 DEF Shapes, Shape, Inside
<1>5. /\ Len(mcast'[m]) = Len(q) + 1 /\ Len(q) \in Nat /\ mcast'[m][Len(q) + 1] = p
      /\ \A i \in 1..Len(q) : mcast'[m][i] = q[i]
      /\ \A i \in 1..Len(mcast'[m]) : i \in 1..Len(q) \/ i = Len(q) + 1
  BY <1>3, AppendedTo
<1>6. BytesFirst(m)'
  <2>1. SUFFICES ASSUME NEW i \in 1..Len(mcast'[m]), mcast'[m][i].type # "BACKTRACK"
                 PROVE  pc[m] = "synched" /\ \A j \in 1..i - 1 : mcast'[m][j].type = "RX"
    BY <1>1 DEF BytesFirst
  <2>2. i \in 1..Len(q) /\ mcast'[m][i] = q[i]
    BY <1>2, <1>5, <2>1
  <2>3. pc[m] = "synched" /\ \A j \in 1..i - 1 : q[j].type = "RX"
    BY <1>4, <2>1, <2>2 DEF BytesFirst
  <2>4. ASSUME NEW j \in 1..i - 1 PROVE mcast'[m][j].type = "RX"
    <3>1. j \in 1..Len(q)
      BY <1>5, <2>2
    <3> QED BY <1>5, <2>3, <3>1
  <2> QED BY <2>3, <2>4
<1>7. LastLeads(m)'
  <2>1. SUFFICES ASSUME NEW i \in 1..Len(mcast'[m]) - 1, mcast'[m][i].type # "RX"
                 PROVE  NewIndex(mcast'[m][i]) < rp_seq + 1
    BY <1>1 DEF LastLeads
  <2>2. i \in 1..Len(q) /\ mcast'[m][i] = q[i]
    BY <1>5
  <2>3. NewIndex(q[i]) \in Nat /\ NewIndex(q[i]) <= rp_seq
    BY <2>1, <2>2, LeadsTo
  <2> QED BY <1>0, <2>2, <2>3
<1>8. BytesOnly(m)' /\ IsBehind(m)'
  <2>1. bt[m].rp_seq <= rp_seq /\ bt[m].rp_seq \in Nat
    BY <1>4, KnownIndex
  <2> QED BY <1>0, <1>1, <2>1 DEF BytesOnly, IsBehind
<1> QED BY <1>6, <1>7, <1>8 DEF Shape

\* The server hands a byte, or releases the nodes.
LEMMA CoreShape ==
  ASSUME Tame, NEW T, Known(T), Orderly, Shapes, NEW p \in McastPkt, Releases(p) \/ Hands(p)
  PROVE  Shapes'
<1>0. TypeInv /\ Members /\ rp_seq \in Nat
  BY DEF Known, TypeInv, SrvTypeOK
<1>1. /\ spc = "core" /\ Sends(p) /\ UNCHANGED <<pc, bt>>
      /\ \/ spc' = "listen" /\ rp_seq' = rp_seq + 1
         \/ spc' = "core" /\ p.type = "RX"
  BY DEF Releases, Hands, Sends, cltVars
<1> SUFFICES ASSUME NEW m \in Nodes, Live(m)' PROVE Shape(m)'
  BY DEF Shapes, Shape
<1> DEFINE q == mcast[m]
<1>3. Live(m) /\ q \in Seq(McastPkt) /\ mcast'[m] = Append(q, p)
  BY <1>0, <1>1, SendsTo
<1>4. Inside(m) /\ \A i \in 1..Len(q) : q[i].type = "RX"
  BY <1>1, <1>3 DEF Shapes, Shape, Inside, BytesOnly
<1>5. /\ Len(mcast'[m]) = Len(q) + 1 /\ Len(q) \in Nat /\ mcast'[m][Len(q) + 1] = p
      /\ \A i \in 1..Len(q) : mcast'[m][i] = q[i]
      /\ \A i \in 1..Len(mcast'[m]) : i \in 1..Len(q) \/ i = Len(q) + 1
  BY <1>3, AppendedTo
<1>6. pc[m] = "synched"
  <2>1. m \in active /\ Blocks = active
    BY <1>0, <1>1, <1>4 DEF Members, Member, Orderly, Barrier
  <2> QED BY <2>1 DEF Blocks, Blocked
<1>7. \A i \in 1..Len(q) : mcast'[m][i].type = "RX"
  BY <1>4, <1>5
<1>8. BytesFirst(m)'
  <2>1. ASSUME NEW i \in 1..Len(mcast'[m]), NEW j \in 1..i - 1
        PROVE  mcast'[m][j].type = "RX"
    <3>1. j \in 1..Len(q)
      BY <1>5
    <3> QED BY <1>7, <3>1
  <2> QED BY <1>1, <1>6, <2>1 DEF BytesFirst
<1>9. LastLeads(m)'
  <2>1. ASSUME NEW i \in 1..Len(mcast'[m]) - 1 PROVE mcast'[m][i].type = "RX"
    <3>1. i \in 1..Len(q)
      BY <1>5
    <3> QED BY <1>7, <3>1
  <2> QED BY <2>1 DEF LastLeads
<1>10. BytesOnly(m)'
  BY <1>1, <1>5, <1>7 DEF BytesOnly
<1>11. IsBehind(m)'
  <2>1. bt[m].rp_seq <= rp_seq /\ bt[m].rp_seq \in Nat
    BY <1>4, KnownIndex
  <2> QED BY <1>0, <1>1, <2>1 DEF IsBehind
<1> QED BY <1>8, <1>9, <1>10, <1>11 DEF Shape

LEMMA ServerShape ==
  ASSUME Tame, NEW T, Known(T), Orderly, Shapes, SrvNext, UNCHANGED cltVars,
         Members', Orderly'
  PROVE  Shapes'
<1>0. TypeInv
  BY DEF Known
<1>1. CASE RecvTxBacktrack
  BY <1>1, BacktrackShape
<1>2. CASE SrvListen /\ ~ RecvTxBacktrack
  <2>1. \E type : Reads(type)
    BY <1>0, <1>2, DisconnectTypes, ConnectTypes, SynchedTypes, TxTypes DEF SrvListen
  <2>2. spc' # "desync"
    <3>1. CASE RecvDisconnect
      BY <2>1, <3>1 DEF RecvDisconnect, BarrierCheck, Reads
    <3>2. CASE RecvSynched
      BY <2>1, <3>2 DEF RecvSynched, BarrierCheck, Reads
    <3>3. CASE RecvConnect
      BY <1>0, <2>1, <3>3, ConnectTypes DEF Reads
    <3>4. CASE RecvTxDropped \/ RecvTxAccepted
      BY <1>0, <2>1, <3>4, TxTypes DEF Reads
    <3> QED BY <1>2, <3>1, <3>2, <3>3, <3>4 DEF SrvListen
  <2> QED BY <1>0, <2>1, <2>2, ReadsShape
<1>3. CASE SrvCore
  <2>1. (\E p \in McastPkt : Releases(p) \/ Hands(p)) \/ Desynchronizes
    BY <1>0, <1>3, CoreTypes
  <2>2. CASE Desynchronizes
    <3>1. /\ spc = "core" /\ spc' = "desync" /\ UNCHANGED <<rp_seq, mcast, pc, bt>>
      BY <2>2 DEF Desynchronizes, netVars, cltVars
    <3>2. ASSUME NEW m \in Nodes PROVE Shape(m)'
      <4>1. Shape(m)
        BY DEF Shapes
      <4> QED BY <3>1, <4>1 DEF Shape, Live, BytesFirst, BytesOnly, LastLeads, IsBehind
    <3> QED BY <3>2 DEF Shapes
  <2> QED BY <2>1, <2>2, CoreShape
<1> QED BY <1>1, <1>2, <1>3 DEF SrvNext

Shaped == Tame => Shapes

LEMMA InitShape == Init => Shaped
<1> SUFFICES ASSUME Init, NEW n \in Nodes PROVE Shape(n)
  BY DEF Shaped, Shapes
<1>1. pc[n] = "off"
  BY DEF Init, CltInit
<1> QED BY <1>1 DEF Shape, Live

LEMMA NextShape ==
  Trail /\ Trail' /\ Ordered /\ Ordered' /\ Shaped /\ [Next]_vars => Shaped'
<1> SUFFICES ASSUME Tame, Trail, Trail', Orderly, Orderly', Shapes, [Next]_vars PROVE Shapes'
  BY DEF Ordered, Shaped, Tame
<1>1. PICK T : Known(T)
  BY DEF Trail
<1>2. Members'
  BY DEF Trail, Known
<1>3. CASE Server
  BY <1>1, <1>2, <1>3, ServerShape DEF Server
<1>4. ASSUME NEW n \in Nodes, Node(n) \/ User(n) PROVE Shapes'
  BY <1>1, <1>4, NodeShape DEF Node, User
<1>5. CASE UNCHANGED vars
  <2>1. UNCHANGED <<spc, rp_seq, mcast, pc, bt>>
    BY <1>5 DEF vars, srvVars, cltVars, netVars
  <2>2. ASSUME NEW m \in Nodes PROVE Shape(m)'
    <3>1. Shape(m) /\ (Live(m)' => Live(m))
      BY <2>1 DEF Shapes, Live
    <3> QED BY <2>1, <3>1, SameShape
  <2> QED BY <2>2 DEF Shapes
<1> QED BY <1>3, <1>4, <1>5 DEF Next, Finished

LEMMA ShapeAlways == Spec => [](Trail /\ Ordered /\ Shaped)
<1>1. Trail /\ Ordered /\ Shaped /\ (Trail /\ Ordered)' /\ [Next]_vars => Shaped'
  BY NextShape
<1> QED BY <1>1, InitShape, OrderAlways, PTL DEF Spec

-----------------------------------------------------------------------------
(* The clock of a node and its rendez-vous. *)

\* A node goes one instruction beyond its rendez-vous at most, and is then
\* blocked; what it goes back to is its last rendez-vous.
Paced(n) ==
  Inside(n) => /\ bt[n].min_duration = 0 /\ backup[n].min_duration = 0
               /\ backup[n].now = backup[n].last_rp
               /\ bt[n].now <= bt[n].next_rp + Quantum[n]
               /\ pc[n] # "synched" => bt[n].now <= bt[n].next_rp

AllPaced == \A n \in Nodes : Paced(n)

LEMMA SamePaced ==
  ASSUME NEW m \in Nodes, Paced(m), Inside(m)' => Inside(m), bt'[m] = bt[m],
         backup'[m] = backup[m], pc'[m] # "synched" => pc[m] # "synched"
  PROVE  Paced(m)'
BY DEF Paced

LEMMA OtherPaced ==
  ASSUME AllPaced, NEW n \in Nodes, Paced(n)', \A k \in Nodes \ {n} : Idle(k)
  PROVE  AllPaced'
<1>1. ASSUME NEW k \in Nodes \ {n} PROVE Paced(k)'
  BY SamePaced DEF AllPaced, Idle, Inside, Live
<1> QED BY <1>1 DEF AllPaced

\* The constants of a node.
LEMMA QuantumIs ==
  ASSUME NEW n \in Nodes
  PROVE  Quantum[n] \in Nat /\ Quantum[n] >= 1
<1>1. Quantum[n] \in Nat \ {0}
  BY ClientAssumption
<1> QED BY <1>1

\* What a node does on its own.
Works(n) == UpdateWait(n) \/ UpdateNothing(n) \/ UpdateSynched(n) \/ Transmit(n)

LEMMA WorkPaced ==
  ASSUME TypeInv, AllPaced, NEW n \in Nodes, Works(n), UNCHANGED srvVars
  PROVE  AllPaced'
<1>0. CltTypeOK /\ bt[n] \in Machine /\ bt[n].now \in Nat /\ bt[n].next_rp \in Nat
  BY MachineFields DEF TypeInv, CltTypeOK
<1>1. Local(n)
  BY WaitStep, NothingStep, SynchedStep, TransmitStep DEF Works
<1>2. /\ Live(n) /\ pc[n] # "synched" /\ SameView(bt[n], bt'[n]) /\ backup' = backup
      /\ \A m \in Nodes \ {n} : Idle(m)
  BY <1>1 DEF Local
<1>3. /\ bt[n].min_duration = 0 /\ backup[n].min_duration = 0
      /\ backup[n].now = backup[n].last_rp /\ bt[n].now <= bt[n].next_rp
  BY <1>2 DEF AllPaced, Paced, Inside
<1>4. /\ Ticked(n) \in Machine /\ Ticked(n).now = bt[n].now + Quantum[n]
      /\ Ticked(n).min_duration = 0
  BY <1>0, <1>3, TickEffect
<1>5. /\ bt'[n].min_duration = 0 /\ bt'[n].now <= bt[n].next_rp + Quantum[n]
      /\ pc'[n] # "synched" => bt'[n].now <= bt[n].next_rp
  <2>1. CASE UpdateWait(n)
    BY <1>4, <2>1 DEF UpdateWait
  <2>2. CASE UpdateNothing(n)
    <3>1. bt'[n] = Ticked(n) /\ Ticked(n).now < bt[n].next_rp
      BY <1>0, <2>2 DEF UpdateNothing, Become, CltTypeOK
    <3> QED BY <1>0, <1>3, <1>4, <3>1, QuantumIs
  <2>3. CASE UpdateSynched(n)
    <3>1. bt'[n] = [Ticked(n) EXCEPT !.pending = TRUE] /\ pc'[n] = "synched"
      BY <1>0, <2>3 DEF UpdateSynched, Become, Goto, CltTypeOK
    <3>2. bt'[n].now = Ticked(n).now /\ bt'[n].min_duration = 0
      BY <1>4, <3>1, PendingEffect
    <3> QED BY <1>0, <1>3, <1>4, <3>1, <3>2, QuantumIs
  <2>4. CASE Transmit(n)
    <3> DEFINE b == BeforeTx(n, bt[n])
               c == [b EXCEPT !.tx_pkt_seq = @ + 1, !.tx_backtracked = TRUE]
               k == bt[n].byte + 1
    <3>1. b \in Machine /\ SameMoment(bt[n], b) /\ b.min_duration = 0
      BY <1>0, <1>3, BeforeTxEffect
    <3>2. c \in Machine /\ SameMoment(b, c) /\ c.min_duration = 0
      BY <3>1, SentEffect
    <3>3. /\ AfterTx(n, c, k) \in Machine /\ SameMoment(c, AfterTx(n, c, k))
          /\ AfterTx(n, c, k).min_duration = 0
      <4>1. k \in Nat
        BY <1>0, MachineFields
      <4> HIDE DEF c, k
      <4> QED BY <3>2, <4>1, AfterTxEffect
    <3>4. bt'[n] = c \/ bt'[n] = AfterTx(n, c, k)
      <4>1. Become(n, c) \/ Become(n, AfterTx(n, c, k))
        BY <2>4 DEF Transmit
      <4> HIDE DEF c, k
      <4> QED BY <1>0, <4>1 DEF Become, CltTypeOK
    <3> HIDE DEF b, c, k
    <3>5. bt'[n].now = bt[n].now /\ bt'[n].min_duration = 0
      BY <3>1, <3>2, <3>3, <3>4 DEF SameMoment
    <3> QED BY <1>0, <1>3, <3>5, QuantumIs
  <2> QED BY <2>1, <2>2, <2>3, <2>4 DEF Works
<1>6. Paced(n)'
  BY <1>2, <1>3, <1>5 DEF Paced, SameView
<1> QED BY <1>2, <1>6, OtherPaced

LEMMA ParsedPaced ==
  ASSUME NEW T, Known(T), Orderly, Shapes, AllPaced, NEW n \in Nodes, Parsed(n)
  PROVE  AllPaced'
<1> DEFINE m == Head(mcast[n])
           b == Before(n)
           s == backup[n]
           t == backup'[n]
<1>0. /\ CltTypeOK /\ CltTypeOK' /\ Live(n) /\ Inside(n) /\ NodeOrder(n) /\ Shape(n)
      /\ \A k \in Nodes \ {n} : Idle(k)
      /\ bt[n] \in Machine /\ s \in Machine /\ t \in Machine /\ bt'[n] \in Machine
  BY NodeMark DEF Parsed, Known, TypeInv, Orderly, Shapes, Inside, CltTypeOK
<1>1. /\ m \in McastPkt /\ m = mcast[n][1] /\ 1 \in 1..Len(mcast[n])
  BY ParsedNext
<1>2. PICK a \in Mark, z \in Mark : Carries(m, a, z) /\ bt[n].rp_seq = a.rp
  BY ParsedNext
<1>3. PICK c \in Machine :
        /\ ParsedAs(n, b, m, c) /\ SameMoment(c, bt'[n]) /\ ParsedTo(n, b, s, m, c, t)
        /\ IF pc[n] = "synched" THEN pc'[n] = "synched" <=> c.pending
                                ELSE pc'[n] # "synched"
  BY ParsedNext
<1>4. /\ b \in Machine /\ b.rp_seq = bt[n].rp_seq /\ b.pending = bt[n].pending
      /\ b.min_duration = bt[n].min_duration /\ b.next_rp = bt[n].next_rp
      /\ pc[n] # "run" => b = bt[n]
  BY <1>0, BeforeIs DEF SameView, Before
<1>5. /\ bt[n].min_duration = 0 /\ s.min_duration = 0 /\ s.now = s.last_rp
      /\ bt[n].now <= bt[n].next_rp + Quantum[n]
  BY <1>0 DEF AllPaced, Paced
<1>6. /\ bt[n].pending <=> pc[n] = "synched"
      /\ m.type # "BACKTRACK" => pc[n] = "synched"
  BY <1>0, <1>1 DEF NodeOrder, Waiting, Shape, BytesFirst
<1>7. /\ bt'[n].min_duration \in {c.min_duration, 0} \/ (pc[n] = "run" /\ m.type \in RxTypes)
      /\ bt'[n].now = c.now /\ bt'[n].next_rp = c.next_rp
  BY <1>3 DEF ParsedAs, SameMoment, SameView
<1> HIDE DEF m, b, s, t
<1>8. /\ c.min_duration = 0 /\ t.min_duration = 0 /\ t.now = t.last_rp
      /\ c.now <= c.next_rp + Quantum[n]
      /\ pc'[n] # "synched" => c.now <= c.next_rp
  <2>0. /\ c.now \in Nat /\ c.next_rp \in Nat /\ Quantum[n] \in Nat
        /\ b.now \in Nat /\ b.last_rp \in Nat /\ s.now \in Nat /\ s.last_rp \in Nat
        /\ m.type \in {"BACKTRACK", "SYNCH_REQ", "RX", "SYNCH_REQ_RX"}
        /\ m.type # "RX" => m.period \in Nat
    BY <1>0, <1>1, <1>4, QuantumIs, MachineFields, McastFields DEF ReleaseTypes, s
  <2>1. CASE m.type = "BACKTRACK"
    <3>1. t = s /\ Moved(IF b.now > b.last_rp + m.period THEN s ELSE b, m, c)
      BY <1>3, <2>1 DEF ParsedTo, ReleaseTypes
    <3>2. PICK r \in {s, b} : Moved(r, m, c) /\ r.now <= r.last_rp + m.period
      <4>1. CASE b.now > b.last_rp + m.period
        <5>1. s.now <= s.last_rp + m.period
          BY <1>5, <2>0, <2>1
        <5> QED BY <3>1, <4>1, <5>1
      <4>2. CASE ~ (b.now > b.last_rp + m.period)
        <5>1. b.now <= b.last_rp + m.period
          BY <2>0, <2>1, <4>2
        <5> QED BY <3>1, <4>2, <5>1
      <4> QED BY <4>1, <4>2
    <3>3. c.min_duration = r.min_duration /\ c.now <= c.next_rp
      BY <3>2 DEF Moved
    <3>4. r.min_duration = 0
      BY <1>4, <1>5
    <3> QED BY <1>5, <2>0, <3>1, <3>3, <3>4
  <2>2. CASE m.type \in ReleaseTypes
    <3>1. m.c_rp_seq = b.rp_seq /\ m.type # "BACKTRACK" /\ m.type # "RX"
      BY <1>2, <1>4, <2>2 DEF Carries, ReleaseTypes
    <3>2. Takes(n, b, m, c) /\ Leaves(b, m, c) /\ t = c
      BY <1>3, <2>2, <3>1 DEF ParsedTo
    <3>3. /\ c.now = b.now /\ c.min_duration = b.min_duration /\ c.last_rp = b.now
          /\ c.next_rp = b.now + m.period
      BY <3>2 DEF Takes, Leaves
    <3>4. c.now <= c.next_rp
      BY <2>0, <3>1, <3>3
    <3> QED BY <1>4, <1>5, <2>0, <3>2, <3>3, <3>4
  <2>3. CASE m.type = "RX"
    <3>1. Takes(n, b, m, c) /\ Stays(b, c) /\ t = s
      BY <1>3, <2>3 DEF ParsedTo, ReleaseTypes
    <3>2. pc[n] = "synched" /\ b = bt[n]
      BY <1>4, <1>6, <2>3
    <3>3. /\ c.now = bt[n].now /\ c.min_duration = 0 /\ c.next_rp = bt[n].next_rp
          /\ c.pending = bt[n].pending
      BY <1>5, <3>1, <3>2 DEF Takes, Stays
    <3>4. pc'[n] = "synched"
      BY <1>3, <1>6, <3>2, <3>3
    <3> QED BY <1>5, <3>1, <3>3, <3>4
  <2> QED BY <2>0, <2>1, <2>2, <2>3 DEF ReleaseTypes
<1>9. bt'[n].min_duration = 0
  <2>1. CASE pc[n] = "run" /\ m.type \in RxTypes
    BY <1>6, <2>1 DEF RxTypes
  <2> QED BY <1>7, <1>8, <2>1
<1>10. Paced(n)'
  BY <1>7, <1>8, <1>9 DEF Paced, t
<1> QED BY <1>0, <1>10, OtherPaced

LEMMA NodePaced ==
  ASSUME Tame, CanStop = {}, NEW T, Known(T), Orderly, Shapes, AllPaced, NEW n \in Nodes,
         CltStep(n) \/ CltUser(n), UNCHANGED srvVars
  PROVE  AllPaced'
<1>0. TypeInv /\ NetType /\ CltTypeOK /\ Member(n) /\ Paced(n)
  BY OwnState DEF AllPaced
<1>1. Works(n) \/ Parsed(n) \/ Comes(n) \/ Close(n)
  BY <1>0, PacketStep, SynchedPacketStep, TxPacketStep
     DEF CltStep, CltUser, Quit, StopAndRun, Tame, Works, Comes
<1>2. CASE Comes(n) \/ Close(n)
  <2>1. \A m \in Nodes \ {n} : Idle(m)
    BY <1>0, <1>2, ConnectStep, ConnectedStep, RefusedStep, JoinStep, LeaveStep
       DEF Comes, Close, Elsewhere
  <2>2. Paced(n)'
    <3>1. CASE Connect(n) \/ Refused(n) \/ Close(n)
      <4>1. pc'[n] \in {"connecting", "refused", "closed"}
        BY <1>0, <3>1, ConnectStep, RefusedStep, LeaveStep DEF Close, Elsewhere
      <4> QED BY <4>1 DEF Paced, Inside, Live
    <3>2. CASE Connected(n)
      <4>1. /\ pc[n] = "connecting" /\ Answered(bt[n], Head(reply[n]), bt'[n])
            /\ backup'[n] = bt'[n] /\ Head(reply[n]) \in ReplyPkt
            /\ Head(reply[n]).type = "ATTRADDR"
        BY <1>0, <3>2, ConnectedStep
      <4>2. bt[n] = PowerOn /\ bt[n].min_duration = 0 /\ bt[n].now = 0
        BY <1>0, <4>1 DEF Member, PowerOn
      <4>3. Head(reply[n]).period \in Nat
        BY <4>1, ReplyFields
      <4>4. /\ bt'[n].now = 0 /\ bt'[n].last_rp = 0 /\ bt'[n].min_duration = 0
            /\ bt'[n].next_rp = 0 + Head(reply[n]).period
        BY <4>1, <4>2 DEF Answered
      <4>5. 0 <= bt'[n].next_rp /\ 0 <= bt'[n].next_rp + Quantum[n]
        BY <4>3, <4>4, QuantumIs
      <4> QED BY <4>1, <4>4, <4>5 DEF Paced
    <3>3. CASE Join(n)
      <4>1. pc[n] = "joining" /\ UNCHANGED <<bt, backup>>
        BY <1>0, <3>3, JoinStep
      <4> QED BY <1>0, <4>1, SamePaced DEF Inside
    <3> QED BY <1>2, <3>1, <3>2, <3>3 DEF Comes
  <2> QED BY <2>1, <2>2, OtherPaced
<1> QED BY <1>0, <1>1, <1>2, WorkPaced, ParsedPaced

InPace == Tame /\ CanStop = {} => AllPaced

LEMMA InitPaced == Init => InPace
<1> SUFFICES ASSUME Init, NEW n \in Nodes PROVE Paced(n)
  BY DEF InPace, AllPaced
<1>1. pc[n] = "off"
  BY DEF Init, CltInit
<1> QED BY <1>1 DEF Paced, Inside, Live

LEMMA NextPaced ==
  Trail /\ Ordered /\ Shaped /\ InPace /\ [Next]_vars => InPace'
<1> SUFFICES ASSUME Tame, CanStop = {}, Trail, Orderly, Shapes, AllPaced, [Next]_vars
             PROVE  AllPaced'
  BY DEF Ordered, Shaped, InPace, Tame
<1>1. PICK T : Known(T)
  BY DEF Trail
<1>2. CASE UNCHANGED cltVars
  <2>1. UNCHANGED <<pc, bt, backup>>
    BY <1>2 DEF cltVars
  <2>2. ASSUME NEW m \in Nodes PROVE Paced(m)'
    BY <2>1, SamePaced DEF AllPaced, Inside, Live
  <2> QED BY <2>2 DEF AllPaced
<1>3. ASSUME NEW n \in Nodes, Node(n) \/ User(n) PROVE AllPaced'
  BY <1>1, <1>3, NodePaced DEF Node, User
<1> QED BY <1>2, <1>3 DEF Next, Finished, Server, vars

LEMMA NearWhen == Trail /\ Orderly /\ AllPaced => NearRendezVous
<1> SUFFICES ASSUME Trail, Orderly, AllPaced, NEW n \in Nodes, Live(n)
             PROVE  /\ bt[n].now < bt[n].next_rp + 2 * Quantum[n]
                    /\ bt[n].pending => bt[n].now >= bt[n].next_rp
  BY DEF NearRendezVous
<1>1. Inside(n) /\ NodeOrder(n) /\ Paced(n)
  BY DEF Inside, Orderly, AllPaced
<1>2. bt[n].now \in Nat /\ bt[n].next_rp \in Nat
  BY NodeMark, MachineFields DEF Trail
<1>3. bt[n].now <= bt[n].next_rp + Quantum[n]
  BY <1>1 DEF Paced
<1> QED BY <1>1, <1>2, <1>3, QuantumIs DEF NodeOrder, Waiting

\* Without stops in gdb, which save the state anywhere, a node never goes more
\* than one instruction beyond its rendez-vous, whatever it receives and however
\* often it goes back, and it waits only when it has reached it.
THEOREM NodesAreNear == Spec => [](Tame /\ CanStop = {} => NearRendezVous)
<1>1. Trail /\ Ordered /\ InPace => (Tame /\ CanStop = {} => NearRendezVous)
  BY NearWhen DEF Ordered, InPace
<1> QED BY <1>1, InitPaced, NextPaced, ShapeAlways, PTL DEF Spec

-----------------------------------------------------------------------------
(* The clock of a node and the global time of the server. *)

\* The server has no byte to deliver in the past.
Past == \A i \in 1..Len(delivered) : delivered[i].end <= global

LEMMA ServerPast ==
  ASSUME TypeInv, SrvNext
  PROVE  /\ global' \in Nat /\ global <= global'
         /\ \/ delivered' = delivered
            \/ \E e \in Transmission : delivered' = Append(delivered, e) /\ e.end = global
<1>0. global \in Nat /\ rp \in Nat /\ global <= rp /\ events \subseteq Transmission
  BY DEF TypeInv, SrvTypeOK, Dates
<1>1. ASSUME NEW c, NEW k, BarrierCheck(c, k) PROVE global' \in Nat /\ global <= global'
  BY <1>0, <1>1 DEF BarrierCheck
<1>2. CASE RecvDisconnect
  <2>1. delivered' = delivered
    BY <1>2 DEF RecvDisconnect
  <2>2. UNCHANGED global \/ \E c, k : BarrierCheck(c, k)
    BY <1>2 DEF RecvDisconnect
  <2> QED BY <1>0, <1>1, <2>1, <2>2
<1>3. CASE RecvSynched
  <2>1. delivered' = delivered
    BY <1>3 DEF RecvSynched
  <2>2. UNCHANGED global \/ \E c, k : BarrierCheck(c, k)
    BY <1>3 DEF RecvSynched
  <2> QED BY <1>0, <1>1, <2>1, <2>2
<1>4. CASE RecvConnect \/ RecvTxDropped \/ RecvTxAccepted \/ RecvTxBacktrack
  <2>1. UNCHANGED <<global, delivered>>
    BY <1>4 DEF RecvConnect, RecvTxDropped, RecvTxAccepted, RecvTxBacktrack, schedVars, srvVars
  <2> QED BY <1>0, <2>1
<1>5. CASE CoreIdle \/ CoreWait
  <2>1. UNCHANGED <<global, delivered>>
    BY <1>5 DEF CoreIdle, CoreWait, schedVars
  <2> QED BY <1>0, <2>1
<1>6. CASE CoreTx
  <2>1. global' = global
    BY <1>6 DEF CoreTx
  <2>2. PICK e \in events :
          IF e.end = global THEN Handed(e) ELSE UNCHANGED delivered
    BY <1>6 DEF CoreTx
  <2>3. CASE e.end = global
    BY <1>0, <2>1, <2>2, <2>3 DEF Handed
  <2>4. CASE e.end # global
    BY <1>0, <2>1, <2>2, <2>4
  <2> QED BY <2>3, <2>4
<1> QED BY <1>2, <1>3, <1>4, <1>5, <1>6 DEF SrvNext, SrvListen, SrvCore

LEMMA NextPast == TypeInv /\ Past /\ [Next]_vars => Past'
<1> SUFFICES ASSUME TypeInv, Past, [Next]_vars PROVE Past'
  OBVIOUS
<1>1. CASE UNCHANGED srvVars
  BY <1>1 DEF Past, srvVars
<1>2. CASE SrvNext
  <2>1. /\ global' \in Nat /\ global <= global' /\ global \in Nat
        /\ delivered \in Seq(Transmission)
    BY <1>2, ServerPast DEF TypeInv, SrvTypeOK
  <2>2. \A i \in 1..Len(delivered) : delivered[i] \in Transmission /\ delivered[i].end \in Nat
    <3>1. \A i \in 1..Len(delivered) : delivered[i] \in Transmission
      BY <2>1
    <3> QED BY <3>1 DEF Transmission
  <2>3. CASE delivered' = delivered
    BY <2>1, <2>2, <2>3 DEF Past
  <2>4. CASE \E e \in Transmission : delivered' = Append(delivered, e) /\ e.end = global
    <3>1. PICK e \in Transmission : delivered' = Append(delivered, e) /\ e.end = global
      BY <2>4
    <3>2. ASSUME NEW i \in 1..Len(delivered') PROVE delivered'[i].end <= global'
      <4>1. \/ i \in 1..Len(delivered) /\ delivered'[i] = delivered[i]
            \/ delivered'[i] = e
        BY <2>1, <3>1
      <4>2. CASE i \in 1..Len(delivered) /\ delivered'[i] = delivered[i]
        BY <2>1, <2>2, <4>2 DEF Past
      <4>3. CASE delivered'[i] = e
        BY <2>1, <3>1, <4>3
      <4> QED BY <4>1, <4>2, <4>3
    <3> QED BY <3>2 DEF Past
  <2> QED BY <1>2, <2>3, <2>4, ServerPast
<1>3. UNCHANGED srvVars \/ SrvNext
  BY DEF Next, Server, Node, User, Finished, vars
<1> QED BY <1>1, <1>2, <1>3

\* Bytes of the last rendez-vous may still be handed to n: the server is doing
\* it, or the packet that releases n is on its way.
Releasing(n) ==
  \/ spc \in {"core", "desync"}
  \/ \E i \in 1..Len(mcast[n]) : mcast[n][i].type \in ReleaseTypes

\* The clock of n, counted from its connection, is not behind the server, and
\* neither is its last rendez-vous unless n is about to leave the next one.
Clock(n) ==
  /\ pc[n] = "connecting" /\ n \in active => reply[n][1].cnx_time = global
  /\ Inside(n) =>
       /\ \A i \in 1..Len(mcast[n]) : mcast[n][i].type = "RX" => Releasing(n)
       /\ bt[n].now + cnx_time[n] >= global
       /\ ~ Releasing(n) => bt[n].last_rp + cnx_time[n] >= global

Clocks == \A n \in Nodes : Clock(n)

LEMMA SameClock ==
  ASSUME NEW m \in Nodes, Clock(m), Idle(m), mcast'[m] = mcast[m],
         reply'[m] = reply[m], UNCHANGED <<spc, global, active>>
  PROVE  Clock(m)'
<1>1. /\ pc'[m] = pc[m] /\ bt'[m] = bt[m] /\ cnx_time'[m] = cnx_time[m]
      /\ Inside(m)' <=> Inside(m)
  BY DEF Idle, Inside, Live
<1>2. Releasing(m)' <=> Releasing(m)
  BY DEF Releasing
<1> QED BY <1>1, <1>2 DEF Clock

LEMMA OtherClocks ==
  ASSUME TypeInv, Clocks, NEW n \in Nodes, UNCHANGED srvVars, Clock(n)',
         \A k \in Nodes \ {n} : Idle(k) /\ mcast'[k] = mcast[k] /\ reply'[k] = reply[k]
  PROVE  Clocks'
<1>1. UNCHANGED <<spc, global, active>>
  BY DEF srvVars, schedVars
<1>2. ASSUME NEW k \in Nodes \ {n} PROVE Clock(k)'
  BY <1>1, SameClock DEF Clocks
<1> QED BY <1>2 DEF Clocks

LEMMA ReleasingParsed ==
  ASSUME NEW n \in Nodes, BytesFirst(n), BytesOnly(n), mcast[n] \in Seq(McastPkt),
         mcast[n] # <<>>, mcast'[n] = Tail(mcast[n]), spc' = spc
  PROVE  LET m == Head(mcast[n])
         IN  /\ m.type = "BACKTRACK" => ~ Releasing(n) /\ ~ Releasing(n)'
             /\ m.type \in ReleaseTypes => ~ Releasing(n)'
             /\ m.type = "RX" => (Releasing(n) => Releasing(n)')
<1> DEFINE q == mcast[n]
           m == Head(q)
<1>1. /\ m = q[1] /\ 1 \in 1..Len(q) /\ Len(q) \in Nat /\ Len(Tail(q)) = Len(q) - 1
      /\ \A i \in 1..Len(Tail(q)) : i + 1 \in 1..Len(q) /\ Tail(q)[i] = q[i + 1]
      /\ \A i \in 1..Len(q) : i # 1 => i - 1 \in 1..Len(Tail(q)) /\ Tail(q)[i - 1] = q[i]
  <2> HIDE DEF m
  <2>1. q \in Seq(McastPkt) /\ q # <<>>
    OBVIOUS
  <2> HIDE DEF q
  <2>2. /\ Head(q) = q[1] /\ 1 \in 1..Len(q) /\ Len(q) \in Nat /\ Len(Tail(q)) = Len(q) - 1
        /\ \A i \in 1..Len(Tail(q)) : i + 1 \in 1..Len(q) /\ Tail(q)[i] = q[i + 1]
    BY <2>1
  <2>3. ASSUME NEW i \in 1..Len(q), i # 1
        PROVE  i - 1 \in 1..Len(Tail(q)) /\ Tail(q)[i - 1] = q[i]
    <3>1. i - 1 \in 1..Len(q) - 1 /\ (i - 1) + 1 = i
      BY <2>2, <2>3
    <3> QED BY <2>2, <3>1
  <2> QED BY <2>2, <2>3 DEF m
<1>2. ASSUME m.type # "RX", NEW i \in 1..Len(q), i # 1 PROVE q[i].type = "BACKTRACK"
  <2>1. SUFFICES ASSUME q[i].type # "BACKTRACK" PROVE FALSE
    OBVIOUS
  <2>2. \A j \in 1..i - 1 : q[j].type = "RX"
    BY <2>1 DEF BytesFirst
  <2>3. 1 \in 1..i - 1
    BY <1>1, <1>2
  <2> QED BY <1>1, <1>2, <2>2, <2>3
<1>3. m.type # "RX" => spc \notin {"core", "desync"}
  BY <1>1 DEF BytesOnly
<1>4. m.type # "RX" => ~ Releasing(n)'
  BY <1>1, <1>2, <1>3 DEF Releasing, ReleaseTypes
<1>5. m.type = "BACKTRACK" => ~ Releasing(n)
  BY <1>1, <1>2, <1>3 DEF Releasing, ReleaseTypes
<1>6. m.type = "RX" /\ Releasing(n) => Releasing(n)'
  BY <1>1 DEF Releasing, ReleaseTypes
<1> QED BY <1>4, <1>5, <1>6 DEF ReleaseTypes

\* A byte or a release finds its node blocked, so that parsing it takes no time.
LEMMA ParsedClock ==
  ASSUME NEW T, Known(T), Orderly, Shapes, Clocks, NEW n \in Nodes, Parsed(n)
  PROVE  Clocks'
<1> DEFINE m == Head(mcast[n])
           b == Before(n)
           s == backup[n]
           t == backup'[n]
<1>0. /\ TypeInv /\ CltTypeOK /\ NetType /\ Live(n) /\ Inside(n) /\ Shape(n) /\ Clock(n)
      /\ Knows(T, n) /\ \A k \in Nodes \ {n} : Idle(k)
      /\ mcast[n] # <<>> /\ mcast' = [mcast EXCEPT ![n] = Tail(@)]
      /\ pc'[n] \in {"run", "radio", "tx", "synched"}
      /\ UNCHANGED srvVars /\ UNCHANGED <<reply, cnx_time>>
      /\ bt[n] \in Machine /\ s \in Machine /\ cnx_time[n] \in Nat /\ global \in Nat
  BY NodeMark DEF Parsed, Known, TypeInv, SrvTypeOK, Shapes, Clocks, Inside, CltTypeOK,
                  Follows, NodeTrail
<1>1. /\ mcast'[n] = Tail(mcast[n]) /\ mcast[n] \in Seq(McastPkt)
      /\ \A k \in Nodes \ {n} : mcast'[k] = mcast[k]
      /\ UNCHANGED <<spc, global>>
  BY <1>0 DEF NetType, srvVars, schedVars
<1>2. m \in McastPkt /\ m = mcast[n][1] /\ 1 \in 1..Len(mcast[n])
  BY ParsedNext
<1>3. PICK a \in Mark, z \in Mark : Carries(m, a, z) /\ bt[n].rp_seq = a.rp
  BY ParsedNext
<1>4. PICK c \in Machine : SameMoment(c, bt'[n]) /\ ParsedTo(n, b, s, m, c, t)
  BY ParsedNext
<1>5. /\ b \in Machine /\ b.rp_seq = bt[n].rp_seq /\ b.last_rp = bt[n].last_rp
      /\ bt[n].now <= b.now /\ s.last_rp = bt[n].last_rp
  BY <1>0, BeforeIs DEF SameView, Knows, At
<1>6. BytesFirst(n) /\ BytesOnly(n)
  BY <1>0 DEF Shape
<1>7. /\ m.type = "BACKTRACK" => ~ Releasing(n) /\ ~ Releasing(n)'
      /\ m.type \in ReleaseTypes => ~ Releasing(n)'
      /\ m.type = "RX" => (Releasing(n) => Releasing(n)')
  BY <1>0, <1>1, <1>6, ReleasingParsed
<1>8. /\ m.type = "RX" => Releasing(n)
      /\ bt[n].now + cnx_time[n] >= global
      /\ ~ Releasing(n) => bt[n].last_rp + cnx_time[n] >= global
  BY <1>0, <1>2 DEF Clock
<1>9. /\ bt'[n].now = c.now /\ bt'[n].last_rp = c.last_rp
      /\ s.last_rp <= s.now
      /\ b.now \in Nat /\ s.now \in Nat /\ bt[n].now \in Nat /\ bt[n].last_rp \in Nat
  BY <1>0, <1>4, <1>5, MachineFields, NodeDates DEF SameMoment, SameView
<1>10. \A i \in 1..Len(mcast'[n]) : mcast'[n][i].type = "RX" => m.type = "RX"
  <2>1. SUFFICES ASSUME NEW i \in 1..Len(mcast'[n]), mcast'[n][i].type = "RX"
                 PROVE  m.type = "RX"
    OBVIOUS
  <2>2. i + 1 \in 1..Len(mcast[n]) /\ mcast'[n][i] = mcast[n][i + 1] /\ 1 \in 1..(i + 1) - 1
    <3> DEFINE q == mcast[n]
    <3>1. q \in Seq(McastPkt) /\ q # <<>> /\ i \in 1..Len(Tail(q))
      BY <1>0, <1>1, <2>1
    <3> HIDE DEF q
    <3>2. i + 1 \in 1..Len(q) /\ Tail(q)[i] = q[i + 1] /\ 1 \in 1..(i + 1) - 1
      BY <3>1
    <3> QED BY <1>1, <3>2 DEF q
  <2>3. mcast[n][i + 1].type # "BACKTRACK"
    BY <2>1, <2>2
  <2>4. \A j \in 1..(i + 1) - 1 : mcast[n][j].type = "RX"
    BY <1>6, <2>2, <2>3 DEF BytesFirst
  <2> QED BY <1>2, <2>2, <2>4
<1> HIDE DEF m, b, s, t
<1>11. /\ c.now + cnx_time[n] >= global
       /\ ~ Releasing(n)' => c.last_rp + cnx_time[n] >= global
  <2>1. CASE m.type = "BACKTRACK"
    <3>1. PICK r \in {s, b} : Moved(r, m, c)
      BY <1>4, <2>1 DEF ParsedTo, ReleaseTypes
    <3>2. c.last_rp = bt[n].last_rp /\ c.now = r.now
      BY <1>5, <3>1 DEF Moved
    <3>3. bt[n].last_rp + cnx_time[n] >= global
      BY <1>7, <1>8, <2>1
    <3>4. bt[n].last_rp <= s.now /\ bt[n].now <= b.now
      BY <1>5, <1>9
    <3>5. s.now + cnx_time[n] >= global /\ b.now + cnx_time[n] >= global
      BY <1>0, <1>8, <1>9, <3>3, <3>4
    <3> QED BY <3>1, <3>2, <3>3, <3>5
  <2>2. CASE m.type \in ReleaseTypes
    <3>1. m.c_rp_seq = b.rp_seq /\ m.type # "BACKTRACK" /\ m.type # "RX"
      BY <1>3, <1>5, <2>2 DEF Carries, ReleaseTypes
    <3>2. Takes(n, b, m, c) /\ Leaves(b, m, c)
      BY <1>4, <2>2, <3>1 DEF ParsedTo
    <3>3. c.now = b.now /\ c.last_rp = b.now
      BY <3>2 DEF Takes, Leaves
    <3> QED BY <1>0, <1>5, <1>8, <1>9, <3>3
  <2>3. CASE m.type = "RX"
    <3>1. Takes(n, b, m, c) /\ Stays(b, c)
      BY <1>4, <2>3 DEF ParsedTo, ReleaseTypes
    <3>2. c.now = b.now /\ Releasing(n)'
      BY <1>7, <1>8, <2>3, <3>1 DEF Takes
    <3> QED BY <1>0, <1>5, <1>8, <1>9, <3>2
  <2>4. m.type \in {"BACKTRACK", "SYNCH_REQ", "RX", "SYNCH_REQ_RX"}
    BY <1>2, McastFields
  <2> QED BY <2>1, <2>2, <2>3, <2>4 DEF ReleaseTypes
<1>12. Clock(n)'
  <2>1. pc'[n] # "connecting"
    BY <1>0
  <2>2. \A i \in 1..Len(mcast'[n]) : mcast'[n][i].type = "RX" => Releasing(n)'
    BY <1>7, <1>8, <1>10
  <2>3. bt'[n].now + cnx_time'[n] >= global'
    BY <1>0, <1>1, <1>9, <1>11
  <2>4. ~ Releasing(n)' => bt'[n].last_rp + cnx_time'[n] >= global'
    BY <1>0, <1>1, <1>9, <1>11
  <2> QED BY <2>1, <2>2, <2>3, <2>4 DEF Clock
<1>13. \A k \in Nodes \ {n} : Idle(k) /\ mcast'[k] = mcast[k] /\ reply'[k] = reply[k]
  BY <1>0, <1>1
<1> QED BY <1>0, <1>12, <1>13, OtherClocks

LEMMA NodeClock ==
  ASSUME Tame, NEW T, Known(T), Orderly, Shapes, Clocks, NEW n \in Nodes,
         CltStep(n) \/ CltUser(n), UNCHANGED srvVars
  PROVE  Clocks'
<1>0. /\ TypeInv /\ NetType /\ CltTypeOK /\ Member(n) /\ Clock(n) /\ NodeOrder(n)
      /\ UNCHANGED <<spc, global, active>> /\ global \in Nat /\ cnx_time[n] \in Nat
      /\ bt[n] \in Machine
  BY OwnState DEF Clocks, Orderly, srvVars, schedVars, TypeInv, SrvTypeOK, CltTypeOK
<1>1. Local(n) \/ Parsed(n) \/ Comes(n) \/ Close(n) \/ StopAndRun(n)
  BY <1>0, NodeStep DEF Goes, Quit, Tame
<1>2. CASE Local(n)
  <2>1. /\ UNCHANGED <<mcast, reply, cnx_time>> /\ SameView(bt[n], bt'[n])
        /\ bt[n].now <= bt'[n].now /\ Live(n) /\ bt'[n] \in Machine
        /\ pc'[n] \in {"run", "radio", "tx", "synched"}
        /\ \A m \in Nodes \ {n} : Idle(m)
    BY <1>2 DEF Local, CltTypeOK
  <2>2. Releasing(n)' <=> Releasing(n)
    BY <1>0, <2>1 DEF Releasing
  <2>3. /\ bt[n].now \in Nat /\ bt'[n].now \in Nat
    BY <1>0, <2>1, MachineFields
  <2>4. /\ \A i \in 1..Len(mcast[n]) : mcast[n][i].type = "RX" => Releasing(n)
        /\ bt[n].now + cnx_time[n] >= global
        /\ ~ Releasing(n) => bt[n].last_rp + cnx_time[n] >= global
    BY <1>0, <2>1 DEF Clock, Inside
  <2>5. bt'[n].now + cnx_time[n] >= global
    BY <1>0, <2>1, <2>3, <2>4
  <2>6. bt'[n].last_rp = bt[n].last_rp
    BY <2>1 DEF SameView
  <2>7. Clock(n)'
    BY <1>0, <2>1, <2>2, <2>4, <2>5, <2>6 DEF Clock
  <2> QED BY <1>0, <2>1, <2>7, OtherClocks
<1>3. CASE Connect(n)
  <2>1. /\ pc[n] = "off" /\ pc'[n] = "connecting" /\ UNCHANGED <<mcast, reply>>
        /\ \A m \in Nodes \ {n} : Idle(m)
    BY <1>0, <1>3, ConnectStep DEF Elsewhere
  <2>2. n \notin active
    BY <1>0, <2>1 DEF NodeOrder, Starting
  <2>3. Clock(n)'
    BY <1>0, <2>1, <2>2 DEF Clock, Inside, Live
  <2> QED BY <1>0, <2>1, <2>3, OtherClocks
<1>4. CASE Connected(n)
  <2>1. /\ pc[n] = "connecting" /\ pc'[n] = "joining" /\ mcast' = mcast
        /\ reply[n] # <<>> /\ Head(reply[n]).type = "ATTRADDR"
        /\ reply' = [reply EXCEPT ![n] = Tail(@)]
        /\ Answered(bt[n], Head(reply[n]), bt'[n]) /\ cnx_time'[n] = Head(reply[n]).cnx_time
        /\ \A m \in Nodes \ {n} : Idle(m)
    BY <1>0, <1>4, ConnectedStep DEF Elsewhere
  <2>2. n \in active /\ Head(reply[n]) = reply[n][1]
    BY <1>0, <2>1, AnsweredOnce DEF NetType
  <2>3. cnx_time'[n] = global
    BY <1>0, <2>1, <2>2 DEF Clock
  <2>4. bt'[n].now = 0 /\ bt'[n].last_rp = 0 /\ mcast'[n] = <<>>
    BY <1>0, <2>1 DEF Member, PowerOn, Answered, Live
  <2>5. Len(mcast'[n]) = 0
    BY <2>4
  <2>6. Clock(n)'
    BY <1>0, <2>1, <2>3, <2>4, <2>5 DEF Clock
  <2>7. \A m \in Nodes \ {n} : mcast'[m] = mcast[m] /\ reply'[m] = reply[m]
    BY <1>0, <2>1 DEF NetType
  <2> QED BY <1>0, <2>1, <2>6, <2>7, OtherClocks
<1>5. CASE Refused(n)
  <2>1. /\ pc'[n] = "refused" /\ mcast' = mcast /\ reply' = [reply EXCEPT ![n] = Tail(@)]
        /\ \A m \in Nodes \ {n} : Idle(m)
    BY <1>0, <1>5, RefusedStep DEF Elsewhere
  <2>2. Clock(n)'
    BY <2>1 DEF Clock, Inside, Live
  <2>3. \A m \in Nodes \ {n} : mcast'[m] = mcast[m] /\ reply'[m] = reply[m]
    BY <1>0, <2>1 DEF NetType
  <2> QED BY <1>0, <2>1, <2>2, <2>3, OtherClocks
<1>6. CASE Join(n)
  <2>1. /\ pc[n] = "joining" /\ pc'[n] = "run" /\ UNCHANGED <<bt, cnx_time, mcast, reply>>
        /\ \A m \in Nodes \ {n} : Idle(m)
    BY <1>0, <1>6, JoinStep DEF Elsewhere
  <2>2. Releasing(n)' <=> Releasing(n)
    BY <1>0, <2>1 DEF Releasing
  <2>3. Clock(n)'
    BY <1>0, <2>1, <2>2 DEF Clock, Inside
  <2> QED BY <1>0, <2>1, <2>3, OtherClocks
<1>7. CASE Close(n)
  <2>1. /\ pc'[n] = "closed" /\ reply' = reply /\ mcast' = [mcast EXCEPT ![n] = <<>>]
        /\ \A m \in Nodes \ {n} : Idle(m)
    BY <1>0, <1>7, LeaveStep DEF Elsewhere, Close
  <2>2. Clock(n)'
    BY <2>1 DEF Clock, Inside, Live
  <2>3. \A m \in Nodes \ {n} : mcast'[m] = mcast[m]
    BY <1>0, <2>1 DEF NetType
  <2> QED BY <1>0, <2>1, <2>2, <2>3, OtherClocks
<1>8. CASE StopAndRun(n)
  <2>1. /\ UNCHANGED <<pc, bt, cnx_time, mcast, reply>> /\ \A m \in Nodes \ {n} : Idle(m)
    BY <1>0, <1>8, StopStep DEF Elsewhere, netVars
  <2>2. Releasing(n)' <=> Releasing(n)
    BY <1>0, <2>1 DEF Releasing
  <2>3. Clock(n)'
    BY <1>0, <2>1, <2>2 DEF Clock, Inside, Live
  <2> QED BY <1>0, <2>1, <2>3, OtherClocks
<1> QED BY <1>1, <1>2, <1>3, <1>4, <1>5, <1>6, <1>7, <1>8, ParsedClock DEF Comes

\* The barrier opens: the nodes inside have parsed everything, agree with the
\* server on the rendez-vous, and have reached it.
LEMMA OpensClock ==
  ASSUME NEW T, Known(T), Orderly, Shapes, Clocks, NEW type, Reads(type), spc' = "core",
         TypeInv', Members', Orderly'
  PROVE  Clocks'
<1>0. /\ spc = "listen" /\ UNCHANGED <<rp, rp_seq, mcast, pc, bt, cnx_time>>
      /\ global \in Nat /\ rp \in Nat /\ global' = rp /\ Blocks' = active'
  BY DEF Reads, cltVars, Known, TypeInv, SrvTypeOK, Dates, Orderly, Barrier
<1> SUFFICES ASSUME NEW m \in Nodes PROVE Clock(m)'
  BY DEF Clocks
<1>1. m \in active' => pc[m] = "synched" /\ bt[m].rp_seq = rp_seq
  BY <1>0 DEF Blocks, Blocked
<1>2. ~ (pc'[m] = "connecting" /\ m \in active')
  BY <1>0, <1>1
<1>3. SUFFICES ASSUME Inside(m)' PROVE bt[m].now + cnx_time[m] >= rp /\ mcast[m] = <<>>
  <2>1. CASE mcast[m] = <<>> /\ bt[m].now + cnx_time[m] >= rp
    <3>1. Len(mcast'[m]) = 0 /\ Releasing(m)'
      BY <1>0, <2>1 DEF Releasing
    <3> QED BY <1>0, <1>2, <2>1, <3>1 DEF Clock
  <2>2. CASE ~ Inside(m)'
    BY <1>2, <2>2 DEF Clock
  <2> QED BY <1>3, <2>1, <2>2
<1>4. pc[m] = "synched" /\ bt[m].rp_seq = rp_seq /\ Live(m) /\ Inside(m)
  <2>1. m \in active'
    BY <1>3 DEF Members, Member
  <2> QED BY <1>1, <2>1 DEF Live, Inside
<1>5. rp_seq \in Nat /\ bt[m] \in Machine /\ cnx_time[m] \in Nat
  BY NodeMark DEF Known, TypeInv, SrvTypeOK, CltTypeOK
<1>6. mcast[m] = <<>>
  BY <1>0, <1>4, <1>5, MachineFields DEF Shapes, Shape, IsBehind
<1>7. bt[m].next_rp - bt[m].last_rp = rp - global
  <2>1. ViewAgrees /\ UpToDate(m)
    BY <1>0, <1>4, <1>6, AgreesWhen DEF Trail, UpToDate
  <2> QED BY <2>1 DEF ViewAgrees
<1>8. bt[m].now >= bt[m].next_rp
  BY <1>4 DEF Orderly, NodeOrder, Waiting
<1>9. bt[m].last_rp + cnx_time[m] >= global
  <2>1. ~ Releasing(m)
    <3>1. Len(mcast[m]) = 0
      BY <1>6
    <3> QED BY <1>0, <3>1 DEF Releasing
  <2> QED BY <1>4, <2>1 DEF Clocks, Clock
<1>10. bt[m].now \in Nat /\ bt[m].last_rp \in Nat /\ bt[m].next_rp \in Nat
  BY <1>5, MachineFields
<1> QED BY <1>0, <1>5, <1>6, <1>7, <1>8, <1>9, <1>10

\* The server reads a packet and its time does not change.
LEMMA ReadsClock ==
  ASSUME Clocks, NEW type, Reads(type), spc' \in {"listen", "stopped"}, UNCHANGED global,
         \A m \in Nodes : pc[m] = "connecting" /\ m \in active' =>
           \/ m \in active /\ reply'[m][1] = reply[m][1]
           \/ reply'[m][1].cnx_time = global
  PROVE  Clocks'
<1>0. spc = "listen" /\ UNCHANGED <<mcast, pc, bt, cnx_time>>
  BY DEF Reads, cltVars
<1> SUFFICES ASSUME NEW m \in Nodes PROVE Clock(m)'
  BY DEF Clocks
<1>1. Releasing(m)' <=> Releasing(m)
  BY <1>0 DEF Releasing
<1>2. Inside(m)' <=> Inside(m)
  BY <1>0 DEF Inside, Live
<1>3. Clock(m)
  BY DEF Clocks
<1> QED BY <1>0, <1>1, <1>2, <1>3 DEF Clock

\* The answer to a CONNECT is dated.
LEMMA ConnectClock ==
  ASSUME NEW T, Known(T), Orderly, Clocks, RecvConnect, UNCHANGED cltVars, Orderly'
  PROVE  Clocks'
<1> DEFINE n == Head(toServer).node
           no == Append(reply[n], NoAttrAddrPkt)
           yes == Append(reply[n], AttrAddrPkt(pkt_seq, rp - global, rp_seq, global))
<1>0. TypeInv /\ NetType
  BY DEF Known, TypeInv
<1>1. Reads("CONNECT") /\ UNCHANGED <<spc, global>> /\ spc = "listen" /\ pc' = pc
  BY <1>0, ConnectTypes DEF Reads, cltVars
<1>2. /\ n \in Nodes /\ \A m \in Nodes \ {n} : reply'[m] = reply[m]
      /\ \/ reply'[n] = yes
         \/ reply'[n] = no /\ active' = active
      /\ \A m \in Nodes \ {n} : m \in active' => m \in active
  <2>1. Recv("CONNECT")
    BY DEF RecvConnect
  <2>2. n \in Nodes
    BY <1>0, <2>1, Received, ClientFields
  <2> QED BY <1>0, <2>2 DEF RecvConnect, NetType
<1>3. reply[n] \in Seq(ReplyPkt)
  BY <1>0, <1>2 DEF NetType
<1>4. ASSUME pc[n] = "connecting", n \in active'
      PROVE  reply'[n][1].cnx_time = global
  <2>1. /\ n \notin active /\ reply[n] = <<>>
    <3>1. /\ Head(toServer).type = "CONNECT" /\ toServer # <<>> /\ toServer \in Seq(ClientPkt)
      BY <1>0, <1>1 DEF Reads, NetType
    <3>2. Head(toServer) = toServer[1] /\ 1 \in 1..Len(toServer)
      BY <3>1, HeadIs
    <3>3. Calls(n)
      BY <1>2 DEF Orderly, NodeOrder
    <3> QED BY <3>1, <3>2, <3>3 DEF Calls
  <2>2. reply'[n] = yes
    BY <1>2, <1>4, <2>1
  <2>3. yes = <<AttrAddrPkt(pkt_seq, rp - global, rp_seq, global)>>
    BY <2>1
  <2> HIDE DEF yes, n
  <2> QED BY <2>2, <2>3 DEF AttrAddrPkt
<1> HIDE DEF n, no, yes
<1>5. ASSUME NEW m \in Nodes, pc[m] = "connecting", m \in active'
      PROVE  \/ m \in active /\ reply'[m][1] = reply[m][1]
             \/ reply'[m][1].cnx_time = global
  BY <1>2, <1>4, <1>5
<1> QED BY <1>1, <1>5, ReadsClock

\* The server sends a packet: only a release, behind bytes, is about clocks.
LEMMA SendsClock ==
  ASSUME Tame, TypeInv, Members, Orderly, Clocks, NEW p, Sends(p), UNCHANGED global,
         \/ spc = "listen" /\ spc' = "listen" /\ p.type = "BACKTRACK"
         \/ spc = "core" /\ p.type \in ReleaseTypes
         \/ spc = "core" /\ spc' = "core" /\ p.type = "RX"
  PROVE  Clocks'
<1>0. UNCHANGED <<active, reply, pc, bt, cnx_time>>
  BY DEF Sends, cltVars
<1> SUFFICES ASSUME NEW m \in Nodes PROVE Clock(m)'
  BY DEF Clocks
<1>1. Clock(m) /\ (Inside(m)' <=> Inside(m)) /\ (Live(m)' <=> Live(m))
  BY <1>0 DEF Clocks, Inside, Live
<1>2. CASE Live(m)
  <2>1. mcast[m] \in Seq(McastPkt) /\ p \in McastPkt /\ mcast'[m] = Append(mcast[m], p)
    BY <1>1, <1>2, SendsTo
  <2> DEFINE q == mcast[m]
  <2>2. /\ Len(mcast'[m]) = Len(q) + 1 /\ Len(q) \in Nat /\ mcast'[m][Len(q) + 1] = p
        /\ \A i \in 1..Len(q) : mcast'[m][i] = q[i]
        /\ \A i \in 1..Len(mcast'[m]) : i \in 1..Len(q) \/ i = Len(q) + 1
    BY <2>1, AppendedTo
  <2>3. \/ Releasing(m)'
        \/ p.type = "BACKTRACK" /\ (Releasing(m)' <=> Releasing(m))
    <3>1. CASE spc = "listen" /\ spc' = "listen" /\ p.type = "BACKTRACK"
      BY <2>2, <3>1 DEF Releasing, ReleaseTypes
    <3>2. CASE spc = "core" /\ p.type \in ReleaseTypes
      BY <2>2, <3>2 DEF Releasing
    <3>3. CASE spc = "core" /\ spc' = "core" /\ p.type = "RX"
      BY <3>3 DEF Releasing
    <3> QED BY <3>1, <3>2, <3>3
  <2>4. Inside(m)
    BY <1>2 DEF Inside
  <2>5. CASE Releasing(m)'
    BY <1>0, <1>1, <2>4, <2>5 DEF Clock
  <2>6. CASE p.type = "BACKTRACK" /\ (Releasing(m)' <=> Releasing(m))
    <3>1. \A i \in 1..Len(mcast'[m]) : mcast'[m][i].type = "RX" => Releasing(m)'
      BY <1>1, <2>2, <2>4, <2>6 DEF Clock
    <3> QED BY <1>0, <1>1, <2>4, <2>6, <3>1 DEF Clock
  <2> QED BY <2>3, <2>5, <2>6
<1>3. CASE ~ Live(m)
  <2>1. mcast[m] = <<>> /\ m \notin joined
    BY <1>3 DEF Members, Member
  <2>2. mcast'[m] = <<>>
    BY <2>1 DEF Sends, SentTo
  <2>3. Len(mcast[m]) = 0 /\ Len(mcast'[m]) = 0
    BY <2>1, <2>2
  <2>4. CASE spc = "core"
    <3>1. ~ Inside(m)
      BY <1>3, <2>4, CoreStarted DEF Started, Inside
    <3> QED BY <1>0, <1>1, <3>1 DEF Clock
  <2>5. CASE spc = "listen" /\ spc' = "listen"
    <3>1. Releasing(m)' <=> Releasing(m)
      BY <2>3, <2>5 DEF Releasing
    <3> QED BY <1>0, <1>1, <2>3, <3>1 DEF Clock
  <2> QED BY <2>4, <2>5
<1> QED BY <1>2, <1>3

LEMMA ServerClock ==
  ASSUME Tame, NEW T, Known(T), Orderly, Shapes, Clocks, SrvNext, UNCHANGED cltVars,
         TypeInv', Members', Orderly'
  PROVE  Clocks'
<1>0. TypeInv /\ Members
  BY DEF Known
<1>1. CASE RecvDisconnect
  <2>1. Reads("DISCONNECT") /\ reply' = reply
    BY <1>0, <1>1, DisconnectTypes
  <2>2. active' \subseteq active
    BY <1>1 DEF RecvDisconnect
  <2>3. spc' = "core" \/ (spc' \in {"listen", "stopped"} /\ UNCHANGED global)
    BY <1>1, <2>1 DEF RecvDisconnect, BarrierCheck, Reads
  <2>4. CASE spc' = "core"
    BY <2>1, <2>4, OpensClock
  <2>5. CASE spc' \in {"listen", "stopped"} /\ UNCHANGED global
    BY <2>1, <2>2, <2>5, ReadsClock
  <2> QED BY <2>3, <2>4, <2>5
<1>2. CASE RecvSynched
  <2>1. Reads("SYNCHED") /\ UNCHANGED <<reply, active>>
    BY <1>0, <1>2, SynchedTypes
  <2>2. spc' = "core" \/ (spc' = "listen" /\ UNCHANGED global)
    BY <1>2, <2>1 DEF RecvSynched, BarrierCheck, Reads
  <2>3. CASE spc' = "core"
    BY <2>1, <2>3, OpensClock
  <2>4. CASE spc' = "listen" /\ UNCHANGED global
    BY <2>1, <2>4, ReadsClock
  <2> QED BY <2>2, <2>3, <2>4
<1>3. CASE RecvConnect
  BY <1>3, ConnectClock
<1>4. CASE RecvTxDropped \/ RecvTxAccepted
  <2>1. Reads("TX") /\ UNCHANGED <<spc, global, reply, active>>
    BY <1>0, <1>4, TxTypes
  <2>2. spc' = "listen"
    BY <2>1 DEF Reads
  <2> QED BY <2>1, <2>2, ReadsClock
<1>5. CASE RecvTxBacktrack
  <2>1. /\ spc = "listen" /\ spc' = "listen" /\ Sends(BacktrackTo) /\ UNCHANGED global
    BY <1>0, <1>5, BacktrackTypes
  <2>2. BacktrackTo.type = "BACKTRACK"
    BY DEF BacktrackTo, BacktrackPkt
  <2> QED BY <1>0, <2>1, <2>2, SendsClock
<1>6. CASE SrvCore
  <2>1. (\E p \in McastPkt : Releases(p) \/ Hands(p)) \/ Desynchronizes
    BY <1>0, <1>6, CoreTypes
  <2>2. ASSUME NEW p \in McastPkt, Releases(p) \/ Hands(p) PROVE Clocks'
    <3>1. /\ Sends(p) /\ UNCHANGED global /\ spc = "core"
          /\ \/ p.type \in ReleaseTypes
             \/ spc' = "core" /\ p.type = "RX"
      BY <2>2 DEF Releases, Hands
    <3> QED BY <1>0, <3>1, SendsClock
  <2>3. CASE Desynchronizes
    <3>1. /\ spc = "core" /\ spc' = "desync"
          /\ UNCHANGED <<mcast, pc, bt, cnx_time, reply, active, global>>
      BY <2>3 DEF Desynchronizes, netVars, cltVars
    <3>2. ASSUME NEW m \in Nodes PROVE Clock(m)'
      <4>1. Clock(m) /\ Releasing(m) /\ Releasing(m)'
        BY <3>1 DEF Clocks, Releasing
      <4> QED BY <3>1, <4>1 DEF Clock, Inside, Live
    <3> QED BY <3>2 DEF Clocks
  <2> QED BY <2>1, <2>2, <2>3
<1> QED BY <1>1, <1>2, <1>3, <1>4, <1>5, <1>6 DEF SrvNext, SrvListen

\* A node that does nothing but see the server's variables unchanged.
LEMMA StutterClock ==
  ASSUME Clocks, UNCHANGED vars
  PROVE  Clocks'
<1>1. UNCHANGED <<spc, global, active, mcast, reply, pc, bt, backup, sigpipe, cnx_time>>
  BY DEF vars, srvVars, schedVars, netVars, cltVars
<1>2. ASSUME NEW m \in Nodes PROVE Clock(m)'
  <2>1. Clock(m) /\ Idle(m)
    BY <1>1 DEF Clocks, Idle
  <2> QED BY <1>1, <2>1, SameClock
<1> QED BY <1>2 DEF Clocks

Timed == Tame => Clocks

LEMMA InitClock == Init => Timed
<1> SUFFICES ASSUME Init, NEW n \in Nodes PROVE Clock(n)
  BY DEF Timed, Clocks
<1>1. pc[n] = "off"
  BY DEF Init, CltInit
<1> QED BY <1>1 DEF Clock, Inside, Live

LEMMA NextClock ==
  Trail /\ Trail' /\ Ordered /\ Ordered' /\ Shaped /\ Timed /\ [Next]_vars => Timed'
<1> SUFFICES ASSUME Tame, Trail, Trail', Orderly, Orderly', Shapes, Clocks, [Next]_vars
             PROVE  Clocks'
  BY DEF Ordered, Shaped, Timed, Tame
<1>1. PICK T : Known(T)
  BY DEF Trail
<1>2. TypeInv' /\ Members'
  BY DEF Trail, Known
<1>3. CASE Server
  BY <1>1, <1>2, <1>3, ServerClock DEF Server
<1>4. ASSUME NEW n \in Nodes, Node(n) \/ User(n) PROVE Clocks'
  BY <1>1, <1>4, NodeClock DEF Node, User
<1>5. CASE UNCHANGED vars
  BY <1>5, StutterClock
<1> QED BY <1>3, <1>4, <1>5 DEF Next, Finished

LEMMA ClockAlways == Spec => [](Trail /\ Ordered /\ Shaped /\ Timed /\ Past)
<1>1. /\ Init => Past
      /\ Trail => TypeInv
  BY DEF Init, SrvInit, Past, Trail, Known
<1>2. Trail /\ Past /\ [Next]_vars => Past'
  BY <1>1, NextPast
<1>3. Trail /\ Ordered /\ Shaped /\ Timed /\ (Trail /\ Ordered)' /\ [Next]_vars => Timed'
  BY NextClock
<1> QED BY <1>1, <1>2, <1>3, InitClock, ShapeAlways, PTL DEF Spec

-----------------------------------------------------------------------------
(* No byte is received before its end. *)

\* g holds the last bytes of the k first ones, none earlier than its end.
Timely(g, k, n) ==
  Heard(g, k) /\ \A i \in 1..Len(g) :
                   g[i].at + cnx_time[n] >= delivered[k - Len(g) + i].end

\* What node n has to parse, from the byte c + 1 on: the bytes come first.
ToCome(n, c) ==
  /\ \A i \in 1..Len(mcast[n]) :
       /\ mcast[n][i].type \in RxTypes <=> c + i <= Len(delivered)
       /\ mcast[n][i].type \in RxTypes => mcast[n][i].tx = Tag(delivered[c + i])
  /\ Len(delivered) <= c + Len(mcast[n])

\* n has received c bytes in time, and so has its copy, but for those of the
\* rendez-vous that n is about to leave.
Backlog(n) ==
  Inside(n) => \E c \in 0..Len(delivered) :
    /\ Timely(bt[n].got, c, n) /\ ToCome(n, c)
    /\ \E d \in 0..c : Timely(backup[n].got, d, n) /\ (Releasing(n) \/ d = c)

Backlogs == \A n \in Nodes : Backlog(n)

LEMMA BacklogIs ==
  ASSUME NEW n \in Nodes, NEW g, NEW h, g = bt'[n].got, h = backup'[n].got,
         NEW c, c \in 0..Len(delivered'), NEW d \in 0..c,
         Timely(g, c, n)', Timely(h, d, n)', ToCome(n, c)', Releasing(n)' \/ d = c
  PROVE  Backlog(n)'
<1>1. Timely(bt[n].got, c, n)' /\ Timely(backup[n].got, d, n)'
  BY DEF Timely, Heard
<1> QED BY <1>1 DEF Backlog

LEMMA TimelyLater ==
  ASSUME NEW n \in Nodes, NEW g \in Seq(Got), NEW k \in Nat, k <= Len(delivered),
         Timely(g, k, n), delivered \in Seq(Transmission), cnx_time'[n] = cnx_time[n],
         delivered' = delivered \/ \E e \in Transmission : delivered' = Append(delivered, e)
  PROVE  Timely(g, k, n)' /\ k <= Len(delivered')
<1>1. Heard(g, k)'
  BY HeardLater DEF Timely
<1>2. \A j \in 1..Len(delivered) : delivered'[j] = delivered[j]
  OBVIOUS
<1>3. Len(delivered) <= Len(delivered') /\ Len(delivered') \in Nat /\ Len(delivered) \in Nat
  OBVIOUS
<1>4. \A i \in 1..Len(g) : k - Len(g) + i \in 1..Len(delivered)
  BY DEF Timely, Heard
<1>5. \A i \in 1..Len(g) : g[i].at + cnx_time'[n] >= delivered'[k - Len(g) + i].end
  BY <1>2, <1>4 DEF Timely
<1>6. k <= Len(delivered')
  BY <1>3
<1>7. Timely(g, k, n)'
  BY <1>1, <1>5 DEF Timely
<1> QED BY <1>6, <1>7

LEMMA TimelyNext ==
  ASSUME NEW n \in Nodes, NEW g \in Seq(Got), NEW k \in Nat, Timely(g, k, n), NEW x \in Got,
         x.tx = Tag(delivered[k + 1]), x.at + cnx_time[n] >= delivered[k + 1].end
  PROVE  Timely(Append(g, x), k + 1, n)
<1> DEFINE h == Append(g, x)
<1>1. /\ Len(h) = Len(g) + 1 /\ h[Len(g) + 1] = x /\ Len(g) \in Nat
      /\ \A i \in 1..Len(g) : h[i] = g[i]
  OBVIOUS
<1>2. Heard(h, k + 1)
  BY HeardNext DEF Timely
<1> HIDE DEF h
<1>3. ASSUME NEW i \in 1..Len(h)
      PROVE  h[i].at + cnx_time[n] >= delivered[(k + 1) - Len(h) + i].end
  <2>1. (k + 1) - Len(h) + i = k - Len(g) + i
    BY <1>1
  <2>2. CASE i \in 1..Len(g)
    BY <1>1, <2>1, <2>2 DEF Timely
  <2>3. CASE i = Len(g) + 1
    <3>1. k - Len(g) + i = k + 1
      BY <1>1, <2>3
    <3> QED BY <1>1, <2>1, <2>3, <3>1
  <2> QED BY <1>1, <2>2, <2>3
<1> QED BY <1>2, <1>3 DEF Timely, h

LEMMA TakenTimely ==
  ASSUME TypeInv, Past, NEW n \in Nodes, NEW b \in Machine, NEW m \in McastPkt,
         m.type \in RxTypes, n \in m.to, NEW k \in Nat, k + 1 <= Len(delivered),
         m.tx = Tag(delivered[k + 1]), Timely(b.got, k, n), b.now + cnx_time[n] >= global
  PROVE  Timely(Taken(n, b, m), k + 1, n)
<1> DEFINE x == [tx |-> m.tx, at |-> b.now]
<1>1. /\ b.got \in Seq(Got) /\ b.now \in Nat /\ cnx_time[n] \in Nat /\ global \in Nat
      /\ delivered \in Seq(Transmission) /\ m.tx \in Nodes \X Nat
  BY MachineFields, McastFields DEF TypeInv, CltTypeOK, SrvTypeOK
<1>2. x \in Got /\ x.tx = m.tx /\ x.at = b.now
  BY <1>1 DEF Got
<1>3. Taken(n, b, m) = Append(b.got, x)
  BY DEF Taken
<1> HIDE DEF x
<1>4. k + 1 \in 1..Len(delivered)
  BY <1>1
<1>5. delivered[k + 1].end \in Nat
  <2>1. delivered[k + 1] \in Transmission
    BY <1>1, <1>4
  <2> QED BY <2>1 DEF Transmission
<1>6. delivered[k + 1].end <= global
  BY <1>4 DEF Past
<1>7. x.at + cnx_time[n] >= delivered[k + 1].end
  BY <1>1, <1>2, <1>5, <1>6
<1> QED BY <1>1, <1>2, <1>3, <1>7, TimelyNext

\* The first packet is parsed.
LEMMA ToComeTail ==
  ASSUME NEW n \in Nodes, mcast[n] \in Seq(McastPkt), mcast[n] # <<>>,
         mcast'[n] = Tail(mcast[n]), delivered' = delivered,
         Len(delivered) \in Nat, NEW c \in 0..Len(delivered), ToCome(n, c)
  PROVE  LET m == Head(mcast[n])
         IN  /\ m.type \in RxTypes => /\ c + 1 <= Len(delivered)
                                      /\ m.tx = Tag(delivered[c + 1]) /\ ToCome(n, c + 1)'
             /\ m.type \notin RxTypes => c = Len(delivered) /\ ToCome(n, c)'
<1> DEFINE q == mcast[n]
           r == mcast'[n]
           m == Head(q)
<1>1. /\ m = q[1] /\ 1 \in 1..Len(q) /\ Len(q) \in Nat /\ Len(r) = Len(q) - 1
      /\ \A i \in 1..Len(r) : i + 1 \in 1..Len(q) /\ r[i] = q[i + 1]
  <2> HIDE DEF q
  <2>1. q \in Seq(McastPkt) /\ q # <<>> /\ r = Tail(q)
    BY DEF q
  <2> HIDE DEF r
  <2> QED BY <2>1
<1>2. /\ \A i \in 1..Len(q) : /\ q[i].type \in RxTypes <=> c + i <= Len(delivered)
                              /\ q[i].type \in RxTypes => q[i].tx = Tag(delivered[c + i])
      /\ Len(delivered) <= c + Len(q)
  BY DEF ToCome
<1> HIDE DEF q, r, m
<1>3. CASE m.type \in RxTypes
  <2>1. c + 1 <= Len(delivered) /\ m.tx = Tag(delivered[c + 1])
    BY <1>1, <1>2, <1>3
  <2>2. ASSUME NEW i \in 1..Len(r)
        PROVE  /\ r[i].type \in RxTypes <=> (c + 1) + i <= Len(delivered)
               /\ r[i].type \in RxTypes => r[i].tx = Tag(delivered[(c + 1) + i])
    <3>1. (c + 1) + i = c + (i + 1) /\ i + 1 \in 1..Len(q) /\ r[i] = q[i + 1]
      BY <1>1
    <3> QED BY <1>2, <3>1
  <2>3. Len(delivered) <= (c + 1) + Len(r)
    BY <1>1, <1>2
  <2>4. ToCome(n, c + 1)'
    BY <2>2, <2>3 DEF ToCome, r
  <2> QED BY <1>3, <2>1, <2>4 DEF m, q
<1>4. CASE m.type \notin RxTypes
  <2>1. ~ (c + 1 <= Len(delivered))
    BY <1>1, <1>2, <1>4
  <2>2. c = Len(delivered)
    BY <2>1
  <2>3. ASSUME NEW i \in 1..Len(r)
        PROVE  r[i].type \notin RxTypes /\ ~ (c + i <= Len(delivered))
    <3>1. i + 1 \in 1..Len(q) /\ r[i] = q[i + 1] /\ ~ (c + (i + 1) <= Len(delivered))
      BY <1>1, <2>2
    <3> QED BY <1>2, <2>2, <3>1
  <2>4. Len(delivered) <= c + Len(r)
    BY <1>1, <2>2
  <2>5. ToCome(n, c)'
    BY <2>3, <2>4 DEF ToCome, r
  <2> QED BY <1>4, <2>2, <2>5 DEF m, q
<1> QED BY <1>3, <1>4 DEF m, q

\* A packet is sent: a byte when it is the next one, or else no byte at all.
LEMMA ToComeAppend ==
  ASSUME NEW n \in Nodes, NEW p \in McastPkt, mcast[n] \in Seq(McastPkt),
         mcast'[n] = Append(mcast[n], p), delivered \in Seq(Transmission),
         NEW c \in 0..Len(delivered), ToCome(n, c),
         \/ p.type \notin RxTypes /\ delivered' = delivered
         \/ /\ p.type \in RxTypes /\ c + Len(mcast[n]) = Len(delivered)
            /\ \E e \in Transmission : delivered' = Append(delivered, e) /\ p.tx = Tag(e)
  PROVE  ToCome(n, c)'
<1> DEFINE q == mcast[n]
           r == mcast'[n]
<1>1. /\ Len(r) = Len(q) + 1 /\ Len(q) \in Nat /\ r[Len(q) + 1] = p
      /\ \A i \in 1..Len(q) : r[i] = q[i]
      /\ \A i \in 1..Len(r) : i \in 1..Len(q) \/ i = Len(q) + 1
  BY AppendedTo
<1>2. /\ \A i \in 1..Len(q) : /\ q[i].type \in RxTypes <=> c + i <= Len(delivered)
                              /\ q[i].type \in RxTypes => q[i].tx = Tag(delivered[c + i])
      /\ Len(delivered) <= c + Len(q)
  BY DEF ToCome
<1>3. Len(delivered) \in Nat /\ c \in Nat
  OBVIOUS
<1> HIDE DEF q, r
<1>4. CASE p.type \notin RxTypes /\ delivered' = delivered
  <2>1. ASSUME NEW i \in 1..Len(r)
        PROVE  /\ r[i].type \in RxTypes <=> c + i <= Len(delivered)
               /\ r[i].type \in RxTypes => r[i].tx = Tag(delivered[c + i])
    <3>1. CASE i \in 1..Len(q)
      BY <1>1, <1>2, <3>1
    <3>2. CASE i = Len(q) + 1
      <4>1. ~ (c + i <= Len(delivered))
        BY <1>1, <1>2, <1>3, <3>2
      <4> QED BY <1>1, <1>4, <3>2, <4>1
    <3> QED BY <1>1, <3>1, <3>2
  <2>2. Len(delivered) <= c + Len(r)
    BY <1>1, <1>2, <1>3
  <2> QED BY <1>4, <2>1, <2>2 DEF ToCome, r
<1>5. CASE /\ p.type \in RxTypes /\ c + Len(q) = Len(delivered)
           /\ \E e \in Transmission : delivered' = Append(delivered, e) /\ p.tx = Tag(e)
  <2>1. PICK e \in Transmission : delivered' = Append(delivered, e) /\ p.tx = Tag(e)
    BY <1>5
  <2>2. /\ Len(delivered') = Len(delivered) + 1 /\ delivered'[Len(delivered) + 1] = e
        /\ \A j \in 1..Len(delivered) : delivered'[j] = delivered[j]
    BY <2>1
  <2>3. ASSUME NEW i \in 1..Len(r)
        PROVE  /\ r[i].type \in RxTypes <=> c + i <= Len(delivered')
               /\ r[i].type \in RxTypes => r[i].tx = Tag(delivered'[c + i])
    <3>1. CASE i \in 1..Len(q)
      <4>1. c + i <= Len(delivered) /\ c + i <= Len(delivered') /\ c + i \in 1..Len(delivered)
        BY <1>1, <1>3, <1>5, <2>2, <3>1
      <4>2. r[i] = q[i] /\ delivered'[c + i] = delivered[c + i]
        BY <1>1, <2>2, <3>1, <4>1
      <4> QED BY <1>2, <3>1, <4>1, <4>2
    <3>2. CASE i = Len(q) + 1
      <4>1. c + i = Len(delivered) + 1
        BY <1>1, <1>3, <1>5, <3>2
      <4> QED BY <1>1, <1>3, <1>5, <2>1, <2>2, <3>2, <4>1
    <3> QED BY <1>1, <3>1, <3>2
  <2>4. Len(delivered') <= c + Len(r)
    BY <1>1, <1>3, <1>5, <2>2
  <2> QED BY <2>3, <2>4 DEF ToCome, r
<1> QED BY <1>4, <1>5 DEF q

LEMMA SameTimely ==
  ASSUME NEW n, NEW g, NEW k, Timely(g, k, n), cnx_time'[n] = cnx_time[n],
         UNCHANGED delivered
  PROVE  Timely(g, k, n)'
BY DEF Timely, Heard

LEMMA SameBacklog ==
  ASSUME NEW m \in Nodes, Backlog(m), Inside(m)' => Inside(m), bt'[m].got = bt[m].got,
         backup'[m].got = backup[m].got, cnx_time'[m] = cnx_time[m], mcast'[m] = mcast[m],
         UNCHANGED <<spc, delivered>>
  PROVE  Backlog(m)'
<1> SUFFICES ASSUME Inside(m)' PROVE Backlog(m)'
  BY DEF Backlog
<1>1. PICK c \in 0..Len(delivered) :
        /\ Timely(bt[m].got, c, m) /\ ToCome(m, c)
        /\ \E d \in 0..c : Timely(backup[m].got, d, m) /\ (Releasing(m) \/ d = c)
  BY DEF Backlog
<1>2. PICK d \in 0..c : Timely(backup[m].got, d, m) /\ (Releasing(m) \/ d = c)
  BY <1>1
<1>3. PICK g, h : g = bt[m].got /\ h = backup[m].got
  OBVIOUS
<1>4. Timely(g, c, m)' /\ Timely(h, d, m)'
  BY <1>1, <1>2, <1>3, SameTimely
<1>5. ToCome(m, c)'
  BY <1>1 DEF ToCome
<1>6. Releasing(m)' <=> Releasing(m)
  BY DEF Releasing
<1>7. c \in 0..Len(delivered')
  OBVIOUS
<1> QED BY <1>2, <1>3, <1>4, <1>5, <1>6, <1>7, BacklogIs

LEMMA OtherBacklogs ==
  ASSUME Backlogs, NEW n \in Nodes, UNCHANGED srvVars, Backlog(n)',
         \A k \in Nodes \ {n} : Idle(k) /\ mcast'[k] = mcast[k]
  PROVE  Backlogs'
<1>1. UNCHANGED <<spc, delivered>>
  BY DEF srvVars, schedVars
<1>2. ASSUME NEW k \in Nodes \ {n} PROVE Backlog(k)'
  <2>1. Backlog(k) /\ (Inside(k)' => Inside(k))
    BY DEF Backlogs, Idle, Inside, Live
  <2> QED BY <1>1, <2>1, SameBacklog DEF Idle
<1> QED BY <1>2 DEF Backlogs

LEMMA ParsedBacklog ==
  ASSUME NEW T, Known(T), Orderly, Shapes, Clocks, Past, Backlogs, NEW n \in Nodes, Parsed(n)
  PROVE  Backlogs'
<1> DEFINE m == Head(mcast[n])
           b == Before(n)
           s == backup[n]
           t == backup'[n]
<1>0. /\ TypeInv /\ CltTypeOK /\ NetType /\ Live(n) /\ Inside(n) /\ Shape(n) /\ Clock(n)
      /\ Backlog(n) /\ \A k \in Nodes \ {n} : Idle(k)
      /\ mcast[n] # <<>> /\ mcast' = [mcast EXCEPT ![n] = Tail(@)]
      /\ UNCHANGED srvVars /\ cnx_time' = cnx_time
      /\ bt[n] \in Machine /\ s \in Machine /\ cnx_time[n] \in Nat /\ global \in Nat
      /\ delivered \in Seq(Transmission)
  BY NodeMark DEF Parsed, Known, TypeInv, SrvTypeOK, Shapes, Clocks, Backlogs, Inside,
                  CltTypeOK
<1>1. /\ mcast'[n] = Tail(mcast[n]) /\ mcast[n] \in Seq(McastPkt)
      /\ \A k \in Nodes \ {n} : mcast'[k] = mcast[k]
      /\ UNCHANGED <<spc, delivered>> /\ Len(delivered) \in Nat
  BY <1>0 DEF NetType, srvVars, schedVars
<1>2. /\ m \in McastPkt /\ m = mcast[n][1] /\ 1 \in 1..Len(mcast[n])
      /\ m.type \in RxTypes => n \in m.to
  BY ParsedNext
<1>3. PICK a \in Mark, z \in Mark : Carries(m, a, z) /\ bt[n].rp_seq = a.rp
  BY ParsedNext
<1>4. PICK c \in Machine : SameMoment(c, bt'[n]) /\ ParsedTo(n, b, s, m, c, t)
  BY ParsedNext
<1>5. /\ b \in Machine /\ b.rp_seq = bt[n].rp_seq /\ b.got = bt[n].got
      /\ bt[n].now <= b.now
  BY <1>0, BeforeIs DEF SameView
<1>6. /\ m.type = "BACKTRACK" => ~ Releasing(n) /\ ~ Releasing(n)'
      /\ m.type \in ReleaseTypes => ~ Releasing(n)'
      /\ m.type = "RX" => (Releasing(n) => Releasing(n)')
  BY <1>0, <1>1, ReleasingParsed DEF Shape
<1>7. /\ m.type = "RX" => Releasing(n)
      /\ bt[n].now + cnx_time[n] >= global
  BY <1>0, <1>2 DEF Clock
<1>8. b.now + cnx_time[n] >= global
  <2>1. b.now \in Nat /\ bt[n].now \in Nat
    BY <1>0, <1>5, MachineFields
  <2> QED BY <1>0, <1>5, <1>7, <2>1
<1>16. PICK k \in 0..Len(delivered) :
         /\ Timely(bt[n].got, k, n) /\ ToCome(n, k)
         /\ \E d \in 0..k : Timely(backup[n].got, d, n) /\ (Releasing(n) \/ d = k)
  BY <1>0 DEF Backlog
<1>17. PICK d \in 0..k : Timely(backup[n].got, d, n) /\ (Releasing(n) \/ d = k)
  BY <1>16
<1>9. /\ Timely(bt[n].got, k, n) /\ ToCome(n, k)
      /\ Timely(backup[n].got, d, n) /\ (Releasing(n) \/ d = k)
  BY <1>16, <1>17
<1>10. /\ m.type \in RxTypes => /\ k + 1 <= Len(delivered)
                                /\ m.tx = Tag(delivered[k + 1]) /\ ToCome(n, k + 1)'
       /\ m.type \notin RxTypes => ToCome(n, k)'
  BY <1>0, <1>1, <1>9, ToComeTail
<1>11. c.got = bt'[n].got
  BY <1>4 DEF SameMoment, SameView
<1>12. \A g, x : Timely(g, x, n) => Timely(g, x, n)'
  BY <1>0, <1>1 DEF Timely, Heard
<1> HIDE DEF m, b
<1>13. PICK x \in 0..Len(delivered) :
         /\ ToCome(n, x)' /\ Timely(Taken(n, b, m), x, n)
         /\ IF m.type \in RxTypes THEN x = k + 1 ELSE x = k
  <2>1. CASE m.type \in RxTypes
    <3>1. Timely(Taken(n, b, m), k + 1, n)
      BY <1>0, <1>2, <1>5, <1>8, <1>9, <1>10, <2>1, TakenTimely
    <3>2. k + 1 \in 0..Len(delivered)
      BY <1>1, <1>10, <2>1
    <3> QED BY <1>10, <2>1, <3>1, <3>2
  <2>2. CASE m.type \notin RxTypes
    <3>1. Taken(n, b, m) = bt[n].got
      BY <1>5, <2>2 DEF Taken
    <3> QED BY <1>9, <1>10, <2>2, <3>1
  <2> QED BY <2>1, <2>2
<1>14. Backlog(n)'
  <2>1. CASE m.type = "BACKTRACK"
    <3>1. t = s /\ \E r \in {s, b} : Moved(r, m, c)
      BY <1>4, <2>1 DEF ParsedTo, ReleaseTypes
    <3>2. d = k /\ x = k
      BY <1>6, <1>9, <1>13, <2>1 DEF RxTypes
    <3>3. c.got \in {s.got, b.got}
      BY <3>1 DEF Moved
    <3>4. Timely(c.got, k, n) /\ Timely(t.got, k, n)
      BY <1>5, <1>9, <3>1, <3>2, <3>3
    <3>5. PICK g, h : g = c.got /\ h = t.got /\ Timely(g, k, n) /\ Timely(h, k, n)
      BY <3>4
    <3>6. Timely(g, k, n)' /\ Timely(h, k, n)'
      BY <1>12, <3>5
    <3>7. k \in 0..k /\ k \in 0..Len(delivered')
      BY <1>1
    <3>8. g = bt'[n].got /\ h = backup'[n].got
      BY <1>11, <3>5 DEF t
    <3>9. ToCome(n, k)'
      BY <1>13, <3>2
    <3> QED BY <3>6, <3>7, <3>8, <3>9, BacklogIs
  <2>2. CASE m.type \in ReleaseTypes
    <3>1. m.c_rp_seq = b.rp_seq /\ m.type # "BACKTRACK" /\ m.type # "RX"
      BY <1>3, <1>5, <2>2 DEF Carries, ReleaseTypes
    <3>2. c.got = Taken(n, b, m) /\ t = c
      BY <1>4, <2>2, <3>1 DEF ParsedTo, Takes
    <3>3. Timely(c.got, x, n)'
      BY <1>12, <1>13, <3>2
    <3>4. x \in 0..x /\ x \in 0..Len(delivered')
      BY <1>1
    <3>5. c.got = backup'[n].got
      BY <3>2
    <3> QED BY <1>11, <1>13, <3>3, <3>4, <3>5, BacklogIs
  <2>3. CASE m.type = "RX"
    <3>1. Takes(n, b, m, c) /\ t = s
      BY <1>4, <2>3 DEF ParsedTo, ReleaseTypes
    <3>2. c.got = Taken(n, b, m) /\ Releasing(n)'
      BY <1>6, <1>7, <2>3, <3>1 DEF Takes
    <3>3. PICK h : h = s.got /\ Timely(h, d, n)
      BY <1>9
    <3>4. Timely(c.got, x, n)' /\ Timely(h, d, n)'
      BY <1>12, <1>13, <3>2, <3>3
    <3>5. d \in 0..x /\ x \in 0..Len(delivered')
      BY <1>1, <1>13, <2>3 DEF RxTypes
    <3>6. h = backup'[n].got
      BY <3>1, <3>3
    <3> QED BY <1>11, <1>13, <3>2, <3>4, <3>5, <3>6, BacklogIs
  <2>4. m.type \in {"BACKTRACK", "SYNCH_REQ", "RX", "SYNCH_REQ_RX"}
    BY <1>2, McastFields
  <2> QED BY <2>1, <2>2, <2>3, <2>4 DEF ReleaseTypes
<1>15. \A j \in Nodes \ {n} : Idle(j) /\ mcast'[j] = mcast[j]
  BY <1>0, <1>1
<1> QED BY <1>0, <1>14, <1>15, OtherBacklogs

LEMMA NodeBacklog ==
  ASSUME Tame, NEW T, Known(T), Orderly, Shapes, Clocks, Past, Backlogs, NEW n \in Nodes,
         CltStep(n) \/ CltUser(n), UNCHANGED srvVars
  PROVE  Backlogs'
<1>0. /\ TypeInv /\ NetType /\ CltTypeOK /\ Member(n) /\ Backlog(n)
      /\ UNCHANGED <<spc, delivered>> /\ delivered \in Seq(Transmission)
  BY OwnState DEF Backlogs, srvVars, schedVars, TypeInv, SrvTypeOK
<1>1. Local(n) \/ Parsed(n) \/ Comes(n) \/ Close(n) \/ StopAndRun(n)
  BY <1>0, NodeStep DEF Goes, Quit, Tame
<1>2. CASE Local(n)
  <2>1. /\ UNCHANGED <<mcast, backup, cnx_time>> /\ bt'[n].got = bt[n].got /\ Inside(n)
        /\ \A m \in Nodes \ {n} : Idle(m)
    BY <1>2 DEF Local, SameView, Inside
  <2>2. Backlog(n)'
    BY <1>0, <2>1, SameBacklog
  <2> QED BY <1>0, <2>1, <2>2, OtherBacklogs
<1>3. CASE Connect(n) \/ Refused(n) \/ Close(n)
  <2>1. /\ pc'[n] \in {"connecting", "refused", "closed"}
        /\ \A m \in Nodes \ {n} : Idle(m) /\ mcast'[m] = mcast[m]
    BY <1>0, <1>3, ConnectStep, RefusedStep, LeaveStep DEF Close, Elsewhere, NetType
  <2>2. Backlog(n)'
    BY <2>1 DEF Backlog, Inside, Live
  <2> QED BY <1>0, <2>1, <2>2, OtherBacklogs
<1>4. CASE Connected(n)
  <2>1. /\ pc[n] = "connecting" /\ mcast' = mcast
        /\ Answered(bt[n], Head(reply[n]), bt'[n]) /\ backup'[n] = bt'[n]
        /\ \A m \in Nodes \ {n} : Idle(m)
    BY <1>0, <1>4, ConnectedStep DEF Elsewhere
  <2>2. bt'[n].got = <<>> /\ backup'[n].got = <<>> /\ mcast'[n] = <<>>
    BY <1>0, <2>1 DEF Member, PowerOn, Answered, Live
  <2>3. PICK c \in Nat : c = Len(delivered)
    BY <1>0
  <2>4. /\ \A i \in 1..Len(<<>>) : FALSE
        /\ Len(<<>>) = 0 /\ c \in 0..c /\ c \in 0..Len(delivered')
    BY <1>0, <2>3
  <2>5. PICK g : g = <<>> /\ g = bt'[n].got /\ g = backup'[n].got
    BY <2>2
  <2>6. Timely(g, c, n)'
    BY <2>4, <2>5 DEF Timely, Heard
  <2>7. ToCome(n, c)'
    BY <1>0, <2>2, <2>3, <2>4 DEF ToCome
  <2>8. Backlog(n)'
    BY <2>4, <2>5, <2>6, <2>7, BacklogIs
  <2> QED BY <1>0, <2>1, <2>8, OtherBacklogs
<1>5. CASE Join(n)
  <2>1. /\ pc[n] = "joining" /\ UNCHANGED <<bt, backup, cnx_time, mcast>>
        /\ \A m \in Nodes \ {n} : Idle(m)
    BY <1>0, <1>5, JoinStep DEF Elsewhere
  <2>2. Backlog(n)'
    BY <1>0, <2>1, SameBacklog DEF Inside
  <2> QED BY <1>0, <2>1, <2>2, OtherBacklogs
<1>6. CASE StopAndRun(n)
  <2>1. /\ UNCHANGED <<pc, bt, cnx_time, mcast>> /\ \A m \in Nodes \ {n} : Idle(m)
        /\ backup'[n] = bt[n] /\ Inside(n)
    BY <1>0, <1>6, StopStep DEF Elsewhere, netVars, CltTypeOK, Inside, Live
  <2>2. PICK c \in 0..Len(delivered) : Timely(bt[n].got, c, n) /\ ToCome(n, c)
    BY <1>0, <2>1 DEF Backlog
  <2>3. PICK g : g = bt[n].got
    OBVIOUS
  <2>4. Timely(g, c, n)'
    BY <1>0, <2>1, <2>2, <2>3, SameTimely
  <2>5. ToCome(n, c)'
    BY <1>0, <2>1, <2>2 DEF ToCome
  <2>6. /\ g = bt'[n].got /\ g = backup'[n].got /\ c \in 0..Len(delivered') /\ c \in 0..c
    BY <1>0, <2>1, <2>3
  <2>7. Backlog(n)'
    BY <2>4, <2>5, <2>6, BacklogIs
  <2> QED BY <1>0, <2>1, <2>7, OtherBacklogs
<1> QED BY <1>1, <1>2, <1>3, <1>4, <1>5, <1>6, ParsedBacklog DEF Comes

\* The server goes on: what a node has received stays as it is.
LEMMA LaterBacklog ==
  ASSUME TypeInv, NEW m \in Nodes, Backlog(m), Inside(m)' => Inside(m),
         UNCHANGED <<bt, backup, cnx_time>>,
         delivered' = delivered \/ \E e \in Transmission : delivered' = Append(delivered, e),
         Releasing(m) => Releasing(m)',
         \A c \in 0..Len(delivered) : ToCome(m, c) => ToCome(m, c)'
  PROVE  Backlog(m)'
<1> SUFFICES ASSUME Inside(m)' PROVE Backlog(m)'
  BY DEF Backlog
<1>0. /\ delivered \in Seq(Transmission) /\ bt[m] \in Machine /\ backup[m] \in Machine
  BY DEF TypeInv, SrvTypeOK, CltTypeOK
<1>1. PICK c \in 0..Len(delivered) :
        /\ Timely(bt[m].got, c, m) /\ ToCome(m, c)
        /\ \E d \in 0..c : Timely(backup[m].got, d, m) /\ (Releasing(m) \/ d = c)
  BY DEF Backlog
<1>2. PICK d \in 0..c : Timely(backup[m].got, d, m) /\ (Releasing(m) \/ d = c)
  BY <1>1
<1>3. PICK g \in Seq(Got), h \in Seq(Got) : g = bt[m].got /\ h = backup[m].got
  BY <1>0, MachineFields
<1>4. c \in Nat /\ d \in Nat /\ c <= Len(delivered) /\ d <= Len(delivered)
  BY <1>0, <1>1, <1>2
<1>5. Timely(g, c, m)' /\ c <= Len(delivered')
  BY <1>0, <1>1, <1>3, <1>4, TimelyLater
<1>6. Timely(h, d, m)'
  BY <1>0, <1>2, <1>3, <1>4, TimelyLater
<1>7. ToCome(m, c)' /\ (Releasing(m)' \/ d = c)
  BY <1>1, <1>2
<1>8. c \in 0..Len(delivered')
  <2>1. Len(delivered') \in Nat
    BY <1>0
  <2> QED BY <1>4, <1>5, <2>1
<1>9. g = bt'[m].got /\ h = backup'[m].got
  BY <1>3
<1> QED BY <1>5, <1>6, <1>7, <1>8, <1>9, BacklogIs

LEMMA SendsBacklog ==
  ASSUME Tame, TypeInv, Members, Orderly, Shapes, Backlogs, NEW p, Sends(p),
         \/ spc = "listen" /\ p.type = "BACKTRACK" /\ delivered' = delivered
         \/ /\ spc = "core" /\ Delivers(p)
            /\ \/ p.type \in ReleaseTypes
               \/ spc' = "core" /\ p.type = "RX"
  PROVE  Backlogs'
<1>0. UNCHANGED <<pc, bt, backup, cnx_time>> /\ delivered \in Seq(Transmission) /\ p \in McastPkt
  BY DEF Sends, cltVars, TypeInv, SrvTypeOK
<1>1. delivered' = delivered \/ \E e \in Transmission : delivered' = Append(delivered, e)
  BY DEF Delivers
<1> SUFFICES ASSUME NEW m \in Nodes, Inside(m)' PROVE Backlog(m)'
  BY DEF Backlogs, Backlog
<1>2. Inside(m) /\ Backlog(m) /\ (Live(m)' <=> Live(m))
  BY <1>0 DEF Backlogs, Inside, Live
<1>3. CASE ~ Live(m)
  <2>1. mcast[m] = <<>> /\ m \notin joined
    BY <1>3 DEF Members, Member
  <2>2. mcast'[m] = mcast[m]
    BY <2>1 DEF Sends, SentTo
  <2>3. spc = "listen" /\ delivered' = delivered
    <3>1. spc # "core"
      BY <1>2, <1>3, CoreStarted DEF Started, Inside
    <3> QED BY <3>1
  <2>4. Releasing(m) => Releasing(m)'
    BY <2>2, <2>3 DEF Releasing
  <2>5. \A c \in 0..Len(delivered) : ToCome(m, c) => ToCome(m, c)'
    BY <2>2, <2>3 DEF ToCome
  <2> QED BY <1>0, <1>1, <1>2, <2>4, <2>5, LaterBacklog
<1>4. CASE Live(m)
  <2> DEFINE q == mcast[m]
  <2>1. q \in Seq(McastPkt) /\ mcast'[m] = Append(q, p)
    BY <1>2, <1>4, SendsTo
  <2>2. /\ Len(mcast'[m]) = Len(q) + 1 /\ Len(q) \in Nat /\ mcast'[m][Len(q) + 1] = p
        /\ \A i \in 1..Len(q) : mcast'[m][i] = q[i]
        /\ Len(q) + 1 \in 1..Len(mcast'[m]) /\ \A i \in 1..Len(q) : i \in 1..Len(mcast'[m])
    BY <1>0, <2>1, AppendedTo
  <2>3. Releasing(m) => Releasing(m)'
    BY <2>2 DEF Releasing
  <2>4. ASSUME NEW c \in 0..Len(delivered), ToCome(m, c) PROVE ToCome(m, c)'
    <3>1. CASE p.type \notin RxTypes
      <4>1. delivered' = delivered
        BY <3>1 DEF Delivers
      <4> QED BY <1>0, <2>1, <2>4, <3>1, <4>1, ToComeAppend
    <3>2. CASE p.type \in RxTypes
      <4>1. /\ spc = "core"
            /\ \E e \in Transmission : delivered' = Append(delivered, e) /\ p.tx = Tag(e)
        BY <3>2 DEF Delivers, RxTypes, Tag
      <4>2. \A i \in 1..Len(q) : q[i].type \in RxTypes
        BY <1>4, <4>1 DEF Shapes, Shape, BytesOnly, RxTypes
      <4>3. c + Len(q) = Len(delivered)
        <5>1. Len(delivered) <= c + Len(q) /\ Len(delivered) \in Nat /\ c \in Nat
              /\ c <= Len(delivered)
          BY <1>0, <2>4 DEF ToCome
        <5>2. \A i \in 1..Len(q) : c + i <= Len(delivered)
          BY <2>4, <4>2 DEF ToCome
        <5>3. CASE Len(q) = 0
          BY <5>1, <5>3
        <5>4. CASE Len(q) # 0
          <6>1. Len(q) \in 1..Len(q)
            BY <2>2, <5>4
          <6>2. c + Len(q) <= Len(delivered)
            BY <5>2, <6>1
          <6> QED BY <2>2, <5>1, <6>2
        <5> QED BY <5>3, <5>4
      <4> QED BY <1>0, <2>1, <2>4, <3>2, <4>1, <4>3, ToComeAppend
    <3> QED BY <3>1, <3>2
  <2> QED BY <1>0, <1>1, <1>2, <2>3, <2>4, LaterBacklog
<1> QED BY <1>3, <1>4

LEMMA ServerBacklog ==
  ASSUME Tame, NEW T, Known(T), Orderly, Shapes, Backlogs, SrvNext, UNCHANGED cltVars
  PROVE  Backlogs'
<1>0. TypeInv /\ Members /\ UNCHANGED <<pc, bt, backup, cnx_time>>
  BY DEF Known, cltVars
<1>1. CASE RecvTxBacktrack
  <2>1. spc = "listen" /\ Sends(BacktrackTo) /\ delivered' = delivered
    BY <1>0, <1>1, BacktrackTypes
  <2>2. BacktrackTo.type = "BACKTRACK"
    BY DEF BacktrackTo, BacktrackPkt
  <2> QED BY <1>0, <2>1, <2>2, SendsBacklog
<1>2. CASE SrvListen /\ ~ RecvTxBacktrack
  <2>1. \E type : Reads(type)
    BY <1>0, <1>2, DisconnectTypes, ConnectTypes, SynchedTypes, TxTypes DEF SrvListen
  <2>2. spc = "listen" /\ UNCHANGED <<mcast, delivered>>
    BY <2>1 DEF Reads
  <2>3. ASSUME NEW m \in Nodes PROVE Backlog(m)'
    <3>1. Backlog(m) /\ (Inside(m)' => Inside(m))
      BY <1>0 DEF Backlogs, Inside, Live
    <3>2. Releasing(m) => Releasing(m)'
      BY <2>2 DEF Releasing
    <3>3. \A c \in 0..Len(delivered) : ToCome(m, c) => ToCome(m, c)'
      BY <2>2 DEF ToCome
    <3> QED BY <1>0, <2>2, <3>1, <3>2, <3>3, LaterBacklog
  <2> QED BY <2>3 DEF Backlogs
<1>3. CASE SrvCore
  <2>1. (\E p \in McastPkt : Releases(p) \/ Hands(p)) \/ Desynchronizes
    BY <1>0, <1>3, CoreTypes
  <2>2. ASSUME NEW p \in McastPkt, Releases(p) \/ Hands(p) PROVE Backlogs'
    <3>1. /\ Sends(p) /\ Delivers(p) /\ spc = "core"
          /\ \/ p.type \in ReleaseTypes
             \/ spc' = "core" /\ p.type = "RX"
      BY <2>2 DEF Releases, Hands
    <3> QED BY <1>0, <3>1, SendsBacklog
  <2>3. CASE Desynchronizes
    <3>1. spc = "core" /\ spc' = "desync" /\ UNCHANGED <<mcast, delivered>>
      BY <2>3 DEF Desynchronizes, netVars
    <3>2. ASSUME NEW m \in Nodes PROVE Backlog(m)'
      <4>1. Backlog(m) /\ (Inside(m)' => Inside(m)) /\ Releasing(m)'
        BY <1>0, <3>1 DEF Backlogs, Inside, Live, Releasing
      <4>2. \A c \in 0..Len(delivered) : ToCome(m, c) => ToCome(m, c)'
        BY <3>1 DEF ToCome
      <4> QED BY <1>0, <3>1, <4>1, <4>2, LaterBacklog
    <3> QED BY <3>2 DEF Backlogs
  <2> QED BY <2>1, <2>2, <2>3
<1> QED BY <1>1, <1>2, <1>3 DEF SrvNext

InTime == Tame => Backlogs

LEMMA NextBacklog ==
  Trail /\ Ordered /\ Shaped /\ Timed /\ Past /\ InTime /\ [Next]_vars => InTime'
<1> SUFFICES ASSUME Tame, Trail, Orderly, Shapes, Clocks, Past, Backlogs, [Next]_vars
             PROVE  Backlogs'
  BY DEF Ordered, Shaped, Timed, InTime, Tame
<1>1. PICK T : Known(T)
  BY DEF Trail
<1>2. CASE Server
  BY <1>1, <1>2, ServerBacklog DEF Server
<1>3. ASSUME NEW n \in Nodes, Node(n) \/ User(n) PROVE Backlogs'
  BY <1>1, <1>3, NodeBacklog DEF Node, User
<1>4. CASE UNCHANGED vars
  <2>1. UNCHANGED <<spc, delivered, mcast, pc, bt, backup, cnx_time>>
    BY <1>4 DEF vars, srvVars, schedVars, netVars, cltVars
  <2>2. ASSUME NEW m \in Nodes PROVE Backlog(m)'
    BY <2>1, SameBacklog DEF Backlogs, Inside, Live
  <2> QED BY <2>2 DEF Backlogs
<1> QED BY <1>2, <1>3, <1>4 DEF Next, Finished

LEMMA NeverEarly == Trail /\ Backlogs => RxNotEarly
<1> SUFFICES ASSUME Trail, Backlogs, NEW n \in Nodes, Live(n)
             PROVE  \E k \in 0..Len(delivered) - Len(bt[n].got) :
                      /\ GotFrom(n, k)
                      /\ \A i \in 1..Len(bt[n].got) :
                           bt[n].got[i].at + cnx_time[n] >= delivered[k + i].end
  BY DEF RxNotEarly
<1>1. PICK c \in 0..Len(delivered) : Timely(bt[n].got, c, n)
  BY DEF Backlogs, Backlog, Inside
<1>2. bt[n].got \in Seq(Got) /\ delivered \in Seq(Transmission)
  BY NodeMark, MachineFields DEF Trail, Known, TypeInv, SrvTypeOK
<1>3. c - Len(bt[n].got) \in 0..Len(delivered) - Len(bt[n].got)
  BY <1>1, <1>2 DEF Timely, Heard
<1>4. GotFrom(n, c - Len(bt[n].got))
  BY <1>1 DEF Timely, Heard, GotFrom, Tag
<1>5. \A i \in 1..Len(bt[n].got) :
        bt[n].got[i].at + cnx_time[n] >= delivered[c - Len(bt[n].got) + i].end
  BY <1>1 DEF Timely
<1> QED BY <1>3, <1>4, <1>5

\* When nothing is lost no node receives a byte before the byte has ended:
\* whenever a node connects, and to whatever state it goes back, its clock
\* has passed the end of every byte the server hands to it.
THEOREM ReceptionNotEarly == Spec => [](Tame => RxNotEarly)
<1>1. Init => InTime
  <2> SUFFICES ASSUME Init, NEW n \in Nodes PROVE Backlog(n)
    BY DEF InTime, Backlogs
  <2>1. pc[n] = "off"
    BY DEF Init, CltInit
  <2> QED BY <2>1 DEF Backlog, Inside, Live
<1>2. Trail /\ InTime => (Tame => RxNotEarly)
  BY NeverEarly DEF InTime
<1> QED BY <1>1, <1>2, NextBacklog, ClockAlways, PTL DEF Spec
=============================================================================
