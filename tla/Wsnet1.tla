-------------------------------- MODULE Wsnet1 --------------------------------
(***************************************************************************)
(* The WSNet1 distributed simulation: the server, the WSim nodes and the   *)
(* network between them, and what the protocol promises.                   *)
(***************************************************************************)
EXTENDS Wsnet1Server, Wsnet1Client

vars == <<srvVars, cltVars, netVars>>

Init == NetInit /\ SrvInit /\ CltInit

Server == SrvNext /\ UNCHANGED cltVars
Node(n) == CltStep(n) /\ UNCHANGED srvVars
User(n) == CltUser(n) /\ UNCHANGED srvVars

\* Every node is gone and the server has returned from core_start.
Finished ==
  /\ spc = "stopped" /\ \A n \in Nodes : pc[n] \in {"closed", "refused"}
  /\ UNCHANGED vars

Next == \/ Server
        \/ \E n \in Nodes : Node(n) \/ User(n)
        \/ Finished

\* The server and the nodes are processes of the host: each runs whenever
\* it is not blocked on its socket.
Fairness == WF_vars(Server) /\ \A n \in Nodes : WF_vars(Node(n))

Spec == Init /\ [][Next]_vars
FairSpec == Spec /\ Fairness

TypeOK == /\ SrvTypeOK /\ CltTypeOK
          /\ toServer \in Seq(ClientPkt) /\ joined \subseteq Nodes

-----------------------------------------------------------------------------
(* Safety. *)

\* A node the simulation runs on, between its connection and its end.
Live(n) == pc[n] \in {"run", "radio", "tx", "synched"}

\* A live node that has parsed everything it was sent, while the server
\* listens: the two have nothing left to tell each other.
UpToDate(n) == Live(n) /\ mcast[n] = <<>> /\ spc = "listen"

\* Such a node agrees with the server on the rendez-vous: its index, its
\* distance from the last one, and the number of the next packet.
ViewAgrees ==
  \A n \in Nodes : UpToDate(n) =>
    /\ bt[n].rx_pkt_seq = pkt_seq
    /\ bt[n].rp_seq = rp_seq
    /\ bt[n].next_rp - bt[n].last_rp = rp - global

\* The nodes blocked in worldsens1_synched for the current rendez-vous.
Blocked(n) == pc[n] = "synched" /\ bt[n].pending /\ bt[n].rp_seq = rp_seq
Announced == {i \in 1..Len(toServer) :
                toServer[i].type = "SYNCHED" /\ toServer[i].rp_seq = rp_seq}

\* synched is the number of connected nodes that are blocked at the
\* rendez-vous and have been heard, so the barrier opens when all are there.
BarrierExact ==
  spc = "listen" =>
    synched = Cardinality({n \in active : Blocked(n)}) - Cardinality(Announced)

\* A node crosses its rendez-vous by less than two instructions, and waits
\* for the others only when it has reached it.
NearRendezVous ==
  \A n \in Nodes : Live(n) =>
    /\ bt[n].now < bt[n].next_rp + 2 * Quantum[n]
    /\ bt[n].pending => bt[n].now >= bt[n].next_rp

TxInFlight == {<<toServer[i].node, toServer[i].seq>> :
                 i \in {j \in 1..Len(toServer) : toServer[j].type = "TX"}}
Scheduled == {<<e.node, e.seq>> : e \in events}
Delivered == {<<delivered[i].node, delivered[i].seq>> : i \in 1..Len(delivered)}

\* A byte that a node has sent is on its way to the server, scheduled or
\* delivered, unless the node is about to parse a BACKTRACK: the server
\* drops and cancels only what is going to be sent again.
NoTxLost ==
  spc # "stopped" => \A n \in Nodes : Live(n) =>
    \/ \A s \in 0..bt[n].tx_pkt_seq - 1 :
         <<n, s>> \in TxInFlight \cup Scheduled \cup Delivered
    \/ \E i \in 1..Len(mcast[n]) : mcast[n][i].type = "BACKTRACK"

\* The radio of n was given back another machine by worldsens1_c_tx: the two
\* halves of its driver, around the call, ran on different machines, and it
\* has logged more bytes, or fewer, than it has taken from its fifo.
Torn(n) == Len(backup[n].sent) # backup[n].byte

Twice(i, j) ==
  i # j /\ delivered[i].node = delivered[j].node /\ delivered[i].seq = delivered[j].seq

\* Backtracked nodes send their bytes again, and each is delivered once, but
\* for the bytes of a torn radio.
OnceUnlessTorn ==
  \A i, j \in 1..Len(delivered) : Twice(i, j) => Torn(delivered[i].node)

\* The bytes of got are those delivered from the (k+1)th on.
GotFrom(n, k) ==
  \A i \in 1..Len(bt[n].got) :
    bt[n].got[i].tx = <<delivered[k + i].node, delivered[k + i].seq>>

\* What a node has received are consecutive deliveries, in the order of the
\* server, whatever was lost and however often the node went back.
RxInOrder ==
  \A n \in Nodes : Live(n) =>
    \E k \in 0..Len(delivered) - Len(bt[n].got) : GotFrom(n, k)

\* When nothing is lost they are the last ones: a node that is up to date
\* has missed nothing, and a restored node receives nothing twice.
RxComplete ==
  \A n \in Nodes : UpToDate(n) =>
    /\ Len(bt[n].got) <= Len(delivered)
    /\ GotFrom(n, Len(delivered) - Len(bt[n].got))

\* No node receives a byte before it has ended: its clock, counted from the
\* date of its connection, is never behind the date of the delivery.
RxNotEarly ==
  \A n \in Nodes : Live(n) =>
    \E k \in 0..Len(delivered) - Len(bt[n].got) :
      /\ GotFrom(n, k)
      /\ \A i \in 1..Len(bt[n].got) :
           bt[n].got[i].at + cnx_time[n] >= delivered[k + i].end

-----------------------------------------------------------------------------
(* Liveness. *)

\* Every simulation comes to its end: nobody waits for a rendez-vous or for
\* a backtrack that never comes, and the server returns from core_start.
Terminates ==
  <>(spc = "stopped" /\ \A n \in Nodes : pc[n] \in {"closed", "refused"})

-----------------------------------------------------------------------------
(* What the documentation says and the code does not do. *)

\* wsim.xml:575: "Correct distributed events ordering is ensured by
\* backtracking nodes that are in advance compared to others": no node that
\* is up to date is beyond the rendez-vous of the others.
AdvancedGoBack ==
  \A n \in Nodes : UpToDate(n) =>
    bt[n].now - bt[n].last_rp < rp - global + 2 * Quantum[n]

\* worldsens_srv.c:463: a TX that is already in g_packets is called a
\* "Retransmission" and dropped: no byte is delivered twice. A cc1100 counts
\* its bytes and its datagrams together, so the number is the byte's; a cc2420
\* that was torn may give the number of a byte to the next one.
DeliveredOnce ==
  \A i, j \in 1..Len(delivered) : ~ Twice(i, j)

\* wsim_dev_tutorial.tex:186: "the state of the node is restored to the last
\* state saved": a byte whose transmission was cancelled is sent again, so the
\* bytes logged as sent are the first bytes of the program, each once.
SentInOrder ==
  \A n \in Nodes : \A i \in 1..Len(bt[n].sent) : bt[n].sent[i] = i
=============================================================================
