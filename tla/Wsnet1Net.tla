------------------------------ MODULE Wsnet1Net ------------------------------
(***************************************************************************)
(* The messages of the WSNet1 protocol and the network they travel on.     *)
(*                                                                         *)
(* WSim nodes send UDP datagrams to the one socket of the server; the      *)
(* server answers a CONNECT with a unicast datagram and sends everything   *)
(* else to a multicast group.  A node that has not joined the group when a *)
(* packet is sent never sees it.  Queues keep the order in which datagrams *)
(* were sent; Loss says whether a multicast datagram may miss some of the  *)
(* members of the group.                                                   *)
(***************************************************************************)
EXTENDS Integers, Sequences

CONSTANTS
  Nodes,  \* the addresses WSim nodes are started with (option --node-id)
  Loss    \* may a multicast datagram be lost on its way to a member?

ASSUME LossAssumption == Loss \in BOOLEAN

VARIABLES
  toServer,  \* datagrams sent to the server and not read yet
  reply,     \* per node, the unicast answers to its CONNECT
  mcast,     \* per node, multicast datagrams delivered and not parsed yet
  joined     \* the members of the multicast group

netVars == <<toServer, reply, mcast, joined>>

-----------------------------------------------------------------------------
(* Packets sent by WSim nodes. *)

ConnectPkt(n)    == [type |-> "CONNECT", node |-> n]
DisconnectPkt(n) == [type |-> "DISCONNECT", node |-> n]
SynchedPkt(s)    == [type |-> "SYNCHED", rp_seq |-> s]

\* The period is counted from the last rendez-vous of the sender.
TxPkt(n, s, p, d) ==
  [type |-> "TX", node |-> n, seq |-> s, period |-> p, duration |-> d]

ClientPkt ==
  [type : {"CONNECT", "DISCONNECT"}, node : Nodes]
    \cup [type : {"SYNCHED"}, rp_seq : Nat]
    \cup [type : {"TX"}, node : Nodes, seq : Nat, period : Nat, duration : Nat]

(* Packets sent by the server. *)

NoAttrAddrPkt == [type |-> "NOATTRADDR"]

AttrAddrPkt(s, p, rs, t) ==
  [type |-> "ATTRADDR", seq |-> s, period |-> p, rp_seq |-> rs, cnx_time |-> t]

BacktrackPkt(s, p, rs) ==
  [type |-> "BACKTRACK", seq |-> s, period |-> p, rp_seq |-> rs]

SaveRelPkt(s, c, n, p) ==
  [type |-> "SYNCH_REQ", seq |-> s, c_rp_seq |-> c, n_rp_seq |-> n,
   period |-> p]

RxPkt(s, t, to) == [type |-> "RX", seq |-> s, tx |-> t, to |-> to]

SrRxPkt(s, c, n, p, t, to) ==
  [type |-> "SYNCH_REQ_RX", seq |-> s, c_rp_seq |-> c, n_rp_seq |-> n,
   period |-> p, tx |-> t, to |-> to]

-----------------------------------------------------------------------------

NetInit ==
  /\ toServer = <<>>
  /\ reply = [n \in Nodes |-> <<>>]
  /\ mcast = [n \in Nodes |-> <<>>]
  /\ joined = {}

\* A node writes to the socket of the server.
SendToServer(m) == toServer' = Append(toServer, m)

\* The server multicasts m: every member gets it, or a subset if Loss.
Multicast(m) ==
  \E got \in (IF Loss THEN SUBSET joined ELSE {joined}) :
    mcast' = [n \in Nodes |->
                IF n \in got THEN Append(mcast[n], m) ELSE mcast[n]]
=============================================================================
