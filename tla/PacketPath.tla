----------------------------- MODULE PacketPath ------------------------------
(***************************************************************************)
(* The way of a packet through the slave: PktFilterInet::receive and send  *)
(* (nic/pkt_filter_inet.cpp), which share one control buffer between the   *)
(* receiving and the sending thread without a lock; the filters and the    *)
(* dispatch of Dhcpv4Srv (server/server.cpp), the selection of a subnet    *)
(* (server/subnet_mgr.cpp), and the addresses of a reply                   *)
(* (server/response_gen.cpp).  What the master answers is any outcome here;*)
(* module Dhcpv4Srv has the rest of that way.                              *)
(***************************************************************************)
EXTENDS Naturals, Sequences, FiniteSets, FiniteSetsExt

CONSTANTS Zero, Bcast,            \* 0.0.0.0 and 255.255.255.255
          Sockets,                \* addresses of the open sockets of the interface
          IfaceAddr,              \* its first address
          Foreign,                \* an address of another server
          Subnets,                \* sequence of [range, white, black]
          Class,                  \* client classes
          Destinations,           \* where queries are sent to
          Clients, Relays,        \* addresses that queries name, Zero included
          Selects,                \* link or subnet selection options, Zero for none
          MaxUsed,                \* replies that are looked at
          None

VARIABLES receiver,   \* pc of the receiving thread
          control,    \* control_buf_: whether its header says IP_PKTINFO, and the address
          current,    \* the packet in receive
          in_queue, out_queue,
          sender,     \* pc of the sending thread
          used,       \* history: server identifiers of replies
          cleared     \* history: a send cleared the control data of a query

vars == <<receiver, control, current, in_queue, out_queue, sender, used, cleared>>

Type == {"discover", "request", "release", "decline", "inform", "ack"}

Init ==
  /\ receiver = "idle" /\ sender = "idle"
  /\ control = [header |-> FALSE, addr |-> Zero]
  /\ current = None /\ in_queue = <<>> /\ out_queue = <<>>
  /\ used = {} /\ cleared = FALSE

-----------------------------------------------------------------------------
(* The receiving thread. *)

ClearControl ==
  /\ receiver = "idle" /\ receiver' = "recvmsg"
  /\ control' = [header |-> FALSE, addr |-> Zero]
  /\ UNCHANGED <<current, in_queue, out_queue, sender, used, cleared>>

\* recvmsg copies the packet and its control data.  A client names a server whose
\* reply it has seen, another one, or none.  One query at a time is on its way
\* between recvmsg and the workers.
RecvMsg(q) ==
  /\ receiver = "recvmsg" /\ in_queue = <<>> /\ receiver' = "header"
  /\ control' = [header |-> TRUE, addr |-> q.dst]
  /\ current' = q
  /\ UNCHANGED <<in_queue, out_queue, sender, used, cleared>>

\* The packet goes to the workers with the local address that was found.
Deliver(local) ==
  /\ in_queue' = Append(in_queue, [query |-> current, local |-> local])
  /\ receiver' = "idle" /\ current' = None
  /\ UNCHANGED <<control, out_queue, sender, used, cleared>>

ReadHeader ==
  /\ receiver = "header"
  /\ IF control.header
     THEN receiver' = "addr"
          /\ UNCHANGED <<control, current, in_queue, out_queue, sender, used, cleared>>
     ELSE Deliver(Zero)

ReadAddr == receiver = "addr" /\ Deliver(control.addr)

-----------------------------------------------------------------------------
(* The filters. *)

isRelayed(q) == q.giaddr \notin {Zero, Bcast}

acceptMessageType(q) == q.type \in {"discover", "request", "release", "decline", "inform"}

acceptDirectRequest(q) ==
  isRelayed(q) \/ ~(q.type = "inform" /\ q.src = Zero /\ q.ciaddr = Zero)

\* A socket on 0.0.0.0 would stand for every address of the interface; the
\* configuration names the address of each socket.
hasOpenSocket(addr) == \E i \in DOMAIN Sockets : Sockets[i] = addr

acceptServerId(q) == q.server_id = None \/ hasOpenSocket(q.server_id)

accept(q) == acceptMessageType(q) /\ acceptDirectRequest(q) /\ acceptServerId(q)

\* sanityCheck(FORBIDDEN) throws.
Insane(q) == q.type \in {"discover", "inform"} /\ q.server_id # None

-----------------------------------------------------------------------------
(* The subnet of a query. *)

clientSupported(s, classes) ==
  IF s.white # {} THEN s.white \cap classes # {} ELSE s.black \cap classes = {}

\* selectSubnet(address, classes): the first subnet that holds the address and
\* takes the client.
SubnetOf(addr, classes) ==
  LET fit == {i \in DOMAIN Subnets : addr \in Subnets[i].range /\ clientSupported(Subnets[i], classes)}
  IN IF fit = {} THEN None ELSE Min(fit)

\* selectSubnet(selector).  No subnet has a relay address or an interface of its
\* own: the configuration sets neither.
selectSubnet(q, local) ==
  LET address == IF q.select # Zero THEN q.select
                 ELSE IF q.giaddr # Zero THEN q.giaddr
                 ELSE IF q.ciaddr # Zero /\ local # Bcast THEN q.ciaddr
                 ELSE IF q.src # Zero /\ local # Bcast THEN q.src
                 ELSE IfaceAddr
  IN SubnetOf(address, q.classes)

-----------------------------------------------------------------------------
(* The addresses of a reply. *)

\* adjustRemoteAddr.  The packet filter cannot send to an address that its client
\* does not have yet, whatever the broadcast flag.
RemoteAddr(q, kind, yiaddr) ==
  IF q.type = "inform"
  THEN IF q.ciaddr # Zero THEN q.ciaddr ELSE IF isRelayed(q) THEN q.giaddr ELSE q.src
  ELSE IF isRelayed(q) THEN q.giaddr
  ELSE IF q.ciaddr # Zero THEN q.ciaddr
  ELSE IF kind = "nak" \/ yiaddr # Zero THEN Bcast
  ELSE q.src

\* The address that a reply is sent from, which is its server identifier.
LocalAddr(local) == IF local = Bcast THEN Sockets[1] ELSE local

Reply(r, kind, yiaddr) ==
  [to |-> RemoteAddr(r.query, kind, yiaddr), server_id |-> LocalAddr(r.local)]

Answer(r, kind, yiaddr) == Append(out_queue, Reply(r, kind, yiaddr))

\* What is in the way of an address of a discover or request: the master grants
\* one, grants none, or the query is dropped after its last try.
Allocated(r) == {Answer(r, "nak", Zero), out_queue} \cup
                {Answer(r, "ack", a) : a \in UNION {Subnets[i].range : i \in DOMAIN Subnets}}

\* processPacket, as far as what it puts into the queue of the sending thread.
processPacket ==
  /\ in_queue # <<>> /\ out_queue = <<>>
  /\ in_queue' = Tail(in_queue)
  /\ LET r == Head(in_queue)
         q == r.query
     IN out_queue' \in
          IF ~accept(q) \/ Insane(q) \/ q.type \in {"release", "decline"} THEN {out_queue}
          ELSE IF q.type = "inform"
               THEN {Answer(r, IF SubnetOf(q.ciaddr, q.classes) = None THEN "nak" ELSE "ack", Zero)}
          ELSE IF selectSubnet(q, r.local) = None THEN {Answer(r, "nak", Zero)}
          ELSE Allocated(r)
  /\ used' = used \cup {out_queue'[i].server_id : i \in DOMAIN out_queue'}
  /\ Cardinality(used') <= MaxUsed
  /\ UNCHANGED <<receiver, control, current, sender, cleared>>

-----------------------------------------------------------------------------
(* The sending thread: PktFilterInet::send clears the control buffer, and hands no *)
(* control data to sendmsg (OS_LINUX is defined nowhere).                          *)

Cleared == cleared \/ receiver \in {"header", "addr"}

SendClearsHeader ==
  /\ sender = "idle" /\ out_queue # <<>> /\ sender' = "addr"
  /\ control' = [control EXCEPT !.header = FALSE] /\ cleared' = Cleared
  /\ UNCHANGED <<receiver, current, in_queue, out_queue, used>>

SendClearsAddr ==
  /\ sender = "addr" /\ sender' = "sendmsg"
  /\ control' = [control EXCEPT !.addr = Zero] /\ cleared' = Cleared
  /\ UNCHANGED <<receiver, current, in_queue, out_queue, used>>

SendMsg ==
  /\ sender = "sendmsg" /\ sender' = "idle" /\ out_queue' = Tail(out_queue)
  /\ UNCHANGED <<receiver, control, current, in_queue, used, cleared>>

-----------------------------------------------------------------------------

Query(ids) ==
  [type : Type, dst : Destinations, src : Clients, ciaddr : Clients, giaddr : Relays,
   select : Selects, server_id : ids, classes : SUBSET Class]

Next ==
  \/ ClearControl \/ \E q \in Query(used \cup {None, Foreign}) : RecvMsg(q)
  \/ ReadHeader \/ ReadAddr
  \/ processPacket
  \/ SendClearsHeader \/ SendClearsAddr \/ SendMsg

Spec == Init /\ [][Next]_vars

-----------------------------------------------------------------------------

\* A reply goes to an address: what acceptDirectRequest (server.cpp:322) lets
\* through is enough for adjustRemoteAddr (response_gen.cpp:129), whatever the
\* interleaving and the addresses in the query.
ReplyHasDestination == \A i \in DOMAIN out_queue : out_queue[i].to # Zero

\* The server takes its own identifier back: what a reply named
\* (response_gen.cpp:184) acceptServerId accepts (server.cpp:343), but for 0.0.0.0
\* after a send has cleared the control data of a query.
OwnIdentifierAccepted == \A id \in used : hasOpenSocket(id) \/ (id = Zero /\ cleared)
=============================================================================
