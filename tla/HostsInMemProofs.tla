-------------------------- MODULE HostsInMemProofs ---------------------------
(***************************************************************************)
(* What add guarantees for lists of any length (HostsInMem.tla).           *)
(***************************************************************************)
EXTENDS HostsInMem, TLAPS

\* Two hosts match in one order when they match in the other.
LEMMA MatchesIsSymmetric ==
  ASSUME NEW g \in Host, NEW h \in Host, Matches(g, h.hwaddr, h.duid)
  PROVE  Matches(h, g.hwaddr, g.duid)
  BY DEF Matches, Host

\* add keeps the reservations of a subnet apart: from those that the list had, and from
\* the new one, which was searched for (hosts_in_mem.cpp:113 and 123).
LEMMA AddKeepsApart ==
  ASSUME TypeOK, OneReservation, NEW host \in Host, add(host)
  PROVE  TypeOK' /\ OneReservation'
  <1>1. /\ hosts \in Seq(Host) /\ hosts' = Append(hosts, host) /\ hosts' \in Seq(Host)
        /\ Len(hosts') = Len(hosts) + 1 /\ Len(hosts) \in Nat
        /\ DOMAIN hosts = 1..Len(hosts) /\ DOMAIN hosts' = 1..Len(hosts) + 1
        /\ hosts'[Len(hosts) + 1] = host
        /\ \A i \in 1..Len(hosts) : hosts'[i] = hosts[i] /\ hosts[i] \in Host
    BY DEF TypeOK, add
  <1>2. ASSUME NEW i \in 1..Len(hosts), hosts[i].subnet = host.subnet
        PROVE  /\ ~Matches(hosts[i], host.hwaddr, host.duid)
               /\ ~Matches(host, hosts[i].hwaddr, hosts[i].duid)
               /\ hosts[i].reservation = host.reservation => host.reservation = None
    <2>1. ~Matches(hosts[i], host.hwaddr, host.duid)
      BY <1>1, <1>2 DEF add, Duplicate
    <2>2. ~Matches(host, hosts[i].hwaddr, hosts[i].duid)
      BY <1>1, <2>1, MatchesIsSymmetric
    <2>3. hosts[i].reservation = host.reservation => host.reservation = None
      BY <1>1, <1>2 DEF add, Reserved
    <2> QED
      BY <2>1, <2>2, <2>3
  <1>3. ASSUME NEW i \in DOMAIN hosts', NEW j \in DOMAIN hosts',
               i # j, hosts'[i].subnet = hosts'[j].subnet
        PROVE  /\ ~Matches(hosts'[i], hosts'[j].hwaddr, hosts'[j].duid)
               /\ hosts'[i].reservation = hosts'[j].reservation => hosts'[i].reservation = None
    <2>1. CASE i \in 1..Len(hosts) /\ j \in 1..Len(hosts)
      BY <1>1, <1>3, <2>1 DEF OneReservation
    <2>2. CASE i \in 1..Len(hosts) /\ j = Len(hosts) + 1
      BY <1>1, <1>2, <1>3, <2>2
    <2>3. CASE i = Len(hosts) + 1 /\ j \in 1..Len(hosts)
      BY <1>1, <1>2, <1>3, <2>3
    <2> QED
      BY <1>1, <1>3, <2>1, <2>2, <2>3
  <1>4. OneReservation'
    BY <1>3 DEF OneReservation, Matches
  <1> QED
    BY <1>1, <1>4 DEF TypeOK

\* In a list of any length, for any clients and addresses, no client has two
\* reservations in a subnet and no address is reserved twice.
THEOREM ReservationsAreUnique == Spec => []OneReservation
  <1>1. Init => TypeOK /\ OneReservation
    BY DEF Init, TypeOK, OneReservation
  <1>2. TypeOK /\ OneReservation /\ [Next]_hosts => (TypeOK /\ OneReservation)'
    <2> SUFFICES ASSUME TypeOK, OneReservation, [Next]_hosts
                 PROVE  (TypeOK /\ OneReservation)'
      OBVIOUS
    <2>1. CASE Next
      BY <2>1, AddKeepsApart DEF Next
    <2>2. CASE UNCHANGED hosts
      BY <2>2 DEF TypeOK, OneReservation, Matches
    <2> QED
      BY <2>1, <2>2
  <1> QED
    BY <1>1, <1>2, PTL DEF Spec
=============================================================================
