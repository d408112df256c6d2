----------------------------- MODULE HostsInMem ------------------------------
(***************************************************************************)
(* The reservations of the slave (slave/server/hosts_in_mem.cpp, host.cpp):*)
(* a list of hosts that is searched from its beginning, and add, which     *)
(* searches it before it appends.  A host is known by a hardware address   *)
(* or by a DUID.  MaxHosts bounds the model.                               *)
(***************************************************************************)
EXTENDS Naturals, Sequences

CONSTANTS SubnetID,         \* a subnet id is not 0
          HWAddr, DUID, Address,
          None,             \* no identifier; the address 0.0.0.0; no host
          MaxHosts

ASSUME HostsInMemAssumption ==
  None \notin HWAddr \cup DUID \cup Address /\ MaxHosts \in Nat

\* setIdentifier leaves one of the two identifiers.
Host ==
  {h \in [subnet : SubnetID, hwaddr : HWAddr \cup {None}, duid : DUID \cup {None},
          reservation : Address \cup {None}, hostname : BOOLEAN] :
     (h.hwaddr = None) # (h.duid = None)}

VARIABLE hosts

-----------------------------------------------------------------------------
Matches(host, hwaddr, duid) ==
  \/ hwaddr # None /\ host.hwaddr # None /\ host.hwaddr = hwaddr
  \/ duid # None /\ host.duid # None /\ host.duid = duid

getAll(hwaddr, duid) == SelectSeq(hosts, LAMBDA h : Matches(h, hwaddr, duid))

getAll4(address) == SelectSeq(hosts, LAMBDA h : h.reservation = address)

First(list) == IF list = <<>> THEN None ELSE list[1]

get4ByAddress(subnet, address) ==
  First(SelectSeq(hosts, LAMBDA h : h.subnet = subnet /\ h.reservation = address))

get4ByIdentifier(subnet, type, identifier) ==
  First(SelectSeq(hosts, LAMBDA h :
    /\ h.subnet = subnet
    /\ type = IF h.hwaddr # None THEN "HWADDR" ELSE "DUID"
    /\ identifier = IF h.hwaddr # None THEN h.hwaddr ELSE h.duid))

get4(subnet, hwaddr, duid) ==
  First(SelectSeq(hosts, LAMBDA h : h.subnet = subnet /\ Matches(h, hwaddr, duid)))

-----------------------------------------------------------------------------
\* Mutant: only hardware addresses are searched for.
DuplicateByHWAddr(host) ==
  \E i \in DOMAIN hosts : hosts[i].subnet = host.subnet /\ Matches(hosts[i], host.hwaddr, None)

\* get4 finds a host for what is known of the new one.
Duplicate(host) ==
  \E i \in DOMAIN hosts : hosts[i].subnet = host.subnet /\ Matches(hosts[i], host.hwaddr, host.duid)

Reserved(host) ==
  \E i \in DOMAIN hosts : hosts[i].subnet = host.subnet /\ hosts[i].reservation = host.reservation

add(host) ==
  /\ host.hostname \/ host.reservation # None
  /\ ~Duplicate(host)
  /\ host.reservation = None \/ ~Reserved(host)
  /\ hosts' = Append(hosts, host)

Init == hosts = <<>>

Next == Len(hosts) < MaxHosts /\ \E host \in Host : add(host)

Spec == Init /\ [][Next]_hosts

-----------------------------------------------------------------------------
TypeOK == hosts \in Seq(Host)

\* In a subnet no client has two reservations and no address is reserved twice,
\* although an address may be left out and hosts are known by different identifiers.
OneReservation ==
  \A i, j \in DOMAIN hosts :
    i # j /\ hosts[i].subnet = hosts[j].subnet =>
      /\ ~Matches(hosts[i], hosts[j].hwaddr, hosts[j].duid)
      /\ hosts[i].reservation = hosts[j].reservation => hosts[i].reservation = None

\* The searches find the same hosts: the one for a client in a subnet finds the first
\* of all its hosts that is in the subnet, the ones for an identifier and an address the
\* host that has it, and no other one of the subnet has it.
SearchesAgree ==
  \A subnet \in SubnetID :
    LET here(list) == SelectSeq(list, LAMBDA h : h.subnet = subnet)
    IN /\ \A hwaddr \in HWAddr \cup {None}, duid \in DUID \cup {None} :
            /\ get4(subnet, hwaddr, duid) = First(here(getAll(hwaddr, duid)))
            /\ Len(here(getAll(hwaddr, duid))) <= 2
       /\ \A hwaddr \in HWAddr :
            get4ByIdentifier(subnet, "HWADDR", hwaddr) = get4(subnet, hwaddr, None)
       /\ \A duid \in DUID :
            get4ByIdentifier(subnet, "DUID", duid) = get4(subnet, None, duid)
       /\ \A address \in Address :
            /\ get4ByAddress(subnet, address) = First(here(getAll4(address)))
            /\ Len(here(getAll4(address))) <= 1
=============================================================================
