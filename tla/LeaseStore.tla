------------------------------ MODULE LeaseStore ------------------------------
(***************************************************************************)
(* The in-memory lease store of one subnet (master/lease_in_mem.go): a map *)
(* from addresses to leases and two indexes over it, by MAC address and by *)
(* client identifier.  A store is a value; the operations return the store *)
(* they leave behind.                                                      *)
(*                                                                         *)
(* The maps of the code hold pointers to Lease objects.  No Lease object   *)
(* is written after it is put in a store (renewLease and Decline copy), so *)
(* a pointer is modelled by the record it points to: an index may hold a   *)
(* record that the address map no longer holds, and IndexSound says that   *)
(* it never does.                                                          *)
(*                                                                         *)
(* Every lease of a store carries the id of the subnet that owns the       *)
(* store, so the SubnetId field, and the test of it in DeleteLease, are    *)
(* left out.  So are the host name and the renew and rebind times, which   *)
(* nothing reads back.                                                     *)
(***************************************************************************)
EXTENDS Integers

CONSTANTS Addr,      \* IPv4 addresses, as numbers in host byte order
          Mac,       \* hardware addresses
          ClientId,  \* non-empty client identifiers
          NoMac,     \* the nil hardware address
          NoClient,  \* the nil (or empty) client identifier
          NoLease    \* the nil *Lease

ASSUME LeaseStoreAssumption ==
  /\ Addr \subseteq Nat
  /\ NoMac \notin Mac
  /\ NoClient \notin ClientId

\* LeaseState: ExpiredReclaimed exists in the code but is never assigned.
LeaseState == {"Normal", "Declined"}

Lease == [addr   : Addr,
          state  : LeaseState,
          client : ClientId \cup {NoClient},
          mac    : Mac \cup {NoMac},
          last   : Nat,    \* ClientLastTransTime
          valid  : Nat]    \* ValidLifeTime

ASSUME NoLeaseAssumption == NoLease \notin Lease

Store == [ip     : [Addr -> Lease \cup {NoLease}],
          mac    : [Mac -> Lease \cup {NoLease}],
          client : [ClientId -> Lease \cup {NoLease}]]

newLeaseStore == [ip     |-> [a \in Addr |-> NoLease],
                  mac    |-> [m \in Mac |-> NoLease],
                  client |-> [c \in ClientId |-> NoLease]]

IsExpired(lease, now) == lease.last + lease.valid < now

Declined(lease, now) == [lease EXCEPT !.state = "Declined",
                                      !.last = now,
                                      !.client = NoClient,
                                      !.mac = NoMac]

\* Refuses an address that is taken; otherwise the indexes are overwritten.
AddLease(store, lease) ==
  IF store.ip[lease.addr] # NoLease
  THEN store
  ELSE [ip     |-> [store.ip EXCEPT ![lease.addr] = lease],
        mac    |-> [m \in Mac |->
                      IF m = lease.mac THEN lease ELSE store.mac[m]],
        client |-> [c \in ClientId |->
                      IF c = lease.client THEN lease ELSE store.client[c]]]

(***************************************************************************)
(* Deletes the leases of a set of addresses: DeleteLease of each of them   *)
(* in any order.  DeleteLease of an address clears the index entries under *)
(* the keys of its lease, and only those that still lead to that address.  *)
(***************************************************************************)
DeleteLeases(store, addrs) ==
  LET Doomed(entry) == /\ entry # NoLease
                       /\ entry.addr \in addrs
                       /\ store.ip[entry.addr] # NoLease
  IN [ip     |-> [a \in Addr |-> IF a \in addrs THEN NoLease ELSE store.ip[a]],
      mac    |-> [m \in Mac |->
                    IF /\ Doomed(store.mac[m])
                       /\ store.ip[store.mac[m].addr].mac = m
                    THEN NoLease ELSE store.mac[m]],
      client |-> [c \in ClientId |->
                    IF /\ Doomed(store.client[c])
                       /\ store.ip[store.client[c].addr].client = c
                    THEN NoLease ELSE store.client[c]]]

DeleteLease(store, addr) == DeleteLeases(store, {addr})

UpdateLease(store, lease) == AddLease(DeleteLease(store, lease.addr), lease)

-----------------------------------------------------------------------------
(***************************************************************************)
(* What the two lookups of the engine rely on.                             *)
(***************************************************************************)

\* An index entry is the lease the store holds at that lease's address, and
\* that lease bears the key it is found under: no lookup by MAC or by client
\* identifier (lease_in_mem.go:37-45) answers with a lease that was deleted,
\* renewed for someone else or declined.
StoreIndexSound(store) ==
  /\ \A m \in Mac : store.mac[m] # NoLease =>
       /\ store.mac[m].mac = m
       /\ store.ip[store.mac[m].addr] = store.mac[m]
  /\ \A c \in ClientId : store.client[c] # NoLease =>
       /\ store.client[c].client = c
       /\ store.ip[store.client[c].addr] = store.client[c]

\* Every lease that bears a client identifier is the one its lookup answers
\* with; so no client identifier holds two leases of a subnet.
StoreClientUnique(store) ==
  \A a \in Addr : (store.ip[a] # NoLease /\ store.ip[a].client # NoClient) =>
    store.client[store.ip[a].client] = store.ip[a]

\* A lease is filed under its own address.
StoreKeyed(store) == \A a \in Addr : store.ip[a] # NoLease => store.ip[a].addr = a
=============================================================================
