-------------------------------- MODULE Engine --------------------------------
(***************************************************************************)
(* The decisions of a subnet engine (master/engine.go) with the parts it   *)
(* consults: the subnet's pools (subnet.go), its host reservations         *)
(* (host_in_mem.go) and the address iterator (iterative_allocator.go).     *)
(* An engine is a value; the operators say what each request answers and   *)
(* the store or the iterator position it leaves behind.                    *)
(*                                                                         *)
(* A request is the Context the slave sent: a MAC address (the slave sends *)
(* the hardware address of every packet), a client identifier or none, and *)
(* an address, 0 when the client names none (FromContextMsg never yields a *)
(* nil RequestAddr, so AllocateLease's first test never refuses).          *)
(***************************************************************************)
EXTENDS LeaseStore, Sequences, FiniteSetsExt

CONSTANT NoAddr   \* no address: a MAC without a reservation, no offer

\* The addresses are the numbers from 0 to some largest one.
ASSUME EngineAssumption ==
  /\ NoAddr \notin Addr /\ 0 \in Addr
  /\ \A a \in Addr : 0..a \subseteq Addr

Context == [mac : Mac, client : ClientId \cup {NoClient}, addr : Addr]

Pool == {p \in [start : Addr, end : Addr] : p.start <= p.end}

EngineState == [store    : Store,
                pools    : Seq(Pool),
                reserved : Seq(Pool),                  \* ReservedPools
                managed  : BOOLEAN,                    \* a host manager exists
                hosts    : [Mac -> Addr \cup {NoAddr}],
                ttl      : Nat]                        \* ValidLifeTime

-----------------------------------------------------------------------------
(* Pools and reservations *)

IncludeVal(pool, addr) == pool.start <= addr /\ addr <= pool.end

IncludeAddr(pools, addr) == \E i \in DOMAIN pools : IncludeVal(pools[i], addr)

\* Mutant: a pool from a to b counts b - a addresses.
PoolCapacityOffByOne(pool) == pool.end - pool.start

PoolCapacity(pool) == pool.end - pool.start + 1

\* What the first i pools hold, for every i.
CapacityUpTo(pools) ==
  LET sum[i \in 0..Len(pools)] ==
        IF i = 0 THEN 0 ELSE sum[i - 1] + PoolCapacity(pools[i])
  IN sum

Capacity(pools) == CapacityUpTo(pools)[Len(pools)]

(***************************************************************************)
(* GetHostWithIp walks a Go map and answers with the first host found:   *)
(* any of them when several MACs reserve one address (AddHost only refuses *)
(* a second host for one MAC).  A view gives, for each reserved address,   *)
(* the MAC of the host that is found.                                      *)
(***************************************************************************)
HostViews(e) ==
  LET addrs == {e.hosts[m] : m \in Mac} \ {NoAddr}
  IN {view \in [addrs -> Mac] : \A a \in addrs : e.hosts[view[a]] = a}

addressIsReserved(e, view, addr, mac) ==
  IF addr \in DOMAIN view THEN view[addr] # mac ELSE IncludeAddr(e.reserved, addr)

-----------------------------------------------------------------------------
(* The address iterator: "last" is lastAllocateAddr, 0 before the first pick *)

\* The pool that held the last address is gone: PickAddr dereferences nil.
PickAddrPanics(pools, last) ==
  last # 0 /\ pools # << >> /\ ~IncludeAddr(pools, last)

PickAddr(pools, last) ==
  IF last = 0
  THEN pools[1].start
  ELSE LET i == Min({j \in DOMAIN pools : IncludeVal(pools[j], last)})
       IN IF IncludeVal(pools[i], last + 1)
          THEN last + 1
          ELSE pools[(i % Len(pools)) + 1].start

-----------------------------------------------------------------------------
(* Discover: PlanLease writes nothing but the iterator *)

findOldLease(e, ctx) ==
  IF ctx.client # NoClient /\ e.store.client[ctx.client] # NoLease
  THEN e.store.client[ctx.client]
  ELSE e.store.mac[ctx.mac]

\* allocateLeaseWithAddr answers with a lease, not with ErrWantUsedAddress.
Usable(e, addr, now) ==
  e.store.ip[addr] = NoLease \/ IsExpired(e.store.ip[addr], now)

Offer(addr, last) == [addr |-> addr, last |-> last]

\* The positions of the iterator in the Capacity picks that follow "last".
Picks(pools, last) ==
  LET pick[i \in 0..Capacity(pools)] ==
        IF i = 0 THEN last ELSE PickAddr(pools, pick[i - 1])
  IN pick

\* At most Capacity picks; ErrNoAddressLeft is the offer of NoAddr.
allocateUnreservedLease(e, view, last, ctx, now) ==
  LET n == Capacity(e.pools)
      pick == Picks(e.pools, last)
      good == {i \in 1..n : /\ ~addressIsReserved(e, view, pick[i], ctx.mac)
                            /\ Usable(e, pick[i], now)}
  IN IF good = {}
     THEN Offer(NoAddr, pick[n])
     ELSE Offer(pick[Min(good)], pick[Min(good)])

\* Mutant: the address asked for is offered though no pool has it.
PlannedAddrOutside(e, view, ctx, now) ==
  LET old == findOldLease(e, ctx)
  IN IF old # NoLease
     THEN old.addr
     ELSE IF /\ ~addressIsReserved(e, view, ctx.addr, ctx.mac)
             /\ Usable(e, ctx.addr, now)
     THEN ctx.addr
     ELSE NoAddr

\* The address PlanLease settles on before it turns to the iterator: the
\* reserved one, the client's old one, the one it asks for; or NoAddr.
PlannedAddr(e, view, ctx, now) ==
  LET old == findOldLease(e, ctx)
      reserved == e.hosts[ctx.mac]
  IN IF /\ reserved # NoAddr
        /\ \/ old # NoLease /\ old.addr = reserved
           \/ Usable(e, reserved, now)
     THEN reserved
     ELSE IF old # NoLease
     THEN old.addr
     ELSE IF /\ IncludeAddr(e.pools, ctx.addr)
             /\ ~addressIsReserved(e, view, ctx.addr, ctx.mac)
             /\ Usable(e, ctx.addr, now)
     THEN ctx.addr
     ELSE NoAddr

\* view and view2 are the answers of GetHostWithIp before and in the loop.
PlanLease(e, view, view2, last, ctx, now) ==
  LET planned == PlannedAddr(e, view, ctx, now)
  IN IF planned # NoAddr
     THEN Offer(planned, last)
     ELSE allocateUnreservedLease(e, view2, last, ctx, now)

PlanPanics(e, view, last, ctx, now) ==
  /\ PlannedAddr(e, view, ctx, now) = NoAddr
  /\ PickAddrPanics(e.pools, last)

-----------------------------------------------------------------------------
(* Request *)

\* Mutant: ErrWantUsedAddress is not returned.
AllocateRefusedUnlessUsed(e, view, ctx, now) ==
  \/ addressIsReserved(e, view, ctx.addr, ctx.mac)
  \/ ~IncludeAddr(e.pools, ctx.addr)

\* Mutant: ErrWantAddressInOtherSubnet is not returned.
AllocateRefusedAnywhere(e, view, ctx, now) ==
  LET old == findOldLease(e, ctx)
  IN \/ addressIsReserved(e, view, ctx.addr, ctx.mac)
     \/ (old = NoLease \/ old.addr # ctx.addr) /\ ~Usable(e, ctx.addr, now)

\* The errors of AllocateLease: ErrWantReservedAddress, ErrNotWantReservedAddr,
\* ErrWantAddressInOtherSubnet and ErrWantUsedAddress.
AllocateRefused(e, view, ctx, now) ==
  LET old == findOldLease(e, ctx)
      reserved == e.hosts[ctx.mac]
  IN \/ addressIsReserved(e, view, ctx.addr, ctx.mac)
     \/ /\ reserved \notin {NoAddr, ctx.addr}
        /\ \/ Usable(e, reserved, now)
           \/ e.store.ip[reserved].mac = ctx.mac
     \/ /\ old = NoLease \/ old.addr # ctx.addr
        /\ \/ reserved = NoAddr /\ ~IncludeAddr(e.pools, ctx.addr)
           \/ ~Usable(e, ctx.addr, now)

\* What renewLease and allocateLeaseWithAddr fill in.
renewLease(e, ctx, now) == [addr   |-> ctx.addr,
                            state  |-> "Normal",
                            client |-> ctx.client,
                            mac    |-> ctx.mac,
                            last   |-> now,
                            valid  |-> e.ttl]

\* Mutant: the client's lease of another address is kept.
AllocateLeaseKeepingOld(e, ctx, now) ==
  UpdateLease(e.store, renewLease(e, ctx, now))

\* The store after a request that is not refused: the lease of the address is
\* added or replaced, then the client's lease of another address is deleted.
AllocateLease(e, ctx, now) ==
  LET old == findOldLease(e, ctx)
      granted == UpdateLease(e.store, renewLease(e, ctx, now))
  IN IF old # NoLease /\ old.addr # ctx.addr
     THEN DeleteLease(granted, old.addr)
     ELSE granted

-----------------------------------------------------------------------------
(* Release, decline and conflict reports *)

\* The client's lease is the one it names (no ErrRelaseNotExistAddr,
\* ErrRelaseOthersAddr, ErrDeclineNotExistAddr, ErrDeclineOhtersAddr).
NamesItsLease(e, ctx) ==
  findOldLease(e, ctx) # NoLease /\ findOldLease(e, ctx).addr = ctx.addr

ReleaseLease(e, ctx) == DeleteLease(e.store, ctx.addr)

DeclineLease(e, ctx, now) ==
  UpdateLease(e.store, Declined(findOldLease(e, ctx), now))

\* Mutant: only an address that somebody holds is declined.
DeclineConflictIPLeasedOnly(e, addr, now) ==
  IF e.store.ip[addr] = NoLease
  THEN e.store
  ELSE UpdateLease(e.store, Declined(e.store.ip[addr], now))

\* Whoever holds the address, or nobody, it is declined.
DeclineConflictIP(e, addr, now) ==
  IF e.store.ip[addr] = NoLease
  THEN AddLease(e.store, [addr   |-> addr,
                          state  |-> "Declined",
                          client |-> NoClient,
                          mac    |-> NoMac,
                          last   |-> now,
                          valid  |-> e.ttl])
  ELSE UpdateLease(e.store, Declined(e.store.ip[addr], now))
=============================================================================
