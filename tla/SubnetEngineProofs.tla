-------------------------- MODULE SubnetEngineProofs --------------------------
(***************************************************************************)
(* The safety of a subnet engine, for every set of addresses, clients,     *)
(* pools and reservations, and an unbounded clock.                         *)
(***************************************************************************)
EXTENDS SubnetEngine, TLAPS, WellFoundedInduction

-----------------------------------------------------------------------------
(* What the three operations of the lease store preserve.  UniqueExcept is the *)
(* state AllocateLease leaves between granting the new lease and deleting the  *)
(* old one: one address may hold a lease its client's lookup no longer finds.  *)

StoreSound(store) == StoreKeyed(store) /\ StoreIndexSound(store)

UniqueExcept(store, spared) ==
  \A a \in Addr \ spared :
    (store.ip[a] # NoLease /\ store.ip[a].client # NoClient) =>
      store.client[store.ip[a].client] = store.ip[a]

\* The empty store of newLeaseStore (lease_in_mem.go:24-30) is well formed.
LEMMA EmptyStore ==
  /\ newLeaseStore \in Store
  /\ StoreSound(newLeaseStore)
  /\ StoreClientUnique(newLeaseStore)
  BY DEF newLeaseStore, Store, StoreSound, StoreKeyed, StoreIndexSound,
         StoreClientUnique

\* AddLease (lease_in_mem.go:56-72) keeps the shape of the store.
LEMMA AddLeaseType ==
  ASSUME NEW s \in Store, NEW l \in Lease
  PROVE  AddLease(s, l) \in Store
  BY DEF AddLease, Store, Lease

\* DeleteLease (lease_in_mem.go:79-97) keeps the shape of the store.
LEMMA DeleteLeasesType ==
  ASSUME NEW s \in Store, NEW A
  PROVE  DeleteLeases(s, A) \in Store
  BY DEF DeleteLeases, Store

\* UpdateLease (lease_in_mem.go:74-77) keeps the shape of the store.
LEMMA UpdateLeaseType ==
  ASSUME NEW s \in Store, NEW l \in Lease
  PROVE  UpdateLease(s, l) \in Store
  BY AddLeaseType, DeleteLeasesType DEF UpdateLease, DeleteLease

\* AddLease keeps both indexes sound: it only fills an address that is free,
\* so no other index entry leads to it.
LEMMA AddLeaseSound ==
  ASSUME NEW s \in Store, StoreSound(s), NEW l \in Lease
  PROVE  StoreSound(AddLease(s, l))
<1> DEFINE t == AddLease(s, l)
<1>1. CASE s.ip[l.addr] # NoLease
  BY <1>1 DEF AddLease
<1>2. CASE s.ip[l.addr] = NoLease
  <2>1. /\ t.ip = [s.ip EXCEPT ![l.addr] = l]
        /\ \A m \in Mac : t.mac[m] = IF m = l.mac THEN l ELSE s.mac[m]
        /\ \A c \in ClientId :
             t.client[c] = IF c = l.client THEN l ELSE s.client[c]
    BY <1>2 DEF AddLease
  <2>2. l.addr \in Addr /\ l # NoLease
    BY NoLeaseAssumption DEF Lease
  <2>3. StoreKeyed(t)
    BY <2>1, <2>2 DEF StoreSound, StoreKeyed, Store
  <2>4. StoreIndexSound(t)
    BY <1>2, <2>1, <2>2 DEF StoreSound, StoreIndexSound, Store, Lease
  <2> QED BY <2>3, <2>4 DEF StoreSound
<1> QED BY <1>1, <1>2

\* DeleteLease keeps both indexes sound: the entries it must clear are exactly
\* the ones filed under the keys of the leases it deletes.
LEMMA DeleteLeasesSound ==
  ASSUME NEW s \in Store, StoreSound(s), NEW A
  PROVE  StoreSound(DeleteLeases(s, A))
<1> DEFINE t == DeleteLeases(s, A)
<1>1. \A a \in Addr : t.ip[a] = IF a \in A THEN NoLease ELSE s.ip[a]
  BY DEF DeleteLeases
<1>2. \A m \in Mac : t.mac[m] # NoLease =>
        t.mac[m] = s.mac[m] /\ s.mac[m].addr \notin A
  BY DEF DeleteLeases, StoreSound, StoreIndexSound
<1>3. \A c \in ClientId : t.client[c] # NoLease =>
        t.client[c] = s.client[c] /\ s.client[c].addr \notin A
  BY DEF DeleteLeases, StoreSound, StoreIndexSound
<1>4. StoreKeyed(t)
  BY <1>1 DEF StoreSound, StoreKeyed
<1>5. StoreIndexSound(t)
  BY <1>1, <1>2, <1>3 DEF StoreSound, StoreIndexSound, Store, Lease
<1> QED BY <1>4, <1>5 DEF StoreSound

\* UpdateLease keeps both indexes sound.
LEMMA UpdateLeaseSound ==
  ASSUME NEW s \in Store, StoreSound(s), NEW l \in Lease
  PROVE  StoreSound(UpdateLease(s, l))
  BY AddLeaseSound, DeleteLeasesSound, DeleteLeasesType
  DEF UpdateLease, DeleteLease

\* The address map after UpdateLease: the lease is in, the rest is untouched.
LEMMA UpdateLeaseContent ==
  ASSUME NEW s \in Store, NEW l \in Lease
  PROVE  /\ UpdateLease(s, l).ip = [s.ip EXCEPT ![l.addr] = l]
         /\ \A c \in ClientId :
              UpdateLease(s, l).client[c] =
                IF c = l.client THEN l ELSE DeleteLease(s, l.addr).client[c]
<1> DEFINE d == DeleteLease(s, l.addr)
<1>1. d \in Store
  BY DeleteLeasesType DEF DeleteLease
<1>2. l.addr \in Addr /\ d.ip = [s.ip EXCEPT ![l.addr] = NoLease]
  BY DEF DeleteLease, DeleteLeases, Lease, Store
<1> QED BY <1>1, <1>2 DEF UpdateLease, AddLease, Store

\* DeleteLease takes an address out of the exception set: what is deleted
\* needs no sparing, and the lookups of the other clients are left alone.
LEMMA DeleteLeasesUnique ==
  ASSUME NEW s \in Store, StoreSound(s), NEW A, UniqueExcept(s, A)
  PROVE  StoreClientUnique(DeleteLeases(s, A))
<1> DEFINE t == DeleteLeases(s, A)
<1> SUFFICES ASSUME NEW a \in Addr, t.ip[a] # NoLease,
                    t.ip[a].client # NoClient
             PROVE  t.client[t.ip[a].client] = t.ip[a]
  BY DEF StoreClientUnique
<1>1. a \notin A /\ t.ip[a] = s.ip[a]
  BY DEF DeleteLeases
<1>2. s.ip[a] \in Lease /\ s.ip[a].addr = a /\ s.ip[a].client \in ClientId
  BY <1>1 DEF StoreSound, StoreKeyed, Store, Lease
<1>3. s.client[s.ip[a].client] = s.ip[a]
  BY <1>1 DEF UniqueExcept
<1> QED BY <1>1, <1>2, <1>3 DEF DeleteLeases

\* UpdateLease keeps one lease per client identifier, save at the addresses of
\* A, when only they (and the updated address) may hold the identifier.
LEMMA UpdateLeaseUnique ==
  ASSUME NEW s \in Store, StoreSound(s), StoreClientUnique(s),
         NEW l \in Lease, NEW A,
         \A a \in Addr \ A : (s.ip[a] # NoLease /\ a # l.addr
                                /\ l.client # NoClient)
                               => s.ip[a].client # l.client
  PROVE  UniqueExcept(UpdateLease(s, l), A)
<1> DEFINE t == UpdateLease(s, l)
           d == DeleteLease(s, l.addr)
<1> SUFFICES ASSUME NEW a \in Addr \ A, t.ip[a] # NoLease,
                    t.ip[a].client # NoClient
             PROVE  t.client[t.ip[a].client] = t.ip[a]
  BY DEF UniqueExcept
<1>1. t.ip = [s.ip EXCEPT ![l.addr] = l]
      /\ \A c \in ClientId : t.client[c] = IF c = l.client THEN l ELSE d.client[c]
  BY UpdateLeaseContent
<1>2. l.addr \in Addr /\ (l.client # NoClient => l.client \in ClientId)
  BY DEF Lease
<1>3. CASE a = l.addr
  BY <1>1, <1>2, <1>3 DEF Store
<1>4. CASE a # l.addr
  <2>1. t.ip[a] = s.ip[a]
    BY <1>1, <1>4 DEF Store
  <2>2. s.ip[a].client \in ClientId /\ s.ip[a].client # l.client
    BY <2>1, <1>4 DEF Store, Lease
  <2>3. StoreClientUnique(d)
    BY DeleteLeasesUnique DEF DeleteLease, StoreClientUnique, UniqueExcept
  <2>4. d.ip[a] = s.ip[a]
    BY <1>4 DEF DeleteLease, DeleteLeases
  <2> QED BY <1>1, <2>1, <2>2, <2>3, <2>4 DEF StoreClientUnique
<1> QED BY <1>3, <1>4

\* AddLease of a lease that bears no client identifier leaves every client's
\* lookup alone.
LEMMA AddLeaseUnique ==
  ASSUME NEW s \in Store, StoreSound(s), StoreClientUnique(s),
         NEW l \in Lease, l.client = NoClient
  PROVE  StoreClientUnique(AddLease(s, l))
<1>1. CASE s.ip[l.addr] # NoLease
  BY <1>1 DEF AddLease
<1>2. CASE s.ip[l.addr] = NoLease
  <2> DEFINE t == AddLease(s, l)
  <2>1. /\ t.ip = [s.ip EXCEPT ![l.addr] = l]
        /\ \A c \in ClientId : t.client[c] = s.client[c]
    BY <1>2, LeaseStoreAssumption DEF AddLease
  <2>2. \A a \in Addr : (s.ip[a] # NoLease /\ s.ip[a].client # NoClient)
                          => s.ip[a].client \in ClientId
    BY DEF Store, Lease
  <2> QED BY <2>1, <2>2 DEF StoreClientUnique, Store
<1> QED BY <1>1, <1>2

\* The address map after DeleteLease.
LEMMA DeleteLeasesContent ==
  ASSUME NEW s, NEW A
  PROVE  \A a \in Addr :
           DeleteLeases(s, A).ip[a] = IF a \in A THEN NoLease ELSE s.ip[a]
  BY DEF DeleteLeases

-----------------------------------------------------------------------------
(* The invariant *)

\* The strengthening that is inductive: the indexes must be sound for the
\* lookup of a client identifier to find the one lease that bears it.
StoreInv(store) == StoreSound(store) /\ StoreClientUnique(store)

Inv == TypeOK /\ StoreInv(engine.store) /\ ReservedPoolOnlyForHosts

\* What every operation but a granted request does to the address map: a lease
\* is kept, deleted or declined.
GrantsNothing(s, t) ==
  \A a \in Addr : t.ip[a] \in {NoLease, s.ip[a]} \/ t.ip[a].state = "Declined"

-----------------------------------------------------------------------------
(* Sequences of pools *)

\* The order of the naturals, as the relation the induction library uses.
LEMMA LessRelation == \A x, y \in Nat : x < y => <<x, y>> \in OpToRel(<, Nat)
<1> TAKE x, y \in Nat
<1> HAVE x < y
<1>1. <<x, y>>[1] = x /\ <<x, y>>[2] = y
  OBVIOUS
<1>2. <<x, y>> \in Nat \X Nat
  OBVIOUS
<1> QED BY <1>1, <1>2, Zenon DEF OpToRel

\* The least element of a set of positions is one of them.
LEMMA MinElement ==
  ASSUME NEW S \in SUBSET Nat, S # {}
  PROVE  Min(S) \in S
<1>1. PICK x \in S : \A y \in S : ~(<<y, x>> \in OpToRel(<, Nat))
  BY WFMin, NatLessThanWellFounded, Zenon
<1>2. \A y \in S : ~(y < x)
  BY <1>1, LessRelation, Zenon
<1>3. \A y \in S : x <= y
  BY <1>2
<1> QED BY <1>3 DEF Min

\* Every element of a concatenation comes from one of its parts.
LEMMA ConcatElement ==
  ASSUME NEW S, NEW l \in Seq(S), NEW r \in Seq(S), NEW k \in DOMAIN (l \o r)
  PROVE  \/ \E j \in DOMAIN l : (l \o r)[k] = l[j]
         \/ \E j \in DOMAIN r : (l \o r)[k] = r[j]
<1>1. k \in 1..(Len(l) + Len(r))
  OBVIOUS
<1>2. CASE k <= Len(l)
  BY <1>1, <1>2
<1>3. CASE k > Len(l)
  <2>1. k - Len(l) \in DOMAIN r /\ (l \o r)[k] = r[k - Len(l)]
    BY <1>1, <1>3
  <2> QED BY <2>1
<1> QED BY <1>1, <1>2, <1>3

\* deletePoolFromPools (subnet_command.go:325-337) leaves a list of pools, all
\* of which were there before.
LEMMA WithoutPoolType ==
  ASSUME NEW pools \in Seq(Pool), NEW pool, HasPool(pools, pool)
  PROVE  /\ WithoutPool(pools, pool) \in Seq(Pool)
         /\ \A a \in Addr : IncludeAddr(WithoutPool(pools, pool), a)
                              => IncludeAddr(pools, a)
<1> DEFINE S == {j \in DOMAIN pools : pools[j] = pool}
           i == Min(S)
           left == SubSeq(pools, 1, i - 1)
           right == SubSeq(pools, i + 1, Len(pools))
<1>1. i \in 1..Len(pools)
  <2>1. S \in SUBSET Nat /\ S # {} /\ S \subseteq 1..Len(pools)
    BY DEF HasPool
  <2> QED BY <2>1, MinElement
<1> HIDE DEF i
<1>2. left \in Seq(Pool) /\ Len(left) = i - 1
      /\ \A k \in 1..(i - 1) : left[k] = pools[k]
  BY <1>1
<1>3. right \in Seq(Pool) /\ Len(right) = Len(pools) - i
      /\ \A k \in 1..(Len(pools) - i) : right[k] = pools[k + i]
  BY <1>1
<1> HIDE DEF left, right
<1>4. left \o right \in Seq(Pool)
  BY <1>2, <1>3
<1>5. \A k \in DOMAIN (left \o right) : \E j \in DOMAIN pools :
        (left \o right)[k] = pools[j]
  <2> SUFFICES ASSUME NEW k \in DOMAIN (left \o right)
               PROVE  \E j \in DOMAIN pools : (left \o right)[k] = pools[j]
    OBVIOUS
  <2>1. CASE \E j \in DOMAIN left : (left \o right)[k] = left[j]
    BY <1>1, <1>2, <2>1
  <2>2. CASE \E j \in DOMAIN right : (left \o right)[k] = right[j]
    <3>1. PICK j \in DOMAIN right : (left \o right)[k] = right[j]
      BY <2>2
    <3>2. j \in 1..(Len(pools) - i) /\ j + i \in DOMAIN pools
      BY <1>1, <1>3
    <3> QED BY <1>3, <3>1, <3>2
  <2> QED BY <1>2, <1>3, <2>1, <2>2, ConcatElement
<1>6. WithoutPool(pools, pool) = left \o right
  BY DEF WithoutPool, i, left, right
<1> QED BY <1>4, <1>5, <1>6 DEF IncludeAddr

\* A pool appended to a list adds its own addresses and no others.
LEMMA AppendPool ==
  ASSUME NEW pools \in Seq(Pool), NEW pool \in Pool
  PROVE  /\ Append(pools, pool) \in Seq(Pool)
         /\ \A a \in Addr : IncludeAddr(Append(pools, pool), a)
                              => IncludeAddr(pools, a) \/ IncludeVal(pool, a)
  BY DEF IncludeAddr

-----------------------------------------------------------------------------
(* The address iterator *)

\* A set that holds 0 and the successor of each of its members holds every
\* natural number.
LEMMA SetInduction ==
  ASSUME NEW S, 0 \in S, \A k \in Nat : k \in S => k + 1 \in S
  PROVE  \A k \in Nat : k \in S
<1> DEFINE D == {k \in Nat : k \notin S}
<1>1. SUFFICES ASSUME D # {} PROVE FALSE
  OBVIOUS
<1>2. D \in SUBSET Nat
  OBVIOUS
<1>3. PICK x \in D : \A y \in D : ~(<<y, x>> \in OpToRel(<, Nat))
  BY <1>1, <1>2, WFMin, NatLessThanWellFounded, Zenon
<1>4. \A y \in D : ~(y < x)
  BY <1>3, LessRelation, Zenon
<1>5. x \in Nat /\ x # 0 /\ x \notin S
  OBVIOUS
<1>6. x - 1 \in Nat /\ x - 1 < x /\ (x - 1) + 1 = x
  BY <1>5
<1>7. x - 1 \in S
  BY <1>4, <1>6
<1> QED BY <1>5, <1>6, <1>7

\* The bounds of a pool are numbers, in order, and it lies inside Addr.
LEMMA PoolBounds ==
  ASSUME NEW pools \in Seq(Pool), NEW i \in 1..Len(pools)
  PROVE  /\ pools[i].start \in Nat /\ pools[i].end \in Nat
         /\ pools[i].start <= pools[i].end
         /\ \A a \in Nat : a <= pools[i].end => a \in Addr
<1>1. pools[i] \in Pool
  OBVIOUS
<1>2. pools[i].start \in Addr /\ pools[i].end \in Addr
      /\ pools[i].start <= pools[i].end
  BY <1>1 DEF Pool
<1>3. \A a \in Nat : a <= pools[i].end => a \in 0..pools[i].end
  BY <1>2, LeaseStoreAssumption
<1> QED BY <1>2, <1>3, LeaseStoreAssumption, EngineAssumption

\* GetCapacity (subnet.go:75-82) adds the pools up one after the other.
LEMMA CapacityUnfolds ==
  ASSUME NEW pools \in Seq(Pool)
  PROVE  /\ CapacityUpTo(pools)[0] = 0
         /\ \A i \in 1..Len(pools) :
              CapacityUpTo(pools)[i] =
                CapacityUpTo(pools)[i - 1] + PoolCapacity(pools[i])
<1> DEFINE Def(f, k) ==
             f = [i \in 0..k |-> IF i = 0 THEN 0
                                 ELSE f[i - 1] + PoolCapacity(pools[i])]
           S == {k \in Nat : \E f : Def(f, k)}
<1>1. 0 \in S
  <2>1. Def([i \in 0..0 |-> 0], 0)
    OBVIOUS
  <2> QED BY <2>1
<1>2. ASSUME NEW k \in Nat, k \in S PROVE k + 1 \in S
  <2>1. PICK f : Def(f, k)
    BY <1>2
  <2> DEFINE g == [i \in 0..(k + 1) |->
                     IF i <= k THEN f[i] ELSE f[k] + PoolCapacity(pools[k + 1])]
  <2>2. ASSUME NEW i \in 0..(k + 1)
        PROVE  g[i] = IF i = 0 THEN 0 ELSE g[i - 1] + PoolCapacity(pools[i])
    <3>1. CASE i <= k
      BY <2>1, <3>1
    <3>2. CASE i = k + 1
      BY <3>2
    <3> QED BY <3>1, <3>2
  <2>3. Def(g, k + 1)
    BY <2>2, Zenon
  <2> HIDE DEF g, Def
  <2> QED BY <2>3
<1>3. Len(pools) \in S
  <2> HIDE DEF S
  <2> QED BY <1>1, <1>2, SetInduction
<1>4. \E f : Def(f, Len(pools))
  BY <1>3
<1>5. Def(CapacityUpTo(pools), Len(pools))
  <2>1. CapacityUpTo(pools) = CHOOSE f : Def(f, Len(pools))
    BY DEF CapacityUpTo
  <2> HIDE DEF Def
  <2> QED BY <1>4, <2>1
<1> HIDE DEF S
<1> DEFINE c == CapacityUpTo(pools)
<1>6. \A i \in 0..Len(pools) :
        c[i] = IF i = 0 THEN 0 ELSE c[i - 1] + PoolCapacity(pools[i])
  <2> HIDE DEF c
  <2>1. Def(c, Len(pools))
    BY <1>5 DEF c
  <2> QED BY <2>1
<1> HIDE DEF c, Def
<1>7. c[0] = 0
  BY <1>6
<1>8. \A i \in 1..Len(pools) : c[i] = c[i - 1] + PoolCapacity(pools[i])
  BY <1>6
<1> QED BY <1>7, <1>8 DEF c

\* The sums are numbers, and grow with every pool.
LEMMA CapacityGrows ==
  ASSUME NEW pools \in Seq(Pool)
  PROVE  /\ \A i \in 0..Len(pools) : CapacityUpTo(pools)[i] \in Nat
         /\ \A i, j \in 0..Len(pools) :
              i <= j => CapacityUpTo(pools)[i] <= CapacityUpTo(pools)[j]
<1> DEFINE c == CapacityUpTo(pools)
           S == {k \in Nat : k <= Len(pools) =>
                   c[k] \in Nat /\ \A i \in 0..k : c[i] \in Nat /\ c[i] <= c[k]}
<1>1. ASSUME NEW i \in 1..Len(pools) PROVE PoolCapacity(pools[i]) \in Nat
  BY PoolBounds DEF PoolCapacity
<1>2. c[0] = 0 /\ \A i \in 1..Len(pools) : c[i] = c[i - 1] + PoolCapacity(pools[i])
  BY CapacityUnfolds
<1> HIDE DEF c
<1>3. 0 \in S
  BY <1>2
<1>4. ASSUME NEW k \in Nat, k \in S PROVE k + 1 \in S
  <2> SUFFICES ASSUME k + 1 <= Len(pools)
               PROVE  /\ c[k + 1] \in Nat
                      /\ \A i \in 0..(k + 1) : c[i] \in Nat /\ c[i] <= c[k + 1]
    OBVIOUS
  <2>1. c[k] \in Nat /\ \A i \in 0..k : c[i] \in Nat /\ c[i] <= c[k]
    BY <1>4
  <2>2. c[k + 1] = c[k] + PoolCapacity(pools[k + 1])
        /\ PoolCapacity(pools[k + 1]) \in Nat
    <3>1. k + 1 \in 1..Len(pools) /\ (k + 1) - 1 = k
      OBVIOUS
    <3> QED BY <1>1, <1>2, <3>1
  <2>3. c[k + 1] \in Nat /\ c[k] <= c[k + 1]
    BY <2>1, <2>2
  <2>4. ASSUME NEW i \in 0..(k + 1) PROVE c[i] \in Nat /\ c[i] <= c[k + 1]
    <3>1. CASE i = k + 1
      BY <2>3, <3>1
    <3>2. CASE i \in 0..k
      BY <2>1, <2>3, <3>2
    <3> QED BY <3>1, <3>2
  <2> QED BY <2>3, <2>4
<1>5. \A k \in Nat : k \in S
  <2> HIDE DEF S
  <2> QED BY <1>3, <1>4, SetInduction
<1>6. \A i \in 0..Len(pools) : c[i] \in Nat
  BY <1>5
<1>7. \A i, j \in 0..Len(pools) : i <= j => c[i] <= c[j]
  BY <1>5
<1> QED BY <1>6, <1>7 DEF c
\* x is the address number t of the pools, counted from 0 through the pools in
\* their order.
Position(pools, x, t) ==
  \E i \in 1..Len(pools) :
    /\ x \in Nat /\ IncludeVal(pools[i], x)
    /\ t = CapacityUpTo(pools)[i - 1] + (x - pools[i].start)

\* The number of an address of a pool lies below the capacity.
LEMMA InsidePool ==
  ASSUME NEW low \in Nat, NEW high \in Nat, NEW all \in Nat,
         NEW start \in Nat, NEW end \in Nat, NEW y \in Nat,
         high <= all, high = low + (end - start + 1), start <= y, y <= end
  PROVE  low + (y - start) \in 0..(all - 1)
  OBVIOUS

\* The numbers run from 0 to the capacity, and every address of a pool has one.
LEMMA PositionRange ==
  ASSUME NEW pools \in Seq(Pool)
  PROVE  /\ Capacity(pools) \in Nat
         /\ \A x, t : Position(pools, x, t) => t \in 0..(Capacity(pools) - 1)
         /\ \A x \in Nat : IncludeAddr(pools, x) => \E t : Position(pools, x, t)
<1> DEFINE c == CapacityUpTo(pools)
<1>1. /\ c[0] = 0
      /\ \A i \in 1..Len(pools) : c[i] = c[i - 1] + PoolCapacity(pools[i])
      /\ \A i \in 0..Len(pools) : c[i] \in Nat
      /\ \A i, j \in 0..Len(pools) : i <= j => c[i] <= c[j]
  BY CapacityUnfolds, CapacityGrows
<1>2. Capacity(pools) = c[Len(pools)]
  BY DEF Capacity
<1>3. \A x, t : Position(pools, x, t) <=>
        \E i \in 1..Len(pools) : /\ x \in Nat /\ IncludeVal(pools[i], x)
                                 /\ t = c[i - 1] + (x - pools[i].start)
  BY DEF Position
<1> HIDE DEF c
<1>4. Capacity(pools) \in Nat
  BY <1>1, <1>2
<1>5. ASSUME NEW x, NEW t, Position(pools, x, t)
      PROVE  t \in 0..(Capacity(pools) - 1)
  <2>1. PICK i \in 1..Len(pools) : /\ x \in Nat /\ IncludeVal(pools[i], x)
                                   /\ t = c[i - 1] + (x - pools[i].start)
    BY <1>3, <1>5
  <2>2. i - 1 \in 0..Len(pools) /\ i \in 0..Len(pools)
        /\ Len(pools) \in 0..Len(pools) /\ i <= Len(pools)
    OBVIOUS
  <2>3. c[i - 1] \in Nat /\ c[i] \in Nat /\ c[i] <= c[Len(pools)]
        /\ c[i] = c[i - 1] + (pools[i].end - pools[i].start + 1)
    BY <1>1, <2>2 DEF PoolCapacity
  <2>4. pools[i].start \in Nat /\ pools[i].end \in Nat
    BY PoolBounds
  <2>6. pools[i].start <= x /\ x <= pools[i].end
    BY <2>1 DEF IncludeVal
  <2> QED BY <1>2, <1>4, <2>1, <2>3, <2>4, <2>6, InsidePool
<1>6. ASSUME NEW x \in Nat, IncludeAddr(pools, x)
      PROVE  \E t : Position(pools, x, t)
  <2>1. PICK i \in 1..Len(pools) : IncludeVal(pools[i], x)
    BY <1>6 DEF IncludeAddr
  <2> QED BY <1>3, <2>1
<1> QED BY <1>4, <1>5, <1>6

\* No two addresses have the same number.
LEMMA PositionInjective ==
  ASSUME NEW pools \in Seq(Pool), NEW x, NEW y, NEW t,
         Position(pools, x, t), Position(pools, y, t)
  PROVE  x = y
<1> DEFINE c == CapacityUpTo(pools)
<1>1. /\ \A i \in 1..Len(pools) : c[i] = c[i - 1] + PoolCapacity(pools[i])
      /\ \A i \in 0..Len(pools) : c[i] \in Nat
      /\ \A i, j \in 0..Len(pools) : i <= j => c[i] <= c[j]
  BY CapacityUnfolds, CapacityGrows
<1>2. PICK i \in 1..Len(pools) : /\ x \in Nat /\ IncludeVal(pools[i], x)
                                 /\ t = c[i - 1] + (x - pools[i].start)
  BY DEF Position
<1>3. PICK j \in 1..Len(pools) : /\ y \in Nat /\ IncludeVal(pools[j], y)
                                 /\ t = c[j - 1] + (y - pools[j].start)
  BY DEF Position
<1> HIDE DEF c
<1>4. /\ i - 1 \in 0..Len(pools) /\ i \in 0..Len(pools)
      /\ j - 1 \in 0..Len(pools) /\ j \in 0..Len(pools)
  OBVIOUS
<1>5. /\ c[i - 1] \in Nat /\ c[i] = c[i - 1] + (pools[i].end - pools[i].start + 1)
      /\ c[j - 1] \in Nat /\ c[j] = c[j - 1] + (pools[j].end - pools[j].start + 1)
  BY <1>1, <1>4 DEF PoolCapacity
<1>6. /\ pools[i].start \in Nat /\ pools[i].end \in Nat
      /\ pools[j].start \in Nat /\ pools[j].end \in Nat
  BY PoolBounds
<1>7. i <= j - 1 => c[i] <= c[j - 1]
  BY <1>1, <1>4
<1>8. j <= i - 1 => c[j] <= c[i - 1]
  BY <1>1, <1>4
<1>9. i = j \/ i <= j - 1 \/ j <= i - 1
  OBVIOUS
<1>14. /\ pools[i].start <= x /\ x <= pools[i].end /\ x \in Nat
       /\ pools[j].start <= y /\ y <= pools[j].end /\ y \in Nat
       /\ c[i - 1] + (x - pools[i].start) = c[j - 1] + (y - pools[j].start)
  BY <1>2, <1>3 DEF IncludeVal
<1>15. c[i] \in Nat /\ c[j] \in Nat
  BY <1>1, <1>4
<1>16. PICK low \in Nat, high \in Nat, start \in Nat, end \in Nat :
         /\ low = c[i - 1] /\ high = c[i]
         /\ start = pools[i].start /\ end = pools[i].end
  BY <1>5, <1>6, <1>15
<1>17. PICK low2 \in Nat, high2 \in Nat, start2 \in Nat, end2 \in Nat :
         /\ low2 = c[j - 1] /\ high2 = c[j]
         /\ start2 = pools[j].start /\ end2 = pools[j].end
  BY <1>5, <1>6, <1>15
<1>18. /\ start <= x /\ x <= end /\ start2 <= y /\ y <= end2
       /\ x \in Nat /\ y \in Nat
       /\ low + (x - start) = low2 + (y - start2)
       /\ high = low + (end - start + 1) /\ high2 = low2 + (end2 - start2 + 1)
  BY <1>5, <1>14, <1>16, <1>17
<1>10. CASE i = j
  <2>1. low = low2 /\ start = start2
    BY <1>10, <1>16, <1>17
  <2> QED BY <1>18, <2>1
<1>11. CASE i <= j - 1
  <2>1. high <= low2
    BY <1>7, <1>11, <1>16, <1>17
  <2> QED BY <1>18, <2>1
<1>12. CASE j <= i - 1
  <2>1. high2 <= low
    BY <1>8, <1>12, <1>16, <1>17
  <2> QED BY <1>18, <2>1
<1> QED BY <1>9, <1>10, <1>11, <1>12

\* (lastPoolIndex + 1) % poolCount is the next pool, and the first after the last.
LEMMA NextPool ==
  ASSUME NEW n \in Nat, NEW i \in 1..n
  PROVE  (i % n) + 1 = IF i = n THEN 1 ELSE i + 1
  OBVIOUS

\* Pools that do not overlap: the pool PickAddr finds an address in is the only
\* one that has it.
LEMMA OnlyPool ==
  ASSUME NEW pools \in Seq(Pool), PoolsDisjoint(pools), NEW x \in Nat,
         NEW i \in 1..Len(pools), IncludeVal(pools[i], x)
  PROVE  Min({j \in DOMAIN pools : IncludeVal(pools[j], x)}) = i
<1> DEFINE S == {j \in DOMAIN pools : IncludeVal(pools[j], x)}
<1>1. S \in SUBSET Nat /\ i \in S /\ DOMAIN pools = 1..Len(pools)
  OBVIOUS
<1>2. Min(S) \in S
  BY <1>1, MinElement
<1>3. ASSUME NEW j \in S PROVE j = i
  <2>1. /\ pools[i].start \in Nat /\ pools[i].end \in Nat
        /\ pools[j].start \in Nat /\ pools[j].end \in Nat
    BY <1>1, PoolBounds
  <2>2. j # i => pools[i].end < pools[j].start \/ pools[j].end < pools[i].start
    BY <1>1 DEF PoolsDisjoint
  <2> QED BY <2>1, <2>2 DEF IncludeVal
<1> HIDE DEF S
<1>4. Min(S) = i
  BY <1>2, <1>3
<1> QED BY <1>4 DEF S

\* The first pick after the iterator was created is the first address.
LEMMA FirstPick ==
  ASSUME NEW pools \in Seq(Pool), pools # << >>
  PROVE  /\ Position(pools, PickAddr(pools, 0), 0)
         /\ PickAddr(pools, 0) = pools[1].start
<1>1. 1 \in 1..Len(pools)
  OBVIOUS
<1>2. pools[1].start \in Nat /\ pools[1].end \in Nat
      /\ pools[1].start <= pools[1].end
  BY <1>1, PoolBounds
<1>3. CapacityUpTo(pools)[1 - 1] = 0
  BY CapacityUnfolds
<1>4. PickAddr(pools, 0) = pools[1].start
  BY DEF PickAddr
<1>5. PickAddr(pools, 0) \in Nat /\ IncludeVal(pools[1], PickAddr(pools, 0))
  BY <1>2, <1>4 DEF IncludeVal
<1>6. 0 = CapacityUpTo(pools)[1 - 1] + (PickAddr(pools, 0) - pools[1].start)
  BY <1>2, <1>3, <1>4
<1> QED BY <1>1, <1>4, <1>5, <1>6 DEF Position

\* PickAddr (iterative_allocator.go:21-54) moves to the address with the next
\* number, and from the last one to the first.
LEMMA PickAdvances ==
  ASSUME NEW pools \in Seq(Pool), PoolsDisjoint(pools),
         NEW x, NEW t, x # 0, Position(pools, x, t)
  PROVE  Position(pools, PickAddr(pools, x),
                  IF t + 1 = Capacity(pools) THEN 0 ELSE t + 1)
<1> DEFINE c == CapacityUpTo(pools)
           y == PickAddr(pools, x)
<1>1. PICK i \in 1..Len(pools) : /\ x \in Nat /\ IncludeVal(pools[i], x)
                                 /\ t = c[i - 1] + (x - pools[i].start)
  BY DEF Position
<1>2. y = IF IncludeVal(pools[i], x + 1) THEN x + 1
          ELSE pools[(i % Len(pools)) + 1].start
  <2>1. Min({j \in DOMAIN pools : IncludeVal(pools[j], x)}) = i
    BY <1>1, OnlyPool
  <2> QED BY <2>1 DEF PickAddr
<1>3. \A u, v : Position(pools, u, v) =>
        v \in Nat /\ v + 1 <= Capacity(pools)
  <2>1. Capacity(pools) \in Nat
        /\ \A u, v : Position(pools, u, v) => v \in 0..(Capacity(pools) - 1)
    BY PositionRange
  <2> QED BY <2>1
<1>4. pools[i].start \in Nat /\ pools[i].end \in Nat
  BY PoolBounds
<1>5. c[i - 1] \in Nat /\ c[i] \in Nat
      /\ c[i] = c[i - 1] + (pools[i].end - pools[i].start + 1)
  <2>1. i - 1 \in 0..Len(pools) /\ i \in 0..Len(pools)
    OBVIOUS
  <2> QED BY <2>1, CapacityUnfolds, CapacityGrows DEF PoolCapacity
<1>6. \A j \in 1..Len(pools), u \in Nat : \A v :
        (IncludeVal(pools[j], u) /\ v = c[j - 1] + (u - pools[j].start))
        => Position(pools, u, v)
  BY DEF Position
<1>7. Capacity(pools) = c[Len(pools)] /\ Capacity(pools) \in Nat /\ c[0] = 0
  BY PositionRange, CapacityUnfolds DEF Capacity
<1>8. t \in Nat
  BY <1>3
<1> HIDE DEF c, y
<1>9. PICK low \in Nat, high \in Nat, start \in Nat, end \in Nat :
        /\ low = c[i - 1] /\ high = c[i]
        /\ start = pools[i].start /\ end = pools[i].end
  BY <1>4, <1>5
<1>10. /\ high = low + (end - start + 1) /\ t = low + (x - start)
       /\ start <= x /\ x <= end /\ x \in Nat
  BY <1>1, <1>5, <1>9 DEF IncludeVal
<1>11. CASE x < end
  <2>1. IncludeVal(pools[i], x + 1) /\ x + 1 \in Nat
    <3>1. start <= x + 1 /\ x + 1 <= end /\ x + 1 \in Nat
      BY <1>10, <1>11
    <3> QED BY <1>9, <3>1 DEF IncludeVal
  <2>2. y = x + 1
    BY <1>2, <2>1
  <2>3. t + 1 = low + ((x + 1) - start)
    BY <1>8, <1>10
  <2>4. Position(pools, y, t + 1)
    BY <1>6, <1>9, <2>1, <2>2, <2>3
  <2>5. t + 1 # Capacity(pools)
    BY <1>3, <1>7, <1>8, <2>4
  <2> QED BY <2>4, <2>5 DEF y
<1>12. CASE x = end
  <2>1. ~IncludeVal(pools[i], x + 1)
    BY <1>9, <1>10, <1>12 DEF IncludeVal
  <2>2. t + 1 = high
    BY <1>8, <1>10, <1>12
  <2>3. y = pools[(i % Len(pools)) + 1].start
    BY <1>2, <2>1
  <2>4. CASE i = Len(pools)
    <3>1. y = pools[1].start
      <4>1. (i % Len(pools)) + 1 = 1
        BY <2>4, NextPool
      <4> QED BY <2>3, <4>1
    <3>2. pools # << >>
      OBVIOUS
    <3>3. Position(pools, y, 0)
      BY <3>1, <3>2, FirstPick
    <3>4. t + 1 = Capacity(pools)
      BY <1>7, <1>9, <2>2, <2>4
    <3> QED BY <3>3, <3>4 DEF y
  <2>5. CASE i # Len(pools)
    <3>1. i + 1 \in 1..Len(pools) /\ (i + 1) - 1 = i
      BY <2>5
    <3>2. y = pools[i + 1].start
      <4>1. (i % Len(pools)) + 1 = i + 1
        BY <2>5, NextPool
      <4> QED BY <2>3, <4>1
    <3>3. y \in Nat /\ IncludeVal(pools[i + 1], y)
      BY <3>1, <3>2, PoolBounds DEF IncludeVal
    <3>4. t + 1 = c[i] + (y - pools[i + 1].start)
      BY <1>9, <2>2, <3>2, <3>3
    <3>5. Position(pools, y, t + 1)
      BY <1>6, <3>1, <3>3, <3>4
    <3>6. t + 1 # Capacity(pools)
      BY <1>3, <1>7, <1>8, <3>5
    <3> QED BY <3>5, <3>6 DEF y
  <2> QED BY <2>4, <2>5
<1> QED BY <1>10, <1>11, <1>12

\* The picks of allocateUnreservedLease (engine.go:187-198) follow one another.
LEMMA PicksUnfold ==
  ASSUME NEW pools \in Seq(Pool), NEW last
  PROVE  /\ Picks(pools, last)[0] = last
         /\ \A k \in 1..Capacity(pools) :
              Picks(pools, last)[k] = PickAddr(pools, Picks(pools, last)[k - 1])
<1> DEFINE n == Capacity(pools)
           Def(f, k) == f = [i \in 0..k |-> IF i = 0 THEN last
                                            ELSE PickAddr(pools, f[i - 1])]
           S == {k \in Nat : \E f : Def(f, k)}
<1>0. n \in Nat
  BY PositionRange
<1>1. 0 \in S
  <2>1. Def([i \in 0..0 |-> last], 0)
    OBVIOUS
  <2> QED BY <2>1
<1>2. ASSUME NEW k \in Nat, k \in S PROVE k + 1 \in S
  <2>1. PICK f : Def(f, k)
    BY <1>2
  <2> DEFINE g == [i \in 0..(k + 1) |->
                     IF i <= k THEN f[i] ELSE PickAddr(pools, f[k])]
  <2>2. ASSUME NEW i \in 0..(k + 1)
        PROVE  g[i] = IF i = 0 THEN last ELSE PickAddr(pools, g[i - 1])
    <3>1. CASE i <= k
      <4>1. f[i] = IF i = 0 THEN last ELSE PickAddr(pools, f[i - 1])
        BY <2>1, <3>1
      <4>2. g[i] = f[i] /\ (i # 0 => g[i - 1] = f[i - 1])
        BY <3>1
      <4> HIDE DEF g
      <4> QED BY <4>1, <4>2
    <3>2. CASE i = k + 1
      <4>1. g[i] = PickAddr(pools, f[k]) /\ g[i - 1] = f[k] /\ i # 0
        BY <3>2
      <4> HIDE DEF g
      <4> QED BY <4>1
    <3> QED BY <3>1, <3>2
  <2>3. Def(g, k + 1)
    BY <2>2, Zenon
  <2> HIDE DEF g, Def
  <2> QED BY <2>3
<1>3. n \in S
  <2> HIDE DEF S, n
  <2> QED BY <1>0, <1>1, <1>2, SetInduction
<1>4. \E f : Def(f, n)
  BY <1>3
<1> DEFINE p == Picks(pools, last)
<1>5. Def(p, n)
  <2>1. p = CHOOSE f : Def(f, n)
    BY DEF Picks
  <2> HIDE DEF Def, p
  <2> QED BY <1>4, <2>1
<1> HIDE DEF S, n, p
<1>6. \A i \in 0..n : p[i] = IF i = 0 THEN last ELSE PickAddr(pools, p[i - 1])
  BY <1>5
<1> HIDE DEF Def
<1>7. p[0] = last
  BY <1>0, <1>6
<1>8. \A k \in 1..n : p[k] = PickAddr(pools, p[k - 1])
  BY <1>0, <1>6
<1> QED BY <1>7, <1>8 DEF p, n

\* The iterator finds the pool of its last address, or has none yet: it does
\* not dereference nil.
Placed(pools, last) == last = 0 \/ IncludeAddr(pools, last)

\* Whether or not pools overlap, a pick is an address of a pool.
LEMMA PickInPool ==
  ASSUME NEW pools \in Seq(Pool), pools # << >>, NEW x \in Nat, Placed(pools, x)
  PROVE  PickAddr(pools, x) \in Addr /\ IncludeAddr(pools, PickAddr(pools, x))
<1>1. \A j \in 1..Len(pools) :
        pools[j].start \in Addr /\ IncludeAddr(pools, pools[j].start)
  <2> SUFFICES ASSUME NEW j \in 1..Len(pools)
               PROVE  pools[j].start \in Addr /\ IncludeAddr(pools, pools[j].start)
    OBVIOUS
  <2>1. /\ pools[j].start \in Nat /\ pools[j].start <= pools[j].end
        /\ pools[j].start \in Addr
    BY PoolBounds
  <2> QED BY <2>1 DEF IncludeAddr, IncludeVal
<1>2. CASE x = 0
  <2>1. 1 \in 1..Len(pools)
    OBVIOUS
  <2> QED BY <1>1, <1>2, <2>1, FirstPick
<1>3. CASE x # 0
  <2> DEFINE S == {j \in DOMAIN pools : IncludeVal(pools[j], x)}
             i == Min(S)
  <2>1. i \in S
    <3>1. S \in SUBSET Nat /\ S # {}
      BY <1>3 DEF Placed, IncludeAddr
    <3> QED BY <3>1, MinElement
  <2>2. PickAddr(pools, x) = IF IncludeVal(pools[i], x + 1) THEN x + 1
                             ELSE pools[(i % Len(pools)) + 1].start
    BY <1>3 DEF PickAddr
  <2>3. i \in 1..Len(pools)
    BY <2>1
  <2> HIDE DEF i, S
  <2>4. CASE IncludeVal(pools[i], x + 1)
    <3>1. x + 1 \in Nat /\ x + 1 <= pools[i].end
      BY <2>4 DEF IncludeVal
    <3>2. x + 1 \in Addr
      BY <2>3, <3>1, PoolBounds
    <3> QED BY <2>2, <2>3, <2>4, <3>2 DEF IncludeAddr
  <2>5. CASE ~IncludeVal(pools[i], x + 1)
    <3>1. (i % Len(pools)) + 1 \in 1..Len(pools)
      <4>1. Len(pools) \in Nat
        OBVIOUS
      <4>2. (i % Len(pools)) + 1 = IF i = Len(pools) THEN 1 ELSE i + 1
        BY <2>3, <4>1, NextPool, Zenon
      <4> QED BY <2>3, <4>2
    <3> QED BY <1>1, <2>2, <2>5, <3>1
  <2> QED BY <2>4, <2>5
<1> QED BY <1>2, <1>3

\* Every pick of the loop of allocateUnreservedLease is an address of a pool.
LEMMA PicksInPools ==
  ASSUME NEW pools \in Seq(Pool), NEW last \in Nat, Placed(pools, last)
  PROVE  \A k \in 1..Capacity(pools) :
           /\ Picks(pools, last)[k] \in Addr
           /\ IncludeAddr(pools, Picks(pools, last)[k])
<1> DEFINE n == Capacity(pools)
           p == Picks(pools, last)
           S == {k \in Nat : k <= n =>
                   /\ p[k] \in Nat /\ Placed(pools, p[k])
                   /\ k # 0 => p[k] \in Addr /\ IncludeAddr(pools, p[k])}
<1>1. n \in Nat /\ p[0] = last
      /\ \A k \in 1..n : p[k] = PickAddr(pools, p[k - 1])
  BY PositionRange, PicksUnfold
<1>2. n # 0 => pools # << >>
  <2>1. pools = << >> => Len(pools) = 0
    OBVIOUS
  <2> QED BY <2>1, CapacityUnfolds DEF Capacity
<1> HIDE DEF n, p
<1>3. 0 \in S
  BY <1>1
<1>4. ASSUME NEW k \in Nat, k \in S PROVE k + 1 \in S
  <2> SUFFICES ASSUME k + 1 <= n
               PROVE  /\ p[k + 1] \in Nat /\ Placed(pools, p[k + 1])
                      /\ p[k + 1] \in Addr /\ IncludeAddr(pools, p[k + 1])
    OBVIOUS
  <2>1. k + 1 \in 1..n /\ (k + 1) - 1 = k /\ n # 0 /\ k <= n
    BY <1>1
  <2>2. p[k + 1] = PickAddr(pools, p[k]) /\ p[k] \in Nat /\ Placed(pools, p[k])
    BY <1>1, <1>4, <2>1
  <2>3. p[k + 1] \in Addr /\ IncludeAddr(pools, p[k + 1])
    BY <1>2, <2>1, <2>2, PickInPool
  <2> QED BY <2>3, LeaseStoreAssumption DEF Placed
<1>5. \A k \in Nat : k \in S
  <2> HIDE DEF S
  <2> QED BY <1>3, <1>4, SetInduction
<1>6. \A k \in 1..n : p[k] \in Addr /\ IncludeAddr(pools, p[k])
  BY <1>1, <1>5
<1> QED BY <1>6 DEF n, p

\* Capacity picks visit every address of pools that do not overlap and do not
\* hold 0: the picks run through the numbers from some t1 on, around the end.
LEMMA PicksVisitAll ==
  ASSUME NEW pools \in Seq(Pool), PoolsDisjoint(pools), ~IncludeAddr(pools, 0),
         NEW last \in Nat, Placed(pools, last),
         NEW a \in Nat, IncludeAddr(pools, a)
  PROVE  \E k \in 1..Capacity(pools) : Picks(pools, last)[k] = a
<1> DEFINE n == Capacity(pools)
           p == Picks(pools, last)
<1>1. n \in Nat /\ p[0] = last
      /\ \A k \in 1..n : p[k] = PickAddr(pools, p[k - 1])
  BY PositionRange, PicksUnfold
<1>2. \A x, t : Position(pools, x, t) => t \in 0..(n - 1)
  BY PositionRange
<1>3. PICK ta : Position(pools, a, ta)
  BY PositionRange
<1>4. \A x, t : Position(pools, x, t) /\ x # 0 =>
        Position(pools, PickAddr(pools, x), IF t + 1 = n THEN 0 ELSE t + 1)
  BY PickAdvances
<1>5. \A k \in 1..n : p[k] # 0
  <2>1. \A k \in 1..n : IncludeAddr(pools, p[k])
    BY PicksInPools
  <2> HIDE DEF n, p
  <2> QED BY <2>1
<1>6. \E t : Position(pools, PickAddr(pools, last), t)
  <2>1. CASE last = 0
    <3>1. pools # << >>
      BY DEF IncludeAddr
    <3> QED BY <2>1, <3>1, FirstPick
  <2>2. CASE last # 0
    <3>1. PICK t : Position(pools, last, t)
      BY <2>2, PositionRange DEF Placed
    <3> QED BY <1>4, <2>2, <3>1
  <2> QED BY <2>1, <2>2
<1> HIDE DEF n, p
<1>7. ta \in 0..(n - 1) /\ 1 \in 1..n
  BY <1>1, <1>2, <1>3
<1>8. PICK t1 : Position(pools, p[1], t1)
  BY <1>1, <1>6, <1>7
<1>9. t1 \in 0..(n - 1)
  BY <1>2, <1>8
<1> DEFINE At(k) == IF t1 + (k - 1) < n THEN t1 + (k - 1) ELSE t1 + (k - 1) - n
           S == {m \in Nat : m + 1 <= n => Position(pools, p[m + 1], At(m + 1))}
<1>10. 0 \in S
  <2>1. At(0 + 1) = t1
    BY <1>1, <1>9
  <2> HIDE DEF At
  <2> QED BY <1>8, <2>1
<1>11. ASSUME NEW m \in Nat, m \in S PROVE m + 1 \in S
  <2> SUFFICES ASSUME (m + 1) + 1 <= n
               PROVE  Position(pools, p[(m + 1) + 1], At((m + 1) + 1))
    OBVIOUS
  <2>1. /\ m + 1 \in 1..n /\ (m + 1) + 1 \in 1..n
        /\ ((m + 1) + 1) - 1 = m + 1 /\ m + 1 <= n
    BY <1>1
  <2>2. Position(pools, p[m + 1], At(m + 1))
    BY <1>11, <2>1
  <2>3. At((m + 1) + 1) = IF At(m + 1) + 1 = n THEN 0 ELSE At(m + 1) + 1
    BY <1>1, <1>9
  <2> HIDE DEF At
  <2>4. p[(m + 1) + 1] = PickAddr(pools, p[m + 1]) /\ p[m + 1] # 0
    BY <1>1, <1>5, <2>1
  <2> QED BY <1>4, <2>2, <2>3, <2>4
<1>12. \A m \in Nat : m \in S
  <2> HIDE DEF S
  <2> QED BY <1>10, <1>11, SetInduction
<1>13. \E m \in Nat : m + 1 <= n /\ At(m + 1) = ta
  <2>1. CASE t1 <= ta
    <3>1. /\ ta - t1 \in Nat /\ (ta - t1) + 1 <= n /\ At((ta - t1) + 1) = ta
      BY <1>1, <1>7, <1>9, <2>1
    <3> QED BY <3>1
  <2>2. CASE ta < t1
    <3>1. /\ (n - t1) + ta \in Nat /\ ((n - t1) + ta) + 1 <= n
          /\ At(((n - t1) + ta) + 1) = ta
      BY <1>1, <1>7, <1>9, <2>2
    <3> QED BY <3>1
  <2> QED BY <1>7, <1>9, <2>1, <2>2
<1>14. PICK m \in Nat : m + 1 <= n /\ At(m + 1) = ta
  BY <1>13
<1>15. Position(pools, p[m + 1], ta)
  BY <1>12, <1>14
<1>16. p[m + 1] = a
  BY <1>3, <1>15, PositionInjective
<1>17. m + 1 \in 1..n
  BY <1>1, <1>14
<1> QED BY <1>16, <1>17 DEF n, p

\* Whatever iterator sequence is walked, the position the loop of
\* allocateUnreservedLease (engine.go:187-198) stops at satisfies its test.
LEMMA FirstGood ==
  ASSUME NEW n, NEW good \in SUBSET (1..n), good # {}
  PROVE  Min(good) \in good
  BY MinElement

\* The loop of allocateUnreservedLease (engine.go:187-198) offers an address of
\* a pool that passes both its tests, or nothing when none of its picks does;
\* the iterator stays where it was or stops at an address.
LEMMA AllocateUnreserved ==
  ASSUME NEW e \in EngineState, NEW view, NEW last \in Addr, NEW ctx, NEW t,
         ~PickAddrPanics(e.pools, last)
  PROVE  LET offer == allocateUnreservedLease(e, view, last, ctx, t)
             n == Capacity(e.pools)
             pick == Picks(e.pools, last)
         IN /\ offer.last \in Addr
            /\ offer.addr # NoAddr =>
                 IncludeAddr(e.pools, offer.addr) /\ Usable(e, offer.addr, t)
            /\ offer.addr = NoAddr =>
                 \A k \in 1..n : \/ addressIsReserved(e, view, pick[k], ctx.mac)
                                 \/ ~Usable(e, pick[k], t)
<1> DEFINE offer == allocateUnreservedLease(e, view, last, ctx, t)
           n == Capacity(e.pools)
           pick == Picks(e.pools, last)
           good == {i \in 1..n : /\ ~addressIsReserved(e, view, pick[i], ctx.mac)
                                 /\ Usable(e, pick[i], t)}
<1>1. e.pools \in Seq(Pool) /\ last \in Nat
  BY LeaseStoreAssumption DEF EngineState
<1>2. n \in Nat /\ pick[0] = last
  BY <1>1, PositionRange, PicksUnfold
<1>3. \A k \in 1..n : pick[k] \in Addr /\ IncludeAddr(e.pools, pick[k])
  <2>1. CASE e.pools = << >>
    <3>1. Len(e.pools) = 0
      BY <2>1
    <3>2. n = 0
      BY <1>1, <3>1, CapacityUnfolds DEF Capacity
    <3> QED BY <3>2
  <2>2. CASE e.pools # << >>
    <3>1. Placed(e.pools, last)
      BY <2>2 DEF PickAddrPanics, Placed
    <3> QED BY <1>1, <3>1, PicksInPools
  <2> QED BY <2>1, <2>2
<1>4. offer = IF good = {} THEN Offer(NoAddr, pick[n])
              ELSE Offer(pick[Min(good)], pick[Min(good)])
  BY DEF allocateUnreservedLease
<1>5. good # {} => Min(good) \in good
  <2>1. good \in SUBSET (1..n)
    OBVIOUS
  <2> QED BY <2>1, FirstGood
<1>6. \A i \in good : i \in 1..n /\ Usable(e, pick[i], t)
  OBVIOUS
<1>7. \A i \in 1..n : i \notin good => \/ addressIsReserved(e, view, pick[i], ctx.mac)
                                       \/ ~Usable(e, pick[i], t)
  OBVIOUS
<1>8. pick[n] \in Addr
  <2>1. n = 0 \/ n \in 1..n
    BY <1>2
  <2> QED BY <1>2, <1>3, <2>1
<1> HIDE DEF offer, n, pick, good
<1>9. CASE good = {}
  <2>1. offer.addr = NoAddr /\ offer.last = pick[n]
    BY <1>4, <1>9 DEF Offer
  <2> QED BY <1>7, <1>8, <1>9, <2>1 DEF offer, n, pick
<1>10. CASE good # {}
  <2>1. offer.addr = pick[Min(good)] /\ offer.last = pick[Min(good)]
    BY <1>4, <1>10 DEF Offer
  <2>2. Min(good) \in 1..n /\ Usable(e, pick[Min(good)], t)
    BY <1>5, <1>6, <1>10
  <2>3. offer.addr \in Addr /\ IncludeAddr(e.pools, offer.addr)
        /\ Usable(e, offer.addr, t) /\ offer.last \in Addr
    BY <1>3, <2>1, <2>2
  <2> QED BY <2>3, EngineAssumption DEF offer
<1> QED BY <1>9, <1>10

-----------------------------------------------------------------------------
(* The engine's operations on the store *)

\* findOldLease (engine.go:77-88) answers with a lease that is in the store and
\* that bears the MAC or the identifier of the client; and with the lease of
\* the client's identifier when there is one.
LEMMA OldLease ==
  ASSUME NEW e \in EngineState, StoreInv(e.store), NEW ctx \in Context
  PROVE  LET old == findOldLease(e, ctx) IN
         /\ old # NoLease =>
              /\ old \in Lease
              /\ e.store.ip[old.addr] = old
              /\ SameClient(old, ctx.mac, ctx.client)
         /\ \A a \in Addr : (/\ e.store.ip[a] # NoLease
                             /\ ctx.client # NoClient
                             /\ e.store.ip[a].client = ctx.client)
                            => old = e.store.ip[a]
<1> DEFINE s == e.store
<1>1. /\ s \in Store
      /\ ctx.mac \in Mac
      /\ ctx.client \in ClientId \cup {NoClient}
  BY DEF EngineState, Context
<1>2. /\ s.mac[ctx.mac] \in Lease \cup {NoLease}
      /\ ctx.client # NoClient => s.client[ctx.client] \in Lease \cup {NoLease}
  BY <1>1 DEF Store
<1>3. CASE ctx.client # NoClient /\ s.client[ctx.client] # NoLease
  BY <1>1, <1>2, <1>3 DEF findOldLease, StoreInv, StoreSound, StoreIndexSound,
     StoreClientUnique, SameClient
<1>4. CASE ~(ctx.client # NoClient /\ s.client[ctx.client] # NoLease)
  BY <1>1, <1>2, <1>4 DEF findOldLease, StoreInv, StoreSound, StoreIndexSound,
     StoreClientUnique, SameClient
<1> QED BY <1>3, <1>4

\* A granted request (engine.go:109-124) leaves a well-formed store in which
\* the new lease is the only one that is not as it was.
LEMMA AllocateLeaseInv ==
  ASSUME NEW e \in EngineState, StoreInv(e.store), NEW ctx \in Context,
         NEW t \in Nat
  PROVE  LET s == AllocateLease(e, ctx, t)
         IN /\ s \in Store
            /\ StoreInv(s)
            /\ s.ip[ctx.addr] = renewLease(e, ctx, t)
            /\ \A a \in Addr \ {ctx.addr} : s.ip[a] \in {NoLease, e.store.ip[a]}
<1> DEFINE s0 == e.store
           new == renewLease(e, ctx, t)
           old == findOldLease(e, ctx)
           s1 == UpdateLease(s0, new)
<1>1. s0 \in Store /\ new \in Lease /\ new.addr = ctx.addr
      /\ new.client = ctx.client /\ ctx.addr \in Addr
  BY DEF EngineState, Context, renewLease, Lease, LeaseState
<1> HIDE DEF new
<1>2. s1 \in Store /\ StoreSound(s1) /\ s1.ip = [s0.ip EXCEPT ![ctx.addr] = new]
  <2>1. s1 \in Store
    BY <1>1, UpdateLeaseType
  <2>2. StoreSound(s1)
    BY <1>1, UpdateLeaseSound DEF StoreInv
  <2>3. s1.ip = [s0.ip EXCEPT ![new.addr] = new]
    BY <1>1, UpdateLeaseContent
  <2> QED BY <1>1, <2>1, <2>2, <2>3
<1>3. CASE old # NoLease /\ old.addr # ctx.addr
  <2>1. AllocateLease(e, ctx, t) = DeleteLeases(s1, {old.addr})
    BY <1>3 DEF AllocateLease, DeleteLease, new
  <2>2. \A a \in Addr \ {old.addr} : (/\ s0.ip[a] # NoLease /\ a # new.addr
                                      /\ new.client # NoClient)
                                     => s0.ip[a].client # new.client
    BY <1>1, OldLease DEF StoreInv, StoreSound, StoreKeyed
  <2>3. UniqueExcept(s1, {old.addr})
    BY <1>1, <2>2, UpdateLeaseUnique DEF StoreInv
  <2>4. DeleteLeases(s1, {old.addr}) \in Store
        /\ StoreInv(DeleteLeases(s1, {old.addr}))
    BY <1>2, <2>3, DeleteLeasesType, DeleteLeasesSound, DeleteLeasesUnique
    DEF StoreInv
  <2>5. \A a \in Addr : DeleteLeases(s1, {old.addr}).ip[a]
                           = IF a = old.addr THEN NoLease ELSE s1.ip[a]
    BY DeleteLeasesContent
  <2>6. /\ s1.ip[ctx.addr] = new
        /\ \A a \in Addr \ {ctx.addr} : s1.ip[a] = s0.ip[a]
    BY <1>1, <1>2 DEF Store
  <2> QED BY <1>1, <1>3, <2>1, <2>4, <2>5, <2>6 DEF new
<1>4. CASE ~(old # NoLease /\ old.addr # ctx.addr)
  <2>1. AllocateLease(e, ctx, t) = s1
    BY <1>4 DEF AllocateLease, new
  <2>2. \A a \in Addr \ {} : (/\ s0.ip[a] # NoLease /\ a # new.addr
                              /\ new.client # NoClient)
                             => s0.ip[a].client # new.client
    BY <1>1, <1>4, OldLease DEF StoreInv, StoreSound, StoreKeyed
  <2>3. UniqueExcept(s1, {})
    BY <1>1, <2>2, UpdateLeaseUnique DEF StoreInv
  <2>4. StoreInv(s1)
    BY <1>2, <2>3 DEF StoreInv, UniqueExcept, StoreClientUnique
  <2> QED BY <1>1, <1>2, <2>1, <2>4 DEF Store, new
<1> QED BY <1>3, <1>4

\* Marking a lease declined (Lease.Decline, lease.go:41-48, stored by
\* UpdateLease) takes it from its client and changes no other.
LEMMA UpdateDeclined ==
  ASSUME NEW s \in Store, StoreInv(s), NEW l \in Lease, NEW t \in Nat
  PROVE  LET u == UpdateLease(s, Declined(l, t))
         IN u \in Store /\ StoreInv(u) /\ GrantsNothing(s, u)
<1> DEFINE d == Declined(l, t)
           u == UpdateLease(s, d)
<1>1. d \in Lease /\ d.client = NoClient /\ d.state = "Declined"
  BY DEF Declined, Lease, LeaseState
<1> HIDE DEF d
<1>2. u \in Store
  BY <1>1, UpdateLeaseType
<1>3. StoreSound(u)
  BY <1>1, UpdateLeaseSound DEF StoreInv
<1>4. UniqueExcept(u, {})
  BY <1>1, UpdateLeaseUnique DEF StoreInv
<1>5. u.ip = [s.ip EXCEPT ![d.addr] = d]
  BY <1>1, UpdateLeaseContent
<1>6. GrantsNothing(s, u)
  BY <1>1, <1>5 DEF GrantsNothing, Store
<1>7. StoreInv(u)
  BY <1>3, <1>4 DEF StoreInv, UniqueExcept, StoreClientUnique
<1> QED BY <1>2, <1>6, <1>7 DEF d

\* DeclineConflictIP (engine.go:232-259), whether or not the address is leased.
LEMMA ConflictInv ==
  ASSUME NEW e \in EngineState, StoreInv(e.store), NEW addr \in Addr,
         NEW t \in Nat
  PROVE  LET u == DeclineConflictIP(e, addr, t)
         IN u \in Store /\ StoreInv(u) /\ GrantsNothing(e.store, u)
<1>1. e.store \in Store
  BY DEF EngineState
<1>2. CASE e.store.ip[addr] = NoLease
  <2> DEFINE l == [addr   |-> addr,      state |-> "Declined",
                   client |-> NoClient,  mac   |-> NoMac,
                   last   |-> t,         valid |-> e.ttl]
             u == AddLease(e.store, l)
  <2>1. l \in Lease /\ l.addr = addr /\ l.client = NoClient
        /\ l.state = "Declined"
    BY DEF Lease, LeaseState, EngineState
  <2>2. DeclineConflictIP(e, addr, t) = u
    BY <1>2 DEF DeclineConflictIP
  <2> HIDE DEF l
  <2>3. u \in Store
    BY <1>1, <2>1, AddLeaseType
  <2>4. StoreInv(u)
    BY <1>1, <2>1, AddLeaseSound, AddLeaseUnique DEF StoreInv
  <2>5. GrantsNothing(e.store, u)
    BY <1>1, <1>2, <2>1 DEF AddLease, GrantsNothing, Store
  <2> QED BY <2>2, <2>3, <2>4, <2>5
<1>3. CASE e.store.ip[addr] # NoLease
  <2>1. e.store.ip[addr] \in Lease
    BY <1>1, <1>3 DEF Store
  <2>2. DeclineConflictIP(e, addr, t)
          = UpdateLease(e.store, Declined(e.store.ip[addr], t))
    BY <1>3 DEF DeclineConflictIP
  <2> QED BY <1>1, <2>1, <2>2, UpdateDeclined
<1> QED BY <1>2, <1>3

\* Deleting leases, by release, by command or with a pool, grants nothing.
LEMMA DeleteLeasesInv ==
  ASSUME NEW s \in Store, StoreInv(s), NEW A
  PROVE  LET u == DeleteLeases(s, A)
         IN /\ u \in Store /\ StoreInv(u) /\ GrantsNothing(s, u)
            /\ \A a \in Addr : u.ip[a] = IF a \in A THEN NoLease ELSE s.ip[a]
<1> DEFINE u == DeleteLeases(s, A)
<1>1. u \in Store
  BY DeleteLeasesType
<1>2. \A a \in Addr : u.ip[a] = IF a \in A THEN NoLease ELSE s.ip[a]
  BY DeleteLeasesContent
<1>3. UniqueExcept(s, A)
  BY DEF StoreInv, StoreClientUnique, UniqueExcept
<1>4. StoreInv(u)
  BY <1>3, DeleteLeasesSound, DeleteLeasesUnique DEF StoreInv
<1> QED BY <1>1, <1>2, <1>4 DEF GrantsNothing

-----------------------------------------------------------------------------
(* The inductive invariant *)

\* newEngine (engine.go:31-38) on an empty lease table.
LEMMA InitInv == Init => Inv
<1> SUFFICES ASSUME Init PROVE Inv
  OBVIOUS
<1>1. engine.store = newLeaseStore
  BY DEF Init
<1>2. TypeOK
  BY EmptyStore, EngineAssumption, SubnetEngineAssumption
  DEF Init, TypeOK, EngineState
<1>3. StoreInv(engine.store)
  BY <1>1, EmptyStore DEF StoreInv
<1>4. ReservedPoolOnlyForHosts
  BY <1>1 DEF ReservedPoolOnlyForHosts, newLeaseStore
<1> QED BY <1>2, <1>3, <1>4 DEF Inv

\* A step that only deletes or declines leases.
LEMMA StoreStep ==
  ASSUME Inv, NEW u \in Store, StoreInv(u), GrantsNothing(engine.store, u),
         engine' = [engine EXCEPT !.store = u], UNCHANGED <<lastAllocateAddr, now, panicked>>
  PROVE  Inv'
<1>1. engine \in EngineState /\ engine' \in EngineState /\ engine'.store = u
      /\ engine'.reserved = engine.reserved /\ engine'.hosts = engine.hosts
  BY DEF Inv, TypeOK, EngineState
<1>2. TypeOK'
  BY <1>1 DEF Inv, TypeOK
<1>3. ReservedPoolOnlyForHosts'
  BY <1>1 DEF Inv, ReservedPoolOnlyForHosts, GrantsNothing
<1> QED BY <1>1, <1>2, <1>3 DEF Inv

\* A granted request keeps the invariant: inside a reserved pool only the host
\* that reserves the address passes addressIsReserved (engine.go:176-185).
LEMMA RequestInv ==
  ASSUME Inv, NEW ctx \in Context, Request(ctx)
  PROVE  Inv'
<1> DEFINE s == engine.store
           u == AllocateLease(engine, ctx, now)
<1>1. engine \in EngineState /\ now \in Nat /\ StoreInv(s)
  BY DEF Inv, TypeOK
<1>2. /\ u \in Store
      /\ StoreInv(u)
      /\ u.ip[ctx.addr] = renewLease(engine, ctx, now)
      /\ \A a \in Addr \ {ctx.addr} : u.ip[a] \in {NoLease, s.ip[a]}
  BY <1>1, AllocateLeaseInv
<1>3. engine' = [engine EXCEPT !.store = u] /\ UNCHANGED <<lastAllocateAddr, now, panicked>>
  BY DEF Request
<1> HIDE DEF u
<1>4. engine' \in EngineState /\ engine'.store = u
      /\ engine'.reserved = engine.reserved /\ engine'.hosts = engine.hosts
  BY <1>1, <1>2, <1>3 DEF EngineState
<1>5. ctx.mac \in Mac /\ ctx.addr \in Addr /\ u.ip[ctx.addr].mac = ctx.mac
  BY <1>2 DEF Context, renewLease
<1>6. IncludeAddr(engine.reserved, ctx.addr) => engine.hosts[ctx.mac] = ctx.addr
  BY DEF Request, AllocateRefused, addressIsReserved, HostViews
<1>7. ReservedPoolOnlyForHosts'
  BY <1>2, <1>4, <1>5, <1>6 DEF Inv, ReservedPoolOnlyForHosts
<1> QED BY <1>1, <1>2, <1>3, <1>4, <1>7 DEF Inv, TypeOK

\* Every request, command and tick keeps the invariant.
LEMMA NextInv == Inv /\ [Next]_vars => Inv'
<1> SUFFICES ASSUME Inv, [Next]_vars PROVE Inv'
  OBVIOUS
<1> DEFINE s == engine.store
<1>0. /\ engine \in EngineState /\ now \in Nat /\ panicked \in BOOLEAN
      /\ lastAllocateAddr \in Addr
      /\ s \in Store /\ StoreInv(s)
      /\ engine.hosts \in [Mac -> Addr \cup {NoAddr}]
      /\ engine.pools \in Seq(Pool) /\ engine.reserved \in Seq(Pool)
  BY DEF Inv, TypeOK, EngineState
<1>1. ASSUME NEW ctx \in Context, Discover(ctx) PROVE Inv'
  <2>1. UNCHANGED <<engine, now>> /\ panicked' \in BOOLEAN
    BY <1>0, <1>1 DEF Discover
  <2>2. lastAllocateAddr' \in Addr
    <3>1. PICK view, view2 \in HostViews(engine) :
            IF PlanPanics(engine, view, lastAllocateAddr, ctx, now)
            THEN UNCHANGED lastAllocateAddr
            ELSE lastAllocateAddr' =
                   PlanLease(engine, view, view2, lastAllocateAddr, ctx, now).last
      BY <1>1 DEF Discover
    <3> DEFINE offer == allocateUnreservedLease(engine, view2, lastAllocateAddr,
                                                ctx, now)
    <3>2. \/ UNCHANGED lastAllocateAddr
          \/ /\ ~PickAddrPanics(engine.pools, lastAllocateAddr)
             /\ lastAllocateAddr' = offer.last
      BY <3>1 DEF PlanPanics, PlanLease, Offer
    <3>3. ~PickAddrPanics(engine.pools, lastAllocateAddr) => offer.last \in Addr
      BY <1>0, AllocateUnreserved
    <3> HIDE DEF offer
    <3> QED BY <1>0, <3>2, <3>3
  <2> QED BY <2>1, <2>2 DEF Inv, TypeOK, ReservedPoolOnlyForHosts
<1>2. ASSUME NEW ctx \in Context, Request(ctx) PROVE Inv'
  BY <1>2, RequestInv
<1>3. ASSUME NEW ctx \in Context, Release(ctx) PROVE Inv'
  BY <1>0, <1>3, DeleteLeasesInv, StoreStep DEF Release, ReleaseLease, DeleteLease
<1>4. ASSUME NEW ctx \in Context, Decline(ctx) PROVE Inv'
  <2>1. findOldLease(engine, ctx) \in Lease
    BY <1>0, <1>4, OldLease DEF Decline, NamesItsLease
  <2> QED BY <1>0, <1>4, <2>1, UpdateDeclined, StoreStep DEF Decline, DeclineLease
<1>5. ASSUME NEW addr \in Addr, ConflictIP(addr) PROVE Inv'
  BY <1>0, <1>5, ConflictInv, StoreStep DEF ConflictIP
<1>6. ASSUME NEW pool \in Pool, addPool(pool) PROVE Inv'
  <2>1. engine' = [engine EXCEPT !.pools = Append(engine.pools, pool)]
        /\ UNCHANGED <<lastAllocateAddr, now, panicked>>
    BY <1>6 DEF addPool
  <2>2. Append(engine.pools, pool) \in Seq(Pool)
    BY <1>0, AppendPool
  <2>3. engine' \in EngineState /\ engine'.store = s
        /\ engine'.reserved = engine.reserved /\ engine'.hosts = engine.hosts
    BY <1>0, <2>1, <2>2 DEF EngineState
  <2> QED BY <2>1, <2>3 DEF Inv, TypeOK, ReservedPoolOnlyForHosts
<1>7. ASSUME NEW pool \in Pool, addReservedPool(pool) PROVE Inv'
  <2> DEFINE u == DeleteLeases(s, PoolAddrs(pool))
             r == Append(engine.reserved, pool)
  <2>1. engine' = [engine EXCEPT !.store = u, !.reserved = r]
        /\ UNCHANGED <<lastAllocateAddr, now, panicked>>
    BY <1>7 DEF addReservedPool
  <2>2. u \in Store /\ StoreInv(u) /\ \A a \in Addr :
          u.ip[a] = IF a \in PoolAddrs(pool) THEN NoLease ELSE s.ip[a]
    BY <1>0, DeleteLeasesInv
  <2>3. r \in Seq(Pool) /\ \A a \in Addr : IncludeAddr(r, a)
          => IncludeAddr(engine.reserved, a) \/ a \in PoolAddrs(pool)
    BY <1>0, AppendPool DEF PoolAddrs
  <2> HIDE DEF u, r
  <2>4. engine' \in EngineState /\ engine'.store = u
        /\ engine'.reserved = r /\ engine'.hosts = engine.hosts
    BY <1>0, <2>1, <2>2, <2>3 DEF EngineState
  <2>5. ReservedPoolOnlyForHosts'
    BY <2>2, <2>3, <2>4 DEF Inv, ReservedPoolOnlyForHosts
  <2> QED BY <2>1, <2>2, <2>4, <2>5 DEF Inv, TypeOK
<1>8. ASSUME NEW pool \in Pool, deletePool(pool) PROVE Inv'
  <2> DEFINE u == DeleteLeases(s, PoolAddrs(pool))
             r == WithoutPool(engine.pools, pool)
  <2>1. engine' = [engine EXCEPT !.pools = r, !.store = u]
        /\ UNCHANGED <<lastAllocateAddr, now, panicked>>
    BY <1>8 DEF deletePool
  <2>2. u \in Store /\ StoreInv(u) /\ GrantsNothing(s, u)
    BY <1>0, DeleteLeasesInv
  <2>3. r \in Seq(Pool)
    BY <1>0, <1>8, WithoutPoolType DEF deletePool
  <2> HIDE DEF u, r
  <2>4. engine' \in EngineState /\ engine'.store = u
        /\ engine'.reserved = engine.reserved /\ engine'.hosts = engine.hosts
    BY <1>0, <2>1, <2>2, <2>3 DEF EngineState
  <2>5. ReservedPoolOnlyForHosts'
    BY <2>2, <2>4 DEF Inv, ReservedPoolOnlyForHosts, GrantsNothing
  <2> QED BY <2>1, <2>2, <2>4, <2>5 DEF Inv, TypeOK
<1>9. ASSUME NEW pool \in Pool, deleteReservedPool(pool) PROVE Inv'
  <2> DEFINE r == WithoutPool(engine.reserved, pool)
  <2>1. engine' = [engine EXCEPT !.reserved = r] /\ UNCHANGED <<lastAllocateAddr, now, panicked>>
    BY <1>9 DEF deleteReservedPool
  <2>2. r \in Seq(Pool) /\ \A a \in Addr : IncludeAddr(r, a)
          => IncludeAddr(engine.reserved, a)
    BY <1>0, <1>9, WithoutPoolType DEF deleteReservedPool
  <2> HIDE DEF r
  <2>3. engine' \in EngineState /\ engine'.store = s
        /\ engine'.reserved = r /\ engine'.hosts = engine.hosts
    BY <1>0, <2>1, <2>2 DEF EngineState
  <2> QED BY <2>1, <2>2, <2>3 DEF Inv, TypeOK, ReservedPoolOnlyForHosts
<1>10. ASSUME NEW mac \in Mac, NEW addr \in Addr, addHost(mac, addr) PROVE Inv'
  <2> DEFINE h == [engine.hosts EXCEPT ![mac] =
                     IF engine.hosts[mac] = NoAddr THEN addr ELSE engine.hosts[mac]]
  <2>1. engine' = [engine EXCEPT !.managed = TRUE, !.hosts = h]
        /\ UNCHANGED <<lastAllocateAddr, now, panicked>>
    BY <1>0, <1>10 DEF addHost, EngineState
  <2>2. h \in [Mac -> Addr \cup {NoAddr}]
        /\ \A m \in Mac : engine.hosts[m] # NoAddr => h[m] = engine.hosts[m]
    BY <1>0
  <2> HIDE DEF h
  <2>3. engine' \in EngineState /\ engine'.store = s
        /\ engine'.reserved = engine.reserved /\ engine'.hosts = h
    BY <1>0, <2>1, <2>2 DEF EngineState
  <2> QED BY <2>1, <2>2, <2>3, EngineAssumption
          DEF Inv, TypeOK, ReservedPoolOnlyForHosts
<1>11. ASSUME NEW mac \in Mac, NEW addr \in Addr, deleteHost(mac, addr)
       PROVE Inv'
  <2> DEFINE u == DeleteLeases(s, {addr})
             h == [engine.hosts EXCEPT ![mac] =
                     IF engine.hosts[mac] = addr THEN NoAddr ELSE engine.hosts[mac]]
  <2>1. engine' = [engine EXCEPT !.store = u, !.hosts = h]
        /\ UNCHANGED <<lastAllocateAddr, now, panicked>>
    BY <1>0, <1>11 DEF deleteHost, DeleteLease, EngineState
  <2>2. u \in Store /\ StoreInv(u) /\ \A a \in Addr :
          u.ip[a] = IF a = addr THEN NoLease ELSE s.ip[a]
    BY <1>0, DeleteLeasesInv
  <2>3. h \in [Mac -> Addr \cup {NoAddr}]
        /\ \A m \in Mac : engine.hosts[m] # addr => h[m] = engine.hosts[m]
    BY <1>0
  <2> HIDE DEF h, u
  <2>4. engine' \in EngineState /\ engine'.store = u
        /\ engine'.reserved = engine.reserved /\ engine'.hosts = h
    BY <1>0, <2>1, <2>2, <2>3 DEF EngineState
  <2>5. ReservedPoolOnlyForHosts'
    <3> SUFFICES ASSUME NEW a \in Addr, IncludeAddr(engine.reserved, a),
                        u.ip[a] # NoLease, u.ip[a].state = "Normal"
                 PROVE  u.ip[a].mac \in Mac /\ h[u.ip[a].mac] = a
      BY <2>4 DEF ReservedPoolOnlyForHosts
    <3>1. a # addr /\ u.ip[a] = s.ip[a]
      BY <2>2
    <3>2. s.ip[a].mac \in Mac /\ engine.hosts[s.ip[a].mac] = a
      BY <3>1 DEF Inv, ReservedPoolOnlyForHosts
    <3> QED BY <2>3, <3>1, <3>2
  <2> QED BY <2>1, <2>2, <2>4, <2>5 DEF Inv, TypeOK
<1>12. ASSUME NEW ttl \in Nat, updateSubnet(ttl) PROVE Inv'
  <2>1. engine' = [engine EXCEPT !.ttl = ttl] /\ UNCHANGED <<lastAllocateAddr, now, panicked>>
    BY <1>12 DEF updateSubnet
  <2>2. engine' \in EngineState /\ engine'.store = s
        /\ engine'.reserved = engine.reserved /\ engine'.hosts = engine.hosts
    BY <1>0, <2>1 DEF EngineState
  <2> QED BY <2>1, <2>2 DEF Inv, TypeOK, ReservedPoolOnlyForHosts
<1>13. CASE Tick
  BY <1>13 DEF Tick, Inv, TypeOK, ReservedPoolOnlyForHosts
<1>14. CASE UNCHANGED vars
  BY <1>14 DEF vars, Inv, TypeOK, ReservedPoolOnlyForHosts
<1>15. CASE Next
  <2>1. /\ PoolChoice \subseteq Pool /\ TtlChoice \subseteq Nat
        /\ \A host \in HostChoice : host[1] \in Mac /\ host[2] \in Addr
    BY SubnetEngineAssumption
  <2> QED BY <1>15, <2>1, <1>1, <1>2, <1>3, <1>4, <1>5, <1>6, <1>7, <1>8, <1>9,
             <1>10, <1>11, <1>12, <1>13 DEF Next
<1> QED BY <1>14, <1>15

-----------------------------------------------------------------------------
(* The theorems *)

\* The invariant holds in every reachable state.
THEOREM Invariance == Spec => []Inv
  BY InitInv, NextInv, PTL DEF Spec

\* The engine's store, pools and reservations are well formed whatever requests
\* and commands arrive, and in whatever order.
THEOREM TypeCorrect == Spec => []TypeOK
<1>1. Inv => TypeOK
  BY DEF Inv
<1> QED BY <1>1, Invariance, PTL

\* No lookup by MAC address or client identifier (lease_in_mem.go:37-45) ever
\* answers with a lease that is not in the store.
THEOREM IndexesAreSound == Spec => []IndexSound
<1>1. Inv => IndexSound
  BY DEF Inv, StoreInv, StoreSound, IndexSound
<1> QED BY <1>1, Invariance, PTL

\* No client identifier ever holds two leases of the subnet (engine.go:109-123).
THEOREM OneLeasePerClient == Spec => []ClientHoldsOneLease
<1>1. Inv => ClientHoldsOneLease
  BY DEF Inv, StoreInv, ClientHoldsOneLease
<1> QED BY <1>1, Invariance, PTL

\* A reserved pool only ever holds leases of hosts that reserve their address.
THEOREM ReservedPoolsAreKept == Spec => []ReservedPoolOnlyForHosts
<1>1. Inv => ReservedPoolOnlyForHosts
  BY DEF Inv
<1> QED BY <1>1, Invariance, PTL

\* PlanLease (engine.go:44-75) offers nothing that is held by somebody else.
THEOREM OffersAreFree == Spec => []OfferIsFree
<1>1. Inv => OfferIsFree
  <2> SUFFICES ASSUME Inv, NEW ctx \in Context, NEW view \in HostViews(engine),
                      NEW view2 \in HostViews(engine), NEW addr,
                      addr = PlanLease(engine, view, view2, lastAllocateAddr,
                                       ctx, now).addr,
                      addr # NoAddr
               PROVE  \/ Usable(engine, addr, now)
                      \/ SameClient(engine.store.ip[addr], ctx.mac, ctx.client)
    BY DEF OfferIsFree
  <2> DEFINE planned == PlannedAddr(engine, view, ctx, now)
  <2>1. CASE planned # NoAddr
    <3>1. addr = planned
      BY <2>1 DEF PlanLease, Offer
    <3>2. engine \in EngineState /\ StoreInv(engine.store)
      BY DEF Inv, TypeOK
    <3>3. LET old == findOldLease(engine, ctx)
          IN old # NoLease => /\ engine.store.ip[old.addr] = old
                              /\ SameClient(old, ctx.mac, ctx.client)
      BY <3>2, OldLease
    <3> QED BY <2>1, <3>1, <3>3 DEF PlannedAddr
  <2>2. CASE planned = NoAddr
    <3>1. addr = allocateUnreservedLease(engine, view2, lastAllocateAddr,
                                         ctx, now).addr
      BY <2>2 DEF PlanLease
    <3> DEFINE n == Capacity(engine.pools)
               pick == Picks(engine.pools, lastAllocateAddr)
               good == {i \in 1..n :
                          /\ ~addressIsReserved(engine, view2, pick[i], ctx.mac)
                          /\ Usable(engine, pick[i], now)}
    <3>2. addr = IF good = {} THEN NoAddr ELSE pick[Min(good)]
      BY <3>1 DEF allocateUnreservedLease, Offer
    <3>3. good \in SUBSET (1..n)
      OBVIOUS
    <3>4. Min(good) \in good
      BY <3>2, <3>3, FirstGood
    <3>5. Usable(engine, pick[Min(good)], now)
      BY <3>4
    <3> QED BY <3>2, <3>5
  <2> QED BY <2>1, <2>2
<1> QED BY <1>1, Invariance, PTL

\* ErrNoAddressLeft (engine.go:187-199) is only answered when every address of
\* the pools is reserved or taken.
THEOREM ExhaustionIsTrue == Spec => []ExhaustionIsReal
<1>1. Inv => ExhaustionIsReal
  <2> SUFFICES ASSUME Inv, PoolsDisjoint(engine.pools),
                      ~IncludeAddr(engine.pools, 0),
                      NEW ctx \in Context, NEW view \in HostViews(engine),
                      ~PlanPanics(engine, view, lastAllocateAddr, ctx, now),
                      PlanLease(engine, view, view, lastAllocateAddr,
                                ctx, now).addr = NoAddr,
                      NEW a \in Addr, IncludeAddr(engine.pools, a)
               PROVE  \/ addressIsReserved(engine, view, a, ctx.mac)
                      \/ ~Usable(engine, a, now)
    BY DEF ExhaustionIsReal
  <2> DEFINE pools == engine.pools
             last == lastAllocateAddr
             offer == allocateUnreservedLease(engine, view, last, ctx, now)
  <2>1. /\ engine \in EngineState /\ pools \in Seq(Pool)
        /\ last \in Addr /\ last \in Nat /\ a \in Nat
    BY LeaseStoreAssumption DEF Inv, TypeOK, EngineState
  <2>2. PlannedAddr(engine, view, ctx, now) = NoAddr /\ offer.addr = NoAddr
    BY DEF PlanLease, Offer
  <2>3. ~PickAddrPanics(pools, last)
    BY <2>2 DEF PlanPanics
  <2>4. \A k \in 1..Capacity(pools) :
          \/ addressIsReserved(engine, view, Picks(pools, last)[k], ctx.mac)
          \/ ~Usable(engine, Picks(pools, last)[k], now)
    BY <2>1, <2>2, <2>3, AllocateUnreserved
  <2>5. Placed(pools, last)
    <3>1. pools # << >>
      BY DEF IncludeAddr
    <3> QED BY <2>3, <3>1 DEF PickAddrPanics, Placed
  <2>6. \E k \in 1..Capacity(pools) : Picks(pools, last)[k] = a
    BY <2>1, <2>5, PicksVisitAll
  <2> QED BY <2>4, <2>6
<1> QED BY <1>1, Invariance, PTL

\* A client that requests what PlanLease (engine.go:44-75) offered it gets it.
THEOREM OffersAreHonoured == Spec => []OfferHonoured
<1>1. Inv => OfferHonoured
  <2> SUFFICES ASSUME Inv, NEW ctx \in Context, NEW view \in HostViews(engine),
                      NEW view2 \in HostViews(engine),
                      NEW view3 \in HostViews(engine), NEW addr,
                      addr = PlanLease(engine, view, view2, lastAllocateAddr,
                                       ctx, now).addr,
                      ~PlanPanics(engine, view, lastAllocateAddr, ctx, now),
                      addr # NoAddr,
                      ~addressIsReserved(engine, view3, addr, ctx.mac),
                      addr = engine.hosts[ctx.mac] \/ ~HoldsReservation(ctx)
               PROVE  ~AllocateRefused(engine, view3, [ctx EXCEPT !.addr = addr],
                                       now)
    BY DEF OfferHonoured
  <2> DEFINE request == [ctx EXCEPT !.addr = addr]
             old == findOldLease(engine, ctx)
             reserved == engine.hosts[ctx.mac]
             planned == PlannedAddr(engine, view, ctx, now)
  <2>1. /\ request.mac = ctx.mac /\ request.client = ctx.client
        /\ request.addr = addr
    BY DEF Context
  <2>2. findOldLease(engine, request) = old
    BY <2>1 DEF findOldLease
  <2>3. \* the reservation of the client, if it has one, is not in the way
        addr = reserved \/ reserved = NoAddr
          \/ (~Usable(engine, reserved, now)
                /\ engine.store.ip[reserved].mac # ctx.mac)
    <3>1. addr # reserved /\ reserved # NoAddr => ~Usable(engine, reserved, now)
      BY DEF PlanLease, Offer, PlannedAddr
    <3> QED BY <3>1 DEF HoldsReservation
  <2>4. \* the address is the client's, or it is free and the client's to have
        \/ old # NoLease /\ old.addr = addr
        \/ /\ Usable(engine, addr, now)
           /\ addr = reserved \/ IncludeAddr(engine.pools, addr)
    <3>1. CASE planned # NoAddr
      <4>1. addr = planned
        BY <3>1 DEF PlanLease, Offer
      <4> QED BY <3>1, <4>1 DEF PlannedAddr
    <3>2. CASE planned = NoAddr
      <4>1. addr = allocateUnreservedLease(engine, view2, lastAllocateAddr,
                                           ctx, now).addr
        BY <3>2 DEF PlanLease
      <4>2. engine \in EngineState /\ lastAllocateAddr \in Addr
        BY DEF Inv, TypeOK
      <4>3. ~PickAddrPanics(engine.pools, lastAllocateAddr)
        BY <3>2 DEF PlanPanics
      <4> QED BY <4>1, <4>2, <4>3, AllocateUnreserved
    <3> QED BY <3>1, <3>2
  <2> HIDE DEF request, old, reserved, planned
  <2>5. AllocateRefused(engine, view3, request, now) <=>
          \/ addressIsReserved(engine, view3, addr, ctx.mac)
          \/ /\ reserved \notin {NoAddr, addr}
             /\ \/ Usable(engine, reserved, now)
                \/ engine.store.ip[reserved].mac = ctx.mac
          \/ /\ old = NoLease \/ old.addr # addr
             /\ \/ reserved = NoAddr /\ ~IncludeAddr(engine.pools, addr)
                \/ ~Usable(engine, addr, now)
    BY <2>1, <2>2 DEF AllocateRefused, reserved
  <2>6. ~AllocateRefused(engine, view3, request, now)
    BY <2>3, <2>4, <2>5
  <2> QED BY <2>6 DEF request
<1> QED BY <1>1, Invariance, PTL

\* An offer is free for the client it is made to, and granted on request.
THEOREM OffersAreSound == Spec => []OffersSound
<1>1. OfferIsFree /\ OfferHonoured => OffersSound
  BY DEF OffersSound
<1> QED BY <1>1, OffersAreFree, OffersAreHonoured, PTL

\* A granted request goes to the client that holds the address or to nobody's
\* (engine.go:109-124).
LEMMA RequestTakesNothing ==
  ASSUME Inv, NEW ctx \in Context, Request(ctx)
  PROVE  TakesNothingOver
<1> DEFINE s == engine.store
           u == AllocateLease(engine, ctx, now)
<1>1. engine \in EngineState /\ now \in Nat /\ StoreInv(s) /\ ctx.addr \in Addr
  BY DEF Inv, TypeOK, Context
<1>2. /\ u.ip[ctx.addr].mac = ctx.mac /\ u.ip[ctx.addr].client = ctx.client
      /\ \A a \in Addr \ {ctx.addr} : u.ip[a] \in {NoLease, s.ip[a]}
  <2>1. /\ u.ip[ctx.addr] = renewLease(engine, ctx, now)
        /\ \A a \in Addr \ {ctx.addr} : u.ip[a] \in {NoLease, s.ip[a]}
    BY <1>1, AllocateLeaseInv
  <2> HIDE DEF u
  <2> QED BY <2>1 DEF renewLease
<1>3. engine'.store = u
  BY <1>1 DEF Request, EngineState
<1>4. \/ s.ip[ctx.addr] = NoLease \/ IsExpired(s.ip[ctx.addr], now)
      \/ SameClient(s.ip[ctx.addr], ctx.mac, ctx.client)
  <2>1. LET old == findOldLease(engine, ctx)
        IN Usable(engine, ctx.addr, now) \/ (old # NoLease /\ old.addr = ctx.addr)
    BY DEF Request, AllocateRefused
  <2>2. LET old == findOldLease(engine, ctx)
        IN old # NoLease => /\ s.ip[old.addr] = old
                            /\ SameClient(old, ctx.mac, ctx.client)
    BY <1>1, OldLease
  <2> QED BY <2>1, <2>2 DEF Usable
<1> HIDE DEF u
<1> QED BY <1>2, <1>3, <1>4 DEF TakesNothingOver, SameClient

\* No request moves an address to another client before its lease or its
\* quarantine has run out.
THEOREM NothingIsTakenOver == Spec => NoTakeover
<1>1. Inv /\ [Next]_vars => [TakesNothingOver]_vars
  <2> SUFFICES ASSUME Inv, Next PROVE TakesNothingOver
    OBVIOUS
  <2> DEFINE s == engine.store
             Quiet == GrantsNothing(s, engine'.store)
  <2>0. /\ engine \in EngineState /\ now \in Nat
        /\ s \in Store /\ StoreInv(s)
    BY DEF Inv, TypeOK, EngineState
  <2>1. Quiet => TakesNothingOver
    BY DEF GrantsNothing, TakesNothingOver, SameClient
  <2>2. engine'.store = s => Quiet
    BY DEF GrantsNothing
  <2> HIDE DEF Quiet
  <2>3. ASSUME NEW ctx \in Context, Release(ctx) PROVE Quiet
    BY <2>0, <2>3, DeleteLeasesInv
    DEF Release, ReleaseLease, DeleteLease, EngineState, Quiet
  <2>4. ASSUME NEW ctx \in Context, Decline(ctx) PROVE Quiet
    <3>1. findOldLease(engine, ctx) \in Lease
      BY <2>0, <2>4, OldLease DEF Decline, NamesItsLease
    <3>2. engine'.store = DeclineLease(engine, ctx, now)
      BY <2>0, <2>4 DEF Decline, EngineState
    <3> QED BY <2>0, <3>1, <3>2, UpdateDeclined DEF DeclineLease, Quiet
  <2>5. ASSUME NEW addr \in Addr, ConflictIP(addr) PROVE Quiet
    <3>1. engine'.store = DeclineConflictIP(engine, addr, now)
      BY <2>0, <2>5 DEF ConflictIP, EngineState
    <3> QED BY <2>0, <3>1, ConflictInv DEF Quiet
  <2>6. ASSUME NEW pool, addReservedPool(pool) \/ deletePool(pool) PROVE Quiet
    <3>1. engine'.store = DeleteLeases(s, PoolAddrs(pool))
      BY <2>0, <2>6 DEF addReservedPool, deletePool, EngineState
    <3> QED BY <2>0, <3>1, DeleteLeasesInv DEF Quiet
  <2>7. ASSUME NEW mac, NEW addr, deleteHost(mac, addr) PROVE Quiet
    <3>1. engine'.store = DeleteLeases(s, {addr})
      BY <2>0, <2>7 DEF deleteHost, DeleteLease, EngineState
    <3> QED BY <2>0, <3>1, DeleteLeasesInv DEF Quiet
  <2>8. ASSUME NEW ctx, Discover(ctx) PROVE Quiet
    BY <2>2, <2>8 DEF Discover
  <2>9. ASSUME NEW pool, addPool(pool) \/ deleteReservedPool(pool) PROVE Quiet
    BY <2>0, <2>2, <2>9 DEF addPool, deleteReservedPool, EngineState
  <2>10. ASSUME NEW mac, NEW addr, addHost(mac, addr) PROVE Quiet
    BY <2>0, <2>2, <2>10 DEF addHost, EngineState
  <2>11. ASSUME NEW ttl, updateSubnet(ttl) PROVE Quiet
    BY <2>0, <2>2, <2>11 DEF updateSubnet, EngineState
  <2>12. Tick => Quiet
    BY <2>2 DEF Tick
  <2> QED BY <2>1, <2>3, <2>4, <2>5, <2>6, <2>7, <2>8, <2>9, <2>10, <2>11, <2>12,
             RequestTakesNothing DEF Next
<1> QED BY <1>1, Invariance, PTL DEF Spec, NoTakeover

\* The store is well formed, and its lookups find every lease of a client and nothing
\* else, through every sequence of requests and commands.
THEOREM LeasesAreSound == Spec => []LeasesSound
<1>1. TypeOK /\ IndexSound /\ ClientHoldsOneLease => LeasesSound
  BY DEF LeasesSound
<1> QED BY <1>1, TypeCorrect, IndexesAreSound, OneLeasePerClient, PTL
=============================================================================
