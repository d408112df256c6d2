--------------------------- MODULE LeaseTermProofs ---------------------------
(* Proofs that the lifetimes told to clients are covered by the master's leases, *)
(* for any clients and lifetimes.                                                *)
EXTENDS LeaseTerm, TLAPS

\* createSubnet (ctrl_server_init.h:213-240) orders any three lifetimes.
LEMMA CreateSubnetOrdered ==
  ASSUME NEW min \in Nat, NEW default \in Nat, NEW max \in Nat
  PROVE  /\ createSubnet(min, default, max) \in [min : Nat, default : Nat, max : Nat]
         /\ createSubnet(min, default, max).min <= createSubnet(min, default, max).default
         /\ createSubnet(min, default, max).default <= createSubnet(min, default, max).max
BY DEF createSubnet, Min2, Max2

\* Whatever a client wishes, it is told at most the slave's maximum (triplet.h:47-57).
LEMMA GetBounded ==
  ASSUME TypeOK, NEW hint \in Lifetime \cup {None}
  PROVE  Get(hint) \in Nat /\ Get(hint) <= valid.max
<1>1. valid \in [min : Nat, default : Nat, max : Nat] /\ valid.min <= valid.default
      /\ valid.default <= valid.max
  BY DEF TypeOK
<1>2. CASE hint = None
  BY <1>1, <1>2 DEF Get
<1>3. CASE hint # None
  <2>1. hint \in Nat
    BY <1>3, LeaseTermAssumption
  <2> QED BY <1>1, <1>3, <2>1 DEF Get
<1> QED BY <1>2, <1>3

\* Every step keeps the types and the order of the slave's lifetimes.
LEMMA TypeInductive == TypeOK /\ [Next]_vars => TypeOK'
<1> SUFFICES ASSUME TypeOK, [Next]_vars PROVE TypeOK'
  OBVIOUS
<1>1. CASE UNCHANGED vars
  BY <1>1 DEF TypeOK, vars
<1>2. ASSUME NEW c \in Client, Release(c) PROVE TypeOK'
  BY <1>2 DEF TypeOK, Release
<1>7. ASSUME NEW c \in Client, Decline(c) PROVE TypeOK'
  BY <1>7 DEF TypeOK, Decline
<1>3. ASSUME NEW c \in Client, NEW hint \in Lifetime \cup {None}, Acknowledge(c, hint)
      PROVE TypeOK'
  <2>1. Get(hint) \in Nat
    BY GetBounded
  <2> QED BY <1>3, <2>1 DEF TypeOK, Acknowledge
<1>4. CASE Tick
  <2>1. left' \in Nat
    BY <1>4 DEF Tick, TypeOK, Max2
  <2>2. held' \in [Client -> Nat]
    BY <1>4 DEF Tick, TypeOK, Max2
  <2> QED BY <1>4, <2>1, <2>2 DEF TypeOK, Tick
<1>5. ASSUME NEW t \in Lifetime, updateSubnet(t) PROVE TypeOK'
  <2>1. t \in Nat
    BY LeaseTermAssumption
  <2> QED BY <1>5, <2>1 DEF TypeOK, updateSubnet
<1>6. ASSUME NEW min \in Lifetime, NEW default \in Lifetime, NEW max \in Lifetime,
             reconfigure(min, default, max)
      PROVE TypeOK'
  <2>1. min \in Nat /\ default \in Nat /\ max \in Nat
    BY LeaseTermAssumption
  <2>2. /\ valid' \in [min : Nat, default : Nat, max : Nat]
        /\ valid'.min <= valid'.default /\ valid'.default <= valid'.max
    BY <1>6, <2>1, CreateSubnetOrdered DEF reconfigure
  <2> QED BY <1>6, <2>2 DEF TypeOK, reconfigure
<1> QED BY <1>1, <1>2, <1>3, <1>4, <1>5, <1>6, <1>7 DEF Next

\* Every step keeps the cover: an acknowledgement because what it tells is at most
\* the slave's maximum, a tick because it takes from both sides alike.
LEMMA CoverInductive == TypeOK /\ TermCovered /\ [Next]_vars => TermCovered'
<1> SUFFICES ASSUME TypeOK, TermCovered, [Next]_vars, covered' PROVE
      /\ valid'.max <= ttl'
      /\ \A c \in Client : held'[c] > 0 => owner' = c /\ held'[c] <= left'
  BY DEF TermCovered
<1>0. covered
  BY DEF Next, vars, Release, Decline, Acknowledge, Tick, updateSubnet, reconfigure, TypeOK
<1>a. /\ valid.max <= ttl
      /\ \A c \in Client : held[c] > 0 => owner = c /\ held[c] <= left
  BY <1>0 DEF TermCovered
<1>t. ttl \in Nat /\ left \in Nat /\ held \in [Client -> Nat]
  BY DEF TypeOK
<1>1. CASE UNCHANGED vars
  BY <1>1, <1>a DEF vars
<1>2. ASSUME NEW c \in Client, Release(c)
      PROVE /\ valid'.max <= ttl'
            /\ \A d \in Client : held'[d] > 0 => owner' = d /\ held'[d] <= left'
  BY <1>2, <1>a, <1>t DEF Release
<1>7. ASSUME NEW c \in Client, Decline(c)
      PROVE /\ valid'.max <= ttl'
            /\ \A d \in Client : held'[d] > 0 => owner' = d /\ held'[d] <= left'
  BY <1>7, <1>a, <1>t DEF Decline
<1>3. ASSUME NEW c \in Client, NEW hint \in Lifetime \cup {None}, Acknowledge(c, hint)
      PROVE /\ valid'.max <= ttl'
            /\ \A d \in Client : held'[d] > 0 => owner' = d /\ held'[d] <= left'
  <2>1. Get(hint) \in Nat /\ Get(hint) <= valid.max
    BY GetBounded
  <2>2. valid.max \in Nat
    BY DEF TypeOK
  <2>3. held'[c] = Get(hint) /\ owner' = c /\ left' = ttl /\ valid' = valid /\ ttl' = ttl
    BY <1>3, <1>t DEF Acknowledge
  <2>4. ASSUME NEW d \in Client, d # c PROVE ~(held'[d] > 0)
    <3>1. held'[d] = held[d]
      BY <1>3, <1>t, <2>4 DEF Acknowledge
    <3>2. CASE owner = c
      BY <3>1, <3>2, <1>a, <1>t, <2>4
    <3>3. CASE left = 0
      <4>1. held[d] \in Nat
        BY <1>t
      <4> QED BY <3>1, <3>3, <4>1, <1>a
    <3> QED BY <1>3, <3>2, <3>3 DEF Acknowledge
  <2> QED BY <1>a, <1>t, <2>1, <2>2, <2>3, <2>4
<1>4. CASE Tick
  <2>1. ASSUME NEW c \in Client, held'[c] > 0 PROVE owner' = c /\ held'[c] <= left'
    <3>1. held[c] \in Nat
      BY <1>t
    <3>2. held'[c] = held[c] - 1 /\ held[c] > 0
      BY <1>4, <2>1, <3>1 DEF Tick, Max2
    <3>3. owner = c /\ held[c] <= left
      BY <1>a, <3>2
    <3>4. left' = left - 1
      BY <1>4, <1>t, <3>1, <3>2, <3>3 DEF Tick, Max2
    <3> QED BY <1>4, <1>t, <3>1, <3>2, <3>3, <3>4 DEF Tick
  <2> QED BY <1>4, <1>a, <2>1 DEF Tick
<1>5. ASSUME NEW t \in Lifetime, updateSubnet(t)
      PROVE /\ valid'.max <= ttl'
            /\ \A d \in Client : held'[d] > 0 => owner' = d /\ held'[d] <= left'
  BY <1>5, <1>a DEF updateSubnet
<1>6. ASSUME NEW min \in Lifetime, NEW default \in Lifetime, NEW max \in Lifetime,
             reconfigure(min, default, max)
      PROVE /\ valid'.max <= ttl'
            /\ \A d \in Client : held'[d] > 0 => owner' = d /\ held'[d] <= left'
  BY <1>6, <1>a DEF reconfigure
<1> QED BY <1>1, <1>2, <1>3, <1>4, <1>5, <1>6, <1>7 DEF Next

\* Types and cover hold at the start, when no client counts on anything.
LEMMA Initially == Init => TypeOK /\ TermCovered
<1> SUFFICES ASSUME Init PROVE TypeOK /\ TermCovered
  OBVIOUS
<1>1. PICK min \in Lifetime, max \in Lifetime : valid = createSubnet(min, ttl, max)
  BY DEF Init
<1>2. ttl \in Nat /\ min \in Nat /\ max \in Nat
  BY <1>1, LeaseTermAssumption DEF Init
<1>3. /\ valid \in [min : Nat, default : Nat, max : Nat]
      /\ valid.min <= valid.default /\ valid.default <= valid.max
  BY <1>1, <1>2, CreateSubnetOrdered
<1>4. TypeOK
  BY <1>2, <1>3 DEF Init, TypeOK
<1>5. covered => valid.max <= ttl
  BY Zenon DEF Init
<1>6. \A c \in Client : ~(held[c] > 0)
  BY DEF Init
<1> QED BY <1>4, <1>5, <1>6 DEF TermCovered

\* For any clients and lifetimes, and any order of commands: as long as the slave's
\* max-valid-lifetime never was above the master's default-valid-lifetime, what a
\* client was told ends no later than the master's lease for that client.
THEOREM LeaseCoversTerm == Spec => []TermCovered
<1>1. TypeOK /\ TermCovered /\ [Next]_vars => (TypeOK /\ TermCovered)'
  BY TypeInductive, CoverInductive
<1> QED BY <1>1, Initially, PTL DEF Spec

\* ... and two clients never count on the address at the same time.
THEOREM AddressHasOneHolder == Spec => []OneHolder
<1>1. TermCovered => OneHolder
  BY DEF TermCovered, OneHolder
<1> QED BY <1>1, LeaseCoversTerm, PTL

\* Configured and told lifetimes are numbers, and the slave's three lifetimes are in
\* order, whatever commands come (ctrl_server_init.h:213-240).
THEOREM TypeCorrect == Spec => []TypeOK
BY Initially, TypeInductive, PTL DEF Spec

\* A number whose triple fits an int passes the conversions unchanged.
LEMMA FitsInt ==
  ASSUME NEW n \in Nat, n < 2^(Width - 1)
  PROVE  Signed(n) = n /\ Unsigned(n) = n
<1>1. 2^(Width - 1) \in Nat /\ 2^Width = 2 * 2^(Width - 1)
  BY LeaseTermAssumption, PowerAssumption
<1>2. ASSUME NEW half \in Nat, NEW all \in Nat, all = 2 * half, n < half
      PROVE  n % all = n
  BY <1>2
<1>3. n % 2^Width = n
  BY <1>1, <1>2
<1> QED BY <1>1, <1>3 DEF Signed, Unsigned

\* For every width of an int and every configuration: a client renews before it
\* rebinds and rebinds before its lease ends (response_gen.cpp:76-80).
THEOREM RenewThenRebind == Spec => []TimersInOrder
<1>1. ASSUME TypeOK, NEW hint \in Lifetime \cup {None}, 3 * Get(hint) < 2^(Width - 1)
      PROVE  Timers(hint).t1 <= Timers(hint).t2 /\ Timers(hint).t2 <= Get(hint)
  <2> DEFINE g == Get(hint)
  <2>1. g \in Nat
    BY <1>1, GetBounded
  <2>2. 2^(Width - 1) \in Nat
    BY PowerAssumption
  <2> HIDE DEF g
  <2>3. g < 2^(Width - 1) /\ g * 3 < 2^(Width - 1) /\ g * 3 \in Nat
    BY <1>1, <2>1, <2>2 DEF g
  <2>4. Signed(g) = g /\ Signed(g * 3) = g * 3
    BY <2>1, <2>3, FitsInt
  <2>5. g \div 2 \in Nat /\ (g * 3) \div 4 \in Nat
        /\ g \div 2 <= (g * 3) \div 4 /\ (g * 3) \div 4 <= g
    BY <2>1
  <2>6. Quotient(g, 2) = g \div 2 /\ Quotient(g * 3, 4) = (g * 3) \div 4
    BY <2>1, <2>3 DEF Quotient
  <2>7. g \div 2 < 2^(Width - 1) /\ (g * 3) \div 4 < 2^(Width - 1)
    BY <2>1, <2>2, <2>3, <2>5
  <2>8. Unsigned(g \div 2) = g \div 2 /\ Unsigned((g * 3) \div 4) = (g * 3) \div 4
    BY <2>5, <2>7, FitsInt
  <2>9. Timers(hint).t1 = g \div 2 /\ Timers(hint).t2 = (g * 3) \div 4
    BY <2>4, <2>6, <2>8 DEF Timers, g
  <2> QED BY <2>5, <2>9 DEF g
<1>2. TypeOK => TimersInOrder
  BY <1>1 DEF TimersInOrder
<1> QED BY <1>2, TypeCorrect, PTL

\* The master keeps an address for a client as long as the client counts on it, and so
\* it has one holder.
THEOREM TermIsSound == Spec => []TermSound
<1>1. TypeOK /\ TermCovered /\ OneHolder => TermSound
  BY DEF TermSound
<1> QED BY <1>1, TypeCorrect, LeaseCoversTerm, AddressHasOneHolder, PTL
=============================================================================
