------------------------------ MODULE LeaseTerm ------------------------------
(***************************************************************************)
(* How long a lease is valid, and for whom.  The master keeps a lease for  *)
(* the ValidLifeTime of its subnet (master/engine.go); the slave tells the *)
(* client a lifetime out of its own configuration and the client's wish    *)
(* (server/response_gen.cpp), and the wish does not reach the master.  The *)
(* two are changed by different commands.  One address, several clients;   *)
(* times are what is left of them.                                         *)
(***************************************************************************)
EXTENDS Integers, FiniteSets

CONSTANTS Client, None,
          Lifetime,     \* lifetimes that configurations and wishes name
          Width         \* bits of an int

ASSUME LeaseTermAssumption == Lifetime \subseteq Nat /\ Width \in Nat \ {0}

\* The law of powers of two, which the provers do not know.
ASSUME PowerAssumption == 2^(Width - 1) \in Nat /\ 2^Width = 2 * 2^(Width - 1)

VARIABLES ttl,      \* the master's subnet.ValidLifeTime
          valid,    \* the slave's Triplet: [min, default, max]
          owner,    \* the client of the master's lease of the address
          life,     \* that lease's own ValidLifeTime
          left,     \* what is left of that lease
          held,     \* what is left of the lifetime that each client was told
          covered   \* history: what the slave may tell never was more than ttl

vars == <<ttl, valid, owner, life, left, held, covered>>

Max2(a, b) == IF a < b THEN b ELSE a
Min2(a, b) == IF a < b THEN a ELSE b

\* createSubnet brings the three lifetimes in order.
createSubnet(min, default, max) ==
  [min |-> Min2(min, default), default |-> default, max |-> Max2(max, default)]

\* Mutant: no upper bound.
GetUnbounded(hint) == IF hint = None THEN valid.default ELSE Max2(hint, valid.min)

\* Triplet::get, Triplet::get(hint).
Get(hint) ==
  IF hint = None THEN valid.default
  ELSE IF hint <= valid.min THEN valid.min
  ELSE IF hint >= valid.max THEN valid.max
  ELSE hint

Init ==
  /\ ttl \in Lifetime
  /\ valid \in {createSubnet(min, ttl, max) : min, max \in Lifetime}
  /\ owner = None /\ life = 0 /\ left = 0 /\ held = [c \in Client |-> 0]
  /\ covered = (valid.max <= ttl)

-----------------------------------------------------------------------------

\* A request (or a renewal) that the master grants, and its acknowledgement.
Acknowledge(c, hint) ==
  /\ owner = c \/ left = 0
  /\ owner' = c /\ life' = ttl /\ left' = ttl
  /\ held' = [held EXCEPT ![c] = Get(hint)]
  /\ UNCHANGED <<ttl, valid, covered>>

Tick ==
  /\ left' = Max2(left - 1, 0)
  /\ held' = [c \in Client |-> Max2(held[c] - 1, 0)]
  /\ UNCHANGED <<ttl, valid, owner, life, covered>>

\* A client gives its address back.
Release(c) ==
  /\ owner = c /\ held[c] > 0
  /\ owner' = None /\ life' = 0 /\ left' = 0 /\ held' = [held EXCEPT ![c] = 0]
  /\ UNCHANGED <<ttl, valid, covered>>

\* A client finds its address in use: the lease stays, for another term of its own
\* lifetime, and belongs to nobody.
Decline(c) ==
  /\ owner = c /\ held[c] > 0
  /\ owner' = None /\ left' = life /\ held' = [held EXCEPT ![c] = 0]
  /\ UNCHANGED <<ttl, valid, life, covered>>

\* The master's UpdateSubnet.
updateSubnet(t) ==
  /\ ttl' = t /\ covered' = (covered /\ valid.max <= t)
  /\ UNCHANGED <<valid, owner, life, left, held>>

\* The slave is configured again.
reconfigure(min, default, max) ==
  /\ valid' = createSubnet(min, default, max) /\ covered' = (covered /\ valid'.max <= ttl)
  /\ UNCHANGED <<ttl, owner, life, left, held>>

Next ==
  \/ \E c \in Client : \/ Release(c) \/ Decline(c)
                        \/ \E hint \in Lifetime \cup {None} : Acknowledge(c, hint)
  \/ Tick
  \/ \E t \in Lifetime : updateSubnet(t)
  \/ \E min, default, max \in Lifetime : reconfigure(min, default, max)

Spec == Init /\ [][Next]_vars

-----------------------------------------------------------------------------
(* The timers of a reply: int arithmetic on a lifetime that is a uint32. *)

Signed(x) == LET y == x % 2^Width IN IF y < 2^(Width - 1) THEN y ELSE y - 2^Width
Unsigned(x) == x % 2^Width

\* Division in C++ rounds towards zero.
Quotient(a, b) == IF a < 0 THEN -((-a) \div b) ELSE a \div b

\* Mutant: the two timers are swapped.
Timers34(hint) ==
  LET lft == Signed(Get(hint))
  IN [t1 |-> Unsigned(Quotient(Signed(lft * 3), 4)), t2 |-> Unsigned(Quotient(lft, 2))]

Timers(hint) ==
  LET lft == Signed(Get(hint))
  IN [t1 |-> Unsigned(Quotient(lft, 2)), t2 |-> Unsigned(Quotient(Signed(lft * 3), 4))]

-----------------------------------------------------------------------------

TypeOK ==
  /\ ttl \in Nat /\ life \in Nat /\ left \in Nat
  /\ valid \in [min : Nat, default : Nat, max : Nat]
  /\ valid.min <= valid.default /\ valid.default <= valid.max
  /\ owner \in Client \cup {None}
  /\ held \in [Client -> Nat]
  /\ covered \in BOOLEAN

\* As long as the slave's max-valid-lifetime never was above the master's
\* default-valid-lifetime, no client counts on the address longer than the master
\* keeps it for that client (response_gen.cpp:66-73, engine.go:136).
TermCovered ==
  covered => /\ valid.max <= ttl
             /\ \A c \in Client : held[c] > 0 => owner = c /\ held[c] <= left

\* ... and so two clients never count on it at the same time.
OneHolder == covered => \A c, d \in Client : held[c] > 0 /\ held[d] > 0 => c = d

\* A client renews before it rebinds, and rebinds before its lease ends, as long
\* as three times the lifetime fits an int (response_gen.cpp:76-80).
TimersInOrder ==
  \A hint \in Lifetime \cup {None} :
    3 * Get(hint) < 2^(Width - 1) =>
      Timers(hint).t1 <= Timers(hint).t2 /\ Timers(hint).t2 <= Get(hint)

\* The master keeps an address for a client as long as the client counts on it, so that
\* it has one holder (response_gen.cpp:66-73, engine.go:136).
TermSound == TypeOK /\ TermCovered /\ OneHolder
=============================================================================
