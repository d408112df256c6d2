--------------------------- MODULE MCAddrAllocator ----------------------------
(* AddrAllocator in two configurations, one of which is chosen at first:     *)
(* requests of two clients without commands, and commands between and during *)
(* the requests of one client.  Subnets 1 and 2 hold the addresses 1 and 2.  *)
EXTENDS Integers, Sequences, TLC

CONSTANTS m1, m2, n1, r1, r2, NoMac, NoClient, NoLease, NoAddr, NoEngine, None

VARIABLES setting, engines, lastAllocateAddr, shared, session, commands, panicked,
          consistent, intruded

vars == <<setting, engines, lastAllocateAddr, shared, session, commands, panicked,
          consistent, intruded>>

Symmetry == Permutations({m1, m2}) \cup Permutations({r1, r2})

Pools(s) == <<[start |-> s, end |-> s]>>
Lan == <<[name |-> "lan", ids |-> <<1, 2>>]>>

Requests ==
  INSTANCE AddrAllocator WITH
    Mac <- {m1, m2}, ClientId <- {}, Addr <- 0..2, SubnetID <- {1, 2}, Missing <- {},
    InitPools <- Pools, InitHosts <- LAMBDA s : [m \in {m1, m2} |-> NoAddr],
    InitShared <- Lan, SharedChoice <- {}, Session <- {r1, r2},
    Kinds <- {"discover", "request", "release", "decline"}, MaxCommands <- 0

Commands ==
  INSTANCE AddrAllocator WITH
    Mac <- {n1}, ClientId <- {}, Addr <- 0..2, SubnetID <- {1, 2}, Missing <- {},
    InitPools <- Pools, InitHosts <- LAMBDA s : [m \in {n1} |-> NoAddr],
    InitShared <- Lan, SharedChoice <- [name : {"lan", "wan"}, ids : {<<2, 1>>}],
    Session <- {r1, r2}, Kinds <- {"discover", "conflict"}, MaxCommands <- 2

Init == \/ setting = "requests" /\ Requests!Init
        \/ setting = "commands" /\ Commands!Init

Next == /\ UNCHANGED setting
        /\ \/ setting = "requests" /\ Requests!Next
           \/ setting = "commands" /\ Commands!Next

Spec == Init /\ [][Next]_vars
-----------------------------------------------------------------------------
\* No address is leased in two subnets of a shared network at the same time
\* (addr_allocator.go:110-133).
AddressHeldOnce == setting = "requests" => Requests!AddressHeldOnce

\* What a discover offers out of a shared network, a request gets, out of the same
\* subnet (addr_allocator.go:82-133).
SharedOfferHonoured == setting = "requests" => Requests!SharedOfferHonoured

\* A walk ends, also when a command changes the shared networks between two turns, and
\* it meets a subnet without engine only when a shared network named one or a command
\* ran during the request (addr_allocator.go:91-99, 119-122).
WalksEndWell ==
  /\ [](setting = "commands" => Commands!NoPanicWhenConsistent)
  /\ [][setting = "commands" => Commands!WalkShortens]_vars
=============================================================================
