----------------------------- MODULE MCDhcpv4Srv ------------------------------
(* The requests of clients in three settings, one of which is chosen at first. *)
(* "exclusive": two clients and one address, so that every lease that ends     *)
(* early is asked for again.  "conflict": two addresses, one of them squatted, *)
(* a fault, and retries over two connections.  "term": LeaseTerm, in which     *)
(* lifetimes are changed by commands to either program.                        *)
EXTENDS LeaseTerm, Sequences, TLC

CONSTANTS m1, m2, k1, k2, NoMac, NoClient, NoLease, NoAddr

VARIABLES setting, client, sends, query, inbox, ctx, queue, conn, orphans, pinging,
          engine, lastAllocateAddr, now, faults, reported, overtaken

srvVars == <<client, sends, query, inbox, ctx, queue, conn, orphans, pinging, engine,
             lastAllocateAddr, now, faults, reported, overtaken>>
allVars == <<setting, srvVars, vars>>

Symmetry == Permutations({m1, m2})

Exclusive ==
  INSTANCE Dhcpv4Srv WITH
    Addr <- {0, 1}, Mac <- {m1, m2}, ClientId <- {}, Conn <- {k1},
    InitPool <- [start |-> 1, end |-> 1], Ttl <- 1, MinLft <- 1, MaxLft <- 2, Hints <- {2},
    Squatted <- {}, Remembered <- 1, MaxRetry <- 1,
    MaxPkts <- 4, MaxOpen <- 2, MaxTime <- 2, MaxFaults <- 0

Conflict ==
  INSTANCE Dhcpv4Srv WITH
    Addr <- {0, 1, 2}, Mac <- {m1, m2}, ClientId <- {}, Conn <- {k1, k2},
    InitPool <- [start |-> 1, end |-> 2], Ttl <- 2, MinLft <- 1, MaxLft <- 2, Hints <- {},
    Squatted <- {1}, Remembered <- 1, MaxRetry <- 1,
    MaxPkts <- 2, MaxOpen <- 2, MaxTime <- 1, MaxFaults <- 1

ASSUME Exclusive!Dhcpv4SrvAssumption /\ Conflict!Dhcpv4SrvAssumption

TermAtRest == Init /\ ttl = 2 /\ valid = createSubnet(2, 2, 2)

MCInit ==
  \/ setting = "exclusive" /\ Exclusive!Init /\ TermAtRest
  \/ setting = "conflict" /\ Conflict!Init /\ TermAtRest
  \/ setting = "term" /\ Exclusive!Init /\ Init

MCNext ==
  /\ UNCHANGED setting
  /\ \/ setting = "exclusive" /\ Exclusive!Next /\ UNCHANGED vars
     \/ setting = "conflict" /\ Conflict!Next /\ UNCHANGED vars
     \/ setting = "term" /\ Next /\ UNCHANGED srvVars

MCSpec == MCInit /\ [][MCNext]_allVars
-----------------------------------------------------------------------------
\* Two clients never use one address, unless the slave granted it for longer than the
\* master keeps it or a release was handled late (server.cpp:234, response_gen.cpp:70).
NoDoubleUse == setting = "exclusive" => Exclusive!NoDoubleUse

\* A query that met a conflict is not offered the same address again, unless its retry
\* overtook the report of the conflict (server.cpp:207, 212).
NoRepeatedOffer == [][setting = "conflict" => Conflict!OffersNothingTried]_allVars

\* A context is in one place, with a worker, the queue, a connection or the conflict
\* check, until its query ends, and its query is tried at most MAX_RETRY_COUNT times
\* again (server.cpp:168-232).
ContextsSound ==
  setting = "conflict" => Conflict!ContextInOnePlace /\ Conflict!RoundsBounded
=============================================================================
