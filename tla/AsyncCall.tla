------------------------------ MODULE AsyncCall ------------------------------
(***************************************************************************)
(* What a caller may rely on when it hands a client context to one of the  *)
(* slave's asynchronous services: the RPC engine                           *)
(* (RpcAllocateEngine::allocateAddr) and the conflict check                *)
(* (Pinger::ping).  The context moves to the service.  It comes back       *)
(* through the callback once, with an answer that belongs to it, or it is  *)
(* lost, and both are final.  RpcAllocateEngine and Pinger implement it.   *)
(***************************************************************************)
CONSTANTS Call,     \* client contexts
          Answers(_) \* the answers that may be given to a call

VARIABLE status     \* what became of each call

NotCalled == <<"not called">>
Pending == <<"pending">>
Lost == <<"lost">>
Answered(r) == <<"answered", r>>

Init == status = [c \in Call |-> NotCalled]

Submit(c) == /\ status[c] = NotCalled
             /\ status' = [status EXCEPT ![c] = Pending]

\* The callback is called.
Finish(c) == /\ status[c] = Pending
             /\ \E r \in Answers(c) : status' = [status EXCEPT ![c] = Answered(r)]

\* Contexts go together when a service stops.
Lose == LET gone == {c \in Call : status'[c] # status[c]}
        IN /\ \A c \in gone : status[c] \in {NotCalled, Pending}
           /\ status' = [c \in Call |-> IF c \in gone THEN Lost ELSE status[c]]

Next == /\ status' # status
        /\ \/ \E c \in Call : Submit(c) \/ Finish(c)
           \/ Lose

Spec == Init /\ [][Next]_status
=============================================================================
