----------------------------- MODULE ResponseGen -----------------------------
(***************************************************************************)
(* The options of a reply (slave/server/response_gen.cpp): genAckResponse  *)
(* and genNakResponse add the options that they take over from the query,  *)
(* the ones that they compute, the ones that a reply of a subnet always    *)
(* has, the ones that the query asks for, and the server identifier, in    *)
(* this order; Pkt::addOption throws for an option that is already there.  *)
(* Only where the value of an option comes from is kept; module PacketPath *)
(* has the addresses of a reply.                                           *)
(***************************************************************************)
EXTENDS Naturals, Sequences, SequencesExt, TLC

CONSTANTS Required,       \* required_options of appendBasicOptions, in its order
          Configurable,   \* options that the configuration of a subnet may give values
          Requestable,    \* options that a query may ask for
          MaxRequested    \* bound on how many it asks for

Echoed == <<"client_id", "agent", "subnet_selection">>
Computed == <<"lease_time", "renewal_time", "rebinding_time">>

VARIABLES query,     \* type, options, and the parameter request list: <<>> for none
          subnet,    \* its option data, and which of T1 and T2 are specified
          kind,      \* ack or nak; a reply to a discover is an offer
          todo,      \* what is still to be added
          resp,      \* the options of the reply: where their values come from
          state      \* building, built or thrown

vars == <<query, subnet, kind, todo, resp, state>>

-----------------------------------------------------------------------------
\* One call of addOption, and one of addOption for the value that the subnet has for
\* an option that the reply does not have yet.
Add(code, source) == [always |-> TRUE, code |-> code, source |-> source]
AddMissing(code) == [always |-> FALSE, code |-> code, source |-> "subnet"]

All(codes, Op(_)) == [i \in DOMAIN codes |-> Op(codes[i])]

\* The query's options that are taken over; the type is added by the constructor.
initResponse(q) ==
  LET has(c) == c \in q.options
      copy(c) == Add(c, "query")
  IN <<Add("type", "server")>> \o All(SelectSeq(Echoed, has), copy)

appendBasicOptions(q, s) ==
  LET given(c) == c \in s.times \cup {"lease_time"}
      compute(c) == Add(c, "server")
  IN (IF q.type = "inform" THEN <<>> ELSE All(SelectSeq(Computed, given), compute))
       \o <<Add("subnet_mask", "server")>> \o All(Required, AddMissing)

appendRequestedOptions(q, s) == All(q.requested, AddMissing)

appendIfaceData == <<Add("server_id", "server")>>

\* Mutant: the options that are asked for are added before the basic ones.
genAckRequestedFirst(q, s) ==
  initResponse(q) \o appendRequestedOptions(q, s) \o appendBasicOptions(q, s) \o appendIfaceData

genAckResponse(q, s) ==
  initResponse(q) \o appendBasicOptions(q, s) \o appendRequestedOptions(q, s) \o appendIfaceData

genNakResponse(q) == initResponse(q) \o appendIfaceData

-----------------------------------------------------------------------------
Init ==
  /\ query \in [type : {"discover", "request", "inform"},
                options : SUBSET Range(Echoed),
                requested : SeqOf(Requestable, MaxRequested)]
  /\ subnet \in [optdata : SUBSET Configurable,
                 times : SUBSET {"renewal_time", "rebinding_time"}]
  /\ kind \in {"ack", "nak"}
  /\ todo = IF kind = "ack" THEN genAckResponse(query, subnet) ELSE genNakResponse(query)
  /\ resp = <<>> /\ state = "building"

\* Whether addOption is called: the tests in front of it.
Wanted(item) == item.always \/ (item.code \notin DOMAIN resp /\ item.code \in subnet.optdata)

addOption(item) ==
  IF item.code \in DOMAIN resp
  THEN state' = "thrown" /\ resp' = resp
  ELSE resp' = (item.code :> item.source) @@ resp /\ state' = state

Step ==
  /\ state = "building" /\ todo # <<>>
  /\ IF Wanted(Head(todo)) THEN addOption(Head(todo)) ELSE UNCHANGED <<resp, state>>
  /\ todo' = Tail(todo)
  /\ UNCHANGED <<query, subnet, kind>>

Finish ==
  /\ state = "building" /\ todo = <<>> /\ state' = "built"
  /\ UNCHANGED <<query, subnet, kind, todo, resp>>

Next == Step \/ Finish

Spec == Init /\ [][Next]_vars

-----------------------------------------------------------------------------
\* A reply cannot be built, and the exception ends the handling of its query, only
\* when the subnet has a server identifier among its option data and the query asks
\* for it: appendIfaceData adds its own without a test.
FailsOnlyForIdentifier ==
  state = "thrown" => kind = "ack" /\ "server_id" \in subnet.optdata \cap Range(query.requested)

\* Every option that the query asks for, or that a reply always has, and that the
\* subnet has a value for is in the reply that grants an address.
RequestedOptionsAreSent ==
  state = "built" /\ kind = "ack" =>
    (Range(query.requested) \cup Range(Required)) \cap subnet.optdata \subseteq DOMAIN resp

\* The times of a lease, the mask and the identifier that are sent are the ones that
\* the server computes, and what identifies the client and its relay is what the
\* query has, whatever the configuration of the subnet and the query's list say.
OwnValuesWin ==
  state = "built" /\ kind = "ack" =>
    /\ \A c \in query.options : resp[c] = "query"
    /\ resp["subnet_mask"] = "server" /\ resp["server_id"] = "server"
    /\ query.type # "inform" => \A c \in subnet.times \cup {"lease_time"} : resp[c] = "server"
=============================================================================
