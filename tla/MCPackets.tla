------------------------------ MODULE MCPackets -------------------------------
(* What the slave does with a packet, a part at a time: its reserved hosts, the   *)
(* client FQDN option, the options of a reply, the way of packets through the     *)
(* sockets, client classes, or the coding of options.  The part is chosen at      *)
(* first; the variables of the others are None.                                   *)
EXTENDS HostsInMem

CONSTANTS vendor, host

VARIABLES which, opt, checked,
          query, subnet, replyKind, replyTodo, resp, replyState,
          receiver, control, current, in_queue, out_queue, sender, used, cleared,
          text, todo, tokens, matcher_stack, operator_stack, classState,
          kind, buf, offset, options, first, codecState

fqdnVars == <<opt, checked>>
replyVars == <<query, subnet, replyKind, replyTodo, resp, replyState>>
pathVars == <<receiver, control, current, in_queue, out_queue, sender, used, cleared>>
classVars == <<text, todo, tokens, matcher_stack, operator_stack, classState>>
codecVars == <<kind, buf, offset, options, first, codecState>>
allVars == <<which, hosts, fqdnVars, replyVars, pathVars, classVars, codecVars>>

Fqdn == INSTANCE ClientFqdn
Reply == INSTANCE ResponseGen WITH
  Required <- <<"routers", "domain_name">>,
  Configurable <- {"lease_time", "client_id", "routers", "server_id", "other"},
  Requestable <- {"type", "lease_time", "client_id", "routers", "server_id", "other"},
  MaxRequested <- 2, kind <- replyKind, todo <- replyTodo, state <- replyState

\* A socket on each address of the interface, of which s1 is in the second subnet.
Path == INSTANCE PacketPath WITH
  Zero <- "zero", Bcast <- "bcast", Sockets <- <<"s1", "s2">>, IfaceAddr <- "s1",
  Foreign <- "f", Class <- {}, Selects <- {"zero", "g"},
  Subnets <- <<[range |-> {"c"}, white |-> {}, black |-> {"bad"}],
               [range |-> {"s1", "g"}, white |-> {}, black |-> {}]>>,
  Destinations <- {"bcast", "s1", "s2"}, Clients <- {"zero", "c"},
  Relays <- {"zero", "g", "bcast"}, MaxUsed <- 1

\* Checks of every kind, one with a number too many and one with a number too few.
Checks == {
  [kind |-> "exists", code |-> host, sign |-> "n", args |-> <<>>, value |-> <<>>],
  [kind |-> "value", code |-> vendor, sign |-> "n", args |-> <<>>, value |-> <<"a", "b">>],
  [kind |-> "substring", code |-> vendor, sign |-> "y", args |-> <<1, 2>>, value |-> <<"b">>],
  [kind |-> "substring", code |-> host, sign |-> "y", args |-> <<0, 1, 1>>, value |-> <<"a">>],
  [kind |-> "substring", code |-> host, sign |-> "y", args |-> <<0>>, value |-> <<"a">>]}
Classes == INSTANCE ClientClass WITH
  Check <- Checks, Value <- {<<>>, <<"a", "b">>}, Code <- {vendor, host},
  MaxItems <- 3, MaxBracket <- 2, state <- classState

\* Every class of options, with codes before and after that of the relay agent.
Codec == INSTANCE OptionCodec WITH
  MaxByte <- 5, Agent <- 3, AddrLen <- 2, MaxBuffer <- 6, state <- codecState,
  Kinds <- {<<"integer", "list", "agent", "vendor">>, <<"string", "binary", "agent", "fixed">>}

ASSUME Classes!ClientClassAssumption /\ Codec!OptionCodecAssumption

NoFqdn == opt = None /\ checked = None
NoReply == /\ query = None /\ subnet = None /\ replyKind = None /\ replyTodo = None
           /\ resp = None /\ replyState = None
NoPath == /\ receiver = None /\ control = None /\ current = None /\ in_queue = None
          /\ out_queue = None /\ sender = None /\ used = None /\ cleared = None
NoClass == /\ text = None /\ todo = None /\ tokens = None /\ matcher_stack = None
           /\ operator_stack = None /\ classState = None
NoCodec == /\ kind = None /\ buf = None /\ offset = None /\ options = None
           /\ first = None /\ codecState = None

MCInit ==
  /\ Init
  /\ \/ which = "hosts" /\ NoFqdn /\ NoReply /\ NoPath /\ NoClass /\ NoCodec
     \/ which = "fqdn" /\ Fqdn!Init /\ NoReply /\ NoPath /\ NoClass /\ NoCodec
     \/ which = "reply" /\ Reply!Init /\ NoFqdn /\ NoPath /\ NoClass /\ NoCodec
     \/ which = "path" /\ Path!Init /\ NoFqdn /\ NoReply /\ NoClass /\ NoCodec
     \/ which = "class" /\ Classes!Init /\ NoFqdn /\ NoReply /\ NoPath /\ NoCodec
     \/ which = "codec" /\ Codec!Init /\ NoFqdn /\ NoReply /\ NoPath /\ NoClass

\* A step of the part p.
Part(p, Step) ==
  /\ which = p /\ UNCHANGED which
  /\ Step
  /\ p # "hosts" => UNCHANGED hosts
  /\ p # "fqdn" => UNCHANGED fqdnVars
  /\ p # "reply" => UNCHANGED replyVars
  /\ p # "path" => UNCHANGED pathVars
  /\ p # "class" => UNCHANGED classVars
  /\ p # "codec" => UNCHANGED codecVars

MCNext ==
  \/ Part("hosts", Next)
  \/ Part("fqdn", Fqdn!Next)
  \/ Part("reply", Reply!Next)
  \/ Part("path", Path!Next)
  \/ Part("class", Classes!Next)
  \/ Part("codec", Codec!Next)

MCSpec == MCInit /\ [][MCNext]_allVars
-----------------------------------------------------------------------------

\* Every search for a reservation finds the same one, and the matcher of a client class
\* means what its text says (hosts_in_mem.cpp, client_class_matcher.cpp:17, 50-120).
LookupsAgree ==
  /\ which = "hosts" => SearchesAgree
  /\ which = "class" => /\ Classes!NoAssertFails /\ Classes!BuildsWhatIsWritten
                        /\ Classes!ThrowsOnlyPastTheEnd

\* Options are read again as they were written, none is skipped, and only what does not
\* fit is refused; a client FQDN option never has the flags N and S both
\* (libdhcp++.cpp:126-181, option.cpp:80-110, option4_client_fqdn.cpp:126-166).
OptionsSound ==
  /\ which = "codec" => /\ Codec!NothingLeftUnread /\ Codec!RoundTrip
                        /\ Codec!ThrowsOnlyWhenLong
  /\ which = "fqdn" => Fqdn!NeverBothNAndS /\ Fqdn!PackRoundTrip

\* A reply fails only over the server identifier, has what was asked for and the values
\* of the server, goes to an address, and names a server that takes its identifier back,
\* but for 0.0.0.0 after a send has cleared the control data of the query
\* (response_gen.cpp:109-185, server.cpp:322-343).
RepliesSound ==
  /\ which = "reply" => /\ Reply!FailsOnlyForIdentifier /\ Reply!RequestedOptionsAreSent
                        /\ Reply!OwnValuesWin
  /\ which = "path" => Path!ReplyHasDestination /\ Path!OwnIdentifierAccepted
=============================================================================
