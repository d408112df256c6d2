----------------------------- MODULE ClientFqdn ------------------------------
(***************************************************************************)
(* The client FQDN option (slave/dhcp++/option4_client_fqdn.cpp): how its  *)
(* flags, its name and the type of the name change, and what is written of *)
(* it and read back.  Names are told apart by what the code looks at: the  *)
(* last character of the text and the last octet of the wire format.  The  *)
(* conversions of the names themselves are in NameText and NameWire.       *)
(***************************************************************************)
EXTENDS Integers

Flag == {"S", "O", "E", "N"}
MBZ == "MBZ"            \* one of the other bits of the octet

\* Names whose last label ends in a period, in the octet 0, or in another octet.
Name == {"root", "plain", "endsInPeriod", "endsInZero"}
NoName == "none"

Type == {"PARTIAL", "FULL"}

\* What follows the flags: nothing, a name with or without the root that ends it (in
\* labels or in ASCII, as flag E says), or octets that are no name.
Wire ==
  [flags : SUBSET (Flag \cup {MBZ}),
   name  : [name : {NoName}, final : {FALSE}] \cup [name : Name \ {"root"}, final : BOOLEAN]
             \cup [name : {"root"}, final : {TRUE}] \cup [name : {"bad"}, final : {FALSE}]]

VARIABLES opt,       \* flags_, domain_name_ and domain_name_type_
          checked    \* whether flags_ was assigned by a call that returned (history)

vars == <<opt, checked>>

Option == [flags : SUBSET (Flag \cup {MBZ}), name : Name \cup {NoName}, type : Type]

-----------------------------------------------------------------------------
(* Checks and conversions. *)

checkFlags(flags, check_mbz) ==
  /\ check_mbz => MBZ \notin flags
  /\ ~({"N", "S"} \subseteq flags)

\* The name in wire data and its type, or no value if it throws.  Labels without a root
\* whose last octet is 0 are taken for a name with its root, which then is not there.
parseCanonicalDomainName(w) ==
  IF w.name = "bad" \/ (w.name = "endsInZero" /\ ~w.final) THEN {}
  ELSE {[name |-> w.name, type |-> IF w.final THEN "FULL" ELSE "PARTIAL"]}

parseASCIIDomainName(w) ==
  IF w.name = "bad" THEN {}
  ELSE {[name |-> w.name,
         type |-> IF w.final \/ w.name = "endsInPeriod" THEN "FULL" ELSE "PARTIAL"]}

\* What parseWireData makes of an option: without a name the old one stays.
parseWireData(o, w) ==
  {[flags |-> w.flags, name |-> p.name, type |-> p.type] :
     p \in IF w.name.name = NoName THEN {[name |-> o.name, type |-> o.type]}
           ELSE IF "E" \in w.flags THEN parseCanonicalDomainName(w.name)
           ELSE parseASCIIDomainName(w.name)}

\* pack and packDomainName.  The root is written as a period whatever its type is, and
\* as labels it is nothing without its last octet.
pack(o) ==
  [flags |-> o.flags,
   name  |-> IF o.name = NoName \/ (o.name = "root" /\ o.type = "PARTIAL" /\ "E" \in o.flags)
             THEN [name |-> NoName, final |-> FALSE]
             ELSE [name |-> o.name, final |-> o.type = "FULL" \/ o.name = "root"]]

-----------------------------------------------------------------------------
(* The calls. *)

Throws == UNCHANGED <<opt, checked>>

setDomainName(name, type) ==
  IF name = "bad" \/ (name = NoName /\ type = "FULL") THEN Throws
  ELSE opt' = [opt EXCEPT !.name = name, !.type = type] /\ UNCHANGED checked

NewFlags(flags, set) == IF set THEN opt.flags \cup flags ELSE opt.flags \ flags

setFlag(flags, set) ==
  IF flags = {} \/ MBZ \in flags \/ ~checkFlags(NewFlags(flags, set), TRUE) THEN Throws
  ELSE opt' = [opt EXCEPT !.flags = NewFlags(flags, set)] /\ checked' = TRUE

resetFlags == opt' = [opt EXCEPT !.flags = {}] /\ checked' = TRUE

\* Data that is too short for the flags changes nothing.
unpackTruncated == Throws

\* The flags are assigned before the name is parsed and before they are checked.
unpack(w) ==
  LET parsed == parseWireData(opt, w)
  IN /\ opt' = IF parsed = {} THEN [opt EXCEPT !.flags = w.flags]
               ELSE CHOOSE o \in parsed : TRUE
     /\ checked' = (parsed # {} /\ checkFlags(w.flags, FALSE))

\* An option that is made from values, or from the wire; the type of a name that is
\* not there is then not initialized.
FromValues == {o \in Option : checkFlags(o.flags, TRUE) /\ ~(o.name = NoName /\ o.type = "FULL")}
FromWire ==
  UNION {parseWireData([flags |-> {}, name |-> NoName, type |-> t], w) :
           t \in Type, w \in {x \in Wire : checkFlags(x.flags, FALSE)}}

Init ==
  /\ opt \in FromValues \cup FromWire
  /\ checked = TRUE

Next ==
  \/ \E name \in Name \cup {NoName, "bad"}, type \in Type : setDomainName(name, type)
  \/ \E flags \in SUBSET (Flag \cup {MBZ}), set \in BOOLEAN : setFlag(flags, set)
  \/ resetFlags
  \/ \E w \in Wire : unpack(w)
  \/ unpackTruncated

Spec == Init /\ [][Next]_vars

-----------------------------------------------------------------------------
\* Flags N and S are never set together, by any sequence of calls, unless the call that
\* assigned the flags, unpack, has thrown and left them.
NeverBothNAndS == checked => ~({"N", "S"} \subseteq opt.flags)

\* What pack writes is read as the same option, also by an option that held another one
\* before.  Left out are partial names that a reader takes for full ones (the root, one
\* that ends in a period in ASCII, and one that ends in the octet 0 in labels) and an
\* option without a name, which leaves the reader the name it had.
PackRoundTrip ==
  \/ opt.name = NoName \/ ~checkFlags(opt.flags, FALSE)
  \/ /\ opt.type = "PARTIAL"
     /\ opt.name \in {"root", IF "E" \in opt.flags THEN "endsInZero" ELSE "endsInPeriod"}
  \/ \A old \in Option : parseWireData(old, pack(opt)) = {opt}
=============================================================================
