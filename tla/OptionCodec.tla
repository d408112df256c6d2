----------------------------- MODULE OptionCodec -----------------------------
(***************************************************************************)
(* The options of a packet, from its bytes to a collection and back:       *)
(* LibDHCP::unpackOptions4, unpackVendorOptions4 and packOptions4          *)
(* (slave/dhcp++/libdhcp++.cpp) and the option classes that they build.    *)
(* A byte has MaxByte + 1 values instead of 256, and addresses, integers   *)
(* and vendor identifiers are shorter than in the code by the same idea;   *)
(* every limit is stated in terms of MaxByte.                              *)
(***************************************************************************)
EXTENDS Naturals, Sequences, SequencesExt

CONSTANTS MaxByte,    \* largest byte: 255
          Agent,      \* DHO_DHCP_AGENT_OPTIONS
          AddrLen,    \* V4ADDRESS_LEN
          Kinds,      \* the definitions of the standard options, by code
          MaxBuffer   \* bound on the length of the options of a packet

Pad == 0
End == MaxByte
Byte == 0..MaxByte
Code == 1..MaxByte - 1
Kind == {"binary", "integer", "string", "list", "fixed", "agent", "vendor"}

OptionCodecAssumption ==
  /\ MaxByte \in Nat /\ MaxBuffer \in Nat /\ AddrLen \in Nat \ {0}
  /\ Agent \in Code
  /\ Kinds \subseteq [Code -> Kind]

VARIABLES kind,      \* definition of each code
          buf,       \* bytes of the options of a packet, before the END that pack writes
          offset,    \* what unpackOptions4 returned
          options,   \* the collection that was read from them
          first,     \* history: the bytes and the collection of the packet that came in
          state      \* arrived, read, packed, thrown, reread

vars == <<kind, buf, offset, options, first, state>>

-----------------------------------------------------------------------------
(* Reading. *)

\* An option: its code, the data of its own and its sub-options.
Option(type, data, subs) == [type |-> type, data |-> data, subs |-> subs]

\* insert of a multimap: sorted by code, later ones after earlier ones.
insert(collection, opt) ==
  LET before(o) == o.type <= opt.type
      after(o) == o.type > opt.type
  IN SelectSeq(collection, before) \o <<opt>> \o SelectSeq(collection, after)

\* The buffer ends before the option that begins after n bytes does.
Truncated(bytes, n) ==
  n + 2 > Len(bytes) \/ n + 2 + bytes[n + 2] > Len(bytes)

uint8(n) == n % (MaxByte + 1)

\* Sub-options of a vendor up to offset_end; none has a definition.  The answer is
\* a sequence of one collection, or none when the code throws.
RECURSIVE VendorLoop(_, _, _, _)
VendorLoop(bytes, n, offset_end, collection) ==
  IF n >= offset_end THEN <<collection>>
  ELSE IF n + 2 > offset_end \/ n + 2 + bytes[n + 2] > offset_end THEN <<>>
  ELSE LET last == n + 2 + bytes[n + 2]
       IN VendorLoop(bytes, last, offset_end,
                     insert(collection, Option(bytes[n + 1], SubSeq(bytes, n + 3, last), <<>>)))

\* Only the first block is read: the loop ends with a break.
unpackVendorOptions4(bytes) ==
  IF bytes = <<>> THEN << <<>> >>
  ELSE IF 1 + bytes[1] > Len(bytes) THEN <<>>
  ELSE VendorLoop(bytes, 1, uint8(1 + bytes[1]), <<>>)

\* The classes of options: the option in a sequence, or none when it refuses its data.
Refused == <<>>

OptionString(type, data) == IF data = <<>> THEN Refused ELSE <<Option(type, data, <<>>)>>

Option4AddrLst(type, data) ==
  IF Len(data) % AddrLen # 0 THEN Refused ELSE <<Option(type, data, <<>>)>>

OptionVendor(type, data) ==
  LET subs == unpackVendorOptions4(Tail(data))
  IN IF data = <<>> THEN Refused ELSE IF subs = <<>> THEN Refused ELSE <<Option(type, <<data[1]>>, subs[1])>>

RECURSIVE unpackOptions4(_, _, _, _)

\* What follows the value is read as standard options.
OptionInt(type, data) ==
  IF data = <<>> THEN Refused
  ELSE <<Option(type, <<data[1]>>, unpackOptions4(Tail(data), kind, 0, <<>>).options)>>

\* An address, whatever follows it; or no data, and sub-options of a space in which
\* nothing is defined.
OptionCustom(definition, type, data) ==
  IF definition = "agent"
  THEN <<Option(type, <<>>, unpackOptions4(data, [c \in Code |-> "binary"], 0, <<>>).options)>>
  ELSE IF Len(data) < AddrLen THEN Refused
  ELSE <<Option(type, SubSeq(data, 1, AddrLen), <<>>)>>

optionFactory(definition, type, data) ==
  CASE definition = "binary"  -> <<Option(type, data, <<>>)>>
    [] definition = "string"  -> OptionString(type, data)
    [] definition = "list"    -> Option4AddrLst(type, data)
    [] definition = "integer" -> OptionInt(type, data)
    [] definition = "vendor"  -> OptionVendor(type, data)
    [] OTHER                  -> OptionCustom(definition, type, data)

\* The loop, with n bytes read into collection.  What a class refuses is left out.
unpackOptions4(bytes, space, n, collection) ==
  IF n >= Len(bytes) \/ bytes[n + 1] = End THEN [options |-> collection, offset |-> n]
  ELSE IF bytes[n + 1] = Pad THEN unpackOptions4(bytes, space, n + 1, collection)
  ELSE IF Truncated(bytes, n) THEN [options |-> collection, offset |-> n]
  ELSE LET type == bytes[n + 1]
           last == n + 2 + bytes[n + 2]
           made == optionFactory(space[type], type, SubSeq(bytes, n + 3, last))
       IN unpackOptions4(bytes, space, last,
                         IF made = Refused THEN collection ELSE insert(collection, made[1]))

-----------------------------------------------------------------------------
(* Writing. *)

\* getHeaderLen of every option.
OPTION4_HDR_LEN == 2

\* A vendor option has the length of its block after the vendor identifier.
BlockLen(space, opt) == IF space[opt.type] = "vendor" THEN 1 ELSE 0

\* Sub-options have the definitions of the standard options in an integer only.
SubSpace(space, opt) ==
  IF space[opt.type] = "integer" THEN space ELSE [c \in Byte |-> "binary"]

\* Mutant: sub-options are not counted.
LenOfData(space, opt) == OPTION4_HDR_LEN + Len(opt.data) + BlockLen(space, opt)

RECURSIVE len(_, _)
len(space, opt) ==
  OPTION4_HDR_LEN + Len(opt.data) + BlockLen(space, opt)
    + FoldSeq(LAMBDA o, n : n + len(SubSpace(space, opt), o), 0, opt.subs)

\* A list of addresses limits its data, any other option what len returns.
TooBig(space, opt) ==
  IF space[opt.type] = "list" THEN Len(opt.data) > MaxByte ELSE len(space, opt) > MaxByte

\* RAI and END options are last, and of several only the last one is written.
PackOrder(collection) ==
  LET other(o) == o.type \notin {Agent, End}
      one(c) == LET is(o) == o.type = c
                    those == SelectSeq(collection, is)
                IN IF those = <<>> THEN <<>> ELSE <<Last(those)>>
  IN SelectSeq(collection, other) \o one(Agent) \o one(End)

RECURSIVE packOptions4(_, _)
\* pack of the option classes.
pack(space, opt) ==
  LET block == len(space, opt) - OPTION4_HDR_LEN - Len(opt.data) - 1
  IN <<opt.type, uint8(len(space, opt) - OPTION4_HDR_LEN)>> \o opt.data
       \o (IF space[opt.type] = "vendor" THEN <<uint8(block)>> ELSE <<>>)
       \o packOptions4(SubSpace(space, opt), opt.subs)

packOptions4(space, collection) ==
  FoldLeft(LAMBDA bytes, o : bytes \o pack(space, o), <<>>, PackOrder(collection))

-----------------------------------------------------------------------------
(* A packet is read, its options are written to another one, and that is   *)
(* read by the same code.                                                  *)

Init ==
  /\ kind \in Kinds
  /\ buf \in UNION {[1..n -> Byte] : n \in 0..MaxBuffer}
  /\ offset = 0 /\ options = <<>> /\ first = [buf |-> <<>>, options |-> <<>>]
  /\ state = "arrived"

Read(from, to) ==
  LET result == unpackOptions4(buf, kind, 0, <<>>)
  IN /\ state = from /\ state' = to
     /\ options' = result.options /\ offset' = result.offset
     /\ UNCHANGED <<kind, buf>>

\* Pkt::unpack.
unpack == Read("arrived", "read") /\ first' = [buf |-> buf, options |-> options']

\* Pkt::pack; what it writes after the options is the END.  A sub-option is never
\* too big when the option that it is part of is not.
Pack ==
  /\ state = "read"
  /\ IF \E i \in DOMAIN options : TooBig(kind, options[i])
     THEN state' = "thrown" /\ UNCHANGED <<kind, buf, offset, options, first>>
     ELSE state' = "packed" /\ buf' = packOptions4(kind, options) /\ UNCHANGED <<kind, offset, options, first>>

Reread == Read("packed", "reread") /\ UNCHANGED first

Next == unpack \/ Pack \/ Reread

Spec == Init /\ [][Next]_vars

-----------------------------------------------------------------------------
\* Codes of which packOptions4 writes one option, at one place of a collection.
RECURSIVE Unambiguous(_)
Unambiguous(collection) ==
  /\ \A i, j \in DOMAIN collection :
       i # j /\ collection[i].type = collection[j].type => collection[i].type \notin {Agent, End}
  /\ \A i \in DOMAIN collection : Unambiguous(collection[i].subs)

\* What unpackOptions4 leaves unread begins with END or is a truncated option, as the
\* comment in Pkt::unpack lists the cases: no whole option is skipped.
NothingLeftUnread ==
  state = "read" => \/ offset = Len(buf)
                    \/ offset < Len(buf) /\ buf[offset + 1] = End
                    \/ offset + 2 > Len(buf)
                    \/ offset + 2 + buf[offset + 2] > Len(buf)

\* Options that were read and written are read again as they were, nested ones
\* included, whatever their classes made of their data: the lengths that pack writes
\* are the lengths of what it writes.  A collection with two relay agent options, of
\* which packOptions4 drops one and len counts both, is excepted.
RoundTrip ==
  state = "reread" /\ Unambiguous(first.options) => options = first.options /\ offset = Len(buf)

\* pack throws only for an option that takes more than 255 bytes with its header, in
\* the bytes that it would write.
ThrowsOnlyWhenLong ==
  state = "thrown" /\ Unambiguous(first.options) =>
    \E i \in DOMAIN first.options : Len(pack(kind, first.options[i])) > MaxByte
=============================================================================
