------------------------------ MODULE NameText -------------------------------
(***************************************************************************)
(* The text of a domain name and its wire format: stringParse              *)
(* (slave/dns/name.cpp), which reads one character in each turn of its     *)
(* loop, and LabelSequence::toText (labelsequence.cpp).  An octet has      *)
(* fewer values than in the code, a decimal escape a smaller base, and     *)
(* a name and a label are shorter; the limits are constants.  The callers  *)
(* ask for no conversion to lower case.                                    *)
(***************************************************************************)
EXTENDS Integers, Sequences, SequencesExt, FiniteSets

CONSTANTS MaxOctet,                    \* 255
          Dot, Backslash, At, Bracket, \* '.', '\\', '@', '['
          Digits,                      \* the characters of the digits, in their order
          MAX_WIRE, MAX_LABELLEN,
          MaxText                      \* bound on the length of a text

Octet == 0..MaxOctet
Base == Len(Digits)
Decimal == 3       \* digits of a decimal escape
Special == {Dot, Backslash, At}
Printable == Special \cup {Bracket} \cup Range(Digits)

NameTextAssumption ==
  /\ MaxOctet \in Nat /\ Printable \subseteq Octet /\ Cardinality(Printable) = 4 + Base
  /\ MaxOctet < Base * Base * Base
  /\ MAX_WIRE \in Nat \ {0} /\ MAX_LABELLEN \in 1..MaxOctet /\ MaxText \in Nat

VARIABLES rest,    \* the characters from s to send
          p,       \* the local variables of stringParse, and how it ended
          name     \* what the first parse made: <<>>, or its wire format

vars == <<rest, p, name>>

Start == [state |-> "init", ndata |-> <<>>, offsets |-> <<0>>,
          digits |-> 0, value |-> 0, count |-> 0, out |-> "parsing"]

Throw(q, exception) == [q EXCEPT !.out = exception]

-----------------------------------------------------------------------------
(* One character, in the states of the parser. *)

isdigit(c) == c \in Range(Digits)
digitvalue(c) == SelectInSeq(Digits, LAMBDA d : d = c) - 1

PushOctet(q, c) ==
  IF q.count + 1 > MAX_LABELLEN THEN Throw(q, "TooLongLabel")
  ELSE [q EXCEPT !.count = @ + 1, !.ndata = Append(@, c), !.state = "ordinary"]

\* The length of the label that ends here is filled in, and the next one begins.
CloseLabel(q) ==
  [q EXCEPT !.ndata[Last(q.offsets) + 1] = q.count, !.offsets = Append(@, Len(q.ndata))]

PushRoot(q) == [q EXCEPT !.ndata = Append(@, 0), !.out = "accepted"]

Ordinary(q, c, end) ==
  IF c = Dot
  THEN IF q.count = 0 THEN Throw(q, "EmptyLabel")
       ELSE IF end THEN PushRoot([CloseLabel(q) EXCEPT !.state = "start"])
       ELSE [CloseLabel(q) EXCEPT !.state = "start"]
  ELSE IF c = Backslash THEN [q EXCEPT !.state = "escape"]
  ELSE PushOctet(q, c)

EscDecimal(q, c) ==
  LET value == q.value * Base + digitvalue(c)
  IN IF ~isdigit(c) THEN Throw(q, "BadEscape")
     ELSE IF q.digits + 1 < Decimal THEN [q EXCEPT !.digits = @ + 1, !.value = value]
     ELSE IF value > MaxOctet THEN Throw(q, "BadEscape")
     ELSE PushOctet([q EXCEPT !.digits = Decimal, !.value = value], value)

Escape(q, c) ==
  IF isdigit(c) THEN EscDecimal([q EXCEPT !.digits = 0, !.value = 0, !.state = "escdecimal"], c)
  ELSE PushOctet(q, c)

InitialEscape(q, c) == IF c = Bracket THEN Throw(q, "BadLabelType") ELSE Escape(q, c)

StartLabel(q, c, end) ==
  LET begun == [q EXCEPT !.ndata = Append(@, 0), !.count = 0]
  IN IF c = Backslash THEN [begun EXCEPT !.state = "initialescape"]
     ELSE IF Len(begun.ndata) >= MAX_WIRE THEN Throw(begun, "assert")
     ELSE Ordinary([begun EXCEPT !.state = "ordinary"], c, end)

InitName(q, c, end) ==
  IF c = Dot /\ ~end THEN Throw(q, "EmptyLabel")
  ELSE IF end /\ c \in {Dot, At} THEN PushRoot(q)
  ELSE StartLabel(q, c, end)

-----------------------------------------------------------------------------
\* The loop of stringParse.
stringParse ==
  /\ p.out = "parsing" /\ Len(p.ndata) < MAX_WIRE /\ rest # <<>>
  /\ LET c == Head(rest)
         end == Len(rest) = 1
     IN p' = CASE p.state = "init"          -> InitName(p, c, end)
               [] p.state = "start"         -> StartLabel(p, c, end)
               [] p.state = "ordinary"      -> Ordinary(p, c, end)
               [] p.state = "initialescape" -> InitialEscape(p, c)
               [] p.state = "escape"        -> Escape(p, c)
               [] p.state = "escdecimal"    -> EscDecimal(p, c)
  /\ rest' = Tail(rest)
  /\ UNCHANGED name

\* What follows the loop when no trailing period was found.
NoTrailingPeriod ==
  /\ p.out = "parsing" /\ (Len(p.ndata) >= MAX_WIRE \/ rest = <<>>)
  /\ p' = IF Len(p.ndata) = MAX_WIRE THEN Throw(p, "TooLongName")
          ELSE IF rest # <<>> THEN Throw(p, "assert")
          ELSE IF p.state # "ordinary" THEN Throw(p, "IncompleteName")
          ELSE IF p.count = 0 THEN Throw(p, "assert")
          ELSE PushRoot(CloseLabel(p))
  /\ UNCHANGED <<rest, name>>

\* The form \DDD of an octet.
EscapeOf(c) ==
  LET digit(n) == Digits[n + 1]
  IN <<Backslash, digit(c \div (Base * Base)), digit((c \div Base) % Base), digit(c % Base)>>

\* The characters of an octet of a label.
TextOf(c) ==
  IF c \in Special THEN <<Backslash, c>>
  ELSE IF c \in Printable THEN <<c>>
  ELSE EscapeOf(c)

\* The labels of a name without the root.
Labels(q) ==
  [i \in 1..Len(q.offsets) - 1 |->
     SubSeq(q.ndata, q.offsets[i] + 2, q.offsets[i] + 1 + q.ndata[q.offsets[i] + 1])]

\* toText(omit_final_dot): periods between labels, and the final one if it is wanted
\* or the name is the root.
toText(q, omit_final_dot) ==
  LET text(label) == FlattenSeq([i \in DOMAIN label |-> TextOf(label[i])])
      texts == [i \in DOMAIN Labels(q) |-> (IF i = 1 THEN <<>> ELSE <<Dot>>) \o text(Labels(q)[i])]
  IN FlattenSeq(texts) \o IF omit_final_dot /\ texts # <<>> THEN <<>> ELSE <<Dot>>

\* The name is written as text, and that is parsed.
Reparse ==
  /\ p.out = "accepted" /\ name = <<>>
  /\ name' = p.ndata
  /\ \E omit_final_dot \in BOOLEAN : rest' = toText(p, omit_final_dot)
  /\ p' = Start

Init ==
  /\ rest \in UNION {[1..n -> Octet] : n \in 0..MaxText}
  /\ p = Start /\ name = <<>>

Next == stringParse \/ NoTrailingPeriod \/ Reparse

Spec == Init /\ [][Next]_vars

-----------------------------------------------------------------------------
\* A name that is accepted has labels that follow one another from its first octet
\* to the root, no longer than a label may be, a root at its end, an offset for each
\* of them, and the length that the wire format allows.
AcceptedIsWellFormed ==
  p.out = "accepted" =>
    LET n == Len(p.offsets) - 1
    IN /\ Len(p.ndata) <= MAX_WIRE
       /\ p.offsets[1] = 0 /\ p.offsets[n + 1] = Len(p.ndata) - 1 /\ Last(p.ndata) = 0
       /\ \A i \in 1..n : /\ p.ndata[p.offsets[i] + 1] \in 1..MAX_LABELLEN
                          /\ p.offsets[i + 1] = p.offsets[i] + 1 + p.ndata[p.offsets[i] + 1]

\* The text of a name, with or without its final period, is read as the same name:
\* toText escapes what stringParse takes for something else.
TextRoundTrip == name # <<>> /\ p.out # "parsing" => p.out = "accepted" /\ p.ndata = name

\* The assertions of stringParse (name.cpp:140, 220, 227) hold for every text.
AssertionsHold == p.out # "assert"
=============================================================================
