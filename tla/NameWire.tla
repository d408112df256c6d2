------------------------------ MODULE NameWire -------------------------------
(***************************************************************************)
(* A domain name in wire format, which may be compressed: the constructor  *)
(* Name::Name(InputBuffer&) (slave/dns/name.cpp) reads one octet of the    *)
(* buffer in each turn of its loop, follows pointers to earlier places,    *)
(* and leaves the buffer behind the name.  The marks of a pointer and the  *)
(* limits are constants; an octet has fewer values than in the code.       *)
(***************************************************************************)
EXTENDS Naturals, Sequences, SequencesExt

CONSTANTS MaxOctet,              \* 255
          MARK,                  \* octets from here on begin a pointer: 0xc0
          MAX_WIRE, MAX_LABELLEN,
          MaxLength              \* bound on the length of the buffer

NameWireAssumption ==
  /\ MaxOctet \in Nat /\ MARK \in 1..MaxOctet /\ MAX_LABELLEN \in 1..MARK - 1
  /\ MAX_WIRE \in Nat \ {0} /\ MaxLength \in Nat

Octet == 0..MaxOctet

VARIABLES buffer,     \* its octets; the name may begin after the first ones
          pos_begin,
          v,          \* the local variables of the constructor
          out,        \* reading, done, then built; or FORMERR
          position    \* where the buffer is left

vars == <<buffer, pos_begin, v, out, position>>

Init ==
  /\ buffer \in UNION {[1..k -> Octet] : k \in 0..MaxLength}
  /\ pos_begin \in 0..Len(buffer)
  /\ v = [current |-> pos_begin, biggest_pointer |-> pos_begin, new_current |-> 0,
          state |-> "start", n |-> 0, nused |-> 0, cused |-> 0, seen_pointer |-> FALSE,
          ndata |-> <<>>, offsets |-> <<>>]
  /\ out = "reading" /\ position = pos_begin

-----------------------------------------------------------------------------
(* One turn of the loop. *)

Octet1 == buffer[v.current + 1]

\* The locals when the octet is read; the position of the buffer is current.
Read ==
  [v EXCEPT !.current = @ + 1, !.cused = IF v.seen_pointer THEN @ ELSE @ + 1]

Turn(state) ==
  /\ out = "reading" /\ v.current < Len(buffer) /\ v.state = state
  /\ UNCHANGED <<buffer, pos_begin, position>>

Fail == out' = "FORMERR" /\ v' = v

TooLong(c) == v.nused + c + 1 > MAX_WIRE

StartLabel(c) ==
  IF TooLong(c) THEN Fail
  ELSE /\ v' = [Read EXCEPT !.offsets = Append(@, v.nused), !.nused = @ + c + 1,
                            !.ndata = Append(@, c), !.n = c, !.state = "ordinary"]
       /\ out' = IF c = 0 THEN "done" ELSE out

StartPointer(c) ==
  v' = [Read EXCEPT !.new_current = c - MARK, !.state = "newcurrent"] /\ out' = out

Start ==
  /\ Turn("start")
  /\ \/ Octet1 <= MAX_LABELLEN /\ StartLabel(Octet1)
     \/ Octet1 >= MARK /\ StartPointer(Octet1)
     \/ Octet1 \in MAX_LABELLEN + 1..MARK - 1 /\ Fail

Ordinary ==
  /\ Turn("ordinary") /\ out' = out
  /\ v' = [Read EXCEPT !.ndata = Append(@, Octet1), !.n = @ - 1,
                       !.state = IF v.n = 1 THEN "start" ELSE @]

OutOfRange(target) == target >= v.biggest_pointer

NewCurrent ==
  /\ Turn("newcurrent")
  /\ LET target == v.new_current * (MaxOctet + 1) + Octet1
     IN IF OutOfRange(target) THEN Fail
        ELSE /\ v' = [Read EXCEPT !.new_current = target, !.biggest_pointer = target,
                         !.current = target, !.seen_pointer = TRUE, !.state = "start"]
             /\ out' = out

Incomplete ==
  /\ out = "reading" /\ v.current >= Len(buffer)
  /\ Fail /\ UNCHANGED <<buffer, pos_begin, position>>

\* Mutant: the buffer is left where the reading ended.
PositionBehindTarget == v.current

\* setPosition at the end.
Position == pos_begin + v.cused

Finish ==
  /\ out = "done" /\ out' = "built" /\ position' = Position
  /\ UNCHANGED <<buffer, pos_begin, v>>

Next == Start \/ Ordinary \/ NewCurrent \/ Incomplete \/ Finish

Spec == Init /\ [][Next]_vars

-----------------------------------------------------------------------------
(* What a name at a place of a buffer is. *)

RECURSIVE NameAt(_, _)
\* The octets of the name at place i, whose pointers go to places below limit: the
\* sequence of its wire format, and none if there is no name.
NameAt(i, limit) ==
  LET c == buffer[i + 1]
      target == (c - MARK) * (MaxOctet + 1) + buffer[i + 2]
      rest == NameAt(i + c + 1, limit)
  IN IF i >= Len(buffer) THEN <<>>
     ELSE IF c = 0 THEN <<0>>
     ELSE IF c <= MAX_LABELLEN
          THEN IF i + c + 1 > Len(buffer) \/ rest = <<>> THEN <<>>
               ELSE SubSeq(buffer, i + 1, i + c + 1) \o rest
     ELSE IF c >= MARK /\ i + 2 <= Len(buffer) /\ target < limit THEN NameAt(target, target)
     ELSE <<>>

\* The place behind the name at place i: behind its root or its first pointer.
RECURSIVE Behind(_)
Behind(i) ==
  LET c == buffer[i + 1]
  IN IF c = 0 THEN i + 1 ELSE IF c >= MARK THEN i + 2 ELSE Behind(i + c + 1)

\* The constructor builds the name that the buffer has at its position, and throws
\* when there is none or it is longer than the wire format allows.
ReadsTheName ==
  LET expected == NameAt(pos_begin, pos_begin)
  IN /\ out = "built" => v.ndata = expected /\ v.nused = Len(v.ndata) /\ v.nused <= MAX_WIRE
     /\ out = "FORMERR" => expected = <<>> \/ Len(expected) > MAX_WIRE

\* The buffer is left behind the name, not behind the place that a pointer led to,
\* so that what follows the name is read next.
LeavesBufferBehindName == out = "built" => position = Behind(pos_begin)

\* Every turn of the loop reads further in the buffer, or goes back to a place before
\* the name and before every place that a pointer has led to, so that no chain of
\* pointers keeps the constructor busy for ever (name.cpp:372).
Advances ==
  out' = "reading" =>
    \/ v'.biggest_pointer < v.biggest_pointer
    \/ v'.biggest_pointer = v.biggest_pointer /\ v'.current \in v.current + 1..Len(buffer)
=============================================================================
