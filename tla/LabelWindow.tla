----------------------------- MODULE LabelWindow -----------------------------
(***************************************************************************)
(* A LabelSequence with a buffer of its own that is stripped and extended, *)
(* by another one or by itself (slave/dns/labelsequence.cpp).              *)
(***************************************************************************)
EXTENDS LabelSequence

VARIABLES ls,       \* the window
          other     \* a window on a name, which does not change

vars == <<ls, other>>

Init ==
  \E list \in Lists, list2 \in Lists :
    \E first \in 0..Len(list2) - 1 : \E last \in first..Len(list2) - 1 :
      /\ ls = Copy(WindowOf(list))
      /\ other = [WindowOf(list2) EXCEPT !.first = first, !.last = last]

\* A call that throws changes nothing.
stripLeft ==
  \E i \in 0..MAX_LABELS : CanStrip(ls, i) /\ ls' = StripLeft(ls, i) /\ UNCHANGED other

stripRight ==
  \E i \in 0..MAX_LABELS : CanStrip(ls, i) /\ ls' = StripRight(ls, i) /\ UNCHANGED other

extend ==
  /\ \/ CanExtend(ls, other) /\ ls' = Extend(ls, other, FALSE)
     \/ CanExtend(ls, ls) /\ ls' = Extend(ls, ls, TRUE)
  /\ UNCHANGED other

Next == stripLeft \/ stripRight \/ extend

Spec == Init /\ [][Next]_vars

-----------------------------------------------------------------------------
Labels == INSTANCE LabelList WITH labels <- LabelsOf(ls), other <- LabelsOf(other),
                                  WireLength <- MAX_WIRE

\* Stripping and extending a window in its buffer, whatever was stripped before and
\* whatever the buffer holds beyond it, does to its labels what the list of labels
\* promises (stripLeft, stripRight, extend).
ImplementsList == Labels!Spec

\* A window never reaches beyond its buffer, which does not get shorter when labels
\* are stripped from the left.
StaysInBuffer == Len(ls.data) <= MAX_WIRE /\ Len(ls.offsets) <= MAX_LABELS

\* What serialize writes fits the buffer that callers declare, and is read as a window
\* on the same labels.
SerializeRoundTrip ==
  /\ Len(serialize(ls)) <= MAX_WIRE + MAX_LABELS + 1
  /\ LabelsOf(Deserialize(serialize(ls))) = LabelsOf(ls)

-----------------------------------------------------------------------------
(* The canonical order of names: labels are compared from the last one on, and an     *)
(* octet, or a label, that is not there comes before every other.                     *)

Key(list, case_sensitive) == Reverse([i \in DOMAIN list |-> Lower(list[i], case_sensitive)])

\* s comes before t in the lexicographic order, where Less orders their elements.
Before(s, t, Less(_, _)) ==
  \E i \in 1..Len(t) :
    /\ i <= Len(s) + 1 /\ \A j \in 1..i - 1 : s[j] = t[j]
    /\ i = Len(s) + 1 \/ Less(s[i], t[i])

KeyBefore(s, t) ==
  Before(s, t, LAMBDA l1, l2 : Before(l1, l2, LAMBDA c1, c2 : c1 < c2))

\* compare tells the canonical order of two windows, how many labels they share from
\* the last one on, and how one lies in the other.
CompareIsCanonical ==
  \A case_sensitive \in BOOLEAN :
    LET c == compare(ls, other, case_sensitive)
        s == Key(LabelsOf(ls), case_sensitive)
        t == Key(LabelsOf(other), case_sensitive)
        shared == Len(LongestCommonPrefix({s, t}))
    IN /\ c.order < 0 <=> KeyBefore(s, t)
       /\ c.order > 0 <=> KeyBefore(t, s)
       /\ c.nlabels = shared
       /\ c.relation = "EQUAL" <=> s = t
       /\ c.relation = "SUPERDOMAIN" <=> s # t /\ shared = Len(s)
       /\ c.relation = "SUBDOMAIN" <=> s # t /\ shared = Len(t)
       /\ c.relation = "NONE" => shared = 0

\* equals, compare and getHash, which read the octets in different ways, agree:
\* windows are equal exactly when compare finds no difference, and then have one hash.
EqualityAgrees ==
  \A case_sensitive \in BOOLEAN :
    LET equal == equals(ls, other, case_sensitive)
    IN /\ equal <=> compare(ls, other, case_sensitive).order = 0
       /\ equal => getHash(ls, case_sensitive) = getHash(other, case_sensitive)
=============================================================================
