------------------------------ MODULE LabelList ------------------------------
(***************************************************************************)
(* What a LabelSequence promises, in terms of labels: it is the list of    *)
(* its labels, and an absolute name has the empty label of the root at its *)
(* end.  LabelWindow implements it with octets and offsets in a buffer.    *)
(***************************************************************************)
EXTENDS Naturals, Sequences, SequencesExt

CONSTANT WireLength    \* of the buffer

VARIABLES labels,    \* the name
          other      \* the name that is appended; it does not change

vars == <<labels, other>>

Root == <<>>

\* The octets of a list of labels, each with its length.
Wire(list) == FlattenSeq([i \in DOMAIN list |-> <<Len(list[i])>> \o list[i]])

WithoutRoot(list) == IF Last(list) = Root THEN Front(list) ELSE list

Becomes(list) == labels' = list /\ UNCHANGED other

\* other, or the name itself, is put in the place of the root, if the whole fits.
extend(list) ==
  /\ Len(Wire(WithoutRoot(labels) \o list)) <= WireLength
  /\ Becomes(WithoutRoot(labels) \o list)

\* Labels are taken away from one end.
strip == \E i \in DOMAIN labels : \/ Becomes(SubSeq(labels, i, Len(labels)))
                                 \/ Becomes(SubSeq(labels, 1, i))

\* A buffer is filled with an absolute name.
Init == Last(labels) = Root

Next == extend(other) \/ extend(labels) \/ strip

Spec == Init /\ [][Next]_vars
=============================================================================
