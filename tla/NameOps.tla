------------------------------- MODULE NameOps -------------------------------
(***************************************************************************)
(* The operations of Name (slave/dns/name.cpp) that make a name from       *)
(* another one, on its octets (ndata), the offsets of its labels in them,  *)
(* and the two numbers that are kept beside them.  All names here are      *)
(* absolute.                                                               *)
(***************************************************************************)
EXTENDS LabelSequence

VARIABLES name,     \* the name that the operations change
          other     \* the suffix, the origin, or what it is compared with

vars == <<name, other>>

NameOf(ndata, offsets, length, labelcount) ==
  [ndata |-> ndata, offsets |-> offsets, length |-> length, labelcount |-> labelcount]

\* The constructor of LabelSequence for a name.
Window(n) == [first |-> 0, last |-> n.labelcount - 1, data |-> n.ndata, offsets |-> n.offsets]

Shifted(offsets, by) == [i \in DOMAIN offsets |-> offsets[i] + by]

Concatenate(n, suffix) ==
  NameOf(SubSeq(n.ndata, 1, n.length - 1) \o suffix.ndata,
         SubSeq(n.offsets, 1, n.labelcount - 1) \o Shifted(suffix.offsets, n.length - 1),
         n.length + suffix.length - 1, n.labelcount + suffix.labelcount - 1)

\* Mutant: the length stays that of the relative name.
AddOriginStale(n, origin) ==
  LET ndata == Front(n.ndata) \o origin.ndata
      offsets == Front(n.offsets) \o Shifted(origin.offsets, Last(n.offsets))
  IN NameOf(ndata, offsets, n.length, Len(offsets))

\* The constructor that puts an origin behind a relative text, which was parsed as n.
AddOrigin(n, origin) ==
  LET ndata == Front(n.ndata) \o origin.ndata
      offsets == Front(n.offsets) \o Shifted(origin.offsets, Last(n.offsets))
  IN NameOf(ndata, offsets, Len(ndata), Len(offsets))

\* The labels are copied from the last one before the root to the first one.
ReverseName(n) ==
  LET octets(i) == SubSeq(n.ndata, n.offsets[i] + 1, n.offsets[i + 1])
      copied(k) == FlattenSeq([j \in 1..k |-> octets(n.labelcount - j)])
  IN NameOf(Append(copied(n.labelcount - 1), 0),
            [i \in 1..n.labelcount |-> Len(copied(i - 1))], n.length, n.labelcount)

InRange(n, first, number) == number # 0 /\ number <= n.labelcount /\ first <= n.labelcount - number

Split(n, first, number) ==
  LET newlabels == IF first + number = n.labelcount THEN number ELSE number + 1
      offsets == Shifted(SubSeq(n.offsets, first + 1, first + newlabels), -n.offsets[first + 1])
      ndata == Append(SubSeq(n.ndata, n.offsets[first + 1] + 1,
                             n.offsets[first + 1] + Last(offsets)), 0)
  IN NameOf(ndata, offsets, Len(ndata), Len(offsets))

\* The octets of the labels, and not their lengths, become lower case.
Downcase(n) ==
  LET lengths == {n.offsets[i] + 1 : i \in 1..n.labelcount}
  IN [n EXCEPT !.ndata = [i \in DOMAIN @ |-> IF i \in lengths THEN @[i] ELSE maptolower(@[i])]]

Equals(n, o) ==
  /\ n.length = o.length /\ n.labelcount = o.labelcount
  /\ \A i \in 1..n.length :
       IF i - 1 \in Range(n.offsets) THEN n.ndata[i] = o.ndata[i]
       ELSE maptolower(n.ndata[i]) = maptolower(o.ndata[i])

-----------------------------------------------------------------------------
(* The operations.  One that throws makes no name. *)

Fits(n) == n.length <= MAX_WIRE /\ n.labelcount <= MAX_LABELS

concatenate ==
  /\ name.length + other.length - 1 <= MAX_WIRE
  /\ name' = Concatenate(name, other) /\ UNCHANGED other

withOrigin ==
  /\ Fits(AddOrigin(name, other))
  /\ name' = AddOrigin(name, other) /\ UNCHANGED other

reverse == name' = ReverseName(name) /\ UNCHANGED other

split ==
  \E first \in 0..MAX_LABELS, number \in 0..MAX_LABELS :
    /\ InRange(name, first, number)
    /\ name' = Split(name, first, number) /\ UNCHANGED other

splitLevel ==
  \E level \in 0..MAX_LABELS :
    /\ level < name.labelcount
    /\ name' = Split(name, level, name.labelcount - level) /\ UNCHANGED other

downcase == name' = Downcase(name) /\ UNCHANGED other

Init ==
  LET names == {NameOf(w.data, w.offsets, Len(w.data), Len(w.offsets)) :
                  w \in {WindowOf(list) : list \in Lists}}
  IN name \in names /\ other \in names

Next == concatenate \/ withOrigin \/ reverse \/ split \/ splitLevel \/ downcase

Spec == Init /\ [][Next]_vars

-----------------------------------------------------------------------------
\* The octets, the offsets and the two numbers describe one name after any sequence of
\* operations: the octets are those of the labels at the offsets, with one root at the
\* end, and no name exceeds the limits (the assertions of concatenate and split).
DescribesOneName ==
  LET list == LabelsOf(Window(name))
  IN /\ name.ndata = WireOf(list) /\ name.offsets = WindowOf(list).offsets
     /\ name.length = Len(name.ndata) /\ name.labelcount = Len(name.offsets)
     /\ Fits(name) /\ \A i \in DOMAIN list : list[i] = <<>> <=> i = Len(list)

\* The name that an operation makes has the labels that the operation is about: the
\* suffix or the origin in the place of the root, the labels in the reverse order, the
\* number of labels from the first one on, or all the labels in lower case.
OperationsMatchLabels ==
  LET labels(n) == LabelsOf(Window(n))
      list == labels(name)
      Absolute(l) == IF Last(l) = <<>> THEN l ELSE Append(l, <<>>)
  IN /\ Len(WireOf(Front(list) \o labels(other))) <= MAX_WIRE =>
          /\ labels(Concatenate(name, other)) = Front(list) \o labels(other)
          /\ labels(AddOrigin(name, other)) = Front(list) \o labels(other)
     /\ labels(ReverseName(name)) = Append(Reverse(Front(list)), <<>>)
     /\ \A first \in 0..Len(list) - 1 : \A number \in 1..Len(list) - first :
          labels(Split(name, first, number)) = Absolute(SubSeq(list, first + 1, first + number))
     /\ labels(Downcase(name)) = [i \in DOMAIN list |-> Lower(list[i], FALSE)]

\* Name::equals, which walks over octets from the first label, and compare, which
\* walks over labels from the last one, agree about which names are equal.
EqualsAgreesWithCompare ==
  Equals(name, other) <=> compare(Window(name), Window(other), FALSE).relation = "EQUAL"
=============================================================================
