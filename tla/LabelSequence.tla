---------------------------- MODULE LabelSequence ----------------------------
(***************************************************************************)
(* LabelSequence (slave/dns/labelsequence.cpp): a window on the labels of  *)
(* a name, or on a buffer of its own, which extend writes to.  A window is *)
(* the octets, the offsets of the labels in them, and the first and the    *)
(* last label of the window.  Sequences start at 1, offsets and labels at  *)
(* 0, as in the code.                                                      *)
(***************************************************************************)
EXTENDS Integers, Sequences, SequencesExt, FiniteSetsExt

CONSTANTS Letters,             \* the octets of labels
          maptolower(_),
          MAX_WIRE, MAX_LABELS, MAX_LABELLEN

\* The octet that a length has is no letter that maptolower changes.
LabelSequenceAssumption ==
  /\ MAX_LABELLEN \in Nat \ {0} /\ MAX_WIRE \in Nat \ {0} /\ MAX_LABELS \in Nat \ {0}
  /\ Letters \subseteq Nat
  /\ \A n \in 0..MAX_LABELLEN : maptolower(n) = n
  /\ \A c \in Letters : maptolower(c) \in Letters

-----------------------------------------------------------------------------
(* The functions that change nothing. *)

getLabelCount(ls) == ls.last - ls.first + 1
Offset(ls, i) == ls.offsets[i + 1]
LengthAt(ls, i) == ls.data[Offset(ls, i) + 1]
isAbsolute(ls) == LengthAt(ls, ls.last) = 0

getDataLength(ls) == Offset(ls, ls.last) - Offset(ls, ls.first) + LengthAt(ls, ls.last) + 1
getData(ls) == SubSeq(ls.data, Offset(ls, ls.first) + 1, Offset(ls, ls.first) + getDataLength(ls))
OffsetsFromFirst(ls) ==
  [i \in 1..getLabelCount(ls) |-> Offset(ls, ls.first + i - 1) - Offset(ls, ls.first)]

Lower(octets, case_sensitive) ==
  [i \in DOMAIN octets |-> IF case_sensitive THEN octets[i] ELSE maptolower(octets[i])]

equals(ls, o, case_sensitive) ==
  Lower(getData(ls), case_sensitive) = Lower(getData(o), case_sensitive)

\* What the value of getHash depends on.
getHash(ls, case_sensitive) ==
  Lower(SubSeq(getData(ls), 1, Min({16, getDataLength(ls)})), case_sensitive)

\* The difference of the labels number i of ls and number j of o: of the first octets
\* that differ, or of their lengths.
LabelDiff(ls, i, o, j, case_sensitive) ==
  LET at1(k) == Lower(ls.data, case_sensitive)[Offset(ls, i) + 1 + k]
      at2(k) == Lower(o.data, case_sensitive)[Offset(o, j) + 1 + k]
      differ == {k \in 1..Min({LengthAt(ls, i), LengthAt(o, j)}) : at1(k) # at2(k)}
  IN IF differ # {} THEN at1(Min(differ)) - at2(Min(differ))
     ELSE LengthAt(ls, i) - LengthAt(o, j)

\* The labels are compared from the last ones on, until two differ.
compare(ls, o, case_sensitive) ==
  LET l1 == getLabelCount(ls)
      l2 == getLabelCount(o)
      diff(n) == LabelDiff(ls, ls.last - n, o, o.last - n, case_sensitive)
      differ == {n \in 0..Min({l1, l2}) - 1 : diff(n) # 0}
      result(order, nlabels, relation) ==
        [order |-> order, nlabels |-> nlabels, relation |-> relation]
  IN IF differ # {}
     THEN result(diff(Min(differ)), Min(differ),
                 IF Min(differ) = 0 THEN "NONE" ELSE "COMMONANCESTOR")
     ELSE result(l1 - l2, Min({l1, l2}), IF l1 < l2 THEN "SUPERDOMAIN"
                                         ELSE IF l1 > l2 THEN "SUBDOMAIN" ELSE "EQUAL")

\* serialize, and the constructor that reads what it wrote.
serialize(ls) == <<getLabelCount(ls)>> \o OffsetsFromFirst(ls) \o getData(ls)
Deserialize(buf) ==
  [first |-> 0, last |-> buf[1] - 1, offsets |-> SubSeq(buf, 2, buf[1] + 1),
   data |-> SubSeq(buf, buf[1] + 2, Len(buf))]

-----------------------------------------------------------------------------
(* The functions that change a window. *)

CanStrip(ls, i) == i < getLabelCount(ls)
StripLeft(ls, i) == [ls EXCEPT !.first = @ + i]
StripRight(ls, i) == [ls EXCEPT !.last = @ - i]

\* The octets of seq from index i on are overwritten, and seq is longer where needed.
Overwrite(seq, i, octets) ==
  SubSeq(seq, 1, i) \o octets \o SubSeq(seq, i + Len(octets) + 1, Len(seq))

\* A copy of the window in a buffer of its own.
Copy(src) ==
  [first |-> 0, last |-> src.last - src.first, data |-> getData(src),
   offsets |-> OffsetsFromFirst(src)]

\* What extend uses of the buffer: up to the end of the window, without a root.
label_count(ls) == IF isAbsolute(ls) THEN ls.last ELSE ls.last + 1
data_pos(ls) ==
  LET end == Offset(ls, ls.last) + LengthAt(ls, ls.last) + 1
  IN IF isAbsolute(ls) THEN end - 1 ELSE end

CanExtend(ls, labels) ==
  /\ label_count(ls) + getLabelCount(labels) <= MAX_LABELS
  /\ data_pos(ls) + getDataLength(labels) <= MAX_WIRE

\* The labels are written behind the first n labels and pos octets.  When a window is
\* extended by itself, the offsets that it reads are in the buffer that it writes to.
ExtendAt(ls, labels, self, n, pos) ==
  LET write(offsets, i) ==
        LET from == IF self THEN offsets ELSE labels.offsets
        IN Overwrite(offsets, n + i, <<pos + from[i + labels.first + 1] - from[labels.first + 1]>>)
  IN [ls EXCEPT
        !.data = Overwrite(@, pos, getData(labels)),
        !.offsets = FoldLeft(write, @, [i \in 1..getLabelCount(labels) |-> i - 1]),
        !.last = n + getLabelCount(labels) - 1]

\* Mutant: the labels are written behind a root.
ExtendBehindRoot(ls, labels, self) ==
  ExtendAt(ls, labels, self, ls.last + 1, Offset(ls, ls.last) + LengthAt(ls, ls.last) + 1)

Extend(ls, labels, self) == ExtendAt(ls, labels, self, label_count(ls), data_pos(ls))

-----------------------------------------------------------------------------
(* Windows and lists of labels. *)

LabelsOf(ls) ==
  [i \in 1..getLabelCount(ls) |->
     LET at == Offset(ls, ls.first + i - 1)
     IN SubSeq(ls.data, at + 2, at + 1 + ls.data[at + 1])]

\* The octets of a list of labels, and the lists of labels of absolute names.
WireOf(list) == FlattenSeq([i \in DOMAIN list |-> <<Len(list[i])>> \o list[i]])
Lists ==
  LET label == UNION {[1..n -> Letters] : n \in 1..MAX_LABELLEN}
  IN {Append(list, <<>>) :
        list \in {s \in SeqOf(label, MAX_LABELS - 1) : Len(WireOf(s)) < MAX_WIRE}}

\* The window on all of a name with these labels.
WindowOf(list) ==
  [first |-> 0, last |-> Len(list) - 1, data |-> WireOf(list),
   offsets |-> [i \in DOMAIN list |-> Len(WireOf(SubSeq(list, 1, i - 1)))]]
=============================================================================
