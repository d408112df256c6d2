------------------------------- MODULE MCNames --------------------------------
(* The operations on domain names, one at a time: parsing a text and writing it, *)
(* reading the wire format, the window on the labels of a name, or the functions *)
(* that make names from names.  Which one is chosen at first.                    *)
EXTENDS Integers

CONSTANT MaxText

VARIABLES which, rest, p, parsed,
          buffer, pos_begin, v, out, position,
          ls, lsOther, name, nameOther

textVars == <<rest, p, parsed>>
wireVars == <<buffer, pos_begin, v, out, position>>
labelVars == <<ls, lsOther>>
nameVars == <<name, nameOther>>
allVars == <<which, textVars, wireVars, labelVars, nameVars>>

\* The letters of labels: 3 is the capital of 4, and 1 may also be a length.
Letters == {1, 3, 4}
Lower(c) == IF c = 3 THEN 4 ELSE c

\* Octet 0 is not printable; the digits are binary.
Text == INSTANCE NameText WITH
  MaxOctet <- 6, Dot <- 1, Backslash <- 2, At <- 3, Bracket <- 6, Digits <- <<4, 5>>,
  MAX_WIRE <- 6, MAX_LABELLEN <- 2, name <- parsed
Wire == INSTANCE NameWire WITH
  MaxOctet <- 5, MARK <- 4, MAX_WIRE <- 5, MAX_LABELLEN <- 2, MaxLength <- 6
Window == INSTANCE LabelWindow WITH
  maptolower <- Lower, MAX_WIRE <- 6, MAX_LABELS <- 3, MAX_LABELLEN <- 2, other <- lsOther
Ops == INSTANCE NameOps WITH
  maptolower <- Lower, MAX_WIRE <- 7, MAX_LABELS <- 4, MAX_LABELLEN <- 2, other <- nameOther
ASSUME /\ Text!NameTextAssumption /\ Wire!NameWireAssumption
       /\ Window!LabelSequenceAssumption /\ Ops!LabelSequenceAssumption

\* What was not chosen holds an empty text, an empty buffer or the name of the root.
NoText == rest = <<>> /\ p = Text!Start /\ parsed = <<>>
NoBuffer == buffer = <<>> /\ pos_begin = 0 /\ v = <<>> /\ out = "none" /\ position = 0
RootWindow == ls = Window!WindowOf(<< <<>> >>) /\ lsOther = ls
RootName == name = Ops!NameOf(<<0>>, <<0>>, 1, 1) /\ nameOther = name

MCInit ==
  \/ which = "text" /\ Text!Init /\ NoBuffer /\ RootWindow /\ RootName
  \/ which = "wire" /\ Wire!Init /\ NoText /\ RootWindow /\ RootName
  \/ which = "window" /\ Window!Init /\ NoText /\ NoBuffer /\ RootName
  \/ which = "operations" /\ Ops!Init /\ NoText /\ NoBuffer /\ RootWindow

MCNext ==
  /\ UNCHANGED which
  /\ \/ which = "text" /\ Text!Next /\ UNCHANGED <<wireVars, labelVars, nameVars>>
     \/ which = "wire" /\ Wire!Next /\ UNCHANGED <<textVars, labelVars, nameVars>>
     \/ which = "window" /\ Window!Next /\ UNCHANGED <<textVars, wireVars, nameVars>>
     \/ which = "operations" /\ Ops!Next /\ UNCHANGED <<textVars, wireVars, labelVars>>

MCSpec == MCInit /\ [][MCNext]_allVars
-----------------------------------------------------------------------------
\* The assertions of stringParse (name.cpp:140, 220, 227) hold for every text.
AssertionsHold == which = "text" => Text!AssertionsHold

\* Every step on a window is a step on the list of its labels, and every turn of the
\* loop that reads the wire format advances, so that no chain of pointers keeps it busy
\* for ever (labelsequence.cpp:193-356, name.cpp:372).
StepsSound == Window!ImplementsList /\ [][Wire!Advances]_wireVars

\* A text that is accepted is a well-formed name whose text is read as the same name, and
\* the wire format is read as the name at the position, or there is none, and the buffer
\* is left behind it (name.cpp:110-235, 311-396).
NamesAreRead ==
  /\ which = "text" => Text!AcceptedIsWellFormed /\ Text!TextRoundTrip
  /\ which = "wire" => Wire!ReadsTheName /\ Wire!LeavesBufferBehindName

\* A window stays within its buffer, is written as it is read, and its comparisons agree;
\* and so do the operations on names with what they do to the labels
\* (labelsequence.cpp:65-356, name.cpp:413-566).
LabelsAgree ==
  /\ which = "window" =>
       /\ Window!StaysInBuffer /\ Window!SerializeRoundTrip
       /\ Window!CompareIsCanonical /\ Window!EqualityAgrees
  /\ which = "operations" =>
       /\ Ops!DescribesOneName /\ Ops!OperationsMatchLabels
       /\ Ops!EqualsAgreesWithCompare
=============================================================================
