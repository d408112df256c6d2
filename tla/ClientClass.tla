----------------------------- MODULE ClientClass -----------------------------
(***************************************************************************)
(* How the test of a client class becomes a matcher: the parser            *)
(* (slave/server/client_class_parser.cpp) calls an action for every part   *)
(* of the text that matches, in the order of the text; the builder         *)
(* (client_class_matcher.cpp) keeps one stack of matchers and one of       *)
(* operators.  A text is a list of checks and operators, some checks in    *)
(* brackets; a packet gives an option a value or does not have it; a       *)
(* matcher is what it answers for every packet.                            *)
(***************************************************************************)
EXTENDS Integers, Sequences, FiniteSets, SequencesExt

CONSTANTS Check,      \* the checks that a text is made of
          Value,      \* values of options: sequences of characters
          Code,       \* options
          None,
          MaxItems,   \* bound on the items of a text
          MaxBracket  \* bound on the checks in a bracket

\* exists and !exists, == and != of a value, and both of a part of a value, with
\* the numbers that the text gives: list_must lets it give any number of them.
ClientClassAssumption ==
  /\ Value \subseteq Seq(STRING)
  /\ \A c \in Check : /\ c.kind \in {"exists", "value", "substring"}
                      /\ c.code \in Code /\ c.sign \in {"y", "n"}
                      /\ c.args \in Seq(Nat) /\ c.value \in Seq(STRING)

Packet == [Code -> Value \cup {None}]
Op == {"and", "or"}

\* A text: items and the operators between them; an item is a check or a bracket.
Lists(S, max) == UNION {[items : [1..n -> S], ops : [1..n - 1 -> Op]] : n \in 1..max}
Bracket == [kind : {"bracket"}, list : Lists(Check, MaxBracket)]
Texts ==
  LET plain == Lists(Check, MaxItems)
  IN plain \cup {[t EXCEPT !.items[i] = b] : t \in plain, i \in 1..MaxItems, b \in Bracket}

VARIABLES text,             \* what the parser reads
          todo,             \* the actions it will call
          tokens,           \* pushed by the parts of a check
          matcher_stack, operator_stack,
          state             \* reading, built, or where it ended otherwise

vars == <<text, todo, tokens, matcher_stack, operator_stack, state>>

-----------------------------------------------------------------------------
(* The parser. *)

\* The tokens of a check in the order of its text, each marked with what it is.
TokensOf(c) ==
  LET code == <<"code", c.code>> sign == <<"sign", c.sign>> value == <<"text", c.value>>
  IN CASE c.kind = "exists"    -> <<sign, code>>
       [] c.kind = "value"     -> <<code, sign, value>>
       [] c.kind = "substring" -> <<code>> \o [i \in DOMAIN c.args |-> <<"num", c.args[i]>>]
                                    \o <<sign, value>>

Yes == <<"sign", "y">>
TextOf(token) == IF token[1] = "sign" THEN <<token[2]>> ELSE token[2]

CheckActions(c) ==
  [i \in DOMAIN TokensOf(c) |-> <<"push", TokensOf(c)[i]>>] \o <<<<c.kind>>>>

ListActions(list, Actions(_)) ==
  FlattenSeq([i \in DOMAIN list.items |->
    (IF i = 1 THEN <<>> ELSE <<<<list.ops[i - 1]>>>>) \o Actions(list.items[i])])

ItemActions(item) ==
  IF item.kind = "bracket"
    THEN <<<<"(">>>> \o ListActions(item.list, CheckActions) \o <<<<")">>>>
    ELSE CheckActions(item)

-----------------------------------------------------------------------------
(* Matchers: TRUE, FALSE or an exception, as a string, for every packet. *)

Bool(b) == IF b THEN "true" ELSE "false"

\* string::substr of a position behind the end throws.
substr(v, start, n) == SubSeq(v, start + 1, IF start + n < Len(v) THEN start + n ELSE Len(v))

optionExistsMatcher(code, expect) == [p \in Packet |-> Bool((p[code] # None) = expect)]

optionValueMatcher(code, equal, value) ==
  [p \in Packet |-> Bool(p[code] # None /\ ((p[code] = value) = equal))]

substringMatcher(code, start, n, equal, value) ==
  [p \in Packet |-> IF p[code] = None THEN "false"
                    ELSE IF start > Len(p[code]) THEN "throws"
                    ELSE Bool((substr(p[code], start, n) = value) = equal)]

andMatcher(f, g) == [p \in Packet |-> IF f[p] = "true" THEN g[p] ELSE f[p]]
orMatcher(f, g) == [p \in Packet |-> IF f[p] = "false" THEN g[p] ELSE f[p]]

-----------------------------------------------------------------------------
(* The builder.  A stack is a sequence, its top the last element. *)

Init ==
  /\ text \in Texts
  /\ todo = ListActions(text, ItemActions)
  /\ tokens = <<>> /\ matcher_stack = <<>> /\ operator_stack = <<>> /\ state = "reading"

Is(action) == state = "reading" /\ todo # <<>> /\ Head(todo)[1] = action
Done == todo' = Tail(todo) /\ UNCHANGED text

Push ==
  /\ Is("push") /\ Done
  /\ tokens' = Append(tokens, Head(todo)[2])
  /\ UNCHANGED <<matcher_stack, operator_stack, state>>

\* Mutant: the case of And falls through to that of Or.
addMatcherOr(ms, os, m) ==
  CASE ms = <<>> -> <<Append(ms, m), os, "reading">>
    [] ms # <<>> /\ os = <<>> -> <<ms, os, "assert">>
    [] OTHER -> IF Last(os) = "(" THEN <<Append(ms, m), os, "reading">>
                ELSE <<Append(Front(ms), orMatcher(Last(ms), m)), Front(os), "reading">>

\* addMatcher: <<matchers, operators, state>> afterwards.
addMatcher(ms, os, m) ==
  CASE ms = <<>> -> <<Append(ms, m), os, "reading">>
    [] ms # <<>> /\ os = <<>> -> <<ms, os, "assert">>
    [] OTHER -> LET top == Last(os) IN
         IF top = "(" THEN <<Append(ms, m), os, "reading">>
         ELSE <<Append(Front(ms), IF top = "and" THEN andMatcher(Last(ms), m)
                                  ELSE orMatcher(Last(ms), m)), Front(os), "reading">>

Added(r) ==
  /\ matcher_stack' = r[1] /\ operator_stack' = r[2] /\ state' = r[3]

addOptionExistsMatcher ==
  /\ Is("exists") /\ Done /\ tokens' = <<>>
  /\ Added(addMatcher(matcher_stack, operator_stack, optionExistsMatcher(tokens[2][2], tokens[1] = Yes)))

addOptionValueMatcher ==
  /\ Is("value") /\ Done /\ tokens' = <<>>
  /\ Added(addMatcher(matcher_stack, operator_stack,
                      optionValueMatcher(tokens[1][2], tokens[2] = Yes, TextOf(tokens[3]))))

\* With one number the third token is no number, with three the sign is one and
\* the value is the sign.
addSubstringMatcher ==
  /\ Is("substring") /\ Done
  /\ IF tokens[3][1] = "num"
       THEN /\ tokens' = <<>>
            /\ Added(addMatcher(matcher_stack, operator_stack,
                 substringMatcher(tokens[1][2], tokens[2][2], tokens[3][2], tokens[4] = Yes,
                                  TextOf(tokens[5]))))
       ELSE state' = "bad_cast" /\ UNCHANGED <<tokens, matcher_stack, operator_stack>>

onOperator ==
  /\ \E o \in {"and", "or", "("} : Is(o) /\ operator_stack' = Append(operator_stack, o)
  /\ Done /\ UNCHANGED <<tokens, matcher_stack, state>>

onRightBracket ==
  /\ Is(")") /\ Done /\ UNCHANGED tokens
  /\ IF operator_stack = <<>> \/ matcher_stack = <<>> THEN
       state' = "assert" /\ UNCHANGED <<matcher_stack, operator_stack>>
     ELSE IF Last(operator_stack) # "(" THEN
       state' = "assert" /\ UNCHANGED <<matcher_stack, operator_stack>>
     ELSE Added(addMatcher(Front(matcher_stack), Front(operator_stack), Last(matcher_stack)))

getMatcher ==
  /\ state = "reading" /\ todo = <<>>
  /\ state' = (IF Len(matcher_stack) = 1 /\ operator_stack = <<>> THEN "built" ELSE "assert")
  /\ UNCHANGED <<text, todo, tokens, matcher_stack, operator_stack>>

Next ==
  \/ Push \/ addOptionExistsMatcher \/ addOptionValueMatcher \/ addSubstringMatcher
  \/ onOperator \/ onRightBracket \/ getMatcher

Spec == Init /\ [][Next]_vars

-----------------------------------------------------------------------------
(* What a text says: items from the left to the right, without precedence. *)

CheckMeaning(c) ==
  CASE c.kind = "exists"    -> optionExistsMatcher(c.code, c.sign = "y")
    [] c.kind = "value"     -> optionValueMatcher(c.code, c.sign = "y", c.value)
    [] c.kind = "substring" -> substringMatcher(c.code, c.args[1], c.args[2], c.sign = "y", c.value)

ListMeaning(list, Meaning(_)) ==
  LET upTo[i \in 1..Len(list.items)] ==
        IF i = 1 THEN Meaning(list.items[1])
        ELSE IF list.ops[i - 1] = "and" THEN andMatcher(upTo[i - 1], Meaning(list.items[i]))
        ELSE orMatcher(upTo[i - 1], Meaning(list.items[i]))
  IN upTo[Len(list.items)]

ItemMeaning(item) ==
  IF item.kind = "bracket" THEN ListMeaning(item.list, CheckMeaning) ELSE CheckMeaning(item)

ChecksOf(t) ==
  UNION {IF i.kind = "bracket" THEN ToSet(i.list.items) ELSE {i} : i \in ToSet(t.items)}
WellFormed(t) == \A c \in ChecksOf(t) : c.kind = "substring" => Len(c.args) = 2

\* No text of the grammar meets an assertion of the builder or an empty stack
\* (client_class_matcher.cpp:62-79 "syntax parse should avoid this", 114, 131-132).
NoAssertFails == state # "assert"

\* The matcher of a text with two numbers in every substring answers for every
\* packet what the text says: the two stacks put the operators of a bracket and
\* those around it in their place.
BuildsWhatIsWritten ==
  state = "built" /\ WellFormed(text) => matcher_stack[1] = ListMeaning(text, ItemMeaning)

\* A matcher throws only for an option that is shorter than the start of a part
\* that the text names (client_class_matcher.cpp:17); classifyPacket has no handler.
ThrowsOnlyPastTheEnd ==
  state = "built" =>
    \A p \in Packet : matcher_stack[1][p] = "throws" =>
      \E c \in ChecksOf(text) : /\ c.kind = "substring" /\ p[c.code] # None
                                /\ c.args[1] > Len(p[c.code])

=============================================================================
