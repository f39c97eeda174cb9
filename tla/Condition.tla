----------------------------- MODULE Condition -----------------------------
(***************************************************************************)
(* Rule conditions: condition/condition.go.  EvaluateCondition compares    *)
(* the fields of an object with a list of conditions, one after the other, *)
(* and stops at the first that settles the answer.  A behaviour of this    *)
(* module is one call; its conditions are chosen when the loop comes to    *)
(* them, and what the loop does not come to may be anything.               *)
(***************************************************************************)
EXTENDS Integers, SequencesExt

CONSTANTS Texts,          \* values of text fields and of conditions
          NumberOf,       \* the numbers that some of the texts stand for
          MaxConditions   \* bound on the length of the list

ASSUME NumberAssumption ==
  DOMAIN NumberOf \subseteq Texts /\ DOMAIN NumberOf # {} /\ MaxConditions \in Nat

\* A condition may name a field that does not exist, or one that is neither a
\* text nor a number, have an operator nobody knows, and a value that is not
\* even a text.
Conditions == [field : {"text", "number", "other", "missing"},
               operator : {"=", "!=", "<", "<=", ">", ">=", "~"},
               value : Texts \cup {"notText"}, logic : {"AND", "OR", ""}]

VARIABLES
  object,     \* its text and its number
  effects,    \* what each condition did, and its logic
  result,     \* of the loop
  status      \* "idle", "loop", "answer" or "panic"

conditionVars == <<object, effects, result, status>>

Effects == [did : {"match", "miss", "skip"}, logic : {"AND", "OR", ""}]

Objects == [text : Texts, number : Range(NumberOf)]

ConditionTypeOK ==
  /\ object \in Objects
  /\ effects \in Seq(Effects) /\ Len(effects) <= MaxConditions
  /\ result \in BOOLEAN /\ status \in {"idle", "loop", "answer", "panic"}

ConditionInit ==
  /\ object = (CHOOSE o \in Objects : TRUE)
  /\ effects = <<>> /\ result = TRUE /\ status = "idle"

compareString(a, op, b) ==
  \/ op = "=" /\ a = b
  \/ op = "!=" /\ a # b

compareInt(a, op, b) ==
  \/ op \in {"=", "<=", ">="} /\ a = b
  \/ op \in {"!=", "<", "<="} /\ a < b
  \/ op \in {"!=", ">", ">="} /\ a > b

Match(is) == IF is THEN "match" ELSE "miss"

Compare(c) ==
  IF c.field = "missing" THEN "skip"
  ELSE IF c.field = "other" THEN "miss"
  ELSE IF c.value = "notText" THEN "panic"
  ELSE IF c.field = "text" THEN Match(compareString(object.text, c.operator, c.value))
  ELSE IF c.value \notin DOMAIN NumberOf THEN "skip"
  ELSE Match(compareInt(object.number, c.operator, NumberOf[c.value]))

\* Mutant of Logic: a missing AND does not end the loop.
Logic_NoStop(logic, match) ==
  CASE logic = "AND" -> [result |-> match, stop |-> FALSE]
    [] logic = "OR" -> [result |-> result \/ match, stop |-> result \/ match]
    [] OTHER -> [result |-> match, stop |-> FALSE]

\* What a condition makes of the result, and whether it ends the loop.
Logic(logic, match) ==
  CASE logic = "AND" -> [result |-> result /\ match, stop |-> ~(result /\ match)]
    [] logic = "OR" -> [result |-> result \/ match, stop |-> result \/ match]
    [] OTHER -> [result |-> match, stop |-> FALSE]

\* EvaluateCondition is called with some object.
EvaluateCondition ==
  /\ status = "idle" /\ status' = "loop"
  /\ object' \in Objects
  /\ UNCHANGED <<effects, result>>

\* The loop takes the next condition.
Evaluate(c) ==
  LET did == Compare(c) IN
  /\ status = "loop" /\ Len(effects) < MaxConditions
  /\ CASE did = "panic" -> status' = "panic" /\ UNCHANGED <<effects, result>>
       [] did = "skip" ->
            /\ effects' = Append(effects, [did |-> did, logic |-> c.logic])
            /\ UNCHANGED <<result, status>>
       [] OTHER -> LET next == Logic(c.logic, did = "match") IN
            /\ effects' = Append(effects, [did |-> did, logic |-> c.logic])
            /\ result' = next.result
            /\ status' = IF next.stop THEN "answer" ELSE "loop"
  /\ UNCHANGED object

\* There are no more.
EndOfList ==
  /\ status = "loop" /\ status' = "answer"
  /\ UNCHANGED <<object, effects, result>>

ConditionNext == EvaluateCondition \/ EndOfList \/ \E c \in Conditions : Evaluate(c)

-----------------------------------------------------------------------------
(* Properties *)

\* The conditions that count, and those of them that match.
Counted == {i \in DOMAIN effects : effects[i].did # "skip"}
Matching == {i \in Counted : effects[i].did = "match"}

\* Joined by AND all through, and by OR behind a first condition without logic.
JoinedByAnd == \A i \in Counted : effects[i].logic = "AND"
JoinedByOr ==
  \E i \in Counted : /\ effects[i].logic = ""
                     /\ \A k \in Counted \ {i} : k > i /\ effects[k].logic = "OR"

\* The answer is the one that the comments promise of AND and OR, for the
\* lists that say what is meant: joined by AND all through, where all must
\* match, and a first condition without logic followed by ORs, where one must.
\* Skipped conditions do not count.  Not promised for lists that begin with
\* OR, accepted at once because the result starts as true, nor for an OR after
\* an AND, which is not reached when the AND misses.  And whatever the list,
\* an object is accepted only if no AND that was reached missed.
AllOrAny ==
  status = "answer" =>
    /\ result => \A i \in Counted : effects[i].logic = "AND" => i \in Matching
    /\ JoinedByAnd => (result <=> Matching = Counted)
    /\ JoinedByOr => (result <=> Matching # {})

=============================================================================
