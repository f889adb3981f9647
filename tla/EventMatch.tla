------------------------------ MODULE EventMatch ------------------------------
(***************************************************************************)
(* Events and what a rule makes of them: the contract an event is checked  *)
(* against (internal/domain), the selectors of a rule and the key that     *)
(* names the alert (internal/engine), and the guard against events that    *)
(* are too late or too early (internal/app).                               *)
(*                                                                         *)
(* An event is [set, tags]: `set' holds the fields its JSON spells out     *)
(* (a missing one has the zero value of Go), with the typed value's t, n,  *)
(* s and b among them; `tags' is the map of its tags.                      *)
(***************************************************************************)
EXTENDS Integers, FiniteSets, Functions

CONSTANTS
  Folded,    \* the case-folded form of each spelling that is not folded
  Sanitized, \* the key token of each name that is not a token already
  Fits       \* external: the <<op, text, pattern>> that prefix, regexp and glob accept

ASSUME FoldedAssumption == DOMAIN Folded \cap {Folded[s] : s \in DOMAIN Folded} = {}

Fold(s) == IF s \in DOMAIN Folded THEN Folded[s] ELSE s
Sanitize(s) == IF s \in DOMAIN Sanitized THEN Sanitized[s] ELSE s

Kinds == {"n", "s", "b"}

\* The Go zero value: no field given, no tag.
ZeroEvent == [set |-> [f \in {} |-> 0], tags |-> [k \in {} |-> ""]]

Number(event, field) == IF field \in DOMAIN event.set THEN event.set[field] ELSE 0
Text(event, field) == IF field \in DOMAIN event.set THEN event.set[field] ELSE ""
Filled(event) == Kinds \cap DOMAIN event.set

-----------------------------------------------------------------------------
(* The contract of an event.                                               *)

ValidateValue(event) == /\ Text(event, "t") \in Kinds
                        /\ Filled(event) = {Text(event, "t")}

Validate(event) ==
  /\ Number(event, "dt") > 0
  /\ Text(event, "type") \in {"event", "agg"}
  /\ Text(event, "var") # ""
  /\ DOMAIN event.tags # {}
  /\ Number(event, "agg_cnt") >= 1
  /\ Text(event, "type") = "event" => /\ Number(event, "agg_cnt") = 1
                                      /\ Number(event, "win") = 0
  /\ Text(event, "type") = "agg" => Number(event, "win") > 0
  /\ ValidateValue(event)

-----------------------------------------------------------------------------
(* The selectors of a rule.  rule.value is the set of its predicates: none *)
(* or one, [t, op, arg, in].                                               *)

containsStringInsensitive(values, expected) == Fold(expected) \in {Fold(v) : v \in values}

matchNumber(op, lhs, rhs) ==
  \/ op = "==" /\ lhs = rhs
  \/ op = "!=" /\ lhs # rhs
  \/ op = ">"  /\ lhs > rhs
  \/ op = ">=" /\ lhs >= rhs
  \/ op = "<"  /\ lhs < rhs
  \/ op = "<=" /\ lhs <= rhs

matchText(op, lhs, rhs, in) ==
  \/ op = "==" /\ Fold(lhs) = Fold(rhs)
  \/ op = "!=" /\ Fold(lhs) # Fold(rhs)
  \/ op = "in" /\ containsStringInsensitive(in, lhs)
  \/ op = "match" /\ <<op, lhs, rhs>> \in Fits
  \/ op \in {"prefix", "*"} /\ <<op, Fold(lhs), Fold(rhs)>> \in Fits

matchFlag(op, lhs, rhs) == (op = "==" /\ lhs = rhs) \/ (op = "!=" /\ lhs # rhs)

matchValue(predicate, event) ==
  /\ predicate.t = Text(event, "t")
  /\ LET lhs == event.set[predicate.t]
     IN \/ predicate.t = "n" /\ matchNumber(predicate.op, lhs, predicate.arg)
        \/ predicate.t = "s" /\ matchText(predicate.op, lhs, predicate.arg, predicate.in)
        \/ predicate.t = "b" /\ matchFlag(predicate.op, lhs, predicate.arg)

MatchEvent(rule, event) ==
  /\ Text(event, "type") \in rule.types
  /\ Text(event, "var") \in rule.vars
  /\ \A key \in DOMAIN rule.tags : /\ key \in DOMAIN event.tags
                                   /\ containsStringInsensitive(rule.tags[key], event.tags[key])
  /\ \A predicate \in rule.value : matchValue(predicate, event)

-----------------------------------------------------------------------------
(* The alert an event belongs to: rule and variable as tokens, and the     *)
(* values of the key tags.  The digest over the sorted key tags stands for *)
(* the map itself.                                                         *)

HasKeyTags(rule, event) == rule.from_tags \subseteq DOMAIN event.tags

BuildAlertKey(rule, event) ==
  [rule |-> Sanitize(rule.name), var |-> Sanitize(Text(event, "var")),
   digest |-> Restrict(event.tags, rule.from_tags)]

\* An event too old for the rule, or too far ahead of the clock; 0 switches a guard off.
shouldDropOutOfOrder(rule, event, now) ==
  \/ rule.max_late > 0 /\ now - Number(event, "dt") > rule.max_late
  \/ rule.max_future > 0 /\ Number(event, "dt") > now + rule.max_future

==============================================================================
