----------------------------- MODULE RuleOutcomes -----------------------------
(***************************************************************************)
(* What one evaluation of an alert may come to, by an event or by a tick,  *)
(* whatever its counters and timers are: the outcomes AlertManager works   *)
(* with, and those AlertEngine is shown to have (OutcomesAsManaged).  An   *)
(* outcome is the next phase with the decision's state, "" for none, and   *)
(* StateChanged.                                                           *)
(***************************************************************************)

CONSTANTS
  Counting,   \* the rule counts events; otherwise it waits for a heartbeat
  Pending     \* pending.enabled of the rule

Inactive == ""  \* the phase of an alert that is not raised

Outcome(phase, state, changed) ==
  [phase |-> phase, state |-> state, changed |-> changed]
Raised == IF Pending THEN "pending" ELSE "firing"
Raising == Outcome(Raised, Raised, TRUE)
Confirmation == Outcome("firing", "firing", TRUE)
Resolution == Outcome(Inactive, "resolved", TRUE)
Hold(phase) == Outcome(phase, phase, FALSE)
Nothing(phase) == Outcome(phase, Inactive, FALSE)

\* An event raises, confirms or refreshes a count alert; it refreshes a raised
\* heartbeat alert or resolves it.
EventOutcomes(phase) ==
  IF Counting
  THEN CASE phase = Inactive  -> {Nothing(phase), Raising}
         [] phase = "pending" -> {Nothing(phase), Hold(phase), Confirmation}
         [] OTHER             -> {Nothing(phase), Hold(phase)}
  ELSE IF phase = Inactive THEN {Nothing(phase)} ELSE {Hold(phase), Resolution}

\* A tick resolves a silent count alert; it raises, confirms, refreshes or
\* resolves a heartbeat alert.
TickOutcomes(phase) ==
  IF Counting
  THEN IF phase = Inactive THEN {Nothing(phase)} ELSE {Nothing(phase), Resolution}
  ELSE CASE phase = Inactive  -> {Nothing(phase), Raising}
         [] phase = "pending" -> {Nothing(phase), Hold(phase), Confirmation,
                                  Resolution}
         [] OTHER             -> {Nothing(phase), Hold(phase), Resolution}
=============================================================================
