---------------------------- MODULE AlertLifecycle ----------------------------
(***************************************************************************)
(* What one alerting rule promises about its alerts, without counters,     *)
(* windows or recovery timers: an alert is raised, possibly held pending,  *)
(* fires, and is resolved, each only for the reason the rule's type gives, *)
(* and every change is announced by exactly one notice.                    *)
(*                                                                         *)
(* AlertEngine implements this module; AlertManager is built on it.        *)
(***************************************************************************)
EXTENDS Integers

CONSTANTS AlertIds, Rules, MaxLag

VARIABLES
  rule,       \* the rule the alerts belong to
  clock,      \* time
  phase,      \* "", "pending" or "firing" for each alert
  raisedAt,   \* when the alert left "", -1 while it is there
  heard,      \* the latest event known of the alert, -1 for none
  notice      \* what the latest step announced for each alert

vars == <<rule, clock, phase, raisedAt, heard, notice>>

Nil == -1
\* An alert that is not raised; also a notice that announces nothing.
Inactive == ""
Quiet == [State |-> Inactive, StateChanged |-> FALSE]
Notice(state) == [State |-> state, StateChanged |-> TRUE]

\* A clock reading that may be used now.
Readings == {t \in 0..clock : t >= clock - MaxLag}

IsCountRule == rule.AlertType \in {"count_total", "count_window"}

Init ==
  /\ rule \in Rules
  /\ clock = 0
  /\ phase = [a \in AlertIds |-> Inactive]
  /\ raisedAt = [a \in AlertIds |-> Nil]
  /\ heard = [a \in AlertIds |-> Nil]
  /\ notice = [a \in AlertIds |-> Quiet]

(***************************************************************************)
(* The steps of one alert a.                                               *)
(***************************************************************************)

\* An event of a is taken into account.
Hear(a) == heard'[a] \in Readings

\* A counting rule raises on an event, a heartbeat rule on its absence.
RaiseCause(a) ==
  IF IsCountRule THEN Hear(a) /\ raisedAt'[a] = heard'[a]
  ELSE /\ heard[a] # Nil /\ heard'[a] = heard[a]
       /\ raisedAt'[a] - heard[a] >= rule.MissingSec

RaiseAlert(a) ==
  /\ phase[a] = Inactive
  /\ phase'[a] = IF rule.PendingEnabled THEN "pending" ELSE "firing"
  /\ raisedAt'[a] \in Readings
  /\ RaiseCause(a)
  /\ notice'[a] = Notice(phase'[a])

\* pending -> firing, after the delay, and for a counting rule on an event.
Confirm(a) ==
  /\ phase[a] = "pending"
  /\ phase'[a] = "firing"
  /\ clock - raisedAt[a] >= rule.DelaySec
  /\ raisedAt'[a] = raisedAt[a]
  /\ IF IsCountRule THEN Hear(a)
     ELSE heard'[a] = heard[a] /\ clock - heard[a] >= rule.MissingSec
  /\ notice'[a] = Notice("firing")

\* A counting rule resolves on silence, a heartbeat rule only once an event
\* has come in since the alert was raised.
ResolveAlert(a) ==
  /\ phase[a] \in {"pending", "firing"}
  /\ phase'[a] = Inactive
  /\ raisedAt'[a] = Nil
  /\ IF IsCountRule
     THEN /\ heard'[a] = heard[a]
          /\ clock - heard[a] >= rule.SilenceSec + rule.HysteresisSec
     ELSE /\ heard'[a] = heard[a] \/ Hear(a)
          /\ heard'[a] >= raisedAt[a] - MaxLag
  /\ notice'[a] = Notice("resolved")

\* The alert keeps its phase, whether or not an event is heard.
Stay(a) ==
  /\ phase'[a] = phase[a]
  /\ raisedAt'[a] = raisedAt[a]
  /\ heard'[a] = heard[a] \/ Hear(a)
  /\ ~notice'[a].StateChanged

\* Everything about the alert is forgotten, silently.
Drop(a) ==
  /\ phase'[a] = Inactive /\ raisedAt'[a] = Nil /\ heard'[a] = Nil
  /\ notice'[a] = Quiet

AlertStep(a) ==
  RaiseAlert(a) \/ Confirm(a) \/ ResolveAlert(a) \/ Stay(a) \/ Drop(a)

\* One step may move several alerts (a tick evaluates them all).
Next ==
  /\ rule' = rule
  /\ clock' \in {clock, clock + 1}
  /\ \A a \in AlertIds : AlertStep(a)

Spec == Init /\ [][Next]_vars
=============================================================================
