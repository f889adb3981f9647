----------------------------- MODULE AlertEngine -----------------------------
(***************************************************************************)
(* The rule engine of internal/engine/engine.go for the alerts of one      *)
(* rule: the runtime state per alert ID, the evaluation of one event, the  *)
(* evaluation of one timer tick, and the eviction of idle states.          *)
(*                                                                         *)
(* Every exported method of Engine holds e.mu from entry to return, so     *)
(* each call is one atomic step.  The time it works with is not: callers   *)
(* read the clock first and take the lock afterwards, so a call may run    *)
(* with a reading that is up to MaxLag behind the clock.                   *)
(***************************************************************************)
EXTENDS Integers, Sequences, FiniteSets

CONSTANTS
  AlertIds,    \* alert IDs of the rule's alerts
  Rules,       \* rule configurations to start from
  MaxAggCnt,   \* largest agg_cnt of one event
  IdleTTL,     \* service.runtime_state_idle_sec, 0 disables
  MaxStates,   \* service.runtime_state_max, 0 disables
  MaxLag,      \* how far a clock reading may be behind when it is used
  MaxTime,     \* bound: the clock stops here
  MaxTotal,    \* bound: no counter grows beyond this
  NoState      \* the map has no entry for the alert ID

CountTypes == {"count_total", "count_window"}

\* The empty domain.AlertState: an alert that is not raised, and the state of
\* a decision that decides nothing.
Inactive == ""

RuleConfig ==
  [AlertType : CountTypes \cup {"missing_heartbeat"},
   N : Nat, WindowSec : Nat, MissingSec : Nat,
   SilenceSec : Nat, HysteresisSec : Nat,
   PendingEnabled : BOOLEAN, DelaySec : Nat]

\* validateRule: what the loader accepts of the fields the engine reads.
ValidRule(r) ==
  /\ r.PendingEnabled => r.DelaySec > 0
  /\ r.AlertType \in CountTypes => r.N >= 1 /\ r.MissingSec = 0
  /\ r.AlertType = "count_total" => r.WindowSec = 0
  /\ r.AlertType = "count_window" => r.WindowSec > 0
  /\ r.AlertType = "missing_heartbeat" =>
       r.MissingSec > 0 /\ r.N = 0 /\ r.WindowSec = 0 /\ r.SilenceSec = 0

Counts == 1..MaxAggCnt
WindowPoint == [At : Nat, Count : Counts]

\* A nil *time.Time, or the zero time.Time.
Nil == -1
Stamp == Nat \cup {Nil}

RuntimeState ==
  [Initialized : BOOLEAN, LastSeen : Stamp, RaisedAt : Stamp,
   PendingSince : Stamp, HysteresisSince : Stamp,
   CurrentState : {Inactive, "pending", "firing"},
   CountTotal : Nat, CountWindow : Seq(WindowPoint), CountWindowSum : Nat]

Decision ==
  [State : {Inactive, "pending", "firing", "resolved"}, StateChanged : BOOLEAN]

ASSUME RulesAssumption == \A r \in Rules : r \in RuleConfig /\ ValidRule(r)
ASSUME BoundsAssumption ==
  /\ {MaxAggCnt, IdleTTL, MaxStates, MaxLag, MaxTime, MaxTotal} \subseteq Nat
ASSUME NoStateAssumption == NoState \notin RuntimeState

VARIABLES
  rule,       \* the rule, fixed for a behaviour
  states,     \* Engine.states
  clock,      \* wall clock in seconds
  lastTick,   \* the clock reading of the latest Manager.Tick
  decisions,  \* the decision the latest call returned for each alert
  firingIDs,  \* the second result of the latest TickRuleWithFiring
  lastOp      \* which call the latest step was

vars == <<rule, states, clock, lastTick, decisions, firingIDs, lastOp>>

-----------------------------------------------------------------------------
(* Decisions.  ShouldStore and ShouldNotify follow from the two fields:    *)
(* every decision with a state is stored, and a changed one is notified    *)
(* unless it enters pending (the manager adds on_pending).                 *)

Decide(state, changed) == [State |-> state, StateChanged |-> changed]
NoDecision == Decide(Inactive, FALSE)
Resolved == Decide("resolved", TRUE)
ShouldNotify(d) == d.StateChanged /\ d.State # "pending"

IsActive(s) == s.CurrentState \in {"pending", "firing"}

\* ensureState for an alert ID the map does not hold.
FreshState ==
  [Initialized |-> FALSE, LastSeen |-> Nil, RaisedAt |-> Nil,
   PendingSince |-> Nil, HysteresisSince |-> Nil, CurrentState |-> Inactive,
   CountTotal |-> 0, CountWindow |-> <<>>, CountWindowSum |-> 0]

\* Mutant: the recovery timer survives the resolve.
ResetKeepsHysteresis(s) ==
  [s EXCEPT !.CurrentState = Inactive, !.PendingSince = Nil,
            !.CountWindow = <<>>, !.CountWindowSum = 0, !.CountTotal = 0,
            !.RaisedAt = Nil]

\* Mutant: the counter survives the resolve.
ResetKeepsTotal(s) ==
  [s EXCEPT !.CurrentState = Inactive, !.PendingSince = Nil, !.HysteresisSince = Nil,
            !.CountWindow = <<>>, !.CountWindowSum = 0, !.RaisedAt = Nil]

resetResolvedState(s) ==
  [s EXCEPT !.CurrentState = Inactive, !.PendingSince = Nil, !.HysteresisSince = Nil,
            !.CountWindow = <<>>, !.CountWindowSum = 0, !.CountTotal = 0,
            !.RaisedAt = Nil]

-----------------------------------------------------------------------------
(* The sliding window.                                                     *)

\* The sum of the points' counts, as the number of units they contribute.
Units(points) ==
  {u \in (DOMAIN points) \X Counts : u[2] <= points[u[1]].Count}
SumCounts(points) == Cardinality(Units(points))

\* The first index the loop of pruneWindow keeps: points are dropped from the
\* front while they lie before the cutoff.
FirstKept(points, cutoff) ==
  CHOOSE k \in 1..(Len(points) + 1) :
    /\ k <= Len(points) => points[k].At >= cutoff
    /\ \A i \in 1..(k - 1) : points[i].At < cutoff

\* Mutant: the points are dropped but their counts stay in the sum.
PruneKeepsSum(points, sum, t, window) ==
  [points |-> SubSeq(points, FirstKept(points, t - window), Len(points)),
   sum    |-> sum]

\* Mutant: the first kept point is subtracted as well.
PruneOneMore(points, sum, t, window) ==
  LET k == FirstKept(points, t - window)
  IN  [points |-> SubSeq(points, k, Len(points)),
       sum    |-> sum - SumCounts(SubSeq(points, 1, k))]

pruneWindow(points, sum, t, window) ==
  LET k == FirstKept(points, t - window)
  IN  [points |-> SubSeq(points, k, Len(points)),
       sum    |-> sum - SumCounts(SubSeq(points, 1, k - 1))]

-----------------------------------------------------------------------------
(* The thresholds of the rule, as the engine tests them at time t.         *)

ResolveAfter(r) == r.SilenceSec + r.HysteresisSec

\* The state has been silent long enough for a count rule to resolve.
Silent(r, s, t) == t - s.LastSeen >= ResolveAfter(r)

\* The heartbeat is missing.
Missing(r, s, t) == t - s.LastSeen >= r.MissingSec

\* Mutant: the delay ends one second early.
DelayEarly(r, s, t) == t - s.PendingSince >= r.DelaySec - 1

\* A pending alert has served its delay.  The code's nil check on
\* PendingSince is left out: it is never nil while pending (StampsFitState).
DelayServed(r, s, t) == t - s.PendingSince >= r.DelaySec

-----------------------------------------------------------------------------
(* applyActiveCondition.  Its case for a stored "resolved" state cannot    *)
(* happen: resetResolvedState leaves "".                                   *)

Raise(s, t, phase) ==
  [s EXCEPT !.HysteresisSince = Nil, !.RaisedAt = t, !.CurrentState = phase,
            !.PendingSince = IF phase = "pending" THEN t ELSE Nil]

applyActive(r, s, t) ==
  CASE s.CurrentState = Inactive ->
         LET phase == IF r.PendingEnabled THEN "pending" ELSE "firing"
         IN  [state |-> Raise(s, t, phase), decision |-> Decide(phase, TRUE)]
    [] s.CurrentState = "pending" /\ DelayServed(r, s, t) ->
         [state |-> [s EXCEPT !.HysteresisSince = Nil, !.PendingSince = Nil,
                              !.CurrentState = "firing"],
          decision |-> Decide("firing", TRUE)]
    [] OTHER ->
         [state |-> [s EXCEPT !.HysteresisSince = Nil],
          decision |-> Decide(s.CurrentState, FALSE)]

applyActiveCondition(r, s, t, active) ==
  IF active THEN applyActive(r, s, t)
  ELSE [state |-> s, decision |-> NoDecision]

Keep(s, d) == [state |-> s, decision |-> d]
Resolve(s) == [state |-> resetResolvedState(s), decision |-> Resolved]

-----------------------------------------------------------------------------
(* Engine.ProcessEvent on a state whose LastSeen is already t.             *)

CountTotalEvent(r, s, cnt, t) ==
  LET s1 == [s EXCEPT !.Initialized = TRUE, !.CountTotal = @ + cnt]
  IN  applyActiveCondition(r, s1, t, s1.CountTotal >= r.N)

CountWindowEvent(r, s, cnt, t) ==
  LET w  == pruneWindow(Append(s.CountWindow, [At |-> t, Count |-> cnt]),
                        s.CountWindowSum + cnt, t, r.WindowSec)
      s1 == [s EXCEPT !.Initialized = TRUE,
                      !.CountWindow = w.points, !.CountWindowSum = w.sum]
  IN  applyActiveCondition(r, s1, t, w.sum >= r.N)

\* Mutant: the recovery timer is computed and not stored.
EventForgetsTimer(r, s, t) ==
  CASE ~s.Initialized -> Keep([s EXCEPT !.Initialized = TRUE], NoDecision)
    [] s.Initialized /\ ~IsActive(s) -> Keep(s, NoDecision)
    [] s.Initialized /\ IsActive(s) /\ r.HysteresisSec > 0 ->
         Keep(s, Decide(s.CurrentState, FALSE))
    [] OTHER -> Resolve(s)

\* The recovery timer: the one that runs, or one that starts now.
RecoverySince(s, first) ==
  IF s.HysteresisSince = Nil THEN first ELSE s.HysteresisSince

\* An active heartbeat alert resolves once it has been back for HysteresisSec.
HeartbeatEvent(r, s, t) ==
  LET since == RecoverySince(s, t)
  IN  CASE ~s.Initialized ->
             Keep([s EXCEPT !.Initialized = TRUE, !.CurrentState = Inactive,
                            !.PendingSince = Nil, !.HysteresisSince = Nil],
                  NoDecision)
        [] s.Initialized /\ ~IsActive(s) -> Keep(s, NoDecision)
        [] s.Initialized /\ IsActive(s) /\ t - since < r.HysteresisSec ->
             Keep([s EXCEPT !.HysteresisSince = since],
                  Decide(s.CurrentState, FALSE))
        [] OTHER -> Resolve(s)

EvalEvent(r, entry, cnt, t) ==
  LET s == [(IF entry = NoState THEN FreshState ELSE entry)
              EXCEPT !.LastSeen = t]
  IN  CASE r.AlertType = "count_total"  -> CountTotalEvent(r, s, cnt, t)
        [] r.AlertType = "count_window" -> CountWindowEvent(r, s, cnt, t)
        [] OTHER                        -> HeartbeatEvent(r, s, t)

-----------------------------------------------------------------------------
(* The body of TickRuleWithFiring's loop for one state of the rule.        *)

\* Mutant: a pending alert is not resolved by silence.
CountTickFiring(r, s, t) ==
  IF s.CurrentState = "firing" /\ Silent(r, s, t) THEN Resolve(s)
  ELSE Keep(s, NoDecision)

\* Mutant: a tick decides on an alert that nothing was heard of, too.
CountTickRefreshes(r, s, t) ==
  IF IsActive(s) /\ Silent(r, s, t) THEN Resolve(s)
  ELSE Keep(s, Decide(s.CurrentState, FALSE))

CountTick(r, s, t) ==
  IF IsActive(s) /\ Silent(r, s, t) THEN Resolve(s) ELSE Keep(s, NoDecision)

\* Mutant: another outage does not reset a recovery in progress.
TickKeepsTimer(r, s, t) ==
  IF Missing(r, s, t)
  THEN IF s.HysteresisSince = Nil THEN applyActive(r, s, t)
       ELSE Keep(s, Decide(s.CurrentState, FALSE))
  ELSE IF IsActive(s) /\ r.HysteresisSec > 0
            /\ t - s.HysteresisSince >= r.HysteresisSec
       THEN Resolve(s) ELSE Keep(s, NoDecision)

\* Mutant: only alerts that are already raised are evaluated.
TickSkipsQuiet(r, s, t) ==
  IF Missing(r, s, t) /\ IsActive(s) THEN applyActive(r, s, t)
  ELSE Keep(s, NoDecision)

\* Mutant: a recovery is left to the next event to complete.
TickLeavesRecovery(r, s, t) ==
  IF Missing(r, s, t) THEN applyActive(r, s, t) ELSE Keep(s, NoDecision)

HeartbeatTick(r, s, t) ==
  LET since == RecoverySince(s, s.LastSeen)
      back  == s.Initialized /\ ~Missing(r, s, t)
  IN  CASE ~s.Initialized -> Keep(s, NoDecision)
        [] s.Initialized /\ Missing(r, s, t) -> applyActive(r, s, t)
        [] back /\ (~IsActive(s) \/ r.HysteresisSec = 0) -> Keep(s, NoDecision)
        [] back /\ IsActive(s) /\ r.HysteresisSec > 0
                /\ t - since >= r.HysteresisSec -> Resolve(s)
        [] OTHER -> Keep([s EXCEPT !.HysteresisSince = since],
                         Decide(s.CurrentState, FALSE))

EvalTick(r, s, t) ==
  IF r.AlertType \in CountTypes THEN CountTick(r, s, t)
  ELSE HeartbeatTick(r, s, t)

\* The iteration for s reaches the append to firingAlertIDs and does it: a
\* count state unless skipped as inactive, a heartbeat state only when it is
\* back, not resolved by this iteration, and HysteresisSec > 0.
Listed(r, s, t) ==
  /\ EvalTick(r, s, t).state.CurrentState = "firing"
  /\ r.AlertType = "missing_heartbeat" =>
       s.Initialized /\ ~Missing(r, s, t) /\ r.HysteresisSec > 0

-----------------------------------------------------------------------------
(* The engine's operations.                                                *)

\* A clock reading a caller may hold when its call takes the lock.
Readings == {t \in 0..clock : t >= clock - MaxLag}

Quiet == [a \in AlertIds |-> NoDecision]

TypeOK ==
  /\ rule \in Rules
  /\ states \in [AlertIds -> RuntimeState \cup {NoState}]
  /\ clock \in Nat
  /\ lastTick \in 0..clock
  /\ decisions \in [AlertIds -> Decision]
  /\ firingIDs \subseteq AlertIds
  /\ lastOp \in {"init", "event", "tick", "compact", "remove", "clock"}

Init ==
  /\ rule \in Rules
  /\ states = [a \in AlertIds |-> NoState]
  /\ clock = 0
  /\ lastTick = 0
  /\ decisions = Quiet
  /\ firingIDs = {}
  /\ lastOp = "init"

ProcessEvent(a, cnt, t) ==
  LET result == EvalEvent(rule, states[a], cnt, t)
  IN  /\ result.state.CountTotal <= MaxTotal
      /\ result.state.CountWindowSum <= MaxTotal
      /\ states' = [states EXCEPT ![a] = result.state]
      /\ decisions' = [Quiet EXCEPT ![a] = result.decision]
      /\ firingIDs' = {}
      /\ lastOp' = "event"
      /\ UNCHANGED <<rule, clock, lastTick>>

\* One goroutine ticks, so its clock readings never go back.
TickRuleWithFiring(t) ==
  /\ t >= lastTick
  /\ states' = [a \in AlertIds |->
       IF states[a] = NoState THEN NoState
       ELSE EvalTick(rule, states[a], t).state]
  /\ decisions' = [a \in AlertIds |->
       IF states[a] = NoState THEN NoDecision
       ELSE EvalTick(rule, states[a], t).decision]
  /\ firingIDs' =
       {a \in AlertIds : states[a] # NoState /\ Listed(rule, states[a], t)}
  /\ lastTick' = t
  /\ lastOp' = "tick"
  /\ UNCHANGED <<rule, clock>>

Entries == {a \in AlertIds : states[a] # NoState}
Evict(ids) == [a \in AlertIds |-> IF a \in ids THEN NoState ELSE states[a]]

IdleEntries(t) ==
  {a \in Entries : /\ IdleTTL > 0
                   /\ states[a].CurrentState = Inactive
                   /\ t - states[a].LastSeen >= IdleTTL}

\* Mutant: alerts of any state count as candidates for the cap.
AnyEntry(kept) == kept
Candidates(kept) == {a \in kept : states[a].CurrentState = Inactive}

\* What the cap evicts of the entries that idleness left: the candidates seen
\* least recently, ties in any order, as many as needed or all of them.
CapVictims(kept) ==
  LET cands == Candidates(kept)
      over  == IF MaxStates > 0 THEN Cardinality(kept) - MaxStates ELSE 0
      need  == IF over > Cardinality(cands) THEN Cardinality(cands) ELSE over
  IN  {v \in SUBSET cands :
         /\ Cardinality(v) = IF need > 0 THEN need ELSE 0
         /\ \A x \in v, y \in cands \ v :
              states[x].LastSeen <= states[y].LastSeen}

\* Manager.Tick calls it last, with the reading the tick began with.
CompactStates ==
  /\ IdleTTL > 0 \/ MaxStates > 0
  /\ LET idle == IdleEntries(lastTick)
     IN  \E victims \in CapVictims(Entries \ idle) :
           states' = Evict(idle \cup victims)
  /\ decisions' = Quiet
  /\ firingIDs' = {}
  /\ lastOp' = "compact"
  /\ UNCHANGED <<rule, clock, lastTick>>

\* The manager calls it at the end of a resolve, whatever the state then is.
RemoveAlertState(a) ==
  /\ states[a] # NoState
  /\ states' = Evict({a})
  /\ decisions' = Quiet
  /\ firingIDs' = {}
  /\ lastOp' = "remove"
  /\ UNCHANGED <<rule, clock, lastTick>>

AdvanceClock ==
  /\ clock < MaxTime
  /\ clock' = clock + 1
  /\ decisions' = Quiet
  /\ firingIDs' = {}
  /\ lastOp' = "clock"
  /\ UNCHANGED <<rule, states, lastTick>>

Next ==
  \/ \E a \in AlertIds, cnt \in Counts, t \in Readings : ProcessEvent(a, cnt, t)
  \/ \E t \in Readings : TickRuleWithFiring(t)
  \/ CompactStates
  \/ \E a \in AlertIds : RemoveAlertState(a)
  \/ AdvanceClock

Spec == Init /\ [][Next]_vars

\* The ticker goroutine keeps running, and a reading is stale only for as long
\* as the wait for the lock takes.
FairSpec == Spec /\ WF_vars(TickRuleWithFiring(clock))

-----------------------------------------------------------------------------
(* Safety.                                                                 *)

Counting == rule.AlertType \in CountTypes

\* The timestamps of a state agree with its phase: RaisedAt is set exactly
\* while the alert is active, PendingSince exactly while it is pending, and a
\* recovery timer runs only for an active heartbeat alert of a rule that has a
\* recovery window (applyActiveCondition, resetResolvedState).
StampsFit(s) ==
  /\ IsActive(s) <=> s.RaisedAt # Nil
  /\ s.CurrentState = "pending" <=> s.PendingSince # Nil
  /\ s.HysteresisSince # Nil =>
       ~Counting /\ IsActive(s) /\ rule.HysteresisSec > 0
StampsFitState == \A a \in Entries : StampsFit(states[a])

\* No raise is missed and none outlives its cause: a count_total alert is
\* active exactly when its counter has reached N, a count_window alert is
\* active whenever the window it last saw held N (ProcessEvent).
RaisedIffReached ==
  \A a \in Entries :
    LET s == states[a]
    IN  /\ rule.AlertType = "count_total" =>
             (IsActive(s) <=> s.CountTotal >= rule.N)
        /\ rule.AlertType = "count_window" =>
             (s.CountWindowSum >= rule.N => IsActive(s))

\* The cached CountWindowSum is the sum of the retained points, and however
\* the clock readings of concurrent callers interleave, no retained point is
\* older than the window by more than the lag (pruneWindow stops at the first
\* fresh point, so a late reading can hide behind it).
WindowConsistent ==
  \A a \in Entries :
    LET s == states[a]
    IN  /\ s.CountWindowSum = SumCounts(s.CountWindow)
        /\ \A i \in DOMAIN s.CountWindow :
             s.CountWindow[i].At >= s.LastSeen - rule.WindowSec - MaxLag

\* An active heartbeat alert either has its recovery timer running since an
\* event after the raise, or nothing has been heard of it for MissingSec: a
\* tick can neither resolve it nor start its recovery without a heartbeat.
RecoveryWitness ==
  ~Counting =>
    \A a \in Entries :
      LET s == states[a]
      IN  IsActive(s) =>
            \/ /\ s.HysteresisSince # Nil
               /\ s.LastSeen >= s.RaisedAt - MaxLag
               /\ s.HysteresisSince >= s.RaisedAt - MaxLag
            \/ /\ s.HysteresisSince = Nil
               /\ lastTick - s.LastSeen >= rule.MissingSec

\* A firing alert of a rule with pending was raised at least the delay ago.
DelayHonoured ==
  \A a \in Entries :
    states[a].CurrentState = "firing" /\ rule.PendingEnabled =>
      clock - states[a].RaisedAt >= rule.DelaySec

\* A tick settles every alert of the rule for its reading t: no count alert
\* stays active past its silence, no missing heartbeat stays unraised or keeps
\* a recovery running, no recovery stays unfinished past its window, and no
\* missing heartbeat stays pending past its delay.
Settled(s, t) ==
  IF Counting THEN ~(IsActive(s) /\ Silent(rule, s, t))
  ELSE /\ Missing(rule, s, t) => IsActive(s) /\ s.HysteresisSince = Nil
       /\ s.HysteresisSince # Nil => t - s.HysteresisSince < rule.HysteresisSec
       /\ s.CurrentState = "pending" /\ Missing(rule, s, t)
            => ~DelayServed(rule, s, t)
TickSettles ==
  [][lastOp' = "tick" =>
       \A a \in Entries' : Settled(states'[a], lastTick')]_vars

\* Eviction spares active alerts, goes no further than idleness and the cap
\* ask for, and takes the entries seen least recently (CompactStates).
EvictionOrder ==
  [][lastOp' = "compact" =>
       LET gone == Entries \ Entries'
           idle == IdleEntries(lastTick)
       IN  \A x \in gone :
             /\ ~IsActive(states[x])
             /\ x \notin idle =>
                  /\ Cardinality(Entries') >= MaxStates
                  /\ \A y \in Entries' : ~IsActive(states[y]) =>
                       states[x].LastSeen <= states[y].LastSeen]_vars

\* The engine implements the promise of its rule: every phase change has the
\* cause the rule type demands and is announced by the decision returned.
Lifecycle == INSTANCE AlertLifecycle WITH
  phase    <- [a \in AlertIds |->
                 IF states[a] = NoState THEN Inactive ELSE states[a].CurrentState],
  raisedAt <- [a \in AlertIds |->
                 IF states[a] = NoState THEN Nil ELSE states[a].RaisedAt],
  heard    <- [a \in AlertIds |->
                 IF states[a] = NoState THEN Nil ELSE states[a].LastSeen],
  notice   <- decisions
LifecycleSpec == Lifecycle!Spec

\* The outcome of the latest evaluation, in the terms of AlertManager.
Outcomes == INSTANCE RuleOutcomes WITH
  Counting <- rule.AlertType \in CountTypes, Pending <- rule.PendingEnabled
PhaseOf(e) == IF e = NoState THEN Inactive ELSE e.CurrentState
Evaluated(a) ==
  Outcomes!Outcome(PhaseOf(states'[a]), decisions'[a].State, decisions'[a].StateChanged)

\* An evaluation comes to one of the outcomes that AlertManager reckons with:
\* an event moves its own alert only, a tick every alert of the rule, and
\* neither moves one but as its rule allows, or decides otherwise than it moves
\* (ProcessEvent, TickRuleWithFiring).
OutcomesAsManaged ==
  [][/\ lastOp' = "event" =>
          \E a \in AlertIds :
            /\ a \in Entries' /\ Evaluated(a) \in Outcomes!EventOutcomes(PhaseOf(states[a]))
            /\ \A b \in AlertIds \ {a} :
                 states'[b] = states[b] /\ decisions'[b] = NoDecision
     /\ lastOp' = "tick" =>
          /\ Entries' = Entries
          /\ \A a \in Entries : Evaluated(a) \in Outcomes!TickOutcomes(PhaseOf(states[a]))]_vars

-----------------------------------------------------------------------------
(* Liveness, under the ticker's fairness.                                  *)

Overdue(a) ==
  /\ Counting
  /\ states[a] # NoState /\ IsActive(states[a]) /\ Silent(rule, states[a], clock)

\* An active count alert that has been silent for its resolve time is resolved,
\* unless events come back.
SilentAlertResolves == \A a \in AlertIds : Overdue(a) ~> ~Overdue(a)

Unnoticed(a) ==
  /\ ~Counting
  /\ states[a] # NoState /\ Missing(rule, states[a], clock)
  /\ \/ states[a].CurrentState = Inactive
     \/ states[a].CurrentState = "pending" /\ DelayServed(rule, states[a], clock)

\* A missing heartbeat gets its alert raised, and a raised one fires once its
\* delay is served, unless the heartbeat returns or its entry is evicted.
MissingHeartbeatFires == \A a \in AlertIds : Unnoticed(a) ~> ~Unnoticed(a)

Recovered(a) ==
  /\ states[a] # NoState /\ states[a].HysteresisSince # Nil
  /\ ~Missing(rule, states[a], clock)
  /\ clock - states[a].HysteresisSince >= rule.HysteresisSec

\* A heartbeat that is back for its recovery window gets its alert resolved,
\* unless it goes missing again.
RecoveredHeartbeatResolves == \A a \in AlertIds : Recovered(a) ~> ~Recovered(a)
=============================================================================
