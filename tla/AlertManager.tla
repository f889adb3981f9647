----------------------------- MODULE AlertManager -----------------------------
(***************************************************************************)
(* The alert manager of internal/app/manager.go: event handlers, the       *)
(* ticker and the TTL consumer of one or several service instances carry   *)
(* the decisions of their instance's engine through the card store and the *)
(* notification dispatcher, concurrently and with no lock around the       *)
(* whole.  Every engine call, every store call and every send is one       *)
(* atomic step; anything may happen between two of them.                   *)
(*                                                                         *)
(* The engine is the one AlertLifecycle describes, without its clock: an   *)
(* event or a tick moves an alert along "", pending, firing, "" for the    *)
(* reasons the rule type allows.  Delivery is direct (no notify.queue),    *)
(* over one route.  A delivery may open an external reference: the post or *)
(* the issue of a firing message.                                          *)
(***************************************************************************)
EXTENDS Integers, FiniteSets

CONSTANTS
  Alerts,      \* alert IDs of the rule
  Instances,   \* service instances; those of one cluster share the store
  Workers,     \* goroutines that handle events
  Tickers,     \* goroutines of the resolve scan
  Expirers,    \* goroutines of the delete-marker consumer
  Home,        \* the instance of each goroutine
  Rules,       \* [Counting, Pending, Channel, Off] records to start from
  Store,       \* "memory" or "nats"
  Ingest,      \* which of "push" and "batch" events come in by
  Repeat,      \* notify.repeat
  MaxLives,    \* bound: times one alert is raised
  MaxSends,    \* bound: messages sent
  MaxFails,    \* bound: sends that fail otherwise than by being refused
  MaxRestarts  \* bound: restarts of an instance

Procs == Workers \cup Tickers \cup Expirers
RuleConfig == [Counting : BOOLEAN, Pending : BOOLEAN,
               Channel : {"tracker", "mattermost", "plain"}, Off : BOOLEAN]

\* "none" stands for no alert in a goroutine's hands.
ASSUME AlertsAssumption == "none" \notin Alerts
ASSUME RulesAssumption == Rules \subseteq RuleConfig
ASSUME HomeAssumption == Home \in [Procs -> Instances]
ASSUME ProcsAssumption == IsFiniteSet(Procs) /\ Expirers \cap (Workers \cup Tickers) = {}
ASSUME DeploymentAssumption ==
  /\ Store \in {"memory", "nats"}
  /\ Ingest \subseteq {"push", "batch"}
  /\ Repeat \in BOOLEAN
ASSUME BoundsAssumption == {MaxLives, MaxSends, MaxFails, MaxRestarts} \subseteq Nat

VARIABLES
  rule,      \* the rule and its route's channel
  engine,    \* engine entry of each instance and alert: phase, ref, told, life
  lives,     \* how often each alert has been raised
  cards,     \* card of each alert: State, rev, ref, map, life
  ticks,     \* alerts with a tick entry
  markers,   \* alerts with a delete marker on its way to a consumer
  revision,  \* the NATS stream sequence
  proc,      \* where each goroutine is and what it holds
  moved,     \* history: card writes that changed State, by alert and state
  sent,      \* history: messages, and resolves that were muted, by alert, life and kind
  sends,     \* messages sent; the next one gets reference sends + 1
  errors,    \* history: sends and card writes that returned an error
  restarts,  \* restarts of an instance
  overlaps   \* history: alerts two goroutines worked on at the same time

engineVars == <<engine, lives>>
storeVars == <<cards, ticks, markers, revision, moved>>
sendVars == <<sent, sends, errors>>
vars == <<rule, engineVars, storeVars, proc, sendVars, restarts, overlaps>>

INSTANCE RuleOutcomes WITH Counting <- rule.Counting, Pending <- rule.Pending

None == 0       \* no external reference
\* "opened" counts the messages that made a post or an issue, "muted" the
\* resolves an off window kept back.
Kind == {"firing", "resolved", "opened", "muted"}
NoEntry == [phase |-> "none"]
NoCard == [State |-> "none"]
Fresh == [phase |-> Inactive, ref |-> None, told |-> FALSE, life |-> 0]

Entry(p, a) == engine[Home[p]][a]
HasEntry(p, a) == Entry(p, a) # NoEntry
SetEntry(p, a, e) == engine' = [engine EXCEPT ![Home[p]][a] = e]

-----------------------------------------------------------------------------
(* What the engine may decide.  That AlertEngine decides nothing else is   *)
(* its property OutcomesAsManaged.                                         *)

Rises(e, o) == e.phase = Inactive /\ o.phase # Inactive

\* The entry after outcome o.  resetResolvedState keeps the references and the
\* notification times: only RemoveAlertState drops them.
After(e, o, a) ==
  [e EXCEPT !.phase = o.phase, !.life = IF Rises(e, o) THEN lives[a] + 1 ELSE @]

-----------------------------------------------------------------------------
(* What a goroutine holds while it works on an alert.                      *)

Idle ==
  [pc |-> "idle", why |-> "none", alert |-> "none", state |-> Inactive,
   changed |-> FALSE, life |-> 0, late |-> FALSE, card |-> NoCard, notify |-> FALSE, ref |-> None,
   tries |-> 0, todo |-> {}, repeats |-> {}]

Decision(a, o, e) ==
  [alert |-> a, state |-> o.state, changed |-> o.changed, life |-> e.life]

Carry(why, d, late) ==
  [Idle EXCEPT !.pc = "identity", !.why = why, !.alert = d.alert,
               !.state = d.state, !.changed = d.changed, !.life = d.life,
               !.late = late]

\* The goroutine is done with its alert.  A batch then refreshes the tick of
\* an active decision, the ticker goes on with its scan.
Finish(j) ==
  IF j.why = "event"
  THEN IF j.late /\ j.state # "resolved" THEN [j EXCEPT !.pc = "flush"] ELSE Idle
  ELSE IF j.why \in {"decision", "repeat"}
  THEN [Idle EXCEPT !.pc = "scan", !.todo = j.todo, !.repeats = j.repeats]
  ELSE Idle

\* Mutant: a TTL resolve leaves the deletion to the ticker.
CloseUnlessTTL(j) ==
  IF j.state = "resolved" /\ j.why # "ttl"
  THEN [j EXCEPT !.pc = "delete", !.card = NoCard, !.ref = None]
  ELSE Finish(j)

\* The notification is through or was not due.
Close(j) ==
  IF j.state = "resolved"
  THEN [j EXCEPT !.pc = "delete", !.card = NoCard, !.ref = None]
  ELSE Finish(j)

\* Sending or persisting failed.  A handler returns the error, which ends a
\* whole tick; a repeat and a TTL resolve only log it.
Abandon(j) ==
  CASE j.why = "repeat" -> Finish(j)
    [] j.why = "ttl"    -> Close(j)
    [] OTHER            -> Idle

\* Decisions into pending carry ShouldNotify = FALSE.
Notify(j) ==
  IF j.changed /\ j.notify /\ j.state # "pending"
  THEN [j EXCEPT !.pc = "prepare", !.card = NoCard]
  ELSE Close(j)

\* seedExternalRefs comes first, if the card read or written has a reference.
Seed(j) == IF j.card = NoCard \/ j.card.ref = None THEN Notify(j)
           ELSE [j EXCEPT !.pc = "seed"]

WorksOn(j) ==
  {a \in Alerts : j.alert = a \/ a \in j.repeats \/ \E d \in j.todo : d.alert = a}

\* Notes the alerts p shares with another goroutine when it goes on with j.
NoteOverlap(p, j) ==
  overlaps' = overlaps \cup
    UNION {WorksOn(j) \cap WorksOn(proc[q]) : q \in Procs \ {p}}

Becomes(p, j) == proc' = [proc EXCEPT ![p] = j] /\ NoteOverlap(p, j)
Fail(p, j) == errors' = errors + 1 /\ Becomes(p, Abandon(j))

-----------------------------------------------------------------------------
Init ==
  /\ rule \in Rules
  /\ engine = [i \in Instances |-> [a \in Alerts |-> NoEntry]]
  /\ lives = [a \in Alerts |-> 0]
  /\ cards = [a \in Alerts |-> NoCard]
  /\ ticks = {} /\ markers = {} /\ revision = 0
  /\ proc = [p \in Procs |-> Idle]
  /\ moved = [a \in Alerts |-> [s \in {"pending", "firing", "resolved"} |-> 0]]
  /\ sent = [a \in Alerts |-> [l \in 0..MaxLives |->
               [k \in Kind |-> 0]]]
  /\ sends = 0 /\ errors = 0 /\ restarts = 0
  /\ overlaps = {}

(***************************************************************************)
(* The engine calls that start a handler.                                  *)
(***************************************************************************)

\* Push, or PushBatch of one event: Engine.ProcessEvent.
Event(p, a) ==
  /\ proc[p].pc = "idle"
  /\ LET e == IF HasEntry(p, a) THEN Entry(p, a) ELSE Fresh
     IN  \E o \in EventOutcomes(e.phase), way \in Ingest :
           /\ Rises(e, o) => lives[a] < MaxLives
           /\ SetEntry(p, a, After(e, o, a))
           /\ lives' = IF Rises(e, o) THEN [lives EXCEPT ![a] = @ + 1] ELSE lives
           /\ IF o.state = Inactive THEN UNCHANGED <<proc, overlaps>>
              ELSE Becomes(p, Carry("event", Decision(a, o, After(e, o, a)),
                                    way = "batch"))
  /\ UNCHANGED <<rule, storeVars, sendVars, restarts>>

\* Tick, up to TickRuleWithFiring: decisions for all alerts of the rule at
\* once, and the alerts to repeat.  The engine lists all firing count alerts,
\* of the heartbeat alerts only those on their way back (AlertEngine!Listed).
Tick(p) ==
  LET held == {a \in Alerts : HasEntry(p, a)}
      Possible == [held -> UNION {TickOutcomes(ph) : ph \in {Inactive, "pending", "firing"}}]
  IN
  /\ proc[p].pc = "idle"
  /\ \E choice \in Possible :
       /\ \A a \in held :
            /\ choice[a] \in TickOutcomes(Entry(p, a).phase)
            /\ Rises(Entry(p, a), choice[a]) => lives[a] < MaxLives
       /\ LET next == [a \in held |-> After(Entry(p, a), choice[a], a)]
              firing == {a \in held : next[a].phase = "firing"}
              todo == {Decision(a, choice[a], next[a]) :
                         a \in {b \in held : choice[b].state # Inactive}}
          IN  \E listed \in SUBSET firing :
                /\ rule.Counting => listed = firing
                /\ engine' = [engine EXCEPT ![Home[p]] =
                     [a \in Alerts |-> IF a \in held THEN next[a] ELSE NoEntry]]
                /\ Becomes(p, [Idle EXCEPT !.pc = "scan", !.todo = todo,
                                 !.repeats = IF Repeat THEN listed ELSE {}])
       /\ lives' = [a \in Alerts |->
            IF a \in held /\ Rises(Entry(p, a), choice[a])
            THEN lives[a] + 1 ELSE lives[a]]
  /\ UNCHANGED <<rule, storeVars, sendVars, restarts>>

\* The loop of Tick over the decisions of the rule.
NextDecision(p) ==
  /\ proc[p].pc = "scan"
  /\ \E d \in proc[p].todo :
       Becomes(p, [Carry("decision", d, FALSE)
                     EXCEPT !.todo = proc[p].todo \ {d}, !.repeats = proc[p].repeats])
  /\ UNCHANGED <<rule, engineVars, storeVars, sendVars, restarts>>

\* The loop over the firing alerts: GetRepeatSnapshot and GetLastNotified.  A
\* repeat is due when none was ever sent, or when the interval has passed.
NextRepeat(p) ==
  /\ proc[p].pc = "scan" /\ proc[p].todo = {}
  /\ \E a \in proc[p].repeats :
       LET j == [proc[p] EXCEPT !.repeats = @ \ {a}]
           repeat == [j EXCEPT !.pc = "prepare", !.why = "repeat", !.alert = a,
                               !.state = "firing", !.life = Entry(p, a).life]
       IN  \/ HasEntry(p, a) /\ Becomes(p, repeat)
           \/ (HasEntry(p, a) => Entry(p, a).told) /\ Becomes(p, j)
  /\ UNCHANGED <<rule, engineVars, storeVars, sendVars, restarts>>

\* CompactStates ends the tick: inactive entries may be evicted, also those
\* another goroutine is about to resolve.
EndTick(p) ==
  /\ proc[p].pc = "scan" /\ proc[p].todo = {} /\ proc[p].repeats = {}
  /\ \E gone \in SUBSET {a \in Alerts : HasEntry(p, a) /\ Entry(p, a).phase = Inactive} :
       /\ engine' = [engine EXCEPT ![Home[p]] =
            [a \in Alerts |-> IF a \in gone THEN NoEntry ELSE @[a]]]
       /\ NoteOverlap(p, [Idle EXCEPT !.repeats = gone])
  /\ proc' = [proc EXCEPT ![p] = Idle]
  /\ UNCHANGED <<rule, lives, storeVars, sendVars, restarts>>

(***************************************************************************)
(* applyDecision and persistDecisionCard.                                  *)
(***************************************************************************)

\* GetAlertIdentity: a decision on an alert that is gone by now is dropped.
GetAlertIdentity(p) ==
  LET j == proc[p]
  IN  /\ j.pc = "identity"
      /\ Becomes(p,
           IF ~HasEntry(p, j.alert) THEN Finish([j EXCEPT !.late = FALSE])
           ELSE IF j.state # "resolved" /\ ~j.late THEN [j EXCEPT !.pc = "refresh"]
           ELSE IF j.changed THEN [j EXCEPT !.pc = "read"]
           ELSE Finish(j))
      /\ UNCHANGED <<rule, engineVars, storeVars, sendVars, restarts>>

\* RefreshTick, at once or at the end of a batch.  In the NATS stream it
\* replaces a delete marker that is not delivered yet.
RefreshTick(p) ==
  LET j == proc[p]
  IN  /\ j.pc \in {"refresh", "flush"}
      /\ ticks' = ticks \cup {j.alert}
      /\ markers' = markers \ {j.alert}
      /\ Becomes(p, IF j.pc = "flush" THEN Idle
                    ELSE IF j.changed THEN [j EXCEPT !.pc = "read"]
                    ELSE Finish(j))
      /\ UNCHANGED <<rule, engineVars, cards, revision, moved, sendVars, restarts>>

ReadCard(p) ==
  /\ proc[p].pc = "read"
  /\ Becomes(p, [proc[p] EXCEPT !.pc = "write", !.card = cards[proc[p].alert]])
  /\ UNCHANGED <<rule, engineVars, storeVars, sendVars, restarts>>

\* Mutant: a created card has the revision that stands for no card.
CreatedAtZero(a) == IF cards[a] = NoCard THEN 0 ELSE revision + 1

\* The revision a write of alert a gets.  The memory store starts every new
\* card at 1.
NextRevision(a) ==
  IF Store = "nats" THEN revision + 1
  ELSE IF cards[a] = NoCard THEN 1 ELSE cards[a].rev + 1

\* A successful CreateCard or UpdateCard.
Put(a, c) ==
  /\ cards' = [cards EXCEPT ![a] = [c EXCEPT !.rev = NextRevision(a)]]
  /\ revision' = IF Store = "nats" THEN revision + 1 ELSE revision
  /\ moved' = IF cards[a].State = c.State THEN moved
              ELSE [moved EXCEPT ![a][c.State] = @ + 1]

\* The store still holds what was read: no card, or the same revision.
SameRevision(held, a) ==
  \/ held = NoCard /\ cards[a] = NoCard
  \/ held # NoCard /\ cards[a] # NoCard /\ cards[a].rev = held.rev

\* MemoryStore.UpdateCard of a deleted card is ErrNotFound, not a conflict.
NotFound(held, a) == Store = "memory" /\ held # NoCard /\ cards[a] = NoCard

\* Mutant: a write that changes nothing may notify as well.
AlwaysNotify(held, state) == TRUE

\* A created card may notify, an updated one only if it changes State.
AllowNotify(held, state) == held = NoCard \/ held.State # state

\* The card a decision writes over the one read.
Written(j) ==
  IF j.card = NoCard
  THEN [State |-> j.state, rev |-> 0, ref |-> None, map |-> None, life |-> j.life]
  ELSE [j.card EXCEPT !.State = j.state,
                      !.life = IF j.state = "resolved" THEN @ ELSE j.life]

WriteCard(p) ==
  LET j == proc[p]
      a == j.alert
  IN  /\ j.pc = "write"
      /\ IF SameRevision(j.card, a)
         THEN /\ Put(a, Written(j)) /\ UNCHANGED errors
              /\ Becomes(p, Seed([j EXCEPT !.card = Written(j),
                                    !.notify = AllowNotify(j.card, j.state)]))
         ELSE /\ UNCHANGED <<cards, revision, moved>>
              /\ IF NotFound(j.card, a) THEN Fail(p, j)
                 ELSE /\ Becomes(p, [j EXCEPT !.pc = "conflict", !.card = NoCard])
                      /\ UNCHANGED errors
      /\ UNCHANGED <<rule, engineVars, ticks, markers, sent, sends, restarts>>

\* resolvePersistConflict: another writer's card is taken over, silently.
ResolveConflict(p) ==
  /\ proc[p].pc = "conflict"
  /\ Becomes(p, Seed([proc[p] EXCEPT !.notify = FALSE,
                                     !.card = cards[proc[p].alert]]))
  /\ UNCHANGED <<rule, engineVars, storeVars, sendVars, restarts>>

\* seedExternalRefs: without an engine entry there is nothing to seed.
SeedExternalRefs(p) ==
  LET j == proc[p]
  IN  /\ j.pc = "seed"
      /\ IF HasEntry(p, j.alert)
         THEN SetEntry(p, j.alert, [Entry(p, j.alert) EXCEPT !.ref = j.card.ref])
         ELSE UNCHANGED engine
      /\ Becomes(p, Notify(j))
      /\ UNCHANGED <<rule, lives, storeVars, sendVars, restarts>>

(***************************************************************************)
(* dispatchNotification, notifyRoutes and applyDeliveryResults.            *)
(***************************************************************************)

\* shouldSkipNotificationByOff: in an off window of the rule the notification
\* is not sent, and its caller goes on as if it was.
Mute(p) ==
  LET j == proc[p]
  IN  /\ j.pc = "prepare" /\ rule.Off
      /\ sent' = IF j.state = "resolved"
                 THEN [sent EXCEPT ![j.alert][j.life]["muted"] = @ + 1] ELSE sent
      /\ Becomes(p, Close(j))
      /\ UNCHANGED <<rule, engineVars, storeVars, sends, errors, restarts>>

\* The route takes the engine's reference; Mattermost needs one to resolve.
PrepareNotification(p) ==
  LET j == proc[p]
      ref == IF HasEntry(p, j.alert) THEN Entry(p, j.alert).ref ELSE None
      skip == rule.Channel = "mattermost" /\ j.state = "resolved" /\ ref = None
  IN  /\ j.pc = "prepare"
      /\ Becomes(p, IF skip THEN Close(j) ELSE [j EXCEPT !.pc = "send", !.ref = ref])
      /\ UNCHANGED <<rule, engineVars, storeVars, sendVars, restarts>>

\* A tracker refuses to close an issue it has no reference of, and says
\* nothing about a firing alert that has one.
Refused(j) == rule.Channel = "tracker" /\ j.state = "resolved" /\ j.ref = None
Silent(j) == rule.Channel = "tracker" /\ j.state = "firing" /\ j.ref # None

\* The reference the sender returns.
ResultRef(j) ==
  CASE rule.Channel = "plain" -> None
    [] rule.Channel = "mattermost" -> IF j.state = "firing" THEN sends + 1 ELSE None
    [] OTHER -> IF j.ref = None THEN sends + 1 ELSE j.ref

\* The kinds a message is counted under.
Kinds(j) ==
  {k \in Kind :
     \/ k = j.state /\ j.why # "repeat"
     \/ /\ k = "opened" /\ rule.Channel # "plain"
        /\ j.state = "firing" /\ j.ref = None}

Send(p) ==
  LET j == proc[p]
  IN  /\ j.pc = "send" /\ ~Refused(j)
      /\ IF Silent(j) THEN UNCHANGED <<sent, sends>>
         ELSE /\ sends < MaxSends
              /\ sends' = sends + 1
              /\ sent' = [sent EXCEPT ![j.alert][j.life] =
                   [k \in DOMAIN @ |-> @[k] + IF k \in Kinds(j) THEN 1 ELSE 0]]
      /\ Becomes(p, [j EXCEPT !.pc = "effects", !.ref = ResultRef(j)])
      /\ UNCHANGED <<rule, engineVars, storeVars, errors, restarts>>

SendFails(p) ==
  LET j == proc[p]
  IN  /\ j.pc = "send"
      /\ Refused(j) \/ (errors < MaxFails /\ ~Silent(j))
      /\ Fail(p, j)
      /\ UNCHANGED <<rule, engineVars, storeVars, sent, sends, restarts>>

\* Mutant: only repeats persist their reference.
OnlyRepeats(j) == j.why = "repeat" /\ j.ref # None

\* applyDeliveryResults persists what a firing message returned.
HasUpdates(j) == j.state # "resolved" /\ j.ref # None

\* captureDeliveryEffects: the setters do nothing for an entry that is gone.
CaptureDeliveryEffects(p) ==
  LET j == proc[p]
  IN  /\ j.pc = "effects"
      /\ IF HasEntry(p, j.alert)
         THEN SetEntry(p, j.alert,
                [Entry(p, j.alert) EXCEPT !.told = TRUE,
                   !.ref = IF j.ref = None THEN @ ELSE j.ref])
         ELSE UNCHANGED engine
      /\ Becomes(p, IF HasUpdates(j) THEN [j EXCEPT !.pc = "refs"] ELSE Close(j))
      /\ UNCHANGED <<rule, lives, storeVars, sendVars, restarts>>

\* persistExternalRefs, one attempt's GetCard.  A card of the memory store
\* shares its ExternalRefs map with every copy: once there is one, the entry
\* is set in all of them, before any revision is compared.
ReadRefs(p) ==
  LET j == proc[p]
      c == cards[j.alert]
      new == IF c = NoCard THEN NoCard
             ELSE [c EXCEPT !.ref = j.ref, !.map = IF @ = None THEN j.ref ELSE @]
      next == IF c = NoCard \/ c = new THEN Finish(j)
              ELSE [j EXCEPT !.pc = "refsWrite", !.card = new]
      Shared(x) == x # NoCard /\ x.map = c.map
  IN  /\ j.pc = "refs"
      /\ IF Store = "memory" /\ c # NoCard /\ c.map # None
         THEN /\ cards' = [cards EXCEPT ![j.alert] = new]
              /\ proc' = [q \in Procs |->
                   IF q = p THEN next
                   ELSE IF Shared(proc[q].card)
                   THEN [proc[q] EXCEPT !.card.ref = j.ref] ELSE proc[q]]
              /\ NoteOverlap(p, next)
         ELSE UNCHANGED cards /\ Becomes(p, next)
      /\ UNCHANGED <<rule, engineVars, ticks, markers, revision, moved, sendVars,
                     restarts>>

\* Mutant: the references are written whatever happened to the card.
PutRefs(held, a) == cards[a] # NoCard

\* The attempt's UpdateCard.
RefsUnchanged(held, a) == SameRevision(held, a)

WriteRefs(p) ==
  LET j == proc[p]
      a == j.alert
  IN  /\ j.pc = "refsWrite"
      /\ IF RefsUnchanged(j.card, a)
         THEN Put(a, j.card) /\ Becomes(p, Finish(j)) /\ UNCHANGED errors
         ELSE /\ UNCHANGED <<cards, revision, moved>>
              /\ IF NotFound(j.card, a) \/ j.tries = 2 THEN Fail(p, j)
                 ELSE /\ Becomes(p, [j EXCEPT !.pc = "refs", !.card = NoCard,
                                              !.tries = @ + 1])
                      /\ UNCHANGED errors
      /\ UNCHANGED <<rule, engineVars, ticks, markers, sent, sends, restarts>>

(***************************************************************************)
(* The end of a resolve.                                                   *)
(***************************************************************************)

\* Mutant: an alert that was raised again in the meantime is kept.
KeepRaised(e) == IF e # NoEntry /\ e.phase # Inactive THEN e ELSE NoEntry

\* What Engine.RemoveAlertState leaves of an entry, whatever its phase.
Removed(e) == NoEntry

\* DeleteCard removes the card and then its tick; in the memory store under
\* one lock.  Deleting a tick in NATS leaves a marker, as its expiry does.
DeleteCard(p) ==
  LET j == proc[p]
  IN  /\ j.pc = "delete"
      /\ cards' = [cards EXCEPT ![j.alert] = NoCard]
      /\ ticks' = IF Store = "memory" THEN ticks \ {j.alert} ELSE ticks
      /\ Becomes(p, [j EXCEPT !.pc = IF Store = "memory" THEN "remove"
                                     ELSE "deleteTick"])
      /\ UNCHANGED <<rule, engineVars, markers, revision, moved, sendVars, restarts>>

DeleteTick(p) ==
  LET j == proc[p]
  IN  /\ j.pc = "deleteTick"
      /\ ticks' = ticks \ {j.alert}
      /\ markers' = markers \cup {j.alert}
      /\ Becomes(p, [j EXCEPT !.pc = "remove"])
      /\ UNCHANGED <<rule, engineVars, cards, revision, moved, sendVars, restarts>>

RemoveAlertState(p) ==
  LET j == proc[p]
  IN  /\ j.pc = "remove"
      /\ SetEntry(p, j.alert, Removed(Entry(p, j.alert)))
      /\ Becomes(p, Finish(j))
      /\ UNCHANGED <<rule, lives, storeVars, sendVars, restarts>>

(***************************************************************************)
(* Expiry: ResolveByTTL, driven by the tick bucket's delete markers.       *)
(***************************************************************************)

\* The tick outlives ResolveTimeout without a refresh.
ExpireTick(a) ==
  /\ Store = "nats" /\ a \in ticks
  /\ ticks' = ticks \ {a}
  /\ markers' = markers \cup {a}
  /\ UNCHANGED <<rule, engineVars, cards, revision, moved, proc, sendVars,
                 restarts, overlaps>>

\* DeleteMarkerConsumer hands the marker to one consumer of the group, which
\* acknowledges it when ResolveByTTL returns.  HasTick comes first there.
TakeMarker(p, a) ==
  /\ p \in Expirers /\ proc[p].pc = "idle" /\ a \in markers
  /\ markers' = markers \ {a}
  /\ Becomes(p, IF a \in ticks THEN Idle
                ELSE [Idle EXCEPT !.pc = "ttlRead", !.why = "ttl", !.alert = a,
                        !.state = "resolved", !.changed = TRUE, !.notify = TRUE])
  /\ UNCHANGED <<rule, engineVars, cards, ticks, revision, moved, sendVars, restarts>>

ReadExpired(p) ==
  LET j == proc[p]
      c == cards[j.alert]
  IN  /\ j.pc = "ttlRead"
      /\ Becomes(p, IF c.State \in {"pending", "firing"}
                    THEN [j EXCEPT !.pc = "ttlWrite", !.card = c, !.life = c.life]
                    ELSE Idle)
      /\ UNCHANGED <<rule, engineVars, storeVars, sendVars, restarts>>

\* On a conflict somebody else has dealt with the card.
ResolveExpired(p) ==
  LET j == proc[p]
      c == [j.card EXCEPT !.State = "resolved"]
  IN  /\ j.pc = "ttlWrite"
      /\ IF SameRevision(j.card, j.alert)
         THEN Put(j.alert, c) /\ Becomes(p, Seed([j EXCEPT !.card = c]))
         ELSE UNCHANGED <<cards, revision, moved>> /\ Becomes(p, Idle)
      /\ UNCHANGED <<rule, engineVars, ticks, markers, sendVars, restarts>>

\* An instance stops and comes back: its engine and its goroutines start anew,
\* the memory store with them, and markers not acknowledged are redelivered.
Restart(i) ==
  LET own == {p \in Procs : Home[p] = i}
  IN  /\ restarts < MaxRestarts
      /\ restarts' = restarts + 1
      /\ engine' = [engine EXCEPT ![i] = [a \in Alerts |-> NoEntry]]
      /\ proc' = [p \in Procs |-> IF p \in own THEN Idle ELSE proc[p]]
      /\ cards' = IF Store = "memory" THEN [a \in Alerts |-> NoCard] ELSE cards
      /\ ticks' = IF Store = "memory" THEN {} ELSE ticks
      /\ markers' = markers \cup
           {proc[p].alert : p \in {q \in own \cap Expirers : proc[q].pc # "idle"}}
      /\ UNCHANGED <<rule, lives, revision, moved, sendVars, overlaps>>

Step(p) ==
  \/ NextDecision(p) \/ NextRepeat(p) \/ EndTick(p)
  \/ GetAlertIdentity(p) \/ RefreshTick(p)
  \/ ReadCard(p) \/ WriteCard(p) \/ ResolveConflict(p) \/ SeedExternalRefs(p)
  \/ Mute(p) \/ PrepareNotification(p) \/ Send(p) \/ SendFails(p) \/ CaptureDeliveryEffects(p)
  \/ ReadRefs(p) \/ WriteRefs(p)
  \/ DeleteCard(p) \/ DeleteTick(p) \/ RemoveAlertState(p)
  \/ ReadExpired(p) \/ ResolveExpired(p)

Next ==
  \/ \E p \in Workers, a \in Alerts : Event(p, a)
  \/ \E p \in Tickers : Tick(p)
  \/ \E p \in Expirers, a \in Alerts : TakeMarker(p, a)
  \/ \E a \in Alerts : ExpireTick(a)
  \/ \E i \in Instances : Restart(i)
  \/ \E p \in Procs : Step(p)

Spec == Init /\ [][Next]_vars
-----------------------------------------------------------------------------
(* Safety.                                                                 *)

Phases == {Inactive, "pending", "firing"}
CardStates == {"pending", "firing", "resolved"}
Reference == 0..MaxSends
Life == 0..MaxLives
Entries == [phase : Phases, ref : Reference, told : BOOLEAN, life : Life] \cup {NoEntry}
Cards == [State : CardStates, rev : Nat, ref : Reference, map : Reference, life : Life]
Decisions == [alert : Alerts, state : CardStates, changed : BOOLEAN, life : Life]
Jobs == [pc : {"idle", "scan", "identity", "refresh", "read", "write", "conflict", "seed",
               "prepare", "send", "effects", "refs", "refsWrite", "delete", "deleteTick",
               "remove", "flush", "ttlRead", "ttlWrite"},
         why : {"none", "event", "decision", "repeat", "ttl"},
         alert : Alerts \cup {"none"}, state : CardStates \cup {Inactive},
         changed : BOOLEAN, life : Life, late : BOOLEAN, card : Cards \cup {NoCard},
         notify : BOOLEAN, ref : Reference, tries : 0..2,
         todo : SUBSET Decisions, repeats : SUBSET Alerts]

\* The shape of engines, store and goroutines.  A stored card has a revision, and whoever is
\* past the choice of an alert holds one, with the state to bring it to.
TypeOK ==
  /\ rule \in Rules
  /\ engine \in [Instances -> [Alerts -> Entries]] /\ lives \in [Alerts -> Life]
  /\ cards \in [Alerts -> {c \in Cards : c.rev # 0} \cup {NoCard}]
  /\ ticks \subseteq Alerts /\ markers \subseteq Alerts /\ revision \in Nat
  /\ proc \in [Procs -> Jobs]
  /\ \A p \in Procs : proc[p].pc \notin {"idle", "scan"} =>
       proc[p].alert \in Alerts /\ proc[p].state \in CardStates
  /\ sent \in [Alerts -> [Life -> [Kind -> Nat]]]
  /\ moved \in [Alerts -> [CardStates -> Nat]]
  /\ sends \in Reference /\ errors \in Nat /\ restarts \in 0..MaxRestarts
  /\ overlaps \subseteq Alerts

AllIdle == \A p \in Procs : proc[p].pc = "idle"
Lives(a) == 1..lives[a]
IsActive(i, a) == engine[i][a] # NoEntry /\ engine[i][a].phase # Inactive

\* No send or card write failed and no instance restarted so far.
Undisturbed == errors = 0 /\ restarts = 0

\* The messages that told of an alert's transitions to a state, numbered in each life.
Messages(a, s) == UNION {{<<l, n>> : n \in 1..sent[a][l][s]} : l \in Life}

\* A message about a transition takes a card write that made the transition:
\* however many goroutines and instances decide the same, and whatever fails,
\* no transition is notified twice (persistDecisionCard, ResolveByTTL).
TransitionOncePerWrite ==
  \A a \in Alerts : \A s \in {"firing", "resolved"} :
    Cardinality(Messages(a, s)) <= moved[a][s]

\* A resolved card is on its way out: when all handlers have returned and no
\* send failed, none is left, whoever won the races for it.
ResolvedCardTransient ==
  AllIdle /\ Undisturbed => \A a \in Alerts : cards[a].State # "resolved"

\* The card of an active alert is there when all handlers have returned: the
\* end of a resolve removes the card before the engine's entry, so a raise it
\* overtakes loses both or neither (applyDecision).
ActiveHasCard ==
  AllIdle /\ Undisturbed =>
    \A i \in Instances, a \in Alerts :
      IsActive(i, a) => cards[a].State \in {"pending", "firing"}

\* Persisting a reference leaves the state of every card alone, also when the
\* alert is resolved, deleted or raised again between its read and its write.
RefWriteKeepsTransition ==
  [][\A p \in Procs :
       proc[p].pc \in {"refs", "refsWrite"} /\ proc'[p] # proc[p] =>
         \A a \in Alerts : cards'[a].State = cards[a].State]_vars

\* As long as the goroutines take turns on an alert and nothing fails, the
\* card shows the alert's phase and reference, each of its lives is opened at
\* most once, and a life whose firing was told is closed by exactly one message,
\* unless its resolve came in an off window: that one is kept back, once, and
\* no other takes its place.
CardFollowsAlert ==
  AllIdle /\ Undisturbed =>
    \A i \in Instances, a \in Alerts \ overlaps :
      /\ IF IsActive(i, a)
         THEN /\ cards[a].State = engine[i][a].phase
              /\ cards[a].ref = engine[i][a].ref
         ELSE cards[a] = NoCard
      /\ \A l \in Lives(a) :
           LET m == sent[a][l]
           IN  /\ m.firing <= 1 /\ m.opened <= 1 /\ m.resolved + m.muted <= 1
               /\ m.muted > 0 => rule.Off
               /\ m.firing = 1 /\ ~(IsActive(i, a) /\ l = lives[a])
                    => m.resolved + m.muted = 1

-----------------------------------------------------------------------------
(* A statement of the documentation that the manager does not keep.        *)

\* The reference kept in the card closes the issue, also after a restart: once
\* the card is gone, every issue opened for the alert has been resolved, but
\* for resolves in an off window.
RestartSafeResolve ==
  AllIdle =>
    \A a \in Alerts \ overlaps : cards[a] = NoCard =>
      \A l \in Lives(a) : sent[a][l].opened > 0 => sent[a][l].resolved + sent[a][l].muted > 0
=============================================================================
