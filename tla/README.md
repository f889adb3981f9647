# A verification project for malert

malert turns incoming events into alerts: a rule counts events, or watches for
their absence, and its alerts go through `pending`, `firing` and `resolved`,
each change being kept as a card in a store and announced through notification
channels. This directory holds TLA+ models of that machinery, the TLC
configurations that check them on small instances, and proofs about them that
hold for every instance. Paths below are relative to `src/internal/` unless
they start with `src/`.

    tlc -config EngineFleet.cfg MCAlertEngine.tla       # one run
    tlapm AlertEngine_proofs.tla                        # one module of proofs

## 1. Inventory

| Component | State | Operations | Hard behaviour | Correct when |
|---|---|---|---|---|
| Rule engine `engine/engine.go` | one `RuntimeState` per alert ID: phase, raise/pending/recovery timestamps, counters, the sliding window; references and last-notified times of its channels | `ProcessEvent`, `TickRuleWithFiring`, `CompactStates`, `RemoveAlertState`, the reference accessors | each call is atomic under `e.mu`, but callers read the clock before they wait for it; state of one life must not leak into the next | every phase change has the cause the rule type demands; counters, windows and timers stay exact; due transitions happen |
| Alert manager `app/manager.go` | none of its own but the rule set; everything is in the engine and the store | `Push`, `PushBatch`, `Tick`, `ResolveByTTL`, `ApplyConfig` | event handlers, the ticker and the TTL consumer carry decisions from engine to store to channel with no lock around the whole | one message per transition; the card mirrors the alert; no card outlives its alert |
| Card and tick stores `state/memory_store.go`, `state/nats_store.go` | cards with a revision; tick entries with a TTL | create, update by compare-and-set, get, delete, list by prefix, refresh tick | revisions restart for a new card in memory, and never do in NATS | a writer that lost a race knows it |
| Delete-marker consumer `state/delete_consumer.go` | a durable JetStream consumer | calls `ResolveByTTL` for each expired tick, NAKs on error | markers are late, repeated, and go to any instance | a live alert is not resolved by an old marker |
| Dispatcher and senders `notify/notify.go` | HTTP clients, compiled templates, route time windows | `Send` with retries; create, comment or close by reference | refusals without a reference, lost answers, endless retries | the resolve closes what the firing opened |
| Notification queue `notifyqueue/` | a JetStream work queue and its DLQ | enqueue, worker, NAK, DLQ | at least once, out of order, several workers | each job is delivered or ends in the DLQ |
| Service runtime `app/service.go` | the running goroutines, the current config, dispatcher and queue | start, stop, reload | reload swaps producer, worker, dispatcher and rules one after another while alerts are in flight | no alert is lost or stranded by a reload |
| Configuration `config/config.go` | - | load, merge, defaults, validate; `notify.off` windows | overlapping fragments, explicit booleans, windows across midnight | the latest word on a setting counts; what is accepted can run and be delivered |
| Matching and keys `engine/matcher.go`, `engine/key_builder.go` | - | match an event, build the alert key | sanitised names against prefixes | two alerts never share a key |
| Ingest `ingest/` | subscriptions, HTTP handlers, a pool of scratches that batches are decoded in | decode, `Push` / `PushBatch`, answer | redelivery of a batch that failed half-way; leftovers in a scratch | an event is counted once per delivery, an answer tells the truth, the rules get what was sent |
| UI registry `ui/` | heartbeat records of instances | register, list, render | expiry | stale instances vanish |
| Domain types, clock, logging, templates, errors, main | - | - | - | - |

How they interact. Ingest calls the manager, which calls the engine under its
mutex and gets a *decision*; a decision with a state is written to the card
store (compare-and-set on the revision read before) and, if the write made the
transition, sent to the routes of the rule, directly or through the queue. A
resolve then deletes the card and the engine entry. The ticker evaluates every
rule each `resolve_scan_interval_sec`, carries its decisions the same way,
repeats notifications of the firing IDs the engine hands it, and evicts idle
entries. In NATS mode
every handled decision refreshes a tick entry; when one expires, its delete
marker reaches some instance's consumer, which resolves the card by itself.
Instances of a cluster share the store and nothing else.

## 2. The modules

| Module | What it models |
|---|---|
| `AlertLifecycle` | the abstract promise of a rule: raise, confirm, resolve, stay or drop an alert, each for a reason of the rule type, announced by exactly one notice |
| `RuleOutcomes` | what one evaluation of an alert may come to by its phase: what `AlertManager` works with, and what `AlertEngine` is shown to do |
| `AlertEngine` | the rule engine, one action per call; `LifecycleSpec` is its refinement of `AlertLifecycle`, `OutcomesAsManaged` its tie to the manager |
| `MCAlertEngine` | small rules of each type |
| `AlertEngine_proofs` | what `pruneWindow` computes for all sequences, the inductive invariant of the engine and the theorems that follow, about ticks and evictions too; the refinement and the outcomes, proved |
| `AlertManager` | event handlers, ticker and TTL consumer of several instances between engine, store and channels |
| `MCAlertManager` | small deployments |
| `AlertManager_proofs` | what handlers, ticker and TTL consumer leave behind and announce, proved |
| `AlertManagerCards_proofs` | that card and messages follow the alert, proved |
| `NotifyQueue` | queued delivery of one alert: the manager as publisher, JetStream, the workers of several instances, the DLQ |
| `MCNotifyQueue` | small queues |
| `NotifyQueue_proofs` | that no notification vanishes, is repeated or stays behind without a cause, and that a resolve finds the reference it is owed, proved |
| `Delivery` | direct delivery of one alert over the routes of its rule: retries, senders, references |
| `MCDelivery` | pairs of routes, with and without retries |
| `Delivery_proofs` | that an alert knows what it has standing in the channels, proved |
| `EventMatch` | the contract of events, the selectors and keys of rules, the out-of-order filter, as operators |
| `Ingest` | JetStream consumer and HTTP handlers: decoding, the batch, answers, redelivery; uses `EventMatch` |
| `MCIngest` | three rules and seven payloads |
| `Ingest_proofs` | how often an event is counted, what an answer tells, what a scratch leaves in an event, proved |
| `NotifyOff` | `notify.off` windows as operators, and what they mean |
| `ConfigLoad` | loading, merging, defaults and validation of the configuration; uses `NotifyOff` |
| `MCConfigLoad` | directories of a base file and files that change it |
| `ConfigLoad_proofs` | that off windows cover what they say, that merging takes the latest word on each setting, and that what is accepted can run and be delivered, proved |
| `Reload` | start, reload, shutdown and crash of the service around the manager's handlers and the queue's workers |
| `MCReload` | four states of the files, three rules |
| `Reload_proofs` | that its variables keep their types, that a notification no reload met arrives, and why a card is left without its rule, proved |

### AlertEngine and the code

`states[a]` is `Engine.states`, with the fields of `RuntimeState` by their
names (`Nil` is a nil or zero time). `ProcessEvent(a, cnt, t)` is
`Engine.ProcessEvent` for one alert: `EvalEvent` writes `LastSeen` and goes to
the counter, the window or the heartbeat branch; `TickRuleWithFiring(t)` is the
loop over the rule's states, where `EvalTick` is one iteration and `Listed`
says whether it reaches the append to `firingAlertIDs`; `CompactStates` is both
passes of the eviction; `RemoveAlertState` is what the manager does after a
resolve. A step is one call because every exported method holds `e.mu`. Its
time `t` is not `clock` but one of `Readings`, up to `MaxLag` behind: the
manager reads the clock before it waits for the mutex, so late readings
interleave. The single ticker goroutine never goes back (`t >= lastTick`).
Data is abstracted where no property needs it: labels, metric values and
decision causes are left out, a rule's events all carry their alert ID, and the
sum of a window is a cardinality (`Units`) so that proofs can use the library's
facts about finite sets.

### AlertManager and the code

A goroutine `proc[p]` is a handler of an event, the ticker, or the TTL
consumer; its `pc` is the place between two calls that other goroutines can see
the effect of. Every engine call, store call and send is a step: the engine
call itself (`Event`, `Tick`), `GetAlertIdentity`, `RefreshTick`, `ReadCard`,
`WriteCard`, `ResolveConflict`, `PrepareNotification`, `Send` or `SendFails`,
`CaptureDeliveryEffects`, `ReadRefs`, `WriteRefs`, `DeleteCard`, `DeleteTick`,
`RemoveAlertState`, and `TakeMarker`, `ReadExpired`, `ResolveExpired` for the
TTL path; `Close`, `Finish` and `Abandon` are its returns. The engine is
reduced to what an event or a tick may do to a phase and decide (`RuleOutcomes`),
without the clock, so that any timing of events, ticks and expiries is covered;
that `AlertEngine` does and decides nothing else is `OutcomesAsManaged`. The
two stores differ as they do in the code: revisions that restart, one shared
reference map per card in memory; a global sequence and markers in NATS. A
sender is one of three kinds: *tracker* (creates an issue, refuses a resolve or
a repeat it has no reference for), *mattermost* (posts, and replies when it has
a reference), *plain*. `Mute` is the way past all of them: in a `notify.off`
window of the rule `dispatchNotification` sends nothing and returns no error,
so its caller goes on as after a message.

### NotifyQueue and the code

A job is the index of a notification in `jobs`; `stream` is the work queue,
`pending` its deliveries that are neither answered nor expired, `delivered`
JetStream's delivery counts, `dlq` the dead letters. `work[i]` is what the
worker of instance `i` is doing: `Deliver` is JetStream's hand-out together
with `prepareNotificationForRoute` and `shouldDropTrackerNotification`, `Send`
or `SendFails` is `Dispatcher.Send` with `captureDeliveryEffects`, `ReadRefs`
and `WriteRefs` are `persistExternalRefs`, `Fails`, `Bury`, `Nak` and `Ack` the
branches of the callback in `NewNATSWorker`; `Expire` is the consumer's ack
wait. `OffWindow` is asked twice, as in the code: at the publish, which then
makes no job, and at each delivery by the worker's own clock, where the job is
acknowledged unsent (`"muted"` in `fate`). Calls are put into one step only where nothing else can see the state
between them. The handlers of the alert take turns (`mgr`), since their races
with each other are the subject of `AlertManager`, but a worker may come
between any two of their steps: engine decision and card read (`Raise`,
`Resolve`, `ResolveByTTL`, `Repeat`), card write, publish, and the two halves
of the deletion. The queue exists in cluster mode only, so the card store is
the NATS one, whose revisions never recur; all a compare-and-set can tell is
whether the card was written since it was read, and `current` holds those for
whom it was not. `Owners` are the instances that events of the alert reach;
workers and TTL consumers run everywhere. `sent`, `mishaps`, `fate` and the
fields `life` and `owed` of a job are history for the properties.

### Delivery and the code

`note` is the notification under way: `PrepareRoute` is one iteration of
`forEachRouteNotification`, with `prepareNotificationForRoute` and the drop of
a resolve nobody opened (`Skipped`); `Deliver`, `FailSend` and `LoseAnswer` are
one attempt of `sendWithRetry` that succeeds, fails, or takes effect without
its answer; `Elapse` and `Cancel` are the back-off; `applyDeliveryResults`
stores what the routes returned (`Captured` is `captureDeliveryEffects`).
`posts` is what the channels hold, and a sender is described by what it does to
them: a tracker opens an issue, leaves it alone on a repeat and closes it; an
`active_only` message is edited and taken back; a `history` message is posted
each time, in Mattermost as a reply to its thread. `MuteFiring` and
`MuteResolved` are the notifications that fall into an off window: nothing is
sent, and after the resolve the alert forgets what it has standing. `entry` has the engine's
references and message IDs of the alert by route. The handler that carries the
notification is alone: the races of several are in `AlertManager`.
`down` stands for services that never come back, `excused` for posts whose
reference cannot be known to the alert, or whose close was given up or muted.

### Ingest and the code

A message of the JetStream consumer or an HTTP request has a payload and a
`stage`; `job[h]` is the callback or request in which it is handled, with the
events as they were decoded, the turns `<<event, rule>>` still to go through
`processEvent` (a set, taken in the order of `Before`), and the ticks `PushBatch` has to refresh at the end. `Accept`
and `Reject` are the decoding with the answer to what is rejected; `Process`,
`Pass` and `FailDecision` are a turn, `RefreshTick` and `FailRefresh` an
iteration of `flushTickRefresh`, `Answer` and `LoseAnswer` the end;
`AckWaitExpires`, `Exhaust` and `Resend` are the server and the clients. What
engine and store do in a turn is reduced to whether it goes through. Texts are
model strings: `Folded`, `Sanitized` and `Fits` give the spellings, key tokens
and matches of the few that occur, the last standing for Go's `regexp` and
`path` packages. `DecodeInto` is what `encoding/json` does to a slot that is
not empty: keys the JSON has replace, others stay.

### ConfigLoad, NotifyOff and the code

A setting is a pair of its section and its key, a fragment the function of the
keys its file spells out; `Zero` is Go's zero value, which the code takes for
"not set" except in the merge hints of booleans. `loadFile`, `loadDirEntry`
and `Reject` read one file, `Finish` is `applyDefaults` with `validateConfig`.
`Whole` and `Overlaid` are the sections `mergeConfig` replaces or overlays.
`applyDefaults` fills what is `omitted` with its `Default`, and with NATS before
that with its `NATSDefault`.
The sub-sections of the validation have the names of its functions, or end in
`Valid` where the code has them inline. Whether a template, a pattern or a URL
parses is a set of texts that do not (`Malformed`).
The decoder is an external library, taken by what the code says of it: a hint
is present when its key is spelled out. (For the two booleans of the UI section
this looks wrong for the version in `src/go.mod`, see the findings below.)
`NotifyOff` has the clocks and windows of `notify.off` with the length of an
hour and a day as constants; `Covered` is their meaning, minute by minute.

### Reload and the code

`svc` is what `Service` keeps, `mgr` what the manager uses; `producers` and
`workers` are the open connections, numbered by the pair they were built in.
`reloadConfig` is cut wherever a handler or worker can see the difference:
`LoadSnapshot`, `buildNotifyQueueRuntime` or `FailRuntime`, `ApplyConfig` with
`ListAlerts`, `NotifyRemoved`, `DeleteRemoved` and `FailList` for
`cleanupRemovedRule`, `AbortReload`, `swapNotifyRuntime`, `ClosePrevious`,
`SetDispatcher`, `SetQueueProducer`, `setConfig`. Without a producer
`NotifyRemoved` waits for a send of its own (`SendsItself`), which ends
(`SendRemoved`) unless its channel is one of the `Endless`, with `max_attempts`
0: then the reload is `Retrying` until `ServiceBack`. In an off window a
handler's notification ends unsent, a job acknowledged, and no resolve of the
reload is waited for. A handler takes the rules
once, decides, writes the card and announces it in two steps, the look at the
producer and its use; the TTL consumer writes the resolve before it looks up
the rule. `NewService`, `buildNotifyQueue`, `Shutdown`, `CloseRuntime`, `Exit`
and `Crash` are the life of the process. The module says nothing of who wins a
race for a card (see `AlertManager`), and a job in the queue is followed only
while it must not get lost (see `NotifyQueue`): `calm` and `jobs` are about
notifications that no reload has met. The deletion of a card and
the engine entry are one step.

## 3. What is checked

| Run | Question |
|---|---|
| `EngineFleet` | Two alerts share a rule, an eviction cap and a ticker: types, timestamps (`StampsFitState`), who is evicted (`EvictionOrder`), the refinement (`LifecycleSpec`), and that evaluations come to the outcomes the manager works with (`OutcomesAsManaged`) |
| `EngineTiming` | One alert of each of six rules over seven seconds, under a fair ticker: thresholds, windows and recovery are exact (`RaisedIffReached`, `WindowConsistent`, `RecoveryWitness`), a tick leaves nothing due undone (`TickSettles`), and what is due happens (`SilentAlertResolves`, `MissingHeartbeatFires`, `RecoveredHeartbeatResolves`) |
| `ManagerMemory` | Single mode, two alerts, two lives each, five rules, with and without off windows: while goroutines take turns on an alert, its card mirrors the engine, each life is opened by one message at most, and one whose firing was told is closed by one, unless an off window keeps the resolve back (`CardFollowsAlert`) |
| `ManagerNats` | One NATS instance whose handler, ticker and TTL consumer race: no resolved card is left behind (`ResolvedCardTransient`), no active alert loses its card (`ActiveHasCard`) |
| `ManagerCluster` | Two instances and a restart: no transition is notified more often than a card write made it (`TransitionOncePerWrite`), and storing references never touches a card's state (`RefWriteKeepsTransition`) |
| `QueueDelivery` | Queued delivery by two instances' workers under faults and off windows: no job vanishes but into an off window (`NoJobVanishes`), a message goes out again only for a cause (`RepeatedOnlyForCause`), a job stays behind undelivered only after an expired delivery or a failed DLQ publish (`StrandedOnlyForCause`), a resolve is not dropped when a firing job of its life was done (`ResolveFindsReference`), and the queue comes to rest (`QueueComesToRest`) |
| `Delivery` | Four notifications of an alert over two routes: between two of them the alert knows what it has standing in its channels, whatever was retried, lost or muted, but for a resolve in an off window (`ReferencesHold`), and every send ends, unless it is hopeless and `max_attempts` is 0 (`SendEnds`) |
| `Ingest` | Two messages of seven kinds and two handlers: processed means applied and rejected means nothing counted (`AnswerTellsTheTruth`), an event is counted once for each delivery and delivered again only for a cause (`CountedOncePerDelivery`), an accepted payload leaves nothing behind for the next (`LeaksOnlyFromRejected`), and every message is processed, rejected or given up (`MessagesSettle`) |
| `ConfigLoad` | 3 500 files and directories: merging file by file is the latest word on each setting (`MergeMatchesLatestWord`); what is accepted can run (`AcceptedCanRun`), every route can be delivered on (`RoutesDeliverable`), the registry's heartbeat fits its TTL (`HeartbeatOutlivesRefresh`), off windows cover what they name (`OffWindowExact`) |
| `Reload` | Types and the pairing of producer and worker (`TypeOK`); a notification gets lost only if a reload or shutdown met it under way (`NothingLostAtRest`); a card whose rule is gone has a cause (`OrphanOnlyForCause`); when the files rest, the service runs with their content and with exactly the connections they ask for, unless a reload sends a resolve itself to a channel that is gone and has no limit of attempts (`SettlesOnFile`) |

Two runs show statements of the documentation that the code does not keep; each
ends in a counterexample.

| Run | Statement | What happens |
|---|---|---|
| `IngestScratch` | one contract of events for HTTP and JetStream (`src/README.md:204`) | a batch that was decoded and then rejected stays in the pooled scratch, and a later batch without a `dt` or a tag is decoded with the rejected one's |
| `ManagerRestart` | references in the card make the resolve restart-safe (comment at `app/manager.go:974`) | without an engine entry the reference of the card is not used, and the issue stays open |

### Findings without a run of their own

Of the engine and the manager:

* A heartbeat that is missing leaves the loop before its ID is listed: no
  repeat during the outage (`src/README.md:269`, comment at
  `engine/engine.go:156`).
* The end of a running tick may evict the entry that another goroutine has just
  reset (`app/manager.go:204`, over the cap); `applyDecision` then drops the
  resolve for want of an identity: nobody is told, and the card stays (against
  `src/README.md:281`).
* The window may empty and fill again inside the pending delay, and the alert
  is confirmed all the same (against `src/README.md:267`).
* A resolve that a tracker refuses, as it has nothing to close (the alert was
  pending, or its firing fell into an off window), leaves the card resolved in
  the store (against `src/README.md:280`).
* While the first message of an alert is in flight, a tick sends a repeat that
  opens a second issue (against `src/README.md:285`).
* The TTL consumer of one instance resolves and deletes the card, the ticker of
  another makes a new one and notifies again (against `src/README.md:281`).
* No decision into `pending` carries `ShouldNotify`, so `notify.on_pending`
  (`src/README.md:268`) has no effect.

Of the queue:

* `src/README.md:278` says that what cannot be delivered goes to the DLQ. The
  worker only puts it there when the last delivery *fails*: if it expires (a
  crash, a send slower than `ack_wait_sec`) or the DLQ publish fails, the job
  has no delivery left and stays in the stream. `StrandedOnlyForCause` says
  that nothing else strands a job.
* `WriteCard` takes a conflict for somebody else's transition. A reference
  stored between the read and the write of a resolve is a conflict too: the
  resolve is then announced by nobody, without any fault, and its card deleted
  (against `src/README.md:281`). The same steps exist in `AlertManager`.
* The worker that sends a firing job tells the engine of *its* instance the
  reference and the last-notified time. If another instance holds the alert,
  that one's ticker repeats at every scan instead of every
  `notify.repeat_every_sec` (`src/README.md:269`), and a repeat whose worker
  has no reference opens another issue (against `src/README.md:285`), again
  without any fault.

Of delivery:

* The first route that fails drops what the routes before it returned: an issue
  that was opened is not remembered, the next notification opens another
  (against `src/README.md:285`). This is an exception in `ReferencesHold`.
* A repeat's reply replaces the reference to the Mattermost post it replies to,
  and the resolve names a reply as its root (against `src/README.md:443`).

Of configuration and reload:

* `app/service.go:412` calls a reload atomic. Between `ApplyConfig` and
  `SetDispatcher` / `SetQueueProducer` the manager works with new rules, the
  old dispatcher and a producer that is being closed; after an error of
  `ApplyConfig` it goes on so until the next reload. `NothingLostAtRest` says
  that nothing else loses a notification.
* `app/manager.go:286` says that `ApplyConfig` cleans removed rules. Cards that
  a handler with the old rules writes afterwards stay, and so do all of them
  when the list fails, for the rules are replaced already.
  `OrphanOnlyForCause` says when.
* `RuleAlertPrefix` (`state/store.go:37`) lowers and trims the name of a rule,
  the key builder sanitises it: the cards of a rule with a blank in its name
  are never found.
* With `silence_sec` and `hysteresis_sec` both 0, which validation accepts, the
  tick has no TTL and never expires (against `src/README.md:177`).
* The merge hints of the two UI booleans implement an interface that go-toml v2
  does not have (`config/config.go:785`), so a directory that sets them should
  not load. No test has such a directory; the statement is about the library
  and no run depends on it.

### Bounds

`MaxTime`, `MaxTotal`, `MaxAggCnt` bound the engine's clock, counters and one
event's count: the rules of `MCAlertEngine` have thresholds of 2 or 3 and
windows and delays of 1 or 2 seconds, so a whole life (raise, delay, silence,
recovery, resolve) and the beginning of the next fit into seven seconds, with
one second of `MaxLag`. `MaxStates = 1` with two alerts makes the cap bite.
In the manager `MaxLives = 2` lets a second life begin while the first one's
handlers are still under way. `MaxSends` bounds the messages of both lives: five in
`ManagerMemory`, where each life is opened, repeated and closed; three in
`ManagerCluster`; two in `ManagerNats`, whose properties are about cards and
which also has a send that fails (`MaxFails`). `MaxRestarts` is 1 where a run restarts
an instance. The rules of `ManagerNats` and `ManagerCluster` have off windows, as
have both trackers of `ManagerMemory` that count; its two alerts are
symmetric. Runs of the manager do not check for deadlock, because a bounded
system ends.

`ManagerMemory` stops exploring when a second goroutine enters an alert another
one is working on (the constraint `TakingTurns`). This is the scope of its
property: in the memory store a card's revision starts again at 1, and every
copy of a card shares one reference map, so nothing as strong can be said about
overlapping goroutines there; the races are checked on NATS. `ManagerCluster`
lets one goroutine of the first instance be both handler and ticker, which keeps the
state space small and still has two goroutines and a TTL consumer race.

In `QueueDelivery` an alert lives once and has two notifications, raise and
repeat or raise and resolve; they and the faults together are bounded by
`Budget`, which leaves two faults for two notifications and three for one. A fault is a publish, send, store call or DLQ publish that fails
or whose answer is lost, an ack wait that runs out under a worker, or a crash;
the expiry of a crashed worker's delivery is free. One queue has `max_deliver`
2 with a DLQ and Mattermost, the other no limit, no DLQ and a tracker, so that both deliveries without end and the end of deliveries occur; both rules have
off windows. Every instance
may crash; the alert's events reach one of the two, which is the interesting
case, as the other one's worker has no engine entry.

`Delivery` has four notifications, so that an alert is raised, repeated,
resolved and raised again, or lives through two resolves, with two requests that
fail on top of services that may go for good. Two routes are enough to have one
fail after the other was served; the four pairs have every kind of sender in
both modes, with no retry, limits of 2 and 3, and none. Every rule has off windows,
and any of the notifications may fall into one.

In `Ingest` there are two messages of any of seven kinds and two handlers, one
fault, and a clock that moves once between the event times. A scratch has two
slots, and the larger batches two events, the second of which meets what a
batch before left there. Of the three rules two select the same variable, so that
a batch has up to three turns, and of the events one has no date and one no key
tag. `IngestScratch` needs one handler and no fault.

`ConfigLoad` is exhaustive over its directories: every setting some check
depends on is set alone before and after two complete base files, in pairs
after the smaller one, and, where sections are overlaid, in layers around the
larger one; every kind of rule defect once. A day has three hours of two minutes
there, so that every window between two clocks occurs; the theorems are about a
day of any length.

`Reload` lets the files change once, among two rules with the queue, the same
without it, a third rule with other UI settings, and a file that does not load,
with one fault, which may be a restart. From the second of these to the third
both rules are removed without a queue: the channel of the first has no limit of
attempts, and the second has off windows. The name of the third rule has a blank
in it. One handler is enough for its properties, which relate one notification or
card to the reload; four connections are what two generations and a fresh pair
need.

### Fairness

`FairSpec` adds weak fairness of `TickRuleWithFiring(clock)`: the ticker
goroutine of `app/service.go` runs for as long as the service does, a tick is
always enabled, and its reading lags only while it waits for the mutex. Nothing
is assumed of events or evictions. The liveness properties are of the form
"what is due stops being due": an event or an eviction may also end it.
No fairness is claimed for the manager, which may retry a send for ever.

In `NotifyQueue`, `FairSpec` is weak fairness of `Delivery`, the disjunction of
all steps of workers and consumer: while a job can be worked on, handed out or
taken back, one of these goes on. It is not fairness to any one worker or job,
so a slow worker does not have to finish; subscriptions run as long as the
service does, and the ack wait is a timer of the server. It is the scope of
`QueueComesToRest` that a send ends, by success or failure, and that faults
are finitely many (`Budget`): a channel with `max_attempts = 0` that stays down
keeps its worker, and one that fails for ever keeps an unlimited job going.

`Delivery`: weak fairness of `Step`, the steps of the notification under way.
The HTTP clients have timeouts and the back-off is a timer, so an attempt ends.
Events and ticks are not fair. `Ingest`: weak fairness of `Progress`: handlers,
`ack_wait` for a message nobody holds, the server's giving up. It prefers no
message and no handler, and an overdue handler is a fault. `Reload`: weak
fairness of `reloadConfig`, as its ticker runs with the service
(`service.reload_enabled`, which the model takes as set), and of `Lifecycle`: a
service that is down is started, one that is stopping stops. A send of the
reload itself (`app/manager.go:331`, without the queue) ends by its limit of
attempts; without one it ends with `ServiceBack`, which is not fair. So
`SettlesOnFile` is not unconditional: the reload may be stuck in that send for
ever, and the service then takes up no file. It needs nothing of handlers or
workers.

## 4. What is proved

The proofs of the engine hold for every set of alert IDs and rules and every value of the
bounds, from the assumptions of `AlertEngine`: rules are valid in the sense of
`validateRule` (`RulesAssumption`), bounds are natural numbers, and `NoState`
is not a state. The configurations make TLC evaluate these assumptions too.

* `PruneKeepsSuffix`: `pruneWindow` drops exactly the leading points before the
  cutoff and leaves the cached sum right. It rests on `SumAppend` and
  `SumSplit`, which count the units of a window by bijection.
* `EngineInvariant`: the inductive invariant `IInv`. None of the properties of
  the runs is inductive alone. `WindowConsistent`, say, bounds the age of *every*
  retained point although `pruneWindow` only looks at the first one it keeps;
  that needs the order of the points up to the lag (`WindowOK`), and that no
  timestamp is in the future (`Past`). `RecoveryWitness` needs that a tick never
  starts a recovery by itself, which follows only because an active alert with
  no recovery timer was missing at the latest tick (`Witness`, `RecoveryRuns`).
  `Good` collects these facts for one entry; `EventGood` and `TickGood` show
  that one evaluation keeps it, `GoodLater` that time passing does, and
  `NextPreserves` puts the actions together.
* From it: `TypeCorrect`, `StampsAlwaysFit`, `RaisedIsReached`,
  `WindowAlwaysConsistent` and `RecoveryIsWitnessed`, one for each state property of
  the engine's passing runs, and `DelayAlwaysHonoured`, which they check as the
  guard of the lifecycle's `Confirm`.
* `EngineImplementsLifecycle`: the refinement. One lemma per abstract step says
  what suffices for it (`RaiseMaps`, `ConfirmMaps`, `ResolveMaps`, `StayMaps`,
  `DropMaps`); `TickChange`, `CountEventChange` and `HeartbeatEventChange` say
  which of them an evaluation can be.

* `TicksSettle` and `EvictionInOrder`, the action properties. What a
  tick does to one entry (`BackTick`, `TickOfEntry`) leaves nothing due when the
  entry is `Good` before: a recovery that was overdue, say, cannot be one of a
  missing heartbeat. `EvictionInOrder` assumes no bound on the alert IDs: the
  engine holds finitely many entries at a time (`EntriesFinite`), so the cap's
  victims can be counted (`CapTakes`).
* `EvaluationsAsManaged`: the tie between the two models of the engine. An event
  moves its alert and decides on it, and a tick every alert, only in one of the
  `EventOutcomes` and `TickOutcomes` of the alert's phase, and an event leaves the
  other alerts alone. It rests on the same lemmas as the refinement, which for it
  have to tell decisions that refresh an alert from none at all: a heartbeat
  always decides on a raised alert, a tick of a counting rule on none it does not
  resolve (`EventResult`, `TickChange`).

A consequence worth knowing: the branch of the tick that starts a recovery from
`LastSeen` (`engine/engine.go:209`) is never taken, since `RecoveryRuns` shows the
timer running whenever it could be.

The proofs of the configuration hold for any files, any case folding and any set
of malformed texts. Assumed is what the decoder sees to, that numbers, flags and
rules have their types (`DirectoriesAssumption`), and that the empty template
compiles (`MalformedAssumption`).

* `LoadInvariant`: what has been read has the types of its settings
  (`DecodedTyped`, `MergeTyped`), and what is accepted came out of
  `applyDefaults` and passed `validateConfig`.
* From it: `AcceptedRuns`, `HeartbeatOutlives`, `RoutesAlwaysDeliverable` and
  `OffWindowsAlwaysExact`. The first two need both halves. That an accepted service
  takes events at all, for instance, is the work of `forMode` with NATS
  (`ModeMakes`) and of `ServiceValid` without; that a repeat takes time is a default
  of the rule that takes the default of the settings (`SettingsMade`, `RuleMade`).
  `Reload` and `Delivery` assume of their rules what is proved here of accepted
  ones: that routes have known and enabled channels.
* `OffWindowCovers`: for days of any length, any window and any minute,
  `notifyOffContainsMinute` says whether the minute is the n-th of a window that
  began on one of the listed days. The witness of the window is today's or
  yesterday's, by whether the minute comes after its beginning.
* `MergedIsLatestWord`: `MergeMatchesLatestWord` is itself the inductive invariant,
  with the shape of what was merged (`MergeInv`), so that no induction over the
  files is needed. `LatestExtends` says what the latest word on a setting is with one file
  more, by whether the file speaks of the setting's section, of the flag, of a
  value, or of the key of a map; `JoinedExtends` appends the file's templates and rules.
* `OffWindowsExact`: the same for the windows of a rule that
  `compileNotifyOffWindow` accepts, by `ClockMinute`: accepted clocks are minutes
  of the day, 24:00 only at the end.

The proofs of the reload hold for any rules, channels, files, handlers and
connections, from the assumptions of `Reload`: a connection is a positive
number, and a file that loads enables the channel of each of its rules, which
is what `validateRuleNotifyRoutes` sees to.

* `ReloadInvariant`: the inductive invariant. `NothingLostAtRest` is not
  inductive alone: it says nothing of what a handler holds or the manager has
  *before* the send. `Fit` says what holds at each place of `reloadConfig`: up to
  the swap, and after a reload that failed, the manager has the dispatcher and
  the open producer of the service's own configuration, although its rules may
  be replaced (`Unswapped`); the producer of the reload is open and another one
  (`Prepared`), so that closing either leaves the other; from the swap on the
  manager gets channels, producer and configuration one after the other
  (`Swapped`). `CalmHandlers` and `CalmQueue` say that a notification no reload
  has met exists only while nothing is replaced, and has its rule and its
  producer from the manager of that time.
* From it: `ReloadTypeCorrect` and `CalmNotificationsArrive`. The latter's core is
  `CalmParts`: when a reload has ended, the manager's channels are those of its
  configuration, which loads, so it knows the channel of each of its rules.
* `OrphansExplained`: a card without a rule that nothing excuses waits for
  somebody, at every moment and not only at rest (`OrphansAwaited`): the service is
  down and looks through its cards when it starts, the TTL consumer is about to
  look up the rule, or the running cleanup has the rule still to list or its
  cards to delete. A handler that writes such a card is excused as the one that
  took the rules before, which is why `excused` has to be read off the write.

The proofs of the queue hold for any finite set of instances, any settings of the
queue and every value of the bounds, from the assumptions of `NotifyQueue`: no
instance is called "manager", and `max_deliver` is -1 or positive, as
validation demands.

* `QueueInvariant`: the inductive invariant. `NoJobVanishes` needs to know what a
  worker may acknowledge (`Verdicts`), muted jobs among it only where the rule has
  off windows. `StrandedOnlyForCause` needs `OneHolder`:
  as long as a job's ack wait has not run out and its dead letter was not refused,
  one worker has it at most and its `attempt` is JetStream's count of deliveries,
  so a job that is handed back was not on its last delivery.
  `RepeatedOnlyForCause` says nothing of the workers that are still going to send
  or to hand back an unsent job; `ChancesExcused` counts them, and the queue if it
  may deliver the job, as chances of another message. A delivery turns the
  queue's chance into a worker's, a message uses a chance up, and what makes a
  new one (the end of an ack wait, a lost answer, a reference not stored) is a
  mishap that excuses it. `HandsCount`, `ExcusesCount` and `Balance` do the sums.
* From it: `QueueTypeCorrect`, `NothingVanishes`, `RepeatsExcused` and
  `StrandedExcused`. The type invariant includes that only the manager and a
  worker about to write references of a card that is there know a revision of it.
* `ReferencesFound`: what `ResolveFindsReference` says of dropped jobs follows from
  where the reference is at each moment. A firing job is not done before the card of
  its life has the reference, or is gone (`DoneStored`); who writes over a card
  has read it, and the manager writes one where there is none only while it raises
  the alert (`CardThere`), when no job of the new life exists yet (`OfLives`); so the
  resolve finds the reference on the card, hands it to the engine entry, and from
  there to its job (`Taken`, `Carried`). The entry cannot go in between: only the end
  of another resolve removes it, and handlers take turns in `NotifyQueue`.

The proofs of the manager hold for any alerts, instances, rules and bounds and any
finite set of goroutines, from the assumptions of `AlertManager`; a delete-marker
consumer is not a handler or ticker, and no alert is called "none". All but the types
and `CardsFollowAlerts` are stated for NATS: in
memory a card's revisions start at 1 again after its deletion
(`state/memory_store.go:113`), so a goroutine may write over a card it never
read, and TLC shows the properties failing there with two goroutines.

* `ManagerTypeCorrect`: the types, with what a goroutine holds at its place
  (`Placed`): a card where it writes one, a resolved state on the way to a
  deletion.
* `RefWritesKeepState`: revisions are given once, so the revision a goroutine
  read stands only for the card it read (`Versions`), whoever resolved, deleted or
  raised the alert in between.
* `TransitionsToldOnce`: messages sent plus goroutines that are going to announce a
  transition never exceed the card writes that made it (`Backed`). A card write
  that changes the state makes one announcer; a conflict takes none away that it
  did not make.
* `ResolvedCardsGo`: as long as nothing failed, a resolved card has a goroutine
  that is going to delete it (`Resolving`), also if another one loses the race.
* `ActiveAlertsHaveCards`, for one instance: an active alert has an active card, or
  a goroutine that raises, deletes or removes it (`Attended`). With two instances it is
  false, as the finding on late deletions tells: the entry of the other
  instance stays.
* `CardsFollowAlerts`, for one instance with either store: as long as goroutines take
  turns on an alert, which `overlaps` records, and nothing failed, an alert at rest
  agrees with its card and its reference, each of its lives was opened by one
  message at most, and one whose firing was told and that is over was closed by
  exactly one, or by none where the rule's off window kept the resolve back. The
  property says nothing of an alert somebody works on, nor of one whose goroutines
  overlapped. `At` says for
  every place between two calls what may still be missing: a decision finds the card and
  messages of the state before (`Decided`), a message goes out for a card that is
  written (`ToOpen`, `ToClose`), a reference is stored while the alert fires
  (`Fired`), a card is deleted after its life was closed (`Spent`). `Tended` claims
  this of the one goroutine that has the alert in hand or on its list, and that
  otherwise all agree (`Settled`). In memory every copy of a card shares its
  reference map (`state/memory_store.go:113`), so a write for one alert might reach the
  card of another; `Owned` says it does not: a reference is known under one alert only.

The proofs of the way in hold for any number of messages, handlers, payloads,
rules and faults; the payloads fit the slots of a scratch
(`PayloadsAssumption`), which the code sees to by growing it.

* `CountedOnce`. The property compares counts with deliveries and says nothing of
  a handler half way. `Due` adds the handlers that still have the turn before them:
  with them counts never exceed deliveries, a delivery pays for one handler. `Caused`
  bounds deliveries by faults, adding the one that a message owes which is
  waiting or in nobody's hands. There may be any number of handlers: finitely many are at
  work at a time (`BusyFinite`).
* `AnswersTrue`. A handler whose message was decoded into what was sent has every
  selecting turn ahead, waiting for its tick, or done (`Faithful`), so at its end all
  are done (`HandledDone`); a slow handler beside it changes nothing, since what is
  done stays done.
* `LeaksExplained`. Every slot of every scratch, in the pool and behind the events
  of a handler, is made of fields and tags of rejected batches (`Leftover`), every
  handled event of its own and such (`OwnOrLeft`). `DecodedMade` is the lemma about
  `encoding/json`, `ReleasedLeft` the one about `releaseDecodeScratch`.

The proofs of direct delivery hold for any number of routes of any kinds, any
retries, notifications and faults; that routes are a sequence of known channels
(`ConfigsAssumption`) is what validation sees to.

* `DeliveryInvariant`: the inductive invariant. `ReferencesHold` is about the pauses
  between notifications; the invariant says how far the loop over the routes has
  got. While the alert fires, every route that was passed has its result, and a
  route with something standing has it under the reference it went on from
  (`Firing`); while it is resolved, nothing is open on a route that was passed
  (`Resolving`). `Kept` is `ReferencesHold` with the reference a route will have when
  the notification gets through (`Ref`). An error drops the results, so `FailKeeps`
  needs that what it makes unknown is excused (`Spoilt`): of a lost answer the
  post it was about (`AnswerSpoilt`), of routes already served what they posted.
  `Replied` follows the first message of a life: a notification is the first to
  get through exactly if the entry knows nothing at all. A muted resolve forgets
  references too, so what they stand for is excused with it (`MuteResolved`).
* From it: `ReferencesAlwaysHold`.

Only model-checked: the liveness properties (`SilentAlertResolves`,
`MissingHeartbeatFires`, `RecoveredHeartbeatResolves`, `QueueComesToRest`,
`SendEnds`, `MessagesSettle`, `SettlesOnFile`), which are out of the prover's reach.
Every invariant and action property of a passing run has its theorem.

## 5. What is not modelled

* Of `notify.off`: when a window is on. `NotifyOff` and `OffWindowExact` say that
  of a clock reading, but the modules that send have no wall clock: there a rule
  either has windows or has none, and one that has may be in a window at any
  moment. That covers every timing, the window that begins or ends between two
  notifications or between publish and delivery included. In the modules that send
  muting is what the code makes it, a success with nothing sent. So a firing that
  was muted is told only by a repeat after the window, and one that never was told is
  resolved like any other: a tracker refuses it. `CardFollowsAlert` asks for a
  closing message only where the firing was told.
* Of the queue: undecodable payloads (acknowledged at once), the duplicate
  window of `Nats-Msg-Id`, the age limits of the streams, `max_ack_pending`,
  notifications with several routes, store errors of the publishing manager.
* Of ingest: wrong HTTP methods and paths, the body limit, a JSON `null` for a
  batch or event, `max_ack_pending`, setting up streams and consumers.
* Of delivery: HTTP requests and their payloads, the rendering of templates
  beyond its failing, the length of the back-off, which no property depends on,
  and several goroutines of one alert, which `AlertManager` has.
* Of the configuration: TOML itself, names of streams, buckets and consumers
  derived from the service name, and the syntax of templates, patterns and URLs.
* Of the reload: single mode, which is a reload without queue whose store dies
  with the process; HTTP servers, readiness and log sinks; an error of the HTTP
  server, which is a shutdown.
* The dashboard of the UI: it reads the registry, probes instances by HTTP and
  renders pages. Of the registry only the interval of its heartbeat.
* Logging, template functions, wrapping of permanent errors: formatting and
  plumbing with no state of the alerting.

## 6. Plan

What is left are the hazards no property covers:

1. a missing heartbeat that is never repeated (`engine/engine.go:201`);
2. inactive entries (a monitored heartbeat, a half-filled counter) that eviction
   forgets before their time (`engine/engine.go:651`);
3. an entry evicted between its reset and the resolve (`app/manager.go:204`);
4. the repeat that is due while the first message is in flight (`app/manager.go:174`);
5. a refresh between the look at the tick and the write of its resolve, which then
   meets a live alert (`app/manager.go:235`);
6. overlapping writers in the memory store (`state/memory_store.go:113`);
7. a reference stored between the read and the write of a transition, which then
   loses its write (`app/manager.go:472`);
8. references that only the worker's instance learns (`app/manager.go:953`).

The code is exposed to each of them. Most are among the findings of section 3; the
second is a question of two settings that are validated independently, and of the
fifth and sixth the documentation says nothing. A property would have to state what
the code should promise there instead. `CardFollowsAlert` is about one instance, as
each engine knows only the alerts it was told of.
