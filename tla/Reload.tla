-------------------------------- MODULE Reload --------------------------------
(***************************************************************************)
(* The service in cluster mode (internal/app/service.go): start, the       *)
(* periodic reload of the configuration, shutdown; and around it the       *)
(* manager's handlers, the TTL consumer and the workers of the             *)
(* notification queue, all of which go on while a reload replaces what     *)
(* they use.  Each rule has one alert, named like the rule, and one        *)
(* channel.                                                                *)
(***************************************************************************)
EXTENDS Naturals, FiniteSets

CONSTANTS
  Rules,
  Channel,   \* the channel each rule routes to
  OffRules,  \* the rules with notify.off windows: at any moment one may be on
  Endless,   \* the channels with retry.max_attempts 0: a send may never end
  Token,     \* sanitize(name): the rule's part of its alerts' keys
  Prefix,    \* RuleAlertPrefix(name): what cards are looked for by
  Snapshots, \* what the files may hold: [good, ui, rules, queue, channels]
  Handlers,  \* goroutines of events, ticks and expired ticks
  Connections, \* bound: connections of a producer with its worker
  MaxEdits,  \* bound: changes of the files
  MaxFaults  \* bound: store and connection errors, restarts

ASSUME ConnectionsAssumption == Connections \subseteq Nat \ {0}
\* validateRuleNotifyRoutes: a file is good only if its rules' channels are enabled.
ASSUME SnapshotsAssumption ==
  \A s \in Snapshots : /\ s \in [good : BOOLEAN, ui : {s.ui}, rules : SUBSET Rules,
                                 queue : BOOLEAN, channels : {s.channels}]
                       /\ s.good => \A r \in s.rules : Channel[r] \in s.channels
ASSUME OffAssumption == OffRules \subseteq Rules
ASSUME BoundsAssumption == {MaxEdits, MaxFaults} \subseteq Nat

None == 0

VARIABLES
  disk,     \* what the files hold
  edits,
  faults,
  svc,      \* the service: [phase, cfg, pub, worker]
  mgr,      \* the manager: [cfg, channels, producer]
  producers, workers, \* the open ones
  reload,   \* [pc, next, fresh, old, removed, alerts, current] of reloadConfig
  handler,  \* [pc, rule, ttl, producer, calm] of each handler
  engine,   \* the rules whose alert the engine holds as raised
  card,     \* the card of each rule's alert: "none", "firing" or "resolved"
  jobs,     \* the rules of the queued notifications that no reload has met so far
  lost,     \* history: whether a notification got lost that no reload had met
  excused   \* history: the rules whose card has a cause to be left over

vars == <<disk, edits, faults, svc, mgr, producers, workers, reload, handler,
          engine, card, jobs, lost, excused>>
alertVars == <<engine, card>>
historyVars == <<lost, excused>>

Idle == [pc |-> "idle"]
Fault == faults < MaxFaults /\ faults' = faults + 1

\* Whether nobody is replacing or closing anything, or has left it half replaced.
Calm == reload.pc = "idle" /\ svc.phase = "running" /\ mgr.cfg = svc.cfg

\* Everything under way at this moment has met a reload or a shutdown.
Meet(job) == IF job = Idle THEN job ELSE [job EXCEPT !.calm = FALSE]
Disquiet == /\ handler' = [h \in Handlers |-> Meet(handler[h])]
            /\ jobs' = {}

-----------------------------------------------------------------------------
(* Notifications: dispatchNotification in two steps, the look at the       *)
(* manager's producer and the use of it.                                   *)

Unconfigured(rule) == Channel[rule] \notin mgr.channels

\* Sent by the manager itself when there is no queue: a channel that the
\* dispatcher does not know is a permanent error.
SendDirectly(job) == lost' = (lost \/ (job.calm /\ Unconfigured(job.rule)))

\* A closed connection takes no job.  NotifyQueue follows the way of a job; here one is
\* followed as long as it must not get lost.
Enqueue(job) ==
  /\ jobs' = IF job.calm /\ job.producer \in producers THEN jobs \cup {job.rule} ELSE jobs
  /\ lost' = (lost \/ (job.calm /\ job.producer \notin producers))

\* A worker hands a job to the dispatcher of the moment; a permanent error takes it
\* out of the queue as well, and in an off window the job is acknowledged unsent: that is
\* muted, not lost.
ProcessQueuedNotification(rule) ==
  /\ workers # {}
  /\ jobs' = jobs \ {rule}
  /\ \/ lost' = (lost \/ Unconfigured(rule))
     \/ rule \in OffRules \cap mgr.cfg.rules /\ UNCHANGED lost
  /\ UNCHANGED <<disk, edits, faults, svc, mgr, producers, workers, reload, handler,
                 alertVars, excused>>

-----------------------------------------------------------------------------
(* Handlers: an event or a tick raises the alert of a rule, or the TTL     *)
(* consumer resolves one whose tick is gone.                               *)

Alive == svc.phase \in {"starting", "running", "stopping", "closed"}
Becomes(h, job) == handler' = [handler EXCEPT ![h] = job]
Begin(h, pc, rule) ==
  Becomes(h, [pc |-> pc, rule |-> rule, ttl |-> pc = "lookup", producer |-> None, calm |-> Calm])
\* After its notification: the TTL consumer has the card to delete.
Notified(job) == IF job.ttl THEN [job EXCEPT !.pc = "delete"] ELSE Idle

\* processEvent and Tick take the rules once and work with them.
TakeRules(h) ==
  /\ Alive /\ handler[h] = Idle
  /\ \E rule \in mgr.cfg.rules \ engine : Begin(h, "decide", rule)
  /\ UNCHANGED <<disk, edits, faults, svc, mgr, producers, workers, reload, alertVars, jobs,
                 historyVars>>

Decide(h) ==
  /\ handler[h].pc = "decide"
  /\ engine' = engine \cup {handler[h].rule}
  /\ Becomes(h, IF handler[h].rule \in engine THEN Idle ELSE [handler[h] EXCEPT !.pc = "write"])
  /\ UNCHANGED <<disk, edits, faults, svc, mgr, producers, workers, reload, card, jobs,
                 historyVars>>

WriteCard(h) ==
  LET rule == handler[h].rule
  IN /\ handler[h].pc = "write"
     /\ card' = [card EXCEPT ![rule] = "firing"]
     /\ Becomes(h, IF card[rule] = "firing" THEN Idle ELSE [handler[h] EXCEPT !.pc = "dispatch"])
     /\ excused' = excused \cup ({rule} \ mgr.cfg.rules)
     /\ UNCHANGED <<disk, edits, faults, svc, mgr, producers, workers, reload, engine, jobs,
                    lost>>

\* In an off window nothing is sent, and the handler goes on as if it were.
Dispatch(h) ==
  /\ handler[h].pc = "dispatch"
  /\ \/ /\ handler[h].rule \in OffRules
        /\ Becomes(h, Notified(handler[h])) /\ UNCHANGED lost
     \/ /\ mgr.producer = None
        /\ SendDirectly(handler[h]) /\ Becomes(h, Notified(handler[h]))
     \/ /\ mgr.producer # None
        /\ Becomes(h, [handler[h] EXCEPT !.pc = "enqueue", !.producer = mgr.producer])
        /\ UNCHANGED lost
  /\ UNCHANGED <<disk, edits, faults, svc, mgr, producers, workers, reload, alertVars, jobs,
                 excused>>

EnqueueJob(h) ==
  /\ handler[h].pc = "enqueue"
  /\ Enqueue(handler[h]) /\ Becomes(h, Notified(handler[h]))
  /\ UNCHANGED <<disk, edits, faults, svc, mgr, producers, workers, reload, alertVars, excused>>

\* ResolveByTTL stores the resolve before it looks the rule up.
ResolveExpired(h) ==
  /\ svc.phase \in {"starting", "running"} /\ handler[h] = Idle
  /\ \E rule \in Rules :
       /\ card[rule] = "firing"
       /\ card' = [card EXCEPT ![rule] = "resolved"]
       /\ Begin(h, "lookup", rule)
  /\ UNCHANGED <<disk, edits, faults, svc, mgr, producers, workers, reload, engine, jobs,
                 historyVars>>

\* When the rule is gone the consumer leaves it at the resolved card.
LookUpRule(h) ==
  LET rule == handler[h].rule
  IN /\ handler[h].pc = "lookup"
     /\ Becomes(h, IF rule \in mgr.cfg.rules THEN [handler[h] EXCEPT !.pc = "dispatch"] ELSE Idle)
     /\ excused' = excused \cup ({rule} \ mgr.cfg.rules)
     /\ UNCHANGED <<disk, edits, faults, svc, mgr, producers, workers, reload, alertVars, jobs,
                    lost>>

DeleteExpired(h) ==
  /\ handler[h].pc = "delete"
  /\ card' = [card EXCEPT ![handler[h].rule] = "none"]
  /\ engine' = engine \ {handler[h].rule}
  /\ Becomes(h, Idle)
  /\ UNCHANGED <<disk, edits, faults, svc, mgr, producers, workers, reload, jobs, historyVars>>

-----------------------------------------------------------------------------
(* reloadConfig.  It runs every interval, whether the files changed or     *)
(* not; files that do not load or ask for the other mode change nothing.   *)

At(pc) == reload' = [reload EXCEPT !.pc = pc]
Held == {handler[h].producer : h \in {g \in Handlers : handler[g] # Idle}}
Free == Connections \ (producers \cup workers \cup Held)
Unused == CHOOSE n \in Free : TRUE

\* A change of the UI section waits for the restart.
LoadSnapshot ==
  /\ Alive /\ svc.phase # "starting" /\ reload = Idle /\ disk.good
  /\ reload' = [pc |-> "build", next |-> [disk EXCEPT !.ui = svc.cfg.ui], fresh |-> None,
                old |-> <<None, None>>, removed |-> {}, alerts |-> {}, current |-> {}]
  /\ Disquiet
  /\ UNCHANGED <<disk, edits, faults, svc, mgr, producers, workers, alertVars, historyVars>>

buildNotifyQueueRuntime ==
  /\ reload.pc = "build"
  /\ IF reload.next.queue
     THEN /\ Free # {}
          /\ reload' = [reload EXCEPT !.pc = "apply", !.fresh = Unused]
          /\ producers' = producers \cup {Unused} /\ workers' = workers \cup {Unused}
     ELSE At("apply") /\ UNCHANGED <<producers, workers>>
  /\ UNCHANGED <<disk, edits, faults, svc, mgr, handler, alertVars, jobs, historyVars>>

\* No connection: the reload ends before it changed anything.
FailRuntime ==
  /\ reload.pc = "build" /\ reload.next.queue /\ Fault
  /\ reload' = Idle
  /\ UNCHANGED <<disk, edits, svc, mgr, producers, workers, handler, alertVars, jobs,
                 historyVars>>

\* Mutant: compares the rules the other way round.
RemovedBackwards(old, new) == new \ old
Removed(old, new) == old \ new

\* ApplyConfig: the rules are replaced first, and then what the removed ones left is cleaned.
ApplyConfig ==
  /\ reload.pc = "apply"
  /\ mgr' = [mgr EXCEPT !.cfg = reload.next]
  /\ reload' = [reload EXCEPT !.pc = "cleanup",
                              !.removed = Removed(mgr.cfg.rules, reload.next.rules)]
  /\ excused' = excused \ reload.next.rules
  /\ UNCHANGED <<disk, edits, faults, svc, producers, workers, handler, alertVars,
                 jobs, lost>>

\* cleanupRemovedRule lists the cards under the rule's prefix.
ListAlerts ==
  /\ reload.pc = "cleanup" /\ reload.alerts = {} /\ reload.current = {}
  /\ \E rule \in reload.removed :
       reload' = [reload EXCEPT !.removed = @ \ {rule},
                                !.alerts = {r \in Rules : Token[r] = Prefix[rule] /\ card[r] # "none"}]
  /\ UNCHANGED <<disk, edits, faults, svc, mgr, producers, workers, handler, alertVars,
                 jobs, historyVars>>

Leftover(rules) == {r \in rules : card[r] # "none"} \ mgr.cfg.rules

\* The list fails: ApplyConfig returns the error, but the rules stay replaced.
FailList ==
  /\ reload.pc = "cleanup" /\ reload.alerts = {} /\ reload.current = {}
  /\ reload.removed # {} /\ Fault
  /\ At("abort")
  /\ excused' = excused \cup Leftover(reload.removed)
  /\ UNCHANGED <<disk, edits, svc, mgr, producers, workers, handler, alertVars, jobs,
                 lost>>

\* The channels of the rules an alert can be listed for.
ChannelsFor(alert) == {Channel[r] : r \in {q \in Rules : Prefix[q] = Token[alert]}}

\* The alerts' resolves are announced (by what the manager still has: these notifications
\* have met a reload) and the cards deleted one after the other.  Without a producer the
\* manager sends by itself, and the reload waits for it; in an off window, with no card to
\* resolve or with a channel it does not know there is nothing to wait for.
SendsItself(alert) == /\ mgr.producer = None /\ card[alert] = "firing"
                      /\ ChannelsFor(alert) \cap mgr.channels # {}
NotifyRemoved ==
  /\ reload.pc = "cleanup" /\ reload.current = {}
  /\ \E alert \in reload.alerts, sending \in BOOLEAN :
       /\ sending => SendsItself(alert)
       /\ SendsItself(alert) /\ alert \notin OffRules => sending
       /\ reload' = [reload EXCEPT !.pc = IF sending THEN "sending" ELSE "cleanup",
                                   !.alerts = @ \ {alert}, !.current = {alert}]
  /\ UNCHANGED <<disk, edits, faults, svc, mgr, producers, workers, handler, alertVars,
                 jobs, historyVars>>

\* The send is repeated without limit, for as long as the channel's service is away.
Retrying == /\ reload.pc = "sending" /\ mgr.producer = None
            /\ \E alert \in reload.current : ChannelsFor(alert) \cap Endless # {}
FinishSend == /\ reload.pc = "sending" /\ At("cleanup")
              /\ UNCHANGED <<disk, edits, faults, svc, mgr, producers, workers, handler,
                             alertVars, jobs, historyVars>>
\* Where the attempts are limited a send ends, well or badly: its error is ignored.
SendRemoved == ~Retrying /\ FinishSend
\* Otherwise it ends when the service is back, which nobody promises.
ServiceBack == Retrying /\ FinishSend

\* The card's delete may fail, or the read before it: the loop goes on all the same.
DeleteRemoved ==
  /\ reload.pc = "cleanup" /\ reload.current # {}
  /\ reload' = [reload EXCEPT !.current = {}]
  /\ \/ /\ card' = [r \in Rules |-> IF r \in reload.current THEN "none" ELSE card[r]]
        /\ engine' = engine \ reload.current
        /\ UNCHANGED <<faults, excused>>
     \/ /\ Fault
        /\ excused' = excused \cup Leftover(reload.current)
        /\ engine' \in {engine, engine \ reload.current} \* the read, or the delete, failed
        /\ UNCHANGED card
  /\ UNCHANGED <<disk, edits, svc, mgr, producers, workers, handler, jobs, lost>>

\* Mutant: leaves the connections of the failed reload open.
AbortLeavingOpen == UNCHANGED <<producers, workers>>
CloseFresh == /\ producers' = producers \ {reload.fresh}
              /\ workers' = workers \ {reload.fresh}

AbortReload ==
  /\ reload.pc = "abort"
  /\ CloseFresh /\ reload' = Idle
  /\ UNCHANGED <<disk, edits, faults, svc, mgr, handler, alertVars, jobs, historyVars>>

\* Mutant: the service goes on with the worker it had.
WithRuntimeKeepingWorker(producer, worker) == [svc EXCEPT !.pub = producer]
WithRuntime(producer, worker) == [svc EXCEPT !.pub = producer, !.worker = worker]

swapNotifyRuntime ==
  /\ reload.pc = "cleanup" /\ reload.removed = {} /\ reload.alerts = {} /\ reload.current = {}
  /\ svc' = WithRuntime(reload.fresh, reload.fresh)
  /\ reload' = [reload EXCEPT !.pc = "close", !.old = <<svc.pub, svc.worker>>]
  /\ UNCHANGED <<disk, edits, faults, mgr, producers, workers, handler, alertVars, jobs,
                 historyVars>>

ClosePrevious ==
  /\ reload.pc = "close"
  /\ producers' = producers \ {reload.old[1]} /\ workers' = workers \ {reload.old[2]}
  /\ At("dispatcher")
  /\ UNCHANGED <<disk, edits, faults, svc, mgr, handler, alertVars, jobs, historyVars>>

\* Mutant: the dispatcher knows the channels it was started with.
KnownForEver(channels) == mgr.channels
Known(channels) == channels

SetDispatcher ==
  /\ reload.pc = "dispatcher"
  /\ mgr' = [mgr EXCEPT !.channels = Known(reload.next.channels)]
  /\ At("producer")
  /\ UNCHANGED <<disk, edits, faults, svc, producers, workers, handler, alertVars, jobs,
                 historyVars>>

SetQueueProducer ==
  /\ reload.pc = "producer"
  /\ mgr' = [mgr EXCEPT !.producer = reload.fresh]
  /\ At("config")
  /\ UNCHANGED <<disk, edits, faults, svc, producers, workers, handler, alertVars, jobs,
                 historyVars>>

setConfig ==
  /\ reload.pc = "config"
  /\ svc' = [svc EXCEPT !.cfg = reload.next]
  /\ reload' = Idle
  /\ UNCHANGED <<disk, edits, faults, mgr, producers, workers, handler, alertVars, jobs,
                 historyVars>>

-----------------------------------------------------------------------------
(* The process: NewService and Run, shutdown, a crash; and the files.      *)

NoRuntime(cfg) == /\ svc' = [phase |-> "down", cfg |-> cfg, pub |-> None, worker |-> None]
                  /\ mgr' = [cfg |-> cfg, channels |-> cfg.channels, producer |-> None]

\* The TTL consumer and the subscriber run before the queue is there.  Nothing is cleaned.
NewService ==
  /\ svc.phase = "down" /\ disk.good
  /\ svc' = [phase |-> "starting", cfg |-> disk, pub |-> None, worker |-> None]
  /\ mgr' = [cfg |-> disk, channels |-> disk.channels, producer |-> None]
  /\ excused' = {r \in Rules \ disk.rules : card[r] # "none"}
  /\ UNCHANGED <<disk, edits, faults, producers, workers, reload, handler, alertVars,
                 jobs, lost>>

buildNotifyQueue ==
  /\ svc.phase = "starting"
  /\ IF svc.cfg.queue
     THEN /\ Free # {}
          /\ producers' = {Unused} /\ workers' = {Unused}
          /\ svc' = [svc EXCEPT !.phase = "running", !.pub = Unused, !.worker = Unused]
          /\ mgr' = [mgr EXCEPT !.producer = Unused]
     ELSE /\ svc' = [svc EXCEPT !.phase = "running"]
          /\ UNCHANGED <<producers, workers, mgr>>
  /\ UNCHANGED <<disk, edits, faults, reload, handler, alertVars, jobs, historyVars>>

\* A signal: the subscribers are closed, then what swapNotifyRuntime(nil, nil) returns; the
\* ticker and the reload go on until Run returns.
Shutdown ==
  /\ svc.phase = "running" /\ Fault
  /\ svc' = [svc EXCEPT !.phase = "stopping"]
  /\ Disquiet
  /\ UNCHANGED <<disk, edits, mgr, producers, workers, reload, alertVars, historyVars>>

CloseRuntime ==
  /\ svc.phase = "stopping"
  /\ svc' = [svc EXCEPT !.phase = "closed", !.pub = None, !.worker = None]
  /\ producers' = producers \ {svc.pub} /\ workers' = workers \ {svc.worker}
  /\ UNCHANGED <<disk, edits, faults, mgr, reload, handler, alertVars, jobs,
                 historyVars>>

\* Cards are in NATS and stay.
Gone == /\ NoRuntime(svc.cfg)
        /\ producers' = {} /\ workers' = {} /\ engine' = {}
        /\ reload' = Idle /\ handler' = [h \in Handlers |-> Idle]
        /\ jobs' = {}
        /\ UNCHANGED <<disk, edits, card, historyVars>>

Exit == svc.phase = "closed" /\ UNCHANGED faults /\ Gone
Crash == svc.phase \in {"starting", "running"} /\ Fault /\ Gone

Edit ==
  /\ edits < MaxEdits /\ edits' = edits + 1
  /\ disk' \in Snapshots \ {disk}
  /\ UNCHANGED <<faults, svc, mgr, producers, workers, reload, handler, alertVars, jobs,
                 historyVars>>

-----------------------------------------------------------------------------

Init ==
  /\ disk \in {s \in Snapshots : s.good} /\ edits = 0 /\ faults = 0
  /\ svc = [phase |-> "down", cfg |-> disk, pub |-> None, worker |-> None]
  /\ mgr = [cfg |-> disk, channels |-> disk.channels, producer |-> None]
  /\ producers = {} /\ workers = {} /\ reload = Idle
  /\ handler = [h \in Handlers |-> Idle]
  /\ engine = {} /\ card = [r \in Rules |-> "none"] /\ jobs = {}
  /\ lost = FALSE /\ excused = {}

Handler(h) ==
  \/ TakeRules(h) \/ Decide(h) \/ WriteCard(h) \/ Dispatch(h) \/ EnqueueJob(h)
  \/ ResolveExpired(h) \/ LookUpRule(h) \/ DeleteExpired(h)
reloadConfig ==
  \/ LoadSnapshot \/ buildNotifyQueueRuntime \/ ApplyConfig \/ ListAlerts \/ NotifyRemoved
  \/ SendRemoved \/ DeleteRemoved \/ AbortReload \/ swapNotifyRuntime \/ ClosePrevious
  \/ SetDispatcher \/ SetQueueProducer \/ setConfig
Lifecycle == NewService \/ buildNotifyQueue \/ CloseRuntime \/ Exit

Next ==
  \/ \E h \in Handlers : Handler(h)
  \/ \E rule \in jobs : ProcessQueuedNotification(rule)
  \/ reloadConfig \/ ServiceBack \/ FailRuntime \/ FailList
  \/ Lifecycle \/ Shutdown \/ Crash \/ Edit

\* The reload ticker ticks, a started reload goes on but for a send that is retried without
\* limit, and a service that is down is started.
Spec == Init /\ [][Next]_vars /\ WF_vars(reloadConfig) /\ WF_vars(Lifecycle)

-----------------------------------------------------------------------------
(* Properties.                                                             *)

Runtime == Connections \cup {None}
ChannelSets == {s.channels : s \in Snapshots}
\* What loads, with the UI section of any file.
Loadable ==
  {c \in [good : BOOLEAN, ui : {s.ui : s \in Snapshots}, rules : SUBSET Rules,
          queue : BOOLEAN, channels : ChannelSets] :
     \A r \in c.rules : Channel[r] \in c.channels}
Jobs == [pc : {"decide", "write", "dispatch", "lookup", "enqueue", "delete"}, rule : Rules,
         ttl : BOOLEAN, producer : Runtime, calm : BOOLEAN]
Reloads ==
  [pc : {"build", "apply", "cleanup", "sending", "abort", "close", "dispatcher", "producer",
         "config"},
   next : Loadable, fresh : Runtime, old : Runtime \X Runtime,
   removed : SUBSET Rules, alerts : SUBSET Rules, current : SUBSET Rules]

\* The variables have their types, every configuration in use is one that loads, and the
\* service owns a producer exactly when it owns its worker.
TypeOK ==
  /\ disk \in Snapshots /\ edits \in 0 .. MaxEdits /\ faults \in 0 .. MaxFaults
  /\ svc \in [phase : {"down", "starting", "running", "stopping", "closed"},
              cfg : Loadable, pub : Runtime, worker : Runtime]
  /\ svc.pub = svc.worker
  /\ mgr \in [cfg : Loadable, channels : ChannelSets, producer : Runtime]
  /\ producers \subseteq Connections /\ workers \subseteq Connections
  /\ reload \in Reloads \cup {Idle} /\ handler \in [Handlers -> Jobs \cup {Idle}]
  /\ engine \subseteq Rules /\ card \in [Rules -> {"none", "firing", "resolved"}]
  /\ jobs \subseteq Rules /\ lost \in BOOLEAN /\ excused \subseteq Rules

\* A notification is lost to a closed producer or to a dispatcher that does not know its
\* channel only if a reload, a shutdown or a reload that failed half way met it on its way:
\* the parts a reload replaces one by one fit together again when it has ended.
NothingLostAtRest == ~lost

\* When nothing is under way, a card whose rule is not configured has a cause: a handler that
\* had taken the rules before wrote it after the cleanup, a fault of the store, a resolve by
\* TTL that met the removal, a restart with other rules, or a name whose prefix is not the one
\* of its keys.
OrphanOnlyForCause ==
  Calm /\ (\A h \in Handlers : handler[h] = Idle) =>
    \A rule \in Rules \ mgr.cfg.rules :
      card[rule] = "none" \/ rule \in excused \/ Token[rule] # Prefix[rule]

\* Once the files rest and are good, the service runs, with their content but for the UI, and
\* between two reloads it has exactly the connections its configuration asks for, unless a
\* reload stays for ever in a resolve that it sends itself to a channel whose retries have no
\* limit (cleanupRemovedRule without the queue).
Settled ==
  disk.good =>
    /\ svc.phase = "running" /\ mgr.cfg = svc.cfg /\ svc.cfg = [disk EXCEPT !.ui = svc.cfg.ui]
    /\ reload = Idle =>
         /\ producers = {svc.pub} \ {None} /\ workers = producers
         /\ svc.pub = mgr.producer /\ (svc.pub # None) = svc.cfg.queue
SettlesOnFile == <>[]Settled \/ <>[]Retrying

==============================================================================
