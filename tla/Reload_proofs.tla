---------------------------- MODULE Reload_proofs ----------------------------
(***************************************************************************)
(* Proofs about Reload: its type invariant, that only a reload or a        *)
(* shutdown on the way of a notification can lose it, and what a card      *)
(* whose rule is gone waits for.                                           *)
(***************************************************************************)
EXTENDS Reload, TLAPS

-----------------------------------------------------------------------------
(* The inductive invariant.                                                *)

\* Before the service runs nothing reloads, and the manager works as the service says.
Resting ==
  svc.phase \in {"down", "starting"} =>
    /\ reload = Idle /\ mgr.cfg = svc.cfg /\ mgr.channels = svc.cfg.channels
    /\ svc.pub = None /\ mgr.producer = None

\* Until the swap, and after a reload that failed, the manager has the dispatcher and the
\* producer that fit the service's configuration, whatever its rules are.
Unswapped ==
  reload.pc \in {"idle", "build", "apply", "cleanup", "sending", "abort"} =>
    /\ mgr.channels = svc.cfg.channels /\ mgr.producer = svc.pub
    /\ svc.pub \in producers \cup {None}

\* The producer of the reload is open, and another one than the service's.
Prepared ==
  /\ reload.pc = "build" => reload.fresh = None
  /\ reload.pc \in {"apply", "cleanup", "sending", "abort"} =>
       /\ reload.fresh \in producers \cup {None}
       /\ svc.pub = None \/ svc.pub # reload.fresh

Applied == reload.pc \in {"cleanup", "sending", "abort"} => mgr.cfg = reload.next

\* From the swap on the service has the producer of the reload, and the manager is given
\* one thing after the other.
Swapped ==
  reload.pc \in {"close", "dispatcher", "producer", "config"} =>
    /\ mgr.cfg = reload.next /\ svc.pub = reload.fresh
    /\ reload.fresh \in producers \cup {None}
    /\ reload.pc = "close" => reload.old[1] = None \/ reload.old[1] # reload.fresh
    /\ reload.pc \in {"producer", "config"} => mgr.channels = reload.next.channels
    /\ reload.pc = "config" => mgr.producer = reload.fresh

Fit == /\ Resting
       /\ svc.phase = "running" => Unswapped /\ Prepared /\ Applied /\ Swapped

\* A notification that has met no reload is one of the manager's rules, for the producer the
\* manager has.
CalmJob(job) ==
  job \in Jobs /\ job.calm =>
    /\ Calm
    /\ job.pc \in {"decide", "write", "dispatch", "enqueue"} => job.rule \in mgr.cfg.rules
    /\ job.pc = "enqueue" => job.producer = mgr.producer /\ mgr.producer # None
CalmHandlers == \A h \in Handlers : CalmJob(handler[h])
CalmQueue == (jobs # {} => Calm) /\ jobs \subseteq mgr.cfg.rules

IInv == TypeOK /\ Fit /\ CalmHandlers /\ CalmQueue /\ NothingLostAtRest

-----------------------------------------------------------------------------
(* Types.                                                                  *)

\* A new connection is one that nobody has or has had in hands.
LEMMA FreshConnection ==
  ASSUME Free # {}
  PROVE  Unused \in Connections /\ Unused \notin producers
BY DEF Free, Unused

\* What a reload loads is loadable, with the UI section the service started with.
LEMMA NextLoadable ==
  ASSUME disk \in Snapshots, disk.good, svc.cfg \in Loadable
  PROVE  [disk EXCEPT !.ui = svc.cfg.ui] \in Loadable
<1>1. disk \in [good : BOOLEAN, ui : {disk.ui}, rules : SUBSET Rules,
                queue : BOOLEAN, channels : {disk.channels}]
      /\ \A r \in disk.rules : Channel[r] \in disk.channels
  BY SnapshotsAssumption
<1>2. svc.cfg.ui \in {s.ui : s \in Snapshots} /\ disk.channels \in ChannelSets
  BY DEF Loadable, ChannelSets
<1> QED
  BY <1>1, <1>2 DEF Loadable

\* So is a good file.
LEMMA DiskLoadable ==
  ASSUME disk \in Snapshots, disk.good
  PROVE  disk \in Loadable
BY SnapshotsAssumption DEF Loadable, ChannelSets

\* The handlers' steps keep the types.
LEMMA HandlerTypes ==
  ASSUME TypeOK, NEW h \in Handlers, Handler(h)
  PROVE  TypeOK'
<1> USE DEF TypeOK, alertVars, historyVars
<1>1. CASE TakeRules(h)
  BY <1>1 DEF TakeRules, Begin, Becomes, Loadable, Jobs, Runtime, None, Calm
<1>2. CASE Decide(h)
  BY <1>2 DEF Decide, Becomes, Jobs, Idle
<1>3. CASE WriteCard(h)
  BY <1>3 DEF WriteCard, Becomes, Jobs, Idle
<1>4. CASE Dispatch(h)
  <2>1. handler[h] \in Jobs /\ Notified(handler[h]) \in Jobs \cup {Idle}
    BY <1>4 DEF Dispatch, Notified, Jobs, Idle
  <2>2. lost' \in BOOLEAN
    BY <1>4 DEF Dispatch, SendDirectly
  <2>3. [handler[h] EXCEPT !.pc = "enqueue", !.producer = mgr.producer] \in Jobs
    BY <2>1 DEF Jobs
  <2>4. handler' \in [Handlers -> Jobs \cup {Idle}]
    BY <1>4, <2>1, <2>3 DEF Dispatch, Becomes
  <2> QED
    BY <1>4, <2>2, <2>4 DEF Dispatch
<1>5. CASE EnqueueJob(h)
  BY <1>5 DEF EnqueueJob, Enqueue, Notified, Becomes, Jobs, Idle
<1>6. CASE ResolveExpired(h)
  BY <1>6 DEF ResolveExpired, Begin, Becomes, Jobs, Runtime, None, Calm
<1>7. CASE LookUpRule(h)
  BY <1>7 DEF LookUpRule, Becomes, Jobs, Idle
<1>8. CASE DeleteExpired(h)
  BY <1>8 DEF DeleteExpired, Becomes, Jobs, Idle
<1> QED
  BY <1>1, <1>2, <1>3, <1>4, <1>5, <1>6, <1>7, <1>8 DEF Handler

\* A job that has met a reload is still a job.
LEMMA DisquietTypes ==
  ASSUME handler \in [Handlers -> Jobs \cup {Idle}], Disquiet
  PROVE  handler' \in [Handlers -> Jobs \cup {Idle}] /\ jobs' = {}
<1>1. ASSUME NEW h \in Handlers PROVE Meet(handler[h]) \in Jobs \cup {Idle}
  BY DEF Meet, Jobs, Idle
<1> QED
  BY <1>1 DEF Disquiet

\* So do the worker's step and the steps of a reload.
LEMMA ReloadTypes ==
  ASSUME TypeOK, reloadConfig \/ ServiceBack \/ FailRuntime \/ FailList
  PROVE  TypeOK'
<1> USE DEF TypeOK, alertVars, historyVars
<1>0. reload.pc # "idle" => reload \in Reloads
  BY DEF Idle
<1>1. CASE LoadSnapshot
  <2>1. [disk EXCEPT !.ui = svc.cfg.ui] \in Loadable
    BY <1>1, NextLoadable DEF LoadSnapshot
  <2>2. reload' \in Reloads
    BY <1>1, <2>1 DEF LoadSnapshot, Reloads, Runtime
  <2> QED
    BY <1>1, <2>2, DisquietTypes DEF LoadSnapshot
<1>2. CASE buildNotifyQueueRuntime
  <2>1. reload' \in Reloads /\ producers' \subseteq Connections /\ workers' \subseteq Connections
    <3>1. reload \in Reloads
      BY <1>0, <1>2 DEF buildNotifyQueueRuntime
    <3>2. CASE reload.next.queue
      <4>1. Unused \in Connections /\ Unused \in Runtime
        BY <1>2, <3>2, FreshConnection DEF buildNotifyQueueRuntime, Runtime
      <4>2. reload' \in Reloads
        BY <1>2, <3>1, <3>2, <4>1, ZenonT(30) DEF buildNotifyQueueRuntime, Reloads
      <4> QED
        BY <1>2, <3>2, <4>1, <4>2 DEF buildNotifyQueueRuntime
    <3>3. CASE ~reload.next.queue
      BY <1>2, <3>1, <3>3 DEF buildNotifyQueueRuntime, At, Reloads
    <3> QED
      BY <3>2, <3>3
  <2> QED
    BY <1>2, <2>1 DEF buildNotifyQueueRuntime
<1>3. CASE ApplyConfig
  <2>1. reload \in Reloads /\ reload.next \in Loadable /\ mgr.cfg.rules \subseteq Rules
    BY <1>0, <1>3 DEF ApplyConfig, Reloads, Loadable
  <2>2. mgr' \in [cfg : Loadable, channels : ChannelSets, producer : Runtime]
    BY <1>3, <2>1 DEF ApplyConfig
  <2>3. reload' \in Reloads
    BY <1>3, <2>1 DEF ApplyConfig, Removed, Reloads
  <2> QED
    BY <1>3, <2>2, <2>3 DEF ApplyConfig
<1>4. CASE ListAlerts
  <2>1. reload' \in Reloads
    <3>1. reload \in Reloads
      BY <1>0, <1>4 DEF ListAlerts
    <3>2. PICK rule \in reload.removed :
            reload' = [reload EXCEPT !.removed = @ \ {rule},
                         !.alerts = {r \in Rules : Token[r] = Prefix[rule] /\ card[r] # "none"}]
      BY <1>4 DEF ListAlerts
    <3>3. {r \in Rules : Token[r] = Prefix[rule] /\ card[r] # "none"} \in SUBSET Rules
      OBVIOUS
    <3>4. reload.removed \ {rule} \in SUBSET Rules
      BY <3>1 DEF Reloads
    <3> QED
      BY <3>1, <3>2, <3>3, <3>4 DEF Reloads
  <2> QED
    BY <1>4, <2>1 DEF ListAlerts
<1>5. CASE NotifyRemoved
  <2>1. reload' \in Reloads
    <3>1. reload \in Reloads
      BY <1>0, <1>5 DEF NotifyRemoved
    <3>2. PICK rule \in reload.alerts, pc \in {"sending", "cleanup"} :
            reload' = [reload EXCEPT !.pc = pc, !.alerts = @ \ {rule}, !.current = {rule}]
      BY <1>5 DEF NotifyRemoved
    <3>3. reload.alerts \ {rule} \in SUBSET Rules /\ {rule} \in SUBSET Rules
      BY <3>1 DEF Reloads
    <3> QED
      BY <3>1, <3>2, <3>3 DEF Reloads
  <2> QED
    BY <1>5, <2>1 DEF NotifyRemoved
<1>6. CASE DeleteRemoved
  <2>1. reload \in Reloads /\ reload' \in Reloads
    BY <1>6 DEF DeleteRemoved, Reloads, Idle
  <2>2. card' \in [Rules -> {"none", "firing", "resolved"}]
    BY <1>6 DEF DeleteRemoved
  <2>3. excused' \subseteq Rules /\ engine' \subseteq Rules
    BY <1>6, <2>1 DEF DeleteRemoved, Leftover, Reloads
  <2>4. faults' \in 0 .. MaxFaults
    BY <1>6, BoundsAssumption DEF DeleteRemoved, Fault
  <2> QED
    BY <1>6, <2>1, <2>2, <2>3, <2>4 DEF DeleteRemoved
<1>7. CASE AbortReload
  BY <1>7 DEF AbortReload, CloseFresh
<1>8. CASE swapNotifyRuntime
  <2>1. reload \in Reloads /\ reload.fresh \in Runtime /\ reload' \in Reloads
    BY <1>0, <1>8 DEF swapNotifyRuntime, Reloads
  <2> QED
    BY <1>8, <2>1 DEF swapNotifyRuntime, WithRuntime
<1>9. CASE ClosePrevious
  BY <1>9 DEF ClosePrevious, At, Reloads, Idle
<1>10. CASE SetDispatcher
  <2>1. reload' \in Reloads /\ reload.next.channels \in ChannelSets
    BY <1>0, <1>10 DEF SetDispatcher, At, Reloads, Loadable
  <2> QED
    BY <1>10, <2>1 DEF SetDispatcher, Known
<1>11. CASE SetQueueProducer
  BY <1>11 DEF SetQueueProducer, At, Reloads, Idle
<1>12. CASE setConfig
  BY <1>12 DEF setConfig, Reloads, Idle
<1>13. CASE FailRuntime
  BY <1>13, BoundsAssumption DEF FailRuntime, Fault
<1>14. CASE FailList
  <2>1. reload \in Reloads /\ reload' \in Reloads /\ excused' \subseteq Rules
    BY <1>14 DEF FailList, At, Leftover, Reloads, Idle
  <2>2. faults' \in 0 .. MaxFaults
    BY <1>14, BoundsAssumption DEF FailList, Fault
  <2> QED
    BY <1>14, <2>1, <2>2 DEF FailList
<1>15. CASE FinishSend
  BY <1>15 DEF FinishSend, At, Reloads, Idle
<1> QED
  BY <1>1, <1>2, <1>3, <1>4, <1>5, <1>6, <1>7, <1>8, <1>9, <1>10, <1>11, <1>12, <1>13, <1>14,
     <1>15 DEF reloadConfig, SendRemoved, ServiceBack

\* And the steps of the worker, the process and the files.
LEMMA ProcessTypes ==
  ASSUME TypeOK,
         \/ \E rule \in jobs : ProcessQueuedNotification(rule)
         \/ Lifecycle \/ Shutdown \/ Crash \/ Edit
  PROVE  TypeOK'
<1> USE DEF TypeOK, alertVars, historyVars
<1>1. CASE \E rule \in jobs : ProcessQueuedNotification(rule)
  <2>1. jobs' \subseteq Rules
    BY <1>1 DEF ProcessQueuedNotification
  <2>2. lost' \in BOOLEAN
    BY <1>1, Zenon DEF ProcessQueuedNotification
  <2>3. UNCHANGED <<disk, edits, faults, svc, mgr, producers, workers, reload, handler, alertVars, excused>>
    BY <1>1, Zenon DEF ProcessQueuedNotification
  <2> QED
    BY <2>1, <2>2, <2>3
<1>2. CASE NewService
  <2>1. disk \in Loadable /\ disk.channels \in ChannelSets
    BY <1>2, DiskLoadable DEF NewService, ChannelSets
  <2> QED
    BY <1>2, <2>1 DEF NewService, Runtime
<1>3. CASE buildNotifyQueue
  <2>1. CASE svc.cfg.queue
    <3>1. Unused \in Connections /\ Unused \in Runtime
      BY <1>3, <2>1, FreshConnection DEF buildNotifyQueue, Runtime
    <3>2. /\ producers' = {Unused} /\ workers' = {Unused}
          /\ svc' = [svc EXCEPT !.phase = "running", !.pub = Unused, !.worker = Unused]
          /\ mgr' = [mgr EXCEPT !.producer = Unused]
      BY <1>3, <2>1 DEF buildNotifyQueue
    <3>3. /\ svc' \in [phase : {"down", "starting", "running", "stopping", "closed"},
                      cfg : Loadable, pub : Runtime, worker : Runtime]
          /\ svc'.pub = svc'.worker
      BY <3>1, <3>2
    <3>4. mgr' \in [cfg : Loadable, channels : ChannelSets, producer : Runtime]
      BY <3>1, <3>2
    <3> QED
      BY <1>3, <3>1, <3>2, <3>3, <3>4 DEF buildNotifyQueue
  <2>2. CASE ~svc.cfg.queue
    BY <1>3, <2>2 DEF buildNotifyQueue
  <2> QED
    BY <2>1, <2>2
<1>4. CASE CloseRuntime
  BY <1>4 DEF CloseRuntime, Runtime
<1>5. ASSUME Gone, faults' \in 0 .. MaxFaults PROVE TypeOK'
  <2>1. svc.cfg.channels \in ChannelSets
    BY DEF Loadable
  <2> QED
    BY <1>5, <2>1 DEF Gone, NoRuntime, Runtime
<1>6. CASE Exit
  BY <1>5, <1>6 DEF Exit
<1>7. CASE Crash
  BY <1>5, <1>7, BoundsAssumption DEF Crash, Fault
<1>8. CASE Shutdown
  BY <1>8, DisquietTypes, BoundsAssumption DEF Shutdown, Fault
<1>9. CASE Edit
  BY <1>9, BoundsAssumption DEF Edit
<1> QED
  BY <1>1, <1>2, <1>3, <1>4, <1>6, <1>7, <1>8, <1>9 DEF Lifecycle

\* The variables have their types after every step.
LEMMA TypeStep ==
  ASSUME TypeOK, [Next]_vars
  PROVE  TypeOK'
<1>1. CASE UNCHANGED vars
  BY <1>1 DEF vars, TypeOK
<1>2. CASE Next
  BY <1>2, HandlerTypes, ReloadTypes, ProcessTypes DEF Next
<1> QED
  BY <1>1, <1>2

-----------------------------------------------------------------------------
(* The parts a reload replaces fit.                                        *)

\* Each step of a reload leaves the parts as the next one expects them.
LEMMA ReloadFits ==
  ASSUME TypeOK, Fit, reloadConfig \/ ServiceBack \/ FailRuntime \/ FailList
  PROVE  Fit'
<1> USE DEF Fit, Resting, Unswapped, Prepared, Applied, Swapped
<1>1. reload.pc # "idle" => reload \in Reloads
  BY DEF TypeOK, Idle
<1>2. svc.pub \in Runtime /\ None \notin Connections /\ producers \subseteq Connections
  BY ConnectionsAssumption DEF TypeOK, None
<1>3. CASE LoadSnapshot
  BY <1>3 DEF LoadSnapshot, Alive, Idle
<1>4. CASE buildNotifyQueueRuntime
  <2>1. reload # Idle /\ svc.phase \notin {"down", "starting"} /\ reload \in Reloads
    BY <1>1, <1>4 DEF buildNotifyQueueRuntime, Idle
  <2>2. CASE reload.next.queue
    <3>1. /\ reload' = [reload EXCEPT !.pc = "apply", !.fresh = Unused]
          /\ producers' = producers \cup {Unused}
      BY <1>4, <2>2 DEF buildNotifyQueueRuntime
    <3>2. Unused \notin producers
      BY <1>4, <2>2, FreshConnection DEF buildNotifyQueueRuntime
    <3>3. reload'.pc = "apply" /\ reload'.fresh = Unused
      BY <2>1, <3>1 DEF Reloads
    <3> QED
      BY <1>4, <2>1, <3>1, <3>2, <3>3 DEF buildNotifyQueueRuntime
  <2>3. CASE ~reload.next.queue
    <3>1. reload'.pc = "apply" /\ reload'.fresh = reload.fresh /\ producers' = producers
      BY <1>4, <2>1, <2>3 DEF buildNotifyQueueRuntime, At, Reloads
    <3> QED
      BY <1>4, <2>1, <3>1 DEF buildNotifyQueueRuntime
  <2> QED
    BY <2>2, <2>3
<1>5. CASE ApplyConfig
  BY <1>1, <1>5 DEF ApplyConfig, Reloads, Idle, TypeOK
<1>6. CASE ListAlerts
  BY <1>1, <1>6 DEF ListAlerts, Reloads, Idle
<1>7. CASE NotifyRemoved
  BY <1>1, <1>7 DEF NotifyRemoved, Reloads, Idle
<1>8. CASE DeleteRemoved
  BY <1>1, <1>8 DEF DeleteRemoved, Reloads, Idle
<1>9. CASE AbortReload
  BY <1>9 DEF AbortReload, CloseFresh, Idle
<1>10. CASE swapNotifyRuntime
  BY <1>1, <1>10 DEF swapNotifyRuntime, WithRuntime, Reloads, Idle, TypeOK
<1>11. CASE ClosePrevious
  BY <1>1, <1>2, <1>11 DEF ClosePrevious, At, Reloads, Idle
<1>12. CASE SetDispatcher
  BY <1>1, <1>12 DEF SetDispatcher, Known, At, Reloads, Idle, TypeOK
<1>13. CASE SetQueueProducer
  BY <1>1, <1>13 DEF SetQueueProducer, At, Reloads, Idle, TypeOK
<1>14. CASE setConfig
  BY <1>1, <1>14 DEF setConfig, Reloads, Idle, TypeOK
<1>15. CASE FailRuntime
  BY <1>15 DEF FailRuntime, Idle
<1>16. CASE FailList
  BY <1>1, <1>16 DEF FailList, At, Reloads, Idle
<1>17. CASE FinishSend
  BY <1>1, <1>17 DEF FinishSend, At, Reloads, Idle
<1> QED
  BY <1>3, <1>4, <1>5, <1>6, <1>7, <1>8, <1>9, <1>10, <1>11, <1>12, <1>13, <1>14, <1>15, <1>16,
     <1>17 DEF reloadConfig, SendRemoved, ServiceBack

\* So do the start and the end of the process; the other steps touch none of the parts.
LEMMA ProcessFits ==
  ASSUME TypeOK, Fit, Lifecycle \/ Shutdown \/ Crash
  PROVE  Fit'
<1> USE DEF Fit, Resting, Unswapped, Prepared, Applied, Swapped
<1>1. CASE NewService
  BY <1>1 DEF NewService, Idle
<1>2. CASE buildNotifyQueue
  <2>1. reload' = Idle /\ Idle.pc = "idle" /\ svc'.phase = "running"
    BY <1>2 DEF buildNotifyQueue, Idle, TypeOK
  <2>2. mgr'.channels = svc'.cfg.channels /\ mgr'.producer = svc'.pub
    BY <1>2, ZenonT(30) DEF buildNotifyQueue, TypeOK
  <2>3. svc'.pub \in producers' \cup {None}
    <3>1. CASE svc.cfg.queue
      BY <1>2, <3>1 DEF buildNotifyQueue, TypeOK
    <3>2. CASE ~svc.cfg.queue
      <4>1. svc'.pub = svc.pub /\ producers' = producers
        BY <1>2, <3>2 DEF buildNotifyQueue, TypeOK
      <4>2. svc.pub \in producers \cup {None}
        BY <1>2 DEF buildNotifyQueue, TypeOK
      <4> QED
        BY <4>1, <4>2, Zenon
    <3> QED
      BY <3>1, <3>2
  <2> QED
    BY <2>1, <2>2, <2>3
<1>3. CASE CloseRuntime
  BY <1>3 DEF CloseRuntime, TypeOK
<1>4. CASE Exit \/ Crash
  BY <1>4 DEF Exit, Crash, Gone, NoRuntime
<1>5. CASE Shutdown
  BY <1>5 DEF Shutdown, TypeOK
<1> QED
  BY <1>1, <1>2, <1>3, <1>4, <1>5 DEF Lifecycle

\* A step that touches none of the parts.
LEMMA OthersFit ==
  ASSUME Fit, UNCHANGED <<svc, mgr, producers, reload>>
  PROVE  Fit'
BY DEF Fit, Resting, Unswapped, Prepared, Applied, Swapped

-----------------------------------------------------------------------------
(* The notifications that have met no reload.                              *)

\* While nothing is replaced, the manager knows the channel of each of its rules and its
\* producer is open.
LEMMA CalmParts ==
  ASSUME TypeOK, Fit, Calm
  PROVE  /\ \A rule \in mgr.cfg.rules : ~Unconfigured(rule)
         /\ mgr.producer \in producers \cup {None}
<1>1. mgr.channels = mgr.cfg.channels /\ mgr.producer \in producers \cup {None}
  BY DEF Fit, Unswapped, Calm
<1>2. \A rule \in mgr.cfg.rules : Channel[rule] \in mgr.cfg.channels
  BY DEF TypeOK, Loadable
<1> QED
  BY <1>1, <1>2 DEF Unconfigured

\* A handler's step: a job starts calm only when nothing is replaced, and takes its rule and
\* its producer from the manager of that time.
LEMMA HandlerCalm ==
  ASSUME TypeOK, CalmHandlers, NEW h \in Handlers, Handler(h)
  PROVE  CalmHandlers'
<1>1. UNCHANGED <<svc, mgr, producers, reload>>
  BY DEF Handler, TakeRules, Decide, WriteCard, Dispatch, EnqueueJob, ResolveExpired,
         LookUpRule, DeleteExpired
<1>2. Calm' = Calm
  BY <1>1 DEF Calm
<1>3. handler[h] \in Jobs \cup {Idle} /\ CalmJob(handler[h])
  BY DEF TypeOK, CalmHandlers
<1>4. PICK job : handler' = [handler EXCEPT ![h] = job]
  BY DEF Handler, TakeRules, Decide, WriteCard, Dispatch, EnqueueJob, ResolveExpired,
         LookUpRule, DeleteExpired, Begin, Becomes
<1>5. handler'[h] = job /\ \A g \in Handlers \ {h} : handler'[g] = handler[g]
  BY <1>4 DEF TypeOK
<1>6. ASSUME job \in Jobs, job.calm
      PROVE  /\ Calm
             /\ job.pc \in {"decide", "write", "dispatch", "enqueue"} => job.rule \in mgr.cfg.rules
             /\ job.pc = "enqueue" => job.producer = mgr.producer /\ mgr.producer # None
  <2>0. job # Idle
    BY <1>6 DEF Jobs, Idle
  <2>1. CASE TakeRules(h)
    BY <1>5, <1>6, <2>1 DEF TakeRules, Begin, Becomes, TypeOK
  <2>2. CASE Decide(h)
    BY <1>3, <1>5, <1>6, <2>0, <2>2 DEF Decide, Becomes, CalmJob, TypeOK, Jobs, Idle
  <2>3. CASE WriteCard(h)
    BY <1>3, <1>5, <1>6, <2>0, <2>3 DEF WriteCard, Becomes, CalmJob, TypeOK, Jobs, Idle
  <2>4. CASE Dispatch(h)
    <3>1. /\ handler[h] \in Jobs /\ handler[h].pc = "dispatch"
          /\ \/ job = Notified(handler[h])
             \/ /\ mgr.producer # None
                /\ job = [handler[h] EXCEPT !.pc = "enqueue", !.producer = mgr.producer]
      BY <1>3, <1>5, <2>4 DEF Dispatch, Becomes, TypeOK, Idle
    <3>2. CASE job = Notified(handler[h])
      BY <1>3, <1>6, <2>0, <3>1, <3>2 DEF Notified, CalmJob, Jobs
    <3>3. CASE job # Notified(handler[h])
      BY <1>3, <1>6, <3>1, <3>3 DEF CalmJob, Jobs
    <3> QED
      BY <3>2, <3>3
  <2>5. CASE EnqueueJob(h)
    BY <1>3, <1>5, <1>6, <2>0, <2>5 DEF EnqueueJob, Notified, Becomes, CalmJob, TypeOK, Jobs, Idle
  <2>6. CASE ResolveExpired(h)
    BY <1>5, <1>6, <2>6 DEF ResolveExpired, Begin, Becomes, TypeOK
  <2>7. CASE LookUpRule(h)
    BY <1>3, <1>5, <1>6, <2>0, <2>7 DEF LookUpRule, Becomes, CalmJob, TypeOK, Jobs, Idle
  <2>8. CASE DeleteExpired(h)
    BY <1>5, <2>0, <2>8 DEF DeleteExpired, Becomes, TypeOK
  <2> QED
    BY <2>1, <2>2, <2>3, <2>4, <2>5, <2>6, <2>7, <2>8 DEF Handler
<1>7. ASSUME NEW g \in Handlers PROVE CalmJob(handler[g])'
  <2>1. CASE g = h
    BY <1>1, <1>2, <1>5, <1>6, <2>1 DEF CalmJob
  <2>2. CASE g # h
    BY <1>1, <1>2, <1>5, <2>2 DEF CalmJob, CalmHandlers
  <2> QED
    BY <2>1, <2>2
<1> QED
  BY <1>7 DEF CalmHandlers

\* Nor does a handler put a job into the queue that is not one of the manager's rules, or lose
\* one, while it is calm.
LEMMA HandlerKeeps ==
  ASSUME IInv, NEW h \in Handlers, Handler(h)
  PROVE  CalmQueue' /\ NothingLostAtRest'
<1> USE DEF IInv
<1>1. UNCHANGED <<svc, mgr, producers, reload>>
  BY DEF Handler, TakeRules, Decide, WriteCard, Dispatch, EnqueueJob, ResolveExpired,
         LookUpRule, DeleteExpired
<1>2. Calm' = Calm
  BY <1>1 DEF Calm
<1>3. handler[h] \in Jobs \cup {Idle} /\ CalmJob(handler[h])
  BY DEF TypeOK, CalmHandlers
<1>4. CASE EnqueueJob(h)
  <2>1. handler[h] \in Jobs /\ handler[h].pc = "enqueue"
    BY <1>3, <1>4 DEF EnqueueJob, Idle
  <2>2. handler[h].calm => /\ Calm /\ handler[h].rule \in mgr.cfg.rules
                           /\ handler[h].producer \in producers
    BY <1>3, <2>1, CalmParts DEF CalmJob
  <2>3. ~lost'
    BY <1>4, <2>2 DEF EnqueueJob, Enqueue, NothingLostAtRest
  <2>4. jobs' = jobs \/ (Calm /\ handler[h].rule \in mgr.cfg.rules
                              /\ jobs' = jobs \cup {handler[h].rule})
    BY <1>4, <2>2 DEF EnqueueJob, Enqueue
  <2> QED
    BY <1>1, <1>2, <2>3, <2>4 DEF CalmQueue, NothingLostAtRest
<1>5. CASE Dispatch(h)
  <2>1. handler[h] \in Jobs /\ handler[h].pc = "dispatch"
    BY <1>3, <1>5 DEF Dispatch, Idle
  <2>2. handler[h].calm => ~Unconfigured(handler[h].rule)
    BY <1>3, <2>1, CalmParts DEF CalmJob
  <2>3. ~lost'
    BY <1>5, <2>2 DEF Dispatch, SendDirectly, NothingLostAtRest
  <2> QED
    BY <1>1, <1>2, <1>5, <2>3 DEF Dispatch, CalmQueue, NothingLostAtRest
<1>6. ASSUME jobs' = jobs, lost' = lost
      PROVE  CalmQueue' /\ NothingLostAtRest'
  BY <1>1, <1>2, <1>6 DEF CalmQueue, NothingLostAtRest
<1> QED
  BY <1>4, <1>5, <1>6 DEF Handler, TakeRules, Decide, WriteCard, ResolveExpired, LookUpRule,
                          DeleteExpired, historyVars

\* A reload and a shutdown make everything under way uncalm when they start.
LEMMA DisquietCalm ==
  ASSUME TypeOK, Disquiet
  PROVE  CalmHandlers' /\ CalmQueue'
<1>1. ASSUME NEW h \in Handlers PROVE ~(handler'[h] \in Jobs /\ handler'[h].calm)
  <2>1. handler[h] \in Jobs \cup {Idle} /\ handler'[h] = Meet(handler[h])
    BY DEF TypeOK, Disquiet
  <2> QED
    BY <2>1 DEF Meet, Jobs, Idle
<1>2. jobs' = {}
  BY DEF Disquiet
<1> QED
  BY <1>1, <1>2 DEF CalmHandlers, CalmJob, CalmQueue

\* As long as something is replaced nothing under way is calm.
LEMMA NoneCalm ==
  ASSUME TypeOK, CalmHandlers, CalmQueue, ~Calm, UNCHANGED <<handler, jobs>>
  PROVE  CalmHandlers' /\ CalmQueue'
<1>1. \A h \in Handlers : ~(handler[h] \in Jobs /\ handler[h].calm)
  BY DEF CalmHandlers, CalmJob
<1>2. jobs = {}
  BY DEF CalmQueue
<1> QED
  BY <1>1, <1>2 DEF CalmHandlers, CalmJob, CalmQueue

\* The steps of a reload, of the process and of the files.
LEMMA OthersCalm ==
  ASSUME IInv, reloadConfig \/ ServiceBack \/ FailRuntime \/ FailList \/ Lifecycle \/ Shutdown \/ Crash \/ Edit
  PROVE  CalmHandlers' /\ CalmQueue' /\ NothingLostAtRest'
<1> USE DEF IInv, historyVars
<1>1. CASE LoadSnapshot \/ Shutdown
  BY <1>1, DisquietCalm DEF LoadSnapshot, Shutdown, NothingLostAtRest
<1>2. CASE Exit \/ Crash
  <2>1. /\ \A h \in Handlers : handler'[h] \notin Jobs
        /\ jobs' = {} /\ lost' = lost
    BY <1>2 DEF Exit, Crash, Gone, Jobs, Idle
  <2> QED
    BY <2>1 DEF CalmHandlers, CalmJob, CalmQueue, NothingLostAtRest
<1>3. CASE Edit
  BY <1>3 DEF Edit, CalmHandlers, CalmJob, CalmQueue, Calm, NothingLostAtRest
<1>4. CASE NewService \/ buildNotifyQueue \/ CloseRuntime
  <2>1. ~Calm /\ UNCHANGED <<handler, jobs, lost>>
    BY <1>4 DEF NewService, buildNotifyQueue, CloseRuntime, Calm
  <2> QED
    BY <2>1, NoneCalm DEF NothingLostAtRest
<1>5. ASSUME ~LoadSnapshot, reloadConfig \/ ServiceBack \/ FailRuntime \/ FailList
      PROVE  CalmHandlers' /\ CalmQueue' /\ NothingLostAtRest'
  <2>1. ~Calm /\ UNCHANGED <<handler, jobs, lost>>
    BY <1>5 DEF reloadConfig, buildNotifyQueueRuntime, ApplyConfig, ListAlerts, NotifyRemoved,
       SendRemoved, ServiceBack, FinishSend, DeleteRemoved, AbortReload, swapNotifyRuntime, ClosePrevious, SetDispatcher,
       SetQueueProducer, setConfig, FailRuntime, FailList, Calm
  <2> QED
    BY <2>1, NoneCalm DEF NothingLostAtRest
<1> QED
  BY <1>1, <1>2, <1>3, <1>4, <1>5 DEF Lifecycle

\* A worker takes a job while nothing is replaced: the dispatcher knows its channel.
LEMMA WorkerKeeps ==
  ASSUME IInv, NEW rule \in jobs, ProcessQueuedNotification(rule)
  PROVE  Fit' /\ CalmHandlers' /\ CalmQueue' /\ NothingLostAtRest'
<1> USE DEF IInv
<1>1. /\ UNCHANGED <<svc, mgr, producers, reload, handler>>
      /\ jobs' = jobs \ {rule} /\ (lost' = (lost \/ Unconfigured(rule)) \/ lost' = lost)
  BY DEF ProcessQueuedNotification
<1>2. ~Unconfigured(rule)
  BY CalmParts DEF CalmQueue
<1>3. Calm' = Calm
  BY <1>1 DEF Calm
<1>4. Fit'
  BY <1>1, OthersFit
<1>5. CalmHandlers'
  BY <1>1, <1>3 DEF CalmHandlers, CalmJob
<1>6. CalmQueue'
  BY <1>1, <1>3 DEF CalmQueue
<1>7. ~lost'
  BY <1>1, <1>2 DEF NothingLostAtRest
<1> QED
  BY <1>4, <1>5, <1>6, <1>7 DEF NothingLostAtRest

-----------------------------------------------------------------------------
(* The theorems.                                                           *)

\* The invariant holds at the start.
LEMMA InitIInv ==
  ASSUME Init
  PROVE  IInv
<1>1. disk \in Loadable /\ disk.channels \in ChannelSets
  BY DiskLoadable DEF Init, ChannelSets
<1>2. TypeOK
  <2>1. edits \in 0 .. MaxEdits /\ faults \in 0 .. MaxFaults
    BY BoundsAssumption DEF Init
  <2>2. svc \in [phase : {"down", "starting", "running", "stopping", "closed"},
                cfg : Loadable, pub : Runtime, worker : Runtime] /\ svc.pub = svc.worker
    BY <1>1 DEF Init, Runtime
  <2>3. mgr \in [cfg : Loadable, channels : ChannelSets, producer : Runtime]
    BY <1>1 DEF Init, Runtime
  <2>4. handler \in [Handlers -> Jobs \cup {Idle}]
    BY DEF Init
  <2>5. card \in [Rules -> {"none", "firing", "resolved"}]
    BY DEF Init
  <2> QED
    BY <2>1, <2>2, <2>3, <2>4, <2>5 DEF Init, TypeOK
<1>3. Fit
  BY DEF Init, Fit, Resting
<1>4. CalmHandlers /\ CalmQueue /\ NothingLostAtRest
  BY DEF Init, CalmHandlers, CalmJob, CalmQueue, NothingLostAtRest, Jobs, Idle
<1> QED
  BY <1>2, <1>3, <1>4 DEF IInv

\* Every step keeps it.
LEMMA StepIInv ==
  ASSUME IInv, [Next]_vars
  PROVE  IInv'
<1>1. TypeOK'
  BY TypeStep DEF IInv
<1>2. CASE UNCHANGED vars
  BY <1>1, <1>2 DEF vars, IInv, Fit, Resting, Unswapped, Prepared, Applied, Swapped,
                    CalmHandlers, CalmJob, CalmQueue, Calm, NothingLostAtRest
<1>3. ASSUME NEW h \in Handlers, Handler(h) PROVE IInv'
  <2>1. UNCHANGED <<svc, mgr, producers, reload>>
    BY <1>3 DEF Handler, TakeRules, Decide, WriteCard, Dispatch, EnqueueJob, ResolveExpired,
                LookUpRule, DeleteExpired
  <2>2. Fit'
    BY <2>1, OthersFit DEF IInv
  <2> QED
    BY <1>1, <1>3, <2>2, HandlerCalm, HandlerKeeps DEF IInv
<1>4. ASSUME NEW rule \in jobs, ProcessQueuedNotification(rule) PROVE IInv'
  BY <1>1, <1>4, WorkerKeeps DEF IInv
<1>5. CASE reloadConfig \/ ServiceBack \/ FailRuntime \/ FailList
  BY <1>1, <1>5, ReloadFits, OthersCalm DEF IInv
<1>6. CASE Lifecycle \/ Shutdown \/ Crash
  BY <1>1, <1>6, ProcessFits, OthersCalm DEF IInv
<1>7. CASE Edit
  <2>1. Fit'
    BY <1>7, OthersFit DEF Edit, IInv
  <2> QED
    BY <1>1, <1>7, <2>1, OthersCalm DEF IInv
<1> QED
  BY <1>2, <1>3, <1>4, <1>5, <1>6, <1>7 DEF Next

\* The inductive invariant holds of every behaviour.
THEOREM ReloadInvariant == Spec => []IInv
<1>1. Init => IInv
  BY InitIInv
<1>2. IInv /\ [Next]_vars => IInv'
  BY StepIInv
<1> QED
  BY <1>1, <1>2, PTL DEF Spec

\* Whatever a reload, a shutdown or a crash leaves behind, the configurations in use are ones
\* that load, and the service owns a producer exactly when it owns its worker.
THEOREM ReloadTypeCorrect == Spec => []TypeOK
<1>1. IInv => TypeOK
  BY DEF IInv
<1> QED
  BY <1>1, ReloadInvariant, PTL

\* A notification of alerts that no reload or shutdown met between the look at the rules and
\* the dispatcher reaches a queue that is open and a dispatcher that knows its channel.
THEOREM CalmNotificationsArrive == Spec => []NothingLostAtRest
<1>1. IInv => NothingLostAtRest
  BY DEF IInv
<1> QED
  BY <1>1, ReloadInvariant, PTL

-----------------------------------------------------------------------------
(* What the cards of rules that are gone wait for.                         *)

\* The cleanup of a reload, with the resolve it may be sending.
Cleaning == reload.pc \in {"cleanup", "sending"}

\* The service is down and will see the card when it starts, the TTL consumer is about to
\* look the rule up, or the cleanup of a reload has the rule's cards to list or to delete.
Awaited(rule) ==
  \/ svc.phase = "down"
  \/ \E h \in Handlers : handler[h].pc = "lookup" /\ handler[h].rule = rule
  \/ Cleaning /\ rule \in reload.removed \cup reload.alerts \cup reload.current

Orphan(rule) ==
  /\ rule \in Rules \ mgr.cfg.rules /\ card[rule] # "none"
  /\ rule \notin excused /\ Token[rule] = Prefix[rule]

OrphansAwaited == \A rule \in Rules : Orphan(rule) => Awaited(rule)

\* A handler's step on a card of a rule that is gone either excuses the card, deletes it or
\* leaves it to a lookup.
LEMMA HandlerOrphans ==
  ASSUME TypeOK, OrphansAwaited, NEW h \in Handlers, Handler(h)
  PROVE  OrphansAwaited'
<1>1. UNCHANGED <<svc, mgr, reload>>
  BY DEF Handler, TakeRules, Decide, WriteCard, Dispatch, EnqueueJob, ResolveExpired,
         LookUpRule, DeleteExpired
<1>2. PICK job : handler' = [handler EXCEPT ![h] = job]
  BY DEF Handler, TakeRules, Decide, WriteCard, Dispatch, EnqueueJob, ResolveExpired,
         LookUpRule, DeleteExpired, Begin, Becomes
<1>3. handler'[h] = job /\ \A g \in Handlers \ {h} : handler'[g] = handler[g]
  BY <1>2 DEF TypeOK
<1>4. SUFFICES ASSUME NEW rule \in Rules, Orphan(rule)' PROVE Awaited(rule)'
  BY DEF OrphansAwaited
<1>5. ASSUME Awaited(rule), ~(handler[h].pc = "lookup" /\ handler[h].rule = rule)
      PROVE  Awaited(rule)'
  BY <1>1, <1>3, <1>5 DEF Awaited, Cleaning
<1>6. CASE ResolveExpired(h)
  <2>1. PICK r \in Rules : /\ card' = [card EXCEPT ![r] = "resolved"] /\ card[r] = "firing"
                           /\ Begin(h, "lookup", r)
    BY <1>6 DEF ResolveExpired
  <2>2. CASE r = rule
    BY <1>3, <2>1, <2>2 DEF Begin, Becomes, TypeOK, Awaited, Cleaning
  <2>3. CASE r # rule
    <3>1. Orphan(rule)
      BY <1>1, <1>4, <1>6, <2>1, <2>3 DEF Orphan, ResolveExpired, historyVars, TypeOK
    <3> QED
      BY <1>5, <1>6, <3>1 DEF ResolveExpired, Idle, OrphansAwaited
  <2> QED
    BY <2>2, <2>3
<1>7. CASE LookUpRule(h)
  <2>1. rule # handler[h].rule
    BY <1>1, <1>4, <1>7 DEF LookUpRule, Orphan
  <2>2. Orphan(rule)
    BY <1>1, <1>4, <1>7 DEF LookUpRule, Orphan, alertVars
  <2> QED
    BY <1>5, <2>1, <2>2 DEF OrphansAwaited
<1>8. CASE WriteCard(h)
  <2>1. rule # handler[h].rule
    BY <1>1, <1>4, <1>8 DEF WriteCard, Orphan
  <2>2. Orphan(rule)
    BY <1>1, <1>4, <1>8, <2>1 DEF WriteCard, Orphan, TypeOK
  <2> QED
    BY <1>5, <2>1, <2>2 DEF OrphansAwaited
<1>9. CASE DeleteExpired(h)
  <2>1. Orphan(rule)
    BY <1>1, <1>4, <1>9 DEF DeleteExpired, Orphan, TypeOK, historyVars
  <2> QED
    BY <1>5, <1>9, <2>1 DEF DeleteExpired, OrphansAwaited
<1>10. CASE TakeRules(h) \/ Decide(h) \/ Dispatch(h) \/ EnqueueJob(h)
  <2>1. Orphan(rule) /\ handler[h].pc # "lookup"
    BY <1>1, <1>4, <1>10 DEF TakeRules, Decide, Dispatch, EnqueueJob, Orphan, alertVars,
       historyVars, Idle
  <2> QED
    BY <1>5, <2>1 DEF OrphansAwaited
<1> QED
  BY <1>6, <1>7, <1>8, <1>9, <1>10 DEF Handler

\* A step that leaves the handlers, and what an orphan and its cleanup are made of, alone.
LEMMA OrphansStay ==
  ASSUME OrphansAwaited, UNCHANGED <<mgr.cfg, card, excused, svc.phase>>,
         \A h \in Handlers : /\ handler[h].pc = "lookup" =>
                                  handler'[h].pc = "lookup" /\ handler'[h].rule = handler[h].rule,
         Cleaning => /\ Cleaning'
                     /\ reload.removed \cup reload.alerts \cup reload.current
                          \subseteq reload'.removed \cup reload'.alerts \cup reload'.current
  PROVE  OrphansAwaited'
BY DEF OrphansAwaited, Orphan, Awaited, Cleaning

\* ApplyConfig hands the cards of the rules that go to the cleanup, and the cleanup lists each
\* rule's cards, and deletes each of them or fails on it.
LEMMA ReloadOrphans ==
  ASSUME TypeOK, Fit, OrphansAwaited, reloadConfig \/ ServiceBack \/ FailRuntime \/ FailList
  PROVE  OrphansAwaited'
<1> USE DEF alertVars, historyVars, Cleaning
<1>1. reload.pc # "idle" => reload \in Reloads
  BY DEF TypeOK, Idle
<1>2. CASE LoadSnapshot
  <2>1. \A h \in Handlers : handler[h].pc = "lookup" =>
           handler'[h].pc = "lookup" /\ handler'[h].rule = handler[h].rule
    BY <1>2 DEF LoadSnapshot, Disquiet, Meet, TypeOK, Jobs, Idle
  <2> QED
    BY <1>2, <2>1, OrphansStay DEF LoadSnapshot, Idle
<1>3. CASE ApplyConfig
  <2>1. /\ reload'.pc = "cleanup" /\ reload'.removed = mgr.cfg.rules \ reload.next.rules
        /\ mgr'.cfg = reload.next
    BY <1>1, <1>3 DEF ApplyConfig, Removed, Reloads, TypeOK, Idle
  <2>2. SUFFICES ASSUME NEW rule \in Rules, Orphan(rule)', rule \notin mgr.cfg.rules
                 PROVE  Awaited(rule)'
    BY <2>1 DEF OrphansAwaited, Orphan, Awaited, Cleaning
  <2>3. Awaited(rule)
    BY <1>3, <2>1, <2>2 DEF ApplyConfig, OrphansAwaited, Orphan
  <2> QED
    BY <1>3, <2>3 DEF ApplyConfig, Awaited, Cleaning
<1>4. CASE ListAlerts
  <2>1. PICK r \in reload.removed :
          reload' = [reload EXCEPT !.removed = @ \ {r},
                       !.alerts = {q \in Rules : Token[q] = Prefix[r] /\ card[q] # "none"}]
    BY <1>4 DEF ListAlerts
  <2>2. /\ reload'.pc = "cleanup" /\ reload'.removed = reload.removed \ {r}
        /\ reload'.alerts = {q \in Rules : Token[q] = Prefix[r] /\ card[q] # "none"}
    BY <1>1, <1>4, <2>1 DEF ListAlerts, Reloads, Idle
  <2> QED
    BY <1>4, <2>2 DEF ListAlerts, OrphansAwaited, Orphan, Awaited, Cleaning
<1>5. CASE NotifyRemoved
  <2>1. PICK r \in reload.alerts, pc \in {"sending", "cleanup"} :
          reload' = [reload EXCEPT !.pc = pc, !.alerts = @ \ {r}, !.current = {r}]
    BY <1>5 DEF NotifyRemoved
  <2>2. /\ reload'.pc \in {"cleanup", "sending"} /\ reload'.removed = reload.removed
        /\ reload'.alerts = reload.alerts \ {r} /\ reload'.current = {r}
    BY <1>1, <1>5, <2>1 DEF NotifyRemoved, Reloads, Idle
  <2> QED
    BY <1>5, <2>2, OrphansStay DEF NotifyRemoved
<1>6. CASE DeleteRemoved
  <2>1. /\ reload'.pc = "cleanup" /\ reload'.removed = reload.removed
        /\ reload'.alerts = reload.alerts
    BY <1>1, <1>6 DEF DeleteRemoved, Reloads, Idle
  <2>2. ASSUME NEW rule \in Rules, Orphan(rule)'
        PROVE  Orphan(rule) /\ rule \notin reload.current
    BY <1>6, <2>2 DEF DeleteRemoved, Orphan, Leftover
  <2> QED
    BY <1>6, <2>1, <2>2 DEF DeleteRemoved, OrphansAwaited, Awaited, Cleaning
<1>7. CASE FailList
  <2>1. ASSUME NEW rule \in Rules, Orphan(rule)'
        PROVE  Orphan(rule) /\ rule \notin reload.removed
    BY <1>7, <2>1 DEF FailList, Orphan, Leftover
  <2> QED
    BY <1>7, <2>1 DEF FailList, OrphansAwaited, Awaited, Cleaning
<1>8. CASE swapNotifyRuntime
  BY <1>8 DEF swapNotifyRuntime, WithRuntime, OrphansAwaited, Orphan, Awaited, Cleaning, TypeOK
<1>9. CASE SetDispatcher \/ SetQueueProducer
  <2>1. mgr'.cfg = mgr.cfg
    BY <1>9 DEF SetDispatcher, SetQueueProducer, TypeOK
  <2> QED
    BY <1>9, <2>1, OrphansStay DEF SetDispatcher, SetQueueProducer
<1>10. CASE setConfig
  <2>1. svc'.phase = svc.phase
    BY <1>10 DEF setConfig, TypeOK
  <2> QED
    BY <1>10, <2>1, OrphansStay DEF setConfig
<1>11. CASE buildNotifyQueueRuntime \/ AbortReload \/ ClosePrevious \/ FailRuntime
  BY <1>11, OrphansStay DEF buildNotifyQueueRuntime, AbortReload, ClosePrevious, FailRuntime
<1>12. CASE FinishSend
  <2>1. /\ reload'.pc = "cleanup" /\ reload'.removed = reload.removed
        /\ reload'.alerts = reload.alerts /\ reload'.current = reload.current
    BY <1>1, <1>12 DEF FinishSend, At, Reloads
  <2> QED
    BY <1>12, <2>1, OrphansStay DEF FinishSend
<1> QED
  BY <1>2, <1>3, <1>4, <1>5, <1>6, <1>7, <1>8, <1>9, <1>10, <1>11, <1>12
  DEF reloadConfig, SendRemoved, ServiceBack

\* A crash leaves the cards to the start, which excuses them.
LEMMA ProcessOrphans ==
  ASSUME TypeOK, OrphansAwaited,
         \/ \E rule \in jobs : ProcessQueuedNotification(rule)
         \/ Lifecycle \/ Shutdown \/ Crash \/ Edit
  PROVE  OrphansAwaited'
<1> USE DEF alertVars, historyVars
<1>1. CASE NewService
  BY <1>1 DEF NewService, OrphansAwaited, Orphan
<1>2. CASE buildNotifyQueue
  <2>1. mgr'.cfg = mgr.cfg /\ svc.phase # "down"
    BY <1>2 DEF buildNotifyQueue, TypeOK
  <2> QED
    BY <1>2, <2>1 DEF buildNotifyQueue, OrphansAwaited, Orphan, Awaited, Cleaning
<1>3. CASE CloseRuntime
  BY <1>3 DEF CloseRuntime, OrphansAwaited, Orphan, Awaited, Cleaning
<1>4. CASE Exit \/ Crash
  BY <1>4 DEF Exit, Crash, Gone, NoRuntime, OrphansAwaited, Awaited, Cleaning
<1>5. CASE Shutdown
  <2>1. \A h \in Handlers : handler[h].pc = "lookup" =>
           handler'[h].pc = "lookup" /\ handler'[h].rule = handler[h].rule
    BY <1>5 DEF Shutdown, Disquiet, Meet, TypeOK, Jobs, Idle
  <2> QED
    BY <1>5, <2>1 DEF Shutdown, OrphansAwaited, Orphan, Awaited, Cleaning
<1>6. CASE Edit
  BY <1>6, OrphansStay DEF Edit, Cleaning
<1>7. CASE \E rule \in jobs : ProcessQueuedNotification(rule)
  BY <1>7, OrphansStay DEF ProcessQueuedNotification, Cleaning
<1> QED
  BY <1>1, <1>2, <1>3, <1>4, <1>5, <1>6, <1>7 DEF Lifecycle

\* A card that the reloads and the restarts leave behind when nothing is under way has one of
\* the causes listed: the cleanup of ApplyConfig and the lookup of the TTL consumer see every
\* other one.
THEOREM OrphansExplained == Spec => []OrphanOnlyForCause
<1>1. Init => OrphansAwaited
  BY DEF Init, OrphansAwaited, Orphan
<1>2. ASSUME IInv, OrphansAwaited, [Next]_vars PROVE OrphansAwaited'
  <2>1. CASE UNCHANGED vars
    BY <1>2, <2>1 DEF vars, OrphansAwaited, Orphan, Awaited, Cleaning
  <2>2. CASE Next
    BY <1>2, <2>2, HandlerOrphans, ReloadOrphans, ProcessOrphans DEF Next, IInv
  <2> QED
    BY <1>2, <2>1, <2>2
<1>3. OrphansAwaited => OrphanOnlyForCause
  BY DEF OrphansAwaited, Orphan, Awaited, Cleaning, OrphanOnlyForCause, Calm, Idle
<1> QED
  BY <1>1, <1>2, <1>3, ReloadInvariant, PTL DEF Spec

==============================================================================
