------------------------------ MODULE NotifyQueue ------------------------------
(***************************************************************************)
(* Queued delivery (notify.queue.enabled): the manager puts every          *)
(* notification of an alert as a job on a JetStream work queue             *)
(* (internal/notifyqueue), and the worker of any instance sends it, stores *)
(* the reference the channel returned, and acknowledges.  A worker that    *)
(* fails or is too slow has its job delivered again, up to max_deliver     *)
(* times; what fails for good goes to the dead-letter stream.              *)
(*                                                                         *)
(* There is one alert and one route.  The handlers of the alert take turns *)
(* here, since their races are the subject of AlertManager; workers race   *)
(* with them and with each other.                                          *)
(***************************************************************************)
EXTENDS Integers, Sequences, FiniteSets

CONSTANTS
  Instances,   \* service instances, each with one queue worker
  Owners,      \* those that the events of the alert reach
  Configs,     \* [Channel, MaxDeliver, DLQ, Off] records to start from; Off is
               \* whether the rule has notify.off windows
  MaxJobs,     \* bound: notifications of the alert
  MaxLives,    \* bound: times the alert is raised
  Budget       \* bound: notifications and faults together, a fault being a failed
               \* publish, send or store call, an ack wait that runs out on a
               \* worker, or a crash

QueueConfig == [Channel : {"tracker", "mattermost", "plain"},
                MaxDeliver : Int, DLQ : BOOLEAN, Off : BOOLEAN]

ASSUME ConfigsAssumption ==
  /\ Configs \subseteq QueueConfig
  /\ \A c \in Configs : c.MaxDeliver = -1 \/ c.MaxDeliver > 0
ASSUME InstancesAssumption ==
  IsFiniteSet(Instances) /\ "manager" \notin Instances /\ Owners \subseteq Instances
ASSUME BoundsAssumption ==
  {MaxJobs, MaxLives, Budget} \subseteq Nat

VARIABLES
  config,    \* the queue settings and the channel of the route
  entry,     \* engine entry of the alert at each instance
  card,      \* its card
  current,   \* who has read the card (or its absence) since it was last written:
             \* revisions of the card store, as far as a compare-and-set can tell
  mgr,       \* the handler of the alert that is under way
  lives,     \* how often the alert has been raised
  jobs,      \* the notifications made, in order; a job is its index
  stream,    \* jobs in the work queue
  pending,   \* of those, the ones delivered and neither answered nor expired
  delivered, \* how often each job of the queue was delivered
  dlq,       \* dead-letter entries: job, reason, attempts
  work,      \* what each instance's worker is doing
  fate,      \* history: how each job ended
  sent,      \* history: messages sent for each job
  mishaps,   \* history: what went wrong with each job
  refs,      \* references given out by the channel
  faults     \* what went wrong so far

alertVars == <<entry, card, current, mgr, lives>>
queueVars == <<stream, pending, delivered, dlq>>
historyVars == <<fate, sent, mishaps>>
vars == <<config, alertVars, jobs, queueVars, work, historyVars, refs, faults>>

None == 0  \* no external reference
NoEntry == [phase |-> "none"]
NoCard == [State |-> "none"]
Jobs == 1..MaxJobs
Announced == Len(jobs) + (IF mgr.pc \in {"card", "publish"} THEN 1 ELSE 0)
Spare == Announced + faults < Budget
Mishap == {"expired", "unanswered", "unpersisted", "unburied"}

HasEntry(i) == entry[i] # NoEntry
IsActive(i) == HasEntry(i) /\ entry[i].phase = "firing"
EntryRef(i) == IF HasEntry(i) THEN entry[i].ref ELSE None
SetRef(e, ref) == IF e = NoEntry \/ ref = None THEN e ELSE [e EXCEPT !.ref = ref]
CardRef == IF card = NoCard THEN None ELSE card.ref
HasReferences == config.Channel \in {"tracker", "mattermost"}

Resting == [pc |-> "rest", at |-> "none", state |-> "none", ttl |-> FALSE, owed |-> FALSE]
Idle == [pc |-> "idle", job |-> 0, attempt |-> 0, ref |-> None, tries |-> 0,
         outcome |-> "none"]

Init ==
  /\ config \in Configs
  /\ entry = [i \in Instances |-> NoEntry]
  /\ card = NoCard /\ current = {} /\ mgr = Resting /\ lives = 0
  /\ jobs = <<>> /\ stream = {} /\ pending = {} /\ dlq = {}
  /\ delivered = [j \in Jobs |-> 0]
  /\ work = [i \in Instances |-> Idle]
  /\ fate = [j \in Jobs |-> {}]
  /\ sent = [j \in Jobs |-> 0]
  /\ mishaps = [j \in Jobs |-> [m \in Mishap |-> 0]]
  /\ refs = 0 /\ faults = 0

-----------------------------------------------------------------------------
(***************************************************************************)
(* The manager: an engine decision with the read of the card, the write of *)
(* the card, the notification, and the end of a resolve.                   *)
(***************************************************************************)

\* A write of the card by the manager or by a worker.
PutCard(state, ref) ==
  card' = [State |-> state, ref |-> ref] /\ current' = {}

Turn(pc, i, state) == [Resting EXCEPT !.pc = pc, !.at = i, !.state = state]
Handle(m) ==
  /\ mgr.pc = "rest" /\ Len(jobs) < MaxJobs /\ Spare
  /\ mgr' = m
  /\ current' = IF m.pc = "card" THEN current \cup {"manager"} ELSE current
  /\ UNCHANGED <<config, card, jobs, queueVars, work, historyVars, refs,
                 faults>>

\* The engine of instance i raises the alert.
Raise(i) ==
  /\ lives < MaxLives
  /\ \A k \in Instances : ~IsActive(k)
  /\ lives' = lives + 1
  /\ entry' = [entry EXCEPT ![i] = [phase |-> "firing", ref |-> EntryRef(i)]]
  /\ Handle(Turn("card", i, "firing"))

\* The ticker repeats a firing alert.
Repeat(i) ==
  /\ IsActive(i)
  /\ Handle(Turn("publish", i, "firing"))
  /\ UNCHANGED <<entry, lives>>

\* The channel's reference is owed to the resolve: a firing job of this life
\* was sent, stored and acknowledged.
ReferenceOwed ==
  /\ HasReferences
  /\ \E j \in 1..Len(jobs) :
       jobs[j].life = lives /\ jobs[j].state = "firing" /\ fate[j] = {"done"}

\* The instance that holds the alert resolves it.
Resolve(i) ==
  /\ IsActive(i)
  /\ entry' = [entry EXCEPT ![i].phase = "inactive"]
  /\ Handle([Turn("card", i, "resolved") EXCEPT !.owed = ReferenceOwed])
  /\ UNCHANGED lives

\* After a crash nobody holds the alert; its tick expires and any instance
\* resolves it by TTL, with the references its engine happens to know.
ResolveByTTL(i) ==
  /\ \A k \in Instances : ~IsActive(k)
  /\ card.State = "firing"
  /\ Handle([Turn("card", i, "resolved") EXCEPT !.ttl = TRUE])
  /\ UNCHANGED <<entry, lives>>

\* A turn with nothing (more) to publish ends, a resolve with the deletion.
AtEnd ==
  IF mgr.state = "resolved" THEN Turn("delete", mgr.at, "resolved") ELSE Resting

\* seedExternalRefs: the engine entry of an instance learns the card's reference.
Seeded(i) == entry' = [entry EXCEPT ![i] = SetRef(@, CardRef)]

\* persistDecisionCard: only a write that changes the state is announced.  A
\* worker's write since the read is a conflict, and taken for a transition that
\* somebody else announces; by TTL, that ends the turn.
WriteCard ==
  /\ mgr.pc = "card"
  /\ IF "manager" \in current
     THEN /\ PutCard(mgr.state, CardRef)
          /\ mgr' = IF card.State # mgr.state THEN [mgr EXCEPT !.pc = "publish"]
                    ELSE AtEnd
          /\ Seeded(mgr.at)
     ELSE /\ UNCHANGED <<card, current>>
          /\ IF mgr.ttl THEN mgr' = Resting /\ UNCHANGED entry
             ELSE mgr' = AtEnd /\ Seeded(mgr.at)
  /\ UNCHANGED <<config, lives, jobs, queueVars, work, historyVars, refs, faults>>

\* A resolve that is through deletes the card and then the engine entry; one
\* by TTL does so also if it could not publish.
AfterPublish(ok) ==
  mgr' = IF ok \/ mgr.ttl THEN AtEnd ELSE Resting

\* prepareNotificationForRoute refuses to resolve a post it has no reference of.
NoPost(state, ref) ==
  config.Channel = "mattermost" /\ state = "resolved" /\ ref = None

\* shouldSkipNotificationByOff: a window of the rule may be on at any moment.
OffWindow == config.Off

\* dispatchNotification: enqueueNotificationJobs and NATSProducer.Enqueue.  In an
\* off window no job is made and the turn goes on as after a success.  A publish
\* may fail, or its answer may get lost.
Enqueue ==
  LET ref == EntryRef(mgr.at)
      j == Len(jobs) + 1
      Made(end) == fate' = [fate EXCEPT ![j] = end]
  IN
  /\ mgr.pc = "publish"
  /\ jobs' = Append(jobs, [state |-> mgr.state, ref |-> ref, life |-> lives,
                           owed |-> mgr.owed])
  /\ \/ /\ OffWindow
        /\ Made({"muted"}) /\ AfterPublish(TRUE) /\ UNCHANGED <<stream, faults>>
     \/ /\ NoPost(mgr.state, ref)
        /\ Made({"dropped"}) /\ AfterPublish(TRUE) /\ UNCHANGED <<stream, faults>>
     \/ /\ ~NoPost(mgr.state, ref)
        /\ stream' = stream \cup {j}
        /\ Made({}) /\ AfterPublish(TRUE) /\ UNCHANGED faults
     \/ /\ ~NoPost(mgr.state, ref) /\ Spare
        /\ faults' = faults + 1
        /\ \/ stream' = stream \cup {j} /\ Made({})
           \/ UNCHANGED stream /\ Made({"lost"})
        /\ AfterPublish(FALSE)
  /\ UNCHANGED <<config, entry, card, current, lives, pending, delivered, dlq, work,
                 sent, mishaps, refs>>

DeleteCard ==
  /\ mgr.pc = "delete"
  /\ card' = NoCard /\ current' = {}
  /\ mgr' = [mgr EXCEPT !.pc = "remove"]
  /\ UNCHANGED <<config, entry, lives, jobs, queueVars, work, historyVars,
                 refs, faults>>

RemoveAlertState ==
  /\ mgr.pc = "remove"
  /\ entry' = [entry EXCEPT ![mgr.at] = NoEntry]
  /\ mgr' = Resting
  /\ UNCHANGED <<config, card, current, lives, jobs, queueVars, work, historyVars,
                 refs, faults>>

-----------------------------------------------------------------------------
(***************************************************************************)
(* The worker: NewNATSWorker's callback around ProcessQueuedNotification.  *)
(***************************************************************************)

Job(i) == jobs[work[i].job]
At(i, pc) == work[i].pc = pc
Goes(i, w) == work' = [work EXCEPT ![i] = w]
Ends(i, j, outcome) ==
  Goes(i, [Idle EXCEPT !.pc = "ack", !.job = j, !.outcome = outcome])
Fault(i, m) ==
  mishaps' = [mishaps EXCEPT ![work[i].job][m] = @ + 1]

\* Mutant: one delivery more than max_deliver allows.
MayDeliverOnceMore(j) == config.MaxDeliver = -1 \/ delivered[j] <= config.MaxDeliver

\* The consumer's MaxDeliver.
MayDeliver(j) == config.MaxDeliver = -1 \/ delivered[j] < config.MaxDeliver

\* Mutant: trackers get every resolve.
CloseAnything(state, ref) == FALSE

\* shouldDropTrackerNotification: an issue that is not known is not closed.
NoIssue(state, ref) ==
  config.Channel = "tracker" /\ state = "resolved" /\ ref = None

\* JetStream hands a job to some worker, which prepares its notification: the
\* job's reference is completed from the engine of the worker's instance.  A job
\* begun in an off window is acknowledged without being sent.
\* Workers hold several jobs ready, so the queue's order says nothing about
\* which is begun first.  Deliveries are counted if they are limited.
Deliver(i, j) ==
  LET ref == IF jobs[j].ref = None THEN EntryRef(i) ELSE jobs[j].ref
      attempt == IF config.MaxDeliver = -1 THEN 1 ELSE delivered[j] + 1
  IN
  /\ At(i, "idle")
  /\ j \in stream \ pending /\ MayDeliver(j)
  /\ pending' = pending \cup {j}
  /\ delivered' = [delivered EXCEPT ![j] = attempt]
  /\ \/ OffWindow /\ Ends(i, j, "muted")
     \/ IF NoPost(jobs[j].state, ref) \/ NoIssue(jobs[j].state, ref)
        THEN Ends(i, j, "dropped")
        ELSE Goes(i, [Idle EXCEPT !.pc = "send", !.job = j, !.attempt = attempt, !.ref = ref])
  /\ UNCHANGED <<config, alertVars, jobs, stream, dlq, historyVars, refs, faults>>

\* A tracker says nothing about a firing alert that has an issue, and refuses
\* to close what has none.
Silent(i) ==
  config.Channel = "tracker" /\ Job(i).state = "firing" /\ work[i].ref # None
Refused(i) ==
  config.Channel = "tracker" /\ Job(i).state = "resolved" /\ work[i].ref = None

\* The channel opens an issue or a post.
Opens(i) ==
  /\ HasReferences /\ Job(i).state = "firing"
  /\ config.Channel = "mattermost" \/ work[i].ref = None
Post(i) ==
  /\ sent' = [sent EXCEPT ![work[i].job] = @ + 1]
  /\ refs' = IF Opens(i) THEN refs + 1 ELSE refs

\* The reference a send returns.
ResultRef(i) ==
  IF Opens(i) THEN refs + 1
  ELSE IF config.Channel = "tracker" THEN work[i].ref ELSE None

\* Mutant: the card is left to the instance that has the engine entry.
UpdatesOwn(i, ref) == Job(i).state = "firing" /\ ref # None /\ HasEntry(i)

\* applyDeliveryResults persists what a firing job returned.
HasUpdates(i, ref) == Job(i).state = "firing" /\ ref # None

\* Dispatcher.Send, and captureDeliveryEffects: the engine entry of the worker's
\* instance, if there is one, learns the reference.
Send(i) ==
  LET ref == ResultRef(i)
  IN
  /\ At(i, "send") /\ ~Refused(i)
  /\ IF Silent(i) THEN UNCHANGED <<sent, refs>> ELSE Post(i)
  /\ entry' = [entry EXCEPT ![i] = SetRef(@, ref)]
  /\ IF HasUpdates(i, ref) THEN Goes(i, [work[i] EXCEPT !.pc = "refs", !.ref = ref])
     ELSE Ends(i, work[i].job, "done")
  /\ UNCHANGED <<config, card, current, mgr, lives, jobs, queueVars, fate, mishaps,
                 faults>>

\* Mutant: the last delivery does not count as such.
ExceededLate(attempt) == config.MaxDeliver > 0 /\ attempt > config.MaxDeliver

isMaxDeliverExceeded(attempt) ==
  config.MaxDeliver > 0 /\ attempt >= config.MaxDeliver

\* NakWithDelay or Nak: the job may be delivered again, now or later.
Nak(i) ==
  /\ pending' = pending \ {work[i].job}
  /\ Goes(i, Idle)

\* The handler returns an error: for good, on the last delivery, or neither.
Fails(i, permanent) ==
  IF permanent \/ isMaxDeliverExceeded(work[i].attempt)
  THEN /\ Goes(i, [work[i] EXCEPT !.pc = "failed", !.ref = None, !.tries = 0,
                     !.outcome = IF permanent THEN "permanent_error"
                                 ELSE "max_deliver_exceeded"])
       /\ UNCHANGED pending
  ELSE Nak(i)

\* The channel or template is not configured (permanent), the channel does not
\* take the message, or it does and the answer gets lost.
SendFails(i) ==
  /\ At(i, "send")
  /\ Refused(i) \/ Spare
  /\ faults' = IF Refused(i) THEN faults ELSE faults + 1
  /\ \/ /\ \E permanent \in BOOLEAN :
             /\ permanent \/ ~Silent(i)
             /\ Refused(i) => ~permanent
             /\ Fails(i, permanent)
        /\ UNCHANGED <<sent, refs, mishaps>>
     \/ /\ ~Silent(i) /\ ~Refused(i)
        /\ Post(i) /\ Fails(i, FALSE) /\ Fault(i, "unanswered")
  /\ UNCHANGED <<config, alertVars, jobs, stream, delivered, dlq, fate>>

\* GetCard or UpdateCard fails otherwise than by not finding the card or by a
\* conflict.
StoreFails(i) ==
  /\ At(i, "refs") \/ At(i, "refsWrite")
  /\ Spare /\ faults' = faults + 1
  /\ Fails(i, FALSE) /\ Fault(i, "unpersisted")
  /\ current' = current \ {i}
  /\ UNCHANGED <<config, entry, card, mgr, lives, jobs, stream, delivered, dlq, fate,
                 sent, refs>>

\* Mutant: a card that is gone is an error, and the job is NAKed.
AbsentFails(i) == Nak(i)

\* persistExternalRefs has nothing to do without a card.
Absent(i) == Ends(i, work[i].job, "done") /\ UNCHANGED pending

ReadRefs(i) ==
  /\ At(i, "refs")
  /\ IF card = NoCard THEN Absent(i) /\ UNCHANGED current
     ELSE IF card.ref = work[i].ref THEN Ends(i, work[i].job, "done") /\ UNCHANGED <<current, pending>>
     ELSE /\ Goes(i, [work[i] EXCEPT !.pc = "refsWrite"])
          /\ current' = current \cup {i}
          /\ UNCHANGED pending
  /\ UNCHANGED <<config, entry, card, mgr, lives, jobs, stream, delivered, dlq,
                 historyVars, refs, faults>>

\* The compare-and-set; the third conflict is an error.
WriteRefs(i) ==
  LET w == work[i]
  IN
  /\ At(i, "refsWrite")
  /\ IF i \in current
     THEN PutCard(card.State, w.ref) /\ Ends(i, w.job, "done") /\ UNCHANGED <<pending, mishaps>>
     ELSE /\ UNCHANGED <<card, current>>
          /\ IF w.tries = 2 THEN Fails(i, FALSE) /\ Fault(i, "unpersisted")
             ELSE /\ Goes(i, [w EXCEPT !.pc = "refs", !.tries = @ + 1])
                  /\ UNCHANGED <<pending, mishaps>>
  /\ UNCHANGED <<config, entry, mgr, lives, jobs, stream, delivered, dlq, fate, sent,
                 refs, faults>>

-----------------------------------------------------------------------------
(* What becomes of a job that is not to be tried again.                    *)

\* Mutant: a job that the dead-letter stream refused is acknowledged.
GiveUp(i) ==
  /\ UNCHANGED pending
  /\ Ends(i, work[i].job, "dead")

\* publishDLQ failed: the job is NAKed.
Unburied(i) == Nak(i)

\* The handler gives the job up: publishDLQ, or nothing without a DLQ.
Bury(i) ==
  LET w == work[i]
  IN
  /\ At(i, "failed")
  /\ \/ /\ config.DLQ
        /\ dlq' = dlq \cup {[job |-> w.job, reason |-> w.outcome, attempts |-> w.attempt]}
        /\ Ends(i, w.job, "dead")
        /\ UNCHANGED <<pending, mishaps, faults>>
     \/ /\ config.DLQ /\ Spare
        /\ faults' = faults + 1 /\ Fault(i, "unburied") /\ Unburied(i)
        /\ UNCHANGED dlq
     \/ /\ ~config.DLQ
        /\ Ends(i, w.job, "discarded")
        /\ UNCHANGED <<pending, dlq, mishaps, faults>>
  /\ UNCHANGED <<config, alertVars, jobs, stream, delivered, fate, sent, refs>>

\* An acknowledged job leaves the queue and its consumer, also if it was delivered
\* again since.
Ack(i) ==
  /\ At(i, "ack")
  /\ stream' = stream \ {work[i].job}
  /\ pending' = pending \ {work[i].job}
  /\ fate' = [fate EXCEPT ![work[i].job] = @ \cup {work[i].outcome}]
  /\ delivered' = [delivered EXCEPT ![work[i].job] = 0]
  /\ Goes(i, Idle)
  /\ UNCHANGED <<config, alertVars, jobs, dlq, sent, mishaps, refs, faults>>

\* ack_wait runs out: under a worker that is still at the job, or for a job
\* whose worker crashed.
Expire(j) ==
  LET held == \E i \in Instances : work[i].job = j
  IN
  /\ j \in pending
  /\ held => Spare
  /\ faults' = IF held THEN faults + 1 ELSE faults
  /\ pending' = pending \ {j}
  /\ mishaps' = [mishaps EXCEPT ![j]["expired"] = @ + 1]
  /\ UNCHANGED <<config, alertVars, jobs, stream, delivered, dlq, work, fate, sent,
                 refs>>

\* An instance stops and comes back: its engine, handler and worker start anew.
Crash(i) ==
  /\ Spare
  /\ HasEntry(i) \/ work[i] # Idle \/ mgr.at = i
  /\ faults' = faults + 1
  /\ entry' = [entry EXCEPT ![i] = NoEntry]
  /\ mgr' = IF mgr.at = i THEN Resting ELSE mgr
  /\ Goes(i, Idle)
  /\ current' = current \ (IF mgr.at = i THEN {i, "manager"} ELSE {i})
  /\ UNCHANGED <<config, card, lives, jobs, queueVars, historyVars, refs>>

WorkerStep(i) ==
  \/ Send(i) \/ SendFails(i) \/ ReadRefs(i) \/ WriteRefs(i) \/ StoreFails(i)
  \/ Bury(i) \/ Ack(i)

Next ==
  \/ WriteCard \/ Enqueue \/ DeleteCard \/ RemoveAlertState
  \/ \E i \in Instances :
       \/ i \in Owners /\ (Raise(i) \/ Repeat(i) \/ Resolve(i))
       \/ ResolveByTTL(i) \/ WorkerStep(i) \/ Crash(i)
       \/ \E j \in Jobs : Deliver(i, j)
  \/ \E j \in Jobs : Expire(j)

Spec == Init /\ [][Next]_vars

\* Delivery as a whole goes on: while a worker has a job, or JetStream has one
\* to hand out or to take back, one of them does so some time.
Delivery ==
  \/ \E i \in Instances : WorkerStep(i) \/ \E j \in Jobs : Deliver(i, j)
  \/ \E j \in Jobs : Expire(j)

FairSpec == Spec /\ WF_vars(Delivery)

-----------------------------------------------------------------------------
(* Properties.                                                             *)

Entries == [phase : {"firing", "inactive"}, ref : 0..refs] \cup {NoEntry}
Cards == [State : {"firing", "resolved"}, ref : 0..refs] \cup {NoCard}
Turns == [pc : {"card", "publish", "delete", "remove"}, at : Instances,
          state : {"firing", "resolved"}, ttl : BOOLEAN, owed : BOOLEAN] \cup {Resting}
Notifications == [state : {"firing", "resolved"}, ref : 0..refs, life : 0..MaxLives, owed : BOOLEAN]
Outcomes == {"none", "done", "dropped", "muted", "lost", "dead", "discarded",
             "permanent_error", "max_deliver_exceeded"}
Works == [pc : {"send", "refs", "refsWrite", "failed", "ack"}, job : 1..Len(jobs), attempt : Nat,
          ref : 0..refs, tries : 0..2, outcome : Outcomes] \cup {Idle}
DeadLetters == [job : 1..Len(jobs), reason : Outcomes, attempts : Nat]

\* The shape of the queue and of what its workers hold (NATSWorker).  Only a worker about to
\* write references knows a revision of the card, which is there then, and the consumer
\* delivers no job more often than it may.
TypeOK ==
  /\ config \in Configs /\ refs \in Nat /\ faults \in Nat
  /\ entry \in [Instances -> Entries] /\ card \in Cards
  /\ current \subseteq {i \in Instances : At(i, "refsWrite") /\ card # NoCard} \cup {"manager"}
  /\ mgr \in Turns /\ lives \in 0..MaxLives
  /\ jobs \in Seq(Notifications) /\ Len(jobs) <= MaxJobs
  /\ mgr.pc \in {"card", "publish"} => Len(jobs) < MaxJobs
  /\ stream \subseteq 1..Len(jobs) /\ pending \subseteq stream
  /\ delivered \in [Jobs -> Nat] /\ dlq \subseteq DeadLetters
  /\ config.MaxDeliver > 0 => \A j \in Jobs : delivered[j] <= config.MaxDeliver
  /\ work \in [Instances -> Works]
  /\ fate \in [Jobs -> SUBSET Outcomes] /\ sent \in [Jobs -> Nat]
  /\ mishaps \in [Jobs -> [Mishap -> Nat]]

\* No notification vanishes: one that is no longer in the queue was handled to
\* the end, dropped for want of a reference, muted by an off window of its rule
\* or - with a DLQ - is in the dead-letter stream, whatever expired, failed or
\* crashed meanwhile.  A lost one never got there, and its publisher has the
\* error of Enqueue.
NoJobVanishes ==
  \A j \in 1..Len(jobs) : j \notin stream =>
    \/ fate[j] \cap {"done", "dropped", "lost"} # {}
    \/ config.Off /\ "muted" \in fate[j]
    \/ \E d \in dlq : d.job = j
    \/ ~config.DLQ /\ "discarded" \in fate[j]

\* A message is sent once more only for a cause: the ack wait ran out, the
\* channel's answer was lost, or the reference could not be stored.
RepeatedOnlyForCause ==
  \A j \in Jobs :
    sent[j] <= 1 + mishaps[j]["expired"] + mishaps[j]["unanswered"]
                 + mishaps[j]["unpersisted"]

\* A job that has used up its deliveries and is in nobody's hands.
Stranded(j) == j \in stream \ pending /\ ~MayDeliver(j)

\* A job stays behind in the queue only if a worker was too slow or crashed,
\* or the dead-letter stream refused it (isMaxDeliverExceeded on the last try).
StrandedOnlyForCause ==
  \A j \in Jobs : Stranded(j) =>
    mishaps[j]["expired"] > 0 \/ mishaps[j]["unburied"] > 0

\* The resolve of an alert is not dropped for want of a reference when a firing
\* job of the same life was done before: whichever instance's worker did it,
\* the reference comes with the card (persistExternalRefs, seedExternalRefs).
ResolveFindsReference ==
  \A j \in 1..Len(jobs) : jobs[j].owed => "dropped" \notin fate[j]

\* The queue comes to rest again and again: every job in it is stranded then.
\* None goes around for ever, also with max_deliver = -1, nor holds up the
\* others (shouldDropTrackerNotification).
QueueComesToRest == []<>(\A j \in stream : Stranded(j))
=============================================================================
