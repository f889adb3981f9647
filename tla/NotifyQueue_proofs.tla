-------------------------- MODULE NotifyQueue_proofs --------------------------
(***************************************************************************)
(* Proofs about NotifyQueue: no notification vanishes, none is sent again  *)
(* or stays behind without a cause, and a resolve finds the reference that *)
(* is owed to it.                                                          *)
(***************************************************************************)
EXTENDS NotifyQueue, FiniteSetTheorems, TLAPS

-----------------------------------------------------------------------------
(* The inductive invariant.                                                *)

\* A worker acknowledges only what was handled to the end, or is in the dead-letter stream, or
\* has none to go to.
Verdict(w, letters) ==
  \/ w.outcome \in {"done", "dropped"}
  \/ config.Off /\ w.outcome = "muted"
  \/ w.outcome = "dead" /\ \E d \in letters : d.job = w.job
  \/ w.outcome = "discarded" /\ ~config.DLQ
Verdicts == \A i \in Instances : At(i, "ack") => Verdict(work[i], dlq)

\* Nothing has happened to a notification that was not made yet.
Fresh == \A j \in Jobs : j > Len(jobs) => delivered[j] = 0 /\ sent[j] = 0

Untroubled(j) == mishaps[j]["expired"] = 0 /\ mishaps[j]["unburied"] = 0

\* A job whose ack wait never ran out has one worker at most, which counts its deliveries as
\* JetStream does; in nobody's hands, it may be delivered.
HeldOnce(j) ==
  /\ j \in stream \ pending => MayDeliver(j)
  /\ \A i \in Instances : work[i].job = j =>
       /\ j \in pending
       /\ work[i].pc \in {"send", "refs", "refsWrite"} /\ config.MaxDeliver # -1 =>
            work[i].attempt = delivered[j]
       /\ \A k \in Instances : work[k].job = j => k = i
OneHolder == \A j \in Jobs : Untroubled(j) => HeldOnce(j)

\* The workers that may still send a job or hand it back unsent, and the queue if it may
\* deliver the job, are chances of another message.
InHand(j) == {i \in Instances : work[i].job = j /\ work[i].pc \in {"send", "failed"}}
Chance(j) == IF j \in stream \ pending THEN 1 ELSE 0
Excuses(j) == mishaps[j]["expired"] + mishaps[j]["unanswered"] + mishaps[j]["unpersisted"]
ChancesExcused ==
  \A j \in Jobs : sent[j] + Cardinality(InHand(j)) + Chance(j) <= 1 + Excuses(j)

IInv == TypeOK /\ NoJobVanishes /\ Verdicts /\ Fresh /\ OneHolder /\ ChancesExcused

-----------------------------------------------------------------------------
(* Types.                                                                  *)

\* References and notifications only grow in number, and what was well typed stays so.
LEMMA SetsGrow ==
  ASSUME refs \in Nat, refs' \in Nat, refs <= refs',
         Len(jobs) \in Nat, Len(jobs)' \in Nat, Len(jobs) <= Len(jobs)'
  PROVE  /\ Entries \subseteq Entries' /\ Cards \subseteq Cards'
         /\ Notifications \subseteq Notifications'
         /\ Works \subseteq Works' /\ DeadLetters \subseteq DeadLetters'
<1>1. 0..refs \subseteq (0..refs)' /\ 1..Len(jobs) \subseteq (1..Len(jobs))'
  OBVIOUS
<1>2. Entries \subseteq Entries'
  BY <1>1 DEF Entries
<1>3. Cards \subseteq Cards'
  BY <1>1 DEF Cards
<1>4. Notifications \subseteq Notifications'
  BY <1>1 DEF Notifications
<1>5. Works \subseteq Works'
  BY <1>1 DEF Works
<1>6. DeadLetters \subseteq DeadLetters'
  BY <1>1 DEF DeadLetters
<1> QED
  BY <1>2, <1>3, <1>4, <1>5, <1>6

\* So when no notification is made, only what a step changes needs its type.
LEMMA JobsStay ==
  ASSUME TypeOK, UNCHANGED jobs, refs' \in Nat, refs <= refs'
  PROVE  /\ jobs' \in Seq(Notifications') /\ Len(jobs)' = Len(jobs)
         /\ entry \in [Instances -> Entries'] /\ card \in Cards'
         /\ work \in [Instances -> Works'] /\ dlq \subseteq DeadLetters'
         /\ Works \subseteq Works'
<1>1. Len(jobs) \in Nat /\ Len(jobs)' = Len(jobs) /\ jobs \in Seq(Notifications) /\ refs \in Nat
  BY DEF TypeOK
<1>2. /\ Entries \subseteq Entries' /\ Cards \subseteq Cards'
      /\ Notifications \subseteq Notifications'
      /\ Works \subseteq Works' /\ DeadLetters \subseteq DeadLetters'
  BY <1>1, SetsGrow
<1>3. jobs \in Seq(Notifications')
  BY <1>1, <1>2
<1> QED
  BY <1>1, <1>2, <1>3 DEF TypeOK

ManagerStep == \/ WriteCard \/ Enqueue \/ DeleteCard \/ RemoveAlertState
               \/ \E i \in Instances : Raise(i) \/ Repeat(i) \/ Resolve(i) \/ ResolveByTTL(i)

\* The turns the handler takes.
LEMMA TurnTypes ==
  ASSUME TypeOK
  PROVE  /\ \A pc \in {"card", "publish", "delete"}, i \in Instances, s \in {"firing", "resolved"} :
              Turn(pc, i, s) \in Turns
         /\ mgr # Resting => AtEnd \in Turns
         /\ Resting \in Turns
BY DEF Turn, Turns, AtEnd, Resting, TypeOK

\* References that are stored or handed on are ones the channel gave out.
LEMMA ReferenceTypes ==
  ASSUME TypeOK
  PROVE  /\ \A i \in Instances : EntryRef(i) \in 0..refs
         /\ CardRef \in 0..refs
         /\ \A e \in Entries, ref \in 0..refs : SetRef(e, ref) \in Entries
<1>1. ASSUME NEW i \in Instances PROVE EntryRef(i) \in 0..refs
  BY DEF EntryRef, HasEntry, None, TypeOK, Entries, NoEntry
<1>2. CardRef \in 0..refs
  BY DEF CardRef, None, TypeOK, Cards, NoCard
<1>3. ASSUME NEW e \in Entries, NEW ref \in 0..refs PROVE SetRef(e, ref) \in Entries
  BY DEF SetRef, None, Entries, NoEntry
<1> QED
  BY <1>1, <1>2, <1>3

\* A turn that starts leaves queue and workers alone.
LEMMA HandleTypes ==
  ASSUME TypeOK, NEW m \in Turns, Handle(m),
         entry' \in [Instances -> Entries], lives' \in 0..MaxLives
  PROVE  TypeOK'
<1>1. /\ UNCHANGED <<config, card, jobs, stream, pending, delivered, dlq, work,
                     fate, sent, mishaps, refs, faults>>
      /\ mgr' = m /\ Len(jobs) < MaxJobs
      /\ current' \subseteq current \cup {"manager"}
  BY DEF Handle, queueVars, historyVars
<1>2. /\ Entries' = Entries /\ Cards' = Cards /\ Notifications' = Notifications
      /\ Works' = Works /\ DeadLetters' = DeadLetters
  BY <1>1 DEF Entries, Cards, Notifications, Works, DeadLetters
<1> QED
  BY <1>1, <1>2 DEF TypeOK, At, Turns

\* The manager's steps keep the types.
LEMMA ManagerTypes ==
  ASSUME TypeOK, ManagerStep
  PROVE  TypeOK'
<1>0. /\ Resting \in Turns /\ (mgr # Resting => AtEnd \in Turns)
      /\ mgr \in Turns /\ mgr.pc \in {"rest", "card", "publish", "delete", "remove"}
      /\ (mgr.pc # "rest" => mgr.at \in Instances /\ mgr.state \in {"firing", "resolved"} /\ mgr # Resting)
  BY TurnTypes DEF TypeOK, Turns, Resting
<1>1. ASSUME NEW i \in Instances, Raise(i) PROVE TypeOK'
  <2>1. Turn("card", i, "firing") \in Turns
    BY TurnTypes
  <2>2. [phase |-> "firing", ref |-> EntryRef(i)] \in Entries
    BY ReferenceTypes DEF Entries
  <2>3. entry' \in [Instances -> Entries] /\ lives' \in 0..MaxLives
    BY <1>1, <2>2, BoundsAssumption DEF Raise, TypeOK
  <2> QED
    BY <1>1, <2>1, <2>3, HandleTypes DEF Raise
<1>2. ASSUME NEW i \in Instances, Repeat(i) PROVE TypeOK'
  <2>1. Turn("publish", i, "firing") \in Turns
    BY TurnTypes
  <2> QED
    BY <1>2, <2>1, HandleTypes DEF Repeat, TypeOK
<1>3. ASSUME NEW i \in Instances, Resolve(i) PROVE TypeOK'
  <2>1. Turn("card", i, "resolved") \in Turns
    BY TurnTypes
  <2>2. [Turn("card", i, "resolved") EXCEPT !.owed = ReferenceOwed] \in Turns
    BY <2>1 DEF Turns, ReferenceOwed, Turn, Resting
  <2>3. entry[i] \in [phase : {"firing", "inactive"}, ref : 0..refs]
    BY <1>3 DEF Resolve, IsActive, HasEntry, TypeOK, Entries
  <2>4. [entry[i] EXCEPT !.phase = "inactive"] \in Entries
    BY <2>3 DEF Entries
  <2>5. entry' \in [Instances -> Entries]
    BY <1>3, <2>4 DEF Resolve, TypeOK
  <2> QED
    BY <1>3, <2>2, <2>5, HandleTypes DEF Resolve, TypeOK
<1>4. ASSUME NEW i \in Instances, ResolveByTTL(i) PROVE TypeOK'
  <2>1. [Turn("card", i, "resolved") EXCEPT !.ttl = TRUE] \in Turns
    BY DEF Turns, Turn, Resting
  <2> QED
    BY <1>4, <2>1, HandleTypes DEF ResolveByTTL, TypeOK
<1>5. ASSUME UNCHANGED <<config, jobs, stream, pending, delivered, dlq, work, fate, sent,
                         mishaps, refs, faults, lives>>,
             entry' \in [Instances -> Entries], card' \in Cards,
             current' = {} \/ (current' = current /\ card' = card), mgr' \in Turns,
             mgr'.pc \in {"card", "publish"} => Len(jobs) < MaxJobs
      PROVE  TypeOK'
  <2>1. /\ Entries' = Entries /\ Cards' = Cards /\ Notifications' = Notifications
        /\ Works' = Works /\ DeadLetters' = DeadLetters /\ Turns' = Turns
    BY <1>5 DEF Entries, Cards, Notifications, Works, DeadLetters, Turns
  <2> QED
    BY <1>5, <2>1 DEF TypeOK, At
<1>6. CASE WriteCard
  <2>1. entry' \in [Instances -> Entries]
    <3>1. SetRef(entry[mgr.at], CardRef) \in Entries
      BY <1>0, <1>6, ReferenceTypes DEF WriteCard, TypeOK
    <3> QED
      BY <1>6, <3>1 DEF WriteCard, Seeded, TypeOK
  <2>2. card' \in Cards /\ (current' = {} \/ (current' = current /\ card' = card))
    BY <1>0, <1>6, ReferenceTypes DEF WriteCard, PutCard, Cards, TypeOK
  <2>3. mgr' \in {AtEnd, Resting, [mgr EXCEPT !.pc = "publish"]} /\ Len(jobs) < MaxJobs
    BY <1>6 DEF WriteCard, TypeOK
  <2>4. mgr' \in Turns
    BY <1>0, <1>6, <2>3 DEF WriteCard, Turns, Resting
  <2> QED
    BY <1>5, <1>6, <2>1, <2>2, <2>3, <2>4 DEF WriteCard, queueVars, historyVars
<1>7. CASE DeleteCard
  <2>1. mgr' \in Turns /\ mgr'.pc = "remove"
    BY <1>0, <1>7 DEF DeleteCard, Turns, Resting
  <2>2. NoCard \in Cards
    BY DEF Cards
  <2> QED
    BY <1>5, <1>7, <2>1, <2>2 DEF DeleteCard, queueVars, historyVars, TypeOK
<1>8. CASE RemoveAlertState
  <2>1. NoEntry \in Entries /\ Resting.pc = "rest"
    BY DEF Entries, Resting
  <2>2. entry' \in [Instances -> Entries]
    BY <1>8, <2>1 DEF RemoveAlertState, TypeOK
  <2> QED
    BY <1>0, <1>5, <1>8, <2>1, <2>2 DEF RemoveAlertState, queueVars, historyVars, TypeOK
<1>9. CASE Enqueue
  <2> DEFINE job == [state |-> mgr.state, ref |-> EntryRef(mgr.at), life |-> lives, owed |-> mgr.owed]
  <2>1. /\ UNCHANGED <<config, entry, card, current, lives, pending, delivered, dlq, work,
                       sent, mishaps, refs>>
        /\ jobs' = Append(jobs, job)
        /\ stream' \in {stream, stream \cup {Len(jobs) + 1}}
        /\ mgr' \in {AtEnd, Resting} /\ faults' \in {faults, faults + 1}
        /\ \E end \in SUBSET Outcomes : fate' = [fate EXCEPT ![Len(jobs) + 1] = end]
        /\ Len(jobs) < MaxJobs
    BY <1>9 DEF Enqueue, AfterPublish, Outcomes, TypeOK
  <2>2. mgr' \in Turns /\ mgr'.pc \notin {"card", "publish"}
    <3>1. AtEnd.pc \in {"delete", "rest"} /\ Resting.pc = "rest" /\ mgr # Resting
      BY <1>9 DEF Enqueue, AtEnd, Turn, Resting
    <3> QED
      BY <1>0, <2>1, <3>1
  <2>3. job \in Notifications
    BY <1>0, <1>9, ReferenceTypes DEF Enqueue, Notifications, TypeOK, Turns
  <2>4. jobs' \in Seq(Notifications) /\ Len(jobs)' = Len(jobs) + 1
    BY <2>1, <2>3 DEF TypeOK
  <2>5. /\ Entries' = Entries /\ Cards' = Cards /\ Notifications' = Notifications
        /\ Works \subseteq Works' /\ DeadLetters \subseteq DeadLetters' /\ Turns' = Turns
    BY <2>1, <2>4, SetsGrow DEF Entries, Cards, Notifications, Turns, TypeOK
  <2>6. stream' \subseteq 1..Len(jobs)' /\ pending' \subseteq stream'
    BY <2>1, <2>4 DEF TypeOK
  <2>7. fate' \in [Jobs -> SUBSET Outcomes]
    BY <2>1 DEF TypeOK
  <2>8. work' \in [Instances -> Works'] /\ dlq' \subseteq DeadLetters'
    BY <2>1, <2>5 DEF TypeOK
  <2> QED
    <3>1. Len(jobs)' <= MaxJobs /\ Len(jobs) \in Nat /\ faults' \in Nat
      BY <2>1, <2>4, BoundsAssumption DEF TypeOK
    <3>2. current' \subseteq {i \in Instances : At(i, "refsWrite") /\ card # NoCard}' \cup {"manager"}
      BY <2>1 DEF TypeOK, At
    <3>3. /\ config' \in Configs /\ refs' \in Nat /\ entry' \in [Instances -> Entries']
          /\ card' \in Cards' /\ lives' \in 0..MaxLives /\ delivered' \in [Jobs -> Nat]
          /\ sent' \in [Jobs -> Nat] /\ mishaps' \in [Jobs -> [Mishap -> Nat]]
      BY <2>1, <2>5 DEF TypeOK
    <3>4. config'.MaxDeliver > 0 => \A j \in Jobs : delivered'[j] <= config'.MaxDeliver
      BY <2>1 DEF TypeOK
    <3>5. mgr' \in Turns' /\ (mgr'.pc \in {"card", "publish"} => Len(jobs)' < MaxJobs)
      BY <2>2, <2>5
    <3>6. jobs' \in Seq(Notifications')
      BY <2>4, <2>5
    <3> QED
      BY <2>6, <2>7, <2>8, <3>1, <3>2, <3>3, <3>4, <3>5, <3>6 DEF TypeOK, Jobs
<1> QED
  BY <1>1, <1>2, <1>3, <1>4, <1>6, <1>7, <1>8, <1>9 DEF ManagerStep

\* A worker at work has a notification that was made.
LEMMA AtWork ==
  ASSUME TypeOK, NEW i \in Instances, work[i].pc # "idle"
  PROVE  /\ work[i] # Idle
         /\ work[i] \in [pc : {"send", "refs", "refsWrite", "failed", "ack"}, job : 1..Len(jobs),
                         attempt : Nat, ref : 0..refs, tries : 0..2, outcome : Outcomes]
         /\ work[i].job \in 1..Len(jobs) /\ work[i].job \in Jobs
         /\ Len(jobs) \in Nat
<1>1. work[i] # Idle /\ work[i] \in Works /\ Len(jobs) \in Nat
  BY DEF TypeOK, Idle
<1> QED
  BY <1>1, BoundsAssumption DEF TypeOK, Works, Jobs

\* A step of a worker moves on this worker, and may change card, engine entry and queue.
LEMMA WorkTypes ==
  ASSUME TypeOK, NEW i \in Instances, UNCHANGED <<config, mgr, lives, jobs>>,
         refs' \in Nat, refs <= refs', faults' \in Nat,
         entry' \in [Instances -> Entries'], card' \in Cards',
         NEW w \in Works', work' = [work EXCEPT ![i] = w],
         current' \subseteq (current \ {i}) \cup {k \in {i} : w.pc = "refsWrite" /\ card # NoCard},
         current' = {} \/ card' = card,
         stream' \subseteq stream, pending' \subseteq stream', dlq' \subseteq DeadLetters',
         delivered' \in [Jobs -> Nat],
         config.MaxDeliver > 0 => \A j \in Jobs : delivered'[j] <= config.MaxDeliver,
         fate' \in [Jobs -> SUBSET Outcomes], sent' \in [Jobs -> Nat],
         mishaps' \in [Jobs -> [Mishap -> Nat]]
  PROVE  TypeOK'
<1>1. /\ jobs' \in Seq(Notifications') /\ Len(jobs)' = Len(jobs)
      /\ work \in [Instances -> Works']
  BY JobsStay
<1>2. work' \in [Instances -> Works']
  BY <1>1
<1>3. current' \subseteq {k \in Instances : At(k, "refsWrite") /\ card # NoCard}' \cup {"manager"}
  <2>1. \A k \in Instances : work'[k] = IF k = i THEN w ELSE work[k]
    BY DEF TypeOK
  <2> QED
    BY <2>1 DEF TypeOK, At
<1>4. Turns' = Turns
  BY DEF Turns
<1>5. stream' \subseteq 1..Len(jobs)'
  BY <1>1 DEF TypeOK
<1> QED
  BY <1>1, <1>2, <1>3, <1>4, <1>5 DEF TypeOK, Jobs

\* A mishap is counted for the job of the worker.
LEMMA MishapTypes ==
  ASSUME TypeOK, NEW j \in Jobs, NEW m \in Mishap,
         mishaps' = [mishaps EXCEPT ![j][m] = @ + 1]
  PROVE  mishaps' \in [Jobs -> [Mishap -> Nat]]
<1>1. mishaps[j] \in [Mishap -> Nat]
  BY DEF TypeOK
<1>2. [mishaps[j] EXCEPT ![m] = @ + 1] \in [Mishap -> Nat]
  BY <1>1
<1>3. mishaps' = [mishaps EXCEPT ![j] = [mishaps[j] EXCEPT ![m] = @ + 1]]
  OBVIOUS
<1> QED
  BY <1>2, <1>3 DEF TypeOK

\* What a worker turns to.
LEMMA EndTypes ==
  ASSUME TypeOK, NEW j \in 1..Len(jobs), NEW outcome \in Outcomes
  PROVE  [Idle EXCEPT !.pc = "ack", !.job = j, !.outcome = outcome] \in Works
<1>1. 0 \in 0..refs /\ 0 \in 0..2 /\ 0 \in Nat /\ 0 \in 0..Len(jobs) /\ j \in 0..Len(jobs)
  BY DEF TypeOK
<1>2. Idle \in [pc : {"idle", "ack"}, job : 0..Len(jobs), attempt : Nat, ref : 0..refs,
               tries : 0..2, outcome : Outcomes]
  BY <1>1 DEF Idle, None, Outcomes
<1> DEFINE e == [Idle EXCEPT !.pc = "ack", !.job = j, !.outcome = outcome]
<1>3. e \in [pc : {"ack"}, job : 1..Len(jobs), attempt : Nat, ref : 0..refs,
            tries : 0..2, outcome : Outcomes]
  BY <1>2
<1> QED
  BY <1>3 DEF Works

\* What a worker turns to when its handler returned an error.
LEMMA FailsTypes ==
  ASSUME TypeOK, NEW i \in Instances, work[i].pc # "idle", NEW permanent \in BOOLEAN,
         Fails(i, permanent)
  PROVE  /\ pending' \subseteq pending
         /\ \E w \in Works : work' = [work EXCEPT ![i] = w] /\ w.pc # "refsWrite"
<1>1. CASE permanent \/ isMaxDeliverExceeded(work[i].attempt)
  <2> DEFINE w == [work[i] EXCEPT !.pc = "failed", !.ref = None, !.tries = 0,
                     !.outcome = IF permanent THEN "permanent_error" ELSE "max_deliver_exceeded"]
  <2>1. w \in Works /\ w.pc # "refsWrite"
    <3>1. 0 \in 0..refs
      BY DEF TypeOK
    <3>2. /\ (IF permanent THEN "permanent_error" ELSE "max_deliver_exceeded") \in Outcomes
          /\ 0 \in 0..2 /\ None = 0
      BY DEF Outcomes, None
    <3>3. w \in [pc : {"failed"}, job : 1..Len(jobs), attempt : Nat, ref : 0..refs,
                tries : 0..2, outcome : Outcomes]
      BY <3>1, <3>2, AtWork
    <3> QED
      BY <3>3 DEF Works
  <2>2. work' = [work EXCEPT ![i] = w] /\ pending' = pending
    BY <1>1 DEF Fails, Goes
  <2> QED
    BY <2>1, <2>2
<1>2. CASE ~(permanent \/ isMaxDeliverExceeded(work[i].attempt))
  <2>1. pending' = pending \ {work[i].job} /\ work' = [work EXCEPT ![i] = Idle]
    BY <1>2 DEF Fails, Nak, Goes
  <2>2. Idle \in Works /\ Idle.pc # "refsWrite"
    BY DEF Works, Idle
  <2> QED
    BY <2>1, <2>2
<1> QED
  BY <1>1, <1>2

\* The workers' steps keep the types.
LEMMA WorkerTypes ==
  ASSUME TypeOK, NEW i \in Instances, WorkerStep(i)
  PROVE  TypeOK'
<1>0. /\ work[i].pc # "idle" /\ i \in Instances
      /\ UNCHANGED <<config, mgr, lives, jobs>>
      /\ refs' \in {refs, refs + 1} /\ faults' \in {faults, faults + 1}
  BY DEF WorkerStep, Send, SendFails, ReadRefs, WriteRefs, StoreFails, Bury, Ack, At, Post,
         alertVars, historyVars
<1>1. /\ refs' \in Nat /\ refs <= refs' /\ faults' \in Nat
      /\ work[i].job \in 1..Len(jobs) /\ work[i].job \in Jobs
  BY <1>0, AtWork DEF TypeOK
<1>2. /\ entry \in [Instances -> Entries'] /\ card \in Cards'
      /\ Works \subseteq Works' /\ dlq \subseteq DeadLetters'
  BY <1>0, <1>1, JobsStay
<1>3. /\ pending \subseteq stream /\ delivered \in [Jobs -> Nat]
      /\ config.MaxDeliver > 0 => \A j \in Jobs : delivered[j] <= config.MaxDeliver
      /\ fate \in [Jobs -> SUBSET Outcomes] /\ sent \in [Jobs -> Nat]
      /\ mishaps \in [Jobs -> [Mishap -> Nat]]
  BY DEF TypeOK
<1>4. ASSUME NEW w \in Works, work' = [work EXCEPT ![i] = w],
             entry' \in [Instances -> Entries'], card' \in Cards',
             current' \subseteq (current \ {i}) \cup {k \in {i} : w.pc = "refsWrite" /\ card # NoCard},
             current' = {} \/ card' = card,
             stream' \subseteq stream, pending' \subseteq stream', dlq' \subseteq DeadLetters',
             delivered' \in [Jobs -> Nat],
             config.MaxDeliver > 0 => \A j \in Jobs : delivered'[j] <= config.MaxDeliver,
             fate' \in [Jobs -> SUBSET Outcomes], sent' \in [Jobs -> Nat],
             mishaps' \in [Jobs -> [Mishap -> Nat]]
      PROVE  TypeOK'
  BY <1>0, <1>1, <1>2, <1>4, WorkTypes
<1>5. work[i].pc # "refsWrite" => current \subseteq current \ {i}
  BY InstancesAssumption DEF TypeOK, At
<1>6. \A outcome \in Outcomes : [Idle EXCEPT !.pc = "ack", !.job = work[i].job, !.outcome = outcome]
                                \in Works
  BY <1>1, EndTypes
<1>7. Post(i) => sent' \in [Jobs -> Nat]
  BY <1>1, <1>3 DEF Post
<1>8. CASE Send(i)
  <2>1. ResultRef(i) \in 0..refs' /\ sent' \in [Jobs -> Nat]
    <3>1. work[i].ref \in 0..refs /\ refs \in Nat /\ None = 0
      BY <1>0, AtWork DEF TypeOK, None
    <3>2. CASE Silent(i)
      <4>1. ~Opens(i)
        BY <3>2 DEF Silent, Opens
      <4> QED
        BY <1>3, <1>8, <3>1, <3>2, <4>1 DEF Send, ResultRef
    <3>3. CASE ~Silent(i)
      BY <1>7, <1>8, <3>1, <3>3 DEF Send, Post, ResultRef
    <3> QED
      BY <3>2, <3>3
  <2>2. SetRef(entry[i], ResultRef(i)) \in Entries'
    BY <1>2, <2>1 DEF SetRef, Entries, NoEntry
  <2>3. entry' \in [Instances -> Entries']
    BY <1>2, <1>8, <2>2 DEF Send
  <2>4. /\ [work[i] EXCEPT !.pc = "refs", !.ref = ResultRef(i)] \in Works'
        /\ [work[i] EXCEPT !.pc = "refs", !.ref = ResultRef(i)].pc = "refs"
    BY <1>0, <1>1, <2>1, AtWork DEF Works
  <2>5. [Idle EXCEPT !.pc = "ack", !.job = work[i].job, !.outcome = "done"] \in Works'
    BY <1>2, <1>6 DEF Outcomes
  <2>6. PICK w \in Works' : work' = [work EXCEPT ![i] = w]
    BY <1>8, <2>4, <2>5 DEF Send, Goes, Ends
  <2>7. current' \subseteq current \ {i}
    BY <1>5, <1>8 DEF Send, At
  <2> QED
    BY <1>1, <1>2, <1>3, <1>0, <1>8, <2>1, <2>3, <2>6, <2>7, WorkTypes
    DEF Send, historyVars, queueVars
<1>9. CASE SendFails(i)
  <2>1. PICK permanent \in BOOLEAN : Fails(i, permanent)
    BY <1>9 DEF SendFails
  <2>2. PICK w \in Works : work' = [work EXCEPT ![i] = w] /\ w.pc # "refsWrite"
    BY <1>0, <2>1, FailsTypes
  <2>3. pending' \subseteq pending
    BY <1>0, <2>1, FailsTypes
  <2>4. sent' \in [Jobs -> Nat] /\ mishaps' \in [Jobs -> [Mishap -> Nat]]
    BY <1>1, <1>3, <1>7, <1>9, MishapTypes DEF SendFails, Fault, Mishap
  <2>5. current' \subseteq current \ {i}
    BY <1>5, <1>9 DEF SendFails, At, alertVars
  <2> QED
    BY <1>2, <1>3, <1>4, <1>9, <2>2, <2>3, <2>4, <2>5 DEF SendFails, alertVars
<1>10. CASE StoreFails(i)
  <2>1. PICK w \in Works : work' = [work EXCEPT ![i] = w] /\ w.pc # "refsWrite"
    BY <1>0, <1>10, FailsTypes DEF StoreFails
  <2>2. pending' \subseteq pending
    BY <1>0, <1>10, FailsTypes DEF StoreFails
  <2>3. mishaps' \in [Jobs -> [Mishap -> Nat]]
    BY <1>1, <1>10, MishapTypes DEF StoreFails, Fault, Mishap
  <2> QED
    BY <1>2, <1>3, <1>4, <1>10, <2>1, <2>2, <2>3 DEF StoreFails
<1>11. CASE ReadRefs(i)
  <2>1. [work[i] EXCEPT !.pc = "refsWrite"] \in Works
    BY <1>0, AtWork DEF Works
  <2>2. "done" \in Outcomes
    BY DEF Outcomes
  <2>3. PICK w \in Works : /\ work' = [work EXCEPT ![i] = w]
                          /\ \/ current' = current
                             \/ current' = current \cup {i} /\ w.pc = "refsWrite" /\ card # NoCard
    BY <1>0, <1>6, <1>11, <2>1, <2>2, AtWork DEF ReadRefs, Absent, Ends, Goes
  <2>4. current' \subseteq (current \ {i}) \cup {k \in {i} : w.pc = "refsWrite" /\ card # NoCard}
    BY <1>5, <1>11, <2>3 DEF ReadRefs, At
  <2>5. pending' = pending
    BY <1>11 DEF ReadRefs, Absent
  <2> QED
    BY <1>2, <1>3, <1>4, <1>11, <2>3, <2>4, <2>5 DEF ReadRefs, historyVars
<1>12. CASE WriteRefs(i)
  <2>0. work[i].pc = "refsWrite" /\ work[i].ref \in 0..refs /\ work[i].tries \in 0..2
    BY <1>0, <1>12, AtWork DEF WriteRefs, At
  <2>1. CASE i \in current
    <3>1. [Idle EXCEPT !.pc = "ack", !.job = work[i].job, !.outcome = "done"] \in Works
      BY <1>6 DEF Outcomes
    <3>2. card.State \in {"firing", "resolved"}
      BY <2>1, InstancesAssumption DEF TypeOK, Cards
    <3>3. card' \in Cards /\ current' = {}
      BY <1>12, <2>0, <2>1, <3>2 DEF WriteRefs, PutCard, Cards
    <3>4. card' \in Cards'
      BY <1>12, <3>3 DEF WriteRefs, Cards
    <3> QED
      BY <1>2, <1>3, <1>4, <1>12, <2>1, <3>1, <3>3, <3>4 DEF WriteRefs, Ends, Goes
  <2>2. CASE i \notin current
    <3>1. CASE work[i].tries = 2
      <4>1. PICK w \in Works : work' = [work EXCEPT ![i] = w] /\ w.pc # "refsWrite"
        BY <1>0, <1>12, <2>2, <3>1, FailsTypes DEF WriteRefs
      <4>2. pending' \subseteq pending
        BY <1>0, <1>12, <2>2, <3>1, FailsTypes DEF WriteRefs
      <4>3. mishaps' \in [Jobs -> [Mishap -> Nat]]
        BY <1>1, <1>12, <2>2, <3>1, MishapTypes DEF WriteRefs, Fault, Mishap
      <4> QED
        BY <1>2, <1>3, <1>4, <1>12, <2>2, <4>1, <4>2, <4>3 DEF WriteRefs
    <3>2. CASE work[i].tries # 2
      <4>1. [work[i] EXCEPT !.pc = "refs", !.tries = @ + 1] \in Works
        <5>1. work[i].tries + 1 \in 0..2
          BY <2>0, <3>2
        <5> QED
          BY <1>0, <5>1, AtWork DEF Works
      <4> QED
        BY <1>2, <1>3, <1>4, <1>12, <2>2, <3>2, <4>1 DEF WriteRefs, Goes
    <3> QED
      BY <3>1, <3>2
  <2> QED
    BY <2>1, <2>2
<1>13. CASE Bury(i)
  <2>1. /\ work[i].pc = "failed" /\ work[i].outcome \in Outcomes /\ work[i].attempt \in Nat
        /\ {"dead", "discarded"} \subseteq Outcomes
    BY <1>0, <1>13, AtWork DEF Bury, At, Outcomes
  <2>2. Idle \in Works
    BY DEF Works
  <2>3. PICK w \in Works : work' = [work EXCEPT ![i] = w]
    BY <1>6, <1>13, <2>1, <2>2 DEF Bury, Ends, Goes, Unburied, Nak
  <2>4. pending' \subseteq pending
    BY <1>13 DEF Bury, Unburied, Nak
  <2>5. dlq' \subseteq DeadLetters'
    <3>1. [job |-> work[i].job, reason |-> work[i].outcome, attempts |-> work[i].attempt]
          \in DeadLetters'
      BY <1>0, <1>1, <2>1 DEF DeadLetters
    <3> QED
      BY <1>2, <1>13, <3>1 DEF Bury
  <2>6. mishaps' \in [Jobs -> [Mishap -> Nat]]
    BY <1>1, <1>3, <1>13, MishapTypes DEF Bury, Fault, Mishap
  <2>7. current' \subseteq current \ {i} /\ card' = card
    BY <1>5, <1>13, <2>1 DEF Bury, alertVars
  <2> QED
    BY <1>2, <1>3, <1>4, <1>13, <2>3, <2>4, <2>5, <2>6, <2>7 DEF Bury, alertVars
<1>14. CASE Ack(i)
  <2>1. work[i].pc = "ack" /\ work[i].outcome \in Outcomes
    BY <1>0, <1>14, AtWork DEF Ack, At
  <2>2. Idle \in Works /\ work' = [work EXCEPT ![i] = Idle]
    BY <1>14 DEF Works, Ack, Goes
  <2>3. fate' \in [Jobs -> SUBSET Outcomes]
    BY <1>1, <1>3, <1>14, <2>1 DEF Ack
  <2>4. /\ delivered' \in [Jobs -> Nat]
        /\ config.MaxDeliver > 0 => \A j \in Jobs : delivered'[j] <= config.MaxDeliver
    BY <1>1, <1>3, <1>14, ConfigsAssumption DEF Ack, TypeOK, QueueConfig
  <2>5. current' \subseteq current \ {i} /\ card' = card
    BY <1>5, <1>14, <2>1 DEF Ack, alertVars
  <2>6. stream' \subseteq stream /\ pending' \subseteq stream'
    BY <1>3, <1>14 DEF Ack
  <2> QED
    BY <1>2, <1>3, <1>4, <1>14, <2>2, <2>3, <2>4, <2>5, <2>6 DEF Ack, alertVars
<1> QED
  BY <1>8, <1>9, <1>10, <1>11, <1>12, <1>13, <1>14 DEF WorkerStep

\* So do delivery, the end of an ack wait and a crash.
LEMMA QueueTypes ==
  ASSUME TypeOK,
         \/ \E i \in Instances : Crash(i) \/ \E j \in Jobs : Deliver(i, j)
         \/ \E j \in Jobs : Expire(j)
  PROVE  TypeOK'
<1>1. ASSUME NEW i \in Instances, NEW j \in Jobs, Deliver(i, j) PROVE TypeOK'
  <2> DEFINE ref == IF jobs[j].ref = None THEN EntryRef(i) ELSE jobs[j].ref
             attempt == IF config.MaxDeliver = -1 THEN 1 ELSE delivered[j] + 1
  <2>0. /\ work[i].pc = "idle" /\ j \in stream \ pending /\ MayDeliver(j)
        /\ pending' = pending \cup {j} /\ delivered' = [delivered EXCEPT ![j] = attempt]
        /\ UNCHANGED <<config, entry, card, current, mgr, lives, jobs, stream, dlq, fate, sent,
                       mishaps, refs, faults>>
    BY <1>1 DEF Deliver, At, alertVars, historyVars
  <2>1. /\ j \in 1..Len(jobs) /\ jobs[j] \in Notifications
        /\ Len(jobs) \in Nat /\ refs \in Nat /\ delivered[j] \in Nat
    BY <2>0 DEF TypeOK
  <2>r. ref \in 0..refs
    BY <2>1, ReferenceTypes DEF Notifications
  <2>2. attempt \in Nat /\ (config.MaxDeliver > 0 => attempt <= config.MaxDeliver)
    <3>1. config.MaxDeliver \in Int /\ (config.MaxDeliver = -1 \/ config.MaxDeliver > 0)
      BY ConfigsAssumption DEF TypeOK, QueueConfig
    <3>2. config.MaxDeliver = -1 \/ delivered[j] < config.MaxDeliver
      BY <2>0 DEF MayDeliver
    <3> QED
      BY <2>1, <3>1, <3>2
  <2>3. \A o \in {"dropped", "muted"} : [Idle EXCEPT !.pc = "ack", !.job = j, !.outcome = o] \in Works
    BY <2>1, EndTypes DEF Outcomes
  <2> DEFINE w == [Idle EXCEPT !.pc = "send", !.job = j, !.attempt = attempt, !.ref = ref]
  <2>4. w \in Works /\ w.pc = "send"
    <3>1. Idle \in [pc : {"idle", "send"}, job : 0..Len(jobs), attempt : Nat, ref : 0..refs,
                   tries : 0..2, outcome : Outcomes]
      BY <2>1 DEF Idle, None, Outcomes
    <3>2. w \in [pc : {"send"}, job : 1..Len(jobs), attempt : Nat, ref : 0..refs,
                tries : 0..2, outcome : Outcomes]
      BY <2>1, <2>r, <2>2, <3>1, ZenonT(30)
    <3> QED
      BY <3>2 DEF Works
  <2>5. PICK v \in Works : work' = [work EXCEPT ![i] = v]
    BY <1>1, <2>3, <2>4 DEF Deliver, Ends, Goes
  <2>6. current' \subseteq current \ {i} /\ card' = card
    BY <2>0, InstancesAssumption, SMTT(30) DEF At, TypeOK
  <2>7. /\ delivered' \in [Jobs -> Nat] /\ pending' \subseteq stream
        /\ config.MaxDeliver > 0 => \A k \in Jobs : delivered'[k] <= config.MaxDeliver
    BY <2>0, <2>2 DEF TypeOK
  <2>8. /\ Works' = Works /\ Entries' = Entries /\ Cards' = Cards /\ DeadLetters' = DeadLetters
    BY <2>0 DEF Works, Entries, Cards, DeadLetters
  <2>9. /\ entry' \in [Instances -> Entries'] /\ card' \in Cards' /\ dlq' \subseteq DeadLetters'
        /\ refs' \in Nat /\ refs <= refs' /\ faults' \in Nat
        /\ fate' \in [Jobs -> SUBSET Outcomes] /\ sent' \in [Jobs -> Nat]
        /\ mishaps' \in [Jobs -> [Mishap -> Nat]]
    BY <2>0, <2>8 DEF TypeOK
  <2> QED
    BY <2>0, <2>5, <2>6, <2>7, <2>8, <2>9, WorkTypes
<1>2. ASSUME NEW j \in Jobs, Expire(j) PROVE TypeOK'
  <2>1. mishaps' \in [Jobs -> [Mishap -> Nat]]
    BY <1>2, MishapTypes DEF Expire, Mishap
  <2>2. /\ Works' = Works /\ Entries' = Entries /\ Cards' = Cards /\ DeadLetters' = DeadLetters
        /\ Notifications' = Notifications /\ Turns' = Turns
        /\ UNCHANGED <<config, mgr, lives, jobs, refs, entry, card, current, stream, delivered, work,
                       dlq, fate, sent>>
        /\ pending' \subseteq pending /\ faults' \in {faults, faults + 1}
    BY <1>2 DEF Expire, Works, Entries, Cards, DeadLetters, Notifications, Turns, alertVars
  <2> QED
    BY <2>1, <2>2 DEF TypeOK, At
<1>3. ASSUME NEW i \in Instances, Crash(i) PROVE TypeOK'
  <2>1. /\ Works' = Works /\ Entries' = Entries /\ Cards' = Cards /\ DeadLetters' = DeadLetters
        /\ Notifications' = Notifications /\ Turns' = Turns
        /\ UNCHANGED <<config, lives, jobs, refs, card, stream, pending, delivered, dlq, fate, sent,
                       mishaps>>
        /\ faults' = faults + 1 /\ current' \subseteq current \ {i}
        /\ mgr' \in {mgr, Resting} /\ work' = [work EXCEPT ![i] = Idle]
        /\ entry' = [entry EXCEPT ![i] = NoEntry]
    BY <1>3 DEF Crash, Goes, Works, Entries, Cards, DeadLetters, Notifications, Turns, queueVars,
                historyVars
  <2>2. Idle \in Works /\ NoEntry \in Entries /\ Resting \in Turns /\ Resting.pc = "rest"
    BY DEF Works, Entries, Turns, Resting
  <2>3. current' \subseteq {k \in Instances : At(k, "refsWrite") /\ card # NoCard}' \cup {"manager"}
    BY <2>1 DEF TypeOK, At
  <2> QED
    BY <2>1, <2>2, <2>3 DEF TypeOK
<1> QED
  BY <1>1, <1>2, <1>3

\* The variables have their types after every step.
LEMMA TypeStep ==
  ASSUME TypeOK, [Next]_vars
  PROVE  TypeOK'
<1>1. CASE UNCHANGED vars
  BY <1>1 DEF vars, alertVars, queueVars, historyVars, TypeOK, At, Entries, Cards, Notifications,
              Works, DeadLetters, Turns
<1>2. CASE Next
  BY <1>2, ManagerTypes, WorkerTypes, QueueTypes, InstancesAssumption DEF Next, ManagerStep
<1> QED
  BY <1>1, <1>2

-----------------------------------------------------------------------------
(* What the steps have in common.                                          *)

\* A failed handler: the worker gives the job up, or hands it back before its last delivery.
LEMMA FailsShape ==
  ASSUME TypeOK, NEW i \in Instances, work[i].pc # "idle", NEW permanent \in BOOLEAN,
         Fails(i, permanent)
  PROVE  \E w \in Works :
           /\ work' = [work EXCEPT ![i] = w]
           /\ \/ w.pc = "failed" /\ w.job = work[i].job /\ pending' = pending
              \/ /\ w = Idle /\ pending' = pending \ {work[i].job}
                 /\ ~isMaxDeliverExceeded(work[i].attempt)
<1>1. CASE permanent \/ isMaxDeliverExceeded(work[i].attempt)
  <2> DEFINE w == [work[i] EXCEPT !.pc = "failed", !.ref = None, !.tries = 0,
                     !.outcome = IF permanent THEN "permanent_error" ELSE "max_deliver_exceeded"]
  <2>1. /\ 0 \in 0..refs /\ 0 \in 0..2 /\ None = 0
        /\ (IF permanent THEN "permanent_error" ELSE "max_deliver_exceeded") \in Outcomes
    BY DEF TypeOK, None, Outcomes
  <2>2. /\ w \in [pc : {"failed"}, job : 1..Len(jobs), attempt : Nat, ref : 0..refs,
                tries : 0..2, outcome : Outcomes]
        /\ w.job = work[i].job
    BY <2>1, AtWork
  <2>3. work' = [work EXCEPT ![i] = w] /\ pending' = pending
    BY <1>1 DEF Fails, Goes
  <2> QED
    BY <2>2, <2>3 DEF Works
<1>2. CASE ~(permanent \/ isMaxDeliverExceeded(work[i].attempt))
  <2>1. pending' = pending \ {work[i].job} /\ work' = [work EXCEPT ![i] = Idle]
    BY <1>2 DEF Fails, Nak, Goes
  <2> QED
    BY <1>2, <2>1 DEF Works
<1> QED
  BY <1>1, <1>2

\* What is recorded as gone wrong with a job stays recorded.
LEMMA MishapCounts ==
  ASSUME TypeOK, NEW j \in Jobs, NEW m \in Mishap, mishaps' = [mishaps EXCEPT ![j][m] = @ + 1]
  PROVE  /\ \A k \in Jobs \ {j} : mishaps'[k] = mishaps[k]
         /\ mishaps'[j][m] = mishaps[j][m] + 1
         /\ \A n \in Mishap \ {m} : mishaps'[j][n] = mishaps[j][n]
         /\ \A k \in Jobs, n \in Mishap : mishaps[k][n] \in Nat
<1>1. mishaps[j] \in [Mishap -> Nat]
  BY DEF TypeOK
<1>2. mishaps' = [mishaps EXCEPT ![j] = [mishaps[j] EXCEPT ![m] = @ + 1]]
  OBVIOUS
<1>3. mishaps'[j] = [mishaps[j] EXCEPT ![m] = @ + 1]
  BY <1>2 DEF TypeOK
<1> QED
  BY <1>1, <1>2, <1>3 DEF TypeOK

\* A job's worker: what it turns to, and what becomes of the job.
Working == {"send", "refs", "refsWrite"}
Moves(i) ==
  /\ work'[i].job = work[i].job /\ work'[i].pc \in {"refs", "refsWrite", "failed", "ack"}
  /\ work'[i].pc \in Working => work[i].pc \in Working /\ work'[i].attempt = work[i].attempt
  /\ work'[i].pc = "ack" => Verdict(work'[i], dlq')
  /\ pending' = pending
HandsBack(i) ==
  /\ work'[i] = Idle /\ pending' = pending \ {work[i].job}
  /\ \/ work[i].pc \in Working /\ ~isMaxDeliverExceeded(work[i].attempt)
     \/ Fault(i, "unburied")
Accounts(i) ==
  \/ /\ UNCHANGED <<sent, mishaps>>
     /\ work'[i].pc \in {"failed", "idle"} => work[i].pc = "send"
  \/ /\ work[i].pc = "send" /\ sent' = [sent EXCEPT ![work[i].job] = @ + 1]
     /\ \/ Fault(i, "unanswered")
        \/ UNCHANGED mishaps /\ work'[i].pc \in {"refs", "ack"}
  \/ UNCHANGED sent /\ Fault(i, "unpersisted")
  \/ UNCHANGED sent /\ Fault(i, "unburied") /\ work[i].pc = "failed" /\ work'[i] = Idle
Turned(i) ==
  /\ UNCHANGED <<config, jobs, stream, delivered, fate>> /\ dlq \subseteq dlq'
  /\ work[i].pc # "idle" /\ work' = [work EXCEPT ![i] = work'[i]]
  /\ Moves(i) \/ HandsBack(i)
  /\ Accounts(i)

\* A worker that is through goes to acknowledge the job.
LEMMA EndShape ==
  ASSUME TypeOK, NEW i \in Instances, NEW j, NEW outcome, Ends(i, j, outcome)
  PROVE  work'[i].pc = "ack" /\ work'[i].job = j /\ work'[i].outcome = outcome
<1>1. work'[i] = [Idle EXCEPT !.pc = "ack", !.job = j, !.outcome = outcome]
  BY DEF Ends, Goes, TypeOK
<1> QED
  BY <1>1 DEF Idle

\* Every step of a worker but its last is one or the other.
LEMMA WorkerShape ==
  ASSUME TypeOK, NEW i \in Instances, WorkerStep(i), ~Ack(i)
  PROVE  Turned(i)
<1> USE DEF Working, Turned
<1>1. CASE Send(i)
  <2>1. work[i].pc = "send" /\ UNCHANGED <<config, jobs, stream, delivered, fate, dlq, pending, mishaps>>
    BY <1>1 DEF Send, At, queueVars
  <2>2. \/ UNCHANGED sent
        \/ sent' = [sent EXCEPT ![work[i].job] = @ + 1]
    BY <1>1 DEF Send, Post
  <2>3. work' = [work EXCEPT ![i] = work'[i]]
    BY <1>1 DEF Send, Goes, Ends, TypeOK
  <2>4. Moves(i) /\ work'[i].pc \in {"refs", "ack"}
    <3>1. CASE HasUpdates(i, ResultRef(i))
      <4>1. work'[i] = [work[i] EXCEPT !.pc = "refs", !.ref = ResultRef(i)]
        BY <1>1, <3>1 DEF Send, Goes, TypeOK
      <4> QED
        BY <2>1, <4>1, AtWork DEF Moves
    <3>2. CASE ~HasUpdates(i, ResultRef(i))
      BY <1>1, <2>1, <3>2, EndShape DEF Send, Moves, Verdict
    <3> QED
      BY <3>1, <3>2
  <2> QED
    BY <2>1, <2>2, <2>3, <2>4 DEF Accounts
<1>2. CASE SendFails(i)
  <2>1. work[i].pc = "send" /\ UNCHANGED <<config, jobs, stream, delivered, fate, dlq>>
    BY <1>2 DEF SendFails, At
  <2>2. CASE /\ \E permanent \in BOOLEAN : Fails(i, permanent)
             /\ UNCHANGED <<sent, mishaps>>
    <3>1. PICK permanent \in BOOLEAN : Fails(i, permanent)
      BY <2>2
    <3>2. PICK w \in Works :
            /\ work' = [work EXCEPT ![i] = w]
            /\ \/ w.pc = "failed" /\ w.job = work[i].job /\ pending' = pending
               \/ /\ w = Idle /\ pending' = pending \ {work[i].job}
                  /\ ~isMaxDeliverExceeded(work[i].attempt)
      BY <2>1, <3>1, FailsShape
    <3>3. work'[i] = w /\ work' = [work EXCEPT ![i] = work'[i]]
      BY <3>2 DEF TypeOK
    <3> QED
      BY <2>1, <2>2, <3>2, <3>3 DEF Moves, HandsBack, Accounts, Idle
  <2>3. CASE Post(i) /\ Fails(i, FALSE) /\ Fault(i, "unanswered")
    <3>2. PICK w \in Works :
            /\ work' = [work EXCEPT ![i] = w]
            /\ \/ w.pc = "failed" /\ w.job = work[i].job /\ pending' = pending
               \/ /\ w = Idle /\ pending' = pending \ {work[i].job}
                  /\ ~isMaxDeliverExceeded(work[i].attempt)
      BY <2>1, <2>3, FailsShape
    <3>3. work'[i] = w /\ work' = [work EXCEPT ![i] = work'[i]]
      BY <3>2 DEF TypeOK
    <3> QED
      BY <2>1, <2>3, <3>2, <3>3 DEF Post, Moves, HandsBack, Accounts, Idle
  <2> QED
    BY <1>2, <2>2, <2>3 DEF SendFails
<1>3. ASSUME Fails(i, FALSE), Fault(i, "unpersisted"), work[i].pc \in {"refs", "refsWrite"},
             UNCHANGED <<config, jobs, stream, delivered, fate, dlq, sent>>
      PROVE  Turned(i)
  <2>1. PICK w \in Works :
          /\ work' = [work EXCEPT ![i] = w]
          /\ \/ w.pc = "failed" /\ w.job = work[i].job /\ pending' = pending
             \/ /\ w = Idle /\ pending' = pending \ {work[i].job}
                /\ ~isMaxDeliverExceeded(work[i].attempt)
    BY <1>3, FailsShape
  <2>2. work'[i] = w /\ work' = [work EXCEPT ![i] = work'[i]]
    BY <2>1 DEF TypeOK
  <2> QED
    BY <1>3, <2>1, <2>2 DEF Moves, HandsBack, Accounts, Idle
<1>4. CASE StoreFails(i)
  BY <1>3, <1>4 DEF StoreFails, At
<1>5. ASSUME work[i].pc \in {"refs", "refsWrite"}, pending' = pending,
             work' = [work EXCEPT ![i] = work'[i]], work'[i].job = work[i].job,
             \/ work'[i].pc \in {"refs", "refsWrite"} /\ work'[i].attempt = work[i].attempt
             \/ work'[i].pc = "ack" /\ work'[i].outcome = "done",
             UNCHANGED <<config, jobs, stream, delivered, fate, dlq, sent, mishaps>>
      PROVE  Turned(i)
  BY <1>5 DEF Moves, Accounts, Verdict
<1>6. CASE ReadRefs(i)
  <2>1. /\ work[i].pc = "refs" /\ pending' = pending
        /\ work' = [work EXCEPT ![i] = work'[i]]
        /\ UNCHANGED <<config, jobs, stream, delivered, fate, dlq, sent, mishaps>>
    BY <1>6 DEF ReadRefs, At, Absent, Ends, Goes, historyVars, TypeOK
  <2>2. \/ Ends(i, work[i].job, "done")
        \/ work'[i] = [work[i] EXCEPT !.pc = "refsWrite"]
    BY <1>6 DEF ReadRefs, Absent, Goes, TypeOK
  <2> QED
    BY <1>5, <2>1, <2>2, EndShape, AtWork
<1>7. CASE WriteRefs(i)
  <2>1. /\ work[i].pc = "refsWrite"
        /\ UNCHANGED <<config, jobs, stream, delivered, fate, dlq, sent>>
    BY <1>7 DEF WriteRefs, At
  <2>2. CASE Fails(i, FALSE) /\ Fault(i, "unpersisted")
    BY <1>3, <2>1, <2>2
  <2>3. CASE /\ UNCHANGED <<pending, mishaps>>
             /\ \/ Ends(i, work[i].job, "done")
                \/ Goes(i, [work[i] EXCEPT !.pc = "refs", !.tries = @ + 1])
    <3>1. work' = [work EXCEPT ![i] = work'[i]]
      BY <2>3 DEF Ends, Goes, TypeOK
    <3>2. \/ Ends(i, work[i].job, "done")
          \/ work'[i] = [work[i] EXCEPT !.pc = "refs", !.tries = @ + 1]
      BY <2>3 DEF Goes, TypeOK
    <3> QED
      BY <1>5, <2>1, <2>3, <3>1, <3>2, EndShape, AtWork, ZenonT(30)
  <2> QED
    BY <1>7, <2>2, <2>3 DEF WriteRefs
<1>8. CASE Bury(i)
  <2>1. /\ work[i].pc = "failed"
        /\ UNCHANGED <<config, jobs, stream, delivered, fate, sent>>
        /\ work' = [work EXCEPT ![i] = work'[i]]
    BY <1>8 DEF Bury, At, Ends, Goes, Unburied, Nak, TypeOK
  <2>3. CASE /\ dlq' = dlq \cup {[job |-> work[i].job, reason |-> work[i].outcome,
                                 attempts |-> work[i].attempt]}
             /\ Ends(i, work[i].job, "dead") /\ UNCHANGED <<pending, mishaps>>
    <3>1. \E d \in dlq' : d.job = work[i].job
      <4> DEFINE letter == [job |-> work[i].job, reason |-> work[i].outcome,
                            attempts |-> work[i].attempt]
      <4>1. letter.job = work[i].job /\ letter \in dlq'
        BY <2>3
      <4> QED
        BY <4>1
    <3> QED
      BY <2>1, <2>3, <3>1, EndShape DEF Moves, Accounts, Verdict
  <2>4. CASE Fault(i, "unburied") /\ Unburied(i) /\ UNCHANGED dlq
    <3>1. work'[i] = Idle /\ pending' = pending \ {work[i].job} /\ Idle.pc = "idle"
      BY <2>4 DEF Unburied, Nak, Goes, TypeOK, Idle
    <3> QED
      BY <2>1, <2>4, <3>1 DEF HandsBack, Accounts
  <2>5. CASE ~config.DLQ /\ Ends(i, work[i].job, "discarded") /\ UNCHANGED <<pending, dlq, mishaps>>
    BY <2>1, <2>5, EndShape DEF Moves, Accounts, Verdict
  <2> QED
    BY <1>8, <2>3, <2>4, <2>5 DEF Bury
<1> QED
  BY <1>1, <1>2, <1>4, <1>6, <1>7, <1>8 DEF WorkerStep

\* A worker is given a job, with the number of the delivery.
LEMMA DeliverShape ==
  ASSUME TypeOK, NEW i \in Instances, NEW j \in Jobs, Deliver(i, j)
  PROVE  /\ work'[i].job = j /\ work'[i].pc \in {"send", "ack"}
         /\ work'[i].pc = "send" =>
              work'[i].attempt = IF config.MaxDeliver = -1 THEN 1 ELSE delivered[j] + 1
         /\ work'[i].pc = "ack" =>
              work'[i].outcome = "dropped" \/ (config.Off /\ work'[i].outcome = "muted")
         /\ \A k \in Instances \ {i} : work'[k] = work[k]
<1> DEFINE attempt == IF config.MaxDeliver = -1 THEN 1 ELSE delivered[j] + 1
           ref == IF jobs[j].ref = None THEN EntryRef(i) ELSE jobs[j].ref
<1>0. CASE OffWindow /\ Ends(i, j, "muted")
  <2>1. \A k \in Instances \ {i} : work'[k] = work[k]
    BY <1>0 DEF Ends, Goes, TypeOK
  <2>2. work'[i].pc = "ack" /\ work'[i].job = j /\ work'[i].outcome = "muted" /\ config.Off
    BY <1>0, EndShape DEF OffWindow
  <2> QED
    BY <2>1, <2>2
<1>1. CASE Ends(i, j, "dropped")
  <2>1. \A k \in Instances \ {i} : work'[k] = work[k]
    BY <1>1 DEF Ends, Goes, TypeOK
  <2>2. work'[i].pc = "ack" /\ work'[i].job = j /\ work'[i].outcome = "dropped"
    BY <1>1, EndShape
  <2> QED
    BY <2>1, <2>2
<1>2. CASE ~Ends(i, j, "dropped") /\ ~(OffWindow /\ Ends(i, j, "muted"))
  <2>1. work' = [work EXCEPT ![i] =
          [Idle EXCEPT !.pc = "send", !.job = j, !.attempt = attempt, !.ref = ref]]
    BY <1>2 DEF Deliver, Goes
  <2>2. work'[i] = [Idle EXCEPT !.pc = "send", !.job = j, !.attempt = attempt, !.ref = ref]
    BY <2>1 DEF TypeOK
  <2> HIDE DEF ref, attempt
  <2>3. /\ work'[i].job = j /\ work'[i].pc = "send" /\ work'[i].attempt = attempt
        /\ \A k \in Instances \ {i} : work'[k] = work[k]
    BY <2>1, <2>2 DEF Idle, TypeOK
  <2> QED
    BY <2>3 DEF attempt
<1> QED
  BY <1>0, <1>1, <1>2

\* The handler's steps but the publish leave queue and workers as they are.
LEMMA QuietSteps ==
  ASSUME ManagerStep, ~Enqueue
  PROVE  UNCHANGED <<config, jobs, stream, pending, delivered, dlq, work, fate, sent, mishaps>>
BY DEF ManagerStep, Raise, Repeat, Resolve, ResolveByTTL, Handle, WriteCard, DeleteCard,
       RemoveAlertState, queueVars, historyVars

\* A publish puts the notification into the queue or settles it.
LEMMA EnqueueShape ==
  ASSUME TypeOK, Enqueue
  PROVE  /\ UNCHANGED <<config, pending, delivered, dlq, work, sent, mishaps>>
         /\ Len(jobs)' = Len(jobs) + 1 /\ Len(jobs) \in Nat /\ Len(jobs) < MaxJobs
         /\ stream \subseteq stream' /\ stream' \subseteq stream \cup {Len(jobs) + 1}
         /\ \/ Len(jobs) + 1 \in stream' \/ fate'[Len(jobs) + 1] \in {{"dropped"}, {"lost"}}
            \/ config.Off /\ fate'[Len(jobs) + 1] = {"muted"}
         /\ \A k \in Jobs \ {Len(jobs) + 1} : fate'[k] = fate[k]
<1>1. /\ Len(jobs)' = Len(jobs) + 1 /\ Len(jobs) \in Nat /\ Len(jobs) < MaxJobs
      /\ Len(jobs) + 1 \in Jobs
  BY BoundsAssumption DEF Enqueue, TypeOK, Jobs
<1>2. \/ stream' = stream \cup {Len(jobs) + 1} /\ fate' = [fate EXCEPT ![Len(jobs) + 1] = {}]
      \/ /\ stream' = stream
         /\ \E end \in {{"dropped"}, {"lost"}} : fate' = [fate EXCEPT ![Len(jobs) + 1] = end]
      \/ /\ stream' = stream /\ config.Off
         /\ fate' = [fate EXCEPT ![Len(jobs) + 1] = {"muted"}]
  BY DEF Enqueue, OffWindow
<1>3. UNCHANGED <<config, pending, delivered, dlq, work, sent, mishaps>>
  BY DEF Enqueue
<1> QED
  BY <1>1, <1>2, <1>3 DEF TypeOK

-----------------------------------------------------------------------------
(* No notification vanishes.                                               *)

\* No step lets a job vanish, nor has a worker acknowledge what it must not.
LEMMA NoJobVanishesStep ==
  ASSUME TypeOK, NoJobVanishes, Verdicts, Next
  PROVE  NoJobVanishes' /\ Verdicts'
<1>1. CASE Enqueue
  <2>1. Verdicts'
    BY <1>1, EnqueueShape DEF Verdicts, Verdict, At
  <2>2. ASSUME NEW j \in 1..Len(jobs)', j \notin stream'
        PROVE  \/ fate'[j] \cap {"done", "dropped", "lost"} # {}
               \/ config'.Off /\ "muted" \in fate'[j]
               \/ \E d \in dlq' : d.job = j
               \/ ~config'.DLQ /\ "discarded" \in fate'[j]
    <3>1. CASE j = Len(jobs) + 1
      BY <1>1, <2>2, <3>1, EnqueueShape
    <3>2. CASE j # Len(jobs) + 1
      <4>1. j \in 1..Len(jobs) /\ j \in Jobs /\ j \notin stream
        BY <1>1, <2>2, <3>2, EnqueueShape, BoundsAssumption DEF Jobs
      <4> QED
        BY <1>1, <3>2, <4>1, EnqueueShape DEF NoJobVanishes
    <3> QED
      BY <3>1, <3>2
  <2>3. NoJobVanishes'
    BY <2>2 DEF NoJobVanishes
  <2> QED
    BY <2>1, <2>3
<1>2. ASSUME UNCHANGED <<config, jobs, stream, fate>>, dlq \subseteq dlq',
             \A i \in Instances : work'[i] # work[i] /\ work'[i].pc = "ack" => Verdict(work'[i], dlq')
      PROVE  NoJobVanishes' /\ Verdicts'
  BY <1>2 DEF NoJobVanishes, Verdicts, Verdict, At
<1>3. CASE ManagerStep /\ ~Enqueue
  BY <1>2, <1>3, QuietSteps
<1>4. ASSUME NEW i \in Instances, WorkerStep(i), ~Ack(i) PROVE NoJobVanishes' /\ Verdicts'
  <2>1. Turned(i)
    BY <1>4, WorkerShape
  <2>2. work'[i].pc = "ack" => Verdict(work'[i], dlq')
    BY <2>1 DEF Turned, Moves, HandsBack, Idle
  <2>3. \A k \in Instances \ {i} : work'[k] = work[k]
    BY <2>1 DEF Turned, TypeOK
  <2> QED
    BY <1>2, <2>1, <2>2, <2>3 DEF Turned
<1>5. ASSUME NEW i \in Instances, Ack(i) PROVE NoJobVanishes' /\ Verdicts'
  <2>1. /\ work[i].pc = "ack" /\ Verdict(work[i], dlq)
        /\ UNCHANGED <<config, jobs, dlq>> /\ stream' = stream \ {work[i].job}
        /\ fate' = [fate EXCEPT ![work[i].job] = @ \cup {work[i].outcome}]
        /\ work' = [work EXCEPT ![i] = Idle]
    BY <1>5 DEF Ack, At, Verdicts, Goes, alertVars
  <2>2. Verdicts'
    BY <2>1 DEF Verdicts, Verdict, At, TypeOK, Idle
  <2>3. ASSUME NEW j \in 1..Len(jobs), j \notin stream'
        PROVE  \/ fate'[j] \cap {"done", "dropped", "lost"} # {}
               \/ config.Off /\ "muted" \in fate'[j]
               \/ \E d \in dlq : d.job = j
               \/ ~config.DLQ /\ "discarded" \in fate'[j]
    <3>1. j \in Jobs
      BY BoundsAssumption DEF TypeOK, Jobs
    <3>2. CASE j = work[i].job
      <4>1. work[i].outcome \in fate'[j]
        BY <2>1, <3>1, <3>2 DEF TypeOK
      <4> QED
        BY <2>1, <3>2, <4>1 DEF Verdict
    <3>3. CASE j # work[i].job
      BY <2>1, <2>3, <3>1, <3>3 DEF NoJobVanishes, TypeOK
    <3> QED
      BY <3>2, <3>3
  <2> QED
    BY <2>1, <2>2, <2>3 DEF NoJobVanishes
<1>6. ASSUME NEW i \in Instances, NEW j \in Jobs, Deliver(i, j) PROVE NoJobVanishes' /\ Verdicts'
  <2>1. UNCHANGED <<config, jobs, stream, fate, dlq>>
    BY <1>6 DEF Deliver, historyVars
  <2>2. /\ work'[i].pc = "ack" =>
             work'[i].outcome = "dropped" \/ (config.Off /\ work'[i].outcome = "muted")
        /\ \A k \in Instances \ {i} : work'[k] = work[k]
    BY <1>6, DeliverShape
  <2> QED
    BY <1>2, <2>1, <2>2 DEF Verdict
<1>7. ASSUME NEW i \in Instances, Crash(i) PROVE NoJobVanishes' /\ Verdicts'
  <2>1. UNCHANGED <<config, jobs, stream, fate, dlq>> /\ work' = [work EXCEPT ![i] = Idle]
    BY <1>7 DEF Crash, Goes, queueVars, historyVars
  <2> QED
    BY <1>2, <2>1 DEF TypeOK, Idle
<1>8. ASSUME NEW j \in Jobs, Expire(j) PROVE NoJobVanishes' /\ Verdicts'
  BY <1>2, <1>8 DEF Expire
<1> QED
  BY <1>1, <1>3, <1>4, <1>5, <1>6, <1>7, <1>8, InstancesAssumption DEF Next, ManagerStep

-----------------------------------------------------------------------------
(* A job in the queue has one worker.                                      *)

\* What is not made yet is neither delivered nor sent.
LEMMA FreshStep ==
  ASSUME TypeOK, Fresh, Next
  PROVE  Fresh'
<1>1. CASE Enqueue
  <2>1. UNCHANGED <<delivered, sent>> /\ Len(jobs)' = Len(jobs) + 1 /\ Len(jobs) \in Nat
    BY <1>1, EnqueueShape
  <2> QED
    BY <2>1 DEF Fresh, Jobs
<1>2. CASE ManagerStep /\ ~Enqueue
  BY <1>2, QuietSteps DEF Fresh
<1>3. ASSUME NEW i \in Instances, WorkerStep(i), ~Ack(i) PROVE Fresh'
  <2>1. work[i].job \in 1..Len(jobs) /\ Turned(i)
    BY <1>3, WorkerShape, AtWork DEF Turned
  <2>2. \A j \in Jobs : j > Len(jobs) => sent'[j] = sent[j]
    <3>1. sent \in [Jobs -> Nat] /\ Len(jobs) \in Nat
      BY DEF TypeOK
    <3> QED
      BY <2>1, <3>1, BoundsAssumption DEF Turned, Accounts, Jobs
  <2> QED
    BY <2>1, <2>2 DEF Turned, Fresh
<1>4. ASSUME NEW i \in Instances, Ack(i) PROVE Fresh'
  BY <1>4 DEF Ack, Fresh, TypeOK
<1>5. ASSUME NEW i \in Instances, NEW j \in Jobs, Deliver(i, j) PROVE Fresh'
  <2>1. /\ j \in 1..Len(jobs) /\ \A k \in Jobs \ {j} : delivered'[k] = delivered[k]
        /\ UNCHANGED <<jobs, sent>>
    BY <1>5 DEF Deliver, TypeOK, historyVars
  <2> QED
    BY <2>1 DEF Fresh, TypeOK
<1>6. ASSUME NEW i \in Instances, Crash(i) PROVE Fresh'
  BY <1>6 DEF Crash, Fresh, queueVars, historyVars
<1>7. ASSUME NEW j \in Jobs, Expire(j) PROVE Fresh'
  BY <1>7 DEF Expire, Fresh
<1> QED
  BY <1>1, <1>2, <1>3, <1>4, <1>5, <1>6, <1>7, InstancesAssumption DEF Next, ManagerStep

\* A step that leaves a job to its worker, or takes the worker off it, keeps it held once.
LEMMA HeldOnceKept ==
  ASSUME TypeOK, NEW j \in Jobs, HeldOnce(j), UNCHANGED config,
         j \in stream' <=> j \in stream, j \in pending' <=> j \in pending,
         delivered'[j] = delivered[j],
         \A i \in Instances : work'[i].job = j =>
           /\ work[i].job = j
           /\ work'[i].pc \in Working =>
                work[i].pc \in Working /\ work'[i].attempt = work[i].attempt
  PROVE  HeldOnce(j)'
BY DEF HeldOnce, MayDeliver, Working

\* Faults only add up.
LEMMA UntroubledBefore ==
  ASSUME TypeOK, NEW j \in Jobs, Untroubled(j)',
         mishaps' = mishaps \/ \E k \in Jobs, m \in Mishap : mishaps' = [mishaps EXCEPT ![k][m] = @ + 1]
  PROVE  Untroubled(j)
<1>1. CASE mishaps' = mishaps
  BY <1>1 DEF Untroubled
<1>2. ASSUME NEW k \in Jobs, NEW m \in Mishap, mishaps' = [mishaps EXCEPT ![k][m] = @ + 1]
      PROVE  Untroubled(j)
  <2>1. \A n \in Mishap : mishaps[j][n] \in Nat /\ mishaps[j][n] <= mishaps'[j][n]
    <3>1. /\ \A l \in Jobs \ {k} : mishaps'[l] = mishaps[l]
          /\ mishaps'[k][m] = mishaps[k][m] + 1
          /\ \A n \in Mishap \ {m} : mishaps'[k][n] = mishaps[k][n]
          /\ \A l \in Jobs, n \in Mishap : mishaps[l][n] \in Nat
      BY <1>2, MishapCounts
    <3>2. ASSUME NEW n \in Mishap PROVE mishaps[j][n] \in Nat /\ mishaps[j][n] <= mishaps'[j][n]
      <4>1. mishaps[j][n] \in Nat
        BY <3>1
      <4>2. mishaps'[j][n] \in {mishaps[j][n], mishaps[j][n] + 1}
        BY <3>1
      <4> QED
        BY <4>1, <4>2
    <3> QED
      BY <3>2
  <2>2. mishaps'[j]["expired"] = 0 /\ mishaps'[j]["unburied"] = 0
    BY DEF Untroubled
  <2> QED
    BY <2>1, <2>2 DEF Untroubled, Mishap
<1> QED
  BY <1>1, <1>2

\* A job's only worker hands it back before its last delivery, or makes it a troubled one.
LEMMA OneHolderTurned ==
  ASSUME TypeOK, OneHolder, NEW i \in Instances, Turned(i)
  PROVE  OneHolder'
<1> DEFINE job == work[i].job
<1>1. /\ job \in Jobs /\ UNCHANGED <<config, stream, delivered>>
      /\ \A k \in Instances \ {i} : work'[k] = work[k]
  BY AtWork DEF Turned, TypeOK
<1>2. mishaps' = mishaps \/ \E m \in Mishap : mishaps' = [mishaps EXCEPT ![job][m] = @ + 1]
  BY DEF Turned, Accounts, Fault, Mishap
<1> SUFFICES ASSUME NEW j \in Jobs, Untroubled(j)' PROVE HeldOnce(j)'
  BY DEF OneHolder
<1>3. Untroubled(j) /\ HeldOnce(j)
  BY <1>1, <1>2, UntroubledBefore DEF OneHolder
<1>4. CASE Moves(i)
  BY <1>1, <1>3, <1>4, HeldOnceKept DEF Moves, Working
<1>5. CASE HandsBack(i) /\ j # job
  <2>1. work'[i].job = 0 /\ j # 0 /\ (j \in pending' <=> j \in pending)
    BY <1>5 DEF HandsBack, Idle, Jobs
  <2> QED
    BY <1>1, <1>3, <2>1, HeldOnceKept
<1>6. CASE HandsBack(i) /\ j = job
  <2>1. ~Fault(i, "unburied")
    BY <1>1, <1>6, MishapCounts DEF Fault, Untroubled, Mishap, TypeOK
  <2>2. work[i].pc \in Working /\ ~isMaxDeliverExceeded(work[i].attempt)
    BY <1>6, <2>1 DEF HandsBack
  <2>3. /\ config.MaxDeliver # -1 => work[i].attempt = delivered[j]
        /\ \A k \in Instances : work[k].job = j => k = i
    BY <1>3, <1>6, <2>2 DEF HeldOnce, Working
  <2>4. work'[i].job # j
    BY <1>6 DEF HandsBack, Idle, Jobs
  <2>5. config.MaxDeliver \in Int /\ (config.MaxDeliver = -1 \/ config.MaxDeliver > 0)
    BY ConfigsAssumption DEF TypeOK, QueueConfig
  <2>6. config.MaxDeliver = -1 \/ delivered[j] < config.MaxDeliver
    BY <2>2, <2>3, <2>5 DEF isMaxDeliverExceeded, TypeOK
  <2> QED
    BY <1>1, <1>6, <2>3, <2>4, <2>6 DEF HeldOnce, MayDeliver
<1> QED
  BY <1>4, <1>5, <1>6 DEF Turned

\* Every step keeps an untroubled job in one worker's hands at most.
LEMMA OneHolderStep ==
  ASSUME TypeOK, Fresh, OneHolder, Next
  PROVE  OneHolder'
<1>1. CASE Enqueue
  <2>1. /\ UNCHANGED <<config, pending, delivered, work, mishaps>>
        /\ Len(jobs) \in Nat /\ stream \subseteq stream' /\ stream' \subseteq stream \cup {Len(jobs) + 1}
    BY <1>1, EnqueueShape
  <2>2. ASSUME NEW j \in Jobs, Untroubled(j)', j # Len(jobs) + 1 PROVE HeldOnce(j)'
    BY <2>1, <2>2, HeldOnceKept DEF OneHolder, Untroubled
  <2>3. ASSUME NEW j \in Jobs, j = Len(jobs) + 1 PROVE HeldOnce(j)'
    <3>1. delivered[j] = 0 /\ \A i \in Instances : work[i].job # j
      BY <2>1, <2>3 DEF Fresh, TypeOK, Works, Idle
    <3>2. MayDeliver(j)'
      BY <2>1, <3>1, ConfigsAssumption DEF MayDeliver, TypeOK, QueueConfig
    <3> QED
      BY <2>1, <3>1, <3>2 DEF HeldOnce
  <2> QED
    BY <2>2, <2>3 DEF OneHolder
<1>2. CASE ManagerStep /\ ~Enqueue
  BY <1>2, QuietSteps DEF OneHolder, HeldOnce, Untroubled, MayDeliver
<1>3. ASSUME NEW i \in Instances, WorkerStep(i), ~Ack(i) PROVE OneHolder'
  BY <1>3, WorkerShape, OneHolderTurned
<1>4. ASSUME NEW i \in Instances, Ack(i) PROVE OneHolder'
  <2> DEFINE job == work[i].job
  <2>1. /\ stream' = stream \ {job} /\ pending' = pending \ {job} /\ UNCHANGED <<config, mishaps>>
        /\ delivered' = [delivered EXCEPT ![job] = 0] /\ work' = [work EXCEPT ![i] = Idle]
        /\ work[i].pc = "ack"
    BY <1>4 DEF Ack, At, Goes
  <2>2. /\ work'[i].job = 0 /\ 0 \notin Jobs /\ \A k \in Instances \ {i} : work'[k] = work[k]
    BY <2>1 DEF TypeOK, Idle, Jobs
  <2>3. ASSUME NEW j \in Jobs, Untroubled(j)' PROVE HeldOnce(j)'
    <3>1. HeldOnce(j)
      BY <2>1, <2>3 DEF OneHolder, Untroubled
    <3>2. CASE j = job
      BY <2>1, <2>2, <3>1, <3>2 DEF HeldOnce
    <3>3. CASE j # job
      BY <2>1, <2>2, <3>1, <3>3, HeldOnceKept DEF TypeOK
    <3> QED
      BY <3>2, <3>3
  <2> QED
    BY <2>3 DEF OneHolder
<1>5. ASSUME NEW i \in Instances, NEW j \in Jobs, Deliver(i, j) PROVE OneHolder'
  <2> DEFINE attempt == IF config.MaxDeliver = -1 THEN 1 ELSE delivered[j] + 1
  <2>1. /\ work[i].pc = "idle" /\ j \in stream \ pending
        /\ pending' = pending \cup {j} /\ delivered' = [delivered EXCEPT ![j] = attempt]
        /\ UNCHANGED <<config, stream, mishaps>>
    BY <1>5 DEF Deliver, At, historyVars
  <2>2. /\ work'[i].job = j /\ work'[i].pc \in {"send", "ack"}
        /\ work'[i].pc = "send" => work'[i].attempt = attempt
        /\ \A k \in Instances \ {i} : work'[k] = work[k]
    BY <1>5, DeliverShape
  <2>3. work[i].job = 0 /\ 0 \notin Jobs /\ delivered'[j] = attempt
    <3>1. work[i] \in Works /\ delivered \in [Jobs -> Nat]
      BY DEF TypeOK
    <3>2. work[i].job = 0
      BY <2>1, <3>1 DEF Works, Idle
    <3>3. 0 \notin Jobs
      BY DEF Jobs
    <3> HIDE DEF attempt
    <3>4. delivered'[j] = attempt
      BY <2>1, <3>1, Zenon
    <3> QED
      BY <3>2, <3>3, <3>4
  <2>4. ASSUME NEW k \in Jobs, Untroubled(k)' PROVE HeldOnce(k)'
    <3>1. HeldOnce(k)
      BY <2>1, <2>4 DEF OneHolder, Untroubled
    <3>2. CASE k = j
      <4>1. \A l \in Instances : work[l].job # j
        BY <2>1, <3>1, <3>2 DEF HeldOnce
      <4> QED
        BY <2>1, <2>2, <2>3, <3>2, <4>1 DEF HeldOnce
    <3>3. CASE k # j
      BY <2>1, <2>2, <3>1, <3>3, HeldOnceKept DEF TypeOK
    <3> QED
      BY <3>2, <3>3
  <2> QED
    BY <2>4 DEF OneHolder
<1>6. ASSUME NEW i \in Instances, Crash(i) PROVE OneHolder'
  <2>1. /\ UNCHANGED <<config, stream, pending, delivered, mishaps>>
        /\ work'[i].job = 0 /\ 0 \notin Jobs /\ \A k \in Instances \ {i} : work'[k] = work[k]
    BY <1>6 DEF Crash, Goes, queueVars, historyVars, TypeOK, Idle, Jobs
  <2> QED
    BY <2>1, HeldOnceKept DEF OneHolder, Untroubled
<1>7. ASSUME NEW j \in Jobs, Expire(j) PROVE OneHolder'
  <2>1. /\ UNCHANGED <<config, stream, delivered, work>> /\ pending' = pending \ {j}
        /\ mishaps' = [mishaps EXCEPT ![j]["expired"] = @ + 1]
    BY <1>7 DEF Expire
  <2>2. ~Untroubled(j)'
    <3>1. mishaps'[j]["expired"] = mishaps[j]["expired"] + 1 /\ mishaps[j]["expired"] \in Nat
      BY <2>1, MishapCounts DEF Mishap
    <3> QED
      BY <3>1 DEF Untroubled
  <2>3. ASSUME NEW k \in Jobs, Untroubled(k)' PROVE HeldOnce(k)'
    <3>1. k # j /\ Untroubled(k)
      BY <2>1, <2>2, <2>3, UntroubledBefore DEF Mishap
    <3> QED
      BY <2>1, <3>1, HeldOnceKept DEF OneHolder
  <2> QED
    BY <2>3 DEF OneHolder
<1> QED
  BY <1>1, <1>2, <1>3, <1>4, <1>5, <1>6, <1>7, InstancesAssumption DEF Next, ManagerStep

-----------------------------------------------------------------------------
(* A job is sent again for a cause.                                        *)

Hand(i, j) == IF work[i].job = j /\ work[i].pc \in {"send", "failed"} THEN 1 ELSE 0

\* A step of one worker changes the number of a job's hands by its own.
LEMMA HandsCount ==
  ASSUME NEW i \in Instances, NEW j \in Jobs, \A k \in Instances \ {i} : work'[k] = work[k]
  PROVE  /\ Cardinality(InHand(j)) \in Nat /\ Cardinality(InHand(j))' \in Nat
         /\ Cardinality(InHand(j))' + Hand(i, j) = Cardinality(InHand(j)) + Hand(i, j)'
<1> DEFINE rest == InHand(j) \ {i}
<1>1. InHand(j)' \ {i} = rest
  BY DEF InHand
<1>2. IsFiniteSet(rest)
  BY FS_Subset, InstancesAssumption DEF InHand
<1>3. Cardinality(rest) \in Nat /\ Cardinality(rest \cup {i}) = Cardinality(rest) + 1
  BY <1>2, FS_AddElement, FS_CardinalityType
<1>4. InHand(j) = IF Hand(i, j) = 1 THEN rest \cup {i} ELSE rest
  BY DEF InHand, Hand
<1>5. InHand(j)' = IF Hand(i, j)' = 1 THEN rest \cup {i} ELSE rest
  BY <1>1 DEF InHand, Hand
<1>6. Hand(i, j) \in {0, 1} /\ Hand(i, j)' \in {0, 1}
  BY DEF Hand
<1>7. Cardinality(InHand(j)) = Cardinality(rest) + Hand(i, j)
  BY <1>3, <1>4, <1>6
<1>8. Cardinality(InHand(j))' = Cardinality(rest) + Hand(i, j)'
  BY <1>3, <1>5, <1>6
<1> HIDE DEF rest
<1> QED
  BY <1>3, <1>6, <1>7, <1>8

\* A mishap excuses one more message, but for a refused dead letter.
LEMMA ExcusesCount ==
  ASSUME TypeOK, NEW j \in Jobs, NEW m \in Mishap, mishaps' = [mishaps EXCEPT ![j][m] = @ + 1]
  PROVE  /\ \A k \in Jobs \ {j} : Excuses(k)' = Excuses(k)
         /\ Excuses(j)' = Excuses(j) + IF m = "unburied" THEN 0 ELSE 1
<1>1. /\ \A k \in Jobs \ {j} : mishaps'[k] = mishaps[k]
      /\ mishaps'[j][m] = mishaps[j][m] + 1
      /\ \A n \in Mishap \ {m} : mishaps'[j][n] = mishaps[j][n]
      /\ \A k \in Jobs, n \in Mishap : mishaps[k][n] \in Nat
  BY MishapCounts
<1> QED
  BY <1>1 DEF Excuses, Mishap

\* Messages, chances and excuses are numbers.
LEMMA ChanceTypes ==
  ASSUME TypeOK, NEW j \in Jobs
  PROVE  sent[j] \in Nat /\ Chance(j) \in {0, 1} /\ Excuses(j) \in Nat
BY DEF TypeOK, Chance, Excuses, Mishap

\* What a step with one job adds in messages and chances must be excused.
LEMMA Balance ==
  ASSUME TypeOK, TypeOK', ChancesExcused, NEW i \in Instances, NEW job \in Jobs,
         \A k \in Instances \ {i} : work'[k] = work[k],
         work[i].job \in {job, 0}, work'[i].job \in {job, 0},
         \A j \in Jobs \ {job} : sent'[j] = sent[j] /\ Chance(j)' = Chance(j) /\ Excuses(j)' = Excuses(j),
         sent'[job] + Hand(i, job)' + Chance(job)' + Excuses(job)
           <= sent[job] + Hand(i, job) + Chance(job) + Excuses(job)'
  PROVE  ChancesExcused'
<1> SUFFICES ASSUME NEW j \in Jobs
             PROVE  sent'[j] + Cardinality(InHand(j))' + Chance(j)' <= 1 + Excuses(j)'
  BY DEF ChancesExcused
<1>1. /\ Cardinality(InHand(j)) \in Nat /\ Cardinality(InHand(j))' \in Nat
      /\ Cardinality(InHand(j))' + Hand(i, j) = Cardinality(InHand(j)) + Hand(i, j)'
  BY HandsCount
<1>2. sent[j] + Cardinality(InHand(j)) + Chance(j) <= 1 + Excuses(j)
  BY DEF ChancesExcused
<1>3. /\ sent[j] \in Nat /\ Chance(j) \in {0, 1} /\ Excuses(j) \in Nat
      /\ sent'[j] \in Nat /\ Chance(j)' \in {0, 1} /\ Excuses(j)' \in Nat
  <2>1. sent[j] \in Nat /\ Chance(j) \in {0, 1} /\ Excuses(j) \in Nat
    BY ChanceTypes
  <2>2. sent'[j] \in Nat /\ Chance(j)' \in {0, 1} /\ Excuses(j)' \in Nat
    <3>1. sent' \in [Jobs -> Nat] /\ mishaps' \in [Jobs -> [Mishap -> Nat]]
      BY DEF TypeOK, Jobs
    <3>2. Chance(j)' \in {0, 1}
      BY DEF Chance
    <3>3. Excuses(j)' \in Nat
      <4>1. mishaps'[j] \in [Mishap -> Nat]
        BY <3>1
      <4> QED
        BY <4>1 DEF Excuses, Mishap
    <3> QED
      BY <3>1, <3>2, <3>3
  <2> QED
    BY <2>1, <2>2
<1>4. Hand(i, j) \in {0, 1} /\ Hand(i, j)' \in {0, 1}
  BY DEF Hand
<1>5. CASE j # job
  <2>1. Hand(i, j) = 0 /\ Hand(i, j)' = 0
    BY <1>5 DEF Hand, Jobs
  <2> QED
    BY <1>1, <1>2, <1>3, <1>5, <2>1
<1>6. CASE j = job
  BY <1>1, <1>2, <1>3, <1>4, <1>6
<1> QED
  BY <1>5, <1>6

\* A worker's turn adds no message and no chance without an excuse.
LEMMA ChancesTurned ==
  ASSUME TypeOK, TypeOK', ChancesExcused, NEW i \in Instances, Turned(i)
  PROVE  ChancesExcused'
<1>0. PICK job \in Jobs : job = work[i].job
  BY AtWork DEF Turned
<1>1. /\ UNCHANGED <<stream>> /\ job # 0
      /\ \A k \in Instances \ {i} : work'[k] = work[k]
      /\ pending' \in {pending, pending \ {job}} /\ pending \subseteq stream
  BY <1>0 DEF Turned, TypeOK, Moves, HandsBack, Jobs
<1>2. work'[i].job \in {job, 0}
  BY <1>0 DEF Turned, Moves, HandsBack, Idle
<1>3. \A j \in Jobs \ {job} : sent'[j] = sent[j] /\ Chance(j)' = Chance(j) /\ Excuses(j)' = Excuses(j)
  <2>1. \A j \in Jobs \ {job} : sent'[j] = sent[j]
    BY <1>0 DEF Turned, Accounts, TypeOK
  <2>2. \A j \in Jobs \ {job} : Chance(j)' = Chance(j)
    BY <1>1 DEF Chance
  <2>3. mishaps' = mishaps \/ \E m \in Mishap : mishaps' = [mishaps EXCEPT ![job][m] = @ + 1]
    BY <1>0 DEF Turned, Accounts, Fault, Mishap
  <2>4. \A j \in Jobs \ {job} : Excuses(j)' = Excuses(j)
    BY <1>1, <2>3, ExcusesCount DEF Excuses
  <2> QED
    BY <2>1, <2>2, <2>4
\* Either the worker lets the job go on its way, or back into the queue.
<1>4. \/ Chance(job)' = Chance(job)
      \/ Hand(i, job)' = 0 /\ work'[i].pc = "idle"
  BY <1>0, <1>1 DEF Turned, Moves, HandsBack, Hand, Chance, Idle, Jobs
<1>5. /\ Chance(job) \in {0, 1} /\ Chance(job)' \in {0, 1}
      /\ Hand(i, job) \in {0, 1} /\ Hand(i, job)' \in {0, 1}
      /\ sent[job] \in Nat /\ Excuses(job) \in Nat
      /\ Hand(i, job) = 1 <=> work[i].pc \in {"send", "failed"}
      /\ Hand(i, job)' = 1 => work'[i].pc \in {"send", "failed"}
  BY <1>0, <1>1, ChanceTypes DEF Chance, Hand
<1>6. sent'[job] + Hand(i, job)' + Chance(job)' + Excuses(job)
        <= sent[job] + Hand(i, job) + Chance(job) + Excuses(job)'
  <2>0. \A m \in Mishap : Fault(i, m) => Excuses(job)' = Excuses(job) + IF m = "unburied" THEN 0 ELSE 1
    BY <1>0, ExcusesCount DEF Fault
  <2>1. CASE UNCHANGED <<sent, mishaps>> /\ (work'[i].pc \in {"failed", "idle"} => work[i].pc = "send")
    <3>1. Excuses(job)' = Excuses(job) /\ sent'[job] = sent[job]
      BY <2>1 DEF Excuses
    <3>2. Hand(i, job)' = 1 => work'[i].pc = "failed"
      BY <1>5 DEF Turned, Moves, HandsBack, Idle
    <3> QED
      BY <1>4, <1>5, <2>1, <3>1, <3>2
  <2>2. CASE work[i].pc = "send" /\ sent' = [sent EXCEPT ![work[i].job] = @ + 1]
             /\ \/ Fault(i, "unanswered")
                \/ UNCHANGED mishaps /\ work'[i].pc \in {"refs", "ack"}
    <3>1. sent'[job] = sent[job] + 1 /\ Hand(i, job) = 1
      BY <1>0, <1>5, <2>2 DEF TypeOK
    <3>2. CASE Fault(i, "unanswered")
      <4>1. Excuses(job)' = Excuses(job) + 1
        BY <2>0, <3>2 DEF Mishap
      <4> QED
        BY <1>4, <1>5, <3>1, <4>1
    <3>3. CASE UNCHANGED mishaps /\ work'[i].pc \in {"refs", "ack"}
      <4>1. Excuses(job)' = Excuses(job) /\ Hand(i, job)' = 0
        BY <1>5, <3>3 DEF Excuses
      <4> QED
        BY <1>4, <1>5, <3>1, <3>3, <4>1
    <3> QED
      BY <2>2, <3>2, <3>3
  <2>3. CASE UNCHANGED sent /\ Fault(i, "unpersisted")
    <3>1. Excuses(job)' = Excuses(job) + 1 /\ sent'[job] = sent[job]
      BY <2>0, <2>3 DEF Mishap
    <3> QED
      BY <1>4, <1>5, <3>1
  <2>4. CASE UNCHANGED sent /\ Fault(i, "unburied") /\ work[i].pc = "failed" /\ work'[i] = Idle
    <3>1. Excuses(job)' = Excuses(job) /\ sent'[job] = sent[job] /\ Hand(i, job) = 1
      BY <1>5, <2>0, <2>4 DEF Mishap
    <3>2. Hand(i, job)' = 0
      BY <1>5, <2>4 DEF Idle
    <3> QED
      BY <1>5, <3>1, <3>2
  <2>5. Accounts(i)
    BY DEF Turned
  <2> QED
    BY <2>1, <2>2, <2>3, <2>4, <2>5 DEF Accounts
<1> QED
  BY <1>0, <1>1, <1>2, <1>3, <1>6, Balance

\* No step does.
LEMMA ChancesStep ==
  ASSUME TypeOK, TypeOK', Fresh, ChancesExcused, Next
  PROVE  ChancesExcused'
<1>1. CASE Enqueue
  <2>1. /\ UNCHANGED <<pending, work, sent, mishaps>>
        /\ Len(jobs) \in Nat /\ stream \subseteq stream' /\ stream' \subseteq stream \cup {Len(jobs) + 1}
    BY <1>1, EnqueueShape
  <2>2. ASSUME NEW j \in Jobs
        PROVE  sent'[j] + Cardinality(InHand(j))' + Chance(j)' <= 1 + Excuses(j)'
    <3>1. InHand(j)' = InHand(j) /\ Excuses(j)' = Excuses(j) /\ sent'[j] = sent[j]
      BY <2>1 DEF InHand, Excuses
    <3>2. CASE j = Len(jobs) + 1
      <4>1. InHand(j) = {} /\ sent[j] = 0
        BY <2>1, <3>2 DEF InHand, Fresh, TypeOK, Works, Idle
      <4>2. Cardinality(InHand(j))' = 0
        BY <3>1, <4>1, FS_EmptySet
      <4>3. Chance(j)' \in {0, 1} /\ Excuses(j) \in Nat
        BY ChanceTypes DEF Chance
      <4> QED
        BY <3>1, <4>1, <4>2, <4>3
    <3>3. CASE j # Len(jobs) + 1
      <4>1. Chance(j)' = Chance(j)
        BY <2>1, <3>3 DEF Chance
      <4> QED
        BY <3>1, <4>1 DEF ChancesExcused
    <3> QED
      BY <3>2, <3>3
  <2> QED
    BY <2>2 DEF ChancesExcused
<1>2. CASE ManagerStep /\ ~Enqueue
  BY <1>2, QuietSteps DEF ChancesExcused, InHand, Chance, Excuses
<1>3. ASSUME NEW i \in Instances, WorkerStep(i), ~Ack(i) PROVE ChancesExcused'
  BY <1>3, WorkerShape, ChancesTurned
<1>4. ASSUME NEW i \in Instances, Ack(i) PROVE ChancesExcused'
  <2>0. PICK job \in Jobs : job = work[i].job
    BY <1>4, AtWork DEF Ack, At
  <2>1. /\ work[i].pc = "ack" /\ stream' = stream \ {job} /\ pending' = pending \ {job}
        /\ UNCHANGED <<sent, mishaps>> /\ work' = [work EXCEPT ![i] = Idle]
    BY <1>4, <2>0 DEF Ack, At, Goes
  <2>2. /\ work'[i].job = 0 /\ \A k \in Instances \ {i} : work'[k] = work[k]
        /\ work'[i].pc = "idle"
    BY <2>1 DEF TypeOK, Idle
  <2>3. \A j \in Jobs \ {job} : Chance(j)' = Chance(j)
    BY <2>1 DEF Chance
  <2>4. \A j \in Jobs : Excuses(j)' = Excuses(j)
    BY <2>1 DEF Excuses
  <2>5. Chance(job)' = 0 /\ Hand(i, job) = 0 /\ Hand(i, job)' = 0
    BY <2>1, <2>2 DEF Chance, Hand
  <2>6. sent[job] \in Nat /\ Chance(job) \in {0, 1} /\ Excuses(job) \in Nat
    BY ChanceTypes
  <2> QED
    BY <2>0, <2>1, <2>2, <2>3, <2>4, <2>5, <2>6, Balance
<1>5. ASSUME NEW i \in Instances, NEW j \in Jobs, Deliver(i, j) PROVE ChancesExcused'
  <2>1. /\ work[i].pc = "idle" /\ j \in stream \ pending /\ pending' = pending \cup {j}
        /\ UNCHANGED <<stream, sent, mishaps>>
    BY <1>5 DEF Deliver, At, historyVars
  <2>2. work'[i].job = j /\ \A k \in Instances \ {i} : work'[k] = work[k]
    BY <1>5, DeliverShape
  <2>3. work[i].job = 0
    <3>1. work[i] \in Works
      BY DEF TypeOK
    <3> QED
      BY <2>1, <3>1 DEF Works, Idle
  <2>4. \A k \in Jobs \ {j} : Chance(k)' = Chance(k)
    BY <2>1 DEF Chance
  <2>5. \A k \in Jobs : Excuses(k)' = Excuses(k)
    BY <2>1 DEF Excuses
  <2>6. /\ Chance(j)' = 0 /\ Chance(j) = 1 /\ Hand(i, j)' \in {0, 1} /\ Hand(i, j) = 0
    BY <2>1 DEF Chance, Hand
  <2>7. sent[j] \in Nat /\ Excuses(j) \in Nat
    BY ChanceTypes
  <2> QED
    BY <2>1, <2>2, <2>3, <2>4, <2>5, <2>6, <2>7, Balance
<1>6. ASSUME NEW i \in Instances, Crash(i) PROVE ChancesExcused'
  <2>1. /\ UNCHANGED <<stream, pending, sent, mishaps>>
        /\ work'[i] = Idle /\ \A k \in Instances \ {i} : work'[k] = work[k]
    BY <1>6 DEF Crash, Goes, queueVars, historyVars, TypeOK
  <2>2. ASSUME NEW j \in Jobs
        PROVE  sent'[j] + Cardinality(InHand(j))' + Chance(j)' <= 1 + Excuses(j)'
    <3>1. /\ Cardinality(InHand(j)) \in Nat /\ Cardinality(InHand(j))' \in Nat
          /\ Cardinality(InHand(j))' + Hand(i, j) = Cardinality(InHand(j)) + Hand(i, j)'
      BY <2>1, HandsCount
    <3>2. Hand(i, j)' = 0 /\ Hand(i, j) \in {0, 1}
      BY <2>1 DEF Hand, Idle
    <3>3. sent[j] \in Nat /\ Chance(j) \in {0, 1} /\ Excuses(j) \in Nat
      BY ChanceTypes
    <3>4. sent'[j] = sent[j] /\ Chance(j)' = Chance(j) /\ Excuses(j)' = Excuses(j)
      BY <2>1 DEF Chance, Excuses
    <3>5. sent[j] + Cardinality(InHand(j)) + Chance(j) <= 1 + Excuses(j)
      BY DEF ChancesExcused
    <3> QED
      BY <3>1, <3>2, <3>3, <3>4, <3>5
  <2> QED
    BY <2>2 DEF ChancesExcused
<1>7. ASSUME NEW j \in Jobs, Expire(j) PROVE ChancesExcused'
  <2>1. /\ UNCHANGED <<stream, work, sent>> /\ pending' = pending \ {j} /\ j \in pending
        /\ mishaps' = [mishaps EXCEPT ![j]["expired"] = @ + 1]
    BY <1>7 DEF Expire
  <2>2. /\ \A k \in Jobs \ {j} : Excuses(k)' = Excuses(k)
        /\ Excuses(j)' = Excuses(j) + 1
    BY <2>1, ExcusesCount DEF Mishap
  <2>3. ASSUME NEW k \in Jobs
        PROVE  sent'[k] + Cardinality(InHand(k))' + Chance(k)' <= 1 + Excuses(k)'
    <3>1. InHand(k)' = InHand(k) /\ sent'[k] = sent[k]
      BY <2>1 DEF InHand
    <3>2. /\ sent[k] \in Nat /\ Chance(k) \in {0, 1} /\ Excuses(k) \in Nat /\ Chance(k)' \in {0, 1}
      BY ChanceTypes DEF Chance
    <3>3. sent[k] + Cardinality(InHand(k)) + Chance(k) <= 1 + Excuses(k)
      BY DEF ChancesExcused
    <3>4. Cardinality(InHand(k)) \in Nat
      <4>1. IsFiniteSet(InHand(k))
        BY FS_Subset, InstancesAssumption DEF InHand
      <4> QED
        BY <4>1, FS_CardinalityType
    <3>5. CASE k = j
      <4>1. Chance(k) = 0
        BY <2>1, <3>5 DEF Chance
      <4> QED
        BY <2>2, <3>1, <3>2, <3>3, <3>4, <3>5, <4>1
    <3>6. CASE k # j
      <4>1. Chance(k)' = Chance(k)
        BY <2>1, <3>6 DEF Chance
      <4> QED
        BY <2>2, <3>1, <3>2, <3>3, <3>4, <3>6, <4>1
    <3> QED
      BY <3>5, <3>6
  <2> QED
    BY <2>3 DEF ChancesExcused
<1> QED
  BY <1>1, <1>2, <1>3, <1>4, <1>5, <1>6, <1>7, InstancesAssumption DEF Next, ManagerStep

-----------------------------------------------------------------------------
(* The invariant and what follows from it.                                 *)

\* The empty queue satisfies the invariant.
LEMMA InitIInv == Init => IInv
<1> SUFFICES ASSUME Init PROVE IInv
  OBVIOUS
<1>1. TypeOK
  <2>1. /\ config \in Configs /\ refs \in Nat /\ faults \in Nat /\ lives \in 0..MaxLives
        /\ entry \in [Instances -> Entries] /\ card \in Cards
        /\ mgr \in Turns /\ mgr.pc = "rest" /\ current = {}
    BY BoundsAssumption DEF Init, Entries, Cards, Turns, Resting
  <2>2. jobs \in Seq(Notifications) /\ Len(jobs) = 0 /\ Len(jobs) <= MaxJobs
    BY BoundsAssumption DEF Init
  <2>3. /\ stream \subseteq 1..Len(jobs) /\ pending \subseteq stream /\ dlq \subseteq DeadLetters
        /\ work \in [Instances -> Works]
    BY DEF Init, Works
  <2>4. /\ delivered \in [Jobs -> Nat] /\ sent \in [Jobs -> Nat]
        /\ fate \in [Jobs -> SUBSET Outcomes] /\ mishaps \in [Jobs -> [Mishap -> Nat]]
    BY DEF Init
  <2>5. config.MaxDeliver > 0 => \A j \in Jobs : delivered[j] <= config.MaxDeliver
    BY ConfigsAssumption DEF Init, QueueConfig
  <2> QED
    BY <2>1, <2>2, <2>3, <2>4, <2>5 DEF TypeOK
<1>2. NoJobVanishes /\ Verdicts /\ Fresh
  BY DEF Init, NoJobVanishes, Verdicts, Fresh, At, Idle
<1>3. OneHolder
  <2>1. \A i \in Instances, j \in Jobs : work[i].job # j
    BY DEF Init, Idle, Jobs
  <2>2. stream = {}
    BY DEF Init
  <2> QED
    BY <2>1, <2>2 DEF OneHolder, HeldOnce
<1>4. ChancesExcused
  <2> SUFFICES ASSUME NEW j \in Jobs
               PROVE  sent[j] + Cardinality(InHand(j)) + Chance(j) <= 1 + Excuses(j)
    BY DEF ChancesExcused
  <2>1. InHand(j) = {} /\ Chance(j) = 0 /\ sent[j] = 0
    BY DEF Init, InHand, Idle, Chance
  <2>2. Excuses(j) = 0
    BY DEF Init, Excuses, Mishap
  <2> QED
    BY <2>1, <2>2, FS_EmptySet
<1> QED
  BY <1>1, <1>2, <1>3, <1>4 DEF IInv

\* Every step of manager, workers and queue keeps it.
LEMMA StepIInv == IInv /\ [Next]_vars => IInv'
<1> SUFFICES ASSUME IInv, [Next]_vars PROVE IInv'
  OBVIOUS
<1>1. CASE Next
  <2>1. TypeOK'
    BY <1>1, TypeStep DEF IInv
  <2> QED
    BY <1>1, <2>1, NoJobVanishesStep, FreshStep, OneHolderStep, ChancesStep DEF IInv
<1>2. CASE UNCHANGED vars
  <2>1. /\ UNCHANGED <<config, entry, card, current, mgr, lives, jobs, stream, pending>>
        /\ UNCHANGED <<delivered, dlq, work, fate, sent, mishaps, refs, faults>>
    BY <1>2 DEF vars, alertVars, queueVars, historyVars
  <2>2. TypeOK'
    BY <2>1 DEF IInv, TypeOK, At, Entries, Cards, Turns, Notifications, Works, DeadLetters
  <2>3. NoJobVanishes' /\ Verdicts' /\ Fresh'
    BY <2>1 DEF IInv, NoJobVanishes, Verdicts, Verdict, Fresh, At
  <2>4. OneHolder' /\ ChancesExcused'
    BY <2>1 DEF IInv, OneHolder, Untroubled, HeldOnce, MayDeliver, ChancesExcused, InHand,
                Chance, Excuses
  <2> QED
    BY <2>2, <2>3, <2>4 DEF IInv
<1> QED
  BY <1>1, <1>2

\* For every number of instances, jobs and faults, the queue keeps its invariant.
THEOREM QueueInvariant == Spec => []IInv
BY InitIInv, StepIInv, PTL DEF Spec

\* The queue and what its workers hold (NATSWorker) keep their shape.
THEOREM QueueTypeCorrect == Spec => []TypeOK
<1>1. IInv => TypeOK
  BY DEF IInv
<1> QED
  BY <1>1, QueueInvariant, PTL

\* A notification leaves the queue only handled to the end, dropped, or as a dead letter if
\* there is a dead-letter stream, whatever expires, fails or crashes (NewNATSWorker's callback).
THEOREM NothingVanishes == Spec => []NoJobVanishes
<1>1. IInv => NoJobVanishes
  BY DEF IInv
<1> QED
  BY <1>1, QueueInvariant, PTL

\* A message is repeated only for an ack wait that ran out, an answer that was lost, or a
\* reference that was not stored (ProcessQueuedNotification).
THEOREM RepeatsExcused == Spec => []RepeatedOnlyForCause
<1>1. ASSUME IInv PROVE RepeatedOnlyForCause
  <2>0. ASSUME NEW j \in Jobs PROVE \A m \in Mishap : mishaps[j][m] \in Nat
    BY <1>1 DEF IInv, TypeOK
  <2> SUFFICES ASSUME NEW j \in Jobs PROVE sent[j] <= 1 + Excuses(j)
    BY <2>0 DEF RepeatedOnlyForCause, Excuses, Mishap
  <2>1. sent[j] + Cardinality(InHand(j)) + Chance(j) <= 1 + Excuses(j)
    BY <1>1 DEF IInv, ChancesExcused
  <2>2. sent[j] \in Nat /\ Chance(j) \in {0, 1} /\ Excuses(j) \in Nat
    BY <1>1, ChanceTypes DEF IInv
  <2>3. Cardinality(InHand(j)) \in Nat
    <3>1. IsFiniteSet(InHand(j))
      BY FS_Subset, InstancesAssumption DEF InHand
    <3> QED
      BY <3>1, FS_CardinalityType
  <2> QED
    BY <2>1, <2>2, <2>3
<1> QED
  BY <1>1, QueueInvariant, PTL

\* A job is left behind with its deliveries used up only if its ack wait ran out or the
\* dead-letter stream refused it (isMaxDeliverExceeded).
THEOREM StrandedExcused == Spec => []StrandedOnlyForCause
<1>1. ASSUME IInv PROVE StrandedOnlyForCause
  <2> SUFFICES ASSUME NEW j \in Jobs, Stranded(j), ~(mishaps[j]["expired"] > 0),
                      ~(mishaps[j]["unburied"] > 0)
               PROVE  FALSE
    BY DEF StrandedOnlyForCause
  <2>1. mishaps[j]["expired"] \in Nat /\ mishaps[j]["unburied"] \in Nat
    BY <1>1 DEF IInv, TypeOK, Mishap
  <2>2. Untroubled(j)
    BY <2>1 DEF Untroubled
  <2> QED
    BY <1>1, <2>2 DEF IInv, OneHolder, HeldOnce, Stranded
<1> QED
  BY <1>1, QueueInvariant, PTL

-----------------------------------------------------------------------------
(* The reference a resolve is owed.                                        *)

\* One instance at most holds the alert active, none while it is being resolved, and a raise
\* under way is that instance's.
OneActive ==
  /\ \A i, k \in Instances : IsActive(i) /\ IsActive(k) => i = k
  /\ mgr.state = "resolved" => \A i \in Instances : ~IsActive(i)
  /\ mgr.pc = "card" => \A i \in Instances : IsActive(i) => i = mgr.at
  /\ mgr.pc \in {"delete", "remove"} => mgr.state = "resolved"

\* An alert that is active has its card, but for a raise that has yet to write it; who is about
\* to write a card finds one, or is raising the alert and has read that there is none.
Raising == mgr.pc = "card" /\ mgr.state = "firing"
CardThere ==
  /\ \A i \in Instances : IsActive(i) => card # NoCard \/ Raising
  /\ mgr.pc = "card" => card # NoCard \/ (mgr.state = "firing" /\ "manager" \in current)

\* A life's notifications come after the card of its raise.
OfLives ==
  \A j \in 1..Len(jobs) : jobs[j].life <= lives /\ (Raising => jobs[j].life < lives)

\* What a worker is to store is a reference.
Bearing == \A i \in Instances : At(i, "refs") \/ At(i, "refsWrite") => work[i].ref # None

\* A firing job that was done, or is about to be acknowledged so, has left its reference on the
\* card of its life, as long as there is one.
Stored(j) ==
  jobs[j].state = "firing" /\ jobs[j].life = lives /\ card # NoCard => CardRef # None
DoneStored ==
  HasReferences =>
    /\ \A j \in 1..Len(jobs) : "done" \in fate[j] => Stored(j)
    /\ \A i \in Instances : At(i, "ack") /\ work[i].outcome = "done" => Stored(work[i].job)

\* From the card the reference comes to the entry, and from there to the resolve.
Taken ==
  mgr.owed =>
    /\ mgr.state = "resolved" /\ mgr.pc \in {"card", "publish"} /\ ~mgr.ttl /\ HasEntry(mgr.at)
    /\ mgr.pc = "card" => CardRef # None
    /\ mgr.pc = "publish" => EntryRef(mgr.at) # None
Carried ==
  /\ \A j \in 1..Len(jobs) : jobs[j].owed => jobs[j].ref # None /\ "dropped" \notin fate[j]
  /\ \A i \in Instances :
       At(i, "ack") /\ work[i].outcome = "dropped" => ~jobs[work[i].job].owed

Lives == OneActive /\ CardThere /\ OfLives
RInv == Lives /\ Bearing /\ DoneStored /\ Taken /\ Carried

\* An entry that learns a reference keeps its phase, and has the reference if there is one.
LEMMA SetRefShape ==
  ASSUME NEW e \in Entries, NEW ref
  PROVE  /\ SetRef(e, ref) = NoEntry <=> e = NoEntry
         /\ SetRef(e, ref).phase = e.phase
         /\ e # NoEntry => SetRef(e, ref).ref = IF ref = None THEN e.ref ELSE ref
<1>1. NoEntry.phase = "none" /\ "none" \notin {"firing", "inactive"}
  BY DEF NoEntry
<1>2. CASE e = NoEntry \/ ref = None
  BY <1>2 DEF SetRef
<1>3. CASE e # NoEntry /\ ref # None
  <2>1. e \in [phase : {"firing", "inactive"}, ref : 0..refs]
    BY <1>3 DEF Entries
  <2>2. SetRef(e, ref) = [e EXCEPT !.ref = ref]
    BY <1>3 DEF SetRef
  <2>3. [e EXCEPT !.ref = ref].phase = e.phase /\ [e EXCEPT !.ref = ref].ref = ref
    BY <2>1
  <2> QED
    BY <1>1, <1>3, <2>1, <2>2, <2>3
<1> QED
  BY <1>2, <1>3

\* Whether an instance holds the alert, and whether active, is the phase of its entry.
LEMMA ActivePhase ==
  ASSUME TypeOK, NEW i \in Instances
  PROVE  /\ IsActive(i) <=> entry[i].phase = "firing"
         /\ IsActive(i) => HasEntry(i)
         /\ EntryRef(i) = IF HasEntry(i) THEN entry[i].ref ELSE None
<1>1. NoEntry.phase = "none"
  BY DEF NoEntry
<1> QED
  BY <1>1 DEF IsActive, HasEntry, EntryRef

\* A reference learned at one instance leaves the entries of all as they are but for that.
LEMMA EntriesLearn ==
  ASSUME TypeOK, TypeOK', NEW i \in Instances, NEW ref,
         entry' = [entry EXCEPT ![i] = SetRef(@, ref)]
  PROVE  /\ \A k \in Instances : /\ IsActive(k)' <=> IsActive(k)
                                 /\ HasEntry(k)' <=> HasEntry(k)
                                 /\ EntryRef(k) # None => EntryRef(k)' # None
         /\ HasEntry(i) /\ ref # None => EntryRef(i)' # None
<1>1. /\ entry'[i] = SetRef(entry[i], ref) /\ entry[i] \in Entries
      /\ \A k \in Instances \ {i} : entry'[k] = entry[k]
  BY DEF TypeOK
<1>2. \A k \in Instances : entry'[k] = NoEntry <=> entry[k] = NoEntry
  BY <1>1, SetRefShape
<1>3. \A k \in Instances : entry'[k].phase = entry[k].phase
  BY <1>1, SetRefShape
<1>4. \A k \in Instances : (IsActive(k)' <=> IsActive(k)) /\ (HasEntry(k)' <=> HasEntry(k))
  BY <1>2, <1>3 DEF IsActive, HasEntry
<1>5. ASSUME NEW k \in Instances, EntryRef(k) # None PROVE EntryRef(k)' # None
  <2>1. entry[k] # NoEntry /\ entry[k].ref # None
    BY <1>5 DEF EntryRef, HasEntry
  <2>2. CASE k = i
    BY <1>1, <1>2, <2>1, <2>2, SetRefShape DEF EntryRef, HasEntry
  <2>3. CASE k # i
    BY <1>1, <2>1, <2>3 DEF EntryRef, HasEntry
  <2> QED
    BY <2>2, <2>3
<1>6. HasEntry(i) /\ ref # None => EntryRef(i)' # None
  BY <1>1, <1>2, SetRefShape DEF EntryRef, HasEntry
<1> QED
  BY <1>4, <1>5, <1>6

\* What a worker's step leaves of the alert: whoever holds it, holds it; a card is neither made
\* nor deleted, and keeps to have a reference.
LEMMA WorkerAlert ==
  ASSUME TypeOK, TypeOK', Bearing, NEW i \in Instances, WorkerStep(i)
  PROVE  /\ UNCHANGED <<config, mgr, lives, jobs>>
         /\ \A k \in Instances : /\ IsActive(k)' <=> IsActive(k)
                                 /\ HasEntry(k)' <=> HasEntry(k)
                                 /\ EntryRef(k) # None => EntryRef(k)' # None
         /\ card' = NoCard <=> card = NoCard
         /\ CardRef # None => CardRef' # None
         /\ "manager" \in current => "manager" \in current' \/ card' # NoCard
<1>1. UNCHANGED <<config, mgr, lives, jobs>>
  BY DEF WorkerStep, Send, SendFails, ReadRefs, WriteRefs, StoreFails, Bury, Ack, alertVars
<1>2. \/ \E ref : entry' = [entry EXCEPT ![i] = SetRef(@, ref)]
      \/ UNCHANGED entry
  BY DEF WorkerStep, Send, SendFails, ReadRefs, WriteRefs, StoreFails, Bury, Ack, alertVars
<1>3. \A k \in Instances : /\ IsActive(k)' <=> IsActive(k)
                           /\ HasEntry(k)' <=> HasEntry(k)
                           /\ EntryRef(k) # None => EntryRef(k)' # None
  <2>1. CASE UNCHANGED entry
    BY <2>1 DEF IsActive, HasEntry, EntryRef
  <2>2. CASE \E ref : entry' = [entry EXCEPT ![i] = SetRef(@, ref)]
    BY <2>2, EntriesLearn
  <2> QED
    BY <1>2, <2>1, <2>2
<1>4. CASE WriteRefs(i) /\ i \in current
  <2>1. At(i, "refsWrite") /\ card # NoCard /\ card \in Cards
    BY <1>4, InstancesAssumption DEF TypeOK
  <2>2. work[i].ref # None /\ card.State \in {"firing", "resolved"}
    BY <2>1 DEF Bearing, Cards
  <2>3. card' = [State |-> card.State, ref |-> work[i].ref]
    BY <1>4 DEF WriteRefs, PutCard
  <2>4. card'.State = card.State /\ card'.ref = work[i].ref
    BY <2>3
  <2>5. card' # NoCard
    BY <2>2, <2>4 DEF NoCard
  <2> QED
    BY <1>1, <1>3, <2>1, <2>2, <2>4, <2>5 DEF CardRef
<1>5. CASE ~(WriteRefs(i) /\ i \in current)
  <2>1. card' = card /\ current' \in {current, current \cup {i}, current \ {i}}
    BY <1>5 DEF WorkerStep, Send, SendFails, ReadRefs, WriteRefs, StoreFails, Bury, Ack, Absent, alertVars
  <2> QED
    BY <1>1, <1>3, <2>1, InstancesAssumption DEF CardRef
<1> QED
  BY <1>4, <1>5

\* A worker's step does with references what it should: it bears one that it is to store, and
\* its job of a firing alert is only done when the card has it or there is none.
LEMMA WorkerRefs ==
  ASSUME TypeOK, TypeOK', Bearing, NEW i \in Instances, WorkerStep(i)
  PROVE  /\ \A k \in Instances \ {i} : work'[k] = work[k]
         /\ work'[i].pc \in {"refs", "refsWrite"} => work'[i].ref # None
         /\ work'[i].pc = "ack" =>
              /\ work'[i].job = work[i].job /\ work'[i].outcome # "dropped"
              /\ HasReferences /\ work'[i].outcome = "done" => Stored(work[i].job)'
<1> DEFINE Right ==
      /\ work'[i].pc \in {"refs", "refsWrite"} => work'[i].ref # None
      /\ work'[i].pc = "ack" =>
           /\ work'[i].job = work[i].job /\ work'[i].outcome # "dropped"
           /\ HasReferences /\ work'[i].outcome = "done" => Stored(work[i].job)'
<1>0. work[i].pc # "idle" /\ UNCHANGED <<config, lives, jobs>>
  BY DEF WorkerStep, Send, SendFails, ReadRefs, WriteRefs, StoreFails, Bury, Ack, At, alertVars
<1>a. \E w : work' = [work EXCEPT ![i] = w]
  <2>1. ASSUME NEW permanent \in BOOLEAN, Fails(i, permanent)
        PROVE  \E w : work' = [work EXCEPT ![i] = w]
    BY <2>1 DEF Fails, Nak, Goes
  <2>2. CASE SendFails(i) \/ StoreFails(i)
    BY <2>1, <2>2 DEF SendFails, StoreFails
  <2>3. CASE WriteRefs(i)
    BY <2>1, <2>3 DEF WriteRefs, Ends, Goes
  <2>4. CASE Send(i) \/ ReadRefs(i) \/ Bury(i) \/ Ack(i)
    BY <2>4 DEF Send, ReadRefs, Bury, Ack, Absent, Unburied, Nak, Ends, Goes
  <2> QED
    BY <2>2, <2>3, <2>4 DEF WorkerStep
<1>b. \A k \in Instances \ {i} : work'[k] = work[k]
  BY <1>a DEF TypeOK
<1>s. SUFFICES Right
  BY <1>b
<1>w. work[i].job \in 1..Len(jobs) /\ work[i].ref \in 0..refs /\ refs \in Nat /\ None = 0
  BY <1>0, AtWork DEF TypeOK, None
<1>1. ASSUME NEW permanent \in BOOLEAN, Fails(i, permanent)
      PROVE  Right
  <2>1. PICK w \in Works : /\ work' = [work EXCEPT ![i] = w]
                           /\ w.pc = "failed" \/ w = Idle
    BY <1>0, <1>1, FailsShape
  <2>2. work'[i].pc \in {"failed", "idle"}
    BY <2>1 DEF TypeOK, Idle
  <2> QED
    BY <2>2
<1>2. CASE Send(i)
  <2>1. work[i].pc = "send" /\ UNCHANGED card
    BY <1>2 DEF Send, At
  <2>2. CASE HasUpdates(i, ResultRef(i))
    <3>1. work'[i] = [work[i] EXCEPT !.pc = "refs", !.ref = ResultRef(i)]
      BY <1>2, <2>2 DEF Send, Goes, TypeOK
    <3> QED
      BY <1>0, <2>2, <3>1, AtWork DEF HasUpdates
  <2>3. CASE ~HasUpdates(i, ResultRef(i))
    <3>1. HasReferences /\ Job(i).state = "firing" => ResultRef(i) # None
      BY <1>w DEF ResultRef, Opens, HasReferences
    <3>2. work'[i].pc = "ack" /\ work'[i].job = work[i].job /\ work'[i].outcome = "done"
      BY <1>2, <2>3, EndShape DEF Send
    <3>3. HasReferences => Stored(work[i].job)'
      BY <1>0, <2>3, <3>1, <3>2 DEF HasUpdates, Job, Stored
    <3> QED
      BY <3>2, <3>3
  <2> QED
    BY <2>2, <2>3
<1>3. CASE SendFails(i)
  <2>1. PICK permanent \in BOOLEAN : Fails(i, permanent)
    BY <1>3 DEF SendFails
  <2> QED
    BY <1>1, <2>1
<1>4. CASE StoreFails(i)
  BY <1>1, <1>4 DEF StoreFails
<1>5. CASE ReadRefs(i)
  <2>0. work[i].ref # None /\ card' = card
    BY <1>5 DEF ReadRefs, At, Bearing
  <2>1. CASE Ends(i, work[i].job, "done") /\ (card = NoCard \/ card.ref = work[i].ref)
    <3>1. Stored(work[i].job)'
      BY <2>0, <2>1 DEF Stored, CardRef
    <3> QED
      BY <2>1, <3>1, EndShape
  <2>2. CASE Goes(i, [work[i] EXCEPT !.pc = "refsWrite"])
    <3>1. work'[i] = [work[i] EXCEPT !.pc = "refsWrite"]
      BY <2>2 DEF Goes, TypeOK
    <3> QED
      BY <1>0, <2>0, <3>1, AtWork
  <2> QED
    BY <1>5, <2>1, <2>2 DEF ReadRefs, Absent
<1>6. CASE WriteRefs(i)
  <2>0. work[i].ref # None
    BY <1>6 DEF WriteRefs, At, Bearing
  <2>1. CASE Ends(i, work[i].job, "done") /\ PutCard(card.State, work[i].ref)
    <3>1. card'.ref = work[i].ref
      BY <2>1 DEF PutCard
    <3>2. Stored(work[i].job)'
      BY <2>0, <3>1 DEF Stored, CardRef
    <3> QED
      BY <2>1, <3>2, EndShape
  <2>2. CASE Fails(i, FALSE)
    BY <1>1, <2>2
  <2>3. CASE Goes(i, [work[i] EXCEPT !.pc = "refs", !.tries = @ + 1])
    <3>1. work'[i] = [work[i] EXCEPT !.pc = "refs", !.tries = @ + 1]
      BY <2>3 DEF Goes, TypeOK
    <3> QED
      BY <1>0, <2>0, <3>1, AtWork
  <2> QED
    BY <1>6, <2>1, <2>2, <2>3 DEF WriteRefs
<1>7. CASE Bury(i)
  <2>1. CASE \E outcome \in {"dead", "discarded"} : Ends(i, work[i].job, outcome)
    BY <2>1, EndShape
  <2>2. CASE Goes(i, Idle)
    <3>1. work'[i].pc = "idle"
      BY <2>2 DEF Goes, TypeOK, Idle
    <3> QED
      BY <3>1
  <2> QED
    BY <1>7, <2>1, <2>2 DEF Bury, Unburied, Nak
<1>8. CASE Ack(i)
  <2>1. work'[i].pc = "idle"
    BY <1>8 DEF Ack, Goes, TypeOK, Idle
  <2> QED
    BY <2>1
<1> QED
  BY <1>2, <1>3, <1>4, <1>5, <1>6, <1>7, <1>8 DEF WorkerStep

\* Where the handler is, and for whom.
LEMMA AtTurn ==
  ASSUME TypeOK
  PROVE  /\ mgr.pc \in {"rest", "card", "publish", "delete", "remove"}
         /\ mgr.pc # "rest" => mgr # Resting /\ mgr.at \in Instances /\ mgr.state \in {"firing", "resolved"}
         /\ mgr.pc # "rest" => mgr \in [pc : {"card", "publish", "delete", "remove"}, at : Instances,
                                       state : {"firing", "resolved"}, ttl : BOOLEAN, owed : BOOLEAN]
         /\ \A pc, i, s : LET t == Turn(pc, i, s)
                          IN t.pc = pc /\ t.at = i /\ t.state = s /\ ~t.ttl /\ ~t.owed
         /\ Resting.pc = "rest" /\ Resting.state = "none" /\ ~Resting.owed
         /\ ~AtEnd.owed /\ AtEnd.pc \in {"delete", "rest"}
         /\ AtEnd.pc = "delete" => AtEnd.state = "resolved"
         /\ AtEnd.state = "resolved" => mgr.state = "resolved"
BY DEF TypeOK, Turns, Resting, Turn, AtEnd

\* The alert has one holder at most, its card while it is held, and no notification of a life
\* that is yet to be told: so after each step.
LEMMA LivesStep ==
  ASSUME TypeOK, TypeOK', Lives, Bearing, Next
  PROVE  Lives'
<1> USE DEF Lives
<1>0. /\ \A i, k \in Instances : IsActive(i) /\ IsActive(k) => i = k
      /\ mgr.state = "resolved" => \A i \in Instances : ~IsActive(i)
      /\ Len(jobs) \in Nat /\ lives \in Nat
  BY DEF OneActive, TypeOK
<1>1. ASSUME NEW i \in Instances, Raise(i) PROVE Lives'
  <2>1. /\ mgr' = Turn("card", i, "firing") /\ UNCHANGED <<card, jobs>> /\ lives' = lives + 1
        /\ current' = current \cup {"manager"}
    BY <1>1, AtTurn DEF Raise, Handle
  <2>2. \A k \in Instances : IsActive(k)' => k = i
    BY <1>1 DEF Raise, IsActive, HasEntry, TypeOK
  <2>3. mgr'.pc = "card" /\ mgr'.at = i /\ mgr'.state = "firing"
    BY <2>1, AtTurn
  <2>4. OneActive'
    BY <2>2, <2>3 DEF OneActive
  <2>5. CardThere'
    BY <2>1, <2>3 DEF CardThere, Raising
  <2>6. OfLives'
    <3>1. \A j \in 1..Len(jobs) : jobs[j].life \in Nat /\ jobs[j].life <= lives
      <4>1. \A j \in 1..Len(jobs) : jobs[j] \in Notifications
        BY DEF TypeOK
      <4> QED
        BY <4>1, BoundsAssumption DEF OfLives, Notifications
    <3> QED
      BY <1>0, <2>1, <3>1 DEF OfLives
  <2> QED
    BY <2>4, <2>5, <2>6
<1>2. ASSUME UNCHANGED <<jobs, lives>>, ~Raising' \/ (Raising /\ UNCHANGED card),
             \A k \in Instances : IsActive(k)' => IsActive(k),
             mgr'.state = "resolved" => mgr.state = "resolved" \/ \A k \in Instances : ~IsActive(k)',
             mgr'.pc = "card" => \/ mgr.pc = "card" /\ mgr'.at = mgr.at
                                 \/ \A k \in Instances : ~IsActive(k)',
             mgr'.pc \in {"delete", "remove"} => mgr'.state = "resolved",
             CardThere'
      PROVE  Lives'
  <2>1. OneActive'
    BY <1>0, <1>2 DEF OneActive
  <2>2. OfLives'
    BY <1>2 DEF OfLives
  <2> QED
    BY <1>2, <2>1, <2>2
<1>3. ASSUME NEW i \in Instances, Repeat(i) PROVE Lives'
  <2>1. mgr' = Turn("publish", i, "firing") /\ UNCHANGED <<entry, card, jobs, lives>> /\ mgr.pc = "rest"
    BY <1>3 DEF Repeat, Handle
  <2>2. mgr'.pc = "publish" /\ mgr'.state = "firing" /\ \A k \in Instances : IsActive(k)' = IsActive(k)
    BY <2>1, AtTurn DEF IsActive, HasEntry
  <2>3. CardThere' /\ ~Raising'
    BY <2>1, <2>2 DEF CardThere, Raising
  <2> QED
    BY <1>2, <2>1, <2>2, <2>3
<1>4. ASSUME NEW i \in Instances, Resolve(i) PROVE Lives'
  <2>1. /\ mgr' = [Turn("card", i, "resolved") EXCEPT !.owed = ReferenceOwed] /\ mgr.pc = "rest"
        /\ UNCHANGED <<card, jobs, lives>> /\ IsActive(i)
    BY <1>4 DEF Resolve, Handle
  <2>2. mgr'.pc = "card" /\ mgr'.state = "resolved"
    BY <2>1 DEF Turn, Resting
  <2>3. \A k \in Instances : ~IsActive(k)'
    <3>1. entry'[i].phase = "inactive"
      <4>1. entry[i] \in [phase : {"firing", "inactive"}, ref : 0..refs]
        BY <2>1 DEF IsActive, HasEntry, TypeOK, Entries
      <4> QED
        BY <1>4, <4>1 DEF Resolve, TypeOK
    <3>2. \A k \in Instances \ {i} : entry'[k] = entry[k]
      BY <1>4 DEF Resolve, TypeOK
    <3> QED
      BY <1>0, <2>1, <3>1, <3>2 DEF IsActive, HasEntry
  <2>4. CardThere' /\ ~Raising'
    BY <2>1, <2>2, <2>3 DEF CardThere, Raising
  <2> QED
    BY <1>2, <2>1, <2>2, <2>3, <2>4
<1>5. ASSUME NEW i \in Instances, ResolveByTTL(i) PROVE Lives'
  <2>1. /\ mgr' = [Turn("card", i, "resolved") EXCEPT !.ttl = TRUE]
        /\ UNCHANGED <<entry, card, jobs, lives>> /\ card.State = "firing"
        /\ \A k \in Instances : ~IsActive(k)
    BY <1>5 DEF ResolveByTTL, Handle
  <2>2. mgr'.pc = "card" /\ mgr'.state = "resolved" /\ card # NoCard
    BY <2>1 DEF Turn, Resting, NoCard
  <2>3. \A k \in Instances : ~IsActive(k)'
    BY <2>1 DEF IsActive, HasEntry
  <2>4. CardThere' /\ ~Raising'
    BY <2>1, <2>2, <2>3 DEF CardThere, Raising
  <2> QED
    BY <1>2, <2>1, <2>2, <2>3, <2>4
<1>6. CASE WriteCard
  <2>0. mgr.pc = "card" /\ UNCHANGED <<jobs, lives>>
    BY <1>6 DEF WriteCard
  <2>1. \A k \in Instances : IsActive(k)' <=> IsActive(k)
    <3>1. CASE UNCHANGED entry
      BY <3>1 DEF IsActive, HasEntry
    <3>2. CASE Seeded(mgr.at)
      BY <2>0, <3>2, AtTurn, EntriesLearn DEF Seeded
    <3> QED
      BY <1>6, <3>1, <3>2 DEF WriteCard
  <2>2. mgr' \in {[mgr EXCEPT !.pc = "publish"], AtEnd, Resting}
    BY <1>6 DEF WriteCard
  <2>3. /\ mgr'.pc \in {"publish", "delete", "rest"}
        /\ mgr'.state = "resolved" => mgr.state = "resolved"
        /\ mgr'.pc = "delete" => mgr'.state = "resolved"
    BY <2>0, <2>2, AtTurn
  <2>4. card' # NoCard
    <3>1. CASE "manager" \in current
      <4>1. card'.State = mgr.state /\ mgr.state \in {"firing", "resolved"}
        BY <1>6, <2>0, <3>1, AtTurn DEF WriteCard, PutCard
      <4> QED
        BY <4>1 DEF NoCard
    <3>2. CASE "manager" \notin current
      BY <1>6, <2>0, <3>2 DEF WriteCard, CardThere
    <3> QED
      BY <3>1, <3>2
  <2>5. CardThere' /\ ~Raising'
    BY <2>3, <2>4 DEF CardThere, Raising
  <2> QED
    BY <1>2, <2>0, <2>1, <2>3, <2>5
<1>7. CASE Enqueue
  <2>1. /\ mgr.pc = "publish" /\ mgr' \in {AtEnd, Resting} /\ UNCHANGED <<entry, card, lives>>
        /\ jobs' = Append(jobs, [state |-> mgr.state, ref |-> EntryRef(mgr.at), life |-> lives,
                                 owed |-> mgr.owed])
    BY <1>7 DEF Enqueue, AfterPublish
  <2>2. /\ mgr'.pc \in {"delete", "rest"}
        /\ mgr'.state = "resolved" => mgr.state = "resolved"
        /\ mgr'.pc = "delete" => mgr'.state = "resolved"
    BY <2>1, AtTurn
  <2>3. \A k \in Instances : IsActive(k)' = IsActive(k)
    BY <2>1 DEF IsActive, HasEntry
  <2>4. OneActive' /\ CardThere' /\ ~Raising'
    BY <1>0, <2>1, <2>2, <2>3 DEF OneActive, CardThere, Raising
  <2>5. OfLives'
    <3>1. \A j \in 1..Len(jobs)' : jobs'[j].life <= lives
      <4>1. /\ Len(jobs)' = Len(jobs) + 1 /\ jobs'[Len(jobs) + 1].life = lives
            /\ \A j \in 1..Len(jobs) : jobs'[j] = jobs[j]
        BY <2>1 DEF TypeOK
      <4> QED
        BY <1>0, <4>1 DEF OfLives
    <3> QED
      BY <2>1, <2>4, <3>1 DEF OfLives
  <2> QED
    BY <2>4, <2>5
<1>8. CASE DeleteCard
  <2>1. /\ mgr.pc = "delete" /\ mgr' = [mgr EXCEPT !.pc = "remove"]
        /\ UNCHANGED <<entry, jobs, lives>> /\ mgr.state = "resolved"
    BY <1>8 DEF DeleteCard, OneActive
  <2>2. mgr'.pc = "remove" /\ mgr'.state = "resolved" /\ \A k \in Instances : ~IsActive(k)'
    BY <1>0, <2>1, AtTurn DEF IsActive, HasEntry
  <2>3. CardThere' /\ ~Raising'
    BY <2>2 DEF CardThere, Raising
  <2> QED
    BY <1>0, <1>2, <2>1, <2>2, <2>3
<1>9. CASE RemoveAlertState
  <2>1. /\ mgr.pc = "remove" /\ mgr' = Resting /\ UNCHANGED <<card, jobs, lives>>
        /\ mgr.state = "resolved" /\ entry' = [entry EXCEPT ![mgr.at] = NoEntry]
    BY <1>9 DEF RemoveAlertState, OneActive
  <2>2. \A k \in Instances : ~IsActive(k)'
    BY <1>0, <2>1 DEF IsActive, HasEntry, TypeOK
  <2>3. CardThere' /\ ~Raising' /\ mgr'.pc = "rest" /\ mgr'.state = "none"
    BY <2>1, <2>2, AtTurn DEF CardThere, Raising
  <2> QED
    BY <1>2, <2>1, <2>2, <2>3
<1>10. ASSUME NEW i \in Instances, WorkerStep(i) PROVE Lives'
  <2>1. CardThere' /\ (Raising' <=> Raising)
    BY <1>10, WorkerAlert DEF CardThere, Raising
  <2>2. OneActive'
    BY <1>10, WorkerAlert DEF OneActive
  <2>3. OfLives'
    BY <1>10, <2>1, WorkerAlert DEF OfLives
  <2> QED
    BY <2>1, <2>2, <2>3
<1>11. ASSUME UNCHANGED <<alertVars, jobs>> PROVE Lives'
  BY <1>11 DEF alertVars, OneActive, CardThere, OfLives, Raising, IsActive, HasEntry
<1>12. ASSUME NEW i \in Instances, Crash(i) PROVE Lives'
  <2>1. /\ UNCHANGED <<card, lives, jobs>> /\ entry' = [entry EXCEPT ![i] = NoEntry]
        /\ mgr' = IF mgr.at = i THEN Resting ELSE mgr
        /\ current' = current \ (IF mgr.at = i THEN {i, "manager"} ELSE {i})
    BY <1>12 DEF Crash
  <2>2. \A k \in Instances : IsActive(k)' => IsActive(k) /\ k # i
    BY <2>1 DEF IsActive, HasEntry, TypeOK
  <2>3. CASE mgr.at = i
    <3>1. CardThere' /\ ~Raising' /\ mgr'.pc = "rest" /\ mgr'.state = "none"
      BY <2>1, <2>2, <2>3, AtTurn DEF CardThere, Raising, OneActive
    <3> QED
      BY <1>2, <2>1, <2>2, <3>1
  <2>4. CASE mgr.at # i
    <3>1. mgr' = mgr /\ current' = current \ {i}
      BY <2>1, <2>4
    <3>2. CardThere' /\ (Raising' <=> Raising)
      BY <2>1, <2>2, <3>1, InstancesAssumption DEF CardThere, Raising
    <3> QED
      BY <1>2, <2>1, <2>2, <3>1, <3>2 DEF OneActive
  <2> QED
    BY <2>3, <2>4
<1> QED
  BY <1>1, <1>3, <1>4, <1>5, <1>6, <1>7, <1>8, <1>9, <1>10, <1>11, <1>12, InstancesAssumption
  DEF Next, Deliver, Expire

\* The manager's steps that make no notification leave the jobs as they are.
LEMMA HandlerRefs ==
  ASSUME TypeOK, Lives, Bearing, DoneStored, Carried,
         UNCHANGED <<config, jobs, work, fate>>,
         \A j \in 1..Len(jobs) : Stored(j) => Stored(j)'
  PROVE  Bearing' /\ DoneStored' /\ Carried'
<1>1. Bearing' /\ Carried'
  BY DEF Bearing, Carried, At
<1>2. \A i \in Instances : At(i, "ack") => work[i].job \in 1..Len(jobs)
  BY AtWork DEF At
<1>3. ASSUME NEW i \in Instances, HasReferences, At(i, "ack"), work[i].outcome = "done"
      PROVE  Stored(work[i].job)'
  <2>1. PICK j \in 1..Len(jobs) : j = work[i].job
    BY <1>2, <1>3
  <2>2. Stored(j)'
    BY <1>3, <2>1 DEF DoneStored
  <2> QED
    BY <2>1, <2>2 DEF Stored
<1>4. \A j \in 1..Len(jobs) : HasReferences /\ "done" \in fate[j] => Stored(j)'
  BY DEF DoneStored
<1> QED
  BY <1>1, <1>3, <1>4 DEF DoneStored, At, HasReferences

\* The reference that a resolve is owed is carried from step to step.
LEMMA RefStep ==
  ASSUME TypeOK, TypeOK', RInv, Next
  PROVE  Bearing' /\ DoneStored' /\ Taken' /\ Carried'
<1> USE DEF RInv
<1>0. /\ Len(jobs) \in Nat /\ lives \in Nat
      /\ \A i \in Instances : work[i].pc # "idle" => work[i].job \in 1..Len(jobs)
  BY AtWork DEF TypeOK
<1>1. ASSUME NEW i \in Instances, Raise(i) PROVE Bearing' /\ DoneStored' /\ Taken' /\ Carried'
  <2>1. /\ mgr' = Turn("card", i, "firing") /\ lives' = lives + 1
        /\ UNCHANGED <<config, jobs, work, fate>>
    BY <1>1 DEF Raise, Handle, historyVars
  <2>2. \A j \in 1..Len(jobs) : jobs[j].life # lives'
    <3>1. \A j \in 1..Len(jobs) : jobs[j].life \in Nat /\ jobs[j].life <= lives
      <4>1. \A j \in 1..Len(jobs) : jobs[j] \in Notifications
        BY DEF TypeOK
      <4> QED
        BY <4>1, BoundsAssumption DEF Lives, OfLives, Notifications
    <3> QED
      BY <1>0, <2>1, <3>1
  <2>3. Taken'
    BY <2>1, AtTurn DEF Taken
  <2> QED
    BY <2>1, <2>2, <2>3, HandlerRefs DEF Stored
<1>2. ASSUME NEW i \in Instances, Repeat(i) PROVE Bearing' /\ DoneStored' /\ Taken' /\ Carried'
  <2>1. /\ mgr' = Turn("publish", i, "firing")
        /\ UNCHANGED <<config, card, lives, jobs, work, fate>>
    BY <1>2 DEF Repeat, Handle, historyVars
  <2>2. Taken'
    BY <2>1, AtTurn DEF Taken
  <2> QED
    BY <2>1, <2>2, HandlerRefs DEF Stored, CardRef
<1>3. ASSUME NEW i \in Instances, Resolve(i) PROVE Bearing' /\ DoneStored' /\ Taken' /\ Carried'
  <2>1. /\ mgr' = [Turn("card", i, "resolved") EXCEPT !.owed = ReferenceOwed] /\ mgr.pc = "rest"
        /\ UNCHANGED <<config, card, lives, jobs, work, fate>> /\ IsActive(i)
        /\ entry' = [entry EXCEPT ![i].phase = "inactive"]
    BY <1>3 DEF Resolve, Handle, historyVars
  <2>2. /\ mgr'.owed = ReferenceOwed /\ mgr'.pc = "card" /\ mgr'.state = "resolved" /\ ~mgr'.ttl
        /\ mgr'.at = i
    BY <2>1 DEF Turn, Resting
  <2>3. HasEntry(i)'
    <3>1. entry[i] \in [phase : {"firing", "inactive"}, ref : 0..refs]
      BY <2>1 DEF IsActive, HasEntry, TypeOK, Entries
    <3>2. entry'[i].phase = "inactive"
      BY <2>1, <3>1 DEF TypeOK
    <3> QED
      BY <3>2 DEF HasEntry, NoEntry
  <2>4. card # NoCard
    BY <2>1 DEF Lives, CardThere, Raising
  <2>5. ReferenceOwed => CardRef # None
    BY <2>4 DEF ReferenceOwed, DoneStored, Stored
  <2>6. Taken'
    BY <2>1, <2>2, <2>3, <2>5 DEF Taken, CardRef
  <2> QED
    BY <2>1, <2>6, HandlerRefs DEF Stored, CardRef
<1>4. ASSUME NEW i \in Instances, ResolveByTTL(i)
      PROVE  Bearing' /\ DoneStored' /\ Taken' /\ Carried'
  <2>1. /\ mgr' = [Turn("card", i, "resolved") EXCEPT !.ttl = TRUE]
        /\ UNCHANGED <<config, card, lives, jobs, work, fate>>
    BY <1>4 DEF ResolveByTTL, Handle, historyVars
  <2>2. Taken'
    BY <2>1 DEF Taken, Turn, Resting
  <2> QED
    BY <2>1, <2>2, HandlerRefs DEF Stored, CardRef
<1>5. CASE WriteCard
  <2>0. mgr.pc = "card" /\ UNCHANGED <<config, lives, jobs, work, fate>>
    BY <1>5 DEF WriteCard, historyVars
  <2>1. CASE "manager" \in current
    <3>1. card' = [State |-> mgr.state, ref |-> CardRef] /\ Seeded(mgr.at)
          /\ mgr' \in {[mgr EXCEPT !.pc = "publish"], AtEnd}
      BY <1>5, <2>1 DEF WriteCard, PutCard
    <3>2. card' # NoCard /\ CardRef' = CardRef
      <4>1. card'.State = mgr.state /\ mgr.state # "none" /\ card'.ref = CardRef
        BY <2>0, <3>1, AtTurn
      <4>2. card' # NoCard
        BY <4>1 DEF NoCard
      <4>3. CardRef' = card'.ref
        BY <4>2 DEF CardRef
      <4> QED
        BY <4>1, <4>2, <4>3
    <3>3. ASSUME NEW j \in 1..Len(jobs), Stored(j) PROVE Stored(j)'
      <4>1. CASE card # NoCard
        BY <2>0, <3>2, <3>3, <4>1 DEF Stored
      <4>2. CASE card = NoCard
        <5>1. jobs[j].life < lives /\ jobs[j].life \in Nat
          <6>1. jobs[j] \in Notifications
            BY DEF TypeOK
          <6> QED
            BY <2>0, <4>2, <6>1, BoundsAssumption
            DEF Lives, CardThere, Raising, OfLives, Notifications
        <5> QED
          BY <1>0, <2>0, <5>1 DEF Stored
      <4> QED
        BY <4>1, <4>2
    <3>4. Taken'
      <4>1. CASE mgr' = AtEnd
        BY <4>1, AtTurn DEF Taken
      <4>2. CASE mgr' = [mgr EXCEPT !.pc = "publish"]
        <5>1. /\ mgr'.pc = "publish" /\ mgr'.state = mgr.state /\ mgr'.at = mgr.at
              /\ mgr'.owed = mgr.owed /\ mgr'.ttl = mgr.ttl /\ mgr.at \in Instances
          BY <2>0, <4>2, AtTurn
        <5>2. PICK i \in Instances : i = mgr.at
          BY <5>1
        <5>3. mgr.owed => HasEntry(i)' /\ EntryRef(i)' # None
          BY <2>0, <3>1, <5>2, EntriesLearn DEF Taken, Seeded
        <5> QED
          BY <2>0, <5>1, <5>2, <5>3 DEF Taken
      <4> QED
        BY <3>1, <4>1, <4>2
    <3> QED
      BY <2>0, <3>3, <3>4, HandlerRefs
  <2>2. CASE "manager" \notin current
    <3>1. UNCHANGED card /\ mgr' \in {AtEnd, Resting}
      BY <1>5, <2>2 DEF WriteCard
    <3>2. Taken'
      BY <3>1, AtTurn DEF Taken
    <3> QED
      BY <2>0, <3>1, <3>2, HandlerRefs DEF Stored, CardRef
  <2> QED
    BY <2>1, <2>2
<1>6. CASE DeleteCard
  <2>1. /\ card' = NoCard /\ mgr.pc = "delete" /\ mgr' = [mgr EXCEPT !.pc = "remove"]
        /\ UNCHANGED <<config, lives, jobs, work, fate>>
    BY <1>6 DEF DeleteCard, historyVars
  <2>2. Taken'
    BY <2>1, AtTurn DEF Taken
  <2> QED
    BY <2>1, <2>2, HandlerRefs DEF Stored
<1>7. CASE RemoveAlertState
  <2>1. mgr' = Resting /\ UNCHANGED <<config, card, lives, jobs, work, fate>>
    BY <1>7 DEF RemoveAlertState, historyVars
  <2>2. Taken'
    BY <2>1, AtTurn DEF Taken
  <2> QED
    BY <2>1, <2>2, HandlerRefs DEF Stored, CardRef
<1>8. CASE Enqueue
  <2>1. /\ mgr.pc = "publish" /\ mgr' \in {AtEnd, Resting}
        /\ UNCHANGED <<config, entry, card, lives, work>>
        /\ jobs' = Append(jobs, [state |-> mgr.state, ref |-> EntryRef(mgr.at), life |-> lives,
                                 owed |-> mgr.owed])
    BY <1>8 DEF Enqueue, AfterPublish
  <2>2. /\ Len(jobs)' = Len(jobs) + 1
        /\ jobs'[Len(jobs) + 1].owed = mgr.owed /\ jobs'[Len(jobs) + 1].ref = EntryRef(mgr.at)
        /\ \A j \in 1..Len(jobs) : jobs'[j] = jobs[j] /\ fate'[j] = fate[j]
    <3>1. \A j \in 1..Len(jobs) : j \in Jobs \ {Len(jobs) + 1}
      BY <1>0, BoundsAssumption DEF TypeOK, Jobs
    <3>2. /\ Len(jobs)' = Len(jobs) + 1 /\ Len(jobs) \in Nat
          /\ \A j \in 1..Len(jobs) : fate'[j] = fate[j]
      BY <1>0, <1>8, <3>1, EnqueueShape
    <3>3. DOMAIN jobs = 1..Len(jobs) /\ jobs \in Seq(Notifications)
      BY <1>0 DEF TypeOK
    <3>4. PICK made : made = [state |-> mgr.state, ref |-> EntryRef(mgr.at), life |-> lives,
                              owed |-> mgr.owed]
      OBVIOUS
    <3>5. jobs' = Append(jobs, made)
      BY <2>1, <3>4, Zenon
    <3>6. jobs'[Len(jobs) + 1] = made /\ \A j \in 1..Len(jobs) : jobs'[j] = jobs[j]
      BY <3>2, <3>3, <3>5
    <3>7. made.owed = mgr.owed /\ made.ref = EntryRef(mgr.at)
      BY <3>4
    <3> QED
      BY <3>2, <3>6, <3>7, Zenon
  <2>3. /\ "done" \notin fate'[Len(jobs) + 1]
        /\ mgr.owed => EntryRef(mgr.at) # None /\ "dropped" \notin fate'[Len(jobs) + 1]
    <3>1. Len(jobs) + 1 \in Jobs
      BY <1>0, <1>8, BoundsAssumption, EnqueueShape DEF Jobs
    <3>2. mgr.owed => EntryRef(mgr.at) # None /\ ~NoPost(mgr.state, EntryRef(mgr.at))
      <4>1. mgr.owed => EntryRef(mgr.at) # None
        BY <2>1 DEF Taken
      <4> QED
        BY <4>1, Zenon DEF NoPost
    <3>3. PICK end :
            /\ fate' = [fate EXCEPT ![Len(jobs) + 1] = end]
            /\ (end = {"dropped"} /\ NoPost(mgr.state, EntryRef(mgr.at))) \/ end \in {{}, {"lost"}, {"muted"}}
      BY <1>8, Zenon DEF Enqueue
    <3>4. fate'[Len(jobs) + 1] = end
      <4>1. DOMAIN fate = Jobs
        BY <1>0 DEF TypeOK
      <4> QED
        BY <3>1, <3>3, <4>1, Zenon
    <3>5. /\ "done" \notin end
          /\ ~NoPost(mgr.state, EntryRef(mgr.at)) => "dropped" \notin end
      BY <3>3
    <3> QED
      BY <3>2, <3>4, <3>5, Zenon
  <2>4. Taken'
    BY <2>1, AtTurn DEF Taken
  <2>5. Bearing'
    BY <2>1 DEF Bearing, At
  <2>6. Carried'
    <3>1. ASSUME NEW j \in 1..Len(jobs)' PROVE jobs'[j].owed => jobs'[j].ref # None /\ "dropped" \notin fate'[j]
      <4>1. CASE j = Len(jobs) + 1
        BY <2>2, <2>3, <4>1
      <4>2. CASE j # Len(jobs) + 1
        <5>1. j \in 1..Len(jobs)
          BY <1>0, <2>2, <4>2
        <5> QED
          BY <2>2, <5>1 DEF Carried
      <4> QED
        BY <4>1, <4>2
    <3>2. ASSUME NEW i \in Instances, work[i].pc = "ack", work[i].outcome = "dropped"
          PROVE ~jobs'[work[i].job].owed
      BY <1>0, <2>2, <3>2 DEF Carried, At
    <3> QED
      BY <2>1, <3>1, <3>2 DEF Carried, At
  <2>7. DoneStored'
    <3>1. \A j \in 1..Len(jobs) : Stored(j) => Stored(j)'
      BY <2>1, <2>2 DEF Stored, CardRef
    <3>2. ASSUME NEW j \in 1..Len(jobs)', HasReferences, "done" \in fate'[j] PROVE Stored(j)'
      <4>1. j \in 1..Len(jobs)
        BY <1>0, <2>2, <2>3, <3>2
      <4> QED
        BY <2>2, <3>1, <3>2, <4>1 DEF DoneStored
    <3>3. ASSUME NEW i \in Instances, HasReferences, work[i].pc = "ack", work[i].outcome = "done"
          PROVE  Stored(work[i].job)'
      <4>1. PICK j \in 1..Len(jobs) : j = work[i].job
        BY <1>0, <3>3
      <4>2. Stored(j)'
        BY <3>1, <3>3, <4>1 DEF DoneStored, At
      <4> QED
        BY <2>1, <4>1, <4>2 DEF Stored
    <3> QED
      BY <2>1, <3>2, <3>3 DEF DoneStored, At, HasReferences
  <2> QED
    BY <2>4, <2>5, <2>6, <2>7
<1>9. ASSUME NEW i \in Instances, WorkerStep(i) PROVE Bearing' /\ DoneStored' /\ Taken' /\ Carried'
  <2>0. UNCHANGED <<config, mgr, lives, jobs>> /\ work[i].pc # "idle"
    BY <1>9, WorkerAlert DEF WorkerStep, Send, SendFails, ReadRefs, WriteRefs, StoreFails, Bury, Ack, At
  <2>1. Bearing'
    BY <1>9, WorkerRefs DEF Bearing, At
  <2>2. Taken'
    BY <1>9, WorkerAlert, AtTurn DEF Taken
  <2>3. \A j \in 1..Len(jobs) : Stored(j) => Stored(j)'
    BY <1>9, <2>0, WorkerAlert DEF Stored
  <2>4. \/ UNCHANGED fate
        \/ At(i, "ack") /\ fate' = [fate EXCEPT ![work[i].job] = @ \cup {work[i].outcome}]
    BY <1>9 DEF WorkerStep, Send, SendFails, ReadRefs, WriteRefs, StoreFails, Bury, Ack, historyVars
  <2>5. \A j \in 1..Len(jobs), o \in {"done", "dropped"} :
          o \in fate'[j] => o \in fate[j] \/ (At(i, "ack") /\ work[i].job = j /\ work[i].outcome = o)
    <3>1. \A j \in 1..Len(jobs) : j \in Jobs
      BY <1>0, BoundsAssumption DEF TypeOK, Jobs
    <3>2. \A j \in Jobs : fate'[j] = fate[j] \/ (/\ At(i, "ack") /\ work[i].job = j
                                               /\ fate'[j] = fate[j] \cup {work[i].outcome})
      BY <2>4 DEF TypeOK
    <3> QED
      BY <3>1, <3>2
  <2>6. Carried'
    <3>1. ASSUME NEW j \in 1..Len(jobs), jobs[j].owed PROVE jobs[j].ref # None /\ "dropped" \notin fate'[j]
      BY <2>5, <3>1 DEF Carried
    <3>2. ASSUME NEW k \in Instances, work'[k].pc = "ack", work'[k].outcome = "dropped"
          PROVE  ~jobs[work'[k].job].owed
      <4>1. k # i /\ work'[k] = work[k]
        BY <1>9, <3>2, WorkerRefs
      <4> QED
        BY <3>2, <4>1 DEF Carried, At
    <3> QED
      BY <2>0, <3>1, <3>2 DEF Carried, At
  <2>7. DoneStored'
    <3>1. ASSUME NEW j \in 1..Len(jobs), HasReferences, "done" \in fate'[j] PROVE Stored(j)'
      BY <2>3, <2>5, <3>1 DEF DoneStored
    <3>2. ASSUME NEW k \in Instances, HasReferences, work'[k].pc = "ack", work'[k].outcome = "done"
          PROVE  Stored(work[k].job)'
      <4>1. CASE k = i
        BY <1>9, <3>2, <4>1, WorkerRefs
      <4>2. CASE k # i
        <5>1. work'[k] = work[k]
          BY <1>9, <4>2, WorkerRefs
        <5>2. PICK j \in 1..Len(jobs) : j = work[k].job
          BY <1>0, <3>2, <5>1
        <5>3. Stored(j)'
          BY <2>3, <3>2, <5>1, <5>2 DEF DoneStored, At
        <5> QED
          BY <5>1, <5>2, <5>3 DEF Stored
      <4> QED
        BY <4>1, <4>2
    <3> QED
      BY <2>0, <3>1, <3>2 DEF DoneStored, At, HasReferences
  <2> QED
    BY <2>1, <2>2, <2>6, <2>7
<1>10. ASSUME NEW i \in Instances, NEW j \in Jobs, Deliver(i, j)
       PROVE  Bearing' /\ DoneStored' /\ Taken' /\ Carried'
  <2>0. UNCHANGED <<config, entry, card, mgr, lives, jobs, fate>>
    BY <1>10 DEF Deliver, alertVars, historyVars
  <2>1. Bearing'
    BY <1>10, DeliverShape DEF Bearing, At
  <2>2. Taken'
    BY <2>0 DEF Taken, HasEntry, EntryRef, CardRef
  <2>3. work'[i].pc = "ack" /\ work'[i].outcome = "dropped" => ~jobs[j].owed
    <3>1. j \in 1..Len(jobs)
      BY <1>10 DEF Deliver, TypeOK
    <3>2. CASE jobs[j].ref = None
      BY <3>1, <3>2 DEF Carried
    <3>3. CASE jobs[j].ref # None
      <4> DEFINE w == [Idle EXCEPT !.pc = "send", !.job = j,
                         !.attempt = IF config.MaxDeliver = -1 THEN 1 ELSE delivered[j] + 1,
                         !.ref = jobs[j].ref]
      <4>1. Goes(i, w) \/ Ends(i, j, "muted")
        <5>1. ~NoPost(jobs[j].state, jobs[j].ref) /\ ~NoIssue(jobs[j].state, jobs[j].ref)
          BY <3>3 DEF NoPost, NoIssue
        <5> QED
          BY <1>10, <3>3, <5>1, Zenon DEF Deliver
      <4>2. CASE Ends(i, j, "muted")
        BY <4>2, EndShape
      <4>3. CASE Goes(i, w)
        <5>1. w.pc = "send"
          BY DEF Idle
        <5> HIDE DEF w
        <5>2. work'[i] = w
          BY <4>3 DEF Goes, TypeOK
        <5> QED
          BY <5>1, <5>2
      <4> QED
        BY <4>1, <4>2, <4>3
    <3> QED
      BY <3>2, <3>3
  <2>4. Carried'
    BY <1>10, <2>0, <2>3, DeliverShape DEF Carried, At
  <2>5. DoneStored'
    <3>1. \A k \in 1..Len(jobs) : Stored(k)' <=> Stored(k)
      BY <2>0 DEF Stored, CardRef
    <3>2. ASSUME NEW k \in Instances, HasReferences, work'[k].pc = "ack", work'[k].outcome = "done"
          PROVE  Stored(work[k].job)'
      <4>1. work'[k] = work[k]
        BY <1>10, <3>2, DeliverShape
      <4>2. PICK m \in 1..Len(jobs) : m = work[k].job
        BY <1>0, <3>2, <4>1
      <4>3. Stored(m)'
        BY <3>1, <3>2, <4>1, <4>2 DEF DoneStored, At
      <4> QED
        BY <4>1, <4>2, <4>3 DEF Stored
    <3>3. \A k \in 1..Len(jobs) : HasReferences /\ "done" \in fate[k] => Stored(k)'
      BY <3>1 DEF DoneStored
    <3> QED
      BY <2>0, <3>2, <3>3 DEF DoneStored, At, HasReferences
  <2> QED
    BY <2>1, <2>2, <2>4, <2>5
<1>11. ASSUME NEW j \in Jobs, Expire(j) PROVE Bearing' /\ DoneStored' /\ Taken' /\ Carried'
  <2>1. UNCHANGED <<config, entry, card, mgr, lives, jobs, fate, work>>
    BY <1>11 DEF Expire, alertVars
  <2> QED
    BY <2>1, HandlerRefs DEF Taken, HasEntry, EntryRef, CardRef, Stored
<1>12. ASSUME NEW i \in Instances, Crash(i) PROVE Bearing' /\ DoneStored' /\ Taken' /\ Carried'
  <2>1. /\ UNCHANGED <<config, card, lives, jobs, fate>> /\ entry' = [entry EXCEPT ![i] = NoEntry]
        /\ mgr' = IF mgr.at = i THEN Resting ELSE mgr
    BY <1>12 DEF Crash, historyVars
  <2>2. work'[i].pc = "idle" /\ \A k \in Instances \ {i} : work'[k] = work[k]
    BY <1>12 DEF Crash, Goes, TypeOK, Idle
  <2>3. Taken'
    <3>1. CASE mgr.at = i
      BY <2>1, <3>1, AtTurn DEF Taken
    <3>2. CASE mgr.at # i
      <4>1. mgr' = mgr /\ (mgr.pc # "rest" => entry'[mgr.at] = entry[mgr.at])
        BY <2>1, <3>2, AtTurn DEF TypeOK
      <4> QED
        BY <2>1, <4>1 DEF Taken, HasEntry, EntryRef, CardRef
    <3> QED
      BY <3>1, <3>2
  <2>4. Bearing' /\ Carried'
    BY <2>1, <2>2 DEF Bearing, Carried, At
  <2>5. DoneStored'
    <3>1. \A k \in 1..Len(jobs) : Stored(k)' <=> Stored(k)
      BY <2>1 DEF Stored, CardRef
    <3>2. ASSUME NEW k \in Instances, HasReferences, work'[k].pc = "ack", work'[k].outcome = "done"
          PROVE  Stored(work[k].job)'
      <4>1. work'[k] = work[k]
        BY <2>2, <3>2
      <4>2. PICK m \in 1..Len(jobs) : m = work[k].job
        BY <1>0, <3>2, <4>1
      <4>3. Stored(m)'
        BY <3>1, <3>2, <4>1, <4>2 DEF DoneStored, At
      <4> QED
        BY <4>1, <4>2, <4>3 DEF Stored
    <3>3. \A k \in 1..Len(jobs) : HasReferences /\ "done" \in fate[k] => Stored(k)'
      BY <3>1 DEF DoneStored
    <3> QED
      BY <2>1, <3>2, <3>3 DEF DoneStored, At, HasReferences
  <2> QED
    BY <2>3, <2>4, <2>5
<1> QED
  BY <1>1, <1>2, <1>3, <1>4, <1>5, <1>6, <1>7, <1>8, <1>9, <1>10, <1>11, <1>12, InstancesAssumption
  DEF Next

\* The resolve of an alert is not dropped for want of a reference when a firing job of the
\* same life was done before, whichever instance's worker did it (persistExternalRefs,
\* seedExternalRefs, shouldDropTrackerNotification).
THEOREM ReferencesFound == Spec => []ResolveFindsReference
<1>1. Init => RInv
  <2>1. SUFFICES ASSUME Init PROVE RInv
    OBVIOUS
  <2>2. /\ mgr.pc = "rest" /\ ~mgr.owed /\ mgr.state = "none" /\ Len(jobs) = 0
        /\ \A i \in Instances : ~HasEntry(i) /\ work[i].pc = "idle"
    BY <2>1 DEF Init, Resting, Idle, HasEntry
  <2>3. Lives
    BY <2>2 DEF Lives, OneActive, CardThere, OfLives, Raising, IsActive
  <2>4. Bearing /\ DoneStored /\ Taken /\ Carried
    BY <2>2 DEF Bearing, DoneStored, Taken, Carried, At
  <2> QED
    BY <2>3, <2>4 DEF RInv
<1>2. TypeOK /\ TypeOK' /\ RInv /\ [Next]_vars => RInv'
  <2>1. SUFFICES ASSUME TypeOK, TypeOK', RInv, [Next]_vars PROVE RInv'
    OBVIOUS
  <2>2. CASE Next
    BY <2>1, <2>2, LivesStep, RefStep DEF RInv
  <2>3. CASE UNCHANGED vars
    <3>1. Lives' /\ Bearing' /\ Taken' /\ Carried'
      BY <2>1, <2>3 DEF RInv, Lives, OneActive, CardThere, OfLives, Raising, Bearing, Taken, Carried,
           IsActive, HasEntry, EntryRef, CardRef, At, vars, alertVars, historyVars
    <3>2. DoneStored'
      BY <2>1, <2>3 DEF RInv, DoneStored, Stored, CardRef, At, HasReferences, vars, alertVars, historyVars
    <3> QED
      BY <3>1, <3>2 DEF RInv
  <2> QED
    BY <2>1, <2>2, <2>3
<1>3. TypeOK /\ RInv => ResolveFindsReference
  BY DEF RInv, Carried, ResolveFindsReference
<1> QED
  BY <1>1, <1>2, <1>3, QueueTypeCorrect, PTL DEF Spec

==============================================================================
