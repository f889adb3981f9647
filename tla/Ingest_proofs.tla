---------------------------- MODULE Ingest_proofs ----------------------------
(***************************************************************************)
(* Proofs about Ingest, for any number of messages, handlers, payloads,    *)
(* rules and faults:                                                       *)
(*   CountedOnce     an event is counted once per delivery, and delivered  *)
(*                   again only for a cause (Caused, Due),                 *)
(*   AnswersTrue     an answer tells the producer the truth (Truth),       *)
(*   LeaksExplained  what an event holds beyond its JSON is a rejected     *)
(*                   batch's (Leftovers).                                  *)
(* Each is an invariant of its own over the types; the steps are sorted by *)
(* who makes them (Steps) and looked at once (the lemmas named after what  *)
(* they say of a job or of the mail).                                      *)
(***************************************************************************)
EXTENDS Ingest, FiniteSetTheorems, TLAPS

-----------------------------------------------------------------------------
(* Types.                                                                  *)

Stages == {"waiting", "inflight", "unavailable"} \cup Final
Mails == [payload : DOMAIN Payloads, stage : Stages, deliveries : Nat]
TurnsOf(events) == (DOMAIN events) \X (DOMAIN Rules)

\* What a handler is doing: the payload of its message, event by event and rule by rule.
Proper(j) ==
  /\ DOMAIN j = {"msg", "events", "scratch", "todo", "at", "ticks"}
  /\ j.msg \in Message
  /\ DOMAIN j.events = DOMAIN Payload(j.msg).events
  /\ j.todo \subseteq TurnsOf(j.events)

Occasions == Message \X (1 .. Slots) \X DOMAIN Rules

Typed ==
  /\ faults \in 0 .. MaxFaults /\ mail \in [Message -> Mails]
  /\ DOMAIN job = Handlers /\ \A h \in Handlers : job[h] # Idle => Proper(job[h])
  /\ DOMAIN counted \subseteq Occasions /\ \A o \in DOMAIN counted : counted[o] \in Nat

\* A handler at work is not idle.
LEMMA ProperBusy ==
  ASSUME NEW j, Proper(j)
  PROVE  j # Idle /\ j.msg # 0
<1>1. j.msg # 0
  BY BoundsAssumption DEF Proper, Message
<1> QED
  BY <1>1 DEF Idle

\* The turns of a message are occasions to count it.
LEMMA TurnOccasions ==
  ASSUME Typed, NEW h \in Handlers, job[h] # Idle, NEW t \in job[h].todo
  PROVE  /\ job[h].msg \in Message /\ t = <<t[1], t[2]>>
         /\ t[1] \in DOMAIN job[h].events
         /\ Turn(job[h].msg, t) \in Occasions
<1>1. Proper(job[h]) /\ mail[job[h].msg].payload \in DOMAIN Payloads
  BY DEF Typed, Proper, Mails
<1>2. t = <<t[1], t[2]>> /\ t[1] \in DOMAIN job[h].events /\ t[2] \in DOMAIN Rules
  BY <1>1 DEF Proper, TurnsOf
<1>3. t[1] \in 1 .. Slots
  BY <1>1, <1>2, PayloadsAssumption DEF Proper, Payload
<1> QED
  BY <1>1, <1>2, <1>3 DEF Proper, Turn, Occasions

-----------------------------------------------------------------------------
(* What the steps are made of.                                             *)

\* A message keeps its payload, and no delivery is taken back.
MailKept ==
  /\ mail' \in [Message -> Mails]
  /\ \A m \in Message : /\ mail'[m].payload = mail[m].payload
                        /\ mail'[m].deliveries >= mail[m].deliveries

\* A message gets an answer, or none in time.
LEMMA BecomeMail ==
  ASSUME Typed, NEW m \in Message, NEW stage \in Stages, Become(m, stage)
  PROVE  /\ MailKept
         /\ mail'[m].stage = IF mail[m].stage \in Final THEN mail[m].stage ELSE stage
         /\ mail'[m].deliveries = mail[m].deliveries
         /\ \A n \in Message \ {m} : mail'[n] = mail[n]
<1>1. mail \in [Message -> Mails]
  BY DEF Typed
<1> DEFINE kept == IF mail[m].stage \in Final THEN mail[m].stage ELSE stage
<1>2. mail' = [mail EXCEPT ![m] = [mail[m] EXCEPT !.stage = kept]]
  BY DEF Become
<1>3. kept \in Stages
  BY <1>1 DEF Mails
<1> HIDE DEF kept
<1>4. /\ [mail[m] EXCEPT !.stage = kept] \in Mails
      /\ [mail[m] EXCEPT !.stage = kept].stage = kept
      /\ [mail[m] EXCEPT !.stage = kept].payload = mail[m].payload
      /\ [mail[m] EXCEPT !.stage = kept].deliveries = mail[m].deliveries
  BY <1>1, <1>3 DEF Mails
<1>5. \A n \in Message : mail[n].deliveries \in Nat
  BY <1>1 DEF Mails
<1> QED
  BY <1>1, <1>2, <1>4, <1>5 DEF MailKept, kept

\* A message is delivered once more; the bound of the model is not reached by a message that
\* was delivered no more often than there were faults.
LEMMA DeliveredMail ==
  ASSUME Typed, NEW m \in Message, NEW stage \in Stages, mail' = Delivered(m, stage)
  PROVE  /\ MailKept
         /\ mail'[m].stage = stage
         /\ mail[m].deliveries <= MaxFaults => mail'[m].deliveries = mail[m].deliveries + 1
         /\ \A n \in Message \ {m} : mail'[n] = mail[n]
<1>1. mail \in [Message -> Mails] /\ MaxFaults \in Nat
  BY BoundsAssumption DEF Typed
<1> DEFINE more == IF mail[m].deliveries > MaxFaults THEN mail[m].deliveries
                   ELSE mail[m].deliveries + 1
<1>2. mail' = [mail EXCEPT ![m] = [mail[m] EXCEPT !.stage = stage, !.deliveries = more]]
  BY <1>1 DEF Delivered
<1>3. more \in Nat /\ more >= mail[m].deliveries /\ mail[m].deliveries \in Nat
      /\ (mail[m].deliveries <= MaxFaults => more = mail[m].deliveries + 1)
  BY <1>1 DEF Mails
<1> HIDE DEF more
<1> DEFINE next == [mail[m] EXCEPT !.stage = stage, !.deliveries = more]
<1>4. /\ next \in Mails /\ next.stage = stage /\ next.deliveries = more
      /\ next.payload = mail[m].payload
  BY <1>1, <1>3 DEF Mails
<1>5. \A n \in Message : mail[n].deliveries \in Nat
  BY <1>1 DEF Mails
<1> HIDE DEF next
<1>6. mail' = [mail EXCEPT ![m] = next]
  BY <1>2 DEF next
<1> QED
  BY <1>1, <1>3, <1>4, <1>5, <1>6 DEF MailKept

\* The handler goes on to its next turn with the same message.
LEMMA NextTurnJob ==
  ASSUME Typed, NEW h \in Handlers, job[h] # Idle, NEW t, NEW ticks
  PROVE  LET j == nextTurn(h, t, ticks)
         IN /\ Proper(j) /\ j.todo = job[h].todo \ {t} /\ j.ticks = ticks
            /\ j.msg = job[h].msg /\ j.events = job[h].events /\ j.scratch = job[h].scratch
<1> DEFINE rest == job[h].todo \ {t}
           at == IF \E u \in rest : u[1] = t[1] THEN At(h) ELSE Unread
           j == nextTurn(h, t, ticks)
<1>1. j = [job[h] EXCEPT !.todo = rest, !.ticks = ticks, !.at = at]
  BY DEF nextTurn
<1>2. Proper(job[h]) /\ rest \subseteq job[h].todo
  BY DEF Typed
<1> HIDE DEF rest, at, j
<1>3. /\ DOMAIN j = DOMAIN job[h] /\ j.todo = rest /\ j.ticks = ticks
      /\ j.msg = job[h].msg /\ j.events = job[h].events /\ j.scratch = job[h].scratch
  BY <1>1, <1>2 DEF Proper
<1>4. Proper(j)
  BY <1>2, <1>3 DEF Proper
<1> QED
  BY <1>3, <1>4 DEF rest, j

\* Or it refreshes some of its ticks.
LEMMA RefreshedJob ==
  ASSUME Typed, NEW h \in Handlers, job[h] # Idle, NEW done
  PROVE  LET j == [job[h] EXCEPT !.ticks = @ \ done]
         IN /\ Proper(j) /\ j.todo = job[h].todo /\ j.ticks = job[h].ticks \ done
            /\ j.msg = job[h].msg /\ j.events = job[h].events /\ j.scratch = job[h].scratch
<1> DEFINE ticks == job[h].ticks \ done
           j == [job[h] EXCEPT !.ticks = ticks]
<1>1. Proper(job[h])
  BY DEF Typed
<1> HIDE DEF ticks
<1>2. /\ DOMAIN j = DOMAIN job[h] /\ j.todo = job[h].todo /\ j.ticks = ticks
      /\ j.msg = job[h].msg /\ j.events = job[h].events /\ j.scratch = job[h].scratch
  BY <1>1 DEF Proper
<1>3. Proper(j)
  BY <1>1, <1>2 DEF Proper
<1> QED
  BY <1>2, <1>3 DEF ticks

\* A handler that takes a message: the events are those of its payload, and all their turns are
\* to do.
LEMMA AcceptedJob ==
  ASSUME Typed, NEW h \in Handlers, NEW m \in Message, Accept(h, m)
  PROVE  \E scratch \in Scratches(m) : \E j :
           LET events == Decode(Payload(m), scratch)
           IN /\ job[h] = Idle /\ Accepts(Payload(m), events) /\ NoteSkew(m, events)
              /\ pool' = pool \ {scratch} /\ job' = [job EXCEPT ![h] = j]
              /\ Proper(j) /\ j.msg = m /\ j.events = events /\ j.todo = Turns(events)
              /\ j.ticks = {} /\ j.scratch = Overwrite(scratch, events)
<1>0. PICK scratch \in Scratches(m) :
        \E events \in {Decode(Payload(m), scratch)} :
          /\ Accepts(Payload(m), events) /\ NoteSkew(m, events) /\ pool' = pool \ {scratch}
          /\ job' = [job EXCEPT ![h] =
                       [msg |-> m, events |-> events, scratch |-> Overwrite(scratch, events),
                        todo |-> Turns(events), at |-> Unread, ticks |-> {}]]
  BY DEF Accept
<1> DEFINE events == Decode(Payload(m), scratch)
<1>1. /\ Accepts(Payload(m), events) /\ NoteSkew(m, events) /\ pool' = pool \ {scratch}
      /\ job' = [job EXCEPT ![h] =
                   [msg |-> m, events |-> events, scratch |-> Overwrite(scratch, events),
                    todo |-> Turns(events), at |-> Unread, ticks |-> {}]]
  BY <1>0
<1>2. DOMAIN events = DOMAIN Payload(m).events /\ Turns(events) \subseteq TurnsOf(events)
  BY <1>1 DEF Decode, Turns, TurnsOf
<1> DEFINE j == [msg |-> m, events |-> events, scratch |-> Overwrite(scratch, events),
                 todo |-> Turns(events), at |-> Unread, ticks |-> {}]
<1>3. Proper(j)
  BY <1>2 DEF Proper
<1>4. /\ j.msg = m /\ j.events = events /\ j.todo = Turns(events)
      /\ j.ticks = {} /\ j.scratch = Overwrite(scratch, events)
  OBVIOUS
<1> HIDE DEF j
<1>5. job[h] = Idle
  BY DEF Accept
<1> QED
  BY <1>1, <1>3, <1>4, <1>5 DEF j

\* An event is counted.
LEMMA Counted ==
  ASSUME Typed, NEW h \in Handlers, job[h] # Idle, NEW t \in job[h].todo, Count(h, t)
  PROVE  LET turn == Turn(job[h].msg, t)
         IN /\ DOMAIN counted' = DOMAIN counted \cup {turn}
            /\ \A o \in DOMAIN counted' :
                 counted'[o] = TimesCounted(o) + IF o = turn THEN 1 ELSE 0
            /\ \A o : TimesCounted(o) \in Nat
            /\ \A o : TimesCounted(o)' = TimesCounted(o) + IF o = turn THEN 1 ELSE 0
            /\ turn \in Occasions
            /\ DOMAIN counted' \subseteq Occasions /\ \A o \in DOMAIN counted' : counted'[o] \in Nat
<1> DEFINE turn == Turn(job[h].msg, t)
<1>1. counted' = [o \in DOMAIN counted \cup {turn} |->
                    TimesCounted(o) + IF o = turn THEN 1 ELSE 0]
  BY DEF Count
<1>2. turn \in Occasions
  BY TurnOccasions
<1>3. \A o : TimesCounted(o) \in Nat
  BY DEF Typed, TimesCounted
<1> HIDE DEF turn
<1>4. DOMAIN counted' = DOMAIN counted \cup {turn}
  BY <1>1
<1>5. \A o \in DOMAIN counted' : counted'[o] = TimesCounted(o) + IF o = turn THEN 1 ELSE 0
  BY <1>1
<1>6. ASSUME NEW o PROVE TimesCounted(o)' = TimesCounted(o) + IF o = turn THEN 1 ELSE 0
  <2>1. CASE o \in DOMAIN counted'
    BY <1>5, <2>1 DEF TimesCounted
  <2>2. CASE o \notin DOMAIN counted'
    <3>1. o # turn /\ TimesCounted(o) = 0 /\ TimesCounted(o)' = 0
      BY <1>4, <2>2 DEF TimesCounted
    <3> QED
      BY <3>1
  <2> QED
    BY <2>1, <2>2
<1>7. DOMAIN counted' \subseteq Occasions /\ \A o \in DOMAIN counted' : counted'[o] \in Nat
  BY <1>2, <1>3, <1>4, <1>5 DEF Typed
<1> QED
  BY <1>2, <1>3, <1>4, <1>5, <1>6, <1>7 DEF turn

\* What a handler does on its own, once it has taken a message.
Works(h) ==
  \/ job[h] # Idle /\ \E t \in job[h].todo : Pass(h, t) \/ Process(h, t)
  \/ RefreshTick(h)

\* A handler comes to the end of a message: the answer goes out, gets lost, or is an error.
Ends(h) ==
  \/ Answer(h) \/ LoseAnswer(h) \/ FailRefresh(h)
  \/ job[h] # Idle /\ \E t \in job[h].todo : FailDecision(h, t)

\* Someone else settles what becomes of a message.
Outside(m) == AckWaitExpires(m) \/ Exhaust(m) \/ Resend(m)

\* The steps, sorted by who makes them.
LEMMA Steps ==
  ASSUME Next
  PROVE  \/ \E h \in Handlers, m \in Message : Accept(h, m)
         \/ \E h \in Handlers : Works(h) \/ Ends(h)
         \/ \E m \in Message : Reject(m) \/ Outside(m)
         \/ Crash \/ TimePasses
BY DEF Next, Handle, Disturb, Works, Ends, Outside

\* A handler at work keeps its message and its events, and its turns get fewer; the mail and
\* the pool stay as they are.
LEMMA WorkedJob ==
  ASSUME Typed, NEW h \in Handlers, Works(h)
  PROVE  /\ job[h] # Idle
         /\ \E j : /\ job' = [job EXCEPT ![h] = j] /\ Proper(j) /\ j.todo \subseteq job[h].todo
                   /\ j.msg = job[h].msg /\ j.events = job[h].events
                   /\ j.scratch = job[h].scratch
         /\ UNCHANGED <<mail, faults, pool, spoiled, skewed, repeated>>
<1>1. CASE RefreshTick(h)
  <2>1. /\ job[h] # Idle /\ UNCHANGED <<mail, faults, pool, spoiled, skewed, repeated>>
        /\ \E done : job' = [job EXCEPT ![h].ticks = @ \ done]
    BY <1>1 DEF RefreshTick, Refreshing, Pushed
  <2>2. PICK done : job' = [job EXCEPT ![h] = [job[h] EXCEPT !.ticks = @ \ done]]
    BY <2>1
  <2> DEFINE j == [job[h] EXCEPT !.ticks = @ \ done]
  <2>3. /\ Proper(j) /\ j.todo = job[h].todo /\ j.msg = job[h].msg
        /\ j.events = job[h].events /\ j.scratch = job[h].scratch
    BY <2>1, RefreshedJob
  <2>4. job' = [job EXCEPT ![h] = j]
    BY <2>2
  <2> HIDE DEF j
  <2> QED
    BY <2>1, <2>3, <2>4
<1>2. ASSUME job[h] # Idle, NEW t \in job[h].todo, Pass(h, t) \/ Process(h, t)
      PROVE  /\ UNCHANGED <<mail, faults, pool, spoiled, skewed, repeated>>
             /\ \E ticks : job' = [job EXCEPT ![h] = nextTurn(h, t, ticks)]
  BY <1>2 DEF Pass, Process
<1>3. ASSUME job[h] # Idle, NEW t \in job[h].todo, Pass(h, t) \/ Process(h, t)
      PROVE  \E j : /\ job' = [job EXCEPT ![h] = j] /\ Proper(j) /\ j.todo \subseteq job[h].todo
                    /\ j.msg = job[h].msg /\ j.events = job[h].events
                    /\ j.scratch = job[h].scratch
  <2>1. PICK ticks : job' = [job EXCEPT ![h] = nextTurn(h, t, ticks)]
    BY <1>2, <1>3
  <2> DEFINE j == nextTurn(h, t, ticks)
  <2>2. /\ Proper(j) /\ j.todo = job[h].todo \ {t} /\ j.msg = job[h].msg
        /\ j.events = job[h].events /\ j.scratch = job[h].scratch
    BY <1>3, NextTurnJob
  <2>3. job' = [job EXCEPT ![h] = j] /\ j.todo \subseteq job[h].todo
    BY <2>1, <2>2
  <2> HIDE DEF j
  <2> QED
    BY <2>2, <2>3
<1> QED
  BY <1>1, <1>2, <1>3 DEF Works

\* At its end the handler is idle and its scratch, with the slots of the events zeroed, is in
\* the pool; the message has an answer, or it has met an error and will be delivered again.
LEMMA EndedJob ==
  ASSUME Typed, NEW h \in Handlers, Ends(h)
  PROVE  /\ job[h] # Idle /\ Release(h) /\ job' = [job EXCEPT ![h] = Idle]
         /\ UNCHANGED <<applied, late, spoiled, skewed>>
         /\ \/ Answer(h) /\ Become(job[h].msg, "processed") /\ UNCHANGED <<faults, repeated>>
            \/ /\ \/ UNCHANGED mail
                  \/ \E stage \in {"waiting", "unavailable"} : Become(job[h].msg, stage)
               /\ Fault /\ repeated' = repeated \cup {job[h].msg}
BY DEF Ends, Answer, LoseAnswer, FailRefresh, FailDecision, Fail, Handled, Pushed, Refreshing,
       Release, stageAfterFailure, history

\* A step that gives no handler a job that does not fit its message keeps the types.
LEMMA JobsTyped ==
  ASSUME Typed, MailKept \/ UNCHANGED mail, DOMAIN job' = Handlers,
         \A h \in Handlers : job'[h] # Idle => job'[h] = job[h] \/ Proper(job'[h]),
         faults' \in 0 .. MaxFaults,
         DOMAIN counted' \subseteq Occasions, \A o \in DOMAIN counted' : counted'[o] \in Nat
  PROVE  Typed'
<1>1. \A m \in Message : mail'[m].payload = mail[m].payload
  BY DEF MailKept
<1>2. mail' \in [Message -> Mails]
  BY DEF MailKept, Typed
<1>3. ASSUME NEW h \in Handlers, job'[h] # Idle PROVE Proper(job[h])'
  <2>1. PICK j : j = job'[h] /\ Proper(j)
    BY <1>3 DEF Typed
  <2>2. Payload(j.msg)' = Payload(j.msg)
    BY <1>1, <2>1 DEF Proper, Payload
  <2>3. Proper(j)'
    BY <2>1, <2>2 DEF Proper
  <2> QED
    BY <2>1, <2>3 DEF Proper
<1> QED
  BY <1>2, <1>3 DEF Typed

\* The bound on faults holds after a fault as well.
LEMMA FaultCounted ==
  ASSUME Typed, Fault
  PROVE  faults' \in 0 .. MaxFaults /\ faults' = faults + 1 /\ faults \in Nat
BY BoundsAssumption DEF Typed, Fault

\* The end of a message: only an event whose decision failed is counted.
LEMMA EndedCount ==
  ASSUME Typed, NEW h \in Handlers, Ends(h)
  PROVE  \/ UNCHANGED counted
         \/ \E t \in job[h].todo : Count(h, t)
BY DEF Ends, Answer, LoseAnswer, FailRefresh, FailDecision, history

\* What someone else does to a message.
LEMMA OutsideMail ==
  ASSUME NEW m \in Message, Outside(m)
  PROVE  /\ \/ /\ Become(m, "waiting") /\ mail[m].stage \in {"inflight", "unavailable"}
               /\ mail[m].stage = "inflight" =>
                    /\ repeated' = repeated \cup {m}
                    /\ IF InHands(m) THEN Fault ELSE UNCHANGED faults
               /\ mail[m].stage = "unavailable" => UNCHANGED <<faults, repeated>>
            \/ /\ \E stage \in {"exhausted", "abandoned"} : Become(m, stage)
               /\ UNCHANGED <<faults, repeated>>
         /\ UNCHANGED <<job, pool, counted, applied, late, spoiled, skewed>>
BY DEF Outside, AckWaitExpires, Exhaust, Resend, history

\* The stages a message can be given.
LEMMA StagesFacts ==
  /\ Final \subseteq Stages /\ {"waiting", "inflight", "unavailable"} \subseteq Stages
  /\ Final = {"processed", "rejected", "exhausted", "abandoned"}
BY DEF Stages, Final

\* What an accepted, a rejected or a crashed message's mail is after the step.
LEMMA OthersMail ==
  ASSUME Typed,
         \/ \E h \in Handlers, m \in Message : Accept(h, m)
         \/ \E m \in Message : Reject(m)
         \/ Crash
  PROVE  MailKept
<1>1. ASSUME NEW h \in Handlers, NEW m \in Message, Accept(h, m) PROVE MailKept
  <2>1. mail' = Delivered(m, "inflight")
    BY <1>1 DEF Accept
  <2> QED
    BY <2>1, DeliveredMail, StagesFacts
<1>2. ASSUME NEW m \in Message, Reject(m) PROVE MailKept
  <2>1. \E stage \in {"rejected", "inflight"} : mail' = Delivered(m, stage)
    BY <1>2 DEF Reject, BadRequest, AckOfRejected
  <2> QED
    BY <2>1, DeliveredMail, StagesFacts
<1>3. CASE Crash
  <2>1. ASSUME NEW m \in Message
        PROVE  LET stage == IF InHands(m) /\ Via(m) = "http" THEN "unavailable"
                            ELSE mail[m].stage
               IN /\ [mail[m] EXCEPT !.stage = stage] \in Mails
                  /\ [mail[m] EXCEPT !.stage = stage].payload = mail[m].payload
                  /\ [mail[m] EXCEPT !.stage = stage].deliveries = mail[m].deliveries
                  /\ mail[m].deliveries \in Nat
    <3> DEFINE stage == IF InHands(m) /\ Via(m) = "http" THEN "unavailable"
                        ELSE mail[m].stage
    <3>1. mail[m] \in Mails
      BY DEF Typed
    <3>2. stage \in Stages
      BY <3>1, StagesFacts DEF Mails
    <3> HIDE DEF stage
    <3>3. /\ [mail[m] EXCEPT !.stage = stage] \in Mails
          /\ [mail[m] EXCEPT !.stage = stage].payload = mail[m].payload
          /\ [mail[m] EXCEPT !.stage = stage].deliveries = mail[m].deliveries
          /\ mail[m].deliveries \in Nat
      BY <3>1, <3>2 DEF Mails
    <3> QED
      BY <3>3 DEF stage
  <2>2. mail' = [m \in Message |->
                   [mail[m] EXCEPT !.stage =
                      IF InHands(m) /\ Via(m) = "http" THEN "unavailable" ELSE mail[m].stage]]
    BY <1>3 DEF Crash
  <2>3. ASSUME NEW m \in Message
        PROVE  /\ mail'[m] \in Mails /\ mail'[m].payload = mail[m].payload
               /\ mail'[m].deliveries >= mail[m].deliveries
    <3> DEFINE next == [mail[m] EXCEPT !.stage = IF InHands(m) /\ Via(m) = "http"
                                                 THEN "unavailable" ELSE mail[m].stage]
    <3>1. /\ next \in Mails /\ next.payload = mail[m].payload
          /\ next.deliveries = mail[m].deliveries /\ mail[m].deliveries \in Nat
      BY <2>1
    <3>2. mail'[m] = next
      BY <2>2
    <3> HIDE DEF next
    <3> QED
      BY <3>1, <3>2
  <2>4. mail' \in [Message -> Mails]
    <3>1. DOMAIN mail' = Message /\ mail' = [m \in Message |-> mail'[m]]
      BY <2>2
    <3> QED
      BY <2>3, <3>1
  <2> QED
    BY <2>3, <2>4 DEF MailKept
<1> QED
  BY <1>1, <1>2, <1>3

\* Every step keeps the types, and every message its payload.
LEMMA TypedStep ==
  ASSUME Typed, [Next]_vars
  PROVE  Typed' /\ (MailKept \/ UNCHANGED mail)
<1>1. ASSUME NEW h \in Handlers, NEW m \in Message, Accept(h, m)
      PROVE  Typed' /\ (MailKept \/ UNCHANGED mail)
  <2>1. PICK j : job' = [job EXCEPT ![h] = j] /\ Proper(j)
    BY <1>1, AcceptedJob
  <2>2. UNCHANGED <<faults, counted>>
    BY <1>1 DEF Accept
  <2> QED
    BY <1>1, <2>1, <2>2, OthersMail, JobsTyped DEF Typed
<1>2. ASSUME NEW h \in Handlers, Works(h) PROVE Typed' /\ (MailKept \/ UNCHANGED mail)
  <2>1. PICK j : job' = [job EXCEPT ![h] = j] /\ Proper(j)
    BY <1>2, WorkedJob
  <2>2. UNCHANGED counted \/ \E t \in job[h].todo : Count(h, t)
    BY <1>2 DEF Works, Pass, Process, RefreshTick
  <2>3. DOMAIN counted' \subseteq Occasions /\ \A o \in DOMAIN counted' : counted'[o] \in Nat
    <3>1. CASE UNCHANGED counted
      BY <3>1 DEF Typed
    <3>2. CASE \E t \in job[h].todo : Count(h, t)
      BY <1>2, <3>2, WorkedJob, Counted
    <3> QED
      BY <2>2, <3>1, <3>2
  <2>4. UNCHANGED <<mail, faults>>
    BY <1>2, WorkedJob
  <2> QED
    BY <2>1, <2>3, <2>4, JobsTyped DEF Typed
<1>3. ASSUME NEW h \in Handlers, Ends(h) PROVE Typed' /\ (MailKept \/ UNCHANGED mail)
  <2>1. /\ job[h] # Idle /\ job' = [job EXCEPT ![h] = Idle]
        /\ \/ UNCHANGED mail
           \/ \E stage \in {"processed", "waiting", "unavailable"} : Become(job[h].msg, stage)
        /\ faults' = faults \/ Fault
    BY <1>3, EndedJob
  <2>2. DOMAIN counted' \subseteq Occasions /\ \A o \in DOMAIN counted' : counted'[o] \in Nat
    <3>1. CASE UNCHANGED counted
      BY <3>1 DEF Typed
    <3>2. CASE \E t \in job[h].todo : Count(h, t)
      BY <2>1, <3>2, Counted
    <3> QED
      BY <1>3, <3>1, <3>2, EndedCount
  <2>3. MailKept \/ UNCHANGED mail
    <3>1. job[h].msg \in Message
      BY <2>1 DEF Typed, Proper
    <3> QED
      BY <2>1, <3>1, BecomeMail, StagesFacts
  <2>4. faults' \in 0 .. MaxFaults
    BY <2>1, FaultCounted DEF Typed
  <2> QED
    BY <2>1, <2>2, <2>3, <2>4, JobsTyped DEF Typed
<1>4. ASSUME NEW m \in Message, Outside(m) PROVE Typed' /\ (MailKept \/ UNCHANGED mail)
  <2>1. MailKept
    BY <1>4, OutsideMail, BecomeMail, StagesFacts
  <2>2. faults' \in 0 .. MaxFaults
    BY <1>4, FaultCounted DEF Outside, AckWaitExpires, Exhaust, Resend, Typed
  <2> QED
    BY <1>4, <2>1, <2>2, OutsideMail, JobsTyped DEF Typed
<1>5. ASSUME NEW m \in Message, Reject(m) PROVE Typed' /\ (MailKept \/ UNCHANGED mail)
  <2>1. UNCHANGED <<job, counted>> /\ (faults' = faults \/ Fault)
    BY <1>5 DEF Reject, BadRequest, AckOfRejected
  <2>2. faults' \in 0 .. MaxFaults
    BY <2>1, FaultCounted DEF Typed
  <2> QED
    BY <1>5, <2>1, <2>2, OthersMail, JobsTyped DEF Typed
<1>6. ASSUME Crash PROVE Typed' /\ (MailKept \/ UNCHANGED mail)
  <2>1. /\ job' = [h \in Handlers |-> Idle] /\ counted' = counted
        /\ faults' \in 0 .. MaxFaults
    BY <1>6, FaultCounted DEF Crash
  <2> QED
    BY <1>6, <2>1, OthersMail, JobsTyped DEF Typed
<1>7. CASE TimePasses \/ UNCHANGED vars
  <2>1. UNCHANGED <<mail, job, faults, counted>>
    BY <1>7 DEF TimePasses, vars, history
  <2> QED
    BY <2>1, JobsTyped DEF Typed
<1> QED
  BY <1>1, <1>2, <1>3, <1>4, <1>5, <1>6, <1>7, Steps

-----------------------------------------------------------------------------
(* How often a message is delivered.                                       *)

\* Whether a message will be delivered once more, unless it is given up.
Owed(m) ==
  IF mail[m].stage \in {"waiting", "unavailable"} \/ (mail[m].stage = "inflight" /\ ~InHands(m))
  THEN 1 ELSE 0

\* Every delivery but the first has a fault for its cause, and one of the message's own.
Caused(m) == mail[m].deliveries + Owed(m) <= IF m \in repeated THEN faults + 1 ELSE 1
DeliveriesCaused == \A m \in Message : Caused(m)

\* What is owed of a message is one delivery at most.
LEMMA OwedFacts ==
  ASSUME Typed, NEW m \in Message
  PROVE  Owed(m) \in {0, 1} /\ mail[m].deliveries \in Nat /\ faults \in Nat
         /\ faults <= MaxFaults /\ MaxFaults \in Nat
BY BoundsAssumption DEF Owed, Typed, Mails

\* A step may owe a message one delivery more if it is a fault of the message's.
LEMMA CausedStep ==
  ASSUME Typed, Typed', NEW m \in Message, Caused(m), faults' >= faults, repeated \subseteq repeated',
         \/ mail'[m].deliveries + Owed(m)' <= mail[m].deliveries + Owed(m)
         \/ /\ mail'[m].deliveries + Owed(m)' <= mail[m].deliveries + Owed(m) + 1
            /\ faults' = faults + 1 /\ m \in repeated'
  PROVE  Caused(m)'
<1>1. Owed(m) \in {0, 1} /\ mail[m].deliveries \in Nat /\ faults \in Nat
  BY OwedFacts
<1>2. Owed(m)' \in {0, 1} /\ mail'[m].deliveries \in Nat /\ faults' \in Nat
  <2>1. Owed(m)' \in {0, 1}
    BY DEF Owed
  <2>2. mail'[m].deliveries \in Nat /\ faults' \in Nat
    BY BoundsAssumption DEF Typed, Mails
  <2> QED
    BY <2>1, <2>2
<1>3. CASE m \in repeated
  BY <1>1, <1>2, <1>3 DEF Caused
<1>4. CASE m \notin repeated
  BY <1>1, <1>2, <1>4 DEF Caused
<1> QED
  BY <1>3, <1>4

\* A step that has nothing to do with the message.
LEMMA CausedKept ==
  ASSUME Typed, Typed', NEW m \in Message, Caused(m), mail'[m] = mail[m],
         InHands(m) => InHands(m)', faults' >= faults, repeated \subseteq repeated'
  PROVE  Caused(m)'
<1>1. Owed(m)' <= Owed(m) /\ mail[m].deliveries \in Nat /\ Owed(m) \in {0, 1} /\ Owed(m)' \in {0, 1}
  BY OwedFacts DEF Owed
<1>2. mail'[m].deliveries + Owed(m)' <= mail[m].deliveries + Owed(m)
  BY <1>1
<1> QED
  BY <1>2, CausedStep

\* A waiting message was delivered no more often than there were faults.
LEMMA WaitingFew ==
  ASSUME Typed, NEW m \in Message, Caused(m), mail[m].stage = "waiting"
  PROVE  mail[m].deliveries <= MaxFaults
<1>1. Owed(m) = 1
  BY DEF Owed
<1> QED
  BY <1>1, OwedFacts DEF Caused

\* A handler takes, works on or ends a message: no other message notices.
LEMMA HandsOfOthers ==
  ASSUME Typed, NEW h \in Handlers, NEW j, job' = [job EXCEPT ![h] = j],
         NEW m \in Message, job[h].msg # m \/ j.msg = m
  PROVE  InHands(m) => InHands(m)'
BY DEF InHands, Typed

\* A message is given up only by an answer, and delivered again only for a cause.
LEMMA DeliveriesStep ==
  ASSUME Typed, DeliveriesCaused, [Next]_vars
  PROVE  DeliveriesCaused'
<1>0. Typed' /\ \A m \in Message : Caused(m)
  BY TypedStep DEF DeliveriesCaused
<1>r. Final = {"processed", "rejected", "exhausted", "abandoned"}
  BY StagesFacts
<1>n. faults \in Nat /\ faults' \in Nat
  BY <1>0, BoundsAssumption DEF Typed
<1>1. ASSUME NEW h \in Handlers, NEW n \in Message, Accept(h, n), NEW m \in Message
      PROVE  Caused(m)'
  <2>1. PICK j : job[h] = Idle /\ job' = [job EXCEPT ![h] = j] /\ Proper(j) /\ j.msg = n
    BY <1>1, AcceptedJob
  <2>2. /\ mail[n].stage = "waiting" /\ mail' = Delivered(n, "inflight")
        /\ UNCHANGED <<faults, repeated>>
    BY <1>1 DEF Accept, Deliverable
  <2>3. CASE m = n
    <3>1. InHands(m)'
      BY <2>1, <2>3 DEF InHands, Typed
    <3>2. mail'[m].deliveries = mail[m].deliveries + 1 /\ mail'[m].stage = "inflight"
      BY <1>0, <2>2, <2>3, DeliveredMail, WaitingFew, StagesFacts
    <3>3. Owed(m)' = 0 /\ Owed(m) = 1
      BY <2>2, <2>3, <3>1, <3>2 DEF Owed
    <3>4. mail'[m].deliveries + Owed(m)' <= mail[m].deliveries + Owed(m)
      BY <3>2, <3>3, OwedFacts
    <3> QED
      BY <1>0, <1>n, <2>2, <3>4, CausedStep
  <2>4. CASE m # n
    <3>1. mail'[m] = mail[m]
      BY <2>2, <2>4, DeliveredMail, StagesFacts
    <3>2. job[h].msg # m
      BY <2>1, BoundsAssumption DEF Idle, Message
    <3>3. InHands(m) => InHands(m)'
      BY <2>1, <3>2, HandsOfOthers
    <3>4. faults' >= faults /\ repeated \subseteq repeated'
      BY <1>n, <2>2
    <3> QED
      BY <1>0, <3>1, <3>3, <3>4, CausedKept
  <2> QED
    BY <2>3, <2>4
<1>2. ASSUME NEW h \in Handlers, Works(h), NEW m \in Message PROVE Caused(m)'
  <2>1. PICK j : job' = [job EXCEPT ![h] = j] /\ j.msg = job[h].msg
    BY <1>2, WorkedJob
  <2>2. UNCHANGED <<mail, faults, repeated>>
    BY <1>2, WorkedJob
  <2>3. InHands(m) => InHands(m)'
    <3>1. CASE job[h].msg = m
      BY <2>1, <3>1, HandsOfOthers
    <3>2. CASE job[h].msg # m
      BY <2>1, <3>2, HandsOfOthers
    <3> QED
      BY <3>1, <3>2
  <2>4. faults' >= faults /\ repeated \subseteq repeated'
    BY <1>n, <2>2
  <2> QED
    BY <1>0, <2>2, <2>3, <2>4, CausedKept
<1>3. ASSUME NEW h \in Handlers, Ends(h), NEW m \in Message PROVE Caused(m)'
  <2> DEFINE n == job[h].msg
  <2>1. /\ job[h] # Idle /\ job' = [job EXCEPT ![h] = Idle]
        /\ \/ Become(n, "processed") /\ UNCHANGED <<faults, repeated>>
           \/ /\ \/ UNCHANGED mail
                 \/ \E stage \in {"waiting", "unavailable"} : Become(n, stage)
              /\ Fault /\ repeated' = repeated \cup {n}
    BY <1>3, EndedJob
  <2>2. n \in Message
    BY <2>1 DEF Typed, Proper
  <2>f. faults' >= faults /\ repeated \subseteq repeated'
    BY <1>n, <2>1 DEF Fault
  <2>3. CASE m # n
    <3>1. mail'[m] = mail[m]
      BY <2>1, <2>2, <2>3, BecomeMail, StagesFacts
    <3> QED
      BY <1>0, <2>1, <2>3, <2>f, <3>1, HandsOfOthers, CausedKept
  <2>4. CASE m = n /\ Become(n, "processed") /\ UNCHANGED <<faults, repeated>>
    <3>1. mail'[m].deliveries = mail[m].deliveries /\ mail'[m].stage \in Final
      BY <1>r, <2>2, <2>4, BecomeMail, StagesFacts
    <3>2. Owed(m)' = 0
      BY <1>r, <3>1 DEF Owed
    <3> QED
      BY <1>0, <2>f, <3>1, <3>2, OwedFacts, CausedStep
  <2>5. CASE /\ m = n /\ Fault /\ repeated' = repeated \cup {n}
             /\ \/ UNCHANGED mail
                \/ \E stage \in {"waiting", "unavailable"} : Become(n, stage)
    <3>1. mail'[m].deliveries = mail[m].deliveries
      BY <2>2, <2>5, BecomeMail, StagesFacts
    <3>2. Owed(m)' \in {0, 1} /\ Owed(m) \in {0, 1} /\ mail[m].deliveries \in Nat
      BY OwedFacts DEF Owed
    <3>3. faults' = faults + 1 /\ m \in repeated'
      BY <2>5 DEF Fault
    <3>4. mail'[m].deliveries + Owed(m)' <= mail[m].deliveries + Owed(m) + 1
      BY <3>1, <3>2
    <3> QED
      BY <1>0, <2>f, <3>3, <3>4, CausedStep
  <2> QED
    BY <2>1, <2>3, <2>4, <2>5
<1>4. ASSUME NEW n \in Message, Outside(n), NEW m \in Message PROVE Caused(m)'
  <2>0. UNCHANGED job /\ InHands(m)' = InHands(m)
    BY <1>4, OutsideMail DEF InHands
  <2>f. faults' >= faults /\ repeated \subseteq repeated'
    BY <1>4, <1>n DEF Outside, AckWaitExpires, Exhaust, Resend, Fault, history
  <2>3. CASE m # n
    <3>1. mail'[m] = mail[m]
      BY <1>4, <2>3, OutsideMail, BecomeMail, StagesFacts
    <3> QED
      BY <1>0, <2>0, <2>f, <3>1, CausedKept
  <2>4. CASE m = n /\ \E stage \in {"exhausted", "abandoned"} : Become(n, stage)
    <3>1. mail'[m].deliveries = mail[m].deliveries /\ mail'[m].stage \in Final
      BY <1>r, <2>4, BecomeMail, StagesFacts
    <3>2. Owed(m)' = 0
      BY <1>r, <3>1 DEF Owed
    <3> QED
      BY <1>0, <2>f, <3>1, <3>2, OwedFacts, CausedStep
  <2>5. CASE m = n /\ Become(n, "waiting") /\ (mail[m].stage = "unavailable" \/ ~InHands(m))
             /\ mail[m].stage \in {"inflight", "unavailable"}
    <3>1. mail'[m].deliveries = mail[m].deliveries
      BY <2>5, BecomeMail, StagesFacts
    <3>2. Owed(m) = 1 /\ Owed(m)' \in {0, 1} /\ mail[m].deliveries \in Nat
      BY <2>5, OwedFacts DEF Owed
    <3> QED
      BY <1>0, <2>f, <3>1, <3>2, CausedStep
  <2>6. CASE m = n /\ Become(n, "waiting") /\ Fault /\ m \in repeated'
    <3>1. mail'[m].deliveries = mail[m].deliveries
      BY <2>6, BecomeMail, StagesFacts
    <3>2. Owed(m)' \in {0, 1} /\ Owed(m) \in {0, 1} /\ mail[m].deliveries \in Nat
      BY OwedFacts DEF Owed
    <3>3. faults' = faults + 1
      BY <2>6 DEF Fault
    <3> QED
      BY <1>0, <2>f, <2>6, <3>1, <3>2, <3>3, CausedStep
  <2> QED
    BY <1>4, <2>3, <2>4, <2>5, <2>6, OutsideMail
<1>5. ASSUME NEW n \in Message, Reject(n), NEW m \in Message PROVE Caused(m)'
  <2>1. /\ UNCHANGED job /\ mail[n].stage = "waiting"
        /\ \/ mail' = Delivered(n, "rejected") /\ UNCHANGED <<faults, repeated>>
           \/ mail' = Delivered(n, "inflight") /\ Fault /\ repeated' = repeated \cup {n}
    BY <1>5 DEF Reject, Deliverable, BadRequest, AckOfRejected
  <2>2. InHands(m)' = InHands(m)
    BY <2>1 DEF InHands
  <2>f. faults' >= faults /\ repeated \subseteq repeated'
    BY <1>n, <2>1 DEF Fault
  <2>3. CASE m # n
    <3>1. mail'[m] = mail[m]
      BY <2>1, <2>3, DeliveredMail, StagesFacts
    <3> QED
      BY <1>0, <2>2, <2>f, <3>1, CausedKept
  <2>4. CASE m = n
    <3>1. mail'[m].deliveries = mail[m].deliveries + 1
      BY <1>0, <2>1, <2>4, DeliveredMail, WaitingFew, StagesFacts
    <3>2. Owed(m) = 1 /\ Owed(m)' \in {0, 1} /\ mail[m].deliveries \in Nat
      BY <2>1, <2>4, OwedFacts DEF Owed
    <3>3. CASE mail' = Delivered(n, "rejected")
      <4>1. mail'[m].stage = "rejected"
        BY <2>4, <3>3, DeliveredMail, StagesFacts
      <4>2. Owed(m)' = 0
        BY <4>1 DEF Owed
      <4> QED
        BY <1>0, <2>f, <3>1, <3>2, <4>2, CausedStep
    <3>4. CASE Fault /\ repeated' = repeated \cup {n}
      <4>1. faults' = faults + 1 /\ m \in repeated'
        BY <2>4, <3>4 DEF Fault
      <4> QED
        BY <1>0, <2>f, <3>1, <3>2, <4>1, CausedStep
    <3> QED
      BY <2>1, <3>3, <3>4
  <2> QED
    BY <2>3, <2>4
<1>6. ASSUME Crash, NEW m \in Message PROVE Caused(m)'
  <2>1. /\ mail'[m] = [mail[m] EXCEPT !.stage =
                         IF InHands(m) /\ Via(m) = "http" THEN "unavailable" ELSE mail[m].stage]
        /\ Fault /\ repeated' = repeated \cup {n \in Message : InHands(n)}
    BY <1>6 DEF Crash
  <2>2. /\ faults' = faults + 1 /\ faults' >= faults /\ repeated \subseteq repeated'
        /\ InHands(m) => m \in repeated'
    BY <1>n, <2>1 DEF Fault
  <2>3. CASE InHands(m)
    <3>1. mail[m] \in Mails
      BY DEF Typed
    <3>2. mail'[m].deliveries = mail[m].deliveries
      BY <2>1, <3>1 DEF Mails
    <3>3. Owed(m)' \in {0, 1} /\ Owed(m) \in {0, 1} /\ mail[m].deliveries \in Nat
      BY OwedFacts DEF Owed
    <3> QED
      BY <1>0, <2>2, <2>3, <3>2, <3>3, CausedStep
  <2>4. CASE ~InHands(m)
    <3>1. mail[m] \in Mails
      BY DEF Typed
    <3>2. mail'[m].stage = mail[m].stage /\ mail'[m].deliveries = mail[m].deliveries
      BY <2>1, <2>4, <3>1 DEF Mails
    <3>3. Owed(m)' <= Owed(m) /\ Owed(m)' \in {0, 1} /\ mail[m].deliveries \in Nat
      BY <2>4, <3>2, OwedFacts DEF Owed
    <3> QED
      BY <1>0, <2>2, <3>2, <3>3, OwedFacts, CausedStep
  <2> QED
    BY <2>3, <2>4
<1>7. ASSUME TimePasses \/ UNCHANGED vars, NEW m \in Message PROVE Caused(m)'
  <2>1. UNCHANGED <<mail, job, faults, repeated>>
    BY <1>7 DEF TimePasses, vars, history
  <2> QED
    BY <1>0, <2>1 DEF Caused, Owed, InHands
<1> QED
  BY <1>1, <1>2, <1>3, <1>4, <1>5, <1>6, <1>7, Steps DEF DeliveriesCaused

-----------------------------------------------------------------------------
(* How often an event is counted.                                          *)

\* The handlers that will come to the turn t of the message.
Pending(m, t) == {h \in Handlers : job[h] # Idle /\ job[h].msg = m /\ t \in job[h].todo}
Busy == {h \in Handlers : job[h] # Idle}

\* Each delivery of a message is worth one count of a turn, before it or behind it.
Due(m, t) == TimesCounted(Turn(m, t)) + Cardinality(Pending(m, t)) <= mail[m].deliveries
CountsDue == \A m \in Message, t \in (1 .. Slots) \X DOMAIN Rules : Due(m, t)

\* Finitely many handlers are at work at a time, however many there may be.
LEMMA BusyFinite ==
  ASSUME Typed, IsFiniteSet(Busy), [Next]_vars
  PROVE  IsFiniteSet(Busy')
<1>1. PICK h : Busy' \subseteq Busy \cup {h}
  <2>1. ASSUME NEW g \in Handlers, NEW j, job' = [job EXCEPT ![g] = j]
        PROVE  Busy' \subseteq Busy \cup {g}
    BY <2>1 DEF Busy, Typed
  <2>2. ASSUME NEW g \in Handlers, NEW m \in Message, Accept(g, m)
        PROVE  Busy' \subseteq Busy \cup {g}
    <3>1. PICK j : job' = [job EXCEPT ![g] = j]
      BY <2>2 DEF Accept
    <3> QED
      BY <2>1, <3>1
  <2>3. ASSUME NEW g \in Handlers, Works(g) PROVE Busy' \subseteq Busy \cup {g}
    <3>1. PICK j : job' = [job EXCEPT ![g] = j]
      BY <2>3, WorkedJob
    <3> QED
      BY <2>1, <3>1
  <2>4. ASSUME NEW g \in Handlers, Ends(g) PROVE Busy' \subseteq Busy \cup {g}
    <3>1. job' = [job EXCEPT ![g] = Idle]
      BY <2>4, EndedJob
    <3> QED
      BY <2>1, <3>1
  <2>5. Crash => Busy' \subseteq Busy
    BY DEF Crash, Busy
  <2>6. UNCHANGED job => Busy' \subseteq Busy
    BY DEF Busy
  <2>7. (\E m \in Message : Reject(m) \/ Outside(m)) \/ TimePasses \/ UNCHANGED vars => UNCHANGED job
    BY OutsideMail DEF Reject, TimePasses, vars
  <2> QED
    BY <2>2, <2>3, <2>4, <2>5, <2>6, <2>7, Steps
<1>2. IsFiniteSet(Busy \cup {h})
  BY FS_AddElement
<1> QED
  BY <1>1, <1>2, FS_Subset

\* The handlers that wait for a turn are finitely many, and one that leaves makes one less.
LEMMA PendingFacts ==
  ASSUME IsFiniteSet(Busy), NEW m, NEW t
  PROVE  /\ IsFiniteSet(Pending(m, t)) /\ Cardinality(Pending(m, t)) \in Nat
         /\ \A S \in SUBSET Pending(m, t) : /\ Cardinality(S) \in Nat
                                            /\ Cardinality(S) <= Cardinality(Pending(m, t))
         /\ \A h \in Pending(m, t) : \A S \in SUBSET (Pending(m, t) \ {h}) :
              Cardinality(S) + 1 <= Cardinality(Pending(m, t))
         /\ \A h : \A S \in SUBSET (Pending(m, t) \cup {h}) :
              Cardinality(S) \in Nat /\ Cardinality(S) <= Cardinality(Pending(m, t)) + 1
<1> DEFINE P == Pending(m, t)
<1>1. IsFiniteSet(P)
  BY FS_Subset DEF Pending, Busy
<1> HIDE DEF P
<1>2. Cardinality(P) \in Nat
  BY <1>1, FS_CardinalityType
<1>3. \A S \in SUBSET P : Cardinality(S) \in Nat /\ Cardinality(S) <= Cardinality(P)
  BY <1>1, FS_Subset, FS_CardinalityType
<1>4. ASSUME NEW h \in P, NEW S \in SUBSET (P \ {h})
      PROVE  Cardinality(S) + 1 <= Cardinality(P)
  <2>1. IsFiniteSet(P \ {h}) /\ Cardinality(P \ {h}) = Cardinality(P) - 1
    BY <1>1, FS_RemoveElement
  <2>2. Cardinality(S) <= Cardinality(P \ {h}) /\ Cardinality(S) \in Nat
    BY <2>1, FS_Subset, FS_CardinalityType
  <2> QED
    BY <1>2, <2>1, <2>2
<1>5. ASSUME NEW h, NEW S \in SUBSET (P \cup {h})
      PROVE  Cardinality(S) \in Nat /\ Cardinality(S) <= Cardinality(P) + 1
  <2>1. IsFiniteSet(P \cup {h}) /\ Cardinality(P \cup {h}) \in Nat
    BY <1>1, FS_AddElement, FS_CardinalityType
  <2>2. Cardinality(P \cup {h}) <= Cardinality(P) + 1
    BY <1>1, <1>2, FS_AddElement
  <2>3. Cardinality(S) <= Cardinality(P \cup {h}) /\ Cardinality(S) \in Nat
    BY <2>1, FS_Subset, FS_CardinalityType
  <2> QED
    BY <1>2, <2>1, <2>2, <2>3
<1> QED
  BY <1>1, <1>2, <1>3, <1>4, <1>5 DEF P

\* A turn that nobody counts, and that no handler newly waits for, stays paid for.
LEMMA DueKept ==
  ASSUME Typed, Typed', IsFiniteSet(Busy), NEW m \in Message, NEW t, Due(m, t),
         TimesCounted(Turn(m, t))' = TimesCounted(Turn(m, t)),
         Pending(m, t)' \subseteq Pending(m, t), mail'[m].deliveries >= mail[m].deliveries
  PROVE  Due(m, t)'
<1>1. /\ Cardinality(Pending(m, t)') \in Nat /\ Cardinality(Pending(m, t)) \in Nat
      /\ Cardinality(Pending(m, t)') <= Cardinality(Pending(m, t))
  BY PendingFacts
<1>2. TimesCounted(Turn(m, t)) \in Nat /\ mail[m].deliveries \in Nat /\ mail'[m].deliveries \in Nat
  BY DEF TimesCounted, Typed, Mails
<1> QED
  BY <1>1, <1>2 DEF Due

\* A handler that goes on or comes to the end waits for no new turn.
LEMMA PendingShrinks ==
  ASSUME Typed, NEW h \in Handlers, job[h] # Idle, NEW j, job' = [job EXCEPT ![h] = j],
         j = Idle \/ (j.msg = job[h].msg /\ j.todo \subseteq job[h].todo),
         NEW m, NEW t
  PROVE  /\ Pending(m, t)' \subseteq Pending(m, t)
         /\ j = Idle \/ t \notin j.todo => h \notin Pending(m, t)'
BY DEF Pending, Typed

\* The handler counts the turn it has come to, and no other.
LEMMA DueCounted ==
  ASSUME Typed, Typed', IsFiniteSet(Busy), CountsDue, NEW h \in Handlers, job[h] # Idle,
         NEW u \in job[h].todo, Count(h, u),
         NEW m \in Message, NEW t \in (1 .. Slots) \X DOMAIN Rules,
         Pending(m, t)' \subseteq Pending(m, t),
         t = u => h \notin Pending(m, t)',
         mail'[m].deliveries >= mail[m].deliveries
  PROVE  Due(m, t)'
<1>1. u = <<u[1], u[2]>> /\ t = <<t[1], t[2]>>
  BY TurnOccasions
<1>2. Turn(m, t) = Turn(job[h].msg, u) <=> m = job[h].msg /\ t = u
  BY <1>1 DEF Turn
<1>3. Due(m, t)
  BY DEF CountsDue
<1> DEFINE o == Turn(m, t)
<1>4. /\ TimesCounted(o) \in Nat
      /\ TimesCounted(o)' = TimesCounted(o) + IF o = Turn(job[h].msg, u) THEN 1 ELSE 0
  BY Counted
<1>5. mail[m].deliveries \in Nat /\ mail'[m].deliveries \in Nat
  BY DEF Typed, Mails
<1>6. CASE o # Turn(job[h].msg, u)
  BY <1>3, <1>4, <1>6, DueKept
<1>7. CASE o = Turn(job[h].msg, u)
  <2>1. h \in Pending(m, t) /\ h \notin Pending(m, t)'
    BY <1>2, <1>7 DEF Pending
  <2>2. /\ Cardinality(Pending(m, t)') + 1 <= Cardinality(Pending(m, t))
        /\ Cardinality(Pending(m, t)') \in Nat /\ Cardinality(Pending(m, t)) \in Nat
    BY <2>1, PendingFacts
  <2>3. TimesCounted(o)' = TimesCounted(o) + 1
    BY <1>4, <1>7
  <2> HIDE DEF o
  <2> QED
    BY <1>3, <1>4, <1>5, <2>2, <2>3 DEF Due, o
<1> QED
  BY <1>6, <1>7

\* What a working handler counts, it has done with.
LEMMA WorkedCount ==
  ASSUME Typed, NEW h \in Handlers, Works(h)
  PROVE  \/ UNCHANGED counted
         \/ \E t \in job[h].todo : Count(h, t) /\ t \notin job'[h].todo
<1>1. ASSUME job[h] # Idle, NEW t \in job[h].todo, Process(h, t)
      PROVE  Count(h, t) /\ t \notin job'[h].todo
  <2>1. Count(h, t) /\ \E ticks : job' = [job EXCEPT ![h] = nextTurn(h, t, ticks)]
    BY <1>1 DEF Process
  <2>2. PICK ticks : job' = [job EXCEPT ![h] = nextTurn(h, t, ticks)]
    BY <2>1
  <2>3. nextTurn(h, t, ticks).todo = job[h].todo \ {t}
    BY <1>1, NextTurnJob
  <2> QED
    BY <2>1, <2>2, <2>3 DEF Typed
<1> QED
  BY <1>1 DEF Works, Pass, RefreshTick

\* Every step leaves the turns paid for.
LEMMA CountsStep ==
  ASSUME Typed, DeliveriesCaused, IsFiniteSet(Busy), CountsDue, [Next]_vars
  PROVE  CountsDue'
<1>0. Typed' /\ \A m \in Message : mail'[m].deliveries >= mail[m].deliveries
  <2>1. \A m \in Message : mail[m].deliveries \in Nat
    BY DEF Typed, Mails
  <2> QED
    BY <2>1, TypedStep DEF MailKept
<1> SUFFICES ASSUME NEW m \in Message, NEW t \in (1 .. Slots) \X DOMAIN Rules PROVE Due(m, t)'
  BY DEF CountsDue
<1>d. Due(m, t)
  BY DEF CountsDue
<1>1. ASSUME NEW h \in Handlers, NEW n \in Message, Accept(h, n) PROVE Due(m, t)'
  <2>1. PICK j : job[h] = Idle /\ job' = [job EXCEPT ![h] = j] /\ Proper(j) /\ j.msg = n
    BY <1>1, AcceptedJob
  <2>2. /\ mail[n].stage = "waiting" /\ mail' = Delivered(n, "inflight") /\ UNCHANGED counted
    BY <1>1 DEF Accept, Deliverable
  <2>3. TimesCounted(Turn(m, t))' = TimesCounted(Turn(m, t)) /\ TimesCounted(Turn(m, t)) \in Nat
    BY <2>2 DEF TimesCounted, Typed
  <2>4. CASE m = n
    <3>1. Pending(m, t)' \subseteq Pending(m, t) \cup {h}
      BY <2>1 DEF Pending, Typed
    <3>2. mail'[m].deliveries = mail[m].deliveries + 1 /\ mail[m].deliveries \in Nat
      <4>1. mail[m].deliveries <= MaxFaults
        BY <2>2, <2>4, WaitingFew DEF DeliveriesCaused
      <4> QED
        BY <2>2, <2>4, <4>1, DeliveredMail, StagesFacts, OwedFacts
    <3>3. /\ Cardinality(Pending(m, t)') <= Cardinality(Pending(m, t)) + 1
          /\ Cardinality(Pending(m, t)') \in Nat /\ Cardinality(Pending(m, t)) \in Nat
      BY <3>1, PendingFacts
    <3> QED
      BY <1>d, <2>3, <3>2, <3>3 DEF Due
  <2>5. CASE m # n
    <3>1. Pending(m, t)' \subseteq Pending(m, t)
      BY <2>1, <2>5 DEF Pending, Typed
    <3> QED
      BY <1>0, <1>d, <2>3, <3>1, DueKept
  <2> QED
    BY <2>4, <2>5
<1>2. ASSUME NEW h \in Handlers, Works(h) PROVE Due(m, t)'
  <2>1. PICK j : /\ job[h] # Idle /\ job' = [job EXCEPT ![h] = j]
                 /\ j.msg = job[h].msg /\ j.todo \subseteq job[h].todo
    BY <1>2, WorkedJob
  <2>2. Pending(m, t)' \subseteq Pending(m, t) /\ (t \notin j.todo => h \notin Pending(m, t)')
    BY <2>1, PendingShrinks
  <2>3. CASE UNCHANGED counted
    <3>1. TimesCounted(Turn(m, t))' = TimesCounted(Turn(m, t))
      BY <2>3 DEF TimesCounted
    <3> QED
      BY <1>0, <1>d, <2>2, <3>1, DueKept
  <2>4. ASSUME NEW u \in job[h].todo, Count(h, u), u \notin job'[h].todo PROVE Due(m, t)'
    <3>1. j = job'[h]
      BY <2>1 DEF Typed
    <3> QED
      BY <1>0, <2>1, <2>2, <2>4, <3>1, DueCounted
  <2> QED
    BY <1>2, <2>3, <2>4, WorkedCount
<1>3. ASSUME NEW h \in Handlers, Ends(h) PROVE Due(m, t)'
  <2>1. job[h] # Idle /\ job' = [job EXCEPT ![h] = Idle]
    BY <1>3, EndedJob
  <2>2. Pending(m, t)' \subseteq Pending(m, t) /\ h \notin Pending(m, t)'
    BY <2>1, PendingShrinks
  <2>3. CASE UNCHANGED counted
    <3>1. TimesCounted(Turn(m, t))' = TimesCounted(Turn(m, t))
      BY <2>3 DEF TimesCounted
    <3> QED
      BY <1>0, <1>d, <2>2, <3>1, DueKept
  <2>4. ASSUME NEW u \in job[h].todo, Count(h, u) PROVE Due(m, t)'
    BY <1>0, <2>1, <2>2, <2>4, DueCounted
  <2> QED
    BY <1>3, <2>3, <2>4, EndedCount
<1>4. ASSUME UNCHANGED counted, UNCHANGED job \/ Crash PROVE Due(m, t)'
  <2>1. TimesCounted(Turn(m, t))' = TimesCounted(Turn(m, t))
    BY <1>4 DEF TimesCounted
  <2>2. Pending(m, t)' \subseteq Pending(m, t)
    BY <1>4 DEF Pending, Crash
  <2> QED
    BY <1>0, <1>d, <2>1, <2>2, DueKept
<1>5. (\E n \in Message : Reject(n) \/ Outside(n)) \/ TimePasses \/ UNCHANGED vars
        => UNCHANGED counted /\ UNCHANGED job
  BY OutsideMail DEF Reject, TimePasses, vars, history
<1>6. Crash => UNCHANGED counted
  BY DEF Crash
<1> QED
  BY <1>1, <1>2, <1>3, <1>4, <1>5, <1>6, Steps

\* Nothing runs, nothing was delivered and nothing counted at first.
LEMMA InitFacts ==
  ASSUME Init
  PROVE  /\ Typed /\ DeliveriesCaused /\ Busy = {} /\ CountsDue
         /\ \A m \in Message : mail[m].stage = "waiting"
<1>1. \A m \in Message : mail[m] \in Mails /\ mail[m].stage = "waiting" /\ mail[m].deliveries = 0
  BY StagesFacts DEF Init, Mails
<1>2. \A h \in Handlers : job[h] = Idle
  BY DEF Init
<1>3. Typed
  <2>1. mail \in [Message -> Mails]
    BY <1>1 DEF Init
  <2>2. faults \in 0 .. MaxFaults
    BY BoundsAssumption DEF Init
  <2>3. DOMAIN counted = {}
    BY DEF Init
  <2>4. DOMAIN job = Handlers
    BY DEF Init
  <2> QED
    BY <1>2, <2>1, <2>2, <2>3, <2>4 DEF Typed
<1>4. DeliveriesCaused
  <2>1. ASSUME NEW m \in Message PROVE Caused(m)
    <3>1. Owed(m) = 1 /\ mail[m].deliveries = 0 /\ m \notin repeated
      BY <1>1 DEF Owed, Init
    <3> QED
      BY <3>1 DEF Caused
  <2> QED
    BY <2>1 DEF DeliveriesCaused
<1>5. Busy = {}
  BY <1>2 DEF Busy
<1>6. CountsDue
  <2>1. ASSUME NEW m \in Message, NEW t \in (1 .. Slots) \X DOMAIN Rules PROVE Due(m, t)
    <3>1. Pending(m, t) = {}
      BY <1>2 DEF Pending
    <3>2. Cardinality(Pending(m, t)) = 0
      BY <3>1, FS_EmptySet
    <3>3. TimesCounted(Turn(m, t)) = 0
      BY DEF TimesCounted, Init
    <3> QED
      BY <1>1, <3>2, <3>3 DEF Due
  <2> QED
    BY <2>1 DEF CountsDue
<1> QED
  BY <1>1, <1>3, <1>4, <1>5, <1>6

\* The engine counts an event once for each delivery of its message, and a message is delivered
\* again only after an error, a lost or overdue answer or a crash: whatever the handlers do at
\* the same time, count_total and count_window see no other duplicates.  The turns still to come
\* are what makes this inductive: each delivery pays for the turns of one handler, and a
\* message that is in nobody's hands and has no answer owes one more.
THEOREM CountedOnce == Spec => []CountedOncePerDelivery
<1> DEFINE Inv == Typed /\ DeliveriesCaused /\ IsFiniteSet(Busy) /\ CountsDue
<1>1. Init => Inv
  BY InitFacts, FS_EmptySet
<1>2. Inv /\ [Next]_vars => Inv'
  BY TypedStep, DeliveriesStep, BusyFinite, CountsStep
<1>3. Inv => CountedOncePerDelivery
  <2> SUFFICES ASSUME Inv PROVE CountedOncePerDelivery
    OBVIOUS
  <2>1. ASSUME NEW o \in DOMAIN counted PROVE counted[o] <= mail[o[1]].deliveries
    <3>1. o \in Occasions
      BY <2>1 DEF Typed
    <3> DEFINE m == o[1]
               t == <<o[2], o[3]>>
    <3>2. m \in Message /\ t \in (1 .. Slots) \X DOMAIN Rules /\ o = Turn(m, t)
      BY <3>1 DEF Occasions, Turn
    <3>3. Due(m, t)
      BY <3>2 DEF CountsDue
    <3>4. TimesCounted(o) = counted[o] /\ counted[o] \in Nat
      BY <2>1 DEF TimesCounted, Typed
    <3>5. Cardinality(Pending(m, t)) \in Nat
      BY PendingFacts
    <3>6. mail[m].deliveries \in Nat
      BY <3>2 DEF Typed, Mails
    <3> HIDE DEF m, t
    <3>7. counted[o] <= mail[m].deliveries
      BY <3>2, <3>3, <3>4, <3>5, <3>6 DEF Due
    <3> QED
      BY <3>7 DEF m
  <2>2. ASSUME NEW m \in Message, mail[m].deliveries > 1 PROVE m \in repeated
    <3>1. Owed(m) \in {0, 1} /\ mail[m].deliveries \in Nat
      BY OwedFacts
    <3>2. Caused(m)
      BY DEF DeliveriesCaused
    <3> QED
      BY <2>2, <3>1, <3>2 DEF Caused
  <2> QED
    BY <2>1, <2>2 DEF CountedOncePerDelivery
<1> QED
  BY <1>1, <1>2, <1>3, PTL DEF Spec

-----------------------------------------------------------------------------
(* What an answer tells.                                                   *)

\* A turn that is neither ahead of a handler nor waiting for its tick has gone through, or was
\* dropped as out of order.
Done(m, t) == Turn(m, t) \in applied \cup late
Ahead(j, t) == t \in j.todo \/ \E tick \in j.ticks : tick[1] = Turn(j.msg, t)

\* A handler of a message that was decoded into what was sent has only to come to its end.
Faithful(j) ==
  /\ mail[j.msg].payload \in Acceptable
  /\ \A t \in Selected[mail[j.msg].payload] : Ahead(j, t) \/ Done(j.msg, t)

\* What the stage of such a message, and its being counted, say of it.
Truthful(m) ==
  /\ mail[m].stage = "processed" => \A t \in Selected[mail[m].payload] : Done(m, t)
  /\ mail[m].stage = "rejected" => mail[m].payload \notin Acceptable
  /\ \A o \in DOMAIN counted : o[1] = m => mail[m].payload \in Acceptable

Truth ==
  /\ \A h \in Handlers : job[h] # Idle /\ job[h].msg \notin skewed => Faithful(job[h])
  /\ \A m \in Message \ skewed : Truthful(m)

\* What was done stays done, and a message decoded into something else stays so.
DoneGrows == applied \cup late \subseteq applied' \cup late' /\ skewed \subseteq skewed'

\* A handler that the step leaves alone stays faithful.
LEMMA FaithfulKept ==
  ASSUME Typed, MailKept \/ UNCHANGED mail, DoneGrows, NEW j, j.msg \in Message, Faithful(j)
  PROVE  Faithful(j)'
<1>1. mail'[j.msg].payload = mail[j.msg].payload
  BY DEF MailKept
<1>2. \A t : Done(j.msg, t) => Done(j.msg, t)'
  BY DEF Done, DoneGrows
<1> QED
  BY <1>1, <1>2 DEF Faithful, Ahead

\* A message whose answer does not change, or changes to a true one, and of which no event is
\* newly counted unless its contract holds.
LEMMA TruthfulKept ==
  ASSUME Typed, MailKept \/ UNCHANGED mail, DoneGrows, NEW m \in Message, Truthful(m),
         mail'[m].stage = "processed" =>
           mail[m].stage = "processed" \/ \A t \in Selected[mail[m].payload] : Done(m, t),
         mail'[m].stage = "rejected" =>
           mail[m].stage = "rejected" \/ mail[m].payload \notin Acceptable,
         \A o \in DOMAIN counted' : o[1] = m =>
           o \in DOMAIN counted \/ mail[m].payload \in Acceptable
  PROVE  Truthful(m)'
<1>1. mail'[m].payload = mail[m].payload
  BY DEF MailKept
<1>2. \A t : Done(m, t) => Done(m, t)'
  BY DEF Done, DoneGrows
<1> QED
  BY <1>1, <1>2 DEF Truthful

\* A handler that goes on loses no turn: it is done, or waits for the refresh of its tick.
LEMMA WorkedFaithful ==
  ASSUME Typed, NEW h \in Handlers, Works(h), Faithful(job[h])
  PROVE  DoneGrows /\ \E j : job' = [job EXCEPT ![h] = j] /\ j.msg = job[h].msg /\ Faithful(j)'
<1>0. job[h] # Idle /\ UNCHANGED <<mail, skewed>>
  BY WorkedJob
<1>m. PICK m : m = job[h].msg
  OBVIOUS
<1>1. ASSUME NEW j, j.msg = m, DoneGrows,
             \A t : Ahead(job[h], t) => Ahead(j, t) \/ Done(m, t)'
      PROVE  Faithful(j)'
  <2>1. \A t : Done(m, t) => Done(m, t)'
    BY <1>1 DEF Done, DoneGrows
  <2>2. mail' = mail
    BY <1>0
  <2> QED
    BY <1>m, <1>1, <2>1, <2>2 DEF Faithful, Ahead
<1>2. ASSUME NEW t \in job[h].todo, Pass(h, t)
      PROVE  DoneGrows /\ \E j : job' = [job EXCEPT ![h] = j] /\ j.msg = m /\ Faithful(j)'
  <2>1. /\ job' = [job EXCEPT ![h] = nextTurn(h, t, job[h].ticks)]
        /\ late' = late \cup {Turn(m, t)} /\ applied' = applied
    BY <1>m, <1>2 DEF Pass
  <2> DEFINE j == nextTurn(h, t, job[h].ticks)
  <2>2. j.todo = job[h].todo \ {t} /\ j.ticks = job[h].ticks /\ j.msg = m
    BY <1>0, <1>m, NextTurnJob
  <2>3. DoneGrows
    BY <1>0, <2>1 DEF DoneGrows
  <2>4. job' = [job EXCEPT ![h] = j]
    BY <2>1
  <2> HIDE DEF j
  <2>5. \A u : Ahead(job[h], u) => Ahead(j, u) \/ Done(m, u)'
    BY <1>m, <2>1, <2>2 DEF Ahead, Done
  <2> QED
    BY <1>1, <2>2, <2>3, <2>4, <2>5
<1>3. ASSUME NEW t \in job[h].todo, Process(h, t)
      PROVE  DoneGrows /\ \E j : job' = [job EXCEPT ![h] = j] /\ j.msg = m /\ Faithful(j)'
  <2>1. PICK ticks :
          /\ job' = [job EXCEPT ![h] = nextTurn(h, t, ticks)] /\ late' = late
          /\ applied \subseteq applied' /\ job[h].ticks \subseteq ticks
          /\ Turn(m, t) \in applied' \/ \E tick \in ticks : tick[1] = Turn(m, t)
    <3> DEFINE tick == <<Turn(m, t), BuildAlertKey(Rule(t), Event(h, t))>>
    <3>1. tick[1] = Turn(m, t)
      OBVIOUS
    <3>2. \/ /\ applied' = applied \cup {Turn(m, t)}
             /\ job' = [job EXCEPT ![h] = nextTurn(h, t, job[h].ticks)]
          \/ /\ job' = [job EXCEPT ![h] = nextTurn(h, t, job[h].ticks \cup {tick})]
             /\ applied' = applied
      BY <1>m, <1>3 DEF Process
    <3>3. late' = late
      BY <1>m, <1>3 DEF Process
    <3> HIDE DEF tick
    <3> QED
      BY <3>1, <3>2, <3>3
  <2> DEFINE j == nextTurn(h, t, ticks)
  <2>2. j.todo = job[h].todo \ {t} /\ j.ticks = ticks /\ j.msg = m
    BY <1>0, <1>m, NextTurnJob
  <2>3. DoneGrows
    BY <1>0, <2>1 DEF DoneGrows
  <2>4. job' = [job EXCEPT ![h] = j]
    BY <2>1
  <2> HIDE DEF j
  <2>5. \A u : Ahead(job[h], u) => Ahead(j, u) \/ Done(m, u)'
    BY <1>m, <2>1, <2>2 DEF Ahead, Done
  <2> QED
    BY <1>1, <2>2, <2>3, <2>4, <2>5
<1>4. ASSUME RefreshTick(h)
      PROVE  DoneGrows /\ \E j : job' = [job EXCEPT ![h] = j] /\ j.msg = m /\ Faithful(j)'
  <2>1. PICK done : /\ job' = [job EXCEPT ![h].ticks = @ \ done] /\ late' = late
                    /\ applied' = applied \cup {tick[1] : tick \in done}
    BY <1>4 DEF RefreshTick
  <2> DEFINE j == [job[h] EXCEPT !.ticks = @ \ done]
  <2>2. j.todo = job[h].todo /\ j.ticks = job[h].ticks \ done /\ j.msg = m
    BY <1>0, <1>m, RefreshedJob
  <2>3. DoneGrows
    BY <1>0, <2>1 DEF DoneGrows
  <2>4. job' = [job EXCEPT ![h] = j]
    BY <2>1
  <2> HIDE DEF j
  <2>5. \A u : Ahead(job[h], u) => Ahead(j, u) \/ Done(m, u)'
    BY <1>m, <2>1, <2>2 DEF Ahead, Done
  <2> QED
    BY <1>1, <2>2, <2>3, <2>4, <2>5
<1> QED
  BY <1>m, <1>2, <1>3, <1>4 DEF Works

\* A handler at its end has come to all its turns.
LEMMA HandledDone ==
  ASSUME NEW h \in Handlers, Answer(h), Faithful(job[h])
  PROVE  \A t \in Selected[mail[job[h].msg].payload] : Done(job[h].msg, t)
BY DEF Answer, Handled, Pushed, Faithful, Ahead

\* Who accepts or rejects a message that was decoded into what was sent decides by what was
\* sent.
LEMMA DecidedAsSent ==
  ASSUME Typed, NEW m \in Message, NEW events, NoteSkew(m, events), m \notin skewed'
  PROVE  /\ skewed \subseteq skewed'
         /\ Accepts(Payload(m), events) =>
              mail[m].payload \in Acceptable /\ events = Sent[mail[m].payload]
         /\ ~Accepts(Payload(m), events) => mail[m].payload \notin Acceptable
<1>1. mail[m].payload \in DOMAIN Payloads
  BY DEF Typed, Mails
<1>2. /\ skewed \subseteq skewed'
      /\ Payloads[mail[m].payload].syntax = "ok" => events = Sent[mail[m].payload]
  BY DEF NoteSkew, Payload
<1> QED
  BY <1>1, <1>2 DEF Accepts, Acceptable, Payload

\* A message decoded into something else is noted.
LEMMA SkewGrows ==
  ASSUME NEW m, NEW events, NoteSkew(m, events)
  PROVE  skewed \subseteq skewed'
BY DEF NoteSkew

\* Every step leaves the answers true.
LEMMA TruthStep ==
  ASSUME Typed, Truth, [Next]_vars
  PROVE  Truth'
<1>0. MailKept \/ UNCHANGED mail
  BY TypedStep
<1>k. \A m \in Message : mail'[m].payload = mail[m].payload
  BY <1>0 DEF MailKept
<1>r. Final = {"processed", "rejected", "exhausted", "abandoned"}
  BY StagesFacts
<1>t. /\ \A h \in Handlers : job[h] # Idle /\ job[h].msg \notin skewed => Faithful(job[h])
      /\ \A m \in Message \ skewed : Truthful(m)
      /\ \A h \in Handlers : job[h] # Idle => job[h].msg \in Message
  BY DEF Truth, Typed, Proper
\* The two halves of the invariant, from what a step does to the handlers and to the mail.
<1>j. ASSUME DoneGrows,
             \A h \in Handlers : job'[h] # Idle /\ job'[h].msg \notin skewed' =>
               job'[h] = job[h] \/ Faithful(job[h])'
      PROVE  \A h \in Handlers : (job[h] # Idle /\ job[h].msg \notin skewed => Faithful(job[h]))'
  <2> SUFFICES ASSUME NEW h \in Handlers, job'[h] # Idle, job'[h].msg \notin skewed'
               PROVE  Faithful(job[h])'
    BY DEF Idle
  <2>1. CASE job'[h] = job[h]
    <3>1. PICK j : j = job[h]
      OBVIOUS
    <3>2. job[h].msg \notin skewed
      BY <1>j, <2>1 DEF DoneGrows
    <3>3. Faithful(j) /\ j.msg \in Message
      BY <1>t, <2>1, <3>1, <3>2
    <3>4. Faithful(j)'
      BY <1>0, <1>j, <3>3, FaithfulKept
    <3> QED
      BY <2>1, <3>1, <3>4 DEF Faithful, Ahead, Done, Turn
  <2> QED
    BY <1>j, <2>1
<1>m. ASSUME DoneGrows, UNCHANGED counted, NEW m \in Message, m \notin skewed',
             mail'[m].stage = mail[m].stage \/ mail'[m].stage \notin {"processed", "rejected"}
      PROVE  Truthful(m)'
  <2>1. Truthful(m)
    BY <1>t, <1>m DEF DoneGrows
  <2> QED
    BY <1>0, <1>m, <2>1, TruthfulKept
<1>1. ASSUME NEW h \in Handlers, NEW n \in Message, Accept(h, n) PROVE Truth'
  <2>0. PICK events : \E j : /\ Accepts(Payload(n), events) /\ NoteSkew(n, events)
                             /\ job' = [job EXCEPT ![h] = j]
                             /\ j.msg = n /\ j.todo = Turns(events)
    BY <1>1, AcceptedJob
  <2>1. PICK j : /\ Accepts(Payload(n), events) /\ NoteSkew(n, events)
                 /\ job' = [job EXCEPT ![h] = j]
                 /\ j.msg = n /\ j.todo = Turns(events)
    BY <2>0
  <2>2. mail' = Delivered(n, "inflight") /\ UNCHANGED <<counted, applied, late>>
    BY <1>1 DEF Accept
  <2>3. DoneGrows
    BY <2>1, <2>2, SkewGrows DEF DoneGrows
  <2>4. ASSUME n \notin skewed' PROVE Faithful(j)'
    <3>1. j.todo = Selected[mail[n].payload] /\ mail[n].payload \in Acceptable
      BY <2>1, <2>4, DecidedAsSent DEF Selected, Acceptable
    <3> QED
      BY <1>k, <2>1, <3>1 DEF Faithful, Ahead
  <2>5. \A g \in Handlers : (job[g] # Idle /\ job[g].msg \notin skewed => Faithful(job[g]))'
    <3>1. ASSUME NEW g \in Handlers, job'[g] # Idle, job'[g].msg \notin skewed'
          PROVE  job'[g] = job[g] \/ Faithful(job[g])'
      <4>1. g # h => job'[g] = job[g]
        BY <2>1
      <4>2. g = h => job'[g] = j
        BY <2>1 DEF Typed
      <4>3. g = h => Faithful(job[g])'
        BY <2>1, <2>4, <3>1, <4>2 DEF Faithful, Ahead, Done, Turn
      <4> QED
        BY <4>1, <4>3
    <3> QED
      BY <1>j, <2>3, <3>1
  <2>6. \A m \in Message : m \notin skewed' => Truthful(m)'
    <3>1. ASSUME NEW m \in Message
          PROVE  mail'[m].stage = mail[m].stage \/ mail'[m].stage \notin {"processed", "rejected"}
      BY <2>2, DeliveredMail, StagesFacts
    <3> QED
      BY <1>m, <2>2, <2>3, <3>1
  <2> QED
    BY <2>5, <2>6 DEF Truth
<1>2. ASSUME NEW h \in Handlers, Works(h) PROVE Truth'
  <2>1. PICK j : job[h] # Idle /\ job' = [job EXCEPT ![h] = j] /\ j.msg = job[h].msg
    BY <1>2, WorkedJob
  <2>2. UNCHANGED <<mail, skewed>>
    BY <1>2, WorkedJob
  <2>3. DoneGrows
    BY <1>2, <2>2 DEF DoneGrows, Works, Pass, Process, RefreshTick
  <2>4. ASSUME job[h].msg \notin skewed PROVE Faithful(job[h])'
    <3>1. PICK i : job' = [job EXCEPT ![h] = i] /\ Faithful(i)'
      BY <1>2, <1>t, <2>1, <2>4, WorkedFaithful
    <3>2. job'[h] = i
      BY <3>1 DEF Typed
    <3> QED
      BY <3>1, <3>2 DEF Faithful, Ahead, Done, Turn
  <2>5. \A g \in Handlers : (job[g] # Idle /\ job[g].msg \notin skewed => Faithful(job[g]))'
    <3>1. ASSUME NEW g \in Handlers, job'[g] # Idle, job'[g].msg \notin skewed'
          PROVE  job'[g] = job[g] \/ Faithful(job[g])'
      <4>1. g # h => job'[g] = job[g]
        BY <2>1
      <4>2. job'[h].msg = job[h].msg
        BY <2>1 DEF Typed
      <4> QED
        BY <2>2, <2>4, <3>1, <4>1, <4>2
    <3> QED
      BY <1>j, <2>3, <3>1
  <2>6. ASSUME NEW m \in Message, m \notin skewed' PROVE Truthful(m)'
    <3>1. Truthful(m) /\ mail'[m] = mail[m]
      BY <1>t, <2>2, <2>6
    <3>2. ASSUME NEW o \in DOMAIN counted', o[1] = m, o \notin DOMAIN counted
          PROVE  mail[m].payload \in Acceptable
      <4>1. PICK t \in job[h].todo : Count(h, t)
        BY <1>2, <3>2, WorkedCount
      <4>2. o = Turn(job[h].msg, t)
        <5>1. DOMAIN counted' = DOMAIN counted \cup {Turn(job[h].msg, t)}
          BY <2>1, <4>1, Counted, ZenonT(30)
        <5> QED
          BY <3>2, <5>1, Zenon
      <4>3. m = job[h].msg
        BY <3>2, <4>2 DEF Turn
      <4> QED
        BY <1>t, <2>1, <2>2, <2>6, <4>3 DEF Faithful
    <3> QED
      BY <1>0, <2>3, <3>1, <3>2, TruthfulKept
  <2> QED
    BY <2>5, <2>6 DEF Truth
<1>3. ASSUME NEW h \in Handlers, Ends(h) PROVE Truth'
  <2> DEFINE n == job[h].msg
  <2>1. /\ job[h] # Idle /\ job' = [job EXCEPT ![h] = Idle]
        /\ UNCHANGED <<applied, late, skewed>>
        /\ \/ Answer(h) /\ Become(n, "processed")
           \/ UNCHANGED mail
           \/ \E stage \in {"waiting", "unavailable"} : Become(n, stage)
    BY <1>3, EndedJob
  <2>2. n \in Message /\ (n \notin skewed => Faithful(job[h])) /\ DoneGrows
    BY <1>t, <2>1 DEF DoneGrows
  <2>5. \A g \in Handlers : (job[g] # Idle /\ job[g].msg \notin skewed => Faithful(job[g]))'
    <3>1. ASSUME NEW g \in Handlers, job'[g] # Idle PROVE job'[g] = job[g]
      BY <2>1, <3>1 DEF Typed
    <3> QED
      BY <1>j, <2>2, <3>1
  <2>6. ASSUME NEW m \in Message, m \notin skewed' PROVE Truthful(m)'
    <3>1. Truthful(m)
      BY <1>t, <2>1, <2>6
    <3>2. ASSUME NEW o \in DOMAIN counted', o[1] = m, o \notin DOMAIN counted
          PROVE  mail[m].payload \in Acceptable
      <4>1. PICK t \in job[h].todo : Count(h, t)
        BY <1>3, <3>2, EndedCount
      <4>2. o = Turn(job[h].msg, t)
        <5>1. DOMAIN counted' = DOMAIN counted \cup {Turn(job[h].msg, t)}
          BY <2>1, <4>1, Counted, ZenonT(30)
        <5> QED
          BY <3>2, <5>1, Zenon
      <4>3. m = job[h].msg
        BY <3>2, <4>2 DEF Turn
      <4> QED
        BY <1>t, <2>1, <2>6, <4>3 DEF Faithful
    <3>3. /\ mail'[m].stage = "processed" =>
               mail[m].stage = "processed" \/ \A t \in Selected[mail[m].payload] : Done(m, t)
          /\ mail'[m].stage = "rejected" => mail[m].stage = "rejected"
      <4>1. CASE UNCHANGED mail
        BY <4>1
      <4>2. CASE \E stage \in {"waiting", "unavailable"} : Become(n, stage)
        BY <2>2, <4>2, BecomeMail, StagesFacts
      <4>3. CASE Answer(h) /\ Become(n, "processed")
        <5>1. m # n => mail'[m] = mail[m]
          BY <2>2, <4>3, BecomeMail, StagesFacts
        <5>2. m = n => mail'[m].stage = IF mail[m].stage \in Final THEN mail[m].stage ELSE "processed"
          BY <2>2, <4>3, BecomeMail, StagesFacts
        <5>3. m = n => \A t \in Selected[mail[m].payload] : Done(m, t)
          BY <2>1, <2>2, <2>6, <4>3, HandledDone
        <5> QED
          BY <5>1, <5>2, <5>3
      <4> QED
        BY <2>1, <4>1, <4>2, <4>3
    <3> QED
      BY <1>0, <2>2, <3>1, <3>2, <3>3, TruthfulKept
  <2> QED
    BY <2>5, <2>6 DEF Truth
<1>4. ASSUME NEW n \in Message, Outside(n) PROVE Truth'
  <2>1. /\ UNCHANGED <<job, counted, applied, late, skewed>>
        /\ \E stage \in {"waiting", "exhausted", "abandoned"} : Become(n, stage)
    BY <1>4, OutsideMail
  <2>2. DoneGrows /\ UNCHANGED counted /\ \A h \in Handlers : job'[h] = job[h]
    BY <2>1 DEF DoneGrows
  <2>3. ASSUME NEW m \in Message
        PROVE  mail'[m].stage = mail[m].stage \/ mail'[m].stage \notin {"processed", "rejected"}
    BY <2>1, BecomeMail, StagesFacts
  <2> QED
    BY <1>j, <1>m, <2>2, <2>3 DEF Truth
<1>5. ASSUME NEW n \in Message, Reject(n) PROVE Truth'
  <2>1. /\ UNCHANGED <<job, counted, applied, late>>
        /\ \E stage \in {"rejected", "inflight"} : mail' = Delivered(n, stage)
    BY <1>5 DEF Reject, BadRequest, AckOfRejected
  <2>2. PICK events : ~Accepts(Payload(n), events) /\ NoteSkew(n, events)
    BY <1>5 DEF Reject
  <2>3. DoneGrows /\ UNCHANGED counted /\ \A h \in Handlers : job'[h] = job[h]
    BY <2>1, <2>2, SkewGrows DEF DoneGrows
  <2>4. ASSUME NEW m \in Message, m \notin skewed' PROVE Truthful(m)'
    <3>1. m # n => mail'[m] = mail[m]
      BY <2>1, DeliveredMail, StagesFacts
    <3>2. m = n => mail'[m].stage # "processed" /\ mail[m].payload \notin Acceptable
      BY <2>1, <2>2, <2>4, DecidedAsSent, DeliveredMail, StagesFacts
    <3>3. Truthful(m)
      BY <1>t, <2>3, <2>4 DEF DoneGrows
    <3> QED
      BY <1>0, <2>3, <3>1, <3>2, <3>3, TruthfulKept
  <2> QED
    BY <1>j, <2>3, <2>4 DEF Truth
<1>6. ASSUME Crash PROVE Truth'
  <2>1. /\ \A h \in Handlers : job'[h] = Idle
        /\ UNCHANGED <<counted, applied, late, skewed>>
    BY <1>6 DEF Crash
  <2>2. DoneGrows
    BY <2>1 DEF DoneGrows
  <2>3. ASSUME NEW m \in Message
        PROVE  mail'[m].stage = mail[m].stage \/ mail'[m].stage = "unavailable"
    <3>1. mail[m] \in Mails
      BY DEF Typed
    <3> QED
      BY <1>6, <3>1 DEF Crash, Mails
  <2> QED
    BY <1>j, <1>m, <2>1, <2>2, <2>3 DEF Truth
<1>7. CASE TimePasses \/ UNCHANGED vars
  <2>1. UNCHANGED <<mail, job, counted, applied, late, skewed>>
    BY <1>7 DEF TimePasses, vars, history
  <2>2. DoneGrows
    BY <2>1 DEF DoneGrows
  <2> QED
    BY <1>j, <1>m, <2>1, <2>2 DEF Truth
<1> QED
  BY <1>1, <1>2, <1>3, <1>4, <1>5, <1>6, <1>7, Steps

\* What a producer may conclude from the answer.  A processed message has had every rule that
\* selects one of its events applied, the refresh of its tick included, unless the rule dropped
\* the event as out of order; of a rejected one nothing was counted and its contract does not
\* hold.  Whatever turns a slow handler still has, an answer of its own waits for them; a
\* handler that fails leaves the answer to the next delivery.
THEOREM AnswersTrue == Spec => []AnswerTellsTheTruth
<1>1. Init => Typed /\ Truth
  <2>1. Init => Truth
    BY InitFacts DEF Truth, Truthful, Init
  <2> QED
    BY <2>1, InitFacts
<1>2. Typed /\ Truth /\ [Next]_vars => (Typed /\ Truth)'
  BY TypedStep, TruthStep
<1>3. Typed /\ Truth => AnswerTellsTheTruth
  BY DEF Truth, Truthful, Done, AnswerTellsTheTruth
<1> QED
  BY <1>1, <1>2, <1>3, PTL DEF Spec

-----------------------------------------------------------------------------
(* What a scratch leaves in an event.                                      *)

\* An event is its sources' when each of its fields and tags is a source's.
Made(event, sources) ==
  /\ \A f \in DOMAIN event.set : \E e \in sources : f \in DOMAIN e.set /\ e.set[f] = event.set[f]
  /\ \A k \in DOMAIN event.tags : \E e \in sources : k \in DOMAIN e.tags /\ e.tags[k] = event.tags[k]

\* The events of the rejected batches, as they were sent.
Rejects == UNION {Range(Sent[mail[m].payload]) : m \in spoiled}

\* A scratch holds leftovers of rejected batches only, in the pool and next to the events of a
\* handler; an event holds its own and such.
Leftover(scratch, used) == \A i \in (1 .. Slots) \ used : Made(scratch[i], Rejects)
OwnOrLeft(j) ==
  LET sent == Sent[mail[j.msg].payload]
  IN /\ \A i \in DOMAIN sent : Made(j.events[i], {sent[i]} \cup Rejects)
     /\ Leftover(j.scratch, DOMAIN j.events)
Leftovers ==
  /\ spoiled \subseteq Message
  /\ \A scratch \in pool : Leftover(scratch, {})
  /\ \A h \in Handlers : job[h] # Idle => OwnOrLeft(job[h])
\* What is made of some sources is made of more.
LEMMA MadeOfMore ==
  ASSUME NEW event, NEW few, NEW more, few \subseteq more, Made(event, few)
  PROVE  Made(event, more)
BY DEF Made

\* A zeroed slot holds nothing.
LEMMA ZeroMade ==
  ASSUME NEW sources
  PROVE  Made(ZeroEvent, sources)
BY DEF Made, ZeroEvent

\* Decoding over a slot: what the JSON gives is its own, the rest the slot's.
LEMMA DecodedMade ==
  ASSUME NEW slot, NEW event, NEW sources, Made(slot, sources)
  PROVE  Made(DecodeInto(slot, event), {DecodeInto(ZeroEvent, event)} \cup sources)
<1> DEFINE own == DecodeInto(ZeroEvent, event)
           made == DecodeInto(slot, event)
<1>1. /\ DOMAIN made.set = DOMAIN event.set \cup DOMAIN slot.set
      /\ \A f \in DOMAIN made.set :
           made.set[f] = IF f \in DOMAIN event.set THEN event.set[f] ELSE slot.set[f]
      /\ DOMAIN made.tags = DOMAIN event.tags \cup DOMAIN slot.tags
      /\ \A k \in DOMAIN made.tags :
           made.tags[k] = IF k \in DOMAIN event.tags THEN event.tags[k] ELSE slot.tags[k]
  BY DEF DecodeInto, Over
<1>2. /\ DOMAIN event.set \subseteq DOMAIN own.set
      /\ \A f \in DOMAIN event.set : own.set[f] = event.set[f]
      /\ DOMAIN event.tags \subseteq DOMAIN own.tags
      /\ \A k \in DOMAIN event.tags : own.tags[k] = event.tags[k]
  BY DEF DecodeInto, Over
<1> HIDE DEF own, made
<1>3. ASSUME NEW f \in DOMAIN made.set
      PROVE  \E e \in {own} \cup sources : f \in DOMAIN e.set /\ e.set[f] = made.set[f]
  <2>1. CASE f \in DOMAIN event.set
    BY <1>1, <1>2, <2>1
  <2>2. CASE f \notin DOMAIN event.set
    BY <1>1, <2>2 DEF Made
  <2> QED
    BY <2>1, <2>2
<1>4. ASSUME NEW k \in DOMAIN made.tags
      PROVE  \E e \in {own} \cup sources : k \in DOMAIN e.tags /\ e.tags[k] = made.tags[k]
  <2>1. CASE k \in DOMAIN event.tags
    BY <1>1, <1>2, <2>1
  <2>2. CASE k \notin DOMAIN event.tags
    BY <1>1, <2>2 DEF Made
  <2> QED
    BY <2>1, <2>2
<1>5. Made(made, {own} \cup sources)
  BY <1>3, <1>4 DEF Made
<1> QED
  BY <1>5 DEF own, made

\* Whatever scratch a payload is decoded with, its events are its own and leftovers.
LEMMA DecodedEvents ==
  ASSUME Typed, Leftovers, NEW m \in Message, NEW scratch \in Scratches(m)
  PROVE  LET events == Decode(Payload(m), scratch)
             sent == Sent[mail[m].payload]
         IN /\ Leftover(scratch, {})
            /\ DOMAIN events = DOMAIN sent /\ DOMAIN sent \subseteq 1 .. Slots
            /\ \A i \in DOMAIN sent : Made(events[i], {sent[i]} \cup Rejects)
<1> DEFINE payload == Payload(m)
           events == Decode(payload, scratch)
           sent == Sent[mail[m].payload]
<1>1. mail[m].payload \in DOMAIN Payloads /\ payload = Payloads[mail[m].payload]
  BY DEF Typed, Mails, Payload
<1>2. /\ DOMAIN sent = DOMAIN payload.events
      /\ \A i \in DOMAIN sent : sent[i] = DecodeInto(ZeroEvent, payload.events[i])
  BY <1>1 DEF Sent
<1>3. DOMAIN payload.events \subseteq 1 .. Slots
  BY <1>1, PayloadsAssumption
<1>4. Leftover(scratch, {})
  <2>1. CASE scratch \in pool
    BY <2>1 DEF Leftovers
  <2>2. CASE scratch = Clean
    <3>1. \A i \in 1 .. Slots : scratch[i] = ZeroEvent
      BY <2>2 DEF Clean
    <3> QED
      BY <3>1, ZeroMade DEF Leftover
  <2> QED
    BY <2>1, <2>2 DEF Scratches
<1>5. DOMAIN events = DOMAIN payload.events
  BY DEF Decode
<1>6. ASSUME NEW i \in DOMAIN sent PROVE Made(events[i], {sent[i]} \cup Rejects)
  <2>1. PICK slot : slot = IF InPlace(payload) THEN scratch[i] ELSE ZeroEvent
    OBVIOUS
  <2>2. events[i] = DecodeInto(slot, payload.events[i])
    BY <1>2, <2>1 DEF Decode
  <2>3. Made(slot, Rejects)
    <3>1. CASE slot = ZeroEvent
      BY <3>1, ZeroMade
    <3>2. CASE slot = scratch[i]
      BY <1>2, <1>3, <1>4, <3>2 DEF Leftover
    <3> QED
      BY <2>1, <3>1, <3>2
  <2>4. Made(DecodeInto(slot, payload.events[i]),
             {DecodeInto(ZeroEvent, payload.events[i])} \cup Rejects)
    BY <2>3, DecodedMade
  <2> QED
    BY <1>2, <2>2, <2>4
<1> QED
  BY <1>2, <1>3, <1>4, <1>5, <1>6

\* What goes back to the pool: the slots in use are zeroed, the others hold leftovers.
LEMMA ReleasedLeft ==
  ASSUME NEW scratch, NEW used, Leftover(scratch, used)
  PROVE  \A s \in releaseDecodeScratch(scratch, used) : Leftover(s, {})
<1>1. ASSUME NEW s \in releaseDecodeScratch(scratch, used), NEW i \in 1 .. Slots
      PROVE  Made(s[i], Rejects)
  <2>1. s[i] = IF i \in used THEN ZeroEvent ELSE scratch[i]
    BY <1>1 DEF releaseDecodeScratch
  <2>2. CASE i \in used
    BY <2>1, <2>2, ZeroMade
  <2>3. CASE i \notin used
    BY <2>1, <2>3 DEF Leftover
  <2> QED
    BY <2>2, <2>3
<1> QED
  BY <1>1 DEF Leftover

\* A rejected batch stays rejected, and its events what they were.
LEMMA RejectsGrow ==
  ASSUME Typed, spoiled \subseteq Message, spoiled \subseteq spoiled', MailKept \/ UNCHANGED mail
  PROVE  Rejects \subseteq Rejects'
<1>1. \A m \in spoiled : mail'[m].payload = mail[m].payload
  BY DEF MailKept
<1> QED
  BY <1>1 DEF Rejects

\* Leftovers and events stay explained while the rejects grow.
LEMMA LeftoverKept ==
  ASSUME NEW scratch, NEW used, Leftover(scratch, used), Rejects \subseteq Rejects'
  PROVE  Leftover(scratch, used)'
<1>1. \A i \in (1 .. Slots) \ used : Made(scratch[i], Rejects')
  BY MadeOfMore DEF Leftover
<1> QED
  BY <1>1 DEF Leftover, Made

\* The same for what a handler holds.
LEMMA OwnOrLeftKept ==
  ASSUME NEW j, OwnOrLeft(j), Rejects \subseteq Rejects',
         mail'[j.msg].payload = mail[j.msg].payload
  PROVE  OwnOrLeft(j)'
<1>1. PICK s : s = Sent[mail[j.msg].payload] /\ s = Sent[mail'[j.msg].payload]
  OBVIOUS
<1>2. ASSUME NEW i \in DOMAIN s PROVE Made(j.events[i], {s[i]} \cup Rejects')
  <2>1. Made(j.events[i], {s[i]} \cup Rejects)
    BY <1>1 DEF OwnOrLeft
  <2>2. {s[i]} \cup Rejects \subseteq {s[i]} \cup Rejects'
    OBVIOUS
  <2> QED
    BY <2>1, <2>2, MadeOfMore
<1>3. Leftover(j.scratch, DOMAIN j.events)'
  BY LeftoverKept DEF OwnOrLeft
<1> QED
  BY <1>1, <1>2, <1>3 DEF OwnOrLeft, Made

\* A step that puts into the pool, and gives the handlers, nothing but leftovers and their own.
LEMMA LeftoversFrom ==
  ASSUME Typed, Leftovers, MailKept \/ UNCHANGED mail,
         spoiled \subseteq spoiled', spoiled' \subseteq Message,
         \A s \in pool' : s \in pool \/ Leftover(s, {}) \/ Leftover(s, {})',
         \A h \in Handlers : job'[h] # Idle =>
           (job[h] # Idle /\ job'[h] = job[h])
             \/ \E j : j = job'[h] /\ j.msg \in Message /\ OwnOrLeft(j)
  PROVE  Leftovers'
<1>1. Rejects \subseteq Rejects'
  BY RejectsGrow DEF Leftovers
<1>2. ASSUME NEW s \in pool' PROVE Leftover(s, {})'
  <2>1. CASE s \in pool \/ Leftover(s, {})
    <3>1. Leftover(s, {})
      BY <2>1 DEF Leftovers
    <3> QED
      BY <1>1, <3>1, LeftoverKept
  <2> QED
    BY <1>2, <2>1
<1>3. ASSUME NEW h \in Handlers, job'[h] # Idle PROVE OwnOrLeft(job[h])'
  <2>1. PICK j : j = job'[h] /\ j.msg \in Message /\ OwnOrLeft(j)
    <3>1. CASE job[h] # Idle /\ job'[h] = job[h]
      <4>1. job[h].msg \in Message /\ OwnOrLeft(job[h])
        BY <3>1 DEF Typed, Proper, Leftovers
      <4> QED
        BY <3>1, <4>1
    <3> QED
      BY <1>3, <3>1
  <2>2. mail'[j.msg].payload = mail[j.msg].payload
    BY <2>1 DEF MailKept
  <2>3. OwnOrLeft(j)'
    BY <1>1, <2>1, <2>2, OwnOrLeftKept
  <2> QED
    BY <2>1, <2>3 DEF OwnOrLeft
<1> QED
  BY <1>2, <1>3 DEF Leftovers

\* What a rejected batch leaves is among the rejects from then on.
LEMMA RejectLeft ==
  ASSUME Typed, Leftovers, NEW m \in Message, Reject(m), MailKept \/ UNCHANGED mail
  PROVE  /\ spoiled \subseteq spoiled' /\ spoiled' \subseteq Message
         /\ \A s \in pool' : s \in pool \/ Leftover(s, {})'
<1>1. PICK scratch \in Scratches(m) :
        LET events == Decode(Payload(m), scratch)
            dirtied == InPlace(Payload(m)) /\ Payload(m).syntax # "broken"
            left == IF dirtied THEN Overwrite(scratch, events) ELSE scratch
        IN /\ pool' = (pool \ {scratch}) \cup releaseDecodeScratch(left, {})
           /\ spoiled' = IF dirtied THEN spoiled \cup {m} ELSE spoiled
  BY DEF Reject
<1> DEFINE events == Decode(Payload(m), scratch)
           dirtied == InPlace(Payload(m)) /\ Payload(m).syntax # "broken"
           left == IF dirtied THEN Overwrite(scratch, events) ELSE scratch
<1>2. /\ pool' = (pool \ {scratch}) \cup releaseDecodeScratch(left, {})
      /\ spoiled' = IF dirtied THEN spoiled \cup {m} ELSE spoiled
  BY <1>1
<1>3. spoiled \subseteq spoiled' /\ spoiled' \subseteq Message
  BY <1>2 DEF Leftovers
<1>4. Rejects \subseteq Rejects'
  BY <1>3, RejectsGrow
<1>5. ASSUME NEW i \in 1 .. Slots PROVE Made(left[i], Rejects')
  <2>1. Leftover(scratch, {})
    BY DecodedEvents
  <2>2. CASE dirtied /\ i \in DOMAIN events
    <3> DEFINE sent == Sent[mail[m].payload]
    <3>1. i \in DOMAIN sent /\ Made(events[i], {sent[i]} \cup Rejects)
      BY <2>2, DecodedEvents
    <3>2. m \in spoiled' /\ mail'[m].payload = mail[m].payload
      BY <1>2, <2>2 DEF MailKept
    <3>3. sent[i] \in Range(sent)
      BY <3>1 DEF Range
    <3>4. {sent[i]} \cup Rejects \subseteq Rejects'
      BY <1>4, <3>2, <3>3 DEF Rejects
    <3>5. left[i] = events[i]
      BY <2>2 DEF Overwrite
    <3> HIDE DEF events, left, sent
    <3> QED
      BY <3>1, <3>4, <3>5, MadeOfMore
  <2>3. CASE ~(dirtied /\ i \in DOMAIN events)
    <3>1. left[i] = scratch[i]
      BY <2>3 DEF Overwrite
    <3>2. Made(scratch[i], Rejects)
      BY <2>1 DEF Leftover
    <3> HIDE DEF left
    <3> QED
      BY <1>4, <3>1, <3>2, MadeOfMore
  <2> QED
    BY <2>2, <2>3
<1> HIDE DEF left
<1>6. ASSUME NEW s \in releaseDecodeScratch(left, {}), NEW i \in 1 .. Slots
      PROVE  Made(s[i], Rejects')
  BY <1>5, <1>6 DEF releaseDecodeScratch
<1>7. \A s \in releaseDecodeScratch(left, {}) : Leftover(s, {})'
  BY <1>6 DEF Leftover, Made
<1> QED
  BY <1>2, <1>3, <1>7

\* Every step leaves nothing else behind.
LEMMA LeftoversStep ==
  ASSUME Typed, Leftovers, [Next]_vars
  PROVE  Leftovers'
<1>0. MailKept \/ UNCHANGED mail
  BY TypedStep
<1>1. ASSUME NEW h \in Handlers, NEW m \in Message, Accept(h, m) PROVE Leftovers'
  <2>0. PICK scratch \in Scratches(m) : \E j :
          LET events == Decode(Payload(m), scratch)
          IN /\ pool' = pool \ {scratch} /\ job' = [job EXCEPT ![h] = j]
             /\ j.msg = m /\ j.events = events /\ j.scratch = Overwrite(scratch, events)
    BY <1>1, AcceptedJob
  <2> DEFINE events == Decode(Payload(m), scratch)
             sent == Sent[mail[m].payload]
  <2>1. PICK j : /\ pool' = pool \ {scratch} /\ job' = [job EXCEPT ![h] = j]
                 /\ j.msg = m /\ j.events = events /\ j.scratch = Overwrite(scratch, events)
    BY <2>0
  <2>2. /\ Leftover(scratch, {}) /\ DOMAIN events = DOMAIN sent
        /\ \A i \in DOMAIN sent : Made(events[i], {sent[i]} \cup Rejects)
    BY DecodedEvents
  <2>3. Leftover(j.scratch, DOMAIN j.events)
    BY <2>1, <2>2 DEF Leftover, Overwrite
  <2>4. OwnOrLeft(j)
    BY <2>1, <2>2, <2>3 DEF OwnOrLeft
  <2>5. ASSUME NEW g \in Handlers, job'[g] # Idle
        PROVE  (job[g] # Idle /\ job'[g] = job[g])
                 \/ \E i : i = job'[g] /\ i.msg \in Message /\ OwnOrLeft(i)
    <3>1. g # h => job'[g] = job[g]
      BY <2>1
    <3>2. g = h => job'[g] = j
      BY <2>1 DEF Typed
    <3> QED
      BY <2>1, <2>4, <2>5, <3>1, <3>2
  <2>6. spoiled \subseteq spoiled' /\ spoiled' \subseteq Message /\ pool' \subseteq pool
    BY <1>1, <2>1 DEF Accept, Leftovers
  <2> QED
    BY <1>0, <2>5, <2>6, LeftoversFrom
<1>2. ASSUME NEW h \in Handlers, Works(h) PROVE Leftovers'
  <2>1. PICK j : /\ job[h] # Idle /\ job' = [job EXCEPT ![h] = j]
                 /\ j.msg = job[h].msg /\ j.events = job[h].events /\ j.scratch = job[h].scratch
    BY <1>2, WorkedJob
  <2>2. j.msg \in Message /\ OwnOrLeft(j)
    BY <2>1 DEF Typed, Proper, Leftovers, OwnOrLeft
  <2>3. ASSUME NEW g \in Handlers, job'[g] # Idle
        PROVE  (job[g] # Idle /\ job'[g] = job[g])
                 \/ \E i : i = job'[g] /\ i.msg \in Message /\ OwnOrLeft(i)
    <3>1. g # h => job'[g] = job[g]
      BY <2>1
    <3>2. g = h => job'[g] = j
      BY <2>1 DEF Typed
    <3> QED
      BY <2>2, <2>3, <3>1, <3>2
  <2>4. spoiled' = spoiled /\ pool' = pool /\ spoiled \subseteq Message
    BY <1>2, WorkedJob DEF Leftovers
  <2> QED
    BY <1>0, <2>3, <2>4, LeftoversFrom
<1>3. ASSUME NEW h \in Handlers, Ends(h) PROVE Leftovers'
  <2>1. /\ job[h] # Idle /\ Release(h) /\ job' = [job EXCEPT ![h] = Idle]
        /\ spoiled' = spoiled
    BY <1>3, EndedJob
  <2>2. Leftover(job[h].scratch, DOMAIN job[h].events)
    BY <2>1 DEF Leftovers, OwnOrLeft
  <2>3. \A s \in pool' : s \in pool \/ Leftover(s, {})
    BY <2>1, <2>2, ReleasedLeft DEF Release
  <2>4. \A g \in Handlers : job'[g] # Idle => job[g] # Idle /\ job'[g] = job[g]
    BY <2>1 DEF Typed
  <2>5. spoiled \subseteq Message
    BY DEF Leftovers
  <2> QED
    BY <1>0, <2>1, <2>3, <2>4, <2>5, LeftoversFrom
<1>4. ASSUME NEW m \in Message, Reject(m) PROVE Leftovers'
  <2>1. UNCHANGED job
    BY <1>4 DEF Reject
  <2> QED
    BY <1>0, <1>4, <2>1, RejectLeft, LeftoversFrom
<1>5. ASSUME UNCHANGED spoiled, pool' \subseteq pool,
             \A h \in Handlers : job'[h] = job[h] \/ job'[h] = Idle
      PROVE  Leftovers'
  <2>1. spoiled \subseteq Message
    BY DEF Leftovers
  <2> QED
    BY <1>0, <1>5, <2>1, LeftoversFrom
<1>6. (\E m \in Message : Outside(m)) \/ TimePasses \/ UNCHANGED vars
        => UNCHANGED <<spoiled, pool, job>>
  BY OutsideMail DEF TimePasses, vars, history
<1>7. Crash => UNCHANGED spoiled /\ pool' = {} /\ \A h \in Handlers : job'[h] = Idle
  BY DEF Crash
<1>8. CASE (\E m \in Message : Outside(m)) \/ TimePasses \/ UNCHANGED vars
  BY <1>5, <1>6, <1>8
<1>9. CASE Crash
  BY <1>5, <1>7, <1>9
<1>10. Next => \/ \E h \in Handlers, m \in Message : Accept(h, m)
               \/ \E h \in Handlers : Works(h) \/ Ends(h)
               \/ \E m \in Message : Reject(m) \/ Outside(m)
               \/ Crash \/ TimePasses
  BY Steps
<1> QED
  BY <1>1, <1>2, <1>3, <1>4, <1>8, <1>9, <1>10, Zenon

\* Whatever a handled event holds that its own JSON did not give, each field and each tag of it,
\* was in a batch that had been decoded and then rejected: a payload that is accepted leaves
\* nothing in its scratch, since the slots in use are zeroed before it goes back to the pool.
\* So the slots of every scratch are made of the rejects, in the pool as well as behind the
\* events of a handler.
THEOREM LeaksExplained == Spec => []LeaksOnlyFromRejected
<1>1. Init => Typed /\ Leftovers
  BY InitFacts DEF Leftovers, Init
<1>2. Typed /\ Leftovers /\ [Next]_vars => (Typed /\ Leftovers)'
  BY TypedStep, LeftoversStep
<1>3. Leftovers => LeaksOnlyFromRejected
  <2>1. ASSUME Leftovers, NEW h \in Handlers, job[h] # Idle
        PROVE  LET sent == Sent[mail[job[h].msg].payload]
                   rejects == UNION {Range(Sent[mail[m].payload]) : m \in spoiled}
               IN \A i \in DOMAIN sent : job[h].events[i] # sent[i] =>
                    LET event == job[h].events[i]
                        sources == {sent[i]} \cup rejects
                    IN /\ \A f \in DOMAIN event.set :
                            \E e \in sources : f \in DOMAIN e.set /\ e.set[f] = event.set[f]
                       /\ \A k \in DOMAIN event.tags :
                            \E e \in sources : k \in DOMAIN e.tags /\ e.tags[k] = event.tags[k]
    <3>1. ASSUME NEW i \in DOMAIN Sent[mail[job[h].msg].payload]
          PROVE  Made(job[h].events[i], {Sent[mail[job[h].msg].payload][i]} \cup Rejects)
      BY <2>1, <3>1, Zenon DEF Leftovers, OwnOrLeft
    <3> QED
      BY <3>1, ZenonT(30) DEF Made, Rejects
  <2> QED
    BY <2>1, ZenonT(30) DEF LeaksOnlyFromRejected
<1> QED
  BY <1>1, <1>2, <1>3, PTL DEF Spec

==============================================================================
