-------------------------------- MODULE Ingest --------------------------------
(***************************************************************************)
(* The way in (internal/ingest) up to the manager: messages of a JetStream *)
(* queue consumer and HTTP requests are decoded, pushed through the rules  *)
(* one event and one rule after the other, and answered.  What a rule's    *)
(* engine and store do with a matching event is reduced to whether it goes *)
(* through (AlertEngine and AlertManager tell the rest).                   *)
(*                                                                         *)
(* A batch of the consumer is decoded into the slots of a pooled scratch.  *)
(* encoding/json writes over what a slot holds: a field, tag or value that *)
(* the JSON does not give keeps what was there, so what is left in a       *)
(* scratch matters.                                                        *)
(***************************************************************************)
EXTENDS EventMatch

CONSTANTS
  Handlers,     \* callbacks and requests that can run at a time
  MessageCount, \* messages are numbered in the order they were published
  Payloads,     \* a sequence of [via, batch, syntax, events], see Accepts
  Rules,        \* the manager's rules, sorted by name
  Slots,        \* events a scratch holds without growing
  MaxDelivers,  \* the settings of max_deliver: -1 is no limit
  MaxFaults,    \* bound: store errors, lost answers, slow handlers, crashes
  Start,        \* bound: the first moment,
  Horizon       \* and the last

ASSUME BoundsAssumption == {MessageCount, MaxFaults} \subseteq Nat
ASSUME PayloadsAssumption ==
  \A p \in DOMAIN Payloads : DOMAIN Payloads[p].events \subseteq 1 .. Slots

Message == 1 .. MessageCount

VARIABLES
  now,        \* the clock, in units of the event times
  faults,     \* how many faults there were
  maxDeliver, \* the consumer's max_deliver
  mail,       \* [payload, stage, deliveries] of each message, the payload by its number
  job,        \* what each handler is doing
  pool,       \* the scratches at rest that hold something (clean ones abound)
  counted,    \* history: how often the engine took <<message, event, rule>>, if ever
  applied,    \* history: the <<message, event, rule>> that went through
  late,       \* history: the <<message, event, rule>> dropped as out of order
  spoiled,    \* history: messages rejected after their events had been decoded
  skewed,     \* history: messages decoded into something else than was sent
  repeated    \* history: messages that had a cause to be delivered again

history == <<counted, applied, late, spoiled, skewed, repeated>>
vars == <<now, faults, maxDeliver, mail, job, pool, history>>

Idle == [msg |-> 0]
Unread == 0 \* the clock is read when an event's turn comes
Clean == [i \in 1 .. Slots |-> ZeroEvent]
Final == {"processed", "rejected", "exhausted", "abandoned"}

Payload(m) == Payloads[mail[m].payload]
Via(m) == Payload(m).via
TimesCounted(o) == IF o \in DOMAIN counted THEN counted[o] ELSE 0
Fault == faults < MaxFaults /\ faults' = faults + 1

-----------------------------------------------------------------------------
(* Decoding.                                                               *)

Over(new, old) ==
  [x \in DOMAIN new \cup DOMAIN old |-> IF x \in DOMAIN new THEN new[x] ELSE old[x]]

\* encoding/json over what the slot holds: given fields and tags replace, others stay.
DecodeInto(slot, event) ==
  [set |-> Over(event.set, slot.set), tags |-> Over(event.tags, slot.tags)]

\* The events of each payload as they were sent.
Sent == [p \in DOMAIN Payloads |->
          [i \in DOMAIN Payloads[p].events |-> DecodeInto(ZeroEvent, Payloads[p].events[i])]]

\* A batch of the consumer is decoded in place, anything else apart.
InPlace(payload) == payload.via = "nats" /\ payload.batch

Decode(payload, scratch) ==
  [i \in DOMAIN payload.events |->
    DecodeInto(IF InPlace(payload) THEN scratch[i] ELSE ZeroEvent, payload.events[i])]

\* `syntax' is "ok", "broken" when nothing of the JSON can be decoded, and
\* "flawed" when an error shows with or after the events: a field of the wrong
\* type, tokens after the end.
Accepts(payload, events) == /\ payload.syntax = "ok"
                            /\ events # <<>>
                            /\ \A i \in DOMAIN events : Validate(events[i])

Overwrite(scratch, events) ==
  [i \in 1 .. Slots |-> IF i \in DOMAIN events THEN events[i] ELSE scratch[i]]

\* Mutant: a scratch is put back as it is.
releaseWithoutZeroing(scratch, used) == {scratch} \ {Clean}

\* Only the slots of an accepted payload are known to be in use, and zeroed.
releaseDecodeScratch(scratch, used) ==
  {[i \in 1 .. Slots |-> IF i \in used THEN ZeroEvent ELSE scratch[i]]} \ {Clean}

\* The <<event, rule>> that processEvent goes on with: the rule selects the event,
\* and the event has the tags that make up the key.
Selects(rule, event) == MatchEvent(rule, event) /\ HasKeyTags(rule, event)

Turns(events) ==
  {t \in (DOMAIN events) \X (DOMAIN Rules) : Selects(Rules[t[2]], events[t[1]])}

Before(t, u) == t[1] < u[1] \/ (t[1] = u[1] /\ t[2] < u[2])

-----------------------------------------------------------------------------
(* Delivery.  A consumer is given new messages in order, and a message     *)
(* again after a negative answer, or after none within ack_wait.           *)

Deliverable(m) ==
  /\ mail[m].stage = "waiting"
  /\ Via(m) = "nats" =>
       /\ maxDeliver = -1 \/ mail[m].deliveries < maxDeliver
       /\ \A p \in 1 .. m - 1 : Via(p) = "nats" => mail[p].deliveries > 0

Delivered(m, stage) ==
  [mail EXCEPT ![m].stage = stage,
               ![m].deliveries = IF @ > MaxFaults THEN @ ELSE @ + 1]

Scratches(m) == (IF Via(m) = "nats" THEN pool ELSE {}) \cup {Clean}

NoteSkew(m, events) ==
  skewed' = IF Payload(m).syntax = "ok" /\ events # Sent[mail[m].payload]
            THEN skewed \cup {m} ELSE skewed

\* A handler takes a message, decodes it with any scratch of the pool and goes on
\* to push its events.
Accept(h, m) ==
  /\ job[h] = Idle /\ Deliverable(m)
  /\ \E scratch \in Scratches(m) : \E events \in {Decode(Payload(m), scratch)} :
       /\ Accepts(Payload(m), events)
       /\ NoteSkew(m, events)
       /\ pool' = pool \ {scratch}
       /\ job' = [job EXCEPT ![h] =
                    [msg |-> m, events |-> events, scratch |-> Overwrite(scratch, events),
                     todo |-> Turns(events), at |-> Unread, ticks |-> {}]]
  /\ mail' = Delivered(m, "inflight")
  /\ UNCHANGED <<now, faults, maxDeliver, counted, applied, late, spoiled, repeated>>

\* A request that cannot be decoded is answered 400.
BadRequest(m) ==
  /\ Via(m) # "nats"
  /\ mail' = Delivered(m, "rejected")
  /\ UNCHANGED <<faults, repeated>>

\* Mutant: an undecodable message is not answered.
AckOfRejectedMissing(m) ==
  Via(m) = "nats" /\ mail' = Delivered(m, "inflight") /\ UNCHANGED <<faults, repeated>>

\* A message that cannot be decoded is acknowledged and so dropped, unless the
\* acknowledgement is lost.
AckOfRejected(m) ==
  /\ Via(m) = "nats"
  /\ \/ /\ mail' = Delivered(m, "rejected")
        /\ UNCHANGED <<faults, repeated>>
     \/ /\ Fault
        /\ mail' = Delivered(m, "inflight")
        /\ repeated' = repeated \cup {m}

\* Decoding or the contract fails.  A batch leaves what was decoded in its
\* scratch: nothing tells releaseDecodeScratch of it.
Reject(m) ==
  /\ Deliverable(m) /\ \E h \in Handlers : job[h] = Idle
  /\ \E scratch \in Scratches(m) : \E events \in {Decode(Payload(m), scratch)} :
       LET dirtied == InPlace(Payload(m)) /\ Payload(m).syntax # "broken"
           left == IF dirtied THEN Overwrite(scratch, events) ELSE scratch
       IN /\ ~Accepts(Payload(m), events)
          /\ NoteSkew(m, events)
          /\ pool' = (pool \ {scratch}) \cup releaseDecodeScratch(left, {})
          /\ spoiled' = IF dirtied THEN spoiled \cup {m} ELSE spoiled
  /\ BadRequest(m) \/ AckOfRejected(m)
  /\ UNCHANGED <<now, maxDeliver, job, counted, applied, late>>

Release(h) ==
  /\ job' = [job EXCEPT ![h] = Idle]
  /\ pool' = IF Via(job[h].msg) = "nats"
             THEN pool \cup releaseDecodeScratch(job[h].scratch, DOMAIN job[h].events)
             ELSE pool

\* Nothing changes any more for a message that has had its final answer.
Become(m, stage) == mail' = [mail EXCEPT ![m].stage = IF @ \in Final THEN @ ELSE stage]

-----------------------------------------------------------------------------
(* Pushing: each event goes through the rules in their order, with one     *)
(* reading of the clock; a batch leaves the refreshing of the alerts'      *)
(* ticks to the end.                                                       *)

\* The event and the rule, t, that the handler h is at.
InTurn(h, t) == /\ job[h] # Idle /\ t \in job[h].todo
                /\ \A u \in job[h].todo \ {t} : Before(t, u)
Pushed(h) == job[h] # Idle /\ job[h].todo = {}
Event(h, t) == job[h].events[t[1]]
Rule(t) == Rules[t[2]]
Turn(m, t) == <<m, t[1], t[2]>>
At(h) == IF job[h].at = Unread THEN now ELSE job[h].at
\* Only a request for one event is pushed without a list of ticks to refresh.
Direct(h) == Via(job[h].msg) = "http" /\ ~Payload(job[h].msg).batch

nextTurn(h, t, ticks) ==
  LET rest == job[h].todo \ {t}
  IN [job[h] EXCEPT !.todo = rest, !.ticks = ticks,
                    !.at = IF \E u \in rest : u[1] = t[1] THEN At(h) ELSE Unread]

\* The rule drops the event as out of order.
Pass(h, t) ==
  /\ InTurn(h, t) /\ shouldDropOutOfOrder(Rule(t), Event(h, t), At(h))
  /\ late' = late \cup {Turn(job[h].msg, t)}
  /\ job' = [job EXCEPT ![h] = nextTurn(h, t, @.ticks)]
  /\ UNCHANGED <<now, faults, maxDeliver, mail, pool, counted, applied, spoiled, skewed, repeated>>

Count(h, t) ==
  /\ InTurn(h, t) /\ ~shouldDropOutOfOrder(Rule(t), Event(h, t), At(h))
  /\ LET turn == Turn(job[h].msg, t)
     IN counted' = [o \in DOMAIN counted \cup {turn} |->
                      TimesCounted(o) + IF o = turn THEN 1 ELSE 0]

\* The engine takes the event and its decision goes through: there is nothing to
\* store, or it is stored and, for a batch, the alert's tick is still to be refreshed.
Process(h, t) ==
  LET turn == Turn(job[h].msg, t)
      key == BuildAlertKey(Rule(t), Event(h, t))
  IN /\ Count(h, t)
     /\ \/ /\ applied' = applied \cup {turn}
           /\ job' = [job EXCEPT ![h] = nextTurn(h, t, @.ticks)]
        \/ /\ ~Direct(h)
           /\ job' = [job EXCEPT ![h] = nextTurn(h, t, @.ticks \cup {<<turn, key>>})]
           /\ UNCHANGED applied
     /\ UNCHANGED <<now, faults, maxDeliver, mail, pool, late, spoiled, skewed, repeated>>

\* The error of a push: a message is sent back, a request answered 503.
stageAfterFailure(m) == IF Via(m) = "nats" THEN "waiting" ELSE "unavailable"

\* The push ends with an error and with it the handling of the message, the
\* ticks of the events before it included.  The negative answer may be lost.
Fail(h) ==
  /\ Fault /\ Release(h)
  /\ \/ Become(job[h].msg, stageAfterFailure(job[h].msg))
     \/ Via(job[h].msg) = "nats" /\ UNCHANGED mail
  /\ repeated' = repeated \cup {job[h].msg}
  /\ UNCHANGED <<now, maxDeliver, applied, late, spoiled, skewed>>

\* The engine has taken the event, the store or the notifier fails.
FailDecision(h, t) == Count(h, t) /\ Fail(h)

\* Refreshing the ticks of a batch, alert by alert in the order of a Go map.
Refreshing(h) == Pushed(h) /\ job[h].ticks # {}

RefreshTick(h) ==
  /\ Refreshing(h)
  /\ \E id \in {tick[2] : tick \in job[h].ticks} :
       LET done == {tick \in job[h].ticks : tick[2] = id}
       IN /\ applied' = applied \cup {tick[1] : tick \in done}
          /\ job' = [job EXCEPT ![h].ticks = @ \ done]
  /\ UNCHANGED <<now, faults, maxDeliver, mail, pool, counted, late, spoiled, skewed, repeated>>

\* Mutant: the batch is pushed once more by the same handler.
FailRefreshStartsAgain(h) ==
  /\ Refreshing(h) /\ Fault
  /\ job' = [job EXCEPT ![h].todo = Turns(job[h].events), ![h].ticks = {}]
  /\ UNCHANGED <<now, maxDeliver, mail, pool, history>>

FailRefresh(h) == Refreshing(h) /\ Fail(h) /\ UNCHANGED counted

-----------------------------------------------------------------------------
(* Answering, and what goes wrong around it.                               *)

\* Mutant: the message is answered before its ticks are refreshed.
HandledEarly(h) == Pushed(h)

Handled(h) == Pushed(h) /\ job[h].ticks = {}

\* The message is acknowledged, the request answered 202.
Answer(h) ==
  /\ Handled(h) /\ Release(h)
  /\ Become(job[h].msg, "processed")
  /\ UNCHANGED <<now, faults, maxDeliver, history>>

\* The acknowledgement does not arrive (its error is only logged); the client of
\* a request sees its connection break.
LoseAnswer(h) ==
  /\ Handled(h) /\ Release(h) /\ Fault
  /\ IF Via(job[h].msg) = "nats" THEN UNCHANGED mail ELSE Become(job[h].msg, "unavailable")
  /\ repeated' = repeated \cup {job[h].msg}
  /\ UNCHANGED <<now, maxDeliver, counted, applied, late, spoiled, skewed>>

InHands(m) == \E h \in Handlers : job[h].msg = m

\* No answer within ack_wait: nobody works on the message any more, or its
\* handler is slow and goes on beside the next one.
AckWaitExpires(m) ==
  /\ Via(m) = "nats" /\ mail[m].stage = "inflight"
  /\ IF InHands(m) THEN Fault ELSE UNCHANGED faults
  /\ Become(m, "waiting")
  /\ repeated' = repeated \cup {m}
  /\ UNCHANGED <<now, maxDeliver, job, pool, counted, applied, late, spoiled, skewed>>

\* The consumer gives up a message that it has delivered max_deliver times.
Exhaust(m) ==
  /\ Via(m) = "nats" /\ mail[m].stage = "waiting" /\ mail[m].deliveries = maxDeliver
  /\ Become(m, "exhausted")
  /\ UNCHANGED <<now, faults, maxDeliver, job, pool, history>>

\* A client repeats a request that was not served, or leaves it at that.
Resend(m) ==
  /\ mail[m].stage = "unavailable"
  /\ Become(m, "waiting") \/ Become(m, "abandoned")
  /\ UNCHANGED <<now, faults, maxDeliver, job, pool, history>>

\* The instance dies and starts again: handlers and scratches are gone.
Crash ==
  /\ Fault
  /\ job' = [h \in Handlers |-> Idle] /\ pool' = {}
  /\ mail' = [m \in Message |->
                [mail[m] EXCEPT !.stage =
                   IF InHands(m) /\ Via(m) = "http" THEN "unavailable" ELSE @]]
  /\ repeated' = repeated \cup {m \in Message : InHands(m)}
  /\ UNCHANGED <<now, maxDeliver, counted, applied, late, spoiled, skewed>>

TimePasses == now < Horizon /\ now' = now + 1
             /\ UNCHANGED <<faults, maxDeliver, mail, job, pool, history>>

-----------------------------------------------------------------------------

Init ==
  /\ now = Start /\ faults = 0 /\ pool = {}
  /\ maxDeliver \in MaxDelivers
  /\ mail \in [Message -> [payload : DOMAIN Payloads, stage : {"waiting"}, deliveries : {0}]]
  /\ job = [h \in Handlers |-> Idle]
  /\ counted = [o \in {} |-> 0] /\ applied = {} /\ late = {}
  /\ spoiled = {} /\ skewed = {} /\ repeated = {}

Handle(h) ==
  \/ \E m \in Message : Accept(h, m)
  \/ job[h] # Idle /\ \E t \in job[h].todo : Pass(h, t) \/ Process(h, t)
  \/ RefreshTick(h) \/ Answer(h)

Disturb(h) ==
  \/ job[h] # Idle /\ \E t \in job[h].todo : FailDecision(h, t)
  \/ FailRefresh(h) \/ LoseAnswer(h)

Next ==
  \/ \E h \in Handlers : Handle(h) \/ Disturb(h)
  \/ \E m \in Message : Reject(m) \/ AckWaitExpires(m) \/ Exhaust(m) \/ Resend(m)
  \/ Crash \/ TimePasses

\* What moves messages on: handlers, and for a message that nobody holds the end of
\* ack_wait or of its deliveries.
Progress ==
  \/ \E h \in Handlers : Handle(h)
  \/ \E m \in Message : Reject(m) \/ (~InHands(m) /\ AckWaitExpires(m)) \/ Exhaust(m)

\* As long as something can move on, something does; no message and no handler is preferred.
Spec == Init /\ [][Next]_vars /\ WF_vars(Progress)

-----------------------------------------------------------------------------
(* Properties.                                                             *)

\* Of each payload as sent: the turns it ought to have, and whether the contract holds.
Selected == [p \in DOMAIN Payloads |-> Turns(Sent[p])]
Acceptable == {p \in DOMAIN Payloads : Accepts(Payloads[p], Sent[p])}

\* What a producer may conclude from the answer.  Processed: every rule that
\* selects one of the events as sent has had it applied, the refresh of its tick
\* included, unless the rule dropped it as out of order.  Rejected: nothing of
\* the message was counted, and the contract does not hold for what was sent.
\* Decoding over another message's leftovers is the one excuse (see LeaksOnlyFromRejected).
AnswerTellsTheTruth ==
  \A m \in Message \ skewed :
    /\ mail[m].stage = "processed" =>
         \A t \in Selected[mail[m].payload] : Turn(m, t) \in applied \cup late
    /\ mail[m].stage = "rejected" =>
         /\ mail[m].payload \notin Acceptable
         /\ \A o \in DOMAIN counted : o[1] # m

\* The engine counts an event once for each time its message is delivered, and
\* a message is delivered again only after an error, a lost or overdue answer,
\* or a crash: count_total and count_window see no other duplicates.
CountedOncePerDelivery ==
  /\ \A o \in DOMAIN counted : counted[o] <= mail[o[1]].deliveries
  /\ \A m \in Message : mail[m].deliveries > 1 => m \in repeated

\* Whatever a handled event holds that its JSON did not is from a batch that was
\* decoded and then rejected: an accepted payload leaves nothing in its scratch.
LeaksOnlyFromRejected ==
  \A h \in Handlers : job[h] # Idle =>
    LET sent == Sent[mail[job[h].msg].payload]
        rejects == UNION {Range(Sent[mail[m].payload]) : m \in spoiled}
    IN \A i \in DOMAIN sent : job[h].events[i] # sent[i] =>
         LET event == job[h].events[i]
             sources == {sent[i]} \cup rejects
         IN /\ \A f \in DOMAIN event.set :
                 \E e \in sources : f \in DOMAIN e.set /\ e.set[f] = event.set[f]
            /\ \A k \in DOMAIN event.tags :
                 \E e \in sources : k \in DOMAIN e.tags /\ e.tags[k] = event.tags[k]

\* What the transport promises, one contract for HTTP and JetStream: the rules get
\* the events that were sent.
EventsAsSent == skewed = {}

\* There comes a time when every message of the consumer has been processed, dropped as
\* undecodable or given up after max_deliver attempts.
MessagesSettle ==
  <>(\A m \in Message : Via(m) = "nats" => mail[m].stage \in Final)

==============================================================================
