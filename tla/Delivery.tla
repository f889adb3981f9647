------------------------------- MODULE Delivery -------------------------------
(***************************************************************************)
(* Direct delivery: a notification of one alert goes over the routes of    *)
(* its rule one after the other (internal/app/manager.go), on each through *)
(* Dispatcher.Send with its retries and the channel's sender               *)
(* (internal/notify/notify.go), and the references the channels return are *)
(* kept for the repeats and for the resolve.  A channel is a service that  *)
(* holds posts, messages or issues; a request may fail before or after it  *)
(* took effect.  AlertManager has the goroutines that meet here one at a   *)
(* time, NotifyQueue the delivery through a queue.                         *)
(***************************************************************************)
EXTENDS Naturals, Sequences, FiniteSetsExt

CONSTANTS
  Configs,   \* what may be configured: [routes, retry, off]
  MaxNotes,  \* bound: notifications
  MaxFaults  \* bound: requests that fail while the services are up, cancelled sends

RouteConfig == [Channel : {"telegram", "mattermost", "tracker", "http"},
                Mode : {"history", "active_only"}]
RetryConfig == [Enabled : BOOLEAN, MaxAttempts : Nat]
ASSUME ConfigsAssumption ==
  \A c \in Configs :
    c.routes \in Seq(RouteConfig) /\ c.retry \in RetryConfig /\ c.off \in BOOLEAN
ASSUME BoundsAssumption == {MaxNotes, MaxFaults} \subseteq Nat

None == 0

VARIABLES
  config,
  down,     \* whether the services have become unreachable for good
  entry,    \* the engine's entry of the alert: [firing, ref, msg], by route
  note,     \* the notification under way
  posts,    \* what the channels hold: [route, life, open]; a reference is an index
  notes,    \* notifications so far
  lives,    \* how often the alert was raised from nothing
  faults,
  excused   \* history: posts whose reference cannot be known, or that were not closed

vars == <<config, down, entry, note, posts, notes, lives, faults, excused>>

Route == config.routes[note.at]
Routes == DOMAIN config.routes
Active == Route.Mode = "active_only"
Fault == faults < MaxFaults /\ faults' = faults + 1
Idle == [pc |-> "idle"]
NoEntry == [firing |-> FALSE, ref |-> [i \in Routes |-> None], msg |-> [i \in Routes |-> None]]

-----------------------------------------------------------------------------
(* The routes: notifyRoutes and forEachRouteNotification.                  *)

Begin(state, ttl) ==
  /\ note = Idle /\ notes < MaxNotes /\ notes' = notes + 1
  /\ note' = [pc |-> "route", state |-> state, ttl |-> ttl, at |-> 1, attempt |-> 0, ref |-> None, results |-> <<>>]
  /\ UNCHANGED <<config, down, posts, faults, excused>>

\* The alert fires, or a tick repeats it.
NotifyFiring ==
  /\ Begin("firing", FALSE)
  /\ entry' = [entry EXCEPT !.firing = TRUE]
  /\ lives' = IF entry = NoEntry THEN lives + 1 ELSE lives

\* The alert's decision, or the TTL consumer, resolves it.
NotifyResolved ==
  /\ entry.firing
  /\ \E ttl \in BOOLEAN : Begin("resolved", ttl)
  /\ entry' = [entry EXCEPT !.firing = FALSE]
  /\ UNCHANGED lives

\* dispatchNotification in an off window of the rule (shouldSkipNotificationByOff): nothing is
\* sent, which is no error, and nothing makes up for it later.
Mute ==
  /\ config.off
  /\ note = Idle /\ notes < MaxNotes /\ notes' = notes + 1
  /\ UNCHANGED <<config, down, note, posts, faults>>

MuteFiring ==
  /\ Mute
  /\ entry' = [entry EXCEPT !.firing = TRUE]
  /\ lives' = IF entry = NoEntry THEN lives + 1 ELSE lives
  /\ UNCHANGED excused

\* The caller goes on as after a resolve that was sent: the alert is forgotten, and with it
\* what it has standing.
MuteResolved ==
  /\ Mute /\ entry.firing
  /\ entry' = NoEntry
  /\ excused' = excused \cup ({entry.ref[i] : i \in Routes} \ {None})
  /\ UNCHANGED lives

\* prepareNotificationForRoute: a message that is not known is not taken back, and no thread
\* is closed that was not opened.
Skipped(ref) ==
  /\ note.state = "resolved" /\ ref = None
  /\ Active \/ Route.Channel = "mattermost"

Past == [note EXCEPT !.at = @ + 1, !.pc = "route", !.ref = None, !.attempt = 0]

PrepareRoute ==
  /\ note.pc = "route" /\ note.at \in Routes
  /\ note' = IF Skipped(entry.ref[note.at]) THEN Past
             ELSE [note EXCEPT !.pc = "send", !.ref = entry.ref[note.at]]
  /\ UNCHANGED <<config, down, entry, posts, notes, lives, faults, excused>>

\* ResolveByTTL logs the error and forgets the alert; applyDecision returns it, and what the
\* engine knows stays for the next time the alert fires.
Forgotten == note.state = "resolved" /\ note.ttl
\* What stays open because nobody will close it any more.
Abandoned == IF Forgotten THEN {entry.ref[i] : i \in note.at .. Len(config.routes)} \ {None} ELSE {}

\* The first error ends the notification: later routes are not served, and what earlier routes
\* returned is dropped.
Fail(unknown) ==
  /\ note' = Idle
  /\ entry' = IF Forgotten THEN NoEntry ELSE entry
  /\ excused' = excused \cup unknown \cup Abandoned
                        \cup {note.results[k].post : k \in DOMAIN note.results}

\* The template of a route cannot be rendered with this alert's data.
FailRender ==
  /\ note.pc = "route" /\ note.at \in Routes /\ ~Skipped(entry.ref[note.at]) /\ Fault
  /\ Fail({})
  /\ UNCHANGED <<config, down, posts, notes, lives>>

-----------------------------------------------------------------------------
(* The senders.                                                            *)

\* Whether the sender goes on from a reference: an active message or an issue.
Standing(route) == route.Mode = "active_only" \/ route.Channel = "tracker"
\* A message that is standing is edited; an issue that is open is left as it is.
Silent == Route.Channel = "tracker" /\ note.state = "firing" /\ note.ref # None
Posts == note.state = "firing" /\ (note.ref = None \/ ~Standing(Route))
Closes == note.state = "resolved" /\ Standing(Route)
Edits == ~Posts /\ ~Closes /\ Standing(Route)

\* The sender, or the service, has no way to do it: an issue to resolve is not known, or the
\* message was deleted by a request whose answer got lost.
Refused ==
  \/ Closes /\ note.ref = None
  \/ (Closes \/ Edits) /\ note.ref # None /\ ~Silent /\ ~posts[note.ref].open

\* What a request does to the channel: it opens a post, closes one, or changes none.
New == Len(posts) + 1
Effect ==
  IF Closes THEN [posts EXCEPT ![note.ref].open = FALSE]
  ELSE IF Edits THEN posts
  ELSE Append(posts, [route |-> note.at, life |-> lives, open |-> Standing(Route)])

\* The message is telegram's; the reference is what the channel is addressed by later.
Result ==
  [at |-> note.at, post |-> IF Closes \/ Edits THEN note.ref ELSE New,
   ref |-> IF Standing(Route) THEN IF Posts THEN New ELSE IF Closes THEN None ELSE note.ref
           ELSE IF Route.Channel = "mattermost" /\ note.state = "firing" THEN New ELSE None,
   msg |-> IF Route.Channel = "telegram" /\ ~Active /\ note.state = "firing" THEN New ELSE None]

Sent == [Past EXCEPT !.results = Append(note.results, Result)]

\* sender.Send succeeds.
Deliver ==
  /\ note.pc = "send" /\ ~Refused /\ (Silent \/ ~down)
  /\ posts' = IF Silent THEN posts ELSE Effect
  /\ note' = Sent
  /\ UNCHANGED <<config, down, entry, notes, lives, faults, excused>>

\* sendWithRetry after an error that is not permanent.
\* Mutant: the attempts are not counted.
NextAttemptUncounted(attempt) == attempt
\* Without a limit nothing depends on their number.
NextAttempt(attempt) == IF config.retry.MaxAttempts > 0 THEN attempt + 1 ELSE attempt
GivesUp == config.retry.MaxAttempts > 0 /\ NextAttempt(note.attempt) >= config.retry.MaxAttempts

Retry(unknown) ==
  IF ~config.retry.Enabled \/ GivesUp THEN Fail(unknown)
  ELSE /\ note' = [note EXCEPT !.pc = "wait", !.attempt = NextAttempt(@)]
       /\ excused' = excused \cup unknown
       /\ UNCHANGED entry

\* The service cannot be reached, or refuses.
FailSend ==
  /\ note.pc = "send" /\ ~Silent
  /\ \/ (down \/ Refused) /\ UNCHANGED faults
     \/ ~down /\ ~Refused /\ Fault
  /\ Retry({})
  /\ UNCHANGED <<config, down, posts, notes, lives>>

\* The request took effect, and its answer got lost: the sender returns an error.
LoseAnswer ==
  /\ note.pc = "send" /\ ~Silent /\ ~Refused /\ ~down /\ Fault
  /\ posts' = Effect
  /\ Retry(IF Posts THEN {New} ELSE IF Closes THEN {note.ref} ELSE {})
  /\ UNCHANGED <<config, down, notes, lives>>

\* The backoff is over, however long it has become.
Elapse ==
  /\ note.pc = "wait"
  /\ note' = [note EXCEPT !.pc = "send"]
  /\ UNCHANGED <<config, down, entry, posts, notes, lives, faults, excused>>

\* The context ends: only a tick's and a worker's does, never that of an event.
Cancel ==
  /\ note.pc = "wait" /\ Fault /\ Fail({})
  /\ UNCHANGED <<config, down, posts, notes, lives>>

-----------------------------------------------------------------------------
(* captureDeliveryEffects, after the last route.                           *)

\* Mutant: a result is kept under the route's channel, not under its own name.
ResultsOfChannel(i) ==
  {note.results[k] : k \in {n \in DOMAIN note.results :
                             config.routes[note.results[n].at].Channel = config.routes[i].Channel}}
Results(i) == {note.results[k] : k \in {n \in DOMAIN note.results : note.results[n].at = i}}

Learn(known, results, field(_)) ==
  LET new == {field(r) : r \in results} \ {None} IN IF new = {} THEN known ELSE Max(new)

\* The latest reference replaces the one before (of a Mattermost thread too, whose reply it
\* then is), the opening message of an alert stays.
Captured ==
  [entry EXCEPT
     !.ref = [i \in Routes |-> Learn(entry.ref[i], Results(i), LAMBDA r : r.ref)],
     !.msg = [i \in Routes |-> IF entry.msg[i] # None THEN entry.msg[i]
                               ELSE Learn(None, Results(i), LAMBDA r : r.msg)]]

applyDeliveryResults ==
  /\ note.pc = "route" /\ note.at \notin Routes
  /\ entry' = IF note.state = "resolved" THEN NoEntry ELSE Captured
  /\ note' = Idle
  /\ UNCHANGED <<config, down, posts, notes, lives, faults, excused>>

\* The services are gone for good.
GoDown == ~down /\ down' = TRUE
          /\ UNCHANGED <<config, entry, note, posts, notes, lives, faults, excused>>

-----------------------------------------------------------------------------

Init ==
  /\ config \in Configs
  /\ down = FALSE /\ note = Idle /\ posts = <<>> /\ notes = 0 /\ lives = 0 /\ faults = 0
  /\ entry = NoEntry
  /\ excused = {}

Step == \/ PrepareRoute \/ FailRender \/ Deliver \/ FailSend \/ LoseAnswer \/ Elapse \/ Cancel
        \/ applyDeliveryResults
Next == NotifyFiring \/ NotifyResolved \/ MuteFiring \/ MuteResolved \/ Step \/ GoDown

\* A request ends (the clients have timeouts) and a timer fires.
Spec == Init /\ [][Next]_vars /\ WF_vars(Step)

-----------------------------------------------------------------------------
(* Properties.                                                             *)

Open(i) == {k \in DOMAIN posts : posts[k].route = i /\ posts[k].open}
Opening(i) == {k \in DOMAIN posts : posts[k].route = i /\ posts[k].life = lives} \ excused

\* Between two notifications the alert knows what it has standing in the channels: an active
\* message or an issue that is open is the one it will edit and close, the one a firing alert
\* goes on from is open, and a Telegram resolve replies to the alert's first message, unless
\* the answer to the request that opened or closed the post got lost, another route failed and
\* took the reference with it, the resolve by TTL could not close it, or the alert was resolved
\* in an off window of its rule, where the resolve is not sent.
ReferencesHold ==
  note = Idle => \A i \in Routes :
    /\ Open(i) \ excused \subseteq {entry.ref[i]}
    /\ entry.firing /\ Standing(config.routes[i]) =>
         entry.ref[i] = None \/ posts[entry.ref[i]].open \/ entry.ref[i] \in excused
    /\ entry.firing /\ config.routes[i] = [Channel |-> "telegram", Mode |-> "history"]
         /\ Opening(i) # {} => entry.msg[i] = Min(Opening(i))

\* A send that can never succeed: the service is gone, or what it is asked for cannot be done.
Hopeless == note # Idle /\ note.at \in Routes /\ (down \/ Refused)

\* Every notification comes to an end, and with it the event or tick that sends it, unless it
\* is hopeless and max_attempts = 0 lets it try for ever.
SendEnds ==
  [](note # Idle =>
       <>(note = Idle \/ (Hopeless /\ config.retry.Enabled /\ config.retry.MaxAttempts = 0)))

===============================================================================
