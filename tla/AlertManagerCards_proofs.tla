----------------------- MODULE AlertManagerCards_proofs -----------------------
(***************************************************************************)
(* That the card and the messages of an alert follow it in AlertManager,   *)
(* proved for one instance with either store, any number of goroutines and *)
(* alerts, any rule and channel.                                           *)
(*                                                                         *)
(* View collects what the engine, the store and the messages say of one    *)
(* alert.  At says what a goroutine in the middle of its job may rely on,  *)
(* place by place; Follows adds what it holds for its next turns.  Tended  *)
(* is the invariant of one alert, InOrder that of the instance: it needs   *)
(* that no reference belongs to two alerts (Owned), because the cards of   *)
(* the memory store share their reference maps with the goroutines'        *)
(* copies.                                                                 *)
(***************************************************************************)
EXTENDS AlertManager_proofs

-----------------------------------------------------------------------------
(* An alert and its card.  As long as the goroutines take turns on an      *)
(* alert and nothing fails, the one at work on it accounts for every       *)
(* difference between the engine's entry, the card and the messages.       *)

\* What instance i's engine, the store and the messages say of alert a.
View(i, a) ==
  LET e == engine[i][a]
  IN  [phase |-> e.phase, ref |-> IF e = NoEntry THEN None ELSE e.ref,
       since |-> IF e = NoEntry THEN 0 ELSE e.life, card |-> cards[a], life |-> lives[a],
       told |-> sent[a], channel |-> rule.Channel]

\* The messages of one life: none yet, those of an alert that fires, of which an off window may
\* have kept back the first, or all there will be.
Quiet(m) == m.firing = 0 /\ m.opened = 0 /\ m.resolved = 0 /\ m.muted = 0
Opened(m, channel) ==
  /\ m.firing <= 1 /\ m.opened <= 1 /\ m.resolved = 0 /\ m.muted = 0
  /\ IF channel = "plain" THEN m.opened = 0 ELSE m.firing = 1 => m.opened = 1
Over(m) == /\ m.firing <= 1 /\ m.opened <= 1 /\ m.resolved + m.muted <= 1
           /\ m.firing = 1 => m.resolved + m.muted = 1
Now(v) == v.told[v.life]
Past(v) == \A l \in Life : /\ l > v.life => Quiet(v.told[l])
                           /\ 1 <= l /\ l < v.life => Over(v.told[l])

\* Entry, card and messages of the current life of an alert that is up ...
Live(v) == v.life >= 1 /\ v.since = v.life
Carded(v, s) == v.card # NoCard /\ v.card.State = s /\ v.card.life = v.life
InStep(v) == v.card.ref = v.ref
Fits(v, s) ==
  IF s = "pending" THEN Quiet(Now(v)) /\ v.ref = None
  ELSE Opened(Now(v), v.channel) /\ (v.ref = None <=> Now(v).opened = 0)
Running(v, s) ==
  s \in {"pending", "firing"} /\ Live(v) /\ Carded(v, s) /\ InStep(v) /\ Fits(v, s)

\* ... that is raised and has no card yet, is firing with or without the message, is to be
\* closed, has been, or is gone.
Begun(v) == Live(v) /\ v.card = NoCard /\ Fits(v, "pending")
ToOpen(v) == v.phase = "firing" /\ Live(v) /\ Carded(v, "firing") /\ InStep(v) /\ Fits(v, "pending")
Fired(v) == /\ v.phase = "firing" /\ Live(v) /\ Carded(v, "firing") /\ Opened(Now(v), v.channel)
            /\ v.channel # "plain" => Now(v).opened = 1
ToClose(v) ==
  Live(v) /\ Carded(v, "resolved") /\ InStep(v) /\ (Fits(v, "pending") \/ Fits(v, "firing"))
Spent(v) == v.life >= 1 /\ Over(Now(v))
Gone(v) == /\ v.card = NoCard /\ v.phase \in {"none", Inactive} /\ v.ref = None
           /\ v.life >= 1 => Over(Now(v))
Settled(v) == Gone(v) \/ Running(v, v.phase)

\* What a decision, or the job that carries it, finds.
Decided(v, d) ==
  /\ d.life = v.life /\ d.state \in CardStates
  /\ ~d.changed => d.state = v.phase /\ Running(v, d.state)
  /\ d.changed /\ d.state = "pending" => v.phase = "pending" /\ Begun(v)
  /\ d.changed /\ d.state = "firing" => v.phase = "firing" /\ (Begun(v) \/ Running(v, "pending"))
  /\ d.changed /\ d.state = "resolved" =>
       v.phase = Inactive /\ (Running(v, "pending") \/ Running(v, "firing"))

Prepared(j, v) ==
  /\ j.life = v.life /\ j.state \in {"firing", "resolved"}
  /\ j.state = "resolved" => ToClose(v)
  /\ j.state = "firing" /\ j.why = "repeat" => v.phase = "firing" /\ Running(v, "firing")
  /\ j.state = "firing" /\ j.why # "repeat" => ToOpen(v)

At(j, v) ==
  /\ j.pc \notin {"idle", "scan", "conflict"}
  /\ j.pc \in {"identity", "refresh", "read", "write"} =>
       Decided(v, j) /\ j.why \in {"event", "decision"}
  /\ j.pc \in {"read", "write"} => j.changed
  /\ j.pc = "write" => j.card = v.card
  /\ j.pc = "seed" => /\ j.state = "resolved" /\ j.changed /\ j.notify /\ j.life = v.life
                      /\ ToClose(v) /\ j.card.ref = v.ref
  /\ j.pc \in {"prepare", "send"} => Prepared(j, v)
  /\ j.pc = "send" => j.ref = v.ref
  /\ j.pc = "effects" => j.state \in {"firing", "resolved"}
  /\ j.pc = "effects" /\ j.state = "resolved" => Spent(v)
  /\ j.pc = "effects" /\ j.state = "firing" =>
       Fired(v) /\ InStep(v) /\ (j.ref = None <=> v.channel = "plain")
       /\ (v.channel = "plain" => v.ref = None)
  /\ j.pc \in {"refs", "refsWrite"} =>
       j.state = "firing" /\ Fired(v) /\ v.channel # "plain" /\ j.ref # None /\ v.ref = j.ref
  /\ j.pc = "refsWrite" => /\ j.card.rev = v.card.rev /\ j.card.State = "firing"
                           /\ j.card.ref = j.ref /\ j.card.life = v.life
  /\ j.pc \in {"delete", "deleteTick", "remove"} => Spent(v)
  /\ j.pc \in {"deleteTick", "remove"} => v.card = NoCard
  /\ j.pc \in {"flush", "ttlRead", "ttlWrite"} => Settled(v)
  /\ j.pc = "flush" => j.state # "resolved"
  /\ j.pc \in {"ttlRead", "ttlWrite"} => j.changed /\ j.notify
  /\ j.pc = "ttlWrite" =>
       j.card = v.card /\ j.life = v.life /\ j.card.State \in {"pending", "firing"}
  /\ j.state = "resolved" /\ j.why # "ttl" => v.phase \in {"none", Inactive}

Follows(j, a, v) ==
  /\ j.alert = a => At(j, v)
  /\ \A d \in j.todo : d.alert = a => Decided(v, d) /\ j.alert # a
  /\ \A d, f \in j.todo : d.alert = a /\ f.alert = a => d = f
  /\ j.alert # a /\ (\A d \in j.todo : d.alert # a) => Settled(v)
  /\ a \in j.repeats => v.phase = "firing"

\* The history of an alert is in order, one goroutine at most works on it, and
\* what it holds fits entry, card and messages; otherwise they fit each other.
Tended(i, a) ==
  /\ Past(View(i, a))
  /\ \A p, q \in Procs : a \in WorksOn(proc[p]) /\ a \in WorksOn(proc[q]) => p = q
  /\ \A p \in Procs : a \in WorksOn(proc[p]) => Follows(proc[p], a, View(i, a))
  /\ (\A p \in Procs : a \notin WorksOn(proc[p])) => Settled(View(i, a))

\* The job that goes on with alert a, or leaves it settled.
Onward(k, a, v) == (k.alert = a => At(k, v)) /\ (k.alert # a => Settled(v))

\* A resolve finds the alert inactive, but for that of an expired tick.
Quelled(j, v) == j.state = "resolved" /\ j.why # "ttl" => v.phase \in {"none", Inactive}

\* A job ends with its alert settled.
LEMMA FinishOnward ==
  ASSUME NEW j, Proper(j), j.pc \notin {"idle", "scan"}, NEW v, Settled(v)
  PROVE  Onward(Finish(j), j.alert, v)
<1>1. CASE j.why = "event" /\ j.late /\ j.state # "resolved"
  <2>1. Finish(j) = [j EXCEPT !.pc = "flush"]
    BY <1>1 DEF Finish
  <2>2. Finish(j).pc = "flush" /\ Finish(j).alert = j.alert /\ Finish(j).state = j.state
    BY <2>1 DEF Proper, Jobs
  <2> QED
    BY <1>1, <2>2 DEF Onward, At
<1>2. CASE ~(j.why = "event" /\ j.late /\ j.state # "resolved")
  <2>1. Finish(j).alert = "none"
    BY <1>2 DEF Finish, Idle
  <2>2. j.alert # "none"
    BY AlertsAssumption DEF Proper, Busy
  <2> QED
    BY <2>1, <2>2 DEF Onward
<1> QED
  BY <1>1, <1>2

\* Once a resolved life is told, or was never announced, the deletion follows.
LEMMA CloseOnward ==
  ASSUME NEW j, Proper(j), j.pc \notin {"idle", "scan"}, NEW v, Quelled(j, v),
         j.state = "resolved" => Spent(v), j.state # "resolved" => Settled(v)
  PROVE  Onward(Close(j), j.alert, v)
<1>1. CASE j.state = "resolved"
  <2>1. Close(j) = [j EXCEPT !.pc = "delete", !.card = NoCard, !.ref = None]
    BY <1>1 DEF Close
  <2>2. /\ Close(j).pc = "delete" /\ Close(j).alert = j.alert /\ Close(j).state = j.state
        /\ Close(j).why = j.why
    BY <2>1 DEF Proper, Jobs
  <2> QED
    BY <1>1, <2>2 DEF Onward, At, Quelled
<1>2. CASE j.state # "resolved"
  BY <1>2, FinishOnward DEF Close
<1> QED
  BY <1>1, <1>2

\* What a card write that may notify goes on to.
LEMMA NotifyOnward ==
  ASSUME NEW j, Proper(j), j.pc \notin {"idle", "scan"}, NEW v, Quelled(j, v),
         j.why # "repeat", j.changed, j.notify, j.life = v.life, j.state \in CardStates,
         j.state = "resolved" => ToClose(v), j.state = "firing" => ToOpen(v),
         j.state = "pending" => Settled(v)
  PROVE  Onward(Notify(j), j.alert, v)
<1>1. CASE j.state # "pending"
  <2>1. Notify(j) = [j EXCEPT !.pc = "prepare", !.card = NoCard]
    BY <1>1 DEF Notify
  <2>2. /\ Notify(j).pc = "prepare" /\ Notify(j).alert = j.alert /\ Notify(j).state = j.state
        /\ Notify(j).why = j.why /\ Notify(j).life = j.life
    BY <2>1 DEF Proper, Jobs
  <2>3. Prepared(Notify(j), v)
    BY <1>1, <2>2 DEF Prepared, CardStates
  <2> QED
    BY <1>1, <2>2, <2>3 DEF Onward, At, Quelled
<1>2. CASE j.state = "pending"
  BY <1>2, CloseOnward DEF Notify
<1> QED
  BY <1>1, <1>2

\* References come first, when the card has any: that is, at the end of a life.
LEMMA SeedOnward ==
  ASSUME NEW j, Proper(j), j.pc \notin {"idle", "scan"}, NEW v, Quelled(j, v),
         j.why # "repeat", j.changed, j.notify, j.life = v.life, j.state \in CardStates,
         j.state = "resolved" => ToClose(v), j.state = "firing" => ToOpen(v),
         j.state = "pending" => Running(v, "pending") /\ v.phase = "pending",
         j.card # NoCard, j.card.ref = v.card.ref
  PROVE  Onward(Seed(j), j.alert, v)
<1>1. CASE j.card.ref # None
  <2>1. Seed(j) = [j EXCEPT !.pc = "seed"]
    BY <1>1 DEF Seed
  <2>2. /\ Seed(j).pc = "seed" /\ Seed(j).alert = j.alert /\ Seed(j).state = j.state
        /\ Seed(j).why = j.why /\ Seed(j).life = j.life /\ Seed(j).changed = j.changed
        /\ Seed(j).notify = j.notify /\ Seed(j).card = j.card
    BY <2>1 DEF Proper, Jobs
  <2>3. j.state = "resolved" /\ j.card.ref = v.ref
    BY <1>1 DEF ToOpen, ToClose, Running, InStep, Fits, CardStates
  <2> QED
    BY <2>2, <2>3 DEF Onward, At, Quelled
<1>2. CASE j.card.ref = None
  BY <1>2, NotifyOnward DEF Seed, Settled
<1> QED
  BY <1>1, <1>2

\* What a job holds for its alert's next turn is kept ...
LEMMA FollowsOn ==
  ASSUME NEW a, NEW j, NEW k, NEW v, NEW w, Follows(j, a, v), j.alert = a, Onward(k, a, w),
         k.todo = j.todo, k.repeats = j.repeats,
         a \in j.repeats /\ v.phase = "firing" => w.phase = "firing"
  PROVE  Follows(k, a, w)
BY DEF Follows, Onward

\* ... and so is what it holds for the others.
LEMMA FollowsElsewhere ==
  ASSUME NEW a, NEW j, NEW k, NEW v, Follows(j, a, v), j.alert # a, k.alert # a,
         k.todo = j.todo, k.repeats = j.repeats
  PROVE  Follows(k, a, v)
BY DEF Follows

\* An alert looks the same to those who come next.
LEMMA SameView ==
  ASSUME NEW i, NEW a, engine'[i][a] = engine[i][a], cards'[a] = cards[a], lives'[a] = lives[a],
         sent'[a] = sent[a], rule' = rule
  PROVE  View(i, a)' = View(i, a)
BY DEF View

\* The fields of a view.
LEMMA Views ==
  ASSUME Typed, NEW i \in Instances, NEW a \in Alerts
  PROVE  LET v == View(i, a)
             e == engine[i][a]
         IN  /\ v.phase = e.phase /\ v.card = cards[a] /\ v.life = lives[a] /\ v.told = sent[a]
             /\ v.channel = rule.Channel
             /\ e = NoEntry => v.ref = None /\ v.since = 0
             /\ e # NoEntry => v.ref = e.ref /\ v.since = e.life
             /\ e \in Entries /\ v.life \in Life /\ v.card \in Cards \cup {NoCard}
             /\ \A l \in Life : /\ v.told[l].firing \in Nat /\ v.told[l].resolved \in Nat
                                /\ v.told[l].opened \in Nat /\ v.told[l].muted \in Nat
<1>1. /\ engine[i][a] \in Entries /\ lives[a] \in Life /\ cards[a] \in Cards \cup {NoCard}
      /\ sent[a] \in [Life -> [Kind -> Nat]]
  BY DEF Typed, TypeOK
<1> QED
  BY <1>1 DEF View, Kind

\* A live alert has its entry.
LEMMA LiveEntry ==
  ASSUME Typed, NEW i \in Instances, NEW a \in Alerts, Live(View(i, a))
  PROVE  engine[i][a] # NoEntry
BY Views DEF Live, Life

\* So it has for whoever carries a decision on it.
LEMMA DecidedLive ==
  ASSUME NEW v, NEW d, Decided(v, d)
  PROVE  Live(v)
<1>1. Begun(v) \/ (\E s \in CardStates : Running(v, s))
  BY DEF Decided, CardStates
<1> QED
  BY <1>1 DEF Begun, Running

\* Goroutine p follows alert a of instance i through its step.
Keeps(p, i, a) ==
  Follows(proc[p], a, View(i, a)) => Follows(proc'[p], a, View(i, a)')

\* On its way to the card a decision finds what the engine decided on.
LEMMA LookupFollows ==
  ASSUME Typed, NEW i \in Instances, Instances = {i}, NEW p \in Procs,
         GetAlertIdentity(p) \/ RefreshTick(p) \/ ReadCard(p), NEW a \in Alerts, a = proc[p].alert
  PROVE  Keeps(p, i, a)
<1> DEFINE o == proc[p]
           k == proc'[p]
           v == View(i, a)
<1>1. /\ Home[p] = i /\ Proper(o) /\ o.pc \in {"identity", "refresh", "flush", "read"}
      /\ k.todo = o.todo /\ k.repeats = o.repeats
  <2>1. Home[p] = i /\ Proper(o)
    BY HomeAssumption, GoroutinesProper DEF Typed
  <2> QED
    BY <2>1, LookupTurns DEF Proper, Busy, Ended, Stays
<1>2. View(i, a)' = v
  <2>1. UNCHANGED <<rule, engine, lives, cards, sent>>
    BY DEF GetAlertIdentity, RefreshTick, ReadCard, engineVars, storeVars, sendVars
  <2> QED
    BY <2>1, SameView
<1> SUFFICES ASSUME Follows(o, a, v) PROVE Onward(k, a, v)
  BY <1>1, <1>2, FollowsOn DEF Keeps
<1>3. At(o, v)
  BY DEF Follows
<1> DEFINE early == [o EXCEPT !.late = FALSE]
           refresh == [o EXCEPT !.pc = "refresh"]
           read == [o EXCEPT !.pc = "read"]
           write == [o EXCEPT !.pc = "write", !.card = cards[o.alert]]
<1>4. o.pc \in {"identity", "refresh", "read"} => HasEntry(p, a) /\ Decided(v, o)
  <2>1. o.pc \in {"identity", "refresh", "read"} => Decided(v, o)
    BY <1>3 DEF At
  <2> QED
    BY <1>1, <2>1, DecidedLive, LiveEntry DEF HasEntry, Entry
<1>5. \/ o.pc = "flush" /\ Becomes(p, Idle)
      \/ o.pc \in {"identity", "refresh"} /\ ~o.changed /\ Becomes(p, Finish(o))
      \/ o.pc = "identity" /\ Becomes(p, refresh)
      \/ o.pc \in {"identity", "refresh"} /\ o.changed /\ Becomes(p, read)
      \/ o.pc = "read" /\ Becomes(p, write)
  <2>1. GetAlertIdentity(p) => \/ o.pc = "identity" /\ ~o.changed /\ Becomes(p, Finish(o))
                               \/ o.pc = "identity" /\ Becomes(p, refresh)
                               \/ o.pc = "identity" /\ o.changed /\ Becomes(p, read)
    BY <1>4 DEF GetAlertIdentity
  <2>2. RefreshTick(p) => \/ o.pc = "flush" /\ Becomes(p, Idle)
                          \/ o.pc = "refresh" /\ ~o.changed /\ Becomes(p, Finish(o))
                          \/ o.pc = "refresh" /\ o.changed /\ Becomes(p, read)
    BY <1>1 DEF RefreshTick
  <2>3. ReadCard(p) => o.pc = "read" /\ Becomes(p, write)
    BY DEF ReadCard
  <2> QED
    BY <2>1, <2>2, <2>3
<1>6. CASE o.pc = "flush" /\ Becomes(p, Idle)
  <2>1. k = Idle
    BY <1>6, OnlyOne
  <2>2. k.alert # a
    BY <1>1, <2>1, AlertsAssumption DEF Idle
  <2> QED
    BY <1>3, <1>6, <2>2 DEF Onward, At
<1>7. CASE o.pc \in {"identity", "refresh"} /\ ~o.changed /\ Becomes(p, Finish(o))
  <2>1. Settled(v)
    BY <1>4, <1>7 DEF Decided, Settled
  <2>2. k = Finish(o)
    BY <1>7, OnlyOne
  <2> QED
    BY <1>1, <2>1, <2>2, FinishOnward
<1>8. CASE \/ o.pc = "identity" /\ Becomes(p, refresh)
           \/ o.pc \in {"identity", "refresh"} /\ o.changed /\ Becomes(p, read)
           \/ o.pc = "read" /\ Becomes(p, write)
  <2>1. k = refresh \/ (o.changed /\ k = read) \/ (o.changed /\ k = write)
    BY <1>3, <1>8, OnlyOne DEF At
  <2>2. v.card = cards[a]
    BY Views
  <2>3. /\ k.alert = a /\ k.state = o.state /\ k.changed = o.changed /\ k.why = o.why
        /\ k.life = o.life
        /\ k.pc \in {"refresh", "read", "write"} /\ (k.pc # "refresh" => o.changed)
        /\ k.pc = "write" => k.card = v.card
    BY <1>1, <2>1, <2>2 DEF Proper, Jobs
  <2>4. Decided(v, k)
    BY <1>4, <1>8, <2>3 DEF Decided
  <2> QED
    BY <1>3, <1>8, <2>3, <2>4 DEF Onward, At
<1> QED
  BY <1>5, <1>6, <1>7, <1>8

\* Two views that differ at most in the phase and the card.
Alike(v, w) ==
  w.ref = v.ref /\ w.since = v.since /\ w.life = v.life /\ w.told = v.told /\ w.channel = v.channel

\* They agree on the life and on the messages.
LEMMA AlikeFits ==
  ASSUME NEW v, NEW w, Alike(v, w)
  PROVE  /\ Live(w) <=> Live(v)
         /\ \A s : Fits(w, s) <=> Fits(v, s)
         /\ Now(w) = Now(v) /\ (Spent(w) <=> Spent(v)) /\ (Past(w) <=> Past(v))
BY DEF Alike, Live, Fits, Now, Spent, Past

\* A card write changes nothing but the card.
LEMMA PutView ==
  ASSUME Typed, NEW i \in Instances, NEW a \in Alerts, NEW c \in Cards, Put(a, c),
         UNCHANGED <<rule, engine, lives, sent>>
  PROVE  LET v == View(i, a)
             w == View(i, a)'
         IN  /\ Alike(v, w) /\ w.phase = v.phase /\ w.card # NoCard
             /\ w.card.State = c.State /\ w.card.ref = c.ref /\ w.card.life = c.life
             /\ \A b \in Alerts \ {a} : cards'[b] = cards[b]
<1> DEFINE rev == NextRevision(a)
           new == [c EXCEPT !.rev = rev]
<1>1. cards' = [cards EXCEPT ![a] = new]
  BY DEF Put
<1>2. cards'[a] = new /\ \A b \in Alerts \ {a} : cards'[b] = cards[b]
  BY <1>1 DEF Typed, TypeOK
<1> HIDE DEF rev
<1>3. new.State = c.State /\ new.ref = c.ref /\ new.life = c.life /\ c.State \in CardStates
  BY DEF Cards
<1>4. new # NoCard
  BY <1>3 DEF NoCard, CardStates
<1> HIDE DEF new
<1> QED
  BY <1>2, <1>3, <1>4 DEF View, Alike

\* The card a decision writes has its state, and the reference and the life of the one it follows.
LEMMA WrittenFields ==
  ASSUME NEW j, Proper(j), j.pc \notin {"idle", "scan"}
  PROVE  /\ Written(j).State = j.state
         /\ Written(j).ref = IF j.card = NoCard THEN None ELSE j.card.ref
         /\ Written(j).life = IF j.card = NoCard \/ j.state # "resolved" THEN j.life ELSE j.card.life
<1>1. CASE j.card = NoCard
  BY <1>1 DEF Written
<1>2. CASE j.card # NoCard
  <2> DEFINE c == j.card
             l == IF j.state = "resolved" THEN c.life ELSE j.life
             w == [c EXCEPT !.State = j.state, !.life = l]
  <2>1. c \in Cards
    BY <1>2 DEF Proper, Jobs
  <2>2. Written(j) = w
    BY <1>2 DEF Written
  <2> HIDE DEF l
  <2>3. w.State = j.state /\ w.life = l /\ w.ref = c.ref
    BY <2>1 DEF Cards
  <2> HIDE DEF w
  <2> QED
    BY <1>2, <2>2, <2>3 DEF l
<1> QED
  BY <1>1, <1>2

\* What a decided transition finds becomes, by its card write, what the notification finds.
LEMMA DecidedWrites ==
  ASSUME NEW v, NEW w, NEW d, Decided(v, d), d.changed, Alike(v, w), w.phase = v.phase,
         w.card # NoCard, w.card.State = d.state,
         w.card.ref = IF v.card = NoCard THEN None ELSE v.card.ref,
         w.card.life = IF v.card = NoCard \/ d.state # "resolved" THEN d.life ELSE v.card.life
  PROVE  /\ d.state = "resolved" => ToClose(w)
         /\ d.state = "firing" => ToOpen(w)
         /\ d.state = "pending" => Running(w, "pending") /\ w.phase = "pending"
         /\ d.life = w.life /\ AllowNotify(v.card, d.state)
<1>1. w.life = v.life /\ d.life = v.life /\ (Live(w) <=> Live(v)) /\ w.ref = v.ref
  BY AlikeFits DEF Alike, Decided
<1>2. \A s : Fits(w, s) <=> Fits(v, s)
  BY AlikeFits
<1>3. ASSUME Begun(v), d.state # "resolved"
      PROVE  Live(w) /\ Fits(w, "pending") /\ Carded(w, d.state) /\ InStep(w) /\ AllowNotify(v.card, d.state)
  <2>1. w.ref = None
    BY <1>1, <1>3 DEF Begun, Fits
  <2> QED
    BY <1>1, <1>2, <1>3, <2>1 DEF Begun, Carded, InStep, AllowNotify
<1>4. ASSUME NEW s, Running(v, s), d.state # s
      PROVE  Live(w) /\ Fits(w, s) /\ Carded(w, d.state) /\ InStep(w) /\ AllowNotify(v.card, d.state)
  BY <1>1, <1>2, <1>4 DEF Running, Carded, InStep, AllowNotify
<1>5. CASE d.state = "pending"
  BY <1>1, <1>3, <1>5 DEF Decided, Running
<1>6. CASE d.state = "firing"
  BY <1>1, <1>3, <1>4, <1>6 DEF Decided, ToOpen
<1>7. CASE d.state = "resolved"
  BY <1>1, <1>4, <1>7 DEF Decided, ToClose
<1> QED
  BY <1>5, <1>6, <1>7 DEF Decided, CardStates

\* A decision writes the card it read.
LEMMA WriteFollows ==
  ASSUME Typed, NEW i \in Instances, NEW p \in Procs, WriteCard(p), NEW a \in Alerts,
         a = proc[p].alert,
         UNCHANGED errors
  PROVE  Keeps(p, i, a)
<1> DEFINE o == proc[p]
           k == proc'[p]
           v == View(i, a)
           w == View(i, a)'
           c == Written(o)
           n == AllowNotify(o.card, o.state)
           next == [o EXCEPT !.card = c, !.notify = n]
<1> SUFFICES ASSUME Follows(o, a, v) PROVE Follows(k, a, w)
  BY DEF Keeps
<1>1. Proper(o) /\ o.pc = "write" /\ At(o, v)
  BY GoroutinesProper DEF Typed, WriteCard, Follows
<1>2. Decided(v, o) /\ o.changed /\ o.card = v.card /\ v.card = cards[a] /\ o.why # "repeat"
  BY <1>1, Views DEF At
<1>3. SameRevision(o.card, a)
  BY <1>2 DEF SameRevision
<1>4. Put(a, c) /\ Becomes(p, Seed(next)) /\ UNCHANGED <<rule, engine, lives, sent>>
  BY <1>3 DEF WriteCard, engineVars
<1>5. c \in Cards /\ c # NoCard /\ n \in BOOLEAN
  BY <1>1, WrittenTypes DEF AllowNotify
<1>6. /\ Alike(v, w) /\ w.phase = v.phase /\ w.card # NoCard
      /\ w.card.State = c.State /\ w.card.ref = c.ref /\ w.card.life = c.life
  BY <1>4, <1>5, PutView
<1>7. /\ o.state = "resolved" => ToClose(w)
      /\ o.state = "firing" => ToOpen(w)
      /\ o.state = "pending" => Running(w, "pending") /\ w.phase = "pending"
      /\ o.life = w.life /\ n
  <2>1. /\ c.State = o.state
        /\ c.ref = IF o.card = NoCard THEN None ELSE o.card.ref
        /\ c.life = IF o.card = NoCard \/ o.state # "resolved" THEN o.life ELSE o.card.life
    BY <1>1, WrittenFields
  <2> HIDE DEF w, v, c
  <2> QED
    BY <1>2, <1>6, <2>1, DecidedWrites
<1> HIDE DEF c, n
<1>8. /\ next \in Jobs /\ next.pc = "write" /\ next.alert = a /\ next.state = o.state
      /\ next.why = o.why
      /\ next.todo = o.todo /\ next.repeats = o.repeats /\ next.changed = o.changed
      /\ next.life = o.life /\ next.card = c /\ next.notify = n
  BY <1>1, <1>5 DEF Proper, Jobs
<1> HIDE DEF next
<1>9. Proper(next) /\ k = Seed(next)
  BY <1>1, <1>4, <1>8, MovesProper, OnlyOne
<1>10. Quelled(next, w) /\ next.state \in CardStates
  BY <1>1, <1>2, <1>6, <1>8 DEF Quelled, At, Decided
<1>11. Onward(k, a, w)
  BY <1>2, <1>5, <1>6, <1>7, <1>8, <1>9, <1>10, SeedOnward
<1>12. k.todo = o.todo /\ k.repeats = o.repeats
  BY <1>8, <1>9, SeedShape
<1> QED
  BY <1>6, <1>11, <1>12, FollowsOn

\* An expired tick resolves the card of a settled alert, whatever the engine's phase.
LEMMA ExpiryFollows ==
  ASSUME Typed, NEW i \in Instances, NEW p \in Procs, ReadExpired(p) \/ ResolveExpired(p),
         NEW a \in Alerts, a = proc[p].alert
  PROVE  Keeps(p, i, a)
<1> DEFINE o == proc[p]
           k == proc'[p]
           v == View(i, a)
           w == View(i, a)'
<1> SUFFICES ASSUME Follows(o, a, v) PROVE Follows(k, a, w)
  BY DEF Keeps
<1>1. Proper(o) /\ At(o, v) /\ o.pc \in {"ttlRead", "ttlWrite"} /\ o.why = "ttl" /\ o.state = "resolved"
  BY GoroutinesProper DEF Typed, ReadExpired, ResolveExpired, Follows, Proper, Placed
<1>2. Settled(v) /\ o.changed /\ o.notify /\ v.card = cards[a] /\ a # "none"
  BY <1>1, Views, AlertsAssumption DEF At
<1>3. v.card # NoCard => Running(v, v.phase)
  BY <1>2 DEF Settled, Gone
<1>4. ASSUME k = Idle, w = v PROVE Follows(k, a, w)
  BY <1>2, <1>4 DEF Follows, Idle
<1>5. CASE ReadExpired(p)
  <2> DEFINE c == cards[a]
             next == [o EXCEPT !.pc = "ttlWrite", !.card = c, !.life = c.life]
  <2>1. w = v
    BY <1>5, SameView DEF ReadExpired, engineVars, storeVars, sendVars
  <2>2. Becomes(p, IF c.State \in {"pending", "firing"} THEN next ELSE Idle)
    BY <1>5 DEF ReadExpired
  <2>3. CASE k = Idle
    BY <1>4, <2>1, <2>3
  <2>4. CASE c.State \in {"pending", "firing"} /\ k = next
    <3>1. /\ k.pc = "ttlWrite" /\ k.card = c /\ k.life = c.life /\ k.alert = a /\ k.changed
          /\ k.notify
          /\ k.todo = o.todo /\ k.repeats = o.repeats /\ k.why = "ttl" /\ k.state = "resolved"
      BY <1>1, <1>2, <2>4 DEF Proper, Jobs
    <3>2. c.life = v.life
      BY <1>2, <1>3, <2>4 DEF NoCard, Running, Carded
    <3>3. Onward(k, a, w)
      BY <1>2, <2>1, <2>4, <3>1, <3>2 DEF Onward, At
    <3> QED
      BY <2>1, <3>1, <3>3, FollowsOn
  <2> QED
    BY <2>2, <2>3, <2>4, OnlyOne
<1>6. CASE ResolveExpired(p)
  <2> DEFINE c == [o.card EXCEPT !.State = "resolved"]
             next == [o EXCEPT !.card = c]
  <2>1. o.pc = "ttlWrite" /\ o.card = cards[a] /\ o.life = v.life /\ o.card # NoCard
    BY <1>1, <1>2, <1>6 DEF ResolveExpired, At, Proper, Placed
  <2>2. Put(a, c) /\ Becomes(p, Seed(next)) /\ UNCHANGED <<rule, engine, lives, sent>>
    BY <1>6, <2>1 DEF ResolveExpired, SameRevision, engineVars, sendVars
  <2>3. o.card \in Cards
    BY <1>1, <2>1 DEF Proper, Jobs
  <2>4. c \in Cards /\ c.State = "resolved" /\ c.ref = o.card.ref /\ c.life = o.card.life /\ c # NoCard
    BY <2>3 DEF Cards, NoCard, CardStates
  <2> HIDE DEF c
  <2>5. /\ Alike(v, w) /\ w.phase = v.phase /\ w.card # NoCard
        /\ w.card.State = c.State /\ w.card.ref = c.ref /\ w.card.life = c.life
    BY <2>2, <2>4, PutView
  <2>6. Running(v, v.phase) /\ c.ref = v.ref /\ c.life = v.life
    BY <1>2, <1>3, <2>1, <2>4 DEF Running, InStep, Carded
  <2>7. ToClose(w) /\ o.life = w.life
    <3>1. Live(w) /\ Fits(w, v.phase) /\ w.ref = v.ref /\ w.life = v.life
      BY <2>5, <2>6, AlikeFits DEF Running, Alike
    <3> QED
      BY <2>1, <2>4, <2>5, <2>6, <3>1 DEF ToClose, Carded, InStep, Running
  <2>8. /\ next \in Jobs /\ next.pc = "ttlWrite" /\ next.alert = a /\ next.state = "resolved"
        /\ next.why = "ttl" /\ next.todo = o.todo /\ next.repeats = o.repeats /\ next.changed
        /\ next.life = o.life /\ next.card = c /\ next.notify
    BY <1>1, <1>2, <2>1, <2>4 DEF Proper, Jobs
  <2> HIDE DEF next
  <2>9. Proper(next) /\ k = Seed(next)
    BY <1>1, <2>2, <2>4, <2>8, MovesProper, OnlyOne
  <2>10. Quelled(next, w) /\ next.state \in CardStates
    BY <2>8 DEF Quelled, CardStates
  <2>11. Onward(k, a, w)
    BY <2>4, <2>5, <2>7, <2>8, <2>9, <2>10, SeedOnward
  <2>12. k.todo = o.todo /\ k.repeats = o.repeats
    BY <2>8, <2>9, SeedShape
  <2> QED
    BY <2>5, <2>11, <2>12, FollowsOn
<1> QED
  BY <1>5, <1>6

\* What the engine is told of an alert's delivery changes its reference at most.
LEMMA EntryView ==
  ASSUME Typed, NEW i \in Instances, NEW p \in Procs, Home[p] = i, NEW a \in Alerts,
         NEW e \in Entries \ {NoEntry}, SetEntry(p, a, e),
         HasEntry(p, a), e.phase = Entry(p, a).phase, e.life = Entry(p, a).life,
         UNCHANGED <<rule, lives, cards, sent>>
  PROVE  LET v == View(i, a)
             w == View(i, a)'
         IN  /\ w.ref = e.ref /\ w.phase = v.phase /\ w.since = v.since /\ w.life = v.life
             /\ w.card = v.card /\ w.told = v.told /\ w.channel = v.channel
<1>1. engine'[i][a] = e
  BY DEF SetEntry, Typed, TypeOK
<1> QED
  BY <1>1 DEF View, HasEntry, Entry

\* Seeding finds the reference the engine has.
LEMMA SeedFollows ==
  ASSUME Typed, NEW i \in Instances, Instances = {i}, NEW p \in Procs,
         ResolveConflict(p) \/ SeedExternalRefs(p), NEW a \in Alerts, a = proc[p].alert
  PROVE  Keeps(p, i, a)
<1> DEFINE o == proc[p]
           k == proc'[p]
           v == View(i, a)
           w == View(i, a)'
           r == o.card.ref
           f == Entry(p, a)
           e == [f EXCEPT !.ref = r]
<1> SUFFICES ASSUME Follows(o, a, v) PROVE Follows(k, a, w)
  BY DEF Keeps
<1>1. /\ Proper(o) /\ At(o, v) /\ o.pc = "seed" /\ Home[p] = i /\ SeedExternalRefs(p)
  BY GoroutinesProper, HomeAssumption DEF Typed, ResolveConflict, SeedExternalRefs, Follows, At
<1>2. /\ o.state = "resolved" /\ o.changed /\ o.notify /\ o.life = v.life /\ ToClose(v) /\ r = v.ref
  BY <1>1 DEF At
<1>3. HasEntry(p, a) /\ f \in [phase : Phases, ref : Reference, told : BOOLEAN, life : Life]
  <2>1. HasEntry(p, a)
    BY <1>1, <1>2, LiveEntry DEF ToClose, HasEntry, Entry
  <2> QED
    BY <2>1, EntryTypes DEF HasEntry, Entries
<1>4. SetEntry(p, a, e) /\ Becomes(p, Notify(o)) /\ UNCHANGED <<rule, lives, cards, sent>>
  BY <1>1, <1>3 DEF SeedExternalRefs, storeVars, sendVars
<1>5. r \in Reference
  BY <1>1 DEF Proper, Placed, Jobs, Cards
<1> HIDE DEF f, r
<1>6. e \in Entries \ {NoEntry} /\ e.phase = f.phase /\ e.life = f.life /\ e.ref = r
  BY <1>3, <1>5 DEF Entries, NoEntry, Phases, Inactive
<1> HIDE DEF e
<1>7. /\ w.ref = v.ref /\ w.phase = v.phase /\ w.since = v.since /\ w.life = v.life
      /\ w.card = v.card /\ w.told = v.told /\ w.channel = v.channel
  BY <1>1, <1>2, <1>3, <1>4, <1>6, EntryView DEF f
<1>8. ToClose(w) /\ Quelled(o, w)
  <2>1. Alike(v, w)
    BY <1>7 DEF Alike
  <2> QED
    BY <1>1, <1>2, <1>7, <2>1, AlikeFits DEF ToClose, Carded, InStep, Quelled, At
<1>9. k = Notify(o) /\ o.why # "repeat"
  BY <1>1, <1>2, <1>4, OnlyOne DEF Proper, Placed
<1>10. Onward(k, a, w)
  BY <1>1, <1>2, <1>7, <1>8, <1>9, NotifyOnward DEF CardStates
<1>11. k.todo = o.todo /\ k.repeats = o.repeats
  BY <1>1, <1>9, NotifyShape
<1> QED
  BY <1>7, <1>10, <1>11, FollowsOn

\* A resolve that Mattermost has no post for is through at once.
LEMMA PrepareFollows ==
  ASSUME Typed, NEW i \in Instances, Instances = {i}, NEW p \in Procs, PrepareNotification(p),
         NEW a \in Alerts, a = proc[p].alert
  PROVE  Keeps(p, i, a)
<1> DEFINE o == proc[p]
           k == proc'[p]
           v == View(i, a)
           ref == IF HasEntry(p, a) THEN Entry(p, a).ref ELSE None
           next == [o EXCEPT !.pc = "send", !.ref = ref]
<1> SUFFICES ASSUME Follows(o, a, v) PROVE Follows(k, a, v)
  <2>1. View(i, a)' = v
    BY SameView DEF PrepareNotification, engineVars, storeVars, sendVars
  <2> QED
    BY <2>1 DEF Keeps
<1>1. Proper(o) /\ At(o, v) /\ o.pc = "prepare" /\ Home[p] = i
  BY GoroutinesProper, HomeAssumption DEF Typed, PrepareNotification, Follows
<1>2. Prepared(o, v) /\ ref = v.ref /\ v.channel = rule.Channel
  BY <1>1, Views DEF At, HasEntry, Entry
<1> HIDE DEF ref
<1>3. CASE rule.Channel = "mattermost" /\ o.state = "resolved" /\ ref = None /\ k = Close(o)
  <2>1. Spent(v)
    <3>1. v.life >= 1 /\ (Quiet(Now(v)) \/ (Opened(Now(v), v.channel) /\ Now(v).opened = 0))
      BY <1>2, <1>3 DEF Prepared, ToClose, Live, Fits
    <3> QED
      BY <1>2, <1>3, <3>1 DEF Quiet, Opened, Over, Spent
  <2>2. Onward(k, a, v)
    BY <1>1, <1>3, <2>1, CloseOnward DEF Quelled, At
  <2>3. k.todo = o.todo /\ k.repeats = o.repeats
    BY <1>1, <1>3, CloseShape
  <2> QED
    BY <2>2, <2>3, FollowsOn
<1>4. CASE k = next
  <2>1. /\ k.pc = "send" /\ k.alert = a /\ k.state = o.state /\ k.why = o.why /\ k.life = o.life
        /\ k.todo = o.todo /\ k.repeats = o.repeats /\ k.ref = v.ref
    BY <1>1, <1>2, <1>4 DEF Proper, Jobs
  <2>2. Prepared(k, v)
    BY <1>2, <2>1 DEF Prepared
  <2>3. Onward(k, a, v)
    BY <1>1, <2>1, <2>2 DEF Onward, At
  <2> QED
    BY <2>1, <2>3, FollowsOn
<1>5. Becomes(p, IF rule.Channel = "mattermost" /\ o.state = "resolved" /\ ref = None
                 THEN Close(o) ELSE next)
  BY DEF PrepareNotification, ref
<1> QED
  BY <1>3, <1>4, <1>5, OnlyOne

\* A resolve that an off window keeps back counts for the life of its job.
LEMMA MuteView ==
  ASSUME Typed, NEW i \in Instances, NEW p \in Procs, Mute(p), NEW a \in Alerts, a = proc[p].alert
  PROVE  LET j == proc[p]
             v == View(i, a)
             w == View(i, a)'
             m == v.told[j.life]
             n == w.told[j.life]
         IN  /\ w.ref = v.ref /\ w.since = v.since /\ w.life = v.life /\ w.channel = v.channel
             /\ w.phase = v.phase /\ w.card = v.card
             /\ \A l \in Life \ {j.life} : w.told[l] = v.told[l]
             /\ j.state # "resolved" => w.told = v.told
             /\ j.state = "resolved" =>
                  /\ n.firing = m.firing /\ n.opened = m.opened /\ n.resolved = m.resolved
                  /\ n.muted = m.muted + 1
<1> DEFINE j == proc[p]
           old == sent[a][j.life]
           new == [old EXCEPT !["muted"] = old["muted"] + 1]
<1>1. j.life \in Life /\ UNCHANGED <<rule, engine, lives, cards>>
  BY GoroutinesProper DEF Mute, Typed, Proper, Jobs, engineVars, storeVars
<1>2. sent \in [Alerts -> [Life -> [Kind -> Nat]]] /\ old \in [Kind -> Nat]
  BY <1>1 DEF Typed, TypeOK
<1>3. /\ new["firing"] = old["firing"] /\ new["opened"] = old["opened"]
      /\ new["resolved"] = old["resolved"] /\ new["muted"] = old["muted"] + 1
  BY <1>2 DEF Kind
<1>4. j.state = "resolved" => sent' = [sent EXCEPT ![a] = [sent[a] EXCEPT ![j.life] = new]]
  BY DEF Mute
<1>5. j.state # "resolved" => sent' = sent
  BY DEF Mute
<1> HIDE DEF new
<1>6. j.state = "resolved" => sent'[a][j.life] = new
  BY <1>1, <1>2, <1>4
<1>7. \A l \in Life \ {j.life} : sent'[a][l] = sent[a][l]
  BY <1>1, <1>2, <1>4, <1>5
<1> QED
  BY <1>1, <1>3, <1>5, <1>6, <1>7 DEF View

\* A resolve kept back closes its life all the same; a firing alert stays as it is.
LEMMA MuteFollows ==
  ASSUME Typed, NEW i \in Instances, NEW p \in Procs, Mute(p), NEW a \in Alerts, a = proc[p].alert
  PROVE  /\ Keeps(p, i, a)
         /\ Follows(proc[p], a, View(i, a)) /\ Past(View(i, a)) => Past(View(i, a)')
<1> DEFINE o == proc[p]
           k == proc'[p]
           v == View(i, a)
           w == View(i, a)'
           m == v.told[o.life]
           n == w.told[o.life]
<1> SUFFICES ASSUME Follows(o, a, v) PROVE Follows(k, a, w) /\ (Past(v) => Past(w))
  BY DEF Keeps
<1>1. Proper(o) /\ At(o, v) /\ o.pc = "prepare" /\ k = Close(o)
  BY GoroutinesProper, OnlyOne DEF Typed, Mute, Follows
<1>2. Prepared(o, v) /\ o.life = v.life /\ v.life \in Life
  BY <1>1, Views DEF At, Prepared
<1>3. /\ w.ref = v.ref /\ w.since = v.since /\ w.life = v.life /\ w.channel = v.channel
      /\ w.phase = v.phase /\ w.card = v.card
      /\ \A l \in Life \ {o.life} : w.told[l] = v.told[l]
      /\ o.state # "resolved" => w.told = v.told
      /\ o.state = "resolved" =>
           /\ n.firing = m.firing /\ n.opened = m.opened /\ n.resolved = m.resolved
           /\ n.muted = m.muted + 1
  BY MuteView
<1>4. Past(v) => Past(w)
  BY <1>2, <1>3 DEF Past, Life
<1>5. k.todo = o.todo /\ k.repeats = o.repeats
  BY <1>1, CloseShape
<1>6. Now(v) = m /\ Now(w) = n
  BY <1>2, <1>3 DEF Now
<1>7. m.firing \in Nat /\ m.opened \in Nat /\ m.resolved \in Nat /\ m.muted \in Nat
  BY <1>2, Views
<1> HIDE DEF v, w, m, n
<1>8. CASE o.state = "resolved"
  <2>1. v.life >= 1 /\ (Quiet(m) \/ Opened(m, v.channel))
    BY <1>2, <1>6, <1>8 DEF Prepared, ToClose, Live, Fits
  <2>2. Over(n)
    BY <1>3, <1>7, <1>8, <2>1 DEF Quiet, Opened, Over
  <2>3. Spent(w) /\ Quelled(o, w)
    BY <1>1, <1>3, <1>6, <2>1, <2>2 DEF Spent, Quelled, At
  <2>4. Onward(k, a, w)
    BY <1>1, <1>8, <2>3, CloseOnward
  <2> QED
    BY <1>3, <1>4, <1>5, <2>4, FollowsOn
<1>9. CASE o.state = "firing"
  <2>1. /\ v.phase = "firing" /\ Live(v) /\ Carded(v, "firing") /\ InStep(v)
        /\ Fits(v, "pending") \/ Fits(v, "firing")
    BY <1>2, <1>9 DEF Prepared, ToOpen, Running
  <2>2. Fits(v, "firing")
    BY <2>1 DEF Fits, Quiet, Opened
  <2>3. Alike(v, w)
    BY <1>3, <1>9 DEF Alike
  <2>4. Running(w, "firing") /\ w.phase = "firing"
    BY <1>3, <2>1, <2>2, <2>3, AlikeFits DEF Running, Carded, InStep
  <2>5. Onward(k, a, w)
    BY <1>1, <1>9, <2>4, CloseOnward DEF Settled, Quelled
  <2> QED
    BY <1>3, <1>4, <1>5, <2>5, FollowsOn
<1> QED
  BY <1>2, <1>8, <1>9 DEF Prepared

\* A message counts for the life of its job.
LEMMA SendView ==
  ASSUME Typed, NEW i \in Instances, NEW p \in Procs, Send(p), NEW a \in Alerts, a = proc[p].alert
  PROVE  LET j == proc[p]
             v == View(i, a)
             w == View(i, a)'
             m == v.told[j.life]
             n == w.told[j.life]
         IN  /\ w.ref = v.ref /\ w.since = v.since /\ w.life = v.life /\ w.channel = v.channel
             /\ w.phase = v.phase /\ w.card = v.card /\ v.channel = rule.Channel
             /\ \A l \in Life \ {j.life} : w.told[l] = v.told[l]
             /\ Silent(j) => w.told = v.told
             /\ ~Silent(j) =>
                  /\ n.firing = m.firing + IF "firing" \in Kinds(j) THEN 1 ELSE 0
                  /\ n.opened = m.opened + IF "opened" \in Kinds(j) THEN 1 ELSE 0
                  /\ n.resolved = m.resolved + IF "resolved" \in Kinds(j) THEN 1 ELSE 0
                  /\ n.muted = m.muted
             /\ \A b \in Alerts \ {a} : sent'[b] = sent[b]
<1> DEFINE j == proc[p]
           S == Kind
           old == sent[a][j.life]
           new == [k \in DOMAIN old |-> old[k] + IF k \in Kinds(j) THEN 1 ELSE 0]
<1>1. j.life \in Life /\ j.state # "muted" /\ UNCHANGED <<rule, engine, lives, cards>>
  BY GoroutinesProper
     DEF Send, Typed, Proper, Jobs, CardStates, Inactive, engineVars, storeVars
<1>2. sent \in [Alerts -> [Life -> [S -> Nat]]] /\ old \in [S -> Nat]
  BY <1>1 DEF Typed, TypeOK
<1>3. /\ new["firing"] = old["firing"] + IF "firing" \in Kinds(j) THEN 1 ELSE 0
      /\ new["opened"] = old["opened"] + IF "opened" \in Kinds(j) THEN 1 ELSE 0
      /\ new["resolved"] = old["resolved"] + IF "resolved" \in Kinds(j) THEN 1 ELSE 0
      /\ new["muted"] = old["muted"]
  <2>1. "muted" \notin Kinds(j)
    BY <1>1 DEF Kinds
  <2>2. \A k \in S : new[k] = old[k] + IF k \in Kinds(j) THEN 1 ELSE 0
    BY <1>2
  <2>3. {"firing", "opened", "resolved", "muted"} = S /\ old["muted"] \in Nat
    BY <1>2 DEF Kind
  <2>4. /\ new["firing"] = old["firing"] + IF "firing" \in Kinds(j) THEN 1 ELSE 0
        /\ new["opened"] = old["opened"] + IF "opened" \in Kinds(j) THEN 1 ELSE 0
        /\ new["resolved"] = old["resolved"] + IF "resolved" \in Kinds(j) THEN 1 ELSE 0
    BY <2>2, <2>3, Zenon
  <2>5. new["muted"] = old["muted"] + 0
    BY <2>1, <2>2, <2>3, Zenon
  <2>6. \A n \in Nat : n + 0 = n
    OBVIOUS
  <2> QED
    BY <2>3, <2>4, <2>5, <2>6, Zenon
<1>4. ~Silent(j) => sent' = [sent EXCEPT ![a] = [sent[a] EXCEPT ![j.life] = new]]
  BY DEF Send
<1>5. Silent(j) => sent' = sent
  BY DEF Send
<1> HIDE DEF new, old
<1>6. ~Silent(j) => sent'[a][j.life] = new
  BY <1>1, <1>2, <1>4
<1>7. \A l \in Life \ {j.life} : sent'[a][l] = sent[a][l]
  BY <1>1, <1>2, <1>4, <1>5
<1>8. \A b \in Alerts \ {a} : sent'[b] = sent[b]
  BY <1>2, <1>4, <1>5
<1>9. ~Silent(j) =>
        /\ sent'[a][j.life].firing = sent[a][j.life].firing + IF "firing" \in Kinds(j) THEN 1 ELSE 0
        /\ sent'[a][j.life].opened = sent[a][j.life].opened + IF "opened" \in Kinds(j) THEN 1 ELSE 0
        /\ sent'[a][j.life].resolved = sent[a][j.life].resolved
             + IF "resolved" \in Kinds(j) THEN 1 ELSE 0
        /\ sent'[a][j.life].muted = sent[a][j.life].muted
  BY <1>3, <1>6 DEF old
<1> QED
  BY <1>1, <1>5, <1>7, <1>8, <1>9 DEF View

\* A firing life is opened by its one message, and a resolved one closed.
LEMMA SendFollows ==
  ASSUME Typed, NEW i \in Instances, NEW p \in Procs, Send(p), NEW a \in Alerts, a = proc[p].alert
  PROVE  /\ Keeps(p, i, a)
         /\ Follows(proc[p], a, View(i, a)) /\ Past(View(i, a)) => Past(View(i, a)')
<1> DEFINE o == proc[p]
           k == proc'[p]
           v == View(i, a)
           w == View(i, a)'
           ref == ResultRef(o)
           next == [o EXCEPT !.pc = "effects", !.ref = ref]
           m == v.told[o.life]
           n == w.told[o.life]
<1> SUFFICES ASSUME Follows(o, a, v) PROVE Follows(k, a, w) /\ (Past(v) => Past(w))
  BY DEF Keeps
<1>1. Proper(o) /\ At(o, v) /\ o.pc = "send" /\ ~Refused(o)
  BY GoroutinesProper DEF Typed, Send, Follows
<1>2. Prepared(o, v) /\ o.ref = v.ref /\ o.life = v.life /\ v.life \in Life
  BY <1>1, Views DEF At, Prepared
<1>3. /\ w.ref = v.ref /\ w.since = v.since /\ w.life = v.life /\ w.channel = v.channel
      /\ w.phase = v.phase /\ w.card = v.card /\ v.channel = rule.Channel
      /\ \A l \in Life \ {o.life} : w.told[l] = v.told[l]
      /\ Silent(o) => w.told = v.told
      /\ ~Silent(o) =>
           /\ n.firing = m.firing + IF "firing" \in Kinds(o) THEN 1 ELSE 0
           /\ n.opened = m.opened + IF "opened" \in Kinds(o) THEN 1 ELSE 0
           /\ n.resolved = m.resolved + IF "resolved" \in Kinds(o) THEN 1 ELSE 0
           /\ n.muted = m.muted
  BY SendView
<1>4. Past(v) => Past(w)
  BY <1>2, <1>3 DEF Past, Life
<1>5. /\ k.pc = "effects" /\ k.alert = a /\ k.state = o.state /\ k.why = o.why /\ k.ref = ref
      /\ k.todo = o.todo /\ k.repeats = o.repeats
  <2>1. k = next
    BY OnlyOne DEF Send
  <2> QED
    BY <1>1, <2>1 DEF Proper, Jobs
<1>6. Now(v) = m /\ Now(w) = n
  BY <1>2, <1>3 DEF Now
<1>7. /\ m.firing \in Nat /\ m.opened \in Nat /\ m.resolved \in Nat /\ m.muted \in Nat
      /\ sends \in Nat
  BY <1>2, Views, Bounds DEF Typed, TypeOK, Reference
<1>8. rule.Channel \in {"tracker", "mattermost", "plain"} /\ Alike(v, v)
  BY RulesAssumption DEF Typed, TypeOK, RuleConfig, Alike
<1> HIDE DEF v, w, m, n, ref
<1>9. CASE o.state = "resolved"
  <2>1. /\ ~Silent(o) /\ "resolved" \in Kinds(o) /\ "firing" \notin Kinds(o)
        /\ "opened" \notin Kinds(o)
    BY <1>1, <1>9 DEF Silent, Kinds, Kind, Proper, Placed
  <2>2. v.life >= 1 /\ (Quiet(m) \/ Opened(m, v.channel))
    BY <1>2, <1>6, <1>9 DEF Prepared, ToClose, Live, Fits
  <2>3. Over(n)
    BY <1>3, <1>7, <2>1, <2>2 DEF Quiet, Opened, Over
  <2>4. Spent(w)
    BY <1>3, <1>6, <2>2, <2>3 DEF Spent
  <2>5. Onward(k, a, w)
    BY <1>1, <1>3, <1>5, <1>9, <2>4 DEF Onward, At
  <2> QED
    BY <1>3, <1>4, <1>5, <2>5, FollowsOn
<1>10. CASE o.state = "firing"
  <2>1. /\ v.phase = "firing" /\ Live(v) /\ Carded(v, "firing") /\ InStep(v)
        /\ o.why # "repeat" => Fits(v, "pending")
        /\ o.why = "repeat" => Fits(v, "firing")
    BY <1>2, <1>10 DEF Prepared, ToOpen, Running
  <2>2. /\ Opened(n, v.channel) /\ (ref = None <=> v.channel = "plain")
        /\ v.channel = "plain" => v.ref = None
        /\ v.channel # "plain" => n.opened = 1
    <3>1. CASE o.why # "repeat"
      <4>1. Quiet(m) /\ v.ref = None
        BY <1>6, <2>1, <3>1 DEF Fits
      <4>2. /\ ~Silent(o) /\ "resolved" \notin Kinds(o) /\ "firing" \in Kinds(o)
            /\ "opened" \in Kinds(o) <=> rule.Channel # "plain"
        BY <1>2, <1>10, <3>1, <4>1 DEF Silent, Kinds, Kind
      <4>3. Opened(n, v.channel) /\ (v.channel # "plain" => n.opened = 1)
        BY <1>3, <1>7, <4>1, <4>2 DEF Quiet, Opened
      <4>4. ref = None <=> v.channel = "plain"
        BY <1>2, <1>3, <1>7, <1>8, <1>10, <4>1 DEF ResultRef, None, ref
      <4> QED
        BY <4>1, <4>3, <4>4
    <3>2. CASE o.why = "repeat"
      <4>1. Opened(m, v.channel) /\ (v.ref = None <=> m.opened = 0)
        BY <1>6, <2>1, <3>2 DEF Fits
      <4>2. /\ "firing" \notin Kinds(o) /\ "resolved" \notin Kinds(o)
            /\ "opened" \in Kinds(o) <=> rule.Channel # "plain" /\ v.ref = None
        BY <1>2, <1>10, <3>2 DEF Kinds, Kind
      <4>3. Silent(o) <=> rule.Channel = "tracker" /\ v.ref # None
        BY <1>2, <1>10 DEF Silent
      <4>4. /\ n.firing = m.firing /\ n.resolved = m.resolved /\ n.muted = m.muted
            /\ n.opened = IF rule.Channel # "plain" THEN 1 ELSE 0
        <5>1. CASE Silent(o)
          BY <1>3, <1>7, <4>1, <4>3, <5>1 DEF Opened, m, n
        <5>2. CASE ~Silent(o)
          BY <1>3, <1>7, <4>1, <4>2, <5>2 DEF Opened
        <5> QED
          BY <5>1, <5>2
      <4>5. Opened(n, v.channel) /\ (v.channel # "plain" => n.opened = 1)
        BY <1>3, <4>1, <4>4 DEF Opened
      <4>6. (v.channel = "plain" => v.ref = None) /\ (ref = None <=> v.channel = "plain")
        <5>1. v.channel = "plain" => v.ref = None
          BY <4>1 DEF Opened
        <5> QED
          BY <1>2, <1>3, <1>7, <1>8, <1>10, <5>1 DEF ResultRef, None, ref
      <4> QED
        BY <4>5, <4>6
    <3> QED
      BY <3>1, <3>2
  <2>3. Fired(w) /\ InStep(w)
    BY <1>3, <1>6, <2>1, <2>2 DEF Fired, Live, Carded, InStep
  <2>4. Onward(k, a, w)
    BY <1>1, <1>3, <1>5, <1>10, <2>2, <2>3 DEF Onward, At
  <2> QED
    BY <1>3, <1>4, <1>5, <2>4, FollowsOn
<1> QED
  BY <1>2, <1>9, <1>10 DEF Prepared

\* The engine learns the reference; the card gets it next.
LEMMA CaptureFollows ==
  ASSUME Typed, NEW i \in Instances, Instances = {i}, NEW p \in Procs, CaptureDeliveryEffects(p),
         NEW a \in Alerts, a = proc[p].alert
  PROVE  Keeps(p, i, a)
<1> DEFINE o == proc[p]
           k == proc'[p]
           v == View(i, a)
           w == View(i, a)'
           f == Entry(p, a)
           r == IF o.ref = None THEN f.ref ELSE o.ref
           e == [f EXCEPT !.told = TRUE, !.ref = r]
           next == [o EXCEPT !.pc = "refs"]
<1> SUFFICES ASSUME Follows(o, a, v) PROVE Follows(k, a, w)
  BY DEF Keeps
<1>1. Proper(o) /\ At(o, v) /\ o.pc = "effects" /\ Home[p] = i /\ o.ref \in Reference
  BY GoroutinesProper, HomeAssumption DEF Typed, CaptureDeliveryEffects, Follows, Proper, Jobs
<1>2. /\ UNCHANGED <<rule, lives, cards, sent>>
      /\ k = IF HasUpdates(o) THEN next ELSE Close(o)
  BY OnlyOne DEF CaptureDeliveryEffects, storeVars, sendVars
<1>3. /\ ~HasEntry(p, a) => w = v
      /\ HasEntry(p, a) =>
           /\ w.ref = IF o.ref = None THEN v.ref ELSE o.ref
           /\ w.phase = v.phase /\ w.since = v.since /\ w.life = v.life
           /\ w.card = v.card /\ w.told = v.told /\ w.channel = v.channel
  <2>1. CASE ~HasEntry(p, a)
    <3>1. UNCHANGED engine
      BY <2>1 DEF CaptureDeliveryEffects
    <3> QED
      BY <1>2, <2>1, <3>1, SameView
  <2>2. CASE HasEntry(p, a)
    <3>1. f \in [phase : Phases, ref : Reference, told : BOOLEAN, life : Life] /\ f.ref = v.ref
      BY <1>1, <2>2, EntryTypes, Views DEF HasEntry, Entry, Entries
    <3>2. SetEntry(p, a, e)
      BY <2>2 DEF CaptureDeliveryEffects
    <3>3. r \in Reference
      BY <1>1, <3>1
    <3> HIDE DEF f, r
    <3>4. e \in Entries \ {NoEntry} /\ e.phase = f.phase /\ e.life = f.life /\ e.ref = r
      BY <3>1, <3>3 DEF Entries, NoEntry, Phases, Inactive
    <3> HIDE DEF e
    <3>5. /\ w.ref = r /\ w.phase = v.phase /\ w.since = v.since /\ w.life = v.life
          /\ w.card = v.card /\ w.told = v.told /\ w.channel = v.channel
      BY <1>1, <1>2, <2>2, <3>2, <3>4, EntryView DEF f
    <3> QED
      BY <2>2, <3>1, <3>5 DEF r
  <2> QED
    BY <2>1, <2>2
<1>4. w.phase = v.phase /\ w.life = v.life /\ w.told = v.told
  BY <1>3
<1>5. CASE o.state = "resolved"
  <2>1. Spent(w) /\ Quelled(o, w)
    BY <1>1, <1>4, <1>5 DEF At, Spent, Now, Quelled
  <2>2. k = Close(o)
    BY <1>2, <1>5 DEF HasUpdates
  <2>3. Onward(k, a, w)
    BY <1>1, <1>5, <2>1, <2>2, CloseOnward
  <2>4. k.todo = o.todo /\ k.repeats = o.repeats
    BY <1>1, <2>2, CloseShape
  <2> QED
    BY <1>4, <2>3, <2>4, FollowsOn
<1>6. CASE o.state = "firing"
  <2>1. /\ Fired(v) /\ InStep(v) /\ (o.ref = None <=> v.channel = "plain")
        /\ v.channel = "plain" => v.ref = None
    BY <1>1, <1>6 DEF At
  <2>2. HasEntry(p, a)
    BY <1>1, <2>1, LiveEntry DEF Fired, HasEntry, Entry
  <2>3. Fired(w) /\ w.channel = v.channel
    BY <1>3, <2>1, <2>2 DEF Fired, Live, Carded, Now
  <2>4. CASE o.ref = None
    <3>1. Settled(w)
      BY <1>3, <2>1, <2>2, <2>3, <2>4 DEF Settled, Running, Fired, InStep, Fits, Opened
    <3>2. k = Close(o)
      BY <1>2, <2>4 DEF HasUpdates
    <3>3. Onward(k, a, w)
      BY <1>1, <1>6, <3>1, <3>2, CloseOnward DEF Quelled
    <3>4. k.todo = o.todo /\ k.repeats = o.repeats
      BY <1>1, <3>2, CloseShape
    <3> QED
      BY <1>4, <3>3, <3>4, FollowsOn
  <2>5. CASE o.ref # None
    <3>1. k = next
      BY <1>2, <1>6, <2>5 DEF HasUpdates
    <3>2. /\ k.pc = "refs" /\ k.alert = a /\ k.state = "firing" /\ k.ref = o.ref
          /\ k.todo = o.todo /\ k.repeats = o.repeats
      BY <1>1, <1>6, <3>1 DEF Proper, Jobs
    <3>3. Onward(k, a, w)
      BY <1>3, <2>1, <2>2, <2>3, <2>5, <3>2 DEF Onward, At
    <3> QED
      BY <1>4, <3>2, <3>3, FollowsOn
  <2> QED
    BY <2>4, <2>5
<1> QED
  BY <1>1, <1>5, <1>6 DEF At

\* A persisted reference is the engine's.
LEMMA RefFollows ==
  ASSUME Typed, NEW i \in Instances, NEW p \in Procs, ReadRefs(p) \/ WriteRefs(p),
         NEW a \in Alerts, a = proc[p].alert
  PROVE  Keeps(p, i, a)
<1> DEFINE o == proc[p]
           k == proc'[p]
           v == View(i, a)
           w == View(i, a)'
<1> SUFFICES ASSUME Follows(o, a, v) PROVE Follows(k, a, w)
  BY DEF Keeps
<1>1. Proper(o) /\ At(o, v) /\ o.pc \in {"refs", "refsWrite"}
  BY GoroutinesProper DEF Typed, ReadRefs, WriteRefs, Follows
<1>2. /\ o.state = "firing" /\ Fired(v) /\ v.channel # "plain" /\ o.ref # None /\ v.ref = o.ref
      /\ v.card = cards[a] /\ v.card \in Cards /\ cards \in [Alerts -> Cards \cup {NoCard}]
      /\ o.ref \in Reference
  BY <1>1, Views DEF At, Fired, Carded, Typed, TypeOK, Proper, Jobs
<1>3. ASSUME Alike(v, w), w.phase = v.phase, w.card # NoCard, w.card.State = "firing",
             w.card.ref = o.ref, w.card.life = v.life, k = Finish(o)
      PROVE  Follows(k, a, w)
  <2>1. Running(w, "firing") /\ w.phase = "firing"
    <3>1. Live(v) /\ v.phase = "firing" /\ Fits(v, "firing")
      BY <1>2 DEF Fired, Fits
    <3>2. Live(w) /\ Fits(w, "firing")
      BY <1>3, <3>1, AlikeFits
    <3>3. Carded(w, "firing") /\ InStep(w)
      BY <1>2, <1>3 DEF Carded, InStep, Alike
    <3> QED
      BY <1>3, <3>1, <3>2, <3>3 DEF Running
  <2>2. Onward(k, a, w)
    BY <1>1, <1>3, <2>1, FinishOnward DEF Settled
  <2>3. k.todo = o.todo /\ k.repeats = o.repeats
    BY <1>1, <1>3, FinishShape
  <2> QED
    BY <2>1, <2>2, <2>3, FollowsOn
<1>4. CASE ReadRefs(p)
  <2> DEFINE c == cards[a]
             map == IF c.map = None THEN o.ref ELSE c.map
             new == [c EXCEPT !.ref = o.ref, !.map = map]
             next == [o EXCEPT !.pc = "refsWrite", !.card = new]
  <2>1. c # NoCard /\ UNCHANGED <<rule, engine, lives, sent>>
    BY <1>2, <1>4 DEF ReadRefs, Fired, Carded, engineVars, sendVars
  <2>2. /\ cards' = cards \/ cards' = [cards EXCEPT ![a] = new]
        /\ k = IF c = new THEN Finish(o) ELSE next
    <3>1. \/ cards' = [cards EXCEPT ![a] = new] /\ k = IF c = new THEN Finish(o) ELSE next
          \/ cards' = cards /\ Becomes(p, IF c = new THEN Finish(o) ELSE next)
      BY <1>4, <2>1 DEF ReadRefs
    <3> QED
      BY <3>1, OnlyOne
  <2>3. map \in Reference
    BY <1>2 DEF Cards
  <2> HIDE DEF map
  <2>4. new \in Cards /\ new.State = c.State /\ new.rev = c.rev /\ new.ref = o.ref /\ new.life = c.life
    BY <1>2, <2>3 DEF Cards
  <2> HIDE DEF new
  <2>5. cards'[a] = c \/ cards'[a] = new
    BY <1>2, <2>2
  <2>6. new # NoCard /\ c.State = "firing" /\ c.life = v.life
    BY <1>2, <2>4 DEF NoCard, Fired, Carded
  <2>7. /\ Alike(v, w) /\ w.phase = v.phase /\ w.card = cards'[a]
    BY <2>1 DEF View, Alike
  <2>8. w.card # NoCard /\ w.card.State = "firing" /\ w.card.life = v.life /\ w.card.rev = c.rev
    BY <2>1, <2>4, <2>5, <2>6, <2>7
  <2>9. CASE c = new
    BY <1>3, <2>2, <2>4, <2>5, <2>7, <2>8, <2>9
  <2>10. CASE c # new
    <3>1. /\ k.pc = "refsWrite" /\ k.alert = a /\ k.state = "firing" /\ k.ref = o.ref
          /\ k.card = new
          /\ k.todo = o.todo /\ k.repeats = o.repeats
      BY <1>1, <1>2, <2>2, <2>10 DEF Proper, Jobs
    <3>2. Fired(w) /\ w.ref = o.ref /\ w.channel = v.channel /\ w.life = v.life
      BY <1>2, <2>7, <2>8 DEF Fired, Alike, Live, Carded, Now
    <3>3. Onward(k, a, w)
      BY <1>2, <2>4, <2>6, <2>8, <3>1, <3>2 DEF Onward, At
    <3> QED
      BY <2>7, <3>1, <3>3, FollowsOn
  <2> QED
    BY <2>9, <2>10
<1>5. CASE WriteRefs(p)
  <2>1. /\ o.pc = "refsWrite" /\ o.card # NoCard /\ o.card \in Cards /\ o.card.rev = v.card.rev
        /\ o.card.State = "firing" /\ o.card.ref = o.ref /\ o.card.life = v.life
    BY <1>1, <1>5 DEF WriteRefs, At, Proper, Placed, Jobs
  <2>2. RefsUnchanged(o.card, a)
    BY <1>2, <2>1 DEF RefsUnchanged, SameRevision, Fired, Carded
  <2>3. Put(a, o.card) /\ Becomes(p, Finish(o)) /\ UNCHANGED <<rule, engine, lives, sent>>
    BY <1>5, <2>2 DEF WriteRefs, engineVars
  <2> QED
    BY <1>3, <2>1, <2>3, PutView, OnlyOne
<1> QED
  BY <1>4, <1>5

\* A deletion leaves nothing of a life that is over.
LEMMA DeletionFollows ==
  ASSUME Typed, NEW i \in Instances, Instances = {i}, NEW p \in Procs,
         DeleteCard(p) \/ DeleteTick(p) \/ RemoveAlertState(p), NEW a \in Alerts, a = proc[p].alert
  PROVE  Keeps(p, i, a)
<1> DEFINE o == proc[p]
           k == proc'[p]
           v == View(i, a)
           w == View(i, a)'
           next == [o EXCEPT !.pc = IF Store = "memory" THEN "remove" ELSE "deleteTick"]
           last == [o EXCEPT !.pc = "remove"]
<1> SUFFICES ASSUME Follows(o, a, v) PROVE Follows(k, a, w)
  BY DEF Keeps
<1>1. /\ Proper(o) /\ At(o, v) /\ o.pc \in {"delete", "deleteTick", "remove"}
      /\ o.state = "resolved"
      /\ Home[p] = i
  BY GoroutinesProper, HomeAssumption
     DEF Typed, DeleteCard, DeleteTick, RemoveAlertState, Follows, Proper, Placed
<1>2. Spent(v) /\ (o.why # "ttl" => v.phase \in {"none", Inactive})
  BY <1>1 DEF At
<1>3. UNCHANGED <<rule, lives, sent>>
  BY DEF DeleteCard, DeleteTick, RemoveAlertState, engineVars, sendVars
<1>4. w.life = v.life /\ w.told = v.told
  BY <1>3 DEF View
<1>5. Spent(w)
  BY <1>2, <1>4 DEF Spent, Now
<1>6. CASE DeleteCard(p) \/ DeleteTick(p)
  <2>1. UNCHANGED engine /\ (k = next \/ k = last)
    BY <1>6, OnlyOne DEF DeleteCard, DeleteTick, engineVars
  <2>2. w.card = NoCard
    <3>1. CASE DeleteCard(p)
      <4>1. cards'[a] = NoCard
        BY <3>1 DEF DeleteCard, Typed, TypeOK
      <4> QED
        BY <4>1 DEF View
    <3>2. CASE DeleteTick(p)
      <4>1. v.card = NoCard /\ UNCHANGED cards
        BY <1>1, <3>2 DEF DeleteTick, At
      <4> QED
        BY <4>1 DEF View
    <3> QED
      BY <1>6, <3>1, <3>2
  <2>3. w.phase = v.phase
    BY <2>1 DEF View
  <2>4. /\ k.pc \in {"remove", "deleteTick"} /\ k.alert = a /\ k.state = "resolved" /\ k.why = o.why
        /\ k.todo = o.todo /\ k.repeats = o.repeats
    BY <1>1, <2>1 DEF Proper, Jobs
  <2>5. Onward(k, a, w)
    BY <1>2, <1>5, <2>2, <2>3, <2>4 DEF Onward, At
  <2> QED
    BY <2>3, <2>4, <2>5, FollowsOn
<1>7. CASE RemoveAlertState(p)
  <2>1. SetEntry(p, a, NoEntry) /\ k = Finish(o) /\ UNCHANGED cards /\ o.pc = "remove"
    BY <1>7, OnlyOne DEF RemoveAlertState, Removed, storeVars
  <2>2. engine'[i][a] = NoEntry
    BY <1>1, <2>1 DEF SetEntry, Typed, TypeOK
  <2>3. w.phase = "none" /\ w.ref = None /\ w.card = v.card /\ v.card = NoCard
    <3>1. w.phase = "none" /\ w.ref = None /\ w.card = v.card
      BY <2>1, <2>2, SMTT(30) DEF View, NoEntry
    <3>2. v.card = NoCard
      BY <1>1, <2>1, SMTT(30) DEF At
    <3> QED
      BY <3>1, <3>2, Zenon
  <2>4. Gone(w)
    BY <1>5, <2>3 DEF Gone, Spent
  <2>5. Onward(k, a, w)
    BY <1>1, <2>1, <2>4, FinishOnward DEF Settled
  <2>6. k.todo = o.todo /\ k.repeats = o.repeats
    BY <1>1, <2>1, FinishShape
  <2>7. ~(a \in o.repeats /\ v.phase = "firing")
    BY <1>1, <1>2 DEF Proper, Placed, Inactive
  <2> QED
    BY <2>5, <2>6, <2>7, FollowsOn
<1> QED
  BY <1>6, <1>7

\* A decision to resolve finds the alert inactive.
LEMMA DecidedQuells ==
  ASSUME NEW v, NEW d, Decided(v, d), d.state = "resolved"
  PROVE  v.phase = Inactive
BY DEF Decided, Running

\* A tick hands its decisions and its repeats on one by one, and then forgets inactive entries.
LEMMA ScanFollows ==
  ASSUME Typed, NEW i \in Instances, Instances = {i}, NEW p \in Procs,
         NextDecision(p) \/ NextRepeat(p) \/ EndTick(p), NEW a \in Alerts
  PROVE  Keeps(p, i, a)
<1> DEFINE o == proc[p]
           k == proc'[p]
           v == View(i, a)
           w == View(i, a)'
<1> SUFFICES ASSUME Follows(o, a, v) PROVE Follows(k, a, w)
  BY DEF Keeps
<1>1. Proper(o) /\ o.pc = "scan" /\ o.alert = "none" /\ Home[p] = i /\ a # "none"
  BY GoroutinesProper, HomeAssumption, AlertsAssumption
     DEF Typed, NextDecision, NextRepeat, EndTick, Proper, Placed
<1>2. NextDecision(p) \/ NextRepeat(p) => w = v
  BY SameView DEF NextDecision, NextRepeat, engineVars, storeVars, sendVars
<1>3. CASE NextDecision(p)
  <2>1. PICK d \in o.todo :
          Becomes(p, [Carry("decision", d, FALSE) EXCEPT !.todo = o.todo \ {d}, !.repeats = o.repeats])
    BY <1>3 DEF NextDecision
  <2> DEFINE todo == o.todo \ {d}
             repeats == o.repeats
             next == [Carry("decision", d, FALSE) EXCEPT !.todo = todo, !.repeats = repeats]
  <2>2. k = next
    BY <2>1, OnlyOne
  <2> HIDE DEF todo, repeats
  <2>3. /\ next.pc = "identity" /\ next.why = "decision" /\ next.alert = d.alert
        /\ next.state = d.state
        /\ next.changed = d.changed /\ next.life = d.life /\ next.todo = todo
        /\ next.repeats = repeats
    BY DEF Carry, Idle
  <2> HIDE DEF next
  <2>4. CASE d.alert = a
    <3>1. Decided(v, d) /\ \A f \in todo : f.alert # a
      BY <2>1, <2>4 DEF Follows, todo
    <3>2. Decided(v, k)
      BY <2>2, <2>3, <3>1 DEF Decided
    <3>3. At(k, v)
      BY <2>2, <2>3, <3>1, <3>2, DecidedQuells DEF At
    <3> QED
      BY <1>2, <1>3, <2>2, <2>3, <2>4, <3>1, <3>3 DEF Follows, repeats
  <2>5. CASE d.alert # a
    <3>1. todo \subseteq o.todo /\ \A f \in o.todo : f.alert = a => f \in todo
      BY <2>5 DEF todo
    <3> QED
      BY <1>1, <1>2, <1>3, <2>2, <2>3, <2>5, <3>1 DEF Follows, repeats
  <2> QED
    BY <2>4, <2>5
<1>4. CASE NextRepeat(p)
  <2>1. PICK b \in o.repeats :
          LET j == [o EXCEPT !.repeats = o.repeats \ {b}]
              repeat == [j EXCEPT !.pc = "prepare", !.why = "repeat", !.alert = b,
                                  !.state = "firing", !.life = Entry(p, b).life]
          IN  (HasEntry(p, b) /\ Becomes(p, repeat)) \/ Becomes(p, j)
    BY <1>4 DEF NextRepeat
  <2> DEFINE repeats == o.repeats \ {b}
             life == Entry(p, b).life
             j == [o EXCEPT !.repeats = repeats]
             repeat == [j EXCEPT !.pc = "prepare", !.why = "repeat", !.alert = b,
                                 !.state = "firing", !.life = life]
  <2>2. (HasEntry(p, b) /\ k = repeat) \/ k = j
    BY <2>1, OnlyOne
  <2>3. Settled(v) /\ o.todo = {} /\ (a \in o.repeats => v.phase = "firing")
    BY <1>1, <1>4 DEF NextRepeat, Follows
  <2>4. repeats \subseteq o.repeats /\ b \notin repeats
    OBVIOUS
  <2> HIDE DEF repeats, life
  <2>5. j.alert = o.alert /\ j.todo = o.todo /\ j.repeats = repeats
    BY <1>1 DEF Proper, Jobs
  <2>6. /\ repeat.pc = "prepare" /\ repeat.why = "repeat" /\ repeat.alert = b
        /\ repeat.state = "firing"
        /\ repeat.life = life /\ repeat.todo = o.todo /\ repeat.repeats = repeats
    BY <1>1 DEF Proper, Jobs
  <2> HIDE DEF j, repeat
  <2>7. CASE k = j
    BY <1>1, <1>2, <1>4, <2>3, <2>4, <2>5, <2>7 DEF Follows
  <2>8. CASE HasEntry(p, b) /\ k = repeat /\ b # a
    BY <1>1, <1>2, <1>4, <2>3, <2>4, <2>6, <2>8 DEF Follows
  <2>9. CASE HasEntry(p, b) /\ k = repeat /\ b = a
    <3>1. v.phase = "firing" /\ Running(v, "firing")
      BY <2>3, <2>9 DEF Settled, Gone, Inactive
    <3>2. life = v.since
      BY <1>1, <2>9, Views DEF HasEntry, Entry, life
    <3>3. Prepared(k, v)
      BY <2>6, <2>9, <3>1, <3>2 DEF Prepared, Running, Live
    <3>4. At(k, v)
      BY <2>6, <2>9, <3>3 DEF At
    <3> QED
      BY <1>2, <1>4, <2>3, <2>4, <2>6, <2>9, <3>4 DEF Follows
  <2> QED
    BY <2>2, <2>7, <2>8, <2>9
<1>5. CASE EndTick(p)
  <2>1. PICK gone \in SUBSET {b \in Alerts : HasEntry(p, b) /\ Entry(p, b).phase = Inactive} :
          engine' = [engine EXCEPT ![i] =
            [b \in Alerts |-> IF b \in gone THEN NoEntry ELSE engine[i][b]]]
    BY <1>1, <1>5 DEF EndTick
  <2>2. Settled(v) /\ UNCHANGED <<rule, lives, cards, sent>>
    BY <1>1, <1>5 DEF EndTick, Follows, storeVars, sendVars
  <2>3. engine'[i][a] = IF a \in gone THEN NoEntry ELSE engine[i][a]
    BY <2>1 DEF Typed, TypeOK
  <2>4. CASE a \in gone
    <3>1. v.phase = Inactive
      BY <1>1, <2>1, <2>4 DEF View, Entry
    <3>2. Gone(v)
      BY <2>2, <3>1 DEF Settled, Running, Inactive
    <3>3. w.card = v.card /\ w.life = v.life /\ w.told = v.told /\ w.phase = "none" /\ w.ref = None
      BY <2>2, <2>3, <2>4 DEF View, NoEntry
    <3> QED
      BY <1>1, <1>5, <3>2, <3>3 DEF Gone, Settled, Now, Follows, EndTick, Typed, TypeOK, Idle
  <2>5. CASE a \notin gone
    <3>1. w = v
      BY <2>2, <2>3, <2>5, SameView
    <3> QED
      BY <1>1, <1>5, <2>2, <3>1 DEF Follows, EndTick, Typed, TypeOK, Idle
  <2> QED
    BY <2>4, <2>5
<1> QED
  BY <1>3, <1>4, <1>5


-----------------------------------------------------------------------------
(* What starts a job: an evaluation of the engine or a delete marker.      *)

\* What an evaluation makes of a phase: nothing, or a decision to hold, raise, confirm or resolve.
Evaluates(ph, o) ==
  \/ o.state = Inactive /\ o.phase = ph
  \/ ph # Inactive /\ o.phase = ph /\ o.state = ph /\ ~o.changed
  \/ ph = Inactive /\ o.phase \in {"pending", "firing"} /\ o.state = o.phase /\ o.changed
  \/ ph = "pending" /\ o.phase = "firing" /\ o.state = "firing" /\ o.changed
  \/ ph # Inactive /\ o.phase = Inactive /\ o.state = "resolved" /\ o.changed

\* Events and ticks evaluate.
LEMMA OutcomesEvaluate ==
  ASSUME NEW ph \in Phases, NEW o \in EventOutcomes(ph) \cup TickOutcomes(ph)
  PROVE  Evaluates(ph, o)
<1>1. /\ Raising.phase \in {"pending", "firing"} /\ Raising.state = Raising.phase /\ Raising.changed
      /\ Confirmation.phase = "firing" /\ Confirmation.state = "firing" /\ Confirmation.changed
      /\ Resolution.phase = Inactive /\ Resolution.state = "resolved" /\ Resolution.changed
  BY DEF Raising, Raised, Confirmation, Resolution, Outcome
<1>2. /\ Hold(ph).phase = ph /\ Hold(ph).state = ph /\ ~Hold(ph).changed
      /\ Nothing(ph).phase = ph /\ Nothing(ph).state = Inactive
  BY DEF Hold, Nothing, Outcome
<1>3. \/ o = Nothing(ph)
      \/ ph # Inactive /\ o = Hold(ph)
      \/ ph = Inactive /\ o = Raising
      \/ ph = "pending" /\ o = Confirmation
      \/ ph # Inactive /\ o = Resolution
  BY DEF EventOutcomes, TickOutcomes, Phases, Inactive
<1> QED
  BY <1>1, <1>2, <1>3 DEF Evaluates

\* The entry after an evaluation.
LEMMA AfterFields ==
  ASSUME NEW e \in Entries \ {NoEntry}, NEW o, NEW a, lives[a] \in Nat
  PROVE  /\ After(e, o, a).phase = o.phase /\ After(e, o, a).ref = e.ref
         /\ After(e, o, a).life = IF Rises(e, o) THEN lives[a] + 1 ELSE e.life
         /\ After(e, o, a) # NoEntry
<1>1. e \in [phase : Phases, ref : Reference, told : BOOLEAN, life : Life]
  BY DEF Entries
<1> DEFINE life == IF Rises(e, o) THEN lives[a] + 1 ELSE e.life
<1>2. After(e, o, a) = [e EXCEPT !.phase = o.phase, !.life = life]
  BY DEF After
<1> HIDE DEF life
<1>3. After(e, o, a).phase = o.phase /\ After(e, o, a).ref = e.ref /\ After(e, o, a).life = life
  BY <1>1, <1>2
<1>4. After(e, o, a) # NoEntry
  <2>1. DOMAIN After(e, o, a) = {"phase", "ref", "told", "life"}
    BY <1>1, <1>2
  <2>2. DOMAIN NoEntry = {"phase"}
    BY DEF NoEntry
  <2> QED
    BY <2>1, <2>2
<1> QED
  BY <1>3, <1>4 DEF life

\* An evaluation of a settled alert leaves it settled, or returns the decision that accounts for it.
LEMMA SettledEvaluates ==
  ASSUME NEW v, NEW w, NEW d, NEW ph \in Phases, NEW o, Evaluates(ph, o), Settled(v), Past(v),
         v.phase = ph \/ (v.phase = "none" /\ ph = Inactive),
         v.life \in Life, w.life \in Life,
         w.phase = o.phase, w.ref = v.ref, w.card = v.card, w.told = v.told, w.channel = v.channel,
         IF ph = Inactive /\ o.phase # Inactive
         THEN w.life = v.life + 1 /\ w.since = w.life
         ELSE w.life = v.life /\ w.since = v.since
  PROVE  /\ Past(w)
         /\ o.state = Inactive => Settled(w)
         /\ o.state # Inactive /\ d.life = w.since /\ d.state = o.state /\ d.changed = o.changed
              => Decided(w, d)
<1>1. v.life \in Nat /\ v.life >= 0 /\ \A l \in Life : l \in Nat
  BY DEF Life
<1>2. CASE ph = Inactive /\ o.phase # Inactive
  <2>1. Gone(v) /\ o.phase \in {"pending", "firing"} /\ o.state = o.phase /\ o.changed
    BY <1>2 DEF Settled, Running, Evaluates, Inactive
  <2>2. Quiet(v.told[w.life])
    BY <1>1, <1>2 DEF Past
  <2>3. Live(w) /\ Begun(w)
    BY <1>1, <1>2, <2>1, <2>2 DEF Live, Begun, Fits, Gone, Now
  <2>4. Past(w)
    <3>1. ASSUME NEW l \in Life, l > w.life PROVE Quiet(w.told[l])
      BY <1>1, <1>2, <3>1 DEF Past
    <3>2. ASSUME NEW l \in Life, 1 <= l, l < w.life PROVE Over(w.told[l])
      <4>1. CASE l = v.life
        BY <2>1, <3>2, <4>1 DEF Gone, Now
      <4>2. CASE l < v.life
        BY <3>2, <4>2 DEF Past
      <4> QED
        BY <1>1, <1>2, <3>2, <4>1, <4>2
    <3> QED
      BY <3>1, <3>2 DEF Past
  <2>5. ASSUME d.life = w.since, d.state = o.state, d.changed = o.changed
        PROVE  Decided(w, d)
    <3>1. d.changed /\ d.state = w.phase /\ w.phase \in {"pending", "firing"} /\ d.life = w.life
      BY <1>2, <2>1, <2>5
    <3> QED
      BY <2>3, <3>1 DEF Decided, CardStates
  <2>6. o.state # Inactive
    BY <2>1 DEF Inactive
  <2> QED
    BY <2>4, <2>5, <2>6
<1>3. CASE ~(ph = Inactive /\ o.phase # Inactive)
  <2>1. Alike(v, w) /\ w.life = v.life /\ w.since = v.since
    BY <1>3 DEF Alike
  <2>2. Past(w)
    BY <2>1, AlikeFits
  <2>3. \A s : Running(v, s) => Running(w, s)
    BY <2>1, AlikeFits DEF Running, Carded, InStep
  <2>4. CASE ph = Inactive
    <3>1. Gone(v) /\ o.state = Inactive /\ o.phase = Inactive
      BY <1>3, <2>4 DEF Settled, Running, Evaluates, Inactive
    <3>2. Gone(w)
      BY <2>1, <3>1, AlikeFits DEF Gone
    <3> QED
      BY <2>2, <3>1, <3>2 DEF Settled
  <2>5. CASE ph # Inactive
    <3>1. v.phase = ph /\ Running(v, ph)
      BY <2>5 DEF Settled, Gone, Phases, Inactive
    <3>2. ph \in {"pending", "firing"} /\ Live(w) /\ w.since = w.life
      BY <2>1, <3>1, AlikeFits DEF Running, Live
    <3>3. Running(w, ph)
      BY <2>3, <3>1
    <3>4. o.state = Inactive => Settled(w)
      BY <2>5, <3>2, <3>3 DEF Evaluates, Settled, Inactive
    <3>5. ASSUME o.state # Inactive, d.life = w.since, d.state = o.state, d.changed = o.changed
          PROVE  Decided(w, d)
      <4>1. \/ w.phase = ph /\ d.state = ph /\ ~d.changed
            \/ ph = "pending" /\ w.phase = "firing" /\ d.state = "firing" /\ d.changed
            \/ w.phase = Inactive /\ d.state = "resolved" /\ d.changed
        BY <2>5, <3>5 DEF Evaluates
      <4> QED
        BY <2>1, <3>2, <3>3, <3>5, <4>1 DEF Decided, CardStates
    <3> QED
      BY <2>2, <3>4, <3>5
  <2> QED
    BY <2>4, <2>5
<1> QED
  BY <1>2, <1>3

\* A goroutine at rest follows what is settled.
LEMMA RestFollows ==
  ASSUME NEW a \in Alerts, NEW v
  PROVE  Follows(Idle, a, v) <=> Settled(v)
BY AlertsAssumption DEF Follows, Idle

\* An entry that is created inactive, as that of an event that decides nothing, changes
\* nothing for anyone.
LEMMA FreshFollows ==
  ASSUME NEW v, NEW w, NEW j, NEW a, Alike(v, w), w.card = v.card, v.phase = "none",
         w.phase = Inactive, Follows(j, a, v)
  PROVE  Follows(j, a, w)
<1>1. \A d : ~Decided(v, d)
  BY DEF Decided, CardStates, Inactive
<1>2. \A s : Running(v, s) <=> Running(w, s)
  BY AlikeFits DEF Running, Carded, InStep, Alike
<1>3. /\ Spent(v) <=> Spent(w)
      /\ ToClose(v) <=> ToClose(w)
      /\ Gone(v) => Gone(w)
  BY AlikeFits DEF ToClose, Carded, InStep, Gone, Alike
<1>4. ~Fired(v) /\ ~ToOpen(v) /\ ~Running(v, v.phase) /\ ~Running(w, w.phase)
  BY DEF Fired, ToOpen, Running, Inactive
<1>5. Settled(v) => Settled(w)
  BY <1>3, <1>4 DEF Settled
<1>6. Prepared(j, v) => Prepared(j, w)
  BY <1>3, <1>4 DEF Prepared, Alike
<1>7. At(j, v) => At(j, w)
  BY <1>1, <1>3, <1>4, <1>5, <1>6 DEF At, Alike
<1> QED
  BY <1>1, <1>5, <1>7 DEF Follows

\* An alert's turn passes others by: whatever fitted it before still does.
Passes(i, a) ==
  /\ Past(View(i, a)) => Past(View(i, a)')
  /\ Settled(View(i, a)) => Settled(View(i, a)')
  /\ \A j : Follows(j, a, View(i, a)) => Follows(j, a, View(i, a)')

\* What an evaluation, made of the entry of a or in its absence of Fresh, does to the view of a.
LEMMA EvaluatedView ==
  ASSUME Typed, NEW i \in Instances, NEW a \in Alerts, NEW e \in Entries \ {NoEntry}, NEW o,
         e = IF engine[i][a] # NoEntry THEN engine[i][a] ELSE Fresh,
         engine'[i][a] = After(e, o, a), UNCHANGED <<rule, cards, sent>>,
         lives'[a] = IF Rises(e, o) THEN lives[a] + 1 ELSE lives[a]
  PROVE  LET v == View(i, a)
             w == View(i, a)'
         IN  /\ v.phase = e.phase \/ (v.phase = "none" /\ e.phase = Inactive)
             /\ w.phase = o.phase /\ w.ref = v.ref /\ w.card = v.card /\ w.told = v.told
             /\ w.channel = v.channel /\ v.life = lives[a] /\ w.life = lives'[a]
             /\ IF e.phase = Inactive /\ o.phase # Inactive
                THEN w.life = v.life + 1 /\ w.since = w.life
                ELSE w.life = v.life /\ w.since = v.since
<1>1. lives[a] \in Nat
  BY DEF Typed, TypeOK, Life
<1>2. /\ engine'[i][a].phase = o.phase /\ engine'[i][a].ref = e.ref /\ engine'[i][a] # NoEntry
      /\ engine'[i][a].life = IF Rises(e, o) THEN lives[a] + 1 ELSE e.life
  BY <1>1, AfterFields
<1>3. Fresh.phase = Inactive /\ Fresh.ref = None /\ Fresh.life = 0 /\ NoEntry.phase = "none"
  BY DEF Fresh, NoEntry
<1> QED
  BY <1>2, <1>3 DEF View, Rises

\* An event starts a handler if the engine decides anything; otherwise the alert stays as it is.
LEMMA EventFollows ==
  ASSUME Typed, Typed', NEW i \in Instances, Instances = {i}, NEW p \in Workers, NEW a \in Alerts,
         Event(p, a)
  PROVE  /\ Past(View(i, a)) => Keeps(p, i, a)
         /\ Past(View(i, a)) /\ Settled(View(i, a)) => Past(View(i, a)')
         /\ \/ UNCHANGED <<proc, overlaps>> /\ Passes(i, a)
            \/ Becomes(p, proc'[p]) /\ proc'[p].alert = a
         /\ \A b \in Alerts \ {a} : View(i, b)' = View(i, b) /\ Keeps(p, i, b)
<1> DEFINE v == View(i, a)
           w == View(i, a)'
           e == IF HasEntry(p, a) THEN Entry(p, a) ELSE Fresh
<1>1. /\ p \in Procs /\ Home[p] = i /\ proc[p] = Idle /\ rule \in RuleConfig
      /\ engine \in [Instances -> [Alerts -> Entries]] /\ lives \in [Alerts -> Life]
  BY HomeAssumption, RulesAssumption, GoroutinesProper DEF Procs, Event, Typed, TypeOK,
     Proper, Placed
<1>2. e \in Entries \ {NoEntry} /\ e.phase \in Phases
  <2>1. Fresh \in Entries /\ Fresh # NoEntry
    BY Bounds DEF Fresh, Entries, NoEntry, Phases, Inactive
  <2>2. e \in Entries \ {NoEntry}
    BY <1>1, <2>1, EntryTypes DEF HasEntry
  <2> HIDE DEF e
  <2> QED
    BY <2>2 DEF Entries
<1>3. e = IF engine[i][a] # NoEntry THEN engine[i][a] ELSE Fresh
  BY <1>1 DEF HasEntry, Entry
<1>4. PICK o \in EventOutcomes(e.phase), way \in Ingest :
        /\ SetEntry(p, a, After(e, o, a))
        /\ lives' = IF Rises(e, o) THEN [lives EXCEPT ![a] = @ + 1] ELSE lives
        /\ IF o.state = Inactive THEN UNCHANGED <<proc, overlaps>>
           ELSE Becomes(p, Carry("event", Decision(a, o, After(e, o, a)), way = "batch"))
  BY DEF Event
<1> HIDE DEF e
<1>5. /\ engine'[i][a] = After(e, o, a) /\ \A b \in Alerts \ {a} : engine'[i][b] = engine[i][b]
      /\ lives'[a] = IF Rises(e, o) THEN lives[a] + 1 ELSE lives[a]
      /\ \A b \in Alerts \ {a} : lives'[b] = lives[b]
      /\ UNCHANGED <<rule, cards, sent>>
  BY <1>1, <1>4 DEF SetEntry, Event, storeVars, sendVars
<1>6. \A b \in Alerts \ {a} : View(i, b)' = View(i, b)
  BY <1>5, SameView
<1>7. Evaluates(e.phase, o)
  BY <1>2, <1>4, OutcomesEvaluate
<1>8. /\ v.phase = e.phase \/ (v.phase = "none" /\ e.phase = Inactive)
      /\ w.phase = o.phase /\ w.ref = v.ref /\ w.card = v.card /\ w.told = v.told
      /\ w.channel = v.channel /\ v.life = lives[a] /\ w.life = lives'[a]
      /\ IF e.phase = Inactive /\ o.phase # Inactive
         THEN w.life = v.life + 1 /\ w.since = w.life
         ELSE w.life = v.life /\ w.since = v.since
  BY <1>2, <1>3, <1>5, EvaluatedView
<1>9. v.life \in Life /\ w.life \in Life
  BY <1>1, <1>8 DEF Typed, TypeOK
<1> DEFINE d == Decision(a, o, After(e, o, a))
<1>10. /\ d.alert = a /\ d.state = o.state /\ d.changed = o.changed /\ d.life = After(e, o, a).life
  BY DEF Decision
<1> HIDE DEF d
<1>11. d.life = w.since
  <2>1. w.since = engine'[i][a].life
    <3>1. engine'[i][a] # NoEntry
      BY <1>1, <1>2, <1>5, AfterFields DEF Life
    <3> QED
      BY <3>1 DEF View
  <2> QED
    BY <1>5, <1>10, <2>1
<1>12. Settled(v) /\ Past(v) =>
         /\ Past(w)
         /\ o.state = Inactive => Settled(w)
         /\ o.state # Inactive => Decided(w, d)
  BY <1>2, <1>7, <1>8, <1>9, <1>10, <1>11, SettledEvaluates
<1>13. CASE o.state = Inactive
  <2>1. UNCHANGED <<proc, overlaps>>
    BY <1>4, <1>13
  <2>2. o.phase = e.phase
    BY <1>2, <1>7, <1>13 DEF Evaluates, Inactive
  <2>3. Alike(v, w) /\ w.card = v.card
    BY <1>8, <2>2 DEF Alike
  <2>4. Passes(i, a)
    <3>1. CASE v.phase = "none" /\ e.phase = Inactive
      <4>1. \A j : Follows(j, a, v) => Follows(j, a, w)
        BY <1>8, <2>2, <2>3, <3>1, FreshFollows
      <4> QED
        BY <2>3, <4>1, AlikeFits, RestFollows DEF Passes
    <3>2. CASE v.phase = e.phase
      <4>1. w = v
        BY <1>8, <2>2, <2>3, <3>2 DEF View, Alike
      <4> QED
        BY <4>1 DEF Passes
    <3> QED
      BY <1>8, <3>1, <3>2
  <2> QED
    BY <1>1, <1>6, <1>12, <1>13, <2>1, <2>4 DEF Keeps, Passes
<1>14. CASE o.state # Inactive
  <2> DEFINE k == Carry("event", d, way = "batch")
  <2>1. Becomes(p, k)
    BY <1>4, <1>14 DEF d
  <2>2. /\ k.pc = "identity" /\ k.why = "event" /\ k.alert = d.alert /\ k.state = d.state
        /\ k.changed = d.changed /\ k.life = d.life /\ k.todo = {} /\ k.repeats = {}
    BY DEF Carry, Idle
  <2> HIDE DEF k
  <2>3. proc'[p] = k
    BY <1>1, <2>1, OnlyOne
  <2>4. \A b \in Alerts \ {a} : Keeps(p, i, b)
    BY <1>1, <1>6, <1>10, <2>2, <2>3, RestFollows DEF Keeps, Follows
  <2>5. ASSUME Settled(v), Past(v) PROVE Follows(k, a, w)
    <3>1. Decided(w, k)
      BY <1>10, <1>12, <1>14, <2>2, <2>5 DEF Decided
    <3>2. At(k, w)
      BY <2>2, <3>1, DecidedQuells DEF At
    <3> QED
      BY <1>10, <2>2, <3>2 DEF Follows
  <2> QED
    BY <1>1, <1>6, <1>10, <1>12, <2>1, <2>2, <2>3, <2>4, <2>5, RestFollows DEF Keeps
<1> QED
  BY <1>13, <1>14

\* A tick evaluates all the alerts at once, and keeps their decisions for the scan.
LEMMA TickFollows ==
  ASSUME Typed, Typed', NEW i \in Instances, Instances = {i}, NEW p \in Tickers, NEW a \in Alerts,
         Tick(p)
  PROVE  /\ Past(View(i, a)) => Keeps(p, i, a)
         /\ Past(View(i, a)) /\ Settled(View(i, a)) => Past(View(i, a)')
         /\ Becomes(p, proc'[p]) /\ (a \in WorksOn(proc'[p]) \/ Passes(i, a))
<1> DEFINE held == {b \in Alerts : HasEntry(p, b)}
           Choices == [held -> UNION {TickOutcomes(ph) : ph \in {Inactive, "pending", "firing"}}]
           Next1(choice) == [b \in held |-> After(Entry(p, b), choice[b], b)]
           Todo(choice) == {Decision(b, choice[b], Next1(choice)[b]) :
                              b \in {b \in held : choice[b].state # Inactive}}
           v == View(i, a)
           w == View(i, a)'
<1>1. /\ p \in Procs /\ Home[p] = i /\ proc[p] = Idle /\ a # "none"
      /\ engine \in [Instances -> [Alerts -> Entries]] /\ lives \in [Alerts -> Life]
  BY HomeAssumption, AlertsAssumption, GoroutinesProper DEF Procs, Tick, Typed, TypeOK,
     Proper, Placed
<1>2. PICK choice \in Choices :
        /\ \A b \in held : choice[b] \in TickOutcomes(Entry(p, b).phase)
        /\ \E listed \in SUBSET {b \in held : Next1(choice)[b].phase = "firing"} :
             /\ engine' = [engine EXCEPT ![Home[p]] =
                  [b \in Alerts |-> IF b \in held THEN Next1(choice)[b] ELSE NoEntry]]
             /\ Becomes(p, [Idle EXCEPT !.pc = "scan", !.todo = Todo(choice),
                              !.repeats = IF Repeat THEN listed ELSE {}])
        /\ lives' = [b \in Alerts |-> IF b \in held /\ Rises(Entry(p, b), choice[b])
                                      THEN lives[b] + 1 ELSE lives[b]]
  BY Zenon DEF Tick
<1>3. PICK repeats \in SUBSET {b \in held : Next1(choice)[b].phase = "firing"} :
        Becomes(p, [Idle EXCEPT !.pc = "scan", !.todo = Todo(choice), !.repeats = repeats])
  BY <1>2
<1> DEFINE todo == Todo(choice)
           k == [Idle EXCEPT !.pc = "scan", !.todo = todo, !.repeats = repeats]
           o == choice[a]
           e == Entry(p, a)
           d == Decision(a, o, After(e, o, a))
<1>4. Becomes(p, k)
  BY <1>3
<1>5. /\ engine'[i][a] = IF a \in held THEN After(e, o, a) ELSE NoEntry
      /\ lives'[a] = IF a \in held /\ Rises(e, o) THEN lives[a] + 1 ELSE lives[a]
      /\ UNCHANGED <<rule, cards, sent>>
  BY <1>1, <1>2 DEF Tick, storeVars, sendVars
<1>6. /\ \A f \in todo : f.alert = a => a \in held /\ f = d /\ o.state # Inactive
      /\ a \in held /\ o.state # Inactive => d \in todo
  BY DEF Decision
<1>7. a \in repeats => engine'[i][a].phase = "firing"
  BY <1>3, <1>5
<1>8. /\ d.alert = a /\ d.state = o.state /\ d.changed = o.changed /\ d.life = After(e, o, a).life
  BY DEF Decision
<1>9. a \in held <=> e # NoEntry
  BY DEF HasEntry
<1>10. a \in held => o \in TickOutcomes(e.phase)
  BY <1>2
<1>11. e = engine[i][a]
  BY <1>1 DEF Entry
<1> HIDE DEF d, o, e, held, Choices, Next1, Todo, todo
<1>12. k.pc = "scan" /\ k.alert = "none" /\ k.todo = todo /\ k.repeats = repeats
  BY DEF Idle
<1> HIDE DEF k
<1>13. proc'[p] = k
  BY <1>1, <1>4, OnlyOne
<1>14. a \in repeats => w.phase = "firing"
  BY <1>7 DEF View
<1>15. CASE a \notin held
  <2>1. w = v
    BY <1>5, <1>9, <1>11, <1>15, SameView
  <2>2. Follows(Idle, a, v) => Follows(k, a, w)
    BY <1>1, <1>6, <1>12, <1>14, <1>15, <2>1, RestFollows DEF Follows
  <2> QED
    BY <1>1, <1>4, <1>13, <2>1, <2>2 DEF Keeps, Passes
<1>16. CASE a \in held
  <2>1. e \in Entries \ {NoEntry} /\ e.phase \in Phases
    BY <1>1, <1>9, <1>11, <1>16 DEF Entries
  <2>2. Evaluates(e.phase, o)
    BY <1>10, <1>16, <2>1, OutcomesEvaluate
  <2>3. /\ v.phase = e.phase \/ (v.phase = "none" /\ e.phase = Inactive)
        /\ w.phase = o.phase /\ w.ref = v.ref /\ w.card = v.card /\ w.told = v.told
        /\ w.channel = v.channel /\ v.life = lives[a] /\ w.life = lives'[a]
        /\ IF e.phase = Inactive /\ o.phase # Inactive
           THEN w.life = v.life + 1 /\ w.since = w.life
           ELSE w.life = v.life /\ w.since = v.since
    BY <1>5, <1>11, <1>16, <2>1, EvaluatedView
  <2>4. v.life \in Life /\ w.life \in Life
    BY <1>1, <2>3 DEF Typed, TypeOK
  <2>5. d.life = w.since
    <3>1. engine'[i][a] # NoEntry
      BY <1>1, <1>5, <1>16, <2>1, AfterFields DEF Life
    <3> QED
      BY <1>5, <1>8, <1>16, <3>1 DEF View
  <2>6. Settled(v) /\ Past(v) =>
          /\ Past(w)
          /\ o.state = Inactive => Settled(w)
          /\ o.state # Inactive => Decided(w, d)
    BY <1>8, <2>1, <2>2, <2>3, <2>4, <2>5, SettledEvaluates
  <2>7. Past(v) /\ Settled(v) => Follows(k, a, w)
    <3> SUFFICES ASSUME Past(v), Settled(v) PROVE Follows(k, a, w)
      OBVIOUS
    <3>1. k.alert # a
      BY <1>1, <1>12
    <3>2. \A f \in todo : f.alert = a => Decided(w, f) /\ f = d
      BY <1>6, <2>6
    <3>3. (\A f \in todo : f.alert # a) => Settled(w)
      BY <1>6, <1>8, <1>16, <2>6
    <3> QED
      BY <1>12, <1>14, <3>1, <3>2, <3>3 DEF Follows
  <2>8. CASE o.state = Inactive
    <3>1. o.phase = e.phase
      BY <2>1, <2>2, <2>8 DEF Evaluates, Inactive
    <3>2. v.phase = e.phase
      BY <1>9, <1>11, <1>16 DEF View
    <3>3. w = v
      BY <2>3, <3>1, <3>2 DEF View
    <3> QED
      BY <1>1, <1>4, <1>13, <2>6, <2>7, <3>3, RestFollows DEF Keeps, Passes
  <2>9. CASE o.state # Inactive
    <3>1. a \in WorksOn(k)
      BY <1>6, <1>8, <1>12, <1>16, <2>9 DEF WorksOn
    <3> QED
      BY <1>1, <1>4, <1>13, <2>6, <2>7, <3>1, RestFollows DEF Keeps
  <2> QED
    BY <2>8, <2>9
<1> QED
  BY <1>15, <1>16

\* A delete marker of a settled alert sets its resolve off; that of a refreshed tick is dropped.
LEMMA MarkerFollows ==
  ASSUME Typed, NEW i \in Instances, NEW p \in Expirers, NEW a \in Alerts, TakeMarker(p, a)
  PROVE  /\ Becomes(p, proc'[p])
         /\ \A b \in Alerts : View(i, b)' = View(i, b) /\ Keeps(p, i, b)
<1> DEFINE k == [Idle EXCEPT !.pc = "ttlRead", !.why = "ttl", !.alert = a,
                   !.state = "resolved", !.changed = TRUE, !.notify = TRUE]
<1>1. /\ p \in Procs /\ proc[p] = Idle /\ (Becomes(p, Idle) \/ Becomes(p, k))
      /\ UNCHANGED <<rule, engine, lives, cards, sent>>
  BY GoroutinesProper
     DEF Procs, TakeMarker, engineVars, sendVars, Typed, Proper, Placed
<1>2. /\ k.pc = "ttlRead" /\ k.why = "ttl" /\ k.alert = a /\ k.state = "resolved" /\ k.changed
      /\ k.notify /\ k.todo = {} /\ k.repeats = {}
  BY DEF Idle
<1> HIDE DEF k
<1>3. proc'[p] = Idle \/ proc'[p] = k
  BY <1>1, OnlyOne
<1>4. \A b \in Alerts : View(i, b)' = View(i, b)
  BY <1>1, SameView
<1>5. \A b \in Alerts : Settled(View(i, b)) => Follows(k, b, View(i, b))
  BY <1>2 DEF Follows, At
<1> QED
  BY <1>1, <1>3, <1>4, <1>5, OnlyOne, RestFollows DEF Keeps

-----------------------------------------------------------------------------
(* What a step leaves to others.                                           *)

\* Reading the references sets one in the card, and in the copies that share its map, or nothing.
LEMMA ReadRefsShape ==
  ASSUME Typed, NEW p \in Procs, ReadRefs(p)
  PROVE  LET o == proc[p]
             k == proc'[p]
             c == cards[o.alert]
         IN  /\ o.pc = "refs" /\ Proper(o) /\ o.alert \in Alerts
             /\ UNCHANGED <<rule, engine, lives, sent, sends, errors, restarts>>
             /\ NoteOverlap(p, k)
             /\ \/ k = Finish(o)
                \/ /\ c # NoCard /\ k.alert = o.alert /\ k.todo = o.todo /\ k.repeats = o.repeats
                   /\ k.ref = o.ref /\ k.card.ref = o.ref /\ k.card.map \in {c.map, o.ref}
             /\ \A b \in Alerts \ {o.alert} : cards'[b] = cards[b]
             /\ \/ cards'[o.alert] = c
                \/ /\ c # NoCard /\ cards'[o.alert].ref = o.ref
                   /\ cards'[o.alert].map \in {c.map, o.ref}
             /\ \A q \in Procs \ {p} :
                  LET h == proc[q]
                      g == proc'[q]
                  IN  \/ g = h
                      \/ /\ c # NoCard /\ c.map # None /\ h.card # NoCard /\ h.card.map = c.map
                         /\ g.card.ref = o.ref /\ g.card.map = h.card.map /\ g.ref = h.ref
                         /\ g.alert = h.alert /\ g.todo = h.todo /\ g.repeats = h.repeats
<1> DEFINE o == proc[p]
           k == proc'[p]
           a == o.alert
           c == cards[a]
           map == IF c.map = None THEN o.ref ELSE c.map
           new == IF c = NoCard THEN NoCard ELSE [c EXCEPT !.ref = o.ref, !.map = map]
           write == [o EXCEPT !.pc = "refsWrite", !.card = new]
           next == IF c = NoCard \/ c = new THEN Finish(o) ELSE write
           Shared(x) == x # NoCard /\ x.map = c.map
<1>1. /\ Proper(o) /\ o.pc = "refs" /\ a \in Alerts /\ c \in Cards \cup {NoCard}
      /\ cards \in [Alerts -> Cards \cup {NoCard}]
      /\ UNCHANGED <<rule, engine, lives, sent, sends, errors, restarts>>
  BY GoroutinesProper DEF Typed, TypeOK, ReadRefs, Proper, Busy, engineVars, sendVars
<1>2. \/ /\ c # NoCard /\ c.map # None /\ cards' = [cards EXCEPT ![a] = new]
         /\ proc' = [q \in Procs |->
              IF q = p THEN next
              ELSE IF Shared(proc[q].card)
              THEN [proc[q] EXCEPT !.card.ref = o.ref] ELSE proc[q]]
         /\ NoteOverlap(p, next)
      \/ UNCHANGED cards /\ Becomes(p, next)
  BY DEF ReadRefs
<1>3. c # NoCard => new.ref = o.ref /\ new.map \in {c.map, o.ref}
  BY <1>1 DEF Cards
<1> HIDE DEF new
<1>4. /\ write.alert = o.alert /\ write.todo = o.todo /\ write.repeats = o.repeats
      /\ write.ref = o.ref /\ write.card = new
  BY <1>1 DEF Proper, Jobs
<1> HIDE DEF write
<1>5. next = Finish(o) \/ (c # NoCard /\ next = write)
  OBVIOUS
<1> HIDE DEF next
<1>6. k = next /\ NoteOverlap(p, k)
  BY <1>2, OnlyOne DEF Becomes
<1>7. cards'[a] = c \/ (c # NoCard /\ cards'[a] = new)
  BY <1>1, <1>2
<1>8. \A b \in Alerts \ {a} : cards'[b] = cards[b]
  BY <1>1, <1>2
<1>9. ASSUME NEW q \in Procs \ {p}, proc'[q] # proc[q]
      PROVE  LET h == proc[q]
                 g == proc'[q]
             IN  /\ c # NoCard /\ c.map # None /\ h.card # NoCard /\ h.card.map = c.map
                 /\ g.card.ref = o.ref /\ g.card.map = h.card.map /\ g.ref = h.ref
                 /\ g.alert = h.alert /\ g.todo = h.todo /\ g.repeats = h.repeats
  <2> DEFINE h == proc[q]
             card == [h.card EXCEPT !.ref = o.ref]
             g == [h EXCEPT !.card = card]
  <2>1. /\ c # NoCard /\ c.map # None /\ h.card # NoCard /\ h.card.map = c.map /\ proc'[q] = g
    BY <1>2, <1>9, OnlyOne
  <2>2. h \in Jobs /\ h.card \in Cards
    BY <2>1, GoroutinesProper DEF Typed, Proper, Jobs
  <2>3. card.ref = o.ref /\ card.map = h.card.map
    BY <2>2 DEF Cards
  <2> HIDE DEF card
  <2>4. g.card = card /\ g.ref = h.ref /\ g.alert = h.alert /\ g.todo = h.todo /\ g.repeats = h.repeats
    BY <2>2 DEF Jobs
  <2> HIDE DEF g
  <2> QED
    BY <2>1, <2>3, <2>4
<1> QED
  BY <1>1, <1>3, <1>4, <1>5, <1>6, <1>7, <1>8, <1>9

\* A goroutine's other decisions and repeats wait while it is at work on an alert.
Waits(o, k) == k.todo = o.todo /\ k.repeats = o.repeats /\ k.alert \in {o.alert, "none"}

\* So it is however the job goes on or ends.
LEMMA EndsWaiting ==
  ASSUME NEW o, NEW k
  PROVE  /\ Stays(o, k) => Waits(o, k)
         /\ Ended(o, k) => Waits(o, k)
         /\ Closed(o, k) => Waits(o, k)
         /\ \A notify : Announced(o, k, notify) => Waits(o, k)
         /\ \A notify : Seeded(o, k, notify) => Waits(o, k)
BY DEF Seeded, Announced, Closed, Ended, Stays, Waits

\* The steps of a goroutine at work on an alert, but for ReadRefs.
LEMMA HandlerWaits ==
  ASSUME Typed, Typed', NEW p \in Procs, Step(p), UNCHANGED errors,
         ~NextDecision(p), ~NextRepeat(p), ~EndTick(p), ~ReadRefs(p)
  PROVE  /\ proc[p].pc \notin {"idle", "scan"} /\ Waits(proc[p], proc'[p])
         /\ Becomes(p, proc'[p])
<1> DEFINE o == proc[p]
           k == proc'[p]
<1>1. errors # errors + 1
  BY DEF Typed, TypeOK
<1>2. CASE GetAlertIdentity(p) \/ RefreshTick(p) \/ ReadCard(p)
  <2>1. \E j : Becomes(p, j)
    BY <1>2 DEF GetAlertIdentity, RefreshTick, ReadCard
  <2> QED
    BY <1>2, <2>1, LookupTurns, EndsWaiting, OnlyOne
<1>3. CASE WriteCard(p)
  <2>1. \E j : Becomes(p, j)
    BY <1>3 DEF WriteCard, Fail
  <2> QED
    BY <1>3, <2>1, WriteCardTurns, EndsWaiting, OnlyOne
<1>4. CASE ResolveConflict(p) \/ SeedExternalRefs(p)
  <2>1. \E j : Becomes(p, j)
    BY <1>4 DEF ResolveConflict, SeedExternalRefs
  <2>2. /\ o.pc \in {"conflict", "seed"}
        /\ Seeded(o, k, FALSE) \/ Announced(o, k, o.notify)
    BY <1>4, TakeOverTurns
  <2>3. Waits(o, k)
    BY <2>2, EndsWaiting
  <2> QED
    BY <2>1, <2>2, <2>3, OnlyOne
<1>5. CASE Mute(p) \/ PrepareNotification(p) \/ Send(p) \/ CaptureDeliveryEffects(p)
  <2>1. \E j : Becomes(p, j)
    BY <1>5 DEF Mute, PrepareNotification, Send, CaptureDeliveryEffects
  <2> QED
    BY <1>5, <2>1, DeliveryTurns, EndsWaiting, OnlyOne
<1>6. CASE SendFails(p)
  BY <1>1, <1>6 DEF SendFails, Fail
<1>7. CASE WriteRefs(p)
  <2> DEFINE next == [o EXCEPT !.pc = "refs", !.card = NoCard, !.tries = @ + 1]
  <2>1. o.pc = "refsWrite" /\ Proper(o) /\ (Becomes(p, Finish(o)) \/ Becomes(p, next))
    BY <1>1, <1>7, GoroutinesProper DEF WriteRefs, Fail, Typed
  <2>2. Waits(o, Finish(o)) /\ Waits(o, next)
    BY <2>1, FinishShape DEF Waits, Proper, Jobs
  <2> HIDE DEF next
  <2> QED
    BY <2>1, <2>2, OnlyOne
<1>8. CASE DeleteCard(p) \/ DeleteTick(p) \/ RemoveAlertState(p)
  <2>1. \E j : Becomes(p, j)
    BY <1>8 DEF DeleteCard, DeleteTick, RemoveAlertState
  <2> QED
    BY <1>8, <2>1, DeletionTurns, EndsWaiting, OnlyOne
<1>9. CASE ReadExpired(p) \/ ResolveExpired(p)
  <2>1. o.pc \in {"ttlRead", "ttlWrite"} /\ \E j : Becomes(p, j)
    BY <1>9 DEF ReadExpired, ResolveExpired
  <2>2. k.pc = "idle" => Waits(o, k)
    <3>1. o.todo = {} /\ o.repeats = {} /\ (k.pc = "idle" => k = Idle)
      BY <2>1, GoroutinesProper DEF Typed, Goroutines, Proper, Placed
    <3> QED
      BY <3>1 DEF Waits, Idle
  <2>3. k.pc = "idle" \/ Stays(o, k) \/ Seeded(o, k, o.notify)
    BY <1>9, ExpiryTurns
  <2>4. Waits(o, k)
    BY <2>2, <2>3, EndsWaiting
  <2> QED
    BY <2>1, <2>4, OnlyOne
<1> QED
  BY <1>2, <1>3, <1>4, <1>5, <1>6, <1>7, <1>8, <1>9 DEF Step

\* A goroutine touches no alert but its own.
LEMMA ElsewhereSame ==
  ASSUME Typed, NEW i \in Instances, NEW p \in Procs, Step(p), ~EndTick(p),
         NEW a \in Alerts, a # proc[p].alert
  PROVE  View(i, a)' = View(i, a)
<1> DEFINE o == proc[p]
<1>1. /\ engine \in [Instances -> [Alerts -> Entries]] /\ cards \in [Alerts -> Cards \cup {NoCard}]
      /\ DOMAIN sent = Alerts
  BY DEF Typed, TypeOK
<1>2. ASSUME NEW e, SetEntry(p, o.alert, e) PROVE engine'[i][a] = engine[i][a]
  BY <1>1, <1>2 DEF SetEntry
<1>3. ASSUME NEW c, Put(o.alert, c) PROVE cards'[a] = cards[a]
  BY <1>1, <1>3 DEF Put
<1>4. engine'[i][a] = engine[i][a]
  <2>1. \/ UNCHANGED engine
        \/ \E e : SetEntry(p, o.alert, e)
    BY DEF Step, NextDecision, NextRepeat, GetAlertIdentity, RefreshTick, ReadCard, WriteCard,
           ResolveConflict, SeedExternalRefs, Mute, PrepareNotification, Send, SendFails,
           CaptureDeliveryEffects, ReadRefs, WriteRefs, DeleteCard, DeleteTick, RemoveAlertState,
           ReadExpired, ResolveExpired, engineVars
  <2> QED
    BY <1>2, <2>1
<1>5. cards'[a] = cards[a]
  <2>1. CASE ReadRefs(p)
    BY <2>1, ReadRefsShape
  <2>2. CASE WriteCard(p) \/ WriteRefs(p) \/ ResolveExpired(p)
    <3>1. UNCHANGED cards \/ \E c : Put(o.alert, c)
      BY <2>2 DEF WriteCard, WriteRefs, ResolveExpired
    <3> QED
      BY <1>3, <3>1
  <2>3. CASE DeleteCard(p)
    BY <1>1, <2>3 DEF DeleteCard
  <2>4. CASE ~ReadRefs(p) /\ ~WriteCard(p) /\ ~WriteRefs(p) /\ ~ResolveExpired(p) /\ ~DeleteCard(p)
    BY <2>4
       DEF Step, NextDecision, NextRepeat, GetAlertIdentity, RefreshTick, ReadCard,
           ResolveConflict, SeedExternalRefs, Mute, PrepareNotification, Send, SendFails,
           CaptureDeliveryEffects, DeleteTick, RemoveAlertState, ReadExpired, storeVars
  <2> QED
    BY <2>1, <2>2, <2>3, <2>4
<1>6. UNCHANGED <<rule, lives>> /\ sent'[a] = sent[a]
  <2>1. UNCHANGED <<rule, lives>>
    BY DEF Step, NextDecision, NextRepeat, GetAlertIdentity, RefreshTick, ReadCard, WriteCard,
           ResolveConflict, SeedExternalRefs, Mute, PrepareNotification, Send, SendFails,
           CaptureDeliveryEffects, ReadRefs, WriteRefs, DeleteCard, DeleteTick, RemoveAlertState,
           ReadExpired, ResolveExpired, engineVars
  <2>2. CASE Send(p) \/ Mute(p)
    BY <1>1, <2>1, <2>2 DEF Send, Mute
  <2>3. CASE ~Send(p) /\ ~Mute(p)
    BY <2>1, <2>3
       DEF Step, NextDecision, NextRepeat, GetAlertIdentity, RefreshTick, ReadCard, WriteCard,
           ResolveConflict, SeedExternalRefs, PrepareNotification, SendFails,
           CaptureDeliveryEffects, ReadRefs, WriteRefs, DeleteCard, DeleteTick, RemoveAlertState,
           ReadExpired, ResolveExpired, sendVars
  <2> QED
    BY <2>1, <2>2, <2>3
<1> QED
  BY <1>4, <1>5, <1>6, SameView

\* Only a message, sent or kept back, and a raise add to the history of an alert.
LEMMA HistoryKept ==
  ASSUME NEW i, NEW p, NEW a, Step(p), ~Send(p), ~Mute(p), Past(View(i, a))
  PROVE  Past(View(i, a)')
<1>1. UNCHANGED <<lives, sent>>
  BY DEF Step, NextDecision, NextRepeat, EndTick, GetAlertIdentity, RefreshTick, ReadCard,
     WriteCard,
         ResolveConflict, SeedExternalRefs, PrepareNotification, SendFails,
         CaptureDeliveryEffects, ReadRefs, WriteRefs, DeleteCard, DeleteTick, RemoveAlertState,
         ReadExpired, ResolveExpired, engineVars, sendVars
<1>2. View(i, a)'.told = View(i, a).told /\ View(i, a)'.life = View(i, a).life
  BY <1>1 DEF View
<1> QED
  BY <1>2 DEF Past

-----------------------------------------------------------------------------
(* References.  A reference belongs to one alert, wherever it is kept: the *)
(* goroutines that share a map with a card are at work on its alert.       *)

Bears(c, x) == c # NoCard /\ (c.ref = x \/ c.map = x)
Carries(j, a, x) == j.alert = a /\ (j.ref = x \/ Bears(j.card, x))
Knows(i, a, x) ==
  \/ engine[i][a] # NoEntry /\ engine[i][a].ref = x
  \/ Bears(cards[a], x)
  \/ \E q \in Procs : Carries(proc[q], a, x)
Owned(i) ==
  \A a \in Alerts, x \in Nat \ {None} :
    Knows(i, a, x) => x <= sends /\ \A b \in Alerts : Knows(i, b, x) => b = a

\* Nobody learns of a reference.
LearnsNothing(i) ==
  \A a \in Alerts, x \in Nat \ {None} : Knows(i, a, x)' => Knows(i, a, x)

\* Then each reference still belongs to one alert.
LEMMA OwnedKept ==
  ASSUME NEW i, Owned(i), LearnsNothing(i), UNCHANGED sends
  PROVE  Owned(i)'
BY DEF Owned, LearnsNothing

\* The end of a job and what comes before it keep the job's references at most.
LEMMA EndCarries ==
  ASSUME NEW j, Proper(j), j.pc \notin {"idle", "scan"}, NEW a \in Alerts, NEW x \in Nat \ {None}
  PROVE  /\ Carries(Finish(j), a, x) => Carries(j, a, x)
         /\ Carries(Close(j), a, x) => Carries(j, a, x)
         /\ Carries(Notify(j), a, x) => Carries(j, a, x)
         /\ Carries(Seed(j), a, x) => Carries(j, a, x)
<1>1. Carries(Finish(j), a, x) => Carries(j, a, x)
  <2>1. CASE j.why = "event" /\ j.late /\ j.state # "resolved"
    <3>1. Finish(j) = [j EXCEPT !.pc = "flush"]
      BY <2>1 DEF Finish
    <3> QED
      BY <3>1 DEF Carries, Proper, Jobs
  <2>2. CASE ~(j.why = "event" /\ j.late /\ j.state # "resolved")
    <3>1. Finish(j).alert = "none"
      BY <2>2 DEF Finish, Idle
    <3> QED
      BY <3>1, AlertsAssumption DEF Carries
  <2> QED
    BY <2>1, <2>2
<1>2. Carries(Close(j), a, x) => Carries(j, a, x)
  <2>1. CASE j.state = "resolved"
    <3>1. Close(j) = [j EXCEPT !.pc = "delete", !.card = NoCard, !.ref = None]
      BY <2>1 DEF Close
    <3>2. Close(j).card = NoCard /\ Close(j).ref = None
      BY <3>1 DEF Proper, Jobs
    <3> QED
      BY <3>2 DEF Carries, Bears
  <2> QED
    BY <1>1, <2>1 DEF Close
<1>3. Carries(Notify(j), a, x) => Carries(j, a, x)
  <2>1. CASE j.changed /\ j.notify /\ j.state # "pending"
    <3>1. Notify(j) = [j EXCEPT !.pc = "prepare", !.card = NoCard]
      BY <2>1 DEF Notify
    <3>2. Notify(j).card = NoCard /\ Notify(j).ref = j.ref /\ Notify(j).alert = j.alert
      BY <3>1 DEF Proper, Jobs
    <3> QED
      BY <3>2 DEF Carries, Bears
  <2> QED
    BY <1>2, <2>1 DEF Notify
<1>4. Carries(Seed(j), a, x) => Carries(j, a, x)
  <2>1. CASE Seed(j) = [j EXCEPT !.pc = "seed"]
    BY <2>1 DEF Carries, Proper, Jobs
  <2> QED
    BY <1>3, <2>1 DEF Seed
<1> QED
  BY <1>1, <1>2, <1>3, <1>4

\* A goroutine at rest or in the scan carries none.
LEMMA RestCarriesNone ==
  ASSUME NEW j, Proper(j), j.pc \in {"idle", "scan"}, NEW a \in Alerts, NEW x
  PROVE  ~Carries(j, a, x)
BY AlertsAssumption DEF Proper, Placed, Idle, Carries

\* Where a step of one goroutine may get a reference from.
LEMMA LearnsNothingIf ==
  ASSUME NEW i, NEW p \in Procs, \A q \in Procs \ {p} : proc'[q] = proc[q],
         \A a \in Alerts, x \in Nat \ {None} :
           /\ engine'[i][a] # NoEntry /\ engine'[i][a].ref = x => Knows(i, a, x)
           /\ Bears(cards'[a], x) => Knows(i, a, x)
           /\ Carries(proc'[p], a, x) => Knows(i, a, x)
  PROVE  LearnsNothing(i)
<1> SUFFICES ASSUME NEW a \in Alerts, NEW x \in Nat \ {None}, Knows(i, a, x)'
             PROVE  Knows(i, a, x)
  BY DEF LearnsNothing
<1>2. CASE engine'[i][a] # NoEntry /\ engine'[i][a].ref = x
  BY <1>2
<1>3. CASE Bears(cards'[a], x)
  BY <1>3
<1>4. CASE \E q \in Procs : Carries(proc'[q], a, x)
  <2>1. PICK q \in Procs : Carries(proc'[q], a, x)
    BY <1>4
  <2> QED
    BY <2>1 DEF Knows
<1> QED
  BY <1>2, <1>3, <1>4 DEF Knows

\* The reference of a card that is written.
LEMMA PutBears ==
  ASSUME Typed, NEW a \in Alerts, NEW c \in Cards, Put(a, c)
  PROVE  /\ \A x : Bears(cards'[a], x) => Bears(c, x)
         /\ \A b \in Alerts \ {a} : cards'[b] = cards[b]
<1> DEFINE n == NextRevision(a)
<1>1. cards' = [cards EXCEPT ![a] = [c EXCEPT !.rev = n]]
  BY DEF Put
<1> HIDE DEF n
<1>2. cards'[a].ref = c.ref /\ cards'[a].map = c.map /\ \A b \in Alerts \ {a} : cards'[b] = cards[b]
  BY <1>1 DEF Typed, TypeOK, Cards
<1>3. c # NoCard
  BY DEF Cards, CardStates, NoCard
<1> QED
  BY <1>2, <1>3 DEF Bears

\* The card a decision writes has the references of the one it read.
LEMMA WrittenBears ==
  ASSUME NEW j \in Jobs, NEW x \in Nat \ {None}, Bears(Written(j), x)
  PROVE  Bears(j.card, x)
<1>1. CASE j.card = NoCard
  BY <1>1 DEF Written, Bears
<1>2. CASE j.card # NoCard
  <2> DEFINE life == IF j.state = "resolved" THEN j.card.life ELSE j.life
  <2>1. j.card \in Cards /\ Written(j) = [j.card EXCEPT !.State = j.state, !.life = life]
    BY <1>2 DEF Jobs, Written
  <2> HIDE DEF life
  <2>2. Written(j).ref = j.card.ref /\ Written(j).map = j.card.map
    BY <2>1 DEF Cards
  <2> QED
    BY <1>2, <2>2 DEF Bears
<1> QED
  BY <1>1, <1>2

\* What starts a job and the scan of a tick hand no references on.
LEMMA StartLearns ==
  ASSUME Typed, Typed', NEW i \in Instances, Instances = {i}, NEW p \in Procs,
         \/ p \in Workers /\ \E a \in Alerts : Event(p, a)
         \/ p \in Tickers /\ Tick(p)
         \/ p \in Expirers /\ \E a \in Alerts : TakeMarker(p, a)
         \/ NextDecision(p) \/ NextRepeat(p) \/ EndTick(p)
  PROVE  LearnsNothing(i)
<1> DEFINE o == proc[p]
           k == proc'[p]
<1>1. /\ Home[p] = i /\ Proper(o) /\ UNCHANGED cards /\ o.card = NoCard /\ o.ref = None
      /\ engine \in [Instances -> [Alerts -> Entries]] /\ o.pc \in {"idle", "scan"}
      /\ \A a \in Alerts : lives[a] \in Nat
  <2>1. UNCHANGED cards /\ o.pc \in {"idle", "scan"}
    BY DEF Event, Tick, TakeMarker, NextDecision, NextRepeat, EndTick, storeVars
  <2>2. Home[p] = i /\ Proper(o)
    BY HomeAssumption, GoroutinesProper DEF Typed
  <2>3. o.card = NoCard /\ o.ref = None
    BY <2>1, <2>2 DEF Proper, Placed, Idle
  <2>4. engine \in [Instances -> [Alerts -> Entries]]
    BY DEF Typed, TypeOK
  <2>5. \A a \in Alerts : lives[a] \in Nat
    <3>1. lives \in [Alerts -> Life]
      BY DEF Typed, TypeOK
    <3> QED
      BY <3>1 DEF Life
  <2> QED
    BY <2>1, <2>2, <2>3, <2>4, <2>5, Zenon
<1>2. \A q \in Procs \ {p} : proc'[q] = proc[q]
  BY StartTurns, ScanTurns
<1>3. k.card = NoCard /\ k.ref = None
  <2>1. k = o \/ \E j : j.card = NoCard /\ j.ref = None /\ k = j
    <3>1. CASE \E a \in Alerts : Event(p, a)
      <4>1. k = o \/ \E d, late : Becomes(p, Carry("event", d, late))
        BY <3>1 DEF Event
      <4>2. \A d, late : Carry("event", d, late).card = NoCard /\ Carry("event", d, late).ref = None
        BY DEF Carry, Idle
      <4> QED
        BY <4>1, <4>2, OnlyOne
    <3>2. CASE Tick(p)
      <4>1. PICK todo, repeats : Becomes(p, [Idle EXCEPT !.pc = "scan", !.todo = todo, !.repeats = repeats])
        BY <3>2 DEF Tick
      <4> DEFINE j == [Idle EXCEPT !.pc = "scan", !.todo = todo, !.repeats = repeats]
      <4>2. j.card = NoCard /\ j.ref = None
        BY DEF Idle
      <4> HIDE DEF j
      <4> QED
        BY <4>1, <4>2, OnlyOne DEF j
    <3>3. CASE \E a \in Alerts : TakeMarker(p, a)
      <4>1. PICK a \in Alerts : TakeMarker(p, a)
        BY <3>3
      <4> DEFINE j == [Idle EXCEPT !.pc = "ttlRead", !.why = "ttl", !.alert = a,
                         !.state = "resolved", !.changed = TRUE, !.notify = TRUE]
      <4>2. Becomes(p, Idle) \/ Becomes(p, j)
        BY <4>1 DEF TakeMarker
      <4>3. j.card = NoCard /\ j.ref = None /\ Idle.card = NoCard /\ Idle.ref = None
        BY DEF Idle
      <4> HIDE DEF j
      <4> QED
        BY <4>2, <4>3, OnlyOne
    <3>4. CASE NextDecision(p)
      <4>1. PICK d, todo, repeats :
              Becomes(p, [Carry("decision", d, FALSE) EXCEPT !.todo = todo, !.repeats = repeats])
        BY <3>4 DEF NextDecision
      <4> DEFINE j == [Carry("decision", d, FALSE) EXCEPT !.todo = todo, !.repeats = repeats]
      <4>2. j.card = NoCard /\ j.ref = None
        BY DEF Carry, Idle
      <4> HIDE DEF j
      <4> QED
        BY <4>1, <4>2, OnlyOne DEF j
    <3>5. CASE NextRepeat(p)
      <4>1. PICK a \in o.repeats :
              \/ Becomes(p, [[o EXCEPT !.repeats = @ \ {a}]
                   EXCEPT !.pc = "prepare", !.why = "repeat", !.alert = a,
                          !.state = "firing", !.life = Entry(p, a).life])
              \/ Becomes(p, [o EXCEPT !.repeats = @ \ {a}])
        BY <3>5 DEF NextRepeat
      <4> DEFINE j == [o EXCEPT !.repeats = @ \ {a}]
                 repeat == [j EXCEPT !.pc = "prepare", !.why = "repeat", !.alert = a,
                                     !.state = "firing", !.life = Entry(p, a).life]
      <4>2. Becomes(p, j) \/ Becomes(p, repeat)
        BY <4>1
      <4>3. j.card = NoCard /\ j.ref = None /\ repeat.card = NoCard /\ repeat.ref = None
        BY <1>1 DEF Proper, Jobs
      <4> HIDE DEF j, repeat
      <4> QED
        BY <4>2, <4>3, OnlyOne
    <3>6. CASE EndTick(p)
      <4>1. k = Idle
        BY <3>6 DEF EndTick, Typed, TypeOK
      <4> QED
        BY <4>1 DEF Idle
    <3> QED
      BY <3>1, <3>2, <3>3, <3>4, <3>5, <3>6
  <2> QED
    BY <1>1, <2>1
<1>4. ASSUME NEW a \in Alerts, NEW x \in Nat \ {None}, engine'[i][a] # NoEntry,
             engine'[i][a].ref = x
      PROVE  engine[i][a] # NoEntry /\ engine[i][a].ref = x
  <2>1. \/ engine'[i][a] = engine[i][a]
        \/ engine'[i][a] = NoEntry
        \/ \E o1 : engine'[i][a] = After(IF HasEntry(p, a) THEN Entry(p, a) ELSE Fresh, o1, a)
    <3>1. CASE \E b \in Alerts : Event(p, b)
      <4>1. PICK b \in Alerts : \E o1 :
              SetEntry(p, b, After(IF HasEntry(p, b) THEN Entry(p, b) ELSE Fresh, o1, b))
        BY <3>1 DEF Event
      <4> QED
        BY <1>1, <4>1 DEF SetEntry
    <3>2. CASE Tick(p)
      <4> DEFINE held == {b \in Alerts : HasEntry(p, b)}
      <4>1. PICK choice :
              engine' = [engine EXCEPT ![Home[p]] =
                [b \in Alerts |-> IF b \in held THEN [c \in held |-> After(Entry(p, c), choice[c], c)][b]
                                  ELSE NoEntry]]
        BY <3>2, Zenon DEF Tick
      <4> QED
        BY <1>1, <4>1
    <3>3. CASE EndTick(p)
      <4>1. PICK gone : engine' = [engine EXCEPT ![Home[p]] =
                          [b \in Alerts |-> IF b \in gone THEN NoEntry ELSE @[b]]]
        BY <3>3 DEF EndTick
      <4> QED
        BY <1>1, <4>1
    <3>4. CASE (\E b \in Alerts : TakeMarker(p, b)) \/ NextDecision(p) \/ NextRepeat(p)
      BY <3>4 DEF TakeMarker, NextDecision, NextRepeat, engineVars
    <3> QED
      BY <3>1, <3>2, <3>3, <3>4
  <2> DEFINE e == IF HasEntry(p, a) THEN Entry(p, a) ELSE Fresh
  <2>2. e \in Entries \ {NoEntry} /\ e.ref = IF engine[i][a] # NoEntry THEN engine[i][a].ref ELSE None
    <3>1. Fresh \in Entries \ {NoEntry} /\ Fresh.ref = None
      BY Bounds DEF Fresh, Entries, NoEntry, Phases, Inactive
    <3> QED
      BY <1>1, <3>1 DEF HasEntry, Entry
  <2> HIDE DEF e
  <2>3. \A o1 : engine'[i][a] = After(e, o1, a) => engine'[i][a].ref = e.ref
    BY <1>1, <2>2, AfterFields
  <2> QED
    BY <1>4, <2>1, <2>2, <2>3 DEF e
<1>5. ASSUME NEW a \in Alerts, NEW x \in Nat \ {None} PROVE ~Carries(k, a, x)
  BY <1>3 DEF Carries, Bears
<1>6. \A a \in Alerts, x \in Nat \ {None} :
        /\ engine'[i][a] # NoEntry /\ engine'[i][a].ref = x => Knows(i, a, x)
        /\ Bears(cards'[a], x) => Knows(i, a, x)
        /\ Carries(k, a, x) => Knows(i, a, x)
  BY <1>1, <1>4, <1>5 DEF Knows
<1> QED
  BY <1>2, <1>6, LearnsNothingIf

\* A handler passes the references of its alert on: from the card to its hands and to the
\* engine, and back.
LEMMA HandlerLearns ==
  ASSUME Typed, Typed', NEW i \in Instances, Instances = {i}, NEW p \in Procs, Step(p),
         UNCHANGED errors,
         ~NextDecision(p), ~NextRepeat(p), ~EndTick(p), ~ReadRefs(p), ~Send(p)
  PROVE  LearnsNothing(i)
<1> DEFINE o == proc[p]
           k == proc'[p]
           b == o.alert
<1>1. o.pc \notin {"idle", "scan"} /\ Becomes(p, k) /\ ~SendFails(p)
  BY HandlerWaits DEF SendFails, Fail, Typed, TypeOK
<1>2. /\ Home[p] = i /\ Proper(o) /\ b \in Alerts /\ o.card \in Cards \cup {NoCard}
      /\ engine \in [Instances -> [Alerts -> Entries]]
      /\ cards \in [Alerts -> Cards \cup {NoCard}]
  BY <1>1, HomeAssumption, GoroutinesProper DEF Typed, TypeOK, Proper, Busy, Jobs
<1>3. \A q \in Procs \ {p} : proc'[q] = proc[q]
  BY <1>1, OnlyOne
<1> SUFFICES ASSUME NEW a \in Alerts, NEW x \in Nat \ {None}
             PROVE  /\ engine'[i][a] # NoEntry /\ engine'[i][a].ref = x => Knows(i, a, x)
                    /\ Bears(cards'[a], x) => Knows(i, a, x)
                    /\ Carries(k, a, x) => Knows(i, a, x)
  BY <1>3, LearnsNothingIf
<1>4. /\ engine[i][a] # NoEntry /\ engine[i][a].ref = x => Knows(i, a, x)
      /\ Bears(cards[a], x) => Knows(i, a, x)
      /\ Carries(o, a, x) => Knows(i, a, x)
  BY DEF Knows
<1>5. /\ Carries(Finish(o), a, x) => Carries(o, a, x)
      /\ Carries(Close(o), a, x) => Carries(o, a, x)
      /\ Carries(Notify(o), a, x) => Carries(o, a, x)
      /\ ~Carries(Idle, a, x)
  BY <1>1, <1>2, EndCarries, IdleProper, RestCarriesNone DEF Idle
<1>6. CASE GetAlertIdentity(p) \/ RefreshTick(p) \/ ReadCard(p)
  <2> DEFINE early == [o EXCEPT !.late = FALSE]
             refresh == [o EXCEPT !.pc = "refresh"]
             read == [o EXCEPT !.pc = "read"]
             c == cards[b]
             write == [o EXCEPT !.pc = "write", !.card = c]
  <2>1. UNCHANGED <<engine, cards>>
    BY <1>6 DEF GetAlertIdentity, RefreshTick, ReadCard, engineVars, storeVars
  <2>2. k \in {Finish(early), Finish(o), Idle, refresh, read, write}
    <3>1. \/ Becomes(p, Finish(early)) \/ Becomes(p, Finish(o)) \/ Becomes(p, Idle)
          \/ Becomes(p, refresh) \/ Becomes(p, read) \/ Becomes(p, write)
      BY <1>6 DEF GetAlertIdentity, RefreshTick, ReadCard
    <3> QED
      BY <3>1, OnlyOne
  <2> HIDE DEF c
  <2>3. /\ early \in Jobs /\ early.pc = o.pc /\ early.alert = b /\ early.state = o.state
        /\ early.card = o.card
        /\ early.why = o.why /\ early.todo = o.todo /\ early.repeats = o.repeats
        /\ early.ref = o.ref
    BY <1>2 DEF Proper, Jobs
  <2>4. /\ refresh.alert = b /\ refresh.ref = o.ref /\ refresh.card = o.card
        /\ read.alert = b /\ read.ref = o.ref /\ read.card = o.card
        /\ write.alert = b /\ write.ref = o.ref /\ write.card = c
    BY <1>2 DEF Proper, Jobs
  <2> HIDE DEF early, refresh, read, write
  <2>5. Carries(Finish(early), a, x) => Carries(o, a, x)
    <3>1. Proper(early)
      BY <1>1, <1>2, <2>3 DEF Proper, Busy, Placed
    <3> QED
      BY <1>1, <2>3, <3>1, EndCarries DEF Carries
  <2>6. Carries(k, a, x) => Carries(o, a, x) \/ Bears(cards[a], x)
    BY <1>5, <2>2, <2>4, <2>5 DEF Carries, c
  <2> QED
    BY <1>4, <2>1, <2>6
<1>7. ASSUME NEW j \in Jobs, j.pc = o.pc, j.alert = b, j.state = o.state, j.why = o.why,
             j.todo = o.todo, j.repeats = o.repeats, j.ref = o.ref, k = Seed(j),
             Bears(j.card, x) => Bears(o.card, x) \/ Bears(cards[b], x),
             o.pc \notin {"seed", "refsWrite", "ttlWrite"} \/ j.card # NoCard
      PROVE  Carries(k, a, x) => Carries(o, a, x) \/ Bears(cards[a], x)
  <2>1. Proper(j) /\ j.pc \notin {"idle", "scan"}
    BY <1>1, <1>2, <1>7 DEF Proper, Busy, Placed
  <2> QED
    BY <1>7, <2>1, EndCarries DEF Carries
<1>8. ASSUME NEW e, SetEntry(p, b, e)
      PROVE  engine'[i][a] = IF a = b THEN e ELSE engine[i][a]
  BY <1>2, <1>8 DEF SetEntry
<1>9. ASSUME NEW c \in Cards, Put(b, c), Bears(c, x) => Bears(o.card, x)
      PROVE  Bears(cards'[a], x) => Knows(i, a, x)
  BY <1>2, <1>4, <1>9, PutBears DEF Carries
<1>10. CASE WriteCard(p)
  <2> DEFINE c == Written(o)
             n == AllowNotify(o.card, o.state)
             next == [o EXCEPT !.card = c, !.notify = n]
             again == [o EXCEPT !.pc = "conflict", !.card = NoCard]
  <2>1. UNCHANGED engine /\ o.pc = "write"
    BY <1>10 DEF WriteCard, engineVars
  <2>2. (Put(b, c) /\ k = Seed(next)) \/ (UNCHANGED cards /\ k = again)
    <3>1. (Put(b, c) /\ Becomes(p, Seed(next))) \/ (UNCHANGED cards /\ Becomes(p, again))
      BY <1>10 DEF WriteCard, Fail, Typed, TypeOK
    <3> QED
      BY <3>1, OnlyOne
  <2>3. c \in Cards /\ n \in BOOLEAN /\ (Bears(c, x) => Bears(o.card, x))
    BY <1>1, <1>2, <2>1, WrittenTypes, WrittenBears DEF AllowNotify, Proper
  <2> HIDE DEF c, n
  <2>4. c # NoCard
    BY <2>3 DEF Cards, CardStates, NoCard
  <2>5. /\ next \in Jobs /\ next.pc = o.pc /\ next.alert = b /\ next.state = o.state
        /\ next.card = c
        /\ next.why = o.why /\ next.todo = o.todo /\ next.repeats = o.repeats /\ next.ref = o.ref
    BY <1>2, <2>3 DEF Proper, Jobs
  <2>6. again.card = NoCard /\ again.ref = o.ref /\ again.alert = b
    BY <1>2 DEF Proper, Jobs
  <2> HIDE DEF next, again
  <2>7. CASE Put(b, c) /\ k = Seed(next)
    BY <1>4, <1>7, <1>9, <2>1, <2>3, <2>4, <2>5, <2>7
  <2>8. CASE UNCHANGED cards /\ k = again
    BY <1>4, <2>1, <2>6, <2>8 DEF Carries, Bears
  <2> QED
    BY <2>2, <2>7, <2>8
<1>11. CASE ResolveConflict(p)
  <2> DEFINE c == cards[b]
             next == [o EXCEPT !.notify = FALSE, !.card = c]
  <2>1. UNCHANGED <<engine, cards>> /\ k = Seed(next) /\ o.pc = "conflict"
    BY <1>11, OnlyOne DEF ResolveConflict, engineVars, storeVars
  <2>2. c \in Cards \cup {NoCard}
    BY <1>2
  <2> HIDE DEF c
  <2>3. /\ next \in Jobs /\ next.pc = o.pc /\ next.alert = b /\ next.state = o.state
        /\ next.card = c
        /\ next.why = o.why /\ next.todo = o.todo /\ next.repeats = o.repeats /\ next.ref = o.ref
    BY <1>2, <2>2 DEF Proper, Jobs
  <2> HIDE DEF next
  <2> QED
    BY <1>4, <1>7, <2>1, <2>3 DEF c
<1>12. CASE SeedExternalRefs(p)
  <2> DEFINE e == [Entry(p, b) EXCEPT !.ref = o.card.ref]
  <2>1. UNCHANGED cards /\ k = Notify(o) /\ o.pc = "seed" /\ o.card # NoCard
    BY <1>2, <1>12, OnlyOne DEF SeedExternalRefs, storeVars, Proper, Placed
  <2>2. UNCHANGED engine \/ (HasEntry(p, b) /\ SetEntry(p, b, e))
    BY <1>12 DEF SeedExternalRefs
  <2>3. HasEntry(p, b) => e.ref = o.card.ref
    BY <1>2, EntryTypes DEF HasEntry, Entries
  <2> HIDE DEF e
  <2>4. engine'[i][a] = engine[i][a] \/ (a = b /\ engine'[i][a].ref = o.card.ref)
    BY <1>8, <2>2, <2>3
  <2> QED
    BY <1>4, <1>5, <2>1, <2>4 DEF Carries, Bears
<1>13. CASE PrepareNotification(p)
  <2> DEFINE ref == IF HasEntry(p, b) THEN Entry(p, b).ref ELSE None
             next == [o EXCEPT !.pc = "send", !.ref = ref]
  <2>1. UNCHANGED <<engine, cards>> /\ (k = Close(o) \/ k = next)
    <3>1. UNCHANGED <<engine, cards>> /\ (Becomes(p, Close(o)) \/ Becomes(p, next))
      BY <1>13 DEF PrepareNotification, engineVars, storeVars
    <3> QED
      BY <3>1, OnlyOne
  <2>2. ref = x => engine[i][b] # NoEntry /\ engine[i][b].ref = x
    BY <1>2 DEF HasEntry, Entry
  <2> HIDE DEF ref
  <2>3. next.ref = ref /\ next.alert = b /\ next.card = o.card
    BY <1>2 DEF Proper, Jobs
  <2> HIDE DEF next
  <2> QED
    BY <1>4, <1>5, <2>1, <2>2, <2>3 DEF Carries
<1>14. CASE CaptureDeliveryEffects(p)
  <2> DEFINE f == Entry(p, b)
             ref == IF o.ref = None THEN f.ref ELSE o.ref
             e == [f EXCEPT !.told = TRUE, !.ref = ref]
             next == [o EXCEPT !.pc = "refs"]
  <2>1. UNCHANGED cards /\ (k = Close(o) \/ k = next)
    <3>1. UNCHANGED cards /\ (Becomes(p, Close(o)) \/ Becomes(p, next))
      BY <1>14 DEF CaptureDeliveryEffects, storeVars
    <3> QED
      BY <3>1, OnlyOne
  <2>2. UNCHANGED engine \/ (f # NoEntry /\ SetEntry(p, b, e))
    BY <1>2, <1>14, EntryTypes DEF CaptureDeliveryEffects, HasEntry, Entries
  <2>3. ref = x => f.ref = x \/ o.ref = x
    OBVIOUS
  <2> HIDE DEF ref
  <2>4. f # NoEntry => e.ref = ref
    BY <1>2, EntryTypes DEF Entries
  <2>5. f = engine[i][b]
    BY <1>2 DEF Entry
  <2> HIDE DEF e, f
  <2>6. engine'[i][a] = engine[i][a] \/ (a = b /\ f # NoEntry /\ engine'[i][a].ref = ref)
    BY <1>8, <2>2, <2>4
  <2>7. next.alert = b /\ next.ref = o.ref /\ next.card = o.card
    BY <1>2 DEF Proper, Jobs
  <2> HIDE DEF next
  <2> QED
    BY <1>4, <1>5, <2>1, <2>3, <2>5, <2>6, <2>7 DEF Carries
<1>15. CASE WriteRefs(p)
  <2> DEFINE next == [o EXCEPT !.pc = "refs", !.card = NoCard, !.tries = @ + 1]
  <2>1. UNCHANGED engine /\ o.card \in Cards
    BY <1>2, <1>15 DEF WriteRefs, engineVars, Proper, Placed
  <2>2. (Put(b, o.card) /\ k = Finish(o)) \/ (UNCHANGED cards /\ k = next)
    <3>1. (Put(b, o.card) /\ Becomes(p, Finish(o))) \/ (UNCHANGED cards /\ Becomes(p, next))
      BY <1>15 DEF WriteRefs, Fail, Typed, TypeOK
    <3> QED
      BY <3>1, OnlyOne
  <2>3. next.card = NoCard /\ next.ref = o.ref /\ next.alert = b
    BY <1>2 DEF Proper, Jobs
  <2> HIDE DEF next
  <2>4. CASE Put(b, o.card) /\ k = Finish(o)
    BY <1>4, <1>5, <1>9, <2>1, <2>4
  <2>5. CASE UNCHANGED cards /\ k = next
    BY <1>4, <2>1, <2>3, <2>5 DEF Carries, Bears
  <2> QED
    BY <2>2, <2>4, <2>5
<1>16. CASE DeleteCard(p) \/ DeleteTick(p) \/ RemoveAlertState(p)
  <2>1. cards' = cards \/ cards' = [cards EXCEPT ![b] = NoCard]
    BY <1>16 DEF DeleteCard, DeleteTick, RemoveAlertState, storeVars
  <2>2. UNCHANGED engine \/ SetEntry(p, b, NoEntry)
    BY <1>16 DEF DeleteCard, DeleteTick, RemoveAlertState, engineVars, Removed
  <2>3. k = Finish(o) \/ \E pc : k = [o EXCEPT !.pc = pc]
    <3>1. Becomes(p, Finish(o)) \/ \E pc : Becomes(p, [o EXCEPT !.pc = pc])
      BY <1>16 DEF DeleteCard, DeleteTick, RemoveAlertState
    <3> QED
      BY <3>1, OnlyOne
  <2>4. Carries(k, a, x) => Carries(o, a, x)
    BY <1>2, <1>5, <2>3 DEF Carries, Proper, Jobs
  <2>5. Bears(cards'[a], x) => Bears(cards[a], x)
    BY <1>2, <2>1 DEF Bears
  <2>6. engine'[i][a] = engine[i][a] \/ engine'[i][a] = NoEntry
    BY <1>8, <2>2
  <2> QED
    BY <1>4, <2>4, <2>5, <2>6
<1>17. CASE ReadExpired(p)
  <2> DEFINE c == cards[b]
             next == [o EXCEPT !.pc = "ttlWrite", !.card = c, !.life = c.life]
  <2>1. UNCHANGED <<engine, cards>> /\ (k = Idle \/ k = next)
    <3>1. UNCHANGED <<engine, cards>> /\ (Becomes(p, Idle) \/ Becomes(p, next))
      BY <1>17 DEF ReadExpired, engineVars, storeVars
    <3> QED
      BY <3>1, OnlyOne
  <2> HIDE DEF c
  <2>2. next.card = c /\ next.ref = o.ref /\ next.alert = b
    BY <1>2 DEF Proper, Jobs
  <2> HIDE DEF next
  <2> QED
    BY <1>4, <1>5, <2>1, <2>2 DEF Carries, c
<1>18. CASE ResolveExpired(p)
  <2> DEFINE c == [o.card EXCEPT !.State = "resolved"]
             next == [o EXCEPT !.card = c]
  <2>1. UNCHANGED engine /\ o.card \in Cards /\ o.card # NoCard
    BY <1>2, <1>18 DEF ResolveExpired, engineVars, Proper, Placed
  <2>2. (Put(b, c) /\ k = Seed(next)) \/ (UNCHANGED cards /\ k = Idle)
    <3>1. (Put(b, c) /\ Becomes(p, Seed(next))) \/ (UNCHANGED cards /\ Becomes(p, Idle))
      BY <1>18, Zenon DEF ResolveExpired
    <3> QED
      BY <3>1, OnlyOne
  <2>3. c \in Cards /\ c # NoCard /\ c.ref = o.card.ref /\ c.map = o.card.map
    BY <2>1 DEF Cards, CardStates, NoCard
  <2> HIDE DEF c
  <2>4. Bears(c, x) => Bears(o.card, x)
    BY <2>1, <2>3 DEF Bears
  <2>5. /\ next \in Jobs /\ next.pc = o.pc /\ next.alert = b /\ next.state = o.state
        /\ next.card = c
        /\ next.why = o.why /\ next.todo = o.todo /\ next.repeats = o.repeats /\ next.ref = o.ref
    BY <1>2, <2>3 DEF Proper, Jobs
  <2> HIDE DEF next
  <2>6. CASE Put(b, c) /\ k = Seed(next)
    BY <1>4, <1>7, <1>9, <2>1, <2>3, <2>4, <2>5, <2>6
  <2>7. CASE UNCHANGED cards /\ k = Idle
    BY <1>4, <1>5, <2>1, <2>7
  <2> QED
    BY <2>2, <2>6, <2>7
<1>19. CASE Mute(p)
  <2>1. UNCHANGED <<engine, cards>> /\ k = Close(o)
    BY <1>19, OnlyOne DEF Mute, engineVars, storeVars
  <2> QED
    BY <1>4, <1>5, <2>1 DEF Carries
<1> QED
  BY <1>1, <1>6, <1>10, <1>11, <1>12, <1>13, <1>14, <1>15, <1>16, <1>17, <1>18, <1>19
  DEF Step

\* Who shares a map with a card is at work on the card's alert.
LEMMA SharersWork ==
  ASSUME Typed, NEW i \in Instances, Owned(i), NEW p \in Procs, ReadRefs(p),
         NEW q \in Procs \ {p}, proc'[q] # proc[q]
  PROVE  proc[q].alert = proc[p].alert
<1> DEFINE o == proc[p]
           h == proc[q]
           c == cards[o.alert]
<1>1. o.alert \in Alerts /\ c # NoCard /\ c.map # None /\ h.card # NoCard /\ h.card.map = c.map
  BY ReadRefsShape
<1>2. h.alert \in Alerts
  BY <1>1, GoroutinesProper DEF Typed, Proper, Busy, Placed, Idle
<1>3. c.map \in Nat \ {None}
  BY <1>1 DEF Typed, TypeOK, Cards, Reference
<1>4. Knows(i, o.alert, c.map) /\ Knows(i, h.alert, c.map)
  BY <1>1 DEF Knows, Carries, Bears
<1> QED
  BY <1>1, <1>2, <1>3, <1>4 DEF Owned

\* So they learn nothing of another alert from it.
LEMMA ReadRefsLearns ==
  ASSUME Typed, NEW i \in Instances, Owned(i), NEW p \in Procs, ReadRefs(p)
  PROVE  LearnsNothing(i)
<1> DEFINE o == proc[p]
           k == proc'[p]
           b == o.alert
           c == cards[b]
<1>1. /\ o.pc = "refs" /\ Proper(o) /\ b \in Alerts /\ UNCHANGED engine
      /\ \/ k = Finish(o)
         \/ c # NoCard /\ k.alert = b /\ k.ref = o.ref /\ k.card.ref = o.ref /\ k.card.map \in {c.map, o.ref}
      /\ \A a \in Alerts \ {b} : cards'[a] = cards[a]
      /\ cards'[b] = c \/ (c # NoCard /\ cards'[b].ref = o.ref /\ cards'[b].map \in {c.map, o.ref})
  BY ReadRefsShape
<1> SUFFICES ASSUME NEW a \in Alerts, NEW x \in Nat \ {None}, Knows(i, a, x)'
             PROVE  Knows(i, a, x)
  BY DEF LearnsNothing
<1>2. /\ engine[i][a] # NoEntry /\ engine[i][a].ref = x => Knows(i, a, x)
      /\ Bears(cards[a], x) => Knows(i, a, x)
      /\ \A q \in Procs : Carries(proc[q], a, x) => Knows(i, a, x)
  BY DEF Knows
<1>3. CASE engine'[i][a] # NoEntry /\ engine'[i][a].ref = x
  BY <1>1, <1>2, <1>3
<1>4. CASE Bears(cards'[a], x)
  BY <1>1, <1>2, <1>4 DEF Bears, Carries
<1>5. CASE Carries(k, a, x)
  <2>1. CASE k = Finish(o)
    BY <1>1, <1>2, <1>5, <2>1, EndCarries
  <2>2. CASE /\ c # NoCard /\ k.alert = b /\ k.ref = o.ref
             /\ k.card.ref = o.ref /\ k.card.map \in {c.map, o.ref}
    BY <1>2, <1>5, <2>2 DEF Bears, Carries
  <2> QED
    BY <1>1, <2>1, <2>2
<1>6. ASSUME NEW q \in Procs \ {p}, Carries(proc'[q], a, x) PROVE Knows(i, a, x)
  <2>1. CASE proc'[q] = proc[q]
    BY <1>2, <1>6, <2>1
  <2>2. CASE proc'[q] # proc[q]
    <3>1. proc[q].alert = b
      BY <2>2, SharersWork
    <3>2. LET h == proc[q]
              g == proc'[q]
          IN  /\ h.card # NoCard /\ g.card.ref = o.ref /\ g.card.map = h.card.map
              /\ g.ref = h.ref /\ g.alert = h.alert
      BY <2>2, ReadRefsShape
    <3> QED
      BY <1>2, <1>6, <3>1, <3>2 DEF Bears, Carries
  <2> QED
    BY <2>1, <2>2
<1> QED
  BY <1>3, <1>4, <1>5, <1>6 DEF Knows

\* A message gives a reference that nobody has yet to the alert it is about.
LEMMA SendOwned ==
  ASSUME Typed, NEW i \in Instances, Owned(i), NEW p \in Procs, Send(p)
  PROVE  Owned(i)'
<1> DEFINE o == proc[p]
           k == proc'[p]
           ref == ResultRef(o)
           next == [o EXCEPT !.pc = "effects", !.ref = ref]
<1>1. Proper(o) /\ o.alert \in Alerts /\ UNCHANGED <<engine, cards>> /\ sends \in Nat
  <2>1. UNCHANGED <<engine, cards>> /\ o.pc = "send"
    BY DEF Send, engineVars, storeVars
  <2>2. Proper(o) /\ sends \in Nat
    BY GoroutinesProper DEF Typed, TypeOK, Reference
  <2> QED
    BY <2>1, <2>2 DEF Proper, Busy
<1>2. k = next /\ \A q \in Procs \ {p} : proc'[q] = proc[q]
  BY OnlyOne DEF Send
<1>3. \/ ref \in {None, o.ref} /\ sends' \in {sends, sends + 1}
      \/ ref = sends + 1 /\ sends' = sends + 1
  BY DEF Send, ResultRef, Silent
<1> HIDE DEF ref
<1>4. k.alert = o.alert /\ k.card = o.card /\ k.ref = ref
  BY <1>1, <1>2 DEF Proper, Jobs
<1> HIDE DEF next
<1>5. ASSUME NEW a \in Alerts, NEW x \in Nat \ {None}, Knows(i, a, x)'
      PROVE  Knows(i, a, x) \/ (x = sends + 1 /\ sends' = sends + 1 /\ a = o.alert)
  <2>1. CASE (engine'[i][a] # NoEntry /\ engine'[i][a].ref = x) \/ Bears(cards'[a], x)
    BY <1>1, <2>1 DEF Knows
  <2>2. CASE Carries(k, a, x)
    BY <1>3, <1>4, <2>2 DEF Knows, Carries
  <2>3. CASE \E q \in Procs \ {p} : Carries(proc'[q], a, x)
    BY <1>2, <2>3 DEF Knows
  <2> QED
    BY <1>5, <2>1, <2>2, <2>3 DEF Knows
<1> SUFFICES ASSUME NEW a \in Alerts, NEW x \in Nat \ {None}, Knows(i, a, x)'
             PROVE  x <= sends' /\ \A b \in Alerts : Knows(i, b, x)' => b = a
  BY DEF Owned
<1>6. \A b \in Alerts : Knows(i, b, x) => x <= sends /\ \A d \in Alerts : Knows(i, d, x) => d = b
  BY DEF Owned
<1>7. CASE Knows(i, a, x)
  <2>1. x <= sends /\ x # sends + 1
    BY <1>1, <1>6, <1>7
  <2>2. ASSUME NEW b \in Alerts, Knows(i, b, x)' PROVE b = a
    BY <1>5, <1>6, <1>7, <2>1, <2>2
  <2> QED
    BY <1>1, <1>3, <2>1, <2>2
<1>8. CASE x = sends + 1 /\ sends' = sends + 1 /\ a = o.alert
  <2>1. ASSUME NEW b \in Alerts, Knows(i, b, x)' PROVE b = a
    BY <1>1, <1>5, <1>6, <1>8, <2>1
  <2> QED
    BY <1>1, <1>8, <2>1
<1> QED
  BY <1>5, <1>7, <1>8

-----------------------------------------------------------------------------
(* The invariant.                                                          *)

\* Who does not work on an alert follows it if it is settled.
LEMMA OffDuty ==
  ASSUME NEW a \in Alerts, NEW j, a \notin WorksOn(j), NEW v
  PROVE  Follows(j, a, v) <=> Settled(v)
BY DEF WorksOn, Follows

\* Who meets another at work on an alert notes it.
LEMMA OverlapNoted ==
  ASSUME NEW p \in Procs, NEW j, NoteOverlap(p, j), NEW q \in Procs \ {p},
         NEW a \in WorksOn(j), a \in WorksOn(proc[q])
  PROVE  a \in overlaps'
BY DEF NoteOverlap

\* An alert stays in order when one goroutine, which goes for the alerts held, keeps its own
\* in order and passes the others by.
LEMMA TendedOn ==
  ASSUME NEW i, NEW p \in Procs, NEW a \in Alerts, Tended(i, a), NEW held,
         \A q \in Procs \ {p} : /\ WorksOn(proc'[q]) = WorksOn(proc[q])
                                /\ a \in held => a \notin WorksOn(proc[q])
                                /\ a \notin WorksOn(proc[p]) /\ Follows(proc[q], a, View(i, a)')
                                     => Follows(proc'[q], a, View(i, a)'),
         a \in WorksOn(proc'[p]) => a \in held,
         Past(View(i, a)) => Keeps(p, i, a),
         Past(View(i, a)) /\ Follows(proc[p], a, View(i, a)) => Past(View(i, a)'),
         a \notin WorksOn(proc[p]) /\ a \notin held => Passes(i, a)
  PROVE  Tended(i, a)'
<1> DEFINE v == View(i, a)
           w == View(i, a)'
           o == proc[p]
           k == proc'[p]
<1>1. /\ Past(v)
      /\ \A q, r \in Procs : a \in WorksOn(proc[q]) /\ a \in WorksOn(proc[r]) => q = r
      /\ \A q \in Procs : a \in WorksOn(proc[q]) => Follows(proc[q], a, v)
      /\ (\A q \in Procs : a \notin WorksOn(proc[q])) => Settled(v)
  BY DEF Tended
<1>2. CASE a \in WorksOn(o) \/ a \in held
  <2>1. \A q \in Procs \ {p} : a \notin WorksOn(proc[q])
    BY <1>1, <1>2
  <2>2. Follows(o, a, v)
    BY <1>1, <2>1, OffDuty
  <2>3. Past(w) /\ Follows(k, a, w)
    BY <1>1, <2>2 DEF Keeps
  <2>4. \A q \in Procs \ {p} : a \notin WorksOn(proc'[q])
    BY <2>1
  <2>5. a \notin WorksOn(k) => Settled(w)
    BY <2>3, OffDuty
  <2>6. \A q \in Procs : a \in WorksOn(proc'[q]) => q = p
    BY <2>4
  <2> QED
    BY <2>3, <2>5, <2>6 DEF Tended
<1>3. CASE a \notin WorksOn(o) /\ a \notin held
  <2>1. Passes(i, a) /\ a \notin WorksOn(k)
    BY <1>3
  <2>2. Past(w)
    BY <1>1, <2>1 DEF Passes
  <2>3. \A q \in Procs : a \in WorksOn(proc'[q]) <=> a \in WorksOn(proc[q])
    BY <1>3, <2>1
  <2>4. ASSUME NEW q \in Procs, a \in WorksOn(proc'[q]) PROVE Follows(proc'[q], a, w)
    <3>1. q # p /\ Follows(proc[q], a, v)
      BY <1>1, <2>1, <2>3, <2>4
    <3>2. Follows(proc[q], a, w)
      BY <2>1, <3>1 DEF Passes
    <3> QED
      BY <1>3, <3>1, <3>2
  <2>5. (\A q \in Procs : a \notin WorksOn(proc'[q])) => Settled(w)
    BY <1>1, <2>1, <2>3 DEF Passes
  <2>6. \A q, r \in Procs : a \in WorksOn(proc'[q]) /\ a \in WorksOn(proc'[r]) => q = r
    BY <1>1, <2>3
  <2> QED
    BY <2>2, <2>4, <2>5, <2>6 DEF Tended
<1> QED
  BY <1>2, <1>3

\* An alert that looks the same is passed by.
LEMMA SamePasses ==
  ASSUME NEW i, NEW a, View(i, a)' = View(i, a)
  PROVE  Passes(i, a)
BY DEF Passes

\* The case of a goroutine that goes on, noting overlaps.
LEMMA TendedIfKept ==
  ASSUME Typed, NEW i, NEW p \in Procs, NEW a \in Alerts \ overlaps', Tended(i, a),
         Becomes(p, proc'[p]),
         Past(View(i, a)) => Keeps(p, i, a),
         Past(View(i, a)) /\ Follows(proc[p], a, View(i, a)) => Past(View(i, a)'),
         a \notin WorksOn(proc[p]) /\ a \notin WorksOn(proc'[p]) => Passes(i, a)
  PROVE  Tended(i, a)'
<1> DEFINE held == WorksOn(proc'[p])
<1>1. NoteOverlap(p, proc'[p]) /\ \A q \in Procs \ {p} : proc'[q] = proc[q]
  BY OnlyOne DEF Becomes
<1>2. \A q \in Procs \ {p} : a \in held => a \notin WorksOn(proc[q])
  BY <1>1, OverlapNoted
<1>3. \A q \in Procs \ {p} : WorksOn(proc'[q]) = WorksOn(proc[q])
  BY <1>1
<1> HIDE DEF held
<1> QED
  BY <1>1, <1>2, <1>3, TendedOn DEF held

\* A handler follows every alert, its own and the others.
LEMMA HandlerKeeps ==
  ASSUME Typed, Typed', NEW i \in Instances, Instances = {i}, NEW p \in Procs, Step(p),
         UNCHANGED errors,
         ~NextDecision(p), ~NextRepeat(p), ~EndTick(p), NEW a \in Alerts
  PROVE  /\ Keeps(p, i, a)
         /\ Past(View(i, a)) /\ Follows(proc[p], a, View(i, a)) => Past(View(i, a)')
<1> DEFINE o == proc[p]
           k == proc'[p]
<1>1. errors # errors + 1
  BY DEF Typed, TypeOK
<1>2. ~SendFails(p)
  BY <1>1 DEF SendFails, Fail
<1>3. Past(View(i, a)) /\ Follows(o, a, View(i, a)) => Past(View(i, a)')
  <2>1. CASE ~Send(p) /\ ~Mute(p)
    BY <2>1, HistoryKept
  <2>2. CASE (Send(p) \/ Mute(p)) /\ a = o.alert
    BY <2>2, SendFollows, MuteFollows
  <2>3. CASE (Send(p) \/ Mute(p)) /\ a # o.alert
    BY <2>3, ElsewhereSame
  <2> QED
    BY <2>1, <2>2, <2>3
<1>4. CASE a = o.alert
  <2>1. CASE GetAlertIdentity(p) \/ RefreshTick(p) \/ ReadCard(p)
    BY <1>3, <1>4, <2>1, LookupFollows
  <2>2. CASE WriteCard(p)
    BY <1>3, <1>4, <2>2, WriteFollows
  <2>3. CASE ResolveConflict(p) \/ SeedExternalRefs(p)
    BY <1>3, <1>4, <2>3, SeedFollows
  <2>4. CASE Mute(p) \/ PrepareNotification(p)
    BY <1>3, <1>4, <2>4, MuteFollows, PrepareFollows
  <2>5. CASE Send(p)
    BY <1>3, <1>4, <2>5, SendFollows
  <2>6. CASE CaptureDeliveryEffects(p)
    BY <1>3, <1>4, <2>6, CaptureFollows
  <2>7. CASE ReadRefs(p) \/ WriteRefs(p)
    BY <1>3, <1>4, <2>7, RefFollows
  <2>8. CASE DeleteCard(p) \/ DeleteTick(p) \/ RemoveAlertState(p)
    BY <1>3, <1>4, <2>8, DeletionFollows
  <2>9. CASE ReadExpired(p) \/ ResolveExpired(p)
    BY <1>3, <1>4, <2>9, ExpiryFollows
  <2> QED
    BY <1>2, <2>1, <2>2, <2>3, <2>4, <2>5, <2>6, <2>7, <2>8, <2>9 DEF Step
<1>5. CASE a # o.alert
  <2>1. Waits(o, k)
    <3>1. CASE ReadRefs(p)
      <4>1. Proper(o) /\ o.pc = "refs"
        BY <3>1, ReadRefsShape
      <4>2. Waits(o, Finish(o))
        BY <4>1, FinishShape DEF Waits
      <4>3. k = Finish(o) \/ (k.alert = o.alert /\ k.todo = o.todo /\ k.repeats = o.repeats)
        BY <3>1, ReadRefsShape
      <4> QED
        BY <4>2, <4>3 DEF Waits
    <3> QED
      BY <3>1, HandlerWaits
  <2>2. View(i, a)' = View(i, a)
    BY <1>5, ElsewhereSame
  <2>3. k.alert # a /\ k.todo = o.todo /\ k.repeats = o.repeats
    BY <1>5, <2>1, AlertsAssumption DEF Waits
  <2>4. Keeps(p, i, a)
    BY <1>5, <2>2, <2>3, FollowsElsewhere DEF Keeps
  <2> QED
    BY <1>3, <2>4
<1> QED
  BY <1>4, <1>5

\* Persisting a reference keeps every alert in order, also those of the goroutines
\* that share the card's map.
LEMMA ReadRefsTended ==
  ASSUME Typed, Typed', NEW i \in Instances, Instances = {i}, Owned(i), NEW p \in Procs,
         ReadRefs(p),
         NEW a \in Alerts \ overlaps', Tended(i, a)
  PROVE  Tended(i, a)'
<1> DEFINE o == proc[p]
           held == WorksOn(proc'[p])
<1>1. /\ Step(p) /\ ~NextDecision(p) /\ ~NextRepeat(p) /\ ~EndTick(p)
      /\ UNCHANGED errors /\ NoteOverlap(p, proc'[p])
  <2>1. o.pc = "refs" /\ UNCHANGED errors /\ NoteOverlap(p, proc'[p])
    BY ReadRefsShape
  <2> QED
    BY <2>1 DEF Step, NextDecision, NextRepeat, EndTick
<1>2. /\ Keeps(p, i, a)
      /\ Past(View(i, a)) /\ Follows(o, a, View(i, a)) => Past(View(i, a)')
  BY <1>1, HandlerKeeps
<1>3. o.alert \in Alerts
  BY ReadRefsShape
<1>4. a \notin WorksOn(o) => a # o.alert
  BY DEF WorksOn
<1>5. a \notin WorksOn(o) => Passes(i, a)
  BY <1>1, <1>4, ElsewhereSame, SamePasses
<1>6. ASSUME NEW q \in Procs \ {p}
      PROVE  /\ WorksOn(proc'[q]) = WorksOn(proc[q])
             /\ a \in held => a \notin WorksOn(proc[q])
             /\ a \notin WorksOn(o) /\ Follows(proc[q], a, View(i, a)')
                  => Follows(proc'[q], a, View(i, a)')
  <2>1. a \in held => a \notin WorksOn(proc[q])
    BY <1>1, OverlapNoted
  <2>2. CASE proc'[q] = proc[q]
    BY <2>1, <2>2
  <2>3. CASE proc'[q] # proc[q]
    <3>1. proc[q].alert = o.alert
      BY <2>3, SharersWork
    <3>2. proc'[q].alert = proc[q].alert /\ proc'[q].todo = proc[q].todo /\ proc'[q].repeats = proc[q].repeats
      BY <2>3, ReadRefsShape
    <3>3. WorksOn(proc'[q]) = WorksOn(proc[q])
      BY <3>2 DEF WorksOn
    <3>4. a \notin WorksOn(o) => proc[q].alert # a /\ proc'[q].alert # a
      BY <1>4, <3>1, <3>2
    <3>5. ASSUME a \notin WorksOn(o), NEW w, Follows(proc[q], a, w) PROVE Follows(proc'[q], a, w)
      BY <3>2, <3>4, <3>5, FollowsElsewhere
    <3> QED
      BY <2>1, <3>3, <3>5
  <2> QED
    BY <2>2, <2>3
<1>7. a \in WorksOn(proc'[p]) => a \in held
  OBVIOUS
<1> HIDE DEF held
<1> QED
  BY <1>2, <1>5, <1>6, <1>7, TendedOn

\* Choosing the next alert of a tick keeps every alert in order.
LEMMA ChoiceTended ==
  ASSUME Typed, NEW i \in Instances, Instances = {i}, NEW p \in Procs,
         NextDecision(p) \/ NextRepeat(p),
         NEW a \in Alerts \ overlaps', Tended(i, a)
  PROVE  Tended(i, a)'
<1>1. View(i, a)' = View(i, a)
  <2>1. UNCHANGED <<rule, engine, lives, cards, sent>>
    BY DEF NextDecision, NextRepeat, engineVars, storeVars, sendVars
  <2> QED
    BY <2>1, SameView
<1>2. Becomes(p, proc'[p])
  <2>1. \E j : Becomes(p, j)
    BY DEF NextDecision, NextRepeat
  <2> QED
    BY <2>1, OnlyOne
<1>3. Keeps(p, i, a)
  BY ScanFollows
<1> QED
  BY <1>1, <1>2, <1>3, SamePasses, TendedIfKept

\* So does the end of a tick: whom it takes an entry from is at rest.
LEMMA EndTickTended ==
  ASSUME Typed, NEW i \in Instances, Instances = {i}, NEW p \in Procs, EndTick(p),
         NEW a \in Alerts \ overlaps', Tended(i, a)
  PROVE  Tended(i, a)'
<1>1. PICK gone \in SUBSET {b \in Alerts : HasEntry(p, b) /\ Entry(p, b).phase = Inactive} :
        /\ engine' = [engine EXCEPT ![Home[p]] =
             [b \in Alerts |-> IF b \in gone THEN NoEntry ELSE @[b]]]
        /\ NoteOverlap(p, [Idle EXCEPT !.repeats = gone])
  BY DEF EndTick
<1> DEFINE held == WorksOn([Idle EXCEPT !.repeats = gone])
<1>2. proc' = [proc EXCEPT ![p] = Idle] /\ UNCHANGED <<rule, lives, cards, sent>>
  BY DEF EndTick, storeVars, sendVars
<1>3. a \in gone => a \in held
  BY DEF WorksOn, Idle
<1>4. a \notin held => View(i, a)' = View(i, a)
  <2> SUFFICES ASSUME a \notin held PROVE View(i, a)' = View(i, a)
    OBVIOUS
  <2>1. Home[p] = i /\ engine \in [Instances -> [Alerts -> Entries]]
    BY HomeAssumption DEF Typed, TypeOK
  <2>2. engine'[i][a] = engine[i][a]
    BY <1>1, <1>3, <2>1
  <2> QED
    BY <1>2, <2>2, SameView
<1>5. \A q \in Procs \ {p} : a \in held => a \notin WorksOn(proc[q])
  BY <1>1, OverlapNoted
<1>6. \A q \in Procs \ {p} : proc'[q] = proc[q]
  BY <1>2 DEF Typed, TypeOK
<1>7. a \notin WorksOn(proc'[p])
  <2>1. proc'[p] = Idle
    BY <1>2 DEF Typed, TypeOK
  <2> QED
    BY <2>1, AlertsAssumption DEF WorksOn, Idle
<1>8. Keeps(p, i, a)
  BY ScanFollows
<1>9. Past(View(i, a)) => Past(View(i, a)')
  <2>1. Step(p) /\ ~Send(p) /\ ~Mute(p)
    BY DEF Step, EndTick, Send, Mute
  <2> QED
    BY <2>1, HistoryKept
<1> HIDE DEF held
<1>10. \A q \in Procs \ {p} : WorksOn(proc'[q]) = WorksOn(proc[q])
  BY <1>6
<1>11. a \notin held => Passes(i, a)
  BY <1>4, SamePasses
<1> QED
  BY <1>5, <1>6, <1>7, <1>8, <1>9, <1>10, <1>11, TendedOn

\* Every step of a goroutine at work keeps an alert in order that nobody else works on.
LEMMA StepTended ==
  ASSUME Typed, Typed', NEW i \in Instances, Instances = {i}, Owned(i), NEW p \in Procs, Step(p),
         UNCHANGED errors, NEW a \in Alerts \ overlaps', Tended(i, a)
  PROVE  Tended(i, a)'
<1>1. CASE NextDecision(p) \/ NextRepeat(p)
  BY <1>1, ChoiceTended
<1>2. CASE EndTick(p)
  BY <1>2, EndTickTended
<1>3. CASE ReadRefs(p)
  BY <1>3, ReadRefsTended
<1>4. CASE ~NextDecision(p) /\ ~NextRepeat(p) /\ ~EndTick(p) /\ ~ReadRefs(p)
  <2>1. Becomes(p, proc'[p])
    BY <1>4, HandlerWaits
  <2>2. /\ Keeps(p, i, a)
        /\ Past(View(i, a)) /\ Follows(proc[p], a, View(i, a)) => Past(View(i, a)')
    BY <1>4, HandlerKeeps
  <2>3. a \notin WorksOn(proc[p]) => Passes(i, a)
    <3>1. a \notin WorksOn(proc[p]) => a # proc[p].alert
      BY DEF WorksOn
    <3> QED
      BY <1>4, <3>1, ElsewhereSame, SamePasses
  <2> QED
    BY <2>1, <2>2, <2>3, TendedIfKept
<1> QED
  BY <1>1, <1>2, <1>3, <1>4

\* A goroutine at rest works on nothing.
LEMMA AtRest == WorksOn(Idle) = {}
BY AlertsAssumption DEF WorksOn, Idle

\* An event keeps every alert in order that nobody else works on.
LEMMA EventTended ==
  ASSUME Typed, Typed', NEW i \in Instances, Instances = {i}, NEW p \in Workers, NEW b \in Alerts,
         Event(p, b), NEW a \in Alerts \ overlaps', Tended(i, a)
  PROVE  Tended(i, a)'
<1>1. p \in Procs /\ proc[p] = Idle
  <2>1. p \in Procs /\ proc[p].pc = "idle"
    BY DEF Procs, Event
  <2> QED
    BY <2>1, GoroutinesProper DEF Typed, Proper, Placed
<1>2. Follows(Idle, a, View(i, a)) <=> Settled(View(i, a))
  BY RestFollows
<1>3. /\ Past(View(i, a)) => Keeps(p, i, a)
      /\ Past(View(i, a)) /\ Follows(proc[p], a, View(i, a)) => Past(View(i, a)')
  <2>1. CASE a = b
    BY <1>1, <1>2, <2>1, EventFollows
  <2>2. CASE a # b
    <3>1. View(i, a)' = View(i, a) /\ Keeps(p, i, a)
      BY <2>2, EventFollows
    <3> QED
      BY <3>1
  <2> QED
    BY <2>1, <2>2
<1>4. \/ UNCHANGED <<proc, overlaps>> /\ Passes(i, b)
      \/ Becomes(p, proc'[p]) /\ proc'[p].alert = b
  BY EventFollows
<1>5. a # b => Passes(i, a)
  BY EventFollows, SamePasses
<1>6. CASE UNCHANGED <<proc, overlaps>> /\ Passes(i, b)
  <2>1. \A q \in Procs : proc'[q] = proc[q] /\ WorksOn(proc'[q]) = WorksOn(proc[q])
    BY <1>6
  <2>2. a \notin WorksOn(proc'[p])
    BY <1>1, <2>1, AtRest
  <2>3. Passes(i, a)
    BY <1>5, <1>6
  <2> DEFINE held == {}
  <2>4. a \notin held
    OBVIOUS
  <2> HIDE DEF held
  <2> QED
    BY <1>1, <1>3, <2>1, <2>2, <2>3, <2>4, TendedOn
<1>7. CASE Becomes(p, proc'[p]) /\ proc'[p].alert = b
  <2>1. a = b => a \in WorksOn(proc'[p])
    BY <1>7 DEF WorksOn
  <2> QED
    BY <1>1, <1>3, <1>5, <1>7, <2>1, TendedIfKept
<1> QED
  BY <1>4, <1>6, <1>7

\* So do a tick's evaluation and an expired tick's marker.
LEMMA StartTended ==
  ASSUME Typed, Typed', NEW i \in Instances, Instances = {i}, NEW p \in Procs,
         \/ p \in Tickers /\ Tick(p)
         \/ p \in Expirers /\ \E b \in Alerts : TakeMarker(p, b),
         NEW a \in Alerts \ overlaps', Tended(i, a)
  PROVE  Tended(i, a)'
<1>1. CASE p \in Tickers /\ Tick(p)
  <2>1. proc[p] = Idle
    <3>1. proc[p].pc = "idle"
      BY <1>1 DEF Tick
    <3> QED
      BY <3>1, GoroutinesProper DEF Typed, Proper, Placed
  <2>2. Follows(Idle, a, View(i, a)) <=> Settled(View(i, a))
    BY RestFollows
  <2>3. /\ Past(View(i, a)) => Keeps(p, i, a)
        /\ Past(View(i, a)) /\ Settled(View(i, a)) => Past(View(i, a)')
        /\ Becomes(p, proc'[p]) /\ (a \in WorksOn(proc'[p]) \/ Passes(i, a))
    BY <1>1, TickFollows
  <2> QED
    BY <2>1, <2>2, <2>3, TendedIfKept
<1>2. CASE p \in Expirers /\ \E b \in Alerts : TakeMarker(p, b)
  <2>1. Becomes(p, proc'[p]) /\ View(i, a)' = View(i, a) /\ Keeps(p, i, a)
    BY <1>2, MarkerFollows
  <2> QED
    BY <2>1, SamePasses, TendedIfKept
<1> QED
  BY <1>1, <1>2

\* Who knows a reference knows it for one alert only, whatever a goroutine does.
LEMMA StepOwned ==
  ASSUME Typed, Typed', NEW i \in Instances, Instances = {i}, Owned(i), NEW p \in Procs,
         \/ Step(p) /\ UNCHANGED errors
         \/ p \in Workers /\ \E a \in Alerts : Event(p, a)
         \/ p \in Tickers /\ Tick(p)
         \/ p \in Expirers /\ \E a \in Alerts : TakeMarker(p, a)
  PROVE  Owned(i)'
<1>1. CASE Send(p)
  BY <1>1, SendOwned
<1>2. CASE ReadRefs(p)
  <2>1. UNCHANGED sends
    BY <1>2, ReadRefsShape
  <2> QED
    BY <1>2, <2>1, ReadRefsLearns, OwnedKept
<1>3. CASE \/ p \in Workers /\ \E a \in Alerts : Event(p, a)
           \/ p \in Tickers /\ Tick(p)
           \/ p \in Expirers /\ \E a \in Alerts : TakeMarker(p, a)
           \/ NextDecision(p) \/ NextRepeat(p) \/ EndTick(p)
  <2>1. UNCHANGED sends
    BY <1>3 DEF Event, Tick, TakeMarker, NextDecision, NextRepeat, EndTick, sendVars
  <2> QED
    BY <1>3, <2>1, StartLearns, OwnedKept
<1>4. CASE /\ Step(p) /\ UNCHANGED errors /\ ~Send(p) /\ ~ReadRefs(p)
           /\ ~NextDecision(p) /\ ~NextRepeat(p) /\ ~EndTick(p)
  <2>1. LearnsNothing(i)
    BY <1>4, HandlerLearns
  <2>2. UNCHANGED sends
    BY <1>4 DEF Step, GetAlertIdentity, RefreshTick, ReadCard, WriteCard, ResolveConflict,
       SeedExternalRefs, Mute, PrepareNotification, SendFails, CaptureDeliveryEffects, WriteRefs,
       DeleteCard,
       DeleteTick, RemoveAlertState, ReadExpired, ResolveExpired, sendVars
  <2> QED
    BY <2>1, <2>2, OwnedKept
<1> QED
  BY <1>1, <1>2, <1>3, <1>4

\* What two goroutines once had in hand together stays noted.
LEMMA OverlapsStay ==
  ASSUME Typed, Typed', NEW p \in Procs,
         \/ Step(p) /\ UNCHANGED errors
         \/ p \in Workers /\ \E a \in Alerts : Event(p, a)
         \/ p \in Tickers /\ Tick(p)
         \/ p \in Expirers /\ \E a \in Alerts : TakeMarker(p, a)
  PROVE  overlaps \subseteq overlaps'
<1>1. (\E j : NoteOverlap(p, j)) => overlaps \subseteq overlaps'
  BY DEF NoteOverlap
<1>2. CASE ReadRefs(p)
  BY <1>1, <1>2, ReadRefsShape
<1>3. CASE \/ p \in Workers /\ \E a \in Alerts : Event(p, a)
           \/ p \in Tickers /\ Tick(p)
           \/ p \in Expirers /\ \E a \in Alerts : TakeMarker(p, a)
           \/ NextDecision(p) \/ NextRepeat(p) \/ EndTick(p)
  <2>1. (\E j : NoteOverlap(p, j)) \/ overlaps' = overlaps
    BY <1>3, ZenonT(40) DEF Event, Tick, TakeMarker, NextDecision, NextRepeat, EndTick, Becomes
  <2> QED
    BY <1>1, <2>1
<1>4. CASE /\ Step(p) /\ UNCHANGED errors
           /\ ~NextDecision(p) /\ ~NextRepeat(p) /\ ~EndTick(p) /\ ~ReadRefs(p)
  <2>1. Becomes(p, proc'[p])
    BY <1>4, HandlerWaits
  <2> QED
    BY <1>1, <2>1 DEF Becomes
<1> QED
  BY <1>2, <1>3, <1>4

\* The inductive invariant of a single instance: while nothing has failed, each
\* reference belongs to one alert, and every alert on which the goroutines took
\* turns is in order.
InOrder(i) == Undisturbed => Owned(i) /\ \A a \in Alerts \ overlaps : Tended(i, a)

\* Nothing is out of order at the start.
LEMMA InitInOrder ==
  ASSUME Init, NEW i \in Instances
  PROVE  InOrder(i)
<1>1. \A p \in Procs : proc[p] = Idle
  BY DEF Init
<1>2. Owned(i)
  BY <1>1 DEF Owned, Knows, Carries, Bears, Init, Idle
<1>3. ASSUME NEW a \in Alerts PROVE Tended(i, a)
  <2> DEFINE v == View(i, a)
  <2>1. /\ v.card = NoCard /\ v.phase = "none" /\ v.ref = None /\ v.life = 0
        /\ \A l \in Life : v.told[l] = [k \in Kind |-> 0]
    BY DEF View, Init, NoEntry, Life
  <2>2. Past(v)
    BY <2>1, Bounds DEF Past, Quiet, Life, Kind
  <2>3. Settled(v)
    BY <2>1 DEF Settled, Gone
  <2> QED
    BY <1>1, <2>2, <2>3, AtRest DEF Tended
<1> QED
  BY <1>2, <1>3 DEF InOrder

\* Nothing gets out of order.
LEMMA NextInOrder ==
  ASSUME Typed, NEW i \in Instances, Instances = {i}, InOrder(i), [Next]_vars
  PROVE  InOrder(i)'
<1> SUFFICES ASSUME Undisturbed' PROVE (Owned(i) /\ \A a \in Alerts \ overlaps : Tended(i, a))'
  BY DEF InOrder
<1>1. Typed' /\ Undisturbed /\ UNCHANGED errors /\ ~(\E j \in Instances : Restart(j))
  BY DisturbedForGood, StepTyped, StutterTyped
<1>2. Owned(i) /\ \A a \in Alerts \ overlaps : Tended(i, a)
  BY <1>1 DEF InOrder
<1>3. ASSUME NEW p \in Procs,
             \/ Step(p)
             \/ p \in Workers /\ \E a \in Alerts : Event(p, a)
             \/ p \in Tickers /\ Tick(p)
             \/ p \in Expirers /\ \E a \in Alerts : TakeMarker(p, a)
      PROVE  (Owned(i) /\ \A a \in Alerts \ overlaps : Tended(i, a))'
  <2>1. Owned(i)'
    BY <1>1, <1>2, <1>3, StepOwned
  <2>2. overlaps \subseteq overlaps'
    BY <1>1, <1>3, OverlapsStay
  <2>3. ASSUME NEW a \in Alerts \ overlaps' PROVE Tended(i, a)'
    BY <1>1, <1>2, <1>3, <2>2, <2>3, StepTended, EventTended, StartTended
  <2> QED
    BY <2>1, <2>3
<1>4. CASE UNCHANGED <<rule, engine, lives, cards, proc, sent, sends, overlaps>>
  <2>1. Owned(i)'
    BY <1>2, <1>4 DEF Owned, Knows
  <2>2. \A a \in Alerts : View(i, a)' = View(i, a)
    BY <1>4, SameView
  <2>3. \A a \in Alerts \ overlaps : Tended(i, a)'
    BY <1>2, <1>4, <2>2 DEF Tended
  <2> QED
    BY <1>4, <2>1, <2>3
<1>5. (\E a \in Alerts : ExpireTick(a)) \/ UNCHANGED vars
        => UNCHANGED <<rule, engine, lives, cards, proc, sent, sends, overlaps>>
  BY DEF ExpireTick, vars, storeVars, engineVars, sendVars
<1> QED
  BY <1>1, <1>3, <1>4, <1>5 DEF Next, Procs

\* Only a rule with off windows keeps anything back.
KeptBack == \A a \in Alerts, l \in Life : sent[a][l].muted > 0 => rule.Off

\* A message sent is none kept back.
LEMMA NextKeepsBack ==
  ASSUME Typed, KeptBack, [Next]_vars
  PROVE  KeptBack'
<1>1. CASE \E p \in Procs : Step(p)
  <2>1. PICK p \in Procs : Step(p)
    BY <1>1
  <2>2. UNCHANGED rule
    BY <2>1
       DEF Step, NextDecision, NextRepeat, EndTick, GetAlertIdentity, RefreshTick, ReadCard,
           WriteCard, ResolveConflict, SeedExternalRefs, Mute, PrepareNotification, Send,
           SendFails, CaptureDeliveryEffects, ReadRefs, WriteRefs, DeleteCard, DeleteTick,
           RemoveAlertState, ReadExpired, ResolveExpired
  <2>3. CASE Mute(p)
    BY <2>2, <2>3 DEF KeptBack, Mute
  <2>4. CASE Send(p)
    <3>1. proc[p].alert \in Alerts
      BY <2>4, GoroutinesProper DEF Send, Typed, Proper, Busy
    <3>2. PICK i \in Instances : i = Home[p]
      BY HomeAssumption
    <3>3. /\ \A l \in Life : sent'[proc[p].alert][l].muted = sent[proc[p].alert][l].muted
          /\ \A b \in Alerts \ {proc[p].alert} : sent'[b] = sent[b]
      BY <2>4, <3>1, <3>2, SendView DEF View
    <3> QED
      BY <2>2, <3>3 DEF KeptBack
  <2>5. CASE ~Send(p) /\ ~Mute(p)
    <3>1. UNCHANGED sent
      BY <2>1, <2>5
         DEF Step, NextDecision, NextRepeat, EndTick, GetAlertIdentity, RefreshTick, ReadCard,
             WriteCard, ResolveConflict, SeedExternalRefs, PrepareNotification, SendFails,
             CaptureDeliveryEffects, ReadRefs, WriteRefs, DeleteCard, DeleteTick,
             RemoveAlertState, ReadExpired, ResolveExpired, sendVars
    <3> QED
      BY <2>2, <3>1 DEF KeptBack
  <2> QED
    BY <2>3, <2>4, <2>5
<1>2. CASE ~(\E p \in Procs : Step(p))
  <2>1. UNCHANGED <<rule, sent>>
    BY <1>2 DEF Next, Event, Tick, TakeMarker, ExpireTick, Restart, vars, sendVars
  <2> QED
    BY <2>1 DEF KeptBack
<1> QED
  BY <1>1, <1>2

\* An alert in order that nobody works on is settled, as its card and its messages show.
LEMMA OrderShows ==
  ASSUME Typed, NEW i \in Instances, Instances = {i}, InOrder(i), KeptBack
  PROVE  CardFollowsAlert
<1> SUFFICES ASSUME AllIdle, Undisturbed, NEW a \in Alerts \ overlaps
             PROVE  /\ IF IsActive(i, a)
                       THEN /\ cards[a].State = engine[i][a].phase
                            /\ cards[a].ref = engine[i][a].ref
                       ELSE cards[a] = NoCard
                    /\ \A l \in Lives(a) :
                         /\ sent[a][l].firing <= 1 /\ sent[a][l].opened <= 1
                         /\ sent[a][l].resolved + sent[a][l].muted <= 1
                         /\ sent[a][l].muted > 0 => rule.Off
                         /\ sent[a][l].firing = 1 /\ ~(IsActive(i, a) /\ l = lives[a])
                              => sent[a][l].resolved + sent[a][l].muted = 1
  BY DEF CardFollowsAlert
<1> DEFINE v == View(i, a)
           e == engine[i][a]
<1>1. \A p \in Procs : a \notin WorksOn(proc[p])
  <2>1. \A p \in Procs : proc[p] = Idle
    BY GoroutinesProper DEF AllIdle, Typed, Proper, Placed
  <2> QED
    BY <2>1, AtRest
<1>2. Past(v) /\ Settled(v)
  BY <1>1 DEF InOrder, Tended
<1>3. /\ v.phase = e.phase /\ v.card = cards[a] /\ v.life = lives[a] /\ v.told = sent[a]
      /\ v.channel = rule.Channel /\ (e # NoEntry => v.ref = e.ref)
      /\ lives[a] \in Life
      /\ \A l \in Life : /\ sent[a][l].firing \in Nat /\ sent[a][l].resolved \in Nat
                         /\ sent[a][l].opened \in Nat /\ sent[a][l].muted \in Nat
  BY Views
<1>4. IsActive(i, a) <=> Running(v, v.phase)
  <2>1. Running(v, v.phase) => IsActive(i, a)
    <3>1. Running(v, v.phase) => e # NoEntry
      BY LiveEntry DEF Running
    <3> QED
      BY <1>3, <3>1 DEF IsActive, Running, Inactive
  <2>2. IsActive(i, a) => e.phase \in {"pending", "firing"}
    BY DEF IsActive, Typed, TypeOK, Entries, Phases, NoEntry
  <2> QED
    BY <1>2, <1>3, <2>1, <2>2 DEF Settled, Gone, Inactive
<1>5. IF IsActive(i, a)
      THEN cards[a].State = engine[i][a].phase /\ cards[a].ref = engine[i][a].ref
      ELSE cards[a] = NoCard
  <2>1. CASE IsActive(i, a)
    BY <1>3, <1>4, <2>1 DEF IsActive, Running, Carded, InStep
  <2>2. CASE ~IsActive(i, a)
    BY <1>2, <1>3, <1>4, <2>2 DEF Settled, Gone
  <2> QED
    BY <2>1, <2>2
<1>6. ASSUME NEW l \in Lives(a)
      PROVE  /\ sent[a][l].firing <= 1 /\ sent[a][l].opened <= 1
             /\ sent[a][l].resolved + sent[a][l].muted <= 1
             /\ sent[a][l].muted > 0 => rule.Off
             /\ sent[a][l].firing = 1 /\ ~(IsActive(i, a) /\ l = lives[a])
                  => sent[a][l].resolved + sent[a][l].muted = 1
  <2>0. sent[a][l].muted > 0 => rule.Off
    BY <1>3, Bounds DEF KeptBack, Lives, Life
  <2>1. l \in Life /\ 1 <= l /\ l <= lives[a] /\ lives[a] \in Int /\ l \in Int
    BY <1>3, Bounds DEF Lives, Life
  <2>2. CASE l < lives[a]
    <3>1. Over(sent[a][l])
      BY <1>2, <1>3, <2>1, <2>2 DEF Past
    <3> QED
      BY <2>0, <3>1 DEF Over
  <2>3. CASE l = lives[a] /\ IsActive(i, a)
    <3>1. Fits(v, v.phase)
      BY <1>4, <2>3 DEF Running
    <3>2. Quiet(sent[a][l]) \/ Opened(sent[a][l], rule.Channel)
      BY <1>3, <2>3, <3>1 DEF Fits, Now
    <3> QED
      BY <2>0, <2>3, <3>2 DEF Quiet, Opened
  <2>4. CASE l = lives[a] /\ ~IsActive(i, a)
    <3>1. Over(sent[a][l])
      BY <1>2, <1>3, <1>4, <2>1, <2>4 DEF Settled, Gone, Now
    <3> QED
      BY <2>0, <3>1 DEF Over
  <2> QED
    BY <2>1, <2>2, <2>3, <2>4
<1> QED
  BY <1>5, <1>6

\* In a single instance, with either store, an alert on which the goroutines took
\* turns has the card of its phase when all handlers have returned and nothing
\* failed.  It is opened at most once in each life, and a life whose firing was told
\* is closed by one message, or by a resolve that an off window of the rule kept back
\* (applyDecision, ResolveByTTL, applyDeliveryResults, shouldSkipNotificationByOff).
THEOREM CardsFollowAlerts ==
  ASSUME NEW i, Instances = {i}
  PROVE  Spec => []CardFollowsAlert
<1>1. Init => Typed /\ InOrder(i) /\ KeptBack
  <2>1. Init => KeptBack
    BY DEF Init, KeptBack, Life, Kind
  <2> QED
    BY <2>1, InitTyped, InitInOrder
<1>2. Typed /\ [Next]_vars => Typed'
  BY StepTyped, StutterTyped
<1>3. Typed /\ InOrder(i) /\ [Next]_vars => InOrder(i)'
  BY NextInOrder
<1>4. Typed /\ KeptBack /\ [Next]_vars => KeptBack'
  BY NextKeepsBack
<1>5. Typed /\ InOrder(i) /\ KeptBack => CardFollowsAlert
  BY OrderShows
<1> QED
  BY <1>1, <1>2, <1>3, <1>4, <1>5, PTL DEF Spec

===============================================================================
