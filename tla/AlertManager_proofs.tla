-------------------------- MODULE AlertManager_proofs --------------------------
(***************************************************************************)
(* Proofs about AlertManager: its type invariant, and what the revisions   *)
(* of the NATS store give to goroutines that race for a card.  That cards  *)
(* follow their alerts is in AlertManagerCards_proofs.                     *)
(***************************************************************************)
EXTENDS AlertManager, FiniteSetTheorems, TLAPS

-----------------------------------------------------------------------------
(* Goroutines.                                                             *)

\* What a goroutine holds at its place: a card where it writes one or takes its reference over,
\* a resolved state on the way to the deletion, and decisions to come only in a tick.
Placed(j) ==
  /\ j.pc \in {"seed", "refsWrite", "ttlWrite"} => j.card # NoCard
  /\ j.pc \in {"ttlRead", "ttlWrite"} => j.why = "ttl" /\ j.state = "resolved"
  /\ j.pc \in {"delete", "deleteTick", "remove"} => j.state = "resolved"
  /\ j.why = "repeat" => j.state = "firing"
  /\ j.pc # "scan" /\ j.why \notin {"decision", "repeat"} => j.todo = {} /\ j.repeats = {}
  /\ j.pc = "scan" => j.alert = "none" /\ j.card = NoCard /\ j.ref = None
  /\ j.pc = "flush" => j.todo = {} /\ j.repeats = {}
  /\ j.pc = "idle" => j = Idle
\* The delete-marker consumer only resolves.
Expiring(p) == p \in Expirers => proc[p].why \in {"none", "ttl"} /\ proc[p].pc # "scan"

\* A job that has an alert in hand.
Busy(j) == j.pc \notin {"idle", "scan"} => j.alert \in Alerts /\ j.state \in CardStates
Proper(j) == j \in Jobs /\ Busy(j) /\ Placed(j)

\* The bounds are numbers.
LEMMA Bounds ==
  /\ MaxSends \in Nat /\ MaxLives \in Nat /\ MaxRestarts \in Nat
  /\ None \in Reference /\ 0 \in Life
BY BoundsAssumption DEF None, Reference, Life

\* A goroutine at rest holds nothing.
LEMMA IdleProper == Proper(Idle)
BY BoundsAssumption DEF Proper, Busy, Placed, Jobs, Idle, Life, Reference, None, Inactive

\* The end of a job: idle, back to the scan of the tick, or the flush of a batch.
LEMMA FinishShape ==
  ASSUME NEW j, Proper(j), j.pc \notin {"idle", "scan"}
  PROVE  /\ Proper(Finish(j)) /\ Finish(j).pc \in {"idle", "scan", "flush"}
         /\ Finish(j).pc = "scan" => j.why \in {"decision", "repeat"}
         /\ Finish(j).why \in {"none", j.why}
         /\ Finish(j).todo = j.todo /\ Finish(j).repeats = j.repeats
         /\ Finish(j).alert \in {j.alert, "none"}
<1>1. CASE j.why = "event" /\ j.late /\ j.state # "resolved"
  <2>1. Finish(j) = [j EXCEPT !.pc = "flush"]
    BY <1>1 DEF Finish
  <2>2. Finish(j) \in Jobs
    BY <2>1 DEF Proper, Jobs
  <2>3. /\ Finish(j).pc = "flush" /\ Finish(j).why = j.why /\ Finish(j).todo = j.todo /\ Finish(j).repeats = j.repeats
        /\ Finish(j).alert = j.alert /\ Finish(j).state = j.state
    BY <2>1 DEF Proper, Jobs
  <2>4. j.todo = {} /\ j.repeats = {}
    BY <1>1 DEF Proper, Placed
  <2> QED
    BY <1>1, <2>2, <2>3, <2>4 DEF Proper, Busy, Placed
<1>2. CASE j.why \in {"decision", "repeat"}
  <2>1. Finish(j) = [Idle EXCEPT !.pc = "scan", !.todo = j.todo, !.repeats = j.repeats]
    BY <1>2 DEF Finish
  <2>2. j.todo \in SUBSET Decisions /\ j.repeats \in SUBSET Alerts
    BY DEF Proper, Jobs
  <2>3. Finish(j) \in Jobs
    <3>1. Idle \in Jobs
      BY IdleProper DEF Proper
    <3>2. PICK start : start = Idle
      OBVIOUS
    <3>3. [start EXCEPT !.pc = "scan", !.todo = j.todo, !.repeats = j.repeats] \in Jobs
      BY <2>2, <3>1, <3>2, ZenonT(30) DEF Jobs
    <3> QED
      BY <2>1, <3>2, <3>3, Zenon
  <2> QED
    BY <1>2, <2>1, <2>3 DEF Proper, Busy, Placed, Idle
<1>3. CASE ~(j.why = "event" /\ j.late /\ j.state # "resolved") /\ j.why \notin {"decision", "repeat"}
  <2>1. Finish(j) = Idle
    BY <1>3 DEF Finish
  <2> QED
    BY <1>3, <2>1, IdleProper DEF Idle, Proper, Placed
<1> QED
  BY <1>1, <1>2, <1>3

\* A notification that is through ends in the deletion, or with the job.
LEMMA CloseShape ==
  ASSUME NEW j, Proper(j), j.pc \notin {"idle", "scan"}
  PROVE  /\ Proper(Close(j)) /\ Close(j).pc \in {"idle", "scan", "flush", "delete"}
         /\ Close(j).pc = "scan" => j.why \in {"decision", "repeat"}
         /\ Close(j).why \in {"none", j.why}
         /\ Close(j).todo = j.todo /\ Close(j).repeats = j.repeats
         /\ Close(j).alert \in {j.alert, "none"}
         /\ j.state = "resolved" =>
              Close(j).pc = "delete" /\ Close(j).alert = j.alert /\ Close(j).state = "resolved"
<1>1. CASE j.state = "resolved"
  <2>1. Close(j) = [j EXCEPT !.pc = "delete", !.card = NoCard, !.ref = None]
    BY <1>1 DEF Close
  <2>2. Close(j) \in Jobs
    BY <2>1, Bounds DEF Proper, Jobs
  <2>3. /\ Close(j).pc = "delete" /\ Close(j).why = j.why /\ Close(j).todo = j.todo /\ Close(j).repeats = j.repeats
        /\ Close(j).alert = j.alert /\ Close(j).state = j.state
    BY <2>1 DEF Proper, Jobs
  <2> QED
    BY <1>1, <2>2, <2>3 DEF Proper, Busy, Placed
<1>2. CASE j.state # "resolved"
  BY <1>2, FinishShape DEF Close
<1> QED
  BY <1>1, <1>2

\* A failure gives the job up, but for a TTL resolve.
LEMMA AbandonShape ==
  ASSUME NEW j, Proper(j), j.pc \notin {"idle", "scan"}
  PROVE  /\ Proper(Abandon(j)) /\ Abandon(j).pc \in {"idle", "scan", "flush", "delete"}
         /\ Abandon(j).pc = "scan" => j.why \in {"decision", "repeat"}
         /\ Abandon(j).why \in {"none", j.why}
<1>1. CASE j.why = "repeat"
  BY <1>1, FinishShape DEF Abandon
<1>2. CASE j.why = "ttl"
  BY <1>2, CloseShape DEF Abandon
<1>3. CASE j.why \notin {"repeat", "ttl"}
  <2>1. Abandon(j) = Idle
    BY <1>3 DEF Abandon
  <2> QED
    BY <2>1, IdleProper DEF Idle
<1> QED
  BY <1>1, <1>2, <1>3

\* A card write goes on to the notification if there is one to make, else to the end.
LEMMA NotifyShape ==
  ASSUME NEW j, Proper(j), j.pc \notin {"idle", "scan"}
  PROVE  /\ Proper(Notify(j)) /\ Notify(j).pc \in {"idle", "scan", "flush", "delete", "prepare"}
         /\ Notify(j).pc = "scan" => j.why \in {"decision", "repeat"}
         /\ Notify(j).why \in {"none", j.why}
         /\ Notify(j).todo = j.todo /\ Notify(j).repeats = j.repeats
         /\ Notify(j).alert \in {j.alert, "none"}
         /\ j.state = "resolved" =>
              /\ Notify(j).pc \in {"prepare", "delete"}
              /\ Notify(j).alert = j.alert /\ Notify(j).state = "resolved"
         /\ Notify(j).pc = "prepare" =>
              /\ j.changed /\ j.notify /\ j.state # "pending" /\ Notify(j).why = j.why
              /\ Notify(j).alert = j.alert /\ Notify(j).state = j.state
<1>1. CASE j.changed /\ j.notify /\ j.state # "pending"
  <2>1. Notify(j) = [j EXCEPT !.pc = "prepare", !.card = NoCard]
    BY <1>1 DEF Notify
  <2>2. Notify(j) \in Jobs
    BY <2>1 DEF Proper, Jobs
  <2>3. /\ Notify(j).pc = "prepare" /\ Notify(j).why = j.why /\ Notify(j).todo = j.todo /\ Notify(j).repeats = j.repeats
        /\ Notify(j).alert = j.alert /\ Notify(j).state = j.state
    BY <2>1 DEF Proper, Jobs
  <2> QED
    BY <1>1, <2>2, <2>3 DEF Proper, Busy, Placed
<1>2. CASE ~(j.changed /\ j.notify /\ j.state # "pending")
  BY <1>2, CloseShape DEF Notify
<1> QED
  BY <1>1, <1>2

\* References of the card come first.
LEMMA SeedShape ==
  ASSUME NEW j, Proper(j), j.pc \notin {"idle", "scan"}
  PROVE  /\ Proper(Seed(j))
         /\ Seed(j).pc \in {"idle", "scan", "flush", "delete", "prepare", "seed"}
         /\ Seed(j).pc = "scan" => j.why \in {"decision", "repeat"}
         /\ Seed(j).why \in {"none", j.why}
         /\ Seed(j).todo = j.todo /\ Seed(j).repeats = j.repeats
         /\ Seed(j).alert \in {j.alert, "none"}
         /\ j.state = "resolved" =>
              /\ Seed(j).pc \in {"seed", "prepare", "delete"}
              /\ Seed(j).alert = j.alert /\ Seed(j).state = "resolved"
         /\ Seed(j).pc = "prepare" => j.changed /\ j.notify
         /\ Seed(j).pc = "seed" => Seed(j).changed = j.changed /\ Seed(j).notify = j.notify
         /\ Seed(j).pc \in {"seed", "prepare"} =>
              Seed(j).why = j.why /\ Seed(j).alert = j.alert /\ Seed(j).state = j.state
<1>1. CASE j.card # NoCard /\ j.card.ref # None
  <2>1. Seed(j) = [j EXCEPT !.pc = "seed"]
    BY <1>1 DEF Seed
  <2>2. Seed(j) \in Jobs
    BY <2>1 DEF Proper, Jobs
  <2>3. /\ Seed(j).pc = "seed" /\ Seed(j).why = j.why /\ Seed(j).todo = j.todo /\ Seed(j).repeats = j.repeats
        /\ Seed(j).alert = j.alert /\ Seed(j).state = j.state /\ Seed(j).card = j.card
        /\ Seed(j).changed = j.changed /\ Seed(j).notify = j.notify
    BY <2>1 DEF Proper, Jobs
  <2> QED
    BY <1>1, <2>2, <2>3 DEF Proper, Busy, Placed
<1>2. CASE ~(j.card # NoCard /\ j.card.ref # None)
  BY <1>2, NotifyShape DEF Seed
<1> QED
  BY <1>1, <1>2

-----------------------------------------------------------------------------
(* Steps of the goroutines.                                                *)

Goroutines == proc \in [Procs -> Jobs] /\ \A p \in Procs : Busy(proc[p]) /\ Placed(proc[p]) /\ Expiring(p)

\* The job of any one goroutine.
LEMMA GoroutinesProper ==
  ASSUME Goroutines, NEW p \in Procs
  PROVE  Proper(proc[p]) /\ Expiring(p)
BY DEF Goroutines, Proper

\* One goroutine goes on with a proper job.
LEMMA BecomesProper ==
  ASSUME TypeOK, Goroutines, NEW p \in Procs, NEW j, Becomes(p, j), Proper(j),
         p \in Expirers => j.why \in {"none", "ttl"} /\ j.pc # "scan"
  PROVE  Goroutines' /\ overlaps' \subseteq Alerts
<1>1. proc' = [proc EXCEPT ![p] = j]
  BY DEF Becomes
<1>2. overlaps' \subseteq Alerts
  BY DEF Becomes, NoteOverlap, WorksOn, TypeOK
<1>3. proc' \in [Procs -> Jobs] /\ proc'[p] = j /\ \A q \in Procs \ {p} : proc'[q] = proc[q]
  BY <1>1 DEF Goroutines, Proper
<1>4. ASSUME NEW q \in Procs PROVE Busy(proc'[q]) /\ Placed(proc'[q]) /\ Expiring(q)'
  BY <1>3 DEF Goroutines, Proper, Expiring
<1> QED
  BY <1>2, <1>3, <1>4 DEF Goroutines, Expiring

\* It ends its job, or sets about closing, announcing or seeding it.
LEMMA EndsProper ==
  ASSUME TypeOK, Goroutines, NEW p \in Procs, NEW j, Proper(j), j.pc \notin {"idle", "scan"},
         j.why = proc[p].why, proc[p].pc \notin {"idle", "scan"},
         Becomes(p, Finish(j)) \/ Becomes(p, Close(j)) \/ Becomes(p, Abandon(j))
           \/ Becomes(p, Notify(j)) \/ Becomes(p, Seed(j))
  PROVE  Goroutines' /\ overlaps' \subseteq Alerts
<1>1. p \in Expirers => j.why \in {"none", "ttl"}
  BY GoroutinesProper DEF Expiring
<1>2. CASE Becomes(p, Finish(j))
  BY <1>1, <1>2, BecomesProper, FinishShape
<1>3. CASE Becomes(p, Close(j))
  BY <1>1, <1>3, BecomesProper, CloseShape
<1>4. CASE Becomes(p, Abandon(j))
  BY <1>1, <1>4, BecomesProper, AbandonShape
<1>5. CASE Becomes(p, Notify(j))
  BY <1>1, <1>5, BecomesProper, NotifyShape
<1>6. CASE Becomes(p, Seed(j))
  BY <1>1, <1>6, BecomesProper, SeedShape
<1> QED
  BY <1>2, <1>3, <1>4, <1>5, <1>6

\* The engine entries that an evaluation leaves, and the decisions it returns.
LEMMA OutcomeTypes ==
  ASSUME TypeOK, NEW e \in Entries \ {NoEntry}, NEW a \in Alerts,
         NEW o \in EventOutcomes(e.phase) \cup TickOutcomes(e.phase),
         Rises(e, o) => lives[a] < MaxLives
  PROVE  /\ After(e, o, a) \in Entries \ {NoEntry} /\ After(e, o, a).phase = o.phase
         /\ o.phase \in Phases /\ o.state \in CardStates \cup {Inactive} /\ o.changed \in BOOLEAN
         /\ o.state # Inactive => Decision(a, o, After(e, o, a)) \in Decisions
<1>1. rule \in RuleConfig /\ e.phase \in Phases /\ lives[a] \in Life
  BY RulesAssumption DEF TypeOK, Entries, NoEntry
<1> DEFINE O == [phase : Phases, state : CardStates \cup {Inactive}, changed : BOOLEAN]
<1>2. o \in O
  <2>1. ASSUME NEW ph \in Phases, NEW st \in CardStates \cup {Inactive}, NEW c \in BOOLEAN
        PROVE  Outcome(ph, st, c) \in O
    BY DEF Outcome
  <2>2. Raised \in {"pending", "firing"}
    BY DEF Raised
  <2>3. {Raising, Confirmation, Resolution, Hold(e.phase), Nothing(e.phase)} \subseteq O
    <3>1. /\ Raised \in Phases \cap CardStates /\ "firing" \in Phases \cap CardStates
          /\ Inactive \in Phases /\ "resolved" \in CardStates /\ Phases \subseteq CardStates \cup {Inactive}
      BY <2>2 DEF Phases, CardStates
    <3>2. Raising \in O /\ Confirmation \in O /\ Resolution \in O
      BY <2>1, <3>1 DEF Raising, Confirmation, Resolution
    <3>3. Hold(e.phase) \in O /\ Nothing(e.phase) \in O
      BY <1>1, <2>1, <3>1 DEF Hold, Nothing
    <3> QED
      BY <3>2, <3>3
  <2>4. EventOutcomes(e.phase) \cup TickOutcomes(e.phase)
          \subseteq {Raising, Confirmation, Resolution, Hold(e.phase), Nothing(e.phase)}
    BY <1>1 DEF EventOutcomes, TickOutcomes, Phases
  <2> QED
    BY <2>3, <2>4
<1>3. After(e, o, a) \in [phase : Phases, ref : Reference, told : BOOLEAN, life : Life]
  <2>1. e \in [phase : Phases, ref : Reference, told : BOOLEAN, life : Life]
    BY DEF Entries
  <2>2. Rises(e, o) => lives[a] + 1 \in Life
    BY <1>1, Bounds DEF Life
  <2>3. CASE Rises(e, o)
    <3>1. After(e, o, a) = [e EXCEPT !.phase = o.phase, !.life = lives[a] + 1]
      BY <2>3 DEF After
    <3> QED
      BY <1>2, <2>1, <2>2, <2>3, <3>1
  <2>4. CASE ~Rises(e, o)
    <3>1. After(e, o, a) = [e EXCEPT !.phase = o.phase, !.life = e.life]
      BY <2>4 DEF After
    <3> QED
      BY <1>2, <2>1, <3>1
  <2> QED
    BY <2>3, <2>4
<1>4. After(e, o, a).phase = o.phase
  BY <1>3 DEF After, Entries, NoEntry
<1>5. NoEntry \notin [phase : Phases, ref : Reference, told : BOOLEAN, life : Life]
  BY DEF NoEntry, Phases, Inactive
<1>6. o.state # Inactive => Decision(a, o, After(e, o, a)) \in Decisions
  BY <1>2, <1>3 DEF Decision, Decisions
<1> QED
  BY <1>2, <1>3, <1>4, <1>5, <1>6 DEF Entries

\* The types with the shape of the goroutines' jobs, which is inductive.
Typed == TypeOK /\ Goroutines

\* What a step of a goroutine must see to besides the goroutines.
LEMMA TypedIf ==
  ASSUME Typed, Goroutines', overlaps' \subseteq Alerts, UNCHANGED <<rule, restarts>>,
         engine' \in [Instances -> [Alerts -> Entries]], lives' \in [Alerts -> Life],
         cards' \in [Alerts -> {c \in Cards : c.rev # 0} \cup {NoCard}],
         ticks' \subseteq Alerts, markers' \subseteq Alerts, revision' \in Nat,
         sent' \in [Alerts -> [Life -> [Kind -> Nat]]],
         moved' \in [Alerts -> [CardStates -> Nat]],
         sends' \in Reference, errors' \in Nat
  PROVE  Typed'
BY DEF Typed, TypeOK, Goroutines, Busy

\* A step that only moves goroutines.
LEMMA TypedIfStill ==
  ASSUME Typed, Goroutines', overlaps' \subseteq Alerts,
         UNCHANGED <<rule, engineVars, storeVars, sendVars, restarts>>
  PROVE  Typed'
BY TypedIf DEF engineVars, storeVars, sendVars, Typed, TypeOK

\* Entries of the engine of a goroutine's instance.
LEMMA EntryTypes ==
  ASSUME Typed, NEW p \in Procs, NEW a \in Alerts
  PROVE  /\ Home[p] \in Instances /\ Entry(p, a) \in Entries
         /\ \A e \in Entries : SetEntry(p, a, e) => engine' \in [Instances -> [Alerts -> Entries]]
<1>1. Home[p] \in Instances
  BY HomeAssumption
<1>2. Entry(p, a) \in Entries
  BY <1>1 DEF Typed, TypeOK, Entry
<1>3. ASSUME NEW e \in Entries, SetEntry(p, a, e)
      PROVE  engine' \in [Instances -> [Alerts -> Entries]]
  <2>1. engine' = [engine EXCEPT ![Home[p]] = [engine[Home[p]] EXCEPT ![a] = e]]
    BY <1>3 DEF SetEntry
  <2>2. [engine[Home[p]] EXCEPT ![a] = e] \in [Alerts -> Entries]
    BY <1>1 DEF Typed, TypeOK
  <2> QED
    BY <1>1, <2>1, <2>2 DEF Typed, TypeOK
<1> QED
  BY <1>1, <1>2, <1>3

\* An event starts a handler with the engine's decision.
LEMMA EventTyped ==
  ASSUME Typed, NEW p \in Workers, NEW a \in Alerts, Event(p, a)
  PROVE  Typed'
<1> DEFINE e == IF HasEntry(p, a) THEN Entry(p, a) ELSE Fresh
<1>1. p \in Procs /\ p \notin Expirers
  BY ProcsAssumption DEF Procs
<1>2. e \in Entries \ {NoEntry}
  <2>1. Fresh \in Entries /\ Fresh # NoEntry
    BY Bounds DEF Fresh, Entries, NoEntry, Phases, Inactive
  <2> QED
    BY <1>1, <2>1, EntryTypes DEF HasEntry
<1> HIDE DEF e
<1>3. PICK o \in EventOutcomes(e.phase), way \in Ingest :
        /\ Rises(e, o) => lives[a] < MaxLives
        /\ SetEntry(p, a, After(e, o, a))
        /\ lives' = IF Rises(e, o) THEN [lives EXCEPT ![a] = @ + 1] ELSE lives
        /\ IF o.state = Inactive THEN UNCHANGED <<proc, overlaps>>
           ELSE Becomes(p, Carry("event", Decision(a, o, After(e, o, a)), way = "batch"))
  BY DEF Event, e
<1>4. /\ After(e, o, a) \in Entries \ {NoEntry} /\ o.state \in CardStates \cup {Inactive}
      /\ o.state # Inactive => Decision(a, o, After(e, o, a)) \in Decisions
  BY <1>2, <1>3, OutcomeTypes DEF Typed
<1>5. engine' \in [Instances -> [Alerts -> Entries]]
  BY <1>1, <1>3, <1>4, EntryTypes
<1>6. lives' \in [Alerts -> Life]
  <2>1. lives \in [Alerts -> Life]
    BY DEF Typed, TypeOK
  <2>2. lives[a] < MaxLives => lives[a] + 1 \in Life
    BY <2>1, Bounds DEF Life
  <2>3. CASE Rises(e, o)
    BY <1>3, <2>1, <2>2, <2>3
  <2>4. CASE ~Rises(e, o)
    BY <1>3, <2>1, <2>4
  <2> QED
    BY <2>3, <2>4
<1>7. Goroutines' /\ overlaps' \subseteq Alerts
  <2>1. CASE o.state = Inactive
    BY <1>3, <2>1 DEF Typed, TypeOK, Goroutines, Busy, Placed, Expiring
  <2>2. CASE o.state # Inactive
    <3> DEFINE d == Decision(a, o, After(e, o, a))
               j == Carry("event", d, way = "batch")
    <3>1. d \in Decisions
      BY <1>4, <2>2
    <3> HIDE DEF d
    <3>2. j = [Idle EXCEPT !.pc = "identity", !.why = "event", !.alert = d.alert,
               !.state = d.state, !.changed = d.changed, !.life = d.life, !.late = (way = "batch")]
      BY DEF Carry
    <3>3. d.alert \in Alerts /\ d.state \in CardStates /\ d.changed \in BOOLEAN /\ d.life \in Life
      BY <3>1 DEF Decisions
    <3>4. j \in Jobs
      <4>1. Idle \in Jobs /\ (way = "batch") \in BOOLEAN
        BY IdleProper DEF Proper
      <4>2. PICK start : start = Idle
        OBVIOUS
      <4>3. PICK late \in BOOLEAN : late = (way = "batch")
        BY <4>1
      <4> HIDE DEF j
      <4>4. j = [start EXCEPT !.pc = "identity", !.why = "event", !.alert = d.alert,
                   !.state = d.state, !.changed = d.changed, !.life = d.life, !.late = late]
        BY <3>2, <4>2, <4>3, Zenon
      <4> QED
        BY <3>3, <4>1, <4>2, <4>4, ZenonT(30) DEF Jobs
    <3>5. /\ j.pc = "identity" /\ j.why = "event" /\ j.alert \in Alerts /\ j.state \in CardStates
          /\ j.todo = {} /\ j.repeats = {}
      <4>1. /\ j.pc = "identity" /\ j.why = "event" /\ j.alert = d.alert /\ j.state = d.state
            /\ j.todo = Idle.todo /\ j.repeats = Idle.repeats
        BY <3>2, ZenonT(30) DEF Idle
      <4>2. Idle.todo = {} /\ Idle.repeats = {}
        BY DEF Idle
      <4> QED
        BY <3>3, <4>1, <4>2, Zenon
    <3>6. Proper(j)
      BY <3>4, <3>5 DEF Proper, Busy, Placed
    <3>7. Becomes(p, j)
      BY <1>3, <2>2 DEF d
    <3> QED
      BY <1>1, <3>6, <3>7, BecomesProper DEF Typed
  <2> QED
    BY <2>1, <2>2
<1> QED
  BY <1>5, <1>6, <1>7, TypedIf DEF Event, storeVars, sendVars, Typed, TypeOK

\* A tick settles every entry of the engine and collects the decisions.
LEMMA TickTyped ==
  ASSUME Typed, NEW p \in Tickers, Tick(p)
  PROVE  Typed'
<1> DEFINE held == {a \in Alerts : HasEntry(p, a)}
           Choices == [held -> UNION {TickOutcomes(ph) : ph \in {Inactive, "pending", "firing"}}]
           Next1(choice) == [a \in held |-> After(Entry(p, a), choice[a], a)]
           Todo(choice) == {Decision(a, choice[a], Next1(choice)[a]) :
                              a \in {b \in held : choice[b].state # Inactive}}
<1>1. p \in Procs /\ p \notin Expirers /\ Home[p] \in Instances
  BY ProcsAssumption, HomeAssumption DEF Procs
<1>2. PICK choice \in Choices :
        /\ \A a \in held :
             /\ choice[a] \in TickOutcomes(Entry(p, a).phase)
             /\ Rises(Entry(p, a), choice[a]) => lives[a] < MaxLives
        /\ \E listed \in SUBSET {a \in held : Next1(choice)[a].phase = "firing"} :
             /\ engine' = [engine EXCEPT ![Home[p]] =
                  [a \in Alerts |-> IF a \in held THEN Next1(choice)[a] ELSE NoEntry]]
             /\ Becomes(p, [Idle EXCEPT !.pc = "scan", !.todo = Todo(choice),
                              !.repeats = IF Repeat THEN listed ELSE {}])
        /\ lives' = [a \in Alerts |-> IF a \in held /\ Rises(Entry(p, a), choice[a])
                                      THEN lives[a] + 1 ELSE lives[a]]
  BY Zenon DEF Tick
<1>3. ASSUME NEW a \in held
      PROVE  /\ Next1(choice)[a] \in Entries
             /\ choice[a].state # Inactive => Decision(a, choice[a], Next1(choice)[a]) \in Decisions
  <2>1. Entry(p, a) \in Entries \ {NoEntry}
    BY <1>1, EntryTypes DEF HasEntry
  <2> QED
    BY <1>2, <2>1, OutcomeTypes DEF Typed
<1>4. engine' \in [Instances -> [Alerts -> Entries]]
  <2>1. [a \in Alerts |-> IF a \in held THEN Next1(choice)[a] ELSE NoEntry] \in [Alerts -> Entries]
    BY <1>3 DEF Entries
  <2> QED
    BY <1>1, <1>2, <2>1 DEF Typed, TypeOK
<1>5. lives' \in [Alerts -> Life]
  <2>1. ASSUME NEW a \in Alerts, lives[a] < MaxLives PROVE lives[a] + 1 \in Life
    <3>1. lives[a] \in Life
      BY DEF Typed, TypeOK
    <3> HIDE DEF Choices, Next1, Todo, held
    <3> QED
      BY <2>1, <3>1, Bounds DEF Life
  <2>2. ASSUME NEW a \in Alerts
        PROVE  (IF a \in held /\ Rises(Entry(p, a), choice[a]) THEN lives[a] + 1 ELSE lives[a]) \in Life
    BY <1>2, <2>1 DEF Typed, TypeOK
  <2> QED
    BY <1>2, <2>2
<1>6. Goroutines' /\ overlaps' \subseteq Alerts
  <2>1. PICK repeats \in SUBSET Alerts :
          Becomes(p, [Idle EXCEPT !.pc = "scan", !.todo = Todo(choice), !.repeats = repeats])
    BY <1>2
  <2>2. Todo(choice) \in SUBSET Decisions
    BY <1>3
  <2> DEFINE todo == Todo(choice)
             j == [Idle EXCEPT !.pc = "scan", !.todo = todo, !.repeats = repeats]
  <2> HIDE DEF todo
  <2>3. /\ j \in Jobs /\ j.pc = "scan" /\ j.why = "none"
        /\ j.alert = "none" /\ j.card = NoCard /\ j.ref = None
    BY <2>2, IdleProper DEF Proper, Jobs, Idle, todo
  <2>4. Proper(j)
    BY <2>3 DEF Proper, Busy, Placed
  <2>5. Becomes(p, j)
    BY <2>1 DEF todo
  <2> HIDE DEF j
  <2>6. p \in Expirers => j.why \in {"none", "ttl"} /\ j.pc # "scan"
    BY <1>1
  <2> QED
    BY <1>1, <2>4, <2>5, <2>6, BecomesProper DEF Typed
<1> QED
  BY <1>4, <1>5, <1>6, TypedIf DEF Tick, storeVars, sendVars, Typed, TypeOK

\* The tick goes on to a decision.
LEMMA NextDecisionTyped ==
  ASSUME Typed, NEW p \in Procs, NextDecision(p)
  PROVE  Typed'
<1>1. PICK d \in proc[p].todo :
        Becomes(p, [Carry("decision", d, FALSE)
                      EXCEPT !.todo = proc[p].todo \ {d}, !.repeats = proc[p].repeats])
  BY DEF NextDecision
<1> DEFINE todo == proc[p].todo \ {d}
           repeats == proc[p].repeats
           j == [Carry("decision", d, FALSE) EXCEPT !.todo = todo, !.repeats = repeats]
<1>2. Proper(proc[p]) /\ Expiring(p)
  BY GoroutinesProper DEF Typed
<1>3. d \in Decisions /\ todo \in SUBSET Decisions /\ repeats \in SUBSET Alerts
  BY <1>2 DEF Proper, Jobs
<1>4. p \notin Expirers
  BY <1>2 DEF Expiring, NextDecision
<1>5. Becomes(p, j)
  BY <1>1
<1> HIDE DEF todo, repeats
<1>6. j = [Idle EXCEPT !.pc = "identity", !.why = "decision", !.alert = d.alert,
             !.state = d.state, !.changed = d.changed, !.life = d.life, !.late = FALSE,
             !.todo = todo, !.repeats = repeats]
  BY DEF Carry, Idle
<1>7. d.alert \in Alerts /\ d.state \in CardStates /\ d.changed \in BOOLEAN /\ d.life \in Life
  BY <1>3 DEF Decisions
<1>8. j \in Jobs
  <2>1. Idle \in Jobs
    BY IdleProper DEF Proper
  <2>2. PICK start : start = Idle
    OBVIOUS
  <2> HIDE DEF j
  <2>3. j = [start EXCEPT !.pc = "identity", !.why = "decision", !.alert = d.alert,
               !.state = d.state, !.changed = d.changed, !.life = d.life, !.late = FALSE,
               !.todo = todo, !.repeats = repeats]
    BY <1>6, <2>2, Zenon
  <2> QED
    BY <1>3, <1>7, <2>1, <2>2, <2>3, ZenonT(30) DEF Jobs
<1>9. j.pc = "identity" /\ j.why = "decision" /\ j.alert \in Alerts /\ j.state \in CardStates
  <2>1. j.pc = "identity" /\ j.why = "decision" /\ j.alert = d.alert /\ j.state = d.state
    BY <1>6, ZenonT(30) DEF Idle
  <2> QED
    BY <1>7, <2>1, Zenon
<1>10. Proper(j)
  BY <1>8, <1>9 DEF Proper, Busy, Placed
<1> HIDE DEF j
<1> QED
  BY <1>4, <1>5, <1>10, BecomesProper, TypedIfStill DEF Typed, NextDecision

\* Or to a repeat, or past it.
LEMMA NextRepeatTyped ==
  ASSUME Typed, NEW p \in Procs, NextRepeat(p)
  PROVE  Typed'
<1>1. Proper(proc[p]) /\ Expiring(p) /\ p \notin Expirers /\ proc[p].pc = "scan"
  BY GoroutinesProper DEF Typed, Expiring, NextRepeat
<1>2. PICK a \in proc[p].repeats :
        \/ /\ HasEntry(p, a)
           /\ Becomes(p, [[proc[p] EXCEPT !.repeats = @ \ {a}]
                EXCEPT !.pc = "prepare", !.why = "repeat", !.alert = a,
                       !.state = "firing", !.life = Entry(p, a).life])
        \/ Becomes(p, [proc[p] EXCEPT !.repeats = @ \ {a}])
  BY DEF NextRepeat
<1>3. a \in Alerts /\ proc[p].repeats \ {a} \in SUBSET Alerts
  BY <1>1 DEF Proper, Jobs
<1> DEFINE j == [proc[p] EXCEPT !.repeats = @ \ {a}]
<1>4. j \in Jobs /\ j.pc = "scan" /\ j.why = proc[p].why
  BY <1>1, <1>3 DEF Proper, Jobs
<1>5. Proper(j)
  BY <1>1, <1>4 DEF Proper, Busy, Placed, Jobs
<1>6. CASE Becomes(p, j)
  BY <1>1, <1>5, <1>6, BecomesProper, TypedIfStill DEF Typed, NextRepeat
<1>7. CASE HasEntry(p, a) /\ Becomes(p, [j EXCEPT !.pc = "prepare", !.why = "repeat", !.alert = a,
                                          !.state = "firing", !.life = Entry(p, a).life])
  <2> DEFINE life == Entry(p, a).life
             r == [j EXCEPT !.pc = "prepare", !.why = "repeat", !.alert = a,
                            !.state = "firing", !.life = life]
  <2>1. life \in Life
    BY <1>3, <1>7, EntryTypes DEF HasEntry, Entries, NoEntry
  <2>2. Becomes(p, r)
    BY <1>7
  <2> HIDE DEF j, life
  <2>3. r \in Jobs
    BY <1>3, <1>4, <2>1 DEF Jobs, CardStates
  <2>4. r.pc = "prepare" /\ r.why = "repeat" /\ r.alert = a /\ r.state = "firing"
    BY <1>4 DEF Jobs
  <2>5. Proper(r)
    BY <1>3, <2>3, <2>4 DEF Proper, Busy, Placed, CardStates
  <2> HIDE DEF r
  <2> QED
    BY <1>1, <2>2, <2>5, BecomesProper, TypedIfStill DEF Typed, NextRepeat
<1> QED
  BY <1>2, <1>6, <1>7

\* The end of a tick forgets entries that are not active.
LEMMA EndTickTyped ==
  ASSUME Typed, NEW p \in Procs, EndTick(p)
  PROVE  Typed'
<1>1. PICK gone \in SUBSET Alerts :
        /\ engine' = [engine EXCEPT ![Home[p]] = [a \in Alerts |-> IF a \in gone THEN NoEntry ELSE @[a]]]
        /\ NoteOverlap(p, [Idle EXCEPT !.repeats = gone])
  BY DEF EndTick
<1>2. Home[p] \in Instances
  BY HomeAssumption
<1>3. [a \in Alerts |-> IF a \in gone THEN NoEntry ELSE engine[Home[p]][a]] \in [Alerts -> Entries]
  BY <1>2 DEF Typed, TypeOK, Entries
<1>4. engine' \in [Instances -> [Alerts -> Entries]]
  BY <1>1, <1>2, <1>3 DEF Typed, TypeOK
<1>5. overlaps' \subseteq Alerts
  BY <1>1 DEF NoteOverlap, WorksOn, Typed, TypeOK
<1>6. proc' = [proc EXCEPT ![p] = Idle]
  BY DEF EndTick
<1>7. Idle.why = "none" /\ Idle.pc = "idle"
  BY DEF Idle
<1>8. Goroutines'
  <2>1. proc' \in [Procs -> Jobs] /\ proc'[p] = Idle /\ \A q \in Procs \ {p} : proc'[q] = proc[q]
    BY <1>6, IdleProper DEF Typed, Goroutines, Proper
  <2>2. ASSUME NEW q \in Procs PROVE Busy(proc'[q]) /\ Placed(proc'[q]) /\ Expiring(q)'
    BY <1>7, <2>1, IdleProper DEF Typed, Goroutines, Proper, Expiring
  <2> QED
    BY <2>1, <2>2 DEF Goroutines, Expiring
<1> QED
  BY <1>4, <1>5, <1>8, TypedIf DEF EndTick, storeVars, sendVars, Typed, TypeOK

\* The same job at another place.
LEMMA MovesProper ==
  ASSUME NEW j, Proper(j), j.pc \notin {"idle", "scan"}, NEW k \in Jobs,
         k.alert = j.alert, k.state = j.state, k.why = j.why, k.todo = j.todo, k.repeats = j.repeats,
         \/ k.pc \in {"identity", "refresh", "read", "write", "conflict", "prepare", "send",
                       "effects", "refs"}
         \/ k.pc \in {"seed", "refsWrite"} /\ k.card # NoCard
         \/ k.pc \in {"delete", "deleteTick", "remove"} /\ k.state = "resolved"
         \/ k.pc = "ttlWrite" /\ k.card # NoCard /\ k.why = "ttl" /\ k.state = "resolved"
  PROVE  Proper(k)
BY DEF Proper, Busy, Placed

\* So a goroutine may move on with its job.
LEMMA MovesTyped ==
  ASSUME Typed, NEW p \in Procs, proc[p].pc \notin {"idle", "scan"}, NEW k, Proper(k),
         k.pc \notin {"idle", "scan"}, k.why = proc[p].why, Becomes(p, k)
  PROVE  Goroutines' /\ overlaps' \subseteq Alerts
<1>1. p \in Expirers => k.why \in {"none", "ttl"}
  BY GoroutinesProper DEF Expiring, Typed
<1> QED
  BY <1>1, BecomesProper DEF Typed

\* A decision is dropped with its alert, or goes to the tick or the card.
LEMMA GetAlertIdentityTyped ==
  ASSUME Typed, NEW p \in Procs, GetAlertIdentity(p)
  PROVE  Typed'
<1> DEFINE j == proc[p]
<1>1. Proper(j) /\ j.pc = "identity" /\ j.pc \notin {"idle", "scan"}
  BY GoroutinesProper DEF Typed, GetAlertIdentity
<1>2. Goroutines' /\ overlaps' \subseteq Alerts
  <2> DEFINE early == [j EXCEPT !.late = FALSE]
             refresh == [j EXCEPT !.pc = "refresh"]
             read == [j EXCEPT !.pc = "read"]
  <2>1. \/ Becomes(p, Finish(early)) \/ Becomes(p, refresh) \/ Becomes(p, read) \/ Becomes(p, Finish(j))
    BY DEF GetAlertIdentity
  <2>2. early \in Jobs /\ refresh \in Jobs /\ read \in Jobs
    BY <1>1, ZenonT(30) DEF Proper, Jobs
  <2>3. /\ early.pc = j.pc /\ early.alert = j.alert /\ early.state = j.state
        /\ early.why = j.why /\ early.todo = j.todo /\ early.repeats = j.repeats
    BY <1>1 DEF Proper, Jobs
  <2>4. /\ refresh.pc = "refresh" /\ refresh.alert = j.alert /\ refresh.state = j.state
        /\ refresh.why = j.why /\ refresh.todo = j.todo /\ refresh.repeats = j.repeats
    BY <1>1 DEF Proper, Jobs
  <2>5. /\ read.pc = "read" /\ read.alert = j.alert /\ read.state = j.state
        /\ read.why = j.why /\ read.todo = j.todo /\ read.repeats = j.repeats
    BY <1>1 DEF Proper, Jobs
  <2> HIDE DEF early, refresh, read
  <2>6. Proper(early) /\ Proper(refresh) /\ Proper(read)
    BY <1>1, <2>2, <2>3, <2>4, <2>5, MovesProper
  <2> QED
    BY <1>1, <2>1, <2>3, <2>4, <2>5, <2>6, EndsProper, MovesTyped DEF Typed
<1> QED
  BY <1>2, TypedIfStill DEF GetAlertIdentity

\* A refresh of the tick.
LEMMA RefreshTickTyped ==
  ASSUME Typed, NEW p \in Procs, RefreshTick(p)
  PROVE  Typed'
<1> DEFINE j == proc[p]
<1>1. Proper(j) /\ j.pc \in {"refresh", "flush"} /\ j.pc \notin {"idle", "scan"} /\ j.alert \in Alerts
  BY GoroutinesProper DEF Typed, RefreshTick, Proper, Busy
<1>2. Goroutines' /\ overlaps' \subseteq Alerts
  <2> DEFINE read == [j EXCEPT !.pc = "read"]
  <2>1. \/ Becomes(p, Idle) \/ Becomes(p, read) \/ Becomes(p, Finish(j))
    BY DEF RefreshTick
  <2>2. read \in Jobs
    BY <1>1 DEF Proper, Jobs
  <2>3. /\ read.pc = "read" /\ read.alert = j.alert /\ read.state = j.state
        /\ read.why = j.why /\ read.todo = j.todo /\ read.repeats = j.repeats
    BY <1>1 DEF Proper, Jobs
  <2> HIDE DEF read
  <2>4. Proper(read)
    BY <1>1, <2>2, <2>3, MovesProper
  <2>5. Idle.why = "none" /\ Idle.pc = "idle"
    BY DEF Idle
  <2> QED
    BY <1>1, <2>1, <2>3, <2>4, <2>5, IdleProper, EndsProper, MovesTyped, BecomesProper DEF Typed
<1> QED
  BY <1>1, <1>2, TypedIf DEF RefreshTick, engineVars, sendVars, Typed, TypeOK

\* The card is read.
LEMMA ReadCardTyped ==
  ASSUME Typed, NEW p \in Procs, ReadCard(p)
  PROVE  Typed'
<1> DEFINE j == proc[p]
           c == cards[j.alert]
           k == [j EXCEPT !.pc = "write", !.card = c]
<1>1. Proper(j) /\ j.pc = "read" /\ j.pc \notin {"idle", "scan"} /\ j.alert \in Alerts
  BY GoroutinesProper DEF Typed, ReadCard, Proper, Busy
<1>2. c \in Cards \cup {NoCard}
  BY <1>1 DEF Typed, TypeOK
<1>3. Becomes(p, k)
  BY DEF ReadCard
<1> HIDE DEF c
<1>4. k \in Jobs
  BY <1>1, <1>2 DEF Proper, Jobs
<1>5. k.pc = "write" /\ k.alert = j.alert /\ k.state = j.state /\ k.why = j.why /\ k.todo = j.todo /\ k.repeats = j.repeats
  BY <1>1 DEF Proper, Jobs
<1> HIDE DEF k
<1>6. Proper(k)
  BY <1>1, <1>4, <1>5, MovesProper
<1> QED
  BY <1>1, <1>3, <1>5, <1>6, MovesTyped, TypedIfStill DEF ReadCard

\* A card that is put gets a revision.
LEMMA PutTypes ==
  ASSUME Typed, NEW a \in Alerts, NEW c \in Cards, Put(a, c)
  PROVE  /\ cards' \in [Alerts -> {d \in Cards : d.rev # 0} \cup {NoCard}]
         /\ revision' \in Nat /\ moved' \in [Alerts -> [CardStates -> Nat]]
<1>1. NextRevision(a) \in Nat /\ NextRevision(a) # 0
  <2>1. cards[a] # NoCard => cards[a].rev \in Nat
    BY DEF Typed, TypeOK, Cards
  <2> QED
    BY <2>1 DEF NextRevision, Typed, TypeOK
<1> DEFINE rev == NextRevision(a)
           new == [c EXCEPT !.rev = rev]
<1>2. cards' = [cards EXCEPT ![a] = new]
  BY DEF Put
<1> HIDE DEF rev
<1>3. new \in {d \in Cards : d.rev # 0}
  BY <1>1 DEF Cards, rev
<1>4. cards' \in [Alerts -> {d \in Cards : d.rev # 0} \cup {NoCard}]
  BY <1>2, <1>3 DEF Typed, TypeOK
<1>5. revision' \in Nat
  BY DEF Put, Typed, TypeOK
<1>6. moved' \in [Alerts -> [CardStates -> Nat]]
  <2>1. c.State \in CardStates /\ moved[a] \in [CardStates -> Nat]
    BY DEF Cards, Typed, TypeOK
  <2> DEFINE s == c.State
             more == [moved[a] EXCEPT ![s] = @ + 1]
  <2>2. more \in [CardStates -> Nat]
    BY <2>1
  <2>3. moved' = moved \/ moved' = [moved EXCEPT ![a] = more]
    BY DEF Put
  <2> HIDE DEF more
  <2> QED
    BY <2>2, <2>3 DEF Typed, TypeOK
<1> QED
  BY <1>4, <1>5, <1>6

\* The card a decision writes.
LEMMA WrittenTypes ==
  ASSUME NEW j, Proper(j), j.pc \notin {"idle", "scan"}
  PROVE  Written(j) \in Cards /\ Written(j) # NoCard /\ Written(j).State = j.state
<1>1. j.state \in CardStates /\ j.life \in Life /\ j.card \in Cards \cup {NoCard}
  BY DEF Proper, Busy, Jobs
<1>2. \A c \in Cards : c # NoCard
  BY DEF Cards, NoCard, CardStates
<1>3. CASE j.card = NoCard
  BY <1>1, <1>2, <1>3, Bounds DEF Written, Cards
<1>4. CASE j.card # NoCard
  <2>1. j.card \in Cards /\ j.card.life \in Life
    BY <1>1, <1>4 DEF Cards
  <2> DEFINE c == j.card
             l == IF j.state = "resolved" THEN c.life ELSE j.life
             w == [c EXCEPT !.State = j.state, !.life = l]
  <2>2. Written(j) = w
    BY <1>4 DEF Written
  <2>3. l \in Life
    BY <1>1, <2>1
  <2> HIDE DEF l
  <2>4. w \in Cards /\ w.State = j.state
    BY <1>1, <2>1, <2>3 DEF Cards
  <2> QED
    BY <1>2, <2>2, <2>4
<1> QED
  BY <1>3, <1>4

\* A decision writes its card, finds it gone, or meets a conflict.
LEMMA WriteCardTyped ==
  ASSUME Typed, NEW p \in Procs, WriteCard(p)
  PROVE  Typed'
<1> DEFINE j == proc[p]
           a == j.alert
<1>1. Proper(j) /\ j.pc = "write" /\ j.pc \notin {"idle", "scan"} /\ a \in Alerts
  BY GoroutinesProper DEF Typed, WriteCard, Proper, Busy
<1>2. CASE SameRevision(j.card, a)
  <2> DEFINE c == Written(j)
             n == AllowNotify(j.card, j.state)
             k == [j EXCEPT !.card = c, !.notify = n]
  <2>1. Put(a, c) /\ Becomes(p, Seed(k)) /\ UNCHANGED errors
    BY <1>2 DEF WriteCard
  <2>2. c \in Cards
    BY <1>1, WrittenTypes
  <2>3. n \in BOOLEAN
    BY DEF AllowNotify
  <2>4. cards' \in [Alerts -> {d \in Cards : d.rev # 0} \cup {NoCard}] /\ revision' \in Nat
        /\ moved' \in [Alerts -> [CardStates -> Nat]]
    BY <1>1, <2>1, <2>2, PutTypes
  <2> HIDE DEF c, n
  <2>5. k \in Jobs
    BY <1>1, <2>2, <2>3 DEF Proper, Jobs
  <2>6. k.pc = j.pc /\ k.alert = j.alert /\ k.state = j.state /\ k.why = j.why /\ k.todo = j.todo /\ k.repeats = j.repeats
    BY <1>1 DEF Proper, Jobs
  <2> HIDE DEF k
  <2>7. Proper(k)
    BY <1>1, <2>5, <2>6, MovesProper
  <2>8. Goroutines' /\ overlaps' \subseteq Alerts
    BY <1>1, <2>1, <2>6, <2>7, EndsProper DEF Typed
  <2> QED
    BY <2>1, <2>4, <2>8, TypedIf DEF WriteCard, engineVars, Typed, TypeOK
<1>3. CASE ~SameRevision(j.card, a)
  <2> DEFINE k == [j EXCEPT !.pc = "conflict", !.card = NoCard]
  <2>1. UNCHANGED <<cards, revision, moved>>
    BY <1>3 DEF WriteCard
  <2>2. IF NotFound(j.card, a) THEN Fail(p, j) ELSE Becomes(p, k) /\ UNCHANGED errors
    BY <1>3, Zenon DEF WriteCard
  <2>3. errors' \in Nat /\ (Becomes(p, Abandon(j)) \/ Becomes(p, k))
    BY <2>2 DEF Fail, Typed, TypeOK
  <2>4. k \in Jobs
    BY <1>1 DEF Proper, Jobs
  <2>5. k.pc = "conflict" /\ k.alert = j.alert /\ k.state = j.state /\ k.why = j.why /\ k.todo = j.todo /\ k.repeats = j.repeats
    BY <1>1 DEF Proper, Jobs
  <2> HIDE DEF k
  <2>6. Proper(k)
    BY <1>1, <2>4, <2>5, MovesProper
  <2>7. Goroutines' /\ overlaps' \subseteq Alerts
    BY <1>1, <2>3, <2>5, <2>6, EndsProper, MovesTyped DEF Typed
  <2> QED
    BY <2>1, <2>3, <2>7, TypedIf DEF WriteCard, engineVars, Typed, TypeOK
<1> QED
  BY <1>2, <1>3

\* Another writer's card is taken over.
LEMMA ResolveConflictTyped ==
  ASSUME Typed, NEW p \in Procs, ResolveConflict(p)
  PROVE  Typed'
<1> DEFINE j == proc[p]
           c == cards[j.alert]
           k == [j EXCEPT !.notify = FALSE, !.card = c]
<1>1. Proper(j) /\ j.pc = "conflict" /\ j.pc \notin {"idle", "scan"} /\ j.alert \in Alerts
  BY GoroutinesProper DEF Typed, ResolveConflict, Proper, Busy
<1>2. c \in Cards \cup {NoCard}
  BY <1>1 DEF Typed, TypeOK
<1>3. Becomes(p, Seed(k))
  BY DEF ResolveConflict
<1> HIDE DEF c
<1>4. k \in Jobs
  BY <1>1, <1>2 DEF Proper, Jobs
<1>5. k.pc = j.pc /\ k.alert = j.alert /\ k.state = j.state /\ k.why = j.why /\ k.todo = j.todo /\ k.repeats = j.repeats
  BY <1>1 DEF Proper, Jobs
<1> HIDE DEF k
<1>6. Proper(k)
  BY <1>1, <1>4, <1>5, MovesProper
<1> QED
  BY <1>1, <1>3, <1>5, <1>6, EndsProper, TypedIfStill DEF ResolveConflict, Typed

\* The engine learns the card's reference.
LEMMA SeedExternalRefsTyped ==
  ASSUME Typed, NEW p \in Procs, SeedExternalRefs(p)
  PROVE  Typed'
<1> DEFINE j == proc[p]
           a == j.alert
           ref == j.card.ref
           e == Entry(p, a)
<1>1. Proper(j) /\ j.pc = "seed" /\ j.pc \notin {"idle", "scan"} /\ a \in Alerts
  BY GoroutinesProper DEF Typed, SeedExternalRefs, Proper, Busy
<1>2. ref \in Reference
  BY <1>1 DEF Proper, Placed, Jobs, Cards
<1>3. \/ HasEntry(p, a) /\ SetEntry(p, a, [e EXCEPT !.ref = ref])
      \/ UNCHANGED engine
  BY DEF SeedExternalRefs
<1> HIDE DEF ref
<1>4. HasEntry(p, a) => [e EXCEPT !.ref = ref] \in Entries
  BY <1>1, <1>2, EntryTypes DEF HasEntry, Entries
<1>5. engine' \in [Instances -> [Alerts -> Entries]]
  BY <1>1, <1>3, <1>4, EntryTypes DEF Typed, TypeOK
<1>6. Goroutines' /\ overlaps' \subseteq Alerts
  BY <1>1, EndsProper DEF SeedExternalRefs, Typed
<1> QED
  BY <1>5, <1>6, TypedIf DEF SeedExternalRefs, storeVars, sendVars, Typed, TypeOK

\* A notification is kept back.
LEMMA MuteTyped ==
  ASSUME Typed, NEW p \in Procs, Mute(p)
  PROVE  Typed'
<1> DEFINE j == proc[p]
           a == j.alert
           l == j.life
<1>1. Proper(j) /\ j.pc = "prepare" /\ j.pc \notin {"idle", "scan"} /\ a \in Alerts /\ l \in Life
  BY GoroutinesProper DEF Typed, Mute, Proper, Busy, Jobs
<1>2. Becomes(p, Close(j))
  BY DEF Mute
<1>3. Goroutines' /\ overlaps' \subseteq Alerts
  BY <1>1, <1>2, EndsProper DEF Typed
<1>4. sent' \in [Alerts -> [Life -> [Kind -> Nat]]]
  <2>1. sent[a] \in [Life -> [Kind -> Nat]] /\ sent[a][l] \in [Kind -> Nat]
    BY <1>1 DEF Typed, TypeOK
  <2>2. sent[a][l]["muted"] + 1 \in Nat
    BY <2>1 DEF Kind
  <2>3. [sent[a][l] EXCEPT !["muted"] = sent[a][l]["muted"] + 1] \in [Kind -> Nat]
    BY <2>1, <2>2 DEF Kind
  <2> DEFINE counts == [sent[a][l] EXCEPT !["muted"] = sent[a][l]["muted"] + 1]
             life == [sent[a] EXCEPT ![l] = counts]
  <2>4. sent' = sent \/ sent' = [sent EXCEPT ![a] = life]
    BY DEF Mute
  <2> HIDE DEF counts
  <2>5. life \in [Life -> [Kind -> Nat]]
    BY <2>1, <2>3 DEF counts
  <2> HIDE DEF life
  <2> QED
    BY <1>1, <2>4, <2>5 DEF Typed, TypeOK
<1> QED
  BY <1>3, <1>4, TypedIf DEF Mute, engineVars, storeVars, Typed, TypeOK

\* The notification gets the engine's reference.
LEMMA PrepareNotificationTyped ==
  ASSUME Typed, NEW p \in Procs, PrepareNotification(p)
  PROVE  Typed'
<1> DEFINE j == proc[p]
           ref == IF HasEntry(p, j.alert) THEN Entry(p, j.alert).ref ELSE None
           k == [j EXCEPT !.pc = "send", !.ref = ref]
<1>1. Proper(j) /\ j.pc = "prepare" /\ j.pc \notin {"idle", "scan"} /\ j.alert \in Alerts
  BY GoroutinesProper DEF Typed, PrepareNotification, Proper, Busy
<1>2. ref \in Reference
  BY <1>1, EntryTypes, Bounds DEF HasEntry, Entries
<1>3. Becomes(p, Close(j)) \/ Becomes(p, k)
  BY DEF PrepareNotification
<1> HIDE DEF ref
<1>4. k \in Jobs
  BY <1>1, <1>2 DEF Proper, Jobs
<1>5. k.pc = "send" /\ k.alert = j.alert /\ k.state = j.state /\ k.why = j.why /\ k.todo = j.todo /\ k.repeats = j.repeats
  BY <1>1 DEF Proper, Jobs
<1> HIDE DEF k
<1>6. Proper(k)
  BY <1>1, <1>4, <1>5, MovesProper
<1> QED
  BY <1>1, <1>3, <1>5, <1>6, EndsProper, MovesTyped, TypedIfStill DEF PrepareNotification, Typed

\* A message is sent and its reference comes back.
LEMMA SendTyped ==
  ASSUME Typed, NEW p \in Procs, Send(p)
  PROVE  Typed'
<1> DEFINE j == proc[p]
           a == j.alert
           l == j.life
           ref == ResultRef(j)
           k == [j EXCEPT !.pc = "effects", !.ref = ref]
<1>1. Proper(j) /\ j.pc = "send" /\ j.pc \notin {"idle", "scan"} /\ a \in Alerts /\ l \in Life
  BY GoroutinesProper DEF Typed, Send, Proper, Busy, Jobs
<1>2. j.ref \in Reference /\ sends \in Reference
  BY <1>1 DEF Proper, Jobs, Typed, TypeOK
<1>3. sends < MaxSends => sends + 1 \in Reference
  BY <1>2, Bounds DEF Reference
<1>4. ~Silent(j) => sends < MaxSends
  BY DEF Send
<1>5. ref \in Reference
  BY <1>2, <1>3, <1>4, Bounds DEF ResultRef, Silent
<1>6. Becomes(p, k)
  BY DEF Send
<1> HIDE DEF ref
<1>7. k \in Jobs
  BY <1>1, <1>5 DEF Proper, Jobs
<1>8. k.pc = "effects" /\ k.alert = j.alert /\ k.state = j.state /\ k.why = j.why /\ k.todo = j.todo /\ k.repeats = j.repeats
  BY <1>1 DEF Proper, Jobs
<1> HIDE DEF k
<1>9. Proper(k)
  BY <1>1, <1>7, <1>8, MovesProper
<1>10. Goroutines' /\ overlaps' \subseteq Alerts
  BY <1>1, <1>6, <1>8, <1>9, MovesTyped
<1>11. sends' \in Reference
  BY <1>2, <1>3 DEF Send
<1>12. sent' \in [Alerts -> [Life -> [Kind -> Nat]]]
  <2> DEFINE S == Kind
             old == sent[a][l]
             new == [k1 \in DOMAIN old |-> old[k1] + IF k1 \in Kinds(j) THEN 1 ELSE 0]
             life == [sent[a] EXCEPT ![l] = new]
  <2>1. sent[a] \in [Life -> [S -> Nat]] /\ old \in [S -> Nat]
    BY <1>1 DEF Typed, TypeOK
  <2>2. new \in [S -> Nat]
    BY <2>1
  <2>3. sent' = sent \/ sent' = [sent EXCEPT ![a] = [sent[a] EXCEPT ![l] = new]]
    BY DEF Send
  <2> HIDE DEF new
  <2>4. life \in [Life -> [S -> Nat]]
    BY <2>1, <2>2
  <2> QED
    BY <2>3, <2>4 DEF Typed, TypeOK
<1> QED
  BY <1>10, <1>11, <1>12, TypedIf DEF Send, engineVars, storeVars, Typed, TypeOK

\* A message is refused or not delivered.
LEMMA SendFailsTyped ==
  ASSUME Typed, NEW p \in Procs, SendFails(p)
  PROVE  Typed'
<1>1. Proper(proc[p]) /\ proc[p].pc = "send" /\ proc[p].pc \notin {"idle", "scan"}
  BY GoroutinesProper DEF Typed, SendFails
<1>2. Becomes(p, Abandon(proc[p])) /\ errors' \in Nat
  BY DEF SendFails, Fail, Typed, TypeOK
<1>3. Goroutines' /\ overlaps' \subseteq Alerts
  BY <1>1, <1>2, EndsProper DEF Typed
<1> QED
  BY <1>2, <1>3, TypedIf DEF SendFails, engineVars, storeVars, Typed, TypeOK

\* What was sent is noted with the engine.
LEMMA CaptureDeliveryEffectsTyped ==
  ASSUME Typed, NEW p \in Procs, CaptureDeliveryEffects(p)
  PROVE  Typed'
<1> DEFINE j == proc[p]
           a == j.alert
           e == Entry(p, a)
           ref == IF j.ref = None THEN e.ref ELSE j.ref
           k == [j EXCEPT !.pc = "refs"]
<1>1. Proper(j) /\ j.pc = "effects" /\ j.pc \notin {"idle", "scan"} /\ a \in Alerts
  BY GoroutinesProper DEF Typed, CaptureDeliveryEffects, Proper, Busy
<1>2. HasEntry(p, a) => e \in [phase : Phases, ref : Reference, told : BOOLEAN, life : Life]
  BY <1>1, EntryTypes DEF HasEntry, Entries
<1>3. j.ref \in Reference
  BY <1>1 DEF Proper, Jobs
<1>4. HasEntry(p, a) => ref \in Reference
  BY <1>2, <1>3
<1>5. \/ HasEntry(p, a) /\ SetEntry(p, a, [e EXCEPT !.told = TRUE, !.ref = ref])
      \/ UNCHANGED engine
  BY DEF CaptureDeliveryEffects
<1>6. Becomes(p, k) \/ Becomes(p, Close(j))
  BY DEF CaptureDeliveryEffects
<1> HIDE DEF ref
<1>7. HasEntry(p, a) => [e EXCEPT !.told = TRUE, !.ref = ref] \in Entries
  BY <1>2, <1>4 DEF Entries
<1>8. engine' \in [Instances -> [Alerts -> Entries]]
  BY <1>1, <1>5, <1>7, EntryTypes DEF Typed, TypeOK
<1>9. k \in Jobs
  BY <1>1 DEF Proper, Jobs
<1>10. k.pc = "refs" /\ k.alert = j.alert /\ k.state = j.state /\ k.why = j.why /\ k.todo = j.todo /\ k.repeats = j.repeats
  BY <1>1 DEF Proper, Jobs
<1> HIDE DEF k
<1>11. Proper(k)
  BY <1>1, <1>9, <1>10, MovesProper
<1>12. Goroutines' /\ overlaps' \subseteq Alerts
  BY <1>1, <1>6, <1>10, <1>11, EndsProper, MovesTyped DEF Typed
<1> QED
  BY <1>8, <1>12, TypedIf DEF CaptureDeliveryEffects, storeVars, sendVars, Typed, TypeOK

\* The card is read for its references; in memory the map they share changes at once.
LEMMA ReadRefsTyped ==
  ASSUME Typed, NEW p \in Procs, ReadRefs(p)
  PROVE  Typed'
<1> DEFINE j == proc[p]
           a == j.alert
           c == cards[a]
           map == IF c.map = None THEN j.ref ELSE c.map
           new == IF c = NoCard THEN NoCard ELSE [c EXCEPT !.ref = j.ref, !.map = map]
           k == [j EXCEPT !.pc = "refsWrite", !.card = new]
           next == IF c = NoCard \/ c = new THEN Finish(j) ELSE k
           Shared(x) == x # NoCard /\ x.map = c.map
<1>1. Proper(j) /\ j.pc = "refs" /\ j.pc \notin {"idle", "scan"} /\ a \in Alerts /\ j.ref \in Reference
  BY GoroutinesProper DEF Typed, ReadRefs, Proper, Busy, Jobs
<1>2. c \in {d \in Cards : d.rev # 0} \cup {NoCard}
  BY <1>1 DEF Typed, TypeOK
<1>3. /\ new \in {d \in Cards : d.rev # 0} \cup {NoCard}
      /\ c # NoCard => new # NoCard /\ new.State = c.State
  <2>1. c # NoCard => map \in Reference
    BY <1>1, <1>2 DEF Cards
  <2> HIDE DEF map
  <2> QED
    BY <1>1, <1>2, <2>1 DEF Cards, NoCard, CardStates
<1>4. \/ /\ Store = "memory" /\ c # NoCard
         /\ cards' = [cards EXCEPT ![a] = new]
         /\ proc' = [q \in Procs |->
              IF q = p THEN next
              ELSE IF Shared(proc[q].card)
              THEN [proc[q] EXCEPT !.card.ref = j.ref] ELSE proc[q]]
         /\ NoteOverlap(p, next)
      \/ UNCHANGED cards /\ Becomes(p, next)
  BY DEF ReadRefs
<1> HIDE DEF new
<1>5. c # NoCard => k \in Jobs
  BY <1>1, <1>3 DEF Proper, Jobs
<1>6. c # NoCard => /\ k.pc = "refsWrite" /\ k.alert = j.alert /\ k.state = j.state
                    /\ k.why = j.why /\ k.todo = j.todo /\ k.repeats = j.repeats /\ k.card = new
  BY <1>1 DEF Proper, Jobs
<1> HIDE DEF k
<1>7. c # NoCard => Proper(k)
  BY <1>1, <1>3, <1>5, <1>6, MovesProper
<1>8. Proper(next) /\ (p \in Expirers => next.why \in {"none", "ttl"} /\ next.pc # "scan")
  BY <1>1, <1>6, <1>7, FinishShape, GoroutinesProper DEF Typed, Expiring
<1> HIDE DEF next, c
<1>9. Goroutines' /\ overlaps' \subseteq Alerts
  <2>1. CASE Becomes(p, next)
    BY <1>8, <2>1, BecomesProper DEF Typed
  <2>2. CASE /\ NoteOverlap(p, next)
             /\ proc' = [q \in Procs |->
                  IF q = p THEN next
                  ELSE IF Shared(proc[q].card)
                  THEN [proc[q] EXCEPT !.card.ref = j.ref] ELSE proc[q]]
    <3>1. overlaps' \subseteq Alerts
      BY <2>2 DEF NoteOverlap, WorksOn, Typed, TypeOK
    <3>2. ASSUME NEW q \in Procs, q # p, proc[q].card # NoCard
          PROVE  LET d == [proc[q] EXCEPT !.card.ref = j.ref]
                 IN  Proper(d) /\ d.why = proc[q].why /\ d.pc = proc[q].pc
      <4> DEFINE h == proc[q]
                 card == [h.card EXCEPT !.ref = j.ref]
                 d == [h EXCEPT !.card = card]
      <4>1. Proper(h)
        BY GoroutinesProper DEF Typed
      <4>2. h.card \in Cards
        BY <3>2, <4>1 DEF Proper, Jobs
      <4>3. card \in Cards /\ card # NoCard /\ card.State = h.card.State
        BY <1>1, <4>2 DEF Cards, NoCard, CardStates
      <4> HIDE DEF card
      <4>4. d \in Jobs
        BY <4>1, <4>3 DEF Proper, Jobs
      <4>5. /\ d.pc = h.pc /\ d.alert = h.alert /\ d.state = h.state /\ d.why = h.why /\ d.todo = h.todo /\ d.repeats = h.repeats
            /\ d.card = card
        BY <4>1 DEF Proper, Jobs
      <4>6. h.pc \notin {"idle", "scan"}
        BY <3>2, <4>1 DEF Proper, Placed, Idle
      <4> HIDE DEF d
      <4>7. Proper(d)
        BY <4>1, <4>3, <4>4, <4>5, <4>6 DEF Proper, Busy, Placed
      <4> QED
        BY <4>5, <4>7 DEF d, card
    <3>3. ASSUME NEW q \in Procs
          PROVE  Proper(proc'[q]) /\ (q \in Expirers => proc'[q].why \in {"none", "ttl"} /\ proc'[q].pc # "scan")
      <4>0. Proper(proc[q]) /\ Expiring(q)
        BY GoroutinesProper DEF Typed
      <4>1. CASE q = p
        BY <1>8, <2>2, <4>1
      <4>2. CASE q # p /\ Shared(proc[q].card)
        BY <2>2, <3>2, <4>0, <4>2 DEF Expiring
      <4>3. CASE q # p /\ ~Shared(proc[q].card)
        BY <2>2, <4>0, <4>3 DEF Expiring
      <4> QED
        BY <4>1, <4>2, <4>3
    <3>4. proc' \in [Procs -> Jobs]
      BY <2>2, <3>3 DEF Proper
    <3> QED
      BY <3>1, <3>3, <3>4 DEF Goroutines, Proper, Expiring
  <2> QED
    BY <1>4, <2>1, <2>2
<1>10. cards' \in [Alerts -> {d \in Cards : d.rev # 0} \cup {NoCard}]
  BY <1>1, <1>3, <1>4 DEF Typed, TypeOK
<1> QED
  BY <1>9, <1>10, TypedIf DEF ReadRefs, engineVars, sendVars, Typed, TypeOK

\* The references are written, or met a conflict.
LEMMA WriteRefsTyped ==
  ASSUME Typed, NEW p \in Procs, WriteRefs(p)
  PROVE  Typed'
<1> DEFINE j == proc[p]
           a == j.alert
           tries == j.tries + 1
           k == [j EXCEPT !.pc = "refs", !.card = NoCard, !.tries = tries]
<1>1. Proper(j) /\ j.pc = "refsWrite" /\ j.pc \notin {"idle", "scan"} /\ a \in Alerts
  BY GoroutinesProper DEF Typed, WriteRefs, Proper, Busy
<1>2. j.card \in Cards
  BY <1>1 DEF Proper, Placed, Jobs
<1>3. CASE Put(a, j.card) /\ Becomes(p, Finish(j)) /\ UNCHANGED errors
  <2>1. Goroutines' /\ overlaps' \subseteq Alerts
    BY <1>1, <1>3, EndsProper DEF Typed
  <2> QED
    BY <1>1, <1>2, <1>3, <2>1, PutTypes, TypedIf DEF WriteRefs, engineVars, Typed, TypeOK
<1>4. CASE /\ UNCHANGED <<cards, revision, moved>>
           /\ IF NotFound(j.card, a) \/ j.tries = 2 THEN Fail(p, j)
              ELSE Becomes(p, k) /\ UNCHANGED errors
  <2>1. errors' \in Nat /\ (Becomes(p, Abandon(j)) \/ (j.tries # 2 /\ Becomes(p, k)))
    <3>1. Fail(p, j) \/ (j.tries # 2 /\ Becomes(p, k) /\ UNCHANGED errors)
      BY <1>4
    <3> QED
      BY <3>1 DEF Fail, Typed, TypeOK
  <2>2. j.tries # 2 => tries \in 0..2
    BY <1>1 DEF Proper, Jobs
  <2> HIDE DEF tries
  <2>3. j.tries # 2 => k \in Jobs
    BY <1>1, <2>2 DEF Proper, Jobs
  <2>4. k.pc = "refs" /\ k.alert = j.alert /\ k.state = j.state /\ k.why = j.why /\ k.todo = j.todo /\ k.repeats = j.repeats
    BY <1>1 DEF Proper, Jobs
  <2> HIDE DEF k
  <2>5. j.tries # 2 => Proper(k)
    BY <1>1, <2>3, <2>4, MovesProper
  <2>6. Goroutines' /\ overlaps' \subseteq Alerts
    BY <1>1, <2>1, <2>4, <2>5, EndsProper, MovesTyped DEF Typed
  <2> QED
    BY <1>4, <2>1, <2>6, TypedIf DEF WriteRefs, engineVars, Typed, TypeOK
<1> QED
  BY <1>3, <1>4, Zenon DEF WriteRefs

\* A resolve deletes the card, then its tick, then the engine's entry.
LEMMA DeletionTyped ==
  ASSUME Typed, NEW p \in Procs, DeleteCard(p) \/ DeleteTick(p) \/ RemoveAlertState(p)
  PROVE  Typed'
<1> DEFINE j == proc[p]
           a == j.alert
<1>1. Proper(j) /\ j.pc \in {"delete", "deleteTick", "remove"} /\ a \in Alerts /\ j.state = "resolved"
  BY GoroutinesProper DEF Typed, DeleteCard, DeleteTick, RemoveAlertState, Proper, Busy, Placed
<1>2. ASSUME NEW pc \in {"remove", "deleteTick"}, Becomes(p, [j EXCEPT !.pc = pc])
      PROVE  Goroutines' /\ overlaps' \subseteq Alerts
  <2> DEFINE k == [j EXCEPT !.pc = pc]
  <2>1. k \in Jobs
    BY <1>1 DEF Proper, Jobs
  <2>2. k.pc = pc /\ k.alert = j.alert /\ k.state = j.state /\ k.why = j.why /\ k.todo = j.todo /\ k.repeats = j.repeats
    BY <1>1 DEF Proper, Jobs
  <2> HIDE DEF k
  <2>3. Proper(k)
    BY <1>1, <2>1, <2>2, MovesProper
  <2> QED
    BY <1>1, <1>2, <2>2, <2>3, MovesTyped DEF k
<1>3. CASE DeleteCard(p)
  <2>1. Goroutines' /\ overlaps' \subseteq Alerts
    BY <1>2, <1>3 DEF DeleteCard
  <2>2. /\ cards' \in [Alerts -> {d \in Cards : d.rev # 0} \cup {NoCard}]
        /\ ticks' \subseteq Alerts
    BY <1>1, <1>3 DEF DeleteCard, Typed, TypeOK
  <2> QED
    BY <1>3, <2>1, <2>2, TypedIf DEF DeleteCard, engineVars, sendVars, Typed, TypeOK
<1>4. CASE DeleteTick(p)
  <2>1. Goroutines' /\ overlaps' \subseteq Alerts
    BY <1>2, <1>4 DEF DeleteTick
  <2> QED
    BY <1>1, <1>4, <2>1, TypedIf DEF DeleteTick, engineVars, sendVars, Typed, TypeOK
<1>5. CASE RemoveAlertState(p)
  <2>1. engine' \in [Instances -> [Alerts -> Entries]]
    BY <1>1, <1>5, EntryTypes DEF RemoveAlertState, Removed, Entries
  <2>2. Goroutines' /\ overlaps' \subseteq Alerts
    BY <1>1, <1>5, EndsProper DEF RemoveAlertState, Typed
  <2> QED
    BY <1>5, <2>1, <2>2, TypedIf DEF RemoveAlertState, storeVars, sendVars, Typed, TypeOK
<1> QED
  BY <1>3, <1>4, <1>5

\* The delete-marker consumer takes a marker, unless the alert has a tick again.
LEMMA TakeMarkerTyped ==
  ASSUME Typed, NEW p \in Expirers, NEW a \in Alerts, TakeMarker(p, a)
  PROVE  Typed'
<1> DEFINE k == [Idle EXCEPT !.pc = "ttlRead", !.why = "ttl", !.alert = a,
                   !.state = "resolved", !.changed = TRUE, !.notify = TRUE]
<1>1. p \in Procs
  BY DEF Procs
<1>2. Becomes(p, Idle) \/ Becomes(p, k)
  BY DEF TakeMarker
<1>3. k \in Jobs
  BY IdleProper DEF Proper, Jobs, CardStates
<1>4. k.pc = "ttlRead" /\ k.alert = a /\ k.state = "resolved" /\ k.why = "ttl" /\ k.todo = {} /\ k.repeats = {}
  BY DEF Idle
<1> HIDE DEF k
<1>5. Proper(k)
  BY <1>3, <1>4 DEF Proper, Busy, Placed, CardStates
<1>6. Idle.why = "none" /\ Idle.pc = "idle"
  BY DEF Idle
<1>7. Goroutines' /\ overlaps' \subseteq Alerts
  BY <1>1, <1>2, <1>4, <1>5, <1>6, IdleProper, BecomesProper DEF Typed
<1> QED
  BY <1>7, TypedIf DEF TakeMarker, engineVars, sendVars, Typed, TypeOK

\* It reads the card and resolves it.
LEMMA ExpiredTyped ==
  ASSUME Typed, NEW p \in Procs, ReadExpired(p) \/ ResolveExpired(p)
  PROVE  Typed'
<1> DEFINE j == proc[p]
           a == j.alert
           c == cards[a]
<1>1. Proper(j) /\ j.pc \in {"ttlRead", "ttlWrite"} /\ j.pc \notin {"idle", "scan"} /\ a \in Alerts
      /\ j.state = "resolved" /\ j.why = "ttl"
  BY GoroutinesProper DEF Typed, ReadExpired, ResolveExpired, Proper, Busy, Placed
<1>2. Idle.why = "none" /\ Idle.pc = "idle"
  BY DEF Idle
<1>3. CASE ReadExpired(p)
  <2> DEFINE life == c.life
             k == [j EXCEPT !.pc = "ttlWrite", !.card = c, !.life = life]
  <2>1. \/ Becomes(p, Idle)
        \/ c.State \in {"pending", "firing"} /\ Becomes(p, k)
    BY <1>3 DEF ReadExpired
  <2>2. CASE Becomes(p, Idle)
    BY <1>2, <1>3, <2>2, IdleProper, BecomesProper, TypedIfStill DEF Typed, ReadExpired
  <2>3. CASE c.State \in {"pending", "firing"} /\ Becomes(p, k)
    <3>1. c \in Cards /\ c # NoCard /\ c.State # "resolved" /\ life \in Life
      BY <1>1, <2>3 DEF Typed, TypeOK, NoCard, Cards
    <3> HIDE DEF c, life
    <3>2. k \in Jobs
      BY <1>1, <3>1 DEF Proper, Jobs
    <3>3. k.pc = "ttlWrite" /\ k.alert = j.alert /\ k.state = j.state /\ k.why = j.why /\ k.todo = j.todo /\ k.repeats = j.repeats
          /\ k.card = c
      BY <1>1 DEF Proper, Jobs
    <3>4. Becomes(p, k)
      BY <2>3
    <3> HIDE DEF k
    <3>5. Proper(k)
      BY <1>1, <3>1, <3>2, <3>3, MovesProper
    <3> QED
      BY <1>1, <1>3, <3>3, <3>4, <3>5, MovesTyped, TypedIfStill DEF ReadExpired
  <2> QED
    BY <2>1, <2>2, <2>3
<1>4. CASE ResolveExpired(p)
  <2> DEFINE r == [j.card EXCEPT !.State = "resolved"]
             k == [j EXCEPT !.card = r]
  <2>1. \/ Put(a, r) /\ Becomes(p, Seed(k))
        \/ UNCHANGED <<cards, revision, moved>> /\ Becomes(p, Idle)
    BY <1>4, Zenon DEF ResolveExpired
  <2>2. j.pc = "ttlWrite"
    BY <1>4 DEF ResolveExpired
  <2>3. j.card \in Cards
    BY <1>1, <2>2 DEF Proper, Placed, Jobs
  <2>4. r \in Cards /\ r # NoCard /\ r.State = "resolved"
    BY <2>3 DEF Cards, NoCard, CardStates
  <2>5. Goroutines' /\ overlaps' \subseteq Alerts
    <3> HIDE DEF r
    <3>1. k \in Jobs
      BY <1>1, <2>4 DEF Proper, Jobs
    <3>2. k.pc = j.pc /\ k.alert = j.alert /\ k.state = j.state /\ k.why = j.why /\ k.todo = j.todo /\ k.repeats = j.repeats
          /\ k.card = r
      BY <1>1 DEF Proper, Jobs
    <3>3. Becomes(p, Seed(k)) \/ Becomes(p, Idle)
      BY <2>1
    <3> HIDE DEF k
    <3>4. Proper(k)
      <4>1. k.todo = {} /\ k.repeats = {}
        BY <1>1, <3>2 DEF Proper, Placed
      <4> QED
        BY <1>1, <2>2, <2>4, <3>1, <3>2, <4>1 DEF Proper, Busy, Placed
    <3> QED
      BY <1>1, <1>2, <3>2, <3>3, <3>4, IdleProper, EndsProper, BecomesProper DEF Typed
  <2>6. /\ cards' \in [Alerts -> {d \in Cards : d.rev # 0} \cup {NoCard}]
        /\ revision' \in Nat /\ moved' \in [Alerts -> [CardStates -> Nat]]
    BY <1>1, <2>1, <2>4, PutTypes DEF Typed, TypeOK
  <2> QED
    BY <1>4, <2>5, <2>6, TypedIf DEF ResolveExpired, engineVars, sendVars, Typed, TypeOK
<1> QED
  BY <1>3, <1>4

\* An instance starts anew, and in memory the store with it.
LEMMA RestartTyped ==
  ASSUME Typed, NEW i \in Instances, Restart(i)
  PROVE  Typed'
<1>1. \A p \in Procs : proc'[p] = Idle \/ proc'[p] = proc[p]
  BY DEF Restart
<1>2. Idle.why = "none" /\ Idle.pc = "idle"
  BY DEF Idle
<1>3. proc' \in [Procs -> Jobs]
  BY <1>1, IdleProper DEF Restart, Typed, Goroutines, Proper
<1>4. ASSUME NEW p \in Procs PROVE Busy(proc'[p]) /\ Placed(proc'[p]) /\ Expiring(p)'
  BY <1>1, <1>2, IdleProper DEF Typed, Goroutines, Proper, Expiring
<1>5. Goroutines'
  BY <1>3, <1>4 DEF Goroutines, Expiring
<1>6. cards' \in [Alerts -> {d \in Cards : d.rev # 0} \cup {NoCard}] /\ ticks' \subseteq Alerts
  BY DEF Restart, Typed, TypeOK
<1>7. markers' \subseteq Alerts
  <2>1. ASSUME NEW p \in Procs, p \in Expirers, proc[p].pc # "idle" PROVE proc[p].alert \in Alerts
    BY <2>1 DEF Typed, Goroutines, Busy, Expiring
  <2> QED
    BY <2>1 DEF Restart, Typed, TypeOK
<1>8. engine' \in [Instances -> [Alerts -> Entries]]
  BY DEF Restart, Typed, TypeOK, Entries
<1>9. restarts' \in 0..MaxRestarts
  BY Bounds DEF Restart, Typed, TypeOK
<1>10. UNCHANGED <<rule, lives, revision, moved, sent, sends, errors, overlaps>>
  BY DEF Restart, sendVars
<1> QED
  BY <1>5, <1>6, <1>7, <1>8, <1>9, <1>10 DEF Typed, TypeOK, Goroutines, Busy

\* All at rest, with an empty store, is well typed.
LEMMA InitTyped == Init => Typed
<1> SUFFICES ASSUME Init PROVE Typed
  OBVIOUS
<1>1. Goroutines
  BY IdleProper DEF Init, Goroutines, Proper, Expiring, Idle
<1>2. /\ engine \in [Instances -> [Alerts -> Entries]] /\ lives \in [Alerts -> Life]
      /\ cards \in [Alerts -> {c \in Cards : c.rev # 0} \cup {NoCard}]
  BY Bounds DEF Init, Entries
<1>3. sent \in [Alerts -> [Life -> [Kind -> Nat]]]
  BY DEF Init, Life
<1>4. moved \in [Alerts -> [CardStates -> Nat]]
  BY DEF Init, CardStates
<1> QED
  BY <1>1, <1>2, <1>3, <1>4, Bounds DEF Init, Typed, TypeOK, Goroutines, Busy, Reference, None

\* Every step keeps the types.
LEMMA StepTyped ==
  ASSUME Typed, Next
  PROVE  Typed'
<1>1. ASSUME NEW p \in Procs, Step(p) PROVE Typed'
  BY <1>1, NextDecisionTyped, NextRepeatTyped, EndTickTyped, GetAlertIdentityTyped,
     RefreshTickTyped, ReadCardTyped, WriteCardTyped, ResolveConflictTyped,
     SeedExternalRefsTyped, MuteTyped, PrepareNotificationTyped, SendTyped, SendFailsTyped,
     CaptureDeliveryEffectsTyped, ReadRefsTyped, WriteRefsTyped, DeletionTyped, ExpiredTyped
     DEF Step
<1>2. ASSUME NEW a \in Alerts, ExpireTick(a) PROVE Typed'
  <2>1. UNCHANGED <<rule, engine, lives, cards, revision, moved, proc, sent, sends, errors, restarts, overlaps>>
    BY <1>2 DEF ExpireTick, engineVars, sendVars
  <2>2. ticks' \subseteq Alerts /\ markers' \subseteq Alerts
    BY <1>2 DEF ExpireTick, Typed, TypeOK
  <2> QED
    BY <2>1, <2>2 DEF Typed, TypeOK, Goroutines, Busy, Placed, Expiring
<1> QED
  BY <1>1, <1>2, EventTyped, TickTyped, TakeMarkerTyped, RestartTyped DEF Next

\* So does a step that changes nothing.
LEMMA StutterTyped ==
  ASSUME Typed, UNCHANGED vars
  PROVE  Typed'
<1>1. UNCHANGED <<rule, engine, lives, cards, ticks, markers, revision, moved, proc, sent, sends, errors,
                  restarts, overlaps>>
  BY DEF vars, engineVars, storeVars, sendVars
<1> QED
  BY <1>1 DEF Typed, TypeOK, Goroutines, Busy, Placed, Expiring

\* Engines, store and goroutines keep their shape, with either store.
THEOREM ManagerTypeCorrect == Spec => []TypeOK
<1>1. Typed /\ [Next]_vars => Typed'
  BY StepTyped, StutterTyped
<1>2. Typed => TypeOK
  BY DEF Typed
<1> QED
  BY <1>1, <1>2, InitTyped, PTL DEF Spec

-----------------------------------------------------------------------------
(* Turns: what becomes of a goroutine's job in a step.                     *)

Stays(o, k) ==
  /\ k.alert = o.alert /\ k.state = o.state /\ k.why = o.why /\ k.changed = o.changed
  /\ k.todo = o.todo /\ k.repeats = o.repeats
\* The job ends; what is left of a tick goes on.
Ended(o, k) ==
  /\ k.pc \in {"idle", "scan", "flush"} /\ k.alert \in {o.alert, "none"}
  /\ k.todo = o.todo /\ k.repeats = o.repeats
Closed(o, k) ==
  \/ o.state = "resolved" /\ k.pc = "delete" /\ Stays(o, k)
  \/ o.state # "resolved" /\ Ended(o, k)
\* notify says whether the job may send a message.
Announced(o, k, notify) ==
  \/ Closed(o, k)
  \/ notify /\ o.changed /\ o.state # "pending" /\ k.pc = "prepare" /\ Stays(o, k)
Seeded(o, k, notify) ==
  \/ Announced(o, k, notify)
  \/ k.pc = "seed" /\ Stays(o, k) /\ k.notify = notify

\* What Finish, Close, Notify and Seed make of a job.
LEMMA EndTurns ==
  ASSUME NEW j, Proper(j), j.pc \notin {"idle", "scan"}
  PROVE  /\ Ended(j, Finish(j)) /\ Closed(j, Close(j))
         /\ Announced(j, Notify(j), j.notify) /\ Seeded(j, Seed(j), j.notify)
<1>1. Ended(j, Finish(j))
  BY FinishShape DEF Ended
<1>2. Closed(j, Close(j))
  <2>1. CASE j.state = "resolved"
    <3>1. Close(j) = [j EXCEPT !.pc = "delete", !.card = NoCard, !.ref = None]
      BY <2>1 DEF Close
    <3>2. Close(j).pc = "delete" /\ Stays(j, Close(j))
      BY <3>1 DEF Proper, Jobs, Stays
    <3> QED
      BY <2>1, <3>2 DEF Closed
  <2> QED
    BY <1>1, <2>1 DEF Closed, Close
<1>3. Announced(j, Notify(j), j.notify)
  <2>1. CASE j.changed /\ j.notify /\ j.state # "pending"
    <3>1. Notify(j) = [j EXCEPT !.pc = "prepare", !.card = NoCard]
      BY <2>1 DEF Notify
    <3>2. Notify(j).pc = "prepare" /\ Stays(j, Notify(j))
      BY <3>1 DEF Proper, Jobs, Stays
    <3> QED
      BY <2>1, <3>2 DEF Announced
  <2> QED
    BY <1>2, <2>1 DEF Announced, Notify
<1>4. Seeded(j, Seed(j), j.notify)
  <2>1. CASE Seed(j) = [j EXCEPT !.pc = "seed"]
    <3>1. Seed(j).pc = "seed" /\ Stays(j, Seed(j)) /\ Seed(j).notify = j.notify
      BY <2>1 DEF Proper, Jobs, Stays
    <3> QED
      BY <3>1 DEF Seeded
  <2> QED
    BY <1>3, <2>1 DEF Seeded, Seed
<1> QED
  BY <1>1, <1>2, <1>3, <1>4

\* Who goes on is the only one.
LEMMA OnlyOne ==
  ASSUME Typed, NEW p \in Procs, NEW j, Becomes(p, j)
  PROVE  proc'[p] = j /\ \A q \in Procs \ {p} : proc'[q] = proc[q]
BY DEF Becomes, Typed, TypeOK

\* The steps that leave the cards and the messages alone.
Still == UNCHANGED <<cards, revision, moved, sent>>

\* An event, a tick or a marker gives a goroutine at rest its job.
LEMMA StartTurns ==
  ASSUME Typed, NEW p \in Procs,
         \/ p \in Workers /\ \E a \in Alerts : Event(p, a)
         \/ p \in Tickers /\ Tick(p)
         \/ p \in Expirers /\ \E a \in Alerts : TakeMarker(p, a)
  PROVE  /\ Still /\ UNCHANGED <<errors, restarts>>
         /\ proc[p].pc = "idle" /\ proc'[p].pc \in {"idle", "scan", "identity", "ttlRead"}
         /\ \A q \in Procs \ {p} : proc'[q] = proc[q]
<1>1. ASSUME NEW a \in Alerts, Event(p, a)
      PROVE  \/ proc' = proc
             \/ \E d, late : Becomes(p, Carry("event", d, late))
  BY <1>1 DEF Event
<1>2. \A d, late : Carry("event", d, late).pc = "identity"
  BY DEF Carry, Idle
<1>3. CASE \E a \in Alerts : Event(p, a)
  <2>1. proc[p].pc = "idle" /\ Still /\ UNCHANGED <<errors, restarts>>
    BY <1>3 DEF Event, Still, storeVars, sendVars
  <2>2. CASE proc' = proc
    BY <2>1, <2>2
  <2>3. CASE \E d, late : Becomes(p, Carry("event", d, late))
    BY <1>2, <2>1, <2>3, OnlyOne
  <2> QED
    BY <1>1, <1>3, <2>2, <2>3
<1>4. CASE Tick(p)
  <2>1. PICK todo, repeats : Becomes(p, [Idle EXCEPT !.pc = "scan", !.todo = todo, !.repeats = repeats])
    BY <1>4 DEF Tick
  <2>2. [Idle EXCEPT !.pc = "scan", !.todo = todo, !.repeats = repeats].pc = "scan"
    BY DEF Idle
  <2>3. proc[p].pc = "idle" /\ Still /\ UNCHANGED <<errors, restarts>>
    BY <1>4 DEF Tick, Still, storeVars, sendVars
  <2> QED
    BY <2>1, <2>2, <2>3, OnlyOne
<1>5. CASE \E a \in Alerts : TakeMarker(p, a)
  <2>1. PICK a \in Alerts : TakeMarker(p, a)
    BY <1>5
  <2> DEFINE k == [Idle EXCEPT !.pc = "ttlRead", !.why = "ttl", !.alert = a,
                     !.state = "resolved", !.changed = TRUE, !.notify = TRUE]
  <2>2. Becomes(p, Idle) \/ Becomes(p, k)
    BY <2>1 DEF TakeMarker
  <2>3. Idle.pc = "idle" /\ k.pc = "ttlRead"
    BY DEF Idle
  <2>4. proc[p].pc = "idle" /\ Still /\ UNCHANGED <<errors, restarts>>
    BY <2>1 DEF TakeMarker, Still, sendVars
  <2> HIDE DEF k
  <2> QED
    BY <2>2, <2>3, <2>4, OnlyOne
<1> QED
  BY <1>3, <1>4, <1>5

\* A tick goes through its decisions and its repeats.
LEMMA ScanTurns ==
  ASSUME Typed, NEW p \in Procs, NextDecision(p) \/ NextRepeat(p) \/ EndTick(p)
  PROVE  /\ Still /\ UNCHANGED <<errors, restarts>>
         /\ proc[p].pc = "scan" /\ proc'[p].pc \in {"idle", "scan", "identity", "prepare"}
         /\ proc'[p].pc = "prepare" => proc'[p].why = "repeat"
         /\ \A q \in Procs \ {p} : proc'[q] = proc[q]
<1>1. proc[p].pc = "scan" /\ Still /\ UNCHANGED <<errors, restarts>> /\ Proper(proc[p])
  BY GoroutinesProper DEF NextDecision, NextRepeat, EndTick, Still, storeVars, sendVars, Typed
<1>2. CASE NextDecision(p)
  <2>1. PICK d, todo, repeats :
          Becomes(p, [Carry("decision", d, FALSE) EXCEPT !.todo = todo, !.repeats = repeats])
    BY <1>2 DEF NextDecision
  <2>2. [Carry("decision", d, FALSE) EXCEPT !.todo = todo, !.repeats = repeats].pc = "identity"
    BY DEF Carry, Idle
  <2> QED
    BY <1>1, <2>1, <2>2, OnlyOne
<1>3. CASE NextRepeat(p)
  <2>1. PICK a \in proc[p].repeats :
        \/ Becomes(p, [[proc[p] EXCEPT !.repeats = @ \ {a}]
             EXCEPT !.pc = "prepare", !.why = "repeat", !.alert = a,
                    !.state = "firing", !.life = Entry(p, a).life])
        \/ Becomes(p, [proc[p] EXCEPT !.repeats = @ \ {a}])
    BY <1>3 DEF NextRepeat
  <2> DEFINE j == [proc[p] EXCEPT !.repeats = @ \ {a}]
             k == [j EXCEPT !.pc = "prepare", !.why = "repeat", !.alert = a,
                            !.state = "firing", !.life = Entry(p, a).life]
  <2>2. j.pc = "scan" /\ k.pc = "prepare" /\ k.why = "repeat"
    BY <1>1 DEF Proper, Jobs
  <2>3. Becomes(p, j) \/ Becomes(p, k)
    BY <2>1
  <2> HIDE DEF j, k
  <2> QED
    BY <1>1, <2>2, <2>3, OnlyOne
<1>4. CASE EndTick(p)
  <2>1. proc' = [proc EXCEPT ![p] = Idle]
    BY <1>4 DEF EndTick
  <2>2. proc'[p] = Idle /\ \A q \in Procs \ {p} : proc'[q] = proc[q]
    BY <2>1 DEF Typed, TypeOK
  <2> QED
    BY <1>1, <2>2 DEF Idle
<1> QED
  BY <1>2, <1>3, <1>4

\* The way of a decision to its card.
LEMMA LookupTurns ==
  ASSUME Typed, NEW p \in Procs, GetAlertIdentity(p) \/ RefreshTick(p) \/ ReadCard(p)
  PROVE  LET o == proc[p]
             k == proc'[p]
         IN  /\ Still /\ UNCHANGED <<errors, restarts>>
             /\ o.pc \in {"identity", "refresh", "flush", "read"}
             /\ \/ /\ Ended(o, k)
                   /\ o.pc # "read" /\ (o.pc = "flush" \/ ~o.changed \/ ~HasEntry(p, o.alert))
                \/ k.pc \in {"refresh", "read"} /\ Stays(o, k)
                \/ k.pc = "write" /\ Stays(o, k) /\ k.card = cards[k.alert]
             /\ \A q \in Procs \ {p} : proc'[q] = proc[q]
<1> DEFINE o == proc[p]
           early == [o EXCEPT !.late = FALSE]
           refresh == [o EXCEPT !.pc = "refresh"]
           read == [o EXCEPT !.pc = "read"]
           write == [o EXCEPT !.pc = "write", !.card = cards[o.alert]]
<1>1. /\ o.pc \in {"identity", "refresh", "flush", "read"} /\ Still /\ UNCHANGED <<errors, restarts>>
      /\ Proper(o) /\ o.pc \notin {"idle", "scan"}
  BY GoroutinesProper
     DEF GetAlertIdentity, RefreshTick, ReadCard, Still, storeVars, sendVars, Typed
<1>2. \/ (o.pc # "read" /\ ~HasEntry(p, o.alert) /\ Becomes(p, Finish(early)))
      \/ (o.pc # "read" /\ ~o.changed /\ Becomes(p, Finish(o)))
      \/ (o.pc = "flush" /\ Becomes(p, Idle))
      \/ Becomes(p, refresh) \/ Becomes(p, read) \/ Becomes(p, write)
  <2>1. GetAlertIdentity(p) => \/ (o.pc # "read" /\ ~HasEntry(p, o.alert) /\ Becomes(p, Finish(early)))
                               \/ (o.pc # "read" /\ ~o.changed /\ Becomes(p, Finish(o)))
                               \/ Becomes(p, refresh) \/ Becomes(p, read)
    BY DEF GetAlertIdentity
  <2>2. RefreshTick(p) => \/ (o.pc = "flush" /\ Becomes(p, Idle))
                          \/ (o.pc # "read" /\ ~o.changed /\ Becomes(p, Finish(o)))
                          \/ Becomes(p, read)
    BY DEF RefreshTick
  <2>3. ReadCard(p) => Becomes(p, write)
    BY DEF ReadCard
  <2> QED
    BY <2>1, <2>2, <2>3
<1>3. /\ refresh.pc = "refresh" /\ Stays(o, refresh) /\ read.pc = "read" /\ Stays(o, read)
      /\ write.pc = "write" /\ Stays(o, write) /\ write.card = cards[write.alert]
  BY <1>1 DEF Proper, Jobs, Stays
<1>4. early \in Jobs /\ early.pc = o.pc /\ Stays(o, early) /\ early.card = o.card
  BY <1>1 DEF Proper, Jobs, Stays
<1>5. Ended(o, Finish(early)) /\ Ended(o, Finish(o))
  <2>1. Proper(early)
    BY <1>1, <1>4 DEF Proper, Busy, Placed, Stays
  <2> QED
    BY <1>1, <1>4, <2>1, EndTurns DEF Ended, Stays
<1>6. o.pc = "flush" => Ended(o, Idle)
  BY <1>1 DEF Ended, Proper, Placed, Idle
<1> HIDE DEF early, refresh, read, write
<1> QED
  BY <1>1, <1>2, <1>3, <1>5, <1>6, OnlyOne

\* A decision writes its card and goes on to the notification, or meets a conflict.
LEMMA WriteCardTurns ==
  ASSUME Typed, NEW p \in Procs, WriteCard(p), Store = "nats" \/ UNCHANGED errors
  PROVE  LET o == proc[p]
             k == proc'[p]
         IN  /\ o.pc = "write" /\ UNCHANGED <<sent, errors, restarts>>
             /\ \/ /\ SameRevision(o.card, o.alert) /\ Put(o.alert, Written(o))
                   /\ Seeded(o, k, AllowNotify(o.card, o.state))
                \/ UNCHANGED <<cards, revision, moved>> /\ k.pc = "conflict" /\ Stays(o, k)
             /\ \A q \in Procs \ {p} : proc'[q] = proc[q]
<1> DEFINE o == proc[p]
           k == proc'[p]
<1>1. Proper(o) /\ o.pc = "write" /\ o.pc \notin {"idle", "scan"} /\ UNCHANGED <<sent, restarts>>
  BY GoroutinesProper DEF WriteCard, Typed
<1>2. CASE SameRevision(o.card, o.alert)
  <2> DEFINE c == Written(o)
             n == AllowNotify(o.card, o.state)
             next == [o EXCEPT !.card = c, !.notify = n]
  <2>1. Put(o.alert, c) /\ Becomes(p, Seed(next)) /\ UNCHANGED errors
    BY <1>2 DEF WriteCard
  <2>2. c \in Cards /\ n \in BOOLEAN
    BY <1>1, WrittenTypes DEF AllowNotify
  <2> HIDE DEF c, n
  <2>3. next \in Jobs /\ next.pc = "write" /\ Stays(o, next) /\ next.notify = n
    BY <1>1, <2>2 DEF Proper, Jobs, Stays
  <2> HIDE DEF next
  <2>4. Proper(next)
    BY <1>1, <2>3, MovesProper DEF Stays
  <2>5. Seeded(next, Seed(next), n)
    BY <2>3, <2>4, EndTurns
  <2>6. Seeded(o, Seed(next), n)
    BY <2>3, <2>5 DEF Seeded, Announced, Closed, Ended, Stays
  <2> QED
    BY <1>1, <1>2, <2>1, <2>6, OnlyOne DEF c, n
<1>3. CASE ~SameRevision(o.card, o.alert)
  <2> DEFINE next == [o EXCEPT !.pc = "conflict", !.card = NoCard]
  <2>1. UNCHANGED <<cards, revision, moved, errors>> /\ Becomes(p, next)
    BY <1>3 DEF WriteCard, NotFound, Fail, Typed, TypeOK
  <2>2. next.pc = "conflict" /\ Stays(o, next)
    BY <1>1 DEF Proper, Jobs, Stays
  <2> HIDE DEF next
  <2> QED
    BY <1>1, <2>1, <2>2, OnlyOne
<1> QED
  BY <1>2, <1>3

\* Another writer's card is taken over without a message, and its reference before one.
LEMMA TakeOverTurns ==
  ASSUME Typed, NEW p \in Procs, ResolveConflict(p) \/ SeedExternalRefs(p)
  PROVE  LET o == proc[p]
             k == proc'[p]
         IN  /\ Still /\ UNCHANGED <<errors, restarts>>
             /\ \/ o.pc = "conflict" /\ Seeded(o, k, FALSE)
                \/ o.pc = "seed" /\ Announced(o, k, o.notify)
             /\ \A q \in Procs \ {p} : proc'[q] = proc[q]
<1> DEFINE o == proc[p]
<1>1. /\ Still /\ UNCHANGED <<errors, restarts>> /\ Proper(o) /\ o.pc \in {"conflict", "seed"}
      /\ o.pc \notin {"idle", "scan"} /\ o.alert \in Alerts
  BY GoroutinesProper
     DEF ResolveConflict, SeedExternalRefs, Still, storeVars, sendVars, Typed, Proper, Busy
<1>2. CASE ResolveConflict(p)
  <2> DEFINE c == cards[o.alert]
             next == [o EXCEPT !.notify = FALSE, !.card = c]
  <2>1. o.pc = "conflict" /\ Becomes(p, Seed(next))
    BY <1>2 DEF ResolveConflict
  <2>2. c \in Cards \cup {NoCard}
    BY <1>1 DEF Typed, TypeOK
  <2> HIDE DEF c
  <2>3. next \in Jobs /\ next.pc = "conflict" /\ Stays(o, next) /\ next.notify = FALSE
    BY <1>1, <2>1, <2>2 DEF Proper, Jobs, Stays
  <2> HIDE DEF next
  <2>4. Proper(next)
    BY <1>1, <2>3, MovesProper DEF Stays
  <2>5. Seeded(next, Seed(next), FALSE)
    BY <2>3, <2>4, EndTurns
  <2>6. Seeded(o, Seed(next), FALSE)
    BY <2>3, <2>5 DEF Seeded, Announced, Closed, Ended, Stays
  <2> QED
    BY <1>1, <2>1, <2>6, OnlyOne
<1>3. CASE SeedExternalRefs(p)
  <2>1. o.pc = "seed" /\ Becomes(p, Notify(o))
    BY <1>3 DEF SeedExternalRefs
  <2> QED
    BY <1>1, <2>1, EndTurns, OnlyOne
<1> QED
  BY <1>2, <1>3

\* A message is kept back or prepared, sent and noted, and its reference persisted if it has one.
LEMMA DeliveryTurns ==
  ASSUME Typed, NEW p \in Procs,
         Mute(p) \/ PrepareNotification(p) \/ Send(p) \/ CaptureDeliveryEffects(p)
  PROVE  LET o == proc[p]
             k == proc'[p]
         IN  /\ UNCHANGED <<cards, revision, moved, errors, restarts>>
             /\ \/ o.pc = "prepare" /\ Still /\ k.pc = "send" /\ Stays(o, k)
                \/ o.pc = "send" /\ k.pc = "effects" /\ Stays(o, k)
                \/ o.pc = "effects" /\ Still /\ o.state # "resolved" /\ k.pc = "refs" /\ Stays(o, k)
                \/ o.pc \in {"prepare", "effects"} /\ (Mute(p) \/ Still) /\ Closed(o, k)
             /\ \A q \in Procs \ {p} : proc'[q] = proc[q]
<1> DEFINE o == proc[p]
<1>1. /\ UNCHANGED <<cards, revision, moved, errors, restarts>> /\ (Mute(p) \/ Send(p) \/ Still)
      /\ Proper(o) /\ o.pc \notin {"idle", "scan"}
  BY GoroutinesProper
     DEF Mute, PrepareNotification, Send, CaptureDeliveryEffects, Still, storeVars, sendVars, Typed
<1>2. CASE PrepareNotification(p)
  <2> DEFINE ref == IF HasEntry(p, o.alert) THEN Entry(p, o.alert).ref ELSE None
             next == [o EXCEPT !.pc = "send", !.ref = ref]
  <2>1. o.pc = "prepare" /\ Still /\ (Becomes(p, Close(o)) \/ Becomes(p, next))
    BY <1>2 DEF PrepareNotification, Still, storeVars, sendVars
  <2> HIDE DEF ref
  <2>2. next.pc = "send" /\ Stays(o, next)
    BY <1>1 DEF Proper, Jobs, Stays
  <2> HIDE DEF next
  <2> QED
    BY <1>1, <2>1, <2>2, EndTurns, OnlyOne
<1>3. CASE Send(p)
  <2> DEFINE ref == ResultRef(o)
             next == [o EXCEPT !.pc = "effects", !.ref = ref]
  <2>1. o.pc = "send" /\ Becomes(p, next)
    BY <1>3 DEF Send
  <2> HIDE DEF ref
  <2>2. next.pc = "effects" /\ Stays(o, next)
    BY <1>1 DEF Proper, Jobs, Stays
  <2> HIDE DEF next
  <2> QED
    BY <1>1, <2>1, <2>2, OnlyOne
<1>4. CASE CaptureDeliveryEffects(p)
  <2> DEFINE next == [o EXCEPT !.pc = "refs"]
  <2>1. o.pc = "effects" /\ Still /\ (Becomes(p, Close(o)) \/ (o.state # "resolved" /\ Becomes(p, next)))
    BY <1>4 DEF CaptureDeliveryEffects, HasUpdates, Still, storeVars, sendVars
  <2>2. next.pc = "refs" /\ Stays(o, next)
    BY <1>1 DEF Proper, Jobs, Stays
  <2> HIDE DEF next
  <2> QED
    BY <1>1, <2>1, <2>2, EndTurns, OnlyOne
<1>5. CASE Mute(p)
  <2>1. o.pc = "prepare" /\ Becomes(p, Close(o))
    BY <1>5 DEF Mute
  <2> QED
    BY <1>1, <1>5, <2>1, EndTurns, OnlyOne
<1> QED
  BY <1>2, <1>3, <1>4, <1>5

\* A failed send is counted.
LEMMA FailureTurns ==
  ASSUME Typed, NEW p \in Procs, SendFails(p)
  PROVE  /\ Still /\ errors' = errors + 1 /\ UNCHANGED restarts /\ proc[p].pc = "send"
         /\ proc'[p].pc \in {"idle", "scan", "flush", "delete"}
         /\ \A q \in Procs \ {p} : proc'[q] = proc[q]
<1>1. /\ Still /\ errors' = errors + 1 /\ UNCHANGED restarts /\ proc[p].pc = "send"
      /\ Becomes(p, Abandon(proc[p])) /\ Proper(proc[p])
  BY GoroutinesProper DEF SendFails, Fail, Still, storeVars, Typed
<1> QED
  BY <1>1, AbandonShape, OnlyOne

\* References are read and written under the revision.
LEMMA RefTurns ==
  ASSUME Typed, Store = "nats", NEW p \in Procs, ReadRefs(p) \/ WriteRefs(p)
  PROVE  LET o == proc[p]
             k == proc'[p]
         IN  /\ UNCHANGED <<sent, restarts>>
             /\ \/ o.pc = "refs" /\ Still /\ UNCHANGED errors /\ Ended(o, k)
                \/ /\ o.pc = "refs" /\ Still /\ UNCHANGED errors
                   /\ k.pc = "refsWrite" /\ Stays(o, k)
                   /\ cards[o.alert] # NoCard /\ k.card.rev = cards[o.alert].rev
                   /\ k.card.State = cards[o.alert].State
                \/ /\ o.pc = "refsWrite" /\ SameRevision(o.card, o.alert) /\ Put(o.alert, o.card)
                   /\ UNCHANGED errors /\ Ended(o, k)
                \/ o.pc = "refsWrite" /\ Still /\ UNCHANGED errors /\ k.pc = "refs" /\ Stays(o, k)
                \/ /\ o.pc = "refsWrite" /\ Still /\ errors' = errors + 1
                   /\ k.pc \in {"idle", "scan", "flush", "delete"}
             /\ \A q \in Procs \ {p} : proc'[q] = proc[q]
<1> DEFINE o == proc[p]
<1>1. /\ UNCHANGED <<sent, restarts>> /\ Proper(o) /\ o.pc \notin {"idle", "scan"} /\ o.alert \in Alerts
  BY GoroutinesProper DEF ReadRefs, WriteRefs, sendVars, Typed, Proper, Busy
<1>2. CASE ReadRefs(p)
  <2> DEFINE c == cards[o.alert]
             new == IF c = NoCard THEN NoCard
                    ELSE [c EXCEPT !.ref = o.ref, !.map = IF @ = None THEN o.ref ELSE @]
             next == [o EXCEPT !.pc = "refsWrite", !.card = new]
  <2>1. /\ o.pc = "refs" /\ Still /\ UNCHANGED errors
        /\ Becomes(p, IF c = NoCard \/ c = new THEN Finish(o) ELSE next)
    BY <1>2 DEF ReadRefs, Still, sendVars
  <2>2. c # NoCard => new.rev = c.rev /\ new.State = c.State
    BY <1>1 DEF Typed, TypeOK, Cards
  <2> HIDE DEF new
  <2>3. next.pc = "refsWrite" /\ Stays(o, next) /\ next.card = new
    BY <1>1 DEF Proper, Jobs, Stays
  <2> HIDE DEF next
  <2>4. CASE Becomes(p, Finish(o))
    BY <1>1, <2>1, <2>4, EndTurns, OnlyOne
  <2>5. CASE c # NoCard /\ Becomes(p, next)
    BY <1>1, <2>1, <2>2, <2>3, <2>5, OnlyOne
  <2> QED
    BY <2>1, <2>4, <2>5
<1>3. CASE WriteRefs(p)
  <2> DEFINE next == [o EXCEPT !.pc = "refs", !.card = NoCard, !.tries = @ + 1]
  <2>1. o.pc = "refsWrite"
    BY <1>3 DEF WriteRefs
  <2>2. \/ SameRevision(o.card, o.alert) /\ Put(o.alert, o.card) /\ Becomes(p, Finish(o)) /\ UNCHANGED errors
        \/ Still /\ Fail(p, o)
        \/ Still /\ Becomes(p, next) /\ UNCHANGED errors
    BY <1>3 DEF WriteRefs, RefsUnchanged, Still
  <2>3. next.pc = "refs" /\ Stays(o, next)
    BY <1>1 DEF Proper, Jobs, Stays
  <2> HIDE DEF next
  <2>4. CASE SameRevision(o.card, o.alert) /\ Put(o.alert, o.card) /\ Becomes(p, Finish(o)) /\ UNCHANGED errors
    BY <1>1, <2>1, <2>4, EndTurns, OnlyOne
  <2>5. CASE Still /\ Fail(p, o)
    BY <1>1, <2>1, <2>5, AbandonShape, OnlyOne DEF Fail
  <2>6. CASE Still /\ Becomes(p, next) /\ UNCHANGED errors
    BY <1>1, <2>1, <2>3, <2>6, OnlyOne
  <2> QED
    BY <2>2, <2>4, <2>5, <2>6
<1> QED
  BY <1>2, <1>3

\* A resolve deletes its card, and nothing else does.
LEMMA DeletionTurns ==
  ASSUME Typed, NEW p \in Procs, DeleteCard(p) \/ DeleteTick(p) \/ RemoveAlertState(p)
  PROVE  LET o == proc[p]
             k == proc'[p]
         IN  /\ UNCHANGED <<revision, moved, sent, errors, restarts>> /\ o.state = "resolved"
             /\ \/ /\ o.pc = "delete" /\ cards' = [cards EXCEPT ![o.alert] = NoCard]
                   /\ k.pc = (IF Store = "memory" THEN "remove" ELSE "deleteTick") /\ Stays(o, k)
                \/ o.pc = "deleteTick" /\ UNCHANGED cards /\ k.pc = "remove" /\ Stays(o, k)
                \/ o.pc = "remove" /\ UNCHANGED cards /\ Ended(o, k)
             /\ \A q \in Procs \ {p} : proc'[q] = proc[q]
<1> DEFINE o == proc[p]
           after == IF Store = "memory" THEN "remove" ELSE "deleteTick"
           next == [o EXCEPT !.pc = after]
           last == [o EXCEPT !.pc = "remove"]
<1>1. /\ UNCHANGED <<revision, moved, sent, errors, restarts>> /\ Proper(o)
      /\ o.pc \in {"delete", "deleteTick", "remove"} /\ o.state = "resolved"
  BY GoroutinesProper
     DEF DeleteCard, DeleteTick, RemoveAlertState, storeVars, sendVars, Typed, Proper, Placed
<1>2. next.pc = after /\ Stays(o, next) /\ last.pc = "remove" /\ Stays(o, last)
  BY <1>1 DEF Proper, Jobs, Stays
<1>3. \/ o.pc = "delete" /\ cards' = [cards EXCEPT ![o.alert] = NoCard] /\ Becomes(p, next)
      \/ o.pc = "deleteTick" /\ UNCHANGED cards /\ Becomes(p, last)
      \/ o.pc = "remove" /\ UNCHANGED cards /\ Becomes(p, Finish(o))
  <2>1. DeleteCard(p) => o.pc = "delete" /\ cards' = [cards EXCEPT ![o.alert] = NoCard] /\ Becomes(p, next)
    BY DEF DeleteCard
  <2>2. DeleteTick(p) => o.pc = "deleteTick" /\ UNCHANGED cards /\ Becomes(p, last)
    BY DEF DeleteTick
  <2>3. RemoveAlertState(p) => o.pc = "remove" /\ UNCHANGED cards /\ Becomes(p, Finish(o))
    BY DEF RemoveAlertState, storeVars
  <2> QED
    BY <2>1, <2>2, <2>3
<1> HIDE DEF next, last
<1> QED
  BY <1>1, <1>2, <1>3, EndTurns, OnlyOne

\* A TTL resolve reads an active card and resolves it under the revision.
LEMMA ExpiryTurns ==
  ASSUME Typed, NEW p \in Procs, ReadExpired(p) \/ ResolveExpired(p)
  PROVE  LET o == proc[p]
             k == proc'[p]
         IN  /\ UNCHANGED <<sent, errors, restarts>> /\ o.state = "resolved" /\ o.why = "ttl"
             /\ \/ o.pc \in {"ttlRead", "ttlWrite"} /\ Still /\ k.pc = "idle"
                \/ /\ o.pc = "ttlRead" /\ Still /\ k.pc = "ttlWrite" /\ Stays(o, k)
                   /\ k.card = cards[k.alert] /\ k.card.State \in {"pending", "firing"}
                \/ /\ o.pc = "ttlWrite" /\ SameRevision(o.card, o.alert)
                   /\ Put(o.alert, [o.card EXCEPT !.State = "resolved"])
                   /\ Seeded(o, k, o.notify)
             /\ \A q \in Procs \ {p} : proc'[q] = proc[q]
<1> DEFINE o == proc[p]
<1>1. /\ UNCHANGED <<sent, errors, restarts>> /\ Proper(o) /\ o.state = "resolved" /\ o.why = "ttl"
      /\ o.pc \in {"ttlRead", "ttlWrite"}
  BY GoroutinesProper DEF ReadExpired, ResolveExpired, sendVars, Typed, Proper, Placed
<1>2. Idle.pc = "idle"
  BY DEF Idle
<1>3. CASE ReadExpired(p)
  <2> DEFINE c == cards[o.alert]
             next == [o EXCEPT !.pc = "ttlWrite", !.card = c, !.life = c.life]
  <2>1. /\ o.pc = "ttlRead" /\ Still
        /\ Becomes(p, Idle) \/ (c.State \in {"pending", "firing"} /\ Becomes(p, next))
    BY <1>3 DEF ReadExpired, Still, storeVars, sendVars
  <2>2. next.pc = "ttlWrite" /\ Stays(o, next) /\ next.card = c /\ next.alert = o.alert
    BY <1>1 DEF Proper, Jobs, Stays
  <2> HIDE DEF next
  <2> QED
    BY <1>1, <1>2, <2>1, <2>2, OnlyOne
<1>4. CASE ResolveExpired(p)
  <2> DEFINE c == [o.card EXCEPT !.State = "resolved"]
             next == [o EXCEPT !.card = c]
  <2>1. /\ o.pc = "ttlWrite"
        /\ \/ SameRevision(o.card, o.alert) /\ Put(o.alert, c) /\ Becomes(p, Seed(next))
           \/ Still /\ Becomes(p, Idle)
    <3>1. \/ SameRevision(o.card, o.alert) /\ Put(o.alert, c) /\ Becomes(p, Seed(next))
          \/ UNCHANGED <<cards, revision, moved>> /\ Becomes(p, Idle)
      BY <1>4, Zenon DEF ResolveExpired
    <3> QED
      BY <1>1, <1>4, <3>1 DEF ResolveExpired, Still
  <2>2. c \in Cards /\ c # NoCard
    BY <1>1, <2>1 DEF Proper, Placed, Jobs, Cards, NoCard, CardStates
  <2> HIDE DEF c
  <2>3. next \in Jobs /\ next.pc = "ttlWrite" /\ Stays(o, next) /\ next.notify = o.notify /\ next.card = c
    BY <1>1, <2>1, <2>2 DEF Proper, Jobs, Stays
  <2> HIDE DEF next
  <2>4. Proper(next)
    BY <1>1, <2>2, <2>3, MovesProper DEF Stays
  <2>5. Seeded(next, Seed(next), o.notify)
    BY <2>3, <2>4, EndTurns
  <2>6. Seeded(o, Seed(next), o.notify)
    BY <2>3, <2>5 DEF Seeded, Announced, Closed, Ended, Stays
  <2> QED
    BY <1>1, <1>2, <2>1, <2>6, OnlyOne DEF c
<1> QED
  BY <1>3, <1>4

-----------------------------------------------------------------------------
(* Revisions.  Those of NATS are the sequence of the stream: a revision    *)
(* never comes back, so whoever finds the revision it read finds the card. *)

Writing == {"write", "refsWrite", "ttlWrite"}
\* What a goroutine read stands, if its revision stands; a TTL resolve read an active card.
Current(q) ==
  LET j == proc[q]
  IN  j.pc \in Writing /\ j.card # NoCard =>
        /\ j.card.rev <= revision
        /\ cards[j.alert] # NoCard /\ cards[j.alert].rev = j.card.rev =>
             cards[j.alert].State = j.card.State
        /\ j.pc = "ttlWrite" => j.card.State # "resolved"
Versions ==
  /\ \A a \in Alerts : cards[a] # NoCard => cards[a].rev <= revision
  /\ \A q \in Procs : Current(q)
\* The same with what it takes to be inductive.
Sound == Typed /\ Versions

\* A write brings a revision that nobody holds, and counts if it changes the state.
LEMMA PutMakes ==
  ASSUME Typed, Store = "nats", NEW a \in Alerts, NEW c \in Cards, Put(a, c)
  PROVE  /\ revision' = revision + 1
         /\ cards'[a] # NoCard /\ cards'[a].rev = revision + 1 /\ cards'[a].State = c.State
         /\ \A b \in Alerts \ {a} : cards'[b] = cards[b]
         /\ \A b \in Alerts, s \in CardStates :
              moved'[b][s] = IF b = a /\ s = c.State /\ cards[a].State # s
                             THEN moved[b][s] + 1 ELSE moved[b][s]
<1> DEFINE rev == revision + 1
           new == [c EXCEPT !.rev = rev]
<1>1. cards' = [cards EXCEPT ![a] = new] /\ revision' = revision + 1 /\ rev \in Nat
  BY DEF Put, NextRevision, Typed, TypeOK
<1>2. new \in Cards /\ new.rev = revision + 1 /\ new.State = c.State
  <2>1. rev = revision + 1
    OBVIOUS
  <2> HIDE DEF rev
  <2> QED
    BY <1>1, <2>1 DEF Cards
<1>3. new # NoCard
  BY <1>2 DEF Cards, NoCard, CardStates
<1> HIDE DEF new
<1>4. ASSUME NEW b \in Alerts, NEW s \in CardStates
      PROVE  moved'[b][s] = IF b = a /\ s = c.State /\ cards[a].State # s
                            THEN moved[b][s] + 1 ELSE moved[b][s]
  <2>1. moved' = IF cards[a].State = c.State THEN moved
                 ELSE [moved EXCEPT ![a] = [moved[a] EXCEPT ![c.State] = @ + 1]]
    BY DEF Put
  <2>2. moved \in [Alerts -> [CardStates -> Nat]] /\ c.State \in CardStates
    BY DEF Typed, TypeOK, Cards
  <2> QED
    BY <2>1, <2>2
<1> QED
  BY <1>1, <1>2, <1>3, <1>4 DEF Typed, TypeOK

\* So do the versions survive a write of a goroutine that goes on to something else.
LEMMA PutVersions ==
  ASSUME Sound, Store = "nats", NEW p \in Procs, NEW a \in Alerts, NEW c \in Cards, Put(a, c),
         proc'[p].pc \notin Writing, \A q \in Procs \ {p} : proc'[q] = proc[q]
  PROVE  Versions'
<1>1. revision \in Nat /\ revision' = revision + 1
  BY PutMakes DEF Sound, Typed, TypeOK
<1>2. ASSUME NEW b \in Alerts, cards'[b] # NoCard
      PROVE  cards'[b].rev <= revision'
  <2>1. b # a => cards[b] # NoCard /\ cards[b].rev \in Nat /\ cards[b].rev <= revision
    BY <1>2, PutMakes DEF Sound, Versions, Typed, TypeOK, Cards
  <2> QED
    BY <1>1, <2>1, PutMakes DEF Sound
<1>3. ASSUME NEW q \in Procs \ {p}, proc[q].pc \in Writing, proc[q].card # NoCard
      PROVE  Current(q)'
  <2> DEFINE j == proc[q]
  <2>1. j.card.rev \in Nat /\ j.card.rev <= revision /\ j.alert \in Alerts
    <3>1. Proper(j) /\ Current(q)
      BY GoroutinesProper DEF Sound, Typed, Versions
    <3>2. j.card \in Cards /\ j.alert \in Alerts
      BY <1>3, <3>1 DEF Proper, Busy, Jobs, Writing
    <3> QED
      BY <1>3, <3>1, <3>2 DEF Current, Cards
  <2>2. proc'[q] = j /\ j.card.rev <= revision' /\ cards'[a].rev = revision + 1
    BY <1>1, <2>1, PutMakes DEF Sound
  <2>3. j.alert = a => cards'[j.alert].rev # j.card.rev
    BY <1>1, <2>1, <2>2
  <2>4. j.alert # a => cards'[j.alert] = cards[j.alert]
    BY <2>1, PutMakes DEF Sound
  <2> QED
    BY <1>3, <2>2, <2>3, <2>4 DEF Sound, Versions, Current
<1>4. ASSUME NEW q \in Procs PROVE Current(q)'
  BY <1>3 DEF Current
<1> QED
  BY <1>2, <1>4 DEF Versions

\* And other steps, if the goroutine that takes one holds what is there.
LEMMA StillVersions ==
  ASSUME Sound, UNCHANGED <<cards, revision>>, NEW p \in Procs,
         \/ proc'[p] = proc[p]
         \/ proc'[p].pc \notin Writing
         \/ /\ proc'[p].alert \in Alerts /\ cards[proc'[p].alert] # NoCard
            /\ proc'[p].card.rev = cards[proc'[p].alert].rev
            /\ proc'[p].card.State = cards[proc'[p].alert].State
            /\ proc'[p].pc = "ttlWrite" => proc'[p].card.State # "resolved",
         \A q \in Procs \ {p} : proc'[q] = proc[q]
  PROVE  Versions'
<1>1. ASSUME NEW q \in Procs, q # p PROVE Current(q)'
  BY <1>1 DEF Sound, Versions, Current
<1>2. Current(p)'
  BY DEF Sound, Versions, Current
<1> QED
  BY <1>1, <1>2 DEF Versions, Sound

\* An ended, closed or announced job holds no card to write.
LEMMA EndedWritesNothing ==
  ASSUME NEW o, NEW k, NEW notify,
         Ended(o, k) \/ Closed(o, k) \/ Announced(o, k, notify) \/ Seeded(o, k, notify)
  PROVE  k.pc \notin Writing
BY DEF Ended, Closed, Announced, Seeded, Writing

\* The versions hold in every step of a goroutine.
LEMMA StepVersions ==
  ASSUME Sound, Store = "nats", NEW p \in Procs, Step(p)
  PROVE  Versions'
<1> DEFINE o == proc[p]
           k == proc'[p]
<1>1. Typed /\ Proper(o)
  BY GoroutinesProper DEF Sound, Typed
<1>2. o.pc \notin {"idle", "scan"} => o.alert \in Alerts
  BY <1>1 DEF Proper, Busy
<1>3. CASE NextDecision(p) \/ NextRepeat(p) \/ EndTick(p)
  BY <1>1, <1>3, ScanTurns, StillVersions DEF Still, Writing
<1>4. CASE GetAlertIdentity(p) \/ RefreshTick(p) \/ ReadCard(p)
  <2>1. UNCHANGED <<cards, revision>> /\ \A q \in Procs \ {p} : proc'[q] = proc[q]
    BY <1>1, <1>4, LookupTurns DEF Still
  <2>2. CASE k.pc \notin Writing
    BY <2>1, <2>2, StillVersions
  <2>3. CASE k.pc \in Writing
    <3>1. k.pc = "write" /\ Stays(o, k) /\ k.card = cards[k.alert] /\ k.alert \in Alerts
      BY <1>1, <1>2, <1>4, <2>3, LookupTurns, EndedWritesNothing DEF Writing, Stays
    <3>2. CASE k.card # NoCard
      BY <2>1, <3>1, <3>2, StillVersions
    <3>3. CASE k.card = NoCard
      <4>1. ASSUME NEW q \in Procs PROVE Current(q)'
        BY <2>1, <3>3 DEF Sound, Versions, Current
      <4> QED
        BY <2>1, <4>1 DEF Sound, Versions
    <3> QED
      BY <3>2, <3>3
  <2> QED
    BY <2>2, <2>3
<1>5. CASE WriteCard(p)
  <2>1. CASE Put(o.alert, Written(o)) /\ Seeded(o, k, AllowNotify(o.card, o.state))
    <3>1. Written(o) \in Cards /\ o.alert \in Alerts
      BY <1>1, <1>2, <1>5, WrittenTypes DEF WriteCard
    <3> QED
      BY <1>1, <1>5, <2>1, <3>1, WriteCardTurns, PutVersions, EndedWritesNothing
  <2>2. CASE UNCHANGED <<cards, revision, moved>> /\ k.pc = "conflict"
    BY <1>1, <1>5, <2>2, WriteCardTurns, StillVersions DEF Writing
  <2> QED
    BY <1>1, <1>5, <2>1, <2>2, WriteCardTurns
<1>6. CASE ResolveConflict(p) \/ SeedExternalRefs(p)
  BY <1>1, <1>6, TakeOverTurns, EndedWritesNothing, StillVersions DEF Still
<1>7. CASE Mute(p) \/ PrepareNotification(p) \/ Send(p) \/ CaptureDeliveryEffects(p)
  <2>1. k.pc \notin Writing
    BY <1>1, <1>7, DeliveryTurns, EndedWritesNothing DEF Writing
  <2> QED
    BY <1>1, <1>7, <2>1, DeliveryTurns, StillVersions DEF Still
<1>8. CASE SendFails(p)
  BY <1>1, <1>8, FailureTurns, StillVersions DEF Still, Writing
<1>9. CASE ReadRefs(p) \/ WriteRefs(p)
  <2>1. CASE k.pc = "refsWrite" /\ o.pc = "refs" /\ Still /\ Stays(o, k)
    <3>1. k.alert = o.alert /\ o.alert \in Alerts
      BY <1>2, <2>1 DEF Stays
    <3> QED
      BY <1>1, <1>9, <2>1, <3>1, RefTurns, StillVersions, EndedWritesNothing DEF Still, Writing
  <2>2. CASE o.pc = "refsWrite" /\ Put(o.alert, o.card) /\ Ended(o, k)
    <3>1. o.card \in Cards /\ o.alert \in Alerts
      BY <1>1, <1>2, <2>2 DEF Proper, Placed, Jobs
    <3> QED
      BY <1>1, <1>9, <2>2, <3>1, RefTurns, PutVersions, EndedWritesNothing
  <2>3. CASE Still /\ k.pc \notin Writing
    BY <1>1, <1>9, <2>3, RefTurns, StillVersions DEF Still
  <2> QED
    BY <1>1, <1>9, <2>1, <2>2, <2>3, RefTurns, EndedWritesNothing DEF Writing
<1>10. CASE DeleteCard(p) \/ DeleteTick(p) \/ RemoveAlertState(p)
  <2>1. k.pc \notin Writing /\ UNCHANGED revision /\ \A q \in Procs \ {p} : proc'[q] = proc[q]
    BY <1>1, <1>10, DeletionTurns, EndedWritesNothing DEF Writing
  <2>2. \A a \in Alerts : cards'[a] = cards[a] \/ cards'[a] = NoCard
    BY <1>1, <1>10, DeletionTurns DEF Typed, TypeOK
  <2>3. ASSUME NEW q \in Procs PROVE Current(q)'
    <3>1. CASE q = p
      BY <2>1, <3>1 DEF Current
    <3>2. CASE q # p
      <4>1. proc[q].pc \in Writing => proc[q].alert \in Alerts
        BY <1>1, GoroutinesProper DEF Typed, Proper, Busy, Writing
      <4> QED
        BY <2>1, <2>2, <3>2, <4>1 DEF Sound, Versions, Current
    <3> QED
      BY <3>1, <3>2
  <2> QED
    BY <2>1, <2>2, <2>3 DEF Sound, Versions
<1>11. CASE ReadExpired(p) \/ ResolveExpired(p)
  <2>1. CASE Still /\ k.pc = "idle"
    BY <1>1, <1>11, <2>1, ExpiryTurns, StillVersions DEF Still, Writing
  <2>2. CASE /\ o.pc = "ttlRead" /\ Still /\ Stays(o, k) /\ k.card = cards[k.alert]
             /\ k.card.State \in {"pending", "firing"}
    <3>1. k.alert \in Alerts /\ cards[k.alert] # NoCard
      BY <1>2, <2>2 DEF Stays, NoCard
    <3> QED
      BY <1>1, <1>11, <2>2, <3>1, ExpiryTurns, StillVersions DEF Still
  <2>3. CASE /\ o.pc = "ttlWrite" /\ Put(o.alert, [o.card EXCEPT !.State = "resolved"])
             /\ Seeded(o, k, o.notify)
    <3>1. [o.card EXCEPT !.State = "resolved"] \in Cards /\ o.alert \in Alerts
      BY <1>1, <1>2, <2>3 DEF Proper, Placed, Jobs, Cards, CardStates
    <3> QED
      BY <1>1, <1>11, <2>3, <3>1, ExpiryTurns, PutVersions, EndedWritesNothing
  <2> QED
    BY <1>1, <1>11, <2>1, <2>2, <2>3, ExpiryTurns
<1> QED
  BY <1>3, <1>4, <1>5, <1>6, <1>7, <1>8, <1>9, <1>10, <1>11 DEF Step

\* And in every other step.
LEMMA NextVersions ==
  ASSUME Sound, Store = "nats", Next
  PROVE  Versions'
<1>1. CASE \E p \in Procs : Step(p)
  BY <1>1, StepVersions
<1>2. ASSUME NEW p \in Procs,
             \/ p \in Workers /\ \E a \in Alerts : Event(p, a)
             \/ p \in Tickers /\ Tick(p)
             \/ p \in Expirers /\ \E a \in Alerts : TakeMarker(p, a)
      PROVE  Versions'
  BY <1>2, StartTurns, StillVersions DEF Still, Sound, Writing
<1>3. CASE \E a \in Alerts : ExpireTick(a)
  BY <1>3 DEF ExpireTick, Sound, Versions, Current
<1>4. CASE \E i \in Instances : Restart(i)
  <2>1. UNCHANGED <<cards, revision>> /\ \A q \in Procs : proc'[q] = Idle \/ proc'[q] = proc[q]
    BY <1>4 DEF Restart
  <2> QED
    BY <2>1 DEF Sound, Versions, Current, Idle
<1> QED
  BY <1>1, <1>2, <1>3, <1>4 DEF Next, Procs

\* Versions are right from the start.
LEMMA SoundAlways == Store = "nats" => (Spec => []Sound)
<1> SUFFICES ASSUME Store = "nats" PROVE Spec => []Sound
  OBVIOUS
<1>1. Init => Sound
  <2>1. Init => Versions
    BY DEF Init, Versions, Current, Idle
  <2> QED
    BY <2>1, InitTyped DEF Sound
<1>2. Sound /\ [Next]_vars => Sound'
  <2>1. ASSUME Sound, UNCHANGED vars PROVE Sound'
    <3>1. Typed'
      BY <2>1, StutterTyped DEF Sound
    <3> QED
      BY <2>1, <3>1 DEF vars, storeVars, Sound, Versions, Current
  <2> QED
    BY <2>1, StepTyped, NextVersions DEF Sound
<1> QED
  BY <1>1, <1>2, PTL DEF Spec

\* On NATS, persisting a reference never moves a card: the revision it read stands only for the
\* card it read (persistExternalRefs).
THEOREM RefWritesKeepState == Store = "nats" => (Spec => RefWriteKeepsTransition)
<1> SUFFICES ASSUME Store = "nats" PROVE Spec => RefWriteKeepsTransition
  OBVIOUS
<1> DEFINE Kept == \A p \in Procs :
             proc[p].pc \in {"refs", "refsWrite"} /\ proc'[p] # proc[p] =>
               \A a \in Alerts : cards'[a].State = cards[a].State
<1>1. ASSUME Sound, Next, NEW p \in Procs, proc[p].pc \in {"refs", "refsWrite"},
             proc'[p] # proc[p], NEW a \in Alerts
      PROVE  cards'[a].State = cards[a].State
  <2>0. Typed
    BY <1>1 DEF Sound
  <2>1. CASE UNCHANGED cards
    BY <2>1
  <2>2. CASE \E q \in Procs : Step(q)
    <3>1. PICK q \in Procs : Step(q)
      BY <2>2
    <3>2. q = p
      BY <1>1, <2>0, <3>1, ScanTurns, LookupTurns, WriteCardTurns, TakeOverTurns, DeliveryTurns,
         FailureTurns, RefTurns, DeletionTurns, ExpiryTurns DEF Step
    <3>3. ReadRefs(p) \/ WriteRefs(p)
      BY <1>1, <3>1, <3>2
         DEF Step, NextDecision, NextRepeat, EndTick, GetAlertIdentity, RefreshTick, ReadCard,
             WriteCard, ResolveConflict, SeedExternalRefs, Mute, PrepareNotification, Send, SendFails,
             CaptureDeliveryEffects, DeleteCard, DeleteTick, RemoveAlertState, ReadExpired,
             ResolveExpired
    <3>4. CASE SameRevision(proc[p].card, proc[p].alert) /\ Put(proc[p].alert, proc[p].card)
               /\ proc[p].pc = "refsWrite"
      <4>1. proc[p].card \in Cards /\ proc[p].card # NoCard /\ proc[p].alert \in Alerts
        BY <2>0, <3>4, GoroutinesProper DEF Typed, Proper, Placed, Busy, Jobs
      <4>2. cards[proc[p].alert].State = proc[p].card.State
        BY <1>1, <3>4, <4>1 DEF SameRevision, Sound, Versions, Current, Writing
      <4> QED
        BY <2>0, <3>4, <4>1, <4>2, PutMakes
    <3> QED
      BY <2>0, <3>3, <3>4, RefTurns DEF Still
  <2>3. CASE \E q \in Procs : \/ q \in Workers /\ \E b \in Alerts : Event(q, b)
                              \/ q \in Tickers /\ Tick(q)
                              \/ q \in Expirers /\ \E b \in Alerts : TakeMarker(q, b)
    BY <2>0, <2>3, StartTurns DEF Still
  <2>4. CASE (\E b \in Alerts : ExpireTick(b)) \/ \E i \in Instances : Restart(i)
    BY <2>4 DEF ExpireTick, Restart
  <2> QED
    BY <1>1, <2>2, <2>3, <2>4 DEF Next, Procs
<1>2. Sound /\ [Next]_vars => [Kept]_vars
  BY <1>1
<1>3. Spec => [][Kept]_vars
  BY <1>2, SoundAlways, PTL DEF Spec
<1> QED
  BY <1>3 DEF RefWriteKeepsTransition

-----------------------------------------------------------------------------
(* Announcements.  A transition that is still to be announced has been     *)
(* counted already, by the card write that made it.                        *)

\* Goroutine q is to send a message about alert a's transition to s.
Announces(q, a, s) ==
  LET j == proc[q]
  IN  /\ j.alert = a /\ j.state = s /\ j.why # "repeat"
      /\ j.pc \in {"prepare", "send"} \/ (j.pc = "seed" /\ j.changed /\ j.notify)
Announcers(a, s) == {q \in Procs : Announces(q, a, s)}
Told == {"firing", "resolved"}
Backed ==
  \A a \in Alerts, s \in Told :
    /\ IsFiniteSet(Messages(a, s))
    /\ Cardinality(Messages(a, s)) + Cardinality(Announcers(a, s)) <= moved[a][s]

\* There are finitely many goroutines, and as many to announce something.
LEMMA AnnouncersFinite ==
  ASSUME NEW a, NEW s
  PROVE  IsFiniteSet(Announcers(a, s)) /\ Cardinality(Announcers(a, s)) \in Nat
BY ProcsAssumption, FS_Subset, FS_CardinalityType DEF Announcers

\* The same of the next state, of which every set of goroutines is finite as well.
LEMMA GoroutinesFinite ==
  ASSUME NEW S \in SUBSET Procs
  PROVE  IsFiniteSet(S) /\ Cardinality(S) \in Nat
BY ProcsAssumption, FS_Subset, FS_CardinalityType

\* One element more is at most one more.
LEMMA AtMostOneMore ==
  ASSUME NEW S, IsFiniteSet(S), NEW x
  PROVE  /\ IsFiniteSet(S \cup {x}) /\ Cardinality(S \cup {x}) \in Nat
         /\ Cardinality(S \cup {x}) <= Cardinality(S) + 1
<1>1. Cardinality(S) \in Nat
  BY FS_CardinalityType
<1>2. /\ IsFiniteSet(S \cup {x})
      /\ Cardinality(S \cup {x}) = IF x \in S THEN Cardinality(S) ELSE Cardinality(S) + 1
  BY FS_AddElement
<1>3. CASE x \in S
  BY <1>1, <1>2, <1>3
<1>4. CASE x \notin S
  BY <1>1, <1>2, <1>4
<1> QED
  BY <1>3, <1>4

\* A step that sends nothing and makes no announcer keeps the balance.
LEMMA NoAnnouncer ==
  ASSUME Typed, Backed, \A a \in Alerts, s \in Told : Messages(a, s)' = Messages(a, s),
         \A a \in Alerts, s \in Told : moved'[a][s] \in Nat /\ moved[a][s] <= moved'[a][s],
         \A q \in Procs, a \in Alerts, s \in Told : Announces(q, a, s)' => Announces(q, a, s)
  PROVE  Backed'
<1> SUFFICES ASSUME NEW a \in Alerts, NEW s \in Told
             PROVE  /\ IsFiniteSet(Messages(a, s))'
                    /\ (Cardinality(Messages(a, s)) + Cardinality(Announcers(a, s)) <= moved[a][s])'
  BY DEF Backed
<1>1. Messages(a, s)' = Messages(a, s)
  OBVIOUS
<1>2. Announcers(a, s)' \subseteq Announcers(a, s)
  BY DEF Announcers
<1>3. /\ Cardinality(Announcers(a, s)') <= Cardinality(Announcers(a, s))
      /\ Cardinality(Announcers(a, s)') \in Nat /\ Cardinality(Announcers(a, s)) \in Nat
  BY <1>2, AnnouncersFinite, FS_Subset, FS_CardinalityType
<1>4. IsFiniteSet(Messages(a, s)) /\ Cardinality(Messages(a, s)) \in Nat
  BY FS_CardinalityType DEF Backed
<1>5. /\ Cardinality(Messages(a, s)) + Cardinality(Announcers(a, s)) <= moved[a][s]
      /\ moved[a][s] \in Nat
  BY DEF Backed, Typed, TypeOK, Told, CardStates
<1> QED
  BY <1>1, <1>3, <1>4, <1>5

\* A step that makes one announcer keeps it if it is a card write to the state announced.
LEMMA OneAnnouncer ==
  ASSUME Typed, Backed, UNCHANGED sent, NEW p \in Procs, NEW a \in Alerts, NEW s \in CardStates,
         \A b \in Alerts, t \in CardStates :
           moved'[b][t] = IF b = a /\ t = s THEN moved[b][t] + 1 ELSE moved[b][t],
         \A q \in Procs \ {p} : proc'[q] = proc[q],
         ~(\E b \in Alerts, t \in Told : Announces(p, b, t)),
         proc'[p].alert = a \/ proc'[p].pc \notin {"seed", "prepare", "send"},
         proc'[p].state = s \/ proc'[p].pc \notin {"seed", "prepare", "send"}
  PROVE  Backed'
<1> SUFFICES ASSUME NEW b \in Alerts, NEW t \in Told
             PROVE  /\ IsFiniteSet(Messages(b, t))'
                    /\ (Cardinality(Messages(b, t)) + Cardinality(Announcers(b, t)) <= moved[b][t])'
  BY DEF Backed
<1>1. Messages(b, t)' = Messages(b, t)
  BY DEF Messages
<1>2. IsFiniteSet(Messages(b, t)) /\ Cardinality(Messages(b, t)) \in Nat
  BY FS_CardinalityType DEF Backed
<1>3. /\ Cardinality(Messages(b, t)) + Cardinality(Announcers(b, t)) <= moved[b][t]
      /\ moved[b][t] \in Nat /\ t \in CardStates
  BY DEF Backed, Typed, TypeOK, Told, CardStates
<1>4. /\ IsFiniteSet(Announcers(b, t)) /\ Cardinality(Announcers(b, t)) \in Nat
      /\ Announcers(b, t)' \in SUBSET Procs
      /\ Cardinality(Announcers(b, t)') \in Nat
  BY AnnouncersFinite, GoroutinesFinite DEF Announcers
<1>5. CASE b = a /\ t = s
  <2>1. Announcers(b, t)' \subseteq Announcers(b, t) \cup {p}
    BY DEF Announcers, Announces
  <2>2. Cardinality(Announcers(b, t)') <= Cardinality(Announcers(b, t)) + 1
    <3>1. /\ IsFiniteSet(Announcers(b, t) \cup {p})
          /\ Cardinality(Announcers(b, t) \cup {p}) <= Cardinality(Announcers(b, t)) + 1
      BY <1>4, AtMostOneMore
    <3>2. Cardinality(Announcers(b, t) \cup {p}) \in Nat
      BY <3>1, FS_CardinalityType
    <3>3. Cardinality(Announcers(b, t)') <= Cardinality(Announcers(b, t) \cup {p})
      BY <2>1, <3>1, FS_Subset
    <3> QED
      BY <1>4, <3>1, <3>2, <3>3
  <2> QED
    BY <1>1, <1>2, <1>3, <1>4, <1>5, <2>2
<1>6. CASE ~(b = a /\ t = s)
  <2>1. Announcers(b, t)' \subseteq Announcers(b, t)
    BY <1>6 DEF Announcers, Announces
  <2>2. Cardinality(Announcers(b, t)') <= Cardinality(Announcers(b, t))
    BY <1>4, <2>1, FS_Subset
  <2> QED
    BY <1>1, <1>2, <1>3, <1>4, <1>6, <2>2
<1> QED
  BY <1>5, <1>6

\* A message is one of an announcer's, or not about a transition.
LEMMA SendCounts ==
  ASSUME Typed, NEW p \in Procs, Send(p), NEW a \in Alerts, NEW s \in Told
  PROVE  \/ Messages(a, s)' = Messages(a, s)
         \/ Announces(p, a, s) /\ \E m : Messages(a, s)' = Messages(a, s) \cup {m}
<1> DEFINE j == proc[p]
           S == Kind
<1>1. j.pc = "send" /\ j.alert \in Alerts /\ j.life \in Life
  BY GoroutinesProper DEF Send, Typed, Proper, Busy, Jobs
<1>2. sent \in [Alerts -> [Life -> [S -> Nat]]]
  BY DEF Typed, TypeOK
<1>3. CASE sent' = sent
  BY <1>3 DEF Messages
<1>4. CASE sent' # sent
  <2> DEFINE old == sent[j.alert][j.life]
             new == [k \in DOMAIN old |-> old[k] + IF k \in Kinds(j) THEN 1 ELSE 0]
  <2>1. sent' = [sent EXCEPT ![j.alert] = [sent[j.alert] EXCEPT ![j.life] = new]]
    BY <1>4 DEF Send
  <2>2. old \in [S -> Nat] /\ new[s] = old[s] + IF s \in Kinds(j) THEN 1 ELSE 0
    BY <1>1, <1>2 DEF Told, Kind
  <2>3. s \in Kinds(j) => s = j.state /\ j.why # "repeat"
    BY DEF Kinds, Told
  <2>4. \A l \in Life : sent'[a][l][s] = IF a = j.alert /\ l = j.life /\ s \in Kinds(j)
                                         THEN sent[a][l][s] + 1 ELSE sent[a][l][s]
    <3> HIDE DEF new
    <3>1. \A l \in Life : sent'[a][l] = IF a = j.alert /\ l = j.life THEN new ELSE sent[a][l]
      BY <1>1, <1>2, <2>1
    <3>2. old[s] \in Nat
      BY <2>2 DEF Told, Kind
    <3> QED
      BY <2>2, <3>1, <3>2
  <2> HIDE DEF new, old
  <2>5. CASE ~(a = j.alert /\ s \in Kinds(j))
    <3>1. \A l \in Life : sent'[a][l][s] = sent[a][l][s]
      BY <2>4, <2>5
    <3>2. {{<<l, n>> : n \in 1..sent'[a][l][s]} : l \in Life} = {{<<l, n>> : n \in 1..sent[a][l][s]} : l \in Life}
      BY <3>1
    <3> QED
      BY <3>2 DEF Messages
  <2>6. CASE a = j.alert /\ s \in Kinds(j)
    <3> DEFINE l == j.life
               N == sent[a][l][s]
               m == <<l, N + 1>>
    <3>1. N \in Nat /\ 1..(N + 1) = (1..N) \cup {N + 1} /\ l \in Life
      <4>1. N \in Nat
        BY <1>1, <1>2 DEF Told, Kind
      <4> HIDE DEF N
      <4> QED
        BY <1>1, <4>1
    <3>2. sent'[a][l][s] = N + 1 /\ \A o \in Life \ {l} : sent'[a][o][s] = sent[a][o][s]
      BY <2>4, <2>6, <3>1
    <3> HIDE DEF N, l
    <3>3. ASSUME NEW x PROVE x \in Messages(a, s)' <=> x \in Messages(a, s) \/ x = m
      <4>1. x \in Messages(a, s)' <=> \E o \in Life : \E n \in 1..sent'[a][o][s] : x = <<o, n>>
        BY DEF Messages
      <4>2. x \in Messages(a, s) <=> \E o \in Life : \E n \in 1..sent[a][o][s] : x = <<o, n>>
        BY DEF Messages
      <4>3. (\E n \in 1..(N + 1) : x = <<l, n>>) <=> (\E n \in 1..N : x = <<l, n>>) \/ x = m
        BY <3>1
      <4>4. sent[a][l][s] = N
        BY DEF N
      <4>5. (\E o \in Life : \E n \in 1..sent'[a][o][s] : x = <<o, n>>) <=>
            \/ \E n \in 1..(N + 1) : x = <<l, n>>
            \/ \E o \in Life \ {l} : \E n \in 1..sent[a][o][s] : x = <<o, n>>
        BY <3>1, <3>2
      <4>6. (\E o \in Life : \E n \in 1..sent[a][o][s] : x = <<o, n>>) <=>
            \/ \E n \in 1..N : x = <<l, n>>
            \/ \E o \in Life \ {l} : \E n \in 1..sent[a][o][s] : x = <<o, n>>
        BY <3>1, <4>4
      <4> QED
        BY <4>1, <4>2, <4>3, <4>5, <4>6
    <3>4. Messages(a, s)' = Messages(a, s) \cup {m}
      BY <3>3
    <3>5. Announces(p, a, s)
      BY <1>1, <2>3, <2>6 DEF Announces
    <3> QED
      BY <3>4, <3>5
  <2> QED
    BY <2>5, <2>6
<1> QED
  BY <1>3, <1>4

\* So sending keeps the balance.
LEMMA SendBacked ==
  ASSUME Typed, Backed, NEW p \in Procs, Send(p)
  PROVE  Backed'
<1> SUFFICES ASSUME NEW a \in Alerts, NEW s \in Told
             PROVE  /\ IsFiniteSet(Messages(a, s))'
                    /\ (Cardinality(Messages(a, s)) + Cardinality(Announcers(a, s)) <= moved[a][s])'
  BY DEF Backed
<1>1. /\ UNCHANGED moved /\ proc'[p].pc = "effects"
      /\ \A q \in Procs \ {p} : proc'[q] = proc[q]
  BY DeliveryTurns DEF Send, Closed, Ended
<1>2. /\ IsFiniteSet(Messages(a, s)) /\ Cardinality(Messages(a, s)) \in Nat
      /\ Cardinality(Messages(a, s)) + Cardinality(Announcers(a, s)) <= moved[a][s]
      /\ moved[a][s] \in Nat
  BY FS_CardinalityType DEF Backed, Typed, TypeOK, Told, CardStates
<1>3. Announcers(a, s)' = Announcers(a, s) \ {p}
  BY <1>1 DEF Announcers, Announces
<1>4. /\ Cardinality(Announcers(a, s)') =
            IF Announces(p, a, s) THEN Cardinality(Announcers(a, s)) - 1 ELSE Cardinality(Announcers(a, s))
      /\ Cardinality(Announcers(a, s)) \in Nat
  <2>1. p \in Announcers(a, s) <=> Announces(p, a, s)
    BY DEF Announcers
  <2> QED
    BY <1>3, <2>1, AnnouncersFinite, FS_RemoveElement
<1>5. CASE Messages(a, s)' = Messages(a, s)
  BY <1>1, <1>2, <1>4, <1>5
<1>6. CASE Announces(p, a, s) /\ \E m : Messages(a, s)' = Messages(a, s) \cup {m}
  <2>1. PICK m : Messages(a, s)' = Messages(a, s) \cup {m}
    BY <1>6
  <2>2. /\ IsFiniteSet(Messages(a, s)') /\ Cardinality(Messages(a, s)') \in Nat
        /\ Cardinality(Messages(a, s)') <= Cardinality(Messages(a, s)) + 1
    <3>1. /\ IsFiniteSet(Messages(a, s) \cup {m})
          /\ Cardinality(Messages(a, s) \cup {m}) <= Cardinality(Messages(a, s)) + 1
      BY <1>2, AtMostOneMore
    <3>2. Cardinality(Messages(a, s) \cup {m}) \in Nat
      BY <3>1, FS_CardinalityType
    <3> QED
      BY <2>1, <3>1, <3>2
  <2> QED
    BY <1>1, <1>2, <1>4, <1>6, <2>2
<1> QED
  BY <1>5, <1>6, SendCounts

\* A card write keeps the balance, as long as only a new state is announced after it.
LEMMA PutBacked ==
  ASSUME Sound, Backed, Store = "nats", UNCHANGED sent,
         NEW p \in Procs, NEW a \in Alerts, NEW c \in Cards, Put(a, c),
         \A q \in Procs \ {p} : proc'[q] = proc[q], proc[p].pc \in Writing,
         \/ proc'[p].pc \notin {"seed", "prepare", "send"}
         \/ proc'[p].pc = "seed" /\ ~proc'[p].notify
         \/ proc'[p].alert = a /\ proc'[p].state = c.State /\ cards[a].State # c.State
  PROVE  Backed'
<1>1. \A b \in Alerts, s \in CardStates :
        moved'[b][s] = IF b = a /\ s = c.State /\ cards[a].State # s
                       THEN moved[b][s] + 1 ELSE moved[b][s]
  BY PutMakes DEF Sound
<1>2. ~(\E b \in Alerts, t \in Told : Announces(p, b, t))
  BY DEF Announces, Writing
<1>3. c.State \in CardStates
  BY DEF Cards
<1>4. CASE proc'[p].alert = a /\ proc'[p].state = c.State /\ cards[a].State # c.State
  <2>1. \A b \in Alerts, t \in CardStates :
          moved'[b][t] = IF b = a /\ t = c.State THEN moved[b][t] + 1 ELSE moved[b][t]
    BY <1>1, <1>4
  <2> QED
    BY <1>2, <1>3, <1>4, <2>1, OneAnnouncer DEF Sound
<1>5. CASE \/ proc'[p].pc \notin {"seed", "prepare", "send"}
           \/ proc'[p].pc = "seed" /\ ~proc'[p].notify
  <2>1. \A q \in Procs, b \in Alerts, t \in Told : Announces(q, b, t)' => Announces(q, b, t)
    BY <1>5 DEF Announces
  <2>2. ASSUME NEW b \in Alerts, NEW t \in Told
        PROVE  moved'[b][t] \in Nat /\ moved[b][t] <= moved'[b][t]
    <3>1. moved[b][t] \in Nat /\ t \in CardStates
      BY DEF Sound, Typed, TypeOK, Told, CardStates
    <3> QED
      BY <1>1, <3>1
  <2> QED
    BY <2>1, <2>2, NoAnnouncer DEF Sound, Messages
<1> QED
  BY <1>4, <1>5

\* A step that leaves the cards alone keeps it if it makes no announcer.
LEMMA StillBacked ==
  ASSUME Typed, Backed, UNCHANGED <<sent, moved>>,
         \A q \in Procs, a \in Alerts, s \in Told : Announces(q, a, s)' => Announces(q, a, s)
  PROVE  Backed'
<1>1. \A a \in Alerts, s \in Told : moved'[a][s] \in Nat /\ moved[a][s] <= moved'[a][s]
  BY DEF Typed, TypeOK, Told, CardStates
<1> QED
  BY <1>1, NoAnnouncer DEF Messages

\* A notification kept back is no message.
LEMMA MutedSendsNothing ==
  ASSUME Typed, NEW p \in Procs, Mute(p), NEW a \in Alerts, NEW s \in Told
  PROVE  Messages(a, s)' = Messages(a, s)
<1> DEFINE b == proc[p].alert
           m == proc[p].life
<1>1. b \in Alerts /\ m \in Life
  BY GoroutinesProper DEF Mute, Typed, Proper, Busy, Jobs
<1>2. sent \in [Alerts -> [Life -> [Kind -> Nat]]] /\ s \in Kind /\ s # "muted"
  BY DEF Typed, TypeOK, Told, Kind
<1> DEFINE counts == [sent[b][m] EXCEPT !["muted"] = sent[b][m]["muted"] + 1]
           life == [sent[b] EXCEPT ![m] = counts]
<1>3. sent' = sent \/ sent' = [sent EXCEPT ![b] = life]
  BY DEF Mute
<1>4. counts[s] = sent[b][m][s]
  BY <1>1, <1>2
<1> HIDE DEF counts
<1>5. \A l \in Life : life[l] = IF l = m THEN counts ELSE sent[b][l]
  BY <1>1, <1>2
<1> HIDE DEF life
<1>6. \A l \in Life : sent'[a][l][s] = sent[a][l][s]
  BY <1>1, <1>2, <1>3, <1>4, <1>5
<1>7. {{<<l, n>> : n \in 1..sent'[a][l][s]} : l \in Life} = {{<<l, n>> : n \in 1..sent[a][l][s]} : l \in Life}
  BY <1>6
<1> QED
  BY <1>7 DEF Messages

\* Jobs that announce nothing they did not announce before.
LEMMA NothingNew ==
  ASSUME NEW p \in Procs, \A q \in Procs \ {p} : proc'[q] = proc[q],
         LET o == proc[p]
             k == proc'[p]
         IN  \/ k.pc \notin {"seed", "prepare", "send"}
             \/ k.pc = "prepare" /\ k.why = "repeat"
             \/ Ended(o, k) \/ Closed(o, k) \/ Seeded(o, k, FALSE)
             \/ o.pc = "seed" /\ Announced(o, k, o.notify)
             \/ o.pc = "prepare" /\ k.pc = "send" /\ Stays(o, k)
  PROVE  \A q \in Procs, a \in Alerts, s \in Told : Announces(q, a, s)' => Announces(q, a, s)
BY DEF Announces, Ended, Closed, Seeded, Announced, Stays

\* The balance holds in every step of a goroutine.
LEMMA StepBacked ==
  ASSUME Sound, Backed, Store = "nats", NEW p \in Procs, Step(p)
  PROVE  Backed'
<1> DEFINE o == proc[p]
           k == proc'[p]
<1>1. Typed /\ Proper(o)
  BY GoroutinesProper DEF Sound, Typed
<1>2. o.pc \notin {"idle", "scan"} => o.alert \in Alerts /\ o.state \in CardStates
  BY <1>1 DEF Proper, Busy
<1>3. CASE NextDecision(p) \/ NextRepeat(p) \/ EndTick(p)
  BY <1>1, <1>3, ScanTurns, NothingNew, StillBacked DEF Still
<1>4. CASE GetAlertIdentity(p) \/ RefreshTick(p) \/ ReadCard(p)
  BY <1>1, <1>4, LookupTurns, NothingNew, StillBacked DEF Still
<1>5. CASE WriteCard(p)
  <2>1. CASE /\ SameRevision(o.card, o.alert) /\ Put(o.alert, Written(o))
             /\ Seeded(o, k, AllowNotify(o.card, o.state))
    <3>1. /\ Written(o) \in Cards /\ Written(o).State = o.state
          /\ o.alert \in Alerts /\ o.state \in CardStates /\ o.pc \in Writing
      BY <1>1, <1>2, <1>5, WrittenTypes DEF WriteCard, Writing
    <3>2. AllowNotify(o.card, o.state) => cards[o.alert].State # o.state
      BY <2>1, <3>1 DEF AllowNotify, SameRevision, Sound, Versions, Current, NoCard, CardStates
    <3>3. \/ k.pc \notin {"seed", "prepare", "send"}
          \/ k.pc = "seed" /\ ~k.notify
          \/ k.alert = o.alert /\ k.state = o.state /\ cards[o.alert].State # o.state
      BY <2>1, <3>2 DEF Seeded, Announced, Closed, Ended, Stays
    <3> QED
      BY <1>1, <1>5, <2>1, <3>1, <3>3, WriteCardTurns, PutBacked
  <2>2. CASE UNCHANGED <<cards, revision, moved>> /\ k.pc = "conflict"
    BY <1>1, <1>5, <2>2, WriteCardTurns, NothingNew, StillBacked
  <2> QED
    BY <1>1, <1>5, <2>1, <2>2, WriteCardTurns
<1>6. CASE ResolveConflict(p) \/ SeedExternalRefs(p)
  BY <1>1, <1>6, TakeOverTurns, NothingNew, StillBacked DEF Still
<1>7. CASE PrepareNotification(p) \/ CaptureDeliveryEffects(p)
  <2>1. o.pc # "send" /\ UNCHANGED sent
    BY <1>7 DEF PrepareNotification, CaptureDeliveryEffects, sendVars
  <2> QED
    BY <1>1, <1>7, <2>1, DeliveryTurns, NothingNew, StillBacked DEF Still
<1>8. CASE SendFails(p)
  BY <1>1, <1>8, FailureTurns, NothingNew, StillBacked DEF Still
<1>9. CASE ReadRefs(p) \/ WriteRefs(p)
  <2>1. CASE o.pc = "refsWrite" /\ Put(o.alert, o.card) /\ Ended(o, k)
    <3>1. o.card \in Cards /\ o.alert \in Alerts /\ o.pc \in Writing
      BY <1>1, <1>2, <2>1 DEF Proper, Placed, Jobs, Writing
    <3> QED
      BY <1>1, <1>9, <2>1, <3>1, RefTurns, PutBacked DEF Ended
  <2>2. CASE Still
    BY <1>1, <1>9, <2>2, RefTurns, NothingNew, StillBacked DEF Still, Ended
  <2> QED
    BY <1>1, <1>9, <2>1, <2>2, RefTurns
<1>10. CASE DeleteCard(p) \/ DeleteTick(p) \/ RemoveAlertState(p)
  BY <1>1, <1>10, DeletionTurns, NothingNew, StillBacked
<1>11. CASE ReadExpired(p) \/ ResolveExpired(p)
  <2>1. CASE /\ o.pc = "ttlWrite" /\ SameRevision(o.card, o.alert)
             /\ Put(o.alert, [o.card EXCEPT !.State = "resolved"]) /\ Seeded(o, k, o.notify)
    <3>1. /\ [o.card EXCEPT !.State = "resolved"] \in Cards
          /\ [o.card EXCEPT !.State = "resolved"].State = "resolved"
          /\ o.alert \in Alerts /\ o.pc \in Writing /\ o.card # NoCard
      BY <1>1, <1>2, <2>1 DEF Proper, Placed, Jobs, Cards, CardStates, Writing
    <3>2. cards[o.alert].State # "resolved"
      BY <2>1, <3>1 DEF SameRevision, Sound, Versions, Current
    <3>3. o.state = "resolved"
      BY <1>1, <1>11, ExpiryTurns
    <3>4. k.pc \notin {"seed", "prepare", "send"} \/ (k.alert = o.alert /\ k.state = "resolved")
      BY <2>1, <3>3 DEF Seeded, Announced, Closed, Ended, Stays
    <3> QED
      BY <1>1, <1>11, <2>1, <3>1, <3>2, <3>4, ExpiryTurns, PutBacked
  <2>2. CASE Still /\ k.pc \in {"idle", "ttlWrite"}
    BY <1>1, <1>11, <2>2, ExpiryTurns, NothingNew, StillBacked DEF Still
  <2> QED
    BY <1>1, <1>11, <2>1, <2>2, ExpiryTurns
<1>12. CASE Mute(p)
  <2>1. o.pc # "send" /\ UNCHANGED moved
    BY <1>12 DEF Mute, storeVars
  <2>2. \A q \in Procs, a \in Alerts, s \in Told : Announces(q, a, s)' => Announces(q, a, s)
    BY <1>1, <1>12, <2>1, DeliveryTurns, NothingNew
  <2>3. \A a \in Alerts, s \in Told : moved'[a][s] \in Nat /\ moved[a][s] <= moved'[a][s]
    BY <1>1, <2>1 DEF Typed, TypeOK, Told, CardStates
  <2> QED
    BY <1>1, <1>12, <2>2, <2>3, MutedSendsNothing, NoAnnouncer
<1> QED
  BY <1>1, <1>3, <1>4, <1>5, <1>6, <1>7, <1>8, <1>9, <1>10, <1>11, <1>12, SendBacked DEF Step

\* And in every other step.
LEMMA NextBacked ==
  ASSUME Sound, Backed, Store = "nats", Next
  PROVE  Backed'
<1>1. CASE \E p \in Procs : Step(p)
  BY <1>1, StepBacked
<1>2. ASSUME NEW p \in Procs,
             \/ p \in Workers /\ \E a \in Alerts : Event(p, a)
             \/ p \in Tickers /\ Tick(p)
             \/ p \in Expirers /\ \E a \in Alerts : TakeMarker(p, a)
      PROVE  Backed'
  BY <1>2, StartTurns, NothingNew, StillBacked DEF Still, Sound
<1>3. CASE \E a \in Alerts : ExpireTick(a)
  BY <1>3, StillBacked DEF ExpireTick, Sound, Announces, sendVars
<1>4. CASE \E i \in Instances : Restart(i)
  <2>1. UNCHANGED <<sent, moved>> /\ \A q \in Procs : proc'[q] = Idle \/ proc'[q] = proc[q]
    BY <1>4 DEF Restart, sendVars
  <2>2. \A q \in Procs, a \in Alerts, s \in Told : Announces(q, a, s)' => Announces(q, a, s)
    BY <2>1 DEF Announces, Idle
  <2> QED
    BY <2>1, <2>2, StillBacked DEF Sound
<1> QED
  BY <1>1, <1>2, <1>3, <1>4 DEF Next, Procs

\* Nothing is announced at the start.
LEMMA InitBacked == Init => Backed
<1> SUFFICES ASSUME Init, NEW a \in Alerts, NEW s \in Told
             PROVE  /\ IsFiniteSet(Messages(a, s))
                    /\ Cardinality(Messages(a, s)) + Cardinality(Announcers(a, s)) <= moved[a][s]
  BY DEF Backed
<1>1. Messages(a, s) = {}
  <2>1. \A l \in Life : sent[a][l][s] = 0
    BY DEF Init, Life, Told, Kind
  <2> QED
    BY <2>1 DEF Messages
<1>2. Announcers(a, s) = {}
  BY DEF Init, Announcers, Announces, Idle
<1>3. moved[a][s] = 0
  BY DEF Init, Told
<1> QED
  BY <1>1, <1>2, <1>3, FS_EmptySet

\* On NATS no transition of an alert is notified more often than a card write made it, whoever
\* decides it, however often it is retried, and whatever restarts (persistDecisionCard, ResolveByTTL).
THEOREM TransitionsToldOnce == Store = "nats" => (Spec => []TransitionOncePerWrite)
<1> SUFFICES ASSUME Store = "nats" PROVE Spec => []TransitionOncePerWrite
  OBVIOUS
<1>1. Sound /\ Sound' /\ Backed /\ [Next]_vars => Backed'
  <2>1. ASSUME Sound, Backed, UNCHANGED vars PROVE Backed'
    BY <2>1, StillBacked DEF vars, storeVars, sendVars, Sound, Announces
  <2> QED
    BY <2>1, NextBacked
<1>2. Sound /\ Backed => TransitionOncePerWrite
  <2> SUFFICES ASSUME Sound, Backed, NEW a \in Alerts, NEW s \in {"firing", "resolved"}
               PROVE  Cardinality(Messages(a, s)) <= moved[a][s]
    BY DEF TransitionOncePerWrite
  <2>1. Cardinality(Messages(a, s)) \in Nat /\ Cardinality(Announcers(a, s)) \in Nat
    BY AnnouncersFinite, FS_CardinalityType DEF Backed, Told
  <2>2. moved[a][s] \in Nat
    BY DEF Sound, Typed, TypeOK, CardStates
  <2>3. Cardinality(Messages(a, s)) + Cardinality(Announcers(a, s)) <= moved[a][s]
    BY DEF Backed, Told
  <2> QED
    BY <2>1, <2>2, <2>3
<1> QED
  BY <1>1, <1>2, SoundAlways, InitBacked, PTL DEF Spec

-----------------------------------------------------------------------------
(* Endings.  A resolved card has a goroutine that is to delete it, as long *)
(* as nothing failed.                                                      *)

\* Goroutine q will delete alert a's card; it has done so and will remove the engine's entry.
Closing(q, a) ==
  LET j == proc[q]
  IN  /\ j.alert = a /\ j.state = "resolved"
      /\ j.pc \in {"seed", "prepare", "send", "effects", "delete"}
Removing(q, a) ==
  LET j == proc[q]
  IN  j.alert = a /\ j.state = "resolved" /\ j.pc \in {"deleteTick", "remove"}
Resolving ==
  Undisturbed => \A a \in Alerts : cards[a].State = "resolved" => \E q \in Procs : Closing(q, a)

\* What goroutine p's step means to alert a: it gives a deletion up only for what follows it, and
\* leaves a card that is active, or was there before, or that it is going to delete, or has deleted.
Closes(p, a) ==
  /\ Closing(p, a) => Closing(p, a)' \/ (cards'[a] = NoCard /\ Removing(p, a)')
  /\ \/ cards'[a].State = cards[a].State /\ (cards'[a] = NoCard <=> cards[a] = NoCard)
     \/ cards'[a].State \in {"pending", "firing"}
     \/ cards'[a].State = "resolved" /\ Closing(p, a)'
     \/ cards'[a] = NoCard /\ Removing(p, a)'

\* What becomes of a job that ends in a deletion.
LEMMA ClosingKept ==
  ASSUME NEW p \in Procs, NEW a \in Alerts,
         LET o == proc[p]
             k == proc'[p]
         IN  \/ o.pc \notin {"seed", "prepare", "send", "effects", "delete"}
             \/ o.pc # "delete" /\ (Closed(o, k) \/ Announced(o, k, o.notify))
             \/ Stays(o, k) /\ k.pc \in {"seed", "prepare", "send", "effects", "delete"}
  PROVE  Closing(p, a) => Closing(p, a)'
BY DEF Closing, Closed, Announced, Stays

Takes(o, k) ==
  /\ k.alert = o.alert /\ k.state = "resolved"
  /\ k.pc \in {"seed", "prepare", "send", "effects", "delete"}

\* A resolve that is written is closed by its writer.
LEMMA ResolveCloses ==
  ASSUME NEW o, NEW k, NEW notify, Seeded(o, k, notify), o.state = "resolved"
  PROVE  Takes(o, k)
BY DEF Seeded, Announced, Closed, Ended, Stays, Takes

\* Cards that a write does not touch, or writes with the state they have.
LEMMA PutCloses ==
  ASSUME Sound, Store = "nats", NEW p \in Procs, NEW c \in Cards, Put(proc[p].alert, c),
         proc[p].alert \in Alerts, proc[p].pc \in Writing, NEW a \in Alerts,
         \/ c.State # "resolved"
         \/ Takes(proc[p], proc'[p])
         \/ cards[proc[p].alert] # NoCard /\ c.State = cards[proc[p].alert].State
  PROVE  Closes(p, a)
<1>1. ~Closing(p, a)
  BY DEF Closing, Writing
<1>2. CASE a # proc[p].alert
  BY <1>1, <1>2, PutMakes DEF Sound, Closes
<1>3. CASE a = proc[p].alert
  <2>1. cards'[a] # NoCard /\ cards'[a].State = c.State /\ c.State \in CardStates
    BY <1>3, PutMakes DEF Sound, Cards
  <2> QED
    BY <1>1, <1>3, <2>1 DEF Closes, CardStates, Takes, Closing
<1> QED
  BY <1>2, <1>3

\* Every step of a goroutine that is not a failure.
LEMMA StepCloses ==
  ASSUME Sound, Store = "nats", NEW p \in Procs, Step(p), UNCHANGED errors, NEW a \in Alerts
  PROVE  Closes(p, a)
<1> DEFINE o == proc[p]
           k == proc'[p]
<1>1. Typed /\ Proper(o) /\ errors \in Nat
  BY GoroutinesProper DEF Sound, Typed, TypeOK
<1>2. o.pc \notin {"idle", "scan"} => o.alert \in Alerts /\ o.state \in CardStates
  BY <1>1 DEF Proper, Busy
<1>3. ASSUME UNCHANGED cards, Closing(p, a) => Closing(p, a)' PROVE Closes(p, a)
  BY <1>3 DEF Closes
<1>4. CASE NextDecision(p) \/ NextRepeat(p) \/ EndTick(p)
  BY <1>1, <1>3, <1>4, ScanTurns, ClosingKept DEF Still
<1>5. CASE GetAlertIdentity(p) \/ RefreshTick(p) \/ ReadCard(p)
  BY <1>1, <1>3, <1>5, LookupTurns, ClosingKept DEF Still
<1>6. CASE WriteCard(p)
  <2>1. CASE /\ SameRevision(o.card, o.alert) /\ Put(o.alert, Written(o))
             /\ Seeded(o, k, AllowNotify(o.card, o.state))
    <3>1. /\ Written(o) \in Cards /\ Written(o).State = o.state
          /\ o.alert \in Alerts /\ o.state \in CardStates /\ o.pc \in Writing
      BY <1>1, <1>2, <1>6, WrittenTypes DEF WriteCard, Writing
    <3>2. o.state = "resolved" => Takes(o, k)
      BY <2>1, ResolveCloses
    <3> QED
      BY <2>1, <3>1, <3>2, PutCloses
  <2>2. CASE UNCHANGED <<cards, revision, moved>>
    <3>1. o.pc = "write"
      BY <1>6 DEF WriteCard
    <3> QED
      BY <1>3, <2>2, <3>1, ClosingKept
  <2> QED
    BY <1>1, <1>6, <2>1, <2>2, WriteCardTurns
<1>7. CASE ResolveConflict(p) \/ SeedExternalRefs(p)
  BY <1>1, <1>3, <1>7, TakeOverTurns, ClosingKept DEF Still
<1>8. CASE Mute(p) \/ PrepareNotification(p) \/ Send(p) \/ CaptureDeliveryEffects(p)
  <2>1. CASE o.pc = "effects" /\ o.state # "resolved"
    <3>1. ~Closing(p, a) /\ UNCHANGED cards
      BY <1>1, <1>8, <2>1, DeliveryTurns DEF Closing
    <3> QED
      BY <1>3, <3>1
  <2> QED
    BY <1>1, <1>3, <1>8, <2>1, DeliveryTurns, ClosingKept
<1>9. CASE SendFails(p)
  BY <1>1, <1>9, FailureTurns
<1>10. CASE ReadRefs(p) \/ WriteRefs(p)
  <2>1. CASE o.pc = "refsWrite" /\ SameRevision(o.card, o.alert) /\ Put(o.alert, o.card)
    <3>1. o.card \in Cards /\ o.card # NoCard /\ o.alert \in Alerts /\ o.pc \in Writing
      BY <1>1, <1>2, <2>1 DEF Proper, Placed, Jobs, Writing
    <3>2. cards[o.alert] # NoCard /\ o.card.State = cards[o.alert].State
      BY <2>1, <3>1 DEF SameRevision, Sound, Versions, Current
    <3> QED
      BY <2>1, <3>1, <3>2, PutCloses
  <2>2. CASE Still /\ o.pc \in {"refs", "refsWrite"}
    BY <1>3, <2>2, ClosingKept DEF Still
  <2> QED
    BY <1>1, <1>10, <2>1, <2>2, RefTurns
<1>11. CASE DeleteCard(p) \/ DeleteTick(p) \/ RemoveAlertState(p)
  <2>1. CASE o.pc = "delete"
    <3>1. /\ cards' = [cards EXCEPT ![o.alert] = NoCard] /\ o.alert \in Alerts
          /\ k.pc = "deleteTick" /\ k.alert = o.alert /\ k.state = "resolved"
      BY <1>1, <1>2, <1>11, <2>1, DeletionTurns DEF Stays
    <3>2. CASE a = o.alert
      <4>1. cards'[a] = NoCard /\ Removing(p, a)'
        BY <1>1, <3>1, <3>2 DEF Removing, Typed, TypeOK
      <4> QED
        BY <4>1 DEF Closes
    <3>3. CASE a # o.alert
      BY <1>1, <3>1, <3>3 DEF Closes, Closing, Typed, TypeOK
    <3> QED
      BY <3>2, <3>3
  <2>2. CASE o.pc # "delete"
    BY <1>1, <1>3, <1>11, <2>2, DeletionTurns, ClosingKept
  <2> QED
    BY <2>1, <2>2
<1>12. CASE ReadExpired(p) \/ ResolveExpired(p)
  <2>1. o.pc \in {"ttlRead", "ttlWrite"} /\ o.state = "resolved"
    BY <1>1, <1>12, ExpiryTurns
  <2>2. CASE /\ o.pc = "ttlWrite" /\ Put(o.alert, [o.card EXCEPT !.State = "resolved"])
             /\ Seeded(o, k, o.notify)
    <3>1. /\ [o.card EXCEPT !.State = "resolved"] \in Cards
          /\ o.alert \in Alerts /\ o.pc \in Writing
      BY <1>1, <1>2, <2>2 DEF Proper, Placed, Jobs, Cards, CardStates, Writing
    <3>2. Takes(o, k)
      BY <2>1, <2>2, ResolveCloses
    <3> QED
      BY <2>2, <3>1, <3>2, PutCloses
  <2>3. CASE Still
    BY <1>3, <2>1, <2>3, ClosingKept DEF Still
  <2> QED
    BY <1>1, <1>12, <2>2, <2>3, ExpiryTurns
<1> QED
  BY <1>4, <1>5, <1>6, <1>7, <1>8, <1>9, <1>10, <1>11, <1>12 DEF Step

\* Failures and restarts are never forgotten.
LEMMA DisturbedForGood ==
  ASSUME Typed, [Next]_vars, Undisturbed'
  PROVE  Undisturbed /\ UNCHANGED errors /\ ~(\E i \in Instances : Restart(i))
<1>0. errors \in Nat /\ restarts \in Nat
  BY Bounds DEF Typed, TypeOK
<1>1. CASE \E p \in Procs : Step(p)
  <2>1. PICK p \in Procs : Step(p)
    BY <1>1
  <2>2. CASE WriteCard(p) \/ ReadRefs(p) \/ WriteRefs(p)
    <3>1. restarts' = restarts /\ (errors' = errors \/ errors' = errors + 1)
      BY <2>2 DEF WriteCard, ReadRefs, WriteRefs, Fail, sendVars
    <3> QED
      BY <1>0, <3>1 DEF Undisturbed, Restart
  <2>3. CASE ~WriteCard(p) /\ ~ReadRefs(p) /\ ~WriteRefs(p)
    <3>1. restarts' = restarts /\ (errors' = errors \/ errors' = errors + 1)
      BY <1>0, <2>1, <2>3, ScanTurns, LookupTurns, TakeOverTurns, DeliveryTurns,
         FailureTurns, DeletionTurns, ExpiryTurns DEF Step
    <3> QED
      BY <1>0, <3>1 DEF Undisturbed, Restart
  <2> QED
    BY <2>2, <2>3
<1>2. CASE \E p \in Procs : \/ p \in Workers /\ \E a \in Alerts : Event(p, a)
                            \/ p \in Tickers /\ Tick(p)
                            \/ p \in Expirers /\ \E a \in Alerts : TakeMarker(p, a)
  BY <1>0, <1>2, StartTurns DEF Undisturbed, Restart
<1>3. CASE \E a \in Alerts : ExpireTick(a)
  BY <1>0, <1>3 DEF ExpireTick, sendVars, Undisturbed, Restart
<1>4. CASE \E i \in Instances : Restart(i)
  BY <1>0, <1>4 DEF Restart, Undisturbed
<1>5. CASE UNCHANGED vars
  BY <1>0, <1>5 DEF vars, sendVars, Undisturbed, Restart
<1> QED
  BY <1>1, <1>2, <1>3, <1>4, <1>5 DEF Next, Procs

\* The goroutines but p, and the cards of p's step.
LEMMA ResolvingIf ==
  ASSUME Resolving, Undisturbed, NEW p \in Procs, \A q \in Procs \ {p} : proc'[q] = proc[q],
         \A a \in Alerts : Closes(p, a)
  PROVE  Resolving'
<1> SUFFICES ASSUME NEW a \in Alerts, cards'[a].State = "resolved"
             PROVE  \E q \in Procs : Closing(q, a)'
  BY DEF Resolving
<1>1. CASE Closing(p, a)'
  BY <1>1
<1>2. CASE ~Closing(p, a)' /\ cards[a].State = "resolved"
  <2>1. PICK q \in Procs : Closing(q, a)
    BY <1>2 DEF Resolving
  <2>2. q # p
    BY <1>2, <2>1 DEF Closes, NoCard
  <2> QED
    BY <2>1, <2>2 DEF Closing
<1> QED
  BY <1>1, <1>2 DEF Closes, NoCard

\* A step that starts a job, or the store's own, leaves every card and every deletion alone.
LEMMA StartCloses ==
  ASSUME Sound, NEW p \in Procs, NEW a \in Alerts,
         \/ p \in Workers /\ \E b \in Alerts : Event(p, b)
         \/ p \in Tickers /\ Tick(p)
         \/ p \in Expirers /\ \E b \in Alerts : TakeMarker(p, b)
  PROVE  Closes(p, a)
BY StartTurns DEF Sound, Still, Closes, Closing

\* A goroutine's step leaves the others where they are.
LEMMA OnlyOneMoves ==
  ASSUME Typed, Store = "nats", UNCHANGED errors, NEW p \in Procs, Step(p)
  PROVE  \A q \in Procs \ {p} : proc'[q] = proc[q]
<1>1. CASE NextDecision(p) \/ NextRepeat(p) \/ EndTick(p)
  BY <1>1, ScanTurns
<1>2. CASE GetAlertIdentity(p) \/ RefreshTick(p) \/ ReadCard(p)
  BY <1>2, LookupTurns
<1>3. CASE WriteCard(p)
  BY <1>3, WriteCardTurns
<1>4. CASE ResolveConflict(p) \/ SeedExternalRefs(p)
  BY <1>4, TakeOverTurns
<1>5. CASE Mute(p) \/ PrepareNotification(p) \/ Send(p) \/ CaptureDeliveryEffects(p)
  BY <1>5, DeliveryTurns
<1>6. CASE SendFails(p)
  BY <1>6, FailureTurns
<1>7. CASE ReadRefs(p) \/ WriteRefs(p)
  BY <1>7, RefTurns
<1>8. CASE DeleteCard(p) \/ DeleteTick(p) \/ RemoveAlertState(p)
  BY <1>8, DeletionTurns
<1>9. CASE ReadExpired(p) \/ ResolveExpired(p)
  BY <1>9, ExpiryTurns
<1> QED
  BY <1>1, <1>2, <1>3, <1>4, <1>5, <1>6, <1>7, <1>8, <1>9 DEF Step

\* So every step keeps a resolved card in somebody's hands.
LEMMA NextResolving ==
  ASSUME Sound, Resolving, Store = "nats", [Next]_vars
  PROVE  Resolving'
<1> SUFFICES ASSUME Undisturbed' PROVE Resolving'
  BY DEF Resolving
<1>0. Typed /\ Undisturbed /\ UNCHANGED errors /\ ~(\E i \in Instances : Restart(i))
  BY DisturbedForGood DEF Sound
<1>1. ASSUME NEW p \in Procs, Step(p) PROVE Resolving'
  <2>1. \A q \in Procs \ {p} : proc'[q] = proc[q]
    BY <1>0, <1>1, OnlyOneMoves
  <2>2. \A a \in Alerts : Closes(p, a)
    BY <1>0, <1>1, StepCloses
  <2> QED
    BY <1>0, <2>1, <2>2, ResolvingIf
<1>2. ASSUME NEW p \in Procs,
             \/ p \in Workers /\ \E a \in Alerts : Event(p, a)
             \/ p \in Tickers /\ Tick(p)
             \/ p \in Expirers /\ \E a \in Alerts : TakeMarker(p, a)
      PROVE  Resolving'
  <2>1. \A q \in Procs \ {p} : proc'[q] = proc[q]
    BY <1>0, <1>2, StartTurns
  <2>2. \A a \in Alerts : Closes(p, a)
    BY <1>2, StartCloses
  <2> QED
    BY <1>0, <2>1, <2>2, ResolvingIf
<1>3. CASE UNCHANGED <<cards, proc>>
  BY <1>0, <1>3 DEF Resolving, Closing
<1>4. (\E a \in Alerts : ExpireTick(a)) \/ UNCHANGED vars => UNCHANGED <<cards, proc>>
  BY DEF ExpireTick, vars, storeVars
<1> QED
  BY <1>0, <1>1, <1>2, <1>3, <1>4 DEF Next, Procs

\* On NATS, with every handler returned and nothing failed, no resolved card is left behind, of
\* however many instances and whoever won the race for it (applyDecision, ResolveByTTL).
THEOREM ResolvedCardsGo == Store = "nats" => (Spec => []ResolvedCardTransient)
<1> SUFFICES ASSUME Store = "nats" PROVE Spec => []ResolvedCardTransient
  OBVIOUS
<1>1. Init => Resolving
  BY DEF Init, Resolving, NoCard
<1>2. Sound /\ Resolving /\ [Next]_vars => Resolving'
  BY NextResolving
<1>3. Resolving => ResolvedCardTransient
  BY DEF Resolving, ResolvedCardTransient, AllIdle, Closing
<1> QED
  BY <1>1, <1>2, <1>3, SoundAlways, PTL DEF Spec

-----------------------------------------------------------------------------
(* Cards of active alerts, in one instance.  A raise is on its way to the  *)
(* card, or a deletion is on its way to the engine's entry.                *)

\* Goroutine q is to create the card of alert a, or will find one.
Raises(q, a) ==
  LET j == proc[q]
  IN  \/ \E d \in j.todo : d.alert = a /\ d.changed /\ d.state # "resolved"
      \/ /\ j.alert = a /\ j.changed /\ j.state # "resolved"
         /\ j.pc \in {"identity", "refresh", "read"} \/ (j.pc = "write" /\ j.card = NoCard)
Attended(i) ==
  Undisturbed =>
    \A a \in Alerts : IsActive(i, a) =>
      \/ cards[a].State \in {"pending", "firing"}
      \/ \E q \in Procs : Closing(q, a) \/ Removing(q, a) \/ Raises(q, a)

\* What goroutine p's step means to alert a of instance i: it raises what becomes active, and gives
\* a raise up only for a card, and a removal for the engine's entry.
Serves(p, i, a) ==
  /\ IsActive(i, a)' => IsActive(i, a) \/ Raises(p, a)'
  /\ Raises(p, a) => Raises(p, a)' \/ cards'[a] # NoCard \/ ~IsActive(i, a)'
  /\ Removing(p, a) => Removing(p, a)' \/ ~IsActive(i, a)'

\* The goroutines but p, and the engine and the cards of p's step.
LEMMA AttendedIf ==
  ASSUME Typed', Resolving', Undisturbed', Undisturbed, NEW i \in Instances, Attended(i), NEW p \in Procs,
         \A q \in Procs \ {p} : proc'[q] = proc[q],
         \A a \in Alerts : Closes(p, a) /\ Serves(p, i, a)
  PROVE  Attended(i)'
<1> SUFFICES ASSUME NEW a \in Alerts, IsActive(i, a)'
             PROVE  \/ cards'[a].State \in {"pending", "firing"}
                    \/ \E q \in Procs : Closing(q, a)' \/ Removing(q, a)' \/ Raises(q, a)'
  BY DEF Attended
<1>1. cards'[a].State = "resolved" => \E q \in Procs : Closing(q, a)'
  BY DEF Resolving
<1>2. cards'[a] # NoCard => cards'[a].State \in CardStates
  BY DEF Typed, TypeOK, Cards
<1>3. CASE Raises(p, a)'
  BY <1>3
<1>4. CASE IsActive(i, a)
  <2>1. CASE cards[a].State \in {"pending", "firing"}
    BY <2>1 DEF Closes, NoCard
  <2>2. CASE \E q \in Procs \ {p} : Closing(q, a) \/ Removing(q, a) \/ Raises(q, a)
    BY <2>2 DEF Closing, Removing, Raises
  <2>3. CASE Closing(p, a)
    BY <2>3 DEF Closes
  <2>4. CASE Removing(p, a)
    BY <2>4 DEF Serves
  <2>5. CASE Raises(p, a)
    <3>1. Raises(p, a)' \/ cards'[a] # NoCard
      BY <2>5 DEF Serves
    <3> QED
      BY <1>1, <1>2, <3>1 DEF CardStates
  <2> QED
    BY <1>4, <2>1, <2>2, <2>3, <2>4, <2>5 DEF Attended
<1> QED
  BY <1>3, <1>4 DEF Serves

\* What leaves the inactive phase is a raise.
LEMMA InactiveOutcomes ==
  ASSUME NEW o \in EventOutcomes(Inactive) \cup TickOutcomes(Inactive), o.phase # Inactive
  PROVE  o.state \in {"pending", "firing"} /\ o.changed
<1>1. o = Raising \/ o = Nothing(Inactive)
  BY DEF EventOutcomes, TickOutcomes, Inactive
<1>2. Nothing(Inactive).phase = Inactive
  BY DEF Nothing, Outcome
<1>3. Raising.state = Raised /\ Raising.changed
  BY DEF Raising, Outcome
<1> QED
  BY <1>1, <1>2, <1>3 DEF Raised

\* An event or a tick that makes an alert active carries the raise.
LEMMA EventRaises ==
  ASSUME Typed, NEW i \in Instances, Instances = {i}, NEW p \in Workers, NEW b \in Alerts, Event(p, b),
         NEW a \in Alerts
  PROVE  Serves(p, i, a)
<1> DEFINE e == IF HasEntry(p, b) THEN Entry(p, b) ELSE Fresh
<1>1. p \in Procs /\ Home[p] = i /\ Proper(proc[p]) /\ proc[p].pc = "idle" /\ rule \in RuleConfig
  BY HomeAssumption, RulesAssumption, GoroutinesProper DEF Procs, Event, Typed, TypeOK
<1>2. ~Raises(p, a) /\ ~Removing(p, a)
  BY <1>1 DEF Proper, Placed, Idle, Raises, Removing
<1>3. ASSUME IsActive(i, a)', ~IsActive(i, a) PROVE Raises(p, a)'
  <2>1. PICK o \in EventOutcomes(e.phase), way \in Ingest :
          /\ SetEntry(p, b, After(e, o, b))
          /\ IF o.state = Inactive THEN UNCHANGED <<proc, overlaps>>
             ELSE Becomes(p, Carry("event", Decision(b, o, After(e, o, b)), way = "batch"))
    BY DEF Event
  <2>2. engine[i] \in [Alerts -> Entries] /\ engine \in [Instances -> [Alerts -> Entries]]
    BY DEF Typed, TypeOK
  <2>3. engine'[i] = [engine[i] EXCEPT ![b] = After(e, o, b)]
    BY <1>1, <2>1, <2>2 DEF SetEntry
  <2>4. a = b
    BY <1>3, <2>2, <2>3 DEF IsActive
  <2>5. e.phase = Inactive
    BY <1>1, <1>3, <2>4 DEF IsActive, HasEntry, Entry, Fresh
  <2>6. After(e, o, b).phase # Inactive
    BY <1>3, <2>2, <2>3, <2>4 DEF IsActive
  <2>7. o.phase # Inactive
    <3>1. e \in [phase : Phases, ref : Reference, told : BOOLEAN, life : Life]
      BY <1>1, <2>2, Bounds DEF HasEntry, Entry, Fresh, Entries, Phases, Inactive
    <3> HIDE DEF e
    <3> QED
      BY <2>6, <3>1 DEF After
  <2>8. o.state \in {"pending", "firing"} /\ o.changed
    BY <2>1, <2>5, <2>7, InactiveOutcomes
  <2> DEFINE d == Decision(b, o, After(e, o, b))
             k == Carry("event", d, way = "batch")
  <2>9. d.alert = b /\ d.state = o.state /\ d.changed = o.changed
    BY DEF Decision
  <2>10. Becomes(p, k)
    BY <2>1, <2>8 DEF Inactive
  <2> HIDE DEF d
  <2>11. k.pc = "identity" /\ k.alert = d.alert /\ k.state = d.state /\ k.changed = d.changed
    BY DEF Carry, Idle
  <2> HIDE DEF k
  <2>12. proc'[p] = k
    BY <1>1, <2>10, OnlyOne
  <2> QED
    BY <2>4, <2>8, <2>9, <2>11, <2>12 DEF Raises
<1> QED
  BY <1>2, <1>3 DEF Serves

\* Of a tick, in the decisions to come.
LEMMA TickRaises ==
  ASSUME Typed, NEW i \in Instances, Instances = {i}, NEW p \in Tickers, Tick(p), NEW a \in Alerts
  PROVE  Serves(p, i, a)
<1> DEFINE held == {b \in Alerts : HasEntry(p, b)}
           Choices == [held -> UNION {TickOutcomes(ph) : ph \in {Inactive, "pending", "firing"}}]
           Next1(choice) == [b \in held |-> After(Entry(p, b), choice[b], b)]
           Todo(choice) == {Decision(b, choice[b], Next1(choice)[b]) :
                              b \in {b \in held : choice[b].state # Inactive}}
<1>1. p \in Procs /\ Home[p] = i /\ Proper(proc[p]) /\ proc[p].pc = "idle" /\ rule \in RuleConfig
  BY HomeAssumption, RulesAssumption, GoroutinesProper DEF Procs, Tick, Typed, TypeOK
<1>2. ~Raises(p, a) /\ ~Removing(p, a)
  BY <1>1 DEF Proper, Placed, Idle, Raises, Removing
<1>3. ASSUME IsActive(i, a)', ~IsActive(i, a) PROVE Raises(p, a)'
  <2>1. PICK choice \in Choices :
          /\ \A b \in held : choice[b] \in TickOutcomes(Entry(p, b).phase)
          /\ \E listed \in SUBSET {b \in held : Next1(choice)[b].phase = "firing"} :
               /\ engine' = [engine EXCEPT ![Home[p]] =
                    [b \in Alerts |-> IF b \in held THEN Next1(choice)[b] ELSE NoEntry]]
               /\ Becomes(p, [Idle EXCEPT !.pc = "scan", !.todo = Todo(choice),
                                !.repeats = IF Repeat THEN listed ELSE {}])
    BY Zenon DEF Tick
  <2>2. engine[i] \in [Alerts -> Entries] /\ engine \in [Instances -> [Alerts -> Entries]]
    BY DEF Typed, TypeOK
  <2>3. engine'[i] = [b \in Alerts |-> IF b \in held THEN Next1(choice)[b] ELSE NoEntry]
    BY <1>1, <2>1, <2>2
  <2>4. a \in held /\ engine'[i][a] = After(Entry(p, a), choice[a], a)
    BY <1>3, <2>3 DEF IsActive
  <2>5. Entry(p, a).phase = Inactive /\ choice[a] \in TickOutcomes(Inactive)
    BY <1>1, <1>3, <2>1, <2>4 DEF IsActive, HasEntry, Entry
  <2>6. choice[a].phase # Inactive
    <3> DEFINE e == Entry(p, a)
    <3>1. e \in [phase : Phases, ref : Reference, told : BOOLEAN, life : Life]
      BY <1>1, <2>2, <2>4 DEF HasEntry, Entry, Entries
    <3>2. After(e, choice[a], a).phase # Inactive
      BY <1>3, <2>4 DEF IsActive
    <3> HIDE DEF e
    <3> QED
      BY <3>1, <3>2 DEF After
  <2>7. choice[a].state \in {"pending", "firing"} /\ choice[a].changed
    BY <2>5, <2>6, InactiveOutcomes
  <2>8. Decision(a, choice[a], Next1(choice)[a]) \in Todo(choice)
    BY <2>4, <2>7 DEF Inactive
  <2> DEFINE d == Decision(a, choice[a], Next1(choice)[a])
             todo == Todo(choice)
  <2>9. d.alert = a /\ d.state = choice[a].state /\ d.changed = choice[a].changed
    BY DEF Decision
  <2>10. PICK repeats : Becomes(p, [Idle EXCEPT !.pc = "scan", !.todo = todo, !.repeats = repeats])
    BY <2>1
  <2>11. d \in todo
    BY <2>8
  <2> HIDE DEF d, todo
  <2>12. proc'[p].todo = todo
    <3> DEFINE k == [Idle EXCEPT !.pc = "scan", !.todo = todo, !.repeats = repeats]
    <3>1. k.todo = todo
      BY DEF Idle
    <3>2. Becomes(p, k)
      BY <2>10
    <3> HIDE DEF k
    <3> QED
      BY <1>1, <3>1, <3>2, OnlyOne
  <2> QED
    BY <2>7, <2>9, <2>11, <2>12 DEF Raises
<1> QED
  BY <1>2, <1>3 DEF Serves

\* No step of a handler makes an alert active: the entry's phase is the engine's own business.
LEMMA ActiveKept ==
  ASSUME Typed, NEW i \in Instances, NEW p \in Procs, Step(p), NEW a \in Alerts, IsActive(i, a)'
  PROVE  IsActive(i, a)
<1>1. engine \in [Instances -> [Alerts -> Entries]] /\ Home[p] \in Instances
  BY HomeAssumption DEF Typed, TypeOK
<1>2. ASSUME NEW b \in Alerts, NEW e \in Entries, SetEntry(p, b, e),
             e = NoEntry \/ (HasEntry(p, b) /\ e.phase = Entry(p, b).phase)
      PROVE  IsActive(i, a)
  <2>1. \A j \in Instances, c \in Alerts :
          engine'[j][c] = IF j = Home[p] /\ c = b THEN e ELSE engine[j][c]
    BY <1>1, <1>2 DEF SetEntry
  <2> QED
    BY <1>1, <1>2, <2>1 DEF IsActive, HasEntry, Entry
<1>3. CASE UNCHANGED engine
  BY <1>3 DEF IsActive
<1>4. CASE EndTick(p)
  <2>1. PICK gone : engine' = [engine EXCEPT ![Home[p]] =
                      [b \in Alerts |-> IF b \in gone THEN NoEntry ELSE engine[Home[p]][b]]]
    BY <1>4 DEF EndTick
  <2>2. engine'[i][a] = NoEntry \/ engine'[i][a] = engine[i][a]
    BY <1>1, <2>1
  <2> QED
    BY <2>2 DEF IsActive
<1>5. CASE SeedExternalRefs(p) \/ CaptureDeliveryEffects(p)
  <2> DEFINE b == proc[p].alert
             f == Entry(p, b)
  <2>1. Proper(proc[p]) /\ b \in Alerts /\ (SeedExternalRefs(p) => proc[p].card \in Cards)
    BY <1>5, GoroutinesProper
       DEF Typed, Proper, Busy, Placed, Jobs, SeedExternalRefs, CaptureDeliveryEffects
  <2>2. ASSUME HasEntry(p, b), ~UNCHANGED engine
        PROVE  \E e \in Entries : SetEntry(p, b, e) /\ e.phase = Entry(p, b).phase
    <3>1. f \in [phase : Phases, ref : Reference, told : BOOLEAN, life : Life]
      BY <1>1, <2>1, <2>2 DEF HasEntry, Entry, Entries
    <3>2. PICK told \in BOOLEAN, ref \in Reference :
            SetEntry(p, b, [f EXCEPT !.told = told, !.ref = ref])
      <4>1. CASE SeedExternalRefs(p)
        <5> DEFINE r == proc[p].card.ref
        <5>1. SetEntry(p, b, [f EXCEPT !.ref = r]) /\ r \in Reference
          BY <2>1, <2>2, <4>1 DEF SeedExternalRefs, Cards
        <5> HIDE DEF r, f
        <5>2. [f EXCEPT !.ref = r] = [f EXCEPT !.told = f.told, !.ref = r] /\ f.told \in BOOLEAN
          BY <3>1
        <5> QED
          BY <5>1, <5>2 DEF f
      <4>2. CASE CaptureDeliveryEffects(p)
        <5> DEFINE r == IF proc[p].ref = None THEN f.ref ELSE proc[p].ref
        <5>1. SetEntry(p, b, [f EXCEPT !.told = TRUE, !.ref = r])
          BY <2>2, <4>2 DEF CaptureDeliveryEffects
        <5>2. r \in Reference
          BY <2>1, <3>1 DEF Proper, Jobs
        <5> QED
          BY <5>1, <5>2
      <4> QED
        BY <1>5, <4>1, <4>2
    <3> DEFINE e == [f EXCEPT !.told = told, !.ref = ref]
    <3> HIDE DEF f
    <3>3. e \in Entries /\ e.phase = f.phase
      BY <3>1 DEF Entries
    <3>4. SetEntry(p, b, e)
      BY <3>2 DEF f
    <3> HIDE DEF e
    <3> QED
      BY <3>3, <3>4 DEF f
  <2>3. HasEntry(p, b) \/ UNCHANGED engine
    BY <1>5 DEF SeedExternalRefs, CaptureDeliveryEffects
  <2> QED
    BY <1>2, <1>3, <2>1, <2>2, <2>3
<1>6. CASE RemoveAlertState(p)
  <2>1. proc[p].alert \in Alerts /\ SetEntry(p, proc[p].alert, NoEntry) /\ NoEntry \in Entries
    BY <1>6, GoroutinesProper DEF RemoveAlertState, Removed, Typed, Proper, Busy, Entries
  <2> QED
    BY <1>2, <2>1
<1>7. \/ UNCHANGED engine \/ EndTick(p) \/ SeedExternalRefs(p) \/ CaptureDeliveryEffects(p)
      \/ RemoveAlertState(p)
  BY DEF Step, NextDecision, NextRepeat, GetAlertIdentity, RefreshTick, ReadCard, WriteCard,
         ResolveConflict, Mute, PrepareNotification, Send, SendFails, ReadRefs, WriteRefs,
         DeleteCard, DeleteTick, ReadExpired, ResolveExpired, engineVars
<1> QED
  BY <1>3, <1>4, <1>5, <1>6, <1>7

\* Decisions to come stay with a job until their turn.
LEMMA RaisesKept ==
  ASSUME NEW p \in Procs, NEW a \in Alerts, NEW notify,
         LET o == proc[p]
             k == proc'[p]
         IN  /\ o.pc \notin {"identity", "refresh", "read", "write"}
             /\ \/ Stays(o, k) \/ Ended(o, k) \/ Closed(o, k)
                \/ Announced(o, k, notify) \/ Seeded(o, k, notify)
  PROVE  Raises(p, a) => Raises(p, a)'
BY DEF Raises, Stays, Ended, Closed, Announced, Seeded

\* A tick without decisions raises nothing, one with decisions goes on to one of them.
LEMMA ScanRaises ==
  ASSUME Typed, NEW p \in Procs, NextDecision(p) \/ NextRepeat(p) \/ EndTick(p), NEW a \in Alerts,
         Raises(p, a)
  PROVE  Raises(p, a)'
<1>1. Proper(proc[p]) /\ proc[p].pc = "scan"
  BY GoroutinesProper DEF Typed, NextDecision, NextRepeat, EndTick
<1>2. PICK d \in proc[p].todo : d.alert = a /\ d.changed /\ d.state # "resolved"
  BY <1>1 DEF Raises
<1>3. NextDecision(p)
  BY <1>2 DEF NextRepeat, EndTick
<1>4. PICK c \in proc[p].todo :
        Becomes(p, [Carry("decision", c, FALSE)
                      EXCEPT !.todo = proc[p].todo \ {c}, !.repeats = proc[p].repeats])
  BY <1>3 DEF NextDecision
<1> DEFINE todo == proc[p].todo \ {c}
           repeats == proc[p].repeats
           k == [Carry("decision", c, FALSE) EXCEPT !.todo = todo, !.repeats = repeats]
<1>5. Becomes(p, k)
  BY <1>4
<1> HIDE DEF todo, repeats
<1>6. k.pc = "identity" /\ k.alert = c.alert /\ k.state = c.state /\ k.changed = c.changed /\ k.todo = todo
  BY DEF Carry, Idle
<1> HIDE DEF k
<1>7. proc'[p] = k
  BY <1>5, OnlyOne
<1>8. c = d \/ d \in todo
  BY DEF todo
<1> QED
  BY <1>2, <1>6, <1>7, <1>8 DEF Raises

\* On its way to the card a raise is dropped only with the engine's entry, or for a card.
LEMMA LookupRaises ==
  ASSUME Typed, NEW i \in Instances, Instances = {i}, NEW p \in Procs,
         GetAlertIdentity(p) \/ RefreshTick(p) \/ ReadCard(p), NEW a \in Alerts, Raises(p, a)
  PROVE  Raises(p, a)' \/ cards'[a] # NoCard \/ ~IsActive(i, a)'
<1> DEFINE o == proc[p]
           k == proc'[p]
<1>1. /\ o.pc \in {"identity", "refresh", "flush", "read"} /\ Home[p] = i /\ cards' = cards
      /\ k.todo = o.todo
  BY LookupTurns, HomeAssumption DEF Ended, Stays, Still
<1>2. CASE \E d \in o.todo : d.alert = a /\ d.changed /\ d.state # "resolved"
  BY <1>1, <1>2 DEF Raises
<1>3. CASE o.alert = a /\ o.changed /\ o.state # "resolved" /\ o.pc \in {"identity", "refresh", "read"}
  <2>1. CASE k.pc \in {"refresh", "read"} /\ Stays(o, k)
    BY <1>3, <2>1 DEF Raises, Stays
  <2>2. CASE k.pc = "write" /\ Stays(o, k) /\ k.card = cards[k.alert]
    BY <1>1, <1>3, <2>2 DEF Raises, Stays
  <2>3. CASE ~HasEntry(p, a)
    <3>1. engine' = engine
      BY DEF GetAlertIdentity, RefreshTick, ReadCard, engineVars
    <3> QED
      BY <1>1, <2>3, <3>1 DEF HasEntry, Entry, IsActive
  <2> QED
    BY <1>3, <2>1, <2>2, <2>3, LookupTurns
<1> QED
  BY <1>1, <1>2, <1>3 DEF Raises

\* Every step of a goroutine that is not a failure.
LEMMA StepServes ==
  ASSUME Sound, Store = "nats", NEW i \in Instances, Instances = {i}, NEW p \in Procs, Step(p),
         UNCHANGED errors, NEW a \in Alerts
  PROVE  Serves(p, i, a)
<1> DEFINE o == proc[p]
           k == proc'[p]
<1>1. Typed /\ Proper(o) /\ errors \in Nat /\ Home[p] = i
  BY GoroutinesProper, HomeAssumption DEF Sound, Typed, TypeOK
<1>2. o.pc \notin {"idle", "scan"} => o.alert \in Alerts /\ o.state \in CardStates
  BY <1>1 DEF Proper, Busy
<1>3. IsActive(i, a)' => IsActive(i, a)
  BY <1>1, ActiveKept
<1>4. ASSUME ~Removing(p, a), Raises(p, a) => Raises(p, a)' \/ cards'[a] # NoCard \/ ~IsActive(i, a)'
      PROVE  Serves(p, i, a)
  BY <1>3, <1>4 DEF Serves
<1>5. o.pc \notin {"deleteTick", "remove"} => ~Removing(p, a)
  BY DEF Removing
<1>6. CASE NextDecision(p) \/ NextRepeat(p) \/ EndTick(p)
  BY <1>1, <1>4, <1>5, <1>6, ScanTurns, ScanRaises
<1>7. CASE GetAlertIdentity(p) \/ RefreshTick(p) \/ ReadCard(p)
  BY <1>1, <1>4, <1>5, <1>7, LookupTurns, LookupRaises
<1>8. CASE WriteCard(p)
  <2>1. k.todo = o.todo /\ o.pc = "write"
    BY <1>1, <1>8, WriteCardTurns DEF Seeded, Announced, Closed, Ended, Stays
  <2>2. ASSUME Raises(p, a), ~Raises(p, a)' PROVE cards'[a] # NoCard
    <3>1. o.alert = a /\ o.card = NoCard
      BY <2>1, <2>2 DEF Raises
    <3>2. CASE Put(o.alert, Written(o))
      <4>1. Written(o) \in Cards
        BY <1>1, <2>1, WrittenTypes
      <4> QED
        BY <1>1, <3>1, <3>2, <4>1, PutMakes
    <3>3. CASE UNCHANGED <<cards, revision, moved>>
      <4>1. ~SameRevision(o.card, o.alert) \/ Put(o.alert, Written(o))
        BY <1>8 DEF WriteCard
      <4> QED
        BY <3>1, <3>2, <3>3, <4>1 DEF SameRevision
    <3> QED
      BY <1>1, <1>8, <3>2, <3>3, WriteCardTurns
  <2> QED
    BY <1>4, <1>5, <2>1, <2>2
<1>9. CASE ResolveConflict(p) \/ SeedExternalRefs(p)
  BY <1>1, <1>4, <1>5, <1>9, TakeOverTurns, RaisesKept
<1>10. CASE Mute(p) \/ PrepareNotification(p) \/ Send(p) \/ CaptureDeliveryEffects(p)
  BY <1>1, <1>4, <1>5, <1>10, DeliveryTurns, RaisesKept
<1>11. CASE SendFails(p)
  BY <1>1, <1>11, FailureTurns
<1>12. CASE ReadRefs(p) \/ WriteRefs(p)
  <2>1. /\ o.pc \in {"refs", "refsWrite"} /\ (Ended(o, k) \/ Stays(o, k))
    BY <1>1, <1>12, RefTurns
  <2> QED
    BY <1>4, <1>5, <2>1, RaisesKept
<1>13. CASE DeleteCard(p) \/ DeleteTick(p) \/ RemoveAlertState(p)
  <2>1. /\ o.pc \in {"delete", "deleteTick", "remove"} /\ (Ended(o, k) \/ Stays(o, k))
        /\ o.state = "resolved"
    BY <1>1, <1>13, DeletionTurns
  <2>2. Raises(p, a) => Raises(p, a)'
    BY <2>1, RaisesKept
  <2>3. CASE o.pc = "remove" /\ o.alert = a
    <3>1. SetEntry(p, a, NoEntry)
      BY <1>13, <2>3 DEF DeleteCard, DeleteTick, RemoveAlertState, Removed
    <3>2. engine'[i][a] = NoEntry
      BY <1>1, <3>1 DEF SetEntry, Typed, TypeOK
    <3> QED
      BY <1>3, <2>2, <3>2 DEF Serves, IsActive
  <2>4. CASE ~(o.pc = "remove" /\ o.alert = a)
    <3>1. Removing(p, a) => o.pc = "deleteTick"
      BY <2>4 DEF Removing
    <3>2. o.pc = "deleteTick" => k.pc = "remove" /\ Stays(o, k)
      BY <1>1, <1>13, DeletionTurns
    <3>3. Removing(p, a) => Removing(p, a)'
      BY <3>1, <3>2 DEF Removing, Stays
    <3> QED
      BY <1>3, <2>2, <3>3 DEF Serves
  <2> QED
    BY <2>3, <2>4
<1>14. CASE ReadExpired(p) \/ ResolveExpired(p)
  <2>1. o.pc \in {"ttlRead", "ttlWrite"} /\ o.why = "ttl"
    BY <1>1, <1>14, ExpiryTurns
  <2>2. o.todo = {}
    BY <1>1, <2>1 DEF Proper, Placed
  <2>3. ~Raises(p, a)
    BY <2>1, <2>2 DEF Raises
  <2> QED
    BY <1>4, <1>5, <2>1, <2>3
<1> QED
  BY <1>6, <1>7, <1>8, <1>9, <1>10, <1>11, <1>12, <1>13, <1>14 DEF Step

\* So an active alert of the one instance stays attended.
LEMMA NextAttended ==
  ASSUME Sound, Sound', Resolving, Resolving', Store = "nats", NEW i \in Instances, Instances = {i},
         Attended(i), [Next]_vars
  PROVE  Attended(i)'
<1> SUFFICES ASSUME Undisturbed' PROVE Attended(i)'
  BY DEF Attended
<1>0. Typed /\ Typed' /\ Undisturbed /\ UNCHANGED errors /\ ~(\E j \in Instances : Restart(j))
  BY DisturbedForGood DEF Sound
<1>1. ASSUME NEW p \in Procs, Step(p) PROVE Attended(i)'
  <2>1. \A q \in Procs \ {p} : proc'[q] = proc[q]
    BY <1>0, <1>1, OnlyOneMoves
  <2>2. \A a \in Alerts : Closes(p, a) /\ Serves(p, i, a)
    BY <1>0, <1>1, StepCloses, StepServes
  <2> QED
    BY <1>0, <2>1, <2>2, AttendedIf
<1>2. ASSUME NEW p \in Procs,
             \/ p \in Workers /\ \E a \in Alerts : Event(p, a)
             \/ p \in Tickers /\ Tick(p)
             \/ p \in Expirers /\ \E a \in Alerts : TakeMarker(p, a)
      PROVE  Attended(i)'
  <2>1. \A q \in Procs \ {p} : proc'[q] = proc[q]
    BY <1>0, <1>2, StartTurns
  <2>2. \A a \in Alerts : Closes(p, a)
    BY <1>2, StartCloses
  <2>3. ASSUME NEW a \in Alerts PROVE Serves(p, i, a)
    <3>1. CASE p \in Expirers /\ \E b \in Alerts : TakeMarker(p, b)
      <4>1. engine' = engine /\ proc[p] = Idle
        BY <1>0, <3>1, GoroutinesProper DEF TakeMarker, engineVars, Typed, Proper, Placed
      <4> QED
        BY <4>1 DEF Serves, IsActive, Raises, Removing, Idle
    <3> QED
      BY <1>0, <1>2, <3>1, EventRaises, TickRaises
  <2> QED
    BY <1>0, <2>1, <2>2, <2>3, AttendedIf
<1>3. CASE UNCHANGED <<cards, proc, engine>>
  BY <1>0, <1>3 DEF Attended, IsActive, Closing, Removing, Raises
<1>4. (\E a \in Alerts : ExpireTick(a)) \/ UNCHANGED vars => UNCHANGED <<cards, proc, engine>>
  BY DEF ExpireTick, vars, storeVars, engineVars
<1> QED
  BY <1>0, <1>1, <1>2, <1>3, <1>4 DEF Next, Procs

\* In a single instance on NATS, with every handler returned and nothing failed, an active alert has
\* its card: a resolve and a raise that race for it lose both or neither (applyDecision).
THEOREM ActiveAlertsHaveCards ==
  ASSUME Store = "nats", NEW i, Instances = {i}
  PROVE  Spec => []ActiveHasCard
<1>1. Init => Attended(i) /\ Resolving
  BY DEF Init, Attended, IsActive, Resolving, NoCard
<1>2. Sound /\ Sound' /\ Resolving /\ Resolving' /\ Attended(i) /\ [Next]_vars => Attended(i)'
  BY NextAttended
<1>3. Sound /\ Resolving /\ [Next]_vars => Resolving'
  BY NextResolving
<1>4. Sound /\ Attended(i) => ActiveHasCard
  <2> SUFFICES ASSUME Sound, Attended(i), AllIdle, Undisturbed, NEW a \in Alerts, IsActive(i, a)
               PROVE  cards[a].State \in {"pending", "firing"}
    BY DEF ActiveHasCard
  <2>1. \A q \in Procs : proc[q] = Idle
    BY GoroutinesProper DEF AllIdle, Sound, Typed, Proper, Placed
  <2> QED
    BY <2>1 DEF Attended, Closing, Removing, Raises, Idle
<1> QED
  BY <1>1, <1>2, <1>3, <1>4, SoundAlways, PTL DEF Spec

===============================================================================
