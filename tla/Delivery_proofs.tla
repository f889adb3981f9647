---------------------------- MODULE Delivery_proofs ----------------------------
(***************************************************************************)
(* Proofs about Delivery, for any routes, retries, notifications and       *)
(* faults: the alert knows what it has standing in the channels.           *)
(***************************************************************************)
EXTENDS Delivery, TLAPS

-----------------------------------------------------------------------------
(* The inductive invariant.                                                *)

Reference == 0..Len(posts)
Post == [route : Routes, life : Nat, open : BOOLEAN]
Outcome == [at : Routes, post : 1..Len(posts), ref : Reference, msg : Reference]
Notification ==
  [pc : {"route", "send", "wait"}, state : {"firing", "resolved"}, ttl : BOOLEAN,
   at : 1..(Len(config.routes) + 1), attempt : Nat, ref : Reference, results : Seq(Outcome)]

\* The shapes of the alert's entry, of the notification and of what the channels hold.
TypeOK ==
  /\ config \in Configs /\ down \in BOOLEAN
  /\ notes \in Nat /\ lives \in Nat /\ faults \in Nat
  /\ posts \in Seq(Post) /\ excused \subseteq 1..Len(posts)
  /\ entry \in [firing : BOOLEAN, ref : [Routes -> Reference], msg : [Routes -> Reference]]
  /\ note \in Notification \cup {Idle}

Telling(state) == note # Idle /\ note.state = state
Stands(i) == Standing(config.routes[i])
\* A route whose resolve replies to the alert's first message.
Replies(i) == config.routes[i] = [Channel |-> "telegram", Mode |-> "history"]

\* A reference is one of its route, and a route that goes on from none keeps none; only what is
\* gone on from stays open; a notification is of the entry's state, and attempts are made
\* with what the entry knows.
Placed ==
  /\ \A k \in 1..Len(posts) : posts[k].open => Stands(posts[k].route)
  /\ \A k \in 1..Len(posts) : posts[k].life <= lives
  /\ \A i \in Routes : entry.ref[i] # None => posts[entry.ref[i]].route = i /\ ~Replies(i)
  /\ note # Idle =>
       /\ note.state = "firing" <=> entry.firing
       /\ note.pc # "route" => note.at \in Routes /\ note.ref = entry.ref[note.at]
       /\ \A k \in 1..Len(note.results) :
            LET r == note.results[k]
            IN posts[r.post].route = r.at /\ r.at < note.at

\* While the alert fires, every route that was served has its result, whose reference is the
\* post that was made or gone on from.
Firing ==
  Telling("firing") =>
    /\ Len(note.results) = note.at - 1
    /\ \A i \in 1..(note.at - 1) :
         LET r == note.results[i]
         IN /\ r.at = i /\ r.ref \in {None, r.post}
            /\ Stands(i) => r.ref = r.post /\ entry.ref[i] \in {None, r.post}
            /\ Replies(i) => /\ r.msg = r.post /\ r.ref = None
                             /\ posts[r.post].life = lives /\ r.post \notin excused

\* While it is resolved, nothing stays open on a route that was served.
Resolving ==
  Telling("resolved") =>
    /\ \A i \in 1..(note.at - 1) : Open(i) \subseteq excused
    /\ \A k \in 1..Len(note.results) :
         LET r == note.results[k] IN Stands(r.at) => r.post = entry.ref[r.at]

\* What the alert will have for a reference when the notification is through.
Ref(i) == IF Telling("firing") /\ i < note.at THEN note.results[i].ref ELSE entry.ref[i]
Kept ==
  \A i \in Routes :
    /\ Open(i) \subseteq excused \cup {Ref(i)}
    /\ Stands(i) /\ Ref(i) # None =>
         \/ posts[Ref(i)].open \/ Ref(i) \in excused
         \/ Telling("resolved") /\ \E k \in 1..Len(note.results) : note.results[k].post = Ref(i)

\* The first message of a route that replies to it is known from the first notification on that
\* got through, which is the first one to make the entry know anything.
Nothing == [i \in Routes |-> None]
Replied ==
  \A i \in Routes : Replies(i) =>
    /\ entry.msg[i] # None => /\ entry.msg[i] \in Opening(i)
                              /\ \A k \in Opening(i) : entry.msg[i] <= k
    /\ entry.msg[i] = None => entry.ref = Nothing /\ entry.msg = Nothing
    /\ entry.msg[i] = None /\ entry.firing =>
         Opening(i) \subseteq IF Telling("firing") /\ i < note.at THEN {note.results[i].post} ELSE {}
    /\ note # Idle => \A k \in 1..Len(note.results) :
                        note.results[k].at = i => note.results[k].post # entry.msg[i]

IInv == TypeOK /\ Placed /\ Firing /\ Resolving /\ Kept /\ Replied

-----------------------------------------------------------------------------
(* Types.                                                                  *)

\* The routes are a sequence, the retries have a number.
LEMMA ConfigShape ==
  ASSUME TypeOK
  PROVE  /\ config.routes \in Seq(RouteConfig) /\ Len(config.routes) \in Nat
         /\ Routes = 1..Len(config.routes)
         /\ \A i \in Routes : config.routes[i] \in RouteConfig
         /\ config.retry.MaxAttempts \in Nat
<1>1. config.routes \in Seq(RouteConfig) /\ config.retry \in RetryConfig
  BY ConfigsAssumption DEF TypeOK
<1> QED
  BY <1>1 DEF Routes, RetryConfig

\* A notification under way.
LEMMA UnderWay ==
  ASSUME TypeOK, note # Idle
  PROVE  /\ note \in Notification
         /\ note.pc \in {"route", "send", "wait"} /\ note.state \in {"firing", "resolved"}
         /\ note.at \in 1..(Len(config.routes) + 1) /\ note.at \in Nat
         /\ note.attempt \in Nat /\ note.ref \in Reference
         /\ note.results \in Seq(Outcome) /\ Len(note.results) \in Nat
         /\ \A k \in 1..Len(note.results) : note.results[k] \in Outcome
         /\ \A k \in 1..Len(note.results) : note.results[k].post \in 1..Len(posts)
<1>1. note \in Notification
  BY DEF TypeOK
<1>2. note.results \in Seq(Outcome) /\ note.at \in 1..(Len(config.routes) + 1)
  BY <1>1 DEF Notification
<1>3. \A k \in 1..Len(note.results) : note.results[k] \in Outcome
  BY <1>2
<1> QED
  BY <1>1, <1>2, <1>3, ConfigShape DEF Notification, Outcome

\* Channels only get more posts, and what was well typed stays so.
LEMMA SetsGrow ==
  ASSUME UNCHANGED config, Len(posts) \in Nat, Len(posts)' \in Nat, Len(posts) <= Len(posts)'
  PROVE  /\ Reference \subseteq Reference' /\ Outcome \subseteq Outcome' /\ Routes' = Routes
         /\ Notification \subseteq Notification' /\ Post' = Post
         /\ 1..Len(posts) \subseteq 1..Len(posts)'
<1>1. Reference \subseteq Reference' /\ 1..Len(posts) \subseteq 1..Len(posts)'
  BY DEF Reference
<1>2. Routes' = Routes /\ Post' = Post
  BY DEF Routes, Post
<1>3. Outcome \subseteq Outcome'
  BY <1>1, <1>2 DEF Outcome
<1>4. Seq(Outcome) \subseteq Seq(Outcome')
  BY <1>3
<1>5. Notification \subseteq Notification'
  BY <1>1, <1>4 DEF Notification
<1> QED
  BY <1>1, <1>2, <1>3, <1>5

\* What the entry knows of a route is a reference.
LEMMA EntryTypes ==
  ASSUME TypeOK
  PROVE  /\ entry.firing \in BOOLEAN
         /\ entry.ref \in [Routes -> Reference] /\ entry.msg \in [Routes -> Reference]
         /\ \A i \in Routes : entry.ref[i] \in Reference /\ entry.msg[i] \in Reference
         /\ Len(posts) \in Nat /\ None \in Reference /\ None = 0
         /\ NoEntry \in [firing : BOOLEAN, ref : [Routes -> Reference], msg : [Routes -> Reference]]
         /\ entry = [firing |-> entry.firing, ref |-> entry.ref, msg |-> entry.msg]
<1>1. Len(posts) \in Nat /\ None \in Reference /\ None = 0
  BY DEF TypeOK, None, Reference
<1>2. NoEntry \in [firing : BOOLEAN, ref : [Routes -> Reference], msg : [Routes -> Reference]]
  BY <1>1 DEF NoEntry
<1>3. /\ entry.ref \in [Routes -> Reference] /\ entry.msg \in [Routes -> Reference]
      /\ entry.firing \in BOOLEAN
      /\ entry = [firing |-> entry.firing, ref |-> entry.ref, msg |-> entry.msg]
  BY DEF TypeOK
<1> QED
  BY <1>1, <1>2, <1>3

\* A request at a route: what it makes of the channel's posts. It makes one, closes one or
\* leaves them.
Makes == ~Closes /\ ~Edits
LEMMA EffectShape ==
  ASSUME TypeOK, Placed, note.pc = "send", ~Refused
  PROVE  /\ note # Idle /\ note.at \in Routes /\ note.ref = entry.ref[note.at]
         /\ note.ref \in Reference /\ Len(posts) \in Nat
         /\ ~Makes => note.ref \in 1..Len(posts) /\ Stands(note.at)
         /\ Closes => note.state = "resolved"
         /\ Closes => posts[note.ref].open
         /\ Edits => Effect = posts /\ note.state = "firing" /\ ~Closes
         /\ Edits /\ ~Silent => posts[note.ref].open
         /\ Silent => Edits
         /\ Closes => /\ Len(Effect) = Len(posts) /\ ~Effect[note.ref].open
                      /\ \A k \in 1..Len(posts) : k # note.ref => Effect[k] = posts[k]
                      /\ Effect[note.ref].route = posts[note.ref].route
                      /\ Effect[note.ref].life = posts[note.ref].life
         /\ Makes => /\ Len(Effect) = Len(posts) + 1
                     /\ \A k \in 1..Len(posts) : Effect[k] = posts[k]
                     /\ Effect[New] = [route |-> note.at, life |-> lives, open |-> Stands(note.at)]
         /\ Effect \in Seq(Post)
<1>1. /\ note # Idle /\ note.at \in Routes /\ note.ref = entry.ref[note.at]
      /\ note.ref \in Reference /\ Len(posts) \in Nat /\ note.state \in {"firing", "resolved"}
  <2>1. note # Idle
    BY DEF Idle
  <2> QED
    BY <2>1, UnderWay, EntryTypes DEF Placed
<1>2. Stands(note.at) = Standing(Route)
  BY DEF Stands, Route
<1>3. ~Makes => note.ref \in 1..Len(posts) /\ Standing(Route)
  <2>1. CASE Closes
    <3>1. note.ref # None
      BY <2>1 DEF Refused
    <3> QED
      BY <1>1, <2>1, <3>1 DEF Closes, Reference, None
  <2>2. CASE Edits
    <3>1. note.ref # None /\ Standing(Route)
      BY <1>1, <2>2 DEF Edits, Posts, Closes
    <3> QED
      BY <1>1, <3>1 DEF Reference, None
  <2> QED
    BY <2>1, <2>2 DEF Makes
<1>4. Edits => note.state = "firing" /\ ~Closes /\ Effect = posts
  BY <1>1 DEF Edits, Closes, Effect
<1>5. Silent => Edits
  BY <1>1 DEF Silent, Edits, Closes, Posts, Standing
<1>6. (Closes \/ Edits) /\ ~Silent => posts[note.ref].open
  BY <1>1, <1>3 DEF Refused, Makes, None, Reference
<1>7. Closes => ~Silent /\ note.state = "resolved"
  BY DEF Closes, Silent
<1>8. ASSUME Closes
      PROVE  /\ Len(Effect) = Len(posts) /\ ~Effect[note.ref].open
             /\ \A k \in 1..Len(posts) : k # note.ref => Effect[k] = posts[k]
             /\ Effect[note.ref].route = posts[note.ref].route
             /\ Effect[note.ref].life = posts[note.ref].life
             /\ Effect \in Seq(Post)
  <2>1. note.ref \in 1..Len(posts) /\ posts \in Seq(Post) /\ posts[note.ref] \in Post
    BY <1>3, <1>8 DEF Makes, TypeOK
  <2>2. PICK p : p = [posts[note.ref] EXCEPT !.open = FALSE]
    OBVIOUS
  <2>3. p \in Post /\ p.route = posts[note.ref].route /\ p.life = posts[note.ref].life /\ ~p.open
    BY <2>1, <2>2 DEF Post
  <2>4. Effect = [posts EXCEPT ![note.ref] = p]
    BY <1>8, <2>2 DEF Effect
  <2> QED
    BY <2>1, <2>3, <2>4
<1>9. ASSUME Makes
      PROVE  /\ Len(Effect) = Len(posts) + 1
             /\ \A k \in 1..Len(posts) : Effect[k] = posts[k]
             /\ Effect[New] = [route |-> note.at, life |-> lives, open |-> Stands(note.at)]
             /\ Effect \in Seq(Post)
  <2>1. PICK p : p = [route |-> note.at, life |-> lives, open |-> Standing(Route)]
    OBVIOUS
  <2>2. p \in Post
    BY <1>1, <2>1 DEF Post, TypeOK, Standing
  <2>3. Effect = Append(posts, p) /\ posts \in Seq(Post)
    BY <1>9, <2>1 DEF Effect, Makes, TypeOK
  <2>4. /\ Append(posts, p) \in Seq(Post) /\ Len(Append(posts, p)) = Len(posts) + 1
        /\ Append(posts, p)[Len(posts) + 1] = p
        /\ \A k \in 1..Len(posts) : Append(posts, p)[k] = posts[k]
    BY <2>2, <2>3
  <2>5. p = [route |-> note.at, life |-> lives, open |-> Stands(note.at)]
    BY <1>2, <2>1
  <2> QED
    BY <2>3, <2>4, <2>5 DEF New
<1>10. Effect \in Seq(Post)
  BY <1>4, <1>8, <1>9 DEF Makes, TypeOK
<1> QED
  BY <1>1, <1>2, <1>3, <1>4, <1>5, <1>6, <1>7, <1>8, <1>9, <1>10

\* The entry and the notification stay well typed when a request makes a post.
LEMMA StillTyped ==
  ASSUME TypeOK, UNCHANGED config, posts' \in Seq(Post), Len(posts) <= Len(posts)'
  PROVE  /\ posts' \in Seq(Post') /\ Len(posts)' \in Nat
         /\ entry \in [firing : BOOLEAN, ref : [Routes' -> Reference'], msg : [Routes' -> Reference']]
         /\ NoEntry \in [firing : BOOLEAN, ref : [Routes' -> Reference'], msg : [Routes' -> Reference']]
         /\ note \in Notification' \cup {Idle}
         /\ excused \subseteq 1..Len(posts)'
<1>1. Len(posts) \in Nat /\ Len(posts)' \in Nat
  BY DEF TypeOK
<1>2. /\ Reference \subseteq Reference' /\ Routes' = Routes /\ Post' = Post
      /\ Notification \subseteq Notification' /\ 1..Len(posts) \subseteq 1..Len(posts)'
  BY <1>1, SetsGrow
<1>3. \A f \in [Routes -> Reference] : f \in [Routes' -> Reference']
  BY <1>2
<1>4. \A e \in [firing : BOOLEAN, ref : [Routes -> Reference], msg : [Routes -> Reference]] :
        e \in [firing : BOOLEAN, ref : [Routes' -> Reference'], msg : [Routes' -> Reference']]
  BY <1>3
<1> QED
  BY <1>1, <1>2, <1>4, EntryTypes DEF TypeOK

\* What a served route returns.
LEMMA ResultType ==
  ASSUME TypeOK, Placed, note.pc = "send", ~Refused, UNCHANGED config,
         Silent => posts' = posts, ~Silent => posts' = Effect
  PROVE  /\ Len(posts)' \in Nat /\ Len(posts) <= Len(posts)' /\ posts' \in Seq(Post)
         /\ Result \in Outcome'
         /\ Result.at = note.at
         /\ ~Makes => Result.post = note.ref
         /\ Makes => Result.post = New /\ New = Len(posts) + 1
<1>1. /\ note.at \in Routes /\ note.ref \in 0..Len(posts) /\ Len(posts) \in Nat
      /\ ~Makes => note.ref \in 1..Len(posts)
  BY EffectShape DEF Reference
<1>2. /\ posts' \in Seq(Post)
      /\ Makes => Len(posts)' = Len(posts) + 1
      /\ ~Makes => Len(posts)' = Len(posts)
  BY EffectShape DEF Makes, TypeOK
<1>3. Makes <=> ~(Closes \/ Edits)
  BY DEF Makes
<1>4. (IF Closes \/ Edits THEN note.ref ELSE New) \in 1..Len(posts)'
  BY <1>1, <1>2, <1>3 DEF New
<1>5. Posts => Makes
  BY DEF Posts, Makes, Closes, Edits
<1>5a. Route.Channel = "mattermost" /\ note.state = "firing" /\ ~Standing(Route) => Makes
  BY DEF Makes, Closes, Edits
<1>6. (IF Standing(Route) THEN IF Posts THEN New ELSE IF Closes THEN None ELSE note.ref
       ELSE IF Route.Channel = "mattermost" /\ note.state = "firing" THEN New ELSE None) \in 0..Len(posts)'
  BY <1>1, <1>2, <1>5, <1>5a DEF New, None
<1>7. Route.Channel = "telegram" /\ ~Active /\ note.state = "firing" => Makes
  <2>1. Route.Channel = "telegram" /\ ~Active => ~Standing(Route)
    BY DEF Active, Standing
  <2> QED
    BY <2>1 DEF Makes, Closes, Edits
<1>8. (IF Route.Channel = "telegram" /\ ~Active /\ note.state = "firing" THEN New ELSE None)
      \in 0..Len(posts)'
  BY <1>1, <1>2, <1>7 DEF New, None
<1>9. Result \in Outcome'
  <2>1. note.at \in Routes'
    BY <1>1 DEF Routes
  <2> QED
    BY <1>4, <1>6, <1>8, <2>1 DEF Result, Outcome, Reference
<1> QED
  BY <1>1, <1>2, <1>3, <1>9 DEF Result, New

\* What the entry of a firing alert learns from the results: of each route, those of the one
\* result it has.
LEMMA CapturedShape ==
  ASSUME TypeOK, Firing, Telling("firing"), note.at \notin Routes
  PROVE  /\ Captured \in [firing : BOOLEAN, ref : [Routes -> Reference], msg : [Routes -> Reference]]
         /\ Captured.firing = entry.firing
         /\ \A i \in Routes :
              LET r == note.results[i]
              IN /\ i < note.at /\ i \in 1..Len(note.results) /\ r \in Outcome
                 /\ Captured.ref[i] = IF r.ref = None THEN entry.ref[i] ELSE r.ref
                 /\ Captured.msg[i] = IF entry.msg[i] # None THEN entry.msg[i] ELSE r.msg
<1>0. /\ note.at = Len(config.routes) + 1 /\ Routes = 1..Len(config.routes)
      /\ Len(config.routes) \in Nat /\ Len(note.results) = note.at - 1
      /\ \A i \in 1..(note.at - 1) : note.results[i].at = i
      /\ \A k \in 1..Len(note.results) : note.results[k] \in Outcome
      /\ DOMAIN note.results = 1..Len(note.results)
  BY ConfigShape, UnderWay DEF Telling, Firing
<1>1. ASSUME NEW i \in Routes PROVE Results(i) = {note.results[i]}
  <2>1. \A n \in DOMAIN note.results : note.results[n].at = i <=> n = i
    BY <1>0
  <2>2. i \in DOMAIN note.results
    BY <1>0
  <2>3. {n \in DOMAIN note.results : note.results[n].at = i} = {i}
    BY <2>1, <2>2
  <2> QED
    BY <2>3 DEF Results
<1>2. ASSUME NEW x \in Reference PROVE Max({x}) = x
  BY DEF Max, Reference
<1>3. ASSUME NEW i \in Routes
      PROVE  /\ i < note.at /\ i \in 1..Len(note.results) /\ note.results[i] \in Outcome
             /\ note.results[i].ref \in Reference /\ note.results[i].msg \in Reference
  BY <1>0 DEF Outcome
<1>4. ASSUME NEW i \in Routes, NEW known
      PROVE  /\ Learn(known, Results(i), LAMBDA r : r.ref)
                  = IF note.results[i].ref = None THEN known ELSE note.results[i].ref
             /\ Learn(known, Results(i), LAMBDA r : r.msg)
                  = IF note.results[i].msg = None THEN known ELSE note.results[i].msg
  <2>1. /\ {r.ref : r \in Results(i)} = {note.results[i].ref}
        /\ {r.msg : r \in Results(i)} = {note.results[i].msg}
    BY <1>1
  <2>2. {note.results[i].ref} \ {None} = IF note.results[i].ref = None THEN {} ELSE {note.results[i].ref}
    OBVIOUS
  <2>3. {note.results[i].msg} \ {None} = IF note.results[i].msg = None THEN {} ELSE {note.results[i].msg}
    OBVIOUS
  <2> QED
    BY <1>2, <1>3, <2>1, <2>2, <2>3 DEF Learn
<1>5. PICK ref : ref = [i \in Routes |-> Learn(entry.ref[i], Results(i), LAMBDA r : r.ref)]
  OBVIOUS
<1>6. PICK msg : msg = [i \in Routes |-> IF entry.msg[i] # None THEN entry.msg[i]
                                         ELSE Learn(None, Results(i), LAMBDA r : r.msg)]
  OBVIOUS
<1>7. Captured = [entry EXCEPT !.ref = ref, !.msg = msg]
  BY <1>5, <1>6 DEF Captured
<1>8. \A i \in Routes :
        /\ ref[i] = IF note.results[i].ref = None THEN entry.ref[i] ELSE note.results[i].ref
        /\ msg[i] = IF entry.msg[i] # None THEN entry.msg[i] ELSE note.results[i].msg
  BY <1>4, <1>5, <1>6
<1>9. ref \in [Routes -> Reference] /\ msg \in [Routes -> Reference]
  BY <1>3, <1>5, <1>6, <1>8, EntryTypes
<1>10. /\ Captured \in [firing : BOOLEAN, ref : [Routes -> Reference], msg : [Routes -> Reference]]
       /\ Captured.firing = entry.firing /\ Captured.ref = ref /\ Captured.msg = msg
  BY <1>7, <1>9 DEF TypeOK
<1> QED
  BY <1>3, <1>8, <1>10

\* The variables have their types after every step.
LEMMA TypeStep ==
  ASSUME TypeOK, Placed, Firing, Next
  PROVE  TypeOK'
<1>0. /\ UNCHANGED config /\ Len(posts) \in Nat /\ lives \in Nat /\ notes \in Nat /\ faults \in Nat
  BY DEF Next, NotifyFiring, NotifyResolved, Begin, Mute, MuteFiring, MuteResolved, Step, GoDown,
         PrepareRoute, FailRender, Deliver, FailSend, LoseAnswer, Elapse, Cancel, applyDeliveryResults, TypeOK
<1>1. ASSUME posts' \in Seq(Post), Len(posts) <= Len(posts)', down' \in BOOLEAN,
             notes' \in Nat, lives' \in Nat, faults' \in Nat, excused' \subseteq 1..Len(posts)',
             entry' \in [firing : BOOLEAN, ref : [Routes' -> Reference'], msg : [Routes' -> Reference']],
             note' \in Notification' \cup {Idle}
      PROVE  TypeOK'
  BY <1>0, <1>1, StillTyped DEF TypeOK
<1>2. ASSUME UNCHANGED posts
      PROVE  /\ posts' \in Seq(Post) /\ Len(posts)' = Len(posts)
             /\ Routes' = Routes /\ Reference' = Reference /\ Notification' = Notification
             /\ Outcome' = Outcome
  BY <1>0, <1>2 DEF TypeOK, Routes, Reference, Notification, Outcome
<1>3. CASE NotifyFiring \/ NotifyResolved
  <2>1. PICK s \in {"firing", "resolved"}, t \in BOOLEAN : Begin(s, t)
    BY <1>3 DEF NotifyFiring, NotifyResolved
  <2>2. note' \in Notification
    <3>1. 1 \in 1..(Len(config.routes) + 1)
      BY ConfigShape
    <3> QED
      BY <2>1, <3>1, EntryTypes DEF Begin, Notification
  <2>3. entry' \in [firing : BOOLEAN, ref : [Routes -> Reference], msg : [Routes -> Reference]]
    BY <1>3, EntryTypes DEF NotifyFiring, NotifyResolved
  <2>4. lives' \in Nat /\ notes' \in Nat
    BY <1>0, <1>3, <2>1 DEF NotifyFiring, NotifyResolved, Begin
  <2> QED
    BY <1>1, <1>2, <2>1, <2>2, <2>3, <2>4 DEF Begin, TypeOK
<1>4. CASE PrepareRoute
  <2>1. note # Idle /\ note.at \in Routes
    BY <1>4 DEF PrepareRoute, Idle
  <2>2. note.at + 1 \in 1..(Len(config.routes) + 1)
    BY <2>1, ConfigShape
  <2>3. Past \in Notification
    BY <2>1, <2>2, UnderWay, EntryTypes DEF Past, Notification
  <2>4. [note EXCEPT !.pc = "send", !.ref = entry.ref[note.at]] \in Notification
    BY <2>1, UnderWay, EntryTypes DEF Notification
  <2> QED
    BY <1>0, <1>1, <1>2, <1>4, <2>3, <2>4 DEF PrepareRoute, TypeOK
<1>5. ASSUME NEW unknown, unknown \subseteq 1..Len(posts)', note # Idle, Fail(unknown),
             posts' \in Seq(Post), Len(posts) <= Len(posts)', down' = down, notes' = notes,
             lives' = lives, faults' \in Nat
      PROVE  TypeOK'
  <2>1. 1..Len(posts) \subseteq 1..Len(posts)' /\ Len(posts)' \in Nat
    BY <1>0, <1>5, StillTyped
  <2>2. {note.results[k].post : k \in DOMAIN note.results} \subseteq 1..Len(posts)
    BY <1>5, UnderWay
  <2>3. Abandoned \subseteq 1..Len(posts)
    <3>1. \A i \in note.at..Len(config.routes) : i \in Routes
      BY <1>5, UnderWay, ConfigShape
    <3>2. \A i \in Routes : entry.ref[i] \in {None} \cup 1..Len(posts)
      BY EntryTypes DEF Reference
    <3> QED
      BY <3>1, <3>2 DEF Abandoned
  <2>4. excused' \subseteq 1..Len(posts)'
    BY <1>5, <2>1, <2>2, <2>3 DEF Fail, TypeOK
  <2>5. /\ note' = Idle /\ entry' \in {entry, NoEntry}
    BY <1>5 DEF Fail
  <2> QED
    BY <1>0, <1>1, <1>5, <2>4, <2>5, StillTyped DEF TypeOK
<1>6. CASE FailRender
  BY <1>0, <1>2, <1>5, <1>6 DEF FailRender, Fault, Idle
<1>7. CASE Cancel
  BY <1>0, <1>2, <1>5, <1>7 DEF Cancel, Fault, Idle
<1>8. ASSUME NEW unknown, unknown \subseteq 1..Len(posts)', note.pc = "send", Retry(unknown),
             posts' \in Seq(Post), Len(posts) <= Len(posts)', down' = down, notes' = notes,
             lives' = lives, faults' \in Nat
      PROVE  TypeOK'
  <2>1. note # Idle
    BY <1>8 DEF Idle
  <2>2. CASE Fail(unknown)
    BY <1>5, <1>8, <2>1, <2>2
  <2>3. CASE /\ note' = [note EXCEPT !.pc = "wait", !.attempt = NextAttempt(@)]
             /\ excused' = excused \cup unknown /\ UNCHANGED entry
    <3>1. note' \in Notification
      <4>1. PICK n : n = NextAttempt(note.attempt)
        OBVIOUS
      <4>2. n \in Nat
        BY <2>1, <4>1, UnderWay DEF NextAttempt
      <4>3. note' = [note EXCEPT !.pc = "wait", !.attempt = n]
        BY <2>3, <4>1
      <4> QED
        BY <2>1, <4>2, <4>3, UnderWay DEF Notification
    <3>2. Notification \subseteq Notification'
      BY <1>0, <1>8, StillTyped, SetsGrow
    <3> QED
      BY <1>0, <1>1, <1>8, <2>3, <3>1, <3>2, StillTyped DEF TypeOK
  <2> QED
    BY <1>8, <2>2, <2>3 DEF Retry
<1>9. CASE FailSend
  BY <1>0, <1>2, <1>8, <1>9 DEF FailSend, Fault
<1>10. CASE LoseAnswer
  <2>1. note.pc = "send" /\ ~Silent /\ ~Refused /\ posts' = Effect /\ faults' \in Nat
    BY <1>0, <1>10 DEF LoseAnswer, Fault
  <2>2. /\ Len(posts)' \in Nat /\ Len(posts) <= Len(posts)' /\ posts' \in Seq(Post)
        /\ Makes => Len(posts)' = Len(posts) + 1
    BY <1>0, <2>1, ResultType, EffectShape
  <2>3. (IF Posts THEN {New} ELSE IF Closes THEN {note.ref} ELSE {}) \subseteq 1..Len(posts)'
    <3>1. Posts => Makes
      BY DEF Posts, Makes, Closes, Edits
    <3>2. Closes => note.ref \in 1..Len(posts)
      BY <2>1, EffectShape DEF Makes
    <3> QED
      BY <1>0, <2>2, <3>1, <3>2 DEF New
  <2> QED
    BY <1>8, <1>10, <2>1, <2>2, <2>3 DEF LoseAnswer
<1>11. CASE Deliver
  <2>1. note.pc = "send" /\ ~Refused /\ (Silent => posts' = posts) /\ (~Silent => posts' = Effect)
    BY <1>11 DEF Deliver
  <2>2. /\ Len(posts)' \in Nat /\ Len(posts) <= Len(posts)' /\ posts' \in Seq(Post)
        /\ Result \in Outcome'
    BY <1>0, <2>1, ResultType
  <2>3. note \in Notification' /\ note # Idle
    BY <1>0, <2>1, <2>2, StillTyped DEF Idle
  <2>4. note' \in Notification'
    <3>1. Append(note.results, Result) \in Seq(Outcome')
      BY <2>2, <2>3 DEF Notification
    <3>2. note.at + 1 \in 1..(Len(config.routes') + 1)
      BY <1>0, <2>1, EffectShape, ConfigShape
    <3>3. None \in Reference'
      BY <2>2 DEF None, Reference
    <3>4. PICK results : results = Append(note.results, Result)
      OBVIOUS
    <3>5. note' = [note EXCEPT !.at = @ + 1, !.pc = "route", !.ref = None, !.attempt = 0,
                               !.results = results]
      BY <1>11, <3>4 DEF Deliver, Sent, Past
    <3> QED
      BY <2>3, <3>1, <3>2, <3>3, <3>4, <3>5 DEF Notification
  <2> QED
    BY <1>0, <1>1, <1>11, <2>2, <2>4, StillTyped DEF Deliver, TypeOK
<1>12. CASE Elapse
  <2>1. note' \in Notification
    BY <1>12, UnderWay DEF Elapse, Idle, Notification
  <2> QED
    BY <1>0, <1>1, <1>2, <1>12, <2>1 DEF Elapse, TypeOK
<1>13. CASE applyDeliveryResults
  <2>1. note # Idle
    BY <1>13 DEF applyDeliveryResults, Idle
  <2>2. note.state # "resolved" => Captured \in [firing : BOOLEAN, ref : [Routes -> Reference], msg : [Routes -> Reference]]
    BY <1>13, <2>1, CapturedShape, UnderWay DEF applyDeliveryResults, Telling
  <2> QED
    BY <1>0, <1>1, <1>2, <1>13, <2>2, EntryTypes DEF applyDeliveryResults, TypeOK
<1>14. CASE GoDown
  BY <1>0, <1>1, <1>2, <1>14 DEF GoDown, TypeOK
<1>15. CASE MuteFiring \/ MuteResolved
  <2>1. UNCHANGED <<config, down, note, posts, faults>> /\ notes' \in Nat
    BY <1>0, <1>15 DEF MuteFiring, MuteResolved, Mute
  <2>2. entry' \in [firing : BOOLEAN, ref : [Routes -> Reference], msg : [Routes -> Reference]]
    BY <1>15, EntryTypes DEF MuteFiring, MuteResolved
  <2>3. lives' \in Nat
    BY <1>0, <1>15 DEF MuteFiring, MuteResolved
  <2>4. excused' \subseteq 1..Len(posts)
    <3>1. {entry.ref[i] : i \in Routes} \ {None} \subseteq 1..Len(posts)
      BY EntryTypes DEF Reference
    <3> QED
      BY <1>15, <3>1 DEF MuteFiring, MuteResolved, TypeOK
  <2> QED
    BY <1>0, <1>1, <1>2, <2>1, <2>2, <2>3, <2>4 DEF TypeOK
<1> QED
  BY <1>15, <1>3, <1>4, <1>6, <1>7, <1>9, <1>10, <1>11, <1>12, <1>13, <1>14 DEF Next, Step

-----------------------------------------------------------------------------
(* A request that fails, and the end of a notification that failed.        *)

Parts == Placed /\ Firing /\ Resolving /\ Kept /\ Replied

\* What a failed request may have done to the channels: posts that it made or closed are
\* unknown to the alert, but for the last word to a channel that nothing goes on from.
Spoilt(unknown) ==
  /\ UNCHANGED <<config, lives>>
  /\ unknown \subseteq 1..Len(posts)' /\ Len(posts) <= Len(posts)' /\ Len(posts)' \in Nat
  /\ \A k \in 1..Len(posts) :
       /\ posts'[k].route = posts[k].route /\ posts'[k].life = posts[k].life
       /\ posts'[k].open => posts[k].open
       /\ posts[k].open /\ ~posts'[k].open => k \in unknown
       /\ k \in unknown => Stands(posts[k].route)
  /\ \A k \in 1..Len(posts)' : k > Len(posts) =>
       /\ posts'[k].life = lives /\ (posts'[k].open => Stands(posts'[k].route))
       /\ k \in unknown \/ (~posts'[k].open /\ note.state = "resolved")

\* Opened and opening posts, element by element.
LEMMA OpenElements ==
  ASSUME TypeOK, NEW i \in Routes, NEW k
  PROVE  /\ k \in Open(i) <=> k \in 1..Len(posts) /\ posts[k].route = i /\ posts[k].open
         /\ k \in Opening(i) <=> /\ k \in 1..Len(posts) /\ posts[k].route = i /\ posts[k].life = lives
                                 /\ k \notin excused
<1>1. DOMAIN posts = 1..Len(posts)
  BY DEF TypeOK
<1> QED
  BY <1>1 DEF Open, Opening

\* Routes that go on from nothing are no routes that stand.
LEMMA RepliesStand ==
  ASSUME NEW i
  PROVE  ~(Replies(i) /\ Stands(i))
BY DEF Replies, Stands, Standing

\* A spoilt request leaves fewer posts open, of those that nothing excuses.
LEMMA SpoiltOpen ==
  ASSUME TypeOK, TypeOK', Placed, NEW unknown, Spoilt(unknown), NEW i \in Routes
  PROVE  /\ Open(i)' \subseteq Open(i) \cup unknown
         /\ Open(i) # {} => Stands(i)
         /\ \A k \in 1..Len(posts)' : posts'[k].open => Stands(posts'[k].route)
         /\ \A k \in 1..Len(posts)' : posts'[k].life <= lives
         /\ i \in Routes'
<1>1. i \in Routes' /\ Len(posts) \in Nat /\ lives \in Nat /\ Len(posts)' \in Nat
  BY DEF Spoilt, Routes, TypeOK
<1>2. \A k \in 1..Len(posts)' : k \in 1..Len(posts) \/ k > Len(posts)
  BY <1>1
<1>3. ASSUME NEW k \in Open(i)' PROVE k \in Open(i) \cup unknown
  <2>1. k \in 1..Len(posts)' /\ posts'[k].route = i /\ posts'[k].open
    BY <1>1, <1>3, OpenElements DEF Open, TypeOK
  <2> QED
    BY <1>2, <2>1, OpenElements DEF Spoilt
<1>4. Open(i) # {} => Stands(i)
  BY OpenElements DEF Placed
<1>5. ASSUME NEW k \in 1..Len(posts)'
      PROVE  (posts'[k].open => Stands(posts'[k].route)) /\ posts'[k].life <= lives
  <2>1. CASE k \in 1..Len(posts)
    BY <2>1 DEF Spoilt, Placed
  <2>2. CASE k > Len(posts)
    BY <1>1, <2>2 DEF Spoilt
  <2> QED
    BY <1>2, <2>1, <2>2
<1> QED
  BY <1>1, <1>3, <1>4, <1>5

\* A notification that fails: what the alert knew it still knows, unless it is forgotten, and
\* what it does not know is excused.
LEMMA FailKeeps ==
  ASSUME TypeOK, TypeOK', Parts, note # Idle, NEW unknown, Fail(unknown), Spoilt(unknown)
  PROVE  Parts'
<1> USE DEF Parts
<1>0. /\ note' = Idle /\ Routes' = Routes /\ lives' = lives /\ config' = config
      /\ entry' = IF Forgotten THEN NoEntry ELSE entry
      /\ \A i : (Stands(i)' <=> Stands(i)) /\ (Replies(i)' <=> Replies(i))
      /\ Len(posts) \in Nat /\ Len(posts)' \in Nat /\ Len(posts) <= Len(posts)'
  BY DEF Fail, Spoilt, Routes, Stands, Replies, TypeOK
<1>1. /\ excused \subseteq excused' /\ unknown \subseteq excused' /\ Abandoned \subseteq excused'
      /\ \A k \in 1..Len(note.results) : note.results[k].post \in excused'
      /\ ~Forgotten => \A k \in excused' : \/ k \in excused \cup unknown
                                           \/ \E n \in 1..Len(note.results) : k = note.results[n].post
  <2>1. DOMAIN note.results = 1..Len(note.results)
    BY UnderWay
  <2> QED
    BY <2>1 DEF Fail, Abandoned
<1>2. Firing' /\ Resolving'
  BY <1>0 DEF Firing, Resolving, Telling
<1>3. Placed'
  <2>1. /\ \A k \in 1..Len(posts)' : posts'[k].open => Stands(posts'[k].route)
        /\ \A k \in 1..Len(posts)' : posts'[k].life <= lives
    <3>1. CASE Routes = {}
      <4>1. Len(posts)' = 0
        <5>1. \A k \in 1..Len(posts)' : posts'[k] \in Post'
          BY DEF TypeOK
        <5>2. \A k \in 1..Len(posts)' : posts'[k].route \in Routes'
          BY <5>1 DEF Post
        <5> QED
          BY <1>0, <3>1, <5>2
      <4> QED
        BY <4>1
    <3>2. CASE Routes # {}
      BY <3>2, SpoiltOpen
    <3> QED
      BY <3>1, <3>2
  <2>2. ASSUME NEW i \in Routes, entry'.ref[i] # None PROVE posts'[entry'.ref[i]].route = i /\ ~Replies(i)
    <3>1. entry' = entry
      BY <1>0, <2>2 DEF NoEntry
    <3>2. entry.ref[i] \in 1..Len(posts)
      BY <2>2, <3>1, EntryTypes DEF Reference
    <3> QED
      BY <2>2, <3>1, <3>2 DEF Placed, Spoilt
  <2> QED
    BY <1>0, <2>1, <2>2 DEF Placed, Stands, Replies
<1>4. ASSUME NEW i \in Routes
      PROVE  /\ Open(i)' \subseteq excused' \cup {entry'.ref[i]}
             /\ Stands(i) /\ entry'.ref[i] # None => posts'[entry'.ref[i]].open \/ entry'.ref[i] \in excused'
  <2>1. ASSUME NEW k \in Open(i)', k \notin excused' PROVE k = entry'.ref[i]
    <3>1. k \in Open(i) /\ Stands(i)
      BY <1>1, <2>1, SpoiltOpen
    <3>2. CASE Telling("firing") /\ i < note.at
      <4>1. i \in 1..(note.at - 1) /\ i \in 1..Len(note.results)
        BY <3>2, ConfigShape, UnderWay DEF Telling, Firing
      <4>2. Ref(i) = note.results[i].post
        BY <3>1, <3>2, <4>1 DEF Ref, Firing
      <4> QED
        BY <1>1, <2>1, <3>1, <4>1, <4>2 DEF Kept
    <3>3. CASE ~(Telling("firing") /\ i < note.at) /\ ~Forgotten
      BY <1>0, <1>1, <2>1, <3>1, <3>3 DEF Kept, Ref
    <3>4. CASE Forgotten
      <4>1. Telling("resolved") /\ ~Telling("firing")
        BY <3>4 DEF Forgotten, Telling
      <4>2. CASE i < note.at
        <5>1. i \in 1..(note.at - 1)
          BY <4>2, ConfigShape, UnderWay
        <5> QED
          BY <1>1, <2>1, <3>1, <4>1, <5>1 DEF Resolving
      <4>3. CASE ~(i < note.at)
        <5>1. i \in note.at..Len(config.routes)
          BY <4>3, ConfigShape, UnderWay
        <5>2. k = entry.ref[i] /\ k # None
          BY <1>1, <2>1, <3>1, <4>1, OpenElements DEF Kept, Ref, None
        <5>3. k \in Abandoned
          BY <3>4, <5>1, <5>2 DEF Abandoned
        <5> QED
          BY <1>1, <2>1, <5>3
      <4> QED
        BY <4>2, <4>3
    <3> QED
      BY <3>2, <3>3, <3>4
  <2>2. ASSUME Stands(i), entry'.ref[i] # None
        PROVE  posts'[entry'.ref[i]].open \/ entry'.ref[i] \in excused'
    <3>1. entry' = entry /\ entry.ref[i] \in 1..Len(posts)
      BY <1>0, <2>2, EntryTypes DEF NoEntry, Reference
    <3>2. CASE Telling("firing") /\ i < note.at
      <4>1. i \in 1..(note.at - 1) /\ i \in 1..Len(note.results)
        BY <3>2, ConfigShape, UnderWay DEF Telling, Firing
      <4>2. entry.ref[i] = note.results[i].post
        BY <2>2, <3>1, <3>2, <4>1 DEF Firing
      <4> QED
        BY <1>1, <3>1, <4>1, <4>2
    <3>3. CASE ~(Telling("firing") /\ i < note.at)
      <4>1. Ref(i) = entry.ref[i]
        BY <3>3 DEF Ref
      <4>2. \/ posts[entry.ref[i]].open \/ entry.ref[i] \in excused
            \/ \E k \in 1..Len(note.results) : note.results[k].post = entry.ref[i]
        BY <2>2, <3>1, <4>1 DEF Kept
      <4> QED
        BY <1>1, <3>1, <4>2 DEF Spoilt
    <3> QED
      BY <3>2, <3>3
  <2> QED
    BY <2>1, <2>2
<1>5. Kept'
  BY <1>0, <1>4 DEF Kept, Ref, Telling
<1>6. ASSUME NEW i \in Routes, Replies(i)
      PROVE  /\ entry'.msg[i] # None => /\ entry'.msg[i] \in Opening(i)'
                                        /\ \A k \in Opening(i)' : entry'.msg[i] <= k
             /\ entry'.msg[i] = None => entry'.ref = Nothing /\ entry'.msg = Nothing
             /\ entry'.msg[i] = None /\ entry'.firing => Opening(i)' = {}
  <2>1. CASE Forgotten
    BY <1>0, <2>1 DEF NoEntry, Nothing
  <2>2. CASE ~Forgotten
    <3>0. entry' = entry /\ i \in Routes' /\ ~Stands(i)
      BY <1>0, <1>6, <2>2, RepliesStand
    <3>1. \A k : k \in Opening(i)' <=> /\ k \in 1..Len(posts)' /\ posts'[k].route = i
                                       /\ posts'[k].life = lives /\ k \notin excused'
      BY <1>0, <3>0, OpenElements DEF Opening, TypeOK
    <3>2. ASSUME NEW k \in Opening(i)' PROVE k \in Opening(i) \/ (k > Len(posts) /\ note.state = "resolved")
      <4>1. CASE k \in 1..Len(posts)
        BY <1>1, <3>1, <3>2, <4>1, OpenElements DEF Spoilt
      <4>2. CASE k > Len(posts)
        BY <1>1, <3>1, <3>2, <4>2 DEF Spoilt
      <4> QED
        BY <1>0, <3>1, <4>1, <4>2
    <3>3. ASSUME entry.msg[i] # None
          PROVE  entry.msg[i] \in Opening(i)' /\ \A k \in Opening(i)' : entry.msg[i] <= k
      <4>1. /\ entry.msg[i] \in Opening(i) /\ \A k \in Opening(i) : entry.msg[i] <= k
            /\ \A k \in 1..Len(note.results) : note.results[k].at = i => note.results[k].post # entry.msg[i]
        BY <1>6, <3>3 DEF Replied
      <4>2. PICK m \in 1..Len(posts) : m = entry.msg[i] /\ posts[m].route = i /\ posts[m].life = lives
                                       /\ m \notin excused
        BY <4>1, OpenElements
      <4>3. m \notin unknown
        BY <3>0, <4>2 DEF Spoilt
      <4>4. \A n \in 1..Len(note.results) : note.results[n].post # m
        BY <4>1, <4>2 DEF Placed
      <4>5. m \notin excused'
        BY <1>1, <2>2, <4>2, <4>3, <4>4
      <4>6. m \in Opening(i)'
        BY <1>0, <3>1, <4>2, <4>5 DEF Spoilt
      <4>7. ASSUME NEW k \in Opening(i)' PROVE m <= k
        <5>1. k \in 1..Len(posts)'
          BY <3>1, <4>7
        <5> QED
          BY <1>0, <3>2, <4>1, <4>2, <4>7, <5>1
      <4> QED
        BY <4>2, <4>6, <4>7
    <3>4. ASSUME entry.msg[i] = None, entry.firing, NEW k \in Opening(i)' PROVE FALSE
      <4>1. Telling("firing") /\ note.state # "resolved"
        BY <3>4, UnderWay DEF Placed, Telling
      <4>2. k \in Opening(i)
        BY <3>2, <3>4, <4>1
      <4>3. i < note.at /\ k = note.results[i].post
        BY <1>6, <3>4, <4>1, <4>2 DEF Replied
      <4>4. i \in 1..Len(note.results)
        BY <4>1, <4>3, ConfigShape, UnderWay DEF Firing
      <4> QED
        BY <1>1, <3>1, <3>4, <4>3, <4>4
    <3> QED
      BY <1>6, <3>0, <3>3, <3>4 DEF Replied
  <2> QED
    BY <2>1, <2>2
<1>7. Replied'
  BY <1>0, <1>6 DEF Replied, Telling, Nothing
<1> QED
  BY <1>2, <1>3, <1>5, <1>7

\* An attempt that fails and is to be repeated: so is the request of the route, with what the
\* alert knew.
LEMMA WaitKeeps ==
  ASSUME TypeOK, TypeOK', Parts, note.pc = "send", NEW unknown, Spoilt(unknown),
         note' = [note EXCEPT !.pc = "wait", !.attempt = NextAttempt(@)],
         excused' = excused \cup unknown, UNCHANGED entry
  PROVE  Parts'
<1> USE DEF Parts
<1>0. /\ note # Idle /\ note' # Idle /\ note'.pc = "wait"
      /\ UNCHANGED <<note.state, note.at, note.results, note.ref>>
      /\ Routes' = Routes /\ lives' = lives /\ config' = config /\ entry' = entry
      /\ \A i : (Stands(i)' <=> Stands(i)) /\ (Replies(i)' <=> Replies(i))
      /\ Len(posts) \in Nat /\ Len(posts)' \in Nat /\ Len(posts) <= Len(posts)'
      /\ note.at \in Routes /\ Routes = 1..Len(config.routes)
  <2>1. note # Idle
    BY DEF Idle
  <2>2. PICK n : n = NextAttempt(note.attempt)
    OBVIOUS
  <2>3. note' = [note EXCEPT !.pc = "wait", !.attempt = n]
    BY <2>2
  <2>4. note'.pc = "wait" /\ UNCHANGED <<note.state, note.at, note.results, note.ref>>
    BY <2>1, <2>3, UnderWay DEF Notification
  <2>5. note' # Idle
    BY <2>4 DEF Idle
  <2> QED
    BY <2>1, <2>4, <2>5, ConfigShape DEF Spoilt, Routes, Stands, Replies, TypeOK, Placed
<1>1. \A s : Telling(s)' <=> Telling(s)
  BY <1>0 DEF Telling
<1>2. \A k \in 1..Len(note.results) : /\ note.results[k] \in Outcome
                                      /\ note.results[k].post \in 1..Len(posts)
  BY <1>0, UnderWay
<1>3. ASSUME NEW i \in Routes
      PROVE  /\ Open(i)' \subseteq Open(i) \cup unknown /\ (Open(i) # {} => Stands(i))
             /\ \A k \in 1..Len(posts)' : posts'[k].open => Stands(posts'[k].route)
             /\ \A k \in 1..Len(posts)' : posts'[k].life <= lives
  BY SpoiltOpen
<1>4. Placed'
  <2>1. ASSUME NEW i \in Routes, entry.ref[i] # None PROVE posts'[entry.ref[i]].route = i /\ ~Replies(i)
    <3>1. entry.ref[i] \in 1..Len(posts)
      BY <2>1, EntryTypes DEF Reference
    <3> QED
      BY <2>1, <3>1 DEF Placed, Spoilt
  <2>2. \A k \in 1..Len(note.results) : LET r == note.results[k]
                                       IN posts'[r.post].route = r.at /\ r.at < note.at
    BY <1>0, <1>2 DEF Placed, Spoilt
  <2>3. /\ note.state = "firing" <=> entry.firing
        /\ note.ref = entry.ref[note.at]
    BY <1>0 DEF Placed
  <2>4. /\ \A k \in 1..Len(posts)' : posts'[k].open => Stands(posts'[k].route)
        /\ \A k \in 1..Len(posts)' : posts'[k].life <= lives
    BY <1>0, <1>3
  <2> QED
    BY <1>0, <2>1, <2>2, <2>3, <2>4 DEF Placed
<1>5. Firing'
  <2>1. ASSUME Telling("firing"), NEW i \in 1..(note.at - 1), Replies(i)
        PROVE  posts'[note.results[i].post].life = lives /\ note.results[i].post \notin excused'
    <3>1. /\ i \in 1..Len(note.results) /\ i \in Routes /\ note.results[i].at = i
          /\ posts[note.results[i].post].life = lives /\ note.results[i].post \notin excused
      BY <1>0, <2>1 DEF Firing
    <3>2. posts[note.results[i].post].route = i /\ ~Stands(i) /\ note.results[i].post \in 1..Len(posts)
      BY <1>0, <1>2, <2>1, <3>1, RepliesStand DEF Placed
    <3> QED
      BY <3>1, <3>2 DEF Spoilt
  <2>2. Telling("firing") =>
          /\ Len(note.results) = note.at - 1
          /\ \A i \in 1..(note.at - 1) :
               LET r == note.results[i]
               IN /\ r.at = i /\ r.ref \in {None, r.post}
                  /\ Stands(i) => r.ref = r.post /\ entry.ref[i] \in {None, r.post}
                  /\ Replies(i) => r.msg = r.post /\ r.ref = None
    BY DEF Firing
  <2> QED
    BY <1>0, <1>1, <2>1, <2>2 DEF Firing
<1>6. Resolving'
  <2>1. ASSUME Telling("resolved"), NEW i \in 1..(note.at - 1) PROVE Open(i)' \subseteq excused'
    <3>1. i \in Routes /\ Open(i) \subseteq excused
      BY <1>0, <2>1 DEF Resolving
    <3> QED
      BY <1>3, <3>1
  <2>2. Telling("resolved") =>
          \A k \in 1..Len(note.results) :
            LET r == note.results[k] IN Stands(r.at) => r.post = entry.ref[r.at]
    BY DEF Resolving
  <2> QED
    BY <1>0, <1>1, <2>1, <2>2 DEF Resolving
<1>7. \A i \in Routes : Ref(i)' = Ref(i) /\ Ref(i) \in Reference
  <2>1. ASSUME NEW i \in Routes PROVE Ref(i)' = Ref(i) /\ Ref(i) \in Reference
    <3>1. Telling("firing") /\ i < note.at => i \in 1..Len(note.results)
      BY <1>0 DEF Firing
    <3> QED
      BY <1>0, <1>1, <1>2, <3>1, EntryTypes DEF Ref, Outcome
  <2> QED
    BY <2>1
<1>8. Kept'
  <2>1. ASSUME NEW i \in Routes PROVE Open(i)' \subseteq excused' \cup {Ref(i)}
    BY <1>3 DEF Kept
  <2>2. ASSUME NEW i \in Routes, Stands(i), Ref(i) # None
        PROVE  \/ posts'[Ref(i)].open \/ Ref(i) \in excused'
               \/ Telling("resolved") /\ \E k \in 1..Len(note.results) : note.results[k].post = Ref(i)
    <3>1. Ref(i) \in 1..Len(posts)
      BY <1>0, <1>7, <2>2 DEF Reference, None
    <3> QED
      BY <2>2, <3>1 DEF Kept, Spoilt
  <2> QED
    BY <1>0, <1>1, <1>7, <2>1, <2>2 DEF Kept
<1>9. Replied'
  <2>1. ASSUME NEW i \in Routes, Replies(i)
        PROVE  /\ entry.msg[i] # None => /\ entry.msg[i] \in Opening(i)'
                                         /\ \A k \in Opening(i)' : entry.msg[i] <= k
               /\ entry.firing => Opening(i)' \subseteq Opening(i)
    <3>0. ~Stands(i) /\ i \in Routes'
      BY <1>0, <2>1, RepliesStand
    <3>1. \A k : k \in Opening(i)' <=> /\ k \in 1..Len(posts)' /\ posts'[k].route = i
                                       /\ posts'[k].life = lives /\ k \notin excused'
      BY <1>0, <3>0, OpenElements DEF Opening, TypeOK
    <3>2. ASSUME NEW k \in Opening(i)' PROVE k \in Opening(i) \/ (k > Len(posts) /\ note.state = "resolved")
      <4>1. CASE k \in 1..Len(posts)
        BY <3>1, <3>2, <4>1, OpenElements DEF Spoilt
      <4>2. CASE k > Len(posts)
        BY <3>1, <3>2, <4>2 DEF Spoilt
      <4> QED
        BY <1>0, <3>1, <4>1, <4>2
    <3>3. entry.firing => Opening(i)' \subseteq Opening(i)
      BY <1>0, <3>2 DEF Placed
    <3>4. ASSUME entry.msg[i] # None
          PROVE  entry.msg[i] \in Opening(i)' /\ \A k \in Opening(i)' : entry.msg[i] <= k
      <4>1. entry.msg[i] \in Opening(i) /\ \A k \in Opening(i) : entry.msg[i] <= k
        BY <2>1, <3>4 DEF Replied
      <4>2. PICK m \in 1..Len(posts) : m = entry.msg[i] /\ posts[m].route = i /\ posts[m].life = lives
                                       /\ m \notin excused
        BY <4>1, OpenElements
      <4>3. m \in Opening(i)'
        BY <1>0, <3>0, <3>1, <4>2 DEF Spoilt
      <4>4. ASSUME NEW k \in Opening(i)' PROVE m <= k
        <5>1. k \in 1..Len(posts)'
          BY <3>1, <4>4
        <5> QED
          BY <1>0, <3>2, <4>1, <4>2, <4>4, <5>1
      <4> QED
        BY <4>2, <4>3, <4>4
    <3> QED
      BY <3>3, <3>4
  <2>2. ASSUME NEW i \in Routes, Replies(i)
        PROVE  /\ entry.msg[i] = None => entry.ref = Nothing /\ entry.msg = Nothing
               /\ entry.msg[i] = None /\ entry.firing =>
                    Opening(i)' \subseteq IF Telling("firing") /\ i < note.at THEN {note.results[i].post} ELSE {}
               /\ \A k \in 1..Len(note.results) : note.results[k].at = i => note.results[k].post # entry.msg[i]
    BY <1>0, <2>1, <2>2 DEF Replied
  <2> QED
    BY <1>0, <1>1, <2>1, <2>2, SMTT(30) DEF Replied, Nothing
<1> QED
  BY <1>4, <1>5, <1>6, <1>8, <1>9

\* So does every failed request, for its cause.
LEMMA RetryKeeps ==
  ASSUME TypeOK, TypeOK', Parts, note.pc = "send", NEW unknown, Retry(unknown), Spoilt(unknown)
  PROVE  Parts'
<1>1. note # Idle
  BY DEF Idle
<1> QED
  BY <1>1, FailKeeps, WaitKeeps DEF Retry

\* A request that did nothing spoils nothing.
LEMMA NothingSpoilt ==
  ASSUME TypeOK, Placed, UNCHANGED <<config, lives, posts>>
  PROVE  Spoilt({})
<1>1. Len(posts) \in Nat
  BY DEF TypeOK
<1> QED
  BY <1>1 DEF Spoilt

\* What a request did whose answer got lost.
LEMMA AnswerSpoilt ==
  ASSUME TypeOK, Placed, LoseAnswer
  PROVE  Spoilt(IF Posts THEN {New} ELSE IF Closes THEN {note.ref} ELSE {})
<1> DEFINE unknown == IF Posts THEN {New} ELSE IF Closes THEN {note.ref} ELSE {}
<1>0. note.pc = "send" /\ ~Silent /\ ~Refused /\ posts' = Effect /\ UNCHANGED <<config, lives>>
  BY DEF LoseAnswer
<1>1. /\ note.at \in Routes /\ Len(posts) \in Nat /\ New = Len(posts) + 1
      /\ note.state \in {"firing", "resolved"} /\ note # Idle
  BY <1>0, EffectShape, UnderWay DEF New
<1>2. CASE Makes
  <2>1. /\ Len(posts)' = Len(posts) + 1 /\ \A k \in 1..Len(posts) : posts'[k] = posts[k]
        /\ posts'[New] = [route |-> note.at, life |-> lives, open |-> Stands(note.at)]
    BY <1>0, <1>2, EffectShape
  <2>2. unknown = IF Posts THEN {New} ELSE {}
    BY <1>2 DEF Makes
  <2>3. ~Posts => ~Stands(note.at) /\ note.state = "resolved"
    BY <1>1, <1>2 DEF Makes, Edits, Closes, Posts, Stands, Route
  <2>4. /\ posts'[New].life = lives /\ posts'[New].open = Stands(note.at) /\ posts'[New].route = note.at
    BY <2>1
  <2>6. \A k \in 1..Len(posts)' : k > Len(posts) => k = New
    BY <1>1, <2>1
  <2> HIDE DEF unknown
  <2>7. unknown \subseteq 1..Len(posts)' /\ \A k \in unknown : k = New
    BY <1>1, <2>1, <2>2
  <2>8. \A k \in 1..Len(posts)' : k > Len(posts) =>
          /\ posts'[k].life = lives /\ (posts'[k].open => Stands(posts'[k].route))
          /\ k \in unknown \/ (~posts'[k].open /\ note.state = "resolved")
    <3>1. ASSUME NEW k \in 1..Len(posts)', k > Len(posts)
          PROVE  /\ posts'[k].life = lives /\ (posts'[k].open => Stands(posts'[k].route))
                 /\ k \in unknown \/ (~posts'[k].open /\ note.state = "resolved")
      <4>1. k = New
        BY <2>6, <3>1
      <4> QED
        BY <2>2, <2>3, <2>4, <4>1
    <3> QED
      BY <3>1
  <2> QED
    BY <1>0, <1>1, <2>1, <2>7, <2>8 DEF Spoilt, unknown
<1>3. CASE Closes
  <2>1. /\ Len(posts)' = Len(posts) /\ note.ref \in 1..Len(posts) /\ Stands(note.at)
        /\ \A k \in 1..Len(posts) : k # note.ref => posts'[k] = posts[k]
        /\ posts'[note.ref].route = posts[note.ref].route /\ posts'[note.ref].life = posts[note.ref].life
        /\ ~posts'[note.ref].open /\ posts[note.ref].open
    BY <1>0, <1>3, EffectShape DEF Makes
  <2>2. unknown = {note.ref}
    BY <1>3, <1>0, EffectShape DEF Posts
  <2>3. Stands(posts[note.ref].route)
    BY <2>1 DEF Placed
  <2> HIDE DEF unknown
  <2> QED
    BY <1>0, <1>1, <2>1, <2>2, <2>3 DEF Spoilt, unknown
<1>4. CASE Edits
  <2>1. posts' = posts
    BY <1>0, <1>4, EffectShape
  <2>2. unknown = {}
    BY <1>4 DEF Edits
  <2> QED
    BY <1>0, <2>1, <2>2, NothingSpoilt
<1> QED
  BY <1>2, <1>3, <1>4 DEF Makes

-----------------------------------------------------------------------------
(* A request that succeeds, and the end of a notification that did.        *)

\* What a route returns, by what its request was.
LEMMA ResultShape ==
  ASSUME TypeOK, Placed, note.pc = "send", ~Refused
  PROVE  /\ note.state = "firing" => Result.ref \in {None, Result.post}
         /\ note.state = "firing" /\ Stands(note.at) =>
              /\ Result.ref = Result.post
              /\ IF Makes THEN note.ref = None ELSE Result.post = note.ref
         /\ note.state = "resolved" => (Closes <=> Stands(note.at))
         /\ note.state = "firing" /\ Replies(note.at) =>
              Makes /\ Result.msg = Result.post /\ Result.ref = None
<1>1. (Stands(note.at) <=> Standing(Route)) /\ note.state \in {"firing", "resolved"}
  BY EffectShape, UnderWay DEF Stands, Route
<1>2. ASSUME note.state = "firing", Stands(note.at)
      PROVE  /\ Result.ref = Result.post
             /\ IF Makes THEN note.ref = None ELSE Result.post = note.ref
  <2>1. ~Closes /\ Standing(Route)
    BY <1>1, <1>2 DEF Closes
  <2>2. Posts <=> Makes
    BY <2>1 DEF Makes, Edits
  <2>3. Posts => note.ref = None
    BY <2>1 DEF Posts
  <2>4. Edits <=> ~Posts
    BY <2>1 DEF Edits
  <2> QED
    BY <2>1, <2>2, <2>3, <2>4 DEF Result
<1>3. note.state = "resolved" => (Closes <=> Stands(note.at))
  BY <1>1 DEF Closes
<1>4. ASSUME note.state = "firing", Replies(note.at)
      PROVE  Makes /\ Result.msg = Result.post /\ Result.ref = None
  <2>1. Route.Channel = "telegram" /\ Route.Mode = "history"
    BY <1>4 DEF Replies, Route
  <2>2. ~Standing(Route) /\ ~Active
    BY <2>1 DEF Standing, Active
  <2>3. ~Closes /\ ~Edits
    BY <2>2 DEF Closes, Edits
  <2> QED
    BY <1>4, <2>1, <2>2, <2>3 DEF Makes, Result
<1>5. ASSUME note.state = "firing" PROVE Result.ref \in {None, Result.post}
  <2>1. CASE Standing(Route)
    BY <1>1, <1>2, <1>5, <2>1
  <2>2. CASE ~Standing(Route)
    <3>1. ~Closes /\ ~Edits
      BY <2>2 DEF Closes, Edits
    <3> QED
      BY <2>2, <3>1 DEF Result
  <2> QED
    BY <2>1, <2>2
<1> QED
  BY <1>2, <1>3, <1>4, <1>5

\* A request that succeeds takes the notification to the next route, and the route's result
\* has what it made, closed or left.
LEMMA DeliverKeeps ==
  ASSUME TypeOK, TypeOK', Parts, Deliver
  PROVE  Parts'
<1> USE DEF Parts
<1>a. /\ note.pc = "send" /\ ~Refused /\ (Silent => posts' = posts) /\ (~Silent => posts' = Effect)
      /\ UNCHANGED <<config, lives, entry, excused>> /\ note' = Sent
  BY DEF Deliver
<1>b. /\ note # Idle /\ note.at \in Routes /\ note.ref = entry.ref[note.at]
      /\ Len(posts) \in Nat /\ Len(note.results) \in Nat /\ note.state \in {"firing", "resolved"}
      /\ Routes = 1..Len(config.routes) /\ note.at \in Nat
      /\ note.results \in Seq(Outcome)
  BY <1>a, EffectShape, UnderWay, ConfigShape
<1>c. PICK r : r = Result
  OBVIOUS
<1>d. /\ note' # Idle /\ note'.pc = "route" /\ note'.state = note.state /\ note'.at = note.at + 1
      /\ note'.results = Append(note.results, r)
  <2>1. PICK results : results = Append(note.results, r)
    OBVIOUS
  <2>2. note' = [note EXCEPT !.at = @ + 1, !.pc = "route", !.ref = None, !.attempt = 0, !.results = results]
    BY <1>a, <1>c, <2>1 DEF Sent, Past
  <2>3. /\ note'.pc = "route" /\ note'.state = note.state /\ note'.at = note.at + 1
        /\ note'.results = results
    BY <1>b, <2>2, UnderWay DEF Notification
  <2> QED
    BY <2>1, <2>3 DEF Idle
<1>e. /\ Len(note'.results) = Len(note.results) + 1 /\ note'.results[Len(note.results) + 1] = r
      /\ \A k \in 1..Len(note.results) : note'.results[k] = note.results[k]
      /\ \A k \in 1..Len(note'.results) : k \in 1..Len(note.results) \/ k = Len(note.results) + 1
  BY <1>b, <1>d
<1>f. /\ r.at = note.at /\ (~Makes => r.post = note.ref /\ note.ref \in 1..Len(posts) /\ Stands(note.at))
      /\ (Makes => r.post = Len(posts) + 1) /\ r \in Outcome'
  BY <1>a, <1>c, ResultType, EffectShape
<1>g. /\ note.state = "firing" => r.ref \in {None, r.post}
      /\ note.state = "firing" /\ Stands(note.at) =>
           r.ref = r.post /\ IF Makes THEN note.ref = None ELSE r.post = note.ref
      /\ note.state = "resolved" => (Closes <=> Stands(note.at))
      /\ note.state = "firing" /\ Replies(note.at) => Makes /\ r.msg = r.post /\ r.ref = None
  BY <1>a, <1>c, ResultShape
<1>h. /\ \A i : (Stands(i)' <=> Stands(i)) /\ (Replies(i)' <=> Replies(i))
      /\ Routes' = Routes /\ \A s : Telling(s)' <=> Telling(s)
      /\ Telling("firing") <=> note.state = "firing"
      /\ Telling("resolved") <=> note.state = "resolved"
  BY <1>a, <1>b, <1>d DEF Stands, Replies, Routes, Telling
\* The posts.
<1>i. /\ Makes => /\ Len(posts)' = Len(posts) + 1 /\ \A k \in 1..Len(posts) : posts'[k] = posts[k]
                  /\ posts'[Len(posts) + 1].route = note.at /\ posts'[Len(posts) + 1].life = lives
                  /\ posts'[Len(posts) + 1].open <=> Stands(note.at)
      /\ ~Makes /\ ~Closes => UNCHANGED posts /\ (Silent \/ posts[note.ref].open)
      /\ Closes => /\ Len(posts)' = Len(posts) /\ ~posts'[note.ref].open /\ note.state = "resolved"
                   /\ \A k \in 1..Len(posts) : k # note.ref => posts'[k] = posts[k]
                   /\ posts'[note.ref].route = posts[note.ref].route
                   /\ posts'[note.ref].life = posts[note.ref].life
  <2>1. Silent => Edits
    BY <1>a, EffectShape
  <2>2. Makes => /\ Len(posts)' = Len(posts) + 1 /\ \A k \in 1..Len(posts) : posts'[k] = posts[k]
                 /\ posts'[Len(posts) + 1] = [route |-> note.at, life |-> lives, open |-> Stands(note.at)]
    BY <1>a, <2>1, EffectShape DEF Makes, New
  <2>3. Closes => ~Edits /\ ~Silent
    BY <2>1 DEF Edits
  <2> QED
    BY <1>a, <2>1, <2>2, <2>3, EffectShape DEF Makes
<1>j. /\ Len(posts)' \in Nat /\ Len(posts) <= Len(posts)' /\ (~Makes => Len(posts)' = Len(posts))
      /\ \A k \in 1..Len(posts) : /\ posts'[k].route = posts[k].route /\ posts'[k].life = posts[k].life
                                  /\ posts'[k].open => posts[k].open
                                  /\ posts[k].open /\ ~posts'[k].open => Closes /\ k = note.ref
      /\ \A k \in 1..Len(posts)' : k \in 1..Len(posts) \/ (Makes /\ k = Len(posts) + 1)
  BY <1>b, <1>i DEF Makes
<1>k. ASSUME NEW i \in Routes, NEW k \in Open(i)'
      PROVE  \/ k \in Open(i) /\ ~(Closes /\ k = note.ref)
             \/ Makes /\ i = note.at /\ Stands(i) /\ k = r.post
  <2>1. k \in 1..Len(posts)' /\ posts'[k].route = i /\ posts'[k].open
    BY <1>h, <1>k, OpenElements DEF Open, TypeOK
  <2>2. CASE k \in 1..Len(posts)
    BY <1>i, <1>j, <2>1, <2>2, OpenElements
  <2>3. CASE Makes /\ k = Len(posts) + 1
    BY <1>f, <1>i, <2>1, <2>3
  <2> QED
    BY <1>j, <2>1, <2>2, <2>3
<1>l. ASSUME NEW i \in Routes, NEW k
      PROVE  k \in Opening(i)' <=> k \in Opening(i) \/ (Makes /\ i = note.at /\ k = Len(posts) + 1)
  <2>1. k \in Opening(i)' <=> /\ k \in 1..Len(posts)' /\ posts'[k].route = i /\ posts'[k].life = lives
                              /\ k \notin excused
    BY <1>a, <1>h, OpenElements DEF Opening, TypeOK
  <2>2. Len(posts) + 1 \notin excused
    BY <1>b DEF TypeOK
  <2>3. CASE k \in 1..Len(posts)
    BY <1>b, <1>j, <2>1, <2>3, OpenElements
  <2>4. CASE k \notin 1..Len(posts)
    BY <1>b, <1>i, <1>j, <2>1, <2>2, <2>4, OpenElements
  <2> QED
    BY <2>3, <2>4
\* The parts.
<1>1. Placed'
  <2>1. ASSUME NEW k \in 1..Len(posts)'
        PROVE  (posts'[k].open => Stands(posts'[k].route)) /\ posts'[k].life <= lives
    <3>1. CASE k \in 1..Len(posts)
      BY <1>j, <3>1 DEF Placed
    <3>2. CASE Makes /\ k = Len(posts) + 1
      BY <1>i, <3>2 DEF TypeOK
    <3> QED
      BY <1>j, <2>1, <3>1, <3>2
  <2>2. ASSUME NEW i \in Routes, entry.ref[i] # None PROVE posts'[entry.ref[i]].route = i /\ ~Replies(i)
    <3>1. entry.ref[i] \in 1..Len(posts)
      BY <2>2, EntryTypes DEF Reference
    <3> QED
      BY <1>j, <2>2, <3>1 DEF Placed
  <2>3. ASSUME NEW k \in 1..Len(note'.results)
        PROVE  posts'[note'.results[k].post].route = note'.results[k].at /\ note'.results[k].at < note.at + 1
    <3>1. CASE k \in 1..Len(note.results)
      <4>1. note.results[k].post \in 1..Len(posts) /\ note'.results[k] = note.results[k]
        BY <1>b, <1>e, <3>1, UnderWay
      <4>2. note.results[k] \in Outcome
        BY <1>b, <3>1, UnderWay
      <4>3. /\ note.results[k].at < note.at /\ note.results[k].at \in Nat
            /\ posts[note.results[k].post].route = note.results[k].at
        BY <1>b, <3>1, <4>2 DEF Placed, Outcome
      <4>4. posts'[note.results[k].post].route = note.results[k].at
        BY <1>j, <4>1, <4>3
      <4> QED
        BY <1>b, <4>1, <4>3, <4>4
    <3>2. CASE k = Len(note.results) + 1
      <4>1. posts'[r.post].route = note.at
        <5>1. CASE Makes
          BY <1>f, <1>i, <5>1
        <5>2. CASE ~Makes
          BY <1>b, <1>f, <1>j, <5>2 DEF Placed, None
        <5> QED
          BY <5>1, <5>2
      <4> QED
        BY <1>b, <1>e, <1>f, <3>2, <4>1
    <3> QED
      BY <1>e, <2>3, <3>1, <3>2
  <2>4. note.state = "firing" <=> entry.firing
    BY <1>b DEF Placed
  <2> QED
    BY <1>a, <1>d, <1>h, <2>1, <2>2, <2>3, <2>4 DEF Placed
<1>2. ASSUME Telling("firing")
      PROVE  /\ Len(note'.results) = note.at
             /\ \A i \in 1..note.at :
                  LET q == note'.results[i]
                  IN /\ q.at = i /\ q.ref \in {None, q.post}
                     /\ Stands(i) => q.ref = q.post /\ entry.ref[i] \in {None, q.post}
                     /\ Replies(i) => /\ q.msg = q.post /\ q.ref = None
                                      /\ posts'[q.post].life = lives /\ q.post \notin excused
  <2>1. Len(note.results) = note.at - 1
    BY <1>2 DEF Firing
  <2>2. ASSUME NEW i \in 1..(note.at - 1)
        PROVE  /\ note.results[i].post \in 1..Len(posts) /\ note'.results[i] = note.results[i]
    BY <1>b, <1>e, <2>1, UnderWay
  <2>3. note'.results[note.at] = r
    BY <1>b, <1>e, <2>1
  <2>4. Replies(note.at) => posts'[r.post].life = lives /\ r.post \notin excused
    BY <1>2, <1>b, <1>f, <1>g, <1>h, <1>i DEF TypeOK
  <2>5. Stands(note.at) => entry.ref[note.at] \in {None, r.post}
    BY <1>2, <1>b, <1>g, <1>h
  <2>6. \A i \in 1..note.at : i = note.at \/ i \in 1..(note.at - 1)
    BY <1>b
  <2>7. ASSUME NEW i \in 1..note.at
        PROVE LET q == note'.results[i]
              IN /\ q.at = i /\ q.ref \in {None, q.post}
                 /\ Stands(i) => q.ref = q.post /\ entry.ref[i] \in {None, q.post}
                 /\ Replies(i) => /\ q.msg = q.post /\ q.ref = None
                                  /\ posts'[q.post].life = lives /\ q.post \notin excused
    <3>1. CASE i = note.at
      BY <1>2, <1>f, <1>g, <1>h, <2>3, <2>4, <2>5, <3>1
    <3>2. CASE i \in 1..(note.at - 1)
      <4>1. LET q == note.results[i]
            IN /\ q.at = i /\ q.ref \in {None, q.post}
               /\ Stands(i) => q.ref = q.post /\ entry.ref[i] \in {None, q.post}
               /\ Replies(i) => /\ q.msg = q.post /\ q.ref = None
                                /\ posts[q.post].life = lives /\ q.post \notin excused
        BY <1>2, <3>2 DEF Firing
      <4>2. note.results[i].post \in 1..Len(posts) /\ note'.results[i] = note.results[i]
        BY <2>2, <3>2
      <4>3. posts'[note.results[i].post].life = posts[note.results[i].post].life
        BY <1>j, <4>2
      <4> QED
        BY <4>1, <4>2, <4>3
    <3> QED
      BY <2>6, <3>1, <3>2
  <2> QED
    BY <1>b, <1>e, <2>1, <2>7
<1>3. Firing'
  BY <1>2, <1>a, <1>b, <1>d, <1>h DEF Firing
<1>4. Resolving'
  <2>1. ASSUME Telling("resolved"), NEW i \in 1..note.at PROVE Open(i)' \subseteq excused
    <3>0. i \in Routes
      BY <1>b
    <3>1. CASE i = note.at
      <4>1. ASSUME NEW k \in Open(i)' PROVE k \in excused
        <5>1. Stands(i)
          BY <1>k, <3>0, <4>1, OpenElements DEF Placed
        <5>2. Closes
          BY <1>g, <1>h, <2>1, <3>1, <5>1
        <5>3. k \in Open(i) /\ k # note.ref
          BY <1>k, <3>0, <4>1, <5>2 DEF Makes
        <5>4. ~Telling("firing")
          BY <1>h, <2>1
        <5> QED
          BY <1>b, <3>0, <3>1, <5>3, <5>4 DEF Kept, Ref
      <4> QED
        BY <4>1
    <3>2. CASE i \in 1..(note.at - 1)
      BY <1>b, <1>k, <2>1, <3>0, <3>2 DEF Resolving
    <3> QED
      BY <1>b, <3>1, <3>2
  <2>2. ASSUME Telling("resolved"), NEW k \in 1..Len(note'.results), Stands(note'.results[k].at)
        PROVE  note'.results[k].post = entry.ref[note'.results[k].at]
    <3>1. CASE k \in 1..Len(note.results)
      BY <1>e, <2>2, <3>1 DEF Resolving
    <3>2. CASE k = Len(note.results) + 1
      BY <1>b, <1>e, <1>f, <1>g, <1>h, <2>2, <3>2 DEF Makes
    <3> QED
      BY <1>e, <2>2, <3>1, <3>2
  <2> QED
    BY <1>a, <1>b, <1>d, <1>h, <2>1, <2>2, SMTT(30) DEF Resolving
<1>5. ASSUME NEW i \in Routes
      PROVE  /\ Open(i)' \subseteq excused \cup {Ref(i)'}
             /\ Stands(i) /\ Ref(i)' # None =>
                  \/ posts'[Ref(i)'].open \/ Ref(i)' \in excused
                  \/ Telling("resolved") /\ \E k \in 1..Len(note'.results) : note'.results[k].post = Ref(i)'
  <2>1. CASE Telling("firing") /\ i = note.at
    <3>0. note.state = "firing" /\ ~Telling("resolved") /\ ~Closes
      BY <1>h, <1>i, <2>1
    <3>1. Ref(i)' = r.ref /\ Ref(i) = note.ref
      <4>1. note'.results[note.at] = r
        BY <1>b, <1>e, <2>1 DEF Firing
      <4> QED
        BY <1>b, <1>d, <1>h, <2>1, <4>1 DEF Ref
    <3>2. CASE Stands(i) /\ Makes
      <4>1. r.ref = r.post /\ note.ref = None /\ posts'[r.post].open
        BY <1>f, <1>g, <1>i, <2>1, <3>0, <3>2
      <4>2. ASSUME NEW k \in Open(i)' PROVE k \in excused \cup {r.ref}
        BY <1>k, <3>1, <4>1, <4>2, OpenElements DEF Kept, None
      <4> QED
        BY <3>1, <4>1, <4>2
    <3>3. CASE Stands(i) /\ ~Makes
      <4>1. r.ref = note.ref /\ UNCHANGED posts
        BY <1>g, <1>i, <2>1, <3>0, <3>3
      <4>2. Open(i)' \subseteq Open(i)
        BY <1>k, <3>3
      <4> QED
        BY <3>0, <3>1, <4>1, <4>2 DEF Kept
    <3>4. CASE ~Stands(i)
      <4>1. Open(i)' = {}
        BY <1>k, <3>4, OpenElements DEF Placed
      <4> QED
        BY <3>4, <4>1
    <3> QED
      BY <3>2, <3>3, <3>4
  <2>2. CASE ~(Telling("firing") /\ i = note.at)
    <3>1. Ref(i)' = Ref(i)
      <4>1. CASE Telling("firing") /\ i < note.at
        <5>1. i \in 1..Len(note.results)
          BY <1>b, <4>1 DEF Firing
        <5> QED
          BY <1>b, <1>d, <1>e, <1>h, <4>1, <5>1 DEF Ref
      <4>2. CASE ~(Telling("firing") /\ i < note.at)
        <5>1. ~(Telling("firing") /\ i < note.at + 1)
          BY <1>b, <2>2, <4>2
        <5> QED
          BY <1>a, <1>d, <1>h, <4>2, <5>1 DEF Ref
      <4> QED
        BY <4>1, <4>2
    <3>2. Open(i)' \subseteq excused \cup {Ref(i)}
      <4>1. ASSUME NEW k \in Open(i)', k \notin Open(i) PROVE k = Ref(i)
        <5>1. Makes /\ i = note.at /\ Stands(i)
          BY <1>k, <4>1
        <5>2. note.state = "resolved"
          BY <1>b, <1>h, <2>2, <5>1
        <5> QED
          BY <1>g, <5>1, <5>2 DEF Makes
      <4> QED
        BY <4>1 DEF Kept
    <3>3. ASSUME Stands(i), Ref(i) # None
          PROVE  \/ posts'[Ref(i)].open \/ Ref(i) \in excused
                 \/ Telling("resolved") /\ \E k \in 1..Len(note'.results) : note'.results[k].post = Ref(i)
      <4>1. Ref(i) \in 1..Len(posts)
        <5>1. CASE Telling("firing") /\ i < note.at
          <6>1. i \in 1..Len(note.results)
            BY <1>b, <5>1 DEF Firing
          <6>2. note.results[i] \in Outcome /\ Ref(i) = note.results[i].ref
            BY <1>b, <5>1, <6>1, UnderWay DEF Ref
          <6>3. Ref(i) \in 0..Len(posts)
            BY <6>2 DEF Outcome, Reference
          <6> QED
            BY <1>b, <3>3, <6>3 DEF None
        <5>2. CASE ~(Telling("firing") /\ i < note.at)
          BY <3>3, <5>2, EntryTypes DEF Ref, Reference
        <5> QED
          BY <5>1, <5>2
      <4>2. CASE posts[Ref(i)].open /\ ~posts'[Ref(i)].open
        <5>1. Closes /\ Ref(i) = note.ref /\ ~Makes /\ Telling("resolved")
          BY <1>h, <1>i, <1>j, <4>1, <4>2 DEF Makes
        <5>2. note'.results[Len(note.results) + 1].post = Ref(i)
          BY <1>e, <1>f, <5>1
        <5> QED
          BY <1>b, <1>e, <5>1, <5>2
      <4>3. CASE posts[Ref(i)].open /\ posts'[Ref(i)].open
        BY <4>3
      <4>4. CASE ~posts[Ref(i)].open
        <5>1. \/ Ref(i) \in excused
              \/ Telling("resolved") /\ \E k \in 1..Len(note.results) : note.results[k].post = Ref(i)
          BY <3>3, <4>4 DEF Kept
        <5>2. \A k \in 1..Len(note.results) : k \in 1..Len(note'.results) /\ note'.results[k] = note.results[k]
          BY <1>b, <1>e
        <5> QED
          BY <5>1, <5>2
      <4> QED
        BY <4>2, <4>3, <4>4
    <3> QED
      BY <3>1, <3>2, <3>3
  <2> QED
    BY <2>1, <2>2
<1>6. Kept'
  BY <1>5, <1>a, <1>h DEF Kept
<1>7. ASSUME NEW i \in Routes, Replies(i)
      PROVE  /\ entry.msg[i] # None => /\ entry.msg[i] \in Opening(i)'
                                       /\ \A k \in Opening(i)' : entry.msg[i] <= k
             /\ entry.msg[i] = None => entry.ref = Nothing /\ entry.msg = Nothing
             /\ entry.msg[i] = None /\ entry.firing =>
                  Opening(i)' \subseteq IF Telling("firing") /\ i < note.at + 1 THEN {note'.results[i].post} ELSE {}
             /\ \A k \in 1..Len(note'.results) : note'.results[k].at = i => note'.results[k].post # entry.msg[i]
  <2>0. ~Stands(i) /\ entry.msg[i] \in 0..Len(posts)
    BY <1>7, RepliesStand, EntryTypes DEF Reference
  <2>1. ASSUME entry.msg[i] # None
        PROVE  entry.msg[i] \in Opening(i)' /\ \A k \in Opening(i)' : entry.msg[i] <= k
    BY <1>7, <1>b, <1>l, <2>0, <2>1 DEF Replied
  <2>2. entry.msg[i] = None => entry.ref = Nothing /\ entry.msg = Nothing
    BY <1>7 DEF Replied
  <2>3. ASSUME entry.msg[i] = None, entry.firing, NEW k \in Opening(i)'
        PROVE  Telling("firing") /\ i < note.at + 1 /\ k = note'.results[i].post
    <3>1. Telling("firing")
      BY <1>b, <1>h, <2>3 DEF Placed
    <3>2. CASE k \in Opening(i)
      <4>1. i < note.at /\ k = note.results[i].post
        BY <1>7, <2>3, <3>1, <3>2 DEF Replied
      <4>2. i \in 1..Len(note.results)
        BY <1>b, <3>1, <4>1 DEF Firing
      <4> QED
        BY <1>b, <1>e, <3>1, <4>1, <4>2
    <3>3. CASE Makes /\ i = note.at /\ k = Len(posts) + 1
      BY <1>b, <1>e, <1>f, <3>1, <3>3 DEF Firing
    <3> QED
      BY <1>l, <2>3, <3>2, <3>3
  <2>4. ASSUME NEW k \in 1..Len(note'.results), note'.results[k].at = i
        PROVE  note'.results[k].post # entry.msg[i]
    <3>1. CASE k \in 1..Len(note.results)
      <4>1. note'.results[k] = note.results[k]
        BY <1>e, <3>1
      <4>2. note.results[k].at = i => note.results[k].post # entry.msg[i]
        BY <1>7, <1>b, <3>1 DEF Replied
      <4> QED
        BY <2>4, <4>1, <4>2
    <3>2. CASE k = Len(note.results) + 1
      BY <1>b, <1>e, <1>f, <2>0, <2>4, <3>2
    <3> QED
      BY <1>e, <2>4, <3>1, <3>2
  <2> QED
    BY <2>1, <2>2, <2>3, <2>4
<1>8. Replied'
  <2>1. entry' = entry /\ Routes' = Routes /\ Nothing' = Nothing /\ note'.at = note.at + 1
        /\ (Telling("firing")' <=> Telling("firing"))
    BY <1>a, <1>d, <1>h DEF Nothing
  <2>2. \A i : Replies(i)' <=> Replies(i)
    BY <1>h
  <2> QED
    BY <1>7, <2>1, <2>2 DEF Replied
<1> QED
  BY <1>1, <1>3, <1>4, <1>6, <1>8

\* When every route was served, the alert has the references that were returned, or is
\* through.
LEMMA ApplyKeeps ==
  ASSUME TypeOK, TypeOK', Parts, applyDeliveryResults
  PROVE  Parts'
<1> USE DEF Parts
<1>0. /\ note # Idle /\ note.at \notin Routes /\ note' = Idle
      /\ UNCHANGED <<config, posts, lives, excused>>
      /\ entry' = IF note.state = "resolved" THEN NoEntry ELSE Captured
      /\ \A i : (Stands(i)' <=> Stands(i)) /\ (Replies(i)' <=> Replies(i)) /\ Open(i)' = Open(i)
                /\ Opening(i)' = Opening(i)
      /\ Routes' = Routes
  BY DEF applyDeliveryResults, Idle, Stands, Replies, Open, Opening, Routes
<1>1. /\ note.state \in {"firing", "resolved"} /\ note.at = Len(config.routes) + 1 /\ Len(posts) \in Nat
      /\ Routes = 1..Len(config.routes) /\ Len(config.routes) \in Nat
      /\ \A i \in Routes : i \in 1..(note.at - 1) /\ i < note.at
  BY <1>0, UnderWay, ConfigShape, EntryTypes
<1>2. Firing' /\ Resolving'
  BY <1>0 DEF Firing, Resolving, Telling
<1>3. ASSUME /\ \A i \in Routes : /\ entry'.ref[i] # None => posts[entry'.ref[i]].route = i /\ ~Replies(i)
                                  /\ Open(i) \subseteq excused \cup {entry'.ref[i]}
                                  /\ Stands(i) /\ entry'.ref[i] # None =>
                                       posts[entry'.ref[i]].open \/ entry'.ref[i] \in excused,
             \A i \in Routes : Replies(i) =>
               /\ entry'.msg[i] # None => /\ entry'.msg[i] \in Opening(i)
                                          /\ \A k \in Opening(i) : entry'.msg[i] <= k
               /\ entry'.msg[i] = None => /\ entry'.ref = Nothing /\ entry'.msg = Nothing
                                          /\ ~entry'.firing
      PROVE  Parts'
  <2>1. Placed'
    <3>1. \A i \in Routes : entry'.ref[i] # None => posts[entry'.ref[i]].route = i /\ ~Replies(i)
      BY <1>3
    <3> QED
      BY <1>0, <3>1 DEF Placed
  <2>2. Kept'
    BY <1>0, <1>3 DEF Kept, Ref, Telling
  <2>3. Replied'
    BY <1>0, <1>3 DEF Replied, Telling, Nothing
  <2> QED
    BY <1>2, <2>1, <2>2, <2>3
<1>4. CASE note.state = "resolved"
  <2>1. /\ entry' = NoEntry /\ ~entry'.firing /\ entry'.ref = Nothing /\ entry'.msg = Nothing
        /\ \A i \in Routes : entry'.ref[i] = None /\ entry'.msg[i] = None
    BY <1>0, <1>4 DEF NoEntry, Nothing
  <2>2. \A i \in Routes : Open(i) \subseteq excused
    BY <1>0, <1>1, <1>4 DEF Resolving, Telling
  <2> QED
    BY <1>3, <2>1, <2>2
<1>5. CASE note.state = "firing"
  <2>0. Telling("firing") /\ ~Telling("resolved") /\ entry' = Captured
    BY <1>0, <1>5 DEF Telling
  <2>1. ASSUME NEW i \in Routes
        PROVE  LET r == note.results[i]
               IN /\ i \in 1..Len(note.results) /\ r \in Outcome /\ r.at = i
                  /\ entry'.ref[i] = IF r.ref = None THEN entry.ref[i] ELSE r.ref
                  /\ entry'.msg[i] = IF entry.msg[i] # None THEN entry.msg[i] ELSE r.msg
                  /\ Ref(i) = r.ref
    BY <1>0, <1>1, <2>0, CapturedShape DEF Firing, Ref
  <2>2. ASSUME NEW i \in Routes
        PROVE  /\ entry'.ref[i] # None => posts[entry'.ref[i]].route = i /\ ~Replies(i)
               /\ Open(i) \subseteq excused \cup {entry'.ref[i]}
               /\ Stands(i) /\ entry'.ref[i] # None =>
                    posts[entry'.ref[i]].open \/ entry'.ref[i] \in excused
    <3>1. /\ note.results[i].post \in 1..Len(posts)
          /\ posts[note.results[i].post].route = i
      BY <1>0, <2>1, UnderWay DEF Placed
    <3>2. CASE Stands(i)
      <4>1. note.results[i].ref = note.results[i].post /\ ~Replies(i)
        BY <1>1, <2>0, <3>2, RepliesStand DEF Firing
      <4>2. entry'.ref[i] = note.results[i].post /\ Ref(i) = entry'.ref[i] /\ Ref(i) # None
        BY <1>1, <2>1, <3>1, <4>1 DEF None
      <4> QED
        BY <2>0, <3>1, <3>2, <4>1, <4>2 DEF Kept
    <3>3. CASE ~Stands(i)
      <4>1. Open(i) = {}
        BY <3>3, OpenElements DEF Placed
      <4>2. CASE Replies(i)
        BY <1>1, <2>0, <2>1, <3>3, <4>1, <4>2 DEF Firing, Placed
      <4>3. CASE ~Replies(i) /\ note.results[i].ref = None
        BY <2>1, <3>3, <4>1, <4>3 DEF Placed
      <4>4. CASE ~Replies(i) /\ note.results[i].ref # None
        <5>1. note.results[i].ref = note.results[i].post
          BY <1>1, <2>0, <4>4 DEF Firing
        <5> QED
          BY <2>1, <3>1, <3>3, <4>1, <4>4, <5>1
      <4> QED
        BY <4>2, <4>3, <4>4
    <3> QED
      BY <3>2, <3>3
  <2>3. ASSUME NEW i \in Routes, Replies(i)
        PROVE  /\ entry'.msg[i] # None
               /\ entry'.msg[i] \in Opening(i) /\ \A k \in Opening(i) : entry'.msg[i] <= k
    <3>1. CASE entry.msg[i] # None
      BY <2>1, <2>3, <3>1 DEF Replied
    <3>2. CASE entry.msg[i] = None
      <4>1. /\ entry'.msg[i] = note.results[i].post /\ note.results[i].post \in 1..Len(posts)
            /\ posts[note.results[i].post].route = i
        BY <1>0, <1>1, <2>0, <2>1, <2>3, <3>2, UnderWay DEF Firing, Placed
      <4>2. posts[note.results[i].post].life = lives /\ note.results[i].post \notin excused
        BY <1>1, <2>0, <2>3 DEF Firing
      <4>3. Opening(i) \subseteq {note.results[i].post}
        BY <1>0, <1>1, <1>5, <2>0, <2>3, <3>2 DEF Replied, Placed
      <4>4. \A k \in Opening(i) : k = note.results[i].post
        BY <4>3
      <4> QED
        BY <1>1, <4>1, <4>2, <4>4, OpenElements DEF None
    <3> QED
      BY <3>1, <3>2
  <2> QED
    BY <1>3, <2>2, <2>3
<1> QED
  BY <1>1, <1>4, <1>5

\* The other steps: a notification begins, turns to a route, or waits.
LEMMA QuietKeeps ==
  ASSUME TypeOK, TypeOK', Parts, NotifyFiring \/ NotifyResolved \/ PrepareRoute \/ Elapse \/ GoDown
  PROVE  Parts'
<1> USE DEF Parts
<1>0. /\ UNCHANGED <<config, posts, excused>> /\ Routes' = Routes
      /\ \A i : (Stands(i)' <=> Stands(i)) /\ (Replies(i)' <=> Replies(i)) /\ Open(i)' = Open(i)
      /\ lives \in Nat /\ lives' \in Nat /\ Routes = 1..Len(config.routes) /\ Len(config.routes) \in Nat
  BY ConfigShape DEF NotifyFiring, NotifyResolved, Begin, PrepareRoute, Elapse, GoDown, Stands, Replies,
     Open, Routes, TypeOK
<1>1. CASE NotifyFiring \/ NotifyResolved
  <2>1. PICK s \in {"firing", "resolved"}, t \in BOOLEAN :
          /\ note = Idle
          /\ note' = [pc |-> "route", state |-> s, ttl |-> t, at |-> 1, attempt |-> 0, ref |-> None,
                      results |-> <<>>]
          /\ entry' = [entry EXCEPT !.firing = (s = "firing")]
          /\ lives' = IF s = "firing" /\ entry = NoEntry THEN lives + 1 ELSE lives
          /\ s = "resolved" => entry.firing
    <3>1. CASE NotifyFiring
      BY <3>1 DEF NotifyFiring, Begin
    <3>2. CASE NotifyResolved
      <4>1. PICK t \in BOOLEAN : Begin("resolved", t)
        BY <3>2 DEF NotifyResolved
      <4> QED
        BY <3>2, <4>1 DEF NotifyResolved, Begin
    <3> QED
      BY <1>1, <3>1, <3>2
  <2>2. /\ note' # Idle /\ note'.pc = "route" /\ note'.state = s /\ note'.at = 1 /\ note'.results = <<>>
        /\ Len(note'.results) = 0
    BY <2>1 DEF Idle
  <2>3. entry'.firing = (s = "firing") /\ entry'.ref = entry.ref /\ entry'.msg = entry.msg
    BY <2>1 DEF TypeOK
  <2>4. lives <= lives'
    BY <1>0, <2>1
  <2>5. Placed'
    <3>1. \A k \in 1..Len(posts) : posts[k].life <= lives'
      <4>1. ASSUME NEW k \in 1..Len(posts) PROVE posts[k].life \in Nat /\ posts[k].life <= lives
        <5>1. posts[k] \in Post
          BY DEF TypeOK
        <5> QED
          BY <5>1 DEF Placed, Post
      <4> QED
        BY <1>0, <2>4, <4>1
    <3>2. note'.state = "firing" <=> entry'.firing
      BY <2>2, <2>3
    <3> QED
      BY <1>0, <2>2, <2>3, <3>1, <3>2 DEF Placed
  <2>6. Firing' /\ Resolving'
    BY <2>2 DEF Firing, Resolving
  <2>7. Kept'
    BY <1>0, <2>1, <2>2, <2>3 DEF Kept, Ref, Telling
  <2>8. Replied'
    <3>1. ASSUME NEW i \in Routes, Replies(i)
          PROVE  /\ entry.msg[i] # None => /\ entry.msg[i] \in Opening(i)'
                                           /\ \A k \in Opening(i)' : entry.msg[i] <= k
                 /\ entry.msg[i] = None => entry.ref = Nothing /\ entry.msg = Nothing
                 /\ entry.msg[i] = None /\ s = "firing" => Opening(i)' = {}
      <4>0. NoEntry.msg[i] = None
        BY <3>1 DEF NoEntry
      <4>1. CASE lives' = lives
        <5>1. Opening(i)' = Opening(i)
          BY <1>0, <4>1 DEF Opening
        <5>2. ASSUME entry.msg[i] = None, s = "firing" PROVE entry.firing
          <6>1. entry # NoEntry
            BY <1>0, <2>1, <4>1, <5>2
          <6>2. entry.ref = Nothing /\ entry.msg = Nothing
            BY <3>1, <5>2 DEF Replied
          <6> QED
            BY <6>1, <6>2, EntryTypes DEF NoEntry, Nothing
        <5> QED
          BY <2>1, <3>1, <5>1, <5>2 DEF Replied, Telling
      <4>2. CASE lives' # lives
        <5>1. entry = NoEntry /\ lives' = lives + 1
          BY <2>1, <4>2
        <5>2. Opening(i)' = {}
          <6>1. ASSUME NEW k \in Opening(i)' PROVE FALSE
            <7>1. k \in 1..Len(posts) /\ posts[k].life = lives'
              BY <1>0, <6>1 DEF Opening, TypeOK
            <7> QED
              BY <1>0, <5>1, <7>1 DEF Placed
          <6> QED
            BY <6>1
        <5> QED
          BY <3>1, <4>0, <5>1, <5>2 DEF Replied
      <4> QED
        BY <4>1, <4>2
    <3>2. 1..Len(note'.results) = {}
      BY <2>2
    <3>3. entry'.firing <=> s = "firing"
      BY <2>3, Zenon
    <3>4. SUFFICES ASSUME NEW i \in Routes', Replies(i)'
                   PROVE  /\ entry'.msg[i] # None => /\ entry'.msg[i] \in Opening(i)'
                                                     /\ \A k \in Opening(i)' : entry'.msg[i] <= k
                          /\ entry'.msg[i] = None => entry'.ref = Nothing' /\ entry'.msg = Nothing'
                          /\ entry'.msg[i] = None /\ entry'.firing => Opening(i)' = {}
                          /\ \A k \in 1..Len(note'.results) :
                               note'.results[k].at = i => note'.results[k].post # entry'.msg[i]
      BY DEF Replied
    <3>5. i \in Routes /\ Replies(i) /\ Nothing' = Nothing
      BY <1>0, <3>4 DEF Nothing
    <3> QED
      BY <2>3, <3>1, <3>2, <3>3, <3>5
  <2> QED
    BY <2>5, <2>6, <2>7, <2>8
<1>2. ASSUME UNCHANGED <<entry, lives>>, note # Idle, note' # Idle,
             UNCHANGED <<note.state, note.results>>,
             note'.at = note.at \/ (/\ note'.at = note.at + 1 /\ note.at \in Routes
                                    /\ note.state = "resolved" /\ entry.ref[note.at] = None),
             note'.pc # "route" => note'.at \in Routes /\ note'.ref = entry.ref[note'.at]
      PROVE  Parts'
  <2>1. \A i \in Routes : Opening(i)' = Opening(i)
    BY <1>0, <1>2 DEF Opening
  <2>a. \A k \in 1..Len(note.results) : note.results[k].at \in Nat
    <3>1. ASSUME NEW k \in 1..Len(note.results) PROVE note.results[k].at \in Routes
      <4>1. note.results[k] \in Outcome
        BY <1>2, UnderWay
      <4> QED
        BY <4>1 DEF Outcome
    <3> QED
      BY <1>0, <3>1
  <2>2. /\ note.at \in Nat /\ Len(note.results) \in Nat
        /\ \A k \in 1..Len(note.results) : note.results[k].at \in Nat
        /\ \A s : Telling(s)' <=> Telling(s)
        /\ Telling("firing") => note'.at = note.at
    BY <1>0, <1>2, <2>a, UnderWay DEF Telling
  <2>3. Placed'
    <3>1. ASSUME NEW k \in 1..Len(note.results)
          PROVE  posts[note.results[k].post].route = note.results[k].at /\ note.results[k].at < note'.at
      <4>1. note.results[k].at < note.at
        BY <1>2, <3>1 DEF Placed
      <4> QED
        BY <1>2, <2>2, <3>1, <4>1 DEF Placed
    <3> QED
      BY <1>0, <1>2, <3>1 DEF Placed
  <2>4. Firing'
    BY <1>0, <1>2, <2>2 DEF Firing
  <2>5. Resolving'
    <3>1. ASSUME Telling("resolved"), NEW i \in 1..(note'.at - 1) PROVE Open(i) \subseteq excused
      <4>1. CASE i \in 1..(note.at - 1)
        BY <3>1, <4>1 DEF Resolving
      <4>2. CASE i \notin 1..(note.at - 1)
        <5>1. i = note.at /\ i \in Routes /\ entry.ref[i] = None
          BY <1>2, <2>2, <3>1, <4>2
        <5>2. Ref(i) = None
          BY <3>1, <5>1 DEF Ref, Telling
        <5>3. None \notin Open(i)
          BY <5>1, OpenElements DEF None
        <5> QED
          BY <5>1, <5>2, <5>3 DEF Kept
      <4> QED
        BY <4>1, <4>2
    <3> QED
      BY <1>0, <1>2, <2>2, <3>1 DEF Resolving
  <2>6. \A i : Ref(i)' = Ref(i)
    BY <1>2, <2>2 DEF Ref
  <2>7. Kept'
    BY <1>0, <1>2, <2>2, <2>6 DEF Kept
  <2>8. Replied'
    <3>1. ASSUME NEW i \in Routes, Replies(i)
          PROVE  /\ entry.msg[i] # None => /\ entry.msg[i] \in Opening(i)
                                           /\ \A k \in Opening(i) : entry.msg[i] <= k
                 /\ entry.msg[i] = None => entry.ref = Nothing /\ entry.msg = Nothing
                 /\ entry.msg[i] = None /\ entry.firing =>
                      Opening(i) \subseteq IF Telling("firing") /\ i < note'.at THEN {note.results[i].post} ELSE {}
                 /\ \A k \in 1..Len(note.results) : note.results[k].at = i => note.results[k].post # entry.msg[i]
      BY <1>2, <2>2, <3>1 DEF Replied
    <3> QED
      BY <1>0, <1>2, <2>1, <2>2, <3>1, SMTT(30) DEF Replied, Nothing
  <2> QED
    BY <2>3, <2>4, <2>5, <2>7, <2>8
<1>3. CASE PrepareRoute
  <2>0. note.pc = "route" /\ note.at \in Routes /\ note # Idle /\ UNCHANGED <<entry, lives>>
    BY <1>3 DEF PrepareRoute, Idle
  <2>1. CASE Skipped(entry.ref[note.at])
    <3>1. note' = [note EXCEPT !.at = @ + 1, !.pc = "route", !.ref = None, !.attempt = 0]
      BY <1>3, <2>1 DEF PrepareRoute, Past
    <3>2. /\ note'.pc = "route" /\ note'.at = note.at + 1 /\ UNCHANGED <<note.state, note.results>>
          /\ note.state = "resolved" /\ entry.ref[note.at] = None
      BY <2>0, <2>1, <3>1, UnderWay DEF Notification, Skipped
    <3>3. note' # Idle
      BY <3>2 DEF Idle
    <3> QED
      BY <1>2, <2>0, <3>2, <3>3
  <2>2. CASE ~Skipped(entry.ref[note.at])
    <3>1. PICK ref : ref = entry.ref[note.at]
      OBVIOUS
    <3>2. note' = [note EXCEPT !.pc = "send", !.ref = ref]
      BY <1>3, <2>2, <3>1 DEF PrepareRoute
    <3>3. note'.pc = "send" /\ note'.ref = ref /\ UNCHANGED <<note.state, note.results, note.at>>
      BY <2>0, <3>2, UnderWay DEF Notification
    <3>4. note' # Idle
      BY <3>3 DEF Idle
    <3> QED
      BY <1>2, <2>0, <3>1, <3>3, <3>4
  <2> QED
    BY <2>1, <2>2
<1>4. CASE Elapse
  <2>0. note.pc = "wait" /\ note # Idle /\ UNCHANGED <<entry, lives>> /\ note' = [note EXCEPT !.pc = "send"]
    BY <1>4 DEF Elapse, Idle
  <2>1. note'.pc = "send" /\ UNCHANGED <<note.state, note.results, note.at, note.ref>>
    BY <2>0, UnderWay DEF Notification
  <2>2. note' # Idle
    BY <2>1 DEF Idle
  <2>3. note.at \in Routes /\ note.ref = entry.ref[note.at]
    BY <2>0 DEF Placed
  <2> QED
    BY <1>2, <2>0, <2>1, <2>2, <2>3
<1>5. ASSUME UNCHANGED <<config, posts, excused, entry, lives, note>> PROVE Parts'
  <2>a. Placed'
    BY <1>5 DEF Placed, Stands, Replies, Routes
  <2>1. Firing'
    BY <1>5 DEF Firing, Telling, Stands, Replies
  <2>2. Resolving'
    BY <1>5 DEF Resolving, Telling, Open, Stands, Routes
  <2>3. Kept'
    BY <1>5 DEF Kept, Telling, Ref, Open, Stands, Routes
  <2>4. Replied'
    BY <1>5 DEF Replied, Replies, Opening, Telling, Routes, Nothing
  <2> QED
    BY <2>a, <2>1, <2>2, <2>3, <2>4
<1> QED
  BY <1>1, <1>3, <1>4, <1>5 DEF GoDown

\* A notification that falls into an off window: the references of an alert that goes on firing
\* stand, those of one that is forgotten are excused.
LEMMA MutedKeeps ==
  ASSUME TypeOK, TypeOK', Parts, MuteFiring \/ MuteResolved
  PROVE  Parts'
<1> USE DEF Parts
<1>0. /\ UNCHANGED <<config, note, posts>> /\ Routes' = Routes /\ note = Idle /\ Nothing' = Nothing
      /\ \A i : (Stands(i)' <=> Stands(i)) /\ (Replies(i)' <=> Replies(i)) /\ Open(i)' = Open(i)
      /\ lives \in Nat /\ lives' \in Nat /\ lives <= lives' /\ Len(posts) \in Nat
  BY DEF MuteFiring, MuteResolved, Mute, Stands, Replies, Open, Routes, Nothing, TypeOK
<1>1. \A s : ~Telling(s) /\ ~Telling(s)'
  BY <1>0 DEF Telling
<1>2. \A i : Ref(i) = entry.ref[i] /\ Ref(i)' = entry'.ref[i]
  BY <1>1 DEF Ref
<1>3. Firing' /\ Resolving'
  BY <1>1 DEF Firing, Resolving
<1>4. \A k \in 1..Len(posts) : posts[k].life <= lives'
  <2>1. ASSUME NEW k \in 1..Len(posts) PROVE posts[k].life \in Nat /\ posts[k].life <= lives
    <3>1. posts[k] \in Post
      BY DEF TypeOK
    <3> QED
      BY <2>1, <3>1 DEF Placed, Post
  <2> QED
    BY <1>0, <2>1
<1>5. CASE MuteFiring
  <2>1. /\ entry'.firing /\ entry'.ref = entry.ref /\ entry'.msg = entry.msg
        /\ excused' = excused
        /\ lives' = IF entry = NoEntry THEN lives + 1 ELSE lives
    BY <1>5 DEF MuteFiring, TypeOK
  <2>2. Placed'
    BY <1>0, <1>4, <2>1 DEF Placed
  <2>3. Kept'
    BY <1>0, <1>1, <1>2, <2>1 DEF Kept
  <2>4. ASSUME NEW i \in Routes, Replies(i)
        PROVE  /\ entry.msg[i] # None => /\ entry.msg[i] \in Opening(i)'
                                         /\ \A k \in Opening(i)' : entry.msg[i] <= k
               /\ entry.msg[i] = None => entry.ref = Nothing /\ entry.msg = Nothing
               /\ entry.msg[i] = None => Opening(i)' = {}
    <3>1. CASE entry = NoEntry
      <4>1. Opening(i)' = {}
        <5>1. ASSUME NEW k \in Opening(i)' PROVE FALSE
          <6>1. k \in 1..Len(posts) /\ posts[k].life = lives + 1
            BY <1>0, <2>1, <3>1, <5>1 DEF Opening, TypeOK
          <6>2. posts[k].life <= lives
            BY <6>1 DEF Placed
          <6> QED
            BY <1>0, <6>1, <6>2
        <5> QED
          BY <5>1
      <4> QED
        BY <2>4, <3>1, <4>1 DEF NoEntry, Nothing
    <3>2. CASE entry # NoEntry
      <4>1. Opening(i)' = Opening(i)
        BY <1>0, <2>1, <3>2 DEF Opening
      <4>2. ASSUME entry.msg[i] = None PROVE entry.firing
        <5>1. entry.ref = Nothing /\ entry.msg = Nothing
          BY <2>4, <4>2 DEF Replied
        <5> QED
          BY <3>2, <5>1, EntryTypes DEF NoEntry, Nothing
      <4> QED
        BY <1>1, <2>4, <4>1, <4>2 DEF Replied
    <3> QED
      BY <3>1, <3>2
  <2>5. Replied'
    BY <1>0, <1>1, <2>1, <2>4 DEF Replied
  <2> QED
    BY <1>3, <2>2, <2>3, <2>5
<1>6. CASE MuteResolved
  <2>1. /\ entry' = NoEntry /\ lives' = lives
        /\ excused' = excused \cup ({entry.ref[i] : i \in Routes} \ {None})
    BY <1>6 DEF MuteResolved
  <2>2. /\ ~entry'.firing /\ entry'.ref = Nothing /\ entry'.msg = Nothing
        /\ \A i \in Routes : entry'.ref[i] = None /\ entry'.msg[i] = None
    BY <2>1 DEF NoEntry, Nothing
  <2>3. Placed'
    BY <1>0, <1>4, <2>2 DEF Placed
  <2>4. Kept'
    <3>1. ASSUME NEW i \in Routes PROVE Open(i) \subseteq excused'
      <4>1. Open(i) \subseteq excused \cup {entry.ref[i]}
        BY <1>2 DEF Kept
      <4>2. None \notin Open(i)
        BY <3>1, OpenElements DEF None
      <4> QED
        BY <2>1, <4>1, <4>2
    <3> QED
      BY <1>0, <1>2, <2>2, <3>1 DEF Kept
  <2>5. Replied'
    BY <1>0, <1>1, <2>2 DEF Replied
  <2> QED
    BY <1>3, <2>3, <2>4, <2>5
<1> QED
  BY <1>5, <1>6

-----------------------------------------------------------------------------
(* The invariant and what follows from it.                                 *)

\* Every step keeps the invariant.
LEMMA StepIInv == IInv /\ [Next]_vars => IInv'
<1>1. SUFFICES ASSUME IInv, [Next]_vars PROVE IInv'
  OBVIOUS
<1>2. IInv <=> TypeOK /\ Parts
  BY DEF IInv, Parts
<1>3. CASE Next
  <2>1. TypeOK'
    BY <1>1, <1>2, <1>3, TypeStep DEF Parts
  <2>2. TypeOK /\ Parts
    BY <1>1, <1>2
  <2>3. CASE NotifyFiring \/ NotifyResolved \/ PrepareRoute \/ Elapse \/ GoDown
    BY <1>2, <2>1, <2>2, <2>3, QuietKeeps DEF IInv, Parts
  <2>4. CASE FailRender \/ Cancel
    <3>1. note # Idle /\ Fail({}) /\ UNCHANGED <<config, lives, posts>>
      BY <2>4 DEF FailRender, Cancel, Idle
    <3>2. Spoilt({})
      BY <2>2, <3>1, NothingSpoilt DEF Parts
    <3> QED
      BY <2>1, <2>2, <3>1, <3>2, FailKeeps DEF IInv, Parts
  <2>5. CASE FailSend
    <3>1. Spoilt({})
      BY <2>2, <2>5, NothingSpoilt DEF Parts, FailSend
    <3> QED
      BY <2>1, <2>2, <2>5, <3>1, RetryKeeps DEF FailSend, IInv, Parts
  <2>6. CASE LoseAnswer
    <3>1. PICK unknown : unknown = IF Posts THEN {New} ELSE IF Closes THEN {note.ref} ELSE {}
      OBVIOUS
    <3>2. Spoilt(unknown) /\ Retry(unknown) /\ note.pc = "send"
      BY <2>2, <2>6, <3>1, AnswerSpoilt DEF Parts, LoseAnswer
    <3> QED
      BY <2>1, <2>2, <3>2, RetryKeeps DEF IInv, Parts
  <2>7. CASE Deliver
    BY <2>1, <2>2, <2>7, DeliverKeeps DEF IInv, Parts
  <2>8. CASE applyDeliveryResults
    BY <2>1, <2>2, <2>8, ApplyKeeps DEF IInv, Parts
  <2>9. CASE MuteFiring \/ MuteResolved
    BY <2>1, <2>2, <2>9, MutedKeeps DEF IInv, Parts
  <2> QED
    BY <1>3, <2>9, <2>3, <2>4, <2>5, <2>6, <2>7, <2>8 DEF Next, Step
<1>4. CASE UNCHANGED vars
  <2>1. UNCHANGED <<config, down, entry, note, posts, notes, lives, faults, excused>>
    BY <1>4 DEF vars
  <2>2. UNCHANGED <<Reference, Routes, Post>>
    BY <2>1 DEF Reference, Routes, Post
  <2>3. UNCHANGED Outcome
    BY <2>1, <2>2 DEF Outcome
  <2>4. UNCHANGED Notification
    BY <2>1, <2>3 DEF Notification, Reference
  <2>5. TypeOK'
    BY <1>1, <2>1, <2>2, <2>4 DEF IInv, TypeOK, Idle
  <2>6. Placed' /\ Firing' /\ Resolving'
    BY <1>1, <2>1 DEF IInv, Placed, Firing, Resolving, Telling, Open, Stands, Replies, Routes, Idle
  <2>7. Kept' /\ Replied'
    BY <1>1, <2>1 DEF IInv, Kept, Replied, Ref, Telling, Open, Opening, Stands, Replies, Routes, Nothing, Idle
  <2> QED
    BY <2>5, <2>6, <2>7 DEF IInv
<1> QED
  BY <1>1, <1>3, <1>4

\* A program that starts satisfies the invariant.
LEMMA InitIInv == Init => IInv
<1>1. SUFFICES ASSUME Init PROVE IInv
  OBVIOUS
<1>2. /\ note = Idle /\ posts = <<>> /\ Len(posts) = 0 /\ entry = NoEntry /\ excused = {}
      /\ config \in Configs /\ ~NoEntry.firing /\ NoEntry.ref = Nothing /\ NoEntry.msg = Nothing
  BY <1>1 DEF Init, NoEntry, Nothing
<1>3. TypeOK
  <2>1. NoEntry \in [firing : BOOLEAN, ref : [Routes -> Reference], msg : [Routes -> Reference]]
    <3>1. None \in Reference
      BY <1>2 DEF None, Reference
    <3> QED
      BY <3>1 DEF NoEntry
  <2>2. posts \in Seq(Post)
    BY <1>2
  <2> QED
    BY <1>1, <1>2, <2>1, <2>2 DEF Init, TypeOK
<1>4. \A i \in Routes : Open(i) = {} /\ Opening(i) = {} /\ entry.ref[i] = None /\ entry.msg[i] = None
  BY <1>2 DEF Open, Opening, Nothing
<1>5. Placed /\ Firing /\ Resolving /\ Kept /\ Replied
  BY <1>2, <1>4 DEF Placed, Firing, Resolving, Kept, Replied, Telling, Ref
<1> QED
  BY <1>3, <1>5 DEF IInv

\* The invariant holds throughout: results, references and posts agree at every place of
\* forEachRouteNotification, after every failure.
THEOREM DeliveryInvariant == Spec => []IInv
<1> QED
  BY InitIInv, StepIInv, PTL DEF Spec

\* Between two notifications the alert knows what it has standing in the channels, and the first
\* message to reply to, for any routes and any failing requests (captureDeliveryEffects).
THEOREM ReferencesAlwaysHold == Spec => []ReferencesHold
<1>1. IInv => ReferencesHold
  <2>1. SUFFICES ASSUME IInv, note = Idle, NEW i \in Routes
                 PROVE  /\ Open(i) \ excused \subseteq {entry.ref[i]}
                        /\ entry.firing /\ Standing(config.routes[i]) =>
                             entry.ref[i] = None \/ posts[entry.ref[i]].open \/ entry.ref[i] \in excused
                        /\ entry.firing /\ config.routes[i] = [Channel |-> "telegram", Mode |-> "history"]
                             /\ Opening(i) # {} => entry.msg[i] = Min(Opening(i))
    BY DEF ReferencesHold
  <2>2. ~Telling("firing") /\ ~Telling("resolved") /\ Ref(i) = entry.ref[i]
    BY <2>1 DEF Telling, Ref
  <2>3. /\ Open(i) \ excused \subseteq {entry.ref[i]}
        /\ Standing(config.routes[i]) =>
             entry.ref[i] = None \/ posts[entry.ref[i]].open \/ entry.ref[i] \in excused
    BY <2>1, <2>2 DEF IInv, Kept, Stands
  <2>4. ASSUME entry.firing, Replies(i), Opening(i) # {} PROVE entry.msg[i] = Min(Opening(i))
    <3>1. entry.msg[i] \in Opening(i) /\ \A k \in Opening(i) : entry.msg[i] <= k
      BY <2>1, <2>2, <2>4 DEF IInv, Replied
    <3>2. Opening(i) \subseteq Nat
      BY <2>1, OpenElements DEF IInv
    <3>3. \A x \in Opening(i) : (\A y \in Opening(i) : x <= y) => x = entry.msg[i]
      BY <3>1, <3>2
    <3> QED
      BY <3>1, <3>3 DEF Min
  <2> QED
    BY <2>3, <2>4 DEF Replies
<1> QED
  BY <1>1, DeliveryInvariant, PTL

==============================================================================
