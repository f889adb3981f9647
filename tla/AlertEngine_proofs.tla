-------------------------- MODULE AlertEngine_proofs --------------------------
(***************************************************************************)
(* Proofs about AlertEngine, for every set of alerts, every set of valid   *)
(* rules and every value of the bounds.                                    *)
(*                                                                         *)
(* Good is the inductive invariant of one entry of Engine.states.  It is   *)
(* stated about a rule r, a state s, the clock `now' and the latest tick   *)
(* `last', so that ProcessEvent and TickRuleWithFiring are each one lemma  *)
(* about EvalEvent and EvalTick.  Steady is the part of it that holds in   *)
(* the middle of ProcessEvent as well, where LastSeen and the counters are *)
(* written before the phase.  From Good follow the invariants, that the    *)
(* engine implements AlertLifecycle, and that it does to an alert and      *)
(* decides on it only what AlertManager reckons with.                      *)
(***************************************************************************)
EXTENDS AlertEngine, FiniteSetTheorems, TLAPS

-----------------------------------------------------------------------------
(* What pruneWindow computes, for every sequence of points: which points   *)
(* it keeps and what it leaves of the cached sum.                          *)

\* agg_cnt is bounded by a natural number, so Counts is a finite set.
LEMMA CountsFinite ==
  /\ MaxAggCnt \in Nat
  /\ IsFiniteSet(Counts)
  /\ Counts \subseteq Nat
<1>1. MaxAggCnt \in Nat
  BY BoundsAssumption
<1>2. IsFiniteSet(1..MaxAggCnt)
  BY <1>1, FS_Interval
<1>3. 1..MaxAggCnt \subseteq Nat
  BY <1>1
<1> QED BY <1>1, <1>2, <1>3 DEF Counts

\* The units of a sequence of points form a finite set, so its sum is a number.
LEMMA UnitsFinite ==
  ASSUME NEW points \in Seq(WindowPoint)
  PROVE  /\ IsFiniteSet(Units(points))
         /\ SumCounts(points) \in Nat
<1>1. IsFiniteSet(DOMAIN points)
  BY FS_Interval, DOMAIN points = 1..Len(points)
<1>2. IsFiniteSet((DOMAIN points) \X Counts)
  BY <1>1, CountsFinite, FS_Product
<1>3. IsFiniteSet(Units(points))
  BY <1>2, FS_Subset, Units(points) \subseteq (DOMAIN points) \X Counts DEF Units
<1> QED BY <1>3, FS_CardinalityType DEF SumCounts

\* An empty window counts nothing.
LEMMA SumEmpty == SumCounts(<<>>) = 0
<1>1. Units(<<>>) = {}
  BY DOMAIN <<>> = {} DEF Units
<1> QED BY <1>1, FS_EmptySet DEF SumCounts

\* The interval from 1 to k has k elements.
LEMMA IntervalCardinality ==
  ASSUME NEW k \in Nat
  PROVE  Cardinality(1..k) = k
<1>1. 1 \in Int /\ k \in Int
  OBVIOUS
<1>2. Cardinality(1..k) = IF 1 > k THEN 0 ELSE k - 1 + 1
  BY <1>1, FS_Interval, Zenon
<1> QED BY <1>2

\* Appending a point adds its count.
LEMMA SumAppend ==
  ASSUME NEW points \in Seq(WindowPoint), NEW x \in WindowPoint
  PROVE  SumCounts(Append(points, x)) = SumCounts(points) + x.Count
<1> DEFINE n == Len(points)
           new == {n + 1} \X (1..x.Count)
<1>0. n \in Nat /\ x.Count \in Counts /\ x.Count \in Nat
  <2>1. n \in Nat
    OBVIOUS
  <2>2. x.Count \in Counts
    BY DEF WindowPoint
  <2> QED BY <2>1, <2>2, CountsFinite
<1>1. Units(Append(points, x)) = Units(points) \cup new
  <2>1. DOMAIN Append(points, x) = 1..(n + 1) /\ DOMAIN points = 1..n
    OBVIOUS
  <2>2. \A i \in 1..n : Append(points, x)[i] = points[i]
    OBVIOUS
  <2>3. Append(points, x)[n + 1] = x
    OBVIOUS
  <2>4. \A c \in 1..x.Count : c \in Counts
    BY <1>0, CountsFinite DEF Counts
  <2>5. \A u : u \in Units(Append(points, x)) <=> u \in Units(points) \cup new
    <3> SUFFICES ASSUME NEW i, NEW c
                 PROVE  <<i, c>> \in Units(Append(points, x))
                          <=> <<i, c>> \in Units(points) \cup new
      BY DEF Units
    <3>1. <<i, c>> \in Units(Append(points, x)) <=>
            i \in 1..(n + 1) /\ c \in Counts /\ c <= Append(points, x)[i].Count
      BY <2>1 DEF Units
    <3>2. <<i, c>> \in Units(points) <=>
            i \in 1..n /\ c \in Counts /\ c <= points[i].Count
      BY <2>1 DEF Units
    <3>3. <<i, c>> \in new <=> i = n + 1 /\ c \in Counts /\ c <= x.Count
      BY <2>4, <1>0, CountsFinite DEF Counts
    <3>4. CASE i \in 1..n
      BY <3>1, <3>2, <3>3, <3>4, <2>2, <1>0
    <3>5. CASE i = n + 1
      BY <3>1, <3>2, <3>3, <3>5, <2>3, <1>0
    <3>6. CASE i \notin 1..(n + 1)
      BY <3>1, <3>2, <3>3, <3>6, <1>0
    <3> QED BY <3>4, <3>5, <3>6, <1>0
  <2> QED BY <2>5
<1>2. Units(points) \cap new = {}
  BY <1>0 DEF Units
<1>3. IsFiniteSet(new) /\ Cardinality(new) = x.Count
  <2>1. IsFiniteSet({n + 1}) /\ Cardinality({n + 1}) = 1
    BY FS_Singleton
  <2>2. IsFiniteSet(1..x.Count)
    BY <1>0, FS_Interval
  <2>3. Cardinality(1..x.Count) = x.Count
    BY <1>0, IntervalCardinality
  <2>4. IsFiniteSet(new)
    BY <2>1, <2>2, FS_Product
  <2>5. Cardinality(new) = Cardinality({n + 1}) * Cardinality(1..x.Count)
    BY <2>1, <2>2, FS_Product, Zenon
  <2>6. Cardinality(new) = 1 * x.Count
    BY <2>1, <2>3, <2>5, Zenon
  <2> HIDE DEF new
  <2> QED BY <2>4, <2>6, <1>0
<1>4. Cardinality(Units(points) \cup new)
        = Cardinality(Units(points)) + Cardinality(new)
        - Cardinality(Units(points) \cap new)
  BY <1>3, UnitsFinite, FS_Union
<1>5. Cardinality(Units(points) \cap new) = 0
  BY <1>2, FS_EmptySet
<1> QED BY <1>1, <1>3, <1>4, <1>5, <1>0, UnitsFinite DEF SumCounts

\* Cutting a sequence in two splits its sum.
LEMMA SumSplit ==
  ASSUME NEW points \in Seq(WindowPoint), NEW k \in 1..(Len(points) + 1)
  PROVE  SumCounts(points) = SumCounts(SubSeq(points, 1, k - 1))
                             + SumCounts(SubSeq(points, k, Len(points)))
<1> DEFINE n == Len(points)
           front == SubSeq(points, 1, k - 1)
           back == SubSeq(points, k, n)
           rest == {u \in Units(points) : u[1] >= k}
           shift == [u \in rest |-> <<u[1] - k + 1, u[2]>>]
<1>0. n \in Nat /\ k \in Nat /\ k >= 1 /\ k <= n + 1
  OBVIOUS
<1>1. /\ front \in Seq(WindowPoint) /\ DOMAIN front = 1..(k - 1)
      /\ \A i \in 1..(k - 1) : front[i] = points[i]
  BY <1>0
<1>2. /\ back \in Seq(WindowPoint) /\ DOMAIN back = 1..(n - k + 1)
      /\ \A i \in 1..(n - k + 1) : back[i] = points[i + k - 1]
  BY <1>0
<1>3. DOMAIN points = 1..n
  OBVIOUS
<1>4. \A i, c : <<i, c>> \in Units(points) <=>
        i \in 1..n /\ c \in Counts /\ c <= points[i].Count
  BY <1>3 DEF Units
<1>5. \A i, c : <<i, c>> \in Units(front) <=>
        i \in 1..(k - 1) /\ c \in Counts /\ c <= points[i].Count
  BY <1>1 DEF Units
<1>6. \A i, c : <<i, c>> \in Units(back) <=>
        i \in 1..(n - k + 1) /\ c \in Counts /\ c <= points[i + k - 1].Count
  BY <1>2 DEF Units
<1>7. \A u \in rest : /\ u = <<u[1], u[2]>> /\ u[1] \in k..n
                      /\ u[2] \in Counts /\ u[2] <= points[u[1]].Count
  BY <1>3, <1>0 DEF Units
<1>8. Units(points) = Units(front) \cup rest
  <2>1. ASSUME NEW u \in Units(points)
        PROVE  u \in Units(front) \cup rest
    <3>1. u = <<u[1], u[2]>> /\ u[1] \in 1..n
      BY <1>3 DEF Units
    <3>2. CASE u[1] >= k
      BY <3>2
    <3>3. CASE ~(u[1] >= k)
      <4>1. u[1] \in 1..(k - 1)
        BY <3>1, <3>3, <1>0
      <4> QED BY <4>1, <3>1, <1>4, <1>5
    <3> QED BY <3>2, <3>3
  <2>2. ASSUME NEW u \in Units(front)
        PROVE  u \in Units(points)
    <3>1. u = <<u[1], u[2]>> /\ u[1] \in 1..(k - 1)
      BY <1>1 DEF Units
    <3>2. u[1] \in 1..n
      BY <3>1, <1>0
    <3> QED BY <3>1, <3>2, <1>4, <1>5
  <2> QED BY <2>1, <2>2
<1>9. Units(front) \cap rest = {}
  <2> SUFFICES ASSUME NEW u \in Units(front), u[1] >= k PROVE FALSE
    OBVIOUS
  <2>1. u[1] \in 1..(k - 1)
    BY <1>1 DEF Units
  <2> QED BY <2>1, <1>0
<1>10. shift \in Bijection(rest, Units(back))
  <2>1. ASSUME NEW u \in rest
        PROVE  shift[u] \in Units(back)
    <3>1. u[1] \in Nat /\ u[1] - k + 1 \in 1..(n - k + 1)
      BY <1>7, <1>0
    <3>2. (u[1] - k + 1) + k - 1 = u[1]
      BY <3>1, <1>0
    <3>3. <<u[1] - k + 1, u[2]>> \in Units(back)
      BY <3>1, <3>2, <1>6, <1>7
    <3> QED BY <3>3
  <2>2. ASSUME NEW u \in rest, NEW v \in rest, shift[u] = shift[v]
        PROVE  u = v
    <3>1. u[1] - k + 1 = v[1] - k + 1 /\ u[2] = v[2]
      BY <2>2
    <3>2. u[1] = v[1]
      BY <3>1, <1>7, <1>0
    <3> QED BY <3>1, <3>2, <1>7
  <2>3. ASSUME NEW w \in Units(back)
        PROVE  \E u \in rest : shift[u] = w
    <3>1. w = <<w[1], w[2]>> /\ w[1] \in 1..(n - k + 1) /\ w[2] \in Counts
          /\ w[2] <= points[w[1] + k - 1].Count
      BY <1>2, <1>6 DEF Units
    <3> DEFINE i == w[1] + k - 1
               u == <<i, w[2]>>
    <3>2. i \in 1..n /\ i >= k /\ i - k + 1 = w[1]
      BY <3>1, <1>0
    <3>3. u \in rest
      BY <3>1, <3>2, <1>4
    <3>4. shift[u] = w
      BY <3>1, <3>2, <3>3
    <3> QED BY <3>3, <3>4
  <2>4. shift \in [rest -> Units(back)]
    BY <2>1
  <2> QED BY <2>2, <2>3, <2>4 DEF Bijection, Injection, Surjection, IsInjective
<1>11. IsFiniteSet(rest)
  BY UnitsFinite, FS_Subset, rest \subseteq Units(points)
<1>12. Cardinality(Units(back)) = Cardinality(rest)
  BY <1>10, <1>11, FS_Bijection DEF ExistsBijection
<1>13. Cardinality(Units(front) \cup rest)
         = Cardinality(Units(front)) + Cardinality(rest)
           - Cardinality(Units(front) \cap rest)
  BY <1>1, <1>11, UnitsFinite, FS_Union
<1>14. Cardinality(Units(front) \cap rest) = 0
  BY <1>9, FS_EmptySet
<1>15. Cardinality(rest) \in Nat /\ Cardinality(Units(front)) \in Nat
  BY <1>1, <1>11, UnitsFinite, FS_CardinalityType
<1>16. Cardinality(Units(points))
         = Cardinality(Units(front)) + Cardinality(Units(back))
  <2> HIDE DEF front, back, rest
  <2> QED BY <1>8, <1>12, <1>13, <1>14, <1>15
<1> QED BY <1>16 DEF SumCounts

\* A set of numbers that is not empty has a smallest one.
LEMMA Smallest ==
  ASSUME NEW T \in SUBSET Nat, T # {}
  PROVE  \E x \in T : \A y \in T : x <= y
<1> DEFINE R == OpToRel(<, Nat)
<1>1. \E x \in T : \A y \in T : <<y, x>> \notin R
  <2> HIDE DEF R
  <2>1. IsWellFoundedOn(R, Nat)
    BY NatLessThanWellFounded DEF R
  <2> QED BY <2>1, WFMin
<1>2. \A x, y \in Nat : y < x => <<y, x>> \in R
  BY DEF OpToRel
<1> HIDE DEF R
<1>3. PICK x \in T : \A y \in T : <<y, x>> \notin R
  BY <1>1
<1>4. \A y \in T : ~(y < x)
  BY <1>2, <1>3
<1> QED BY <1>4

\* The first point kept is the first that is not older than the cutoff.
LEMMA FirstKeptIsFirst ==
  ASSUME NEW points \in Seq(WindowPoint), NEW cutoff \in Int
  PROVE  LET k == FirstKept(points, cutoff)
         IN  /\ k \in 1..(Len(points) + 1)
             /\ k <= Len(points) => points[k].At >= cutoff
             /\ \A i \in 1..(k - 1) : points[i].At < cutoff
<1> DEFINE n == Len(points)
           T == {k \in 1..(n + 1) : k <= n => points[k].At >= cutoff}
           First(k) == /\ k <= n => points[k].At >= cutoff
                       /\ \A i \in 1..(k - 1) : points[i].At < cutoff
<1>0. n \in Nat
  OBVIOUS
<1>1. \A i \in 1..n : points[i].At \in Nat
  <2>1. ASSUME NEW i \in 1..n
        PROVE  points[i].At \in Nat
    <3>1. points[i] \in WindowPoint
      OBVIOUS
    <3> QED BY <3>1 DEF WindowPoint
  <2> QED BY <2>1
<1>2. T \in SUBSET Nat /\ n + 1 \in T
  BY <1>0
<1>3. PICK k \in T : \A y \in T : k <= y
  <2> HIDE DEF T
  <2> QED BY <1>2, Smallest
<1>4. \A i \in 1..(k - 1) : points[i].At < cutoff
  <2> SUFFICES ASSUME NEW i \in 1..(k - 1) PROVE points[i].At < cutoff
    OBVIOUS
  <2>1. i \in 1..n /\ i < k
    BY <1>0, <1>3
  <2>2. i \notin T
    BY <2>1, <1>3, <1>0
  <2> QED BY <2>1, <2>2, <1>1, <1>0
<1>5. \E x \in 1..(n + 1) : First(x)
  BY <1>3, <1>4
<1>6. FirstKept(points, cutoff) = CHOOSE x \in 1..(n + 1) : First(x)
  BY DEF FirstKept
<1>7. FirstKept(points, cutoff) \in 1..(n + 1) /\ First(FirstKept(points, cutoff))
  <2> HIDE DEF First
  <2> QED BY <1>5, <1>6
<1> QED BY <1>7

\* pruneWindow keeps a suffix that begins inside the window and takes exactly
\* the counts of the dropped points off a sum that was right.
LEMMA PruneKeepsSuffix ==
  ASSUME NEW points \in Seq(WindowPoint), NEW t \in Int, NEW window \in Int
  PROVE  LET w == pruneWindow(points, SumCounts(points), t, window)
         IN  /\ w.points \in Seq(WindowPoint)
             /\ w.sum = SumCounts(w.points)
             /\ \E k \in 1..(Len(points) + 1) :
                  /\ w.points = SubSeq(points, k, Len(points))
                  /\ k <= Len(points) => points[k].At >= t - window
                  /\ \A i \in 1..(k - 1) : points[i].At < t - window
<1> DEFINE k == FirstKept(points, t - window)
           n == Len(points)
           front == SubSeq(points, 1, k - 1)
           back == SubSeq(points, k, n)
<1>1. /\ k \in 1..(n + 1)
      /\ k <= n => points[k].At >= t - window
      /\ \A i \in 1..(k - 1) : points[i].At < t - window
  <2>1. t - window \in Int
    OBVIOUS
  <2> QED BY <2>1, FirstKeptIsFirst, Zenon
<1>2. pruneWindow(points, SumCounts(points), t, window)
        = [points |-> back, sum |-> SumCounts(points) - SumCounts(front)]
  BY DEF pruneWindow
<1> HIDE DEF k
<1>3. front \in Seq(WindowPoint) /\ back \in Seq(WindowPoint)
  BY <1>1
<1>4. SumCounts(points) = SumCounts(front) + SumCounts(back)
  BY <1>1, SumSplit
<1>5. SumCounts(front) \in Nat /\ SumCounts(back) \in Nat
  BY <1>3, UnitsFinite
<1>6. SumCounts(points) - SumCounts(front) = SumCounts(back)
  BY <1>4, <1>5
<1> DEFINE w == pruneWindow(points, SumCounts(points), t, window)
<1>7. w.points = back /\ w.sum = SumCounts(back)
  <2> DEFINE rest == SumCounts(points) - SumCounts(front)
             left == SumCounts(back)
  <2>1. w = [points |-> back, sum |-> rest] /\ rest = left
    BY <1>2, <1>6, Zenon
  <2> HIDE DEF w, rest, left, back
  <2>2. w.points = back /\ w.sum = left
    BY <2>1
  <2> QED BY <2>2 DEF left
<1> HIDE DEF w, front
<1>8. \E i \in 1..(n + 1) :
        /\ w.points = SubSeq(points, i, n)
        /\ i <= n => points[i].At >= t - window
        /\ \A j \in 1..(i - 1) : points[j].At < t - window
  BY <1>1, <1>7
<1> HIDE DEF back
<1>9. w.points \in Seq(WindowPoint) /\ w.sum = SumCounts(w.points)
  BY <1>3, <1>7
<1> QED BY <1>8, <1>9 DEF w

-----------------------------------------------------------------------------
(* The inductive invariant.                                                *)

\* StampsFit for the rule r.
Fit(r, s) ==
  /\ IsActive(s) <=> s.RaisedAt # Nil
  /\ s.CurrentState = "pending" <=> s.PendingSince # Nil
  /\ s.HysteresisSince # Nil =>
       /\ r.AlertType \notin CountTypes /\ IsActive(s) /\ r.HysteresisSec > 0

\* No timestamp lies in the future, and an alert is pending since its raise.
Past(s, now) ==
  /\ s.LastSeen <= now
  /\ s.RaisedAt <= now
  /\ s.HysteresisSince <= now
  /\ s.CurrentState = "pending" => s.PendingSince = s.RaisedAt

\* The counters and the phase agree.
Reached(r, s) ==
  /\ r.AlertType = "count_total" => (IsActive(s) <=> s.CountTotal >= r.N)
  /\ r.AlertType = "count_window" => (s.CountWindowSum >= r.N => IsActive(s))

\* The points are in order but for the lag, and the cached sum is theirs.
WindowOK(s, now) ==
  /\ s.CountWindowSum = SumCounts(s.CountWindow)
  /\ \A i \in DOMAIN s.CountWindow : s.CountWindow[i].At <= now
  /\ \A i, j \in DOMAIN s.CountWindow :
       i < j => s.CountWindow[j].At >= s.CountWindow[i].At - MaxLag

\* Only a count_window rule collects points.
Windowed(r, s) == r.AlertType # "count_window" => s.CountWindow = <<>>

\* A recovery timer was not started by something from before the raise.
RecoveryAfterRaise(s) ==
  s.HysteresisSince # Nil => s.HysteresisSince >= s.RaisedAt - MaxLag

\* A firing alert has served its delay.
Served(r, s, now) ==
  s.CurrentState = "firing" /\ r.PendingEnabled =>
    now - s.RaisedAt >= r.DelaySec

Steady(r, s, now) ==
  /\ s \in RuntimeState
  /\ Fit(r, s)
  /\ Past(s, now)
  /\ WindowOK(s, now)
  /\ Windowed(r, s)
  /\ RecoveryAfterRaise(s)
  /\ Served(r, s, now)

\* No retained point is older than the window by more than the lag.
Recent(r, s) ==
  \A i \in DOMAIN s.CountWindow :
    s.CountWindow[i].At >= s.LastSeen - r.WindowSec - MaxLag

\* RecoveryWitness for one state.
Witness(r, s, last) ==
  r.AlertType \notin CountTypes /\ IsActive(s) =>
    \/ s.HysteresisSince # Nil /\ s.LastSeen >= s.RaisedAt - MaxLag
    \/ s.HysteresisSince = Nil /\ last - s.LastSeen >= r.MissingSec

Good(r, s, now, last) ==
  /\ Steady(r, s, now)
  /\ Reached(r, s)
  /\ s.Initialized
  /\ s.LastSeen # Nil
  /\ Recent(r, s)
  /\ Witness(r, s, last)

-----------------------------------------------------------------------------
(* The rules.                                                              *)

\* What the loader's validation gives the engine to rely on.
LEMMA RuleFacts ==
  ASSUME NEW r \in Rules
  PROVE  /\ r.AlertType \in CountTypes \cup {"missing_heartbeat"}
         /\ r.N \in Nat /\ r.WindowSec \in Nat /\ r.MissingSec \in Nat
         /\ r.SilenceSec \in Nat /\ r.HysteresisSec \in Nat
         /\ r.PendingEnabled \in BOOLEAN /\ r.DelaySec \in Nat
         /\ r.AlertType \in CountTypes => r.N >= 1
         /\ r.AlertType \notin CountTypes => r.MissingSec > 0
<1>1. r \in RuleConfig /\ ValidRule(r)
  BY RulesAssumption
<1>2. /\ r.AlertType \in CountTypes \cup {"missing_heartbeat"}
      /\ r.N \in Nat /\ r.WindowSec \in Nat /\ r.MissingSec \in Nat
      /\ r.SilenceSec \in Nat /\ r.HysteresisSec \in Nat
      /\ r.PendingEnabled \in BOOLEAN /\ r.DelaySec \in Nat
  BY <1>1 DEF RuleConfig
<1>3. r.AlertType \in CountTypes => r.N >= 1
  BY <1>1 DEF ValidRule
<1>4. r.AlertType \notin CountTypes => r.MissingSec > 0
  BY <1>1, <1>2 DEF ValidRule
<1> QED BY <1>2, <1>3, <1>4

\* The bounds on data are natural numbers.
LEMMA BoundFacts == MaxLag \in Nat /\ IdleTTL \in Nat /\ MaxStates \in Nat
BY BoundsAssumption

\* The fields of a runtime state.
Fields(s) ==
  /\ s.Initialized \in BOOLEAN
  /\ s.LastSeen \in Int /\ s.LastSeen >= -1
  /\ s.RaisedAt \in Int /\ s.RaisedAt >= -1
  /\ s.PendingSince \in Int /\ s.PendingSince >= -1
  /\ s.HysteresisSince \in Int /\ s.HysteresisSince >= -1
  /\ s.CurrentState \in {Inactive, "pending", "firing"}
  /\ s.CountTotal \in Nat
  /\ s.CountWindow \in Seq(WindowPoint)
  /\ s.CountWindowSum \in Nat

\* An entry of the engine has the fields the evaluations work on.
LEMMA StateFields ==
  ASSUME NEW s \in RuntimeState
  PROVE  Fields(s)
<1>1. Stamp \subseteq Int /\ \A x \in Stamp : x >= -1
  BY DEF Stamp, Nil
<1>2. /\ s.Initialized \in BOOLEAN
      /\ s.LastSeen \in Stamp /\ s.RaisedAt \in Stamp
      /\ s.PendingSince \in Stamp /\ s.HysteresisSince \in Stamp
      /\ s.CurrentState \in {Inactive, "pending", "firing"}
      /\ s.CountTotal \in Nat
      /\ s.CountWindow \in Seq(WindowPoint)
      /\ s.CountWindowSum \in Nat
  BY DEF RuntimeState
<1> QED BY <1>1, <1>2 DEF Fields

\* The points of a window have a time and a count.
LEMMA PointFields ==
  ASSUME NEW points \in Seq(WindowPoint), NEW i \in DOMAIN points
  PROVE  points[i].At \in Nat /\ points[i].Count \in Counts
<1>1. points[i] \in WindowPoint
  OBVIOUS
<1> QED BY <1>1 DEF WindowPoint

-----------------------------------------------------------------------------
(* States that do not change while time goes on.                           *)

\* Time passing and later ticks disturb nothing.
LEMMA GoodLater ==
  ASSUME NEW r \in Rules, NEW s,
         NEW now \in Nat, NEW later \in Nat, now <= later,
         NEW last \in Nat, NEW last2 \in Nat, last <= last2,
         Good(r, s, now, last)
  PROVE  Good(r, s, later, last2)
<1>0. Fields(s)
  BY StateFields DEF Good, Steady
<1>1. Past(s, later)
  BY <1>0 DEF Good, Steady, Past, Fields
<1>2. WindowOK(s, later)
  <2>1. WindowOK(s, now)
    BY DEF Good, Steady
  <2>2. \A i \in DOMAIN s.CountWindow : s.CountWindow[i].At <= later
    BY <1>0, <2>1, PointFields DEF WindowOK, Fields
  <2> QED BY <2>1, <2>2 DEF WindowOK
<1>3. Served(r, s, later)
  BY <1>0, RuleFacts DEF Good, Steady, Served, Fields
<1>4. Witness(r, s, last2)
  BY <1>0, RuleFacts DEF Good, Witness, Fields
<1> QED BY <1>1, <1>2, <1>3, <1>4 DEF Good, Steady

-----------------------------------------------------------------------------
(* The parts of an evaluation.                                             *)

\* No phase is another.
LEMMA PhasesDiffer == Inactive # "pending" /\ Inactive # "firing"
BY Zenon DEF Inactive

\* ensureState creates a steady state, and its counters have not raised it.
LEMMA FreshSteady ==
  ASSUME NEW r \in Rules, NEW now \in Nat, NEW t \in 0..now
  PROVE  LET s == [FreshState EXCEPT !.LastSeen = t]
         IN  Steady(r, s, now) /\ Reached(r, s)
<1> DEFINE s == [FreshState EXCEPT !.LastSeen = t]
<1>1. /\ s.Initialized = FALSE /\ s.LastSeen = t /\ s.RaisedAt = Nil
      /\ s.PendingSince = Nil /\ s.HysteresisSince = Nil
      /\ s.CurrentState = Inactive /\ s.CountTotal = 0
      /\ s.CountWindow = <<>> /\ s.CountWindowSum = 0
  BY DEF FreshState
<1>2. s \in RuntimeState
  <2>1. Nil \in Stamp /\ t \in Stamp
    BY DEF Stamp
  <2>2. <<>> \in Seq(WindowPoint)
    OBVIOUS
  <2> QED BY <2>1, <2>2 DEF RuntimeState, FreshState
<1> HIDE DEF s
<1>3. ~IsActive(s)
  BY <1>1, PhasesDiffer DEF IsActive
<1>4. Fit(r, s)
  BY <1>1, <1>3, PhasesDiffer DEF Fit
<1>5. Past(s, now)
  BY <1>1, PhasesDiffer DEF Past, Nil
<1>6. WindowOK(s, now)
  <2>1. DOMAIN s.CountWindow = {}
    BY <1>1
  <2> QED BY <1>1, <2>1, SumEmpty DEF WindowOK
<1>7. RecoveryAfterRaise(s) /\ Served(r, s, now) /\ Windowed(r, s)
  BY <1>1, PhasesDiffer DEF RecoveryAfterRaise, Served, Windowed
<1>8. Reached(r, s)
  BY <1>1, <1>3, RuleFacts DEF Reached, CountTypes
<1> QED BY <1>2, <1>4, <1>5, <1>6, <1>7, <1>8 DEF Steady, s

\* Writing LastSeen first, as ProcessEvent does, keeps a steady state steady.
LEMMA SeenSteady ==
  ASSUME NEW r \in Rules, NEW s, NEW now \in Nat, NEW t \in 0..now,
         Steady(r, s, now)
  PROVE  LET s1 == [s EXCEPT !.LastSeen = t]
         IN  /\ Steady(r, s1, now)
             /\ Reached(r, s) => Reached(r, s1)
             /\ s1.LastSeen = t
<1> DEFINE s1 == [s EXCEPT !.LastSeen = t]
<1>1. s \in RuntimeState
  BY DEF Steady
<1>2. /\ s1.Initialized = s.Initialized /\ s1.LastSeen = t
      /\ s1.RaisedAt = s.RaisedAt /\ s1.PendingSince = s.PendingSince
      /\ s1.HysteresisSince = s.HysteresisSince
      /\ s1.CurrentState = s.CurrentState /\ s1.CountTotal = s.CountTotal
      /\ s1.CountWindow = s.CountWindow
      /\ s1.CountWindowSum = s.CountWindowSum
  BY <1>1 DEF RuntimeState
<1>3. s1 \in RuntimeState
  BY <1>1 DEF RuntimeState, Stamp
<1> HIDE DEF s1
<1>4. IsActive(s1) = IsActive(s)
  BY <1>2 DEF IsActive
<1>5. Fit(r, s1) /\ (Reached(r, s) => Reached(r, s1))
  BY <1>2, <1>4 DEF Steady, Fit, Reached
<1>6. Past(s1, now) /\ WindowOK(s1, now) /\ Windowed(r, s1)
  BY <1>2 DEF Steady, Past, WindowOK, Windowed
<1>7. RecoveryAfterRaise(s1) /\ Served(r, s1, now)
  BY <1>2 DEF Steady, RecoveryAfterRaise, Served
<1> QED BY <1>2, <1>3, <1>5, <1>6, <1>7 DEF Steady, s1

\* resetResolvedState forgets everything but that, and when, the alert was
\* last heard of.
LEMMA ResetGood ==
  ASSUME NEW r \in Rules, NEW s, NEW now \in Nat, NEW last \in Nat,
         Steady(r, s, now), s.Initialized, s.LastSeen # Nil
  PROVE  Good(r, resetResolvedState(s), now, last)
<1> DEFINE s1 == resetResolvedState(s)
<1>1. s \in RuntimeState
  BY DEF Steady
<1>2. /\ s1.Initialized = s.Initialized /\ s1.LastSeen = s.LastSeen
      /\ s1.RaisedAt = Nil /\ s1.PendingSince = Nil
      /\ s1.HysteresisSince = Nil
      /\ s1.CurrentState = Inactive /\ s1.CountTotal = 0
      /\ s1.CountWindow = <<>> /\ s1.CountWindowSum = 0
  BY <1>1 DEF RuntimeState, resetResolvedState
<1>3. s1 \in RuntimeState
  <2>1. Nil \in Stamp /\ <<>> \in Seq(WindowPoint)
    BY DEF Stamp
  <2> QED BY <1>1, <2>1 DEF RuntimeState, resetResolvedState
<1> HIDE DEF s1
<1>4. ~IsActive(s1)
  BY <1>2, PhasesDiffer DEF IsActive
<1>5. Fit(r, s1)
  BY <1>2, <1>4, PhasesDiffer DEF Fit
<1>6. Past(s1, now)
  BY <1>2, PhasesDiffer DEF Steady, Past, Nil
<1>7. DOMAIN s1.CountWindow = {}
  BY <1>2
<1>8. WindowOK(s1, now) /\ Recent(r, s1) /\ Windowed(r, s1)
  BY <1>2, <1>7, SumEmpty DEF WindowOK, Recent, Windowed
<1>9. RecoveryAfterRaise(s1) /\ Served(r, s1, now) /\ Witness(r, s1, last)
  BY <1>2, <1>4, PhasesDiffer DEF RecoveryAfterRaise, Served, Witness
<1>10. Reached(r, s1)
  BY <1>2, <1>4, RuleFacts DEF Reached, CountTypes
<1> QED BY <1>2, <1>3, <1>5, <1>6, <1>8, <1>9, <1>10 DEF Good, Steady, s1

\* Nothing but the phase and the phase's timestamps differs.
SameData(s, s1) ==
  /\ s1.Initialized = s.Initialized /\ s1.LastSeen = s.LastSeen
  /\ s1.CountTotal = s.CountTotal
  /\ s1.CountWindow = s.CountWindow /\ s1.CountWindowSum = s.CountWindowSum

\* A condition that holds leaves the alert active, with no recovery running
\* and the counters as they are.
LEMMA ApplyActiveSteady ==
  ASSUME NEW r \in Rules, NEW s, NEW now \in Nat, NEW t \in 0..now,
         Steady(r, s, now)
  PROVE  LET res == applyActive(r, s, t)
         IN  /\ Steady(r, res.state, now)
             /\ IsActive(res.state)
             /\ res.state.HysteresisSince = Nil
             /\ SameData(s, res.state)
             /\ res.decision \in Decision
<1> DEFINE res == applyActive(r, s, t)
           s1 == res.state
           phase == IF r.PendingEnabled THEN "pending" ELSE "firing"
<1>0. s \in RuntimeState /\ Fields(s) /\ t \in Nat /\ t <= now
  BY StateFields DEF Steady
<1>n. Nil \in Stamp /\ t \in Stamp /\ t # Nil
  BY <1>0 DEF Stamp, Nil
<1>1. CASE s.CurrentState = Inactive
  <2>1. /\ s1 = Raise(s, t, phase)
        /\ res.decision = Decide(phase, TRUE)
    BY <1>1, PhasesDiffer DEF applyActive
  <2>2. /\ SameData(s, s1) /\ s1.CurrentState = phase /\ s1.RaisedAt = t
        /\ s1.HysteresisSince = Nil
        /\ s1.PendingSince = IF phase = "pending" THEN t ELSE Nil
        /\ s1 \in RuntimeState
    BY <1>0, <1>n, <2>1, ZenonT(30) DEF Raise, RuntimeState, SameData
  <2>3. res.decision \in Decision
    BY <2>1 DEF Decide, Decision
  <2> HIDE DEF res
  <2>4. IsActive(s1) /\ Fit(r, s1)
    BY <2>2, <1>n DEF IsActive, Fit
  <2>5. Past(s1, now)
    BY <2>2, <1>0 DEF Steady, Past, SameData, Nil
  <2>6. WindowOK(s1, now) /\ Windowed(r, s1)
    BY <2>2 DEF Steady, WindowOK, Windowed, SameData
  <2>7. RecoveryAfterRaise(s1) /\ Served(r, s1, now)
    BY <2>2 DEF RecoveryAfterRaise, Served
  <2> QED BY <2>2, <2>3, <2>4, <2>5, <2>6, <2>7 DEF Steady, res
<1>2. CASE s.CurrentState = "pending" /\ DelayServed(r, s, t)
  <2>1. /\ s1 = [s EXCEPT !.HysteresisSince = Nil, !.PendingSince = Nil,
                          !.CurrentState = "firing"]
        /\ res.decision = Decide("firing", TRUE)
    BY <1>2, PhasesDiffer DEF applyActive
  <2>2. /\ SameData(s, s1) /\ s1.CurrentState = "firing"
        /\ s1.RaisedAt = s.RaisedAt
        /\ s1.HysteresisSince = Nil /\ s1.PendingSince = Nil
        /\ s1 \in RuntimeState
    BY <1>0, <1>n, <2>1 DEF RuntimeState, SameData
  <2>3. res.decision \in Decision
    BY <2>1 DEF Decide, Decision
  <2> HIDE DEF res
  <2>4. s.RaisedAt # Nil /\ s.PendingSince = s.RaisedAt
    BY <1>2 DEF Steady, Fit, Past, IsActive
  <2>5. IsActive(s1) /\ Fit(r, s1)
    BY <2>2, <2>4 DEF IsActive, Fit
  <2>6. Past(s1, now)
    BY <2>2, <1>0 DEF Steady, Past, SameData, Nil
  <2>7. WindowOK(s1, now) /\ Windowed(r, s1)
    BY <2>2 DEF Steady, WindowOK, Windowed, SameData
  <2>8. t - s.RaisedAt >= r.DelaySec
    BY <1>2, <2>4 DEF DelayServed
  <2>9. Served(r, s1, now)
    BY <2>2, <2>8, <1>0, RuleFacts DEF Served, Fields
  <2>10. RecoveryAfterRaise(s1)
    BY <2>2 DEF RecoveryAfterRaise
  <2> QED BY <2>2, <2>3, <2>5, <2>6, <2>7, <2>9, <2>10 DEF Steady, res
<1>3. CASE /\ s.CurrentState # Inactive
           /\ ~(s.CurrentState = "pending" /\ DelayServed(r, s, t))
  <2>1. /\ s1 = [s EXCEPT !.HysteresisSince = Nil]
        /\ res.decision = Decide(s.CurrentState, FALSE)
    BY <1>3 DEF applyActive
  <2>2. /\ SameData(s, s1) /\ s1.CurrentState = s.CurrentState
        /\ s1.RaisedAt = s.RaisedAt /\ s1.PendingSince = s.PendingSince
        /\ s1.HysteresisSince = Nil
        /\ s1 \in RuntimeState
    BY <1>0, <1>n, <2>1 DEF RuntimeState, SameData
  <2>3. res.decision \in Decision
    BY <1>0, <2>1 DEF Decide, Decision, Fields
  <2> HIDE DEF res
  <2>4. IsActive(s) /\ IsActive(s1)
    BY <1>3, <1>0, <2>2 DEF IsActive, Fields
  <2>5. Fit(r, s1)
    BY <2>2, <2>4 DEF Steady, Fit
  <2>6. Past(s1, now)
    BY <2>2, <1>0 DEF Steady, Past, SameData, Nil
  <2>7. WindowOK(s1, now) /\ Windowed(r, s1)
    BY <2>2 DEF Steady, WindowOK, Windowed, SameData
  <2>8. RecoveryAfterRaise(s1) /\ Served(r, s1, now)
    BY <2>2 DEF Steady, RecoveryAfterRaise, Served
  <2> QED BY <2>2, <2>3, <2>4, <2>5, <2>6, <2>7, <2>8 DEF Steady, res
<1> QED BY <1>1, <1>2, <1>3

\* Changing only the counters keeps a steady state steady.
LEMMA RecountSteady ==
  ASSUME NEW r \in Rules, NEW s, NEW now \in Nat, Steady(r, s, now),
         NEW s1 \in RuntimeState,
         s1.LastSeen = s.LastSeen, s1.RaisedAt = s.RaisedAt,
         s1.PendingSince = s.PendingSince,
         s1.HysteresisSince = s.HysteresisSince,
         s1.CurrentState = s.CurrentState,
         WindowOK(s1, now), Windowed(r, s1)
  PROVE  Steady(r, s1, now) /\ (IsActive(s1) <=> IsActive(s))
<1>1. IsActive(s1) <=> IsActive(s)
  BY DEF IsActive
<1>2. Fit(r, s1) /\ Past(s1, now)
  BY <1>1 DEF Steady, Fit, Past
<1>3. RecoveryAfterRaise(s1) /\ Served(r, s1, now)
  BY DEF Steady, RecoveryAfterRaise, Served
<1> QED BY <1>1, <1>2, <1>3 DEF Steady

\* applyActiveCondition, called with the right condition, ends in a good state.
LEMMA ConditionGood ==
  ASSUME NEW r \in Rules, r.AlertType \in CountTypes,
         NEW s, NEW now \in Nat, NEW t \in 0..now, NEW last \in Nat,
         Steady(r, s, now), s.Initialized, s.LastSeen # Nil, Recent(r, s),
         NEW active \in BOOLEAN,
         active /\ r.AlertType = "count_total" => s.CountTotal >= r.N,
         ~active => Reached(r, s)
  PROVE  LET res == applyActiveCondition(r, s, t, active)
         IN  Good(r, res.state, now, last) /\ res.decision \in Decision
<1> DEFINE res == applyActiveCondition(r, s, t, active)
<1>1. CASE active
  <2> DEFINE act == applyActive(r, s, t)
  <2>1. /\ Steady(r, act.state, now) /\ IsActive(act.state)
        /\ SameData(s, act.state) /\ act.decision \in Decision
    BY ApplyActiveSteady
  <2>2. res = act
    BY <1>1 DEF applyActiveCondition
  <2> HIDE DEF act, res
  <2>3. Reached(r, act.state)
    BY <1>1, <2>1 DEF Reached, SameData
  <2>4. Recent(r, act.state)
    BY <2>1 DEF Recent, SameData
  <2>5. Witness(r, act.state, last)
    BY DEF Witness
  <2>6. act.state.Initialized /\ act.state.LastSeen # Nil
    BY <2>1 DEF SameData
  <2> QED BY <2>1, <2>2, <2>3, <2>4, <2>5, <2>6 DEF Good, res
<1>2. CASE ~active
  <2>1. res.state = s /\ res.decision = NoDecision
    BY <1>2 DEF applyActiveCondition
  <2>2. NoDecision \in Decision
    BY DEF NoDecision, Decide, Decision
  <2>3. Good(r, s, now, last)
    BY <1>2 DEF Good, Witness
  <2> QED BY <2>1, <2>2, <2>3
<1> QED BY <1>1, <1>2

-----------------------------------------------------------------------------
(* ProcessEvent.                                                           *)

\* A count_total event.
LEMMA CountTotalGood ==
  ASSUME NEW r \in Rules, r.AlertType = "count_total",
         NEW s, NEW now \in Nat, NEW t \in 0..now, NEW last \in Nat,
         Steady(r, s, now), Reached(r, s), s.LastSeen = t,
         NEW cnt \in Counts
  PROVE  LET res == CountTotalEvent(r, s, cnt, t)
         IN  Good(r, res.state, now, last) /\ res.decision \in Decision
<1> DEFINE s1 == [s EXCEPT !.Initialized = TRUE, !.CountTotal = @ + cnt]
           active == s1.CountTotal >= r.N
<1>1. s \in RuntimeState /\ Fields(s) /\ cnt \in Nat /\ r.N \in Nat
  BY StateFields, CountsFinite, RuleFacts DEF Steady
<1>2. /\ s1.Initialized /\ s1.LastSeen = s.LastSeen
      /\ s1.RaisedAt = s.RaisedAt /\ s1.PendingSince = s.PendingSince
      /\ s1.HysteresisSince = s.HysteresisSince
      /\ s1.CurrentState = s.CurrentState
      /\ s1.CountTotal = s.CountTotal + cnt
      /\ s1.CountWindow = s.CountWindow
      /\ s1.CountWindowSum = s.CountWindowSum
  BY <1>1 DEF RuntimeState
<1>3. s1 \in RuntimeState
  <2>1. s.CountTotal + cnt \in Nat
    BY <1>1 DEF Fields
  <2> QED BY <1>1, <2>1 DEF RuntimeState
<1>4. CountTotalEvent(r, s, cnt, t) = applyActiveCondition(r, s1, t, active)
  BY DEF CountTotalEvent
<1> HIDE DEF s1
<1>5. s1.CountWindow = <<>>
  BY <1>2 DEF Steady, Windowed
<1>6. WindowOK(s1, now) /\ Windowed(r, s1)
  BY <1>2 DEF Steady, WindowOK, Windowed
<1>7. Steady(r, s1, now) /\ (IsActive(s1) <=> IsActive(s))
  BY <1>2, <1>3, <1>6, RecountSteady
<1>8. Recent(r, s1)
  <2>1. DOMAIN s1.CountWindow = {}
    BY <1>5
  <2> QED BY <2>1 DEF Recent
<1>9. ~active => Reached(r, s1)
  <2>1. IsActive(s) => s.CountTotal >= r.N
    BY DEF Reached
  <2>2. s.CountTotal \in Nat
    BY <1>1 DEF Fields
  <2>3. IsActive(s) => active
    BY <2>1, <2>2, <1>1, <1>2
  <2> QED BY <2>3, <1>7 DEF Reached
<1>10. s1.Initialized /\ s1.LastSeen # Nil
  BY <1>2 DEF Nil
<1> HIDE DEF active
<1>11. active /\ r.AlertType = "count_total" => s1.CountTotal >= r.N
  BY DEF active
<1>12. active \in BOOLEAN /\ r.AlertType \in CountTypes
  BY DEF active, CountTypes
<1> QED BY <1>4, <1>7, <1>8, <1>9, <1>10, <1>11, <1>12, ConditionGood

\* The window after an event: the new point is appended, the front pruned, and
\* what is left is in order, recent and summed up by the cached sum.
LEMMA WindowAfterEvent ==
  ASSUME NEW points \in Seq(WindowPoint), NEW now \in Nat, NEW window \in Nat,
         \A i \in DOMAIN points : points[i].At <= now,
         \A i, j \in DOMAIN points :
           i < j => points[j].At >= points[i].At - MaxLag,
         NEW t \in 0..now, t >= now - MaxLag, NEW cnt \in Counts
  PROVE  LET w == pruneWindow(Append(points, [At |-> t, Count |-> cnt]),
                              SumCounts(points) + cnt, t, window)
         IN  /\ w.points \in Seq(WindowPoint)
             /\ w.sum = SumCounts(w.points)
             /\ \A i \in DOMAIN w.points :
                  /\ w.points[i].At <= now
                  /\ w.points[i].At >= t - window - MaxLag
             /\ \A i, j \in DOMAIN w.points :
                  i < j => w.points[j].At >= w.points[i].At - MaxLag
<1> DEFINE x == [At |-> t, Count |-> cnt]
           all == Append(points, x)
           n == Len(all)
           w == pruneWindow(all, SumCounts(points) + cnt, t, window)
<1>1. x \in WindowPoint /\ x.Count = cnt /\ x.At = t /\ t \in Nat
  BY DEF WindowPoint
<1>2. all \in Seq(WindowPoint)
  BY <1>1
<1>3. n = Len(points) + 1 /\ DOMAIN all = 1..n /\ DOMAIN points = 1..(n - 1)
      /\ n \in Nat
  OBVIOUS
<1>4. /\ \A i \in 1..(n - 1) : all[i] = points[i]
      /\ all[n] = x
  BY <1>3
<1>5. SumCounts(all) = SumCounts(points) + cnt
  BY <1>1, SumAppend
<1> HIDE DEF x, all, n
<1>6. MaxLag \in Nat
  BY BoundFacts
<1>7. \A i \in 1..n : all[i].At \in Nat /\ all[i].At <= now
  <2>1. \A i \in 1..n : all[i].At \in Nat
    BY <1>2, <1>3, PointFields
  <2>2. ASSUME NEW i \in 1..n PROVE all[i].At <= now
    <3>1. CASE i = n
      BY <3>1, <1>1, <1>4
    <3>2. CASE i # n
      <4>1. i \in 1..(n - 1)
        BY <3>2, <1>3
      <4> QED BY <4>1, <1>3, <1>4
    <3> QED BY <3>1, <3>2
  <2> QED BY <2>1, <2>2
<1>8. \A i, j \in 1..n : i < j => all[j].At >= all[i].At - MaxLag
  <2> SUFFICES ASSUME NEW i \in 1..n, NEW j \in 1..n, i < j
               PROVE  all[j].At >= all[i].At - MaxLag
    OBVIOUS
  <2>1. i \in 1..(n - 1)
    BY <1>3
  <2>2. CASE j = n
    BY <2>2, <1>1, <1>4, <1>6, <1>7
  <2>3. CASE j # n
    <3>1. j \in 1..(n - 1)
      BY <2>3, <1>3
    <3> QED BY <2>1, <3>1, <1>3, <1>4
  <2> QED BY <2>2, <2>3
<1>9. t \in Int /\ window \in Int
  BY <1>1
<1>10. /\ w.points \in Seq(WindowPoint)
       /\ w.sum = SumCounts(w.points)
       /\ \E k \in 1..(n + 1) :
            /\ w.points = SubSeq(all, k, n)
            /\ k <= n => all[k].At >= t - window
  <2> HIDE DEF w
  <2>1. w = pruneWindow(all, SumCounts(all), t, window)
    BY <1>5 DEF w
  <2> QED BY <1>2, <1>9, <2>1, PruneKeepsSuffix DEF n
<1>11. PICK k \in 1..(n + 1) : /\ w.points = SubSeq(all, k, n)
                               /\ k <= n => all[k].At >= t - window
  BY <1>10
<1> HIDE DEF w
<1>12. /\ DOMAIN w.points = 1..(n - k + 1)
       /\ \A i \in 1..(n - k + 1) : w.points[i] = all[i + k - 1]
  BY <1>2, <1>3, <1>11 DEF n
<1>13. \A i \in 1..(n - k + 1) : i + k - 1 \in 1..n /\ i + k - 1 >= k
  BY <1>3
<1>14. \A i \in DOMAIN w.points :
         w.points[i].At <= now /\ w.points[i].At >= t - window - MaxLag
  <2> SUFFICES ASSUME NEW i \in 1..(n - k + 1)
               PROVE  /\ all[i + k - 1].At <= now
                      /\ all[i + k - 1].At >= t - window - MaxLag
    BY <1>12
  <2>1. k \in 1..n /\ all[k].At >= t - window
    BY <1>3, <1>11
  <2>2. all[i + k - 1].At >= all[k].At - MaxLag
    <3>1. CASE i + k - 1 = k
      BY <3>1, <2>1, <1>6, <1>7
    <3>2. CASE i + k - 1 > k
      BY <3>2, <2>1, <1>8, <1>13
    <3> QED BY <3>1, <3>2, <1>13, <1>3
  <2>3. all[i + k - 1].At \in Nat /\ all[k].At \in Nat
    BY <1>7, <1>13, <2>1
  <2> QED BY <2>1, <2>2, <2>3, <1>6, <1>7, <1>9, <1>13, SMTT(30)
<1>15. \A i, j \in DOMAIN w.points :
         i < j => w.points[j].At >= w.points[i].At - MaxLag
  <2> SUFFICES ASSUME NEW i \in 1..(n - k + 1), NEW j \in 1..(n - k + 1), i < j
               PROVE  all[j + k - 1].At >= all[i + k - 1].At - MaxLag
    BY <1>12
  <2>1. i + k - 1 < j + k - 1
    BY <1>3
  <2> QED BY <2>1, <1>8, <1>13
<1> QED BY <1>10, <1>14, <1>15 DEF w, all, x

\* The window an event leaves: its sum is that of its points, which are none too old or too new.
EventWindow(r, s, cnt, t) ==
  pruneWindow(Append(s.CountWindow, [At |-> t, Count |-> cnt]),
              s.CountWindowSum + cnt, t, r.WindowSec)
Summed(w) == w.points \in Seq(WindowPoint) /\ w.sum = SumCounts(w.points) /\ w.sum \in Nat
Timely(w, r, t, now) ==
  /\ \A i \in DOMAIN w.points :
       /\ w.points[i].At <= now
       /\ w.points[i].At >= t - r.WindowSec - MaxLag
  /\ \A i, j \in DOMAIN w.points :
       i < j => w.points[j].At >= w.points[i].At - MaxLag

\* The window an event leaves in a steady state.
LEMMA WindowOfEvent ==
  ASSUME NEW r \in Rules, NEW s, NEW now \in Nat,
         NEW t \in 0..now, t >= now - MaxLag,
         Steady(r, s, now), NEW cnt \in Counts
  PROVE  Summed(EventWindow(r, s, cnt, t)) /\ Timely(EventWindow(r, s, cnt, t), r, t, now)
<1> DEFINE w  == pruneWindow(Append(s.CountWindow, [At |-> t, Count |-> cnt]),
                             s.CountWindowSum + cnt, t, r.WindowSec)
           w2 == pruneWindow(Append(s.CountWindow, [At |-> t, Count |-> cnt]),
                             SumCounts(s.CountWindow) + cnt, t, r.WindowSec)
<1>1. s.CountWindow \in Seq(WindowPoint) /\ r.WindowSec \in Nat
  BY StateFields, RuleFacts DEF Steady, Fields
<1>2. /\ s.CountWindowSum = SumCounts(s.CountWindow)
      /\ \A i \in DOMAIN s.CountWindow : s.CountWindow[i].At <= now
      /\ \A i, j \in DOMAIN s.CountWindow :
           i < j => s.CountWindow[j].At >= s.CountWindow[i].At - MaxLag
  BY DEF Steady, WindowOK
<1>3. w = w2
  BY <1>2
<1>4. /\ w2.points \in Seq(WindowPoint)
      /\ w2.sum = SumCounts(w2.points)
      /\ \A i \in DOMAIN w2.points :
           /\ w2.points[i].At <= now
           /\ w2.points[i].At >= t - r.WindowSec - MaxLag
      /\ \A i, j \in DOMAIN w2.points :
           i < j => w2.points[j].At >= w2.points[i].At - MaxLag
  BY <1>1, <1>2, WindowAfterEvent
<1> HIDE DEF w, w2
<1>5. w2.sum \in Nat
  BY <1>4, UnitsFinite
<1>6. w = EventWindow(r, s, cnt, t)
  BY Zenon DEF w, EventWindow
<1>7. Summed(w2) /\ Timely(w2, r, t, now)
  BY <1>4, <1>5 DEF Summed, Timely
<1> QED BY <1>3, <1>6, <1>7, Zenon

\* A count_window event.
LEMMA CountWindowGood ==
  ASSUME NEW r \in Rules, r.AlertType = "count_window",
         NEW s, NEW now \in Nat, NEW t \in 0..now, t >= now - MaxLag,
         NEW last \in Nat,
         Steady(r, s, now), Reached(r, s), s.LastSeen = t,
         NEW cnt \in Counts
  PROVE  LET res == CountWindowEvent(r, s, cnt, t)
         IN  Good(r, res.state, now, last) /\ res.decision \in Decision
<1> DEFINE w  == pruneWindow(Append(s.CountWindow, [At |-> t, Count |-> cnt]),
                             s.CountWindowSum + cnt, t, r.WindowSec)
           s1 == [s EXCEPT !.Initialized = TRUE,
                           !.CountWindow = w.points, !.CountWindowSum = w.sum]
           active == w.sum >= r.N
<1>1. s \in RuntimeState /\ Fields(s) /\ r.WindowSec \in Nat
  BY StateFields, RuleFacts DEF Steady
<1>2. /\ w.points \in Seq(WindowPoint)
      /\ w.sum = SumCounts(w.points) /\ w.sum \in Nat
      /\ \A i \in DOMAIN w.points :
           /\ w.points[i].At <= now
           /\ w.points[i].At >= t - r.WindowSec - MaxLag
      /\ \A i, j \in DOMAIN w.points :
           i < j => w.points[j].At >= w.points[i].At - MaxLag
  <2>1. w = EventWindow(r, s, cnt, t)
    BY Zenon DEF EventWindow
  <2> HIDE DEF w
  <2>2. Summed(EventWindow(r, s, cnt, t)) /\ Timely(EventWindow(r, s, cnt, t), r, t, now)
    BY WindowOfEvent
  <2>3. Summed(w) /\ Timely(w, r, t, now)
    BY <2>1, <2>2, Zenon
  <2> QED BY <2>3, Zenon DEF Summed, Timely
<1>3. CountWindowEvent(r, s, cnt, t) = applyActiveCondition(r, s1, t, active)
  BY Zenon DEF CountWindowEvent
<1> HIDE DEF w
<1>4. /\ s1.Initialized /\ s1.LastSeen = s.LastSeen
      /\ s1.RaisedAt = s.RaisedAt /\ s1.PendingSince = s.PendingSince
      /\ s1.HysteresisSince = s.HysteresisSince
      /\ s1.CurrentState = s.CurrentState
      /\ s1.CountWindow = w.points
      /\ s1.CountWindowSum = w.sum
  BY <1>1 DEF RuntimeState
<1>5. s1 \in RuntimeState
  BY <1>1, <1>2 DEF RuntimeState
<1> HIDE DEF s1
<1>6. WindowOK(s1, now) /\ Windowed(r, s1) /\ Recent(r, s1)
  BY <1>2, <1>4 DEF WindowOK, Windowed, Recent
<1>7. Steady(r, s1, now) /\ (IsActive(s1) <=> IsActive(s))
  BY <1>4, <1>5, <1>6, RecountSteady
<1>8. ~active => Reached(r, s1)
  BY <1>4 DEF Reached
<1>9. s1.Initialized /\ s1.LastSeen # Nil
  BY <1>4 DEF Nil
<1> HIDE DEF active
<1>10. active \in BOOLEAN /\ r.AlertType \in CountTypes
  BY DEF active, CountTypes
<1>11. active /\ r.AlertType = "count_total" => s1.CountTotal >= r.N
  OBVIOUS
<1> QED BY <1>3, <1>6, <1>7, <1>8, <1>9, <1>10, <1>11, ConditionGood

\* An event of a heartbeat.
LEMMA HeartbeatGood ==
  ASSUME NEW r \in Rules, r.AlertType \notin CountTypes,
         NEW s, NEW now \in Nat, NEW t \in 0..now, t >= now - MaxLag,
         NEW last \in Nat,
         Steady(r, s, now), s.LastSeen = t,
         ~s.Initialized => ~IsActive(s)
  PROVE  LET res == HeartbeatEvent(r, s, t)
         IN  Good(r, res.state, now, last) /\ res.decision \in Decision
<1> DEFINE res == HeartbeatEvent(r, s, t)
           since == RecoverySince(s, t)
           wait == t - since < r.HysteresisSec
<1>1. s \in RuntimeState /\ Fields(s) /\ r.HysteresisSec \in Nat
  BY StateFields, RuleFacts DEF Steady
<1>2. t \in Nat /\ s.LastSeen # Nil /\ MaxLag \in Nat
  BY BoundFacts DEF Nil
<1>3. Windowed(r, s) /\ r.AlertType # "count_window"
  BY DEF Steady, CountTypes
<1>4. DOMAIN s.CountWindow = {}
  BY <1>3 DEF Windowed
<1>5. Reached(r, s) /\ Recent(r, s)
  BY <1>4 DEF Reached, Recent, CountTypes
<1>6. NoDecision \in Decision /\ Resolved \in Decision
  BY DEF NoDecision, Resolved, Decide, Decision
<1>7. CASE ~s.Initialized
  <2> DEFINE s1 == [s EXCEPT !.Initialized = TRUE, !.CurrentState = Inactive,
                             !.PendingSince = Nil, !.HysteresisSince = Nil]
  <2>1. res.state = s1 /\ res.decision = NoDecision
    BY <1>7 DEF HeartbeatEvent, Keep
  <2>2. s.CurrentState = Inactive
    BY <1>1, <1>7 DEF IsActive, Fields
  <2>3. s.PendingSince = Nil /\ s.HysteresisSince = Nil
    BY <1>7, <2>2, PhasesDiffer DEF Steady, Fit
  <2>4. s1 \in RuntimeState
    BY <1>1 DEF RuntimeState, Stamp
  <2>5. /\ s1.Initialized /\ s1.LastSeen = s.LastSeen
        /\ s1.RaisedAt = s.RaisedAt /\ s1.PendingSince = s.PendingSince
        /\ s1.HysteresisSince = s.HysteresisSince
        /\ s1.CurrentState = s.CurrentState
        /\ s1.CountWindow = s.CountWindow
        /\ s1.CountWindowSum = s.CountWindowSum
    BY <1>1, <2>2, <2>3 DEF RuntimeState
  <2> HIDE DEF s1, res
  <2>6. WindowOK(s1, now) /\ Windowed(r, s1)
    BY <2>5 DEF Steady, WindowOK, Windowed
  <2>7. Steady(r, s1, now) /\ (IsActive(s1) <=> IsActive(s))
    BY <2>4, <2>5, <2>6, RecountSteady
  <2>8. Recent(r, s1) /\ Reached(r, s1) /\ Witness(r, s1, last)
    BY <1>5, <1>7, <2>5, <2>7 DEF Recent, Reached, Witness, CountTypes
  <2>9. Good(r, s1, now, last)
    BY <1>2, <2>5, <2>7, <2>8 DEF Good
  <2> QED BY <1>6, <2>1, <2>9 DEF res
<1>8. CASE s.Initialized /\ ~IsActive(s)
  <2>1. res.state = s /\ res.decision = NoDecision
    BY <1>8 DEF HeartbeatEvent, Keep
  <2> HIDE DEF res
  <2>2. Good(r, s, now, last)
    BY <1>2, <1>5, <1>8 DEF Good, Witness
  <2> QED BY <1>6, <2>1, <2>2 DEF res
<1>9. CASE s.Initialized /\ IsActive(s) /\ wait
  <2> DEFINE s1 == [s EXCEPT !.HysteresisSince = since]
  <2>1. res.state = s1 /\ res.decision = Decide(s.CurrentState, FALSE)
    BY <1>9 DEF HeartbeatEvent, Keep
  <2>2. since \in Nat /\ since <= now /\ since # Nil
    BY <1>1, <1>2 DEF Steady, Past, Fields, Nil, RecoverySince
  <2>3. since >= s.RaisedAt - MaxLag /\ t >= s.RaisedAt - MaxLag
    <3>1. s.RaisedAt <= now /\ s.RaisedAt \in Int
      BY <1>1 DEF Steady, Past, Fields
    <3>2. s.HysteresisSince # Nil => s.HysteresisSince >= s.RaisedAt - MaxLag
      BY DEF Steady, RecoveryAfterRaise
    <3> QED BY <1>2, <3>1, <3>2 DEF RecoverySince
  <2>4. r.HysteresisSec > 0
    <3>1. s.HysteresisSince # Nil => r.HysteresisSec > 0
      BY DEF Steady, Fit
    <3>2. CASE s.HysteresisSince = Nil
      BY <1>1, <1>2, <1>9, <3>2 DEF RecoverySince
    <3> QED BY <3>1, <3>2
  <2> HIDE DEF since
  <2>5. s1 \in RuntimeState
    BY <1>1, <2>2 DEF RuntimeState, Stamp
  <2>6. /\ SameData(s, s1) /\ s1.CurrentState = s.CurrentState
        /\ s1.RaisedAt = s.RaisedAt /\ s1.PendingSince = s.PendingSince
        /\ s1.HysteresisSince = since
    BY <1>1 DEF RuntimeState, SameData
  <2>7. res.decision \in Decision
    BY <1>1, <2>1 DEF Decide, Decision, Fields
  <2> HIDE DEF s1, res
  <2>8. IsActive(s1)
    BY <1>9, <2>6 DEF IsActive
  <2>9. Fit(r, s1)
    BY <1>9, <2>4, <2>6, <2>8 DEF Steady, Fit
  <2>10. Past(s1, now) /\ WindowOK(s1, now) /\ Windowed(r, s1)
    BY <2>2, <2>6 DEF Steady, Past, WindowOK, Windowed, SameData
  <2>11. RecoveryAfterRaise(s1) /\ Served(r, s1, now)
    BY <2>3, <2>6 DEF Steady, RecoveryAfterRaise, Served
  <2>12. Reached(r, s1) /\ Recent(r, s1)
    BY <1>4, <2>6 DEF Reached, Recent, SameData, CountTypes
  <2>13. Witness(r, s1, last)
    BY <2>2, <2>3, <2>6 DEF Witness, SameData
  <2>14. Good(r, s1, now, last)
    BY <1>2, <1>9, <2>5, <2>6, <2>9, <2>10, <2>11, <2>12, <2>13
       DEF Good, Steady, SameData
  <2> QED BY <2>1, <2>7, <2>14 DEF res
<1>10. CASE s.Initialized /\ IsActive(s) /\ ~wait
  <2>1. res = Resolve(s)
    BY <1>10 DEF HeartbeatEvent
  <2>2. Good(r, resetResolvedState(s), now, last)
    BY <1>2, <1>10, ResetGood
  <2> QED BY <1>6, <2>1, <2>2 DEF Resolve
<1> QED BY <1>7, <1>8, <1>9, <1>10

\* What is known of an entry of the map, or of its absence.
GoodEntry(r, entry, now, last) ==
  entry = NoState \/ Good(r, entry, now, last)

\* ProcessEvent leaves a good state, whatever it found.
LEMMA EventGood ==
  ASSUME NEW r \in Rules, NEW entry,
         NEW now \in Nat, NEW t \in 0..now, t >= now - MaxLag,
         NEW last \in Nat, NEW cnt \in Counts,
         GoodEntry(r, entry, now, last)
  PROVE  LET res == EvalEvent(r, entry, cnt, t)
         IN  Good(r, res.state, now, last) /\ res.decision \in Decision
<1> DEFINE base == IF entry = NoState THEN FreshState ELSE entry
           s == [base EXCEPT !.LastSeen = t]
           res == EvalEvent(r, entry, cnt, t)
<1>1. /\ Steady(r, s, now) /\ Reached(r, s) /\ s.LastSeen = t
      /\ ~s.Initialized => ~IsActive(s)
  <2>1. CASE entry = NoState
    <3>1. s = [FreshState EXCEPT !.LastSeen = t]
      BY <2>1
    <3>2. s.LastSeen = t /\ s.CurrentState = Inactive
      BY <3>1 DEF FreshState
    <3> HIDE DEF s
    <3>3. Steady(r, s, now) /\ Reached(r, s)
      BY <3>1, FreshSteady
    <3> QED BY <3>2, <3>3, PhasesDiffer DEF IsActive
  <2>2. CASE entry # NoState
    <3>1. s = [entry EXCEPT !.LastSeen = t]
      BY <2>2
    <3>2. Good(r, entry, now, last)
      BY <2>2 DEF GoodEntry
    <3>3. entry \in RuntimeState /\ Steady(r, entry, now) /\ Reached(r, entry)
          /\ entry.Initialized
      BY <3>2 DEF Good, Steady
    <3>4. s.Initialized
      BY <3>1, <3>3 DEF RuntimeState
    <3> HIDE DEF s
    <3>5. Steady(r, s, now) /\ Reached(r, s) /\ s.LastSeen = t
      BY <3>1, <3>3, SeenSteady
    <3> QED BY <3>4, <3>5
  <2> QED BY <2>1, <2>2
<1>2. CASE r.AlertType = "count_total"
  <2>1. res = CountTotalEvent(r, s, cnt, t)
    BY <1>2 DEF EvalEvent
  <2> HIDE DEF s, res
  <2> QED BY <1>1, <1>2, <2>1, CountTotalGood DEF res
<1>3. CASE r.AlertType = "count_window"
  <2>1. res = CountWindowEvent(r, s, cnt, t)
    BY <1>3 DEF EvalEvent
  <2> HIDE DEF s, res
  <2> QED BY <1>1, <1>3, <2>1, CountWindowGood DEF res
<1>4. CASE r.AlertType \notin CountTypes
  <2>1. res = HeartbeatEvent(r, s, t)
    BY <1>4 DEF EvalEvent, CountTypes
  <2> HIDE DEF s, res
  <2> QED BY <1>1, <1>4, <2>1, HeartbeatGood DEF res
<1> QED BY <1>2, <1>3, <1>4 DEF CountTypes

-----------------------------------------------------------------------------
(* TickRuleWithFiring.                                                     *)

\* A tick finds the recovery timer of an active alert that is back running: it
\* never starts one itself.
LEMMA RecoveryRuns ==
  ASSUME NEW r \in Rules, r.AlertType \notin CountTypes, NEW s, NEW now \in Nat,
         NEW last \in Nat, NEW t \in last..now,
         Good(r, s, now, last), ~Missing(r, s, t), IsActive(s)
  PROVE  s.HysteresisSince # Nil
<1>1. SUFFICES ASSUME s.HysteresisSince = Nil PROVE FALSE
  OBVIOUS
<1>2. last - s.LastSeen >= r.MissingSec
  BY <1>1 DEF Good, Witness
<1>3. Fields(s)
  BY StateFields DEF Good, Steady
<1>4. t - s.LastSeen >= r.MissingSec
  BY <1>2, <1>3, RuleFacts DEF Fields
<1> QED BY <1>4 DEF Missing

\* The three ways a tick may treat a heartbeat that is not missing.
LEMMA BackTick ==
  ASSUME NEW r \in Rules, r.AlertType \notin CountTypes, NEW s, NEW t,
         s.Initialized, ~Missing(r, s, t)
  PROVE  LET res == EvalTick(r, s, t)
             since == RecoverySince(s, s.LastSeen)
         IN  \/ (~IsActive(s) \/ ~(r.HysteresisSec > 0)) /\ res = Keep(s, NoDecision)
             \/ IsActive(s) /\ res = Resolve(s)
             \/ /\ IsActive(s) /\ ~(t - since >= r.HysteresisSec)
                /\ res = Keep([s EXCEPT !.HysteresisSince = since],
                              Decide(s.CurrentState, FALSE))
<1> DEFINE res == EvalTick(r, s, t)
           since == RecoverySince(s, s.LastSeen)
<1>1. res = HeartbeatTick(r, s, t)
  BY DEF EvalTick
<1>2. r.HysteresisSec = 0 <=> ~(r.HysteresisSec > 0)
  BY RuleFacts
<1>3. CASE ~IsActive(s) \/ r.HysteresisSec = 0
  <2>1. res = Keep(s, NoDecision)
    BY <1>1, <1>2, <1>3, Zenon DEF HeartbeatTick
  <2> QED BY <1>2, <1>3, <2>1
<1>4. CASE /\ IsActive(s) /\ r.HysteresisSec > 0
           /\ t - since >= r.HysteresisSec
  <2>1. res = Resolve(s)
    BY <1>1, <1>2, <1>4, Zenon DEF HeartbeatTick
  <2> QED BY <1>4, <2>1
<1>5. CASE /\ IsActive(s) /\ r.HysteresisSec > 0
           /\ ~(t - since >= r.HysteresisSec)
  <2>1. res = Keep([s EXCEPT !.HysteresisSince = since],
                   Decide(s.CurrentState, FALSE))
    BY <1>1, <1>2, <1>5, Zenon DEF HeartbeatTick
  <2> QED BY <1>5, <2>1
<1> QED BY <1>2, <1>3, <1>4, <1>5

\* A tick at t, no earlier than the last one, leaves a good state.
LEMMA TickGood ==
  ASSUME NEW r \in Rules, NEW s, NEW now \in Nat,
         NEW last \in Nat, NEW t \in last..now,
         Good(r, s, now, last)
  PROVE  LET res == EvalTick(r, s, t)
         IN  Good(r, res.state, now, t) /\ res.decision \in Decision
<1> DEFINE res == EvalTick(r, s, t)
           since == RecoverySince(s, s.LastSeen)
<1>1. s \in RuntimeState /\ Fields(s) /\ Steady(r, s, now) /\ s.Initialized
      /\ s.LastSeen # Nil
  BY StateFields DEF Good, Steady
<1>2. t \in Nat /\ last <= t /\ t <= now /\ t \in 0..now
  OBVIOUS
<1>3. Good(r, s, now, t)
  BY <1>2, GoodLater
<1>4. Good(r, resetResolvedState(s), now, t)
  BY <1>1, <1>2, ResetGood
<1>5. NoDecision \in Decision /\ Resolved \in Decision
  BY DEF NoDecision, Resolved, Decide, Decision
<1>6. CASE r.AlertType \in CountTypes
  <2>1. res = Keep(s, NoDecision) \/ res = Resolve(s)
    BY <1>6 DEF EvalTick, CountTick
  <2>2. CASE res = Keep(s, NoDecision)
    BY <1>3, <1>5, <2>2 DEF Keep
  <2>3. CASE res = Resolve(s)
    BY <1>4, <1>5, <2>3 DEF Resolve
  <2> QED BY <2>1, <2>2, <2>3
<1>7. CASE r.AlertType \notin CountTypes /\ Missing(r, s, t)
  <2> DEFINE act == applyActive(r, s, t)
  <2>1. res = act
    BY <1>1, <1>7 DEF EvalTick, HeartbeatTick
  <2>2. /\ Steady(r, act.state, now) /\ act.state.HysteresisSince = Nil
        /\ SameData(s, act.state) /\ act.decision \in Decision
    BY <1>1, <1>2, ApplyActiveSteady
  <2> HIDE DEF act, res
  <2>3. Recent(r, act.state)
    BY <2>2 DEF Good, Recent, SameData
  <2>4. Reached(r, act.state)
    BY <1>7 DEF Reached, CountTypes
  <2>5. Witness(r, act.state, t)
    BY <1>7, <2>2 DEF Witness, Missing, SameData
  <2>6. Good(r, act.state, now, t)
    BY <1>1, <2>2, <2>3, <2>4, <2>5 DEF Good, SameData
  <2> QED BY <2>1, <2>2, <2>6 DEF res
<1>8. CASE r.AlertType \notin CountTypes /\ ~Missing(r, s, t)
  <2>1. IsActive(s) => s.HysteresisSince # Nil
    BY <1>8, RecoveryRuns
  <2>2. IsActive(s) => [s EXCEPT !.HysteresisSince = since] = s
    BY <1>1, <2>1 DEF RuntimeState, RecoverySince
  <2>3. \/ res = Keep(s, NoDecision)
        \/ res = Resolve(s)
        \/ IsActive(s) /\ res = Keep([s EXCEPT !.HysteresisSince = since],
                                     Decide(s.CurrentState, FALSE))
    BY <1>1, <1>8, BackTick
  <2>4. CASE res = Keep(s, NoDecision)
    BY <1>3, <1>5, <2>4 DEF Keep
  <2>5. CASE res = Resolve(s)
    BY <1>4, <1>5, <2>5 DEF Resolve
  <2>6. CASE IsActive(s) /\ res = Keep([s EXCEPT !.HysteresisSince = since],
                                       Decide(s.CurrentState, FALSE))
    <3>1. res.state = s /\ res.decision = Decide(s.CurrentState, FALSE)
      BY <2>2, <2>6 DEF Keep
    <3>2. res.decision \in Decision
      BY <1>1, <3>1 DEF Decide, Decision, Fields
    <3> QED BY <1>3, <3>1, <3>2
  <2> QED BY <2>3, <2>4, <2>5, <2>6
<1> QED BY <1>6, <1>7, <1>8

-----------------------------------------------------------------------------
(* The invariant of the engine.                                            *)

GoodEntries ==
  \A a \in AlertIds : GoodEntry(rule, states[a], clock, lastTick)

IInv == TypeOK /\ GoodEntries

\* The engine starts with no entries.
LEMMA InitEstablishes == Init => IInv
<1> SUFFICES ASSUME Init PROVE IInv
  OBVIOUS
<1>1. NoDecision \in Decision
  BY DEF NoDecision, Decide, Decision
<1>2. TypeOK
  BY <1>1 DEF Init, TypeOK, Quiet
<1>3. GoodEntries
  BY DEF Init, GoodEntries, GoodEntry
<1> QED BY <1>2, <1>3 DEF IInv

\* A call that evicts some entries leaves the others as they were.
LEMMA EvictKeeps ==
  ASSUME IInv, NEW ids \in SUBSET AlertIds, states' = Evict(ids),
         decisions' = Quiet, firingIDs' = {}, lastOp' \in {"compact", "remove"},
         UNCHANGED <<rule, clock, lastTick>>
  PROVE  IInv'
<1>1. NoDecision \in Decision
  BY DEF NoDecision, Decide, Decision
<1>2. \A a \in AlertIds : states'[a] = NoState \/ states'[a] = states[a]
  BY DEF Evict
<1>3. states' \in [AlertIds -> RuntimeState \cup {NoState}]
  BY DEF IInv, TypeOK, Evict
<1>4. TypeOK'
  BY <1>1, <1>3 DEF IInv, TypeOK, Quiet
<1>5. GoodEntries'
  BY <1>2 DEF IInv, GoodEntries, GoodEntry
<1> QED BY <1>4, <1>5 DEF IInv

\* Every step preserves the invariant.
LEMMA NextPreserves == IInv /\ [Next]_vars => IInv'
<1> SUFFICES ASSUME IInv, [Next]_vars PROVE IInv'
  OBVIOUS
<1>0. /\ rule \in Rules /\ clock \in Nat /\ lastTick \in 0..clock
      /\ lastTick \in Nat /\ MaxLag \in Nat
      /\ TypeOK /\ GoodEntries
  BY BoundFacts DEF IInv, TypeOK
<1>1. ASSUME NEW a \in AlertIds, NEW cnt \in Counts, NEW t \in Readings,
             ProcessEvent(a, cnt, t)
      PROVE  IInv'
  <2> DEFINE res == EvalEvent(rule, states[a], cnt, t)
  <2>1. t \in 0..clock /\ t >= clock - MaxLag
    BY DEF Readings
  <2>2. GoodEntry(rule, states[a], clock, lastTick)
    BY <1>0 DEF GoodEntries
  <2>3. Good(rule, res.state, clock, lastTick) /\ res.decision \in Decision
    BY <1>0, <2>1, <2>2, EventGood
  <2>4. /\ states' = [states EXCEPT ![a] = res.state]
        /\ decisions' = [Quiet EXCEPT ![a] = res.decision]
        /\ firingIDs' = {} /\ lastOp' = "event"
        /\ rule' = rule /\ clock' = clock /\ lastTick' = lastTick
    BY <1>1 DEF ProcessEvent
  <2> HIDE DEF res
  <2>5. res.state \in RuntimeState
    BY <2>3 DEF Good, Steady
  <2>6. states' \in [AlertIds -> RuntimeState \cup {NoState}]
    BY <1>0, <2>4, <2>5 DEF TypeOK
  <2>7. decisions' \in [AlertIds -> Decision]
    <3>1. NoDecision \in Decision
      BY DEF NoDecision, Decide, Decision
    <3> QED BY <2>3, <2>4, <3>1 DEF Quiet
  <2>8. TypeOK'
    BY <1>0, <2>4, <2>6, <2>7 DEF TypeOK
  <2>9. ASSUME NEW b \in AlertIds
        PROVE  GoodEntry(rule', states'[b], clock', lastTick')
    <3>1. states'[b] = IF b = a THEN res.state ELSE states[b]
      BY <1>0, <2>4 DEF TypeOK
    <3>2. GoodEntry(rule, states[b], clock, lastTick)
      BY <1>0 DEF GoodEntries
    <3> QED BY <2>3, <2>4, <3>1, <3>2 DEF GoodEntry
  <2> QED BY <2>8, <2>9 DEF IInv, GoodEntries
<1>2. ASSUME NEW t \in Readings, TickRuleWithFiring(t)
      PROVE  IInv'
  <2>1. t \in lastTick..clock /\ t \in 0..clock
    BY <1>0, <1>2 DEF Readings, TickRuleWithFiring
  <2>2. /\ states' = [a \in AlertIds |->
             IF states[a] = NoState THEN NoState
             ELSE EvalTick(rule, states[a], t).state]
        /\ decisions' = [a \in AlertIds |->
             IF states[a] = NoState THEN NoDecision
             ELSE EvalTick(rule, states[a], t).decision]
        /\ firingIDs' \subseteq AlertIds
        /\ lastTick' = t /\ lastOp' = "tick"
        /\ rule' = rule /\ clock' = clock
    BY <1>2 DEF TickRuleWithFiring
  <2>3. ASSUME NEW a \in AlertIds
        PROVE  /\ GoodEntry(rule, states'[a], clock, t)
               /\ states'[a] \in RuntimeState \cup {NoState}
               /\ decisions'[a] \in Decision
    <3>1. CASE states[a] = NoState
      <4>1. NoDecision \in Decision
        BY DEF NoDecision, Decide, Decision
      <4> QED BY <2>2, <3>1, <4>1 DEF GoodEntry
    <3>2. CASE states[a] # NoState
      <4> DEFINE res == EvalTick(rule, states[a], t)
      <4>1. Good(rule, states[a], clock, lastTick)
        BY <1>0, <3>2 DEF GoodEntries, GoodEntry
      <4>2. Good(rule, res.state, clock, t) /\ res.decision \in Decision
        BY <1>0, <2>1, <4>1, TickGood
      <4>3. states'[a] = res.state /\ decisions'[a] = res.decision
        BY <2>2, <3>2
      <4> HIDE DEF res
      <4> QED BY <4>2, <4>3 DEF GoodEntry, Good, Steady
    <3> QED BY <3>1, <3>2
  <2>4. TypeOK'
    <3>1. DOMAIN states' = AlertIds /\ DOMAIN decisions' = AlertIds
      BY <2>2
    <3>2. states' = [a \in AlertIds |-> states'[a]]
      BY <2>2
    <3>3. decisions' = [a \in AlertIds |-> decisions'[a]]
      BY <2>2
    <3>4. /\ states' \in [AlertIds -> RuntimeState \cup {NoState}]
          /\ decisions' \in [AlertIds -> Decision]
      BY <2>3, <3>2, <3>3
    <3> QED BY <1>0, <2>1, <2>2, <3>4 DEF TypeOK
  <2> QED BY <2>2, <2>3, <2>4 DEF IInv, GoodEntries
<1>3. ASSUME CompactStates PROVE IInv'
  <2>1. PICK victims \in CapVictims(Entries \ IdleEntries(lastTick)) :
          states' = Evict(IdleEntries(lastTick) \cup victims)
    BY <1>3 DEF CompactStates
  <2>2. IdleEntries(lastTick) \cup victims \subseteq AlertIds
    BY <2>1 DEF CapVictims, Candidates, IdleEntries, Entries
  <2> QED BY <1>3, <2>1, <2>2, EvictKeeps DEF CompactStates
<1>4. ASSUME NEW a \in AlertIds, RemoveAlertState(a) PROVE IInv'
  <2>1. {a} \in SUBSET AlertIds
    OBVIOUS
  <2> QED BY <1>4, <2>1, EvictKeeps DEF RemoveAlertState
<1>5. ASSUME AdvanceClock PROVE IInv'
  <2>1. /\ clock' = clock + 1 /\ decisions' = Quiet /\ firingIDs' = {}
        /\ lastOp' = "clock" /\ rule' = rule /\ states' = states
        /\ lastTick' = lastTick
    BY <1>5 DEF AdvanceClock
  <2>2. clock' \in Nat /\ clock <= clock' /\ lastTick' \in 0..clock'
    BY <1>0, <2>1
  <2>3. TypeOK'
    <3>1. NoDecision \in Decision
      BY DEF NoDecision, Decide, Decision
    <3> QED BY <1>0, <2>1, <2>2, <3>1 DEF TypeOK, Quiet
  <2>4. ASSUME NEW a \in AlertIds
        PROVE  GoodEntry(rule', states'[a], clock', lastTick')
    <3>1. GoodEntry(rule, states[a], clock, lastTick)
      BY <1>0 DEF GoodEntries
    <3>2. Good(rule, states[a], clock, lastTick)
            => Good(rule, states[a], clock', lastTick)
      <4>1. lastTick <= lastTick
        BY <1>0
      <4> QED BY <1>0, <2>2, <4>1, GoodLater
    <3> QED BY <2>1, <3>1, <3>2 DEF GoodEntry
  <2> QED BY <2>3, <2>4 DEF IInv, GoodEntries
<1>6. CASE UNCHANGED vars
  BY <1>0, <1>6 DEF vars, IInv, TypeOK, GoodEntries
<1> QED BY <1>1, <1>2, <1>3, <1>4, <1>5, <1>6 DEF Next

-----------------------------------------------------------------------------
(* Theorems.                                                               *)

\* The engine's variables keep their types, and every entry of its map is in a
\* state the invariant describes.
THEOREM EngineInvariant == Spec => []IInv
<1>1. Init => IInv
  BY InitEstablishes
<1>2. IInv /\ [Next]_vars => IInv'
  BY NextPreserves
<1> QED BY <1>1, <1>2, PTL DEF Spec

\* Entries of the map are good under the invariant.
LEMMA GoodOfEntries ==
  ASSUME IInv, NEW a \in Entries
  PROVE  /\ Good(rule, states[a], clock, lastTick)
         /\ Steady(rule, states[a], clock)
         /\ Fields(states[a])
<1>1. Good(rule, states[a], clock, lastTick)
  BY DEF IInv, GoodEntries, GoodEntry, Entries
<1> QED BY <1>1, StateFields DEF Good, Steady

\* Whatever the calls and their order, the variables keep their types.
THEOREM TypeCorrect == Spec => []TypeOK
<1>1. IInv => TypeOK
  BY DEF IInv
<1> QED BY <1>1, EngineInvariant, PTL

\* RaisedAt, PendingSince and HysteresisSince are set exactly in the phases
\* that use them (applyActiveCondition, resetResolvedState).
THEOREM StampsAlwaysFit == Spec => []StampsFitState
<1>1. ASSUME IInv PROVE StampsFitState
  <2>1. \A a \in Entries : Fit(rule, states[a])
    BY <1>1, GoodOfEntries DEF Steady
  <2> QED BY <2>1 DEF StampsFitState, StampsFit, Fit, Counting
<1> QED BY <1>1, EngineInvariant, PTL

\* A count_total alert is active exactly when its counter has reached N, a
\* count_window alert whenever its window holds N (ProcessEvent).
THEOREM RaisedIsReached == Spec => []RaisedIffReached
<1>1. ASSUME IInv PROVE RaisedIffReached
  <2>1. \A a \in Entries : Reached(rule, states[a])
    BY <1>1, GoodOfEntries DEF Good
  <2> QED BY <2>1 DEF RaisedIffReached, Reached
<1> QED BY <1>1, EngineInvariant, PTL

\* The cached sum of a window is the sum of its points, and none of them is
\* older than the window by more than the lag (pruneWindow).
THEOREM WindowAlwaysConsistent == Spec => []WindowConsistent
<1>1. ASSUME IInv PROVE WindowConsistent
  <2>1. \A a \in Entries : WindowOK(states[a], clock) /\ Recent(rule, states[a])
    BY <1>1, GoodOfEntries DEF Good, Steady
  <2> QED BY <2>1 DEF WindowConsistent, WindowOK, Recent
<1> QED BY <1>1, EngineInvariant, PTL

\* A heartbeat alert recovers only on a heartbeat: its recovery timer runs from
\* an event after the raise, or the heartbeat is still missing (ProcessEvent,
\* TickRuleWithFiring).
THEOREM RecoveryIsWitnessed == Spec => []RecoveryWitness
<1>1. ASSUME IInv PROVE RecoveryWitness
  <2>1. \A a \in Entries : /\ Witness(rule, states[a], lastTick)
                           /\ RecoveryAfterRaise(states[a])
    BY <1>1, GoodOfEntries DEF Good, Steady
  <2> QED BY <2>1 DEF RecoveryWitness, Witness, RecoveryAfterRaise, Counting
<1> QED BY <1>1, EngineInvariant, PTL

\* A firing alert of a rule with pending was raised at least the delay ago
\* (applyActiveCondition).
THEOREM DelayAlwaysHonoured == Spec => []DelayHonoured
<1>1. ASSUME IInv PROVE DelayHonoured
  <2>1. \A a \in Entries : Served(rule, states[a], clock)
    BY <1>1, GoodOfEntries DEF Steady
  <2> QED BY <2>1 DEF DelayHonoured, Served
<1> QED BY <1>1, EngineInvariant, PTL

-----------------------------------------------------------------------------
(* What a tick leaves behind, and what an eviction takes.                  *)

\* Settled for the rule r.
AtRest(r, s, t) ==
  IF r.AlertType \in CountTypes THEN ~(IsActive(s) /\ Silent(r, s, t))
  ELSE /\ Missing(r, s, t) => IsActive(s) /\ s.HysteresisSince = Nil
       /\ s.HysteresisSince # Nil => t - s.HysteresisSince < r.HysteresisSec
       /\ s.CurrentState = "pending" /\ Missing(r, s, t) => ~DelayServed(r, s, t)

\* A raise starts the delay, and a delay that is served ends it.
LEMMA ActiveDelay ==
  ASSUME NEW r \in Rules, NEW s, NEW now \in Nat, NEW t \in 0..now, Steady(r, s, now)
  PROVE  LET s1 == applyActive(r, s, t).state
         IN  s1.CurrentState = "pending" => ~DelayServed(r, s1, t)
<1> DEFINE s1 == applyActive(r, s, t).state
<1>0. s \in RuntimeState /\ Fields(s) /\ t \in Nat
  BY StateFields DEF Steady
<1>1. CASE s.CurrentState = Inactive
  <2> DEFINE phase == IF r.PendingEnabled THEN "pending" ELSE "firing"
  <2>1. s1 = Raise(s, t, phase)
    BY <1>1, PhasesDiffer DEF applyActive
  <2>2. s1.CurrentState = phase /\ (phase = "pending" => s1.PendingSince = t)
    BY <1>0, <2>1 DEF Raise, RuntimeState
  <2>3. r.PendingEnabled => r.DelaySec > 0
    BY RulesAssumption DEF ValidRule
  <2>4. r.DelaySec \in Nat
    BY RuleFacts
  <2> HIDE DEF s1
  <2>5. ASSUME s1.CurrentState = "pending" PROVE ~DelayServed(r, s1, t)
    <3>1. r.PendingEnabled /\ s1.PendingSince = t
      BY <2>2, <2>5
    <3>2. ~(t - t >= r.DelaySec)
      BY <1>0, <2>3, <2>4, <3>1
    <3> QED BY <3>1, <3>2 DEF DelayServed
  <2> QED BY <2>5 DEF s1
<1>2. CASE s.CurrentState = "pending" /\ DelayServed(r, s, t)
  <2>1. s1 = [s EXCEPT !.HysteresisSince = Nil, !.PendingSince = Nil,
                       !.CurrentState = "firing"]
    BY <1>2, PhasesDiffer DEF applyActive
  <2>2. s1.CurrentState = "firing"
    BY <1>0, <2>1 DEF RuntimeState
  <2> QED BY <2>2
<1>3. CASE /\ s.CurrentState # Inactive
           /\ ~(s.CurrentState = "pending" /\ DelayServed(r, s, t))
  <2>1. s1 = [s EXCEPT !.HysteresisSince = Nil]
    BY <1>3 DEF applyActive
  <2>2. s1.CurrentState = s.CurrentState /\ s1.PendingSince = s.PendingSince
    BY <1>0, <2>1 DEF RuntimeState
  <2> QED BY <1>3, <2>2 DEF DelayServed
<1> QED BY <1>1, <1>2, <1>3

\* Whatever a tick finds, it leaves nothing of the rule's time behind undone.
LEMMA TickRests ==
  ASSUME NEW r \in Rules, NEW s, NEW now \in Nat, NEW last \in Nat, NEW t \in last..now,
         Good(r, s, now, last)
  PROVE  AtRest(r, EvalTick(r, s, t).state, t)
<1> DEFINE res == EvalTick(r, s, t)
           since == RecoverySince(s, s.LastSeen)
           reset == resetResolvedState(s)
<1>1. s \in RuntimeState /\ Fields(s) /\ Steady(r, s, now) /\ Fit(r, s) /\ s.Initialized
  BY StateFields DEF Good, Steady
<1>2. t \in Nat /\ t \in 0..now
  OBVIOUS
<1>3. /\ reset.CurrentState = Inactive /\ reset.HysteresisSince = Nil
      /\ reset.LastSeen = s.LastSeen
  BY <1>1 DEF resetResolvedState, RuntimeState
<1>4. ~IsActive(reset)
  BY <1>3, PhasesDiffer DEF IsActive
<1>5. CASE r.AlertType \in CountTypes
  <2>1. res = CountTick(r, s, t)
    BY <1>5 DEF EvalTick
  <2>2. CASE IsActive(s) /\ Silent(r, s, t)
    <3>1. res.state = reset
      BY <2>1, <2>2 DEF CountTick, Resolve
    <3> QED BY <1>4, <1>5, <3>1 DEF AtRest
  <2>3. CASE ~(IsActive(s) /\ Silent(r, s, t))
    <3>1. res = Keep(s, NoDecision)
      BY <2>1, <2>3, Zenon DEF CountTick
    <3>2. res.state = s
      BY <3>1 DEF Keep
    <3> QED BY <1>5, <2>3, <3>2 DEF AtRest
  <2> QED BY <2>2, <2>3
<1>6. CASE r.AlertType \notin CountTypes /\ Missing(r, s, t)
  <2> DEFINE act == applyActive(r, s, t)
  <2>1. res = act
    BY <1>1, <1>6 DEF EvalTick, HeartbeatTick
  <2>2. IsActive(act.state) /\ act.state.HysteresisSince = Nil
    BY <1>1, <1>2, ApplyActiveSteady
  <2>3. act.state.CurrentState = "pending" => ~DelayServed(r, act.state, t)
    BY <1>1, <1>2, ActiveDelay
  <2> HIDE DEF act, res
  <2>4. AtRest(r, act.state, t)
    BY <1>6, <2>2, <2>3 DEF AtRest
  <2> QED BY <2>1, <2>4 DEF res
<1>7. CASE r.AlertType \notin CountTypes /\ ~Missing(r, s, t)
  <2>1. /\ r.HysteresisSec \in Nat /\ t - since \in Int
        /\ since = Nil \/ since \in Int
    <3>1. since \in Int
      BY <1>1 DEF RecoverySince, Fields
    <3> QED BY <1>2, <3>1, RuleFacts
  <2>2. \/ (~IsActive(s) \/ ~(r.HysteresisSec > 0)) /\ res.state = s
        \/ res.state = reset
        \/ ~(t - since >= r.HysteresisSec) /\ res.state = [s EXCEPT !.HysteresisSince = since]
    <3>1. \/ (~IsActive(s) \/ ~(r.HysteresisSec > 0)) /\ res = Keep(s, NoDecision)
          \/ res = Resolve(s)
          \/ /\ ~(t - since >= r.HysteresisSec)
             /\ res = Keep([s EXCEPT !.HysteresisSince = since],
                           Decide(s.CurrentState, FALSE))
      BY <1>1, <1>7, BackTick
    <3> HIDE DEF res, since
    <3>2. Keep(s, NoDecision).state = s /\ Resolve(s).state = reset
      BY DEF Keep, Resolve
    <3>3. \A s1 : Keep(s1, Decide(s.CurrentState, FALSE)).state = s1
      BY DEF Keep
    <3> HIDE DEF reset
    <3> QED BY <3>1, <3>2, <3>3
  <2> HIDE DEF res, reset, since
  <2>3. CASE (~IsActive(s) \/ ~(r.HysteresisSec > 0)) /\ res.state = s
    <3>1. s.HysteresisSince = Nil
      BY <1>1, <2>3 DEF Fit
    <3> QED BY <1>7, <2>3, <3>1 DEF AtRest, res
  <2>4. CASE res.state = reset
    <3>1. ~Missing(r, reset, t) /\ reset.CurrentState # "pending"
      BY <1>3, <1>7, PhasesDiffer DEF Missing
    <3> QED BY <1>3, <1>7, <2>4, <3>1 DEF AtRest, res
  <2>5. CASE /\ ~(t - since >= r.HysteresisSec)
             /\ res.state = [s EXCEPT !.HysteresisSince = since]
    <3>1. res.state.LastSeen = s.LastSeen /\ res.state.HysteresisSince = since
      BY <1>1, <2>5 DEF RuntimeState
    <3>2. ~Missing(r, res.state, t)
      BY <1>7, <3>1 DEF Missing
    <3>3. t - res.state.HysteresisSince < r.HysteresisSec
      BY <2>1, <2>5, <3>1
    <3> QED BY <1>7, <3>2, <3>3 DEF AtRest, res
  <2> QED BY <2>2, <2>3, <2>4, <2>5
<1> QED BY <1>5, <1>6, <1>7

\* What a tick does to an entry.
LEMMA TickOfEntry ==
  ASSUME IInv, NEW t \in Readings, TickRuleWithFiring(t), NEW a \in AlertIds
  PROVE  /\ states[a] = NoState <=> states'[a] = NoState
         /\ states[a] # NoState => states'[a] = EvalTick(rule, states[a], t).state
         /\ states[a] # NoState => AtRest(rule, states'[a], t)
<1>1. /\ rule \in Rules /\ clock \in Nat /\ lastTick \in Nat /\ t \in lastTick..clock
  BY DEF IInv, TypeOK, Readings, TickRuleWithFiring
<1>2. /\ states'[a] = IF states[a] = NoState THEN NoState
                      ELSE EvalTick(rule, states[a], t).state
  BY DEF TickRuleWithFiring
<1>3. ASSUME states[a] # NoState
      PROVE  EvalTick(rule, states[a], t).state # NoState
             /\ AtRest(rule, EvalTick(rule, states[a], t).state, t)
  <2>1. Good(rule, states[a], clock, lastTick)
    BY <1>3 DEF IInv, GoodEntries, GoodEntry
  <2>2. EvalTick(rule, states[a], t).state \in RuntimeState
    BY <1>1, <2>1, TickGood DEF Good, Steady
  <2> QED BY <1>1, <2>1, <2>2, TickRests, NoStateAssumption
<1> QED BY <1>2, <1>3

\* Only a tick reports itself as one, and only an eviction as one.
LEMMA CallsNamed ==
  ASSUME IInv, Next
  PROVE  /\ lastOp' = "tick" => \E t \in Readings : TickRuleWithFiring(t) /\ lastTick' = t
         /\ lastOp' = "compact" => CompactStates
BY DEF Next, ProcessEvent, TickRuleWithFiring, CompactStates, RemoveAlertState, AdvanceClock

\* A tick settles every alert of the rule: nothing whose time has come is left to a later one
\* (TickRuleWithFiring, applyActiveCondition).
THEOREM TicksSettle == Spec => TickSettles
<1> DEFINE Rested == lastOp' = "tick" => \A a \in Entries' : Settled(states'[a], lastTick')
<1>1. ASSUME IInv, Next, lastOp' = "tick", NEW a \in Entries'
      PROVE  Settled(states'[a], lastTick')
  <2>1. PICK t \in Readings : TickRuleWithFiring(t) /\ lastTick' = t
    BY <1>1, CallsNamed
  <2>2. a \in AlertIds /\ states'[a] # NoState
    BY <1>1 DEF Entries
  <2>3. AtRest(rule, states'[a], t)
    BY <1>1, <2>1, <2>2, TickOfEntry
  <2> QED BY <2>1, <2>3 DEF AtRest, Settled, Counting
<1>2. IInv /\ [Next]_vars => [Rested]_vars
  BY <1>1
<1> QED BY <1>2, EngineInvariant, PTL DEF Spec, TickSettles

\* However many alerts there are, the engine holds finitely many at a time.
LEMMA EntriesFinite ==
  ASSUME IInv, IsFiniteSet(Entries), [Next]_vars
  PROVE  IsFiniteSet(Entries')
<1>1. PICK a : Entries' \subseteq Entries \cup {a}
  <2>1. ASSUME NEW a \in AlertIds, NEW cnt \in Counts, NEW t \in Readings,
               ProcessEvent(a, cnt, t)
        PROVE  Entries' \subseteq Entries \cup {a}
    BY <2>1 DEF ProcessEvent, Entries, IInv, TypeOK
  <2>2. ASSUME NEW t \in Readings, TickRuleWithFiring(t) PROVE Entries' \subseteq Entries
    BY <2>2, TickOfEntry DEF Entries
  <2>3. CompactStates \/ (\E a \in AlertIds : RemoveAlertState(a)) => Entries' \subseteq Entries
    BY DEF CompactStates, RemoveAlertState, Evict, Entries
  <2>4. AdvanceClock \/ UNCHANGED vars => Entries' \subseteq Entries
    BY DEF AdvanceClock, vars, Entries
  <2> QED BY <2>1, <2>2, <2>3, <2>4 DEF Next
<1>2. IsFiniteSet(Entries \cup {a})
  BY FS_AddElement
<1> QED BY <1>1, <1>2, FS_Subset

\* What the cap takes: candidates seen no later than any it leaves, and so many that MaxStates
\* entries stay.
LEMMA CapTakes ==
  ASSUME NEW kept, IsFiniteSet(kept), NEW victims \in CapVictims(kept), NEW x \in victims
  PROVE  /\ x \in Candidates(kept)
         /\ Cardinality(kept \ victims) >= MaxStates
         /\ \A y \in Candidates(kept) \ victims : states[x].LastSeen <= states[y].LastSeen
<1> DEFINE cands == Candidates(kept)
           over == IF MaxStates > 0 THEN Cardinality(kept) - MaxStates ELSE 0
           need == IF over > Cardinality(cands) THEN Cardinality(cands) ELSE over
<1>1. /\ victims \subseteq cands
      /\ Cardinality(victims) = IF need > 0 THEN need ELSE 0
      /\ \A u \in victims, y \in cands \ victims : states[u].LastSeen <= states[y].LastSeen
  BY DEF CapVictims
<1>2. cands \subseteq kept
  BY DEF Candidates
<1>3. IsFiniteSet(victims) /\ victims \subseteq kept
  BY <1>1, <1>2, FS_Subset
<1>4. Cardinality(victims) \in Nat /\ Cardinality(victims) # 0
  BY <1>3, FS_CardinalityType, FS_EmptySet
<1>5. Cardinality(kept) \in Nat /\ MaxStates \in Nat /\ Cardinality(cands) \in Nat
  BY <1>2, FS_CardinalityType, FS_Subset, BoundFacts
<1>6. Cardinality(victims) <= Cardinality(kept) - MaxStates
  <2>1. Cardinality(victims) = need /\ need > 0
    BY <1>1, <1>4
  <2>2. need <= over
    BY <1>5
  <2> QED BY <1>5, <2>1, <2>2
<1>7. Cardinality(kept \ victims) = Cardinality(kept) - Cardinality(kept \cap victims)
  BY FS_Difference
<1>8. kept \cap victims = victims
  BY <1>3
<1>9. Cardinality(kept \ victims) >= MaxStates
  BY <1>4, <1>5, <1>6, <1>7, <1>8
<1> QED BY <1>1, <1>9

\* An eviction spares active alerts, goes no further than idleness and the cap ask for, and
\* takes the entries seen least recently (CompactStates).
THEOREM EvictionInOrder == Spec => EvictionOrder
<1> DEFINE Fair ==
      lastOp' = "compact" =>
        LET gone == Entries \ Entries'
            idle == IdleEntries(lastTick)
        IN  \A x \in gone :
              /\ ~IsActive(states[x])
              /\ x \notin idle =>
                   /\ Cardinality(Entries') >= MaxStates
                   /\ \A y \in Entries' : ~IsActive(states[y]) =>
                        states[x].LastSeen <= states[y].LastSeen
<1>1. ASSUME IInv, IsFiniteSet(Entries), Next PROVE Fair
  <2> SUFFICES ASSUME lastOp' = "compact", NEW x \in Entries \ Entries'
               PROVE  /\ ~IsActive(states[x])
                      /\ x \notin IdleEntries(lastTick) =>
                           /\ Cardinality(Entries') >= MaxStates
                           /\ \A y \in Entries' : ~IsActive(states[y]) =>
                                states[x].LastSeen <= states[y].LastSeen
    OBVIOUS
  <2> DEFINE idle == IdleEntries(lastTick)
             kept == Entries \ idle
  <2>1. PICK victims \in CapVictims(kept) : states' = Evict(idle \cup victims)
    BY <1>1, CallsNamed DEF CompactStates
  <2>2. Entries' = kept \ victims
    BY <2>1 DEF Evict, Entries
  <2>3. \A y \in Entries : states[y] \in RuntimeState
                           /\ (states[y].CurrentState = Inactive <=> ~IsActive(states[y]))
    <3>1. \A y \in Entries : Fields(states[y]) /\ states[y] \in RuntimeState
      BY <1>1, GoodOfEntries DEF Steady
    <3> QED BY <3>1, PhasesDiffer DEF Fields, IsActive
  <2>4. IsFiniteSet(kept)
    BY <1>1, FS_Subset
  <2> HIDE DEF idle, kept
  <2>5. CASE x \in idle
    BY <2>3, <2>5 DEF idle, IdleEntries
  <2>6. CASE x \notin idle
    <3>1. x \in victims
      BY <2>2, <2>6 DEF kept
    <3>2. /\ x \in Candidates(kept) /\ Cardinality(kept \ victims) >= MaxStates
          /\ \A y \in Candidates(kept) \ victims : states[x].LastSeen <= states[y].LastSeen
      BY <2>1, <2>4, <3>1, CapTakes
    <3>3. ASSUME NEW y \in Entries', ~IsActive(states[y])
          PROVE  y \in Candidates(kept) \ victims
      BY <2>2, <2>3, <3>3 DEF Candidates, kept
    <3> QED BY <2>2, <2>3, <3>2, <3>3 DEF Candidates
  <2> QED BY <2>5, <2>6 DEF idle
<1>2. Init => IsFiniteSet(Entries)
  <2>1. Init => Entries = {}
    BY DEF Init, Entries
  <2> QED BY <2>1, FS_EmptySet
<1>3. IInv /\ IsFiniteSet(Entries) /\ [Next]_vars => IsFiniteSet(Entries)'
  BY EntriesFinite
<1>4. IInv /\ IsFiniteSet(Entries) /\ [Next]_vars => [Fair]_vars
  BY <1>1
<1> QED BY <1>2, <1>3, <1>4, EngineInvariant, PTL DEF Spec, EvictionOrder

-----------------------------------------------------------------------------
(* AlertEngine implements AlertLifecycle: every step of the engine is, for *)
(* every alert at once, a step of the abstract lifecycle.                  *)

\* What the refinement mapping makes of an entry of the map.
RaisedOf(e) == IF e = NoState THEN Nil ELSE e.RaisedAt
HeardOf(e) == IF e = NoState THEN Nil ELSE e.LastSeen

\* The names both modules use for the same things.
LEMMA SameNames ==
  /\ Lifecycle!Inactive = Inactive /\ Lifecycle!Nil = Nil
  /\ Lifecycle!Quiet = NoDecision
  /\ Lifecycle!Readings = Readings
  /\ Lifecycle!IsCountRule <=> rule.AlertType \in CountTypes
<1>1. Lifecycle!Inactive = Inactive
  BY Zenon DEF Lifecycle!Inactive, Inactive
<1>2. Lifecycle!Quiet = NoDecision
  BY <1>1 DEF Lifecycle!Quiet, NoDecision, Decide
<1>3. Lifecycle!Readings = Readings
  BY DEF Lifecycle!Readings, Readings
<1>4. Lifecycle!Nil = Nil
  BY DEF Lifecycle!Nil, Nil
<1>5. Lifecycle!IsCountRule <=> rule.AlertType \in CountTypes
  BY DEF Lifecycle!IsCountRule, CountTypes
<1> QED BY <1>1, <1>2, <1>3, <1>4, <1>5

\* An event, or nothing at all, leaves the phase as it was.
LEMMA StayMaps ==
  ASSUME NEW a \in AlertIds,
         PhaseOf(states'[a]) = PhaseOf(states[a]),
         RaisedOf(states'[a]) = RaisedOf(states[a]),
         \/ HeardOf(states'[a]) = HeardOf(states[a])
         \/ HeardOf(states'[a]) \in Readings,
         ~decisions'[a].StateChanged
  PROVE  Lifecycle!AlertStep(a)
BY SameNames DEF Lifecycle!AlertStep, Lifecycle!Stay, Lifecycle!Hear,
                 PhaseOf, RaisedOf, HeardOf

\* An entry is evicted.
LEMMA DropMaps ==
  ASSUME NEW a \in AlertIds, states'[a] = NoState, decisions'[a] = NoDecision
  PROVE  Lifecycle!AlertStep(a)
BY SameNames DEF Lifecycle!AlertStep, Lifecycle!Drop

\* An alert is raised.
LEMMA RaiseMaps ==
  ASSUME NEW a \in AlertIds, NEW phase,
         phase = IF rule.PendingEnabled THEN "pending" ELSE "firing",
         PhaseOf(states[a]) = Inactive, PhaseOf(states'[a]) = phase,
         decisions'[a] = Decide(phase, TRUE),
         RaisedOf(states'[a]) \in Readings,
         rule.AlertType \in CountTypes =>
           RaisedOf(states'[a]) = HeardOf(states'[a]),
         rule.AlertType \notin CountTypes =>
           /\ HeardOf(states[a]) # Nil
           /\ HeardOf(states'[a]) = HeardOf(states[a])
           /\ RaisedOf(states'[a]) - HeardOf(states[a]) >= rule.MissingSec
  PROVE  Lifecycle!AlertStep(a)
BY SameNames DEF Lifecycle!AlertStep, Lifecycle!RaiseAlert, Lifecycle!Notice,
     Lifecycle!RaiseCause, Lifecycle!Hear, Decide, PhaseOf, RaisedOf, HeardOf

\* A pending alert fires.
LEMMA ConfirmMaps ==
  ASSUME NEW a \in AlertIds,
         PhaseOf(states[a]) = "pending", PhaseOf(states'[a]) = "firing",
         decisions'[a] = Decide("firing", TRUE),
         clock - RaisedOf(states[a]) >= rule.DelaySec,
         RaisedOf(states'[a]) = RaisedOf(states[a]),
         rule.AlertType \in CountTypes => HeardOf(states'[a]) \in Readings,
         rule.AlertType \notin CountTypes =>
           /\ HeardOf(states'[a]) = HeardOf(states[a])
           /\ clock - HeardOf(states[a]) >= rule.MissingSec
  PROVE  Lifecycle!AlertStep(a)
BY SameNames DEF Lifecycle!AlertStep, Lifecycle!Confirm, Lifecycle!Notice,
     Lifecycle!Hear, Decide, PhaseOf, RaisedOf, HeardOf

\* An alert is resolved.
LEMMA ResolveMaps ==
  ASSUME NEW a \in AlertIds,
         PhaseOf(states[a]) \in {"pending", "firing"},
         PhaseOf(states'[a]) = Inactive, RaisedOf(states'[a]) = Nil,
         decisions'[a] = Resolved,
         rule.AlertType \in CountTypes =>
           /\ HeardOf(states'[a]) = HeardOf(states[a])
           /\ clock - HeardOf(states[a])
                >= rule.SilenceSec + rule.HysteresisSec,
         rule.AlertType \notin CountTypes =>
           /\ \/ HeardOf(states'[a]) = HeardOf(states[a])
              \/ HeardOf(states'[a]) \in Readings
           /\ HeardOf(states'[a]) >= RaisedOf(states[a]) - MaxLag
  PROVE  Lifecycle!AlertStep(a)
BY SameNames DEF Lifecycle!AlertStep, Lifecycle!ResolveAlert,
     Lifecycle!Notice, Lifecycle!Hear, Resolved, Decide,
     PhaseOf, RaisedOf, HeardOf

-----------------------------------------------------------------------------
(* What one evaluation does to the phase.                                  *)

\* The kinds of change, from state s to the result of an evaluation at t.
RaisesAt(r, s, t, res) ==
  LET phase == IF r.PendingEnabled THEN "pending" ELSE "firing"
  IN  /\ s.CurrentState = Inactive
      /\ res.state.CurrentState = phase /\ res.state.RaisedAt = t
      /\ res.decision = Decide(phase, TRUE)
ConfirmsAt(r, s, t, res) ==
  /\ s.CurrentState = "pending" /\ DelayServed(r, s, t)
  /\ res.state.CurrentState = "firing" /\ res.state.RaisedAt = s.RaisedAt
  /\ res.decision = Decide("firing", TRUE)
ResolvesNow(s, res) ==
  /\ IsActive(s)
  /\ res.state.CurrentState = Inactive /\ res.state.RaisedAt = Nil
  /\ res.decision = Resolved
Stays(s, res) ==
  /\ res.state.CurrentState = s.CurrentState
  /\ res.state.RaisedAt = s.RaisedAt
  /\ ~res.decision.StateChanged
  /\ res.decision \in {NoDecision, Decide(s.CurrentState, FALSE)}

\* applyActiveCondition with a condition that holds.
LEMMA ApplyActiveChange ==
  ASSUME NEW r \in Rules, NEW s \in RuntimeState, NEW t \in Nat
  PROVE  LET res == applyActive(r, s, t)
         IN  /\ res.state.LastSeen = s.LastSeen
             /\ \/ RaisesAt(r, s, t, res)
                \/ ConfirmsAt(r, s, t, res)
                \/ Stays(s, res)
<1> DEFINE res == applyActive(r, s, t)
           phase == IF r.PendingEnabled THEN "pending" ELSE "firing"
<1>1. CASE s.CurrentState = Inactive
  <2>1. res.state = Raise(s, t, phase) /\ res.decision = Decide(phase, TRUE)
    BY <1>1, PhasesDiffer DEF applyActive
  <2>2. /\ res.state.CurrentState = phase /\ res.state.RaisedAt = t
        /\ res.state.LastSeen = s.LastSeen
    BY <2>1 DEF Raise, RuntimeState
  <2> HIDE DEF res
  <2> QED BY <1>1, <2>1, <2>2 DEF RaisesAt, res
<1>2. CASE s.CurrentState = "pending" /\ DelayServed(r, s, t)
  <2>1. /\ res.state = [s EXCEPT !.HysteresisSince = Nil, !.PendingSince = Nil,
                                 !.CurrentState = "firing"]
        /\ res.decision = Decide("firing", TRUE)
    BY <1>2, PhasesDiffer DEF applyActive
  <2>2. /\ res.state.CurrentState = "firing"
        /\ res.state.RaisedAt = s.RaisedAt /\ res.state.LastSeen = s.LastSeen
    BY <2>1 DEF RuntimeState
  <2> HIDE DEF res
  <2> QED BY <1>2, <2>1, <2>2 DEF ConfirmsAt, res
<1>3. CASE /\ s.CurrentState # Inactive
           /\ ~(s.CurrentState = "pending" /\ DelayServed(r, s, t))
  <2>1. /\ res.state = [s EXCEPT !.HysteresisSince = Nil]
        /\ res.decision = Decide(s.CurrentState, FALSE)
    BY <1>3 DEF applyActive
  <2>2. /\ res.state.CurrentState = s.CurrentState
        /\ res.state.RaisedAt = s.RaisedAt /\ res.state.LastSeen = s.LastSeen
    BY <2>1 DEF RuntimeState
  <2>3. ~res.decision.StateChanged /\ res.decision = Decide(s.CurrentState, FALSE)
    BY <2>1 DEF Decide
  <2> HIDE DEF res
  <2> QED BY <2>2, <2>3 DEF Stays, res
<1> QED BY <1>1, <1>2, <1>3

\* resetResolvedState ends a life.
LEMMA ResolveChange ==
  ASSUME NEW s \in RuntimeState, IsActive(s)
  PROVE  /\ ResolvesNow(s, Resolve(s))
         /\ Resolve(s).state.LastSeen = s.LastSeen
<1>1. /\ Resolve(s).state = resetResolvedState(s)
      /\ Resolve(s).decision = Resolved
  BY DEF Resolve
<1>2. LET s1 == resetResolvedState(s)
      IN  /\ s1.CurrentState = Inactive /\ s1.RaisedAt = Nil
          /\ s1.LastSeen = s.LastSeen
  BY DEF resetResolvedState, RuntimeState
<1> QED BY <1>1, <1>2 DEF ResolvesNow

\* The state applyActiveCondition is called with shows the old phase.
SamePhase(s, s1) ==
  /\ s1.CurrentState = s.CurrentState /\ s1.RaisedAt = s.RaisedAt
  /\ s1.PendingSince = s.PendingSince /\ s1.LastSeen = s.LastSeen

\* applyActiveCondition, whatever the condition.
LEMMA ConditionChange ==
  ASSUME NEW r \in Rules, NEW s, NEW s1 \in RuntimeState, SamePhase(s, s1),
         NEW t \in Nat, NEW active \in BOOLEAN
  PROVE  LET res == applyActiveCondition(r, s1, t, active)
         IN  /\ res.state.LastSeen = s.LastSeen
             /\ \/ RaisesAt(r, s, t, res)
                \/ ConfirmsAt(r, s, t, res)
                \/ Stays(s, res)
<1> DEFINE res == applyActiveCondition(r, s1, t, active)
<1>1. CASE active
  <2>1. res = applyActive(r, s1, t)
    BY <1>1 DEF applyActiveCondition
  <2>2. /\ res.state.LastSeen = s1.LastSeen
        /\ \/ RaisesAt(r, s1, t, res)
           \/ ConfirmsAt(r, s1, t, res)
           \/ Stays(s1, res)
    BY <2>1, ApplyActiveChange
  <2> HIDE DEF res
  <2>3. CASE RaisesAt(r, s1, t, res)
    BY <2>2, <2>3 DEF RaisesAt, SamePhase, res
  <2>4. CASE ConfirmsAt(r, s1, t, res)
    BY <2>2, <2>4 DEF ConfirmsAt, DelayServed, SamePhase, res
  <2>5. CASE Stays(s1, res)
    BY <2>2, <2>5 DEF Stays, SamePhase, res
  <2> QED BY <2>2, <2>3, <2>4, <2>5
<1>2. CASE ~active
  <2>1. res.state = s1 /\ res.decision = NoDecision
    BY <1>2 DEF applyActiveCondition
  <2> HIDE DEF res
  <2> QED BY <2>1 DEF Stays, SamePhase, NoDecision, Decide, res
<1> QED BY <1>1, <1>2

\* An event of a counting rule: it never resolves.
LEMMA CountEventChange ==
  ASSUME NEW r \in Rules, r.AlertType \in CountTypes,
         NEW s, NEW now \in Nat, NEW t \in 0..now, t >= now - MaxLag,
         Steady(r, s, now), NEW cnt \in Counts
  PROVE  LET res == IF r.AlertType = "count_total"
                    THEN CountTotalEvent(r, s, cnt, t)
                    ELSE CountWindowEvent(r, s, cnt, t)
         IN  /\ res.state.LastSeen = s.LastSeen
             /\ \/ RaisesAt(r, s, t, res)
                \/ ConfirmsAt(r, s, t, res)
                \/ Stays(s, res)
<1>1. s \in RuntimeState /\ Fields(s) /\ cnt \in Nat /\ t \in Nat
  BY StateFields, CountsFinite DEF Steady
<1>2. CASE r.AlertType = "count_total"
  <2> DEFINE s1 == [s EXCEPT !.Initialized = TRUE, !.CountTotal = @ + cnt]
             active == s1.CountTotal >= r.N
  <2>1. s.CountTotal + cnt \in Nat
    BY <1>1 DEF Fields
  <2>2. s1 \in RuntimeState /\ SamePhase(s, s1)
    BY <1>1, <2>1 DEF RuntimeState, SamePhase
  <2>3. CountTotalEvent(r, s, cnt, t) = applyActiveCondition(r, s1, t, active)
    BY DEF CountTotalEvent
  <2>4. active \in BOOLEAN
    OBVIOUS
  <2> HIDE DEF s1, active
  <2> QED BY <1>1, <1>2, <2>2, <2>3, <2>4, ConditionChange
<1>3. CASE r.AlertType = "count_window"
  <2> DEFINE w == pruneWindow(Append(s.CountWindow, [At |-> t, Count |-> cnt]),
                              s.CountWindowSum + cnt, t, r.WindowSec)
             s1 == [s EXCEPT !.Initialized = TRUE, !.CountWindow = w.points,
                             !.CountWindowSum = w.sum]
             active == w.sum >= r.N
  <2>1. w.points \in Seq(WindowPoint) /\ w.sum \in Nat
    <3>1. w = EventWindow(r, s, cnt, t)
      BY Zenon DEF EventWindow
    <3> HIDE DEF w
    <3>2. Summed(EventWindow(r, s, cnt, t))
      BY WindowOfEvent
    <3> QED BY <3>1, <3>2, Zenon DEF Summed
  <2>2. CountWindowEvent(r, s, cnt, t) = applyActiveCondition(r, s1, t, active)
    BY Zenon DEF CountWindowEvent
  <2> HIDE DEF w
  <2>3. s1 \in RuntimeState /\ SamePhase(s, s1)
    BY <1>1, <2>1 DEF RuntimeState, SamePhase
  <2>4. active \in BOOLEAN
    OBVIOUS
  <2> HIDE DEF s1, active
  <2> QED BY <1>1, <1>3, <2>2, <2>3, <2>4, ConditionChange
<1> QED BY <1>2, <1>3 DEF CountTypes

\* An event of a heartbeat never raises, and decides whenever it is raised.
LEMMA HeartbeatEventChange ==
  ASSUME NEW r \in Rules, NEW s \in RuntimeState, NEW t \in Nat,
         ~s.Initialized => s.CurrentState = Inactive
  PROVE  LET res == HeartbeatEvent(r, s, t)
         IN  /\ res.state.LastSeen = s.LastSeen
             /\ \/ ResolvesNow(s, res)
                \/ Stays(s, res) /\ res.decision = Decide(s.CurrentState, FALSE)
<1> DEFINE res == HeartbeatEvent(r, s, t)
           since == RecoverySince(s, t)
           quiet == [s EXCEPT !.Initialized = TRUE, !.CurrentState = Inactive,
                              !.PendingSince = Nil, !.HysteresisSince = Nil]
           timed == [s EXCEPT !.HysteresisSince = since]
<1>1. CASE ~s.Initialized
  <2>1. res.state = quiet /\ res.decision = NoDecision
    BY <1>1 DEF HeartbeatEvent, Keep
  <2>2. /\ quiet.CurrentState = Inactive /\ quiet.RaisedAt = s.RaisedAt
        /\ quiet.LastSeen = s.LastSeen
    BY DEF RuntimeState
  <2> HIDE DEF res, quiet
  <2>3. res.decision = Decide(s.CurrentState, FALSE)
    BY <1>1, <2>1 DEF NoDecision
  <2>4. ~res.decision.StateChanged
    BY <2>3 DEF Decide
  <2> QED BY <1>1, <2>1, <2>2, <2>3, <2>4 DEF Stays, res
<1>2. CASE s.Initialized /\ ~IsActive(s)
  <2>1. res.state = s /\ res.decision = NoDecision
    BY <1>2 DEF HeartbeatEvent, Keep
  <2>2. s.CurrentState = Inactive
    BY <1>2 DEF IsActive, RuntimeState
  <2> HIDE DEF res
  <2>3. res.decision = Decide(s.CurrentState, FALSE)
    BY <2>1, <2>2 DEF NoDecision
  <2>4. ~res.decision.StateChanged
    BY <2>3 DEF Decide
  <2> QED BY <2>1, <2>3, <2>4 DEF Stays, res
<1>3. CASE s.Initialized /\ IsActive(s) /\ t - since < r.HysteresisSec
  <2>1. res.state = timed /\ res.decision = Decide(s.CurrentState, FALSE)
    BY <1>3 DEF HeartbeatEvent, Keep
  <2>2. /\ timed.CurrentState = s.CurrentState
        /\ timed.RaisedAt = s.RaisedAt /\ timed.LastSeen = s.LastSeen
    BY DEF RuntimeState
  <2> HIDE DEF res, timed
  <2> QED BY <2>1, <2>2 DEF Stays, Decide, res
<1>4. CASE s.Initialized /\ IsActive(s) /\ ~(t - since < r.HysteresisSec)
  <2>1. res = Resolve(s)
    BY <1>4 DEF HeartbeatEvent
  <2> HIDE DEF res
  <2> QED BY <1>4, <2>1, ResolveChange DEF res
<1> QED BY <1>1, <1>2, <1>3, <1>4

\* A tick resolves a silent count alert, raises or confirms a missing
\* heartbeat, or resolves one whose recovery is running.
LEMMA TickChange ==
  ASSUME NEW r \in Rules, NEW s, NEW now \in Nat,
         NEW last \in Nat, NEW t \in last..now,
         Good(r, s, now, last)
  PROVE  LET res == EvalTick(r, s, t)
         IN  /\ res.state.LastSeen = s.LastSeen
             /\ \/ /\ Stays(s, res)
                   /\ r.AlertType \in CountTypes => res.decision = NoDecision
                \/ /\ ResolvesNow(s, res)
                   /\ r.AlertType \in CountTypes => Silent(r, s, t)
                   /\ r.AlertType \notin CountTypes => s.HysteresisSince # Nil
                \/ /\ RaisesAt(r, s, t, res) \/ ConfirmsAt(r, s, t, res)
                   /\ r.AlertType \notin CountTypes /\ Missing(r, s, t)
<1> DEFINE res == EvalTick(r, s, t)
           since == RecoverySince(s, s.LastSeen)
<1>1. s \in RuntimeState /\ Fields(s) /\ s.Initialized /\ t \in Nat
  BY StateFields DEF Good, Steady
<1>2. ASSUME res = Keep(s, NoDecision)
      PROVE  /\ res.state.LastSeen = s.LastSeen /\ Stays(s, res)
             /\ res.decision = NoDecision
  <2>1. res.state = s /\ res.decision = NoDecision
    BY <1>2 DEF Keep
  <2> HIDE DEF res
  <2> QED BY <2>1 DEF Stays, NoDecision, Decide
<1>3. ASSUME res = Resolve(s), IsActive(s)
      PROVE  res.state.LastSeen = s.LastSeen /\ ResolvesNow(s, res)
  BY <1>1, <1>3, ResolveChange
<1>4. CASE r.AlertType \in CountTypes
  <2>1. \/ res = Keep(s, NoDecision)
        \/ res = Resolve(s) /\ IsActive(s) /\ Silent(r, s, t)
    BY <1>4 DEF EvalTick, CountTick
  <2> HIDE DEF res
  <2> QED BY <1>2, <1>3, <1>4, <2>1 DEF res
<1>5. CASE r.AlertType \notin CountTypes /\ Missing(r, s, t)
  <2>1. res = applyActive(r, s, t)
    BY <1>1, <1>5 DEF EvalTick, HeartbeatTick
  <2>2. /\ res.state.LastSeen = s.LastSeen
        /\ \/ RaisesAt(r, s, t, res)
           \/ ConfirmsAt(r, s, t, res)
           \/ Stays(s, res)
    BY <1>1, <2>1, ApplyActiveChange
  <2> HIDE DEF res
  <2> QED BY <1>5, <2>2 DEF res
<1>6. CASE r.AlertType \notin CountTypes /\ ~Missing(r, s, t)
  <2>1. IsActive(s) => s.HysteresisSince # Nil
    BY <1>6, RecoveryRuns
  <2>2. \/ res = Keep(s, NoDecision)
        \/ IsActive(s) /\ res = Resolve(s)
        \/ IsActive(s) /\ res = Keep([s EXCEPT !.HysteresisSince = since],
                                     Decide(s.CurrentState, FALSE))
    BY <1>1, <1>6, BackTick
  <2>3. CASE res = Keep(s, NoDecision)
    BY <1>2, <1>6, <2>3
  <2>4. CASE IsActive(s) /\ res = Resolve(s)
    <3> HIDE DEF res
    <3> QED BY <1>3, <1>6, <2>1, <2>4 DEF res
  <2>5. CASE res = Keep([s EXCEPT !.HysteresisSince = since],
                        Decide(s.CurrentState, FALSE))
    <3> DEFINE timed == [s EXCEPT !.HysteresisSince = since]
    <3>1. /\ timed.CurrentState = s.CurrentState
          /\ timed.RaisedAt = s.RaisedAt /\ timed.LastSeen = s.LastSeen
      BY <1>1 DEF RuntimeState
    <3> HIDE DEF res
    <3>2. /\ res.state = timed /\ ~res.decision.StateChanged
          /\ res.decision = Decide(s.CurrentState, FALSE)
      BY <2>5 DEF Keep, Decide
    <3> HIDE DEF timed
    <3> QED BY <1>6, <3>1, <3>2 DEF Stays, res
  <2> QED BY <2>2, <2>3, <2>4, <2>5
<1> QED BY <1>4, <1>5, <1>6

-----------------------------------------------------------------------------
(* The steps of the engine, alert by alert.                                *)

\* A reading at which a count alert is silent, or a heartbeat missing, is not
\* later than the clock.
LEMMA ReadingFacts ==
  ASSUME IInv, NEW t \in Readings
  PROVE  /\ t \in Nat /\ t <= clock /\ t >= clock - MaxLag
         /\ clock \in Nat /\ lastTick \in Nat /\ lastTick <= clock
         /\ rule \in Rules /\ MaxLag \in Nat
BY BoundFacts DEF IInv, TypeOK, Readings

\* What ProcessEvent makes of its alert's entry: from the state s, the entry
\* with the event seen, to the result res.
EventOf(a, t, s, res) ==
  /\ Steady(rule, s, clock) /\ s \in RuntimeState
  /\ s.CurrentState = PhaseOf(states[a]) /\ s.RaisedAt = RaisedOf(states[a])
  /\ states'[a] # NoState /\ decisions'[a] = res.decision
  /\ PhaseOf(states'[a]) = res.state.CurrentState
  /\ RaisedOf(states'[a]) = res.state.RaisedAt
  /\ HeardOf(states'[a]) = t
  /\ rule.AlertType \in CountTypes =>
       \/ RaisesAt(rule, s, t, res)
       \/ ConfirmsAt(rule, s, t, res)
       \/ Stays(s, res)
  /\ rule.AlertType \notin CountTypes =>
       \/ ResolvesNow(s, res)
       \/ Stays(s, res) /\ res.decision = Decide(s.CurrentState, FALSE)

LEMMA EventResult ==
  ASSUME IInv, NEW a \in AlertIds, NEW cnt \in Counts, NEW t \in Readings,
         ProcessEvent(a, cnt, t)
  PROVE  \E s, res : EventOf(a, t, s, res)
<1> DEFINE base == IF states[a] = NoState THEN FreshState ELSE states[a]
           s == [base EXCEPT !.LastSeen = t]
           res == EvalEvent(rule, states[a], cnt, t)
<1>1. /\ t \in Nat /\ t <= clock /\ t >= clock - MaxLag /\ t \in 0..clock
      /\ clock \in Nat /\ rule \in Rules /\ MaxLag \in Nat
  BY ReadingFacts
<1>2. /\ Steady(rule, s, clock) /\ s.LastSeen = t
      /\ ~s.Initialized => s.CurrentState = Inactive
      /\ s.CurrentState = PhaseOf(states[a])
      /\ s.RaisedAt = RaisedOf(states[a])
  <2>1. CASE states[a] = NoState
    <3>1. s = [FreshState EXCEPT !.LastSeen = t]
      BY <2>1
    <3>2. /\ s.LastSeen = t /\ s.CurrentState = Inactive /\ s.RaisedAt = Nil
      BY <3>1 DEF FreshState
    <3> HIDE DEF s
    <3>3. Steady(rule, s, clock)
      BY <1>1, <3>1, FreshSteady
    <3> QED BY <2>1, <3>2, <3>3 DEF PhaseOf, RaisedOf
  <2>2. CASE states[a] # NoState
    <3>1. s = [states[a] EXCEPT !.LastSeen = t]
      BY <2>2
    <3>2. /\ states[a] \in RuntimeState /\ Steady(rule, states[a], clock)
          /\ states[a].Initialized
      BY <2>2 DEF IInv, GoodEntries, GoodEntry, Good, Steady
    <3>3. /\ s.Initialized /\ s.CurrentState = states[a].CurrentState
          /\ s.RaisedAt = states[a].RaisedAt
      BY <3>1, <3>2 DEF RuntimeState
    <3> HIDE DEF s
    <3>4. Steady(rule, s, clock) /\ s.LastSeen = t
      BY <1>1, <3>1, <3>2, SeenSteady
    <3> QED BY <2>2, <3>3, <3>4 DEF PhaseOf, RaisedOf
  <2> QED BY <2>1, <2>2
<1>3. res = CASE rule.AlertType = "count_total"  -> CountTotalEvent(rule, s, cnt, t)
              [] rule.AlertType = "count_window" ->
                   CountWindowEvent(rule, s, cnt, t)
              [] OTHER                           -> HeartbeatEvent(rule, s, t)
  BY Zenon DEF EvalEvent
<1>4. Good(rule, res.state, clock, lastTick)
  <2>1. GoodEntry(rule, states[a], clock, lastTick) /\ lastTick \in Nat
    BY ReadingFacts DEF IInv, GoodEntries
  <2> QED BY <1>1, <2>1, EventGood
<1>5. states'[a] = res.state /\ decisions'[a] = res.decision
  <2>1. states \in [AlertIds -> RuntimeState \cup {NoState}]
    BY DEF IInv, TypeOK
  <2> QED BY <2>1 DEF ProcessEvent, Quiet
<1> HIDE DEF s, res
<1>6. res.state # NoState
  BY <1>4, NoStateAssumption DEF Good, Steady
<1>7. /\ PhaseOf(states'[a]) = res.state.CurrentState
      /\ RaisedOf(states'[a]) = res.state.RaisedAt
      /\ HeardOf(states'[a]) = res.state.LastSeen
  BY <1>5, <1>6 DEF PhaseOf, RaisedOf, HeardOf
<1>8. s \in RuntimeState /\ Fields(s)
  BY <1>2, StateFields DEF Steady
<1>9. rule.AlertType \in CountTypes =>
        /\ res.state.LastSeen = t
        /\ \/ RaisesAt(rule, s, t, res)
           \/ ConfirmsAt(rule, s, t, res)
           \/ Stays(s, res)
  <2> SUFFICES ASSUME rule.AlertType \in CountTypes
               PROVE  /\ res.state.LastSeen = t
                      /\ \/ RaisesAt(rule, s, t, res)
                         \/ ConfirmsAt(rule, s, t, res)
                         \/ Stays(s, res)
    OBVIOUS
  <2>1. res = IF rule.AlertType = "count_total"
              THEN CountTotalEvent(rule, s, cnt, t)
              ELSE CountWindowEvent(rule, s, cnt, t)
    BY <1>3 DEF CountTypes
  <2> QED BY <1>1, <1>2, <2>1, CountEventChange
<1>10. rule.AlertType \notin CountTypes =>
         /\ res.state.LastSeen = t
         /\ \/ ResolvesNow(s, res)
            \/ Stays(s, res) /\ res.decision = Decide(s.CurrentState, FALSE)
  <2> SUFFICES ASSUME rule.AlertType \notin CountTypes
               PROVE  /\ res.state.LastSeen = t
                      /\ \/ ResolvesNow(s, res)
                         \/ /\ Stays(s, res)
                            /\ res.decision = Decide(s.CurrentState, FALSE)
    OBVIOUS
  <2>1. res = HeartbeatEvent(rule, s, t)
    BY <1>3 DEF CountTypes
  <2> QED BY <1>1, <1>2, <1>8, <2>1, HeartbeatEventChange
<1>11. EventOf(a, t, s, res)
  BY <1>2, <1>5, <1>6, <1>7, <1>8, <1>9, <1>10 DEF EventOf
<1> QED BY <1>11

\* ProcessEvent is a lifecycle step of its alert.
LEMMA EventMaps ==
  ASSUME IInv, NEW a \in AlertIds, NEW cnt \in Counts, NEW t \in Readings,
         ProcessEvent(a, cnt, t)
  PROVE  Lifecycle!AlertStep(a)
<1>1. /\ t \in Nat /\ t <= clock /\ t >= clock - MaxLag
      /\ clock \in Nat /\ rule \in Rules /\ MaxLag \in Nat
  BY ReadingFacts
<1>2. PICK s, res : EventOf(a, t, s, res)
  BY EventResult
<1>3. Steady(rule, s, clock) /\ Fields(s)
  BY <1>2, StateFields DEF EventOf
<1>4. CASE rule.AlertType \in CountTypes /\ RaisesAt(rule, s, t, res)
  BY <1>2, <1>4, RaiseMaps DEF RaisesAt, EventOf
<1>5. CASE rule.AlertType \in CountTypes /\ ConfirmsAt(rule, s, t, res)
  <2>1. clock - RaisedOf(states[a]) >= rule.DelaySec
    <3>1. s.PendingSince = s.RaisedAt /\ s.RaisedAt = RaisedOf(states[a])
      BY <1>2, <1>3, <1>5 DEF ConfirmsAt, Steady, Past, EventOf
    <3> QED BY <1>1, <1>3, <1>5, <3>1, RuleFacts DEF ConfirmsAt, DelayServed, Fields
  <2> QED BY <1>2, <1>5, <2>1, ConfirmMaps DEF ConfirmsAt, EventOf
<1>6. CASE rule.AlertType \notin CountTypes /\ ResolvesNow(s, res)
  <2>1. t >= s.RaisedAt - MaxLag
    BY <1>1, <1>3 DEF Steady, Past, Fields
  <2> QED BY <1>2, <1>6, <2>1, ResolveMaps DEF ResolvesNow, IsActive, EventOf
<1>7. CASE Stays(s, res)
  BY <1>2, <1>7, StayMaps DEF Stays, EventOf
<1> QED BY <1>2, <1>4, <1>5, <1>6, <1>7 DEF EventOf

\* A tick is a lifecycle step of every alert.
LEMMA TickMaps ==
  ASSUME IInv, NEW a \in AlertIds, NEW t \in Readings, TickRuleWithFiring(t)
  PROVE  Lifecycle!AlertStep(a)
<1>1. /\ t \in Nat /\ t <= clock /\ t >= clock - MaxLag
      /\ clock \in Nat /\ lastTick \in Nat /\ rule \in Rules /\ MaxLag \in Nat
  BY ReadingFacts
<1>2. t \in lastTick..clock
  BY <1>1 DEF TickRuleWithFiring
<1>3. CASE states[a] = NoState
  <2>1. states'[a] = NoState /\ decisions'[a] = NoDecision
    BY <1>3 DEF TickRuleWithFiring
  <2> QED BY <2>1, DropMaps
<1>4. CASE states[a] # NoState
  <2> DEFINE s == states[a]
             res == EvalTick(rule, s, t)
  <2>1. Good(rule, s, clock, lastTick)
    BY <1>4 DEF IInv, GoodEntries, GoodEntry
  <2>2. s \in RuntimeState /\ Fields(s) /\ s.LastSeen # Nil
        /\ Steady(rule, s, clock)
    BY <2>1, StateFields DEF Good, Steady
  <2>3. Good(rule, res.state, clock, t)
    BY <1>1, <1>2, <2>1, TickGood
  <2>4. /\ res.state.LastSeen = s.LastSeen
        /\ \/ /\ Stays(s, res)
              /\ rule.AlertType \in CountTypes => res.decision = NoDecision
           \/ /\ ResolvesNow(s, res)
              /\ rule.AlertType \in CountTypes => Silent(rule, s, t)
              /\ rule.AlertType \notin CountTypes => s.HysteresisSince # Nil
           \/ /\ RaisesAt(rule, s, t, res) \/ ConfirmsAt(rule, s, t, res)
              /\ rule.AlertType \notin CountTypes /\ Missing(rule, s, t)
    BY <1>1, <1>2, <2>1, TickChange
  <2>5. states'[a] = res.state /\ decisions'[a] = res.decision
    BY <1>4 DEF TickRuleWithFiring
  <2> HIDE DEF res
  <2>6. res.state # NoState
    BY <2>3, NoStateAssumption DEF Good, Steady
  <2>7. /\ PhaseOf(states[a]) = s.CurrentState
        /\ RaisedOf(states[a]) = s.RaisedAt /\ HeardOf(states[a]) = s.LastSeen
        /\ PhaseOf(states'[a]) = res.state.CurrentState
        /\ RaisedOf(states'[a]) = res.state.RaisedAt
        /\ HeardOf(states'[a]) = s.LastSeen
    BY <1>4, <2>4, <2>5, <2>6 DEF PhaseOf, RaisedOf, HeardOf
  <2>8. CASE Stays(s, res)
    BY <2>5, <2>7, <2>8, StayMaps DEF Stays
  <2>9. CASE /\ ResolvesNow(s, res)
             /\ rule.AlertType \in CountTypes /\ Silent(rule, s, t)
    <3>1. clock - s.LastSeen >= rule.SilenceSec + rule.HysteresisSec
      <4>1. /\ s.LastSeen \in Int /\ clock \in Nat /\ t \in Nat /\ t <= clock
            /\ rule.SilenceSec + rule.HysteresisSec \in Nat
        BY <1>1, <2>2, RuleFacts DEF Fields
      <4>2. t - s.LastSeen >= rule.SilenceSec + rule.HysteresisSec
        BY <2>9 DEF Silent, ResolveAfter
      <4> QED BY <4>1, <4>2
    <3> QED BY <2>5, <2>7, <2>9, <3>1, ResolveMaps DEF ResolvesNow, IsActive
  <2>10. CASE /\ ResolvesNow(s, res)
              /\ rule.AlertType \notin CountTypes /\ s.HysteresisSince # Nil
    <3>1. s.LastSeen >= s.RaisedAt - MaxLag
      BY <2>1, <2>10 DEF Good, Witness, ResolvesNow
    <3> QED BY <2>5, <2>7, <2>10, <3>1, ResolveMaps DEF ResolvesNow, IsActive
  <2>11. CASE /\ RaisesAt(rule, s, t, res)
              /\ rule.AlertType \notin CountTypes /\ Missing(rule, s, t)
    BY <2>2, <2>5, <2>7, <2>11, RaiseMaps DEF RaisesAt, Missing
  <2>12. CASE /\ ConfirmsAt(rule, s, t, res)
              /\ rule.AlertType \notin CountTypes /\ Missing(rule, s, t)
    <3>1. s.PendingSince = s.RaisedAt
      BY <2>2, <2>12 DEF ConfirmsAt, Steady, Past
    <3>2. /\ clock - s.RaisedAt >= rule.DelaySec
          /\ clock - s.LastSeen >= rule.MissingSec
      <4>1. /\ s.RaisedAt \in Int /\ s.LastSeen \in Int
            /\ rule.DelaySec \in Nat /\ rule.MissingSec \in Nat
        BY <1>1, <2>2, RuleFacts DEF Fields
      <4>2. t - s.RaisedAt >= rule.DelaySec /\ t - s.LastSeen >= rule.MissingSec
        BY <2>12, <3>1 DEF ConfirmsAt, DelayServed, Missing
      <4> QED BY <1>1, <4>1, <4>2
    <3> QED BY <2>5, <2>7, <2>12, <3>2, ConfirmMaps DEF ConfirmsAt
  <2> QED BY <2>4, <2>8, <2>9, <2>10, <2>11, <2>12
<1> QED BY <1>3, <1>4

\* Eviction and removal are drops of the alerts concerned.
LEMMA EvictMaps ==
  ASSUME NEW a \in AlertIds, NEW ids, states' = Evict(ids), decisions' = Quiet
  PROVE  Lifecycle!AlertStep(a)
<1>1. decisions'[a] = NoDecision /\ ~decisions'[a].StateChanged
  BY DEF Quiet, NoDecision, Decide
<1>2. CASE a \in ids
  BY <1>1, <1>2, DropMaps DEF Evict
<1>3. CASE a \notin ids
  <2>1. states'[a] = states[a]
    BY <1>3 DEF Evict
  <2> QED BY <1>1, <2>1, StayMaps
<1> QED BY <1>2, <1>3

\* Nothing happens to an alert.
LEMMA QuietMaps ==
  ASSUME NEW a \in AlertIds, states'[a] = states[a],
         decisions'[a] = NoDecision
  PROVE  Lifecycle!AlertStep(a)
<1>1. ~decisions'[a].StateChanged
  BY DEF NoDecision, Decide
<1> QED BY <1>1, StayMaps

-----------------------------------------------------------------------------
(* The refinement.                                                         *)

\* The engine starts as the lifecycle does.
LEMMA InitRefines == Init => Lifecycle!Init
<1> SUFFICES ASSUME Init PROVE Lifecycle!Init
  OBVIOUS
<1>1. /\ rule \in Rules /\ clock = 0 /\ decisions = Quiet
      /\ states = [a \in AlertIds |-> NoState]
  BY DEF Init
<1>2. \A a \in AlertIds : states[a] = NoState
  BY <1>1
<1> QED BY <1>1, <1>2, SameNames DEF Lifecycle!Init, Quiet

\* Every step of the engine is a step of the lifecycle or changes nothing.
LEMMA NextRefines == IInv /\ [Next]_vars => [Lifecycle!Next]_(Lifecycle!vars)
<1> SUFFICES ASSUME IInv, [Next]_vars
             PROVE  Lifecycle!Next \/ UNCHANGED Lifecycle!vars
  OBVIOUS
<1>0. states \in [AlertIds -> RuntimeState \cup {NoState}]
  BY DEF IInv, TypeOK
<1>1. ASSUME NEW a \in AlertIds, NEW cnt \in Counts, NEW t \in Readings,
             ProcessEvent(a, cnt, t)
      PROVE  Lifecycle!Next
  <2>1. rule' = rule /\ clock' = clock
    BY <1>1 DEF ProcessEvent
  <2>2. ASSUME NEW b \in AlertIds PROVE Lifecycle!AlertStep(b)
    <3>1. CASE b = a
      BY <1>1, <3>1, EventMaps
    <3>2. CASE b # a
      <4>1. states'[b] = states[b] /\ decisions'[b] = NoDecision
        BY <1>0, <1>1, <3>2 DEF ProcessEvent, Quiet
      <4> QED BY <4>1, QuietMaps
    <3> QED BY <3>1, <3>2
  <2> QED BY <2>1, <2>2 DEF Lifecycle!Next
<1>2. ASSUME NEW t \in Readings, TickRuleWithFiring(t)
      PROVE  Lifecycle!Next
  <2>1. rule' = rule /\ clock' = clock
    BY <1>2 DEF TickRuleWithFiring
  <2> QED BY <1>2, <2>1, TickMaps DEF Lifecycle!Next
<1>3. ASSUME CompactStates PROVE Lifecycle!Next
  <2>1. rule' = rule /\ clock' = clock /\ decisions' = Quiet
    BY <1>3 DEF CompactStates
  <2>2. PICK ids : states' = Evict(ids)
    BY <1>3 DEF CompactStates
  <2> QED BY <2>1, <2>2, EvictMaps DEF Lifecycle!Next
<1>4. ASSUME NEW a \in AlertIds, RemoveAlertState(a) PROVE Lifecycle!Next
  <2>1. /\ rule' = rule /\ clock' = clock /\ decisions' = Quiet
        /\ states' = Evict({a})
    BY <1>4 DEF RemoveAlertState
  <2> QED BY <2>1, EvictMaps DEF Lifecycle!Next
<1>5. ASSUME AdvanceClock PROVE Lifecycle!Next
  <2>1. /\ rule' = rule /\ clock' = clock + 1 /\ decisions' = Quiet
        /\ states' = states
    BY <1>5 DEF AdvanceClock
  <2>2. \A a \in AlertIds : decisions'[a] = NoDecision
    BY <2>1 DEF Quiet
  <2> QED BY <2>1, <2>2, QuietMaps DEF Lifecycle!Next
<1>6. CASE UNCHANGED vars
  BY <1>6 DEF vars, Lifecycle!vars
<1> QED BY <1>1, <1>2, <1>3, <1>4, <1>5, <1>6 DEF Next

\* Every phase change of an alert has the cause its rule's type demands and is
\* announced by the decision returned: the engine implements the lifecycle
\* (ProcessEvent, TickRuleWithFiring, CompactStates, RemoveAlertState).
THEOREM EngineImplementsLifecycle == Spec => LifecycleSpec
<1>1. Init => Lifecycle!Init
  BY InitRefines
<1>2. IInv /\ [Next]_vars => [Lifecycle!Next]_(Lifecycle!vars)
  BY NextRefines
<1>3. Spec => Lifecycle!Spec
  BY <1>1, <1>2, EngineInvariant, PTL DEF Spec, Lifecycle!Spec
<1> QED BY <1>3 DEF LifecycleSpec

-----------------------------------------------------------------------------
(* Every evaluation comes to an outcome AlertManager reckons with.         *)

\* The outcomes of RuleOutcomes, by what the evaluation changed.
LEMMA OutcomeOfChange ==
  ASSUME NEW s \in RuntimeState, NEW t, NEW res
  PROVE  LET o == Outcomes!Outcome(res.state.CurrentState, res.decision.State,
                                   res.decision.StateChanged)
         IN  /\ RaisesAt(rule, s, t, res) => o = Outcomes!Raising
             /\ ConfirmsAt(rule, s, t, res) => o = Outcomes!Confirmation
             /\ ResolvesNow(s, res) => o = Outcomes!Resolution
             /\ Stays(s, res) /\ res.decision = NoDecision =>
                  o = Outcomes!Nothing(s.CurrentState)
             /\ Stays(s, res) /\ res.decision = Decide(s.CurrentState, FALSE) =>
                  o = Outcomes!Hold(s.CurrentState)
<1> DEFINE o == Outcomes!Outcome(res.state.CurrentState, res.decision.State,
                                 res.decision.StateChanged)
<1>1. \A ph, st, c :
        /\ res.state.CurrentState = ph /\ res.decision = Decide(st, c)
        => o = Outcomes!Outcome(ph, st, c)
  BY DEF Decide
<1>2. Outcomes!Inactive = Inactive
  BY DEF Outcomes!Inactive, Inactive
<1> HIDE DEF o
<1>3. RaisesAt(rule, s, t, res) => o = Outcomes!Raising
  BY <1>1 DEF RaisesAt, Outcomes!Raising, Outcomes!Raised
<1>4. ConfirmsAt(rule, s, t, res) => o = Outcomes!Confirmation
  BY <1>1 DEF ConfirmsAt, Outcomes!Confirmation
<1>5. ResolvesNow(s, res) => o = Outcomes!Resolution
  BY <1>1, <1>2 DEF ResolvesNow, Resolved, Outcomes!Resolution
<1>6. Stays(s, res) /\ res.decision = NoDecision =>
        o = Outcomes!Nothing(s.CurrentState)
  BY <1>1, <1>2 DEF Stays, NoDecision, Outcomes!Nothing
<1>7. Stays(s, res) /\ res.decision = Decide(s.CurrentState, FALSE) =>
        o = Outcomes!Hold(s.CurrentState)
  BY <1>1 DEF Stays, Outcomes!Hold
<1> QED BY <1>3, <1>4, <1>5, <1>6, <1>7 DEF o

\* The phases from which an evaluation may come to each outcome.
LEMMA OutcomeSets ==
  /\ rule.AlertType \in CountTypes =>
       /\ Outcomes!Raising \in Outcomes!EventOutcomes(Inactive)
       /\ Outcomes!Confirmation \in Outcomes!EventOutcomes("pending")
       /\ \A ph \in {Inactive, "pending", "firing"} :
            /\ Outcomes!Nothing(ph) \in Outcomes!EventOutcomes(ph)
            /\ Outcomes!Nothing(ph) \in Outcomes!TickOutcomes(ph)
       /\ \A ph \in {"pending", "firing"} :
            /\ Outcomes!Hold(ph) \in Outcomes!EventOutcomes(ph)
            /\ Outcomes!Resolution \in Outcomes!TickOutcomes(ph)
  /\ rule.AlertType \notin CountTypes =>
       /\ Outcomes!Raising \in Outcomes!TickOutcomes(Inactive)
       /\ Outcomes!Confirmation \in Outcomes!TickOutcomes("pending")
       /\ Outcomes!Nothing(Inactive) \in Outcomes!EventOutcomes(Inactive)
       /\ \A ph \in {Inactive, "pending", "firing"} :
            Outcomes!Nothing(ph) \in Outcomes!TickOutcomes(ph)
       /\ \A ph \in {"pending", "firing"} :
            /\ {Outcomes!Hold(ph), Outcomes!Resolution} \subseteq Outcomes!EventOutcomes(ph)
            /\ {Outcomes!Hold(ph), Outcomes!Resolution} \subseteq Outcomes!TickOutcomes(ph)
  /\ Outcomes!Hold(Inactive) = Outcomes!Nothing(Inactive)
<1>1. Outcomes!Inactive = Inactive
  BY DEF Outcomes!Inactive, Inactive
<1>2. Outcomes!Hold(Inactive) = Outcomes!Nothing(Inactive)
  BY <1>1 DEF Outcomes!Hold, Outcomes!Nothing
<1>3. \A ph \in {"pending", "firing"} : ph # Inactive
  BY PhasesDiffer
<1>4. CASE rule.AlertType \in CountTypes
  <2>1. /\ Outcomes!Raising \in Outcomes!EventOutcomes(Inactive)
        /\ Outcomes!Nothing(Inactive) \in Outcomes!EventOutcomes(Inactive)
        /\ Outcomes!Nothing(Inactive) \in Outcomes!TickOutcomes(Inactive)
    BY <1>1, <1>3, <1>4 DEF Outcomes!EventOutcomes, Outcomes!TickOutcomes
  <2>2. /\ Outcomes!Confirmation \in Outcomes!EventOutcomes("pending")
        /\ Outcomes!Nothing("pending") \in Outcomes!EventOutcomes("pending")
        /\ Outcomes!Hold("pending") \in Outcomes!EventOutcomes("pending")
    BY <1>1, <1>3, <1>4 DEF Outcomes!EventOutcomes
  <2>3. /\ Outcomes!Nothing("firing") \in Outcomes!EventOutcomes("firing")
        /\ Outcomes!Hold("firing") \in Outcomes!EventOutcomes("firing")
    BY <1>1, <1>3, <1>4 DEF Outcomes!EventOutcomes
  <2>4. \A ph \in {"pending", "firing"} :
          /\ Outcomes!Nothing(ph) \in Outcomes!TickOutcomes(ph)
          /\ Outcomes!Resolution \in Outcomes!TickOutcomes(ph)
    BY <1>1, <1>3, <1>4 DEF Outcomes!TickOutcomes
  <2> QED BY <1>2, <1>4, <2>1, <2>2, <2>3, <2>4
<1>5. CASE rule.AlertType \notin CountTypes
  <2>1. /\ Outcomes!Raising \in Outcomes!TickOutcomes(Inactive)
        /\ Outcomes!Nothing(Inactive) \in Outcomes!EventOutcomes(Inactive)
        /\ Outcomes!Nothing(Inactive) \in Outcomes!TickOutcomes(Inactive)
    BY <1>1, <1>3, <1>5 DEF Outcomes!EventOutcomes, Outcomes!TickOutcomes
  <2>2. /\ Outcomes!Confirmation \in Outcomes!TickOutcomes("pending")
        /\ Outcomes!Nothing("pending") \in Outcomes!TickOutcomes("pending")
        /\ {Outcomes!Hold("pending"), Outcomes!Resolution}
             \subseteq Outcomes!TickOutcomes("pending")
    BY <1>1, <1>3, <1>5 DEF Outcomes!TickOutcomes
  <2>3. /\ Outcomes!Nothing("firing") \in Outcomes!TickOutcomes("firing")
        /\ {Outcomes!Hold("firing"), Outcomes!Resolution}
             \subseteq Outcomes!TickOutcomes("firing")
    BY <1>1, <1>3, <1>5 DEF Outcomes!TickOutcomes
  <2>4. \A ph \in {"pending", "firing"} :
          {Outcomes!Hold(ph), Outcomes!Resolution} \subseteq Outcomes!EventOutcomes(ph)
    BY <1>1, <1>3, <1>5 DEF Outcomes!EventOutcomes
  <2> QED BY <1>2, <1>5, <2>1, <2>2, <2>3, <2>4
<1> QED BY <1>4, <1>5

\* An event comes to one of its alert's event outcomes.
LEMMA EventOutcome ==
  ASSUME IInv, NEW a \in AlertIds, NEW cnt \in Counts, NEW t \in Readings,
         ProcessEvent(a, cnt, t)
  PROVE  /\ a \in Entries'
         /\ Evaluated(a) \in Outcomes!EventOutcomes(PhaseOf(states[a]))
<1>1. PICK s, res : EventOf(a, t, s, res)
  BY EventResult
<1> DEFINE ph == s.CurrentState
           o == Outcomes!Outcome(res.state.CurrentState, res.decision.State,
                                 res.decision.StateChanged)
<1>2. /\ a \in Entries' /\ PhaseOf(states[a]) = ph /\ Evaluated(a) = o
      /\ s \in RuntimeState
  BY <1>1 DEF EventOf, Entries, Evaluated
<1>3. ph \in {Inactive, "pending", "firing"}
  BY <1>2, StateFields DEF Fields
<1>4. o \in Outcomes!EventOutcomes(ph)
  <2>1. CASE rule.AlertType \in CountTypes /\ RaisesAt(rule, s, t, res)
    BY <1>2, <2>1, OutcomeOfChange, OutcomeSets DEF RaisesAt
  <2>2. CASE rule.AlertType \in CountTypes /\ ConfirmsAt(rule, s, t, res)
    BY <1>2, <2>2, OutcomeOfChange, OutcomeSets DEF ConfirmsAt
  <2>3. CASE rule.AlertType \in CountTypes /\ Stays(s, res)
    <3>1. o = Outcomes!Nothing(ph) \/ o = Outcomes!Hold(ph)
      BY <1>2, <2>3, OutcomeOfChange DEF Stays
    <3> QED BY <1>3, <2>3, <3>1, OutcomeSets
  <2>4. CASE rule.AlertType \notin CountTypes /\ ResolvesNow(s, res)
    <3>1. o = Outcomes!Resolution /\ ph \in {"pending", "firing"}
      BY <1>2, <2>4, OutcomeOfChange DEF ResolvesNow, IsActive
    <3> QED BY <2>4, <3>1, OutcomeSets
  <2>5. CASE /\ rule.AlertType \notin CountTypes
             /\ Stays(s, res) /\ res.decision = Decide(s.CurrentState, FALSE)
    <3>1. o = Outcomes!Hold(ph)
      BY <1>2, <2>5, OutcomeOfChange
    <3> QED BY <1>3, <2>5, <3>1, OutcomeSets
  <2> QED BY <1>1, <2>1, <2>2, <2>3, <2>4, <2>5 DEF EventOf
<1> QED BY <1>2, <1>4

\* A tick comes to one of the tick outcomes of each alert.
LEMMA TickOutcome ==
  ASSUME IInv, NEW a \in Entries, NEW t \in Readings, TickRuleWithFiring(t)
  PROVE  /\ a \in Entries'
         /\ Evaluated(a) \in Outcomes!TickOutcomes(PhaseOf(states[a]))
<1> DEFINE s == states[a]
           res == EvalTick(rule, s, t)
           ph == s.CurrentState
           o == Outcomes!Outcome(res.state.CurrentState, res.decision.State,
                                 res.decision.StateChanged)
<1>1. /\ a \in AlertIds /\ s # NoState /\ t \in lastTick..clock
      /\ clock \in Nat /\ lastTick \in Nat /\ rule \in Rules
  BY ReadingFacts DEF Entries, TickRuleWithFiring
<1>2. Good(rule, s, clock, lastTick)
  BY <1>1 DEF IInv, GoodEntries, GoodEntry
<1>3. s \in RuntimeState /\ ph \in {Inactive, "pending", "firing"}
  BY <1>2, StateFields DEF Good, Steady, Fields
<1>4. states'[a] = res.state /\ decisions'[a] = res.decision
  BY <1>1 DEF TickRuleWithFiring
<1>5. res.state # NoState
  BY <1>1, <1>2, TickGood, NoStateAssumption DEF Good, Steady
<1>6. \/ /\ Stays(s, res)
         /\ rule.AlertType \in CountTypes => res.decision = NoDecision
      \/ ResolvesNow(s, res)
      \/ /\ RaisesAt(rule, s, t, res) \/ ConfirmsAt(rule, s, t, res)
         /\ rule.AlertType \notin CountTypes
  BY <1>1, <1>2, TickChange
<1> HIDE DEF res
<1>7. a \in Entries' /\ PhaseOf(states[a]) = ph /\ Evaluated(a) = o
  BY <1>1, <1>4, <1>5 DEF Entries, PhaseOf, Evaluated
<1> HIDE DEF s
<1>8. o \in Outcomes!TickOutcomes(ph)
  <2>1. CASE /\ Stays(s, res)
             /\ rule.AlertType \in CountTypes => res.decision = NoDecision
    <3>1. \/ o = Outcomes!Nothing(ph)
          \/ o = Outcomes!Hold(ph) /\ rule.AlertType \notin CountTypes
      BY <1>3, <2>1, OutcomeOfChange DEF Stays
    <3> QED BY <1>3, <3>1, OutcomeSets
  <2>2. CASE ResolvesNow(s, res)
    <3>1. o = Outcomes!Resolution /\ ph \in {"pending", "firing"}
      BY <1>3, <2>2, OutcomeOfChange DEF ResolvesNow, IsActive
    <3> QED BY <3>1, OutcomeSets
  <2>3. CASE RaisesAt(rule, s, t, res) /\ rule.AlertType \notin CountTypes
    BY <1>3, <2>3, OutcomeOfChange, OutcomeSets DEF RaisesAt
  <2>4. CASE ConfirmsAt(rule, s, t, res) /\ rule.AlertType \notin CountTypes
    BY <1>3, <2>4, OutcomeOfChange, OutcomeSets DEF ConfirmsAt
  <2> QED BY <1>6, <2>1, <2>2, <2>3, <2>4
<1> QED BY <1>7, <1>8

\* An event or a tick moves an alert and decides on it as AlertManager reckons
\* with, and an event leaves the other alerts alone (ProcessEvent,
\* TickRuleWithFiring).
THEOREM EvaluationsAsManaged == Spec => OutcomesAsManaged
<1> DEFINE Managed ==
      /\ lastOp' = "event" =>
           \E a \in AlertIds :
             /\ a \in Entries' /\ Evaluated(a) \in Outcomes!EventOutcomes(PhaseOf(states[a]))
             /\ \A b \in AlertIds \ {a} :
                  states'[b] = states[b] /\ decisions'[b] = NoDecision
      /\ lastOp' = "tick" =>
           /\ Entries' = Entries
           /\ \A a \in Entries : Evaluated(a) \in Outcomes!TickOutcomes(PhaseOf(states[a]))
<1>1. ASSUME IInv, Next, lastOp' = "event"
      PROVE  \E a \in AlertIds :
               /\ a \in Entries' /\ Evaluated(a) \in Outcomes!EventOutcomes(PhaseOf(states[a]))
               /\ \A b \in AlertIds \ {a} :
                    states'[b] = states[b] /\ decisions'[b] = NoDecision
  <2>1. PICK a \in AlertIds, cnt \in Counts, t \in Readings : ProcessEvent(a, cnt, t)
    BY <1>1 DEF Next, TickRuleWithFiring, CompactStates, RemoveAlertState, AdvanceClock
  <2>2. a \in Entries' /\ Evaluated(a) \in Outcomes!EventOutcomes(PhaseOf(states[a]))
    BY <1>1, <2>1, EventOutcome
  <2>3. ASSUME NEW b \in AlertIds \ {a}
        PROVE  states'[b] = states[b] /\ decisions'[b] = NoDecision
    <3>1. states \in [AlertIds -> RuntimeState \cup {NoState}]
      BY <1>1 DEF IInv, TypeOK
    <3> QED BY <2>1, <3>1 DEF ProcessEvent, Quiet
  <2> QED BY <2>2, <2>3
<1>2. ASSUME IInv, Next, lastOp' = "tick"
      PROVE  /\ Entries' = Entries
             /\ \A a \in Entries :
                  Evaluated(a) \in Outcomes!TickOutcomes(PhaseOf(states[a]))
  <2>1. PICK t \in Readings : TickRuleWithFiring(t)
    BY <1>1, <1>2, CallsNamed
  <2>2. \A a \in Entries :
          a \in Entries' /\ Evaluated(a) \in Outcomes!TickOutcomes(PhaseOf(states[a]))
    BY <1>2, <2>1, TickOutcome
  <2>3. \A a \in Entries' : a \in Entries
    BY <2>1 DEF Entries, TickRuleWithFiring
  <2> QED BY <2>2, <2>3
<1>3. IInv /\ [Next]_vars => [Managed]_vars
  BY <1>1, <1>2
<1> HIDE DEF Managed
<1>4. Spec => [][Managed]_vars
  BY <1>3, EngineInvariant, PTL DEF Spec
<1> QED BY <1>4 DEF OutcomesAsManaged, Managed

===============================================================================
