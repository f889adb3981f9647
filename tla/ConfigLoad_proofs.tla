--------------------------- MODULE ConfigLoad_proofs ---------------------------
(***************************************************************************)
(* Proofs about NotifyOff and ConfigLoad: the windows of a rule cover what *)
(* they say, for days of any length, merging the files of any directory    *)
(* takes the latest word on each setting, and an accepted configuration is *)
(* one the rest can run on.                                                *)
(***************************************************************************)
EXTENDS ConfigLoad, FiniteSetTheorems, SequenceTheorems, WellFoundedInduction,
        TLAPS

-----------------------------------------------------------------------------
(* The windows of notify.off.                                              *)

\* A clock that parseNotifyOffClock accepts is a minute of the day, or its end.
LEMMA ClockMinute ==
  ASSUME NEW c, c.hour \in Int, c.minute \in Int, NEW allow \in BOOLEAN,
         ClockInRange(c, allow)
  PROVE  /\ MinuteOf(c) \in 0..DayLength
         /\ ~allow => MinuteOf(c) \in Minute
<1>1. DayHours \in Nat /\ DayHours > 0 /\ HourMinutes \in Nat /\ HourMinutes > 0
  BY DayAssumption
<1>2. c.minute \in 0..(HourMinutes - 1)
  BY DEF ClockInRange
<1>3. CASE c.hour \in 0..(DayHours - 1)
  <2>1. PICK k \in Nat : DayHours = c.hour + 1 + k
    <3>1. DayHours - 1 - c.hour \in Nat
      BY <1>1, <1>3
    <3>2. DayHours = c.hour + 1 + (DayHours - 1 - c.hour)
      BY <1>1, <1>3
    <3> QED BY <3>1, <3>2
  <2>2. DayHours * HourMinutes = c.hour * HourMinutes + HourMinutes + k * HourMinutes
    BY <1>1, <1>3, <2>1
  <2>3. k * HourMinutes \in Nat /\ c.hour * HourMinutes \in Nat
    BY <1>1, <1>3, <2>1
  <2>4. MinuteOf(c) >= 0 /\ MinuteOf(c) < DayLength /\ MinuteOf(c) \in Int
        /\ DayLength \in Int
    BY <1>1, <1>2, <1>3, <2>2, <2>3 DEF MinuteOf, DayLength
  <2> QED BY <2>4 DEF Minute
<1>4. CASE allow /\ c.hour = DayHours /\ c.minute = 0
  <2>1. MinuteOf(c) = DayLength /\ DayLength \in Nat
    BY <1>1, <1>4 DEF MinuteOf, DayLength
  <2> QED BY <1>4, <2>1
<1> QED BY <1>3, <1>4 DEF ClockInRange

\* notifyOffContainsMinute says yes exactly in the minutes of the windows that
\* begin on the given weekdays, also past midnight and past the week's end.
THEOREM OffWindowCovers ==
  ASSUME NEW days \in SUBSET Weekday, NEW day \in Weekday, NEW minute \in Minute,
         NEW from \in Minute, NEW to \in 0..DayLength, from # to
  PROVE  notifyOffContainsMinute(days, day, minute, from, to)
           <=> Covered(days, day, minute, from, to)
<1>1. DayLength \in Nat /\ DayLength > 0
  BY DayAssumption DEF DayLength
<1>2. from \in Int /\ to \in Int /\ minute \in Int
      /\ 0 <= from /\ from < DayLength /\ 0 <= to /\ to <= DayLength
      /\ 0 <= minute /\ minute < DayLength
  BY <1>1 DEF Minute
<1>3. previousWeekday(day) \in Weekday /\ nextWeekday(previousWeekday(day)) = day
  BY DEF Weekday, previousWeekday, nextWeekday
<1>4. \A d \in Weekday : nextWeekday(d) = day => d = previousWeekday(day)
  BY DEF Weekday, previousWeekday, nextWeekday
<1>5. ASSUME notifyOffContainsMinute(days, day, minute, from, to)
      PROVE  Covered(days, day, minute, from, to)
  <2>1. CASE minute >= from /\ day \in days
    <3>1. minute - from \in 0..(DayLength - 1) /\ from + (minute - from) = minute
      BY <1>1, <1>2, <2>1
    <3>2. minute - from < Length(from, to)
      BY <1>1, <1>2, <1>5, <2>1 DEF Length, notifyOffContainsMinute
    <3>3. IsNth(minute - from, day, from, day, minute)
      BY <1>2, <3>1 DEF IsNth
    <3> QED BY <2>1, <3>1, <3>2, <3>3 DEF Covered
  <2>2. CASE minute < from /\ minute < to /\ ~(from < to)
             /\ previousWeekday(day) \in days
    <3> DEFINE n == minute + DayLength - from
    <3>1. n \in 0..(DayLength - 1) /\ from + n = minute + DayLength
      BY <1>1, <1>2, <2>2
    <3>2. n < Length(from, to)
      BY <1>1, <1>2, <2>2 DEF Length
    <3>3. IsNth(n, previousWeekday(day), from, day, minute)
      BY <1>1, <1>2, <1>3, <3>1 DEF IsNth
    <3> QED BY <2>2, <3>1, <3>2, <3>3 DEF Covered
  <2> QED BY <1>2, <1>5, <2>1, <2>2 DEF notifyOffContainsMinute
<1>6. ASSUME Covered(days, day, minute, from, to)
      PROVE  notifyOffContainsMinute(days, day, minute, from, to)
  <2>1. PICK d \in days, n \in 0..(DayLength - 1) :
          n < Length(from, to) /\ IsNth(n, d, from, day, minute)
    BY <1>6 DEF Covered
  <2>2. CASE from + n < DayLength
    <3>1. day = d /\ minute = from + n
      BY <2>1, <2>2 DEF IsNth
    <3>2. from < to => minute < to
      BY <1>1, <1>2, <2>1, <3>1 DEF Length
    <3> QED BY <1>1, <1>2, <2>1, <3>1, <3>2 DEF notifyOffContainsMinute
  <2>3. CASE ~(from + n < DayLength)
    <3>1. day = nextWeekday(d) /\ minute = from + n - DayLength
      BY <2>1, <2>3 DEF IsNth
    <3>2. d = previousWeekday(day)
      BY <1>4, <3>1
    <3>3. ~(from < to) /\ minute < to /\ minute < from
      BY <1>1, <1>2, <2>1, <2>3, <3>1 DEF Length
    <3> QED BY <2>1, <3>2, <3>3 DEF notifyOffContainsMinute
  <2> QED BY <2>2, <2>3
<1> QED BY <1>5, <1>6

\* The windows of a rule that compileNotifyOffWindow accepts skip a
\* notification exactly when one of them has begun and has not ended.
THEOREM OffWindowsExact ==
  ASSUME NEW windows,
         \A i \in DOMAIN windows :
           /\ ValidWindow(windows[i])
           /\ windows[i].from.hour \in Int /\ windows[i].from.minute \in Int
           /\ windows[i].to.hour \in Int /\ windows[i].to.minute \in Int,
         NEW day \in Weekday, NEW minute \in Minute
  PROVE  NotifyOffActiveAt(windows, day, minute) <=>
           \E i \in DOMAIN windows :
             Covered(windows[i].days, day, minute,
                     MinuteOf(windows[i].from), MinuteOf(windows[i].to))
<1>1. ASSUME NEW i \in DOMAIN windows
      PROVE  LET w == windows[i] IN
             /\ w.days \in SUBSET Weekday /\ MinuteOf(w.from) \in Minute
             /\ MinuteOf(w.to) \in 0..DayLength /\ MinuteOf(w.from) # MinuteOf(w.to)
  <2>1. MinuteOf(windows[i].from) \in Minute
    BY <1>1, ClockMinute DEF ValidWindow
  <2>2. MinuteOf(windows[i].to) \in 0..DayLength
    BY <1>1, ClockMinute DEF ValidWindow
  <2> QED BY <1>1, <2>1, <2>2 DEF ValidWindow
<1>2. ASSUME NEW i \in DOMAIN windows
      PROVE  notifyOffContainsMinute(windows[i].days, day, minute,
                 MinuteOf(windows[i].from), MinuteOf(windows[i].to))
             <=> Covered(windows[i].days, day, minute,
                 MinuteOf(windows[i].from), MinuteOf(windows[i].to))
  BY <1>1, <1>2, OffWindowCovers
<1> QED BY <1>2 DEF NotifyOffActiveAt

-----------------------------------------------------------------------------
(* The settings, by their kinds.                                           *)

Named(f, sections, keys) == f[1] \in sections /\ f[2] \in keys
NumberKeys ==
  {"reload_interval_sec", "resolve_scan_interval_sec", "runtime_state_idle_sec",
   "runtime_state_max", "ack_wait_sec", "nack_delay_ms", "max_deliver", "max_ack_pending",
   "timeout_sec", "refresh_sec", "registry_ttl_sec", "stale_after_sec", "offline_after_sec",
   "health_timeout_sec", "max_body_bytes", "workers", "repeat_every_sec"}
FlagKeys == {"enabled", "reload_enabled", "dlq", "basic_enabled", "repeat", "repeat_per_channel",
             "on_pending"}
OtherKeys ==
  {"create", "resolve", "url", "repeat_on", "headers", "name-template", "retry", "auth",
   "name", "mode", "level", "format", "path", "listen", "health_path", "ready_path", "ingest_path",
   "bot_token", "chat_id", "active_chat_id", "api_base", "method", "base_url", "channel_id",
   "active_channel_id", "base_path", "username", "password", "registry_bucket", "public_base_url"}
Others == Texts \cup Lists \cup Maps \cup Templates \cup Retries \cup Auths

\* The key of a number or a flag tells its kind.
LEMMA KindsByKey ==
  /\ \A f \in Numbers : f \in Field /\ f[2] \in NumberKeys
  /\ \A f \in Flags : f \in Field /\ f[2] \in FlagKeys
  /\ \A f \in Others : f[2] \in OtherKeys
<1>1. \A f \in Numbers : f[2] \in NumberKeys
  BY DEF Numbers, NumberKeys
<1>2. \A f \in Flags : f[2] \in FlagKeys
  BY DEF Flags, FlagKeys
<1>3. \A f \in Others : f[2] \in OtherKeys
  BY DEF Others, Texts, Lists, Maps, Templates, Retries, Auths, OtherKeys, Action
<1> QED
  BY <1>1, <1>2, <1>3 DEF Field

\* Numbers, flags and the others are different settings.
LEMMA KindsDiffer ==
  /\ \A f \in Numbers : f \notin Flags /\ f \notin Others
  /\ \A f \in Flags : f \notin Numbers /\ f \notin Others
<1>1. NumberKeys \cap FlagKeys = {} /\ NumberKeys \cap OtherKeys = {} /\ FlagKeys \cap OtherKeys = {}
  BY DEF NumberKeys, FlagKeys, OtherKeys
<1> QED
  BY <1>1, KindsByKey

\* The zero values of numbers and flags.
LEMMA ZeroKinds ==
  /\ \A f \in Numbers : Zero(f) = 0
  /\ \A f \in Flags : Zero(f) = FALSE
<1>1. ASSUME NEW f \in Numbers PROVE Zero(f) = 0
  <2>1. f \notin Flags /\ f \notin Texts /\ f \notin Retries /\ f \notin Auths
    BY KindsDiffer DEF Others
  <2> QED
    BY <2>1 DEF Zero
<1>2. ASSUME NEW f \in Flags PROVE Zero(f) = FALSE
  <2>1. f \notin Numbers /\ f \notin Texts /\ f \notin Retries /\ f \notin Auths
    BY KindsDiffer DEF Others
  <2> QED
    BY <2>1 DEF Zero
<1> QED
  BY <1>1, <1>2

-----------------------------------------------------------------------------
(* Reading.                                                                *)

\* A configuration has numbers where it should, and rules.
SetTyped(set) ==
  /\ set = [f \in Field |-> set[f]]
  /\ \A f \in Numbers : set[f] \in Int
  /\ \A f \in Flags : set[f] \in BOOLEAN
Typed(c) == SetTyped(c.set) /\ c.rules \in Seq(RuleConfig)

\* The empty configuration is well typed.
LEMMA NoConfigTyped == Typed(NoConfig)
<1>1. \A f \in Field : NoConfig.set[f] = Zero(f)
  BY DEF NoConfig
<1>2. \A f \in Numbers \cup Flags : f \in Field
  BY KindsByKey
<1>3. NoConfig.set = [f \in Field |-> NoConfig.set[f]]
  BY DEF NoConfig
<1> QED
  <2>1. \A f \in Numbers : NoConfig.set[f] \in Int
    BY <1>1, <1>2, ZeroKinds
  <2>2. \A f \in Flags : NoConfig.set[f] \in BOOLEAN
    BY <1>1, <1>2, ZeroKinds
  <2>3. NoConfig.rules \in Seq(RuleConfig)
    BY DEF NoConfig
  <2> QED
    BY <1>3, <2>1, <2>2, <2>3 DEF Typed, SetTyped

\* loadFile: a file that decodes.
LEMMA DecodedTyped ==
  ASSUME NEW d \in Directories, NEW i \in DOMAIN d
  PROVE  Typed(Decoded(d[i]))
<1>1. /\ \A f \in DOMAIN d[i].keys \cap Numbers : d[i].keys[f] \in Int
      /\ \A f \in DOMAIN d[i].keys \cap Flags : d[i].keys[f] \in BOOLEAN
      /\ d[i].rules \in Seq(RuleConfig)
  BY DirectoriesAssumption
<1>2. \A f \in Field : Decoded(d[i]).set[f] = IF f \in DOMAIN d[i].keys THEN d[i].keys[f] ELSE Zero(f)
  BY DEF Decoded
<1>3. \A f \in Numbers \cup Flags : f \in Field
  BY KindsByKey
<1>4. Decoded(d[i]).set = [f \in Field |-> Decoded(d[i]).set[f]] /\ Decoded(d[i]).rules = d[i].rules
  BY DEF Decoded
<1>5. ASSUME NEW f \in Numbers PROVE Decoded(d[i]).set[f] \in Int
  BY <1>1, <1>2, <1>3, ZeroKinds
<1>6. ASSUME NEW f \in Flags PROVE Decoded(d[i]).set[f] \in BOOLEAN
  BY <1>1, <1>2, <1>3, ZeroKinds
<1> QED
  BY <1>1, <1>4, <1>5, <1>6 DEF Typed, SetTyped

\* mergeConfig: of a number or a flag it takes one of the two values.
LEMMA MergeTyped ==
  ASSUME NEW c, Typed(c), NEW d \in Directories, NEW i \in DOMAIN d
  PROVE  Typed(mergeConfig(c, d[i]))
<1>1. PICK src : src = Decoded(d[i])
  OBVIOUS
<1>2. PICK given : given = DOMAIN d[i].keys
  OBVIOUS
<1>3. PICK touched : touched = {s \in Whole : HasConfig(src, s)}
                               \cup {s \in Overlaid : HasConfig(src, s)
                                       \/ \E f \in given \cap Flags : f[1] \in s}
  OBVIOUS
<1>4. /\ mergeConfig(c, d[i]).set =
           [f \in Field |-> IF SectionOf(f) \notin touched THEN c.set[f]
                            ELSE IF SectionOf(f) \in Whole THEN src.set[f]
                            ELSE Overlay(c, src, given, f)]
      /\ mergeConfig(c, d[i]).rules = c.rules \o src.rules
  BY <1>1, <1>2, <1>3 DEF mergeConfig
<1>5. Typed(src)
  BY <1>1, DecodedTyped
<1>6. ASSUME NEW f \in Numbers \cup Flags PROVE Overlay(c, src, given, f) \in {c.set[f], src.set[f]}
  <2>1. f \notin Maps /\ f \notin Templates
    BY KindsDiffer DEF Others
  <2> QED
    BY <2>1 DEF Overlay
<1>7. ASSUME NEW f \in Numbers \cup Flags PROVE mergeConfig(c, d[i]).set[f] \in {c.set[f], src.set[f]}
  <2>1. f \in Field
    BY KindsByKey
  <2> QED
    BY <1>4, <1>6, <2>1
<1>8. mergeConfig(c, d[i]).set = [f \in Field |-> mergeConfig(c, d[i]).set[f]]
  BY <1>4
<1>9. mergeConfig(c, d[i]).rules \in Seq(RuleConfig)
  BY <1>4, <1>5 DEF Typed
<1>10. ASSUME NEW f \in Numbers PROVE mergeConfig(c, d[i]).set[f] \in Int
  BY <1>5, <1>7 DEF Typed, SetTyped
<1>11. ASSUME NEW f \in Flags PROVE mergeConfig(c, d[i]).set[f] \in BOOLEAN
  BY <1>5, <1>7 DEF Typed, SetTyped
<1> QED
  BY <1>8, <1>9, <1>10, <1>11 DEF Typed, SetTyped

-----------------------------------------------------------------------------
(* Defaults.                                                               *)

Mode == <<"service", "mode">>
HTTPEnabled == <<"ingest.http", "enabled">>
NATSEnabled == <<"ingest.nats", "enabled">>
QueueEnabled == <<"queue", "enabled">>
\* Numbers that are positive once defaults are applied.
Positive == {<<"service", "resolve_scan_interval_sec">>, <<"notify", "repeat_every_sec">>,
             <<"ui", "refresh_sec">>, <<"ui", "registry_ttl_sec">>, <<"ui", "stale_after_sec">>,
             <<"ui", "offline_after_sec">>}

\* The settings the properties are about.
LEMMA Settings ==
  /\ Positive \subseteq Numbers \ KeepsNegative
  /\ {HTTPEnabled, NATSEnabled, QueueEnabled} \subseteq Flags
  /\ Mode \in Texts /\ Mode \in Field
<1>1. Positive \subseteq Numbers \ KeepsNegative
  BY DEF Positive, Numbers, KeepsNegative, Queues, Tracker
<1>2. {HTTPEnabled, NATSEnabled, QueueEnabled} \subseteq Flags
  BY DEF HTTPEnabled, NATSEnabled, QueueEnabled, Flags, Queues
<1>3. Mode \in Texts
  BY DEF Mode, Texts
<1> QED
  BY <1>1, <1>2, <1>3 DEF Field

\* What the defaults are for these settings.
LEMMA DefaultsOf ==
  ASSUME NEW set
  PROVE  /\ \A f \in {Mode, HTTPEnabled, NATSEnabled, QueueEnabled} :
              Default(set, f) = set[f] /\ NATSDefault(set, f) = set[f]
         /\ \A f \in Positive : NATSDefault(set, f) = set[f]
         /\ \A f \in Positive : Default(set, f) \in Int /\ Default(set, f) > 0
<1>1. ASSUME NEW f \in {Mode, HTTPEnabled, NATSEnabled, QueueEnabled} PROVE Default(set, f) = set[f]
  BY DEF Mode, HTTPEnabled, NATSEnabled, QueueEnabled, Default, LogSink, Tracker, Action
<1>2. ASSUME NEW f \in {Mode, HTTPEnabled, NATSEnabled, QueueEnabled} \cup Positive
      PROVE  NATSDefault(set, f) = set[f]
  BY DEF Mode, HTTPEnabled, NATSEnabled, QueueEnabled, Positive, NATSDefault, Queues
<1>3. ASSUME NEW f \in Positive PROVE Default(set, f) \in {1, 300, 2, 30, 10, 20}
  BY DEF Positive, Default, LogSink, Tracker, Action
<1> QED
  BY <1>1, <1>2, <1>3

\* fill: the positive numbers are, and the mode and the flags stay.
LEMMA FillMakes ==
  ASSUME NEW set, \A f \in Positive : set[f] \in Int
  PROVE  /\ \A f \in Positive : fill(set)[f] \in Int /\ fill(set)[f] > 0
         /\ \A f \in {Mode, HTTPEnabled, NATSEnabled, QueueEnabled} : fill(set)[f] = set[f]
<1>1. ASSUME NEW f \in Positive PROVE fill(set)[f] \in Int /\ fill(set)[f] > 0
  <2>1. f \in Field /\ f \in Numbers \ KeepsNegative
    BY Settings, KindsByKey
  <2>2. fill(set)[f] = IF set[f] <= 0 THEN Default(set, f) ELSE set[f]
    BY <2>1 DEF fill, omitted
  <2> QED
    BY <2>2, DefaultsOf
<1>2. ASSUME NEW f \in {Mode, HTTPEnabled, NATSEnabled, QueueEnabled} PROVE fill(set)[f] = set[f]
  <2>1. f \in Field
    BY Settings, KindsByKey
  <2> QED
    BY <2>1, DefaultsOf DEF fill
<1> QED
  BY <1>1, <1>2

\* The settings that follow from the mode: without NATS nothing of it is on, with NATS events come
\* in somehow.
LEMMA ModeMakes ==
  ASSUME NEW set, set = [f \in Field |-> set[f]],
         \A f \in Positive : set[f] \in Int,
         \A f \in {HTTPEnabled, NATSEnabled, QueueEnabled} : set[f] \in BOOLEAN
  PROVE  LET made == forMode(set)
         IN  /\ \A f \in Positive : made[f] \in Int
             /\ made[Mode] = set[Mode]
             /\ made[Mode] = "single" => ~made[NATSEnabled] /\ ~made[QueueEnabled]
             /\ made[Mode] # "single" => made[HTTPEnabled] \/ made[NATSEnabled]
<1>0. /\ Positive \subseteq Field /\ Mode \in Field
      /\ {HTTPEnabled, NATSEnabled, QueueEnabled} \subseteq Field
  BY Settings, KindsByKey
<1>1. CASE set[Mode] = "single"
  <2>1. forMode(set) = [f \in Field |->
          IF f \in {NATSEnabled, QueueEnabled, <<"queue", "dlq">>} THEN FALSE ELSE set[f]]
    BY <1>1 DEF forMode, Mode, NATSEnabled, QueueEnabled
  <2>2. \A f \in Positive \cup {Mode} : f \notin {NATSEnabled, QueueEnabled, <<"queue", "dlq">>}
    BY DEF Positive, Mode, NATSEnabled, QueueEnabled
  <2>3. \A f \in Positive \cup {Mode} : forMode(set)[f] = set[f]
    BY <1>0, <2>1, <2>2
  <2>4. ~forMode(set)[NATSEnabled] /\ ~forMode(set)[QueueEnabled]
    BY <1>0, <2>1
  <2> QED
    BY <1>1, <2>3, <2>4
<1>2. CASE set[Mode] # "single"
  <2>1. PICK nats : nats = fillNATS(set)
    OBVIOUS
  <2>2. forMode(set) = [nats EXCEPT ![HTTPEnabled] = nats[HTTPEnabled] \/ ~nats[NATSEnabled]]
    BY <1>2, <2>1 DEF forMode, Mode, HTTPEnabled, NATSEnabled
  <2>3. nats = [f \in Field |-> nats[f]]
    BY <2>1 DEF fillNATS
  <2>4. \A f \in Positive \cup {Mode, HTTPEnabled, NATSEnabled} : nats[f] = set[f]
    BY <1>0, <2>1, DefaultsOf DEF fillNATS
  <2>5. \A f \in Positive \cup {Mode, NATSEnabled} : f # HTTPEnabled
    BY DEF Positive, Mode, NATSEnabled, HTTPEnabled
  <2>6. \A f \in Positive \cup {Mode, NATSEnabled} : forMode(set)[f] = set[f]
    BY <1>0, <2>2, <2>3, <2>4, <2>5
  <2>7. forMode(set)[HTTPEnabled] = (set[HTTPEnabled] \/ ~set[NATSEnabled])
    BY <1>0, <2>2, <2>3, <2>4
  <2>8. forMode(set)[HTTPEnabled] \/ forMode(set)[NATSEnabled]
    BY <2>6, <2>7
  <2> QED
    BY <1>2, <2>6, <2>8
<1> QED
  BY <1>1, <1>2

\* settingDefaults keeps what the two make.
LEMMA SettingsMade ==
  ASSUME NEW set, SetTyped(set)
  PROVE  LET made == settingDefaults(set)
         IN  /\ \A f \in Positive : made[f] \in Int /\ made[f] > 0
             /\ made[Mode] = "single" => ~made[NATSEnabled] /\ ~made[QueueEnabled]
             /\ made[Mode] # "single" => made[HTTPEnabled] \/ made[NATSEnabled]
<1>0. /\ Positive \subseteq Field /\ Mode \in Field
      /\ {HTTPEnabled, NATSEnabled, QueueEnabled} \subseteq Field
  BY Settings, KindsByKey
<1>1. PICK named : named = [set EXCEPT ![Mode] = normalize(set[Mode], "nats")]
  OBVIOUS
<1>2. PICK filled : filled = fill(forMode(named))
  OBVIOUS
<1>3. settingDefaults(set) =
        [f \in Field |->
           CASE f \in Retries -> fillNotifyRetryDefaults(filled[f])
             [] f = <<"ui", "url">> /\ filled[f] = <<>> -> seenURL(filled)
             [] f = <<"log.console", "enabled">> -> filled[f] \/ ~filled[<<"log.file", "enabled">>]
             [] OTHER -> filled[f]]
  BY <1>1, <1>2 DEF settingDefaults, Mode
<1>4. \A f \in Positive \cup {HTTPEnabled, NATSEnabled, QueueEnabled, Mode} :
        f \notin Retries /\ f # <<"ui", "url">> /\ f # <<"log.console", "enabled">>
  BY DEF Positive, HTTPEnabled, NATSEnabled, QueueEnabled, Mode, Retries
<1>5. \A f \in Positive \cup {HTTPEnabled, NATSEnabled, QueueEnabled, Mode} :
        settingDefaults(set)[f] = filled[f]
  BY <1>0, <1>3, <1>4
<1>6. /\ named = [f \in Field |-> named[f]]
      /\ \A f \in Positive : named[f] \in Int
      /\ \A f \in {HTTPEnabled, NATSEnabled, QueueEnabled} : named[f] \in BOOLEAN
  <2>1. \A f \in Field : f # Mode => named[f] = set[f]
    BY <1>1 DEF SetTyped
  <2>2. \A f \in Positive \cup {HTTPEnabled, NATSEnabled, QueueEnabled} : f # Mode
    BY DEF Positive, HTTPEnabled, NATSEnabled, QueueEnabled, Mode
  <2> QED
    BY <1>0, <1>1, <2>1, <2>2, Settings DEF SetTyped
<1>7. /\ \A f \in Positive : forMode(named)[f] \in Int
      /\ forMode(named)[Mode] = "single" => ~forMode(named)[NATSEnabled] /\ ~forMode(named)[QueueEnabled]
      /\ forMode(named)[Mode] # "single" => forMode(named)[HTTPEnabled] \/ forMode(named)[NATSEnabled]
  BY <1>6, ModeMakes
<1> QED
  BY <1>2, <1>5, <1>7, FillMakes

\* ruleDefaults: a rule stays one, its delay and its repeats take time.
LEMMA RuleMade ==
  ASSUME NEW rule \in RuleConfig, NEW set, set[<<"notify", "repeat_every_sec">>] \in Int,
         set[<<"notify", "repeat_every_sec">>] > 0
  PROVE  LET made == ruleDefaults(rule, set)
         IN  /\ made \in RuleConfig /\ made.delay_sec > 0 /\ made.repeat_every_sec > 0
             /\ made.delay_sec \in Int /\ made.repeat_every_sec \in Int
             /\ made.n \in Int /\ made.missing_sec \in Int /\ made.window_sec \in Int
<1>1. PICK delay \in Int : delay > 0 /\ delay = IF rule.delay_sec <= 0 THEN 300 ELSE rule.delay_sec
  <2>1. rule.delay_sec \in Int
    BY DEF RuleConfig
  <2> QED
    BY <2>1
<1>2. PICK every \in Int :
        /\ every > 0
        /\ every = IF rule.repeat_every_sec <= 0 THEN set[<<"notify", "repeat_every_sec">>]
                   ELSE rule.repeat_every_sec
  <2>1. rule.repeat_every_sec \in Int
    BY DEF RuleConfig
  <2> QED
    BY <2>1
<1>3. ruleDefaults(rule, set) = [rule EXCEPT !.delay_sec = delay, !.repeat_every_sec = every]
  BY <1>1, <1>2 DEF ruleDefaults
<1>4. [rule EXCEPT !.delay_sec = delay, !.repeat_every_sec = every] \in RuleConfig
  BY <1>1, <1>2, ZenonT(60) DEF RuleConfig
<1>5. rule.n \in Int /\ rule.missing_sec \in Int /\ rule.window_sec \in Int
  BY DEF RuleConfig
<1>6. /\ [rule EXCEPT !.delay_sec = delay, !.repeat_every_sec = every].delay_sec = delay
      /\ [rule EXCEPT !.delay_sec = delay, !.repeat_every_sec = every].repeat_every_sec = every
      /\ [rule EXCEPT !.delay_sec = delay, !.repeat_every_sec = every].n = rule.n
      /\ [rule EXCEPT !.delay_sec = delay, !.repeat_every_sec = every].missing_sec = rule.missing_sec
      /\ [rule EXCEPT !.delay_sec = delay, !.repeat_every_sec = every].window_sec = rule.window_sec
  BY DEF RuleConfig
<1> QED
  BY <1>1, <1>2, <1>3, <1>4, <1>5, <1>6

-----------------------------------------------------------------------------
(* The invariant and what follows from it.                                 *)

\* What is read so far is well typed; what is accepted comes out of the defaults and is valid.
IInv ==
  /\ files \in Directories
  /\ read \in 0..Len(files)
  /\ phase = "reading" => Typed(config)
  /\ phase = "accepted" =>
       /\ validateConfig(config)
       /\ \E c : Typed(c) /\ config = applyDefaults(c)

\* Every step of the loading keeps it.
LEMMA StepIInv == IInv /\ [Next]_vars => IInv'
<1>1. SUFFICES ASSUME IInv, [Next]_vars PROVE IInv'
  OBVIOUS
<1>2. Len(files) \in Nat /\ DOMAIN files = 1..Len(files)
  BY <1>1, DirectoriesAssumption DEF IInv
<1>3. ASSUME Take PROVE read + 1 \in DOMAIN files /\ read' \in 0..Len(files)
  BY <1>1, <1>2, <1>3 DEF Take, More, IInv
<1>4. CASE Reject
  BY <1>1, <1>4 DEF Reject, IInv
<1>5. CASE loadFile
  <2>1. 1 \in DOMAIN files
    BY <1>1, <1>2, <1>3, <1>5 DEF loadFile, IInv
  <2>2. Typed(config')
    BY <1>1, <1>5, <2>1, DecodedTyped DEF loadFile, IInv
  <2> QED
    BY <1>1, <1>3, <1>5, <2>2 DEF loadFile, Take, More, IInv, Typed, SetTyped
<1>6. CASE loadDirEntry
  <2>1. Typed(config) /\ read + 1 \in DOMAIN files
    BY <1>1, <1>3, <1>6 DEF loadDirEntry, Take, More, IInv
  <2>2. Typed(config')
    BY <1>1, <1>6, <2>1, MergeTyped DEF loadDirEntry, IInv
  <2> QED
    BY <1>1, <1>3, <1>6, <2>2 DEF loadDirEntry, Take, More, IInv, Typed, SetTyped
<1>7. CASE Finish
  <2>1. Typed(config) /\ config' = applyDefaults(config) /\ UNCHANGED <<files, read>>
        /\ phase' # "reading" /\ (phase' = "accepted" => validateConfig(config'))
    BY <1>1, <1>7 DEF Finish, IInv
  <2> QED
    BY <1>1, <2>1 DEF IInv
<1>8. CASE UNCHANGED vars
  BY <1>1, <1>8 DEF vars, IInv, Typed, SetTyped
<1> QED
  BY <1>1, <1>4, <1>5, <1>6, <1>7, <1>8 DEF Next

\* A loading that begins satisfies it.
LEMMA InitIInv == Init => IInv
<1>1. SUFFICES ASSUME Init PROVE IInv
  OBVIOUS
<1>2. Len(files) \in Nat
  BY <1>1, DirectoriesAssumption DEF Init
<1> QED
  BY <1>1, <1>2, NoConfigTyped DEF Init, IInv

\* Whatever the files hold, an accepted configuration went through the defaults with numbers
\* and rules in it and through every validation (LoadSnapshot).
THEOREM LoadInvariant == Spec => []IInv
<1> QED
  BY InitIInv, StepIInv, PTL DEF Spec

\* An accepted configuration can run: its mode, its consumers and its rules fit the service and
\* the engine (validateConfig after applyDefaults).
THEOREM AcceptedRuns == Spec => []AcceptedCanRun
<1>1. IInv => AcceptedCanRun
  <2>1. SUFFICES ASSUME IInv, phase = "accepted" PROVE AcceptedCanRun
    BY DEF AcceptedCanRun
  <2>2. PICK c : Typed(c) /\ config = applyDefaults(c)
    BY <2>1 DEF IInv
  <2>3. PICK set : set = settingDefaults(c.set)
    OBVIOUS
  <2>4. /\ config.set = set
        /\ config.rules = [i \in DOMAIN c.rules |-> ruleDefaults(c.rules[i], set)]
    BY <2>2, <2>3 DEF applyDefaults
  <2>5. /\ \A f \in Positive : set[f] \in Int /\ set[f] > 0
        /\ set[Mode] = "single" => ~set[NATSEnabled] /\ ~set[QueueEnabled]
        /\ set[Mode] # "single" => set[HTTPEnabled] \/ set[NATSEnabled]
    BY <2>2, <2>3, SettingsMade DEF Typed
  <2>6. ServiceValid(set) /\ QueueValid(set) /\ RulesValid(config)
    BY <2>1, <2>4 DEF IInv, validateConfig
  <2>7. set[Mode] \in {"nats", "single"} /\ (set[Mode] = "single" => set[HTTPEnabled])
        /\ (set[Mode] = "nats" => set[<<"ingest.nats", "url">>] # <<>>)
    BY <2>6 DEF ServiceValid, Mode, HTTPEnabled
  <2>8. ASSUME NEW q \in Queues, set[<<q, "enabled">>] PROVE ConsumerValid(set, q)
    <3>1. CASE q = "queue"
      BY <2>6, <2>8, <3>1 DEF QueueValid
    <3>2. CASE q = "ingest.nats"
      BY <2>5, <2>6, <2>7, <2>8, <3>2 DEF ServiceValid, Mode, NATSEnabled
    <3> QED
      BY <3>1, <3>2 DEF Queues
  <2>9. ASSUME NEW i \in DOMAIN config.rules
        PROVE  LET r == config.rules[i]
               IN  /\ r.delay_sec > 0 /\ r.repeat_every_sec > 0
                   /\ IF r.alert_type = "missing_heartbeat" THEN r.missing_sec > 0
                      ELSE r.n > 0 /\ (r.alert_type = "count_window" => r.window_sec > 0)
    <3>1. i \in DOMAIN c.rules /\ config.rules[i] = ruleDefaults(c.rules[i], set)
      BY <2>4
    <3>2. c.rules[i] \in RuleConfig
      BY <2>2, <3>1 DEF Typed
    <3>3. set[<<"notify", "repeat_every_sec">>] \in Int /\ set[<<"notify", "repeat_every_sec">>] > 0
      BY <2>5 DEF Positive
    <3>4. PICK r : r = config.rules[i]
      OBVIOUS
    <3>5. r.delay_sec > 0 /\ r.repeat_every_sec > 0 /\ r.n \in Int
      BY <3>1, <3>2, <3>3, <3>4, RuleMade
    <3>6. ThresholdsValid(r)
      BY <2>6, <3>4 DEF RulesValid, validateRule
    <3> QED
      BY <3>4, <3>5, <3>6 DEF ThresholdsValid
  <2>10. set[<<"service", "resolve_scan_interval_sec">>] > 0
    BY <2>5 DEF Positive
  <2>11. \A q \in Queues : set[<<q, "enabled">>] => set[<<q, "max_deliver">>] = -1 \/ set[<<q, "max_deliver">>] > 0
    BY <2>8 DEF ConsumerValid
  <2>12. set[<<"queue", "dlq">>] => set[<<"queue", "enabled">>]
    BY <2>6 DEF QueueValid
  <2> QED
    BY <2>4, <2>5, <2>7, <2>9, <2>10, <2>11, <2>12
    DEF AcceptedCanRun, Mode, HTTPEnabled, NATSEnabled, QueueEnabled
<1> QED
  BY <1>1, LoadInvariant, PTL

\* The registry keeps an instance whose heartbeats succeed, even with one of them lost
\* (registryRefreshInterval, and the order of the registry's periods in validateConfig).
THEOREM HeartbeatOutlives == Spec => []HeartbeatOutlivesRefresh
<1>1. IInv => HeartbeatOutlivesRefresh
  <2>1. SUFFICES ASSUME IInv, phase = "accepted" PROVE HeartbeatOutlivesRefresh
    BY DEF HeartbeatOutlivesRefresh
  <2>2. PICK c : Typed(c) /\ config = applyDefaults(c)
    BY <2>1 DEF IInv
  <2>3. config.set = settingDefaults(c.set)
    BY <2>2 DEF applyDefaults
  <2>4. PICK refresh, stale, offline, ttl \in Int :
          /\ refresh = config.set[<<"ui", "refresh_sec">>] /\ refresh > 0
          /\ stale = config.set[<<"ui", "stale_after_sec">>]
          /\ offline = config.set[<<"ui", "offline_after_sec">>]
          /\ ttl = config.set[<<"ui", "registry_ttl_sec">>]
    BY <2>2, <2>3, SettingsMade DEF Typed, Positive
  <2>5. 0 < stale /\ stale < offline /\ offline < ttl
    BY <2>1, <2>4 DEF IInv, validateConfig, UIValid
  <2>6. ttl \div 2 > 0 /\ 2 * (ttl \div 2) <= ttl /\ ttl \div 2 \in Int
    BY <2>5
  <2>7. registryRefreshInterval(config.set) = IF refresh > ttl \div 2 THEN ttl \div 2 ELSE refresh
    BY <2>4, <2>6 DEF registryRefreshInterval
  <2> QED
    BY <2>4, <2>6, <2>7 DEF HeartbeatOutlivesRefresh
<1> QED
  BY <1>1, LoadInvariant, PTL

\* Every route of an accepted configuration has its channel's sender and exactly one template
\* (validateRuleNotifyRoutes, validateNotifyTemplates, NewDispatcher, resolveTemplate).
THEOREM RoutesAlwaysDeliverable == Spec => []RoutesDeliverable
<1>1. IInv => RoutesDeliverable
  <2>1. SUFFICES ASSUME IInv, phase = "accepted",
                        NEW i \in DOMAIN config.rules, NEW k \in DOMAIN config.rules[i].route,
                        NEW route, route = config.rules[i].route[k],
                        NEW channel, channel = ToLower(route.channel)
                 PROVE  LET set == config.set
                            messages == MessagesNamed(set, channel, route.template)
                        IN  /\ channel \in Senders(set)
                            /\ channel \in Tracker => SenderReady(set, channel)
                            /\ Cardinality(messages) = 1
                            /\ \A m \in messages :
                                 set[<<channel, "name-template">>][m].message \notin Malformed
    BY DEF RoutesDeliverable
  <2>2. PICK set : set = config.set
    OBVIOUS
  <2>3. /\ \A c \in Channel : ChannelValid(set, c)
        /\ validateNotifyTemplates(set) /\ RulesValid(config)
    BY <2>1, <2>2 DEF IInv, validateConfig
  <2>4. PICK list : list = set[<<channel, "name-template">>]
    OBVIOUS
  <2>5. /\ channel \in Channel /\ set[<<channel, "enabled">>]
        /\ \E m \in DOMAIN list : ToLower(list[m].name) = ToLower(route.template)
    <3>1. validateRuleNotifyRoutes(set, config.rules[i])
      BY <2>2, <2>3 DEF RulesValid
    <3> QED
      BY <2>1, <2>4, <3>1 DEF validateRuleNotifyRoutes
  <2>6. /\ \A m \in DOMAIN list : list[m].name # "" /\ Parses(list[m].message)
        /\ \A m, n \in DOMAIN list : m # n => ToLower(list[m].name) # ToLower(list[n].name)
    BY <2>3, <2>4, <2>5 DEF validateNotifyTemplates
  <2>7. PICK one \in DOMAIN list : MessagesNamed(set, channel, route.template) = {one}
    <3>1. PICK one \in DOMAIN list : ToLower(list[one].name) = ToLower(route.template)
      BY <2>5
    <3>2. MessagesNamed(set, channel, route.template) = {one}
      BY <2>4, <2>6, <3>1 DEF MessagesNamed
    <3> QED
      BY <3>2
  <2>8. Cardinality({one}) = 1
    BY FS_Singleton
  <2>9. list[one].message \notin Malformed
    BY <2>6 DEF Parses
  <2>10. ASSUME channel \in Tracker PROVE SenderReady(set, channel)
    <3>1. ASSUME NEW a \in Action PROVE validateTrackerAction(set, channel, a)
      <4>1. channel \notin {"telegram", "http", "mattermost"}
        BY <2>10 DEF Tracker
      <4>2. ChannelValid(set, channel) /\ set[<<channel, "enabled">>]
        BY <2>3, <2>5
      <4> QED
        BY <2>10, <4>1, <4>2 DEF ChannelValid
    <3> QED
      BY <3>1, MalformedAssumption DEF SenderReady, validateTrackerAction, Parses
  <2> QED
    BY <2>2, <2>4, <2>5, <2>7, <2>8, <2>9, <2>10 DEF Senders
<1> QED
  BY <1>1, LoadInvariant, PTL

\* The off windows of an accepted rule skip the minutes they name and no others
\* (compileNotifyOffWindow, notifyOffContainsMinute).
THEOREM OffWindowsAlwaysExact == Spec => []OffWindowExact
<1>1. IInv => OffWindowExact
  <2>1. SUFFICES ASSUME IInv, phase = "accepted",
                        NEW i \in DOMAIN config.rules, NEW day \in Weekday, NEW minute \in Minute,
                        NEW off, off = config.rules[i].off
                 PROVE  NotifyOffActiveAt(off, day, minute) <=>
                          \E k \in DOMAIN off :
                            Covered(off[k].days, day, minute, MinuteOf(off[k].from), MinuteOf(off[k].to))
    BY DEF OffWindowExact
  <2>2. \A k \in DOMAIN off : ValidWindow(off[k])
    BY <2>1 DEF IInv, validateConfig, RulesValid, validateRule
  <2>3. ASSUME NEW k \in DOMAIN off
        PROVE  /\ off[k].from.hour \in Int /\ off[k].from.minute \in Int
               /\ off[k].to.hour \in Int /\ off[k].to.minute \in Int
    BY <2>2, DayAssumption DEF ValidWindow, ClockInRange
  <2> QED
    BY <2>2, <2>3, OffWindowsExact
<1> QED
  BY <1>1, LoadInvariant, PTL

-----------------------------------------------------------------------------
(* Merging: setting by setting.                                            *)

\* Templates and maps are settings of their own kinds, unset when empty.
LEMMA ListKinds ==
  /\ \A f \in Templates : f \in Field /\ f \notin Flags \cup Maps /\ Zero(f) = <<>>
  /\ \A f \in Maps : f \in Field /\ f \notin Flags \cup Templates /\ Zero(f) = <<>>
<1>1. ASSUME NEW f \in Templates
      PROVE  f \notin Flags /\ f \notin Numbers /\ f \notin Texts /\ f \notin Retries
             /\ f \notin Auths /\ f \notin Maps
  <2>1. f[2] = "name-template"
    BY DEF Templates
  <2> QED
    BY <2>1 DEF Flags, Numbers, Texts, Retries, Auths, Maps, Action
<1>2. ASSUME NEW f \in Maps
      PROVE  f \notin Flags /\ f \notin Numbers /\ f \notin Texts /\ f \notin Retries
             /\ f \notin Auths /\ f \notin Templates
  <2>1. f = <<"http", "headers">> \/ f \in Tracker \X Action \X {"headers"}
    BY DEF Maps
  <2>2. f[2] \in {"headers", "create", "resolve"}
    BY <2>1 DEF Action
  <2>3. f \notin Flags /\ f \notin Numbers /\ f \notin Retries /\ f \notin Auths /\ f \notin Templates
    BY <2>2 DEF Flags, Numbers, Retries, Auths, Templates
  <2>4. f \notin Texts
    <3>1. CASE f = <<"http", "headers">>
      BY <3>1 DEF Texts, Action
    <3>2. CASE f \in Tracker \X Action \X {"headers"}
      <4>1. f[3] = "headers" /\ f[2] \in {"create", "resolve"}
        BY <3>2 DEF Action
      <4>2. f \notin Tracker \X Action \X {"method", "path", "body_template", "ref_json_path"}
        BY <4>1
      <4> QED
        BY <4>1, <4>2 DEF Texts
    <3> QED
      BY <2>1, <3>1, <3>2
  <2> QED
    BY <2>3, <2>4
<1>3. \A f \in Templates \cup Maps : f \in Field
  BY DEF Field
<1> QED
  BY <1>1, <1>2, <1>3 DEF Zero

\* The sections partition the settings; those with templates and maps are overlaid.
LEMMA Sections ==
  /\ \A f \in Field : SectionOf(f) \in Whole \cup Overlaid /\ f[1] \in SectionOf(f)
  /\ \A f \in Templates \cup Maps : SectionOf(f) \in Overlaid
  /\ Whole \cap Overlaid = {}
<1>1. ASSUME NEW f \in Field
      PROVE  f[1] \in {"service"} \cup LogSink \cup {"ingest.http", "ingest.nats"} \cup Channel
                      \cup {"notify", "queue", "ui"}
  <2>1. CASE f \in Flags
    BY <2>1 DEF Flags, Queues
  <2>2. CASE f \in Numbers
    BY <2>2 DEF Numbers, Queues, Channel
  <2>3. CASE f \in Texts
    BY <2>3 DEF Texts, Channel
  <2>4. CASE f \in Lists \cup Maps
    BY <2>4 DEF Lists, Maps, Channel
  <2>5. CASE f \in Templates \cup Retries \cup Auths
    BY <2>5 DEF Templates, Retries, Auths, Channel
  <2> QED
    BY <2>1, <2>2, <2>3, <2>4, <2>5 DEF Field
<1>2. ASSUME NEW f \in Field
      PROVE  SectionOf(f) \in Whole \cup Overlaid /\ f[1] \in SectionOf(f)
  <2>1. \E s \in Whole \cup Overlaid : f[1] \in s
    BY <1>1 DEF Whole, Overlaid
  <2> QED
    BY <2>1 DEF SectionOf
<1>3. ASSUME NEW f \in Templates \cup Maps PROVE f[1] \in Channel /\ f \in Field
  BY DEF Templates, Maps, Channel, Field
<1>4. \A s \in Whole : s \cap Channel = {}
  BY DEF Whole, LogSink, Channel, Tracker
<1>5. "service" \in {"service"} /\ "log.file" \in LogSink /\ "ingest.http" \in {"ingest.http", "ingest.nats"}
  BY DEF LogSink
<1>6. \A s \in Overlaid : "service" \notin s /\ "log.file" \notin s /\ "ingest.http" \notin s
  BY DEF Overlaid, Channel, Tracker
<1>7. Whole \cap Overlaid = {}
  BY <1>5, <1>6 DEF Whole
<1> QED
  BY <1>2, <1>3, <1>4, <1>7

\* Templates are lists, and maps are functions.
SetShaped(set) ==
  /\ set = [f \in Field |-> set[f]]
  /\ \A f \in Templates : set[f] \in Seq(NotifyTemplate)
  /\ \A f \in Maps : set[f] = [k \in DOMAIN set[f] |-> set[f][k]]
Shaped(c) == c = [set |-> c.set, rules |-> c.rules] /\ SetShaped(c.set) /\ c.rules \in Seq(RuleConfig)

\* loadFile: the templates and maps of a file.
LEMMA DecodedShaped ==
  ASSUME NEW d \in Directories, NEW i \in DOMAIN d
  PROVE  Shaped(Decoded(d[i])) /\ Decoded(d[i]).rules = d[i].rules
<1>1. /\ d[i].rules \in Seq(RuleConfig)
      /\ \A f \in DOMAIN d[i].keys \cap Templates : d[i].keys[f] \in Seq(NotifyTemplate)
      /\ \A f \in DOMAIN d[i].keys \cap Maps : d[i].keys[f] \in [DOMAIN d[i].keys[f] -> STRING]
  BY DirectoriesAssumption
<1>2. PICK set : set = [f \in Field |-> IF f \in DOMAIN d[i].keys THEN d[i].keys[f] ELSE Zero(f)]
  OBVIOUS
<1>3. Decoded(d[i]) = [set |-> set, rules |-> d[i].rules]
  BY <1>2 DEF Decoded
<1>4. ASSUME NEW f \in Templates PROVE set[f] \in Seq(NotifyTemplate)
  <2>1. f \in Field /\ Zero(f) = <<>>
    BY ListKinds
  <2>2. <<>> \in Seq(NotifyTemplate)
    OBVIOUS
  <2> QED
    BY <1>1, <1>2, <2>1, <2>2
<1>5. ASSUME NEW f \in Maps PROVE set[f] = [k \in DOMAIN set[f] |-> set[f][k]]
  <2>1. f \in Field /\ Zero(f) = <<>>
    BY ListKinds
  <2>2. CASE f \in DOMAIN d[i].keys
    BY <1>1, <1>2, <2>1, <2>2
  <2>3. CASE f \notin DOMAIN d[i].keys
    <3>1. set[f] = <<>>
      BY <1>2, <2>1, <2>3
    <3> QED
      BY <3>1
  <2> QED
    BY <2>2, <2>3
<1>6. set = [f \in Field |-> set[f]]
  BY <1>2
<1>7. Decoded(d[i]).set = set /\ Decoded(d[i]).rules = d[i].rules
  BY <1>3
<1>8. SetShaped(Decoded(d[i]).set)
  BY <1>4, <1>5, <1>6, <1>7 DEF SetShaped
<1> QED
  BY <1>1, <1>3, <1>7, <1>8 DEF Shaped

\* A file that has no word on a setting leaves it unset (Decoded).
LEMMA SilentIsZero ==
  ASSUME NEW fragment, NEW f \in Field, ~Speaks(fragment, f)
  PROVE  Decoded(fragment).set[f] = Zero(f)
<1>1. CASE SectionOf(f) \in Whole
  BY <1>1, Sections DEF Speaks, HasConfig
<1>2. CASE SectionOf(f) \notin Whole /\ f \in Flags
  <2>1. f \notin DOMAIN fragment.keys
    BY <1>2 DEF Speaks
  <2> QED
    BY <2>1 DEF Decoded
<1>3. CASE SectionOf(f) \notin Whole /\ f \notin Flags
  BY <1>3 DEF Speaks
<1> QED
  BY <1>1, <1>2, <1>3

\* What mergeConfig takes for one setting.
MergedSetting(old, word, spoken, f) ==
  IF f \in Maps THEN mergeStringMap(old, word)
  ELSE IF f \in Templates THEN old \o word
  ELSE IF spoken THEN word ELSE old

\* mergeConfig, whatever section the setting is in: maps and templates grow, of
\* anything else the word of the file is taken, if it has one.
LEMMA MergeByKind ==
  ASSUME NEW c, Shaped(c), NEW d \in Directories, NEW i \in DOMAIN d, NEW f \in Field
  PROVE  mergeConfig(c, d[i]).set[f]
           = MergedSetting(c.set[f], Decoded(d[i]).set[f], Speaks(d[i], f), f)
<1>1. PICK src : src = Decoded(d[i])
  OBVIOUS
<1>2. PICK given : given = DOMAIN d[i].keys
  OBVIOUS
<1>3. PICK touched : touched = {s \in Whole : HasConfig(src, s)}
                               \cup {s \in Overlaid : HasConfig(src, s)
                                       \/ \E g \in given \cap Flags : g[1] \in s}
  OBVIOUS
<1>4. mergeConfig(c, d[i]).set[f] =
        IF SectionOf(f) \notin touched THEN c.set[f]
        ELSE IF SectionOf(f) \in Whole THEN src.set[f] ELSE Overlay(c, src, given, f)
  BY <1>1, <1>2, <1>3 DEF mergeConfig
<1>5. f[1] \in SectionOf(f) /\ SectionOf(f) \in Whole \cup Overlaid /\ Whole \cap Overlaid = {}
  BY Sections
<1>6. SectionOf(f) \notin touched => src.set[f] = Zero(f)
  BY <1>3, <1>5 DEF HasConfig
<1>7. CASE f \in Maps
  <2>1. SectionOf(f) \notin Whole /\ f \notin Flags /\ f \notin Templates /\ Zero(f) = <<>>
    BY <1>5, <1>7, ListKinds, Sections
  <2>2. CASE SectionOf(f) \in touched
    BY <1>1, <1>4, <1>7, <2>1, <2>2 DEF Overlay, MergedSetting
  <2>3. CASE SectionOf(f) \notin touched
    <3>1. src.set[f] = <<>> /\ c.set[f] = [k \in DOMAIN c.set[f] |-> c.set[f][k]]
      BY <1>6, <1>7, <2>1, <2>3 DEF Shaped, SetShaped
    <3>2. DOMAIN src.set[f] = {}
      BY <3>1
    <3>3. mergeStringMap(c.set[f], src.set[f]) = [k \in DOMAIN c.set[f] |-> c.set[f][k]]
      BY <3>2 DEF mergeStringMap
    <3> QED
      BY <1>1, <1>4, <1>7, <2>3, <3>1, <3>3 DEF MergedSetting
  <2> QED
    BY <2>2, <2>3
<1>8. CASE f \in Templates
  <2>1. SectionOf(f) \notin Whole /\ f \notin Flags /\ f \notin Maps /\ Zero(f) = <<>>
    BY <1>5, <1>8, ListKinds, Sections
  <2>2. CASE SectionOf(f) \in touched
    BY <1>1, <1>4, <1>8, <2>1, <2>2 DEF Overlay, MergedSetting
  <2>3. CASE SectionOf(f) \notin touched
    <3>1. src.set[f] = <<>> /\ c.set[f] \in Seq(NotifyTemplate)
      BY <1>6, <1>8, <2>1, <2>3 DEF Shaped, SetShaped
    <3>2. c.set[f] \o src.set[f] = c.set[f]
      BY <3>1, ConcatEmptySeq
    <3> QED
      BY <1>1, <1>4, <1>8, <2>1, <2>3, <3>2 DEF MergedSetting
  <2> QED
    BY <2>2, <2>3
<1>9. CASE f \notin Maps /\ f \notin Templates
  <2>1. CASE SectionOf(f) \in Whole
    <3>1. SectionOf(f) \in touched <=> Speaks(d[i], f)
      BY <1>1, <1>3, <1>5, <2>1 DEF Speaks
    <3> QED
      BY <1>1, <1>4, <1>9, <2>1, <3>1 DEF MergedSetting
  <2>2. CASE SectionOf(f) \notin Whole /\ f \in Flags
    <3>1. Speaks(d[i], f) <=> f \in given
      BY <1>2, <2>2 DEF Speaks
    <3>2. f \in given => SectionOf(f) \in touched
      BY <1>3, <1>5, <2>2
    <3>3. Overlay(c, src, given, f) = IF f \in given THEN src.set[f] ELSE c.set[f]
      BY <1>9, <2>2 DEF Overlay
    <3> QED
      BY <1>1, <1>4, <1>9, <2>2, <3>1, <3>2, <3>3 DEF MergedSetting
  <2>3. CASE SectionOf(f) \notin Whole /\ f \notin Flags
    <3>1. Speaks(d[i], f) <=> src.set[f] # Zero(f)
      BY <1>1, <2>3 DEF Speaks
    <3>2. Overlay(c, src, given, f) = IF src.set[f] = Zero(f) THEN c.set[f] ELSE src.set[f]
      BY <1>9, <2>3 DEF Overlay
    <3> QED
      BY <1>1, <1>4, <1>6, <1>9, <2>3, <3>1, <3>2 DEF MergedSetting
  <2> QED
    BY <2>1, <2>2, <2>3
<1> QED
  BY <1>7, <1>8, <1>9

\* mergeConfig: what comes out is shaped as what went in.
LEMMA MergeShaped ==
  ASSUME NEW c, Shaped(c), NEW d \in Directories, NEW i \in DOMAIN d
  PROVE  Shaped(mergeConfig(c, d[i])) /\ mergeConfig(c, d[i]).rules = c.rules \o d[i].rules
<1>1. PICK m : m = mergeConfig(c, d[i])
  OBVIOUS
<1>2. PICK src : src = Decoded(d[i]) /\ Shaped(src) /\ src.rules = d[i].rules
  BY DecodedShaped
<1>3. /\ m.set = [f \in Field |-> m.set[f]] /\ m.rules = c.rules \o src.rules
      /\ m = [set |-> m.set, rules |-> m.rules]
  BY <1>1, <1>2 DEF mergeConfig
<1>4. m.rules \in Seq(RuleConfig)
  BY <1>2, <1>3, ConcatProperties DEF Shaped
<1>5. ASSUME NEW f \in Templates PROVE m.set[f] \in Seq(NotifyTemplate)
  <2>1. f \in Field /\ f \notin Maps
    BY ListKinds
  <2>2. m.set[f] = c.set[f] \o src.set[f]
    BY <1>1, <1>2, <2>1, MergeByKind, ZenonT(30) DEF MergedSetting
  <2>3. c.set[f] \in Seq(NotifyTemplate) /\ src.set[f] \in Seq(NotifyTemplate)
    BY <1>2 DEF Shaped, SetShaped
  <2> QED
    BY <2>2, <2>3, ConcatProperties
<1>6. ASSUME NEW f \in Maps PROVE m.set[f] = [k \in DOMAIN m.set[f] |-> m.set[f][k]]
  <2>1. m.set[f] = mergeStringMap(c.set[f], src.set[f])
    BY <1>1, <1>2, ListKinds, MergeByKind DEF MergedSetting
  <2> QED
    BY <2>1 DEF mergeStringMap
<1>7. SetShaped(m.set)
  BY <1>3, <1>5, <1>6 DEF SetShaped
<1> QED
  BY <1>1, <1>2, <1>3, <1>4, <1>7 DEF Shaped

\* The empty configuration is shaped too: every setting is unset.
LEMMA NoConfigShaped == Shaped(NoConfig) /\ \A f \in Field : NoConfig.set[f] = Zero(f)
<1>1. /\ NoConfig = [set |-> NoConfig.set, rules |-> NoConfig.rules]
      /\ NoConfig.set = [f \in Field |-> Zero(f)] /\ NoConfig.rules = <<>>
  BY DEF NoConfig
<1>2. <<>> \in Seq(RuleConfig) /\ <<>> \in Seq(NotifyTemplate)
  OBVIOUS
<1>3. ASSUME NEW f \in Templates PROVE NoConfig.set[f] \in Seq(NotifyTemplate)
  BY <1>1, <1>2, ListKinds
<1>4. ASSUME NEW f \in Maps PROVE NoConfig.set[f] = <<>>
  BY <1>1, ListKinds
<1>5. \A f \in Maps : NoConfig.set[f] = [k \in DOMAIN NoConfig.set[f] |-> NoConfig.set[f][k]]
  BY <1>4
<1>6. NoConfig.set = [f \in Field |-> NoConfig.set[f]]
  BY <1>1
<1>7. SetShaped(NoConfig.set)
  BY <1>3, <1>5, <1>6 DEF SetShaped
<1> QED
  BY <1>1, <1>2, <1>7 DEF Shaped

\* The first file of a directory is taken as it is.
LEMMA FirstMerge ==
  ASSUME NEW d \in Directories, NEW i \in DOMAIN d
  PROVE  Shaped(NoConfig) /\ mergeConfig(NoConfig, d[i]) = Decoded(d[i])
<1>1. Shaped(NoConfig) /\ \A f \in Field : NoConfig.set[f] = Zero(f)
  BY NoConfigShaped
<1>2. PICK src : src = Decoded(d[i]) /\ Shaped(src) /\ src.rules = d[i].rules
  BY DecodedShaped
<1>3. PICK m : m = mergeConfig(NoConfig, d[i]) /\ Shaped(m) /\ m.rules = NoConfig.rules \o src.rules
  BY <1>1, <1>2, MergeShaped
<1>4. m.rules = src.rules
  <2>1. NoConfig.rules = <<>>
    BY DEF NoConfig
  <2> QED
    BY <1>2, <1>3, <2>1, ConcatEmptySeq DEF Shaped
<1>5. ASSUME NEW f \in Field PROVE m.set[f] = src.set[f]
  <2>1. m.set[f] = MergedSetting(Zero(f), src.set[f], Speaks(d[i], f), f)
    BY <1>1, <1>2, <1>3, MergeByKind
  <2>2. CASE f \in Maps
    <3>1. Zero(f) = <<>> /\ DOMAIN Zero(f) = {}
      BY <2>2, ListKinds
    <3>2. mergeStringMap(Zero(f), src.set[f]) = [k \in DOMAIN src.set[f] |-> src.set[f][k]]
      BY <3>1 DEF mergeStringMap
    <3> QED
      BY <1>2, <2>1, <2>2, <3>2 DEF MergedSetting, Shaped, SetShaped
  <2>3. CASE f \in Templates
    <3>1. Zero(f) = <<>> /\ f \notin Maps /\ src.set[f] \in Seq(NotifyTemplate)
      BY <1>2, <2>3, ListKinds DEF Shaped, SetShaped
    <3>2. <<>> \o src.set[f] = src.set[f]
      BY <3>1, ConcatEmptySeq
    <3> QED
      BY <2>1, <2>3, <3>1, <3>2 DEF MergedSetting
  <2>4. CASE f \notin Maps /\ f \notin Templates
    BY <1>2, <2>1, <2>4, SilentIsZero DEF MergedSetting
  <2> QED
    BY <2>2, <2>3, <2>4
<1>6. m.set = src.set
  <2>1. m.set = [f \in Field |-> m.set[f]] /\ src.set = [f \in Field |-> src.set[f]]
    BY <1>2, <1>3 DEF Shaped, SetShaped
  <2> QED
    BY <1>5, <2>1
<1>7. m = [set |-> m.set, rules |-> m.rules] /\ src = [set |-> src.set, rules |-> src.rules]
  BY <1>2, <1>3 DEF Shaped
<1> QED
  BY <1>1, <1>2, <1>3, <1>4, <1>6, <1>7

-----------------------------------------------------------------------------
(* The latest word, one file later.                                        *)

\* One part after the others.
Extends(more, parts, n, part) ==
  /\ DOMAIN parts = 1..n /\ DOMAIN more = 1..(n + 1)
  /\ \A i \in 1..n : more[i] = parts[i]
  /\ more[n + 1] = part

\* A set of numbers that is not empty has a smallest one.
LEMMA Least ==
  ASSUME NEW T \in SUBSET Nat, T # {}
  PROVE  \E x \in T : \A y \in T : x <= y
<1> DEFINE R == OpToRel(<, Nat)
<1>1. IsWellFoundedOn(R, Nat)
  BY NatLessThanWellFounded
<1>2. \A a, b \in Nat : a < b => <<a, b>> \in R
  BY DEF OpToRel
<1> HIDE DEF R
<1>3. PICK x \in T : \A y \in T : <<y, x>> \notin R
  BY <1>1, WFMin
<1> QED
  <2>1. \A y \in T : ~(y < x)
    BY <1>2, <1>3
  <2> QED
    BY <2>1

\* The latest of some places, when the last of all may be one more.
LEMMA LatestPlace ==
  ASSUME NEW n \in Nat, NEW S \in SUBSET (1..n)
  PROVE  /\ Max(S \cup {n + 1}) = n + 1
         /\ S # {} => Max(S) \in S
<1>1. \A y \in S \cup {n + 1} : y \in Int /\ n + 1 >= y
  OBVIOUS
<1>2. Max(S \cup {n + 1}) = n + 1
  <2>1. \E x \in S \cup {n + 1} : \A y \in S \cup {n + 1} : x >= y
    BY <1>1
  <2>2. PICK x : x = Max(S \cup {n + 1}) /\ x \in S \cup {n + 1} /\ \A y \in S \cup {n + 1} : x >= y
    BY <2>1 DEF Max
  <2> QED
    BY <1>1, <2>2
<1>3. ASSUME S # {} PROVE Max(S) \in S
  <2> DEFINE Behind == {n - i : i \in S}
  <2>1. Behind \subseteq Nat
    OBVIOUS
  <2>2. Behind # {}
    <3>1. PICK i \in S : TRUE
      BY <1>3
    <3>2. n - i \in Behind
      OBVIOUS
    <3> QED
      BY <3>2
  <2>3. PICK b \in Behind : \A a \in Behind : b <= a
    <3> HIDE DEF Behind
    <3> QED
      BY <2>1, <2>2, Least
  <2>4. PICK x \in S : b = n - x
    BY <2>3
  <2>5. \A y \in S : x >= y
    BY <2>3, <2>4
  <2> QED
    BY <2>4, <2>5 DEF Max
<1> QED
  BY <1>2, <1>3

\* The latest word on a setting, when there is one more file.
LEMMA LatestExtends ==
  ASSUME NEW n \in Nat, NEW parts, NEW more, NEW part, Extends(more, parts, n, part),
         NEW f, f \notin Templates
  PROVE  Latest(more, f)
           = MergedSetting(Latest(parts, f), Decoded(part).set[f], Speaks(part, f), f)
<1>1. /\ DOMAIN parts = 1..n /\ DOMAIN more = 1..(n + 1)
      /\ \A i \in 1..n : more[i] = parts[i]
      /\ more[n + 1] = part
  BY DEF Extends
<1>2. 1..(n + 1) = (1..n) \cup {n + 1} /\ n + 1 \notin 1..n
  OBVIOUS
<1>3. CASE f \in Maps
  <2>1. PICK word : word = [i \in 1..(n + 1) |-> Decoded(more[i]).set[f]]
    OBVIOUS
  <2>2. /\ \A i \in DOMAIN parts : Decoded(parts[i]).set[f] = word[i]
        /\ \A i \in DOMAIN more : Decoded(more[i]).set[f] = word[i]
        /\ Decoded(part).set[f] = word[n + 1]
    BY <1>1, <1>2, <2>1
  <2>3. PICK keys : keys = UNION {DOMAIN word[i] : i \in 1..n}
    OBVIOUS
  <2>4. UNION {DOMAIN word[i] : i \in 1..(n + 1)} = keys \cup DOMAIN word[n + 1]
    BY <1>2, <2>3
  <2>5. Latest(parts, f) = [k \in keys |-> word[Max({i \in 1..n : k \in DOMAIN word[i]})][k]]
    <3>1. keys = UNION {DOMAIN Decoded(parts[i]).set[f] : i \in DOMAIN parts}
      BY <1>1, <2>2, <2>3
    <3>2. ASSUME NEW k \in keys
          PROVE  Decoded(parts[Max({i \in DOMAIN parts : k \in DOMAIN Decoded(parts[i]).set[f]})]).set[f][k]
                   = word[Max({i \in 1..n : k \in DOMAIN word[i]})][k]
      <4>1. PICK S : S = {i \in 1..n : k \in DOMAIN word[i]}
        OBVIOUS
      <4>2. {i \in DOMAIN parts : k \in DOMAIN Decoded(parts[i]).set[f]} = S
        BY <1>1, <2>2, <4>1
      <4>3. S # {} /\ S \in SUBSET (1..n)
        BY <2>3, <4>1
      <4>4. Max(S) \in 1..n
        BY <4>3, LatestPlace
      <4> QED
        BY <1>1, <2>2, <4>1, <4>2, <4>4
    <3> QED
      BY <1>3, <3>1, <3>2 DEF Latest
  <2>6. Latest(more, f)
          = [k \in keys \cup DOMAIN word[n + 1] |->
               word[Max({i \in 1..(n + 1) : k \in DOMAIN word[i]})][k]]
    <3>1. keys \cup DOMAIN word[n + 1] = UNION {DOMAIN Decoded(more[i]).set[f] : i \in DOMAIN more}
      BY <1>1, <2>2, <2>4
    <3>2. ASSUME NEW k \in keys \cup DOMAIN word[n + 1]
          PROVE  Decoded(more[Max({i \in DOMAIN more : k \in DOMAIN Decoded(more[i]).set[f]})]).set[f][k]
                   = word[Max({i \in 1..(n + 1) : k \in DOMAIN word[i]})][k]
      <4>1. PICK S : S = {i \in 1..(n + 1) : k \in DOMAIN word[i]}
        OBVIOUS
      <4>2. {i \in DOMAIN more : k \in DOMAIN Decoded(more[i]).set[f]} = S
        BY <1>1, <2>2, <4>1
      <4>3. S # {} /\ S \in SUBSET (1..(n + 1))
        BY <1>2, <2>3, <4>1
      <4>4. Max(S) \in 1..(n + 1)
        BY <4>3, n + 1 \in Nat, LatestPlace
      <4> QED
        BY <1>1, <2>2, <4>1, <4>2, <4>4
    <3> QED
      BY <1>3, <3>1, <3>2 DEF Latest
  <2>7. ASSUME NEW k \in keys \cup DOMAIN word[n + 1]
        PROVE  word[Max({i \in 1..(n + 1) : k \in DOMAIN word[i]})][k]
                 = IF k \in DOMAIN word[n + 1] THEN word[n + 1][k]
                   ELSE word[Max({i \in 1..n : k \in DOMAIN word[i]})][k]
    <3>1. PICK S : S = {i \in 1..n : k \in DOMAIN word[i]} /\ S \in SUBSET (1..n)
      OBVIOUS
    <3>2. {i \in 1..(n + 1) : k \in DOMAIN word[i]}
            = IF k \in DOMAIN word[n + 1] THEN S \cup {n + 1} ELSE S
      BY <1>2, <3>1
    <3> QED
      BY <3>1, <3>2, LatestPlace
  <2>8. DOMAIN Latest(parts, f) = keys
    BY <2>5
  <2>9. mergeStringMap(Latest(parts, f), word[n + 1])
          = [k \in keys \cup DOMAIN word[n + 1] |->
               IF k \in DOMAIN word[n + 1] THEN word[n + 1][k] ELSE Latest(parts, f)[k]]
    BY <2>8 DEF mergeStringMap
  <2>10. Latest(more, f) = mergeStringMap(Latest(parts, f), word[n + 1])
    BY <2>5, <2>6, <2>7, <2>9
  <2> QED
    BY <1>3, <2>2, <2>10 DEF MergedSetting
<1>4. CASE f \notin Maps
  <2>1. PICK S : S = {i \in 1..n : Speaks(parts[i], f)}
    OBVIOUS
  <2>2. Latest(parts, f) = IF S = {} THEN Zero(f) ELSE Decoded(parts[Max(S)]).set[f]
    BY <1>1, <1>4, <2>1 DEF Latest
  <2>3. Latest(more, f) =
          IF {i \in 1..(n + 1) : Speaks(more[i], f)} = {} THEN Zero(f)
          ELSE Decoded(more[Max({i \in 1..(n + 1) : Speaks(more[i], f)})]).set[f]
    BY <1>1, <1>4 DEF Latest
  <2>4. {i \in 1..(n + 1) : Speaks(more[i], f)} = IF Speaks(part, f) THEN S \cup {n + 1} ELSE S
    BY <1>1, <1>2, <2>1
  <2>5. Max(S \cup {n + 1}) = n + 1 /\ (S # {} => Max(S) \in 1..n)
    <3>1. S \in SUBSET (1..n)
      BY <2>1
    <3> QED
      BY <3>1, LatestPlace
  <2>6. CASE Speaks(part, f)
    BY <1>1, <1>4, <2>3, <2>4, <2>5, <2>6 DEF MergedSetting
  <2>7. CASE ~Speaks(part, f)
    <3>1. S # {} => more[Max(S)] = parts[Max(S)]
      BY <1>1, <2>5
    <3> QED
      BY <1>4, <2>2, <2>3, <2>4, <2>7, <3>1, <2>5 DEF MergedSetting
  <2> QED
    BY <2>6, <2>7
<1> QED
  BY <1>3, <1>4

\* No parts are joined to nothing.
LEMMA JoinedNone ==
  ASSUME NEW S, NEW parts, parts = <<>>
  PROVE  Joined(<<>>, parts)
<1>1. PICK at : at = [i \in 0..Len(parts) |-> 0]
  OBVIOUS
<1>2. Len(parts) = 0 /\ Len(<<>>) = 0
  OBVIOUS
<1>3. at \in [0..Len(parts) -> 0..Len(<<>>)] /\ at[0] = 0 /\ at[Len(parts)] = Len(<<>>)
  BY <1>1, <1>2
<1>4. 1..Len(parts) = {}
  BY <1>2
<1> QED
  BY <1>3, <1>4 DEF Joined

\* One part more, at the end of the whole.
LEMMA JoinedExtends ==
  ASSUME NEW S, NEW whole \in Seq(S), NEW part \in Seq(S), NEW n \in Nat,
         NEW parts, NEW more, Extends(more, parts, n, part),
         Len(parts) = n, Len(more) = n + 1, Joined(whole, parts),
         \A i \in 1..n : parts[i] \in Seq(S)
  PROVE  Joined(whole \o part, more)
<1>1. PICK at \in [0..n -> 0..Len(whole)] :
        /\ at[0] = 0 /\ at[n] = Len(whole)
        /\ \A i \in 1..n :
             /\ at[i] = at[i - 1] + Len(parts[i])
             /\ \A k \in 1..Len(parts[i]) : whole[at[i - 1] + k] = parts[i][k]
  BY DEF Joined
<1>2. /\ \A i \in 1..n : more[i] = parts[i]
      /\ more[n + 1] = part
  BY DEF Extends
<1>3. /\ Len(whole) \in Nat /\ Len(part) \in Nat
      /\ Len(whole \o part) = Len(whole) + Len(part)
      /\ \A j \in 1..(Len(whole) + Len(part)) :
           (whole \o part)[j] = IF j <= Len(whole) THEN whole[j] ELSE part[j - Len(whole)]
  BY ConcatProperties
<1>4. PICK further : further = [i \in 0..(n + 1) |-> IF i = n + 1 THEN Len(whole) + Len(part) ELSE at[i]]
  OBVIOUS
<1>5. /\ further \in [0..(n + 1) -> 0..Len(whole \o part)]
      /\ further[0] = 0 /\ further[n + 1] = Len(whole \o part)
      /\ \A i \in 0..n : further[i] = at[i]
  BY <1>1, <1>3, <1>4
<1>6. ASSUME NEW i \in 1..(n + 1)
      PROVE  /\ further[i] = further[i - 1] + Len(more[i])
             /\ \A k \in 1..Len(more[i]) : (whole \o part)[further[i - 1] + k] = more[i][k]
  <2>1. CASE i = n + 1
    <3>1. further[i - 1] = Len(whole) /\ more[i] = part
      BY <1>1, <1>2, <1>5, <2>1
    <3>2. further[i] = Len(whole) + Len(part)
      BY <1>3, <1>5, <2>1
    <3>3. ASSUME NEW k \in 1..Len(part) PROVE (whole \o part)[Len(whole) + k] = part[k]
      <4>1. Len(whole) + k \in 1..(Len(whole) + Len(part)) /\ ~(Len(whole) + k <= Len(whole))
            /\ (Len(whole) + k) - Len(whole) = k
        BY <1>3
      <4> QED
        BY <1>3, <4>1
    <3> QED
      BY <3>1, <3>2, <3>3
  <2>2. CASE i \in 1..n
    <3>1. more[i] = parts[i] /\ further[i] = at[i] /\ further[i - 1] = at[i - 1]
          /\ at[i] \in 0..Len(whole) /\ at[i - 1] \in 0..Len(whole)
          /\ at[i] = at[i - 1] + Len(parts[i])
      BY <1>1, <1>2, <1>5, <2>2
    <3>2. ASSUME NEW k \in 1..Len(parts[i]) PROVE (whole \o part)[at[i - 1] + k] = parts[i][k]
      <4>1. whole[at[i - 1] + k] = parts[i][k]
        BY <1>1, <2>2
      <4>2. Len(parts[i]) \in Nat
        BY <2>2
      <4> DEFINE from == at[i - 1]
                 size == Len(parts[i])
                 old == Len(whole)
                 new == Len(part)
      <4>3. /\ from \in 0..old /\ from + size \in 0..old /\ k \in 1..size
            /\ size \in Nat /\ old \in Nat /\ new \in Nat
        BY <1>3, <3>1, <4>2
      <4> HIDE DEF from, size, old, new
      <4>4. from + k \in 1..(old + new) /\ from + k <= old
        BY <4>3
      <4> USE DEF from, old, new
      <4> QED
        BY <1>3, <4>1, <4>4
    <3> QED
      BY <3>1, <3>2
  <2>3. i = n + 1 \/ i \in 1..n
    OBVIOUS
  <2> QED
    BY <2>1, <2>2, <2>3
<1>7. /\ further \in [0..Len(more) -> 0..Len(whole \o part)] /\ further[Len(more)] = Len(whole \o part)
      /\ 1..Len(more) = 1..(n + 1)
  BY <1>5
<1>8. PICK longer : longer = whole \o part
  OBVIOUS
<1>9. \A i \in 1..Len(more) :
        /\ further[i] = further[i - 1] + Len(more[i])
        /\ \A k \in 1..Len(more[i]) : longer[further[i - 1] + k] = more[i][k]
  BY <1>6, <1>7, <1>8
<1>10. further \in [0..Len(more) -> 0..Len(longer)] /\ further[0] = 0 /\ further[Len(more)] = Len(longer)
  BY <1>5, <1>7, <1>8
<1>11. Joined(longer, more)
  BY <1>9, <1>10, Zenon DEF Joined
<1> QED
  BY <1>8, <1>11

-----------------------------------------------------------------------------
(* The invariant of the merge.                                             *)

\* While files are read the configuration is what they say together.
MergeInv ==
  /\ files \in Directories /\ read \in 0..Len(files)
  /\ source = "file" => Len(files) = 1
  /\ phase = "reading" =>
       /\ Shaped(config) /\ (read = 0 => config = NoConfig)
       /\ MergeMatchesLatestWord

\* Merging the next file keeps it.
LEMMA MergeKeeps ==
  ASSUME MergeInv, phase = "reading", phase' = "reading", read + 1 \in DOMAIN files,
         config' = mergeConfig(config, files[read + 1]),
         read' = read + 1, UNCHANGED <<source, files>>
  PROVE  MergeInv'
<1>1. Len(files) \in Nat /\ DOMAIN files = 1..Len(files) /\ files \in Directories
      /\ Shaped(config) /\ (read = 0 => config = NoConfig) /\ MergeMatchesLatestWord
      /\ read \in Nat
  BY DirectoriesAssumption DEF MergeInv
<1>2. PICK d \in Directories : d = files
  BY <1>1
<1>3. PICK n \in Nat : n = read
  BY <1>1
<1>4. PICK c : c = config
  OBVIOUS
<1>5. PICK m : m = config' /\ m = mergeConfig(c, d[n + 1])
  BY <1>2, <1>3, <1>4
<1>6. n + 1 \in DOMAIN d /\ \A i \in 1..n : i \in DOMAIN d
  BY <1>1, <1>2, <1>3
<1>7. Shaped(m) /\ m.rules = c.rules \o d[n + 1].rules
  BY <1>1, <1>4, <1>5, <1>6, MergeShaped
<1>8. PICK parts : parts = [i \in 1..n |-> d[i]]
  OBVIOUS
<1>9. PICK more : more = [i \in 1..(n + 1) |-> d[i]]
  OBVIOUS
<1>10. Extends(more, parts, n, d[n + 1])
  BY <1>8, <1>9 DEF Extends
<1>11. /\ c.set = [f \in Field |-> IF f \in Templates THEN c.set[f] ELSE Latest(parts, f)]
       /\ \A f \in Templates : Joined(c.set[f], [i \in 1..n |-> Decoded(parts[i]).set[f]])
       /\ Joined(c.rules, [i \in 1..n |-> parts[i].rules])
  BY <1>1, <1>2, <1>3, <1>4, <1>8 DEF MergeMatchesLatestWord
<1>12. ASSUME NEW f \in Field, f \notin Templates PROVE m.set[f] = Latest(more, f)
  <2>1. m.set[f] = MergedSetting(c.set[f], Decoded(d[n + 1]).set[f], Speaks(d[n + 1], f), f)
    BY <1>1, <1>4, <1>5, <1>6, MergeByKind
  <2>2. c.set[f] = Latest(parts, f)
    BY <1>11, <1>12
  <2> QED
    BY <1>10, <1>12, <2>1, <2>2, LatestExtends
<1>13. m.set = [f \in Field |-> IF f \in Templates THEN m.set[f] ELSE Latest(more, f)]
  <2>1. m.set = [f \in Field |-> m.set[f]]
    BY <1>7 DEF Shaped, SetShaped
  <2> QED
    BY <1>12, <2>1
<1>14. ASSUME NEW f \in Templates
       PROVE  Joined(m.set[f], [i \in 1..(n + 1) |-> Decoded(more[i]).set[f]])
  <2>1. f \in Field /\ f \notin Maps
    BY ListKinds
  <2>2. PICK word : word = Decoded(d[n + 1]).set[f] /\ word \in Seq(NotifyTemplate)
    <3>1. Shaped(Decoded(d[n + 1]))
      BY <1>6, DecodedShaped
    <3> QED
      BY <1>14, <3>1 DEF Shaped, SetShaped
  <2>3. m.set[f] = c.set[f] \o word
    <3>1. m.set[f] = MergedSetting(c.set[f], Decoded(d[n + 1]).set[f], Speaks(d[n + 1], f), f)
      BY <1>1, <1>4, <1>5, <1>6, <2>1, MergeByKind
    <3> QED
      BY <1>14, <2>1, <2>2, <3>1 DEF MergedSetting
  <2>4. c.set[f] \in Seq(NotifyTemplate)
    BY <1>1, <1>4, <1>14 DEF Shaped, SetShaped
  <2>5. PICK old : old = [i \in 1..n |-> Decoded(parts[i]).set[f]]
    OBVIOUS
  <2>6. PICK new : new = [i \in 1..(n + 1) |-> Decoded(more[i]).set[f]]
    OBVIOUS
  <2>7. Extends(new, old, n, word) /\ Len(old) = n /\ Len(new) = n + 1
    BY <1>8, <1>9, <2>2, <2>5, <2>6 DEF Extends
  <2>8. ASSUME NEW i \in 1..n PROVE old[i] \in Seq(NotifyTemplate)
    BY <1>6, <1>8, <1>14, <2>5, DecodedShaped DEF Shaped, SetShaped
  <2>9. Joined(c.set[f], old)
    BY <1>11, <1>14, <2>5
  <2> QED
    BY <2>2, <2>3, <2>4, <2>6, <2>7, <2>8, <2>9, JoinedExtends
<1>15. Joined(m.rules, [i \in 1..(n + 1) |-> more[i].rules])
  <2>1. \A i \in DOMAIN d : d[i].rules \in Seq(RuleConfig)
    BY DirectoriesAssumption
  <2>2. PICK old : old = [i \in 1..n |-> parts[i].rules]
    OBVIOUS
  <2>3. PICK new : new = [i \in 1..(n + 1) |-> more[i].rules]
    OBVIOUS
  <2>4. PICK part : part = d[n + 1].rules /\ part \in Seq(RuleConfig)
    BY <1>6, <2>1
  <2>7. Extends(new, old, n, part)
    BY <1>8, <1>9, <2>2, <2>3, <2>4 DEF Extends
  <2>8. Len(old) = n /\ Len(new) = n + 1
    BY <2>2, <2>3
  <2>5. \A i \in 1..n : old[i] \in Seq(RuleConfig)
    BY <1>6, <1>8, <2>1, <2>2
  <2>6. c.rules \in Seq(RuleConfig) /\ Joined(c.rules, old)
    BY <1>1, <1>4, <1>11, <2>2 DEF Shaped
  <2>9. Joined(c.rules \o part, new)
    BY <2>4, <2>5, <2>6, <2>7, <2>8, JoinedExtends
  <2>10. m.rules = c.rules \o part
    BY <1>7, <2>4
  <2> QED
    BY <2>3, <2>9, <2>10, Zenon
<1>16. n + 1 = 1 => m = Decoded(d[1])
  <2>1. n = 0 => c = NoConfig
    BY <1>1, <1>3, <1>4
  <2> QED
    BY <1>5, <1>6, <2>1, FirstMerge
<1>17. MergeMatchesLatestWord'
  BY <1>2, <1>3, <1>5, <1>9, <1>13, <1>14, <1>15, <1>16 DEF MergeMatchesLatestWord
<1>18. Shaped(config')
  BY <1>5, <1>7
<1>19. read' \in 0..Len(files) /\ read' # 0
  BY <1>1
<1> QED
  BY <1>1, <1>17, <1>18, <1>19 DEF MergeInv, Shaped, SetShaped

\* Before anything is read, everything is unset (LoadSnapshot).
LEMMA InitMerge == Init => MergeInv
<1>1. SUFFICES ASSUME Init PROVE MergeInv
  OBVIOUS
<1>2. Len(files) \in Nat /\ files \in Directories /\ read = 0 /\ config = NoConfig
      /\ (source = "file" => Len(files) = 1)
  BY <1>1, DirectoriesAssumption DEF Init
<1>3. PICK parts : parts = [i \in 1..read |-> files[i]]
  OBVIOUS
<1>4. DOMAIN parts = {}
  BY <1>2, <1>3
<1>5. ASSUME NEW f \in Field PROVE Latest(parts, f) = Zero(f)
  <2>1. CASE f \in Maps
    <3>1. UNION {DOMAIN Decoded(parts[i]).set[f] : i \in DOMAIN parts} = {}
      BY <1>4
    <3>2. Latest(parts, f) = [k \in {} |-> 0]
      BY <2>1, <3>1 DEF Latest
    <3>3. [k \in {} |-> 0] = <<>>
      OBVIOUS
    <3> QED
      BY <2>1, <3>2, <3>3, ListKinds
  <2>2. CASE f \notin Maps
    BY <1>4, <2>2 DEF Latest
  <2> QED
    BY <2>1, <2>2
<1>6. config.set = [f \in Field |-> IF f \in Templates THEN config.set[f] ELSE Latest(parts, f)]
  <2>1. config.set = [f \in Field |-> config.set[f]] /\ \A f \in Field : config.set[f] = Zero(f)
    BY <1>2, NoConfigShaped DEF Shaped, SetShaped
  <2> QED
    BY <1>5, <2>1
<1>7. ASSUME NEW f \in Templates
      PROVE  Joined(config.set[f], [i \in 1..read |-> Decoded(parts[i]).set[f]])
  <2>1. config.set[f] = <<>>
    BY <1>2, ListKinds, NoConfigShaped
  <2>2. [i \in 1..read |-> Decoded(parts[i]).set[f]] = <<>>
    BY <1>2
  <2> QED
    BY <2>1, <2>2, JoinedNone
<1>8. Joined(config.rules, [i \in 1..read |-> parts[i].rules])
  <2>1. config.rules = <<>>
    BY <1>2 DEF NoConfig
  <2>2. [i \in 1..read |-> parts[i].rules] = <<>>
    BY <1>2
  <2> QED
    BY <2>1, <2>2, JoinedNone
<1>9. MergeMatchesLatestWord
  <2>1. read # 1
    BY <1>2
  <2> QED
    BY <1>3, <1>6, <1>7, <1>8, <2>1 DEF MergeMatchesLatestWord
<1> QED
  BY <1>2, <1>9, NoConfigShaped DEF MergeInv

\* Every step of the loading keeps it; a single file is a directory of one.
LEMMA StepMerge == MergeInv /\ [Next]_vars => MergeInv'
<1>1. SUFFICES ASSUME MergeInv, [Next]_vars PROVE MergeInv'
  OBVIOUS
<1>2. Len(files) \in Nat /\ DOMAIN files = 1..Len(files) /\ files \in Directories /\ read \in 0..Len(files)
  BY <1>1, DirectoriesAssumption DEF MergeInv
<1>3. CASE Reject
  BY <1>1, <1>3 DEF Reject, MergeInv
<1>4. ASSUME Take PROVE /\ phase = "reading" /\ phase' = "reading" /\ read + 1 \in DOMAIN files
                        /\ read' = read + 1 /\ UNCHANGED <<source, files>>
  BY <1>2, <1>4 DEF Take, More
<1>5. CASE loadFile
  <2>1. Len(files) = 1 /\ read = 0 /\ config = NoConfig /\ config' = Decoded(files[1])
    BY <1>1, <1>2, <1>4, <1>5 DEF loadFile, MergeInv
  <2>2. config' = mergeConfig(config, files[read + 1])
    BY <1>2, <2>1, FirstMerge
  <2> QED
    BY <1>1, <1>4, <1>5, <2>2, MergeKeeps DEF loadFile
<1>6. CASE loadDirEntry
  BY <1>1, <1>4, <1>6, MergeKeeps DEF loadDirEntry
<1>7. CASE Finish
  <2>1. phase' # "reading" /\ UNCHANGED <<source, files, read>>
    BY <1>7 DEF Finish
  <2> QED
    BY <1>1, <2>1 DEF MergeInv
<1>8. CASE UNCHANGED vars
  BY <1>1, <1>8 DEF vars, MergeInv, Shaped, SetShaped, MergeMatchesLatestWord
<1> QED
  BY <1>1, <1>3, <1>5, <1>6, <1>7, <1>8 DEF Next

\* Whatever files a directory holds, merging them one by one leaves in each setting the latest
\* word on it, and all the templates and rules in their order (mergeConfig).
THEOREM MergedIsLatestWord == Spec => []MergeMatchesLatestWord
<1>1. MergeInv => (phase = "reading" => MergeMatchesLatestWord)
  BY DEF MergeInv
<1>2. (phase = "reading" => MergeMatchesLatestWord) => MergeMatchesLatestWord
  BY DEF MergeMatchesLatestWord
<1> QED
  BY <1>1, <1>2, InitMerge, StepMerge, PTL DEF Spec

==============================================================================
