------------------------------ MODULE ConfigLoad ------------------------------
(***************************************************************************)
(* Loading the configuration (internal/config): one TOML file as it is, or *)
(* the files of a directory laid over each other in the order of their     *)
(* names; then defaults, then validation.                                  *)
(*                                                                         *)
(* A setting is a field.  The zero value of its kind stands for "not set"  *)
(* wherever the code cannot tell the two apart; a fragment keeps apart the *)
(* keys that its file spells out, which the code knows of booleans only.   *)
(* Texts are compared up to blanks at their ends.                          *)
(***************************************************************************)
EXTENDS NotifyOff, FiniteSets, SequencesExt

CONSTANTS
  Directories, \* the sequences of fragments that may be found
  Lowercase,   \* the lower-case form of each spelling that is not lower-case
  Malformed    \* texts that do not parse as the template, pattern or URL they should be

ASSUME LowercaseAssumption == DOMAIN Lowercase \cap {Lowercase[s] : s \in DOMAIN Lowercase} = {}
\* The empty text is a template of its own.
ASSUME MalformedAssumption == "" \notin Malformed

VARIABLES
  source,    \* "file" or "dir"
  files,     \* what the files hold, in the order of their names
  read,      \* how many of them have been read
  config,    \* [set, rules]: the settings and the list of rules
  phase      \* "reading", "accepted" or "rejected"

vars == <<source, files, read, config, phase>>

ToLower(s) == IF s \in DOMAIN Lowercase THEN Lowercase[s] ELSE s

-----------------------------------------------------------------------------
(* The settings, by the kind of their values.                              *)

Tracker == {"jira", "youtrack"}
Channel == {"telegram", "http", "mattermost"} \cup Tracker
Action == {"create", "resolve"}
LogSink == {"log.console", "log.file"}
Queues == {"ingest.nats", "queue"}

Flags ==
  ({"ingest.http", "ui"} \cup Queues \cup LogSink \cup Channel) \X {"enabled"}
  \cup {<<"service", "reload_enabled">>, <<"queue", "dlq">>, <<"ui", "basic_enabled">>}
  \cup {"notify"} \X {"repeat", "repeat_per_channel", "on_pending"}

Numbers ==
  {"service"} \X {"reload_interval_sec", "resolve_scan_interval_sec",
                  "runtime_state_idle_sec", "runtime_state_max"}
  \cup Queues \X {"ack_wait_sec", "nack_delay_ms", "max_deliver", "max_ack_pending"}
  \cup ({"http", "mattermost"} \cup Tracker) \X {"timeout_sec"}
  \cup {"ui"} \X {"refresh_sec", "registry_ttl_sec", "stale_after_sec",
                  "offline_after_sec", "health_timeout_sec"}
  \cup {<<"ingest.http", "max_body_bytes">>, <<"ingest.nats", "workers">>,
        <<"notify", "repeat_every_sec">>}

Texts ==
  {"service"} \X {"name", "mode"}
  \cup LogSink \X {"level", "format", "path"}
  \cup {"ingest.http"} \X {"listen", "health_path", "ready_path", "ingest_path"}
  \cup {"telegram"} \X {"bot_token", "chat_id", "active_chat_id", "api_base"}
  \cup {"http"} \X {"url", "method"}
  \cup {"mattermost"} \X {"base_url", "bot_token", "channel_id", "active_channel_id"}
  \cup Tracker \X {"base_url"}
  \cup Tracker \X Action \X {"method", "path", "body_template", "ref_json_path"}
  \cup {"ui"} \X {"listen", "base_path", "username", "password", "registry_bucket",
                  "public_base_url"}

Lists == {"ingest.nats", "ui"} \X {"url"} \cup {<<"notify", "repeat_on">>}
         \cup Tracker \X Action \X {"success_status"}
Maps == {<<"http", "headers">>} \cup Tracker \X Action \X {"headers"}
Templates == Channel \X {"name-template"}
Retries == Channel \X {"retry"}
Auths == Tracker \X {"auth"}

Field == Flags \cup Numbers \cup Texts \cup Lists \cup Maps \cup Templates
         \cup Retries \cup Auths

NoRetry == [enabled |-> FALSE, backoff |-> "", initial |-> 0, max |-> 0, attempts |-> 0]
NoAuth == [type |-> "", given |-> {}]  \* given: which of its texts are not blank

Zero(f) ==
  CASE f \in Flags   -> FALSE
    [] f \in Numbers -> 0
    [] f \in Texts   -> ""
    [] f \in Retries -> NoRetry
    [] f \in Auths   -> NoAuth
    [] OTHER         -> <<>>  \* also the empty map

NoConfig == [set |-> [f \in Field |-> Zero(f)], rules |-> <<>>]

\* match.value; operands: which of n, s, b and in the rule gives.
NoPredicate == [t |-> ""]  \* no match.value
RuleValuePredicate ==
  [t : STRING, op : STRING, operands : SUBSET {"n", "s", "b", "in"}, text : STRING]
RuleNotifyRoute == [name : STRING, channel : STRING, template : STRING, mode : STRING]
RuleNotifyOff ==
  LET Clock == [hour : Int, minute : Int] IN [days : SUBSET Int, from : Clock, to : Clock]
RuleConfig ==
  [name : STRING, alert_type : STRING, type : SUBSET STRING, var : SUBSET STRING,
   from_tags : SUBSET STRING, value : RuleValuePredicate \cup {NoPredicate},
   n : Int, window_sec : Int, missing_sec : Int, silence_sec : Int, hysteresis_sec : Int,
   pending : BOOLEAN, delay_sec : Int, repeat_every_sec : Int,
   route : Seq(RuleNotifyRoute), off : Seq(RuleNotifyOff)]

NotifyTemplate == [name : STRING, message : STRING]

\* A file is [syntax, keys, rules], with the values of the keys it spells out.
ASSUME DirectoriesAssumption ==
  \A d \in Directories :
    /\ Len(d) \in Nat /\ DOMAIN d = 1..Len(d)
    /\ \A i \in DOMAIN d :
         /\ \A f \in DOMAIN d[i].keys \cap Numbers : d[i].keys[f] \in Int
         /\ \A f \in DOMAIN d[i].keys \cap Flags : d[i].keys[f] \in BOOLEAN
         /\ \A f \in DOMAIN d[i].keys \cap Templates : d[i].keys[f] \in Seq(NotifyTemplate)
         /\ \A f \in DOMAIN d[i].keys \cap Maps :
              d[i].keys[f] \in [DOMAIN d[i].keys[f] -> STRING]
         /\ d[i].rules \in Seq(RuleConfig)

-----------------------------------------------------------------------------
(* Reading and merging.                                                    *)

\* loadFile, with normalizeRawConfig and the decoder: the settings of one file.
Decoded(fragment) ==
  [set |-> [f \in Field |-> IF f \in DOMAIN fragment.keys THEN fragment.keys[f] ELSE Zero(f)],
   rules |-> fragment.rules]

\* rejectUnsupportedSyntax, the decoder and the check on rule.<name>.name.
Decodable(fragment) == fragment.syntax = "supported"

\* The sections that a file replaces as a whole, and those it overlays.
Whole == {{"service"}, LogSink, {"ingest.http", "ingest.nats"}}
Overlaid == {Channel \cup {"notify", "queue"}, {"ui"}}
SectionOf(f) == CHOOSE s \in Whole \cup Overlaid : f[1] \in s

\* src.Service != (ServiceConfig{}), hasIngestConfig, hasNotifyConfig, hasUIConfig.
HasConfig(src, section) == \E f \in Field : f[1] \in section /\ src.set[f] # Zero(f)

\* The later map's entries over the earlier one's.
mergeStringMap(dst, src) ==
  [k \in DOMAIN dst \cup DOMAIN src |-> IF k \in DOMAIN src THEN src[k] ELSE dst[k]]

\* Mutant: an explicit false does not undo an earlier true.
OverlayTrueOnly(dst, src, given, f) ==
  CASE f \in Flags     -> dst.set[f] \/ src.set[f]
    [] f \in Maps      -> mergeStringMap(dst.set[f], src.set[f])
    [] f \in Templates -> dst.set[f] \o src.set[f]
    [] OTHER           -> IF src.set[f] = Zero(f) THEN dst.set[f] ELSE src.set[f]

\* applyBoolMerge, appendSlice, and mergeString, mergeNonZeroInt,
\* replaceSlice, mergeRetry; given are the keys the file spells out.
Overlay(dst, src, given, f) ==
  CASE f \in Flags     -> IF f \in given THEN src.set[f] ELSE dst.set[f]
    [] f \in Maps      -> mergeStringMap(dst.set[f], src.set[f])
    [] f \in Templates -> dst.set[f] \o src.set[f]
    [] OTHER           -> IF src.set[f] = Zero(f) THEN dst.set[f] ELSE src.set[f]

mergeConfig(dst, fragment) ==
  LET src == Decoded(fragment)
      given == DOMAIN fragment.keys
      explicitBool(s) == \E f \in given \cap Flags : f[1] \in s
      touched == {s \in Whole : HasConfig(src, s)}
                 \cup {s \in Overlaid : HasConfig(src, s) \/ explicitBool(s)}
      merged(f) ==
        IF SectionOf(f) \notin touched THEN dst.set[f]
        ELSE IF SectionOf(f) \in Whole THEN src.set[f] ELSE Overlay(dst, src, given, f)
  IN  [set |-> [f \in Field |-> merged(f)], rules |-> dst.rules \o src.rules]

-----------------------------------------------------------------------------
(* Defaults.                                                               *)

normalize(text, fallback) == IF text = "" THEN fallback ELSE ToLower(text)

\* Numbers of which only zero is omitted; of the others also what is negative.
KeepsNegative == {<<"ingest.nats", "workers">>} \cup Queues \X {"max_deliver"}

omitted(set, f) == IF f \in Numbers \ KeepsNegative THEN set[f] <= 0 ELSE set[f] = Zero(f)

\* What a setting is taken for where it is omitted, with NATS and in general.
NATSDefault(set, f) ==
  CASE f \in Queues \X {"ack_wait_sec"}    -> 30
    [] f \in Queues \X {"nack_delay_ms"}   -> 1000
    [] f \in Queues \X {"max_deliver"}     -> -1
    [] f \in Queues \X {"max_ack_pending"} -> 2048
    [] f = <<"ingest.nats", "workers">>    -> 1
    [] f = <<"ingest.nats", "url">>        -> <<"nats://127.0.0.1:4222">>
    [] OTHER                               -> set[f]

Default(set, f) ==
  CASE f = <<"service", "name">>                         -> "alerting"
    [] f = <<"service", "reload_interval_sec">>          -> 5
    [] f = <<"service", "resolve_scan_interval_sec">>    -> 1
    [] f \in LogSink \X {"level"}                        -> "info"
    [] f = <<"log.console", "format">>                   -> "line"
    [] f = <<"log.file", "format">>                      -> "json"
    [] f = <<"ingest.http", "listen">>                   -> ":8080"
    [] f = <<"ingest.http", "health_path">>              -> "/healthz"
    [] f = <<"ingest.http", "ready_path">>               -> "/readyz"
    [] f = <<"ingest.http", "ingest_path">>              -> "/ingest"
    [] f = <<"ingest.http", "max_body_bytes">>           -> 2097152
    [] f = <<"notify", "repeat_every_sec">>              -> 300
    [] f = <<"notify", "repeat_on">>                     -> <<"firing">>
    [] f = <<"telegram", "api_base">>                    -> "https://api.telegram.org"
    [] f \in {<<"http", "method">>} \cup Tracker \X Action \X {"method"} -> "POST"
    [] f \in ({"http", "mattermost"} \cup Tracker) \X {"timeout_sec"}    -> 10
    [] f \in Tracker \X {"create"} \X {"success_status"}  -> <<200, 201>>
    [] f \in Tracker \X {"resolve"} \X {"success_status"} -> <<200, 204>>
    [] f = <<"ui", "listen">>                            -> ":8090"
    [] f = <<"ui", "base_path">>                         -> "/ui"
    [] f = <<"ui", "refresh_sec">>                       -> 2
    [] f = <<"ui", "registry_bucket">>                   -> "ui_registry"
    [] f = <<"ui", "registry_ttl_sec">>                  -> 30
    [] f = <<"ui", "stale_after_sec">>                   -> 10
    [] f = <<"ui", "offline_after_sec">>                 -> 20
    [] f = <<"ui", "health_timeout_sec">>                -> 2
    [] OTHER                                             -> set[f]

fillNATS(set) == [f \in Field |-> IF omitted(set, f) THEN NATSDefault(set, f) ELSE set[f]]
fill(set) == [f \in Field |-> IF omitted(set, f) THEN Default(set, f) ELSE set[f]]

\* Mutant: without NATS the NATS ingest stays as it is set.
forModeKeepsIngest(set) ==
  LET nats == fillNATS(set)
  IN  IF set[<<"service", "mode">>] = "single"
      THEN [f \in Field |-> IF f \in {"queue"} \X {"enabled", "dlq"} THEN FALSE ELSE set[f]]
      ELSE [nats EXCEPT ![<<"ingest.http", "enabled">>] =
              @ \/ ~nats[<<"ingest.nats", "enabled">>]]

\* The settings that follow from the mode.
forMode(set) ==
  LET nats == fillNATS(set)
  IN  IF set[<<"service", "mode">>] = "single"
      THEN [f \in Field |->
              IF f \in {<<"ingest.nats", "enabled">>, <<"queue", "enabled">>, <<"queue", "dlq">>}
              THEN FALSE ELSE set[f]]
      ELSE [nats EXCEPT ![<<"ingest.http", "enabled">>] =
              @ \/ ~nats[<<"ingest.nats", "enabled">>]]

fillNotifyRetryDefaults(r) ==
  [r EXCEPT !.backoff = IF @ = "" THEN "exponential" ELSE @,
            !.initial = IF @ <= 0 THEN 500 ELSE @,
            !.max = IF @ <= 0 THEN 60000 ELSE @]

\* normalizeNATSURLs: the registry is where the ingest is, unless it says otherwise.
seenURL(set) == IF set[<<"ingest.nats", "url">>] # <<>> THEN set[<<"ingest.nats", "url">>]
                ELSE <<"nats://127.0.0.1:4222">>

settingDefaults(set) ==
  LET named == [set EXCEPT ![<<"service", "mode">>] = normalize(@, "nats")]
      filled == fill(forMode(named))
  IN  [f \in Field |->
         CASE f \in Retries -> fillNotifyRetryDefaults(filled[f])
           [] f = <<"ui", "url">> /\ filled[f] = <<>> -> seenURL(filled)
           [] f = <<"log.console", "enabled">> -> filled[f] \/ ~filled[<<"log.file", "enabled">>]
           [] OTHER -> filled[f]]

ruleDefaults(rule, set) ==
  LET positive(n, default) == IF n <= 0 THEN default ELSE n
  IN  [rule EXCEPT !.delay_sec = positive(@, 300),
                   !.repeat_every_sec = positive(@, set[<<"notify", "repeat_every_sec">>])]

applyDefaults(c) ==
  LET set == settingDefaults(c.set)
  IN  [set |-> set, rules |-> [i \in DOMAIN c.rules |-> ruleDefaults(c.rules[i], set)]]

-----------------------------------------------------------------------------
(* Validation.                                                             *)

Given(set, section, keys) == \A k \in keys : set[<<section, k>>] # ""
Parses(text) == text # "" /\ text \notin Malformed
NoBlank(list) == \A i \in DOMAIN list : list[i] # ""

ConsumerValid(set, queue) ==
  /\ set[<<queue, "ack_wait_sec">>] > 0 /\ set[<<queue, "max_ack_pending">>] > 0
  /\ set[<<queue, "nack_delay_ms">>] >= 0
  /\ set[<<queue, "max_deliver">>] = -1 \/ set[<<queue, "max_deliver">>] > 0

ServiceValid(set) ==
  LET mode == set[<<"service", "mode">>]
  IN  /\ mode \in {"nats", "single"}
      /\ set[<<"service", "runtime_state_idle_sec">>] >= 0
      /\ set[<<"service", "runtime_state_max">>] >= 0
      /\ Given(set, "ingest.http", {"listen", "health_path", "ready_path", "ingest_path"})
      /\ mode = "single" => set[<<"ingest.http", "enabled">>]
      /\ mode = "nats" =>
           /\ set[<<"ingest.nats", "url">>] # <<>> /\ NoBlank(set[<<"ingest.nats", "url">>])
           /\ set[<<"ingest.nats", "enabled">>] =>
                ConsumerValid(set, "ingest.nats") /\ set[<<"ingest.nats", "workers">>] > 0

validateLogSink(set, sink) ==
  set[<<sink, "enabled">>] =>
    /\ ToLower(set[<<sink, "level">>]) \in {"debug", "info", "warn", "error", "panic"}
    /\ ToLower(set[<<sink, "format">>]) \in {"line", "json"}
    /\ sink = "log.file" => set[<<sink, "path">>] # ""

UIValid(set) ==
  /\ set[<<"ui", "enabled">>] =>
       /\ Given(set, "ui", {"listen", "base_path", "username", "password", "public_base_url"})
       /\ set[<<"ui", "basic_enabled">>]
       /\ set[<<"ui", "refresh_sec">>] > 0 /\ set[<<"ui", "health_timeout_sec">>] > 0
  /\ set[<<"ui", "public_base_url">>] # "" =>
       /\ Parses(set[<<"ui", "public_base_url">>])
       /\ set[<<"ui", "url">>] # <<>> /\ set[<<"ui", "registry_bucket">>] # ""
  /\ NoBlank(set[<<"ui", "url">>])
  /\ 0 < set[<<"ui", "stale_after_sec">>]
  /\ set[<<"ui", "stale_after_sec">>] < set[<<"ui", "offline_after_sec">>]
  /\ set[<<"ui", "offline_after_sec">>] < set[<<"ui", "registry_ttl_sec">>]

validateTrackerAction(set, tracker, action) ==
  LET text(key) == set[<<tracker, action, key>>]
      headers == set[<<tracker, action, "headers">>]
      statuses == set[<<tracker, action, "success_status">>]
  IN  /\ Parses(text("path")) /\ text("method") # ""
      /\ statuses # <<>> /\ \A i \in DOMAIN statuses : statuses[i] \in 100..599
      /\ action = "create" => text("ref_json_path") # ""
      /\ text("body_template") # "" => Parses(text("body_template"))
      /\ \A h \in DOMAIN headers : h # "" /\ Parses(headers[h])

validateTrackerAuth(auth) ==
  \/ ToLower(auth.type) \in {"", "none"}
  \/ ToLower(auth.type) = "bearer" /\ "token" \in auth.given
  \/ ToLower(auth.type) = "basic" /\ {"username", "password"} \subseteq auth.given
  \/ ToLower(auth.type) = "header" /\ {"header", "token"} \subseteq auth.given

ChannelValid(set, channel) ==
  set[<<channel, "enabled">>] =>
    CASE channel = "telegram" -> Given(set, channel, {"bot_token", "chat_id"})
      [] channel = "http" -> Given(set, channel, {"url"})
      [] channel = "mattermost" ->
           /\ Given(set, channel, {"base_url", "bot_token", "channel_id"})
           /\ set[<<channel, "timeout_sec">>] > 0
      [] channel \in Tracker ->
           /\ Given(set, channel, {"base_url"}) /\ set[<<channel, "timeout_sec">>] > 0
           /\ \A a \in Action : validateTrackerAction(set, channel, a)
           /\ validateTrackerAuth(set[<<channel, "auth">>])

QueueValid(set) ==
  /\ set[<<"queue", "enabled">>] => ConsumerValid(set, "queue")
  /\ set[<<"queue", "dlq">>] => set[<<"queue", "enabled">>]

\* Mutant: names that differ only in case are taken for different templates.
validateNotifyTemplatesByCase(set) ==
  \A c \in Channel :
    LET list == set[<<c, "name-template">>]
    IN  /\ \A i \in DOMAIN list : list[i].name # "" /\ Parses(list[i].message)
        /\ \A i, k \in DOMAIN list : i # k => list[i].name # list[k].name

validateNotifyTemplates(set) ==
  \A c \in Channel :
    LET list == set[<<c, "name-template">>]
    IN  /\ \A i \in DOMAIN list : list[i].name # "" /\ Parses(list[i].message)
        /\ \A i, k \in DOMAIN list : i # k => ToLower(list[i].name) # ToLower(list[k].name)

Operators == "n" :> {"==", "!=", ">", ">=", "<", "<="}
             @@ "s" :> {"==", "!=", "in", "prefix", "match", "*"} @@ "b" :> {"==", "!="}

validateValuePredicate(p) ==
  /\ p.t \in DOMAIN Operators /\ p.op \in Operators[p.t]
  /\ (IF p.op = "in" THEN "in" ELSE p.t) \in p.operands
  /\ p.op \in {"match", "*"} => p.text \notin Malformed

ThresholdsValid(r) ==
  LET counts == r.n >= 1 /\ r.silence_sec >= 0 /\ r.missing_sec <= 0
  IN  /\ r.hysteresis_sec >= 0
      /\ \/ r.alert_type = "count_total" /\ counts /\ r.window_sec <= 0
         \/ r.alert_type = "count_window" /\ counts /\ r.window_sec > 0
         \/ /\ r.alert_type = "missing_heartbeat"
            /\ r.missing_sec > 0 /\ r.n <= 0 /\ r.window_sec <= 0 /\ r.silence_sec = 0

validateRule(r) ==
  /\ r.name # "" /\ r.type # {} /\ r.type \subseteq {"event", "agg"}
  /\ r.var # {} /\ r.from_tags # {}
  /\ r.value = NoPredicate \/ validateValuePredicate(r.value)
  /\ r.pending => r.delay_sec > 0
  /\ r.route # <<>>
  /\ \A i \in DOMAIN r.off : ValidWindow(r.off[i])
  /\ ThresholdsValid(r)

\* The destination that active_only needs is set.
ActiveOnlyFits(set, channel) ==
  \/ channel = "telegram" /\ set[<<channel, "active_chat_id">>] # ""
  \/ channel = "mattermost" /\ set[<<channel, "active_channel_id">>] # ""

RouteKey(route) == IF route.name = "" THEN ToLower(route.channel) ELSE ToLower(route.name)

validateRuleNotifyRoutes(set, r) ==
  /\ \A i \in DOMAIN r.route :
       LET route == r.route[i]
           channel == ToLower(route.channel)
           mode == normalize(route.mode, "history")
       IN  /\ channel \in Channel /\ set[<<channel, "enabled">>]
           /\ \E k \in DOMAIN set[<<channel, "name-template">>] :
                ToLower(set[<<channel, "name-template">>][k].name) = ToLower(route.template)
           /\ route.template # ""
           /\ mode \in {"history", "active_only"}
           /\ mode = "active_only" => ActiveOnlyFits(set, channel)
  /\ \A i, k \in DOMAIN r.route : i # k => RouteKey(r.route[i]) # RouteKey(r.route[k])

RulesValid(c) ==
  /\ c.rules # <<>>
  /\ \A i \in DOMAIN c.rules : validateRule(c.rules[i]) /\ validateRuleNotifyRoutes(c.set, c.rules[i])
  /\ \A i, k \in DOMAIN c.rules : i # k => c.rules[i].name # c.rules[k].name

validateConfig(c) ==
  /\ ServiceValid(c.set) /\ UIValid(c.set) /\ QueueValid(c.set)
  /\ \A sink \in LogSink : validateLogSink(c.set, sink)
  /\ \A channel \in Channel : ChannelValid(c.set, channel)
  /\ validateNotifyTemplates(c.set) /\ RulesValid(c)

-----------------------------------------------------------------------------
(* LoadSnapshot.                                                           *)

Init ==
  /\ source \in {"file", "dir"}  \* FromCLI: one of the two
  /\ files \in Directories /\ (source = "file" => Len(files) = 1)
  /\ read = 0 /\ config = NoConfig /\ phase = "reading"

More == phase = "reading" /\ read < Len(files)

\* A file that cannot be decoded ends the loading; so does an empty directory.
Reject ==
  /\ phase = "reading"
  /\ files # <<>> => More /\ ~Decodable(files[read + 1])
  /\ phase' = "rejected" /\ UNCHANGED <<source, files, read, config>>

Take ==
  /\ More /\ Decodable(files[read + 1])
  /\ read' = read + 1 /\ UNCHANGED <<source, files, phase>>

loadFile == source = "file" /\ Take /\ config' = Decoded(files[1])

\* loadDir: the next file in the order of the names.
loadDirEntry == source = "dir" /\ Take /\ config' = mergeConfig(config, files[read + 1])

Finish ==
  /\ phase = "reading" /\ read > 0 /\ read = Len(files)
  /\ config' = applyDefaults(config)
  /\ phase' = IF validateConfig(config') THEN "accepted" ELSE "rejected"
  /\ UNCHANGED <<source, files, read>>

Next == Reject \/ loadFile \/ loadDirEntry \/ Finish

Spec == Init /\ [][Next]_vars

-----------------------------------------------------------------------------
(* What is built from an accepted configuration.                           *)

\* Mutant: the dashboard's refresh is taken as it is.
registryRefreshIntervalUncapped(set) ==
  IF set[<<"ui", "refresh_sec">>] <= 0 THEN 1 ELSE set[<<"ui", "refresh_sec">>]

\* registryRefreshInterval, in seconds.
registryRefreshInterval(set) ==
  LET refresh == IF set[<<"ui", "refresh_sec">>] <= 0 THEN 1 ELSE set[<<"ui", "refresh_sec">>]
      most == set[<<"ui", "registry_ttl_sec">>] \div 2
  IN  IF most > 0 /\ refresh > most THEN most ELSE refresh

\* NewDispatcher: a sender for each enabled channel; that of a tracker has no
\* init error when the templates of its two actions compile.
Senders(set) == {channel \in Channel : set[<<channel, "enabled">>]}
SenderReady(set, tracker) ==
  \A action \in Action :
    LET body == set[<<tracker, action, "body_template">>]
        headers == set[<<tracker, action, "headers">>]
    IN  /\ set[<<tracker, action, "path">>] \notin Malformed
        /\ body \notin Malformed /\ \A h \in DOMAIN headers : headers[h] \notin Malformed

\* buildTemplateSet and resolveTemplate: the messages that a name may stand for.
MessagesNamed(set, channel, name) ==
  LET list == set[<<channel, "name-template">>]
  IN  {i \in DOMAIN list : ToLower(list[i].name) = ToLower(name) /\ list[i].name # ""}

-----------------------------------------------------------------------------
(* Properties.                                                             *)

\* Whether a file has a word on a setting: where a section is replaced as a
\* whole, if it touches the section; on a boolean, if it spells it out; on
\* anything else, if it gives it a value.
Speaks(fragment, f) ==
  IF SectionOf(f) \in Whole THEN HasConfig(Decoded(fragment), SectionOf(f))
  ELSE IF f \in Flags THEN f \in DOMAIN fragment.keys
  ELSE Decoded(fragment).set[f] # Zero(f)

\* What the fragments say together of a setting: the latest word, and of a map
\* the latest word on each key.
Latest(parts, f) ==
  LET sources == {i \in DOMAIN parts : Speaks(parts[i], f)}
      word(i) == Decoded(parts[i]).set[f]
      keys == UNION {DOMAIN word(i) : i \in DOMAIN parts}
  IN  IF f \in Maps THEN [k \in keys |-> word(Max({i \in DOMAIN parts : k \in DOMAIN word(i)}))[k]]
      ELSE IF sources = {} THEN Zero(f) ELSE word(Max(sources))

\* The parts one after the other, with nothing between them, are the whole.
Joined(whole, parts) ==
  \E at \in [0..Len(parts) -> 0..Len(whole)] :
    /\ at[0] = 0 /\ at[Len(parts)] = Len(whole)
    /\ \A i \in 1..Len(parts) :
         /\ at[i] = at[i - 1] + Len(parts[i])
         /\ \A k \in 1..Len(parts[i]) : whole[at[i - 1] + k] = parts[i][k]

\* Merging file by file yields the latest word on each setting, and all the
\* templates and rules in their order, whatever is set in between
\* (mergeConfig); a directory of one file is that file.
MergeMatchesLatestWord ==
  phase = "reading" =>
    LET parts == [i \in 1..read |-> files[i]]
    IN  /\ config.set = [f \in Field |-> IF f \in Templates THEN config.set[f] ELSE Latest(parts, f)]
        /\ \A f \in Templates :
             Joined(config.set[f], [i \in 1..read |-> Decoded(parts[i]).set[f]])
        /\ Joined(config.rules, [i \in 1..read |-> parts[i].rules])
        /\ read = 1 => config = Decoded(files[1])

\* An accepted configuration is one the rest can run on: without NATS the
\* service takes events by HTTP and needs no consumer of any kind, with NATS
\* it takes events somehow, and every consumer has the limits that JetStream
\* and the worker rely on; every rule suits the engine.
AcceptedCanRun ==
  phase = "accepted" =>
    LET set == config.set
        nats == set[<<"ingest.nats", "enabled">>]
    IN  /\ set[<<"service", "mode">>] = "single" =>
             set[<<"ingest.http", "enabled">>] /\ ~nats /\ ~set[<<"queue", "enabled">>]
        /\ set[<<"service", "mode">>] # "single" =>
             set[<<"ingest.nats", "url">>] # <<>> /\ (set[<<"ingest.http", "enabled">>] \/ nats)
        /\ \A q \in {q \in Queues : set[<<q, "enabled">>]} :
             set[<<q, "max_deliver">>] = -1 \/ set[<<q, "max_deliver">>] > 0
        /\ set[<<"queue", "dlq">>] => set[<<"queue", "enabled">>]
        /\ set[<<"service", "resolve_scan_interval_sec">>] > 0
        /\ \A i \in DOMAIN config.rules :
             LET r == config.rules[i]
             IN  /\ r.delay_sec > 0 /\ r.repeat_every_sec > 0
                 /\ IF r.alert_type = "missing_heartbeat" THEN r.missing_sec > 0
                    ELSE r.n > 0 /\ (r.alert_type = "count_window" => r.window_sec > 0)

\* An instance whose heartbeats succeed is never removed from the registry by
\* the TTL of the bucket: the ticker of Run has a period, and the next heartbeat
\* is due when at most half of the record's time is over. (A failed heartbeat is
\* not made up for: Run ends with it.)
HeartbeatOutlivesRefresh ==
  phase = "accepted" =>
    /\ registryRefreshInterval(config.set) > 0
    /\ 2 * registryRefreshInterval(config.set) <= config.set[<<"ui", "registry_ttl_sec">>]

\* No notification of an accepted configuration fails for a reason that was
\* known when it was loaded: the channel of each route has a sender that could
\* be built, and its template names exactly one message, one that compiles.
RoutesDeliverable ==
  phase = "accepted" =>
    \A i \in DOMAIN config.rules : \A k \in DOMAIN config.rules[i].route :
      LET set == config.set
          route == config.rules[i].route[k]
          channel == ToLower(route.channel)
          messages == MessagesNamed(set, channel, route.template)
      IN  /\ channel \in Senders(set)
          /\ channel \in Tracker => SenderReady(set, channel)
          /\ Cardinality(messages) = 1
          /\ \A m \in messages : set[<<channel, "name-template">>][m].message \notin Malformed

\* The off windows of an accepted rule skip exactly the minutes they name,
\* past midnight and past the end of the week too.
OffWindowExact ==
  phase = "accepted" =>
    \A i \in DOMAIN config.rules, day \in Weekday, minute \in Minute :
      LET off == config.rules[i].off
      IN  NotifyOffActiveAt(off, day, minute) <=>
            \E k \in DOMAIN off :
              Covered(off[k].days, day, minute, MinuteOf(off[k].from), MinuteOf(off[k].to))
===============================================================================
