----------------------------- MODULE MCConfigLoad -----------------------------
(* Directories of a complete base file and a few files that change it.     *)
EXTENDS ConfigLoad

MCLowercase ==
  "NATS" :> "nats" @@ "Single" :> "single" @@ "HTTP" :> "http" @@ "Tpl" :> "tpl"
  @@ "Active_Only" :> "active_only" @@ "Bearer" :> "bearer" @@ "INFO" :> "info"
MCMalformed == {"{{bad", "not a url"}

Each(fields, value) == [f \in fields |-> value]
Fragment(keys, rules) == [syntax |-> "supported", keys |-> keys, rules |-> rules]
Broken == [syntax |-> "unsupported", keys |-> <<>>, rules |-> <<>>]
Template(name, message) == [name |-> name, message |-> message]

Route(channel, template, mode) ==
  [name |-> "", channel |-> channel, template |-> template, mode |-> mode]
Clock(h, m) == [hour |-> h, minute |-> m]
Off(days, from, to) == [days |-> days, from |-> from, to |-> to]

Rule(name, type) ==
  [name |-> name, alert_type |-> type, type |-> {"event"}, var |-> {"errors"},
   from_tags |-> {"host"}, value |-> NoPredicate,
   n |-> IF type = "missing_heartbeat" THEN 0 ELSE 2,
   window_sec |-> IF type = "count_window" THEN 60 ELSE 0,
   missing_sec |-> IF type = "missing_heartbeat" THEN 30 ELSE 0,
   silence_sec |-> IF type = "missing_heartbeat" THEN 0 ELSE 60, hysteresis_sec |-> 0,
   pending |-> FALSE, delay_sec |-> 0, repeat_every_sec |-> 0,
   route |-> <<Route("http", "tpl", "")>>, off |-> <<>>]
Total == Rule("total", "count_total")

\* A single instance that posts to a URL, and a fleet with every channel.
Single ==
  Fragment(<<"service", "mode">> :> "Single" @@ <<"ingest.http", "enabled">> :> TRUE
           @@ <<"http", "enabled">> :> TRUE @@ <<"http", "url">> :> "hook"
           @@ <<"http", "name-template">> :> <<Template("Tpl", "text")>>, <<Total>>)
TrackerKeys(t) ==
  Each({t} \X {"enabled"}, TRUE) @@ Each({t} \X {"base_url"}, "tracker")
  @@ Each({t} \X Action \X {"path"}, "issue") @@ <<t, "create", "ref_json_path">> :> "id"
Fleet ==
  Fragment(<<"service", "mode">> :> "NATS" @@ <<"ingest.nats", "enabled">> :> TRUE
           @@ <<"queue", "enabled">> :> TRUE @@ <<"queue", "dlq">> :> TRUE
           @@ Each({"telegram", "mattermost", "http"} \X {"enabled"}, TRUE)
           @@ Each({"telegram"} \X {"bot_token", "chat_id", "active_chat_id"}, "t")
           @@ Each({"ui"} \X {"enabled", "basic_enabled"}, TRUE)
           @@ Each({"ui"} \X {"username", "password", "public_base_url"}, "http://host")
           @@ Each({"mattermost"} \X {"base_url", "bot_token", "channel_id"}, "m")
           @@ <<"http", "url">> :> "hook" @@ <<"http", "headers">> :> ("k" :> "base")
           @@ <<"jira", "retry">> :> [NoRetry EXCEPT !.enabled = TRUE, !.initial = 10]
           @@ TrackerKeys("jira") @@ TrackerKeys("youtrack")
           @@ Each(Templates, <<Template("Tpl", "text")>>),
           <<[Total EXCEPT !.route = <<Route("jira", "tpl", ""), Route("HTTP", "Tpl", "")>>]>>)

\* Settings that matter to some check, as overlays of one or two of them.
Settings ==
  {<<f, b>> : f \in {<<"ingest.http", "enabled">>, <<"ingest.nats", "enabled">>,
                     <<"queue", "enabled">>, <<"queue", "dlq">>, <<"notify", "repeat">>,
                     <<"ui", "enabled">>, <<"ui", "basic_enabled">>, <<"http", "enabled">>,
                     <<"log.console", "enabled">>}, b \in BOOLEAN}
  \cup {<<f, n>> : f \in {<<"queue", "max_deliver">>, <<"ui", "registry_ttl_sec">>,
                          <<"ui", "stale_after_sec">>, <<"ui", "refresh_sec">>}, n \in {-2, 0, 1, 25}}
  \cup {<<<<"service", "name">>, "other">>, <<<<"service", "mode">>, "single">>,
        <<<<"log.file", "enabled">>, TRUE>>, <<<<"log.file", "path">>, "log">>,
        <<<<"ui", "public_base_url">>, "http://host">>, <<<<"ui", "public_base_url">>, "not a url">>,
        <<<<"ui", "username">>, "ops">>, <<<<"ui", "password">>, "secret">>,
        <<<<"ui", "url">>, <<"">>>>, <<<<"ingest.nats", "url">>, <<"nats://other">>>>,
        <<<<"http", "headers">>, "k" :> "new" @@ "j" :> "">>, <<<<"http", "headers">>, <<>>>>,
        <<<<"jira", "retry">>, [NoRetry EXCEPT !.attempts = 3]>>,
        <<<<"jira", "auth">>, [type |-> "Bearer", given |-> {}]>>,
        <<<<"jira", "create", "path">>, "{{bad">>,
        <<<<"jira", "create", "headers">>, "h" :> "v">>,
        <<<<"youtrack", "resolve", "success_status">>, <<99>>>>,
        <<<<"http", "method">>, "PUT">>,
        <<<<"http", "name-template">>, <<Template("tpl", "twice")>>>>,
        <<<<"http", "name-template">>, <<Template("more", "{{bad")>>>>,
        <<<<"notify", "repeat_on">>, <<"firing", "pending">>>>}

Keys(s) == [f \in {x[1] : x \in s} |-> (CHOOSE x \in s : x[1] = f)[2]]
Overlays(sets) == {Fragment(Keys(s), <<>>) : s \in sets}
Ones == {{x} : x \in Settings}
Twos == {{x, y} : x \in Settings, y \in Settings}
Distinct(sets) == {s \in sets : \A x, y \in s : x # y => x[1] # y[1]}

Predicate(t, op, operands) == [t |-> t, op |-> op, operands |-> operands, text |-> "{{bad"]
OtherRules ==
  {[Total EXCEPT !.name = "more", !.n = n] : n \in {0, 1}}
  \cup {Total, Rule("window", "count_window"), Rule("beat", "missing_heartbeat")}
  \cup {[Rule("window", "count_window") EXCEPT !.window_sec = 0],
        [Rule("beat", "missing_heartbeat") EXCEPT !.silence_sec = 1],
        [Total EXCEPT !.name = "more", !.hysteresis_sec = -1]}
  \cup {[Total EXCEPT !.name = "more", !.value = p] :
          p \in {Predicate("n", ">", {"n"}), Predicate("n", "in", {"n"}),
                 Predicate("s", "in", {"s"}), Predicate("s", "match", {"s"})}}
  \cup {[Total EXCEPT !.name = "more", !.route = <<Route(c, t, m)>>] :
          c \in {"HTTP", "telegram", "mattermost", "sms"}, t \in {"TPL", "tpl", ""}, m \in {"", "Active_Only"}}
  \cup {[Total EXCEPT !.name = "more", !.off = <<Off(d, Clock(f, 1), Clock(t, m))>>] :
          d \in {{}, {6}, {0, 2}}, f \in {0, 2}, t \in {1, 2, 3}, m \in {0, 1}}
  \cup {[Total EXCEPT !.name = "more",
           !.off = <<Off({6}, Clock(2, 0), Clock(1, 1)), Off({0}, Clock(1, 0), Clock(3, 0))>>]}

Around(base, others) == UNION {{<<base, o>>, <<o, base>>} : o \in others}
Overlay1 == Overlays(Ones)
Layered == Overlays({{x} : x \in {y \in Settings : SectionOf(y[1]) \in Overlaid /\ y[1] \notin Numbers}})
MCDirectories ==
  {<<>>, <<Broken>>, <<Single, Broken>>, <<Single>>, <<Fleet>>, <<Single, Fleet>>}
  \cup Around(Single, Overlay1) \cup Around(Fleet, Overlay1)
  \cup {<<Single, o>> : o \in Overlays(Distinct(Twos))}
  \cup UNION {{<<a, Fleet, b>>, <<Fleet, a, b>>} : a \in Layered, b \in Layered}
  \cup UNION {Around(base, {Fragment(<<>>, <<r>>) : r \in OtherRules}) : base \in {Single, Fleet}}
===============================================================================
