------------------------------- MODULE MCIngest -------------------------------
(***************************************************************************)
(* Ingest for TLC: three rules, one of them on a tag that not every event  *)
(* has, and payloads of each kind.                                         *)
(***************************************************************************)
EXTENDS Ingest, TLC

MCFolded == "HostA" :> "a"
MCSanitized == "CPU Load" :> "cpu_load" @@ "Disk" :> "disk"
MCFits == {<<"*", "full", "f*">>, <<"prefix", "full", "fu">>}

Predicate(t, op, arg) == {[t |-> t, op |-> op, arg |-> arg, in |-> {}]}

MCRules == <<
  [name |-> "CPU Load", types |-> {"event", "agg"}, vars |-> {"cpu"},
   tags |-> "host" :> {"a"}, value |-> Predicate("n", ">=", 2),
   from_tags |-> {"host"}, max_late |-> 0, max_future |-> 0],
  [name |-> "CPU Zone", types |-> {"event"}, vars |-> {"cpu"},
   tags |-> "zone" :> {"z"}, value |-> {},
   from_tags |-> {"host"}, max_late |-> 1, max_future |-> 1],
  [name |-> "Disk", types |-> {"event"}, vars |-> {"disk"},
   tags |-> [k \in {} |-> {}], value |-> Predicate("s", "*", "f*"),
   from_tags |-> {"host"}, max_late |-> 0, max_future |-> 0]>>

Cpu(dt, tags) == [set |-> [dt |-> dt, type |-> "event", var |-> "cpu", agg_cnt |-> 1, t |-> "n", n |-> 2],
                  tags |-> tags]
Disk(dt, tags) == [set |-> [dt |-> dt, type |-> "event", var |-> "disk", agg_cnt |-> 1, t |-> "s", s |-> "full"],
                   tags |-> tags]
Undated(event) == [event EXCEPT !.set = Restrict(@, DOMAIN @ \ {"dt"})]
Host == "host" :> "HostA"
Zone == "zone" :> "z"
HostZone == Host @@ Zone

Body(via, batch, syntax, events) ==
  [via |-> via, batch |-> batch, syntax |-> syntax, events |-> events]

MCPayloads == <<
  Body("nats", TRUE, "ok", <<Cpu(1, HostZone), Disk(1, Zone)>>),
  Body("nats", TRUE, "ok", <<Cpu(4, Host)>>),
  Body("nats", TRUE, "ok", <<Cpu(1, HostZone), Undated(Cpu(1, Host))>>),
  Body("nats", TRUE, "flawed", <<Disk(4, HostZone)>>),
  Body("nats", FALSE, "ok", <<Disk(1, HostZone)>>),
  Body("http", TRUE, "ok", <<Cpu(1, Host)>>),
  Body("http", FALSE, "ok", <<Disk(3, Host)>>)>>

MCMaxDelivers == {-1, 1}

==============================================================================
