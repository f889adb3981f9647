---------------------------- MODULE MCAlertEngine ----------------------------
(* Small rules of each type for model checking AlertEngine.                *)
EXTENDS AlertEngine

Rule(type, n, window, missing, silence, hysteresis, pending, delay) ==
  [AlertType |-> type, N |-> n, WindowSec |-> window, MissingSec |-> missing,
   SilenceSec |-> silence, HysteresisSec |-> hysteresis,
   PendingEnabled |-> pending, DelaySec |-> delay]

TotalRule     == Rule("count_total", 2, 0, 0, 1, 1, TRUE, 1)
TotalAtOnce   == Rule("count_total", 2, 0, 0, 2, 0, FALSE, 0)
WindowRule    == Rule("count_window", 2, 1, 0, 2, 1, TRUE, 2)
WindowAtOnce  == Rule("count_window", 3, 2, 0, 1, 0, FALSE, 0)
HeartbeatRule == Rule("missing_heartbeat", 0, 0, 2, 0, 2, TRUE, 1)
HeartbeatNow  == Rule("missing_heartbeat", 0, 0, 1, 0, 0, FALSE, 0)

\* Two alerts that share the eviction cap.
FleetRules == {TotalRule, WindowRule, HeartbeatRule, HeartbeatNow}

\* One alert, observed for longer.
AllRules == FleetRules \cup {TotalAtOnce, WindowAtOnce}

\* The heartbeat rules alone.
HeartbeatRules == {HeartbeatRule, HeartbeatNow}
=============================================================================
