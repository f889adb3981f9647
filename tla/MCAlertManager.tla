---------------------------- MODULE MCAlertManager ----------------------------
(* Small deployments for model checking AlertManager.                      *)
EXTENDS AlertManager, TLC

CONSTANTS i1, i2, g1, g2, x1, x2

Rule(counting, pending, channel, off) ==
  [Counting |-> counting, Pending |-> pending, Channel |-> channel, Off |-> off]

CountTracker     == Rule(TRUE, FALSE, "tracker", FALSE)
MutedTracker     == Rule(TRUE, FALSE, "tracker", TRUE)
MutedPost        == Rule(TRUE, FALSE, "mattermost", TRUE)
PendingPost      == Rule(TRUE, TRUE, "mattermost", FALSE)
PendingTracker   == Rule(TRUE, TRUE, "tracker", TRUE)
HeartbeatTracker == Rule(FALSE, FALSE, "tracker", FALSE)
HeartbeatPlain   == Rule(FALSE, TRUE, "plain", FALSE)

MutedPosts      == {MutedPost}
CountTrackers   == {CountTracker}
TurnRules       == {MutedTracker, PendingPost, HeartbeatTracker, HeartbeatPlain,
                    PendingTracker}

\* One instance has all goroutines, or the second has g2 and x2.
OneHome  == [p \in Procs |-> i1]
TwoHomes == [p \in Procs |-> IF p \in {g2, x2} THEN i2 ELSE i1]

\* One alert is like another.
SameAlerts == Permutations(Alerts)

\* Nothing is explored beyond two goroutines working on one alert.
TakingTurns == overlaps = {}
===============================================================================
