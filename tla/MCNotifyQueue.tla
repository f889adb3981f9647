----------------------------- MODULE MCNotifyQueue -----------------------------
(* Small queues for model checking NotifyQueue.                            *)
EXTENDS NotifyQueue

CONSTANTS i1, i2

Queue(channel, maxDeliver, deadLetters, off) ==
  [Channel |-> channel, MaxDeliver |-> maxDeliver, DLQ |-> deadLetters, Off |-> off]

Several == {Queue("mattermost", 2, TRUE, TRUE), Queue("tracker", -1, FALSE, TRUE)}
===============================================================================
