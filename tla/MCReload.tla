------------------------------- MODULE MCReload -------------------------------
(* Three rules with a channel each; the files go between two of them, with *)
(* or without the queue, the third, and a file that does not load.         *)
EXTENDS Reload

All == 1 .. 3
OwnChannel == [r \in All |-> r]
Named == [r \in All |-> r]
\* The third rule has a space in its name: its keys have "_" for it, its prefix keeps it.
Spaced == [r \in All |-> IF r = 3 THEN 4 ELSE r]

Pair == [good |-> TRUE, ui |-> 1, rules |-> {1, 2}, queue |-> TRUE, channels |-> {1, 2}]
Unqueued == [Pair EXCEPT !.queue = FALSE]
Third == [good |-> TRUE, ui |-> 2, rules |-> {3}, queue |-> TRUE, channels |-> {3}]
Broken == [Pair EXCEPT !.good = FALSE]

Files == {Pair, Unqueued, Third, Broken}
===============================================================================
