------------------------------ MODULE MCDelivery ------------------------------
(* Two routes, of channels that edit, thread, resolve or only post, with   *)
(* and without retries.  Every rule has off windows, in which a            *)
(* notification may fall or not.                                           *)
EXTENDS Delivery

To(channel, mode) == [Channel |-> channel, Mode |-> mode]
TwoActive == <<To("telegram", "active_only"), To("telegram", "active_only")>>
HistoryAndIssue == <<To("telegram", "history"), To("tracker", "history")>>
IssueAndThread == <<To("tracker", "history"), To("mattermost", "history")>>
ActiveAndHook == <<To("mattermost", "active_only"), To("http", "history")>>

Retrying(max) == [Enabled |-> TRUE, MaxAttempts |-> max]
Once == [Enabled |-> FALSE, MaxAttempts |-> 0]
AllConfigs ==
  [routes : {TwoActive, HistoryAndIssue, IssueAndThread, ActiveAndHook},
   retry : {Once, Retrying(0), Retrying(2), Retrying(3)},
   off : {TRUE}]
===============================================================================
