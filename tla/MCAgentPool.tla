---------------------------- MODULE MCAgentPool -----------------------------
(***************************************************************************)
(* Instances of AgentPool for TLC: two workers, a thread and its channel's *)
(* conversation.                                                           *)
(***************************************************************************)
EXTENDS AgentPool

CONSTANTS room, thread, c1

TwoScopes == {room, thread}
OneThread == {thread}
OneChannel == {c1}
MCChannelOf == [s \in Scope |-> c1]

(* The comment on the !rotate arm: with a turn in flight the harness will  *)
(* "cancel it, drop its triggering batch, and invalidate the channel       *)
(* session when the task returns".  So no idle worker still has a session  *)
(* from before a rotate.                                                   *)
RotatedSessionIsGone ==
    \A a \in Agent : Idle(a) => \A s \in sessions[a] : <<"rotated", s>> \notin revoked[a]
=============================================================================
