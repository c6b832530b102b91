---------------------------- MODULE MCEventQueue ----------------------------
(***************************************************************************)
(* Instances of EventQueue for TLC: a channel with a conversation and a    *)
(* thread, with or without a second channel, and caps a few events reach.  *)
(***************************************************************************)
EXTENDS EventQueue

CONSTANTS room, thread, other, c1, c2

TwoScopes == {room, thread}
ThreeScopes == {room, thread, other}
OneChannel == {c1}
TwoChannels == {c1, c2}
MCChannelOf == [s \in Scope |-> IF s = other THEN c2 ELSE c1]

(* The first event carries a later created_at than the second, as when the *)
(* relay replays stored events newest first.                               *)
MCCreatedAt == [e \in Event |-> IF e = 1 THEN 2 ELSE e - 1]

(* The comment on requeue: putting a failed batch back "prevents event     *)
(* loss when session creation or session/prompt fails transiently".  So an *)
(* interrupted request merged into a turn that fails and is retried is     *)
(* still there for the retry.                                              *)
RetryKeepsCarryover == \A e \in Event : fate[e] # "context_lost"
=============================================================================
