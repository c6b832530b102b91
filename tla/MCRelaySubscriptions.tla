------------------------ MODULE MCRelaySubscriptions ------------------------
(***************************************************************************)
(* Model-checking instance of RelaySubscriptions.                          *)
(***************************************************************************)
EXTENDS RelaySubscriptions

CONSTANTS a, b, s1, s2, c1, c2

TwoConns == {a, b}
TwoSubs == {s1, s2}
TwoChannels == {c1, c2}
Per(r, c, l, v) == [reqs |-> r, closes |-> c, losses |-> l, revokes |-> v]
Mix(pa, pb, e, o, asks) ==
    [at |-> [c \in Conn |-> IF c = a THEN pa ELSE pb], events |-> e, outages |-> o,
     asks |-> asks]

Quiet == Per(0, 0, 0, 0)
One == Per(1, 0, 0, 0)
S1(scopes) == {s1} \X scopes

(* A subscription closed, beside a second client and an event.             *)
ClosePlans == {Mix(Per(1, 1, 0, 0), One, 1, 0, S1({{c1}}))}

MCPlans ==
    {\* One subscription asked for again and closed, beside a second client.
     Mix(Per(2, 1, 0, 0), One, 0, 0, S1({{c1}})),
     Mix(Per(3, 2, 0, 0), Quiet, 0, 0, S1({{c1}})),
     \* A channel lost while the subscription is replaced.
     Mix(Per(2, 0, 0, 1), Quiet, 0, 0, S1({{c1}, {c2}})),
     Mix(Per(2, 0, 0, 1), Quiet, 0, 0, S1({{c1}, {Global}})),
     Mix(Per(1, 0, 0, 1), One, 0, 0, S1({{c1, c2}})),
     \* An event.
     Mix(Per(2, 1, 0, 0), Quiet, 1, 0, S1({{c1}})),
     Mix(Per(2, 0, 0, 0), Quiet, 1, 0, S1({{c1}, {c2}})),
     Mix(Per(2, 0, 0, 0), Quiet, 1, 1, S1({{c1}})),
     \* A connection lost, with two subscriptions, and a Redis outage.
     Mix(Per(1, 0, 1, 0), One, 0, 1, S1({{c1}})),
     Mix(Per(2, 0, 1, 0), Quiet, 0, 0, {s1, s2} \X {{c1}})}
    \cup ClosePlans
=============================================================================
