---------------------------- MODULE RelayClient -----------------------------
(***************************************************************************)
(* The harness's connection to its relay: the background task of           *)
(* crates/buzz-acp/src/relay.rs and relay/recovery.rs.                     *)
(*                                                                         *)
(* The task keeps the subscriptions the harness asked for alive across     *)
(* lost sockets, refusals and rate limits, and asks for the replay of what *)
(* it missed: a REQ carries a "since", the earlier of the newest event     *)
(* seen and the oldest event dropped because the bounded event channel was *)
(* full, less a margin for clock skew.  Duplicates that the overlap brings *)
(* are filtered by a two-generation set of ids.                            *)
(*                                                                         *)
(* The relay (crates/buzz-relay) runs a REQ and a telemetry frame in tasks *)
(* of their own and a CLOSE in its receive loop.  A REQ is registered for  *)
(* the live feed, then answered with the newest page of the stored events; *)
(* the query may fail, a REQ may be refused and a frame throttled, and the *)
(* live feed may miss an event (RelaySubscriptions has its steps).         *)
(* try_autonomous_reconnect and wait_for_reconnect differ in their delays  *)
(* only, and are one phase here; a resubscription burst, during which no   *)
(* message is read, is one step.                                           *)
(*                                                                         *)
(* The agent's telemetry goes out on the same socket.  A telemetry frame   *)
(* waits while the relay's rate limit is in force and is remembered until  *)
(* the relay has answered it; both buffers are bounded.                    *)
(***************************************************************************)
EXTENDS Integers, Sequences, SequencesExt, FiniteSets, FiniteSetsExt

CONSTANTS
    Channel,      \* channels the harness may subscribe to
    Started,      \* the subscriptions made at start-up
    Capacity,     \* of the event channel to the harness
    DedupLimit,   \* SEEN_ID_LIMIT
    Skew,         \* SINCE_SKEW_SECS
    FrameCap,     \* GATED_OBSERVER_QUEUE_CAP
    PageLimit,    \* DEFAULT_MAX_PAGE_LIMIT
    Budgets       \* bounds: the mixes explored of events published, commands
                  \* issued, telemetry frames, and faults (lost sockets,
                  \* refusals, throttling, stalled writes, failed queries)

Membership == "membership"
Observer == "observer"
Control == {Membership, Observer}
Sub == Channel \cup Control
None == 0

ASSUME RelayClientAssumption ==
    /\ Started \subseteq Sub /\ IsFiniteSet(Channel) /\ Channel \cap Control = {}
    /\ Capacity \in Nat \ {0} /\ DedupLimit \in Nat \ {0, 1} /\ Skew \in Nat
    /\ FrameCap \in Nat \ {0} /\ PageLimit \in Nat \ {0}
    /\ Budgets \subseteq [events : Nat, commands : Nat, frames : Nat, faults : Nat]

VARIABLES
    st,         \* BgState: what the task remembers
    phase,      \* where the task is
    link,       \* is the socket alive?  A dead one may go unnoticed
    out,        \* frames on their way to the relay, or in its handlers
    wire,       \* messages on their way to the client
    live,       \* the subscriptions the relay serves on this socket
    stored,     \* the relay's events in order of arrival
    now,        \* the time
    queue,      \* the event channel: events, and marks of a lost connection
    cmds,       \* the command channel
    used,       \* what was spent of the budgets
    answered,   \* the telemetry frames the relay has accepted or rejected
    newest,     \* membership_newest_ts: the harness subscribes from there on
    handed,     \* history: the events put on the event channel
    recent,     \* history: the last of them, as many as a generation of ids
    cut,        \* history: unhanded events whose delivery or replay was under
                \* way on a socket that was lost, or in a REQ that was refused,
                \* or whose drop was forgotten with their channel
    unsent,     \* history: the events the relay left out of its last replay
                \* that asked for them, or of its live feed
    refused,    \* history: the frames the relay put off one by one
    stranded,   \* history: frames in flight on the socket of a failed attempt
    forgotten   \* history: subscriptions whose REQ failed in the last drain of
                \* a reconnect that is then taken to have succeeded

vars == <<st, phase, link, out, wire, live, stored, now, queue, cmds, used, answered,
          newest, handed, recent, cut, unsent, refused, stranded, forgotten>>
relayVars == <<live, stored, now, answered, unsent>>
handVars == <<handed, recent, newest>>
frameVars == <<refused, stranded>>

Reason == {"rate", "denied", "auth", "other"}

Startup == Skew + 1

Spends(u) == used' = u /\ \E b \in Budgets : \A i \in DOMAIN used : u[i] <= b[i]
Spend(k) == Spends([used EXCEPT ![k] = @ + 1])
Fault == Spend("faults")

Init ==
    /\ st = [active |-> Started,
             floor |-> [s \in Sub |-> IF s \in Started \cup {Membership} THEN Startup ELSE None],
             last |-> [s \in Sub |-> IF s = Membership THEN Startup ELSE None],
             dropped |-> [s \in Sub |-> None],
             parked |-> {}, retry |-> {}, cur |-> {}, prev |-> {}, gate |-> FALSE,
             pending |-> <<>>, inflight |-> <<>>, evicted |-> 0]
    /\ phase = "main" /\ link = "up"
    /\ out = <<>> /\ wire = <<>> /\ live = Started
    /\ stored = <<>> /\ now = Startup
    /\ queue = <<>> /\ cmds = <<>>
    /\ used = [events |-> 0, commands |-> 0, frames |-> 0, faults |-> 0]
    /\ answered = {} /\ refused = {} /\ stranded = {}
    /\ newest = [c \in Channel |-> Startup]
    /\ handed = {} /\ recent = <<>> /\ cut = {} /\ unsent = {} /\ forgotten = {}

(***************************************************************************)
(* BgState: the replay cursors and the ids seen.                           *)
(***************************************************************************)

Earliest(S) == IF S \subseteq {None} THEN None ELSE Min(S \ {None})

SinceLastSeen(s) == IF st.last[s] = None THEN st.floor[s] ELSE st.last[s]
(* channel_since, and its membership counterpart.                          *)
Since(s) ==
    LET t == Earliest({st.last[s], st.dropped[s]})
    IN  IF t = None THEN st.floor[s] ELSE t

Seen(e) == e \in st.cur \cup st.prev

RememberedForever(b, e) == [b EXCEPT !.cur = @ \cup {e}]
RememberedForgetful(b, e) ==
    IF Cardinality(b.cur \cup {e}) >= DedupLimit \div 2
    THEN [b EXCEPT !.prev = {}, !.cur = {}]
    ELSE [b EXCEPT !.cur = @ \cup {e}]
(* TwoGenDedup::insert of a new id: a full generation becomes the previous *)
(* one.                                                                    *)
Remembered(b, e) ==
    IF Cardinality(b.cur \cup {e}) >= DedupLimit \div 2
    THEN [b EXCEPT !.prev = b.cur \cup {e}, !.cur = {}]
    ELSE [b EXCEPT !.cur = @ \cup {e}]

(* The dropped cursors of S are retired.                                   *)
Cleared(b, S) == [b EXCEPT !.dropped = [s \in Sub |-> IF s \in S THEN None ELSE @[s]]]

(* clear_channel_state, with the intent removed.                           *)
Removed(b, s) ==
    [b EXCEPT !.active = @ \ {s}, !.last[s] = None, !.floor[s] = None,
              !.dropped[s] = None, !.parked = @ \ {s}, !.retry = @ \ {s}]

(***************************************************************************)
(* BgState: telemetry frames.  A full buffer drops its oldest frame and    *)
(* counts it.                                                              *)
(***************************************************************************)

Over(q) == IF Len(q) > FrameCap THEN Len(q) - FrameCap ELSE 0
Newest(q) == SubSeq(q, Over(q) + 1, Len(q))

ParkedUncounted(b, f) == [b EXCEPT !.pending = Newest(Append(@, f))]
(* park_gated_observer_frame.                                              *)
Parked(b, f) ==
    LET q == Append(b.pending, f)
    IN  [b EXCEPT !.pending = Newest(q), !.evicted = @ + Over(q)]

(* track_observer_in_flight.                                               *)
Tracked(b, f) ==
    LET q == Append(b.inflight, f)
    IN  [b EXCEPT !.inflight = Newest(q), !.evicted = @ + Over(q)]

RequeuedReversed(b) ==
    LET q == Reverse(b.inflight) \o b.pending
    IN  [b EXCEPT !.pending = Newest(q), !.inflight = <<>>, !.evicted = @ + Over(q)]
(* requeue_observer_in_flight: ahead of the frames parked since.           *)
Requeued(b) ==
    LET q == b.inflight \o b.pending
    IN  [b EXCEPT !.pending = Newest(q), !.inflight = <<>>, !.evicted = @ + Over(q)]

Without(q, f) ==
    LET i == CHOOSE j \in DOMAIN q : q[j] = f
    IN  SubSeq(q, 1, i - 1) \o SubSeq(q, i + 1, Len(q))

(* requeue_rejected_observer_frame.                                        *)
Rejected(b, f) ==
    IF f \notin ToSet(b.inflight) THEN b
    ELSE LET full == Len(b.pending) >= FrameCap
         IN  [b EXCEPT !.inflight = Without(@, f),
                       !.pending = <<f>> \o (IF full THEN Tail(@) ELSE @),
                       !.evicted = @ + (IF full THEN 1 ELSE 0)]

Acknowledged(b, f) ==
    IF f \in ToSet(b.inflight) THEN [b EXCEPT !.inflight = Without(@, f)] ELSE b

(* apply_command_to_state.                                                 *)
Applied(b, c) ==
    CASE c.op = "subscribe" ->
           [b EXCEPT !.active = @ \cup {c.sub},
                     !.floor[c.sub] = IF @ = None THEN c.since ELSE @]
      [] c.op = "unsubscribe" -> Removed(b, c.sub)
      [] c.op = "publish" -> Parked(b, c.frame)
      [] c.op = "reconnect" -> b

(***************************************************************************)
(* The socket.                                                             *)
(***************************************************************************)

Req(s, since) == [type |-> "REQ", sub |-> s, since |-> since - Skew]
Close(s) == [type |-> "CLOSE", sub |-> s]
Frame(f) == [type |-> "FRAME", frame |-> f]
Event(e) == [type |-> "EVENT", id |-> e]
Closed(s, r) == [type |-> "CLOSED", sub |-> s, reason |-> r]
Ok(f, final) == [type |-> "OK", frame |-> f, final |-> final]
Notice == [type |-> "NOTICE"]

Unhanded == DOMAIN stored \ handed

(* The events a frame asks for, and those a message brings.                *)
Requested(m) ==
    IF m.type \notin {"REQ", "QUERY"} THEN {}
    ELSE {e \in DOMAIN stored : stored[e].sub = m.sub /\ stored[e].ts >= m.since}
Carried(m) == IF m.type = "EVENT" THEN {m.id} ELSE {}
AskedBy(frames) == Unhanded \cap UNION {Requested(m) : m \in ToSet(frames)}
Carrying(msgs) == Unhanded \cap UNION {Carried(m) : m \in ToSet(msgs)}

(* A write that succeeds: a dead socket swallows the frame.                *)
Sent(m) == out' = IF link = "up" THEN Append(out, m) ELSE out
Wrote(m) ==
    /\ Sent(m)
    /\ cut' = IF link = "up" THEN cut ELSE cut \cup AskedBy(<<m>>)

(* The events dropped by a full event channel that the cursor of s still   *)
(* reaches, and those whose cursor is lost by the command c.               *)
DropsOf(s) ==
    {e \in Unhanded : /\ stored[e].sub = s /\ st.dropped[s] # None
                      /\ stored[e].ts >= st.dropped[s]}
DropsForgotten(c) == IF c.op = "unsubscribe" THEN DropsOf(c.sub) ELSE {}

(* A write fails on a dead socket, or stalls past its time limit on a live *)
(* one.                                                                    *)
WriteFails ==
    \/ link = "dead" /\ UNCHANGED used
    \/ link = "up" /\ Fault

(* The task drops the socket and has to reconnect.                         *)
DropSocket ==
    /\ phase' = "down" /\ link' = "dead"
    /\ out' = <<>> /\ wire' = <<>> /\ live' = {}
    /\ cut' = cut \cup AskedBy(out) \cup Carrying(wire)
    /\ UNCHANGED <<stored, now, answered, unsent>>

(* On entry to the reconnect loops frames in flight are queued again.      *)
Reconnecting(b) ==
    /\ DropSocket
    /\ st' = Requeued(b) /\ stranded' = {}

(* try_send(None): the mark is not sent to a full channel.                 *)
Signal == queue' = IF Len(queue) < Capacity THEN Append(queue, "lost") ELSE queue

(***************************************************************************)
(* Commands of the harness.                                                *)
(***************************************************************************)

ReqOf(c) ==
    Req(c.sub, IF st.last[c.sub] # None THEN st.last[c.sub]
               ELSE IF st.floor[c.sub] # None THEN st.floor[c.sub] ELSE c.since)

(* execute_connected_command.  A REQ is parked while the gate is armed.    *)
ExecuteSubscribe(c) ==
    /\ c.op = "subscribe" /\ UNCHANGED used
    /\ forgotten' = forgotten \ {c.sub}
    /\ IF st.gate
       THEN /\ st' = [Applied(st, c) EXCEPT !.parked = @ \cup {c.sub}]
            /\ UNCHANGED <<out, cut>>
       ELSE /\ st' = [Applied(st, c) EXCEPT !.parked = @ \ {c.sub}, !.retry = @ \ {c.sub}]
            /\ Wrote(ReqOf(c))

(* The REQ's write fails: the intent is kept.                              *)
SubscribeFails(c) == c.op = "subscribe" /\ ~st.gate /\ WriteFails
Intent(b, c) == [b EXCEPT !.parked = @ \cup ({c.sub} \cap Control)]

(* The CLOSE is best effort.                                               *)
ExecuteUnsubscribe(c) ==
    /\ c.op = "unsubscribe"
    /\ st' = Removed(st, c.sub) /\ forgotten' = forgotten \ {c.sub}
    /\ cut' = cut \cup DropsForgotten(c)
    /\ \/ c.sub \notin st.active /\ UNCHANGED <<out, used>>
       \/ c.sub \in st.active /\ WriteFails /\ UNCHANGED out
       \/ c.sub \in st.active /\ Sent(Close(c.sub)) /\ UNCHANGED used

(* A frame waits for the gate, and behind the frames that wait already.    *)
MustPark == st.gate \/ st.pending # <<>>

ExecutePublish(c) ==
    /\ c.op = "publish" /\ UNCHANGED forgotten
    /\ \/ MustPark /\ st' = Parked(st, c.frame) /\ UNCHANGED <<out, cut, used>>
       \/ ~MustPark /\ WriteFails /\ st' = Parked(st, c.frame) /\ UNCHANGED <<out, cut>>
       \/ ~MustPark /\ Wrote(Frame(c.frame)) /\ st' = Tracked(st, c.frame) /\ UNCHANGED used

Execute(c) == ExecuteSubscribe(c) \/ ExecuteUnsubscribe(c) \/ ExecutePublish(c)

MainCommand ==
    /\ phase = "main" /\ cmds # <<>>
    /\ cmds' = Tail(cmds)
    /\ LET c == Head(cmds) IN
       \/ /\ c.op = "reconnect" /\ Reconnecting(st)
          /\ UNCHANGED <<queue, used, forgotten>>
       \/ Execute(c) /\ UNCHANGED <<phase, link, wire, relayVars, queue, stranded>>
       \/ /\ SubscribeFails(c) /\ Reconnecting(Intent(Applied(st, c), c))
          /\ Signal /\ UNCHANGED forgotten
    /\ UNCHANGED <<handVars, refused>>

(* Between attempts to reconnect commands only change the intent.          *)
ApplyCommand ==
    /\ phase = "down" /\ cmds # <<>>
    /\ st' = Applied(st, Head(cmds)) /\ cmds' = Tail(cmds)
    /\ cut' = cut \cup DropsForgotten(Head(cmds))
    /\ UNCHANGED <<phase, link, out, wire, relayVars, queue, used, handVars,
                   frameVars, forgotten>>

(* try_autonomous_reconnect gives up and wait_for_reconnect takes over.    *)
RequeueAgain ==
    /\ phase = "down" /\ st.inflight # <<>>
    /\ st' = Requeued(st) /\ stranded' = {}
    /\ UNCHANGED <<phase, link, out, wire, relayVars, queue, cmds, used, handVars,
                   cut, refused, forgotten>>

Subscribed(cs) == {cs[i].sub : i \in {j \in DOMAIN cs : cs[j].op = "subscribe"}}

(* drain_commands: once inside the resubscription, where a failed write    *)
(* fails the attempt, and once after it, where the callers ignore the      *)
(* failure.                                                                *)
DrainCommand ==
    /\ phase \in {"drain", "last_drain"} /\ cmds # <<>>
    /\ LET c == Head(cmds) IN
       \/ /\ c.op = "reconnect" /\ cmds' = Tail(cmds)
          /\ UNCHANGED <<st, phase, link, out, wire, relayVars, used, cut, stranded,
                         forgotten>>
       \/ /\ Execute(c) /\ cmds' = Tail(cmds)
          /\ UNCHANGED <<phase, link, wire, relayVars, stranded>>
       \/ /\ SubscribeFails(c) /\ cmds' = Tail(cmds)
          /\ st' = Intent(Applied(st, c), c)
          /\ IF phase = "drain"
             THEN phase' = "failed_drain" /\ UNCHANGED forgotten
             ELSE phase' = "failed_last" /\ forgotten' = forgotten \cup {c.sub}
          /\ UNCHANGED <<link, out, wire, relayVars, cut, stranded>>
    /\ UNCHANGED <<queue, handVars, refused>>

(* After a failed write the drain records the intent of the other commands.*)
DrainFailed ==
    /\ phase \in {"failed_drain", "failed_last"} /\ cmds # <<>>
    /\ LET c == Head(cmds) IN
       /\ st' = Applied(st, c) /\ cut' = cut \cup DropsForgotten(c)
       /\ forgotten' = IF phase = "failed_last" /\ c.op = "subscribe"
                       THEN forgotten \cup {c.sub} ELSE forgotten
    /\ cmds' = Tail(cmds)
    /\ UNCHANGED <<phase, link, out, wire, relayVars, queue, used, handVars, frameVars>>

FailedDrainDone ==
    /\ cmds = <<>>
    /\ \/ phase = "failed_drain" /\ DropSocket /\ stranded' = ToSet(st.inflight)
       \/ /\ phase = "failed_last" /\ phase' = "main"
          /\ UNCHANGED <<link, out, wire, relayVars, cut, stranded>>
    /\ UNCHANGED <<st, queue, cmds, used, handVars, refused, forgotten>>

DrainDone ==
    /\ phase \in {"drain", "last_drain"} /\ cmds = <<>>
    /\ phase' = IF phase = "drain" THEN "last_drain" ELSE "main"
    /\ UNCHANGED <<st, link, out, wire, relayVars, queue, cmds, used, handVars, cut,
                   frameVars, forgotten>>

(***************************************************************************)
(* Reconnecting: resubscribe_after_reconnect on a fresh socket.            *)
(***************************************************************************)

(* The rate-limit gate outlives the socket: everything is parked.          *)
ConnectGated ==
    /\ phase = "down" /\ st.gate
    /\ st' = [st EXCEPT !.parked = st.active, !.retry = {}]
    /\ phase' = "drain" /\ link' = "up" /\ forgotten' = {}
    /\ UNCHANGED <<out, wire, relayVars, queue, cmds, used, handVars, cut, frameVars>>

(* A REQ is written for every subscription.  A channel whose write fails   *)
(* is retried later; a control subscription's failure fails the attempt,   *)
(* and what was asked for on its socket is lost.                           *)
Connect ==
    /\ phase = "down" /\ ~st.gate
    /\ \E failing \in SUBSET st.active :
         LET sent == st.active \ (failing \cup
                       (IF Membership \in failing THEN {Observer} ELSE {}))
             frames == SetToSeq({Req(s, Since(s)) : s \in sent})
         IN  /\ IF failing = {} THEN UNCHANGED used ELSE Fault
             /\ st' = Cleared([st EXCEPT !.parked = (@ \ Channel) \ sent,
                                         !.retry = failing \cap Channel], sent)
             /\ IF failing \cap Control # {}
                THEN /\ cut' = cut \cup AskedBy(frames)
                     /\ UNCHANGED <<phase, link, out, forgotten>>
                ELSE /\ phase' = "drain" /\ link' = "up" /\ out' = frames
                     /\ forgotten' = {} /\ UNCHANGED cut
    /\ UNCHANGED <<wire, relayVars, queue, cmds, handVars, frameVars>>

(***************************************************************************)
(* The main loop.                                                          *)
(***************************************************************************)

ParkedSubs == st.parked \cup st.retry

(* What the drain at the head of the loop tries first.                     *)
Rank(s) == IF s = Membership THEN 1 ELSE IF s = Observer THEN 2
           ELSE IF s \in st.parked THEN 3 ELSE 4

(* One frame per tick: an earlier one is passed over only when its write   *)
(* fails.                                                                  *)
Turn(first) == IF link = "dead" \/ first THEN UNCHANGED used ELSE Fault

(* A parked channel that is no longer active is discarded.                 *)
DrainPending(s) ==
    /\ phase = "main" /\ ~st.gate /\ s \in ParkedSubs
    /\ Turn(\A t \in ParkedSubs : Rank(s) <= Rank(t))
    /\ LET kept == IF s \in st.parked THEN [st EXCEPT !.parked = @ \ {s}]
                                      ELSE [st EXCEPT !.retry = @ \ {s}]
       IN  IF s \in st.active
           THEN st' = Cleared(kept, {s}) /\ Wrote(Req(s, Since(s)))
           ELSE st' = kept /\ UNCHANGED <<out, cut>>
    /\ forgotten' = forgotten \ {s}
    /\ UNCHANGED <<phase, link, wire, relayVars, queue, cmds, handVars, frameVars>>

(* drain_gated_observer_pending: a frame that cannot be written stays.     *)
DrainFrame ==
    /\ phase = "main" /\ ~st.gate /\ st.pending # <<>>
    /\ Turn(ParkedSubs = {})
    /\ st' = Tracked([st EXCEPT !.pending = Tail(@)], Head(st.pending))
    /\ Wrote(Frame(Head(st.pending)))
    /\ UNCHANGED <<phase, link, wire, relayVars, queue, cmds, handVars, frameVars, forgotten>>

(* A retry that meets an armed gate is parked.                             *)
ParkRetry(s) ==
    /\ phase = "main" /\ st.gate /\ s \in st.retry
    /\ st' = [st EXCEPT !.retry = @ \ {s}, !.parked = @ \cup {s}]
    /\ UNCHANGED <<phase, link, out, wire, relayVars, queue, cmds, used, handVars,
                   cut, frameVars, forgotten>>

RecoverableStrictly(s) ==
    /\ s \in st.active /\ st.dropped[s] # None
    /\ s \notin ParkedSubs /\ ~st.gate
    /\ Capacity - Len(queue) > (Capacity + 1) \div 2
(* recovery::next_channel, and the room recover_one asks for: half the     *)
(* event channel.                                                          *)
Recoverable(s) ==
    /\ s \in st.active /\ st.dropped[s] # None
    /\ s \notin ParkedSubs /\ ~st.gate
    /\ Capacity - Len(queue) >= (Capacity + 1) \div 2

(* recover_one: the replay of what a full channel made the task drop.  The *)
(* cursor is retired by the write.                                         *)
RecoverOne(s) ==
    /\ phase = "main" /\ Recoverable(s)
    /\ Wrote(Req(s, Since(s)))
    /\ st' = Cleared(st, {s}) /\ forgotten' = forgotten \ {s}
    /\ UNCHANGED <<phase, link, wire, relayVars, queue, cmds, used, handVars, frameVars>>

(* A read error, or a ping without a pong.                                 *)
DetectLoss ==
    /\ phase = "main" /\ link = "dead"
    /\ Reconnecting(st) /\ Signal
    /\ UNCHANGED <<cmds, used, handVars, refused, forgotten>>

GateExpires ==
    /\ st.gate
    /\ st' = [st EXCEPT !.gate = FALSE]
    /\ UNCHANGED <<phase, link, out, wire, relayVars, queue, cmds, used, handVars,
                   cut, frameVars, forgotten>>

(***************************************************************************)
(* handle_ws_message.                                                      *)
(***************************************************************************)

Received(type) == phase = "main" /\ wire # <<>> /\ Head(wire).type = type

Later(a, b) == IF a > b THEN a ELSE b

(* The replay has to reach back to the oldest event dropped.               *)
DroppedCursor(s, t) == Earliest({st.dropped[s], t})

(* A new event of a channel moves the channel's cursor even when the full  *)
(* event channel drops it; a membership event moves it only when sent.     *)
NewEvent(e) ==
    LET s == stored[e].sub
        t == stored[e].ts
        seen == [Remembered(st, e) EXCEPT !.last[s] = Later(@, t)]
    IN  IF Len(queue) < Capacity
        THEN /\ st' = seen
             /\ queue' = Append(queue, "event")
             /\ handed' = handed \cup {e} /\ cut' = cut \ {e}
             /\ recent' = LET r == Append(recent, e) IN
                          IF Len(r) > DedupLimit \div 2 THEN Tail(r) ELSE r
             /\ UNCHANGED newest
        ELSE LET b == IF s = Membership THEN Remembered(st, e) ELSE seen
             IN  /\ st' = [b EXCEPT !.cur = @ \ {e}, !.prev = @ \ {e},
                                    !.dropped[s] = DroppedCursor(s, t)]
                 /\ UNCHANGED <<queue, handVars, cut>>

HandleEvent ==
    /\ Received("EVENT")
    /\ wire' = Tail(wire)
    /\ IF Seen(Head(wire).id) THEN UNCHANGED <<st, queue, handVars, cut>>
                              ELSE NewEvent(Head(wire).id)
    /\ UNCHANGED <<phase, link, out, relayVars, cmds, used, frameVars, forgotten>>

(* A rate-limit NOTICE names no frame, so all in flight are queued again.  *)
HandleNotice ==
    /\ Received("NOTICE")
    /\ wire' = Tail(wire)
    /\ st' = [Requeued(st) EXCEPT !.gate = TRUE] /\ stranded' = {}
    /\ UNCHANGED <<phase, link, out, relayVars, queue, cmds, used, handVars, cut,
                   refused, forgotten>>

(* A frame is settled, or put off by the rate limit.                       *)
HandleOk ==
    /\ Received("OK")
    /\ wire' = Tail(wire)
    /\ LET f == Head(wire).frame IN
       IF Head(wire).final
       THEN st' = Acknowledged(st, f) /\ UNCHANGED refused
       ELSE st' = [Rejected(st, f) EXCEPT !.gate = TRUE] /\ refused' = refused \cup {f}
    /\ UNCHANGED <<phase, link, out, relayVars, queue, cmds, used, handVars, cut,
                   stranded, forgotten>>

ClosedParksChannel(s) == [st EXCEPT !.gate = TRUE, !.parked = @ \cup ({s} \cap Channel)]
ClosedParks(s) == [st EXCEPT !.gate = TRUE, !.parked = @ \cup {s}]

(* A denial drops the channel; a rate limit parks the subscription and     *)
(* arms the gate; an authentication error costs the socket; anything else  *)
(* is answered with a new REQ at once, if the channel is still wanted.     *)
HandleClosed ==
    /\ Received("CLOSED")
    /\ LET s == Head(wire).sub
           r == Head(wire).reason
           Quietly == /\ wire' = Tail(wire)
                      /\ UNCHANGED <<phase, link, relayVars, queue, stranded>>
       IN
       \/ /\ r = "denied" /\ s \in Channel /\ Quietly
          /\ st' = Removed(st, s) /\ forgotten' = forgotten \ {s}
          /\ cut' = cut \cup DropsOf(s) /\ UNCHANGED <<out, used>>
       \/ /\ r = "rate" /\ Quietly
          /\ st' = ClosedParks(s) /\ UNCHANGED <<out, cut, used, forgotten>>
       \/ /\ r = "auth" /\ Reconnecting(st) /\ Signal /\ UNCHANGED <<used, forgotten>>
       \/ /\ r = "other" /\ s \notin st.active /\ Quietly
          /\ UNCHANGED <<st, out, cut, used, forgotten>>
       \/ /\ r = "other" /\ s \in st.active /\ Quietly
          /\ Wrote(Req(s, Since(s))) /\ st' = Cleared(st, {s})
          /\ forgotten' = forgotten \ {s} /\ UNCHANGED used
       \/ /\ r = "other" /\ s \in st.active
          /\ WriteFails /\ Reconnecting(st) /\ Signal /\ UNCHANGED forgotten
    /\ UNCHANGED <<cmds, handVars, refused>>

(***************************************************************************)
(* The harness, the relay and the network.                                 *)
(***************************************************************************)

Issue(c) ==
    /\ cmds' = Append(cmds, c)
    /\ UNCHANGED <<st, phase, link, out, wire, relayVars, queue, handed, recent, cut,
                   frameVars, forgotten>>

(* A channel is subscribed from the time of the notification that adds the *)
(* agent, which may be in the past; an older notification is ignored.      *)
SubscribeChannel(c) ==
    /\ Spend("commands")
    /\ \E since \in newest[c]..now :
         /\ newest' = [newest EXCEPT ![c] = since]
         /\ Issue([op |-> "subscribe", sub |-> c, since |-> since])
UnsubscribeChannel(c) ==
    Spend("commands") /\ Issue([op |-> "unsubscribe", sub |-> c]) /\ UNCHANGED newest
(* The control subscriptions are asked for once.                           *)
SubscribeControl(s) ==
    /\ s \notin st.active \cup Subscribed(cmds) /\ Spend("commands")
    /\ Issue([op |-> "subscribe", sub |-> s, since |-> now]) /\ UNCHANGED newest
PublishFrame ==
    /\ Spend("frames") /\ Issue([op |-> "publish", frame |-> used.frames + 1])
    /\ UNCHANGED newest

(* next_event: a mark of a lost connection makes the harness ask for a     *)
(* reconnect, whatever the task did in the meantime.                       *)
NextEvent ==
    /\ queue # <<>>
    /\ queue' = Tail(queue)
    /\ cmds' = IF Head(queue) = "lost" THEN Append(cmds, [op |-> "reconnect"]) ELSE cmds
    /\ UNCHANGED <<st, phase, link, out, wire, relayVars, used, handVars, cut,
                   frameVars, forgotten>>

(* Somebody publishes: now, after a while, or now by a clock that is       *)
(* behind by the skew.                                                     *)
StoreEvent(s) ==
    /\ \E d \in {0, Skew + 1}, lag \in {0, Skew} :
         /\ d = 0 \/ lag = 0
         /\ now' = now + d
         /\ stored' = Append(stored, [sub |-> s, ts |-> now + d - lag])
    /\ UNCHANGED <<st, phase, link, out, live, answered, queue, cmds, handVars, cut,
                   frameVars, forgotten>>

Publish(s) ==
    /\ StoreEvent(s) /\ Spend("events")
    /\ wire' = IF s \in live THEN Append(wire, Event(Len(stored) + 1)) ELSE wire
    /\ UNCHANGED unsent

(* The fan-out misses a subscription that is served: its index entry was   *)
(* lost, or the node did not listen to the topic.                          *)
PublishUnseen(s) ==
    /\ s \in live /\ StoreEvent(s)
    /\ Spends([used EXCEPT !.events = @ + 1, !.faults = @ + 1])
    /\ unsent' = unsent \cup {Len(stored) + 1} /\ UNCHANGED wire

(***************************************************************************)
(* The relay: handle_text_message of its receive loop, and the handlers.   *)
(***************************************************************************)

(* A CLOSE is handled in the loop, other frames in tasks: a frame waits    *)
(* for the CLOSEs before it only.                                          *)
Reached(i) == \A j \in DOMAIN out : j < i => out[j].type # "CLOSE"

(* handle_req registers the subscription ...                               *)
Register(i) ==
    /\ out[i].type = "REQ"
    /\ out' = [out EXCEPT ![i].type = "QUERY"] /\ live' = live \cup {out[i].sub}
    /\ UNCHANGED <<wire, answered, unsent, used>>

(* ORDER BY created_at DESC; the order of the ids is arbitrary.            *)
NewestFirst(S) ==
    {q \in [1..Cardinality(S) -> S] :
        \A i, j \in DOMAIN q : i < j => q[i] # q[j] /\ stored[q[i]].ts >= stored[q[j]].ts}
Page(q) == SubSeq(q, 1, Min({Len(q), PageLimit}))

(* ... and queries the history.  A failed query is answered as an empty    *)
(* one is.                                                                 *)
Replay(i) ==
    /\ out[i].type = "QUERY"
    /\ \E page \in {Page(q) : q \in NewestFirst(Requested(out[i]))} \cup {<<>>} :
         /\ IF page = <<>> /\ Requested(out[i]) # {} THEN Fault ELSE UNCHANGED used
         /\ wire' = wire \o [n \in DOMAIN page |-> Event(page[n])]
         /\ unsent' = (unsent \cup (AskedBy(<<out[i]>>) \ Carrying(wire))) \ ToSet(page)
    /\ out' = RemoveAt(out, i) /\ UNCHANGED <<live, answered>>

HandleClose(i) ==
    /\ out[i].type = "CLOSE"
    /\ live' = live \ {out[i].sub} /\ wire' = Append(wire, Closed(out[i].sub, "other"))
    /\ out' = RemoveAt(out, i) /\ UNCHANGED <<answered, unsent, used>>

HandleFrame(i) ==
    /\ out[i].type = "FRAME"
    /\ answered' = answered \cup {out[i].frame} /\ wire' = Append(wire, Ok(out[i].frame, TRUE))
    /\ out' = RemoveAt(out, i) /\ UNCHANGED <<live, unsent, used>>

Serve ==
    /\ \E i \in DOMAIN out :
         Reached(i) /\ (Register(i) \/ Replay(i) \/ HandleClose(i) \/ HandleFrame(i))
    /\ UNCHANGED <<st, phase, link, stored, now, queue, cmds, handVars, cut, frameVars,
                   forgotten>>

(* A refused REQ leaves an earlier subscription of that name as it was.    *)
Refuse(r) ==
    /\ Fault
    /\ \E i \in DOMAIN out :
         /\ Reached(i) /\ out[i].type = "REQ" /\ (r = "denied" => out[i].sub \in Channel)
         /\ out' = RemoveAt(out, i) /\ wire' = Append(wire, Closed(out[i].sub, r))
         /\ cut' = cut \cup AskedBy(<<out[i]>>)
    /\ UNCHANGED <<st, phase, link, relayVars, queue, cmds, handVars, frameVars, forgotten>>

(* The rate limit meets a frame.                                           *)
Throttle ==
    /\ Fault
    /\ \E i \in DOMAIN out :
         /\ Reached(i) /\ out[i].type = "FRAME"
         /\ out' = RemoveAt(out, i) /\ wire' = Append(wire, Ok(out[i].frame, FALSE))
    /\ UNCHANGED <<st, phase, link, relayVars, queue, cmds, handVars, cut, frameVars,
                   forgotten>>

(* It meets the connection as a whole: a notice that names no frame.       *)
ThrottleAll ==
    /\ link = "up" /\ Fault
    /\ wire' = Append(wire, Notice)
    /\ UNCHANGED <<st, phase, link, out, relayVars, queue, cmds, handVars, cut, frameVars,
                   forgotten>>

(* evict_conn_channel_subscriptions: the agent lost the channel.           *)
Evict(c) ==
    /\ c \in live /\ Fault
    /\ live' = live \ {c} /\ wire' = Append(wire, Closed(c, "denied"))
    /\ UNCHANGED <<st, phase, link, out, stored, now, answered, unsent, queue, cmds,
                   handVars, cut, frameVars, forgotten>>

(* What the relay had sent may still arrive, up to some message.           *)
LinkDies ==
    /\ link = "up" /\ Fault
    /\ link' = "dead" /\ live' = {} /\ out' = <<>>
    /\ \E n \in 0..Len(wire) :
         /\ wire' = SubSeq(wire, 1, n)
         /\ cut' = cut \cup AskedBy(out) \cup
                   (Carrying(wire) \ Carrying(SubSeq(wire, 1, n)))
    /\ UNCHANGED <<st, phase, stored, now, answered, unsent, queue, cmds, handVars,
                   frameVars, forgotten>>

ClientStep ==
    \/ MainCommand \/ ApplyCommand
    \/ DrainCommand \/ DrainDone \/ DrainFailed \/ FailedDrainDone
    \/ ConnectGated \/ Connect
    \/ \E s \in Sub : DrainPending(s) \/ ParkRetry(s) \/ RecoverOne(s)
    \/ DrainFrame \/ DetectLoss
    \/ HandleEvent \/ HandleNotice \/ HandleOk \/ HandleClosed

Next ==
    \/ ClientStep \/ RequeueAgain \/ GateExpires
    \/ \E c \in Channel : SubscribeChannel(c) \/ UnsubscribeChannel(c)
    \/ \E s \in Control : SubscribeControl(s)
    \/ PublishFrame \/ NextEvent
    \/ \E s \in Sub \ {Observer} : Publish(s) \/ PublishUnseen(s)
    \/ Serve \/ (\E r \in Reason : Refuse(r)) \/ (\E c \in Channel : Evict(c))
    \/ Throttle \/ ThrottleAll \/ LinkDies

Spec == Init /\ [][Next]_vars

(* The task and the relay keep running, the harness keeps reading its      *)
(* events, and a gate's deadline passes.                                   *)
FairSpec ==
    /\ Spec
    /\ WF_vars(ClientStep) /\ WF_vars(GateExpires)
    /\ WF_vars(NextEvent) /\ WF_vars(Serve)

-----------------------------------------------------------------------------
(***************************************************************************)
(* Properties.                                                             *)
(***************************************************************************)

TypeOK ==
    /\ st.active \subseteq Sub
    /\ st.floor \in [Sub -> Nat] /\ st.last \in [Sub -> Nat] /\ st.dropped \in [Sub -> Nat]
    /\ st.parked \subseteq Sub /\ st.retry \subseteq Channel
    /\ st.cur \subseteq DOMAIN stored /\ Cardinality(st.cur) < DedupLimit \div 2
    /\ st.prev \subseteq DOMAIN stored /\ Cardinality(st.prev) <= DedupLimit \div 2
    /\ st.gate \in BOOLEAN
    /\ Len(st.pending) <= FrameCap /\ Len(st.inflight) <= FrameCap /\ st.evicted \in Nat
    /\ phase \in {"main", "down", "drain", "last_drain", "failed_drain", "failed_last"}
    /\ link \in {"up", "dead"}
    /\ live \subseteq Sub /\ (link = "dead" => out = <<>> /\ live = {})
    /\ Len(queue) <= Capacity
    /\ answered \cup refused \cup stranded \subseteq 1..used.frames
    /\ cut \cup unsent \subseteq DOMAIN stored /\ forgotten \subseteq Sub
    /\ newest \in [Channel -> Startup..now]

Underway(s) ==
    \/ \E m \in ToSet(out) : m.type = "REQ" /\ m.sub = s
    \/ \E m \in ToSet(wire) : m.type = "CLOSED" /\ m.sub = s

(* The task knows that it still has to write a REQ for the subscription.   *)
Owed(s) == \/ phase # "main" \/ link = "dead" \/ s \in ParkedSubs
           \/ st.dropped[s] # None

Served(s) == \/ phase # "main" \/ link = "dead" \/ s \in ParkedSubs
             \/ s \in live \/ Underway(s)

(* A subscription the harness wants is served by the relay, or the task    *)
(* has it down to ask again: no refusal, rate limit, lost socket, failed   *)
(* write or unsubscribe drops one silently (execute_connected_command,     *)
(* resubscribe_after_reconnect, handle_ws_message, the two drains).        *)
ActiveIsServed == \A s \in st.active \ forgotten : Served(s)

Coming(e) ==
    LET s == stored[e].sub IN
    \/ e \in AskedBy(out) \cup Carrying(wire)
    \/ stored[e].ts >= Since(s) - Skew /\ (Owed(s) \/ Underway(s))

Wanted(e) == LET s == stored[e].sub IN
             s \in st.active \ forgotten /\ stored[e].ts >= st.floor[s]

(* No event of a wanted subscription slips by the task.  Until it is       *)
(* handed to the harness it is on its way, or the task still has to ask    *)
(* for a replay that reaches back to it.  The exceptions are an event that *)
(* the relay left out when it answered, by its page limit, a failed query  *)
(* or a gap in the live feed; and a replay that was cut short, then only   *)
(* an event the cursor has passed: replays come newest first, and the      *)
(* cursor of dropped events is retired when the REQ is written             *)
(* (channel_since, record_event, recover_one).                             *)
NothingSlipsBy ==
    \A e \in Unhanded \ unsent : Wanted(e) =>
        \/ Coming(e)
        \/ e \in cut /\ stored[e].ts < Since(stored[e].sub) - Skew

(* Among as many events in a row as one generation of ids holds, none is   *)
(* handed to the harness twice, whatever replays overlap (TwoGenDedup).    *)
RepeatsAreFarApart ==
    \A i, j \in DOMAIN recent : recent[i] = recent[j] => i = j

Published == 1..used.frames \ {cmds[i].frame : i \in {j \in DOMAIN cmds : cmds[j].op = "publish"}}
Kept == ToSet(st.pending \o st.inflight)

(* No telemetry frame disappears silently: one that the relay has not      *)
(* answered is waiting or in flight, or it was counted as dropped          *)
(* (gated_observer_dropped).                                               *)
FramesAccounted == Cardinality(Published \ (answered \cup Kept)) <= st.evicted

(* Frames keep their order through gates, lost sockets and failed writes:  *)
(* of those the relay did not put off one by one, the older are in flight  *)
(* or first in line (requeue_observer_in_flight, execute_connected_        *)
(* command).                                                               *)
FramesStayInOrder ==
    LET q == st.inflight \o st.pending
    IN  \A i, j \in DOMAIN q :
          i < j /\ q[i] \notin refused /\ q[j] \notin refused => q[i] < q[j]

(* As often as faults and bursts strike, the task catches up: every wanted *)
(* event has reached the harness, dropped ones included, but for those cut *)
(* or left out by the relay, and every frame is answered, but for those in *)
(* flight on the socket of a failed attempt (recover_one, the drains, the  *)
(* reconnect).                                                             *)
CatchesUp ==
    []<>(/\ \A e \in Unhanded \ (cut \cup unsent) : ~Wanted(e)
         /\ Kept \subseteq stranded)
=============================================================================
