# A verification project for the Buzz agent harness and relay

Buzz is a workspace for people and agents: a Nostr relay (`crates/buzz-relay`
and the crates it is built from), clients, and an agent harness
(`crates/buzz-acp`) that connects the relay to agent processes speaking the
Agent Client Protocol. This directory holds TLA+ modules translated from the
Rust source, the TLC configurations that check them on small instances, and
TLAPS proofs of what holds for every value of the constants. `PROJECT.json`
maps every definition to the lines it models and lists runs, mutants, findings,
hazards and theorems.

Modelled so far: the core of the harness (its event queue, its agent pool, the
main loop that drives both, and its connection to the relay), the relay's live
subscriptions with the Redis topics behind them, and the deletion of a
community. *Plan* says what follows.

## Inventory

| Component | State | Operations | Hard behaviour |
|---|---|---|---|
| Event queue, `buzz-acp/src/queue.rs` | pending events per session scope, in-flight markers and deadlines, retry throttles and counts, carry-over of interrupted turns, events withheld for a steer | `push`, `flush_next`, `mark_complete`, `requeue`, `requeue_preserve_timestamps`, `requeue_as_cancelled`, `mark_native_steer_pending`, `release_native_steer`, `remove_event`, `extend_in_flight_deadline`, `drain_channel`, `compact_expired_state` | a turn outlives its deadline; an acknowledgement comes late; several operations refill a queue that is at its cap; a removal overlaps turns and steers |
| Agent pool, `buzz-acp/src/pool.rs` | slots, sessions per worker with generations, the scope directory, holds, task table | `try_claim`, `return_agent`, `record_scope_owner`, `hold_decision`, `clear_hold`, `invalidate_*`, `run_prompt_task` | a checked-out worker's sessions cannot be reached; forks, rotations and removals meanwhile; control signals that race the end of a turn |
| Pool life cycle, `buzz-acp/src/pool_lifecycle.rs` | listening, waking, ready, failed with a retry instant | `start_wake_if_due`, `complete_wake`, `cancel_wake` | a failed wake must be retried; a pool is replaced while breakers survive |
| Main loop, `buzz-acp/src/lib.rs` | `removed_channels`, crash history, task map, the select arms | `dispatch_pending`, `handle_prompt_result`, `recover_panicked_agent`, the steer, membership, command, maintenance, respawn and wake arms | the order of arms; one arm undoing what another relies on; exit when every agent is dead |
| ACP client, `buzz-acp/src/acp.rs` | request table, child process, prompt state | `session/new`, `session/prompt`, cancel, steer | cancel and drain against a late answer |
| Relay client of the harness, `buzz-acp/src/relay.rs`, `relay/recovery.rs` | the subscriptions wanted, replay cursors, ids seen, the rate-limit gate, parked and in-flight telemetry frames | commands of the harness, `handle_ws_message`, `resubscribe_after_reconnect`, the drains, `recover_one`, two reconnect loops | a socket lost, refused or throttled in the middle of a replay or a burst; an event channel that is full; writes that fail on one subscription of several |
| Permission broker, `buzz-acp/src/permission.rs` | pending requests | ask, answer, time out | a timeout racing an answer |
| Subscription registry, `buzz-relay/src/subscription.rs` | subscriptions and several concurrent indexes | `register_with_scope`, `remove_*`, `fan_out_scoped` | index and table are updated under different locks, and so are two keys of the index; an empty key is removed after its lock was given back |
| Connections and handlers, `buzz-relay/src/connection.rs`, `handlers/` | subscription ids of a connection, send queues, limits | EVENT, REQ, CLOSE, clean-up, eviction | a REQ is a task of its own and a CLOSE is not; a clean-up overtakes both; backpressure |
| Pairing relay, `buzz-pair-relay` | one subscription per connection, ids seen, delivery budgets | REQ, EVENT, expiry, disconnect | budgets and reservations on failure paths |
| Pub/sub, `buzz-pubsub` | reference counts of topics, debounce timers, the subscriber's connection | `retain_topic`, `release_topic`, `connect_and_subscribe` | a debounced unsubscription races a retain and a reconnect |
| Relay mesh, `buzz-relay-mesh` | membership, fencing tokens | join, renew, leave | stale members |
| Deletion, `buzz-deletion`, `buzz-db/src/store/deletion.rs` | the durable request and its lease, the fence of the community, the manifest in chunks, serving-write leases | submit, approve, claim, one transaction or external call per step of seven stages, abort, unblock; acquire, protect, release | crash or takeover between any two steps; a check without a lock and a write after it; remote writes that land late |
| Workflow, `buzz-workflow` | runs, approvals | trigger, approve, resume | duplicate triggers, late approvals |
| Audit, push gateway, database, authentication, media, search, SDK, CLI, agent, user interfaces | rows in Postgres, or none | requests | none of their own beyond the database's transactions |

Interactions in the harness. Relay events reach the main loop, which pushes
them to the queue; `dispatch_pending` takes a batch from the queue and a worker
from the pool and spawns a task for the turn; the task's result returns over a
channel and the main loop settles or requeues the batch, then returns or
replaces the worker. A steer goes from the main loop into a running turn, and
its acknowledgement comes back over another channel. Queue and pool are owned
by the one main loop, so each arm is atomic; the concurrency is between the
loop, the turn tasks, the respawn and wake tasks, and time. The relay client is
one more task: it puts events on a bounded channel the main loop reads, and
takes commands from another.

Interactions in the relay. A REQ handler checks access, registers the
subscription, retains its topics and sends the history; a committed event is
fanned out from the index, and on other nodes through Redis on the topics they
retain. A serving write with an external effect holds a lease on its community,
which a deletion drains before it fences the community and destroys anything.

What makes each part correct: an event is in one place, is settled once, is
dropped only by a cap or by order, and its scope runs one turn at a time
(queue); a worker is claimed only with sessions the directory names, one
process per slot, paced respawns, bounded holds, and work that is eventually
taken (pool); nothing left behind by a sleep (life cycle and loop); a wanted
subscription is served or about to be asked for, and no wanted event or frame
is lost without a trace (relay client); registry, index and topic counts agree,
and no event falls between history and live feed (relay subscriptions, with the
exceptions below); nothing
is destroyed before the point of no return, nothing is left after it, and
whatever a run leaves behind, the next one can go on (deletion).

## Modules

| Module | Models |
|---|---|
| `EventQueue` | `queue.rs`, with the calls `lib.rs` makes to it: each action is one call of the main loop with every queue operation it performs |
| `AgentPool` | the pool half of `pool.rs`, `pool_lifecycle.rs` and the arms of `lib.rs` that touch the pool |
| `RelayClient` | the background task of `relay.rs` and `relay/recovery.rs`, against the handlers of `buzz-relay` as its client sees them, and the network |
| `RelaySubscriptions` | the registry, the REQ and CLOSE handlers, clean-up, eviction, fan-out, and the topics of `buzz-pubsub`: the composition of three crates' state at the granularity of their locks |
| `CommunityDeletion` | the engine of `buzz-deletion`, the deletion store of `buzz-db` and the triggers of its migration, with serving writers |
| `DeletionContract` | what a deletion promises, in three variables; `CommunityDeletion` implements it |
| `MCEventQueue`, `MCRetryBudget`, `MCAgentPool`, `MCRelayClient`, `MCRelaySubscriptions`, `MCCommunityDeletion` | instances, bounds and the properties of the violation runs |
| `NatLemmas` | least elements and induction on the naturals, stated with sets |
| `EventQueueProofs`, `EventQueueTurnProofs`, `EventQueuePlaceProofs` | lemmas, inductive invariants and theorems about the queue: types and caps; turns, deadlines and carry-over; where each event is and how it may leave |
| `AgentPoolProofs` | the same for the pool |
| `CommunityDeletionProofs` | the same for a deletion, with the proof that it implements `DeletionContract` |
| `RelaySubscriptionsProofs` | the same for the subscriptions: types, index, delivery, topic counts |
| `RelayClientProofs` | the same for the relay client: types and bounds, the duplicate filter, the telemetry frames, the subscriptions and their replay cursors |

The definitions called *a faulty variant* in the modules are plausible
mistakes, used by the mutants of `PROJECT.json`; no specification uses them.

### EventQueue

The variables are the fields of the `EventQueue` struct, under their names where
TLA+ allows, plus what the main loop holds around it: `held` (batches that
`dispatch_pending` flushed and could not place), `turns`, `steers` and
`removed`. `fate` is history. An event is the number of its arrival, so
`received_at` is the event itself; `CreatedAt` gives the author's clock, which
does not follow arrival. Instants are time left. Actions:

* `Push`, `PushRefused`, `SteerPush` — `NormalListenerIngress::push`,
  `EventQueue::push`, `try_native_steer`;
* `ExpireInFlight` — the expiry block of `flush_next`, for one scope at a time:
  the code expires every overdue scope in one call, and the model allows other
  steps in between, which is an over-approximation;
* `Flush`, `FlushCancelled`, `ReturnHeld` — `flush_next` in the loop of
  `dispatch_pending`. While `held` is not empty only dispatch steps are
  possible, because the loop runs to its end before the main loop waits again;
* `TurnSucceeded`, `TurnDiscarded`, `TurnDeadLettered`, `TurnFailed`,
  `TurnCancelled` — `handle_prompt_result` and `recover_panicked_agent`. The
  code dispatches again after each result; the model leaves that to `Flush`,
  which may also happen later;
* `SteerDelivered`, `SteerReleased` — the acknowledgement arm;
* `Drain`, `Rejoin`, `CompactExpiredState`, `Tick`.

The retry delay doubles with each attempt up to a limit, as in `requeue`; the
random jitter of 20 % that the code adds to it is left out.

An event steered into a turn may be delivered twice: if the scope expires
before the acknowledgement, the withheld event is back in the queue and may be
in a new turn when the acknowledgement settles it. `SettledStaysSettled`
therefore leaves steered events out.

### AgentPool

`state` is the slot: `idle`, `starting` (claimed, session not ready),
`prompting`, `returned` (result sent and not collected) or `empty`. `sessions`
and `gens` are a worker's own table, `owner` the directory, `heldFor` the holds,
`crashes`, `openFor` and `respawning` the breaker, `life` and `wakeIn` the life
cycle. Pending work is the set `wanted`. `revoked` is history: which sessions
of a checked-out worker were rotated or removed. Actions: `Hold`, `Unhold`,
`Claim`, `ClaimHeartbeat` (dispatch); `StartPrompt`, `SendResult` (the turn's
task); `ReturnAgent`, `ReplaceAgent`, `Panic` (its end); `RespawnSucceeded`,
`RespawnFailed`, `Refill` (the breaker and maintenance); `Request`, `Withdraw`,
`Interrupt`, `Rotate`, `RemoveChannel`, `Rejoin`; `StartWake`, `WakeSucceeded`,
`WakeFailed`, `Sleep`; `Tick`. The growing delay between wake attempts is one
constant `WakeDelay`. Prompt text, context fetching, model switching and turn
counters are left out.

### RelayClient

`st` is `BgState`: the subscriptions wanted (`active`), their start (`floor`),
the newest event seen (`last`) and the oldest one dropped (`dropped`), the
parked and to-be-retried subscriptions, the two generations of ids, the
rate-limit gate, the telemetry frames waiting and in flight, and the count of
those dropped. `phase` is where the task is: its main loop, reconnecting, or
one of the two command drains after a reconnect. `out` and `wire` are the
socket. An event is its position in the relay's store; its time is the author's
and may be behind by `Skew`. Actions follow the arms of `run_background_task`
(`MainCommand`, `DrainPending`, `DrainFrame`, `ParkRetry`, `RecoverOne`,
`DetectLoss`), `handle_ws_message` (`HandleEvent`, `HandleNotice`, `HandleOk`,
`HandleClosed`), the reconnect (`ApplyCommand`, `RequeueAgain`, `ConnectGated`,
`Connect`, `DrainCommand`, `DrainDone`, `DrainFailed`, `FailedDrainDone`), the
calls of the harness, the relay (`Publish`, `PublishUnseen`, `Serve`, `Refuse`,
`Throttle`, `ThrottleAll`, `Evict`) and the network (`LinkDies`).

The relay's side follows `buzz-relay`. A CLOSE is handled in the receive loop,
a REQ and a telemetry frame in tasks, so that they may overtake each other
(`Reached`). A REQ is registered for the live feed (`Register`) and later
answered from the store (`Replay`): newest first, ties in any order, at most
`PageLimit` events (`DEFAULT_MAX_PAGE_LIMIT`, 1000), or nothing at all when the
query fails, which the client cannot tell from an empty history. The live feed
may miss an event of a subscription that is served (`PublishUnseen`;
`RelaySubscriptions` shows how). `ThrottleAll` is the connection-wide refusal
that `rejection.rs` can render and the task handles; no call site sends one at
this commit. Left out of the relay: reads from a replica, which are off by
default (`BUZZ_REPLICA_READ_MAX_AGE_MS`) and may leave out recent events.

The harness subscribes to a channel from the time of the membership
notification that adds it, which may be in the past; it ignores notifications
older than the newest one it saw (`newest`). The setup mode subscribes from
the start-up time instead and is not modelled.

A resubscription burst is one step: the code reads no message while it writes,
and `Connect` chooses which writes fail. `try_autonomous_reconnect` and
`wait_for_reconnect` differ in their delays, so they are one phase, and
`RequeueAgain` is the hand-over between them. Left out: pings as such, typing
indicators, the delays, and NIP-42 details.

History variables name the cases a property excepts, so that each exception is
as narrow as the code makes it. `unsent`: events that the relay left out of its
last replay that asked for them, by its page limit or a failed query, or of its
live feed; a later replay that brings one takes it off. `cut`: events whose
replay was under way on a socket that was lost or in a REQ that was refused, or
whose drop by a full event channel was forgotten with the channel's cursors
(see *Findings*). The code asks newest first and retires
the cursor of dropped events when it writes the REQ, so such an event may be
behind the cursor for good; `NothingSlipsBy` allows it only there. `forgotten`:
subscriptions whose REQ fails in `drain_post_reconnect`, whose `Failed` the
callers take for success. `stranded`: frames in flight on the socket of an
attempt that failed, which wait for the next loss.

### RelaySubscriptions

`subs` is the registry's table and `index` its fan-out index (the kind and `#p`
indexes are one index by topic); `keys` are the keys the index has, some of them
without an entry. `local` is what a connection counts against its limit, `tasks`
the REQ handlers, `inline` the receive loop's own work, `evictor` the eviction,
`jobs` the calls of `remove_from_index` under way. `count`, `timers` and `cmds`
are the topics of `PubSubManager`, `redis` and `active` the subscriber task.

A step that holds one lock is one action. A REQ is `Check`, `Replace`, `Store`,
`Index` (one key at a time), `ReleaseReplaced`, `Retain`, `Tell`, `Query`; a
CLOSE is `HandleClose` and its releases, a clean-up `RemoveConnection`,
`InlineRelease`, `Deregister`; an eviction is `Revoke`, `Strip`, `ForgetLocal`,
`EvictRelease`; a fan-out is `CommitEvent`, `Reach`, `Candidates`, `Match`,
`Deliver`. Each removal starts a job, which takes its entries out key by key
(`Unindex`) and removes a key that it found empty in a step of its own
(`DropKey`), with whatever the key holds by then. A removal by a REQ, a CLOSE or
an eviction keeps the lock on its connection's subscriptions until its job is
over (`Locked`); a clean-up gives it back first. Coarser than the code is the copy
of the candidates, which reads several index maps one after the other and is
one step here.

`Query` may fail or be full: the code then sends EOSE with less than was asked
for (`short`). Other history variables are `lost`, the index entries that were
removed with a key and not put back, and `stray`, the topics that an eviction
released for a subscription that no longer had the channel. One community is
modelled; the topics of two communities never meet. Reads from a replica, off
by default, are left out.

### CommunityDeletion and DeletionContract

`req` is the row of `community_deletion_requests`, `comm` that of
`communities`, `chunks` and `stamped` the manifest table, `rows`, `objects` and
`cached` what the three stores hold. `ex` is an executor: the step it is at and
what it read when it claimed the request. A transaction is one action; where the
code checks the lease without a lock and writes afterwards, check and write are
two (`ClearCheck` and `ClearChunks`, `AppendCheck` and `AppendChunk`,
`StampCheck` and `StampChunk`), and the guard of the write is the table's
trigger. `Committed` lets the answer to a commit be lost. `StageError`, `Crash`,
`Shutdown` and `LeaseLapses` may come between any two steps, and a call to a
store that was under way may or may not have landed. A writer acquires its
lease, sends a remote write, and releases, crashes or loses the lease; the
write lands or fails at any later time. Time is abstracted to whether a lease is
live; one chunk holds one object. An error of a stage counts against the retries;
where the code compares the catalog or the listed keys with what was approved
(`Compares`), it may also be permanent and block the request at once. A frozen
inventory that no longer matches its own digest is left out.

`DeletionContract` has a phase (serving, closing, closed, erasing, gone), the
data of the community and the strays. `KeepsContract` is its specification
under the mapping of `Contract` in `CommunityDeletion`: `Phase` reads the stage
and the state of the community, `data` is the union of the three stores.
A stray is a write that landed after its writer's lease had ended; the contract
excepts strays in the object store and in Redis, and none in PostgreSQL, where
the lease is checked in the transaction itself.

## Runs

| Run | Shows |
|---|---|
| `queue_timely` | Turns meet their deadline. One copy of each event, settled events stay settled, caps, one turn per scope, carry-over keeps its reason, withheld events await an acknowledgement, a sleep strands nothing, and only a full queue sheds. |
| `queue_late` | Turns that outlive their deadline, so that two turns of one scope overlap: one copy of each event, settled events stay settled, and every scope in flight has a deadline. |
| `queue_drop` | Drop mode: settled events stay settled. |
| `pool_sessions` | Two workers, a conversation and a thread: session ownership over forks, rotations, removals, rejoins and crashes; holds; respawns paced by the breaker. |
| `pool_lazy` | The lazy pool, under fairness: respawns, sleep and wake; pending work is taken. |
| `deletion` | Two executors, a writer and an operator with crashes, stalls, lost answers and takeover: the contract, no live serving lease behind the fence, an intact manifest, stamps that are true, an abort that restores the archive mark, and, under fairness, reruns of the command that decide every approved request. |
| `relay_client` | Lost sockets, refusals, rate limits, stalled writes and a full event channel: failed and full history queries too: every wanted subscription is served or owed, no wanted event slips by but those the relay leaves out, no near duplicate, telemetry accounted for and in order, and the task catches up. |
| `relay_subscriptions` | REQ tasks, CLOSE, disconnection, eviction, an event and a Redis outage, interleaved between the locks of registry, index keys and topics: registered means indexed unless the entry was removed with its key, counts cover their holders, an indexed subscription whose query went well misses nothing between history and live feed, and the node comes to listen to what is subscribed. |
| `retry_keeps_carryover` | Violated: a retry drops the carry-over merged into the failed turn. |
| `retry_budget` | Violated: a batch held back for want of an agent loses its retry count. |
| `rotate_reaches_session` | Violated: a `!rotate` that meets the end of a turn is lost. |
| `live_after_eose` | Violated: a removal deletes an index key with the entry another client's registration has just put there; that subscription has its EOSE and is sent no event. |

Bounds. `queue_timely` uses one channel with a conversation and a thread, four
events, a scope cap of two under a channel cap of three, and one retry: enough
for each cap to be hit by each of the operations that refill a queue, and for a
steer to reach a scope whose queue is full beside its turn. `queue_late` uses
three events and the same scopes, and lets a scope be in flight twice;
`queue_drop` adds a second channel with a scope of its own. `created_at` runs
against the arrival order. The pool runs use two workers and one or two scopes: enough for an owner
and a fork. `MaxClaims` bounds the dispatches of one pool and `MaxEvents` the
arrivals; both are named bounds of the model and not of the code. Larger values
of the constants are covered by the theorems, for the properties they name.

`deletion` uses two executors (one to stall, one to take over), one writer, two
objects (so that a manifest has a next chunk), retries that run out at the
second failure, and `MaxFaults = 2`: a fault and a fault of the recovery from
it. `MaxRequests` bounds the requests for the community. `relay_client` uses
one channel beside the control subscriptions, an event channel of one, a page of
one, two ids per generation and two frames per buffer, so that each is full at
once; `Budgets` lists the mixes explored of events, commands, frames and faults,
such as two events with a fault or a command, one event with two faults, two
frames with two faults, or three with one. Larger mixes (two events with two
faults, or with a command and a fault; three frames with two faults, where a
rejected frame meets a full buffer) were run for the invariants alone and showed
nothing new; with the liveness property they take longer than a check should.
`relay_subscriptions` uses two connections, subscriptions and channels and two
handlers; each of its `Plans` says what may happen in a behaviour, and between
them they pair each of replacement, CLOSE, loss, revocation, event and outage
with REQs that run at the same time. `Budgets` and `Plans` are bounds of the
models; without them the mixes multiply beyond reach.

Deadlock is not checked: the queue stops when the bounded arrivals are settled,
the pool when the harness has exited, and the other models when their bounds
are spent.

Fairness. In `pool_lazy`: weak fairness of time, of dispatch, of collecting
results, respawns and wakes, because the main loop selects over them for ever;
of the end of a turn, because a turn has a hard cap. Strong fairness that a
respawn and a wake succeed: without it an agent binary that never starts keeps
work pending for ever, as it does in the code. Nothing is assumed about
requests, rotations, removals, sleep or panics. In `deletion`: a process that
holds a claim goes on (`execute_claim` loops over the stages), and the lease of
an executor that is gone runs out. Nothing is assumed of claims: `run_loop`
drains what is runnable and exits, it exits after a failed claim too, and a test
(`continuous_worker_command_is_not_exposed`) pins that there is no worker that
polls. `ApprovedIsDecided` therefore has a hypothesis: *if* the operator runs the
command again whenever a request can be claimed (`OperatorReruns`), every
runnable request is decided or blocked. This includes that a claimed request
comes to be free if its run fails: were it never free, the hypothesis would hold
of itself and the request would hang. Nothing is assumed of writers, so a
writer may keep its lease for ever. In
`relay_client`: the task, the relay and the harness's reading go on, and the
gate's deadline passes; commands, events and faults are free. In
`relay_subscriptions`: spawned tasks run to their end, timers fire, and the
subscriber reconnects after each outage.

## Proofs

`AgentPoolProofs` proves, for every number of workers, scopes, claims and every
value of the time constants that satisfies `PoolAssumption`:

* `TypeCorrect`: `Spec => []TypeOK`;
* `RespawnsFillEmptySlots` and `SleepIsClean`, from the inductive invariant
  `SlotInv`. Neither property is inductive alone: the wake fills every slot, so
  no respawn may be in flight for a pool that is not ready, and that is part of
  `SleepLeavesNoTrace`; conversely a sleeping pool has no respawn because none
  is in flight for a live slot. `EmptySlotHasNoSession` is added for the
  sessions;
* `SessionsAreOwned` and `RemovedSessionsAreGone`, from `SessionInv`, which adds
  `IdleSessionsAreOwned` and `RemovedIsDisowned`: a session whose channel was
  removed is no longer the one the directory names, even while its worker is
  checked out and after a rejoin. The step that matters is a claim: it makes a
  worker the owner, and the lemma `ClaimForIdle` shows that an idle worker with
  a session for the scope would have been claimed itself;
* `ExpiredHoldsAreSticky`, an action property that needs `TypeOK` only.

`EventQueueProofs`, `EventQueueTurnProofs` and `EventQueuePlaceProofs` prove, for
every set of scopes and channels, every number of events and retries, and every cap and delay that
satisfies `ConstantsAssumption`:

* `QueueTypeCorrect` and `CapsAlwaysHold`, from `QueueInv`, the conjunction of
  both. They need each other: an eviction removes the head of a queue, which
  is a sequence of events only because a queue over its cap is not empty. The
  eviction loop is a fold over a number of rounds; `EvictOne` says what a
  round does to the lengths, `EvictMany` repeats it by the set form of
  induction in `NatLemmas`, and `CapEnforced` concludes that the rounds the
  code asks for are enough. `PushBackCapped` and `PushFrontCapped` carry this to
  every operation that refills a queue;
* `InFlightAlwaysHasDeadline`: the set and the table are always updated
  together;
* `OneTurnAtATime`, under the hypothesis that turns end before their deadline
  (`LateTurns = FALSE`; the run `queue_late` shows what remains true without
  it). The invariant adds `BatchesMeetDeadline`: every batch that is held or
  running still has time left, so expiry never frees a scope with a live turn;
* `CarryoverAlwaysHasReason`: the invariant adds that a batch with carried-over
  events has a reason and that no batch is empty, so merging and returning it
  keeps both;
* `AtMostOneCopyCorrect`, `SettledStaysSettledCorrect` and
  `WithheldAwaitsAckCorrect`, from `PlaceInv`, with or without late turns. None
  of the three is inductive alone. That a move makes no second copy needs the
  place it leaves to be the only one, so `PlaceInv` says it of every table and
  batch (`OnePlace`) and that no sequence holds an event twice. That a settled
  event does not come back needs `KeptIsLive`: what is kept has arrived and is
  open or steered. A late acknowledgement settles its event once only because
  no two steers are pending for it (`SteersOnce`). The lemmas `Cut`, `Joined`,
  `WithoutContents` and `SortedContents` say what the operations on sequences
  do to their contents, `Takes` what a refill adds and sheds, `Comes` what
  becomes of the events of a batch that returns;
* `SleepStrandsNothingCorrect`, which also needs `HeldOwnsScope`: the gate of the
  sleep reads the in-flight set, the running turns and the tables, and not the
  batches that `dispatch_pending` holds back, so each of these must own a marker
  that neither expiry nor a late result takes away;
* `ShedOnlyWhenFullCorrect`, an action property, from the same invariant. The
  attempt to prove it corrected the property: it asked for a queue that is full
  after the step, and a steer that arrives at a full queue displaces an event
  and is then withheld, which leaves the queue one short of its cap.
  `PushBackDisplaces` shows that the queue or the channel was full before.

`CommunityDeletionProofs` proves, for every number of executors, writers,
requests, retries and faults and every finite set of objects that satisfies
`DeletionAssumption` (there is an object, and an attempt may fail once before
the request is blocked):

* `DeletionTypeCorrect`, from `TypeInv`: `TypeOK`, a request that is not blocked
  has retries left, and what an executor remembers fits the request. The
  lemmas `WorkOutcome` and `LookMoves` say once what a step of an executor may
  do to the request and to its own record, so that a stale executor is treated
  like any other;
* `FencedAdmitsNobodyCorrect` and `AbortRestoresArchiveCorrect`, from
  `CommunityInv`, which adds how the state of the community follows the stage of
  the request (`StageFits`), what an attempt saved (`ArchiveSaved`) and that a
  tombstone has no rows. Without `StageFits` an abort could find a fenced
  community; without `ArchiveSaved` a second attempt could save the mark that
  the first one had set;
* `ManifestIntactCorrect` and `StampedMeansDeletedCorrect`, from `DeletionInv`,
  which adds `ErasureInv`: what each executor has established at each of its
  steps (`ExecutorKnows`), for instance that the keys it saw and is about to
  stamp are gone. This stays true while other executors and late writers move,
  by the lemma `Persists`: the stages behind the drain are never left, the chunk
  table is frozen there, and nothing comes back to a store but as a stray;
* `DeletionKeepsContract`: `Spec => KeepsContract`, the refinement. `PhaseNow`
  and `PhaseThen` give the phase before and after a step; each step of the
  engine and of a writer is then a step of the contract or a stutter. The step
  that needs the invariant is the last one, `mark_verified`, which may be taken
  by an executor whose three looks at the stores are far in the past.

`RelaySubscriptionsProofs` proves, for every finite set of connections,
subscription ids and channels, every limit and every plan that satisfies
`RelaySubscriptionsAssumption`:

* `SubscriptionTypeCorrect`, from `TypeInv`, which also says that a handler past
  its checks has a scope, that a list being worked off is not empty, and how the
  removals under way fit their connections and the receive loop;
* `RegisteredIsIndexedCorrect`, from `EntryInv` and `JobInv`. The property alone
  is not inductive, since an `Unindex` step of some removal could take the entry
  of a registration that stands. `JobInv` says that it does not: what a removal
  has still to take out is not registered (`Stale`), because the lock of the
  connection keeps a new registration out until the removal is over, and a
  clean-up, which gives the lock back early, is of a connection that is not
  open. What is left is `DropKey`, which takes whatever the key holds; `lost`
  names it, so the theorem says that this race is the only one;
* `NothingMissedCorrect`, from `FedInv`: once the fan-out has copied its
  candidates, a subscription that is due the event has it, is among the
  candidates or matched, lost its entry, had a query that failed, or has a
  handler that has still to send the history of a scope with the topic. The
  step that copies the candidates needs `EntryInv`;
* `CountCoversCorrect`. With the types it is inductive as it stands, and each
  step is an account: a retain or a release moves one unit between the count,
  the retains and releases to come, and the holders. The lemma `DifferAt`
  gives the size of a set that changes in one element; the clean-up of a
  connection, which changes many at once, is an account of a disjoint union.

`RelayClientProofs` proves, for every finite set of channels, every capacity,
limit, skew and budget that satisfies `RelayClientAssumption`. The task's memory
has three views that few actions touch at once (`SameSubs`, `SameIds`,
`SameFrames`); what each operation does to each view is a lemma, stated once:

* `TypeCorrect`, from `TypeInv`, which gives the shape of every command, frame
  and message; the bounds of the id sets come from `RecentInv` and those of the
  frame numbers from `SentInv`;
* `RepeatsFarApart`, from `RecentInv`. The property is not inductive: it needs
  that the last events handed over, as many as a generation holds, are all in
  one of the two generations, and that the most recent of them, as many as the
  current generation has ids, are in the current one. The rotation of the
  generations is the step that needs the second part (`RecentHanded`);
* `FramesAreAccounted` and `FramesKeepOrder`, from `LineInv` with `SentInv` (an
  OK names a frame the relay has answered, and frames are numbered as issued).
  Frames in flight and frames waiting form one line. `Moves` says of a step
  that it keeps the order of the line, loses no more unanswered frames than it
  counts, and moves only refused ones out of turn; the lemmas
  `ParkedMoves`, `NewestMoves`, `DrainMoves`, `AcknowledgeMoves` and
  `RejectedMoves` show it of each operation on the buffers. `FrameCases` sorts
  every step of the system into one that leaves the commands alone, one that
  takes a frame from the command channel, and one that issues a frame;
* `ActiveSubscriptionsServed`, from `ServedInv`. Of the socket the subscriptions
  see the REQs on their way or waiting for their history (`Asks`), the events
  that arrive (`Arriving`) and the subscriptions a CLOSED names (`Refusals`).
  `SubCases` sorts every step into one of a few kinds by what it does to these
  and to the cursors (`SubStep`); the relay's are its own: a REQ is registered
  (`ReqRegistered`), a history is sent in full, in part or not at all
  (`HistorySent`), a CLOSE is served, a REQ refused. The invariants below are
  proved over the kinds. `ServedInv` is stronger than the property in one point,
  which makes it inductive: during the drains after a reconnect the phase is no
  excuse, and a subscription is then already asked for, parked, or known to be
  repaired by the loss of the socket (`Repairing`);
* `NoEventSlipsBy`, from `ReplayInv`, which adds to `ServedInv`:
  * `NewestInv` and `ClockInv`: no cursor or REQ is ahead of the time, and no
    floor or waiting subscribe of a channel is ahead of where the harness would
    subscribe next (`Begin`); the waiting subscribes of a channel are in order
    of their start. Starts may be in the past, so "a fresh floor is now" is no
    longer true and these take its place;
  * `ReachInv`: a wanted event that the cursor still reaches is `Awaited`: asked
    for, arriving, dropped, left out by the relay, or its subscription is to be
    asked for again. A fresh event is, because its subscription is tended
    (`ServedInv`) and no REQ on its way is ahead of the time;
  * `SettledInv`: an event that the cursor has passed, or will pass by an event
    that is arriving or by a REQ that leaves it out (`Overtaken`), is `Settled`:
    asked for, arriving, dropped, cut, left out by the relay, or older than
    anything the harness subscribed to. The property alone is not inductive:
    when a younger event moves the cursor, it says nothing of how the older ones
    come. The last disjunct (`Past`) is there because a subscribe after an
    unsubscribe starts at a new floor, and must hold of the subscribes that still
    wait in the command channel.

  An event leaves `unsent` only when a replay puts it on the wire
  (`UnsentMoves`), so that the exception never ends with the event forgotten.

Only model-checked:

* the liveness properties `WorkIsTaken`, `ApprovedIsDecided`, `CatchesUp` and
  `TopicsServed`: fairness is out of the provers' reach;
* `BreakerPacesRespawns`, whose sum over a window is defined by a fold that the
  provers cannot unfold for every window.

## Findings

The four violated runs above; `PROJECT.json` quotes the comment each of them
disagrees with.

One more, seen in `EventQueue` and not stated as a run: `push` and
`enforce_channel_cap` drop the head of a queue for an arrival, "the globally
oldest" by the comment at `buzz-acp/src/queue.rs:339` and "drop oldest in this
partition" at 313; after a batch that `flush_next` sorted by `created_at` was requeued, the
head need not be the event received first.

`ARCHITECTURE.md:325` also gives another number than the relay: it says that a
history has at most 500 events per filter, and the code allows 1000.

Other places where the model shows the code doing less than a comment says;
properties name them as exceptions, and `PROJECT.json` lists them as hazards:

* `buzz-deletion/src/lib.rs:1293` says of the listing after the drain that "no
  tenant key can appear after the freeze". A remote write whose caller lost its
  lease was sent already and may land after it (`strays`). The final
  verification finds it if it lands before that.
* `buzz-acp/src/relay.rs:3143`: `drain_post_reconnect` reports `Failed` and its
  callers go on as if it had succeeded (`forgotten`). The socket is usually dead
  then, and its loss repairs it.
* `buzz-acp/src/relay.rs:1384`: `clear_channel_state` "prevents stale replay on
  re-subscribe" by clearing every cursor of the channel, the one of dropped
  events included. An EVENT of the channel that is still on the wire then sets
  `last_seen` again, and a later subscribe asks from that event on and not from
  the start it was given, so what was dropped before it is not replayed
  (`DropsForgotten`).
* `buzz-relay/src/handlers/close.rs:15`: a CLOSE runs in the receive loop and a
  REQ in a task, so a CLOSE may be acknowledged before the REQ it follows
  registers; a clean-up may be overtaken in the same way. The topic count stays
  right (`CountCovers`), the late registration stays too.
* `buzz-relay/src/subscription.rs:311`: an eviction that lists a subscription
  and finds it replaced releases a topic for it a second time (`stray`).
* `buzz-relay/src/handlers/req.rs:395-401`: a history query that fails is
  answered with EOSE, as an empty history is; and a history of more than 1000
  events is answered with the newest of them (971-974). The harness asks by its
  cursors and not page by page, so its cursor passes what was left out (`short`,
  `unsent`).
* An event that another node publishes between this node's history query and
  the moment its SUBSCRIBE takes effect is in neither (`NothingMissed` leaves
  such events out).

## Plan

1. Done: `EventQueue`, `AgentPool` and their theorems; `RelayClient`,
   `RelaySubscriptions`, `CommunityDeletion` with `DeletionContract`.
2. Proofs. Done: every safety property of `EventQueue`; the types, invariants and
   refinement of `CommunityDeletion`; the four invariants of
   `RelaySubscriptions`; every safety property of `RelayClient`.
3. `PairRelay` (budgets, reservations, expiry) and connection backpressure.
4. `Harness`: the composition of queue and pool through `dispatch_pending` and
   `handle_prompt_result`, with an abstract specification of what the harness
   promises for one scope (turns one at a time, each accepted event settled once
   or shed), shown to be implemented.
5. The steer and cancel hand-shake of the ACP client, the permission broker.
6. Relay mesh membership, workflow runs.

Not modelled: prompt formatting, configuration, the contents of observer frames,
typing indicators, database contents, cryptography, user interfaces. They keep no
state whose order matters to the properties above, or belong to another system.
