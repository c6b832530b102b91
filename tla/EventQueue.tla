----------------------------- MODULE EventQueue -----------------------------
(***************************************************************************)
(* The event queue of the agent harness (crates/buzz-acp/src/queue.rs)     *)
(* together with what its only client, the harness main loop, does to it.  *)
(*                                                                         *)
(* Events wait per session scope; a scope has at most one turn in flight.  *)
(* A flush hands one scope's oldest events to a turn; the turn's result    *)
(* settles them, or puts them back with a retry throttle, or sets them     *)
(* aside as carry-over of an interrupted turn.  An event steered into a    *)
(* running turn is withheld from the queue until the steer is              *)
(* acknowledged.  Queue depths are capped per scope and per channel.       *)
(*                                                                         *)
(* An event is the number of its arrival: received_at grows with it.       *)
(* Instants are kept as the time that remains until them, so that a        *)
(* deadline has passed when it is 0.  A map without a key is a function    *)
(* whose value there is the empty sequence, 0 or None.                     *)
(*                                                                         *)
(* Every action below is one call of the single-threaded main loop, with   *)
(* all the queue operations that call makes.                               *)
(***************************************************************************)
EXTENDS Integers, Sequences, FiniteSets

CONSTANTS
    Scope,           \* session scopes: a channel's conversation, or one of its threads
    Channel,
    ChannelOf,       \* SessionScope::channel_id
    MaxEvents,       \* bound on the events that arrive
    CreatedAt,       \* the author's created_at, in seconds: need not follow arrival
    MaxPerScope,     \* MAX_PENDING_PER_SCOPE
    MaxPerChannel,   \* MAX_PENDING_PER_CHANNEL
    MaxBatch,        \* MAX_BATCH_EVENTS
    MaxRetries,      \* MAX_RETRIES
    BaseDelay,       \* BASE_RETRY_DELAY_SECS, in ticks
    MaxDelay,        \* MAX_RETRY_DELAY_SECS, in ticks
    TurnDeadline,    \* in_flight_deadline, in ticks
    DedupMode,       \* "queue" or "drop"
    LateTurns        \* may a turn outlive its in-flight deadline?

Event == 1..MaxEvents
Reason == {"none", "steer", "interrupt"}
NoDeadline == -1

ASSUME ConstantsAssumption ==
    /\ IsFiniteSet(Scope)
    /\ ChannelOf \in [Scope -> Channel]
    /\ MaxEvents \in Nat
    /\ CreatedAt \in [Event -> Nat]
    /\ MaxPerScope \in Nat \ {0}
    /\ MaxPerChannel \in Nat \ {0}
    /\ MaxBatch \in Nat \ {0}
    /\ MaxRetries \in Nat
    /\ BaseDelay \in Nat \ {0}
    /\ MaxDelay \in Nat \ {0}
    /\ TurnDeadline \in Nat \ {0}
    /\ DedupMode \in {"queue", "drop"}
    /\ LateTurns \in BOOLEAN

VARIABLES
    queues,        \* queues: pending events of each scope, in dispatch order
    inFlight,      \* in_flight_scopes
    deadline,      \* in_flight_deadlines
    retryAfter,    \* retry_after
    retryCount,    \* retry_counts
    cancelled,     \* cancelled_batches
    cancelReason,  \* cancel_reasons
    withheld,      \* withheld_native_steer
    held,          \* batches dispatch_pending has flushed and found no agent for
    turns,         \* batches whose turn is running
    steers,        \* <<scope, event>>: native steers not acknowledged yet
    removed,       \* removed_channels
    arrived,       \* how many events have arrived
    fate           \* history: what became of each event

queueVars == <<queues, inFlight, deadline, retryAfter, retryCount,
               cancelled, cancelReason, withheld>>
vars == <<queues, inFlight, deadline, retryAfter, retryCount, cancelled,
          cancelReason, withheld, held, turns, steers, removed, arrived, fate>>

Batch == [scope : Scope, events : Seq(Event), cancelled : Seq(Event),
          reason : Reason]

(* An event is "open" from its acceptance until the harness is done with    *)
(* it.  "context_lost" is the end of an interrupted turn's event whose      *)
(* merged turn failed: requeue restores a batch's events only.              *)
Fate == {"unseen", "open", "rejected", "delivered", "steered", "dead_letter",
         "discarded", "drained", "context_lost"}

Elems(seq) == {seq[i] : i \in DOMAIN seq}
BatchEvents(b) == Elems(b.events) \cup Elems(b.cancelled)

ScopesOf(c) == {s \in Scope : ChannelOf[s] = c}

-----------------------------------------------------------------------------
(* Operators on the pending queues. *)

ChannelEventTotal(qs, c) ==
    Cardinality(UNION {{s} \X DOMAIN qs[s] : s \in ScopesOf(c)})

(* The scope, of a set of scopes with pending events, whose head arrived first. *)
OldestHead(qs, ready) ==
    CHOOSE s \in ready : \A t \in ready : Head(qs[s]) <= Head(qs[t])

EvictOldestHead(qs, c) ==
    LET victim == OldestHead(qs, {s \in ScopesOf(c) : qs[s] # <<>>})
    IN  [qs EXCEPT ![victim] = Tail(@)]

(* The loop of enforce_channel_cap: one eviction per event over the cap. *)
Evictions(qs, c, n) ==
    LET run[i \in 0..n] == IF i = 0 THEN qs ELSE EvictOldestHead(run[i - 1], c)
    IN  run[n]

EnforceChannelCap(qs, c) ==
    LET excess == ChannelEventTotal(qs, c) - MaxPerChannel
    IN  IF excess > 0 THEN Evictions(qs, c, excess) ELSE qs

(* push: the oldest event of a full scope makes room. *)
PushBack(qs, s, e) ==
    LET kept == IF Len(qs[s]) >= MaxPerScope THEN Tail(qs[s]) ELSE qs[s]
    IN  EnforceChannelCap([qs EXCEPT ![s] = Append(kept, e)], ChannelOf[s])

(* Faulty variants of PushFront: the channel cap is forgotten; the trim    *)
(* leaves one event too few.                                               *)
PushFrontUncapped(qs, s, evs) ==
    LET all == evs \o qs[s]
    IN  [qs EXCEPT ![s] = IF Len(all) > MaxPerScope THEN SubSeq(all, 1, MaxPerScope) ELSE all]

PushFrontShort(qs, s, evs) ==
    LET all == evs \o qs[s]
    IN  [qs EXCEPT ![s] = IF Len(all) >= MaxPerScope THEN SubSeq(all, 1, MaxPerScope - 1)
                          ELSE all]

(* What requeue, requeue_preserve_timestamps, release_native_steer and     *)
(* recover_withheld_for_expired_scope share: the events go to the front in *)
(* their order, the scope's newest events make room, then the channel cap. *)
PushFront(qs, s, evs) ==
    LET all == evs \o qs[s]
        kept == IF Len(all) > MaxPerScope THEN SubSeq(all, 1, MaxPerScope) ELSE all
    IN  EnforceChannelCap([qs EXCEPT ![s] = kept], ChannelOf[s])

(* A table without event e, which is in it once or not at all. *)
Without(seq, e) ==
    IF e \in Elems(seq)
    THEN LET i == CHOOSE j \in DOMAIN seq : seq[j] = e
         IN  SubSeq(seq, 1, i - 1) \o SubSeq(seq, i + 1, Len(seq))
    ELSE seq

(* The stable sort of a batch by created_at, as the set of its one result. *)
SortedByCreation(seq) ==
    LET Before(i, j) == \/ CreatedAt[seq[i]] < CreatedAt[seq[j]]
                        \/ CreatedAt[seq[i]] = CreatedAt[seq[j]] /\ i < j
    IN  {[i \in DOMAIN seq |-> seq[p[i]]] :
            p \in {f \in [DOMAIN seq -> DOMAIN seq] :
                      \A i, j \in DOMAIN seq : i < j => Before(f[i], f[j])}}

-----------------------------------------------------------------------------
Init ==
    /\ queues = [s \in Scope |-> <<>>]
    /\ inFlight = {}
    /\ deadline = [s \in Scope |-> NoDeadline]
    /\ retryAfter = [s \in Scope |-> 0]
    /\ retryCount = [s \in Scope |-> 0]
    /\ cancelled = [s \in Scope |-> <<>>]
    /\ cancelReason = [s \in Scope |-> "none"]
    /\ withheld = [s \in Scope |-> <<>>]
    /\ held = {}
    /\ turns = {}
    /\ steers = {}
    /\ removed = {}
    /\ arrived = 0
    /\ fate = [e \in Event |-> "unseen"]

Settle(evs, f) == [e \in Event |-> IF e \in evs THEN f ELSE fate[e]]

-----------------------------------------------------------------------------
(* Arrival: NormalListenerIngress::push, then steer_or_interrupt. *)

Arrive == /\ held = {}
          /\ arrived < MaxEvents
          /\ arrived' = arrived + 1

(* Drop mode refuses events for a scope with a turn in flight. *)
Refused(s) == DedupMode = "drop" /\ s \in inFlight

Push(s) ==
    /\ Arrive
    /\ ~Refused(s)
    /\ queues' = PushBack(queues, s, arrived')
    /\ fate' = Settle({arrived'}, "open")
    /\ UNCHANGED <<inFlight, deadline, retryAfter, retryCount, cancelled,
                   cancelReason, withheld, held, turns, steers, removed>>

PushRefused(s) ==
    /\ Arrive
    /\ Refused(s)
    /\ fate' = Settle({arrived'}, "rejected")
    /\ UNCHANGED <<queueVars, held, turns, steers, removed>>

(* A faulty variant: the event stays in the queue. *)
WithholdCopy(qs, s, e) ==
    /\ queues' = qs
    /\ withheld' = [withheld EXCEPT ![s] = Append(@, e)]

(* mark_native_steer_pending: from the queue to the side table. *)
Withhold(qs, s, e) ==
    /\ queues' = [qs EXCEPT ![s] = Without(@, e)]
    /\ withheld' = [withheld EXCEPT ![s] = Append(@, e)]

(* The event is pushed, the running turn accepts it as a native steer, and *)
(* it is withheld, all in one call.                                        *)
SteerPush(s) ==
    /\ Arrive
    /\ ~Refused(s)
    /\ s \in inFlight
    /\ \E b \in turns : b.scope = s
    /\ Withhold(PushBack(queues, s, arrived'), s, arrived')
    /\ steers' = steers \cup {<<s, arrived'>>}
    /\ fate' = Settle({arrived'}, "open")
    /\ UNCHANGED <<inFlight, deadline, retryAfter, retryCount, cancelled,
                   cancelReason, held, turns, removed>>

-----------------------------------------------------------------------------
(* Dispatch: the loop of dispatch_pending around flush_next. *)

Overdue(s) == deadline[s] = 0

(* The expiry block at the head of flush_next and of has_flushable_work,   *)
(* for one overdue scope.  Flush is disabled while a scope is overdue.     *)
ExpireInFlight(s) ==
    /\ Overdue(s)
    /\ inFlight' = inFlight \ {s}
    /\ deadline' = [deadline EXCEPT ![s] = NoDeadline]
    /\ queues' = IF withheld[s] = <<>> THEN queues
                 ELSE PushFront(queues, s, withheld[s])
    /\ withheld' = [withheld EXCEPT ![s] = <<>>]
    /\ UNCHANGED <<retryAfter, retryCount, cancelled, cancelReason, held,
                   turns, steers, removed, arrived, fate>>

(* A faulty variant: a scope with a turn in flight is ready too. *)
ReadyWhileInFlight == {s \in Scope : queues[s] # <<>> /\ retryAfter[s] = 0}

Ready == {s \in Scope : queues[s] # <<>> /\ s \notin inFlight /\ retryAfter[s] = 0}

(* A flushed batch goes to an agent, or is held back: no agent is idle, or *)
(* the one that owns the scope's session is busy.                          *)
HandOver(b) ==
    \/ turns' = turns \cup {b} /\ UNCHANGED held
    \/ held' = held \cup {b} /\ UNCHANGED turns

(* A faulty variant: the reason outlives the carry-over. *)
TakeInFlightKeepReason(s) ==
    /\ inFlight' = inFlight \cup {s}
    /\ deadline' = [deadline EXCEPT ![s] = TurnDeadline]
    /\ cancelled' = [cancelled EXCEPT ![s] = <<>>]
    /\ UNCHANGED cancelReason

TakeInFlight(s) ==
    /\ inFlight' = inFlight \cup {s}
    /\ deadline' = [deadline EXCEPT ![s] = TurnDeadline]
    /\ cancelled' = [cancelled EXCEPT ![s] = <<>>]
    /\ cancelReason' = [cancelReason EXCEPT ![s] = "none"]

(* flush_next with pending work: the ready scope with the oldest head.     *)
Flush ==
    /\ ~\E s \in Scope : Overdue(s)
    /\ Ready # {}
    /\ LET s == OldestHead(queues, Ready)
           n == IF Len(queues[s]) < MaxBatch THEN Len(queues[s]) ELSE MaxBatch
       IN  /\ \E evs \in SortedByCreation(SubSeq(queues[s], 1, n)) :
                 HandOver([scope |-> s, events |-> evs,
                           cancelled |-> cancelled[s],
                           reason |-> IF cancelled[s] = <<>> THEN "none"
                                      ELSE cancelReason[s]])
           /\ queues' = [queues EXCEPT ![s] = SubSeq(@, n + 1, Len(@))]
           /\ TakeInFlight(s)
    /\ UNCHANGED <<retryAfter, retryCount, withheld, steers, removed, arrived, fate>>

(* flush_next's fallback: carry-over is dispatched by itself only when no  *)
(* scope has pending work that is ready.                                   *)
FlushCancelled(s) ==
    /\ ~\E t \in Scope : Overdue(t)
    /\ Ready = {}
    /\ cancelled[s] # <<>>
    /\ s \notin inFlight
    /\ HandOver([scope |-> s, events |-> cancelled[s], cancelled |-> <<>>,
                 reason |-> cancelReason[s]])
    /\ TakeInFlight(s)
    /\ UNCHANGED <<queues, retryAfter, retryCount, withheld, steers, removed,
                   arrived, fate>>

(* mark_complete, where ra and rc are the retry tables it finds. *)
MarkComplete(s, ra, rc) ==
    /\ inFlight' = inFlight \ {s}
    /\ deadline' = [deadline EXCEPT ![s] = NoDeadline]
    /\ retryAfter' = ra
    /\ retryCount' = [rc EXCEPT ![s] = IF ra[s] > 0 THEN @ ELSE 0]

(* A batch held back returns whole: requeue_preserve_timestamps, then      *)
(* mark_complete.                                                          *)
ReturnHeld(b) ==
    LET s == b.scope IN
    /\ b \in held
    /\ held' = held \ {b}
    /\ queues' = PushFront(queues, s, b.events)
    /\ cancelled' = [cancelled EXCEPT ![s] = b.cancelled \o @]
    /\ cancelReason' = [cancelReason EXCEPT ![s] =
                           IF b.cancelled # <<>> /\ @ = "none" THEN b.reason ELSE @]
    /\ MarkComplete(s, retryAfter, retryCount)
    /\ UNCHANGED <<withheld, turns, steers, removed, arrived, fate>>

-----------------------------------------------------------------------------
(* Turn results: handle_prompt_result and recover_panicked_agent. *)

Returns(b) == held = {} /\ b \in turns /\ turns' = turns \ {b}

(* A failed turn hands its batch back only in queue mode, and the main     *)
(* loop takes it back only if the agent is still in the channel.           *)
BatchComesBack(b) == DedupMode = "queue" /\ ChannelOf[b.scope] \notin removed

TurnSucceeded(b) ==
    /\ Returns(b)
    /\ MarkComplete(b.scope, retryAfter, retryCount)
    /\ fate' = Settle(BatchEvents(b), "delivered")
    /\ UNCHANGED <<queues, cancelled, cancelReason, withheld, held, steers,
                   removed, arrived>>

(* The owner's !cancel or !rotate, drop mode, or a removed channel.        *)
TurnDiscarded(b) ==
    /\ Returns(b)
    /\ MarkComplete(b.scope, retryAfter, retryCount)
    /\ fate' = Settle(BatchEvents(b), "discarded")
    /\ UNCHANGED <<queues, cancelled, cancelReason, withheld, held, steers,
                   removed, arrived>>

(* Hard-cap timeout without activity, missing model, failed authentication. *)
TurnDeadLettered(b) ==
    /\ Returns(b)
    /\ BatchComesBack(b)
    /\ MarkComplete(b.scope, retryAfter, retryCount)
    /\ fate' = Settle(BatchEvents(b), "dead_letter")
    /\ UNCHANGED <<queues, cancelled, cancelReason, withheld, held, steers,
                   removed, arrived>>

Backoff(attempt) ==
    LET delay == BaseDelay * 2 ^ (IF attempt - 1 < 6 THEN attempt - 1 ELSE 6)
    IN  IF delay < MaxDelay THEN delay ELSE MaxDelay

(* A faulty variant: one retry too many. *)
ExhaustedLate(attempt) == attempt > MaxRetries + 1

Exhausted(attempt) == attempt > MaxRetries

(* A retryable failure or a panic: requeue, then mark_complete. *)
TurnFailed(b) ==
    LET s == b.scope
        attempt == retryCount[s] + 1
    IN
    /\ Returns(b)
    /\ BatchComesBack(b)
    /\ \/ /\ Exhausted(attempt)
          /\ MarkComplete(s, [retryAfter EXCEPT ![s] = 0], [retryCount EXCEPT ![s] = 0])
          /\ fate' = Settle(BatchEvents(b), "dead_letter")
          /\ UNCHANGED queues
       \/ /\ ~Exhausted(attempt)
          /\ queues' = PushFront(queues, s, b.events)
          /\ MarkComplete(s, [retryAfter EXCEPT ![s] = Backoff(attempt)],
                             [retryCount EXCEPT ![s] = attempt])
          /\ fate' = Settle(Elems(b.cancelled), "context_lost")
    /\ UNCHANGED <<cancelled, cancelReason, withheld, held, steers, removed, arrived>>

(* A turn cancelled by a steer or an interrupt: requeue_as_cancelled, then *)
(* mark_complete.                                                          *)
TurnCancelled(b, reason) ==
    LET s == b.scope IN
    /\ Returns(b)
    /\ BatchComesBack(b)
    /\ cancelled' = [cancelled EXCEPT ![s] = @ \o b.cancelled \o b.events]
    /\ cancelReason' = [cancelReason EXCEPT ![s] = reason]
    /\ MarkComplete(s, retryAfter, retryCount)
    /\ UNCHANGED <<queues, withheld, held, steers, removed, arrived, fate>>

-----------------------------------------------------------------------------
(* The acknowledgement of a native steer: the SteerAck arm of the main loop. *)

Acknowledge(s, e) == held = {} /\ <<s, e>> \in steers /\ steers' = steers \ {<<s, e>>}

(* A faulty variant: a late acknowledgement brings a deadline back. *)
ExtendAnyDeadline(s) == deadline' = [deadline EXCEPT ![s] = TurnDeadline]

(* Only a scope that is in flight gets more time: a late acknowledgement   *)
(* does not bring a deadline back.                                         *)
ExtendInFlightDeadline(s) ==
    deadline' = [deadline EXCEPT ![s] =
                   IF @ # NoDeadline /\ TurnDeadline > @ THEN TurnDeadline ELSE @]

(* The turn took the event: a fresh turn budget, and remove_event. *)
SteerDelivered(s, e) ==
    /\ Acknowledge(s, e)
    /\ ExtendInFlightDeadline(s)
    /\ withheld' = [withheld EXCEPT ![s] = Without(@, e)]
    /\ queues' = [queues EXCEPT ![s] = Without(@, e)]
    /\ fate' = Settle({e}, "steered")
    /\ UNCHANGED <<inFlight, retryAfter, retryCount, cancelled, cancelReason,
                   held, turns, removed, arrived>>

(* A faulty variant: the event is left in the side table. *)
SteerReleaseForgotten(s, e) ==
    /\ Acknowledge(s, e)
    /\ UNCHANGED <<queueVars, held, turns, removed, arrived, fate>>

(* An error, or a turn that ended first: release_native_steer. *)
SteerReleased(s, e) ==
    /\ Acknowledge(s, e)
    /\ withheld' = [withheld EXCEPT ![s] = Without(@, e)]
    /\ queues' = IF e \in Elems(withheld[s]) THEN PushFront(queues, s, <<e>>)
                 ELSE queues
    /\ UNCHANGED <<inFlight, deadline, retryAfter, retryCount, cancelled,
                   cancelReason, held, turns, removed, arrived, fate>>

-----------------------------------------------------------------------------
(* Membership, maintenance and time. *)

Pending(s) == Elems(queues[s]) \cup Elems(cancelled[s]) \cup Elems(withheld[s])

(* A faulty variant: one scope of the channel instead of all of them. *)
ClearedInOneScope(f, c, v) ==
    [s \in Scope |-> IF ChannelOf[s] = c /\ s = CHOOSE t \in ScopesOf(c) : TRUE
                     THEN v ELSE f[s]]

(* A table without the scopes of channel c, where v stands for no entry. *)
Cleared(f, c, v) == [s \in Scope |-> IF ChannelOf[s] = c THEN v ELSE f[s]]

(* The agent is removed from channel c: drain_channel. *)
Drain(c) ==
    /\ held = {}
    /\ removed' = removed \cup {c}
    /\ queues' = Cleared(queues, c, <<>>)
    /\ retryAfter' = Cleared(retryAfter, c, 0)
    /\ retryCount' = Cleared(retryCount, c, 0)
    /\ cancelled' = Cleared(cancelled, c, <<>>)
    /\ cancelReason' = Cleared(cancelReason, c, "none")
    /\ withheld' = Cleared(withheld, c, <<>>)
    /\ fate' = Settle(UNION {Pending(s) : s \in ScopesOf(c)}, "drained")
    /\ UNCHANGED <<inFlight, deadline, held, turns, steers, arrived>>

Rejoin(c) ==
    /\ held = {}
    /\ c \in removed
    /\ removed' = removed \ {c}
    /\ UNCHANGED <<queueVars, held, turns, steers, arrived, fate>>

CompactExpiredState ==
    /\ held = {}
    /\ retryCount' = [s \in Scope |->
            IF retryAfter[s] > 0 \/ queues[s] # <<>> \/ s \in inFlight
            THEN retryCount[s] ELSE 0]
    /\ UNCHANGED <<queues, inFlight, deadline, retryAfter, cancelled, cancelReason,
                   withheld, held, turns, steers, removed, arrived, fate>>

(* Time passes.  Without LateTurns every turn returns before its in-flight *)
(* deadline, which is what the buffer over the turn's hard cap is for.     *)
Tick ==
    LET Sooner(t) == IF t > 0 THEN t - 1 ELSE t IN
    /\ held = {}
    /\ LateTurns \/ \A b \in turns : deadline[b.scope] > 1
    /\ deadline' = [s \in Scope |-> Sooner(deadline[s])]
    /\ retryAfter' = [s \in Scope |-> Sooner(retryAfter[s])]
    /\ UNCHANGED <<queues, inFlight, retryCount, cancelled, cancelReason, withheld,
                   held, turns, steers, removed, arrived, fate>>

-----------------------------------------------------------------------------
TurnReturns(b) ==
    \/ TurnSucceeded(b)
    \/ TurnDiscarded(b)
    \/ TurnDeadLettered(b)
    \/ TurnFailed(b)
    \/ \E reason \in {"steer", "interrupt"} : TurnCancelled(b, reason)

Next ==
    \/ \E s \in Scope : \/ Push(s) \/ PushRefused(s) \/ SteerPush(s)
                        \/ ExpireInFlight(s) \/ FlushCancelled(s)
    \/ Flush
    \/ \E b \in held : ReturnHeld(b)
    \/ \E b \in turns : TurnReturns(b)
    \/ \E a \in steers : SteerDelivered(a[1], a[2]) \/ SteerReleased(a[1], a[2])
    \/ \E c \in Channel : Drain(c) \/ Rejoin(c)
    \/ CompactExpiredState
    \/ Tick

Spec == Init /\ [][Next]_vars

-----------------------------------------------------------------------------
(* Properties. *)

(* Every table of the queue has its shape; the retry counter never exceeds *)
(* the retry budget.                                                       *)
TypeOK ==
    /\ queues \in [Scope -> Seq(Event)]
    /\ inFlight \subseteq Scope
    /\ deadline \in [Scope -> {NoDeadline} \cup 0..TurnDeadline]
    /\ retryAfter \in [Scope -> 0..MaxDelay]
    /\ retryCount \in [Scope -> 0..MaxRetries]
    /\ cancelled \in [Scope -> Seq(Event)]
    /\ cancelReason \in [Scope -> Reason]
    /\ withheld \in [Scope -> Seq(Event)]
    /\ held \subseteq Batch
    /\ turns \subseteq Batch
    /\ steers \subseteq Scope \X Event
    /\ removed \subseteq Channel
    /\ arrived \in 0..MaxEvents
    /\ fate \in [Event -> Fate]

(* Where a copy of event e is kept: in a table of the queue or in a batch. *)
Copies(e) ==
    LET table == [queues |-> queues, cancelled |-> cancelled, withheld |-> withheld]
        InTable(t, s, i) == i \in DOMAIN table[t][s] /\ table[t][s][i] = e
        InBatch(b, part, i) == i \in DOMAIN b[part] /\ b[part][i] = e
    IN  {k \in (DOMAIN table) \X Scope \X Event : InTable(k[1], k[2], k[3])}
        \cup {k \in {"events", "cancelled"} \X (held \cup turns) \X Event :
                  InBatch(k[2], k[1], k[3])}

Kept(e) == Copies(e) # {}

(* The events of scope s the harness still has: pending, or in a batch. *)
EventsOf(s) ==
    Pending(s) \cup UNION {BatchEvents(b) : b \in {x \in held \cup turns : x.scope = s}}

(* No event is ever in two places, so none is prompted by two turns at     *)
(* once: flush, requeue, cancel carry-over, steer withhold, expiry         *)
(* recovery and their late acknowledgements each move it.                  *)
AtMostOneCopy == \A e \in Event : Cardinality(Copies(e)) <= 1

(* An event that was delivered, dead-lettered, discarded, drained or       *)
(* refused is kept nowhere: no late requeue, release or expiry brings it   *)
(* back.  (A steered event may still be in a later turn, see README.)      *)
SettledStaysSettled ==
    \A e \in Event : fate[e] \notin {"open", "steered"} => ~Kept(e)

(* The depth caps that push, requeue, release and expiry recovery enforce  *)
(* hold between calls, across all scopes of a channel.                     *)
CapsHold ==
    /\ \A s \in Scope : Len(queues[s]) <= MaxPerScope
    /\ \A c \in Channel : ChannelEventTotal(queues, c) <= MaxPerChannel

(* A scope is in flight exactly while it has a deadline: drain_channel,    *)
(* late results and late steer acknowledgements never leave a scope that   *)
(* is in flight without the backstop that frees it, nor a stray deadline.  *)
InFlightHasDeadline == inFlight = {s \in Scope : deadline[s] # NoDeadline}

(* Every running or held batch owns the in-flight marker of its scope and  *)
(* no two share one, provided turns meet their deadline: this is what      *)
(* serialises the turns of a conversation.                                 *)
OneTurnPerScope ==
    /\ \A b1, b2 \in turns \cup held : b1.scope = b2.scope => b1 = b2
    /\ inFlight = {b.scope : b \in turns \cup held}

(* Carry-over of an interrupted turn always has the reason that frames the *)
(* merged prompt, and no reason outlives its carry-over.                   *)
CarryoverHasReason ==
    \A s \in Scope : cancelled[s] = <<>> <=> cancelReason[s] = "none"

(* Every withheld event has an acknowledgement on its way: a turn that     *)
(* completes, is cancelled or fails never strands the event in the side    *)
(* table, which flush_next does not read.                                  *)
WithheldAwaitsAck ==
    \A s \in Scope : \A e \in Elems(withheld[s]) : <<s, e>> \in steers

(* A faulty variant: only the pending queues count. *)
HasQueuedWork == \E s \in Scope \ inFlight : queues[s] # <<>>

(* has_undispatched_work, the gate of the idle pool's sleep. *)
HasUndispatchedWork ==
    \E s \in Scope \ inFlight :
        queues[s] # <<>> \/ cancelled[s] # <<>> \/ withheld[s] # <<>>

(* A pool that sleeps because nothing is in flight, no task runs and no    *)
(* work is undispatched leaves no event behind, throttled, interrupted or  *)
(* withheld.                                                               *)
SleepStrandsNothing ==
    inFlight = {} /\ turns = {} /\ ~HasUndispatchedWork => \A e \in Event : ~Kept(e)

(* The scope's queue, or its channel, is at its cap. *)
Full(qs, s) ==
    \/ Len(qs[s]) = MaxPerScope
    \/ ChannelEventTotal(qs, ChannelOf[s]) = MaxPerChannel

(* An unsettled event disappears only when its scope's queue, or its       *)
(* channel, is full: full after the step, or full when an event arrives    *)
(* (which may be withheld for a steer once it has displaced another).  The *)
(* caps are the one way the queue sheds work it was not told to drop,      *)
(* whatever requeues, releases and recoveries overlap.                     *)
ShedOnlyWhenFull ==
    [][\A s \in Scope : \A e \in EventsOf(s) :
          e \notin EventsOf(s)' /\ fate'[e] = fate[e] =>
              Full(queues, s)' \/ (arrived' # arrived /\ Full(queues, s))]_vars

=============================================================================
