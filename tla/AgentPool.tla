----------------------------- MODULE AgentPool ------------------------------
(***************************************************************************)
(* The agent pool of the harness (crates/buzz-acp/src/pool.rs, lib.rs):    *)
(* worker slots, the provider sessions each worker holds, the directory of *)
(* which worker owns a scope's session, bounded holds for a busy owner,    *)
(* the per-slot circuit breaker that paces respawns, and the life cycle of *)
(* a lazy pool, which starts with the first work and sleeps when idle.     *)
(*                                                                         *)
(* A worker that is checked out keeps its own session table, which the     *)
(* main loop cannot reach; the directory's generation tells on its return  *)
(* whether a session it brings back is still the scope's.                  *)
(*                                                                         *)
(* Pending work is abstracted to the set of scopes that have some.         *)
(* Instants are kept as the time that remains until them, or that has      *)
(* passed since them up to the point where it no longer matters.           *)
(***************************************************************************)
EXTENDS Integers, Functions

CONSTANTS
    NumAgents,      \* worker slots
    Scope,          \* session scopes
    Thread,         \* those that are threads; the others are conversations
    Channel,
    ChannelOf,
    HoldTimeout,    \* HOLD_BUSY_OWNER_TIMEOUT, in ticks
    Threshold,      \* CIRCUIT_BREAKER_THRESHOLD
    Window,         \* CIRCUIT_BREAKER_WINDOW, in ticks
    Cooldown,       \* CIRCUIT_BREAKER_COOLDOWN, in ticks
    Lazy,           \* lazy_pool, with an idle pool sleep bound
    WakeDelay,      \* retry_delay after a failed wake, in ticks
    MaxClaims       \* bound on the turns dispatched for scopes by one pool

Agent == 1..NumAgents
NoAgent == 0
Heartbeat == "heartbeat"
NoTask == "none"
NotHeld == -1
Closed == -1

ASSUME PoolAssumption ==
    /\ NumAgents \in Nat \ {0}
    /\ Thread \subseteq Scope
    /\ ChannelOf \in [Scope -> Channel]
    /\ Heartbeat \notin Scope /\ NoTask \notin Scope
    /\ HoldTimeout \in Nat \ {0}
    /\ Threshold \in Nat \ {0}
    /\ Window \in Nat \ {0}
    /\ Cooldown \in Nat \ {0}
    /\ Lazy \in BOOLEAN
    /\ WakeDelay \in Nat \ {0}
    /\ MaxClaims \in Nat

VARIABLES
    life,        \* PoolLifecycle and pool_ready: "listening", "waking", "ready"
                 \* or "failed"
    wakeIn,      \* PoolLifecycle::Failed::retry_at, as the time left
    state,       \* of a slot: its worker idle, starting a turn, prompting,
                 \* or done with its result sent; or the slot is empty
    task,        \* task_map: what a checked-out worker runs
    sessions,    \* SessionState::sessions, the scopes a worker has a session for
    gens,        \* SessionState::scope_owner_generations, 0 when absent
    owner,       \* session_owners
    nextGen,     \* next_scope_owner_generation
    heldFor,     \* held_since, as the time since then
    respawning,  \* SlotCircuit::respawn_in_flight
    crashes,     \* SlotCircuit::crash_times: how many crashes stay in the
                 \* window for 1, 2, ... ticks
    openFor,     \* SlotCircuit::open_until, as the time left
    control,     \* does TaskMeta still hold the turn's control_tx?
    fatal,       \* does the sent result call for a respawn?
    wanted,      \* scopes with pending work
    removed,     \* removed_channels
    exited,      \* the main loop has given up: every agent is dead
    revoked      \* history: scopes rotated, or removed, since a worker's session

lifeVars == <<life, wakeIn>>
slotVars == <<state, task, sessions, gens, control, fatal>>
circuitVars == <<respawning, crashes, openFor>>
vars == <<life, wakeIn, state, task, sessions, gens, owner, nextGen, heldFor, respawning,
          crashes, openFor, control, fatal, wanted, removed, exited, revoked>>

NoOwner == [agent |-> NoAgent, gen |-> 0]

Idle(a) == state[a] = "idle"
CheckedOut(a) == state[a] \in {"starting", "prompting", "returned"}
Running(s) == \E a \in Agent : CheckedOut(a) /\ task[a] = s

Init ==
    /\ life = IF Lazy THEN "listening" ELSE "ready"
    /\ wakeIn = 0
    /\ state \in [Agent -> {"idle", "empty"}]
    /\ IF Lazy THEN \A a \in Agent : state[a] = "empty"
               ELSE \E a \in Agent : Idle(a)
    /\ task = [a \in Agent |-> NoTask]
    /\ sessions = [a \in Agent |-> {}]
    /\ gens = [a \in Agent |-> [s \in Scope |-> 0]]
    /\ owner = [s \in Scope |-> NoOwner]
    /\ nextGen = 1
    /\ heldFor = [s \in Scope |-> NotHeld]
    /\ respawning = [a \in Agent |-> FALSE]
    /\ crashes = [a \in Agent |-> [w \in 1..Window |-> 0]]
    /\ openFor = [a \in Agent |-> Closed]
    /\ control = [a \in Agent |-> FALSE]
    /\ fatal = [a \in Agent |-> FALSE]
    /\ wanted = {}
    /\ removed = {}
    /\ exited = FALSE
    /\ revoked = [a \in Agent |-> {}]

-----------------------------------------------------------------------------
(* Claiming a worker: dispatch_pending and dispatch_heartbeat. *)

(* agent_owns_scope *)
Owns(a, s) ==
    owner[s].agent = a /\ gens[a][s] = owner[s].gen /\ s \in sessions[a]

(* should_hold_for_busy_owner, for a scope that may hold at all *)
ShouldHold(s) ==
    /\ s \in Thread
    /\ ~\E a \in Agent : Idle(a) /\ Owns(a, s)
    /\ owner[s].agent # NoAgent /\ CheckedOut(owner[s].agent)

(* A scope the queue can flush: pending work and no turn of its own. *)
Flushable(s) == ~exited /\ s \in wanted /\ ~Running(s)

(* try_claim: the idle owner, else the first idle slot. *)
ClaimFor(s) ==
    LET idle == {a \in Agent : Idle(a)}
        owners == {a \in idle : Owns(a, s)}
        from == IF owners # {} THEN owners ELSE idle
    IN  CHOOSE a \in from : \A b \in from : a <= b

(* hold_decision stamps a scope whose owner is busy. *)
Hold(s) ==
    /\ Flushable(s)
    /\ ShouldHold(s)
    /\ heldFor[s] = NotHeld
    /\ heldFor' = [heldFor EXCEPT ![s] = 0]
    /\ UNCHANGED <<lifeVars, slotVars, owner, nextGen, circuitVars, wanted, removed, exited,
                   revoked>>

(* A faulty variant: an expired hold is used up although no worker is idle. *)
UnholdExpired(s) ==
    /\ Flushable(s)
    /\ heldFor[s] = HoldTimeout
    /\ ~\E a \in Agent : Idle(a)
    /\ heldFor' = [heldFor EXCEPT ![s] = NotHeld]
    /\ UNCHANGED <<lifeVars, slotVars, owner, nextGen, circuitVars, wanted, removed,
                   exited, revoked>>

(* hold_decision forgets the stamp of a scope that need not wait any more, *)
(* and then no worker is idle.                                             *)
Unhold(s) ==
    /\ Flushable(s)
    /\ ~ShouldHold(s)
    /\ heldFor[s] # NotHeld
    /\ ~\E a \in Agent : Idle(a)
    /\ heldFor' = [heldFor EXCEPT ![s] = NotHeld]
    /\ UNCHANGED <<lifeVars, slotVars, owner, nextGen, circuitVars, wanted, removed, exited,
                   revoked>>

(* A worker takes the scope's work: clear_hold and record_scope_owner. *)
Claim(s) ==
    LET a == ClaimFor(s) IN
    /\ Flushable(s)
    /\ ~ShouldHold(s) \/ heldFor[s] >= HoldTimeout
    /\ \E b \in Agent : Idle(b)
    /\ nextGen <= MaxClaims
    /\ state' = [state EXCEPT ![a] = "starting"]
    /\ task' = [task EXCEPT ![a] = s]
    /\ control' = [control EXCEPT ![a] = TRUE]
    /\ owner' = [owner EXCEPT ![s] = [agent |-> a, gen |-> nextGen]]
    /\ gens' = [gens EXCEPT ![a][s] = nextGen]
    /\ nextGen' = nextGen + 1
    /\ heldFor' = [heldFor EXCEPT ![s] = NotHeld]
    /\ wanted' = wanted \ {s}
    /\ UNCHANGED <<lifeVars, sessions, fatal, circuitVars, removed, exited, revoked>>

(* dispatch_heartbeat: only when the queue has nothing for the idle worker. *)
ClaimHeartbeat ==
    /\ ~exited
    /\ ~\E s \in wanted : ~Running(s)
    /\ ~\E a \in Agent : CheckedOut(a) /\ task[a] = Heartbeat
    /\ \E a \in Agent :
          /\ Idle(a) /\ \A b \in Agent : Idle(b) => a <= b
          /\ state' = [state EXCEPT ![a] = "starting"]
          /\ task' = [task EXCEPT ![a] = Heartbeat]
    /\ UNCHANGED <<lifeVars, sessions, gens, control, fatal, owner, nextGen, heldFor,
                   circuitVars, wanted, removed, exited, revoked>>

-----------------------------------------------------------------------------
(* The turn itself, in its own task: run_prompt_task. *)

(* Dropping the sessions of the scopes in gone: SessionState::invalidate*. *)
Forget(a, gone) ==
    /\ sessions' = [sessions EXCEPT ![a] = @ \ gone]
    /\ gens' = [gens EXCEPT ![a] = [s \in Scope |-> IF s \in gone THEN 0 ELSE @[s]]]

(* A faulty variant: a heartbeat's session is kept like a scope's. *)
StartPromptAnyTask(a) ==
    /\ state[a] = "starting"
    /\ state' = [state EXCEPT ![a] = "prompting"]
    /\ sessions' = [sessions EXCEPT ![a] = @ \cup {task[a]}]
    /\ UNCHANGED <<lifeVars, task, gens, control, fatal, owner, nextGen, heldFor,
                   circuitVars, wanted, removed, exited, revoked>>

(* The scope's session is reused or created, and the prompt is sent. *)
StartPrompt(a) ==
    /\ state[a] = "starting"
    /\ state' = [state EXCEPT ![a] = "prompting"]
    /\ IF task[a] \in Scope \ sessions[a]
       THEN /\ sessions' = [sessions EXCEPT ![a] = @ \cup {task[a]}]
            /\ revoked' = [revoked EXCEPT ![a] = @ \ ({"rotated", "removed"} \X {task[a]})]
       ELSE UNCHANGED <<sessions, revoked>>
    /\ UNCHANGED <<lifeVars, task, gens, control, fatal, owner, nextGen, heldFor, circuitVars,
                   wanted, removed, exited>>

(* The turn ends and its result is on the way to the main loop.  It may    *)
(* have dropped its session, or all of them, as it does when it is         *)
(* cancelled or rotated; but a control signal that loses the biased select *)
(* to the prompt's own end, or comes after it, is read by nobody.          *)
SendResult(a) ==
    /\ state[a] \in {"starting", "prompting"}
    /\ state' = [state EXCEPT ![a] = "returned"]
    /\ \E gone \in {{}, {task[a]} \cap Scope, Scope} : Forget(a, gone)
    /\ \E poisoned \in BOOLEAN : fatal' = [fatal EXCEPT ![a] = poisoned]
    /\ UNCHANGED <<lifeVars, task, control, owner, nextGen, heldFor, circuitVars, wanted,
                   removed, exited, revoked>>

-----------------------------------------------------------------------------
(* A worker comes back, or does not. *)

(* n crashes that have just happened. *)
JustNow(n) == [w \in 1..Window |-> IF w = Window THEN n ELSE 0]

(* record_crash decides whether the empty slot of a is respawned, and the  *)
(* main loop exits when it is not and nothing else lives.                  *)
RecordCrash(a) ==
    LET count == SumFunction(crashes[a]) + 1
        Respawn == /\ respawning' = [respawning EXCEPT ![a] = TRUE]
                   /\ UNCHANGED exited
        Stay == /\ exited' = \A b \in Agent : state'[b] = "empty" /\ ~respawning[b]
                /\ UNCHANGED respawning
    IN
    \/ /\ openFor[a] = 0
       /\ crashes' = [crashes EXCEPT ![a] = JustNow(Threshold - 1)]
       /\ openFor' = [openFor EXCEPT ![a] = Closed]
       /\ Respawn
    \/ /\ openFor[a] > 0
       /\ Stay
       /\ UNCHANGED <<crashes, openFor>>
    \/ /\ openFor[a] = Closed
       /\ crashes' = [crashes EXCEPT ![a][Window] = @ + 1]
       /\ IF count >= Threshold
          THEN openFor' = [openFor EXCEPT ![a] = Cooldown] /\ Stay
          ELSE Respawn /\ UNCHANGED openFor

(* The worker is lost: its sessions die with its process. *)
LoseWorker(a) ==
    /\ state' = [state EXCEPT ![a] = "empty"]
    /\ sessions' = [sessions EXCEPT ![a] = {}]
    /\ gens' = [gens EXCEPT ![a] = [s \in Scope |-> 0]]
    /\ revoked' = [revoked EXCEPT ![a] = {}]
    /\ RecordCrash(a)

CheckIn(a) ==
    /\ task' = [task EXCEPT ![a] = NoTask]
    /\ control' = [control EXCEPT ![a] = FALSE]
    /\ fatal' = [fatal EXCEPT ![a] = FALSE]

(* A faulty variant: sessions are kept whoever owns their scope by now. *)
ReturnAgentUnchecked(a) ==
    /\ ~exited
    /\ state[a] = "returned" /\ ~fatal[a]
    /\ CheckIn(a)
    /\ state' = [state EXCEPT ![a] = "idle"]
    /\ Forget(a, {s \in Scope : ChannelOf[s] \in removed})
    /\ UNCHANGED <<lifeVars, owner, nextGen, heldFor, circuitVars, wanted, removed,
                   exited, revoked>>

(* handle_prompt_result for a healthy worker: sessions of removed channels *)
(* go, then return_agent drops every session that is not the scope's.      *)
ReturnAgent(a) ==
    /\ ~exited
    /\ state[a] = "returned" /\ ~fatal[a]
    /\ CheckIn(a)
    /\ state' = [state EXCEPT ![a] = "idle"]
    /\ Forget(a, {s \in Scope : ~Owns(a, s) \/ ChannelOf[s] \in removed})
    /\ UNCHANGED <<lifeVars, owner, nextGen, heldFor, circuitVars, wanted, removed, exited, revoked>>

(* handle_prompt_result for a dead or poisoned worker. *)
ReplaceAgent(a) ==
    /\ ~exited
    /\ state[a] = "returned" /\ fatal[a]
    /\ CheckIn(a)
    /\ LoseWorker(a)
    /\ UNCHANGED <<lifeVars, owner, nextGen, heldFor, wanted, removed>>

(* recover_panicked_agent *)
Panic(a) ==
    /\ ~exited
    /\ state[a] \in {"starting", "prompting"}
    /\ CheckIn(a)
    /\ LoseWorker(a)
    /\ UNCHANGED <<lifeVars, owner, nextGen, heldFor, wanted, removed>>

(* The main loop collects a respawn's result. *)
RespawnSucceeded(a) ==
    /\ ~exited
    /\ respawning[a]
    /\ respawning' = [respawning EXCEPT ![a] = FALSE]
    /\ state' = [state EXCEPT ![a] = "idle"]
    /\ UNCHANGED <<lifeVars, task, sessions, gens, control, fatal, owner, nextGen, heldFor,
                   crashes, openFor, wanted, removed, exited, revoked>>

RespawnFailed(a) ==
    /\ ~exited
    /\ respawning[a]
    /\ respawning' = [respawning EXCEPT ![a] = FALSE]
    /\ openFor' = [openFor EXCEPT ![a] = Cooldown]
    /\ UNCHANGED <<lifeVars, slotVars, owner, nextGen, heldFor, crashes, wanted, removed,
                   exited, revoked>>

(* Faulty variants of Refill: a slot that is alive is refilled; an open    *)
(* breaker is ignored.                                                     *)
RefillAlive(a) ==
    /\ ~exited
    /\ life = "ready"
    /\ ~respawning[a]
    /\ openFor[a] = Closed
    /\ respawning' = [respawning EXCEPT ![a] = TRUE]
    /\ UNCHANGED <<lifeVars, slotVars, owner, nextGen, heldFor, crashes, openFor,
                   wanted, removed, exited, revoked>>

RefillUnpaced(a) ==
    /\ ~exited
    /\ life = "ready"
    /\ state[a] = "empty" /\ ~respawning[a]
    /\ respawning' = [respawning EXCEPT ![a] = TRUE]
    /\ openFor' = [openFor EXCEPT ![a] = Closed]
    /\ UNCHANGED <<lifeVars, slotVars, owner, nextGen, heldFor, crashes, wanted,
                   removed, exited, revoked>>

(* Maintenance refills an empty slot whose breaker allows it: can_refill.  *)
Refill(a) ==
    /\ ~exited
    /\ life = "ready"
    /\ state[a] = "empty" /\ ~respawning[a]
    /\ openFor[a] <= 0
    /\ respawning' = [respawning EXCEPT ![a] = TRUE]
    /\ IF openFor[a] = 0
       THEN /\ crashes' = [crashes EXCEPT ![a] = JustNow(Threshold - 1)]
            /\ openFor' = [openFor EXCEPT ![a] = Closed]
       ELSE UNCHANGED <<crashes, openFor>>
    /\ UNCHANGED <<lifeVars, slotVars, owner, nextGen, heldFor, wanted, removed, exited, revoked>>

-----------------------------------------------------------------------------
(* The main loop's other inputs. *)

(* Work arrives for a scope, or is evicted from the queue: a hold without  *)
(* pending work is pruned before the loop waits again.                     *)
Request(s) ==
    /\ ~exited
    /\ wanted' = wanted \cup {s}
    /\ s \notin wanted
    /\ UNCHANGED <<lifeVars, slotVars, owner, nextGen, heldFor, circuitVars, removed, exited,
                   revoked>>

Withdraw(s) ==
    /\ ~exited
    /\ s \in wanted
    /\ wanted' = wanted \ {s}
    /\ heldFor' = [heldFor EXCEPT ![s] = NotHeld]
    /\ UNCHANGED <<lifeVars, slotVars, owner, nextGen, circuitVars, removed, exited, revoked>>

(* A faulty variant: the directory still names the owner. *)
InvalidateIdleOnly(gone, how) ==
    /\ sessions' = [a \in Agent |-> IF Idle(a) THEN sessions[a] \ gone ELSE sessions[a]]
    /\ gens' = [a \in Agent |-> [s \in Scope |->
                   IF Idle(a) /\ s \in gone THEN 0 ELSE gens[a][s]]]
    /\ heldFor' = [s \in Scope |-> IF s \in gone THEN NotHeld ELSE heldFor[s]]
    /\ revoked' = [a \in Agent |-> revoked[a] \cup ({how} \X (gone \cap sessions'[a]))]
    /\ UNCHANGED owner

(* Idle workers drop their sessions for the scopes in gone, and the        *)
(* directory and the holds forget them; a checked-out worker's session is  *)
(* marked for the properties.                                              *)
Invalidate(gone, how) ==
    /\ sessions' = [a \in Agent |-> IF Idle(a) THEN sessions[a] \ gone ELSE sessions[a]]
    /\ gens' = [a \in Agent |-> [s \in Scope |->
                   IF Idle(a) /\ s \in gone THEN 0 ELSE gens[a][s]]]
    /\ owner' = [s \in Scope |-> IF s \in gone THEN NoOwner ELSE owner[s]]
    /\ heldFor' = [s \in Scope |-> IF s \in gone THEN NotHeld ELSE heldFor[s]]
    /\ revoked' = [a \in Agent |-> revoked[a] \cup ({how} \X (gone \cap sessions'[a]))]

(* signal_in_flight_task_for_scope: a control channel carries one signal, and *)
(* whether anyone still reads it is not looked at.                            *)
Signal(s) ==
    \E a \in Agent :
        /\ CheckedOut(a) /\ task[a] = s /\ control[a]
        /\ control' = [control EXCEPT ![a] = FALSE]

(* A cancel, an interrupt or a steer that falls back to cancelling. *)
Interrupt(s) ==
    /\ ~exited
    /\ Signal(s)
    /\ UNCHANGED <<lifeVars, state, task, sessions, gens, fatal, owner, nextGen, heldFor,
                   circuitVars, wanted, removed, exited, revoked>>

(* The owner's !rotate: a signal to the scope's turn, or else the sessions *)
(* of idle workers and the directory entry go.                             *)
Rotate(s) ==
    LET Signallable == \E a \in Agent : CheckedOut(a) /\ task[a] = s /\ control[a] IN
    /\ ~exited
    /\ \/ /\ Signal(s)
          /\ revoked' = [a \in Agent |-> revoked[a] \cup
                             ({"rotated"} \X ({s} \cap sessions[a]))]
          /\ UNCHANGED <<sessions, gens, owner, heldFor>>
       \/ /\ ~Signallable
          /\ Invalidate({s}, "rotated")
          /\ UNCHANGED control
    /\ UNCHANGED <<lifeVars, state, task, fatal, nextGen, circuitVars, wanted, removed,
                   exited>>

(* The agent is removed from channel c: its queue is drained too.          *)
RemoveChannel(c) ==
    LET gone == {s \in Scope : ChannelOf[s] = c} IN
    /\ ~exited
    /\ removed' = removed \cup {c}
    /\ wanted' = wanted \ gone
    /\ Invalidate(gone, "removed")
    /\ UNCHANGED <<lifeVars, state, task, control, fatal, nextGen, circuitVars, exited>>

Rejoin(c) ==
    /\ ~exited
    /\ c \in removed
    /\ removed' = removed \ {c}
    /\ UNCHANGED <<lifeVars, slotVars, owner, nextGen, heldFor, circuitVars, wanted, exited, revoked>>

Tick ==
    LET Later(t) == IF t \in 0..(HoldTimeout - 1) THEN t + 1 ELSE t
        Sooner(t) == IF t > 0 THEN t - 1 ELSE t
        Older(cs) == [w \in 1..Window |-> IF w < Window THEN cs[w + 1] ELSE 0]
    IN
    /\ ~exited
    /\ heldFor' = [s \in Scope |-> Later(heldFor[s])]
    /\ crashes' = [a \in Agent |-> Older(crashes[a])]
    /\ openFor' = [a \in Agent |-> Sooner(openFor[a])]
    /\ wakeIn' = Sooner(wakeIn)
    /\ UNCHANGED <<life, slotVars, owner, nextGen, respawning, wanted, removed, exited, revoked>>

-----------------------------------------------------------------------------
(* The life cycle of a lazy pool. *)

(* A faulty variant: a failed wake is never retried. *)
StartWakeOnce ==
    /\ ~exited
    /\ wanted # {}
    /\ life = "listening"
    /\ life' = "waking"
    /\ UNCHANGED <<wakeIn, slotVars, owner, nextGen, heldFor, circuitVars, wanted,
                   removed, exited, revoked>>

(* start_wake_if_due: with work to do, at once or when the retry is due. *)
StartWake ==
    /\ ~exited
    /\ wanted # {}
    /\ life = "listening" \/ (life = "failed" /\ wakeIn = 0)
    /\ life' = "waking"
    /\ UNCHANGED <<wakeIn, slotVars, owner, nextGen, heldFor, circuitVars, wanted,
                   removed, exited, revoked>>

(* The pool of a finished initialize_agent_pool replaces the empty one. *)
WakeSucceeded ==
    /\ ~exited
    /\ life = "waking"
    /\ life' = "ready"
    /\ \E started \in SUBSET Agent :
          /\ started # {}
          /\ state' = [a \in Agent |-> IF a \in started THEN "idle" ELSE "empty"]
    /\ UNCHANGED <<wakeIn, task, sessions, gens, control, fatal, owner, nextGen,
                   heldFor, circuitVars, wanted, removed, exited, revoked>>

WakeFailed ==
    /\ ~exited
    /\ life = "waking"
    /\ life' = "failed"
    /\ wakeIn' = WakeDelay
    /\ UNCHANGED <<slotVars, owner, nextGen, heldFor, circuitVars, wanted, removed,
                   exited, revoked>>

(* A faulty variant: a respawn may be in flight. *)
SleepWhileRespawning ==
    /\ ~exited
    /\ Lazy /\ life = "ready"
    /\ wanted = {}
    /\ ~\E a \in Agent : CheckedOut(a)
    /\ life' = "listening"
    /\ state' = [a \in Agent |-> "empty"]
    /\ UNCHANGED <<wakeIn, task, sessions, gens, control, fatal, owner, nextGen, heldFor,
                   circuitVars, wanted, removed, exited, revoked>>

(* idle_pool_sleep_due: the pool goes, with its sessions, directory and    *)
(* holds; the breakers stay.                                               *)
Sleep ==
    /\ ~exited
    /\ Lazy /\ life = "ready"
    /\ wanted = {}
    /\ ~\E a \in Agent : CheckedOut(a) \/ respawning[a]
    /\ life' = "listening"
    /\ state' = [a \in Agent |-> "empty"]
    /\ sessions' = [a \in Agent |-> {}]
    /\ gens' = [a \in Agent |-> [s \in Scope |-> 0]]
    /\ owner' = [s \in Scope |-> NoOwner]
    /\ nextGen' = 1
    /\ heldFor' = [s \in Scope |-> NotHeld]
    /\ revoked' = [a \in Agent |-> {}]
    /\ UNCHANGED <<wakeIn, task, control, fatal, circuitVars, wanted, removed, exited>>

-----------------------------------------------------------------------------
Next ==
    \/ \E s \in Scope : \/ Hold(s) \/ Unhold(s) \/ Claim(s) \/ Request(s)
                        \/ Withdraw(s) \/ Interrupt(s) \/ Rotate(s)
    \/ ClaimHeartbeat
    \/ \E a \in Agent : \/ StartPrompt(a) \/ SendResult(a) \/ ReturnAgent(a)
                        \/ ReplaceAgent(a) \/ Panic(a) \/ RespawnSucceeded(a)
                        \/ RespawnFailed(a) \/ Refill(a)
    \/ \E c \in Channel : RemoveChannel(c) \/ Rejoin(c)
    \/ StartWake \/ WakeSucceeded \/ WakeFailed \/ Sleep
    \/ Tick

Spec == Init /\ [][Next]_vars

(* The main loop keeps dispatching and collecting, a turn ends within its  *)
(* hard cap, time passes, and a process that is started over and over does *)
(* start one day.                                                          *)
Fairness ==
    /\ WF_vars(Tick)
    /\ WF_vars(StartWake)
    /\ WF_vars(WakeSucceeded \/ WakeFailed)
    /\ SF_vars(WakeSucceeded)
    /\ \A s \in Scope : WF_vars(Hold(s)) /\ WF_vars(Claim(s))
    /\ \A a \in Agent :
          /\ WF_vars(StartPrompt(a))
          /\ WF_vars(SendResult(a))
          /\ WF_vars(ReturnAgent(a))
          /\ WF_vars(ReplaceAgent(a))
          /\ WF_vars(RespawnSucceeded(a) \/ RespawnFailed(a))
          /\ SF_vars(RespawnSucceeded(a))
          /\ WF_vars(Refill(a))

FairSpec == Spec /\ Fairness

-----------------------------------------------------------------------------
(* Properties. *)

(* Every table of the pool has its shape. *)
TypeOK ==
    /\ life \in {"listening", "waking", "ready", "failed"}
    /\ wakeIn \in 0..WakeDelay
    /\ state \in [Agent -> {"idle", "starting", "prompting", "returned", "empty"}]
    /\ task \in [Agent -> Scope \cup {Heartbeat, NoTask}]
    /\ sessions \in [Agent -> SUBSET Scope]
    /\ gens \in [Agent -> [Scope -> 0..MaxClaims]]
    /\ owner \in [Scope -> [agent : Agent \cup {NoAgent}, gen : 0..MaxClaims]]
    /\ nextGen \in 1..(MaxClaims + 1)
    /\ heldFor \in [Scope -> {NotHeld} \cup 0..HoldTimeout]
    /\ respawning \in [Agent -> BOOLEAN]
    /\ crashes \in [Agent -> [1..Window -> Nat]]
    /\ openFor \in [Agent -> {Closed} \cup 0..Cooldown]
    /\ control \in [Agent -> BOOLEAN]
    /\ fatal \in [Agent -> BOOLEAN]
    /\ wanted \subseteq Scope
    /\ removed \subseteq Channel
    /\ exited \in BOOLEAN
    /\ revoked \in [Agent -> SUBSET ({"rotated", "removed"} \X Scope)]

(* A respawn is in flight only for an empty slot, whose breaker is closed: *)
(* no result of spawn_respawn_task replaces a live worker, and at most one *)
(* new process is on the way for a slot.                                   *)
RespawnFillsEmptySlot ==
    \A a \in Agent : respawning[a] => state[a] = "empty" /\ openFor[a] = Closed

(* Each session of an idle worker is the one the directory names: when a   *)
(* busy owner's scope was forked to another worker, or its channel was     *)
(* removed, the older session is gone by the time its worker is claimable, *)
(* and no two idle workers have a session for one scope.                   *)
IdleSessionsAreOwned ==
    \A a \in Agent : Idle(a) => \A s \in sessions[a] : Owns(a, s)

(* A session from before the agent was removed from a channel is never     *)
(* there to be claimed, although the worker that had it may have been      *)
(* checked out during the removal, and returned after a rejoin.            *)
RemovedSessionIsGone ==
    \A a \in Agent : Idle(a) => \A s \in sessions[a] : <<"removed", s>> \notin revoked[a]

(* A worker is respawned, or its slot refilled, only while fewer crashes   *)
(* than the threshold lie in the window, and a slot whose breaker is open  *)
(* is filled by nothing but the wake of a lazy pool, which starts every    *)
(* worker.                                                                 *)
BreakerPacesRespawns ==
    [][\A a \in Agent :
          /\ ~respawning[a] /\ respawning'[a] => SumFunction(crashes'[a]) < Threshold
          /\ openFor[a] > 0 /\ state[a] = "empty" /\ state'[a] # "empty" =>
                life = "waking"]_vars

(* A sleeping or waking pool has no worker, session, owner or hold left    *)
(* that its successor could meet, and no respawn that could fill a slot    *)
(* behind the back of the wake.                                            *)
SleepLeavesNoTrace ==
    life # "ready" =>
        /\ \A a \in Agent : state[a] = "empty" /\ sessions[a] = {} /\ ~respawning[a]
        /\ \A s \in Scope : owner[s] = NoOwner /\ heldFor[s] = NotHeld

(* A hold that has run out stays run out until it is used, until the scope *)
(* has no pending work or no session to wait for: it is never restarted    *)
(* behind a busy owner, which would postpone the fork again and again.     *)
ExpiredHoldIsSticky ==
    [][\A s \in Scope :
          heldFor[s] = HoldTimeout /\ heldFor'[s] # HoldTimeout =>
              s \notin wanted' \/ owner'[s].agent = NoAgent \/ ~ShouldHold(s)]_vars

(* Pending work is dispatched, or withdrawn, or the harness gives up: a    *)
(* hold for a busy or dead owner is bounded, and a slot that crashed is    *)
(* refilled.                                                               *)
WorkIsTaken ==
    \A s \in Scope : s \in wanted ~> s \notin wanted \/ exited \/ nextGen > MaxClaims

=============================================================================
