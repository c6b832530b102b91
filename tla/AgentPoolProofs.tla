-------------------------- MODULE AgentPoolProofs ---------------------------
(***************************************************************************)
(* What holds of the agent pool for every number of workers and scopes,    *)
(* every hold, breaker and wake constant, and any number of claims.        *)
(***************************************************************************)
EXTENDS AgentPool, NatLemmas, TLAPS

-----------------------------------------------------------------------------
(* Facts about the operators. *)

LEMMA NoAgentIsNoSlot == NoAgent \notin Agent
BY DEF NoAgent, Agent

(* try_claim takes an idle worker when there is one, and the owner of the  *)
(* scope's session when that one is idle.                                  *)
LEMMA ClaimForIdle ==
    ASSUME NEW s \in Scope, \E b \in Agent : Idle(b)
    PROVE  /\ ClaimFor(s) \in Agent
           /\ Idle(ClaimFor(s))
           /\ (\E b \in Agent : Idle(b) /\ Owns(b, s)) => Owns(ClaimFor(s), s)
<1> DEFINE idle == {a \in Agent : Idle(a)}
           owners == {a \in idle : Owns(a, s)}
           from == IF owners # {} THEN owners ELSE idle
<1>1. from # {} /\ from \subseteq idle
  OBVIOUS
<1>2. idle \subseteq Agent /\ from \subseteq Nat
  BY <1>1, PoolAssumption DEF Agent
<1>3. \E a \in from : \A b \in from : a <= b
  <2> HIDE DEF from
  <2> QED BY <1>1, <1>2, LeastExists
<1>4. ClaimFor(s) = CHOOSE a \in from : \A b \in from : a <= b
  BY DEF ClaimFor
<1>5. ClaimFor(s) \in from
  <2> HIDE DEF from
  <2> QED BY <1>3, <1>4
<1> QED
  BY <1>1, <1>5

-----------------------------------------------------------------------------
(* Type correctness. *)

LEMMA TypeInit == Init => TypeOK
<1> SUFFICES ASSUME Init PROVE TypeOK
  OBVIOUS
<1> USE PoolAssumption DEF Init
<1>1. /\ life \in {"listening", "waking", "ready", "failed"}
      /\ wakeIn \in 0..WakeDelay
      /\ nextGen \in 1..(MaxClaims + 1)
  OBVIOUS
<1>2. /\ gens \in [Agent -> [Scope -> 0..MaxClaims]]
      /\ owner \in [Scope -> [agent : Agent \cup {NoAgent}, gen : 0..MaxClaims]]
  BY DEF NoOwner
<1>3. heldFor \in [Scope -> {NotHeld} \cup 0..HoldTimeout]
  OBVIOUS
<1>4. crashes \in [Agent -> [1..Window -> Nat]]
  OBVIOUS
<1>5. openFor \in [Agent -> {Closed} \cup 0..Cooldown]
  OBVIOUS
<1> QED
  BY <1>1, <1>2, <1>3, <1>4, <1>5 DEF TypeOK

(* The dispatch of a scope's work, or of a heartbeat. *)
LEMMA TypeDispatch ==
    ASSUME TypeOK,
           ClaimHeartbeat \/ \E s \in Scope : Hold(s) \/ Unhold(s) \/ Claim(s)
    PROVE  TypeOK'
<1> USE PoolAssumption DEF lifeVars, slotVars, circuitVars, TypeOK
<1>1. ASSUME NEW s \in Scope, Hold(s) \/ Unhold(s) PROVE TypeOK'
  <2>1. CASE Hold(s)
    BY <2>1 DEF Hold
  <2>2. CASE Unhold(s)
    BY <2>2 DEF Unhold
  <2> QED
    BY <1>1, <2>1, <2>2
<1>2. ASSUME NEW s \in Scope, Claim(s) PROVE TypeOK'
  <2>1. PICK a \in Agent : a = ClaimFor(s)
    BY <1>2, ClaimForIdle DEF Claim
  <2>2. nextGen \in 0..MaxClaims /\ nextGen' \in 1..(MaxClaims + 1)
    BY <1>2 DEF Claim
  <2>3. owner' \in [Scope -> [agent : Agent \cup {NoAgent}, gen : 0..MaxClaims]]
    BY <1>2, <2>1, <2>2 DEF Claim
  <2>4. gens' \in [Agent -> [Scope -> 0..MaxClaims]]
    BY <1>2, <2>1, <2>2 DEF Claim
  <2> QED
    BY <1>2, <2>1, <2>2, <2>3, <2>4 DEF Claim, NotHeld
<1>3. ASSUME ClaimHeartbeat PROVE TypeOK'
  BY <1>3 DEF ClaimHeartbeat
<1> QED
  BY <1>1, <1>2, <1>3

(* A turn's own steps. *)
LEMMA TypeTurn ==
    ASSUME TypeOK, NEW a \in Agent, StartPrompt(a) \/ SendResult(a)
    PROVE  TypeOK'
<1> USE DEF lifeVars, slotVars, circuitVars
<1>1. CASE StartPrompt(a)
  <2>1. CASE task[a] \in Scope \ sessions[a]
    <3>1. sessions' = [sessions EXCEPT ![a] = @ \cup {task[a]}]
      BY <1>1, <2>1 DEF StartPrompt
    <3>2. revoked' = [revoked EXCEPT ![a] = @ \ ({"rotated", "removed"} \X {task[a]})]
      BY <1>1, <2>1 DEF StartPrompt
    <3>3. sessions' \in [Agent -> SUBSET Scope]
      BY <2>1, <3>1 DEF TypeOK
    <3>4. revoked' \in [Agent -> SUBSET ({"rotated", "removed"} \X Scope)]
      BY <3>2 DEF TypeOK
    <3> QED
      BY <1>1, <3>3, <3>4 DEF StartPrompt, TypeOK
  <2>2. CASE task[a] \notin Scope \ sessions[a]
    BY <1>1, <2>2 DEF StartPrompt, TypeOK
  <2> QED
    BY <2>1, <2>2
<1>2. CASE SendResult(a)
  BY <1>2, PoolAssumption DEF SendResult, Forget, TypeOK
<1> QED
  BY <1>1, <1>2

(* record_crash, as its callers use it. *)
LEMMA TypeRecordCrash ==
    ASSUME TypeOK, NEW a \in Agent, RecordCrash(a)
    PROVE  /\ respawning' \in [Agent -> BOOLEAN]
           /\ crashes' \in [Agent -> [1..Window -> Nat]]
           /\ openFor' \in [Agent -> {Closed} \cup 0..Cooldown]
           /\ exited' \in BOOLEAN
<1> USE PoolAssumption DEF TypeOK
<1>1. JustNow(Threshold - 1) \in [1..Window -> Nat]
  BY DEF JustNow
<1>2. crashes' \in [Agent -> [1..Window -> Nat]]
  <2>1. \/ crashes' = [crashes EXCEPT ![a] = JustNow(Threshold - 1)]
        \/ crashes' = crashes
        \/ crashes' = [crashes EXCEPT ![a][Window] = @ + 1]
    BY DEF RecordCrash
  <2>2. crashes[a] \in [1..Window -> Nat] /\ Window \in 1..Window
    OBVIOUS
  <2>3. [crashes[a] EXCEPT ![Window] = @ + 1] \in [1..Window -> Nat]
    BY <2>2
  <2> QED
    BY <1>1, <2>1, <2>3
<1>3. respawning' \in [Agent -> BOOLEAN]
  BY DEF RecordCrash
<1>4. openFor' \in [Agent -> {Closed} \cup 0..Cooldown]
  <2>1. \/ openFor' = [openFor EXCEPT ![a] = Closed]
        \/ openFor' = openFor
        \/ openFor' = [openFor EXCEPT ![a] = Cooldown]
    BY DEF RecordCrash
  <2>2. CASE openFor' = [openFor EXCEPT ![a] = Closed]
    BY <2>2
  <2>3. CASE openFor' = [openFor EXCEPT ![a] = Cooldown]
    BY <2>3
  <2> QED
    BY <2>1, <2>2, <2>3
<1>5. exited' \in BOOLEAN
  BY DEF RecordCrash
<1> QED
  BY <1>2, <1>3, <1>4, <1>5

(* A worker's return, loss, respawn or refill. *)
LEMMA TypeSlot ==
    ASSUME TypeOK, NEW a \in Agent,
           \/ ReturnAgent(a) \/ ReplaceAgent(a) \/ Panic(a)
           \/ RespawnSucceeded(a) \/ RespawnFailed(a) \/ Refill(a)
    PROVE  TypeOK'
<1> USE PoolAssumption DEF lifeVars, slotVars, circuitVars
<1>1. CASE ReturnAgent(a)
  BY <1>1 DEF ReturnAgent, CheckIn, Forget, NoTask, TypeOK
<1>2. CASE ReplaceAgent(a) \/ Panic(a)
  <2>1. /\ CheckIn(a) /\ LoseWorker(a)
        /\ UNCHANGED <<lifeVars, owner, nextGen, heldFor, wanted, removed>>
    BY <1>2 DEF ReplaceAgent, Panic
  <2>2. RecordCrash(a)
    BY <2>1 DEF LoseWorker
  <2>3. /\ sessions' \in [Agent -> SUBSET Scope]
        /\ gens' \in [Agent -> [Scope -> 0..MaxClaims]]
        /\ revoked' \in [Agent -> SUBSET ({"rotated", "removed"} \X Scope)]
    BY <2>1 DEF LoseWorker, TypeOK
  <2>4. /\ state' \in [Agent -> {"idle", "starting", "prompting", "returned", "empty"}]
        /\ task' \in [Agent -> Scope \cup {Heartbeat, NoTask}]
        /\ control' \in [Agent -> BOOLEAN]
        /\ fatal' \in [Agent -> BOOLEAN]
    BY <2>1 DEF LoseWorker, CheckIn, TypeOK
  <2> QED
    BY <2>1, <2>2, <2>3, <2>4, TypeRecordCrash DEF TypeOK
<1>3. CASE RespawnSucceeded(a)
  BY <1>3 DEF RespawnSucceeded, TypeOK
<1>4. CASE RespawnFailed(a)
  <2>1. openFor' \in [Agent -> {Closed} \cup 0..Cooldown]
    BY <1>4 DEF RespawnFailed, TypeOK
  <2> QED
    BY <1>4, <2>1 DEF RespawnFailed, TypeOK
<1>5. CASE Refill(a)
  <2>1. JustNow(Threshold - 1) \in [1..Window -> Nat]
    BY DEF JustNow
  <2>2. CASE openFor[a] = 0
    <3>1. crashes' \in [Agent -> [1..Window -> Nat]]
      BY <1>5, <2>1, <2>2 DEF Refill, TypeOK
    <3>2. openFor' \in [Agent -> {Closed} \cup 0..Cooldown]
      BY <1>5, <2>2 DEF Refill, TypeOK
    <3> QED
      BY <1>5, <3>1, <3>2 DEF Refill, TypeOK
  <2>3. CASE openFor[a] # 0
    BY <1>5, <2>3 DEF Refill, TypeOK
  <2> QED
    BY <2>2, <2>3
<1> QED
  BY <1>1, <1>2, <1>3, <1>4, <1>5

(* The main loop's other inputs, and time. *)
LEMMA TypeInput ==
    ASSUME TypeOK,
           \/ \E s \in Scope : Request(s) \/ Withdraw(s) \/ Interrupt(s) \/ Rotate(s)
           \/ \E c \in Channel : RemoveChannel(c) \/ Rejoin(c)
           \/ Tick
    PROVE  TypeOK'
<1> USE PoolAssumption DEF lifeVars, slotVars, circuitVars, TypeOK
<1>1. ASSUME NEW s \in Scope, Request(s) \/ Withdraw(s) PROVE TypeOK'
  BY <1>1 DEF Request, Withdraw, NotHeld
<1>2. ASSUME NEW s \in Scope, Interrupt(s) PROVE TypeOK'
  BY <1>2 DEF Interrupt, Signal
<1>3. ASSUME NEW gone \in SUBSET Scope, NEW how \in {"rotated", "removed"},
             Invalidate(gone, how)
      PROVE  /\ sessions' \in [Agent -> SUBSET Scope]
             /\ gens' \in [Agent -> [Scope -> 0..MaxClaims]]
             /\ owner' \in [Scope -> [agent : Agent \cup {NoAgent}, gen : 0..MaxClaims]]
             /\ heldFor' \in [Scope -> {NotHeld} \cup 0..HoldTimeout]
             /\ revoked' \in [Agent -> SUBSET ({"rotated", "removed"} \X Scope)]
  BY <1>3 DEF Invalidate, NoOwner
<1>4. ASSUME NEW s \in Scope, Rotate(s) PROVE TypeOK'
  <2>1. CASE Signal(s) /\ UNCHANGED <<sessions, gens, owner, heldFor>>
    BY <1>4, <2>1 DEF Rotate, Signal
  <2>2. CASE Invalidate({s}, "rotated") /\ UNCHANGED control
    BY <1>4, <2>2, <1>3 DEF Rotate
  <2> QED
    BY <1>4, <2>1, <2>2 DEF Rotate
<1>5. ASSUME NEW c \in Channel, RemoveChannel(c) PROVE TypeOK'
  BY <1>5, <1>3 DEF RemoveChannel
<1>6. ASSUME NEW c \in Channel, Rejoin(c) PROVE TypeOK'
  BY <1>6 DEF Rejoin
<1>7. ASSUME Tick PROVE TypeOK'
  BY <1>7 DEF Tick, NotHeld, Closed
<1> QED
  BY <1>1, <1>2, <1>4, <1>5, <1>6, <1>7

(* The life cycle of a lazy pool. *)
LEMMA TypeLife ==
    ASSUME TypeOK, StartWake \/ WakeSucceeded \/ WakeFailed \/ Sleep
    PROVE  TypeOK'
<1> USE PoolAssumption DEF lifeVars, slotVars, circuitVars, TypeOK
<1>1. CASE StartWake
  BY <1>1 DEF StartWake
<1>2. CASE WakeSucceeded
  BY <1>2 DEF WakeSucceeded
<1>3. CASE WakeFailed
  BY <1>3 DEF WakeFailed
<1>4. CASE Sleep
  <2>1. /\ sessions' \in [Agent -> SUBSET Scope]
        /\ gens' \in [Agent -> [Scope -> 0..MaxClaims]]
        /\ revoked' \in [Agent -> SUBSET ({"rotated", "removed"} \X Scope)]
    BY <1>4 DEF Sleep
  <2>2. owner' \in [Scope -> [agent : Agent \cup {NoAgent}, gen : 0..MaxClaims]]
    BY <1>4 DEF Sleep, NoOwner
  <2>3. nextGen' \in 1..(MaxClaims + 1)
    BY <1>4 DEF Sleep
  <2>4. heldFor' \in [Scope -> {NotHeld} \cup 0..HoldTimeout]
    BY <1>4 DEF Sleep
  <2> QED
    BY <1>4, <2>1, <2>2, <2>3, <2>4 DEF Sleep
<1> QED
  BY <1>1, <1>2, <1>3, <1>4

LEMMA TypeNext == TypeOK /\ [Next]_vars => TypeOK'
<1> SUFFICES ASSUME TypeOK, [Next]_vars PROVE TypeOK'
  OBVIOUS
<1>1. CASE Next
  BY <1>1, TypeDispatch, TypeTurn, TypeSlot, TypeInput, TypeLife DEF Next
<1>2. CASE UNCHANGED vars
  BY <1>2 DEF vars, TypeOK
<1> QED
  BY <1>1, <1>2

(* Every table of the pool keeps its shape: generations and holds stay in  *)
(* their bounds, an owner is a slot of the pool or none, and a worker's    *)
(* sessions are for scopes only, never for a heartbeat.                    *)
THEOREM TypeCorrect == Spec => []TypeOK
BY TypeInit, TypeNext, PTL DEF Spec

-----------------------------------------------------------------------------
(* The inductive invariant. *)

(* A worker that is gone has taken its sessions with it. *)
EmptySlotHasNoSession ==
    \A a \in Agent : state[a] = "empty" => sessions[a] = {}

(* A session that was there when its channel was removed is not the one    *)
(* the directory names, whether or not its worker knows it yet.            *)
RemovedIsDisowned ==
    \A a \in Agent : \A s \in sessions[a] :
        <<"removed", s>> \in revoked[a] => owner[s].agent # a

SlotInv ==
    /\ TypeOK
    /\ SleepLeavesNoTrace
    /\ RespawnFillsEmptySlot
    /\ EmptySlotHasNoSession

SessionInv ==
    /\ SlotInv
    /\ IdleSessionsAreOwned
    /\ RemovedIsDisowned

LEMMA SlotInvInit == Init => SlotInv
<1> SUFFICES ASSUME Init PROVE SlotInv
  OBVIOUS
<1>1. SleepLeavesNoTrace
  BY PoolAssumption DEF Init, SleepLeavesNoTrace
<1>2. RespawnFillsEmptySlot /\ EmptySlotHasNoSession
  BY DEF Init, RespawnFillsEmptySlot, EmptySlotHasNoSession
<1> QED
  BY <1>1, <1>2, TypeInit DEF SlotInv

(* What every step does to the slots, seen from one slot: each case names  *)
(* the steps that leave the slot in one of its states.                     *)
LEMMA SlotInvNext == SlotInv /\ [Next]_vars => SlotInv'
<1> SUFFICES ASSUME SlotInv, [Next]_vars PROVE SlotInv'
  OBVIOUS
<1> USE DEF SlotInv, SleepLeavesNoTrace, RespawnFillsEmptySlot, EmptySlotHasNoSession,
            lifeVars, slotVars, circuitVars
<1>0. TypeOK'
  BY TypeNext
<1>1. CASE UNCHANGED vars
  BY <1>0, <1>1 DEF vars
<1>2. ASSUME NEW s \in Scope, Hold(s) PROVE SlotInv'
  BY <1>0, <1>2 DEF Hold, ShouldHold, NoOwner
<1>3. ASSUME NEW s \in Scope, Unhold(s) PROVE SlotInv'
  BY <1>0, <1>3 DEF Unhold
<1>4. ASSUME NEW s \in Scope, Claim(s) PROVE SlotInv'
  <2>1. PICK a \in Agent : a = ClaimFor(s) /\ Idle(a)
    BY <1>4, ClaimForIdle DEF Claim
  <2>2. life' = "ready"
    BY <1>4, <2>1 DEF Claim, Idle
  <2> QED
    BY <1>0, <1>4, <2>1, <2>2 DEF Claim, Idle, TypeOK
<1>5. CASE ClaimHeartbeat
  <2>1. PICK a \in Agent : Idle(a) /\ state' = [state EXCEPT ![a] = "starting"]
    BY <1>5 DEF ClaimHeartbeat
  <2> QED
    BY <1>0, <1>5, <2>1 DEF ClaimHeartbeat, Idle, TypeOK
<1>6. ASSUME NEW s \in Scope, Request(s) \/ Withdraw(s) PROVE SlotInv'
  BY <1>0, <1>6 DEF Request, Withdraw, TypeOK
<1>7. ASSUME NEW s \in Scope, Interrupt(s) PROVE SlotInv'
  BY <1>0, <1>7 DEF Interrupt
<1>8. ASSUME NEW gone \in SUBSET Scope, NEW how \in {"rotated", "removed"},
             Invalidate(gone, how), UNCHANGED <<life, state, respawning, openFor>>
      PROVE  SlotInv'
  BY <1>0, <1>8 DEF Invalidate, Idle, NoOwner
<1>9. ASSUME NEW s \in Scope, Rotate(s) PROVE SlotInv'
  <2>1. CASE UNCHANGED <<sessions, gens, owner, heldFor>>
    BY <1>0, <1>9, <2>1 DEF Rotate
  <2>2. CASE Invalidate({s}, "rotated")
    BY <1>8, <1>9, <2>2 DEF Rotate
  <2> QED
    BY <1>9, <2>1, <2>2 DEF Rotate
<1>10. ASSUME NEW c \in Channel, RemoveChannel(c) PROVE SlotInv'
  BY <1>8, <1>10 DEF RemoveChannel
<1>11. ASSUME NEW c \in Channel, Rejoin(c) PROVE SlotInv'
  BY <1>0, <1>11 DEF Rejoin
<1>12. ASSUME NEW a \in Agent, StartPrompt(a) PROVE SlotInv'
  BY <1>0, <1>12 DEF StartPrompt, TypeOK
<1>13. ASSUME NEW a \in Agent, SendResult(a) PROVE SlotInv'
  BY <1>0, <1>13 DEF SendResult, Forget, TypeOK
<1>14. ASSUME NEW a \in Agent, ReturnAgent(a) PROVE SlotInv'
  BY <1>0, <1>14 DEF ReturnAgent, Forget, TypeOK
<1>15. ASSUME NEW a \in Agent, ReplaceAgent(a) \/ Panic(a) PROVE SlotInv'
  <2>1. /\ LoseWorker(a) /\ state[a] # "empty"
        /\ UNCHANGED <<lifeVars, owner, heldFor>>
    BY <1>15 DEF ReplaceAgent, Panic
  <2>2. ~respawning[a] /\ life = "ready"
    BY <2>1
  <2>3. RecordCrash(a)
    BY <2>1 DEF LoseWorker
  <2>4. /\ \A b \in Agent \ {a} : respawning'[b] = respawning[b] /\ openFor'[b] = openFor[b]
        /\ respawning'[a] => openFor'[a] = Closed
    BY <2>2, <2>3 DEF RecordCrash, TypeOK
  <2> QED
    BY <1>0, <2>1, <2>2, <2>4 DEF LoseWorker, TypeOK
<1>16. ASSUME NEW a \in Agent, RespawnSucceeded(a) PROVE SlotInv'
  BY <1>0, <1>16 DEF RespawnSucceeded, TypeOK
<1>17. ASSUME NEW a \in Agent, RespawnFailed(a) PROVE SlotInv'
  BY <1>0, <1>17 DEF RespawnFailed, TypeOK
<1>18. ASSUME NEW a \in Agent, Refill(a) PROVE SlotInv'
  BY <1>0, <1>18 DEF Refill, TypeOK, Closed
<1>19. CASE StartWake \/ WakeFailed
  BY <1>0, <1>19 DEF StartWake, WakeFailed
<1>20. CASE WakeSucceeded
  BY <1>0, <1>20 DEF WakeSucceeded, TypeOK
<1>21. CASE Sleep
  BY <1>0, <1>21 DEF Sleep, TypeOK
<1>22. CASE Tick
  BY <1>0, <1>22 DEF Tick, NotHeld, Closed, TypeOK
<1> QED
  BY <1>1, <1>2, <1>3, <1>4, <1>5, <1>6, <1>7, <1>9, <1>10, <1>11, <1>12, <1>13,
     <1>14, <1>15, <1>16, <1>17, <1>18, <1>19, <1>20, <1>21, <1>22 DEF Next

(* No respawn, from a crash, a panic or the maintenance refill, is ever on *)
(* the way for a slot that has a worker or whose breaker is open, over any *)
(* sequence of crashes, refills, sleeps and wakes.                         *)
THEOREM RespawnsFillEmptySlots == Spec => []RespawnFillsEmptySlot
<1>1. SlotInv => RespawnFillsEmptySlot
  BY DEF SlotInv
<1> QED
  BY <1>1, SlotInvInit, SlotInvNext, PTL DEF Spec

(* A pool that sleeps or wakes has nothing of its predecessor: no worker,  *)
(* session, owner, hold or respawn in flight.                              *)
THEOREM SleepIsClean == Spec => []SleepLeavesNoTrace
<1>1. SlotInv => SleepLeavesNoTrace
  BY DEF SlotInv
<1> QED
  BY <1>1, SlotInvInit, SlotInvNext, PTL DEF Spec

-----------------------------------------------------------------------------
(* Sessions and their owners. *)

LEMMA SessionInvInit == Init => SessionInv
<1> SUFFICES ASSUME Init PROVE SessionInv
  OBVIOUS
<1>1. IdleSessionsAreOwned /\ RemovedIsDisowned
  BY DEF Init, IdleSessionsAreOwned, RemovedIsDisowned
<1> QED
  BY <1>1, SlotInvInit DEF SessionInv

(* Steps that leave the directory alone and give no idle worker a session. *)
LEMMA SessionInvFrame ==
    ASSUME SessionInv, SlotInv',
           UNCHANGED <<owner, sessions, gens, revoked>>,
           \A a \in Agent : Idle(a)' => Idle(a) \/ sessions[a] = {}
    PROVE  SessionInv'
BY DEF SessionInv, IdleSessionsAreOwned, RemovedIsDisowned, Owns

(* The one step that makes a worker the owner of a scope. *)
LEMMA SessionInvClaim ==
    ASSUME SessionInv, SlotInv', NEW s \in Scope, Claim(s)
    PROVE  SessionInv'
<1> USE DEF SessionInv, SlotInv, TypeOK
<1>1. PICK a \in Agent : /\ a = ClaimFor(s)
                         /\ Idle(a)
                         /\ (\E b \in Agent : Idle(b) /\ Owns(b, s)) => Owns(a, s)
  BY ClaimForIdle DEF Claim
<1>2. /\ state' = [state EXCEPT ![a] = "starting"]
      /\ owner' = [owner EXCEPT ![s] = [agent |-> a, gen |-> nextGen]]
      /\ gens' = [gens EXCEPT ![a][s] = nextGen]
      /\ UNCHANGED <<sessions, revoked>>
  BY <1>1 DEF Claim
<1>3. \A b \in Agent \ {a} : Idle(b) => s \notin sessions[b]
  BY <1>1 DEF IdleSessionsAreOwned, Owns
<1>4. s \in sessions[a] => <<"removed", s>> \notin revoked[a]
  BY <1>1 DEF IdleSessionsAreOwned, RemovedIsDisowned, Owns
<1>5. IdleSessionsAreOwned'
  <2> SUFFICES ASSUME NEW b \in Agent, Idle(b)', NEW t \in sessions'[b]
               PROVE  Owns(b, t)'
    BY DEF IdleSessionsAreOwned
  <2>1. b # a /\ Idle(b) /\ t \in sessions[b]
    BY <1>2 DEF Idle
  <2>2. t # s /\ t \in Scope
    BY <1>3, <2>1
  <2>3. Owns(b, t)
    BY <2>1 DEF IdleSessionsAreOwned
  <2> QED
    BY <1>2, <2>1, <2>2, <2>3 DEF Owns
<1>6. RemovedIsDisowned'
  <2> SUFFICES ASSUME NEW b \in Agent, NEW t \in sessions[b],
                      <<"removed", t>> \in revoked[b]
               PROVE  owner'[t].agent # b
    BY <1>2 DEF RemovedIsDisowned
  <2>1. owner[t].agent # b /\ t \in Scope
    BY DEF RemovedIsDisowned
  <2> QED
    BY <1>2, <1>4, <2>1
<1> QED
  BY <1>5, <1>6

(* A rotation without a turn to signal, and the removal of a channel. *)
LEMMA SessionInvInvalidate ==
    ASSUME SessionInv, SlotInv', NEW gone \in SUBSET Scope,
           NEW how \in {"rotated", "removed"}, Invalidate(gone, how), UNCHANGED state
    PROVE  SessionInv'
<1> USE DEF SessionInv, SlotInv, TypeOK
<1>1. IdleSessionsAreOwned'
  BY DEF IdleSessionsAreOwned, Owns, Invalidate, Idle
<1>2. RemovedIsDisowned'
  <2> SUFFICES ASSUME NEW b \in Agent, NEW t \in sessions'[b],
                      <<"removed", t>> \in revoked'[b]
               PROVE  owner'[t].agent # b
    BY DEF RemovedIsDisowned
  <2>1. t \in sessions[b] /\ t \in Scope
    BY DEF Invalidate
  <2>2. CASE t \in gone
    BY <2>1, <2>2, NoAgentIsNoSlot DEF Invalidate, NoOwner
  <2>3. CASE t \notin gone
    <3>1. <<"removed", t>> \in revoked[b]
      BY <2>3 DEF Invalidate
    <3> QED
      BY <2>1, <2>3, <3>1 DEF Invalidate, RemovedIsDisowned
  <2> QED
    BY <2>2, <2>3
<1> QED
  BY <1>1, <1>2

(* What a worker's turn, its end and its return do to its own sessions. *)
LEMMA SessionInvTurn ==
    ASSUME SessionInv, SlotInv', NEW a \in Agent,
           \/ StartPrompt(a) \/ SendResult(a) \/ ReturnAgent(a)
           \/ ReplaceAgent(a) \/ Panic(a)
    PROVE  SessionInv'
<1> USE DEF SessionInv, SlotInv, TypeOK
<1>1. CASE StartPrompt(a)
  <2>1. IdleSessionsAreOwned'
    BY <1>1 DEF StartPrompt, IdleSessionsAreOwned, Owns, Idle
  <2>2. RemovedIsDisowned'
    <3>1. CASE task[a] \in Scope \ sessions[a]
      <4>1. /\ sessions' = [sessions EXCEPT ![a] = @ \cup {task[a]}]
            /\ revoked' = [revoked EXCEPT ![a] =
                              @ \ ({"rotated", "removed"} \X {task[a]})]
            /\ owner' = owner
        BY <1>1, <3>1 DEF StartPrompt
      <4>2. <<"removed", task[a]>> \notin revoked'[a]
        BY <4>1
      <4>3. \A b \in Agent : revoked'[b] \subseteq revoked[b]
        BY <4>1
      <4>4. \A b \in Agent : \A t \in sessions'[b] :
               t \in sessions[b] \/ (b = a /\ t = task[a])
        BY <4>1
      <4> QED
        BY <4>1, <4>2, <4>3, <4>4 DEF RemovedIsDisowned
    <3>2. CASE task[a] \notin Scope \ sessions[a]
      BY <1>1, <3>2 DEF StartPrompt, RemovedIsDisowned
    <3> QED
      BY <3>1, <3>2
  <2> QED
    BY <2>1, <2>2
<1>2. CASE SendResult(a)
  <2>1. \A b \in Agent : sessions'[b] \subseteq sessions[b] /\ (b # a => gens'[b] = gens[b])
    BY <1>2 DEF SendResult, Forget
  <2>2. IdleSessionsAreOwned'
    BY <1>2, <2>1 DEF SendResult, IdleSessionsAreOwned, Owns, Idle
  <2>3. RemovedIsDisowned'
    BY <1>2, <2>1 DEF SendResult, RemovedIsDisowned
  <2> QED
    BY <2>2, <2>3
<1>3. CASE ReturnAgent(a)
  <2> DEFINE gone == {s \in Scope : ~Owns(a, s) \/ ChannelOf[s] \in removed}
  <2>1. /\ sessions' = [sessions EXCEPT ![a] = @ \ gone]
        /\ gens' = [gens EXCEPT ![a] = [s \in Scope |-> IF s \in gone THEN 0 ELSE @[s]]]
        /\ state' = [state EXCEPT ![a] = "idle"]
        /\ UNCHANGED <<owner, revoked>>
    BY <1>3 DEF ReturnAgent, Forget
  <2>2. IdleSessionsAreOwned'
    <3> SUFFICES ASSUME NEW b \in Agent, Idle(b)', NEW t \in sessions'[b]
                 PROVE  Owns(b, t)'
      BY DEF IdleSessionsAreOwned
    <3>1. CASE b = a
      <4>1. t \in sessions[a] /\ t \in Scope /\ t \notin gone
        BY <2>1, <3>1
      <4>2. Owns(a, t) /\ gens'[a][t] = gens[a][t]
        BY <2>1, <4>1
      <4> QED
        BY <2>1, <3>1, <4>1, <4>2 DEF Owns
    <3>2. CASE b # a
      BY <2>1, <3>2 DEF IdleSessionsAreOwned, Owns, Idle
    <3> QED
      BY <3>1, <3>2
  <2>3. RemovedIsDisowned'
    BY <2>1 DEF RemovedIsDisowned
  <2> QED
    BY <2>2, <2>3
<1>4. CASE ReplaceAgent(a) \/ Panic(a)
  <2>1. LoseWorker(a) /\ UNCHANGED owner
    BY <1>4 DEF ReplaceAgent, Panic
  <2>2. IdleSessionsAreOwned'
    BY <2>1 DEF LoseWorker, IdleSessionsAreOwned, Owns, Idle
  <2>3. RemovedIsDisowned'
    BY <2>1 DEF LoseWorker, RemovedIsDisowned
  <2> QED
    BY <2>2, <2>3
<1> QED
  BY <1>1, <1>2, <1>3, <1>4

LEMMA SessionInvNext == SessionInv /\ [Next]_vars => SessionInv'
<1> SUFFICES ASSUME SessionInv, [Next]_vars PROVE SessionInv'
  OBVIOUS
<1> USE DEF lifeVars, slotVars, circuitVars
<1>0. SlotInv'
  BY SlotInvNext DEF SessionInv
<1>1. CASE UNCHANGED vars
  BY <1>0, <1>1, SessionInvFrame DEF vars, Idle
<1>2. ASSUME NEW s \in Scope, Hold(s) \/ Unhold(s) \/ Request(s) \/ Withdraw(s)
      PROVE  SessionInv'
  BY <1>0, <1>2, SessionInvFrame DEF Hold, Unhold, Request, Withdraw, Idle
<1>3. ASSUME NEW s \in Scope, Claim(s) PROVE SessionInv'
  BY <1>0, <1>3, SessionInvClaim
<1>4. ASSUME NEW s \in Scope, Interrupt(s) PROVE SessionInv'
  BY <1>0, <1>4, SessionInvFrame DEF Interrupt, Idle
<1>5. ASSUME NEW s \in Scope, Rotate(s) PROVE SessionInv'
  <2>1. CASE UNCHANGED <<sessions, gens, owner, heldFor>> /\ Signal(s)
    <3>1. \A a \in Agent : \A t :
             <<"removed", t>> \in revoked'[a] => <<"removed", t>> \in revoked[a]
      BY <1>5, <2>1 DEF Rotate, Invalidate
    <3> QED
      BY <1>0, <1>5, <2>1, <3>1
         DEF Rotate, SessionInv, IdleSessionsAreOwned, RemovedIsDisowned, Owns, Idle
  <2>2. CASE Invalidate({s}, "rotated")
    BY <1>0, <1>5, <2>2, SessionInvInvalidate DEF Rotate
  <2> QED
    BY <1>5, <2>1, <2>2 DEF Rotate
<1>6. ASSUME NEW c \in Channel, RemoveChannel(c) PROVE SessionInv'
  BY <1>0, <1>6, SessionInvInvalidate DEF RemoveChannel
<1>7. ASSUME NEW c \in Channel, Rejoin(c) PROVE SessionInv'
  BY <1>0, <1>7, SessionInvFrame DEF Rejoin, Idle
<1>8. CASE ClaimHeartbeat
  BY <1>0, <1>8, SessionInvFrame DEF ClaimHeartbeat, Idle, SessionInv, SlotInv, TypeOK
<1>9. ASSUME NEW a \in Agent,
             \/ StartPrompt(a) \/ SendResult(a) \/ ReturnAgent(a)
             \/ ReplaceAgent(a) \/ Panic(a)
      PROVE  SessionInv'
  BY <1>0, <1>9, SessionInvTurn
<1>10. ASSUME NEW a \in Agent, RespawnSucceeded(a) PROVE SessionInv'
  <2>1. sessions[a] = {}
    BY <1>10 DEF RespawnSucceeded, SessionInv, SlotInv, RespawnFillsEmptySlot,
                 EmptySlotHasNoSession
  <2> QED
    BY <1>0, <1>10, <2>1, SessionInvFrame
       DEF RespawnSucceeded, Idle, SessionInv, SlotInv, TypeOK
<1>11. ASSUME NEW a \in Agent, RespawnFailed(a) \/ Refill(a) PROVE SessionInv'
  BY <1>0, <1>11, SessionInvFrame DEF RespawnFailed, Refill, Idle
<1>12. CASE StartWake \/ WakeFailed
  BY <1>0, <1>12, SessionInvFrame DEF StartWake, WakeFailed, Idle
<1>13. CASE WakeSucceeded
  <2>1. \A a \in Agent : sessions[a] = {}
    BY <1>13 DEF WakeSucceeded, SessionInv, SlotInv, SleepLeavesNoTrace
  <2> QED
    BY <1>0, <1>13, <2>1, SessionInvFrame DEF WakeSucceeded
<1>14. CASE Sleep
  BY <1>0, <1>14 DEF Sleep, SessionInv, IdleSessionsAreOwned, RemovedIsDisowned
<1>15. CASE Tick
  BY <1>0, <1>15, SessionInvFrame DEF Tick, Idle
<1> QED
  BY <1>1, <1>2, <1>3, <1>4, <1>5, <1>6, <1>7, <1>8, <1>9, <1>10, <1>11, <1>12,
     <1>13, <1>14, <1>15 DEF Next

(* Whatever was forked, rotated, removed or lost while a worker was checked *)
(* out, the sessions it is claimed with are the ones the directory names.   *)
THEOREM SessionsAreOwned == Spec => []IdleSessionsAreOwned
<1>1. SessionInv => IdleSessionsAreOwned
  BY DEF SessionInv
<1> QED
  BY <1>1, SessionInvInit, SessionInvNext, PTL DEF Spec

(* A session from before its channel's removal is never claimed again, even *)
(* after a rejoin that empties removed_channels before the worker returns.  *)
THEOREM RemovedSessionsAreGone == Spec => []RemovedSessionIsGone
<1>1. SessionInv => RemovedSessionIsGone
  BY DEF SessionInv, IdleSessionsAreOwned, RemovedIsDisowned, RemovedSessionIsGone, Owns
<1> QED
  BY <1>1, SessionInvInit, SessionInvNext, PTL DEF Spec

-----------------------------------------------------------------------------
(* Holds. *)

(* A step that ends a hold which has run out has taken the scope's work,   *)
(* or dropped it, or found no session to wait for.                         *)
LEMMA HoldStep ==
    ASSUME TypeOK, Next, NEW s \in Scope,
           heldFor[s] = HoldTimeout, heldFor'[s] # HoldTimeout
    PROVE  s \notin wanted' \/ owner'[s].agent = NoAgent \/ ~ShouldHold(s)
<1> USE DEF lifeVars, slotVars, circuitVars
<1>0. heldFor[s] # NotHeld
  BY PoolAssumption DEF NotHeld
<1>1. ASSUME NEW t \in Scope, Hold(t) PROVE FALSE
  BY <1>0, <1>1 DEF Hold, TypeOK
<1>2. ASSUME NEW t \in Scope, Unhold(t) PROVE ~ShouldHold(s)
  BY <1>2 DEF Unhold, TypeOK
<1>3. ASSUME NEW t \in Scope, Claim(t) \/ Withdraw(t) PROVE s \notin wanted'
  BY <1>3 DEF Claim, Withdraw, TypeOK
<1>4. ASSUME NEW t \in Scope, Request(t) \/ Interrupt(t) PROVE FALSE
  BY <1>4 DEF Request, Interrupt
<1>5. ASSUME NEW gone, NEW how, Invalidate(gone, how) PROVE owner'[s].agent = NoAgent
  BY <1>5 DEF Invalidate, NoOwner
<1>6. ASSUME NEW t \in Scope, Rotate(t) PROVE owner'[s].agent = NoAgent
  BY <1>5, <1>6 DEF Rotate
<1>7. ASSUME NEW c \in Channel, RemoveChannel(c) \/ Rejoin(c)
      PROVE  owner'[s].agent = NoAgent
  BY <1>5, <1>7 DEF RemoveChannel, Rejoin
<1>8. ASSUME NEW a \in Agent,
             \/ StartPrompt(a) \/ SendResult(a) \/ ReturnAgent(a) \/ ReplaceAgent(a)
             \/ Panic(a) \/ RespawnSucceeded(a) \/ RespawnFailed(a) \/ Refill(a)
      PROVE  FALSE
  BY <1>8 DEF StartPrompt, SendResult, ReturnAgent, ReplaceAgent, Panic,
              RespawnSucceeded, RespawnFailed, Refill
<1>9. ASSUME ClaimHeartbeat \/ StartWake \/ WakeSucceeded \/ WakeFailed PROVE FALSE
  BY <1>9 DEF ClaimHeartbeat, StartWake, WakeSucceeded, WakeFailed
<1>10. ASSUME Sleep PROVE owner'[s].agent = NoAgent
  BY <1>10 DEF Sleep, NoOwner
<1>11. ASSUME Tick PROVE FALSE
  BY <1>11, PoolAssumption DEF Tick
<1> QED
  BY <1>1, <1>2, <1>3, <1>4, <1>6, <1>7, <1>8, <1>9, <1>10, <1>11 DEF Next

(* The window of a hold for a busy owner is never started again while the  *)
(* scope still waits for it, however often the pool is exhausted meanwhile. *)
THEOREM ExpiredHoldsAreSticky == Spec => ExpiredHoldIsSticky
<1>1. ASSUME TypeOK, [Next]_vars
      PROVE  [\A s \in Scope :
                 heldFor[s] = HoldTimeout /\ heldFor'[s] # HoldTimeout =>
                     s \notin wanted' \/ owner'[s].agent = NoAgent \/ ~ShouldHold(s)]_vars
  BY <1>1, HoldStep DEF vars
<1> QED
  BY <1>1, TypeCorrect, PTL DEF Spec, ExpiredHoldIsSticky

=============================================================================
