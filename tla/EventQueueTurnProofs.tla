------------------------ MODULE EventQueueTurnProofs ------------------------
(***************************************************************************)
(* What holds of the turns the event queue hands out: each scope in flight *)
(* has a deadline, turns that meet it never share a scope, and the         *)
(* carry-over of an interrupted turn keeps the reason that frames it.      *)
(***************************************************************************)
EXTENDS EventQueueProofs

-----------------------------------------------------------------------------
(* In-flight markers and deadlines. *)

FlightInv == TypeOK /\ InFlightHasDeadline

(* mark_complete drops both for one scope, whichever turn it is called for. *)
LEMMA MarkCompleteKeepsFlight ==
    ASSUME FlightInv, NEW s \in Scope, NEW ra, NEW rc, MarkComplete(s, ra, rc)
    PROVE  InFlightHasDeadline'
BY DEF FlightInv, TypeOK, InFlightHasDeadline, MarkComplete

LEMMA TakeInFlightKeepsFlight ==
    ASSUME FlightInv, NEW s \in Scope, TakeInFlight(s)
    PROVE  InFlightHasDeadline'
<1>1. TurnDeadline # NoDeadline
  BY ConstantsAssumption DEF NoDeadline
<1> QED
  BY <1>1 DEF FlightInv, TypeOK, InFlightHasDeadline, TakeInFlight

LEMMA FlightNext ==
    ASSUME FlightInv, QueueInv, [Next]_vars
    PROVE  InFlightHasDeadline'
<1> USE DEF FlightInv, TypeOK
<1>1. CASE UNCHANGED <<inFlight, deadline>>
  BY <1>1 DEF InFlightHasDeadline
<1>2. ASSUME NEW s \in Scope, Push(s) \/ PushRefused(s) \/ SteerPush(s)
      PROVE  UNCHANGED <<inFlight, deadline>>
  BY <1>2 DEF Push, PushRefused, SteerPush, queueVars
<1>3. ASSUME NEW s \in Scope, ExpireInFlight(s) PROVE InFlightHasDeadline'
  BY <1>3 DEF ExpireInFlight, InFlightHasDeadline
<1>4. ASSUME NEW s \in Scope, FlushCancelled(s) PROVE InFlightHasDeadline'
  BY <1>4, TakeInFlightKeepsFlight DEF FlushCancelled
<1>5. CASE Flush
  <2>1. Ready # {} /\ TakeInFlight(OldestHead(queues, Ready))
    BY <1>5 DEF Flush
  <2>2. OldestHead(queues, Ready) \in Scope
    BY <2>1, FlushedScope DEF Ready
  <2> QED
    BY <2>1, <2>2, TakeInFlightKeepsFlight
<1>6. ASSUME NEW b \in held, ReturnHeld(b) PROVE InFlightHasDeadline'
  BY <1>6, MarkCompleteKeepsFlight DEF ReturnHeld, Batch
<1>7. ASSUME NEW b \in turns, TurnReturns(b) PROVE InFlightHasDeadline'
  <2>1. \E ra, rc : MarkComplete(b.scope, ra, rc)
    BY <1>7 DEF TurnReturns, TurnSucceeded, TurnDiscarded, TurnDeadLettered, TurnFailed,
                TurnCancelled
  <2> QED
    BY <2>1, MarkCompleteKeepsFlight DEF Batch
<1>8. ASSUME NEW a \in steers, SteerDelivered(a[1], a[2]) PROVE InFlightHasDeadline'
  <2>1. ExtendInFlightDeadline(a[1]) /\ UNCHANGED inFlight
    BY <1>8 DEF SteerDelivered
  <2>2. TurnDeadline # NoDeadline
    BY ConstantsAssumption DEF NoDeadline
  <2> QED
    BY <2>1, <2>2 DEF ExtendInFlightDeadline, InFlightHasDeadline
<1>9. ASSUME NEW a \in steers, SteerReleased(a[1], a[2]) PROVE UNCHANGED <<inFlight, deadline>>
  BY <1>9 DEF SteerReleased
<1>10. ASSUME NEW c \in Channel, Drain(c) \/ Rejoin(c) PROVE UNCHANGED <<inFlight, deadline>>
  BY <1>10 DEF Drain, Rejoin, queueVars
<1>11. CASE CompactExpiredState
  BY <1>1, <1>11 DEF CompactExpiredState
<1>12. CASE Tick
  <2>1. \A s \in Scope : deadline'[s] = NoDeadline <=> deadline[s] = NoDeadline
    BY <1>12, ConstantsAssumption DEF Tick, NoDeadline
  <2> QED
    BY <1>12, <2>1 DEF Tick, InFlightHasDeadline
<1>13. CASE UNCHANGED vars
  BY <1>1, <1>13 DEF vars
<1> QED
  BY <1>1, <1>2, <1>3, <1>4, <1>5, <1>6, <1>7, <1>8, <1>9, <1>10, <1>11, <1>12, <1>13
     DEF Next

LEMMA FlightInit == Init => InFlightHasDeadline
BY DEF Init, InFlightHasDeadline

(* A scope is in flight exactly while it has a deadline, whatever late     *)
(* results, late steer acknowledgements and drains meet: no scope is ever  *)
(* blocked without the backstop of flush_next that frees it.               *)
THEOREM InFlightAlwaysHasDeadline == Spec => []InFlightHasDeadline
<1>1. Init => QueueInv /\ InFlightHasDeadline
  BY InvInit, FlightInit
<1>2. QueueInv /\ InFlightHasDeadline /\ [Next]_vars => (QueueInv /\ InFlightHasDeadline)'
  BY InvNext, FlightNext DEF FlightInv, QueueInv
<1> QED
  BY <1>1, <1>2, PTL DEF Spec

-----------------------------------------------------------------------------
(* One turn per scope, when turns meet their deadline. *)

(* A batch is either held or running, and its scope's deadline is ahead. *)
BatchesMeetDeadline ==
    /\ turns \cap held = {}
    /\ \A b \in turns \cup held : deadline[b.scope] > 0

TurnInv == TypeOK /\ InFlightHasDeadline /\ OneTurnPerScope /\ BatchesMeetDeadline

(* The step that gives a scope its turn: no other batch has that scope. *)
LEMMA TurnTaken ==
    ASSUME TurnInv, NEW b \in Batch, b.scope \notin inFlight, HandOver(b), TakeInFlight(b.scope)
    PROVE  (OneTurnPerScope /\ BatchesMeetDeadline)'
<1> USE DEF TurnInv, TypeOK
<1>1. b.scope \in Scope
  BY DEF Batch
<1>2. b \notin turns \cup held /\ \A x \in turns \cup held : x.scope # b.scope
  BY DEF OneTurnPerScope
<1>3. turns' \cup held' = turns \cup held \cup {b} /\ turns' \cap held' = {}
  BY <1>2 DEF HandOver, BatchesMeetDeadline
<1>4. OneTurnPerScope'
  <2>1. \A x, y \in turns' \cup held' : x.scope = y.scope => x = y
    BY <1>2, <1>3 DEF OneTurnPerScope
  <2>2. inFlight' = inFlight \cup {b.scope}
    BY DEF TakeInFlight
  <2>3. inFlight' = {x.scope : x \in turns' \cup held'}
    BY <1>3, <2>2 DEF OneTurnPerScope
  <2> QED
    BY <2>1, <2>3 DEF OneTurnPerScope
<1>5. \A x \in turns' \cup held' : deadline'[x.scope] > 0
  <2> SUFFICES ASSUME NEW x \in turns' \cup held' PROVE deadline'[x.scope] > 0
    OBVIOUS
  <2>1. CASE x = b
    BY <1>1, <2>1, ConstantsAssumption DEF TakeInFlight
  <2>2. CASE x \in turns \cup held
    <3>1. x.scope # b.scope /\ x.scope \in Scope
      BY <1>2, <2>2 DEF Batch
    <3> QED
      BY <2>2, <3>1 DEF TakeInFlight, BatchesMeetDeadline
  <2> QED
    BY <1>3, <2>1, <2>2
<1> QED
  BY <1>3, <1>4, <1>5 DEF BatchesMeetDeadline

(* The step that ends it: the marker it drops is its own. *)
LEMMA TurnEnded ==
    ASSUME TurnInv, NEW b \in turns \cup held, NEW ra, NEW rc, MarkComplete(b.scope, ra, rc),
           \/ b \in turns /\ turns' = turns \ {b} /\ held' = held
           \/ b \in held /\ held' = held \ {b} /\ turns' = turns
    PROVE  (OneTurnPerScope /\ BatchesMeetDeadline)'
<1> USE DEF TurnInv, TypeOK
<1>1. turns' \cup held' = (turns \cup held) \ {b} /\ turns' \cap held' = {}
  BY DEF BatchesMeetDeadline
<1>2. \A x \in turns' \cup held' : x \in turns \cup held /\ x.scope # b.scope
  BY <1>1 DEF OneTurnPerScope
<1>3. OneTurnPerScope'
  <2>1. inFlight' = inFlight \ {b.scope}
    BY DEF MarkComplete
  <2> QED
    BY <1>1, <1>2, <2>1 DEF OneTurnPerScope
<1>4. \A x \in turns' \cup held' : deadline'[x.scope] > 0
  <2> SUFFICES ASSUME NEW x \in turns' \cup held' PROVE deadline'[x.scope] > 0
    OBVIOUS
  <2>1. x \in turns \cup held /\ x.scope # b.scope /\ x.scope \in Scope
    BY <1>2 DEF Batch
  <2>2. deadline'[x.scope] = deadline[x.scope]
    BY <2>1 DEF MarkComplete
  <2> QED
    BY <2>1, <2>2 DEF BatchesMeetDeadline
<1> QED
  BY <1>1, <1>3, <1>4 DEF BatchesMeetDeadline

LEMMA TurnNext ==
    ASSUME LateTurns = FALSE, TurnInv, [Next]_vars
    PROVE  (OneTurnPerScope /\ BatchesMeetDeadline)'
<1> USE DEF TurnInv, TypeOK
<1>1. CASE UNCHANGED <<inFlight, deadline, turns, held>>
  BY <1>1 DEF OneTurnPerScope, BatchesMeetDeadline
<1>2. ASSUME NEW s \in Scope, Push(s) \/ PushRefused(s) \/ SteerPush(s)
      PROVE  UNCHANGED <<inFlight, deadline, turns, held>>
  BY <1>2 DEF Push, PushRefused, SteerPush, queueVars
<1>3. ASSUME NEW s \in Scope, ExpireInFlight(s) PROVE FALSE
  <2>1. deadline[s] = 0
    BY <1>3 DEF ExpireInFlight, Overdue
  <2>2. s \in inFlight
    BY <2>1 DEF InFlightHasDeadline, NoDeadline
  <2>3. PICK b \in turns \cup held : b.scope = s
    BY <2>2 DEF OneTurnPerScope
  <2> QED
    BY <2>1, <2>3 DEF BatchesMeetDeadline
<1>4. ASSUME NEW s \in Scope, FlushCancelled(s)
      PROVE  (OneTurnPerScope /\ BatchesMeetDeadline)'
  <2> DEFINE b == [scope |-> s, events |-> cancelled[s], cancelled |-> <<>>,
                   reason |-> cancelReason[s]]
  <2>1. b \in Batch /\ b.scope = s
    BY EmptySeq DEF Batch
  <2>2. s \notin inFlight /\ HandOver(b) /\ TakeInFlight(s)
    BY <1>4 DEF FlushCancelled
  <2> HIDE DEF b
  <2> QED
    BY <2>1, <2>2, TurnTaken
<1>5. CASE Flush
  <2> DEFINE s == OldestHead(queues, Ready)
             n == IF Len(queues[s]) < MaxBatch THEN Len(queues[s]) ELSE MaxBatch
             taken == SubSeq(queues[s], 1, n)
             batch(evs) == [scope |-> s, events |-> evs, cancelled |-> cancelled[s],
                            reason |-> IF cancelled[s] = <<>> THEN "none"
                                       ELSE cancelReason[s]]
  <2>1. /\ Ready # {} /\ TakeInFlight(s)
        /\ \E evs \in SortedByCreation(taken) : HandOver(batch(evs))
    BY <1>5 DEF Flush
  <2>2. s \in Ready /\ taken \in Seq(Event)
    BY <2>1, FlushedScope
  <2> HIDE DEF s, taken
  <2>3. PICK evs \in SortedByCreation(taken) : HandOver(batch(evs))
    BY <2>1
  <2>4. batch(evs) \in Batch /\ batch(evs).scope = s /\ s \notin inFlight
    <3>1. s \in Scope /\ s \notin inFlight
      BY <2>2 DEF Ready
    <3>2. evs \in Seq(Event)
      BY <2>2, SortedIsSeq
    <3> QED
      BY <3>1, <3>2 DEF Batch, Reason
  <2> HIDE DEF batch
  <2> QED
    BY <2>1, <2>3, <2>4, TurnTaken
<1>6. ASSUME NEW b \in held, ReturnHeld(b)
      PROVE  (OneTurnPerScope /\ BatchesMeetDeadline)'
  <2>1. MarkComplete(b.scope, retryAfter, retryCount) /\ held' = held \ {b} /\ turns' = turns
    BY <1>6 DEF ReturnHeld
  <2> QED
    BY <2>1, TurnEnded
<1>7. ASSUME NEW b \in turns, TurnReturns(b)
      PROVE  (OneTurnPerScope /\ BatchesMeetDeadline)'
  <2>1. \E ra, rc : MarkComplete(b.scope, ra, rc)
    BY <1>7 DEF TurnReturns, TurnSucceeded, TurnDiscarded, TurnDeadLettered, TurnFailed,
                TurnCancelled
  <2>2. turns' = turns \ {b} /\ held' = held
    BY <1>7 DEF TurnReturns, TurnSucceeded, TurnDiscarded, TurnDeadLettered, TurnFailed,
                TurnCancelled, Returns
  <2> QED
    BY <2>1, <2>2, TurnEnded
<1>8. ASSUME NEW a \in steers, SteerDelivered(a[1], a[2])
      PROVE  (OneTurnPerScope /\ BatchesMeetDeadline)'
  <2>1. ExtendInFlightDeadline(a[1]) /\ UNCHANGED <<inFlight, turns, held>>
    BY <1>8 DEF SteerDelivered
  <2>2. \A s \in Scope : deadline[s] > 0 => deadline'[s] > 0
    BY <2>1, ConstantsAssumption DEF ExtendInFlightDeadline, NoDeadline
  <2> QED
    BY <2>1, <2>2 DEF OneTurnPerScope, BatchesMeetDeadline, Batch
<1>9. ASSUME NEW a \in steers, SteerReleased(a[1], a[2])
      PROVE  UNCHANGED <<inFlight, deadline, turns, held>>
  BY <1>9 DEF SteerReleased
<1>10. ASSUME NEW c \in Channel, Drain(c) \/ Rejoin(c)
       PROVE  UNCHANGED <<inFlight, deadline, turns, held>>
  BY <1>10 DEF Drain, Rejoin, queueVars
<1>11. CASE CompactExpiredState
  BY <1>1, <1>11 DEF CompactExpiredState
<1>12. CASE Tick
  <2>1. held = {} /\ UNCHANGED <<inFlight, turns, held>> /\ \A b \in turns : deadline[b.scope] > 1
    BY <1>12 DEF Tick
  <2>2. \A s \in Scope : deadline[s] > 1 => deadline'[s] > 0
    <3> SUFFICES ASSUME NEW s \in Scope, deadline[s] > 1 PROVE deadline'[s] > 0
      OBVIOUS
    <3>1. deadline[s] \in Int
      BY ConstantsAssumption DEF NoDeadline
    <3>2. deadline'[s] = IF deadline[s] > 0 THEN deadline[s] - 1 ELSE deadline[s]
      BY <1>12 DEF Tick
    <3> QED
      BY <3>1, <3>2
  <2> QED
    BY <2>1, <2>2 DEF OneTurnPerScope, BatchesMeetDeadline, Batch
<1>13. CASE UNCHANGED vars
  BY <1>1, <1>13 DEF vars
<1> QED
  BY <1>1, <1>2, <1>3, <1>4, <1>5, <1>6, <1>7, <1>8, <1>9, <1>10, <1>11, <1>12, <1>13
     DEF Next

(* While turns return before their in-flight deadline, which the buffer    *)
(* over a turn's hard cap is for, no scope ever has two turns, every turn  *)
(* owns its scope's marker, and no marker is left without a turn.          *)
THEOREM OneTurnAtATime ==
    ASSUME LateTurns = FALSE
    PROVE  Spec => []OneTurnPerScope
<1> DEFINE Inv == QueueInv /\ InFlightHasDeadline /\ OneTurnPerScope /\ BatchesMeetDeadline
<1>1. Init => Inv
  BY InvInit, FlightInit DEF Init, OneTurnPerScope, BatchesMeetDeadline
<1>2. Inv /\ [Next]_vars => Inv'
  BY InvNext, FlightNext, TurnNext DEF FlightInv, TurnInv, QueueInv
<1>3. Inv => OneTurnPerScope
  OBVIOUS
<1> HIDE DEF Inv
<1> QED
  BY <1>1, <1>2, <1>3, PTL DEF Spec

-----------------------------------------------------------------------------
(* The carry-over of interrupted turns. *)

(* Every batch has events of its own, and a reason if it has carry-over. *)
BatchesCarryReason ==
    \A b \in turns \cup held :
        b.events # <<>> /\ (b.cancelled # <<>> => b.reason # "none")

CarryInv == TypeOK /\ CarryoverHasReason /\ BatchesCarryReason

LEMMA CarryNext ==
    ASSUME CarryInv, [Next]_vars
    PROVE  (CarryoverHasReason /\ BatchesCarryReason)'
<1> USE DEF CarryInv, TypeOK
<1>1. CASE UNCHANGED <<cancelled, cancelReason>> /\ turns' \cup held' \subseteq turns \cup held
  BY <1>1 DEF CarryoverHasReason, BatchesCarryReason
<1>2. ASSUME NEW s \in Scope, Push(s) \/ PushRefused(s) \/ SteerPush(s) \/ ExpireInFlight(s)
      PROVE  UNCHANGED <<cancelled, cancelReason>> /\ turns' \cup held' \subseteq turns \cup held
  BY <1>2 DEF Push, PushRefused, SteerPush, ExpireInFlight, queueVars
<1>3. ASSUME NEW s \in Scope, TakeInFlight(s) PROVE CarryoverHasReason'
  BY <1>3 DEF TakeInFlight, CarryoverHasReason
<1>4. ASSUME NEW b, HandOver(b), b.events # <<>>, b.cancelled # <<>> => b.reason # "none"
      PROVE  BatchesCarryReason'
  BY <1>4 DEF HandOver, BatchesCarryReason
<1>5. ASSUME NEW s \in Scope, FlushCancelled(s) PROVE (CarryoverHasReason /\ BatchesCarryReason)'
  <2> DEFINE b == [scope |-> s, events |-> cancelled[s], cancelled |-> <<>>,
                   reason |-> cancelReason[s]]
  <2>1. b.events # <<>> /\ b.cancelled = <<>>
    BY <1>5 DEF FlushCancelled
  <2>2. HandOver(b) /\ TakeInFlight(s)
    BY <1>5 DEF FlushCancelled
  <2> HIDE DEF b
  <2> QED
    BY <1>3, <1>4, <2>1, <2>2
<1>6. CASE Flush
  <2> DEFINE s == OldestHead(queues, Ready)
             n == IF Len(queues[s]) < MaxBatch THEN Len(queues[s]) ELSE MaxBatch
             taken == SubSeq(queues[s], 1, n)
             batch(evs) == [scope |-> s, events |-> evs, cancelled |-> cancelled[s],
                            reason |-> IF cancelled[s] = <<>> THEN "none"
                                       ELSE cancelReason[s]]
  <2>1. /\ Ready # {} /\ TakeInFlight(s)
        /\ \E evs \in SortedByCreation(taken) : HandOver(batch(evs))
    BY <1>6 DEF Flush
  <2>2. s \in Ready /\ taken \in Seq(Event) /\ Len(taken) \in Nat \ {0}
    BY <2>1, FlushedScope
  <2> HIDE DEF s, taken
  <2>3. s \in Scope
    BY <2>2 DEF Ready
  <2>4. PICK evs \in SortedByCreation(taken) : HandOver(batch(evs))
    BY <2>1
  <2>5. evs \in Seq(Event) /\ Len(evs) \in Nat \ {0}
    BY <2>2, SortedIsSeq
  <2>6. evs # <<>>
    BY <2>5, EmptySeq
  <2>7. /\ batch(evs).events # <<>>
        /\ batch(evs).cancelled # <<>> => batch(evs).reason # "none"
    BY <2>3, <2>6 DEF CarryoverHasReason
  <2> HIDE DEF batch
  <2> QED
    BY <1>3, <1>4, <2>1, <2>3, <2>4, <2>7
<1>7. ASSUME NEW b \in held, ReturnHeld(b) PROVE (CarryoverHasReason /\ BatchesCarryReason)'
  <2> DEFINE s == b.scope
  <2>1. s \in Scope /\ b.cancelled \in Seq(Event) /\ cancelled[s] \in Seq(Event)
    BY DEF Batch
  <2>2. b.cancelled \o cancelled[s] = <<>> <=> b.cancelled = <<>> /\ cancelled[s] = <<>>
    BY <2>1, ConcatEqualIffEmpty
  <2>3. /\ cancelled' = [cancelled EXCEPT ![s] = b.cancelled \o cancelled[s]]
        /\ cancelReason' = [cancelReason EXCEPT ![s] =
                               IF b.cancelled # <<>> /\ cancelReason[s] = "none"
                               THEN b.reason ELSE cancelReason[s]]
        /\ held' = held \ {b} /\ turns' = turns
    BY <1>7 DEF ReturnHeld
  <2>4. b.cancelled # <<>> => b.reason # "none"
    BY DEF BatchesCarryReason
  <2>5. CarryoverHasReason'
    BY <2>1, <2>2, <2>3, <2>4 DEF CarryoverHasReason
  <2> QED
    BY <2>3, <2>5 DEF BatchesCarryReason
<1>8. ASSUME NEW b \in turns, TurnReturns(b) PROVE (CarryoverHasReason /\ BatchesCarryReason)'
  <2>1. turns' = turns \ {b} /\ held' = held
    BY <1>8 DEF TurnReturns, TurnSucceeded, TurnDiscarded, TurnDeadLettered, TurnFailed,
                TurnCancelled, Returns
  <2>2. CASE TurnSucceeded(b) \/ TurnDiscarded(b) \/ TurnDeadLettered(b) \/ TurnFailed(b)
    BY <1>1, <2>1, <2>2 DEF TurnSucceeded, TurnDiscarded, TurnDeadLettered, TurnFailed
  <2>3. ASSUME NEW reason \in {"steer", "interrupt"}, TurnCancelled(b, reason)
        PROVE  (CarryoverHasReason /\ BatchesCarryReason)'
    <3> DEFINE s == b.scope
               all == cancelled[s] \o b.cancelled \o b.events
    <3>1. /\ s \in Scope /\ b.cancelled \in Seq(Event) /\ b.events \in Seq(Event)
          /\ cancelled[s] \in Seq(Event)
      BY DEF Batch
    <3>2. b.events # <<>>
      BY DEF BatchesCarryReason
    <3>3. all # <<>>
      BY <3>1, <3>2, ConcatProperties, ConcatEqualIffEmpty
    <3>4. /\ cancelled' = [cancelled EXCEPT ![s] = all]
          /\ cancelReason' = [cancelReason EXCEPT ![s] = reason]
      BY <2>3 DEF TurnCancelled
    <3> HIDE DEF all
    <3>5. CarryoverHasReason'
      BY <3>1, <3>3, <3>4 DEF CarryoverHasReason
    <3> QED
      BY <2>1, <3>5 DEF BatchesCarryReason
  <2> QED
    BY <1>8, <2>2, <2>3 DEF TurnReturns
<1>9. ASSUME NEW a \in steers, SteerDelivered(a[1], a[2]) \/ SteerReleased(a[1], a[2])
      PROVE  UNCHANGED <<cancelled, cancelReason>> /\ turns' \cup held' \subseteq turns \cup held
  BY <1>9 DEF SteerDelivered, SteerReleased
<1>10. ASSUME NEW c \in Channel, Drain(c) PROVE (CarryoverHasReason /\ BatchesCarryReason)'
  BY <1>10 DEF Drain, Cleared, CarryoverHasReason, BatchesCarryReason
<1>11. ASSUME NEW c \in Channel, Rejoin(c)
       PROVE  UNCHANGED <<cancelled, cancelReason>> /\ turns' \cup held' \subseteq turns \cup held
  BY <1>11 DEF Rejoin, queueVars
<1>12. CASE CompactExpiredState \/ Tick
  BY <1>1, <1>12 DEF CompactExpiredState, Tick
<1>13. CASE UNCHANGED vars
  BY <1>1, <1>13 DEF vars
<1> QED
  BY <1>1, <1>2, <1>5, <1>6, <1>7, <1>8, <1>9, <1>10, <1>11, <1>12, <1>13 DEF Next

(* Interrupt on interrupt, held batches and drains never part carry-over   *)
(* from the reason that decides how the merged prompt is framed.           *)
THEOREM CarryoverAlwaysHasReason == Spec => []CarryoverHasReason
<1> DEFINE Inv == QueueInv /\ CarryoverHasReason /\ BatchesCarryReason
<1>1. Init => Inv
  BY InvInit DEF Init, CarryoverHasReason, BatchesCarryReason
<1>2. Inv /\ [Next]_vars => Inv'
  BY InvNext, CarryNext DEF CarryInv, QueueInv
<1>3. Inv => CarryoverHasReason
  OBVIOUS
<1> HIDE DEF Inv
<1> QED
  BY <1>1, <1>2, <1>3, PTL DEF Spec

=============================================================================
