------------------------- MODULE CommunityDeletion --------------------------
(***************************************************************************)
(* The deletion of one community from PostgreSQL, the object store and     *)
(* Redis (crates/buzz-deletion/src/lib.rs, the engine, and                 *)
(* crates/buzz-db/src/store/deletion.rs, the durable request).             *)
(*                                                                         *)
(* The operator starts executors, by the commands run and drain; there is  *)
(* no worker that polls.  An executor takes the request under an expiring  *)
(* lease and carries it stage by stage; it may stall past its lease,       *)
(* crash, or miss the answer to a transaction that committed.  Serving     *)
(* writers hold leases of their own while they write to the object store   *)
(* or to Redis, and a write that was sent may still land after the writer  *)
(* gave up or lost its lease.                                              *)
(*                                                                         *)
(* A transaction is one step, except where it checks the lease without a   *)
(* lock and then writes without checking again.  Time is abstracted to     *)
(* whether a lease is live.  One chunk of the manifest holds one object.   *)
(***************************************************************************)
EXTENDS Integers, FiniteSets, FiniteSetsExt, Functions

CONSTANTS
    Executor,      \* processes that run deletions
    Writer,        \* serving requests with an external side effect
    WasArchived,   \* is the community archived before any request?
    Object,        \* object versions under the tenant's prefixes, in listing order
    MaxRequests,   \* bound on the requests for the community
    MaxRetries,    \* the consecutive failures of a stage that block the request
    MaxFaults      \* bound on crashes, failed calls, lost answers, stalls and
                   \* an operator's remedies for them

Cache == 0
NoCall == -1
NoLease == -1
NoGen == 0
Nobody == "nobody"

ASSUME DeletionAssumption ==
    /\ Object \subseteq Nat \ {0} /\ Object # {} /\ IsFiniteSet(Object)
    /\ Nobody \notin Executor /\ WasArchived \in BOOLEAN
    /\ MaxRequests \in Nat /\ MaxRetries \in Nat \ {0} /\ MaxFaults \in Nat

VARIABLES
    req,       \* the community's row of community_deletion_requests
    comm,      \* its row of communities
    chunks,    \* community_deletion_manifest_keys: the object of a chunk_no
    stamped,   \* the chunk numbers with a deleted_at
    rows,      \* does any tenant table hold a row?
    objects,   \* what the object store holds
    cached,    \* does Redis hold a key of the tenant?
    ex,        \* an executor's place and what it remembers
    lease,     \* a writer's live serving lease: its fence generation
    wpc,       \* where a writer is
    call,      \* the write a writer has sent that has not landed
    faults,    \* faults so far
    strays     \* history: what landed in a closed community without a lease

vars == <<req, comm, chunks, stamped, rows, objects, cached, ex, lease, wpc,
          call, faults, strays>>
storeVars == <<rows, objects, cached, strays>>
chunkVars == <<chunks, stamped>>
writerVars == <<lease, wpc, call>>

Runnable == {"approved", "fenced", "drained", "bindings_removed",
             "postgres_purged", "cache_purged", "logically_verified"}
Terminal == {"retention_pending", "aborted"}
Stage == {"none", "submitted", "inventoried"} \cup Runnable \cup Terminal
(* DeletionStage::next, for the stages an executor leaves.                 *)
NextStage == [s \in Runnable |->
    CASE s = "approved" -> "fenced"
      [] s = "fenced" -> "drained"
      [] s = "drained" -> "bindings_removed"
      [] s = "bindings_removed" -> "postgres_purged"
      [] s = "postgres_purged" -> "cache_purged"
      [] s = "cache_purged" -> "logically_verified"
      [] s = "logically_verified" -> "retention_pending"]

(* Where execute_stage starts in each stage.                               *)
FirstStep == [s \in Runnable |->
    CASE s = "approved" -> "quiesce"
      [] s = "fenced" -> "drain_check"
      [] s = "drained" -> "next"
      [] s = "bindings_removed" -> "purge"
      [] s = "postgres_purged" -> "flush"
      [] s = "cache_purged" -> "verify_rows"
      [] s = "logically_verified" -> "mark_retention"]

PC == {"idle", "start", "done", "failed", "quiesce", "fence",
       "drain_check", "clear", "clearing", "list", "append",
       "appending", "freeze", "mark_drained", "next", "delete", "deleting",
       "stamp", "stamping", "mark_removed", "purge", "flush", "flushing",
       "mark_flushed", "verify_rows", "verify_storage", "verify_cache",
       "mark_verified", "mark_retention"}

NoManifest == {0}

NoRequest ==
    [id |-> 0, stage |-> "none", owner |-> Nobody, gen |-> 0, live |-> FALSE,
     blocked |-> FALSE, retries |-> 0, fgen |-> NoGen, manifest |-> NoManifest,
     quiesced |-> FALSE, preArchived |-> FALSE]

Idle == [pc |-> "idle", id |-> 0, gen |-> 0, fgen |-> NoGen, stage |-> "none",
         frozen |-> FALSE, seen |-> {}, cur |-> 0, permanent |-> FALSE]

TypeOK ==
    /\ req \in [id : 0..MaxRequests, stage : Stage, owner : Executor \cup {Nobody},
                gen : Nat, live : BOOLEAN, blocked : BOOLEAN,
                retries : 0..MaxRetries, fgen : Nat,
                manifest : {NoManifest} \cup SUBSET Object,
                quiesced : BOOLEAN, preArchived : BOOLEAN]
    /\ comm \in [state : {"active", "quiescing", "fenced", "tombstone"},
                 gen : Nat, archived : BOOLEAN]
    /\ DOMAIN chunks \subseteq 1..Cardinality(Object) /\ Range(chunks) \subseteq Object
    /\ stamped \subseteq DOMAIN chunks
    /\ rows \in BOOLEAN /\ cached \in BOOLEAN /\ objects \subseteq Object
    /\ ex \in [Executor -> [pc : PC, id : 0..MaxRequests, gen : Nat, fgen : Nat,
                            stage : Stage, frozen : BOOLEAN, seen : SUBSET Object,
                            cur : Nat, permanent : BOOLEAN]]
    /\ lease \in [Writer -> Nat \cup {NoLease}]
    /\ wpc \in [Writer -> {"idle", "admitted", "io", "landed"}]
    /\ call \in [Writer -> Object \cup {Cache, NoCall}]
    /\ faults \in 0..MaxFaults
    /\ strays \subseteq Object \cup {Cache}

Init ==
    /\ req = NoRequest
    /\ comm = [state |-> "active", gen |-> 0, archived |-> WasArchived]
    /\ chunks = <<>> /\ stamped = {}
    /\ rows = TRUE /\ objects = {Min(Object)} /\ cached = TRUE
    /\ ex = [e \in Executor |-> Idle]
    /\ lease = [w \in Writer |-> NoLease]
    /\ wpc = [w \in Writer |-> "idle"]
    /\ call = [w \in Writer |-> NoCall]
    /\ faults = 0 /\ strays = {}

(***************************************************************************)
(* The operator's side of the request.                                     *)
(***************************************************************************)

Submit ==
    /\ comm.state = "active"
    /\ req.stage \in {"none", "aborted"}
    /\ req.id < MaxRequests
    /\ req' = [NoRequest EXCEPT !.id = req.id + 1, !.stage = "submitted"]
    /\ chunks' = <<>> /\ stamped' = {}
    /\ UNCHANGED <<comm, storeVars, ex, writerVars, faults>>

FreezeInventory ==
    /\ req.stage = "submitted" /\ ~req.blocked
    /\ req' = [req EXCEPT !.stage = "inventoried"]
    /\ UNCHANGED <<comm, chunkVars, storeVars, ex, writerVars, faults>>

Approve ==
    /\ req.stage = "inventoried" /\ ~req.blocked
    /\ req' = [req EXCEPT !.stage = "approved"]
    /\ UNCHANGED <<comm, chunkVars, storeVars, ex, writerVars, faults>>

(* serving_writes_drained: no serving lease is live, whatever its fence.   *)
ServingWritesDrained == \A w \in Writer : lease[w] = NoLease

AbortableStageLate == req.stage \in {"approved", "fenced", "drained"}
AbortableStage == req.stage \in {"approved", "fenced"}

RestoredArchiveCurrent == comm.archived
(* Only the first begin_quiescing saves the archive mark.                  *)
RestoredArchive == IF req.quiesced THEN req.preArchived ELSE comm.archived

(* The community reopens as it was before quiescing, under a new fence     *)
(* generation; the request's lease generation moves on too.                *)
Abort ==
    /\ AbortableStage
    /\ ServingWritesDrained
    /\ comm.state \in {"active", "quiescing", "fenced"}
    /\ comm' = [comm EXCEPT !.state = "active", !.gen = @ + 1,
                            !.archived = RestoredArchive]
    /\ req' = [req EXCEPT !.stage = "aborted", !.fgen = comm.gen + 1,
                          !.owner = Nobody, !.live = FALSE, !.gen = @ + 1,
                          !.blocked = FALSE, !.retries = 0]
    /\ UNCHANGED <<chunkVars, storeVars, ex, writerVars, faults>>

Unblock ==
    /\ req.blocked /\ req.stage \notin Terminal /\ ~req.live
    /\ faults < MaxFaults /\ faults' = faults + 1
    /\ req' = [req EXCEPT !.blocked = FALSE, !.retries = 0, !.owner = Nobody]
    /\ UNCHANGED <<comm, chunkVars, storeVars, ex, writerVars>>

BlockPreclaimSetup ==
    /\ req.stage \notin Terminal \cup {"none"} /\ ~req.live /\ ~req.blocked
    /\ faults < MaxFaults /\ faults' = faults + 1
    /\ req' = [req EXCEPT !.blocked = TRUE]
    /\ UNCHANGED <<comm, chunkVars, storeVars, ex, writerVars>>

(***************************************************************************)
(* The lease of an executor.                                               *)
(***************************************************************************)

Owns(e) == req.id = ex[e].id /\ req.owner = e /\ req.gen = ex[e].gen

VerifyLease(e, s) == Owns(e) /\ req.live /\ req.stage = s /\ ~req.blocked

VerifyLeaseAndFence(e, s) ==
    /\ VerifyLease(e, s)
    /\ req.fgen = ex[e].fgen
    /\ comm.state \in {"fenced", "tombstone"} /\ comm.gen = ex[e].fgen

Goto(e, p) == ex' = [ex EXCEPT ![e].pc = p]
Fail(e, perm) == ex' = [ex EXCEPT ![e] = [@ EXCEPT !.pc = "failed",
                            !.permanent = perm, !.seen = {}, !.cur = 0]]

(* A transaction committed.  Its answer may be lost.                       *)
Committed(e, p) ==
    \/ Goto(e, p) /\ UNCHANGED faults
    \/ faults < MaxFaults /\ faults' = faults + 1 /\ Fail(e, FALSE)

ClaimFreeReleased ==
    req.stage \in Runnable /\ ~req.blocked /\ ~req.live /\ req.owner = Nobody
ClaimFree == req.stage \in Runnable /\ ~req.blocked /\ ~req.live

(* claim: a request nobody holds, or whose holder's lease ran out.         *)
Claim(e) ==
    /\ ex[e].pc = "idle" /\ ClaimFree
    /\ req' = [req EXCEPT !.owner = e, !.gen = @ + 1, !.live = TRUE]
    /\ ex' = [ex EXCEPT ![e] = [Idle EXCEPT !.pc = "start", !.id = req.id,
                 !.gen = req.gen + 1, !.fgen = req.fgen, !.stage = req.stage,
                 !.frozen = req.manifest # NoManifest]]
    /\ UNCHANGED <<comm, chunkVars, storeVars, writerVars, faults>>

(* The catalog does not validate: the claim blocks the request instead.    *)
ClaimBlocks(e) ==
    /\ ex[e].pc = "idle" /\ ClaimFree
    /\ faults < MaxFaults /\ faults' = faults + 1
    /\ req' = [req EXCEPT !.blocked = TRUE, !.owner = Nobody]
    /\ UNCHANGED <<comm, chunkVars, storeVars, writerVars, ex>>

HeartbeatOK(e) == Owns(e) /\ req.live /\ ~req.blocked /\ req.stage \in Runnable

(* The heartbeat that opens a turn of execute_claim's loop; when it fails  *)
(* the executor leaves without recording anything.                         *)
StartStage(e) ==
    /\ ex[e].pc = "start"
    /\ IF HeartbeatOK(e) THEN Goto(e, FirstStep[ex[e].stage])
                         ELSE ex' = [ex EXCEPT ![e] = Idle]
    /\ UNCHANGED <<req, comm, chunkVars, storeVars, writerVars, faults>>

(* A stage completed: the request is read again.  An aborted one, which    *)
(* the next heartbeat would refuse, ends the run here.                     *)
FinishStage(e) ==
    /\ ex[e].pc = "done"
    /\ ex' = [ex EXCEPT ![e] =
         IF req.id # ex[e].id \/ req.blocked \/ req.stage \in Terminal
         THEN Idle
         ELSE [@ EXCEPT !.pc = "start", !.stage = req.stage, !.fgen = req.fgen,
                        !.frozen = req.manifest # NoManifest, !.seen = {}, !.cur = 0]]
    /\ UNCHANGED <<req, comm, chunkVars, storeVars, writerVars, faults>>

ExhaustedLate == req.retries >= MaxRetries
Exhausted == req.retries + 1 >= MaxRetries

(* record_stage_failure: retry or block what is still this executor's, at  *)
(* the stage it set out from; otherwise a successor decides.               *)
RecordFailure(e) ==
    /\ ex[e].pc = "failed"
    /\ req' = IF VerifyLease(e, ex[e].stage)
              THEN [req EXCEPT !.owner = Nobody, !.live = FALSE,
                               !.retries = IF ex[e].permanent THEN @ ELSE @ + 1,
                               !.blocked = ex[e].permanent \/ Exhausted]
              ELSE req
    /\ ex' = [ex EXCEPT ![e] = Idle]
    /\ UNCHANGED <<comm, chunkVars, storeVars, writerVars, faults>>

(* A transaction that only checks the lease: verify_execution_token, or    *)
(* the unlocked check that opens a write.                                  *)
Verify(e, p, ok, q) ==
    /\ ex[e].pc = p
    /\ IF ok THEN Goto(e, q) ELSE Fail(e, FALSE)
    /\ UNCHANGED <<req, comm, chunkVars, storeVars, writerVars, faults>>

(***************************************************************************)
(* Stage approved: quiescing and the fence.  The preflight before them     *)
(* only reads, and fails as StageError.                                    *)
(***************************************************************************)

BeginQuiescing(e) ==
    /\ ex[e].pc = "quiesce"
    /\ IF ~VerifyLease(e, "approved")
       THEN Fail(e, FALSE) /\ UNCHANGED <<req, comm, faults>>
       ELSE IF comm.state \notin {"active", "quiescing"}
       THEN Fail(e, TRUE) /\ UNCHANGED <<req, comm, faults>>
       ELSE /\ req' = IF req.quiesced THEN req
                      ELSE [req EXCEPT !.quiesced = TRUE, !.preArchived = comm.archived]
            /\ comm' = [comm EXCEPT !.state = "quiescing", !.archived = TRUE]
            /\ Committed(e, "fence")
    /\ UNCHANGED <<chunkVars, storeVars, writerVars>>

(* advance_request_tx: the lease is checked again as the stage moves.      *)
Advanced(s) == [req EXCEPT !.stage = NextStage[s], !.retries = 0]

MayFenceUndrained(e) == VerifyLease(e, "approved")
MayFence(e) == VerifyLease(e, "approved") /\ ServingWritesDrained

Fence(e) ==
    /\ ex[e].pc = "fence"
    /\ IF ~MayFence(e)
       THEN Fail(e, FALSE) /\ UNCHANGED <<req, comm, faults>>
       ELSE IF comm.state # "quiescing"
       THEN Fail(e, TRUE) /\ UNCHANGED <<req, comm, faults>>
       ELSE /\ comm' = [comm EXCEPT !.state = "fenced", !.gen = @ + 1, !.archived = TRUE]
            /\ req' = [Advanced("approved") EXCEPT !.fgen = comm.gen + 1]
            /\ Committed(e, "done")
    /\ UNCHANGED <<chunkVars, storeVars, writerVars>>

(***************************************************************************)
(* Stage fenced: the serving writes have drained, so what the object store *)
(* lists is frozen as the manifest, chunk by chunk.                        *)
(***************************************************************************)

(* The community's connections are told to close, under the lease.         *)
DrainCheck(e) == Verify(e, "drain_check",
                        VerifyLeaseAndFence(e, "fenced") /\ ServingWritesDrained,
                        IF ex[e].frozen THEN "mark_drained" ELSE "clear")

ClearCheck(e) == Verify(e, "clear", VerifyLeaseAndFence(e, "fenced"), "clearing")

(* The chunk table's trigger, for an INSERT and for a DELETE of the rows   *)
(* of the executor's own request.                                          *)
InsertAllowed(e) == req.id = ex[e].id /\ req.stage = "fenced" /\ req.manifest = NoManifest
RemoveAllowedAlways == TRUE
RemoveAllowed == chunks = <<>> \/ req.manifest = NoManifest

ClearChunks(e) ==
    /\ ex[e].pc = "clearing"
    /\ IF RemoveAllowed
       THEN /\ chunks' = IF req.id = ex[e].id THEN <<>> ELSE chunks
            /\ stamped' = IF req.id = ex[e].id THEN {} ELSE stamped
            /\ Committed(e, "list")
       ELSE Fail(e, FALSE) /\ UNCHANGED <<chunkVars, faults>>
    /\ UNCHANGED <<req, comm, storeVars, writerVars>>

(* The next page of the listing, past the last object seen.                *)
Beyond(e) == {o \in objects : \A q \in ex[e].seen : o > q}

ListObject(e) ==
    /\ ex[e].pc = "list"
    /\ ex' = [ex EXCEPT ![e] =
         IF Beyond(e) = {} THEN [@ EXCEPT !.pc = "freeze"]
         ELSE [@ EXCEPT !.pc = "append", !.seen = ex[e].seen \cup {Min(Beyond(e))}]]
    /\ UNCHANGED <<req, comm, chunkVars, storeVars, writerVars, faults>>

AppendCheck(e) == Verify(e, "append", VerifyLeaseAndFence(e, "fenced"), "appending")

(* The chunk number continues the executor's own count; a row that exists  *)
(* already is a key conflict.                                              *)
AppendChunk(e) ==
    LET no == Cardinality(ex[e].seen) IN
    /\ ex[e].pc = "appending"
    /\ IF InsertAllowed(e) /\ no \notin DOMAIN chunks
       THEN /\ chunks' = [k \in DOMAIN chunks \cup {no} |->
                            IF k = no THEN Max(ex[e].seen) ELSE chunks[k]]
            /\ Committed(e, "list")
       ELSE Fail(e, FALSE) /\ UNCHANGED <<chunks, faults>>
    /\ UNCHANGED <<req, comm, stamped, storeVars, writerVars>>

(* The chunks must hash to the manifest this executor computed.            *)
FreezeManifest(e) ==
    /\ ex[e].pc = "freeze"
    /\ IF ~VerifyLeaseAndFence(e, "fenced")
       THEN Fail(e, FALSE) /\ UNCHANGED <<req, faults>>
       ELSE IF \/ Range(chunks) # ex[e].seen
               \/ Cardinality(DOMAIN chunks) # Cardinality(ex[e].seen)
               \/ req.manifest \notin {NoManifest, ex[e].seen}
       THEN Fail(e, TRUE) /\ UNCHANGED <<req, faults>>
       ELSE req' = [req EXCEPT !.manifest = ex[e].seen] /\ Committed(e, "mark_drained")
    /\ UNCHANGED <<comm, chunkVars, storeVars, writerVars>>

MarkDrained(e) ==
    /\ ex[e].pc = "mark_drained"
    /\ IF ~VerifyLeaseAndFence(e, "fenced")
       THEN Fail(e, FALSE) /\ UNCHANGED <<req, faults>>
       ELSE IF ~ServingWritesDrained
       THEN Fail(e, TRUE) /\ UNCHANGED <<req, faults>>
       ELSE req' = Advanced("fenced") /\ Committed(e, "done")
    /\ UNCHANGED <<comm, chunkVars, storeVars, writerVars>>

(***************************************************************************)
(* Stage drained: the chunks are deleted and stamped one by one.           *)
(***************************************************************************)

(* next_pending_manifest_chunk checks no lease.  The executor keeps the    *)
(* chunk's number and its key.                                             *)
NextChunk(e) ==
    LET pending == DOMAIN chunks \ stamped IN
    /\ ex[e].pc = "next"
    /\ ex' = [ex EXCEPT ![e] =
         IF pending = {} THEN [@ EXCEPT !.pc = "mark_removed"]
         ELSE [@ EXCEPT !.pc = "delete", !.cur = Min(pending),
                        !.seen = {chunks[Min(pending)]}]]
    /\ UNCHANGED <<req, comm, chunkVars, storeVars, writerVars, faults>>

DeleteCheck(e) == Verify(e, "delete", VerifyLeaseAndFence(e, "drained"), "deleting")

(* What the executor's outstanding call to a store takes away once it      *)
(* lands.                                                                  *)
Target(e) == IF ex[e].pc = "deleting" THEN ex[e].seen
             ELSE IF ex[e].pc = "flushing" THEN {Cache} ELSE {}
Destroy(S) ==
    /\ objects' = objects \ S
    /\ cached' = (cached /\ Cache \notin S)
    /\ strays' = strays \ S
    /\ UNCHANGED rows

DeleteChunk(e) ==
    /\ ex[e].pc = "deleting"
    /\ Destroy(Target(e))
    /\ Goto(e, "stamp")
    /\ UNCHANGED <<req, comm, chunkVars, writerVars, faults>>

StampCheck(e) == Verify(e, "stamp", VerifyLeaseAndFence(e, "drained"), "stamping")

DeletedChunkFirstPending(e) ==
    IF DOMAIN chunks \ stamped = {} THEN ex[e].cur ELSE Min(DOMAIN chunks \ stamped)
DeletedChunk(e) == ex[e].cur

StampChunk(e) ==
    /\ ex[e].pc = "stamping"
    /\ IF DeletedChunk(e) \in DOMAIN chunks \ stamped
       THEN stamped' = stamped \cup {DeletedChunk(e)} /\ Committed(e, "next")
       ELSE Fail(e, TRUE) /\ UNCHANGED <<stamped, faults>>
    /\ UNCHANGED <<req, comm, chunks, storeVars, writerVars>>

(* advance_with_checkpoint.                                                *)
AdvanceWithCheckpoint(e, p, s) ==
    /\ ex[e].pc = p
    /\ IF VerifyLeaseAndFence(e, s)
       THEN req' = Advanced(s) /\ Committed(e, "done")
       ELSE Fail(e, FALSE) /\ UNCHANGED <<req, faults>>
    /\ UNCHANGED <<comm, chunkVars, storeVars, writerVars>>

MarkBindingsRemoved(e) == AdvanceWithCheckpoint(e, "mark_removed", "drained")

(***************************************************************************)
(* The last stages: rows, cache, the proof of absence, retention.          *)
(***************************************************************************)

(* One transaction deletes every tenant row and leaves the tombstone.      *)
PurgePostgres(e) ==
    /\ ex[e].pc = "purge"
    /\ IF ~VerifyLeaseAndFence(e, "bindings_removed")
       THEN Fail(e, FALSE) /\ UNCHANGED <<req, comm, rows, faults>>
       ELSE IF comm.state # "fenced"
       THEN Fail(e, TRUE) /\ UNCHANGED <<req, comm, rows, faults>>
       ELSE /\ rows' = FALSE
            /\ comm' = [comm EXCEPT !.state = "tombstone", !.archived = TRUE]
            /\ req' = Advanced("bindings_removed")
            /\ Committed(e, "done")
    /\ UNCHANGED <<chunkVars, objects, cached, strays, writerVars>>

FlushCheck(e) == Verify(e, "flush", VerifyLeaseAndFence(e, "postgres_purged"), "flushing")

FlushCache(e) ==
    /\ ex[e].pc = "flushing"
    /\ Destroy(Target(e))
    /\ Goto(e, "mark_flushed")
    /\ UNCHANGED <<req, comm, chunkVars, writerVars, faults>>

MarkCachePurged(e) == AdvanceWithCheckpoint(e, "mark_flushed", "postgres_purged")

VerifyRows(e) ==
    /\ ex[e].pc = "verify_rows"
    /\ IF ~VerifyLeaseAndFence(e, "cache_purged") THEN Fail(e, FALSE)
       ELSE IF comm.state # "tombstone" \/ rows THEN Fail(e, TRUE)
       ELSE Goto(e, "verify_storage")
    /\ UNCHANGED <<req, comm, chunkVars, storeVars, writerVars, faults>>

VerifyStorageAbsence(e) == Verify(e, "verify_storage", objects = {}, "verify_cache")
VerifyRedisAbsence(e) == Verify(e, "verify_cache", ~cached, "mark_verified")

MarkLogicallyVerified(e) ==
    /\ ex[e].pc = "mark_verified"
    /\ IF VerifyLeaseAndFence(e, "cache_purged")
       THEN /\ req' = Advanced("cache_purged")
            /\ chunks' = <<>> /\ stamped' = {}
            /\ Committed(e, "done")
       ELSE Fail(e, FALSE) /\ UNCHANGED <<req, chunkVars, faults>>
    /\ UNCHANGED <<comm, storeVars, writerVars>>

MarkRetentionPending(e) ==
    /\ ex[e].pc = "mark_retention"
    /\ IF VerifyLeaseAndFence(e, "logically_verified")
       THEN /\ req' = [Advanced("logically_verified") EXCEPT !.owner = Nobody, !.live = FALSE]
            /\ Committed(e, "done")
       ELSE Fail(e, FALSE) /\ UNCHANGED <<req, faults>>
    /\ UNCHANGED <<comm, chunkVars, storeVars, writerVars>>

(***************************************************************************)
(* Faults of an executor.  A call to a store that was under way may or may *)
(* not have landed.                                                        *)
(***************************************************************************)

CallLandsOrNot(e) == \E S \in {{}, Target(e)} : Destroy(S)

(* Where the code compares the catalog with the approved one, and the keys *)
(* it lists with those that writers use: a mismatch is permanent.          *)
Compares == {"quiesce", "list"}

(* A call to PostgreSQL or a store fails, or a comparison does.            *)
StageError(e) ==
    /\ ex[e].pc \notin {"idle", "start", "done", "failed"}
    /\ faults < MaxFaults /\ faults' = faults + 1
    /\ \E perm \in BOOLEAN : (perm => ex[e].pc \in Compares) /\ Fail(e, perm)
    /\ CallLandsOrNot(e)
    /\ UNCHANGED <<req, comm, chunkVars, writerVars>>

Crash(e) ==
    /\ ex[e].pc # "idle"
    /\ faults < MaxFaults /\ faults' = faults + 1
    /\ ex' = [ex EXCEPT ![e] = Idle]
    /\ CallLandsOrNot(e)
    /\ UNCHANGED <<req, comm, chunkVars, writerVars>>

(* Shutdown: stop_claim_executor releases what is still this executor's.   *)
Shutdown(e) ==
    /\ ex[e].pc \notin {"idle", "failed"}
    /\ faults < MaxFaults /\ faults' = faults + 1
    /\ req' = IF Owns(e) THEN [req EXCEPT !.owner = Nobody, !.live = FALSE] ELSE req
    /\ ex' = [ex EXCEPT ![e] = Idle]
    /\ CallLandsOrNot(e)
    /\ UNCHANGED <<comm, chunkVars, writerVars>>

OwnerGone == \A e \in Executor : Owns(e) => ex[e].pc = "idle"

(* The request's lease runs out: its holder left without releasing it, or  *)
(* stalls past its heartbeats.                                             *)
LeaseLapses ==
    /\ req.live
    /\ IF OwnerGone THEN UNCHANGED faults ELSE faults < MaxFaults /\ faults' = faults + 1
    /\ req' = [req EXCEPT !.live = FALSE]
    /\ UNCHANGED <<comm, chunkVars, storeVars, ex, writerVars>>

(***************************************************************************)
(* Serving writers.                                                        *)
(***************************************************************************)

AdmissionOpen == comm.state = "active"

AcquireServingWriteLease(w) ==
    /\ wpc[w] = "idle" /\ lease[w] = NoLease /\ call[w] = NoCall
    /\ AdmissionOpen
    /\ lease' = [lease EXCEPT ![w] = comm.gen]
    /\ wpc' = [wpc EXCEPT ![w] = "admitted"]
    /\ UNCHANGED <<req, comm, chunkVars, storeVars, ex, call, faults>>

(* A lease admitted before quiescing stays good while quiescing.           *)
ServingLeaseValid(w) ==
    /\ lease[w] = comm.gen
    /\ comm.state \in {"active", "quiescing"}

(* protect: verify, then the remote call is sent.  A put makes an object   *)
(* version that was not there.                                             *)
SendWrite(w, x) ==
    /\ wpc[w] = "admitted" /\ ServingLeaseValid(w)
    /\ x \notin objects /\ x \notin Range(call)
    /\ wpc' = [wpc EXCEPT ![w] = "io"]
    /\ call' = [call EXCEPT ![w] = x]
    /\ UNCHANGED <<req, comm, chunkVars, storeVars, ex, lease, faults>>

Answered(w) ==
    /\ call' = [call EXCEPT ![w] = NoCall]
    /\ wpc' = [wpc EXCEPT ![w] = IF @ = "io" THEN "landed" ELSE @]

(* The remote call takes effect, or fails, even after its caller left.     *)
WriteLands(w) ==
    /\ call[w] # NoCall
    /\ Answered(w)
    /\ objects' = objects \cup ({call[w]} \ {Cache})
    /\ cached' = (cached \/ call[w] = Cache)
    /\ strays' = IF lease[w] = NoLease /\ comm.state # "active"
                 THEN strays \cup {call[w]} ELSE strays
    /\ UNCHANGED <<req, comm, chunkVars, rows, ex, lease, faults>>

WriteFails(w) ==
    /\ call[w] # NoCall
    /\ Answered(w)
    /\ UNCHANGED <<req, comm, chunkVars, storeVars, ex, lease, faults>>

(* The database side: under the lease (guard_transaction_with_serving_     *)
(* lease) or, without one, in an active community (guard_transaction).     *)
CommitRows ==
    /\ \/ AdmissionOpen
       \/ \E w \in Writer : wpc[w] = "landed" /\ ServingLeaseValid(w)
    /\ rows' = TRUE
    /\ UNCHANGED <<req, comm, chunkVars, objects, cached, strays, ex,
                   writerVars, faults>>

(* finish, or the guard dropped: on an error, or with the call still out   *)
(* when a renewal failed.                                                  *)
ReleaseServingWriteLease(w) ==
    /\ wpc[w] # "idle"
    /\ lease' = [lease EXCEPT ![w] = NoLease]
    /\ wpc' = [wpc EXCEPT ![w] = "idle"]
    /\ UNCHANGED <<req, comm, chunkVars, storeVars, ex, call, faults>>

WriterCrashes(w) ==
    /\ wpc[w] # "idle"
    /\ wpc' = [wpc EXCEPT ![w] = "idle"]
    /\ UNCHANGED <<req, comm, chunkVars, storeVars, ex, lease, call, faults>>

(* A serving lease runs out, and is reaped.  Every later check of it       *)
(* fails, so the writer gives up; a call it sent stays out.                *)
ServingLeaseLapses(w) ==
    /\ lease[w] # NoLease
    /\ lease' = [lease EXCEPT ![w] = NoLease]
    /\ wpc' = [wpc EXCEPT ![w] = "idle"]
    /\ UNCHANGED <<req, comm, chunkVars, storeVars, ex, call, faults>>

(* What a process that holds a claim does: execute_claim.                  *)
RunStep(e) ==
    \/ StartStage(e) \/ FinishStage(e) \/ RecordFailure(e)
    \/ BeginQuiescing(e) \/ Fence(e)
    \/ DrainCheck(e) \/ ClearCheck(e) \/ ClearChunks(e)
    \/ ListObject(e) \/ AppendCheck(e) \/ AppendChunk(e)
    \/ FreezeManifest(e) \/ MarkDrained(e)
    \/ NextChunk(e) \/ DeleteCheck(e) \/ DeleteChunk(e)
    \/ StampCheck(e) \/ StampChunk(e) \/ MarkBindingsRemoved(e)
    \/ PurgePostgres(e) \/ FlushCheck(e) \/ FlushCache(e) \/ MarkCachePurged(e)
    \/ VerifyRows(e) \/ VerifyStorageAbsence(e) \/ VerifyRedisAbsence(e)
    \/ MarkLogicallyVerified(e) \/ MarkRetentionPending(e)

ExecutorStep(e) == Claim(e) \/ RunStep(e)

OperatorStep ==
    \/ Submit \/ FreezeInventory \/ Approve \/ Abort \/ Unblock \/ BlockPreclaimSetup

WriterStep(w) ==
    \/ AcquireServingWriteLease(w)
    \/ \E x \in Object \cup {Cache} : SendWrite(w, x)
    \/ WriteLands(w) \/ WriteFails(w)
    \/ ReleaseServingWriteLease(w) \/ WriterCrashes(w) \/ ServingLeaseLapses(w)

Next ==
    \/ OperatorStep
    \/ \E e \in Executor : \/ ExecutorStep(e) \/ ClaimBlocks(e)
                           \/ StageError(e) \/ Crash(e) \/ Shutdown(e)
    \/ LeaseLapses
    \/ \E w \in Writer : WriterStep(w)
    \/ CommitRows

Spec == Init /\ [][Next]_vars

(* A process that holds a claim keeps running, and time passes: the lease  *)
(* of an executor that is gone runs out.  Nothing is assumed of writers or *)
(* of the operator, and so of claims: run_loop ends after a failed claim   *)
(* and when nothing is runnable, and only a new command starts it again.   *)
FairSpec ==
    /\ Spec
    /\ WF_vars(\E e \in Executor : RunStep(e))
    /\ WF_vars(LeaseLapses /\ OwnerGone)

-----------------------------------------------------------------------------
(***************************************************************************)
(* Properties.                                                             *)
(***************************************************************************)

RowData == -2

Phase ==
    IF req.stage \in {"logically_verified", "retention_pending"} THEN "gone"
    ELSE IF req.stage \in Runnable \ {"approved", "fenced"} THEN "erasing"
    ELSE CASE comm.state = "active" -> "serving"
           [] comm.state = "quiescing" -> "closing"
           [] comm.state = "fenced" -> "closed"

Contract == INSTANCE DeletionContract WITH
    Item <- Object \cup {Cache, RowData},
    NoStray <- {RowData},
    phase <- Phase,
    data <- objects \cup (IF cached THEN {Cache} ELSE {})
                    \cup (IF rows THEN {RowData} ELSE {})

(* The engine keeps the promise of DeletionContract: whatever crashes,     *)
(* stalls, retries and takeovers happen, nothing is destroyed before the   *)
(* drain is durable, an aborted request loses nothing, no row can be       *)
(* written once the fence is up, and logical verification is recorded only *)
(* when the three stores hold nothing but strays.                          *)
KeepsContract == Contract!Spec

(* While the community is fenced no serving lease is live: an admitted     *)
(* write either finished before the fence or its lease had ended           *)
(* (begin_quiescing, fence and acquire_serving_write_lease).               *)
FencedAdmitsNobody ==
    comm.state \in {"fenced", "tombstone"} => ServingWritesDrained

(* From the freeze to the verification the chunk table holds exactly the   *)
(* frozen manifest: an executor that stalled between its lease check and   *)
(* its write cannot add to the list or clear it under its successor        *)
(* (freeze_destructive_storage_manifest and the table's trigger).          *)
ManifestIntact ==
    req.manifest # NoManifest /\ req.stage \in Runnable \ {"logically_verified"}
        => Range(chunks) = req.manifest

(* A stamped chunk's object is gone, unless a stray write brought it back: *)
(* a crash between the deletion and the stamp, or two executors on one     *)
(* chunk, never leave a stamp for an object nobody deleted                 *)
(* (mark_manifest_chunk_deleted).                                          *)
StampedMeansDeleted ==
    \A n \in stamped : chunks[n] \in objects => chunks[n] \in strays

(* A serving community is archived exactly when it was before: an abort    *)
(* after any number of attempts to quiesce restores it (pre_quiesce_       *)
(* archived_at).                                                           *)
AbortRestoresArchive == comm.state = "active" => comm.archived = WasArchived

(* The operator runs the command again as long as a request can be         *)
(* claimed: an assumption on the operator, since no worker polls.          *)
OperatorReruns == WF_vars(\E e \in Executor : Claim(e))

(* An approved request does not hang on what an earlier run left behind: a *)
(* run ends, whatever happens to it, with a request that is deleted,       *)
(* aborted or blocked or that the next run can claim (else no rerun could  *)
(* go on with it, and OperatorReruns would ask for nothing), and reruns    *)
(* are enough to decide it, even if a serving writer never lets go of its  *)
(* lease (run_loop, claim, record_retry).                                  *)
ApprovedIsDecided ==
    OperatorReruns => (req.stage \in Runnable ~> (req.stage \in Terminal \/ req.blocked))
=============================================================================
