---------------------- MODULE CommunityDeletionProofs -----------------------
(***************************************************************************)
(* What holds of a deletion for any number of executors and writers, any   *)
(* objects, requests, retries and faults.                                  *)
(***************************************************************************)
EXTENDS CommunityDeletion, FiniteSetTheorems, NatLemmas, TLAPS

ExRecord == [pc : PC, id : 0..MaxRequests, gen : Nat, fgen : Nat, stage : Stage,
             frozen : BOOLEAN, seen : SUBSET Object, cur : Nat, permanent : BOOLEAN]

ReqRecord == [id : 0..MaxRequests, stage : Stage, owner : Executor \cup {Nobody},
              gen : Nat, live : BOOLEAN, blocked : BOOLEAN, retries : 0..MaxRetries,
              fgen : Nat, manifest : {NoManifest} \cup SUBSET Object,
              quiesced : BOOLEAN, preArchived : BOOLEAN]

CommRecord == [state : {"active", "quiescing", "fenced", "tombstone"}, gen : Nat,
               archived : BOOLEAN]

ChunksOK == /\ DOMAIN chunks \subseteq 1..Cardinality(Object) /\ Range(chunks) \subseteq Object
            /\ stamped \subseteq DOMAIN chunks
StoresOK == /\ rows \in BOOLEAN /\ cached \in BOOLEAN /\ objects \subseteq Object
            /\ strays \subseteq Object \cup {Cache}
WritersOK == /\ lease \in [Writer -> Nat \cup {NoLease}]
             /\ wpc \in [Writer -> {"idle", "admitted", "io", "landed"}]
             /\ call \in [Writer -> Object \cup {Cache, NoCall}]
ExOK == ex \in [Executor -> ExRecord]

(* The stages behind the point of no return: no request leaves them.       *)
PastDrain == {"drained", "bindings_removed", "postgres_purged", "cache_purged",
              "logically_verified", "retention_pending"}
(* The steps of an executor that set out from one of them.                 *)
LatePC == {"next", "delete", "deleting", "stamp", "stamping", "mark_removed", "purge",
           "flush", "flushing", "mark_flushed", "verify_rows", "verify_storage",
           "verify_cache", "mark_verified", "mark_retention"}

RetriesLeft == req.blocked \/ req.retries < MaxRetries

(* What an executor remembers fits the request.                            *)
ExecutorFits(e) ==
    /\ ex[e].id <= req.id
    /\ ex[e].pc # "idle" /\ ex[e].id = req.id => req.stage \in Runnable \cup Terminal
    /\ ex[e].pc = "start" => ex[e].stage \in Runnable
    /\ ex[e].pc \in {"append", "appending"} => ex[e].seen # {}

TypeInv == TypeOK /\ RetriesLeft /\ \A e \in Executor : ExecutorFits(e)

(* The state of the community follows the stage of the request.            *)
StageFits ==
    /\ req.stage \in {"none", "submitted", "inventoried", "aborted"} => comm.state = "active"
    /\ req.stage = "approved" => comm.state \in {"active", "quiescing"}
    /\ req.stage \in {"fenced", "drained", "bindings_removed"} => comm.state = "fenced"
    /\ req.stage \in {"postgres_purged", "cache_purged", "logically_verified",
                      "retention_pending"} => comm.state = "tombstone"

ArchiveSaved ==
    /\ req.quiesced => req.preArchived = WasArchived
    /\ ~req.quiesced => comm.state = "active"

RowsGone == comm.state = "tombstone" => ~rows

CommunityInv ==
    StageFits /\ FencedAdmitsNobody /\ ArchiveSaved /\ AbortRestoresArchive /\ RowsGone

ManifestFits ==
    /\ req.stage \in {"none", "submitted", "inventoried"} => req.manifest = NoManifest
    /\ req.stage \in PastDrain => req.manifest # NoManifest
    /\ stamped # {} => req.stage \in PastDrain

(* What an executor knows of the stores at each step stays true, but for   *)
(* strays.                                                                 *)
ExecutorKnows(e) ==
    /\ ex[e].stage \in PastDrain => req.stage \in PastDrain
    /\ ex[e].pc \in LatePC => ex[e].stage \in PastDrain
    /\ ex[e].pc # "idle" /\ ex[e].id = req.id /\ (ex[e].frozen \/ ex[e].pc = "mark_drained")
         => req.manifest # NoManifest
    /\ ex[e].pc \in {"delete", "deleting", "stamp", "stamping"} /\ ex[e].cur \in DOMAIN chunks
         => chunks[ex[e].cur] \in ex[e].seen
    /\ ex[e].pc \in {"stamp", "stamping"} => ex[e].seen \cap objects \subseteq strays
    /\ ex[e].pc \in {"verify_cache", "mark_verified"} => objects \subseteq strays
    /\ ex[e].pc = "mark_verified" /\ cached => Cache \in strays

ErasureInv ==
    /\ ManifestFits /\ ManifestIntact /\ StampedMeansDeleted
    /\ \A e \in Executor : ExecutorKnows(e)
-----------------------------------------------------------------------------
(* The least and the greatest of a set of objects. *)

LEMMA MaxExists ==
    ASSUME NEW S, S \subseteq Nat, IsFiniteSet(S), S # {}
    PROVE  \E x \in S : \A y \in S : x >= y
<1> DEFINE Good == {n \in Nat : \A T \in SUBSET S : Cardinality(T) = n /\ T # {}
                                   => \E x \in T : \A y \in T : x >= y}
<1>1. 0 \in Good
  BY FS_Subset, FS_EmptySet
<1>2. ASSUME NEW n \in Nat, n \in Good PROVE n + 1 \in Good
  <2> SUFFICES ASSUME NEW T \in SUBSET S, Cardinality(T) = n + 1, T # {}
               PROVE  \E x \in T : \A y \in T : x >= y
    OBVIOUS
  <2>1. PICK z \in T : TRUE
    OBVIOUS
  <2>a. IsFiniteSet(T)
    BY FS_Subset
  <2>b. Cardinality(T \ {z}) = Cardinality(T) - 1
    BY <2>1, <2>a, FS_RemoveElement, Zenon
  <2>2. Cardinality(T \ {z}) = n
    BY <2>b
  <2>3. CASE T \ {z} = {}
    BY <2>3
  <2>4. CASE T \ {z} # {}
    <3>1. PICK x \in T \ {z} : \A y \in T \ {z} : x >= y
      BY <1>2, <2>2, <2>4
    <3> QED
      BY <3>1
  <2> QED
    BY <2>3, <2>4
<1>3. Nat \subseteq Good
  <2> HIDE DEF Good
  <2> QED BY <1>1, <1>2, SetInduction
<1>4. Cardinality(S) \in Nat
  BY FS_CardinalityType
<1> QED
  BY <1>3, <1>4

LEMMA MaxObject ==
    ASSUME NEW S \in SUBSET Object, S # {}
    PROVE  Max(S) \in S /\ \A y \in S : Max(S) >= y
<1>1. S \subseteq Nat /\ IsFiniteSet(S)
  BY FS_Subset, DeletionAssumption
<1>2. \E x \in S : \A y \in S : x >= y
  BY <1>1, MaxExists
<1> QED
  BY <1>2 DEF Max

LEMMA MinNat ==
    ASSUME NEW S \in SUBSET Nat, S # {}
    PROVE  Min(S) \in S /\ \A y \in S : Min(S) <= y
BY LeastExists DEF Min

-----------------------------------------------------------------------------
(* The shapes of the tables. *)

LEMMA Constants ==
    /\ Object \subseteq Nat /\ Object # {} /\ 0 \notin Object
    /\ NoManifest \notin SUBSET Object
    /\ Nobody \notin Executor /\ WasArchived \in BOOLEAN
    /\ MaxRequests \in Nat /\ MaxRetries \in Nat /\ MaxRetries > 0 /\ MaxFaults \in Nat
BY DeletionAssumption DEF NoManifest

LEMMA TypeInit == Init => TypeInv
<1> SUFFICES ASSUME Init PROVE TypeInv
  OBVIOUS
<1>1. Min(Object) \in Object
  BY MinNat, Constants
<1>2. Cardinality(Object) \in Nat
  BY FS_CardinalityType, DeletionAssumption
<1>3. Idle \in ExRecord
  BY Constants DEF Idle, ExRecord, PC, Stage, NoGen, Runnable, Terminal
<1> QED
  BY <1>1, <1>2, <1>3, Constants
     DEF Init, TypeInv, TypeOK, ExRecord, RetriesLeft, ExecutorFits, NoRequest, NoManifest,
         NoGen, Nobody, Stage, Runnable, Terminal, Idle, NoLease, NoCall, Range

(* A step of one executor: it remembers what it knew, unless it failed. *)
Moved(e, P) ==
    /\ ex' \in [Executor -> ExRecord]
    /\ \A f \in Executor : f # e => ex'[f] = ex[f]
    /\ ex'[e].pc \in P
    /\ ex'[e].id = ex[e].id /\ ex'[e].stage = ex[e].stage /\ ex'[e].frozen = ex[e].frozen
    /\ ex'[e].pc # "failed" => ex'[e].seen = ex[e].seen /\ ex'[e].cur = ex[e].cur

LEMMA GotoMoves ==
    ASSUME ex \in [Executor -> ExRecord], NEW e \in Executor, NEW p \in PC, Goto(e, p)
    PROVE  Moved(e, {p})
<1>1. ex[e] \in ExRecord
  OBVIOUS
<1>2. ex' = [ex EXCEPT ![e] = [ex[e] EXCEPT !.pc = p]]
  BY DEF Goto
<1>3. [ex[e] EXCEPT !.pc = p] \in ExRecord
  BY <1>1 DEF ExRecord
<1>4. ex'[e] = [ex[e] EXCEPT !.pc = p]
  BY <1>2
<1> QED
  BY <1>1, <1>2, <1>3, <1>4 DEF Moved, ExRecord

LEMMA FailMoves ==
    ASSUME ex \in [Executor -> ExRecord], NEW e \in Executor, NEW b \in BOOLEAN, Fail(e, b)
    PROVE  Moved(e, {"failed"})
<1> DEFINE r == [ex[e] EXCEPT !.pc = "failed", !.permanent = b, !.seen = {}, !.cur = 0]
<1>1. ex[e] \in ExRecord
  OBVIOUS
<1>2. ex' = [ex EXCEPT ![e] = r]
  BY DEF Fail
<1>3. r \in ExRecord
  BY <1>1 DEF ExRecord, PC
<1>4. ex'[e] = r
  BY <1>2
<1> QED
  BY <1>1, <1>2, <1>3, <1>4 DEF Moved, ExRecord

LEMMA CommittedMoves ==
    ASSUME ex \in [Executor -> ExRecord], NEW e \in Executor, NEW p \in PC,
           faults \in 0..MaxFaults, Committed(e, p)
    PROVE  Moved(e, {p, "failed"}) /\ faults' \in 0..MaxFaults
<1>1. CASE Goto(e, p) /\ UNCHANGED faults
  BY <1>1, GotoMoves DEF Moved
<1>2. CASE faults < MaxFaults /\ faults' = faults + 1 /\ Fail(e, FALSE)
  <2>1. Moved(e, {"failed"})
    BY <1>2, FailMoves
  <2>2. faults' \in 0..MaxFaults
    BY <1>2, Constants
  <2> QED
    BY <2>1, <2>2 DEF Moved
<1> QED
  BY <1>1, <1>2 DEF Committed

LEMMA TypeParts ==
    /\ TypeOK <=> /\ req \in ReqRecord /\ comm \in CommRecord /\ ChunksOK /\ StoresOK /\ ExOK
                  /\ WritersOK /\ faults \in 0..MaxFaults
    /\ TypeOK' <=> /\ req' \in ReqRecord /\ comm' \in CommRecord /\ ChunksOK' /\ StoresOK'
                   /\ ExOK' /\ WritersOK' /\ faults' \in 0..MaxFaults
BY DEF TypeOK, ReqRecord, CommRecord, ChunksOK, StoresOK, ExOK, WritersOK, ExRecord

(* The request moves on within one claim: the same request, still claimable
   or decided. *)
ReqMoves ==
    /\ req' \in ReqRecord
    /\ req'.id = req.id
    /\ req.stage \in Runnable \cup Terminal => req'.stage \in Runnable \cup Terminal
    /\ RetriesLeft'

LEMMA ReqUnchanged ==
    ASSUME TypeInv, UNCHANGED req
    PROVE  ReqMoves
BY TypeParts DEF TypeInv, ReqMoves, RetriesLeft

LEMMA FitsStep ==
    ASSUME TypeInv, ReqMoves, NEW e \in Executor, NEW P, Moved(e, P),
           ex[e].pc # "idle",
           "start" \notin P,
           P \cap {"append", "appending"} # {} => ex[e].seen # {}
    PROVE  \A f \in Executor : ExecutorFits(f)'
<1> SUFFICES ASSUME NEW f \in Executor PROVE ExecutorFits(f)'
  OBVIOUS
<1>1. ExecutorFits(f)
  BY DEF TypeInv
<1>2. CASE f = e
  BY <1>1, <1>2 DEF ExecutorFits, ReqMoves, Moved
<1>3. CASE f # e
  BY <1>1, <1>3 DEF ExecutorFits, ReqMoves, Moved
<1> QED
  BY <1>2, <1>3

LEMMA FitsFrame ==
    ASSUME TypeInv, ReqMoves, UNCHANGED ex
    PROVE  \A f \in Executor : ExecutorFits(f)'
BY DEF TypeInv, ExecutorFits, ReqMoves

LEMMA AdvancedType ==
    ASSUME req \in ReqRecord, NEW s \in Runnable, req' = Advanced(s)
    PROVE  /\ ReqMoves
           /\ req'.stage = NextStage[s] /\ req'.retries = 0
           /\ req'.blocked = req.blocked /\ req'.manifest = req.manifest
           /\ req'.quiesced = req.quiesced /\ req'.preArchived = req.preArchived
<1>1. 0 \in 0..MaxRetries /\ 0 < MaxRetries
  BY Constants
<1>2. NextStage[s] \in Stage /\ NextStage[s] \in Runnable \cup Terminal
  BY DEF NextStage, Runnable, Terminal, Stage
<1>3. req' = [req EXCEPT !.stage = NextStage[s], !.retries = 0]
  BY DEF Advanced
<1>4. req' \in ReqRecord
  BY <1>1, <1>2, <1>3 DEF ReqRecord
<1>5. /\ req'.stage = NextStage[s] /\ req'.retries = 0 /\ req'.id = req.id
      /\ req'.blocked = req.blocked /\ req'.manifest = req.manifest
      /\ req'.quiesced = req.quiesced /\ req'.preArchived = req.preArchived
  BY <1>3 DEF ReqRecord
<1> QED
  BY <1>1, <1>2, <1>4, <1>5 DEF ReqMoves, RetriesLeft

LEMMA TypeSubmit == ASSUME TypeInv, Submit PROVE TypeInv'
<1> USE TypeParts, Constants
<1>1. req \in ReqRecord /\ comm \in CommRecord /\ ChunksOK /\ StoresOK /\ ExOK /\ WritersOK
      /\ faults \in 0..MaxFaults
  BY DEF TypeInv
<1>2. /\ req.id \in 0..MaxRequests /\ req.id + 1 \in 0..MaxRequests
      /\ 0 \in 0..MaxRequests /\ 0 \in 0..MaxRetries
  BY <1>1 DEF Submit, ReqRecord
<1>3. NoRequest \in ReqRecord
  BY <1>2 DEF NoRequest, ReqRecord, NoGen, Stage
<1>4. req' = [NoRequest EXCEPT !.id = req.id + 1, !.stage = "submitted"]
  BY DEF Submit
<1>5. "submitted" \in Stage
  BY DEF Stage
<1>6. req' \in ReqRecord /\ req'.id = req.id + 1 /\ req'.retries = 0
  BY <1>2, <1>3, <1>4, <1>5 DEF ReqRecord, NoRequest
<1>7. ChunksOK'
  <2>1. chunks' = <<>> /\ stamped' = {}
    BY DEF Submit
  <2> QED
    BY <2>1 DEF ChunksOK, Range
<1>8. TypeOK'
  BY <1>1, <1>6, <1>7 DEF Submit, storeVars, writerVars, StoresOK, WritersOK, ExOK
<1>9. ASSUME NEW e \in Executor PROVE ExecutorFits(e)'
  <2>1. ExecutorFits(e) /\ ex' = ex /\ ex[e] \in ExRecord
    BY <1>1 DEF TypeInv, Submit, ExOK
  <2>2. ex[e].id \in Nat
    BY <2>1 DEF ExRecord
  <2> QED
    BY <1>2, <1>6, <2>1, <2>2 DEF ExecutorFits
<1> QED
  BY <1>6, <1>8, <1>9 DEF TypeInv, RetriesLeft

LEMMA TypeOperator == ASSUME TypeInv, OperatorStep PROVE TypeInv'
<1> USE TypeParts, Constants
<1>1. req \in ReqRecord /\ comm \in CommRecord /\ ChunksOK /\ StoresOK /\ ExOK /\ WritersOK
      /\ faults \in 0..MaxFaults
  BY DEF TypeInv
<1>2. 0 \in 0..MaxRetries /\ 0 < MaxRetries
  OBVIOUS
<1>3. CASE Submit
  BY <1>3, TypeSubmit
<1>4. ASSUME req' \in ReqRecord, req'.id = req.id, RetriesLeft', comm' \in CommRecord,
             req.stage \in Runnable \cup Terminal => req'.stage \in Runnable \cup Terminal,
             faults' \in 0..MaxFaults, UNCHANGED <<chunkVars, storeVars, ex, writerVars>>
      PROVE  TypeInv'
  <2>1. TypeOK'
    BY <1>1, <1>4 DEF chunkVars, storeVars, writerVars, ChunksOK, StoresOK, ExOK, WritersOK
  <2>2. ReqMoves
    BY <1>4 DEF ReqMoves
  <2> QED
    BY <1>4, <2>1, <2>2, FitsFrame DEF TypeInv
<1>5. CASE FreezeInventory
  <2>1. req' = [req EXCEPT !.stage = "inventoried"] /\ req.stage = "submitted"
    BY <1>5 DEF FreezeInventory
  <2>2. req' \in ReqRecord /\ req'.id = req.id /\ req'.retries = req.retries /\ req'.blocked = req.blocked
    BY <1>1, <2>1 DEF ReqRecord, Stage
  <2> QED
    BY <1>1, <1>4, <1>5, <2>1, <2>2 DEF FreezeInventory, Runnable, Terminal, RetriesLeft, TypeInv
<1>6. CASE Approve
  <2>1. req' = [req EXCEPT !.stage = "approved"] /\ req.stage = "inventoried"
    BY <1>6 DEF Approve
  <2>2. req' \in ReqRecord /\ req'.id = req.id /\ req'.retries = req.retries /\ req'.blocked = req.blocked
    BY <1>1, <2>1 DEF ReqRecord, Stage, Runnable
  <2> QED
    BY <1>1, <1>4, <1>6, <2>1, <2>2 DEF Approve, Runnable, Terminal, RetriesLeft, TypeInv
<1>7. CASE Abort
  <2>1. RestoredArchive \in BOOLEAN
    BY <1>1 DEF RestoredArchive, ReqRecord, CommRecord
  <2>2. comm.gen \in Nat /\ comm.gen + 1 \in Nat /\ req.gen \in Nat /\ req.gen + 1 \in Nat
    BY <1>1 DEF CommRecord, ReqRecord
  <2>3. comm' \in CommRecord
    BY <1>1, <1>7, <2>1, <2>2 DEF Abort, CommRecord
  <2>4. /\ req' \in ReqRecord /\ req'.id = req.id /\ req'.retries = 0 /\ req'.stage = "aborted"
    BY <1>1, <1>2, <1>7, <2>2 DEF Abort, ReqRecord, Stage, Terminal
  <2> QED
    BY <1>1, <1>2, <1>4, <1>7, <2>3, <2>4 DEF Abort, Terminal, RetriesLeft
<1>8. CASE Unblock
  <2>1. req' \in ReqRecord /\ req'.id = req.id /\ req'.retries = 0 /\ req'.stage = req.stage
    BY <1>1, <1>2, <1>8 DEF Unblock, ReqRecord
  <2>2. faults' \in 0..MaxFaults
    BY <1>1, <1>8 DEF Unblock
  <2> QED
    BY <1>1, <1>2, <1>4, <1>8, <2>1, <2>2 DEF Unblock, RetriesLeft
<1>9. CASE BlockPreclaimSetup
  <2>1. req' \in ReqRecord /\ req'.id = req.id /\ req'.blocked /\ req'.stage = req.stage
    BY <1>1, <1>9 DEF BlockPreclaimSetup, ReqRecord
  <2>2. faults' \in 0..MaxFaults
    BY <1>1, <1>9 DEF BlockPreclaimSetup
  <2> QED
    BY <1>1, <1>4, <1>9, <2>1, <2>2 DEF BlockPreclaimSetup, RetriesLeft
<1> QED
  BY <1>3, <1>5, <1>6, <1>7, <1>8, <1>9 DEF OperatorStep

LEMMA MovedType ==
    ASSUME TypeInv, ReqMoves, comm' \in CommRecord, ChunksOK', StoresOK',
           faults' \in 0..MaxFaults, UNCHANGED writerVars,
           NEW e \in Executor, NEW P, Moved(e, P), ex[e].pc # "idle", "start" \notin P,
           P \cap {"append", "appending"} # {} => ex[e].seen # {}
    PROVE  TypeInv'
<1>1. WritersOK'
  BY TypeParts DEF TypeInv, writerVars, WritersOK
<1>2. TypeOK'
  BY <1>1, TypeParts DEF ReqMoves, Moved, ExOK
<1> QED
  BY <1>2, FitsStep DEF TypeInv, ReqMoves

(* A step that only moves the executor. *)
LEMMA QuietType ==
    ASSUME TypeInv, UNCHANGED <<req, comm, chunkVars, storeVars, writerVars, faults>>,
           NEW e \in Executor, NEW P, Moved(e, P), ex[e].pc # "idle", "start" \notin P,
           P \cap {"append", "appending"} # {} => ex[e].seen # {}
    PROVE  TypeInv'
<1>1. ReqMoves
  BY ReqUnchanged
<1>2. comm' \in CommRecord /\ ChunksOK' /\ StoresOK' /\ faults' \in 0..MaxFaults
  BY TypeParts DEF TypeInv, chunkVars, storeVars, ChunksOK, StoresOK
<1> QED
  BY <1>1, <1>2, MovedType

LEMMA VerifyMoves ==
    ASSUME ExOK, NEW e \in Executor, NEW p, NEW ok, NEW q \in PC, Verify(e, p, ok, q)
    PROVE  /\ ex[e].pc = p /\ Moved(e, {q, "failed"})
           /\ ex'[e].pc = q /\ q # "failed" => ok
           /\ UNCHANGED <<req, comm, chunkVars, storeVars, writerVars, faults>>
<1>1. CASE ok
  <2>1. Moved(e, {q})
    BY <1>1, GotoMoves DEF Verify, ExOK
  <2> QED
    BY <1>1, <2>1 DEF Verify, Moved
<1>2. CASE ~ok
  <2>1. Moved(e, {"failed"})
    BY <1>2, FailMoves DEF Verify, ExOK
  <2> QED
    BY <1>2, <2>1 DEF Verify, Moved
<1> QED
  BY <1>1, <1>2

(* The steps that look at the lease, the fence or a store and go on or fail. *)
LookStep(e) ==
    \/ DrainCheck(e) \/ ClearCheck(e) \/ AppendCheck(e) \/ DeleteCheck(e) \/ StampCheck(e)
    \/ FlushCheck(e) \/ VerifyRows(e) \/ VerifyStorageAbsence(e) \/ VerifyRedisAbsence(e)

LEMMA LookMoves ==
    ASSUME ExOK, NEW e \in Executor, LookStep(e)
    PROVE  /\ UNCHANGED <<req, comm, chunkVars, storeVars, writerVars, faults>>
           /\ \E q \in {"mark_drained", "clear", "clearing", "appending", "deleting",
                        "stamping", "flushing", "verify_storage", "verify_cache",
                        "mark_verified"} :
                /\ Moved(e, {q, "failed"})
                /\ ex[e].pc = CASE q = "mark_drained" -> "drain_check"
                                [] q = "clear" -> "drain_check"
                                [] q = "clearing" -> "clear"
                                [] q = "appending" -> "append"
                                [] q = "deleting" -> "delete"
                                [] q = "stamping" -> "stamp"
                                [] q = "flushing" -> "flush"
                                [] q = "verify_storage" -> "verify_rows"
                                [] q = "verify_cache" -> "verify_storage"
                                [] q = "mark_verified" -> "verify_cache"
                /\ ex'[e].pc = q /\ q = "mark_drained" => ex[e].frozen
                /\ ex'[e].pc = q /\ q = "verify_cache" => objects = {}
                /\ ex'[e].pc = q /\ q = "mark_verified" => ~cached
<1> USE DEF PC
<1>1. CASE DrainCheck(e)
  <2>1. CASE ex[e].frozen
    BY <1>1, <2>1, VerifyMoves DEF DrainCheck
  <2>2. CASE ~ex[e].frozen
    BY <1>1, <2>2, VerifyMoves DEF DrainCheck
  <2> QED
    BY <2>1, <2>2
<1>2. CASE ClearCheck(e)
  BY <1>2, VerifyMoves DEF ClearCheck
<1>3. CASE AppendCheck(e)
  BY <1>3, VerifyMoves DEF AppendCheck
<1>4. CASE DeleteCheck(e)
  BY <1>4, VerifyMoves DEF DeleteCheck
<1>5. CASE StampCheck(e)
  BY <1>5, VerifyMoves DEF StampCheck
<1>6. CASE FlushCheck(e)
  BY <1>6, VerifyMoves DEF FlushCheck
<1>7. CASE VerifyRows(e)
  <2>1. Moved(e, {"failed"}) \/ Moved(e, {"verify_storage"})
    BY <1>7, FailMoves, GotoMoves DEF VerifyRows, ExOK
  <2> QED
    BY <1>7, <2>1 DEF VerifyRows, Moved
<1>8. CASE VerifyStorageAbsence(e)
  <2>1. /\ ex[e].pc = "verify_storage"
        /\ UNCHANGED <<req, comm, chunkVars, storeVars, writerVars, faults>>
    BY <1>8 DEF VerifyStorageAbsence, Verify
  <2>2. CASE objects = {}
    <3>1. Moved(e, {"verify_cache"})
      BY <1>8, <2>2, GotoMoves DEF VerifyStorageAbsence, Verify, ExOK
    <3>2. Moved(e, {"verify_cache", "failed"})
      BY <3>1 DEF Moved
    <3> QED
      BY <2>1, <2>2, <3>2
  <2>3. CASE objects # {}
    <3>1. Moved(e, {"failed"})
      BY <1>8, <2>3, FailMoves DEF VerifyStorageAbsence, Verify, ExOK
    <3>2. Moved(e, {"verify_cache", "failed"}) /\ ex'[e].pc # "verify_cache"
      BY <3>1 DEF Moved
    <3> QED
      BY <2>1, <3>2
  <2> QED
    BY <2>2, <2>3
<1>9. CASE VerifyRedisAbsence(e)
  <2>1. /\ ex[e].pc = "verify_cache"
        /\ UNCHANGED <<req, comm, chunkVars, storeVars, writerVars, faults>>
    BY <1>9 DEF VerifyRedisAbsence, Verify
  <2>2. CASE ~cached
    <3>1. Moved(e, {"mark_verified"})
      BY <1>9, <2>2, GotoMoves DEF VerifyRedisAbsence, Verify, ExOK
    <3>2. Moved(e, {"mark_verified", "failed"})
      BY <3>1 DEF Moved
    <3> QED
      BY <2>1, <2>2, <3>2
  <2>3. CASE cached
    <3>1. Moved(e, {"failed"})
      BY <1>9, <2>3, FailMoves DEF VerifyRedisAbsence, Verify, ExOK
    <3>2. Moved(e, {"mark_verified", "failed"}) /\ ex'[e].pc # "mark_verified"
      BY <3>1 DEF Moved
    <3> QED
      BY <2>1, <3>2
  <2> QED
    BY <2>2, <2>3
<1> QED
  BY <1>1, <1>2, <1>3, <1>4, <1>5, <1>6, <1>7, <1>8, <1>9 DEF LookStep

LEMMA TypeNow ==
    ASSUME TypeInv
    PROVE  /\ req \in ReqRecord /\ comm \in CommRecord /\ ChunksOK /\ StoresOK /\ ExOK
           /\ WritersOK /\ faults \in 0..MaxFaults
           /\ \A e \in Executor : ex[e] \in ExRecord /\ ExecutorFits(e)
BY TypeParts DEF TypeInv, ExOK

(* The request stays in its stage, with what it has saved. *)
ReqKept == /\ req'.manifest = req.manifest /\ req'.quiesced = req.quiesced
           /\ req'.preArchived = req.preArchived
ReqSteady == ReqMoves /\ ReqKept /\ req'.stage = req.stage

LEMMA SteadyReq ==
    ASSUME TypeInv, NEW o \in Executor \cup {Nobody}, NEW g \in Nat, NEW l \in BOOLEAN,
           NEW b \in BOOLEAN, NEW n \in 0..MaxRetries, b \/ n < MaxRetries,
           req' = [req EXCEPT !.owner = o, !.gen = g, !.live = l, !.blocked = b, !.retries = n]
    PROVE  ReqSteady
<1>1. req \in ReqRecord
  BY TypeNow
<1>2. req' \in ReqRecord
  BY <1>1 DEF ReqRecord
<1>3. /\ req'.id = req.id /\ req'.stage = req.stage /\ ReqKept
      /\ req'.blocked = b /\ req'.retries = n
  BY <1>1 DEF ReqRecord, ReqKept
<1> QED
  BY <1>2, <1>3 DEF ReqSteady, ReqMoves, RetriesLeft

LEMMA SteadySame == ASSUME TypeInv, UNCHANGED req PROVE ReqSteady
BY ReqUnchanged DEF ReqSteady, ReqKept

LEMMA SteadySteps ==
    ASSUME TypeInv, NEW e \in Executor,
           Claim(e) \/ RecordFailure(e) \/ ClaimBlocks(e) \/ Shutdown(e)
    PROVE  ReqSteady
<1>1. /\ req \in ReqRecord /\ ex[e] \in ExRecord
      /\ req.gen \in Nat /\ req.gen + 1 \in Nat /\ req.retries \in 0..MaxRetries
      /\ req.live \in BOOLEAN /\ req.blocked \in BOOLEAN
      /\ req.owner \in Executor \cup {Nobody}
      /\ (req.blocked \/ req.retries < MaxRetries)
      /\ 0 \in 0..MaxRetries /\ 0 < MaxRetries
  BY TypeNow, Constants DEF ReqRecord, TypeInv, RetriesLeft
<1>2. CASE Claim(e)
  <2>1. req' = [req EXCEPT !.owner = e, !.gen = req.gen + 1, !.live = TRUE,
                           !.blocked = req.blocked, !.retries = req.retries]
    BY <1>1, <1>2 DEF Claim, ReqRecord
  <2> QED
    BY <1>1, <2>1, SteadyReq
<1>3. CASE RecordFailure(e)
  <2>1. CASE ~VerifyLease(e, ex[e].stage)
    BY <1>3, <2>1, SteadySame DEF RecordFailure
  <2>2. CASE VerifyLease(e, ex[e].stage)
    <3> DEFINE n == IF ex[e].permanent THEN req.retries ELSE req.retries + 1
               b == ex[e].permanent \/ Exhausted
    <3>1. ~req.blocked /\ ex[e].permanent \in BOOLEAN
      BY <1>1, <2>2 DEF VerifyLease, ExRecord
    <3>2. n \in 0..MaxRetries /\ (b \/ n < MaxRetries) /\ b \in BOOLEAN
      BY <1>1, <3>1, Constants DEF Exhausted
    <3>3. req' = [req EXCEPT !.owner = Nobody, !.live = FALSE, !.retries = n, !.blocked = b]
      BY <1>3, <2>2 DEF RecordFailure
    <3> HIDE DEF n, b
    <3>4. req' = [req EXCEPT !.owner = Nobody, !.gen = req.gen, !.live = FALSE,
                             !.blocked = b, !.retries = n]
      BY <1>1, <3>3 DEF ReqRecord
    <3> QED
      BY <1>1, <3>2, <3>4, SteadyReq
  <2> QED
    BY <2>1, <2>2
<1>4. CASE ClaimBlocks(e)
  <2>1. req' = [req EXCEPT !.owner = Nobody, !.gen = req.gen, !.live = req.live,
                           !.blocked = TRUE, !.retries = req.retries]
    BY <1>1, <1>4 DEF ClaimBlocks, ReqRecord
  <2> QED
    BY <1>1, <2>1, SteadyReq
<1>5. CASE Shutdown(e)
  <2>1. CASE ~Owns(e)
    BY <1>5, <2>1, SteadySame DEF Shutdown
  <2>2. CASE Owns(e)
    <3>1. req' = [req EXCEPT !.owner = Nobody, !.gen = req.gen, !.live = FALSE,
                             !.blocked = req.blocked, !.retries = req.retries]
      BY <1>1, <1>5, <2>2 DEF Shutdown, ReqRecord
    <3> QED
      BY <1>1, <3>1, SteadyReq
  <2> QED
    BY <2>1, <2>2
<1> QED
  BY <1>2, <1>3, <1>4, <1>5

LEMMA SteadyIdle ==
    ASSUME TypeInv, LeaseLapses \/ Unblock \/ BlockPreclaimSetup
    PROVE  ReqSteady
<1>1. /\ req \in ReqRecord
      /\ req.gen \in Nat /\ req.retries \in 0..MaxRetries
      /\ req.live \in BOOLEAN /\ req.blocked \in BOOLEAN
      /\ req.owner \in Executor \cup {Nobody}
      /\ (req.blocked \/ req.retries < MaxRetries)
      /\ 0 \in 0..MaxRetries /\ 0 < MaxRetries
  BY TypeNow, Constants DEF ReqRecord, TypeInv, RetriesLeft
<1>6. CASE LeaseLapses
  <2>1. req' = [req EXCEPT !.owner = req.owner, !.gen = req.gen, !.live = FALSE,
                           !.blocked = req.blocked, !.retries = req.retries]
    BY <1>1, <1>6 DEF LeaseLapses, ReqRecord
  <2> QED
    BY <1>1, <2>1, SteadyReq
<1>7. CASE Unblock
  <2>1. req' = [req EXCEPT !.owner = Nobody, !.gen = req.gen, !.live = req.live,
                           !.blocked = FALSE, !.retries = 0]
    BY <1>1, <1>7 DEF Unblock, ReqRecord
  <2> QED
    BY <1>1, <2>1, SteadyReq
<1>8. CASE BlockPreclaimSetup
  <2>1. req' = [req EXCEPT !.owner = req.owner, !.gen = req.gen, !.live = req.live,
                           !.blocked = TRUE, !.retries = req.retries]
    BY <1>1, <1>8 DEF BlockPreclaimSetup, ReqRecord
  <2> QED
    BY <1>1, <2>1, SteadyReq
<1> QED
  BY <1>6, <1>7, <1>8

(* A step in which an executor starts over with r. *)
LEMMA ReplacedType ==
    ASSUME TypeInv, ReqMoves, StoresOK', faults' \in 0..MaxFaults,
           UNCHANGED <<comm, chunkVars, writerVars>>,
           NEW e \in Executor, NEW r \in ExRecord, ex' = [ex EXCEPT ![e] = r],
           r.id <= req.id,
           r.pc # "idle" /\ r.id = req.id => req.stage \in Runnable \cup Terminal,
           r.pc = "start" => r.stage \in Runnable,
           r.pc \in {"append", "appending"} => r.seen # {}
    PROVE  TypeInv'
<1>1. ExOK' /\ ex'[e] = r /\ \A f \in Executor : f # e => ex'[f] = ex[f]
  BY TypeNow DEF ExOK
<1>2. TypeOK'
  BY <1>1, TypeNow, TypeParts
     DEF ReqMoves, chunkVars, writerVars, ChunksOK, WritersOK
<1>3. ASSUME NEW f \in Executor PROVE ExecutorFits(f)'
  BY <1>1, TypeNow DEF ExecutorFits, ReqMoves
<1> QED
  BY <1>2, <1>3 DEF TypeInv, ReqMoves

LEMMA IdleRecord == Idle \in ExRecord /\ Idle.pc = "idle" /\ Idle.id = 0
BY Constants DEF Idle, ExRecord, PC, Stage, NoGen, Runnable, Terminal

LEMMA TypeReset ==
    ASSUME TypeInv, ReqMoves, StoresOK', faults' \in 0..MaxFaults,
           UNCHANGED <<comm, chunkVars, writerVars>>,
           NEW e \in Executor, ex' = [ex EXCEPT ![e] = Idle]
    PROVE  TypeInv'
<1>1. Idle.id <= req.id
  BY IdleRecord, TypeNow DEF ReqRecord
<1> QED
  BY <1>1, IdleRecord, ReplacedType

LEMMA StoresKept == ASSUME TypeInv, UNCHANGED storeVars PROVE StoresOK'
BY TypeNow DEF storeVars, StoresOK

LEMMA TypeClaim == ASSUME TypeInv, NEW e \in Executor, Claim(e) PROVE TypeInv'
<1> DEFINE r == [Idle EXCEPT !.pc = "start", !.id = req.id,
                 !.gen = req.gen + 1, !.fgen = req.fgen, !.stage = req.stage,
                 !.frozen = req.manifest # NoManifest]
<1>1. req \in ReqRecord /\ req.stage \in Runnable
  BY TypeNow DEF Claim, ClaimFree
<1>2. /\ req.gen + 1 \in Nat /\ req.id \in 0..MaxRequests /\ req.fgen \in Nat
      /\ req.stage \in Stage /\ (req.manifest # NoManifest) \in BOOLEAN
  BY <1>1 DEF ReqRecord
<1>3. r \in ExRecord
  BY <1>2, IdleRecord DEF ExRecord, PC
<1>4. r.id = req.id /\ r.pc = "start" /\ r.stage = req.stage
  BY IdleRecord DEF ExRecord
<1>5. ex' = [ex EXCEPT ![e] = r]
  BY DEF Claim
<1>6. ReqMoves
  BY SteadySteps DEF ReqSteady
<1>7. r.id <= req.id
  BY <1>2, <1>4
<1> HIDE DEF r
<1> QED
  BY <1>1, <1>3, <1>4, <1>5, <1>6, <1>7, ReplacedType, StoresKept, TypeNow DEF Claim

LEMMA TypeStartStage == ASSUME TypeInv, NEW e \in Executor, StartStage(e) PROVE TypeInv'
<1>1. CASE HeartbeatOK(e)
  <2>1. ex[e].stage \in Runnable /\ ex[e].pc = "start"
    BY TypeNow DEF StartStage, ExecutorFits
  <2> DEFINE q == FirstStep[ex[e].stage]
  <2>2. q \in PC \ {"start", "append", "appending"}
    BY <2>1 DEF FirstStep, Runnable, PC
  <2> HIDE DEF q
  <2>3. Goto(e, q)
    BY <1>1 DEF StartStage, q
  <2>4. Moved(e, {q})
    BY <2>2, <2>3, GotoMoves, TypeNow DEF ExOK
  <2> QED
    BY <2>1, <2>2, <2>4, QuietType DEF StartStage
<1>2. CASE ~HeartbeatOK(e)
  BY <1>2, TypeReset, ReqUnchanged, StoresKept, TypeNow DEF StartStage
<1> QED
  BY <1>1, <1>2

LEMMA TypeFinishStage == ASSUME TypeInv, NEW e \in Executor, FinishStage(e) PROVE TypeInv'
<1>1. ReqMoves /\ StoresOK' /\ faults' \in 0..MaxFaults
  BY ReqUnchanged, StoresKept, TypeNow DEF FinishStage
<1>2. CASE req.id # ex[e].id \/ req.blocked \/ req.stage \in Terminal
  BY <1>1, <1>2, TypeReset DEF FinishStage
<1>3. CASE ~(req.id # ex[e].id \/ req.blocked \/ req.stage \in Terminal)
  <2> DEFINE r == [ex[e] EXCEPT !.pc = "start", !.stage = req.stage, !.fgen = req.fgen,
                        !.frozen = req.manifest # NoManifest, !.seen = {}, !.cur = 0]
  <2>1. ex' = [ex EXCEPT ![e] = r]
    BY <1>3 DEF FinishStage
  <2>2. ex[e] \in ExRecord /\ req \in ReqRecord /\ ExecutorFits(e)
    BY TypeNow
  <2>3. r \in ExRecord
    BY <2>2 DEF ExRecord, ReqRecord, PC
  <2>4. r.id = ex[e].id /\ r.pc = "start" /\ r.stage = req.stage
    BY <2>2 DEF ExRecord
  <2>5. req.stage \in Runnable
    BY <1>3, <2>2 DEF FinishStage, ExecutorFits
  <2>6. r.id <= req.id
    BY <2>2, <2>4 DEF ExecutorFits
  <2> HIDE DEF r
  <2> QED
    BY <1>1, <2>1, <2>3, <2>4, <2>5, <2>6, ReplacedType DEF FinishStage
<1> QED
  BY <1>2, <1>3

LEMMA TypeRecordFailure == ASSUME TypeInv, NEW e \in Executor, RecordFailure(e) PROVE TypeInv'
<1>1. StoresOK' /\ faults' \in 0..MaxFaults
  BY StoresKept, TypeNow DEF RecordFailure
<1>2. ReqMoves
  BY SteadySteps DEF ReqSteady
<1> QED
  BY <1>1, <1>2, TypeReset DEF RecordFailure

-----------------------------------------------------------------------------
(* What the executor's own steps do when they do not fail. *)

FailStep(e) ==
    /\ ex[e].pc # "idle" /\ Moved(e, {"failed"})
    /\ UNCHANGED <<req, comm, chunkVars, storeVars, writerVars, faults>>

AdvanceDone(e, p, s) ==
    /\ ex[e].pc = p /\ req.stage = s
    /\ ReqMoves /\ ReqKept /\ req'.stage = NextStage[s]
    /\ Moved(e, {"done", "failed"})

QuiesceDone(e) ==
    /\ ex[e].pc = "quiesce" /\ req.stage = "approved"
    /\ ReqMoves /\ req'.stage = "approved" /\ req'.manifest = req.manifest
    /\ req'.quiesced
    /\ req'.preArchived = IF req.quiesced THEN req.preArchived ELSE comm.archived
    /\ comm.state \in {"active", "quiescing"}
    /\ comm' \in CommRecord /\ comm'.state = "quiescing"
    /\ Moved(e, {"fence", "failed"})
    /\ UNCHANGED <<chunkVars, storeVars>>

FenceDone(e) ==
    /\ AdvanceDone(e, "fence", "approved")
    /\ comm.state = "quiescing" /\ ServingWritesDrained
    /\ comm' \in CommRecord /\ comm'.state = "fenced"
    /\ UNCHANGED <<chunkVars, storeVars>>

ClearDone(e) ==
    /\ ex[e].pc = "clearing" /\ RemoveAllowed
    /\ chunks' = IF req.id = ex[e].id THEN <<>> ELSE chunks
    /\ stamped' = IF req.id = ex[e].id THEN {} ELSE stamped
    /\ Moved(e, {"list", "failed"})
    /\ UNCHANGED <<req, comm, storeVars>>

AppendDone(e) ==
    /\ ex[e].pc = "appending" /\ InsertAllowed(e)
    /\ \E no \in 1..Cardinality(Object), o \in Object :
         /\ no \notin DOMAIN chunks
         /\ chunks' = [k \in DOMAIN chunks \cup {no} |-> IF k = no THEN o ELSE chunks[k]]
    /\ Moved(e, {"list", "failed"})
    /\ UNCHANGED <<req, comm, stamped, storeVars>>

FreezeDone(e) ==
    /\ ex[e].pc = "freeze" /\ req.stage = "fenced" /\ Owns(e)
    /\ Range(chunks) = ex[e].seen
    /\ ReqMoves /\ req'.stage = "fenced" /\ req'.manifest = ex[e].seen
    /\ req'.quiesced = req.quiesced /\ req'.preArchived = req.preArchived
    /\ Moved(e, {"mark_drained", "failed"})
    /\ UNCHANGED <<comm, chunkVars, storeVars>>

MarkDone(e) ==
    /\ \/ AdvanceDone(e, "mark_drained", "fenced") /\ Owns(e)
       \/ AdvanceDone(e, "mark_removed", "drained")
       \/ AdvanceDone(e, "mark_flushed", "postgres_purged")
       \/ AdvanceDone(e, "mark_retention", "logically_verified")
    /\ UNCHANGED <<comm, chunkVars, storeVars>>

EraseDone(e) ==
    /\ Destroy(Target(e))
    /\ \/ ex[e].pc = "deleting" /\ Moved(e, {"stamp"})
       \/ ex[e].pc = "flushing" /\ Moved(e, {"mark_flushed"})
    /\ UNCHANGED <<req, comm, chunkVars>>

StampDone(e) ==
    /\ ex[e].pc = "stamping" /\ ex[e].cur \in DOMAIN chunks
    /\ stamped' = stamped \cup {ex[e].cur}
    /\ Moved(e, {"next", "failed"})
    /\ UNCHANGED <<req, comm, chunks, storeVars>>

PurgeDone(e) ==
    /\ AdvanceDone(e, "purge", "bindings_removed")
    /\ comm.state = "fenced" /\ comm' \in CommRecord /\ comm'.state = "tombstone"
    /\ rows' = FALSE
    /\ UNCHANGED <<chunkVars, objects, cached, strays>>

VerifiedDone(e) ==
    /\ AdvanceDone(e, "mark_verified", "cache_purged")
    /\ chunks' = <<>> /\ stamped' = {}
    /\ UNCHANGED <<comm, storeVars>>

WorkStep(e) ==
    \/ BeginQuiescing(e) \/ Fence(e) \/ ClearChunks(e) \/ AppendChunk(e)
    \/ FreezeManifest(e) \/ MarkDrained(e) \/ DeleteChunk(e) \/ StampChunk(e)
    \/ MarkBindingsRemoved(e) \/ PurgePostgres(e) \/ FlushCache(e) \/ MarkCachePurged(e)
    \/ MarkLogicallyVerified(e) \/ MarkRetentionPending(e)

WorkDone(e) ==
    /\ faults' \in 0..MaxFaults /\ UNCHANGED writerVars
    /\ \/ QuiesceDone(e) \/ FenceDone(e) \/ ClearDone(e) \/ AppendDone(e) \/ FreezeDone(e)
       \/ MarkDone(e) \/ EraseDone(e) \/ StampDone(e) \/ PurgeDone(e) \/ VerifiedDone(e)

LEMMA Failed ==
    ASSUME TypeInv, NEW e \in Executor, NEW b \in BOOLEAN, Fail(e, b), ex[e].pc # "idle",
           UNCHANGED <<req, comm, chunkVars, storeVars, writerVars, faults>>
    PROVE  FailStep(e)
BY FailMoves, TypeNow DEF FailStep, ExOK

LEMMA CommittedNow ==
    ASSUME TypeInv, NEW e \in Executor, NEW p \in PC, Committed(e, p)
    PROVE  Moved(e, {p, "failed"}) /\ faults' \in 0..MaxFaults
BY CommittedMoves, TypeNow DEF ExOK

LEMMA AdvanceNow ==
    ASSUME TypeInv, NEW e \in Executor, NEW p, NEW s \in Runnable,
           ex[e].pc = p, req.stage = s, req' = Advanced(s), Committed(e, "done")
    PROVE  AdvanceDone(e, p, s) /\ faults' \in 0..MaxFaults
<1>1. Moved(e, {"done", "failed"}) /\ faults' \in 0..MaxFaults
  BY CommittedNow DEF PC
<1> QED
  BY <1>1, AdvancedType, TypeNow DEF AdvanceDone, ReqKept

LEMMA CheckpointOutcome ==
    ASSUME TypeInv, NEW e \in Executor, NEW p \in PC \ {"idle"}, NEW s \in Runnable,
           AdvanceWithCheckpoint(e, p, s)
    PROVE  \/ FailStep(e)
           \/ /\ AdvanceDone(e, p, s) /\ faults' \in 0..MaxFaults
              /\ UNCHANGED <<comm, chunkVars, storeVars, writerVars>>
<1>1. CASE VerifyLeaseAndFence(e, s)
  BY <1>1, AdvanceNow DEF AdvanceWithCheckpoint, VerifyLeaseAndFence, VerifyLease
<1>2. CASE ~VerifyLeaseAndFence(e, s)
  BY <1>2, Failed DEF AdvanceWithCheckpoint
<1> QED
  BY <1>1, <1>2

LEMMA QuiesceOutcome ==
    ASSUME TypeInv, NEW e \in Executor, BeginQuiescing(e)
    PROVE  FailStep(e) \/ WorkDone(e)
<1>1. CASE ~VerifyLease(e, "approved")
  BY <1>1, Failed DEF BeginQuiescing
<1>2. CASE VerifyLease(e, "approved") /\ comm.state \notin {"active", "quiescing"}
  BY <1>2, Failed DEF BeginQuiescing
<1>3. CASE VerifyLease(e, "approved") /\ comm.state \in {"active", "quiescing"}
  <2>1. req \in ReqRecord /\ comm \in CommRecord
    BY TypeNow
  <2>2. /\ req' = IF req.quiesced THEN req
                  ELSE [req EXCEPT !.quiesced = TRUE, !.preArchived = comm.archived]
        /\ comm' = [comm EXCEPT !.state = "quiescing", !.archived = TRUE]
        /\ Committed(e, "fence")
    BY <1>3 DEF BeginQuiescing
  <2>3. comm' \in CommRecord /\ comm'.state = "quiescing"
    BY <2>1, <2>2 DEF CommRecord
  <2>4. comm.archived \in BOOLEAN
    BY <2>1 DEF CommRecord
  <2>5. req' \in ReqRecord
    BY <2>1, <2>2, <2>4 DEF ReqRecord
  <2>6. /\ req'.id = req.id /\ req'.stage = req.stage /\ req'.manifest = req.manifest
        /\ req'.retries = req.retries /\ req'.blocked = req.blocked /\ req'.quiesced
        /\ req'.preArchived = IF req.quiesced THEN req.preArchived ELSE comm.archived
    BY <2>1, <2>2 DEF ReqRecord
  <2>7. ReqMoves
    BY <2>5, <2>6 DEF ReqMoves, TypeInv, RetriesLeft
  <2>8. Moved(e, {"fence", "failed"}) /\ faults' \in 0..MaxFaults
    BY <2>2, CommittedNow DEF PC
  <2>9. QuiesceDone(e)
    BY <1>3, <2>3, <2>6, <2>7, <2>8 DEF QuiesceDone, VerifyLease, BeginQuiescing
  <2> QED
    BY <2>8, <2>9 DEF WorkDone, BeginQuiescing
<1> QED
  BY <1>1, <1>2, <1>3

LEMMA FenceOutcome ==
    ASSUME TypeInv, NEW e \in Executor, Fence(e)
    PROVE  FailStep(e) \/ WorkDone(e)
<1>1. CASE ~MayFence(e)
  BY <1>1, Failed DEF Fence
<1>2. CASE MayFence(e) /\ comm.state # "quiescing"
  BY <1>2, Failed DEF Fence
<1>3. CASE MayFence(e) /\ comm.state = "quiescing"
  <2>1. req \in ReqRecord /\ comm \in CommRecord
    BY TypeNow
  <2>2. /\ comm' = [comm EXCEPT !.state = "fenced", !.gen = @ + 1, !.archived = TRUE]
        /\ req' = [Advanced("approved") EXCEPT !.fgen = comm.gen + 1]
        /\ Committed(e, "done")
    BY <1>3 DEF Fence
  <2>3. comm.gen + 1 \in Nat
    BY <2>1 DEF CommRecord
  <2>4. comm' \in CommRecord /\ comm'.state = "fenced"
    BY <2>1, <2>2, <2>3 DEF CommRecord
  <2>5. /\ 0 \in 0..MaxRetries /\ 0 < MaxRetries
        /\ NextStage["approved"] = "fenced" /\ "fenced" \in Stage \cap Runnable
    BY Constants DEF NextStage, Runnable, Stage
  <2>6. req' = [req EXCEPT !.stage = "fenced", !.retries = 0, !.fgen = comm.gen + 1]
    BY <2>1, <2>2, <2>5 DEF Advanced, ReqRecord
  <2>7. req' \in ReqRecord
    BY <2>1, <2>3, <2>5, <2>6 DEF ReqRecord
  <2>8. /\ req'.id = req.id /\ req'.stage = "fenced" /\ req'.manifest = req.manifest
        /\ req'.retries = 0 /\ req'.quiesced = req.quiesced
        /\ req'.preArchived = req.preArchived
    BY <2>1, <2>6 DEF ReqRecord
  <2>9. ReqMoves /\ ReqKept
    BY <2>5, <2>7, <2>8 DEF ReqMoves, RetriesLeft, ReqKept
  <2>10. Moved(e, {"done", "failed"}) /\ faults' \in 0..MaxFaults
    BY <2>2, CommittedNow DEF PC
  <2>11. FenceDone(e)
    BY <1>3, <2>4, <2>5, <2>8, <2>9, <2>10
       DEF FenceDone, AdvanceDone, VerifyLease, MayFence, Fence
  <2> QED
    BY <2>10, <2>11 DEF WorkDone, Fence
<1> QED
  BY <1>1, <1>2, <1>3

LEMMA ClearOutcome ==
    ASSUME TypeInv, NEW e \in Executor, ClearChunks(e)
    PROVE  FailStep(e) \/ WorkDone(e)
<1>1. CASE ~RemoveAllowed
  BY <1>1, Failed DEF ClearChunks
<1>2. CASE RemoveAllowed
  <2>1. Moved(e, {"list", "failed"}) /\ faults' \in 0..MaxFaults
    BY <1>2, CommittedNow DEF ClearChunks, PC
  <2> QED
    BY <1>2, <2>1 DEF ClearDone, WorkDone, ClearChunks
<1> QED
  BY <1>1, <1>2

LEMMA AppendOutcome ==
    ASSUME TypeInv, NEW e \in Executor, AppendChunk(e)
    PROVE  FailStep(e) \/ WorkDone(e)
<1> DEFINE no == Cardinality(ex[e].seen)
           ok == InsertAllowed(e) /\ no \notin DOMAIN chunks
<1>1. CASE ~ok
  <2>1. /\ Fail(e, FALSE) /\ ex[e].pc # "idle"
        /\ UNCHANGED <<req, comm, chunkVars, storeVars, writerVars, faults>>
    BY <1>1 DEF AppendChunk, chunkVars
  <2> QED
    BY <2>1, Failed
<1>2. CASE ok
  <2>1. ex[e].pc = "appending" /\ ex[e].seen \in SUBSET Object /\ ex[e].seen # {}
    BY TypeNow DEF AppendChunk, ExRecord, ExecutorFits
  <2>2. Max(ex[e].seen) \in Object
    BY <2>1, MaxObject
  <2>3. no \in 1..Cardinality(Object)
    <3>1. IsFiniteSet(Object)
      BY DeletionAssumption
    <3>2. IsFiniteSet(ex[e].seen) /\ no <= Cardinality(Object)
      BY <2>1, <3>1, FS_Subset
    <3>3. no \in Nat /\ Cardinality(Object) \in Nat /\ no # 0
      BY <2>1, <3>1, <3>2, FS_CardinalityType, FS_EmptySet
    <3> QED
      BY <3>2, <3>3
  <2>4. /\ chunks' = [k \in DOMAIN chunks \cup {no} |->
                        IF k = no THEN Max(ex[e].seen) ELSE chunks[k]]
        /\ Committed(e, "list") /\ UNCHANGED <<req, comm, stamped, storeVars, writerVars>>
    BY <1>2 DEF AppendChunk
  <2>5. Moved(e, {"list", "failed"}) /\ faults' \in 0..MaxFaults
    BY <2>4, CommittedNow DEF PC
  <2>6. AppendDone(e)
    <3> HIDE DEF no
    <3> QED BY <1>2, <2>1, <2>2, <2>3, <2>4, <2>5 DEF AppendDone
  <2> QED
    BY <2>4, <2>5, <2>6 DEF WorkDone
<1> QED
  BY <1>1, <1>2

LEMMA FreezeOutcome ==
    ASSUME TypeInv, NEW e \in Executor, FreezeManifest(e)
    PROVE  FailStep(e) \/ WorkDone(e)
<1> DEFINE bad == \/ Range(chunks) # ex[e].seen
                  \/ Cardinality(DOMAIN chunks) # Cardinality(ex[e].seen)
                  \/ req.manifest \notin {NoManifest, ex[e].seen}
<1>1. CASE ~VerifyLeaseAndFence(e, "fenced")
  BY <1>1, Failed DEF FreezeManifest
<1>2. CASE VerifyLeaseAndFence(e, "fenced") /\ bad
  BY <1>2, Failed DEF FreezeManifest
<1>3. CASE VerifyLeaseAndFence(e, "fenced") /\ ~bad
  <2>1. req \in ReqRecord /\ ex[e].seen \in SUBSET Object
    BY TypeNow DEF ExRecord
  <2>2. req' = [req EXCEPT !.manifest = ex[e].seen] /\ Committed(e, "mark_drained")
    BY <1>3 DEF FreezeManifest
  <2>3. req' \in ReqRecord
    BY <2>1, <2>2 DEF ReqRecord
  <2>4. /\ req'.id = req.id /\ req'.stage = req.stage /\ req'.manifest = ex[e].seen
        /\ req'.retries = req.retries /\ req'.blocked = req.blocked
        /\ req'.quiesced = req.quiesced /\ req'.preArchived = req.preArchived
    BY <2>1, <2>2 DEF ReqRecord
  <2>5. ReqMoves
    BY <2>3, <2>4 DEF ReqMoves, TypeInv, RetriesLeft
  <2>6. Moved(e, {"mark_drained", "failed"}) /\ faults' \in 0..MaxFaults
    BY <2>2, CommittedNow DEF PC
  <2>7. FreezeDone(e)
    BY <1>3, <2>4, <2>5, <2>6
       DEF FreezeDone, FreezeManifest, VerifyLeaseAndFence, VerifyLease
  <2> QED
    BY <2>6, <2>7 DEF WorkDone, FreezeManifest
<1> QED
  BY <1>1, <1>2, <1>3

LEMMA WorkOutcome ==
    ASSUME TypeInv, NEW e \in Executor, WorkStep(e)
    PROVE  FailStep(e) \/ WorkDone(e)
<1> USE DEF PC
<1>r. /\ "fenced" \in Runnable /\ "drained" \in Runnable /\ "postgres_purged" \in Runnable
      /\ "bindings_removed" \in Runnable /\ "cache_purged" \in Runnable
      /\ "logically_verified" \in Runnable
  BY DEF Runnable
<1>1. CASE BeginQuiescing(e)
  BY <1>1, QuiesceOutcome
<1>2. CASE Fence(e)
  BY <1>2, FenceOutcome
<1>3. CASE ClearChunks(e)
  BY <1>3, ClearOutcome
<1>4. CASE AppendChunk(e)
  BY <1>4, AppendOutcome
<1>5. CASE FreezeManifest(e)
  BY <1>5, FreezeOutcome
<1>6. CASE MarkDrained(e)
  <2>1. CASE ~VerifyLeaseAndFence(e, "fenced") \/ ~ServingWritesDrained
    BY <1>6, <2>1, Failed DEF MarkDrained
  <2>2. CASE VerifyLeaseAndFence(e, "fenced") /\ ServingWritesDrained
    <3>1. /\ ex[e].pc = "mark_drained" /\ req.stage = "fenced" /\ Owns(e)
          /\ req' = Advanced("fenced") /\ Committed(e, "done")
          /\ UNCHANGED <<comm, chunkVars, storeVars, writerVars>>
      BY <1>6, <2>2 DEF MarkDrained, VerifyLeaseAndFence, VerifyLease
    <3>2. AdvanceDone(e, "mark_drained", "fenced") /\ faults' \in 0..MaxFaults
      BY <1>r, <3>1, AdvanceNow
    <3> QED
      BY <3>1, <3>2 DEF WorkDone, MarkDone
  <2> QED
    BY <2>1, <2>2
<1>7. CASE MarkBindingsRemoved(e)
  BY <1>r, <1>7, CheckpointOutcome DEF MarkBindingsRemoved, WorkDone, MarkDone
<1>8. CASE MarkCachePurged(e)
  BY <1>r, <1>8, CheckpointOutcome DEF MarkCachePurged, WorkDone, MarkDone
<1>9. CASE DeleteChunk(e)
  <2>1. Moved(e, {"stamp"})
    BY <1>9, GotoMoves, TypeNow DEF DeleteChunk, ExOK
  <2> QED
    BY <1>9, <2>1, TypeNow DEF DeleteChunk, WorkDone, EraseDone
<1>10. CASE FlushCache(e)
  <2>1. Moved(e, {"mark_flushed"})
    BY <1>10, GotoMoves, TypeNow DEF FlushCache, ExOK
  <2> QED
    BY <1>10, <2>1, TypeNow DEF FlushCache, WorkDone, EraseDone
<1>11. CASE StampChunk(e)
  <2>1. CASE DeletedChunk(e) \in DOMAIN chunks \ stamped
    <3>1. Moved(e, {"next", "failed"}) /\ faults' \in 0..MaxFaults
      BY <1>11, <2>1, CommittedNow DEF StampChunk
    <3> QED
      BY <1>11, <2>1, <3>1 DEF StampChunk, WorkDone, StampDone, DeletedChunk
  <2>2. CASE DeletedChunk(e) \notin DOMAIN chunks \ stamped
    BY <1>11, <2>2, Failed DEF StampChunk, chunkVars
  <2> QED
    BY <2>1, <2>2
<1>12. CASE PurgePostgres(e)
  <2>1. CASE ~VerifyLeaseAndFence(e, "bindings_removed") \/ comm.state # "fenced"
    BY <1>12, <2>1, Failed DEF PurgePostgres, storeVars
  <2>2. CASE VerifyLeaseAndFence(e, "bindings_removed") /\ comm.state = "fenced"
    <3>1. /\ ex[e].pc = "purge" /\ req.stage = "bindings_removed"
          /\ comm' = [comm EXCEPT !.state = "tombstone", !.archived = TRUE]
          /\ req' = Advanced("bindings_removed") /\ Committed(e, "done") /\ rows' = FALSE
          /\ UNCHANGED <<chunkVars, objects, cached, strays, writerVars>>
      BY <1>12, <2>2 DEF PurgePostgres, VerifyLeaseAndFence, VerifyLease
    <3>2. AdvanceDone(e, "purge", "bindings_removed") /\ faults' \in 0..MaxFaults
      BY <1>r, <3>1, AdvanceNow
    <3>3. comm' \in CommRecord /\ comm'.state = "tombstone"
      BY <3>1, TypeNow DEF CommRecord
    <3> QED
      BY <2>2, <3>1, <3>2, <3>3 DEF WorkDone, PurgeDone
  <2> QED
    BY <2>1, <2>2
<1>13. CASE MarkLogicallyVerified(e)
  <2>1. CASE ~VerifyLeaseAndFence(e, "cache_purged")
    BY <1>13, <2>1, Failed DEF MarkLogicallyVerified
  <2>2. CASE VerifyLeaseAndFence(e, "cache_purged")
    <3>1. /\ ex[e].pc = "mark_verified" /\ req.stage = "cache_purged"
          /\ req' = Advanced("cache_purged") /\ Committed(e, "done")
          /\ chunks' = <<>> /\ stamped' = {}
          /\ UNCHANGED <<comm, storeVars, writerVars>>
      BY <1>13, <2>2 DEF MarkLogicallyVerified, VerifyLeaseAndFence, VerifyLease
    <3>2. AdvanceDone(e, "mark_verified", "cache_purged") /\ faults' \in 0..MaxFaults
      BY <1>r, <3>1, AdvanceNow
    <3> QED
      BY <3>1, <3>2 DEF WorkDone, VerifiedDone
  <2> QED
    BY <2>1, <2>2
<1>14. CASE MarkRetentionPending(e)
  <2>1. CASE ~VerifyLeaseAndFence(e, "logically_verified")
    BY <1>14, <2>1, Failed DEF MarkRetentionPending
  <2>2. CASE VerifyLeaseAndFence(e, "logically_verified")
    <3>1. /\ ex[e].pc = "mark_retention" /\ req.stage = "logically_verified"
          /\ req' = [Advanced("logically_verified") EXCEPT !.owner = Nobody, !.live = FALSE]
          /\ Committed(e, "done")
          /\ UNCHANGED <<comm, chunkVars, storeVars, writerVars>>
      BY <1>14, <2>2 DEF MarkRetentionPending, VerifyLeaseAndFence, VerifyLease
    <3>2. /\ 0 \in 0..MaxRetries /\ 0 < MaxRetries
          /\ NextStage["logically_verified"] = "retention_pending"
          /\ "retention_pending" \in Stage \cap Terminal
      BY <1>r, Constants DEF NextStage, Stage, Terminal
    <3>3. req' = [req EXCEPT !.stage = "retention_pending", !.retries = 0, !.owner = Nobody,
                             !.live = FALSE]
      BY <3>1, <3>2, TypeNow DEF Advanced, ReqRecord
    <3>4. req' \in ReqRecord
      BY <3>2, <3>3, TypeNow DEF ReqRecord
    <3>5. /\ req'.id = req.id /\ req'.stage = "retention_pending" /\ req'.retries = 0
          /\ ReqKept
      BY <3>3, TypeNow DEF ReqRecord, ReqKept
    <3>6. Moved(e, {"done", "failed"}) /\ faults' \in 0..MaxFaults
      BY <3>1, CommittedNow
    <3>7. AdvanceDone(e, "mark_retention", "logically_verified")
      BY <3>1, <3>2, <3>4, <3>5, <3>6 DEF AdvanceDone, ReqMoves, RetriesLeft
    <3> QED
      BY <3>1, <3>6, <3>7 DEF WorkDone, MarkDone
  <2> QED
    BY <2>1, <2>2
<1> QED
  BY <1>1, <1>2, <1>3, <1>4, <1>5, <1>6, <1>7, <1>8, <1>9, <1>10, <1>11, <1>12, <1>13, <1>14
     DEF WorkStep

LEMMA TypeFail == ASSUME TypeInv, NEW e \in Executor, FailStep(e) PROVE TypeInv'
BY QuietType DEF FailStep

LEMMA DestroyType == ASSUME TypeInv, NEW S, Destroy(S) PROVE StoresOK'
BY TypeNow DEF Destroy, StoresOK

LEMMA TypeWork == ASSUME TypeInv, NEW e \in Executor, WorkDone(e) PROVE TypeInv'
<1>1. faults' \in 0..MaxFaults /\ UNCHANGED writerVars
  BY DEF WorkDone
<1>2. UNCHANGED chunkVars => ChunksOK'
  BY TypeNow DEF chunkVars, ChunksOK
<1>3. UNCHANGED storeVars => StoresOK'
  BY StoresKept
<1>4. UNCHANGED comm => comm' \in CommRecord
  BY TypeNow
<1>5. CASE QuiesceDone(e)
  BY <1>1, <1>2, <1>3, <1>5, MovedType DEF QuiesceDone
<1>6. CASE FenceDone(e)
  BY <1>1, <1>2, <1>3, <1>6, MovedType DEF FenceDone, AdvanceDone
<1>7. CASE ClearDone(e)
  <2>1. ChunksOK'
    BY <1>7, TypeNow DEF ClearDone, ChunksOK, Range
  <2> QED
    BY <1>1, <1>3, <1>4, <1>7, <2>1, MovedType, ReqUnchanged DEF ClearDone
<1>8. CASE AppendDone(e)
  <2>1. PICK no \in 1..Cardinality(Object), o \in Object :
          chunks' = [k \in DOMAIN chunks \cup {no} |-> IF k = no THEN o ELSE chunks[k]]
    BY <1>8 DEF AppendDone
  <2>2. ChunksOK'
    <3>1. ChunksOK /\ stamped' = stamped
      BY <1>8, TypeNow DEF AppendDone
    <3>2. DOMAIN chunks' = DOMAIN chunks \cup {no}
      BY <2>1
    <3>3. \A k \in DOMAIN chunks' : chunks'[k] \in Object
      BY <2>1, <3>1, <3>2 DEF ChunksOK, Range
    <3> QED
      BY <3>1, <3>2, <3>3 DEF ChunksOK, Range
  <2> QED
    BY <1>1, <1>3, <1>4, <1>8, <2>2, MovedType, ReqUnchanged DEF AppendDone
<1>9. CASE FreezeDone(e)
  BY <1>1, <1>2, <1>3, <1>4, <1>9, MovedType DEF FreezeDone
<1>10. CASE MarkDone(e)
  BY <1>1, <1>2, <1>3, <1>4, <1>10, MovedType DEF MarkDone, AdvanceDone
<1>11. CASE EraseDone(e)
  <2>1. StoresOK'
    BY <1>11, DestroyType DEF EraseDone
  <2> QED
    BY <1>1, <1>2, <1>4, <1>11, <2>1, MovedType, ReqUnchanged DEF EraseDone
<1>12. CASE StampDone(e)
  <2>1. ChunksOK'
    BY <1>12, TypeNow DEF StampDone, ChunksOK
  <2> QED
    BY <1>1, <1>3, <1>4, <1>12, <2>1, MovedType, ReqUnchanged DEF StampDone
<1>13. CASE PurgeDone(e)
  <2>1. StoresOK'
    BY <1>13, TypeNow DEF PurgeDone, StoresOK
  <2> QED
    BY <1>1, <1>2, <1>13, <2>1, MovedType DEF PurgeDone, AdvanceDone
<1>14. CASE VerifiedDone(e)
  <2>1. ChunksOK'
    BY <1>14 DEF VerifiedDone, ChunksOK, Range
  <2> QED
    BY <1>1, <1>3, <1>4, <1>14, <2>1, MovedType DEF VerifiedDone, AdvanceDone
<1> QED
  BY <1>5, <1>6, <1>7, <1>8, <1>9, <1>10, <1>11, <1>12, <1>13, <1>14 DEF WorkDone

LEMMA TypeLook == ASSUME TypeInv, NEW e \in Executor, LookStep(e) PROVE TypeInv'
<1>1. PICK q \in {"mark_drained", "clear", "clearing", "appending", "deleting",
                  "stamping", "flushing", "verify_storage", "verify_cache",
                  "mark_verified"} :
        /\ Moved(e, {q, "failed"})
        /\ q = "appending" => ex[e].pc = "append"
  BY LookMoves, TypeNow
<1>2. ex[e].pc # "idle"
  BY DEF LookStep, DrainCheck, ClearCheck, AppendCheck, DeleteCheck, StampCheck, FlushCheck,
         VerifyRows, VerifyStorageAbsence, VerifyRedisAbsence, Verify
<1>3. q = "appending" => ex[e].seen # {}
  BY <1>1, <1>2, TypeNow DEF ExecutorFits
<1>4. UNCHANGED <<req, comm, chunkVars, storeVars, writerVars, faults>>
  BY LookMoves, TypeNow
<1>5. "start" \notin {q, "failed"} /\ ({q, "failed"} \cap {"append", "appending"} # {} => ex[e].seen # {})
  BY <1>1, <1>3
<1> QED
  BY <1>1, <1>2, <1>4, <1>5, QuietType

LEMMA ListOutcome ==
    ASSUME TypeInv, NEW e \in Executor, ListObject(e)
    PROVE  \E r \in ExRecord :
             /\ ex' = [ex EXCEPT ![e] = r]
             /\ r.id = ex[e].id /\ r.stage = ex[e].stage /\ r.frozen = ex[e].frozen
             /\ \/ r.pc = "freeze"
                \/ r.pc = "append" /\ r.seen # {}
<1>1. ex[e] \in ExRecord
  BY TypeNow
<1>2. CASE Beyond(e) = {}
  <2> DEFINE r == [ex[e] EXCEPT !.pc = "freeze"]
  <2>1. ex' = [ex EXCEPT ![e] = r]
    BY <1>2 DEF ListObject
  <2>2. /\ r \in ExRecord /\ r.id = ex[e].id /\ r.stage = ex[e].stage /\ r.frozen = ex[e].frozen
        /\ r.pc = "freeze"
    BY <1>1 DEF ExRecord, PC
  <2> QED
    BY <2>1, <2>2
<1>3. CASE Beyond(e) # {}
  <2> DEFINE m == Min(Beyond(e))
             r == [ex[e] EXCEPT !.pc = "append", !.seen = ex[e].seen \cup {m}]
  <2>1. ex' = [ex EXCEPT ![e] = r]
    BY <1>3 DEF ListObject
  <2>2. Beyond(e) \subseteq Object /\ Beyond(e) \in SUBSET Nat
    BY TypeNow, Constants DEF Beyond, StoresOK
  <2>3. Min(Beyond(e)) \in Object
    BY <1>3, <2>2, MinNat
  <2>4. /\ r \in ExRecord /\ r.id = ex[e].id /\ r.stage = ex[e].stage /\ r.frozen = ex[e].frozen
        /\ r.pc = "append" /\ r.seen # {}
    BY <1>1, <2>3 DEF ExRecord, PC
  <2> QED
    BY <2>1, <2>4
<1> QED
  BY <1>2, <1>3

LEMMA NextChunkOutcome ==
    ASSUME TypeInv, NEW e \in Executor, NextChunk(e)
    PROVE  \E r \in ExRecord :
             /\ ex' = [ex EXCEPT ![e] = r]
             /\ r.id = ex[e].id /\ r.stage = ex[e].stage /\ r.frozen = ex[e].frozen
             /\ \/ r.pc = "mark_removed"
                \/ r.pc = "delete" /\ r.cur \in DOMAIN chunks /\ r.seen = {chunks[r.cur]}
<1> DEFINE pending == DOMAIN chunks \ stamped
<1>1. ex[e] \in ExRecord /\ ChunksOK
  BY TypeNow
<1>2. CASE pending = {}
  <2> DEFINE r == [ex[e] EXCEPT !.pc = "mark_removed"]
  <2>1. ex' = [ex EXCEPT ![e] = r]
    BY <1>2 DEF NextChunk
  <2>2. /\ r \in ExRecord /\ r.id = ex[e].id /\ r.stage = ex[e].stage /\ r.frozen = ex[e].frozen
        /\ r.pc = "mark_removed"
    BY <1>1 DEF ExRecord, PC
  <2> QED
    BY <2>1, <2>2
<1>3. CASE pending # {}
  <2> DEFINE m == Min(pending)
             r == [ex[e] EXCEPT !.pc = "delete", !.cur = m, !.seen = {chunks[m]}]
  <2>1. ex' = [ex EXCEPT ![e] = r]
    BY <1>3 DEF NextChunk
  <2>2. pending \in SUBSET Nat
    <3>1. 1..Cardinality(Object) \subseteq Nat
      BY FS_CardinalityType, DeletionAssumption
    <3> QED
      BY <1>1, <3>1 DEF ChunksOK
  <2>3. m \in pending
    BY <1>3, <2>2, MinNat
  <2>4. m \in Nat /\ m \in DOMAIN chunks /\ chunks[m] \in Object
    BY <1>1, <2>2, <2>3 DEF ChunksOK, Range
  <2> HIDE DEF m
  <2>5. /\ r \in ExRecord /\ r.id = ex[e].id /\ r.stage = ex[e].stage /\ r.frozen = ex[e].frozen
        /\ r.pc = "delete" /\ r.cur = m /\ r.seen = {chunks[m]}
    BY <1>1, <2>4 DEF ExRecord, PC
  <2> QED
    BY <2>1, <2>4, <2>5
<1> QED
  BY <1>2, <1>3

LEMMA TypeBrowse ==
    ASSUME TypeInv, NEW e \in Executor, ListObject(e) \/ NextChunk(e)
    PROVE  TypeInv'
<1>1. UNCHANGED <<req, comm, chunkVars, storeVars, writerVars, faults>> /\ ex[e].pc # "idle"
  BY DEF ListObject, NextChunk
<1>2. PICK r \in ExRecord :
        /\ ex' = [ex EXCEPT ![e] = r] /\ r.id = ex[e].id /\ r.pc # "start"
        /\ r.pc \in {"append", "appending"} => r.seen # {}
  BY ListOutcome, NextChunkOutcome
<1> QED
  BY <1>1, <1>2, ReplacedType, ReqUnchanged, StoresKept, TypeNow DEF ExecutorFits

(* A step of the database or of an operator, none of an executor. *)
LEMMA BystandType ==
    ASSUME TypeInv, ReqMoves, faults' \in 0..MaxFaults,
           UNCHANGED <<comm, chunkVars, ex>>, StoresOK', WritersOK'
    PROVE  TypeInv'
<1>1. TypeOK'
  BY TypeNow, TypeParts DEF ReqMoves, chunkVars, ChunksOK, ExOK
<1> QED
  BY <1>1, FitsFrame DEF TypeInv, ReqMoves

LEMMA TypeFaults ==
    ASSUME TypeInv, NEW e \in Executor,
           ClaimBlocks(e) \/ StageError(e) \/ Crash(e) \/ Shutdown(e)
    PROVE  TypeInv'
<1>1. faults' \in 0..MaxFaults
  <2>1. faults < MaxFaults /\ faults' = faults + 1 /\ faults \in 0..MaxFaults
    BY TypeNow DEF ClaimBlocks, StageError, Crash, Shutdown
  <2> QED
    BY <2>1, Constants
<1>2. CallLandsOrNot(e) => StoresOK'
  BY DestroyType DEF CallLandsOrNot
<1>3. UNCHANGED writerVars => WritersOK'
  BY TypeNow DEF writerVars, WritersOK
<1>4. CASE ClaimBlocks(e)
  BY <1>1, <1>3, <1>4, SteadySteps, BystandType, StoresKept DEF ClaimBlocks, ReqSteady
<1>5. CASE StageError(e)
  <2>1. Moved(e, {"failed"}) /\ ex[e].pc # "idle"
    BY <1>5, FailMoves, TypeNow DEF StageError, ExOK
  <2>2. ReqMoves /\ comm' \in CommRecord /\ ChunksOK'
    BY <1>5, ReqUnchanged, TypeNow DEF StageError, chunkVars, ChunksOK
  <2> QED
    BY <1>1, <1>2, <1>5, <2>1, <2>2, MovedType DEF StageError
<1>6. CASE Crash(e)
  BY <1>1, <1>2, <1>6, TypeReset, ReqUnchanged DEF Crash
<1>7. CASE Shutdown(e)
  BY <1>1, <1>2, <1>7, TypeReset, SteadySteps DEF Shutdown, ReqSteady
<1> QED
  BY <1>4, <1>5, <1>6, <1>7

LEMMA TypeWriter == ASSUME TypeInv, NEW w \in Writer, WriterStep(w) PROVE TypeInv'
<1>1. /\ WritersOK /\ StoresOK /\ comm.gen \in Nat /\ faults \in 0..MaxFaults
      /\ (UNCHANGED storeVars => StoresOK')
  BY TypeNow, StoresKept DEF CommRecord
<1>2. /\ UNCHANGED <<req, comm, chunkVars, ex, faults>> /\ StoresOK' /\ WritersOK'
  <2>1. CASE AcquireServingWriteLease(w)
    BY <1>1, <2>1 DEF AcquireServingWriteLease, WritersOK
  <2>2. CASE \E x \in Object \cup {Cache} : SendWrite(w, x)
    BY <1>1, <2>2 DEF SendWrite, WritersOK
  <2>3. ASSUME Answered(w), UNCHANGED lease PROVE WritersOK'
    BY <1>1, <2>3 DEF Answered, WritersOK
  <2>4. CASE WriteLands(w)
    BY <1>1, <2>3, <2>4 DEF WriteLands, WritersOK, StoresOK
  <2>5. CASE WriteFails(w)
    BY <1>1, <2>3, <2>5 DEF WriteFails
  <2>6. CASE ReleaseServingWriteLease(w)
    BY <1>1, <2>6 DEF ReleaseServingWriteLease, WritersOK
  <2>7. CASE WriterCrashes(w)
    BY <1>1, <2>7 DEF WriterCrashes, WritersOK
  <2>8. CASE ServingLeaseLapses(w)
    BY <1>1, <2>8 DEF ServingLeaseLapses, WritersOK
  <2> QED
    BY <2>1, <2>2, <2>4, <2>5, <2>6, <2>7, <2>8 DEF WriterStep
<1> QED
  BY <1>1, <1>2, BystandType, ReqUnchanged

LEMMA ExecutorCases ==
    ASSUME NEW e \in Executor, ExecutorStep(e)
    PROVE  \/ Claim(e) \/ StartStage(e) \/ FinishStage(e) \/ RecordFailure(e)
           \/ ListObject(e) \/ NextChunk(e) \/ LookStep(e) \/ WorkStep(e)
BY DEF ExecutorStep, RunStep, LookStep, WorkStep

LEMMA TypeStep == TypeInv /\ [Next]_vars => TypeInv'
<1> SUFFICES ASSUME TypeInv, [Next]_vars PROVE TypeInv'
  OBVIOUS
<1>1. CASE OperatorStep
  BY <1>1, TypeOperator
<1>2. ASSUME NEW e \in Executor, ExecutorStep(e) PROVE TypeInv'
  BY <1>2, ExecutorCases, TypeClaim, TypeStartStage, TypeFinishStage, TypeRecordFailure,
     TypeBrowse, TypeLook, WorkOutcome, TypeFail, TypeWork
<1>3. ASSUME NEW e \in Executor, ClaimBlocks(e) \/ StageError(e) \/ Crash(e) \/ Shutdown(e)
      PROVE  TypeInv'
  BY <1>3, TypeFaults
<1>4. CASE LeaseLapses
  <2>1. ReqMoves
    BY <1>4, SteadyIdle DEF ReqSteady
  <2>2. faults' \in 0..MaxFaults /\ StoresOK' /\ WritersOK'
    BY <1>4, TypeNow, StoresKept, Constants DEF LeaseLapses, writerVars, WritersOK
  <2> QED
    BY <1>4, <2>1, <2>2, BystandType DEF LeaseLapses
<1>5. ASSUME NEW w \in Writer, WriterStep(w) PROVE TypeInv'
  BY <1>5, TypeWriter
<1>6. CASE CommitRows
  <2>1. StoresOK' /\ WritersOK' /\ faults' \in 0..MaxFaults
    BY <1>6, TypeNow DEF CommitRows, writerVars, StoresOK, WritersOK
  <2> QED
    BY <1>6, <2>1, BystandType, ReqUnchanged DEF CommitRows
<1>7. CASE UNCHANGED vars
  <2>1. StoresOK' /\ WritersOK' /\ faults' \in 0..MaxFaults
    BY <1>7, TypeNow DEF vars, StoresOK, WritersOK
  <2> QED
    BY <1>7, <2>1, BystandType, ReqUnchanged DEF vars, chunkVars
<1> QED
  BY <1>1, <1>2, <1>3, <1>4, <1>5, <1>6, <1>7 DEF Next

(* The request, the community, the chunk table, the stores and what each   *)
(* executor and writer remembers keep their shapes: chunk numbers stay     *)
(* within the objects there are, a lost or repeated attempt never pushes   *)
(* the retry count past the limit that blocks the request                  *)
(* (record_stage_failure), and no stage is one the engine does not know.   *)
THEOREM DeletionTypeCorrect == Spec => []TypeOK
<1>1. Spec => []TypeInv
  BY TypeInit, TypeStep, PTL DEF Spec
<1>2. TypeInv => TypeOK
  BY DEF TypeInv
<1> QED
  BY <1>1, <1>2, PTL

-----------------------------------------------------------------------------
(* The community follows its request. *)

LEMMA NextStages ==
    /\ NextStage["approved"] = "fenced" /\ NextStage["fenced"] = "drained"
    /\ NextStage["drained"] = "bindings_removed"
    /\ NextStage["bindings_removed"] = "postgres_purged"
    /\ NextStage["postgres_purged"] = "cache_purged"
    /\ NextStage["cache_purged"] = "logically_verified"
    /\ NextStage["logically_verified"] = "retention_pending"
BY DEF NextStage, Runnable

LEMMA CommunityInit == Init => CommunityInv
BY DEF Init, CommunityInv, StageFits, FencedAdmitsNobody, ArchiveSaved,
       AbortRestoresArchive, RowsGone, NoRequest

(* A step that neither moves the stage nor changes the community. *)
LEMMA CommunityFrame ==
    ASSUME CommunityInv, UNCHANGED comm, req'.stage = req.stage,
           req'.quiesced = req.quiesced, req'.preArchived = req.preArchived,
           comm.state \in {"fenced", "tombstone"} /\ ServingWritesDrained
               => ServingWritesDrained',
           comm.state = "tombstone" /\ ~rows => ~rows'
    PROVE  CommunityInv'
BY DEF CommunityInv, StageFits, FencedAdmitsNobody, ArchiveSaved, AbortRestoresArchive,
       RowsGone

LEMMA CommunitySteady ==
    ASSUME CommunityInv, UNCHANGED <<comm, lease, rows>>, ReqSteady
    PROVE  CommunityInv'
BY CommunityFrame DEF ReqSteady, ReqKept, ServingWritesDrained

LEMMA CommunityOperator ==
    ASSUME TypeInv, CommunityInv, OperatorStep
    PROVE  CommunityInv'
<1> USE DEF CommunityInv, StageFits, FencedAdmitsNobody, ArchiveSaved, AbortRestoresArchive,
            RowsGone
<1>1. req \in ReqRecord /\ comm \in CommRecord
  BY TypeNow
<1>2. CASE Submit
  <2>1. req'.stage = "submitted" /\ req'.quiesced = FALSE
    BY <1>2 DEF Submit, NoRequest
  <2> QED
    BY <1>2, <2>1 DEF Submit, storeVars
<1>3. CASE FreezeInventory
  <2>1. /\ req'.stage = "inventoried" /\ req'.quiesced = req.quiesced
        /\ req'.preArchived = req.preArchived
    BY <1>1, <1>3 DEF FreezeInventory, ReqRecord
  <2> QED
    BY <1>3, <2>1 DEF FreezeInventory, storeVars
<1>4. CASE Approve
  <2>1. /\ req'.stage = "approved" /\ req'.quiesced = req.quiesced
        /\ req'.preArchived = req.preArchived
    BY <1>1, <1>4 DEF Approve, ReqRecord
  <2> QED
    BY <1>4, <2>1 DEF Approve, storeVars
<1>5. CASE Abort
  <2>1. /\ req'.stage = "aborted" /\ req'.quiesced = req.quiesced
        /\ req'.preArchived = req.preArchived
    BY <1>1, <1>5 DEF Abort, ReqRecord
  <2>2. comm'.state = "active" /\ comm'.archived = RestoredArchive
    BY <1>1, <1>5 DEF Abort, CommRecord
  <2>3. RestoredArchive = WasArchived
    BY DEF RestoredArchive
  <2> QED
    BY <2>1, <2>2, <2>3
<1>6. CASE Unblock \/ BlockPreclaimSetup
  <2>1. ReqSteady /\ UNCHANGED <<comm, lease, rows>>
    BY <1>6, SteadyIdle DEF Unblock, BlockPreclaimSetup, writerVars, storeVars
  <2> QED
    BY <2>1, CommunitySteady
<1> QED
  BY <1>2, <1>3, <1>4, <1>5, <1>6 DEF OperatorStep

LEMMA CommunityWork ==
    ASSUME TypeInv, CommunityInv, NEW e \in Executor, WorkDone(e)
    PROVE  CommunityInv'
<1>1. lease' = lease /\ (ServingWritesDrained => ServingWritesDrained')
  BY DEF WorkDone, writerVars, ServingWritesDrained
<1>2. CASE QuiesceDone(e)
  BY <1>2, TypeNow
     DEF QuiesceDone, CommunityInv, StageFits, FencedAdmitsNobody, ArchiveSaved,
         AbortRestoresArchive, RowsGone
<1>3. CASE FenceDone(e)
  BY <1>1, <1>3, NextStages
     DEF FenceDone, AdvanceDone, ReqKept, CommunityInv, StageFits, FencedAdmitsNobody,
         ArchiveSaved, AbortRestoresArchive, RowsGone
<1>4. CASE MarkDone(e)
  BY <1>1, <1>4, NextStages
     DEF MarkDone, AdvanceDone, ReqKept, CommunityInv, StageFits, FencedAdmitsNobody,
         ArchiveSaved, AbortRestoresArchive, RowsGone, storeVars
<1>5. CASE PurgeDone(e)
  BY <1>1, <1>5, NextStages
     DEF PurgeDone, AdvanceDone, ReqKept, CommunityInv, StageFits, FencedAdmitsNobody,
         ArchiveSaved, AbortRestoresArchive, RowsGone
<1>6. CASE VerifiedDone(e)
  BY <1>1, <1>6, NextStages
     DEF VerifiedDone, AdvanceDone, ReqKept, CommunityInv, StageFits, FencedAdmitsNobody,
         ArchiveSaved, AbortRestoresArchive, RowsGone, storeVars
<1>7. CASE ClearDone(e) \/ AppendDone(e) \/ FreezeDone(e) \/ EraseDone(e) \/ StampDone(e)
  BY <1>1, <1>7, CommunityFrame
     DEF ClearDone, AppendDone, FreezeDone, EraseDone, StampDone, storeVars, Destroy
<1> QED
  BY <1>2, <1>3, <1>4, <1>5, <1>6, <1>7 DEF WorkDone

(* What the steps of an executor that are not its work leave alone. *)
LEMMA SteadyExecutor ==
    ASSUME TypeInv, NEW e \in Executor,
           \/ Claim(e) \/ StartStage(e) \/ FinishStage(e) \/ RecordFailure(e)
           \/ ListObject(e) \/ NextChunk(e) \/ LookStep(e) \/ FailStep(e)
    PROVE  ReqSteady /\ UNCHANGED <<comm, chunkVars, storeVars, writerVars, faults>>
<1>1. CASE Claim(e) \/ RecordFailure(e)
  BY <1>1, SteadySteps DEF Claim, RecordFailure
<1>2. CASE StartStage(e) \/ FinishStage(e) \/ ListObject(e) \/ NextChunk(e) \/ FailStep(e)
  BY <1>2, SteadySame DEF StartStage, FinishStage, ListObject, NextChunk, FailStep
<1>3. CASE LookStep(e)
  BY <1>3, SteadySame, LookMoves, TypeNow
<1> QED
  BY <1>1, <1>2, <1>3

LEMMA CommunityStep == TypeInv /\ CommunityInv /\ [Next]_vars => CommunityInv'
<1> SUFFICES ASSUME TypeInv, CommunityInv, [Next]_vars PROVE CommunityInv'
  OBVIOUS
<1> USE DEF storeVars, writerVars
<1>1. CASE OperatorStep
  BY <1>1, CommunityOperator
<1>2. ASSUME NEW e \in Executor, ExecutorStep(e) PROVE CommunityInv'
  <2>1. CASE WorkStep(e) /\ WorkDone(e)
    BY <2>1, CommunityWork
  <2>2. CASE ~WorkDone(e)
    <3>1. ReqSteady /\ UNCHANGED <<comm, lease, rows>>
      BY <1>2, <2>2, ExecutorCases, WorkOutcome, SteadyExecutor
    <3> QED
      BY <3>1, CommunitySteady
  <2>3. CASE ~WorkStep(e)
    <3>1. ReqSteady /\ UNCHANGED <<comm, lease, rows>>
      BY <1>2, <2>3, ExecutorCases, SteadyExecutor
    <3> QED
      BY <3>1, CommunitySteady
  <2> QED
    BY <2>1, <2>2, <2>3
<1>3. ASSUME NEW e \in Executor, ClaimBlocks(e) \/ StageError(e) \/ Crash(e) \/ Shutdown(e)
      PROVE  CommunityInv'
  <2>1. ReqSteady
    BY <1>3, SteadySteps, SteadySame DEF StageError, Crash
  <2>2. UNCHANGED <<comm, lease, rows>>
    BY <1>3 DEF ClaimBlocks, StageError, Crash, Shutdown, CallLandsOrNot, Destroy
  <2> QED
    BY <2>1, <2>2, CommunitySteady
<1>4. CASE LeaseLapses
  BY <1>4, SteadyIdle, CommunitySteady DEF LeaseLapses
<1>5. ASSUME NEW w \in Writer, WriterStep(w) PROVE CommunityInv'
  <2>1. UNCHANGED <<req, comm, rows>>
    BY <1>5 DEF WriterStep, AcquireServingWriteLease, SendWrite, WriteLands, WriteFails,
                ReleaseServingWriteLease, WriterCrashes, ServingLeaseLapses
  <2>2. ASSUME comm.state \in {"fenced", "tombstone"}, ServingWritesDrained
        PROVE  ServingWritesDrained'
    <3>1. ~AcquireServingWriteLease(w)
      BY <2>2 DEF AcquireServingWriteLease, AdmissionOpen
    <3>2. lease' = lease \/ lease' = [lease EXCEPT ![w] = NoLease]
      BY <1>5, <3>1 DEF WriterStep, SendWrite, WriteLands, WriteFails,
                        ReleaseServingWriteLease, WriterCrashes, ServingLeaseLapses
    <3>3. lease \in [Writer -> Nat \cup {NoLease}]
      BY TypeNow DEF WritersOK
    <3> QED
      BY <2>2, <3>2, <3>3 DEF ServingWritesDrained
  <2> QED
    BY <2>1, <2>2, CommunityFrame
<1>6. CASE CommitRows
  <2>1. comm.state # "tombstone"
    BY <1>6 DEF CommitRows, AdmissionOpen, ServingLeaseValid
  <2>2. UNCHANGED <<req, comm, lease>>
    BY <1>6 DEF CommitRows
  <2> QED
    BY <2>1, <2>2, CommunityFrame DEF ServingWritesDrained
<1>7. CASE UNCHANGED vars
  BY <1>7, CommunityFrame DEF vars, ServingWritesDrained
<1> QED
  BY <1>1, <1>2, <1>3, <1>4, <1>5, <1>6, <1>7 DEF Next

(* However executors stall, fail and take over from each other, while the  *)
(* community is fenced no serving lease is live: fence waits for the       *)
(* leases that were admitted, and acquire_serving_write_lease admits none  *)
(* once begin_quiescing has committed.                                     *)
THEOREM FencedAdmitsNobodyCorrect == Spec => []FencedAdmitsNobody
<1>1. Spec => [](TypeInv /\ CommunityInv)
  BY TypeInit, TypeStep, CommunityInit, CommunityStep, PTL DEF Spec
<1>2. CommunityInv => FencedAdmitsNobody
  BY DEF CommunityInv
<1> QED
  BY <1>1, <1>2, PTL

(* A serving community is archived exactly when it was before any request: *)
(* only the first begin_quiescing of a request saves the archive mark, and *)
(* abort restores what that one saved, after any number of attempts.       *)
THEOREM AbortRestoresArchiveCorrect == Spec => []AbortRestoresArchive
<1>1. Spec => [](TypeInv /\ CommunityInv)
  BY TypeInit, TypeStep, CommunityInit, CommunityStep, PTL DEF Spec
<1>2. CommunityInv => AbortRestoresArchive
  BY DEF CommunityInv
<1> QED
  BY <1>1, <1>2, PTL

-----------------------------------------------------------------------------
(* What is known of the stores persists, but for strays. *)

(* No step brings back what a store has lost without making it a stray. *)
StoresSafe ==
    /\ \A x \in objects' : (x \in objects => x \in strays) => x \in strays'
    /\ cached' /\ (cached => Cache \in strays) => Cache \in strays'

Persists ==
    /\ req.stage \in PastDrain => req'.stage \in PastDrain
    /\ \/ req'.id = req.id + 1
       \/ req'.id = req.id /\ (req.manifest # NoManifest => req'.manifest # NoManifest)
    /\ req.stage \in PastDrain =>
         /\ \A k \in DOMAIN chunks' : k \in DOMAIN chunks /\ chunks'[k] = chunks[k]
         /\ StoresSafe

LEMMA SafeSame == ASSUME UNCHANGED <<objects, cached, strays>> PROVE StoresSafe
BY DEF StoresSafe

LEMMA SafeDestroy == ASSUME NEW S, Destroy(S) PROVE StoresSafe
BY DEF StoresSafe, Destroy

LEMMA PersistsSteady ==
    ASSUME ReqSteady, UNCHANGED chunks, StoresSafe
    PROVE  Persists
BY DEF ReqSteady, ReqMoves, ReqKept, Persists

LEMMA PersistsWork ==
    ASSUME TypeInv, ErasureInv, NEW e \in Executor, WorkDone(e)
    PROVE  Persists
<1>1. ManifestFits /\ (UNCHANGED <<objects, cached, strays>> => StoresSafe)
  BY SafeSame DEF ErasureInv
<1>2. CASE QuiesceDone(e)
  BY <1>2 DEF QuiesceDone, Persists, ReqMoves, PastDrain
<1>3. CASE FenceDone(e)
  BY <1>3 DEF FenceDone, AdvanceDone, Persists, ReqMoves, ReqKept, PastDrain
<1>4. CASE ClearDone(e)
  <2>1. req.stage \in PastDrain => chunks = <<>> /\ chunks' = <<>>
    BY <1>1, <1>4 DEF ClearDone, RemoveAllowed, ManifestFits
  <2> QED
    BY <1>1, <1>4, <2>1 DEF ClearDone, Persists, storeVars
<1>5. CASE AppendDone(e)
  BY <1>5 DEF AppendDone, InsertAllowed, Persists, PastDrain
<1>6. CASE FreezeDone(e)
  <2>1. req'.manifest # NoManifest
    BY <1>6, Constants, TypeNow DEF FreezeDone, ExRecord
  <2> QED
    BY <1>6, <2>1 DEF FreezeDone, Persists, PastDrain, ReqMoves
<1>7. CASE MarkDone(e)
  <2>1. req.stage \in PastDrain => req'.stage \in PastDrain
    BY <1>7, NextStages DEF MarkDone, AdvanceDone, PastDrain
  <2> QED
    BY <1>1, <1>7, <2>1 DEF MarkDone, AdvanceDone, Persists, ReqMoves, ReqKept, chunkVars,
                            storeVars
<1>8. CASE EraseDone(e)
  BY <1>8, SafeDestroy, PersistsSteady, SteadySame DEF EraseDone, chunkVars
<1>9. CASE StampDone(e)
  BY <1>1, <1>9, PersistsSteady, SteadySame DEF StampDone, storeVars
<1>10. CASE PurgeDone(e)
  BY <1>1, <1>10, NextStages
     DEF PurgeDone, AdvanceDone, Persists, ReqMoves, ReqKept, chunkVars, PastDrain
<1>11. CASE VerifiedDone(e)
  BY <1>1, <1>11, NextStages
     DEF VerifiedDone, AdvanceDone, Persists, ReqMoves, ReqKept, storeVars, PastDrain
<1> QED
  BY <1>2, <1>3, <1>4, <1>5, <1>6, <1>7, <1>8, <1>9, <1>10, <1>11 DEF WorkDone

LEMMA PersistsWriter ==
    ASSUME TypeInv, CommunityInv, NEW w \in Writer, WriterStep(w)
    PROVE  Persists /\ ReqSteady /\ UNCHANGED <<chunkVars, ex>>
<1>1. UNCHANGED <<req, comm, chunkVars, ex>> /\ ReqSteady
  BY SteadySame DEF WriterStep, AcquireServingWriteLease, SendWrite, WriteLands, WriteFails,
                    ReleaseServingWriteLease, WriterCrashes, ServingLeaseLapses
<1>2. CASE ~WriteLands(w)
  <2>1. UNCHANGED storeVars
    BY <1>2 DEF WriterStep, AcquireServingWriteLease, SendWrite, WriteFails,
                ReleaseServingWriteLease, WriterCrashes, ServingLeaseLapses
  <2> QED
    BY <1>1, <2>1, SafeSame, PersistsSteady DEF storeVars, chunkVars
<1>3. CASE WriteLands(w)
  <2>1. ASSUME req.stage \in PastDrain PROVE StoresSafe
    <3>1. lease[w] = NoLease /\ comm.state # "active"
      BY <2>1 DEF CommunityInv, StageFits, FencedAdmitsNobody, ServingWritesDrained, PastDrain
    <3>2. /\ objects' = objects \cup ({call[w]} \ {Cache})
          /\ cached' = (cached \/ call[w] = Cache)
          /\ strays' = strays \cup {call[w]}
      BY <1>3, <3>1 DEF WriteLands
    <3> QED
      BY <3>2 DEF StoresSafe
  <2> QED
    BY <1>1, <2>1 DEF Persists, chunkVars, ReqSteady, ReqMoves, ReqKept
<1> QED
  BY <1>2, <1>3

LEMMA PersistsOperator ==
    ASSUME TypeInv, CommunityInv, OperatorStep
    PROVE  Persists
<1>1. req \in ReqRecord
  BY TypeNow
<1>2. CASE Submit
  <2>1. req'.id = req.id + 1
    BY <1>2 DEF Submit, NoRequest
  <2> QED
    BY <1>2, <2>1 DEF Submit, Persists, PastDrain
<1>3. CASE FreezeInventory \/ Approve \/ Abort
  <2>1. req'.id = req.id /\ req'.manifest = req.manifest
    BY <1>1, <1>3 DEF FreezeInventory, Approve, Abort, ReqRecord
  <2>2. req.stage \notin PastDrain
    BY <1>3 DEF FreezeInventory, Approve, Abort, AbortableStage, PastDrain
  <2> QED
    BY <2>1, <2>2 DEF Persists
<1>4. CASE Unblock \/ BlockPreclaimSetup
  <2>1. UNCHANGED <<chunkVars, storeVars>>
    BY <1>4 DEF Unblock, BlockPreclaimSetup
  <2> QED
    BY <1>4, <2>1, SteadyIdle, SafeSame, PersistsSteady DEF chunkVars, storeVars
<1> QED
  BY <1>2, <1>3, <1>4 DEF OperatorStep

(* An executor that does not move knows what it knew. *)
LEMMA KnowsFrame ==
    ASSUME TypeInv, ErasureInv, Persists, NEW f \in Executor, ex'[f] = ex[f]
    PROVE  ExecutorKnows(f)'
<1>1. ExecutorKnows(f) /\ ex[f].id <= req.id /\ ex[f].id \in Nat /\ req.id \in Nat
  BY TypeNow DEF ErasureInv, ExecutorFits, ExRecord, ReqRecord
<1>2. /\ ex[f].stage \in PastDrain => req'.stage \in PastDrain
      /\ ex[f].pc \in LatePC => ex[f].stage \in PastDrain /\ req.stage \in PastDrain
  BY <1>1 DEF ExecutorKnows, Persists
<1>3. ex[f].pc # "idle" /\ ex[f].id = req'.id /\ (ex[f].frozen \/ ex[f].pc = "mark_drained")
         => req'.manifest # NoManifest
  BY <1>1 DEF ExecutorKnows, Persists
<1>4. ex[f].pc \in {"delete", "deleting", "stamp", "stamping"} /\ ex[f].cur \in DOMAIN chunks'
         => chunks'[ex[f].cur] \in ex[f].seen
  BY <1>1, <1>2 DEF ExecutorKnows, Persists, LatePC
<1>5. /\ ex[f].pc \in {"stamp", "stamping"} => ex[f].seen \cap objects' \subseteq strays'
      /\ ex[f].pc \in {"verify_cache", "mark_verified"} => objects' \subseteq strays'
      /\ ex[f].pc = "mark_verified" /\ cached' => Cache \in strays'
  BY <1>1, <1>2 DEF ExecutorKnows, Persists, LatePC, StoresSafe
<1> QED
  BY <1>2, <1>3, <1>4, <1>5 DEF ExecutorKnows

LEMMA KnowsMoved ==
    ASSUME TypeInv, ErasureInv, Persists, NEW e \in Executor, NEW P, Moved(e, P),
           ex[e].pc # "idle",
           ex'[e].pc \in LatePC => ex[e].stage \in PastDrain,
           ex'[e].pc = "mark_drained" /\ ex[e].id = req'.id => req'.manifest # NoManifest,
           ex'[e].pc \in {"delete", "deleting", "stamp", "stamping"}
              => ex[e].pc \in {"delete", "deleting", "stamp", "stamping"},
           ex'[e].pc \in {"stamp", "stamping"}
              => ex[e].pc \in {"stamp", "stamping"} \/ ex[e].seen \cap objects' \subseteq strays',
           ex'[e].pc \in {"verify_cache", "mark_verified"}
              => ex[e].pc \in {"verify_cache", "mark_verified"} \/ objects' \subseteq strays',
           ex'[e].pc = "mark_verified" => ~cached'
    PROVE  \A f \in Executor : ExecutorKnows(f)'
<1>1. \A f \in Executor : f # e => ex'[f] = ex[f]
  BY DEF Moved
<1>2. /\ ex'[e].id = ex[e].id /\ ex'[e].stage = ex[e].stage /\ ex'[e].frozen = ex[e].frozen
      /\ ex'[e].pc # "failed" => ex'[e].seen = ex[e].seen /\ ex'[e].cur = ex[e].cur
  BY DEF Moved
<1>3. ExecutorKnows(e) /\ ex[e].id <= req.id /\ ex[e].id \in Nat /\ req.id \in Nat
  BY TypeNow DEF ErasureInv, ExecutorFits, ExRecord, ReqRecord
<1>4. /\ ex'[e].stage \in PastDrain => req'.stage \in PastDrain
      /\ ex'[e].pc \in LatePC => ex'[e].stage \in PastDrain /\ req.stage \in PastDrain
  BY <1>2, <1>3 DEF ExecutorKnows, Persists
<1>5. ex'[e].id = req'.id /\ (ex'[e].frozen \/ ex'[e].pc = "mark_drained")
         => req'.manifest # NoManifest
  <2>1. ex[e].id = req'.id => req'.id = req.id
    BY <1>3 DEF Persists
  <2> QED
    BY <1>2, <1>3, <2>1 DEF ExecutorKnows, Persists
<1>6. ex'[e].pc \in {"delete", "deleting", "stamp", "stamping"} /\ ex'[e].cur \in DOMAIN chunks'
         => chunks'[ex'[e].cur] \in ex'[e].seen
  BY <1>2, <1>3, <1>4 DEF ExecutorKnows, Persists, LatePC
<1>7. ex'[e].pc \in {"stamp", "stamping"} => ex'[e].seen \cap objects' \subseteq strays'
  BY <1>2, <1>3, <1>4 DEF ExecutorKnows, Persists, LatePC, StoresSafe
<1>8. ex'[e].pc \in {"verify_cache", "mark_verified"} => objects' \subseteq strays'
  BY <1>2, <1>3, <1>4 DEF ExecutorKnows, Persists, LatePC, StoresSafe
<1>9. ExecutorKnows(e)'
  BY <1>4, <1>5, <1>6, <1>7, <1>8 DEF ExecutorKnows
<1> QED
  BY <1>1, <1>9, KnowsFrame

LEMMA KnowsReplaced ==
    ASSUME TypeInv, ErasureInv, Persists, NEW e \in Executor, NEW r,
           ex' = [ex EXCEPT ![e] = r],
           r.stage \in PastDrain => req'.stage \in PastDrain,
           r.pc \in LatePC => r.stage \in PastDrain,
           r.pc # "idle" /\ r.id = req'.id /\ (r.frozen \/ r.pc = "mark_drained")
              => req'.manifest # NoManifest,
           r.pc \in {"delete", "deleting", "stamp", "stamping"} /\ r.cur \in DOMAIN chunks'
              => chunks'[r.cur] \in r.seen,
           r.pc \notin {"stamp", "stamping", "verify_cache", "mark_verified"}
    PROVE  \A f \in Executor : ExecutorKnows(f)'
<1>1. ex'[e] = r /\ \A f \in Executor : f # e => ex'[f] = ex[f]
  BY TypeNow DEF ExOK
<1>2. ExecutorKnows(e)'
  BY <1>1 DEF ExecutorKnows
<1> QED
  BY <1>1, <1>2, KnowsFrame

LEMMA KnowsReset ==
    ASSUME TypeInv, ErasureInv, Persists, NEW e \in Executor, ex' = [ex EXCEPT ![e] = Idle]
    PROVE  \A f \in Executor : ExecutorKnows(f)'
<1>1. Idle.pc = "idle" /\ Idle.stage = "none"
  BY DEF Idle
<1> QED
  BY <1>1, KnowsReplaced DEF PastDrain, LatePC

(* What the tables hold, when the step leaves them alone. *)
TablesInv == ManifestFits /\ ManifestIntact /\ StampedMeansDeleted

LEMMA TablesSteady ==
    ASSUME TypeInv, ErasureInv, Persists, ReqSteady, UNCHANGED chunkVars
    PROVE  TablesInv'
<1>1. ManifestFits' /\ ManifestIntact'
  BY DEF ErasureInv, ReqSteady, ReqKept, ManifestFits, ManifestIntact, chunkVars
<1>2. StampedMeansDeleted'
  <2> SUFFICES ASSUME NEW n \in stamped, chunks[n] \in objects' PROVE chunks[n] \in strays'
    BY DEF StampedMeansDeleted, chunkVars
  <2>1. StoresSafe
    BY DEF ErasureInv, ManifestFits, Persists
  <2> QED
    BY <2>1 DEF ErasureInv, StampedMeansDeleted, StoresSafe
<1> QED
  BY <1>1, <1>2 DEF TablesInv

LEMMA ErasureCombine ==
    ASSUME TablesInv', \A f \in Executor : ExecutorKnows(f)'
    PROVE  ErasureInv'
BY DEF TablesInv, ErasureInv

(* The executor's steps that change neither the request's stage nor a table. *)
LEMMA KnowsBrowse ==
    ASSUME TypeInv, ErasureInv, Persists, NEW e \in Executor, ReqSteady, UNCHANGED chunkVars,
           \/ Claim(e) \/ StartStage(e) \/ FinishStage(e) \/ RecordFailure(e)
           \/ ListObject(e) \/ NextChunk(e)
    PROVE  \A f \in Executor : ExecutorKnows(f)'
<1>k. ExecutorKnows(e) /\ ex[e] \in ExRecord
  BY TypeNow DEF ErasureInv
<1>s. req'.stage = req.stage /\ req'.id = req.id /\ req'.manifest = req.manifest /\ chunks' = chunks
  BY DEF ReqSteady, ReqMoves, ReqKept, chunkVars
<1>1. CASE Claim(e)
  <2> DEFINE r == [Idle EXCEPT !.pc = "start", !.id = req.id,
                   !.gen = req.gen + 1, !.fgen = req.fgen, !.stage = req.stage,
                   !.frozen = req.manifest # NoManifest]
  <2>1. r.pc = "start" /\ r.stage = req.stage /\ r.frozen = (req.manifest # NoManifest)
    BY DEF Idle
  <2>2. ex' = [ex EXCEPT ![e] = r]
    BY <1>1 DEF Claim
  <2> HIDE DEF r
  <2> QED
    BY <1>s, <2>1, <2>2, KnowsReplaced DEF LatePC
<1>2. CASE StartStage(e)
  <2>1. CASE HeartbeatOK(e)
    <3>1. ex[e].stage \in Runnable /\ ex[e].pc = "start"
      BY <1>2, TypeNow DEF StartStage, ExecutorFits
    <3> DEFINE q == FirstStep[ex[e].stage]
    <3>2. /\ q \in PC /\ (q \in LatePC => ex[e].stage \in PastDrain)
          /\ q \in {"quiesce", "drain_check", "next", "purge", "flush", "verify_rows",
                    "mark_retention"}
      BY <3>1 DEF FirstStep, Runnable, PC, LatePC, PastDrain
    <3> HIDE DEF q
    <3>3. Moved(e, {q})
      BY <1>2, <2>1, <3>2, GotoMoves, TypeNow DEF StartStage, ExOK, q
    <3>4. ex'[e].pc = q
      BY <3>3 DEF Moved
    <3> QED
      BY <3>1, <3>2, <3>3, <3>4, KnowsMoved
  <2>2. CASE ~HeartbeatOK(e)
    BY <1>2, <2>2, KnowsReset DEF StartStage
  <2> QED
    BY <2>1, <2>2
<1>3. CASE FinishStage(e)
  <2>1. CASE req.id # ex[e].id \/ req.blocked \/ req.stage \in Terminal
    BY <1>3, <2>1, KnowsReset DEF FinishStage
  <2>2. CASE ~(req.id # ex[e].id \/ req.blocked \/ req.stage \in Terminal)
    <3> DEFINE r == [ex[e] EXCEPT !.pc = "start", !.stage = req.stage, !.fgen = req.fgen,
                          !.frozen = req.manifest # NoManifest, !.seen = {}, !.cur = 0]
    <3>1. ex' = [ex EXCEPT ![e] = r]
      BY <1>3, <2>2 DEF FinishStage
    <3>2. r.pc = "start" /\ r.stage = req.stage /\ r.frozen = (req.manifest # NoManifest)
      BY <1>k DEF ExRecord
    <3> HIDE DEF r
    <3> QED
      BY <1>s, <3>1, <3>2, KnowsReplaced DEF LatePC
  <2> QED
    BY <2>1, <2>2
<1>4. CASE RecordFailure(e)
  BY <1>4, KnowsReset DEF RecordFailure
<1>5. CASE ListObject(e)
  <2>1. PICK r \in ExRecord :
             /\ ex' = [ex EXCEPT ![e] = r]
             /\ r.id = ex[e].id /\ r.stage = ex[e].stage /\ r.frozen = ex[e].frozen
             /\ r.pc \in {"freeze", "append"}
    BY <1>5, ListOutcome
  <2>2. ex[e].pc # "idle"
    BY <1>5 DEF ListObject
  <2> QED
    BY <1>k, <1>s, <2>1, <2>2, KnowsReplaced DEF LatePC, ExecutorKnows
<1>6. CASE NextChunk(e)
  <2>1. PICK r \in ExRecord :
             /\ ex' = [ex EXCEPT ![e] = r]
             /\ r.id = ex[e].id /\ r.stage = ex[e].stage /\ r.frozen = ex[e].frozen
             /\ \/ r.pc = "mark_removed"
                \/ r.pc = "delete" /\ r.cur \in DOMAIN chunks /\ r.seen = {chunks[r.cur]}
    BY <1>6, NextChunkOutcome
  <2>2. ex[e].pc = "next"
    BY <1>6 DEF NextChunk
  <2> QED
    BY <1>k, <1>s, <2>1, <2>2, KnowsReplaced DEF LatePC, ExecutorKnows
<1> QED
  BY <1>1, <1>2, <1>3, <1>4, <1>5, <1>6

LEMMA KnowsLook ==
    ASSUME TypeInv, ErasureInv, Persists, NEW e \in Executor, LookStep(e)
    PROVE  \A f \in Executor : ExecutorKnows(f)'
<1>1. PICK q \in {"mark_drained", "clear", "clearing", "appending", "deleting",
                  "stamping", "flushing", "verify_storage", "verify_cache",
                  "mark_verified"} :
        /\ Moved(e, {q, "failed"})
        /\ q = "deleting" => ex[e].pc = "delete"
        /\ q = "stamping" => ex[e].pc = "stamp"
        /\ q = "flushing" => ex[e].pc = "flush"
        /\ q = "verify_storage" => ex[e].pc = "verify_rows"
        /\ q = "verify_cache" => ex[e].pc = "verify_storage"
        /\ q = "mark_verified" => ex[e].pc = "verify_cache"
        /\ ex'[e].pc = q /\ q = "mark_drained" => ex[e].frozen
        /\ ex'[e].pc = q /\ q = "verify_cache" => objects = {}
        /\ ex'[e].pc = q /\ q = "mark_verified" => ~cached
  BY LookMoves, TypeNow
<1>2. UNCHANGED <<req, objects, cached, strays>>
  BY LookMoves, TypeNow DEF storeVars
<1>3. ex[e].pc # "idle"
  BY DEF LookStep, DrainCheck, ClearCheck, AppendCheck, DeleteCheck, StampCheck, FlushCheck,
         VerifyRows, VerifyStorageAbsence, VerifyRedisAbsence, Verify
<1>4. ExecutorKnows(e)
  BY DEF ErasureInv
<1>5. ex'[e].pc \in {q, "failed"}
  BY <1>1 DEF Moved
<1>6. ex'[e].pc \in LatePC => ex[e].stage \in PastDrain
  BY <1>1, <1>4, <1>5 DEF LatePC, ExecutorKnows
<1>7. ex'[e].pc = "mark_drained" /\ ex[e].id = req'.id => req'.manifest # NoManifest
  BY <1>1, <1>2, <1>3, <1>4, <1>5 DEF ExecutorKnows
<1>8. /\ ex'[e].pc \in {"delete", "deleting", "stamp", "stamping"}
           => ex[e].pc \in {"delete", "deleting", "stamp", "stamping"}
      /\ ex'[e].pc \in {"stamp", "stamping"} => ex[e].pc \in {"stamp", "stamping"}
      /\ ex'[e].pc \in {"verify_cache", "mark_verified"}
           => ex[e].pc \in {"verify_cache", "mark_verified"} \/ objects' \subseteq strays'
      /\ ex'[e].pc = "mark_verified" => ~cached'
  BY <1>1, <1>2, <1>5
<1> QED
  BY <1>1, <1>3, <1>6, <1>7, <1>8, KnowsMoved

(* The steps after which an executor has left what it knew behind. *)
LEMMA KnowsLeaves ==
    ASSUME TypeInv, ErasureInv, Persists, NEW e \in Executor, NEW P, Moved(e, P),
           ex[e].pc # "idle", P \subseteq {"done", "failed", "fence", "list"}
    PROVE  \A f \in Executor : ExecutorKnows(f)'
<1>1. ex'[e].pc \in {"done", "failed", "fence", "list"}
  BY DEF Moved
<1> QED
  BY <1>1, KnowsMoved DEF LatePC

LEMMA KnowsWork ==
    ASSUME TypeInv, ErasureInv, Persists, NEW e \in Executor, WorkDone(e)
    PROVE  \A f \in Executor : ExecutorKnows(f)'
<1>k. ExecutorKnows(e)
  BY DEF ErasureInv
<1>1. CASE QuiesceDone(e) \/ FenceDone(e) \/ ClearDone(e) \/ AppendDone(e) \/ MarkDone(e)
           \/ PurgeDone(e) \/ VerifiedDone(e)
  <2>1. ex[e].pc # "idle"
    BY <1>1 DEF QuiesceDone, FenceDone, ClearDone, AppendDone, MarkDone, PurgeDone,
                VerifiedDone, AdvanceDone
  <2>2. \/ Moved(e, {"fence", "failed"}) \/ Moved(e, {"done", "failed"})
        \/ Moved(e, {"list", "failed"})
    BY <1>1 DEF QuiesceDone, FenceDone, ClearDone, AppendDone, MarkDone, PurgeDone,
                VerifiedDone, AdvanceDone
  <2> QED
    BY <2>1, <2>2, KnowsLeaves
<1>2. CASE FreezeDone(e)
  <2>1. req'.manifest # NoManifest
    BY <1>2, Constants, TypeNow DEF FreezeDone, ExRecord
  <2>2. Moved(e, {"mark_drained", "failed"}) /\ ex[e].pc # "idle"
    BY <1>2 DEF FreezeDone
  <2>3. ex'[e].pc \in {"mark_drained", "failed"}
    BY <2>2 DEF Moved
  <2> QED
    BY <2>1, <2>2, <2>3, KnowsMoved DEF LatePC
<1>3. CASE EraseDone(e) /\ ex[e].pc = "deleting"
  <2>1. Moved(e, {"stamp"}) /\ objects' = objects \ ex[e].seen
    BY <1>3 DEF EraseDone, Destroy, Target
  <2>2. ex'[e].pc = "stamp" /\ ex[e].stage \in PastDrain
    BY <1>k, <1>3, <2>1 DEF Moved, ExecutorKnows, LatePC
  <2> QED
    BY <1>3, <2>1, <2>2, KnowsMoved
<1>4. CASE EraseDone(e) /\ ex[e].pc = "flushing"
  <2>1. Moved(e, {"mark_flushed"})
    BY <1>4 DEF EraseDone
  <2>2. ex'[e].pc = "mark_flushed" /\ ex[e].stage \in PastDrain
    BY <1>k, <1>4, <2>1 DEF Moved, ExecutorKnows, LatePC
  <2> QED
    BY <1>4, <2>1, <2>2, KnowsMoved
<1>5. CASE StampDone(e)
  <2>1. Moved(e, {"next", "failed"}) /\ ex[e].pc = "stamping"
    BY <1>5 DEF StampDone
  <2>2. ex'[e].pc \in {"next", "failed"} /\ ex[e].stage \in PastDrain
    BY <1>k, <2>1 DEF Moved, ExecutorKnows, LatePC
  <2> QED
    BY <2>1, <2>2, KnowsMoved
<1> QED
  BY <1>1, <1>2, <1>3, <1>4, <1>5 DEF WorkDone, EraseDone

LEMMA TablesWork ==
    ASSUME TypeInv, ErasureInv, Persists, NEW e \in Executor, WorkDone(e)
    PROVE  TablesInv'
<1>k. ExecutorKnows(e) /\ TablesInv
  BY DEF ErasureInv, TablesInv
<1> USE DEF TablesInv, ManifestFits, ManifestIntact
(* The stamps, where the chunk table and the objects stay. *)
<1>s. ASSUME UNCHANGED <<chunkVars, objects, strays>> PROVE StampedMeansDeleted'
  BY <1>k, <1>s DEF StampedMeansDeleted, chunkVars
<1>1. CASE QuiesceDone(e)
  BY <1>k, <1>s, <1>1 DEF QuiesceDone, chunkVars, storeVars
<1>2. CASE FenceDone(e)
  BY <1>k, <1>s, <1>2, NextStages
     DEF FenceDone, AdvanceDone, ReqKept, chunkVars, storeVars, PastDrain, Runnable
<1>3. CASE ClearDone(e)
  <2>1. req.manifest # NoManifest => Range(chunks') = Range(chunks)
    BY <1>3 DEF ClearDone, RemoveAllowed
  <2>2. stamped' \subseteq stamped /\ \A n \in stamped' : chunks'[n] = chunks[n]
    BY <1>3 DEF ClearDone
  <2>3. UNCHANGED <<req, objects, strays>>
    BY <1>3 DEF ClearDone, storeVars
  <2> QED
    BY <1>k, <2>1, <2>2, <2>3 DEF StampedMeansDeleted
<1>4. CASE AppendDone(e)
  <2>1. stamped = {} /\ req.manifest = NoManifest
    BY <1>k, <1>4 DEF AppendDone, InsertAllowed, PastDrain
  <2> QED
    BY <1>k, <1>4, <2>1 DEF AppendDone, StampedMeansDeleted
<1>5. CASE FreezeDone(e)
  <2>1. req'.manifest # NoManifest
    BY <1>5, Constants, TypeNow DEF FreezeDone, ExRecord
  <2> QED
    BY <1>k, <1>s, <1>5, <2>1 DEF FreezeDone, chunkVars, storeVars
<1>6. CASE MarkDone(e)
  <2>1. UNCHANGED <<chunkVars, objects, strays>>
    BY <1>6 DEF MarkDone, storeVars
  <2>2. req'.stage \in PastDrain /\ req'.manifest = req.manifest /\ req.stage \in Runnable
    BY <1>6, NextStages DEF MarkDone, AdvanceDone, ReqKept, PastDrain, Runnable
  <2>3. req.manifest # NoManifest
    BY <1>k, <1>6 DEF MarkDone, AdvanceDone, ExecutorKnows, Owns, PastDrain
  <2>4. req'.stage \in Runnable \ {"logically_verified"}
          => req.stage \in Runnable \ {"logically_verified"}
    BY <1>6, NextStages DEF MarkDone, AdvanceDone, Runnable
  <2>5. ManifestFits' /\ ManifestIntact'
    BY <1>k, <2>1, <2>2, <2>3, <2>4 DEF chunkVars, PastDrain
  <2> QED
    BY <1>s, <2>1, <2>5
<1>7. CASE EraseDone(e)
  BY <1>7, SteadySame, TablesSteady DEF EraseDone
<1>8. CASE StampDone(e)
  <2>1. req.stage \in PastDrain
    BY <1>k, <1>8 DEF StampDone, ExecutorKnows, LatePC
  <2>2. chunks[ex[e].cur] \in objects => chunks[ex[e].cur] \in strays
    BY <1>k, <1>8 DEF StampDone, ExecutorKnows
  <2>3. UNCHANGED <<req, chunks, objects, strays>>
    BY <1>8 DEF StampDone, storeVars
  <2>4. StampedMeansDeleted'
    BY <1>k, <1>8, <2>2, <2>3 DEF StampDone, StampedMeansDeleted
  <2> QED
    BY <1>k, <2>1, <2>3, <2>4
<1>9. CASE PurgeDone(e)
  BY <1>k, <1>s, <1>9, NextStages
     DEF PurgeDone, AdvanceDone, ReqKept, chunkVars, PastDrain, Runnable
<1>10. CASE VerifiedDone(e)
  BY <1>k, <1>10, NextStages
     DEF VerifiedDone, AdvanceDone, ReqKept, PastDrain, StampedMeansDeleted
<1> QED
  BY <1>1, <1>2, <1>3, <1>4, <1>5, <1>6, <1>7, <1>8, <1>9, <1>10 DEF WorkDone

LEMMA TablesOperator ==
    ASSUME TypeInv, CommunityInv, ErasureInv, Persists, OperatorStep
    PROVE  TablesInv'
<1>k. TablesInv /\ req \in ReqRecord
  BY TypeNow DEF ErasureInv, TablesInv
<1> USE DEF TablesInv, ManifestFits, ManifestIntact
<1>1. CASE Submit
  <2>1. req'.stage = "submitted" /\ req'.manifest = NoManifest
    BY <1>1 DEF Submit, NoRequest
  <2> QED
    BY <1>1, <2>1 DEF Submit, StampedMeansDeleted, PastDrain
<1>2. CASE FreezeInventory \/ Approve \/ Abort
  <2>1. /\ req'.manifest = req.manifest /\ req'.stage \in {"inventoried", "approved", "aborted"}
        /\ req.stage \notin PastDrain
        /\ req'.stage \in {"inventoried", "approved"} => req.manifest = NoManifest
    BY <1>k, <1>2 DEF FreezeInventory, Approve, Abort, AbortableStage, ReqRecord, PastDrain
  <2>2. UNCHANGED <<chunks, stamped>>
    BY <1>2 DEF FreezeInventory, Approve, Abort, chunkVars
  <2> QED
    BY <1>k, <2>1, <2>2 DEF StampedMeansDeleted, PastDrain, Runnable
<1>3. CASE Unblock \/ BlockPreclaimSetup
  BY <1>3, SteadyIdle, TablesSteady DEF Unblock, BlockPreclaimSetup
<1> QED
  BY <1>1, <1>2, <1>3 DEF OperatorStep

LEMMA ErasureInit == Init => ErasureInv
BY DEF Init, ErasureInv, ManifestFits, ManifestIntact, StampedMeansDeleted, ExecutorKnows,
       NoRequest, Idle, PastDrain, LatePC

LEMMA ErasureStep == TypeInv /\ CommunityInv /\ ErasureInv /\ [Next]_vars => ErasureInv'
<1> SUFFICES ASSUME TypeInv, CommunityInv, ErasureInv, [Next]_vars PROVE ErasureInv'
  OBVIOUS
(* The steps that move no executor and no stage. *)
<1>a. ASSUME ReqSteady, UNCHANGED <<chunkVars, ex>>, StoresSafe PROVE ErasureInv'
  <2>1. Persists
    BY <1>a, PersistsSteady DEF chunkVars
  <2> QED
    BY <1>a, <2>1, TablesSteady, KnowsFrame, ErasureCombine
<1>1. CASE OperatorStep
  <2>1. UNCHANGED ex
    BY <1>1 DEF OperatorStep, Submit, FreezeInventory, Approve, Abort, Unblock,
                BlockPreclaimSetup
  <2> QED
    BY <1>1, <2>1, PersistsOperator, TablesOperator, KnowsFrame, ErasureCombine
<1>2. ASSUME NEW e \in Executor, ExecutorStep(e) PROVE ErasureInv'
  <2>1. CASE WorkDone(e)
    BY <2>1, PersistsWork, KnowsWork, TablesWork, ErasureCombine
  <2>2. CASE \/ Claim(e) \/ StartStage(e) \/ FinishStage(e) \/ RecordFailure(e)
             \/ ListObject(e) \/ NextChunk(e) \/ LookStep(e) \/ FailStep(e)
    <3>1. ReqSteady /\ UNCHANGED <<chunkVars, storeVars>>
      BY <2>2, SteadyExecutor
    <3>2. Persists
      BY <3>1, PersistsSteady, SafeSame DEF chunkVars, storeVars
    <3>3. FailStep(e) => \A f \in Executor : ExecutorKnows(f)'
      BY <3>2, KnowsLeaves DEF FailStep
    <3> QED
      BY <2>2, <3>1, <3>2, <3>3, KnowsBrowse, KnowsLook, TablesSteady, ErasureCombine
  <2> QED
    BY <1>2, <2>1, <2>2, ExecutorCases, WorkOutcome
<1>3. ASSUME NEW e \in Executor, ClaimBlocks(e) PROVE ErasureInv'
  <2>1. ReqSteady /\ UNCHANGED <<chunkVars, ex, storeVars>>
    BY <1>3, SteadySteps DEF ClaimBlocks
  <2> QED
    BY <1>a, <2>1, SafeSame DEF storeVars
<1>4. ASSUME NEW e \in Executor, StageError(e) \/ Crash(e) \/ Shutdown(e) PROVE ErasureInv'
  <2>1. ReqSteady /\ UNCHANGED chunkVars
    BY <1>4, SteadySteps, SteadySame DEF StageError, Crash, Shutdown
  <2>2. StoresSafe
    BY <1>4, SafeDestroy DEF StageError, Crash, Shutdown, CallLandsOrNot
  <2>3. Persists
    BY <2>1, <2>2, PersistsSteady DEF chunkVars
  <2>4. CASE StageError(e)
    <3>1. Moved(e, {"failed"}) /\ ex[e].pc # "idle"
      BY <2>4, FailMoves, TypeNow DEF StageError, ExOK
    <3> QED
      BY <2>1, <2>3, <3>1, KnowsLeaves, TablesSteady, ErasureCombine
  <2>5. CASE Crash(e) \/ Shutdown(e)
    <3>1. ex' = [ex EXCEPT ![e] = Idle]
      BY <2>5 DEF Crash, Shutdown
    <3> QED
      BY <2>1, <2>3, <3>1, KnowsReset, TablesSteady, ErasureCombine
  <2> QED
    BY <1>4, <2>4, <2>5
<1>5. CASE LeaseLapses
  <2>1. ReqSteady /\ UNCHANGED <<chunkVars, ex, storeVars>>
    BY <1>5, SteadyIdle DEF LeaseLapses
  <2> QED
    BY <1>a, <2>1, SafeSame DEF storeVars
<1>6. ASSUME NEW w \in Writer, WriterStep(w) PROVE ErasureInv'
  <2>1. Persists /\ ReqSteady /\ UNCHANGED <<chunkVars, ex>>
    BY <1>6, PersistsWriter
  <2> QED
    BY <2>1, TablesSteady, KnowsFrame, ErasureCombine
<1>7. CASE CommitRows \/ UNCHANGED vars
  <2>1. UNCHANGED <<req, chunkVars, ex, objects, cached, strays>>
    BY <1>7 DEF CommitRows, vars, chunkVars
  <2> QED
    BY <1>a, <2>1, SafeSame, SteadySame
<1> QED
  BY <1>1, <1>2, <1>3, <1>4, <1>5, <1>6, <1>7 DEF Next

DeletionInv == TypeInv /\ CommunityInv /\ ErasureInv

LEMMA DeletionInvariant == Spec => []DeletionInv
<1>1. Init => DeletionInv
  BY TypeInit, CommunityInit, ErasureInit DEF DeletionInv
<1>2. DeletionInv /\ [Next]_vars => DeletionInv'
  BY TypeStep, CommunityStep, ErasureStep DEF DeletionInv
<1> QED
  BY <1>1, <1>2, PTL DEF Spec

(* From the freeze to the verification the chunk table holds exactly the   *)
(* frozen manifest: no executor that stalled between its lease check and   *)
(* its write adds to the list or clears it under its successor             *)
(* (freeze_destructive_storage_manifest and the table's trigger).          *)
THEOREM ManifestIntactCorrect == Spec => []ManifestIntact
<1>1. DeletionInv => ManifestIntact
  BY DEF DeletionInv, ErasureInv
<1> QED
  BY <1>1, DeletionInvariant, PTL

(* No stamp outlives its object but for strays: a crash between the        *)
(* deletion and the stamp, a takeover, or two executors on one chunk never *)
(* stamp what nobody deleted (mark_manifest_chunk_deleted).                *)
THEOREM StampedMeansDeletedCorrect == Spec => []StampedMeansDeleted
<1>1. DeletionInv => StampedMeansDeleted
  BY DEF DeletionInv, ErasureInv
<1> QED
  BY <1>1, DeletionInvariant, PTL

-----------------------------------------------------------------------------
(* The engine implements DeletionContract. *)

Data == objects \cup (IF cached THEN {Cache} ELSE {}) \cup (IF rows THEN {RowData} ELSE {})
Item == Object \cup {Cache, RowData}

LEMMA PhaseNow ==
    ASSUME CommunityInv
    PROVE  /\ req.stage \in {"none", "submitted", "inventoried", "aborted"} => Phase = "serving"
           /\ req.stage = "approved" /\ comm.state = "active" => Phase = "serving"
           /\ req.stage = "approved" /\ comm.state = "quiescing" => Phase = "closing"
           /\ req.stage = "fenced" => Phase = "closed"
           /\ req.stage \in {"drained", "bindings_removed", "postgres_purged", "cache_purged"}
                => Phase = "erasing"
           /\ req.stage \in {"logically_verified", "retention_pending"} => Phase = "gone"
BY DEF Phase, CommunityInv, StageFits, Runnable

LEMMA PhaseThen ==
    ASSUME CommunityInv'
    PROVE  /\ req'.stage \in {"none", "submitted", "inventoried", "aborted"}
                => Phase' = "serving"
           /\ req'.stage = "approved" /\ comm'.state = "active" => Phase' = "serving"
           /\ req'.stage = "approved" /\ comm'.state = "quiescing" => Phase' = "closing"
           /\ req'.stage = "fenced" => Phase' = "closed"
           /\ req'.stage \in {"drained", "bindings_removed", "postgres_purged", "cache_purged"}
                => Phase' = "erasing"
           /\ req'.stage \in {"logically_verified", "retention_pending"} => Phase' = "gone"
BY DEF Phase, CommunityInv, StageFits, Runnable

LEMMA PhaseStays ==
    ASSUME req'.stage = req.stage, UNCHANGED comm
    PROVE  Phase' = Phase
BY DEF Phase

LEMMA ContractStutters ==
    ASSUME UNCHANGED storeVars, Phase' = Phase
    PROVE  [Contract!Next]_(Contract!vars)
BY DEF storeVars, Contract!vars

LEMMA ContractWrites ==
    ASSUME NEW x \in Item, Phase \in {"serving", "closing"}, Data' = Data \cup {x},
           Phase' = Phase, strays' = strays
    PROVE  [Contract!Next]_(Contract!vars)
<1>1. Contract!Write(x)
  BY DEF Contract!Write, Data
<1> QED
  BY <1>1 DEF Contract!Next, Item

LEMMA ContractErases ==
    ASSUME TypeInv, Phase \in {"erasing", "gone"}, Phase' = Phase, NEW S \in SUBSET Item,
           Data' = Data \ S, strays' = strays \ S
    PROVE  [Contract!Next]_(Contract!vars)
<1>1. Contract!Erase(S)
  BY DEF Contract!Erase, Data
<1> QED
  BY <1>1 DEF Contract!Next, Item

LEMMA ItemsApart == Cache \notin Object /\ RowData \notin Object /\ RowData # Cache
BY Constants DEF Cache, RowData

LEMMA DestroysData ==
    ASSUME TypeInv, NEW S \in SUBSET (Object \cup {Cache}), Destroy(S)
    PROVE  Data' = Data \ S /\ strays' = strays \ S
BY ItemsApart, TypeNow DEF Data, Destroy, StoresOK

(* What an executor's outstanding call takes away is within the contract. *)
LEMMA ContractTarget ==
    ASSUME DeletionInv, NEW e \in Executor, NEW S \in {{}, Target(e)}, Destroy(S),
           Phase' = Phase
    PROVE  [Contract!Next]_(Contract!vars)
<1>1. ex[e].seen \in SUBSET Object
  BY TypeNow DEF DeletionInv, ExRecord
<1>2. CASE Target(e) = {}
  BY <1>2, TypeNow, ContractStutters DEF Destroy, storeVars, DeletionInv, StoresOK
<1>3. CASE Target(e) # {}
  <2>1. ex[e].pc \in {"deleting", "flushing"}
    BY <1>3 DEF Target
  <2>2. req.stage \in PastDrain
    BY <2>1 DEF DeletionInv, ErasureInv, ExecutorKnows, LatePC
  <2>3. Phase \in {"erasing", "gone"}
    BY <2>2, PhaseNow DEF DeletionInv, PastDrain
  <2>4. S \in SUBSET (Object \cup {Cache})
    BY <1>1 DEF Target
  <2>5. Data' = Data \ S /\ strays' = strays \ S /\ S \in SUBSET Item
    BY <2>4, DestroysData DEF DeletionInv, Item
  <2> QED
    BY <2>3, <2>5, ContractErases DEF DeletionInv
<1> QED
  BY <1>2, <1>3

LEMMA ContractOperator ==
    ASSUME DeletionInv, DeletionInv', OperatorStep
    PROVE  [Contract!Next]_(Contract!vars)
<1>1. CommunityInv /\ CommunityInv' /\ TypeInv /\ req \in ReqRecord /\ comm \in CommRecord
  BY TypeNow DEF DeletionInv
<1>2. CASE Submit \/ FreezeInventory \/ Approve
  <2>1. /\ req.stage \in {"none", "aborted", "submitted", "inventoried"}
        /\ req'.stage \in {"submitted", "inventoried", "approved"}
        /\ UNCHANGED <<comm, storeVars>>
    BY <1>1, <1>2 DEF Submit, FreezeInventory, Approve, ReqRecord, NoRequest
  <2>2. comm.state = "active"
    BY <1>1, <2>1 DEF CommunityInv, StageFits
  <2>3. Phase = "serving" /\ Phase' = "serving"
    BY <1>1, <2>1, <2>2, PhaseNow, PhaseThen
  <2> QED
    BY <2>1, <2>3, ContractStutters
<1>3. CASE Abort
  <2>1. req'.stage = "aborted" /\ UNCHANGED storeVars /\ req.stage \in {"approved", "fenced"}
    BY <1>1, <1>3 DEF Abort, AbortableStage, ReqRecord
  <2>2. Phase' = "serving" /\ Phase \in {"serving", "closing", "closed"}
    BY <1>1, <2>1, PhaseNow, PhaseThen DEF CommunityInv, StageFits
  <2>3. CASE Phase = "serving"
    BY <2>1, <2>2, <2>3, ContractStutters
  <2>4. CASE Phase # "serving"
    <3>1. Contract!Reopen
      BY <2>1, <2>2, <2>4 DEF Contract!Reopen, storeVars
    <3> QED
      BY <3>1 DEF Contract!Next
  <2> QED
    BY <2>3, <2>4
<1>4. CASE Unblock \/ BlockPreclaimSetup
  <2>1. ReqSteady /\ UNCHANGED <<comm, storeVars>>
    BY <1>1, <1>4, SteadyIdle DEF Unblock, BlockPreclaimSetup
  <2> QED
    BY <2>1, PhaseStays, ContractStutters DEF ReqSteady
<1> QED
  BY <1>2, <1>3, <1>4 DEF OperatorStep

LEMMA ContractWork ==
    ASSUME DeletionInv, DeletionInv', NEW e \in Executor, WorkDone(e)
    PROVE  [Contract!Next]_(Contract!vars)
<1>1. /\ CommunityInv /\ CommunityInv' /\ TypeInv /\ StoresOK
      /\ ErasureInv /\ ExecutorKnows(e)
  BY TypeNow DEF DeletionInv, ErasureInv
<1>2. CASE QuiesceDone(e)
  <2>1. /\ req.stage = "approved" /\ req'.stage = "approved" /\ comm'.state = "quiescing"
        /\ comm.state \in {"active", "quiescing"} /\ UNCHANGED storeVars
    BY <1>2 DEF QuiesceDone
  <2>2. Phase \in {"serving", "closing"} /\ Phase' = "closing"
    BY <1>1, <2>1, PhaseNow, PhaseThen
  <2>3. Phase = "serving" => Contract!Close
    BY <2>1, <2>2 DEF Contract!Close, storeVars
  <2> QED
    BY <2>1, <2>2, <2>3, ContractStutters DEF Contract!Next
<1>3. CASE FenceDone(e)
  <2>1. /\ req.stage = "approved" /\ req'.stage = "fenced"
        /\ comm.state = "quiescing" /\ UNCHANGED storeVars
    BY <1>3, NextStages DEF FenceDone, AdvanceDone
  <2>2. Phase = "closing" /\ Phase' = "closed"
    BY <1>1, <2>1, PhaseNow, PhaseThen
  <2>3. Contract!Shut
    BY <2>1, <2>2 DEF Contract!Shut, storeVars
  <2> QED
    BY <2>3 DEF Contract!Next
<1>4. CASE ClearDone(e) \/ AppendDone(e) \/ FreezeDone(e) \/ StampDone(e)
  <2>1. req'.stage = req.stage /\ UNCHANGED <<comm, storeVars>>
    BY <1>4 DEF ClearDone, AppendDone, FreezeDone, StampDone
  <2> QED
    BY <2>1, PhaseStays, ContractStutters
<1>5. CASE MarkDone(e)
  <2>1. UNCHANGED storeVars
    BY <1>5 DEF MarkDone
  <2>2. CASE req.stage = "fenced"
    <3>1. req'.stage = "drained"
      BY <1>5, <2>2, NextStages DEF MarkDone, AdvanceDone
    <3>2. Phase = "closed" /\ Phase' = "erasing"
      BY <1>1, <2>2, <3>1, PhaseNow, PhaseThen
    <3>3. Contract!PassNoReturn
      BY <2>1, <3>2 DEF Contract!PassNoReturn, storeVars
    <3> QED
      BY <3>3 DEF Contract!Next
  <2>3. CASE req.stage # "fenced"
    <3>1. \/ req.stage = "drained" /\ req'.stage = "bindings_removed"
          \/ req.stage = "postgres_purged" /\ req'.stage = "cache_purged"
          \/ req.stage = "logically_verified" /\ req'.stage = "retention_pending"
      BY <1>5, <2>3, NextStages DEF MarkDone, AdvanceDone
    <3>2. Phase' = Phase
      BY <1>1, <3>1, PhaseNow, PhaseThen
    <3> QED
      BY <2>1, <3>2, ContractStutters
  <2> QED
    BY <2>2, <2>3
<1>6. CASE EraseDone(e)
  <2>1. Phase' = Phase /\ Destroy(Target(e))
    BY <1>6, PhaseStays DEF EraseDone
  <2> QED
    BY <2>1, ContractTarget
<1>7. CASE PurgeDone(e)
  <2>1. /\ req.stage = "bindings_removed" /\ req'.stage = "postgres_purged"
        /\ rows' = FALSE /\ UNCHANGED <<objects, cached, strays>>
    BY <1>7, NextStages DEF PurgeDone, AdvanceDone
  <2>2. Phase = "erasing" /\ Phase' = "erasing"
    BY <1>1, <2>1, PhaseNow, PhaseThen
  <2>3. Data' = Data \ {RowData} /\ strays' = strays \ {RowData} /\ {RowData} \in SUBSET Item
    BY <1>1, <2>1, ItemsApart DEF Data, StoresOK, Item
  <2> QED
    BY <1>1, <2>2, <2>3, ContractErases
<1>8. CASE VerifiedDone(e)
  <2>1. /\ req.stage = "cache_purged" /\ req'.stage = "logically_verified"
        /\ ex[e].pc = "mark_verified" /\ UNCHANGED storeVars
    BY <1>8, NextStages DEF VerifiedDone, AdvanceDone
  <2>2. Phase = "erasing" /\ Phase' = "gone"
    BY <1>1, <2>1, PhaseNow, PhaseThen
  <2>3. ~rows
    BY <1>1, <2>1 DEF CommunityInv, StageFits, RowsGone
  <2>4. objects \subseteq strays /\ (cached => Cache \in strays)
    BY <1>1, <2>1 DEF ExecutorKnows
  <2>5. Contract!ReportGone
    BY <2>1, <2>2, <2>3, <2>4 DEF Contract!ReportGone, storeVars
  <2> QED
    BY <2>5 DEF Contract!Next
<1> QED
  BY <1>2, <1>3, <1>4, <1>5, <1>6, <1>7, <1>8 DEF WorkDone

LEMMA ContractWriter ==
    ASSUME DeletionInv, NEW w \in Writer, WriterStep(w)
    PROVE  [Contract!Next]_(Contract!vars)
<1>1. /\ CommunityInv /\ TypeInv /\ StoresOK /\ WritersOK /\ comm \in CommRecord
      /\ req.stage \in Stage
  BY TypeNow DEF DeletionInv, ReqRecord
<1>2. Phase' = Phase
  <2>1. UNCHANGED <<req, comm>>
    BY DEF WriterStep, AcquireServingWriteLease, SendWrite, WriteLands, WriteFails,
           ReleaseServingWriteLease, WriterCrashes, ServingLeaseLapses
  <2> QED
    BY <2>1, PhaseStays
<1>3. CASE ~WriteLands(w)
  <2>1. UNCHANGED storeVars
    BY <1>3 DEF WriterStep, AcquireServingWriteLease, SendWrite, WriteFails,
                ReleaseServingWriteLease, WriterCrashes, ServingLeaseLapses
  <2> QED
    BY <1>2, <2>1, ContractStutters
<1>4. CASE WriteLands(w)
  <2>1. call[w] \in Object \cup {Cache} /\ call[w] \in Item /\ call[w] # RowData
    BY <1>1, <1>4, ItemsApart DEF WriteLands, WritersOK, Item
  <2>2. Data' = Data \cup {call[w]}
    BY <1>4, <2>1, ItemsApart DEF WriteLands, Data
  <2>3. CASE lease[w] = NoLease /\ comm.state # "active"
    <3>1. Phase # "serving"
      BY <1>1, <2>3, PhaseNow
         DEF CommunityInv, StageFits, Stage, Runnable, Terminal
    <3>2. Contract!Stray(call[w])
      BY <1>2, <1>4, <2>1, <2>2, <2>3, <3>1 DEF Contract!Stray, WriteLands, Data
    <3> QED
      BY <2>1, <3>2 DEF Contract!Next, Item
  <2>4. CASE ~(lease[w] = NoLease /\ comm.state # "active")
    <3>1. comm.state \in {"active", "quiescing"}
      BY <1>1, <2>4 DEF CommunityInv, FencedAdmitsNobody, ServingWritesDrained, CommRecord
    <3>2. Phase \in {"serving", "closing"}
      BY <1>1, <3>1, PhaseNow DEF CommunityInv, StageFits, Stage, Runnable, Terminal
    <3> QED
      BY <1>2, <1>4, <2>1, <2>2, <2>4, <3>2, ContractWrites DEF WriteLands
  <2> QED
    BY <2>3, <2>4
<1> QED
  BY <1>3, <1>4

LEMMA ContractStep ==
    DeletionInv /\ DeletionInv' /\ [Next]_vars => [Contract!Next]_(Contract!vars)
<1> SUFFICES ASSUME DeletionInv, DeletionInv', [Next]_vars
             PROVE  [Contract!Next]_(Contract!vars)
  OBVIOUS
<1>i. TypeInv /\ CommunityInv /\ req.stage \in Stage
  BY TypeNow DEF DeletionInv, ReqRecord
<1>1. CASE OperatorStep
  BY <1>1, ContractOperator
<1>2. ASSUME NEW e \in Executor, ExecutorStep(e) PROVE [Contract!Next]_(Contract!vars)
  <2>1. CASE WorkDone(e)
    BY <2>1, ContractWork
  <2>2. CASE \/ Claim(e) \/ StartStage(e) \/ FinishStage(e) \/ RecordFailure(e)
             \/ ListObject(e) \/ NextChunk(e) \/ LookStep(e) \/ FailStep(e)
    BY <1>i, <2>2, SteadyExecutor, PhaseStays, ContractStutters DEF ReqSteady
  <2> QED
    BY <1>i, <1>2, <2>1, <2>2, ExecutorCases, WorkOutcome
<1>3. ASSUME NEW e \in Executor, ClaimBlocks(e) PROVE [Contract!Next]_(Contract!vars)
  BY <1>i, <1>3, SteadySteps, PhaseStays, ContractStutters DEF ClaimBlocks, ReqSteady
<1>4. ASSUME NEW e \in Executor, StageError(e) \/ Crash(e) \/ Shutdown(e)
      PROVE  [Contract!Next]_(Contract!vars)
  <2>1. ReqSteady /\ UNCHANGED comm /\ CallLandsOrNot(e)
    BY <1>i, <1>4, SteadySteps, SteadySame DEF StageError, Crash, Shutdown
  <2>2. Phase' = Phase
    BY <2>1, PhaseStays DEF ReqSteady
  <2> QED
    BY <2>1, <2>2, ContractTarget DEF CallLandsOrNot
<1>5. CASE LeaseLapses
  BY <1>i, <1>5, SteadyIdle, PhaseStays, ContractStutters DEF LeaseLapses, ReqSteady
<1>6. ASSUME NEW w \in Writer, WriterStep(w) PROVE [Contract!Next]_(Contract!vars)
  BY <1>6, ContractWriter
<1>7. CASE CommitRows
  <2>1. comm.state \in {"active", "quiescing"}
    BY <1>7 DEF CommitRows, AdmissionOpen, ServingLeaseValid
  <2>2. Phase \in {"serving", "closing"}
    BY <1>i, <2>1, PhaseNow DEF CommunityInv, StageFits, Stage, Runnable, Terminal
  <2>3. Phase' = Phase /\ strays' = strays
    BY <1>7, PhaseStays DEF CommitRows
  <2>4. Data' = Data \cup {RowData} /\ RowData \in Item
    BY <1>7 DEF CommitRows, Data, Item
  <2> QED
    BY <2>2, <2>3, <2>4, ContractWrites
<1>8. CASE UNCHANGED vars
  BY <1>8, PhaseStays, ContractStutters DEF vars, storeVars
<1> QED
  BY <1>1, <1>2, <1>3, <1>4, <1>5, <1>6, <1>7, <1>8 DEF Next

LEMMA ContractInit == Init => Contract!Init
<1> SUFFICES ASSUME Init PROVE Contract!Init
  OBVIOUS
<1>1. Min(Object) \in Object
  BY MinNat, Constants
<1>2. Phase = "serving"
  BY PhaseNow, CommunityInit DEF Init, NoRequest
<1> QED
  BY <1>1, <1>2 DEF Init, Contract!Init

(* The engine implements DeletionContract, for any number of executors,    *)
(* writers, objects, requests and faults: nothing is destroyed before the  *)
(* drain is durable, an aborted request loses nothing, no row is written   *)
(* once the fence is up, and logical verification is recorded only when    *)
(* the three stores hold nothing but strays (execute_stage, abort and the  *)
(* guards of the serving writers).                                         *)
THEOREM DeletionKeepsContract == Spec => KeepsContract
<1>1. Init => Contract!Init
  BY ContractInit
<1>2. DeletionInv /\ DeletionInv' /\ [Next]_vars => [Contract!Next]_(Contract!vars)
  BY ContractStep
<1> QED
  BY <1>1, <1>2, DeletionInvariant, PTL DEF Spec, KeepsContract, Contract!Spec
=============================================================================
