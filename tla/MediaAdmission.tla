--------------------------- MODULE MediaAdmission ---------------------------
(***************************************************************************)
(* The transactions of media-repository.ts statement by statement, under   *)
(* READ COMMITTED, with the row locks they take: prepareAssetUpload counts *)
(* images and reservations in two statements under FOR UPDATE on the       *)
(* collection, commitAssetUpload locks the journal row first and the       *)
(* collection (by the foreign key) second, and erasure the other way       *)
(* round.  PostgreSQL ends the deadlock by aborting one of the two.        *)
(*                                                                         *)
(* Committed rows are variables; what a transaction has written and not    *)
(* committed follows from where it stands.                                 *)
(***************************************************************************)
EXTENDS Naturals, FiniteSets

CONSTANTS
  Uploads,   \* uploads to one collection
  RoleOf,    \* RoleOf[u]: the role of the image, unique among active ones
  Capacity   \* images per collection, 5 in the code

ASSUME CapacityAssumption == Capacity \in Nat

VARIABLES
  collection,  \* the collection row, committed
  asset,       \* asset[u]: the asset row, committed
  job,         \* job[u]: status of the ABANDONED_UPLOAD row, committed
  at,          \* at[u]: the statement the request of u is about to execute
  counted,     \* counted[u]: asset_count read by prepareAssetUpload
  erase,       \* the statement erasure is about to execute
  collLocks,   \* <<holder, mode>> pairs on the collection row
  jobLock      \* jobLock[u]: who holds the row lock on the job of u

admissionVars == <<collection, asset, job, at, counted, erase, collLocks, jobLock>>

Statements ==
  {"PREPARE", "COUNT_ASSETS", "COUNT_JOBS", "INSERT_JOB",
   "PREPARED", "COMMIT", "INSERT_ASSET", "CLOSE_JOB",
   "RELEASE", "ENDED"}

\* Statements executed inside a transaction that has taken a lock: of
\* prepareAssetUpload on the collection, of commitAssetUpload on its job.
Preparing == {"COUNT_ASSETS", "COUNT_JOBS", "INSERT_JOB"}

Committing == {"INSERT_ASSET", "CLOSE_JOB"}

EraseStatements == {"IDLE", "DELETE", "UNLINK", "DONE"}

Eraser == "ERASER"
Nobody == "NOBODY"

\* The requests are told from erasure.
ASSUME HoldersAssumption == Eraser \notin Uploads /\ Nobody \notin Uploads

Active == {u \in Uploads : asset[u] = "ACTIVE"}

Reserved ==
  {u \in Uploads : job[u] \in {"PENDING", "PROCESSING"} /\ collection = "LIVE"}

AdmissionInit ==
  /\ collection = "LIVE"
  /\ asset = [u \in Uploads |-> "NONE"]
  /\ job = [u \in Uploads |-> "NONE"]
  /\ at = [u \in Uploads |-> "PREPARE"]
  /\ counted = [u \in Uploads |-> 0]
  /\ erase = "IDLE"
  /\ collLocks = {}
  /\ jobLock = [u \in Uploads |-> Nobody]

\* Mutant: FOR NO KEY UPDATE, which lets foreign keys through.
PrepareMode_NoKeyUpdate == "NO_KEY_UPDATE"

\* FOR UPDATE OF collection
PrepareMode == "UPDATE"

\* PostgreSQL's conflicts between the row lock modes that occur here.
Conflict(m, n) ==
  \/ "UPDATE" \in {m, n}
  \/ m = "NO_KEY_UPDATE" /\ n = "NO_KEY_UPDATE"

CanLock(holder, mode) ==
  \A l \in collLocks : l[1] # holder => ~Conflict(l[2], mode)

Without(holder) == {l \in collLocks : l[1] # holder}

GoTo(u, s) == at' = [at EXCEPT ![u] = s]

\* Mutant: an early return that leaves the journal row locked.
EndRequest_Open(u, s) ==
  /\ GoTo(u, s)
  /\ collLocks' = Without(u)
  /\ UNCHANGED jobLock

\* COMMIT or ROLLBACK of the transaction of a request.
EndRequest(u, s) ==
  /\ GoTo(u, s)
  /\ collLocks' = Without(u)
  /\ jobLock' = [jobLock EXCEPT ![u] = IF @ = u THEN Nobody ELSE @]

-----------------------------------------------------------------------------
(* prepareAssetUpload *)

LockCollection(u) ==
  /\ at[u] = "PREPARE"
  /\ CanLock(u, PrepareMode)
  /\ IF collection = "LIVE"
     THEN /\ GoTo(u, "COUNT_ASSETS")
          /\ collLocks' = collLocks \cup {<<u, PrepareMode>>}
          /\ UNCHANGED jobLock
     ELSE EndRequest(u, "ENDED")
  /\ UNCHANGED <<collection, asset, job, counted, erase>>

CountAssets(u) ==
  /\ at[u] = "COUNT_ASSETS"
  /\ IF Cardinality(Active) >= Capacity
     THEN EndRequest(u, "ENDED") /\ UNCHANGED counted
     ELSE /\ GoTo(u, "COUNT_JOBS")
          /\ counted' = [counted EXCEPT ![u] = Cardinality(Active)]
          /\ UNCHANGED <<collLocks, jobLock>>
  /\ UNCHANGED <<collection, asset, job, erase>>

Fits(assets, reservations) == assets + reservations < Capacity

CountJobs(u) ==
  /\ at[u] = "COUNT_JOBS"
  /\ IF Fits(counted[u], Cardinality(Reserved))
     THEN GoTo(u, "INSERT_JOB") /\ UNCHANGED <<collLocks, jobLock>>
     ELSE EndRequest(u, "ENDED")
  /\ counted' = [counted EXCEPT ![u] = 0]
  /\ UNCHANGED <<collection, asset, job, erase>>

\* The insert and the COMMIT that makes it visible.
InsertJob(u) ==
  /\ at[u] = "INSERT_JOB"
  /\ job' = [job EXCEPT ![u] = "PENDING"]
  /\ EndRequest(u, "PREPARED")
  /\ UNCHANGED <<collection, asset, counted, erase>>

\* The put succeeds, finds no space, or the request dies.
Put(u) ==
  /\ at[u] = "PREPARED"
  /\ at' \in {[at EXCEPT ![u] = s] : s \in {"COMMIT", "RELEASE", "ENDED"}}
  /\ UNCHANGED <<collection, asset, job, counted, erase, collLocks, jobLock>>

-----------------------------------------------------------------------------
(* commitAssetUpload *)

\* SELECT ... FOR UPDATE on the journal row, which must be PENDING and still
\* belong to the collection.
SelectJob(u) ==
  /\ at[u] = "COMMIT"
  /\ jobLock[u] = Nobody
  /\ IF job[u] = "PENDING" /\ collection = "LIVE"
     THEN /\ GoTo(u, "INSERT_ASSET")
          /\ jobLock' = [jobLock EXCEPT ![u] = u]
          /\ UNCHANGED collLocks
     ELSE EndRequest(u, "ENDED")
  /\ UNCHANGED <<collection, asset, job, counted, erase>>

Inserted == {u \in Uploads : at[u] = "CLOSE_JOB"}

\* The lock the foreign key of the inserted row takes.
KeyShare(u) == {<<u, "KEY_SHARE">>}

\* An insert of the same role that is not committed is waited for; one that
\* is committed fails the transaction (ROLE_OCCUPIED).  The collection is
\* still there: erasure cannot commit before it has the journal row.
InsertAsset(u) ==
  /\ at[u] = "INSERT_ASSET"
  /\ \A v \in Inserted : RoleOf[v] # RoleOf[u]
  /\ \/ /\ \E v \in Active : RoleOf[v] = RoleOf[u]
        /\ EndRequest(u, "RELEASE")
     \/ /\ \A v \in Active : RoleOf[v] # RoleOf[u]
        /\ \A l \in KeyShare(u) : CanLock(u, l[2])
        /\ GoTo(u, "CLOSE_JOB")
        /\ collLocks' = collLocks \cup KeyShare(u)
        /\ UNCHANGED jobLock
  /\ UNCHANGED <<collection, asset, job, counted, erase>>

\* The journal row is completed and the transaction commits.
CloseJob(u) ==
  /\ at[u] = "CLOSE_JOB"
  /\ asset' = [asset EXCEPT ![u] = "ACTIVE"]
  /\ job' = [job EXCEPT ![u] = "COMPLETED"]
  /\ EndRequest(u, "ENDED")
  /\ UNCHANGED <<collection, counted, erase>>

\* The connection or the process is lost: the transaction rolls back.
RollBack(u) ==
  /\ at[u] \in Preparing \cup Committing \cup {"RELEASE"}
  /\ EndRequest(u, "ENDED")
  /\ counted' = [counted EXCEPT ![u] = 0]
  /\ UNCHANGED <<collection, asset, job, erase>>

\* completePreparedAssetUpload, one statement that waits for the row.
Release(u) ==
  /\ at[u] = "RELEASE"
  /\ jobLock[u] = Nobody
  /\ job' = [job EXCEPT ![u] = IF @ = "PENDING" THEN "COMPLETED" ELSE @]
  /\ GoTo(u, "ENDED")
  /\ UNCHANGED <<collection, asset, counted, erase, collLocks, jobLock>>

-----------------------------------------------------------------------------
(* The recovery worker, and deletion by the owner: single transactions *)

\* claimRecoveryJob skips a locked row; the others wait for it.
WorkerUpdates(u, from, to) ==
  /\ job[u] = from
  /\ jobLock[u] = Nobody
  /\ job' = [job EXCEPT ![u] = to]
  /\ UNCHANGED <<collection, asset, at, counted, erase, collLocks, jobLock>>

\* scheduleOwnedAssetDeletion; an asset that erasure has already deleted is
\* waited for.
DeleteAsset(u) ==
  /\ collection = "LIVE"
  /\ erase # "UNLINK"
  /\ asset[u] = "ACTIVE"
  /\ asset' = [asset EXCEPT ![u] = "DELETED"]
  /\ UNCHANGED <<collection, job, at, counted, erase, collLocks, jobLock>>

-----------------------------------------------------------------------------
(* Erasure: DELETE FROM wtm_media_collections and what its keys cascade to *)

EraseBegins ==
  /\ erase = "IDLE"
  /\ collection = "LIVE"
  /\ erase' = "DELETE"
  /\ UNCHANGED <<collection, asset, job, at, counted, collLocks, jobLock>>

EraseCollection ==
  /\ erase = "DELETE"
  /\ CanLock(Eraser, "UPDATE")
  /\ collLocks' = collLocks \cup {<<Eraser, "UPDATE">>}
  /\ erase' = "UNLINK"
  /\ UNCHANGED <<collection, asset, job, at, counted, jobLock>>

\* ON DELETE SET NULL updates each journal row of the collection.
EraseUnlinks(u) ==
  /\ erase = "UNLINK"
  /\ job[u] # "NONE"
  /\ jobLock[u] = Nobody
  /\ jobLock' = [jobLock EXCEPT ![u] = Eraser]
  /\ UNCHANGED <<collection, asset, job, at, counted, erase, collLocks>>

EndErase(s) ==
  /\ erase' = s
  /\ collLocks' = Without(Eraser)
  /\ jobLock' = [u \in Uploads |->
                   IF jobLock[u] = Eraser THEN Nobody ELSE jobLock[u]]

EraseCommits ==
  /\ erase = "UNLINK"
  /\ \A u \in Uploads : job[u] # "NONE" => jobLock[u] = Eraser
  /\ collection' = "ERASED"
  /\ asset' = [u \in Uploads |-> "NONE"]
  /\ EndErase("DONE")
  /\ UNCHANGED <<job, at, counted>>

EraseRollsBack ==
  /\ erase \in {"DELETE", "UNLINK"}
  /\ EndErase("IDLE")
  /\ UNCHANGED <<collection, asset, job, at, counted>>

\* The commit of u holds the journal row and waits for the collection;
\* erasure holds the collection and waits for the journal row.
Deadlocked(u) ==
  /\ at[u] = "INSERT_ASSET" /\ jobLock[u] = u
  /\ erase = "UNLINK"
  /\ \A v \in Active \cup Inserted : RoleOf[v] # RoleOf[u]

AbortCommit(u) ==
  /\ Deadlocked(u)
  /\ EndRequest(u, "ENDED")
  /\ UNCHANGED <<collection, asset, job, counted, erase>>

AbortErase(u) == Deadlocked(u) /\ EraseRollsBack

Advance(u) ==
  \/ LockCollection(u)
  \/ CountAssets(u)
  \/ CountJobs(u)
  \/ InsertJob(u)
  \/ Put(u)
  \/ SelectJob(u)
  \/ InsertAsset(u)
  \/ CloseJob(u)
  \/ Release(u)

ErasureAdvances ==
  \/ EraseCollection
  \/ \E u \in Uploads : EraseUnlinks(u)
  \/ EraseCommits

BreakDeadlock(u) == AbortCommit(u) \/ AbortErase(u)

AdmissionNext ==
  \/ \E u \in Uploads :
       \/ Advance(u)
       \/ RollBack(u)
       \/ WorkerUpdates(u, "PENDING", "PROCESSING")
       \/ WorkerUpdates(u, "PROCESSING", "COMPLETED")
       \/ WorkerUpdates(u, "PROCESSING", "PENDING")
       \/ DeleteAsset(u)
       \/ BreakDeadlock(u)
  \/ EraseBegins
  \/ ErasureAdvances
  \/ EraseRollsBack

AdmissionSpec == AdmissionInit /\ [][AdmissionNext]_admissionVars

-----------------------------------------------------------------------------
AdmissionTypeOK ==
  /\ collection \in {"LIVE", "ERASED"}
  /\ asset \in [Uploads -> {"NONE", "ACTIVE", "DELETED"}]
  /\ job \in [Uploads -> {"NONE", "PENDING", "PROCESSING", "COMPLETED"}]
  /\ at \in [Uploads -> Statements]
  /\ counted \in [Uploads -> 0..Capacity]
  /\ erase \in EraseStatements
  /\ collLocks \subseteq
       (Uploads \cup {Eraser}) \X {"UPDATE", "NO_KEY_UPDATE", "KEY_SHARE"}
  /\ jobLock \in [Uploads -> Uploads \cup {Eraser, Nobody}]
  /\ \A u \in Uploads : u \in {l[1] : l \in collLocks} =>
                          at[u] \in Preparing \cup {"CLOSE_JOB"}

\* However the two counts of prepareAssetUpload fall among other requests'
\* statements, images and reservations together never exceed the capacity.
CapacityRespected == Cardinality(Active) + Cardinality(Reserved) <= Capacity

Rows == INSTANCE MediaRows WITH reservation <- job

\* Under their locks the transactions behave as single steps: nobody is
\* admitted past the capacity, a role has one image, and nothing is committed
\* into an erased collection.
ImplementsMediaRows == Rows!Spec /\ [](AdmissionTypeOK /\ CapacityRespected)

\* Although commit and erasure take their locks in opposite orders, no
\* transaction hangs for ever.
TransactionsEnd ==
  /\ \A u \in Uploads : at[u] = "INSERT_ASSET" ~> at[u] # "INSERT_ASSET"
  /\ erase = "UNLINK" ~> erase # "UNLINK"
=============================================================================
