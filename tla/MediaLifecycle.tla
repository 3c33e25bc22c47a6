--------------------------- MODULE MediaLifecycle ---------------------------
(***************************************************************************)
(* The life of a private image: the upload request of media/service.ts,    *)
(* the rows of media-repository.ts, the file of local-media-storage.ts and *)
(* the recovery worker that removes what requests leave behind.  There is  *)
(* no transaction over the database and the disk: a job in the recovery    *)
(* journal is written before the file, and a crash of the process may fall *)
(* between any two steps.                                                  *)
(*                                                                         *)
(* One collection is modelled.  A database transaction is one action: the  *)
(* row locks that make it so are the subject of MediaAdmission.  Time is   *)
(* abstracted: a job becomes due and a lease runs out at any moment.       *)
(***************************************************************************)
EXTENDS Naturals, FiniteSets

CONSTANTS
  Uploads,         \* upload requests, each with the asset ID it draws
  Processes,       \* server processes, each with its own recovery worker
  Host,            \* Host[u]: the process that serves the upload
  RoleOf,          \* RoleOf[u]: the role of the image, one active per role
  Capacity,        \* images per collection, 5 in the code
  PutWithinDelay,  \* TRUE: every put ends before recoveryDelayMs has passed
  MaxAttempts,     \* bound: claims of one job
  MaxFaults        \* bound: crashes, failed unlinks and failed journal writes

ASSUME HostAssumption == Host \in [Uploads -> Processes]
ASSUME CapacityAssumption == Capacity \in Nat
ASSUME DelayAssumption == PutWithinDelay \in BOOLEAN
ASSUME BoundsAssumption == MaxAttempts \in Nat /\ MaxFaults \in Nat

VARIABLES
  collection,  \* the row of wtm_media_collections
  asset,       \* asset[u]: the row of wtm_media_assets
  job,         \* job[k][u]: the row of wtm_media_recovery_jobs
  file,        \* file[u]: what is on the disk under the asset ID
  stage,       \* stage[u]: where the request of upload u stands
  worker,      \* worker[p]: what the recovery worker of p is doing
  faults       \* faults so far

vars == <<collection, asset, job, file, stage, worker, faults>>

Kinds == {"ABANDONED_UPLOAD", "DELETE_ASSET"}

Statuses == {"NONE", "PENDING", "PROCESSING", "COMPLETED"}

\* "due" is available_at <= now(), "stale" is a locked_at older than leaseMs,
\* "linked" is a collection_id that is not NULL.
JobRows == [status : Statuses, attempts : 0..MaxAttempts, due : BOOLEAN,
            stale : BOOLEAN, linked : BOOLEAN]

NoRow == [status |-> "NONE", attempts |-> 0, due |-> FALSE, stale |-> FALSE,
          linked |-> FALSE]

Idle == [step |-> "IDLE"]

Stages ==
  {"IDLE", "PREPARED", "WRITING", "WRITTEN", "NO_SPACE", "OCCUPIED",
   "RELEASED", "REJECTED", "CREATED", "FAILED"}

\* Stages of a request whose put has not ended.
Putting == {"PREPARED", "WRITING"}

Running == Stages \ {"IDLE", "CREATED", "FAILED"}

Open(j) == j.status \in {"PENDING", "PROCESSING"}

Active == {u \in Uploads : asset[u] = "ACTIVE"}

\* The reservations counted by prepareAssetUpload.
Reserved ==
  {u \in Uploads : Open(job["ABANDONED_UPLOAD"][u])
                   /\ job["ABANDONED_UPLOAD"][u].linked}

\* Mutant: the row is available to the worker at once.
UploadJob_Immediate == [NoRow EXCEPT !.status = "PENDING", !.linked = TRUE,
                                     !.due = TRUE]

UploadJob == [NoRow EXCEPT !.status = "PENDING", !.linked = TRUE]

DeleteJob == [NoRow EXCEPT !.status = "PENDING", !.due = TRUE]

Completed(j) == [j EXCEPT !.status = "COMPLETED", !.stale = FALSE]

Init ==
  /\ collection = "LIVE"
  /\ asset = [u \in Uploads |-> "NONE"]
  /\ job = [k \in Kinds |-> [u \in Uploads |-> NoRow]]
  /\ file = [u \in Uploads |-> "ABSENT"]
  /\ stage = [u \in Uploads |-> "IDLE"]
  /\ worker = [p \in Processes |-> Idle]
  /\ faults = 0

Fault == faults < MaxFaults /\ faults' = faults + 1

GoTo(u, s) == stage' = [stage EXCEPT ![u] = s]

SetJob(k, u, row) == job' = [job EXCEPT ![k][u] = row]

\* unlink, and ENOENT is no error; or it fails and changes nothing.
Unlinked(u) == file' = [file EXCEPT ![u] = "ABSENT"] /\ UNCHANGED faults
UnlinkFails == Fault /\ UNCHANGED file

-----------------------------------------------------------------------------
(* The upload request *)

\* prepareAssetUpload: the journal row reserves a place in the collection.
\* The insert may have committed although the process sees an error.
Prepare(u) ==
  /\ stage[u] = "IDLE"
  /\ \/ /\ collection = "LIVE"
        /\ Cardinality(Active) + Cardinality(Reserved) < Capacity
        /\ SetJob("ABANDONED_UPLOAD", u, UploadJob)
        /\ stage' \in {[stage EXCEPT ![u] = s] : s \in {"PREPARED", "FAILED"}}
     \/ GoTo(u, "FAILED") /\ UNCHANGED job
  /\ UNCHANGED <<collection, asset, file, worker, faults>>

\* put: writes of one process follow one another (previousWrite); the file
\* is created exclusively, unless space or the file system says no before.
PutBegins(u) ==
  /\ stage[u] = "PREPARED"
  /\ \A v \in Uploads : Host[v] = Host[u] => stage[v] # "WRITING"
  /\ \/ GoTo(u, "WRITING") /\ file' = [file EXCEPT ![u] = "PARTIAL"]
     \/ GoTo(u, "NO_SPACE") /\ UNCHANGED file
     \/ GoTo(u, "FAILED") /\ UNCHANGED file
  /\ UNCHANGED <<collection, asset, job, worker, faults>>

\* A file that was unlinked under the open handle stays gone.
PutEnds(u) ==
  /\ stage[u] = "WRITING"
  /\ GoTo(u, "WRITTEN")
  /\ file' = [file EXCEPT ![u] = IF @ = "PARTIAL" THEN "COMPLETE" ELSE @]
  /\ UNCHANGED <<collection, asset, job, worker, faults>>

\* writeFile or close fails; the partial file is unlinked, if that works.
PutFails(u) ==
  /\ stage[u] = "WRITING"
  /\ GoTo(u, "FAILED")
  /\ Unlinked(u) \/ UnlinkFails
  /\ UNCHANGED <<collection, asset, job, worker>>

\* Mutant: the journal row is found whatever its status.
Commits_AnyOpen(u) ==
  Open(job["ABANDONED_UPLOAD"][u]) /\ job["ABANDONED_UPLOAD"][u].linked

\* The row that commitAssetUpload selects FOR UPDATE.
Commits(u) ==
  job["ABANDONED_UPLOAD"][u].status = "PENDING"
    /\ job["ABANDONED_UPLOAD"][u].linked

RoleOccupied(u) == \E v \in Active : RoleOf[v] = RoleOf[u]

\* commitAssetUpload; the answer CREATED may be lost on the way.
Commit(u) ==
  /\ stage[u] = "WRITTEN"
  /\ \/ /\ Commits(u)
        /\ ~RoleOccupied(u)
        /\ asset' = [asset EXCEPT ![u] = "ACTIVE"]
        /\ SetJob("ABANDONED_UPLOAD", u, Completed(job["ABANDONED_UPLOAD"][u]))
        /\ stage' \in {[stage EXCEPT ![u] = s] : s \in {"CREATED", "FAILED"}}
     \/ /\ Commits(u)
        /\ RoleOccupied(u)
        /\ GoTo(u, "OCCUPIED")
        /\ UNCHANGED <<asset, job>>
     \/ /\ ~Commits(u)
        /\ GoTo(u, "REJECTED")
        /\ UNCHANGED <<asset, job>>
     \/ GoTo(u, "FAILED") /\ UNCHANGED <<asset, job>>
  /\ UNCHANGED <<collection, file, worker, faults>>

\* storage.delete after RECOVERY_NOT_PENDING (errors are ignored) and after
\* ROLE_OCCUPIED (an error leaves the journal row to the worker).
DeleteRefused(u) ==
  /\ stage[u] \in {"OCCUPIED", "REJECTED"}
  /\ \/ Unlinked(u)
        /\ GoTo(u, IF stage[u] = "OCCUPIED" THEN "RELEASED" ELSE "FAILED")
     \/ UnlinkFails /\ GoTo(u, "FAILED")
  /\ UNCHANGED <<collection, asset, job, worker>>

\* completePreparedAssetUpload; its failure is ignored.
ReleaseReservation(u) ==
  /\ stage[u] \in {"NO_SPACE", "RELEASED"}
  /\ GoTo(u, "FAILED")
  /\ \/ /\ job["ABANDONED_UPLOAD"][u].status = "PENDING"
        /\ SetJob("ABANDONED_UPLOAD", u, Completed(job["ABANDONED_UPLOAD"][u]))
     \/ UNCHANGED job
  /\ UNCHANGED <<collection, asset, file, worker, faults>>

-----------------------------------------------------------------------------
(* Deletion by the owner, and erasure of the owner *)

\* INSERT ... ON CONFLICT DO NOTHING
Enqueued(rows, us) ==
  [u \in Uploads |-> IF u \in us /\ rows[u].status = "NONE" THEN DeleteJob
                     ELSE rows[u]]

\* scheduleOwnedAssetDeletion
DeleteAsset(u) ==
  /\ collection = "LIVE"
  /\ asset[u] = "ACTIVE"
  /\ asset' = [asset EXCEPT ![u] = "DELETED"]
  /\ job' = [job EXCEPT !["DELETE_ASSET"] = Enqueued(@, {u})]
  /\ UNCHANGED <<collection, file, stage, worker, faults>>

\* Mutant: the trigger on the deletion of assets is missing.
ErasedJobs_NoTrigger(rows, us) == rows

\* The trigger wtm_erased_media_cleanup.
ErasedJobs(rows, us) == Enqueued(rows, us)

\* The collection is deleted with its owner's data: its assets cascade, and
\* the trigger leaves one job for each; journal rows lose their collection.
Erase ==
  /\ collection = "LIVE"
  /\ collection' = "ERASED"
  /\ asset' = [u \in Uploads |-> "NONE"]
  /\ job' = [job EXCEPT
       !["DELETE_ASSET"] = ErasedJobs(@, {u \in Uploads : asset[u] # "NONE"}),
       !["ABANDONED_UPLOAD"] = [u \in Uploads |-> [@[u] EXCEPT !.linked = FALSE]]]
  /\ UNCHANGED <<file, stage, worker, faults>>

-----------------------------------------------------------------------------
(* The recovery worker *)

\* available_at comes: after recoveryDelayMs, or after the delay of a retry.
DelayElapses(k, u) ==
  /\ job[k][u].status = "PENDING"
  /\ ~job[k][u].due
  /\ PutWithinDelay => stage[u] \notin Putting
  /\ SetJob(k, u, [job[k][u] EXCEPT !.due = TRUE])
  /\ UNCHANGED <<collection, asset, file, stage, worker, faults>>

LeaseExpires(k, u) ==
  /\ job[k][u].status = "PROCESSING"
  /\ ~job[k][u].stale
  /\ SetJob(k, u, [job[k][u] EXCEPT !.stale = TRUE])
  /\ UNCHANGED <<collection, asset, file, stage, worker, faults>>

\* Mutant: a job whose worker died is never taken again.
Claimable_PendingOnly(j) == j.due /\ j.status = "PENDING"

Claimable(j) ==
  j.due /\ (j.status = "PENDING" \/ (j.status = "PROCESSING" /\ j.stale))

\* claimRecoveryJob
Claim(p, k, u) ==
  /\ worker[p] = Idle
  /\ Claimable(job[k][u])
  /\ job[k][u].attempts < MaxAttempts
  /\ LET n == job[k][u].attempts + 1
     IN  /\ SetJob(k, u, [job[k][u] EXCEPT !.status = "PROCESSING",
                                           !.attempts = n, !.stale = FALSE])
         /\ worker' = [worker EXCEPT ![p] =
                         [step |-> "DELETE", kind |-> k, upload |-> u,
                          attempt |-> n]]
  /\ UNCHANGED <<collection, asset, file, stage, faults>>

\* storage.delete in runOnce
WorkerDeletes(p) ==
  /\ worker[p].step = "DELETE"
  /\ \/ /\ Unlinked(worker[p].upload)
        /\ worker' = [worker EXCEPT ![p].step = "COMPLETE"]
     \/ /\ UnlinkFails
        /\ worker' = [worker EXCEPT ![p].step = "RETRY"]
  /\ UNCHANGED <<collection, asset, job, stage>>

\* Mutant: the job is updated by its id alone.
Fenced_ById(w) == TRUE

\* The WHERE of completeRecoveryJob and retryRecoveryJob.
Fenced(w) ==
  /\ job[w.kind][w.upload].status = "PROCESSING"
  /\ job[w.kind][w.upload].attempts = w.attempt

Retried(j) ==
  [j EXCEPT !.status = "PENDING", !.due = FALSE, !.stale = FALSE]

\* completeRecoveryJob, retryRecoveryJob, or neither because the database
\* fails: then the job is found again when its lease has run out.
WorkerJournals(p) ==
  LET w == worker[p]
  IN  /\ w.step \in {"COMPLETE", "RETRY"}
      /\ worker' = [worker EXCEPT ![p] = Idle]
      /\ \/ /\ Fenced(w)
            /\ SetJob(w.kind, w.upload,
                      IF w.step = "COMPLETE"
                      THEN Completed(job[w.kind][w.upload])
                      ELSE Retried(job[w.kind][w.upload]))
            /\ UNCHANGED faults
         \/ ~Fenced(w) /\ UNCHANGED <<job, faults>>
         \/ Fault /\ UNCHANGED job
      /\ UNCHANGED <<collection, asset, file, stage>>

\* A process stops and is started again: its requests and what its worker
\* was doing are gone, the rows and the files stay.
Crash(p) ==
  /\ Fault
  /\ stage' = [u \in Uploads |-> IF Host[u] = p /\ stage[u] \in Running
                                 THEN "FAILED" ELSE stage[u]]
  /\ worker' = [worker EXCEPT ![p] = Idle]
  /\ UNCHANGED <<collection, asset, job, file>>

Request(u) ==
  \/ Prepare(u)
  \/ PutBegins(u)
  \/ PutEnds(u)
  \/ PutFails(u)
  \/ Commit(u)
  \/ DeleteRefused(u)
  \/ ReleaseReservation(u)

Recover(p) ==
  \/ WorkerDeletes(p)
  \/ WorkerJournals(p)

Next ==
  \/ \E u \in Uploads : Request(u) \/ DeleteAsset(u)
  \/ Erase
  \/ \E k \in Kinds, u \in Uploads : DelayElapses(k, u) \/ LeaseExpires(k, u)
  \/ \E p \in Processes, k \in Kinds, u \in Uploads : Claim(p, k, u)
  \/ \E p \in Processes : Recover(p) \/ Crash(p)

Spec == Init /\ [][Next]_vars

\* Requests and workers go on, delays and leases run out, and the poll
\* takes jobs oldest first, so no due job is passed over for ever.
Fairness ==
  /\ \A u \in Uploads : WF_vars(stage[u] # "IDLE" /\ Request(u))
  /\ \A p \in Processes : WF_vars(Recover(p))
  /\ \A k \in Kinds, u \in Uploads :
       /\ WF_vars(DelayElapses(k, u) \/ LeaseExpires(k, u))
       /\ SF_vars(\E p \in Processes : Claim(p, k, u))

FairSpec == Spec /\ Fairness

-----------------------------------------------------------------------------
WorkerStates ==
  {Idle} \cup [step : {"DELETE", "COMPLETE", "RETRY"}, kind : Kinds,
               upload : Uploads, attempt : 1..MaxAttempts]

TypeOK ==
  /\ collection \in {"LIVE", "ERASED"}
  /\ asset \in [Uploads -> {"NONE", "ACTIVE", "DELETED"}]
  /\ job \in [Kinds -> [Uploads -> JobRows]]
  /\ file \in [Uploads -> {"ABSENT", "PARTIAL", "COMPLETE"}]
  /\ stage \in [Uploads -> Stages]
  /\ worker \in [Processes -> WorkerStates]
  /\ faults \in 0..MaxFaults

\* An image the owner can see has its bytes on the disk, complete: a request
\* and the worker that takes it for abandoned cannot both succeed.  Unlinking
\* is not fenced by the attempt, so this is not said of a reservation that was
\* claimed a second time before it was committed.
LiveAssetHasFile ==
  \A u \in Active :
    job["ABANDONED_UPLOAD"][u].attempts <= 1 => file[u] = "COMPLETE"

Journalled(u) == \E k \in Kinds : Open(job[k][u])

\* Whatever fails or crashes, every byte on the disk belongs to an image of
\* its owner or to a job that will remove it: nothing private is orphaned.
BlobIsJournalled ==
  \A u \in Uploads : file[u] # "ABSENT" => u \in Active \/ Journalled(u)

\* A finished job stays finished: a worker that was too slow and lost its
\* job to another cannot reopen it.
CompletedIsFinal ==
  [][\A k \in Kinds, u \in Uploads :
       job[k][u].status = "COMPLETED" => job'[k][u].status = "COMPLETED"]_vars

\* What the comment in put() says of a partial file that could not be
\* unlinked: it remains covered by the durable abandoned-upload job.
FailedUnlinkIsCovered ==
  \A u \in Uploads : file[u] = "PARTIAL" /\ stage[u] = "FAILED" => Journalled(u)

\* Erasing the owner removes every file, those of uploads that were under
\* way included.
ErasureReachesTheDisk ==
  collection = "ERASED" ~> [](\A u \in Uploads : file[u] = "ABSENT")

\* The journal is drained again and again: no job waits for ever, so no file
\* outlives its deletion and no reservation holds its place in the collection
\* for ever.
JournalDrains ==
  []<>(\A k \in Kinds, u \in Uploads : ~Open(job[k][u]))
=============================================================================
