------------------------ MODULE MediaLifecycleProofs ------------------------
(***************************************************************************)
(* Theorems about the private media, for every set of uploads and          *)
(* processes and every number of claims, crashes and failures.             *)
(*                                                                         *)
(* That every file is journalled is not inductive: a worker is about to    *)
(* close a job, and the file must then be gone.  The file cannot come      *)
(* back, because a job is only claimed when it is due, it is only due when *)
(* the put has ended, and requests never go back.                          *)
(***************************************************************************)
EXTENDS MediaLifecycle, TLAPS

Abandoned(u) == job["ABANDONED_UPLOAD"][u]

Deletion(u) == job["DELETE_ASSET"][u]

-----------------------------------------------------------------------------
(* Types *)

\* What an assignment to one row leaves as it was.
LEMMA RowAssigned ==
  ASSUME job \in [Kinds -> [Uploads -> JobRows]],
         NEW k \in Kinds, NEW u \in Uploads, NEW row \in JobRows,
         SetJob(k, u, row)
  PROVE  /\ job' \in [Kinds -> [Uploads -> JobRows]]
         /\ job'[k][u] = row
         /\ \A l \in Kinds, v \in Uploads :
              l # k \/ v # u => job'[l][v] = job[l][v]
BY DEF SetJob

\* The rows that are ever written.
LEMMA RowTypes ==
  /\ NoRow \in JobRows /\ UploadJob \in JobRows /\ DeleteJob \in JobRows
  /\ \A j \in JobRows : /\ Completed(j) \in JobRows
                        /\ Retried(j) \in JobRows
                        /\ [j EXCEPT !.due = TRUE] \in JobRows
                        /\ [j EXCEPT !.stale = TRUE] \in JobRows
                        /\ [j EXCEPT !.linked = FALSE] \in JobRows
<1>1. 0 \in 0..MaxAttempts
  BY BoundsAssumption
<1>2. NoRow \in JobRows /\ UploadJob \in JobRows /\ DeleteJob \in JobRows
  BY <1>1 DEF JobRows, Statuses, NoRow, UploadJob, DeleteJob
<1>3. \A j \in JobRows : Completed(j) \in JobRows /\ Retried(j) \in JobRows
  BY DEF JobRows, Statuses, Completed, Retried
<1>4. \A j \in JobRows : /\ [j EXCEPT !.due = TRUE] \in JobRows
                         /\ [j EXCEPT !.stale = TRUE] \in JobRows
                         /\ [j EXCEPT !.linked = FALSE] \in JobRows
  BY DEF JobRows, Statuses
<1> QED
  BY <1>2, <1>3, <1>4

LEMMA ClaimedRow ==
  ASSUME NEW j \in JobRows, NEW n \in 1..MaxAttempts
  PROVE  [j EXCEPT !.status = "PROCESSING", !.attempts = n, !.stale = FALSE]
           \in JobRows
<1>1. n \in 0..MaxAttempts
  OBVIOUS
<1> QED
  BY <1>1 DEF JobRows, Statuses

LEMMA FaultType ==
  ASSUME faults \in 0..MaxFaults, Fault
  PROVE  faults' \in 0..MaxFaults
BY BoundsAssumption DEF Fault

LEMMA RequestTypes ==
  ASSUME TypeOK, NEW u \in Uploads, Request(u)
  PROVE  TypeOK'
<1>1. "ABANDONED_UPLOAD" \in Kinds /\ job["ABANDONED_UPLOAD"][u] \in JobRows
  BY DEF TypeOK, Kinds
<1>2. CASE Prepare(u)
  <2>1. stage' \in [Uploads -> Stages]
    BY <1>2 DEF TypeOK, Prepare, GoTo, Stages
  <2>2. job' \in [Kinds -> [Uploads -> JobRows]]
    BY <1>1, <1>2, RowTypes, RowAssigned DEF TypeOK, Prepare
  <2> QED
    BY <1>2, <2>1, <2>2 DEF TypeOK, Prepare
<1>3. CASE PutBegins(u)
  BY <1>3 DEF TypeOK, PutBegins, GoTo, Stages
<1>4. CASE PutEnds(u)
  BY <1>4 DEF TypeOK, PutEnds, GoTo, Stages
<1>5. CASE PutFails(u)
  <2>1. faults' \in 0..MaxFaults
    BY <1>5, FaultType DEF TypeOK, PutFails, Unlinked, UnlinkFails
  <2> QED
    BY <1>5, <2>1 DEF TypeOK, PutFails, GoTo, Stages, Unlinked, UnlinkFails
<1>6. CASE Commit(u)
  <2>1. stage' \in [Uploads -> Stages]
    BY <1>6 DEF TypeOK, Commit, GoTo, Stages
  <2>2. job' \in [Kinds -> [Uploads -> JobRows]]
    BY <1>1, <1>6, RowTypes, RowAssigned DEF TypeOK, Commit
  <2> QED
    BY <1>6, <2>1, <2>2 DEF TypeOK, Commit
<1>7. CASE DeleteRefused(u)
  <2>1. faults' \in 0..MaxFaults
    BY <1>7, FaultType DEF TypeOK, DeleteRefused, Unlinked, UnlinkFails
  <2> QED
    BY <1>7, <2>1 DEF TypeOK, DeleteRefused, GoTo, Stages, Unlinked, UnlinkFails
<1>8. CASE ReleaseReservation(u)
  <2>1. stage' \in [Uploads -> Stages]
    BY <1>8 DEF TypeOK, ReleaseReservation, GoTo, Stages
  <2>2. job' \in [Kinds -> [Uploads -> JobRows]]
    BY <1>1, <1>8, RowTypes, RowAssigned DEF TypeOK, ReleaseReservation
  <2> QED
    BY <1>8, <2>1, <2>2 DEF TypeOK, ReleaseReservation
<1> QED
  BY <1>2, <1>3, <1>4, <1>5, <1>6, <1>7, <1>8 DEF Request

\* INSERT ... ON CONFLICT DO NOTHING writes jobs, and only where none was.
LEMMA EnqueuedRows ==
  ASSUME NEW rows \in [Uploads -> JobRows], NEW us
  PROVE  /\ Enqueued(rows, us) \in [Uploads -> JobRows]
         /\ \A u \in Uploads :
              Enqueued(rows, us)[u] =
                IF u \in us /\ rows[u].status = "NONE" THEN DeleteJob ELSE rows[u]
BY RowTypes DEF Enqueued

LEMMA DeleteAssetRows ==
  ASSUME TypeOK, NEW u \in Uploads, DeleteAsset(u)
  PROVE  /\ job' \in [Kinds -> [Uploads -> JobRows]]
         /\ \A v \in Uploads :
              /\ Abandoned(v)' = Abandoned(v)
              /\ Deletion(v)' = IF v = u /\ Deletion(v).status = "NONE"
                                THEN DeleteJob ELSE Deletion(v)
<1>1. job["DELETE_ASSET"] \in [Uploads -> JobRows]
  BY DEF TypeOK, Kinds
<1>2. job' = [job EXCEPT !["DELETE_ASSET"] = Enqueued(job["DELETE_ASSET"], {u})]
  BY DEF DeleteAsset
<1> QED
  BY <1>1, <1>2, EnqueuedRows DEF TypeOK, Kinds, Abandoned, Deletion

LEMMA EraseRows ==
  ASSUME TypeOK, Erase
  PROVE  /\ job' \in [Kinds -> [Uploads -> JobRows]]
         /\ \A v \in Uploads :
              /\ Abandoned(v)' = [Abandoned(v) EXCEPT !.linked = FALSE]
              /\ Deletion(v)' = IF asset[v] # "NONE" /\ Deletion(v).status = "NONE"
                                THEN DeleteJob ELSE Deletion(v)
<1> DEFINE us == {u \in Uploads : asset[u] # "NONE"}
           unlinked == [u \in Uploads |->
                          [job["ABANDONED_UPLOAD"][u] EXCEPT !.linked = FALSE]]
<1>1. /\ job["DELETE_ASSET"] \in [Uploads -> JobRows]
      /\ job["ABANDONED_UPLOAD"] \in [Uploads -> JobRows]
  BY DEF TypeOK, Kinds
<1>2. job' = [job EXCEPT !["DELETE_ASSET"] = Enqueued(job["DELETE_ASSET"], us),
                         !["ABANDONED_UPLOAD"] = unlinked]
  BY DEF Erase, ErasedJobs
<1>3. unlinked \in [Uploads -> JobRows]
  BY <1>1, RowTypes
<1>4. /\ job'["DELETE_ASSET"] = Enqueued(job["DELETE_ASSET"], us)
      /\ job'["ABANDONED_UPLOAD"] = unlinked
      /\ job' \in [Kinds -> [Uploads -> JobRows]]
  BY <1>1, <1>2, <1>3, EnqueuedRows DEF TypeOK, Kinds
<1> QED
  BY <1>1, <1>4, EnqueuedRows DEF Abandoned, Deletion

LEMMA WorkerTypes ==
  ASSUME TypeOK, NEW p \in Processes, worker[p] # Idle
  PROVE  /\ worker[p].step \in {"DELETE", "COMPLETE", "RETRY"}
         /\ worker[p].kind \in Kinds
         /\ worker[p].upload \in Uploads
         /\ worker[p].attempt \in 1..MaxAttempts
         /\ job[worker[p].kind][worker[p].upload] \in JobRows
BY DEF TypeOK, WorkerStates

LEMMA BusyWorker ==
  ASSUME TypeOK, NEW p \in Processes, worker[p].step # "IDLE"
  PROVE  worker[p] # Idle
BY DEF Idle

LEMMA NextTypes == TypeOK /\ [Next]_vars => TypeOK'
<1> SUFFICES ASSUME TypeOK, [Next]_vars PROVE TypeOK'
  OBVIOUS
<1>1. ASSUME NEW u \in Uploads, Request(u) PROVE TypeOK'
  BY <1>1, RequestTypes
<1>2. ASSUME NEW u \in Uploads, DeleteAsset(u) PROVE TypeOK'
  BY <1>2, DeleteAssetRows DEF TypeOK, DeleteAsset
<1>3. CASE Erase
  BY <1>3, EraseRows DEF TypeOK, Erase
<1>4. ASSUME NEW k \in Kinds, NEW u \in Uploads, DelayElapses(k, u) PROVE TypeOK'
  <2>1. job[k][u] \in JobRows
    BY DEF TypeOK
  <2> QED
    BY <1>4, <2>1, RowTypes, RowAssigned DEF TypeOK, DelayElapses
<1>5. ASSUME NEW k \in Kinds, NEW u \in Uploads, LeaseExpires(k, u) PROVE TypeOK'
  <2>1. job[k][u] \in JobRows
    BY DEF TypeOK
  <2> QED
    BY <1>5, <2>1, RowTypes, RowAssigned DEF TypeOK, LeaseExpires
<1>6. ASSUME NEW p \in Processes, NEW k \in Kinds, NEW u \in Uploads, Claim(p, k, u)
      PROVE  TypeOK'
  <2> DEFINE n == job[k][u].attempts + 1
             row == [job[k][u] EXCEPT !.status = "PROCESSING", !.attempts = n,
                                      !.stale = FALSE]
  <2>1. job[k][u] \in JobRows
    BY DEF TypeOK
  <2>2. n \in 1..MaxAttempts
    BY <1>6, <2>1, BoundsAssumption DEF Claim, JobRows
  <2>3. row \in JobRows
    BY <2>1, <2>2, ClaimedRow
  <2>4. job' \in [Kinds -> [Uploads -> JobRows]]
    BY <1>6, <2>3, RowAssigned DEF TypeOK, Claim
  <2>5. worker' \in [Processes -> WorkerStates]
    BY <1>6, <2>2 DEF TypeOK, Claim, WorkerStates
  <2> QED
    BY <1>6, <2>4, <2>5 DEF TypeOK, Claim
<1>7. ASSUME NEW p \in Processes, WorkerDeletes(p) PROVE TypeOK'
  <2>1. worker[p] # Idle /\ worker[p].upload \in Uploads
    BY <1>7, BusyWorker, WorkerTypes DEF WorkerDeletes
  <2>2. faults' \in 0..MaxFaults
    BY <1>7, FaultType DEF TypeOK, WorkerDeletes, Unlinked, UnlinkFails
  <2>3. file' \in [Uploads -> {"ABSENT", "PARTIAL", "COMPLETE"}]
    BY <1>7 DEF TypeOK, WorkerDeletes, Unlinked, UnlinkFails
  <2>4. worker' \in [Processes -> WorkerStates]
    BY <1>7, <2>1 DEF TypeOK, WorkerDeletes, WorkerStates
  <2> QED
    BY <1>7, <2>2, <2>3, <2>4 DEF TypeOK, WorkerDeletes
<1>8. ASSUME NEW p \in Processes, WorkerJournals(p) PROVE TypeOK'
  <2>1. worker[p] # Idle
    BY <1>8, BusyWorker DEF WorkerJournals
  <2>2. job' \in [Kinds -> [Uploads -> JobRows]]
    BY <1>8, <2>1, WorkerTypes, RowTypes, RowAssigned DEF TypeOK, WorkerJournals
  <2>3. worker' \in [Processes -> WorkerStates]
    BY <1>8 DEF TypeOK, WorkerJournals, WorkerStates
  <2>4. faults' \in 0..MaxFaults
    BY <1>8, FaultType DEF TypeOK, WorkerJournals
  <2> QED
    BY <1>8, <2>2, <2>3, <2>4 DEF TypeOK, WorkerJournals
<1>9. ASSUME NEW p \in Processes, Crash(p) PROVE TypeOK'
  <2>1. faults' \in 0..MaxFaults
    BY <1>9, FaultType DEF TypeOK, Crash
  <2> QED
    BY <1>9, <2>1 DEF TypeOK, Crash, Stages, WorkerStates
<1>10. CASE UNCHANGED vars
  BY <1>10 DEF TypeOK, vars
<1> QED
  BY <1>1, <1>2, <1>3, <1>4, <1>5, <1>6, <1>7, <1>8, <1>9, <1>10
     DEF Next, Recover

LEMMA InitTypes == Init => TypeOK
BY RowTypes, BoundsAssumption DEF Init, TypeOK, Stages, WorkerStates

\* The rows, files, requests and workers keep their types, and no row has a
\* status the table does not know.
THEOREM TypeCorrect == Spec => []TypeOK
BY InitTypes, NextTypes, PTL DEF Spec
-----------------------------------------------------------------------------
(* A finished job stays finished *)

\* Requests do not go back to where they began.
LEMMA Begun ==
  ASSUME TypeOK, [Next]_vars, NEW v \in Uploads, stage'[v] = "IDLE"
  PROVE  stage[v] = "IDLE"
<1>1. CASE \E u \in Uploads : Request(u)
  <2> PICK u \in Uploads : Request(u)
    BY <1>1
  <2>1. \E s \in Stages \ {"IDLE"} : GoTo(u, s)
    BY DEF Request, Prepare, PutBegins, PutEnds, PutFails, Commit, DeleteRefused,
           ReleaseReservation, GoTo, Stages
  <2> QED
    BY <2>1 DEF TypeOK, GoTo
<1>2. CASE \E p \in Processes : Crash(p)
  BY <1>2 DEF TypeOK, Crash
<1>3. CASE UNCHANGED stage
  BY <1>3
<1> QED
  BY <1>1, <1>2, <1>3
     DEF Next, vars, Recover, DeleteAsset, Erase, DelayElapses, LeaseExpires,
         Claim, WorkerDeletes, WorkerJournals

\* Where the status of a row may change.
StatusKept(k, u) ==
  \/ job'[k][u].status = job[k][u].status
  \/ k = "ABANDONED_UPLOAD" /\ stage[u] = "IDLE" /\ stage'[u] # "IDLE"
  \/ k = "DELETE_ASSET" /\ job[k][u].status = "NONE"
  \/ Open(job[k][u])

LEMMA StatusSteps ==
  ASSUME TypeOK, [Next]_vars, NEW l \in Kinds, NEW v \in Uploads
  PROVE  StatusKept(l, v)
<1>1. "ABANDONED_UPLOAD" \in Kinds /\ \A k \in Kinds, u \in Uploads : job[k][u] \in JobRows
  BY DEF TypeOK, Kinds
<1>2. ASSUME NEW k \in Kinds, NEW u \in Uploads, NEW row \in JobRows,
             SetJob(k, u, row),
             \/ row.status = job[k][u].status
             \/ k = "ABANDONED_UPLOAD" /\ stage[u] = "IDLE" /\ stage'[u] # "IDLE"
             \/ Open(job[k][u])
      PROVE  StatusKept(l, v)
  BY <1>2, RowAssigned DEF TypeOK, StatusKept
<1>3. CASE UNCHANGED job
  BY <1>3 DEF StatusKept
<1>4. ASSUME NEW u \in Uploads, Prepare(u) PROVE StatusKept(l, v)
  <2>1. CASE SetJob("ABANDONED_UPLOAD", u, UploadJob)
    <3>1. stage[u] = "IDLE" /\ stage'[u] # "IDLE"
      BY <1>4, <2>1 DEF TypeOK, Prepare, GoTo
    <3> QED
      BY <1>1, <1>2, <2>1, <3>1, RowTypes
  <2> QED
    BY <1>3, <1>4, <2>1 DEF Prepare
<1>5. ASSUME NEW u \in Uploads, Commit(u) PROVE StatusKept(l, v)
  BY <1>1, <1>2, <1>3, <1>5, RowTypes DEF Commit, Commits, Open
<1>6. ASSUME NEW u \in Uploads, ReleaseReservation(u) PROVE StatusKept(l, v)
  BY <1>1, <1>2, <1>3, <1>6, RowTypes DEF ReleaseReservation, Open
<1>7. ASSUME NEW u \in Uploads, DeleteAsset(u) PROVE StatusKept(l, v)
  BY <1>7, DeleteAssetRows DEF StatusKept, Kinds, Abandoned, Deletion
<1>8. CASE Erase
  <2>1. [Abandoned(v) EXCEPT !.linked = FALSE].status = Abandoned(v).status
    BY <1>1 DEF Abandoned, JobRows
  <2> QED
    BY <1>8, <2>1, EraseRows DEF StatusKept, Kinds, Abandoned, Deletion
<1>9. ASSUME NEW k \in Kinds, NEW u \in Uploads, DelayElapses(k, u)
      PROVE  StatusKept(l, v)
  BY <1>1, <1>2, <1>9, RowTypes DEF DelayElapses, Open
<1>10. ASSUME NEW k \in Kinds, NEW u \in Uploads, LeaseExpires(k, u)
       PROVE  StatusKept(l, v)
  BY <1>1, <1>2, <1>10, RowTypes DEF LeaseExpires, Open
<1>11. ASSUME NEW p \in Processes, NEW k \in Kinds, NEW u \in Uploads, Claim(p, k, u)
       PROVE  StatusKept(l, v)
  <2>1. job[k][u].attempts + 1 \in 1..MaxAttempts
    BY <1>1, <1>11, BoundsAssumption DEF Claim, JobRows
  <2>2. Open(job[k][u])
    BY <1>11 DEF Claim, Claimable, Open
  <2> QED
    BY <1>1, <1>2, <1>11, <2>1, <2>2, ClaimedRow DEF Claim
<1>12. ASSUME NEW p \in Processes, WorkerJournals(p) PROVE StatusKept(l, v)
  <2>1. worker[p] # Idle
    BY <1>12, BusyWorker DEF WorkerJournals
  <2> QED
    BY <1>2, <1>3, <1>12, <2>1, WorkerTypes, RowTypes DEF WorkerJournals, Fenced, Open
<1> QED
  BY <1>3, <1>4, <1>5, <1>6, <1>7, <1>8, <1>9, <1>10, <1>11, <1>12
     DEF Next, vars, Request, Recover, PutBegins, PutEnds, PutFails, DeleteRefused,
         WorkerDeletes, Crash

\* A request that has not begun has no row.
Unstarted ==
  \A u \in Uploads : stage[u] = "IDLE" => Abandoned(u).status = "NONE"

LEMMA UnstartedKept == TypeOK /\ Unstarted /\ [Next]_vars => Unstarted'
<1> SUFFICES ASSUME TypeOK, Unstarted, [Next]_vars,
                    NEW u \in Uploads, stage'[u] = "IDLE"
             PROVE  Abandoned(u)'.status = "NONE"
  BY DEF Unstarted
<1>1. stage[u] = "IDLE" /\ Abandoned(u).status = "NONE"
  BY Begun DEF Unstarted
<1>2. StatusKept("ABANDONED_UPLOAD", u)
  BY StatusSteps DEF Kinds
<1> QED
  BY <1>1, <1>2 DEF StatusKept, Abandoned, Open

LEMMA InitUnstarted == Init => TypeOK /\ Unstarted
<1>1. Init => Unstarted
  BY DEF Init, Unstarted, Abandoned, NoRow, Kinds
<1> QED
  BY <1>1, InitTypes

\* No step reopens a finished job: not a worker that lost its job to another
\* one, not a second request, not a deletion that is enqueued twice.
THEOREM FinishedJobsStayFinished == Spec => CompletedIsFinal
<1>1. TypeOK /\ Unstarted /\ [Next]_vars
        => [\A k \in Kinds, u \in Uploads :
              job[k][u].status = "COMPLETED" => job'[k][u].status = "COMPLETED"]_vars
  <2> SUFFICES ASSUME TypeOK, Unstarted, [Next]_vars, NEW k \in Kinds,
                      NEW u \in Uploads, job[k][u].status = "COMPLETED"
               PROVE  job'[k][u].status = "COMPLETED"
    OBVIOUS
  <2>1. StatusKept(k, u)
    BY StatusSteps
  <2> QED
    BY <2>1 DEF StatusKept, Unstarted, Abandoned, Open
<1> QED
  BY <1>1, InitUnstarted, NextTypes, UnstartedKept, PTL DEF Spec, CompletedIsFinal
-----------------------------------------------------------------------------
(* No file without an image or a job, if every put ends before its job is due *)

\* Until its put has ended, nobody but the request touches row and file.
RequestSound(u) ==
  /\ stage[u] \in {"IDLE", "PREPARED", "NO_SPACE", "RELEASED"} => file[u] = "ABSENT"
  /\ stage[u] \in Putting => Abandoned(u).status = "PENDING" /\ ~Abandoned(u).due
  /\ stage[u] = "WRITING" => file[u] = "PARTIAL"

\* A row for the image follows the end of its upload, a deletion job follows
\* the end of the image.
RowsSound(u) ==
  /\ asset[u] # "NONE" => /\ Abandoned(u).status = "COMPLETED"
                          /\ stage[u] \in {"CREATED", "FAILED"}
  /\ Deletion(u).status # "NONE" => /\ Abandoned(u).status = "COMPLETED"
                                    /\ stage[u] \in {"CREATED", "FAILED"}
                                    /\ asset[u] # "ACTIVE"

FileSound(u) == file[u] # "ABSENT" => asset[u] = "ACTIVE" \/ Journalled(u)

UploadSound(u) == RequestSound(u) /\ RowsSound(u) /\ FileSound(u)

Put(u) == stage[u] \notin Putting \cup {"IDLE"}

\* What a worker has claimed was written before, and is gone when the worker
\* says so.
WorkerSound(p) ==
  worker[p] # Idle =>
    LET w == worker[p]
    IN  /\ Put(w.upload)
        /\ job[w.kind][w.upload].status # "NONE"
        /\ w.step = "COMPLETE" => file[w.upload] = "ABSENT"
        /\ w.attempt <= job[w.kind][w.upload].attempts

Journals ==
  /\ PutWithinDelay
  /\ TypeOK
  /\ Unstarted
  /\ \A u \in Uploads : UploadSound(u)
  /\ \A p \in Processes : WorkerSound(p)

\* What a worker may rely on while the others go on.
Progress(u) ==
  Put(u) =>
    /\ Put(u)'
    /\ file[u] = "ABSENT" => file'[u] = "ABSENT"
    /\ \A k \in Kinds : job[k][u].status # "NONE" =>
         /\ job'[k][u].status # "NONE"
         /\ job[k][u].attempts <= job'[k][u].attempts

Step(u) == UploadSound(u)' /\ Progress(u)

LEMMA Untouched ==
  ASSUME Journals, NEW u \in Uploads,
         stage'[u] = stage[u], file'[u] = file[u], asset'[u] = asset[u],
         \A k \in Kinds : job'[k][u] = job[k][u]
  PROVE  Step(u)
<1>1. \A k \in Kinds : job[k][u].attempts <= job[k][u].attempts
  BY DEF Journals, TypeOK, JobRows
<1>2. Abandoned(u)' = Abandoned(u) /\ Deletion(u)' = Deletion(u)
  BY DEF Kinds, Abandoned, Deletion
<1>3. Journalled(u)' <=> Journalled(u)
  BY DEF Journalled, Open
<1>4. UploadSound(u)'
  BY <1>2, <1>3 DEF Journals, UploadSound, RequestSound, RowsSound, FileSound
<1> QED
  BY <1>1, <1>4 DEF Step, Progress, Put

\* Kinds and rows, in the form the steps below use them.
LEMMA RowFacts ==
  ASSUME Journals
  PROVE  /\ "ABANDONED_UPLOAD" \in Kinds /\ "DELETE_ASSET" \in Kinds
         /\ \A k \in Kinds : k = "ABANDONED_UPLOAD" \/ k = "DELETE_ASSET"
         /\ \A k \in Kinds, u \in Uploads :
              /\ job[k][u] \in JobRows
              /\ job[k][u].attempts \in Nat
         /\ \A j \in JobRows :
              /\ Completed(j).status = "COMPLETED"
              /\ Retried(j).status = "PENDING"
              /\ Completed(j).attempts = j.attempts
              /\ Retried(j).attempts = j.attempts
<1>1. \A j \in JobRows : j.attempts \in Nat
  BY BoundsAssumption DEF JobRows
<1> QED
  BY <1>1 DEF Journals, TypeOK, Kinds, JobRows, Completed, Retried

LEMMA RequestSteps ==
  ASSUME Journals, NEW u \in Uploads, Request(u), NEW v \in Uploads
  PROVE  Step(v)
<1> USE DEF Journals
<1>1. CASE v # u
  <2>1. stage'[v] = stage[v] /\ file'[v] = file[v] /\ asset'[v] = asset[v]
    BY <1>1 DEF TypeOK, Request, Prepare, PutBegins, PutEnds, PutFails, Commit,
                DeleteRefused, ReleaseReservation, GoTo, Unlinked, UnlinkFails
  <2>2. \A k \in Kinds : job'[k][v] = job[k][v]
    BY <1>1 DEF TypeOK, Request, Prepare, PutBegins, PutEnds, PutFails, Commit,
                DeleteRefused, ReleaseReservation, SetJob
  <2> QED
    BY <2>1, <2>2, Untouched
<1> SUFFICES Step(u)
  BY <1>1
<1>2. ASSUME NEW row \in JobRows, SetJob("ABANDONED_UPLOAD", u, row)
      PROVE  Abandoned(u)' = row /\ Deletion(u)' = Deletion(u)
  BY <1>2, RowAssigned, RowFacts DEF TypeOK, Abandoned, Deletion
<1>3. ASSUME UNCHANGED job
      PROVE  /\ Abandoned(u)' = Abandoned(u) /\ Deletion(u)' = Deletion(u)
             /\ Journalled(u)' <=> Journalled(u)
             /\ \A k \in Kinds : job[k][u].attempts <= job'[k][u].attempts
  BY <1>3, RowFacts DEF Abandoned, Deletion, Journalled, Open
<1>4. Journalled(u) <=> Open(Abandoned(u)) \/ Open(Deletion(u))
  BY RowFacts DEF Journalled, Abandoned, Deletion
<1>5. Journalled(u)' <=> Open(Abandoned(u)') \/ Open(Deletion(u)')
  BY RowFacts DEF Journalled, Abandoned, Deletion, Open
<1>6. CASE Prepare(u)
  <2>1. stage[u] = "IDLE" /\ stage'[u] \in {"PREPARED", "FAILED"}
    BY <1>6 DEF TypeOK, Prepare, GoTo
  <2>2. /\ file'[u] = "ABSENT" /\ asset'[u] = "NONE"
        /\ Deletion(u).status = "NONE"
    BY <1>6, <2>1 DEF Prepare, UploadSound, RequestSound, RowsSound
  <2>3. stage'[u] = "PREPARED" => SetJob("ABANDONED_UPLOAD", u, UploadJob)
    BY <1>6 DEF TypeOK, Prepare, GoTo
  <2>4. Deletion(u)'.status = "NONE"
    BY <1>2, <1>3, <1>6, <2>2, RowTypes DEF Prepare
  <2>5. stage'[u] = "PREPARED"
          => Abandoned(u)'.status = "PENDING" /\ ~Abandoned(u)'.due
    BY <1>2, <2>3, RowTypes DEF UploadJob, NoRow
  <2>6. UploadSound(u)'
    BY <2>1, <2>2, <2>4, <2>5
       DEF UploadSound, RequestSound, RowsSound, FileSound, Putting
  <2> QED
    BY <2>1, <2>6 DEF Step, Progress, Put
<1>7. CASE PutBegins(u)
  <2>1. /\ stage[u] = "PREPARED" /\ file[u] = "ABSENT" /\ asset'[u] = "NONE"
        /\ Deletion(u).status = "NONE"
        /\ Abandoned(u).status = "PENDING" /\ ~Abandoned(u).due
    BY <1>7 DEF PutBegins, UploadSound, RequestSound, RowsSound, Putting
  <2>2. \/ stage'[u] = "WRITING" /\ file'[u] = "PARTIAL"
        \/ stage'[u] \in {"NO_SPACE", "FAILED"} /\ file'[u] = "ABSENT"
    BY <1>7, <2>1 DEF TypeOK, PutBegins, GoTo
  <2>3. UNCHANGED job
    BY <1>7 DEF PutBegins
  <2>4. UploadSound(u)'
    BY <1>3, <1>4, <2>1, <2>2, <2>3
       DEF UploadSound, RequestSound, RowsSound, FileSound, Putting, Open
  <2> QED
    BY <2>1, <2>4 DEF Step, Progress, Put, Putting
<1>8. CASE PutEnds(u)
  <2>1. /\ stage[u] = "WRITING" /\ file[u] = "PARTIAL" /\ asset'[u] = "NONE"
        /\ Deletion(u).status = "NONE"
        /\ Abandoned(u).status = "PENDING"
    BY <1>8 DEF PutEnds, UploadSound, RequestSound, RowsSound, Putting
  <2>2. stage'[u] = "WRITTEN" /\ UNCHANGED job
    BY <1>8 DEF TypeOK, PutEnds, GoTo
  <2>3. UploadSound(u)'
    BY <1>3, <1>4, <2>1, <2>2
       DEF UploadSound, RequestSound, RowsSound, FileSound, Putting, Open
  <2> QED
    BY <2>1, <2>3 DEF Step, Progress, Put, Putting
<1>9. CASE PutFails(u)
  <2>1. /\ stage[u] = "WRITING" /\ asset'[u] = "NONE"
        /\ Deletion(u).status = "NONE"
        /\ Abandoned(u).status = "PENDING"
    BY <1>9 DEF PutFails, UploadSound, RequestSound, RowsSound, Putting
  <2>2. stage'[u] = "FAILED" /\ UNCHANGED job
    BY <1>9 DEF TypeOK, PutFails, GoTo
  <2>3. UploadSound(u)'
    BY <1>3, <1>4, <2>1, <2>2
       DEF UploadSound, RequestSound, RowsSound, FileSound, Putting, Open
  <2> QED
    BY <2>1, <2>3 DEF Step, Progress, Put, Putting
<1>10. CASE Commit(u)
  <2>1. /\ stage[u] = "WRITTEN" /\ asset[u] = "NONE"
        /\ Deletion(u).status = "NONE" /\ file'[u] = file[u]
    BY <1>10 DEF Commit, UploadSound, RowsSound, TypeOK
  <2>2. CASE /\ Commits(u)
             /\ asset' = [asset EXCEPT ![u] = "ACTIVE"]
             /\ SetJob("ABANDONED_UPLOAD", u, Completed(Abandoned(u)))
             /\ stage'[u] \in {"CREATED", "FAILED"}
    <3>1. /\ Abandoned(u) \in JobRows /\ Completed(Abandoned(u)) \in JobRows
      BY RowFacts, RowTypes DEF Abandoned
    <3>2. /\ Abandoned(u)' = Completed(Abandoned(u))
          /\ Deletion(u)' = Deletion(u)
          /\ asset'[u] = "ACTIVE"
      BY <1>2, <2>2, <3>1 DEF TypeOK
    <3>3. UploadSound(u)'
      BY <2>1, <2>2, <3>1, <3>2, RowFacts
         DEF UploadSound, RequestSound, RowsSound, FileSound, Putting
    <3> QED
      BY <2>1, <2>2, <3>1, <3>2, <3>3, RowFacts
         DEF Step, Progress, Put, Putting, Abandoned, Deletion
  <2>3. CASE UNCHANGED <<asset, job>> /\ stage'[u] \in {"OCCUPIED", "REJECTED", "FAILED"}
    <3>1. UploadSound(u)'
      BY <1>3, <2>1, <2>3
         DEF UploadSound, RequestSound, RowsSound, FileSound, Putting
    <3> QED
      BY <1>3, <2>1, <2>3, <3>1 DEF Step, Progress, Put, Putting
  <2> QED
    BY <1>10, <2>2, <2>3 DEF Commit, GoTo, TypeOK, Abandoned
<1>11. CASE DeleteRefused(u)
  <2>1. /\ stage[u] \in {"OCCUPIED", "REJECTED"} /\ asset[u] = "NONE"
        /\ Deletion(u).status = "NONE"
        /\ UNCHANGED job /\ UNCHANGED asset
    BY <1>11 DEF DeleteRefused, UploadSound, RowsSound, TypeOK
  <2>2. \/ stage'[u] \in {"RELEASED", "FAILED"} /\ file'[u] = "ABSENT"
        \/ stage'[u] = "FAILED" /\ file'[u] = file[u]
    BY <1>11 DEF TypeOK, DeleteRefused, GoTo, Unlinked, UnlinkFails
  <2>3. UploadSound(u)'
    BY <1>3, <2>1, <2>2
       DEF UploadSound, RequestSound, RowsSound, FileSound, Putting
  <2> QED
    BY <1>3, <2>1, <2>2, <2>3 DEF Step, Progress, Put, Putting
<1>12. CASE ReleaseReservation(u)
  <2>1. /\ stage[u] \in {"NO_SPACE", "RELEASED"} /\ asset'[u] = "NONE"
        /\ Deletion(u).status = "NONE" /\ file'[u] = "ABSENT"
        /\ stage'[u] = "FAILED"
    BY <1>12 DEF ReleaseReservation, GoTo, UploadSound, RequestSound, RowsSound, TypeOK
  <2>2. /\ Deletion(u)' = Deletion(u)
        /\ \A k \in Kinds : job[k][u].status # "NONE" =>
             /\ job'[k][u].status # "NONE"
             /\ job[k][u].attempts <= job'[k][u].attempts
    <3>1. CASE SetJob("ABANDONED_UPLOAD", u, Completed(Abandoned(u)))
      <4>1. Abandoned(u) \in JobRows /\ Completed(Abandoned(u)) \in JobRows
        BY RowFacts, RowTypes DEF Abandoned
      <4>2. Abandoned(u)' = Completed(Abandoned(u)) /\ Deletion(u)' = Deletion(u)
        BY <1>2, <3>1, <4>1
      <4> QED
        BY <4>1, <4>2, RowFacts DEF Abandoned, Deletion
    <3> QED
      BY <1>3, <1>12, <3>1 DEF ReleaseReservation, Abandoned
  <2>3. UploadSound(u)'
    BY <2>1, <2>2 DEF UploadSound, RequestSound, RowsSound, FileSound, Putting
  <2> QED
    BY <2>1, <2>2, <2>3 DEF Step, Progress, Put, Putting
<1> QED
  BY <1>6, <1>7, <1>8, <1>9, <1>10, <1>11, <1>12 DEF Request

\* A step that writes one row and nothing else that the invariant reads: the
\* row stays open, or closes over a file that is gone.
LEMMA RowStep ==
  ASSUME Journals, NEW k \in Kinds, NEW u \in Uploads, NEW row \in JobRows,
         SetJob(k, u, row), UNCHANGED <<stage, file, asset>>,
         Open(job[k][u]), k = "ABANDONED_UPLOAD" => Put(u),
         job[k][u].attempts <= row.attempts,
         Open(row) \/ (row.status = "COMPLETED" /\ file[u] = "ABSENT"),
         NEW v \in Uploads
  PROVE  Step(v)
<1> USE DEF Journals
<1>1. CASE v # u
  BY <1>1, RowAssigned, Untouched DEF TypeOK
<1> SUFFICES Step(u)
  BY <1>1
<1>2. job'[k][u] = row /\ \A l \in Kinds : l # k => job'[l][u] = job[l][u]
  BY RowAssigned DEF TypeOK
<1>3. row.status # "NONE" /\ job[k][u].status # "NONE"
  BY DEF Open
<1>4. \A l \in Kinds : job[l][u].status # "NONE" =>
        job'[l][u].status # "NONE" /\ job[l][u].attempts <= job'[l][u].attempts
  BY <1>2, <1>3, RowFacts
<1>5. FileSound(u)'
  <2>1. CASE Open(row)
    BY <1>2, <2>1 DEF UploadSound, FileSound, Journalled, Open
  <2> QED
    BY <2>1 DEF FileSound
<1>6. Put(u)
  BY <1>3, RowFacts DEF UploadSound, RowsSound, Deletion, Put, Putting
<1>7. RequestSound(u)'
  BY <1>6 DEF UploadSound, RequestSound, Put, Putting
<1>8. RowsSound(u)'
  <2>1. CASE k = "ABANDONED_UPLOAD"
    BY <1>2, <2>1, RowFacts
       DEF UploadSound, RowsSound, Abandoned, Deletion, Open
  <2>2. CASE k = "DELETE_ASSET"
    BY <1>2, <1>3, <2>2, RowFacts DEF UploadSound, RowsSound, Abandoned, Deletion
  <2> QED
    BY <2>1, <2>2, RowFacts
<1> QED
  BY <1>4, <1>5, <1>6, <1>7, <1>8 DEF Step, UploadSound, Progress, Put

\* Jobs are only touched when their put has ended.
LEMMA DueIsPut ==
  ASSUME Journals, NEW u \in Uploads, Open(Abandoned(u)),
         Abandoned(u).due \/ Abandoned(u).status # "PENDING" \/ stage[u] \notin Putting
  PROVE  Put(u)
BY DEF Journals, Unstarted, UploadSound, RequestSound, Open, Put

LEMMA OwnerSteps ==
  ASSUME Journals, Erase \/ \E u \in Uploads : DeleteAsset(u), NEW v \in Uploads
  PROVE  Step(v)
<1> USE DEF Journals
<1>1. UNCHANGED <<stage, file>>
  BY DEF Erase, DeleteAsset
<1>2. Abandoned(v) \in JobRows /\ Deletion(v) \in JobRows
  BY RowFacts DEF Abandoned, Deletion
<1>3. DeleteJob.status = "PENDING" /\ DeleteJob.attempts = 0
  BY DEF DeleteJob, NoRow
<1>4. /\ Abandoned(v)'.status = Abandoned(v).status
      /\ Abandoned(v)'.due = Abandoned(v).due
      /\ Abandoned(v)'.attempts = Abandoned(v).attempts
      /\ Deletion(v)' = Deletion(v) \/ (Deletion(v).status = "NONE"
                                        /\ Deletion(v)' = DeleteJob
                                        /\ asset[v] # "NONE" /\ asset'[v] # "ACTIVE")
      /\ asset'[v] = asset[v] \/ (asset'[v] # "ACTIVE" /\ asset[v] # "NONE"
                                  /\ Deletion(v)'.status # "NONE")
  <2>1. CASE Erase
    <3>1. Abandoned(v)' = [Abandoned(v) EXCEPT !.linked = FALSE]
      BY <2>1, EraseRows
    <3>2. /\ Abandoned(v)'.status = Abandoned(v).status
          /\ Abandoned(v)'.due = Abandoned(v).due
          /\ Abandoned(v)'.attempts = Abandoned(v).attempts
      BY <1>2, <3>1 DEF JobRows
    <3>3. asset'[v] = "NONE"
      BY <2>1 DEF Erase
    <3> QED
      BY <1>3, <2>1, <3>2, <3>3, EraseRows
  <2>2. ASSUME NEW u \in Uploads, DeleteAsset(u)
        PROVE  /\ Abandoned(v)' = Abandoned(v)
               /\ Deletion(v)' = IF v = u /\ Deletion(v).status = "NONE"
                                 THEN DeleteJob ELSE Deletion(v)
               /\ asset[u] = "ACTIVE"
               /\ asset'[v] = IF v = u THEN "DELETED" ELSE asset[v]
    BY <2>2, DeleteAssetRows DEF DeleteAsset, TypeOK
  <2> QED
    BY <1>3, <2>1, <2>2
<1>5. RowsSound(v)' /\ RequestSound(v)'
  BY <1>1, <1>3, <1>4 DEF UploadSound, RequestSound, RowsSound
<1>6. FileSound(v)'
  <2>1. CASE asset[v] = "ACTIVE"
    <3>1. Deletion(v).status = "NONE"
      BY <2>1 DEF UploadSound, RowsSound
    <3> QED
      BY <1>1, <1>3, <1>4, <2>1, <3>1, RowFacts
         DEF FileSound, Journalled, Open, Deletion
  <2>2. CASE Journalled(v)
    <3>1. Open(Abandoned(v)) \/ Open(Deletion(v))
      BY <2>2, RowFacts DEF Journalled, Abandoned, Deletion
    <3>2. Open(Abandoned(v)') \/ Open(Deletion(v)')
      BY <1>3, <1>4, <3>1 DEF Open
    <3> QED
      BY <3>2, RowFacts DEF FileSound, Journalled, Open, Abandoned, Deletion
  <2> QED
    BY <1>1, <2>1, <2>2 DEF UploadSound, FileSound
<1>7. \A k \in Kinds : job[k][v].status # "NONE" =>
        job'[k][v].status # "NONE" /\ job[k][v].attempts <= job'[k][v].attempts
  BY <1>3, <1>4, RowFacts DEF Abandoned, Deletion
<1> QED
  BY <1>1, <1>5, <1>6, <1>7 DEF Step, UploadSound, Progress, Put

LEMMA TimeSteps ==
  ASSUME Journals, NEW k \in Kinds, NEW u \in Uploads,
         DelayElapses(k, u) \/ LeaseExpires(k, u), NEW v \in Uploads
  PROVE  Step(v)
<1>1. job[k][u] \in JobRows /\ job[k][u].attempts \in Nat
  BY RowFacts
<1>2. CASE DelayElapses(k, u)
  <2> DEFINE row == [job[k][u] EXCEPT !.due = TRUE]
  <2>1. row.status = "PENDING" /\ row.attempts = job[k][u].attempts
    BY <1>1, <1>2 DEF DelayElapses, JobRows
  <2>2. Open(job[k][u]) /\ Open(row)
    BY <1>2, <2>1 DEF DelayElapses, Open
  <2>3. k = "ABANDONED_UPLOAD" => Put(u)
    BY <1>2, <2>2, DueIsPut DEF Journals, DelayElapses, Abandoned
  <2>4. row \in JobRows
    BY <1>1, RowTypes
  <2>5. job[k][u].attempts <= row.attempts
    BY <1>1, <2>1
  <2>6. SetJob(k, u, row) /\ UNCHANGED <<stage, file, asset>>
    BY <1>2 DEF DelayElapses
  <2> HIDE DEF row
  <2> QED
    BY <2>1, <2>2, <2>3, <2>4, <2>5, <2>6, RowStep
<1>3. CASE LeaseExpires(k, u)
  <2> DEFINE row == [job[k][u] EXCEPT !.stale = TRUE]
  <2>1. row.status = "PROCESSING" /\ row.attempts = job[k][u].attempts
    BY <1>1, <1>3 DEF LeaseExpires, JobRows
  <2>2. Open(job[k][u]) /\ Open(row)
    BY <1>3, <2>1 DEF LeaseExpires, Open
  <2>3. k = "ABANDONED_UPLOAD" => Put(u)
    BY <1>3, <2>2, DueIsPut DEF Journals, LeaseExpires, Abandoned
  <2>4. row \in JobRows
    BY <1>1, RowTypes
  <2>5. job[k][u].attempts <= row.attempts
    BY <1>1, <2>1
  <2>6. SetJob(k, u, row) /\ UNCHANGED <<stage, file, asset>>
    BY <1>3 DEF LeaseExpires
  <2> HIDE DEF row
  <2> QED
    BY <2>1, <2>2, <2>3, <2>4, <2>5, <2>6, RowStep
<1> QED
  BY <1>2, <1>3

\* claimRecoveryJob counts the claim.
LEMMA ClaimFacts ==
  ASSUME Journals, NEW p \in Processes, NEW k \in Kinds, NEW u \in Uploads,
         Claim(p, k, u)
  PROVE  \E row \in JobRows :
           /\ SetJob(k, u, row)
           /\ row.status = "PROCESSING"
           /\ row.attempts = job[k][u].attempts + 1
           /\ Open(job[k][u])
           /\ Put(u)
           /\ worker' = [worker EXCEPT ![p] = [step |-> "DELETE", kind |-> k,
                                               upload |-> u, attempt |-> row.attempts]]
<1> DEFINE n == job[k][u].attempts + 1
           row == [job[k][u] EXCEPT !.status = "PROCESSING", !.attempts = n,
                                    !.stale = FALSE]
<1>1. job[k][u] \in JobRows /\ job[k][u].attempts \in Nat
  BY RowFacts
<1>2. n \in 1..MaxAttempts
  BY <1>1, BoundsAssumption DEF Claim
<1>3. row \in JobRows
  BY <1>1, <1>2, ClaimedRow
<1>4. row.status = "PROCESSING" /\ row.attempts = n
  BY <1>1 DEF JobRows
<1>5. Open(job[k][u])
  BY DEF Claim, Claimable, Open
<1>6. Put(u)
  <2>1. CASE k = "ABANDONED_UPLOAD"
    BY <1>5, <2>1, DueIsPut DEF Claim, Claimable, Abandoned
  <2>2. CASE k = "DELETE_ASSET"
    BY <1>5, <2>2
       DEF Journals, UploadSound, RowsSound, Deletion, Open, Put, Putting
  <2> QED
    BY <2>1, <2>2, RowFacts
<1>7. SetJob(k, u, row)
  BY DEF Claim
<1>8. worker' = [worker EXCEPT ![p] = [step |-> "DELETE", kind |-> k,
                                       upload |-> u, attempt |-> row.attempts]]
  BY <1>4 DEF Claim
<1> HIDE DEF row
<1> QED
  BY <1>3, <1>4, <1>5, <1>6, <1>7, <1>8

LEMMA WorkerSteps ==
  ASSUME Journals, NEW p \in Processes,
         Recover(p) \/ Crash(p) \/ \E k \in Kinds, u \in Uploads : Claim(p, k, u),
         NEW v \in Uploads
  PROVE  Step(v)
<1> USE DEF Journals
<1>1. ASSUME NEW k \in Kinds, NEW u \in Uploads, Claim(p, k, u) PROVE Step(v)
  <2>1. PICK row \in JobRows :
          /\ SetJob(k, u, row)
          /\ row.status = "PROCESSING"
          /\ row.attempts = job[k][u].attempts + 1
          /\ Open(job[k][u])
          /\ Put(u)
    BY <1>1, ClaimFacts
  <2>2. Open(row) /\ job[k][u].attempts <= row.attempts
    BY <2>1, RowFacts DEF Open
  <2>3. UNCHANGED <<stage, file, asset>>
    BY <1>1 DEF Claim
  <2> QED
    BY <2>1, <2>2, <2>3, RowStep
<1>2. CASE WorkerDeletes(p)
  <2>1. worker[p] # Idle
    BY <1>2, BusyWorker DEF WorkerDeletes
  <2>2. worker[p].upload \in Uploads /\ Put(worker[p].upload)
    BY <2>1, WorkerTypes DEF WorkerSound
  <2>3. UNCHANGED <<asset, job, stage>>
    BY <1>2 DEF WorkerDeletes
  <2>4. file'[v] = file[v] \/ (v = worker[p].upload /\ file'[v] = "ABSENT")
    BY <1>2, <2>2 DEF TypeOK, WorkerDeletes, Unlinked, UnlinkFails
  <2>5. CASE file'[v] = file[v]
    BY <2>3, <2>5, Untouched
  <2>6. CASE v = worker[p].upload /\ file'[v] = "ABSENT"
    <3>1. UploadSound(v)'
      BY <2>2, <2>3, <2>6
         DEF UploadSound, RequestSound, RowsSound, FileSound, Put, Putting,
             Abandoned, Deletion
    <3> QED
      BY <2>2, <2>3, <2>6, <3>1, RowFacts DEF Step, Progress, Put
  <2> QED
    BY <2>4, <2>5, <2>6
<1>3. CASE WorkerJournals(p)
  <2> DEFINE w == worker[p]
             old == job[w.kind][w.upload]
  <2>1. w # Idle
    BY <1>3, BusyWorker DEF WorkerJournals
  <2>2. w.kind \in Kinds /\ w.upload \in Uploads /\ Put(w.upload) /\ old \in JobRows
    BY <2>1, WorkerTypes DEF WorkerSound
  <2>3. UNCHANGED <<stage, file, asset>>
    BY <1>3 DEF WorkerJournals
  <2>4. CASE UNCHANGED job
    BY <2>3, <2>4, Untouched
  <2>5. CASE /\ Fenced(w) /\ w.step = "COMPLETE"
             /\ SetJob(w.kind, w.upload, Completed(old))
    <3>1. file[w.upload] = "ABSENT" /\ Open(old)
      BY <2>1, <2>5 DEF WorkerSound, Fenced, Open
    <3>2. /\ Completed(old) \in JobRows
          /\ Completed(old).status = "COMPLETED"
      BY <2>2, RowTypes, RowFacts
    <3>3. old.attempts <= Completed(old).attempts
      BY <2>2, RowFacts
    <3> QED
      BY <2>2, <2>3, <2>5, <3>1, <3>2, <3>3, RowStep
  <2>6. CASE Fenced(w) /\ SetJob(w.kind, w.upload, Retried(old))
    <3>1. Open(old)
      BY <2>6 DEF Fenced, Open
    <3>2. /\ Retried(old) \in JobRows
          /\ Open(Retried(old))
      BY <2>2, RowTypes, RowFacts DEF Open
    <3>3. old.attempts <= Retried(old).attempts
      BY <2>2, RowFacts
    <3> QED
      BY <2>2, <2>3, <2>6, <3>1, <3>2, <3>3, RowStep
  <2> QED
    BY <1>3, <2>4, <2>5, <2>6 DEF WorkerJournals
<1>4. CASE Crash(p)
  <2>1. UNCHANGED <<asset, job, file>>
    BY <1>4 DEF Crash
  <2>2. stage'[v] = stage[v] \/ (stage[v] \in Running /\ stage'[v] = "FAILED")
    BY <1>4 DEF TypeOK, Crash
  <2>3. CASE stage'[v] = stage[v]
    BY <2>1, <2>3, Untouched
  <2>4. CASE stage[v] \in Running /\ stage'[v] = "FAILED"
    <3>1. FileSound(v)'
      BY <2>1 DEF UploadSound, FileSound, Journalled
    <3>2. RequestSound(v)' /\ RowsSound(v)'
      BY <2>1, <2>4
         DEF UploadSound, RequestSound, RowsSound, Putting, Abandoned, Deletion
    <3> QED
      BY <2>1, <2>4, <3>1, <3>2, RowFacts
         DEF Step, UploadSound, Progress, Put, Putting
  <2> QED
    BY <2>2, <2>3, <2>4
<1> QED
  BY <1>1, <1>2, <1>3, <1>4 DEF Recover

LEMMA Steps ==
  ASSUME Journals, [Next]_vars, NEW v \in Uploads
  PROVE  Step(v)
<1>1. CASE UNCHANGED vars
  BY <1>1, Untouched DEF vars
<1> QED
  BY <1>1, RequestSteps, OwnerSteps, TimeSteps, WorkerSteps DEF Next

LEMMA WorkersSound ==
  ASSUME Journals, [Next]_vars, NEW p \in Processes
  PROVE  WorkerSound(p)'
<1> USE DEF Journals
<1>1. CASE worker'[p] = worker[p]
  <2> SUFFICES ASSUME worker[p] # Idle PROVE WorkerSound(p)'
    BY <1>1 DEF WorkerSound
  <2> DEFINE w == worker[p]
  <2>1. w.kind \in Kinds /\ w.upload \in Uploads /\ w.attempt \in Nat
    BY WorkerTypes
  <2>2. /\ Put(w.upload)
        /\ job[w.kind][w.upload].status # "NONE"
        /\ w.step = "COMPLETE" => file[w.upload] = "ABSENT"
        /\ w.attempt <= job[w.kind][w.upload].attempts
    BY DEF WorkerSound
  <2>3. /\ Put(w.upload)'
        /\ file[w.upload] = "ABSENT" => file'[w.upload] = "ABSENT"
        /\ job'[w.kind][w.upload].status # "NONE"
        /\ job[w.kind][w.upload].attempts <= job'[w.kind][w.upload].attempts
    <3>1. Progress(w.upload)
      BY <2>1, Steps DEF Step
    <3> QED
      BY <2>1, <2>2, <3>1 DEF Progress, Put
  <2>4. /\ job[w.kind][w.upload].attempts \in Nat
        /\ job'[w.kind][w.upload].attempts \in Nat
    <3>1. TypeOK'
      BY NextTypes
    <3> QED
      BY <2>1, <3>1, BoundsAssumption, RowFacts DEF TypeOK, JobRows
  <2>5. w.attempt <= job'[w.kind][w.upload].attempts
    BY <2>1, <2>2, <2>3, <2>4
  <2> QED
    BY <1>1, <2>2, <2>3, <2>5 DEF WorkerSound, Put
<1>2. CASE worker'[p] = Idle
  BY <1>2 DEF WorkerSound
<1>3. ASSUME NEW q \in Processes, NEW k \in Kinds, NEW u \in Uploads, Claim(q, k, u)
      PROVE  WorkerSound(p)'
  <2>1. PICK row \in JobRows :
          /\ SetJob(k, u, row)
          /\ row.status = "PROCESSING"
          /\ row.attempts = job[k][u].attempts + 1
          /\ Put(u)
          /\ worker' = [worker EXCEPT ![q] = [step |-> "DELETE", kind |-> k,
                                              upload |-> u, attempt |-> row.attempts]]
    BY <1>3, ClaimFacts
  <2>2. CASE q # p
    BY <1>1, <2>1, <2>2 DEF TypeOK
  <2>3. CASE q = p
    <3>1. worker'[p] = [step |-> "DELETE", kind |-> k, upload |-> u,
                        attempt |-> row.attempts]
      BY <2>1, <2>3 DEF TypeOK
    <3>2. job'[k][u] = row /\ Put(u)'
      BY <1>3, <2>1, RowAssigned DEF TypeOK, Claim, Put
    <3>3. row.attempts <= row.attempts
      BY <2>1, RowFacts
    <3> QED
      BY <2>1, <3>1, <3>2, <3>3 DEF WorkerSound, Put
  <2> QED
    BY <2>2, <2>3
<1>4. ASSUME NEW q \in Processes, WorkerDeletes(q) PROVE WorkerSound(p)'
  <2>1. CASE q # p
    BY <1>1, <1>4, <2>1 DEF TypeOK, WorkerDeletes
  <2>2. CASE q = p
    <3>1. worker[p] # Idle /\ worker[p].upload \in Uploads
      BY <1>4, <2>2, BusyWorker, WorkerTypes DEF WorkerDeletes
    <3>2. \/ /\ worker'[p] = [worker[p] EXCEPT !.step = "COMPLETE"]
             /\ file'[worker[p].upload] = "ABSENT"
          \/ worker'[p] = [worker[p] EXCEPT !.step = "RETRY"]
      BY <1>4, <2>2, <3>1 DEF TypeOK, WorkerDeletes, Unlinked
    <3>3. /\ worker'[p].kind = worker[p].kind
          /\ worker'[p].upload = worker[p].upload
          /\ worker'[p].attempt = worker[p].attempt
          /\ worker'[p].step = "COMPLETE" => file'[worker[p].upload] = "ABSENT"
      BY <3>1, <3>2 DEF TypeOK, WorkerStates
    <3> QED
      BY <1>4, <3>1, <3>3 DEF WorkerSound, WorkerDeletes, Put
  <2> QED
    BY <2>1, <2>2
<1>5. ASSUME NEW q \in Processes, WorkerJournals(q) \/ Crash(q) PROVE WorkerSound(p)'
  BY <1>1, <1>2, <1>5 DEF TypeOK, WorkerJournals, Crash
<1>6. CASE UNCHANGED worker
  BY <1>1, <1>6
<1> QED
  BY <1>3, <1>4, <1>5, <1>6
     DEF Next, vars, Request, Recover, Prepare, PutBegins, PutEnds, PutFails, Commit,
         DeleteRefused, ReleaseReservation, DeleteAsset, Erase, DelayElapses,
         LeaseExpires

LEMMA JournalsKept == Journals /\ [Next]_vars => Journals'
<1> SUFFICES ASSUME Journals, [Next]_vars PROVE Journals'
  OBVIOUS
<1>1. TypeOK' /\ Unstarted'
  BY NextTypes, UnstartedKept DEF Journals
<1>2. \A u \in Uploads : UploadSound(u)'
  BY Steps DEF Step
<1>3. \A p \in Processes : WorkerSound(p)'
  BY WorkersSound
<1> QED
  BY <1>1, <1>2, <1>3 DEF Journals

LEMMA InitJournals == PutWithinDelay /\ Init => Journals
<1> SUFFICES ASSUME PutWithinDelay, Init PROVE Journals
  OBVIOUS
<1>1. TypeOK /\ Unstarted
  BY InitUnstarted
<1>2. \A u \in Uploads : UploadSound(u)
  BY DEF Init, UploadSound, RequestSound, RowsSound, FileSound, Putting, Deletion,
         Kinds, NoRow
<1>3. \A p \in Processes : WorkerSound(p)
  BY DEF Init, WorkerSound
<1> QED
  BY <1>1, <1>2, <1>3 DEF Journals

LEMMA JournalsInvariant == PutWithinDelay /\ Spec => []Journals
BY InitJournals, JournalsKept, PTL DEF Spec

\* Whatever crashes, fails or is lost, every file on the disk belongs to an
\* image that its owner can see or to a job that will remove it, as long as a
\* put ends before its reservation becomes due.
THEOREM NothingIsOrphaned == PutWithinDelay /\ Spec => []BlobIsJournalled
<1>1. Journals => BlobIsJournalled
  BY DEF Journals, UploadSound, FileSound, BlobIsJournalled, Active
<1> QED
  BY <1>1, JournalsInvariant, PTL
-----------------------------------------------------------------------------
(* An image that its owner can see has its file *)

Handles(p, u) ==
  worker[p] # Idle /\ worker[p].kind = "ABANDONED_UPLOAD" /\ worker[p].upload = u

\* As long as an upload was claimed at most once: it is processed by the one
\* worker that claimed it, and may be committed while its file is there.
ClaimedOnceSound(u) ==
  /\ \A p \in Processes : Handles(p, u) => Abandoned(u).status = "PROCESSING"
  /\ \A p, q \in Processes : Handles(p, u) /\ Handles(q, u) => p = q
  /\ stage[u] = "WRITTEN" /\ Abandoned(u).status = "PENDING" => file[u] = "COMPLETE"
  /\ \A p \in Processes :
       Handles(p, u) /\ worker[p].step # "COMPLETE" /\ stage[u] = "WRITTEN"
         => file[u] = "COMPLETE"
  /\ asset[u] = "ACTIVE" => file[u] = "COMPLETE"

ClaimsSound(u) ==
  /\ Abandoned(u).status = "PROCESSING" => Abandoned(u).attempts >= 1
  /\ Abandoned(u).attempts <= 1 => ClaimedOnceSound(u)

Claims == \A u \in Uploads : ClaimsSound(u)

\* Steps that do not touch status and attempts, and take the file only from an
\* upload that is neither written nor visible.
LEMMA ClaimsUntouched ==
  ASSUME NEW v \in Uploads, ClaimsSound(v),
         Abandoned(v)'.status = Abandoned(v).status,
         Abandoned(v)'.attempts = Abandoned(v).attempts,
         \A p \in Processes : Handles(p, v)' =>
           /\ Handles(p, v)
           /\ worker'[p].step # "COMPLETE" => worker[p].step # "COMPLETE",
         stage'[v] = "WRITTEN" => stage[v] = "WRITTEN" /\ file'[v] = file[v],
         asset'[v] = "ACTIVE" => asset[v] = "ACTIVE" /\ file'[v] = file[v]
  PROVE  ClaimsSound(v)'
BY DEF ClaimsSound, ClaimedOnceSound

LEMMA ClaimsRequest ==
  ASSUME Journals, Claims, NEW u \in Uploads, Request(u), NEW v \in Uploads
  PROVE  ClaimsSound(v)'
<1> USE DEF Journals
<1>1. UNCHANGED worker /\ \A p \in Processes : Handles(p, v)' <=> Handles(p, v)
  BY DEF Request, Prepare, PutBegins, PutEnds, PutFails, Commit, DeleteRefused,
         ReleaseReservation, Handles
<1>2. ClaimsSound(v) /\ UploadSound(v)
  BY DEF Claims
<1>3. CASE v # u
  <2>1. stage'[v] = stage[v] /\ file'[v] = file[v] /\ asset'[v] = asset[v]
    BY <1>3 DEF TypeOK, Request, Prepare, PutBegins, PutEnds, PutFails, Commit,
                DeleteRefused, ReleaseReservation, GoTo, Unlinked, UnlinkFails
  <2>2. Abandoned(v)' = Abandoned(v)
    BY <1>3 DEF TypeOK, Request, Prepare, PutBegins, PutEnds, PutFails, Commit,
                DeleteRefused, ReleaseReservation, SetJob, Kinds, Abandoned
  <2> QED
    BY <1>1, <1>2, <2>1, <2>2, ClaimsUntouched
<1>4. CASE v = u /\ UNCHANGED job /\ stage'[u] # "WRITTEN" /\ asset'[u] # "ACTIVE"
  BY <1>1, <1>2, <1>4, ClaimsUntouched DEF Abandoned
<1>5. ASSUME NEW row \in JobRows, SetJob("ABANDONED_UPLOAD", u, row)
      PROVE  Abandoned(u)' = row
  BY <1>5, RowAssigned, RowFacts DEF TypeOK, Abandoned
<1>6. CASE v = u /\ Prepare(u)
  <2>1. stage[u] = "IDLE" /\ stage'[u] # "WRITTEN" /\ asset'[u] = "NONE"
    BY <1>2, <1>6 DEF TypeOK, Prepare, GoTo, UploadSound, RowsSound
  <2>2. CASE SetJob("ABANDONED_UPLOAD", u, UploadJob)
    <3>1. Abandoned(u)' = UploadJob
      BY <1>5, <2>2, RowTypes
    <3>2. UploadJob.status = "PENDING"
      BY DEF UploadJob, NoRow
    <3>3. \A p \in Processes : ~Handles(p, u)
      BY <2>1 DEF Handles, WorkerSound, Put
    <3> QED
      BY <1>1, <1>6, <2>1, <3>1, <3>2, <3>3 DEF ClaimsSound, ClaimedOnceSound
  <2> QED
    BY <1>4, <1>6, <2>1, <2>2 DEF Prepare
<1>7. CASE v = u /\ (PutBegins(u) \/ PutFails(u) \/ DeleteRefused(u))
  <2>1. UNCHANGED job /\ stage'[u] # "WRITTEN"
    BY <1>7 DEF TypeOK, PutBegins, PutFails, DeleteRefused, GoTo
  <2>2. asset'[u] = "NONE"
    BY <1>2, <1>7
       DEF TypeOK, PutBegins, PutFails, DeleteRefused, UploadSound, RowsSound
  <2> QED
    BY <1>4, <1>7, <2>1, <2>2
<1>8. CASE v = u /\ PutEnds(u)
  <2>1. /\ stage[u] = "WRITING" /\ asset'[u] = "NONE" /\ Abandoned(u)' = Abandoned(u)
        /\ Abandoned(u).status = "PENDING"
    BY <1>2, <1>8
       DEF PutEnds, UploadSound, RequestSound, RowsSound, Abandoned, Putting
  <2>2. file'[u] = "COMPLETE"
    BY <1>2, <1>8, <2>1 DEF TypeOK, PutEnds, UploadSound, RequestSound
  <2>3. \A p \in Processes : ~Handles(p, u)
    BY <2>1 DEF Handles, WorkerSound, Put, Putting
  <2> QED
    BY <1>1, <1>8, <2>1, <2>2, <2>3 DEF ClaimsSound, ClaimedOnceSound
<1>9. ASSUME v = u, Abandoned(u).status = "PENDING",
             SetJob("ABANDONED_UPLOAD", u, Completed(Abandoned(u))),
             stage'[u] # "WRITTEN", file'[u] = file[u],
             asset'[u] = "ACTIVE" => stage[u] = "WRITTEN"
      PROVE  ClaimsSound(v)'
  <2>1. Abandoned(u) \in JobRows
    BY RowFacts DEF Abandoned
  <2>2. Abandoned(u)' = Completed(Abandoned(u))
    BY <1>5, <1>9, <2>1, RowTypes
  <2>3. /\ Abandoned(u)'.status = "COMPLETED"
        /\ Abandoned(u)'.attempts = Abandoned(u).attempts
    BY <2>1, <2>2, RowFacts
  <2>4. Abandoned(u).attempts <= 1 => \A p \in Processes : ~Handles(p, u)
    BY <1>2, <1>9 DEF ClaimsSound, ClaimedOnceSound
  <2> QED
    BY <1>1, <1>2, <1>9, <2>3, <2>4 DEF ClaimsSound, ClaimedOnceSound
<1>10. CASE v = u /\ Commit(u)
  <2>1. stage[u] = "WRITTEN" /\ stage'[u] # "WRITTEN" /\ file'[u] = file[u]
    BY <1>10 DEF TypeOK, Commit, GoTo
  <2>2. CASE UNCHANGED <<asset, job>>
    BY <1>2, <1>4, <1>10, <2>1, <2>2 DEF UploadSound, RowsSound
  <2>3. CASE Commits(u) /\ SetJob("ABANDONED_UPLOAD", u, Completed(Abandoned(u)))
    BY <1>9, <1>10, <2>1, <2>3 DEF Commits, Abandoned
  <2> QED
    BY <1>10, <2>2, <2>3 DEF Commit, Abandoned
<1>11. CASE v = u /\ ReleaseReservation(u)
  <2>1. stage'[u] # "WRITTEN" /\ file'[u] = file[u] /\ asset'[u] = "NONE"
    BY <1>2, <1>11 DEF TypeOK, ReleaseReservation, GoTo, UploadSound, RowsSound
  <2>2. CASE UNCHANGED job
    BY <1>4, <1>11, <2>1, <2>2
  <2>3. CASE /\ Abandoned(u).status = "PENDING"
             /\ SetJob("ABANDONED_UPLOAD", u, Completed(Abandoned(u)))
    BY <1>9, <1>11, <2>1, <2>3
  <2> QED
    BY <1>11, <2>2, <2>3 DEF ReleaseReservation, Abandoned
<1> QED
  BY <1>3, <1>6, <1>7, <1>8, <1>10, <1>11 DEF Request

LEMMA ClaimsOwner ==
  ASSUME Journals, Claims, Erase \/ \E u \in Uploads : DeleteAsset(u), NEW v \in Uploads
  PROVE  ClaimsSound(v)'
<1> USE DEF Journals
<1>1. ClaimsSound(v) /\ Abandoned(v) \in JobRows
  BY RowFacts DEF Claims, Abandoned
<1>2. UNCHANGED <<stage, file, worker>>
  BY DEF Erase, DeleteAsset
<1>3. /\ Abandoned(v)'.status = Abandoned(v).status
      /\ Abandoned(v)'.attempts = Abandoned(v).attempts
  <2>1. CASE Erase
    <3>1. Abandoned(v)' = [Abandoned(v) EXCEPT !.linked = FALSE]
      BY <2>1, EraseRows
    <3> QED
      BY <1>1, <3>1 DEF JobRows
  <2> QED
    BY <2>1, DeleteAssetRows
<1>4. asset'[v] = "ACTIVE" => asset[v] = "ACTIVE"
  BY DEF TypeOK, Erase, DeleteAsset
<1>5. \A p \in Processes : Handles(p, v)' <=> Handles(p, v)
  BY <1>2 DEF Handles
<1> QED
  BY <1>1, <1>2, <1>3, <1>4, <1>5, ClaimsUntouched

LEMMA ClaimsTime ==
  ASSUME Journals, Claims, NEW k \in Kinds, NEW u \in Uploads,
         DelayElapses(k, u) \/ LeaseExpires(k, u), NEW v \in Uploads
  PROVE  ClaimsSound(v)'
<1> USE DEF Journals
<1>1. ClaimsSound(v) /\ job[k][u] \in JobRows
  BY RowFacts DEF Claims
<1>2. UNCHANGED <<stage, file, asset, worker>>
  BY DEF DelayElapses, LeaseExpires
<1>3. PICK row \in JobRows : /\ SetJob(k, u, row)
                             /\ row.status = job[k][u].status
                             /\ row.attempts = job[k][u].attempts
  <2> DEFINE due == [job[k][u] EXCEPT !.due = TRUE]
             stale == [job[k][u] EXCEPT !.stale = TRUE]
  <2>1. /\ due.status = job[k][u].status /\ due.attempts = job[k][u].attempts
        /\ stale.status = job[k][u].status /\ stale.attempts = job[k][u].attempts
    BY <1>1 DEF JobRows
  <2>2. due \in JobRows /\ stale \in JobRows
    BY <1>1, RowTypes
  <2>3. SetJob(k, u, due) \/ SetJob(k, u, stale)
    BY DEF DelayElapses, LeaseExpires
  <2> HIDE DEF due, stale
  <2> QED
    BY <2>1, <2>2, <2>3
<1>4. /\ Abandoned(v)'.status = Abandoned(v).status
      /\ Abandoned(v)'.attempts = Abandoned(v).attempts
  <2>1. job'[k][u] = row
    BY <1>3, RowAssigned DEF TypeOK
  <2>2. k # "ABANDONED_UPLOAD" \/ u # v => Abandoned(v)' = Abandoned(v)
    BY <1>3, RowAssigned, RowFacts DEF TypeOK, Abandoned
  <2> QED
    BY <1>3, <2>1, <2>2 DEF Abandoned
<1>5. \A p \in Processes : Handles(p, v)' <=> Handles(p, v)
  BY <1>2 DEF Handles
<1> QED
  BY <1>1, <1>2, <1>4, <1>5, ClaimsUntouched

LEMMA ClaimsClaim ==
  ASSUME Journals, Claims, NEW p \in Processes, NEW k \in Kinds, NEW u \in Uploads,
         Claim(p, k, u), NEW v \in Uploads
  PROVE  ClaimsSound(v)'
<1> USE DEF Journals
<1>1. PICK row \in JobRows :
        /\ SetJob(k, u, row)
        /\ row.status = "PROCESSING"
        /\ row.attempts = job[k][u].attempts + 1
        /\ Open(job[k][u])
        /\ worker' = [worker EXCEPT ![p] = [step |-> "DELETE", kind |-> k,
                                            upload |-> u, attempt |-> row.attempts]]
  BY ClaimFacts
<1>2. ClaimsSound(v) /\ UNCHANGED <<stage, file, asset>>
  BY DEF Claims, Claim
<1>3. worker[p] = Idle
  BY DEF Claim
<1>4. \A q \in Processes :
        Handles(q, v)' => \/ Handles(q, v) /\ worker'[q] = worker[q]
                          \/ q = p /\ k = "ABANDONED_UPLOAD" /\ u = v
  BY <1>1 DEF TypeOK, Handles
<1>5. CASE k # "ABANDONED_UPLOAD" \/ u # v
  <2>1. Abandoned(v)' = Abandoned(v)
    BY <1>1, <1>5, RowAssigned, RowFacts DEF TypeOK, Abandoned
  <2> QED
    BY <1>2, <1>4, <1>5, <2>1, ClaimsUntouched
<1>6. CASE k = "ABANDONED_UPLOAD" /\ u = v
  <2>1. /\ Abandoned(v)' = row /\ Open(Abandoned(v))
        /\ row.attempts = Abandoned(v).attempts + 1
        /\ Abandoned(v).attempts \in Nat
    BY <1>1, <1>6, RowAssigned, RowFacts DEF TypeOK, Abandoned
  <2>2. asset[v] # "ACTIVE"
    BY <2>1 DEF UploadSound, RowsSound, Open
  <2>3. SUFFICES ASSUME row.attempts <= 1 PROVE ClaimedOnceSound(v)'
    BY <1>1, <2>1 DEF ClaimsSound
  <2>4. Abandoned(v).attempts = 0
    BY <2>1, <2>3
  <2>5. Abandoned(v).status = "PENDING" /\ ClaimedOnceSound(v)
    BY <1>2, <2>1, <2>4 DEF ClaimsSound, Open
  <2>6. \A q \in Processes : Handles(q, v)' => q = p
    BY <1>4, <2>5 DEF ClaimedOnceSound
  <2>7. stage[v] = "WRITTEN" => file[v] = "COMPLETE"
    BY <2>5 DEF ClaimedOnceSound
  <2> QED
    BY <1>1, <1>2, <2>1, <2>2, <2>6, <2>7 DEF ClaimedOnceSound
<1> QED
  BY <1>5, <1>6

LEMMA ClaimsWorker ==
  ASSUME Journals, Claims, NEW p \in Processes, Recover(p) \/ Crash(p),
         NEW v \in Uploads
  PROVE  ClaimsSound(v)'
<1> USE DEF Journals
<1>1. ClaimsSound(v) /\ UploadSound(v)
  BY DEF Claims
<1>2. \A q \in Processes \ {p} : worker'[q] = worker[q]
  BY DEF TypeOK, Recover, WorkerDeletes, WorkerJournals, Crash
<1>3. UNCHANGED asset
  BY DEF Recover, WorkerDeletes, WorkerJournals, Crash
<1>4. CASE Crash(p)
  <2>1. \A q \in Processes : Handles(q, v)' => Handles(q, v) /\ worker'[q] = worker[q]
    BY <1>2, <1>4 DEF TypeOK, Crash, Handles
  <2>2. stage'[v] = "WRITTEN" => stage[v] = "WRITTEN"
    BY <1>4 DEF Crash
  <2>3. file'[v] = file[v] /\ Abandoned(v)' = Abandoned(v)
    BY <1>4 DEF Crash, Abandoned
  <2> QED
    BY <1>1, <1>3, <2>1, <2>2, <2>3, ClaimsUntouched
<1>5. CASE WorkerDeletes(p)
  <2> DEFINE u == worker[p].upload
  <2>1. worker[p] # Idle
    BY <1>5, BusyWorker DEF WorkerDeletes
  <2>2. /\ u \in Uploads /\ worker[p].kind \in Kinds
        /\ job[worker[p].kind][u].status # "NONE"
    BY <2>1, WorkerTypes DEF WorkerSound
  <2>3. /\ worker[p].step = "DELETE"
        /\ UNCHANGED <<job, stage>> /\ Abandoned(v)' = Abandoned(v)
    BY <1>5 DEF WorkerDeletes, Abandoned
  <2>4. /\ worker'[p].step \in {"COMPLETE", "RETRY"}
        /\ worker'[p].kind = worker[p].kind /\ worker'[p].upload = u
        /\ worker'[p].step = "RETRY" => UNCHANGED file
    <3> DEFINE complete == [worker[p] EXCEPT !.step = "COMPLETE"]
               retry == [worker[p] EXCEPT !.step = "RETRY"]
    <3>1. worker'[p] = complete \/ (worker'[p] = retry /\ UNCHANGED file)
      BY <1>5 DEF TypeOK, WorkerDeletes, UnlinkFails
    <3>2. /\ complete.step = "COMPLETE" /\ complete.kind = worker[p].kind
          /\ complete.upload = u
          /\ retry.step = "RETRY" /\ retry.kind = worker[p].kind
          /\ retry.upload = u
      BY <2>1 DEF TypeOK, WorkerStates
    <3> HIDE DEF complete, retry
    <3> QED
      BY <3>1, <3>2
  <2>5. \A q \in Processes : Handles(q, v)' =>
          Handles(q, v) /\ (worker'[q].step # "COMPLETE" => worker[q].step # "COMPLETE")
    BY <1>2, <2>1, <2>3, <2>4 DEF Handles
  <2>6. v # u => file'[v] = file[v]
    BY <1>5, <2>2 DEF TypeOK, WorkerDeletes, Unlinked, UnlinkFails
  <2>7. CASE file'[v] = file[v]
    BY <1>1, <1>3, <2>3, <2>5, <2>7, ClaimsUntouched
  <2>8. CASE v = u /\ worker'[p].step = "COMPLETE" /\ worker[p].kind = "DELETE_ASSET"
    <3>1. asset[v] # "ACTIVE" /\ stage[v] # "WRITTEN"
      BY <1>1, <2>2, <2>8 DEF UploadSound, RowsSound, Deletion
    <3> QED
      BY <1>1, <1>3, <2>3, <2>5, <3>1, ClaimsUntouched
  <2>9. CASE v = u /\ worker'[p].step = "COMPLETE" /\ worker[p].kind = "ABANDONED_UPLOAD"
    <3>1. Handles(p, v)
      BY <2>1, <2>9 DEF Handles
    <3>2. SUFFICES ASSUME Abandoned(v).attempts <= 1 PROVE ClaimedOnceSound(v)'
      BY <1>1, <2>3 DEF ClaimsSound
    <3>3. ClaimedOnceSound(v) /\ Abandoned(v).status = "PROCESSING"
      BY <1>1, <3>1, <3>2 DEF ClaimsSound, ClaimedOnceSound
    <3>4. asset[v] # "ACTIVE"
      BY <1>1, <3>3 DEF UploadSound, RowsSound
    <3>5. \A q \in Processes : Handles(q, v)' => q = p
      BY <2>5, <3>1, <3>3 DEF ClaimedOnceSound
    <3> QED
      BY <1>3, <2>3, <2>5, <2>9, <3>3, <3>4, <3>5 DEF ClaimedOnceSound
  <2> QED
    BY <2>2, <2>4, <2>6, <2>7, <2>8, <2>9, RowFacts
<1>6. CASE WorkerJournals(p)
  <2> DEFINE w == worker[p]
             old == job[w.kind][w.upload]
  <2>1. w # Idle
    BY <1>6, BusyWorker DEF WorkerJournals
  <2>2. w.kind \in Kinds /\ w.upload \in Uploads /\ old \in JobRows
    BY <2>1, WorkerTypes
  <2>3. UNCHANGED <<stage, file>> /\ worker'[p] = Idle
    BY <1>6 DEF TypeOK, WorkerJournals
  <2>4. \A q \in Processes :
          Handles(q, v)' => q # p /\ Handles(q, v) /\ worker'[q] = worker[q]
    BY <1>2, <2>3 DEF Handles
  <2>5. CASE Abandoned(v)' = Abandoned(v)
    BY <1>1, <1>3, <2>3, <2>4, <2>5, ClaimsUntouched
  <2>6. ASSUME NEW row \in JobRows, SetJob(w.kind, w.upload, row), Fenced(w),
               row.attempts = old.attempts,
               \/ row.status = "COMPLETED"
               \/ row.status = "PENDING" /\ w.step # "COMPLETE"
        PROVE  ClaimsSound(v)'
    <3>1. CASE w.kind # "ABANDONED_UPLOAD" \/ w.upload # v
      BY <2>2, <2>5, <2>6, <3>1, RowAssigned, RowFacts DEF TypeOK, Abandoned
    <3>2. CASE w.kind = "ABANDONED_UPLOAD" /\ w.upload = v
      <4>1. Abandoned(v)' = row /\ old = Abandoned(v)
        BY <2>2, <2>6, <3>2, RowAssigned, RowFacts DEF TypeOK, Abandoned
      <4>2. Handles(p, v) /\ Abandoned(v).status = "PROCESSING"
        BY <2>1, <2>6, <3>2 DEF Handles, Fenced, Abandoned
      <4>3. asset[v] # "ACTIVE"
        BY <1>1, <4>2 DEF UploadSound, RowsSound
      <4>4. SUFFICES ASSUME Abandoned(v).attempts <= 1 PROVE ClaimedOnceSound(v)'
        BY <2>6, <4>1 DEF ClaimsSound
      <4>5. ClaimedOnceSound(v)
        BY <1>1, <4>4 DEF ClaimsSound
      <4>6. \A q \in Processes : ~Handles(q, v)'
        BY <2>4, <4>2, <4>5 DEF ClaimedOnceSound
      <4>7. row.status = "PENDING" /\ stage[v] = "WRITTEN" => file[v] = "COMPLETE"
        BY <2>6, <4>2, <4>5 DEF ClaimedOnceSound
      <4> QED
        BY <1>3, <2>3, <4>1, <4>3, <4>6, <4>7 DEF ClaimedOnceSound
    <3> QED
      BY <3>1, <3>2
  <2>7. CASE UNCHANGED job
    BY <2>5, <2>7 DEF Abandoned
  <2>8. CASE Fenced(w) /\ w.step = "COMPLETE" /\ SetJob(w.kind, w.upload, Completed(old))
    <3>1. Completed(old) \in JobRows
      BY <2>2, RowTypes
    <3>2. Completed(old).status = "COMPLETED" /\ Completed(old).attempts = old.attempts
      BY <2>2, RowFacts
    <3> QED
      BY <2>6, <2>8, <3>1, <3>2
  <2>9. CASE Fenced(w) /\ w.step = "RETRY" /\ SetJob(w.kind, w.upload, Retried(old))
    <3>1. Retried(old) \in JobRows
      BY <2>2, RowTypes
    <3>2. Retried(old).status = "PENDING" /\ Retried(old).attempts = old.attempts
      BY <2>2, RowFacts
    <3> QED
      BY <2>6, <2>9, <3>1, <3>2
  <2> QED
    BY <1>6, <2>7, <2>8, <2>9 DEF WorkerJournals
<1> QED
  BY <1>4, <1>5, <1>6 DEF Recover

LEMMA ClaimsKept == Journals /\ Claims /\ [Next]_vars => Claims'
<1> SUFFICES ASSUME Journals, Claims, [Next]_vars, NEW v \in Uploads
             PROVE  ClaimsSound(v)'
  BY DEF Claims
<1>1. CASE UNCHANGED vars
  <2>1. ClaimsSound(v)
    BY DEF Claims
  <2> QED
    BY <1>1, <2>1 DEF vars, ClaimsSound, ClaimedOnceSound, Handles, Abandoned
<1> QED
  BY <1>1, ClaimsRequest, ClaimsOwner, ClaimsTime, ClaimsClaim, ClaimsWorker DEF Next

\* An image that its owner can see has its complete file, unless its
\* reservation was claimed a second time before it was committed: the request
\* and the worker that takes it for abandoned cannot both succeed.
THEOREM VisibleImagesHaveFiles == PutWithinDelay /\ Spec => []LiveAssetHasFile
<1>1. Init => Claims
  BY DEF Init, Claims, ClaimsSound, ClaimedOnceSound, Handles, Abandoned, Kinds, NoRow
<1>2. Claims => LiveAssetHasFile
  BY DEF Claims, ClaimsSound, ClaimedOnceSound, LiveAssetHasFile, Active, Abandoned
<1> QED
  BY <1>1, <1>2, ClaimsKept, JournalsInvariant, PTL DEF Spec
=============================================================================
