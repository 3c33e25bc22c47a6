---------------------------- MODULE ServerProofs ----------------------------
(***************************************************************************)
(* Proofs about one server and several: the start, the migrations and the  *)
(* shutdown (ServerLifecycle), lookups of products that share operations   *)
(* (Discovery), and a call to a provider from its admission to its booking *)
(* (ProviderCall).                                                         *)
(***************************************************************************)
EXTENDS ServerLifecycle, Discovery, ProviderCall, FiniteSetTheorems,
        WellFoundedInduction, TLAPS

-----------------------------------------------------------------------------
(* Migrations and shutdown: any number of processes, of any versions whose *)
(* migrations agree (FilesAgree), started and killed any number of times.  *)

PhaseNames == {"DOWN", "LOCK", "CHECK", "TRANSACTION", "STARTING", "LISTEN", "SERVING", "FAILING"}

LifecycleTypeOK ==
  /\ phase \in [Servers -> PhaseNames]
  /\ position \in [Servers -> Nat \ {0}]
  /\ lockedBy \in Servers \cup {NoServer}
  /\ why \in [Servers -> {"NONE", "CHECKSUM", "CONFLICT", "STATEMENT"}]
  /\ closing \in [Servers -> {"NO", "REQUESTS", "WORKER", "QUEUE", "DONE"}]
  /\ working \in [Servers -> {"NO", "CLAIM", "JOB"}]

-----------------------------------------------------------------------------
(* Migrations.                                                             *)

Migrating(s) == phase[s] \in {"CHECK", "TRANSACTION"}
Applied(s, i) ==
  Files[s][i].name \in DOMAIN migrations /\ migrations[Files[s][i].name] = Files[s][i].checksum

\* Only the holder of the lock migrates.
LockIsHeld == \A s \in Servers : lockedBy = s <=> Migrating(s)
\* What it has come past is recorded as it has it, and what it is about to apply is not.
Progress ==
  \A s \in Servers :
    /\ Migrating(s) => \A i \in DOMAIN Files[s] : i < position[s] => Applied(s, i)
    /\ phase[s] = "LOCK" => position[s] = 1
    /\ phase[s] = "TRANSACTION" =>
         position[s] \in DOMAIN Files[s] /\ File(s).name \notin DOMAIN migrations
\* A server that was let through finds all of its migrations.
Arrived ==
  \A s \in Servers : phase[s] \in {"STARTING", "LISTEN", "SERVING"} =>
    \A i \in DOMAIN Files[s] : Applied(s, i)
\* None is recorded without those before it.
InOrder ==
  \A s \in Servers : \A i \in DOMAIN Files[s] : Files[s][i].name \in DOMAIN migrations =>
    \A k \in 1 .. i : Files[s][k].name \in DOMAIN migrations
NoConflict == \A s \in Servers : why[s] # "CONFLICT"

MigrationInv == LifecycleTypeOK /\ LockIsHeld /\ Progress /\ Arrived /\ InOrder /\ NoConflict

\* What was recorded stays, and nobody but the holder of the lock records.
Grown(s) ==
  /\ \A t \in Servers : \A i \in DOMAIN Files[t] : Applied(t, i) => Applied(t, i)'
  /\ InOrder'
  /\ migrations' = migrations \/ Migrating(s)

LEMMA OthersAreNotDisturbed ==
  ASSUME MigrationInv, LifecycleTypeOK', NEW s \in Servers, Grown(s),
         \A t \in Servers \ {s} : phase'[t] = phase[t] /\ why'[t] = why[t] /\ position'[t] = position[t],
         \A t \in Servers \ {s} : lockedBy' = t <=> lockedBy = t,
         lockedBy' = s <=> Migrating(s)',
         phase'[s] \in {"STARTING", "LISTEN", "SERVING"} => \A i \in DOMAIN Files[s] : Applied(s, i)',
         Migrating(s)' => \A i \in DOMAIN Files[s] : i < position'[s] => Applied(s, i)',
         phase'[s] = "TRANSACTION" => position'[s] \in DOMAIN Files[s] /\ File(s)'.name \notin DOMAIN migrations',
         phase'[s] = "LOCK" => position'[s] = 1,
         why'[s] # "CONFLICT"
  PROVE  MigrationInv'
<1> USE DEF MigrationInv
<1>1. LockIsHeld'
  BY DEF LockIsHeld, Migrating
<1>2. \A t \in Servers \ {s} : Migrating(t) => migrations' = migrations
  BY DEF Grown, LockIsHeld
<1>3. Progress'
  BY <1>2 DEF Grown, Progress, Migrating, File
<1>4. Arrived' /\ NoConflict'
  BY DEF Arrived, NoConflict, Grown
<1> QED BY <1>1, <1>3, <1>4 DEF Grown

LEMMA NothingRecorded ==
  ASSUME MigrationInv, NEW s \in Servers, UNCHANGED migrations
  PROVE  Grown(s)
BY DEF Grown, MigrationInv, InOrder, Applied

\* The migration of s at its position is recorded.
LEMMA RecordingSteps ==
  ASSUME MigrationInv, NEW s \in Servers, phase[s] = "TRANSACTION", migrations' = Recorded(s)
  PROVE  /\ Grown(s)
         /\ \A i \in DOMAIN Files[s] : i < position[s] + 1 => Applied(s, i)'
<1>1. position[s] \in DOMAIN Files[s] /\ File(s).name \notin DOMAIN migrations
      /\ File(s) = Files[s][position[s]] /\ position[s] \in Nat
  BY DEF MigrationInv, Progress, LifecycleTypeOK, File
<1>2. /\ DOMAIN migrations' = DOMAIN migrations \cup {File(s).name}
      /\ migrations'[File(s).name] = File(s).checksum
      /\ \A n \in DOMAIN migrations : migrations'[n] = migrations[n]
  BY <1>1 DEF Recorded
<1>3. \A k \in 1 .. position[s] : Files[s][k].name \in DOMAIN migrations'
  <2> TAKE k \in 1 .. position[s]
  <2>1. k \in DOMAIN Files[s]
    BY <1>1, LifecycleAssumption
  <2>2. k < position[s] => Applied(s, k)
    BY <2>1 DEF MigrationInv, Progress, Migrating
  <2> QED BY <1>1, <1>2, <2>2 DEF Applied
<1>4. InOrder'
  <2> SUFFICES ASSUME NEW t \in Servers, NEW i \in DOMAIN Files[t],
                      Files[t][i].name \in DOMAIN migrations', NEW k \in 1 .. i
               PROVE  Files[t][k].name \in DOMAIN migrations'
    BY DEF InOrder
  <2>1. CASE Files[t][i].name \in DOMAIN migrations
    BY <1>2, <2>1 DEF MigrationInv, InOrder
  <2>2. CASE Files[t][i].name = Files[s][position[s]].name
    <3>1. PICK h \in 1 .. position[s] : Files[s][h].name = Files[t][k].name
      BY <1>1, <2>2, FilesAgree
    <3> QED BY <1>3, <3>1
  <2> QED BY <1>1, <1>2, <2>1, <2>2
<1>5. \A t \in Servers : \A i \in DOMAIN Files[t] : Applied(t, i) => Applied(t, i)'
  BY <1>1, <1>2 DEF Applied
<1>6. Grown(s)
  BY <1>4, <1>5 DEF Grown, Migrating
<1>7. \A i \in DOMAIN Files[s] : i < position[s] + 1 => Applied(s, i)'
  <2> TAKE i \in DOMAIN Files[s]
  <2>1. i \in Nat
    BY LifecycleAssumption
  <2>2. i < position[s] => Applied(s, i)
    BY DEF MigrationInv, Progress, Migrating
  <2> QED BY <1>1, <1>2, <1>5, <2>1, <2>2 DEF Applied
<1> QED BY <1>6, <1>7

LEMMA MigrationStart == LifecycleInit => MigrationInv
BY LifecycleAssumption
DEF LifecycleInit, MigrationInv, LifecycleTypeOK, PhaseNames, LockIsHeld, Progress, Migrating, Arrived,
  InOrder, NoConflict

LEMMA TypesAreKept ==
  ASSUME LifecycleTypeOK, NEW s \in Servers, LifecycleStep(s)
  PROVE  LifecycleTypeOK'
<1> USE DEF LifecycleTypeOK, PhaseNames, Becomes
<1>1. CASE Boot(s) BY <1>1 DEF Boot
<1>2. CASE TakeLock(s) BY <1>2 DEF TakeLock, running
<1>3. CASE CheckMigration(s)
  <2>1. phase' \in [Servers -> PhaseNames] /\ why' \in [Servers -> {"NONE", "CHECKSUM", "CONFLICT", "STATEMENT"}]
    BY <1>3 DEF CheckMigration, MigrateThrows
  <2>2. position' = position \/ position' = [position EXCEPT ![s] = @ + 1]
    BY <1>3 DEF CheckMigration, MigrateThrows
  <2>3. position' \in [Servers -> Nat \ {0}]
    BY <2>2
  <2>4. lockedBy' \in Servers \cup {NoServer}
    BY <1>3 DEF CheckMigration, MigrateThrows, Released
  <2>5. UNCHANGED running
    BY <1>3 DEF CheckMigration
  <2> QED BY <2>1, <2>3, <2>4, <2>5 DEF running
<1>4. CASE ApplyMigration(s) BY <1>4 DEF ApplyMigration, running, MigrateThrows, Released
<1>5. CASE MigrationFails(s) BY <1>5 DEF MigrationFails, running, MigrateThrows, Released
<1>6. CASE Migrated(s) BY <1>6 DEF Migrated, running, Released
<1>7. CASE BeginListen(s) \/ StartFails(s) \/ Serve(s)
  BY <1>7 DEF BeginListen, StartFails, Serve, schema, running
<1>8. CASE WorkerTicks(s) \/ WorkerClaims(s) \/ WorkerFinishes(s)
  BY <1>8 DEF WorkerTicks, WorkerClaims, WorkerFinishes, schema
<1>9. CASE Signal(s) \/ StopWorker(s) \/ WorkerStopped(s) \/ ClosePool(s)
  BY <1>9 DEF Signal, StopWorker, WorkerStopped, ClosePool, schema
<1>10. CASE Exit(s) BY <1>10 DEF Exit, Ended, schema
<1>11. CASE Killed(s) BY <1>11 DEF Killed, Ended, Released
<1> QED BY <1>1, <1>2, <1>3, <1>4, <1>5, <1>6, <1>7, <1>8, <1>9, <1>10, <1>11 DEF LifecycleStep

LEMMA MigrationStep ==
  ASSUME MigrationInv, NEW s \in Servers, LifecycleStep(s)
  PROVE  MigrationInv'
<1> USE DEF Becomes
<1>1. LifecycleTypeOK /\ LifecycleTypeOK'
  BY TypesAreKept DEF MigrationInv
<1>2. /\ lockedBy = s <=> Migrating(s)
      /\ \A t \in Servers : lockedBy = t <=> Migrating(t)
      /\ Released(s) # s
      /\ \A t \in Servers \ {s} : Released(s) = t <=> lockedBy = t
  BY LifecycleAssumption DEF MigrationInv, LockIsHeld, Released
<1>3. why[s] # "CONFLICT"
  BY DEF MigrationInv, NoConflict
<1>4. UNCHANGED migrations => Grown(s) /\ \A i \in DOMAIN Files[s] : Applied(s, i) => Applied(s, i)'
  BY NothingRecorded DEF Applied
<1>5. /\ Migrating(s) => \A i \in DOMAIN Files[s] : i < position[s] => Applied(s, i)
      /\ phase[s] \in {"STARTING", "LISTEN", "SERVING"} => \A i \in DOMAIN Files[s] : Applied(s, i)
      /\ phase[s] = "LOCK" => position[s] = 1
      /\ phase[s] = "TRANSACTION" =>
           position[s] \in DOMAIN Files[s] /\ File(s).name \notin DOMAIN migrations
  BY DEF MigrationInv, Progress, Arrived
<1> DEFINE Aside == \A t \in Servers \ {s} :
              phase'[t] = phase[t] /\ why'[t] = why[t] /\ position'[t] = position[t]
           LeavesThe(p) == phase'[s] = p /\ why'[s] # "CONFLICT" /\ Aside
\* Outside the loop, having left it or not.
<1>6. ASSUME NEW p \in {"DOWN", "LOCK", "STARTING", "LISTEN", "SERVING", "FAILING"}, LeavesThe(p),
             Grown(s), lockedBy' = Released(s) \/ (~Migrating(s) /\ lockedBy' = lockedBy),
             p \in {"STARTING", "LISTEN", "SERVING"} => \A i \in DOMAIN Files[s] : Applied(s, i)',
             p = "LOCK" => position'[s] = 1
      PROVE  MigrationInv'
  <2>1. /\ \A t \in Servers \ {s} : lockedBy' = t <=> lockedBy = t
        /\ lockedBy' # s /\ ~Migrating(s)'
    BY <1>2, <1>6 DEF Migrating
  <2> QED BY <1>1, <1>6, <2>1, OthersAreNotDisturbed DEF Migrating
\* In the loop.
<1>7. ASSUME NEW p \in {"CHECK", "TRANSACTION"}, LeavesThe(p), Grown(s),
             \A t \in Servers \ {s} : lockedBy' = t <=> lockedBy = t, lockedBy' = s,
             \A i \in DOMAIN Files[s] : i < position'[s] => Applied(s, i)',
             p = "TRANSACTION" => position'[s] \in DOMAIN Files[s] /\ File(s)'.name \notin DOMAIN migrations'
      PROVE  MigrationInv'
  BY <1>1, <1>7, OthersAreNotDisturbed DEF Migrating
<1>8. CASE Boot(s)
  <2>1. /\ LeavesThe("LOCK") /\ lockedBy' = lockedBy /\ UNCHANGED migrations
        /\ phase[s] = "DOWN" /\ position'[s] = 1
    BY <1>1, <1>8 DEF Boot, LifecycleTypeOK
  <2> QED BY <1>2, <1>4, <1>6, <2>1 DEF Migrating
<1>9. CASE TakeLock(s)
  <2>1. /\ LeavesThe("CHECK") /\ lockedBy' = s /\ UNCHANGED <<position, migrations>>
        /\ lockedBy = NoServer /\ position[s] = 1
    BY <1>1, <1>3, <1>5, <1>9 DEF TakeLock, LifecycleTypeOK
  <2>2. /\ \A t \in Servers \ {s} : lockedBy' = t <=> lockedBy = t
        /\ \A i \in DOMAIN Files[s] : ~(i < position'[s])
    BY <2>1, LifecycleAssumption
  <2> QED BY <1>4, <1>7, <2>1, <2>2
<1>10. CASE CheckMigration(s)
  <2>1. phase[s] = "CHECK" /\ position[s] \in DOMAIN Files[s] /\ UNCHANGED migrations /\ Migrating(s)
    BY <1>1, <1>10, LifecycleAssumption DEF CheckMigration, LifecycleTypeOK, Migrating
  <2>2. CASE File(s).name \notin DOMAIN migrations
    <3>1. LeavesThe("TRANSACTION") /\ UNCHANGED <<position, lockedBy, migrations>>
      BY <1>1, <1>3, <1>10, <2>2 DEF CheckMigration, LifecycleTypeOK
    <3> QED BY <1>2, <1>4, <1>5, <1>7, <2>1, <2>2, <3>1 DEF File
  <2>3. CASE File(s).name \in DOMAIN migrations /\ migrations[File(s).name] = File(s).checksum
    <3>1. LeavesThe("CHECK") /\ UNCHANGED <<lockedBy, migrations>> /\ position'[s] = position[s] + 1
      BY <1>1, <1>3, <1>10, <2>1, <2>3 DEF CheckMigration, LifecycleTypeOK
    <3>2. \A i \in DOMAIN Files[s] : i < position'[s] => Applied(s, i)
      BY <1>1, <1>5, <2>1, <2>3, <3>1, LifecycleAssumption DEF Applied, File, LifecycleTypeOK
    <3> QED BY <1>2, <1>4, <1>7, <2>1, <3>1, <3>2
  <2>4. CASE File(s).name \in DOMAIN migrations /\ migrations[File(s).name] # File(s).checksum
    <3>1. LeavesThe("FAILING") /\ lockedBy' = Released(s)
      BY <1>1, <1>10, <2>4 DEF CheckMigration, MigrateThrows, LifecycleTypeOK
    <3> QED BY <1>4, <1>6, <2>1, <3>1
  <2> QED BY <2>2, <2>3, <2>4
<1>11. CASE ApplyMigration(s) \/ MigrationFails(s)
  <2>1. phase[s] = "TRANSACTION" /\ Migrating(s) /\ File(s).name \notin DOMAIN migrations
    BY <1>5, <1>11 DEF ApplyMigration, MigrationFails, Migrating
  <2>2. CASE ApplyMigration(s)
    <3>1. /\ LeavesThe("CHECK") /\ migrations' = Recorded(s) /\ lockedBy' = lockedBy
          /\ position'[s] = position[s] + 1
      BY <1>1, <1>3, <2>1, <2>2 DEF ApplyMigration, LifecycleTypeOK
    <3>2. Grown(s) /\ \A i \in DOMAIN Files[s] : i < position'[s] => Applied(s, i)'
      BY <2>1, <3>1, RecordingSteps
    <3> QED BY <1>2, <1>7, <2>1, <3>1, <3>2
  <2>3. CASE MigrationFails(s)
    <3>1. /\ LeavesThe("FAILING") /\ lockedBy' = Released(s)
          /\ migrations' = migrations \/ migrations' = Recorded(s)
      BY <1>1, <2>3 DEF MigrationFails, MigrateThrows, LifecycleTypeOK
    <3>2. Grown(s)
      BY <1>4, <2>1, <3>1, RecordingSteps
    <3> QED BY <1>6, <3>1, <3>2
  <2> QED BY <1>11, <2>2, <2>3
<1>12. CASE Migrated(s)
  <2>1. /\ LeavesThe("STARTING") /\ lockedBy' = Released(s) /\ UNCHANGED migrations
        /\ Migrating(s) /\ position[s] > Len(Files[s])
    BY <1>1, <1>3, <1>12 DEF Migrated, LifecycleTypeOK, Migrating
  <2>2. \A i \in DOMAIN Files[s] : Applied(s, i)
    BY <1>1, <1>5, <2>1, LifecycleAssumption DEF LifecycleTypeOK
  <2> QED BY <1>4, <1>6, <2>1, <2>2
<1>13. CASE BeginListen(s) \/ StartFails(s) \/ Serve(s)
  <2>1. /\ UNCHANGED <<lockedBy, position, migrations, why>>
        /\ LeavesThe("LISTEN") \/ LeavesThe("FAILING") \/ LeavesThe("SERVING")
        /\ phase[s] \in {"STARTING", "LISTEN"}
    BY <1>1, <1>3, <1>13 DEF BeginListen, StartFails, Serve, schema, LifecycleTypeOK
  <2> QED BY <1>2, <1>4, <1>5, <1>6, <2>1 DEF Migrating
<1>14. CASE \/ WorkerTicks(s) \/ WorkerClaims(s) \/ WorkerFinishes(s)
            \/ Signal(s) \/ StopWorker(s) \/ WorkerStopped(s) \/ ClosePool(s)
  <2>1. UNCHANGED <<phase, position, lockedBy, migrations, why>>
    BY <1>14 DEF WorkerTicks, WorkerClaims, WorkerFinishes, Signal, StopWorker, WorkerStopped, ClosePool, schema
  <2> QED BY <1>1, <2>1 DEF MigrationInv, LockIsHeld, Progress, Arrived, InOrder, NoConflict, Migrating,
    Applied, File
<1>15. CASE Exit(s)
  <2>1. /\ LeavesThe("DOWN") /\ UNCHANGED <<lockedBy, migrations>>
        /\ phase[s] \in {"SERVING", "FAILING"}
    BY <1>1, <1>3, <1>15 DEF Exit, Ended, schema, LifecycleTypeOK
  <2> QED BY <1>2, <1>4, <1>6, <2>1 DEF Migrating
<1>16. CASE Killed(s)
  <2>1. LeavesThe("DOWN") /\ lockedBy' = Released(s) /\ UNCHANGED migrations
    BY <1>1, <1>3, <1>16 DEF Killed, Ended, LifecycleTypeOK
  <2> QED BY <1>4, <1>6, <2>1
<1> QED
  BY <1>8, <1>9, <1>10, <1>11, <1>12, <1>13, <1>14, <1>15, <1>16 DEF LifecycleStep

-----------------------------------------------------------------------------
(* Shutdown.                                                               *)

ShutdownOf(s) ==
  /\ s \in polling \/ working[s] # "NO" => phase[s] = "SERVING"
  /\ phase[s] \notin {"LISTEN", "SERVING", "FAILING"} => closing[s] = "NO"
  /\ s \notin poolOpen => phase[s] = "DOWN" \/ closing[s] = "DONE"
  /\ s \notin early =>
       /\ phase[s] = "LISTEN" => closing[s] = "NO"
       /\ closing[s] \in {"WORKER", "QUEUE", "DONE"} => s \notin polling
       /\ closing[s] \in {"QUEUE", "DONE"} => working[s] = "NO"

ShutdownInv == LifecycleTypeOK /\ \A s \in Servers : ShutdownOf(s)

LEMMA ShutdownStart == LifecycleInit => ShutdownInv
BY LifecycleAssumption DEF LifecycleInit, ShutdownInv, ShutdownOf, LifecycleTypeOK, PhaseNames

LEMMA ShutdownStep ==
  ASSUME ShutdownInv, NEW s \in Servers, LifecycleStep(s)
  PROVE  ShutdownInv'
<1>1. LifecycleTypeOK /\ LifecycleTypeOK' /\ ShutdownOf(s)
  BY TypesAreKept DEF ShutdownInv
<1>2. ASSUME NEW t \in Servers \ {s} PROVE ShutdownOf(t)'
  <2>1. /\ phase'[t] = phase[t] /\ working'[t] = working[t] /\ closing'[t] = closing[t]
        /\ t \in polling' <=> t \in polling
        /\ t \in poolOpen' <=> t \in poolOpen
        /\ t \in early' <=> t \in early
    <3> USE <1>1 DEF LifecycleTypeOK, Becomes, running
    <3>1. CASE Boot(s) \/ TakeLock(s) BY <3>1 DEF Boot, TakeLock
    <3>2. CASE CheckMigration(s) \/ ApplyMigration(s) \/ MigrationFails(s)
      BY <3>2 DEF CheckMigration, ApplyMigration, MigrationFails, MigrateThrows
    <3>3. CASE Migrated(s) \/ BeginListen(s) \/ StartFails(s) \/ Serve(s)
      BY <3>3 DEF Migrated, BeginListen, StartFails, Serve
    <3>4. CASE WorkerTicks(s) \/ WorkerClaims(s) \/ WorkerFinishes(s)
      BY <3>4 DEF WorkerTicks, WorkerClaims, WorkerFinishes
    <3>5. CASE Signal(s) \/ StopWorker(s) \/ WorkerStopped(s) \/ ClosePool(s)
      BY <3>5 DEF Signal, StopWorker, WorkerStopped, ClosePool
    <3>6. CASE Exit(s) \/ Killed(s)
      BY <3>6 DEF Exit, Killed, Ended
    <3> QED BY <3>1, <3>2, <3>3, <3>4, <3>5, <3>6 DEF LifecycleStep
  <2>2. ShutdownOf(t)
    BY DEF ShutdownInv
  <2> QED BY <2>1, <2>2 DEF ShutdownOf
<1>3. ShutdownOf(s)'
  <2> USE <1>1 DEF LifecycleTypeOK, Becomes, running, ShutdownOf
  <2>1. CASE Boot(s) \/ TakeLock(s) BY <2>1 DEF Boot, TakeLock
  <2>2. CASE CheckMigration(s) \/ ApplyMigration(s) \/ MigrationFails(s)
    BY <2>2 DEF CheckMigration, ApplyMigration, MigrationFails, MigrateThrows
  <2>3. CASE Migrated(s) \/ BeginListen(s) \/ StartFails(s) \/ Serve(s)
    BY <2>3 DEF Migrated, BeginListen, StartFails, Serve
  <2>4. CASE WorkerTicks(s) \/ WorkerClaims(s) \/ WorkerFinishes(s)
    BY <2>4 DEF WorkerTicks, WorkerClaims, WorkerFinishes
  <2>5. CASE Signal(s) \/ StopWorker(s) \/ WorkerStopped(s) \/ ClosePool(s)
    BY <2>5 DEF Signal, StopWorker, WorkerStopped, ClosePool
  <2>6. CASE Exit(s) \/ Killed(s)
    BY <2>6 DEF Exit, Killed, Ended
  <2> QED BY <2>1, <2>2, <2>3, <2>4, <2>5, <2>6 DEF LifecycleStep
<1> QED BY <1>1, <1>2, <1>3 DEF ShutdownInv

-----------------------------------------------------------------------------
\* postgres.ts:169, migrate(): however many processes start, crash and start again, they
\* migrate one at a time, in order, and serve the schema of their own files.
THEOREM MigrationsAreAlwaysSerial == LifecycleSpec => []MigrationsAreSerial
<1>1. LifecycleInit => MigrationInv
  BY MigrationStart
<1>2. MigrationInv /\ [LifecycleNext]_lifecycleVars => MigrationInv'
  <2>1. MigrationInv /\ LifecycleNext => MigrationInv'
    BY MigrationStep DEF LifecycleNext
  <2>2. MigrationInv /\ UNCHANGED lifecycleVars => MigrationInv'
    BY DEF lifecycleVars, MigrationInv, LifecycleTypeOK, LockIsHeld, Progress, Arrived, InOrder,
      NoConflict, Migrating, Applied, File
  <2> QED BY <2>1, <2>2
<1>3. MigrationInv => MigrationsAreSerial
  BY DEF MigrationInv, MigrationsAreSerial, LockIsHeld, Migrating, Arrived, Applied, InOrder, NoConflict
<1> QED BY <1>1, <1>2, <1>3, PTL DEF LifecycleSpec

\* server.ts:240, the order in which close() stops things: the pool is ended after what uses it.
THEOREM PoolAlwaysOutlivesItsUsers == LifecycleSpec => []PoolOutlivesItsUsers
<1>1. LifecycleInit => ShutdownInv
  BY ShutdownStart
<1>2. ShutdownInv /\ [LifecycleNext]_lifecycleVars => ShutdownInv'
  <2>1. ShutdownInv /\ LifecycleNext => ShutdownInv'
    BY ShutdownStep DEF LifecycleNext
  <2>2. ShutdownInv /\ UNCHANGED lifecycleVars => ShutdownInv'
    BY DEF lifecycleVars, ShutdownInv, LifecycleTypeOK, ShutdownOf
  <2> QED BY <2>1, <2>2
<1>3. ShutdownInv => PoolOutlivesItsUsers
  BY DEF ShutdownInv, ShutdownOf, PoolOutlivesItsUsers
<1> QED BY <1>1, <1>2, <1>3, PTL DEF LifecycleSpec

-----------------------------------------------------------------------------
(* Discovery.  An answer is backed by what the sources replied, at the     *)
(* time it is given and in the cache, and an operation is in flights under *)
(* its product: whoever joins it has asked for that product.               *)

AnswerRows == [kind : {"NONE", "NOT_FOUND", "FOUND", "UNAVAILABLE"},
               provider : {"NONE", "OPEN_BEAUTY_FACTS", "UPCITEMDB", "EXTERNAL_CATALOGS"},
               reason : {"NONE", "FAILED", "INVALID_RESPONSE"}]
Steps == {"NONE", "PRIMARY", "SECONDARY", "ADMISSION", "REQUEST", "SETTLING", "DONE"}
CallersRows == [gtin : {Gtin[l] : l \in Lookups}, is : AnswerRows]

DiscoveryTypeOK ==
  /\ found \in [Lookups -> CallersRows]
  /\ waitsFor \in [Lookups -> Lookups \cup {Absent}]
  /\ flights \in [Products -> Lookups \cup {Absent}]
  /\ step \in [Lookups -> Steps]
  /\ primary \in [Lookups -> AnswerRows] /\ outcome \in [Lookups -> AnswerRows]
  /\ upcBusy \in BOOLEAN

Runs(o) == step[o] \notin {"NONE", "DONE"}
Using(o) == step[o] \in {"ADMISSION", "REQUEST"}

\* A product has the one operation that is named in flights, and whoever waits for an
\* operation has asked for its product.
OperationsAreSound ==
  /\ \A p \in Products : flights[p] # Absent => Product(flights[p]) = p /\ Runs(flights[p])
  /\ \A o \in Lookups : Runs(o) => flights[Product(o)] = o
  /\ \A l \in Lookups : waitsFor[l] # Absent => Product(waitsFor[l]) = Product(l)
  /\ \A l \in Lookups : step[l] # "NONE" => waitsFor[l] # Absent

QuotaIsSound ==
  /\ \A a, b \in Lookups : Using(a) /\ Using(b) => a = b
  /\ upcBusy <=> \E o \in Lookups : Using(o)

\* What is said of a product was stated of it.
Backed(p, is) ==
  /\ is.kind = "NOT_FOUND" =>
       /\ <<"OPEN_BEAUTY_FACTS", p, "NOT_FOUND">> \in stated
       /\ sources = "BOTH" => <<"UPCITEMDB", p, "NOT_FOUND">> \in stated
  /\ is.kind = "FOUND" => <<is.provider, p, "FOUND">> \in stated

\* An operation that asks the second source has been told what it knows by the first.
OutcomesAreBacked ==
  \A o \in Lookups :
    /\ Backed(Product(o), outcome[o])
    /\ primary[o].kind = "NOT_FOUND" =>
         <<"OPEN_BEAUTY_FACTS", Product(o), "NOT_FOUND">> \in stated

AnswersAreBacked ==
  \A l \in Lookups : Backed(Product(l), found[l].is) /\ found[l].gtin = Gtin[l]

IsEntry(e) ==
  \E p \in Products, is \in AnswerRows, fresh \in BOOLEAN : \E rank :
    e = [product |-> p, is |-> is, fresh |-> fresh, rank |-> rank]
KeptIsBacked ==
  \A e \in kept : IsEntry(e) /\ Backed(e.product, e.is) /\ e.is.kind # "UNAVAILABLE"

DiscoveryInv ==
  /\ DiscoveryTypeOK /\ OperationsAreSound /\ QuotaIsSound
  /\ OutcomesAreBacked /\ AnswersAreBacked /\ KeptIsBacked

LEMMA ProductsOfLookups == \A l \in Lookups : Product(l) \in Products
BY DEF Product, Products

LEMMA AnswersAreAnswers ==
  /\ Silence \in AnswerRows /\ Silence.kind = "NONE"
  /\ \A provider \in {"OPEN_BEAUTY_FACTS", "UPCITEMDB", "EXTERNAL_CATALOGS"},
        reason \in {"NONE", "FAILED", "INVALID_RESPONSE"}, kind \in {"NOT_FOUND", "FOUND"} :
       /\ Unavailable(provider, reason) \in AnswerRows
       /\ Unavailable(provider, reason).kind = "UNAVAILABLE"
       /\ Says(kind, provider) \in AnswerRows
       /\ Says(kind, provider).kind = kind /\ Says(kind, provider).provider = provider
BY DEF Silence, Unavailable, Says, AnswerRows

LEMMA DiscoveryStartsWell == DiscoveryInit => DiscoveryInv
<1> SUFFICES ASSUME DiscoveryInit PROVE DiscoveryInv
  OBVIOUS
<1> USE DEF DiscoveryInit
<1>1. DiscoveryTypeOK
  <2>1. \A l \in Lookups : [gtin |-> Gtin[l], is |-> Silence] \in CallersRows
    BY AnswersAreAnswers DEF CallersRows
  <2> QED BY <2>1, AnswersAreAnswers DEF DiscoveryTypeOK, Steps
<1>2. OperationsAreSound /\ QuotaIsSound
  BY ProductsOfLookups DEF OperationsAreSound, QuotaIsSound, Runs, Using
<1>3. OutcomesAreBacked /\ AnswersAreBacked /\ KeptIsBacked
  BY AnswersAreAnswers DEF OutcomesAreBacked, AnswersAreBacked, KeptIsBacked, Backed
<1> QED BY <1>1, <1>2, <1>3 DEF DiscoveryInv

-----------------------------------------------------------------------------
(* The cache.                                                              *)

LEMMA EntriesAreEntries ==
  ASSUME NEW e, IsEntry(e), NEW rank, NEW fresh \in BOOLEAN
  PROVE  /\ e.product \in Products /\ e.is \in AnswerRows
         /\ IsEntry([e EXCEPT !.rank = rank]) /\ IsEntry([e EXCEPT !.fresh = fresh])
         /\ [e EXCEPT !.rank = rank].product = e.product /\ [e EXCEPT !.rank = rank].is = e.is
         /\ [e EXCEPT !.fresh = fresh].product = e.product /\ [e EXCEPT !.fresh = fresh].is = e.is
<1> PICK p \in Products, is \in AnswerRows, f \in BOOLEAN :
      \E r : e = [product |-> p, is |-> is, fresh |-> f, rank |-> r]
  BY DEF IsEntry
<1>1. PICK r : e = [product |-> p, is |-> is, fresh |-> f, rank |-> r]
  OBVIOUS
<1>2. /\ [e EXCEPT !.rank = rank] = [product |-> p, is |-> is, fresh |-> f, rank |-> rank]
      /\ [e EXCEPT !.fresh = fresh] = [product |-> p, is |-> is, fresh |-> fresh, rank |-> r]
  BY <1>1
<1>3. ASSUME NEW g \in BOOLEAN, NEW q
      PROVE  IsEntry([product |-> p, is |-> is, fresh |-> g, rank |-> q])
  BY Zenon DEF IsEntry
<1>4. IsEntry([e EXCEPT !.rank = rank]) /\ IsEntry([e EXCEPT !.fresh = fresh])
  BY <1>2, <1>3
<1> QED BY <1>1, <1>2, <1>4

\* What can be kept: entries that are backed.
Keepable(e) == IsEntry(e) /\ Backed(e.product, e.is) /\ e.is.kind # "UNAVAILABLE"

LEMMA RankingKeeps ==
  ASSUME NEW entries, \A e \in entries : Keepable(e), NEW last, Keepable(last)
  PROVE  /\ \A e \in Ranked(entries) : Keepable(e)
         /\ \A e \in WithLast(entries, last) : Keepable(e)
<1>1. ASSUME NEW e, Keepable(e), NEW rank PROVE Keepable([e EXCEPT !.rank = rank])
  <2>1. /\ IsEntry([e EXCEPT !.rank = rank])
        /\ [e EXCEPT !.rank = rank].product = e.product /\ [e EXCEPT !.rank = rank].is = e.is
    BY <1>1, EntriesAreEntries DEF Keepable
  <2> QED BY <1>1, <2>1 DEF Keepable
<1> QED BY <1>1 DEF Ranked, WithLast

LEMMA RankedKeeps ==
  ASSUME NEW entries, \A e \in entries : Keepable(e)
  PROVE  \A e \in Ranked(entries) : Keepable(e)
<1> SUFFICES ASSUME NEW e \in entries
             PROVE  \A d \in Ranked(entries) : Keepable(d)
  BY DEF Ranked
<1>1. Keepable(e)
  OBVIOUS
<1> QED BY <1>1, RankingKeeps

LEMMA ForgettingKeeps ==
  ASSUME KeptIsBacked, NEW p PROVE \A e \in Forgetting(p) : Keepable(e)
<1>1. \A e \in {d \in kept : d.product # p} : Keepable(e)
  BY DEF KeptIsBacked, Keepable
<1> QED BY <1>1, RankedKeeps DEF Forgetting

LEMMA RememberKeeps ==
  ASSUME KeptIsBacked, NEW p \in Products, NEW is \in AnswerRows, Backed(p, is)
  PROVE  \A e \in Remember(p, is) : Keepable(e)
<1>1. CASE MaxEntries = 0 \/ is.kind = "UNAVAILABLE"
  BY <1>1 DEF Remember, KeptIsBacked, Keepable
<1>2. CASE ~(MaxEntries = 0 \/ is.kind = "UNAVAILABLE")
  <2> DEFINE old == {e \in kept : e.product # p /\ e.fresh}
             new == [product |-> p, is |-> is, fresh |-> TRUE, rank |-> 0]
             fresh == WithLast(Ranked(old), new)
  <2>1. Keepable(new)
    BY <1>2 DEF Keepable, IsEntry
  <2>2. \A e \in old : Keepable(e)
    BY DEF KeptIsBacked, Keepable
  <2> HIDE DEF old, new
  <2>3. \A e \in Ranked(old) : Keepable(e)
    BY <2>2, RankedKeeps
  <2>4. \A e \in fresh : Keepable(e)
    BY <2>1, <2>3, RankingKeeps
  <2>5. Remember(p, is) \in {fresh, Ranked({e \in fresh : e.rank > 1})}
    BY <1>2 DEF Remember, old, new
  <2> HIDE DEF fresh
  <2>6. \A e \in Ranked({e \in fresh : e.rank > 1}) : Keepable(e)
    <3>1. \A e \in {e \in fresh : e.rank > 1} : Keepable(e)
      BY <2>4
    <3> QED BY <3>1, RankedKeeps
  <2> QED BY <2>4, <2>5, <2>6
<1> QED BY <1>1, <1>2

-----------------------------------------------------------------------------
(* Steps of lookups.                                                       *)

LEMMA KeptStaysBacked ==
  ASSUME \A e \in kept' : Keepable(e), stated \subseteq stated', sources' = sources
  PROVE  KeptIsBacked'
BY DEF KeptIsBacked, Keepable, Backed, IsEntry

LEMMA SameKeptStaysBacked ==
  ASSUME KeptIsBacked, kept' = kept, stated \subseteq stated', sources' = sources
  PROVE  KeptIsBacked'
BY KeptStaysBacked DEF KeptIsBacked, Keepable

LEMMA AnswerKeeps ==
  ASSUME DiscoveryInv, NEW l \in Lookups, NEW is \in AnswerRows, Backed(Product(l), is),
         Answer(l, is), UNCHANGED <<sources, stated>>
  PROVE  found' \in [Lookups -> CallersRows] /\ AnswersAreBacked'
<1>1. found \in [Lookups -> CallersRows]
  BY DEF DiscoveryInv, DiscoveryTypeOK
<1>2. PICK said \in AnswerRows :
        Backed(Product(l), said) /\ found' = [found EXCEPT ![l].is = said]
  <2>1. CASE is.kind = "FOUND" /\ is.provider = "EXTERNAL_CATALOGS"
    <3>1. /\ Unavailable(is.provider, "INVALID_RESPONSE") \in AnswerRows
          /\ Unavailable(is.provider, "INVALID_RESPONSE").kind = "UNAVAILABLE"
      BY <2>1, AnswersAreAnswers
    <3>2. found' = [found EXCEPT ![l].is = Unavailable(is.provider, "INVALID_RESPONSE")]
      BY <2>1 DEF Answer
    <3> QED BY <3>1, <3>2 DEF Backed
  <2>2. CASE ~(is.kind = "FOUND" /\ is.provider = "EXTERNAL_CATALOGS")
    BY <2>2 DEF Answer
  <2> QED BY <2>1, <2>2
<1>3. [found[l] EXCEPT !.is = said] \in CallersRows
  BY <1>1 DEF CallersRows
<1>4. /\ found' = [found EXCEPT ![l] = [found[l] EXCEPT !.is = said]]
  BY <1>2
<1>5. /\ found' \in [Lookups -> CallersRows]
      /\ found'[l] = [found[l] EXCEPT !.is = said]
      /\ \A k \in Lookups \ {l} : found'[k] = found[k]
  BY <1>1, <1>3, <1>4
<1>6. found'[l].is = said /\ found'[l].gtin = found[l].gtin
  BY <1>1, <1>5 DEF CallersRows
<1>7. AnswersAreBacked'
  <2> SUFFICES ASSUME NEW k \in Lookups
               PROVE  Backed(Product(k), found[k].is)' /\ found'[k].gtin = Gtin[k]
    BY DEF AnswersAreBacked
  <2>1. Backed(Product(k), found[k].is) /\ found[k].gtin = Gtin[k]
    BY DEF DiscoveryInv, AnswersAreBacked
  <2>2. CASE k = l
    BY <1>2, <1>6, <2>1, <2>2 DEF Backed, Product
  <2>3. CASE k # l
    BY <1>5, <2>1, <2>3 DEF Backed, Product
  <2> QED BY <2>2, <2>3
<1> QED BY <1>5, <1>7

\* An operation that nobody moved is where it was.
LEMMA OperationsStay ==
  ASSUME DiscoveryInv, UNCHANGED <<sources, waitsFor, flights, step, primary, outcome, upcBusy, stated>>
  PROVE  OperationsAreSound' /\ QuotaIsSound' /\ OutcomesAreBacked'
BY DEF DiscoveryInv, OperationsAreSound, QuotaIsSound, OutcomesAreBacked, Runs, Using, Backed, Product

LEMMA AnswerAtOnceKeeps ==
  ASSUME DiscoveryInv, NEW l \in Lookups, AnswerAtOnce(l) PROVE DiscoveryInv'
<1>1. /\ UNCHANGED <<sources, waitsFor, flights, step, primary, outcome, upcBusy, upcRests, stated>>
  BY DEF AnswerAtOnce, configured
<1>2. Unavailable("OPEN_BEAUTY_FACTS", "FAILED") \in AnswerRows
      /\ Backed(Product(l), Unavailable("OPEN_BEAUTY_FACTS", "FAILED"))
  BY AnswersAreAnswers DEF Backed
<1>3. PICK is \in AnswerRows :
        /\ Backed(Product(l), is) /\ Answer(l, is) /\ \A e \in kept' : Keepable(e)
  <2>1. CASE Answer(l, Unavailable("OPEN_BEAUTY_FACTS", "FAILED")) /\ UNCHANGED kept
    BY <1>2, <2>1 DEF DiscoveryInv, KeptIsBacked, Keepable
  <2>2. ASSUME NEW e \in EntryOf(Product(l)), Answer(l, e.is),
               kept' = WithLast(Forgetting(Product(l)), e)
        PROVE  \E is \in AnswerRows :
                 Backed(Product(l), is) /\ Answer(l, is) /\ \A d \in kept' : Keepable(d)
    <3>1. e.product = Product(l) /\ Keepable(e)
      BY DEF EntryOf, DiscoveryInv, KeptIsBacked, Keepable
    <3>2. e.is \in AnswerRows
      BY <3>1, EntriesAreEntries DEF Keepable
    <3>3. \A d \in Forgetting(Product(l)) : Keepable(d)
      BY ForgettingKeeps DEF DiscoveryInv
    <3>4. \A d \in kept' : Keepable(d)
      BY <2>2, <3>1, <3>3, RankingKeeps
    <3> QED BY <2>2, <3>1, <3>2, <3>4 DEF Keepable
  <2>3. CASE Answer(l, Unavailable("OPEN_BEAUTY_FACTS", "FAILED")) /\ kept' = Forgetting(Product(l))
    BY <1>2, <2>3, ForgettingKeeps DEF DiscoveryInv
  <2> QED BY <2>1, <2>2, <2>3 DEF AnswerAtOnce
<1>4. found' \in [Lookups -> CallersRows] /\ AnswersAreBacked'
  BY <1>1, <1>3, AnswerKeeps
<1>5. KeptIsBacked'
  BY <1>1, <1>3, KeptStaysBacked
<1>6. OperationsAreSound' /\ QuotaIsSound' /\ OutcomesAreBacked'
  BY <1>1, OperationsStay
<1> QED BY <1>1, <1>4, <1>5, <1>6 DEF DiscoveryInv, DiscoveryTypeOK

LEMMA DeliverKeeps ==
  ASSUME DiscoveryInv, NEW l \in Lookups, Deliver(l) PROVE DiscoveryInv'
<1>1. /\ UNCHANGED <<sources, waitsFor, flights, step, primary, outcome, kept, upcBusy, upcRests, stated>>
      /\ waitsFor[l] # Absent /\ Answer(l, outcome[waitsFor[l]])
  BY DEF Deliver, configured
<1>2. waitsFor[l] \in Lookups /\ Product(waitsFor[l]) = Product(l)
  BY <1>1 DEF DiscoveryInv, DiscoveryTypeOK, OperationsAreSound
<1>3. outcome[waitsFor[l]] \in AnswerRows /\ Backed(Product(l), outcome[waitsFor[l]])
  BY <1>2 DEF DiscoveryInv, DiscoveryTypeOK, OutcomesAreBacked
<1>4. found' \in [Lookups -> CallersRows] /\ AnswersAreBacked'
  BY <1>1, <1>3, AnswerKeeps
<1>5. KeptIsBacked'
  BY <1>1, SameKeptStaysBacked DEF DiscoveryInv
<1>6. OperationsAreSound' /\ QuotaIsSound' /\ OutcomesAreBacked'
  BY <1>1, OperationsStay
<1> QED BY <1>1, <1>4, <1>5, <1>6 DEF DiscoveryInv, DiscoveryTypeOK

LEMMA JoinKeeps ==
  ASSUME DiscoveryInv, NEW l \in Lookups, Join(l) PROVE DiscoveryInv'
<1>1. /\ UNCHANGED <<sources, found, primary, outcome, upcBusy, upcRests, stated>>
      /\ waitsFor[l] = Absent /\ kept' = Forgetting(Product(l))
  BY DEF Join, configured, Asked
<1>2. /\ waitsFor \in [Lookups -> Lookups \cup {Absent}]
      /\ flights \in [Products -> Lookups \cup {Absent}]
      /\ step \in [Lookups -> Steps] /\ Product(l) \in Products
  BY ProductsOfLookups DEF DiscoveryInv, DiscoveryTypeOK
<1>3. step[l] = "NONE"
  BY <1>1 DEF DiscoveryInv, OperationsAreSound
<1>4. KeptIsBacked'
  BY <1>1, ForgettingKeeps, KeptStaysBacked DEF DiscoveryInv
<1>5. OutcomesAreBacked' /\ AnswersAreBacked'
  BY <1>1 DEF DiscoveryInv, OutcomesAreBacked, AnswersAreBacked, Backed, Product
<1>6. CASE /\ flights[Product(l)] # Absent
           /\ waitsFor' = [waitsFor EXCEPT ![l] = flights[Product(l)]]
           /\ UNCHANGED <<flights, step>>
  <2>1. Product(flights[Product(l)]) = Product(l) /\ flights[Product(l)] \in Lookups
    BY <1>2, <1>6 DEF DiscoveryInv, OperationsAreSound
  <2>2. /\ waitsFor' \in [Lookups -> Lookups \cup {Absent}]
        /\ waitsFor'[l] = flights[Product(l)]
        /\ \A k \in Lookups \ {l} : waitsFor'[k] = waitsFor[k]
    BY <1>2, <1>6
  <2>3. OperationsAreSound'
    BY <1>3, <1>6, <2>1, <2>2 DEF DiscoveryInv, OperationsAreSound, Runs, Product
  <2>4. QuotaIsSound'
    BY <1>1, <1>6 DEF DiscoveryInv, QuotaIsSound, Using
  <2> QED BY <1>1, <1>4, <1>5, <1>6, <2>2, <2>3, <2>4 DEF DiscoveryInv, DiscoveryTypeOK
<1>7. CASE /\ flights[Product(l)] = Absent
           /\ waitsFor' = [waitsFor EXCEPT ![l] = l]
           /\ flights' = [flights EXCEPT ![Product(l)] = l]
           /\ step' = [step EXCEPT ![l] = "PRIMARY"]
  <2>1. /\ waitsFor' \in [Lookups -> Lookups \cup {Absent}] /\ waitsFor'[l] = l
        /\ \A k \in Lookups \ {l} : waitsFor'[k] = waitsFor[k]
    BY <1>2, <1>7
  <2>2. /\ flights' \in [Products -> Lookups \cup {Absent}] /\ flights'[Product(l)] = l
        /\ \A p \in Products \ {Product(l)} : flights'[p] = flights[p]
    BY <1>2, <1>7
  <2>3. /\ step' \in [Lookups -> Steps] /\ step'[l] = "PRIMARY"
        /\ \A k \in Lookups \ {l} : step'[k] = step[k]
    BY <1>2, <1>7 DEF Steps
  <2>4. \A o \in Lookups : Runs(o) => Product(o) # Product(l)
    BY <1>7, DiscoveryAssumption DEF DiscoveryInv, OperationsAreSound
  <2>5. OperationsAreSound'
    <3>1. ASSUME NEW p \in Products, flights'[p] # Absent
          PROVE  Product(flights'[p]) = p /\ Runs(flights[p])'
      <4>1. CASE p = Product(l)
        BY <2>2, <2>3, <4>1 DEF Runs
      <4>2. CASE p # Product(l)
        <5>1. flights'[p] = flights[p] /\ Product(flights[p]) = p /\ Runs(flights[p])
          BY <2>2, <3>1, <4>2 DEF DiscoveryInv, OperationsAreSound
        <5>2. flights[p] \in Lookups \ {l}
          BY <1>2, <2>2, <3>1, <4>2, <5>1
        <5> QED BY <2>3, <5>1, <5>2 DEF Runs
      <4> QED BY <4>1, <4>2
    <3>2. ASSUME NEW o \in Lookups, Runs(o)' PROVE flights'[Product(o)] = o
      <4>1. CASE o = l
        BY <2>2, <4>1
      <4>2. CASE o # l
        <5>1. Runs(o) /\ flights[Product(o)] = o
          BY <2>3, <3>2, <4>2 DEF DiscoveryInv, OperationsAreSound, Runs
        <5>2. Product(o) # Product(l) /\ Product(o) \in Products
          BY <2>4, <5>1, ProductsOfLookups
        <5> QED BY <2>2, <5>1, <5>2
      <4> QED BY <4>1, <4>2
    <3>3. \A k \in Lookups : waitsFor'[k] # Absent => Product(waitsFor'[k]) = Product(k)
      BY <2>1 DEF DiscoveryInv, OperationsAreSound
    <3>4. \A k \in Lookups : step'[k] # "NONE" => waitsFor'[k] # Absent
      BY <2>1, <2>3, DiscoveryAssumption DEF DiscoveryInv, OperationsAreSound
    <3> QED BY <3>1, <3>2, <3>3, <3>4 DEF OperationsAreSound, Product
  <2>6. QuotaIsSound'
    BY <1>1, <1>3, <2>3 DEF DiscoveryInv, QuotaIsSound, Using
  <2> QED BY <1>1, <1>4, <1>5, <2>1, <2>2, <2>3, <2>5, <2>6 DEF DiscoveryInv, DiscoveryTypeOK
<1> QED BY <1>6, <1>7 DEF Join

-----------------------------------------------------------------------------
(* Steps of operations.                                                    *)

\* An operation goes on: whoever waits for it, and what it is called, stay as they are.
LEMMA GoingOnKeepsOperations ==
  ASSUME DiscoveryInv, NEW o \in Lookups, Runs(o), NEW s \in Steps \ {"NONE", "DONE"},
         step' = [step EXCEPT ![o] = s], UNCHANGED <<waitsFor, flights>>
  PROVE  /\ step' \in [Lookups -> Steps] /\ step'[o] = s
         /\ \A k \in Lookups \ {o} : step'[k] = step[k]
         /\ OperationsAreSound'
<1>1. step \in [Lookups -> Steps]
  BY DEF DiscoveryInv, DiscoveryTypeOK
<1>2. /\ step' \in [Lookups -> Steps] /\ step'[o] = s
      /\ \A k \in Lookups \ {o} : step'[k] = step[k]
  BY <1>1
<1>3. \A k \in Lookups : (Runs(k)' <=> Runs(k)) /\ (step'[k] = "NONE" <=> step[k] = "NONE")
  BY <1>2 DEF Runs
<1>4. \A p \in Products : flights[p] # Absent => flights[p] \in Lookups
  BY DEF DiscoveryInv, DiscoveryTypeOK
<1>5. OperationsAreSound'
  BY <1>3, <1>4 DEF DiscoveryInv, OperationsAreSound, Product
<1> QED BY <1>2, <1>5

\* What became of an operation, and what it was told, is backed by what is stated by now.
LEMMA BackedOutcomesAreKept ==
  ASSUME DiscoveryInv, NEW o \in Lookups, NEW is \in AnswerRows, NEW first \in AnswerRows,
         outcome' \in {outcome, [outcome EXCEPT ![o] = is]},
         primary' \in {primary, [primary EXCEPT ![o] = first]},
         stated \subseteq stated', sources' = sources,
         outcome' # outcome => Backed(Product(o), is)',
         first.kind = "NOT_FOUND" =>
           <<"OPEN_BEAUTY_FACTS", Product(o), "NOT_FOUND">> \in stated'
  PROVE  /\ outcome' \in [Lookups -> AnswerRows] /\ primary' \in [Lookups -> AnswerRows]
         /\ OutcomesAreBacked'
<1>1. outcome \in [Lookups -> AnswerRows] /\ primary \in [Lookups -> AnswerRows]
  BY DEF DiscoveryInv, DiscoveryTypeOK
<1>2. outcome' \in [Lookups -> AnswerRows] /\ primary' \in [Lookups -> AnswerRows]
  BY <1>1
<1>3. ASSUME NEW k \in Lookups
      PROVE  /\ Backed(Product(k), outcome[k])'
             /\ primary'[k].kind = "NOT_FOUND" =>
                  <<"OPEN_BEAUTY_FACTS", Product(k), "NOT_FOUND">> \in stated'
  <2>1. /\ Backed(Product(k), outcome[k])
        /\ primary[k].kind = "NOT_FOUND" =>
             <<"OPEN_BEAUTY_FACTS", Product(k), "NOT_FOUND">> \in stated
    BY DEF DiscoveryInv, OutcomesAreBacked
  <2>2. Backed(Product(k), outcome[k])'
    <3>1. CASE outcome'[k] = outcome[k]
      BY <2>1, <3>1 DEF Backed, Product
    <3>2. CASE outcome'[k] # outcome[k]
      <4>1. k = o /\ outcome'[k] = is /\ outcome' # outcome
        BY <1>1, <3>2
      <4> QED BY <4>1 DEF Backed, Product
    <3> QED BY <3>1, <3>2
  <2>3. primary'[k] = primary[k] \/ (k = o /\ primary'[k] = first)
    BY <1>1
  <2> QED BY <2>1, <2>2, <2>3
<1> QED BY <1>2, <1>3 DEF OutcomesAreBacked, Product

LEMMA ParsedIsBacked ==
  ASSUME NEW provider \in {"OPEN_BEAUTY_FACTS", "UPCITEMDB"}, NEW p \in Products,
         NEW reply \in Replies, stated' = Heard(provider, p, reply)
  PROVE  /\ Parsed(provider, p, reply) \in AnswerRows
         /\ Parsed(provider, p, reply).kind \in {"NOT_FOUND", "FOUND", "UNAVAILABLE"}
         /\ Parsed(provider, p, reply).kind \in {"NOT_FOUND", "FOUND"} =>
              /\ Parsed(provider, p, reply).provider = provider
              /\ Parsed(provider, p, reply).reason = "NONE"
              /\ <<provider, p, Parsed(provider, p, reply).kind>> \in stated'
         /\ stated \subseteq stated'
<1>1. stated \subseteq stated'
  BY DEF Heard
<1>2. CASE reply.status = "404"
  <2>1. Parsed(provider, p, reply) = Says("NOT_FOUND", provider)
    BY <1>2 DEF Parsed
  <2>2. <<provider, p, "NOT_FOUND">> \in stated'
    BY <1>2 DEF Heard
  <2>3. Says("NOT_FOUND", provider).reason = "NONE"
    BY DEF Says, Silence
  <2> QED BY <1>1, <2>1, <2>2, <2>3, AnswersAreAnswers
<1>3. CASE reply.status # "404" /\ reply.names = p
  <2>1. Parsed(provider, p, reply) = Says("FOUND", provider)
    BY <1>3 DEF Parsed
  <2>2. <<provider, p, "FOUND">> \in stated'
    BY <1>3 DEF Heard
  <2>3. Says("FOUND", provider).reason = "NONE"
    BY DEF Says, Silence
  <2> QED BY <1>1, <2>1, <2>2, <2>3, AnswersAreAnswers
<1>4. CASE reply.status # "404" /\ reply.names # p
  <2>1. Parsed(provider, p, reply) = Unavailable(provider, ReasonOf(reply))
    BY <1>4 DEF Parsed
  <2>2. ReasonOf(reply) \in {"FAILED", "INVALID_RESPONSE"}
    BY DEF ReasonOf
  <2> QED BY <1>1, <2>1, <2>2, AnswersAreAnswers
<1> QED BY <1>2, <1>3, <1>4

\* fallback-product-discovery-provider.ts: only two misses make a miss.
LEMMA CombinedIsBacked ==
  ASSUME NEW p, NEW first \in AnswerRows, NEW second \in AnswerRows,
         first.kind = "NOT_FOUND" => <<"OPEN_BEAUTY_FACTS", p, "NOT_FOUND">> \in stated',
         second.kind \in {"NOT_FOUND", "FOUND"} => <<"UPCITEMDB", p, second.kind>> \in stated'
  PROVE  /\ Combined(first, second) \in AnswerRows
         /\ Combined(first, second).kind = "NOT_FOUND" =>
              /\ <<"OPEN_BEAUTY_FACTS", p, "NOT_FOUND">> \in stated'
              /\ <<"UPCITEMDB", p, "NOT_FOUND">> \in stated'
         /\ Combined(first, second).kind = "FOUND" =>
              <<Combined(first, second).provider, p, "FOUND">> \in stated'
<1>1. CASE second.kind = "FOUND"
  BY <1>1, AnswersAreAnswers DEF Combined
<1>2. CASE first.kind = "NOT_FOUND" /\ second.kind = "NOT_FOUND"
  BY <1>2, AnswersAreAnswers DEF Combined
<1>3. CASE second.kind # "FOUND" /\ ~(first.kind = "NOT_FOUND" /\ second.kind = "NOT_FOUND")
  <2>1. PICK reason \in {"NONE", "FAILED", "INVALID_RESPONSE"} :
          Combined(first, second) = Unavailable("EXTERNAL_CATALOGS", reason)
    BY <1>3 DEF Combined, AnswerRows
  <2> QED BY <2>1, AnswersAreAnswers
<1> QED BY <1>1, <1>2, <1>3

LEMMA EndsKeeps ==
  ASSUME DiscoveryInv, NEW o \in Lookups, Runs(o), NEW is \in AnswerRows, Ends(o, is),
         Backed(Product(o), is)', stated \subseteq stated',
         UNCHANGED <<sources, found, waitsFor, flights, kept>>, upcBusy' \in BOOLEAN,
         \/ upcBusy' = upcBusy /\ ~Using(o)
         \/ upcBusy' = FALSE /\ Using(o)
  PROVE  DiscoveryInv'
<1>1. /\ outcome' = [outcome EXCEPT ![o] = is] /\ step' = [step EXCEPT ![o] = "SETTLING"]
      /\ primary' = [primary EXCEPT ![o] = Silence]
  BY DEF Ends
<1>2. "SETTLING" \in Steps \ {"NONE", "DONE"}
  BY DEF Steps
<1>3. /\ step' \in [Lookups -> Steps] /\ step'[o] = "SETTLING"
      /\ \A k \in Lookups \ {o} : step'[k] = step[k]
      /\ OperationsAreSound'
  BY <1>1, <1>2, GoingOnKeepsOperations
<1>4. /\ outcome' \in [Lookups -> AnswerRows] /\ primary' \in [Lookups -> AnswerRows]
      /\ OutcomesAreBacked'
  BY <1>1, AnswersAreAnswers, BackedOutcomesAreKept
<1>5. QuotaIsSound'
  <2>1. \A k \in Lookups : Using(k)' <=> Using(k) /\ k # o
    BY <1>3 DEF Using
  <2> QED BY <2>1 DEF DiscoveryInv, QuotaIsSound
<1>6. AnswersAreBacked'
  BY DEF DiscoveryInv, AnswersAreBacked, Backed, Product
<1>7. KeptIsBacked'
  BY SameKeptStaysBacked DEF DiscoveryInv
<1> QED BY <1>3, <1>4, <1>5, <1>6, <1>7 DEF DiscoveryInv, DiscoveryTypeOK

LEMMA PrimaryRepliesKeeps ==
  ASSUME DiscoveryInv, NEW o \in Lookups, PrimaryReplies(o) PROVE DiscoveryInv'
<1>1. PICK reply \in Replies, is \in AnswerRows :
        /\ is = Parsed("OPEN_BEAUTY_FACTS", Product(o), reply)
        /\ stated' = Heard("OPEN_BEAUTY_FACTS", Product(o), reply)
        /\ IF is.kind = "FOUND" \/ is.reason = "INVALID_RESPONSE" \/ sources # "BOTH"
           THEN Ends(o, is)
           ELSE /\ step' = [step EXCEPT ![o] = "SECONDARY"] /\ primary' = [primary EXCEPT ![o] = is]
                /\ UNCHANGED outcome
  BY ProductsOfLookups, ParsedIsBacked DEF PrimaryReplies
<1>2. step[o] = "PRIMARY" /\ UNCHANGED <<sources, found, waitsFor, flights, kept, upcBusy>>
  BY DEF PrimaryReplies, configured
<1>3. /\ is.kind \in {"NOT_FOUND", "FOUND", "UNAVAILABLE"}
      /\ is.kind \in {"NOT_FOUND", "FOUND"} =>
           /\ is.provider = "OPEN_BEAUTY_FACTS" /\ is.reason = "NONE"
           /\ <<"OPEN_BEAUTY_FACTS", Product(o), is.kind>> \in stated'
      /\ stated \subseteq stated'
  BY <1>1, ProductsOfLookups, ParsedIsBacked
<1>4. Runs(o) /\ ~Using(o) /\ upcBusy \in BOOLEAN
  BY <1>2 DEF Runs, Using, DiscoveryInv, DiscoveryTypeOK
<1>5. CASE Ends(o, is) /\ (is.kind # "NOT_FOUND" \/ sources # "BOTH")
  <2>1. Backed(Product(o), is)'
    BY <1>2, <1>3, <1>5 DEF Backed, Product
  <2> QED BY <1>2, <1>3, <1>4, <1>5, <2>1, EndsKeeps
<1>6. CASE /\ step' = [step EXCEPT ![o] = "SECONDARY"] /\ primary' = [primary EXCEPT ![o] = is]
           /\ UNCHANGED outcome
  <2>1. "SECONDARY" \in Steps \ {"NONE", "DONE"}
    BY DEF Steps
  <2>2. /\ step' \in [Lookups -> Steps] /\ step'[o] = "SECONDARY"
        /\ \A k \in Lookups \ {o} : step'[k] = step[k]
        /\ OperationsAreSound'
    BY <1>2, <1>4, <1>6, <2>1, GoingOnKeepsOperations
  <2>3. /\ outcome' \in [Lookups -> AnswerRows] /\ primary' \in [Lookups -> AnswerRows]
        /\ OutcomesAreBacked'
    BY <1>2, <1>3, <1>6, BackedOutcomesAreKept
  <2>4. QuotaIsSound'
    BY <1>2, <1>4, <2>2 DEF DiscoveryInv, QuotaIsSound, Using
  <2>5. AnswersAreBacked'
    BY <1>2, <1>3 DEF DiscoveryInv, AnswersAreBacked, Backed, Product
  <2>6. KeptIsBacked'
    BY <1>2, <1>3, SameKeptStaysBacked DEF DiscoveryInv
  <2> QED BY <1>2, <2>2, <2>3, <2>4, <2>5, <2>6 DEF DiscoveryInv, DiscoveryTypeOK
<1>7. \/ Ends(o, is) /\ (is.kind # "NOT_FOUND" \/ sources # "BOTH")
      \/ /\ step' = [step EXCEPT ![o] = "SECONDARY"] /\ primary' = [primary EXCEPT ![o] = is]
         /\ UNCHANGED outcome
  BY <1>1, <1>3
<1> QED BY <1>5, <1>6, <1>7

\* The second source's answer, or that it was not asked, ends the operation.
LEMMA EndsWithKeeps ==
  ASSUME DiscoveryInv, NEW o \in Lookups, step[o] \in {"SECONDARY", "ADMISSION", "REQUEST"},
         NEW second \in AnswerRows, EndsWith(o, second), stated \subseteq stated',
         second.kind \in {"NOT_FOUND", "FOUND"} =>
           <<"UPCITEMDB", Product(o), second.kind>> \in stated',
         UNCHANGED <<sources, found, waitsFor, flights, kept>>,
         \/ upcBusy' = upcBusy /\ step[o] = "SECONDARY"
         \/ upcBusy' = FALSE /\ step[o] # "SECONDARY"
  PROVE  DiscoveryInv'
<1>1. /\ primary[o] \in AnswerRows /\ upcBusy \in BOOLEAN
      /\ primary[o].kind = "NOT_FOUND" =>
           <<"OPEN_BEAUTY_FACTS", Product(o), "NOT_FOUND">> \in stated'
  BY DEF DiscoveryInv, DiscoveryTypeOK, OutcomesAreBacked
<1>2. PICK is \in AnswerRows : is = Combined(primary[o], second)
  BY <1>1, CombinedIsBacked
<1>3. Backed(Product(o), is)'
  BY <1>1, <1>2, CombinedIsBacked DEF Backed, Product
<1>4. Ends(o, is)
  BY <1>2 DEF EndsWith
<1>5. Runs(o) /\ (Using(o) <=> step[o] # "SECONDARY") /\ upcBusy' \in BOOLEAN
  BY <1>1 DEF Runs, Using
<1>6. (upcBusy' = upcBusy /\ ~Using(o)) \/ (upcBusy' = FALSE /\ Using(o))
  BY <1>5
<1> QED BY <1>3, <1>4, <1>5, <1>6, EndsKeeps

LEMMA SecondaryEndsKeeps ==
  ASSUME DiscoveryInv, NEW o \in Lookups,
         SecondaryRefuses(o) \/ SecondaryDenied(o) \/ SecondaryReplies(o)
  PROVE  DiscoveryInv'
<1>1. PICK failed \in AnswerRows :
        failed = Unavailable("UPCITEMDB", "FAILED") /\ failed.kind = "UNAVAILABLE"
  BY AnswersAreAnswers
<1>2. CASE SecondaryRefuses(o)
  <2>1. /\ step[o] = "SECONDARY" /\ EndsWith(o, failed) /\ upcBusy' = upcBusy /\ stated' = stated
        /\ UNCHANGED <<sources, found, waitsFor, flights, kept>>
    BY <1>1, <1>2 DEF SecondaryRefuses, configured
  <2> QED BY <1>1, <2>1, EndsWithKeeps
<1>3. CASE SecondaryDenied(o)
  <2>1. /\ step[o] = "ADMISSION" /\ EndsWith(o, failed) /\ upcBusy' = FALSE /\ stated' = stated
        /\ UNCHANGED <<sources, found, waitsFor, flights, kept>>
    BY <1>1, <1>3 DEF SecondaryDenied, configured
  <2> QED BY <1>1, <2>1, EndsWithKeeps
<1>4. CASE SecondaryReplies(o)
  <2>1. PICK reply \in Replies :
          /\ EndsWith(o, Parsed("UPCITEMDB", Product(o), reply))
          /\ stated' = Heard("UPCITEMDB", Product(o), reply)
    BY <1>4 DEF SecondaryReplies
  <2>2. /\ step[o] = "REQUEST" /\ upcBusy' = FALSE
        /\ UNCHANGED <<sources, found, waitsFor, flights, kept>>
    BY <1>4 DEF SecondaryReplies, configured
  <2>3. /\ Parsed("UPCITEMDB", Product(o), reply) \in AnswerRows
        /\ Parsed("UPCITEMDB", Product(o), reply).kind \in {"NOT_FOUND", "FOUND"} =>
             <<"UPCITEMDB", Product(o), Parsed("UPCITEMDB", Product(o), reply).kind>> \in stated'
        /\ stated \subseteq stated'
    BY <2>1, ProductsOfLookups, ParsedIsBacked
  <2>4. PICK is \in AnswerRows : is = Parsed("UPCITEMDB", Product(o), reply)
    BY <2>3
  <2> QED BY <2>1, <2>2, <2>3, <2>4, EndsWithKeeps
<1> QED BY <1>2, <1>3, <1>4

\* The second source is reserved by one operation, and asked by the one that reserved it.
LEMMA SecondaryAsksKeeps ==
  ASSUME DiscoveryInv, NEW o \in Lookups, SecondaryReserves(o) \/ SecondaryAdmitted(o)
  PROVE  DiscoveryInv'
<1>1. PICK s \in {"ADMISSION", "REQUEST"} :
        /\ step' = [step EXCEPT ![o] = s] /\ upcBusy' \in BOOLEAN
        /\ \/ step[o] = "SECONDARY" /\ upcBusy = FALSE /\ upcBusy' = TRUE
           \/ step[o] = "ADMISSION" /\ upcBusy' = upcBusy
  BY DEF SecondaryReserves, SecondaryAdmitted, DiscoveryInv, DiscoveryTypeOK
<1>2. UNCHANGED <<sources, found, waitsFor, flights, primary, outcome, kept, stated>>
  BY DEF SecondaryReserves, SecondaryAdmitted, configured
<1>3. s \in Steps \ {"NONE", "DONE"} /\ Runs(o)
  BY <1>1 DEF Steps, Runs
<1>4. /\ step' \in [Lookups -> Steps] /\ step'[o] = s
      /\ \A k \in Lookups \ {o} : step'[k] = step[k]
      /\ OperationsAreSound'
  BY <1>1, <1>2, <1>3, GoingOnKeepsOperations
<1>5. QuotaIsSound'
  <2>1. \A k \in Lookups : Using(k)' <=> Using(k) \/ k = o
    BY <1>1, <1>4 DEF Using
  <2>2. CASE upcBusy = FALSE /\ upcBusy' = TRUE
    BY <2>1, <2>2 DEF DiscoveryInv, QuotaIsSound
  <2>3. CASE Using(o) /\ upcBusy' = upcBusy
    BY <2>1, <2>3 DEF DiscoveryInv, QuotaIsSound
  <2> QED BY <1>1, <2>2, <2>3 DEF Using
<1>6. OutcomesAreBacked' /\ AnswersAreBacked'
  BY <1>2 DEF DiscoveryInv, OutcomesAreBacked, AnswersAreBacked, Backed, Product
<1>7. KeptIsBacked'
  BY <1>2, SameKeptStaysBacked DEF DiscoveryInv
<1> QED BY <1>1, <1>2, <1>4, <1>5, <1>6, <1>7 DEF DiscoveryInv, DiscoveryTypeOK

LEMMA SettleKeeps ==
  ASSUME DiscoveryInv, NEW o \in Lookups, Settle(o) PROVE DiscoveryInv'
<1>1. /\ step[o] = "SETTLING" /\ step' = [step EXCEPT ![o] = "DONE"]
      /\ kept' = Remember(Product(o), outcome[o])
      /\ flights' = [flights EXCEPT ![Product(o)] = Absent]
      /\ UNCHANGED <<sources, found, waitsFor, primary, outcome, upcBusy, upcRests, stated>>
  BY DEF Settle, configured
<1>2. /\ step \in [Lookups -> Steps] /\ flights \in [Products -> Lookups \cup {Absent}]
      /\ outcome[o] \in AnswerRows /\ Backed(Product(o), outcome[o]) /\ Product(o) \in Products
  BY ProductsOfLookups DEF DiscoveryInv, DiscoveryTypeOK, OutcomesAreBacked
<1>3. KeptIsBacked'
  <2>1. \A e \in kept' : Keepable(e)
    BY <1>1, <1>2, RememberKeeps DEF DiscoveryInv
  <2> QED BY <1>1, <2>1, KeptStaysBacked
<1>4. /\ step' \in [Lookups -> Steps] /\ step'[o] = "DONE"
      /\ \A k \in Lookups \ {o} : step'[k] = step[k]
  BY <1>1, <1>2 DEF Steps
<1>5. /\ flights' \in [Products -> Lookups \cup {Absent}] /\ flights'[Product(o)] = Absent
      /\ \A p \in Products \ {Product(o)} : flights'[p] = flights[p]
  BY <1>1, <1>2
<1>6. flights[Product(o)] = o
  BY <1>1 DEF DiscoveryInv, OperationsAreSound, Runs
<1>7. OperationsAreSound'
  <2>1. ASSUME NEW p \in Products, flights'[p] # Absent
        PROVE  Product(flights'[p]) = p /\ Runs(flights[p])'
    <3>1. /\ p # Product(o) /\ flights'[p] = flights[p]
          /\ Product(flights[p]) = p /\ Runs(flights[p])
      BY <1>5, <2>1 DEF DiscoveryInv, OperationsAreSound
    <3>2. flights[p] \in Lookups \ {o}
      BY <1>2, <1>5, <2>1, <3>1
    <3> QED BY <1>4, <3>1, <3>2 DEF Runs
  <2>2. ASSUME NEW k \in Lookups, Runs(k)' PROVE flights'[Product(k)] = k
    <3>1. k # o /\ Runs(k) /\ flights[Product(k)] = k
      BY <1>4, <2>2 DEF DiscoveryInv, OperationsAreSound, Runs
    <3>2. Product(k) # Product(o) /\ Product(k) \in Products
      BY <1>6, <3>1, ProductsOfLookups
    <3> QED BY <1>5, <3>1, <3>2
  <2>3. /\ \A l \in Lookups : waitsFor'[l] # Absent => Product(waitsFor'[l]) = Product(l)
        /\ \A l \in Lookups : step'[l] # "NONE" => waitsFor'[l] # Absent
    BY <1>1, <1>4 DEF DiscoveryInv, OperationsAreSound
  <2> QED BY <2>1, <2>2, <2>3 DEF OperationsAreSound, Product
<1>8. QuotaIsSound'
  BY <1>1, <1>4 DEF DiscoveryInv, QuotaIsSound, Using
<1>9. OutcomesAreBacked' /\ AnswersAreBacked'
  BY <1>1 DEF DiscoveryInv, OutcomesAreBacked, AnswersAreBacked, Backed, Product
<1> QED BY <1>1, <1>3, <1>4, <1>5, <1>7, <1>8, <1>9 DEF DiscoveryInv, DiscoveryTypeOK

LEMMA DiscoveryNextKeeps == DiscoveryInv /\ [DiscoveryNext]_discoveryVars => DiscoveryInv'
<1> SUFFICES ASSUME DiscoveryInv, [DiscoveryNext]_discoveryVars PROVE DiscoveryInv'
  OBVIOUS
<1>1. ASSUME UNCHANGED <<sources, found, waitsFor, flights, step, primary, outcome, upcBusy, stated>>,
             \A e \in kept' : Keepable(e)
      PROVE  DiscoveryInv'
  <2>1. OperationsAreSound' /\ QuotaIsSound' /\ OutcomesAreBacked'
    BY <1>1, OperationsStay
  <2>2. KeptIsBacked'
    BY <1>1, KeptStaysBacked
  <2>3. AnswersAreBacked'
    BY <1>1 DEF DiscoveryInv, AnswersAreBacked, Backed, Product
  <2> QED BY <1>1, <2>1, <2>2, <2>3 DEF DiscoveryInv, DiscoveryTypeOK
<1>2. CASE UNCHANGED discoveryVars
  BY <1>1, <1>2 DEF discoveryVars, DiscoveryInv, KeptIsBacked, Keepable
<1>3. CASE IntervalEnds
  BY <1>1, <1>3 DEF IntervalEnds, configured, DiscoveryInv, KeptIsBacked, Keepable
<1>4. CASE KeptExpires
  <2>1. PICK e \in kept : kept' = (kept \ {e}) \cup {[e EXCEPT !.fresh = FALSE]}
    BY <1>4 DEF KeptExpires
  <2>2. UNCHANGED <<sources, found, waitsFor, flights, step, primary, outcome, upcBusy, stated>>
    BY <1>4 DEF KeptExpires, configured
  <2>3. \A d \in kept : Keepable(d)
    BY DEF DiscoveryInv, KeptIsBacked, Keepable
  <2>4. /\ IsEntry([e EXCEPT !.fresh = FALSE])
        /\ [e EXCEPT !.fresh = FALSE].product = e.product /\ [e EXCEPT !.fresh = FALSE].is = e.is
    <3>1. IsEntry(e)
      BY <2>3 DEF Keepable
    <3> QED BY <3>1, EntriesAreEntries
  <2>5. Keepable([e EXCEPT !.fresh = FALSE])
    BY <2>3, <2>4 DEF Keepable
  <2> QED BY <1>1, <2>1, <2>2, <2>3, <2>5
<1> QED BY <1>2, <1>3, <1>4, AnswerAtOnceKeeps, JoinKeeps, DeliverKeeps, PrimaryRepliesKeeps,
           SecondaryEndsKeeps, SecondaryAsksKeeps, SettleKeeps DEF DiscoveryNext, Work

\* fallback-product-discovery-provider.ts:7, cached-product-discovery-provider.ts:119: a miss
\* was said by every source, what was found is attributed to who said it, each of its own
\* product, and one operation at a time asks the second source.  For any number of lookups
\* and products, and any size of the cache.
THEOREM LookupsAreAlwaysHonest == DiscoverySpec => []LookupsAreHonest
<1>1. ASSUME DiscoveryInv PROVE LookupsAreHonest
  <2>1. MissesAreClean
    BY <1>1 DEF DiscoveryInv, AnswersAreBacked, KeptIsBacked, Backed, MissesAreClean
  <2>2. OneRequestAtATime
    <3> DEFINE using == {o \in Lookups : step[o] \in {"ADMISSION", "REQUEST"}}
    <3>1. \A a, b \in using : a = b
      BY <1>1 DEF DiscoveryInv, QuotaIsSound, Using
    <3>2. upcBusy <=> using # {}
      BY <1>1 DEF DiscoveryInv, QuotaIsSound, Using
    <3>3. Cardinality(using) <= 1
      <4>1. CASE using = {}
        BY <4>1, FS_EmptySet
      <4>2. ASSUME NEW o \in using PROVE Cardinality(using) = 1
        <5>1. using = {o}
          BY <3>1, <4>2
        <5> HIDE DEF using
        <5> QED BY <5>1, FS_Singleton
      <4> QED BY <4>1, <4>2
    <3>4. ASSUME NEW p \in Products
          PROVE  flights[p] # Absent <=>
                   \E o \in Lookups : Product(o) = p /\ step[o] \notin {"NONE", "DONE"}
      <4>1. flights[p] # Absent => flights[p] \in Lookups
        BY <1>1 DEF DiscoveryInv, DiscoveryTypeOK
      <4>2. Absent \notin Lookups
        BY DiscoveryAssumption
      <4> QED BY <1>1, <4>1, <4>2 DEF DiscoveryInv, OperationsAreSound, Runs
    <3> QED BY <3>2, <3>3, <3>4 DEF OneRequestAtATime
  <2> QED BY <2>1, <2>2 DEF LookupsAreHonest
<1> QED BY <1>1, DiscoveryStartsWell, DiscoveryNextKeeps, PTL DEF DiscoverySpec

-----------------------------------------------------------------------------
(* A provider call.  Where the call stands determines what was decided,    *)
(* and what of it was told and booked.                                     *)

\* Where a call stands says what was decided, and what was done about it.
CallIsAt ==
  /\ stands \in {"NEW", "ADMISSION"} => decision = "NONE"
  /\ stands \in {"NEW", "ADMISSION", "DECIDED"} =>
       admission = FALSE /\ booking = "NONE" /\ result.kind = "NONE"
  /\ stands \in {"FETCH", "BODY"} =>
       admission = TRUE /\ booking = "NONE" /\ result.kind = "NONE" /\ decision = "ADMITTED"
  /\ stands \in {"COMPLETING", "RETURNED"} => (booking = "NONE" <=> decision # "ADMITTED")

\* What was sent to be booked is the outcome of the answer, and it is sent once.
BookedIsSent ==
  /\ stands \in {"NEW", "ADMISSION", "DECIDED", "FETCH", "BODY", "COMPLETING", "RETURNED"}
  /\ booking \in {"NONE", "SENT"} => booked = <<>>
  /\ booking # "NONE" => stands \in {"COMPLETING", "RETURNED"}
  /\ booking = "OVER" => stands = "RETURNED"
  /\ booked \in {<<>>, <<BudgetOutcome(result)>>}
  /\ booking \in {"NONE", "SENT", "OVER"}

Believed == result.kind = "SUCCEEDED" => booking # "NONE" /\ Faithful(result.draft)

CallInv == request \in ImageRequests \cup TextRequests /\ CallIsAt /\ BookedIsSent /\ Believed

-----------------------------------------------------------------------------
(* Drafts.                                                                 *)

\* The last index of a non-empty set of them.
LEMMA LastIndex ==
  ASSUME NEW n \in Nat, NEW I \in SUBSET (1 .. n), I # {}
  PROVE  \E i \in I : \A k \in I : k <= i
<1> DEFINE T == {n - i : i \in I}
<1>1. T \subseteq Nat /\ T # {}
  <2>1. \A i \in I : n - i \in Nat
    OBVIOUS
  <2> QED BY <2>1
<1>2. PICK x \in T : \A y \in T : ~(<<y, x>> \in OpToRel(<, Nat))
  <2>1. IsWellFoundedOn(OpToRel(<, Nat), Nat)
    BY NatLessThanWellFounded
  <2> HIDE DEF T
  <2> QED BY <1>1, <2>1, WFMin, Zenon
<1>3. \A y \in T : ~(y < x)
  BY <1>1, <1>2 DEF OpToRel
<1>4. PICK i \in I : x = n - i
  OBVIOUS
<1>5. ASSUME NEW k \in I PROVE k <= i
  <2>1. ~(n - k < n - i)
    BY <1>3, <1>4
  <2> QED BY <2>1
<1> QED BY <1>5

LEMMA FailuresAreFailures ==
  /\ AbortFailure.kind = "FAILED"
  /\ \A code : Fallback(code).kind = "FAILED"
  /\ \A status : HttpFailure(status).kind = "FAILED"
  /\ \A code : ProviderFailure(code).kind = "FAILED"
BY DEF AbortFailure, Fallback, HttpFailure, ProviderFailure

\* responseDraft(): a draft that is believed has the last classification of every text.
LEMMA DraftsAreFaithful ==
  ASSUME NEW body \in TextBodies, ResponseDraft(body).kind = "SUCCEEDED"
  PROVE  Faithful(ResponseDraft(body).draft)
<1> DEFINE asked == {request.items[k].id : k \in DOMAIN request.items}
           named == {body.list[i].id : i \in DOMAIN body.list}
           at(id) == {i \in DOMAIN body.list : body.list[i].id = id}
           last(id) == CHOOSE i \in DOMAIN body.list :
                         body.list[i].id = id /\ \A k \in DOMAIN body.list : body.list[k].id = id => k <= i
           draft == [k \in DOMAIN request.items |-> body.list[last(request.items[k].id)]]
<1>1. /\ body.is = "DRAFT" /\ named = asked
      /\ \A i \in DOMAIN body.list : body.list[i].labels \subseteq ToSet(request.labels)
      /\ ResponseDraft(body) = Success(draft)
  BY FailuresAreFailures DEF ResponseDraft
<1>2. PICK n \in Nat : DOMAIN body.list = 1 .. n
  <2>1. body.list \in Classifications
    BY <1>1 DEF TextBodies
  <2>2. PICK S : Classifications = UNION {[1 .. k -> S] : k \in 0 .. 3}
    BY DEF Classifications, UpTo
  <2>3. PICK k \in 0 .. 3 : body.list \in [1 .. k -> S]
    BY <2>1, <2>2, Zenon
  <2> QED BY <2>3
<1>3. ASSUME NEW k \in DOMAIN request.items
      PROVE  /\ last(request.items[k].id) \in DOMAIN body.list
             /\ body.list[last(request.items[k].id)].id = request.items[k].id
  <2> DEFINE id == request.items[k].id
  <2>1. id \in named
    BY <1>1
  <2>2. at(id) # {} /\ at(id) \subseteq 1 .. n
    BY <1>2, <2>1
  <2>3. \E i \in at(id) : \A j \in at(id) : j <= i
    <3> HIDE DEF at, id
    <3> QED BY <1>2, <2>2, LastIndex
  <2>4. \E i \in DOMAIN body.list :
          body.list[i].id = id /\ \A j \in DOMAIN body.list : body.list[j].id = id => j <= i
    BY <2>3
  <2> QED BY <2>4
<1>4. /\ DOMAIN draft = DOMAIN request.items
      /\ \A k \in DOMAIN draft : draft[k].id = request.items[k].id
                                 /\ draft[k].labels \subseteq ToSet(request.labels)
  BY <1>1, <1>3
<1>5. ResponseDraft(body).draft = draft
  BY <1>1 DEF Success
<1> HIDE DEF draft
<1> QED BY <1>4, <1>5 DEF Faithful

-----------------------------------------------------------------------------
(* Steps.                                                                  *)

\* complete(): an admission there is to book has been decided, and nothing was booked yet.
LEMMA CompletingKeepsCall ==
  ASSUME CallInv, NEW is, NEW charged \in BOOLEAN,
         stands \in {"NEW", "DECIDED", "FETCH", "BODY"}, Completes(is, charged),
         charged = (decision = "ADMITTED"),
         is.kind \in {"FAILED", "SUCCEEDED"},
         is.kind = "SUCCEEDED" => charged /\ Faithful(is.draft),
         UNCHANGED <<request, signals, decision, booked>>
  PROVE  CallInv'
<1>1. /\ result' = is /\ admission' = FALSE
      /\ charged => stands' = "COMPLETING" /\ booking' = "SENT"
      /\ ~charged => stands' = "RETURNED" /\ booking' = booking
  BY DEF Completes
<1>2. booking = "NONE" /\ booked = <<>>
  BY DEF CallInv, CallIsAt, BookedIsSent
<1>3. CallIsAt'
  BY <1>1, <1>2 DEF CallIsAt
<1>4. BookedIsSent'
  BY <1>1, <1>2 DEF BookedIsSent
<1>5. Believed'
  BY <1>1 DEF Believed, Faithful
<1> QED BY <1>3, <1>4, <1>5 DEF CallInv

LEMMA CompletingFails ==
  ASSUME CallInv, NEW is, NEW charged \in BOOLEAN,
         stands \in {"NEW", "DECIDED", "FETCH", "BODY"}, Completes(is, charged),
         charged = (decision = "ADMITTED"), is.kind = "FAILED",
         UNCHANGED <<request, signals, decision, booked>>
  PROVE  CallInv'
<1>1. is.kind \in {"FAILED", "SUCCEEDED"}
  OBVIOUS
<1>2. is.kind = "SUCCEEDED" => charged /\ Faithful(is.draft)
  OBVIOUS
<1> QED BY <1>1, <1>2, CompletingKeepsCall, Zenon

LEMMA CompletingAnswers ==
  ASSUME CallInv, stands \in {"FETCH", "BODY"}, admission = TRUE, decision = "ADMITTED",
         UNCHANGED <<request, signals, decision, booked>>
  PROVE  \A is : /\ is.kind \in {"FAILED", "SUCCEEDED"}
                 /\ is.kind = "SUCCEEDED" => Faithful(is.draft)
                 /\ Completes(is, admission)
                 => CallInv'
<1> TAKE is
<1> HAVE /\ is.kind \in {"FAILED", "SUCCEEDED"}
         /\ is.kind = "SUCCEEDED" => Faithful(is.draft)
         /\ Completes(is, admission)
<1>1. PICK charged \in BOOLEAN : charged = TRUE
  OBVIOUS
<1>2. charged = (decision = "ADMITTED") /\ Completes(is, charged)
  BY <1>1
<1>3. is.kind = "SUCCEEDED" => charged /\ Faithful(is.draft)
  BY <1>1
<1>4. stands \in {"NEW", "DECIDED", "FETCH", "BODY"}
  OBVIOUS
<1> QED BY <1>2, <1>3, <1>4, CompletingKeepsCall, Zenon

LEMMA CallStartsWell == CallInit => CallInv
BY DEF CallInit, CallInv, CallIsAt, BookedIsSent, Believed, Nothing

LEMMA AskingKeepsCall ==
  ASSUME CallInv,
         \/ BeginCall \/ AfterAdmission
         \/ \E d \in {"ADMITTED", "BUDGET_EXHAUSTED", "BUDGET_UNAVAILABLE"} : Decided(d)
         \/ \E who \in {"CALLER", "TIMER"} : SignalAborts(who)
  PROVE  CallInv'
<1> USE DEF CallInv
<1>1. CASE BeginCall
  <2>1. stands = "NEW" /\ decision # "ADMITTED"
    BY <1>1 DEF BeginCall, CallIsAt
  <2>2. /\ UNCHANGED <<request, signals, decision, bodyRead, booked>>
        /\ \/ \E code : Completes(Fallback(code), FALSE)
           \/ stands' = "ADMISSION" /\ UNCHANGED <<admission, result, booking>>
    BY <1>1, Zenon DEF BeginCall
  <2>3. ASSUME NEW code, Completes(Fallback(code), FALSE) PROVE CallInv'
    <3>1. Fallback(code).kind = "FAILED"
      BY DEF Fallback
    <3>2. FALSE = (decision = "ADMITTED")
      BY <2>1
    <3> QED BY <2>1, <2>2, <2>3, <3>1, <3>2, CompletingFails
  <2>4. CASE stands' = "ADMISSION" /\ UNCHANGED <<admission, result, booking>>
    BY <2>1, <2>2, <2>4 DEF CallIsAt, BookedIsSent, Believed
  <2> QED BY <2>2, <2>3, <2>4
<1>2. CASE AfterAdmission
  <2>1. /\ stands = "DECIDED"
        /\ UNCHANGED <<request, signals, decision, bodyRead, booked>>
        /\ \/ signals # {} /\ Completes(AbortFailure, decision = "ADMITTED")
           \/ decision # "ADMITTED" /\ Completes(Fallback(decision), FALSE)
           \/ /\ decision = "ADMITTED" /\ stands' = "FETCH" /\ admission' = TRUE
              /\ UNCHANGED <<result, booking>>
    BY <1>2, Zenon DEF AfterAdmission
  <2>2. CASE Completes(AbortFailure, decision = "ADMITTED")
    <3>1. PICK charged \in BOOLEAN : charged = (decision = "ADMITTED")
      OBVIOUS
    <3> QED BY <2>1, <2>2, <3>1, FailuresAreFailures, CompletingFails
  <2>3. CASE decision # "ADMITTED" /\ Completes(Fallback(decision), FALSE)
    <3>1. FALSE = (decision = "ADMITTED")
      BY <2>3
    <3> QED BY <2>1, <2>3, <3>1, FailuresAreFailures, CompletingFails
  <2>4. CASE /\ decision = "ADMITTED" /\ stands' = "FETCH" /\ admission' = TRUE
             /\ UNCHANGED <<result, booking>>
    BY <2>1, <2>4 DEF CallIsAt, BookedIsSent, Believed
  <2> QED BY <2>1, <2>2, <2>3, <2>4
<1>3. ASSUME NEW d, Decided(d) PROVE CallInv'
  BY <1>3 DEF Decided, CallIsAt, BookedIsSent, Believed
<1>4. ASSUME NEW who, SignalAborts(who) PROVE CallInv'
  BY <1>4 DEF SignalAborts, CallIsAt, BookedIsSent, Believed, Faithful
<1> QED BY <1>1, <1>2, <1>3, <1>4

LEMMA AnsweringKeepsCall ==
  ASSUME CallInv,
         \/ Rejects \/ ReadsMore \/ BodyEnds
         \/ \E status \in {200, 400, 401, 403, 404, 408, 429, 503} : Responds(status)
  PROVE  CallInv'
<1>1. stands \in {"FETCH", "BODY"} /\ admission = TRUE /\ decision = "ADMITTED"
  BY DEF CallInv, CallIsAt, Rejects, ReadsMore, BodyEnds, Responds
<1>2. UNCHANGED <<request, signals, decision, booked>>
  BY DEF Rejects, ReadsMore, BodyEnds, Responds
<1>3. \A is : /\ is.kind \in {"FAILED", "SUCCEEDED"}
              /\ is.kind = "SUCCEEDED" => Faithful(is.draft)
              /\ Completes(is, admission)
              => CallInv'
  BY <1>1, <1>2, CompletingAnswers
<1>4. CASE Rejects
  BY <1>3, <1>4, FailuresAreFailures DEF Rejects
<1>5. CASE ReadsMore
  <2>1. CASE Completes(Fallback("INVALID_RESPONSE"), admission)
    BY <1>3, <2>1, FailuresAreFailures
  <2>2. CASE UNCHANGED <<stands, admission, result, booking>>
    BY <1>2, <2>2 DEF CallInv, CallIsAt, BookedIsSent, Believed, Faithful
  <2> QED BY <1>5, <2>1, <2>2 DEF ReadsMore
<1>6. ASSUME NEW status, Responds(status) PROVE CallInv'
  <2>1. \/ Completes(AbortFailure, admission) \/ Completes(HttpFailure(status), admission)
        \/ stands' = "BODY" /\ UNCHANGED <<admission, result, booking>>
    BY <1>6, Zenon DEF Responds
  <2>2. CASE Completes(AbortFailure, admission) \/ Completes(HttpFailure(status), admission)
    BY <1>3, <2>2, FailuresAreFailures
  <2>3. CASE stands' = "BODY" /\ UNCHANGED <<admission, result, booking>>
    BY <1>1, <1>2, <2>3 DEF CallInv, CallIsAt, BookedIsSent, Believed, Faithful
  <2> QED BY <2>1, <2>2, <2>3
<1>7. CASE BodyEnds
  <2>1. \/ Completes(AbortFailure, admission)
        \/ /\ request.provider = "VISION"
           /\ \E body \in ImageBodies : Completes(ImageResult(body), admission)
        \/ \E body \in TextBodies : Completes(ResponseDraft(body), admission)
    <3>1. CASE signals # {}
      BY <1>7, <3>1 DEF BodyEnds
    <3>2. CASE signals = {} /\ request.provider = "VISION"
      BY <1>7, <3>2 DEF BodyEnds
    <3>3. CASE signals = {} /\ request.provider # "VISION"
      BY <1>7, <3>3 DEF BodyEnds
    <3> QED BY <3>1, <3>2, <3>3
  <2>2. CASE Completes(AbortFailure, admission)
    BY <1>3, <2>2, FailuresAreFailures
  <2>3. ASSUME request.provider = "VISION", NEW body \in ImageBodies,
               Completes(ImageResult(body), admission)
        PROVE  CallInv'
    <3>1. ImageResult(body).kind \in {"FAILED", "SUCCEEDED"}
      BY FailuresAreFailures DEF ImageResult, Success
    <3>2. Faithful(ImageResult(body).draft)
      BY <2>3 DEF Faithful
    <3> QED BY <1>3, <2>3, <3>1, <3>2
  <2>4. ASSUME NEW body \in TextBodies, Completes(ResponseDraft(body), admission)
        PROVE  CallInv'
    <3>1. ResponseDraft(body).kind \in {"FAILED", "SUCCEEDED"}
      BY FailuresAreFailures DEF ResponseDraft, Success
    <3>2. ResponseDraft(body).kind = "SUCCEEDED" => Faithful(ResponseDraft(body).draft)
      BY DraftsAreFaithful
    <3> QED BY <1>3, <2>4, <3>1, <3>2
  <2> QED BY <2>1, <2>2, <2>3, <2>4
<1> QED BY <1>4, <1>5, <1>6, <1>7

LEMMA BookingKeepsCall ==
  ASSUME CallInv, BookingEnds \/ BookingTimesOut PROVE CallInv'
<1>1. CASE BookingEnds
  <2>1. /\ booking = "SENT" /\ booking' = "OVER" /\ stands' = "RETURNED" /\ booked = <<>>
        /\ booked' \in {booked, Append(booked, BudgetOutcome(result))}
        /\ UNCHANGED <<request, signals, decision, admission, bodyRead, result>>
    BY <1>1 DEF BookingEnds, CallInv, BookedIsSent
  <2>2. booked' \in {<<>>, <<BudgetOutcome(result)>>} /\ BudgetOutcome(result)' = BudgetOutcome(result)
    BY <2>1 DEF BudgetOutcome
  <2> QED BY <2>1, <2>2 DEF CallInv, CallIsAt, BookedIsSent, Believed, Faithful
<1>2. CASE BookingTimesOut
  BY <1>2 DEF BookingTimesOut, CallInv, CallIsAt, BookedIsSent, Believed, Faithful
<1> QED BY <1>1, <1>2

LEMMA CallNextKeeps == CallInv /\ [CallNext]_callVars => CallInv'
<1>1. ASSUME CallInv, UNCHANGED callVars PROVE CallInv'
  BY <1>1 DEF callVars, CallInv, CallIsAt, BookedIsSent, Believed, Faithful, BudgetOutcome
<1> QED BY <1>1, AskingKeepsCall, AnsweringKeepsCall, BookingKeepsCall DEF CallNext

\* google-vision-ocr-provider.ts and deepseek-llm-provider.ts, complete(): an admission is
\* concluded at most once and with the outcome the caller is told, also one that came after
\* the caller had gone; what was not admitted books nothing; a draft classifies the texts
\* asked about.  For any limits, texts and labels.
THEOREM AnswersAreAlwaysBooked == CallSpec => []AnswerIsBooked
<1>1. ASSUME CallInv PROVE AnswerIsBooked
  <2>1. CASE booked = <<>>
    BY <1>1, <2>1 DEF CallInv, CallIsAt, BookedIsSent, Believed, AnswerIsBooked
  <2>2. CASE booked = <<BudgetOutcome(result)>>
    <3>1. booking = "OVER" /\ stands = "RETURNED"
      BY <1>1, <2>2 DEF CallInv, BookedIsSent
    <3>2. decision = "ADMITTED"
      BY <1>1, <3>1 DEF CallInv, CallIsAt
    <3>3. Len(booked) <= 1 /\ \A i \in DOMAIN booked : booked[i] = BudgetOutcome(result)
      BY <2>2
    <3> QED BY <1>1, <3>1, <3>2, <3>3 DEF CallInv, CallIsAt, Believed, AnswerIsBooked
  <2> QED BY <1>1, <2>1, <2>2 DEF CallInv, BookedIsSent
<1> QED BY <1>1, CallStartsWell, CallNextKeeps, PTL DEF CallSpec
=============================================================================
