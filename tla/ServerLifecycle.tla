--------------------------- MODULE ServerLifecycle ---------------------------
(***************************************************************************)
(* Server processes that start, migrate the one database, serve and stop:  *)
(* start() of apps/server/src/server.ts, migrate() of postgres.ts, and the *)
(* order in which what uses the connection pool is stopped.  Processes of  *)
(* different versions bring different migration files and start together.  *)
(***************************************************************************)
EXTENDS Naturals, Sequences, FiniteSets

CONSTANTS
  Servers,
  Files,       \* Files[s]: its migrations by name, each [name, checksum]
  MaxStarts,   \* bound: how often a server is started
  NoServer     \* nobody holds the advisory lock

ASSUME LifecycleAssumption ==
  /\ NoServer \notin Servers /\ MaxStarts \in Nat
  /\ \A s \in Servers :
       /\ Len(Files[s]) \in Nat /\ DOMAIN Files[s] = 1 .. Len(Files[s])
       /\ \A i \in DOMAIN Files[s] : {"name", "checksum"} \subseteq DOMAIN Files[s][i]

\* A version adds its migrations behind those there were: names begin with a number, and
\* migrate() sorts them.
ASSUME FilesAgree ==
  \A s, t \in Servers : \A i \in DOMAIN Files[s], j \in DOMAIN Files[t] :
    Files[s][i].name = Files[t][j].name =>
      \A k \in 1 .. i : \E h \in 1 .. j : Files[t][h].name = Files[s][k].name

VARIABLES
  phase,       \* phase[s]: how far start() has come
  starts,      \* starts[s]: how often the process was started
  position,    \* position[s]: the migration it has come to
  lockedBy,    \* the holder of pg_advisory_lock
  migrations,  \* wtm_schema_migrations: name -> checksum
  why,         \* why[s]: what its migrations last failed of
  poolOpen,    \* the servers whose pool has not been ended
  closing,     \* closing[s]: how far app.close() has come
  early,       \* the servers whose signal came before the worker was started
  polling,     \* the servers whose recovery worker has a timer
  working      \* working[s]: activeRun of the worker: NO, CLAIM or JOB
lifecycleVars == <<phase, starts, position, lockedBy, migrations, why, poolOpen, closing,
                   early, polling, working>>
running == <<poolOpen, closing, early, polling, working>>
schema == <<position, lockedBy, migrations, why>>

Becomes(s, p) == phase' = [phase EXCEPT ![s] = p]

LifecycleInit ==
  /\ phase = [s \in Servers |-> "DOWN"] /\ starts = [s \in Servers |-> 0]
  /\ position = [s \in Servers |-> 1] /\ lockedBy = NoServer
  /\ migrations = <<>> /\ why = [s \in Servers |-> "NONE"]
  /\ poolOpen = {} /\ closing = [s \in Servers |-> "NO"] /\ early = {}
  /\ polling = {} /\ working = [s \in Servers |-> "NO"]

Boot(s) ==
  /\ phase[s] = "DOWN" /\ starts[s] < MaxStarts
  /\ Becomes(s, "LOCK") /\ starts' = [starts EXCEPT ![s] = @ + 1]
  /\ position' = [position EXCEPT ![s] = 1] /\ why' = [why EXCEPT ![s] = "NONE"]
  /\ poolOpen' = poolOpen \cup {s} /\ closing' = [closing EXCEPT ![s] = "NO"]
  /\ early' = early \ {s}
  /\ UNCHANGED <<lockedBy, migrations, polling, working>>

-----------------------------------------------------------------------------
(* migrate()                                                               *)

\* Mutant: the lock is tried and not waited for.
TakeLock_Tried(s) ==
  /\ phase[s] = "LOCK"
  /\ lockedBy' = IF lockedBy = NoServer THEN s ELSE lockedBy
  /\ Becomes(s, "CHECK") /\ UNCHANGED <<starts, position, migrations, why, running>>

TakeLock(s) ==
  /\ phase[s] = "LOCK" /\ lockedBy = NoServer
  /\ lockedBy' = s /\ Becomes(s, "CHECK")
  /\ UNCHANGED <<starts, position, migrations, why, running>>

Released(s) == IF lockedBy = s THEN NoServer ELSE lockedBy
File(s) == Files[s][position[s]]
Recorded(s) == [n \in DOMAIN migrations \cup {File(s).name} |->
                 IF n = File(s).name THEN File(s).checksum ELSE migrations[n]]

\* finally: the lock is released, or it ends with its session.
MigrateThrows(s, reason) ==
  /\ lockedBy' = Released(s) /\ Becomes(s, "FAILING") /\ why' = [why EXCEPT ![s] = reason]

CheckMigration(s) ==
  /\ phase[s] = "CHECK" /\ position[s] <= Len(Files[s])
  /\ IF File(s).name \notin DOMAIN migrations
     THEN Becomes(s, "TRANSACTION") /\ UNCHANGED <<position, lockedBy, why>>
     ELSE IF migrations[File(s).name] = File(s).checksum
     THEN position' = [position EXCEPT ![s] = @ + 1] /\ UNCHANGED <<phase, lockedBy, why>>
     ELSE MigrateThrows(s, "CHECKSUM") /\ UNCHANGED position
  /\ UNCHANGED <<starts, migrations, running>>

\* The statements of the file and its row, in one transaction; the primary key refuses a
\* second row.
ApplyMigration(s) ==
  /\ phase[s] = "TRANSACTION"
  /\ IF File(s).name \in DOMAIN migrations
     THEN MigrateThrows(s, "CONFLICT") /\ UNCHANGED <<position, migrations>>
     ELSE /\ migrations' = Recorded(s) /\ position' = [position EXCEPT ![s] = @ + 1]
          /\ Becomes(s, "CHECK") /\ UNCHANGED <<lockedBy, why>>
  /\ UNCHANGED <<starts, running>>

\* A statement fails and all is rolled back, or the answer to COMMIT is lost.
MigrationFails(s) ==
  /\ phase[s] = "TRANSACTION" /\ File(s).name \notin DOMAIN migrations
  /\ migrations' \in {migrations, Recorded(s)}
  /\ MigrateThrows(s, "STATEMENT")
  /\ UNCHANGED <<starts, position, running>>

Migrated(s) ==
  /\ phase[s] = "CHECK" /\ position[s] > Len(Files[s])
  /\ lockedBy' = Released(s) /\ Becomes(s, "STARTING")
  /\ UNCHANGED <<starts, position, migrations, why, running>>

-----------------------------------------------------------------------------
(* start(), and the recovery worker it starts last                         *)

\* Everything is built and the signal handlers are installed.
BeginListen(s) ==
  /\ phase[s] = "STARTING" /\ Becomes(s, "LISTEN")
  /\ UNCHANGED <<starts, schema, running>>

StartFails(s) ==
  /\ phase[s] \in {"STARTING", "LISTEN"} /\ Becomes(s, "FAILING")
  /\ UNCHANGED <<starts, schema, running>>

\* listen() resolves; the worker is started whether or not a signal came meanwhile.
Serve(s) ==
  /\ phase[s] = "LISTEN" /\ Becomes(s, "SERVING")
  /\ polling' = polling \cup {s} /\ working' = [working EXCEPT ![s] = "CLAIM"]
  /\ UNCHANGED <<starts, schema, poolOpen, closing, early>>

WorkerTicks(s) ==
  /\ s \in polling /\ working[s] = "NO" /\ working' = [working EXCEPT ![s] = "CLAIM"]
  /\ UNCHANGED <<phase, starts, schema, poolOpen, closing, early, polling>>

\* A pool that has been ended refuses, and the batch is over.
WorkerClaims(s) ==
  /\ working[s] = "CLAIM"
  /\ working' \in {[working EXCEPT ![s] = w] : w \in IF s \in poolOpen THEN {"JOB", "NO"} ELSE {"NO"}}
  /\ UNCHANGED <<phase, starts, schema, poolOpen, closing, early, polling>>

WorkerFinishes(s) ==
  /\ working[s] = "JOB"
  /\ working' \in {[working EXCEPT ![s] = w] : w \in {"CLAIM", "NO"}}
  /\ UNCHANGED <<phase, starts, schema, poolOpen, closing, early, polling>>

-----------------------------------------------------------------------------
(* The end                                                                 *)

Signal(s) ==
  /\ phase[s] \in {"LISTEN", "SERVING"} /\ closing[s] = "NO"
  /\ closing' = [closing EXCEPT ![s] = "REQUESTS"]
  /\ early' = IF phase[s] = "LISTEN" THEN early \cup {s} ELSE early
  /\ UNCHANGED <<phase, starts, schema, poolOpen, polling, working>>

\* Mutant: the timer is cleared and nobody waits for the run.
StopWorker_TimerOnly(s) ==
  /\ closing[s] = "REQUESTS"
  /\ polling' = polling \ {s}
  /\ closing' = [closing EXCEPT ![s] = "QUEUE"]
  /\ UNCHANGED <<phase, starts, schema, poolOpen, early, working>>

\* onClose, when the requests have been answered: stop() of the worker awaits the run there is.
StopWorker(s) ==
  /\ closing[s] = "REQUESTS"
  /\ polling' = polling \ {s}
  /\ closing' = [closing EXCEPT ![s] = IF working[s] = "NO" THEN "QUEUE" ELSE "WORKER"]
  /\ UNCHANGED <<phase, starts, schema, poolOpen, early, working>>

WorkerStopped(s) ==
  /\ closing[s] = "WORKER" /\ working[s] = "NO"
  /\ closing' = [closing EXCEPT ![s] = "QUEUE"]
  /\ UNCHANGED <<phase, starts, schema, poolOpen, early, polling, working>>

\* The runtime's queue has been drained (OcrQueue), and the pool is ended.
ClosePool(s) ==
  /\ closing[s] = "QUEUE"
  /\ closing' = [closing EXCEPT ![s] = "DONE"] /\ poolOpen' = poolOpen \ {s}
  /\ UNCHANGED <<phase, starts, schema, early, polling, working>>

Ended(s) ==
  /\ Becomes(s, "DOWN") /\ poolOpen' = poolOpen \ {s}
  /\ closing' = [closing EXCEPT ![s] = "NO"] /\ early' = early \ {s}
  /\ polling' = polling \ {s} /\ working' = [working EXCEPT ![s] = "NO"]

\* Nothing holds the process any more, the worker's timer least of all; or start() failed,
\* and what it had opened is closed.
Exit(s) ==
  /\ \/ phase[s] = "SERVING" /\ closing[s] = "DONE" /\ working[s] = "NO"
     \/ phase[s] = "FAILING"
  /\ Ended(s) /\ UNCHANGED <<starts, schema>>

\* What the database held for the process ends with its session.
Killed(s) ==
  /\ phase[s] # "DOWN" /\ Ended(s) /\ lockedBy' = Released(s)
  /\ UNCHANGED <<starts, position, migrations, why>>

LifecycleStep(s) ==
  \/ Boot(s) \/ TakeLock(s) \/ CheckMigration(s) \/ ApplyMigration(s) \/ MigrationFails(s) \/ Migrated(s)
  \/ BeginListen(s) \/ StartFails(s) \/ Serve(s) \/ WorkerTicks(s) \/ WorkerClaims(s) \/ WorkerFinishes(s)
  \/ Signal(s) \/ StopWorker(s) \/ WorkerStopped(s) \/ ClosePool(s) \/ Exit(s) \/ Killed(s)

LifecycleNext == \E s \in Servers : LifecycleStep(s)

LifecycleSpec == LifecycleInit /\ [][LifecycleNext]_lifecycleVars

-----------------------------------------------------------------------------
\* Processes that start together, crash and are started again: no one fails to start because
\* another migrates, no migration runs on a database that lacks an earlier one, and whoever
\* has come through serves the schema its own files describe.
MigrationsAreSerial ==
  \A s \in Servers :
    /\ why[s] # "CONFLICT"
    /\ lockedBy = s <=> phase[s] \in {"CHECK", "TRANSACTION"}
    /\ \A i \in DOMAIN Files[s] : Files[s][i].name \in DOMAIN migrations =>
         \A k \in 1..i : Files[s][k].name \in DOMAIN migrations
    /\ phase[s] \in {"STARTING", "LISTEN", "SERVING"} =>
         \A i \in DOMAIN Files[s] :
           /\ Files[s][i].name \in DOMAIN migrations
           /\ migrations[Files[s][i].name] = Files[s][i].checksum

\* The recovery worker never has a job in hand, nor a timer, when the pool it journals to has
\* been ended, unless the signal came before it was started.
PoolOutlivesItsUsers ==
  \A s \in Servers \ (poolOpen \cup early) : working[s] # "JOB" /\ s \notin polling
=============================================================================
