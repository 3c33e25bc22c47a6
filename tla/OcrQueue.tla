------------------------------ MODULE OcrQueue ------------------------------
(***************************************************************************)
(* The bounded OCR work queue of                                           *)
(* packages/infrastructure/src/queued-ocr-provider.ts: at most Concurrency *)
(* provider calls run at once, at most MaxPending requests wait behind     *)
(* them, each with a wait timer and, if the request carries a signal, an   *)
(* abort listener; shutdown() drains what was admitted.                    *)
(*                                                                         *)
(* JavaScript runs each handler to completion, so a handler is one action. *)
(* The one exception is pump(), whose while loop is unfolded: while        *)
(* "pumping" holds only its iterations are enabled.  Time is abstracted: a *)
(* wait timer that is armed may fire at any moment.                        *)
(***************************************************************************)
EXTENDS Naturals, Sequences, FiniteSets

CONSTANTS
  Jobs,          \* the requests that callers may make, one promise each
  Signalled,     \* those whose request carries an AbortSignal
  Concurrency,   \* options.concurrency
  MaxPending     \* options.maxPending

\* integerInRange accepts 1..100 and 0..10000; nothing below depends on the
\* upper limits.
ASSUME ConcurrencyAssumption == Concurrency \in Nat \ {0}
ASSUME MaxPendingAssumption == MaxPending \in Nat
ASSUME SignalledAssumption == Signalled \subseteq Jobs

VARIABLES
  state,         \* OcrQueueState
  pending,       \* the array of jobs that wait for a slot
  activeCount,   \* the counter of running provider calls
  timers,        \* jobs whose waitTimer is armed
  listeners,     \* jobs whose abortListener is attached
  inFlight,      \* jobs awaited by an async closure of start()
  aborted,       \* jobs whose signal has been aborted
  promise,       \* what the caller of recognize() holds
  pumping        \* TRUE between the iterations of the loop in pump()

vars == <<state, pending, activeCount, timers, listeners, inFlight,
          aborted, promise, pumping>>

States == {"OPEN", "SHUTTING_DOWN", "CLOSED"}

\* Results the provider can settle with: its own success or failure, or a
\* rejection, which start() turns into OCR_PROVIDER_UNAVAILABLE.
ProviderAnswers == {"SUCCEEDED", "FAILED", "OCR_PROVIDER_UNAVAILABLE"}

QueueAnswers ==
  {"OCR_ABORTED", "OCR_OVERLOADED", "OCR_QUEUE_TIMEOUT", "OCR_SHUTTING_DOWN"}

Answers == ProviderAnswers \cup QueueAnswers

Queued == {pending[i] : i \in 1..Len(pending)}

Settled(j) == promise[j] \in Answers

\* pending.splice(pending.indexOf(job), 1)
Without(queue, j) ==
  LET p == CHOOSE i \in 1..Len(queue) : queue[i] = j
  IN  [i \in 1..(Len(queue) - 1) |->
         IF i < p THEN queue[i] ELSE queue[i + 1]]

\* Mutant: pop() in place of shift(), the newest job goes first.
Shift_Newest(queue) ==
  [job |-> queue[Len(queue)], rest |-> SubSeq(queue, 1, Len(queue) - 1)]

\* pending.shift()
Shift(queue) == [job |-> Head(queue), rest |-> Tail(queue)]

SlotFree == activeCount < Concurrency

\* Mutant: maxPending itself is let in.
HasRoom_OffByOne == Len(pending) <= MaxPending

HasRoom == Len(pending) < MaxPending

Admits == state = "OPEN"

\* Mutant: nobody settles the shutdown.
SettleShutdown_Never(s, active, queue) == s

\* settleShutdown(), given the values its caller has just assigned.
SettleShutdown(s, active, queue) ==
  IF s = "SHUTTING_DOWN" /\ active = 0 /\ queue = <<>> THEN "CLOSED" ELSE s

Init ==
  /\ state = "OPEN"
  /\ pending = <<>>
  /\ activeCount = 0
  /\ timers = {}
  /\ listeners = {}
  /\ inFlight = {}
  /\ aborted = {}
  /\ promise = [j \in Jobs |-> "NOT_CALLED"]
  /\ pumping = FALSE

\* Mutant: the timer is cleared and the abort listener stays.
CleanupWait_TimerOnly(j) ==
  /\ timers' = timers \ {j}
  /\ UNCHANGED listeners

CleanupWait(j) ==
  /\ timers' = timers \ {j}
  /\ listeners' = listeners \ {j}

\* start(): the call is made; its answer arrives in ProviderSettles.
Start(j) ==
  /\ CleanupWait(j)
  /\ activeCount' = activeCount + 1
  /\ inFlight' = inFlight \cup {j}

Answer(j, a) ==
  /\ promise' = [promise EXCEPT ![j] = a]
  /\ UNCHANGED <<state, pending, activeCount, timers, listeners, inFlight,
                 aborted, pumping>>

-----------------------------------------------------------------------------
(* recognize(), one action per outcome, in the order of its early returns *)

Calls(j) == ~pumping /\ promise[j] = "NOT_CALLED"

RecognizeAborted(j) ==
  /\ Calls(j)
  /\ j \in aborted
  /\ Answer(j, "OCR_ABORTED")

RecognizeShuttingDown(j) ==
  /\ Calls(j)
  /\ j \notin aborted
  /\ ~Admits
  /\ Answer(j, "OCR_SHUTTING_DOWN")

RecognizeStart(j) ==
  /\ Calls(j)
  /\ j \notin aborted
  /\ Admits
  /\ SlotFree
  /\ Start(j)
  /\ promise' = [promise EXCEPT ![j] = "WAITING"]
  /\ UNCHANGED <<state, pending, aborted, pumping>>

RecognizeOverloaded(j) ==
  /\ Calls(j)
  /\ j \notin aborted
  /\ Admits
  /\ ~SlotFree
  /\ ~HasRoom
  /\ Answer(j, "OCR_OVERLOADED")

\* setTimeout(..., waitTimeoutMs)
ArmTimer(j) == timers \cup {j}

RecognizeEnqueue(j) ==
  /\ Calls(j)
  /\ j \notin aborted
  /\ Admits
  /\ ~SlotFree
  /\ HasRoom
  /\ pending' = Append(pending, j)
  /\ timers' = ArmTimer(j)
  /\ listeners' = IF j \in Signalled THEN listeners \cup {j} ELSE listeners
  /\ promise' = [promise EXCEPT ![j] = "WAITING"]
  /\ UNCHANGED <<state, activeCount, inFlight, aborted, pumping>>

-----------------------------------------------------------------------------
(* A waiting job is given up by its timer or by its signal *)

\* removePending() succeeded: the job is spliced out and answered, and the
\* queue may have been the last thing a shutdown was waiting for.
GiveUp(j, a) ==
  /\ pending' = Without(pending, j)
  /\ CleanupWait(j)
  /\ promise' = [promise EXCEPT ![j] = a]
  /\ state' = SettleShutdown(state, activeCount, pending')
  /\ UNCHANGED <<activeCount, inFlight, pumping>>

WaitTimeout(j) ==
  /\ ~pumping
  /\ j \in timers
  /\ IF j \in Queued
     THEN GiveUp(j, "OCR_QUEUE_TIMEOUT")
     ELSE /\ timers' = timers \ {j}
          /\ UNCHANGED <<state, pending, activeCount, listeners, inFlight,
                         promise, pumping>>
  /\ UNCHANGED aborted

\* The caller aborts its signal; a listener still attached runs at once.
Abort(j) ==
  /\ ~pumping
  /\ j \in Signalled \ aborted
  /\ aborted' = aborted \cup {j}
  /\ \/ /\ j \in listeners \cap Queued
        /\ GiveUp(j, "OCR_ABORTED")
     \/ /\ j \notin listeners \cap Queued
        /\ listeners' = listeners \ {j}
        /\ UNCHANGED <<state, pending, activeCount, timers, inFlight,
                       promise, pumping>>

-----------------------------------------------------------------------------
(* The provider answers and the freed slot is handed on *)

\* activeCount -= 1
Release(active) == active - 1

ProviderSettles(j, a) ==
  /\ ~pumping
  /\ j \in inFlight
  /\ promise' = [promise EXCEPT ![j] = a]
  /\ inFlight' = inFlight \ {j}
  /\ activeCount' = Release(activeCount)
  /\ pumping' = TRUE
  /\ UNCHANGED <<state, pending, timers, listeners, aborted>>

\* One iteration of the loop: the head is started, unless it was aborted.
PumpJob ==
  /\ pumping
  /\ SlotFree
  /\ pending # <<>>
  /\ LET j == Shift(pending).job
     IN  /\ pending' = Shift(pending).rest
         /\ IF j \in aborted
            THEN /\ CleanupWait(j)
                 /\ promise' = [promise EXCEPT ![j] = "OCR_ABORTED"]
                 /\ UNCHANGED <<activeCount, inFlight>>
            ELSE /\ Start(j)
                 /\ UNCHANGED promise
  /\ UNCHANGED <<state, aborted, pumping>>

PumpEnds ==
  /\ pumping
  /\ ~SlotFree \/ pending = <<>>
  /\ pumping' = FALSE
  /\ state' = SettleShutdown(state, activeCount, pending)
  /\ UNCHANGED <<pending, activeCount, timers, listeners, inFlight, aborted,
                 promise>>

Shutdown ==
  /\ ~pumping
  /\ state' = SettleShutdown(IF state = "OPEN" THEN "SHUTTING_DOWN" ELSE state,
                             activeCount, pending)
  /\ UNCHANGED <<pending, activeCount, timers, listeners, inFlight, aborted,
                 promise, pumping>>

Recognize(j) ==
  \/ RecognizeAborted(j)
  \/ RecognizeShuttingDown(j)
  \/ RecognizeStart(j)
  \/ RecognizeOverloaded(j)
  \/ RecognizeEnqueue(j)

Next ==
  \/ \E j \in Jobs : Recognize(j) \/ WaitTimeout(j) \/ Abort(j)
  \/ \E j \in Jobs, a \in ProviderAnswers : ProviderSettles(j, a)
  \/ PumpJob
  \/ PumpEnds
  \/ Shutdown

Spec == Init /\ [][Next]_vars

\* A handler that has begun runs to its end.
RunToCompletion == WF_vars(PumpJob \/ PumpEnds)

\* The provider bounds every call by its own timeout
\* (google-vision-ocr-provider.ts), so each call settles.
ProviderResponds ==
  \A j \in Jobs : WF_vars(\E a \in ProviderAnswers : ProviderSettles(j, a))

TimersFire == \A j \in Jobs : WF_vars(WaitTimeout(j))

\* Of the provider nothing is assumed.
FairSpec == Spec /\ RunToCompletion /\ TimersFire

-----------------------------------------------------------------------------
TypeOK ==
  /\ state \in States
  /\ pending \in Seq(Jobs)
  /\ activeCount \in Nat
  /\ timers \subseteq Jobs
  /\ listeners \subseteq Signalled
  /\ inFlight \subseteq Jobs
  /\ aborted \subseteq Signalled
  /\ promise \in [Jobs -> Answers \cup {"NOT_CALLED", "WAITING"}]
  /\ pumping \in BOOLEAN

\* A job is in the queue at most once.
NoDuplicates ==
  \A i, k \in 1..Len(pending) : pending[i] = pending[k] => i = k

\* Every promise that is still open is owned by exactly one of the queue and
\* a running call, and neither of them owns a promise that is settled: no
\* request is lost and none is answered twice, whatever the order of timers,
\* aborts, completions and shutdown.
OneOwner ==
  /\ \A j \in Jobs : promise[j] = "WAITING" <=> j \in Queued \cup inFlight
  /\ Queued \cap inFlight = {}
  /\ NoDuplicates

\* The counter that admission reads is the number of calls that really run,
\* and the two bounds of the queue hold.
CountedWithinBounds ==
  /\ activeCount = Cardinality(inFlight)
  /\ activeCount <= Concurrency
  /\ Len(pending) <= MaxPending

\* Between handlers no request waits while a slot is free.
WorkConserving ==
  ~pumping /\ pending # <<>> => activeCount = Concurrency

\* Timers and listeners exist exactly while their job waits: none leaks into
\* the running call, none is missing from a waiting one, so no waiting job
\* has an aborted signal.
WaitHandlesMatchQueue ==
  /\ timers = Queued
  /\ listeners = Queued \cap Signalled
  /\ Queued \cap aborted = {}

\* shutdown() resolves only when everything admitted has been answered, and
\* a queue that is being shut down with nothing left is closed at once.
ClosedIsDrained ==
  ~pumping =>
    /\ state = "CLOSED" => pending = <<>> /\ inFlight = {}
    /\ state = "SHUTTING_DOWN" => pending # <<>> \/ inFlight # {}

\* What must hold between any two handlers for the rest to be true.
QueueIsSound ==
  /\ TypeOK /\ OneOwner /\ CountedWithinBounds /\ WorkConserving
  /\ WaitHandlesMatchQueue /\ ClosedIsDrained

\* A later job never starts while an earlier one is left behind waiting.
\* Once shutdown() was called nothing more enters the queue or the provider,
\* and what had entered is never answered OCR_SHUTTING_DOWN.
FirstComeFirstServed ==
  [][/\ \A i, k \in 1..Len(pending) :
          i < k /\ pending[k] \in inFlight'
          => pending[i] \notin {pending'[m] : m \in 1..Len(pending')}
     /\ state # "OPEN" =>
          \A j \in Jobs : promise[j] = "NOT_CALLED" =>
                            promise'[j] \in QueueAnswers \cup {"NOT_CALLED"}
     /\ \A j \in Jobs : promise[j] = "WAITING" =>
                            promise'[j] # "OCR_SHUTTING_DOWN"]_vars

\* Every call to recognize() that was admitted is answered.
EveryCallAnswered ==
  \A j \in Jobs : promise[j] = "WAITING" ~> Settled(j)

\* shutdown() resolves.
ShutdownCompletes == state = "SHUTTING_DOWN" ~> state = "CLOSED"

\* A caller does not wait in the queue for ever, even behind calls that
\* never return.
NobodyWaitsForever == \A j \in Jobs : j \in Queued ~> j \notin Queued

\* Nobody waits in the queue for ever, even behind calls that never return;
\* and if the provider answers, everybody is answered and shutdown resolves.
NobodyIsForgotten ==
  /\ NobodyWaitsForever
  /\ ProviderResponds => EveryCallAnswered /\ ShutdownCompletes

-----------------------------------------------------------------------------
(* OcrQueue implements BoundedService *)

PhaseOf(j) ==
  IF promise[j] = "NOT_CALLED" THEN "idle"
  ELSE IF j \in inFlight THEN "served"
  ELSE IF promise[j] = "WAITING" THEN "waiting"
  ELSE "gone"

GateOf ==
  IF state = "OPEN" THEN "open"
  ELSE IF state = "SHUTTING_DOWN" THEN "draining" ELSE "closed"

Service == INSTANCE BoundedService
             WITH Clients <- Jobs, Slots <- Concurrency, Room <- MaxPending,
                  phase <- [j \in Jobs |-> PhaseOf(j)], gate <- GateOf

\* The queue with all its machinery behaves as the bounded service.
ImplementsBoundedService == Service!Spec
=============================================================================
