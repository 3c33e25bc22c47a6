--------------------------- MODULE OcrQueueProofs ---------------------------
(***************************************************************************)
(* Proofs about OcrQueue for every set of jobs, every concurrency and      *)
(* every queue length.                                                     *)
(***************************************************************************)
EXTENDS OcrQueue, SequenceTheorems, FiniteSetTheorems, TLAPS

Elems(q) == {q[i] : i \in 1..Len(q)}

Distinct(q) == \A i, k \in 1..Len(q) : q[i] = q[k] => i = k

\* Splicing out a job leaves the other jobs, in a queue one shorter.
LEMMA WithoutProperties ==
  ASSUME NEW S, NEW q \in Seq(S), NEW j \in Elems(q), Distinct(q)
  PROVE  /\ Without(q, j) \in Seq(S)
         /\ Elems(Without(q, j)) = Elems(q) \ {j}
         /\ Distinct(Without(q, j))
         /\ Len(Without(q, j)) = Len(q) - 1
<1> DEFINE p == CHOOSE i \in 1..Len(q) : q[i] = j
           r == Without(q, j)
<1>1. p \in 1..Len(q) /\ q[p] = j
  BY DEF Elems
<1>2. Len(q) \in Nat /\ \A i \in 1..Len(q) : q[i] \in S
  OBVIOUS
<1>3. r = [i \in 1..(Len(q) - 1) |-> IF i < p THEN q[i] ELSE q[i + 1]]
  BY DEF Without
<1> HIDE DEF p, r
<1>4. \A i \in 1..(Len(q) - 1) : r[i] = IF i < p THEN q[i] ELSE q[i + 1]
  BY <1>3
<1>5. \A i \in 1..(Len(q) - 1) : r[i] \in S
  BY <1>1, <1>2, <1>4
<1>6. r \in Seq(S) /\ Len(r) = Len(q) - 1
  <2>1. Len(q) - 1 \in Nat
    BY <1>1, <1>2
  <2>2. r \in [1..(Len(q) - 1) -> S]
    BY <1>3, <1>5
  <2> QED
    BY <2>1, <2>2
<1>7. Elems(r) \subseteq Elems(q) \ {j}
  <2> SUFFICES ASSUME NEW i \in 1..Len(r)
               PROVE  r[i] \in Elems(q) \ {j}
    BY DEF Elems
  <2>1. CASE i < p
    <3>1. r[i] = q[i] /\ i \in 1..Len(q) /\ i # p
      BY <1>1, <1>2, <1>4, <1>6, <2>1
    <3> QED
      BY <1>1, <3>1 DEF Elems, Distinct
  <2>2. CASE ~(i < p)
    <3>1. r[i] = q[i + 1] /\ i + 1 \in 1..Len(q) /\ i + 1 # p
      BY <1>1, <1>2, <1>4, <1>6, <2>2
    <3> QED
      BY <1>1, <3>1 DEF Elems, Distinct
  <2> QED
    BY <2>1, <2>2
<1>8. Elems(q) \ {j} \subseteq Elems(r)
  <2> SUFFICES ASSUME NEW i \in 1..Len(q), q[i] # j
               PROVE  q[i] \in Elems(r)
    BY DEF Elems
  <2>1. CASE i < p
    <3>1. i \in 1..Len(r) /\ r[i] = q[i]
      BY <1>1, <1>2, <1>4, <1>6, <2>1
    <3> QED
      BY <3>1 DEF Elems
  <2>2. CASE ~(i < p)
    <3>1. i # p
      BY <1>1
    <3>2. i - 1 \in 1..Len(r) /\ r[i - 1] = q[i]
      BY <1>1, <1>2, <1>4, <1>6, <2>2, <3>1
    <3> QED
      BY <3>2 DEF Elems
  <2> QED
    BY <2>1, <2>2
<1>9. Distinct(r)
  <2> SUFFICES ASSUME NEW i \in 1..Len(r), NEW k \in 1..Len(r), r[i] = r[k]
               PROVE  i = k
    BY DEF Distinct
  <2> DEFINE at(m) == IF m < p THEN m ELSE m + 1
  <2>1. \A m \in 1..Len(r) : at(m) \in 1..Len(q) /\ r[m] = q[at(m)]
    BY <1>1, <1>2, <1>4, <1>6
  <2>2. at(i) = at(k)
    BY <2>1 DEF Distinct
  <2> QED
    BY <2>2, <1>1, <1>2, <1>6
<1> QED
  BY <1>6, <1>7, <1>8, <1>9 DEF r

\* Taking the head off leaves the other jobs.
LEMMA TailProperties ==
  ASSUME NEW S, NEW q \in Seq(S), q # <<>>, Distinct(q)
  PROVE  /\ Tail(q) \in Seq(S)
         /\ Head(q) \in Elems(q)
         /\ Elems(Tail(q)) = Elems(q) \ {Head(q)}
         /\ Distinct(Tail(q))
         /\ Len(Tail(q)) = Len(q) - 1
<1>1. /\ Tail(q) \in Seq(S)
      /\ Len(Tail(q)) = Len(q) - 1
      /\ \A i \in 1..Len(Tail(q)) : Tail(q)[i] = q[i + 1]
  BY HeadTailProperties
<1>2. Len(q) \in Nat /\ Len(q) >= 1 /\ Head(q) = q[1]
  OBVIOUS
<1>3. Head(q) \in Elems(q)
  BY <1>2 DEF Elems
<1>4. Elems(Tail(q)) \subseteq Elems(q) \ {Head(q)}
  <2> SUFFICES ASSUME NEW i \in 1..Len(Tail(q))
               PROVE  Tail(q)[i] \in Elems(q) \ {Head(q)}
    BY DEF Elems
  <2>1. i + 1 \in 1..Len(q) /\ i + 1 # 1 /\ 1 \in 1..Len(q)
    BY <1>1, <1>2
  <2> QED
    BY <1>1, <1>2, <2>1 DEF Elems, Distinct
<1>5. Elems(q) \ {Head(q)} \subseteq Elems(Tail(q))
  <2> SUFFICES ASSUME NEW i \in 1..Len(q), q[i] # Head(q)
               PROVE  q[i] \in Elems(Tail(q))
    BY DEF Elems
  <2>1. i - 1 \in 1..Len(Tail(q)) /\ Tail(q)[i - 1] = q[i]
    BY <1>1, <1>2
  <2> QED
    BY <2>1 DEF Elems
<1>6. Distinct(Tail(q))
  <2> SUFFICES ASSUME NEW i \in 1..Len(Tail(q)), NEW k \in 1..Len(Tail(q)),
                      Tail(q)[i] = Tail(q)[k]
               PROVE  i = k
    BY DEF Distinct
  <2>1. i + 1 \in 1..Len(q) /\ k + 1 \in 1..Len(q) /\ q[i + 1] = q[k + 1]
    BY <1>1, <1>2
  <2>2. i + 1 = k + 1
    BY <2>1 DEF Distinct
  <2> QED
    BY <2>2
<1> QED
  BY <1>1, <1>3, <1>4, <1>5, <1>6

\* Joining the queue adds one job at its end.
LEMMA AppendElems ==
  ASSUME NEW S, NEW q \in Seq(S), NEW j \in S, j \notin Elems(q), Distinct(q)
  PROVE  /\ Append(q, j) \in Seq(S)
         /\ Elems(Append(q, j)) = Elems(q) \cup {j}
         /\ Distinct(Append(q, j))
         /\ Len(Append(q, j)) = Len(q) + 1
<1> DEFINE r == Append(q, j)
<1>1. /\ r \in Seq(S)
      /\ Len(r) = Len(q) + 1
      /\ \A i \in 1..Len(q) : r[i] = q[i]
      /\ r[Len(q) + 1] = j
  BY AppendProperties
<1>2. Len(q) \in Nat
  OBVIOUS
<1> HIDE DEF r
<1>3. \A i \in 1..Len(r) : i \in 1..Len(q) \/ i = Len(q) + 1
  BY <1>1, <1>2
<1>4. \A i \in 1..Len(q) : i \in 1..Len(r)
  BY <1>1, <1>2
<1>5. Len(q) + 1 \in 1..Len(r)
  BY <1>1, <1>2
<1>6. Elems(r) = Elems(q) \cup {j}
  BY <1>1, <1>3, <1>4, <1>5 DEF Elems
<1>7. Distinct(r)
  BY <1>1, <1>3 DEF Elems, Distinct
<1> QED
  BY <1>1, <1>6, <1>7 DEF r
-----------------------------------------------------------------------------
(***************************************************************************)
(* The inductive invariant.  Beside the properties the runs check it says  *)
(* that the set of running calls is finite, so that it can be counted, and *)
(* what the state of the queue is while pump() is between two iterations.  *)
(***************************************************************************)
PumpingIsNotClosed == pumping => state # "CLOSED"

IInv ==
  /\ TypeOK
  /\ IsFiniteSet(inFlight)
  /\ OneOwner
  /\ CountedWithinBounds
  /\ WorkConserving
  /\ WaitHandlesMatchQueue
  /\ ClosedIsDrained
  /\ PumpingIsNotClosed

USE ConcurrencyAssumption, MaxPendingAssumption, SignalledAssumption

LEMMA Initially == Init => IInv
<1> SUFFICES ASSUME Init PROVE IInv
  OBVIOUS
<1> USE DEF Init
<1>1. Queued = {} /\ Len(pending) = 0
  BY DEF Queued
<1>2. TypeOK
  <2>1. pending \in Seq(Jobs)
    BY EmptySeq
  <2>2. promise \in [Jobs -> Answers \cup {"NOT_CALLED", "WAITING"}]
    OBVIOUS
  <2> QED
    BY <2>1, <2>2 DEF TypeOK, States
<1>3. OneOwner
  BY <1>1 DEF OneOwner, NoDuplicates
<1>4. IsFiniteSet(inFlight) /\ CountedWithinBounds
  BY <1>1, FS_EmptySet DEF CountedWithinBounds
<1>5. WorkConserving /\ ClosedIsDrained /\ PumpingIsNotClosed
  BY DEF WorkConserving, ClosedIsDrained, PumpingIsNotClosed
<1>6. WaitHandlesMatchQueue
  BY <1>1 DEF WaitHandlesMatchQueue
<1> QED
  BY <1>2, <1>3, <1>4, <1>5, <1>6 DEF IInv

\* The parts of IInv that the queue as a sequence is about, in terms of the
\* lemmas above.
LEMMA QueueFacts ==
  ASSUME IInv
  PROVE  /\ pending \in Seq(Jobs)
         /\ Queued = Elems(pending)
         /\ Distinct(pending)
         /\ Queued \subseteq Jobs
         /\ pending = <<>> <=> Queued = {}
<1>1. pending \in Seq(Jobs) /\ Queued = Elems(pending) /\ Distinct(pending)
  BY DEF IInv, TypeOK, OneOwner, NoDuplicates, Queued, Elems, Distinct
<1>2. Queued \subseteq Jobs
  BY <1>1 DEF Elems
<1>3. pending # <<>> => pending[1] \in Queued
  BY <1>1 DEF Elems
<1>4. pending = <<>> => Queued = {}
  BY DEF Queued
<1> QED
  BY <1>1, <1>2, <1>3, <1>4

\* A call that is answered on the spot changes only its own promise.
LEMMA AnswerStep ==
  ASSUME IInv, NEW j \in Jobs, Calls(j), NEW a \in QueueAnswers, Answer(j, a)
  PROVE  IInv'
<1>1. promise[j] = "NOT_CALLED" /\ ~pumping
  BY DEF Calls
<1>2. j \notin Queued \cup inFlight
  BY <1>1 DEF IInv, OneOwner
<1>3. promise' = [promise EXCEPT ![j] = a]
      /\ UNCHANGED <<state, pending, activeCount, timers, listeners, inFlight,
                     aborted, pumping>>
  BY DEF Answer
<1>4. Queued' = Queued
  BY <1>3 DEF Queued
<1>5. TypeOK'
  BY <1>3 DEF IInv, TypeOK, Answers
<1>6. OneOwner'
  <2>1. a # "WAITING"
    BY DEF QueueAnswers
  <2>2. \A k \in Jobs : promise'[k] = IF k = j THEN a ELSE promise[k]
    BY <1>3 DEF IInv, TypeOK
  <2> QED
    BY <1>2, <1>3, <1>4, <2>1, <2>2 DEF IInv, OneOwner, NoDuplicates
<1>7. IsFiniteSet(inFlight)' /\ CountedWithinBounds'
  BY <1>3 DEF IInv, CountedWithinBounds
<1>8. WorkConserving' /\ ClosedIsDrained' /\ PumpingIsNotClosed'
  BY <1>3 DEF IInv, WorkConserving, ClosedIsDrained, PumpingIsNotClosed
<1>9. WaitHandlesMatchQueue'
  BY <1>3, <1>4 DEF IInv, WaitHandlesMatchQueue
<1> QED
  BY <1>5, <1>6, <1>7, <1>8, <1>9 DEF IInv

LEMMA StartStep ==
  ASSUME IInv, NEW j \in Jobs, RecognizeStart(j)
  PROVE  IInv'
<1>1. /\ promise[j] = "NOT_CALLED" /\ ~pumping /\ state = "OPEN"
      /\ activeCount < Concurrency
      /\ timers' = timers \ {j} /\ listeners' = listeners \ {j}
      /\ activeCount' = activeCount + 1
      /\ inFlight' = inFlight \cup {j}
      /\ promise' = [promise EXCEPT ![j] = "WAITING"]
      /\ UNCHANGED <<state, pending, aborted, pumping>>
  BY DEF RecognizeStart, Calls, Admits, SlotFree, Start, CleanupWait
<1>2. j \notin Queued \cup inFlight
  BY <1>1 DEF IInv, OneOwner
<1>3. Queued' = Queued
  BY <1>1 DEF Queued
<1>4. TypeOK'
  BY <1>1 DEF IInv, TypeOK, Answers
<1>5. OneOwner'
  <2>1. \A k \in Jobs : promise'[k] = IF k = j THEN "WAITING" ELSE promise[k]
    BY <1>1 DEF IInv, TypeOK
  <2> QED
    BY <1>1, <1>2, <1>3, <2>1 DEF IInv, OneOwner, NoDuplicates
<1>6. IsFiniteSet(inFlight)' /\ CountedWithinBounds'
  <2>1. IsFiniteSet(inFlight') /\ Cardinality(inFlight') = Cardinality(inFlight) + 1
    BY <1>1, <1>2, FS_AddElement DEF IInv
  <2> QED
    BY <1>1, <2>1 DEF IInv, TypeOK, CountedWithinBounds
<1>7. WorkConserving'
  <2>1. pending = <<>>
    BY <1>1 DEF IInv, TypeOK, WorkConserving
  <2> QED
    BY <1>1, <2>1 DEF WorkConserving
<1>8. ClosedIsDrained' /\ PumpingIsNotClosed'
  BY <1>1 DEF ClosedIsDrained, PumpingIsNotClosed
<1>9. WaitHandlesMatchQueue'
  BY <1>1, <1>2, <1>3 DEF IInv, WaitHandlesMatchQueue
<1> QED
  BY <1>4, <1>5, <1>6, <1>7, <1>8, <1>9 DEF IInv

LEMMA EnqueueStep ==
  ASSUME IInv, NEW j \in Jobs, RecognizeEnqueue(j)
  PROVE  IInv'
<1>1. /\ promise[j] = "NOT_CALLED" /\ ~pumping /\ state = "OPEN"
      /\ j \notin aborted
      /\ ~(activeCount < Concurrency) /\ Len(pending) < MaxPending
      /\ pending' = Append(pending, j)
      /\ timers' = timers \cup {j}
      /\ listeners' = IF j \in Signalled THEN listeners \cup {j} ELSE listeners
      /\ promise' = [promise EXCEPT ![j] = "WAITING"]
      /\ UNCHANGED <<state, activeCount, inFlight, aborted, pumping>>
  BY DEF RecognizeEnqueue, Calls, Admits, SlotFree, HasRoom, ArmTimer
<1>2. j \notin Queued \cup inFlight
  BY <1>1 DEF IInv, OneOwner
<1>3. /\ pending' \in Seq(Jobs) /\ Elems(pending') = Elems(pending) \cup {j}
      /\ Distinct(pending') /\ Len(pending') = Len(pending) + 1
  BY <1>1, <1>2, QueueFacts, AppendElems
<1>4. Queued' = Queued \cup {j}
  BY <1>3, QueueFacts DEF Queued, Elems
<1>5. TypeOK'
  BY <1>1, <1>3 DEF IInv, TypeOK, Answers
<1>6. OneOwner'
  <2>1. \A k \in Jobs : promise'[k] = IF k = j THEN "WAITING" ELSE promise[k]
    BY <1>1 DEF IInv, TypeOK
  <2>2. NoDuplicates'
    BY <1>3 DEF NoDuplicates, Distinct
  <2> QED
    BY <1>1, <1>2, <1>4, <2>1, <2>2 DEF IInv, OneOwner
<1>7. IsFiniteSet(inFlight)' /\ CountedWithinBounds'
  <2>1. Len(pending) \in Nat
    BY QueueFacts
  <2> QED
    BY <1>1, <1>3, <2>1 DEF IInv, CountedWithinBounds
<1>8. WorkConserving'
  BY <1>1 DEF IInv, TypeOK, CountedWithinBounds, WorkConserving
<1>9. ClosedIsDrained' /\ PumpingIsNotClosed'
  BY <1>1 DEF ClosedIsDrained, PumpingIsNotClosed
<1>10. WaitHandlesMatchQueue'
  BY <1>1, <1>4 DEF IInv, WaitHandlesMatchQueue
<1> QED
  BY <1>5, <1>6, <1>7, <1>8, <1>9, <1>10 DEF IInv

\* A waiting job that is given up, by its timer or by its signal.
LEMMA GiveUpStep ==
  ASSUME IInv, ~pumping, NEW j \in Queued, NEW a \in QueueAnswers, GiveUp(j, a),
         \/ aborted' = aborted
         \/ j \in Signalled /\ aborted' = aborted \cup {j}
  PROVE  IInv'
<1>1. /\ pending' = Without(pending, j)
      /\ timers' = timers \ {j} /\ listeners' = listeners \ {j}
      /\ promise' = [promise EXCEPT ![j] = a]
      /\ state' = SettleShutdown(state, activeCount, pending')
      /\ UNCHANGED <<activeCount, inFlight, pumping>>
  BY DEF GiveUp, CleanupWait
<1>2. j \in Jobs /\ j \notin inFlight
  BY QueueFacts DEF IInv, OneOwner
<1>3. /\ pending' \in Seq(Jobs) /\ Elems(pending') = Elems(pending) \ {j}
      /\ Distinct(pending') /\ Len(pending') = Len(pending) - 1
  BY <1>1, QueueFacts, WithoutProperties
<1>4. Queued' = Queued \ {j}
  BY <1>3, QueueFacts DEF Queued, Elems
<1>5. state' \in States /\ (state' # state => state' = "CLOSED" /\ pending' = <<>> /\ activeCount = 0)
  BY <1>1 DEF SettleShutdown, IInv, TypeOK, States
<1>6. TypeOK'
  BY <1>1, <1>2, <1>3, <1>5 DEF IInv, TypeOK, Answers
<1>7. OneOwner'
  <2>1. \A k \in Jobs : promise'[k] = IF k = j THEN a ELSE promise[k]
    BY <1>1 DEF IInv, TypeOK
  <2>2. NoDuplicates'
    BY <1>3 DEF NoDuplicates, Distinct
  <2>3. a # "WAITING"
    BY DEF QueueAnswers
  <2> QED
    BY <1>1, <1>2, <1>4, <2>1, <2>2, <2>3 DEF IInv, OneOwner
<1>8. IsFiniteSet(inFlight)' /\ CountedWithinBounds'
  <2>1. Len(pending) \in Nat
    BY QueueFacts
  <2> QED
    BY <1>1, <1>3, <2>1 DEF IInv, CountedWithinBounds
<1>9. pending # <<>> /\ activeCount = Concurrency
  BY QueueFacts DEF IInv, WorkConserving
<1>10. WorkConserving'
  BY <1>1, <1>9 DEF WorkConserving
<1>11. ClosedIsDrained' /\ PumpingIsNotClosed'
  <2>1. activeCount # 0 /\ inFlight # {}
    BY <1>9, FS_EmptySet DEF IInv, CountedWithinBounds
  <2>2. state' = state
    BY <1>1, <2>1 DEF SettleShutdown
  <2> QED
    BY <1>1, <1>9, <2>1, <2>2 DEF IInv, ClosedIsDrained, PumpingIsNotClosed
<1>12. WaitHandlesMatchQueue'
  BY <1>1, <1>4 DEF IInv, WaitHandlesMatchQueue
<1> QED
  BY <1>6, <1>7, <1>8, <1>10, <1>11, <1>12 DEF IInv

\* A waiting job's timer always finds it in the queue.
LEMMA TimeoutStep ==
  ASSUME IInv, NEW j \in Jobs, WaitTimeout(j)
  PROVE  IInv'
<1>1. ~pumping /\ j \in Queued
  BY DEF WaitTimeout, IInv, WaitHandlesMatchQueue
<1>2. GiveUp(j, "OCR_QUEUE_TIMEOUT") /\ aborted' = aborted
  BY <1>1 DEF WaitTimeout
<1> QED
  BY <1>1, <1>2, GiveUpStep DEF QueueAnswers

LEMMA AbortStep ==
  ASSUME IInv, NEW j \in Jobs, Abort(j)
  PROVE  IInv'
<1>1. ~pumping /\ j \in Signalled \ aborted /\ aborted' = aborted \cup {j}
  BY DEF Abort
<1>2. CASE j \in listeners \cap Queued /\ GiveUp(j, "OCR_ABORTED")
  BY <1>1, <1>2, GiveUpStep DEF QueueAnswers
<1>3. CASE /\ j \notin listeners \cap Queued
           /\ listeners' = listeners \ {j}
           /\ UNCHANGED <<state, pending, activeCount, timers, inFlight,
                          promise, pumping>>
  <2>1. j \notin Queued
    BY <1>1, <1>3 DEF IInv, WaitHandlesMatchQueue
  <2>2. Queued' = Queued
    BY <1>3 DEF Queued
  <2>3. TypeOK'
    BY <1>1, <1>3 DEF IInv, TypeOK
  <2>4. OneOwner'
    BY <1>3, <2>2 DEF IInv, OneOwner, NoDuplicates
  <2>5. IsFiniteSet(inFlight)' /\ CountedWithinBounds'
    BY <1>3 DEF IInv, CountedWithinBounds
  <2>6. WorkConserving' /\ ClosedIsDrained' /\ PumpingIsNotClosed'
    BY <1>3 DEF IInv, WorkConserving, ClosedIsDrained, PumpingIsNotClosed
  <2>7. WaitHandlesMatchQueue'
    BY <1>1, <1>3, <2>1, <2>2 DEF IInv, WaitHandlesMatchQueue
  <2> QED
    BY <2>3, <2>4, <2>5, <2>6, <2>7 DEF IInv
<1> QED
  BY <1>2, <1>3 DEF Abort

LEMMA SettleStep ==
  ASSUME IInv, NEW j \in Jobs, NEW a \in ProviderAnswers, ProviderSettles(j, a)
  PROVE  IInv'
<1>1. /\ ~pumping /\ j \in inFlight
      /\ promise' = [promise EXCEPT ![j] = a]
      /\ inFlight' = inFlight \ {j}
      /\ activeCount' = activeCount - 1
      /\ pumping' = TRUE
      /\ UNCHANGED <<state, pending, timers, listeners, aborted>>
  BY DEF ProviderSettles, Release
<1>2. IsFiniteSet(inFlight') /\ Cardinality(inFlight') = Cardinality(inFlight) - 1
  BY <1>1, FS_RemoveElement DEF IInv
<1>3. activeCount \in Nat /\ activeCount # 0
  BY <1>1, FS_EmptySet DEF IInv, TypeOK, CountedWithinBounds
<1>4. Queued' = Queued
  BY <1>1 DEF Queued
<1>5. TypeOK'
  BY <1>1, <1>3 DEF IInv, TypeOK, Answers
<1>6. OneOwner'
  <2>1. \A k \in Jobs : promise'[k] = IF k = j THEN a ELSE promise[k]
    BY <1>1 DEF IInv, TypeOK
  <2>2. a # "WAITING"
    BY DEF ProviderAnswers
  <2> QED
    BY <1>1, <1>4, <2>1, <2>2 DEF IInv, OneOwner, NoDuplicates
<1>7. CountedWithinBounds'
  BY <1>1, <1>2, <1>3 DEF IInv, CountedWithinBounds
<1>8. WorkConserving' /\ ClosedIsDrained' /\ PumpingIsNotClosed'
  BY <1>1 DEF IInv, WorkConserving, ClosedIsDrained, PumpingIsNotClosed
<1>9. WaitHandlesMatchQueue'
  BY <1>1, <1>4 DEF IInv, WaitHandlesMatchQueue
<1> QED
  BY <1>2, <1>5, <1>6, <1>7, <1>8, <1>9 DEF IInv

LEMMA PumpJobStep ==
  ASSUME IInv, PumpJob
  PROVE  IInv'
<1> DEFINE j == Head(pending)
<1>1. pumping /\ activeCount < Concurrency /\ pending # <<>>
  BY DEF PumpJob, SlotFree
<1>2. /\ Tail(pending) \in Seq(Jobs) /\ j \in Queued
      /\ Elems(Tail(pending)) = Queued \ {j}
      /\ Distinct(Tail(pending)) /\ Len(Tail(pending)) = Len(pending) - 1
  BY <1>1, QueueFacts, TailProperties
<1>3. j \in Jobs /\ j \notin aborted /\ j \notin inFlight
  BY <1>2, QueueFacts DEF IInv, OneOwner, WaitHandlesMatchQueue
<1>4. /\ pending' = Tail(pending)
      /\ timers' = timers \ {j} /\ listeners' = listeners \ {j}
      /\ activeCount' = activeCount + 1
      /\ inFlight' = inFlight \cup {j}
      /\ UNCHANGED <<promise, state, aborted, pumping>>
  BY <1>3 DEF PumpJob, Shift, Start, CleanupWait
<1> HIDE DEF j
<1>5. Queued' = Queued \ {j}
  BY <1>2, <1>4 DEF Queued, Elems
<1>6. TypeOK'
  BY <1>2, <1>3, <1>4 DEF IInv, TypeOK
<1>7. OneOwner'
  <2>1. NoDuplicates'
    BY <1>2, <1>4 DEF NoDuplicates, Distinct
  <2> QED
    BY <1>2, <1>3, <1>4, <1>5, <2>1 DEF IInv, OneOwner
<1>8. IsFiniteSet(inFlight)' /\ CountedWithinBounds'
  <2>1. IsFiniteSet(inFlight') /\ Cardinality(inFlight') = Cardinality(inFlight) + 1
    BY <1>3, <1>4, FS_AddElement DEF IInv
  <2>2. Len(pending) \in Nat
    BY QueueFacts
  <2> QED
    BY <1>1, <1>2, <1>4, <2>1, <2>2 DEF IInv, TypeOK, CountedWithinBounds
<1>9. WorkConserving' /\ ClosedIsDrained' /\ PumpingIsNotClosed'
  BY <1>1, <1>4 DEF IInv, WorkConserving, ClosedIsDrained, PumpingIsNotClosed
<1>10. WaitHandlesMatchQueue'
  BY <1>4, <1>5 DEF IInv, WaitHandlesMatchQueue
<1> QED
  BY <1>6, <1>7, <1>8, <1>9, <1>10 DEF IInv

\* The end of pump() and shutdown() both end in settleShutdown().
LEMMA SettledState ==
  ASSUME IInv, NEW s \in {"OPEN", "SHUTTING_DOWN", "CLOSED"},
         s = "CLOSED" => pending = <<>> /\ inFlight = {},
         state' = SettleShutdown(s, activeCount, pending), pumping' = FALSE,
         UNCHANGED <<pending, activeCount, timers, listeners, inFlight, aborted,
                     promise>>,
         pending # <<>> => activeCount = Concurrency
  PROVE  IInv'
<1>1. activeCount = 0 <=> inFlight = {}
  BY FS_EmptySet DEF IInv, CountedWithinBounds
<1>2. Queued' = Queued
  BY DEF Queued
<1>3. TypeOK'
  BY DEF IInv, TypeOK, States, SettleShutdown
<1>4. OneOwner' /\ IsFiniteSet(inFlight)' /\ CountedWithinBounds'
  BY <1>2 DEF IInv, OneOwner, NoDuplicates, CountedWithinBounds
<1>5. WorkConserving' /\ PumpingIsNotClosed'
  BY DEF WorkConserving, PumpingIsNotClosed
<1>6. ClosedIsDrained'
  BY <1>1 DEF ClosedIsDrained, SettleShutdown
<1>7. WaitHandlesMatchQueue'
  BY <1>2 DEF IInv, WaitHandlesMatchQueue
<1> QED
  BY <1>3, <1>4, <1>5, <1>6, <1>7 DEF IInv

LEMMA PumpEndsStep ==
  ASSUME IInv, PumpEnds
  PROVE  IInv'
<1>1. pending # <<>> => activeCount = Concurrency
  BY DEF PumpEnds, SlotFree, IInv, TypeOK, CountedWithinBounds
<1>2. state \in {"OPEN", "SHUTTING_DOWN", "CLOSED"} /\ state # "CLOSED"
  BY DEF PumpEnds, IInv, TypeOK, States, PumpingIsNotClosed
<1> QED
  BY <1>1, <1>2, SettledState DEF PumpEnds

LEMMA ShutdownStep ==
  ASSUME IInv, Shutdown
  PROVE  IInv'
<1> DEFINE s == IF state = "OPEN" THEN "SHUTTING_DOWN" ELSE state
<1>1. s \in {"OPEN", "SHUTTING_DOWN", "CLOSED"}
  BY DEF IInv, TypeOK, States
<1>2. s = "CLOSED" => pending = <<>> /\ inFlight = {}
  BY DEF Shutdown, IInv, ClosedIsDrained
<1>3. pending # <<>> => activeCount = Concurrency
  BY DEF Shutdown, IInv, WorkConserving
<1>4. state' = SettleShutdown(s, activeCount, pending) /\ pumping' = FALSE
  BY DEF Shutdown, IInv, TypeOK
<1> HIDE DEF s
<1> QED
  BY <1>1, <1>2, <1>3, <1>4, SettledState DEF Shutdown

LEMMA StutterStep ==
  ASSUME IInv, UNCHANGED vars
  PROVE  IInv'
<1>1. Queued' = Queued
  BY DEF vars, Queued
<1> QED
  BY <1>1 DEF vars, IInv, TypeOK, OneOwner, NoDuplicates, CountedWithinBounds,
              WorkConserving, WaitHandlesMatchQueue, ClosedIsDrained,
              PumpingIsNotClosed

LEMMA Inductive == IInv /\ [Next]_vars => IInv'
<1> SUFFICES ASSUME IInv, [Next]_vars PROVE IInv'
  OBVIOUS
<1>1. ASSUME NEW j \in Jobs, Recognize(j) PROVE IInv'
  <2>1. CASE RecognizeAborted(j)
    BY <2>1, AnswerStep DEF RecognizeAborted, QueueAnswers
  <2>2. CASE RecognizeShuttingDown(j)
    BY <2>2, AnswerStep DEF RecognizeShuttingDown, QueueAnswers
  <2>3. CASE RecognizeStart(j)
    BY <2>3, StartStep
  <2>4. CASE RecognizeOverloaded(j)
    BY <2>4, AnswerStep DEF RecognizeOverloaded, QueueAnswers
  <2>5. CASE RecognizeEnqueue(j)
    BY <2>5, EnqueueStep
  <2> QED
    BY <1>1, <2>1, <2>2, <2>3, <2>4, <2>5 DEF Recognize
<1>2. ASSUME NEW j \in Jobs, WaitTimeout(j) PROVE IInv'
  BY <1>2, TimeoutStep
<1>3. ASSUME NEW j \in Jobs, Abort(j) PROVE IInv'
  BY <1>3, AbortStep
<1>4. ASSUME NEW j \in Jobs, NEW a \in ProviderAnswers, ProviderSettles(j, a)
      PROVE  IInv'
  BY <1>4, SettleStep
<1>5. CASE PumpJob
  BY <1>5, PumpJobStep
<1>6. CASE PumpEnds
  BY <1>6, PumpEndsStep
<1>7. CASE Shutdown
  BY <1>7, ShutdownStep
<1>8. CASE UNCHANGED vars
  BY <1>8, StutterStep
<1> QED
  BY <1>1, <1>2, <1>3, <1>4, <1>5, <1>6, <1>7, <1>8 DEF Next

LEMMA Invariance == Spec => []IInv
  BY Initially, Inductive, PTL DEF Spec

\* Every reachable state of the queue is well typed.
THEOREM TypeCorrect == Spec => []TypeOK
<1>1. IInv => TypeOK
  BY DEF IInv
<1> QED
  BY Invariance, <1>1, PTL

\* No promise is lost and none is answered by two parties, whatever the order
\* of completions, timers, aborts and shutdown.
THEOREM EveryPromiseHasOneOwner == Spec => []OneOwner
<1>1. IInv => OneOwner
  BY DEF IInv
<1> QED
  BY Invariance, <1>1, PTL

\* activeCount is the number of running calls; both limits are kept.
THEOREM BoundsHold == Spec => []CountedWithinBounds
<1>1. IInv => CountedWithinBounds
  BY DEF IInv
<1> QED
  BY Invariance, <1>1, PTL

\* Between any two handlers the queue is sound in every respect: owners,
\* counters, bounds, timers, listeners, free slots and the drained end.
THEOREM QueueIsAlwaysSound == Spec => []QueueIsSound
<1>1. IInv => QueueIsSound
  BY DEF IInv, QueueIsSound
<1> QED
  BY Invariance, <1>1, PTL
-----------------------------------------------------------------------------
(***************************************************************************)
(* The order of service, and what is answered once shutdown() was called.  *)
(***************************************************************************)

\* A call that begins is the head of the queue, or was never in it.
LEMMA OnlyTheHeadStarts ==
  ASSUME IInv, [Next]_vars, NEW k \in 1 .. Len(pending), pending[k] \in inFlight'
  PROVE  k = 1
<1>1. pending[k] \in Queued /\ pending[k] \in Jobs /\ pending[k] \notin inFlight
      /\ promise[pending[k]] = "WAITING"
  <2>1. pending[k] \in Queued
    BY DEF Queued
  <2> QED BY <2>1, QueueFacts DEF IInv, OneOwner
<1>2. ASSUME NEW j \in Jobs, Recognize(j) PROVE FALSE
  <2>1. promise[j] = "NOT_CALLED" /\ inFlight' \subseteq inFlight \cup {j}
    BY <1>2 DEF Recognize, RecognizeAborted, RecognizeShuttingDown, RecognizeStart,
                RecognizeOverloaded, RecognizeEnqueue, Calls, Answer, Start
  <2> QED BY <1>1, <2>1
<1>3. ASSUME NEW j \in Jobs, WaitTimeout(j) \/ Abort(j) \/ \E a \in ProviderAnswers : ProviderSettles(j, a)
      PROVE  FALSE
  BY <1>1, <1>3 DEF WaitTimeout, Abort, GiveUp, ProviderSettles
<1>4. CASE PumpJob
  <2>1. inFlight' \subseteq inFlight \cup {Head(pending)} /\ pending # <<>>
    BY <1>4 DEF PumpJob, Shift, Start
  <2>2. pending[k] = pending[1] /\ 1 \in 1 .. Len(pending)
    BY <1>1, <2>1, QueueFacts
  <2> QED BY <2>2 DEF IInv, OneOwner, NoDuplicates
<1>5. CASE PumpEnds \/ Shutdown \/ UNCHANGED vars
  BY <1>1, <1>5 DEF PumpEnds, Shutdown, vars
<1> QED BY <1>2, <1>3, <1>4, <1>5 DEF Next

\* A step answers one call at most: a new one, which is refused once the queue is being
\* shut down, or one that was admitted.
LEMMA OneIsAnswered ==
  ASSUME IInv, [Next]_vars
  PROVE  \/ promise' = promise
         \/ \E i \in Jobs, a \in Answers \cup {"WAITING"} :
              /\ promise' = [promise EXCEPT ![i] = a]
              /\ \/ promise[i] = "NOT_CALLED" /\ (state # "OPEN" => a \in QueueAnswers)
                 \/ promise[i] = "WAITING" /\ a # "OCR_SHUTTING_DOWN"
<1> USE DEF Answers, QueueAnswers, ProviderAnswers
<1>1. ASSUME NEW j \in Jobs, Recognize(j)
      PROVE  \E a \in Answers \cup {"WAITING"} :
               /\ promise' = [promise EXCEPT ![j] = a] /\ promise[j] = "NOT_CALLED"
               /\ state # "OPEN" => a \in QueueAnswers
  BY <1>1 DEF Recognize, RecognizeAborted, RecognizeShuttingDown, RecognizeStart,
              RecognizeOverloaded, RecognizeEnqueue, Calls, Answer, Admits
<1>2. \A j \in Queued \cup inFlight : j \in Jobs => promise[j] = "WAITING"
  BY DEF IInv, OneOwner
<1>3. ASSUME NEW j \in Jobs, WaitTimeout(j) \/ Abort(j)
      PROVE  \/ promise' = promise
             \/ \E a \in {"OCR_QUEUE_TIMEOUT", "OCR_ABORTED"} :
                  promise' = [promise EXCEPT ![j] = a] /\ promise[j] = "WAITING"
  BY <1>2, <1>3 DEF WaitTimeout, Abort, GiveUp
<1>4. ASSUME NEW j \in Jobs, NEW a \in ProviderAnswers, ProviderSettles(j, a)
      PROVE  promise' = [promise EXCEPT ![j] = a] /\ promise[j] = "WAITING"
  BY <1>2, <1>4 DEF ProviderSettles
<1>5. CASE PumpJob
  <2>1. PICK j \in Jobs : j = Head(pending) /\ promise[j] = "WAITING"
    <3>1. pending # <<>>
      BY <1>5 DEF PumpJob
    <3>2. Head(pending) = pending[1] /\ 1 \in 1 .. Len(pending)
      BY <3>1, QueueFacts
    <3> QED BY <1>2, <3>2, QueueFacts DEF Queued
  <2> QED BY <1>5, <2>1 DEF PumpJob, Shift
<1>6. CASE PumpEnds \/ Shutdown \/ UNCHANGED vars
  BY <1>6 DEF PumpEnds, Shutdown, vars
<1> QED BY <1>1, <1>3, <1>4, <1>5, <1>6 DEF Next

\* No request overtakes another, and shutdown() keeps newcomers out without breaking off
\* what was admitted (queued-ocr-provider.ts: pump, shutdown).
THEOREM AlwaysFirstComeFirstServed == Spec => FirstComeFirstServed
<1> DEFINE InOrder ==
      /\ \A i, k \in 1..Len(pending) :
           i < k /\ pending[k] \in inFlight'
           => pending[i] \notin {pending'[m] : m \in 1..Len(pending')}
      /\ state # "OPEN" =>
           \A j \in Jobs : promise[j] = "NOT_CALLED" =>
                             promise'[j] \in QueueAnswers \cup {"NOT_CALLED"}
      /\ \A j \in Jobs : promise[j] = "WAITING" =>
                             promise'[j] # "OCR_SHUTTING_DOWN"
<1>1. IInv /\ [Next]_vars => InOrder
  <2> SUFFICES ASSUME IInv, [Next]_vars PROVE InOrder
    OBVIOUS
  <2>1. ASSUME NEW i \in 1 .. Len(pending), NEW k \in 1 .. Len(pending), i < k,
               pending[k] \in inFlight'
        PROVE  FALSE
    BY <2>1, OnlyTheHeadStarts
  <2>2. promise \in [Jobs -> Answers \cup {"NOT_CALLED", "WAITING"}]
    BY DEF IInv, TypeOK
  <2>3. ASSUME NEW j \in Jobs
        PROVE  /\ state # "OPEN" /\ promise[j] = "NOT_CALLED" =>
                    promise'[j] \in QueueAnswers \cup {"NOT_CALLED"}
               /\ promise[j] = "WAITING" => promise'[j] # "OCR_SHUTTING_DOWN"
    BY <2>2, OneIsAnswered
  <2> QED BY <2>1, <2>3
<1> QED BY <1>1, Invariance, PTL DEF Spec, FirstComeFirstServed
-----------------------------------------------------------------------------
(***************************************************************************)
(* OcrQueue implements BoundedService.                                     *)
(***************************************************************************)
LEMMA QueueCount ==
  ASSUME IInv
  PROVE  IsFiniteSet(Queued) /\ Cardinality(Queued) = Len(pending)
<1> DEFINE n == Len(pending)
<1>1. n \in Nat /\ pending \in [1..n -> Queued] /\ Distinct(pending)
  BY QueueFacts DEF Queued
<1>2. pending \in Surjection(1..n, Queued)
  BY <1>1 DEF Surjection, Queued
<1>3. pending \in Injection(1..n, Queued)
  BY <1>1 DEF Injection, IsInjective, Distinct
<1>4. IsFiniteSet(1..n) /\ Cardinality(1..n) = n
  BY <1>1, FS_Interval
<1> HIDE DEF n
<1>5. IsFiniteSet(Queued) /\ Cardinality(Queued) = Cardinality(1..n)
  BY <1>2, <1>3, <1>4, FS_Surjection
<1> QED
  BY <1>4, <1>5 DEF n

\* Under the mapping the served requests are the running calls and the
\* waiting ones are the queue.
LEMMA MappedSets ==
  ASSUME IInv
  PROVE  /\ Service!In("served") = inFlight
         /\ Service!In("waiting") = Queued
         /\ Service!Inside = Queued \cup inFlight
         /\ \A j \in Jobs : PhaseOf(j) = "idle" <=> promise[j] = "NOT_CALLED"
<1>1. \A j \in Jobs : j \in inFlight => promise[j] = "WAITING"
  BY DEF IInv, OneOwner
<1>2. \A j \in Jobs : j \in Queued <=> promise[j] = "WAITING" /\ j \notin inFlight
  BY DEF IInv, OneOwner
<1>3. inFlight \subseteq Jobs /\ Queued \subseteq Jobs
  BY QueueFacts DEF IInv, TypeOK
<1>4. Service!In("served") = inFlight
  BY <1>1, <1>3 DEF Service!In, PhaseOf
<1>5. Service!In("waiting") = Queued
  BY <1>1, <1>2, <1>3 DEF Service!In, PhaseOf
<1> QED
  BY <1>4, <1>5 DEF Service!Inside, PhaseOf

\* BoundedService counts with its own instance of Cardinality.
LEMMA SameCardinality == \A S : Service!Cardinality(S) = Cardinality(S)
BY DEF Service!Cardinality, Cardinality

LEMMA InitRefines == Init => Service!Init
BY DEF Init, Service!Init, PhaseOf, GateOf

LEMMA StepRefines == IInv /\ IInv' /\ [Next]_vars => [Service!Next]_(Service!vars)
<1> SUFFICES ASSUME IInv, IInv', [Next]_vars
             PROVE  Service!Next \/ UNCHANGED Service!vars
  OBVIOUS
<1> DEFINE phase == [j \in Jobs |-> PhaseOf(j)]
<1>1. \A j \in Jobs : phase[j] = PhaseOf(j)
  OBVIOUS
\* How the phases change when one promise or its owner does.
<1>2. ASSUME NEW j \in Jobs, NEW v, PhaseOf(j)' = v,
             \A k \in Jobs \ {j} : PhaseOf(k)' = PhaseOf(k)
      PROVE  phase' = [phase EXCEPT ![j] = v]
  BY <1>2
<1>3. promise \in [Jobs -> Answers \cup {"NOT_CALLED", "WAITING"}]
  BY DEF IInv, TypeOK
<1>4. ASSUME NEW j \in Jobs, NEW a \in QueueAnswers, Calls(j), Answer(j, a)
      PROVE  Service!Next
  <2>1. PhaseOf(j) = "idle" /\ j \notin inFlight
    BY <1>4 DEF Calls, PhaseOf, IInv, OneOwner
  <2>2. PhaseOf(j)' = "gone"
    BY <1>3, <1>4, <2>1 DEF Answer, PhaseOf, QueueAnswers
  <2>3. \A k \in Jobs \ {j} : PhaseOf(k)' = PhaseOf(k)
    BY <1>3, <1>4 DEF Answer, PhaseOf
  <2>4. GateOf' = GateOf
    BY <1>4 DEF Answer, GateOf
  <2>5. Service!TurnAway(j)
    BY <1>1, <1>2, <2>1, <2>2, <2>3, <2>4 DEF Service!TurnAway
  <2> QED
    BY <2>5 DEF Service!Next
<1>5. ASSUME NEW j \in Jobs, RecognizeStart(j) PROVE Service!Next
  <2>1. PhaseOf(j) = "idle" /\ GateOf = "open" /\ GateOf' = GateOf
    BY <1>5 DEF RecognizeStart, Calls, Admits, PhaseOf, GateOf
  <2>2. PhaseOf(j)' = "served"
    BY <1>3, <1>5 DEF RecognizeStart, Start, PhaseOf
  <2>3. \A k \in Jobs \ {j} : PhaseOf(k)' = PhaseOf(k)
    BY <1>3, <1>5 DEF RecognizeStart, Start, PhaseOf
  <2>4. Cardinality(Service!In("served")) < Concurrency
    BY <1>5, MappedSets DEF RecognizeStart, SlotFree, IInv, CountedWithinBounds
  <2>5. Service!Serve(j)
    BY <1>1, <1>2, <2>1, <2>2, <2>3, <2>4, SameCardinality DEF Service!Serve
  <2> QED
    BY <2>5 DEF Service!Next
<1>6. ASSUME NEW j \in Jobs, RecognizeEnqueue(j) PROVE Service!Next
  <2>1. PhaseOf(j) = "idle" /\ GateOf = "open" /\ GateOf' = GateOf
    BY <1>6 DEF RecognizeEnqueue, Calls, Admits, PhaseOf, GateOf
  <2>2. j \notin inFlight
    BY <1>6 DEF RecognizeEnqueue, Calls, IInv, OneOwner
  <2>3. PhaseOf(j)' = "waiting"
    BY <1>3, <1>6, <2>2 DEF RecognizeEnqueue, PhaseOf
  <2>4. \A k \in Jobs \ {j} : PhaseOf(k)' = PhaseOf(k)
    BY <1>3, <1>6 DEF RecognizeEnqueue, PhaseOf
  <2>5. Cardinality(Service!In("served")) = Concurrency
    BY <1>6, MappedSets
       DEF RecognizeEnqueue, SlotFree, IInv, TypeOK, CountedWithinBounds
  <2>6. Cardinality(Service!In("waiting")) < MaxPending
    BY <1>6, MappedSets, QueueCount DEF RecognizeEnqueue, HasRoom
  <2>7. Service!Wait(j)
    BY <1>1, <1>2, <2>1, <2>3, <2>4, <2>5, <2>6, SameCardinality DEF Service!Wait
  <2> QED
    BY <2>7 DEF Service!Next
<1>7. ASSUME NEW j \in Queued, NEW a \in QueueAnswers, ~pumping, GiveUp(j, a)
      PROVE  Service!Next
  <2>1. j \in Jobs /\ j \notin inFlight
    BY QueueFacts DEF IInv, OneOwner
  <2>2. PhaseOf(j)' = "gone"
    BY <1>3, <1>7, <2>1 DEF GiveUp, PhaseOf, QueueAnswers
  <2>3. \A k \in Jobs \ {j} : PhaseOf(k)' = PhaseOf(k)
    BY <1>3, <1>7 DEF GiveUp, PhaseOf
  <2>4. activeCount # 0
    BY <1>7, QueueFacts DEF IInv, WorkConserving
  <2>5. GateOf' = GateOf
    BY <1>7, <2>4 DEF GiveUp, SettleShutdown, GateOf
  <2>6. Service!Leave(j)
    BY <1>1, <1>2, <2>1, <2>2, <2>3, <2>5, MappedSets DEF Service!Leave
  <2> QED
    BY <2>1, <2>6 DEF Service!Next
<1>8. ASSUME NEW j \in Jobs, WaitTimeout(j) PROVE Service!Next
  <2>1. ~pumping /\ j \in Queued
    BY <1>8 DEF WaitTimeout, IInv, WaitHandlesMatchQueue
  <2>2. GiveUp(j, "OCR_QUEUE_TIMEOUT")
    BY <1>8, <2>1 DEF WaitTimeout
  <2> QED
    BY <1>7, <2>1, <2>2 DEF QueueAnswers
<1>9. ASSUME NEW j \in Jobs, Abort(j)
      PROVE  Service!Next \/ UNCHANGED Service!vars
  <2>1. CASE j \in listeners \cap Queued /\ GiveUp(j, "OCR_ABORTED")
    BY <1>7, <1>9, <2>1 DEF QueueAnswers, Abort
  <2>2. CASE UNCHANGED <<state, pending, activeCount, timers, inFlight,
                         promise, pumping>>
    BY <2>2 DEF Service!vars, PhaseOf, GateOf
  <2> QED
    BY <1>9, <2>1, <2>2 DEF Abort
<1>10. ASSUME NEW j \in Jobs, NEW a \in ProviderAnswers, ProviderSettles(j, a)
       PROVE  Service!Next
  <2>1. j \in inFlight
    BY <1>10 DEF ProviderSettles
  <2>2. PhaseOf(j)' = "gone"
    BY <1>3, <1>10 DEF ProviderSettles, PhaseOf, ProviderAnswers
  <2>3. \A k \in Jobs \ {j} : PhaseOf(k)' = PhaseOf(k)
    BY <1>3, <1>10 DEF ProviderSettles, PhaseOf
  <2>4. GateOf' = GateOf
    BY <1>10 DEF ProviderSettles, GateOf
  <2>5. Service!Leave(j)
    BY <1>1, <1>2, <2>1, <2>2, <2>3, <2>4, MappedSets DEF Service!Leave
  <2> QED
    BY <2>5 DEF Service!Next
<1>11. CASE PumpJob
  <2> PICK j : j = Head(pending)
    OBVIOUS
  <2>1. pumping /\ activeCount < Concurrency /\ pending # <<>>
    BY <1>11 DEF PumpJob, SlotFree
  <2>2. j \in Queued
    BY <2>1, QueueFacts, TailProperties
  <2>3. j \in Jobs /\ j \notin aborted /\ j \notin inFlight /\ promise[j] = "WAITING"
    BY <2>2, QueueFacts DEF IInv, OneOwner, WaitHandlesMatchQueue
  <2>4. inFlight' = inFlight \cup {j} /\ UNCHANGED <<promise, state>>
    BY <1>11, <2>3 DEF PumpJob, Shift, Start
  <2>5. PhaseOf(j) = "waiting" /\ PhaseOf(j)' = "served" /\ GateOf' = GateOf
    BY <2>3, <2>4 DEF PhaseOf, GateOf
  <2>6. \A k \in Jobs \ {j} : PhaseOf(k)' = PhaseOf(k)
    BY <2>4 DEF PhaseOf
  <2>7. Cardinality(Service!In("served")) < Concurrency
    BY <2>1, MappedSets DEF IInv, CountedWithinBounds
  <2>8. Service!Promote(j)
    BY <1>1, <1>2, <2>3, <2>5, <2>6, <2>7, SameCardinality DEF Service!Promote
  <2> QED
    BY <2>3, <2>8 DEF Service!Next
<1>12. ASSUME UNCHANGED <<promise, inFlight, activeCount, pending>>,
              NEW s \in {state, "SHUTTING_DOWN"},
              s # state => state = "OPEN",
              state' = SettleShutdown(s, activeCount, pending)
       PROVE  Service!Next \/ UNCHANGED Service!vars
  <2>1. phase' = phase
    BY <1>12 DEF PhaseOf
  <2>2. activeCount = 0 /\ pending = <<>> => Service!Inside = {}
    BY MappedSets, QueueFacts, FS_EmptySet DEF IInv, CountedWithinBounds
  <2>3. CASE state' = state
    BY <2>1, <2>3 DEF Service!vars, GateOf
  <2>4. CASE state = "OPEN" /\ state' = "SHUTTING_DOWN"
    <3>1. Service!Drain
      BY <2>1, <2>4 DEF Service!Drain, GateOf
    <3> QED
      BY <3>1 DEF Service!Next
  <2>5. CASE state = "OPEN" /\ state' = "CLOSED"
    <3>1. activeCount = 0 /\ pending = <<>>
      BY <1>12, <2>5 DEF SettleShutdown
    <3>2. Service!Drain
      BY <2>1, <2>2, <2>5, <3>1 DEF Service!Drain, GateOf
    <3> QED
      BY <3>2 DEF Service!Next
  <2>6. CASE state = "SHUTTING_DOWN" /\ state' = "CLOSED"
    <3>1. activeCount = 0 /\ pending = <<>>
      BY <1>12, <2>6 DEF SettleShutdown
    <3>2. Service!Close
      BY <2>1, <2>2, <2>6, <3>1 DEF Service!Close, GateOf
    <3> QED
      BY <3>2 DEF Service!Next
  <2> QED
    BY <1>12, <2>3, <2>4, <2>5, <2>6 DEF SettleShutdown
<1>13. CASE PumpEnds
  BY <1>12, <1>13 DEF PumpEnds
<1>14. CASE Shutdown
  <2> DEFINE s == IF state = "OPEN" THEN "SHUTTING_DOWN" ELSE state
  <2>1. s \in {state, "SHUTTING_DOWN"} /\ (s # state => state = "OPEN")
    OBVIOUS
  <2>2. state' = SettleShutdown(s, activeCount, pending)
        /\ UNCHANGED <<promise, inFlight, activeCount, pending>>
    BY <1>14 DEF Shutdown
  <2> HIDE DEF s
  <2> QED
    BY <1>12, <2>1, <2>2
<1>15. CASE UNCHANGED vars
  BY <1>15 DEF vars, Service!vars, PhaseOf, GateOf
<1>16. ASSUME NEW j \in Jobs, Recognize(j) PROVE Service!Next
  <2>1. CASE RecognizeAborted(j)
    BY <1>4, <2>1 DEF RecognizeAborted, QueueAnswers
  <2>2. CASE RecognizeShuttingDown(j)
    BY <1>4, <2>2 DEF RecognizeShuttingDown, QueueAnswers
  <2>3. CASE RecognizeOverloaded(j)
    BY <1>4, <2>3 DEF RecognizeOverloaded, QueueAnswers
  <2> QED
    BY <1>5, <1>6, <1>16, <2>1, <2>2, <2>3 DEF Recognize
<1> QED
  BY <1>8, <1>9, <1>10, <1>11, <1>13, <1>14, <1>15, <1>16 DEF Next

\* The queue, with its timers, listeners, counter and loop, is a bounded
\* service that admits nobody once it drains and closes only when empty.
THEOREM Refinement == Spec => ImplementsBoundedService
BY InitRefines, StepRefines, Invariance, PTL
   DEF Spec, ImplementsBoundedService, Service!Spec
=============================================================================
