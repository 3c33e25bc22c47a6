------------------------------ MODULE OcrCache ------------------------------
(***************************************************************************)
(* The two-level OCR cache with shared executions of                       *)
(* packages/infrastructure/src/cached-ocr-provider.ts, over the PostgreSQL *)
(* store of ocr-cache-repository.ts.  Calls for the same key wait for one  *)
(* execution; a call that is aborted leaves, and the last one to leave     *)
(* aborts the execution.                                                   *)
(*                                                                         *)
(* Code between two awaits is one action.  An entry of the inflight map is *)
(* named after the call that created it.                                   *)
(***************************************************************************)
EXTENDS Naturals, Sequences, FiniteSets, SequencesExt

CONSTANTS
  Calls,         \* calls of recognize()
  Keys,          \* cache keys, one per image and provider version
  KeyOf,         \* KeyOf[c]: the key of the call
  Signalled,     \* calls whose request carries an AbortSignal
  L1MaxEntries   \* options.l1MaxEntries, 0 turns the first level off

ASSUME KeyAssumption == KeyOf \in [Calls -> Keys]
ASSUME SignalledAssumption == Signalled \subseteq Calls
ASSUME L1Assumption == L1MaxEntries \in Nat

VARIABLES
  call,         \* call[c]: what the caller holds
  joined,       \* joined[c]: the entry whose promise the call waits for
  signals,      \* calls whose own signal is aborted
  inflight,     \* inflight[k]: the entry under the key in the map, or None
  exec,         \* exec[e]: the await at which execute() of the entry stands
  result,       \* result[e]: what execute() returns
  controllers,  \* entries whose AbortController is aborted
  waiterCount,  \* waiterCount[e], the field of the entry
  l1,           \* the first-level Map, oldest entry first
  l2            \* keys with an unexpired row in the store

vars == <<call, joined, signals, inflight, exec, result, controllers,
          waiterCount, l1, l2>>

None == "NONE"

\* No entry is named like the absence of one.
ASSUME NoneAssumption == None \notin Calls

Results == {"SUCCEEDED", "FAILED", "OCR_ABORTED"}

\* SETTLED: execute() has returned and its finally() has not run yet.
Executing == {"GET", "RECOGNIZE", "PUT", "SETTLED"}

Init ==
  /\ call = [c \in Calls |-> "NOT_CALLED"]
  /\ joined = [c \in Calls |-> None]
  /\ signals = {}
  /\ inflight = [k \in Keys |-> None]
  /\ exec = [e \in Calls |-> None]
  /\ result = [e \in Calls |-> None]
  /\ controllers = {}
  /\ waiterCount = [e \in Calls |-> 0]
  /\ l1 = <<>>
  /\ l2 = {}

-----------------------------------------------------------------------------
(* The first level: a Map in insertion order *)

Position(k) == {i \in 1..Len(l1) : l1[i].key = k}

\* l1.delete(k)
L1Without(k) ==
  IF Position(k) = {} THEN l1 ELSE RemoveAt(l1, CHOOSE i \in Position(k) : TRUE)

FreshInL1(k) == \E i \in 1..Len(l1) : l1[i] = [key |-> k, fresh |-> TRUE]

\* Writes add at most one entry, so the loop deletes at most one.
Evicted(s) == IF Len(s) > L1MaxEntries THEN Tail(s) ELSE s

WriteL1(k) ==
  IF L1MaxEntries = 0 THEN l1
  ELSE Evicted(Append(L1Without(k), [key |-> k, fresh |-> TRUE]))

L1Expires(k) ==
  /\ FreshInL1(k)
  /\ l1' = [i \in 1..Len(l1) |->
              IF l1[i].key = k THEN [key |-> k, fresh |-> FALSE] ELSE l1[i]]
  /\ UNCHANGED <<call, joined, signals, inflight, exec, result, controllers,
                 waiterCount, l2>>

\* Seven days after it was written.
L2Expires(k) ==
  /\ k \in l2
  /\ l2' = l2 \ {k}
  /\ UNCHANGED <<call, joined, signals, inflight, exec, result, controllers,
                 waiterCount, l1>>

-----------------------------------------------------------------------------
(* recognize() *)

RecognizeAborted(c) ==
  /\ call[c] = "NOT_CALLED"
  /\ c \in signals
  /\ call' = [call EXCEPT ![c] = "OCR_ABORTED"]
  /\ UNCHANGED <<joined, signals, inflight, exec, result, controllers,
                 waiterCount, l1, l2>>

\* A hit moves the entry to the young end.
RecognizeL1Hit(c) ==
  /\ call[c] = "NOT_CALLED"
  /\ c \notin signals
  /\ FreshInL1(KeyOf[c])
  /\ call' = [call EXCEPT ![c] = "SUCCEEDED"]
  /\ l1' = Append(L1Without(KeyOf[c]), [key |-> KeyOf[c], fresh |-> TRUE])
  /\ UNCHANGED <<joined, signals, inflight, exec, result, controllers,
                 waiterCount, l2>>

WaitsFor(c, e) ==
  /\ call' = [call EXCEPT ![c] = "WAITING"]
  /\ joined' = [joined EXCEPT ![c] = e]
  /\ waiterCount' = [waiterCount EXCEPT ![e] = @ + 1]

\* The first level has nothing (an expired entry is deleted on the way).
MissesL1(c) ==
  /\ call[c] = "NOT_CALLED"
  /\ c \notin signals
  /\ ~FreshInL1(KeyOf[c])
  /\ l1' = L1Without(KeyOf[c])

RecognizeJoin(c) ==
  /\ MissesL1(c)
  /\ inflight[KeyOf[c]] # None
  /\ WaitsFor(c, inflight[KeyOf[c]])
  /\ UNCHANGED <<signals, inflight, exec, result, controllers, l2>>

RecognizeExecute(c) ==
  /\ MissesL1(c)
  /\ inflight[KeyOf[c]] = None
  /\ inflight' = [inflight EXCEPT ![KeyOf[c]] = c]
  /\ exec' = [exec EXCEPT ![c] = "GET"]
  /\ WaitsFor(c, c)
  /\ UNCHANGED <<signals, result, controllers, l2>>

Recognize(c) ==
  \/ RecognizeAborted(c)
  \/ RecognizeL1Hit(c)
  \/ RecognizeJoin(c)
  \/ RecognizeExecute(c)

-----------------------------------------------------------------------------
(* waitForInflight() *)

\* finish() with wasAborted: the count has reached 0 and the entry goes on.
LastToLeave(e) == waiterCount[e] = 1 /\ exec[e] # "DONE"

\* Mutant: the entry under the key is deleted, whichever it is.
Forget_ByKey(e) == [inflight EXCEPT ![KeyOf[e]] = None]

\* if (inflight.get(cacheKey) === entry) inflight.delete(cacheKey)
Forget(e) == [inflight EXCEPT ![KeyOf[e]] = IF @ = e THEN None ELSE @]

Leave(c, a) ==
  /\ call' = [call EXCEPT ![c] = a]
  /\ waiterCount' = [waiterCount EXCEPT ![joined[c]] = @ - 1]

\* The caller aborts its signal; the listener of a waiting call runs at once.
Abort(c) ==
  /\ c \in Signalled \ signals
  /\ signals' = signals \cup {c}
  /\ \/ /\ call[c] = "WAITING"
        /\ Leave(c, "OCR_ABORTED")
        /\ IF LastToLeave(joined[c])
           THEN /\ inflight' = Forget(joined[c])
                /\ controllers' = controllers \cup {joined[c]}
           ELSE UNCHANGED <<inflight, controllers>>
     \/ /\ call[c] # "WAITING"
        /\ UNCHANGED <<call, waiterCount, inflight, controllers>>
  /\ UNCHANGED <<joined, exec, result, l1, l2>>

Delivered(c) == [waiterCount EXCEPT ![joined[c]] = @ - 1]

\* entry.promise.then(result => finish(result, false))
Deliver(c) ==
  /\ call[c] = "WAITING"
  /\ exec[joined[c]] = "DONE"
  /\ call' = [call EXCEPT ![c] = result[joined[c]]]
  /\ waiterCount' = Delivered(c)
  /\ UNCHANGED <<joined, signals, inflight, exec, result, controllers, l1, l2>>

-----------------------------------------------------------------------------
(* execute() *)

Returns(e, r) ==
  /\ exec' = [exec EXCEPT ![e] = "SETTLED"]
  /\ result' = [result EXCEPT ![e] = r]

\* store.get finds the text: it is written to the first level even if
\* everybody has left.
StoreHit(e) ==
  /\ exec[e] = "GET"
  /\ KeyOf[e] \in l2
  /\ l1' = WriteL1(KeyOf[e])
  /\ Returns(e, "SUCCEEDED")
  /\ UNCHANGED <<call, joined, signals, inflight, controllers, waiterCount, l2>>

\* if (signal.aborted) return aborted()
StillWanted(e) == e \notin controllers

\* Mutant: what store.get rejects with is not caught, and nothing answers
\* those who wait.
StoreMiss_Uncaught(e) ==
  /\ exec[e] = "GET"
  /\ exec' \in {[exec EXCEPT ![e] = s] : s \in {"RECOGNIZE", "REJECTED"}}
  /\ UNCHANGED <<call, joined, signals, inflight, result, controllers,
                 waiterCount, l1, l2>>

\* store.get finds nothing, or fails: the provider is asked, if anybody is
\* left to want it.
StoreMiss(e) ==
  /\ exec[e] = "GET"
  /\ IF StillWanted(e)
     THEN exec' = [exec EXCEPT ![e] = "RECOGNIZE"] /\ UNCHANGED result
     ELSE Returns(e, "OCR_ABORTED")
  /\ UNCHANGED <<call, joined, signals, inflight, controllers, waiterCount,
                 l1, l2>>

\* The provider answers OCR_ABORTED only to an aborted signal, and may
\* answer something else to it.
ProviderSucceeds(e) ==
  /\ exec[e] = "RECOGNIZE"
  /\ l1' = WriteL1(KeyOf[e])
  /\ exec' = [exec EXCEPT ![e] = "PUT"]
  /\ UNCHANGED <<call, joined, signals, inflight, result, controllers,
                 waiterCount, l2>>

ProviderFails(e) ==
  /\ exec[e] = "RECOGNIZE"
  /\ \/ Returns(e, "FAILED")
     \/ e \in controllers /\ Returns(e, "OCR_ABORTED")
  /\ UNCHANGED <<call, joined, signals, inflight, controllers, waiterCount,
                 l1, l2>>

\* store.put keeps the text, or fails and is ignored.
StorePut(e) ==
  /\ exec[e] = "PUT"
  /\ l2' \in {l2, l2 \cup {KeyOf[e]}}
  /\ Returns(e, "SUCCEEDED")
  /\ UNCHANGED <<call, joined, signals, inflight, controllers, waiterCount, l1>>

Finally(e) ==
  /\ exec[e] = "SETTLED"
  /\ exec' = [exec EXCEPT ![e] = "DONE"]
  /\ inflight' = Forget(e)
  /\ UNCHANGED <<call, joined, signals, result, controllers, waiterCount,
                 l1, l2>>

Execute(e) ==
  \/ StoreHit(e)
  \/ StoreMiss(e)
  \/ ProviderSucceeds(e)
  \/ ProviderFails(e)
  \/ StorePut(e)
  \/ Finally(e)

Next ==
  \/ \E c \in Calls : Recognize(c) \/ Abort(c) \/ Deliver(c) \/ Execute(c)
  \/ \E k \in Keys : L1Expires(k) \/ L2Expires(k)

Spec == Init /\ [][Next]_vars

\* The store and the provider answer, and callbacks that are ready run.
FairSpec ==
  Spec /\ \A c \in Calls : WF_vars(Execute(c)) /\ WF_vars(Deliver(c))

-----------------------------------------------------------------------------
\* The Map holds a key once and at most l1MaxEntries of them.
L1Bounded ==
  /\ Len(l1) <= L1MaxEntries
  /\ \A i, n \in 1..Len(l1) : l1[i].key = l1[n].key => i = n

TypeOK ==
  /\ call \in [Calls -> Results \cup {"NOT_CALLED", "WAITING"}]
  /\ joined \in [Calls -> Calls \cup {None}]
  /\ signals \subseteq Signalled
  /\ inflight \in [Keys -> Calls \cup {None}]
  /\ exec \in [Calls -> Executing \cup {None, "DONE"}]
  /\ result \in [Calls -> Results \cup {None}]
  /\ controllers \subseteq Calls
  /\ waiterCount \in [Calls -> Nat]
  /\ l1 \in Seq([key : Keys, fresh : BOOLEAN]) /\ L1Bounded
  /\ l2 \subseteq Keys

Waiters(e) == {c \in Calls : call[c] = "WAITING" /\ joined[c] = e}

\* The count that decides about aborting the execution is the number of
\* callers that still wait for it.
WaitersCounted == \A e \in Calls : waiterCount[e] = Cardinality(Waiters(e))

Live(e) == exec[e] \in Executing /\ e \notin controllers

\* One image is read by at most one execution that is not aborted, and that
\* one is in the map for others to join, although an execution that was
\* given up may still be on its way beside it.
SingleFlight ==
  \A e \in Calls : Live(e) <=> inflight[KeyOf[e]] = e

\* A caller that did not abort never gets OCR_ABORTED because others did.
NoCollateralAbort ==
  \A c \in Calls : call[c] = "OCR_ABORTED" => c \in signals

\* The provider, which is paid per call, is not asked on behalf of nobody.
NoCallForNobody ==
  [][\A e \in Calls : exec[e] = "GET" /\ exec'[e] = "RECOGNIZE"
                      => Waiters(e) # {}]_vars

\* What callers of one image may rely on when they share its execution: the
\* count, the one live execution, no answer of another's abort, and no paid
\* call when everybody has left.
ExecutionsAreShared ==
  /\ [](TypeOK /\ WaitersCounted /\ SingleFlight /\ NoCollateralAbort)
  /\ NoCallForNobody

\* Every caller is answered, whatever the store and the others do.
EveryCallAnswered ==
  \A c \in Calls : call[c] = "WAITING" ~> call[c] \in Results
=============================================================================
