----------------------------- MODULE LabelProofs ----------------------------
(***************************************************************************)
(* Proofs about labels on their way from the photograph to the analysis:   *)
(* shared executions of the text recognition (OcrCache), the revisions of  *)
(* an observation (InciWorkspace), what dictionary and knowledge say of    *)
(* them (IngredientKnowledge), which of two or three products is the       *)
(* better fit (Comparison), the reading of label texts (LabelReading), and *)
(* how it is measured against an approved corpus (Benchmark).              *)
(***************************************************************************)
EXTENDS OcrCache, InciWorkspace, IngredientKnowledge, Comparison, Benchmark,
        FiniteSetTheorems, SequenceTheorems, WellFoundedInduction, TLAPS

-----------------------------------------------------------------------------
(* The cache.  Its first level, a Map, is a sequence without two entries   *)
(* of one key; an execution is joinable while somebody waits for it.       *)

L1Entries == [key : Keys, fresh : BOOLEAN]

KeysOnce(s) == \A i, n \in 1 .. Len(s) : s[i].key = s[n].key => i = n

\* RemoveAt of SequencesExt: what follows the removed element moves down by one.
LEMMA RemovedAt ==
  ASSUME NEW S, NEW s \in Seq(S), NEW i \in 1 .. Len(s)
  PROVE  /\ RemoveAt(s, i) \in Seq(S)
         /\ Len(RemoveAt(s, i)) = Len(s) - 1
         /\ \A n \in 1 .. Len(s) - 1 : RemoveAt(s, i)[n] = IF n < i THEN s[n] ELSE s[n + 1]
<1> DEFINE a == SubSeq(s, 1, i - 1)
           b == SubSeq(s, i + 1, Len(s))
<1>1. a \in Seq(S) /\ Len(a) = i - 1 /\ \A n \in 1 .. i - 1 : a[n] = s[n]
  OBVIOUS
<1>2. b \in Seq(S) /\ Len(b) = Len(s) - i /\ \A n \in 1 .. Len(s) - i : b[n] = s[i + n]
  OBVIOUS
<1> HIDE DEF a, b
<1>3. /\ a \o b \in Seq(S) /\ Len(a \o b) = Len(s) - 1
      /\ \A n \in 1 .. Len(s) - 1 : (a \o b)[n] = IF n <= i - 1 THEN a[n] ELSE b[n - (i - 1)]
  <2>1. /\ a \o b \in Seq(S) /\ Len(a \o b) = Len(a) + Len(b)
        /\ \A n \in 1 .. Len(a) + Len(b) : (a \o b)[n] = IF n <= Len(a) THEN a[n] ELSE b[n - Len(a)]
    BY <1>1, <1>2, ConcatProperties
  <2>2. Len(a) + Len(b) = Len(s) - 1
    BY <1>1, <1>2
  <2> QED BY <1>1, <2>1, <2>2
<1>4. ASSUME NEW n \in 1 .. Len(s) - 1
      PROVE  (a \o b)[n] = IF n < i THEN s[n] ELSE s[n + 1]
  <2>1. CASE n < i
    BY <1>1, <1>3, <2>1
  <2>2. CASE ~(n < i)
    <3>1. (a \o b)[n] = b[n - (i - 1)] /\ n - (i - 1) \in 1 .. Len(s) - i
      BY <1>3, <2>2
    <3> QED BY <1>2, <2>2, <3>1
  <2> QED BY <2>1, <2>2
<1> QED BY <1>3, <1>4 DEF RemoveAt, a, b

LEMMA WithoutKey ==
  ASSUME TypeOK, NEW k \in Keys
  PROVE  /\ L1Without(k) \in Seq(L1Entries)
         /\ Len(L1Without(k)) <= Len(l1)
         /\ FreshInL1(k) => Len(L1Without(k)) = Len(l1) - 1
         /\ KeysOnce(L1Without(k))
         /\ \A n \in 1 .. Len(L1Without(k)) : L1Without(k)[n].key # k
<1>1. l1 \in Seq(L1Entries) /\ KeysOnce(l1) /\ Len(l1) \in Nat
  BY DEF TypeOK, L1Bounded, KeysOnce, L1Entries
<1>2. CASE Position(k) = {}
  <2>1. ~FreshInL1(k) /\ L1Without(k) = l1
    BY <1>2 DEF Position, FreshInL1, L1Without
  <2> QED BY <1>1, <1>2, <2>1 DEF Position
<1>3. CASE Position(k) # {}
  <2> DEFINE i == CHOOSE j \in Position(k) : TRUE
  <2>1. i \in 1 .. Len(l1) /\ l1[i].key = k
    BY <1>3 DEF Position
  <2>2. L1Without(k) = RemoveAt(l1, i)
    BY <1>3 DEF L1Without
  <2> HIDE DEF i
  <2>3. /\ L1Without(k) \in Seq(L1Entries) /\ Len(L1Without(k)) = Len(l1) - 1
        /\ \A n \in 1 .. Len(l1) - 1 : L1Without(k)[n] = IF n < i THEN l1[n] ELSE l1[n + 1]
    BY <1>1, <2>1, <2>2, RemovedAt
  <2>4. \A n \in 1 .. Len(l1) - 1 : \E j \in 1 .. Len(l1) \ {i} :
          /\ L1Without(k)[n] = l1[j]
          /\ j = IF n < i THEN n ELSE n + 1
    <3> TAKE n \in 1 .. Len(l1) - 1
    <3>1. CASE n < i
      BY <1>1, <2>3, <3>1
    <3>2. CASE ~(n < i)
      <4>1. n + 1 \in 1 .. Len(l1) \ {i} /\ L1Without(k)[n] = l1[n + 1]
        BY <1>1, <2>1, <2>3, <3>2
      <4> QED BY <3>2, <4>1
    <3> QED BY <3>1, <3>2
  <2>5. \A n \in 1 .. Len(l1) - 1 : L1Without(k)[n].key # k
    BY <1>1, <2>1, <2>4 DEF KeysOnce
  <2>6. KeysOnce(L1Without(k))
    <3> SUFFICES ASSUME NEW m \in 1 .. Len(l1) - 1, NEW n \in 1 .. Len(l1) - 1,
                        L1Without(k)[m].key = L1Without(k)[n].key
                 PROVE  m = n
      BY <2>3 DEF KeysOnce
    <3>1. PICK j \in 1 .. Len(l1) \ {i} : L1Without(k)[m] = l1[j] /\ j = IF m < i THEN m ELSE m + 1
      BY <2>4
    <3>2. PICK h \in 1 .. Len(l1) \ {i} : L1Without(k)[n] = l1[h] /\ h = IF n < i THEN n ELSE n + 1
      BY <2>4
    <3>3. j = h
      BY <1>1, <3>1, <3>2 DEF KeysOnce
    <3> QED BY <2>1, <3>1, <3>2, <3>3
  <2> QED BY <1>1, <2>3, <2>5, <2>6
<1> QED BY <1>2, <1>3

\* A key that is not there is put at the young end.
LEMMA AppendedKey ==
  ASSUME NEW s \in Seq(L1Entries), KeysOnce(s), NEW e \in L1Entries,
         \A n \in 1 .. Len(s) : s[n].key # e.key
  PROVE  Append(s, e) \in Seq(L1Entries) /\ KeysOnce(Append(s, e)) /\ Len(Append(s, e)) = Len(s) + 1
<1>1. Append(s, e) \in Seq(L1Entries) /\ Len(Append(s, e)) = Len(s) + 1
  OBVIOUS
<1>2. \A n \in 1 .. Len(s) + 1 : Append(s, e)[n] = IF n = Len(s) + 1 THEN e ELSE s[n]
  OBVIOUS
<1>3. KeysOnce(Append(s, e))
  <2> SUFFICES ASSUME NEW i \in 1 .. Len(s) + 1, NEW n \in 1 .. Len(s) + 1,
                      Append(s, e)[i].key = Append(s, e)[n].key
               PROVE  i = n
    BY <1>1 DEF KeysOnce
  <2>1. Len(s) \in Nat
    OBVIOUS
  <2> QED BY <1>2, <2>1 DEF KeysOnce
<1> QED BY <1>1, <1>3

LEMMA FreshEntry == ASSUME NEW k \in Keys PROVE [key |-> k, fresh |-> TRUE] \in L1Entries
BY DEF L1Entries

LEMMA WrittenL1 ==
  ASSUME TypeOK, NEW k \in Keys
  PROVE  /\ WriteL1(k) \in Seq(L1Entries)
         /\ KeysOnce(WriteL1(k)) /\ Len(WriteL1(k)) <= L1MaxEntries
<1>1. l1 \in Seq(L1Entries) /\ KeysOnce(l1) /\ Len(l1) <= L1MaxEntries
  BY DEF TypeOK, L1Bounded, KeysOnce, L1Entries
<1>2. CASE L1MaxEntries = 0
  BY <1>1, <1>2 DEF WriteL1
<1>3. CASE L1MaxEntries # 0
  <2> DEFINE s == Append(L1Without(k), [key |-> k, fresh |-> TRUE])
  <2>1. s \in Seq(L1Entries) /\ KeysOnce(s) /\ Len(s) <= L1MaxEntries + 1
    BY <1>1, WithoutKey, AppendedKey, FreshEntry, L1Assumption
  <2>2. WriteL1(k) = IF Len(s) > L1MaxEntries THEN Tail(s) ELSE s
    BY <1>3 DEF WriteL1, Evicted
  <2> HIDE DEF s
  <2>3. CASE Len(s) > L1MaxEntries
    <3>1. s # << >>
      BY <2>3, L1Assumption
    <3>2. /\ Tail(s) \in Seq(L1Entries) /\ Len(Tail(s)) = Len(s) - 1
          /\ \A i \in 1 .. Len(Tail(s)) : Tail(s)[i] = s[i + 1]
      BY <2>1, <3>1, HeadTailProperties
    <3>3. KeysOnce(Tail(s))
      <4> SUFFICES ASSUME NEW i \in 1 .. Len(Tail(s)), NEW n \in 1 .. Len(Tail(s)),
                          Tail(s)[i].key = Tail(s)[n].key
                   PROVE  i = n
        BY DEF KeysOnce
      <4>1. i + 1 \in 1 .. Len(s) /\ n + 1 \in 1 .. Len(s) /\ s[i + 1].key = s[n + 1].key
        BY <2>1, <3>2
      <4> QED BY <2>1, <4>1 DEF KeysOnce
    <3> QED BY <2>1, <2>2, <2>3, <3>2, <3>3, L1Assumption
  <2>4. CASE ~(Len(s) > L1MaxEntries)
    BY <2>1, <2>2, <2>4, L1Assumption
  <2> QED BY <2>3, <2>4
<1> QED BY <1>2, <1>3

-----------------------------------------------------------------------------
(* The executions.  SingleFlight and the counts are not enough: that a     *)
(* waiting call never gets the answer of an abort rests on an aborted      *)
(* execution having nobody who waits, and on a live one having somebody.   *)

WaitersSound(e) ==
  /\ IsFiniteSet(Waiters(e))
  /\ waiterCount[e] = Cardinality(Waiters(e))
  /\ e \in controllers => Waiters(e) = {}
  /\ Live(e) => Waiters(e) # {}
  /\ exec[e] = None => Waiters(e) = {}

EntrySound(e) ==
  /\ exec[e] = None => e \notin controllers
  /\ call[e] = "NOT_CALLED" => exec[e] = None
  /\ exec[e] \in {"SETTLED", "DONE"} => result[e] \in Results
  /\ result[e] = "OCR_ABORTED" => e \in controllers

OcrInv ==
  /\ TypeOK
  /\ SingleFlight
  /\ NoCollateralAbort
  /\ \A e \in Calls : EntrySound(e) /\ WaitersSound(e)
  /\ \A k \in Keys : inflight[k] # None => KeyOf[inflight[k]] = k
  /\ \A c \in Calls : call[c] = "WAITING" => joined[c] \in Calls

LEMMA OcrStarts == Init => OcrInv
<1> SUFFICES ASSUME Init PROVE OcrInv
  OBVIOUS
<1> USE DEF Init
<1>1. TypeOK
  BY L1Assumption DEF TypeOK, L1Bounded, Results, Executing
<1>2. \A e \in Calls : Waiters(e) = {} /\ ~Live(e)
  BY DEF Waiters, Live, Executing, None
<1>3. SingleFlight /\ NoCollateralAbort
  BY <1>2, KeyAssumption, NoneAssumption DEF SingleFlight, NoCollateralAbort
<1>4. \A e \in Calls : EntrySound(e) /\ WaitersSound(e)
  BY <1>2, FS_EmptySet DEF EntrySound, WaitersSound, None
<1> QED BY <1>1, <1>3, <1>4 DEF OcrInv

\* Steps that leave the executions alone.
LEMMA OnlyCaches ==
  ASSUME OcrInv, TypeOK', UNCHANGED <<call, joined, signals, inflight, exec, result, controllers, waiterCount>>
  PROVE  OcrInv'
BY DEF OcrInv, SingleFlight, NoCollateralAbort, EntrySound, WaitersSound, Waiters, Live

LEMMA CachesExpire ==
  ASSUME OcrInv, NEW k \in Keys, L1Expires(k) \/ L2Expires(k)
  PROVE  OcrInv'
<1>1. CASE L1Expires(k)
  <2>1. l1 \in Seq(L1Entries) /\ KeysOnce(l1) /\ Len(l1) <= L1MaxEntries /\ Len(l1) \in Nat
    <3>1. l1 \in Seq(L1Entries) /\ L1Bounded
      BY DEF OcrInv, TypeOK, L1Entries
    <3>2. Len(l1) \in Nat
      BY <3>1
    <3> QED BY <3>1, <3>2 DEF L1Bounded, KeysOnce
  <2> USE <1>1 DEF L1Expires
  <2>2. ASSUME NEW i \in 1 .. Len(l1)
        PROVE  l1'[i] \in L1Entries /\ l1'[i].key = l1[i].key
    <3>1. l1[i] \in L1Entries /\ l1'[i] = IF l1[i].key = k THEN [key |-> k, fresh |-> FALSE] ELSE l1[i]
      BY <2>1
    <3> QED BY <3>1 DEF L1Entries
  <2>3. l1' \in [1 .. Len(l1) -> L1Entries]
    BY <2>2
  <2>4. l1' \in Seq(L1Entries) /\ Len(l1') = Len(l1) /\ \A i \in 1 .. Len(l1) : l1'[i].key = l1[i].key
    <3> HIDE DEF L1Expires
    <3> QED BY <2>1, <2>2, <2>3
  <2>5. TypeOK'
    BY <2>1, <2>4 DEF OcrInv, TypeOK, L1Bounded, KeysOnce, L1Entries
  <2> QED BY <2>5, OnlyCaches
<1>2. CASE L2Expires(k)
  <2>1. TypeOK'
    BY <1>2 DEF OcrInv, TypeOK, L1Bounded, L2Expires
  <2> QED BY <1>2, <2>1, OnlyCaches DEF L2Expires
<1> QED BY <1>1, <1>2

-----------------------------------------------------------------------------
(* recognize()                                                             *)

LEMMA AnsweredAtOnce ==
  ASSUME OcrInv, NEW c \in Calls, RecognizeAborted(c) \/ RecognizeL1Hit(c)
  PROVE  OcrInv'
<1>1. TypeOK'
  <2>1. CASE RecognizeAborted(c)
    BY <2>1 DEF RecognizeAborted, OcrInv, TypeOK, L1Bounded, Results
  <2>2. CASE RecognizeL1Hit(c)
    <3> USE <2>2 DEF RecognizeL1Hit
    <3>1. KeyOf[c] \in Keys /\ TypeOK
      BY KeyAssumption DEF OcrInv
    <3>2. l1' \in Seq(L1Entries) /\ KeysOnce(l1') /\ Len(l1') = Len(l1)
      <4>1. /\ L1Without(KeyOf[c]) \in Seq(L1Entries) /\ KeysOnce(L1Without(KeyOf[c]))
            /\ Len(L1Without(KeyOf[c])) = Len(l1) - 1
            /\ \A n \in 1 .. Len(L1Without(KeyOf[c])) : L1Without(KeyOf[c])[n].key # KeyOf[c]
        BY <3>1, WithoutKey
      <4>2. [key |-> KeyOf[c], fresh |-> TRUE] \in L1Entries /\ Len(l1) \in Nat
        BY <3>1, FreshEntry DEF TypeOK
      <4> QED BY <4>1, <4>2, AppendedKey
    <3> QED BY <3>1, <3>2 DEF TypeOK, L1Bounded, KeysOnce, L1Entries, Results
  <2> QED BY <2>1, <2>2
<1>2. /\ call[c] = "NOT_CALLED" /\ \E a \in Results : call' = [call EXCEPT ![c] = a]
      /\ UNCHANGED <<joined, signals, inflight, exec, result, controllers, waiterCount>>
      /\ call'[c] = "OCR_ABORTED" => c \in signals
  BY DEF RecognizeAborted, RecognizeL1Hit, OcrInv, TypeOK, Results
<1>3. \A e \in Calls : Waiters(e)' = Waiters(e) /\ (Live(e)' <=> Live(e))
  BY <1>2 DEF Waiters, Live, OcrInv, TypeOK, Results
<1>4. \A e \in Calls : EntrySound(e)'
  BY <1>2 DEF OcrInv, TypeOK, EntrySound, Results
<1>5. \A e \in Calls : WaitersSound(e)'
  BY <1>2, <1>3 DEF OcrInv, WaitersSound
<1>6. NoCollateralAbort' /\ SingleFlight'
  BY <1>2, <1>3 DEF OcrInv, NoCollateralAbort, SingleFlight, TypeOK
<1>7. \A d \in Calls : call'[d] = "WAITING" => joined'[d] \in Calls
  BY <1>2 DEF OcrInv, TypeOK, Results
<1> QED BY <1>1, <1>2, <1>4, <1>5, <1>6, <1>7 DEF OcrInv

\* A call comes to wait for e.
LEMMA OneMoreWaits ==
  ASSUME OcrInv, NEW c \in Calls, NEW e \in Calls, call[c] = "NOT_CALLED", WaitsFor(c, e)
  PROVE  /\ call' \in [Calls -> Results \cup {"NOT_CALLED", "WAITING"}]
         /\ joined' \in [Calls -> Calls \cup {None}]
         /\ waiterCount' \in [Calls -> Nat]
         /\ call'[c] = "WAITING" /\ joined'[c] = e
         /\ \A d \in Calls \ {c} : call'[d] = call[d] /\ joined'[d] = joined[d]
         /\ IsFiniteSet(Waiters(e)') /\ waiterCount'[e] = Cardinality(Waiters(e)') /\ Waiters(e)' # {}
         /\ \A d \in Calls \ {e} : Waiters(d)' = Waiters(d) /\ waiterCount'[d] = waiterCount[d]
<1> USE DEF WaitsFor
<1>1. TypeOK /\ WaitersSound(e)
  BY DEF OcrInv
<1>2. c \notin Waiters(e) /\ Waiters(e)' = Waiters(e) \cup {c}
  BY <1>1 DEF Waiters, TypeOK
<1>3. IsFiniteSet(Waiters(e)') /\ Cardinality(Waiters(e)') = Cardinality(Waiters(e)) + 1
  BY <1>1, <1>2, FS_AddElement DEF WaitersSound
<1>4. \A d \in Calls \ {e} : Waiters(d)' = Waiters(d) /\ waiterCount'[d] = waiterCount[d]
  BY <1>1 DEF Waiters, TypeOK
<1>5. waiterCount'[e] = waiterCount[e] + 1
  BY <1>1 DEF TypeOK
<1>6. /\ call' \in [Calls -> Results \cup {"NOT_CALLED", "WAITING"}]
      /\ joined' \in [Calls -> Calls \cup {None}]
      /\ waiterCount' \in [Calls -> Nat]
      /\ call'[c] = "WAITING" /\ joined'[c] = e
      /\ \A d \in Calls \ {c} : call'[d] = call[d] /\ joined'[d] = joined[d]
  BY <1>1 DEF TypeOK
<1> QED BY <1>1, <1>2, <1>3, <1>4, <1>5, <1>6 DEF WaitersSound

LEMMA MissesType ==
  ASSUME OcrInv, NEW c \in Calls, MissesL1(c)
  PROVE  l1' \in Seq([key : Keys, fresh : BOOLEAN]) /\ L1Bounded'
<1>1. TypeOK /\ KeyOf[c] \in Keys /\ l1' = L1Without(KeyOf[c])
  BY KeyAssumption DEF OcrInv, MissesL1
<1>2. l1' \in Seq(L1Entries) /\ Len(l1') <= Len(l1) /\ KeysOnce(l1')
  BY <1>1, WithoutKey
<1>3. Len(l1) <= L1MaxEntries /\ Len(l1) \in Nat /\ Len(l1') \in Nat
  BY <1>1, <1>2 DEF TypeOK, L1Bounded
<1> QED BY <1>2, <1>3, L1Assumption DEF L1Bounded, KeysOnce, L1Entries

LEMMA JoinStep ==
  ASSUME OcrInv, NEW c \in Calls, RecognizeJoin(c)
  PROVE  OcrInv'
<1> USE DEF RecognizeJoin
<1> DEFINE e == inflight[KeyOf[c]]
<1>1. TypeOK /\ e \in Calls /\ KeyOf[e] = KeyOf[c] /\ inflight[KeyOf[e]] = e
  BY KeyAssumption DEF OcrInv, TypeOK
<1>2. Live(e) /\ WaitsFor(c, e) /\ call[c] = "NOT_CALLED"
  BY <1>1 DEF OcrInv, SingleFlight, MissesL1
<1> HIDE DEF e
<1>3. UNCHANGED <<signals, inflight, exec, result, controllers, l2>>
  OBVIOUS
<1>4. TypeOK'
  BY <1>1, <1>2, <1>3, OneMoreWaits, MissesType DEF TypeOK
<1>5. \A d \in Calls : Live(d)' <=> Live(d)
  BY <1>3 DEF Live
<1>6. \A d \in Calls : EntrySound(d)'
  <2> TAKE d \in Calls
  <2>1. EntrySound(d) /\ (call'[d] = "NOT_CALLED" => call[d] = "NOT_CALLED")
    BY <1>1, <1>2, OneMoreWaits DEF OcrInv
  <2> QED BY <1>3, <2>1 DEF EntrySound
<1>7. \A d \in Calls : WaitersSound(d)'
  <2> TAKE d \in Calls
  <2>1. WaitersSound(d)
    BY DEF OcrInv
  <2>2. CASE d = e
    BY <1>1, <1>2, <1>3, <2>2, OneMoreWaits DEF WaitersSound, Live, Executing, None
  <2>3. CASE d # e
    BY <1>1, <1>2, <1>3, <1>5, <2>1, <2>3, OneMoreWaits DEF WaitersSound
  <2> QED BY <2>2, <2>3
<1>8. NoCollateralAbort' /\ SingleFlight'
  BY <1>1, <1>2, <1>3, <1>5, OneMoreWaits DEF OcrInv, NoCollateralAbort, SingleFlight
<1>9. \A d \in Calls : call'[d] = "WAITING" => joined'[d] \in Calls
  BY <1>1, <1>2, OneMoreWaits DEF OcrInv
<1> QED BY <1>3, <1>4, <1>6, <1>7, <1>8, <1>9 DEF OcrInv

LEMMA ExecuteStep ==
  ASSUME OcrInv, NEW c \in Calls, RecognizeExecute(c)
  PROVE  OcrInv'
<1> USE DEF RecognizeExecute
<1>1. TypeOK /\ WaitsFor(c, c) /\ call[c] = "NOT_CALLED" /\ KeyOf[c] \in Keys
  BY KeyAssumption DEF OcrInv, MissesL1
<1>2. EntrySound(c) /\ WaitersSound(c) /\ exec[c] = None /\ c \notin controllers
  BY <1>1 DEF OcrInv, EntrySound
<1>3. /\ UNCHANGED <<signals, result, controllers, l2>>
      /\ exec'[c] = "GET" /\ inflight'[KeyOf[c]] = c
      /\ \A d \in Calls \ {c} : exec'[d] = exec[d]
      /\ \A k \in Keys \ {KeyOf[c]} : inflight'[k] = inflight[k]
  BY <1>1 DEF TypeOK
<1>4. TypeOK'
  <2>1. exec' \in [Calls -> Executing \cup {None, "DONE"}] /\ inflight' \in [Keys -> Calls \cup {None}]
    BY <1>1 DEF TypeOK, Executing
  <2> QED BY <1>1, <1>3, <2>1, OneMoreWaits, MissesType DEF TypeOK
<1>5. Live(c)' /\ \A d \in Calls \ {c} : Live(d)' <=> Live(d)
  BY <1>2, <1>3 DEF Live, Executing
<1>6. \A d \in Calls : EntrySound(d)'
  <2> TAKE d \in Calls
  <2>1. EntrySound(d) /\ (call'[d] = "NOT_CALLED" => call[d] = "NOT_CALLED" /\ d # c)
    BY <1>1, OneMoreWaits DEF OcrInv
  <2> QED BY <1>2, <1>3, <2>1 DEF EntrySound, None
<1>7. \A d \in Calls : WaitersSound(d)'
  <2> TAKE d \in Calls
  <2>1. WaitersSound(d)
    BY DEF OcrInv
  <2>2. CASE d = c
    BY <1>1, <1>2, <1>3, <2>2, OneMoreWaits DEF WaitersSound, None
  <2>3. CASE d # c
    BY <1>1, <1>3, <1>5, <2>1, <2>3, OneMoreWaits DEF WaitersSound
  <2> QED BY <2>2, <2>3
<1>8. NoCollateralAbort'
  BY <1>1, <1>3, OneMoreWaits DEF OcrInv, NoCollateralAbort
<1>9. SingleFlight'
  <2> SUFFICES ASSUME NEW d \in Calls PROVE Live(d)' <=> inflight'[KeyOf[d]] = d
    BY DEF SingleFlight
  <2>1. Live(d) <=> inflight[KeyOf[d]] = d
    BY DEF OcrInv, SingleFlight
  <2>2. KeyOf[d] \in Keys /\ inflight[KeyOf[c]] = None /\ d # None
    BY KeyAssumption, NoneAssumption
  <2> QED BY <1>3, <1>5, <2>1, <2>2
<1>10. \A k \in Keys : inflight'[k] # None => KeyOf[inflight'[k]] = k
  BY <1>1, <1>3 DEF OcrInv
<1>11. \A d \in Calls : call'[d] = "WAITING" => joined'[d] \in Calls
  BY <1>1, OneMoreWaits DEF OcrInv
<1> QED BY <1>4, <1>6, <1>7, <1>8, <1>9, <1>10, <1>11 DEF OcrInv

-----------------------------------------------------------------------------
(* A waiting call is answered, or leaves.                                  *)

LEMMA OneLessWaits ==
  ASSUME OcrInv, NEW c \in Calls, call[c] = "WAITING", NEW e \in Calls, joined[c] = e, NEW a \in Results,
         call' = [call EXCEPT ![c] = a],
         waiterCount' = [waiterCount EXCEPT ![e] = @ - 1],
         UNCHANGED joined
  PROVE  /\ call' \in [Calls -> Results \cup {"NOT_CALLED", "WAITING"}]
         /\ waiterCount' \in [Calls -> Nat]
         /\ call'[c] = a /\ \A d \in Calls \ {c} : call'[d] = call[d]
         /\ c \in Waiters(e)
         /\ Waiters(e)' = Waiters(e) \ {c}
         /\ IsFiniteSet(Waiters(e)') /\ waiterCount'[e] = Cardinality(Waiters(e)')
         /\ waiterCount[e] = 1 <=> Waiters(e)' = {}
         /\ \A d \in Calls \ {e} : Waiters(d)' = Waiters(d) /\ waiterCount'[d] = waiterCount[d]
<1>1. TypeOK
  BY DEF OcrInv
<1>2. WaitersSound(e) /\ c \in Waiters(e)
  BY <1>1 DEF OcrInv, Waiters
<1>3. Waiters(e)' = Waiters(e) \ {c}
  BY <1>1 DEF Waiters, TypeOK, Results
<1>4. IsFiniteSet(Waiters(e)') /\ Cardinality(Waiters(e)') = Cardinality(Waiters(e)) - 1
      /\ Cardinality(Waiters(e)') \in Nat /\ Cardinality(Waiters(e)) \in Nat
  BY <1>2, <1>3, FS_RemoveElement, FS_CardinalityType DEF WaitersSound
<1>5. waiterCount[e] = Cardinality(Waiters(e)) /\ waiterCount'[e] = waiterCount[e] - 1
  BY <1>1, <1>2 DEF TypeOK, WaitersSound
<1>6. waiterCount[e] = 1 <=> Waiters(e)' = {}
  BY <1>4, <1>5, FS_EmptySet
<1>7. \A d \in Calls \ {e} : Waiters(d)' = Waiters(d) /\ waiterCount'[d] = waiterCount[d]
  BY <1>1 DEF Waiters, TypeOK, Results
<1>8. waiterCount' \in [Calls -> Nat]
  BY <1>1, <1>4, <1>5 DEF TypeOK
<1>9. /\ call' \in [Calls -> Results \cup {"NOT_CALLED", "WAITING"}]
      /\ call'[c] = a /\ \A d \in Calls \ {c} : call'[d] = call[d]
  BY <1>1 DEF TypeOK
<1> QED BY <1>1, <1>2, <1>3, <1>4, <1>5, <1>6, <1>7, <1>8, <1>9

LEMMA DeliverStep ==
  ASSUME OcrInv, NEW c \in Calls, Deliver(c)
  PROVE  OcrInv'
<1> PICK e \in Calls : joined[c] = e
  BY DEF OcrInv, Deliver
<1>1. TypeOK /\ EntrySound(e) /\ WaitersSound(e) /\ c \in Waiters(e) /\ exec[e] = "DONE"
  BY DEF OcrInv, Waiters, Deliver
<1>2. result[e] \in Results /\ result[e] # "OCR_ABORTED"
  BY <1>1 DEF EntrySound, WaitersSound
<1>3. UNCHANGED <<joined, signals, inflight, exec, result, controllers, l1, l2>>
  BY DEF Deliver
<1>4. /\ call' \in [Calls -> Results \cup {"NOT_CALLED", "WAITING"}]
      /\ waiterCount' \in [Calls -> Nat]
      /\ call'[c] = result[e] /\ \A d \in Calls \ {c} : call'[d] = call[d]
      /\ IsFiniteSet(Waiters(e)') /\ waiterCount'[e] = Cardinality(Waiters(e)')
      /\ \A d \in Calls \ {e} : Waiters(d)' = Waiters(d) /\ waiterCount'[d] = waiterCount[d]
  <2>1. PICK a \in Results : a = result[e]
    BY <1>2
  <2>2. call[c] = "WAITING" /\ call' = [call EXCEPT ![c] = a]
    BY <2>1 DEF Deliver
  <2>3. waiterCount' = [waiterCount EXCEPT ![e] = @ - 1]
    BY DEF Deliver, Delivered
  <2>4. UNCHANGED joined
    BY DEF Deliver
  <2>5. /\ call' \in [Calls -> Results \cup {"NOT_CALLED", "WAITING"}]
        /\ waiterCount' \in [Calls -> Nat]
        /\ call'[c] = a /\ \A d \in Calls \ {c} : call'[d] = call[d]
        /\ IsFiniteSet(Waiters(e)') /\ waiterCount'[e] = Cardinality(Waiters(e)')
        /\ \A d \in Calls \ {e} : Waiters(d)' = Waiters(d) /\ waiterCount'[d] = waiterCount[d]
    BY <2>2, <2>3, <2>4, OneLessWaits, ZenonT(60)
  <2> QED BY <2>1, <2>5
<1>5. TypeOK'
  BY <1>1, <1>3, <1>4 DEF TypeOK, L1Bounded
<1>6. \A d \in Calls : (Live(d)' <=> Live(d)) /\ ~Live(e)
  BY <1>1, <1>3 DEF Live, Executing
<1>7. \A d \in Calls : EntrySound(d)'
  <2> TAKE d \in Calls
  <2>1. EntrySound(d) /\ (call'[d] = "NOT_CALLED" => call[d] = "NOT_CALLED")
    BY <1>2, <1>4 DEF OcrInv, Results
  <2> QED BY <1>3, <2>1 DEF EntrySound
<1>8. \A d \in Calls : WaitersSound(d)'
  <2> TAKE d \in Calls
  <2>1. WaitersSound(d)
    BY DEF OcrInv
  <2>2. CASE d = e
    BY <1>1, <1>3, <1>4, <1>6, <2>1, <2>2 DEF WaitersSound
  <2>3. CASE d # e
    BY <1>3, <1>4, <1>6, <2>1, <2>3 DEF WaitersSound
  <2> QED BY <2>2, <2>3
<1>9. NoCollateralAbort' /\ SingleFlight'
  BY <1>2, <1>3, <1>4, <1>6 DEF OcrInv, NoCollateralAbort, SingleFlight
<1>10. \A d \in Calls : call'[d] = "WAITING" => joined'[d] \in Calls
  BY <1>2, <1>3, <1>4 DEF OcrInv, Results
<1> QED BY <1>3, <1>5, <1>7, <1>8, <1>9, <1>10 DEF OcrInv

LEMMA AbortStep ==
  ASSUME OcrInv, NEW c \in Calls, Abort(c)
  PROVE  OcrInv'
<1>1. TypeOK /\ signals' = signals \cup {c} /\ c \in Signalled
      /\ UNCHANGED <<joined, exec, result, l1, l2>>
  BY DEF OcrInv, Abort
<1>2. CASE call[c] # "WAITING"
  <2>1. UNCHANGED <<call, waiterCount, inflight, controllers>>
    BY <1>2 DEF Abort
  <2>2. TypeOK'
    BY <1>1, <2>1 DEF TypeOK, L1Bounded
  <2> QED BY <1>1, <2>1, <2>2
          DEF OcrInv, SingleFlight, NoCollateralAbort, EntrySound, WaitersSound, Waiters, Live
<1>3. CASE call[c] = "WAITING"
  <2> PICK e \in Calls : joined[c] = e
    BY <1>3 DEF OcrInv
  <2>1. /\ call' = [call EXCEPT ![c] = "OCR_ABORTED"]
        /\ waiterCount' = [waiterCount EXCEPT ![e] = @ - 1]
        /\ IF LastToLeave(e)
           THEN inflight' = Forget(e) /\ controllers' = controllers \cup {e}
           ELSE UNCHANGED <<inflight, controllers>>
    BY <1>3 DEF Abort, Leave
  <2>2. /\ EntrySound(e) /\ WaitersSound(e) /\ c \in Waiters(e)
        /\ exec[e] # None /\ e \notin controllers /\ KeyOf[e] \in Keys
    BY <1>3, KeyAssumption DEF OcrInv, Waiters, WaitersSound
  <2>3. /\ call' \in [Calls -> Results \cup {"NOT_CALLED", "WAITING"}]
        /\ waiterCount' \in [Calls -> Nat]
        /\ call'[c] = "OCR_ABORTED" /\ \A d \in Calls \ {c} : call'[d] = call[d]
        /\ IsFiniteSet(Waiters(e)') /\ waiterCount'[e] = Cardinality(Waiters(e)')
        /\ waiterCount[e] = 1 <=> Waiters(e)' = {}
        /\ \A d \in Calls \ {e} : Waiters(d)' = Waiters(d) /\ waiterCount'[d] = waiterCount[d]
    BY <1>1, <1>3, <2>1, OneLessWaits DEF Results
  <2>4. inflight' \in [Keys -> Calls \cup {None}] /\ controllers' \subseteq Calls
    BY <1>1, <2>1, <2>2 DEF TypeOK, Forget
  <2>5. TypeOK'
    BY <1>1, <2>3, <2>4 DEF TypeOK, L1Bounded
  <2>6. \A d \in Calls : EntrySound(d)'
    <3> TAKE d \in Calls
    <3>1. EntrySound(d) /\ (call'[d] = "NOT_CALLED" => call[d] = "NOT_CALLED")
      BY <2>3 DEF OcrInv
    <3>2. controllers \subseteq controllers' /\ (d \in controllers' => d \in controllers \/ d = e)
      BY <2>1
    <3> QED BY <1>1, <2>2, <3>1, <3>2 DEF EntrySound
  <2>7. \A d \in Calls : WaitersSound(d)'
    <3> TAKE d \in Calls
    <3>1. WaitersSound(d)
      BY DEF OcrInv
    <3>2. CASE d # e
      <4>1. d \in controllers' <=> d \in controllers
        BY <2>1, <3>2
      <4> QED BY <1>1, <2>3, <3>1, <3>2, <4>1 DEF WaitersSound, Live
    <3>3. CASE d = e
      <4>1. CASE LastToLeave(e)
        <5>1. Waiters(e)' = {} /\ e \in controllers'
          BY <2>1, <2>3, <4>1 DEF LastToLeave
        <5>2. ~Live(e)'
          BY <5>1 DEF Live
        <5> QED BY <2>3, <3>3, <5>1, <5>2 DEF WaitersSound
      <4>2. CASE ~LastToLeave(e)
        <5>1. controllers' = controllers /\ (Waiters(e)' = {} => exec[e] = "DONE")
          BY <2>1, <2>3, <4>2 DEF LastToLeave
        <5>2. Live(e)' => Waiters(e)' # {}
          BY <1>1, <5>1 DEF Live, Executing
        <5>3. e \notin controllers' /\ exec'[e] # None
          BY <1>1, <2>2, <5>1
        <5> QED BY <2>3, <3>3, <5>2, <5>3 DEF WaitersSound
      <4> QED BY <4>1, <4>2
    <3> QED BY <3>2, <3>3
  <2>8. NoCollateralAbort'
    BY <1>1, <2>3 DEF OcrInv, NoCollateralAbort
  <2>9. SingleFlight'
    <3> SUFFICES ASSUME NEW d \in Calls PROVE Live(d)' <=> inflight'[KeyOf[d]] = d
      BY DEF SingleFlight
    <3>1. (Live(d) <=> inflight[KeyOf[d]] = d) /\ KeyOf[d] \in Keys /\ d # None
      BY KeyAssumption, NoneAssumption DEF OcrInv, SingleFlight
    <3>2. CASE LastToLeave(e)
      <4>1. Live(d)' <=> Live(d) /\ d # e
        BY <1>1, <2>1, <3>2 DEF Live
      <4>2. inflight'[KeyOf[d]] = IF KeyOf[d] = KeyOf[e] /\ inflight[KeyOf[d]] = e THEN None ELSE inflight[KeyOf[d]]
        BY <1>1, <2>1, <3>1, <3>2 DEF Forget, TypeOK
      <4> QED BY <2>2, <3>1, <4>1, <4>2
    <3>3. CASE ~LastToLeave(e)
      BY <1>1, <2>1, <3>1, <3>3 DEF Live
    <3> QED BY <3>2, <3>3
  <2>10. \A k \in Keys : inflight'[k] # None => KeyOf[inflight'[k]] = k
    BY <1>1, <2>1 DEF OcrInv, Forget, TypeOK
  <2>11. \A d \in Calls : call'[d] = "WAITING" => joined'[d] \in Calls
    BY <1>1, <2>3 DEF OcrInv
  <2> QED BY <2>5, <2>6, <2>7, <2>8, <2>9, <2>10, <2>11 DEF OcrInv
<1> QED BY <1>2, <1>3

-----------------------------------------------------------------------------
(* execute()                                                               *)

\* The execution of e goes on, and settles with r if it settles.
LEMMA ExecutionMoves ==
  ASSUME OcrInv, NEW e \in Calls, exec[e] \in {"GET", "RECOGNIZE", "PUT"},
         UNCHANGED <<call, joined, signals, inflight, controllers, waiterCount>>,
         l1' \in Seq([key : Keys, fresh : BOOLEAN]) /\ L1Bounded', l2' \subseteq Keys,
         \/ exec' = [exec EXCEPT ![e] = "RECOGNIZE"] /\ UNCHANGED result
         \/ exec' = [exec EXCEPT ![e] = "PUT"] /\ UNCHANGED result
         \/ \E r \in Results : Returns(e, r) /\ (r = "OCR_ABORTED" => e \in controllers)
  PROVE  OcrInv'
<1>1. TypeOK
  BY DEF OcrInv
<1>2. /\ exec'[e] \in {"RECOGNIZE", "PUT", "SETTLED"} /\ \A d \in Calls \ {e} : exec'[d] = exec[d]
      /\ exec' \in [Calls -> Executing \cup {None, "DONE"}]
  BY <1>1 DEF Returns, TypeOK, Executing
<1>3. /\ result' \in [Calls -> Results \cup {None}] /\ \A d \in Calls \ {e} : result'[d] = result[d]
      /\ exec'[e] = "SETTLED" => result'[e] \in Results
      /\ result'[e] = "OCR_ABORTED" => e \in controllers
  <2>1. result[e] = "OCR_ABORTED" => e \in controllers
    BY DEF OcrInv, EntrySound
  <2>2. CASE result' = result
    BY <1>1, <1>2, <2>1, <2>2 DEF TypeOK, Returns
  <2>3. CASE \E r \in Results : Returns(e, r) /\ (r = "OCR_ABORTED" => e \in controllers)
    BY <1>1, <2>3 DEF TypeOK, Returns
  <2> QED BY <2>2, <2>3
<1>4. TypeOK'
  BY <1>1, <1>2, <1>3 DEF TypeOK
<1>5. \A d \in Calls : Waiters(d)' = Waiters(d) /\ (Live(d)' <=> Live(d))
  BY <1>2 DEF Waiters, Live, Executing
<1>6. \A d \in Calls : EntrySound(d)'
  <2> TAKE d \in Calls
  <2>1. EntrySound(d)
    BY DEF OcrInv
  <2>2. CASE d = e
    BY <1>2, <1>3, <2>1, <2>2 DEF EntrySound, None
  <2>3. CASE d # e
    BY <1>2, <1>3, <2>1, <2>3 DEF EntrySound
  <2> QED BY <2>2, <2>3
<1>7. \A d \in Calls : WaitersSound(d)'
  <2> TAKE d \in Calls
  <2>1. WaitersSound(d)
    BY DEF OcrInv
  <2>2. exec'[d] = None => exec[d] = None
    BY <1>2 DEF None
  <2> QED BY <1>5, <2>1, <2>2 DEF WaitersSound
<1>8. NoCollateralAbort' /\ SingleFlight'
  BY <1>5 DEF OcrInv, NoCollateralAbort, SingleFlight
<1> QED BY <1>4, <1>6, <1>7, <1>8 DEF OcrInv

LEMMA FinallyStep ==
  ASSUME OcrInv, NEW e \in Calls, Finally(e)
  PROVE  OcrInv'
<1> USE DEF Finally
<1>1. TypeOK /\ EntrySound(e) /\ KeyOf[e] \in Keys
  BY KeyAssumption DEF OcrInv
<1>2. /\ exec' \in [Calls -> Executing \cup {None, "DONE"}] /\ inflight' \in [Keys -> Calls \cup {None}]
      /\ exec'[e] = "DONE" /\ \A d \in Calls \ {e} : exec'[d] = exec[d]
  BY <1>1 DEF TypeOK, Forget
<1>3. TypeOK'
  BY <1>1, <1>2 DEF TypeOK, L1Bounded
<1>4. \A d \in Calls : Waiters(d)' = Waiters(d) /\ (Live(d)' <=> Live(d) /\ d # e)
  BY <1>2 DEF Waiters, Live, Executing
<1>5. \A d \in Calls : EntrySound(d)' /\ WaitersSound(d)'
  <2> TAKE d \in Calls
  <2>1. EntrySound(d) /\ WaitersSound(d)
    BY DEF OcrInv
  <2>2. (exec'[d] = None => exec[d] = None) /\ (exec'[d] \in {"SETTLED", "DONE"} => exec[d] \in {"SETTLED", "DONE"})
        /\ (exec[d] = None => exec'[d] = None)
    BY <1>2 DEF None
  <2> QED BY <1>4, <2>1, <2>2 DEF EntrySound, WaitersSound
<1>6. NoCollateralAbort'
  BY DEF OcrInv, NoCollateralAbort
<1>7. SingleFlight'
  <2> SUFFICES ASSUME NEW d \in Calls PROVE Live(d)' <=> inflight'[KeyOf[d]] = d
    BY DEF SingleFlight
  <2>1. (Live(d) <=> inflight[KeyOf[d]] = d) /\ KeyOf[d] \in Keys /\ d # None
    BY KeyAssumption, NoneAssumption DEF OcrInv, SingleFlight
  <2>2. inflight'[KeyOf[d]] = IF KeyOf[d] = KeyOf[e] /\ inflight[KeyOf[d]] = e THEN None ELSE inflight[KeyOf[d]]
    BY <1>1, <2>1 DEF Forget, TypeOK
  <2> QED BY <1>4, <2>1, <2>2
<1>8. \A k \in Keys : inflight'[k] # None => KeyOf[inflight'[k]] = k
  BY <1>1 DEF OcrInv, Forget, TypeOK
<1> QED BY <1>3, <1>5, <1>6, <1>7, <1>8 DEF OcrInv

LEMMA ExecuteSteps ==
  ASSUME OcrInv, NEW e \in Calls, Execute(e)
  PROVE  OcrInv'
<1>1. /\ TypeOK /\ KeyOf[e] \in Keys /\ l2 \cup {KeyOf[e]} \subseteq Keys
      /\ l1 \in Seq([key : Keys, fresh : BOOLEAN]) /\ L1Bounded
  BY KeyAssumption DEF OcrInv, TypeOK
<1>2. l1' = WriteL1(KeyOf[e]) => l1' \in Seq([key : Keys, fresh : BOOLEAN]) /\ L1Bounded'
  BY <1>1, WrittenL1 DEF L1Bounded, KeysOnce, L1Entries
<1>3. UNCHANGED l1 => l1' \in Seq([key : Keys, fresh : BOOLEAN]) /\ L1Bounded'
  BY <1>1 DEF L1Bounded
<1>4. CASE StoreHit(e)
  BY <1>1, <1>2, <1>4, ExecutionMoves DEF StoreHit, Results
<1>5. CASE StoreMiss(e)
  <2>1. l1' = l1 /\ l2' = l2
    BY <1>5 DEF StoreMiss
  <2> QED BY <1>1, <1>3, <1>5, <2>1, ExecutionMoves DEF StoreMiss, StillWanted, Results
<1>6. CASE ProviderSucceeds(e)
  BY <1>1, <1>2, <1>6, ExecutionMoves DEF ProviderSucceeds
<1>7. CASE ProviderFails(e)
  <2>1. l1' = l1 /\ l2' = l2
    BY <1>7 DEF ProviderFails
  <2> QED BY <1>1, <1>3, <1>7, <2>1, ExecutionMoves DEF ProviderFails, Results
<1>8. CASE StorePut(e)
  <2>1. l1' = l1 /\ l2' \subseteq Keys
    BY <1>1, <1>8 DEF StorePut
  <2> QED BY <1>1, <1>3, <1>8, <2>1, ExecutionMoves DEF StorePut, Results
<1> QED BY <1>4, <1>5, <1>6, <1>7, <1>8, FinallyStep DEF Execute

LEMMA OcrSteps == OcrInv /\ [Next]_vars => OcrInv'
<1> SUFFICES ASSUME OcrInv, [Next]_vars PROVE OcrInv'
  OBVIOUS
<1>1. CASE UNCHANGED vars
  <2>1. TypeOK'
    BY <1>1 DEF OcrInv, TypeOK, L1Bounded, vars
  <2> QED BY <1>1, <2>1, OnlyCaches DEF vars
<1> QED BY <1>1, CachesExpire, AnsweredAtOnce, JoinStep, ExecuteStep, DeliverStep, AbortStep, ExecuteSteps
        DEF Next, Recognize

\* cached-ocr-provider.ts:182, waitForInflight(): for any calls, keys and first level, whoever
\* joins, leaves or aborts, the count of an entry is right, an image is read by at most one
\* execution that is wanted, nobody gets the answer of another's abort, and the paid provider
\* is asked only while somebody waits.
THEOREM ExecutionsAreAlwaysShared == Spec => ExecutionsAreShared
<1>1. Init => OcrInv
  BY OcrStarts
<1>2. OcrInv /\ [Next]_vars => OcrInv'
  BY OcrSteps
<1>3. OcrInv => TypeOK /\ WaitersCounted /\ SingleFlight /\ NoCollateralAbort
  BY DEF OcrInv, WaitersSound, WaitersCounted
<1>4. OcrInv /\ [Next]_vars =>
        [\A e \in Calls : exec[e] = "GET" /\ exec'[e] = "RECOGNIZE" => Waiters(e) # {}]_vars
  <2> SUFFICES ASSUME OcrInv, Next, NEW e \in Calls, exec[e] = "GET", exec'[e] = "RECOGNIZE"
               PROVE  Waiters(e) # {}
    OBVIOUS
  <2>1. TypeOK /\ WaitersSound(e)
    BY DEF OcrInv
  <2>2. e \notin controllers
    <3>1. ASSUME NEW c \in Calls, Execute(c) PROVE e \notin controllers
      BY <2>1, <3>1 DEF TypeOK, Execute, StoreHit, StoreMiss, StillWanted, ProviderSucceeds, ProviderFails,
        StorePut, Finally, Returns
    <3>2. ASSUME NEW c \in Calls, Recognize(c) \/ Abort(c) \/ Deliver(c) PROVE FALSE
      BY <2>1, <3>2 DEF TypeOK, Recognize, RecognizeAborted, RecognizeL1Hit, RecognizeJoin, RecognizeExecute,
        Abort, Deliver
    <3>3. ASSUME NEW k \in Keys, L1Expires(k) \/ L2Expires(k) PROVE FALSE
      BY <3>3 DEF L1Expires, L2Expires
    <3> QED BY <3>1, <3>2, <3>3 DEF Next
  <2> QED BY <2>1, <2>2 DEF WaitersSound, Live, Executing
<1> QED BY <1>1, <1>2, <1>3, <1>4, PTL DEF Spec, ExecutionsAreShared, NoCallForNobody

-----------------------------------------------------------------------------
(* The workspace.  Revisions are only appended, so what a request was told *)
(* stays there.                                                            *)

\* The revision a request was given is one of the observation's.
AnswersAreThere ==
  \A r \in Tasks :
    task[r].phase = "ANSWERED" /\ owned =>
      task[r].told \in DOMAIN revisions /\ revisions[task[r].told] = task[r].input

InciInv == InciTypeOK /\ HistoryIsSound /\ AnswersAreThere

LEMMA InputsAreInputs ==
  /\ Blank \in Inputs /\ Idle \in TaskRows /\ Idle.phase = "IDLE"
  /\ \A text \in Texts, base \in 0 .. MaxRevisions :
       Revision("USER_CORRECTION", text, base, Nobody) \in Inputs
  /\ \A input \in Inputs : Storing(input) \in TaskRows /\ Storing(input).phase = "STORING"
<1>1. (CHOOSE t \in Texts : TRUE) \in Texts
  BY InciAssumption
<1>2. Blank \in Inputs
  BY <1>1, InciAssumption DEF Blank, Revision, Inputs, Kinds
<1> QED BY <1>1, <1>2, InciAssumption DEF Idle, TaskRows, Phases, Revision, Inputs, Kinds, Storing

LEMMA InciStartsWell == InciInit => InciInv
<1> SUFFICES ASSUME InciInit PROVE InciInv
  OBVIOUS
<1> USE DEF InciInit
<1>1. InciTypeOK
  BY InputsAreInputs, InciAssumption DEF InciTypeOK
<1>2. HistoryIsSound
  BY DEF HistoryIsSound
<1>3. AnswersAreThere
  BY InputsAreInputs DEF AnswersAreThere
<1> QED BY <1>1, <1>2, <1>3 DEF InciInv

\* A request that goes on, or gives up, answers nobody.
LEMMA RequestsWait ==
  ASSUME InciInv, NEW r \in Tasks, NEW row \in TaskRows, row.phase # "ANSWERED", Set(r, row),
         UNCHANGED <<owned, photos, revisions, snapshots>>
  PROVE  InciInv'
<1>1. /\ task' = [task EXCEPT ![r] = row] /\ task \in [Tasks -> TaskRows]
  BY DEF Set, InciInv, InciTypeOK
<1>2. task'[r] = row /\ \A q \in Tasks \ {r} : task'[q] = task[q]
  BY <1>1
<1>3. InciTypeOK'
  BY <1>1 DEF InciInv, InciTypeOK
<1>4. HistoryIsSound'
  BY DEF InciInv, HistoryIsSound, Original
<1>5. AnswersAreThere'
  BY <1>2 DEF InciInv, AnswersAreThere
<1> QED BY <1>3, <1>4, <1>5 DEF InciInv

LEMMA ThinkingKeepsInci ==
  ASSUME InciInv, NEW r \in Tasks,
         \/ \E p \in Photos : BeginRecognize(r, p)
         \/ \E t \in Texts :
              \/ OcrReads(r, t) \/ BeginTranscription(r, t)
              \/ \E n \in DOMAIN revisions : BeginCorrection(r, n, t)
         \/ OcrGivesUp(r)
  PROVE  InciInv'
<1>1. task[r] \in TaskRows /\ task[r].input \in Inputs
  BY DEF InciInv, InciTypeOK, TaskRows
<1>2. ASSUME NEW p \in Photos, BeginRecognize(r, p) PROVE InciInv'
  <2>1. PICK input \in Inputs : input = [Blank EXCEPT !.kind = "OCR", !.photo = p]
    BY InputsAreInputs DEF Inputs, Kinds
  <2>2. PICK row \in TaskRows :
          /\ row = [phase |-> "RECOGNIZING", input |-> input, told |-> 0]
          /\ row.phase = "RECOGNIZING"
    <3>1. 0 \in 0 .. MaxRevisions /\ "RECOGNIZING" \in Phases
      BY InciAssumption DEF Phases
    <3>2. [phase |-> "RECOGNIZING", input |-> input, told |-> 0] \in TaskRows
      BY <3>1, Zenon DEF TaskRows
    <3> QED BY <3>2
  <2> QED BY <1>2, <2>1, <2>2, RequestsWait DEF BeginRecognize
<1>3. ASSUME NEW t \in Texts, OcrReads(r, t) PROVE InciInv'
  <2>1. PICK input \in Inputs : input = [task[r].input EXCEPT !.text = t]
    BY <1>1 DEF Inputs
  <2>2. PICK row \in TaskRows : row = Storing(input) /\ row.phase = "STORING"
    BY InputsAreInputs
  <2> QED BY <1>3, <2>1, <2>2, RequestsWait DEF OcrReads
<1>4. ASSUME NEW t \in Texts, BeginTranscription(r, t) PROVE InciInv'
  <2>1. PICK input \in Inputs : input = [Blank EXCEPT !.text = t]
    BY InputsAreInputs DEF Inputs
  <2>2. PICK row \in TaskRows : row = Storing(input) /\ row.phase = "STORING"
    BY InputsAreInputs
  <2> QED BY <1>4, <2>1, <2>2, RequestsWait DEF BeginTranscription
<1>5. ASSUME NEW t \in Texts, NEW n \in DOMAIN revisions, BeginCorrection(r, n, t)
      PROVE  InciInv'
  <2>1. n \in 0 .. MaxRevisions
    BY InciAssumption DEF InciInv, InciTypeOK
  <2>2. PICK input \in Inputs : input = Revision("USER_CORRECTION", t, n, Nobody)
    BY <2>1, InputsAreInputs
  <2>3. PICK row \in TaskRows : row = Storing(input) /\ row.phase = "STORING"
    BY InputsAreInputs
  <2> QED BY <1>5, <2>2, <2>3, RequestsWait DEF BeginCorrection
<1>6. CASE OcrGivesUp(r)
  BY <1>6, InputsAreInputs, RequestsWait DEF OcrGivesUp
<1> QED BY <1>2, <1>3, <1>4, <1>5, <1>6

\* createRevision: the history grows at its end, by what was asked for.
LEMMA CreatedRevisionIsSound ==
  ASSUME InciInv, NEW input \in Inputs, Creates(input), revisions' = Append(revisions, input)
  PROVE  /\ revisions' \in Seq(Inputs) /\ Len(revisions') = Len(revisions) + 1
         /\ Len(revisions') <= MaxRevisions
         /\ revisions'[Len(revisions) + 1] = input
         /\ \A n \in DOMAIN revisions : n \in DOMAIN revisions' /\ revisions'[n] = revisions[n]
         /\ HistoryIsSound'
<1>1. revisions \in Seq(Inputs) /\ Len(revisions) \in Nat /\ DOMAIN revisions = 1 .. Len(revisions)
  BY DEF InciInv, InciTypeOK
<1>2. /\ revisions' \in Seq(Inputs) /\ Len(revisions') = Len(revisions) + 1
      /\ DOMAIN revisions' = 1 .. Len(revisions) + 1
      /\ revisions'[Len(revisions) + 1] = input
      /\ \A n \in DOMAIN revisions : n \in DOMAIN revisions' /\ revisions'[n] = revisions[n]
  BY <1>1
<1>3. CASE Original(input)
  <2>1. revisions = <<>> /\ Len(revisions) = 0
    BY <1>3 DEF Creates
  <2>2. \A n \in DOMAIN revisions' : n = 1 /\ revisions'[n] = input
    BY <1>2, <2>1
  <2>3. HistoryIsSound'
    BY <1>3, <2>2 DEF HistoryIsSound, Original
  <2> QED BY <1>2, <2>1, <2>3, InciAssumption
<1>4. CASE ~Original(input)
  <2>1. /\ input.base \in DOMAIN revisions /\ revisions[input.base].text # input.text
        /\ Len(revisions) < MaxRevisions
    BY <1>4 DEF Creates
  <2>2. input.kind = "USER_CORRECTION"
    BY <1>4 DEF Original, Inputs, Kinds
  <2>3. \A n \in DOMAIN revisions : revisions[n] # input
    BY <2>2 DEF Creates, Same
  <2> SUFFICES ASSUME NEW n \in DOMAIN revisions'
               PROVE  /\ n = 1 <=> Original(revisions'[n])
                      /\ n > 1 => /\ revisions'[n].base \in 1 .. n - 1
                                  /\ revisions'[revisions'[n].base].text # revisions'[n].text
                      /\ \A m \in 1 .. n - 1 : revisions'[m] # revisions'[n]
    BY <1>1, <1>2, <2>1, InciAssumption DEF HistoryIsSound, Original
  <2>4. CASE n \in DOMAIN revisions
    <3>1. /\ n = 1 <=> Original(revisions[n])
          /\ n > 1 => /\ revisions[n].base \in 1 .. n - 1
                      /\ revisions[revisions[n].base].text # revisions[n].text
          /\ \A m \in 1 .. n - 1 : revisions[m] # revisions[n]
      BY <2>4 DEF InciInv, HistoryIsSound
    <3>2. \A m \in 1 .. n - 1 : m \in DOMAIN revisions
      BY <1>1, <2>4
    <3>3. revisions'[n] = revisions[n]
      BY <1>2, <2>4
    <3> QED BY <1>2, <3>1, <3>2, <3>3
  <2>5. CASE n = Len(revisions) + 1
    <3>1. revisions'[n] = input /\ n # 1 /\ 1 .. n - 1 = DOMAIN revisions
      BY <1>1, <1>2, <2>1, <2>5
    <3> QED BY <1>2, <1>4, <2>1, <2>3, <3>1
  <2> QED BY <1>1, <1>2, <2>4, <2>5
<1> QED BY <1>3, <1>4

LEMMA StoreKeepsInci ==
  ASSUME InciInv, NEW r \in Tasks, Store(r) PROVE InciInv'
<1>1. PICK input \in Inputs : input = task[r].input
  BY DEF InciInv, InciTypeOK, TaskRows
<1>2. /\ task \in [Tasks -> TaskRows] /\ revisions \in Seq(Inputs) /\ Len(revisions) \in Nat
      /\ Len(revisions) <= MaxRevisions
  BY DEF InciInv, InciTypeOK
<1>3. UNCHANGED <<owned, photos, snapshots>>
  BY DEF Store
<1>4. ASSUME Creates(input), revisions' = Append(revisions, input),
             Set(r, [phase |-> "ANSWERED", input |-> input, told |-> Len(revisions) + 1])
      PROVE  InciInv'
  <2>1. /\ revisions' \in Seq(Inputs) /\ Len(revisions') = Len(revisions) + 1
        /\ Len(revisions') <= MaxRevisions
        /\ revisions'[Len(revisions) + 1] = input
        /\ \A n \in DOMAIN revisions : n \in DOMAIN revisions' /\ revisions'[n] = revisions[n]
        /\ HistoryIsSound'
    BY <1>4, CreatedRevisionIsSound
  <2>2. PICK row \in TaskRows : /\ row = [phase |-> "ANSWERED", input |-> input,
                                          told |-> Len(revisions) + 1]
                                /\ row.told = Len(revisions) + 1 /\ row.input = input
    <3>1. Len(revisions) + 1 \in 0 .. MaxRevisions /\ "ANSWERED" \in Phases
      BY <1>2, <2>1, InciAssumption DEF Phases
    <3>2. [phase |-> "ANSWERED", input |-> input, told |-> Len(revisions) + 1] \in TaskRows
      BY <3>1, Zenon DEF TaskRows
    <3> QED BY <3>2
  <2>3. /\ task' \in [Tasks -> TaskRows]
        /\ task'[r] = row /\ \A q \in Tasks \ {r} : task'[q] = task[q]
    BY <1>2, <1>4, <2>2 DEF Set
  <2>4. AnswersAreThere'
    <3> SUFFICES ASSUME NEW q \in Tasks, task'[q].phase = "ANSWERED", owned
                 PROVE  /\ task'[q].told \in DOMAIN revisions'
                        /\ revisions'[task'[q].told] = task'[q].input
      BY <1>3 DEF AnswersAreThere
    <3>1. CASE q = r
      BY <1>2, <2>1, <2>2, <2>3, <3>1
    <3>2. CASE q # r
      BY <2>1, <2>3, <3>2 DEF InciInv, AnswersAreThere
    <3> QED BY <3>1, <3>2
  <2> QED BY <1>3, <2>1, <2>3, <2>4 DEF InciInv, InciTypeOK
<1>5. ASSUME NEW n \in Same(input), UNCHANGED revisions,
             Set(r, [phase |-> "ANSWERED", input |-> input, told |-> n])
      PROVE  InciInv'
  <2>1. n \in DOMAIN revisions /\ revisions[n] = input
    BY DEF Same
  <2>2. PICK row \in TaskRows : /\ row = [phase |-> "ANSWERED", input |-> input, told |-> n]
                                /\ row.told = n /\ row.input = input
    <3>1. n \in 0 .. MaxRevisions /\ "ANSWERED" \in Phases
      BY <1>2, <2>1, InciAssumption DEF Phases
    <3>2. [phase |-> "ANSWERED", input |-> input, told |-> n] \in TaskRows
      BY <3>1, Zenon DEF TaskRows
    <3> QED BY <3>2
  <2>3. /\ task' \in [Tasks -> TaskRows]
        /\ task'[r] = row /\ \A q \in Tasks \ {r} : task'[q] = task[q]
    BY <1>2, <1>5, <2>2 DEF Set
  <2>4. AnswersAreThere'
    BY <1>3, <1>5, <2>1, <2>2, <2>3 DEF InciInv, AnswersAreThere
  <2>5. HistoryIsSound'
    BY <1>5 DEF InciInv, HistoryIsSound, Original
  <2> QED BY <1>3, <1>5, <2>3, <2>4, <2>5 DEF InciInv, InciTypeOK
<1>6. CASE Set(r, Idle) /\ UNCHANGED revisions
  BY <1>3, <1>6, InputsAreInputs, RequestsWait
<1>7. (CHOOSE n \in Same(input) : TRUE) \in Same(input) \/ Same(input) = {}
  OBVIOUS
<1> QED BY <1>1, <1>4, <1>5, <1>6, <1>7 DEF Store

LEMMA InciNextKeeps == InciInv /\ [InciNext]_inciVars => InciInv'
<1> SUFFICES ASSUME InciInv, [InciNext]_inciVars PROVE InciInv'
  OBVIOUS
<1>1. CASE UNCHANGED inciVars
  BY <1>1 DEF InciInv, InciTypeOK, HistoryIsSound, AnswersAreThere, Original, inciVars
<1>2. ASSUME NEW n \in DOMAIN revisions, NEW c \in Contents, CreateSnapshot(n, c)
      PROVE  InciInv'
  <2>1. /\ snapshots \in Seq([revision : 1 .. MaxRevisions, content : Contents])
        /\ Len(snapshots) < MaxSnapshots /\ n \in 1 .. MaxRevisions
    BY <1>2, InciAssumption DEF InciInv, InciTypeOK, CreateSnapshot
  <2>2. PICK row \in [revision : 1 .. MaxRevisions, content : Contents] :
          row = [revision |-> n, content |-> c]
    BY <2>1
  <2>3. snapshots' = Append(snapshots, row) /\ UNCHANGED <<owned, photos, revisions, task>>
    BY <1>2, <2>2 DEF CreateSnapshot
  <2>4. /\ snapshots' \in Seq([revision : 1 .. MaxRevisions, content : Contents])
        /\ Len(snapshots') <= MaxSnapshots
    BY <2>1, <2>2, <2>3, InciAssumption
  <2> QED BY <2>3, <2>4 DEF InciInv, InciTypeOK, HistoryIsSound, AnswersAreThere, Original
<1>3. ASSUME NEW p \in photos, DeletePhoto(p) PROVE InciInv'
  BY <1>3 DEF DeletePhoto, InciInv, InciTypeOK, HistoryIsSound, AnswersAreThere, Original
<1>4. CASE EraseObservation
  <2>1. /\ owned' = FALSE /\ photos' = {} /\ revisions' = <<>> /\ snapshots' = <<>>
        /\ task' = task
    BY <1>4 DEF EraseObservation
  <2>2. InciTypeOK'
    <3>1. Len(revisions') = 0 /\ Len(snapshots') = 0
      BY <2>1
    <3>2. /\ revisions' \in Seq(Inputs)
          /\ snapshots' \in Seq([revision : 1 .. MaxRevisions, content : Contents])
      BY <2>1
    <3>3. task \in [Tasks -> TaskRows]
      BY DEF InciInv, InciTypeOK
    <3>4. Len(revisions') <= MaxRevisions /\ Len(snapshots') <= MaxSnapshots
      BY <3>1, InciAssumption
    <3> QED BY <2>1, <3>2, <3>3, <3>4 DEF InciTypeOK
  <2>3. HistoryIsSound' /\ AnswersAreThere'
    BY <2>1 DEF HistoryIsSound, AnswersAreThere
  <2> QED BY <2>2, <2>3 DEF InciInv
<1> QED BY <1>1, <1>2, <1>3, <1>4, ThinkingKeepsInci, StoreKeepsInci DEF InciNext

\* inci-correction-repository.ts:291: one original comes first, every correction changes an
\* earlier revision and none is stored twice, for any number of requests that overlap.
THEOREM HistoryIsAlwaysSound == InciSpec => []HistoryIsSound
<1>1. InciInv => HistoryIsSound
  BY DEF InciInv
<1> QED BY <1>1, InciStartsWell, InciNextKeeps, PTL DEF InciSpec

\* The revision a request was given stays the one it asked for, as long as the observation
\* exists, also when another request stored it.
THEOREM AnswersAlwaysStayTrue == InciSpec => []AnswersStayTrue
<1>1. InciInv => AnswersStayTrue
  BY DEF InciInv, AnswersAreThere, AnswersStayTrue
<1> QED BY <1>1, InciStartsWell, InciNextKeeps, PTL DEF InciSpec

-----------------------------------------------------------------------------
(* Analyses.  The first dictionary to be published stays.                  *)

\* The dictionary stays the first one published, and whatever was read of it is it.
KnowledgeInv ==
  /\ KnowledgeTypeOK
  /\ knowledge # NoNotes => dictionary # NoEdition /\ Fits(knowledge, dictionary)
  /\ \A s \in Seeders : prepared[s] # NoNotes => dictionary # NoEdition
  /\ \A a \in Analyses :
       analysis[a].phase # "START" =>
         /\ dictionary # NoEdition /\ analysis[a].dictionary = dictionary
         /\ analysis[a].phase = "DONE" => analysis[a].knowledge \in {NoNotes, knowledge}

LEMMA KnowledgeStartsWell == KnowledgeInit => KnowledgeInv
BY DEF KnowledgeInit, KnowledgeInv, KnowledgeTypeOK, Unread

LEMMA KnowledgeNextKeeps == KnowledgeInv /\ [KnowledgeNext]_knowledgeVars => KnowledgeInv'
<1> SUFFICES ASSUME KnowledgeInv, [KnowledgeNext]_knowledgeVars PROVE KnowledgeInv'
  OBVIOUS
<1> USE DEF KnowledgeInv, KnowledgeTypeOK
<1>1. CASE UNCHANGED knowledgeVars
  BY <1>1 DEF knowledgeVars, Fits
<1>2. ASSUME NEW e \in Editions, PublishDictionary(e) PROVE KnowledgeInv'
  BY <1>2 DEF PublishDictionary, Ready, Fits
<1>3. ASSUME NEW s \in Seeders, NEW k \in Notes, PrepareKnowledge(s, k) PROVE KnowledgeInv'
  BY <1>3 DEF PrepareKnowledge, Fits
<1>4. ASSUME NEW s \in Seeders, PublishKnowledge(s) PROVE KnowledgeInv'
  BY <1>4 DEF PublishKnowledge, Fits
<1>5. ASSUME NEW a \in Analyses, ReadDictionary(a) PROVE KnowledgeInv'
  <2>1. analysis' = [analysis EXCEPT ![a] = [analysis[a] EXCEPT !.phase = "CANONICALIZED",
                                                               !.dictionary = dictionary]]
    BY <1>5 DEF ReadDictionary
  <2> QED BY <1>5, <2>1 DEF ReadDictionary, Fits
<1>6. ASSUME NEW a \in Analyses, ReadKnowledge(a) PROVE KnowledgeInv'
  <2>1. analysis' = [analysis EXCEPT ![a] = [analysis[a] EXCEPT !.phase = "DONE",
                                                               !.knowledge = knowledge]]
    BY <1>6 DEF ReadKnowledge
  <2> QED BY <1>6, <2>1 DEF ReadKnowledge, Fits
<1> QED BY <1>1, <1>2, <1>3, <1>4, <1>5, <1>6 DEF KnowledgeNext

\* ingredient-knowledge-repository.ts:114, inci-dictionary-repository.ts:281: the facts in an
\* analysis are about ingredients of the dictionary it was made with, however the
\* publications and the two queries of the analysis fall.
THEOREM AnalysesAreAlwaysGrounded == KnowledgeSpec => []AnalysesAreGrounded
<1>1. KnowledgeInv => AnalysesAreGrounded
  BY DEF KnowledgeInv, KnowledgeTypeOK, AnalysesAreGrounded
<1> QED BY <1>1, KnowledgeStartsWell, KnowledgeNextKeeps, PTL DEF KnowledgeSpec

-----------------------------------------------------------------------------
(* Comparisons.  compareMascaras sorts slots and picks the first of them   *)
(* in several places; it is told first in words that know no order (who    *)
(* leads, and by what), from which follows what it claims and that the     *)
(* order of the slots does not matter.                                     *)

\* Nothing to be avoided is in a formula, and that is certain: what it takes.
LEMMA ExclusionsAre ==
  ASSUME NEW f, NEW avoided, NEW d, avoided # {}
  PROVE  LET e == assessIngredientExclusions(f, avoided, d) IN
         /\ e.uncertain \in BOOLEAN
         /\ e.present = {} /\ ~e.uncertain <=>
              /\ f # NoFormula /\ d # NoDictionary
              /\ \A a \in avoided : d[a] # Unresolved
              /\ \A n \in f.declared \cup f.conditional :
                   d[n] # Unresolved /\ \A a \in avoided : n # a /\ d[n] # d[a]
<1>1. CASE f = NoFormula
  BY <1>1 DEF assessIngredientExclusions
<1>2. CASE f # NoFormula /\ d = NoDictionary
  BY <1>2 DEF assessIngredientExclusions
<1>3. CASE f # NoFormula /\ d # NoDictionary
  <2> DEFINE known(a, names) == d[a] \in Ids(names, d)
             present == (avoided \cap f.declared) \cup {a \in avoided : known(a, f.declared)}
             unclear == {n \in f.declared \cup f.conditional \cup avoided : d[n] = Unresolved}
             maybe == {a \in avoided : known(a, f.conditional)}
  <2>1. assessIngredientExclusions(f, avoided, d) =
          [present |-> present, uncertain |-> (unclear # {} \/ maybe \ present # {})]
    BY <1>3 DEF assessIngredientExclusions
  <2>2. present = {} /\ unclear = {} /\ maybe \ present = {} <=>
              /\ \A a \in avoided : d[a] # Unresolved
              /\ \A n \in f.declared \cup f.conditional :
                   d[n] # Unresolved /\ \A a \in avoided : n # a /\ d[n] # d[a]
    BY DEF Ids
  <2> DEFINE unsure == unclear # {} \/ maybe \ present # {}
             e == assessIngredientExclusions(f, avoided, d)
  <2>3. e.present = present /\ e.uncertain = unsure
    BY <2>1
  <2>4. unsure \in BOOLEAN /\ (present = {} /\ ~unsure <=> present = {} /\ unclear = {} /\ maybe \ present = {})
    OBVIOUS
  <2> HIDE DEF present, unclear, maybe, unsure, e
  <2> QED BY <1>3, <2>2, <2>3, <2>4 DEF e
<1> QED BY <1>1, <1>2, <1>3

\* What hardEvidence says, in the words of Meets.
LEMMA EvidenceIs ==
  ASSUME NEW c, NEW b, NEW d, c.waterproof \in {"YES", "NO", "UNKNOWN"}
  PROVE  LET e == hardEvidence(c, b, d) IN
         /\ e.violated \in BOOLEAN /\ e.missing \in BOOLEAN
         /\ ~e.violated /\ ~e.missing <=> Meets(c, b, d)
         /\ e.confidence = "HIGH" => c.source # "PRIVATE"
         /\ e.reason # "REVIEW_EVIDENCE_COMPARED"
<1> DEFINE checked == assessIngredientExclusions(c.formula, b.avoided, d)
           unsure == b.avoided # {} /\ (checked.uncertain \/ ~c.complete)
           single == {Waterproofness(c, b), Removal(c, b)}
           violated == "VIOLATION" \in single \/ checked.present # {}
           missing == "MISSING" \in single \/ unsure
           e == hardEvidence(c, b, d)
<1>1. e.violated = violated /\ e.missing = missing
  BY DEF hardEvidence
<1>2. e.confidence = "HIGH" => c.source # "PRIVATE"
  BY DEF hardEvidence
<1>3. e.reason # "REVIEW_EVIDENCE_COMPARED"
  BY DEF hardEvidence
<1>4. "VIOLATION" \notin single /\ "MISSING" \notin single <=>
        /\ b.waterproof # "NO_PREFERENCE" =>
             c.waterproof = (IF b.waterproof = "REQUIRED" THEN "YES" ELSE "NO")
        /\ b.easyRemoval => "EASY_REMOVAL" \in c.claims
  BY DEF Waterproofness, Removal
<1>5. checked.present = {} /\ ~unsure <=>
        (b.avoided # {} => c.complete /\ checked.present = {} /\ ~checked.uncertain)
  BY DEF assessIngredientExclusions
<1>6. ~violated /\ ~missing <=> Meets(c, b, d)
  <2> HIDE DEF checked
  <2>1. b.avoided # {} =>
          (checked.present = {} /\ ~checked.uncertain <=>
              /\ c.formula # NoFormula /\ d # NoDictionary
              /\ \A a \in b.avoided : d[a] # Unresolved
              /\ \A n \in c.formula.declared \cup c.formula.conditional :
                   d[n] # Unresolved /\ \A a \in b.avoided : n # a /\ d[n] # d[a])
    BY ExclusionsAre DEF checked
  <2> HIDE DEF single
  <2> QED BY <1>4, <1>5, <2>1 DEF Meets
<1> HIDE DEF violated, missing, e
<1>7. violated \in BOOLEAN /\ missing \in BOOLEAN
  BY DEF violated, missing
<1> QED BY <1>1, <1>2, <1>3, <1>6, <1>7 DEF e
\* Sets of at most three slots.
LEMMA SmallSets ==
  ASSUME NEW S \in SUBSET (1 .. 3)
  PROVE  /\ IsFiniteSet(S) /\ Cardinality(S) \in Nat
         /\ Cardinality(S) = 0 <=> S = {}
         /\ Cardinality(S) = 1 <=> \E x \in S : S = {x}
         /\ Cardinality(S) > 1 <=> \E x, y \in S : x # y
<1>1. IsFiniteSet(S)
  <2>1. 1 \in Int /\ 3 \in Int
    OBVIOUS
  <2>2. IsFiniteSet(1 .. 3)
    BY ONLY <2>1, FS_Interval
  <2> QED BY <2>2, FS_Subset
<1>2. Cardinality(S) \in Nat
  BY <1>1, FS_CardinalityType
<1>3. Cardinality(S) = 0 <=> S = {}
  BY <1>1, FS_EmptySet
<1>4. Cardinality(S) = 1 <=> \E x : S = {x}
  BY <1>1, FS_Singleton
<1>5. (\E x : S = {x}) <=> (\E x \in S : S = {x})
  OBVIOUS
<1>6. S # {} /\ ~(\E x \in S : S = {x}) <=> \E x, y \in S : x # y
  OBVIOUS
<1> QED BY <1>1, <1>2, <1>3, <1>4, <1>5, <1>6

\* A total and transitive relation has a first element in a set of slots.
LEMMA FirstOfSlots ==
  ASSUME NEW S \in SUBSET (1 .. 3), S # {}, NEW R \in SUBSET (S \X S),
         \A i, j \in S : i # j => <<i, j>> \in R \/ <<j, i>> \in R,
         \A i, j, k \in S : <<i, j>> \in R /\ <<j, k>> \in R => <<i, k>> \in R
  PROVE  \E i \in S : \A j \in S \ {i} : <<i, j>> \in R
<1> DEFINE First(i) == \A j \in S \ {i} : <<i, j>> \in R
<1>1. ASSUME NEW i \in S, NEW j \in S, \A k \in S : k = i \/ k = j PROVE First(i) \/ First(j)
  <2>1. CASE i = j
    BY <1>1, <2>1
  <2>2. CASE i # j
    <3>1. <<i, j>> \in R \/ <<j, i>> \in R
      BY <2>2
    <3> QED BY <1>1, <2>2, <3>1
  <2> QED BY <2>1, <2>2
<1>2. ASSUME NEW i \in S, NEW j \in S, NEW k \in S, i # j, i # k, j # k,
             \A m \in S : m = i \/ m = j \/ m = k
      PROVE  First(i) \/ First(j) \/ First(k)
  <2>1. ASSUME NEW f \in S, NEW g \in S, NEW h \in S, <<f, g>> \in R, f # h, g # h,
               \A m \in S : m = f \/ m = g \/ m = h
        PROVE  First(f) \/ First(h)
    <3>1. <<f, h>> \in R \/ <<h, f>> \in R
      BY <2>1
    <3>2. <<h, f>> \in R => <<h, g>> \in R
      BY <2>1
    <3>3. CASE <<f, h>> \in R
      BY <2>1, <3>3
    <3>4. CASE <<h, f>> \in R
      BY <2>1, <3>2, <3>4
    <3> QED BY <3>1, <3>3, <3>4
  <2>2. <<i, j>> \in R \/ <<j, i>> \in R
    BY <1>2
  <2> QED BY <1>2, <2>1, <2>2
<1> SUFFICES \E i \in S : First(i)
  OBVIOUS
<1> HIDE DEF First
<1>3. \A i \in S : i = 1 \/ i = 2 \/ i = 3
  OBVIOUS
<1>4. CASE 1 \in S /\ 2 \in S /\ 3 \in S
  BY <1>2, <1>3, <1>4
<1>5. ASSUME NEW m, NEW n, \A k \in S : k = m \/ k = n PROVE \E i \in S : First(i)
  <2>1. PICK x \in S : TRUE
    OBVIOUS
  <2>2. PICK y \in S : \A k \in S : k = x \/ k = y
    BY <1>5, <2>1
  <2> QED BY <1>1, <2>2
<1>6. CASE 1 \notin S
  BY <1>3, <1>5, <1>6
<1>7. CASE 2 \notin S
  BY <1>3, <1>5, <1>7
<1>8. CASE 3 \notin S
  BY <1>3, <1>5, <1>8
<1> QED BY <1>4, <1>6, <1>7, <1>8

-----------------------------------------------------------------------------
(* Ratings as fractions.                                                   *)

\* Products of naturals, for fractions that are compared crosswise.
LEMMA Products ==
  ASSUME NEW x \in Int, NEW y \in Int, NEW k \in Int, k > 0
  PROVE  x * k >= y * k <=> x >= y
<1>1. CASE x >= y
  <2>1. (x - y) * k >= 0
    BY <1>1
  <2>2. (x - y) * k = x * k - y * k
    OBVIOUS
  <2>3. x * k \in Int /\ y * k \in Int
    OBVIOUS
  <2> QED BY <1>1, <2>1, <2>2, <2>3
<1>2. CASE x < y
  <2>1. (y - x) * k > 0
    BY <1>2
  <2>2. (y - x) * k = y * k - x * k
    OBVIOUS
  <2>3. x * k \in Int /\ y * k \in Int
    OBVIOUS
  <2> QED BY <1>2, <2>1, <2>2, <2>3
<1> QED BY <1>1, <1>2

LEMMA NotWorseTransitive ==
  ASSUME NEW ao \in Int, NEW au \in Int, NEW bo \in Int, NEW bu \in Int, NEW co \in Int, NEW cu \in Int,
         au > 0, bu > 0, cu > 0, ao * bu >= bo * au, bo * cu >= co * bu
  PROVE  ao * cu >= co * au
<1>1. (ao * bu) * cu >= (bo * au) * cu
  BY Products
<1>2. (bo * cu) * au >= (co * bu) * au
  BY Products
<1>3. (ao * bu) * cu = (ao * cu) * bu /\ (bo * au) * cu = (bo * cu) * au /\ (co * bu) * au = (co * au) * bu
  OBVIOUS
<1>4. (ao * cu) * bu \in Int /\ (co * au) * bu \in Int /\ (bo * cu) * au \in Int
  OBVIOUS
<1>5. (ao * cu) * bu >= (co * au) * bu
  BY <1>1, <1>2, <1>3, <1>4
<1> QED BY <1>5, Products

LEMMA ClearlyBetterThanWorse ==
  ASSUME NEW ao \in Int, NEW au \in Int, NEW bo \in Int, NEW bu \in Int, NEW co \in Int, NEW cu \in Int,
         au > 0, bu > 0, cu > 0, 2 * (ao * bu - bo * au) >= 5 * au * bu, bo * cu >= co * bu
  PROVE  2 * (ao * cu - co * au) >= 5 * au * cu
<1>1. (2 * (ao * bu - bo * au)) * cu >= (5 * au * bu) * cu
  BY Products
<1>2. (bo * cu) * au >= (co * bu) * au
  BY Products
<1>3. /\ (2 * (ao * bu - bo * au)) * cu = 2 * ((ao * cu) * bu) - 2 * ((bo * cu) * au)
      /\ (5 * au * bu) * cu = (5 * au * cu) * bu
      /\ (co * bu) * au = (co * au) * bu
  OBVIOUS
<1>4. (ao * cu) * bu \in Int /\ (co * au) * bu \in Int /\ (bo * cu) * au \in Int /\ (5 * au * cu) * bu \in Int
  OBVIOUS
<1>5. 2 * ((ao * cu) * bu) - 2 * ((co * au) * bu) >= (5 * au * cu) * bu
  BY <1>1, <1>2, <1>3, <1>4
<1>6. (2 * (ao * cu - co * au)) * bu = 2 * ((ao * cu) * bu) - 2 * ((co * au) * bu)
  OBVIOUS
<1> QED BY <1>5, <1>6, Products

LEMMA ClearlyBetterIsBetter ==
  ASSUME NEW ao \in Int, NEW au \in Int, NEW bo \in Int, NEW bu \in Int,
         au > 0, bu > 0, 2 * (ao * bu - bo * au) >= 5 * au * bu
  PROVE  ~(bo * au >= ao * bu)
<1>1. au * bu > 0
  OBVIOUS
<1>2. ao * bu \in Int /\ bo * au \in Int /\ au * bu \in Int /\ 5 * au * bu = 5 * (au * bu)
  OBVIOUS
<1> QED BY <1>1, <1>2
-----------------------------------------------------------------------------
(* Reviews.                                                                *)

SoundReview(r) ==
  r = NoReview \/ /\ r.quality \in {"LOW", "MEDIUM", "HIGH"}
                  /\ {r.rating, r.count, r.age} \subseteq Nat
SoundSlots(cs) == DOMAIN cs \in SUBSET (1 .. 3) /\ \A i \in DOMAIN cs : SoundReview(cs[i].review)

\* Whoever is rated has a review, whose weight is a natural number; HIGH is for verified
\* purchases.
LEMMA EvidenceOfReview ==
  ASSUME NEW r, SoundReview(r), reviewConfidence(r) # "NONE"
  PROVE  /\ r # NoReview
         /\ reviewConfidence(r) = "HIGH" => r.quality = "HIGH"
         /\ adjustedReviewRating(r).over \in Int /\ adjustedReviewRating(r).under \in Int
         /\ adjustedReviewRating(r).under > 0
<1>1. Assessable(r)
  BY DEF reviewConfidence
<1>2. r # NoReview
  BY <1>1 DEF Assessable
<1>3. r.quality \in {"LOW", "MEDIUM", "HIGH"} /\ r.rating \in Nat /\ r.count \in Nat /\ r.age \in Nat
  BY <1>2 DEF SoundReview
<1>4. PICK weight \in {2, 6, 10} : weight = [LOW |-> 2, MEDIUM |-> 6, HIGH |-> 10][r.quality]
  BY <1>3
<1>5. PICK halves \in {1, 2} : halves = IF r.age > 365 THEN 2 ELSE 1
  BY <1>3
<1>6. effectiveReviewCount(r) = (r.count * weight) \div halves
  BY <1>4, <1>5 DEF effectiveReviewCount
<1>7. r.count * weight \in Nat
  BY <1>3
<1>8. effectiveReviewCount(r) \in Nat
  BY <1>6, <1>7
<1>9. reviewConfidence(r) = "HIGH" => r.quality = "HIGH"
  BY DEF reviewConfidence
<1>10. /\ adjustedReviewRating(r).over = r.rating * effectiveReviewCount(r) + 7000
       /\ adjustedReviewRating(r).under = effectiveReviewCount(r) + 200
  BY <1>3, <1>8 DEF adjustedReviewRating
<1> QED BY <1>2, <1>3, <1>8, <1>9, <1>10

\* Of two rated slots the one is not worse than the other, or conversely.
LEMMA RatingsCompare ==
  ASSUME NEW r, NEW s, NEW t,
         \A x \in {r, s, t} : SoundReview(x) /\ reviewConfidence(x) # "NONE"
  PROVE  /\ NotWorse(r, s) \/ NotWorse(s, r)
         /\ NotWorse(r, s) /\ NotWorse(s, t) => NotWorse(r, t)
         /\ ClearlyBetter(r, s) /\ NotWorse(s, t) => ClearlyBetter(r, t)
         /\ ClearlyBetter(r, s) => ~NotWorse(s, r)
<1> DEFINE o(x) == adjustedReviewRating(x).over
           u(x) == adjustedReviewRating(x).under
<1>1. /\ o(r) \in Int /\ u(r) \in Int /\ u(r) > 0
      /\ o(s) \in Int /\ u(s) \in Int /\ u(s) > 0
      /\ o(t) \in Int /\ u(t) \in Int /\ u(t) > 0
  BY EvidenceOfReview
<1>2. /\ NotWorse(r, s) <=> o(r) * u(s) >= o(s) * u(r)
      /\ NotWorse(s, r) <=> o(s) * u(r) >= o(r) * u(s)
      /\ NotWorse(s, t) <=> o(s) * u(t) >= o(t) * u(s)
      /\ NotWorse(r, t) <=> o(r) * u(t) >= o(t) * u(r)
      /\ ClearlyBetter(r, s) <=> 2 * (o(r) * u(s) - o(s) * u(r)) >= 5 * u(r) * u(s)
      /\ ClearlyBetter(r, t) <=> 2 * (o(r) * u(t) - o(t) * u(r)) >= 5 * u(r) * u(t)
  BY DEF NotWorse, ClearlyBetter
<1>3. PICK ro \in Int, ru \in Int, so \in Int, su \in Int, to \in Int, tu \in Int :
        ro = o(r) /\ ru = u(r) /\ so = o(s) /\ su = u(s) /\ to = o(t) /\ tu = u(t)
  BY <1>1
<1>4. ru > 0 /\ su > 0 /\ tu > 0
  BY <1>1, <1>3
<1>5. /\ NotWorse(r, s) <=> ro * su >= so * ru
      /\ NotWorse(s, r) <=> so * ru >= ro * su
      /\ NotWorse(s, t) <=> so * tu >= to * su
      /\ NotWorse(r, t) <=> ro * tu >= to * ru
      /\ ClearlyBetter(r, s) <=> 2 * (ro * su - so * ru) >= 5 * ru * su
      /\ ClearlyBetter(r, t) <=> 2 * (ro * tu - to * ru) >= 5 * ru * tu
  BY <1>2, <1>3
<1> HIDE DEF o, u
<1>6. NotWorse(r, s) \/ NotWorse(s, r)
  <2>1. ro * su \in Int /\ so * ru \in Int
    OBVIOUS
  <2> QED BY ONLY <1>5, <2>1
<1>7. NotWorse(r, s) /\ NotWorse(s, t) => NotWorse(r, t)
  <2> HAVE NotWorse(r, s) /\ NotWorse(s, t)
  <2>1. ro * su >= so * ru /\ so * tu >= to * su
    BY <1>5
  <2>2. ro * tu >= to * ru
    BY <1>3, <1>4, <2>1, NotWorseTransitive
  <2> QED BY <1>5, <2>2
<1>8. ClearlyBetter(r, s) /\ NotWorse(s, t) => ClearlyBetter(r, t)
  <2> HAVE ClearlyBetter(r, s) /\ NotWorse(s, t)
  <2>1. 2 * (ro * su - so * ru) >= 5 * ru * su /\ so * tu >= to * su
    BY <1>5
  <2>2. 2 * (ro * tu - to * ru) >= 5 * ru * tu
    BY <1>4, <2>1, ClearlyBetterThanWorse
  <2> QED BY <1>5, <2>2
<1>9. ClearlyBetter(r, s) => ~NotWorse(s, r)
  <2> HAVE ClearlyBetter(r, s)
  <2>1. 2 * (ro * su - so * ru) >= 5 * ru * su
    BY <1>5
  <2>2. ~(so * ru >= ro * su)
    BY <1>4, <2>1, ClearlyBetterIsBetter
  <2> QED BY <1>5, <2>2
<1> QED BY <1>6, <1>7, <1>8, <1>9

\* The first of a stable sort, where everyone is rated.
LEMMA BestIsFirst ==
  ASSUME NEW cs, SoundSlots(cs), NEW S \in SUBSET DOMAIN cs, S # {}, \A i \in S : Rated(cs, i)
  PROVE  /\ BestRated(cs, S) \in S
         /\ \A j \in S \ {BestRated(cs, S)} : NotWorse(cs[BestRated(cs, S)].review, cs[j].review)
<1> DEFINE NW(i, j) == NotWorse(cs[i].review, cs[j].review)
           Before(i, j) == NW(i, j) /\ (NW(j, i) => i < j)
           R == {q \in S \X S : Before(q[1], q[2])}
<1>1. S \in SUBSET (1 .. 3)
  BY DEF SoundSlots
<1>2. \A i, j, k \in S : /\ NW(i, j) \/ NW(j, i)
                         /\ NW(i, j) /\ NW(j, k) => NW(i, k)
  <2> TAKE i, j, k \in S
  <2>1. \A x \in {cs[i].review, cs[j].review, cs[k].review} : SoundReview(x) /\ reviewConfidence(x) # "NONE"
    BY DEF SoundSlots, Rated
  <2> QED BY <2>1, RatingsCompare
<1> HIDE DEF NW
<1>3. \A i, j \in S : i # j => Before(i, j) \/ Before(j, i)
  BY <1>1, <1>2
<1>4. \A i, j, k \in S : Before(i, j) /\ Before(j, k) => Before(i, k)
  <2> TAKE i, j, k \in S
  <2> HAVE Before(i, j) /\ Before(j, k)
  <2>1. NW(i, k)
    BY <1>2
  <2>2. NW(k, i) => NW(j, i) /\ NW(k, j)
    BY <1>2
  <2>3. i \in 1 .. 3 /\ j \in 1 .. 3 /\ k \in 1 .. 3
    BY <1>1
  <2> QED BY <2>1, <2>2, <2>3
<1>5. \A i, j \in S : <<i, j>> \in R <=> Before(i, j)
  OBVIOUS
<1>6. \E i \in S : \A j \in S \ {i} : Before(i, j)
  <2> HIDE DEF Before
  <2>1. PICK Q \in SUBSET (S \X S) : \A i, j \in S : <<i, j>> \in Q <=> Before(i, j)
    BY <1>5
  <2>2. \A i, j \in S : i # j => <<i, j>> \in Q \/ <<j, i>> \in Q
    BY <1>3, <2>1
  <2>3. \A i, j, k \in S : <<i, j>> \in Q /\ <<j, k>> \in Q => <<i, k>> \in Q
    BY <1>4, <2>1
  <2>4. \E i \in S : \A j \in S \ {i} : <<i, j>> \in Q
    BY ONLY <1>1, S # {}, <2>2, <2>3, FirstOfSlots
  <2> QED BY <2>1, <2>4
<1>7. BestRated(cs, S) = CHOOSE i \in S : \A j \in S \ {i} : Before(i, j)
  BY DEF BestRated, NW
<1>8. BestRated(cs, S) \in S /\ \A j \in S \ {BestRated(cs, S)} : Before(BestRated(cs, S), j)
  <2> HIDE DEF Before
  <2> QED BY <1>6, <1>7
<1> QED BY <1>8 DEF NW
ClearLeader(cs, S, i) == i \in S /\ \A j \in S \ {i} : ClearlyBetter(cs[i].review, cs[j].review)
GoalLeader(cs, brief, S, i) ==
  i \in S /\ \A j \in S \ {i} : GoalMatches(cs[i], brief) > GoalMatches(cs[j], brief)

\* That somebody leads clearly says nothing of the order of the slots, nor does who it is.
LEMMA ClearWinnerLeads ==
  ASSUME NEW cs, SoundSlots(cs), NEW S \in SUBSET DOMAIN cs, Cardinality(S) > 1,
         \A i \in S : Rated(cs, i)
  PROVE  /\ HasClearWinner(cs, S) <=> \E i \in S : ClearLeader(cs, S, i)
         /\ \A i \in S : ClearLeader(cs, S, i) => i = BestRated(cs, S)
<1> DEFINE best == BestRated(cs, S)
           second == BestRated(cs, S \ {best})
           rev(i) == cs[i].review
<1>1. PICK x \in S, y \in S : x # y
  <2>1. S \in SUBSET (1 .. 3)
    BY DEF SoundSlots
  <2> QED BY <2>1, SmallSets
<1>2. best \in S /\ \A j \in S \ {best} : NotWorse(rev(best), rev(j))
  BY <1>1, BestIsFirst
<1>3. second \in S \ {best} /\ \A j \in (S \ {best}) \ {second} : NotWorse(rev(second), rev(j))
  <2> HIDE DEF best
  <2>1. S \ {best} # {} /\ S \ {best} \in SUBSET DOMAIN cs
    BY <1>1
  <2> QED BY <2>1, BestIsFirst
<1> HIDE DEF best, second
<1>4. \A i, j, k \in S : /\ ClearlyBetter(rev(i), rev(j)) /\ NotWorse(rev(j), rev(k)) => ClearlyBetter(rev(i), rev(k))
                         /\ ClearlyBetter(rev(i), rev(j)) => ~NotWorse(rev(j), rev(i))
  <2> TAKE i, j, k \in S
  <2>1. \A z \in {rev(i), rev(j), rev(k)} : SoundReview(z) /\ reviewConfidence(z) # "NONE"
    BY DEF SoundSlots, Rated
  <2> HIDE DEF rev
  <2> QED BY <2>1, RatingsCompare
<1>5. HasClearWinner(cs, S) <=> ClearlyBetter(rev(best), rev(second))
  BY DEF HasClearWinner, best, second
<1>6. ClearlyBetter(rev(best), rev(second)) => ClearLeader(cs, S, best)
  <2> HAVE ClearlyBetter(rev(best), rev(second))
  <2>1. \A j \in S \ {best} : ClearlyBetter(rev(best), rev(j))
    <3> TAKE j \in S \ {best}
    <3>1. CASE j = second
      BY <3>1
    <3>2. CASE j # second
      <4>1. NotWorse(rev(second), rev(j))
        BY <1>3, <3>2
      <4> HIDE DEF rev
      <4> QED BY <1>2, <1>3, <1>4, <4>1
    <3> QED BY <3>1, <3>2
  <2> QED BY <1>2, <2>1 DEF ClearLeader
<1>7. ASSUME NEW i \in S, ClearLeader(cs, S, i) PROVE i = best
  <2>1. i # best => ClearlyBetter(rev(i), rev(best)) /\ NotWorse(rev(best), rev(i))
    BY <1>2, <1>7 DEF ClearLeader
  <2> HIDE DEF rev
  <2> QED BY <1>2, <1>4, <2>1
<1>8. ASSUME NEW i \in S, ClearLeader(cs, S, i) PROVE ClearlyBetter(rev(best), rev(second))
  BY <1>3, <1>7, <1>8 DEF ClearLeader
<1> QED BY <1>2, <1>5, <1>6, <1>7, <1>8 DEF best

\* Matches are counted in natural numbers.
LEMMA GoalsCount ==
  ASSUME NEW c, NEW b, IsFiniteSet(b.goals)
  PROVE  /\ GoalMatches(c, b) \in Nat /\ Effects(c, b) \in Nat
         /\ GoalMatches(c, b) = Effects(c, b) + (IF Removal(c, b) = "MATCH" THEN 1 ELSE 0)
<1>1. IsFiniteSet(b.goals \cap c.claims)
  BY FS_Intersection
<1>2. Effects(c, b) \in Nat
  BY <1>1, FS_CardinalityType DEF Effects
<1> QED BY <1>2 DEF GoalMatches, Effects

-----------------------------------------------------------------------------
(* The recommendation, case by case, in words that know no order.          *)

Comparable(cs, b, d) ==
  /\ Blocked(cs) = {}
  /\ ~\E i \in DOMAIN cs : LET e == hardEvidence(cs[i], b, d) IN ~e.violated /\ e.missing

\* Why nothing is compared, or nobody is left.
LEMMA WithoutComparison ==
  ASSUME NEW cs, NEW b, NEW d
  PROVE  LET r == compareMascaras(cs, b, d) IN
         /\ Blocked(cs) # {} => r = NoClearWinner("LOW", Blocked(cs))
         /\ Blocked(cs) = {} /\ ~Comparable(cs, b, d) =>
              r = NoClearWinner("LOW", {"HARD_CONSTRAINT_DATA_MISSING"})
         /\ Comparable(cs, b, d) /\ Eligible(cs, b, d) = {} =>
              r = NoClearWinner("MEDIUM", {"HARD_CONSTRAINT_VIOLATED"})
<1>1. CASE Blocked(cs) # {}
  BY <1>1 DEF compareMascaras, Comparable
<1>2. CASE Blocked(cs) = {} /\ ~Comparable(cs, b, d)
  BY <1>2 DEF compareMascaras, Comparable
<1>3. CASE Comparable(cs, b, d) /\ Eligible(cs, b, d) = {}
  BY <1>3 DEF compareMascaras, Comparable
<1> QED BY <1>1, <1>2, <1>3 DEF Comparable

\* Who alone meets the requirements is preferred,
LEMMA ByRequirements ==
  ASSUME NEW cs, NEW b, NEW d, SoundSlots(cs), Comparable(cs, b, d),
         NEW w, Eligible(cs, b, d) = {w}
  PROVE  compareMascaras(cs, b, d) =
           Preferred(w, HardWinner(cs[w], b, d)[1], HardWinner(cs[w], b, d)[2])
<1>1. Cardinality({w}) = 1
  BY FS_Singleton
<1>2. (CHOOSE i \in {w} : TRUE) = w
  OBVIOUS
<1> QED BY <1>1, <1>2 DEF compareMascaras, Comparable

\* or who leads in the wished-for effects,
LEMMA ByGoals ==
  ASSUME NEW cs, NEW b, NEW d, SoundSlots(cs), IsFiniteSet(b.goals), Comparable(cs, b, d),
         Cardinality(Eligible(cs, b, d)) > 1, b.goals # {},
         NEW w, GoalLeader(cs, b, Eligible(cs, b, d), w)
  PROVE  compareMascaras(cs, b, d) = Preferred(w, "MEDIUM", "GOAL_CLAIM_MATCH")
<1> DEFINE E == Eligible(cs, b, d)
<1>1. E \in SUBSET (1 .. 3) /\ E # {} /\ Cardinality(E) # 1
  <2>1. E \in SUBSET (1 .. 3)
    BY DEF Eligible, SoundSlots
  <2> QED BY <2>1, SmallSets
<1>2. MostGoals(cs, b, E) = {w}
  <2>1. w \in E /\ \A j \in E \ {w} : GoalMatches(cs[w], b) > GoalMatches(cs[j], b)
    BY DEF GoalLeader
  <2>2. \A i \in E : GoalMatches(cs[i], b) \in Nat
    BY GoalsCount
  <2> HIDE DEF E
  <2> QED BY <2>1, <2>2 DEF MostGoals
<1>3. (CHOOSE i \in {w} : \A j \in {w} : i <= j) = w
  <2>1. w \in 1 .. 3
    BY <1>1 DEF GoalLeader
  <2> QED BY <2>1
<1> QED BY <1>1, <1>2, <1>3 DEF compareMascaras, Comparable

\* or, where nobody does, who leads in reviews.
LEMMA ByReviews ==
  ASSUME NEW cs, NEW b, NEW d, SoundSlots(cs), Comparable(cs, b, d),
         Cardinality(Eligible(cs, b, d)) > 1,
         b.goals = {} \/ ~\E i \in Eligible(cs, b, d) : GoalLeader(cs, b, Eligible(cs, b, d), i)
  PROVE  LET E == Eligible(cs, b, d)
             r == compareMascaras(cs, b, d)
             rated == \A i \in E : Rated(cs, i)
         IN /\ \A w \in E : rated /\ ClearLeader(cs, E, w) =>
                 r = Preferred(w, reviewConfidence(cs[w].review), "REVIEW_EVIDENCE_COMPARED")
            /\ rated /\ ~(\E w \in E : ClearLeader(cs, E, w)) => r = NoClearWinner("MEDIUM", {"EVIDENCE_TOO_CLOSE"})
            /\ ~rated => r = NoClearWinner("LOW", {IF b.goals = {} THEN "REVIEW_DATA_UNAVAILABLE"
                                                   ELSE "NO_SUPPORTED_DIFFERENCE"})
<1> DEFINE E == Eligible(cs, b, d)
           rated == \A i \in E : Rated(cs, i)
           r == compareMascaras(cs, b, d)
<1>1. E \in SUBSET (1 .. 3) /\ E \in SUBSET DOMAIN cs /\ E # {} /\ Cardinality(E) # 1
  <2>1. E \in SUBSET (1 .. 3) /\ E \in SUBSET DOMAIN cs
    BY DEF Eligible, SoundSlots
  <2> QED BY <2>1, SmallSets
<1>2. b.goals = {} \/ MostGoals(cs, b, E) = {}
  BY DEF GoalLeader, MostGoals
<1>3. r = IF HasClearWinner(cs, E)
          THEN Preferred(BestRated(cs, E), reviewConfidence(cs[BestRated(cs, E)].review),
                         "REVIEW_EVIDENCE_COMPARED")
          ELSE IF rated THEN NoClearWinner("MEDIUM", {"EVIDENCE_TOO_CLOSE"})
          ELSE NoClearWinner("LOW", {IF b.goals = {} THEN "REVIEW_DATA_UNAVAILABLE"
                                     ELSE "NO_SUPPORTED_DIFFERENCE"})
  BY <1>1, <1>2 DEF compareMascaras, Comparable
<1>4. HasClearWinner(cs, E) => rated
  BY DEF HasClearWinner
<1>5. rated => /\ HasClearWinner(cs, E) <=> \E w \in E : ClearLeader(cs, E, w)
               /\ \A w \in E : ClearLeader(cs, E, w) => w = BestRated(cs, E)
  BY <1>1, ClearWinnerLeads
<1> HIDE DEF E, r, rated
<1>6. \A w \in E : rated /\ ClearLeader(cs, E, w) =>
        r = Preferred(w, reviewConfidence(cs[w].review), "REVIEW_EVIDENCE_COMPARED")
  BY <1>3, <1>5
<1>7. rated /\ ~(\E w \in E : ClearLeader(cs, E, w)) => r = NoClearWinner("MEDIUM", {"EVIDENCE_TOO_CLOSE"})
  BY <1>3, <1>5
<1>8. ~rated => r = NoClearWinner("LOW", {IF b.goals = {} THEN "REVIEW_DATA_UNAVAILABLE"
                                          ELSE "NO_SUPPORTED_DIFFERENCE"})
  BY <1>3, <1>4
<1> QED BY <1>6, <1>7, <1>8 DEF E, r, rated
-----------------------------------------------------------------------------
(* What is recommended has earned it.                                      *)

TypedSlots(cs) ==
  SoundSlots(cs) /\ \A i \in DOMAIN cs : cs[i].waterproof \in {"YES", "NO", "UNKNOWN"}

\* The eligible are those who meet the requirements, read off the products.
LEMMA EligibleMeets ==
  ASSUME NEW cs, NEW b, NEW d, TypedSlots(cs)
  PROVE  Eligible(cs, b, d) = {i \in DOMAIN cs : Meets(cs[i], b, d)}
<1>1. \A i \in DOMAIN cs :
        LET e == hardEvidence(cs[i], b, d) IN ~e.violated /\ ~e.missing <=> Meets(cs[i], b, d)
  BY EvidenceIs DEF TypedSlots
<1> QED BY <1>1 DEF Eligible

\* Requirements say the same of all that meet them, so that goals are what tells them apart.
LEMMA EffectsDecide ==
  ASSUME NEW c, NEW f, NEW b, NEW d, IsFiniteSet(b.goals), Meets(c, b, d), Meets(f, b, d)
  PROVE  GoalMatches(c, b) > GoalMatches(f, b) <=> Effects(c, b) > Effects(f, b)
<1>1. Removal(c, b) = Removal(f, b)
  BY DEF Meets, Removal
<1> QED BY <1>1, GoalsCount

\* Where nothing is blocked every slot is ready.
LEMMA NobodyBlocked ==
  ASSUME NEW cs, Blocked(cs) = {}
  PROVE  \A i \in DOMAIN cs : cs[i].state = "READY"
<1>1. ReadySlots(cs) = DOMAIN cs
  BY DEF Blocked
<1> QED BY <1>1 DEF ReadySlots

LEMMA PreferredIs ==
  ASSUME NEW w, NEW confidence, NEW reason
  PROVE  /\ Preferred(w, confidence, reason).slot = w
         /\ Preferred(w, confidence, reason).confidence = confidence
         /\ Preferred(w, confidence, reason).reasons = {reason}
BY DEF Preferred

LEMMA NoWinnerIs ==
  ASSUME NEW confidence, NEW reasons
  PROVE  /\ NoClearWinner(confidence, reasons).slot = NoSlot
         /\ NoClearWinner(confidence, reasons).reasons = reasons
BY DEF NoClearWinner

\* The four ways in which a recommendation comes about.
LEMMA WaysToWin ==
  ASSUME NEW cs, NEW b, NEW d, TypedSlots(cs), IsFiniteSet(b.goals),
         compareMascaras(cs, b, d).slot # NoSlot
  PROVE  LET E == Eligible(cs, b, d)
             r == compareMascaras(cs, b, d)
             w == r.slot
         IN /\ Comparable(cs, b, d) /\ w \in E
            /\ \/ E = {w} /\ r = Preferred(w, HardWinner(cs[w], b, d)[1], HardWinner(cs[w], b, d)[2])
               \/ GoalLeader(cs, b, E, w) /\ r = Preferred(w, "MEDIUM", "GOAL_CLAIM_MATCH")
               \/ /\ Cardinality(E) > 1
                  /\ b.goals = {} \/ ~\E i \in E : GoalLeader(cs, b, E, i)
                  /\ \A i \in E : Rated(cs, i)
                  /\ ClearLeader(cs, E, w)
                  /\ r = Preferred(w, reviewConfidence(cs[w].review), "REVIEW_EVIDENCE_COMPARED")
<1> DEFINE E == Eligible(cs, b, d)
           r == compareMascaras(cs, b, d)
           rated == \A i \in E : Rated(cs, i)
<1>1. Comparable(cs, b, d) /\ E # {}
  <2>1. /\ Blocked(cs) # {} => r = NoClearWinner("LOW", Blocked(cs))
        /\ Blocked(cs) = {} /\ ~Comparable(cs, b, d) => r = NoClearWinner("LOW", {"HARD_CONSTRAINT_DATA_MISSING"})
        /\ Comparable(cs, b, d) /\ E = {} => r = NoClearWinner("MEDIUM", {"HARD_CONSTRAINT_VIOLATED"})
    BY WithoutComparison
  <2>2. r.slot # NoSlot
    OBVIOUS
  <2> HIDE DEF r, E
  <2> QED BY <2>1, <2>2, NoWinnerIs
<1>2. E \in SUBSET (1 .. 3) /\ Cardinality(E) \in Nat
  <2>1. E \in SUBSET (1 .. 3)
    BY DEF Eligible, TypedSlots, SoundSlots
  <2> QED BY <2>1, SmallSets
<1>3. CASE \E w \in E : E = {w}
  <2>1. PICK w \in E : E = {w}
    BY <1>3
  <2>2. r = Preferred(w, HardWinner(cs[w], b, d)[1], HardWinner(cs[w], b, d)[2])
    BY <1>1, <2>1, ByRequirements DEF TypedSlots
  <2>3. r.slot = w
    BY <2>2, PreferredIs
  <2> HIDE DEF r
  <2> QED BY <1>1, <2>1, <2>2, <2>3 DEF r
<1>4. ASSUME ~\E w \in E : E = {w} PROVE Cardinality(E) > 1
  <2> HIDE DEF E
  <2>1. \E x, y \in E : x # y
    BY ONLY <1>1, <1>4
  <2> QED BY ONLY <1>2, <2>1, SmallSets
<1>5. CASE Cardinality(E) > 1 /\ b.goals # {} /\ \E w \in E : GoalLeader(cs, b, E, w)
  <2>1. PICK w \in E : GoalLeader(cs, b, E, w)
    BY <1>5
  <2>2. r = Preferred(w, "MEDIUM", "GOAL_CLAIM_MATCH")
    BY <1>1, <1>5, <2>1, ByGoals DEF TypedSlots
  <2>3. r.slot = w
    BY <2>2, PreferredIs
  <2> HIDE DEF r, E
  <2> QED BY <1>1, <2>1, <2>2, <2>3 DEF r, E
<1>6. CASE Cardinality(E) > 1 /\ (b.goals = {} \/ ~\E i \in E : GoalLeader(cs, b, E, i))
  <2>1. /\ \A w \in E : rated /\ ClearLeader(cs, E, w) =>
             r = Preferred(w, reviewConfidence(cs[w].review), "REVIEW_EVIDENCE_COMPARED")
        /\ rated /\ ~(\E w \in E : ClearLeader(cs, E, w)) => r = NoClearWinner("MEDIUM", {"EVIDENCE_TOO_CLOSE"})
        /\ ~rated => r = NoClearWinner("LOW", {IF b.goals = {} THEN "REVIEW_DATA_UNAVAILABLE"
                                               ELSE "NO_SUPPORTED_DIFFERENCE"})
    BY <1>1, <1>6, ByReviews DEF TypedSlots
  <2>7. r.slot # NoSlot
    OBVIOUS
  <2> HIDE DEF r
  <2>2. rated
    <3> HIDE DEF rated
    <3> QED BY <2>1, <2>7, NoWinnerIs
  <2>3. PICK w \in E : ClearLeader(cs, E, w)
    <3> HIDE DEF rated
    <3> QED BY <2>1, <2>2, <2>7, NoWinnerIs
  <2>4. r = Preferred(w, reviewConfidence(cs[w].review), "REVIEW_EVIDENCE_COMPARED")
    <3> HIDE DEF rated
    <3> QED BY <2>1, <2>2, <2>3
  <2>5. r.slot = w
    BY <2>4, PreferredIs
  <2> HIDE DEF E
  <2> QED BY <1>1, <1>6, <2>2, <2>3, <2>4, <2>5 DEF r, E
<1> QED BY <1>3, <1>4, <1>5, <1>6
\* What is recommended, and what meets the requirements.
Wins(cs, b, d, w) == w = compareMascaras(cs, b, d).slot /\ w # NoSlot
Meeting(cs, b, d) == {i \in DOMAIN cs : Meets(cs[i], b, d)}

\* What is recommended is earned.
LEMMA WinnersAreEarned ==
  ASSUME NEW cs, NEW b, NEW d, TypedSlots(cs), IsFiniteSet(b.goals),
         NEW w, Wins(cs, b, d, w)
  PROVE  LET F == Meeting(cs, b, d) IN
         /\ \A i \in DOMAIN cs : cs[i].state = "READY"
         /\ w \in F
         /\ \/ \A j \in F \ {w} : Effects(cs[w], b) > Effects(cs[j], b)
            \/ /\ ~\E i \in F : \A j \in F \ {i} : Effects(cs[i], b) > Effects(cs[j], b)
               /\ \A i \in F \ {w} : /\ Rated(cs, i) /\ Rated(cs, w)
                                     /\ ClearlyBetter(cs[w].review, cs[i].review)
<1> DEFINE F == Meeting(cs, b, d)
<1> DEFINE leads(i) == \A j \in F \ {i} : Effects(cs[i], b) > Effects(cs[j], b)
<1>0. /\ w = compareMascaras(cs, b, d).slot /\ w # NoSlot
      /\ F = {i \in DOMAIN cs : Meets(cs[i], b, d)}
  BY DEF Wins, Meeting
<1> DEFINE Earned ==
      /\ \A i \in DOMAIN cs : cs[i].state = "READY"
      /\ w \in F
      /\ leads(w) \/ /\ ~\E i \in F : leads(i)
                     /\ \A i \in F \ {w} : /\ Rated(cs, i) /\ Rated(cs, w)
                                           /\ ClearlyBetter(cs[w].review, cs[i].review)
<1> SUFFICES Earned
  OBVIOUS
<1> HIDE DEF F
<1>1. Eligible(cs, b, d) = F
  BY <1>0, EligibleMeets
<1>2. Comparable(cs, b, d) /\ w \in F
  BY <1>0, <1>1, WaysToWin
<1>3. \A i \in DOMAIN cs : cs[i].state = "READY"
  BY <1>2, NobodyBlocked DEF Comparable
<1>4. \A i \in F : GoalLeader(cs, b, F, i) <=> leads(i)
  <2>1. \A i, j \in F : GoalMatches(cs[i], b) > GoalMatches(cs[j], b) <=> Effects(cs[i], b) > Effects(cs[j], b)
    BY <1>0, EffectsDecide
  <2> QED BY <2>1 DEF GoalLeader
<1>5. \/ F = {w}
      \/ GoalLeader(cs, b, F, w)
      \/ /\ Cardinality(F) > 1
         /\ b.goals = {} \/ ~\E i \in F : GoalLeader(cs, b, F, i)
         /\ \A i \in F : Rated(cs, i)
         /\ ClearLeader(cs, F, w)
  BY <1>0, <1>1, WaysToWin
<1>6. CASE F = {w}
  BY <1>2, <1>3, <1>6
<1>7. CASE GoalLeader(cs, b, F, w)
  BY <1>2, <1>3, <1>4, <1>7
<1>8. CASE /\ Cardinality(F) > 1
           /\ b.goals = {} \/ ~\E i \in F : GoalLeader(cs, b, F, i)
           /\ \A i \in F : Rated(cs, i)
           /\ ClearLeader(cs, F, w)
  <2>1. PICK x \in F, y \in F : x # y
    <3>1. F \in SUBSET (1 .. 3)
      BY <1>0 DEF TypedSlots, SoundSlots
    <3> QED BY <1>8, <3>1, SmallSets
  <2>2. ~\E i \in F : leads(i)
    <3>1. CASE b.goals = {}
      <4>1. \A i \in F : Effects(cs[i], b) = 0
        BY <3>1, FS_EmptySet DEF Effects
      <4> QED BY <2>1, <4>1
    <3>2. CASE ~\E i \in F : GoalLeader(cs, b, F, i)
      <4> HIDE DEF leads
      <4> QED BY <1>4, <3>2
    <3> QED BY <1>8, <3>1, <3>2
  <2>3. \A i \in F \ {w} : /\ Rated(cs, i) /\ Rated(cs, w)
                           /\ ClearlyBetter(cs[w].review, cs[i].review)
    BY <1>2, <1>8 DEF ClearLeader
  <2> QED BY <1>2, <1>3, <2>2, <2>3
<1> QED BY <1>5, <1>6, <1>7, <1>8

-----------------------------------------------------------------------------
(* No more certainty than the sources give.                                *)

\* A private card has no reviews.
OwnSlots(cs) ==
  \A i \in DOMAIN cs : /\ cs[i].source \in {"CATALOG", "PRIVATE"}
                       /\ cs[i].source = "PRIVATE" => cs[i].review = NoReview

\* No criterion is certain of a private card, nor of reviews that are not verified.
LEMMA CriteriaAreHonest ==
  ASSUME NEW cs, NEW b, NEW d, TypedSlots(cs), OwnSlots(cs), NEW i \in DOMAIN cs,
         NEW o \in Criteria(cs, b, d)[i], o.confidence = "HIGH"
  PROVE  /\ cs[i].source = "CATALOG"
         /\ o.reason = "REVIEW_EVIDENCE_COMPARED" => cs[i].review.quality = "HIGH"
<1>1. o \in {IdentityAndData(cs[i]), HardConstraints(cs[i], b, d), DesiredEffect(cs[i], b),
             CustomerReview(cs, i), FormulaAndClaims(cs[i]), PriceAndValue(cs[i])}
  BY DEF Criteria
<1>2. cs[i].source \in {"CATALOG", "PRIVATE"}
  BY DEF OwnSlots
<1>3. CASE o = IdentityAndData(cs[i])
  BY <1>2, <1>3 DEF IdentityAndData, Observation, Sure
<1>4. CASE o = HardConstraints(cs[i], b, d)
  <2>1. LET e == hardEvidence(cs[i], b, d) IN
        /\ e.confidence = "HIGH" => cs[i].source # "PRIVATE"
        /\ e.reason # "REVIEW_EVIDENCE_COMPARED"
    BY EvidenceIs DEF TypedSlots
  <2> QED BY <1>2, <1>4, <2>1 DEF HardConstraints, Observation
<1>5. CASE o = DesiredEffect(cs[i], b)
  BY <1>5 DEF DesiredEffect, Observation
<1>6. CASE o = CustomerReview(cs, i)
  <2>1. Rated(cs, i) /\ reviewConfidence(cs[i].review) = "HIGH"
    BY <1>6 DEF CustomerReview, Observation
  <2>2. cs[i].review # NoReview /\ cs[i].review.quality = "HIGH"
    BY <2>1, EvidenceOfReview DEF TypedSlots, SoundSlots, Rated
  <2> QED BY <1>2, <2>2 DEF OwnSlots
<1>7. CASE o = FormulaAndClaims(cs[i])
  BY <1>2, <1>7 DEF FormulaAndClaims, Observation, Sure
<1>8. CASE o = PriceAndValue(cs[i])
  BY <1>8 DEF PriceAndValue, Observation
<1> QED BY <1>1, <1>3, <1>4, <1>5, <1>6, <1>7, <1>8

\* Where reviews decide they decide for a catalog product.
LEMMA ReviewsDecideForTheReviewed ==
  ASSUME NEW cs, NEW b, NEW d, TypedSlots(cs), OwnSlots(cs), IsFiniteSet(b.goals),
         NEW w, Wins(cs, b, d, w), compareMascaras(cs, b, d).reasons = {"REVIEW_EVIDENCE_COMPARED"}
  PROVE  /\ w \in DOMAIN cs /\ cs[w].source = "CATALOG"
         /\ compareMascaras(cs, b, d).confidence = "HIGH" => cs[w].review.quality = "HIGH"
<1> DEFINE r == compareMascaras(cs, b, d)
           E == Eligible(cs, b, d)
<1>0. w = compareMascaras(cs, b, d).slot /\ w # NoSlot
  BY DEF Wins
<1>1. /\ w \in E
      /\ \/ r = Preferred(w, HardWinner(cs[w], b, d)[1], HardWinner(cs[w], b, d)[2])
         \/ r = Preferred(w, "MEDIUM", "GOAL_CLAIM_MATCH")
         \/ /\ \A i \in E : Rated(cs, i)
            /\ r = Preferred(w, reviewConfidence(cs[w].review), "REVIEW_EVIDENCE_COMPARED")
  BY <1>0, WaysToWin
<1>2. w \in DOMAIN cs
  BY <1>1 DEF Eligible
<1>3. HardWinner(cs[w], b, d)[2] # "REVIEW_EVIDENCE_COMPARED"
  <2>1. hardEvidence(cs[w], b, d).reason # "REVIEW_EVIDENCE_COMPARED"
    BY <1>2, EvidenceIs DEF TypedSlots
  <2> QED BY <2>1 DEF HardWinner
<1>4. r.reasons = {"REVIEW_EVIDENCE_COMPARED"}
  OBVIOUS
<1> HIDE DEF r
<1>5. \A i \in E : Rated(cs, i)
  BY <1>1, <1>3, <1>4, PreferredIs
<1>6. r.confidence = "HIGH" => reviewConfidence(cs[w].review) = "HIGH"
  BY <1>1, <1>3, <1>4, PreferredIs
<1>7. /\ cs[w].review # NoReview
      /\ reviewConfidence(cs[w].review) = "HIGH" => cs[w].review.quality = "HIGH"
  BY <1>1, <1>2, <1>5, EvidenceOfReview DEF TypedSlots, SoundSlots, Rated
<1> QED BY <1>2, <1>6, <1>7 DEF OwnSlots, r

-----------------------------------------------------------------------------
(* The order of the slots.                                                 *)

Reorders(p, n) == p \in [1 .. n -> 1 .. n] /\ \A i, j \in 1 .. n : p[i] = p[j] => i = j

\* A reordering reaches every slot.
LEMMA ReordersAreOnto ==
  ASSUME NEW n \in {2, 3}, NEW p, Reorders(p, n)
  PROVE  \A j \in 1 .. n : \E i \in 1 .. n : p[i] = j
<1>1. CASE n = 2
  <2>1. 1 .. n = {1, 2}
    BY <1>1
  <2>2. p[1] \in {1, 2} /\ p[2] \in {1, 2} /\ p[1] # p[2]
    BY <2>1 DEF Reorders
  <2> QED BY <2>1, <2>2
<1>2. CASE n = 3
  <2>1. 1 .. n = {1, 2, 3}
    BY <1>2
  <2>0. p \in [{1, 2, 3} -> {1, 2, 3}] /\ \A i, j \in {1, 2, 3} : p[i] = p[j] => i = j
    BY <2>1, Zenon DEF Reorders
  <2>2. /\ p[1] \in {1, 2, 3} /\ p[2] \in {1, 2, 3} /\ p[3] \in {1, 2, 3}
        /\ p[1] # p[2] /\ p[1] # p[3] /\ p[2] # p[3]
    BY <2>0
  <2>3. \A j \in {1, 2, 3} : p[1] = j \/ p[2] = j \/ p[3] = j
    BY <2>2
  <2> QED BY <2>1, <2>3
<1> QED BY <1>1, <1>2

\* The same slots in two orders, without duplicates: cs is the first, xs the second.
Reordered(cs, xs, p, n) ==
  /\ n \in {2, 3} /\ Reorders(p, n) /\ TypedSlots(cs) /\ TypedSlots(xs)
  /\ DOMAIN cs = 1 .. n /\ DOMAIN xs = 1 .. n /\ \A i \in 1 .. n : xs[i] = cs[p[i]]

\* What is blocked,
LEMMA ReorderedBlocked ==
  ASSUME NEW cs, NEW xs, NEW p, NEW n, Reordered(cs, xs, p, n)
  PROVE  Blocked(xs) = Blocked(cs)
<1>1. /\ \A j \in 1 .. n : \E i \in 1 .. n : p[i] = j
      /\ \A i \in 1 .. n : p[i] \in 1 .. n
  <2>1. n \in {2, 3} /\ Reorders(p, n)
    BY DEF Reordered
  <2>2. \A j \in 1 .. n : \E i \in 1 .. n : p[i] = j
    BY ONLY <2>1, ReordersAreOnto
  <2> QED BY ONLY <2>1, <2>2 DEF Reorders
<1>2. /\ n \in {2, 3} /\ DOMAIN cs = 1 .. n /\ DOMAIN xs = 1 .. n
      /\ \A i \in 1 .. n : xs[i] = cs[p[i]]
  BY DEF Reordered
<1>3. \A state : (\E i \in 1 .. n : xs[i].state = state) <=> (\E i \in 1 .. n : cs[i].state = state)
  <2> TAKE state
  <2>1. ASSUME NEW i \in 1 .. n, xs[i].state = state PROVE \E j \in 1 .. n : cs[j].state = state
    <3>1. p[i] \in 1 .. n /\ cs[p[i]].state = state
      BY <1>1, <1>2, <2>1
    <3> QED BY <3>1
  <2>2. ASSUME NEW j \in 1 .. n, cs[j].state = state PROVE \E i \in 1 .. n : xs[i].state = state
    <3>1. PICK i \in 1 .. n : p[i] = j
      BY <1>1
    <3> QED BY <1>2, <2>2, <3>1
  <2> QED BY <2>1, <2>2
<1>4. ReadySlots(xs) # DOMAIN xs <=> ReadySlots(cs) # DOMAIN cs
  <2>1. ReadySlots(xs) # 1 .. n <=> \E i \in 1 .. n : xs[i].state # "READY"
    BY <1>2 DEF ReadySlots
  <2>2. ReadySlots(cs) # 1 .. n <=> \E i \in 1 .. n : cs[i].state # "READY"
    BY <1>2 DEF ReadySlots
  <2>3. ASSUME NEW i \in 1 .. n, xs[i].state # "READY" PROVE \E j \in 1 .. n : cs[j].state # "READY"
    <3>1. p[i] \in 1 .. n /\ cs[p[i]].state # "READY"
      BY <1>1, <1>2, <2>3
    <3> QED BY <3>1
  <2>4. ASSUME NEW j \in 1 .. n, cs[j].state # "READY" PROVE \E i \in 1 .. n : xs[i].state # "READY"
    <3>1. PICK i \in 1 .. n : p[i] = j
      BY <1>1
    <3> QED BY <1>2, <2>4, <3>1
  <2> QED BY <1>2, <2>1, <2>2, <2>3, <2>4
<1>5. ASSUME NEW ys, DOMAIN ys = 1 .. n, ReadySlots(ys) = DOMAIN ys PROVE ~(Cardinality(ReadySlots(ys)) < 2)
  <2>1. 1 .. n \in SUBSET (1 .. 3) /\ 1 \in 1 .. n /\ 2 \in 1 .. n
    BY <1>2
  <2>2. PICK S \in SUBSET (1 .. 3) : S = 1 .. n /\ 1 \in S /\ 2 \in S
    BY <2>1
  <2>4. \E x, y \in S : x # y
    BY <2>2
  <2>3. Cardinality(S) > 1 /\ Cardinality(S) \in Nat
    BY <2>4, SmallSets
  <2> QED BY <1>5, <2>2, <2>3
<1>6. (Cardinality(ReadySlots(xs)) < 2 \/ ReadySlots(xs) # DOMAIN xs) <=>
      (Cardinality(ReadySlots(cs)) < 2 \/ ReadySlots(cs) # DOMAIN cs)
  BY <1>2, <1>4, <1>5
<1> QED BY <1>2, <1>3, <1>6 DEF Blocked
\* who meets the requirements,
LEMMA ReorderedRequirements ==
  ASSUME NEW cs, NEW xs, NEW p, NEW n, NEW b, NEW d, Reordered(cs, xs, p, n)
  PROVE  /\ Comparable(xs, b, d) <=> Comparable(cs, b, d)
         /\ \A i \in 1 .. n : i \in Eligible(xs, b, d) <=> p[i] \in Eligible(cs, b, d)
         /\ Eligible(xs, b, d) \in SUBSET (1 .. n) /\ Eligible(cs, b, d) \in SUBSET (1 .. n)
<1> DEFINE unknown(c) == LET e == hardEvidence(c, b, d) IN ~e.violated /\ e.missing
           fits(c) == LET e == hardEvidence(c, b, d) IN ~e.violated /\ ~e.missing
<1>1. /\ \A j \in 1 .. n : \E i \in 1 .. n : p[i] = j
      /\ \A i \in 1 .. n : p[i] \in 1 .. n
  <2>1. n \in {2, 3} /\ Reorders(p, n)
    BY DEF Reordered
  <2>2. \A j \in 1 .. n : \E i \in 1 .. n : p[i] = j
    BY ONLY <2>1, ReordersAreOnto
  <2> QED BY ONLY <2>1, <2>2 DEF Reorders
<1>2. /\ DOMAIN cs = 1 .. n /\ DOMAIN xs = 1 .. n
      /\ \A i \in 1 .. n : xs[i] = cs[p[i]]
  BY DEF Reordered
<1>3. /\ Eligible(xs, b, d) = {i \in 1 .. n : fits(xs[i])}
      /\ Eligible(cs, b, d) = {i \in 1 .. n : fits(cs[i])}
  BY <1>2 DEF Eligible
<1>4. /\ Comparable(xs, b, d) <=> Blocked(xs) = {} /\ ~\E i \in 1 .. n : unknown(xs[i])
      /\ Comparable(cs, b, d) <=> Blocked(cs) = {} /\ ~\E i \in 1 .. n : unknown(cs[i])
  BY <1>2 DEF Comparable
<1> HIDE DEF unknown, fits
<1>5. (\E i \in 1 .. n : unknown(xs[i])) <=> (\E i \in 1 .. n : unknown(cs[i]))
  <2>1. ASSUME NEW i \in 1 .. n, unknown(xs[i]) PROVE \E j \in 1 .. n : unknown(cs[j])
    <3>1. p[i] \in 1 .. n /\ unknown(cs[p[i]])
      BY <1>1, <1>2, <2>1
    <3> QED BY <3>1
  <2>2. ASSUME NEW j \in 1 .. n, unknown(cs[j]) PROVE \E i \in 1 .. n : unknown(xs[i])
    <3>1. PICK i \in 1 .. n : p[i] = j
      BY <1>1
    <3> QED BY <1>2, <2>2, <3>1
  <2> QED BY <2>1, <2>2
<1>6. Blocked(xs) = Blocked(cs)
  BY ReorderedBlocked
<1> QED BY <1>1, <1>2, <1>3, <1>4, <1>5, <1>6

\* who leads,
LEMMA ReorderedRanks ==
  ASSUME NEW cs, NEW xs, NEW p, NEW n, NEW b, IsFiniteSet(b.goals), Reordered(cs, xs, p, n),
         NEW S \in SUBSET (1 .. n), NEW T \in SUBSET (1 .. n),
         \A i \in 1 .. n : i \in T <=> p[i] \in S
  PROVE  /\ T = {} <=> S = {}
         /\ \A i \in 1 .. n : T = {i} <=> S = {p[i]}
         /\ (Cardinality(T) > 1) <=> (Cardinality(S) > 1)
         /\ (\A i \in T : Rated(xs, i)) <=> (\A j \in S : Rated(cs, j))
         /\ \A i \in 1 .. n : GoalLeader(xs, b, T, i) <=> GoalLeader(cs, b, S, p[i])
         /\ \A i \in 1 .. n : ClearLeader(xs, T, i) <=> ClearLeader(cs, S, p[i])
<1>1. /\ \A j \in 1 .. n : \E i \in 1 .. n : p[i] = j
      /\ \A i \in 1 .. n : p[i] \in 1 .. n
      /\ \A i, j \in 1 .. n : p[i] = p[j] => i = j
  <2>1. n \in {2, 3} /\ Reorders(p, n)
    BY DEF Reordered
  <2>2. \A j \in 1 .. n : \E i \in 1 .. n : p[i] = j
    BY <2>1, ReordersAreOnto
  <2>3. p \in [1 .. n -> 1 .. n] /\ \A i, j \in 1 .. n : p[i] = p[j] => i = j
    BY <2>1, Zenon DEF Reorders
  <2> QED BY <2>2, <2>3
<1>2. \A i \in 1 .. n : xs[i] = cs[p[i]]
  BY DEF Reordered
<1>3. \A j \in S : \E i \in T : p[i] = j
  BY <1>1
<1>4. \A i \in T : p[i] \in S
  OBVIOUS
<1>5. T = {} <=> S = {}
  BY <1>3, <1>4
<1>6. \A i \in 1 .. n : T = {i} <=> S = {p[i]}
  <2> TAKE i \in 1 .. n
  <2>1. ASSUME T = {i} PROVE S = {p[i]}
    BY <1>3, <1>4, <2>1
  <2>2. ASSUME S = {p[i]} PROVE T = {i}
    <3>1. i \in T
      BY <2>2
    <3>2. \A k \in T : p[k] = p[i]
      BY <1>4, <2>2
    <3>3. \A k \in T : k = i
      BY <1>1, <3>2
    <3> QED BY <3>1, <3>3
  <2> QED BY <2>1, <2>2
<1>7. (\E i, k \in T : i # k) <=> (\E j, m \in S : j # m)
  <2>1. ASSUME NEW i \in T, NEW k \in T, i # k PROVE \E j, m \in S : j # m
    <3>1. p[i] # p[k] /\ p[i] \in S /\ p[k] \in S
      BY <1>1, <2>1
    <3> QED BY <3>1
  <2>2. ASSUME NEW j \in S, NEW m \in S, j # m PROVE \E i, k \in T : i # k
    <3>1. PICK i \in T : p[i] = j
      BY <1>3
    <3>2. PICK k \in T : p[k] = m
      BY <1>3
    <3> QED BY <2>2, <3>1, <3>2
  <2> QED BY <2>1, <2>2
<1>8. (Cardinality(T) > 1) <=> (Cardinality(S) > 1)
  <2>1. T \in SUBSET (1 .. 3) /\ S \in SUBSET (1 .. 3)
    BY DEF Reordered
  <2>2. Cardinality(T) > 1 <=> \E i, k \in T : i # k
    BY <2>1, SmallSets
  <2>3. Cardinality(S) > 1 <=> \E j, m \in S : j # m
    BY <2>1, SmallSets
  <2> QED BY <1>7, <2>2, <2>3
<1>9. (\A i \in T : Rated(xs, i)) <=> (\A j \in S : Rated(cs, j))
  <2>1. \A i \in T : Rated(xs, i) <=> Rated(cs, p[i])
    BY <1>2 DEF Rated
  <2> QED BY <1>3, <1>4, <2>1
<1>10. \A i \in 1 .. n : GoalLeader(xs, b, T, i) <=> GoalLeader(cs, b, S, p[i])
  <2> TAKE i \in 1 .. n
  <2>1. ASSUME GoalLeader(xs, b, T, i) PROVE GoalLeader(cs, b, S, p[i])
    <3>1. p[i] \in S
      BY <2>1 DEF GoalLeader
    <3>2. \A j \in S \ {p[i]} : GoalMatches(cs[p[i]], b) > GoalMatches(cs[j], b)
      <4> TAKE j \in S \ {p[i]}
      <4>1. PICK k \in T : p[k] = j
        BY <1>3
      <4>2. GoalMatches(xs[i], b) > GoalMatches(xs[k], b)
        BY <2>1, <4>1 DEF GoalLeader
      <4> QED BY <1>2, <4>1, <4>2
    <3> QED BY <3>1, <3>2 DEF GoalLeader
  <2>2. ASSUME GoalLeader(cs, b, S, p[i]) PROVE GoalLeader(xs, b, T, i)
    <3>1. i \in T
      BY <2>2 DEF GoalLeader
    <3>2. \A k \in T \ {i} : GoalMatches(xs[i], b) > GoalMatches(xs[k], b)
      <4> TAKE k \in T \ {i}
      <4>1. p[k] \in S \ {p[i]}
        BY <1>1, <1>4
      <4>2. GoalMatches(cs[p[i]], b) > GoalMatches(cs[p[k]], b)
        BY <2>2, <4>1 DEF GoalLeader
      <4> QED BY <1>2, <4>2
    <3> QED BY <3>1, <3>2 DEF GoalLeader
  <2> QED BY <2>1, <2>2
<1>11. \A i \in 1 .. n : ClearLeader(xs, T, i) <=> ClearLeader(cs, S, p[i])
  <2> TAKE i \in 1 .. n
  <2>1. ASSUME ClearLeader(xs, T, i) PROVE ClearLeader(cs, S, p[i])
    <3>1. p[i] \in S
      BY <2>1 DEF ClearLeader
    <3>2. \A j \in S \ {p[i]} : ClearlyBetter(cs[p[i]].review, cs[j].review)
      <4> TAKE j \in S \ {p[i]}
      <4>1. PICK k \in T : p[k] = j
        BY <1>3
      <4>2. ClearlyBetter(xs[i].review, xs[k].review)
        BY <2>1, <4>1 DEF ClearLeader
      <4> QED BY <1>2, <4>1, <4>2
    <3> QED BY <3>1, <3>2 DEF ClearLeader
  <2>2. ASSUME ClearLeader(cs, S, p[i]) PROVE ClearLeader(xs, T, i)
    <3>1. i \in T
      BY <2>2 DEF ClearLeader
    <3>2. \A k \in T \ {i} : ClearlyBetter(xs[i].review, xs[k].review)
      <4> TAKE k \in T \ {i}
      <4>1. p[k] \in S \ {p[i]}
        BY <1>1, <1>4
      <4>2. ClearlyBetter(cs[p[i]].review, cs[p[k]].review)
        BY <2>2, <4>1 DEF ClearLeader
      <4> QED BY <1>2, <4>2
    <3> QED BY <3>1, <3>2 DEF ClearLeader
  <2> QED BY <2>1, <2>2
<1> QED BY <1>5, <1>6, <1>8, <1>9, <1>10, <1>11
\* and so what is recommended is the same in both orders.
LEMMA ReorderedRecommendation ==
  ASSUME NEW cs, NEW xs, NEW p, NEW n, NEW b, NEW d, Reordered(cs, xs, p, n), IsFiniteSet(b.goals)
  PROVE  LET r == compareMascaras(cs, b, d)
             q == compareMascaras(xs, b, d)
         IN /\ q.reasons = r.reasons
            /\ r.slot = IF q.slot = NoSlot THEN NoSlot ELSE p[q.slot]
<1> DEFINE r == compareMascaras(cs, b, d)
           q == compareMascaras(xs, b, d)
           S == Eligible(cs, b, d)
           T == Eligible(xs, b, d)
           Agree == q.reasons = r.reasons /\ r.slot = IF q.slot = NoSlot THEN NoSlot ELSE p[q.slot]
<1>1. /\ n \in {2, 3} /\ Reorders(p, n) /\ SoundSlots(cs) /\ SoundSlots(xs)
      /\ \A i \in 1 .. n : xs[i] = cs[p[i]]
  BY DEF Reordered, TypedSlots
<1>2. /\ \A j \in 1 .. n : \E i \in 1 .. n : p[i] = j
      /\ \A i \in 1 .. n : i # NoSlot /\ p[i] # NoSlot
  <2>1. \A i \in 1 .. n : p[i] \in 1 .. n
    BY <1>1 DEF Reorders
  <2>2. \A i \in 1 .. n : i # NoSlot
    BY DEF NoSlot
  <2> QED BY <1>1, <2>1, <2>2, ReordersAreOnto
<1>3. /\ Comparable(xs, b, d) <=> Comparable(cs, b, d)
      /\ \A i \in 1 .. n : i \in T <=> p[i] \in S
      /\ T \in SUBSET (1 .. n) /\ S \in SUBSET (1 .. n)
  BY ReorderedRequirements
<1>4. Blocked(xs) = Blocked(cs)
  BY ReorderedBlocked
<1>5. /\ T = {} <=> S = {}
      /\ \A i \in 1 .. n : T = {i} <=> S = {p[i]}
      /\ (Cardinality(T) > 1) <=> (Cardinality(S) > 1)
      /\ (\A i \in T : Rated(xs, i)) <=> (\A j \in S : Rated(cs, j))
      /\ \A i \in 1 .. n : GoalLeader(xs, b, T, i) <=> GoalLeader(cs, b, S, p[i])
      /\ \A i \in 1 .. n : ClearLeader(xs, T, i) <=> ClearLeader(cs, S, p[i])
  <2>1. T \in SUBSET (1 .. n) /\ S \in SUBSET (1 .. n)
    BY <1>3
  <2>2. \A i \in 1 .. n : i \in T <=> p[i] \in S
    BY <1>3
  <2>3. Reordered(cs, xs, p, n)
    OBVIOUS
  <2> HIDE DEF S, T
  <2> QED BY ONLY IsFiniteSet(b.goals), <2>1, <2>2, <2>3, ReorderedRanks
<1>6. ASSUME NEW i \in 1 .. n, NEW confidence, NEW reason,
             q = Preferred(i, confidence, reason), r = Preferred(p[i], confidence, reason)
      PROVE  Agree
  <2>1. q.slot = i /\ q.reasons = {reason}
    BY <1>6, PreferredIs
  <2>2. r.slot = p[i] /\ r.reasons = {reason}
    BY <1>6, PreferredIs
  <2> HIDE DEF q, r
  <2> QED BY <1>2, <2>1, <2>2
<1>7. ASSUME NEW confidence, NEW reasons,
             q = NoClearWinner(confidence, reasons), r = NoClearWinner(confidence, reasons)
      PROVE  Agree
  <2>1. q.slot = NoSlot /\ q.reasons = reasons
    BY <1>7, NoWinnerIs
  <2>2. r.slot = NoSlot /\ r.reasons = reasons
    BY <1>7, NoWinnerIs
  <2> HIDE DEF q, r
  <2> QED BY <2>1, <2>2
<1> SUFFICES Agree
  OBVIOUS
<1> HIDE DEF Agree
<1>8. CASE ~Comparable(cs, b, d) \/ S = {}
  <2>1. /\ Blocked(cs) # {} => r = NoClearWinner("LOW", Blocked(cs))
        /\ Blocked(cs) = {} /\ ~Comparable(cs, b, d) => r = NoClearWinner("LOW", {"HARD_CONSTRAINT_DATA_MISSING"})
        /\ Comparable(cs, b, d) /\ S = {} => r = NoClearWinner("MEDIUM", {"HARD_CONSTRAINT_VIOLATED"})
    BY WithoutComparison
  <2>2. /\ Blocked(xs) # {} => q = NoClearWinner("LOW", Blocked(xs))
        /\ Blocked(xs) = {} /\ ~Comparable(xs, b, d) => q = NoClearWinner("LOW", {"HARD_CONSTRAINT_DATA_MISSING"})
        /\ Comparable(xs, b, d) /\ T = {} => q = NoClearWinner("MEDIUM", {"HARD_CONSTRAINT_VIOLATED"})
    BY WithoutComparison
  <2> HIDE DEF q, r, S, T
  <2> QED BY <1>3, <1>4, <1>5, <1>7, <1>8, <2>1, <2>2
<1>9. CASE Comparable(cs, b, d) /\ \E w \in S : S = {w}
  <2>1. PICK w \in S : S = {w}
    BY <1>9
  <2>2. PICK v \in 1 .. n : p[v] = w
    BY <1>2, <1>3
  <2>3. T = {v} /\ xs[v] = cs[w]
    <3> HIDE DEF S, T
    <3> QED BY <1>1, <1>5, <2>1, <2>2
  <2>4. r = Preferred(w, HardWinner(cs[w], b, d)[1], HardWinner(cs[w], b, d)[2])
    BY <1>1, <1>9, <2>1, ByRequirements
  <2>5. q = Preferred(v, HardWinner(cs[w], b, d)[1], HardWinner(cs[w], b, d)[2])
    <3>1. q = Preferred(v, HardWinner(xs[v], b, d)[1], HardWinner(xs[v], b, d)[2])
      BY <1>1, <1>3, <1>9, <2>3, ByRequirements
    <3> HIDE DEF q
    <3> QED BY <2>3, <3>1
  <2> HIDE DEF q, r
  <2> QED BY <1>6, <2>2, <2>4, <2>5
<1>10. CASE Comparable(cs, b, d) /\ Cardinality(S) > 1 /\ b.goals # {} /\ \E w \in S : GoalLeader(cs, b, S, w)
  <2>1. PICK w \in S : GoalLeader(cs, b, S, w)
    BY <1>10
  <2>2. PICK v \in 1 .. n : p[v] = w
    BY <1>2, <1>3
  <2>3. GoalLeader(xs, b, T, v) /\ Cardinality(T) > 1
    <3> HIDE DEF S, T
    <3> QED BY <1>5, <1>10, <2>1, <2>2
  <2>4. r = Preferred(w, "MEDIUM", "GOAL_CLAIM_MATCH")
    BY <1>1, <1>10, <2>1, ByGoals
  <2>5. q = Preferred(v, "MEDIUM", "GOAL_CLAIM_MATCH")
    BY <1>1, <1>3, <1>10, <2>3, ByGoals
  <2> HIDE DEF q, r
  <2> QED BY <1>6, <2>2, <2>4, <2>5
<1>11. CASE /\ Comparable(cs, b, d) /\ Cardinality(S) > 1
            /\ b.goals = {} \/ ~\E w \in S : GoalLeader(cs, b, S, w)
  <2> DEFINE rated(cc, E) == \A i \in E : Rated(cc, i)
             leader(cc, E) == \E w \in E : ClearLeader(cc, E, w)
             none == {IF b.goals = {} THEN "REVIEW_DATA_UNAVAILABLE" ELSE "NO_SUPPORTED_DIFFERENCE"}
  <2>1. Comparable(xs, b, d) /\ Cardinality(T) > 1
    <3> HIDE DEF S, T
    <3> QED BY <1>3, <1>5, <1>11
  <2>2. b.goals = {} \/ ~\E v \in T : GoalLeader(xs, b, T, v)
    <3> HIDE DEF S, T
    <3> QED BY <1>3, <1>5, <1>11
  <2>3. /\ \A w \in S : rated(cs, S) /\ ClearLeader(cs, S, w) =>
             r = Preferred(w, reviewConfidence(cs[w].review), "REVIEW_EVIDENCE_COMPARED")
        /\ rated(cs, S) /\ ~leader(cs, S) => r = NoClearWinner("MEDIUM", {"EVIDENCE_TOO_CLOSE"})
        /\ ~rated(cs, S) => r = NoClearWinner("LOW", none)
    BY <1>1, <1>11, ByReviews
  <2>4. /\ \A v \in T : rated(xs, T) /\ ClearLeader(xs, T, v) =>
             q = Preferred(v, reviewConfidence(xs[v].review), "REVIEW_EVIDENCE_COMPARED")
        /\ rated(xs, T) /\ ~leader(xs, T) => q = NoClearWinner("MEDIUM", {"EVIDENCE_TOO_CLOSE"})
        /\ ~rated(xs, T) => q = NoClearWinner("LOW", none)
    <3>1. SoundSlots(xs) /\ Comparable(xs, b, d) /\ Cardinality(Eligible(xs, b, d)) > 1
      BY <1>1, <2>1
    <3>2. b.goals = {} \/ ~\E i \in Eligible(xs, b, d) : GoalLeader(xs, b, Eligible(xs, b, d), i)
      BY <2>2
    <3> QED BY ONLY <3>1, <3>2, ByReviews
  <2>5. rated(cs, S) <=> rated(xs, T)
    BY <1>5
  <2> HIDE DEF q, r, S, T, rated, none
  <2>6. leader(cs, S) <=> leader(xs, T)
    <3>1. ASSUME NEW w \in S, ClearLeader(cs, S, w) PROVE leader(xs, T)
      <4>1. PICK v \in 1 .. n : p[v] = w
        BY <1>2, <1>3
      <4> QED BY <1>3, <1>5, <3>1, <4>1
    <3>2. ASSUME NEW v \in T, ClearLeader(xs, T, v) PROVE leader(cs, S)
      <4>1. p[v] \in S /\ ClearLeader(cs, S, p[v])
        BY <1>3, <1>5, <3>2
      <4> QED BY <4>1
    <3> QED BY <3>1, <3>2
  <2>7. CASE ~rated(cs, S)
    BY <1>7, <2>3, <2>4, <2>5, <2>7
  <2>8. CASE rated(cs, S) /\ ~leader(cs, S)
    <3> HIDE DEF leader
    <3> QED BY <1>7, <2>3, <2>4, <2>5, <2>6, <2>8
  <2>9. CASE rated(cs, S) /\ leader(cs, S)
    <3>1. PICK v \in T : ClearLeader(xs, T, v)
      BY <2>6, <2>9
    <3>2. p[v] \in S /\ ClearLeader(cs, S, p[v]) /\ xs[v] = cs[p[v]] /\ v \in 1 .. n
      BY <1>1, <1>3, <1>5, <3>1
    <3>3. /\ q = Preferred(v, reviewConfidence(cs[p[v]].review), "REVIEW_EVIDENCE_COMPARED")
          /\ r = Preferred(p[v], reviewConfidence(cs[p[v]].review), "REVIEW_EVIDENCE_COMPARED")
      BY <2>3, <2>4, <2>5, <2>9, <3>1, <3>2
    <3> QED BY <1>6, <3>2, <3>3
  <2> QED BY <2>7, <2>8, <2>9
<1>12. S # {} /\ ~(\E w \in S : S = {w}) => Cardinality(S) > 1
  <2>1. S \in SUBSET (1 .. 3)
    BY <1>1, <1>3
  <2>2. Cardinality(S) \in Nat /\ (Cardinality(S) > 1 <=> \E x, y \in S : x # y)
    BY <2>1, SmallSets
  <2> HIDE DEF S
  <2> QED BY <2>2
<1> HIDE DEF q, r, S, T
<1> QED BY <1>8, <1>9, <1>10, <1>11, <1>12
-----------------------------------------------------------------------------
(* Candidates.                                                             *)

OfferedSlots(slots, n) ==
  n \in {2, 3} /\ DOMAIN slots = 1 .. n /\ Len(slots) = n /\ \A i \in 1 .. n : slots[i] \in Offers

\* Two or three offers are slots.
LEMMA SlotsAreOffered ==
  ASSUME NEW slots \in (Offers \X Offers) \cup (Offers \X Offers \X Offers)
  PROVE  OfferedSlots(slots, Len(slots))
<1>1. CASE slots \in Offers \X Offers
  <2>1. PICK s \in Offers, t \in Offers : slots = <<s, t>>
    BY <1>1
  <2> QED BY <2>1 DEF OfferedSlots
<1>2. CASE slots \in Offers \X Offers \X Offers
  <2>1. PICK s \in Offers, t \in Offers, u \in Offers : slots = <<s, t, u>>
    BY <1>2
  <2> QED BY <2>1 DEF OfferedSlots
<1> QED BY <1>1, <1>2

Repeats(slots, i) ==
  IsReady(slots, i) /\ \E j \in 1 .. i - 1 : IsReady(slots, j) /\ SameProduct(slots[i], slots[j])
\* What a slot that repeats nothing becomes.
Taken(s) == [s EXCEPT !.review = IF s.source = "PRIVATE" THEN NoReview ELSE @,
                      !.priced = @ /\ s.source = "PRIVATE",
                      !.complete = @ \/ s.source = "CATALOG"]

\* What the services make of slots.
LEMMA CandidatesAre ==
  ASSUME NEW slots, NEW n, OfferedSlots(slots, n)
  PROVE  /\ DOMAIN Candidates(slots) = 1 .. n
         /\ \A i \in 1 .. n :
              LET c == Candidates(slots)[i] IN
              /\ ~Repeats(slots, i) => c = Taken(slots[i])
              /\ c.state = IF Repeats(slots, i) THEN "DUPLICATE_VARIANT" ELSE slots[i].state
              /\ c.source = slots[i].source /\ c.waterproof = slots[i].waterproof
              /\ c.review = IF slots[i].source = "PRIVATE" THEN NoReview ELSE slots[i].review
<1>1. DOMAIN slots = 1 .. n /\ \A i \in 1 .. n : slots[i] \in Offers
  BY DEF OfferedSlots
<1>2. Deduplicated(slots) =
        [i \in 1 .. n |-> IF Repeats(slots, i) THEN [slots[i] EXCEPT !.state = "DUPLICATE_VARIANT"] ELSE slots[i]]
  BY <1>1 DEF Deduplicated, Repeats
<1>3. Candidates(slots) =
        [i \in 1 .. n |->
           [Deduplicated(slots)[i] EXCEPT !.review = IF slots[i].source = "PRIVATE" THEN NoReview ELSE @,
                                          !.priced = @ /\ slots[i].source = "PRIVATE",
                                          !.complete = @ \/ slots[i].source = "CATALOG"]]
  BY <1>1 DEF Candidates
<1>4. DOMAIN Candidates(slots) = 1 .. n
  BY <1>3
<1>5. ASSUME NEW i \in 1 .. n
      PROVE  LET c == Candidates(slots)[i] IN
             /\ ~Repeats(slots, i) => c = Taken(slots[i])
             /\ c.state = IF Repeats(slots, i) THEN "DUPLICATE_VARIANT" ELSE slots[i].state
             /\ c.source = slots[i].source /\ c.waterproof = slots[i].waterproof
             /\ c.review = IF slots[i].source = "PRIVATE" THEN NoReview ELSE slots[i].review
  <2> DEFINE s == slots[i]
             t == Deduplicated(slots)[i]
             c == Candidates(slots)[i]
  <2>1. DOMAIN s = {"source", "state", "variant", "code", "waterproof", "formula", "complete",
                    "claims", "review", "priced"}
    BY <1>1, ComparisonAssumption
  <2>2. t = IF Repeats(slots, i) THEN [s EXCEPT !.state = "DUPLICATE_VARIANT"] ELSE s
    BY <1>2
  <2>3. c = [t EXCEPT !.review = IF s.source = "PRIVATE" THEN NoReview ELSE @,
                      !.priced = @ /\ s.source = "PRIVATE",
                      !.complete = @ \/ s.source = "CATALOG"]
    BY <1>3
  <2> HIDE DEF s, t, c
  <2>4. /\ DOMAIN t = DOMAIN s /\ t.source = s.source /\ t.waterproof = s.waterproof /\ t.review = s.review
        /\ t.state = IF Repeats(slots, i) THEN "DUPLICATE_VARIANT" ELSE s.state
    BY <2>1, <2>2
  <2>5. /\ c.source = t.source /\ c.waterproof = t.waterproof /\ c.state = t.state
        /\ c.review = IF s.source = "PRIVATE" THEN NoReview ELSE t.review
    BY <2>1, <2>3, <2>4
  <2>6. ~Repeats(slots, i) => c = Taken(s)
    BY <2>2, <2>3 DEF Taken
  <2> QED BY <2>4, <2>5, <2>6 DEF s, c
<1> QED BY <1>4, <1>5

LEMMA CandidatesAreTyped ==
  ASSUME NEW slots, NEW n, OfferedSlots(slots, n)
  PROVE  TypedSlots(Candidates(slots)) /\ OwnSlots(Candidates(slots))
<1> DEFINE cs == Candidates(slots)
<1>1. DOMAIN cs = 1 .. n /\ 1 .. n \in SUBSET (1 .. 3)
  <2>1. DOMAIN cs = 1 .. n
    BY CandidatesAre
  <2>2. n \in {2, 3}
    BY DEF OfferedSlots
  <2>3. 1 .. n \in SUBSET (1 .. 3)
    BY ONLY <2>2
  <2> QED BY <2>1, <2>3
<1>2. \A i \in 1 .. n : /\ cs[i].source = slots[i].source /\ cs[i].waterproof = slots[i].waterproof
                        /\ cs[i].review = IF slots[i].source = "PRIVATE" THEN NoReview ELSE slots[i].review
  BY CandidatesAre
<1>3. \A i \in 1 .. n : slots[i] \in Offers
  BY DEF OfferedSlots
<1> HIDE DEF cs
<1>4. \A i \in 1 .. n : SoundReview(cs[i].review)
  BY <1>2, <1>3, ComparisonAssumption DEF SoundReview
<1>5. \A i \in 1 .. n : cs[i].waterproof \in {"YES", "NO", "UNKNOWN"} /\ cs[i].source \in {"CATALOG", "PRIVATE"}
  BY <1>2, <1>3, ComparisonAssumption
<1>6. TypedSlots(cs)
  BY <1>1, <1>4, <1>5 DEF TypedSlots, SoundSlots
<1>7. OwnSlots(cs)
  BY <1>1, <1>2, <1>5 DEF OwnSlots
<1> QED BY <1>6, <1>7 DEF cs

LEMMA SameProductIsMutual ==
  ASSUME NEW s, NEW t, SameProduct(s, t) PROVE SameProduct(t, s)
BY DEF SameProduct

\* Which of two slots is the duplicate depends on their order; that there is one does not.
LEMMA ReorderedSlots ==
  ASSUME NEW slots, NEW n, OfferedSlots(slots, n), NEW p, Reorders(p, n), NEW b, NEW d, IsFiniteSet(b.goals)
  PROVE  LET r == compareMascaras(Candidates(slots), b, d)
             q == compareMascaras(Candidates([i \in 1 .. n |-> slots[p[i]]]), b, d)
         IN /\ q.reasons = r.reasons
            /\ r.slot = IF q.slot = NoSlot THEN NoSlot ELSE p[q.slot]
<1> DEFINE others == [i \in 1 .. n |-> slots[p[i]]]
           cs == Candidates(slots)
           xs == Candidates(others)
<1>1. /\ n \in {2, 3} /\ p \in [1 .. n -> 1 .. n]
      /\ \A i, j \in 1 .. n : p[i] = p[j] => i = j
  BY DEF OfferedSlots, Reorders
<1>2. \A j \in 1 .. n : \E i \in 1 .. n : p[i] = j
  <2>1. n \in {2, 3} /\ Reorders(p, n)
    BY <1>1
  <2> QED BY ONLY <2>1, ReordersAreOnto
<1>3. \A i \in 1 .. n : others[i] = slots[p[i]] /\ p[i] \in 1 .. n /\ slots[i] \in Offers
  BY <1>1 DEF OfferedSlots
<1>4. OfferedSlots(others, n)
  <2>1. DOMAIN others = 1 .. n /\ \A i \in 1 .. n : others[i] \in Offers
    BY <1>3
  <2>2. Len(others) = n
    <3>1. others \in Seq(Offers)
      BY <1>1, <2>1
    <3> QED BY <1>1, <2>1, <3>1
  <2> QED BY <1>1, <2>1, <2>2 DEF OfferedSlots
<1> DEFINE Alike(ss) == \E i, j \in 1 .. n : /\ i # j /\ IsReady(ss, i) /\ IsReady(ss, j)
                                             /\ SameProduct(ss[i], ss[j])
<1>5. ASSUME NEW ss PROVE Alike(ss) <=> \E i \in 1 .. n : Repeats(ss, i)
  <2>1. ASSUME NEW i \in 1 .. n, NEW j \in 1 .. n, i # j, IsReady(ss, i), IsReady(ss, j),
               SameProduct(ss[i], ss[j])
        PROVE  \E k \in 1 .. n : Repeats(ss, k)
    <3>1. CASE j < i
      <4>1. j \in 1 .. i - 1
        BY <1>1, <3>1
      <4> QED BY <2>1, <4>1 DEF Repeats
    <3>2. CASE i < j
      <4>1. i \in 1 .. j - 1 /\ SameProduct(ss[j], ss[i])
        BY <1>1, <2>1, <3>2, SameProductIsMutual
      <4> QED BY <2>1, <4>1 DEF Repeats
    <3> QED BY <1>1, <2>1, <3>1, <3>2
  <2>2. ASSUME NEW i \in 1 .. n, Repeats(ss, i) PROVE Alike(ss)
    <3>1. PICK j \in 1 .. i - 1 : IsReady(ss, j) /\ SameProduct(ss[i], ss[j])
      BY <2>2 DEF Repeats
    <3>2. j \in 1 .. n /\ j # i
      BY <1>1
    <3>3. IsReady(ss, i)
      BY <2>2 DEF Repeats
    <3> QED BY <3>1, <3>2, <3>3
  <2> QED BY <2>1, <2>2
<1>6. Alike(slots) <=> Alike(others)
  <2>1. \A i \in 1 .. n : IsReady(others, i) <=> IsReady(slots, p[i])
    BY <1>3 DEF IsReady
  <2> HIDE DEF others
  <2>2. ASSUME NEW i \in 1 .. n, NEW j \in 1 .. n, i # j, IsReady(others, i), IsReady(others, j),
               SameProduct(others[i], others[j])
        PROVE  Alike(slots)
    <3>1. p[i] \in 1 .. n /\ p[j] \in 1 .. n /\ p[i] # p[j]
      BY <1>1, <1>3, <2>2
    <3>2. IsReady(slots, p[i]) /\ IsReady(slots, p[j]) /\ SameProduct(slots[p[i]], slots[p[j]])
      BY <1>3, <2>1, <2>2
    <3> QED BY <3>1, <3>2
  <2>3. ASSUME NEW i \in 1 .. n, NEW j \in 1 .. n, i # j, IsReady(slots, i), IsReady(slots, j),
               SameProduct(slots[i], slots[j])
        PROVE  Alike(others)
    <3>1. PICK k \in 1 .. n, m \in 1 .. n : p[k] = i /\ p[m] = j
      BY <1>2
    <3>2. k # m /\ IsReady(others, k) /\ IsReady(others, m) /\ SameProduct(others[k], others[m])
      BY <1>3, <2>1, <2>3, <3>1
    <3> QED BY <3>2
  <2> QED BY <2>2, <2>3
<1>7. TypedSlots(cs) /\ TypedSlots(xs)
  <2> HIDE DEF others
  <2> QED BY <1>4, CandidatesAreTyped
<1>8. DOMAIN cs = 1 .. n /\ DOMAIN xs = 1 .. n
  <2> HIDE DEF others
  <2> QED BY <1>4, CandidatesAre
<1>9. CASE ~Alike(slots)
  <2>1. \A i \in 1 .. n : ~Repeats(slots, i) /\ ~Repeats(others, i)
    <3> HIDE DEF others, Alike
    <3> QED BY <1>5, <1>6, <1>9
  <2>2. \A i \in 1 .. n : cs[i] = Taken(slots[i])
    BY <2>1, CandidatesAre
  <2>3. \A i \in 1 .. n : xs[i] = Taken(others[i])
    <3> HIDE DEF others
    <3> QED BY <1>4, <2>1, CandidatesAre
  <2>4. \A i \in 1 .. n : xs[i] = cs[p[i]]
    <3> HIDE DEF others, cs, xs
    <3> QED BY <1>3, <2>2, <2>3
  <2>5. Reordered(cs, xs, p, n)
    <3> HIDE DEF others, cs, xs
    <3> QED BY <1>1, <1>7, <1>8, <2>4 DEF Reordered
  <2> HIDE DEF cs, xs
  <2>6. LET r == compareMascaras(cs, b, d)
            q == compareMascaras(xs, b, d)
        IN /\ q.reasons = r.reasons
           /\ r.slot = IF q.slot = NoSlot THEN NoSlot ELSE p[q.slot]
    BY <2>5, ReorderedRecommendation
  <2> QED BY <2>6 DEF cs, xs
<1>10. CASE Alike(slots)
  <2> DEFINE outside(ss) == \E i \in 1 .. n : ss[i].state = "EXTERNAL_CANDIDATE"
  <2>1. ASSUME NEW ss, OfferedSlots(ss, n), Alike(ss)
        PROVE  Blocked(Candidates(ss)) =
                 (IF outside(ss) THEN {"EXTERNAL_IDENTITY_UNCONFIRMED"} ELSE {})
                 \cup {"DUPLICATE_VARIANT", "INSUFFICIENT_READY_SLOTS"}
    <3> DEFINE ys == Candidates(ss)
    <3>1. DOMAIN ys = 1 .. n /\ \A i \in 1 .. n :
            ys[i].state = IF Repeats(ss, i) THEN "DUPLICATE_VARIANT" ELSE ss[i].state
      BY <2>1, CandidatesAre
    <3>2. PICK k \in 1 .. n : Repeats(ss, k)
      <4> HIDE DEF Alike
      <4> QED BY <1>5, <2>1
    <3> HIDE DEF ys
    <3>3. ys[k].state = "DUPLICATE_VARIANT"
      BY <3>1, <3>2
    <3>4. ReadySlots(ys) # DOMAIN ys
      BY <3>1, <3>3 DEF ReadySlots
    <3>5. (\E i \in DOMAIN ys : ys[i].state = "EXTERNAL_CANDIDATE") <=> outside(ss)
      <4>1. \A i \in 1 .. n : ys[i].state = "EXTERNAL_CANDIDATE" <=> ss[i].state = "EXTERNAL_CANDIDATE"
        BY <3>1 DEF Repeats, IsReady
      <4> QED BY <3>1, <4>1
    <3> QED BY <3>1, <3>3, <3>4, <3>5 DEF Blocked, ys
  <2>2. outside(slots) <=> outside(others)
    <3>1. ASSUME NEW i \in 1 .. n, others[i].state = "EXTERNAL_CANDIDATE" PROVE outside(slots)
      <4>1. p[i] \in 1 .. n /\ slots[p[i]].state = "EXTERNAL_CANDIDATE"
        BY <1>3, <3>1
      <4> QED BY <4>1
    <3>2. ASSUME NEW j \in 1 .. n, slots[j].state = "EXTERNAL_CANDIDATE" PROVE outside(others)
      <4>1. PICK i \in 1 .. n : p[i] = j
        BY <1>2
      <4>2. others[i].state = "EXTERNAL_CANDIDATE"
        BY <1>3, <3>2, <4>1
      <4> HIDE DEF others
      <4> QED BY <4>2
    <3> HIDE DEF others
    <3> QED BY <3>1, <3>2
  <2> HIDE DEF outside, Alike, others
  <2>3. Blocked(xs) = Blocked(cs) /\ Blocked(cs) # {}
    BY <1>4, <1>6, <1>10, <2>1, <2>2
  <2> HIDE DEF cs, xs
  <2>4. /\ compareMascaras(cs, b, d) = NoClearWinner("LOW", Blocked(cs))
        /\ compareMascaras(xs, b, d) = NoClearWinner("LOW", Blocked(cs))
    BY <2>3, WithoutComparison
  <2>5. LET r == compareMascaras(cs, b, d)
            q == compareMascaras(xs, b, d)
        IN /\ q.reasons = r.reasons
           /\ r.slot = IF q.slot = NoSlot THEN NoSlot ELSE p[q.slot]
    BY <2>4, NoWinnerIs
  <2> QED BY <2>5 DEF cs, xs, others
<1> QED BY <1>9, <1>10

-----------------------------------------------------------------------------
\* A question and its answer: nothing asked yet, or everything answered.
ComparisonInv ==
  /\ question \in [slots : {<<>>} \cup (Offers \X Offers) \cup (Offers \X Offers \X Offers),
                   brief : Briefs, dictionary : Dictionaries]
  /\ \/ question.slots = <<>> /\ answer = Unanswered
     \/ /\ OfferedSlots(question.slots, Len(question.slots))
        /\ answer = Preview(question.slots, Candidates(question.slots), question.brief, question.dictionary)

LEMMA ComparisonStartsWell == ComparisonInit => ComparisonInv
BY DEF ComparisonInit, ComparisonInv

LEMMA ComparisonInvIsInductive ==
  ASSUME ComparisonInv, [ComparisonNext]_comparisonVars PROVE ComparisonInv'
<1>1. CASE UNCHANGED comparisonVars
  BY <1>1 DEF ComparisonInv, comparisonVars
<1>2. CASE ComparisonNext
  <2>1. PICK slots \in (Offers \X Offers) \cup (Offers \X Offers \X Offers) :
          /\ question' = [question EXCEPT !.slots = slots]
          /\ answer' = Preview(slots, Candidates(slots), question.brief, question.dictionary)
    BY <1>2 DEF ComparisonNext
  <2>2. question' \in [slots : {<<>>} \cup (Offers \X Offers) \cup (Offers \X Offers \X Offers),
                       brief : Briefs, dictionary : Dictionaries]
        /\ question'.slots = slots /\ question'.brief = question.brief
        /\ question'.dictionary = question.dictionary
    BY <2>1 DEF ComparisonInv
  <2>3. OfferedSlots(slots, Len(slots))
    BY <2>1, SlotsAreOffered
  <2> QED BY <2>1, <2>2, <2>3 DEF ComparisonInv
<1> QED BY <1>1, <1>2

\* Before anything was asked nothing is claimed.
LEMMA NothingIsClaimed ==
  ASSUME question.slots = <<>>, answer = Unanswered PROVE ComparisonIsHonest
<1>1. answer.recommendation.slot = NoSlot /\ DOMAIN answer.criteria = {}
  BY NoWinnerIs DEF Unanswered
<1>2. RecommendationIsEarned
  BY <1>1 DEF RecommendationIsEarned
<1>3. CertaintyIsEarned
  BY <1>1 DEF CertaintyIsEarned
<1>4. OrderDoesNotMatter
  <2>1. Len(question.slots) = 0
    OBVIOUS
  <2> QED BY <2>1 DEF OrderDoesNotMatter
<1> QED BY <1>2, <1>3, <1>4 DEF ComparisonIsHonest

LEMMA AnswersAreHonest ==
  ASSUME OfferedSlots(question.slots, Len(question.slots)), question.brief \in Briefs,
         answer = Preview(question.slots, Candidates(question.slots), question.brief, question.dictionary)
  PROVE  ComparisonIsHonest
<1> DEFINE slots == question.slots
           n == Len(slots)
           b == question.brief
           d == question.dictionary
           cs == Candidates(slots)
           r == compareMascaras(cs, b, d)
           a == answer.recommendation
<1>1. TypedSlots(cs) /\ OwnSlots(cs) /\ IsFiniteSet(b.goals)
  BY CandidatesAreTyped, ComparisonAssumption
<1>2. /\ a = [r EXCEPT !.confidence =
                IF (\E i \in DOMAIN slots : slots[i].source = "PRIVATE") /\ r.slot # NoSlot /\ @ = "HIGH"
                THEN "MEDIUM" ELSE @]
      /\ answer.criteria = Criteria(cs, b, d)
  BY DEF Preview
<1>3. DOMAIN r = {"slot", "confidence", "reasons"}
  BY DEF compareMascaras, Preferred, NoClearWinner
<1>4. /\ a.slot = r.slot /\ a.reasons = r.reasons
      /\ a.confidence = "HIGH" => r.confidence = "HIGH"
      /\ a.slot # NoSlot /\ a.confidence = "HIGH" => ~\E i \in DOMAIN slots : slots[i].source = "PRIVATE"
  <2> HIDE DEF a, r, slots
  <2> QED BY <1>2, <1>3
<1>5. RecommendationIsEarned
  <2>1. a.slot # NoSlot => /\ \A i \in DOMAIN cs : cs[i].state = "READY"
          /\ a.slot \in Fit(cs)
          /\ \/ \A j \in Fit(cs) \ {a.slot} : Effects(cs[a.slot], b) > Effects(cs[j], b)
             \/ /\ ~\E i \in Fit(cs) : \A j \in Fit(cs) \ {i} : Effects(cs[i], b) > Effects(cs[j], b)
                /\ \A i \in Fit(cs) \ {a.slot} : /\ Rated(cs, i) /\ Rated(cs, a.slot)
                                                 /\ ClearlyBetter(cs[a.slot].review, cs[i].review)
    <3> DEFINE F == Fit(cs)
    <3>1. F = Meeting(cs, b, d)
      BY DEF Fit, Meeting
    <3>2. a.slot # NoSlot => Wins(cs, b, d, a.slot)
      BY <1>4 DEF Wins
    <3> HIDE DEF F, a, cs, b, d
    <3>3. ASSUME a.slot # NoSlot
          PROVE  /\ \A i \in DOMAIN cs : cs[i].state = "READY"
                 /\ a.slot \in F
                 /\ \/ \A j \in F \ {a.slot} : Effects(cs[a.slot], b) > Effects(cs[j], b)
                    \/ /\ ~\E i \in F : \A j \in F \ {i} : Effects(cs[i], b) > Effects(cs[j], b)
                       /\ \A i \in F \ {a.slot} : /\ Rated(cs, i) /\ Rated(cs, a.slot)
                                                  /\ ClearlyBetter(cs[a.slot].review, cs[i].review)
      BY ONLY <1>1, <3>1, <3>2, <3>3, WinnersAreEarned
    <3> QED BY <3>3 DEF F
  <2> QED BY <2>1 DEF RecommendationIsEarned
<1>6. CertaintyIsEarned
  <2>1. DOMAIN cs = DOMAIN slots /\ \A i \in DOMAIN slots : cs[i].source = slots[i].source
    <3>1. DOMAIN slots = 1 .. n /\ OfferedSlots(slots, n)
      BY DEF OfferedSlots
    <3> HIDE DEF slots
    <3> QED BY <3>1, CandidatesAre
  <2>2. a.slot # NoSlot /\ a.confidence = "HIGH" => \A i \in DOMAIN cs : cs[i].source = "CATALOG"
    <3> HIDE DEF a, r, cs
    <3> QED BY <1>1, <1>4, <2>1 DEF OwnSlots
  <2>3. a.slot # NoSlot /\ a.reasons = {"REVIEW_EVIDENCE_COMPARED"} =>
          /\ cs[a.slot].source = "CATALOG"
          /\ a.confidence = "HIGH" => cs[a.slot].review.quality = "HIGH"
    <3>1. /\ a.slot # NoSlot => Wins(cs, b, d, a.slot)
          /\ a.reasons = compareMascaras(cs, b, d).reasons
          /\ a.confidence = "HIGH" => compareMascaras(cs, b, d).confidence = "HIGH"
      BY <1>4 DEF Wins
    <3> HIDE DEF a, cs, b, d
    <3>2. ASSUME Wins(cs, b, d, a.slot), compareMascaras(cs, b, d).reasons = {"REVIEW_EVIDENCE_COMPARED"}
          PROVE  /\ cs[a.slot].source = "CATALOG"
                 /\ compareMascaras(cs, b, d).confidence = "HIGH" => cs[a.slot].review.quality = "HIGH"
      BY ONLY <1>1, <3>2, ReviewsDecideForTheReviewed
    <3> QED BY <3>1, <3>2
  <2>4. ASSUME NEW i \in DOMAIN answer.criteria, NEW o \in answer.criteria[i], o.confidence = "HIGH"
        PROVE  /\ cs[i].source = "CATALOG"
               /\ o.reason = "REVIEW_EVIDENCE_COMPARED" => cs[i].review.quality = "HIGH"
    <3>1. i \in DOMAIN cs /\ o \in Criteria(cs, b, d)[i]
      BY <1>2, <2>4 DEF Criteria
    <3> HIDE DEF cs, b, d
    <3> QED BY ONLY <1>1, <2>4, <3>1, CriteriaAreHonest
  <2> QED BY <2>2, <2>3, <2>4 DEF CertaintyIsEarned
<1>7. OrderDoesNotMatter
  <2>2. ASSUME NEW p \in [1 .. n -> 1 .. n], \A i, j \in 1 .. n : p[i] = p[j] => i = j
        PROVE  LET q == compareMascaras(Candidates([i \in 1 .. n |-> slots[p[i]]]), b, d) IN
               /\ q.reasons = a.reasons
               /\ a.slot = IF q.slot = NoSlot THEN NoSlot ELSE p[q.slot]
    <3>1. Reorders(p, n)
      BY <2>2 DEF Reorders
    <3>2. LET q == compareMascaras(Candidates([i \in 1 .. n |-> slots[p[i]]]), b, d) IN
          /\ q.reasons = compareMascaras(Candidates(slots), b, d).reasons
          /\ compareMascaras(Candidates(slots), b, d).slot = IF q.slot = NoSlot THEN NoSlot ELSE p[q.slot]
      <4> HIDE DEF slots, b, d
      <4>1. OfferedSlots(slots, n)
        BY DEF slots
      <4> QED BY ONLY <1>1, <3>1, <4>1, ReorderedSlots
    <3> QED BY <1>4, <3>2
  <2> DEFINE orders == {p \in [1 .. n -> 1 .. n] : \A i, j \in 1 .. n : p[i] = p[j] => i = j}
             reordered(p) == Candidates([i \in 1 .. n |-> slots[p[i]]])
  <2>3. ASSUME NEW p \in orders, NEW xs \in {reordered(p)}, NEW q \in {compareMascaras(xs, b, d)}
        PROVE  q.reasons = a.reasons /\ a.slot = IF q.slot = NoSlot THEN NoSlot ELSE p[q.slot]
    <3>1. p \in [1 .. n -> 1 .. n] /\ \A i, j \in 1 .. n : p[i] = p[j] => i = j
      BY <2>3
    <3>2. q = compareMascaras(Candidates([i \in 1 .. n |-> slots[p[i]]]), b, d)
      BY <2>3
    <3> HIDE DEF a, slots, b, d
    <3> QED BY <2>2, <3>1, <3>2
  <2> QED BY <2>3 DEF OrderDoesNotMatter
<1> QED BY <1>5, <1>6, <1>7 DEF ComparisonIsHonest

LEMMA ComparisonInvSuffices == ASSUME ComparisonInv PROVE ComparisonIsHonest
BY NothingIsClaimed, AnswersAreHonest DEF ComparisonInv

\* comparison.ts:540: of any two or three products, by any brief and dictionary: what is
\* recommended is the better fit, nothing users said makes it certain, and asking for the
\* products in another order gives the same answer.
THEOREM ComparisonIsAlwaysHonest == ComparisonSpec => []ComparisonIsHonest
<1>1. ComparisonInit => ComparisonInv
  BY ComparisonStartsWell
<1>2. ComparisonInv /\ [ComparisonNext]_comparisonVars => ComparisonInv'
  BY ComparisonInvIsInductive
<1>3. ComparisonInv => ComparisonIsHonest
  BY ComparisonInvSuffices
<1> QED BY <1>1, <1>2, <1>3, PTL DEF ComparisonSpec

-----------------------------------------------------------------------------
(* The benchmark. *)
\* A set of natural numbers has a least one: what takes the place of induction.
LEMMA LeastNumber ==
  ASSUME NEW T \in SUBSET Nat, T # {} PROVE \E x \in T : \A y \in T : x <= y
<1>1. PICK x \in T : \A y \in T : ~(<<y, x>> \in OpToRel(<, Nat))
  <2>1. IsWellFoundedOn(OpToRel(<, Nat), Nat)
    BY NatLessThanWellFounded
  <2> QED BY <2>1, WFMin, Zenon
<1>2. \A y \in T : ~(y < x)
  BY <1>1 DEF OpToRel
<1> QED BY <1>2

-----------------------------------------------------------------------------
(* parseInci ends: a label has finitely many ranges and finitely many      *)
(* tokens.                                                                 *)

\* The numbers of the ranges.
LEMMA RangesAreNumbered ==
  ASSUME NEW S, NEW s \in Seq(S)
  PROVE  \E m \in Nat : \E X : TokenRanges(s) \in [1 .. m -> X]
<1> DEFINE from == ContentStart(s)
           cuts == {i \in from .. Len(s) : Ends(s, i)}
           legal == {i \in from + 1 .. Len(s) : s[i] = "legal"}
           starts == {from} \cup legal \cup {i + 1 : i \in cuts}
           m == Cardinality(starts)
<1>1. from \in {1, 2} /\ Len(s) \in Nat
  BY DEF ContentStart
<1>2. m \in Nat
  <2>1. starts \in SUBSET (1 .. Len(s) + 2)
    <3>1. legal \subseteq 1 .. Len(s) + 2 /\ cuts \subseteq 1 .. Len(s)
      BY <1>1
    <3> HIDE DEF from, cuts, legal
    <3>2. {from} \subseteq 1 .. Len(s) + 2
      BY <1>1
    <3>3. \A i \in cuts : i + 1 \in 1 .. Len(s) + 2
      BY <1>1, <3>1
    <3> QED BY <3>1, <3>2, <3>3
  <2>2. IsFiniteSet(1 .. Len(s) + 2)
    <3>1. 1 \in Int /\ Len(s) + 2 \in Int
      BY <1>1
    <3> QED BY <3>1, FS_Interval
  <2> HIDE DEF starts
  <2> QED BY <2>1, <2>2, FS_Subset, FS_CardinalityType
<1>3. \E X : TokenRanges(s) \in [1 .. m -> X]
  <2> DEFINE X == {TokenRanges(s)[n] : n \in 1 .. m}
  <2>1. TokenRanges(s) \in [1 .. m -> X]
    BY DEF TokenRanges
  <2> QED BY <2>1
<1> HIDE DEF m
<1> QED BY <1>2, <1>3

\* What has been read after n ranges, as a function that defines itself.
Reads(f, s, r, m) == f = [n \in 0 .. m |-> IF n = 0 THEN Begin ELSE ReadRange(s, f[n - 1], r[n])]

LEMMA ReadingExists ==
  ASSUME NEW s, NEW r, NEW m \in Nat PROVE \E f : Reads(f, s, r, m)
<1> DEFINE T == {k \in Nat : ~\E f : Reads(f, s, r, k)}
<1>1. SUFFICES ASSUME T # {} PROVE FALSE
  OBVIOUS
<1>2. PICK k \in T : \A y \in T : k <= y
  <2>1. T \in SUBSET Nat
    OBVIOUS
  <2> HIDE DEF T
  <2> QED BY <1>1, <2>1, LeastNumber
<1>3. k # 0
  <2> DEFINE f == [n \in 0 .. 0 |-> Begin]
  <2>1. f = [n \in 0 .. 0 |-> IF n = 0 THEN Begin ELSE ReadRange(s, f[n - 1], r[n])]
    OBVIOUS
  <2>2. Reads(f, s, r, 0)
    BY <2>1 DEF Reads
  <2> HIDE DEF f
  <2> QED BY <2>2
<1>4. PICK f : Reads(f, s, r, k - 1)
  <2>1. k - 1 \in Nat /\ ~(k <= k - 1)
    BY <1>3
  <2> QED BY <1>2, <2>1
<1> DEFINE g == [n \in 0 .. k |-> IF n = k THEN ReadRange(s, f[k - 1], r[k]) ELSE f[n]]
<1>5. \A n \in 0 .. k : g[n] = IF n = 0 THEN Begin ELSE ReadRange(s, g[n - 1], r[n])
  <2> TAKE n \in 0 .. k
  <2>1. \A i \in 0 .. k - 1 : f[i] = IF i = 0 THEN Begin ELSE ReadRange(s, f[i - 1], r[i])
    BY <1>4 DEF Reads
  <2>2. CASE n = k
    <3>1. n - 1 \in 0 .. k /\ n - 1 # k
      BY <1>3, <2>2
    <3>2. g[n - 1] = f[k - 1]
      BY <2>2, <3>1
    <3> QED BY <1>3, <2>2, <3>2
  <2>3. CASE n # k
    <3>1. n \in 0 .. k - 1 /\ g[n] = f[n]
      BY <2>3
    <3>2. n # 0 => g[n - 1] = f[n - 1]
      BY <2>3
    <3> HIDE DEF g
    <3> QED BY <2>1, <3>1, <3>2
  <2> QED BY <2>2, <2>3
<1>6. Reads(g, s, r, k)
  <2>1. g = [n \in 0 .. k |-> g[n]]
    OBVIOUS
  <2> HIDE DEF g
  <2> QED BY <1>5, <2>1 DEF Reads
<1> HIDE DEF g
<1> QED BY <1>6

\* The token that a range adds, if it adds one.
Added(s, sofar, r) ==
  LET span == TrimSpan(r, sofar.ignored)
      marked == MarkedAt(s, span[1])
      ignored == IF marked THEN sofar.ignored \cup ConditionalClosing(s, span[1]) ELSE sofar.ignored
  IN Token(s, IF marked THEN TrimSpan(<<AfterMark(s, span[1]), span[2]>>, ignored) ELSE span,
           IF marked THEN "MAY_CONTAIN" ELSE sofar.presence)

LEMMA RangesAddTokens ==
  ASSUME NEW s, NEW sofar, NEW r
  PROVE  ReadRange(s, sofar, r).tokens \in {sofar.tokens, Append(sofar.tokens, Added(s, sofar, r))}
BY DEF ReadRange, Added

LEMMA TokensAreListed ==
  ASSUME NEW S, NEW s \in Seq(S) PROVE \E X : parseInci(s) \in Seq(X)
<1> DEFINE r == TokenRanges(s)
<1>0. PICK m \in Nat : \E Y : r \in [1 .. m -> Y]
  BY RangesAreNumbered
<1>1. PICK Y : r \in [1 .. m -> Y]
  BY <1>0
<1>2. Len(r) = m
  <2> HIDE DEF r
  <2>1. r \in Seq(Y)
    BY <1>1
  <2> QED BY <1>1, <2>1
<1> DEFINE f == CHOOSE f : Reads(f, s, r, m)
           tokens == f[m].tokens
<1>3. parseInci(s) = tokens
  BY <1>2 DEF parseInci, Reads
<1>4. Reads(f, s, r, m)
  <2> HIDE DEF r
  <2> QED BY ReadingExists
<1> HIDE DEF f, r
<1> DEFINE X == {Added(s, f[n - 1], r[n]) : n \in 1 .. m}
           T == {k \in 0 .. m : f[k].tokens \notin Seq(X)}
<1>5. T = {}
  <2> SUFFICES ASSUME T # {} PROVE FALSE
    OBVIOUS
  <2>1. PICK k \in T : \A y \in T : k <= y
    <3>1. T \in SUBSET Nat
      OBVIOUS
    <3> HIDE DEF T
    <3> QED BY <3>1, LeastNumber
  <2>2. k # 0
    <3>1. f[0].tokens = <<>>
      BY <1>4 DEF Reads, Begin
    <3>2. <<>> \in Seq(X)
      OBVIOUS
    <3>3. f[k].tokens \notin Seq(X)
      BY <2>1
    <3> HIDE DEF X
    <3> QED BY <3>1, <3>2, <3>3
  <2>3. k - 1 \in 0 .. m /\ f[k - 1].tokens \in Seq(X)
    <3>1. k - 1 \in 0 .. m /\ ~(k <= k - 1)
      BY <2>1, <2>2
    <3> HIDE DEF X
    <3> QED BY <2>1, <3>1
  <2>4. f[k] = ReadRange(s, f[k - 1], r[k])
    BY <1>4, <2>1, <2>2 DEF Reads
  <2>5. Added(s, f[k - 1], r[k]) \in X
    BY <2>1, <2>2
  <2>6. f[k].tokens \in {f[k - 1].tokens, Append(f[k - 1].tokens, Added(s, f[k - 1], r[k]))}
    BY <2>4, RangesAddTokens
  <2> HIDE DEF X
  <2>7. f[k].tokens \in Seq(X)
    <3> DEFINE before == f[k - 1].tokens
               t == Added(s, f[k - 1], r[k])
    <3>1. before \in Seq(X) /\ t \in X
      BY <2>3, <2>5
    <3> HIDE DEF before, t
    <3>2. Append(before, t) \in Seq(X)
      BY ONLY <3>1
    <3> QED BY <2>6, <3>1, <3>2 DEF before, t
  <2> QED BY <2>1, <2>7
<1>6. f[m].tokens \in Seq(X)
  <2>1. m \in 0 .. m
    OBVIOUS
  <2> HIDE DEF X
  <2> QED BY <1>5, <2>1
<1> HIDE DEF X
<1> QED BY <1>3, <1>6

-----------------------------------------------------------------------------
(* What parser and dictionary say of samples.                              *)

\* What is said of one component: a field of the record canonicalizeInci makes.
LEMMA DecisionsAreThree ==
  ASSUME NEW t, NEW d
  PROVE  Decision(t, d).kind \in {"RESOLVED", "UNRESOLVED", "AMBIGUOUS"}
BY DEF Decision, MatchDecision, NoDecision

\* What is said of a label.
Said(l, d) ==
  {[at |-> <<l, n>>, is |-> canonicalizeInci(parseInci(l), d)[n]] : n \in DOMAIN canonicalizeInci(parseInci(l), d)}

LEMMA ComponentsAre == ASSUME NEW labels, NEW d PROVE Components(labels, d) = UNION {Said(l, d) : l \in labels}
<1> DEFINE c(l) == canonicalizeInci(parseInci(l), d)
           seen == {[label |-> l, tokens |-> c(l)] : l \in labels}
           of(s) == {[at |-> <<s.label, n>>, is |-> s.tokens[n]] : n \in DOMAIN s.tokens}
<1>1. Components(labels, d) = UNION {of(s) : s \in seen}
  BY DEF Components
<1>2. \A l : of([label |-> l, tokens |-> c(l)]) = Said(l, d)
  BY DEF Said
<1> HIDE DEF c, of
<1>3. {of(s) : s \in seen} = {Said(l, d) : l \in labels}
  <2>1. ASSUME NEW s \in seen PROVE of(s) \in {Said(l, d) : l \in labels}
    BY <1>2
  <2>2. ASSUME NEW l \in labels PROVE Said(l, d) \in {of(s) : s \in seen}
    <3>1. [label |-> l, tokens |-> c(l)] \in seen
      OBVIOUS
    <3> HIDE DEF seen
    <3> QED BY <1>2, <3>1
  <2> QED BY <2>1, <2>2
<1> QED BY <1>1, <1>3

LEMMA ComponentsAreTold ==
  ASSUME NEW labels, NEW d, NEW x \in Components(labels, d)
  PROVE  /\ x.is.decision.kind \in {"RESOLVED", "UNRESOLVED", "AMBIGUOUS"}
         /\ \A y \in Components(labels, d) : y.at = x.at => y = x
<1>1. ASSUME NEW y \in Components(labels, d)
      PROVE  \E l \in labels : \E n \in DOMAIN parseInci(l) :
               y = [at |-> <<l, n>>, is |-> canonicalizeInci(parseInci(l), d)[n]]
  BY <1>1, ComponentsAre DEF Said, canonicalizeInci
<1>2. PICK l \in labels : \E n \in DOMAIN parseInci(l) :
               x = [at |-> <<l, n>>, is |-> canonicalizeInci(parseInci(l), d)[n]]
  BY <1>1
<1>3. PICK n \in DOMAIN parseInci(l) :
               x = [at |-> <<l, n>>, is |-> canonicalizeInci(parseInci(l), d)[n]]
  BY <1>2
<1>4. x.is.decision.kind \in {"RESOLVED", "UNRESOLVED", "AMBIGUOUS"}
  <2>1. x.is.decision = Decision(parseInci(l)[n], d)
    BY <1>3 DEF canonicalizeInci
  <2> QED BY <2>1, DecisionsAreThree
<1>5. ASSUME NEW y \in Components(labels, d), y.at = x.at PROVE y = x
  <2>1. PICK k \in labels : \E i \in DOMAIN parseInci(k) :
               y = [at |-> <<k, i>>, is |-> canonicalizeInci(parseInci(k), d)[i]]
    BY <1>1
  <2>2. PICK i \in DOMAIN parseInci(k) :
               y = [at |-> <<k, i>>, is |-> canonicalizeInci(parseInci(k), d)[i]]
    BY <2>1
  <2>3. k = l /\ i = n
    BY <1>3, <1>5, <2>2
  <2> QED BY <1>3, <2>2, <2>3
<1> QED BY <1>4, <1>5

LEMMA ComponentsAreFinite ==
  ASSUME NEW S, NEW labels \in SUBSET Seq(S), IsFiniteSet(labels), NEW d
  PROVE  IsFiniteSet(Components(labels, d))
<1>1. ASSUME NEW l \in labels PROVE IsFiniteSet(Said(l, d))
  <2>1. PICK X : parseInci(l) \in Seq(X)
    BY TokensAreListed
  <2> DEFINE m == Len(parseInci(l))
             f == [n \in 1 .. m |-> [at |-> <<l, n>>, is |-> canonicalizeInci(parseInci(l), d)[n]]]
  <2>2. m \in Nat /\ DOMAIN canonicalizeInci(parseInci(l), d) = 1 .. m
    BY <2>1 DEF canonicalizeInci
  <2>3. Said(l, d) = {f[n] : n \in 1 .. m}
    BY <2>2 DEF Said
  <2> HIDE DEF f
  <2>4. f \in Surjection(1 .. m, Said(l, d))
    <3>1. f \in [1 .. m -> Said(l, d)]
      BY <2>3 DEF f
    <3> QED BY <2>3, <3>1 DEF Surjection
  <2>5. IsFiniteSet(1 .. m)
    <3>1. 1 \in Int /\ m \in Int
      BY <2>2
    <3> HIDE DEF m
    <3> QED BY <3>1, FS_Interval
  <2> HIDE DEF m
  <2> QED BY <2>4, <2>5, FS_Surjection
<1> DEFINE g == [l \in labels |-> Said(l, d)]
           all == {Said(l, d) : l \in labels}
<1>2. g \in Surjection(labels, all)
  BY DEF Surjection
<1>3. IsFiniteSet(all)
  <2> HIDE DEF g, all
  <2> QED BY <1>2, FS_Surjection
<1>4. \A T \in all : IsFiniteSet(T)
  BY <1>1
<1>5. IsFiniteSet(UNION all)
  <2> HIDE DEF all
  <2> QED BY <1>3, <1>4, FS_UNION
<1> QED BY <1>5, ComponentsAre

-----------------------------------------------------------------------------
(* The gate.                                                               *)

\* A corpus as the tool makes it and people leave it.
CorpusOK(c) ==
  /\ DOMAIN c = {"labels", "anchors", "dictionary", "reviewer"}
  /\ IsFiniteSet(c.labels) /\ c.labels \subseteq Seq(Lexemes)
  /\ IsFiniteSet(c.anchors) /\ c.reviewer \in {"NOBODY", "ANNOTATOR", "SOMEBODY"}

\* The anchors of a valid corpus are told apart by their coordinates, and so are components:
\* where neither goes without the other there are as many of these as of those.
LEMMA JudgedOnce ==
  ASSUME NEW anchors, NEW said, IsFiniteSet(anchors), IsFiniteSet(said),
         \A a, b \in anchors : a.at = b.at => a = b,
         \A x, y \in said : x.at = y.at => x = y,
         \A x \in said : \E a \in anchors : a.at = x.at,
         NEW A \in SUBSET anchors, NEW X \in SUBSET said,
         \A a \in A : \E x \in X : x.at = a.at
  PROVE  /\ \A x \in said : Cardinality({a \in anchors : a.at = x.at}) = 1
         /\ (\A a \in anchors : \E x \in said : x.at = a.at) => Cardinality(said) = Cardinality(anchors)
         /\ Cardinality(A) <= Cardinality(X)
<1>1. ASSUME NEW x \in said PROVE Cardinality({a \in anchors : a.at = x.at}) = 1
  <2>1. PICK a \in anchors : a.at = x.at
    OBVIOUS
  <2>2. {b \in anchors : b.at = x.at} = {a}
    BY <2>1
  <2> QED BY <2>2, FS_Singleton
<1>2. ASSUME \A a \in anchors : \E x \in said : x.at = a.at PROVE Cardinality(said) = Cardinality(anchors)
  <2> DEFINE f == [a \in anchors |-> CHOOSE x \in said : x.at = a.at]
  <2>1. \A a \in anchors : f[a] \in said /\ f[a].at = a.at
    BY <1>2
  <2>2. f \in [anchors -> said]
    BY <2>1
  <2> HIDE DEF f
  <2>3. \A a, b \in anchors : f[a] = f[b] => a = b
    BY <2>1
  <2>4. \A x \in said : \E a \in anchors : f[a] = x
    <3> TAKE x \in said
    <3>1. PICK a \in anchors : a.at = x.at
      OBVIOUS
    <3>2. f[a] = x
      BY <2>1, <3>1
    <3> QED BY <3>2
  <2>5. f \in Bijection(anchors, said)
    BY <2>2, <2>3, <2>4 DEF Bijection, Injection, IsInjective, Surjection
  <2>6. ExistsBijection(anchors, said)
    BY <2>5 DEF ExistsBijection
  <2> QED BY <2>6, FS_Bijection
<1>3. Cardinality(A) <= Cardinality(X)
  <2> DEFINE f == [a \in A |-> CHOOSE x \in X : x.at = a.at]
  <2>1. \A a \in A : f[a] \in X /\ f[a].at = a.at
    OBVIOUS
  <2>2. f \in [A -> X]
    BY <2>1
  <2> HIDE DEF f
  <2>3. \A a, b \in A : f[a] = f[b] => a = b
    BY <2>1
  <2>4. f \in Injection(A, X)
    BY <2>2, <2>3 DEF Injection, IsInjective
  <2>5. IsFiniteSet(X)
    BY FS_Subset
  <2> QED BY <2>4, <2>5, FS_Injection
<1> QED BY <1>1, <1>2, <1>3

\* More right answers are no smaller a share.
LEMMA SharesGrow ==
  ASSUME NEW part \in Nat, NEW more \in Nat, part <= more, NEW whole \in Nat, AtLeast(part, whole)
  PROVE  AtLeast(more, whole)
<1>1. MinPercent * whole \in Int
  BY BenchmarkAssumption
<1>2. whole > 0 /\ 100 * part >= MinPercent * whole
  BY DEF AtLeast
<1> DEFINE limit == MinPercent * whole
<1>3. 100 * more >= limit
  <2>1. limit \in Int /\ 100 * part >= limit
    BY <1>1, <1>2
  <2> HIDE DEF limit
  <2> QED BY <2>1
<1> QED BY <1>2, <1>3 DEF AtLeast

\* An anchor that does not fail is right about its component.
LEMMA PassedIsRight ==
  ASSUME NEW is, NEW e, Expected(is) = e, is.decision.kind \in {"RESOLVED", "UNRESOLVED"}
  PROVE  /\ e.presence = is.presence /\ e.lookup = is.lookup
         /\ IF e.resolved = {} THEN is.decision.kind = "UNRESOLVED"
            ELSE is.decision.kind = "RESOLVED" /\ e.resolved = {is.decision.id}
BY DEF Expected

LEMMA OpenGatesAreEarned ==
  ASSUME CorpusOK(corpus) PROVE GateIsEarned
<1> DEFINE c == corpus
           said == Components(c.labels, entries)
           judged(x) == {a \in c.anchors : a.at = x.at}
           right(x) == \E a \in judged(x) :
             /\ a.expected.presence = x.is.presence /\ a.expected.lookup = x.is.lookup
             /\ IF a.expected.resolved = {} THEN x.is.decision.kind = "UNRESOLVED"
                ELSE x.is.decision.kind = "RESOLVED" /\ a.expected.resolved = {x.is.decision.id}
           failed == Failed(c, said)
           passed == c.anchors \ failed
           correct == {x \in said : right(x)}
<1> SUFFICES ASSUME GatePassed(corpus, entries)
             PROVE  /\ corpus.reviewer = "SOMEBODY"
                    /\ \A x \in said : Cardinality(judged(x)) = 1
                    /\ \A x \in said : x.is.decision.kind = "RESOLVED" =>
                         \A a \in judged(x) : a.expected.resolved # {}
                    /\ AtLeast(Cardinality(correct), Cardinality(said))
  BY DEF GateIsEarned
<1>1. /\ IsValid(c, entries) /\ Unexpected(c, said) = {} /\ \A a \in c.anchors : At(said, a.at) # {}
      /\ AtLeast(Cardinality(c.anchors) - Cardinality(failed), Cardinality(c.anchors))
      /\ FalseResolutions(c, said) = {}
  BY DEF GatePassed
<1>2. IsFiniteSet(said) /\ IsFiniteSet(c.anchors)
  BY ComponentsAreFinite DEF CorpusOK
<1>3. /\ \A x \in said : x.is.decision.kind \in {"RESOLVED", "UNRESOLVED", "AMBIGUOUS"}
      /\ \A x, y \in said : x.at = y.at => x = y
  BY ComponentsAreTold
<1> HIDE DEF said
<1>4. \A a, b \in c.anchors : a.at = b.at => a = b
  BY <1>1 DEF IsValid
<1>5. \A x \in said : \E a \in c.anchors : a.at = x.at
  BY <1>1 DEF Unexpected
<1>6. \A a \in c.anchors : \E x \in said : x.at = a.at
  BY <1>1 DEF At
<1>7. failed \in SUBSET c.anchors /\ passed \in SUBSET c.anchors /\ correct \in SUBSET said
  BY DEF Failed
<1>8. ASSUME NEW a \in passed PROVE \E x \in correct : x.at = a.at
  <2>1. PICK x \in said : x.at = a.at
    BY <1>6, <1>8
  <2>2. x.is \in At(said, a.at)
    BY <2>1 DEF At
  <2>3. Expected(x.is) = a.expected /\ x.is.decision.kind # "AMBIGUOUS"
    BY <1>8, <2>2 DEF Failed
  <2>4. a \in judged(x)
    BY <1>8, <2>1
  <2>5. right(x)
    BY <1>3, <2>3, <2>4, PassedIsRight
  <2> QED BY <2>1, <2>5
<1>9. /\ \A x \in said : Cardinality(judged(x)) = 1
      /\ Cardinality(said) = Cardinality(c.anchors)
      /\ Cardinality(passed) <= Cardinality(correct)
  <2> HIDE DEF passed, correct
  <2> QED BY <1>2, <1>3, <1>4, <1>5, <1>6, <1>7, <1>8, JudgedOnce
<1>10. corpus.reviewer = "SOMEBODY"
  BY <1>1 DEF IsValid, CorpusOK
<1>11. ASSUME NEW x \in said, x.is.decision.kind = "RESOLVED", NEW a \in judged(x)
       PROVE  a.expected.resolved # {}
  <2>1. x.is \in At(said, a.at) /\ a \in c.anchors
    BY <1>11 DEF At
  <2> QED BY <1>1, <1>11, <2>1 DEF FalseResolutions
<1>12. AtLeast(Cardinality(correct), Cardinality(said))
  <2>1. Cardinality(passed) = Cardinality(c.anchors) - Cardinality(failed)
    <3>1. c.anchors \cap failed = failed
      BY <1>7
    <3> HIDE DEF failed
    <3> QED BY <1>2, <3>1, FS_Difference
  <2>2. IsFiniteSet(passed) /\ IsFiniteSet(correct)
    <3> HIDE DEF passed, correct
    <3> QED BY <1>2, <1>7, FS_Subset
  <2> HIDE DEF passed, correct, failed
  <2>3. Cardinality(passed) \in Nat /\ Cardinality(correct) \in Nat /\ Cardinality(c.anchors) \in Nat
    BY <1>2, <2>2, FS_CardinalityType
  <2>4. AtLeast(Cardinality(passed), Cardinality(c.anchors))
    BY <1>1, <2>1
  <2> QED BY <1>9, <2>3, <2>4, SharesGrow
<1> QED BY <1>9, <1>10, <1>11, <1>12

-----------------------------------------------------------------------------
(* The corpus, from the draft to whatever people make of it.               *)

LEMMA CorpusStarts == BenchmarkInit => CorpusOK(corpus)
BY FS_EmptySet DEF BenchmarkInit, NoCorpus, CorpusOK

LEMMA CorpusStaysOK ==
  ASSUME CorpusOK(corpus), [BenchmarkNext]_benchmarkVars PROVE CorpusOK(corpus)'
<1>1. CASE UNCHANGED corpus
  BY <1>1 DEF CorpusOK
<1>2. ASSUME Draft PROVE CorpusOK(corpus)'
  <2>1. PICK labels \in LabelsOf :
          corpus' = buildCorpus(labels, buildDictionary(labels), Components(labels, buildDictionary(labels)))
    BY <1>2 DEF Draft
  <2> DEFINE d == buildDictionary(labels)
             said == Components(labels, d)
             f == [c \in said |-> [copy |-> 0, at |-> c.at, expected |-> Expected(c.is)]]
  <2>2. IsFiniteSet(labels) /\ labels \in SUBSET Seq(Lexemes)
    BY BenchmarkAssumption
  <2>3. IsFiniteSet(said)
    BY <2>2, ComponentsAreFinite
  <2> HIDE DEF said
  <2>4. f \in Surjection(said, buildAnchors(said))
    BY DEF buildAnchors, Surjection
  <2>5. IsFiniteSet(buildAnchors(said))
    <3> HIDE DEF f
    <3> QED BY <2>3, <2>4, FS_Surjection
  <2>6. corpus' = [labels |-> labels, anchors |-> buildAnchors(said), dictionary |-> d, reviewer |-> "NOBODY"]
    BY <2>1 DEF buildCorpus, said
  <2> HIDE DEF d
  <2> QED BY <2>2, <2>5, <2>6 DEF CorpusOK
<1>3. ASSUME NEW anchors, IsFiniteSet(anchors), Edit(anchors) PROVE CorpusOK(corpus)'
  BY <1>3 DEF Edit, CorpusOK
<1>4. ASSUME Correct PROVE CorpusOK(corpus)'
  <2>1. IsFiniteSet(corpus.anchors)
    BY DEF CorpusOK
  <2>2. \A x : IsFiniteSet(corpus.anchors \ {x}) /\ IsFiniteSet(corpus.anchors \cup {x})
    BY <2>1, FS_AddElement, FS_RemoveElement
  <2>3. \A x, y : IsFiniteSet((corpus.anchors \ {x}) \cup {y})
    BY <2>2, FS_AddElement
  <2> QED BY <1>3, <1>4, <2>2, <2>3 DEF Correct
<1>5. ASSUME Sign PROVE CorpusOK(corpus)'
  BY <1>5 DEF Sign, CorpusOK
<1>6. ASSUME Republish PROVE CorpusOK(corpus)'
  BY <1>6 DEF Republish, CorpusOK
<1> QED BY <1>1, <1>2, <1>4, <1>5, <1>6 DEF BenchmarkNext, benchmarkVars

\* inci-benchmark.ts:337: whatever labels are drawn and however the corpus is corrected, an open
\* gate is evidence.
THEOREM OpenGateIsAlwaysEarned == BenchmarkSpec => []GateIsEarned
<1>1. BenchmarkInit => CorpusOK(corpus)
  BY CorpusStarts
<1>2. CorpusOK(corpus) /\ [BenchmarkNext]_benchmarkVars => CorpusOK(corpus)'
  BY CorpusStaysOK
<1>3. CorpusOK(corpus) => GateIsEarned
  BY OpenGatesAreEarned
<1> QED BY <1>1, <1>2, <1>3, PTL DEF BenchmarkSpec

-----------------------------------------------------------------------------
(* A label is read once.  Three steps: what the brackets of a label are,    *)
(* what its ranges are, and what reading one range adds to the tokens.     *)
(* Then every token comes from a range of its own.                         *)

Opening == {"(", "["}
Closers == {")", "]"}

\* The brackets among the first i lexemes, for each i up to m: the function in Brackets.
BracketsTo(f, s, m) ==
  f = [i \in 0 .. m |->
        IF i = 0 THEN [stack |-> <<>>, pairs |-> {}]
        ELSE LET b == f[i - 1]  top == Len(b.stack) IN
             IF s[i] \in DOMAIN Closing THEN [b EXCEPT !.stack = Append(@, i)]
             ELSE IF top > 0 /\ s[i] = Closing[s[b.stack[top]]]
             THEN [stack |-> SubSeq(b.stack, 1, top - 1), pairs |-> b.pairs \cup {<<b.stack[top], i>>}]
             ELSE b]

\* What one lexeme more makes of them.
Bracket(s, i, b) ==
  LET top == Len(b.stack) IN
  IF s[i] \in DOMAIN Closing THEN [b EXCEPT !.stack = Append(@, i)]
  ELSE IF top > 0 /\ s[i] = Closing[s[b.stack[top]]]
  THEN [stack |-> SubSeq(b.stack, 1, top - 1), pairs |-> b.pairs \cup {<<b.stack[top], i>>}]
  ELSE b

LEMMA BracketsExist ==
  ASSUME NEW s, NEW m \in Nat PROVE \E f : BracketsTo(f, s, m)
<1> DEFINE T == {k \in Nat : ~\E f : BracketsTo(f, s, k)}
<1>1. SUFFICES ASSUME T # {} PROVE FALSE
  OBVIOUS
<1>2. PICK k \in T : \A y \in T : k <= y
  <2>1. T \in SUBSET Nat
    OBVIOUS
  <2> HIDE DEF T
  <2> QED BY <1>1, <2>1, LeastNumber
<1> DEFINE first == [stack |-> <<>>, pairs |-> {}]
<1>3. k # 0
  <2> DEFINE f == [n \in 0 .. 0 |-> first]
  <2>1. BracketsTo(f, s, 0)
    BY DEF BracketsTo
  <2> HIDE DEF f
  <2> QED BY <2>1
<1>4. PICK f : BracketsTo(f, s, k - 1)
  <2>1. k - 1 \in Nat /\ ~(k <= k - 1)
    BY <1>3
  <2> QED BY <1>2, <2>1
<1> DEFINE g == [n \in 0 .. k |-> IF n = k THEN Bracket(s, k, f[k - 1]) ELSE f[n]]
<1>5. \A n \in 0 .. k : g[n] = IF n = 0 THEN first ELSE Bracket(s, n, g[n - 1])
  <2> TAKE n \in 0 .. k
  <2>1. \A i \in 0 .. k - 1 : f[i] = IF i = 0 THEN first ELSE Bracket(s, i, f[i - 1])
    BY <1>4 DEF BracketsTo, Bracket
  <2> HIDE DEF first
  <2>2. CASE n = k
    <3>1. n - 1 \in 0 .. k /\ n - 1 # k
      BY <1>3, <2>2
    <3>2. g[n - 1] = f[k - 1]
      BY <2>2, <3>1
    <3> QED BY <1>3, <2>2, <3>2
  <2>3. CASE n # k
    <3>1. n \in 0 .. k - 1 /\ g[n] = f[n]
      BY <2>3
    <3>2. n # 0 => g[n - 1] = f[n - 1]
      BY <2>3
    <3> HIDE DEF g
    <3> QED BY <2>1, <3>1, <3>2
  <2> QED BY <2>2, <2>3
<1>6. BracketsTo(g, s, k)
  <2>1. g = [n \in 0 .. k |-> g[n]]
    OBVIOUS
  <2> HIDE DEF g
  <2>2. g = [n \in 0 .. k |-> IF n = 0 THEN first ELSE Bracket(s, n, g[n - 1])]
    BY <1>5, <2>1
  <2> QED BY <2>2 DEF BracketsTo, Bracket
<1> HIDE DEF g
<1>7. k \in T
  BY <1>2
<1> QED BY <1>6, <1>7

\* What is open is open, and what is paired is a bracket and one that closes it, which closes
\* no other.
Paired(s, b, i) ==
  /\ b \in [stack : Seq(1 .. i), pairs : SUBSET ((1 .. i) \X (1 .. i))]
  /\ \A n \in 1 .. Len(b.stack) : s[b.stack[n]] \in Opening
  /\ \A p \in b.pairs : p[1] < p[2] /\ s[p[1]] \in Opening /\ s[p[2]] \in Closers
  /\ \A p, q \in b.pairs : p[2] = q[2] => p = q

LEMMA FrontIs ==
  ASSUME NEW S, NEW st \in Seq(S), NEW n \in 1 .. Len(st)
  PROVE  /\ SubSeq(st, 1, n - 1) \in Seq(S) /\ Len(SubSeq(st, 1, n - 1)) = n - 1
         /\ \A k \in 1 .. n - 1 : SubSeq(st, 1, n - 1)[k] = st[k]
OBVIOUS

LEMMA PairedStays ==
  ASSUME NEW s, NEW i \in Nat, i # 0, NEW b, Paired(s, b, i - 1) PROVE Paired(s, Bracket(s, i, b), i)
<1> DEFINE top == Len(b.stack)
           B == [stack : Seq(1 .. i), pairs : SUBSET ((1 .. i) \X (1 .. i))]
<1>1. /\ b.stack \in Seq(1 .. i) /\ b.pairs \in SUBSET ((1 .. i) \X (1 .. i)) /\ b \in B
      /\ \A n \in 1 .. top : b.stack[n] \in 1 .. i - 1
      /\ \A p \in b.pairs : p[2] \in 1 .. i - 1
  <2>1. b.stack \in Seq(1 .. i - 1) /\ b.pairs \in SUBSET ((1 .. i - 1) \X (1 .. i - 1))
        /\ b = [stack |-> b.stack, pairs |-> b.pairs]
    BY DEF Paired
  <2>2. 1 .. i - 1 \subseteq 1 .. i
    OBVIOUS
  <2>3. b.stack \in Seq(1 .. i) /\ \A n \in 1 .. top : b.stack[n] \in 1 .. i - 1
    BY <2>1, <2>2
  <2>4. b.pairs \in SUBSET ((1 .. i) \X (1 .. i)) /\ \A p \in b.pairs : p[2] \in 1 .. i - 1
    BY <2>1, <2>2
  <2> QED BY <2>1, <2>3, <2>4
<1>2. /\ \A n \in 1 .. top : s[b.stack[n]] \in Opening
      /\ \A p \in b.pairs : p[1] < p[2] /\ s[p[1]] \in Opening /\ s[p[2]] \in Closers
      /\ \A p, q \in b.pairs : p[2] = q[2] => p = q
  BY DEF Paired
<1>3. DOMAIN Closing = Opening /\ \A o \in Opening : Closing[o] \in Closers
  BY DEF Closing, Opening, Closers
<1>4. i \in 1 .. i /\ ~(i \in 1 .. i - 1) /\ top \in Nat
  BY <1>1
<1>5. CASE s[i] \in DOMAIN Closing
  <2> DEFINE new == Append(b.stack, i)
  <2>1. Bracket(s, i, b) = [b EXCEPT !.stack = new]
    BY <1>5 DEF Bracket
  <2>2. new \in Seq(1 .. i) /\ Len(new) = top + 1 /\ new[top + 1] = i /\ \A n \in 1 .. top : new[n] = b.stack[n]
    BY <1>1, <1>4
  <2> HIDE DEF new, top
  <2>3. \A n \in 1 .. top + 1 : n \in 1 .. top \/ n = top + 1
    BY <1>4
  <2>4. \A n \in 1 .. Len(new) : s[new[n]] \in Opening
    BY <1>2, <1>3, <1>5, <2>2, <2>3
  <2>5. /\ Bracket(s, i, b) \in B
        /\ Bracket(s, i, b).stack = new /\ Bracket(s, i, b).pairs = b.pairs
    BY <1>1, <2>1, <2>2
  <2> QED BY <1>2, <2>4, <2>5 DEF Paired
<1>6. CASE s[i] \notin DOMAIN Closing /\ top > 0 /\ s[i] = Closing[s[b.stack[top]]]
  <2> DEFINE new == SubSeq(b.stack, 1, top - 1)
             p0 == <<b.stack[top], i>>
  <2>1. Bracket(s, i, b) = [stack |-> new, pairs |-> b.pairs \cup {p0}]
    BY <1>6 DEF Bracket
  <2>2. new \in Seq(1 .. i) /\ Len(new) = top - 1 /\ \A n \in 1 .. top - 1 : new[n] = b.stack[n]
    <3>1. PICK st : st = b.stack
      OBVIOUS
    <3>2. st \in Seq(1 .. i) /\ Len(st) \in 1 .. Len(st)
      BY <1>1, <1>4, <1>6, <3>1
    <3>3. /\ SubSeq(st, 1, Len(st) - 1) \in Seq(1 .. i) /\ Len(SubSeq(st, 1, Len(st) - 1)) = Len(st) - 1
          /\ \A n \in 1 .. Len(st) - 1 : SubSeq(st, 1, Len(st) - 1)[n] = st[n]
      BY <3>2, FrontIs
    <3> QED BY <3>1, <3>3
  <2>3. top \in 1 .. top
    BY <1>4, <1>6
  <2>4. /\ p0 \in (1 .. i) \X (1 .. i) /\ p0[1] < p0[2] /\ p0[2] = i
        /\ s[p0[1]] \in Opening /\ s[p0[2]] \in Closers
    <3>1. b.stack[top] \in 1 .. i - 1 /\ s[b.stack[top]] \in Opening
      BY <1>1, <1>2, <2>3
    <3>2. s[i] \in Closers
      BY <1>3, <1>6, <3>1
    <3> QED BY <3>1, <3>2
  <2> HIDE DEF new, p0
  <2>5. \A n \in 1 .. Len(new) : s[new[n]] \in Opening
    BY <1>2, <1>4, <2>2
  <2>6. \A p \in b.pairs \cup {p0} : p[1] < p[2] /\ s[p[1]] \in Opening /\ s[p[2]] \in Closers
    BY <1>2, <2>4
  <2>7. \A p, q \in b.pairs \cup {p0} : p[2] = q[2] => p = q
    BY <1>1, <1>2, <1>4, <2>4
  <2>8. b.pairs \cup {p0} \in SUBSET ((1 .. i) \X (1 .. i))
    BY <1>1, <2>4
  <2> QED BY <2>1, <2>2, <2>5, <2>6, <2>7, <2>8 DEF Paired
<1>7. CASE s[i] \notin DOMAIN Closing /\ ~(top > 0 /\ s[i] = Closing[s[b.stack[top]]])
  <2>1. Bracket(s, i, b) = b
    BY <1>7 DEF Bracket
  <2> QED BY <1>1, <1>2, <2>1 DEF Paired
<1> QED BY <1>5, <1>6, <1>7

LEMMA PairsAreBrackets ==
  ASSUME NEW S, NEW s \in Seq(S)
  PROVE  /\ \A p \in Brackets(s).pairs :
              /\ p = <<p[1], p[2]>> /\ p[1] \in 1 .. Len(s) /\ p[2] \in 1 .. Len(s) /\ p[1] < p[2]
              /\ s[p[1]] \in Opening /\ s[p[2]] \in Closers
         /\ \A p, q \in Brackets(s).pairs : p[2] = q[2] => p = q
<1> DEFINE m == Len(s)
           f == CHOOSE f : BracketsTo(f, s, m)
           T == {k \in 0 .. m : ~Paired(s, f[k], k)}
<1>1. m \in Nat /\ Brackets(s) = f[m]
  BY DEF Brackets, BracketsTo
<1>2. BracketsTo(f, s, m)
  BY <1>1, BracketsExist
<1> HIDE DEF f, m
<1>3. \A n \in 0 .. m : f[n] = IF n = 0 THEN [stack |-> <<>>, pairs |-> {}] ELSE Bracket(s, n, f[n - 1])
  BY <1>2 DEF BracketsTo, Bracket
<1>4. T = {}
  <2>1. SUFFICES ASSUME T # {} PROVE FALSE
    OBVIOUS
  <2>2. PICK k \in T : \A y \in T : k <= y
    <3>1. T \in SUBSET Nat
      BY <1>1
    <3> HIDE DEF T
    <3> QED BY <2>1, <3>1, LeastNumber
  <2>3. k \in 0 .. m /\ ~Paired(s, f[k], k)
    BY <2>2
  <2>4. k # 0
    <3>1. ASSUME k = 0 PROVE Paired(s, f[k], k)
      <4>1. f[k] = [stack |-> <<>>, pairs |-> {}]
        BY <1>3, <2>3, <3>1
      <4> QED BY <4>1 DEF Paired
    <3> QED BY <2>3, <3>1
  <2>5. k - 1 \in 0 .. m /\ ~(k <= k - 1) /\ k \in Nat
    BY <1>1, <2>3, <2>4
  <2>6. Paired(s, f[k - 1], k - 1)
    BY <2>2, <2>5
  <2>7. f[k] = Bracket(s, k, f[k - 1])
    BY <1>3, <2>3, <2>4
  <2> QED BY <2>3, <2>4, <2>5, <2>6, <2>7, PairedStays
<1>5. Paired(s, Brackets(s), m)
  <2>1. m \in 0 .. m
    BY <1>1
  <2> QED BY <1>1, <1>4, <2>1
<1>6. Brackets(s).pairs \in SUBSET ((1 .. m) \X (1 .. m))
  BY <1>5 DEF Paired
<1>7. \A p \in Brackets(s).pairs : p = <<p[1], p[2]>> /\ p[1] \in 1 .. m /\ p[2] \in 1 .. m
  BY <1>6
<1> QED BY <1>5, <1>7 DEF Paired, m

-----------------------------------------------------------------------------
(* The ranges of a label.                                                  *)

LEMMA MinIs ==
  ASSUME NEW T \in SUBSET Nat, T # {} PROVE Min(T) \in T /\ \A y \in T : Min(T) <= y
BY LeastNumber DEF Min

LEMMA MaxIs ==
  ASSUME NEW n \in Nat, NEW T \in SUBSET (0 .. n), T # {} PROVE Max(T) \in T /\ \A y \in T : y <= Max(T)
<1> DEFINE D == {n - x : x \in T}
<1>1. D \in SUBSET Nat /\ D # {}
  <2>1. \A x \in 0 .. n : n - x \in Nat
    OBVIOUS
  <2>2. PICK x \in T : TRUE
    OBVIOUS
  <2>3. n - x \in D
    OBVIOUS
  <2> QED BY <2>1, <2>3
<1>2. PICK d \in D : \A y \in D : d <= y
  <2> HIDE DEF D
  <2> QED BY <1>1, LeastNumber
<1>3. PICK x \in T : d = n - x
  BY <1>2
<1>4. \A y \in T : y <= x
  <2> TAKE y \in T
  <2>1. n - y \in D
    OBVIOUS
  <2>2. n - x <= n - y
    BY <1>2, <1>3, <2>1
  <2>3. x \in 0 .. n /\ y \in 0 .. n
    OBVIOUS
  <2> QED BY <2>2, <2>3
<1>5. \A y \in T : x >= y
  BY <1>4
<1>6. Max(T) \in T /\ \A y \in T : Max(T) >= y
  BY <1>5 DEF Max
<1>7. \A y \in T : y \in 0 .. n
  OBVIOUS
<1> QED BY <1>6, <1>7

\* Numbers can be numbered in their order.
LEMMA Numbered ==
  ASSUME NEW A \in SUBSET Nat, IsFiniteSet(A), NEW at,
         at = [n \in 1 .. Cardinality(A) |-> CHOOSE f \in A : Cardinality({g \in A : g <= f}) = n]
  PROVE  /\ \A n \in 1 .. Cardinality(A) : at[n] \in A
         /\ \A n, k \in 1 .. Cardinality(A) : n < k => at[n] < at[k]
         /\ \A f \in A : \E n \in 1 .. Cardinality(A) : at[n] = f
<1> DEFINE below(f) == {g \in A : g <= f}
           m == Cardinality(A)
           place == [f \in A |-> Cardinality(below(f))]
<1>1. m \in Nat
  BY FS_CardinalityType
<1>2. ASSUME NEW f \in A PROVE IsFiniteSet(below(f)) /\ Cardinality(below(f)) \in 1 .. m
  <2>1. below(f) \subseteq A
    OBVIOUS
  <2>2. IsFiniteSet(below(f)) /\ Cardinality(below(f)) \in Nat /\ Cardinality(below(f)) <= m
    BY <2>1, FS_Subset, FS_CardinalityType
  <2>3. below(f) # {}
    <3>1. f \in below(f)
      OBVIOUS
    <3> QED BY <3>1
  <2>4. Cardinality(below(f)) # 0
    BY <2>2, <2>3, FS_EmptySet
  <2> QED BY <1>1, <2>2, <2>4
<1>3. ASSUME NEW f \in A, NEW g \in A, f < g PROVE Cardinality(below(f)) < Cardinality(below(g))
  <2>1. below(f) \subseteq below(g) /\ g \in below(g) /\ g \notin below(f)
    <3>1. \A x \in A : x \in Nat
      OBVIOUS
    <3>2. ASSUME NEW x \in A, x <= f PROVE x <= g
      BY <1>3, <3>1, <3>2
    <3>3. g <= g /\ ~(g <= f)
      BY <1>3, <3>1
    <3> QED BY <3>2, <3>3
  <2>2. below(f) # below(g)
    BY <2>1
  <2>3. Cardinality(below(f)) <= Cardinality(below(g)) /\ (Cardinality(below(f)) = Cardinality(below(g)) => below(f) = below(g))
    BY <1>2, <2>1, FS_Subset
  <2>4. Cardinality(below(f)) \in 1 .. m /\ Cardinality(below(g)) \in 1 .. m
    BY <1>2
  <2> HIDE DEF below, m
  <2> QED BY <1>1, <2>2, <2>3, <2>4
<1>4. \A f \in A : place[f] = Cardinality(below(f))
  OBVIOUS
<1>5. place \in [A -> 1 .. m]
  BY <1>2
<1> HIDE DEF place, below, m
<1>6. \A f, g \in A : f < g => place[f] < place[g]
  BY <1>3, <1>4
<1>7. \A f \in A : place[f] \in 1 .. m
  BY <1>5
<1>8. \A f, g \in A : place[f] = place[g] => f = g
  BY <1>1, <1>6, <1>7
<1>9. place \in Surjection(A, 1 .. m)
  <2>1. place \in Injection(A, 1 .. m)
    BY <1>5, <1>8 DEF Injection, IsInjective
  <2>2. IsFiniteSet(1 .. m) /\ Cardinality(1 .. m) = m
    BY <1>1, FS_Interval
  <2> QED BY <2>1, <2>2, FS_Injection DEF m
<1>10. \A n \in 1 .. m : \E f \in A : place[f] = n
  BY <1>9 DEF Surjection
<1>11. \A n \in 1 .. m : at[n] \in A /\ place[at[n]] = n
  <2>1. \A n \in 1 .. m : at[n] = CHOOSE f \in A : Cardinality(below(f)) = n
    BY DEF m, below
  <2>2. \A n \in 1 .. m : \E f \in A : Cardinality(below(f)) = n
    BY <1>4, <1>10
  <2> QED BY <1>4, <2>1, <2>2
<1>12. ASSUME NEW n \in 1 .. m, NEW k \in 1 .. m, n < k PROVE at[n] < at[k]
  <2>1. at[n] \in A /\ at[k] \in A /\ place[at[n]] = n /\ place[at[k]] = k
    BY <1>11
  <2>2. at[n] # at[k]
    BY <1>1, <1>12, <2>1
  <2>3. ~(at[k] < at[n])
    <3>1. ASSUME at[k] < at[n] PROVE k < n
      BY <1>6, <2>1, <3>1
    <3> QED BY <1>1, <1>12, <3>1
  <2>4. at[n] \in Nat /\ at[k] \in Nat
    BY <2>1
  <2> QED BY <2>2, <2>3, <2>4
<1>13. ASSUME NEW f \in A PROVE \E n \in 1 .. m : at[n] = f
  <2>1. place[f] \in 1 .. m
    BY <1>7
  <2>2. at[place[f]] \in A /\ place[at[place[f]]] = place[f]
    BY <1>11, <2>1
  <2>3. at[place[f]] = f
    BY <1>8, <2>2
  <2> QED BY <2>1, <2>3
<1> QED BY <1>11, <1>12, <1>13 DEF m

Covers(span, i) == span[1] <= i /\ i < span[2]
Separators == {",", "."}

LEMMA EndsAreSeparators ==
  ASSUME NEW s, NEW i, Ends(s, i)
  PROVE  /\ s[i] \in Separators
         /\ s[i] = "," => ~\E p \in Groups(s) : ContentStart(s) <= p[1] /\ p[1] < i /\ i < p[2]
BY DEF Ends, Separators

\* The ranges come one after the other, and leave out nothing but separators.
RangesAreRight(s, r) ==
  /\ r \in Seq(Nat \X Nat)
  /\ \A n \in 1 .. Len(r) : ContentStart(s) <= r[n][1] /\ r[n][1] <= r[n][2] /\ r[n][2] <= Len(s) + 1
  /\ \A n, k \in 1 .. Len(r) : n < k => r[n][2] <= r[k][1]
  /\ \A i \in ContentStart(s) .. Len(s) :
       s[i] \notin Separators => \E n \in 1 .. Len(r) : Covers(r[n], i)
  /\ \A n \in 1 .. Len(r) : r[n][2] <= Len(s) => s[r[n][2]] = "legal" \/ Ends(s, r[n][2])

LEMMA RangesAre ==
  ASSUME NEW S, NEW s \in Seq(S) PROVE RangesAreRight(s, TokenRanges(s))
<1> DEFINE from == ContentStart(s)
           cuts == {i \in from .. Len(s) : Ends(s, i)}
           legal == {i \in from + 1 .. Len(s) : s[i] = "legal"}
           starts == {from} \cup legal \cup {i + 1 : i \in cuts}
           stops(f) == {i \in cuts : i >= f} \cup {i \in legal : i > f} \cup {Len(s) + 1}
           end(f) == Min(stops(f))
           m == Cardinality(starts)
           at == [n \in 1 .. m |-> CHOOSE f \in starts : Cardinality({g \in starts : g <= f}) = n]
           r == [n \in 1 .. m |-> <<at[n], end(at[n])>>]
<1>1. /\ from \in Nat /\ from >= 1 /\ Len(s) \in Nat /\ from <= Len(s) + 1
  BY DEF ContentStart
<1>2. TokenRanges(s) = r
  <2> DEFINE nth(n) == CHOOSE f \in starts : Cardinality({g \in starts : g <= f}) = n
  <2>1. TokenRanges(s) = [n \in 1 .. m |-> <<nth(n), end(nth(n))>>]
    BY DEF TokenRanges
  <2>2. \A n \in 1 .. m : at[n] = nth(n)
    OBVIOUS
  <2> HIDE DEF nth, end, at, m
  <2> QED BY <2>1, <2>2
<1>3. starts \in SUBSET (from .. Len(s) + 1)
  <2>1. legal \subseteq from .. Len(s) + 1 /\ cuts \subseteq from .. Len(s)
    BY <1>1
  <2> HIDE DEF from, cuts, legal
  <2>2. {from} \subseteq from .. Len(s) + 1
    BY <1>1
  <2>3. \A i \in cuts : i + 1 \in from .. Len(s) + 1
    BY <1>1, <2>1
  <2> QED BY <2>1, <2>2, <2>3
<1>4. /\ from \in starts
      /\ \A i \in from + 1 .. Len(s) : s[i] = "legal" => i \in starts
      /\ \A i \in from .. Len(s) : Ends(s, i) => i + 1 \in starts
      /\ \A f \in starts : \/ f = from
                           \/ f \in from + 1 .. Len(s) /\ s[f] = "legal"
                           \/ \E i \in from .. Len(s) : Ends(s, i) /\ f = i + 1
  OBVIOUS
<1>5. ASSUME NEW f \in from .. Len(s) + 1
      PROVE  /\ end(f) \in f .. Len(s) + 1
             /\ end(f) <= Len(s) => s[end(f)] = "legal" \/ Ends(s, end(f))
             /\ \A i \in from .. Len(s) : Ends(s, i) /\ f <= i => end(f) <= i
             /\ \A i \in from + 1 .. Len(s) : s[i] = "legal" /\ f < i => end(f) <= i
  <2>1. /\ Len(s) + 1 \in stops(f)
        /\ \A i \in from .. Len(s) : Ends(s, i) /\ f <= i => i \in stops(f)
        /\ \A i \in from + 1 .. Len(s) : s[i] = "legal" /\ f < i => i \in stops(f)
    BY <1>1
  <2>2. \A i \in stops(f) : /\ i \in f .. Len(s) + 1
                            /\ i <= Len(s) => s[i] = "legal" \/ Ends(s, i)
    BY <1>1
  <2> HIDE DEF stops
  <2>3. stops(f) \in SUBSET Nat
    BY <1>1, <2>2
  <2>4. end(f) \in stops(f) /\ \A y \in stops(f) : end(f) <= y
    BY <2>1, <2>3, MinIs
  <2> HIDE DEF end
  <2> QED BY <2>1, <2>2, <2>4
<1> HIDE DEF starts, stops, end, cuts, legal, from
<1>6. IsFiniteSet(starts) /\ starts \in SUBSET Nat /\ m \in Nat
  <2>1. IsFiniteSet(from .. Len(s) + 1)
    BY <1>1, FS_Interval
  <2>2. IsFiniteSet(starts) /\ starts \in SUBSET Nat
    <3>1. \A x \in from .. Len(s) + 1 : x \in Nat
      BY <1>1
    <3> QED BY <1>3, <2>1, <3>1, FS_Subset
  <2> QED BY <2>2, FS_CardinalityType
<1>7. /\ \A n \in 1 .. m : at[n] \in starts
      /\ \A n, k \in 1 .. m : n < k => at[n] < at[k]
      /\ \A f \in starts : \E n \in 1 .. m : at[n] = f
  BY <1>6, Numbered
<1> HIDE DEF at, m
<1>8. \A n \in 1 .. m : at[n] \in from .. Len(s) + 1 /\ r[n][1] = at[n] /\ r[n][2] = end(at[n])
  BY <1>3, <1>7
<1>9. /\ \A n \in 1 .. m : from <= r[n][1] /\ r[n][1] <= r[n][2] /\ r[n][2] <= Len(s) + 1
      /\ \A n \in 1 .. m : r[n][2] <= Len(s) => s[r[n][2]] = "legal" \/ Ends(s, r[n][2])
  <2>1. \A n \in 1 .. m : end(at[n]) \in at[n] .. Len(s) + 1
    BY <1>5, <1>8
  <2>2. \A n \in 1 .. m : end(at[n]) <= Len(s) => s[end(at[n])] = "legal" \/ Ends(s, end(at[n]))
    BY <1>5, <1>8
  <2> QED BY <1>1, <1>8, <2>1, <2>2
<1>10. r \in Seq(Nat \X Nat) /\ Len(r) = m
  <2>1. \A n \in 1 .. m : at[n] \in Nat /\ end(at[n]) \in Nat
    BY <1>1, <1>5, <1>8
  <2>2. \A n \in 1 .. m : <<at[n], end(at[n])>> \in Nat \X Nat
    BY <2>1
  <2>3. r \in [1 .. m -> Nat \X Nat]
    BY <2>2
  <2> HIDE DEF r
  <2> QED BY <1>6, <2>3
<1> HIDE DEF r
<1>11. ASSUME NEW n \in 1 .. m, NEW k \in 1 .. m, n < k PROVE r[n][2] <= r[k][1]
  <2> DEFINE e == at[n]  f == at[k]
  <2>1. e < f /\ f \in starts /\ e \in from .. Len(s) + 1 /\ f \in from .. Len(s) + 1
    BY <1>3, <1>7, <1>8, <1>11
  <2>2. r[n][2] = end(e) /\ r[k][1] = f
    BY <1>8
  <2> HIDE DEF e, f
  <2>3. CASE f = from
    BY <1>1, <2>1, <2>3
  <2>4. CASE f \in from + 1 .. Len(s) /\ s[f] = "legal"
    BY <1>5, <2>1, <2>2, <2>4
  <2>5. ASSUME NEW i \in from .. Len(s), Ends(s, i), f = i + 1 PROVE end(e) <= f
    <3>1. e <= i
      BY <1>1, <2>1, <2>5
    <3>2. end(e) <= i /\ end(e) \in e .. Len(s) + 1
      BY <1>5, <2>1, <2>5, <3>1
    <3> QED BY <1>1, <2>1, <2>5, <3>2
  <2> QED BY <1>4, <2>1, <2>2, <2>3, <2>4, <2>5
<1>12. ASSUME NEW i \in from .. Len(s), s[i] \notin Separators
       PROVE  \E n \in 1 .. m : Covers(r[n], i)
  <2> DEFINE T == {f \in starts : f <= i}
  <2>1. T \in SUBSET (0 .. i) /\ T # {} /\ i \in Nat
    <3>1. from \in T
      BY <1>4, <1>1
    <3>2. ASSUME NEW f \in T PROVE f \in 0 .. i
      <4>1. f \in from .. Len(s) + 1 /\ f <= i
        BY <1>3
      <4> QED BY <1>1, <4>1
    <3>3. i \in Nat
      BY <1>1
    <3> HIDE DEF T
    <3> QED BY <3>1, <3>2, <3>3
  <2>2. Max(T) \in T /\ \A y \in T : y <= Max(T)
    <3> HIDE DEF T
    <3> QED BY <2>1, MaxIs
  <2> DEFINE f == Max(T)
  <2>3. f \in starts /\ f <= i /\ f \in from .. Len(s) + 1 /\ \A y \in starts : y <= i => y <= f
    BY <1>3, <2>2
  <2>4. PICK n \in 1 .. m : at[n] = f
    BY <1>7, <2>3
  <2> HIDE DEF f, T
  <2>5. i < end(f)
    <3>1. SUFFICES ASSUME end(f) <= i PROVE FALSE
      BY <1>1, <1>5, <2>3
    <3> DEFINE e == end(f)
    <3>2. e \in f .. Len(s) + 1 /\ (e <= Len(s) => s[e] = "legal" \/ Ends(s, e))
      BY <1>5, <2>3
    <3> HIDE DEF e
    <3>3. e <= i /\ e \in from .. Len(s) /\ (s[e] = "legal" \/ Ends(s, e))
      BY <1>1, <2>3, <3>1, <3>2 DEF e
    <3>4. CASE Ends(s, e)
      <4>1. e # i
        BY <1>12, <3>4, EndsAreSeparators
      <4>2. e + 1 \in starts /\ e + 1 <= i
        BY <1>1, <1>4, <3>3, <3>4, <4>1
      <4>3. e + 1 <= f
        BY <2>3, <4>2
      <4> QED BY <1>1, <2>3, <3>2, <4>3
    <3>5. CASE s[e] = "legal"
      <4>1. CASE e = f
        <5>1. stops(f) \in SUBSET Nat /\ stops(f) # {}
          BY <1>1, <2>3 DEF stops, cuts, legal
        <5>2. e \in stops(f)
          BY <5>1, MinIs DEF e, end
        <5>3. e \in cuts
          BY <1>1, <2>3, <3>3, <4>1, <5>2 DEF stops
        <5> QED BY <3>4, <5>3 DEF cuts
      <4>2. CASE e # f
        <5>1. e \in from + 1 .. Len(s)
          BY <1>1, <2>3, <3>2, <3>3, <4>2
        <5>2. e \in starts
          BY <1>4, <3>5, <5>1
        <5> QED BY <1>1, <2>3, <3>2, <3>3, <4>2, <5>2
      <4> QED BY <4>1, <4>2
    <3> QED BY <3>3, <3>4, <3>5
  <2> QED BY <1>8, <2>3, <2>4, <2>5 DEF Covers
<1>13. /\ r \in Seq(Nat \X Nat)
       /\ \A n \in 1 .. Len(r) : ContentStart(s) <= r[n][1] /\ r[n][1] <= r[n][2] /\ r[n][2] <= Len(s) + 1
       /\ \A n, k \in 1 .. Len(r) : n < k => r[n][2] <= r[k][1]
       /\ \A i \in ContentStart(s) .. Len(s) :
            s[i] \notin Separators => \E n \in 1 .. Len(r) : Covers(r[n], i)
       /\ \A n \in 1 .. Len(r) : r[n][2] <= Len(s) => s[r[n][2]] = "legal" \/ Ends(s, r[n][2])
  BY <1>9, <1>10, <1>11, <1>12 DEF from
<1> QED BY <1>2, <1>13 DEF RangesAreRight

-----------------------------------------------------------------------------
(* One range is read.                                                      *)

Presences == {"DECLARED", "MAY_CONTAIN"}
TokensOf(s) == {Token(s, x, y) : x \in Nat \X Nat, y \in Presences}

\* What has to be in a token, and what is to be ignored: closed conditions and full stops.
Solid(s, i) == s[i] \in (Words \cup {"?"}) \ {"mark"}
Whole(s, p) == p \in Groups(s) /\ (p[1] > 1 => s[p[1] - 1] # "mark")
Silent(s, ignored) == \A j \in ignored : s[j] = "." \/ \E w \in Wrappers(s) : w[2] = j

LEMMA Lexicon ==
  /\ \A x \in Words \cup {"?"} : x \notin Opening /\ x \notin Closers /\ x \notin Separators
                                 /\ x \notin {"[", "(", ")", "."}
  /\ \A x \in Opening : x \notin Closers /\ x \notin Separators /\ x \notin {"mark", ")", "."}
  /\ \A x \in Closers : x \notin Separators /\ x # "."
  /\ "mark" \in Words /\ "legal" \in Words
BY DEF Words, Names, Opening, Closers, Separators

LEMMA Trimmed ==
  ASSUME NEW r \in Nat \X Nat, NEW ignored
  PROVE  \/ /\ TrimSpan(r, ignored) = <<1, 1>>
            /\ \A i \in Nat : Covers(r, i) => i \in ignored
         \/ /\ TrimSpan(r, ignored) \in Nat \X Nat
            /\ r[1] <= TrimSpan(r, ignored)[1] /\ TrimSpan(r, ignored)[1] < TrimSpan(r, ignored)[2]
            /\ TrimSpan(r, ignored)[2] <= r[2]
            /\ TrimSpan(r, ignored)[1] \notin ignored
            /\ \A i \in Nat : Covers(r, i) /\ i \notin ignored => Covers(TrimSpan(r, ignored), i)
<1> DEFINE kept == (r[1] .. r[2] - 1) \ ignored
           t == TrimSpan(r, ignored)
<1>1. t = IF kept = {} THEN <<1, 1>> ELSE <<Min(kept), Max(kept) + 1>>
  BY DEF TrimSpan
<1>2. r[1] \in Nat /\ r[2] \in Nat
  OBVIOUS
<1>3. /\ \A i \in Nat : Covers(r, i) /\ i \notin ignored => i \in kept
      /\ \A i \in kept : i \in Nat /\ r[1] <= i /\ i < r[2] /\ i \notin ignored /\ i \in 0 .. r[2]
  BY <1>2 DEF Covers
<1> HIDE DEF kept, t
<1>4. CASE kept = {}
  BY <1>1, <1>3, <1>4 DEF t
<1>5. CASE kept # {}
  <2>1. kept \in SUBSET Nat /\ kept \in SUBSET (0 .. r[2])
    BY <1>3
  <2>2. Min(kept) \in kept /\ \A y \in kept : Min(kept) <= y
    BY <1>5, <2>1, MinIs
  <2>3. Max(kept) \in kept /\ \A y \in kept : y <= Max(kept)
    BY <1>2, <1>5, <2>1, MaxIs
  <2> DEFINE a == Min(kept)  b == Max(kept)
  <2>4. t[1] = a /\ t[2] = b + 1 /\ t = <<a, b + 1>>
    BY <1>1, <1>5
  <2>5. a \in kept /\ b \in kept /\ \A y \in kept : a <= y /\ y <= b
    BY <2>2, <2>3
  <2> HIDE DEF a, b
  <2>6. a \in Nat /\ b \in Nat /\ a <= b /\ r[1] <= a /\ b < r[2] /\ a \notin ignored
    BY <1>3, <2>5
  <2>7. t \in Nat \X Nat /\ r[1] <= t[1] /\ t[1] < t[2] /\ t[2] <= r[2] /\ t[1] \notin ignored
    BY <1>2, <2>4, <2>6
  <2>8. \A i \in kept : t[1] <= i /\ i < t[2]
    <3> TAKE i \in kept
    <3>1. i \in Nat /\ a <= i /\ i <= b
      BY <1>3, <2>5
    <3> QED BY <2>4, <2>6, <3>1
  <2>9. \A i \in Nat : Covers(r, i) /\ i \notin ignored => Covers(t, i)
    BY <1>3, <2>8 DEF Covers
  <2> QED BY <2>7, <2>9 DEF t
<1> QED BY <1>4, <1>5

LEMMA Unignored ==
  ASSUME NEW S, NEW s \in Seq(S), NEW ignored, Silent(s, ignored)
  PROVE  /\ \A i : s[i] \in Words \cup {"?"} \cup Opening => i \notin ignored
         /\ \A p \in Groups(s) : p[1] \notin ignored /\ p[2] \notin ignored
<1>1. /\ \A p \in Brackets(s).pairs : s[p[1]] \in Opening /\ s[p[2]] \in Closers
      /\ \A p, q \in Brackets(s).pairs : p[2] = q[2] => p = q
  BY PairsAreBrackets
<1>2. Wrappers(s) \subseteq Brackets(s).pairs /\ Groups(s) = Brackets(s).pairs \ Wrappers(s)
  BY DEF Wrappers, Groups
<1>3. \A j \in ignored : s[j] = "." \/ s[j] \in Closers
  BY <1>1, <1>2 DEF Silent
<1>4. \A i : s[i] \in Words \cup {"?"} \cup Opening => i \notin ignored
  BY <1>3, Lexicon
<1>5. ASSUME NEW p \in Groups(s) PROVE p[1] \notin ignored /\ p[2] \notin ignored
  <2>1. s[p[1]] \in Opening /\ s[p[2]] \in Closers
    BY <1>1, <1>2
  <2>2. p[1] \notin ignored
    BY <1>4, <2>1
  <2>3. ASSUME p[2] \in ignored PROVE FALSE
    <3>1. PICK w \in Wrappers(s) : w[2] = p[2]
      BY <2>1, <2>3, Lexicon DEF Silent
    <3>2. w = p
      BY <1>1, <1>2, <3>1
    <3> QED BY <1>2, <3>1, <3>2
  <2> QED BY <2>2, <2>3
<1> QED BY <1>4, <1>5

LEMMA ClosingIsSilent ==
  ASSUME NEW S, NEW s \in Seq(S), NEW i PROVE Silent(s, ConditionalClosing(s, i))
<1> SUFFICES ASSUME NEW j \in ConditionalClosing(s, i)
             PROVE  s[j] = "." \/ \E w \in Wrappers(s) : w[2] = j
  BY DEF Silent
<1>1. PICK p \in Wrappers(s) : j \in p[2] .. Len(s) /\ \A k \in p[2] + 1 .. j : s[k] = "."
  BY DEF ConditionalClosing
<1>2. p[2] \in Nat
  <2>1. p \in Brackets(s).pairs
    BY DEF Wrappers
  <2>2. p[2] \in 1 .. Len(s)
    BY <2>1, PairsAreBrackets
  <2> QED BY <2>2
<1>3. j = p[2] \/ j \in p[2] + 1 .. j
  BY <1>1, <1>2
<1> QED BY <1>1, <1>3

\* What is left out after a marker is the marker and what surrounds it.
LEMMA SkipsTheMark ==
  ASSUME NEW S, NEW s \in Seq(S), NEW i \in Nat, i # 0, MarkedAt(s, i)
  PROVE  /\ AfterMark(s, i) \in Nat
         /\ \A j \in Nat : i <= j /\ j < AfterMark(s, i) => s[j] \in {"[", "mark", "(", ")"}
         /\ \E j \in Nat : /\ i <= j /\ j <= i + 1 /\ j < AfterMark(s, i) /\ j <= Len(s)
                           /\ s[j] = "mark"
         /\ \A p : Whole(s, p) /\ i <= p[1] => AfterMark(s, i) <= p[1]
<1> DEFINE m == IF s[i] = "[" THEN i + 2 ELSE i + 1
           o == IF m \in DOMAIN s /\ s[m] = "(" THEN m + 1 ELSE m
           a == IF o \in DOMAIN s /\ s[o] = ")" THEN o + 1 ELSE o
<1>1. AfterMark(s, i) = a
  BY DEF AfterMark
<1>2. DOMAIN s = 1 .. Len(s) /\ Len(s) \in Nat
  OBVIOUS
<1>3. \/ s[i] = "mark" /\ m = i + 1 /\ i \in 1 .. Len(s)
      \/ s[i] = "[" /\ s[i + 1] = "mark" /\ m = i + 2 /\ i \in 1 .. Len(s) /\ i + 1 \in 1 .. Len(s)
  <2>1. CASE i \in DOMAIN s /\ s[i] = "mark"
    <3>1. s[i] # "["
      BY <2>1
    <3>2. m = i + 1
      BY <3>1
    <3> QED BY <1>2, <2>1, <3>2
  <2>2. CASE i + 1 \in DOMAIN s /\ s[i] = "[" /\ s[i + 1] = "mark"
    <3>1. m = i + 2
      BY <2>2
    <3>2. i + 1 \in 1 .. Len(s)
      BY <1>2, <2>2
    <3>3. i \in 1 .. Len(s)
      BY <1>2, <3>2
    <3> QED BY <2>2, <3>1, <3>2, <3>3
  <2> QED BY <2>1, <2>2 DEF MarkedAt
<1>4. /\ m \in Nat
      /\ o = m \/ (o = m + 1 /\ s[m] = "(")
      /\ a = o \/ (a = o + 1 /\ s[o] = ")")
  BY <1>3
<1> HIDE DEF m, o, a
<1>5. a \in Nat /\ o \in Nat /\ m <= o /\ o <= a
  BY <1>4
<1>6. ASSUME NEW j \in Nat, i <= j, j < a PROVE s[j] \in {"[", "mark", "(", ")"}
  <2>1. \/ j = i \/ (j = i + 1 /\ m = i + 2) \/ (j = m /\ o = m + 1) \/ (j = o /\ a = o + 1)
    BY <1>3, <1>4, <1>5, <1>6
  <2> QED BY <1>3, <1>4, <2>1
<1>7. \E j \in Nat : /\ i <= j /\ j <= i + 1 /\ j < a /\ j <= Len(s)
                     /\ s[j] = "mark"
  <2>1. CASE s[i] = "mark" /\ m = i + 1 /\ i \in 1 .. Len(s)
    <3>1. i <= i /\ i <= i + 1 /\ i < a /\ i <= Len(s) /\ i # i + 1
      BY <1>4, <1>5, <2>1
    <3> QED BY <2>1, <3>1
  <2>2. CASE s[i] = "[" /\ s[i + 1] = "mark" /\ m = i + 2 /\ i \in 1 .. Len(s) /\ i + 1 \in 1 .. Len(s)
    <3>1. i + 1 \in Nat /\ i <= i + 1 /\ i + 1 < a /\ i + 1 <= Len(s) /\ i # 0
      BY <1>2, <1>4, <1>5, <2>2
    <3> QED BY <2>2, <3>1
  <2> QED BY <1>3, <2>1, <2>2
<1>8. ASSUME NEW p, Whole(s, p), i <= p[1] PROVE a <= p[1]
  <2>1. p \in Brackets(s).pairs /\ p \notin Wrappers(s) /\ (p[1] > 1 => s[p[1] - 1] # "mark")
    BY <1>8 DEF Whole, Groups
  <2>2. p[1] \in 1 .. Len(s) /\ s[p[1]] \in Opening
    BY <2>1, PairsAreBrackets
  <2>3. p[1] # i
    <3>1. ASSUME p[1] = i PROVE FALSE
      <4>1. s[p[1]] = "["
        BY <1>3, <2>2, <3>1, Lexicon
      <4>2. p \in Wrappers(s)
        BY <2>1, <3>1, <4>1 DEF Wrappers
      <4> QED BY <2>1, <4>2
    <3> QED BY <3>1
  <2>4. s[m - 1] = "mark" /\ m - 1 \in Nat /\ m >= 2
    BY <1>3, <1>4
  <2>5. m <= p[1]
    <3>1. CASE m = i + 1
      BY <1>8, <2>2, <2>3, <3>1
    <3>2. CASE m = i + 2 /\ s[i + 1] = "mark"
      <4>1. p[1] # i + 1
        BY <2>2, <3>2, Lexicon
      <4> QED BY <1>8, <2>2, <2>3, <3>2, <4>1
    <3> QED BY <1>3, <3>1, <3>2
  <2>6. p[1] # m
    BY <1>4, <2>1, <2>2, <2>4
  <2>7. o <= p[1]
    BY <1>4, <2>2, <2>5, <2>6
  <2>8. CASE a = o
    BY <2>7, <2>8
  <2>9. CASE a = o + 1 /\ s[o] = ")"
    <3>1. p[1] # o
      BY <2>2, <2>9, Lexicon
    <3> QED BY <1>5, <2>2, <2>7, <2>9, <3>1
  <2> QED BY <1>4, <2>8, <2>9
<1> QED BY <1>1, <1>5, <1>6, <1>7, <1>8

LEMMA PigmentIsTrimmed ==
  ASSUME NEW s, NEW r \in Nat \X Nat, r[1] < r[2], NEW at, at = TrimPigmentTerminalPeriod(s, r)
  PROVE  /\ at \in Nat \X Nat /\ at[1] = r[1] /\ at[1] <= at[2] /\ at[2] <= r[2]
         /\ \A i \in Nat : Covers(r, i) /\ s[i] # "." => Covers(at, i)
<1>1. at = r \/ (at = <<r[1], r[2] - 1>> /\ s[r[2] - 1] = ".")
  BY DEF TrimPigmentTerminalPeriod
<1>2. r[1] \in Nat /\ r[2] \in Nat
  OBVIOUS
<1>3. CASE at = r
  BY <1>2, <1>3
<1>4. CASE at = <<r[1], r[2] - 1>> /\ s[r[2] - 1] = "."
  <2>1. at[1] = r[1] /\ at[2] = r[2] - 1 /\ r[2] - 1 \in Nat
    BY <1>2, <1>4
  <2>2. ASSUME NEW i \in Nat, Covers(r, i), s[i] # "." PROVE Covers(at, i)
    <3>1. i # r[2] - 1
      BY <1>4, <2>2
    <3>2. r[1] <= i /\ i < r[2]
      BY <2>2 DEF Covers
    <3>3. i < r[2] - 1
      BY <1>2, <3>1, <3>2
    <3> QED BY <2>1, <3>2, <3>3 DEF Covers
  <2>3. at \in Nat \X Nat
    BY <1>2, <1>4, <2>1
  <2> QED BY <1>2, <2>1, <2>2, <2>3
<1> QED BY <1>1, <1>3, <1>4

TokenOf(s, r, y, t) ==
  /\ t \in TokensOf(s) /\ t.presence = y
  /\ t.at \in Nat \X Nat /\ t.at[1] = r[1] /\ t.at[1] <= t.at[2] /\ t.at[2] <= r[2]
  /\ \A i \in Nat : Covers(r, i) /\ s[i] # "." => Covers(t.at, i)

LEMMA TokenIs ==
  ASSUME NEW s, NEW r \in Nat \X Nat, r[1] < r[2], NEW y \in Presences
  PROVE  TokenOf(s, r, y, Token(s, r, y))
<1> DEFINE t == Token(s, r, y)
<1>1. t \in TokensOf(s)
  BY DEF TokensOf
<1>2. t.presence = y /\ t.at = TrimPigmentTerminalPeriod(s, r)
  BY DEF Token
<1> HIDE DEF t
<1>3. /\ t.at \in Nat \X Nat /\ t.at[1] = r[1] /\ t.at[1] <= t.at[2] /\ t.at[2] <= r[2]
      /\ \A i \in Nat : Covers(r, i) /\ s[i] # "." => Covers(t.at, i)
  BY <1>2, PigmentIsTrimmed
<1>4. TokenOf(s, r, y, t)
  BY <1>1, <1>2, <1>3 DEF TokenOf
<1> QED BY <1>4 DEF t

\* What a range adds to what has been read.
AddsNothing(s, sofar, r, new) ==
  /\ new.tokens = sofar.tokens
  /\ \A i \in Nat : Covers(r, i) => ~Solid(s, i)
  /\ \A p : Whole(s, p) => ~(Covers(r, p[1]) /\ Covers(r, p[2]))
  /\ new.presence = "MAY_CONTAIN" <=>
       sofar.presence = "MAY_CONTAIN" \/ \E i \in Nat : Covers(r, i) /\ s[i] = "mark"

Adds(s, sofar, r, new, t) ==
  /\ new.tokens = Append(sofar.tokens, t) /\ t.presence = new.presence
  /\ t.at \in Nat \X Nat /\ r[1] <= t.at[1] /\ t.at[1] <= t.at[2] /\ t.at[2] <= r[2]
  /\ \A i \in Nat : Covers(r, i) /\ Solid(s, i) => Covers(t.at, i)
  /\ \A p : Whole(s, p) /\ Covers(r, p[1]) /\ Covers(r, p[2]) => Covers(t.at, p[1]) /\ Covers(t.at, p[2])
  /\ sofar.presence = "MAY_CONTAIN" => new.presence = "MAY_CONTAIN"
  /\ new.presence = "MAY_CONTAIN" /\ sofar.presence # "MAY_CONTAIN" =>
       \E i \in Nat : Covers(r, i) /\ s[i] = "mark" /\ i < t.at[1]
  /\ new.presence # "MAY_CONTAIN" => \A i \in Nat : Covers(r, i) /\ s[i] = "mark" => Covers(t.at, i)

LEMMA RangeIsRead ==
  ASSUME NEW S, NEW s \in Seq(S), NEW r \in Nat \X Nat, 1 <= r[1], r[1] <= r[2],
         r[2] <= Len(s) => s[r[2]] \in Separators \cup {"legal"},
         NEW sofar, Silent(s, sofar.ignored), sofar.presence \in Presences,
         NEW new, new = ReadRange(s, sofar, r)
  PROVE  /\ Silent(s, new.ignored) /\ new.presence \in Presences
         /\ AddsNothing(s, sofar, r, new) \/ \E t \in TokensOf(s) : Adds(s, sofar, r, new, t)
<1> DEFINE span == TrimSpan(r, sofar.ignored)
           marked == MarkedAt(s, span[1])
           ignored == sofar.ignored \cup ConditionalClosing(s, span[1])
           from == <<AfterMark(s, span[1]), span[2]>>
           rest == TrimSpan(from, ignored)
<1>1. /\ \A i : Solid(s, i) => i \notin sofar.ignored /\ s[i] # "."
      /\ \A i : s[i] = "mark" => i \notin sofar.ignored
      /\ \A p : Whole(s, p) => p[1] \notin sofar.ignored /\ p[2] \notin sofar.ignored
  BY Unignored, Lexicon DEF Solid, Whole
<1>2. ASSUME NEW p, Whole(s, p)
      PROVE  p[1] \in Nat /\ p[2] \in Nat /\ p[1] < p[2] /\ s[p[1]] # "." /\ s[p[2]] # "."
  <2>1. p \in Brackets(s).pairs
    BY <1>2 DEF Whole, Groups
  <2>2. p[1] \in 1 .. Len(s) /\ p[2] \in 1 .. Len(s) /\ p[1] < p[2] /\ s[p[1]] \in Opening /\ s[p[2]] \in Closers
    BY <2>1, PairsAreBrackets
  <2> QED BY <2>2, Lexicon
<1>3. /\ span[1] = span[2] => new = sofar
      /\ span[1] # span[2] /\ ~marked =>
           new = [presence |-> sofar.presence, ignored |-> sofar.ignored,
                  tokens |-> Append(sofar.tokens, Token(s, span, sofar.presence))]
      /\ span[1] # span[2] /\ marked =>
           new = [presence |-> "MAY_CONTAIN", ignored |-> ignored,
                  tokens |-> IF rest[1] = rest[2] THEN sofar.tokens
                             ELSE Append(sofar.tokens, Token(s, rest, "MAY_CONTAIN"))]
  <2> DEFINE presence == IF marked THEN "MAY_CONTAIN" ELSE sofar.presence
             silent == IF marked THEN ignored ELSE sofar.ignored
             left == IF marked THEN TrimSpan(from, silent) ELSE span
  <2>1. new = IF span[1] = span[2] THEN sofar
              ELSE [presence |-> presence, ignored |-> silent,
                    tokens |-> IF left[1] = left[2] THEN sofar.tokens
                               ELSE Append(sofar.tokens, Token(s, left, presence))]
    BY DEF ReadRange
  <2>2. marked => presence = "MAY_CONTAIN" /\ silent = ignored /\ left = rest
    OBVIOUS
  <2>3. ~marked => presence = sofar.presence /\ silent = sofar.ignored /\ left = span
    OBVIOUS
  <2> HIDE DEF presence, silent, left, rest, from, ignored, span, marked
  <2>4. span[1] = span[2] => new = sofar
    BY <2>1
  <2>5. ASSUME span[1] # span[2], ~marked
        PROVE  new = [presence |-> sofar.presence, ignored |-> sofar.ignored,
                      tokens |-> Append(sofar.tokens, Token(s, span, sofar.presence))]
    BY <2>1, <2>3, <2>5
  <2>6. ASSUME span[1] # span[2], marked
        PROVE  new = [presence |-> "MAY_CONTAIN", ignored |-> ignored,
                      tokens |-> IF rest[1] = rest[2] THEN sofar.tokens
                                 ELSE Append(sofar.tokens, Token(s, rest, "MAY_CONTAIN"))]
    BY <2>1, <2>2, <2>6
  <2> QED BY <2>4, <2>5, <2>6
<1> HIDE DEF span, marked, ignored, from, rest
<1>4. CASE span = <<1, 1>> /\ \A i \in Nat : Covers(r, i) => i \in sofar.ignored
  <2>1. new = sofar
    BY <1>3, <1>4
  <2>2. AddsNothing(s, sofar, r, new)
    BY <1>1, <1>2, <1>4, <2>1 DEF AddsNothing
  <2> QED BY <2>1, <2>2
<1>5. CASE /\ span \in Nat \X Nat
           /\ r[1] <= span[1] /\ span[1] < span[2] /\ span[2] <= r[2] /\ span[1] \notin sofar.ignored
           /\ \A i \in Nat : Covers(r, i) /\ i \notin sofar.ignored => Covers(span, i)
  <2>1. span[1] \in Nat /\ span[2] \in Nat /\ r[1] \in Nat /\ r[2] \in Nat /\ span[1] # span[2] /\ span[1] # 0
    BY <1>5
  <2>2. CASE ~marked
    <3> DEFINE t == Token(s, span, sofar.presence)
    <3>1. new = [presence |-> sofar.presence, ignored |-> sofar.ignored, tokens |-> Append(sofar.tokens, t)]
      BY <1>3, <2>1, <2>2
    <3>2. /\ t \in TokensOf(s) /\ t.presence = sofar.presence
          /\ t.at \in Nat \X Nat /\ t.at[1] = span[1] /\ t.at[1] <= t.at[2] /\ t.at[2] <= span[2]
          /\ \A i \in Nat : Covers(span, i) /\ s[i] # "." => Covers(t.at, i)
      <4>1. TokenOf(s, span, sofar.presence, t)
        BY <1>5, TokenIs
      <4> HIDE DEF t
      <4> QED BY <4>1 DEF TokenOf
    <3> HIDE DEF t
    <3>3. new.tokens = Append(sofar.tokens, t) /\ new.presence = sofar.presence /\ new.ignored = sofar.ignored
      BY <3>1
    <3>4. r[1] <= t.at[1] /\ t.at[2] <= r[2]
      <4>1. t.at[2] \in Nat
        BY <3>2
      <4> QED BY <1>5, <2>1, <3>2, <4>1
    <3>5. \A i \in Nat : Covers(r, i) /\ Solid(s, i) => Covers(t.at, i)
      BY <1>1, <1>5, <3>2
    <3>6. \A p : Whole(s, p) /\ Covers(r, p[1]) /\ Covers(r, p[2]) => Covers(t.at, p[1]) /\ Covers(t.at, p[2])
      BY <1>1, <1>2, <1>5, <3>2
    <3>7. \A i \in Nat : Covers(r, i) /\ s[i] = "mark" => Covers(t.at, i)
      BY <1>1, <1>5, <3>2
    <3>8. Adds(s, sofar, r, new, t)
      BY <3>2, <3>3, <3>4, <3>5, <3>6, <3>7 DEF Adds
    <3> QED BY <3>2, <3>3, <3>8
  <2>3. CASE marked
    <3> DEFINE after == AfterMark(s, span[1])
    <3>1. /\ after \in Nat
          /\ \A j \in Nat : span[1] <= j /\ j < after => s[j] \in {"[", "mark", "(", ")"}
          /\ \A p : Whole(s, p) /\ span[1] <= p[1] => after <= p[1]
      BY <2>1, <2>3, SkipsTheMark DEF marked
    <3>2. PICK mark \in Nat : /\ span[1] <= mark /\ mark <= span[1] + 1 /\ mark < after /\ mark <= Len(s)
                              /\ s[mark] = "mark"
      <4>1. PICK first : first = span[1]
        OBVIOUS
      <4>2. first \in Nat /\ first # 0 /\ MarkedAt(s, first)
        BY <2>1, <2>3, <4>1 DEF marked
      <4>3. \E j \in Nat : /\ first <= j /\ j <= first + 1 /\ j < AfterMark(s, first) /\ j <= Len(s)
                           /\ s[j] = "mark"
        BY <4>2, SkipsTheMark
      <4> QED BY <4>1, <4>3
    <3>3. Covers(r, mark)
      <4>1. mark # r[2]
        BY <3>2, Lexicon DEF Separators
      <4> QED BY <1>5, <2>1, <3>2, <4>1 DEF Covers
    <3>4. Silent(s, ignored)
      BY ClosingIsSilent DEF ignored, Silent
    <3>5. /\ \A i : Solid(s, i) => i \notin ignored
          /\ \A p : Whole(s, p) => p[1] \notin ignored /\ p[2] \notin ignored
      BY <3>4, Unignored DEF Solid, Whole
    <3>6. from \in Nat \X Nat /\ from[1] = after /\ from[2] = span[2]
      BY <2>1, <3>1 DEF from
    <3>7. \A i \in Nat : Covers(r, i) /\ Solid(s, i) => Covers(from, i) /\ i \notin ignored
      <4> SUFFICES ASSUME NEW i \in Nat, Covers(r, i), Solid(s, i) PROVE Covers(from, i) /\ i \notin ignored
        OBVIOUS
      <4>1. Covers(span, i)
        BY <1>1, <1>5
      <4>2. ~(i < after)
        <5>1. s[i] \notin {"[", "mark", "(", ")"}
          BY Lexicon DEF Solid
        <5> QED BY <3>1, <4>1, <5>1 DEF Covers
      <4> QED BY <3>1, <3>5, <3>6, <4>1, <4>2 DEF Covers
    <3>8. ASSUME NEW p, Whole(s, p), Covers(r, p[1]), Covers(r, p[2])
          PROVE  Covers(from, p[1]) /\ Covers(from, p[2]) /\ p[1] \notin ignored /\ p[2] \notin ignored
      <4>1. p[1] \in Nat /\ p[2] \in Nat /\ p[1] < p[2]
        BY <1>2, <3>8
      <4>2. Covers(span, p[1]) /\ Covers(span, p[2])
        BY <1>1, <1>5, <3>8, <4>1
      <4>3. after <= p[1]
        BY <3>1, <3>8, <4>2 DEF Covers
      <4> QED BY <3>1, <3>5, <3>6, <3>8, <4>1, <4>2, <4>3 DEF Covers
    <3>9. /\ new.presence = "MAY_CONTAIN" /\ new.ignored = ignored
          /\ new.tokens = IF rest[1] = rest[2] THEN sofar.tokens ELSE Append(sofar.tokens, Token(s, rest, "MAY_CONTAIN"))
      BY <1>3, <2>1, <2>3
    <3> HIDE DEF after
    <3>10. CASE rest = <<1, 1>> /\ \A i \in Nat : Covers(from, i) => i \in ignored
      <4>1. new.tokens = sofar.tokens
        BY <3>9, <3>10
      <4>2. \A i \in Nat : Covers(r, i) => ~Solid(s, i)
        BY <3>7, <3>10
      <4>3. \A p : Whole(s, p) => ~(Covers(r, p[1]) /\ Covers(r, p[2]))
        BY <1>2, <3>8, <3>10
      <4>4. AddsNothing(s, sofar, r, new)
        BY <3>2, <3>3, <3>9, <4>1, <4>2, <4>3 DEF AddsNothing
      <4> QED BY <3>4, <3>9, <4>4 DEF Presences
    <3>11. CASE /\ rest \in Nat \X Nat
                /\ from[1] <= rest[1] /\ rest[1] < rest[2] /\ rest[2] <= from[2] /\ rest[1] \notin ignored
                /\ \A i \in Nat : Covers(from, i) /\ i \notin ignored => Covers(rest, i)
      <4> DEFINE t == Token(s, rest, "MAY_CONTAIN")
      <4>1. rest[1] \in Nat /\ rest[2] \in Nat /\ rest[1] # rest[2]
        BY <3>11
      <4>2. /\ t \in TokensOf(s) /\ t.presence = "MAY_CONTAIN"
            /\ t.at \in Nat \X Nat /\ t.at[1] = rest[1] /\ t.at[1] <= t.at[2] /\ t.at[2] <= rest[2]
            /\ \A i \in Nat : Covers(rest, i) /\ s[i] # "." => Covers(t.at, i)
        <5>1. TokenOf(s, rest, "MAY_CONTAIN", t)
          BY <3>11, TokenIs DEF Presences
        <5> HIDE DEF t
        <5> QED BY <5>1 DEF TokenOf
      <4>3. new.tokens = Append(sofar.tokens, t)
        BY <3>9, <4>1
      <4> HIDE DEF t
      <4>4. r[1] <= t.at[1] /\ t.at[2] <= r[2] /\ mark < t.at[1]
        <5>1. t.at[2] \in Nat
          BY <4>2
        <5>2. after <= rest[1] /\ rest[2] <= span[2]
          BY <3>6, <3>11
        <5> QED BY <1>5, <2>1, <3>1, <3>2, <4>1, <4>2, <5>1, <5>2
      <4>5. \A i \in Nat : Covers(r, i) /\ Solid(s, i) => Covers(t.at, i)
        BY <1>1, <3>7, <3>11, <4>2
      <4>6. \A p : Whole(s, p) /\ Covers(r, p[1]) /\ Covers(r, p[2]) => Covers(t.at, p[1]) /\ Covers(t.at, p[2])
        BY <1>2, <3>8, <3>11, <4>2
      <4>7. Adds(s, sofar, r, new, t)
        BY <3>2, <3>3, <3>9, <4>2, <4>3, <4>4, <4>5, <4>6 DEF Adds
      <4> QED BY <3>4, <3>9, <4>2, <4>7 DEF Presences
    <3> QED BY <3>6, <3>10, <3>11, Trimmed DEF rest
  <2> QED BY <2>2, <2>3
<1> QED BY <1>4, <1>5, Trimmed DEF span

-----------------------------------------------------------------------------
(* The whole label is read.                                                *)

\* Every token has been read from a range of its own, and every other range has nothing to read.
FromRanges(s, r, f, n, g) ==
  /\ Silent(s, f[n].ignored) /\ f[n].presence \in Presences
  /\ f[n].tokens \in Seq(TokensOf(s))
  /\ g \in [1 .. Len(f[n].tokens) -> 1 .. n]
  /\ \A j, k \in 1 .. Len(f[n].tokens) : j < k => g[j] < g[k]
  /\ \A k \in 1 .. Len(f[n].tokens) : Adds(s, f[g[k] - 1], r[g[k]], f[g[k]], f[n].tokens[k])
  /\ \A j \in 1 .. n : \/ AddsNothing(s, f[j - 1], r[j], f[j])
                       \/ \E k \in 1 .. Len(f[n].tokens) : g[k] = j

LEMMA NextRange ==
  ASSUME NEW S, NEW s \in Seq(S), NEW r, RangesAreRight(s, r), NEW f, NEW n \in 1 .. Len(r),
         f[n] = ReadRange(s, f[n - 1], r[n]), NEW g, FromRanges(s, r, f, n - 1, g)
  PROVE  \E h : FromRanges(s, r, f, n, h)
<1>1. /\ r[n] \in Nat \X Nat /\ 1 <= r[n][1] /\ r[n][1] <= r[n][2]
      /\ r[n][2] <= Len(s) => s[r[n][2]] \in Separators \cup {"legal"}
  <2>1. r[n] \in Nat \X Nat /\ ContentStart(s) <= r[n][1] /\ r[n][1] <= r[n][2]
    BY DEF RangesAreRight
  <2>2. ContentStart(s) \in Nat /\ 1 <= ContentStart(s)
    BY DEF ContentStart
  <2>3. r[n][2] <= Len(s) => s[r[n][2]] = "legal" \/ Ends(s, r[n][2])
    BY DEF RangesAreRight
  <2>4. r[n][2] <= Len(s) => s[r[n][2]] \in Separators \cup {"legal"}
    BY <2>3, EndsAreSeparators
  <2>5. r[n][1] \in Nat
    BY <2>1
  <2>6. 1 <= r[n][1]
    BY <2>1, <2>2, <2>5
  <2> QED BY <2>1, <2>4, <2>6
<1> DEFINE old == f[n - 1].tokens
           L == Len(old)
<1>2. /\ Silent(s, f[n - 1].ignored) /\ f[n - 1].presence \in Presences
      /\ old \in Seq(TokensOf(s)) /\ g \in [1 .. L -> 1 .. n - 1]
      /\ \A j, k \in 1 .. L : j < k => g[j] < g[k]
      /\ \A k \in 1 .. L : Adds(s, f[g[k] - 1], r[g[k]], f[g[k]], old[k])
      /\ \A j \in 1 .. n - 1 : \/ AddsNothing(s, f[j - 1], r[j], f[j])
                               \/ \E k \in 1 .. L : g[k] = j
  BY DEF FromRanges
<1>3. /\ Silent(s, f[n].ignored) /\ f[n].presence \in Presences
      /\ \/ AddsNothing(s, f[n - 1], r[n], f[n])
         \/ \E t \in TokensOf(s) : Adds(s, f[n - 1], r[n], f[n], t)
  BY <1>1, <1>2, RangeIsRead
<1>4. n \in Nat /\ n # 0 /\ L \in Nat /\ \A k \in 1 .. L : g[k] \in 1 .. n - 1
  <2>1. Len(r) \in Nat
    BY DEF RangesAreRight
  <2>2. n \in Nat /\ n # 0
    BY <2>1
  <2>3. L \in Nat
    BY <1>2
  <2> QED BY <1>2, <2>2, <2>3
<1>5. \A j \in 1 .. n : j = n \/ j \in 1 .. n - 1
  BY <1>4
<1>6. CASE AddsNothing(s, f[n - 1], r[n], f[n])
  <2>1. f[n].tokens = old
    BY <1>6 DEF AddsNothing
  <2>2. g \in [1 .. L -> 1 .. n]
    <3>1. 1 .. n - 1 \subseteq 1 .. n
      BY <1>4
    <3> QED BY <1>2, <3>1
  <2> HIDE DEF old
  <2>3. FromRanges(s, r, f, n, g)
    BY <1>2, <1>3, <1>5, <1>6, <2>1, <2>2 DEF FromRanges
  <2> QED BY <2>3
<1>7. ASSUME NEW t \in TokensOf(s), Adds(s, f[n - 1], r[n], f[n], t) PROVE \E h : FromRanges(s, r, f, n, h)
  <2> DEFINE h == [k \in 1 .. L + 1 |-> IF k = L + 1 THEN n ELSE g[k]]
             new == f[n].tokens
  <2>1. new = Append(old, t)
    BY <1>7 DEF Adds
  <2> HIDE DEF old
  <2>2. /\ new \in Seq(TokensOf(s)) /\ Len(new) = L + 1 /\ new[L + 1] = t
        /\ \A k \in 1 .. L : new[k] = old[k]
    BY <1>2, <2>1
  <2> HIDE DEF L, new
  <2>3. /\ h[L + 1] = n /\ \A k \in 1 .. L : h[k] = g[k]
        /\ \A k \in 1 .. L + 1 : k = L + 1 \/ k \in 1 .. L
        /\ L + 1 \in 1 .. L + 1 /\ \A k \in 1 .. L : k \in 1 .. L + 1
    BY <1>4
  <2>4. h \in [1 .. L + 1 -> 1 .. n]
    BY <1>4
  <2> HIDE DEF h
  <2>5. \A j, k \in 1 .. L + 1 : j < k => h[j] < h[k]
    <3> SUFFICES ASSUME NEW j \in 1 .. L + 1, NEW k \in 1 .. L + 1, j < k PROVE h[j] < h[k]
      OBVIOUS
    <3>1. j \in 1 .. L
      BY <1>4
    <3>2. CASE k \in 1 .. L
      BY <1>2, <2>3, <3>1, <3>2
    <3>3. CASE k = L + 1
      <4>1. h[j] \in 1 .. n - 1 /\ h[k] = n
        BY <1>4, <2>3, <3>1, <3>3
      <4> QED BY <1>4, <4>1
    <3> QED BY <2>3, <3>2, <3>3
  <2>6. \A k \in 1 .. L + 1 : Adds(s, f[h[k] - 1], r[h[k]], f[h[k]], new[k])
    BY <1>2, <1>7, <2>2, <2>3
  <2>7. \A j \in 1 .. n : AddsNothing(s, f[j - 1], r[j], f[j]) \/ \E k \in 1 .. L + 1 : h[k] = j
    <3> TAKE j \in 1 .. n
    <3>1. CASE j = n
      BY <2>3, <3>1
    <3>2. CASE j \in 1 .. n - 1
      BY <1>2, <2>3, <3>2
    <3> QED BY <1>5, <3>1, <3>2
  <2>8. FromRanges(s, r, f, n, h)
    BY <1>3, <2>2, <2>4, <2>5, <2>6, <2>7 DEF FromRanges, new
  <2> QED BY <2>8
<1> QED BY <1>3, <1>6, <1>7

LEMMA TokensComeFromRanges ==
  ASSUME NEW S, NEW s \in Seq(S), NEW r, RangesAreRight(s, r), NEW f, Reads(f, s, r, Len(r))
  PROVE  \E g : FromRanges(s, r, f, Len(r), g)
<1> DEFINE m == Len(r)
           T == {n \in 0 .. m : ~\E g : FromRanges(s, r, f, n, g)}
<1>1. m \in Nat
  BY DEF RangesAreRight
<1>2. \A n \in 0 .. m : f[n] = IF n = 0 THEN Begin ELSE ReadRange(s, f[n - 1], r[n])
  BY DEF Reads
<1> HIDE DEF m
<1>3. T = {}
  <2>1. SUFFICES ASSUME T # {} PROVE FALSE
    OBVIOUS
  <2>2. PICK n \in T : \A y \in T : n <= y
    <3>1. T \in SUBSET Nat
      BY <1>1
    <3> HIDE DEF T
    <3> QED BY <2>1, <3>1, LeastNumber
  <2>3. n \in 0 .. m /\ ~\E g : FromRanges(s, r, f, n, g)
    BY <2>2
  <2>4. n # 0
    <3>1. ASSUME n = 0 PROVE \E g : FromRanges(s, r, f, n, g)
      <4> DEFINE g == [k \in 1 .. 0 |-> 1]
      <4>1. f[n] = Begin
        BY <1>2, <2>3, <3>1
      <4>2. f[n].tokens = <<>> /\ f[n].presence = "DECLARED" /\ f[n].ignored = {}
        BY <4>1 DEF Begin
      <4>3. g \in [1 .. 0 -> 1 .. n]
        OBVIOUS
      <4>4. Len(f[n].tokens) = 0 /\ f[n].tokens \in Seq(TokensOf(s))
        BY <4>2
      <4> HIDE DEF g
      <4>5. \A j \in 1 .. 0 : FALSE
        OBVIOUS
      <4>6. FromRanges(s, r, f, n, g)
        BY <3>1, <4>2, <4>3, <4>4, <4>5 DEF FromRanges, Silent, Presences
      <4> QED BY <4>6
    <3> QED BY <2>3, <3>1
  <2>5. n - 1 \in 0 .. m /\ ~(n <= n - 1) /\ n \in 1 .. m
    BY <1>1, <2>3, <2>4
  <2>6. PICK g : FromRanges(s, r, f, n - 1, g)
    BY <2>2, <2>5
  <2>7. f[n] = ReadRange(s, f[n - 1], r[n])
    BY <1>2, <2>3, <2>4
  <2>8. n \in 1 .. Len(r)
    BY <2>5 DEF m
  <2> QED BY <2>3, <2>6, <2>7, <2>8, NextRange
<1>4. m \in 0 .. m
  BY <1>1
<1> QED BY <1>3, <1>4 DEF m
LEMMA PresenceGrows ==
  ASSUME NEW m \in Nat, NEW s, NEW r, NEW f, NEW g, FromRanges(s, r, f, m, g), f[0] = Begin
  PROVE  /\ \A j, k \in 0 .. m : j <= k /\ f[j].presence = "MAY_CONTAIN" => f[k].presence = "MAY_CONTAIN"
         /\ \A k \in 0 .. m : f[k].presence = "MAY_CONTAIN" =>
              \E j \in 1 .. k : f[j].presence = "MAY_CONTAIN" /\ f[j - 1].presence # "MAY_CONTAIN"
<1> DEFINE may(n) == f[n].presence = "MAY_CONTAIN"
<1>1. ASSUME NEW n \in 1 .. m, may(n - 1) PROVE may(n)
  <2>1. CASE AddsNothing(s, f[n - 1], r[n], f[n])
    BY <1>1, <2>1 DEF AddsNothing
  <2>2. ASSUME NEW k \in 1 .. Len(f[m].tokens), g[k] = n PROVE may(n)
    <3>1. Adds(s, f[n - 1], r[n], f[n], f[m].tokens[k])
      BY <2>2 DEF FromRanges
    <3> QED BY <1>1, <3>1 DEF Adds
  <2> QED BY <2>1, <2>2 DEF FromRanges
<1>2. ~may(0)
  BY DEF Begin
<1> HIDE DEF may
<1>3. ASSUME NEW j \in 0 .. m, NEW k \in 0 .. m, j <= k, may(j) PROVE may(k)
  <2> DEFINE T == {n \in j .. m : ~may(n)}
  <2>1. SUFFICES ASSUME T # {} PROVE FALSE
    BY <1>3
  <2>2. PICK n \in T : \A y \in T : n <= y
    <3>1. T \in SUBSET Nat
      OBVIOUS
    <3> HIDE DEF T
    <3> QED BY <2>1, <3>1, LeastNumber
  <2>3. n \in j .. m /\ ~may(n) /\ n # j
    BY <1>3, <2>2
  <2>4. n - 1 \in j .. m /\ ~(n <= n - 1) /\ n \in 1 .. m
    BY <2>3
  <2>5. may(n - 1)
    BY <2>2, <2>4
  <2> QED BY <1>1, <2>3, <2>4, <2>5
<1>4. ASSUME NEW k \in 0 .. m, may(k) PROVE \E j \in 1 .. k : may(j) /\ ~may(j - 1)
  <2> DEFINE T == {n \in 0 .. k : may(n)}
  <2>1. PICK n \in T : \A y \in T : n <= y
    <3>1. T \in SUBSET Nat /\ T # {}
      <4>1. k \in T
        BY <1>4
      <4> QED BY <4>1
    <3> HIDE DEF T
    <3> QED BY <3>1, LeastNumber
  <2>2. n \in 0 .. k /\ may(n) /\ n # 0
    BY <1>2, <2>1
  <2>3. n \in 1 .. k /\ n - 1 \in 0 .. k /\ ~(n <= n - 1)
    BY <2>2
  <2>4. ~may(n - 1)
    BY <2>1, <2>3
  <2> QED BY <2>2, <2>3, <2>4
<1> QED BY <1>3, <1>4 DEF may

\* What LabelIsRead says of the tokens of a label.
ReadOnce(s, tokens) ==
  LET in(i) == {n \in DOMAIN tokens : tokens[n].at[1] <= i /\ i < tokens[n].at[2]}
      from == ContentStart(s)
      whole == {p \in Groups(s) : /\ p[1] >= from
                                  /\ p[1] > 1 => s[p[1] - 1] # "mark"
                                  /\ \A i \in p[1] .. p[2] : s[i] \notin {".", "legal"}}
  IN /\ \A i \in from .. Len(s) :
          /\ s[i] \in (Words \cup {"?"}) \ {"mark"} => Cardinality(in(i)) = 1
          /\ Cardinality(in(i)) <= 1
     /\ \A n \in DOMAIN tokens : n > 1 => tokens[n - 1].at[2] <= tokens[n].at[1]
     /\ \A p \in whole : \A i \in p[1] .. p[2] : in(i) = in(p[1])
     /\ \A n \in DOMAIN tokens : tokens[n].presence = "MAY_CONTAIN" <=>
          \E i \in 1 .. tokens[n].at[1] - 1 : s[i] = "mark" /\ in(i) = {}

\* A group without full stops and legal notices is within one range.
LEMMA GroupsAreInRanges ==
  ASSUME NEW S, NEW s \in Seq(S), NEW r, RangesAreRight(s, r), NEW p \in Groups(s), p[1] >= ContentStart(s),
         \A i \in p[1] .. p[2] : s[i] \notin {".", "legal"}
  PROVE  /\ p[1] \in Nat /\ p[2] \in Nat /\ p[1] < p[2]
         /\ \E n \in 1 .. Len(r) : Covers(r[n], p[1]) /\ Covers(r[n], p[2])
<1>1. p[1] \in 1 .. Len(s) /\ p[2] \in 1 .. Len(s) /\ p[1] < p[2] /\ s[p[1]] \in Opening /\ s[p[2]] \in Closers
  <2>1. p \in Brackets(s).pairs
    BY DEF Groups
  <2> QED BY <2>1, PairsAreBrackets
<1>2. s[p[1]] \notin Separators /\ s[p[2]] \notin Separators
  BY <1>1, Lexicon
<1>3. ContentStart(s) \in Nat /\ Len(s) \in Nat
  BY DEF ContentStart
<1>4. PICK n \in 1 .. Len(r) : Covers(r[n], p[1])
  <2>1. p[1] \in ContentStart(s) .. Len(s)
    BY <1>1, <1>3
  <2> QED BY <1>2, <2>1 DEF RangesAreRight
<1>5. r[n][1] \in Nat /\ r[n][2] \in Nat /\ (r[n][2] <= Len(s) => s[r[n][2]] = "legal" \/ Ends(s, r[n][2]))
  <2>1. r[n] \in Nat \X Nat
    BY DEF RangesAreRight
  <2>2. r[n][2] <= Len(s) => s[r[n][2]] = "legal" \/ Ends(s, r[n][2])
    BY DEF RangesAreRight
  <2> QED BY <2>1, <2>2
<1>6. p[2] < r[n][2]
  <2>1. SUFFICES ASSUME r[n][2] <= p[2] PROVE FALSE
    BY <1>1, <1>5
  <2> DEFINE e == r[n][2]
  <2>2. e \in p[1] .. p[2] /\ p[1] < e /\ e <= Len(s)
    BY <1>1, <1>3, <1>4, <1>5, <2>1 DEF Covers
  <2>3. s[e] \notin {".", "legal"}
    BY <2>2
  <2>4. Ends(s, e)
    BY <1>5, <2>2, <2>3
  <2> HIDE DEF e
  <2>5. s[e] = "," /\ ~(ContentStart(s) <= p[1] /\ p[1] < e /\ e < p[2])
    BY <2>3, <2>4, EndsAreSeparators DEF Separators
  <2>6. e # p[2]
    BY <1>2, <2>5 DEF Separators
  <2>7. e < p[2]
    BY <1>1, <2>2, <2>6
  <2>8. ContentStart(s) <= p[1]
    BY <1>1, <1>3
  <2> QED BY <2>2, <2>5, <2>7, <2>8
<1>7. Covers(r[n], p[2])
  BY <1>1, <1>4, <1>5, <1>6 DEF Covers
<1> QED BY <1>1, <1>4, <1>7

\* A number is in one range only, and the tokens are in their ranges.
Apart(s, r, f, g, tokens) ==
  /\ DOMAIN tokens = 1 .. Len(tokens) /\ Len(tokens) \in Nat
  /\ \A n \in 1 .. Len(r) : r[n][1] \in Nat /\ r[n][2] \in Nat /\ ContentStart(s) <= r[n][1]
  /\ \A n, k \in 1 .. Len(r) : n < k => r[n][2] <= r[k][1]
  /\ \A i \in Nat : \A n, k \in 1 .. Len(r) : Covers(r[n], i) /\ Covers(r[k], i) => n = k
  /\ \A k \in 1 .. Len(tokens) :
       /\ g[k] \in 1 .. Len(r) /\ Adds(s, f[g[k] - 1], r[g[k]], f[g[k]], tokens[k])
       /\ tokens[k].at[1] \in Nat /\ tokens[k].at[2] \in Nat
       /\ r[g[k]][1] <= tokens[k].at[1] /\ tokens[k].at[1] <= tokens[k].at[2]
       /\ tokens[k].at[2] <= r[g[k]][2]
       /\ \A i \in Nat : Covers(tokens[k].at, i) => Covers(r[g[k]], i)
  /\ \A j, k \in 1 .. Len(tokens) : g[j] = g[k] => j = k
  /\ \A j, k \in 1 .. Len(tokens) : j < k => tokens[j].at[2] <= tokens[k].at[1]
  /\ \A i \in Nat : \A j, k \in 1 .. Len(tokens) :
       Covers(tokens[j].at, i) /\ Covers(tokens[k].at, i) => j = k

LEMMA TokensAreApart ==
  ASSUME NEW S, NEW s \in Seq(S), NEW r, RangesAreRight(s, r), NEW f, NEW g, FromRanges(s, r, f, Len(r), g),
         NEW tokens, tokens = f[Len(r)].tokens
  PROVE  Apart(s, r, f, g, tokens)
<1> DEFINE m == Len(r)
           L == Len(tokens)
<1>1. \A n \in 1 .. m : r[n][1] \in Nat /\ r[n][2] \in Nat /\ ContentStart(s) <= r[n][1] /\ r[n][1] <= r[n][2]
  <2>1. \A n \in 1 .. m : r[n] \in Nat \X Nat
    BY DEF RangesAreRight
  <2>2. \A n \in 1 .. m : ContentStart(s) <= r[n][1] /\ r[n][1] <= r[n][2]
    BY DEF RangesAreRight
  <2> QED BY <2>1, <2>2
<1>2. m \in Nat /\ \A n, k \in 1 .. m : n < k => r[n][2] <= r[k][1]
  BY DEF RangesAreRight
<1>3. /\ tokens \in Seq(TokensOf(s)) /\ g \in [1 .. L -> 1 .. m]
      /\ \A j, k \in 1 .. L : j < k => g[j] < g[k]
      /\ \A k \in 1 .. L : Adds(s, f[g[k] - 1], r[g[k]], f[g[k]], tokens[k])
  BY DEF FromRanges
<1>4. DOMAIN tokens = 1 .. L /\ L \in Nat
  BY <1>3
<1> HIDE DEF L, m
<1>5. ASSUME NEW i \in Nat, NEW n \in 1 .. m, NEW k \in 1 .. m, Covers(r[n], i), Covers(r[k], i) PROVE n = k
  <2>1. /\ r[n][1] \in Nat /\ r[n][2] \in Nat /\ r[k][1] \in Nat /\ r[k][2] \in Nat
        /\ n < k => r[n][2] <= r[k][1]
        /\ k < n => r[k][2] <= r[n][1]
    BY <1>1, <1>2
  <2>2. ~(n < k) /\ ~(k < n)
    BY <1>5, <2>1 DEF Covers
  <2> QED BY <1>2, <2>2
<1>6. ASSUME NEW k \in 1 .. L
      PROVE  /\ g[k] \in 1 .. m
             /\ tokens[k].at[1] \in Nat /\ tokens[k].at[2] \in Nat
             /\ r[g[k]][1] <= tokens[k].at[1] /\ tokens[k].at[1] <= tokens[k].at[2]
             /\ tokens[k].at[2] <= r[g[k]][2]
             /\ \A i \in Nat : Covers(tokens[k].at, i) => Covers(r[g[k]], i)
  <2>1. g[k] \in 1 .. m
    BY <1>3
  <2>2. Adds(s, f[g[k] - 1], r[g[k]], f[g[k]], tokens[k])
    BY <1>3
  <2>3. /\ tokens[k].at[1] \in Nat /\ tokens[k].at[2] \in Nat
        /\ r[g[k]][1] <= tokens[k].at[1] /\ tokens[k].at[1] <= tokens[k].at[2]
        /\ tokens[k].at[2] <= r[g[k]][2]
    BY <2>2 DEF Adds
  <2>4. \A i \in Nat : Covers(tokens[k].at, i) => Covers(r[g[k]], i)
    <3>1. r[g[k]][1] \in Nat /\ r[g[k]][2] \in Nat
      BY <1>1, <2>1
    <3> TAKE i \in Nat
    <3>2. PICK a, b, c, d \in Nat : a = r[g[k]][1] /\ b = tokens[k].at[1] /\ c = tokens[k].at[2] /\ d = r[g[k]][2]
      BY <2>3, <3>1
    <3>3. a <= b /\ c <= d
      BY <2>3, <3>2
    <3>4. b <= i /\ i < c => a <= i /\ i < d
      BY ONLY <3>3
    <3> QED BY <3>2, <3>4 DEF Covers
  <2> QED BY <2>1, <2>3, <2>4
<1>7. ASSUME NEW j \in 1 .. L, NEW k \in 1 .. L, g[j] = g[k] PROVE j = k
  <2>1. g[j] \in Nat /\ (j < k => g[j] < g[k]) /\ (k < j => g[k] < g[j])
    BY <1>2, <1>3, <1>6
  <2> QED BY <1>4, <1>7, <2>1
<1>8. ASSUME NEW j \in 1 .. L, NEW k \in 1 .. L, j < k PROVE tokens[j].at[2] <= tokens[k].at[1]
  <2>1. g[j] < g[k] /\ g[j] \in 1 .. m /\ g[k] \in 1 .. m
    BY <1>3, <1>6, <1>8
  <2>2. r[g[j]][2] <= r[g[k]][1] /\ r[g[j]][2] \in Nat /\ r[g[k]][1] \in Nat
    BY <1>1, <1>2, <2>1
  <2>3. tokens[j].at[2] <= r[g[j]][2] /\ r[g[k]][1] <= tokens[k].at[1] /\ tokens[j].at[2] \in Nat /\ tokens[k].at[1] \in Nat
    BY <1>6
  <2> QED BY <2>2, <2>3
<1>9. ASSUME NEW i \in Nat, NEW j \in 1 .. L, NEW k \in 1 .. L, Covers(tokens[j].at, i), Covers(tokens[k].at, i)
      PROVE  j = k
  <2>1. Covers(r[g[j]], i) /\ Covers(r[g[k]], i) /\ g[j] \in 1 .. m /\ g[k] \in 1 .. m
    BY <1>6, <1>9
  <2>2. g[j] = g[k]
    BY <1>5, <2>1
  <2> QED BY <1>7, <2>2
<1> QED BY <1>1, <1>2, <1>3, <1>4, <1>5, <1>6, <1>7, <1>8, <1>9 DEF Apart, L, m
\* A marker that is in no token makes everything after it conditional, and nothing else does.
LEMMA MarkersCount ==
  ASSUME NEW S, NEW s \in Seq(S), NEW r, RangesAreRight(s, r), NEW f, f[0] = Begin,
         NEW g, FromRanges(s, r, f, Len(r), g),
         NEW tokens, tokens = f[Len(r)].tokens, NEW n \in 1 .. Len(tokens)
  PROVE  tokens[n].presence = "MAY_CONTAIN" <=>
           \E i \in 1 .. tokens[n].at[1] - 1 :
             s[i] = "mark" /\ \A k \in 1 .. Len(tokens) : ~Covers(tokens[k].at, i)
<1> DEFINE m == Len(r)
           L == Len(tokens)
           may(k) == f[k].presence = "MAY_CONTAIN"
           lo(k) == tokens[k].at[1]
           hi(k) == tokens[k].at[2]
           first(k) == r[k][1]
           after(k) == r[k][2]
           in(k, i) == Covers(tokens[k].at, i)
           range(k, i) == Covers(r[k], i)
<1>1. Apart(s, r, f, g, tokens)
  BY TokensAreApart
<1>2. /\ \A k, i : in(k, i) <=> lo(k) <= i /\ i < hi(k)
      /\ \A k, i : range(k, i) <=> first(k) <= i /\ i < after(k)
  BY DEF Covers
<1>3. /\ \A k \in 1 .. m : first(k) \in Nat /\ after(k) \in Nat /\ ContentStart(s) <= first(k)
      /\ \A j, k \in 1 .. m : j < k => after(j) <= first(k)
      /\ \A i \in Nat : \A j, k \in 1 .. m : range(j, i) /\ range(k, i) => j = k
      /\ L \in Nat
      /\ \A k \in 1 .. L :
           /\ g[k] \in 1 .. m /\ Adds(s, f[g[k] - 1], r[g[k]], f[g[k]], tokens[k])
           /\ lo(k) \in Nat /\ hi(k) \in Nat
           /\ first(g[k]) <= lo(k) /\ lo(k) <= hi(k) /\ hi(k) <= after(g[k])
           /\ \A i \in Nat : in(k, i) => range(g[k], i)
      /\ \A j, k \in 1 .. L : g[j] = g[k] => j = k
  BY <1>1 DEF Apart
<1>4. m \in Nat /\ ContentStart(s) \in Nat /\ 1 <= ContentStart(s) /\ Len(s) \in Nat
  BY DEF RangesAreRight, ContentStart
<1>5. /\ \A j, k \in 0 .. m : j <= k /\ may(j) => may(k)
      /\ \A k \in 0 .. m : may(k) => \E j \in 1 .. k : may(j) /\ ~may(j - 1)
  BY <1>4, PresenceGrows
<1>6. \A j \in 1 .. m : AddsNothing(s, f[j - 1], r[j], f[j]) \/ \E k \in 1 .. L : g[k] = j
  BY DEF FromRanges
<1>7. tokens[n].presence = "MAY_CONTAIN" <=> may(g[n])
  <2>1. Adds(s, f[g[n] - 1], r[g[n]], f[g[n]], tokens[n])
    BY <1>3
  <2> QED BY <2>1 DEF Adds
<1> HIDE DEF m, L, may, lo, hi, first, after, in, range
<1>8. n \in 1 .. L
  BY DEF L
<1>9. ASSUME may(g[n])
      PROVE  \E i \in 1 .. lo(n) - 1 : s[i] = "mark" /\ \A k \in 1 .. L : ~in(k, i)
  <2>1. g[n] \in 1 .. m /\ g[n] \in 0 .. m
    BY <1>3, <1>4, <1>8
  <2>2. PICK j \in 1 .. g[n] : may(j) /\ ~may(j - 1)
    BY <1>5, <1>9, <2>1
  <2>3. j \in 1 .. m /\ (j = g[n] \/ j < g[n])
    BY <1>4, <2>1
  <2>4. CASE AddsNothing(s, f[j - 1], r[j], f[j]) /\ \A k \in 1 .. L : g[k] # j
    <3>1. PICK i \in Nat : range(j, i) /\ s[i] = "mark"
      BY <2>3, <2>2, <2>4 DEF AddsNothing, may, range
    <3>2. \A k \in 1 .. L : ~in(k, i)
      BY <1>3, <2>3, <2>4, <3>1
    <3>3. j < g[n]
      BY <1>8, <2>3, <2>4
    <3>4. i \in 1 .. lo(n) - 1
      <4>1. after(j) <= first(g[n]) /\ first(g[n]) <= lo(n) /\ ContentStart(s) <= first(j)
        BY <1>3, <1>8, <2>1, <2>3, <3>3
      <4>2. /\ first(j) \in Nat /\ after(j) \in Nat /\ first(g[n]) \in Nat /\ lo(n) \in Nat
        BY <1>3, <1>8, <2>1, <2>3
      <4>3. first(j) <= i /\ i < after(j)
        BY <1>2, <3>1
      <4> QED BY <1>4, <3>1, <4>1, <4>2, <4>3
    <3> QED BY <3>1, <3>2, <3>4
  <2>5. ASSUME NEW k \in 1 .. L, g[k] = j
        PROVE  \E i \in 1 .. lo(n) - 1 : s[i] = "mark" /\ \A l \in 1 .. L : ~in(l, i)
    <3>1. Adds(s, f[j - 1], r[j], f[j], tokens[k])
      BY <1>3, <2>5
    <3>2. PICK i \in Nat : range(j, i) /\ s[i] = "mark" /\ i < lo(k)
      BY <2>2, <3>1 DEF Adds, may, range, in, lo
    <3>3. lo(k) \in Nat /\ lo(k) <= hi(k) /\ hi(k) <= after(j) /\ hi(k) \in Nat
      BY <1>3, <2>5
    <3>4. \A l \in 1 .. L : ~in(l, i)
      <4> SUFFICES ASSUME NEW l \in 1 .. L, in(l, i) PROVE FALSE
        OBVIOUS
      <4>1. l = k
        BY <1>3, <2>3, <2>5, <3>2
      <4>2. lo(k) <= i
        BY <1>2, <4>1
      <4> QED BY <3>2, <3>3, <4>2
    <3>5. lo(k) <= lo(n) /\ lo(n) \in Nat
      <4>1. lo(n) \in Nat /\ first(g[n]) <= lo(n)
        BY <1>3, <1>8
      <4>2. CASE j = g[n]
        BY <1>3, <1>8, <2>5, <3>3, <4>2
      <4>3. CASE j < g[n]
        <5>1. after(j) <= first(g[n]) /\ after(j) \in Nat /\ first(g[n]) \in Nat
          BY <1>3, <2>1, <2>3, <4>3
        <5> QED BY <3>3, <4>1, <5>1
      <4> QED BY <2>3, <4>1, <4>2, <4>3
    <3>6. first(j) \in Nat /\ 1 <= first(j)
      <4>1. first(j) \in Nat /\ ContentStart(s) <= first(j)
        BY <1>3, <2>3
      <4> QED BY <1>4, <4>1
    <3>7. i \in 1 .. lo(n) - 1
      <4>1. first(j) <= i
        BY <1>2, <3>2
      <4> QED BY <3>2, <3>3, <3>5, <3>6, <4>1
    <3> QED BY <3>2, <3>4, <3>7
  <2> QED BY <1>6, <2>3, <2>4, <2>5
<1>10. ASSUME NEW i \in 1 .. lo(n) - 1, s[i] = "mark", \A k \in 1 .. L : ~in(k, i)
      PROVE  may(g[n])
  <2>1. /\ g[n] \in 1 .. m /\ lo(n) \in Nat /\ hi(n) \in Nat /\ lo(n) <= hi(n)
        /\ hi(n) <= after(g[n]) /\ after(g[n]) \in Nat
    BY <1>3, <1>8
  <2>2. i \in ContentStart(s) .. Len(s) /\ i \in Nat
    <3>1. i \in Nat /\ i >= 1 /\ i < lo(n)
      BY <2>1
    <3>2. i <= Len(s)
      <4>1. after(g[n]) <= Len(s) + 1
        BY <2>1 DEF RangesAreRight, m, after
      <4> QED BY <1>4, <2>1, <3>1, <4>1
    <3>3. ContentStart(s) <= i
      <4>1. CASE s # <<>> /\ s[1] = "heading"
        <5>1. i # 1
          BY <1>10, <4>1
        <5> QED BY <3>1, <4>1, <5>1 DEF ContentStart
      <4>2. CASE ~(s # <<>> /\ s[1] = "heading")
        BY <3>1, <4>2 DEF ContentStart
      <4> QED BY <4>1, <4>2
    <3> QED BY <1>4, <3>1, <3>2, <3>3
  <2>3. s[i] \notin Separators
    BY <1>10 DEF Separators
  <2>4. PICK j \in 1 .. m : range(j, i)
    BY <2>2, <2>3 DEF RangesAreRight, m, range
  <2>5. j <= g[n]
    <3>1. SUFFICES ASSUME g[n] < j PROVE FALSE
      BY <1>4, <2>1
    <3>2. after(g[n]) <= first(j) /\ first(j) \in Nat
      BY <1>3, <2>1, <3>1
    <3>3. first(j) <= i /\ i < lo(n) /\ i \in Nat
      BY <1>2, <2>1, <2>2, <2>4
    <3> QED BY <2>1, <3>2, <3>3
  <2>6. may(j)
    <3>1. CASE AddsNothing(s, f[j - 1], r[j], f[j])
      BY <1>10, <2>2, <2>4, <3>1 DEF AddsNothing, may, range
    <3>2. ASSUME NEW k \in 1 .. L, g[k] = j PROVE may(j)
      <4>1. Adds(s, f[j - 1], r[j], f[j], tokens[k])
        BY <1>3, <3>2
      <4>2. ~in(k, i)
        BY <1>10
      <4> QED BY <1>10, <2>2, <2>4, <4>1, <4>2 DEF Adds, may, range, in, lo
    <3> QED BY <1>6, <3>1, <3>2
  <2>7. j \in 0 .. m /\ g[n] \in 0 .. m
    BY <1>4, <2>1
  <2> QED BY <1>5, <2>5, <2>6, <2>7
<1> QED BY <1>7, <1>9, <1>10 DEF L, lo, in

LEMMA LabelsAreReadOnce ==
  ASSUME NEW S, NEW s \in Seq(S), NEW r, RangesAreRight(s, r), NEW f, Reads(f, s, r, Len(r)),
         NEW tokens, tokens = f[Len(r)].tokens
  PROVE  ReadOnce(s, tokens)
<1> DEFINE in(i) == {n \in DOMAIN tokens : tokens[n].at[1] <= i /\ i < tokens[n].at[2]}
           from == ContentStart(s)
           whole == {p \in Groups(s) : /\ p[1] >= from
                                       /\ p[1] > 1 => s[p[1] - 1] # "mark"
                                       /\ \A i \in p[1] .. p[2] : s[i] \notin {".", "legal"}}
           m == Len(r)
           L == Len(tokens)
           at(k) == tokens[k].at
<1>1. PICK g : FromRanges(s, r, f, m, g)
  BY TokensComeFromRanges
<1>2. m \in Nat /\ from \in Nat /\ 1 <= from /\ Len(s) \in Nat
  BY DEF RangesAreRight, ContentStart
<1>3. f[0] = Begin
  BY <1>2 DEF Reads
<1>4. /\ DOMAIN tokens = 1 .. L /\ L \in Nat
      /\ \A i \in Nat : \A n, k \in 1 .. m : Covers(r[n], i) /\ Covers(r[k], i) => n = k
      /\ \A k \in 1 .. L :
           /\ g[k] \in 1 .. m /\ Adds(s, f[g[k] - 1], r[g[k]], f[g[k]], tokens[k])
           /\ at(k)[1] \in Nat /\ at(k)[2] \in Nat
      /\ \A j, k \in 1 .. L : j < k => at(j)[2] <= at(k)[1]
      /\ \A i \in Nat : \A j, k \in 1 .. L : Covers(at(j), i) /\ Covers(at(k), i) => j = k
  <2>1. Apart(s, r, f, g, tokens)
    BY <1>1, TokensAreApart DEF m
  <2> QED BY <2>1 DEF Apart
<1>5. \A j \in 1 .. m : AddsNothing(s, f[j - 1], r[j], f[j]) \/ \E k \in 1 .. L : g[k] = j
  BY <1>1 DEF FromRanges
<1> HIDE DEF m, L
<1>6. \A i : in(i) = {n \in 1 .. L : Covers(at(n), i)}
  BY <1>4 DEF Covers
<1> HIDE DEF in
<1>7. \A i \in Nat : \A k \in 1 .. L : Covers(at(k), i) => in(i) = {k}
  BY <1>4, <1>6
<1>8. ASSUME NEW i \in from .. Len(s)
      PROVE  /\ s[i] \in (Words \cup {"?"}) \ {"mark"} => Cardinality(in(i)) = 1
             /\ Cardinality(in(i)) <= 1
  <2>1. i \in Nat
    BY <1>2
  <2>2. \A k \in 1 .. L : Covers(at(k), i) => Cardinality(in(i)) = 1
    BY <1>7, <2>1, FS_Singleton
  <2>3. (\A k \in 1 .. L : ~Covers(at(k), i)) => Cardinality(in(i)) = 0
    <3> SUFFICES ASSUME \A k \in 1 .. L : ~Covers(at(k), i) PROVE Cardinality(in(i)) = 0
      OBVIOUS
    <3>1. in(i) = {}
      BY <1>6
    <3> QED BY <3>1, FS_EmptySet
  <2>4. ASSUME Solid(s, i) PROVE \E k \in 1 .. L : Covers(at(k), i)
    <3>1. s[i] \notin Separators
      BY <2>4, Lexicon DEF Solid
    <3>2. PICK j \in 1 .. m : Covers(r[j], i)
      BY <3>1 DEF RangesAreRight, m
    <3>3. ~AddsNothing(s, f[j - 1], r[j], f[j])
      BY <2>1, <2>4, <3>2 DEF AddsNothing
    <3>4. PICK k \in 1 .. L : g[k] = j
      BY <1>5, <3>3
    <3>5. Adds(s, f[j - 1], r[j], f[j], tokens[k])
      BY <1>4, <3>4
    <3> QED BY <2>1, <2>4, <3>2, <3>5 DEF Adds
  <2>5. Cardinality(in(i)) = 1 \/ Cardinality(in(i)) = 0
    BY <2>2, <2>3
  <2> QED BY <2>2, <2>4, <2>5 DEF Solid
<1>9. ASSUME NEW n \in DOMAIN tokens, n > 1 PROVE tokens[n - 1].at[2] <= tokens[n].at[1]
  <2>1. n \in 1 .. L /\ n - 1 \in 1 .. L /\ n - 1 < n
    BY <1>4, <1>9
  <2> QED BY <1>4, <2>1
<1>10. ASSUME NEW p \in whole, NEW i \in p[1] .. p[2] PROVE in(i) = in(p[1])
  <2>1. /\ p \in Groups(s) /\ p[1] >= ContentStart(s) /\ (p[1] > 1 => s[p[1] - 1] # "mark")
        /\ \A x \in p[1] .. p[2] : s[x] \notin {".", "legal"}
    OBVIOUS
  <2>2. /\ p[1] \in Nat /\ p[2] \in Nat /\ p[1] < p[2]
        /\ \E n \in 1 .. m : Covers(r[n], p[1]) /\ Covers(r[n], p[2])
    BY <2>1, GroupsAreInRanges DEF m
  <2>3. PICK n \in 1 .. m : Covers(r[n], p[1]) /\ Covers(r[n], p[2])
    BY <2>2
  <2>4. Whole(s, p)
    BY <2>1 DEF Whole
  <2>5. ~AddsNothing(s, f[n - 1], r[n], f[n])
    BY <2>3, <2>4 DEF AddsNothing
  <2>6. PICK k \in 1 .. L : g[k] = n
    BY <1>5, <2>5
  <2>7. Adds(s, f[n - 1], r[n], f[n], tokens[k])
    BY <1>4, <2>6
  <2>8. Covers(at(k), p[1]) /\ Covers(at(k), p[2])
    BY <2>3, <2>4, <2>7 DEF Adds
  <2>9. i \in Nat /\ p[1] <= i /\ i <= p[2]
    BY <2>2
  <2>10. Covers(at(k), i)
    <3>1. PICK a \in Nat, z \in Nat : a = at(k)[1] /\ z = at(k)[2]
      BY <1>4
    <3>2. a <= p[1] /\ p[2] < z
      BY <2>8, <3>1 DEF Covers
    <3>3. a <= i /\ i < z
      BY <2>2, <2>9, <3>2
    <3> QED BY <3>1, <3>3 DEF Covers
  <2> QED BY <1>7, <2>2, <2>8, <2>9, <2>10
<1>11. ASSUME NEW n \in DOMAIN tokens
       PROVE  tokens[n].presence = "MAY_CONTAIN" <=>
                \E i \in 1 .. tokens[n].at[1] - 1 : s[i] = "mark" /\ in(i) = {}
  <2>1. n \in 1 .. L
    BY <1>4
  <2>2. tokens[n].presence = "MAY_CONTAIN" <=>
          \E i \in 1 .. tokens[n].at[1] - 1 :
            s[i] = "mark" /\ \A k \in 1 .. L : ~Covers(tokens[k].at, i)
    BY <1>1, <1>3, <2>1, MarkersCount DEF L, m
  <2>3. \A i : in(i) = {} <=> \A k \in 1 .. L : ~Covers(tokens[k].at, i)
    BY <1>6
  <2> QED BY <2>2, <2>3
<1> HIDE DEF whole, from
<1>12. /\ \A i \in from .. Len(s) :
            /\ s[i] \in (Words \cup {"?"}) \ {"mark"} => Cardinality(in(i)) = 1
            /\ Cardinality(in(i)) <= 1
       /\ \A n \in DOMAIN tokens : n > 1 => tokens[n - 1].at[2] <= tokens[n].at[1]
       /\ \A p \in whole : \A i \in p[1] .. p[2] : in(i) = in(p[1])
       /\ \A n \in DOMAIN tokens : tokens[n].presence = "MAY_CONTAIN" <=>
            \E i \in 1 .. tokens[n].at[1] - 1 : s[i] = "mark" /\ in(i) = {}
  BY <1>8, <1>9, <1>10, <1>11
<1> QED BY <1>12 DEF ReadOnce, in, whole, from

LEMMA LabelOnce ==
  ASSUME NEW S, label \in Seq(S) PROVE LabelIsRead
<1> DEFINE r == TokenRanges(label)
           m == Len(r)
           f == CHOOSE f : Reads(f, label, r, m)
<1>1. RangesAreRight(label, r)
  BY RangesAre
<1>2. m \in Nat
  BY <1>1 DEF RangesAreRight
<1>3. Reads(f, label, r, m)
  <2> HIDE DEF m, r
  <2> QED BY <1>2, ReadingExists
<1>4. parseInci(label) = f[m].tokens
  BY DEF parseInci, Reads
<1> HIDE DEF r, f
<1>5. ReadOnce(label, parseInci(label))
  BY <1>1, <1>3, <1>4, LabelsAreReadOnce
<1>6. ASSUME NEW tokens \in {parseInci(label)} PROVE ReadOnce(label, tokens)
  BY <1>5
<1> QED BY <1>6 DEF LabelIsRead, ReadOnce

\* Whatever is printed on a label, and however much: every word is read once, in the order of
\* the label, groups stay together, and conditions hold for what follows them.
THEOREM LabelIsAlwaysRead == LabelSpec => []LabelIsRead
<1>1. LabelInit => label \in Seq(Printed)
  BY DEF LabelInit
<1>2. label \in Seq(Printed) /\ [LabelNext]_label => (label \in Seq(Printed))'
  BY DEF LabelNext
<1>3. label \in Seq(Printed) => LabelIsRead
  BY LabelOnce
<1> QED BY <1>1, <1>2, <1>3, PTL DEF LabelSpec
=============================================================================
