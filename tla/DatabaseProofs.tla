--------------------------- MODULE DatabaseProofs ---------------------------
(***************************************************************************)
(* Proofs about what many requests do to the database at once: for any     *)
(* provider calls, limits and days the budget is kept (ProviderBudget),    *)
(* and for any uploads to a collection the statements and row locks of     *)
(* MediaAdmission implement the single steps of MediaRows.                 *)
(***************************************************************************)
EXTENDS MediaAdmission, ProviderBudget, FiniteSetTheorems, TLAPS

-----------------------------------------------------------------------------
(* The budget.  That what is charged is concluded at most once rests on    *)
(* where the one message that may conclude it is: a reservation that is    *)
(* admitted is with the database, with the provider or on its way to be    *)
(* completed, never in two of these places.                                *)

CallSound(c) ==
  /\ stage[c] = "IDLE" => db[c] = "NONE" /\ row[c] = NoRow /\ c \notin inner
  /\ db[c] = "SENT" => row[c] = NoRow
  /\ db[c] = "ADMITTED" => row[c] = "OPEN"
  /\ stage[c] \in {"ADMITTED", "DISPATCHED"} => db[c] = "NONE" /\ row[c] = "OPEN"
  /\ Completing(c) =>
       /\ row[c] = "OPEN"
       /\ db[c] \notin {"SENT", "ADMITTED"}
       /\ stage[c] \notin {"IDLE", "ADMITTED", "DISPATCHED"}
  /\ c \in dispatched => row[c] # NoRow

OneCompletion == \A m, n \in completions : m[1] = n[1] => m = n

\* The limit of a day never exceeds that of a call charged to it.
ChargeSound(d) ==
  /\ IsFiniteSet(ChargedOn(d))
  /\ admitted[d] = Cardinality(ChargedOn(d))
  /\ \A c \in ChargedOn(d) :
       /\ d \in DOMAIN limit
       /\ limit[d] <= LimitOf[c]
       /\ admitted[d] <= LimitOf[c]

BudgetInv ==
  /\ BudgetTypeOK
  /\ OneCompletion
  /\ \A c \in Calls : CallSound(c)
  /\ \A d \in Days : ChargeSound(d)

LEMMA BudgetStarts == BudgetInit => BudgetInv
<1> SUFFICES ASSUME BudgetInit PROVE BudgetInv
  OBVIOUS
<1> USE DEF BudgetInit
<1>1. BudgetTypeOK
  BY LastDayAssumption DEF BudgetTypeOK, Days, Stages, NoRow
<1>2. OneCompletion /\ \A c \in Calls : CallSound(c)
  BY DEF OneCompletion, CallSound, Completing
<1>3. \A d \in Days : ChargedOn(d) = {}
  BY DEF ChargedOn
<1>4. \A d \in Days : ChargeSound(d)
  BY <1>3, FS_EmptySet DEF ChargeSound
<1> QED BY <1>1, <1>2, <1>4 DEF BudgetInv

\* Steps that charge nothing leave the charges as they are.
LEMMA NothingCharged ==
  ASSUME NEW d \in Days, ChargeSound(d), UNCHANGED <<limit, admitted, row, rowDay>>
  PROVE  ChargeSound(d)'
BY DEF ChargeSound, ChargedOn

\* A call takes a step that touches no other call's part of the state.
LEMMA OthersKeepTheirCall ==
  ASSUME NEW c \in Calls, NEW e \in Calls \ {c}, CallSound(e), BudgetTypeOK,
         stage'[e] = stage[e], db'[e] = db[e], row'[e] = row[e],
         e \in inner' <=> e \in inner, e \in dispatched' <=> e \in dispatched,
         Completing(e)' => Completing(e)
  PROVE  CallSound(e)'
BY DEF CallSound

LEMMA LocalStep ==
  ASSUME BudgetInv, BudgetTypeOK', NEW c \in Calls, UNCHANGED rows,
         \A e \in Calls \ {c} : /\ stage'[e] = stage[e] /\ db'[e] = db[e]
                                /\ e \in inner' <=> e \in inner
                                /\ e \in dispatched' <=> e \in dispatched,
         \/ completions' \subseteq completions
         \/ ~Completing(c) /\ \E o \in Outcomes : completions' = completions \cup {<<c, o>>},
         CallSound(c)'
  PROVE  BudgetInv'
<1>1. \A e \in Calls \ {c} : Completing(e)' => Completing(e)
  BY DEF Completing
<1>2. \A e \in Calls : CallSound(e)'
  BY <1>1, OthersKeepTheirCall DEF BudgetInv, rows
<1>3. OneCompletion'
  BY DEF OneCompletion, BudgetInv, Completing
<1>4. \A d \in Days : ChargeSound(d)'
  BY NothingCharged DEF BudgetInv, rows
<1> QED BY <1>2, <1>3, <1>4 DEF BudgetInv

LEMMA BeginStep ==
  ASSUME BudgetInv, NEW c \in Calls, Begin(c)
  PROVE  BudgetInv'
<1> USE DEF Begin, Enters
<1>1. BudgetTypeOK'
  BY DEF BudgetInv, BudgetTypeOK, Stages, rows
<1>2. CallSound(c)'
  <2>1. CallSound(c) /\ stage[c] = "IDLE"
    BY DEF BudgetInv
  <2>2. stage'[c] \in {"ENDED", "ADMITTING"} /\ db'[c] \in {"NONE", "SENT"} /\ row'[c] = NoRow
    BY <2>1 DEF CallSound, BudgetInv, BudgetTypeOK, rows
  <2>3. Completing(c)' = Completing(c) /\ (c \in dispatched' <=> c \in dispatched)
    BY DEF Completing
  <2> QED BY <2>1, <2>2, <2>3 DEF CallSound, NoRow
<1> QED BY <1>1, <1>2, LocalStep DEF BudgetInv, BudgetTypeOK

\* What the outer wait does with the decision of the inner one.
LEMMA SettleStep ==
  ASSUME BudgetInv, NEW c \in Calls, stage[c] # "DEAD", c \in inner, NEW decision \in Decisions,
         db[c] \in Decisions \cup {"SENT", "NONE"},
         inner' = inner \ {c}, OuterSettles(c, decision),
         UNCHANGED <<today, spaced, rows, aborted, dispatched>>,
         \/ UNCHANGED db /\ decision = "BUDGET_UNAVAILABLE"
         \/ db' = [db EXCEPT ![c] = "NONE"] /\ decision = db[c]
  PROVE  BudgetInv'
<1> USE DEF OuterSettles, Enters
<1>1. BudgetTypeOK'
  <2>1. completions' \subseteq Calls \X Outcomes
    BY DEF BudgetInv, BudgetTypeOK, LateOutcome, Outcomes
  <2>2. stage' \in [Calls -> Stages]
    BY DEF BudgetInv, BudgetTypeOK, Stages
  <2> QED BY <2>1, <2>2 DEF BudgetInv, BudgetTypeOK, rows
<1>2. CallSound(c)
  BY DEF BudgetInv
<1>3. CallSound(c)'
  <2>1. row'[c] = row[c] /\ (c \in dispatched' <=> c \in dispatched)
    BY DEF rows
  <2>2. stage'[c] = stage[c] \/ stage'[c] = decision
    BY DEF BudgetInv, BudgetTypeOK
  <2>3. db'[c] \in {"NONE", db[c]}
    BY DEF BudgetInv, BudgetTypeOK
  <2>4. CASE stage[c] = "ADMITTING"
    <3>1. stage'[c] = decision /\ (Completing(c)' <=> Completing(c))
      BY <2>4 DEF BudgetInv, BudgetTypeOK, Completing
    <3>2. decision = "ADMITTED" => db[c] = "ADMITTED" /\ db'[c] = "NONE"
      BY DEF BudgetInv, BudgetTypeOK
    <3> QED BY <1>2, <2>1, <2>3, <3>1, <3>2 DEF CallSound, Decisions, Denials
  <2>5. CASE stage[c] # "ADMITTING"
    <3>1. stage' = stage
      BY <2>5
    <3>2. CASE decision = "ADMITTED"
      <4>1. db[c] = "ADMITTED" /\ db'[c] = "NONE"
        BY <3>2 DEF BudgetInv, BudgetTypeOK
      <4> QED BY <1>2, <2>1, <3>1, <4>1 DEF CallSound
    <3>3. CASE decision # "ADMITTED"
      <4>1. completions' = completions
        BY <2>5, <3>3
      <4> QED BY <1>2, <2>1, <2>3, <3>1, <4>1 DEF CallSound, Completing
    <3> QED BY <3>2, <3>3
  <2> QED BY <2>4, <2>5
<1>4. \/ completions' \subseteq completions
      \/ ~Completing(c) /\ \E o \in Outcomes : completions' = completions \cup {<<c, o>>}
  <2>1. CASE stage[c] # "ADMITTING" /\ decision = "ADMITTED"
    BY <1>2, <2>1 DEF CallSound, LateOutcome, Outcomes
  <2> QED BY <2>1
<1> QED BY <1>1, <1>3, <1>4, LocalStep DEF BudgetInv, BudgetTypeOK

LEMMA HandleStep ==
  ASSUME BudgetInv, NEW c \in Calls, Handle(c)
  PROVE  BudgetInv'
<1>1. CallSound(c) /\ BudgetTypeOK
  BY DEF BudgetInv
<1>2. CASE InnerTimeout(c)
  BY <1>1, <1>2, SettleStep DEF InnerTimeout, Decisions, Denials, BudgetTypeOK
<1>3. CASE OuterTimeout(c)
  <2> USE <1>3 DEF OuterTimeout, Enters
  <2>1. BudgetTypeOK'
    BY <1>1 DEF BudgetTypeOK, Stages, Decisions, Denials, rows
  <2>2. CallSound(c)'
    BY <1>1 DEF CallSound, BudgetTypeOK, Completing, rows
  <2> QED BY <2>1, <2>2, LocalStep DEF BudgetInv, BudgetTypeOK
<1>4. CASE ReserveAnswers(c)
  <2>1. CASE c \in inner
    BY <1>1, <1>4, <2>1, SettleStep DEF ReserveAnswers
  <2>2. CASE c \notin inner
    <3> USE <1>4, <2>2 DEF ReserveAnswers
    <3>1. stage' = stage /\ inner' = inner /\ db'[c] = "NONE"
      BY <1>1 DEF BudgetTypeOK
    <3>2. CASE db[c] = "ADMITTED"
      <4>1. completions' = completions \cup {<<c, "TIMEOUT">>} /\ ~Completing(c)
        BY <1>1, <3>2 DEF LateAdmission, CallSound
      <4>2. BudgetTypeOK'
        BY <1>1, <4>1 DEF BudgetTypeOK, Outcomes, rows
      <4>3. CallSound(c)'
        BY <1>1, <3>1, <3>2, <4>1 DEF CallSound, rows
      <4> QED BY <3>1, <4>1, <4>2, <4>3, LocalStep DEF BudgetInv, BudgetTypeOK, Outcomes
    <3>3. CASE db[c] # "ADMITTED"
      <4>1. completions' = completions
        BY <3>3
      <4>2. BudgetTypeOK'
        BY <1>1, <3>1, <4>1 DEF BudgetTypeOK, rows
      <4>3. CallSound(c)'
        BY <1>1, <3>1, <4>1 DEF CallSound, rows, Completing
      <4> QED BY <3>1, <4>1, <4>2, <4>3, LocalStep DEF BudgetInv, BudgetTypeOK
    <3> QED BY <3>2, <3>3
  <2> QED BY <2>1, <2>2
<1>5. CASE Dispatch(c)
  <2> USE <1>5 DEF Dispatch, MayDispatch, Enters
  <2>1. BudgetTypeOK'
    BY <1>1 DEF BudgetTypeOK, Stages, rows
  <2>2. CallSound(c)'
    BY <1>1 DEF CallSound, BudgetTypeOK, Completing, rows, NoRow
  <2> QED BY <2>1, <2>2, LocalStep DEF BudgetInv, BudgetTypeOK
<1>6. CASE GiveUp(c)
  <2> USE <1>6 DEF GiveUp, Enters
  <2>1. CASE stage[c] = "ADMITTED"
    <3>1. PICK o \in {"ABORTED", "TIMEOUT"} : completions' = completions \cup {<<c, o>>}
      BY <2>1
    <3>2. BudgetTypeOK'
      BY <1>1, <3>1 DEF BudgetTypeOK, Stages, Outcomes, rows
    <3>3. CallSound(c)' /\ ~Completing(c)
      BY <1>1, <2>1 DEF CallSound, BudgetTypeOK, rows
    <3> QED BY <3>1, <3>2, <3>3, LocalStep DEF BudgetInv, BudgetTypeOK, Outcomes
  <2>2. CASE stage[c] # "ADMITTED"
    <3>1. completions' = completions
      BY <2>2
    <3>2. BudgetTypeOK'
      BY <1>1, <3>1 DEF BudgetTypeOK, Stages, rows
    <3>3. CallSound(c)'
      BY <1>1, <3>1 DEF CallSound, BudgetTypeOK, Completing, rows, Denials
    <3> QED BY <3>1, <3>2, <3>3, LocalStep DEF BudgetInv, BudgetTypeOK
  <2> QED BY <2>1, <2>2
<1>7. CASE Return(c)
  <2> USE <1>7 DEF Return, Enters
  <2>1. PICK o \in Outcomes : completions' = completions \cup {<<c, o>>}
    OBVIOUS
  <2>2. BudgetTypeOK'
    BY <1>1, <2>1 DEF BudgetTypeOK, Stages, rows
  <2>3. CallSound(c)' /\ ~Completing(c)
    BY <1>1 DEF CallSound, BudgetTypeOK, rows
  <2> QED BY <2>1, <2>2, <2>3, LocalStep DEF BudgetInv, BudgetTypeOK
<1> QED BY <1>2, <1>3, <1>4, <1>5, <1>6, <1>7 DEF Handle

LEMMA EndStep ==
  ASSUME BudgetInv, NEW c \in Calls, Abort(c) \/ Die(c)
  PROVE  BudgetInv'
<1>1. CallSound(c) /\ BudgetTypeOK
  BY DEF BudgetInv
<1>2. BudgetTypeOK'
  BY <1>1 DEF Abort, Die, Enters, BudgetTypeOK, Stages, Decisions, Denials, rows
<1>3. CallSound(c)'
  BY <1>1 DEF Abort, Die, Enters, CallSound, BudgetTypeOK, Completing, rows
<1>4. completions' \subseteq completions
  BY DEF Abort, Die
<1> QED BY <1>1, <1>2, <1>3, <1>4, LocalStep DEF Abort, Die, Enters, BudgetTypeOK

LEMMA CompleteStep ==
  ASSUME BudgetInv, NEW m \in completions, CompleteRow(m)
  PROVE  BudgetInv'
<1> USE DEF CompleteRow
<1>1. BudgetTypeOK /\ OneCompletion /\ m[1] \in Calls /\ m[2] \in Outcomes
  BY DEF BudgetInv, BudgetTypeOK
<1>2. CallSound(m[1]) /\ Completing(m[1]) /\ row[m[1]] = "OPEN"
  BY <1>1 DEF BudgetInv, Completing, CallSound
<1>3. BudgetTypeOK'
  BY <1>1 DEF BudgetTypeOK
<1>4. ~Completing(m[1])'
  BY <1>1 DEF Completing, OneCompletion
<1>5. \A c \in Calls \ {m[1]} : row'[c] = row[c] /\ (Completing(c)' => Completing(c))
  BY <1>1 DEF BudgetTypeOK, Completing
<1>6. row'[m[1]] # NoRow
  BY <1>1, <1>2 DEF BudgetTypeOK, NoRow, Outcomes
<1>7. \A c \in Calls : CallSound(c)'
  <2> TAKE c \in Calls
  <2>1. CallSound(c)
    BY DEF BudgetInv
  <2>2. CASE c = m[1]
    <3>1. stage'[c] = stage[c] /\ db'[c] = db[c] /\ ~Completing(c)'
      BY <2>2, <1>4
    <3>2. db[c] # "SENT" /\ db[c] # "ADMITTED" /\ stage[c] \notin {"IDLE", "ADMITTED", "DISPATCHED"}
      BY <1>2, <2>2 DEF CallSound
    <3> QED BY <3>1, <3>2, <1>6, <2>2 DEF CallSound
  <2>3. CASE c # m[1]
    BY <1>5, <2>1, <2>3 DEF CallSound
  <2> QED BY <2>2, <2>3
<1>8. OneCompletion'
  BY <1>1 DEF OneCompletion
<1>9. \A d \in Days : ChargeSound(d)'
  <2> TAKE d \in Days
  <2>1. ChargedOn(d)' = ChargedOn(d)
    BY <1>2, <1>5, <1>6 DEF ChargedOn, NoRow
  <2> QED BY <2>1 DEF BudgetInv, ChargeSound
<1> QED BY <1>3, <1>7, <1>8, <1>9 DEF BudgetInv

\* A reservation charges the day it is made on, and no other.
LEMMA ChargeStep ==
  ASSUME BudgetInv, NEW c \in Calls, db[c] = "SENT",
         limit' = [d \in DOMAIN limit \cup {today} |->
                     IF d = today THEN LowerLimit(today, LimitOf[c]) ELSE limit[d]],
         Affordable(admitted[today], limit'[today]),
         admitted' = [admitted EXCEPT ![today] = @ + 1],
         row' = [row EXCEPT ![c] = "OPEN"],
         rowDay' = [rowDay EXCEPT ![c] = today],
         NEW d \in Days
  PROVE  ChargeSound(d)'
<1>1. /\ BudgetTypeOK /\ CallSound(c) /\ ChargeSound(d) /\ today \in Days
      /\ row[c] = NoRow /\ LimitOf[c] \in Nat
  BY LimitAssumption DEF BudgetInv, CallSound, BudgetTypeOK
<1>2. /\ limit'[today] \in Nat /\ limit'[today] <= LimitOf[c]
      /\ today \in DOMAIN limit => limit'[today] <= limit[today]
      /\ DOMAIN limit' = DOMAIN limit \cup {today}
      /\ \A e \in DOMAIN limit \ {today} : limit'[e] = limit[e]
  BY <1>1 DEF LowerLimit, BudgetTypeOK
<1>3. CASE d # today
  <2>1. ChargedOn(d)' = ChargedOn(d)
    BY <1>1, <1>3 DEF ChargedOn, BudgetTypeOK
  <2>2. admitted'[d] = admitted[d]
    BY <1>1, <1>3 DEF BudgetTypeOK
  <2> QED BY <1>1, <1>2, <1>3, <2>1, <2>2 DEF ChargeSound
<1>4. CASE d = today
  <2>1. c \notin ChargedOn(d) /\ ChargedOn(d)' = ChargedOn(d) \cup {c}
    BY <1>1, <1>4 DEF ChargedOn, BudgetTypeOK, NoRow
  <2>2. /\ IsFiniteSet(ChargedOn(d)')
        /\ Cardinality(ChargedOn(d)') = Cardinality(ChargedOn(d)) + 1
    BY <1>1, <2>1, FS_AddElement DEF ChargeSound
  <2>3. /\ admitted'[d] = admitted[d] + 1 /\ admitted[d] \in Nat
        /\ admitted'[d] <= limit'[d]
    BY <1>1, <1>2, <1>4 DEF BudgetTypeOK, Affordable
  <2>4. \A e \in ChargedOn(d) : limit'[d] <= LimitOf[e]
    <3> TAKE e \in ChargedOn(d)
    <3>1. d \in DOMAIN limit /\ limit[d] <= LimitOf[e] /\ limit[d] \in Nat /\ LimitOf[e] \in Nat
      BY <1>1, LimitAssumption DEF ChargeSound, BudgetTypeOK, ChargedOn
    <3> QED BY <1>2, <1>4, <3>1
  <2>5. \A e \in ChargedOn(d)' :
          d \in DOMAIN limit' /\ limit'[d] <= LimitOf[e] /\ admitted'[d] <= LimitOf[e]
    <3> SUFFICES ASSUME NEW e \in ChargedOn(d) \cup {c}
                 PROVE d \in DOMAIN limit' /\ limit'[d] <= LimitOf[e] /\ admitted'[d] <= LimitOf[e]
      BY <2>1
    <3>1. limit'[d] <= LimitOf[e] /\ LimitOf[e] \in Nat
      BY <1>2, <1>4, <2>4, LimitAssumption DEF ChargedOn
    <3> QED BY <1>2, <1>4, <2>3, <3>1
  <2> QED BY <1>1, <2>2, <2>3, <2>5 DEF ChargeSound
<1> QED BY <1>3, <1>4

LEMMA ReserveStep ==
  ASSUME BudgetInv, NEW c \in Calls, Reserve(c)
  PROVE  BudgetInv'
<1>1. BudgetTypeOK /\ CallSound(c) /\ db[c] = "SENT" /\ row[c] = NoRow
  BY DEF BudgetInv, Reserve, CallSound
<1>2. UNCHANGED <<today, inner, stage, aborted, dispatched, completions>>
  BY DEF Reserve
<1>3. \A e \in Calls : Completing(e)' <=> Completing(e)
  BY <1>2 DEF Completing
<1>4. OneCompletion'
  BY <1>2 DEF BudgetInv, OneCompletion
<1>5. CASE UNCHANGED rows /\ \E a \in Denials : db' = [db EXCEPT ![c] = a] /\ spaced' = spaced
  <2>1. BudgetTypeOK'
    BY <1>1, <1>2, <1>5 DEF BudgetTypeOK, rows, Decisions
  <2>2. CallSound(c)'
    BY <1>1, <1>2, <1>3, <1>5 DEF CallSound, rows, BudgetTypeOK, Denials
  <2> QED BY <1>2, <1>5, <2>1, <2>2, LocalStep DEF BudgetInv, BudgetTypeOK
<1>6. CASE /\ limit' = [d \in DOMAIN limit \cup {today} |->
                          IF d = today THEN LowerLimit(today, LimitOf[c]) ELSE limit[d]]
           /\ Affordable(admitted[today], limit'[today])
           /\ admitted' = [admitted EXCEPT ![today] = @ + 1]
           /\ row' = [row EXCEPT ![c] = "OPEN"]
           /\ rowDay' = [rowDay EXCEPT ![c] = today]
           /\ spaced' \in {TRUE, FALSE}
           /\ \E a \in {"ADMITTED", "BUDGET_UNAVAILABLE"} : db' = [db EXCEPT ![c] = a]
  <2>1. LowerLimit(today, LimitOf[c]) \in Nat
    BY <1>1, LimitAssumption DEF LowerLimit, BudgetTypeOK
  <2>2. admitted' \in [Days -> Nat]
    BY <1>1, <1>6 DEF BudgetTypeOK
  <2>3. DOMAIN limit' \subseteq Days /\ \A d \in DOMAIN limit' : limit'[d] \in Nat
    BY <1>1, <1>6, <2>1 DEF BudgetTypeOK
  <2>4. db' \in [Calls -> Decisions \cup {"NONE", "SENT"}]
    BY <1>1, <1>6 DEF BudgetTypeOK, Decisions, Denials
  <2>5. BudgetTypeOK'
    BY <1>1, <1>2, <1>6, <2>2, <2>3, <2>4 DEF BudgetTypeOK
  <2>6. \A e \in Calls : CallSound(e)'
    <3> TAKE e \in Calls
    <3>1. CallSound(e)
      BY DEF BudgetInv
    <3>2. CASE e = c
      <4>1. db'[c] \in {"ADMITTED", "BUDGET_UNAVAILABLE"} /\ row'[c] = "OPEN"
        BY <1>1, <1>6 DEF BudgetTypeOK
      <4>2. stage[c] \notin {"IDLE", "ADMITTED", "DISPATCHED"} /\ ~Completing(c)
        BY <1>1 DEF CallSound
      <4> QED BY <1>2, <1>3, <3>2, <4>1, <4>2 DEF CallSound, NoRow
    <3>3. CASE e # c
      BY <1>1, <1>2, <1>3, <1>6, <3>1, <3>3 DEF CallSound, BudgetTypeOK
    <3> QED BY <3>2, <3>3
  <2>7. \A d \in Days : ChargeSound(d)'
    BY <1>1, <1>6, ChargeStep
  <2> QED BY <1>4, <2>5, <2>6, <2>7 DEF BudgetInv
<1>7. CASE /\ limit' = [d \in DOMAIN limit \cup {today} |->
                          IF d = today THEN LowerLimit(today, LimitOf[c]) ELSE limit[d]]
           /\ ~Affordable(admitted[today], limit'[today])
           /\ db' = [db EXCEPT ![c] = "BUDGET_EXHAUSTED"]
           /\ UNCHANGED <<admitted, row, rowDay, spaced>>
  <2>1. LowerLimit(today, LimitOf[c]) \in Nat
    BY <1>1, LimitAssumption DEF LowerLimit, BudgetTypeOK
  <2>2. BudgetTypeOK'
    BY <1>1, <1>2, <1>7, <2>1 DEF BudgetTypeOK, Decisions, Denials
  <2>3. \A e \in Calls : CallSound(e)'
    BY <1>1, <1>2, <1>3, <1>7 DEF BudgetInv, CallSound, BudgetTypeOK
  <2>4. \A d \in Days : ChargeSound(d)'
    <3> TAKE d \in Days
    <3>1. ChargeSound(d) /\ ChargedOn(d)' = ChargedOn(d) /\ admitted' = admitted
      BY <1>7 DEF BudgetInv, ChargedOn
    <3>2. \A e \in ChargedOn(d) : d \in DOMAIN limit' /\ limit'[d] <= LimitOf[e]
      <4> TAKE e \in ChargedOn(d)
      <4>1. d \in DOMAIN limit /\ limit[d] <= LimitOf[e] /\ limit[d] \in Nat
            /\ LimitOf[e] \in Nat /\ LimitOf[c] \in Nat
        BY <1>1, <3>1, LimitAssumption DEF ChargeSound, BudgetTypeOK, ChargedOn
      <4> QED BY <1>7, <4>1 DEF LowerLimit
    <3> QED BY <3>1, <3>2 DEF ChargeSound
  <2> QED BY <1>4, <2>2, <2>3, <2>4 DEF BudgetInv
<1> QED BY <1>5, <1>6, <1>7 DEF Reserve, ReserveRows, Denials

LEMMA BudgetSteps == BudgetInv /\ [BudgetNext]_budgetVars => BudgetInv'
<1> SUFFICES ASSUME BudgetInv, [BudgetNext]_budgetVars PROVE BudgetInv'
  OBVIOUS
<1>1. CASE NextDay \/ IntervalPasses \/ UNCHANGED budgetVars
  <2>1. BudgetTypeOK'
    <3>1. today' \in Days
      BY <1>1, LastDayAssumption DEF BudgetInv, BudgetTypeOK, Days, NextDay, IntervalPasses, budgetVars
    <3> QED BY <1>1, <3>1 DEF BudgetInv, BudgetTypeOK, NextDay, IntervalPasses, budgetVars, rows
  <2>2. UNCHANGED <<limit, admitted, row, rowDay, db, inner, stage, dispatched, completions>>
    BY <1>1 DEF NextDay, IntervalPasses, budgetVars, rows
  <2>3. OneCompletion' /\ \A c \in Calls : CallSound(c)'
    BY <2>2 DEF BudgetInv, OneCompletion, CallSound, Completing
  <2>4. \A d \in Days : ChargeSound(d)'
    BY <2>2, NothingCharged DEF BudgetInv
  <2> QED BY <2>1, <2>3, <2>4 DEF BudgetInv
<1> QED BY <1>1, BeginStep, ReserveStep, HandleStep, EndStep, CompleteStep DEF BudgetNext

\* A call that was given up is not taken up again.
LEMMA NoneIsTakenUpAgain ==
  ASSUME BudgetInv, [BudgetNext]_budgetVars, NEW c \in Calls, GivenUp(c)
  PROVE  GivenUp(c)'
<1> USE DEF GivenUp, BudgetInv, BudgetTypeOK
<1>1. CASE \E e \in Calls : Handle(e)
  <2>1. PICK e \in Calls : Handle(e)
    BY <1>1
  <2>2. aborted' = aborted
    BY <2>1 DEF Handle, InnerTimeout, OuterTimeout, ReserveAnswers, Dispatch, GiveUp, Return
  <2>3. CASE e # c
    <3>1. stage'[c] = stage[c]
      BY <2>1, <2>3 DEF Handle, InnerTimeout, OuterTimeout, ReserveAnswers, OuterSettles, Dispatch,
        GiveUp, Return, Enters
    <3> QED BY <2>2, <3>1
  <2>4. CASE e = c
    <3>1. CASE InnerTimeout(c) \/ ReserveAnswers(c)
      <4>1. stage'[c] = stage[c] \/ (stage[c] = "ADMITTING" /\ stage'[c] \in Decisions)
        <5>1. \A d \in Decisions : OuterSettles(c, d) =>
                stage' = stage \/ (stage[c] = "ADMITTING" /\ stage'[c] = d)
          BY DEF OuterSettles, Enters
        <5>2. stage' = stage \/ \E d \in Decisions : OuterSettles(c, d)
          BY <3>1 DEF InnerTimeout, ReserveAnswers, Decisions, Denials
        <5> QED BY <5>1, <5>2
      <4> QED BY <2>2, <4>1 DEF Decisions, Denials
    <3>2. CASE OuterTimeout(c) \/ GiveUp(c) \/ Return(c) \/ Dispatch(c)
      BY <3>2 DEF OuterTimeout, GiveUp, Return, Dispatch, MayDispatch, Enters, Denials
    <3> QED BY <2>1, <2>4, <3>1, <3>2 DEF Handle
  <2> QED BY <2>3, <2>4
<1>2. CASE \E e \in Calls : Begin(e) \/ Reserve(e) \/ Abort(e) \/ Die(e)
  BY <1>2 DEF Begin, Reserve, Abort, Die, Enters, Denials
<1>3. CASE (\E m \in completions : CompleteRow(m)) \/ NextDay \/ IntervalPasses \/ UNCHANGED budgetVars
  BY <1>3 DEF CompleteRow, NextDay, IntervalPasses, budgetVars
<1> QED BY <1>1, <1>2, <1>3 DEF BudgetNext

\* provider-budget-repository.ts:58, reserve(): for any calls of processes with any limits,
\* on any number of days, what goes out to the network is charged, and a day is never charged
\* more than the strictest of the processes that charge it allows.
THEOREM CallsAlwaysStayWithinBudget == BudgetSpec => CallsStayWithinBudget
<1>1. BudgetInit => BudgetInv
  BY BudgetStarts
<1>2. BudgetInv /\ [BudgetNext]_budgetVars => BudgetInv'
  BY BudgetSteps
<1>3. BudgetInv =>
        /\ BudgetTypeOK /\ ConcludedOnce
        /\ \A c \in dispatched : row[c] # NoRow
        /\ \A d \in Days :
             /\ admitted[d] = Cardinality(ChargedOn(d))
             /\ \A c \in ChargedOn(d) : admitted[d] <= LimitOf[c]
  <2> SUFFICES ASSUME BudgetInv
               PROVE  /\ ConcludedOnce
                      /\ \A c \in dispatched : row[c] # NoRow
                      /\ \A d \in Days :
                           /\ admitted[d] = Cardinality(ChargedOn(d))
                           /\ \A c \in ChargedOn(d) : admitted[d] <= LimitOf[c]
    BY DEF BudgetInv
  <2>1. ASSUME NEW c \in Calls PROVE Cardinality({m \in completions : m[1] = c}) <= 1
    <3>1. CASE {m \in completions : m[1] = c} = {}
      BY <3>1, FS_EmptySet
    <3>2. CASE {m \in completions : m[1] = c} # {}
      <4>1. PICK m \in completions : m[1] = c
        BY <3>2
      <4>2. {n \in completions : n[1] = c} = {m}
        BY <4>1 DEF BudgetInv, OneCompletion
      <4>3. Cardinality({m}) = 1
        BY FS_Singleton
      <4> QED BY <4>2, <4>3
    <3> QED BY <3>1, <3>2
  <2>2. ConcludedOnce
    BY <2>1 DEF ConcludedOnce, BudgetInv, CallSound
  <2>3. \A c \in dispatched : row[c] # NoRow
    BY DEF BudgetInv, CallSound, BudgetTypeOK
  <2> QED BY <2>2, <2>3 DEF BudgetInv, ChargeSound
<1>4. BudgetInv /\ [BudgetNext]_budgetVars => [\A c \in Calls : GivenUp(c) => GivenUp(c)']_budgetVars
  BY NoneIsTakenUpAgain
<1> QED BY <1>1, <1>2, <1>3, <1>4, PTL DEF BudgetSpec, CallsStayWithinBudget

-----------------------------------------------------------------------------
(* Media transactions.  CapacityRespected is not inductive: that what a    *)
(* request has counted is still there when it inserts rests on the locks,  *)
(* which keep whoever could change it from being where it would.           *)

\* Where a transaction stands, it holds the locks it has taken.
LocksHeld ==
  /\ \A u \in Uploads : /\ at[u] \in Preparing => <<u, "UPDATE">> \in collLocks
                        /\ at[u] = "CLOSE_JOB" => <<u, "KEY_SHARE">> \in collLocks
  /\ erase = "UNLINK" => <<Eraser, "UPDATE">> \in collLocks

\* Who holds the collection keeps the others out.
Alone(u) ==
  /\ at[u] \in Preparing \cup {"CLOSE_JOB"} => erase # "UNLINK"
  /\ at[u] \in Preparing =>
       \A v \in Uploads \ {u} : at[v] \notin Preparing \cup {"CLOSE_JOB"}

JobLockSound(u) ==
  /\ jobLock[u] = u <=> at[u] \in Committing
  /\ jobLock[u] \in {u, Eraser, Nobody}
  /\ jobLock[u] = Eraser => erase = "UNLINK"

JournalSound(u) ==
  /\ at[u] \in Committing => job[u] = "PENDING" /\ collection = "LIVE"
  /\ at[u] \in Preparing \cup {"PREPARE"} => job[u] = "NONE"
  /\ at[u] \in Preparing => collection = "LIVE"

CountSound(u) ==
  /\ at[u] = "COUNT_JOBS" => Cardinality(Active) <= counted[u]
  /\ at[u] = "INSERT_JOB" => Cardinality(Active) + Cardinality(Reserved) < Capacity

RoleSound(u) ==
  at[u] = "CLOSE_JOB" => \A v \in Active \cup (Inserted \ {u}) : RoleOf[v] # RoleOf[u]

RequestSound(u) ==
  Alone(u) /\ JobLockSound(u) /\ JournalSound(u) /\ CountSound(u) /\ RoleSound(u)

AdmissionInv ==
  /\ AdmissionTypeOK
  /\ LocksHeld
  /\ \A u \in Uploads : RequestSound(u)
  /\ erase \in {"DELETE", "UNLINK"} => collection = "LIVE"
  /\ IsFiniteSet(Active) /\ IsFiniteSet(Reserved) /\ CapacityRespected

LEMMA AdmissionStarts == AdmissionInit => AdmissionInv
<1> SUFFICES ASSUME AdmissionInit PROVE AdmissionInv
  OBVIOUS
<1> USE DEF AdmissionInit
<1>1. Active = {} /\ Reserved = {}
  BY DEF Active, Reserved
<1>2. AdmissionTypeOK
  BY CapacityAssumption DEF AdmissionTypeOK, Statements, EraseStatements
<1>3. LocksHeld /\ \A u \in Uploads : RequestSound(u)
  BY HoldersAssumption DEF LocksHeld, RequestSound, Alone, JobLockSound, JournalSound, CountSound,
    RoleSound, Preparing, Committing, Eraser, Nobody
<1> QED BY <1>1, <1>2, <1>3, FS_EmptySet, CapacityAssumption DEF AdmissionInv, CapacityRespected

LEMMA SameRows ==
  ASSUME AdmissionInv, UNCHANGED <<collection, asset, job>>
  PROVE  /\ Active' = Active /\ Reserved' = Reserved
         /\ IsFiniteSet(Active') /\ IsFiniteSet(Reserved') /\ CapacityRespected'
BY DEF AdmissionInv, Active, Reserved, CapacityRespected

\* A request goes from one statement to another and changes no row.
LEMMA RequestMoves ==
  ASSUME AdmissionInv, NEW u \in Uploads, NEW s \in Statements,
         at' = [at EXCEPT ![u] = s],
         UNCHANGED <<collection, asset, job, erase>>,
         counted' \in [Uploads -> 0 .. Capacity],
         \A v \in Uploads \ {u} : counted'[v] = counted[v],
         \A l \in collLocks : l[1] # u => l \in collLocks',
         \A l \in collLocks' :
           \/ l \in collLocks
           \/ l[1] = u /\ l \in Uploads \X {"UPDATE", "KEY_SHARE"},
         \/ s \in Preparing /\ <<u, "UPDATE">> \in collLocks'
         \/ s = "CLOSE_JOB" /\ <<u, "KEY_SHARE">> \in collLocks'
         \/ s \notin Preparing \cup {"CLOSE_JOB"} /\ \A l \in collLocks' : l[1] # u,
         s \in Preparing \cup {"CLOSE_JOB"} => erase # "UNLINK",
         s \in Preparing => \A v \in Uploads \ {u} : at[v] \notin Preparing \cup {"CLOSE_JOB"},
         s = "CLOSE_JOB" => \A v \in Uploads \ {u} : at[v] \notin Preparing,
         jobLock' \in [Uploads -> Uploads \cup {Eraser, Nobody}],
         \A v \in Uploads \ {u} : jobLock'[v] = jobLock[v],
         jobLock'[u] = u <=> s \in Committing,
         jobLock'[u] \in {u, Nobody, jobLock[u]},
         s \in Committing => job[u] = "PENDING" /\ collection = "LIVE",
         s \in Preparing => job[u] = "NONE" /\ collection = "LIVE",
         s # "PREPARE",
         s = "COUNT_JOBS" => Cardinality(Active) <= counted'[u],
         s = "INSERT_JOB" => Cardinality(Active) + Cardinality(Reserved) < Capacity,
         s = "CLOSE_JOB" => \A v \in Active \cup (Inserted \ {u}) : RoleOf[v] # RoleOf[u]
  PROVE  AdmissionInv'
<1>1. AdmissionTypeOK /\ LocksHeld /\ \A v \in Uploads : RequestSound(v)
  BY DEF AdmissionInv
<1>2. /\ at' \in [Uploads -> Statements] /\ at'[u] = s
      /\ \A v \in Uploads \ {u} : at'[v] = at[v]
  BY <1>1 DEF AdmissionTypeOK
<1>3. collLocks' \subseteq (Uploads \cup {Eraser}) \X {"UPDATE", "NO_KEY_UPDATE", "KEY_SHARE"}
  BY <1>1 DEF AdmissionTypeOK
<1>4. ASSUME NEW v \in Uploads, v \in {l[1] : l \in collLocks'}
      PROVE  at'[v] \in Preparing \cup {"CLOSE_JOB"}
  BY <1>1, <1>2, <1>4 DEF AdmissionTypeOK
<1>5. AdmissionTypeOK'
  BY <1>1, <1>2, <1>3, <1>4 DEF AdmissionTypeOK
<1>6. LocksHeld'
  <2>1. \A v \in Uploads \ {u} : /\ at[v] \in Preparing => <<v, "UPDATE">> \in collLocks'
                                 /\ at[v] = "CLOSE_JOB" => <<v, "KEY_SHARE">> \in collLocks'
    BY <1>1 DEF LocksHeld
  <2>2. erase = "UNLINK" => <<Eraser, "UPDATE">> \in collLocks'
    BY <1>1, HoldersAssumption DEF LocksHeld
  <2>3. /\ s \in Preparing => <<u, "UPDATE">> \in collLocks'
        /\ s = "CLOSE_JOB" => <<u, "KEY_SHARE">> \in collLocks'
    BY DEF Preparing
  <2> QED BY <1>2, <2>1, <2>2, <2>3 DEF LocksHeld
<1>7. \A v \in Uploads : Alone(v)'
  <2> TAKE v \in Uploads
  <2>1. Alone(v)
    BY <1>1 DEF RequestSound
  <2> QED BY <1>2, <2>1 DEF Alone
<1>8. \A v \in Uploads : JobLockSound(v)'
  <2> TAKE v \in Uploads
  <2>1. JobLockSound(v)
    BY <1>1 DEF RequestSound
  <2>2. CASE v = u
    BY <1>2, <2>1, <2>2, HoldersAssumption DEF JobLockSound, Eraser, Nobody
  <2>3. CASE v # u
    BY <1>2, <2>1, <2>3 DEF JobLockSound
  <2> QED BY <2>2, <2>3
<1>9. \A v \in Uploads : JournalSound(v)'
  BY <1>1, <1>2 DEF RequestSound, JournalSound, Preparing
<1>10. \A v \in Uploads : CountSound(v)'
  BY <1>1, <1>2, SameRows DEF RequestSound, CountSound
<1>11. \A v \in Uploads : RoleSound(v)'
  <2>1. Inserted' = {w \in Uploads : IF w = u THEN s = "CLOSE_JOB" ELSE w \in Inserted}
    BY <1>2 DEF Inserted
  <2> TAKE v \in Uploads
  <2>2. RoleSound(v)
    BY <1>1 DEF RequestSound
  <2>3. CASE v = u
    BY <1>2, <2>1, <2>3, SameRows DEF RoleSound
  <2>4. CASE v # u
    <3>1. at'[v] = "CLOSE_JOB" => v \in Inserted
      BY <1>2, <2>4 DEF Inserted
    <3> QED BY <1>2, <2>1, <2>2, <2>4, <3>1, SameRows DEF RoleSound
  <2> QED BY <2>3, <2>4
<1> QED BY <1>5, <1>6, <1>7, <1>8, <1>9, <1>10, <1>11, SameRows DEF AdmissionInv, RequestSound

\* The transaction of a request ends and changes no row.
LEMMA RequestEnds ==
  ASSUME AdmissionInv, NEW u \in Uploads, NEW s \in {"ENDED", "RELEASE", "PREPARED", "COMMIT"},
         EndRequest(u, s), UNCHANGED <<collection, asset, job, erase>>,
         counted' \in {counted, [counted EXCEPT ![u] = 0]}
  PROVE  AdmissionInv'
<1>1. AdmissionTypeOK /\ JobLockSound(u)
  BY DEF AdmissionInv, RequestSound
<1>2. s \in Statements /\ s \notin Preparing \cup Committing \cup {"PREPARE"}
  BY DEF Statements, Preparing, Committing
<1>3. counted' \in [Uploads -> 0 .. Capacity] /\ \A v \in Uploads \ {u} : counted'[v] = counted[v]
  BY <1>1, CapacityAssumption DEF AdmissionTypeOK
<1>4. /\ jobLock' \in [Uploads -> Uploads \cup {Eraser, Nobody}]
      /\ \A v \in Uploads \ {u} : jobLock'[v] = jobLock[v]
      /\ jobLock'[u] # u /\ jobLock'[u] \in {Nobody, jobLock[u]}
  BY <1>1, HoldersAssumption DEF AdmissionTypeOK, EndRequest
<1>5. /\ \A l \in collLocks : l[1] # u => l \in collLocks'
      /\ \A l \in collLocks' : l \in collLocks /\ l[1] # u
  BY DEF EndRequest, Without
<1>6. at' = [at EXCEPT ![u] = s]
  BY DEF EndRequest, GoTo
<1> QED BY <1>2, <1>3, <1>4, <1>5, <1>6, RequestMoves DEF Committing, Preparing

\* Whom a lock keeps out.
LEMMA LockKeepsOut ==
  ASSUME AdmissionInv, NEW u \in Uploads
  PROVE  /\ CanLock(u, "UPDATE") =>
              /\ erase # "UNLINK"
              /\ \A v \in Uploads \ {u} : at[v] \notin Preparing \cup {"CLOSE_JOB"}
         /\ CanLock(u, "KEY_SHARE") =>
              /\ erase # "UNLINK"
              /\ \A v \in Uploads \ {u} : at[v] \notin Preparing
BY HoldersAssumption DEF AdmissionInv, LocksHeld, CanLock, Conflict

LEMMA PrepareSteps ==
  ASSUME AdmissionInv, NEW u \in Uploads,
         LockCollection(u) \/ CountAssets(u) \/ CountJobs(u) \/ Put(u)
  PROVE  AdmissionInv'
<1>1. AdmissionTypeOK /\ RequestSound(u) /\ LocksHeld
  BY DEF AdmissionInv
<1>2. CASE LockCollection(u)
  <2> USE <1>2 DEF LockCollection
  <2>1. CASE collection = "LIVE"
    <3>1. CanLock(u, "UPDATE") /\ collLocks' = collLocks \cup {<<u, "UPDATE">>}
      BY <2>1 DEF PrepareMode
    <3>2. jobLock' = jobLock /\ at' = [at EXCEPT ![u] = "COUNT_ASSETS"]
      BY <2>1 DEF GoTo
    <3>3. jobLock[u] # u /\ job[u] = "NONE"
      BY <1>1 DEF RequestSound, JobLockSound, JournalSound, Committing
    <3>4. /\ \A l \in collLocks : l[1] # u => l \in collLocks'
          /\ \A l \in collLocks' : \/ l \in collLocks
                                   \/ l[1] = u /\ l \in Uploads \X {"UPDATE", "KEY_SHARE"}
          /\ <<u, "UPDATE">> \in collLocks'
      BY <3>1
    <3>5. /\ erase # "UNLINK"
          /\ \A v \in Uploads \ {u} : at[v] \notin Preparing \cup {"CLOSE_JOB"}
      BY <3>1, LockKeepsOut
    <3>6. "COUNT_ASSETS" \in Statements /\ "COUNT_ASSETS" \in Preparing /\ "COUNT_ASSETS" \notin Committing
      BY DEF Statements, Preparing, Committing
    <3> QED BY <1>1, <2>1, <3>2, <3>3, <3>4, <3>5, <3>6, RequestMoves DEF AdmissionTypeOK
  <2>2. CASE collection # "LIVE"
    BY <2>2, RequestEnds
  <2> QED BY <2>1, <2>2
<1>3. CASE CountAssets(u)
  <2> USE <1>3 DEF CountAssets
  <2>1. CASE Cardinality(Active) >= Capacity
    BY <2>1, RequestEnds
  <2>2. CASE ~(Cardinality(Active) >= Capacity)
    <3>1. /\ at' = [at EXCEPT ![u] = "COUNT_JOBS"] /\ collLocks' = collLocks /\ jobLock' = jobLock
          /\ counted' = [counted EXCEPT ![u] = Cardinality(Active)]
      BY <2>2 DEF GoTo
    <3>2. Cardinality(Active) \in 0 .. Capacity
      BY <2>2, CapacityAssumption, FS_CardinalityType DEF AdmissionInv
    <3>3. /\ counted' \in [Uploads -> 0 .. Capacity] /\ Cardinality(Active) <= counted'[u]
          /\ \A v \in Uploads \ {u} : counted'[v] = counted[v]
      BY <1>1, <3>1, <3>2 DEF AdmissionTypeOK
    <3>4. jobLock[u] # u /\ job[u] = "NONE" /\ collection = "LIVE" /\ erase # "UNLINK"
          /\ \A v \in Uploads \ {u} : at[v] \notin Preparing \cup {"CLOSE_JOB"}
      BY <1>1 DEF RequestSound, JobLockSound, JournalSound, Alone, Committing, Preparing
    <3>5. <<u, "UPDATE">> \in collLocks
      BY <1>1 DEF LocksHeld, Preparing
    <3> QED BY <1>1, <3>1, <3>3, <3>4, <3>5, RequestMoves
            DEF AdmissionTypeOK, Statements, Preparing, Committing
  <2> QED BY <2>1, <2>2
<1>4. CASE CountJobs(u)
  <2> USE <1>4 DEF CountJobs
  <2>1. CASE Fits(counted[u], Cardinality(Reserved))
    <3>1. at' = [at EXCEPT ![u] = "INSERT_JOB"] /\ collLocks' = collLocks /\ jobLock' = jobLock
      BY <2>1 DEF GoTo
    <3>2. Cardinality(Active) + Cardinality(Reserved) < Capacity
      <4>1. Cardinality(Active) \in Nat /\ Cardinality(Reserved) \in Nat
        BY FS_CardinalityType DEF AdmissionInv
      <4>2. Cardinality(Active) <= counted[u] /\ counted[u] \in 0 .. Capacity
        BY <1>1 DEF RequestSound, CountSound, AdmissionTypeOK
      <4> QED BY <2>1, <4>1, <4>2, CapacityAssumption DEF Fits
    <3>3. /\ counted' \in [Uploads -> 0 .. Capacity]
          /\ \A v \in Uploads \ {u} : counted'[v] = counted[v]
      BY <1>1, CapacityAssumption DEF AdmissionTypeOK
    <3>4. jobLock[u] # u /\ job[u] = "NONE" /\ collection = "LIVE" /\ erase # "UNLINK"
          /\ \A v \in Uploads \ {u} : at[v] \notin Preparing \cup {"CLOSE_JOB"}
      BY <1>1 DEF RequestSound, JobLockSound, JournalSound, Alone, Committing, Preparing
    <3>5. <<u, "UPDATE">> \in collLocks
      BY <1>1 DEF LocksHeld, Preparing
    <3> QED BY <1>1, <3>1, <3>2, <3>3, <3>4, <3>5, RequestMoves
            DEF AdmissionTypeOK, Statements, Preparing, Committing
  <2>2. CASE ~Fits(counted[u], Cardinality(Reserved))
    BY <2>2, RequestEnds
  <2> QED BY <2>1, <2>2
<1>5. CASE Put(u)
  <2>1. PICK s \in {"COMMIT", "RELEASE", "ENDED"} : at' = [at EXCEPT ![u] = s]
    BY <1>5 DEF Put
  <2>2. Without(u) = collLocks /\ jobLock[u] # u
    BY <1>1, <1>5 DEF Put, Without, AdmissionTypeOK, RequestSound, JobLockSound, Preparing, Committing
  <2>3. EndRequest(u, s)
    BY <1>1, <1>5, <2>1, <2>2 DEF EndRequest, GoTo, Put, AdmissionTypeOK
  <2> QED BY <1>5, <2>3, RequestEnds DEF Put
<1> QED BY <1>2, <1>3, <1>4, <1>5

LEMMA CommitSteps ==
  ASSUME AdmissionInv, NEW u \in Uploads,
         SelectJob(u) \/ InsertAsset(u) \/ RollBack(u) \/ AbortCommit(u)
  PROVE  AdmissionInv'
<1>1. AdmissionTypeOK /\ RequestSound(u) /\ LocksHeld
  BY DEF AdmissionInv
<1>2. CASE SelectJob(u)
  <2> USE <1>2 DEF SelectJob
  <2>1. CASE job[u] = "PENDING" /\ collection = "LIVE"
    <3>1. at' = [at EXCEPT ![u] = "INSERT_ASSET"] /\ collLocks' = collLocks
          /\ jobLock' = [jobLock EXCEPT ![u] = u]
      BY <2>1 DEF GoTo
    <3>2. \A l \in collLocks : l[1] # u
      BY <1>1 DEF AdmissionTypeOK, Preparing
    <3>3. jobLock' \in [Uploads -> Uploads \cup {Eraser, Nobody}] /\ jobLock'[u] = u
          /\ \A v \in Uploads \ {u} : jobLock'[v] = jobLock[v]
      BY <1>1, <3>1 DEF AdmissionTypeOK
    <3> QED BY <1>1, <2>1, <3>1, <3>2, <3>3, RequestMoves
            DEF AdmissionTypeOK, Statements, Preparing, Committing
  <2>2. CASE ~(job[u] = "PENDING" /\ collection = "LIVE")
    BY <2>2, RequestEnds
  <2> QED BY <2>1, <2>2
<1>3. CASE InsertAsset(u)
  <2> USE <1>3 DEF InsertAsset
  <2>1. CASE EndRequest(u, "RELEASE")
    BY <2>1, RequestEnds
  <2>2. CASE /\ \A v \in Active : RoleOf[v] # RoleOf[u]
             /\ \A l \in KeyShare(u) : CanLock(u, l[2])
             /\ GoTo(u, "CLOSE_JOB")
             /\ collLocks' = collLocks \cup KeyShare(u)
             /\ UNCHANGED jobLock
    <3>1. CanLock(u, "KEY_SHARE") /\ collLocks' = collLocks \cup {<<u, "KEY_SHARE">>}
      BY <2>2 DEF KeyShare
    <3>2. job[u] = "PENDING" /\ collection = "LIVE" /\ jobLock[u] = u
      BY <1>1 DEF RequestSound, JobLockSound, JournalSound, Committing
    <3>3. at' = [at EXCEPT ![u] = "CLOSE_JOB"] /\ jobLock' = jobLock
      BY <2>2 DEF GoTo
    <3>4. \A v \in Active \cup (Inserted \ {u}) : RoleOf[v] # RoleOf[u]
      BY <2>2
    <3>5. /\ \A l \in collLocks : l[1] # u => l \in collLocks'
          /\ \A l \in collLocks' : \/ l \in collLocks
                                   \/ l[1] = u /\ l \in Uploads \X {"UPDATE", "KEY_SHARE"}
          /\ <<u, "KEY_SHARE">> \in collLocks'
      BY <3>1
    <3>6. erase # "UNLINK" /\ \A v \in Uploads \ {u} : at[v] \notin Preparing
      BY <3>1, LockKeepsOut
    <3>7. "CLOSE_JOB" \in Statements /\ "CLOSE_JOB" \notin Preparing /\ "CLOSE_JOB" \in Committing
      BY DEF Statements, Preparing, Committing
    <3> QED BY <1>1, <3>2, <3>3, <3>4, <3>5, <3>6, <3>7, RequestMoves DEF AdmissionTypeOK
  <2> QED BY <2>1, <2>2
<1>4. CASE RollBack(u)
  BY <1>4, RequestEnds DEF RollBack
<1>5. CASE AbortCommit(u)
  BY <1>5, RequestEnds DEF AbortCommit
<1> QED BY <1>2, <1>3, <1>4, <1>5

-----------------------------------------------------------------------------
\* Images and reservations become fewer, and nobody comes to count them.
LEMMA RowsShrink ==
  ASSUME AdmissionInv, AdmissionTypeOK', LocksHeld', UNCHANGED counted,
         \A v \in Uploads : at'[v] = at[v] \/ at'[v] \notin Preparing \cup {"CLOSE_JOB"},
         erase' = erase \/ erase' # "UNLINK",
         erase' \in {"DELETE", "UNLINK"} => collection' = "LIVE",
         Active' \subseteq Active, Reserved' \subseteq Reserved,
         \A u \in Uploads : JobLockSound(u)' /\ JournalSound(u)'
  PROVE  AdmissionInv'
<1>1. /\ IsFiniteSet(Active') /\ IsFiniteSet(Reserved')
      /\ Cardinality(Active') <= Cardinality(Active)
      /\ Cardinality(Reserved') <= Cardinality(Reserved)
      /\ Cardinality(Active') \in Nat /\ Cardinality(Reserved') \in Nat
      /\ Cardinality(Active) \in Nat /\ Cardinality(Reserved) \in Nat
  BY FS_Subset, FS_CardinalityType DEF AdmissionInv
<1>2. \A u \in Uploads : RequestSound(u)'
  <2> TAKE u \in Uploads
  <2>1. RequestSound(u)
    BY DEF AdmissionInv
  <2>2. Alone(u)' /\ RoleSound(u)'
    BY <2>1 DEF RequestSound, Alone, RoleSound, Inserted
  <2>3. counted[u] \in Nat
    BY CapacityAssumption DEF AdmissionInv, AdmissionTypeOK
  <2>4. CountSound(u)'
    BY <1>1, <2>1, <2>3, CapacityAssumption DEF RequestSound, CountSound, Preparing
  <2> QED BY <2>2, <2>4 DEF RequestSound
<1>3. CapacityRespected'
  BY <1>1, CapacityAssumption DEF AdmissionInv, CapacityRespected
<1> QED BY <1>1, <1>2, <1>3 DEF AdmissionInv

LEMMA JournalSteps ==
  ASSUME AdmissionInv, NEW u \in Uploads,
         \/ Release(u)
         \/ WorkerUpdates(u, "PENDING", "PROCESSING")
         \/ WorkerUpdates(u, "PROCESSING", "COMPLETED")
         \/ WorkerUpdates(u, "PROCESSING", "PENDING")
  PROVE  AdmissionInv'
<1>1. AdmissionTypeOK /\ LocksHeld /\ \A v \in Uploads : RequestSound(v)
  BY DEF AdmissionInv
<1>2. /\ UNCHANGED <<collection, asset, counted, erase, collLocks, jobLock>>
      /\ jobLock[u] = Nobody
  BY DEF Release, WorkerUpdates
<1>3. /\ job' \in [Uploads -> {"NONE", "PENDING", "PROCESSING", "COMPLETED"}]
      /\ \A v \in Uploads \ {u} : job'[v] = job[v]
      /\ job'[u] \in {"PENDING", "PROCESSING"} => job[u] \in {"PENDING", "PROCESSING"}
      /\ job'[u] = job[u] \/ job[u] # "NONE"
  BY <1>1 DEF Release, WorkerUpdates, AdmissionTypeOK
<1>4. at' = at \/ (at[u] = "RELEASE" /\ at' = [at EXCEPT ![u] = "ENDED"])
  BY DEF Release, WorkerUpdates, GoTo
<1>5. /\ at' \in [Uploads -> Statements]
      /\ \A v \in Uploads : at'[v] = at[v] \/ (at[v] = "RELEASE" /\ at'[v] = "ENDED")
  BY <1>1, <1>4 DEF AdmissionTypeOK, Statements
<1>6. AdmissionTypeOK'
  BY <1>1, <1>2, <1>3, <1>5 DEF AdmissionTypeOK, Preparing
<1>7. LocksHeld'
  BY <1>1, <1>2, <1>5 DEF LocksHeld, Preparing
<1>8. \A v \in Uploads : JobLockSound(v)'
  BY <1>1, <1>2, <1>5 DEF RequestSound, JobLockSound, Committing
<1>9. \A v \in Uploads : JournalSound(v)'
  <2> TAKE v \in Uploads
  <2>1. JobLockSound(v) /\ JournalSound(v)
    BY <1>1 DEF RequestSound
  <2>2. v # u \/ at[v] \notin Committing
    BY <1>2, <2>1, HoldersAssumption DEF JobLockSound
  <2> QED BY <1>2, <1>3, <1>5, <2>1, <2>2 DEF JournalSound, Preparing, Committing
<1>10. Active' = Active /\ Reserved' \subseteq Reserved
  BY <1>2, <1>3 DEF Active, Reserved
<1> QED BY <1>2, <1>5, <1>6, <1>7, <1>8, <1>9, <1>10, RowsShrink DEF AdmissionInv, Preparing

LEMMA DeleteStep ==
  ASSUME AdmissionInv, NEW u \in Uploads, DeleteAsset(u)
  PROVE  AdmissionInv'
<1> USE DEF DeleteAsset
<1>1. AdmissionTypeOK /\ LocksHeld /\ \A v \in Uploads : RequestSound(v)
  BY DEF AdmissionInv
<1>2. AdmissionTypeOK' /\ LocksHeld'
  BY <1>1 DEF AdmissionTypeOK, LocksHeld
<1>3. \A v \in Uploads : JobLockSound(v)' /\ JournalSound(v)'
  BY <1>1 DEF RequestSound, JobLockSound, JournalSound
<1>4. Active' \subseteq Active /\ Reserved' = Reserved
  BY <1>1 DEF Active, Reserved, AdmissionTypeOK
<1> QED BY <1>1, <1>2, <1>3, <1>4, RowsShrink DEF AdmissionInv

\* The insert: there was room for it, and nobody else was counting.
LEMMA InsertStep ==
  ASSUME AdmissionInv, NEW u \in Uploads, InsertJob(u)
  PROVE  /\ AdmissionInv'
         /\ collection = "LIVE" /\ job[u] = "NONE"
         /\ Cardinality(Active) + Cardinality(Reserved) < Capacity
<1> USE DEF InsertJob
<1>1. AdmissionTypeOK /\ LocksHeld /\ \A v \in Uploads : RequestSound(v)
  BY DEF AdmissionInv
<1>2. /\ Alone(u) /\ JobLockSound(u) /\ collection = "LIVE" /\ job[u] = "NONE" /\ jobLock[u] # u
      /\ Cardinality(Active) + Cardinality(Reserved) < Capacity
  BY <1>1 DEF RequestSound, JournalSound, CountSound, JobLockSound, Preparing, Committing
<1>3. /\ at' = [at EXCEPT ![u] = "PREPARED"]
      /\ collLocks' = Without(u) /\ jobLock' = jobLock
      /\ UNCHANGED <<collection, asset, counted, erase>>
      /\ job' = [job EXCEPT ![u] = "PENDING"]
  BY <1>1, <1>2 DEF EndRequest, GoTo, AdmissionTypeOK
<1>4. /\ at' \in [Uploads -> Statements] /\ at'[u] = "PREPARED"
      /\ \A v \in Uploads \ {u} : at'[v] = at[v]
  BY <1>1, <1>3 DEF AdmissionTypeOK, Statements
<1>5. AdmissionTypeOK'
  BY <1>1, <1>3, <1>4 DEF AdmissionTypeOK, Without
<1>6. LocksHeld'
  BY <1>1, <1>3, <1>4, HoldersAssumption DEF LocksHeld, Without, Preparing
<1>7. Active' = Active /\ Reserved' = Reserved \cup {u} /\ u \notin Reserved
  BY <1>1, <1>2, <1>3 DEF Active, Reserved, AdmissionTypeOK
<1>8. /\ IsFiniteSet(Active') /\ IsFiniteSet(Reserved')
      /\ CapacityRespected'
  <2>1. IsFiniteSet(Active) /\ IsFiniteSet(Reserved)
    BY DEF AdmissionInv
  <2>2. IsFiniteSet(Reserved') /\ Cardinality(Reserved') = Cardinality(Reserved) + 1
    BY <1>7, <2>1, FS_AddElement
  <2>3. Cardinality(Active) \in Nat /\ Cardinality(Reserved) \in Nat
    BY <2>1, FS_CardinalityType
  <2>4. IsFiniteSet(Active') /\ Cardinality(Active') = Cardinality(Active)
    BY <1>7, <2>1
  <2> QED BY <1>2, <2>2, <2>3, <2>4, CapacityAssumption DEF CapacityRespected
<1>9. \A v \in Uploads : at[v] \notin Preparing \/ v = u
  BY <1>2 DEF Alone, Preparing
<1>10. \A v \in Uploads : RequestSound(v)'
  <2> TAKE v \in Uploads
  <2>1. RequestSound(v)
    BY <1>1
  <2>2. Alone(v)' /\ JobLockSound(v)' /\ RoleSound(v)'
    BY <1>3, <1>4, <1>7, <2>1 DEF RequestSound, Alone, JobLockSound, RoleSound, Inserted, Preparing, Committing
  <2>3. CountSound(v)'
    BY <1>4, <1>9 DEF CountSound, Preparing
  <2>4. JournalSound(v)'
    BY <1>1, <1>3, <1>4, <2>1 DEF RequestSound, JournalSound, AdmissionTypeOK, Preparing, Committing
  <2> QED BY <2>2, <2>3, <2>4 DEF RequestSound
<1> QED BY <1>2, <1>3, <1>5, <1>6, <1>8, <1>10 DEF AdmissionInv

\* The commit: an image takes the place of its reservation.
LEMMA CloseStep ==
  ASSUME AdmissionInv, NEW u \in Uploads, CloseJob(u)
  PROVE  /\ AdmissionInv'
         /\ collection = "LIVE" /\ job[u] = "PENDING"
         /\ \A v \in Active : RoleOf[v] # RoleOf[u]
<1> USE DEF CloseJob
<1>1. AdmissionTypeOK /\ LocksHeld /\ \A v \in Uploads : RequestSound(v)
  BY DEF AdmissionInv
<1>2. /\ Alone(u) /\ JobLockSound(u) /\ collection = "LIVE" /\ job[u] = "PENDING" /\ jobLock[u] = u
      /\ \A v \in Active \cup (Inserted \ {u}) : RoleOf[v] # RoleOf[u]
  BY <1>1 DEF RequestSound, JournalSound, RoleSound, JobLockSound, Committing
<1>3. /\ at' = [at EXCEPT ![u] = "ENDED"]
      /\ collLocks' = Without(u) /\ jobLock' = [jobLock EXCEPT ![u] = Nobody]
      /\ UNCHANGED <<collection, counted, erase>>
      /\ job' = [job EXCEPT ![u] = "COMPLETED"]
      /\ asset' = [asset EXCEPT ![u] = "ACTIVE"]
  BY <1>1, <1>2 DEF EndRequest, GoTo, AdmissionTypeOK
<1>4. /\ at' \in [Uploads -> Statements] /\ at'[u] = "ENDED"
      /\ \A v \in Uploads \ {u} : at'[v] = at[v]
  BY <1>1, <1>3 DEF AdmissionTypeOK, Statements
<1>5. AdmissionTypeOK'
  BY <1>1, <1>3, <1>4 DEF AdmissionTypeOK, Without
<1>6. LocksHeld'
  BY <1>1, <1>3, <1>4, HoldersAssumption DEF LocksHeld, Without, Preparing
<1>7. Active' = Active \cup {u} /\ Reserved' = Reserved \ {u} /\ u \in Reserved
  BY <1>1, <1>2, <1>3 DEF Active, Reserved, AdmissionTypeOK
<1>8. /\ IsFiniteSet(Active') /\ IsFiniteSet(Reserved')
      /\ CapacityRespected'
  <2>1. IsFiniteSet(Active) /\ IsFiniteSet(Reserved) /\ Cardinality(Active) + Cardinality(Reserved) <= Capacity
    BY DEF AdmissionInv, CapacityRespected
  <2>2. IsFiniteSet(Active') /\ Cardinality(Active') <= Cardinality(Active) + 1
    <3>1. Cardinality(Active) \in Nat
      BY <2>1, FS_CardinalityType
    <3>2. /\ IsFiniteSet(Active \cup {u})
          /\ Cardinality(Active \cup {u}) = IF u \in Active THEN Cardinality(Active) ELSE Cardinality(Active) + 1
      BY <2>1, FS_AddElement
    <3> QED BY <1>7, <3>1, <3>2
  <2>3. IsFiniteSet(Reserved') /\ Cardinality(Reserved') = Cardinality(Reserved) - 1
    BY <1>7, <2>1, FS_RemoveElement
  <2>4. /\ Cardinality(Active') \in Nat /\ Cardinality(Reserved') \in Nat
        /\ Cardinality(Active) \in Nat /\ Cardinality(Reserved) \in Nat
    BY <2>1, <2>2, <2>3, FS_CardinalityType
  <2> QED BY <2>1, <2>2, <2>3, <2>4, CapacityAssumption DEF CapacityRespected
<1>9. \A v \in Uploads : at[v] \notin Preparing
  BY <1>1 DEF RequestSound, Alone, Preparing
<1>10. \A v \in Uploads : RequestSound(v)'
  <2> TAKE v \in Uploads
  <2>1. RequestSound(v)
    BY <1>1
  <2>2. Alone(v)'
    BY <1>3, <1>4, <2>1 DEF RequestSound, Alone, Preparing
  <2>3. JobLockSound(v)'
    BY <1>1, <1>3, <1>4, <2>1, HoldersAssumption
    DEF RequestSound, JobLockSound, Committing, AdmissionTypeOK, Nobody, Eraser
  <2>4. RoleSound(v)'
    <3>1. Inserted' = Inserted \ {u}
      BY <1>4 DEF Inserted
    <3> QED BY <1>2, <1>4, <1>7, <2>1, <3>1 DEF RequestSound, RoleSound, Inserted
  <2>5. CountSound(v)'
    BY <1>4, <1>9 DEF CountSound, Preparing
  <2>6. JournalSound(v)'
    BY <1>1, <1>3, <1>4, <2>1 DEF RequestSound, JournalSound, AdmissionTypeOK, Preparing, Committing
  <2> QED BY <2>2, <2>3, <2>4, <2>5, <2>6 DEF RequestSound
<1> QED BY <1>2, <1>3, <1>5, <1>6, <1>8, <1>10 DEF AdmissionInv

LEMMA EraseSteps ==
  ASSUME AdmissionInv, EraseBegins \/ ErasureAdvances \/ EraseRollsBack
  PROVE  AdmissionInv'
<1>1. AdmissionTypeOK /\ LocksHeld /\ \A v \in Uploads : RequestSound(v)
  BY DEF AdmissionInv
<1>2. UNCHANGED <<at, counted, job>>
  BY DEF EraseBegins, ErasureAdvances, EraseCollection, EraseUnlinks, EraseCommits, EraseRollsBack, EndErase
<1>3. CASE EraseBegins
  <2> USE <1>3 DEF EraseBegins
  <2>1. AdmissionTypeOK' /\ LocksHeld'
    BY <1>1 DEF AdmissionTypeOK, LocksHeld, EraseStatements
  <2>2. \A v \in Uploads : JobLockSound(v)' /\ JournalSound(v)'
    BY <1>1 DEF RequestSound, JobLockSound, JournalSound
  <2> QED BY <2>1, <2>2, SameRows, RowsShrink DEF AdmissionInv
<1>4. CASE EraseCollection
  <2> USE <1>4 DEF EraseCollection
  <2>1. \A v \in Uploads : at[v] \notin Preparing \cup {"CLOSE_JOB"}
    BY <1>1, HoldersAssumption DEF LocksHeld, CanLock, Conflict
  <2>2. AdmissionTypeOK' /\ LocksHeld'
    BY <1>1, HoldersAssumption DEF AdmissionTypeOK, LocksHeld, EraseStatements
  <2>3. \A v \in Uploads : RequestSound(v)'
    BY <1>1, <2>1, SameRows
    DEF RequestSound, Alone, JobLockSound, JournalSound, CountSound, RoleSound, Preparing
  <2> QED BY <2>2, <2>3, SameRows DEF AdmissionInv
<1>5. CASE \E u \in Uploads : EraseUnlinks(u)
  <2>1. PICK u \in Uploads : EraseUnlinks(u)
    BY <1>5
  <2> USE <2>1 DEF EraseUnlinks
  <2>2. AdmissionTypeOK' /\ LocksHeld'
    BY <1>1 DEF AdmissionTypeOK, LocksHeld
  <2>3. \A v \in Uploads : JobLockSound(v)' /\ JournalSound(v)'
    BY <1>1, HoldersAssumption DEF RequestSound, JobLockSound, JournalSound, AdmissionTypeOK, Eraser, Nobody
  <2> QED BY <2>2, <2>3, SameRows, RowsShrink DEF AdmissionInv
<1>6. CASE EraseCommits \/ EraseRollsBack
  <2>1. erase \in {"DELETE", "UNLINK"} /\ erase' \in {"DONE", "IDLE"} /\ EndErase(erase')
    BY <1>6 DEF EraseCommits, EraseRollsBack, EndErase
  <2>2. asset' \in [Uploads -> {"NONE", "ACTIVE", "DELETED"}] /\ collection' \in {"LIVE", "ERASED"}
    BY <1>1, <1>6 DEF EraseCommits, EraseRollsBack, AdmissionTypeOK
  <2>3. AdmissionTypeOK'
    BY <1>1, <1>2, <2>1, <2>2 DEF AdmissionTypeOK, EndErase, Without, EraseStatements
  <2>4. LocksHeld'
    BY <1>1, <1>2, <2>1, HoldersAssumption DEF LocksHeld, EndErase, Without
  <2>5. \A v \in Uploads : JobLockSound(v)'
    BY <1>1, <1>2, <2>1, HoldersAssumption DEF RequestSound, JobLockSound, EndErase, AdmissionTypeOK, Eraser, Nobody
  <2>6. \A v \in Uploads : JournalSound(v)'
    <3>1. CASE collection' = collection
      BY <1>1, <1>2, <3>1 DEF RequestSound, JournalSound
    <3>2. CASE EraseCommits
      <4> TAKE v \in Uploads
      <4>1. Alone(v) /\ JournalSound(v) /\ JobLockSound(v)
        BY <1>1 DEF RequestSound
      <4>2. at[v] \notin Preparing
        BY <3>2, <4>1 DEF Alone, EraseCommits
      <4>3. at[v] \notin Committing
        BY <3>2, <4>1, HoldersAssumption DEF JournalSound, JobLockSound, EraseCommits
      <4> QED BY <1>2, <4>1, <4>2, <4>3 DEF JournalSound
    <3> QED BY <1>6, <3>1, <3>2 DEF EraseRollsBack
  <2>7. Active' \subseteq Active /\ Reserved' \subseteq Reserved
    BY <1>2, <1>6 DEF Active, Reserved, EraseCommits, EraseRollsBack
  <2> QED BY <1>2, <2>1, <2>3, <2>4, <2>5, <2>6, <2>7, RowsShrink
<1> QED BY <1>3, <1>4, <1>5, <1>6 DEF ErasureAdvances

LEMMA AdmissionSteps == AdmissionInv /\ [AdmissionNext]_admissionVars => AdmissionInv'
<1> SUFFICES ASSUME AdmissionInv, [AdmissionNext]_admissionVars PROVE AdmissionInv'
  OBVIOUS
<1>1. CASE UNCHANGED admissionVars
  <2> USE <1>1 DEF admissionVars
  <2>1. AdmissionTypeOK' /\ LocksHeld'
    BY DEF AdmissionInv, AdmissionTypeOK, LocksHeld
  <2>2. \A u \in Uploads : RequestSound(u)'
    BY SameRows DEF AdmissionInv, RequestSound, Alone, JobLockSound, JournalSound, CountSound, RoleSound, Inserted
  <2> QED BY <2>1, <2>2, SameRows DEF AdmissionInv
<1>2. ASSUME NEW u \in Uploads, Advance(u) PROVE AdmissionInv'
  BY <1>2, PrepareSteps, CommitSteps, InsertStep, CloseStep, JournalSteps DEF Advance
<1>3. ASSUME NEW u \in Uploads, BreakDeadlock(u) PROVE AdmissionInv'
  BY <1>3, CommitSteps, EraseSteps DEF BreakDeadlock, AbortErase
<1> QED BY <1>1, <1>2, <1>3, CommitSteps, JournalSteps, DeleteStep, EraseSteps DEF AdmissionNext

-----------------------------------------------------------------------------
(* The refinement: each statement changes the rows as one step of          *)
(* MediaRows does, or not at all.                                          *)

\* MediaRows counts as MediaAdmission does.
LEMMA RowsCount == ASSUME NEW S PROVE Rows!Cardinality(S) = Cardinality(S)
BY DEF Rows!Cardinality, Cardinality

LEMMA StepsOfRows ==
  ASSUME AdmissionInv, [AdmissionNext]_admissionVars
  PROVE  [Rows!Next]_Rows!vars
<1> USE DEF Rows!Next, Rows!vars
<1>1. Rows!Active = Active
  BY DEF Rows!Active, Active
<1>2. AdmissionTypeOK /\ \A u \in Uploads : RequestSound(u)
  BY DEF AdmissionInv
<1>3. ASSUME NEW u \in Uploads, InsertJob(u) PROVE Rows!Reserve(u)
  <2>1. Rows!Reserved = Reserved
    BY <1>3, InsertStep DEF Rows!Reserved, Reserved
  <2>2. /\ collection = "LIVE" /\ job[u] = "NONE"
        /\ Cardinality(Rows!Active) + Cardinality(Rows!Reserved) < Capacity
    BY <1>1, <1>3, <2>1, InsertStep
  <2>3. job' = [job EXCEPT ![u] = "PENDING"] /\ UNCHANGED <<collection, asset>>
    BY <1>3 DEF InsertJob
  <2> QED BY <2>2, <2>3, RowsCount DEF Rows!Reserve
<1>4. ASSUME NEW u \in Uploads, CloseJob(u) PROVE Rows!Confirm(u)
  BY <1>1, <1>4, CloseStep DEF Rows!Confirm, CloseJob
<1>5. ASSUME NEW u \in Uploads, Release(u)
      PROVE  Rows!Settle(u, "PENDING", "COMPLETED") \/ UNCHANGED <<collection, asset, job>>
  <2>1. CASE job[u] = "PENDING"
    BY <1>5, <2>1 DEF Release, Rows!Settle
  <2>2. CASE job[u] # "PENDING"
    BY <1>2, <1>5, <2>2 DEF Release, AdmissionTypeOK
  <2> QED BY <2>1, <2>2
<1>6. ASSUME NEW u \in Uploads, NEW from, NEW to, WorkerUpdates(u, from, to) PROVE Rows!Settle(u, from, to)
  BY <1>6 DEF WorkerUpdates, Rows!Settle
<1>7. ASSUME NEW u \in Uploads, DeleteAsset(u) PROVE Rows!Remove(u)
  BY <1>7 DEF DeleteAsset, Rows!Remove
<1>8. EraseCommits => Rows!Erase
  BY DEF AdmissionInv, EraseCommits, Rows!Erase
<1>9. ASSUME NEW u \in Uploads,
             \/ LockCollection(u) \/ CountAssets(u) \/ CountJobs(u) \/ Put(u) \/ SelectJob(u)
             \/ InsertAsset(u) \/ RollBack(u) \/ BreakDeadlock(u)
      PROVE  UNCHANGED <<collection, asset, job>>
  BY <1>9 DEF LockCollection, CountAssets, CountJobs, Put, SelectJob, InsertAsset, RollBack,
    BreakDeadlock, AbortCommit, AbortErase, EraseRollsBack
<1>10. \/ EraseBegins \/ EraseCollection \/ EraseRollsBack \/ UNCHANGED admissionVars
       \/ \E u \in Uploads : EraseUnlinks(u)
       => UNCHANGED <<collection, asset, job>>
  BY DEF EraseBegins, EraseCollection, EraseRollsBack, EraseUnlinks, admissionVars
<1> QED BY <1>3, <1>4, <1>5, <1>6, <1>7, <1>8, <1>9, <1>10 DEF AdmissionNext, Advance, ErasureAdvances

\* media-repository.ts:167, prepareAssetUpload() and the transactions beside it: for any uploads
\* and any capacity the statements under their locks are the single steps of MediaRows, and
\* images and reservations never exceed the capacity.
THEOREM TransactionsImplementRows == AdmissionSpec => ImplementsMediaRows
<1>1. AdmissionInit => AdmissionInv
  BY AdmissionStarts
<1>2. AdmissionInv /\ [AdmissionNext]_admissionVars => AdmissionInv'
  BY AdmissionSteps
<1>3. AdmissionInit => Rows!Init
  BY DEF AdmissionInit, Rows!Init
<1>4. AdmissionInv /\ [AdmissionNext]_admissionVars => [Rows!Next]_Rows!vars
  BY StepsOfRows
<1>5. AdmissionInv => AdmissionTypeOK /\ CapacityRespected
  BY DEF AdmissionInv
<1> QED BY <1>1, <1>2, <1>3, <1>4, <1>5, PTL DEF AdmissionSpec, ImplementsMediaRows, Rows!Spec
=============================================================================
