--------------------------- MODULE ProviderBudget ---------------------------
(***************************************************************************)
(* The daily budget of a paid provider: the rows of                        *)
(* provider-budget-repository.ts, shared by all processes, the two nested  *)
(* waits of provider-budget-admission.ts that bound the admission of a     *)
(* call, and the use google-vision-ocr-provider.ts and                     *)
(* deepseek-llm-provider.ts make of them.                                  *)
(*                                                                         *)
(* The wait inside createProviderBudgetAdmission is called "inner", the    *)
(* one the provider wraps around it "outer".  Either may give up before    *)
(* the reservation is answered; the reservation is then charged all the    *)
(* same.  One provider is modelled: budgets of different ones do not meet. *)
(***************************************************************************)
EXTENDS Naturals, FiniteSets

CONSTANTS
  Calls,     \* provider calls
  LimitOf,   \* LimitOf[c]: the daily limit configured in the process of c
  LastDay    \* bound: how many UTC days pass

ASSUME LimitAssumption == LimitOf \in [Calls -> Nat]
ASSUME LastDayAssumption == LastDay \in Nat \ {0}

VARIABLES
  today,       \* the UTC day
  spaced,      \* the minimum interval has passed since last_reserved_at
  limit,       \* request_limit, by day: its domain is the days with a row
  admitted,    \* admitted[d]: admitted_count of the day row, 0 without one
  row,         \* row[c]: the reservation of the call, its outcome if it has one
  rowDay,      \* rowDay[c]: budget_day of the reservation
  db,          \* db[c]: reserve() on its way to the database, or its answer
  inner,       \* calls whose inner wait is not settled
  stage,       \* stage[c]: where the provider stands with the call
  aborted,     \* calls whose signal (caller's or timeout's) is aborted
  dispatched,  \* calls that went out to the network
  completions  \* <<call, outcome>> on its way to the database

budgetVars == <<today, spaced, limit, admitted, row, rowDay, db, inner, stage,
          aborted, dispatched, completions>>

rows == <<limit, admitted, row, rowDay>>

Days == 1..LastDay

NoRow == "NO_ROW"

\* The failures of a dispatched call are of one kind here, TIMEOUT.
Outcomes == {"SUCCEEDED", "ABORTED", "TIMEOUT"}

Denials == {"BUDGET_EXHAUSTED", "MINIMUM_INTERVAL", "BUDGET_UNAVAILABLE"}

Decisions == Denials \cup {"ADMITTED"}

Stages == {"IDLE", "ADMITTING", "DISPATCHED", "ENDED", "DEAD"} \cup Decisions

BudgetInit ==
  /\ today = 1
  /\ spaced = TRUE
  /\ limit = << >>
  /\ admitted = [d \in Days |-> 0]
  /\ row = [c \in Calls |-> NoRow]
  /\ rowDay = [c \in Calls |-> 1]
  /\ db = [c \in Calls |-> "NONE"]
  /\ inner = {}
  /\ stage = [c \in Calls |-> "IDLE"]
  /\ aborted = {}
  /\ dispatched = {}
  /\ completions = {}

-----------------------------------------------------------------------------
(* The database *)

\* Mutant: the limit of the process that writes last replaces the day's.
LowerLimit_Latest(d, n) == n

\* LEAST(request_limit, EXCLUDED.request_limit), or the first row of the day
LowerLimit(d, n) == IF d \in DOMAIN limit /\ limit[d] <= n THEN limit[d] ELSE n

Affordable(count, n) == count < n

\* The transaction of reserve(), serialised by the lock on the state row.
\* Providers without a minimum interval are spaced all the time.
ReserveRows(c) ==
  \/ /\ ~spaced
     /\ db' = [db EXCEPT ![c] = "MINIMUM_INTERVAL"]
     /\ UNCHANGED <<rows, spaced>>
  \/ /\ spaced
     /\ limit' = [d \in DOMAIN limit \cup {today} |->
                   IF d = today THEN LowerLimit(today, LimitOf[c]) ELSE limit[d]]
     /\ IF Affordable(admitted[today], limit'[today])
        THEN /\ admitted' = [admitted EXCEPT ![today] = @ + 1]
             /\ row' = [row EXCEPT ![c] = "OPEN"]
             /\ rowDay' = [rowDay EXCEPT ![c] = today]
             /\ spaced' \in {TRUE, FALSE}
             /\ db' \in {[db EXCEPT ![c] = a] : a \in {"ADMITTED", "BUDGET_UNAVAILABLE"}}
        ELSE /\ db' = [db EXCEPT ![c] = "BUDGET_EXHAUSTED"]
             /\ UNCHANGED <<admitted, row, rowDay, spaced>>

\* The answer of a committed reservation may be lost (above); a lock or
\* statement timeout or a lost connection rolls the transaction back.
Reserve(c) ==
  /\ db[c] = "SENT"
  /\ \/ ReserveRows(c)
     \/ /\ db' = [db EXCEPT ![c] = "BUDGET_UNAVAILABLE"]
        /\ UNCHANGED <<rows, spaced>>
  /\ UNCHANGED <<today, inner, stage, aborted, dispatched, completions>>

\* complete(): only a reservation without an outcome gets one; the statement
\* may also fail, and nobody repeats it.
CompleteRow(m) ==
  /\ m \in completions
  /\ completions' = completions \ {m}
  /\ row' \in {row, [row EXCEPT ![m[1]] = IF @ = "OPEN" THEN m[2] ELSE @]}
  /\ UNCHANGED <<today, spaced, limit, admitted, rowDay, db, inner, stage,
                 aborted, dispatched>>

NextDay ==
  /\ today < LastDay
  /\ today' = today + 1
  /\ UNCHANGED <<spaced, rows, db, inner, stage, aborted, dispatched, completions>>

\* The minimum interval is not reset at midnight.
IntervalPasses ==
  /\ ~spaced
  /\ spaced' = TRUE
  /\ UNCHANGED <<today, rows, db, inner, stage, aborted, dispatched, completions>>

-----------------------------------------------------------------------------
(* Admission *)

Enters(c, s) == stage' = [stage EXCEPT ![c] = s]

Begin(c) ==
  /\ stage[c] = "IDLE"
  /\ IF c \in aborted
     THEN Enters(c, "ENDED") /\ UNCHANGED <<db, inner>>
     ELSE /\ Enters(c, "ADMITTING")
          /\ db' = [db EXCEPT ![c] = "SENT"]
          /\ inner' = inner \cup {c}
  /\ UNCHANGED <<today, spaced, rows, aborted, dispatched, completions>>

LateOutcome(c) == IF c \in aborted THEN "ABORTED" ELSE "TIMEOUT"

\* What the inner wait resolves with reaches the outer one: it decides, or
\* comes too late and a charged reservation is completed unused.
OuterSettles(c, decision) ==
  \/ /\ stage[c] = "ADMITTING"
     /\ Enters(c, decision)
     /\ UNCHANGED completions
  \/ /\ stage[c] # "ADMITTING"
     /\ completions' = IF decision = "ADMITTED"
                       THEN completions \cup {<<c, LateOutcome(c)>>}
                       ELSE completions
     /\ UNCHANGED stage

\* The inner timer runs out.
InnerTimeout(c) ==
  /\ c \in inner
  /\ stage[c] # "DEAD"
  /\ inner' = inner \ {c}
  /\ OuterSettles(c, "BUDGET_UNAVAILABLE")
  /\ UNCHANGED <<today, spaced, rows, db, aborted, dispatched>>

OuterTimeout(c) ==
  /\ stage[c] = "ADMITTING"
  /\ Enters(c, "BUDGET_UNAVAILABLE")
  /\ UNCHANGED <<today, spaced, rows, db, inner, aborted, dispatched, completions>>

\* Mutant: an admission that comes after the inner timer is forgotten.
LateAdmission_Forgotten(c) == UNCHANGED completions

\* The inner wait was settled: the reservation is completed as TIMEOUT.
LateAdmission(c) == completions' = completions \cup {<<c, "TIMEOUT">>}

ReserveAnswers(c) ==
  /\ db[c] \in Decisions
  /\ stage[c] # "DEAD"
  /\ db' = [db EXCEPT ![c] = "NONE"]
  /\ \/ /\ c \in inner
        /\ inner' = inner \ {c}
        /\ OuterSettles(c, db[c])
     \/ /\ c \notin inner
        /\ IF db[c] = "ADMITTED" THEN LateAdmission(c) ELSE UNCHANGED completions
        /\ UNCHANGED <<inner, stage>>
  /\ UNCHANGED <<today, spaced, rows, aborted, dispatched>>

-----------------------------------------------------------------------------
(* The provider *)

MayDispatch(c) == stage[c] = "ADMITTED" /\ c \notin aborted

Dispatch(c) ==
  /\ MayDispatch(c)
  /\ Enters(c, "DISPATCHED")
  /\ dispatched' = dispatched \cup {c}
  /\ UNCHANGED <<today, spaced, rows, db, inner, aborted, completions>>

\* The call is not made: it was denied, or given up; what was admitted is
\* completed as ABORTED or TIMEOUT, depending on whose signal it was.
GiveUp(c) ==
  /\ stage[c] \in Denials \/ (stage[c] = "ADMITTED" /\ c \in aborted)
  /\ Enters(c, "ENDED")
  /\ IF stage[c] = "ADMITTED"
     THEN \E o \in {"ABORTED", "TIMEOUT"} : completions' = completions \cup {<<c, o>>}
     ELSE UNCHANGED completions
  /\ UNCHANGED <<today, spaced, rows, db, inner, aborted, dispatched>>

\* The answer of the provider, or the abort of its fetch.
Return(c) ==
  /\ stage[c] = "DISPATCHED"
  /\ Enters(c, "ENDED")
  /\ \E o \in Outcomes : completions' = completions \cup {<<c, o>>}
  /\ UNCHANGED <<today, spaced, rows, db, inner, aborted, dispatched>>

\* The outer wait listens to the signal; the inner one has none.
Abort(c) ==
  /\ c \notin aborted
  /\ stage[c] # "DEAD"
  /\ aborted' = aborted \cup {c}
  /\ stage' = [stage EXCEPT ![c] = IF @ = "ADMITTING" THEN "BUDGET_UNAVAILABLE" ELSE @]
  /\ UNCHANGED <<today, spaced, rows, db, inner, dispatched, completions>>

\* The process dies; a query it has sent may still be executed.
Die(c) ==
  /\ stage[c] \notin {"IDLE", "DEAD"}
  /\ Enters(c, "DEAD")
  /\ completions' = {m \in completions : m[1] # c}
  /\ UNCHANGED <<today, spaced, rows, db, inner, aborted, dispatched>>

Handle(c) ==
  \/ InnerTimeout(c)
  \/ OuterTimeout(c)
  \/ ReserveAnswers(c)
  \/ Dispatch(c)
  \/ GiveUp(c)
  \/ Return(c)

BudgetNext ==
  \/ \E c \in Calls : Begin(c) \/ Reserve(c) \/ Handle(c) \/ Abort(c) \/ Die(c)
  \/ \E m \in completions : CompleteRow(m)
  \/ NextDay
  \/ IntervalPasses

BudgetSpec == BudgetInit /\ [][BudgetNext]_budgetVars

-----------------------------------------------------------------------------
Completing(c) == \E m \in completions : m[1] = c

BudgetTypeOK ==
  /\ today \in Days
  /\ spaced \in BOOLEAN
  /\ DOMAIN limit \subseteq Days
  /\ \A d \in DOMAIN limit : limit[d] \in Nat
  /\ admitted \in [Days -> Nat]
  /\ row \in [Calls -> Outcomes \cup {"OPEN", NoRow}]
  /\ rowDay \in [Calls -> Days]
  /\ db \in [Calls -> Decisions \cup {"NONE", "SENT"}]
  /\ inner \subseteq Calls
  /\ stage \in [Calls -> Stages]
  /\ aborted \subseteq Calls
  /\ dispatched \subseteq Calls
  /\ completions \subseteq Calls \X Outcomes

ChargedOn(d) == {c \in Calls : row[c] # NoRow /\ rowDay[c] = d}

\* However the two waits, the provider and the signal race, a reservation is
\* concluded at most once.
ConcludedOnce ==
  \A c \in Calls :
    /\ Cardinality({m \in completions : m[1] = c}) <= 1
    /\ Completing(c) => row[c] = "OPEN" /\ db[c] # "ADMITTED"

\* The call was refused or abandoned, or is over.
GivenUp(c) ==
  \/ stage[c] \in Denials \cup {"ENDED", "DEAD"}
  \/ c \in aborted /\ stage[c] # "DISPATCHED"

\* Whatever is lost, late, aborted or restarted, no call goes out to the
\* network that is not charged to a day, no two share a charge, a day is
\* charged at most what the strictest of the processes it is charged by
\* allows, and what was charged is concluded at most once.  And a reservation
\* that comes too late never authorises a dispatch: a call that was given up
\* stays given up, whatever arrives afterwards.
CallsStayWithinBudget ==
  /\ [](/\ BudgetTypeOK /\ ConcludedOnce
        /\ \A c \in dispatched : row[c] # NoRow
        /\ \A d \in Days :
             /\ admitted[d] = Cardinality(ChargedOn(d))
             /\ \A c \in ChargedOn(d) : admitted[d] <= LimitOf[c])
  /\ [][\A c \in Calls : GivenUp(c) => GivenUp(c)']_budgetVars

\* An admission that reaches a living process is concluded, used or not, so
\* unresolved reservations are those of crashes and of a failing database.
AdmissionsConcluded ==
  \A c \in Calls :
    db[c] = "ADMITTED" ~> Completing(c) \/ row[c] \in Outcomes \/ stage[c] = "DEAD"
=============================================================================
