---------------------------- MODULE ProductFacts ----------------------------
(***************************************************************************)
(* What hangs on a catalog variant: the revisions of its formula and the   *)
(* claims made for it, and the public lookup that collects them.           *)
(*                                                                         *)
(* Every writer holds the variant's row lock, so that its transaction is   *)
(* one step.  A lookup is four statements, all of them answered by the     *)
(* snapshot the first one took (REPEATABLE READ).  The family, published,  *)
(* and the barcode are in Catalog.                                         *)
(***************************************************************************)
EXTENDS Naturals, Sequences, FiniteSets

CONSTANTS
  Items,         \* variants
  Inci,          \* texts of a formula
  Lookers,       \* lookups
  MaxFormulas,   \* bound: revisions ever written
  MaxClaims      \* bound: claims ever written

ASSUME FactsAssumption == Items # {} /\ MaxFormulas \in Nat /\ MaxClaims \in Nat

VARIABLES
  status,      \* of each variant
  formulas,    \* wtm_formula_revisions in the order of insertion
  claims,      \* wtm_product_claims likewise
  lookup,      \* what each lookup has read so far
  moments      \* ghost: what a lookup could have seen since it began

factVars == <<status, formulas, claims, lookup, moments>>

FormulaRows == [item : Items, number : 1 .. MaxFormulas, text : Inci,
                status : {"CURRENT", "SUPERSEDED"}, allowed : BOOLEAN]
\* formula = 0: a claim about the variant, whatever it is made of.
ClaimRows == [item : Items, formula : 0 .. MaxFormulas,
              status : {"DRAFT", "PUBLISHED", "WITHDRAWN"}, allowed : BOOLEAN]

Database == [status |-> status, formulas |-> formulas, claims |-> claims]
Empty == [status |-> [i \in Items |-> "DRAFT"], formulas |-> <<>>, claims |-> <<>>]
Phases == {"IDLE", "IDENTITY", "FORMULA", "DONE"}
NoAnswer == <<>>      \* not found, or not yet
Lookup(p, i, db, a) == [phase |-> p, item |-> i, snapshot |-> db, answer |-> a]

-----------------------------------------------------------------------------
(* What a database db tells of a variant.                                  *)

CurrentOf(db, i) ==
  {f \in DOMAIN db.formulas : db.formulas[f].item = i /\ db.formulas[f].status = "CURRENT"}
ShownFormula(db, i) ==
  LET fs == {f \in CurrentOf(db, i) : db.formulas[f].allowed}
  IN  IF fs = {} THEN 0 ELSE CHOOSE f \in fs : TRUE

Fits(claim, f) == claim.formula = 0 \/ claim.formula = f
ShownClaims(db, i, f) ==
  {c \in DOMAIN db.claims : LET claim == db.claims[c] IN
     claim.item = i /\ claim.status = "PUBLISHED" /\ claim.allowed /\ Fits(claim, f)}

FactsInit ==
  /\ status = Empty.status /\ formulas = <<>> /\ claims = <<>>
  /\ lookup = [l \in Lookers |-> Lookup("IDLE", CHOOSE i \in Items : TRUE, Empty, NoAnswer)]
  /\ moments = [l \in Lookers |-> {}]

-----------------------------------------------------------------------------
(* The writers.                                                            *)

\* The whole of what can be read of variant i, for the ghost.
View(db, i) == IF db.status[i] = "PUBLISHED"
               THEN LET f == ShownFormula(db, i) IN <<f, ShownClaims(db, i, f)>>
               ELSE NoAnswer
Looking(l) == lookup[l].phase \notin {"IDLE", "DONE"}
Witnessed ==
  moments' = [l \in Lookers |->
    IF Looking(l) THEN moments[l] \cup {View(Database', lookup[l].item)} ELSE moments[l]]

Transition(i, target) ==
  /\ \/ status[i] = "DRAFT" /\ target = "PUBLISHED"
     \/ status[i] # "ARCHIVED" /\ target = "ARCHIVED"
  /\ status' = [status EXCEPT ![i] = target]
  /\ UNCHANGED <<formulas, claims, lookup>> /\ Witnessed

Superseding(i) ==
  [f \in DOMAIN formulas |-> IF f \in CurrentOf(Database, i)
                             THEN [formulas[f] EXCEPT !.status = "SUPERSEDED"]
                             ELSE formulas[f]]
NextNumber(i) == Cardinality({f \in DOMAIN formulas : formulas[f].item = i}) + 1

\* UNCHANGED, of the same text, writes nothing: not even its new source.
CreateFormulaRevision(i, text, allowed) ==
  /\ status[i] # "ARCHIVED" /\ Len(formulas) < MaxFormulas
  /\ \A f \in CurrentOf(Database, i) : formulas[f].text # text
  /\ formulas' = Append(Superseding(i),
       [item |-> i, number |-> NextNumber(i), text |-> text,
        status |-> "CURRENT", allowed |-> allowed])
  /\ UNCHANGED <<status, claims, lookup>> /\ Witnessed

\* FORMULA_REVISION_NOT_FOUND: one of another variant.
CreateClaim(i, f, allowed) ==
  /\ status[i] # "ARCHIVED" /\ Len(claims) < MaxClaims
  /\ f # 0 => f \in DOMAIN formulas /\ formulas[f].item = i
  /\ claims' = Append(claims, [item |-> i, formula |-> f,
                               status |-> "DRAFT", allowed |-> allowed])
  /\ UNCHANGED <<status, formulas, lookup>> /\ Witnessed

\* No code publishes or withdraws a claim: an operator does, in SQL.
EditClaim(c, target) ==
  /\ claims[c].status # "WITHDRAWN" /\ claims[c].status # target
  /\ claims' = [claims EXCEPT ![c].status = target]
  /\ UNCHANGED <<status, formulas, lookup>> /\ Witnessed

-----------------------------------------------------------------------------
(* findPublishedVariantByGtin, statement by statement.                     *)

\* Mutant: READ COMMITTED, every statement sees what is there by then.
SeenBy_Latest(l) == Database

SeenBy(l) == lookup[l].snapshot

BeginLookup(l, i) ==
  /\ lookup[l].phase = "IDLE"
  /\ lookup' = [lookup EXCEPT ![l] = IF status[i] = "PUBLISHED"
                                     THEN Lookup("IDENTITY", i, Database, NoAnswer)
                                     ELSE Lookup("DONE", i, Empty, NoAnswer)]
  /\ moments' = [moments EXCEPT ![l] = {View(Database, i)}]
  /\ UNCHANGED <<status, formulas, claims>>

ReadFormula(l) ==
  /\ lookup[l].phase = "IDENTITY"
  /\ lookup' = [lookup EXCEPT ![l].phase = "FORMULA",
                 ![l].answer = <<ShownFormula(SeenBy(l), lookup[l].item), {}>>]
  /\ UNCHANGED <<status, formulas, claims, moments>>

ReadClaims(l) ==
  LET i == lookup[l].item
      f == lookup[l].answer[1]
  IN
  /\ lookup[l].phase = "FORMULA"
  /\ lookup' = [lookup EXCEPT ![l] =
       Lookup("DONE", i, Empty, <<f, ShownClaims(SeenBy(l), i, f)>>)]
  /\ UNCHANGED <<status, formulas, claims, moments>>

FactsNext ==
  \/ \E i \in Items :
       \/ \E s \in {"PUBLISHED", "ARCHIVED"} : Transition(i, s)
       \/ \E b \in BOOLEAN :
            \/ \E t \in Inci : CreateFormulaRevision(i, t, b)
            \/ \E f \in 0 .. Len(formulas) : CreateClaim(i, f, b)
       \/ \E l \in Lookers : BeginLookup(l, i)
  \/ \E c \in DOMAIN claims, s \in {"PUBLISHED", "WITHDRAWN"} : EditClaim(c, s)
  \/ \E l \in Lookers : ReadFormula(l) \/ ReadClaims(l)

FactsSpec == FactsInit /\ [][FactsNext]_factVars

-----------------------------------------------------------------------------
FactsTypeOK ==
  /\ status \in [Items -> {"DRAFT", "PUBLISHED", "ARCHIVED"}]
  /\ formulas \in Seq(FormulaRows) /\ Len(formulas) <= MaxFormulas
  /\ claims \in Seq(ClaimRows)
  /\ \A l \in Lookers : lookup[l].phase \in Phases /\ lookup[l].item \in Items

\* "Immutable INCI history; every change creates a new current revision"
\* (0006_product_identity.sql:253): the revisions of a variant are numbered without a
\* gap and its last one is the current one.
HistoryIsLinear ==
  \A f \in DOMAIN formulas :
    LET mine == {h \in DOMAIN formulas : formulas[h].item = formulas[f].item} IN
    /\ formulas[f].number = Cardinality({h \in mine : h <= f})
    /\ formulas[f].status = "CURRENT" <=> \A h \in mine : h <= f

\* catalog-repository.ts:283: what a lookup answers, product, formula and claims, was all
\* true at one moment while it ran, however they are revised meanwhile: never a claim
\* about another formula than the one shown, never a formula that had been replaced.
LookupIsOneMoment ==
  /\ HistoryIsLinear
  /\ \A l \in Lookers : lookup[l].phase = "DONE" => lookup[l].answer \in moments[l]
=============================================================================
