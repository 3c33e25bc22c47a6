--------------------------- MODULE ProductScreens ---------------------------
(***************************************************************************)
(* The web client's screens of one product: looking a barcode up, comparing*)
(* products, and the workspace in which the composition is recognised,     *)
(* corrected, analysed and kept.  Every screen sends requests whose answers*)
(* come late, and every screen can move on meanwhile: each guards itself   *)
(* with a generation, or with the AbortController of its current operation.*)
(* An aborted request may still be answered: abort() only asks.            *)
(***************************************************************************)
EXTENDS Naturals, FiniteSets

CONSTANTS
  Codes, Malformed,     \* barcodes; those of a wrong length
  Forms, Clashing,      \* what the comparison's slots can say; forms it refuses
  Products,             \* observations the workspace can be opened for
  MaxTurns,             \* bound: lookups, edits of a comparison
  MaxCalls,             \* bound: operations on compositions under way
  MaxRevisions          \* bound: revisions of one observation

ASSUME ScreensAssumption ==
  /\ Malformed \subseteq Codes /\ Codes # {}
  /\ Clashing \subseteq Forms /\ Forms \ Clashing # {}
  /\ MaxTurns \in Nat /\ MaxCalls \in Nat \ {0} /\ MaxRevisions \in Nat

VARIABLES
  search,     \* App: the screen, the generation, and what was asked last (ghost)
  lookups,    \* lookup() calls in progress
  compare,    \* Comparison: the form, the status, the current submit
  previews,   \* submit() calls in progress
  inci,       \* InciCorrectionWorkspace with its PrivateProductForm
  inciCalls,  \* its loads, operations and saves in progress
  history     \* the server: how many revisions each observation has

searchVars == <<search, lookups>>
compareVars == <<compare, previews>>
inciVars == <<inci, inciCalls, history>>

None == 0     \* no operation, no revision

-----------------------------------------------------------------------------
(* App: lookup *)

Waiting == {"LOADING", "DISCOVERING"}

SearchInit ==
  /\ search = [kind |-> "IDLE", code |-> CHOOSE c \in Codes : TRUE, generation |-> 0,
               asked |-> CHOOSE c \in Codes : TRUE]
  /\ lookups = {}

\* lookup, up to its first request: the requests before it are out of date.
Lookup(c) ==
  /\ search.generation < MaxTurns
  /\ LET generation == search.generation + 1
         valid == c \notin Malformed
     IN /\ search' = [kind |-> IF valid THEN "LOADING" ELSE "INVALID", code |-> c,
                      generation |-> generation, asked |-> c]
        /\ lookups' = lookups \cup (IF valid THEN {[of |-> generation, code |-> c,
                                                    step |-> "CATALOG"]} ELSE {})

\* onObserve: a private observation is begun, and a lookup in progress is over.
Observe ==
  /\ search.kind \in {"FOUND", "NOT_FOUND", "EXTERNAL", "DISCOVERY_UNAVAILABLE"}
  /\ search.generation < MaxTurns
  /\ search' = [search EXCEPT !.kind = "OBSERVING", !.generation = @ + 1]
  /\ UNCHANGED lookups

\* sessionChanged: the observation was another session's.
ObservationEnds ==
  /\ search.kind = "OBSERVING"
  /\ search' = [search EXCEPT !.kind = "IDLE"]
  /\ UNCHANGED lookups

\* generation === lookupGeneration.current
IsLatest(l) == l.of = search.generation

Tell(l, kind) ==
  search' = IF IsLatest(l) THEN [search EXCEPT !.kind = kind, !.code = l.code] ELSE search

\* The catalog knows the product, refuses the code, fails - or leads on to discovery.
CatalogAnswers(l) ==
  /\ l.step = "CATALOG"
  /\ \E kind \in {"FOUND", "INVALID", "UNSUPPORTED_CATEGORY", "UNAVAILABLE", "DISCOVERING"} :
       /\ Tell(l, kind)
       /\ lookups' = (lookups \ {l}) \cup (IF kind = "DISCOVERING" /\ IsLatest(l)
                                           THEN {[l EXCEPT !.step = "DISCOVERY"]} ELSE {})

DiscoveryAnswers(l) ==
  /\ l.step = "DISCOVERY"
  /\ \E kind \in {"EXTERNAL", "NOT_FOUND", "DISCOVERY_UNAVAILABLE"} : Tell(l, kind)
  /\ lookups' = lookups \ {l}

\* A new lookup is typed in, scanned, or asked for again.
SearchNext ==
  \/ \E c \in Codes : Lookup(c)
  \/ Observe \/ ObservationEnds
  \/ \E l \in lookups : CatalogAnswers(l) \/ DiscoveryAnswers(l)

-----------------------------------------------------------------------------
(* Comparison and PrivateComparison: one submit at a time *)

CompareInit ==
  /\ compare = [form |-> CHOOSE f \in Forms \ Clashing : TRUE, brief |-> 0, status |-> "IDLE",
                of |-> <<>>, pending |-> None, turns |-> 0]
  /\ previews = {}

\* Mutant: the status is left as it was.
Invalidate_RequestOnly(c) == [c EXCEPT !.pending = None]

\* invalidate: also what useMascaraBrief calls when the brief changes.
Invalidate(c) == [c EXCEPT !.status = "IDLE", !.pending = None]

\* updateGtin, the choice of another card, a barcode from the scanner.
ChangeForm(f) ==
  /\ f # compare.form /\ compare.turns < MaxTurns
  /\ compare' = [Invalidate(compare) EXCEPT !.form = f, !.turns = @ + 1]
  /\ UNCHANGED previews

ChangeBrief ==
  /\ compare.turns < MaxTurns
  /\ compare' = [Invalidate(compare) EXCEPT !.brief = @ + 1, !.turns = @ + 1]
  /\ UNCHANGED previews

\* submit, up to prepareComparison.
Submit ==
  /\ compare.pending = None
  /\ IF compare.form \in Clashing
     THEN compare' = [compare EXCEPT !.status = "ERROR"] /\ UNCHANGED previews
     ELSE /\ compare.turns < MaxTurns
          /\ LET id == compare.turns + 1 IN
             /\ compare' = [compare EXCEPT !.status = "LOADING", !.pending = id, !.turns = id]
             /\ previews' = previews \cup {[id |-> id, step |-> "PREPARE", form |-> compare.form,
                                            brief |-> compare.brief]}

IsPending(p) == compare.pending = p.id

\* prepareComparison gives the brief if the session is still the same, else the
\* status is reset and the submit is over.
Prepared(p) ==
  /\ p.step = "PREPARE"
  /\ \/ /\ IsPending(p)
        /\ previews' = (previews \ {p}) \cup {[p EXCEPT !.step = "ASK", !.brief = compare.brief]}
        /\ UNCHANGED compare
     \/ /\ previews' = previews \ {p}
        /\ compare' = IF IsPending(p) THEN Invalidate(compare) ELSE compare

PreviewAnswers(p) ==
  /\ p.step = "ASK"
  /\ previews' = previews \ {p}
  /\ \E status \in {"DONE", "ERROR"} :
       compare' = IF IsPending(p)
                  THEN [compare EXCEPT !.status = status, !.pending = None,
                                       !.of = IF status = "DONE" THEN <<p.form, p.brief>> ELSE @]
                  ELSE compare

CompareNext ==
  \/ \E f \in Forms : ChangeForm(f)
  \/ ChangeBrief \/ Submit
  \/ \E p \in previews : Prepared(p) \/ PreviewAnswers(p)

-----------------------------------------------------------------------------
(* InciCorrectionWorkspace and PrivateProductForm *)

Revision(p, n) == [product |-> p, number |-> n]
Nothing == Revision("NONE", None)    \* no revision

\* Ids of calls: an AbortController each, used again once nothing answers to it.
Fresh == LET free == (1 .. MaxCalls) \ {c.id : c \in inciCalls}
         IN {i \in free : \A j \in free : i <= j}

\* The effect of a mount: what was pending is aborted, and the workspace is loaded.
Mounted(p, initial, id) ==
  [product |-> p, initial |-> initial, phase |-> "LOADING", original |-> Nothing,
   latest |-> Nothing, selected |-> Nothing, analysis |-> Nothing, saved |-> Nothing,
   load |-> id, operation |-> None, saving |-> None]
Call(kind, id, p, r) == [kind |-> kind, id |-> id, product |-> p, of |-> r]

InciInit ==
  /\ history = [p \in Products |-> 0]
  /\ \E p \in Products : /\ inci = Mounted(p, Nothing, 1)
                         /\ inciCalls = {Call("LOAD", 1, p, Nothing)}

\* An observation is opened, from the camera or from the history with a revision.
OpenObservation(p) ==
  \E id \in Fresh, n \in 0 .. history[p] :
    LET initial == IF n = None THEN Nothing ELSE Revision(p, n) IN
    /\ <<p, initial>> # <<inci.product, inci.initial>>
    /\ inci' = Mounted(p, initial, id)
    /\ inciCalls' = inciCalls \cup {Call("LOAD", id, p, Nothing)}
    /\ UNCHANGED history

\* selectableRevisions
Selectable == {inci.original, inci.latest, inci.initial} \ {Nothing}

\* PrivateProductForm is keyed by the revision: another one starts it anew.
Selecting(w, r) == IF r = w.selected THEN w
                   ELSE [w EXCEPT !.selected = r, !.saved = Nothing, !.saving = None]

\* The workspace's first and newest revisions, with the chosen one.
Loaded(c) ==
  /\ c.kind = "LOAD"
  /\ inciCalls' = inciCalls \ {c}
  /\ LET p == c.product
         newest == IF history[p] = 0 THEN Nothing ELSE Revision(p, history[p])
         first == IF history[p] = 0 THEN Nothing ELSE Revision(p, 1)
         chosen == IF inci.initial = Nothing THEN newest ELSE inci.initial
         ready == [inci EXCEPT !.phase = "READY", !.original = first, !.latest = newest,
                               !.load = None]
     IN \/ inci' = IF inci.load = c.id THEN Selecting(ready, chosen) ELSE inci
        \/ inci' = IF inci.load = c.id THEN [inci EXCEPT !.phase = "ERROR", !.load = None]
                   ELSE inci
  /\ UNCHANGED history

\* recognize, save and analyzeSelected, up to their first request.
Begin(kind) ==
  /\ inci.phase = "READY" /\ inci.operation = None
  /\ kind = "ANALYZE" => inci.selected # Nothing
  /\ \E id \in Fresh :
       /\ inci' = [inci EXCEPT !.operation = id, !.analysis = Nothing]
       /\ inciCalls' = inciCalls \cup {Call(kind, id, inci.product, inci.selected)}
  /\ UNCHANGED history

\* isCurrent
IsCurrent(c) == inci.operation = c.id

\* withRevision
WithRevision(w, r) ==
  Selecting([w EXCEPT !.original = IF @ = Nothing THEN r ELSE @, !.latest = r], r)

\* The server adds a revision or gives one it has, whether or not somebody still
\* waits for it; whoever does shows it and has it analysed.
RevisionArrives(c) ==
  /\ c.kind \in {"RECOGNIZE", "SAVE"}
  /\ \E n \in 1 .. MaxRevisions :
       LET r == Revision(c.product, n) IN
       /\ n <= history[c.product] + 1
       /\ history' = [history EXCEPT ![c.product] = IF n > @ THEN n ELSE @]
       /\ inci' = IF IsCurrent(c) THEN WithRevision(inci, r) ELSE inci
       /\ inciCalls' = (inciCalls \ {c}) \cup
                       (IF IsCurrent(c) THEN {Call("ANALYZE", c.id, c.product, r)} ELSE {})

AnalysisArrives(c) ==
  /\ c.kind = "ANALYZE"
  /\ inci' = IF IsCurrent(c) THEN [inci EXCEPT !.analysis = c.of, !.operation = None] ELSE inci
  /\ inciCalls' = inciCalls \ {c} /\ UNCHANGED history

OperationFails(c) ==
  /\ c.kind \in {"RECOGNIZE", "SAVE", "ANALYZE"}
  /\ inci' = IF IsCurrent(c) THEN [inci EXCEPT !.operation = None] ELSE inci
  /\ inciCalls' = inciCalls \ {c} /\ UNCHANGED history

\* The select's onChange; it is disabled while something is pending.
SelectRevision(r) ==
  /\ inci.phase = "READY" /\ inci.operation = None /\ r # inci.selected
  /\ inci' = [Selecting(inci, r) EXCEPT !.analysis = Nothing]
  /\ UNCHANGED <<inciCalls, history>>

\* PrivateProductForm: save, also again.
Keep ==
  /\ inci.phase = "READY" /\ inci.selected # Nothing /\ inci.saving = None
  /\ \E id \in Fresh : /\ inci' = [inci EXCEPT !.saving = id]
                       /\ inciCalls' = inciCalls \cup
                                         {Call("KEEP", id, inci.product, inci.selected)}
  /\ UNCHANGED history

Kept(c) ==
  /\ c.kind = "KEEP"
  /\ inciCalls' = inciCalls \ {c} /\ UNCHANGED history
  /\ \E r \in {c.of, inci.saved} :    \* a failure leaves what was saved before
       inci' = IF inci.saving = c.id THEN [inci EXCEPT !.saved = r, !.saving = None] ELSE inci

InciNext ==
  \/ \E p \in Products : OpenObservation(p)
  \/ \E kind \in {"RECOGNIZE", "SAVE", "ANALYZE"} : Begin(kind)
  \/ \E r \in Selectable : SelectRevision(r)
  \/ Keep
  \/ \E c \in inciCalls : \/ Loaded(c) \/ RevisionArrives(c) \/ AnalysisArrives(c)
                          \/ OperationFails(c) \/ Kept(c)

\* The screens of one page: nothing of one is read by another.
ProductScreensNext ==
  \/ SearchNext /\ UNCHANGED <<compareVars, inciVars>>
  \/ CompareNext /\ UNCHANGED <<searchVars, inciVars>>
  \/ InciNext /\ UNCHANGED <<searchVars, compareVars>>

ProductScreensSpec ==
  /\ SearchInit /\ CompareInit /\ InciInit
  /\ [][ProductScreensNext]_<<searchVars, compareVars, inciVars>>

-----------------------------------------------------------------------------
ProductScreensTypeOK ==
  /\ search.generation \in 0 .. MaxTurns /\ search.code \in Codes
  /\ \A l \in lookups : l.of \in 1 .. MaxTurns /\ l.step \in {"CATALOG", "DISCOVERY"}
  /\ compare.form \in Forms /\ compare.pending \in 0 .. MaxTurns
  /\ \A p \in previews : p.step \in {"PREPARE", "ASK"} /\ p.form \in Forms
  /\ history \in [Products -> 0 .. MaxRevisions]
  /\ \A c \in inciCalls : c.id \in 1 .. MaxCalls /\ c.product \in Products

\* main.tsx:444, comparison.tsx:217, inci-correction.tsx:312: what a screen shows answers
\* what it was asked last - the barcode of the last lookup, the form and the brief as they
\* stand, the revision that is chosen of the observation that is open - although answers of
\* earlier questions keep arriving in any order.
AnswersMatchQuestions ==
  /\ search.kind \notin {"IDLE", "OBSERVING"} => search.code = search.asked
  /\ compare.status = "DONE" => compare.of = <<compare.form, compare.brief>>
  /\ inci.analysis \in {Nothing, inci.selected} /\ inci.saved \in {Nothing, inci.selected}
  /\ \A r \in Selectable \cup ({inci.selected} \ {Nothing}) : r.product = inci.product
  /\ inci.selected # Nothing => inci.selected \in Selectable

\* A screen says it is waiting only while a call of its own is in progress: none is lost.
WaitingIsAnswered ==
  /\ search.kind \in Waiting => \E l \in lookups : IsLatest(l)
  /\ compare.status = "LOADING" => \E p \in previews : IsPending(p)
  /\ inci.phase = "LOADING" => \E c \in inciCalls : c.kind = "LOAD" /\ c.id = inci.load
  /\ inci.operation # None => \E c \in inciCalls : IsCurrent(c)

\* Whatever order the answers arrive in, the screens show answers to what they were asked
\* last, and while they show none one is on its way.
ScreensFollowTheirQuestions ==
  ProductScreensTypeOK /\ AnswersMatchQuestions /\ WaitingIsAnswered
=============================================================================
