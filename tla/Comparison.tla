------------------------------ MODULE Comparison ------------------------------
(***************************************************************************)
(* Which of two or three mascaras is the better fit.  The two services turn*)
(* what was asked for into candidates, and compareMascaras weighs them by  *)
(* one brief: what must hold, then the wished-for effects, then reviews.   *)
(* Ratings are in tenths, weights of reviews in tenths, ages in days.      *)
(***************************************************************************)
EXTENDS Integers, Sequences, FiniteSets

CONSTANTS Unresolved, NoDictionary, NoFormula, NoReview    \* what is not there
NoSlot == 0

-----------------------------------------------------------------------------
(* ingredient-exclusions: does a formula contain what is to be avoided?    *)

Ids(names, dictionary) == {dictionary[n] : n \in names} \ {Unresolved}

\* By the names as they are written, and by what the dictionary makes of them.  Without a
\* dictionary, with a name it does not know, or with a component that only some shades
\* contain, absence is not established.
assessIngredientExclusions(formula, avoided, dictionary) ==
  IF avoided = {} THEN [present |-> {}, uncertain |-> FALSE]
  ELSE IF formula = NoFormula THEN [present |-> {}, uncertain |-> TRUE]
  ELSE LET written == avoided \cap formula.declared IN
       IF dictionary = NoDictionary THEN [present |-> written, uncertain |-> TRUE]
       ELSE LET known(a, names) == dictionary[a] \in Ids(names, dictionary)
                present == written \cup {a \in avoided : known(a, formula.declared)}
                unclear == {n \in formula.declared \cup formula.conditional \cup avoided :
                              dictionary[n] = Unresolved}
                maybe == {a \in avoided : known(a, formula.conditional)}
            IN [present |-> present, uncertain |-> unclear # {} \/ maybe \ present # {}]

-----------------------------------------------------------------------------
(* The services: slots and candidates                                      *)

\* Blocked for what the lookup said, or because an earlier slot has the same product.
IsReady(slots, i) == slots[i].state = "READY"
SameProduct(s, t) ==
  \/ s.variant # NoSlot /\ s.variant = t.variant
  \/ {s.source, t.source} # {"CATALOG"} /\ s.code = t.code

\* deduplicateResolvedVariants, and its counterpart for private cards
Deduplicated(slots) ==
  [i \in DOMAIN slots |->
     IF IsReady(slots, i) /\ \E j \in 1 .. i - 1 : IsReady(slots, j) /\ SameProduct(slots[i], slots[j])
     THEN [slots[i] EXCEPT !.state = "DUPLICATE_VARIANT"] ELSE slots[i]]

\* A private card has no reviews, and a catalog product no price.
Candidates(slots) ==
  LET distinct == Deduplicated(slots) IN
  [i \in DOMAIN slots |->
     [distinct[i] EXCEPT !.review = IF slots[i].source = "PRIVATE" THEN NoReview ELSE @,
                         !.priced = @ /\ slots[i].source = "PRIVATE",
                         !.complete = @ \/ slots[i].source = "CATALOG"]]

-----------------------------------------------------------------------------
(* hardEvidence                                                            *)

\* What the brief requires, one by one: met, violated, or not to be told.
Waterproofness(c, brief) ==
  IF brief.waterproof = "NO_PREFERENCE" THEN "NONE"
  ELSE IF c.waterproof = "UNKNOWN" THEN "MISSING"
  ELSE IF (c.waterproof = "YES") = (brief.waterproof = "REQUIRED") THEN "MATCH" ELSE "VIOLATION"

Removal(c, brief) ==
  IF ~brief.easyRemoval THEN "NONE"
  ELSE IF "EASY_REMOVAL" \in c.claims THEN "MATCH" ELSE "MISSING"

hardEvidence(c, brief, dictionary) ==
  LET checked == assessIngredientExclusions(c.formula, brief.avoided, dictionary)
      unsure == brief.avoided # {} /\ (checked.uncertain \/ ~c.complete)
      free == brief.avoided # {} /\ checked.present = {} /\ ~unsure
      single == {Waterproofness(c, brief), Removal(c, brief)}
      violated == "VIOLATION" \in single \/ checked.present # {}
      missing == "MISSING" \in single \/ unsure
      matched == "MATCH" \in single \/ free
      reason == IF checked.present # {} THEN "AVOIDED_INGREDIENT_PRESENT"
                ELSE IF Waterproofness(c, brief) = "VIOLATION" THEN "WATERPROOF_CONFLICT"
                ELSE IF Removal(c, brief) = "MATCH" THEN "EASY_REMOVAL_MATCH"
                ELSE IF free THEN "AVOIDED_INGREDIENT_ABSENT"
                ELSE IF matched THEN "WATERPROOF_MATCH"
                ELSE IF brief.context THEN "CONTEXT_NOT_ASSESSED" ELSE "NO_SUPPORTED_DIFFERENCE"
      sure == IF c.source = "PRIVATE" THEN "MEDIUM" ELSE "HIGH"
  IN [violated |-> violated, missing |-> missing,
      outcome |-> IF violated THEN "DISADVANTAGE" ELSE IF missing THEN "NO_DATA"
                  ELSE IF matched THEN "ADVANTAGE" ELSE "NEUTRAL",
      confidence |-> IF violated \/ (matched /\ ~missing) THEN sure ELSE "LOW",
      reason |-> IF missing /\ ~violated THEN "HARD_CONSTRAINT_DATA_MISSING" ELSE reason]

-----------------------------------------------------------------------------
(* Reviews                                                                 *)

\* Tenths of a review: its source's quality, halved after a year.
effectiveReviewCount(r) ==
  LET weight == [LOW |-> 2, MEDIUM |-> 6, HIGH |-> 10][r.quality]
  IN (r.count * weight) \div (IF r.age > 365 THEN 2 ELSE 1)

Assessable(r) == r # NoReview /\ r.count >= 1 /\ r.rating \in 10 .. 50 /\ r.age \in 0 .. 730

reviewConfidence(r) ==
  IF ~Assessable(r) \/ effectiveReviewCount(r) < 200 THEN "NONE"
  ELSE IF effectiveReviewCount(r) >= 1000 /\ r.quality = "HIGH" THEN "HIGH" ELSE "MEDIUM"

\* A rating shrunk towards 3.5 by twenty reviews more, as a fraction.
adjustedReviewRating(r) ==
  [over |-> r.rating * effectiveReviewCount(r) + 35 * 200, under |-> effectiveReviewCount(r) + 200]

\* By a quarter of a star.
ClearlyBetter(r, s) ==
  LET a == adjustedReviewRating(r) b == adjustedReviewRating(s) IN
  2 * (a.over * b.under - b.over * a.under) >= 5 * a.under * b.under
NotWorse(r, s) ==
  LET a == adjustedReviewRating(r) b == adjustedReviewRating(s) IN
  a.over * b.under >= b.over * a.under

ReadySlots(cs) == {i \in DOMAIN cs : cs[i].state = "READY"}
Rated(cs, i) == cs[i].state = "READY" /\ reviewConfidence(cs[i].review) # "NONE"

\* The first of a stable sort by rating.
BestRated(cs, S) ==
  CHOOSE i \in S : \A j \in S \ {i} : /\ NotWorse(cs[i].review, cs[j].review)
                                      /\ NotWorse(cs[j].review, cs[i].review) => i < j

\* Everyone in S has enough reviews, and the best lead the second best clearly.
HasClearWinner(cs, S) ==
  /\ Cardinality(S) > 1 /\ \A i \in S : Rated(cs, i)
  /\ LET best == BestRated(cs, S) IN
     ClearlyBetter(cs[best].review, cs[BestRated(cs, S \ {best})].review)

-----------------------------------------------------------------------------
(* compareMascaras: the criteria                                           *)

Observation(outcome, confidence, reason) ==
  [outcome |-> outcome, confidence |-> confidence, reason |-> reason]
Sure(c) == IF c.source = "PRIVATE" THEN "MEDIUM" ELSE "HIGH"

GoalMatches(c, brief) ==
  Cardinality(brief.goals \cap c.claims) + (IF Removal(c, brief) = "MATCH" THEN 1 ELSE 0)

IdentityAndData(c) ==
  IF c.state = "READY"
  THEN Observation("NEUTRAL", Sure(c), IF c.source = "PRIVATE" THEN "USER_CONFIRMED_IDENTITY"
                                       ELSE "EXACT_CATALOG_IDENTITY")
  ELSE Observation("NO_DATA", "LOW", IF c.state = "EXTERNAL_CANDIDATE"
                                     THEN "EXTERNAL_IDENTITY_UNCONFIRMED"
                                     ELSE "INSUFFICIENT_READY_SLOTS")

HardConstraints(c, brief, dictionary) ==
  IF c.state = "READY"
  THEN LET e == hardEvidence(c, brief, dictionary) IN Observation(e.outcome, e.confidence, e.reason)
  ELSE Observation("NO_DATA", "LOW", "HARD_CONSTRAINT_DATA_MISSING")

DesiredEffect(c, brief) ==
  LET matches == c.state = "READY" /\ GoalMatches(c, brief) > 0 IN
  Observation(IF brief.goals = {} \/ c.state # "READY" THEN "NO_DATA"
              ELSE IF matches THEN "ADVANTAGE" ELSE "NEUTRAL",
              IF matches THEN "MEDIUM" ELSE "LOW",
              IF matches THEN "GOAL_CLAIM_MATCH" ELSE "GOAL_CLAIM_NOT_FOUND")

CustomerReview(cs, i) ==
  IF ~Rated(cs, i) THEN Observation("NO_DATA", "LOW", "REVIEW_DATA_UNAVAILABLE")
  ELSE Observation(IF ~HasClearWinner(cs, ReadySlots(cs)) THEN "NEUTRAL"
                   ELSE IF i = BestRated(cs, ReadySlots(cs)) THEN "ADVANTAGE" ELSE "DISADVANTAGE",
                   reviewConfidence(cs[i].review), "REVIEW_EVIDENCE_COMPARED")

FormulaAndClaims(c) ==
  IF c.state = "READY" /\ c.formula # NoFormula
  THEN Observation("NEUTRAL", Sure(c), IF c.source = "PRIVATE" THEN "USER_FORMULA_AVAILABLE"
                                       ELSE "FORMULA_AVAILABLE")
  ELSE Observation("NO_DATA", "LOW", "FORMULA_DATA_UNAVAILABLE")

PriceAndValue(c) ==
  IF c.state = "READY" /\ c.priced THEN Observation("NEUTRAL", "MEDIUM", "USER_PRICE_AVAILABLE")
  ELSE Observation("NO_DATA", "LOW", "PRICE_DATA_UNAVAILABLE")

Criteria(cs, brief, dictionary) ==
  [i \in DOMAIN cs |->
     {IdentityAndData(cs[i]), HardConstraints(cs[i], brief, dictionary), DesiredEffect(cs[i], brief),
      CustomerReview(cs, i), FormulaAndClaims(cs[i]), PriceAndValue(cs[i])}]

-----------------------------------------------------------------------------
(* compareMascaras: the recommendation                                     *)

NoClearWinner(confidence, reasons) ==
  [slot |-> NoSlot, confidence |-> confidence, reasons |-> reasons]
Preferred(slot, confidence, reason) ==
  [slot |-> slot, confidence |-> confidence, reasons |-> {reason}]

\* What violates nothing and lacks nothing.
Eligible(cs, brief, dictionary) ==
  {i \in DOMAIN cs : LET e == hardEvidence(cs[i], brief, dictionary)
                     IN ~e.violated /\ ~e.missing}

\* Mutant: a draw goes to the first slot.
MostGoals_FirstOfDraw(cs, brief, S) ==
  {i \in S : \A j \in S \ {i} : GoalMatches(cs[i], brief) >= GoalMatches(cs[j], brief)}

\* More of the wished-for effects than every other.
MostGoals(cs, brief, S) ==
  {i \in S : \A j \in S \ {i} : GoalMatches(cs[i], brief) > GoalMatches(cs[j], brief)}

\* Slots that are not ready, whatever the reason.
Blocked(cs) ==
  (IF \E i \in DOMAIN cs : cs[i].state = "EXTERNAL_CANDIDATE"
   THEN {"EXTERNAL_IDENTITY_UNCONFIRMED"} ELSE {})
  \cup (IF \E i \in DOMAIN cs : cs[i].state = "DUPLICATE_VARIANT" THEN {"DUPLICATE_VARIANT"} ELSE {})
  \cup (IF Cardinality(ReadySlots(cs)) < 2 \/ ReadySlots(cs) # DOMAIN cs
        THEN {"INSUFFICIENT_READY_SLOTS"} ELSE {})

HardWinner(c, brief, dictionary) ==
  LET reason == hardEvidence(c, brief, dictionary).reason
  IN <<IF c.source = "PRIVATE" \/ reason = "EASY_REMOVAL_MATCH" THEN "MEDIUM" ELSE "HIGH", reason>>

compareMascaras(cs, brief, dictionary) ==
  LET hard == [i \in DOMAIN cs |-> hardEvidence(cs[i], brief, dictionary)]
      eligible == Eligible(cs, brief, dictionary)
      goals == IF brief.goals = {} THEN {} ELSE MostGoals(cs, brief, eligible)
  IN IF Blocked(cs) # {} THEN NoClearWinner("LOW", Blocked(cs))
     ELSE IF \E i \in DOMAIN cs : ~hard[i].violated /\ hard[i].missing
     THEN NoClearWinner("LOW", {"HARD_CONSTRAINT_DATA_MISSING"})
     ELSE IF eligible = {} THEN NoClearWinner("MEDIUM", {"HARD_CONSTRAINT_VIOLATED"})
     ELSE IF Cardinality(eligible) = 1
     THEN LET i == CHOOSE i \in eligible : TRUE
              w == HardWinner(cs[i], brief, dictionary) IN Preferred(i, w[1], w[2])
     ELSE IF goals # {}
     THEN Preferred(CHOOSE i \in goals : \A j \in goals : i <= j, "MEDIUM", "GOAL_CLAIM_MATCH")
     ELSE IF HasClearWinner(cs, eligible)
     THEN LET i == BestRated(cs, eligible)
          IN Preferred(i, reviewConfidence(cs[i].review), "REVIEW_EVIDENCE_COMPARED")
     ELSE IF \A i \in eligible : Rated(cs, i) THEN NoClearWinner("MEDIUM", {"EVIDENCE_TOO_CLOSE"})
     ELSE NoClearWinner("LOW", {IF brief.goals = {} THEN "REVIEW_DATA_UNAVAILABLE"
                                ELSE "NO_SUPPORTED_DIFFERENCE"})

\* preview of the services; the private one makes nothing about a private card certain.
Preview(slots, cs, brief, dictionary) ==
  LET r == compareMascaras(cs, brief, dictionary)
      private == \E i \in DOMAIN slots : slots[i].source = "PRIVATE"
  IN [recommendation |->
        [r EXCEPT !.confidence = IF private /\ r.slot # NoSlot /\ @ = "HIGH" THEN "MEDIUM" ELSE @],
      criteria |-> Criteria(cs, brief, dictionary)]

-----------------------------------------------------------------------------
(* A request and its answer                                                *)

CONSTANTS Offers, Briefs, Dictionaries    \* what slots, briefs and dictionaries there are

\* What is told of a slot; ratings, counts and ages are numbers, and goals are ticked boxes.
ASSUME ComparisonAssumption ==
  /\ \A o \in Offers :
       /\ DOMAIN o = {"source", "state", "variant", "code", "waterproof", "formula", "complete",
                      "claims", "review", "priced"}
       /\ o.source \in {"CATALOG", "PRIVATE"} /\ o.waterproof \in {"YES", "NO", "UNKNOWN"}
       /\ o.review = NoReview \/ /\ o.review.quality \in {"LOW", "MEDIUM", "HIGH"}
                                 /\ {o.review.rating, o.review.count, o.review.age} \subseteq Nat
  /\ \A b \in Briefs : IsFiniteSet(b.goals)

VARIABLES question, answer

comparisonVars == <<question, answer>>
Unanswered == [recommendation |-> NoClearWinner("LOW", {}), criteria |-> <<>>]

ComparisonInit ==
  /\ question \in [slots : {<<>>}, brief : Briefs, dictionary : Dictionaries]
  /\ answer = Unanswered

ComparisonNext ==
  \E slots \in (Offers \X Offers) \cup (Offers \X Offers \X Offers) :
    /\ answer = Unanswered
    /\ question' = [question EXCEPT !.slots = slots]
    /\ \E cs \in {Candidates(slots)} :
         answer' = Preview(slots, cs, question.brief, question.dictionary)

ComparisonSpec == ComparisonInit /\ [][ComparisonNext]_comparisonVars

-----------------------------------------------------------------------------
(* What one comparison may claim                                           *)

\* What the brief requires, read off the product itself.
Meets(c, b, d) ==
  /\ b.waterproof # "NO_PREFERENCE" => c.waterproof = (IF b.waterproof = "REQUIRED" THEN "YES" ELSE "NO")
  /\ b.easyRemoval => "EASY_REMOVAL" \in c.claims
  /\ b.avoided # {} =>
       /\ c.complete /\ c.formula # NoFormula /\ d # NoDictionary
       /\ \A a \in b.avoided : d[a] # Unresolved
       /\ \A n \in c.formula.declared \cup c.formula.conditional :
            d[n] # Unresolved /\ \A a \in b.avoided : n # a /\ d[n] # d[a]
Effects(c, b) == Cardinality(b.goals \cap c.claims)
Fit(cs) == {i \in DOMAIN cs : Meets(cs[i], question.brief, question.dictionary)}

\* docs/specs/2026-08-31-mascara-comparison-mvp.md:219, comparison.ts:540: what is
\* recommended meets every requirement, and leads everyone else who meets them: either in
\* the wished-for effects, or, where nobody leads all others in these, in reviews, clearly
\* and with enough of them for each.
RecommendationIsEarned ==
  LET cs == Candidates(question.slots)  b == question.brief  w == answer.recommendation.slot
      rivals == Fit(cs) \ {w}
      leads(i) == \A j \in Fit(cs) \ {i} : Effects(cs[i], b) > Effects(cs[j], b)
  IN w # NoSlot =>
       /\ \A i \in DOMAIN cs : cs[i].state = "READY"
       /\ w \in Fit(cs)
       /\ \/ leads(w)
          \/ /\ ~\E i \in Fit(cs) : leads(i)
             /\ \A i \in rivals : Rated(cs, i) /\ Rated(cs, w) /\ ClearlyBetter(cs[w].review, cs[i].review)

\* docs/specs/2026-08-31-mascara-comparison-mvp.md:211: "Apply lexicographic tiers", effects
\* before reviews: nobody who meets the requirements shows more of the wished-for effects than
\* what is recommended.
TiersAreLexicographic ==
  LET cs == Candidates(question.slots)  w == answer.recommendation.slot IN
  w # NoSlot => \A i \in Fit(cs) : Effects(cs[w], question.brief) >= Effects(cs[i], question.brief)

\* docs/specs/2026-09-20-review-weighting.md:4: no certainty from what users said: neither
\* a private card nor a review without a verified purchase makes an answer HIGH, and reviews
\* decide nothing where a private card could win.
CertaintyIsEarned ==
  LET cs == Candidates(question.slots)  r == answer.recommendation
      catalog(i) == cs[i].source = "CATALOG"
      verified(i) == cs[i].review.quality = "HIGH"
  IN /\ r.slot # NoSlot /\ r.confidence = "HIGH" => \A i \in DOMAIN cs : catalog(i)
     /\ r.slot # NoSlot /\ r.reasons = {"REVIEW_EVIDENCE_COMPARED"} =>
          catalog(r.slot) /\ (r.confidence = "HIGH" => verified(r.slot))
     /\ \A i \in DOMAIN answer.criteria : \A o \in answer.criteria[i] :
          o.confidence = "HIGH" =>
            catalog(i) /\ (o.reason = "REVIEW_EVIDENCE_COMPARED" => verified(i))

\* The answer does not depend on the order in which the products were asked for.
OrderDoesNotMatter ==
  LET n == Len(question.slots)
      orders == {p \in [1 .. n -> 1 .. n] : \A i, j \in 1 .. n : p[i] = p[j] => i = j}
      reordered(p) == Candidates([i \in 1 .. n |-> question.slots[p[i]]])
  IN n > 0 =>
       \A p \in orders :
       \A cs \in {reordered(p)} :
       \A r \in {compareMascaras(cs, question.brief, question.dictionary)} :
         /\ r.reasons = answer.recommendation.reasons
         /\ answer.recommendation.slot = IF r.slot = NoSlot THEN NoSlot ELSE p[r.slot]

\* What one comparison may claim: a winner that is one, no more certainty than the sources
\* give, and the same answer in whatever order the products were put.
ComparisonIsHonest == RecommendationIsEarned /\ CertaintyIsEarned /\ OrderDoesNotMatter
=============================================================================
