-------------------------------- MODULE MCInci --------------------------------
(* The modules about ingredients side by side: one of them moves.          *)
EXTENDS InciWorkspace, IngredientKnowledge, Comparison, Benchmark, TLC
CONSTANTS e1, e2, n1, n2, i1, i2
MCEntriesOf == [e \in Editions |-> IF e = e1 THEN {i1, i2} ELSE {i1}]
MCFactsOf == [n \in Notes |-> IF n = n1 THEN {i1, i2} ELSE {i1}]
MCNotesFor == [n \in Notes |-> IF n = n1 THEN e1 ELSE e2]
Symmetric == Permutations(Tasks)

Rev(r, c, q, a) == [rating |-> r, count |-> c, quality |-> q, age |-> a]
F(d, c) == [declared |-> d, conditional |-> c]
\* A catalog product with nothing known but its identity.
Plain(v) == [source |-> "CATALOG", state |-> "READY", variant |-> v, code |-> v, waterproof |-> "UNKNOWN",
  formula |-> NoFormula, complete |-> FALSE, claims |-> {}, review |-> NoReview, priced |-> FALSE]
Known(v) == [Plain(v) EXCEPT !.waterproof = "YES", !.formula = F({"x"}, {})]
MCOffers == {
  Plain(1),
  [Known(1) EXCEPT !.claims = {"VOLUME"}, !.review = Rev(48, 200, "HIGH", 100)],
  [Known(2) EXCEPT !.claims = {"VOLUME", "EASY_REMOVAL"}, !.review = Rev(40, 150, "LOW", 10)],
  [Known(3) EXCEPT !.waterproof = "NO", !.formula = F({"x"}, {"y"}), !.claims = {"EASY_REMOVAL"}, !.review = Rev(45, 60, "MEDIUM", 500)],
  [Known(5) EXCEPT !.formula = F({"x", "y"}, {}), !.claims = {"VOLUME", "LENGTH"}, !.review = Rev(49, 600, "LOW", 10)],
  [Known(8) EXCEPT !.review = Rev(50, 500, "HIGH", 10)],
  [Known(6) EXCEPT !.source = "PRIVATE", !.variant = NoSlot, !.complete = TRUE, !.claims = {"VOLUME", "EASY_REMOVAL"}, !.review = Rev(50, 500, "HIGH", 1), !.priced = TRUE],
  [Known(2) EXCEPT !.source = "PRIVATE", !.variant = NoSlot, !.waterproof = "NO", !.formula = F({"z"}, {})],
  [Plain(7) EXCEPT !.state = "EXTERNAL_CANDIDATE"]}
MCBriefs == [waterproof : {"REQUIRED", "AVOID", "NO_PREFERENCE"}, easyRemoval : BOOLEAN, avoided : {{}, {"y"}, {"z"}},
             goals : {{}, {"VOLUME"}, {"VOLUME", "LENGTH"}}, context : {TRUE}]
MCDictionaries == {NoDictionary, [n \in {"x", "y", "z"} |-> IF n = "x" THEN 1 ELSE 2],
  [n \in {"x", "y", "z"} |-> IF n = "z" THEN Unresolved ELSE IF n = "x" THEN 1 ELSE 2]}

L1 == <<"water", ",", "wax", ",", "mark", "ci">>
L2 == <<"aqua", ",", "?", ",", "water">>
L3 == <<"water", "(", "aqua", ")", ",", "aqua">>
L4 == <<"wax", "(", "ci", ")", ",", "aqua", "[", "mark", "ci", "]">>
MCLabelsOf == {{L1, L2}, {L1, L3}, {L2, L4}, {L1, L2, L4}}
MCCurated == [t \in {<<"water">>, <<"aqua">>} |-> <<"water">>]
MCPrinted == {"water", "ci", "mark", ",", ".", "(", ")", "[", "]"}

VARIABLE part
Init == /\ InciInit /\ KnowledgeInit /\ ComparisonInit /\ LabelInit /\ BenchmarkInit
        /\ part \in {"workspace", "knowledge", "comparison", "label", "benchmark"}
        /\ part # "comparison" => question = CHOOSE q \in [slots : {<<>>}, brief : Briefs, dictionary : Dictionaries] : TRUE
Next == /\ \/ part = "workspace" /\ InciNext /\ UNCHANGED <<knowledgeVars, comparisonVars, label, benchmarkVars>>
           \/ part = "knowledge" /\ KnowledgeNext /\ UNCHANGED <<inciVars, comparisonVars, label, benchmarkVars>>
           \/ part = "comparison" /\ ComparisonNext /\ UNCHANGED <<inciVars, knowledgeVars, label, benchmarkVars>>
           \/ part = "label" /\ LabelNext /\ UNCHANGED <<inciVars, knowledgeVars, comparisonVars, benchmarkVars>>
           \/ part = "benchmark" /\ BenchmarkNext /\ UNCHANGED <<inciVars, knowledgeVars, comparisonVars, label>>
        /\ UNCHANGED part
Spec == Init /\ [][Next]_<<inciVars, knowledgeVars, comparisonVars, label, benchmarkVars, part>>
=============================================================================
