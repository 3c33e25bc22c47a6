------------------------------ MODULE Benchmark ------------------------------
(***************************************************************************)
(* The benchmark that parser and dictionary have to pass.  A tool drafts   *)
(* dictionary and corpus from labels (build-inci-benchmark-draft); people  *)
(* correct the corpus and sign it; evaluateInciBenchmark compares what it  *)
(* expects with what parser and dictionary say, and opens the gate or not. *)
(*                                                                         *)
(* Every token has one component here: a list of colour index numbers that *)
(* share a token is not told apart.                                        *)
(***************************************************************************)
EXTENDS LabelReading

CONSTANTS
  LabelsOf,      \* what samples may be drawn: sequences of labels
  Curated,       \* CANONICAL_EQUIVALENCE_GROUPS: canonical name of a text
  Unresolvable,  \* INTENTIONALLY_UNRESOLVED_LOOKUP_KEYS
  MinSamples, MinAnchors, MinStratum,
  MinPercent,    \* INCI_BENCHMARK_MIN_ACCURACY and _MIN_EXPECTED_RESOLUTION_RATE
  MaxEdits       \* bound: corrections of a corpus

ASSUME BenchmarkAssumption ==
  /\ \A labels \in LabelsOf : IsFiniteSet(labels) /\ labels \subseteq Seq(Lexemes)
  /\ MinPercent \in Nat

VARIABLES corpus, entries, edits   \* entries: the dictionary
benchmarkVars == <<corpus, entries, edits>>

-----------------------------------------------------------------------------
(* build-inci-benchmark-draft                                              *)

canonicalNameFor(text) ==
  IF text \in DOMAIN Curated THEN Curated[text]
  ELSE IF Cardinality({i \in DOMAIN text : text[i] = "ci"}) = 1 THEN <<"ci">> ELSE text

shouldIncludeInDictionary(token) ==
  token.kind # "UNRESOLVED" /\ LookupText(token) \notin Unresolvable

\* One ingredient for each canonical name, every other spelling an alias of it.
buildDictionary(labels) ==
  LET tokens == UNION {{t[n] : n \in DOMAIN t} : t \in {parseInci(l) : l \in labels}}
      texts == {LookupText(t) : t \in {t \in tokens : shouldIncludeInDictionary(t)}}
  IN {[id |-> c, name |-> c, aliases |-> {t \in texts : canonicalNameFor(t) = c /\ t # c}]
        : c \in {canonicalNameFor(t) : t \in texts}}

\* What parser and dictionary say of the samples, by coordinates.
Components(labels, d) ==
  LET seen == {[label |-> l, tokens |-> canonicalizeInci(parseInci(l), d)] : l \in labels}
  IN UNION {{[at |-> <<s.label, n>>, is |-> s.tokens[n]] : n \in DOMAIN s.tokens} : s \in seen}

\* The expectation of an anchor: RESOLVED by name, or not; AMBIGUOUS is not expected.
Expected(is) == [lookup |-> is.lookup, kind |-> is.kind, presence |-> is.presence,
                 resolved |-> IF is.decision.kind = "RESOLVED" THEN {is.decision.id} ELSE {}]

\* assertMinimumDraftStrata: some that cannot be resolved, some conditional, some colours.
HasStrata(anchors) ==
  \A stratum \in {{a \in anchors : a.expected.resolved = {}},
                  {a \in anchors : a.expected.presence = "MAY_CONTAIN"},
                  {a \in anchors : a.expected.kind = "CI_PIGMENT"}} :
    Cardinality(stratum) >= MinStratum

buildAnchors(said) == {[copy |-> 0, at |-> c.at, expected |-> Expected(c.is)] : c \in said}

CanDraft(labels, said) ==
  /\ \A l \in labels : \E c \in said : c.at[1] = l
  /\ \A c \in said : c.is.decision.kind # "AMBIGUOUS"
  /\ Cardinality(labels) >= MinSamples /\ Cardinality(said) >= MinAnchors
  /\ HasStrata(buildAnchors(said))

\* Nobody has reviewed a draft.
buildCorpus(labels, d, said) ==
  [labels |-> labels, anchors |-> buildAnchors(said), dictionary |-> d, reviewer |-> "NOBODY"]

-----------------------------------------------------------------------------
(* evaluateInciBenchmark                                                   *)

\* Unique coordinates of known samples, another reviewer than the annotator, and the
\* dictionary of which the corpus has the checksum.
IsValid(c, d) ==
  /\ c.dictionary = d
  /\ c.reviewer \notin {"NOBODY", "ANNOTATOR"}
  /\ \A a, b \in c.anchors : a.at = b.at => a = b
  /\ \A a \in c.anchors : a.at[1] \in c.labels

At(said, at) == {x.is : x \in {x \in said : x.at = at}}

\* MISSING_COMPONENT, WRONG_LOOKUP_TEXT, ..., in the order they are looked for: an anchor
\* fails once.
Failed(c, said) == {a \in c.anchors : At(said, a.at) = {}
                      \/ \E is \in At(said, a.at) : Expected(is) # a.expected \/ is.decision.kind = "AMBIGUOUS"}
FalseResolutions(c, said) ==
  {a \in c.anchors : a.expected.resolved = {} /\ \E is \in At(said, a.at) : is.decision.kind = "RESOLVED"}
Unexpected(c, said) == {x \in said : \A a \in c.anchors : a.at # x.at}

AtLeast(part, whole) == whole > 0 /\ 100 * part >= MinPercent * whole

\* Names that two samples spell differently.
SpeltTwice(c) ==
  {n \in UNION {a.expected.resolved : a \in c.anchors} :
     \E a, b \in c.anchors : /\ a.expected.resolved = {n} /\ b.expected.resolved = {n}
                             /\ a.at[1] # b.at[1]
                             /\ \E e, f \in {x \in c.anchors : x.expected.resolved = {n}} :
                                  e.expected.lookup # f.expected.lookup}

\* Mutant: what the annotators left out is not asked about.
GatePassed_Incomplete(c, d) ==
  \E said \in {Components(c.labels, d)} :
    LET wrong == Cardinality(Failed(c, said))  all == Cardinality(c.anchors) IN
    /\ IsValid(c, d)
    /\ Cardinality(c.labels) >= MinSamples /\ all >= MinAnchors
    /\ AtLeast(all - wrong, all)
    /\ FalseResolutions(c, said) = {}

GatePassed(c, d) ==
  \E said \in {Components(c.labels, d)} :
    LET wrong == Cardinality(Failed(c, said))
        all == Cardinality(c.anchors)
        resolved == Cardinality({a \in c.anchors : a.expected.resolved # {}})
    IN /\ IsValid(c, d)
       /\ Cardinality(c.labels) >= MinSamples /\ all >= MinAnchors
       /\ HasStrata(c.anchors) /\ Cardinality(SpeltTwice(c)) >= MinStratum
       /\ Unexpected(c, said) = {} /\ \A a \in c.anchors : At(said, a.at) # {}
       /\ AtLeast(resolved, all)
       /\ AtLeast(all - wrong, all)
       /\ FalseResolutions(c, said) = {}

-----------------------------------------------------------------------------
NoCorpus == [labels |-> {}, anchors |-> {}, dictionary |-> {}, reviewer |-> "NOBODY"]
BenchmarkInit == corpus = NoCorpus /\ entries = {} /\ edits = 0

Draft == \E labels \in LabelsOf :
  \E d \in {buildDictionary(labels)} : \E said \in {Components(labels, d)} :
    /\ corpus = NoCorpus /\ CanDraft(labels, said)
    /\ entries' = d /\ corpus' = buildCorpus(labels, d, said) /\ UNCHANGED edits

Edit(anchors) ==
  /\ edits < MaxEdits /\ edits' = edits + 1
  /\ corpus' = [corpus EXCEPT !.anchors = anchors] /\ UNCHANGED entries

\* People take an anchor out, enter one twice, correct one, or put one where nothing is.
Correct ==
  \E a \in corpus.anchors :
    \/ Edit(corpus.anchors \ {a})
    \/ Edit(corpus.anchors \cup {[a EXCEPT !.copy = 1]})
    \/ Edit((corpus.anchors \ {a}) \cup {[a EXCEPT !.expected.resolved = IF @ = {} THEN {<<"wax">>} ELSE {}]})
    \/ Edit((corpus.anchors \ {a}) \cup {[a EXCEPT !.at[2] = @ + 1]})

Sign == \E who \in {"ANNOTATOR", "SOMEBODY"} :
  /\ corpus # NoCorpus /\ corpus.reviewer = "NOBODY"
  /\ corpus' = [corpus EXCEPT !.reviewer = who] /\ UNCHANGED <<entries, edits>>

\* Another edition of the dictionary, with or without the corpus bound to it.
Republish == \E e \in entries :
  /\ edits < MaxEdits /\ edits' = edits + 1
  /\ \E d \in {entries \ {e}, entries \cup {[e EXCEPT !.id = <<"wax">>]}} :
       /\ entries' = d
       /\ \/ UNCHANGED corpus
          \/ corpus' = [corpus EXCEPT !.dictionary = d]

BenchmarkNext == Draft \/ Correct \/ Sign \/ Republish
BenchmarkSpec == BenchmarkInit /\ [][BenchmarkNext]_benchmarkVars

\* inci-benchmark.ts, docs/specs on the benchmark: an open gate is evidence.  Somebody other
\* than the annotator signed it; each component of each sample was judged once; what people
\* could not resolve the dictionary does not resolve either; the share of wrong answers is
\* within the limit; and no draft opens it by itself.
GateIsEarned ==
  GatePassed(corpus, entries) =>
    \A said \in {Components(corpus.labels, entries)} :
    LET judged(x) == {a \in corpus.anchors : a.at = x.at}
        right(x) == \E a \in judged(x) :
          /\ a.expected.presence = x.is.presence /\ a.expected.lookup = x.is.lookup
          /\ IF a.expected.resolved = {} THEN x.is.decision.kind = "UNRESOLVED"
             ELSE x.is.decision.kind = "RESOLVED" /\ a.expected.resolved = {x.is.decision.id}
    IN /\ corpus.reviewer = "SOMEBODY"
       /\ \A x \in said : Cardinality(judged(x)) = 1
       /\ \A x \in said : x.is.decision.kind = "RESOLVED" => \A a \in judged(x) : a.expected.resolved # {}
       /\ AtLeast(Cardinality({x \in said : right(x)}), Cardinality(said))
=============================================================================
