------------------------- MODULE IngredientKnowledge -------------------------
(***************************************************************************)
(* Publication of the INCI dictionary and of what is known of its          *)
(* ingredients, and an analysis that reads both.  A publication is one     *)
(* transaction under the advisory lock both share; the knowledge artifact  *)
(* is checked against the dictionary in another transaction before it.     *)
(***************************************************************************)
EXTENDS FiniteSets

CONSTANTS
  Editions,       \* dictionary artifacts: version and content
  EntriesOf,      \* the ingredients of an edition
  Notes,          \* knowledge artifacts
  FactsOf,        \* the ingredients a knowledge artifact speaks of
  NotesFor,       \* the dictionary version it names
  Seeders,        \* runs of the knowledge command
  Analyses,       \* analysis requests
  NoEdition, NoNotes

ASSUME KnowledgeAssumption == NotesFor \in [Notes -> Editions]

VARIABLES
  dictionary,   \* the PUBLISHED wtm_inci_dictionary_snapshots
  knowledge,    \* the PUBLISHED wtm_ingredient_knowledge_snapshots
  prepared,     \* what a command has checked: an artifact, against an edition
  analysis      \* what an analysis has read so far

knowledgeVars == <<dictionary, knowledge, prepared, analysis>>

KnowledgeTypeOK ==
  /\ dictionary \in Editions \cup {NoEdition}
  /\ knowledge \in Notes \cup {NoNotes}
  /\ prepared \in [Seeders -> Notes \cup {NoNotes}]
  /\ analysis \in [Analyses -> [phase : {"START", "CANONICALIZED", "DONE"},
                               dictionary : Editions \cup {NoEdition},
                               knowledge : Notes \cup {NoNotes}]]

Unread == [phase |-> "START", dictionary |-> NoEdition, knowledge |-> NoNotes]

KnowledgeInit ==
  /\ dictionary = NoEdition /\ knowledge = NoNotes
  /\ prepared = [s \in Seeders |-> NoNotes]
  /\ analysis = [a \in Analyses |-> Unread]

\* Mutant: a later dictionary may replace it.
Ready_Anew(e) == dictionary # e

\* publicationState: a dictionary is published only while none is.
Ready(e) == dictionary = NoEdition

PublishDictionary(e) ==
  /\ Ready(e)
  /\ dictionary' = e
  /\ UNCHANGED <<knowledge, prepared, analysis>>

\* prepareIngredientKnowledgePublication on the dictionary read just before.
Fits(k, e) == NotesFor[k] = e /\ FactsOf[k] \subseteq EntriesOf[e]

PrepareKnowledge(s, k) ==
  /\ dictionary # NoEdition /\ Fits(k, dictionary)
  /\ prepared' = [prepared EXCEPT ![s] = k]
  /\ UNCHANGED <<dictionary, knowledge, analysis>>

\* publishInitialSnapshot: ALREADY_PUBLISHED and the conflicts change nothing.
PublishKnowledge(s) ==
  LET k == prepared[s] IN
  /\ k # NoNotes
  /\ prepared' = [prepared EXCEPT ![s] = NoNotes]
  /\ knowledge' = IF knowledge = NoNotes /\ Fits(k, dictionary) THEN k ELSE knowledge
  /\ UNCHANGED <<dictionary, analysis>>

\* analysis: a text is canonicalised with the dictionary, then facts are added.
ReadDictionary(a) ==
  /\ analysis[a].phase = "START" /\ dictionary # NoEdition
  /\ analysis' = [analysis EXCEPT ![a].phase = "CANONICALIZED", ![a].dictionary = dictionary]
  /\ UNCHANGED <<dictionary, knowledge, prepared>>

ReadKnowledge(a) ==
  /\ analysis[a].phase = "CANONICALIZED"
  /\ analysis' = [analysis EXCEPT ![a].phase = "DONE", ![a].knowledge = knowledge]
  /\ UNCHANGED <<dictionary, knowledge, prepared>>

KnowledgeNext ==
  \/ \E e \in Editions : PublishDictionary(e)
  \/ \E s \in Seeders : PublishKnowledge(s) \/ \E k \in Notes : PrepareKnowledge(s, k)
  \/ \E a \in Analyses : ReadDictionary(a) \/ ReadKnowledge(a)

KnowledgeSpec == KnowledgeInit /\ [][KnowledgeNext]_knowledgeVars

-----------------------------------------------------------------------------
\* ingredient-knowledge-repository.ts:114 and inci-dictionary-repository.ts:281: knowledge
\* and dictionary come from separate publications and are read by separate queries, yet
\* the facts in an analysis are about ingredients of the dictionary it was made with.
AnalysesAreGrounded ==
  \A a \in Analyses :
    analysis[a].phase = "DONE" /\ analysis[a].knowledge # NoNotes =>
      Fits(analysis[a].knowledge, analysis[a].dictionary)
=============================================================================
