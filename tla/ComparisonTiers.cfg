CONSTANTS
  Photos = {p1, p2}
  Texts = {x1, x2}
  Contents = {c1}
  Tasks = {r1, r2, r3}
  MaxRevisions = 3
  MaxSnapshots = 2
  Nobody = Nobody
  e1 = e1
  e2 = e2
  n1 = n1
  n2 = n2
  i1 = i1
  i2 = i2
  Editions = {e1, e2}
  EntriesOf <- MCEntriesOf
  Notes = {n1, n2}
  FactsOf <- MCFactsOf
  NotesFor <- MCNotesFor
  Seeders = {s1, s2}
  Analyses = {a1, a2}
  NoEdition = NoEdition
  NoNotes = NoNotes
  Unresolved = Unresolved
  NoDictionary = NoDictionary
  NoFormula = NoFormula
  NoReview = NoReview
  Offers <- MCOffers
  Briefs <- MCBriefs
  Dictionaries <- MCDictionaries
  MaxLexemes = 5
  Printed <- MCPrinted
  LabelsOf <- MCLabelsOf
  Curated <- MCCurated
  Unresolvable = {}
  MinSamples = 2
  MinAnchors = 4
  MinStratum = 1
  MinPercent = 60
  MaxEdits = 2
SPECIFICATION Spec
SYMMETRY Symmetric
CHECK_DEADLOCK FALSE
INVARIANT TiersAreLexicographic
