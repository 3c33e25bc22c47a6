------------------------------ MODULE Artifacts ------------------------------
(***************************************************************************)
(* The two artifacts an operator publishes, from the file to the tables:   *)
(* a catalog manifest, whose rows are either candidates or quarantined,    *)
(* and an INCI dictionary, which is accepted or refused as a whole.        *)
(* Texts are abstracted to whether they pass; barcodes are not: they are   *)
(* sequences of digits, since one number may be written in several ways.   *)
(***************************************************************************)
EXTENDS Integers, Sequences, FiniteSets

CONSTANTS
  Codes,        \* what may stand in a row for its barcode; 10 is no digit
  Records,      \* source record ids
  MaxManifest,  \* bound: rows of a manifest
  Ids, Keys,    \* numbers that stand for UUIDs and lookup keys, in their order
  MaxEntries,   \* bound: ingredients of a dictionary
  MaxAliases    \* bound: aliases of an ingredient

ASSUME ArtifactsAssumption ==
  /\ Codes \subseteq Seq(0 .. 10) /\ Ids \subseteq Nat /\ Keys \subseteq Nat
  /\ MaxManifest \in Nat /\ MaxEntries \in Nat /\ MaxAliases \in Nat

VARIABLES
  manifest,     \* the file: its rows, its rights, and how far it is
  intake,       \* prepareCatalogImport: candidates and quarantined rows
  preview,      \* what the dry run reported
  taken,        \* wtm_product_barcodes: gtin14
  dictionary,   \* the file: its ingredients, and how far it is
  tables        \* wtm_inci_dictionary_entries and _aliases

artifactVars == <<manifest, intake, preview, taken, dictionary, tables>>
manifestVars == <<manifest, intake, preview, taken>>
dictionaryVars == <<dictionary, tables>>

-----------------------------------------------------------------------------
(* gtin.ts                                                                 *)

formatForLength(n) == n \in {8, 12, 13, 14}

Weight(code, i) == IF (Len(code) - i) % 2 = 1 THEN 3 ELSE 1
expectedCheckDigit(code) ==
  LET sum[i \in 0 .. Len(code) - 1] ==
        IF i = 0 THEN 0 ELSE sum[i - 1] + code[i] * Weight(code, i)
  IN  (10 - (sum[Len(code) - 1] % 10)) % 10

WellFormed(code) == formatForLength(Len(code)) /\ \A i \in DOMAIN code : code[i] < 10
IsGtin(code) == WellFormed(code) /\ code[Len(code)] = expectedCheckDigit(code)
Padding(code) == 14 - Len(code)
Gtin14(code) == [i \in 1 .. 14 |-> IF i <= Padding(code) THEN 0 ELSE code[i - Padding(code)]]

-----------------------------------------------------------------------------
(* catalog-import/service.ts: prepareCatalogImport                         *)

ManifestRows == [record : Records, code : Codes, flaw : {"NONE", "SHAPE", "PRODUCT"}]

\* The schema and the names come before the check digit, the category and the quantity after.
Malformed(row) == row.flaw = "SHAPE" \/ ~WellFormed(row.code)
InvalidRow(row) == Malformed(row) \/ (row.flaw = "PRODUCT" /\ IsGtin(row.code))
InvalidGtin(row) == ~Malformed(row) /\ ~IsGtin(row.code)
Preliminary(rows) == {n \in DOMAIN rows : ~InvalidRow(rows[n]) /\ ~InvalidGtin(rows[n])}

\* Mutant: rows are compared by the code as it is written.
CodeKey_AsWritten(row) == row.code

CodeKey(row) == Gtin14(row.code)
SameRecord(rows) == {n \in Preliminary(rows) :
  \E m \in Preliminary(rows) \ {n} : rows[m].record = rows[n].record}
SameGtin(rows) == {n \in Preliminary(rows) :
  \E m \in Preliminary(rows) \ {n} : CodeKey(rows[m]) = CodeKey(rows[n])}

CandidatesOf(rows) == Preliminary(rows) \ (SameRecord(rows) \cup SameGtin(rows))
Quarantine(rows) ==
  {<<n, "INVALID_ROW">> : n \in {m \in DOMAIN rows : InvalidRow(rows[m])}}
    \cup {<<n, "INVALID_GTIN">> : n \in {m \in DOMAIN rows : InvalidGtin(rows[m])}}
    \cup {<<n, "DUPLICATE_SOURCE_RECORD_ID">> : n \in SameRecord(rows)}
    \cup {<<n, "DUPLICATE_GTIN">> : n \in SameGtin(rows) \ SameRecord(rows)}

\* previewNewImport on the barcodes there are.
Refused(rows, ns, licensed, barcodes) ==
  IF licensed
  THEN {<<n, "GTIN_CONFLICT">> : n \in {m \in ns : Gtin14(rows[m].code) \in barcodes}}
  ELSE {<<n, "RIGHTS_NOT_ALLOWED">> : n \in ns}
Report(ready, quarantined) == [ready |-> ready, quarantine |-> quarantined]
previewNewImport ==
  LET refused == Refused(manifest.rows, intake.ready, manifest.licensed, taken) IN
  Report({n \in intake.ready : \A c \in {"GTIN_CONFLICT", "RIGHTS_NOT_ALLOWED"} :
            <<n, c>> \notin refused},
         intake.quarantine \cup refused)

AddRow(row) ==
  /\ manifest.phase = "FILE" /\ Len(manifest.rows) < MaxManifest
  /\ manifest' = [manifest EXCEPT !.rows = Append(@, row)]
  /\ UNCHANGED <<intake, preview, taken, dictionaryVars>>

PrepareCatalogImport ==
  /\ manifest.phase = "FILE" /\ manifest.rows # <<>>      \* else INVALID_MANIFEST
  /\ manifest' = [manifest EXCEPT !.phase = "PREPARED"]
  /\ intake' = Report(CandidatesOf(manifest.rows), Quarantine(manifest.rows))
  /\ UNCHANGED <<preview, taken, dictionaryVars>>

\* The dry run, and publish, which starts with the same rows.
PreviewImport ==
  /\ manifest.phase = "PREPARED"
  /\ manifest' = [manifest EXCEPT !.phase = "PUBLISHING"]
  /\ preview' = previewNewImport
  /\ intake' = IF manifest.licensed THEN intake
               ELSE Report(intake.ready, intake.quarantine \cup
                             Refused(manifest.rows, intake.ready, FALSE, taken))
  /\ UNCHANGED <<taken, dictionaryVars>>

Undecided ==
  (intake.ready \ manifest.inserted) \ {q[1] : q \in intake.quarantine}

\* publishCandidate looks at the barcodes, those it has just inserted included.
PublishCandidate(n) ==
  LET g == Gtin14(manifest.rows[n].code) IN
  /\ manifest.phase = "PUBLISHING" /\ n \in Undecided
  /\ IF g \in taken
     THEN /\ intake' = Report(intake.ready \ {n}, intake.quarantine \cup {<<n, "GTIN_CONFLICT">>})
          /\ UNCHANGED <<manifest, taken>>
     ELSE /\ taken' = taken \cup {g}
          /\ manifest' = [manifest EXCEPT !.inserted = @ \cup {n}]
          /\ UNCHANGED intake
  /\ UNCHANGED <<preview, dictionaryVars>>

InsertBatch ==
  /\ manifest.phase = "PUBLISHING" /\ Undecided = {}
  /\ manifest' = [manifest EXCEPT !.phase = "STORED"]
  /\ UNCHANGED <<intake, preview, taken, dictionaryVars>>

-----------------------------------------------------------------------------
(* inci-dictionary/service.ts: prepareInciDictionaryPublication, which     *)
(* reads one ingredient after the other, and insertSnapshot.               *)

Aliases == [id : Ids, key : Keys]
Entries == [id : Ids, key : Keys,
            aliases : UNION {[1 .. n -> Aliases] : n \in 0 .. MaxAliases}]

Before(x, y) == x.key < y.key \/ (x.key = y.key /\ x.id <= y.id)
Ordered(xs) == \A i \in 1 .. Len(xs) - 1 : Before(xs[i], xs[i + 1])
IdsOf(x) == {x.id} \cup {x.aliases[j].id : j \in DOMAIN x.aliases}
IdsIn(xs) == UNION {IdsOf(xs[i]) : i \in DOMAIN xs}

\* DUPLICATE_ID, DUPLICATE_CANONICAL_KEY, DUPLICATE_ALIAS_MAPPING, or the order.
IngredientFails(x, earlier) ==
  \/ IdsOf(x) \cap IdsIn(earlier) # {}
  \/ Cardinality(IdsOf(x)) # Len(x.aliases) + 1
  \/ \E i \in DOMAIN earlier : earlier[i].key = x.key
  \/ \E j, k \in DOMAIN x.aliases : j # k /\ x.aliases[j].key = x.aliases[k].key
  \/ ~Ordered(x.aliases)

ReadIngredient(x) ==
  /\ dictionary.phase = "READING" /\ Len(dictionary.entries) < MaxEntries
  /\ dictionary' = [phase |-> IF IngredientFails(x, dictionary.entries) THEN "REFUSED" ELSE "READING",
                    entries |-> Append(dictionary.entries, x)]
  /\ UNCHANGED <<tables, manifestVars>>

\* The last ingredient is read: INVALID_ENTRY_COUNT, NON_DETERMINISTIC_ORDER.
DictionaryRead ==
  /\ dictionary.phase = "READING"
  /\ dictionary' = [dictionary EXCEPT !.phase =
       IF dictionary.entries # <<>> /\ Ordered(dictionary.entries) THEN "ACCEPTED" ELSE "REFUSED"]
  /\ UNCHANGED <<tables, manifestVars>>

InsertSnapshot ==
  LET xs == dictionary.entries IN
  /\ dictionary.phase = "ACCEPTED"
  /\ tables' = [entries |-> {<<i, xs[i].id, xs[i].key>> : i \in DOMAIN xs},
                aliases |-> UNION {{<<i, j, xs[i].id, xs[i].aliases[j]>> : j \in DOMAIN xs[i].aliases}
                                   : i \in DOMAIN xs}]
  /\ dictionary' = [dictionary EXCEPT !.phase = "STORED"]
  /\ UNCHANGED manifestVars

\* findPublishedSnapshot: in the order of the query, grouped by ingredient.
InOrder(S) == CHOOSE xs \in [1 .. Cardinality(S) -> S] :
                S = {xs[i] : i \in DOMAIN xs} /\ Ordered(xs)
AliasesOf(id) == {a[4] : a \in {b \in tables.aliases : b[3] = id}}
ReadBack == InOrder({[id |-> e[2], key |-> e[3], aliases |-> InOrder(AliasesOf(e[2]))]
                     : e \in tables.entries})

ArtifactsInit ==
  /\ \E l \in BOOLEAN, t \in {{}} \cup {{Gtin14(c)} : c \in {d \in Codes : IsGtin(d)}} :
       /\ manifest = [phase |-> "FILE", licensed |-> l, rows |-> <<>>, inserted |-> {}]
       /\ taken = t
  /\ intake = Report({}, {}) /\ preview = Report({}, {})
  /\ dictionary = [phase |-> "READING", entries |-> <<>>]
  /\ tables = [entries |-> {}, aliases |-> {}]

ManifestNext ==
  \/ \E row \in ManifestRows : AddRow(row)
  \/ PrepareCatalogImport \/ PreviewImport \/ InsertBatch
  \/ \E n \in 1 .. MaxManifest : PublishCandidate(n)

DictionaryNext ==
  \/ \E x \in Entries : ReadIngredient(x)
  \/ DictionaryRead \/ InsertSnapshot

ArtifactsSpec == ArtifactsInit /\ [][ManifestNext \/ DictionaryNext]_artifactVars

-----------------------------------------------------------------------------
\* The digits of a number by their distance from the right, without its zeros.
Significant(code) == {<<Len(code) - i, code[i]>> : i \in {j \in DOMAIN code : code[j] # 0}}

\* A code with one digit read wrongly is no code.
OneDigitOff(code) ==
  {[code EXCEPT ![i] = d] : i \in DOMAIN code, d \in 0 .. 9} \ {code}

\* catalog-import/service.ts:141: every row of a manifest is either a candidate or
\* quarantined once; no two candidates are one record or one number, however it is
\* written, and rows are set aside as duplicates only of each other.  The dry run reports
\* what publication then does (catalog-import-repository.ts:275, :314).
ManifestIsPublishable ==
  LET rows == manifest.rows
      quarantined == {q[1] : q \in intake.quarantine}
  IN
  /\ manifest.phase = "PREPARED" =>
       /\ intake.ready \cup quarantined = DOMAIN rows /\ intake.ready \cap quarantined = {}
       /\ Cardinality(intake.quarantine) = Cardinality(quarantined)
       /\ \A n \in intake.ready, m \in DOMAIN rows :
            n # m /\ rows[m].flaw = "NONE" /\ IsGtin(rows[m].code) =>
              /\ Significant(rows[m].code) # Significant(rows[n].code)
              /\ rows[m].record # rows[n].record
       /\ \A n \in SameRecord(rows) \cup SameGtin(rows) : \E m \in DOMAIN rows \ {n} :
            rows[m].record = rows[n].record \/ Significant(rows[m].code) = Significant(rows[n].code)
       /\ \A n \in intake.ready : \A wrong \in OneDigitOff(rows[n].code) : ~IsGtin(wrong)
  /\ manifest.phase = "STORED" =>
       /\ preview.quarantine = intake.quarantine
       /\ preview.ready = manifest.inserted

\* inci-dictionary/service.ts:139: a dictionary that is accepted meets no constraint of
\* 0011_inci_dictionary.sql when it is inserted, and is read back entry for entry in the
\* order in which it was signed.
DictionaryIsPublishable ==
  dictionary.phase = "STORED" =>
    /\ \A e, f \in tables.entries : e # f => e[2] # f[2] /\ e[3] # f[3]
    /\ \A a, b \in tables.aliases : a # b =>
         a[4].id # b[4].id /\ <<a[3], a[4].key>> # <<b[3], b[4].key>>
    /\ ReadBack = dictionary.entries

\* What an operator publishes is stored as it was checked.
ArtifactsArePublishable == ManifestIsPublishable /\ DictionaryIsPublishable
=============================================================================
