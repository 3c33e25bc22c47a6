---------------------------- MODULE CatalogProofs ---------------------------
(***************************************************************************)
(* Proofs about the catalog (Catalog), for any accounts, barcodes, imports *)
(* and numbers of rows, about the lookup of what is known of a product     *)
(* (ProductFacts), for any variants, texts, revisions and claims, and      *)
(* about what an operator publishes (Artifacts), for any manifest and any  *)
(* dictionary.                                                             *)
(***************************************************************************)
EXTENDS Catalog, ProductFacts, Artifacts,
        FiniteSetTheorems, FunctionTheorems, SequenceTheorems, WellFoundedInduction, TLAPS

-----------------------------------------------------------------------------
(* The catalog.  The three invariants rest on one another: a rollback      *)
(* spares what was promoted because the two never share a family, which    *)
(* they do not since both insert new ones; it frees only barcodes that are *)
(* its own because no two published imports hold one, which they do not    *)
(* since both found it free.                                               *)

FamiliesExist == \A v \in DOMAIN variants : variants[v].family \in DOMAIN families

FamilyOf(v) == variants[v].family

\* A promotion has its barcode, and is shown until it is withdrawn.
CaseIsKept(g) ==
  cases[g].status = "PUBLISHED" =>
    /\ cases[g].variant \in DOMAIN variants /\ barcode[g] = cases[g].variant
    /\ Shown(g) \/ cases[g].variant \in withdrawn

\* An import has the barcodes of its items; rolled back, it has none of them.
BatchIsKept(b) ==
  /\ \A g \in Gtins : batches[b].items[g] \in 0 .. Len(variants)
  /\ batches[b].status \in {"NONE", "QUARANTINED"} => ItemsOf(b) = {}
  /\ batches[b].status = "PUBLISHED" => \A g \in ItemsOf(b) : barcode[g] = batches[b].items[g]
  /\ batches[b].status = "ROLLED_BACK" =>
       \A g \in ItemsOf(b) : LET v == batches[b].items[g] IN
         variants[v].status = "ARCHIVED" /\ v \notin withdrawn /\ barcode[g] # v

\* No promotion shares a family with an item of an import.
Apart(g, b) ==
  cases[g].status = "PUBLISHED" =>
    \A h \in ItemsOf(b) : FamilyOf(cases[g].variant) # FamilyOf(batches[b].items[h])

\* No two published imports have an item for one barcode.
Exclusive ==
  \A b, c \in Batches : /\ b # c
                        /\ batches[b].status = "PUBLISHED" /\ batches[c].status = "PUBLISHED"
                        => ItemsOf(b) \cap ItemsOf(c) = {}

WithdrawnIsArchived == \A v \in withdrawn : variants[v].status = "ARCHIVED"

RollsBackPublished ==
  rolling.batch # None => batches[rolling.batch].status \in {"PUBLISHED", "QUARANTINED"}

CasesAreModerated ==
  \A g \in Gtins :
    /\ cases[g].status # "PUBLISHED" => cases[g].resolution = "NONE"
    /\ g \in disputed => \/ cases[g].status = "NEEDS_MODERATION"
                         \/ cases[g].status = "PUBLISHED" /\ cases[g].resolution = "ADMIN"

CatalogInv ==
  /\ TypeOK /\ FamiliesExist
  /\ \A g \in Gtins : CaseIsKept(g) /\ \A b \in Batches : Apart(g, b)
  /\ \A b \in Batches : BatchIsKept(b)
  /\ Exclusive /\ WithdrawnIsArchived /\ RollsBackPublished /\ CasesAreModerated

-----------------------------------------------------------------------------
(* What a step may do to the rows without disturbing anybody's.            *)

Moves ==
  \* A variant stays in its family; archived it stays so; only a curator ends a publication.
  /\ \A v \in DOMAIN variants :
       /\ v \in DOMAIN variants' /\ variants'[v].family = variants[v].family
       /\ variants[v].status = "ARCHIVED" => variants'[v].status = "ARCHIVED"
       /\ variants[v].status = "PUBLISHED" => variants'[v].status = "PUBLISHED" \/ v \in withdrawn'
  /\ withdrawn \subseteq withdrawn' /\ withdrawn' \subseteq DOMAIN variants
  /\ \A v \in withdrawn' : variants'[v].status = "ARCHIVED"
  /\ \A v \in withdrawn' \ withdrawn : variants[v].status # "ARCHIVED"
  \* A family that is published stays so while a variant of it is.
  /\ \A v \in DOMAIN variants :
       variants[v].status = "PUBLISHED" /\ families[FamilyOf(v)].status = "PUBLISHED" =>
         families'[FamilyOf(v)].status = "PUBLISHED"
  \* A barcode is given out when it is free, and not to a variant that is archived.
  /\ \A g \in Gtins : \/ barcode'[g] = barcode[g]
                      \/ barcode[g] = 0 /\ variants'[barcode'[g]].status # "ARCHIVED"

LEMMA CasesMove ==
  ASSUME CatalogInv, Moves, NEW g \in Gtins, cases'[g] = cases[g]
  PROVE  CaseIsKept(g)'
<1> SUFFICES ASSUME cases[g].status = "PUBLISHED" PROVE CaseIsKept(g)'
  BY DEF CaseIsKept
<1> DEFINE v == cases[g].variant
<1>1. v \in DOMAIN variants /\ barcode[g] = v /\ (Shown(g) \/ v \in withdrawn) /\ v # 0
  BY DEF CatalogInv, CaseIsKept, TypeOK
<1>2. v \in DOMAIN variants' /\ barcode'[g] = v /\ FamilyOf(v)' = FamilyOf(v)
  BY <1>1 DEF Moves, FamilyOf
<1>3. Shown(g) => Shown(g)' \/ v \in withdrawn'
  BY <1>1, <1>2 DEF Moves, Shown, Free, FamilyOf
<1> QED BY <1>1, <1>2, <1>3 DEF CaseIsKept, Moves

LEMMA BatchesMove ==
  ASSUME CatalogInv, TypeOK', Moves, NEW b \in Batches, batches'[b] = batches[b]
  PROVE  BatchIsKept(b)'
<1> USE DEF ItemsOf
<1>1. BatchIsKept(b) /\ DOMAIN variants = 1 .. Len(variants) /\ DOMAIN variants' = 1 .. Len(variants')
      /\ Len(variants) \in Nat /\ Len(variants') \in Nat
  BY DEF CatalogInv, TypeOK
<1>2. \A g \in Gtins : batches[b].items[g] \in 0 .. Len(variants) /\
        (g \in ItemsOf(b) => batches[b].items[g] \in DOMAIN variants)
  BY <1>1 DEF BatchIsKept
<1>3. \A g \in Gtins : batches[b].items[g] \in 0 .. Len(variants')
  BY <1>1, <1>2 DEF Moves
<1>4. ItemsOf(b)' = ItemsOf(b)
  OBVIOUS
<1>5. batches[b].status = "PUBLISHED" => \A g \in ItemsOf(b) : barcode'[g] = batches[b].items[g]
  BY <1>1, <1>2 DEF BatchIsKept, Moves
<1>6. ASSUME batches[b].status = "ROLLED_BACK", NEW g \in ItemsOf(b)
      PROVE  LET v == batches[b].items[g] IN
               variants'[v].status = "ARCHIVED" /\ v \notin withdrawn' /\ barcode'[g] # v
  BY <1>1, <1>2, <1>6 DEF BatchIsKept, Moves
<1> QED BY <1>1, <1>3, <1>4, <1>5, <1>6 DEF BatchIsKept

LEMMA ApartMoves ==
  ASSUME CatalogInv, Moves, NEW g \in Gtins, NEW b \in Batches, cases'[g] = cases[g], batches'[b] = batches[b]
  PROVE  Apart(g, b)'
<1>1. BatchIsKept(b) /\ CaseIsKept(g) /\ Apart(g, b) /\ DOMAIN variants = 1 .. Len(variants)
  BY DEF CatalogInv, TypeOK
<1>2. \A h \in ItemsOf(b) : batches[b].items[h] \in DOMAIN variants
  BY <1>1 DEF BatchIsKept, ItemsOf
<1> QED BY <1>1, <1>2 DEF Apart, CaseIsKept, FamilyOf, ItemsOf, Moves

\* A step that leaves the promotions, the imports and the rollback alone.
LEMMA CuratorSteps ==
  ASSUME CatalogInv, TypeOK', FamiliesExist', Moves, UNCHANGED <<cases, disputed, batches, rolling>>
  PROVE  CatalogInv'
<1>1. \A g \in Gtins : CaseIsKept(g)' /\ \A b \in Batches : Apart(g, b)'
  BY CasesMove, ApartMoves
<1>2. \A b \in Batches : BatchIsKept(b)'
  BY BatchesMove
<1>3. Exclusive' /\ RollsBackPublished' /\ CasesAreModerated'
  BY DEF CatalogInv, Exclusive, ItemsOf, RollsBackPublished, CasesAreModerated
<1>4. WithdrawnIsArchived'
  BY DEF Moves, WithdrawnIsArchived
<1> QED BY <1>1, <1>2, <1>3, <1>4 DEF CatalogInv

LEMMA CatalogStarts == Init => CatalogInv
<1> SUFFICES ASSUME Init PROVE CatalogInv
  OBVIOUS
<1> USE DEF Init
<1>1. TypeOK
  BY CatalogAssumption DEF TypeOK, CaseRows, NoCase, BatchRows, NoBatch, NotRolling
<1>2. FamiliesExist /\ Exclusive /\ WithdrawnIsArchived /\ RollsBackPublished
  BY DEF FamiliesExist, Exclusive, WithdrawnIsArchived, RollsBackPublished, NotRolling, NoBatch
<1>3. CasesAreModerated /\ \A g \in Gtins : CaseIsKept(g) /\ \A b \in Batches : Apart(g, b)
  BY DEF CasesAreModerated, CaseIsKept, Apart, NoCase
<1>4. \A b \in Batches : BatchIsKept(b)
  BY DEF BatchIsKept, NoBatch, ItemsOf
<1> QED BY <1>1, <1>2, <1>3, <1>4 DEF CatalogInv

-----------------------------------------------------------------------------
(* The curator.                                                            *)

LEMMA RowsOfTables ==
  ASSUME TypeOK
  PROVE  /\ DOMAIN families = 1 .. Len(families) /\ DOMAIN variants = 1 .. Len(variants)
         /\ Len(families) \in Nat /\ Len(variants) \in Nat
         /\ \A f \in DOMAIN families : families[f] \in FamilyRows
         /\ \A v \in DOMAIN variants : variants[v] \in VariantRows
BY DEF TypeOK

\* Rows that are appended disturb nobody.
LEMMA CreateFamilyIsSafe ==
  ASSUME CatalogInv, CreateFamily
  PROVE  CatalogInv'
<1> DEFINE row == [status |-> "DRAFT"]
<1>1. /\ families' = Append(families, row) /\ row \in FamilyRows /\ Len(families) + 1 <= MaxRows
      /\ UNCHANGED <<variants, creating, barcode, promoting, importing, withdrawn>>
  BY CatalogAssumption, RowsOfTables DEF CatalogInv, CreateFamily, FamilyRows, Statuses
<1> HIDE DEF row
<1>2. /\ families' \in Seq(FamilyRows) /\ Len(families') = Len(families) + 1
      /\ \A f \in DOMAIN families : f \in DOMAIN families' /\ families'[f] = families[f]
  BY <1>1, RowsOfTables DEF CatalogInv, TypeOK
<1>3. TypeOK'
  BY <1>1, <1>2 DEF CatalogInv, TypeOK, promoting, importing
<1>4. FamiliesExist'
  BY <1>1, <1>2 DEF CatalogInv, FamiliesExist
<1>5. Moves
  BY <1>1, <1>2 DEF CatalogInv, TypeOK, FamiliesExist, WithdrawnIsArchived, Moves, FamilyOf
<1> QED BY <1>1, <1>3, <1>4, <1>5, CuratorSteps DEF promoting, importing

LEMMA CreateVariantIsSafe ==
  ASSUME CatalogInv, NEW f \in DOMAIN families, CreateVariantBegin(f) \/ CreateVariantCommit(f)
  PROVE  CatalogInv'
<1>1. CASE CreateVariantBegin(f)
  <2>1. UNCHANGED <<families, variants, barcode, promoting, importing, withdrawn>> /\ creating' = creating \cup {f}
    BY <1>1 DEF CreateVariantBegin
  <2>2. TypeOK' /\ FamiliesExist' /\ Moves
    BY <2>1 DEF CatalogInv, TypeOK, FamiliesExist, WithdrawnIsArchived, Moves, promoting, importing
  <2> QED BY <2>1, <2>2, CuratorSteps DEF promoting, importing
<1>2. CASE CreateVariantCommit(f)
  <2> DEFINE row == [family |-> f, status |-> "DRAFT"]
  <2>1. /\ variants' = Append(variants, row) /\ Len(variants) < MaxRows /\ creating' = creating \ {f}
        /\ UNCHANGED <<families, barcode, promoting, importing, withdrawn>>
    BY <1>2 DEF CreateVariantCommit
  <2>2. row \in VariantRows /\ row.family \in DOMAIN families /\ Len(variants) + 1 <= MaxRows
    BY <2>1, CatalogAssumption, RowsOfTables DEF CatalogInv, TypeOK, VariantRows, Rows, Statuses
  <2> HIDE DEF row
  <2>3. /\ variants' \in Seq(VariantRows) /\ Len(variants') = Len(variants) + 1
        /\ variants'[Len(variants')] = row
        /\ \A v \in DOMAIN variants : v \in DOMAIN variants' /\ variants'[v] = variants[v]
        /\ \A v \in DOMAIN variants' : v \in DOMAIN variants \/ v = Len(variants')
    BY <2>1, <2>2, RowsOfTables DEF CatalogInv, TypeOK
  <2>4. TypeOK'
    <3>1. barcode' \in [Gtins -> 0 .. Len(variants')]
      BY <2>1, <2>3, RowsOfTables DEF CatalogInv, TypeOK
    <3> QED BY <2>1, <2>2, <2>3, <3>1 DEF CatalogInv, TypeOK, promoting, importing
  <2>5. FamiliesExist'
    BY <2>1, <2>2, <2>3 DEF CatalogInv, FamiliesExist
  <2>6. Moves
    BY <2>1, <2>3 DEF CatalogInv, TypeOK, FamiliesExist, WithdrawnIsArchived, Moves, FamilyOf
  <2> QED BY <2>1, <2>4, <2>5, <2>6, CuratorSteps DEF promoting, importing
<1> QED BY <1>1, <1>2

LEMMA AttachBarcodeIsSafe ==
  ASSUME CatalogInv, NEW v \in DOMAIN variants, NEW g \in Gtins, AttachBarcode(v, g)
  PROVE  CatalogInv'
<1>1. /\ barcode' = [barcode EXCEPT ![g] = v] /\ barcode[g] = 0 /\ variants[v].status # "ARCHIVED"
      /\ UNCHANGED <<families, variants, creating, promoting, importing, withdrawn>>
  BY DEF AttachBarcode, Free, editing
<1>2. /\ barcode' \in [Gtins -> 0 .. Len(variants)] /\ barcode'[g] = v
      /\ \A h \in Gtins \ {g} : barcode'[h] = barcode[h]
  BY <1>1, RowsOfTables DEF CatalogInv, TypeOK
<1>3. TypeOK' /\ FamiliesExist'
  BY <1>1, <1>2 DEF CatalogInv, TypeOK, FamiliesExist, promoting, importing
<1>4. Moves
  BY <1>1, <1>2 DEF CatalogInv, TypeOK, WithdrawnIsArchived, Moves
<1> QED BY <1>1, <1>3, <1>4, CuratorSteps DEF promoting, importing

\* A family is archived when none of its variants is published.
LEMMA TransitionFamilyIsSafe ==
  ASSUME CatalogInv, NEW f \in DOMAIN families, NEW s \in Statuses, TransitionFamilyStatus(f, s)
  PROVE  CatalogInv'
<1>1. /\ families' = [families EXCEPT ![f].status = s]
      /\ canTransitionCatalogStatus(families[f].status, s) /\ (s = "ARCHIVED" => Active(f) = {})
      /\ UNCHANGED <<variants, creating, barcode, promoting, importing, withdrawn>>
  BY DEF TransitionFamilyStatus
<1>2. families' = [families EXCEPT ![f] = [status |-> s]] /\ [status |-> s] \in FamilyRows
  <2>1. families[f] \in FamilyRows
    BY RowsOfTables DEF CatalogInv
  <2>2. [families[f] EXCEPT !.status = s] = [status |-> s] /\ [status |-> s] \in FamilyRows
    BY <2>1 DEF FamilyRows
  <2> QED BY <1>1, <2>2
<1>3. /\ families' \in Seq(FamilyRows) /\ Len(families') = Len(families)
      /\ families'[f].status = s /\ \A h \in DOMAIN families \ {f} : families'[h] = families[h]
  BY <1>2, ExceptSeq DEF CatalogInv, TypeOK
<1>4. TypeOK' /\ FamiliesExist'
  BY <1>1, <1>3 DEF CatalogInv, TypeOK, FamiliesExist, promoting, importing
<1>5. \A v \in DOMAIN variants :
        variants[v].status = "PUBLISHED" /\ families[FamilyOf(v)].status = "PUBLISHED" =>
          families'[FamilyOf(v)].status = "PUBLISHED"
  BY <1>1, <1>3 DEF CatalogInv, FamiliesExist, FamilyOf, Active, Siblings, canTransitionCatalogStatus
<1>6. Moves
  BY <1>1, <1>5 DEF CatalogInv, TypeOK, WithdrawnIsArchived, Moves
<1> QED BY <1>1, <1>4, <1>6, CuratorSteps DEF promoting, importing

LEMMA TransitionVariantIsSafe ==
  ASSUME CatalogInv, NEW v \in DOMAIN variants, NEW s \in Statuses, TransitionVariantStatus(v, s)
  PROVE  CatalogInv'
<1>1. /\ variants' = [variants EXCEPT ![v].status = s]
      /\ canTransitionCatalogStatus(variants[v].status, s)
      /\ withdrawn' = IF s = "ARCHIVED" THEN withdrawn \cup {v} ELSE withdrawn
      /\ UNCHANGED <<families, creating, barcode, promoting, importing>>
  BY DEF TransitionVariantStatus
<1>2. /\ variants' = [variants EXCEPT ![v] = [variants[v] EXCEPT !.status = s]]
      /\ [variants[v] EXCEPT !.status = s] \in VariantRows
  BY <1>1, RowsOfTables DEF CatalogInv, VariantRows
<1>3. /\ variants' \in Seq(VariantRows) /\ Len(variants') = Len(variants)
      /\ DOMAIN variants' = DOMAIN variants
      /\ variants'[v].status = s /\ variants'[v].family = variants[v].family
      /\ \A w \in DOMAIN variants \ {v} : variants'[w] = variants[w]
  <2> DEFINE row == [variants[v] EXCEPT !.status = s]
  <2>1. row.status = s /\ row.family = variants[v].family
    BY RowsOfTables DEF CatalogInv, VariantRows
  <2> HIDE DEF row
  <2>2. /\ variants' \in Seq(VariantRows) /\ Len(variants') = Len(variants)
        /\ variants'[v] = row /\ \A w \in DOMAIN variants \ {v} : variants'[w] = variants[w]
    BY <1>2, ExceptSeq DEF CatalogInv, TypeOK, row
  <2> QED BY <2>1, <2>2, RowsOfTables DEF CatalogInv
<1>4. TypeOK' /\ FamiliesExist'
  BY <1>1, <1>3 DEF CatalogInv, TypeOK, FamiliesExist, promoting, importing
<1>5. Moves
  BY <1>1, <1>3 DEF CatalogInv, TypeOK, WithdrawnIsArchived, Moves, FamilyOf, canTransitionCatalogStatus
<1> QED BY <1>1, <1>4, <1>5, CuratorSteps DEF promoting, importing

-----------------------------------------------------------------------------
(* New rows.                                                               *)

LEMMA RowsAreNumbered ==
  ASSUME NEW gs \in SUBSET Gtins
  PROVE  /\ Cardinality(gs) \in Nat
         /\ NewRows(gs) \in [gs -> 1 .. Cardinality(gs)]
<1>1. IsFiniteSet(gs) /\ Cardinality(gs) \in Nat
  BY CatalogAssumption, FS_Subset, FS_CardinalityType
<1>2. \E f : f \in Bijection(1 .. Cardinality(gs), gs)
  BY <1>1, FS_CardinalityType DEF ExistsBijection
<1>3. PICK n : n \in Bijection(gs, 1 .. Cardinality(gs))
  BY <1>2, Fun_BijInverse
<1>4. n \in [gs -> 1 .. Cardinality(gs)] /\ \A g, h \in gs : n[g] = n[h] => g = h
  BY <1>3 DEF Bijection, Injection, IsInjective
<1> QED BY <1>1, <1>4 DEF NewRows

LEMMA ConcatenatedRows ==
  ASSUME NEW S, NEW s \in Seq(S), NEW t \in Seq(S)
  PROVE  /\ s \o t \in Seq(S) /\ Len(s \o t) = Len(s) + Len(t)
         /\ \A i \in 1 .. Len(s) : (s \o t)[i] = s[i]
         /\ \A i \in 1 .. Len(t) : (s \o t)[Len(s) + i] = t[i]
<1>1. /\ s \o t \in Seq(S) /\ Len(s \o t) = Len(s) + Len(t) /\ Len(s) \in Nat /\ Len(t) \in Nat
      /\ \A i \in 1 .. Len(s) + Len(t) : (s \o t)[i] = IF i <= Len(s) THEN s[i] ELSE t[i - Len(s)]
  BY ConcatProperties
<1>2. \A i \in 1 .. Len(s) : (s \o t)[i] = s[i]
  BY <1>1
<1>3. ASSUME NEW i \in 1 .. Len(t) PROVE (s \o t)[Len(s) + i] = t[i]
  <2>1. Len(s) + i \in 1 .. Len(s) + Len(t) /\ ~(Len(s) + i <= Len(s)) /\ (Len(s) + i) - Len(s) = i
    BY <1>1
  <2> QED BY <1>1, <2>1
<1> QED BY <1>1, <1>2, <1>3

\* What is inserted is published, in families of its own.
Inserted(g, v) ==
  /\ v \in DOMAIN variants' \ DOMAIN variants /\ barcode'[g] = v
  /\ variants'[v].status = "PUBLISHED"
  /\ variants'[v].family \in DOMAIN families' \ DOMAIN families
  /\ families'[variants'[v].family].status = "PUBLISHED"

LEMMA InsertingIsSafe ==
  ASSUME CatalogInv, NEW gs \in SUBSET Gtins, \A g \in gs : Free(g), InsertPublished(gs), withdrawn' = withdrawn
  PROVE  /\ families' \in Seq(FamilyRows) /\ Len(families') <= MaxRows
         /\ variants' \in Seq(VariantRows) /\ Len(variants') <= MaxRows
         /\ creating' \subseteq DOMAIN families' /\ withdrawn' \subseteq DOMAIN variants'
         /\ barcode' \in [Gtins -> 0 .. Len(variants')]
         /\ FamiliesExist' /\ Moves
         /\ \A g \in gs : NewVariant(gs, g) \in 1 .. Len(variants') /\ Inserted(g, NewVariant(gs, g))
<1> DEFINE n == Cardinality(gs)
           fs == [i \in 1 .. n |-> [status |-> "PUBLISHED"]]
           vs == [i \in 1 .. n |-> [family |-> Len(families) + i, status |-> "PUBLISHED"]]
<1>1. /\ n \in Nat /\ NewRows(gs) \in [gs -> 1 .. n]
      /\ Len(families) \in Nat /\ Len(variants) \in Nat /\ MaxRows \in Nat
      /\ Len(families) + n <= MaxRows /\ Len(variants) + n <= MaxRows
      /\ families \in Seq(FamilyRows) /\ variants \in Seq(VariantRows)
  BY RowsAreNumbered, RowsOfTables, CatalogAssumption DEF CatalogInv, TypeOK, InsertPublished
<1>2. /\ families' = families \o fs /\ variants' = variants \o vs /\ creating' = creating
      /\ barcode' = [g \in Gtins |-> IF g \in gs THEN NewVariant(gs, g) ELSE barcode[g]]
  BY DEF InsertPublished
<1>3. fs \in Seq(FamilyRows) /\ Len(fs) = n
  <2>1. [status |-> "PUBLISHED"] \in FamilyRows
    BY DEF FamilyRows, Statuses
  <2> QED BY <1>1, <2>1
<1>4. vs \in Seq(VariantRows) /\ Len(vs) = n
  <2>1. \A i \in 1 .. n : [family |-> Len(families) + i, status |-> "PUBLISHED"] \in VariantRows
    BY <1>1 DEF VariantRows, Rows, Statuses
  <2> QED BY <1>1, <2>1
<1> HIDE DEF n
<1>5. /\ families' \in Seq(FamilyRows) /\ Len(families') = Len(families) + n
      /\ \A f \in 1 .. Len(families) : families'[f] = families[f]
      /\ \A i \in 1 .. n : families'[Len(families) + i] = fs[i]
  <2> HIDE DEF fs
  <2>1. families \in Seq(FamilyRows) /\ fs \in Seq(FamilyRows)
    BY <1>1, <1>3
  <2>2. /\ families \o fs \in Seq(FamilyRows) /\ Len(families \o fs) = Len(families) + Len(fs)
        /\ \A i \in 1 .. Len(families) : (families \o fs)[i] = families[i]
        /\ \A i \in 1 .. Len(fs) : (families \o fs)[Len(families) + i] = fs[i]
    BY <2>1, ConcatenatedRows
  <2> QED BY <1>2, <1>3, <2>2
<1>6. /\ variants' \in Seq(VariantRows) /\ Len(variants') = Len(variants) + n
      /\ \A v \in 1 .. Len(variants) : variants'[v] = variants[v]
      /\ \A i \in 1 .. n : variants'[Len(variants) + i] = vs[i]
  <2> HIDE DEF vs
  <2>1. variants \in Seq(VariantRows) /\ vs \in Seq(VariantRows)
    BY <1>1, <1>4
  <2>2. /\ variants \o vs \in Seq(VariantRows) /\ Len(variants \o vs) = Len(variants) + Len(vs)
        /\ \A i \in 1 .. Len(variants) : (variants \o vs)[i] = variants[i]
        /\ \A i \in 1 .. Len(vs) : (variants \o vs)[Len(variants) + i] = vs[i]
    BY <2>1, ConcatenatedRows
  <2> QED BY <1>2, <1>4, <2>2
<1>7. /\ DOMAIN variants = 1 .. Len(variants) /\ DOMAIN families = 1 .. Len(families)
      /\ DOMAIN variants' = 1 .. Len(variants) + n /\ DOMAIN families' = 1 .. Len(families) + n
  BY <1>1, <1>5, <1>6
<1>8. ASSUME NEW i \in 1 .. n
      PROVE  LET v == Len(variants) + i IN
             /\ v \in DOMAIN variants' \ DOMAIN variants /\ variants'[v].status = "PUBLISHED"
             /\ variants'[v].family \in DOMAIN families' \ DOMAIN families
             /\ families'[variants'[v].family].status = "PUBLISHED"
  <2>1. variants'[Len(variants) + i] = [family |-> Len(families) + i, status |-> "PUBLISHED"]
    BY <1>6
  <2>2. families'[Len(families) + i].status = "PUBLISHED"
    BY <1>5
  <2> HIDE DEF fs, vs
  <2>3. /\ Len(variants) + i \in (1 .. Len(variants) + n) \ (1 .. Len(variants))
        /\ Len(families) + i \in (1 .. Len(families) + n) \ (1 .. Len(families))
    BY <1>1
  <2> QED BY <1>7, <2>1, <2>2, <2>3
<1> HIDE DEF fs, vs
<1>9. \A g \in gs : /\ NewRows(gs)[g] \in 1 .. n /\ NewVariant(gs, g) = Len(variants) + NewRows(gs)[g]
                    /\ NewVariant(gs, g) \in 1 .. Len(variants')
  <2> TAKE g \in gs
  <2>1. NewRows(gs)[g] \in 1 .. n /\ NewVariant(gs, g) = Len(variants) + NewRows(gs)[g]
    BY <1>1 DEF NewVariant
  <2> QED BY <1>1, <1>6, <2>1
<1>10. \A g \in gs : Inserted(g, NewVariant(gs, g))
  BY <1>2, <1>8, <1>9 DEF Inserted
<1>11. barcode' \in [Gtins -> 0 .. Len(variants')]
  <2>1. \A g \in Gtins : barcode[g] \in 0 .. Len(variants')
    BY <1>1, <1>6 DEF CatalogInv, TypeOK
  <2>2. \A g \in gs : NewVariant(gs, g) \in 0 .. Len(variants')
    BY <1>9
  <2> QED BY <1>2, <2>1, <2>2
<1>12. FamiliesExist'
  <2> SUFFICES ASSUME NEW v \in DOMAIN variants' PROVE variants'[v].family \in DOMAIN families'
    BY DEF FamiliesExist
  <2>1. CASE v \in DOMAIN variants
    BY <1>1, <1>6, <1>7, <2>1 DEF CatalogInv, FamiliesExist
  <2>2. CASE v \notin DOMAIN variants
    <3>1. v - Len(variants) \in 1 .. n /\ v = Len(variants) + (v - Len(variants))
      BY <1>1, <1>7, <2>2
    <3> QED BY <1>8, <3>1
  <2> QED BY <2>1, <2>2
<1>13. Moves
  <2>1. \A v \in DOMAIN variants : v \in DOMAIN variants' /\ variants'[v] = variants[v]
    BY <1>1, <1>6, <1>7
  <2>2. \A v \in DOMAIN variants : families'[FamilyOf(v)] = families[FamilyOf(v)]
    BY <1>5, <1>7 DEF CatalogInv, FamiliesExist, FamilyOf
  <2>3. \A g \in Gtins : \/ barcode'[g] = barcode[g]
                         \/ barcode[g] = 0 /\ variants'[barcode'[g]].status # "ARCHIVED"
    <3> TAKE g \in Gtins
    <3>1. CASE g \in gs
      BY <1>10, <3>1 DEF Inserted, Free
    <3> QED BY <1>2, <3>1
  <2> QED BY <2>1, <2>2, <2>3 DEF CatalogInv, TypeOK, WithdrawnIsArchived, Moves
<1>14. creating' \subseteq DOMAIN families' /\ withdrawn' \subseteq DOMAIN variants'
  BY <1>1, <1>2, <1>7 DEF CatalogInv, TypeOK
<1>15. Len(families') <= MaxRows /\ Len(variants') <= MaxRows
  BY <1>1, <1>5, <1>6
<1> QED BY <1>5, <1>6, <1>9, <1>10, <1>11, <1>12, <1>13, <1>14, <1>15

-----------------------------------------------------------------------------
(* Observations and promotions.                                            *)

LEMMA CreateObservationIsSafe ==
  ASSUME CatalogInv, NEW a \in Accounts, NEW g \in Gtins, CreateObservation(a, g)
  PROVE  CatalogInv'
<1>1. /\ observed' = observed \cup {<<a, g>>} /\ a \notin gone
      /\ UNCHANGED <<families, variants, creating, barcode, gone, said, cases, disputed, importing, withdrawn>>
  BY DEF CreateObservation, editing
<1>2. TypeOK' /\ FamiliesExist'
  BY <1>1 DEF CatalogInv, TypeOK, FamiliesExist, importing
<1>3. Moves
  BY <1>1 DEF CatalogInv, TypeOK, WithdrawnIsArchived, Moves
<1> QED BY <1>1, <1>2, <1>3, CuratorSteps DEF importing

LEMMA EraseAccountIsSafe ==
  ASSUME CatalogInv, NEW a \in Accounts, EraseAccount(a)
  PROVE  CatalogInv'
<1>1. /\ gone' = gone \cup {a} /\ observed' = {w \in observed : w[1] # a}
      /\ said' = [g \in Gtins |-> [said[g] EXCEPT ![a] = None]]
      /\ UNCHANGED <<families, variants, creating, barcode, cases, disputed, importing, withdrawn>>
  BY DEF EraseAccount, editing
<1>2. observed' \subseteq (Accounts \ gone') \X Gtins
  BY <1>1 DEF CatalogInv, TypeOK
<1>3. said' \in [Gtins -> [Accounts -> Identities \cup {None}]]
  BY <1>1 DEF CatalogInv, TypeOK
<1>4. TypeOK' /\ FamiliesExist'
  BY <1>1, <1>2, <1>3 DEF CatalogInv, TypeOK, FamiliesExist, importing
<1>5. Moves
  BY <1>1 DEF CatalogInv, TypeOK, WithdrawnIsArchived, Moves
<1> QED BY <1>1, <1>4, <1>5, CuratorSteps DEF importing

\* The rows' part of TypeOK.
RowsOK ==
  /\ families \in Seq(FamilyRows) /\ Len(families) <= MaxRows
  /\ variants \in Seq(VariantRows) /\ Len(variants) <= MaxRows
  /\ creating \subseteq DOMAIN families /\ withdrawn \subseteq DOMAIN variants
  /\ barcode \in [Gtins -> 0 .. Len(variants)]

\* A step that changes one case.
LEMMA PromotionSteps ==
  ASSUME CatalogInv, TypeOK', FamiliesExist', Moves, NEW g \in Gtins,
         \A h \in Gtins \ {g} : cases'[h] = cases[h],
         disputed' \in {disputed, disputed \cup {g}},
         UNCHANGED <<batches, rolling>>,
         CaseIsKept(g)', \A b \in Batches : Apart(g, b)',
         cases'[g].status # "PUBLISHED" => cases'[g].resolution = "NONE",
         g \in disputed' => \/ cases'[g].status = "NEEDS_MODERATION"
                            \/ cases'[g].status = "PUBLISHED" /\ cases'[g].resolution = "ADMIN"
  PROVE  CatalogInv'
<1>1. ASSUME NEW h \in Gtins PROVE CaseIsKept(h)' /\ \A b \in Batches : Apart(h, b)'
  <2>1. CASE h = g
    BY <2>1
  <2>2. CASE h # g
    BY <2>2, CasesMove, ApartMoves
  <2> QED BY <2>1, <2>2
<1>2. \A b \in Batches : BatchIsKept(b)'
  BY BatchesMove
<1>3. Exclusive' /\ RollsBackPublished'
  BY DEF CatalogInv, Exclusive, ItemsOf, RollsBackPublished
<1>4. WithdrawnIsArchived'
  BY DEF Moves, WithdrawnIsArchived
<1>5. CasesAreModerated'
  BY DEF CatalogInv, CasesAreModerated
<1> QED BY <1>1, <1>2, <1>3, <1>4, <1>5 DEF CatalogInv

\* Rows, case and batches after a promotion: it has the barcode, or it is left to a moderator.
LEMMA PublishingIsSafe ==
  ASSUME CatalogInv, NEW g \in Gtins, NEW i \in Identities, NEW r \in {"AUTO_QUORUM", "ADMIN"},
         PublishPromotion(g, i, r), cases[g].status # "PUBLISHED", UNCHANGED <<batches, withdrawn>>
  PROVE  /\ RowsOK' /\ FamiliesExist' /\ Moves
         /\ cases' \in [Gtins -> CaseRows] /\ \A h \in Gtins \ {g} : cases'[h] = cases[h]
         /\ CaseIsKept(g)' /\ \A b \in Batches : Apart(g, b)'
         /\ \/ cases'[g].status = "NEEDS_MODERATION" /\ cases'[g].resolution = "NONE"
            \/ cases'[g].status = "PUBLISHED" /\ cases'[g].resolution = r
<1>1. CASE Free(g)
  <2> DEFINE v == Len(variants) + 1
  <2>1. InsertPublished({g})
    BY <1>1 DEF PublishPromotion
  <2>2. /\ RowsOK' /\ FamiliesExist' /\ Moves
        /\ NewVariant({g}, g) \in 1 .. Len(variants') /\ Inserted(g, NewVariant({g}, g))
    BY <1>1, <2>1, InsertingIsSafe DEF RowsOK
  <2>3. NewVariant({g}, g) = v
    <3>1. Cardinality({g}) = 1
      BY FS_Singleton
    <3>2. NewRows({g})[g] = 1
      BY <3>1, RowsAreNumbered
    <3> QED BY <3>2 DEF NewVariant
  <2>4. cases' = [cases EXCEPT ![g] = [status |-> "PUBLISHED", selected |-> i, variant |-> v, resolution |-> r]]
    BY <1>1 DEF PublishPromotion
  <2>5. v \in 0 .. MaxRows
    BY <2>2, <2>3, CatalogAssumption DEF RowsOK
  <2>6. [status |-> "PUBLISHED", selected |-> i, variant |-> v, resolution |-> r] \in CaseRows
    BY <2>5 DEF CaseRows
  <2>7. Inserted(g, v)
    BY <2>2, <2>3
  <2> HIDE DEF v
  <2>8. /\ cases' \in [Gtins -> CaseRows] /\ \A h \in Gtins \ {g} : cases'[h] = cases[h]
        /\ cases'[g].status = "PUBLISHED" /\ cases'[g].resolution = r /\ cases'[g].variant = v
    BY <2>4, <2>6 DEF CatalogInv, TypeOK
  <2>9. v # 0 /\ v \in DOMAIN variants'
    BY <2>7, <2>2, RowsOfTables DEF Inserted, RowsOK
  <2>10. CaseIsKept(g)'
    BY <2>7, <2>8, <2>9 DEF CaseIsKept, Shown, Free, Inserted
  <2>11. ASSUME NEW b \in Batches, NEW h \in ItemsOf(b)
         PROVE  variants'[v].family # variants'[batches[b].items[h]].family
    <3>1. batches[b].items[h] \in DOMAIN variants
      BY <2>11, RowsOfTables DEF CatalogInv, BatchIsKept, ItemsOf
    <3>2. variants'[batches[b].items[h]].family \in DOMAIN families
      BY <2>2, <3>1 DEF Moves, CatalogInv, FamiliesExist
    <3> QED BY <2>7, <3>2 DEF Inserted
  <2>12. \A b \in Batches : Apart(g, b)'
    BY <2>8, <2>11 DEF Apart, FamilyOf, ItemsOf
  <2> QED BY <2>2, <2>8, <2>10, <2>12
<1>2. CASE ~Free(g)
  <2>1. cases' = Moderation(g) /\ UNCHANGED <<families, variants, creating, barcode>>
    BY <1>2 DEF PublishPromotion, editing
  <2>2. /\ cases' \in [Gtins -> CaseRows] /\ \A h \in Gtins \ {g} : cases'[h] = cases[h]
        /\ cases'[g].status = "NEEDS_MODERATION" /\ cases'[g].resolution = cases[g].resolution
    BY <2>1 DEF CatalogInv, TypeOK, Moderation, CaseRows
  <2>3. RowsOK' /\ FamiliesExist' /\ Moves
    BY <2>1 DEF RowsOK, CatalogInv, TypeOK, FamiliesExist, WithdrawnIsArchived, Moves
  <2>4. cases[g].resolution = "NONE"
    BY DEF CatalogInv, CasesAreModerated
  <2> QED BY <2>2, <2>3, <2>4 DEF CaseIsKept, Apart
<1> QED BY <1>1, <1>2

LEMMA SubmitIsSafe ==
  ASSUME CatalogInv, NEW a \in Accounts, NEW g \in Gtins, NEW i \in Identities, SubmitCatalogConfirmation(a, g, i)
  PROVE  CatalogInv'
<1> DEFINE words == [said[g] EXCEPT ![a] = i]
           case == [cases[g] EXCEPT !.status = IF @ = "NONE" THEN "WAITING_FOR_MATCH" ELSE @]
<1>1. /\ said' = [said EXCEPT ![g] = words]
      /\ disputed' = IF Cardinality(Fingerprints(words)) > 1 THEN disputed \cup {g} ELSE disputed
      /\ UNCHANGED <<gone, observed, batches, rolling, withdrawn>>
      /\ case.status # "PUBLISHED"
  BY DEF SubmitCatalogConfirmation, importing
<1>2. /\ case \in CaseRows /\ cases[g].status # "PUBLISHED" /\ cases[g].resolution = "NONE"
      /\ case.resolution = "NONE" /\ (cases[g].status = "NEEDS_MODERATION" => case.status = "NEEDS_MODERATION")
  <2>1. cases[g] \in CaseRows
    BY DEF CatalogInv, TypeOK
  <2>2. cases[g].status # "PUBLISHED"
    BY <1>1, <2>1 DEF CaseRows
  <2> QED BY <2>1, <2>2 DEF CatalogInv, CasesAreModerated, CaseRows
<1>3. \/ Contested(case, words) /\ cases' = Moderation(g) /\ UNCHANGED <<families, variants, creating, barcode>>
      \/ ~Contested(case, words) /\ PublishPromotion(g, i, "AUTO_QUORUM")
      \/ ~Contested(case, words) /\ cases' = [cases EXCEPT ![g] = case] /\ UNCHANGED <<families, variants, creating, barcode>>
  BY DEF SubmitCatalogConfirmation, editing
<1>4. said' \in [Gtins -> [Accounts -> Identities \cup {None}]]
  BY <1>1 DEF CatalogInv, TypeOK
<1>5. ~Contested(case, words) => g \notin disputed'
  <2>1. g \in disputed => cases[g].status = "NEEDS_MODERATION"
    BY <1>2 DEF CatalogInv, CasesAreModerated
  <2> HIDE DEF case, words
  <2> QED BY <1>1, <1>2, <2>1 DEF Contested
<1> HIDE DEF case, words
<1>6. disputed' \in {disputed, disputed \cup {g}} /\ disputed' \subseteq Gtins
  BY <1>1 DEF CatalogInv, TypeOK
<1>7. /\ RowsOK' /\ FamiliesExist' /\ Moves
      /\ cases' \in [Gtins -> CaseRows] /\ \A h \in Gtins \ {g} : cases'[h] = cases[h]
      /\ CaseIsKept(g)' /\ \A b \in Batches : Apart(g, b)'
      /\ cases'[g].status # "PUBLISHED" => cases'[g].resolution = "NONE"
      /\ g \in disputed' => cases'[g].status = "NEEDS_MODERATION"
  <2>1. CASE UNCHANGED <<families, variants, creating, barcode>>
    <3>1. RowsOK' /\ FamiliesExist' /\ Moves
      BY <1>1, <2>1 DEF RowsOK, CatalogInv, TypeOK, FamiliesExist, WithdrawnIsArchived, Moves
    <3>2. CASE Contested(case, words) /\ cases' = Moderation(g)
      <4>1. /\ cases' \in [Gtins -> CaseRows] /\ \A h \in Gtins \ {g} : cases'[h] = cases[h]
            /\ cases'[g].status = "NEEDS_MODERATION" /\ cases'[g].resolution = cases[g].resolution
        BY <3>2 DEF CatalogInv, TypeOK, Moderation, CaseRows
      <4> QED BY <3>1, <4>1, <1>2 DEF CaseIsKept, Apart
    <3>3. CASE ~Contested(case, words) /\ cases' = [cases EXCEPT ![g] = case]
      <4>1. /\ cases' \in [Gtins -> CaseRows] /\ \A h \in Gtins \ {g} : cases'[h] = cases[h]
            /\ cases'[g] = case
        BY <1>2, <3>3 DEF CatalogInv, TypeOK
      <4> QED BY <3>1, <3>3, <4>1, <1>1, <1>2, <1>5 DEF CaseIsKept, Apart
    <3>4. CASE ~Contested(case, words) /\ PublishPromotion(g, i, "AUTO_QUORUM")
      BY <3>4, <1>1, <1>2, <1>5, PublishingIsSafe
    <3> QED BY <1>3, <3>2, <3>3, <3>4
  <2>2. CASE ~Contested(case, words) /\ PublishPromotion(g, i, "AUTO_QUORUM")
    BY <2>2, <1>1, <1>2, <1>5, PublishingIsSafe
  <2> QED BY <1>3, <2>1, <2>2
<1>8. TypeOK'
  BY <1>1, <1>4, <1>6, <1>7 DEF CatalogInv, TypeOK, RowsOK
<1> QED BY <1>1, <1>6, <1>7, <1>8, PromotionSteps

LEMMA ModerateIsSafe ==
  ASSUME CatalogInv, NEW a \in Accounts, NEW g \in Gtins, ModerateCatalogPromotion(a, g)
  PROVE  CatalogInv'
<1>1. /\ PublishPromotion(g, said[g][a], "ADMIN") /\ said[g][a] # None
      /\ cases[g].status # "PUBLISHED"
      /\ UNCHANGED <<gone, observed, said, disputed, batches, rolling, withdrawn>>
  BY DEF ModerateCatalogPromotion, importing
<1>2. said[g][a] \in Identities
  BY <1>1 DEF CatalogInv, TypeOK
<1>3. /\ RowsOK' /\ FamiliesExist' /\ Moves
      /\ cases' \in [Gtins -> CaseRows] /\ \A h \in Gtins \ {g} : cases'[h] = cases[h]
      /\ CaseIsKept(g)' /\ \A b \in Batches : Apart(g, b)'
      /\ \/ cases'[g].status = "NEEDS_MODERATION" /\ cases'[g].resolution = "NONE"
         \/ cases'[g].status = "PUBLISHED" /\ cases'[g].resolution = "ADMIN"
  BY <1>1, <1>2, PublishingIsSafe
<1>4. TypeOK'
  BY <1>1, <1>3 DEF CatalogInv, TypeOK, RowsOK
<1> QED BY <1>1, <1>3, <1>4, PromotionSteps

-----------------------------------------------------------------------------
(* Imports.                                                                *)

LEMMA RollbackLooksIsSafe ==
  ASSUME CatalogInv, (\E b \in Batches : RollbackBegin(b)) \/ (\E g \in Gtins : RollbackLook(g))
  PROVE  CatalogInv'
<1>1. UNCHANGED <<families, variants, creating, barcode, gone, observed, said, cases, disputed, batches, withdrawn>>
  BY DEF RollbackBegin, RollbackLook, editing, promoting
<1>2. /\ rolling' \in [batch : Batches \cup {None}, clean : SUBSET Gtins]
      /\ rolling'.batch # None => batches[rolling'.batch].status \in {"PUBLISHED", "QUARANTINED"}
  <2>1. ASSUME NEW b \in Batches, RollbackBegin(b)
        PROVE  <1>2!1 /\ <1>2!2
    BY <2>1 DEF RollbackBegin
  <2>2. ASSUME NEW g \in Gtins, RollbackLook(g)
        PROVE  <1>2!1 /\ <1>2!2
    <3>1. CASE rolling' = NotRolling
      BY <3>1 DEF NotRolling
    <3>2. CASE rolling' = [rolling EXCEPT !.clean = @ \cup {g}]
      BY <3>2 DEF CatalogInv, TypeOK, RollsBackPublished
    <3> QED BY <2>2, <3>1, <3>2 DEF RollbackLook
  <2> QED BY <2>1, <2>2
<1>3. TypeOK' /\ FamiliesExist' /\ Moves
  BY <1>1, <1>2 DEF CatalogInv, TypeOK, FamiliesExist, WithdrawnIsArchived, Moves
<1>4. /\ \A g \in Gtins : CaseIsKept(g)' /\ \A b \in Batches : Apart(g, b)'
      /\ \A b \in Batches : BatchIsKept(b)'
  BY <1>1, <1>3, CasesMove, ApartMoves, BatchesMove
<1>5. Exclusive' /\ CasesAreModerated' /\ WithdrawnIsArchived'
  BY <1>1 DEF CatalogInv, Exclusive, ItemsOf, CasesAreModerated, WithdrawnIsArchived
<1>6. RollsBackPublished'
  BY <1>1, <1>2 DEF RollsBackPublished
<1> QED BY <1>3, <1>4, <1>5, <1>6 DEF CatalogInv

LEMMA PublishImportIsSafe ==
  ASSUME CatalogInv, NEW b \in Batches, NEW m \in Manifests, PublishImport(b, m)
  PROVE  CatalogInv'
<1> DEFINE gs == Publishable(m)
           items == [g \in Gtins |-> IF g \in gs THEN NewVariant(gs, g) ELSE 0]
           shown == IF gs = {} THEN "QUARANTINED" ELSE "PUBLISHED"
<1>1. /\ InsertPublished(gs) /\ rolling.batch # b /\ batches[b].status = "NONE"
      /\ batches' = [batches EXCEPT ![b] = [status |-> shown, items |-> items]]
      /\ UNCHANGED <<gone, observed, said, cases, disputed, rolling, withdrawn>>
  BY DEF PublishImport, promoting
<1>2. gs \in SUBSET Gtins /\ \A g \in gs : Free(g)
  BY CatalogAssumption DEF Publishable
<1>3. shown \in {"QUARANTINED", "PUBLISHED"} /\ (shown = "QUARANTINED" => gs = {})
  OBVIOUS
<1> HIDE DEF gs, shown
<1>4. /\ RowsOK' /\ FamiliesExist' /\ Moves
      /\ \A g \in gs : NewVariant(gs, g) \in 1 .. Len(variants') /\ Inserted(g, NewVariant(gs, g))
  BY <1>1, <1>2, InsertingIsSafe DEF RowsOK
<1>5. Len(variants') \in Nat /\ Len(variants') <= MaxRows /\ MaxRows \in Nat
  BY <1>4, CatalogAssumption DEF RowsOK
<1>6. /\ items \in [Gtins -> 0 .. MaxRows] /\ \A g \in Gtins : items[g] \in 0 .. Len(variants')
      /\ \A g \in Gtins : g \in gs <=> items[g] # 0
      /\ \A g \in gs : items[g] = NewVariant(gs, g)
  <2>1. \A g \in gs : NewVariant(gs, g) \in 0 .. MaxRows /\ NewVariant(gs, g) \in 0 .. Len(variants') /\ NewVariant(gs, g) # 0
    BY <1>4, <1>5
  <2> QED BY <1>2, <1>5, <2>1
<1> HIDE DEF items
<1>7. /\ batches' \in [Batches -> BatchRows] /\ \A c \in Batches \ {b} : batches'[c] = batches[c]
      /\ batches'[b].status = shown /\ batches'[b].items = items
  <2>1. [status |-> shown, items |-> items] \in BatchRows
    BY <1>3, <1>6 DEF BatchRows
  <2> QED BY <1>1, <2>1 DEF CatalogInv, TypeOK
<1>8. TypeOK'
  BY <1>1, <1>4, <1>7 DEF CatalogInv, TypeOK, RowsOK
<1>9. ItemsOf(b)' = gs /\ \A c \in Batches \ {b} : ItemsOf(c)' = ItemsOf(c)
  BY <1>2, <1>6, <1>7 DEF ItemsOf
<1>10. \A g \in gs : barcode'[g] = items[g]
  BY <1>4, <1>6 DEF Inserted
<1>11. BatchIsKept(b)'
  BY <1>3, <1>6, <1>7, <1>9, <1>10 DEF BatchIsKept
<1>12. \A c \in Batches : BatchIsKept(c)'
  BY <1>4, <1>7, <1>8, <1>11, BatchesMove
<1>13. Exclusive'
  <2>1. \A c \in Batches \ {b} : batches[c].status = "PUBLISHED" => ItemsOf(c) \cap gs = {}
    BY <1>2 DEF CatalogInv, BatchIsKept, ItemsOf, Free
  <2> QED BY <1>7, <1>9, <2>1 DEF CatalogInv, Exclusive
<1>14. ASSUME NEW g \in Gtins PROVE Apart(g, b)'
  <2> SUFFICES ASSUME cases[g].status = "PUBLISHED", NEW h \in gs
               PROVE  variants'[cases[g].variant].family # variants'[items[h]].family
    BY <1>1, <1>7, <1>9 DEF Apart, FamilyOf
  <2>1. cases[g].variant \in DOMAIN variants
    BY DEF CatalogInv, CaseIsKept
  <2>2. variants'[cases[g].variant].family \in DOMAIN families
    BY <1>4, <2>1 DEF Moves, CatalogInv, FamiliesExist
  <2> QED BY <1>4, <1>6, <2>2 DEF Inserted
<1>15. \A g \in Gtins : CaseIsKept(g)' /\ \A c \in Batches : Apart(g, c)'
  BY <1>1, <1>4, <1>7, <1>14, CasesMove, ApartMoves
<1>16. CasesAreModerated' /\ WithdrawnIsArchived'
  BY <1>1, <1>4 DEF CatalogInv, CasesAreModerated, Moves, WithdrawnIsArchived
<1>17. RollsBackPublished'
  <2>1. rolling.batch # None => rolling.batch \in Batches \ {b}
    BY <1>1 DEF CatalogInv, TypeOK
  <2> QED BY <1>1, <1>7, <2>1 DEF CatalogInv, RollsBackPublished
<1> QED BY <1>4, <1>8, <1>12, <1>13, <1>15, <1>16, <1>17 DEF CatalogInv

LEMMA RollbackCommitIsSafe ==
  ASSUME CatalogInv, RollbackCommit
  PROVE  CatalogInv'
<1> DEFINE b == rolling.batch
           vs == {batches[b].items[g] : g \in ItemsOf(b)}
           fs == {variants[v].family : v \in vs}
<1>1. /\ b \in Batches /\ batches[b].status \in {"PUBLISHED", "QUARANTINED"} /\ rolling' = NotRolling
      /\ UNCHANGED <<creating, gone, observed, said, cases, disputed, withdrawn>>
  BY DEF CatalogInv, TypeOK, RollsBackPublished, RollbackCommit, promoting
<1>2. CASE UNCHANGED <<variants, families, barcode, batches>>
  <2>1. TypeOK' /\ FamiliesExist' /\ Moves /\ RollsBackPublished'
    BY <1>1, <1>2 DEF CatalogInv, TypeOK, FamiliesExist, WithdrawnIsArchived, Moves, NotRolling, RollsBackPublished
  <2>2. /\ \A g \in Gtins : CaseIsKept(g)' /\ \A c \in Batches : Apart(g, c)'
        /\ \A c \in Batches : BatchIsKept(c)'
    BY <1>1, <1>2, <2>1, CasesMove, ApartMoves, BatchesMove
  <2>3. Exclusive' /\ CasesAreModerated' /\ WithdrawnIsArchived'
    BY <1>1, <1>2 DEF CatalogInv, Exclusive, ItemsOf, CasesAreModerated, WithdrawnIsArchived
  <2> QED BY <2>1, <2>2, <2>3 DEF CatalogInv
<1>3. CASE ~UNCHANGED <<variants, families, barcode, batches>>
  <2>1. /\ \A v \in vs : Unchanged(v)
        /\ variants' = [v \in DOMAIN variants |-> IF v \in vs THEN Archived(variants[v]) ELSE variants[v]]
        /\ families' = [f \in DOMAIN families |-> IF f \in fs THEN Archived(families[f]) ELSE families[f]]
        /\ barcode' = [g \in Gtins |-> IF g \in ItemsOf(b) THEN 0 ELSE barcode[g]]
        /\ batches' = [batches EXCEPT ![b].status = "ROLLED_BACK"]
    BY <1>3 DEF RollbackCommit
  <2>2. /\ \A g \in ItemsOf(b) : /\ g \in Gtins /\ batches[b].items[g] \in vs
                                 /\ batches[b].status = "PUBLISHED" /\ barcode[g] = batches[b].items[g]
        /\ vs \subseteq DOMAIN variants /\ \A v \in vs : FamilyOf(v) \in fs
    BY <1>1, RowsOfTables DEF CatalogInv, BatchIsKept, ItemsOf, FamilyOf
  <2>3. \A g \in Gtins : cases[g].status = "PUBLISHED" => FamilyOf(cases[g].variant) \notin fs
    BY <1>1 DEF CatalogInv, Apart, FamilyOf
  <2>4. \A g \in ItemsOf(b) : batches[b].items[g] # 0
    BY DEF ItemsOf
  <2>5. /\ DOMAIN variants' = DOMAIN variants /\ DOMAIN families' = DOMAIN families
        /\ \A v \in DOMAIN variants : /\ variants'[v] = IF v \in vs THEN Archived(variants[v]) ELSE variants[v]
                                      /\ variants'[v].family = variants[v].family
        /\ \A v \in vs : variants'[v].status = "ARCHIVED"
        /\ \A f \in DOMAIN families : f \notin fs => families'[f] = families[f]
    BY <2>1, <2>2, RowsOfTables DEF CatalogInv, Archived, VariantRows
  <2>6. TypeOK'
    <3>1. variants' \in Seq(VariantRows) /\ Len(variants') = Len(variants)
      <4>1. \A v \in 1 .. Len(variants) : variants[v] \in VariantRows /\ Archived(variants[v]) \in VariantRows
        BY RowsOfTables DEF CatalogInv, Archived, VariantRows, Statuses
      <4> HIDE DEF vs
      <4>2. variants' \in [1 .. Len(variants) -> VariantRows]
        BY <2>1, <4>1, RowsOfTables DEF CatalogInv
      <4> QED BY <4>2, RowsOfTables DEF CatalogInv
    <3>2. families' \in Seq(FamilyRows) /\ Len(families') = Len(families)
      <4>1. \A f \in 1 .. Len(families) : families[f] \in FamilyRows /\ Archived(families[f]) \in FamilyRows
        BY RowsOfTables DEF CatalogInv, Archived, FamilyRows, Statuses
      <4> HIDE DEF fs
      <4>2. families' \in [1 .. Len(families) -> FamilyRows]
        BY <2>1, <4>1, RowsOfTables DEF CatalogInv
      <4> QED BY <4>2, RowsOfTables DEF CatalogInv
    <3>3. batches' \in [Batches -> BatchRows]
      BY <2>1 DEF CatalogInv, TypeOK, BatchRows
    <3>4. barcode' \in [Gtins -> 0 .. Len(variants')]
      BY <2>1, <3>1, RowsOfTables DEF CatalogInv, TypeOK
    <3>5. rolling' \in [batch : Batches \cup {None}, clean : SUBSET Gtins]
      BY <1>1 DEF NotRolling
    <3> QED BY <1>1, <2>5, <3>1, <3>2, <3>3, <3>4, <3>5 DEF CatalogInv, TypeOK
  <2>7. FamiliesExist'
    BY <2>5 DEF CatalogInv, FamiliesExist
  <2>8. \A c \in Batches : /\ batches'[c].items = batches[c].items /\ ItemsOf(c)' = ItemsOf(c)
                           /\ c # b => batches'[c] = batches[c]
                           /\ c = b => batches'[c].status = "ROLLED_BACK"
    BY <1>1, <2>1 DEF CatalogInv, TypeOK, BatchRows, ItemsOf
  <2> HIDE DEF b, vs, fs
  <2>9. ASSUME NEW g \in Gtins PROVE CaseIsKept(g)' /\ \A c \in Batches : Apart(g, c)'
    <3> SUFFICES ASSUME cases[g].status = "PUBLISHED" PROVE CaseIsKept(g)' /\ \A c \in Batches : Apart(g, c)'
      BY <1>1 DEF CaseIsKept, Apart
    <3> DEFINE v == cases[g].variant
    <3>1. /\ v \in DOMAIN variants /\ v # 0 /\ v \notin vs /\ variants[v].family \notin fs
          /\ barcode[g] = v /\ (Shown(g) \/ v \in withdrawn)
      BY <2>2, <2>3, RowsOfTables DEF CatalogInv, CaseIsKept, FamilyOf
    <3>2. g \notin ItemsOf(b)
      BY <2>2, <3>1
    <3>3. /\ variants'[v] = variants[v] /\ barcode'[g] = v
          /\ families'[variants[v].family] = families[variants[v].family]
      BY <2>1, <2>5, <3>1, <3>2 DEF CatalogInv, FamiliesExist
    <3>4. CaseIsKept(g)'
      BY <1>1, <2>5, <3>1, <3>3 DEF CaseIsKept, Shown, Free
    <3>5. ASSUME NEW c \in Batches PROVE Apart(g, c)'
      <4>1. \A h \in ItemsOf(c) : batches[c].items[h] \in DOMAIN variants
        BY RowsOfTables DEF CatalogInv, BatchIsKept, ItemsOf
      <4>2. \A h \in ItemsOf(c) : variants[v].family # variants[batches[c].items[h]].family
        BY DEF CatalogInv, Apart, FamilyOf
      <4> QED BY <1>1, <2>5, <2>8, <3>1, <4>1, <4>2 DEF Apart, FamilyOf
    <3> QED BY <3>4, <3>5
  <2>10. ASSUME NEW c \in Batches PROVE BatchIsKept(c)'
    <3>1. \A g \in Gtins : batches'[c].items[g] \in 0 .. Len(variants')
      <4>1. Len(variants') = Len(variants)
        BY <2>5, <2>6, RowsOfTables DEF CatalogInv, TypeOK
      <4> QED BY <2>8, <4>1 DEF CatalogInv, BatchIsKept
    <3>2. CASE c = b
      <4>1. ASSUME NEW g \in ItemsOf(c) PROVE LET v == batches[c].items[g] IN
              variants'[v].status = "ARCHIVED" /\ v \notin withdrawn /\ barcode'[g] # v
        <5>1. batches[c].items[g] \in vs /\ batches[c].items[g] # 0 /\ g \in Gtins
          BY <2>2, <2>4, <3>2
        <5> QED BY <2>1, <2>5, <3>2, <5>1 DEF CatalogInv, WithdrawnIsArchived, Unchanged
      <4> QED BY <1>1, <2>8, <3>1, <3>2, <4>1 DEF BatchIsKept
    <3>3. CASE c # b
      <4>1. batches[c].status = "PUBLISHED" => ItemsOf(c) \cap ItemsOf(b) = {}
        BY <1>1, <2>2, <3>3 DEF CatalogInv, Exclusive
      <4>2. batches[c].status = "PUBLISHED" => \A g \in ItemsOf(c) : barcode'[g] = batches[c].items[g]
        BY <2>1, <4>1 DEF CatalogInv, BatchIsKept, ItemsOf
      <4>3. ASSUME batches[c].status = "ROLLED_BACK", NEW g \in ItemsOf(c) PROVE LET v == batches[c].items[g] IN
              variants'[v].status = "ARCHIVED" /\ v \notin withdrawn /\ barcode'[g] # v
        <5> DEFINE v == batches[c].items[g]
        <5>1. /\ v # 0 /\ v \in DOMAIN variants /\ g \in Gtins
              /\ variants[v].status = "ARCHIVED" /\ v \notin withdrawn /\ barcode[g] # v
          BY <4>3, RowsOfTables DEF CatalogInv, BatchIsKept, ItemsOf
        <5> QED BY <2>1, <2>5, <5>1
      <4> QED BY <1>1, <2>8, <3>1, <3>3, <4>2, <4>3 DEF CatalogInv, BatchIsKept
    <3> QED BY <3>2, <3>3
  <2>11. Exclusive'
    BY <2>8 DEF CatalogInv, Exclusive
  <2>12. CasesAreModerated' /\ RollsBackPublished'
    BY <1>1 DEF CatalogInv, CasesAreModerated, RollsBackPublished, NotRolling
  <2>13. WithdrawnIsArchived'
    BY <1>1, <2>5 DEF CatalogInv, TypeOK, WithdrawnIsArchived
  <2> QED BY <2>6, <2>7, <2>9, <2>10, <2>11, <2>12, <2>13 DEF CatalogInv
<1> QED BY <1>2, <1>3

-----------------------------------------------------------------------------
LEMMA CatalogInvIsInductive == CatalogInv /\ [Next]_vars => CatalogInv'
<1> SUFFICES ASSUME CatalogInv, [Next]_vars PROVE CatalogInv'
  OBVIOUS
<1>1. CASE UNCHANGED vars
  <2>1. UNCHANGED <<families, variants, creating, barcode, gone, observed, said, cases,
                    batches, rolling, disputed, withdrawn>>
    BY <1>1 DEF vars
  <2>2. TypeOK' /\ FamiliesExist' /\ Moves
    BY <2>1 DEF CatalogInv, TypeOK, FamiliesExist, WithdrawnIsArchived, Moves
  <2> QED BY <2>1, <2>2, CuratorSteps
<1>2. CASE CreateFamily \/ RollbackCommit
  BY <1>2, CreateFamilyIsSafe, RollbackCommitIsSafe
<1>3. ASSUME NEW f \in DOMAIN families,
             \/ CreateVariantBegin(f) \/ CreateVariantCommit(f)
             \/ \E s \in Statuses : TransitionFamilyStatus(f, s)
      PROVE  CatalogInv'
  BY <1>3, CreateVariantIsSafe, TransitionFamilyIsSafe
<1>4. ASSUME NEW v \in DOMAIN variants,
             \/ \E g \in Gtins : AttachBarcode(v, g)
             \/ \E s \in Statuses : TransitionVariantStatus(v, s)
      PROVE  CatalogInv'
  BY <1>4, AttachBarcodeIsSafe, TransitionVariantIsSafe
<1>5. ASSUME NEW g \in Gtins,
             \/ \E a \in Accounts, i \in Identities : SubmitCatalogConfirmation(a, g, i)
             \/ \E a \in Accounts : CreateObservation(a, g) \/ ModerateCatalogPromotion(a, g)
             \/ RollbackLook(g)
      PROVE  CatalogInv'
  BY <1>5, SubmitIsSafe, CreateObservationIsSafe, ModerateIsSafe, RollbackLooksIsSafe
<1>6. ASSUME NEW a \in Accounts, EraseAccount(a) PROVE CatalogInv'
  BY <1>6, EraseAccountIsSafe
<1>7. ASSUME NEW b \in Batches, RollbackBegin(b) \/ \E m \in Manifests : PublishImport(b, m)
      PROVE  CatalogInv'
  BY <1>7, RollbackLooksIsSafe, PublishImportIsSafe
<1> QED BY <1>1, <1>2, <1>3, <1>4, <1>5, <1>6, <1>7 DEF Next

\* The invariant from which the theorems below follow.
THEOREM CatalogInvHolds == Spec => []CatalogInv
BY CatalogStarts, CatalogInvIsInductive, PTL DEF Spec

\* Whatever curators, imports, rollbacks and promotions do at the same time, the
\* barcode of a promotion and those of a published import stay theirs
\* (product-observation-repository.ts:514, catalog-import-repository.ts:317).
THEOREM PublishersAlwaysKeepTheirCode == Spec => []PublishersKeepTheirCode
<1>1. CatalogInv => PublishersKeepTheirCode
  BY DEF CatalogInv, CaseIsKept, BatchIsKept, PublishersKeepTheirCode
<1> QED BY <1>1, CatalogInvHolds, PTL

\* However many accounts speak about however many barcodes, and whoever of them is
\* erased: a barcode they disagreed about is published by a moderator or not at all
\* (0008_catalog_promotion.sql:116).
THEOREM DisputesAlwaysNeedModerator == Spec => []DisputesNeedModerator
<1>1. CatalogInv => DisputesNeedModerator
  BY DEF CatalogInv, TypeOK, CasesAreModerated, DisputesNeedModerator
<1> QED BY <1>1, CatalogInvHolds, PTL

\* For imports of any size, a rollback archives every item and frees every barcode of
\* the import, and spares those a curator withdrew (catalog-import-repository.ts:747).
THEOREM RollbackIsAlwaysWhole == Spec => []RollbackIsWhole
<1>1. CatalogInv => RollbackIsWhole
  BY DEF CatalogInv, BatchIsKept, RollbackIsWhole
<1> QED BY <1>1, CatalogInvHolds, PTL

-----------------------------------------------------------------------------
(* Formula revisions, and the lookup of one moment.                        *)

\* The lookups are records of Lookup, each of a variant.
LookupsAreRecords ==
  /\ DOMAIN lookup = Lookers /\ DOMAIN moments = Lookers
  /\ lookup = [l \in Lookers |-> lookup[l]] /\ moments = [l \in Lookers |-> moments[l]]
  /\ \A l \in Lookers :
       /\ lookup[l] = Lookup(lookup[l].phase, lookup[l].item, lookup[l].snapshot, lookup[l].answer)
       /\ lookup[l].phase \in Phases

\* A lookup under way holds the snapshot of a moment at which its variant was published,
\* and what it has read is of that snapshot.
SnapshotIsWitnessed(l) ==
  LET i == lookup[l].item
      db == lookup[l].snapshot
  IN  /\ db.status[i] = "PUBLISHED" /\ View(db, i) \in moments[l]
      /\ lookup[l].phase = "FORMULA" => lookup[l].answer[1] = ShownFormula(db, i)

LookupsAreWitnessed ==
  \A l \in Lookers :
    /\ Looking(l) => SnapshotIsWitnessed(l)
    /\ lookup[l].phase = "DONE" => lookup[l].answer \in moments[l]

LookupInv == LookupsAreRecords /\ LookupsAreWitnessed

-----------------------------------------------------------------------------
(* The lookup.                                                             *)

\* Whatever a writer does, the lookups keep what they have read.
LEMMA WritersLeaveLookups ==
  ASSUME LookupInv, UNCHANGED lookup, Witnessed
  PROVE  LookupInv'
<1>1. \A l \in Lookers : moments[l] \subseteq moments'[l]
  BY DEF Witnessed, LookupInv, LookupsAreRecords
<1>2. LookupsAreRecords'
  BY DEF Witnessed, LookupInv, LookupsAreRecords
<1>3. LookupsAreWitnessed'
  BY <1>1 DEF LookupInv, LookupsAreWitnessed, SnapshotIsWitnessed, Looking
<1> QED BY <1>2, <1>3 DEF LookupInv

LEMMA LookupBegins ==
  ASSUME LookupInv, NEW l \in Lookers, NEW i \in Items, BeginLookup(l, i)
  PROVE  LookupInv'
<1>1. /\ lookup' = [lookup EXCEPT ![l] = lookup'[l]] /\ moments' = [moments EXCEPT ![l] = moments'[l]]
      /\ moments'[l] = {View(Database, i)}
  BY DEF BeginLookup, LookupInv, LookupsAreRecords
<1>2. \/ status[i] = "PUBLISHED" /\ lookup'[l] = Lookup("IDENTITY", i, Database, NoAnswer)
      \/ status[i] # "PUBLISHED" /\ lookup'[l] = Lookup("DONE", i, Empty, NoAnswer)
  BY DEF BeginLookup, LookupInv, LookupsAreRecords
<1>3. LookupsAreRecords'
  BY <1>1, <1>2 DEF LookupInv, LookupsAreRecords, Lookup, Phases
<1>4. LookupsAreWitnessed'
  <2> SUFFICES ASSUME NEW k \in Lookers
               PROVE  /\ Looking(k)' => SnapshotIsWitnessed(k)'
                      /\ lookup'[k].phase = "DONE" => lookup'[k].answer \in moments'[k]
    BY DEF LookupsAreWitnessed
  <2>1. CASE k # l
    BY <1>1, <2>1 DEF LookupInv, LookupsAreRecords, LookupsAreWitnessed, SnapshotIsWitnessed, Looking
  <2>2. CASE k = l /\ status[i] = "PUBLISHED"
    <3>1. lookup'[l] = Lookup("IDENTITY", i, Database, NoAnswer)
      BY <1>2, <2>2
    <3>2. SnapshotIsWitnessed(l)'
      BY <1>1, <2>2, <3>1 DEF SnapshotIsWitnessed, Lookup, Database
    <3> QED BY <2>2, <3>1, <3>2 DEF Lookup
  <2>3. CASE k = l /\ status[i] # "PUBLISHED"
    <3>1. lookup'[l] = Lookup("DONE", i, Empty, NoAnswer) /\ View(Database, i) = NoAnswer
      BY <1>2, <2>3 DEF View, Database
    <3> QED BY <1>1, <2>3, <3>1 DEF Lookup, Looking
  <2> QED BY <2>1, <2>2, <2>3
<1> QED BY <1>3, <1>4 DEF LookupInv

LEMMA LookupReads ==
  ASSUME LookupInv, NEW l \in Lookers, ReadFormula(l) \/ ReadClaims(l)
  PROVE  LookupInv'
<1>1. /\ lookup' = [lookup EXCEPT ![l] = lookup'[l]] /\ moments' = moments
      /\ Looking(l)
  BY DEF ReadFormula, ReadClaims, LookupInv, LookupsAreRecords, Looking
<1>2. SnapshotIsWitnessed(l)
  BY <1>1 DEF LookupInv, LookupsAreWitnessed
<1>3. CASE ReadFormula(l)
  <2>1. lookup'[l] = Lookup("FORMULA", lookup[l].item, lookup[l].snapshot,
                            <<ShownFormula(lookup[l].snapshot, lookup[l].item), {}>>)
    <3>1. lookup'[l] = [lookup[l] EXCEPT !.phase = "FORMULA",
                         !.answer = <<ShownFormula(lookup[l].snapshot, lookup[l].item), {}>>]
      BY <1>3 DEF ReadFormula, LookupInv, LookupsAreRecords, SeenBy
    <3>2. lookup[l] = Lookup(lookup[l].phase, lookup[l].item, lookup[l].snapshot, lookup[l].answer)
      BY DEF LookupInv, LookupsAreRecords
    <3> QED BY <3>1, <3>2 DEF Lookup
  <2>2. LookupsAreRecords'
    BY <1>1, <2>1 DEF LookupInv, LookupsAreRecords, Lookup, Phases
  <2>3. SnapshotIsWitnessed(l)'
    BY <1>1, <1>2, <2>1 DEF SnapshotIsWitnessed, Lookup
  <2>4. LookupsAreWitnessed'
    BY <1>1, <2>1, <2>3 DEF LookupInv, LookupsAreRecords, LookupsAreWitnessed, SnapshotIsWitnessed,
      Looking, Lookup
  <2> QED BY <2>2, <2>4 DEF LookupInv
<1>4. CASE ReadClaims(l)
  <2> DEFINE i == lookup[l].item
             db == lookup[l].snapshot
             f == ShownFormula(db, i)
  <2>1. lookup[l].answer[1] = f
    BY <1>2, <1>4 DEF SnapshotIsWitnessed, ReadClaims
  <2>2. lookup'[l] = Lookup("DONE", i, Empty, <<f, ShownClaims(db, i, f)>>)
    BY <1>4, <2>1 DEF ReadClaims, LookupInv, LookupsAreRecords, SeenBy
  <2>3. View(db, i) = <<f, ShownClaims(db, i, f)>>
    BY <1>2 DEF SnapshotIsWitnessed, View
  <2>4. View(db, i) \in moments[l]
    BY <1>2 DEF SnapshotIsWitnessed
  <2>5. lookup'[l].phase = "DONE" /\ lookup'[l].answer \in moments'[l]
    BY <1>1, <2>2, <2>3, <2>4 DEF Lookup
  <2>6. LookupsAreRecords'
    BY <1>1, <2>2 DEF LookupInv, LookupsAreRecords, Lookup, Phases
  <2>7. LookupsAreWitnessed'
    BY <1>1, <2>5 DEF LookupInv, LookupsAreRecords, LookupsAreWitnessed, SnapshotIsWitnessed, Looking
  <2> QED BY <2>6, <2>7 DEF LookupInv
<1> QED BY <1>3, <1>4

-----------------------------------------------------------------------------
(* The revisions.                                                          *)

Mine(f) == {h \in DOMAIN formulas : formulas[h].item = formulas[f].item}

LEMMA SomeRevisionsAreFinite ==
  ASSUME formulas \in Seq(FormulaRows), NEW S \in SUBSET DOMAIN formulas
  PROVE  IsFiniteSet(S) /\ Cardinality(S) \in Nat /\ Cardinality(S) <= Len(formulas)
<1>1. DOMAIN formulas = 1 .. Len(formulas) /\ Len(formulas) \in Nat
  OBVIOUS
<1>2. IsFiniteSet(1 .. Len(formulas)) /\ Cardinality(1 .. Len(formulas)) = Len(formulas)
  <2>1. 1 \in Int /\ Len(formulas) \in Int
    BY <1>1
  <2>2. /\ IsFiniteSet(1 .. Len(formulas))
        /\ Cardinality(1 .. Len(formulas)) = IF 1 > Len(formulas) THEN 0 ELSE Len(formulas) - 1 + 1
    BY <2>1, FS_Interval
  <2> QED BY <1>1, <2>2
<1> QED BY <1>1, <1>2, FS_Subset, FS_CardinalityType

\* A revision that is written is the last of its variant and the current one.
LEMMA RevisionIsWritten ==
  ASSUME FactsAssumption, FactsTypeOK, HistoryIsLinear, NEW i \in Items, NEW text \in Inci,
         NEW allowed \in BOOLEAN, CreateFormulaRevision(i, text, allowed)
  PROVE  formulas' \in Seq(FormulaRows) /\ Len(formulas') <= MaxFormulas /\ HistoryIsLinear'
<1> DEFINE n == Len(formulas)
           mine == {h \in DOMAIN formulas : formulas[h].item = i}
           row == [item |-> i, number |-> NextNumber(i), text |-> text,
                   status |-> "CURRENT", allowed |-> allowed]
<1>1. formulas \in Seq(FormulaRows) /\ n \in Nat /\ n < MaxFormulas /\ MaxFormulas \in Nat
      /\ DOMAIN formulas = 1 .. n
  BY DEF FactsTypeOK, CreateFormulaRevision, FactsAssumption
<1>2. IsFiniteSet(mine) /\ Cardinality(mine) \in Nat /\ Cardinality(mine) <= n
  BY <1>1, SomeRevisionsAreFinite
<1>3. NextNumber(i) = Cardinality(mine) + 1 /\ NextNumber(i) \in 1 .. MaxFormulas
  BY <1>1, <1>2 DEF NextNumber
<1>4. row \in FormulaRows
  BY <1>3 DEF FormulaRows
<1>5. \A f \in 1 .. n : formulas[f] \in FormulaRows
  BY <1>1
<1>6. Superseding(i) \in Seq(FormulaRows) /\ Len(Superseding(i)) = n
  <2>1. \A f \in 1 .. n : Superseding(i)[f] \in FormulaRows
    BY <1>1, <1>5 DEF Superseding, FormulaRows
  <2>2. Superseding(i) \in [1 .. n -> FormulaRows]
    BY <1>1, <2>1 DEF Superseding
  <2> QED BY <1>1, <2>2
<1>7. formulas' = Append(Superseding(i), row)
  BY DEF CreateFormulaRevision
<1>8. /\ formulas' \in Seq(FormulaRows) /\ DOMAIN formulas' = 1 .. n + 1
      /\ formulas'[n + 1] = row
      /\ \A f \in 1 .. n : formulas'[f] = Superseding(i)[f]
  BY <1>1, <1>4, <1>6, <1>7
<1>9. \A f \in 1 .. n :
        /\ formulas'[f].item = formulas[f].item /\ formulas'[f].number = formulas[f].number
        /\ formulas'[f].status = "CURRENT" <=> formulas[f].status = "CURRENT" /\ formulas[f].item # i
  <2> SUFFICES ASSUME NEW f \in 1 .. n
               PROVE  /\ formulas'[f].item = formulas[f].item /\ formulas'[f].number = formulas[f].number
                      /\ formulas'[f].status = "CURRENT"
                           <=> formulas[f].status = "CURRENT" /\ formulas[f].item # i
    OBVIOUS
  <2>1. f \in CurrentOf(Database, i) <=> formulas[f].item = i /\ formulas[f].status = "CURRENT"
    BY <1>1 DEF CurrentOf, Database
  <2>2. formulas'[f] = IF f \in CurrentOf(Database, i)
                       THEN [formulas[f] EXCEPT !.status = "SUPERSEDED"] ELSE formulas[f]
    BY <1>1, <1>8 DEF Superseding
  <2> QED BY <1>5, <2>1, <2>2 DEF FormulaRows
<1> HIDE DEF n, mine, row
<1>10. HistoryIsLinear'
  <2> SUFFICES ASSUME NEW f \in 1 .. n + 1
               PROVE  /\ formulas'[f].number = Cardinality({h \in Mine(f)' : h <= f})
                      /\ formulas'[f].status = "CURRENT" <=> \A h \in Mine(f)' : h <= f
    BY <1>8 DEF HistoryIsLinear, Mine
  <2>1. CASE f = n + 1
    <3>1. Mine(f)' = mine \cup {n + 1} /\ n + 1 \notin mine
      BY <1>1, <1>8, <1>9, <2>1 DEF Mine, mine, row
    <3>2. {h \in Mine(f)' : h <= f} = mine \cup {n + 1}
      BY <1>1, <2>1, <3>1 DEF mine
    <3>3. Cardinality(mine \cup {n + 1}) = Cardinality(mine) + 1
      BY <1>2, <3>1, FS_AddElement
    <3>4. \A h \in Mine(f)' : h <= f
      BY <3>1, <3>2
    <3>5. formulas'[f].number = Cardinality(mine) + 1 /\ formulas'[f].status = "CURRENT"
      BY <1>3, <1>8, <2>1 DEF row
    <3> QED BY <3>2, <3>3, <3>4, <3>5
  <2>2. CASE f \in 1 .. n
    <3>1. /\ formulas[f].number = Cardinality({h \in Mine(f) : h <= f})
          /\ formulas[f].status = "CURRENT" <=> \A h \in Mine(f) : h <= f
      BY <1>1, <2>2 DEF HistoryIsLinear, Mine
    <3>2. {h \in Mine(f)' : h <= f} = {h \in Mine(f) : h <= f}
      BY <1>1, <1>8, <1>9, <2>2 DEF Mine
    <3>3. CASE formulas[f].item = i
      <4>1. n + 1 \in Mine(f)' /\ ~(n + 1 <= f)
        BY <1>1, <1>8, <1>9, <2>2, <3>3 DEF Mine, row
      <4> QED BY <1>9, <2>2, <3>1, <3>2, <3>3, <4>1
    <3>4. CASE formulas[f].item # i
      <4>1. Mine(f)' = Mine(f)
        BY <1>1, <1>8, <1>9, <2>2, <3>4 DEF Mine, row
      <4> QED BY <1>9, <2>2, <3>1, <3>2, <3>4, <4>1
    <3> QED BY <3>3, <3>4
  <2> QED BY <1>1, <2>1, <2>2
<1>11. Len(formulas') <= MaxFormulas
  <2>1. Len(formulas') = n + 1
    BY <1>1, <1>6, <1>7
  <2> QED BY <1>1, <2>1 DEF n
<1> QED BY <1>8, <1>10, <1>11

-----------------------------------------------------------------------------
(* The specification.                                                      *)

FactsInv == FactsTypeOK /\ HistoryIsLinear /\ LookupInv

LEMMA FactsStart == FactsAssumption /\ FactsInit => FactsInv
<1> SUFFICES ASSUME FactsAssumption, FactsInit PROVE FactsInv
  OBVIOUS
<1>1. LookupInv
  BY DEF FactsInit, LookupInv, LookupsAreRecords, LookupsAreWitnessed, Lookup, Looking, Phases
<1>2. FactsTypeOK /\ HistoryIsLinear
  <2>1. (CHOOSE i \in Items : TRUE) \in Items
    BY DEF FactsAssumption
  <2> QED BY <2>1 DEF FactsInit, FactsTypeOK, FactsAssumption, HistoryIsLinear, Empty, Lookup, Phases
<1> QED BY <1>1, <1>2 DEF FactsInv

LEMMA FactsStep == FactsAssumption /\ FactsInv /\ [FactsNext]_factVars => FactsInv'
<1> SUFFICES ASSUME FactsAssumption, FactsInv, [FactsNext]_factVars PROVE FactsInv'
  OBVIOUS
<1> USE DEF FactsInv
<1>1. ASSUME NEW i \in Items, NEW s \in {"PUBLISHED", "ARCHIVED"}, Transition(i, s) PROVE FactsInv'
  <2>1. LookupInv'
    BY <1>1, WritersLeaveLookups DEF Transition
  <2>2. FactsTypeOK' /\ HistoryIsLinear'
    BY <1>1 DEF Transition, FactsTypeOK, HistoryIsLinear
  <2> QED BY <2>1, <2>2
<1>2. ASSUME NEW i \in Items, NEW t \in Inci, NEW b \in BOOLEAN, CreateFormulaRevision(i, t, b)
      PROVE  FactsInv'
  <2>1. LookupInv'
    BY <1>2, WritersLeaveLookups DEF CreateFormulaRevision
  <2>2. formulas' \in Seq(FormulaRows) /\ Len(formulas') <= MaxFormulas /\ HistoryIsLinear'
    BY <1>2, RevisionIsWritten
  <2>3. FactsTypeOK'
    BY <1>2, <2>2 DEF CreateFormulaRevision, FactsTypeOK
  <2> QED BY <2>1, <2>2, <2>3
<1>3. ASSUME NEW i \in Items, NEW f \in 0 .. Len(formulas), NEW b \in BOOLEAN, CreateClaim(i, f, b)
      PROVE  FactsInv'
  <2>1. LookupInv'
    BY <1>3, WritersLeaveLookups DEF CreateClaim
  <2>2. HistoryIsLinear'
    BY <1>3 DEF CreateClaim, HistoryIsLinear
  <2>3. [item |-> i, formula |-> f, status |-> "DRAFT", allowed |-> b] \in ClaimRows
    BY DEF ClaimRows, FactsTypeOK, FactsAssumption
  <2>4. FactsTypeOK'
    BY <1>3, <2>3 DEF CreateClaim, FactsTypeOK
  <2> QED BY <2>1, <2>2, <2>4
<1>4. ASSUME NEW c \in DOMAIN claims, NEW s \in {"PUBLISHED", "WITHDRAWN"}, EditClaim(c, s) PROVE FactsInv'
  <2>1. LookupInv'
    BY <1>4, WritersLeaveLookups DEF EditClaim
  <2>2. HistoryIsLinear'
    BY <1>4 DEF EditClaim, HistoryIsLinear
  <2>3. claims' \in Seq(ClaimRows)
    <3>1. claims \in Seq(ClaimRows) /\ c \in 1 .. Len(claims)
      BY DEF FactsTypeOK
    <3>2. claims[c] \in ClaimRows
      BY <3>1
    <3>3. [claims[c] EXCEPT !.status = s] \in ClaimRows
      BY <3>2 DEF ClaimRows
    <3>4. claims' = [claims EXCEPT ![c] = [claims[c] EXCEPT !.status = s]]
      BY <1>4 DEF EditClaim
    <3> QED BY <3>1, <3>3, <3>4, ExceptSeq
  <2>4. FactsTypeOK'
    BY <1>4, <2>3 DEF EditClaim, FactsTypeOK
  <2> QED BY <2>1, <2>2, <2>4
<1>5. ASSUME NEW l \in Lookers, NEW i \in Items, BeginLookup(l, i) PROVE FactsInv'
  <2>1. LookupInv'
    BY <1>5, LookupBegins
  <2>2. \A k \in Lookers : lookup'[k].phase \in Phases /\ lookup'[k].item \in Items
    BY <1>5 DEF BeginLookup, FactsTypeOK, LookupInv, LookupsAreRecords, Lookup, Phases
  <2>3. FactsTypeOK' /\ HistoryIsLinear'
    BY <1>5, <2>2 DEF BeginLookup, FactsTypeOK, HistoryIsLinear
  <2> QED BY <2>1, <2>3
<1>6. ASSUME NEW l \in Lookers, ReadFormula(l) \/ ReadClaims(l) PROVE FactsInv'
  <2>1. LookupInv'
    BY <1>6, LookupReads
  <2>2. \A k \in Lookers : lookup'[k].phase \in Phases
    BY <2>1 DEF LookupInv, LookupsAreRecords
  <2>3. \A k \in Lookers : lookup'[k].item = lookup[k].item
    BY <1>6 DEF ReadFormula, ReadClaims, LookupInv, LookupsAreRecords, Lookup
  <2>4. UNCHANGED <<status, formulas, claims>>
    BY <1>6 DEF ReadFormula, ReadClaims
  <2>5. FactsTypeOK'
    BY <2>2, <2>3, <2>4 DEF FactsTypeOK
  <2>6. HistoryIsLinear'
    BY <2>4 DEF HistoryIsLinear
  <2> QED BY <2>1, <2>5, <2>6
<1>7. CASE UNCHANGED factVars
  BY <1>7 DEF factVars, FactsTypeOK, HistoryIsLinear, LookupInv, LookupsAreRecords, LookupsAreWitnessed,
    SnapshotIsWitnessed, Looking
<1> QED BY <1>1, <1>2, <1>3, <1>4, <1>5, <1>6, <1>7 DEF FactsNext

\* catalog-repository.ts:283, :596: formula revisions are a linear history, and every
\* lookup answers one moment of it, with any number of writers.
THEOREM LookupIsAlwaysOneMoment == FactsSpec => []LookupIsOneMoment
<1>1. FactsInv => LookupIsOneMoment
  BY DEF FactsInv, LookupInv, LookupsAreWitnessed, LookupIsOneMoment
<1> QED BY FactsAssumption, FactsStart, FactsStep, <1>1, PTL DEF FactsSpec

-----------------------------------------------------------------------------
(* What an operator publishes. *)

\* A set of natural numbers has a least one: what takes the place of induction.
LEMMA LeastNumber ==
  ASSUME NEW T \in SUBSET Nat, T # {} PROVE \E x \in T : \A y \in T : x <= y
<1>1. PICK x \in T : \A y \in T : ~(<<y, x>> \in OpToRel(<, Nat))
  <2>1. IsWellFoundedOn(OpToRel(<, Nat), Nat)
    BY NatLessThanWellFounded
  <2> QED BY <2>1, WFMin, Zenon
<1>2. \A y \in T : ~(y < x)
  BY <1>1 DEF OpToRel
<1> QED BY <1>2

-----------------------------------------------------------------------------
(* Numbers of articles.                                                    *)

Digits14 == [1 .. 14 -> 0 .. 9]
Told(g) == {<<14 - k, g[k]>> : k \in {j \in 1 .. 14 : g[j] # 0}}

\* Fourteen digits are told by those that are not zero.
LEMMA DigitsAreTold ==
  ASSUME NEW g \in Digits14, NEW h \in Digits14, Told(g) = Told(h) PROVE g = h
<1>1. ASSUME NEW a \in Digits14, NEW b \in Digits14, Told(a) = Told(b), NEW k \in 1 .. 14, a[k] # 0
      PROVE  b[k] = a[k]
  <2>1. <<14 - k, a[k]>> \in Told(b)
    BY <1>1 DEF Told
  <2>2. PICK j \in 1 .. 14 : <<14 - k, a[k]>> = <<14 - j, b[j]>>
    BY <2>1 DEF Told
  <2>3. j = k
    BY <2>2
  <2> QED BY <2>2, <2>3
<1>2. ASSUME NEW k \in 1 .. 14 PROVE g[k] = h[k]
  BY <1>1
<1> QED BY <1>2 DEF Digits14

LEMMA PaddedIsDigits ==
  ASSUME NEW c \in Seq(0 .. 10), WellFormed(c)
  PROVE  Gtin14(c) \in Digits14 /\ Told(Gtin14(c)) = Significant(c)
<1> DEFINE g == Gtin14(c)
<1>1. /\ Len(c) \in 8 .. 14 /\ DOMAIN c = 1 .. Len(c)
      /\ Padding(c) \in 0 .. 6 /\ Padding(c) + Len(c) = 14
      /\ \A i \in 1 .. Len(c) : c[i] \in 0 .. 9
  <2>1. Len(c) \in {8, 12, 13, 14} /\ DOMAIN c = 1 .. Len(c) /\ \A i \in 1 .. Len(c) : c[i] \in 0 .. 9
    BY DEF WellFormed, formatForLength
  <2>2. Padding(c) = 14 - Len(c)
    BY DEF Padding
  <2>3. \A n, p : n \in {8, 12, 13, 14} /\ p = 14 - n => n \in 8 .. 14 /\ p \in 0 .. 6 /\ p + n = 14
    OBVIOUS
  <2> QED BY ONLY <2>1, <2>2, <2>3
<1>2. g \in Digits14
  <2>1. ASSUME NEW k \in 1 .. 14 PROVE (IF k <= Padding(c) THEN 0 ELSE c[k - Padding(c)]) \in 0 .. 9
    <3>1. ~(k <= Padding(c)) => k - Padding(c) \in 1 .. Len(c)
      <4>1. \A n \in 8 .. 14, p \in 0 .. 6 : p + n = 14 /\ ~(k <= p) => k - p \in 1 .. n
        OBVIOUS
      <4> QED BY ONLY <1>1, <4>1
    <3> QED BY <1>1, <3>1
  <2> QED BY <2>1 DEF Gtin14, Digits14
<1>3. ASSUME NEW i \in 1 .. Len(c), c[i] # 0 PROVE <<Len(c) - i, c[i]>> \in Told(g)
  <2> DEFINE k == i + Padding(c)
  <2>1. k \in 1 .. 14 /\ ~(k <= Padding(c)) /\ k - Padding(c) = i /\ 14 - k = Len(c) - i
    <3>1. PICK n : n = Len(c)
      OBVIOUS
    <3>2. PICK p : p = Padding(c)
      OBVIOUS
    <3>3. n \in 8 .. 14 /\ p \in 0 .. 6 /\ p + n = 14 /\ i \in 1 .. n
      BY <1>1, <3>1, <3>2
    <3>4. i + p \in 1 .. 14 /\ ~(i + p <= p) /\ i + p - p = i /\ 14 - (i + p) = n - i
      BY ONLY <3>3
    <3>5. k = i + p
      BY <3>2
    <3> HIDE DEF k
    <3> QED BY <3>1, <3>2, <3>3, <3>4, <3>5
  <2> HIDE DEF k
  <2>2. g[k] = c[i]
    BY <2>1 DEF Gtin14
  <2> HIDE DEF g
  <2> QED BY <1>3, <2>1, <2>2 DEF Told
<1>4. ASSUME NEW k \in 1 .. 14, g[k] # 0 PROVE <<14 - k, g[k]>> \in Significant(c)
  <2>1. ~(k <= Padding(c)) /\ g[k] = c[k - Padding(c)]
    BY <1>4 DEF Gtin14
  <2>2. k - Padding(c) \in 1 .. Len(c) /\ Len(c) - (k - Padding(c)) = 14 - k
    <3>1. PICK n : n = Len(c)
      OBVIOUS
    <3>2. PICK p : p = Padding(c)
      OBVIOUS
    <3>3. n \in 8 .. 14 /\ p \in 0 .. 6 /\ p + n = 14 /\ ~(k <= p)
      BY <1>1, <2>1, <3>1, <3>2
    <3>4. k - p \in 1 .. n /\ n - (k - p) = 14 - k
      BY <3>3
    <3> QED BY ONLY <3>1, <3>2, <3>4
  <2> QED BY <1>1, <1>4, <2>1, <2>2 DEF Significant
<1> HIDE DEF g
<1>5. Told(g) \subseteq Significant(c)
  BY <1>4 DEF Told
<1>6. Significant(c) \subseteq Told(g)
  BY <1>1, <1>3 DEF Significant
<1> QED BY <1>2, <1>5, <1>6 DEF g

\* Two codes are padded to one exactly if they are one number.
LEMMA PaddedTells ==
  ASSUME NEW c \in Seq(0 .. 10), NEW d \in Seq(0 .. 10), WellFormed(c), WellFormed(d)
  PROVE  Gtin14(c) = Gtin14(d) <=> Significant(c) = Significant(d)
BY PaddedIsDigits, DigitsAreTold

-----------------------------------------------------------------------------
(* The check digit.                                                        *)

Sums(f, code, m) == f = [i \in 0 .. m |-> IF i = 0 THEN 0 ELSE f[i - 1] + code[i] * Weight(code, i)]

LEMMA SumsExist ==
  ASSUME NEW code, NEW m \in Nat PROVE \E f : Sums(f, code, m)
<1> DEFINE T == {k \in Nat : ~\E f : Sums(f, code, k)}
<1>1. SUFFICES ASSUME T # {} PROVE FALSE
  OBVIOUS
<1>2. PICK k \in T : \A y \in T : k <= y
  <2>1. T \in SUBSET Nat
    OBVIOUS
  <2> HIDE DEF T
  <2> QED BY <1>1, <2>1, LeastNumber
<1>3. CASE k = 0
  <2> DEFINE f == [i \in 0 .. 0 |-> 0]
  <2>1. Sums(f, code, 0)
    BY DEF Sums
  <2> HIDE DEF f
  <2> QED BY <1>2, <1>3, <2>1
<1>4. CASE k # 0
  <2>1. k \in Nat /\ k - 1 \in Nat /\ ~(k <= k - 1)
    BY <1>2, <1>4
  <2>2. PICK g : Sums(g, code, k - 1)
    BY <1>2, <2>1
  <2> DEFINE f == [i \in 0 .. k |-> IF i = k THEN g[k - 1] + code[k] * Weight(code, k) ELSE g[i]]
  <2>3. \A i \in 0 .. k - 1 : g[i] = IF i = 0 THEN 0 ELSE g[i - 1] + code[i] * Weight(code, i)
    BY <2>1, <2>2 DEF Sums
  <2>4. \A i \in 0 .. k : f[i] = IF i = 0 THEN 0 ELSE f[i - 1] + code[i] * Weight(code, i)
    <3> TAKE i \in 0 .. k
    <3>1. CASE i = k
      <4>1. f[k] = g[k - 1] + code[k] * Weight(code, k) /\ f[k - 1] = g[k - 1]
        BY <2>1
      <4> HIDE DEF f
      <4> QED BY <1>4, <3>1, <4>1
    <3>2. CASE i # k
      <4>1. i \in 0 .. k - 1 /\ f[i] = g[i] /\ (i # 0 => f[i - 1] = g[i - 1])
        BY <2>1, <3>2
      <4> HIDE DEF f
      <4> QED BY <2>3, <4>1
    <3> QED BY <3>1, <3>2
  <2>5. f = [i \in 0 .. k |-> f[i]]
    OBVIOUS
  <2> HIDE DEF f
  <2>6. Sums(f, code, k)
    BY <2>4, <2>5 DEF Sums
  <2> QED BY <1>2, <2>6
<1> QED BY <1>3, <1>4

LEMMA CheckDigitIsOfSum ==
  ASSUME NEW code, Len(code) - 1 \in Nat
  PROVE  \E f : Sums(f, code, Len(code) - 1) /\ expectedCheckDigit(code) = (10 - (f[Len(code) - 1] % 10)) % 10
<1> DEFINE m == Len(code) - 1
           f == CHOOSE f : Sums(f, code, m)
<1>1. Sums(f, code, m)
  BY SumsExist
<1>2. expectedCheckDigit(code) = (10 - (f[m] % 10)) % 10
  BY DEF expectedCheckDigit, Sums
<1> QED BY <1>1, <1>2

LEMMA SumsAreNumbers ==
  ASSUME NEW code, NEW m \in Nat, NEW f, Sums(f, code, m), \A i \in 1 .. m : code[i] \in Nat,
         NEW i \in 0 .. m
  PROVE  f[i] \in Nat
<1> DEFINE T == {k \in 0 .. m : f[k] \notin Nat}
<1>1. SUFFICES ASSUME T # {} PROVE FALSE
  OBVIOUS
<1>2. PICK k \in T : \A y \in T : k <= y
  <2>1. T \in SUBSET Nat
    OBVIOUS
  <2> HIDE DEF T
  <2> QED BY <1>1, <2>1, LeastNumber
<1>3. \A n \in 0 .. m : f[n] = IF n = 0 THEN 0 ELSE f[n - 1] + code[n] * Weight(code, n)
  BY DEF Sums
<1>4. k # 0 /\ k \in 0 .. m /\ f[k] \notin Nat
  BY <1>2, <1>3
<1>5. k - 1 \in 0 .. m /\ k \in 1 .. m /\ ~(k <= k - 1)
  BY <1>4
<1>6. f[k - 1] \in Nat
  BY <1>2, <1>5
<1>7. Weight(code, k) \in {1, 3}
  BY DEF Weight
<1>8. f[k] = f[k - 1] + code[k] * Weight(code, k)
  BY <1>3, <1>4
<1>9. code[k] \in Nat
  BY <1>5
<1>10. code[k] * Weight(code, k) \in Nat
  BY <1>7, <1>9
<1> QED BY <1>4, <1>6, <1>8, <1>10

\* What a digit that is read wrongly adds to the sum.
Change(a, b, at) == (b[at] - a[at]) * Weight(a, at)

\* Two codes that differ in one digit have sums that differ by what it weighs.
LEMMA SumsDiffer ==
  ASSUME NEW m \in Nat, NEW a, NEW b, NEW f, NEW g, Sums(f, a, m), Sums(g, b, m),
         Len(a) = Len(b), \A i \in 1 .. m : a[i] \in Nat /\ b[i] \in Nat,
         NEW at \in 1 .. m, \A i \in 1 .. m : i # at => a[i] = b[i]
  PROVE  g[m] - f[m] = Change(a, b, at)
<1> DEFINE diff == Change(a, b, at)
           T == {k \in 0 .. m : g[k] - f[k] # IF k < at THEN 0 ELSE diff}
<1>1. SUFFICES T = {}
  <2>1. m \notin T /\ m \in 0 .. m /\ ~(m < at)
    BY <1>1
  <2> QED BY <2>1
<1>2. SUFFICES ASSUME T # {} PROVE FALSE
  OBVIOUS
<1>3. PICK k \in T : \A y \in T : k <= y
  <2>1. T \in SUBSET Nat
    OBVIOUS
  <2> HIDE DEF T
  <2> QED BY <1>2, <2>1, LeastNumber
<1>4. /\ \A n \in 0 .. m : f[n] = IF n = 0 THEN 0 ELSE f[n - 1] + a[n] * Weight(a, n)
      /\ \A n \in 0 .. m : g[n] = IF n = 0 THEN 0 ELSE g[n - 1] + b[n] * Weight(b, n)
  BY DEF Sums
<1>5. k # 0 /\ k \in 0 .. m /\ g[k] - f[k] # IF k < at THEN 0 ELSE diff
  BY <1>3, <1>4
<1>6. k - 1 \in 0 .. m /\ k \in 1 .. m /\ ~(k <= k - 1)
  BY <1>5
<1>7. g[k - 1] - f[k - 1] = IF k - 1 < at THEN 0 ELSE diff
  <2>1. k - 1 \notin T
    BY <1>3, <1>6
  <2> QED BY <1>6, <2>1
<1>8. f[k - 1] \in Nat /\ g[k - 1] \in Nat
  BY <1>6, SumsAreNumbers
<1>9. Weight(b, k) = Weight(a, k) /\ Weight(a, k) \in {1, 3} /\ a[k] \in Nat /\ b[k] \in Nat
  BY <1>6 DEF Weight
<1>10. f[k] = f[k - 1] + a[k] * Weight(a, k) /\ g[k] = g[k - 1] + b[k] * Weight(a, k)
  BY <1>4, <1>5, <1>9
<1>11. diff \in Int
  <2>1. Weight(a, at) \in {1, 3} /\ a[at] \in Nat /\ b[at] \in Nat
    BY DEF Weight
  <2> QED BY <2>1 DEF Change
<1>12. CASE k # at
  <2>1. a[k] = b[k]
    BY <1>6, <1>12
  <2>2. a[k] * Weight(a, k) \in Nat
    BY <1>9
  <2> DEFINE v == a[k] * Weight(a, k)
  <2>3. f[k] = f[k - 1] + v /\ g[k] = g[k - 1] + v /\ v \in Nat
    BY <1>10, <2>1, <2>2
  <2> HIDE DEF v, diff, T
  <2> QED BY <1>5, <1>6, <1>7, <1>8, <1>11, <1>12, <2>3
<1>13. CASE k = at
  <2>1. g[k - 1] = f[k - 1]
    BY <1>7, <1>8, <1>13
  <2>2. CASE Weight(a, k) = 1
    BY <1>5, <1>8, <1>9, <1>10, <1>13, <2>1, <2>2 DEF Change
  <2>3. CASE Weight(a, k) = 3
    BY <1>5, <1>8, <1>9, <1>10, <1>13, <2>1, <2>3 DEF Change
  <2> QED BY <1>9, <2>2, <2>3
<1> QED BY <1>12, <1>13

\* Numbers that differ by less than ten times a weight leave different rests.
LEMMA RestsDiffer ==
  ASSUME NEW s \in Nat, NEW t \in Nat, NEW d \in -9 .. 9, d # 0, NEW w \in {1, 3}, t - s = d * w
  PROVE  (10 - (s % 10)) % 10 # (10 - (t % 10)) % 10
<1>1. s % 10 # t % 10
  <2>1. CASE w = 1
    BY <2>1
  <2>2. CASE w = 3
    BY <2>2
  <2> QED BY <2>1, <2>2
<1>2. s % 10 \in 0 .. 9 /\ t % 10 \in 0 .. 9
  OBVIOUS
<1>3. \A x \in 0 .. 9 : (10 - x) % 10 = IF x = 0 THEN 0 ELSE 10 - x
  OBVIOUS
<1> QED BY <1>1, <1>2, <1>3

\* gtin.ts: one digit read wrongly is noticed.
LEMMA WrongDigitIsNoticed ==
  ASSUME NEW c \in Seq(0 .. 10), IsGtin(c), NEW wrong \in OneDigitOff(c) PROVE ~IsGtin(wrong)
<1>1. Len(c) \in {8, 12, 13, 14} /\ DOMAIN c = 1 .. Len(c) /\ \A i \in 1 .. Len(c) : c[i] \in 0 .. 9
  BY DEF IsGtin, WellFormed, formatForLength
<1>2. PICK at \in 1 .. Len(c), d \in 0 .. 9 : wrong = [c EXCEPT ![at] = d] /\ wrong # c
  BY <1>1 DEF OneDigitOff
<1>3. /\ wrong \in Seq(0 .. 10) /\ Len(wrong) = Len(c) /\ wrong[at] = d /\ c[at] # d
      /\ \A i \in 1 .. Len(c) : i # at => wrong[i] = c[i]
      /\ \A i \in 1 .. Len(c) : wrong[i] \in 0 .. 9
  <2>1. /\ wrong \in Seq(0 .. 10) /\ Len(wrong) = Len(c) /\ wrong[at] = d
        /\ \A i \in 1 .. Len(c) : i # at => wrong[i] = c[i]
    BY <1>1, <1>2
  <2>2. c[at] # d
    BY <1>1, <1>2
  <2> QED BY <1>1, <1>2, <2>1, <2>2
<1> DEFINE m == Len(c) - 1
<1>4. m \in Nat /\ Len(c) = m + 1 /\ m >= 1
  BY <1>1
<1>5. PICK f : Sums(f, c, m) /\ expectedCheckDigit(c) = (10 - (f[m] % 10)) % 10
  BY <1>4, CheckDigitIsOfSum
<1>6. PICK g : Sums(g, wrong, m) /\ expectedCheckDigit(wrong) = (10 - (g[m] % 10)) % 10
  BY <1>3, <1>4, CheckDigitIsOfSum
<1>7. c[Len(c)] = expectedCheckDigit(c)
  BY DEF IsGtin
<1> SUFFICES ASSUME wrong[Len(c)] = expectedCheckDigit(wrong) PROVE FALSE
  BY <1>3 DEF IsGtin
<1> HIDE DEF m
<1>8. \A i \in 1 .. m : c[i] \in Nat /\ wrong[i] \in Nat
  BY <1>1, <1>3, <1>4
<1>9. f[m] \in Nat /\ g[m] \in Nat
  BY <1>4, <1>5, <1>6, <1>8, SumsAreNumbers
<1>10. CASE at = Len(c)
  <2>1. \A i \in 1 .. m : c[i] = wrong[i]
    BY <1>3, <1>4, <1>10
  <2>2. 1 \in 1 .. m
    BY <1>4
  <2>3. g[m] - f[m] = Change(c, wrong, 1)
    <3>1. m \in Nat /\ Sums(f, c, m) /\ Sums(g, wrong, m) /\ Len(c) = Len(wrong)
      BY <1>3, <1>4, <1>5, <1>6
    <3>2. \A i \in 1 .. m : i # 1 => c[i] = wrong[i]
      BY <2>1
    <3> QED BY ONLY <1>8, <2>2, <3>1, <3>2, SumsDiffer
  <2>4. wrong[1] - c[1] = 0 /\ Weight(c, 1) \in {1, 3}
    BY <1>8, <2>1, <2>2 DEF Weight
  <2>5. g[m] = f[m]
    BY <1>9, <2>3, <2>4 DEF Change
  <2> QED BY <1>3, <1>5, <1>6, <1>7, <1>10, <2>5
<1>11. CASE at # Len(c)
  <2>1. at \in 1 .. m /\ \A i \in 1 .. m : i # at => c[i] = wrong[i]
    BY <1>3, <1>4, <1>11
  <2>2. g[m] - f[m] = Change(c, wrong, at)
    <3>1. m \in Nat /\ Sums(f, c, m) /\ Sums(g, wrong, m) /\ Len(c) = Len(wrong)
      BY <1>3, <1>4, <1>5, <1>6
    <3> QED BY ONLY <1>8, <2>1, <3>1, SumsDiffer
  <2>3. wrong[at] - c[at] \in -9 .. 9 /\ wrong[at] - c[at] # 0 /\ Weight(c, at) \in {1, 3}
    <3>1. wrong[at] \in 0 .. 9 /\ c[at] \in 0 .. 9 /\ wrong[at] # c[at]
      BY <1>1, <1>3
    <3>2. Weight(c, at) \in {1, 3}
      BY DEF Weight
    <3>3. \A x, y \in 0 .. 9 : x # y => x - y \in -9 .. 9 /\ x - y # 0
      OBVIOUS
    <3> QED BY <3>1, <3>2, <3>3
  <2>4. (10 - (f[m] % 10)) % 10 # (10 - (g[m] % 10)) % 10
    BY <1>9, <2>2, <2>3, RestsDiffer DEF Change
  <2>5. wrong[Len(c)] = c[Len(c)]
    BY <1>3, <1>4, <1>11
  <2> QED BY <1>5, <1>6, <1>7, <2>4, <2>5
<1> QED BY <1>10, <1>11

-----------------------------------------------------------------------------
(* The manifest.                                                           *)

\* A row is a candidate or it is set aside, for one reason.
LEMMA RowsAreDecidedOnce ==
  ASSUME NEW rows \in Seq(ManifestRows)
  PROVE  /\ CandidatesOf(rows) \subseteq Preliminary(rows) /\ CandidatesOf(rows) \subseteq DOMAIN rows
         /\ \A q \in Quarantine(rows) : q[1] \in DOMAIN rows /\ q[1] \notin CandidatesOf(rows)
         /\ \A n \in DOMAIN rows \ CandidatesOf(rows) : \E q \in Quarantine(rows) : q[1] = n
         /\ \A q, r \in Quarantine(rows) : q[1] = r[1] => q = r
<1>1. /\ Preliminary(rows) \subseteq DOMAIN rows
      /\ SameRecord(rows) \subseteq Preliminary(rows) /\ SameGtin(rows) \subseteq Preliminary(rows)
      /\ \A n \in Preliminary(rows) : ~InvalidRow(rows[n]) /\ ~InvalidGtin(rows[n])
      /\ \A n \in DOMAIN rows \ Preliminary(rows) : InvalidRow(rows[n]) \/ InvalidGtin(rows[n])
  BY DEF Preliminary, SameRecord, SameGtin
<1>2. \A n : ~(InvalidRow(rows[n]) /\ InvalidGtin(rows[n]))
  BY DEF InvalidRow, InvalidGtin
<1>3. CandidatesOf(rows) = Preliminary(rows) \ (SameRecord(rows) \cup SameGtin(rows))
  BY DEF CandidatesOf
<1>4. ASSUME NEW q \in Quarantine(rows)
      PROVE  \/ q = <<q[1], "INVALID_ROW">> /\ q[1] \in DOMAIN rows /\ InvalidRow(rows[q[1]])
             \/ q = <<q[1], "INVALID_GTIN">> /\ q[1] \in DOMAIN rows /\ InvalidGtin(rows[q[1]])
             \/ q = <<q[1], "DUPLICATE_SOURCE_RECORD_ID">> /\ q[1] \in SameRecord(rows)
             \/ q = <<q[1], "DUPLICATE_GTIN">> /\ q[1] \in SameGtin(rows) \ SameRecord(rows)
  BY <1>4 DEF Quarantine
<1>5. \A q \in Quarantine(rows) : q[1] \in DOMAIN rows /\ q[1] \notin CandidatesOf(rows)
  BY <1>1, <1>3, <1>4
<1>6. ASSUME NEW n \in DOMAIN rows \ CandidatesOf(rows) PROVE \E q \in Quarantine(rows) : q[1] = n
  <2>1. \/ InvalidRow(rows[n]) \/ InvalidGtin(rows[n])
        \/ n \in SameRecord(rows) \/ n \in SameGtin(rows) \ SameRecord(rows)
    BY <1>1, <1>3, <1>6
  <2>2. \E c : <<n, c>> \in Quarantine(rows)
    BY <2>1 DEF Quarantine
  <2> QED BY <2>2
<1>7. ASSUME NEW q \in Quarantine(rows), NEW r \in Quarantine(rows), q[1] = r[1] PROVE q = r
  BY <1>1, <1>2, <1>4, <1>7
<1> QED BY <1>1, <1>3, <1>5, <1>6, <1>7

\* As many reasons as rows.
LEMMA ReasonsAreCounted ==
  ASSUME NEW rows \in Seq(ManifestRows)
  PROVE  Cardinality(Quarantine(rows)) = Cardinality({q[1] : q \in Quarantine(rows)})
<1> DEFINE Q == Quarantine(rows)
           N == {q[1] : q \in Q}
           f == [n \in N |-> CHOOSE q \in Q : q[1] = n]
<1>1. \A q, r \in Q : q[1] = r[1] => q = r
  BY RowsAreDecidedOnce
<1>2. IsFiniteSet(N)
  <2>1. N \subseteq 1 .. Len(rows)
    BY RowsAreDecidedOnce
  <2>2. IsFiniteSet(1 .. Len(rows))
    BY FS_Interval
  <2> QED BY <2>1, <2>2, FS_Subset
<1> HIDE DEF Q
<1>3. \A n \in N : f[n] \in Q /\ f[n][1] = n
  OBVIOUS
<1>4. f \in [N -> Q]
  BY <1>3
<1> HIDE DEF f
<1>5. \A q \in Q : q[1] \in N
  OBVIOUS
<1> HIDE DEF N
<1>6. \A q \in Q : f[q[1]] = q
  BY <1>1, <1>3, <1>5
<1>7. f \in Bijection(N, Q)
  <2>1. \A m, n \in N : f[m] = f[n] => m = n
    BY <1>3
  <2> QED BY <1>4, <1>5, <1>6, <2>1 DEF Bijection, Injection, IsInjective, Surjection
<1>8. ExistsBijection(N, Q)
  BY <1>7 DEF ExistsBijection
<1>9. Cardinality(Q) = Cardinality(N)
  BY <1>2, <1>8, FS_Bijection
<1> QED BY <1>9 DEF Q, N

\* The rows as prepareCatalogImport leaves them.
LEMMA PreparedIsPublishable ==
  ASSUME NEW rows \in Seq(ManifestRows)
  PROVE  /\ \A n \in CandidatesOf(rows), m \in DOMAIN rows :
              n # m /\ rows[m].flaw = "NONE" /\ IsGtin(rows[m].code) =>
                /\ Significant(rows[m].code) # Significant(rows[n].code)
                /\ rows[m].record # rows[n].record
         /\ \A n \in SameRecord(rows) \cup SameGtin(rows) : \E m \in DOMAIN rows \ {n} :
              rows[m].record = rows[n].record \/ Significant(rows[m].code) = Significant(rows[n].code)
         /\ \A n \in CandidatesOf(rows) : IsGtin(rows[n].code)
         /\ \A n \in CandidatesOf(rows) : \A wrong \in OneDigitOff(rows[n].code) : ~IsGtin(wrong)
         /\ \A n, m \in CandidatesOf(rows) :
              Gtin14(rows[n].code) = Gtin14(rows[m].code) => n = m
<1>1. /\ \A n \in DOMAIN rows : rows[n] \in ManifestRows
      /\ \A n \in DOMAIN rows : rows[n].code \in Seq(0 .. 10)
  <2>1. \A n \in DOMAIN rows : rows[n] \in ManifestRows
    OBVIOUS
  <2>2. \A row \in ManifestRows : row.code \in Seq(0 .. 10)
    BY ArtifactsAssumption DEF ManifestRows
  <2> QED BY <2>1, <2>2
<1>2. \A n \in Preliminary(rows) : n \in DOMAIN rows /\ IsGtin(rows[n].code) /\ WellFormed(rows[n].code)
  BY DEF Preliminary, InvalidRow, InvalidGtin, Malformed
<1>3. \A m \in DOMAIN rows : rows[m].flaw = "NONE" /\ IsGtin(rows[m].code) => m \in Preliminary(rows)
  BY DEF Preliminary, InvalidRow, InvalidGtin, Malformed, IsGtin
<1>4. \A n, m \in Preliminary(rows) :
        CodeKey(rows[m]) = CodeKey(rows[n]) <=> Significant(rows[m].code) = Significant(rows[n].code)
  BY <1>1, <1>2, PaddedTells DEF CodeKey
<1>5. ASSUME NEW n \in CandidatesOf(rows), NEW m \in Preliminary(rows), n # m
      PROVE  CodeKey(rows[m]) # CodeKey(rows[n]) /\ rows[m].record # rows[n].record
  BY <1>5 DEF CandidatesOf, SameRecord, SameGtin
<1>6. CandidatesOf(rows) \subseteq Preliminary(rows)
  BY DEF CandidatesOf
<1>7. ASSUME NEW n \in SameRecord(rows) \cup SameGtin(rows)
      PROVE  \E m \in DOMAIN rows \ {n} :
               rows[m].record = rows[n].record \/ Significant(rows[m].code) = Significant(rows[n].code)
  <2>1. PICK m \in Preliminary(rows) \ {n} :
          n \in Preliminary(rows) /\ (rows[m].record = rows[n].record \/ CodeKey(rows[m]) = CodeKey(rows[n]))
    BY DEF SameRecord, SameGtin
  <2> QED BY <1>2, <1>4, <2>1
<1>8. \A n \in CandidatesOf(rows) : \A wrong \in OneDigitOff(rows[n].code) : ~IsGtin(wrong)
  BY <1>1, <1>2, <1>6, WrongDigitIsNoticed
<1>9. \A n, m \in CandidatesOf(rows) : Gtin14(rows[n].code) = Gtin14(rows[m].code) => n = m
  BY <1>5, <1>6 DEF CodeKey
<1>10. \A n \in CandidatesOf(rows), m \in DOMAIN rows :
         n # m /\ rows[m].flaw = "NONE" /\ IsGtin(rows[m].code) =>
           Significant(rows[m].code) # Significant(rows[n].code) /\ rows[m].record # rows[n].record
  BY <1>3, <1>4, <1>5, <1>6
<1>11. \A n \in CandidatesOf(rows) : IsGtin(rows[n].code)
  BY <1>2, <1>6
<1> QED BY <1>7, <1>8, <1>9, <1>10, <1>11

Conflicts(ns) == {<<n, "GTIN_CONFLICT">> : n \in ns}

\* A publication on its way does what the dry run said: what it has inserted was reported to be
\* ready, what it has refused was not, and of the rest a barcode is taken exactly if it was then.
PublishesAsReported ==
  LET all == CandidatesOf(manifest.rows) IN
  /\ preview.ready \subseteq all
  /\ manifest.inserted \subseteq preview.ready
  /\ manifest.licensed =>
       /\ preview.quarantine = Quarantine(manifest.rows) \cup Conflicts(all \ preview.ready)
       /\ \E refused \in SUBSET (all \ preview.ready) :
            intake = Report(all \ refused, Quarantine(manifest.rows) \cup Conflicts(refused))
       /\ \A n \in all \ manifest.inserted :
            Gtin14(manifest.rows[n].code) \in taken <=> n \notin preview.ready
  /\ ~manifest.licensed =>
       /\ intake.ready = all /\ intake.quarantine = preview.quarantine /\ preview.ready = {}
       /\ \A n \in all : <<n, "RIGHTS_NOT_ALLOWED">> \in intake.quarantine

ManifestInv ==
  /\ manifest \in [phase : {"FILE", "PREPARED", "PUBLISHING", "STORED"}, licensed : BOOLEAN,
                   rows : Seq(ManifestRows), inserted : SUBSET Nat]
  /\ manifest.phase \in {"FILE", "PREPARED"} => manifest.inserted = {}
  /\ manifest.phase = "PREPARED" =>
       intake = Report(CandidatesOf(manifest.rows), Quarantine(manifest.rows))
  /\ manifest.phase \in {"PUBLISHING", "STORED"} => PublishesAsReported
  /\ manifest.phase = "STORED" => Undecided = {}

LEMMA ManifestStarts == ArtifactsInit => ManifestInv
BY DEF ArtifactsInit, ManifestInv

LEMMA StoredIsAsReported ==
  ASSUME ManifestInv, manifest.phase = "STORED"
  PROVE  preview.quarantine = intake.quarantine /\ preview.ready = manifest.inserted
<1> DEFINE all == CandidatesOf(manifest.rows)
<1>1. PublishesAsReported /\ Undecided = {} /\ manifest.rows \in Seq(ManifestRows)
  BY DEF ManifestInv
<1>2. \A n \in intake.ready : n \in manifest.inserted \/ \E q \in intake.quarantine : q[1] = n
  BY <1>1 DEF Undecided
<1>3. \A q \in Quarantine(manifest.rows) : q[1] \notin all
  BY <1>1, RowsAreDecidedOnce
<1>4. CASE manifest.licensed
  <2>1. PICK refused \in SUBSET (all \ preview.ready) :
          intake = Report(all \ refused, Quarantine(manifest.rows) \cup Conflicts(refused))
    BY <1>1, <1>4 DEF PublishesAsReported
  <2>2. intake.ready = all \ refused /\ intake.quarantine = Quarantine(manifest.rows) \cup Conflicts(refused)
    BY <2>1 DEF Report
  <2>3. /\ preview.ready \subseteq all /\ manifest.inserted \subseteq preview.ready
        /\ preview.quarantine = Quarantine(manifest.rows) \cup Conflicts(all \ preview.ready)
    BY <1>1, <1>4 DEF PublishesAsReported
  <2> HIDE DEF all
  <2>4. \A q \in Conflicts(refused) : q[1] \in refused
    BY DEF Conflicts
  <2>5. \A n \in all \ refused : n \in manifest.inserted
    BY <1>2, <1>3, <2>2, <2>4
  <2>6. refused = all \ preview.ready /\ preview.ready = manifest.inserted
    BY <2>1, <2>3, <2>5
  <2> QED BY <2>2, <2>3, <2>6
<1>5. CASE ~manifest.licensed
  BY <1>1, <1>5 DEF PublishesAsReported
<1> QED BY <1>4, <1>5

LEMMA ManifestInvSuffices ==
  ASSUME ManifestInv PROVE ManifestIsPublishable
<1> DEFINE rows == manifest.rows
           quarantined == {q[1] : q \in intake.quarantine}
<1>1. ASSUME manifest.phase = "PREPARED"
      PROVE  /\ intake.ready = CandidatesOf(rows) /\ intake.quarantine = Quarantine(rows)
             /\ rows \in Seq(ManifestRows)
  BY <1>1 DEF ManifestInv, Report
<1>2. ASSUME manifest.phase = "PREPARED"
      PROVE  /\ intake.ready \cup quarantined = DOMAIN rows /\ intake.ready \cap quarantined = {}
             /\ Cardinality(intake.quarantine) = Cardinality(quarantined)
  <2>1. intake.ready \cup quarantined = DOMAIN rows /\ intake.ready \cap quarantined = {}
    <3> HIDE DEF rows
    <3>1. intake.ready = CandidatesOf(rows) /\ intake.quarantine = Quarantine(rows)
      BY <1>1, <1>2
    <3>2. /\ CandidatesOf(rows) \subseteq DOMAIN rows
          /\ \A q \in Quarantine(rows) : q[1] \in DOMAIN rows /\ q[1] \notin CandidatesOf(rows)
          /\ \A n \in DOMAIN rows \ CandidatesOf(rows) : \E q \in Quarantine(rows) : q[1] = n
      BY <1>1, <1>2, RowsAreDecidedOnce
    <3>3. quarantined \subseteq DOMAIN rows \ CandidatesOf(rows)
      BY <3>1, <3>2
    <3>4. DOMAIN rows \ CandidatesOf(rows) \subseteq quarantined
      BY <3>1, <3>2
    <3> HIDE DEF quarantined
    <3> QED BY <3>1, <3>2, <3>3, <3>4
  <2>2. Cardinality(intake.quarantine) = Cardinality(quarantined)
    <3> HIDE DEF rows
    <3> QED BY <1>1, <1>2, ReasonsAreCounted
  <2> QED BY <2>1, <2>2
<1>3. manifest.phase = "STORED" => preview.quarantine = intake.quarantine /\ preview.ready = manifest.inserted
  BY StoredIsAsReported
<1> HIDE DEF quarantined
<1>4. ASSUME manifest.phase = "PREPARED"
      PROVE  /\ \A n \in intake.ready, m \in DOMAIN rows :
                  n # m /\ rows[m].flaw = "NONE" /\ IsGtin(rows[m].code) =>
                    /\ Significant(rows[m].code) # Significant(rows[n].code)
                    /\ rows[m].record # rows[n].record
             /\ \A n \in SameRecord(rows) \cup SameGtin(rows) : \E m \in DOMAIN rows \ {n} :
                  rows[m].record = rows[n].record \/ Significant(rows[m].code) = Significant(rows[n].code)
             /\ \A n \in intake.ready : \A wrong \in OneDigitOff(rows[n].code) : ~IsGtin(wrong)
  <2> HIDE DEF rows
  <2> QED BY <1>1, <1>4, PreparedIsPublishable
<1> QED BY <1>2, <1>3, <1>4 DEF ManifestIsPublishable, quarantined

LEMMA ManifestStepKeeps ==
  ASSUME ManifestInv, ManifestNext PROVE ManifestInv'
<1> DEFINE all == CandidatesOf(manifest.rows)
<1>1. ASSUME NEW row \in ManifestRows, AddRow(row) PROVE ManifestInv'
  <2>1. manifest.phase = "FILE" /\ manifest' = [manifest EXCEPT !.rows = Append(@, row)]
    BY <1>1 DEF AddRow
  <2>2. manifest.inserted = {} /\ Append(manifest.rows, row) \in Seq(ManifestRows)
    BY <2>1 DEF ManifestInv
  <2>3. /\ manifest' \in [phase : {"FILE", "PREPARED", "PUBLISHING", "STORED"}, licensed : BOOLEAN,
                          rows : Seq(ManifestRows), inserted : SUBSET Nat]
        /\ manifest'.phase = "FILE" /\ manifest'.inserted = {}
    BY <2>1, <2>2 DEF ManifestInv
  <2> QED BY <2>3 DEF ManifestInv
<1>2. ASSUME PrepareCatalogImport PROVE ManifestInv'
  BY <1>2 DEF PrepareCatalogImport, ManifestInv
<1>3. ASSUME PreviewImport PROVE ManifestInv'
  <2>1. /\ manifest.phase = "PREPARED" /\ manifest' = [manifest EXCEPT !.phase = "PUBLISHING"]
        /\ manifest.inserted = {} /\ manifest.rows \in Seq(ManifestRows) /\ taken' = taken
        /\ intake.ready = all /\ intake.quarantine = Quarantine(manifest.rows)
    BY <1>3 DEF PreviewImport, ManifestInv, Report
  <2>2. manifest'.rows = manifest.rows /\ manifest'.inserted = {} /\ manifest'.licensed = manifest.licensed
        /\ manifest'.phase = "PUBLISHING"
    BY <2>1 DEF ManifestInv
  <2> DEFINE refused == Refused(manifest.rows, all, manifest.licensed, taken)
  <2>3. preview' = Report({n \in all : \A c \in {"GTIN_CONFLICT", "RIGHTS_NOT_ALLOWED"} : <<n, c>> \notin refused},
                          Quarantine(manifest.rows) \cup refused)
    BY <1>3, <2>1 DEF PreviewImport, previewNewImport
  <2>4. PublishesAsReported'
    <3>1. CASE manifest.licensed
      <4> DEFINE conflicted == {m \in all : Gtin14(manifest.rows[m].code) \in taken}
      <4>1. refused = Conflicts(conflicted)
        BY <3>1 DEF Refused, Conflicts
      <4>2. preview'.ready = all \ conflicted /\ preview'.quarantine = Quarantine(manifest.rows) \cup Conflicts(conflicted)
        BY <2>3, <4>1 DEF Report, Conflicts
      <4>3. intake' = intake
        BY <1>3, <3>1 DEF PreviewImport
      <4>4. intake = Report(all \ {}, Quarantine(manifest.rows) \cup Conflicts({}))
        <5>1. intake = Report(all, Quarantine(manifest.rows))
          BY <2>1 DEF ManifestInv
        <5>2. Conflicts({}) = {}
          BY DEF Conflicts
        <5> QED BY <5>1, <5>2
      <4>5. \A n \in all : Gtin14(manifest.rows[n].code) \in taken <=> n \notin preview'.ready
        BY <4>2
      <4>6. all \ preview'.ready = conflicted
        BY <4>2
      <4>7. all' = all /\ Quarantine(manifest'.rows) = Quarantine(manifest.rows) /\ manifest'.licensed
        BY <2>2, <3>1
      <4> HIDE DEF all, conflicted
      <4>8. \E r \in SUBSET (all \ preview'.ready) :
              intake = Report(all \ r, Quarantine(manifest.rows) \cup Conflicts(r))
        BY <4>4
      <4>9. /\ preview'.ready \subseteq all /\ manifest'.inserted \subseteq preview'.ready
            /\ preview'.quarantine = Quarantine(manifest.rows) \cup Conflicts(all \ preview'.ready)
            /\ \A n \in all \ manifest'.inserted :
                 Gtin14(manifest'.rows[n].code) \in taken' <=> n \notin preview'.ready
        <5>1. \A n \in all \ manifest'.inserted :
                Gtin14(manifest'.rows[n].code) \in taken' <=> n \notin preview'.ready
          BY <2>1, <2>2, <4>5
        <5>2. preview'.ready \subseteq all /\ manifest'.inserted \subseteq preview'.ready
          BY <2>2, <4>2
        <5> QED BY <4>2, <4>6, <5>1, <5>2
      <4>10. \E r \in SUBSET (all \ preview'.ready) :
               intake' = Report(all \ r, Quarantine(manifest.rows) \cup Conflicts(r))
        BY <4>3, <4>8
      <4> QED BY <4>7, <4>9, <4>10 DEF PublishesAsReported, all
    <3>2. CASE ~manifest.licensed
      <4>1. refused = {<<n, "RIGHTS_NOT_ALLOWED">> : n \in all}
        BY <3>2 DEF Refused
      <4>2. preview'.ready = {} /\ preview'.quarantine = Quarantine(manifest.rows) \cup refused
        BY <2>3, <4>1 DEF Report
      <4>3. intake'.ready = all /\ intake'.quarantine = Quarantine(manifest.rows) \cup refused
        BY <1>3, <2>1, <3>2 DEF PreviewImport, Report, Refused
      <4>4. \A n \in all : <<n, "RIGHTS_NOT_ALLOWED">> \in intake'.quarantine
        BY <4>1, <4>3
      <4> HIDE DEF refused
      <4> QED BY <2>2, <3>2, <4>2, <4>3, <4>4 DEF PublishesAsReported
    <3> QED BY <3>1, <3>2
  <2>5. manifest' \in [phase : {"FILE", "PREPARED", "PUBLISHING", "STORED"}, licensed : BOOLEAN,
                       rows : Seq(ManifestRows), inserted : SUBSET Nat]
    BY <2>1 DEF ManifestInv
  <2> QED BY <2>2, <2>4, <2>5 DEF ManifestInv
<1>4. ASSUME NEW n \in 1 .. MaxManifest, PublishCandidate(n) PROVE ManifestInv'
  <2> DEFINE g == Gtin14(manifest.rows[n].code)
  <2>1. /\ manifest.phase = "PUBLISHING" /\ n \in Undecided /\ preview' = preview
        /\ PublishesAsReported /\ manifest.rows \in Seq(ManifestRows)
    BY <1>4 DEF PublishCandidate, ManifestInv
  <2>2. n \in intake.ready /\ n \notin manifest.inserted /\ \A q \in intake.quarantine : q[1] # n
    BY <2>1 DEF Undecided
  <2>3. manifest.licensed /\ n \in all
    <3>1. ASSUME ~manifest.licensed PROVE FALSE
      <4>1. <<n, "RIGHTS_NOT_ALLOWED">> \in intake.quarantine
        BY <2>1, <2>2, <3>1 DEF PublishesAsReported
      <4> QED BY <2>2, <4>1
    <3>2. ASSUME manifest.licensed PROVE n \in all
      BY <2>1, <2>2, <3>2 DEF PublishesAsReported, Report
    <3> QED BY <3>1, <3>2 DEF ManifestInv
  <2>4. PICK refused \in SUBSET (all \ preview.ready) :
          intake = Report(all \ refused, Quarantine(manifest.rows) \cup Conflicts(refused))
    BY <2>1, <2>3 DEF PublishesAsReported
  <2>5. /\ preview.ready \subseteq all /\ manifest.inserted \subseteq preview.ready
        /\ preview.quarantine = Quarantine(manifest.rows) \cup Conflicts(all \ preview.ready)
        /\ \A m \in all \ manifest.inserted : Gtin14(manifest.rows[m].code) \in taken <=> m \notin preview.ready
    BY <2>1, <2>3 DEF PublishesAsReported
  <2>6. CASE g \in taken
    <3>1. /\ intake' = Report(intake.ready \ {n}, intake.quarantine \cup {<<n, "GTIN_CONFLICT">>})
          /\ manifest' = manifest /\ taken' = taken
      BY <1>4, <2>6 DEF PublishCandidate
    <3>2. n \in all \ preview.ready
      BY <2>2, <2>3, <2>5, <2>6
    <3>3. intake' = Report(all \ (refused \cup {n}), Quarantine(manifest.rows) \cup Conflicts(refused \cup {n}))
      <4>1. intake.ready = all \ refused /\ intake.quarantine = Quarantine(manifest.rows) \cup Conflicts(refused)
        BY <2>4 DEF Report
      <4>2. Conflicts(refused \cup {n}) = Conflicts(refused) \cup {<<n, "GTIN_CONFLICT">>}
        BY DEF Conflicts
      <4> HIDE DEF all
      <4>3. all \ (refused \cup {n}) = (all \ refused) \ {n}
        OBVIOUS
      <4>4. Quarantine(manifest.rows) \cup Conflicts(refused \cup {n})
              = (Quarantine(manifest.rows) \cup Conflicts(refused)) \cup {<<n, "GTIN_CONFLICT">>}
        BY <4>2
      <4> QED BY <3>1, <4>1, <4>3, <4>4
    <3>4. refused \cup {n} \in SUBSET (all \ preview.ready)
      BY <3>2
    <3>5. PublishesAsReported'
      <4>1. all' = all
        BY <3>1
      <4>2. \E r \in SUBSET (all \ preview.ready) :
              intake' = Report(all \ r, Quarantine(manifest.rows) \cup Conflicts(r))
        BY <3>3, <3>4
      <4> HIDE DEF all
      <4> QED BY <2>1, <2>3, <2>5, <3>1, <4>1, <4>2 DEF PublishesAsReported, all
    <3> QED BY <2>1, <3>1, <3>5 DEF ManifestInv
  <2>7. CASE g \notin taken
    <3>1. /\ taken' = taken \cup {g} /\ manifest' = [manifest EXCEPT !.inserted = @ \cup {n}]
          /\ intake' = intake
      BY <1>4, <2>7 DEF PublishCandidate
    <3>2. /\ manifest'.rows = manifest.rows /\ manifest'.licensed = manifest.licensed
          /\ manifest'.phase = manifest.phase /\ manifest'.inserted = manifest.inserted \cup {n}
      BY <3>1 DEF ManifestInv
    <3>3. n \in preview.ready
      BY <2>2, <2>3, <2>5, <2>7
    <3>4. \A m \in all \ manifest'.inserted : Gtin14(manifest.rows[m].code) # g
      BY <2>1, <2>3, <3>2, PreparedIsPublishable
    <3>5. PublishesAsReported'
      <4>1. all' = all
        BY <3>2
      <4>2. \A m \in all \ manifest'.inserted :
              Gtin14(manifest.rows[m].code) \in taken' <=> m \notin preview.ready
        BY <2>5, <3>1, <3>2, <3>4
      <4>3. manifest'.inserted \subseteq preview.ready
        BY <2>5, <3>2, <3>3
      <4> HIDE DEF all
      <4> QED BY <2>1, <2>3, <2>4, <2>5, <3>1, <3>2, <4>1, <4>2, <4>3 DEF PublishesAsReported, all
    <3>6. manifest' \in [phase : {"FILE", "PREPARED", "PUBLISHING", "STORED"}, licensed : BOOLEAN,
                         rows : Seq(ManifestRows), inserted : SUBSET Nat]
      BY <3>1 DEF ManifestInv
    <3> QED BY <2>1, <3>2, <3>5, <3>6 DEF ManifestInv
  <2> QED BY <2>6, <2>7
<1>5. ASSUME InsertBatch PROVE ManifestInv'
  <2>1. /\ manifest.phase = "PUBLISHING" /\ manifest' = [manifest EXCEPT !.phase = "STORED"]
        /\ intake' = intake /\ preview' = preview /\ taken' = taken /\ Undecided = {}
        /\ PublishesAsReported
    BY <1>5 DEF InsertBatch, ManifestInv
  <2>2. /\ manifest'.rows = manifest.rows /\ manifest'.licensed = manifest.licensed
        /\ manifest'.phase = "STORED" /\ manifest'.inserted = manifest.inserted
    BY <2>1 DEF ManifestInv
  <2>3. PublishesAsReported'
    <3>1. CandidatesOf(manifest'.rows) = all /\ Quarantine(manifest'.rows) = Quarantine(manifest.rows)
      BY <2>2
    <3>2. /\ preview'.ready \subseteq all /\ manifest'.inserted \subseteq preview'.ready
      BY <2>1, <2>2 DEF PublishesAsReported
    <3>3. ASSUME manifest.licensed
          PROVE  /\ preview'.quarantine = Quarantine(manifest.rows) \cup Conflicts(all \ preview'.ready)
                 /\ \E refused \in SUBSET (all \ preview'.ready) :
                      intake' = Report(all \ refused, Quarantine(manifest.rows) \cup Conflicts(refused))
                 /\ \A n \in all \ manifest'.inserted :
                      Gtin14(manifest'.rows[n].code) \in taken' <=> n \notin preview'.ready
      <4>1. preview.quarantine = Quarantine(manifest.rows) \cup Conflicts(all \ preview.ready)
        BY <2>1, <3>3 DEF PublishesAsReported
      <4>2. \E refused \in SUBSET (all \ preview.ready) :
              intake = Report(all \ refused, Quarantine(manifest.rows) \cup Conflicts(refused))
        BY <2>1, <3>3 DEF PublishesAsReported
      <4>3. \A n \in all \ manifest.inserted :
              Gtin14(manifest.rows[n].code) \in taken <=> n \notin preview.ready
        BY <2>1, <3>3 DEF PublishesAsReported
      <4> HIDE DEF all
      <4>4. preview'.quarantine = Quarantine(manifest.rows) \cup Conflicts(all \ preview'.ready)
        BY <2>1, <4>1
      <4>5. \E refused \in SUBSET (all \ preview'.ready) :
              intake' = Report(all \ refused, Quarantine(manifest.rows) \cup Conflicts(refused))
        BY <2>1, <4>2
      <4>6. \A n \in all \ manifest'.inserted :
              Gtin14(manifest'.rows[n].code) \in taken' <=> n \notin preview'.ready
        BY <2>1, <2>2, <4>3
      <4> QED BY ONLY <4>4, <4>5, <4>6
    <3>4. ~manifest.licensed =>
            /\ intake'.ready = all /\ intake'.quarantine = preview'.quarantine /\ preview'.ready = {}
            /\ \A n \in all : <<n, "RIGHTS_NOT_ALLOWED">> \in intake'.quarantine
      BY <2>1 DEF PublishesAsReported
    <3> HIDE DEF all
    <3> QED BY <2>2, <3>1, <3>2, <3>3, <3>4 DEF PublishesAsReported
  <2>4. Undecided' = {}
    BY <2>1, <2>2 DEF Undecided
  <2>5. manifest' \in [phase : {"FILE", "PREPARED", "PUBLISHING", "STORED"}, licensed : BOOLEAN,
                       rows : Seq(ManifestRows), inserted : SUBSET Nat]
    BY <2>1 DEF ManifestInv
  <2> QED BY <2>2, <2>3, <2>4, <2>5 DEF ManifestInv
<1> QED BY <1>1, <1>2, <1>3, <1>4, <1>5 DEF ManifestNext

-----------------------------------------------------------------------------
(* The dictionary.                                                         *)

\* What is sorted has an id and a key, and no two have the same id.
Sortable(S) == /\ \A x \in S : x.id \in Nat /\ x.key \in Nat
               /\ \A x, y \in S : x.id = y.id => x = y

LEMMA BeforeIsOrder ==
  ASSUME NEW S, Sortable(S), NEW x \in S, NEW y \in S, NEW z \in S
  PROVE  /\ Before(x, x)
         /\ Before(x, y) /\ Before(y, z) => Before(x, z)
BY DEF Sortable, Before

LEMMA BeforeTells ==
  ASSUME NEW S, Sortable(S), NEW x \in S, NEW y \in S, Before(x, y), Before(y, x)
  PROVE  x = y
BY DEF Sortable, Before

\* Neighbours in order are all in order.
LEMMA OrderedThroughout ==
  ASSUME NEW S, Sortable(S), NEW n \in Nat, NEW xs \in [1 .. n -> S], Ordered(xs),
         NEW i \in 1 .. n, NEW j \in 1 .. n, i <= j
  PROVE  Before(xs[i], xs[j])
<1> DEFINE T == {k \in i .. n : ~Before(xs[i], xs[k])}
<1>1. SUFFICES ASSUME T # {} PROVE FALSE
  <2>1. j \in i .. n
    OBVIOUS
  <2> QED BY <1>1, <2>1
<1>2. PICK k \in T : \A y \in T : k <= y
  <2>1. T \in SUBSET Nat
    OBVIOUS
  <2> HIDE DEF T
  <2> QED BY <1>1, <2>1, LeastNumber
<1>3. k \in i .. n /\ ~Before(xs[i], xs[k])
  BY <1>2
<1>4. k # i
  BY <1>3, BeforeIsOrder
<1>5. k - 1 \in i .. n /\ k - 1 \in 1 .. n /\ k \in 1 .. n /\ ~(k <= k - 1)
  BY <1>3, <1>4
<1>6. Before(xs[i], xs[k - 1])
  BY <1>2, <1>5
<1>7. Before(xs[k - 1], xs[k])
  <2>1. xs \in Seq(S) /\ Len(xs) = n
    OBVIOUS
  <2>2. k - 1 \in 1 .. Len(xs) - 1 /\ k - 1 + 1 = k
    BY <1>5, <2>1
  <2>3. Before(xs[k - 1], xs[k - 1 + 1])
    BY <2>2 DEF Ordered
  <2> QED BY <2>2, <2>3
<1>8. xs[i] \in S /\ xs[k - 1] \in S /\ xs[k] \in S
  BY <1>5
<1> QED BY <1>3, <1>6, <1>7, <1>8, BeforeIsOrder

\* There is one order in which a set can be read back.
LEMMA OneOrder ==
  ASSUME NEW S, Sortable(S), NEW n \in Nat, NEW xs \in [1 .. n -> S],
         \A i, j \in 1 .. n : xs[i] = xs[j] => i = j,
         S = {xs[i] : i \in 1 .. n}, Ordered(xs)
  PROVE  InOrder(S) = xs
<1> DEFINE ys == InOrder(S)
<1>1. IsFiniteSet(S) /\ Cardinality(S) = n
  <2>1. IsFiniteSet(1 .. n) /\ Cardinality(1 .. n) = n
    BY FS_Interval
  <2>2. xs \in Bijection(1 .. n, S)
    BY DEF Bijection, Injection, IsInjective, Surjection
  <2>3. ExistsBijection(1 .. n, S)
    BY <2>2 DEF ExistsBijection
  <2> QED BY <2>1, <2>3, FS_Bijection
<1>2. DOMAIN xs = 1 .. n
  OBVIOUS
<1>3. ys \in [1 .. n -> S] /\ S = {ys[i] : i \in DOMAIN ys} /\ Ordered(ys)
  BY <1>1, <1>2 DEF InOrder
<1> HIDE DEF ys
<1>4. \A i, j \in 1 .. n : ys[i] = ys[j] => i = j
  <2>1. ys \in Surjection(1 .. n, S)
    BY <1>3 DEF Surjection
  <2>2. IsFiniteSet(1 .. n) /\ Cardinality(1 .. n) = n
    BY FS_Interval
  <2>3. ys \in Injection(1 .. n, S)
    BY <1>1, <2>1, <2>2, FS_SurjSameCardinalityImpliesInj
  <2> QED BY <2>3 DEF Injection, IsInjective
<1> DEFINE T == {k \in 1 .. n : xs[k] # ys[k]}
<1>5. T = {}
  <2>1. SUFFICES ASSUME T # {} PROVE FALSE
    OBVIOUS
  <2>2. PICK k \in T : \A y \in T : k <= y
    <3>1. T \in SUBSET Nat
      OBVIOUS
    <3> HIDE DEF T
    <3> QED BY <2>1, <3>1, LeastNumber
  <2>3. k \in 1 .. n /\ xs[k] # ys[k] /\ \A i \in 1 .. n : i < k => xs[i] = ys[i]
    BY <2>2
  <2>4. PICK i \in 1 .. n : ys[i] = xs[k]
    <3>1. xs[k] \in S /\ DOMAIN ys = 1 .. n
      BY <1>3, <2>3
    <3>2. \A x \in S : \E i \in DOMAIN ys : x = ys[i]
      BY ONLY <1>3
    <3> QED BY ONLY <3>1, <3>2
  <2>5. PICK j \in 1 .. n : xs[j] = ys[k]
    BY <1>3, <2>3
  <2>6. k <= i
    <3>1. ASSUME i < k PROVE FALSE
      <4>1. xs[i] = xs[k]
        BY <2>3, <2>4, <3>1
      <4> QED BY <2>3, <3>1, <4>1
    <3> QED BY <2>3, <3>1
  <2>7. k <= j
    <3>1. ASSUME j < k PROVE FALSE
      <4>1. ys[j] = ys[k]
        BY <2>3, <2>5, <3>1
      <4> QED BY <1>4, <2>3, <3>1, <4>1
    <3> QED BY <2>3, <3>1
  <2>8. Before(xs[k], ys[k])
    BY <2>3, <2>5, <2>7, OrderedThroughout
  <2>9. Before(ys[k], xs[k])
    <3>1. Before(ys[k], ys[i])
      BY <1>3, <2>3, <2>6, OrderedThroughout
    <3> QED BY <2>4, <3>1
  <2>10. xs[k] \in S /\ ys[k] \in S
    BY <1>3, <2>3
  <2> QED BY <2>3, <2>8, <2>9, <2>10, BeforeTells
<1>6. ys = xs
  BY <1>3, <1>5
<1> QED BY <1>6 DEF ys

\* An ingredient as it passes: all its ids differ, and so do the keys of its aliases.
Passes(x) ==
  /\ \A j \in DOMAIN x.aliases : x.aliases[j].id # x.id
  /\ \A j, k \in DOMAIN x.aliases : j # k =>
       x.aliases[j].id # x.aliases[k].id /\ x.aliases[j].key # x.aliases[k].key
  /\ Ordered(x.aliases)

EntriesApart(xs) == \A i, j \in DOMAIN xs : i # j => IdsOf(xs[i]) \cap IdsOf(xs[j]) = {} /\ xs[i].key # xs[j].key

StoredAs(xs) ==
  [entries |-> {<<i, xs[i].id, xs[i].key>> : i \in DOMAIN xs},
   aliases |-> UNION {{<<i, j, xs[i].id, xs[i].aliases[j]>> : j \in DOMAIN xs[i].aliases}
                      : i \in DOMAIN xs}]

DictionaryInv ==
  /\ dictionary \in [phase : {"READING", "REFUSED", "ACCEPTED", "STORED"}, entries : Seq(Entries)]
  /\ dictionary.phase # "REFUSED" =>
       EntriesApart(dictionary.entries) /\ \A i \in DOMAIN dictionary.entries : Passes(dictionary.entries[i])
  /\ dictionary.phase \in {"ACCEPTED", "STORED"} => Ordered(dictionary.entries)
  /\ dictionary.phase = "STORED" => tables = StoredAs(dictionary.entries)

LEMMA EntryIsTyped ==
  ASSUME NEW x \in Entries
  PROVE  /\ x = [id |-> x.id, key |-> x.key, aliases |-> x.aliases]
         /\ x.id \in Nat /\ x.key \in Nat
         /\ \E n \in Nat : x.aliases \in [1 .. n -> Aliases]
         /\ x.aliases \in Seq(Aliases)
         /\ \A a \in Aliases : a.id \in Nat /\ a.key \in Nat
<1>1. /\ x = [id |-> x.id, key |-> x.key, aliases |-> x.aliases] /\ x.id \in Ids /\ x.key \in Keys
      /\ x.aliases \in UNION {[1 .. n -> Aliases] : n \in 0 .. MaxAliases}
  BY DEF Entries
<1>2. PICK n \in 0 .. MaxAliases : x.aliases \in [1 .. n -> Aliases]
  BY <1>1
<1>3. n \in Nat
  BY ArtifactsAssumption
<1>4. x.aliases \in Seq(Aliases)
  BY <1>2, <1>3
<1>5. \A a \in Aliases : a.id \in Nat /\ a.key \in Nat
  BY ArtifactsAssumption DEF Aliases
<1> QED BY <1>1, <1>2, <1>3, <1>4, <1>5, ArtifactsAssumption

\* As many ids as there should be: no two are one.
LEMMA IdsAreCounted ==
  ASSUME NEW x \in Entries, Cardinality(IdsOf(x)) = Len(x.aliases) + 1
  PROVE  /\ \A j \in DOMAIN x.aliases : x.aliases[j].id # x.id
         /\ \A j, k \in DOMAIN x.aliases : j # k => x.aliases[j].id # x.aliases[k].id
<1>1. PICK n \in Nat : x.aliases \in [1 .. n -> Aliases]
  BY EntryIsTyped
<1>2. DOMAIN x.aliases = 1 .. n /\ Len(x.aliases) = n
  <2>1. x.aliases \in Seq(Aliases)
    BY <1>1
  <2> QED BY <1>1, <2>1
<1> DEFINE f == [j \in 0 .. n |-> IF j = 0 THEN x.id ELSE x.aliases[j].id]
<1>3. f[0] = x.id /\ \A j \in 1 .. n : j \in 0 .. n /\ f[j] = x.aliases[j].id
  OBVIOUS
<1>4. IdsOf(x) = {x.id} \cup {x.aliases[j].id : j \in 1 .. n}
  BY <1>2 DEF IdsOf
<1>5. f \in Surjection(0 .. n, IdsOf(x))
  <2>1. \A j \in 0 .. n : f[j] \in IdsOf(x)
    BY <1>4
  <2>2. f \in [0 .. n -> IdsOf(x)]
    BY <2>1
  <2> HIDE DEF f
  <2>3. \A y \in IdsOf(x) : \E j \in 0 .. n : f[j] = y
    <3> TAKE y \in IdsOf(x)
    <3>1. CASE y = x.id
      BY <1>3, <3>1
    <3>2. CASE y \in {x.aliases[j].id : j \in 1 .. n}
      BY <1>3, <3>2
    <3> QED BY <1>4, <3>1, <3>2
  <2> QED BY <2>2, <2>3 DEF Surjection
<1>6. IsFiniteSet(0 .. n) /\ Cardinality(0 .. n) = n + 1
  BY FS_Interval
<1> HIDE DEF f
<1>7. f \in Injection(0 .. n, IdsOf(x))
  BY <1>2, <1>5, <1>6, FS_Surjection
<1>8. \A j, k \in 0 .. n : f[j] = f[k] => j = k
  BY <1>7 DEF Injection, IsInjective
<1>9. \A j \in 1 .. n : x.aliases[j].id # x.id
  BY <1>3, <1>8
<1>10. \A j, k \in 1 .. n : j # k => x.aliases[j].id # x.aliases[k].id
  BY <1>3, <1>8
<1> QED BY <1>2, <1>9, <1>10

LEMMA DictionaryStarts == ArtifactsInit => DictionaryInv
BY DEF ArtifactsInit, DictionaryInv, EntriesApart

LEMMA DictionaryStepKeeps ==
  ASSUME DictionaryInv, DictionaryNext PROVE DictionaryInv'
<1> DEFINE xs == dictionary.entries
<1>1. ASSUME NEW x \in Entries, ReadIngredient(x) PROVE DictionaryInv'
  <2>1. /\ dictionary.phase = "READING" /\ xs \in Seq(Entries)
        /\ EntriesApart(xs) /\ \A i \in DOMAIN xs : Passes(xs[i])
        /\ dictionary' = [phase |-> IF IngredientFails(x, xs) THEN "REFUSED" ELSE "READING",
                          entries |-> Append(xs, x)]
    BY <1>1 DEF ReadIngredient, DictionaryInv
  <2>2. CASE IngredientFails(x, xs)
    BY <2>1, <2>2 DEF DictionaryInv
  <2>3. CASE ~IngredientFails(x, xs)
    <3>1. /\ IdsOf(x) \cap IdsIn(xs) = {} /\ Cardinality(IdsOf(x)) = Len(x.aliases) + 1
          /\ \A i \in DOMAIN xs : xs[i].key # x.key
          /\ \A j, k \in DOMAIN x.aliases : j # k => x.aliases[j].key # x.aliases[k].key
          /\ Ordered(x.aliases)
      BY <2>3 DEF IngredientFails
    <3>2. Passes(x)
      BY <3>1, IdsAreCounted DEF Passes
    <3>3. \A i \in DOMAIN xs : IdsOf(x) \cap IdsOf(xs[i]) = {}
      BY <3>1 DEF IdsIn
    <3> DEFINE ys == Append(xs, x)
               n == Len(xs)
    <3>4. /\ ys \in Seq(Entries) /\ DOMAIN ys = 1 .. n + 1 /\ DOMAIN xs = 1 .. n /\ n \in Nat
          /\ ys[n + 1] = x /\ \A i \in 1 .. n : ys[i] = xs[i]
      BY <2>1
    <3> HIDE DEF xs, ys, n
    <3>5. \A i \in 1 .. n + 1 : i \in 1 .. n \/ i = n + 1
      BY <3>4
    <3>6. EntriesApart(ys)
      <4>1. \A i, j \in 1 .. n : i # j =>
              IdsOf(ys[i]) \cap IdsOf(ys[j]) = {} /\ ys[i].key # ys[j].key
        BY <2>1, <3>4 DEF EntriesApart
      <4>2. \A i \in 1 .. n : /\ IdsOf(ys[i]) \cap IdsOf(ys[n + 1]) = {} /\ IdsOf(ys[n + 1]) \cap IdsOf(ys[i]) = {}
                              /\ ys[i].key # ys[n + 1].key
        BY <3>1, <3>3, <3>4
      <4> QED BY <3>4, <3>5, <4>1, <4>2 DEF EntriesApart
    <3>7. \A i \in DOMAIN ys : Passes(ys[i])
      BY <2>1, <3>2, <3>4, <3>5
    <3>8. dictionary' = [phase |-> "READING", entries |-> ys]
      BY <2>1, <2>3 DEF xs, ys
    <3> QED BY <3>4, <3>6, <3>7, <3>8 DEF DictionaryInv
  <2> QED BY <2>2, <2>3
<1>2. ASSUME DictionaryRead PROVE DictionaryInv'
  <2>1. /\ dictionary.phase = "READING"
        /\ dictionary' = [dictionary EXCEPT !.phase = IF xs # <<>> /\ Ordered(xs) THEN "ACCEPTED" ELSE "REFUSED"]
    BY <1>2 DEF DictionaryRead
  <2>2. dictionary'.entries = xs /\ dictionary'.phase \in {"ACCEPTED", "REFUSED"}
        /\ (dictionary'.phase = "ACCEPTED" => Ordered(xs))
    BY <2>1 DEF DictionaryInv
  <2>3. dictionary' \in [phase : {"READING", "REFUSED", "ACCEPTED", "STORED"}, entries : Seq(Entries)]
    BY <2>1 DEF DictionaryInv
  <2> QED BY <2>1, <2>2, <2>3 DEF DictionaryInv
<1>3. ASSUME InsertSnapshot PROVE DictionaryInv'
  <2>1. /\ dictionary.phase = "ACCEPTED" /\ dictionary' = [dictionary EXCEPT !.phase = "STORED"]
        /\ tables' = StoredAs(xs)
    BY <1>3 DEF InsertSnapshot, StoredAs
  <2>2. dictionary'.entries = xs /\ dictionary'.phase = "STORED"
    BY <2>1 DEF DictionaryInv
  <2>3. dictionary' \in [phase : {"READING", "REFUSED", "ACCEPTED", "STORED"}, entries : Seq(Entries)]
    BY <2>1 DEF DictionaryInv
  <2> QED BY <2>1, <2>2, <2>3 DEF DictionaryInv
<1> QED BY <1>1, <1>2, <1>3 DEF DictionaryNext

LEMMA DictionaryInvSuffices ==
  ASSUME DictionaryInv PROVE DictionaryIsPublishable
<1> DEFINE xs == dictionary.entries
<1> SUFFICES ASSUME dictionary.phase = "STORED"
             PROVE  /\ \A e, f \in tables.entries : e # f => e[2] # f[2] /\ e[3] # f[3]
                    /\ \A a, b \in tables.aliases : a # b =>
                         a[4].id # b[4].id /\ <<a[3], a[4].key>> # <<b[3], b[4].key>>
                    /\ ReadBack = xs
  BY DEF DictionaryIsPublishable
<1>1. /\ xs \in Seq(Entries) /\ EntriesApart(xs) /\ Ordered(xs) /\ \A i \in DOMAIN xs : Passes(xs[i])
      /\ tables.entries = {<<i, xs[i].id, xs[i].key>> : i \in DOMAIN xs}
      /\ tables.aliases = UNION {{<<i, j, xs[i].id, xs[i].aliases[j]>> : j \in DOMAIN xs[i].aliases}
                                 : i \in DOMAIN xs}
  BY DEF DictionaryInv, StoredAs
<1> HIDE DEF xs
<1>2. \A i \in DOMAIN xs : xs[i] \in Entries
  BY <1>1
<1>3. \A i \in DOMAIN xs : xs[i].id \in IdsOf(xs[i]) /\ \A j \in DOMAIN xs[i].aliases : xs[i].aliases[j].id \in IdsOf(xs[i])
  BY DEF IdsOf
<1>4. \A i, j \in DOMAIN xs : i # j => xs[i].id # xs[j].id /\ xs[i].key # xs[j].key
  BY <1>1, <1>3 DEF EntriesApart
<1>5. \A e, f \in tables.entries : e # f => e[2] # f[2] /\ e[3] # f[3]
  BY <1>1, <1>4
<1>6. \A a \in tables.aliases : \E i \in DOMAIN xs : \E j \in DOMAIN xs[i].aliases :
        a = <<i, j, xs[i].id, xs[i].aliases[j]>>
  BY <1>1
<1>7. ASSUME NEW a \in tables.aliases, NEW b \in tables.aliases, a # b
      PROVE  a[4].id # b[4].id /\ <<a[3], a[4].key>> # <<b[3], b[4].key>>
  <2>1. PICK i \in DOMAIN xs : \E j \in DOMAIN xs[i].aliases : a = <<i, j, xs[i].id, xs[i].aliases[j]>>
    BY <1>6
  <2>2. PICK j \in DOMAIN xs[i].aliases : a = <<i, j, xs[i].id, xs[i].aliases[j]>>
    BY <2>1
  <2>3. PICK k \in DOMAIN xs : \E l \in DOMAIN xs[k].aliases : b = <<k, l, xs[k].id, xs[k].aliases[l]>>
    BY <1>6
  <2>4. PICK l \in DOMAIN xs[k].aliases : b = <<k, l, xs[k].id, xs[k].aliases[l]>>
    BY <2>3
  <2>5. a[3] = xs[i].id /\ a[4] = xs[i].aliases[j] /\ b[3] = xs[k].id /\ b[4] = xs[k].aliases[l]
    BY <2>2, <2>4
  <2>6. CASE i = k
    <3>1. j # l
      BY <1>7, <2>2, <2>4, <2>6
    <3>2. xs[i].aliases[j].id # xs[i].aliases[l].id /\ xs[i].aliases[j].key # xs[i].aliases[l].key
      BY <1>1, <2>6, <3>1 DEF Passes
    <3> QED BY <2>5, <2>6, <3>2
  <2>7. CASE i # k
    <3>1. xs[i].aliases[j].id # xs[k].aliases[l].id
      BY <1>1, <1>3, <2>7 DEF EntriesApart
    <3>2. xs[i].id # xs[k].id
      BY <1>4, <2>7
    <3> QED BY <2>5, <3>1, <3>2
  <2> QED BY <2>6, <2>7
<1>8. ASSUME NEW i \in DOMAIN xs PROVE InOrder(AliasesOf(xs[i].id)) = xs[i].aliases
  <2> DEFINE as == xs[i].aliases
             S == {as[j] : j \in DOMAIN as}
  <2>1. PICK n \in Nat : as \in [1 .. n -> Aliases]
    BY <1>2, EntryIsTyped
  <2>2. Passes(xs[i]) /\ \A a \in Aliases : a.id \in Nat /\ a.key \in Nat
    BY <1>1, <1>2, EntryIsTyped
  <2>3. AliasesOf(xs[i].id) = S
    <3>1. ASSUME NEW a \in tables.aliases, a[3] = xs[i].id PROVE a[4] \in S
      <4>1. PICK k \in DOMAIN xs : \E j \in DOMAIN xs[k].aliases : a = <<k, j, xs[k].id, xs[k].aliases[j]>>
        BY <1>6
      <4>2. k = i
        BY <1>4, <3>1, <4>1
      <4> QED BY <4>1, <4>2
    <3>2. ASSUME NEW j \in DOMAIN as PROVE \E a \in tables.aliases : a[3] = xs[i].id /\ a[4] = as[j]
      <4>1. <<i, j, xs[i].id, as[j]>> \in tables.aliases
        BY <1>1
      <4> QED BY <4>1
    <3> QED BY <3>1, <3>2 DEF AliasesOf
  <2>4. \A j, k \in DOMAIN as : j # k => as[j].id # as[k].id
    BY <2>2 DEF Passes
  <2>5. Ordered(as)
    BY <2>2 DEF Passes
  <2> HIDE DEF as
  <2>6. DOMAIN as = 1 .. n
    BY <2>1
  <2>7. Sortable(S)
    BY <2>1, <2>2, <2>4, <2>6 DEF Sortable
  <2>8. as \in [1 .. n -> S] /\ S = {as[j] : j \in 1 .. n}
    BY <2>1, <2>6
  <2>9. \A j, k \in 1 .. n : as[j] = as[k] => j = k
    BY <2>4, <2>6
  <2> HIDE DEF S
  <2>10. InOrder(S) = as
    BY <2>5, <2>7, <2>8, <2>9, OneOrder
  <2> QED BY <2>3, <2>10 DEF as
<1>9. ReadBack = xs
  <2> DEFINE row(e) == [id |-> e[2], key |-> e[3], aliases |-> InOrder(AliasesOf(e[2]))]
             S == {xs[i] : i \in DOMAIN xs}
             n == Len(xs)
  <2>1. ASSUME NEW i \in DOMAIN xs PROVE row(<<i, xs[i].id, xs[i].key>>) = xs[i]
    BY <1>2, <1>8, EntryIsTyped
  <2>2. {row(e) : e \in tables.entries} = S
    <3>1. \A e \in tables.entries : \E i \in DOMAIN xs : e = <<i, xs[i].id, xs[i].key>>
      BY <1>1
    <3>2. \A i \in DOMAIN xs : <<i, xs[i].id, xs[i].key>> \in tables.entries
      BY <1>1
    <3> HIDE DEF row
    <3>3. \A e \in tables.entries : row(e) \in S
      BY <2>1, <3>1
    <3>4. ASSUME NEW i \in DOMAIN xs PROVE \E e \in tables.entries : row(e) = xs[i]
      BY <2>1, <3>2
    <3> QED BY <3>3, <3>4
  <2>3. n \in Nat /\ DOMAIN xs = 1 .. n /\ xs \in [1 .. n -> S]
    BY <1>1
  <2>4. Sortable(S)
    BY <1>2, <1>4, EntryIsTyped DEF Sortable
  <2>5. \A i, j \in 1 .. n : xs[i] = xs[j] => i = j
    BY <1>4, <2>3
  <2>6. S = {xs[i] : i \in 1 .. n}
    BY <2>3
  <2> HIDE DEF S, n
  <2>7. InOrder(S) = xs
    BY <1>1, <2>3, <2>4, <2>5, <2>6, OneOrder
  <2> QED BY <2>2, <2>7 DEF ReadBack
<1> QED BY <1>5, <1>7, <1>9

-----------------------------------------------------------------------------
\* inci-dictionary/service.ts:139, catalog-import/service.ts:141: whatever codes and rows a
\* manifest has and whatever ingredients a dictionary, it is stored as it was checked.
THEOREM ArtifactsAreAlwaysPublishable == ArtifactsSpec => []ArtifactsArePublishable
<1> DEFINE Inv == ManifestInv /\ DictionaryInv
<1>1. ArtifactsInit => Inv
  BY ManifestStarts, DictionaryStarts
<1>2. ASSUME Inv, [ManifestNext \/ DictionaryNext]_artifactVars PROVE Inv'
  <2>1. CASE ManifestNext
    <3>1. UNCHANGED dictionaryVars
      BY <2>1 DEF ManifestNext, AddRow, PrepareCatalogImport, PreviewImport, InsertBatch, PublishCandidate
    <3>2. DictionaryInv'
      BY <1>2, <3>1 DEF DictionaryInv, dictionaryVars
    <3> QED BY <1>2, <2>1, <3>2, ManifestStepKeeps
  <2>2. ASSUME UNCHANGED manifestVars PROVE ManifestInv'
    BY <1>2, <2>2 DEF manifestVars, ManifestInv, PublishesAsReported, Undecided
  <2>3. CASE DictionaryNext
    <3>1. UNCHANGED manifestVars
      BY <2>3 DEF DictionaryNext, ReadIngredient, DictionaryRead, InsertSnapshot
    <3> QED BY <1>2, <2>2, <2>3, <3>1, DictionaryStepKeeps
  <2>4. CASE UNCHANGED artifactVars
    <3>1. UNCHANGED manifestVars /\ UNCHANGED dictionaryVars
      BY <2>4 DEF artifactVars, manifestVars, dictionaryVars
    <3>2. DictionaryInv'
      BY <1>2, <3>1 DEF DictionaryInv, dictionaryVars
    <3> QED BY <2>2, <3>1, <3>2
  <2> QED BY <1>2, <2>1, <2>3, <2>4
<1>3. Inv => ArtifactsArePublishable
  BY ManifestInvSuffices, DictionaryInvSuffices DEF ArtifactsArePublishable
<1> QED BY <1>1, <1>2, <1>3, PTL DEF ArtifactsSpec
=============================================================================
