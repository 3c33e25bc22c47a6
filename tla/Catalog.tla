------------------------------- MODULE Catalog -------------------------------
(***************************************************************************)
(* The public catalog and the three ways into it: a curator's edits,       *)
(* versioned imports that can be rolled back, and promotion of what        *)
(* accounts say about a barcode they scanned.                              *)
(*                                                                         *)
(* Every writer of a barcode holds the GTIN's advisory lock, so that its   *)
(* transaction is one step.  Two transactions are not: createVariant holds *)
(* its family's row lock until it commits, and a rollback looks for other  *)
(* variants of a family in the statement that waits for that lock, in the  *)
(* statement's own snapshot (READ COMMITTED).                              *)
(***************************************************************************)
EXTENDS Naturals, FiniteSets, Sequences

CONSTANTS
  Gtins, Accounts,
  Scanned,       \* bound: the GTINs that accounts scan
  Identities,    \* what an account can say a barcode is: a fingerprint each
  Batches,       \* import keys
  Manifests,     \* contents offered under a key
  RowsOf,        \* the candidates of a manifest: GTINs, without duplicates
  Licensed,      \* the manifests whose rights are ALLOWED
  MaxRows,       \* bound: families, and variants, ever inserted
  None

ASSUME CatalogAssumption ==
  /\ RowsOf \in [Manifests -> SUBSET Gtins] /\ Licensed \subseteq Manifests
  /\ Scanned \subseteq Gtins /\ IsFiniteSet(Gtins) /\ MaxRows \in Nat

VARIABLES
  families,    \* wtm_product_families in the order of insertion
  variants,    \* wtm_product_variants likewise
  creating,    \* families whose row a createVariant holds
  barcode,     \* wtm_product_barcodes: the variant of a GTIN, or 0
  gone,        \* erased accounts
  observed,    \* wtm_product_observations: the account that sees it, and the GTIN
  said,        \* confirmations: what each account says of a GTIN
  cases,       \* wtm_catalog_promotion_cases by GTIN
  batches,     \* wtm_catalog_import_batches with their PUBLISHED items
  rolling,     \* the rollback in progress: its batch and the GTINs found clean
  disputed,    \* ghost: GTINs of which two accounts have said different things
  withdrawn    \* ghost: variants a curator has archived

vars == <<families, variants, creating, barcode, gone, observed, said, cases,
          batches, rolling, disputed, withdrawn>>
editing == <<families, variants, creating>>
promoting == <<gone, observed, said, cases, disputed>>
importing == <<batches, rolling>>

Statuses == {"DRAFT", "PUBLISHED", "ARCHIVED"}
Rows == 1 .. MaxRows
FamilyRows == [status : Statuses]
VariantRows == [family : Rows, status : Statuses]
CaseRows == [status : {"NONE", "WAITING_FOR_MATCH", "NEEDS_MODERATION", "PUBLISHED"},
             selected : Identities \cup {None}, variant : 0 .. MaxRows,
             resolution : {"NONE", "AUTO_QUORUM", "ADMIN"}]
BatchRows == [status : {"NONE", "PUBLISHED", "QUARANTINED", "ROLLED_BACK"},
              items : [Gtins -> 0 .. MaxRows]]
NoCase == [status |-> "NONE", selected |-> None, variant |-> 0, resolution |-> "NONE"]
NoBatch == [status |-> "NONE", items |-> [g \in Gtins |-> 0]]
NotRolling == [batch |-> None, clean |-> {}]

TypeOK ==
  /\ families \in Seq(FamilyRows) /\ Len(families) <= MaxRows
  /\ variants \in Seq(VariantRows) /\ Len(variants) <= MaxRows
  /\ creating \subseteq DOMAIN families
  /\ barcode \in [Gtins -> 0 .. Len(variants)]
  /\ gone \subseteq Accounts /\ observed \subseteq (Accounts \ gone) \X Gtins
  /\ said \in [Gtins -> [Accounts -> Identities \cup {None}]]
  /\ cases \in [Gtins -> CaseRows]
  /\ batches \in [Batches -> BatchRows]
  /\ rolling \in [batch : Batches \cup {None}, clean : SUBSET Gtins]
  /\ disputed \subseteq Gtins /\ withdrawn \subseteq DOMAIN variants

Init ==
  /\ families = <<>> /\ variants = <<>> /\ creating = {}
  /\ barcode = [g \in Gtins |-> 0]
  /\ gone = {} /\ observed = {}
  /\ said = [g \in Gtins |-> [a \in Accounts |-> None]]
  /\ cases = [g \in Gtins |-> NoCase]
  /\ batches = [b \in Batches |-> NoBatch] /\ rolling = NotRolling
  /\ disputed = {} /\ withdrawn = {}

Free(g) == barcode[g] = 0
Siblings(f) == {v \in DOMAIN variants : variants[v].family = f}
Active(f) == {v \in Siblings(f) : variants[v].status # "ARCHIVED"}
ItemsOf(b) == {g \in Gtins : batches[b].items[g] # 0}

\* Rights: rows whose source is not ALLOWED stay DRAFT, as any row may.

\* The advisory lock of a GTIN: a rollback holds those of its batch.
Unlocked(g) == rolling.batch # None => g \notin ItemsOf(rolling.batch)

-----------------------------------------------------------------------------
(* catalog-repository.ts: a curator's edits.                               *)

CreateFamily ==
  /\ Len(families) < MaxRows
  /\ families' = Append(families, [status |-> "DRAFT"])
  /\ UNCHANGED <<variants, creating, barcode, promoting, importing, withdrawn>>

CreateVariantBegin(f) ==
  /\ f \notin creating /\ families[f].status # "ARCHIVED"
  /\ creating' = creating \cup {f}
  /\ UNCHANGED <<families, variants, barcode, promoting, importing, withdrawn>>

CreateVariantCommit(f) ==
  /\ f \in creating /\ Len(variants) < MaxRows
  /\ variants' = Append(variants, [family |-> f, status |-> "DRAFT"])
  /\ creating' = creating \ {f}
  /\ UNCHANGED <<families, barcode, promoting, importing, withdrawn>>

\* Mutant: the latest attachment wins.
AttachBarcode_Moves(v, g) ==
  /\ variants[v].status # "ARCHIVED" /\ Unlocked(g)
  /\ barcode' = [barcode EXCEPT ![g] = v]
  /\ UNCHANGED <<editing, promoting, importing, withdrawn>>

\* ATTACHED; another variant's GTIN is a conflict and changes nothing.
AttachBarcode(v, g) ==
  /\ variants[v].status # "ARCHIVED" /\ Unlocked(g) /\ Free(g)
  /\ barcode' = [barcode EXCEPT ![g] = v]
  /\ UNCHANGED <<editing, promoting, importing, withdrawn>>

canTransitionCatalogStatus(current, target) ==
  \/ current = "DRAFT" /\ target \in {"PUBLISHED", "ARCHIVED"}
  \/ current = "PUBLISHED" /\ target = "ARCHIVED"

TransitionFamilyStatus(f, target) ==
  /\ f \notin creating
  /\ canTransitionCatalogStatus(families[f].status, target)
  /\ target = "ARCHIVED" => Active(f) = {}
  /\ families' = [families EXCEPT ![f].status = target]
  /\ UNCHANGED <<variants, creating, barcode, promoting, importing, withdrawn>>

\* Locks the variant only: the family is read as the snapshot shows it.
TransitionVariantStatus(v, target) ==
  /\ canTransitionCatalogStatus(variants[v].status, target)
  /\ target = "PUBLISHED" => families[variants[v].family].status = "PUBLISHED"
  /\ variants' = [variants EXCEPT ![v].status = target]
  /\ withdrawn' = IF target = "ARCHIVED" THEN withdrawn \cup {v} ELSE withdrawn
  /\ UNCHANGED <<families, creating, barcode, promoting, importing>>

\* findPublishedVariantByGtin
Shown(g) ==
  /\ ~Free(g)
  /\ LET v == variants[barcode[g]] IN
       v.status = "PUBLISHED" /\ families[v.family].status = "PUBLISHED"

-----------------------------------------------------------------------------
(* A promotion and an import publish alike: a family, a variant of it and  *)
(* its barcode, for GTINs without a barcode.  NewRows numbers them.        *)

NewRows(gs) == CHOOSE n \in [gs -> 1 .. Cardinality(gs)] :
                 \A g, h \in gs : n[g] = n[h] => g = h
NewVariant(gs, g) == Len(variants) + NewRows(gs)[g]

InsertPublished(gs) ==
  LET n == Cardinality(gs) IN
  /\ Len(families) + n <= MaxRows /\ Len(variants) + n <= MaxRows
  /\ families' = families \o [i \in 1 .. n |-> [status |-> "PUBLISHED"]]
  /\ variants' = variants \o [i \in 1 .. n |->
       [family |-> Len(families) + i, status |-> "PUBLISHED"]]
  /\ barcode' = [g \in Gtins |-> IF g \in gs THEN NewVariant(gs, g) ELSE barcode[g]]
  /\ UNCHANGED creating

-----------------------------------------------------------------------------
(* product-observation-repository.ts                                       *)

\* createOrReuse by an account, or by a guest whom it claims (Accounts.tla).
CreateObservation(a, g) ==
  /\ a \notin gone /\ g \in Scanned
  /\ observed' = observed \cup {<<a, g>>}
  /\ UNCHANGED <<editing, barcode, gone, said, cases, disputed, importing, withdrawn>>

\* Erasure of an account deletes its observations; its confirmations go with them.
EraseAccount(a) ==
  /\ a \notin gone
  /\ gone' = gone \cup {a}
  /\ observed' = {w \in observed : w[1] # a}
  /\ said' = [g \in Gtins |-> [said[g] EXCEPT ![a] = None]]
  /\ UNCHANGED <<editing, barcode, cases, disputed, importing, withdrawn>>

Agreeing(words, i) == {a \in Accounts : words[a] = i}
Fingerprints(words) == {words[a] : a \in Accounts} \ {None}
\* Mutant: only the words that are there now are compared.
Contested_Now(case, words) == Cardinality(Fingerprints(words)) > 1

Contested(case, words) == case.status = "NEEDS_MODERATION" \/ Cardinality(Fingerprints(words)) > 1
Quorum(words, i) == Cardinality(Agreeing(words, i)) >= 2

Moderation(g) == [cases EXCEPT ![g].status = "NEEDS_MODERATION"]

\* publishPromotion: the first to publish a GTIN has it, the next finds a conflict.
PublishPromotion(g, i, resolution) ==
  IF Free(g)
  THEN /\ InsertPublished({g})
       /\ cases' = [cases EXCEPT ![g] = [status |-> "PUBLISHED", selected |-> i,
                                         variant |-> Len(variants) + 1,
                                         resolution |-> resolution]]
  ELSE cases' = Moderation(g) /\ UNCHANGED <<editing, barcode>>

\* submitCatalogConfirmation, a first one; the account's second changes nothing.
SubmitCatalogConfirmation(a, g, i) ==
  LET words == [said[g] EXCEPT ![a] = i]
      case == [cases[g] EXCEPT !.status = IF @ = "NONE" THEN "WAITING_FOR_MATCH" ELSE @]
  IN
  /\ <<a, g>> \in observed /\ Unlocked(g)
  /\ said[g][a] = None /\ case.status # "PUBLISHED"
  /\ said' = [said EXCEPT ![g] = words]
  /\ \/ /\ Contested(case, words)
        /\ cases' = Moderation(g)
        /\ UNCHANGED <<editing, barcode>>
     \/ /\ ~Contested(case, words) /\ Quorum(words, i)
        /\ PublishPromotion(g, i, "AUTO_QUORUM")
     \/ /\ ~Contested(case, words) /\ ~Quorum(words, i)
        /\ cases' = [cases EXCEPT ![g] = case]
        /\ UNCHANGED <<editing, barcode>>
  /\ disputed' = IF Cardinality(Fingerprints(words)) > 1 THEN disputed \cup {g} ELSE disputed
  /\ UNCHANGED <<gone, observed, importing, withdrawn>>

\* moderateCatalogPromotion: an operator selects what one account said.
ModerateCatalogPromotion(a, g) ==
  /\ Unlocked(g)
  /\ cases[g].status \in {"WAITING_FOR_MATCH", "NEEDS_MODERATION"}
  /\ said[g][a] # None
  /\ PublishPromotion(g, said[g][a], "ADMIN")
  /\ UNCHANGED <<gone, observed, said, disputed, importing, withdrawn>>

-----------------------------------------------------------------------------
(* catalog-import-repository.ts                                            *)

\* Of a manifest: what is published now, the rest is quarantined.
Publishable(m) == IF m \in Licensed THEN {g \in RowsOf[m] : Free(g)} ELSE {}

\* publish under a new key.  A key that exists is replayed or, with another
\* manifest, refused: only an event is written.
PublishImport(b, m) ==
  LET gs == Publishable(m) IN
  /\ rolling.batch # b /\ batches[b].status = "NONE"
  /\ \A g \in RowsOf[m] : Unlocked(g)
  /\ InsertPublished(gs)
  /\ batches' = [batches EXCEPT ![b] =
       [status |-> IF gs = {} THEN "QUARANTINED" ELSE "PUBLISHED",
        items |-> [g \in Gtins |-> IF g \in gs THEN NewVariant(gs, g) ELSE 0]]]
  /\ UNCHANGED <<promoting, rolling, withdrawn>>

\* rollback: the batch and its GTINs are locked, ...
RollbackBegin(b) ==
  /\ rolling = NotRolling /\ batches[b].status \in {"PUBLISHED", "QUARANTINED"}
  /\ rolling' = [batch |-> b, clean |-> {}]
  /\ UNCHANGED <<editing, barcode, promoting, batches, withdrawn>>

\* ... hasRollbackDrift takes its snapshot, item by item, ...
Alone(v) == Active(variants[v].family) \subseteq {v}
RollbackLook(g) ==
  /\ rolling.batch # None /\ g \in ItemsOf(rolling.batch) \ rolling.clean
  /\ LET v == batches[rolling.batch].items[g] IN
       rolling' = IF barcode[g] = v /\ Alone(v)
                  THEN [rolling EXCEPT !.clean = @ \cup {g}]
                  ELSE NotRolling    \* ROLLBACK_CONFLICT
  /\ UNCHANGED <<editing, barcode, promoting, batches, withdrawn>>

\* Mutant: the rows are not looked at.
Unchanged_Always(v) == TRUE

\* ... waits for the rows, whose own status it reads afresh, and archives them.
Unchanged(v) == variants[v].status = "PUBLISHED" /\ families[variants[v].family].status = "PUBLISHED"
Archived(row) == [row EXCEPT !.status = "ARCHIVED"]
RollbackCommit ==
  LET b == rolling.batch
      vs == {batches[b].items[g] : g \in ItemsOf(b)}
      fs == {variants[v].family : v \in vs}
  IN
  /\ b # None /\ rolling.clean = ItemsOf(b) /\ fs \cap creating = {}
  /\ rolling' = NotRolling
  /\ IF \A v \in vs : Unchanged(v)
     THEN /\ variants' = [v \in DOMAIN variants |->
                            IF v \in vs THEN Archived(variants[v]) ELSE variants[v]]
          /\ families' = [f \in DOMAIN families |->
                            IF f \in fs THEN Archived(families[f]) ELSE families[f]]
          /\ barcode' = [g \in Gtins |-> IF g \in ItemsOf(b) THEN 0 ELSE barcode[g]]
          /\ batches' = [batches EXCEPT ![b].status = "ROLLED_BACK"]
     ELSE UNCHANGED <<variants, families, barcode, batches>>
  /\ UNCHANGED <<creating, promoting, withdrawn>>

Next ==
  \/ CreateFamily \/ RollbackCommit
  \/ \E f \in DOMAIN families :
       \/ CreateVariantBegin(f) \/ CreateVariantCommit(f)
       \/ \E s \in Statuses : TransitionFamilyStatus(f, s)
  \/ \E v \in DOMAIN variants :
       \/ \E g \in Gtins : AttachBarcode(v, g)
       \/ \E s \in Statuses : TransitionVariantStatus(v, s)
  \/ \E g \in Gtins :
       \/ \E a \in Accounts, i \in Identities : SubmitCatalogConfirmation(a, g, i)
       \/ \E a \in Accounts : CreateObservation(a, g) \/ ModerateCatalogPromotion(a, g)
       \/ RollbackLook(g)
  \/ \E a \in Accounts : EraseAccount(a)
  \/ \E b \in Batches : RollbackBegin(b) \/ \E m \in Manifests : PublishImport(b, m)

Spec == Init /\ [][Next]_vars

-----------------------------------------------------------------------------
\* product-observation-repository.ts:514 and catalog-import-repository.ts:317 take the
\* same lock: a promotion and an import that publish one barcode never displace each
\* other, a rollback never frees the barcode of a promotion, and what two accounts or a
\* moderator published under a barcode is shown under it until a curator withdraws it.
PublishersKeepTheirCode ==
  /\ \A g \in Gtins : cases[g].status = "PUBLISHED" =>
       /\ barcode[g] = cases[g].variant
       /\ Shown(g) \/ cases[g].variant \in withdrawn
  /\ \A b \in Batches, g \in Gtins :
       batches[b].status = "PUBLISHED" /\ g \in ItemsOf(b) => barcode[g] = batches[b].items[g]

\* "no-winner promotion state; conflicts require explicit moderation"
\* (0008_catalog_promotion.sql:116): once two accounts have disagreed about a barcode
\* only a moderator publishes it, also when the dissenter's account is erased.
DisputesNeedModerator == \A g \in disputed : cases[g].resolution # "AUTO_QUORUM"

\* catalog-import-repository.ts:747: an import is rolled back whole, and not when a
\* curator has meanwhile withdrawn one of its products.
RollbackIsWhole ==
  \A b \in Batches : batches[b].status = "ROLLED_BACK" =>
    \A g \in ItemsOf(b) : LET v == batches[b].items[g] IN
      /\ variants[v].status = "ARCHIVED" /\ v \notin withdrawn
      /\ barcode[g] # v

\* catalog.integration.test.ts:280 (ACTIVE_VARIANTS_EXIST): no family is archived over a
\* variant that is not.
ArchivedFamilyIsEmpty ==
  \A f \in DOMAIN families : families[f].status = "ARCHIVED" => Active(f) = {}
=============================================================================
