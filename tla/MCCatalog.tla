------------------------------ MODULE MCCatalog ------------------------------
(***************************************************************************)
(* Parts of the catalog side by side: one of them moves.                   *)
(*   catalog     curators, confirmations, an import and its rollback       *)
(*   facts       formulas and claims of variants, and a lookup of them     *)
(*   manifest    a file of up to two rows, published on a database that  *)
(*               may have one of its barcodes                              *)
(*   dictionary  a file of up to two ingredients                           *)
(***************************************************************************)
EXTENDS Catalog, ProductFacts, Artifacts, TLC

CONSTANTS g1, g2, m1, m2
MCRowsOf == [m \in Manifests |-> IF m = m1 THEN {g1, g2} ELSE {g1}]

\* One number as UPC-A and as EAN-13, a short one, a wrong check digit, a letter.
Upc == <<0, 3, 6, 0, 0, 0, 2, 9, 1, 4, 5, 2>>
MCCodes == {Upc, <<0>> \o Upc, <<9, 6, 3, 8, 5, 0, 7, 4>>, [Upc EXCEPT ![12] = 3],
            [Upc EXCEPT ![7] = 10]}

Symmetric == Permutations(Accounts) \cup Permutations(Identities)

VARIABLE part
CatalogInit ==
  /\ Init /\ FactsInit /\ ArtifactsInit
  /\ part \in {"catalog", "facts", "manifest", "dictionary"}
  /\ part # "manifest" => taken = {} /\ manifest.licensed
CatalogNext ==
  /\ \/ part = "catalog" /\ Next /\ UNCHANGED <<factVars, artifactVars>>
     \/ part = "facts" /\ FactsNext /\ UNCHANGED <<vars, artifactVars>>
     \/ part = "manifest" /\ ManifestNext /\ UNCHANGED <<vars, factVars>>
     \/ part = "dictionary" /\ DictionaryNext /\ UNCHANGED <<vars, factVars>>
  /\ UNCHANGED part
CatalogSpec == CatalogInit /\ [][CatalogNext]_<<vars, factVars, artifactVars, part>>
=============================================================================
