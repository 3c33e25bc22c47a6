---------------------------- MODULE InciWorkspace ----------------------------
(***************************************************************************)
(* The ingredients of one observed product: its original text, recognised  *)
(* from a photo or typed in, corrections of it, and private snapshots that *)
(* cite a revision.                                                        *)
(*                                                                         *)
(* createRevision and createSnapshot lock the observation: each is a step. *)
(* What they are given was read before: the photo before a recognition     *)
(* that takes its time, the revision a correction is based on when the     *)
(* user opened the workspace.                                              *)
(***************************************************************************)
EXTENDS Naturals, Sequences, FiniteSets

CONSTANTS
  Photos,         \* INGREDIENTS photos of the observation's collection
  Texts,          \* texts that differ
  Contents,       \* what else a snapshot says
  Tasks,          \* requests under way
  MaxRevisions,   \* MAX_PRODUCT_OBSERVATION_INCI_REVISIONS
  MaxSnapshots,   \* MAX_PRIVATE_PRODUCT_SNAPSHOTS
  Nobody          \* no photo

ASSUME InciAssumption ==
  /\ MaxRevisions \in Nat \ {0} /\ MaxSnapshots \in Nat
  /\ Texts # {} /\ Nobody \notin Photos

VARIABLES
  owned,       \* the observation exists and its collection is not deleted
  photos,      \* photos not deleted
  revisions,   \* wtm_product_observation_inci_revisions by number
  snapshots,   \* wtm_private_product_snapshots by number
  task         \* each request: what it does, with what, and what it was told

inciVars == <<owned, photos, revisions, snapshots, task>>

Kinds == {"OCR", "USER_TRANSCRIPTION", "USER_CORRECTION"}
Inputs == [kind : Kinds, text : Texts, base : 0 .. MaxRevisions, photo : Photos \cup {Nobody}]
Revision(kind, text, base, photo) == [kind |-> kind, text |-> text, base |-> base, photo |-> photo]
Phases == {"IDLE", "RECOGNIZING", "STORING", "ANSWERED"}
\* The number of the revision an ANSWERED request was given.
TaskRows == [phase : Phases, input : Inputs, told : 0 .. MaxRevisions]

InciTypeOK ==
  /\ owned \in BOOLEAN /\ photos \subseteq Photos
  /\ revisions \in Seq(Inputs) /\ Len(revisions) <= MaxRevisions
  /\ snapshots \in Seq([revision : 1 .. MaxRevisions, content : Contents])
  /\ Len(snapshots) <= MaxSnapshots
  /\ task \in [Tasks -> TaskRows]

Blank == Revision("USER_TRANSCRIPTION", CHOOSE t \in Texts : TRUE, 0, Nobody)
Idle == [phase |-> "IDLE", input |-> Blank, told |-> 0]

InciInit ==
  /\ owned = TRUE /\ photos = Photos
  /\ revisions = <<>> /\ snapshots = <<>>
  /\ task = [r \in Tasks |-> Idle]

Set(r, row) == task' = [task EXCEPT ![r] = row]
Storing(input) == [phase |-> "STORING", input |-> input, told |-> 0]

-----------------------------------------------------------------------------
(* inci-corrections/service.ts                                             *)

\* recognize: the observation and the photo's bytes are read.
BeginRecognize(r, p) ==
  /\ task[r].phase \in {"IDLE", "ANSWERED"} /\ owned /\ p \in photos
  /\ Set(r, [phase |-> "RECOGNIZING", input |-> [Blank EXCEPT !.kind = "OCR", !.photo = p],
             told |-> 0])
  /\ UNCHANGED <<owned, photos, revisions, snapshots>>

OcrReads(r, text) ==
  /\ task[r].phase = "RECOGNIZING"
  /\ Set(r, Storing([task[r].input EXCEPT !.text = text]))
  /\ UNCHANGED <<owned, photos, revisions, snapshots>>

\* FAILED, or a text that is blank or too long.
OcrGivesUp(r) ==
  /\ task[r].phase = "RECOGNIZING"
  /\ Set(r, Idle)
  /\ UNCHANGED <<owned, photos, revisions, snapshots>>

\* createRevision: the user has written a text, on a revision they were shown.
BeginTranscription(r, text) ==
  /\ task[r].phase \in {"IDLE", "ANSWERED"}
  /\ Set(r, Storing([Blank EXCEPT !.text = text]))
  /\ UNCHANGED <<owned, photos, revisions, snapshots>>

BeginCorrection(r, base, text) ==
  /\ task[r].phase \in {"IDLE", "ANSWERED"}
  /\ Set(r, Storing(Revision("USER_CORRECTION", text, base, Nobody)))
  /\ UNCHANGED <<owned, photos, revisions, snapshots>>

-----------------------------------------------------------------------------
(* inci-correction-repository.ts: createRevision                           *)

\* Mutant: of a recognition the text alone counts.
Same_ByText(input) == {n \in DOMAIN revisions : revisions[n].text = input.text}

\* The revisions that already are what the input asks for.
Same(input) ==
  {n \in DOMAIN revisions :
     /\ revisions[n] = input
     /\ input.kind # "USER_CORRECTION" => n = 1}

Original(input) == input.kind \in {"OCR", "USER_TRANSCRIPTION"}

\* Mutant: an original may come after another one.
Creates_Originals(input) ==
  /\ owned /\ Same(input) = {} /\ Len(revisions) < MaxRevisions
  /\ ~Original(input) => /\ input.base \in DOMAIN revisions
                         /\ revisions[input.base].text # input.text
  /\ input.kind = "OCR" => input.photo \in photos

\* A new revision is due: no original yet, or a correction that changes its base,
\* with room for one more.
Creates(input) ==
  /\ owned /\ Same(input) = {}
  /\ IF Original(input)
     THEN revisions = <<>>
     ELSE /\ input.base \in DOMAIN revisions
          /\ revisions[input.base].text # input.text
          /\ Len(revisions) < MaxRevisions
  \* the insert trigger refuses a recognition whose photo is gone
  /\ input.kind = "OCR" => input.photo \in photos

Store(r) ==
  LET input == task[r].input IN
  /\ task[r].phase = "STORING"
  /\ \/ /\ Creates(input)                                              \* CREATED
        /\ revisions' = Append(revisions, input)
        /\ Set(r, [phase |-> "ANSWERED", input |-> input, told |-> Len(revisions) + 1])
     \/ /\ owned /\ Same(input) # {}                                   \* REUSED
        /\ Set(r, [phase |-> "ANSWERED", input |-> input,
                   told |-> CHOOSE n \in Same(input) : TRUE])
        /\ UNCHANGED revisions
     \/ /\ ~Creates(input) /\ ~(owned /\ Same(input) # {})             \* refused
        /\ Set(r, Idle)
        /\ UNCHANGED revisions
  /\ UNCHANGED <<owned, photos, snapshots>>

(* private-product-repository.ts: createSnapshot                           *)

CreateSnapshot(n, content) ==
  LET row == [revision |-> n, content |-> content] IN
  /\ owned /\ n \in DOMAIN revisions
  /\ \A i \in DOMAIN snapshots : snapshots[i] # row        \* else REUSED
  /\ Len(snapshots) < MaxSnapshots
  /\ snapshots' = Append(snapshots, row)
  /\ UNCHANGED <<owned, photos, revisions, task>>

-----------------------------------------------------------------------------
DeletePhoto(p) ==
  /\ photos' = photos \ {p}
  /\ UNCHANGED <<owned, revisions, snapshots, task>>

\* Erasure of the owner: revisions and snapshots go with the observation.
EraseObservation ==
  /\ owned' = FALSE /\ photos' = {}
  /\ revisions' = <<>> /\ snapshots' = <<>>
  /\ UNCHANGED task

InciNext ==
  \/ \E r \in Tasks :
       \/ \E p \in Photos : BeginRecognize(r, p)
       \/ \E t \in Texts :
            \/ OcrReads(r, t) \/ BeginTranscription(r, t)
            \/ \E n \in DOMAIN revisions : BeginCorrection(r, n, t)
       \/ OcrGivesUp(r) \/ Store(r)
  \/ \E n \in DOMAIN revisions, c \in Contents : CreateSnapshot(n, c)
  \/ \E p \in photos : DeletePhoto(p)
  \/ owned /\ EraseObservation

InciSpec == InciInit /\ [][InciNext]_inciVars

-----------------------------------------------------------------------------
\* inci-correction-repository.ts:291: however recognitions, transcriptions and corrections
\* overlap, one original comes first, every correction changes an earlier revision, and
\* none is stored twice.
HistoryIsSound ==
  \A n \in DOMAIN revisions :
    /\ n = 1 <=> Original(revisions[n])
    /\ n > 1 => /\ revisions[n].base \in 1 .. n - 1
                /\ revisions[revisions[n].base].text # revisions[n].text
    /\ \A m \in 1 .. n - 1 : revisions[m] # revisions[n]

\* What a request was answered stays true as long as the observation exists: the revision
\* it was given is the one it asked for, also when another's was stored in the meantime.
AnswersStayTrue ==
  \A r \in Tasks :
    task[r].phase = "ANSWERED" /\ owned => revisions[task[r].told] = task[r].input
=============================================================================
