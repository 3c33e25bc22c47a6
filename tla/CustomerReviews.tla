--------------------------- MODULE CustomerReviews ---------------------------
(***************************************************************************)
(* Reviews of product variants: written and edited by accounts, published  *)
(* by moderators, deleted by their authors or with the account.            *)
(*                                                                         *)
(* A transaction locks the author's account or the review, then (in an     *)
(* advisory lock) the hash of the text, and is one step.  A moderator      *)
(* reads a review in one transaction and decides in another.  The audit    *)
(* rows, written with every change and never read here, are left out.      *)
(***************************************************************************)
EXTENDS Naturals, FiniteSets

CONSTANTS
  Reviews,        \* (account, variant) pairs: a review is unique for its pair
  Authors,        \* accounts
  AuthorOf,       \* the account of a pair
  Texts, Stars,   \* normalised texts, which differ in their hash, and ratings
  Moderators,     \* operators deciding at a time
  MaxReviews,     \* bound: revisions written altogether
  NoReview

ASSUME ReviewsAssumption ==
  AuthorOf \in [Reviews -> Authors] /\ MaxReviews \in Nat /\ NoReview \notin Reviews

VARIABLES
  active,     \* the accounts that are ACTIVE
  onSale,     \* the pairs whose variant and family are PUBLISHED
  review,     \* wtm_customer_reviews with the current revision
  written,    \* revisions written so far: the clock of created_at
  seen,       \* what each moderator has before them
  judged      \* ghost: what a moderator had read who approved a review

reviewVars == <<active, onSale, review, written, seen, judged>>

Statuses == {"PENDING", "APPROVED", "REJECTED", "DELETED"}
ReviewRows == [status : Statuses \cup {"NONE"}, number : Nat, text : Texts \cup {NoReview},
               stars : Stars \cup {NoReview}, createdAt : Nat, duplicate : BOOLEAN]
Nothing == [status |-> "NONE", number |-> 0, text |-> NoReview, stars |-> NoReview,
            createdAt |-> 0, duplicate |-> FALSE]
Readings == [review : Reviews \cup {NoReview}, number : Nat, text : Texts \cup {NoReview},
             stars : Stars \cup {NoReview}]

ReviewsTypeOK ==
  /\ active \subseteq Authors /\ onSale \subseteq Reviews
  /\ review \in [Reviews -> ReviewRows]
  /\ written \in 0 .. MaxReviews
  /\ seen \in [Moderators -> Readings]
  /\ judged \in [Reviews -> Readings]

NothingSeen == [review |-> NoReview, number |-> 0, text |-> NoReview, stars |-> NoReview]

\* What a reader gets of a review.
Reading(v) == [review |-> v, number |-> review[v].number, text |-> review[v].text,
               stars |-> review[v].stars]

ReviewsInit ==
  /\ active = Authors /\ onSale = Reviews
  /\ review = [v \in Reviews |-> Nothing]
  /\ written = 0
  /\ seen = [m \in Moderators |-> NothingSeen]
  /\ judged = [v \in Reviews |-> NothingSeen]

Exists(v) == review[v].status # "NONE"
Author(v) == AuthorOf[v] \in active

-----------------------------------------------------------------------------
\* Other reviews with this text that are not deleted.
Duplicates(v, text) ==
  {w \in Reviews \ {v} : /\ review[w].status \notin {"NONE", "DELETED"}
                         /\ review[w].text = text /\ Author(w)}

\* upsert.  The same review again changes nothing, unless it was deleted.
Upsert(v, text, stars) ==
  /\ Author(v) /\ v \in onSale
  /\ written < MaxReviews
  /\ review[v].status \notin {"NONE", "DELETED"}
       => review[v].text # text \/ review[v].stars # stars
  /\ review' = [review EXCEPT ![v] =
       [status |-> "PENDING", number |-> @.number + 1, text |-> text,
        stars |-> stars, createdAt |-> written + 1, duplicate |-> Duplicates(v, text) # {}]]
  /\ written' = written + 1
  /\ UNCHANGED <<active, onSale, seen, judged>>

\* deleteOwned; a second deletion only says so.
DeleteOwned(v) ==
  /\ Author(v) /\ Exists(v) /\ review[v].status # "DELETED"
  /\ review' = [review EXCEPT ![v].status = "DELETED"]
  /\ UNCHANGED <<active, onSale, written, seen, judged>>

\* listPendingForModeration shows pending reviews, findForModeration any.
Open(m) ==
  /\ \E v \in Reviews :
       /\ Exists(v)
       /\ seen' = [seen EXCEPT ![m] = Reading(v)]
  /\ UNCHANGED <<active, onSale, review, written, judged>>

\* Reviews that stand in the way of approving v: an approved one with its text,
\* or one that is waiting with it for longer.
Rivals(v) ==
  {w \in Duplicates(v, review[v].text) :
     \/ review[w].status = "APPROVED"
     \/ review[w].status = "PENDING" /\ review[w].createdAt < review[v].createdAt}

Decide(m, v, decision) ==
  /\ review' = [review EXCEPT ![v].status = decision]
  /\ judged' = [judged EXCEPT ![v] = IF decision = "APPROVED" THEN seen[m] ELSE @]
  /\ seen' = [seen EXCEPT ![m] = NothingSeen]
  /\ UNCHANGED <<active, onSale, written>>

\* Mutant: the revision is not compared.
IsCurrent_AnyRevision(m) ==
  LET v == seen[m].review IN
  review[v].status \notin {"NONE", "DELETED"} /\ Author(v)

\* The review is still there, its author too, and the revision is the one read.
IsCurrent(m) ==
  LET v == seen[m].review IN
  /\ review[v].status \notin {"NONE", "DELETED"} /\ Author(v)
  /\ review[v].number = seen[m].number

Moderate(m) ==
  /\ seen[m].review # NoReview
  /\ IsCurrent(m)
  /\ \/ Decide(m, seen[m].review, "REJECTED")
     \/ Rivals(seen[m].review) = {} /\ Decide(m, seen[m].review, "APPROVED")

\* NOT_FOUND, STALE_REVISION or DUPLICATE_TEXT: the operator looks again.
ModerationRefused(m) ==
  /\ seen[m].review # NoReview
  /\ ~IsCurrent(m) \/ Rivals(seen[m].review) # {}
  /\ seen' = [seen EXCEPT ![m] = NothingSeen]
  /\ UNCHANGED <<active, onSale, review, written, judged>>

\* erase: the account's reviews, their revisions go with it.
EraseAuthor(a) ==
  /\ a \in active
  /\ active' = active \ {a}
  /\ review' = [v \in Reviews |-> IF AuthorOf[v] = a THEN Nothing ELSE review[v]]
  /\ UNCHANGED <<onSale, written, seen, judged>>

\* The catalog archives and republishes a variant.
ChangeCatalog(v) ==
  /\ onSale' = IF v \in onSale THEN onSale \ {v} ELSE onSale \cup {v}
  /\ UNCHANGED <<active, review, written, seen, judged>>

ReviewsNext ==
  \/ \E v \in Reviews, t \in Texts, s \in Stars : Upsert(v, t, s)
  \/ \E v \in Reviews : DeleteOwned(v) \/ ChangeCatalog(v)
  \/ \E m \in Moderators : Open(m) \/ Moderate(m) \/ ModerationRefused(m)
  \/ \E a \in Authors : EraseAuthor(a)

ReviewsSpec == ReviewsInit /\ [][ReviewsNext]_reviewVars

-----------------------------------------------------------------------------
\* What summary counts: approved reviews on sale, one of each text.
Approved == {v \in Reviews : review[v].status = "APPROVED" /\ Author(v) /\ v \in onSale}
Older(v, w) == review[v].createdAt < review[w].createdAt
Summary == {v \in Approved : ~\E w \in Approved : review[w].text = review[v].text /\ Older(w, v)}

\* customer-review-repository.ts:266 (STALE_REVISION): what the public reads is the text
\* a moderator has read, rating and all, although its author may edit it in between.
PublishedAsModerated == \A v \in Approved : judged[v] = Reading(v)

\* customer-review-repository.ts:268 (hashLock before the search for duplicates): a text is
\* approved for one review only, whatever the order of edits, deletions and decisions.
NoApprovedTwins ==
  \A v, w \in Reviews :
    /\ v # w /\ review[v].text = review[w].text
    /\ review[v].status = "APPROVED" /\ Author(v)
    => review[w].status # "APPROVED" \/ ~Author(w)

\* What is public was read by a moderator as it stands, and is there once.
PublicationIsSound == ReviewsTypeOK /\ PublishedAsModerated /\ NoApprovedTwins
=============================================================================
