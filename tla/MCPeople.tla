------------------------------ MODULE MCPeople ------------------------------
(* Accounts and CustomerReviews side by side: one of them moves.           *)
EXTENDS Accounts, CustomerReviews, TLC
CONSTANT p1
\* Two hashes of one password: what counts is which hash was verified.
MCPasswordOf == [h \in Hashes |-> p1]
\* One review of an account.  The modules share model values, and with them the
\* symmetry: accounts write reviews, and requests and hashes do for moderators and texts.
MCAuthorOf == [a \in Accounts |-> a]
Symmetric == Permutations(Accounts) \cup Permutations(Guests) \cup Permutations(Tokens)
             \cup Permutations(Requests) \cup Permutations(Emails) \cup Permutations(Hashes)

VARIABLE part
PeopleInit == Init /\ ReviewsInit /\ part \in {"accounts", "reviews"}
PeopleNext == /\ \/ part = "accounts" /\ Next /\ UNCHANGED reviewVars
                 \/ part = "reviews" /\ ReviewsNext /\ UNCHANGED vars
              /\ UNCHANGED part
PeopleSpec == PeopleInit /\ [][PeopleNext]_<<vars, reviewVars, part>>
=============================================================================
