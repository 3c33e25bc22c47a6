------------------------------ MODULE Accounts ------------------------------
(***************************************************************************)
(* Guests, accounts, their sessions, recovery codes and what they own.     *)
(*                                                                         *)
(* A request is served by the services (identity, account-security,        *)
(* account-erasure, preferences, media): it may resolve its session token, *)
(* may read a credential and verify the password against it, and then runs *)
(* one transaction of a repository.  Between these steps the database may  *)
(* change.  Every transaction begins by locking the row that decides it    *)
(* (the account, or the guest), so a transaction is one step.              *)
(***************************************************************************)
EXTENDS Naturals, FiniteSets

CONSTANTS
  Accounts, Guests,      \* ids of account and guest rows
  Emails, Passwords,     \* what people type
  Tokens, Codes,         \* random session tokens and recovery codes
  Hashes,                \* salted password hashes: each hashing yields a new one
  PasswordOf,            \* the password a hash was made of
  Collections,           \* ids of media collections, with their observation
  Requests,              \* requests being served at a time
  MaxVersions,           \* bound: saved preference versions of an account
  None

ASSUME AccountsAssumption ==
  /\ PasswordOf \in [Hashes -> Passwords]
  /\ MaxVersions \in Nat
  /\ Accounts \cap Guests = {}
  /\ None \notin Accounts \cup Guests \cup Emails \cup Passwords \cup Tokens
                 \cup Codes \cup Hashes \cup Collections

VARIABLES
  account,     \* wtm_accounts
  guest,       \* wtm_guests
  session,     \* wtm_identity_sessions, by token
  code,        \* wtm_account_recovery_codes, by account
  versions,    \* number of wtm_mascara_preference_versions, by account
  collection,  \* wtm_media_collections: the owner, None when there is no row
  request,     \* the requests being served
  spent        \* every token, hash, code and collection id given out so far

vars == <<account, guest, session, code, versions, collection, request, spent>>

Owners == Accounts \cup Guests

AccountRows == [status : {"NONE", "ACTIVE", "DELETED"},
                email : Emails \cup {None},      \* None: <id>.<uuid>@deleted.invalid
                hash : Hashes \cup {None}]
GuestRows == [status : {"NONE", "LIVE", "DELETED"}, claimedBy : Accounts \cup {None}]
SessionRows == [status : {"NONE", "LIVE", "REVOKED"}, owner : Owners \cup {None},
                expired : BOOLEAN,
                proof : Hashes \cup {None}]      \* ghost: the hash it was issued for

Kinds == {"GUEST", "DELETE_GUEST", "LOGIN", "LOGOUT", "ROTATE", "ERASE", "SAVE", "COLLECT"}
RequestRows ==
  [at : {"IDLE", "VERIFY", "WRITE"}, kind : Kinds \cup {None}, token : Tokens \cup {None},
   email : Emails \cup {None}, who : Owners \cup {None}, hash : Hashes \cup {None}]

NoAccount == [status |-> "NONE", email |-> None, hash |-> None]
NoGuest == [status |-> "NONE", claimedBy |-> None]
NoSession == [status |-> "NONE", owner |-> None, expired |-> FALSE, proof |-> None]
RequestOf(at, kind, t, e, who, h) ==
  [at |-> at, kind |-> kind, token |-> t, email |-> e, who |-> who, hash |-> h]
NoRequest == RequestOf("IDLE", None, None, None, None, None)

TypeOK ==
  /\ account \in [Accounts -> AccountRows]
  /\ guest \in [Guests -> GuestRows]
  /\ session \in [Tokens -> SessionRows]
  /\ code \in [Accounts -> Codes \cup {None}]
  /\ versions \in [Accounts -> Nat]
  /\ collection \in [Collections -> Owners \cup {None}]
  /\ request \in [Requests -> RequestRows]
  /\ spent \subseteq Tokens \cup Hashes \cup Codes \cup Collections

Init ==
  /\ account = [a \in Accounts |-> NoAccount]
  /\ guest = [g \in Guests |-> NoGuest]
  /\ session = [t \in Tokens |-> NoSession]
  /\ code = [a \in Accounts |-> None]
  /\ versions = [a \in Accounts |-> 0]
  /\ collection = [c \in Collections |-> None]
  /\ request = [r \in Requests |-> NoRequest]
  /\ spent = {}

tables == <<account, guest, session, code, versions, collection, spent>>

-----------------------------------------------------------------------------
(* Reading *)

Active(a) == account[a].status = "ACTIVE"

\* A guest who is neither deleted nor claimed.
Unclaimed(g) == guest[g].status = "LIVE" /\ guest[g].claimedBy = None

\* resolveSession: whom a token stands for.
Resolved(t) ==
  IF t = None \/ session[t].status # "LIVE" THEN None
  ELSE LET o == session[t].owner IN
       IF o \in Guests THEN (IF Unclaimed(o) THEN o ELSE None)
       ELSE IF Active(o) /\ ~session[t].expired THEN o ELSE None

\* findAccountByEmail
AccountsOf(e) == {a \in Accounts : account[a].status # "NONE" /\ account[a].email = e}

\* verify: the password typed against a stored hash.
Verified(password, hash) == hash \in Hashes /\ PasswordOf[hash] = password

-----------------------------------------------------------------------------
(* The services, up to their transaction *)
\* A request is in flight from the first thing it reads.  Registration, recovery
\* and a first visit read nothing before their transaction, so they are one step.

Goes(r, next) == request' = [request EXCEPT ![r] = next] /\ UNCHANGED tables

Ends(r) == request' = [request EXCEPT ![r] = NoRequest]

\* identity.current(token) with the token of a cookie, valid or not; the service
\* goes on when the token stands for one of those it allows.
Asks(r, kind, at, allowed) ==
  /\ request[r].at = "IDLE"
  /\ \E t \in Tokens \cap spent :
       LET who == Resolved(t) IN
       /\ who \in allowed
       /\ Goes(r, RequestOf(at, kind, t, IF at = "VERIFY" THEN account[who].email ELSE None,
                            who, None))

AskGuestSession(r) == Asks(r, "GUEST", "WRITE", {None})
AskDeleteGuest(r) == Asks(r, "DELETE_GUEST", "WRITE", Guests \cup {None})
AskLogout(r) == Asks(r, "LOGOUT", "WRITE", Accounts \cup {None})
AskRotation(r) == Asks(r, "ROTATE", "VERIFY", Accounts)
AskErasure(r) == Asks(r, "ERASE", "VERIFY", Accounts)
AskSave(r) == Asks(r, "SAVE", "WRITE", Accounts)
AskCollection(r) == Asks(r, "COLLECT", "WRITE", Owners)

Ask(r) == \/ AskGuestSession(r) \/ AskDeleteGuest(r) \/ AskLogout(r) \/ AskRotation(r)
          \/ AskErasure(r) \/ AskSave(r) \/ AskCollection(r)

\* The accounts a password typed for an email proves to be one's own.
Proven(e, password) ==
  {a \in AccountsOf(e) : Active(a) /\ Verified(password, account[a].hash)}

\* login reads the credential and verifies the password against it.
ReadCredential(r) ==
  /\ request[r].at = "IDLE"
  /\ \E e \in Emails, p \in Passwords, t \in {None} \cup (Tokens \cap spent) :
       \E a \in Proven(e, p) :
         Goes(r, RequestOf("WRITE", "LOGIN", t, None, a, account[a].hash))

\* Rotation and erasure read it by the email they resolved.  An account that was
\* erased since then has lost its email, which another account may have by now.
Verify(r) ==
  LET q == request[r] IN
  /\ q.at = "VERIFY"
  /\ \E p \in Passwords :
       IF q.who \in Proven(q.email, p)
       THEN Goes(r, [q EXCEPT !.at = "WRITE", !.hash = account[q.who].hash])
       ELSE Goes(r, NoRequest)

-----------------------------------------------------------------------------
(* The transactions *)

Writes(r, k) == request[r].at = "WRITE" /\ request[r].kind = k

SessionFor(o, hash) == [status |-> "LIVE", owner |-> o, expired |-> FALSE, proof |-> hash]

\* Mutant: the guest's sessions are not ended.
Revoked_Forgotten(row) == row

Revoked(row) == IF row.status = "LIVE" THEN [row EXCEPT !.status = "REVOKED"] ELSE row

\* The guest that a token stands for, if it can still be claimed or deleted.
LiveGuestOf(t) == IF t # None /\ session[t].status = "LIVE" /\ session[t].owner \in Guests
                  THEN {g \in {session[t].owner} : Unclaimed(g)} ELSE {}

\* createAccount and createAccountSession: the guest of the old cookie becomes
\* the account's, its sessions end, and the account gets a session.
SignsIn(cookie, a, hash) ==
  LET claimed == LiveGuestOf(cookie)
  IN \E t \in Tokens \ spent :
       /\ guest' = [g \in Guests |-> IF g \in claimed
                                     THEN [guest[g] EXCEPT !.claimedBy = a] ELSE guest[g]]
       /\ session' = [u \in Tokens |-> IF u = t THEN SessionFor(a, hash)
                                       ELSE IF session[u].owner \in claimed
                                       THEN Revoked(session[u]) ELSE session[u]]
       /\ spent' = spent \cup {t, hash}

NewGuest ==
  /\ \E g \in Guests, t \in Tokens \ spent :
       /\ guest[g].status = "NONE"
       /\ guest' = [guest EXCEPT ![g].status = "LIVE"]
       /\ session' = [session EXCEPT ![t] = SessionFor(g, None)]
       /\ spent' = spent \cup {t}
  /\ UNCHANGED <<account, code, versions, collection>>

\* createGuestSession: for a first visit, or a token that stands for nobody.
CreateGuestSession(r) == Writes(r, "GUEST") /\ NewGuest /\ Ends(r)
FirstVisit == NewGuest /\ UNCHANGED request

\* deleteGuestBySession.  The trigger on deleted_at erases what the guest owns.
DeleteGuest(r) ==
  LET gone == LiveGuestOf(request[r].token)
  IN /\ Writes(r, "DELETE_GUEST")
     /\ guest' = [g \in Guests |-> IF g \in gone
                                   THEN [guest[g] EXCEPT !.status = "DELETED"] ELSE guest[g]]
     /\ session' = [t \in Tokens |-> IF session[t].owner \in gone
                                     THEN Revoked(session[t]) ELSE session[t]]
     /\ collection' = [c \in Collections |-> IF collection[c] \in gone
                                             THEN None ELSE collection[c]]
     /\ Ends(r)
     /\ UNCHANGED <<account, code, versions, spent>>

\* createAccount; an email in use is a unique violation and changes nothing.
CreateAccount(a, e, hash, cookie) ==
  /\ account[a].status = "NONE" /\ AccountsOf(e) = {}
  /\ account' = [account EXCEPT ![a] = [status |-> "ACTIVE", email |-> e, hash |-> hash]]
  /\ SignsIn(cookie, a, hash)

Register ==
  /\ \E a \in Accounts, e \in Emails, h \in Hashes \ spent, t \in {None} \cup (Tokens \cap spent) :
       CreateAccount(a, e, h, t)
  /\ UNCHANGED <<code, versions, collection, request>>

\* Mutant: the credential is not compared with the one verified.
StillTrusted_AnyHash(r) == Active(request[r].who)

\* The account is still active and its password the one that was verified.
StillTrusted(r) ==
  /\ Active(request[r].who)
  /\ account[request[r].who].hash = request[r].hash

CreateAccountSession(r) ==
  /\ Writes(r, "LOGIN")
  /\ StillTrusted(r)
  /\ SignsIn(request[r].token, request[r].who, request[r].hash)
  /\ Ends(r)
  /\ UNCHANGED <<account, code, versions, collection>>

\* revokeSession, whatever the token stood for.
RevokeSession(r) ==
  /\ Writes(r, "LOGOUT")
  /\ session' = [session EXCEPT ![request[r].token] = Revoked(@)]
  /\ Ends(r)
  /\ UNCHANGED <<account, guest, code, versions, collection, spent>>

RotateRecoveryCode(r) ==
  /\ Writes(r, "ROTATE")
  /\ StillTrusted(r)
  /\ \E c \in Codes \ spent : /\ code' = [code EXCEPT ![request[r].who] = c]
                              /\ spent' = spent \cup {c}
  /\ Ends(r)
  /\ UNCHANGED <<account, guest, session, versions, collection>>

\* recoverAccount, with the email's present code; any other changes nothing.
RecoverAccount(e, hash) ==
  \E a \in AccountsOf(e) :
    /\ Active(a) /\ code[a] # None
    /\ code' = [code EXCEPT ![a] = None]
    /\ account' = [account EXCEPT ![a].hash = hash]
    /\ session' = [t \in Tokens |-> IF session[t].owner = a
                                    THEN Revoked(session[t]) ELSE session[t]]
    /\ spent' = spent \cup {hash}

Recover ==
  /\ \E e \in Emails, h \in Hashes \ spent : RecoverAccount(e, h)
  /\ UNCHANGED <<guest, versions, collection, request>>

ClaimedBy(a) == {g \in Guests : guest[g].claimedBy = a}

\* erase still needs the very session that asked for it.
MayErase(r) ==
  LET q == request[r] IN
  /\ StillTrusted(r)
  /\ session[q.token].status = "LIVE"
  /\ session[q.token].owner = q.who
  /\ ~session[q.token].expired

\* What erase deletes belongs to the account or to a guest it claimed.
Erase(r) ==
  LET a == request[r].who
      theirs == {a} \cup ClaimedBy(a)
  IN /\ Writes(r, "ERASE")
     /\ MayErase(r)
     /\ collection' = [c \in Collections |-> IF collection[c] \in theirs
                                             THEN None ELSE collection[c]]
     /\ guest' = [g \in Guests |-> IF g \in ClaimedBy(a)
                                   THEN [status |-> "DELETED", claimedBy |-> None]
                                   ELSE guest[g]]
     /\ session' = [t \in Tokens |-> IF session[t].owner \in theirs
                                     THEN NoSession ELSE session[t]]
     /\ versions' = [versions EXCEPT ![a] = 0]
     /\ code' = [code EXCEPT ![a] = None]
     /\ account' = [account EXCEPT ![a] = [status |-> "DELETED", email |-> None, hash |-> None]]
     /\ Ends(r)
     /\ UNCHANGED spent

\* A sign-in, a rotation or an erasure that finds the account changed.
AuthChanged(r) ==
  /\ \/ (Writes(r, "LOGIN") \/ Writes(r, "ROTATE")) /\ ~StillTrusted(r)
     \/ Writes(r, "ERASE") /\ ~MayErase(r)
  /\ Ends(r)
  /\ UNCHANGED tables

\* saveMascaraPreference: a new version, unless the account is gone.
SavePreference(r) ==
  LET a == request[r].who IN
  /\ Writes(r, "SAVE")
  /\ versions[a] < MaxVersions
  /\ versions' = IF Active(a) THEN [versions EXCEPT ![a] = @ + 1] ELSE versions
  /\ Ends(r)
  /\ UNCHANGED <<account, guest, session, code, collection, spent>>

\* Mutant: the table has no such trigger.
MayOwn_Anyone(o) == TRUE

\* createCollection: the trigger on the table wants an owner that still exists.
MayOwn(o) == IF o \in Guests THEN Unclaimed(o) ELSE Active(o)

CreateCollection(r) ==
  /\ Writes(r, "COLLECT")
  /\ MayOwn(request[r].who)
  /\ \E c \in Collections \ spent : /\ collection' = [collection EXCEPT ![c] = request[r].who]
                                    /\ spent' = spent \cup {c}
  /\ Ends(r)
  /\ UNCHANGED <<account, guest, session, code, versions>>

CollectionRefused(r) ==
  /\ Writes(r, "COLLECT")
  /\ ~MayOwn(request[r].who)
  /\ Ends(r)
  /\ UNCHANGED tables

\* An account session runs out.
Expire(t) ==
  /\ session[t].status = "LIVE" /\ session[t].owner \in Accounts /\ ~session[t].expired
  /\ session' = [session EXCEPT ![t].expired = TRUE]
  /\ UNCHANGED <<account, guest, code, versions, collection, request, spent>>

Commit(r) ==
  \/ CreateGuestSession(r) \/ DeleteGuest(r) \/ CreateAccountSession(r) \/ RevokeSession(r)
  \/ RotateRecoveryCode(r) \/ Erase(r) \/ AuthChanged(r)
  \/ SavePreference(r) \/ CreateCollection(r) \/ CollectionRefused(r)

Next ==
  \/ \E r \in Requests : Ask(r) \/ ReadCredential(r) \/ Verify(r) \/ Commit(r)
  \/ FirstVisit \/ Register \/ Recover
  \/ \E t \in Tokens : Expire(t)

Spec == Init /\ [][Next]_vars
-----------------------------------------------------------------------------
(* Properties *)

\* identity-repository.ts:321 and account-security-repository.ts:43: whoever
\* is signed in to an account proved its present password.  A sign-in verifies a credential it
\* read earlier; a recovery in between must not leave it a session.
SessionsMatchPassword ==
  \A t \in Tokens : session[t].status = "LIVE" /\ session[t].owner \in Accounts
                      => /\ Active(session[t].owner)
                         /\ session[t].proof = account[session[t].owner].hash

\* account-erasure-repository.ts:33 ("Account lock serializes login/claim ..."):
\* once an account is erased nothing of it is left, and no request that was
\* under way when it was erased brings anything back.
ErasureIsComplete ==
  \A a \in Accounts : account[a].status = "DELETED" =>
    /\ ClaimedBy(a) = {} /\ code[a] = None /\ versions[a] = 0
    /\ \A t \in Tokens : session[t].owner # a
    /\ \A c \in Collections : collection[c] # a

\* identity-repository.ts:83 and :204: a guest is claimed once or deleted, and from
\* then on its token opens nothing and nothing new becomes its own.
GuestIsSettled ==
  \A g \in Guests : ~Unclaimed(g) =>
    /\ guest[g].status # "LIVE" => guest[g].claimedBy = None /\ \A c \in Collections : collection[c] # g
    /\ \A t \in Tokens : session[t].owner = g => session[t].status # "LIVE"

\* docs/reviews/2026-09-20-private-workflows.md:36: "A pending guest deletion
\* cannot erase an already-claimed account's data."  Besides, what an account owns,
\* itself or through a guest it claimed, goes only with the account, and no one
\* else gets it.
GuestHasOneFate ==
  /\ [](TypeOK /\ GuestIsSettled)
  /\ [][\A a \in Accounts, c \in Collections :
          /\ Active(a)
          /\ collection[c] \in {a} \cup ClaimedBy(a)
          => \/ collection'[c] = collection[c] /\ collection[c] \in {a} \cup ClaimedBy(a)'
             \/ account'[a].status = "DELETED"]_vars
=============================================================================
