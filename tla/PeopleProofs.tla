---------------------------- MODULE PeopleProofs ----------------------------
(***************************************************************************)
(* Proofs about guests, accounts and sessions (Accounts) and about reviews *)
(* (CustomerReviews), for any number of them and of requests in flight.    *)
(***************************************************************************)
EXTENDS Accounts, CustomerReviews, TLAPS

-----------------------------------------------------------------------------
(* Accounts.  The three invariants are nearly inductive: every transaction *)
(* checks again, under the lock, what it depends on.  What a request read  *)
(* earlier matters no more than that it named an account.                  *)

\* An id of a collection is given out once.
CollectionIdsAreFresh == \A c \in Collections : collection[c] # None => c \in spent

\* Whom a request is about, as its service found it.
Sound(x) == x.at # "IDLE" =>
  /\ x.kind \in {"LOGIN", "ROTATE", "ERASE", "SAVE"} => x.who \in Accounts
  /\ x.kind = "COLLECT" => x.who \in Owners
  /\ x.kind = "LOGIN" => x.hash \in Hashes
SoundRows == {x \in RequestRows : Sound(x)}
RequestsAreSound == request \in [Requests -> SoundRows]

AccountsInv ==
  /\ TypeOK /\ RequestsAreSound /\ CollectionIdsAreFresh
  /\ SessionsMatchPassword /\ ErasureIsComplete /\ GuestIsSettled

\* What belongs to an active account stays with it, or the account is deleted.
KeepsCollections ==
  \A a \in Accounts, c \in Collections :
    /\ Active(a)
    /\ collection[c] \in {a} \cup ClaimedBy(a)
    => \/ collection'[c] = collection[c] /\ collection[c] \in {a} \cup ClaimedBy(a)'
       \/ account'[a].status = "DELETED"

-----------------------------------------------------------------------------
(* Rows.                                                                   *)

LEMMA Parts ==
  ASSUME TypeOK
  PROVE  /\ \A a \in Accounts : account[a] \in AccountRows
         /\ \A g \in Guests : guest[g] \in GuestRows
         /\ \A t \in Tokens : session[t] \in SessionRows
         /\ \A r \in Requests : request[r] \in RequestRows
BY DEF TypeOK

LEMMA NewRowsAreRows ==
  /\ NoSession \in SessionRows /\ NoRequest \in SoundRows /\ NoGuest \in GuestRows
  /\ NoAccount \in AccountRows
  /\ \A o \in Owners, h \in Hashes \cup {None} : SessionFor(o, h) \in SessionRows
<1>1. NoRequest \in SoundRows
  <2>1. NoRequest \in RequestRows
    BY DEF NoRequest, RequestOf, RequestRows
  <2> QED BY <2>1 DEF NoRequest, RequestOf, Sound, SoundRows
<1>2. NoSession \in SessionRows /\ \A o \in Owners, h \in Hashes \cup {None} : SessionFor(o, h) \in SessionRows
  BY DEF NoSession, SessionRows, SessionFor
<1> QED BY <1>1, <1>2 DEF NoGuest, GuestRows, NoAccount, AccountRows

LEMMA RevokedRows ==
  ASSUME NEW row \in SessionRows
  PROVE  /\ Revoked(row) \in SessionRows /\ Revoked(row).status # "LIVE"
         /\ Revoked(row).owner = row.owner
BY DEF Revoked, SessionRows

LEMMA AccountsStartWell == Init => AccountsInv
<1> SUFFICES ASSUME Init PROVE AccountsInv
  OBVIOUS
<1> USE DEF Init
<1>1. TypeOK
  BY NewRowsAreRows DEF TypeOK, SoundRows
<1>2. CollectionIdsAreFresh /\ RequestsAreSound
  BY NewRowsAreRows DEF CollectionIdsAreFresh, RequestsAreSound
<1>3. SessionsMatchPassword
  BY DEF SessionsMatchPassword, NoSession
<1>4. ErasureIsComplete
  BY DEF ErasureIsComplete, NoAccount
<1>5. GuestIsSettled
  BY AccountsAssumption DEF GuestIsSettled, NoGuest, NoSession
<1> QED BY <1>1, <1>2, <1>3, <1>4, <1>5 DEF AccountsInv

-----------------------------------------------------------------------------
(* A request that reads, or is refused.                                    *)

LEMMA ReadersChangeNothing ==
  ASSUME AccountsInv, UNCHANGED tables, NEW r \in Requests, NEW x \in SoundRows,
         request' = [request EXCEPT ![r] = x]
  PROVE  AccountsInv' /\ KeepsCollections
<1>1. RequestsAreSound'
  BY DEF AccountsInv, RequestsAreSound
<1>2. AccountsInv'
  BY <1>1 DEF AccountsInv, tables, TypeOK, RequestsAreSound, SoundRows, CollectionIdsAreFresh, SessionsMatchPassword, ErasureIsComplete,
    GuestIsSettled, Active, ClaimedBy, Unclaimed
<1>3. KeepsCollections
  BY DEF KeepsCollections, tables, ClaimedBy
<1> QED BY <1>2, <1>3

LEMMA AskingReads ==
  ASSUME AccountsInv, NEW r \in Requests, NEW k \in Kinds, NEW at \in {"VERIFY", "WRITE"},
         NEW S \in SUBSET (Owners \cup {None}), at = "VERIFY" => S = Accounts, k # "LOGIN",
         k \in {"ROTATE", "ERASE", "SAVE"} => S = Accounts, k = "COLLECT" => S = Owners, Asks(r, k, at, S)
  PROVE  AccountsInv' /\ KeepsCollections
<1>1. PICK t \in Tokens :
        LET who == Resolved(t) IN
        /\ who \in S
        /\ Goes(r, RequestOf(at, k, t, IF at = "VERIFY" THEN account[who].email ELSE None, who, None))
  BY DEF Asks
<1>2. PICK who \in S : who = Resolved(t)
  BY <1>1
<1>3. PICK e \in Emails \cup {None} : e = IF at = "VERIFY" THEN account[who].email ELSE None
  BY <1>2, Parts DEF AccountsInv, AccountRows
<1>4. RequestOf(at, k, t, e, who, None) \in SoundRows
  BY <1>2 DEF RequestOf, RequestRows, SoundRows, Sound
<1>5. UNCHANGED tables /\ request' = [request EXCEPT ![r] = RequestOf(at, k, t, e, who, None)]
  BY <1>1, <1>2, <1>3 DEF Goes
<1> QED BY <1>4, <1>5, ReadersChangeNothing

LEMMA ReadersAreSafe ==
  ASSUME AccountsInv, NEW r \in Requests, Ask(r) \/ ReadCredential(r) \/ Verify(r)
  PROVE  AccountsInv' /\ KeepsCollections
<1>1. CASE Ask(r)
  <2>1. /\ {None} \in SUBSET (Owners \cup {None}) /\ Guests \cup {None} \in SUBSET (Owners \cup {None})
        /\ Accounts \cup {None} \in SUBSET (Owners \cup {None}) /\ Accounts \in SUBSET (Owners \cup {None})
        /\ Owners \in SUBSET (Owners \cup {None})
    BY DEF Owners
  <2>2. \A k \in {"GUEST", "DELETE_GUEST", "LOGOUT", "ROTATE", "ERASE", "SAVE", "COLLECT"} : k \in Kinds
    BY DEF Kinds
  <2> QED BY <1>1, <2>1, <2>2, AskingReads DEF Ask, AskGuestSession, AskDeleteGuest, AskLogout,
    AskRotation, AskErasure, AskSave, AskCollection
<1>2. CASE ReadCredential(r)
  <2>1. PICK e \in Emails, p \in Passwords, t \in {None} \cup (Tokens \cap spent) :
          \E a \in Proven(e, p) : Goes(r, RequestOf("WRITE", "LOGIN", t, None, a, account[a].hash))
    BY <1>2 DEF ReadCredential
  <2>2. PICK a \in Proven(e, p) : Goes(r, RequestOf("WRITE", "LOGIN", t, None, a, account[a].hash))
    BY <2>1
  <2>3. a \in Accounts /\ account[a].hash \in Hashes
    BY DEF Proven, AccountsOf, Verified
  <2>4. RequestOf("WRITE", "LOGIN", t, None, a, account[a].hash) \in SoundRows
    BY <2>3 DEF RequestOf, RequestRows, Kinds, SoundRows, Sound, Owners
  <2> QED BY <2>2, <2>4, ReadersChangeNothing DEF Goes
<1>3. CASE Verify(r)
  <2> DEFINE q == request[r]
  <2>1. CASE Goes(r, NoRequest)
    BY <2>1, NewRowsAreRows, ReadersChangeNothing DEF Goes
  <2>2. ASSUME NEW p \in Passwords, q.who \in Proven(q.email, p),
               Goes(r, [q EXCEPT !.at = "WRITE", !.hash = account[q.who].hash])
        PROVE  AccountsInv' /\ KeepsCollections
    <3>1. account[q.who].hash \in Hashes
      BY <2>2 DEF Proven, Verified
    <3>2. q \in SoundRows /\ q.at = "VERIFY"
      BY <1>3 DEF AccountsInv, RequestsAreSound, Verify
    <3>3. \A h \in Hashes : [q EXCEPT !.at = "WRITE", !.hash = h] \in SoundRows
      <4> HIDE DEF q
      <4> QED BY <3>2 DEF RequestRows, SoundRows, Sound
    <3> QED BY <2>2, <3>1, <3>3, ReadersChangeNothing DEF Goes
  <2> QED BY <1>3, <2>1, <2>2 DEF Verify
<1> QED BY <1>1, <1>2, <1>3

LEMMA Ending ==
  ASSUME AccountsInv, NEW r \in Requests, Ends(r)
  PROVE  request' \in [Requests -> SoundRows]
BY NewRowsAreRows DEF Ends, AccountsInv, RequestsAreSound

LEMMA RefusalsChangeNothing ==
  ASSUME AccountsInv, NEW r \in Requests, AuthChanged(r) \/ CollectionRefused(r)
  PROVE  AccountsInv' /\ KeepsCollections
BY NewRowsAreRows, ReadersChangeNothing DEF AuthChanged, CollectionRefused, Ends

-----------------------------------------------------------------------------
(* Guests.                                                                 *)

LEMMA NewGuestIsSafe ==
  ASSUME AccountsInv, NewGuest, request' \in [Requests -> SoundRows]
  PROVE  AccountsInv' /\ KeepsCollections
<1> USE AccountsAssumption DEF AccountsInv, RequestsAreSound
<1>1. PICK g \in Guests, t \in Tokens \ spent :
        /\ guest[g].status = "NONE"
        /\ guest' = [guest EXCEPT ![g].status = "LIVE"]
        /\ session' = [session EXCEPT ![t] = SessionFor(g, None)]
        /\ spent' = spent \cup {t}
  BY DEF NewGuest
<1>2. UNCHANGED <<account, code, versions, collection>>
  BY DEF NewGuest
<1>3. /\ guest[g] \in GuestRows /\ guest[g].claimedBy = None
      /\ guest' \in [Guests -> GuestRows] /\ Unclaimed(g)'
      /\ \A h \in Guests : guest'[h].claimedBy = guest[h].claimedBy
      /\ \A h \in Guests \ {g} : guest'[h] = guest[h]
  BY <1>1 DEF TypeOK, GuestRows, GuestIsSettled, Unclaimed
<1>4. /\ session' \in [Tokens -> SessionRows] /\ session'[t] = SessionFor(g, None)
      /\ \A u \in Tokens \ {t} : session'[u] = session[u]
  BY <1>1, NewRowsAreRows DEF TypeOK, Owners
<1>5. session'[t].owner = g /\ g \notin Accounts
  BY <1>4 DEF SessionFor
<1>6. TypeOK'
  BY <1>1, <1>2, <1>3, <1>4 DEF TypeOK, RequestsAreSound, SoundRows
<1>7. CollectionIdsAreFresh' /\ KeepsCollections
  BY <1>1, <1>2, <1>3 DEF CollectionIdsAreFresh, KeepsCollections, ClaimedBy
<1>8. SessionsMatchPassword'
  BY <1>2, <1>4, <1>5 DEF SessionsMatchPassword, Active
<1>9. ErasureIsComplete'
  BY <1>2, <1>3, <1>4, <1>5 DEF ErasureIsComplete, ClaimedBy
<1>10. GuestIsSettled'
  BY <1>2, <1>3, <1>4, <1>5 DEF GuestIsSettled, Unclaimed
<1> QED BY <1>6, <1>7, <1>8, <1>9, <1>10

LEMMA DeleteGuestIsSafe ==
  ASSUME AccountsInv, NEW r \in Requests, DeleteGuest(r)
  PROVE  AccountsInv' /\ KeepsCollections
<1> USE AccountsAssumption DEF AccountsInv, RequestsAreSound
<1> DEFINE gone == LiveGuestOf(request[r].token)
<1>1. gone \subseteq Guests /\ \A g \in gone : Unclaimed(g)
  BY DEF LiveGuestOf
<1>2. /\ guest' = [g \in Guests |-> IF g \in gone THEN [guest[g] EXCEPT !.status = "DELETED"] ELSE guest[g]]
      /\ session' = [t \in Tokens |-> IF session[t].owner \in gone THEN Revoked(session[t]) ELSE session[t]]
      /\ collection' = [c \in Collections |-> IF collection[c] \in gone THEN None ELSE collection[c]]
      /\ UNCHANGED <<account, code, versions, spent>>
  BY DEF DeleteGuest
<1> HIDE DEF gone
<1>3. /\ guest' \in [Guests -> GuestRows]
      /\ \A g \in Guests : guest'[g].claimedBy = guest[g].claimedBy
      /\ \A g \in gone : guest'[g].status = "DELETED" /\ guest[g].claimedBy = None
      /\ \A g \in Guests \ gone : guest'[g] = guest[g]
  BY <1>1, <1>2 DEF TypeOK, GuestRows, Unclaimed
<1>4. /\ session' \in [Tokens -> SessionRows]
      /\ \A t \in Tokens : session'[t].owner = session[t].owner
      /\ \A t \in Tokens : session[t].owner \in gone => session'[t].status # "LIVE"
      /\ \A t \in Tokens : session[t].owner \notin gone => session'[t] = session[t]
  BY <1>2, Parts, RevokedRows DEF TypeOK
<1>5. /\ collection' \in [Collections -> Owners \cup {None}]
      /\ \A c \in Collections : collection'[c] = IF collection[c] \in gone THEN None ELSE collection[c]
  BY <1>2 DEF TypeOK
<1>6. request' \in [Requests -> SoundRows]
  BY Ending DEF DeleteGuest
<1>7. TypeOK'
  BY <1>2, <1>3, <1>4, <1>5, <1>6 DEF TypeOK, RequestsAreSound, SoundRows
<1>8. CollectionIdsAreFresh'
  BY <1>2, <1>5 DEF CollectionIdsAreFresh
<1>9. KeepsCollections
  BY <1>1, <1>3, <1>5 DEF KeepsCollections, ClaimedBy
<1>10. SessionsMatchPassword'
  BY <1>1, <1>2, <1>4 DEF SessionsMatchPassword, Active
<1>11. ErasureIsComplete'
  BY <1>2, <1>3, <1>4, <1>5 DEF ErasureIsComplete, ClaimedBy
<1>12. GuestIsSettled'
  BY <1>3, <1>4, <1>5 DEF GuestIsSettled, Unclaimed
<1> QED BY <1>6, <1>7, <1>8, <1>9, <1>10, <1>11, <1>12

-----------------------------------------------------------------------------
(* Accounts.                                                               *)

\* A sign-in to an account that is active by then, with the hash it has by then.
LEMMA SigningInIsSafe ==
  ASSUME AccountsInv, NEW cookie, NEW a \in Accounts, NEW h \in Hashes, SignsIn(cookie, a, h),
         request' \in [Requests -> SoundRows], account' \in [Accounts -> AccountRows],
         \A b \in Accounts \ {a} : account'[b] = account[b],
         account'[a].status = "ACTIVE", account'[a].hash = h,
         \/ account'[a] = account[a]
         \/ account[a].status = "NONE",
         UNCHANGED <<code, versions, collection>>
  PROVE  AccountsInv' /\ KeepsCollections
<1> USE AccountsAssumption DEF AccountsInv, RequestsAreSound
<1> DEFINE claimed == LiveGuestOf(cookie)
<1>1. claimed \subseteq Guests /\ \A g \in claimed : Unclaimed(g)
  BY DEF LiveGuestOf
<1>2. PICK t \in Tokens \ spent :
        /\ guest' = [g \in Guests |-> IF g \in claimed THEN [guest[g] EXCEPT !.claimedBy = a] ELSE guest[g]]
        /\ session' = [u \in Tokens |-> IF u = t THEN SessionFor(a, h)
                                        ELSE IF session[u].owner \in claimed
                                        THEN Revoked(session[u]) ELSE session[u]]
        /\ spent' = spent \cup {t, h}
  BY DEF SignsIn
<1> HIDE DEF claimed
<1>3. /\ guest' \in [Guests -> GuestRows]
      /\ \A g \in Guests : guest'[g].status = guest[g].status
      /\ \A g \in claimed : guest'[g].claimedBy = a /\ guest[g].status = "LIVE" /\ guest[g].claimedBy = None
      /\ \A g \in Guests \ claimed : guest'[g] = guest[g]
  BY <1>1, <1>2 DEF TypeOK, GuestRows, Unclaimed
<1>4. /\ session' \in [Tokens -> SessionRows] /\ session'[t] = SessionFor(a, h)
      /\ \A u \in Tokens \ {t} : session'[u].owner = session[u].owner
      /\ \A u \in Tokens \ {t} : session[u].owner \in claimed => session'[u].status # "LIVE"
      /\ \A u \in Tokens \ {t} : session[u].owner \notin claimed => session'[u] = session[u]
  BY <1>2, Parts, RevokedRows, NewRowsAreRows DEF TypeOK, Owners
<1>5. session'[t].owner = a /\ session'[t].proof = h /\ a \notin Guests
  BY <1>4 DEF SessionFor
<1>6. TypeOK'
  BY <1>2, <1>3, <1>4 DEF TypeOK, RequestsAreSound, SoundRows
<1>7. CollectionIdsAreFresh'
  BY <1>2 DEF CollectionIdsAreFresh
<1>8. KeepsCollections
  BY <1>1, <1>3 DEF KeepsCollections, ClaimedBy, Unclaimed
<1>9. SessionsMatchPassword'
  <2> SUFFICES ASSUME NEW u \in Tokens, session'[u].status = "LIVE", session'[u].owner \in Accounts
               PROVE  /\ account'[session'[u].owner].status = "ACTIVE"
                      /\ session'[u].proof = account'[session'[u].owner].hash
    BY DEF SessionsMatchPassword, Active
  <2>1. CASE u = t
    BY <1>5, <2>1
  <2>2. CASE u # t
    <3>1. session'[u] = session[u]
      BY <1>4, <2>2
    <3>2. Active(session[u].owner) /\ session[u].proof = account[session[u].owner].hash
      BY <3>1 DEF SessionsMatchPassword
    <3> QED BY <3>1, <3>2 DEF Active
  <2> QED BY <2>1, <2>2
<1>10. ErasureIsComplete'
  BY <1>3, <1>4, <1>5 DEF ErasureIsComplete, ClaimedBy
<1>11. GuestIsSettled'
  BY <1>1, <1>3, <1>4, <1>5 DEF GuestIsSettled, Unclaimed
<1> QED BY <1>6, <1>7, <1>8, <1>9, <1>10, <1>11

LEMMA SignInsAreSafe ==
  ASSUME AccountsInv, NEW r \in Requests, CreateAccountSession(r)
  PROVE  AccountsInv' /\ KeepsCollections
<1> USE AccountsAssumption DEF AccountsInv, RequestsAreSound
<1>1. PICK a \in Accounts, h \in Hashes : a = request[r].who /\ h = request[r].hash
  BY DEF CreateAccountSession, Writes, SoundRows, Sound
<1>2. /\ account[a].status = "ACTIVE" /\ account[a].hash = h /\ SignsIn(request[r].token, a, h)
      /\ UNCHANGED <<account, code, versions, collection>>
  BY <1>1 DEF CreateAccountSession, StillTrusted, Active
<1>3. request' \in [Requests -> SoundRows]
  BY Ending DEF CreateAccountSession
<1>4. account' \in [Accounts -> AccountRows]
  BY <1>2 DEF TypeOK
<1> QED BY <1>2, <1>3, <1>4, SigningInIsSafe

LEMMA RegisteringIsSafe ==
  ASSUME AccountsInv, Register
  PROVE  AccountsInv' /\ KeepsCollections
<1> USE AccountsAssumption DEF AccountsInv, RequestsAreSound
<1>1. PICK a \in Accounts, e \in Emails, h \in Hashes \ spent, t \in {None} \cup (Tokens \cap spent) :
        CreateAccount(a, e, h, t)
  BY DEF Register
<1>2. UNCHANGED <<code, versions, collection, request>>
  BY DEF Register
<1>3. /\ account[a].status = "NONE" /\ SignsIn(t, a, h)
      /\ account' = [account EXCEPT ![a] = [status |-> "ACTIVE", email |-> e, hash |-> h]]
  BY <1>1 DEF CreateAccount
<1>4. [status |-> "ACTIVE", email |-> e, hash |-> h] \in AccountRows
  BY DEF AccountRows
<1>5. /\ account' \in [Accounts -> AccountRows] /\ account'[a].status = "ACTIVE" /\ account'[a].hash = h
      /\ \A b \in Accounts \ {a} : account'[b] = account[b]
  BY <1>3, <1>4 DEF TypeOK
<1> QED BY <1>2, <1>3, <1>5, SigningInIsSafe

LEMMA RevokingIsSafe ==
  ASSUME AccountsInv, NEW r \in Requests, RevokeSession(r)
  PROVE  AccountsInv' /\ KeepsCollections
<1> USE DEF AccountsInv
<1>1. /\ session' = [session EXCEPT ![request[r].token] = Revoked(@)]
      /\ UNCHANGED <<account, guest, code, versions, collection, spent>>
  BY DEF RevokeSession
<1>2. /\ session' \in [Tokens -> SessionRows]
      /\ \A t \in Tokens : session'[t].owner = session[t].owner
      /\ \A t \in Tokens : session'[t] = session[t] \/ session'[t].status # "LIVE"
  BY <1>1, Parts, RevokedRows DEF TypeOK
<1>3. request' \in [Requests -> SoundRows]
  BY Ending DEF RevokeSession
<1>4. TypeOK' /\ RequestsAreSound' /\ CollectionIdsAreFresh' /\ KeepsCollections
  BY <1>1, <1>2, <1>3 DEF TypeOK, RequestsAreSound, SoundRows, CollectionIdsAreFresh, KeepsCollections, ClaimedBy
<1>5. SessionsMatchPassword' /\ GuestIsSettled'
  BY <1>1, <1>2 DEF SessionsMatchPassword, GuestIsSettled, Active, Unclaimed
<1>6. ErasureIsComplete'
  BY <1>1, <1>2 DEF ErasureIsComplete, ClaimedBy
<1> QED BY <1>4, <1>5, <1>6

LEMMA ExpiringIsSafe ==
  ASSUME AccountsInv, NEW t \in Tokens, Expire(t)
  PROVE  AccountsInv' /\ KeepsCollections
<1> USE DEF AccountsInv
<1>1. /\ session' = [session EXCEPT ![t].expired = TRUE]
      /\ UNCHANGED <<account, guest, code, versions, collection, request, spent>>
  BY DEF Expire
<1>2. /\ session' \in [Tokens -> SessionRows]
      /\ \A u \in Tokens : /\ session'[u].owner = session[u].owner
                           /\ session'[u].status = session[u].status
                           /\ session'[u].proof = session[u].proof
  BY <1>1, Parts DEF TypeOK, SessionRows
<1>3. TypeOK' /\ RequestsAreSound' /\ CollectionIdsAreFresh' /\ KeepsCollections
  BY <1>1, <1>2 DEF TypeOK, RequestsAreSound, CollectionIdsAreFresh, KeepsCollections, ClaimedBy
<1>4. SessionsMatchPassword' /\ GuestIsSettled'
  BY <1>1, <1>2 DEF SessionsMatchPassword, GuestIsSettled, Active, Unclaimed
<1>5. ErasureIsComplete'
  BY <1>1, <1>2 DEF ErasureIsComplete, ClaimedBy
<1> QED BY <1>3, <1>4, <1>5

\* Recovery: the sessions end with the password they were given for.
LEMMA RecoveringIsSafe ==
  ASSUME AccountsInv, Recover
  PROVE  AccountsInv' /\ KeepsCollections
<1> USE DEF AccountsInv
<1>1. PICK e \in Emails, h \in Hashes \ spent : RecoverAccount(e, h)
  BY DEF Recover
<1>2. PICK a \in AccountsOf(e) :
        /\ Active(a)
        /\ code' = [code EXCEPT ![a] = None]
        /\ account' = [account EXCEPT ![a].hash = h]
        /\ session' = [t \in Tokens |-> IF session[t].owner = a THEN Revoked(session[t]) ELSE session[t]]
        /\ spent' = spent \cup {h}
  BY <1>1 DEF RecoverAccount
<1>3. a \in Accounts /\ UNCHANGED <<guest, versions, collection, request>>
  BY <1>2 DEF AccountsOf, Recover
<1>4. /\ account' \in [Accounts -> AccountRows]
      /\ \A b \in Accounts : account'[b].status = account[b].status
      /\ \A b \in Accounts \ {a} : account'[b] = account[b]
  BY <1>2, <1>3, Parts DEF TypeOK, AccountRows
<1>5. /\ session' \in [Tokens -> SessionRows]
      /\ \A t \in Tokens : session'[t].owner = session[t].owner
      /\ \A t \in Tokens : session[t].owner = a => session'[t].status # "LIVE"
      /\ \A t \in Tokens : session[t].owner # a => session'[t] = session[t]
  BY <1>2, Parts, RevokedRows DEF TypeOK
<1>6. code' \in [Accounts -> Codes \cup {None}] /\ \A b \in Accounts \ {a} : code'[b] = code[b]
  BY <1>2, <1>3 DEF TypeOK
<1>7. TypeOK' /\ RequestsAreSound' /\ CollectionIdsAreFresh' /\ KeepsCollections
  BY <1>2, <1>3, <1>4, <1>5, <1>6 DEF TypeOK, RequestsAreSound, CollectionIdsAreFresh, KeepsCollections, ClaimedBy
<1>8. SessionsMatchPassword'
  BY <1>3, <1>4, <1>5 DEF SessionsMatchPassword, Active
<1>9. GuestIsSettled'
  BY <1>2, <1>3, <1>5, Parts, RevokedRows DEF GuestIsSettled, Unclaimed
<1>10. ErasureIsComplete'
  BY <1>2, <1>3, <1>4, <1>5, <1>6 DEF ErasureIsComplete, ClaimedBy, Active
<1> QED BY <1>7, <1>8, <1>9, <1>10

\* Writes for an account, which it has to be active for, or for whoever may own.
LEMMA WritesAreSafe ==
  ASSUME AccountsInv, NEW r \in Requests, RotateRecoveryCode(r) \/ SavePreference(r) \/ CreateCollection(r)
  PROVE  AccountsInv' /\ KeepsCollections
<1> USE AccountsAssumption DEF AccountsInv
<1>1. UNCHANGED <<account, guest, session>>
  BY DEF RotateRecoveryCode, SavePreference, CreateCollection
<1>2. request' \in [Requests -> SoundRows]
  BY Ending DEF RotateRecoveryCode, SavePreference, CreateCollection
<1>3. request[r] \in SoundRows /\ request[r].at = "WRITE"
  BY DEF RequestsAreSound, RotateRecoveryCode, SavePreference, CreateCollection, Writes
<1>4. CASE RotateRecoveryCode(r)
  <2>1. PICK a \in Accounts : a = request[r].who
    BY <1>3, <1>4 DEF RotateRecoveryCode, Writes, SoundRows, Sound
  <2>2. PICK c \in Codes \ spent : code' = [code EXCEPT ![a] = c] /\ spent' = spent \cup {c}
    BY <1>4, <2>1 DEF RotateRecoveryCode
  <2>3. Active(a) /\ UNCHANGED <<versions, collection>>
    BY <1>4, <2>1 DEF RotateRecoveryCode, StillTrusted
  <2>4. code' \in [Accounts -> Codes \cup {None}] /\ \A b \in Accounts \ {a} : code'[b] = code[b]
    BY <2>2 DEF TypeOK
  <2>5. TypeOK' /\ RequestsAreSound' /\ CollectionIdsAreFresh' /\ KeepsCollections
    BY <1>1, <1>2, <2>2, <2>3, <2>4
    DEF TypeOK, RequestsAreSound, SoundRows, CollectionIdsAreFresh, KeepsCollections, ClaimedBy
  <2>6. SessionsMatchPassword' /\ GuestIsSettled'
    BY <1>1, <2>3 DEF SessionsMatchPassword, GuestIsSettled, Active, Unclaimed
  <2>7. ErasureIsComplete'
    BY <1>1, <2>3, <2>4 DEF ErasureIsComplete, Active, ClaimedBy
  <2> QED BY <2>5, <2>6, <2>7
<1>5. CASE SavePreference(r)
  <2>1. PICK a \in Accounts : a = request[r].who
    BY <1>3, <1>5 DEF SavePreference, Writes, SoundRows, Sound
  <2>2. /\ versions' = IF Active(a) THEN [versions EXCEPT ![a] = @ + 1] ELSE versions
        /\ UNCHANGED <<code, collection, spent>>
    BY <1>5, <2>1 DEF SavePreference
  <2>3. /\ versions' \in [Accounts -> Nat] /\ \A b \in Accounts \ {a} : versions'[b] = versions[b]
        /\ versions'[a] = versions[a] \/ Active(a)
    BY <2>2 DEF TypeOK
  <2>4. TypeOK' /\ RequestsAreSound' /\ CollectionIdsAreFresh' /\ KeepsCollections
    BY <1>1, <1>2, <2>2, <2>3
    DEF TypeOK, RequestsAreSound, SoundRows, CollectionIdsAreFresh, KeepsCollections, ClaimedBy
  <2>5. SessionsMatchPassword' /\ GuestIsSettled'
    BY <1>1, <2>2 DEF SessionsMatchPassword, GuestIsSettled, Active, Unclaimed
  <2>6. ErasureIsComplete'
    BY <1>1, <2>2, <2>3 DEF ErasureIsComplete, Active, ClaimedBy
  <2> QED BY <2>4, <2>5, <2>6
<1>6. CASE CreateCollection(r)
  <2>1. PICK o \in Owners : o = request[r].who
    BY <1>3, <1>6 DEF CreateCollection, Writes, SoundRows, Sound
  <2>2. PICK c \in Collections \ spent : collection' = [collection EXCEPT ![c] = o] /\ spent' = spent \cup {c}
    BY <1>6, <2>1 DEF CreateCollection
  <2>3. MayOwn(o) /\ UNCHANGED <<code, versions>>
    BY <1>6, <2>1 DEF CreateCollection
  <2>4. /\ collection' \in [Collections -> Owners \cup {None}] /\ collection'[c] = o
        /\ \A d \in Collections \ {c} : collection'[d] = collection[d]
    BY <2>1, <2>2 DEF TypeOK
  <2>5. collection[c] = None
    BY <2>2 DEF CollectionIdsAreFresh
  <2>6. TypeOK' /\ RequestsAreSound' /\ CollectionIdsAreFresh'
    BY <1>1, <1>2, <2>2, <2>3, <2>4 DEF TypeOK, RequestsAreSound, SoundRows, CollectionIdsAreFresh
  <2>7. KeepsCollections
    BY <1>1, <2>4, <2>5 DEF KeepsCollections, ClaimedBy
  <2>8. SessionsMatchPassword'
    BY <1>1 DEF SessionsMatchPassword, Active
  <2>9. GuestIsSettled'
    BY <1>1, <2>3, <2>4 DEF GuestIsSettled, Unclaimed, MayOwn
  <2>10. ErasureIsComplete'
    BY <1>1, <2>3, <2>4 DEF ErasureIsComplete, Active, ClaimedBy, MayOwn
  <2> QED BY <2>6, <2>7, <2>8, <2>9, <2>10
<1> QED BY <1>4, <1>5, <1>6

\* Erasure: the account, the guests it claimed, and what is theirs.
LEMMA ErasingIsSafe ==
  ASSUME AccountsInv, NEW r \in Requests, Erase(r)
  PROVE  AccountsInv' /\ KeepsCollections
<1> USE AccountsAssumption DEF AccountsInv
<1>1. PICK a \in Accounts : a = request[r].who
  <2>1. request[r] \in SoundRows
    BY DEF RequestsAreSound
  <2> QED BY <2>1 DEF Erase, Writes, SoundRows, Sound
<1> DEFINE theirs == {a} \cup ClaimedBy(a)
<1>2. /\ collection' = [c \in Collections |-> IF collection[c] \in theirs THEN None ELSE collection[c]]
      /\ guest' = [g \in Guests |-> IF g \in ClaimedBy(a)
                                    THEN [status |-> "DELETED", claimedBy |-> None] ELSE guest[g]]
      /\ session' = [t \in Tokens |-> IF session[t].owner \in theirs THEN NoSession ELSE session[t]]
      /\ versions' = [versions EXCEPT ![a] = 0]
      /\ code' = [code EXCEPT ![a] = None]
      /\ account' = [account EXCEPT ![a] = [status |-> "DELETED", email |-> None, hash |-> None]]
      /\ spent' = spent
  BY <1>1 DEF Erase
<1>3. ClaimedBy(a) \subseteq Guests /\ theirs \subseteq Owners /\ None \notin theirs
  BY DEF ClaimedBy, Owners
<1>4. /\ guest' \in [Guests -> GuestRows]
      /\ \A g \in ClaimedBy(a) : guest'[g].status = "DELETED" /\ guest'[g].claimedBy = None
      /\ \A g \in Guests \ ClaimedBy(a) : guest'[g] = guest[g] /\ guest[g].claimedBy # a
  BY <1>2 DEF TypeOK, GuestRows, ClaimedBy
<1>5. /\ ClaimedBy(a)' = {}
      /\ \A b \in Accounts \ {a} : ClaimedBy(b)' = ClaimedBy(b) /\ ClaimedBy(b) \cap theirs = {}
  BY <1>3, <1>4 DEF ClaimedBy
<1> HIDE DEF theirs
<1>6. /\ collection' \in [Collections -> Owners \cup {None}]
      /\ \A c \in Collections : collection'[c] \notin theirs
      /\ \A c \in Collections : collection[c] \notin theirs => collection'[c] = collection[c]
      /\ \A c \in Collections : collection'[c] # None => collection'[c] = collection[c]
  BY <1>2, <1>3 DEF TypeOK
<1>7. /\ session' \in [Tokens -> SessionRows]
      /\ \A t \in Tokens : session[t].owner \in theirs => session'[t] = NoSession
      /\ \A t \in Tokens : session[t].owner \notin theirs => session'[t] = session[t]
  BY <1>2, NewRowsAreRows DEF TypeOK
<1>8. NoSession.owner = None /\ NoSession.status = "NONE"
  BY DEF NoSession
<1>9. /\ account' \in [Accounts -> AccountRows] /\ account'[a].status = "DELETED"
      /\ \A b \in Accounts \ {a} : account'[b] = account[b]
  <2>1. [status |-> "DELETED", email |-> None, hash |-> None] \in AccountRows
    BY DEF AccountRows
  <2> QED BY <1>2, <2>1 DEF TypeOK
<1>10. /\ code' \in [Accounts -> Codes \cup {None}] /\ code'[a] = None
       /\ versions' \in [Accounts -> Nat] /\ versions'[a] = 0
       /\ \A b \in Accounts \ {a} : code'[b] = code[b] /\ versions'[b] = versions[b]
  BY <1>2 DEF TypeOK
<1>11. request' \in [Requests -> SoundRows]
  BY Ending DEF Erase
<1>12. TypeOK' /\ RequestsAreSound'
  BY <1>2, <1>4, <1>6, <1>7, <1>9, <1>10, <1>11 DEF TypeOK, RequestsAreSound, SoundRows
<1>13. CollectionIdsAreFresh'
  BY <1>2, <1>6 DEF CollectionIdsAreFresh
<1>14. a \in theirs /\ \A b \in Accounts \ {a} : b \notin theirs
  BY <1>3 DEF theirs
<1>15. KeepsCollections
  BY <1>5, <1>6, <1>9, <1>14 DEF KeepsCollections
<1>16. SessionsMatchPassword'
  BY <1>7, <1>8, <1>9, <1>14 DEF SessionsMatchPassword, Active
<1>17. ErasureIsComplete'
  <2> SUFFICES ASSUME NEW b \in Accounts, account'[b].status = "DELETED"
               PROVE  /\ ClaimedBy(b)' = {} /\ code'[b] = None /\ versions'[b] = 0
                      /\ \A t \in Tokens : session'[t].owner # b
                      /\ \A c \in Collections : collection'[c] # b
    BY DEF ErasureIsComplete
  <2>1. CASE b = a
    BY <1>5, <1>6, <1>7, <1>8, <1>10, <1>14, <2>1
  <2>2. CASE b # a
    BY <1>5, <1>6, <1>7, <1>8, <1>9, <1>10, <2>2 DEF ErasureIsComplete
  <2> QED BY <2>1, <2>2
<1>18. GuestIsSettled'
  <2> SUFFICES ASSUME NEW g \in Guests, ~Unclaimed(g)'
               PROVE  /\ guest'[g].status # "LIVE" =>
                           guest'[g].claimedBy = None /\ \A c \in Collections : collection'[c] # g
                      /\ \A t \in Tokens : session'[t].owner = g => session'[t].status # "LIVE"
    BY DEF GuestIsSettled
  <2>1. CASE g \in ClaimedBy(a)
    <3>1. g \in theirs
      BY <2>1 DEF theirs
    <3> QED BY <1>4, <1>6, <1>7, <1>8, <2>1, <3>1
  <2>2. CASE g \notin ClaimedBy(a)
    <3>1. guest'[g] = guest[g] /\ ~Unclaimed(g)
      BY <1>4, <2>2 DEF Unclaimed
    <3> QED BY <1>6, <1>7, <1>8, <3>1 DEF GuestIsSettled
  <2> QED BY <2>1, <2>2
<1> QED BY <1>12, <1>13, <1>15, <1>16, <1>17, <1>18

-----------------------------------------------------------------------------
(* The specification.                                                      *)

LEMMA EveryStep == AccountsInv /\ [Next]_vars => AccountsInv' /\ KeepsCollections
<1> SUFFICES ASSUME AccountsInv, [Next]_vars PROVE AccountsInv' /\ KeepsCollections
  OBVIOUS
<1>1. ASSUME NEW r \in Requests, Ask(r) \/ ReadCredential(r) \/ Verify(r)
      PROVE  AccountsInv' /\ KeepsCollections
  BY <1>1, ReadersAreSafe
<1>2. ASSUME NEW r \in Requests, Commit(r)
      PROVE  AccountsInv' /\ KeepsCollections
  <2>1. CASE CreateGuestSession(r)
    BY <2>1, Ending, NewGuestIsSafe DEF CreateGuestSession
  <2> QED BY <1>2, <2>1, DeleteGuestIsSafe, SignInsAreSafe, RevokingIsSafe, WritesAreSafe, ErasingIsSafe,
    RefusalsChangeNothing DEF Commit
<1>3. CASE FirstVisit
  BY <1>3, NewGuestIsSafe DEF FirstVisit, AccountsInv, RequestsAreSound
<1>4. CASE Register
  BY <1>4, RegisteringIsSafe
<1>5. CASE Recover
  BY <1>5, RecoveringIsSafe
<1>6. ASSUME NEW t \in Tokens, Expire(t) PROVE AccountsInv' /\ KeepsCollections
  BY <1>6, ExpiringIsSafe
<1>7. CASE UNCHANGED vars
  <2>1. AccountsInv'
    BY <1>7 DEF vars, AccountsInv, TypeOK, RequestsAreSound, SoundRows, CollectionIdsAreFresh, SessionsMatchPassword,
      ErasureIsComplete, GuestIsSettled, Active, ClaimedBy, Unclaimed
  <2>2. KeepsCollections
    BY <1>7 DEF vars, KeepsCollections, ClaimedBy
  <2> QED BY <2>1, <2>2
<1> QED BY <1>1, <1>2, <1>3, <1>4, <1>5, <1>6, <1>7 DEF Next

\* identity-repository.ts:321: whatever a sign-in read before, whoever is signed in to an
\* account proved the password it has now.
THEOREM SessionsAlwaysMatchPassword == Spec => []SessionsMatchPassword
<1>1. AccountsInv => SessionsMatchPassword
  BY DEF AccountsInv
<1> QED BY <1>1, AccountsStartWell, EveryStep, PTL DEF Spec

\* account-erasure-repository.ts:33: nothing of an erased account is left or comes back.
THEOREM ErasureIsAlwaysComplete == Spec => []ErasureIsComplete
<1>1. AccountsInv => ErasureIsComplete
  BY DEF AccountsInv
<1> QED BY <1>1, AccountsStartWell, EveryStep, PTL DEF Spec

\* identity-repository.ts:83 and :204: a guest is claimed once or deleted, its token opens
\* nothing from then on, and what an account owns goes only with the account.
THEOREM GuestAlwaysHasOneFate == Spec => GuestHasOneFate
<1>1. AccountsInv => TypeOK /\ GuestIsSettled
  BY DEF AccountsInv
<1>2. AccountsInv /\ [Next]_vars =>
        [\A a \in Accounts, c \in Collections :
           /\ Active(a)
           /\ collection[c] \in {a} \cup ClaimedBy(a)
           => \/ collection'[c] = collection[c] /\ collection[c] \in {a} \cup ClaimedBy(a)'
              \/ account'[a].status = "DELETED"]_vars
  BY EveryStep DEF KeepsCollections
<1> QED BY <1>1, <1>2, AccountsStartWell, EveryStep, PTL DEF Spec, GuestHasOneFate

-----------------------------------------------------------------------------
(* Reviews.  What is public was read as it stands by the moderator who     *)
(* approved it, because a revision is written once: a reading that has the *)
(* number of the review is of the review, while its author is there.       *)

\* A moderator's reading of a review whose author is still there is of an earlier revision,
\* or it is the review as it stands: a revision is written once.
ReadingIsDated(m) ==
  LET v == seen[m].review IN
  v \in Reviews /\ Author(v) =>
    /\ seen[m].number <= review[v].number
    /\ seen[m].number = review[v].number => seen[m] = Reading(v)

\* What a moderator approved, on sale or not.
ApprovedAsRead == \A v \in Reviews : review[v].status = "APPROVED" => judged[v] = Reading(v)

ReviewsInv ==
  /\ ReviewsTypeOK /\ ApprovedAsRead /\ NoApprovedTwins
  /\ \A m \in Moderators : ReadingIsDated(m)

LEMMA ReviewsStartWell == ReviewsInit => ReviewsInv
<1> SUFFICES ASSUME ReviewsInit PROVE ReviewsInv
  OBVIOUS
<1> USE DEF ReviewsInit
<1>1. ReviewsTypeOK
  BY ReviewsAssumption DEF ReviewsTypeOK, ReviewRows, Readings, Nothing, NothingSeen, Statuses
<1>2. ApprovedAsRead /\ NoApprovedTwins
  BY DEF ApprovedAsRead, NoApprovedTwins, Nothing
<1>3. ASSUME NEW m \in Moderators PROVE ReadingIsDated(m)
  BY ReviewsAssumption DEF ReadingIsDated, NothingSeen
<1> QED BY <1>1, <1>2, <1>3 DEF ReviewsInv

LEMMA ReadingsAreReadings ==
  ASSUME ReviewsTypeOK, NEW v \in Reviews
  PROVE  /\ review[v] \in ReviewRows /\ Reading(v) \in Readings
         /\ Reading(v).review = v /\ Reading(v).number = review[v].number
BY DEF ReviewsTypeOK, ReviewRows, Readings, Reading

LEMMA UpsertKeepsReviews ==
  ASSUME ReviewsInv, NEW v \in Reviews, NEW t \in Texts, NEW s \in Stars, Upsert(v, t, s)
  PROVE  ReviewsInv'
<1> USE DEF ReviewsInv
<1>1. /\ v \in DOMAIN review /\ review[v] \in ReviewRows /\ review \in [Reviews -> ReviewRows]
      /\ written \in Nat /\ MaxReviews \in Nat /\ seen \in [Moderators -> Readings]
  BY ReviewsAssumption DEF ReviewsTypeOK
<1> DEFINE new == [status |-> "PENDING", number |-> review[v].number + 1, text |-> t,
                   stars |-> s, createdAt |-> written + 1, duplicate |-> Duplicates(v, t) # {}]
<1>2. /\ review' = [review EXCEPT ![v] = new] /\ written' = written + 1 /\ written < MaxReviews
      /\ UNCHANGED <<active, onSale, seen, judged>>
  BY DEF Upsert
<1>3. /\ new \in ReviewRows /\ new.status = "PENDING" /\ new.number = review[v].number + 1
      /\ review[v].number \in Nat
  BY <1>1 DEF ReviewRows, Statuses
<1> HIDE DEF new
<1>4. /\ review' \in [Reviews -> ReviewRows] /\ review'[v] = new
      /\ \A w \in Reviews \ {v} : review'[w] = review[w]
  BY <1>1, <1>2, <1>3
<1>5. ReviewsTypeOK'
  BY <1>1, <1>2, <1>4 DEF ReviewsTypeOK
<1>6. ApprovedAsRead'
  <2> SUFFICES ASSUME NEW w \in Reviews, review'[w].status = "APPROVED"
               PROVE  judged'[w] = Reading(w)'
    BY DEF ApprovedAsRead
  <2>1. w # v
    BY <1>3, <1>4
  <2> QED BY <1>2, <1>4, <2>1 DEF ApprovedAsRead, Reading
<1>7. NoApprovedTwins'
  <2> SUFFICES ASSUME NEW x \in Reviews, NEW y \in Reviews, x # y,
                      review'[x].text = review'[y].text, review'[x].status = "APPROVED",
                      Author(x)', review'[y].status = "APPROVED", Author(y)'
               PROVE  FALSE
    BY DEF NoApprovedTwins
  <2>1. x # v /\ y # v
    BY <1>3, <1>4
  <2> QED BY <1>2, <1>4, <2>1 DEF NoApprovedTwins, Author
<1>8. ASSUME NEW m \in Moderators PROVE ReadingIsDated(m)'
  <2> SUFFICES ASSUME NEW w \in Reviews, w = seen[m].review, Author(w)
               PROVE  /\ seen[m].number <= review'[w].number
                      /\ seen[m].number = review'[w].number => seen[m] = Reading(w)'
    BY <1>2 DEF ReadingIsDated, Author
  <2>1. /\ seen[m].number <= review[w].number
        /\ seen[m].number = review[w].number => seen[m] = Reading(w)
    BY DEF ReadingIsDated
  <2>2. CASE w # v
    BY <1>4, <2>1, <2>2 DEF Reading
  <2>3. CASE w = v
    <3>1. seen[m].number \in Nat
      BY <1>1 DEF Readings
    <3>2. seen[m].number < review'[w].number
      BY <1>3, <1>4, <2>1, <2>3, <3>1
    <3> QED BY <1>3, <1>4, <2>3, <3>1, <3>2
  <2> QED BY <2>2, <2>3
<1> QED BY <1>5, <1>6, <1>7, <1>8

\* A deletion or a decision changes the status of a review and nothing a reader gets.
LEMMA StatusLeavesReadings ==
  ASSUME ReviewsInv, NEW v \in Reviews, NEW status \in Statuses,
         review' = [review EXCEPT ![v].status = status], active' = active
  PROVE  /\ review' \in [Reviews -> ReviewRows]
         /\ review'[v].status = status
         /\ \A w \in Reviews \ {v} : review'[w] = review[w]
         /\ \A w \in Reviews : /\ Reading(w)' = Reading(w)
                               /\ review'[w].number = review[w].number
                               /\ review'[w].text = review[w].text
                               /\ Author(w)' <=> Author(w)
<1>1. review \in [Reviews -> ReviewRows] /\ review[v] \in ReviewRows
  BY DEF ReviewsInv, ReviewsTypeOK
<1>2. [review[v] EXCEPT !.status = status] \in ReviewRows
  BY <1>1 DEF ReviewRows
<1>3. review' = [review EXCEPT ![v] = [review[v] EXCEPT !.status = status]]
  OBVIOUS
<1>4. review' \in [Reviews -> ReviewRows]
  BY <1>1, <1>2, <1>3
<1>5. /\ review'[v] = [review[v] EXCEPT !.status = status]
      /\ \A w \in Reviews \ {v} : review'[w] = review[w]
  BY <1>1, <1>3
<1>6. /\ review'[v].status = status /\ review'[v].number = review[v].number
      /\ review'[v].text = review[v].text /\ review'[v].stars = review[v].stars
  BY <1>1, <1>5 DEF ReviewRows
<1> QED BY <1>4, <1>5, <1>6 DEF Reading, Author

LEMMA DeleteKeepsReviews ==
  ASSUME ReviewsInv, NEW v \in Reviews, DeleteOwned(v) PROVE ReviewsInv'
<1>1. /\ review' = [review EXCEPT ![v].status = "DELETED"]
      /\ UNCHANGED <<active, onSale, written, seen, judged>>
  BY DEF DeleteOwned
<1>2. "DELETED" \in Statuses
  BY DEF Statuses
<1>3. /\ review' \in [Reviews -> ReviewRows]
      /\ review'[v].status = "DELETED"
      /\ \A w \in Reviews \ {v} : review'[w] = review[w]
      /\ \A w \in Reviews : /\ Reading(w)' = Reading(w)
                            /\ review'[w].number = review[w].number
                            /\ review'[w].text = review[w].text
                            /\ Author(w)' <=> Author(w)
  BY <1>1, <1>2, StatusLeavesReadings
<1>4. ReviewsTypeOK'
  BY <1>1, <1>3 DEF ReviewsInv, ReviewsTypeOK
<1>5. ApprovedAsRead'
  BY <1>1, <1>3 DEF ReviewsInv, ApprovedAsRead
<1>6. NoApprovedTwins'
  BY <1>1, <1>3 DEF ReviewsInv, NoApprovedTwins
<1>7. ASSUME NEW m \in Moderators PROVE ReadingIsDated(m)'
  BY <1>1, <1>3 DEF ReviewsInv, ReadingIsDated
<1> QED BY <1>4, <1>5, <1>6, <1>7 DEF ReviewsInv

LEMMA ModerateKeepsReviews ==
  ASSUME ReviewsInv, NEW m \in Moderators, Moderate(m) PROVE ReviewsInv'
<1>1. PICK v \in Reviews, status \in {"REJECTED", "APPROVED"} :
        /\ v = seen[m].review /\ IsCurrent(m)
        /\ status = "APPROVED" => Rivals(v) = {}
        /\ Decide(m, v, status)
  <2>1. seen[m].review \in Reviews
    BY DEF Moderate, ReviewsInv, ReviewsTypeOK, Readings
  <2> QED BY <2>1 DEF Moderate
<1>2. /\ review' = [review EXCEPT ![v].status = status]
      /\ judged' = [judged EXCEPT ![v] = IF status = "APPROVED" THEN seen[m] ELSE @]
      /\ seen' = [seen EXCEPT ![m] = NothingSeen]
      /\ UNCHANGED <<active, onSale, written>>
  BY <1>1 DEF Decide
<1>3. status \in Statuses
  BY DEF Statuses
<1>4. /\ review' \in [Reviews -> ReviewRows]
      /\ review'[v].status = status
      /\ \A w \in Reviews \ {v} : review'[w] = review[w]
      /\ \A w \in Reviews : /\ Reading(w)' = Reading(w)
                            /\ review'[w].number = review[w].number
                            /\ review'[w].text = review[w].text
                            /\ Author(w)' <=> Author(w)
  BY <1>2, <1>3, StatusLeavesReadings
<1>5. /\ seen \in [Moderators -> Readings] /\ judged \in [Reviews -> Readings]
      /\ seen[m] \in Readings /\ judged[v] \in Readings
  BY DEF ReviewsInv, ReviewsTypeOK
<1>6. ReviewsTypeOK'
  <2>1. NothingSeen \in Readings
    BY DEF NothingSeen, Readings
  <2>2. seen' \in [Moderators -> Readings] /\ judged' \in [Reviews -> Readings]
    BY <1>2, <1>5, <2>1
  <2> QED BY <1>2, <1>4, <2>2 DEF ReviewsInv, ReviewsTypeOK
<1>7. ApprovedAsRead'
  <2> SUFFICES ASSUME NEW w \in Reviews, review'[w].status = "APPROVED"
               PROVE  judged'[w] = Reading(w)
    BY <1>4 DEF ApprovedAsRead
  <2>1. CASE w # v
    BY <1>2, <1>4, <1>5, <2>1 DEF ReviewsInv, ApprovedAsRead
  <2>2. CASE w = v
    <3>1. judged'[v] = seen[m]
      BY <1>2, <1>4, <1>5, <2>2
    <3>2. seen[m] = Reading(v)
      BY <1>1 DEF ReviewsInv, ReadingIsDated, IsCurrent
    <3> QED BY <2>2, <3>1, <3>2
  <2> QED BY <2>1, <2>2
<1>8. NoApprovedTwins'
  <2>1. ASSUME NEW x \in Reviews, x # v, status = "APPROVED", review[x].text = review[v].text,
               review[x].status = "APPROVED", Author(x)
        PROVE  FALSE
    BY <1>1, <2>1 DEF Rivals, Duplicates
  <2> SUFFICES ASSUME NEW x \in Reviews, NEW y \in Reviews, x # y,
                      review[x].text = review[y].text, review'[x].status = "APPROVED",
                      Author(x), review'[y].status = "APPROVED", Author(y)
               PROVE  FALSE
    BY <1>4 DEF NoApprovedTwins
  <2>2. CASE x # v /\ y # v
    BY <1>4, <2>2 DEF ReviewsInv, NoApprovedTwins
  <2>3. CASE x = v
    BY <1>4, <2>1, <2>3
  <2>4. CASE y = v
    BY <1>4, <2>1, <2>4
  <2> QED BY <2>2, <2>3, <2>4
<1>9. ASSUME NEW n \in Moderators PROVE ReadingIsDated(n)'
  <2>1. CASE n # m
    <3>1. seen'[n] = seen[n]
      BY <1>2, <1>5, <2>1
    <3> QED BY <1>4, <3>1 DEF ReviewsInv, ReadingIsDated
  <2>2. CASE n = m
    <3>1. seen'[n] = NothingSeen
      BY <1>2, <1>5, <2>2
    <3> QED BY <3>1, ReviewsAssumption DEF ReadingIsDated, NothingSeen
  <2> QED BY <2>1, <2>2
<1> QED BY <1>6, <1>7, <1>8, <1>9 DEF ReviewsInv

LEMMA EraseKeepsReviews ==
  ASSUME ReviewsInv, NEW a \in Authors, EraseAuthor(a) PROVE ReviewsInv'
<1>1. /\ active' = active \ {a}
      /\ review' = [v \in Reviews |-> IF AuthorOf[v] = a THEN Nothing ELSE review[v]]
      /\ UNCHANGED <<onSale, written, seen, judged>>
  BY DEF EraseAuthor
<1>2. \A v \in Reviews : review'[v] = IF AuthorOf[v] = a THEN Nothing ELSE review[v]
  BY <1>1
<1>3. Nothing \in ReviewRows /\ Nothing.status = "NONE"
  BY DEF Nothing, ReviewRows
<1>4. ReviewsTypeOK'
  <2>1. review' \in [Reviews -> ReviewRows]
    BY <1>1, <1>3 DEF ReviewsInv, ReviewsTypeOK
  <2> QED BY <1>1, <2>1 DEF ReviewsInv, ReviewsTypeOK
<1>5. ApprovedAsRead'
  BY <1>1, <1>2, <1>3 DEF ReviewsInv, ApprovedAsRead, Reading
<1>6. NoApprovedTwins'
  BY <1>1, <1>2, <1>3 DEF ReviewsInv, NoApprovedTwins, Author
<1>7. ASSUME NEW m \in Moderators PROVE ReadingIsDated(m)'
  BY <1>1, <1>2 DEF ReviewsInv, ReadingIsDated, Author, Reading
<1> QED BY <1>4, <1>5, <1>6, <1>7 DEF ReviewsInv

LEMMA ReviewsNextKeeps == ReviewsInv /\ [ReviewsNext]_reviewVars => ReviewsInv'
<1> SUFFICES ASSUME ReviewsInv, [ReviewsNext]_reviewVars PROVE ReviewsInv'
  OBVIOUS
<1>1. CASE UNCHANGED reviewVars
  BY <1>1 DEF ReviewsInv, reviewVars, ReviewsTypeOK, ApprovedAsRead, NoApprovedTwins, Author,
              Reading, ReadingIsDated
<1>2. ASSUME NEW v \in Reviews, ChangeCatalog(v) PROVE ReviewsInv'
  BY <1>2 DEF ChangeCatalog, ReviewsInv, ReviewsTypeOK, ApprovedAsRead, NoApprovedTwins,
              Author, Reading, ReadingIsDated
<1>3. ASSUME NEW m \in Moderators, NEW n \in Moderators, NEW r \in Readings,
             seen' = [seen EXCEPT ![m] = r],
             r = NothingSeen \/ \E v \in Reviews : r = Reading(v),
             UNCHANGED <<active, onSale, review, written, judged>>
      PROVE  ReadingIsDated(n)'
  <2>1. seen \in [Moderators -> Readings]
    BY DEF ReviewsInv, ReviewsTypeOK
  <2>2. CASE n # m
    BY <1>3, <2>1, <2>2 DEF ReviewsInv, ReadingIsDated, Author, Reading
  <2>3. CASE n = m /\ r = NothingSeen
    BY <1>3, <2>1, <2>3, ReviewsAssumption DEF ReadingIsDated, NothingSeen
  <2>4. ASSUME n = m, NEW v \in Reviews, r = Reading(v) PROVE ReadingIsDated(n)'
    <3>1. seen'[n] = Reading(v) /\ Reading(v)' = Reading(v) /\ review' = review
      BY <1>3, <2>1, <2>4 DEF Reading
    <3>2. seen'[n].review = v /\ seen'[n].number = review[v].number /\ review[v].number \in Nat
      BY <3>1, ReadingsAreReadings DEF ReviewsInv, ReviewRows
    <3> QED BY <3>1, <3>2 DEF ReadingIsDated
  <2> QED BY <1>3, <2>2, <2>3, <2>4
<1>4. ASSUME NEW m \in Moderators, NEW r \in Readings,
             seen' = [seen EXCEPT ![m] = r],
             r = NothingSeen \/ \E v \in Reviews : r = Reading(v),
             UNCHANGED <<active, onSale, review, written, judged>>
      PROVE  ReviewsInv'
  <2>1. \A n \in Moderators : ReadingIsDated(n)'
    BY <1>3, <1>4
  <2>2. ReviewsTypeOK'
    BY <1>4 DEF ReviewsInv, ReviewsTypeOK
  <2> QED BY <1>4, <2>1, <2>2 DEF ReviewsInv, ApprovedAsRead, NoApprovedTwins, Author, Reading
<1>5. ASSUME NEW m \in Moderators, Open(m) PROVE ReviewsInv'
  <2>1. PICK v \in Reviews : seen' = [seen EXCEPT ![m] = Reading(v)]
    BY <1>5 DEF Open
  <2>2. PICK r \in Readings : r = Reading(v)
    BY ReadingsAreReadings DEF ReviewsInv
  <2> QED BY <1>4, <1>5, <2>1, <2>2 DEF Open
<1>6. ASSUME NEW m \in Moderators, ModerationRefused(m) PROVE ReviewsInv'
  <2>1. NothingSeen \in Readings
    BY DEF NothingSeen, Readings
  <2> QED BY <1>4, <1>6, <2>1 DEF ModerationRefused
<1> QED BY <1>1, <1>2, <1>5, <1>6, UpsertKeepsReviews, DeleteKeepsReviews, ModerateKeepsReviews,
           EraseKeepsReviews DEF ReviewsNext

\* customer-review-repository.ts:266, :268 (STALE_REVISION, hashLock): what the public reads
\* is the revision a moderator read, and a text is approved for one review only, whatever
\* authors edit, delete or erase while a moderator makes up their mind.
THEOREM ReviewsAreAlwaysSound == ReviewsSpec => []PublicationIsSound
<1>1. ReviewsInv => PublicationIsSound
  BY DEF ReviewsInv, PublicationIsSound, PublishedAsModerated, ApprovedAsRead, Approved
<1> QED BY <1>1, ReviewsStartWell, ReviewsNextKeeps, PTL DEF ReviewsSpec
=============================================================================
