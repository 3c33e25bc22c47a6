--------------------------- MODULE AccountSecurity ---------------------------
(***************************************************************************)
(* The account security screen of the web client: a new recovery code, a   *)
(* password reset by such a code, deletion of the account.                 *)
(*                                                                         *)
(* AccountPanel mounts the screen anew for every principal and disables it *)
(* while it is itself busy with the session.  An action is two requests    *)
(* (the session, then the write) under one AbortController; a write that   *)
(* the screen no longer waits for may still reach the server, and later    *)
(* than the next one.                                                      *)
(*                                                                         *)
(* Neither write says which account it is meant for: the server takes the  *)
(* one of the session the request carries, and wants its password.  The    *)
(* cookie is one for all tabs, and accounts may have the same password.    *)
(***************************************************************************)
EXTENDS Naturals, Sequences, FiniteSets

CONSTANTS
  Owners,        \* accounts
  Nobody,        \* signed out, or a guest
  Passwords,
  MaxCodes,      \* bound: recovery codes ever issued
  MaxActions,    \* bound: actions the user starts
  MaxSignIns     \* bound: changes of the session outside this screen

ASSUME SecurityAssumption ==
  /\ Nobody \notin Owners
  /\ MaxCodes \in Nat /\ MaxActions \in Nat /\ MaxSignIns \in Nat

VARIABLES
  session,    \* whom the browser's cookie stands for
  members,    \* accounts there are
  passwordOf, \* what an account's password hash verifies
  codeOf,     \* the recovery code of an account, 0 if it has none
  issued,     \* codes issued so far: each is a new number
  security,   \* the screen: its principal, disabled, pending, and recoveryCode, by the
              \* action that brought it
  actions,    \* the actions started so far
  signIns,    \* how often the session changed elsewhere
  outdated    \* ghost: codes ended by somebody the screen does not wait for

serverVars == <<session, members, passwordOf, codeOf, issued, outdated>>
securityVars == <<serverVars, security, actions, signIns>>

Kinds == {"ROTATE", "RESET", "DELETE"}
Steps == {"CHECK", "SENT", "ANSWERED", "OVER"}
Screens == [principal : Owners \cup {Nobody}, disabled : BOOLEAN,
            pending : 0 .. MaxActions, code : 0 .. MaxActions]
Actions ==
  [kind : Kinds, account : Owners,                 \* the one on screen, or of the email
   password : Passwords, code : 0 .. MaxCodes,     \* as typed
   cookie : Owners \cup {Nobody},                  \* whose session its last request carries
   asked : 0 .. MaxSignIns, sent : 0 .. MaxSignIns, \* ghost: signIns at the check, at the write
   step : Steps, result : 0 .. MaxCodes, ok : BOOLEAN]

SecurityTypeOK ==
  /\ session \in members \cup {Nobody} /\ members \subseteq Owners
  /\ passwordOf \in [Owners -> Passwords]
  /\ codeOf \in [Owners -> 0 .. issued] /\ issued \in 0 .. MaxCodes
  /\ security \in Screens
  /\ \A n \in DOMAIN actions : actions[n] \in Actions
  /\ signIns \in 0 .. MaxSignIns /\ outdated \subseteq 1 .. MaxCodes

ScreenFor(p) == [principal |-> p, disabled |-> FALSE, pending |-> 0, code |-> 0]
SecurityInit ==
  /\ session \in Owners \cup {Nobody} /\ members = Owners
  /\ passwordOf \in [Owners -> Passwords] /\ codeOf = [a \in Owners |-> 0] /\ issued = 0
  /\ security = ScreenFor(session)
  /\ actions = <<>> /\ signIns = 0 /\ outdated = {}

-----------------------------------------------------------------------------
(* Around the screen.                                                      *)

\* A session of a is revoked.  A deletion under way looks at its session last; a new code
\* only at the password, when the session has been looked up before.
Revoked(a) ==
  [m \in DOMAIN actions |->
     IF actions[m].kind = "DELETE" /\ actions[m].step = "SENT" /\ actions[m].cookie = a
     THEN [actions[m] EXCEPT !.cookie = Nobody] ELSE actions[m]]

\* Another tab signs out, or in: then the session there was goes on, without the cookie.
SessionMoves ==
  /\ signIns < MaxSignIns /\ signIns' = signIns + 1
  /\ session' \in (members \cup {Nobody}) \ {session}
  /\ actions' = IF session' = Nobody THEN Revoked(session) ELSE actions
  /\ UNCHANGED <<members, passwordOf, codeOf, issued, security, outdated>>

\* Another device replaces the recovery code.
CodeReplaced(a) ==
  /\ a \in members /\ issued < MaxCodes
  /\ issued' = issued + 1
  /\ codeOf' = [codeOf EXCEPT ![a] = issued + 1]
  /\ outdated' = outdated \cup ({codeOf[a]} \ {0})
  /\ UNCHANGED <<session, members, passwordOf, security, actions, signIns>>

\* The panel is busy: the effect on disabled aborts and hides the code.
Disable ==
  /\ ~security.disabled
  /\ security' = [ScreenFor(security.principal) EXCEPT !.disabled = TRUE]
  /\ UNCHANGED <<serverVars, actions, signIns>>

\* The panel has asked for the session; another principal mounts the screen anew.
PanelAnswers ==
  /\ security.disabled
  /\ security' = ScreenFor(session)
  /\ UNCHANGED <<serverVars, actions, signIns>>

\* onSessionInvalidated: the panel shows nobody and asks again.
Invalidated == [ScreenFor(Nobody) EXCEPT !.disabled = TRUE]

HideCode ==
  /\ security.code # 0
  /\ security' = [security EXCEPT !.code = 0]
  /\ UNCHANGED <<serverVars, actions, signIns>>

-----------------------------------------------------------------------------
(* action(event, kind)                                                     *)

Awaited(n) == security.pending = n

\* Mutant: the code stays on screen until the next one arrives.
CodeWhile_Kept(kind) == security.code

CodeWhile(kind) == IF kind = "ROTATE" THEN 0 ELSE security.code

\* The check of the session goes out, or for a reset the write itself.
BeginAction(kind, a, w, c) ==
  LET n == Len(actions) + 1 IN
  /\ security.pending = 0 /\ ~security.disabled /\ n <= MaxActions
  /\ IF kind = "RESET" THEN security.principal = Nobody /\ c \in 1 .. issued
                       ELSE security.principal = a /\ c = 0
  /\ actions' = Append(actions,
       [kind |-> kind, account |-> a, password |-> w, code |-> c, cookie |-> session,
        asked |-> signIns, sent |-> signIns, result |-> 0, ok |-> FALSE,
        step |-> IF kind = "RESET" THEN "SENT" ELSE "CHECK"])
  /\ security' = [security EXCEPT !.pending = n, !.code = CodeWhile(kind)]
  /\ UNCHANGED <<serverVars, signIns>>

Step(n, s) == actions' = [actions EXCEPT ![n].step = s]
Send(n) == actions' = [actions EXCEPT ![n] = [@ EXCEPT !.step = "SENT", !.cookie = session,
                                                       !.sent = signIns]]

\* checkAccount: aborted, the account as shown, or another one or no answer of 200.
\* The write goes out with the cookie there is by then.
CheckAccount(n) ==
  /\ actions[n].step = "CHECK"
  /\ \/ ~Awaited(n) /\ Step(n, "OVER") /\ UNCHANGED security
     \/ Awaited(n) /\ actions[n].cookie = actions[n].account /\ Send(n) /\ UNCHANGED security
     \/ Awaited(n) /\ Step(n, "OVER") /\ security' = Invalidated
  /\ UNCHANGED <<serverVars, signIns>>

\* The server handles a write it has got, awaited or not.
Outdates(n, a) == IF Awaited(n) THEN outdated ELSE outdated \cup ({codeOf[a]} \ {0})
Replied(n, ok, c) == [actions[n] EXCEPT !.step = "ANSWERED", !.ok = ok, !.result = c]
Replies(n, ok, c) == actions' = [actions EXCEPT ![n] = Replied(n, ok, c)]

\* The session's account is still there, and the password is its own.
Verified(n) ==
  LET x == actions[n] IN x.cookie \in members /\ passwordOf[x.cookie] = x.password

Rotated(n) ==
  LET a == actions[n].cookie IN
  /\ actions[n].kind = "ROTATE" /\ actions[n].step = "SENT"
  /\ Verified(n) /\ issued < MaxCodes
  /\ issued' = issued + 1 /\ codeOf' = [codeOf EXCEPT ![a] = issued + 1]
  /\ outdated' = Outdates(n, a)
  /\ Replies(n, TRUE, issued + 1)
  /\ UNCHANGED <<session, members, passwordOf, security, signIns>>

\* The code is used up, the password is the new one and every session is revoked.
SignedOut(a) == IF session = a THEN Nobody ELSE session
WasReset(n) ==
  LET a == actions[n].account IN
  /\ actions[n].kind = "RESET" /\ actions[n].step = "SENT"
  /\ a \in members /\ codeOf[a] = actions[n].code
  /\ codeOf' = [codeOf EXCEPT ![a] = 0] /\ outdated' = Outdates(n, a)
  /\ passwordOf' = [passwordOf EXCEPT ![a] = actions[n].password]
  /\ session' = SignedOut(a)
  /\ actions' = [Revoked(a) EXCEPT ![n] = Replied(n, TRUE, 0)]
  /\ UNCHANGED <<members, issued, security, signIns>>

\* The answer, if it arrives, also clears whatever cookie there is.
Deleted(n) ==
  LET a == actions[n].cookie IN
  /\ actions[n].kind = "DELETE" /\ actions[n].step = "SENT" /\ Verified(n)
  /\ members' = members \ {a} /\ session' \in {Nobody, SignedOut(a)}
  /\ codeOf' = [codeOf EXCEPT ![a] = 0] /\ outdated' = Outdates(n, a)
  /\ Replies(n, TRUE, 0)
  /\ UNCHANGED <<passwordOf, issued, security, signIns>>

\* A session that is no longer the cookie's may have been revoked.
Denied(n) ==
  LET x == actions[n] IN
  /\ x.step = "SENT"
  /\ IF x.kind = "RESET" THEN x.account \notin members \/ codeOf[x.account] # x.code
                         ELSE ~Verified(n) \/ session # x.cookie
  /\ Replies(n, FALSE, 0)
  /\ UNCHANGED <<serverVars, security, signIns>>

\* pending.current === controller, and not aborted
Heeded(n) == Awaited(n)

Idle == [security EXCEPT !.pending = 0]
Answered(n) ==
  LET x == actions[n] IN
  /\ x.step = "ANSWERED" /\ Step(n, "OVER")
  /\ security' = IF ~Heeded(n) THEN security
                 ELSE IF x.ok /\ x.kind = "DELETE" THEN Invalidated
                 ELSE IF x.ok /\ x.kind = "ROTATE" THEN [Idle EXCEPT !.code = n]
                 ELSE Idle
  /\ UNCHANGED <<serverVars, signIns>>

\* The network fails, or 20 s pass, at either request: what was sent may yet arrive.
ActionLost(n) ==
  /\ Awaited(n) /\ actions[n].step # "OVER"
  /\ security' = Idle
  /\ \/ UNCHANGED actions
     \/ Step(n, "OVER")
  /\ UNCHANGED <<serverVars, signIns>>

SecurityNext ==
  \/ SessionMoves \/ Disable \/ PanelAnswers \/ HideCode
  \/ \E a \in Owners :
       \/ CodeReplaced(a)
       \/ \E k \in Kinds, w \in Passwords, c \in 0 .. MaxCodes : BeginAction(k, a, w, c)
  \/ \E n \in DOMAIN actions :
       CheckAccount(n) \/ Rotated(n) \/ WasReset(n) \/ Deleted(n) \/ Denied(n)
         \/ Answered(n) \/ ActionLost(n)

SecuritySpec == SecurityInit /\ [][SecurityNext]_securityVars

-----------------------------------------------------------------------------
\* account-security.tsx:147: the screen shows the code once and never again, so the code
\* on it has to work, whatever was lost or late.  It is the one the server holds, and the
\* password typed for it is the password of that account; only another device, or a request
\* that was given up and still arrived, may have replaced it.  The account is the one on
\* screen, unless the session changed after the answer to the check and before the write,
\* which no request of these says.  And the screen never waits for an action that is over.
CodeOnScreenWorks ==
  /\ security.code # 0 =>
       LET x == actions[security.code] IN
       /\ ~security.disabled /\ x.kind = "ROTATE" /\ x.account = security.principal
       /\ \/ codeOf[x.cookie] = x.result /\ passwordOf[x.cookie] = x.password
          \/ x.result \in outdated
          \/ x.cookie \notin members
       /\ x.cookie # x.account => x.asked < x.sent
  /\ security.pending # 0 =>
       /\ actions[security.pending].step # "OVER"
       /\ actions[security.pending].kind # "RESET" =>
            actions[security.pending].account = security.principal
=============================================================================
