---------------------------- MODULE PrivateScreen ----------------------------
(***************************************************************************)
(* What the web client shows of a person's own data.  The principal is in  *)
(* a cookie all tabs of the browser share, so it changes under this tab.   *)
(* A request is answered for the principal the cookie stands for when it   *)
(* is sent; the answer arrives later, or not at all.                       *)
(*                                                                         *)
(* AccountPanel learns the principal and tells App, which remounts the     *)
(* reviews and closes what is private.  Reviews and the mascara brief load *)
(* in three requests, session - data - session, and write in two: a look   *)
(* at the session, and the write, which the server may get although nobody *)
(* waits for its answer any more.                                          *)
(***************************************************************************)
EXTENDS Naturals, FiniteSets

CONSTANTS
  Accounts, Guests, Anonymous,   \* what a cookie stands for
  Unknown,                       \* nothing heard yet, nothing shown
  MaxSwitches,                   \* bound: changes of the cookie
  MaxEdits                       \* bound: edits of the brief after a load

Principals == Accounts \cup Guests \cup {Anonymous}
Views == {"REVIEW", "BRIEF"}

ASSUME ScreenAssumption ==
  MaxSwitches \in Nat /\ MaxEdits \in Nat /\ Anonymous \notin Accounts \cup Guests
  /\ Unknown \notin Principals

VARIABLES
  cookie,     \* the principal of the browser's cookie
  known,      \* App: principalRef
  panel,      \* AccountPanel: its request and identityKey
  capture,    \* ProductObservationCapture: its step and the session it was given
  view,       \* CustomerReviews and useMascaraBrief
  switches,   \* ghost: changes of the cookie so far
  made        \* ghost: the last write the server has made

screenVars == <<cookie, known, panel, capture, view, switches, made>>

Panels == [step : {"IDLE", "SESSION", "LIST", "AUTH", "SIGNED_IN"}, answer : Principals,
           identity : Principals \cup {Unknown}]
Captures == [step : {"CLOSED", "SESSION", "OPEN"}, answer : Principals]
ViewRows ==
  [phase : {"CLOSED", "LOADING", "READY", "ERROR"},
   step : {"NONE", "SESSION", "DATA", "CONFIRM"},       \* of a load
   write : {"NONE", "CHECK", "SENT", "TAKEN", "REFUSED", "RECHECK"},    \* of a write
   expected : Accounts \cup {Unknown},                  \* its expectedAccountId, if it has one
   look : Principals \cup {Unknown},                    \* of a comparison: its look at the session
   first : Principals, answer : Principals,             \* the session read first; the last answer
   shown : Principals,                                  \* the account the view is for
   text : Principals \cup {Unknown},                    \* ghost: whose data it shows
   since : Nat,                                         \* ghost: switches when the load began
   edits : Nat, draft : Nat, sent : Nat]                \* edits made, in the draft, in the write
Writes == [by : Principals \cup {Unknown},               \* the account it is made for
           on : Principals \cup {Unknown},               \* the account, the data and the load
           text : Principals \cup {Unknown}, since : Nat]    \* that were shown

ScreenTypeOK ==
  /\ cookie \in Principals /\ known \in Principals \cup {Unknown}
  /\ panel \in Panels /\ capture \in Captures
  /\ view \in [Views -> ViewRows]
  /\ switches \in 0 .. MaxSwitches /\ made \in Writes

NoCapture == [step |-> "CLOSED", answer |-> Anonymous]
NoView == [phase |-> "CLOSED", step |-> "NONE", write |-> "NONE", expected |-> Unknown,
           look |-> Unknown, first |-> Anonymous, answer |-> Anonymous, shown |-> Anonymous,
           text |-> Unknown, since |-> 0, edits |-> 0, draft |-> 0, sent |-> 0]
\* The effect of a mount or a retry: GET /api/v1/session goes out.
Loading == [NoView EXCEPT !.phase = "LOADING", !.step = "SESSION", !.answer = cookie,
                          !.since = switches]
Failed == [NoView EXCEPT !.phase = "ERROR"]
NoWrite == [by |-> Unknown, on |-> Unknown, text |-> Unknown, since |-> 0]

ScreenInit ==
  /\ cookie \in Principals /\ known = Unknown
  /\ panel = [step |-> "SESSION", answer |-> cookie, identity |-> Unknown]
  /\ capture = NoCapture
  /\ view = [v \in Views |-> NoView]
  /\ switches = 0 /\ made = NoWrite

SetView(v, row) == view' = [view EXCEPT ![v] = row]

-----------------------------------------------------------------------------
(* App and AccountPanel *)

\* sessionChanged: reviews are remounted, and unless this is the first thing heard
\* or a guest session begins, everything private is closed.
SessionChanged(next) ==
  LET changed == known # next
      begins == known \in {Unknown, Anonymous} /\ next \in Guests
      closes == changed /\ known # Unknown /\ ~begins
  IN /\ known' = next
     /\ view' = [v \in Views |->
                   IF changed /\ v = "REVIEW" /\ view[v].phase # "CLOSED" THEN Loading
                   ELSE IF closes /\ v = "BRIEF" THEN NoView ELSE view[v]]
     /\ capture' = IF closes THEN NoCapture ELSE capture

\* updatePrincipal: App is told when the panel's own idea of the principal changes.
UpdatePrincipal(next) ==
  IF panel.identity = next THEN UNCHANGED <<known, view, capture>> ELSE SessionChanged(next)

\* The effect on refresh, focus and mount: whatever was pending is aborted.
Refresh(identity) == [step |-> "SESSION", answer |-> cookie, identity |-> identity]

\* Nothing is pending.
Heard(identity) == [step |-> "IDLE", answer |-> Anonymous, identity |-> identity]

PanelRefresh ==
  /\ panel' = Refresh(panel.identity)
  /\ UNCHANGED <<cookie, known, capture, view, switches, made>>

PanelSession ==
  /\ panel.step = "SESSION"
  /\ UpdatePrincipal(panel.answer)
  /\ panel' = IF panel.answer = Anonymous
              THEN Heard(Anonymous)
              ELSE [panel EXCEPT !.step = "LIST", !.identity = panel.answer, !.answer = cookie]
  /\ UNCHANGED <<cookie, switches, made>>

\* The list of private products; 401 when nobody is signed in any more.
PanelList ==
  /\ panel.step = "LIST"
  /\ IF panel.answer = Anonymous
     THEN /\ UpdatePrincipal(Anonymous)
          /\ panel' = Heard(Anonymous)
     ELSE /\ panel' = Heard(panel.identity)
          /\ UNCHANGED <<known, view, capture>>
  /\ UNCHANGED <<cookie, switches, made>>

\* A failed session request means anonymous, a failed list only no history.
PanelFails ==
  /\ \/ /\ panel.step = "SESSION" /\ UpdatePrincipal(Anonymous)
        /\ panel' = Heard(Anonymous)
     \/ /\ panel.step = "LIST" /\ UNCHANGED <<known, view, capture>>
        /\ panel' = Heard(panel.identity)
  /\ UNCHANGED <<cookie, switches, made>>

\* REGISTER, LOGIN and LOGOUT: the answer sets the cookie.
PanelAuth(p) ==
  /\ panel.step = "IDLE" /\ p \in Accounts \cup {Anonymous} /\ p # cookie
  /\ switches < MaxSwitches /\ switches' = switches + 1
  /\ cookie' = p
  /\ panel' = [panel EXCEPT !.step = "AUTH", !.answer = p]
  /\ UNCHANGED <<known, capture, view, made>>

\* The panel forgets the old principal; whom it has signed in is still to be parsed.
PanelAuthDone ==
  /\ panel.step = "AUTH"
  /\ UpdatePrincipal(Anonymous)
  /\ panel' = IF panel.answer = Anonymous
              THEN Refresh(Anonymous)
              ELSE [panel EXCEPT !.step = "SIGNED_IN", !.identity = Anonymous]
  /\ UNCHANGED <<cookie, switches, made>>

PanelSignedIn ==
  /\ panel.step = "SIGNED_IN"
  /\ UpdatePrincipal(panel.answer)
  /\ panel' = Refresh(panel.answer)
  /\ UNCHANGED <<cookie, switches, made>>

\* No answer, or none that can be read.
PanelAuthLost ==
  /\ panel.step \in {"AUTH", "SIGNED_IN"}
  /\ panel' = Heard(panel.identity)
  /\ UNCHANGED <<cookie, known, capture, view, switches, made>>

\* onSessionInvalidated: the security screen has met another session, or has ended this one.
PanelInvalidated ==
  /\ panel.step = "IDLE" /\ panel.identity \in Accounts
  /\ UpdatePrincipal(Anonymous)
  /\ panel' = Refresh(Anonymous)
  /\ UNCHANGED <<cookie, switches, made>>

\* Another tab signs in or out.
OtherTab(p) ==
  /\ p # cookie
  /\ switches < MaxSwitches /\ switches' = switches + 1
  /\ cookie' = p
  /\ UNCHANGED <<known, panel, capture, view, made>>

-----------------------------------------------------------------------------
(* ProductObservationCapture *)

\* POST /api/v1/guest-sessions gives an anonymous visitor a guest session.
CaptureOpen ==
  /\ capture.step = "CLOSED"
  /\ \E p \in IF cookie = Anonymous THEN Guests ELSE {cookie} :
       /\ cookie' = p
       /\ p # cookie => switches < MaxSwitches
       /\ switches' = IF p = cookie THEN switches ELSE switches + 1
       /\ capture' = [step |-> "SESSION", answer |-> p]
  /\ UNCHANGED <<known, panel, view, made>>

\* App hears of the session from the capture, and the panel refreshes.
CaptureSession ==
  /\ capture.step = "SESSION"
  /\ LET changed == known # capture.answer
         begins == known \in {Unknown, Anonymous} /\ capture.answer \in Guests
         stays == ~changed \/ known = Unknown \/ begins
     IN /\ known' = capture.answer
        /\ view' = [v \in Views |->
                      IF changed /\ v = "REVIEW" /\ view[v].phase # "CLOSED" THEN Loading
                      ELSE IF ~stays /\ v = "BRIEF" THEN NoView ELSE view[v]]
        /\ capture' = [NoCapture EXCEPT !.step = IF stays THEN "OPEN" ELSE "CLOSED"]
  /\ panel' = Refresh(panel.identity)
  /\ UNCHANGED <<cookie, switches, made>>

-----------------------------------------------------------------------------
(* CustomerReviewsWorkspace and useMascaraBrief: loading *)

Open(v) ==
  /\ view[v].phase \in {"CLOSED", "ERROR"}
  /\ SetView(v, Loading)
  /\ UNCHANGED <<cookie, known, panel, capture, switches, made>>

\* A guest has no review and an empty brief; for an account its data are requested.
LoadSession(v) ==
  LET s == view[v] IN
  /\ s.step = "SESSION"
  /\ SetView(v, IF s.answer \in Accounts
                THEN [s EXCEPT !.step = "DATA", !.first = s.answer, !.answer = cookie]
                ELSE [NoView EXCEPT !.phase = "READY", !.shown = s.answer])
  /\ UNCHANGED <<cookie, known, panel, capture, switches, made>>

LoadData(v) ==
  LET s == view[v] IN
  /\ s.step = "DATA"
  /\ SetView(v, IF s.answer \in Accounts
                THEN [s EXCEPT !.step = "CONFIRM", !.text = s.answer, !.answer = cookie]
                ELSE Failed)
  /\ UNCHANGED <<cookie, known, panel, capture, switches, made>>

\* Mutant: the data are shown without looking at the session again.
LoadConfirm_Trusting(v) ==
  /\ view[v].step = "CONFIRM"
  /\ SetView(v, [NoView EXCEPT !.phase = "READY", !.shown = view[v].first, !.text = view[v].text,
                               !.since = view[v].since])
  /\ UNCHANGED <<cookie, known, panel, capture, switches, made>>

\* The session is read again: the data are shown if it is the same as before.
LoadConfirm(v) ==
  LET s == view[v] IN
  /\ s.step = "CONFIRM"
  /\ SetView(v, IF s.answer = s.first
                THEN [NoView EXCEPT !.phase = "READY", !.shown = s.first, !.text = s.text,
                                   !.since = IF s.text = s.first THEN 0 ELSE s.since]
                ELSE Failed)
  /\ UNCHANGED <<cookie, known, panel, capture, switches, made>>

LoadFails(v) ==
  /\ view[v].step # "NONE"
  /\ SetView(v, Failed)
  /\ UNCHANGED <<cookie, known, panel, capture, switches, made>>

(* ... and writing *)

\* change: the brief can be edited, also while it is being saved; a comparison of it is over.
Edit ==
  LET s == view["BRIEF"] IN
  /\ s.phase = "READY" /\ s.edits < MaxEdits
  /\ SetView("BRIEF", [s EXCEPT !.edits = @ + 1, !.draft = s.edits + 1, !.look = Unknown])
  /\ UNCHANGED <<cookie, known, panel, capture, switches, made>>

\* mutate and save check the session first.
Write(v) ==
  LET s == view[v] IN
  /\ s.phase = "READY" /\ s.shown \in Accounts /\ s.write = "NONE"
  /\ SetView(v, [s EXCEPT !.write = "CHECK", !.answer = cookie, !.sent = s.draft])
  /\ UNCHANGED <<cookie, known, panel, capture, switches, made>>

\* Mutant: the optional field is left out.
Stated_Not(s) == Unknown

\* expectedAccountId, of a write that is sent: whose account is on screen.
Stated(s) == s.shown

\* The write goes out with the cookie there is by then.
WriteChecked(v) ==
  LET s == view[v] IN
  /\ s.write = "CHECK"
  /\ SetView(v, IF s.answer = s.shown
                THEN [s EXCEPT !.write = "SENT", !.answer = cookie, !.expected = Stated(s)]
                ELSE Failed)
  /\ UNCHANGED <<cookie, known, panel, capture, switches, made>>

\* account: the session has to be an account's, and that of the field if there is one.
Accepted(principal, expected) == principal \in Accounts /\ expected \in {Unknown, principal}

\* The server makes a write for the account of its session.
Taken(v) ==
  LET s == view[v] IN
  /\ s.write = "SENT" /\ Accepted(s.answer, s.expected)
  /\ made' = [by |-> s.answer, on |-> s.shown, text |-> s.text, since |-> s.since]
  /\ SetView(v, [s EXCEPT !.write = "TAKEN", !.expected = Unknown])
  /\ UNCHANGED <<cookie, known, panel, capture, switches>>

\* It refuses one for its field, or since the session, no longer the cookie's, is revoked.
Refused(v) ==
  LET s == view[v] IN
  /\ s.write = "SENT" /\ (~Accepted(s.answer, s.expected) \/ s.answer # cookie)
  /\ SetView(v, [s EXCEPT !.write = "REFUSED", !.expected = Unknown])
  /\ UNCHANGED <<cookie, known, panel, capture, switches, made>>

\* 401 and 403 clear the view.  Reviews show the answer; the brief checks once more.
WriteAnswered(v) ==
  LET s == view[v] IN
  /\ s.write \in {"TAKEN", "REFUSED"}
  /\ SetView(v, IF s.write = "REFUSED" THEN Failed
                ELSE IF v = "REVIEW" THEN [s EXCEPT !.write = "NONE", !.text = s.answer,
                                                          !.answer = Anonymous]
                ELSE [s EXCEPT !.write = "RECHECK", !.answer = cookie])
  /\ UNCHANGED <<cookie, known, panel, capture, switches, made>>

\* Mutant: the answer replaces the draft.
SaveConfirmed_Overwrites ==
  LET s == view["BRIEF"] IN
  /\ s.write = "RECHECK"
  /\ SetView("BRIEF", IF s.answer # s.shown THEN Failed
                      ELSE [s EXCEPT !.write = "NONE", !.answer = Anonymous, !.sent = 0,
                                     !.draft = s.sent])
  /\ UNCHANGED <<cookie, known, panel, capture, switches, made>>

\* The draft becomes what was saved, unless it was edited since.
SaveConfirmed ==
  LET s == view["BRIEF"] IN
  /\ s.write = "RECHECK"
  /\ SetView("BRIEF", IF s.answer # s.shown THEN Failed
                      ELSE [s EXCEPT !.write = "NONE", !.answer = Anonymous, !.sent = 0,
                                     !.draft = IF s.edits = s.sent THEN s.sent ELSE @])
  /\ UNCHANGED <<cookie, known, panel, capture, switches, made>>

\* Nobody waits any more.  A write that was sent may have been made before; made after, it
\* would be the same.
WriteLost(v) ==
  /\ view[v].write # "NONE"
  /\ SetView(v, [view[v] EXCEPT !.write = "NONE", !.answer = Anonymous, !.expected = Unknown,
                                !.sent = 0])
  /\ UNCHANGED <<cookie, known, panel, capture, switches, made>>

\* prepareComparison: a look at the session before the brief is used.
LookAtSession ==
  LET s == view["BRIEF"] IN
  /\ s.phase = "READY" /\ s.look = Unknown
  /\ SetView("BRIEF", [s EXCEPT !.look = cookie])
  /\ UNCHANGED <<cookie, known, panel, capture, switches, made>>

\* Another session clears the view, unless the answer is lost or the comparison given up.
LookAnswered ==
  LET s == view["BRIEF"] IN
  /\ s.look # Unknown
  /\ \/ s.look # s.shown /\ SetView("BRIEF", Failed)
     \/ SetView("BRIEF", [s EXCEPT !.look = Unknown])
  /\ UNCHANGED <<cookie, known, panel, capture, switches, made>>

ScreenNext ==
  \/ PanelRefresh \/ PanelSession \/ PanelList \/ PanelFails \/ PanelAuthDone \/ PanelSignedIn
  \/ PanelAuthLost \/ PanelInvalidated
  \/ \E p \in Principals : PanelAuth(p) \/ OtherTab(p)
  \/ CaptureOpen \/ CaptureSession \/ Edit \/ SaveConfirmed \/ LookAtSession \/ LookAnswered
  \/ \E v \in Views : \/ Open(v) \/ LoadSession(v) \/ LoadData(v) \/ LoadConfirm(v) \/ LoadFails(v)
                      \/ Write(v) \/ WriteChecked(v) \/ Taken(v) \/ Refused(v) \/ WriteAnswered(v)
                      \/ WriteLost(v)

ScreenSpec == ScreenInit /\ [][ScreenNext]_screenVars

-----------------------------------------------------------------------------
Shows(v) == view[v].phase = "READY" /\ view[v].shown \in Accounts /\ view[v].text # Unknown

\* customer-reviews.tsx:140 and mascara-brief-editor.tsx:132: a change of session while an
\* account's data load never puts another account's data under its name.
OneSwitchIsNoticed ==
  \A v \in Views : Shows(v) /\ view[v].text # view[v].shown => switches >= view[v].since + 2

\* Every write the server makes is for the account whose name was on the screen when it was
\* sent, although the cookie it carries may be another's since the check; and what was shown
\* under that name was that account's own, unless the session changed twice under its load.
WritesStayHome ==
  made.by = made.on /\ (made.text # made.on => switches >= made.since + 2)

\* mascara-brief-editor.tsx:285: what is edited during a save is still there after it.
EditsSurvive == view["BRIEF"].phase = "READY" => view["BRIEF"].draft = view["BRIEF"].edits
=============================================================================
