---------------------------- MODULE ClientProofs ----------------------------
(***************************************************************************)
(* Proofs about the web client, for any number of events, tabs and answers *)
(* in any order: the scanner (ScannerSession), the security of an account  *)
(* (AccountSecurity), the screens of one person (PrivateScreen) and those  *)
(* of a product (ProductScreens).                                          *)
(***************************************************************************)
EXTENDS ScannerSession, AccountSecurity, PrivateScreen, ProductScreens,
        SequenceTheorems, TLAPS

-----------------------------------------------------------------------------
(* The scanner.  CameraFollowsDialog alone is not inductive: that a stream *)
(* which comes late is not taken for the one that is wanted rests on no    *)
(* two starts having one generation, and on none having that of a closed   *)
(* dialog.                                                                 *)

Begun(i) == i <= begun

\* A start has a generation of its own, not later than the session's.
StartsAreTold ==
  /\ \A i \in Starts : /\ ~Begun(i) => attempt[i].step = "NONE"
                       /\ Begun(i) => attempt[i].of <= generation
  /\ \A i, j \in Starts : Begun(i) /\ Begun(j) /\ attempt[i].of = attempt[j].of => i = j
  /\ ~dialog => \A i \in Starts : Begun(i) => Superseded(i)

\* What the session holds was given to the start of its generation.
HeldIsCurrent ==
  held.stream # NoStream =>
    Begun(held.stream) /\ ~Superseded(held.stream) /\ attempt[held.stream].step \in {"DECODER", "DONE"}

ScannerInv == ScannerTypeOK /\ StartsAreTold /\ HeldIsCurrent /\ CameraFollowsDialog

LEMMA ScannerStarts == ScannerInit => ScannerInv
<1> SUFFICES ASSUME ScannerInit PROVE ScannerInv
  OBVIOUS
<1> USE StartsAssumption DEF ScannerInit, Starts, NoStream, NothingHeld
<1>1. ScannerTypeOK
  <2>1. attempt \in [Starts -> [step : {"NONE", "MEDIA", "DECODER", "DONE"}, of : Nat]]
    OBVIOUS
  <2>2. held \in [stream : Starts \cup {NoStream}, video : Starts \cup {NoStream}]
    OBVIOUS
  <2>3. generation \in Nat /\ begun \in 0 .. MaxStarts
    OBVIOUS
  <2>4. live \subseteq Starts /\ dialog \in BOOLEAN
    OBVIOUS
  <2> HIDE DEF ScannerInit, Starts, NoStream
  <2> QED BY <2>1, <2>2, <2>3, <2>4 DEF ScannerTypeOK
<1>2. StartsAreTold
  BY DEF StartsAreTold, Begun, Superseded
<1>3. HeldIsCurrent /\ CameraFollowsDialog
  BY DEF HeldIsCurrent, CameraFollowsDialog
<1> QED BY <1>1, <1>2, <1>3 DEF ScannerInv

\* stop() gives up what is held, and moves on to a generation no start has.
LEMMA StopIsSafe ==
  ASSUME ScannerInv, Stop
  PROVE  /\ generation' \in Nat /\ generation' > generation
         /\ held' = NothingHeld /\ live' = {}
BY DEF ScannerInv, ScannerTypeOK, CameraFollowsDialog, Stop, ReleaseActive, NothingHeld, NoStream

LEMMA StartSteps ==
  ASSUME ScannerInv, Start
  PROVE  ScannerInv'
<1>1. /\ generation' = generation + 1 /\ held' = NothingHeld /\ live' = {}
  BY StopIsSafe DEF Start, Stop
<1>2. /\ begun + 1 \in Starts /\ begun' = begun + 1 /\ dialog' = TRUE
      /\ attempt' = [attempt EXCEPT ![begun + 1] = [step |-> "MEDIA", of |-> generation + 1]]
  BY StartsAssumption DEF Start, ScannerInv, ScannerTypeOK, Starts
<1> USE DEF ScannerInv, Starts
<1>3. ScannerTypeOK'
  BY <1>1, <1>2, StartsAssumption DEF ScannerTypeOK, NothingHeld, NoStream
<1>4. StartsAreTold'
  BY <1>1, <1>2, StartsAssumption DEF ScannerTypeOK, StartsAreTold, Begun, Superseded
<1>5. HeldIsCurrent' /\ CameraFollowsDialog'
  BY <1>1, <1>2 DEF HeldIsCurrent, CameraFollowsDialog, NothingHeld, NoStream
<1> QED BY <1>3, <1>4, <1>5

\* The dialog is closed, by its effect or since a code was read.
LEMMA CloseSteps ==
  ASSUME ScannerInv, Stop, dialog' = FALSE, UNCHANGED <<begun, attempt>>
  PROVE  ScannerInv'
<1>1. /\ generation' \in Nat /\ generation' > generation /\ held' = NothingHeld /\ live' = {}
  BY StopIsSafe
<1>2. ScannerTypeOK'
  BY <1>1 DEF ScannerInv, ScannerTypeOK, NothingHeld, NoStream
<1>3. StartsAreTold'
  BY <1>1 DEF ScannerInv, ScannerTypeOK, StartsAreTold, Begun, Superseded, Starts
<1>4. HeldIsCurrent' /\ CameraFollowsDialog'
  BY <1>1 DEF HeldIsCurrent, CameraFollowsDialog, NothingHeld, NoStream
<1> QED BY <1>2, <1>3, <1>4 DEF ScannerInv

\* The browser answers a start.
LEMMA AnswerSteps ==
  ASSUME ScannerInv, NEW i \in Starts,
         MediaGranted(i) \/ MediaRefused(i) \/ DecoderReady(i) \/ DecoderFails(i)
  PROVE  ScannerInv'
<1> USE DEF ScannerInv, At
<1>1. /\ generation' = generation /\ begun' = begun /\ dialog' = dialog
      /\ \E s \in {"DECODER", "DONE"} : attempt' = [attempt EXCEPT ![i].step = s]
  BY DEF MediaGranted, MediaRefused, DecoderReady, DecoderFails, Ends
<1>2. Begun(i)
  BY DEF StartsAreTold, MediaGranted, MediaRefused, DecoderReady, DecoderFails
<1>3. ScannerTypeOK'
  BY <1>1 DEF ScannerTypeOK, NoStream, NothingHeld, ReleaseActive, MediaGranted, MediaRefused,
    DecoderReady, DecoderFails
<1>4. \A j \in Starts : attempt'[j].of = attempt[j].of /\ (j # i => attempt'[j] = attempt[j])
  BY <1>1 DEF ScannerTypeOK
<1>5. attempt'[i].step \in {"DECODER", "DONE"}
  BY <1>1 DEF ScannerTypeOK
<1>6. StartsAreTold'
  BY <1>1, <1>2, <1>4 DEF StartsAreTold, Begun, Superseded
<1>7. \/ held' = held \/ held' = NothingHeld
      \/ held' = [stream |-> i, video |-> i] /\ ~Superseded(i)
      \/ held' = [held EXCEPT !.video = NoStream]
  BY DEF MediaGranted, MediaRefused, DecoderReady, DecoderFails, ReleaseActive
<1>8. HeldIsCurrent'
  BY <1>1, <1>2, <1>4, <1>5, <1>7 DEF ScannerTypeOK, HeldIsCurrent, Begun, Superseded, NothingHeld, NoStream
<1>9. CASE MediaGranted(i)
  <2>1. held.stream \in {NoStream, i} \/ Superseded(i)
    BY <1>2 DEF ScannerTypeOK, StartsAreTold, HeldIsCurrent, Superseded, NoStream
  <2>2. CameraFollowsDialog'
    BY <1>2, <1>9, <2>1 DEF ScannerTypeOK, CameraFollowsDialog, MediaGranted, StartsAreTold, NoStream, Starts
  <2> QED BY <1>3, <1>6, <1>8, <2>2
<1>10. CASE MediaRefused(i)
  BY <1>3, <1>6, <1>8, <1>10 DEF MediaRefused, CameraFollowsDialog
<1>11. CASE DecoderReady(i)
  <2>1. CameraFollowsDialog'
    BY <1>11 DEF ScannerTypeOK, CameraFollowsDialog, DecoderReady, NoStream
  <2> QED BY <1>3, <1>6, <1>8, <2>1
<1>12. CASE DecoderFails(i)
  <2>1. CameraFollowsDialog'
    BY <1>12 DEF ScannerTypeOK, CameraFollowsDialog, DecoderFails, ReleaseActive, NothingHeld, NoStream
  <2> QED BY <1>3, <1>6, <1>8, <2>1
<1> QED BY <1>9, <1>10, <1>11, <1>12

\* scanner-session.ts:55, :79: however late the browser and the decoder answer, and however
\* often the dialog is opened, the camera runs only for the stream on the screen, and is
\* off when the dialog is closed.
THEOREM CameraAlwaysFollows == ScannerSpec => []CameraFollowsDialog
<1>1. ScannerInv /\ [ScannerNext]_scannerVars => ScannerInv'
  <2> SUFFICES ASSUME ScannerInv, [ScannerNext]_scannerVars
               PROVE  ScannerInv'
    OBVIOUS
  <2>1. CASE Start
    BY <2>1, StartSteps
  <2>2. CASE CloseDialog
    BY <2>2, CloseSteps DEF CloseDialog
  <2>3. ASSUME NEW i \in Starts, Detected(i)
        PROVE  ScannerInv'
    BY <2>3, CloseSteps DEF Detected
  <2>4. ASSUME NEW i \in Starts,
               MediaGranted(i) \/ MediaRefused(i) \/ DecoderReady(i) \/ DecoderFails(i)
        PROVE  ScannerInv'
    BY <2>4, AnswerSteps
  <2>5. CASE UNCHANGED scannerVars
    BY <2>5 DEF scannerVars, ScannerInv, ScannerTypeOK, StartsAreTold, HeldIsCurrent,
      CameraFollowsDialog, Begun, Superseded
  <2> QED BY <2>1, <2>2, <2>3, <2>4, <2>5 DEF ScannerNext
<1>2. ScannerInv => CameraFollowsDialog
  BY DEF ScannerInv
<1> QED BY ScannerStarts, <1>1, <1>2, PTL DEF ScannerSpec

-----------------------------------------------------------------------------
(* The recovery code.  CodeOnScreenWorks alone is not inductive: a code    *)
(* that has been answered and is not shown yet has to be good as well,     *)
(* nothing may be on screen while the one to come replaces it, and an      *)
(* action has to know since when its session has been another.             *)

\* The server, or somebody else's action, vouches for the code x has brought.
Vouched(x) ==
  /\ x.cookie \in Owners /\ x.result \in 1 .. MaxCodes
  /\ \/ codeOf[x.cookie] = x.result /\ passwordOf[x.cookie] = x.password
     \/ x.result \in outdated
     \/ x.cookie \notin members

\* A session other than the one that was checked is that of a later sign-in.
Dated(x) ==
  /\ x.asked <= signIns
  /\ x.kind # "RESET" =>
       /\ x.step = "CHECK" /\ x.asked = signIns => session \in {x.cookie, Nobody}
       /\ x.step = "SENT" \/ x.ok => x.cookie \in {x.account, Nobody} \/ x.asked < x.sent

\* The action the screen waits for.
PendingAction ==
  security.pending # 0 =>
    LET x == actions[security.pending] IN
    /\ security.pending \in DOMAIN actions /\ ~security.disabled
    /\ x.step # "OVER"
    /\ x.kind = "RESET" => security.principal = Nobody
    /\ x.kind # "RESET" => x.account = security.principal
    /\ x.kind = "ROTATE" => security.code = 0
    /\ x.kind = "ROTATE" /\ x.step = "ANSWERED" /\ x.ok => Vouched(x)

\* The action whose code is on screen.
ShownCode ==
  security.code # 0 =>
    LET x == actions[security.code] IN
    /\ security.code \in DOMAIN actions /\ ~security.disabled
    /\ x.kind = "ROTATE" /\ x.step = "OVER" /\ x.ok /\ x.account = security.principal
    /\ Vouched(x)

SecurityInv ==
  /\ SecurityTypeOK /\ actions \in Seq(Actions)
  /\ \A n \in DOMAIN actions : Dated(actions[n])
  /\ PendingAction /\ ShownCode

-----------------------------------------------------------------------------
\* What is vouched for stays so, but for what the awaited action itself replaces.
LEMMA GoodStaysGood ==
  ASSUME SecurityTypeOK, members' \subseteq members, outdated \subseteq outdated',
         \A a \in Owners : \/ codeOf'[a] = codeOf[a] /\ passwordOf'[a] = passwordOf[a]
                           \/ codeOf[a] \in outdated' \cup {0}
                           \/ a \notin members'
  PROVE  \A x \in Actions : Vouched(x) => Vouched(x)'
BY DEF Vouched

\* The parts of a screen.
LEMMA ScreenParts ==
  ASSUME NEW x \in Screens
  PROVE  /\ x.principal \in Owners \cup {Nobody} /\ x.disabled \in BOOLEAN
         /\ x.pending \in 0 .. MaxActions /\ x.code \in 0 .. MaxActions
BY DEF Screens

\* An action as it was, or a deletion whose session was revoked on the way.
Same(x, y) ==
  \/ y = x
  \/ x.kind = "DELETE" /\ x.step = "SENT" /\ y = [x EXCEPT !.cookie = Nobody]

LEMMA SameFields ==
  ASSUME NEW x \in Actions, NEW y, Same(x, y)
  PROVE  /\ y \in Actions /\ y.kind = x.kind /\ y.account = x.account /\ y.step = x.step
         /\ y.ok = x.ok /\ y.asked = x.asked /\ y.sent = x.sent
         /\ y.cookie \in {x.cookie, Nobody} /\ (y.cookie = x.cookie \/ x.step = "SENT")
         /\ x.kind # "DELETE" => y = x
BY DEF Same, Actions

LEMMA RevokedShape ==
  ASSUME actions \in Seq(Actions), NEW a
  PROVE  /\ Revoked(a) \in Seq(Actions) /\ DOMAIN Revoked(a) = DOMAIN actions
         /\ \A m \in DOMAIN actions : Same(actions[m], Revoked(a)[m])
<1>1. \A m \in DOMAIN actions : actions[m] \in Actions
  OBVIOUS
<1>2. /\ DOMAIN Revoked(a) = DOMAIN actions
      /\ \A m \in DOMAIN actions : Same(actions[m], Revoked(a)[m])
  BY <1>1 DEF Revoked, Same
<1>3. \A m \in DOMAIN actions : Revoked(a)[m] \in Actions
  BY <1>1, <1>2, SameFields
<1>4. PICK k \in Nat : DOMAIN actions = 1 .. k
  OBVIOUS
<1>5. Revoked(a) = [m \in 1 .. k |-> Revoked(a)[m]]
  BY <1>2, <1>4 DEF Revoked
<1>6. Revoked(a) \in Seq(Actions)
  BY <1>2, <1>3, <1>4, <1>5, IsASeq
<1> QED BY <1>2, <1>6

\* One action changes, and it is still one.
LEMMA ActionChanges ==
  ASSUME NEW old \in Seq(Actions), NEW n \in DOMAIN old, NEW x \in Actions,
         actions' = [old EXCEPT ![n] = x]
  PROVE  /\ actions' \in Seq(Actions) /\ DOMAIN actions' = DOMAIN old
         /\ actions'[n] = x /\ \A m \in DOMAIN old \ {n} : actions'[m] = old[m]
<1>1. actions' \in Seq(Actions)
  BY ExceptSeq
<1> QED BY <1>1

LEMMA SecurityStarts == SecurityInit => SecurityInv
BY SecurityAssumption
DEF SecurityInit, SecurityInv, SecurityTypeOK, PendingAction, ShownCode, ScreenFor, Screens

-----------------------------------------------------------------------------
\* What has not changed is as old as it was.
LEMMA DatesStay ==
  ASSUME SecurityInv, NEW x \in Actions, NEW y, Dated(x), Same(x, y),
         signIns' \in Nat, signIns <= signIns',
         signIns' = signIns => session' \in {session, Nobody}
  PROVE  Dated(y)'
<1>1. signIns \in Nat /\ x.asked \in Nat /\ x.sent \in Nat
  BY SecurityAssumption DEF SecurityInv, SecurityTypeOK, Actions
<1> QED BY <1>1, SameFields DEF Dated

\* The code on screen stays there, or is taken off it.
LEMMA ShownStays ==
  ASSUME SecurityInv, DOMAIN actions \subseteq DOMAIN actions',
         security'.code \in {0, security.code}, security'.disabled = security.disabled,
         security'.principal = security.principal,
         \A m \in DOMAIN actions : actions[m].step = "OVER" => actions'[m] = actions[m],
         security'.code # 0 => \A x \in Actions : Vouched(x) => Vouched(x)'
  PROVE  ShownCode'
<1> SUFFICES ASSUME security'.code # 0
             PROVE  LET x == actions[security.code] IN
                    /\ (security.code \in DOMAIN actions)' /\ ~security'.disabled
                    /\ x'.kind = "ROTATE" /\ x'.step = "OVER" /\ x'.ok
                    /\ x'.account = security'.principal /\ Vouched(x)'
  BY DEF ShownCode
<1>1. /\ security.code # 0 /\ security'.code = security.code
      /\ security.code \in DOMAIN actions /\ actions \in Seq(Actions)
  BY DEF SecurityInv, ShownCode
<1>2. PICK x \in Actions : x = actions[security.code]
  BY <1>1
<1>3. /\ x.kind = "ROTATE" /\ x.step = "OVER" /\ x.ok /\ x.account = security.principal
      /\ ~security.disabled /\ Vouched(x)
  BY <1>1, <1>2 DEF SecurityInv, ShownCode
<1>4. actions'[security'.code] = x /\ Vouched(x)'
  BY <1>1, <1>2, <1>3
<1>5. Vouched(actions[security.code])'
  BY <1>4 DEF Vouched
<1> QED BY <1>1, <1>3, <1>4, <1>5

\* The action that is awaited still is, with what is vouched for.
LEMMA PendingStays ==
  ASSUME SecurityInv, DOMAIN actions \subseteq DOMAIN actions',
         security'.pending = security.pending, security'.disabled = security.disabled,
         security'.principal = security.principal, security'.code \in {0, security.code},
         \A m \in DOMAIN actions : Awaited(m) => Same(actions[m], actions'[m]),
         \A x \in Actions : Vouched(x) => Vouched(x)'
  PROVE  PendingAction'
<1> SUFFICES ASSUME security'.pending # 0
             PROVE  LET x == actions[security.pending] IN
                    /\ (security.pending \in DOMAIN actions)' /\ ~security'.disabled
                    /\ x'.step # "OVER"
                    /\ x'.kind = "RESET" => security'.principal = Nobody
                    /\ x'.kind # "RESET" => x'.account = security'.principal
                    /\ x'.kind = "ROTATE" => security'.code = 0
                    /\ x'.kind = "ROTATE" /\ x'.step = "ANSWERED" /\ x'.ok => Vouched(x)'
  BY DEF PendingAction
<1>1. /\ security.pending # 0 /\ security.pending \in DOMAIN actions /\ actions \in Seq(Actions)
      /\ ~security.disabled
  BY DEF SecurityInv, PendingAction
<1>2. PICK x \in Actions : x = actions[security.pending]
  BY <1>1
<1>3. /\ x.step # "OVER" /\ (x.kind = "RESET" => security.principal = Nobody)
      /\ x.kind # "RESET" => x.account = security.principal
      /\ x.kind = "ROTATE" => security.code = 0
      /\ x.kind = "ROTATE" /\ x.step = "ANSWERED" /\ x.ok => Vouched(x)
  BY <1>1, <1>2 DEF SecurityInv, PendingAction
<1>4. PICK y \in Actions :
        /\ y = actions'[security'.pending] /\ y.kind = x.kind /\ y.account = x.account
        /\ y.step = x.step /\ y.ok = x.ok /\ (x.kind # "DELETE" => y = x)
  BY <1>1, <1>2, SameFields DEF Awaited
<1>5. Vouched(x)' /\ x.kind = "ROTATE" => Vouched(actions[security.pending])'
  BY <1>4 DEF Vouched
<1> QED BY <1>1, <1>2, <1>3, <1>4, <1>5

-----------------------------------------------------------------------------
\* What happens around the screen.
LEMMA SessionMovesKeep ==
  ASSUME SecurityInv, SessionMoves PROVE SecurityInv'
<1> USE SecurityAssumption DEF SecurityInv
<1>1. /\ actions' \in Seq(Actions) /\ DOMAIN actions' = DOMAIN actions
      /\ \A m \in DOMAIN actions : Same(actions[m], actions'[m])
      /\ \A m \in DOMAIN actions : actions[m].kind # "DELETE" \/ actions[m].step # "SENT"
                                     => actions'[m] = actions[m]
  BY RevokedShape DEF SessionMoves, Same
<1>2. /\ signIns \in Nat /\ signIns' = signIns + 1 /\ signIns' \in 0 .. MaxSignIns
      /\ session' \in members \cup {Nobody}
      /\ UNCHANGED <<members, passwordOf, codeOf, issued, security, outdated>>
  BY DEF SessionMoves, SecurityTypeOK
<1>3. SecurityTypeOK'
  BY <1>1, <1>2 DEF SecurityTypeOK
<1>4. \A x \in Actions : Vouched(x) => Vouched(x)'
  BY <1>2 DEF Vouched
<1>5. \A m \in DOMAIN actions' : Dated(actions[m])'
  <2>1. ASSUME NEW m \in DOMAIN actions, NEW y, y = actions'[m] PROVE Dated(y)'
    <3>1. actions[m] \in Actions /\ Dated(actions[m]) /\ Same(actions[m], y)
      BY <1>1, <2>1
    <3> QED BY <1>2, <3>1, DatesStay
  <2> QED BY <1>1, <2>1 DEF Dated
<1>6. PendingAction' /\ ShownCode'
  BY <1>1, <1>2, <1>4, PendingStays, ShownStays
<1> QED BY <1>1, <1>3, <1>5, <1>6

\* The panel, or the button that hides the code.
LEMMA ScreenAloneMoves ==
  ASSUME SecurityInv, UNCHANGED <<serverVars, actions, signIns>>, security' \in Screens,
         \/ security'.pending = 0 /\ security'.code = 0
         \/ /\ security'.pending = security.pending /\ security'.code = 0
            /\ security'.disabled = security.disabled /\ security'.principal = security.principal
  PROVE  SecurityInv'
<1> USE SecurityAssumption DEF SecurityInv
<1>1. SecurityTypeOK'
  BY DEF SecurityTypeOK, serverVars
<1>2. \A n \in DOMAIN actions' : Dated(actions[n])'
  BY DEF Dated, serverVars
<1>3. ShownCode'
  BY DEF ShownCode
<1>4. PendingAction'
  BY DEF PendingAction, Vouched, serverVars
<1> QED BY <1>1, <1>2, <1>3, <1>4

LEMMA AroundTheScreen ==
  ASSUME SecurityInv,
         SessionMoves \/ Disable \/ PanelAnswers \/ HideCode \/ \E a \in Owners : CodeReplaced(a)
  PROVE  SecurityInv'
<1> USE SecurityAssumption
<1>0. /\ security \in Screens /\ session \in Owners \cup {Nobody}
      /\ 0 \in 0 .. MaxActions
  BY DEF SecurityInv, SecurityTypeOK
<1>1. CASE Disable \/ PanelAnswers
  <2>1. PICK p \in Owners \cup {Nobody}, b \in BOOLEAN :
          security' = [principal |-> p, disabled |-> b, pending |-> 0, code |-> 0]
    BY <1>0, <1>1, ScreenParts DEF Disable, PanelAnswers, ScreenFor
  <2>2. security' \in Screens /\ security'.pending = 0 /\ security'.code = 0
    BY <1>0, <2>1 DEF Screens
  <2>3. UNCHANGED <<serverVars, actions, signIns>>
    BY <1>1 DEF Disable, PanelAnswers
  <2> QED BY <2>2, <2>3, ScreenAloneMoves
<1>2. CASE HideCode
  <2>1. security' = [security EXCEPT !.code = 0] /\ UNCHANGED <<serverVars, actions, signIns>>
    BY <1>2 DEF HideCode
  <2>2. /\ security' \in Screens /\ security'.code = 0 /\ security'.pending = security.pending
        /\ security'.disabled = security.disabled /\ security'.principal = security.principal
    BY <1>0, <2>1 DEF Screens
  <2> QED BY <2>1, <2>2, ScreenAloneMoves
<1>3. ASSUME NEW a \in Owners, CodeReplaced(a) PROVE SecurityInv'
  <2> USE DEF SecurityInv
  <2>1. codeOf[a] \in 0 .. issued /\ issued \in 0 .. MaxCodes /\ issued + 1 \in 0 .. MaxCodes
    BY <1>3 DEF CodeReplaced, SecurityTypeOK
  <2>2. codeOf' \in [Owners -> 0 .. issued'] /\ outdated' \subseteq 1 .. MaxCodes
    <3>1. issued' = issued + 1 /\ codeOf' = [codeOf EXCEPT ![a] = issued + 1]
          /\ outdated' = outdated \cup ({codeOf[a]} \ {0})
      BY <1>3 DEF CodeReplaced
    <3>2. codeOf \in [Owners -> 0 .. issued] /\ outdated \subseteq 1 .. MaxCodes
      BY DEF SecurityTypeOK
    <3>3. codeOf' \in [Owners -> 0 .. issued + 1]
      BY <2>1, <3>1, <3>2
    <3>4. codeOf[a] \in 0 .. MaxCodes /\ (codeOf[a] # 0 => codeOf[a] \in 1 .. MaxCodes)
      BY <2>1
    <3> QED BY <3>1, <3>2, <3>3, <3>4
  <2>3. SecurityTypeOK'
    BY <1>3, <2>1, <2>2 DEF CodeReplaced, SecurityTypeOK
  <2>4. \A o \in Owners : \/ codeOf'[o] = codeOf[o] /\ passwordOf'[o] = passwordOf[o]
                          \/ codeOf[o] \in outdated' \cup {0}
    BY <1>3 DEF CodeReplaced, SecurityTypeOK
  <2>5. \A x \in Actions : Vouched(x) => Vouched(x)'
    BY <1>3, <2>4, GoodStaysGood DEF CodeReplaced
  <2>6. UNCHANGED <<security, actions, session, signIns>>
    BY <1>3 DEF CodeReplaced
  <2>7. PendingAction' /\ ShownCode'
    BY <2>5, <2>6, PendingStays, ShownStays DEF Same
  <2>8. \A n \in DOMAIN actions' : Dated(actions[n])'
    BY <2>6 DEF Dated
  <2> QED BY <2>3, <2>6, <2>7, <2>8
<1> QED BY <1>1, <1>2, <1>3, SessionMovesKeep

-----------------------------------------------------------------------------
\* The user starts an action.
LEMMA ActionBegins ==
  ASSUME SecurityInv, NEW k \in Kinds, NEW a \in Owners, NEW w \in Passwords,
         NEW c \in 0 .. MaxCodes, BeginAction(k, a, w, c)
  PROVE  SecurityInv'
<1> USE SecurityAssumption DEF SecurityInv
<1> DEFINE n == Len(actions) + 1
           x == [kind |-> k, account |-> a, password |-> w, code |-> c, cookie |-> session,
                 asked |-> signIns, sent |-> signIns, result |-> 0, ok |-> FALSE,
                 step |-> IF k = "RESET" THEN "SENT" ELSE "CHECK"]
<1>0. /\ session \in Owners \cup {Nobody} /\ signIns \in 0 .. MaxSignIns
      /\ 0 \in 0 .. MaxCodes /\ security \in Screens
  BY DEF SecurityTypeOK
<1>1. /\ n \in 1 .. MaxActions /\ x \in Actions /\ ~security.disabled
      /\ actions' = Append(actions, x) /\ UNCHANGED <<serverVars, signIns>>
      /\ k = "RESET" => security.principal = Nobody
      /\ k # "RESET" => security.principal = a
  BY <1>0 DEF BeginAction, Actions, Steps
<1>2. /\ actions' \in Seq(Actions) /\ n \in DOMAIN actions' /\ actions'[n] = x
      /\ DOMAIN actions' = DOMAIN actions \cup {n}
      /\ \A m \in DOMAIN actions : actions'[m] = actions[m]
  BY <1>1
<1>3. /\ security' \in Screens /\ security'.pending = n /\ security'.disabled = security.disabled
      /\ security'.principal = security.principal
      /\ security'.code = IF k = "ROTATE" THEN 0 ELSE security.code
  <2>1. security' = [security EXCEPT !.pending = n, !.code = IF k = "ROTATE" THEN 0 ELSE security.code]
    BY DEF BeginAction, CodeWhile
  <2>2. n \in 0 .. MaxActions /\ (IF k = "ROTATE" THEN 0 ELSE security.code) \in 0 .. MaxActions
    BY <1>0, <1>1, ScreenParts
  <2> HIDE DEF n, x
  <2>3. \A d \in 0 .. MaxActions : security' = [security EXCEPT !.pending = n, !.code = d] =>
          /\ security' \in Screens /\ security'.pending = n /\ security'.disabled = security.disabled
          /\ security'.principal = security.principal /\ security'.code = d
    BY <1>0, <2>2 DEF Screens
  <2> QED BY <2>1, <2>2, <2>3
<1>4. Dated(x)
  BY <1>0 DEF Dated
<1>5. /\ x.step # "OVER" /\ x.step # "ANSWERED" /\ x.kind = k /\ x.account = a
  OBVIOUS
<1> HIDE DEF n, x
<1>6. SecurityTypeOK'
  BY <1>1, <1>2, <1>3 DEF SecurityTypeOK, serverVars
<1>7. PendingAction'
  BY <1>1, <1>2, <1>3, <1>5 DEF PendingAction
<1>8. ShownCode'
  BY <1>1, <1>2, <1>3, ShownStays DEF Vouched, serverVars
<1>9. \A m \in DOMAIN actions' : Dated(actions[m])'
  BY <1>1, <1>2, <1>4 DEF Dated, serverVars
<1> QED BY <1>2, <1>6, <1>7, <1>8, <1>9

\* An action goes on, or is over, and the screen with it; the server does nothing.
LEMMA ActionGoesOn ==
  ASSUME SecurityInv, NEW n \in DOMAIN actions, NEW x \in Actions,
         actions' = [actions EXCEPT ![n] = x], Dated(x), actions[n].step # "OVER",
         UNCHANGED <<serverVars, signIns>>, security' \in Screens,
         \/ security'.pending = 0 /\ security'.code = 0
         \/ security'.pending = 0 /\ security' = [security EXCEPT !.pending = 0]
         \/ ~Awaited(n) /\ security' = security
         \/ /\ Awaited(n) /\ security' = security /\ x.step \notin {"OVER", "ANSWERED"}
            /\ x.kind = actions[n].kind /\ x.account = actions[n].account
  PROVE  SecurityInv'
<1> USE SecurityAssumption DEF SecurityInv
<1>1. /\ actions' \in Seq(Actions) /\ DOMAIN actions' = DOMAIN actions
      /\ actions'[n] = x /\ \A m \in DOMAIN actions \ {n} : actions'[m] = actions[m]
  BY ActionChanges
<1>2. SecurityTypeOK'
  BY <1>1 DEF SecurityTypeOK, serverVars
<1>3. \A m \in DOMAIN actions' : Dated(actions[m])'
  BY <1>1 DEF Dated, serverVars
<1>4. \A y \in Actions : Vouched(y) => Vouched(y)'
  BY DEF Vouched, serverVars
<1>5. security \in Screens
  BY DEF SecurityTypeOK
<1>6. ShownCode'
  <2>1. CASE security'.code = 0
    BY <2>1 DEF ShownCode
  <2>2. CASE security'.code # 0
    <3>1. /\ security'.code = security.code /\ security'.disabled = security.disabled
          /\ security'.principal = security.principal
      BY <1>5, <2>2 DEF Screens
    <3> QED BY <1>1, <1>4, <3>1, ShownStays
  <2> QED BY <2>1, <2>2
<1>7. PendingAction'
  <2>1. CASE security'.pending = 0
    BY <2>1 DEF PendingAction
  <2>2. CASE ~Awaited(n) /\ security' = security
    BY <1>1, <1>4, <2>2, PendingStays DEF Awaited, Same
  <2>3. CASE /\ Awaited(n) /\ security' = security /\ x.step \notin {"OVER", "ANSWERED"}
             /\ x.kind = actions[n].kind /\ x.account = actions[n].account
    BY <1>1, <2>3 DEF PendingAction, Awaited
  <2> QED BY <2>1, <2>2, <2>3
<1> QED BY <1>1, <1>2, <1>3, <1>6, <1>7

\* Nothing appears on a screen that is invalidated, or waits for nothing.
LEMMA ScreensAfter ==
  ASSUME SecurityInv
  PROVE  /\ Invalidated \in Screens /\ Invalidated.pending = 0 /\ Invalidated.code = 0
         /\ Idle \in Screens /\ Idle = [security EXCEPT !.pending = 0] /\ Idle.pending = 0
         /\ Idle.code = security.code /\ Idle.disabled = security.disabled
         /\ Idle.principal = security.principal
<1>1. security \in Screens /\ 0 \in 0 .. MaxActions
  BY SecurityAssumption DEF SecurityInv, SecurityTypeOK
<1>2. PICK empty \in Screens : empty = ScreenFor(Nobody) /\ empty.pending = 0 /\ empty.code = 0
  <2>1. PICK e : e = [principal |-> Nobody, disabled |-> FALSE, pending |-> 0, code |-> 0]
    OBVIOUS
  <2>2. e \in Screens /\ e.pending = 0 /\ e.code = 0
    BY <1>1, <2>1 DEF Screens
  <2> QED BY <2>1, <2>2 DEF ScreenFor
<1>3. Invalidated = [empty EXCEPT !.disabled = TRUE]
  BY <1>2 DEF Invalidated
<1>4. Invalidated \in Screens /\ Invalidated.pending = 0 /\ Invalidated.code = 0
  BY <1>2, <1>3 DEF Screens
<1> QED BY <1>1, <1>4 DEF Idle, Screens

\* The session is checked, and the screen may be left.
LEMMA AccountIsChecked ==
  ASSUME SecurityInv, NEW n \in DOMAIN actions, CheckAccount(n)
  PROVE  SecurityInv'
<1> USE SecurityAssumption DEF SecurityInv
<1> DEFINE o == actions[n]
<1>1. /\ o \in Actions /\ o.step = "CHECK" /\ Dated(o) /\ UNCHANGED <<serverVars, signIns>>
      /\ session \in Owners \cup {Nobody} /\ signIns \in 0 .. MaxSignIns /\ security \in Screens
  BY DEF CheckAccount, SecurityTypeOK
<1>2. PICK over \in Actions :
        over = [o EXCEPT !.step = "OVER"] /\ Dated(over)
  <2>1. [o EXCEPT !.step = "OVER"] \in Actions
    BY <1>1 DEF Actions, Steps
  <2>2. Dated([o EXCEPT !.step = "OVER"])
    BY <1>1 DEF Actions, Dated
  <2> QED BY <2>1, <2>2
<1>3. CASE ~Awaited(n) /\ Step(n, "OVER") /\ security' = security
  BY <1>1, <1>2, <1>3, ActionGoesOn DEF Step
<1>4. CASE Awaited(n) /\ Step(n, "OVER") /\ security' = Invalidated
  BY <1>1, <1>2, <1>4, ActionGoesOn, ScreensAfter DEF Step
<1>5. CASE Awaited(n) /\ o.cookie = o.account /\ Send(n) /\ security' = security
  <2>1. PICK x \in Actions :
          /\ x = [o EXCEPT !.step = "SENT", !.cookie = session, !.sent = signIns]
          /\ x.step = "SENT" /\ x.kind = o.kind /\ x.account = o.account /\ x.cookie = session
          /\ x.asked = o.asked /\ x.sent = signIns
    <3>1. [o EXCEPT !.step = "SENT", !.cookie = session, !.sent = signIns] \in Actions
      BY <1>1 DEF Actions, Steps
    <3> QED BY <1>1, <3>1 DEF Actions
  <2>2. Dated(x)
    <3>1. x.asked \in Nat /\ signIns \in Nat
      BY <1>1, <2>1 DEF Actions
    <3> HIDE DEF o
    <3> QED BY <1>1, <1>5, <2>1, <3>1 DEF Dated
  <2>3. actions' = [actions EXCEPT ![n] = x]
    BY <1>5, <2>1 DEF Send
  <2> QED BY <1>1, <1>5, <2>1, <2>2, <2>3, ActionGoesOn
<1> QED BY <1>3, <1>4, <1>5 DEF CheckAccount

-----------------------------------------------------------------------------
\* An action that is answered.
LEMMA RepliedFields ==
  ASSUME NEW n, actions[n] \in Actions, NEW b \in BOOLEAN, NEW c \in 0 .. MaxCodes,
         NEW x, x = Replied(n, b, c)
  PROVE  /\ x \in Actions /\ x.step = "ANSWERED" /\ x.ok = b /\ x.result = c
         /\ x.kind = actions[n].kind /\ x.account = actions[n].account
         /\ x.password = actions[n].password /\ x.cookie = actions[n].cookie
         /\ x.asked = actions[n].asked /\ x.sent = actions[n].sent
<1>1. PICK o \in Actions : o = actions[n]
  OBVIOUS
<1>2. x = [o EXCEPT !.step = "ANSWERED", !.ok = b, !.result = c]
  BY <1>1 DEF Replied
<1>3. x \in Actions
  BY <1>2 DEF Actions, Steps
<1>4. /\ x.step = "ANSWERED" /\ x.ok = b /\ x.result = c /\ x.kind = o.kind
      /\ x.account = o.account /\ x.password = o.password /\ x.cookie = o.cookie
      /\ x.asked = o.asked /\ x.sent = o.sent
  BY <1>2 DEF Actions
<1> QED BY <1>1, <1>3, <1>4

\* The server has handled a write and answers it; the screen is as it was.
LEMMA WriteIsHandled ==
  ASSUME SecurityInv, NEW n \in DOMAIN actions, NEW b \in BOOLEAN, NEW c \in 0 .. MaxCodes,
         NEW a \in Owners, NEW before \in Seq(Actions), actions[n].step = "SENT",
         DOMAIN before = DOMAIN actions, \A m \in DOMAIN actions : Same(actions[m], before[m]),
         NEW x, x = Replied(n, b, c), actions' = [before EXCEPT ![n] = x],
         UNCHANGED <<security, signIns>>,
         members' \subseteq members, session' \in members' \cup {Nobody},
         session' \in {session, Nobody},
         passwordOf' \in [Owners -> Passwords],
         issued' \in 0 .. MaxCodes, codeOf' \in [Owners -> 0 .. issued'],
         outdated \subseteq outdated', outdated' \subseteq 1 .. MaxCodes,
         \A o \in Owners \ {a} : codeOf'[o] = codeOf[o] /\ passwordOf'[o] = passwordOf[o],
         \/ codeOf'[a] = codeOf[a] /\ passwordOf'[a] = passwordOf[a]
         \/ codeOf[a] \in outdated' \cup {0}
         \/ a \notin members'
         \/ Awaited(n) /\ actions[n].kind # "DELETE",
         b /\ actions[n].kind = "ROTATE" => Vouched(x)'
  PROVE  SecurityInv'
<1> USE SecurityAssumption DEF SecurityInv
<1>0. actions[n] \in Actions /\ Dated(actions[n]) /\ signIns \in Nat
  BY DEF SecurityTypeOK
<1>1. /\ x \in Actions /\ x.kind = actions[n].kind /\ x.account = actions[n].account
      /\ x.step = "ANSWERED" /\ x.ok = b /\ x.result = c /\ x.cookie = actions[n].cookie
      /\ x.asked = actions[n].asked /\ x.sent = actions[n].sent
  BY <1>0, RepliedFields
<1>2. /\ actions' \in Seq(Actions) /\ DOMAIN actions' = DOMAIN actions
      /\ actions'[n] = x /\ \A m \in DOMAIN actions \ {n} : actions'[m] = before[m]
  BY <1>1, ActionChanges
<1>3. SecurityTypeOK'
  BY <1>2 DEF SecurityTypeOK
<1>4. \A m \in DOMAIN actions' : Dated(actions[m])'
  <2>1. Dated(x)
    BY <1>0, <1>1 DEF Dated
  <2>2. Dated(x)'
    <3>1. Same(x, x) /\ signIns' = signIns /\ session' \in {session, Nobody} /\ signIns <= signIns'
      BY <1>0 DEF Same
    <3> QED BY <1>0, <1>1, <2>1, <3>1, DatesStay
  <2>3. ASSUME NEW m \in DOMAIN actions \ {n}, NEW y, y = actions'[m] PROVE Dated(y)'
    <3>1. actions[m] \in Actions /\ Dated(actions[m]) /\ Same(actions[m], y)
      BY <1>2, <2>3
    <3> QED BY <1>0, <3>1, DatesStay
  <2> QED BY <1>2, <2>2, <2>3 DEF Dated
<1>5. \A m \in DOMAIN actions : actions[m].step = "OVER" => actions'[m] = actions[m]
  BY <1>2 DEF Same
\* What an awaited action replaces is not on screen, and nothing else awaits a code.
<1>6. CASE Awaited(n) /\ actions[n].kind # "DELETE"
  <2>1. security.pending = n /\ security.pending # 0 /\ security.code = 0
    <3>1. n # 0 /\ security.pending = n
      BY <1>6 DEF Awaited
    <3>2. actions[n].kind = "ROTATE" => security.code = 0
      BY <3>1 DEF PendingAction
    <3>3. actions[n].kind # "ROTATE" => security.principal = Nobody
      BY <1>0, <1>6, <3>1 DEF PendingAction, Actions, Kinds
    <3>4. security.code # 0 => security.principal \in Owners
      <4>1. \A m \in DOMAIN actions : actions[m].account \in Owners
        <5>1. \A y \in Actions : y.account \in Owners
          BY DEF Actions
        <5>2. actions \in Seq(Actions)
          OBVIOUS
        <5>3. \A m \in DOMAIN actions : actions[m] \in Actions
          BY ONLY <5>2
        <5> QED BY <5>1, <5>3
      <4> QED BY <4>1 DEF ShownCode
    <3> QED BY <3>1, <3>2, <3>3, <3>4
  <2>2. x.kind = "ROTATE" /\ x.ok => Vouched(actions[security.pending])'
    BY <1>1, <1>2, <2>1 DEF Vouched
  <2>3. PendingAction'
    BY <1>1, <1>2, <2>1, <2>2 DEF PendingAction
  <2>4. ShownCode'
    BY <2>1 DEF ShownCode
  <2> QED BY <1>2, <1>3, <1>4, <2>3, <2>4
<1>7. CASE ~(Awaited(n) /\ actions[n].kind # "DELETE")
  <2>1. \A o \in Owners : \/ codeOf'[o] = codeOf[o] /\ passwordOf'[o] = passwordOf[o]
                          \/ codeOf[o] \in outdated' \cup {0}
                          \/ o \notin members'
    BY <1>7
  <2>2. \A y \in Actions : Vouched(y) => Vouched(y)'
    BY <2>1, GoodStaysGood
  <2>3. ShownCode'
    BY <1>2, <1>5, <2>2, ShownStays
  <2>4. CASE Awaited(n)
    <3>1. security.pending = n /\ actions[n].kind = "DELETE"
      BY <1>7, <2>4 DEF Awaited
    <3> QED BY <1>1, <1>2, <1>3, <1>4, <2>3, <3>1 DEF PendingAction
  <2>5. CASE ~Awaited(n)
    <3>1. \A m \in DOMAIN actions : Awaited(m) => Same(actions[m], actions'[m])
      BY <1>2, <2>5 DEF Awaited
    <3>2. PendingAction'
      BY <1>2, <2>2, <3>1, PendingStays
    <3> QED BY <1>2, <1>3, <1>4, <2>3, <3>2
  <2> QED BY <2>4, <2>5
<1> QED BY <1>6, <1>7

LEMMA ServerWrites ==
  ASSUME SecurityInv, NEW n \in DOMAIN actions, Rotated(n) \/ WasReset(n) \/ Deleted(n) \/ Denied(n)
  PROVE  SecurityInv'
<1> USE SecurityAssumption DEF SecurityInv
<1>1. /\ actions[n] \in Actions /\ 0 \in 0 .. MaxCodes
      /\ \A m \in DOMAIN actions : Same(actions[m], actions[m])
  BY DEF Same
<1>2. /\ codeOf \in [Owners -> 0 .. issued] /\ issued \in 0 .. MaxCodes
      /\ outdated \subseteq 1 .. MaxCodes /\ members \subseteq Owners
      /\ session \in members \cup {Nobody} /\ passwordOf \in [Owners -> Passwords]
  BY DEF SecurityTypeOK
<1>3. ASSUME NEW a \in Owners
      PROVE  /\ outdated \subseteq Outdates(n, a) /\ Outdates(n, a) \subseteq 1 .. MaxCodes
             /\ ~Awaited(n) => codeOf[a] \in Outdates(n, a) \cup {0}
  <2>1. PICK here : here = codeOf[a]
    OBVIOUS
  <2>2. here \in 0 .. issued /\ (here # 0 => here \in 1 .. MaxCodes)
    BY <1>2, <2>1
  <2>3. Outdates(n, a) = IF Awaited(n) THEN outdated ELSE outdated \cup ({here} \ {0})
    BY <2>1 DEF Outdates
  <2> QED BY <1>2, <2>1, <2>2, <2>3
<1>4. CASE Rotated(n)
  <2>1. PICK a \in Owners :
          /\ a = actions[n].cookie /\ passwordOf[a] = actions[n].password
          /\ issued < MaxCodes /\ issued' = issued + 1
          /\ codeOf' = [codeOf EXCEPT ![a] = issued + 1] /\ outdated' = Outdates(n, a)
    BY <1>2, <1>4 DEF Rotated, Verified
  <2>2. /\ actions[n].kind = "ROTATE" /\ actions[n].step = "SENT" /\ Replies(n, TRUE, issued + 1)
        /\ UNCHANGED <<session, members, passwordOf, security, signIns>>
    BY <1>4 DEF Rotated
  <2>3. PICK c \in 1 .. MaxCodes : c = issued + 1
    BY <1>2, <2>1
  <2>4. codeOf' \in [Owners -> 0 .. issued'] /\ codeOf'[a] = c
        /\ \A o \in Owners \ {a} : codeOf'[o] = codeOf[o]
    <3>1. issued \in Nat /\ issued' = issued + 1 /\ c = issued'
      BY <1>2, <2>1, <2>3
    <3>2. \A o \in Owners : codeOf[o] \in 0 .. issued'
      BY <1>2, <3>1
    <3>3. c \in 0 .. issued' /\ codeOf' = [codeOf EXCEPT ![a] = c]
      BY <2>1, <3>1
    <3> QED BY <1>2, <3>2, <3>3
  <2>5. outdated \subseteq outdated' /\ outdated' \subseteq 1 .. MaxCodes
    BY <1>3, <2>1
  <2>6. codeOf[a] \in outdated' \cup {0} \/ (Awaited(n) /\ actions[n].kind # "DELETE")
    BY <1>3, <2>1, <2>2
  <2>7. PICK x : x = Replied(n, TRUE, c)
    OBVIOUS
  <2>8. x.cookie = a /\ x.result = c /\ x.password = actions[n].password
    <3>1. PICK b \in BOOLEAN : b = TRUE
      OBVIOUS
    <3>2. c \in 0 .. MaxCodes /\ x = Replied(n, b, c)
      BY <2>7, <3>1
    <3>3. /\ x.result = c /\ x.cookie = actions[n].cookie /\ x.password = actions[n].password
      BY <1>1, <3>2, RepliedFields
    <3> QED BY <2>1, <3>3
  <2>9. Vouched(x)'
    BY <2>1, <2>2, <2>4, <2>8 DEF Vouched
  <2>10. /\ issued' \in 0 .. MaxCodes /\ c \in 0 .. MaxCodes
        /\ session' \in members' \cup {Nobody} /\ members' \subseteq members
    BY <1>2, <2>1, <2>2, <2>3
  <2>11. actions' = [actions EXCEPT ![n] = x]
    BY <2>2, <2>3, <2>7 DEF Replies
  <2> QED BY <1>1, <1>2, <2>1, <2>2, <2>4, <2>5, <2>6, <2>7, <2>9, <2>10,
    <2>11, WriteIsHandled
<1>5. CASE WasReset(n)
  <2>1. PICK a \in Owners :
          /\ codeOf' = [codeOf EXCEPT ![a] = 0] /\ outdated' = Outdates(n, a)
          /\ passwordOf' = [passwordOf EXCEPT ![a] = actions[n].password]
          /\ session' = SignedOut(a) /\ actions' = [Revoked(a) EXCEPT ![n] = Replied(n, TRUE, 0)]
    BY <1>2, <1>5 DEF WasReset
  <2>2. /\ actions[n].kind = "RESET" /\ actions[n].step = "SENT"
        /\ UNCHANGED <<issued, members, security, signIns>>
    BY <1>5 DEF WasReset
  <2>3. /\ codeOf' \in [Owners -> 0 .. issued'] /\ passwordOf' \in [Owners -> Passwords]
        /\ \A o \in Owners \ {a} : codeOf'[o] = codeOf[o] /\ passwordOf'[o] = passwordOf[o]
    <3>1. actions[n].password \in Passwords
      BY <1>1 DEF Actions
    <3> QED BY <1>2, <2>1, <2>2, <3>1
  <2>4. outdated \subseteq outdated' /\ outdated' \subseteq 1 .. MaxCodes
    BY <1>3, <2>1
  <2>5. codeOf[a] \in outdated' \cup {0} \/ (Awaited(n) /\ actions[n].kind # "DELETE")
    BY <1>3, <2>1, <2>2
  <2>6. /\ issued' \in 0 .. MaxCodes /\ session' \in members' \cup {Nobody}
        /\ session' \in {session, Nobody} /\ members' \subseteq members
    BY <1>2, <2>1, <2>2 DEF SignedOut
  <2>7. /\ Revoked(a) \in Seq(Actions) /\ DOMAIN Revoked(a) = DOMAIN actions
        /\ \A m \in DOMAIN actions : Same(actions[m], Revoked(a)[m])
    BY RevokedShape
  <2> QED BY <1>1, <2>1, <2>2, <2>3, <2>4, <2>5, <2>6, <2>7, WriteIsHandled
<1>6. CASE Deleted(n)
  <2>1. PICK a \in Owners :
          /\ codeOf' = [codeOf EXCEPT ![a] = 0] /\ outdated' = Outdates(n, a)
          /\ session' \in {Nobody, SignedOut(a)} /\ members' = members \ {a}
    BY <1>2, <1>6 DEF Deleted, Verified
  <2>2. /\ actions[n].kind = "DELETE" /\ actions[n].step = "SENT"
        /\ actions' = [actions EXCEPT ![n] = Replied(n, TRUE, 0)]
        /\ UNCHANGED <<passwordOf, issued, security, signIns>>
    BY <1>6 DEF Deleted, Replies
  <2>3. /\ codeOf' \in [Owners -> 0 .. issued'] /\ passwordOf' \in [Owners -> Passwords]
        /\ \A o \in Owners \ {a} : codeOf'[o] = codeOf[o] /\ passwordOf'[o] = passwordOf[o]
    BY <1>2, <2>1, <2>2
  <2>4. outdated \subseteq outdated' /\ outdated' \subseteq 1 .. MaxCodes
    BY <1>3, <2>1
  <2>5. /\ issued' \in 0 .. MaxCodes /\ session' \in members' \cup {Nobody}
        /\ session' \in {session, Nobody} /\ members' \subseteq members /\ a \notin members'
    BY <1>2, <2>1, <2>2 DEF SignedOut
  <2> QED BY <1>1, <2>1, <2>2, <2>3, <2>4, <2>5, WriteIsHandled
<1>7. CASE Denied(n)
  <2>1. /\ actions[n].step = "SENT" /\ UNCHANGED <<serverVars, security, signIns>>
        /\ actions' = [actions EXCEPT ![n] = Replied(n, FALSE, 0)]
    BY <1>7 DEF Denied, Replies
  <2>2. PICK a \in Owners : TRUE
    BY <1>1 DEF Actions
  <2> QED BY <1>1, <1>2, <2>1, <2>2, WriteIsHandled DEF serverVars
<1> QED BY <1>4, <1>5, <1>6, <1>7

-----------------------------------------------------------------------------
\* The screen gets the answer, or gives up waiting.
LEMMA ScreenIsAnswered ==
  ASSUME SecurityInv, NEW n \in DOMAIN actions, Answered(n) \/ ActionLost(n)
  PROVE  SecurityInv'
<1> USE SecurityAssumption DEF SecurityInv
<1> DEFINE o == actions[n]
<1>1. /\ o \in Actions /\ Dated(o) /\ UNCHANGED <<serverVars, signIns>> /\ security \in Screens
      /\ o.step # "OVER" /\ session \in Owners \cup {Nobody}
  BY DEF Answered, ActionLost, SecurityTypeOK
<1>2. PICK x \in Actions :
        /\ x = [o EXCEPT !.step = "OVER"] /\ Dated(x) /\ x.step = "OVER" /\ x.ok = o.ok
        /\ x.kind = o.kind /\ x.account = o.account /\ x.cookie = o.cookie
        /\ x.result = o.result /\ x.password = o.password
  <2>1. [o EXCEPT !.step = "OVER"] \in Actions
    BY <1>1 DEF Actions, Steps
  <2>2. Dated([o EXCEPT !.step = "OVER"])
    BY <1>1 DEF Actions, Dated
  <2> QED BY <1>1, <2>1, <2>2 DEF Actions
<1>3. o = [o EXCEPT !.step = o.step] /\ actions = [actions EXCEPT ![n] = o]
  BY <1>1 DEF Actions
<1>4. CASE ActionLost(n)
  <2>1. security' = Idle /\ (actions' = [actions EXCEPT ![n] = o] \/ actions' = [actions EXCEPT ![n] = x])
    BY <1>2, <1>3, <1>4 DEF ActionLost, Step
  <2> QED BY <1>1, <1>2, <2>1, ActionGoesOn, ScreensAfter
<1>5. CASE Answered(n)
  <2>1. o.step = "ANSWERED" /\ actions' = [actions EXCEPT ![n] = x]
    BY <1>2, <1>5 DEF Answered, Step
  <2>2. CASE ~Awaited(n)
    <3>1. security' = security
      BY <1>5, <2>2 DEF Answered, Heeded
    <3> QED BY <1>1, <1>2, <2>1, <2>2, <3>1, ActionGoesOn
  <2>3. CASE Awaited(n) /\ ~(o.ok /\ o.kind = "ROTATE")
    <3>1. security' = Idle \/ security' = Invalidated
      BY <1>5, <2>3 DEF Answered, Heeded
    <3> QED BY <1>1, <1>2, <2>1, <3>1, ActionGoesOn, ScreensAfter
  <2>4. CASE Awaited(n) /\ o.ok /\ o.kind = "ROTATE"
    <3>1. security.pending = n /\ n # 0 /\ ~security.disabled /\ o.account = security.principal
          /\ Vouched(o)
      BY <2>1, <2>4 DEF Awaited, PendingAction
    <3>2. n \in 0 .. MaxActions
      BY <1>1, <3>1, ScreenParts
    <3>3. security' = [security EXCEPT !.pending = 0, !.code = n]
      BY <1>5, <2>4 DEF Answered, Heeded, Idle
    <3>4. /\ security' \in Screens /\ security'.pending = 0 /\ security'.code = n
          /\ security'.disabled = security.disabled /\ security'.principal = security.principal
      <4>1. 0 \in 0 .. MaxActions
        OBVIOUS
      <4> HIDE DEF o
      <4> QED BY <1>1, <3>2, <3>3, <4>1 DEF Screens
    <3>5. /\ actions' \in Seq(Actions) /\ DOMAIN actions' = DOMAIN actions
          /\ actions'[n] = x /\ \A m \in DOMAIN actions \ {n} : actions'[m] = actions[m]
      BY <2>1, ActionChanges
    <3>6. SecurityTypeOK'
      BY <1>1, <3>4, <3>5 DEF SecurityTypeOK, serverVars
    <3>7. \A m \in DOMAIN actions' : Dated(actions[m])'
      BY <1>1, <1>2, <3>5 DEF Dated, serverVars
    <3>8. Vouched(x)
      BY <1>2, <3>1 DEF Vouched
    <3>9. Vouched(actions[security.code])'
      BY <1>1, <3>4, <3>5, <3>8 DEF Vouched, serverVars
    <3>10. ShownCode' /\ PendingAction'
      BY <1>2, <2>4, <3>1, <3>4, <3>5, <3>9 DEF ShownCode, PendingAction
    <3> QED BY <3>5, <3>6, <3>7, <3>10
  <2> QED BY <2>2, <2>3, <2>4
<1> QED BY <1>4, <1>5

-----------------------------------------------------------------------------
\* account-security.tsx:147: whatever is lost or late, and whoever else signs in, the code
\* that is shown once is the one that will work, with the password typed for it; it is
\* another account's than the one on screen only if the session changed after the check.
THEOREM CodeOnScreenAlwaysWorks == SecuritySpec => []CodeOnScreenWorks
<1>1. SecurityInv /\ [SecurityNext]_securityVars => SecurityInv'
  <2> SUFFICES ASSUME SecurityInv, [SecurityNext]_securityVars PROVE SecurityInv'
    OBVIOUS
  <2>1. ASSUME NEW k \in Kinds, NEW a \in Owners, NEW w \in Passwords, NEW c \in 0 .. MaxCodes,
               BeginAction(k, a, w, c)
        PROVE  SecurityInv'
    BY <2>1, ActionBegins
  <2>2. ASSUME NEW n \in DOMAIN actions,
               \/ CheckAccount(n) \/ Rotated(n) \/ WasReset(n) \/ Deleted(n) \/ Denied(n)
               \/ Answered(n) \/ ActionLost(n)
        PROVE  SecurityInv'
    BY <2>2, AccountIsChecked, ServerWrites, ScreenIsAnswered
  <2>3. CASE UNCHANGED securityVars
    BY <2>3 DEF securityVars, serverVars, SecurityInv, SecurityTypeOK, Dated, PendingAction,
      ShownCode, Vouched
  <2> QED BY <2>1, <2>2, <2>3, AroundTheScreen DEF SecurityNext
<1>2. SecurityInv => CodeOnScreenWorks
  BY SecurityAssumption
  DEF SecurityInv, PendingAction, ShownCode, Dated, Vouched, CodeOnScreenWorks
<1> QED BY <1>1, <1>2, SecurityStarts, PTL DEF SecuritySpec

-----------------------------------------------------------------------------
(* Private screens.  A view that was loaded across a change of session has *)
(* been told so, unless the session changed twice: RowIsDated.             *)

\* What a view holds was asked for under cookies of which each may have followed the one
\* before: of a load's first answer, of its data, and of its second look at the session.
RowIsDated(s) ==
  /\ s.since <= switches
  /\ s.step = "SESSION" /\ s.since = switches => s.answer = cookie
  /\ s.step = "DATA" /\ s.answer # s.first =>
       switches > s.since /\ (switches = s.since + 1 => s.answer = cookie)
  /\ s.step = "CONFIRM" /\ s.text # s.first =>
       switches > s.since /\ (switches = s.since + 1 => s.text = cookie /\ s.answer = s.text)
  /\ s.phase = "READY" /\ s.text \notin {s.shown, Unknown} => switches >= s.since + 2

\* A view loads, or is read and written.
RowIsOrderly(s) ==
  /\ s.step # "NONE" => s.phase = "LOADING"
  /\ s.step = "CONFIRM" => s.text \in Accounts
  /\ s.phase = "READY" => s.draft = s.edits /\ (s.text = Unknown => s.shown \notin Accounts)
  /\ s.write # "NONE" => s.phase = "READY" /\ s.shown \in Accounts
  /\ s.write = "SENT" => s.expected = s.shown
  /\ s.write = "TAKEN" => s.answer = s.shown

ScreenInv ==
  /\ cookie \in Principals /\ switches \in Nat
  /\ view \in [Views -> ViewRows]
  /\ \A v \in Views : RowIsDated(view[v]) /\ RowIsOrderly(view[v])
  /\ made.since \in Nat /\ WritesStayHome

LEMMA RowsAreRows ==
  ASSUME cookie \in Principals, switches \in Nat
  PROVE  \A s \in {NoView, Loading, Failed} :
           s \in ViewRows /\ RowIsDated(s) /\ RowIsOrderly(s)
<1>1. NoView \in ViewRows /\ RowIsDated(NoView) /\ RowIsOrderly(NoView)
  <2>1. NoView \in ViewRows
    BY DEF NoView, ViewRows, Principals
  <2>2. /\ NoView.step = "NONE" /\ NoView.write = "NONE" /\ NoView.phase = "CLOSED"
        /\ NoView.since = 0
    BY DEF NoView
  <2> QED BY <2>1, <2>2 DEF RowIsDated, RowIsOrderly
<1>2. Failed \in ViewRows /\ RowIsDated(Failed) /\ RowIsOrderly(Failed)
  <2>1. Failed \in ViewRows
    BY <1>1 DEF Failed, ViewRows
  <2>2. /\ Failed.step = "NONE" /\ Failed.write = "NONE" /\ Failed.phase = "ERROR"
        /\ Failed.since = 0
    BY DEF Failed, NoView
  <2> QED BY <2>1, <2>2 DEF RowIsDated, RowIsOrderly
<1>3. Loading \in ViewRows /\ RowIsDated(Loading) /\ RowIsOrderly(Loading)
  <2>1. Loading \in ViewRows
    BY <1>1 DEF Loading, ViewRows
  <2>2. /\ Loading.step = "SESSION" /\ Loading.write = "NONE" /\ Loading.phase = "LOADING"
        /\ Loading.answer = cookie /\ Loading.since = switches
    BY DEF Loading, NoView
  <2> QED BY <2>1, <2>2 DEF RowIsDated, RowIsOrderly
<1> QED BY <1>1, <1>2, <1>3

LEMMA ScreenStartsWell == ScreenInit => ScreenInv
<1> SUFFICES ASSUME ScreenInit PROVE ScreenInv
  OBVIOUS
<1>1. cookie \in Principals /\ switches \in Nat /\ view = [v \in Views |-> NoView]
      /\ made.since \in Nat /\ WritesStayHome
  BY DEF ScreenInit, NoWrite, WritesStayHome
<1>2. NoView \in ViewRows /\ RowIsDated(NoView) /\ RowIsOrderly(NoView)
  BY <1>1, RowsAreRows
<1> QED BY <1>1, <1>2 DEF ScreenInv

\* One view changes, under the cookie there is.
LEMMA SetViewKeeps ==
  ASSUME ScreenInv, NEW v \in Views, NEW row \in ViewRows, RowIsDated(row), RowIsOrderly(row),
         SetView(v, row), UNCHANGED <<cookie, switches>>,
         made' = made \/ (made.since \in Nat /\ WritesStayHome)'
  PROVE  ScreenInv'
<1>1. /\ view' \in [Views -> ViewRows] /\ view'[v] = row
      /\ \A w \in Views \ {v} : view'[w] = view[w]
  BY DEF ScreenInv, SetView
<1>2. ASSUME NEW w \in Views PROVE RowIsDated(view[w])' /\ RowIsOrderly(view[w])'
  BY <1>1 DEF ScreenInv, RowIsDated, RowIsOrderly
<1>3. (made.since \in Nat /\ WritesStayHome)'
  BY DEF ScreenInv, WritesStayHome
<1> QED BY <1>1, <1>2, <1>3 DEF ScreenInv

\* Views are closed, or loaded anew, when another principal is heard of.
LEMMA ClosingKeeps ==
  ASSUME ScreenInv, view' \in [Views -> ViewRows],
         \A v \in Views : view'[v] \in {view[v], NoView, Loading},
         UNCHANGED <<cookie, switches, made>>
  PROVE  ScreenInv'
<1>1. ASSUME NEW v \in Views PROVE RowIsDated(view[v])' /\ RowIsOrderly(view[v])'
  <2>1. RowIsDated(view'[v]) /\ RowIsOrderly(view'[v])
    BY RowsAreRows DEF ScreenInv
  <2> QED BY <2>1 DEF RowIsDated, RowIsOrderly
<1> QED BY <1>1 DEF ScreenInv, WritesStayHome

\* The cookie changes under the views: what they hold is a switch older.
LEMMA SwitchKeeps ==
  ASSUME ScreenInv, cookie' \in Principals, switches' = switches + 1, UNCHANGED <<view, made>>
  PROVE  ScreenInv'
<1>1. switches \in Nat /\ made.since \in Nat /\ \A v \in Views : view[v].since \in Nat
  BY DEF ScreenInv, ViewRows
<1>2. ASSUME NEW v \in Views PROVE RowIsDated(view[v])' /\ RowIsOrderly(view[v])'
  BY <1>1 DEF ScreenInv, RowIsDated, RowIsOrderly
<1> QED BY <1>1, <1>2 DEF ScreenInv, WritesStayHome

LEMMA StillKeeps ==
  ASSUME ScreenInv, UNCHANGED <<cookie, switches, view, made>> PROVE ScreenInv'
BY DEF ScreenInv, RowIsDated, RowIsOrderly, WritesStayHome

LEMMA PrincipalIsHeard ==
  ASSUME ScreenInv, NEW next, UpdatePrincipal(next), UNCHANGED <<cookie, switches, made>>
  PROVE  ScreenInv'
<1>1. NoView \in ViewRows /\ Loading \in ViewRows /\ view \in [Views -> ViewRows]
  BY RowsAreRows DEF ScreenInv
<1>2. /\ view' \in [Views -> ViewRows]
      /\ \A v \in Views : view'[v] \in {view[v], NoView, Loading}
  BY <1>1 DEF UpdatePrincipal, SessionChanged
<1> QED BY <1>2, ClosingKeeps

LEMMA PanelKeeps ==
  ASSUME ScreenInv,
         \/ PanelRefresh \/ PanelSession \/ PanelList \/ PanelFails \/ PanelAuthDone
         \/ PanelSignedIn \/ PanelAuthLost \/ PanelInvalidated \/ CaptureSession \/ CaptureOpen
         \/ \E p \in Principals : PanelAuth(p) \/ OtherTab(p)
  PROVE  ScreenInv'
<1>1. CASE PanelRefresh \/ PanelAuthLost
  BY <1>1, StillKeeps DEF PanelRefresh, PanelAuthLost
<1>2. CASE PanelSession
  BY <1>2, PrincipalIsHeard DEF PanelSession
<1>3. CASE PanelList
  <2>1. UNCHANGED <<cookie, switches, made>> /\ (UpdatePrincipal(Anonymous) \/ UNCHANGED view)
    BY <1>3 DEF PanelList
  <2> QED BY <2>1, PrincipalIsHeard, StillKeeps
<1>4. CASE PanelFails
  <2>1. UNCHANGED <<cookie, switches, made>> /\ (UpdatePrincipal(Anonymous) \/ UNCHANGED view)
    BY <1>4 DEF PanelFails
  <2> QED BY <2>1, PrincipalIsHeard, StillKeeps
<1>5. CASE PanelAuthDone \/ PanelSignedIn \/ PanelInvalidated
  BY <1>5, PrincipalIsHeard DEF PanelAuthDone, PanelSignedIn, PanelInvalidated
<1>6. CASE CaptureSession
  <2>1. NoView \in ViewRows /\ Loading \in ViewRows /\ view \in [Views -> ViewRows]
    BY RowsAreRows DEF ScreenInv
  <2>2. /\ view' \in [Views -> ViewRows]
        /\ \A v \in Views : view'[v] \in {view[v], NoView, Loading}
        /\ UNCHANGED <<cookie, switches, made>>
    BY <1>6, <2>1 DEF CaptureSession
  <2> QED BY <2>2, ClosingKeeps
<1>7. CASE CaptureOpen
  <2>1. PICK p \in Principals :
          /\ cookie' = p /\ switches' = IF p = cookie THEN switches ELSE switches + 1
          /\ UNCHANGED <<view, made>>
    BY <1>7 DEF CaptureOpen, Principals, ScreenInv
  <2> QED BY <2>1, SwitchKeeps, StillKeeps
<1>8. ASSUME NEW p \in Principals, PanelAuth(p) \/ OtherTab(p) PROVE ScreenInv'
  BY <1>8, SwitchKeeps DEF PanelAuth, OtherTab
<1> QED BY <1>1, <1>2, <1>3, <1>4, <1>5, <1>6, <1>7, <1>8

-----------------------------------------------------------------------------
(* Loading and writing.                                                    *)

LEMMA LoadKeeps ==
  ASSUME ScreenInv, NEW v \in Views,
         Open(v) \/ LoadSession(v) \/ LoadData(v) \/ LoadConfirm(v) \/ LoadFails(v)
  PROVE  ScreenInv'
<1> DEFINE s == view[v]
<1>1. /\ s \in ViewRows /\ RowIsDated(s) /\ RowIsOrderly(s) /\ cookie \in Principals
      /\ switches \in Nat /\ s.since \in Nat
  BY DEF ScreenInv, ViewRows
<1>2. UNCHANGED <<cookie, switches, made>>
  BY DEF Open, LoadSession, LoadData, LoadConfirm, LoadFails
<1>3. ASSUME NEW row \in ViewRows, RowIsDated(row), RowIsOrderly(row), SetView(v, row)
      PROVE  ScreenInv'
  BY <1>2, <1>3, SetViewKeeps
<1>4. ASSUME NEW row \in {NoView, Loading, Failed}, SetView(v, row) PROVE ScreenInv'
  BY <1>1, <1>3, <1>4, RowsAreRows
<1>5. CASE Open(v) \/ LoadFails(v)
  BY <1>4, <1>5 DEF Open, LoadFails
<1>6. CASE LoadSession(v)
  <2>1. CASE s.answer \in Accounts
    <3>1. PICK row \in ViewRows :
            row = [s EXCEPT !.step = "DATA", !.first = s.answer, !.answer = cookie]
      BY <1>1 DEF ViewRows
    <3>2. s.step = "SESSION" /\ SetView(v, row)
      BY <1>6, <2>1, <3>1 DEF LoadSession
    <3>3. /\ row.step = "DATA" /\ row.first = s.answer /\ row.answer = cookie
          /\ row.phase = s.phase /\ row.write = s.write /\ row.since = s.since
          /\ row.text = s.text /\ row.shown = s.shown
          /\ row.draft = s.draft /\ row.edits = s.edits
      BY <1>1, <3>1 DEF ViewRows
    <3>4. RowIsDated(row) /\ RowIsOrderly(row)
      BY <1>1, <3>2, <3>3 DEF RowIsDated, RowIsOrderly
    <3> QED BY <1>3, <3>2, <3>4
  <2>2. CASE s.answer \notin Accounts
    <3>1. s.answer \in Principals
      BY <1>1 DEF ViewRows
    <3>2. PICK row \in ViewRows : row = [NoView EXCEPT !.phase = "READY", !.shown = s.answer]
      BY <3>1, <1>1, RowsAreRows DEF ViewRows
    <3>3. /\ row.step = "NONE" /\ row.write = "NONE" /\ row.since = 0 /\ row.text = Unknown
          /\ row.draft = 0 /\ row.edits = 0 /\ row.phase = "READY" /\ row.shown \notin Accounts
      BY <2>2, <3>2 DEF NoView
    <3>4. RowIsDated(row) /\ RowIsOrderly(row)
      BY <1>1, <3>3 DEF RowIsDated, RowIsOrderly
    <3>5. SetView(v, row)
      BY <1>6, <2>2, <3>2 DEF LoadSession
    <3> QED BY <1>3, <3>4, <3>5
  <2> QED BY <2>1, <2>2
<1>7. CASE LoadData(v)
  <2>1. CASE s.answer \in Accounts
    <3>1. PICK row \in ViewRows :
            row = [s EXCEPT !.step = "CONFIRM", !.text = s.answer, !.answer = cookie]
      BY <1>1 DEF ViewRows
    <3>2. s.step = "DATA" /\ SetView(v, row)
      BY <1>7, <2>1, <3>1 DEF LoadData
    <3>3. /\ row.step = "CONFIRM" /\ row.first = s.first /\ row.answer = cookie
          /\ row.phase = s.phase /\ row.write = s.write /\ row.since = s.since
          /\ row.text = s.answer /\ row.shown = s.shown
          /\ row.draft = s.draft /\ row.edits = s.edits
      BY <1>1, <3>1 DEF ViewRows
    <3>4. RowIsDated(row) /\ RowIsOrderly(row)
      BY <1>1, <2>1, <3>2, <3>3 DEF RowIsDated, RowIsOrderly
    <3> QED BY <1>3, <3>2, <3>4
  <2>2. CASE s.answer \notin Accounts
    BY <1>4, <1>7, <2>2 DEF LoadData
  <2> QED BY <2>1, <2>2
<1>8. CASE LoadConfirm(v)
  <2>1. CASE s.answer = s.first
    <3>1. PICK row \in ViewRows :
            row = [NoView EXCEPT !.phase = "READY", !.shown = s.first, !.text = s.text,
                                 !.since = IF s.text = s.first THEN 0 ELSE s.since]
      BY <1>1, RowsAreRows DEF ViewRows
    <3>2. s.step = "CONFIRM" /\ SetView(v, row)
      BY <1>8, <2>1, <3>1 DEF LoadConfirm
    <3>3. /\ row.step = "NONE" /\ row.write = "NONE" /\ row.phase = "READY"
          /\ row.since = IF s.text = s.first THEN 0 ELSE s.since
          /\ row.text = s.text /\ row.shown = s.first /\ row.draft = 0 /\ row.edits = 0
      BY <3>1 DEF NoView
    <3>4. (s.text # s.first => switches >= s.since + 2) /\ s.text # Unknown
      BY <1>1, <2>1, <3>2, ScreenAssumption DEF RowIsDated, RowIsOrderly, Principals
    <3>5. RowIsDated(row) /\ RowIsOrderly(row)
      BY <1>1, <3>3, <3>4 DEF RowIsDated, RowIsOrderly
    <3> QED BY <1>3, <3>2, <3>5
  <2>2. CASE s.answer # s.first
    BY <1>4, <1>8, <2>2 DEF LoadConfirm
  <2> QED BY <2>1, <2>2
<1> QED BY <1>5, <1>6, <1>7, <1>8

\* A write leaves what is shown, or shows what the account it was made for has.
LEMMA WritingKeeps ==
  ASSUME ScreenInv, NEW v \in Views, NEW row \in ViewRows, view[v].phase = "READY",
         row.phase = "READY", row.step = view[v].step, row.since = view[v].since,
         row.shown = view[v].shown,
         row.text = view[v].text \/ (row.text = view[v].shown /\ row.shown \in Accounts),
         row.draft = row.edits,
         row.write # "NONE" => row.shown \in Accounts,
         row.write = "SENT" => row.expected = row.shown,
         row.write = "TAKEN" => row.answer = row.shown,
         SetView(v, row), UNCHANGED <<cookie, switches>>,
         made' = made \/ (made.since \in Nat /\ WritesStayHome)'
  PROVE  ScreenInv'
<1>1. view[v].step = "NONE" /\ RowIsDated(view[v]) /\ RowIsOrderly(view[v])
  BY DEF ScreenInv, RowIsOrderly
<1>2. RowIsDated(row) /\ RowIsOrderly(row)
  BY <1>1, ScreenAssumption DEF RowIsDated, RowIsOrderly, Principals
<1> QED BY <1>2, SetViewKeeps

LEMMA WriteKeeps ==
  ASSUME ScreenInv, NEW v \in Views,
         Write(v) \/ WriteChecked(v) \/ Taken(v) \/ Refused(v) \/ WriteAnswered(v) \/ WriteLost(v)
  PROVE  ScreenInv'
<1> DEFINE s == view[v]
<1>1. /\ s \in ViewRows /\ RowIsOrderly(s) /\ RowIsDated(s) /\ cookie \in Principals
      /\ switches \in Nat
  BY DEF ScreenInv
<1>2. /\ UNCHANGED <<cookie, switches>> /\ s.phase = "READY" /\ s.draft = s.edits
      /\ s.shown \in Accounts /\ s.text # Unknown
  <2>1. UNCHANGED <<cookie, switches>>
    BY DEF Write, WriteChecked, Taken, Refused, WriteAnswered, WriteLost
  <2>2. s.phase = "READY" /\ s.shown \in Accounts
    BY <1>1 DEF Write, WriteChecked, Taken, Refused, WriteAnswered, WriteLost, RowIsOrderly
  <2> QED BY <1>1, <2>1, <2>2 DEF RowIsOrderly
<1>3. ASSUME SetView(v, Failed), made' = made PROVE ScreenInv'
  <2>1. Failed \in ViewRows /\ RowIsDated(Failed) /\ RowIsOrderly(Failed)
    BY <1>1, RowsAreRows
  <2> QED BY <1>2, <1>3, <2>1, SetViewKeeps
<1>4. ASSUME NEW w \in {"NONE", "CHECK", "SENT", "TAKEN", "REFUSED", "RECHECK"},
             NEW answer \in Principals, NEW expected \in Accounts \cup {Unknown},
             NEW sent \in Nat, NEW text \in {s.text, s.shown},
             w = "SENT" => expected = s.shown, w = "TAKEN" => answer = s.shown,
             SetView(v, [s EXCEPT !.write = w, !.answer = answer, !.expected = expected,
                                  !.sent = sent, !.text = text]),
             made' = made \/ (made.since \in Nat /\ WritesStayHome)'
      PROVE  ScreenInv'
  <2>1. PICK row \in ViewRows :
          row = [s EXCEPT !.write = w, !.answer = answer, !.expected = expected,
                          !.sent = sent, !.text = text]
    BY <1>1 DEF ViewRows
  <2>2. /\ row.phase = s.phase /\ row.step = s.step /\ row.since = s.since /\ row.shown = s.shown
        /\ row.text = text /\ row.draft = s.draft /\ row.edits = s.edits
        /\ row.write = w /\ row.expected = expected /\ row.answer = answer
    BY <1>1, <2>1 DEF ViewRows
  <2> QED BY <1>2, <1>4, <2>1, <2>2, WritingKeeps
<1>5. /\ s.sent \in Nat /\ s.draft \in Nat /\ s.text = s.text /\ Anonymous \in Principals
      /\ s.answer \in Principals /\ s.expected \in Accounts \cup {Unknown} /\ s.since \in Nat
  BY <1>1 DEF ViewRows, Principals
<1>6. CASE Write(v)
  <2>1. SetView(v, [s EXCEPT !.write = "CHECK", !.answer = cookie, !.expected = s.expected,
                             !.sent = s.draft, !.text = s.text]) /\ made' = made
    BY <1>1, <1>6 DEF Write, SetView, ViewRows
  <2> QED BY <1>1, <1>4, <1>5, <2>1
<1>7. CASE WriteChecked(v)
  <2>1. \/ SetView(v, [s EXCEPT !.write = "SENT", !.answer = cookie, !.expected = s.shown,
                                !.sent = s.sent, !.text = s.text])
        \/ SetView(v, Failed)
    BY <1>1, <1>7 DEF WriteChecked, Stated, SetView, ViewRows
  <2>2. made' = made
    BY <1>7 DEF WriteChecked
  <2> QED BY <1>1, <1>2, <1>3, <1>4, <1>5, <2>1, <2>2
\* The field is the account on screen, so that only a session of that account is taken.
<1>8. CASE Taken(v)
  <2>1. /\ s.write = "SENT" /\ Accepted(s.answer, s.expected)
        /\ made' = [by |-> s.answer, on |-> s.shown, text |-> s.text, since |-> s.since]
        /\ SetView(v, [s EXCEPT !.write = "TAKEN", !.expected = Unknown])
    BY <1>8 DEF Taken
  <2>2. s.answer = s.shown
    BY <1>1, <1>2, <2>1, ScreenAssumption DEF Accepted, RowIsOrderly, Principals
  <2>3. (made.since \in Nat /\ WritesStayHome)'
    BY <1>1, <1>2, <1>5, <2>1, <2>2 DEF WritesStayHome, RowIsDated
  <2>4. SetView(v, [s EXCEPT !.write = "TAKEN", !.answer = s.answer, !.expected = Unknown,
                             !.sent = s.sent, !.text = s.text])
    BY <1>1, <2>1 DEF SetView, ViewRows
  <2> QED BY <1>1, <1>4, <1>5, <2>2, <2>3, <2>4
<1>9. CASE Refused(v)
  <2>1. SetView(v, [s EXCEPT !.write = "REFUSED", !.answer = s.answer, !.expected = Unknown,
                             !.sent = s.sent, !.text = s.text]) /\ made' = made
    BY <1>1, <1>9 DEF Refused, SetView, ViewRows
  <2> QED BY <1>4, <1>5, <2>1
<1>10. CASE WriteAnswered(v)
  <2>1. made' = made
    BY <1>10 DEF WriteAnswered
  <2>2. \/ SetView(v, Failed)
        \/ /\ s.write = "TAKEN"
           /\ SetView(v, [s EXCEPT !.write = "NONE", !.answer = Anonymous, !.expected = s.expected,
                                   !.sent = s.sent, !.text = s.answer])
        \/ SetView(v, [s EXCEPT !.write = "RECHECK", !.answer = cookie, !.expected = s.expected,
                                !.sent = s.sent, !.text = s.text])
    BY <1>1, <1>10 DEF WriteAnswered, SetView, ViewRows
  <2>3. s.write = "TAKEN" => s.answer = s.shown
    BY <1>1 DEF RowIsOrderly
  <2> QED BY <1>1, <1>3, <1>4, <1>5, <2>1, <2>2, <2>3
<1>11. CASE WriteLost(v)
  <2>1. SetView(v, [s EXCEPT !.write = "NONE", !.answer = Anonymous, !.expected = Unknown,
                             !.sent = 0, !.text = s.text]) /\ made' = made
    BY <1>1, <1>11 DEF WriteLost, SetView, ViewRows
  <2> QED BY <1>4, <1>5, <2>1
<1> QED BY <1>6, <1>7, <1>8, <1>9, <1>10, <1>11

\* What is edited, saved or compared is the brief's own.
LEMMA BriefKeeps ==
  ASSUME ScreenInv, Edit \/ SaveConfirmed \/ LookAtSession \/ LookAnswered PROVE ScreenInv'
<1> DEFINE s == view["BRIEF"]
<1>1. /\ "BRIEF" \in Views /\ s \in ViewRows /\ RowIsOrderly(s) /\ RowIsDated(s) /\ s.edits \in Nat
      /\ s.sent \in Nat /\ cookie \in Principals /\ switches \in Nat
  BY DEF ScreenInv, Views, ViewRows
<1>2. UNCHANGED <<cookie, switches, made>>
  BY DEF Edit, SaveConfirmed, LookAtSession, LookAnswered
<1>3. CASE SetView("BRIEF", Failed)
  <2>1. Failed \in ViewRows /\ RowIsDated(Failed) /\ RowIsOrderly(Failed)
    BY <1>1, RowsAreRows
  <2> QED BY <1>1, <1>2, <1>3, <2>1, SetViewKeeps
<1>4. ASSUME NEW row \in ViewRows, SetView("BRIEF", row),
             row.phase = s.phase, row.step = s.step, row.since = s.since, row.shown = s.shown,
             row.text = s.text, s.phase = "READY" => row.draft = row.edits,
             row.write = "NONE" \/ (/\ row.write = s.write /\ row.expected = s.expected
                                    /\ row.answer = s.answer /\ row.first = s.first),
             row.step # "NONE" => row.answer = s.answer /\ row.first = s.first
      PROVE  ScreenInv'
  <2>1. RowIsDated(row) /\ RowIsOrderly(row)
    BY <1>1, <1>4 DEF RowIsDated, RowIsOrderly
  <2> QED BY <1>1, <1>2, <1>4, <2>1, SetViewKeeps
<1>5. CASE Edit
  <2>1. PICK n \in Nat : n = s.edits + 1
    BY <1>1
  <2>2. PICK row \in ViewRows : row = [s EXCEPT !.edits = n, !.draft = n, !.look = Unknown]
    BY <1>1 DEF ViewRows
  <2>3. SetView("BRIEF", row)
    BY <1>1, <1>5, <2>1, <2>2 DEF Edit, SetView, ViewRows
  <2>4. /\ row.phase = s.phase /\ row.step = s.step /\ row.since = s.since /\ row.shown = s.shown
        /\ row.text = s.text /\ row.draft = row.edits
        /\ row.write = s.write /\ row.expected = s.expected /\ row.answer = s.answer
        /\ row.first = s.first
    BY <1>1, <2>2 DEF ViewRows
  <2> QED BY <1>4, <2>3, <2>4
<1>6. ASSUME SaveConfirmed, s.answer = s.shown PROVE ScreenInv'
  <2>1. s.write = "RECHECK" /\ s.phase = "READY" /\ s.step = "NONE" /\ s.draft = s.edits
    BY <1>1, <1>6 DEF SaveConfirmed, RowIsOrderly
  <2> DEFINE draft == IF s.edits = s.sent THEN s.sent ELSE s.draft
  <2>2. draft \in Nat /\ draft = s.edits /\ Anonymous \in Principals
    BY <1>1, <2>1 DEF Principals
  <2> HIDE DEF draft
  <2>3. PICK row \in ViewRows :
          row = [s EXCEPT !.write = "NONE", !.answer = Anonymous, !.sent = 0, !.draft = draft]
    BY <1>1, <2>2 DEF ViewRows
  <2>4. SetView("BRIEF", row)
    BY <1>1, <1>6, <2>3 DEF SaveConfirmed, SetView, ViewRows, draft
  <2>5. /\ row.phase = s.phase /\ row.step = s.step /\ row.since = s.since /\ row.shown = s.shown
        /\ row.text = s.text /\ row.draft = row.edits /\ row.write = "NONE"
    BY <1>1, <2>2, <2>3 DEF ViewRows
  <2> QED BY <1>4, <2>1, <2>4, <2>5
<1>7. CASE SaveConfirmed /\ s.answer # s.shown
  BY <1>3, <1>7 DEF SaveConfirmed
<1>8. ASSUME NEW look \in Principals \cup {Unknown}, SetView("BRIEF", [s EXCEPT !.look = look])
      PROVE  ScreenInv'
  <2>1. PICK row \in ViewRows : row = [s EXCEPT !.look = look]
    BY <1>1 DEF ViewRows
  <2>2. s.phase = "READY" => s.draft = s.edits
    BY <1>1 DEF RowIsOrderly
  <2>3. /\ row.phase = s.phase /\ row.step = s.step /\ row.since = s.since /\ row.shown = s.shown
        /\ row.text = s.text /\ row.draft = s.draft /\ row.edits = s.edits
        /\ row.write = s.write /\ row.expected = s.expected /\ row.answer = s.answer
        /\ row.first = s.first
    BY <1>1, <2>1 DEF ViewRows
  <2> QED BY <1>4, <1>8, <2>1, <2>2, <2>3
<1>9. CASE LookAtSession \/ LookAnswered
  BY <1>1, <1>3, <1>8, <1>9 DEF LookAtSession, LookAnswered
<1> QED BY <1>5, <1>6, <1>7, <1>9

LEMMA ScreenNextKeeps == ScreenInv /\ [ScreenNext]_screenVars => ScreenInv'
<1> SUFFICES ASSUME ScreenInv, [ScreenNext]_screenVars PROVE ScreenInv'
  OBVIOUS
<1>1. CASE UNCHANGED screenVars
  BY <1>1, StillKeeps DEF screenVars
<1>2. CASE ScreenNext
  BY <1>2, PanelKeeps, LoadKeeps, WriteKeeps, BriefKeeps DEF ScreenNext
<1> QED BY <1>1, <1>2

LEMMA ScreenSpecKeeps == ScreenSpec => []ScreenInv
BY ScreenStartsWell, ScreenNextKeeps, PTL DEF ScreenSpec

\* customer-reviews.tsx:140 and mascara-brief-editor.tsx:132: data are shown under another
\* account's name only if the cookie changed twice while they were loaded, whatever else
\* the panel, the capture and the views do meanwhile.
THEOREM OneSwitchIsAlwaysNoticed == ScreenSpec => []OneSwitchIsNoticed
<1>1. ScreenInv => OneSwitchIsNoticed
  BY DEF ScreenInv, OneSwitchIsNoticed, Shows, RowIsDated
<1> QED BY <1>1, ScreenSpecKeeps, PTL

\* Whichever session carries it, every write that is made is made for the account that was on
\* screen, and what was shown as that account's was its own, unless the session had changed
\* twice under its load.
THEOREM WritesAlwaysStayHome == ScreenSpec => []WritesStayHome
<1>1. ScreenInv => WritesStayHome
  BY DEF ScreenInv, WritesStayHome
<1> QED BY <1>1, ScreenSpecKeeps, PTL

\* mascara-brief-editor.tsx:285: an edit made while the brief is saved survives the answer.
THEOREM EditsAlwaysSurvive == ScreenSpec => []EditsSurvive
<1>1. ScreenInv => EditsSurvive
  BY DEF ScreenInv, EditsSurvive, RowIsOrderly, Views
<1> QED BY <1>1, ScreenSpecKeeps, PTL

-----------------------------------------------------------------------------
(* Product screens: looking a barcode up.                                  *)

SearchRows == [kind : {"IDLE", "LOADING", "INVALID", "DISCOVERING", "FOUND", "UNSUPPORTED_CATEGORY",
                       "UNAVAILABLE", "EXTERNAL", "NOT_FOUND", "DISCOVERY_UNAVAILABLE", "OBSERVING"},
               code : Codes, generation : 0 .. MaxTurns, asked : Codes]
LookupRows == [of : 1 .. MaxTurns, code : Codes, step : {"CATALOG", "DISCOVERY"}]

\* The lookup of the generation there is, if it goes on, is of the code asked for last.
SearchInv ==
  /\ search \in SearchRows /\ lookups \subseteq LookupRows
  /\ \A l \in lookups : l.of <= search.generation /\ (IsLatest(l) => l.code = search.asked)
  /\ search.kind \notin {"IDLE", "OBSERVING"} => search.code = search.asked
  /\ search.kind \in Waiting => \E l \in lookups : IsLatest(l)

LEMMA SearchStartsWell == SearchInit => SearchInv
<1>1. (CHOOSE c \in Codes : TRUE) \in Codes
  BY ScreensAssumption
<1> QED BY <1>1, ScreensAssumption DEF SearchInit, SearchInv, SearchRows, LookupRows, Waiting

\* A lookup hears of its end, or goes on: only the latest is listened to.
LEMMA TellingKeepsSearch ==
  ASSUME SearchInv, NEW l \in lookups, NEW next \in SUBSET LookupRows,
         \A m \in next : m.of = l.of /\ m.code = l.code,
         NEW kind \in {"LOADING", "INVALID", "DISCOVERING", "FOUND", "UNSUPPORTED_CATEGORY",
                       "UNAVAILABLE", "EXTERNAL", "NOT_FOUND", "DISCOVERY_UNAVAILABLE"},
         kind \in Waiting /\ IsLatest(l) => next # {},
         Tell(l, kind), lookups' = (lookups \ {l}) \cup next
  PROVE  SearchInv'
<1>1. l \in LookupRows /\ search \in SearchRows
  BY DEF SearchInv
<1>2. /\ search' \in SearchRows /\ search'.generation = search.generation
      /\ search'.asked = search.asked
      /\ IsLatest(l) => search'.kind = kind /\ search'.code = l.code
      /\ ~IsLatest(l) => search' = search
  BY <1>1 DEF Tell, SearchRows, LookupRows
<1>3. \A m : IsLatest(m)' <=> IsLatest(m)
  BY <1>2 DEF IsLatest
<1>4. \A m \in lookups' : m.of <= search'.generation /\ (IsLatest(m)' => m.code = search'.asked)
  BY <1>2, <1>3 DEF SearchInv, IsLatest
<1>5. search'.kind \notin {"IDLE", "OBSERVING"} => search'.code = search'.asked
  BY <1>2 DEF SearchInv
<1>6. search'.kind \in Waiting => \E m \in lookups' : IsLatest(m)'
  <2>1. CASE IsLatest(l)
    <3>1. \A m \in next : IsLatest(m)
      BY <2>1 DEF IsLatest
    <3> QED BY <1>2, <1>3, <2>1, <3>1
  <2>2. CASE ~IsLatest(l)
    BY <1>2, <1>3, <2>2 DEF SearchInv
  <2> QED BY <2>1, <2>2
<1>7. lookups' \subseteq LookupRows
  BY DEF SearchInv
<1> QED BY <1>2, <1>4, <1>5, <1>6, <1>7 DEF SearchInv

LEMMA SearchNextKeeps ==
  ASSUME SearchInv, SearchNext \/ UNCHANGED searchVars PROVE SearchInv'
<1>1. CASE UNCHANGED searchVars
  BY <1>1 DEF searchVars, SearchInv, IsLatest
<1>2. ASSUME NEW c \in Codes, Lookup(c) PROVE SearchInv'
  <2> DEFINE next == search.generation + 1
             valid == c \notin Malformed
             new == [of |-> next, code |-> c, step |-> "CATALOG"]
  <2>1. /\ search.generation \in Nat /\ next \in 1 .. MaxTurns /\ MaxTurns \in Nat
    BY <1>2, ScreensAssumption DEF Lookup, SearchInv, SearchRows
  <2>2. /\ search' = [kind |-> IF valid THEN "LOADING" ELSE "INVALID", code |-> c,
                      generation |-> next, asked |-> c]
        /\ lookups' = lookups \cup (IF valid THEN {new} ELSE {})
    BY <1>2 DEF Lookup
  <2>3. search' \in SearchRows /\ new \in LookupRows
    BY <2>1, <2>2 DEF SearchRows, LookupRows
  <2>4. /\ search'.generation = next /\ search'.asked = c /\ search'.code = c
        /\ search'.kind = (IF valid THEN "LOADING" ELSE "INVALID")
        /\ new.of = next /\ new.code = c
    BY <2>2
  <2> HIDE DEF new, next
  <2>5. \A m \in lookups : m.of \in Nat /\ m.of < next
    BY <2>1 DEF SearchInv, LookupRows, next
  <2>6. \A m \in lookups' : m.of <= search'.generation /\ (IsLatest(m)' => m.code = search'.asked)
    BY <2>1, <2>2, <2>4, <2>5 DEF IsLatest
  <2>7. search'.kind \in Waiting => \E m \in lookups' : IsLatest(m)'
    BY <2>2, <2>4 DEF IsLatest, Waiting
  <2>8. lookups' \subseteq LookupRows
    BY <2>2, <2>3 DEF SearchInv
  <2> QED BY <2>3, <2>4, <2>6, <2>7, <2>8 DEF SearchInv
<1>3. CASE Observe
  <2>1. /\ search \in SearchRows /\ search.generation < MaxTurns /\ lookups' = lookups
        /\ search' = [search EXCEPT !.kind = "OBSERVING", !.generation = search.generation + 1]
        /\ search.generation \in Nat /\ MaxTurns \in Nat
    BY <1>3, ScreensAssumption DEF Observe, SearchInv, SearchRows
  <2>2. PICK g \in 1 .. MaxTurns : g = search.generation + 1
    BY <2>1
  <2>3. /\ search' \in SearchRows /\ search'.kind = "OBSERVING" /\ search'.generation = g
    <3>1. search' = [search EXCEPT !.kind = "OBSERVING", !.generation = g]
      BY <2>1, <2>2
    <3>2. g \in 0 .. MaxTurns
      BY <2>1
    <3> QED BY <2>1, <3>1, <3>2 DEF SearchRows
  <2>4. \A m \in lookups : m.of \in Nat /\ m.of < g
    BY <2>1, <2>2 DEF SearchInv, LookupRows
  <2>5. \A m \in lookups : m.of <= search'.generation /\ ~IsLatest(m)'
    BY <2>2, <2>3, <2>4 DEF IsLatest
  <2> QED BY <2>1, <2>3, <2>5 DEF SearchInv, Waiting
<1>4. ASSUME NEW l \in lookups, CatalogAnswers(l) PROVE SearchInv'
  <2>1. PICK kind \in {"FOUND", "INVALID", "UNSUPPORTED_CATEGORY", "UNAVAILABLE", "DISCOVERING"} :
          /\ Tell(l, kind)
          /\ lookups' = (lookups \ {l}) \cup (IF kind = "DISCOVERING" /\ IsLatest(l)
                                              THEN {[l EXCEPT !.step = "DISCOVERY"]} ELSE {})
    BY <1>4 DEF CatalogAnswers
  <2>2. PICK next \in SUBSET LookupRows :
          next = IF kind = "DISCOVERING" /\ IsLatest(l)
                 THEN {[l EXCEPT !.step = "DISCOVERY"]} ELSE {}
    BY DEF SearchInv, LookupRows
  <2>3. \A m \in next : m.of = l.of /\ m.code = l.code
    BY <2>2 DEF SearchInv, LookupRows
  <2>4. kind \in Waiting /\ IsLatest(l) => next # {}
    BY <2>2 DEF Waiting
  <2> QED BY <2>1, <2>2, <2>3, <2>4, TellingKeepsSearch
<1>5. ASSUME NEW l \in lookups, DiscoveryAnswers(l) PROVE SearchInv'
  <2>1. PICK kind \in {"EXTERNAL", "NOT_FOUND", "DISCOVERY_UNAVAILABLE"} :
          Tell(l, kind) /\ lookups' = (lookups \ {l}) \cup {}
    BY <1>5 DEF DiscoveryAnswers
  <2>2. kind \notin Waiting
    BY DEF Waiting
  <2> QED BY <2>1, <2>2, TellingKeepsSearch
<1>6. CASE ObservationEnds
  <2>1. /\ search \in SearchRows /\ lookups' = lookups /\ search.kind = "OBSERVING"
        /\ search' = [search EXCEPT !.kind = "IDLE"]
    BY <1>6 DEF ObservationEnds, SearchInv
  <2>2. /\ search' \in SearchRows /\ search'.kind = "IDLE" /\ search'.code = search.code
        /\ search'.generation = search.generation /\ search'.asked = search.asked
    BY <2>1 DEF SearchRows
  <2> QED BY <2>1, <2>2 DEF SearchInv, Waiting, IsLatest
<1> QED BY <1>1, <1>2, <1>3, <1>4, <1>5, <1>6 DEF SearchNext

-----------------------------------------------------------------------------
(* Comparison.                                                             *)

CompareRows == [form : Forms, brief : Nat, status : {"IDLE", "LOADING", "DONE", "ERROR"},
                of : {<<>>} \cup (Forms \X Nat), pending : 0 .. MaxTurns, turns : 0 .. MaxTurns]
PreviewRows == [id : 1 .. MaxTurns, step : {"PREPARE", "ASK"}, form : Forms, brief : Nat]

\* The submit that is current carries the form as it stands, and the brief once it has one.
CompareInv ==
  /\ compare \in CompareRows /\ previews \subseteq PreviewRows
  /\ compare.pending <= compare.turns
  /\ \A p \in previews :
       /\ p.id <= compare.turns
       /\ IsPending(p) => p.form = compare.form /\ (p.step = "ASK" => p.brief = compare.brief)
  /\ compare.status = "DONE" => compare.of = <<compare.form, compare.brief>>
  /\ compare.status = "LOADING" => \E p \in previews : IsPending(p)

LEMMA CompareStartsWell == CompareInit => CompareInv
<1>1. (CHOOSE f \in Forms \ Clashing : TRUE) \in Forms
  BY ScreensAssumption
<1> QED BY <1>1, ScreensAssumption DEF CompareInit, CompareInv, CompareRows, PreviewRows, None

LEMMA InvalidIsARow ==
  ASSUME compare \in CompareRows
  PROVE  /\ Invalidate(compare) \in CompareRows
         /\ Invalidate(compare).status = "IDLE" /\ Invalidate(compare).pending = 0
         /\ Invalidate(compare).form = compare.form /\ Invalidate(compare).brief = compare.brief
         /\ Invalidate(compare).turns = compare.turns
<1>1. PICK none \in 0 .. MaxTurns : none = 0
  BY ScreensAssumption
<1>2. Invalidate(compare) = [compare EXCEPT !.status = "IDLE", !.pending = none]
  BY <1>1 DEF Invalidate, None
<1> QED BY <1>1, <1>2 DEF CompareRows

\* What a submit was asked is out of date: nobody waits for it.
LEMMA InvalidateKeepsCompare ==
  ASSUME CompareInv, NEW form \in Forms, NEW brief \in Nat,
         NEW turns \in 0 .. MaxTurns, compare.turns <= turns,
         compare' = [Invalidate(compare) EXCEPT !.form = form, !.brief = brief, !.turns = turns],
         previews' \subseteq previews
  PROVE  CompareInv'
<1>1. compare \in CompareRows
  BY DEF CompareInv
<1>2. PICK row \in CompareRows :
        row = Invalidate(compare) /\ row.status = "IDLE" /\ row.pending = 0
  BY <1>1, InvalidIsARow
<1>3. /\ compare' \in CompareRows /\ compare'.turns = turns /\ compare'.status = "IDLE"
      /\ compare'.pending = 0
  <2>1. compare' = [row EXCEPT !.form = form, !.brief = brief, !.turns = turns]
    BY <1>2
  <2> QED BY <1>2, <2>1 DEF CompareRows
<1>4. \A p \in previews' : p.id \in Nat \ {0} /\ p.id <= turns /\ p \in PreviewRows
  BY <1>1 DEF CompareInv, PreviewRows, CompareRows
<1>5. \A p \in previews' : ~IsPending(p)'
  BY <1>3, <1>4 DEF IsPending
<1> QED BY <1>3, <1>4, <1>5 DEF CompareInv

LEMMA SubmitKeeps ==
  ASSUME CompareInv, Submit PROVE CompareInv'
<1>1. /\ compare \in CompareRows /\ compare.pending = None /\ compare.turns \in Nat
      /\ MaxTurns \in Nat
  BY ScreensAssumption DEF CompareInv, Submit, CompareRows
<1>2. CASE compare.form \in Clashing
  <2>1. compare' = [compare EXCEPT !.status = "ERROR"] /\ previews' = previews
    BY <1>2 DEF Submit
  <2>2. /\ compare' \in CompareRows /\ compare'.status = "ERROR" /\ compare'.turns = compare.turns
        /\ compare'.pending = compare.pending /\ compare'.form = compare.form
        /\ compare'.brief = compare.brief
    BY <1>1, <2>1 DEF CompareRows
  <2> QED BY <2>1, <2>2 DEF CompareInv, IsPending
<1>3. CASE compare.form \notin Clashing
  <2>1. PICK id \in 1 .. MaxTurns : id = compare.turns + 1
    BY <1>1, <1>3 DEF Submit
  <2>2. PICK new \in PreviewRows :
          new = [id |-> id, step |-> "PREPARE", form |-> compare.form, brief |-> compare.brief]
    BY <1>1, <2>1 DEF PreviewRows, CompareRows
  <2>3. /\ compare' = [compare EXCEPT !.status = "LOADING", !.pending = id, !.turns = id]
        /\ previews' = previews \cup {new}
        /\ new.id = id /\ new.form = compare.form /\ new.step = "PREPARE"
    BY <1>3, <2>1, <2>2 DEF Submit
  <2>4. /\ compare' \in CompareRows /\ compare'.status = "LOADING" /\ compare'.turns = id
        /\ compare'.pending = id /\ compare'.form = compare.form
        /\ compare'.brief = compare.brief
    <3>1. id \in 0 .. MaxTurns
      BY <1>1, <2>1
    <3> QED BY <1>1, <2>3, <3>1 DEF CompareRows
  <2>5. \A p \in previews : p.id \in Nat /\ p.id < id
    BY <1>1, <2>1 DEF CompareInv, PreviewRows
  <2>6. \A p \in previews : p.id <= compare'.turns /\ ~IsPending(p)'
    BY <2>1, <2>4, <2>5 DEF IsPending
  <2>7. IsPending(new)'
    BY <2>3, <2>4 DEF IsPending
  <2> QED BY <2>2, <2>3, <2>4, <2>6, <2>7 DEF CompareInv
<1> QED BY <1>2, <1>3

\* A submit that ends, or goes on, does so for whoever still waits for it.
LEMMA SubmitsGoOn ==
  ASSUME CompareInv, NEW p \in previews, Prepared(p) \/ PreviewAnswers(p)
  PROVE  CompareInv'
<1>1. /\ compare \in CompareRows /\ p \in PreviewRows /\ MaxTurns \in Nat
      /\ compare.turns \in 0 .. MaxTurns /\ compare.form \in Forms /\ compare.brief \in Nat
  BY ScreensAssumption DEF CompareInv, CompareRows
<1>2. CASE /\ p.step = "PREPARE" /\ IsPending(p) /\ compare' = compare
           /\ previews' = (previews \ {p}) \cup {[p EXCEPT !.step = "ASK", !.brief = compare.brief]}
  <2> DEFINE new == [p EXCEPT !.step = "ASK", !.brief = compare.brief]
  <2>1. /\ new \in PreviewRows /\ new.id = p.id /\ new.form = p.form
        /\ new.brief = compare.brief
    BY <1>1 DEF PreviewRows
  <2> HIDE DEF new
  <2>2. IsPending(new)
    BY <1>2, <2>1 DEF IsPending
  <2>3. previews' = (previews \ {p}) \cup {new}
    BY <1>2 DEF new
  <2> QED BY <1>2, <2>1, <2>2, <2>3 DEF CompareInv, IsPending
<1>3. CASE IsPending(p) /\ previews' = previews \ {p} /\ compare' = Invalidate(compare)
  <2>1. PICK row \in CompareRows :
          /\ row = Invalidate(compare)
          /\ row.form = compare.form /\ row.brief = compare.brief /\ row.turns = compare.turns
    BY <1>1, InvalidIsARow
  <2>2. row = [row EXCEPT !.form = compare.form, !.brief = compare.brief, !.turns = compare.turns]
    BY <2>1 DEF CompareRows
  <2>3. compare' = [Invalidate(compare) EXCEPT !.form = compare.form, !.brief = compare.brief,
                                               !.turns = compare.turns]
    BY <1>3, <2>1, <2>2
  <2>4. compare.turns <= compare.turns /\ previews' \subseteq previews
    BY <1>1, <1>3
  <2> QED BY <1>1, <2>3, <2>4, InvalidateKeepsCompare
<1>4. CASE ~IsPending(p) /\ previews' = previews \ {p} /\ compare' = compare
  <2>1. \A q \in previews : IsPending(q) => q \in previews'
    BY <1>4
  <2> QED BY <1>4, <2>1 DEF CompareInv, IsPending
<1>5. ASSUME IsPending(p), p.step = "ASK", previews' = previews \ {p}, NEW status \in {"DONE", "ERROR"},
             compare' = [compare EXCEPT !.status = status, !.pending = None,
                                        !.of = IF status = "DONE" THEN <<p.form, p.brief>> ELSE @]
      PROVE  CompareInv'
  <2>1. p.form = compare.form /\ p.brief = compare.brief
    BY <1>5 DEF CompareInv
  <2>2. PICK of \in {<<>>} \cup (Forms \X Nat) :
          /\ of = IF status = "DONE" THEN <<p.form, p.brief>> ELSE compare.of
          /\ compare' = [compare EXCEPT !.status = status, !.pending = None, !.of = of]
    BY <1>1, <1>5 DEF CompareRows, PreviewRows
  <2>3. /\ compare' \in CompareRows /\ compare'.status = status /\ compare'.of = of
        /\ compare'.pending = 0 /\ compare'.turns = compare.turns
        /\ compare'.form = compare.form /\ compare'.brief = compare.brief
    <3>1. PICK none \in 0 .. MaxTurns : none = 0
      BY <1>1
    <3>2. compare' = [compare EXCEPT !.status = status, !.pending = none, !.of = of]
      BY <2>2, <3>1 DEF None
    <3> QED BY <1>1, <3>1, <3>2 DEF CompareRows
  <2>4. \A q \in previews' : ~IsPending(q)'
    BY <1>5, <2>3 DEF IsPending, CompareInv, PreviewRows
  <2>5. compare.turns \in Nat
    BY <1>1
  <2> QED BY <1>5, <2>1, <2>2, <2>3, <2>4, <2>5 DEF CompareInv
<1> QED BY <1>2, <1>3, <1>4, <1>5 DEF Prepared, PreviewAnswers

LEMMA CompareNextKeeps ==
  ASSUME CompareInv, CompareNext \/ UNCHANGED compareVars PROVE CompareInv'
<1>1. CASE UNCHANGED compareVars
  BY <1>1 DEF compareVars, CompareInv, IsPending
<1>2. PICK row \in CompareRows :
        /\ row = Invalidate(compare)
        /\ row.form = compare.form /\ row.brief = compare.brief /\ row.turns = compare.turns
        /\ compare.brief \in Nat /\ compare.form \in Forms /\ compare.turns \in Nat
        /\ MaxTurns \in Nat
  BY InvalidIsARow, ScreensAssumption DEF CompareInv, CompareRows
<1>3. ASSUME NEW f \in Forms, ChangeForm(f) PROVE CompareInv'
  <2>1. PICK turns \in 0 .. MaxTurns : turns = compare.turns + 1
    BY <1>2, <1>3 DEF ChangeForm
  <2>2. compare' = [row EXCEPT !.form = f, !.turns = turns]
    BY <1>2, <1>3, <2>1 DEF ChangeForm
  <2>3. compare' = [Invalidate(compare) EXCEPT !.form = f, !.brief = compare.brief, !.turns = turns]
    BY <1>2, <2>2 DEF CompareRows
  <2>4. compare.turns <= turns /\ previews' \subseteq previews
    BY <1>2, <1>3, <2>1 DEF ChangeForm
  <2> QED BY <1>2, <2>3, <2>4, InvalidateKeepsCompare
<1>4. CASE ChangeBrief
  <2>1. PICK turns \in 0 .. MaxTurns : turns = compare.turns + 1
    BY <1>2, <1>4 DEF ChangeBrief
  <2>2. PICK brief \in Nat : brief = compare.brief + 1
    BY <1>2
  <2>3. compare' = [row EXCEPT !.brief = brief, !.turns = turns]
    BY <1>2, <1>4, <2>1, <2>2 DEF ChangeBrief
  <2>4. compare' = [Invalidate(compare) EXCEPT !.form = compare.form, !.brief = brief, !.turns = turns]
    BY <1>2, <2>3 DEF CompareRows
  <2>5. compare.turns <= turns /\ previews' \subseteq previews
    BY <1>2, <1>4, <2>1 DEF ChangeBrief
  <2> QED BY <1>2, <2>4, <2>5, InvalidateKeepsCompare
<1> QED BY <1>1, <1>3, <1>4, SubmitKeeps, SubmitsGoOn DEF CompareNext


-----------------------------------------------------------------------------
(* The workspace of compositions.                                          *)

Revisions == [product : Products \cup {"NONE"}, number : 0 .. MaxRevisions]
Workspaces == [product : Products, initial : Revisions, phase : {"LOADING", "READY", "ERROR"},
               original : Revisions, latest : Revisions, selected : Revisions,
               analysis : Revisions, saved : Revisions,
               load : 0 .. MaxCalls, operation : 0 .. MaxCalls, saving : 0 .. MaxCalls]
CallRows == [kind : {"LOAD", "RECOGNIZE", "SAVE", "ANALYZE", "KEEP"}, id : 1 .. MaxCalls,
             product : Products, of : Revisions]

\* A call somebody waits for is of the kind waited for, of the product that is open,
\* and of the revision that is chosen.
CallsFit(w, calls) ==
  \A c \in calls :
    /\ w.load = c.id => c.kind = "LOAD" /\ c.product = w.product
    /\ w.operation = c.id => /\ c.kind \in {"RECOGNIZE", "SAVE", "ANALYZE"}
                             /\ c.product = w.product
                             /\ c.kind = "ANALYZE" => c.of = w.selected
    /\ w.saving = c.id => c.kind = "KEEP" /\ c.of = w.selected
CallsGoOn(w, calls) ==
  \A id \in {w.load, w.operation, w.saving} \ {None} : \E c \in calls : c.id = id
CallsDiffer(calls) == \A c, d \in calls : c.id = d.id => c = d

\* What is shown is of the product that is open and of the revision that is chosen.
ShownFits(w) ==
  /\ w.load # None <=> w.phase = "LOADING"
  /\ w.phase # "READY" => /\ w.operation = None /\ w.saving = None
                          /\ w.analysis = Nothing /\ w.selected = Nothing /\ w.saved = Nothing
  /\ w.operation # None => w.analysis = Nothing
  /\ w.analysis \in {Nothing, w.selected} /\ w.saved \in {Nothing, w.selected}
  /\ w.selected \in {Nothing, w.initial, w.original, w.latest}
  /\ \A r \in {w.initial, w.original, w.latest} : r = Nothing \/ r.product = w.product

WorkspaceInv ==
  /\ inci \in Workspaces /\ inciCalls \subseteq CallRows
  /\ history \in [Products -> 0 .. MaxRevisions]
  /\ CallsFit(inci, inciCalls) /\ CallsGoOn(inci, inciCalls) /\ CallsDiffer(inciCalls)
  /\ ShownFits(inci)

LEMMA NothingIsARevision ==
  /\ Nothing \in Revisions
  /\ \A p \in Products, n \in 0 .. MaxRevisions :
       Revision(p, n) \in Revisions /\ Revision(p, n).product = p
<1>1. 0 \in 0 .. MaxRevisions
  BY ScreensAssumption
<1> QED BY <1>1 DEF Nothing, Revision, Revisions, None

\* A workspace that is mounted waits for its own load, whatever else is under way.
LEMMA MountingIsSound ==
  ASSUME NEW p \in Products, NEW initial \in Revisions, NEW id \in 1 .. MaxCalls,
         initial = Nothing \/ initial.product = p,
         NEW calls \in SUBSET CallRows, \A c \in calls : c.id # id, CallsDiffer(calls)
  PROVE  LET w == Mounted(p, initial, id)
             all == calls \cup {Call("LOAD", id, p, Nothing)}
         IN /\ w \in Workspaces /\ all \subseteq CallRows
            /\ CallsFit(w, all) /\ CallsGoOn(w, all) /\ CallsDiffer(all) /\ ShownFits(w)
<1>1. MaxCalls \in Nat \ {0} /\ Nothing \in Revisions /\ 0 \in 0 .. MaxCalls /\ id \in 0 .. MaxCalls
      /\ id # 0
  BY ScreensAssumption, NothingIsARevision
<1>2. PICK w \in Workspaces :
        /\ w = Mounted(p, initial, id) /\ w.product = p /\ w.initial = initial
        /\ w.phase = "LOADING" /\ w.original = Nothing /\ w.latest = Nothing
        /\ w.selected = Nothing /\ w.analysis = Nothing /\ w.saved = Nothing
        /\ w.load = id /\ w.operation = 0 /\ w.saving = 0
  <2> DEFINE m == Mounted(p, initial, id)
  <2>1. m \in Workspaces
    BY <1>1, Zenon DEF Mounted, Workspaces, None
  <2>2. /\ m.product = p /\ m.initial = initial
        /\ m.phase = "LOADING" /\ m.original = Nothing /\ m.latest = Nothing
        /\ m.selected = Nothing /\ m.analysis = Nothing /\ m.saved = Nothing
        /\ m.load = id /\ m.operation = 0 /\ m.saving = 0
    BY DEF Mounted, None
  <2> QED BY <2>1, <2>2
<1>3. PICK c \in CallRows : c = Call("LOAD", id, p, Nothing) /\ c.id = id /\ c.kind = "LOAD"
                            /\ c.product = p
  <2> DEFINE new == Call("LOAD", id, p, Nothing)
  <2>1. new \in CallRows
    BY <1>1, Zenon DEF Call, CallRows
  <2>2. new.id = id /\ new.kind = "LOAD" /\ new.product = p
    BY DEF Call
  <2> QED BY <2>1, <2>2
<1>4. \A d \in calls : d.id \in 1 .. MaxCalls /\ d.id # 0
  BY <1>1 DEF CallRows
<1>5. CallsFit(w, calls \cup {c}) /\ CallsGoOn(w, calls \cup {c}) /\ CallsDiffer(calls \cup {c})
  BY <1>1, <1>2, <1>3, <1>4 DEF CallsFit, CallsGoOn, CallsDiffer, None
<1>6. ShownFits(w)
  BY <1>1, <1>2 DEF ShownFits, None
<1> QED BY <1>2, <1>3, <1>5, <1>6

LEMMA WorkspaceStartsWell == InciInit => WorkspaceInv
<1> SUFFICES ASSUME InciInit PROVE WorkspaceInv
  OBVIOUS
<1>1. history \in [Products -> 0 .. MaxRevisions]
  BY ScreensAssumption DEF InciInit
<1>2. PICK p \in Products : inci = Mounted(p, Nothing, 1)
                            /\ inciCalls = {} \cup {Call("LOAD", 1, p, Nothing)}
  BY DEF InciInit
<1>3. 1 \in 1 .. MaxCalls /\ CallsDiffer({})
  BY ScreensAssumption DEF CallsDiffer
<1>4. /\ Mounted(p, Nothing, 1) \in Workspaces
      /\ ({} \cup {Call("LOAD", 1, p, Nothing)}) \subseteq CallRows
      /\ CallsFit(inci, inciCalls) /\ CallsGoOn(inci, inciCalls) /\ CallsDiffer(inciCalls)
      /\ ShownFits(inci)
  BY <1>2, <1>3, MountingIsSound, NothingIsARevision
<1> QED BY <1>1, <1>2, <1>4 DEF WorkspaceInv

LEMMA FreshIsFree ==
  ASSUME NEW id \in Fresh
  PROVE  id \in 1 .. MaxCalls /\ \A c \in inciCalls : c.id # id
BY DEF Fresh

LEMMA SelectingShape ==
  ASSUME NEW w \in Workspaces, NEW r \in Revisions
  PROVE  LET s == Selecting(w, r)
         IN /\ s \in Workspaces /\ s.selected = r
            /\ s.product = w.product /\ s.initial = w.initial /\ s.phase = w.phase
            /\ s.original = w.original /\ s.latest = w.latest /\ s.analysis = w.analysis
            /\ s.load = w.load /\ s.operation = w.operation
            /\ \/ s.saved = w.saved /\ s.saving = w.saving /\ r = w.selected
               \/ s.saved = Nothing /\ s.saving = 0
<1>1. CASE r = w.selected
  BY <1>1 DEF Selecting
<1>2. CASE r # w.selected
  <2>1. PICK none \in 0 .. MaxCalls : none = 0
    BY ScreensAssumption
  <2>2. Selecting(w, r) = [w EXCEPT !.selected = r, !.saved = Nothing, !.saving = none]
    BY <1>2, <2>1 DEF Selecting, None
  <2> QED BY <2>1, <2>2, NothingIsARevision DEF Workspaces
<1> QED BY <1>1, <1>2

\* An answer nobody waits for changes nothing that is shown.
LEMMA UnawaitedIsDropped ==
  ASSUME WorkspaceInv, NEW c \in inciCalls, inci' = inci, inciCalls' = inciCalls \ {c},
         c.id \notin {inci.load, inci.operation, inci.saving},
         history' \in [Products -> 0 .. MaxRevisions]
  PROVE  WorkspaceInv'
<1>1. CallsFit(inci, inciCalls') /\ CallsDiffer(inciCalls') /\ inciCalls' \subseteq CallRows
  BY DEF WorkspaceInv, CallsFit, CallsDiffer
<1>2. CallsGoOn(inci, inciCalls')
  BY DEF WorkspaceInv, CallsGoOn
<1> QED BY <1>1, <1>2 DEF WorkspaceInv

\* A call is waited for in one way only.
LEMMA OneWaiter ==
  ASSUME WorkspaceInv, NEW c \in inciCalls
  PROVE  /\ c \in CallRows /\ c.id # 0 /\ c.id \in 0 .. MaxCalls
         /\ c.id = inci.load => c.kind = "LOAD" /\ c.id # inci.operation /\ c.id # inci.saving
         /\ c.id = inci.operation => /\ c.kind \in {"RECOGNIZE", "SAVE", "ANALYZE"}
                                     /\ c.id # inci.load /\ c.id # inci.saving
         /\ c.id = inci.saving => c.kind = "KEEP" /\ c.id # inci.operation /\ c.id # inci.load
<1>1. c \in CallRows /\ MaxCalls \in Nat
  BY ScreensAssumption DEF WorkspaceInv
<1>2. c.id # 0 /\ c.id \in 0 .. MaxCalls
  BY <1>1 DEF CallRows
<1> QED BY <1>1, <1>2 DEF WorkspaceInv, CallsFit

\* A call that is begun is the one the workspace waits for from now on.
LEMMA OpeningKeeps ==
  ASSUME WorkspaceInv, NEW p \in Products, OpenObservation(p) PROVE WorkspaceInv'
<1>1. PICK id \in Fresh, n \in 0 .. history[p], initial \in Revisions :
        /\ initial = (IF n = None THEN Nothing ELSE Revision(p, n))
        /\ inci' = Mounted(p, initial, id)
        /\ inciCalls' = inciCalls \cup {Call("LOAD", id, p, Nothing)}
        /\ history' = history
  <2>1. \A n \in 0 .. history[p] : n \in 0 .. MaxRevisions
    BY ScreensAssumption DEF WorkspaceInv
  <2>2. \A n \in 0 .. history[p] : (IF n = None THEN Nothing ELSE Revision(p, n)) \in Revisions
    BY <2>1, NothingIsARevision
  <2> QED BY <2>2 DEF OpenObservation
<1>2. initial = Nothing \/ initial.product = p
  BY <1>1 DEF Revision
<1>3. id \in 1 .. MaxCalls /\ \A c \in inciCalls : c.id # id
  BY FreshIsFree
<1>4. /\ inci' \in Workspaces /\ inciCalls' \subseteq CallRows
      /\ CallsFit(inci', inciCalls') /\ CallsGoOn(inci', inciCalls') /\ CallsDiffer(inciCalls')
      /\ ShownFits(inci')
  BY <1>1, <1>2, <1>3, MountingIsSound DEF WorkspaceInv
<1> QED BY <1>1, <1>4 DEF WorkspaceInv

LEMMA LoadingKeeps ==
  ASSUME WorkspaceInv, NEW c \in inciCalls, Loaded(c) PROVE WorkspaceInv'
<1>1. /\ inciCalls' = inciCalls \ {c} /\ c.kind = "LOAD" /\ history' = history
      /\ inci \in Workspaces /\ c \in CallRows /\ history' \in [Products -> 0 .. MaxRevisions]
  BY DEF Loaded, WorkspaceInv
<1>2. c.id # inci.operation /\ c.id # inci.saving
  BY <1>1, OneWaiter
<1>3. CASE inci.load # c.id
  <2>1. inci' = inci
    BY <1>3 DEF Loaded
  <2> QED BY <1>1, <1>2, <1>3, <2>1, UnawaitedIsDropped
<1>4. CASE inci.load = c.id
  <2> DEFINE p == c.product
             newest == IF history[p] = 0 THEN Nothing ELSE Revision(p, history[p])
             first == IF history[p] = 0 THEN Nothing ELSE Revision(p, 1)
             chosen == IF inci.initial = Nothing THEN newest ELSE inci.initial
             ready == [inci EXCEPT !.phase = "READY", !.original = first, !.latest = newest,
                                   !.load = None]
  <2>1. /\ p = inci.product /\ p \in Products /\ inci.phase = "LOADING" /\ inci.load # 0
        /\ inci.operation = 0 /\ inci.saving = 0
        /\ inci.analysis = Nothing /\ inci.selected = Nothing /\ inci.saved = Nothing
        /\ inci.initial \in Revisions /\ (inci.initial = Nothing \/ inci.initial.product = p)
    BY <1>1, <1>4, OneWaiter DEF WorkspaceInv, CallsFit, ShownFits, CallRows, Workspaces, None
  <2>2. /\ newest \in Revisions /\ (newest = Nothing \/ newest.product = p)
        /\ first \in Revisions /\ (first = Nothing \/ first.product = p)
        /\ chosen \in Revisions /\ chosen \in {inci.initial, newest}
    <3>1. history[p] \in 0 .. MaxRevisions /\ (history[p] # 0 => 1 \in 0 .. MaxRevisions)
      BY <2>1, ScreensAssumption DEF WorkspaceInv
    <3> QED BY <2>1, <3>1, NothingIsARevision
  <2>3. \/ inci' = Selecting(ready, chosen)
        \/ inci' = [inci EXCEPT !.phase = "ERROR", !.load = None]
    BY <1>4 DEF Loaded
  <2> HIDE DEF p, newest, first, chosen
  <2>4. PICK none \in 0 .. MaxCalls : none = 0
    BY ScreensAssumption
  <2>5. /\ inci' \in Workspaces /\ inci'.product = inci.product /\ inci'.initial = inci.initial
        /\ inci'.load = 0 /\ inci'.operation = 0 /\ inci'.saving = 0 /\ inci'.phase # "LOADING"
        /\ inci'.analysis = Nothing /\ inci'.saved = Nothing
        /\ \/ inci'.phase = "READY" /\ inci'.original = first /\ inci'.latest = newest
              /\ inci'.selected = chosen
           \/ inci'.selected = Nothing /\ inci'.original = inci.original
              /\ inci'.latest = inci.latest
    <3>1. CASE inci' = Selecting(ready, chosen)
      <4>1. ready = [inci EXCEPT !.phase = "READY", !.original = first, !.latest = newest,
                                 !.load = none]
        BY <2>4 DEF None
      <4>2. /\ ready \in Workspaces /\ ready.product = inci.product /\ ready.load = 0
            /\ ready.initial = inci.initial /\ ready.operation = 0 /\ ready.saving = 0
            /\ ready.phase = "READY" /\ ready.analysis = Nothing /\ ready.saved = Nothing
            /\ ready.original = first /\ ready.latest = newest
        BY <1>1, <2>1, <2>2, <2>4, <4>1 DEF Workspaces
      <4> HIDE DEF ready
      <4> QED BY <2>2, <3>1, <4>2, SelectingShape
    <3>2. CASE inci' = [inci EXCEPT !.phase = "ERROR", !.load = None]
      <4>1. inci' = [inci EXCEPT !.phase = "ERROR", !.load = none]
        BY <2>4, <3>2 DEF None
      <4> QED BY <1>1, <2>1, <2>4, <4>1 DEF Workspaces
    <3> QED BY <2>3, <3>1, <3>2
  <2>6. ShownFits(inci')
    BY <2>1, <2>2, <2>5 DEF ShownFits, None, WorkspaceInv
  <2>7. CallsFit(inci', inciCalls') /\ CallsGoOn(inci', inciCalls') /\ CallsDiffer(inciCalls')
    <3>1. \A d \in inciCalls : d.id # 0
      BY OneWaiter
    <3> QED BY <1>1, <2>5, <3>1 DEF CallsFit, CallsGoOn, CallsDiffer, None, WorkspaceInv
  <2> QED BY <1>1, <2>5, <2>6, <2>7 DEF WorkspaceInv
<1> QED BY <1>3, <1>4

LEMMA BeginningKeeps ==
  ASSUME WorkspaceInv, NEW kind \in {"RECOGNIZE", "SAVE", "ANALYZE"}, Begin(kind)
  PROVE  WorkspaceInv'
<1>1. PICK id \in Fresh :
        /\ inci' = [inci EXCEPT !.operation = id, !.analysis = Nothing]
        /\ inciCalls' = inciCalls \cup {Call(kind, id, inci.product, inci.selected)}
  BY DEF Begin
<1>2. /\ inci \in Workspaces /\ history' = history /\ inci.phase = "READY" /\ inci.operation = 0
      /\ inci.load = 0 /\ id \in 0 .. MaxCalls /\ id # 0 /\ Nothing \in Revisions
      /\ id \in 1 .. MaxCalls /\ \A c \in inciCalls : c.id # id /\ c.id # 0
  BY FreshIsFree, OneWaiter, NothingIsARevision, ScreensAssumption
     DEF Begin, None, WorkspaceInv, ShownFits
<1>3. /\ inci' \in Workspaces /\ inci'.operation = id /\ inci'.analysis = Nothing
      /\ inci'.product = inci.product /\ inci'.initial = inci.initial /\ inci'.phase = inci.phase
      /\ inci'.original = inci.original /\ inci'.latest = inci.latest
      /\ inci'.selected = inci.selected /\ inci'.saved = inci.saved
      /\ inci'.load = inci.load /\ inci'.saving = inci.saving
  BY <1>1, <1>2 DEF Workspaces
<1>4. PICK new \in CallRows :
        /\ new = Call(kind, id, inci.product, inci.selected)
        /\ new.id = id /\ new.kind = kind /\ new.product = inci.product /\ new.of = inci.selected
  <2> DEFINE m == Call(kind, id, inci.product, inci.selected)
  <2>1. inci.product \in Products /\ inci.selected \in Revisions
    BY <1>2 DEF Workspaces
  <2>2. m \in CallRows
    BY <1>2, <2>1, Zenon DEF Call, CallRows
  <2>3. m.id = id /\ m.kind = kind /\ m.product = inci.product /\ m.of = inci.selected
    BY DEF Call
  <2> QED BY <2>2, <2>3
<1>5. ShownFits(inci')
  BY <1>2, <1>3 DEF ShownFits, None, WorkspaceInv
<1>6. inci.saving # id
  BY <1>2 DEF WorkspaceInv, CallsGoOn, None
<1>7. CallsFit(inci', inciCalls') /\ CallsDiffer(inciCalls')
  BY <1>1, <1>2, <1>3, <1>4, <1>6 DEF CallsFit, CallsDiffer, WorkspaceInv
<1>8. CallsGoOn(inci', inciCalls')
  BY <1>1, <1>2, <1>3, <1>4 DEF CallsGoOn, WorkspaceInv, None
<1>9. inciCalls' \subseteq CallRows
  BY <1>1, <1>4 DEF WorkspaceInv
<1> QED BY <1>2, <1>3, <1>5, <1>7, <1>8, <1>9 DEF WorkspaceInv

\* A revision somebody waits for becomes the chosen one, and its analysis is what is
\* waited for next, under the same id.
LEMMA RevisionKeeps ==
  ASSUME WorkspaceInv, NEW c \in inciCalls, RevisionArrives(c) PROVE WorkspaceInv'
<1>1. PICK n \in 1 .. MaxRevisions :
        /\ n <= history[c.product] + 1
        /\ history' = [history EXCEPT ![c.product] = IF n > @ THEN n ELSE @]
        /\ inci' = IF IsCurrent(c) THEN WithRevision(inci, Revision(c.product, n)) ELSE inci
        /\ inciCalls' = (inciCalls \ {c}) \cup
             (IF IsCurrent(c) THEN {Call("ANALYZE", c.id, c.product, Revision(c.product, n))}
              ELSE {})
  BY DEF RevisionArrives
<1>2. /\ c \in CallRows /\ c.product \in Products /\ c.kind \in {"RECOGNIZE", "SAVE"}
      /\ c.id \in 1 .. MaxCalls /\ c.id # 0 /\ inci \in Workspaces /\ n \in 0 .. MaxRevisions
  BY OneWaiter, ScreensAssumption DEF CallRows, RevisionArrives, WorkspaceInv
<1>3. history' \in [Products -> 0 .. MaxRevisions]
  BY <1>1, <1>2 DEF WorkspaceInv
<1>4. CASE ~IsCurrent(c)
  <2>1. inci' = inci /\ inciCalls' = inciCalls \ {c}
    BY <1>1, <1>4
  <2>2. c.id \notin {inci.load, inci.operation, inci.saving}
    BY <1>2, <1>4, OneWaiter DEF IsCurrent
  <2> QED BY <1>3, <2>1, <2>2, UnawaitedIsDropped
<1>5. CASE IsCurrent(c)
  <2>1. PICK r \in Revisions : r = Revision(c.product, n) /\ r.product = c.product
    BY <1>2, NothingIsARevision
  <2>2. /\ inci.operation = c.id /\ c.id # inci.load /\ c.id # inci.saving
        /\ c.product = inci.product /\ inci.phase = "READY" /\ inci.load = 0
        /\ inci.analysis = Nothing
    BY <1>2, <1>5, OneWaiter DEF IsCurrent, WorkspaceInv, CallsFit, ShownFits, None
  <2>3. PICK w \in Workspaces :
          /\ w = [inci EXCEPT !.original = IF inci.original = Nothing THEN r ELSE inci.original,
                              !.latest = r]
          /\ w.original \in {r, inci.original} /\ w.latest = r
          /\ w.product = inci.product /\ w.initial = inci.initial /\ w.phase = inci.phase
          /\ w.selected = inci.selected /\ w.analysis = inci.analysis /\ w.saved = inci.saved
          /\ w.load = inci.load /\ w.operation = inci.operation /\ w.saving = inci.saving
    <3>1. PICK o \in Revisions : o = IF inci.original = Nothing THEN r ELSE inci.original
      BY <1>2 DEF Workspaces
    <3>2. [inci EXCEPT !.original = o, !.latest = r] \in Workspaces
      BY <1>2 DEF Workspaces
    <3> QED BY <1>2, <3>1, <3>2 DEF Workspaces
  <2>4. inci' = Selecting(w, r)
    BY <1>1, <1>5, <2>1, <2>3 DEF WithRevision
  <2>5. /\ inci' \in Workspaces /\ inci'.selected = r
        /\ inci'.product = inci.product /\ inci'.initial = inci.initial /\ inci'.phase = "READY"
        /\ inci'.original = w.original /\ inci'.latest = r /\ inci'.analysis = Nothing
        /\ inci'.load = 0 /\ inci'.operation = c.id
        /\ \/ inci'.saved = inci.saved /\ inci'.saving = inci.saving /\ r = inci.selected
           \/ inci'.saved = Nothing /\ inci'.saving = 0
    <3>1. PICK s \in Workspaces :
            /\ s = Selecting(w, r) /\ s.selected = r
            /\ s.product = w.product /\ s.initial = w.initial /\ s.phase = w.phase
            /\ s.original = w.original /\ s.latest = w.latest /\ s.analysis = w.analysis
            /\ s.load = w.load /\ s.operation = w.operation
            /\ \/ s.saved = w.saved /\ s.saving = w.saving /\ r = w.selected
               \/ s.saved = Nothing /\ s.saving = 0
      BY SelectingShape
    <3> QED BY <2>2, <2>3, <2>4, <3>1
  <2>6. PICK new \in CallRows :
          /\ new = Call("ANALYZE", c.id, c.product, r)
          /\ new.id = c.id /\ new.kind = "ANALYZE" /\ new.product = c.product /\ new.of = r
    <3> DEFINE m == Call("ANALYZE", c.id, c.product, r)
    <3>1. m \in CallRows
      BY <1>2, Zenon DEF Call, CallRows
    <3>2. m.id = c.id /\ m.kind = "ANALYZE" /\ m.product = c.product /\ m.of = r
      BY DEF Call
    <3> QED BY <3>1, <3>2
  <2>7. inciCalls' = (inciCalls \ {c}) \cup {new}
    BY <1>1, <1>5, <2>1, <2>6
  <2>8. \A d \in inciCalls \ {c} : d.id # c.id /\ d.id # 0
    BY OneWaiter DEF WorkspaceInv, CallsDiffer
  <2>9. CallsFit(inci', inciCalls') /\ CallsDiffer(inciCalls')
    BY <1>2, <2>2, <2>5, <2>6, <2>7, <2>8 DEF CallsFit, CallsDiffer, WorkspaceInv
  <2>10. CallsGoOn(inci', inciCalls')
    BY <1>2, <2>2, <2>5, <2>6, <2>7 DEF CallsGoOn, WorkspaceInv, None
  <2>11. ShownFits(inci')
    BY <1>2, <2>1, <2>2, <2>3, <2>5 DEF ShownFits, WorkspaceInv, None
  <2>12. inciCalls' \subseteq CallRows
    BY <2>7 DEF WorkspaceInv
  <2> QED BY <1>3, <2>5, <2>9, <2>10, <2>11, <2>12 DEF WorkspaceInv
<1> QED BY <1>4, <1>5

\* An operation ends: with the analysis of the chosen revision, or with a failure.
LEMMA EndingKeeps ==
  ASSUME WorkspaceInv, NEW c \in inciCalls, AnalysisArrives(c) \/ OperationFails(c)
  PROVE  WorkspaceInv'
<1>1. /\ inciCalls' = inciCalls \ {c} /\ history' = history
      /\ c.kind \in {"RECOGNIZE", "SAVE", "ANALYZE"} /\ inci \in Workspaces
      /\ history' \in [Products -> 0 .. MaxRevisions]
  BY DEF AnalysisArrives, OperationFails, WorkspaceInv
<1>2. CASE ~IsCurrent(c)
  <2>1. inci' = inci
    BY <1>2 DEF AnalysisArrives, OperationFails
  <2>2. c.id \notin {inci.load, inci.operation, inci.saving}
    BY <1>1, <1>2, OneWaiter DEF IsCurrent
  <2> QED BY <1>1, <2>1, <2>2, UnawaitedIsDropped
<1>3. CASE IsCurrent(c)
  <2>1. /\ inci.operation = c.id /\ c.id # inci.load /\ c.id # inci.saving /\ c.id # 0
        /\ inci.analysis = Nothing /\ c \in CallRows
        /\ c.kind = "ANALYZE" => c.of = inci.selected
    BY <1>3, OneWaiter DEF IsCurrent, WorkspaceInv, CallsFit, ShownFits, None
  <2>2. PICK none \in 0 .. MaxCalls : none = 0
    BY ScreensAssumption
  <2>3. PICK r \in Revisions :
          /\ r \in {Nothing, inci.selected}
          /\ inci' = [inci EXCEPT !.analysis = r, !.operation = none]
    <3>1. CASE AnalysisArrives(c)
      <4>1. inci' = [inci EXCEPT !.analysis = c.of, !.operation = none] /\ c.of = inci.selected
        BY <1>3, <2>1, <2>2, <3>1 DEF AnalysisArrives, None
      <4> QED BY <2>1, <4>1 DEF CallRows
    <3>2. CASE OperationFails(c)
      <4>1. inci' = [inci EXCEPT !.operation = none]
        BY <1>3, <2>2, <3>2 DEF OperationFails, None
      <4>2. inci' = [inci EXCEPT !.analysis = Nothing, !.operation = none]
        BY <1>1, <2>1, <4>1 DEF Workspaces
      <4> QED BY <4>2, NothingIsARevision
    <3> QED BY <3>1, <3>2
  <2>4. /\ inci' \in Workspaces /\ inci'.operation = 0 /\ inci'.analysis = r
        /\ inci'.product = inci.product /\ inci'.initial = inci.initial
        /\ inci'.phase = inci.phase /\ inci'.original = inci.original
        /\ inci'.latest = inci.latest /\ inci'.selected = inci.selected
        /\ inci'.saved = inci.saved /\ inci'.load = inci.load /\ inci'.saving = inci.saving
    BY <1>1, <2>2, <2>3 DEF Workspaces
  <2>5. ShownFits(inci')
    BY <2>1, <2>3, <2>4 DEF ShownFits, WorkspaceInv, None
  <2>6. \A d \in inciCalls : d.id # 0
    BY OneWaiter
  <2>7. CallsFit(inci', inciCalls') /\ CallsGoOn(inci', inciCalls') /\ CallsDiffer(inciCalls')
    BY <1>1, <2>1, <2>4, <2>6 DEF CallsFit, CallsGoOn, CallsDiffer, WorkspaceInv, None
  <2> QED BY <1>1, <2>4, <2>5, <2>7 DEF WorkspaceInv
<1> QED BY <1>2, <1>3

LEMMA ChoosingKeeps ==
  ASSUME WorkspaceInv, NEW r \in Selectable, SelectRevision(r) PROVE WorkspaceInv'
<1>1. /\ inci \in Workspaces /\ r \in Revisions /\ r # inci.selected /\ inci.phase = "READY"
      /\ inci.operation = 0 /\ inci.load = 0 /\ inciCalls' = inciCalls /\ history' = history
      /\ r \in {inci.initial, inci.original, inci.latest} /\ Nothing \in Revisions
  BY NothingIsARevision
     DEF SelectRevision, WorkspaceInv, Selectable, Workspaces, ShownFits, None
<1>2. PICK w \in Workspaces :
        /\ w = Selecting(inci, r) /\ w.selected = r /\ w.saved = Nothing /\ w.saving = 0
        /\ w.product = inci.product /\ w.initial = inci.initial /\ w.phase = inci.phase
        /\ w.original = inci.original /\ w.latest = inci.latest
        /\ w.load = inci.load /\ w.operation = inci.operation
  BY <1>1, SelectingShape
<1>3. inci' = [w EXCEPT !.analysis = Nothing]
  BY <1>2 DEF SelectRevision
<1>4. /\ inci' \in Workspaces /\ inci'.selected = r /\ inci'.saved = Nothing
      /\ inci'.saving = 0 /\ inci'.analysis = Nothing
      /\ inci'.product = inci.product /\ inci'.initial = inci.initial /\ inci'.phase = "READY"
      /\ inci'.original = inci.original /\ inci'.latest = inci.latest
      /\ inci'.load = 0 /\ inci'.operation = 0
  BY <1>1, <1>2, <1>3 DEF Workspaces
<1>5. ShownFits(inci')
  BY <1>1, <1>4 DEF ShownFits, WorkspaceInv, None
<1>6. CallsFit(inci', inciCalls') /\ CallsGoOn(inci', inciCalls')
  <2>1. \A d \in inciCalls : d.id # 0
    BY OneWaiter
  <2> QED BY <1>1, <1>4, <2>1 DEF CallsFit, CallsGoOn, None
<1> QED BY <1>1, <1>4, <1>5, <1>6 DEF WorkspaceInv

\* What is kept is the chosen revision.
LEMMA KeepingKeeps ==
  ASSUME WorkspaceInv, Keep \/ \E c \in inciCalls : Kept(c) PROVE WorkspaceInv'
<1>1. /\ inci \in Workspaces /\ history' = history /\ Nothing \in Revisions
      /\ history' \in [Products -> 0 .. MaxRevisions]
      /\ \A d \in inciCalls : d.id # 0 /\ d \in CallRows
  BY OneWaiter, NothingIsARevision DEF Keep, Kept, WorkspaceInv
<1>2. CASE Keep
  <2>1. PICK id \in Fresh :
          /\ inci' = [inci EXCEPT !.saving = id]
          /\ inciCalls' = inciCalls \cup {Call("KEEP", id, inci.product, inci.selected)}
    BY <1>2 DEF Keep
  <2>2. /\ id \in 0 .. MaxCalls /\ id # 0 /\ id \in 1 .. MaxCalls /\ inci.phase = "READY"
        /\ inci.saving = 0 /\ \A c \in inciCalls : c.id # id
    BY <1>2, FreshIsFree, ScreensAssumption DEF Keep, None
  <2>3. /\ inci' \in Workspaces /\ inci'.saving = id /\ inci'.analysis = inci.analysis
        /\ inci'.product = inci.product /\ inci'.initial = inci.initial
        /\ inci'.phase = inci.phase /\ inci'.original = inci.original
        /\ inci'.latest = inci.latest /\ inci'.selected = inci.selected
        /\ inci'.saved = inci.saved /\ inci'.load = inci.load
        /\ inci'.operation = inci.operation
    BY <1>1, <2>1, <2>2 DEF Workspaces
  <2>4. PICK new \in CallRows :
          /\ new = Call("KEEP", id, inci.product, inci.selected)
          /\ new.id = id /\ new.kind = "KEEP" /\ new.of = inci.selected
    <3> DEFINE m == Call("KEEP", id, inci.product, inci.selected)
    <3>1. inci.product \in Products /\ inci.selected \in Revisions
      BY <1>1 DEF Workspaces
    <3>2. m \in CallRows
      BY <2>2, <3>1, Zenon DEF Call, CallRows
    <3>3. m.id = id /\ m.kind = "KEEP" /\ m.of = inci.selected
      BY DEF Call
    <3> QED BY <3>2, <3>3
  <2>5. inci.load # id /\ inci.operation # id
    BY <2>2 DEF WorkspaceInv, CallsGoOn, None
  <2>6. CallsFit(inci', inciCalls') /\ CallsDiffer(inciCalls')
    BY <2>1, <2>2, <2>3, <2>4, <2>5 DEF CallsFit, CallsDiffer, WorkspaceInv
  <2>7. CallsGoOn(inci', inciCalls')
    BY <2>1, <2>3, <2>4 DEF CallsGoOn, WorkspaceInv, None
  <2>8. ShownFits(inci') /\ inciCalls' \subseteq CallRows
    BY <2>1, <2>2, <2>3, <2>4 DEF ShownFits, WorkspaceInv, None
  <2> QED BY <1>1, <2>3, <2>6, <2>7, <2>8 DEF WorkspaceInv
<1>3. ASSUME NEW c \in inciCalls, Kept(c) PROVE WorkspaceInv'
  <2>1. c.kind = "KEEP" /\ inciCalls' = inciCalls \ {c}
    BY <1>3 DEF Kept
  <2>2. CASE inci.saving # c.id
    <3>1. inci' = inci
      BY <1>3, <2>2 DEF Kept
    <3>2. c.id \notin {inci.load, inci.operation, inci.saving}
      BY <2>1, <2>2, OneWaiter
    <3> QED BY <1>1, <2>1, <3>1, <3>2, UnawaitedIsDropped
  <2>3. CASE inci.saving = c.id
    <3>1. /\ c.of = inci.selected /\ inci.load # c.id /\ inci.operation # c.id
          /\ inci.phase = "READY"
      BY <1>1, <2>3, OneWaiter DEF WorkspaceInv, CallsFit, ShownFits, None
    <3>2. PICK none \in 0 .. MaxCalls, r \in Revisions :
            /\ none = 0 /\ r \in {Nothing, inci.selected}
            /\ inci' = [inci EXCEPT !.saved = r, !.saving = none]
      <4>1. 0 \in 0 .. MaxCalls /\ inci.selected \in Revisions
        BY <1>1, ScreensAssumption DEF Workspaces
      <4>2. inci.saved \in {Nothing, inci.selected} /\ inci.saved \in Revisions
        BY <1>1 DEF WorkspaceInv, ShownFits, Workspaces
      <4>3. PICK r \in {c.of, inci.saved} : inci' = [inci EXCEPT !.saved = r, !.saving = 0]
        BY <1>3, <2>3 DEF Kept, None
      <4> QED BY <1>1, <3>1, <4>1, <4>2, <4>3
    <3>3. /\ inci' \in Workspaces /\ inci'.saving = 0 /\ inci'.analysis = inci.analysis
          /\ inci'.product = inci.product /\ inci'.initial = inci.initial
          /\ inci'.phase = inci.phase /\ inci'.original = inci.original
          /\ inci'.latest = inci.latest /\ inci'.selected = inci.selected
          /\ inci'.saved = r /\ inci'.load = inci.load
          /\ inci'.operation = inci.operation
      BY <1>1, <3>2 DEF Workspaces
    <3>4. CallsFit(inci', inciCalls') /\ CallsGoOn(inci', inciCalls') /\ CallsDiffer(inciCalls')
      BY <1>1, <2>1, <3>1, <3>3 DEF CallsFit, CallsGoOn, CallsDiffer, WorkspaceInv, None
    <3>5. ShownFits(inci') /\ inciCalls' \subseteq CallRows
      BY <2>1, <3>1, <3>2, <3>3 DEF ShownFits, WorkspaceInv, None
    <3> QED BY <1>1, <3>3, <3>4, <3>5 DEF WorkspaceInv
  <2> QED BY <2>2, <2>3
<1> QED BY <1>2, <1>3

LEMMA WorkspaceNextKeeps ==
  ASSUME WorkspaceInv, InciNext \/ UNCHANGED inciVars PROVE WorkspaceInv'
<1>1. CASE UNCHANGED inciVars
  BY <1>1 DEF inciVars, WorkspaceInv
<1> QED BY <1>1, OpeningKeeps, LoadingKeeps, BeginningKeeps, RevisionKeeps, EndingKeeps,
           ChoosingKeeps, KeepingKeeps DEF InciNext

-----------------------------------------------------------------------------
(* The page.                                                               *)

\* Each screen keeps its own books, and they are all that is claimed of it.
LEMMA ScreensFollow ==
  ASSUME SearchInv, CompareInv, WorkspaceInv PROVE ScreensFollowTheirQuestions
<1>1. ProductScreensTypeOK
  BY DEF ProductScreensTypeOK, SearchInv, CompareInv, WorkspaceInv, SearchRows, LookupRows,
         CompareRows, PreviewRows, CallRows
<1>2. AnswersMatchQuestions
  <2>1. /\ search.kind \notin {"IDLE", "OBSERVING"} => search.code = search.asked
        /\ compare.status = "DONE" => compare.of = <<compare.form, compare.brief>>
    BY DEF SearchInv, CompareInv
  <2>2. ShownFits(inci)
    BY DEF WorkspaceInv
  <2> QED BY <2>1, <2>2 DEF AnswersMatchQuestions, ShownFits, Selectable
<1>3. WaitingIsAnswered
  <2>1. /\ search.kind \in Waiting => \E l \in lookups : IsLatest(l)
        /\ compare.status = "LOADING" => \E p \in previews : IsPending(p)
    BY DEF SearchInv, CompareInv
  <2>2. inci.phase = "LOADING" => \E c \in inciCalls : c.kind = "LOAD" /\ c.id = inci.load
    BY DEF WorkspaceInv, ShownFits, CallsGoOn, CallsFit
  <2>3. inci.operation # None => \E c \in inciCalls : IsCurrent(c)
    BY DEF WorkspaceInv, CallsGoOn, IsCurrent
  <2> QED BY <2>1, <2>2, <2>3 DEF WaitingIsAnswered
<1> QED BY <1>1, <1>2, <1>3 DEF ScreensFollowTheirQuestions

\* Whatever order the answers of earlier questions arrive in, a screen shows what it was
\* asked last, and it waits only for a call that is still under way (main.tsx:444,
\* comparison.tsx:217, inci-correction.tsx:312).
THEOREM ScreensAlwaysFollow == ProductScreensSpec => []ScreensFollowTheirQuestions
<1> DEFINE Parts == SearchInv /\ CompareInv /\ WorkspaceInv
<1>1. SearchInit /\ CompareInit /\ InciInit => Parts
  BY SearchStartsWell, CompareStartsWell, WorkspaceStartsWell
<1>2. Parts /\ [ProductScreensNext]_<<searchVars, compareVars, inciVars>> => Parts'
  <2> SUFFICES ASSUME Parts, [ProductScreensNext]_<<searchVars, compareVars, inciVars>>
               PROVE  Parts'
    OBVIOUS
  <2>1. /\ SearchNext \/ UNCHANGED searchVars
        /\ CompareNext \/ UNCHANGED compareVars
        /\ InciNext \/ UNCHANGED inciVars
    BY DEF ProductScreensNext
  <2> QED BY <2>1, SearchNextKeeps, CompareNextKeeps, WorkspaceNextKeeps
<1>3. Parts => ScreensFollowTheirQuestions
  BY ScreensFollow
<1> QED BY <1>1, <1>2, <1>3, PTL DEF ProductScreensSpec
=============================================================================
