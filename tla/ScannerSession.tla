--------------------------- MODULE ScannerSession ---------------------------
(***************************************************************************)
(* BarcodeScannerSession: a start asks the browser for the camera and then *)
(* the decoder for its controls, and either answer may come after the      *)
(* session was stopped or started again.  The BarcodeScanner dialog starts *)
(* the session when it is mounted and stops it when it is closed, when the *)
(* first code is read, and when App renders it anew.  A session of its own *)
(* for each start and one session for all are the same here: nothing but   *)
(* the generation tells a start whether it is still wanted.                *)
(***************************************************************************)
EXTENDS Naturals, FiniteSets

CONSTANT MaxStarts    \* bound: starts; stream i is the one start i is given

ASSUME StartsAssumption == MaxStarts \in Nat

VARIABLES
  generation,   \* of the session
  begun,        \* starts so far
  attempt,      \* attempt[i]: where start i is, and the generation it began in
  held,         \* the stream the session holds, and the one the video shows
  live,         \* streams whose tracks are running
  dialog        \* is the dialog open

scannerVars == <<generation, begun, attempt, held, live, dialog>>

Starts == 1 .. MaxStarts
NoStream == 0
NothingHeld == [stream |-> NoStream, video |-> NoStream]

ScannerInit ==
  /\ generation = 0 /\ begun = 0
  /\ attempt = [i \in Starts |-> [step |-> "NONE", of |-> 0]]
  /\ held = NothingHeld /\ live = {} /\ dialog = FALSE

\* releaseActive: whether or not the controls can be stopped, the tracks are.
ReleaseActive == held' = NothingHeld /\ live' = live \ {held.stream}

\* stop
Stop == generation' = generation + 1 /\ ReleaseActive

\* start, up to getUserMedia: the dialog's effect, when it is opened or rendered anew.
Start ==
  /\ begun < MaxStarts /\ begun' = begun + 1
  /\ Stop /\ dialog' = TRUE
  /\ attempt' = [attempt EXCEPT ![begun + 1] = [step |-> "MEDIA", of |-> generation + 1]]

At(i, step) == attempt[i].step = step
Ends(i) == attempt' = [attempt EXCEPT ![i].step = "DONE"]

\* Mutant: the session is assumed to be as it was.
Superseded_Never(i) == FALSE

\* generation !== this.generation
Superseded(i) == attempt[i].of # generation

\* The camera is given: too late, and its tracks are stopped at once; or the session
\* holds it and asks for the decoder.
MediaGranted(i) ==
  /\ At(i, "MEDIA")
  /\ IF Superseded(i)
     THEN Ends(i) /\ UNCHANGED <<held, live>>
     ELSE /\ attempt' = [attempt EXCEPT ![i].step = "DECODER"]
          /\ held' = [stream |-> i, video |-> i]
          /\ live' = live \cup {i}
  /\ UNCHANGED <<generation, begun, dialog>>

MediaRefused(i) ==
  /\ At(i, "MEDIA") /\ Ends(i)
  /\ UNCHANGED <<generation, begun, held, live, dialog>>

DecoderReady(i) ==
  /\ At(i, "DECODER") /\ Ends(i)
  /\ IF Superseded(i)
     THEN /\ live' = live \ {i}
          /\ held' = IF held.video = i THEN [held EXCEPT !.video = NoStream] ELSE held
     ELSE UNCHANGED <<held, live>>
  /\ UNCHANGED <<generation, begun, dialog>>

DecoderFails(i) ==
  /\ At(i, "DECODER") /\ Ends(i)
  /\ IF Superseded(i) THEN live' = live \ {i} /\ UNCHANGED held ELSE ReleaseActive
  /\ UNCHANGED <<generation, begun, dialog>>

-----------------------------------------------------------------------------
(* BarcodeScanner *)

\* The decoder's callback, which may come before decodeFromStream has answered.
Detected(i) ==
  /\ i \in live /\ attempt[i].step \in {"DECODER", "DONE"}
  /\ Stop /\ dialog' = FALSE
  /\ UNCHANGED <<begun, attempt>>

\* The effect's cleanup.
CloseDialog ==
  /\ dialog /\ Stop /\ dialog' = FALSE
  /\ UNCHANGED <<begun, attempt>>

ScannerNext ==
  \/ Start \/ CloseDialog
  \/ \E i \in Starts : \/ MediaGranted(i) \/ MediaRefused(i)
                       \/ DecoderReady(i) \/ DecoderFails(i) \/ Detected(i)

ScannerSpec == ScannerInit /\ [][ScannerNext]_scannerVars

-----------------------------------------------------------------------------
ScannerTypeOK ==
  /\ generation \in Nat /\ begun \in 0 .. MaxStarts
  /\ attempt \in [Starts -> [step : {"NONE", "MEDIA", "DECODER", "DONE"}, of : Nat]]
  /\ held \in [stream : Starts \cup {NoStream}, video : Starts \cup {NoStream}]
  /\ live \subseteq Starts /\ dialog \in BOOLEAN

\* scanner-session.ts:62,79,94: the camera runs only for the stream the session holds, which
\* is the one on the screen; when the dialog is closed the camera is off, however late the
\* browser and the decoder answer the starts that came before.
CameraFollowsDialog ==
  /\ live \subseteq {held.stream}
  /\ held.video \in {NoStream, held.stream}
  /\ ~dialog => held.stream = NoStream /\ live = {}
=============================================================================
