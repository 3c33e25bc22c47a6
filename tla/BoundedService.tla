--------------------------- MODULE BoundedService ---------------------------
(***************************************************************************)
(* What the OCR work queue promises its callers, with no queue, timer,     *)
(* listener or counter in sight: at most Slots requests are served at      *)
(* once, at most Room more are kept waiting, nobody enters once the gate   *)
(* has started to close, and the gate is closed only when everybody who    *)
(* entered has left.                                                       *)
(* packages/infrastructure/src/queued-ocr-provider.ts; the detailed model  *)
(* is OcrQueue, which implements this one.                                 *)
(***************************************************************************)
EXTENDS Naturals, FiniteSets

CONSTANTS
  Clients,   \* the requests that may be made
  Slots,     \* how many may be served at the same time
  Room       \* how many may wait

VARIABLES
  phase,     \* phase[c]: "idle", "waiting", "served" or "gone"
  gate       \* "open", "draining" or "closed"

vars == <<phase, gate>>

In(p) == {c \in Clients : phase[c] = p}

Inside == In("waiting") \cup In("served")

Init ==
  /\ phase = [c \in Clients |-> "idle"]
  /\ gate = "open"

\* A request is served at once.
Serve(c) ==
  /\ gate = "open"
  /\ phase[c] = "idle"
  /\ Cardinality(In("served")) < Slots
  /\ phase' = [phase EXCEPT ![c] = "served"]
  /\ UNCHANGED gate

\* All slots are taken and there is room to wait.
Wait(c) ==
  /\ gate = "open"
  /\ phase[c] = "idle"
  /\ Cardinality(In("served")) = Slots
  /\ Cardinality(In("waiting")) < Room
  /\ phase' = [phase EXCEPT ![c] = "waiting"]
  /\ UNCHANGED gate

\* A request is answered without entering.
TurnAway(c) ==
  /\ phase[c] = "idle"
  /\ phase' = [phase EXCEPT ![c] = "gone"]
  /\ UNCHANGED gate

\* A slot is given to a waiting request, also while draining.
Promote(c) ==
  /\ phase[c] = "waiting"
  /\ Cardinality(In("served")) < Slots
  /\ phase' = [phase EXCEPT ![c] = "served"]
  /\ UNCHANGED gate

\* A request leaves; the last one out may close a draining gate behind it.
Leave(c) ==
  /\ c \in Inside
  /\ phase' = [phase EXCEPT ![c] = "gone"]
  /\ \/ UNCHANGED gate
     \/ /\ gate = "draining"
        /\ Inside = {c}
        /\ gate' = "closed"

Drain ==
  /\ gate = "open"
  /\ gate' \in {"draining"} \cup (IF Inside = {} THEN {"closed"} ELSE {})
  /\ UNCHANGED phase

Close ==
  /\ gate = "draining"
  /\ Inside = {}
  /\ gate' = "closed"
  /\ UNCHANGED phase

Next ==
  \/ \E c \in Clients :
       Serve(c) \/ Wait(c) \/ TurnAway(c) \/ Promote(c) \/ Leave(c)
  \/ Drain
  \/ Close

Spec == Init /\ [][Next]_vars
=============================================================================
