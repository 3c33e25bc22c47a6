------------------------------ MODULE MediaRows ------------------------------
(***************************************************************************)
(* What the transactions of media-repository.ts promise, as if each were a *)
(* single step: a collection admits an upload only while images and open   *)
(* reservations leave room, a reservation turns into an image in the same  *)
(* step that closes it, and an erased collection keeps nothing.  The       *)
(* statements and row locks are in MediaAdmission, which implements this   *)
(* module; MediaLifecycle takes the same transactions as single steps.     *)
(***************************************************************************)
EXTENDS Naturals, FiniteSets

CONSTANTS
  Uploads,   \* the uploads that may be made to the collection
  RoleOf,    \* the role of each image
  Capacity   \* images per collection

VARIABLES
  collection,   \* "LIVE" or "ERASED"
  asset,        \* asset[u]: "NONE", "ACTIVE" or "DELETED"
  reservation   \* reservation[u]: "NONE", "PENDING", "PROCESSING", "COMPLETED"

vars == <<collection, asset, reservation>>

Active == {u \in Uploads : asset[u] = "ACTIVE"}

Reserved == {u \in Uploads : reservation[u] \in {"PENDING", "PROCESSING"}}

Init ==
  /\ collection = "LIVE"
  /\ asset = [u \in Uploads |-> "NONE"]
  /\ reservation = [u \in Uploads |-> "NONE"]

Reserve(u) ==
  /\ collection = "LIVE"
  /\ reservation[u] = "NONE"
  /\ Cardinality(Active) + Cardinality(Reserved) < Capacity
  /\ reservation' = [reservation EXCEPT ![u] = "PENDING"]
  /\ UNCHANGED <<collection, asset>>

Confirm(u) ==
  /\ collection = "LIVE"
  /\ reservation[u] = "PENDING"
  /\ \A v \in Active : RoleOf[v] # RoleOf[u]
  /\ asset' = [asset EXCEPT ![u] = "ACTIVE"]
  /\ reservation' = [reservation EXCEPT ![u] = "COMPLETED"]
  /\ UNCHANGED collection

\* The request gives its reservation back, or the recovery worker takes it
\* over and closes it or puts it back.
Settle(u, from, to) ==
  /\ reservation[u] = from
  /\ reservation' = [reservation EXCEPT ![u] = to]
  /\ UNCHANGED <<collection, asset>>

Remove(u) ==
  /\ collection = "LIVE"
  /\ asset[u] = "ACTIVE"
  /\ asset' = [asset EXCEPT ![u] = "DELETED"]
  /\ UNCHANGED <<collection, reservation>>

Erase ==
  /\ collection = "LIVE"
  /\ collection' = "ERASED"
  /\ asset' = [u \in Uploads |-> "NONE"]
  /\ UNCHANGED reservation

Next ==
  \/ \E u \in Uploads :
       \/ Reserve(u)
       \/ Confirm(u)
       \/ Settle(u, "PENDING", "COMPLETED")
       \/ Settle(u, "PENDING", "PROCESSING")
       \/ Settle(u, "PROCESSING", "COMPLETED")
       \/ Settle(u, "PROCESSING", "PENDING")
       \/ Remove(u)
  \/ Erase

Spec == Init /\ [][Next]_vars
=============================================================================
