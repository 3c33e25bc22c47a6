-------------------------- MODULE MCMediaLifecycle --------------------------
(***************************************************************************)
(* Values for TLC.  Both uploads want the same role, so that a role is     *)
(* found occupied; the safety run spreads them over two processes, whose   *)
(* workers compete for the jobs.  That a full collection refuses is the    *)
(* subject of MediaAdmission: here a refusal is always possible.           *)
(***************************************************************************)
EXTENDS MediaLifecycle

CONSTANTS u1, u2, p1, p2

MCUploads == {u1, u2}
MCRoleOf == [u \in MCUploads |-> "FRONT"]
MCProcesses == {p1, p2}
MCHost == [u \in MCUploads |-> IF u = u2 THEN p2 ELSE p1]
MCOneProcess == {p1}
MCOneHost == [u \in MCUploads |-> p1]
=============================================================================
