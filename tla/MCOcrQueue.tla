----------------------------- MODULE MCOcrQueue -----------------------------
(***************************************************************************)
(* Values for TLC: five requests, two of them with a signal, on two slots  *)
(* with room for two more: one request more than the queue can hold, and   *)
(* both kinds of request on either side of a slot.  No symmetry: the run   *)
(* checks liveness.                                                        *)
(***************************************************************************)
EXTENDS OcrQueue

CONSTANTS j1, j2, j3, j4, j5

MCJobs == {j1, j2, j3, j4, j5}
MCSignalled == {j1, j2}
=============================================================================
