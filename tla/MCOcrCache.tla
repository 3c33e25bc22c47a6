----------------------------- MODULE MCOcrCache -----------------------------
(***************************************************************************)
(* Values for TLC: three calls for one image and one for another, so that  *)
(* two can share an execution while a third replaces one that was given    *)
(* up, and the two images compete for a first level of one entry.          *)
(***************************************************************************)
EXTENDS OcrCache

CONSTANTS c1, c2, c3, c4, k1, k2

MCCalls == {c1, c2, c3, c4}
MCKeys == {k1, k2}
MCKeyOf == [c \in MCCalls |-> IF c = c4 THEN k2 ELSE k1]
MCSignalled == {c1}
=============================================================================
