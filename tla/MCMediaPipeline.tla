-------------------------- MODULE MCMediaPipeline ---------------------------
(* Small instances of MediaPipeline for TLC. *)
EXTENDS MediaPipeline, TLC

CONSTANTS u1, c1, k1, r1, o1, w1, w2, p1
=============================================================================
