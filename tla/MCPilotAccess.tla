--------------------------- MODULE MCPilotAccess ----------------------------
(* Small instances of PilotAccess for TLC. *)
EXTENDS PilotAccess, TLC

CONSTANTS i1, i2, b1, b2, k1, k2, p1

\* Invitations, browsers and idempotency keys are interchangeable.
PilotSymmetry == Permutations(Invitations) \cup Permutations(Browsers) \cup Permutations(Keys)
=============================================================================
