---------------------------- MODULE MCChainOutbox ---------------------------
(* Small instances of ChainOutbox for TLC. *)
EXTENDS ChainHistory, TLC

CONSTANTS w1, w2, r1

\* Scheduled invocations of one release share the owner "outbox:<release>".
SharedOwner == [p \in Processes |-> IF p = r1 THEN "outbox:reconcile" ELSE "outbox"]

\* Workers that share an owner string are interchangeable.
WorkerSymmetry == Permutations(Workers)
=============================================================================
