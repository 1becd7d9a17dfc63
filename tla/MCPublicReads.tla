---------------------------- MODULE MCPublicReads ---------------------------
(* Small instances of PublicReads for TLC.  Providers are told apart by     *)
(* their honesty, the rest is one issue, one visitor and one check at a     *)
(* time: checks share nothing but the rows they read.                       *)
EXTENDS PublicReads

CONSTANTS primary, secondary
=============================================================================
