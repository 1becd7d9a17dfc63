-------------------------- MODULE MCProtocolAdmin ---------------------------
(***************************************************************************)
(* Instances of ProtocolAdmin for TLC.                                     *)
(***************************************************************************)
EXTENDS ProtocolAdmin, TLC

KeySymmetry == Permutations(Keys \ {Genesis})
=============================================================================
