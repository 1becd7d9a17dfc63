------------------------- MODULE MCSignalProgramV1 --------------------------
(***************************************************************************)
(* Instances of SignalProgramV1 for TLC.                                   *)
(***************************************************************************)
EXTENDS SignalProgramV1, TLC

WalletSymmetry == Permutations(Wallets)
=============================================================================
