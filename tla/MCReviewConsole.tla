--------------------------- MODULE MCReviewConsole ---------------------------
(***************************************************************************)
(* Instances of ReviewConsole for TLC: a review from the start, and one    *)
(* taken up where the photo has been approved.                             *)
(***************************************************************************)
EXTENDS ReviewConsole, TLC

FromApproved == {<<"under_review", "approved_private">>}
FromAny      == FromApproved \cup {<<"received", "quarantined">>, <<"under_review", "quarantined">>}

ModeratorSymmetry == Permutations(Moderators)
=============================================================================
