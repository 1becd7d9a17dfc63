------------------------- MODULE MCOperatorConsole --------------------------
(***************************************************************************)
(* Instances of OperatorConsole for TLC: an administrator, who may use     *)
(* every form of the page.                                                 *)
(***************************************************************************)
EXTENDS OperatorConsole

CONSTANTS admin

RolesHeld == [o \in Operators |-> {"org_admin"}]
=============================================================================
