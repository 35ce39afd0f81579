------------------------- MODULE MCSignTransaction -------------------------
(***************************************************************************)
(* Instances of SignTransaction: up to three endpoints, which may answer   *)
(* with the right bytes, with others, with none or with marked ones.       *)
(***************************************************************************)
EXTENDS SignTransaction

CONSTANTS right, other, marked

=============================================================================
