-------------------------- MODULE MCReplaceBlocks --------------------------
(***************************************************************************)
(* Small instance of ReplaceBlocks: heights up to 4, where "uint32" wraps  *)
(* at 8, so that 10 is fetched as 2.                                       *)
(***************************************************************************)
EXTENDS ReplaceBlocks

MCArguments == {-1, 2, 3, 4, 10}

=============================================================================
