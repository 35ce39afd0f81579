--------------------------- MODULE MCBackupSpend ---------------------------
(***************************************************************************)
(* A small instance of BackupSpend: relative locks count modulo 4, words   *)
(* have 4 bits.  The delays are negative, within range and beyond it; the  *)
(* amounts leave a change above, at and below the dust limit, none at all, *)
(* and less than nothing.                                                  *)
(***************************************************************************)
EXTENDS BackupSpend

CONSTANT deposit

MCCsvBlocks == {-1, 2, 5}

=============================================================================
