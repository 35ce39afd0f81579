--------------------------- MODULE MCSignLoadTest ---------------------------
(***************************************************************************)
(* Small instance of SignLoadTest: a load test of up to three calls, one   *)
(* that is only run with -init, and lite-btc-oracle -init.  2 is the last  *)
(* counter that fits.                                                      *)
(***************************************************************************)
EXTENDS SignLoadTest, TLC

CONSTANTS t1, t2, oracle, key, assets

MCMaxCalls == t1 :> 3 @@ t2 :> 0 @@ oracle :> 0

=============================================================================
