----------------------------- MODULE MCSwapBot -----------------------------
(***************************************************************************)
(* Small instance of SwapBot: a native and a mapped asset whose sizes vary *)
(* and whose means differ (2 and 3), the limit of a swap left at 0.        *)
(***************************************************************************)
EXTENDS SwapBot, TLC

CONSTANTS HIVE, BTC, BtcMapping

PairMapping == BTC :> BtcMapping
PairMin == HIVE :> 1 @@ BTC :> 2
PairMax == HIVE :> 3 @@ BTC :> 4

=============================================================================
