----------------------------- MODULE MCCandles -----------------------------
(* Symbol 1 is the benchmark, listed on day 2; another symbol on day 3.    *)
EXTENDS Candles, TLC

MCListed == 1 :> 2 @@ 2 :> 3
=============================================================================
