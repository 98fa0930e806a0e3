------------------------------ MODULE Screener ------------------------------
(***************************************************************************)
(* The deterministic screen of crates/rekt-core/src/screener.rs: a         *)
(* symbol's signals and an aggressiveness level to a buy or sell candidate *)
(* or none.  Scores are kept in quarter points, the finest step of         *)
(* (d - 30) / 4, before the rounding that only the ranking's text shows.   *)
(***************************************************************************)
EXTENDS Integers

Absent == -1000     \* a signal with too little history (None)
Levels == {"conservative", "balanced", "aggressive"}
Rank == [l \in Levels |-> CASE l = "conservative" -> 1 [] l = "balanced" -> 2
                            [] l = "aggressive" -> 3]

(* The thresholds of Aggressiveness.                                       *)
BuyRsi == [l \in Levels |-> CASE l = "conservative" -> 30 [] l = "balanced" -> 38
                              [] l = "aggressive" -> 45]
SellRsi == [l \in Levels |-> CASE l = "conservative" -> 75 [] l = "balanced" -> 68
                               [] l = "aggressive" -> 62]
ExtendedPct == [l \in Levels |-> CASE l = "conservative" -> 25 [] l = "balanced" -> 18
                                   [] l = "aggressive" -> 12]
MomentumOk(l) == l # "conservative"

MomentumRsiCap(l) == 68

Has(x) == x # Absent
Points(cond, x) == IF cond THEN 4 * x ELSE 0
Least(x, y) == IF x < y THEN x ELSE y

BuyScore(s, l) ==
    Points(Has(s.rsi) /\ s.rsi < BuyRsi[l], BuyRsi[l] - s.rsi)
  + Points(Has(s.v50) /\ Has(s.v200) /\ s.v50 < 0 /\ s.v200 > 0, Least(-s.v50, 20))
  + Points(/\ MomentumOk(l) /\ Has(s.v50) /\ Has(s.v200) /\ Has(s.rsi)
           /\ s.v50 > 0 /\ s.v200 > 0 /\ s.rsi >= 50 /\ s.rsi < MomentumRsiCap(l), 6)

SellScore(s, l) ==
    Points(Has(s.rsi) /\ s.rsi > SellRsi[l], s.rsi - SellRsi[l])
  + Points(Has(s.v50) /\ s.v50 > ExtendedPct[l], s.v50 - ExtendedPct[l])
  + Points(Has(s.v50) /\ Has(s.v200) /\ s.v50 < 0 /\ s.v200 < -10, -s.v200 - 10)
  + (IF Has(s.dd) /\ Has(s.v200) /\ s.dd >= 30 /\ s.v200 < 0 THEN s.dd - 30 ELSE 0)

MinScore == 4

(* screen: the stronger side wins, a buy when they tie.                    *)
Screen(s, l) ==
  LET buy == BuyScore(s, l)
      sell == SellScore(s, l)
  IN  IF buy >= sell /\ buy >= MinScore THEN "buy"
      ELSE IF sell > buy /\ sell >= MinScore THEN "sell"
      ELSE "none"
=============================================================================
