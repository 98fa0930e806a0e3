----------------------------- MODULE MCAnalyst -----------------------------
(* A Friday from 08:00 over UTC midnight, that Saturday and the next, when *)
(* a recommendation of the first is at and then past its expiry.           *)
EXTENDS Analyst, TLC

MCCalendar == <<13, 14, 37>>
MCHeadroom == [k \in {"briefing", "weekly_review", "market_ideas", "on_demand"} |->
                 IF k = "briefing" THEN 1 ELSE 2]
MCMarkets == {[rsi |-> 70, v50 |-> 20, v200 |-> 5, dd |-> 5]}
MCFirstMarket == [m \in {"a"} |-> [rsi |-> 62, v50 |-> 5, v200 |-> 5, dd |-> 5]]
MCAnswers == {<< <<"z", "buy">>, <<"a", "sell">> >>}
=============================================================================
