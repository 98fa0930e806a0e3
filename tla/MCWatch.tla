------------------------------- MODULE MCWatch -------------------------------
(* Two symbols, two requests at a time, and five ways to use them. *)
EXTENDS Watch

CONSTANTS a, b, s1

Rises == [symbol |-> a, condition |-> "price_above", threshold |-> 2]
Falls == [symbol |-> b, condition |-> "price_below", threshold |-> 1]
Sinks == [symbol |-> b, condition |-> "drawdown_above", threshold |-> 2]
MCDefs == {Rises, Falls, Sinks}

Use(ops, slots, listIds, armed, most) ==
  [ops |-> ops, slots |-> slots, lists |-> listIds, armed |-> armed,
   requests |-> most[1], moves |-> most[2], faults |-> most[3]]

Themes   == Use({"add", "remove", "addTo", "removeFrom", "create", "drop"}, Slots, {1, 2}, <<>>, <<3, 0, 1>>)
Arming   == Use({"dismiss", "rearm"}, Slots, {1}, <<Rises>>, <<2, 2, 0>>)
Clearing == Use({"delete", "arm"}, {s1}, {1}, <<Sinks>>, <<1, 2, 1>>)
Outage   == Use({"add", "remove", "delete"}, Slots, {1}, <<Falls>>, <<2, 0, 2>>)
Reuse    == Use({"delete", "arm"}, {s1}, {1}, <<Falls>>, <<2, 1, 0>>)

EachUse == {Themes, Arming, Clearing, Reuse, Outage}
==============================================================================
