----------------------------- MODULE MCTicketGate -----------------------------
(* TicketGate for TLC: buy tickets are interchangeable.                     *)
EXTENDS TicketGate
BuySymmetry == Permutations(Buys)
===============================================================================
