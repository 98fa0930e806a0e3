--------------------------- MODULE MCPortfolios ---------------------------
(* Three names, two of which slugify to the same file; a legacy registry   *)
(* where both of its portfolios share one.                                 *)
EXTENDS Portfolios, TLC

CONSTANTS q1, q2

MCSlug == [n \in {"real", "growth", "growth_"} |-> IF n = "real" THEN "real" ELSE "growth"]
MCLegacy == << [name |-> "growth", db |-> "growth"], [name |-> "growth_", db |-> "growth"],
               [name |-> "real", db |-> "rekt.db"] >>
Interchangeable == Permutations(Requests)
=============================================================================
