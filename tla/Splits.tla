------------------------------- MODULE Splits -------------------------------
(***************************************************************************)
(* Split detection (rekt-core/src/splits.rs): which splits the provider    *)
(* reports are missing from the log.  Prices are split-adjusted and trades *)
(* are entered as traded, so a missing split leaves the share count wrong. *)
(* An event is [day, ratio]: the ex-date and the share multiplier.         *)
(***************************************************************************)
EXTENDS TaxLots

CONSTANT MatchWindow    \* days between an ex-date and a row that records it (5)

ASSUME MatchWindowAssumption == MatchWindow \in Nat

Recorded(log, ev) ==
    \E i \in DOMAIN log :
        /\ log[i].kind = "split"
        /\ Day(log[i].ts) - ev.day \in (0 - MatchWindow) .. MatchWindow

After(held, r) ==
    CASE r.kind = "buy"   -> held + r.qty
      [] r.kind = "sell"  -> held - r.qty
      [] r.kind = "split" -> held * r.qty
      [] OTHER            -> held

\* Variant: splits do not count towards the shares held.
HeldAsTraded(log, day) ==
    FoldLeft(LAMBDA n, i : IF Day(log[i].ts) < day /\ log[i].kind # "split"
                           THEN After(n, log[i]) ELSE n,
             0, ReplayOrder(log))

\* Shares held going into a day, the splits recorded before it applied.
HeldInto(log, day) ==
    FoldLeft(LAMBDA n, i : IF Day(log[i].ts) < day THEN After(n, log[i]) ELSE n,
             0, ReplayOrder(log))

\* detect_missing_splits
MissingSplits(log, events) ==
    {ev \in events : ~Recorded(log, ev) /\ HeldInto(log, ev.day) > 0}

\* The page's button: the row it records for an event, at 15:00 UTC of the
\* ex-date.  The slots of a day are: before that, that, and after.
SplitRow(ev) == [kind |-> "split", qty |-> ev.ratio, price |-> 0, ts |-> ev.day * PerDay + 1]

-----------------------------------------------------------------------------
\* What the holder really has: every event takes effect before its ex-date's
\* first trade.
TrueShares(log, events) ==
    LET trades == SelectSeq(log, LAMBDA r : r.kind \in {"buy", "sell"})
        given  == SetToSeq({[kind |-> "split", qty |-> ev.ratio, ts |-> ev.day * PerDay] :
                                ev \in events})
        rows   == [i \in DOMAIN given |-> given[i]] \o
                  [i \in DOMAIN trades |->
                      [kind |-> trades[i].kind, qty |-> trades[i].qty, ts |-> trades[i].ts]]
    IN  FoldLeft(LAMBDA n, i : After(n, rows[i]), 0, ReplayOrder(rows))

\* No two events share a matching row, and no trade of an ex-date precedes the
\* instant the button records.
Separable(log, events) ==
    /\ \A e1, e2 \in events :
           e1 = e2 \/ e1.day - e2.day \notin (0 - 2 * MatchWindow) .. 2 * MatchWindow
    /\ \A i \in DOMAIN log, ev \in events :
           log[i].kind \in {"buy", "sell"} => log[i].ts # ev.day * PerDay
=============================================================================
