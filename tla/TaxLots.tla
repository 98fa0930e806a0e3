------------------------------- MODULE TaxLots -------------------------------
(***************************************************************************)
(* The tax ledger: tax_disposals, a second FIFO replay of the log whose    *)
(* lots carry the losses that wash sales defer.                            *)
(*                                                                         *)
(* A losing sale is washed by buys at most Window days away, before or     *)
(* after, each up to its remaining capacity.  The loss moves into the      *)
(* basis of the replacement shares: at once when the buy has been replayed *)
(* (AdjustHeld), through `pending` when it comes later.  An instant is a   *)
(* slot of a day; windows, terms and years count days.  Prices are as in   *)
(* Portfolio: without rounding, the loss carried per share is the unit     *)
(* basis minus the price.                                                  *)
(***************************************************************************)
EXTENDS Portfolio

CONSTANTS
    Window,    \* days on each side of a sale (30)
    YearDays,  \* days in a year, and the term after which a gain is long
    PerDay     \* instants told apart within a day

ASSUME WindowAssumption ==
    Window \in Nat /\ YearDays \in Nat \ {0} /\ PerDay \in Nat \ {0}

Day(ts) == ts \div PerDay    \* ny_date
Year(day) == day \div YearDays

Buys(log) == {i \in DOMAIN log : log[i].kind = "buy"}

\* `rep` counts how often a lot's shares were designated as replacements; the
\* code keeps no such count.
EmptyTaxBook(log) ==
    [fault   |-> NoFault,
     lots    |-> <<>>,
     caps    |-> [b \in Buys(log) |-> log[b].qty],
     pending |-> [b \in Buys(log) |-> <<>>],
     out     |-> <<>>]

-----------------------------------------------------------------------------
\* A buy that was designated before it was replayed enters adjusted.
TaxBuy(log, t, id) ==
    LET tx     == log[id]
        adjs   == t.pending[id]
        takes  == InOrder(adjs, tx.qty)
        early  == [i \in DOMAIN adjs |->
                      [buy |-> id, qty |-> takes[i], unit |-> tx.price + adjs[i].add,
                       from |-> adjs[i].from, rep |-> 1]]
        plain  == [buy |-> id, qty |-> tx.qty - Shares(early), unit |-> tx.price,
                   from |-> Day(tx.ts), rep |-> 0]
    IN  [t EXCEPT !.lots        = Filled(@ \o Append(early, plain)),
                  !.pending[id] = <<>>]

-----------------------------------------------------------------------------
\* How much of each lot is designated when q shares of buy b are, from its first
\* lot on.
Designated(lots, b, q) ==
    InOrder([i \in DOMAIN lots |->
                [qty |-> IF lots[i].buy = b THEN lots[i].qty ELSE 0]], q)

Raised(lot, n, add, anchor) ==
    [lot EXCEPT !.qty = n, !.unit = @ + add, !.from = anchor, !.rep = @ + 1]
Remainder(lot, n) == [lot EXCEPT !.qty = @ - n]

\* Variant: the adjusted part goes behind the remainder.
AdjustBehind(lots, b, q, add, anchor) ==
    LET n == Designated(lots, b, q)
    IN  Filled(InPairs([i \in DOMAIN lots |-> Remainder(lots[i], n[i])],
                       [i \in DOMAIN lots |-> Raised(lots[i], n[i], add, anchor)]))

\* adjust_held_lots: the designated shares get a higher basis and an older anchor;
\* a lot that is only partly designated is split, the adjusted part in front.
AdjustHeld(lots, b, q, add, anchor) ==
    LET n == Designated(lots, b, q)
    IN  Filled(InPairs([i \in DOMAIN lots |-> Raised(lots[i], n[i], add, anchor)],
                       [i \in DOMAIN lots |-> Remainder(lots[i], n[i])]))

\* Variant: compares days and forgets that ids break ties.
HasLotsByDay(log, b, id) == log[b].ts <= log[id].ts

\* Only a buy replayed before the sale has lots to adjust.
HasLots(log, b, id) == Before(log, b, id)

\* One replacement match of a losing chunk sold by row `id`.
Designate(log, id, t, m, add, held) ==
    LET anchor == Day(log[m.buy].ts) - held
        adj    == [qty |-> m.qty, add |-> add, from |-> anchor]
        capped == [t EXCEPT !.caps[m.buy] = @ - m.qty]
    IN  IF HasLots(log, m.buy, id)
        THEN [capped EXCEPT !.lots = AdjustHeld(@, m.buy, m.qty, add, anchor)]
        ELSE [capped EXCEPT !.pending[m.buy] = Append(@, adj)]

\* The buys within the window, in replay order, with their capacities.
Candidates(log, id, t) ==
    LET order == ReplayOrder(log)
        near  == {k \in DOMAIN order :
                     /\ log[order[k]].kind = "buy"
                     /\ Day(log[order[k]].ts) - Day(log[id].ts) \in (0 - Window) .. Window}
        buys  == Chosen(order, near)
    IN  [i \in DOMAIN buys |-> [buy |-> buys[i], qty |-> t.caps[buys[i]]]]

\* One chunk of a lot closed by row `id`.
CloseChunk(log, id, t, c) ==
    LET price      == log[id].price
        add        == c.unit - price
        matches    == IF add > 0 THEN Taken(Candidates(log, id, t), c.qty) ELSE <<>>
        washed[k \in 0..Len(matches)] ==
            IF k = 0 THEN t
            ELSE Designate(log, id, washed[k - 1], matches[k], add, Day(log[id].ts) - c.from)
    IN  [washed[Len(matches)] EXCEPT !.out =
            Append(@, [qty        |-> c.qty,
                       from       |-> c.from,
                       sold       |-> Day(log[id].ts),
                       proceeds   |-> c.qty * price,
                       basis      |-> c.qty * c.unit,
                       disallowed |-> Shares(matches) * Max({add, 0})])]

\* The shares of one purchase.
OfBuy(lots, b)  == [i \in DOMAIN lots |-> IF lots[i].buy = b THEN lots[i].qty ELSE 0]
HeldOf(lots, b) == Total(OfBuy(lots, b))

\* Sold shares stop counting as replacements before any chunk is matched.
Burn(caps, chunks) ==
    [b \in DOMAIN caps |-> Max({0, caps[b] - HeldOf(chunks, b)})]

TaxSell(log, t, id) ==
    LET qty    == log[id].qty
        chunks == Taken(t.lots, qty)
        closed[k \in 0..Len(chunks)] ==
            IF k = 0 THEN [t EXCEPT !.lots = Rest(@, qty), !.caps = Burn(@, chunks)]
            ELSE CloseChunk(log, id, closed[k - 1], chunks[k])
    IN  closed[Len(chunks)]

-----------------------------------------------------------------------------
\* Lots scale, and so do the capacities of the buys that replay before.
TaxSplit(log, t, id) ==
    LET ratio == log[id].qty
    IN  [t EXCEPT
            !.lots = Multiplied(@, ratio),
            !.caps = [b \in DOMAIN @ |->
                         IF Before(log, b, id) THEN @[b] * ratio ELSE @[b]]]

ApplyTax(log, t, id) ==
    LET tx    == log[id]
        fault == FaultOf(tx, id, Shares(t.lots))
    IN  IF t.fault # NoFault THEN t
        ELSE IF fault # NoFault THEN [t EXCEPT !.fault = fault]
        ELSE CASE tx.kind = "buy"   -> TaxBuy(log, t, id)
               [] tx.kind = "sell"  -> TaxSell(log, t, id)
               [] tx.kind = "split" -> TaxSplit(log, t, id)
               [] OTHER             -> t

\* The tax books after each number of rows.
TaxBooks(log) ==
    LET order == ReplayOrder(log)
        tax[n \in 0..Len(log)] ==
            IF n = 0 THEN EmptyTaxBook(log) ELSE ApplyTax(log, tax[n - 1], order[n])
    IN  tax

TaxDisposals(log) == TaxBooks(log)[Len(log)]

-----------------------------------------------------------------------------
(* The report of one year: Schedule D's lines for both terms.              *)
LongTerm(d) == d.sold > d.from + YearDays

TermTotals(rows) ==
    LET sum(Of(_)) == Total([i \in DOMAIN rows |-> Of(rows[i])])
    IN  [proceeds   |-> sum(LAMBDA d : d.proceeds),
         basis      |-> sum(LAMBDA d : d.basis),
         disallowed |-> sum(LAMBDA d : d.disallowed),
         reportable |-> sum(LAMBDA d : d.proceeds - d.basis + d.disallowed)]

TaxReport(out, year) ==
    LET term(long) == Chosen(out, {i \in DOMAIN out :
                                      Year(out[i].sold) = year /\ LongTerm(out[i]) = long})
    IN  [short |-> TermTotals(term(FALSE)), long |-> TermTotals(term(TRUE))]

Years(log) == {Year(Day(log[i].ts)) : i \in DOMAIN log}

-----------------------------------------------------------------------------
\* No split divides the basis of a share with a remainder: amounts are integers
\* here, decimal fractions in the code.
Exact(log) ==
    \A k \in DOMAIN log :
        LET tx == log[ReplayOrder(log)[k]]
        IN  tx.kind = "split" /\ tx.qty > 0 =>
                \A lots \in {Books(log)[k - 1].lots, TaxBooks(log)[k - 1].lots} :
                    \A i \in DOMAIN lots : lots[i].unit % tx.qty = 0

\* Both engines refuse a log at the same row for the same reason, and share by
\* share, in the order sales take them, hold shares of the same purchases.
Agree(book, tax) ==
    /\ book.fault = tax.fault
    /\ Shares(book.lots) = Shares(tax.lots)
    /\ \A n \in 1..Shares(book.lots) : Owner(book.lots, n) = Owner(tax.lots, n)

\* Losses owed to purchases that have not been replayed.
Owed(log, pending) ==
    Total([b \in DOMAIN log |->
              IF b \in Buys(log)
              THEN Total([i \in DOMAIN pending[b] |-> pending[b][i].qty * pending[b][i].add])
              ELSE 0])

\* The profit reported over all years and both terms is the profit the portfolio
\* realized, plus the losses still in the basis of lots or owed to purchases.
Conserves(log) ==
    LET book  == ComputeBasis(log)
        tax   == TaxDisposals(log)
        years == InLine(Years(log), {p \in Years(log) \X Years(log) : p[1] < p[2]})
        reported(y) ==
            TaxReport(tax.out, y).short.reportable + TaxReport(tax.out, y).long.reportable
    IN  Total([i \in DOMAIN years |-> reported(years[i])])
            = book.realized + (Cost(tax.lots) + Owed(log, tax.pending) - book.cost)
==============================================================================
