------------------------------ MODULE Portfolio ------------------------------
(***************************************************************************)
(* The portfolio engine: compute_basis, which replays the transaction log  *)
(* into cash, FIFO lots and realized profit.                               *)
(*                                                                         *)
(* A log is a sequence of rows; the index of a row is its id.  One symbol  *)
(* is enough, since no row of a symbol touches another symbol's position.  *)
(* Dividends, deposits and withdrawals carry their cash in `price`.  Fees  *)
(* only enter a row's cost or proceeds, and are part of its price here.    *)
(* Amounts are integers: the instances choose prices that the split ratios *)
(* divide.                                                                 *)
(***************************************************************************)
EXTENDS Series, FiniteSetsExt, SequencesExt

\* Rows replay by instant, then by id (repo.rs re-sorts what SQL returns).
Before(log, a, b) ==
    \/ log[a].ts < log[b].ts
    \/ log[a].ts = log[b].ts /\ a < b

ReplayOrder(log) ==
    InLine(DOMAIN log, {p \in (DOMAIN log) \X (DOMAIN log) : Before(log, p[1], p[2])})

-----------------------------------------------------------------------------
(* Handing out n shares along a sequence of quantities, first come first   *)
(* served: the loop `take = remaining.min(qty)` of both engines.           *)

Qty(s)    == [i \in DOMAIN s |-> s[i].qty]
Shares(s) == Total(Qty(s))
InOrder(s, n) ==
    [i \in DOMAIN s |-> Max({0, Min({s[i].qty, n - Sums(Qty(s))[i - 1]})})]

Filled(s)      == Chosen(s, {i \in DOMAIN s : s[i].qty > 0})
WithQty(s, q)  == [i \in DOMAIN s |-> [s[i] EXCEPT !.qty = q[i]]]
Taken(lots, n) == Filled(WithQty(lots, InOrder(lots, n)))
Rest(lots, n)  ==
    Filled(WithQty(lots, [i \in DOMAIN lots |-> lots[i].qty - InOrder(lots, n)[i]]))

\* The purchase whose share is the n-th to be sold.
Owner(lots, n) ==
    LET upTo == Sums(Qty(lots))
    IN  lots[CHOOSE i \in DOMAIN lots : upTo[i - 1] < n /\ n <= upTo[i]].buy

Cost(lots) == Total([i \in DOMAIN lots |-> lots[i].qty * lots[i].unit])

-----------------------------------------------------------------------------
NoFault == [id |-> 0, why |-> "none"]
EmptyBook ==
    [fault |-> NoFault, cash |-> 0, qty |-> 0, cost |-> 0, realized |-> 0,
     income |-> 0, paidIn |-> 0, lots |-> <<>>]

Trade(tx)            == tx.kind \in {"buy", "sell", "split"}
Malformed(tx)        == Trade(tx) /\ tx.qty <= 0
Oversells(tx, have)  == tx.kind = "sell" /\ tx.qty > have
FaultOf(tx, id, have) ==
    IF Malformed(tx) THEN [id |-> id, why |-> "malformed"]
    ELSE IF Oversells(tx, have) THEN [id |-> id, why |-> "oversell"]
    ELSE NoFault

Bought(book, tx, id) ==
    [book EXCEPT
        !.cash = @ - tx.qty * tx.price,
        !.qty  = @ + tx.qty,
        !.cost = @ + tx.qty * tx.price,
        !.lots = Append(@, [buy |-> id, qty |-> tx.qty, unit |-> tx.price])]

Sold(book, tx) ==
    LET proceeds  == tx.qty * tx.price
        basisSold == Cost(Taken(book.lots, tx.qty))
    IN  [book EXCEPT
            !.cash     = @ + proceeds,
            !.qty      = @ - tx.qty,
            !.cost     = @ - basisSold,
            !.realized = @ + proceeds - basisSold,
            !.lots     = Rest(@, tx.qty)]

\* Variant: scales the position and forgets its lots.
SplitPositionOnly(book, tx) == [book EXCEPT !.qty = @ * tx.qty]

Multiplied(lots, ratio) ==
    [i \in DOMAIN lots |-> [lots[i] EXCEPT !.qty = @ * ratio, !.unit = @ \div ratio]]

Split(book, tx) ==
    [book EXCEPT !.qty = @ * tx.qty, !.lots = Multiplied(@, tx.qty)]

Dividend(book, tx) == [book EXCEPT !.cash = @ + tx.price, !.income = @ + tx.price]
Moved(book, amount) == [book EXCEPT !.cash = @ + amount, !.paidIn = @ + amount]

\* One row; the first one that is refused ends the replay.
ApplyTx(log, book, id) ==
    LET tx    == log[id]
        fault == FaultOf(tx, id, book.qty)
    IN  IF book.fault # NoFault THEN book
        ELSE IF fault # NoFault THEN [book EXCEPT !.fault = fault]
        ELSE CASE tx.kind = "buy"        -> Bought(book, tx, id)
               [] tx.kind = "sell"       -> Sold(book, tx)
               [] tx.kind = "split"      -> Split(book, tx)
               [] tx.kind = "dividend"   -> Dividend(book, tx)
               [] tx.kind = "deposit"    -> Moved(book, tx.price)
               [] tx.kind = "withdrawal" -> Moved(book, 0 - tx.price)

\* The books after each number of rows.
Books(log) ==
    LET order == ReplayOrder(log)
        book[n \in 0..Len(log)] ==
            IF n = 0 THEN EmptyBook ELSE ApplyTx(log, book[n - 1], order[n])
    IN  book

ComputeBasis(log) == Books(log)[Len(log)]

Replays(log) == ComputeBasis(log).fault = NoFault
==============================================================================
