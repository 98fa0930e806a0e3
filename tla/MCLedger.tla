------------------------------ MODULE MCLedger ------------------------------
EXTENDS Ledger

\* The slots of a day are the open, 15:00 UTC and the close.
At(day, slot) == day * PerDay + slot
Close(day)    == At(day, 2)
Row(k, q, p, ts) == [kind |-> k, qty |-> q, price |-> p, ts |-> ts]
Generic(rows, cash, shares) ==
    [format |-> "generic", lines |-> rows, cash |-> cash, shares |-> shares, flipped |-> 0]

\* Trades at one price over three days, a split, a purchase of no shares; files
\* of one or two days in either order, one whose rows are all but one unbacked,
\* one with a malformed row.
ByHandUse ==
    LET buy(q, d)  == Row("buy", q, 8, Close(d))
        sell(q, d) == Row("sell", q, 8, Close(d))
        pairs == {<<r, s>> : r \in {buy(1, 1), sell(1, 1), sell(2, 2)},
                             s \in {buy(1, 1), buy(2, 2), sell(1, 2)}}
        signed(r) == IF r.kind = "buy" THEN r.qty ELSE 0 - r.qty
    IN  [rows |-> {buy(q, d) : q \in {1, 2}, d \in 0..2} \cup {sell(q, d) : q \in {1, 2}, d \in 0..2}
                      \cup {Row("split", 2, 8, Close(1)), buy(0, 1)},
         files |-> {Generic(p, 0 - 8 * (signed(p[1]) + signed(p[2])), signed(p[1]) + signed(p[2])) :
                        p \in pairs}
                      \cup {Generic(<<sell(1, 1), sell(2, 2), buy(1, 2)>>, 16, 0 - 2),
                            Generic(<<buy(0, 1), buy(1, 1)>>, 0 - 8, 1)},
         events |-> {}, max |-> 4, backdating |-> TRUE, deletions |-> TRUE]

\* Purchases at a high and a low price, sales at the low one, a split, over days
\* that are and are not within a window of one day, and over two years.
TaxedUse(rows) ==
    [rows |-> {Row("buy", b[1], b[2], Close(d)) : b \in {<<1, 16>>, <<1, 32>>, <<2, 32>>},
                                                  d \in {0, 1, 3}}
                  \cup {Row("sell", q, 16, Close(d)) : q \in {1, 2}, d \in {0, 2, 3}}
                  \cup {Row("split", 2, 16, Close(d)) : d \in {1, 2}},
     files |-> {}, events |-> {}, max |-> rows, backdating |-> FALSE, deletions |-> FALSE]

\* Two splits far apart, trades before, between and after them and on an ex-date
\* before and after the instant the page records.
SplitUse ==
    [rows |-> {Row("buy", 1, 8, ts) : ts \in {Close(0), At(2, 0), Close(2), Close(8)}}
                  \cup {Row("sell", q, 8, ts) : q \in {1, 2}, ts \in {Close(2), Close(4), Close(8)}},
     files |-> {}, events |-> {[day |-> 2, ratio |-> 2], [day |-> 7, ratio |-> 2]},
     max |-> 4, backdating |-> TRUE, deletions |-> TRUE]

-----------------------------------------------------------------------------
\* What happens in an account: the shares and the cash it gains.  A dividend may
\* be taken back; a transfer goes either way.
Event(kind, shares, cash) == [kind |-> kind, shares |-> shares, cash |-> cash]
Events == {Event("bought", 2, 0 - 16), Event("sold", 0 - 1, 9),
           Event("dividend", 0, 3), Event("dividend", 0, 0 - 3),
           Event("transfer", 0, 20), Event("transfer", 0, 0 - 20)}
Histories == {<<e>> : e \in Events} \cup {<<e, f>> : e \in Events, f \in Events}

Price(e) == IF e.shares > 0 THEN 8 ELSE 9

\* A history as a broker exports it, and what it amounts to; the broker's words
\* do not tell the direction of the events in Flips.
Export(format, history, Flips(_), lines) ==
    [format  |-> format, lines |-> lines,
     cash    |-> Total([d \in DOMAIN history |-> history[d].cash]),
     shares  |-> Total([d \in DOMAIN history |-> history[d].shares]),
     flipped |-> Total([d \in DOMAIN history |-> IF Flips(history[d]) THEN history[d].cash ELSE 0])]

Line(words, q, p, a, d) ==
    [words |-> words, qty |-> q, price |-> p, amount |-> a, ts |-> Close(d)]

\* Fidelity's funds may be called dividend; Schwab's MoneyLink and Robinhood's
\* ACH name transfers of either direction.
Words(format, e) ==
    CASE e.kind = "bought"   -> IF format = "fidelity" THEN {"BOUGHT", "DIVIDEND"} ELSE {"BUY"}
      [] e.kind = "sold"     -> IF format = "fidelity" THEN {"SOLD"} ELSE {"SELL"}
      [] e.kind = "dividend" -> IF format = "robinhood" THEN {"CDIV"} ELSE {"DIVIDEND"}
      [] e.kind = "transfer" ->
           CASE format = "schwab"    -> {"MONEYLINK TRANSFER"}
             [] format = "robinhood" -> {"ACH"}
             [] OTHER -> IF e.cash > 0 THEN {"TRANSFER RECEIVED"} ELSE {"TRANSFER PAID"}

\* Newest line first, below a blank line and interest without an amount.
Table(format, history) ==
    LET flips(e) == e.cash < 0 /\ (e.kind = "dividend" \/ (format = "schwab" /\ e.kind = "transfer"))
        line(e, d) ==
            IF e.shares = 0 THEN Line(Words(format, e), Blank, Blank, e.cash, d)
            ELSE Line(Words(format, e), IF format = "fidelity" THEN e.shares ELSE Size(e.shares),
                      Price(e), e.cash, d)
    IN  Export(format, history, flips,
               <<Line({}, Blank, Blank, Blank, 0), Line({"INTEREST"}, Blank, Blank, Junk, 0)>>
                   \o Reverse([d \in DOMAIN history |-> line(history[d], d)]))

BadExport == [Table("schwab", <<>>) EXCEPT !.lines = <<Line({"BUY"}, 1, Junk, 0 - 6, 1)>>]

-----------------------------------------------------------------------------
Header(section, cells)  == [section |-> section, type |-> "header", cells |-> cells, ts |-> 0]
Data(section, d, cells) == [section |-> section, type |-> "data", cells |-> cells, ts |-> Close(d)]

\* A trade under the columns of its account, by order or by execution only: an
\* execution per share, the order they make up, a lot, an option.
Trades(e, d, ordered) ==
    LET columns == IF d = 1 THEN <<"grain", "asset", "currency", "quantity", "price">>
                            ELSE <<"grain", "currency", "asset", "price", "quantity">>
        sign    == IF e.shares < 0 THEN 0 - 1 ELSE 1
        trade(grain, asset, q) ==
            Data("Trades", d, IF d = 1 THEN <<grain, asset, "USD", q, Price(e)>>
                                       ELSE <<grain, "USD", asset, Price(e), q>>)
    IN  <<Header("Trades", columns)>>
            \o (IF ordered THEN <<trade("Order", "Stocks", e.shares)>> ELSE <<>>)
            \o [i \in 1..Size(e.shares) |-> trade("Trade", "Stocks", sign)]
            \o <<trade("ClosedLot", "Stocks", e.shares), trade("Trade", "Options", 1)>>

\* Cash comes with a foreign amount and the section's total.
Cash(e, d) ==
    LET section == IF e.kind = "dividend" THEN "Dividends" ELSE "Deposits & Withdrawals"
    IN  <<Header(section, <<"currency", "amount">>), Data(section, d, <<"USD", e.cash>>),
          Data(section, d, <<"EUR", 7>>), Data(section, d, <<"Total", e.cash>>),
          Header("Withholding Tax", <<"currency", "amount">>),
          Data("Withholding Tax", d, <<"USD", 0 - 1>>)>>

Statement(history, ordered) ==
    LET never(e) == FALSE
    IN  Export("ibkr", history, never,
               FlattenSeq([d \in DOMAIN history |->
                              IF history[d].shares = 0 THEN Cash(history[d], d)
                              ELSE Trades(history[d], d, ordered)]))

FeesExport == [Statement(<<>>, TRUE) EXCEPT
    !.lines = <<Header("Fees", <<"currency", "amount">>), Data("Fees", 1, <<"USD", 0 - 1>>)>>]

\* One history in the five exports.
BrokerUse(history) ==
    [rows |-> {Row("buy", 1, 8, Close(0))},
     files |-> {Table(format, history) : format \in {"fidelity", "schwab", "robinhood"}}
                   \cup {Statement(history, ordered) : ordered \in BOOLEAN}
                   \cup {BadExport, FeesExport},
     events |-> {}, max |-> 4, backdating |-> TRUE, deletions |-> FALSE]

AllUses == {ByHandUse, TaxedUse(5), SplitUse} \cup {BrokerUse(h) : h \in Histories}
TaxUse4 == {TaxedUse(4)}
=============================================================================
