------------------------------- MODULE Imports -------------------------------
(***************************************************************************)
(* The broker presets of the CSV import (rekt-server/src/import.rs): what  *)
(* an activity export of Fidelity, Schwab, Robinhood or Interactive        *)
(* Brokers becomes.                                                        *)
(*                                                                         *)
(* A number cell is an integer, Blank, or Junk when it does not parse.     *)
(* A line of a table export names its cells, and its action is the set of  *)
(* the preset's words it contains; in a statement the columns of a line    *)
(* are those of its section's header.  Each line becomes a row, is         *)
(* skipped and reported, is ignored, or fails the file.  The spelling of   *)
(* dates, symbols and headers is left out, and so are fees.                *)
(***************************************************************************)
EXTENDS Series, FiniteSetsExt, SequencesExt

CONSTANTS Blank, Junk

Ignored == [what |-> "ignored"]
Skipped == [what |-> "skipped"]
Failed  == [what |-> "failed"]
RowOf(kind, qty, price, ts) ==
    [what |-> "row", row |-> [kind |-> kind, qty |-> qty, price |-> price, ts |-> ts]]

Negative(cell) == cell \notin {Blank, Junk} /\ cell < 0
\* An absent number becomes zero (into_new_tx); of a signed one the size counts.
OrZero(cell) == IF cell = Blank THEN 0 ELSE cell
Size(cell)   == IF Negative(cell) THEN 0 - cell ELSE OrZero(cell)

-----------------------------------------------------------------------------
(* One table per export.  The first rule with a word of the action wins.   *)
(* A word is in a line's words when the preset's test for it succeeds: the *)
(* action begins with Schwab's BUY and SELL, is REINVEST SHARES or one of  *)
(* Robinhood's codes, and contains any other.                              *)
Rule(words, kind) == [words |-> words, kind |-> kind]

Fidelity == <<Rule({"BOUGHT", "REINVESTMENT"}, "buy"), Rule({"SOLD"}, "sell"),
              Rule({"DIVIDEND"}, "dividend"),
              Rule({"TRANSFER RECEIVED", "DEPOSIT", "CONTRIBUTION"}, "deposit"),
              Rule({"TRANSFER PAID", "WITHDRAWAL", "DISTRIBUTION"}, "withdrawal")>>

Schwab == <<Rule({"BUY", "REINVEST SHARES"}, "buy"), Rule({"SELL"}, "sell"),
            Rule({"DIVIDEND"}, "dividend"),
            Rule({"WIRE RECEIVED", "MONEYLINK TRANSFER", "DEPOSIT"}, "deposit"),
            Rule({"WIRE SENT", "WITHDRAWAL"}, "withdrawal")>>

Robinhood == <<Rule({"BUY"}, "buy"), Rule({"SELL"}, "sell"), Rule({"CDIV"}, "dividend"),
               Rule({"ACH", "RTP", "ITRF"}, "transfer")>>

Rules(format) ==
    CASE format = "fidelity" -> Fidelity [] format = "schwab" -> Schwab [] OTHER -> Robinhood

KindOf(format, line) ==
    LET hits == {i \in DOMAIN Rules(format) : Rules(format)[i].words \cap line.words # {}}
    IN  IF hits = {} THEN "none" ELSE Rules(format)[Min(hits)].kind

\* Variant: reads a transfer's code and not its sign.
ClassifyByCode(format, line) ==
    IF KindOf(format, line) = "transfer" THEN "deposit" ELSE KindOf(format, line)

\* Only Robinhood's transfer codes, used in both directions, ask for the sign.
Classify(format, line) ==
    IF KindOf(format, line) # "transfer" THEN KindOf(format, line)
    ELSE IF Negative(line.amount) THEN "withdrawal" ELSE "deposit"

\* A line that is no transaction is skipped whatever its cells hold; in one that
\* is kept, a number that does not parse fails the file.
TableLine(format, line) ==
    LET kind == Classify(format, line)
    IN  CASE line.words = {} -> Ignored
          [] line.words # {} /\ kind = "none" -> Skipped
          [] kind # "none" /\ Junk \in {line.qty, line.price, line.amount} -> Failed
          [] OTHER ->
               RowOf(kind, Size(line.qty),
                     IF kind \in {"buy", "sell"} THEN OrZero(line.price) ELSE Size(line.amount),
                     line.ts)

-----------------------------------------------------------------------------
(* An Interactive Brokers statement: lines [section, type, cells, ts]; the *)
(* cells of a header are column names.                                     *)

\* The columns of a data line: those of its section's last header above it.
Columns(doc, i) ==
    LET above == {h \in 1 .. i - 1 : doc[h].section = doc[i].section /\ doc[h].type = "header"}
    IN  IF above = {} THEN <<>> ELSE doc[Max(above)].cells

Get(doc, i, name) ==
    LET at == {c \in DOMAIN Columns(doc, i) \cap DOMAIN doc[i].cells : Columns(doc, i)[c] = name}
    IN  IF at = {} THEN Blank ELSE doc[i].cells[Max(at)]

DataLines(doc) == {i \in DOMAIN doc : doc[i].type = "data" /\ Columns(doc, i) # <<>>}

\* Trades are listed by order and again by execution: one grain counts.
Preferred(doc) ==
    IF \E i \in DataLines(doc) : doc[i].section = "Trades" /\ Get(doc, i, "grain") = "Order"
    THEN "Order" ELSE "Trade"

TradeLine(doc, i) ==
    LET grain == Get(doc, i, "grain")
        qty   == Get(doc, i, "quantity")
        price == Get(doc, i, "price")
    IN  CASE grain \notin {Blank, Preferred(doc)} ->
               IF grain \in {"ClosedLot", "Order", "Trade"} THEN Ignored ELSE Skipped
          [] grain \in {Blank, Preferred(doc)}
               /\ (Get(doc, i, "asset") # "Stocks" \/ Get(doc, i, "currency") # "USD") -> Skipped
          [] OTHER ->
               IF qty \in {Blank, 0} THEN Ignored
               ELSE IF Junk \in {qty, price} THEN Failed
               ELSE RowOf(IF Negative(qty) THEN "sell" ELSE "buy", Size(qty), OrZero(price),
                          doc[i].ts)

\* Dividends keep the sign of a reversal; the sign of a cash movement is its kind.
CashLine(doc, i) ==
    LET amount == Get(doc, i, "amount")
    IN  CASE Get(doc, i, "currency") \in {Blank, "Total"} -> Ignored
          [] Get(doc, i, "currency") \notin {Blank, "Total", "USD"} -> Skipped
          [] OTHER ->
               IF amount = Blank THEN Ignored
               ELSE IF amount = Junk THEN Failed
               ELSE IF doc[i].section = "Dividends" THEN RowOf("dividend", 0, amount, doc[i].ts)
               ELSE RowOf(IF Negative(amount) THEN "withdrawal" ELSE "deposit", 0, Size(amount),
                          doc[i].ts)

Reported == {"Corporate Actions", "Interest", "Broker Interest Paid", "Broker Interest Received",
             "Payment In Lieu Of Dividends", "Fees", "Other Fees", "Commission Adjustments"}

IbkrLine(doc, i) ==
    LET section == doc[i].section
        totals  == IF section \in Reported THEN {"Total"} ELSE {Blank, "Total"}
    IN  CASE i \notin DataLines(doc) -> Ignored
          [] i \in DataLines(doc) /\ section = "Trades" -> TradeLine(doc, i)
          [] i \in DataLines(doc) /\ section \in {"Dividends", "Deposits & Withdrawals"} ->
               CashLine(doc, i)
          [] OTHER ->
               IF section \in Reported \cup {"Withholding Tax"}
                   /\ Get(doc, i, "currency") \notin totals
               THEN Skipped ELSE Ignored

-----------------------------------------------------------------------------
\* A file is [format, lines].
Read(file, i) ==
    CASE file.format = "generic" -> [what |-> "row", row |-> file.lines[i]]
      [] file.format = "ibkr"    -> IbkrLine(file.lines, i)
      [] OTHER                   -> TableLine(file.format, file.lines[i])

\* A line that cannot be read, or a statement without a section to import.
Refused(file) ==
    \/ \E i \in DOMAIN file.lines : Read(file, i) = Failed
    \/ /\ file.format = "ibkr"
       /\ \A i \in DataLines(file.lines) :
              file.lines[i].section \notin {"Trades", "Dividends", "Deposits & Withdrawals"}

Mapped(file) ==
    LET rows[k \in 0..Len(file.lines)] ==
            IF k = 0 THEN <<>>
            ELSE LET line == Read(file, k)
                 IN  IF line.what = "row" THEN Append(rows[k - 1], line.row) ELSE rows[k - 1]
    IN  rows[Len(file.lines)]
==============================================================================
