-------------------------------- MODULE Ledger --------------------------------
(***************************************************************************)
(* The live transaction log and what writes it: a transaction entered by   *)
(* hand, a CSV import with its reconciliation, a deletion (api.rs), and    *)
(* the page's button that records a split reported missing.  Each handler  *)
(* holds the mutations lock from its read of the log to its write, so it   *)
(* is one step; a preview (dry run) writes nothing.  Broker fills go to    *)
(* the log of their own mode (see OrderManager).                           *)
(*                                                                         *)
(* The log is a sequence in id order.  Deleting a row closes the gap its   *)
(* id leaves, which no comparison of ids can tell.                         *)
(***************************************************************************)
EXTENDS Splits, Imports

CONSTANTS
    Uses    \* the ways the log is used: records [rows, files, events, max,
            \* backdating, deletions]: the rows entered by hand, the files
            \* imported, the splits the provider reports, the bound on the
            \* length of the log, whether a row may be dated before those
            \* entered, and whether rows may be deleted

Kinds == {"buy", "sell", "split", "dividend", "deposit", "withdrawal"}
Rows  == [kind : Kinds, qty : Int, price : Int, ts : Int]
Cells == Int \cup {Blank, Junk}

\* What a file may hold: rows, table lines, or the lines of a statement, whose
\* columns of numbers hold numbers.
File(f) ==
    CASE f.format = "generic" -> f.lines \in Seq(Rows)
      [] f.format = "ibkr" ->
           /\ Len(f.lines) \in Nat
           /\ \A i \in DataLines(f.lines) :
                 /\ f.lines[i].ts \in Int
                 /\ \A column \in {"quantity", "price", "amount"} :
                       Get(f.lines, i, column) \in Cells
      [] OTHER ->
           f.lines \in Seq([words : SUBSET STRING, qty : Cells, price : Cells, amount : Cells,
                            ts : Int])

ASSUME LedgerAssumption ==
    \A u \in Uses :
        /\ u.rows \subseteq Rows /\ \A f \in u.files : File(f)
        /\ \A ev \in u.events : ev.day \in Nat /\ ev.ratio \in Nat \ {0}
        /\ u.max \in Nat /\ u.backdating \in BOOLEAN /\ u.deletions \in BOOLEAN

VARIABLES
    log,
    use     \* chosen at the start

vars == <<log, use>>

Init == log = <<>> /\ use \in Uses

-----------------------------------------------------------------------------
\* validate_with: a log that is already broken accepts anything, so that it can
\* be repaired.
Valid(candidate) == Replays(log) => Replays(Append(log, candidate))

Create(r) ==
    /\ Len(log) < use.max
    /\ use.backdating \/ \A i \in DOMAIN log : log[i].ts <= r.ts
    /\ Valid(r)
    /\ log' = Append(log, r)
    /\ UNCHANGED use

\* The page's button records a missing split by creating its row.
RecordSplit(ev) ==
    /\ ev \in MissingSplits(log, use.events)
    /\ Len(log) < use.max
    /\ Valid(SplitRow(ev))
    /\ log' = Append(log, SplitRow(ev))
    /\ UNCHANGED use

-----------------------------------------------------------------------------
Disposal(r) == r.kind \in {"sell", "withdrawal"}

\* Variant: trusts the order of the export within an instant.
FileOrder(file) ==
    LET order == InLine(DOMAIN file,
                        {p \in (DOMAIN file) \X (DOMAIN file) : Before(file, p[1], p[2])})
    IN  [i \in DOMAIN file |-> file[order[i]]]

\* import_csv inserts by instant, purchases before sales, then in file order.
ImportOrder(file) ==
    LET earlier(a, b) ==
            \/ file[a].ts < file[b].ts
            \/ /\ file[a].ts = file[b].ts
               /\ \/ Disposal(file[b]) /\ ~Disposal(file[a])
                  \/ (Disposal(file[a]) <=> Disposal(file[b])) /\ a < b
        order == InLine(DOMAIN file,
                        {p \in (DOMAIN file) \X (DOMAIN file) : earlier(p[1], p[2])})
    IN  [i \in DOMAIN file |-> file[order[i]]]

\* The positions in S, and the rows of a sorted file at them.
Positions(file, S) == Chosen([i \in DOMAIN file |-> i], S)
Pick(file, S)      == Chosen(file, S)

FaultWith(file, S) == ComputeBasis(log \o Pick(file, S)).fault
OfCandidate(fault) == fault.id > Len(log)

\* Variant: gives up after the first row dropped.
ReconcileOnce(file) ==
    LET fault == FaultWith(file, DOMAIN file)
    IN  IF Replays(log) /\ OfCandidate(fault) /\ fault.why = "oversell"
        THEN DOMAIN file \ {fault.id - Len(log)}
        ELSE DOMAIN file

\* reconcile_import: as long as the first row that breaks the replay is a
\* candidate sale nothing backs, it is dropped.
Reconcile(file) ==
    LET keep[S \in SUBSET DOMAIN file] ==
            LET fault == FaultWith(file, S)
            IN  IF OfCandidate(fault) /\ fault.why = "oversell"
                THEN keep[S \ {Positions(file, S)[fault.id - Len(log)]}]
                ELSE S
    IN  IF Replays(log) THEN keep[DOMAIN file] ELSE DOMAIN file

\* A malformed candidate rejects the whole file.
Rejected(file, S) ==
    LET fault == FaultWith(file, S)
    IN  Replays(log) /\ OfCandidate(fault) /\ fault.why = "malformed"

Import(f) ==
    LET file == ImportOrder(Mapped(f))
        kept == Reconcile(file)
    IN  /\ ~Refused(f) /\ file # <<>>
        /\ Len(log) + Len(file) <= use.max
        /\ ~Rejected(file, kept) /\ kept # {}
        /\ log' = log \o Pick(file, kept)
        /\ UNCHANGED use

-----------------------------------------------------------------------------
\* delete_tx looks at nothing but the id.
Delete(i) ==
    /\ use.deletions
    /\ log' = RemoveAt(log, i)
    /\ UNCHANGED use

Next ==
    \/ \E r \in use.rows : Create(r)
    \/ \E ev \in use.events : RecordSplit(ev)
    \/ \E f \in use.files : Import(f)
    \/ \E i \in DOMAIN log : Delete(i)

Spec == Init /\ [][Next]_vars

-----------------------------------------------------------------------------
(* Properties                                                              *)

\* The log holds rows: whatever a form, a button or a file gives, each row has
\* its kind and its numbers.
TypeOK == log \in Seq(Rows) /\ use \in Uses

\* Cash, cost, income and realized profit balance with what was paid in, and the
\* totals a position reports are those of its lots: no replay, splits included,
\* creates or loses shares or money.
Balances(book) ==
    /\ book.qty = Shares(book.lots)
    /\ book.cash + book.cost = book.realized + book.income + book.paidIn

\* portfolio.rs:180-181: the portfolio engine and the tax ledger accept and
\* reject exactly the same logs, and they agree, share by share, on what is still
\* held, and the portfolio's totals balance; through splits, same-instant rows and
\* wash-sale adjustments, and for broken logs too.
EnginesAgree ==
    LET book == ComputeBasis(log)
    IN  /\ Agree(book, TaxDisposals(log))
        /\ Balances(book)
        /\ Exact(log) => book.cost = Cost(book.lots)

\* taxes.rs:4-11: a disallowed loss is deferred, never erased and never counted
\* twice.  The gains and losses Schedule D reports, over all years and both terms,
\* are the profit the portfolio realized, plus the losses that are in the basis of
\* the shares that replaced those sold, or owed to the purchase that will.
LossDeferred == Replays(log) /\ Exact(log) => Conserves(log)

\* taxes.rs:463-469: among the shares of one purchase FIFO reaches the adjusted
\* ones first, so a deferred loss comes back as early as it may.
AdjustedFirst ==
    LET lots == TaxDisposals(log).lots
    IN  \A i, j \in DOMAIN lots :
            i < j /\ lots[i].buy = lots[j].buy /\ lots[i].rep = 0 => lots[j].rep = 0

\* taxes.rs:170-171: a purchased share replaces at most one wash-sold share
\* across the whole log.
OneReplacementPerShare ==
    \A i \in DOMAIN TaxDisposals(log).lots : TaxDisposals(log).lots[i].rep <= 1

\* splits.rs:1-10: once the check reports nothing missing, the log counts the
\* shares the holder really has, whatever was entered before or after a split and
\* in whatever order the splits were recorded, as long as they were recorded by
\* the button, the events are apart and no trade of an ex-date precedes the
\* instant the button records.
SplitsMadeWhole ==
    /\ Replays(log)
    /\ \A i \in DOMAIN log : log[i].kind = "split" => log[i] \in {SplitRow(ev) : ev \in use.events}
    /\ Separable(log, use.events) /\ MissingSplits(log, use.events) = {}
    => ComputeBasis(log).qty = TrueShares(log, use.events)

\* Shares held once everything dated up to an instant has been replayed.
HeldAt(rows, ts) == ComputeBasis(SelectSeq(rows, LAMBDA r : r.ts <= ts)).qty

Written == SubSeq(log', Len(log) + 1, Len(log'))

\* api.rs:160-168: an import drops only sales that the shares held at their
\* instant could not back, wherever in the file the purchases of that instant
\* stand.
DroppedUnbackable ==
    [][\A f \in use.files : Import(f) =>
          \A r \in ToSet(Mapped(f)) \ ToSet(Written) :
              r.kind = "sell" /\ r.qty > HeldAt(log', r.ts)]_vars

\* Entering the rows of a file one by one, those refused left out.
OneByOne(file) ==
    FoldLeft(LAMBDA l, r : IF Replays(Append(l, r)) THEN Append(l, r) ELSE l, log, file)

\* An import whose rows are all younger than the log leaves the log that its
\* rows would have left had they been entered by hand in order of time, and
\* that log replays.
ImportLikeCreates ==
    [][\A f \in use.files :
          /\ Import(f) /\ Replays(log)
          /\ \A i \in DOMAIN log, r \in ToSet(Mapped(f)) : log[i].ts < r.ts
          => log' = OneByOne(ImportOrder(Mapped(f)))]_vars

\* import.rs:1-8: a broker's export imports as what happened in the account.
\* Unless reconciliation drops a row, the cash and the shares of the portfolio
\* change by what the listed events moved, in whatever order, grain and layout
\* the export lists them, and nothing counts twice.  The one exception is what the
\* parser gets wrong: where a table's words do not tell the direction, money that
\* went out is imported as money that came in, unless it is Robinhood's transfer
\* (a dividend taken back, import.rs:312; an outgoing MoneyLink, import.rs:125).
StatementHonoured ==
    [][\A f \in use.files :
          Import(f) /\ Len(Written) = Len(Mapped(f)) /\ Replays(log) /\ Replays(log')
          => /\ ComputeBasis(log').cash - ComputeBasis(log).cash = f.cash - 2 * f.flipped
             /\ ComputeBasis(log').qty - ComputeBasis(log).qty = f.shares]_vars
==============================================================================
