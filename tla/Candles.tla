------------------------------ MODULE Candles ------------------------------
(***************************************************************************)
(* The daily-candle cache of crates/rekt-server/src/history.rs: the        *)
(* backfill runs (one by the 30-minute scheduler, one spawned by whatever  *)
(* introduces a symbol), the persisted floor of the backward fill, the     *)
(* end-of-day snapshots, and the equity curve cached under the revisions.  *)
(*                                                                         *)
(* A day is a number, a symbol too (backfill_candles walks them sorted);   *)
(* Benchmark is always among them.  A cached bar remembers whether the day *)
(* was over when it was fetched.  The windows of the code (7, 380 and 3    *)
(* days) are the constants Lead, Window and Overlap.                       *)
(***************************************************************************)
EXTENDS Naturals, Sequences, FiniteSets, FiniteSetsExt

CONSTANTS
  Symbols,      \* numbers, for the sorted walk
  Benchmark,    \* SPY
  Listed,       \* first day the provider has of a symbol
  Weekend,      \* days without a bar or a snapshot
  FirstDay, LastDay,  \* bound: the days the server runs on
  Lead, Window, Overlap,
  Modes,        \* "live" and "paper"
  TxDays,       \* bound: the days transactions are dated
  MaxTx,        \* bound: transactions written
  MaxFailures   \* bound: failed database calls

ASSUME CandleConstants ==
  /\ Symbols \subseteq Nat \ {0} /\ Benchmark \in Symbols
  /\ \A s \in Symbols : Listed[s] \in Nat
  /\ FirstDay \in Nat /\ LastDay \in Nat /\ FirstDay <= LastDay
  /\ Lead \in Nat /\ Window \in Nat /\ Overlap \in Nat \ {0}
  /\ TxDays \subseteq Nat
  /\ Lead < FirstDay /\ Window < FirstDay
  /\ "live" \in Modes

VARIABLES
  today, closed,   \* the New York day; is it past 16:05
  log,             \* transactions by mode: the set of (symbol, day)
  silent,          \* {the symbol of} a transaction committed and not yet announced
  bars,            \* table candles: symbol -> day -> bar
  floor,           \* settings candle_floor:<symbol>, 0 when there is none
  snaps,           \* table snapshots: mode -> day -> what was valued
  lock,            \* backfill_lock
  run,             \* the two backfill tasks
  unannounced,     \* ghost: bars written since the last bump
  hist, reader,    \* history_cache and one build_series in progress; "same":
                   \* the revisions are still those of its key
  failures

market == <<today, closed>>
vars == <<today, closed, log, silent, bars, floor, snaps, lock, run,
          unannounced, hist, reader, failures>>

Days == 1..LastDay
Tasks == {"scheduler", "spawned"}
Nobody == "nobody"
Cash == 0   \* a deposit, a withdrawal: no symbol
Idle == [at |-> "idle", from |-> 0, today |-> 0, todo |-> {}, sym |-> 0,
         ranges |-> <<>>, back |-> FALSE, got |-> << >>, fetched |-> FALSE]
NoCurve == [same |-> FALSE, day |-> 0, value |-> << >>]
NoReader == [at |-> "idle", same |-> FALSE, day |-> 0, txs |-> {}]

Lesser(a, b) == IF a <= b THEN a ELSE b
AllTx == UNION {log[m] : m \in Modes}

-----------------------------------------------------------------------------
(* Variant: the tail starts after the newest cached bar.                   *)
BackfillRangesNoOverlap(from, cached, now, tried) ==
  IF cached = {}
  THEN IF from < now THEN << <<from, now>> >> ELSE <<>>
  ELSE IF Max(cached) + 1 <= now THEN << <<Max(cached) + 1, now>> >> ELSE <<>>

(* backfill_ranges: the forward tail, then the backward head.              *)
(* cached is the set of cached days.                                       *)
BackfillRanges(from, cached, now, tried) ==
  IF cached = {}
  THEN IF from < now THEN << <<from, now>> >> ELSE <<>>
  ELSE LET fwd == Max(cached) - Overlap
           low == Min(cached)
       IN (IF fwd < now THEN << <<fwd, now>> >> ELSE <<>>)
          \o (IF from < low /\ (tried = 0 \/ from < tried)
              THEN << <<from, Lesser(low + Overlap, now)>> >> ELSE <<>>)

(* What the provider answers for a symbol and a range at this moment.      *)
Provided(s, range) ==
  [d \in {d \in Days \ Weekend : /\ Listed[s] <= d /\ d <= today
                                 /\ range[1] <= d /\ d <= range[2]}
     |-> [final |-> d < today \/ closed]]

(* upsert_candles: INSERT OR REPLACE of every bar, one database            *)
(* transaction; upsert_snapshot does the same with one row.                *)
UpsertCandles(old, new) ==
  [d \in DOMAIN old \union DOMAIN new |->
     IF d \in DOMAIN new THEN new[d] ELSE old[d]]

UpsertSnapshot(m, p) ==
  [d \in DOMAIN snaps[m] \union {today} |->
     IF d = today THEN [txs |-> log[m], priced |-> p] ELSE snaps[m][d]]

(* default_from: the first transaction less Lead, or the signals' window.  *)
FirstTxDate == Min({t.day : t \in AllTx})

DefaultFrom ==
  LET signals == today - Window
  IN IF AllTx = {} THEN signals ELSE Lesser(FirstTxDate - Lead, signals)

(* The symbols of the log and the benchmark; those of watchlists, alerts,  *)
(* recommendations and market gauges are tracked in the same way.          *)
Tracked == ({t.sym : t \in AllTx} \union {Benchmark}) \ {Cash}

(* first_candle_date and last_candle_date are its ends.                    *)
CachedDays(s) == DOMAIN bars[s]

-----------------------------------------------------------------------------
Init ==
  /\ today = FirstDay /\ closed = FALSE
  /\ log = [m \in Modes |-> {}] /\ silent = {}
  /\ bars = [s \in Symbols |-> << >>]
  /\ floor = [s \in Symbols |-> 0]
  /\ snaps = [m \in Modes |-> << >>]
  /\ lock = Nobody
  /\ run = [t \in Tasks |-> Idle]
  /\ unannounced = FALSE
  /\ hist = NoCurve /\ reader = NoReader
  /\ failures = 0

(* bump_candles_revision, bump_tx_revision: a curve cached or being built  *)
(* under the old revisions will not be served (it is as good as dropped).  *)
Bump == /\ hist' = NoCurve
        /\ reader' = [reader EXCEPT !.same = FALSE]

(* The tick of the scheduler, or spawn_backfill (see Announce): the first  *)
(* date, today and the symbols are read once, before any lock.             *)
Started(t) ==
  run' = [run EXCEPT ![t] = [Idle EXCEPT !.at = "next", !.from = DefaultFrom,
                                         !.today = today, !.todo = Tracked]]

Tick ==
  /\ run["scheduler"].at = "idle"
  /\ Started("scheduler")
  /\ UNCHANGED <<market, log, silent, bars, floor, snaps, lock, unannounced, hist, reader, failures>>

(* One symbol under the lock: bounds and floor are read, ranges computed.  *)
TakeSymbol(t) ==
  /\ run[t].at = "next" /\ run[t].todo # {} /\ lock = Nobody
  /\ LET s == Min(run[t].todo)
         r == BackfillRanges(run[t].from, CachedDays(s), run[t].today, floor[s])
     IN run' = [run EXCEPT ![t] =
          [run[t] EXCEPT !.at = "fetch", !.sym = s, !.todo = @ \ {s}, !.ranges = r,
                         !.back = /\ CachedDays(s) # {}
                                  /\ run[t].from < Min(CachedDays(s))
                                  /\ floor[s] = 0 \/ run[t].from < floor[s]]]
  /\ lock' = t
  /\ UNCHANGED <<market, log, silent, bars, floor, snaps, unannounced,
                 hist, reader, failures>>

(* bars.daily_candles of the next range; a failure is logged and skipped.  *)
Fetch(t) ==
  /\ run[t].at = "fetch" /\ run[t].ranges # <<>>
  /\ LET got == Provided(run[t].sym, Head(run[t].ranges))
     IN run' = [run EXCEPT ![t] =
          [run[t] EXCEPT !.ranges = Tail(@), !.got = got,
                         !.at = IF got = << >> THEN "fetch" ELSE "store"]]
  /\ UNCHANGED <<market, log, silent, bars, floor, snaps, lock, unannounced, hist, reader, failures>>

FetchFails(t) ==
  /\ run[t].at = "fetch" /\ run[t].ranges # <<>>
  /\ run' = [run EXCEPT ![t] = [run[t] EXCEPT !.ranges = Tail(@)]]
  /\ UNCHANGED <<market, log, silent, bars, floor, snaps, lock, unannounced, hist, reader, failures>>

Store(t) ==
  /\ run[t].at = "store"
  /\ bars' = [bars EXCEPT ![run[t].sym] = UpsertCandles(@, run[t].got)]
  /\ unannounced' = TRUE
  /\ run' = [run EXCEPT ![t].at = "fetch", ![t].got = << >>, ![t].fetched = TRUE]
  /\ UNCHANGED <<market, log, silent, floor, snaps, lock, hist, reader,
                 failures>>

(* The ranges are done, whatever became of them: the floor is recorded.    *)
Release(t) ==
  /\ run[t].at = "fetch" /\ run[t].ranges = <<>>
  /\ floor' = IF run[t].back THEN [floor EXCEPT ![run[t].sym] = run[t].from]
              ELSE floor
  /\ lock' = Nobody
  /\ run' = [run EXCEPT ![t].at = "next", ![t].sym = 0, ![t].back = FALSE]
  /\ UNCHANGED <<market, log, silent, bars, snaps, unannounced, hist,
                 reader, failures>>

(* The run returns: the scheduler's task goes on to the snapshot.          *)
Returned(t) == [Idle EXCEPT !.at = IF t = "scheduler" THEN "eod" ELSE "idle"]

(* Variant: the revision is not bumped.                                    *)
FinishUnannounced(t) ==
  /\ run[t].at = "next" /\ run[t].todo = {}
  /\ unannounced' = FALSE
  /\ run' = [run EXCEPT ![t] = Returned(t)]
  /\ UNCHANGED <<market, log, silent, bars, floor, snaps, lock, hist, reader,
                 failures>>

Finish(t) ==
  /\ run[t].at = "next" /\ run[t].todo = {}
  /\ IF run[t].fetched THEN Bump ELSE UNCHANGED <<hist, reader>>
  /\ unannounced' = (unannounced /\ ~run[t].fetched)
  /\ run' = [run EXCEPT ![t] = Returned(t)]
  /\ UNCHANGED <<market, log, silent, bars, floor, snaps, lock, failures>>

(* A database error leaves backfill_candles by `?`: no bump, no floor.     *)
Abort(t) ==
  /\ run[t].at = "store" \/ (run[t].at = "fetch" /\ run[t].ranges = <<>> /\ run[t].back)
  /\ failures < MaxFailures /\ failures' = failures + 1
  /\ lock' = Nobody
  /\ run' = [run EXCEPT ![t] = Returned(t)]
  /\ UNCHANGED <<market, log, silent, bars, floor, snaps, unannounced,
                 hist, reader>>

(* maybe_snapshot_eod: one row per mode and trading day, after the close,  *)
(* valued at whatever the price cache holds (nothing yet after a boot).    *)
HasSnapshot(m) == today \in DOMAIN snaps[m]

Captured(m) ==
  /\ today \notin Weekend /\ closed
  /\ ~HasSnapshot(m)
  /\ log[m] # {}

Snapshot ==
  /\ run["scheduler"].at = "eod"
  /\ \E p \in BOOLEAN : snaps' = [m \in Modes |->
       IF Captured(m) THEN UpsertSnapshot(m, p) ELSE snaps[m]]
  /\ run' = [run EXCEPT !["scheduler"] = Idle]
  /\ UNCHANGED <<market, log, silent, bars, floor, lock, unannounced,
                 hist, reader, failures>>

-----------------------------------------------------------------------------
(* create_tx or an import under the mutations lock: the rows, then the     *)
(* bump and the spawned backfill.                                          *)
Commit ==
  /\ silent = {} /\ Cardinality(AllTx) < MaxTx
  /\ \E m \in Modes, s \in Symbols \union {Cash}, d \in TxDays :
       /\ Lead < d /\ d <= today
       /\ [sym |-> s, day |-> d] \notin log[m]
       /\ silent' = {s}
       /\ log' = [log EXCEPT ![m] = @ \union {[sym |-> s, day |-> d]}]
  /\ UNCHANGED <<market, bars, floor, snaps, lock, run, unannounced,
                 hist, reader, failures>>

Announce ==
  /\ silent # {} /\ (silent = {Cash} \/ run["spawned"].at = "idle")
  /\ silent' = {}
  /\ Bump
  /\ IF silent = {Cash} THEN UNCHANGED run ELSE Started("spawned")
  /\ UNCHANGED <<market, log, bars, floor, snaps, lock, unannounced, failures>>

-----------------------------------------------------------------------------
(* history_payload: the key is read first; on a miss build_series reads    *)
(* the log and then the closes, and caches the curve under the key.        *)
Hit == hist.same /\ hist.day = today

Miss ==
  /\ reader.at = "idle" /\ ~Hit
  /\ reader' = [at |-> "log", same |-> TRUE, day |-> today, txs |-> {}]
  /\ UNCHANGED <<market, log, silent, bars, floor, snaps, lock, run, unannounced, hist, failures>>

(* An empty log is answered at once and not cached.                        *)
ReadLog ==
  /\ reader.at = "log"
  /\ reader' = IF log["live"] = {} THEN NoReader
               ELSE [reader EXCEPT !.at = "closes", !.txs = log["live"]]
  /\ UNCHANGED <<market, log, silent, bars, floor, snaps, lock, run, unannounced, hist, failures>>

(* equity_series over the candles there are; the snapshots without any.    *)
ClosesMap(syms) == [s \in {s \in syms : bars[s] # << >>} |-> bars[s]]

Curve(txs) ==
  LET closes == ClosesMap(({t.sym : t \in txs} \union {Benchmark}) \ {Cash})
  IN IF closes = << >> /\ snaps["live"] # << >>
     THEN [from |-> "snapshots", txs |-> {}, closes |-> << >>]
     ELSE [from |-> "candles", txs |-> txs, closes |-> closes]

ReadCloses ==
  /\ reader.at = "closes"
  /\ hist' = IF reader.same THEN [same |-> TRUE, day |-> reader.day,
                                  value |-> Curve(reader.txs)]
             ELSE NoCurve
  /\ reader' = NoReader
  /\ UNCHANGED <<market, log, silent, bars, floor, snaps, lock, run, unannounced, failures>>

-----------------------------------------------------------------------------
(* The day closes and the next one opens.  A call to the provider times    *)
(* out after 15 s: a backfill run may see midnights, not a Window of them. *)
Running(t) == run[t].at \in {"next", "fetch", "store"}

Clock ==
  /\ \/ /\ ~closed /\ closed' = TRUE /\ today' = today
     \/ /\ closed /\ today < LastDay /\ closed' = FALSE /\ today' = today + 1
        /\ \A t \in Tasks : Running(t) => today < run[t].today + Window
  /\ UNCHANGED <<log, silent, bars, floor, snaps, lock, run, unannounced, hist, reader, failures>>

(* A restart: the tables stay, the tasks, revisions and caches are new.    *)
Crash ==
  /\ lock' = Nobody /\ run' = [t \in Tasks |-> Idle]
  /\ silent' = {} /\ unannounced' = FALSE
  /\ hist' = NoCurve
  /\ reader' = NoReader
  /\ UNCHANGED <<today, closed, log, bars, floor, snaps, failures>>

Backfill(t) ==
  TakeSymbol(t) \/ Fetch(t) \/ Store(t) \/ Release(t) \/ Finish(t)

Next ==
  \/ Tick \/ Snapshot \/ Commit \/ Announce
  \/ \E t \in Tasks : Backfill(t) \/ FetchFails(t) \/ Abort(t)
  \/ Miss \/ ReadLog \/ ReadCloses
  \/ Clock \/ Crash

Spec == Init /\ [][Next]_vars

-----------------------------------------------------------------------------
(* The shapes of the tables and of the tasks' locals; the lock is held by  *)
(* a task exactly while it is between TakeSymbol and Release.              *)
TypeOK ==
  /\ today \in FirstDay..LastDay /\ closed \in BOOLEAN
  /\ \A s \in Symbols : /\ DOMAIN bars[s] \subseteq Days \ Weekend
                        /\ floor[s] \in Nat
  /\ \A m \in Modes : DOMAIN snaps[m] \subseteq FirstDay..LastDay
  /\ \A t \in Tasks : /\ run[t].at \in {"idle", "next", "fetch", "store", "eod"}
                      /\ lock = t <=> run[t].at \in {"fetch", "store"}
                      /\ Len(run[t].ranges) <= 2

(* The cached bars of a symbol have no hole: whatever fetches failed,      *)
(* whatever restarts came between, every trading day from the first cached *)
(* bar to the last is cached (the reason both ranges overlap the bars).    *)
NoHoles ==
  \A s \in Symbols : bars[s] # << >> =>
    \A d \in Min(DOMAIN bars[s])..Max(DOMAIN bars[s]) :
      d \in Weekend \/ d \in DOMAIN bars[s]

(* A bar written during its own session is the newest of its symbol: the   *)
(* forward tail starts before it, so a later fetch replaces it before any  *)
(* newer bar is stored ("in case it was written intraday").                *)
OnlyNewestProvisional ==
  \A s \in Symbols : \A d \in DOMAIN bars[s] :
    ~bars[s][d].final => d = Max(DOMAIN bars[s])

(* An equity curve served from the cache is the one a rebuild would give:  *)
(* no bar and no transaction it has not seen is older than the last bump.  *)
(* (A snapshot row bumps nothing: the fallback curve is the exception.)    *)
HistoryCurrent ==
  LET curve == Curve(log["live"])
  IN (Hit /\ ~unannounced /\ silent = {} /\ curve.from = "candles")
     => hist.value = curve

(* The cache keeps its shape, its days and its final bars.                 *)
CacheSound == TypeOK /\ NoHoles /\ OnlyNewestProvisional
=============================================================================
