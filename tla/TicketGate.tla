------------------------------ MODULE TicketGate ------------------------------
(***************************************************************************)
(* The gate every ticket passes before it becomes an order: submit_order's *)
(* critical section (trading.rs) with the guardrails of check_ticket       *)
(* (orders.rs), and the pause switch with its persisted setting.           *)
(*                                                                         *)
(* Tickets are for one share of one symbol, traded in one broker mode; the *)
(* log the guardrails judge holds that mode's broker fills only.  The      *)
(* guardrails read the log and write the order row under the mutations     *)
(* lock; fills and deletions take the same lock, orders placed elsewhere,  *)
(* the pause switch, the clock and the broker do not.                      *)
(***************************************************************************)
EXTENDS Integers, Sequences, FiniteSets, SequencesExt

CONSTANTS
    Buys, Sells,      \* tickets submitted here
    OtherBuys, OtherSells,  \* orders placed in the broker's own UI
    MaxOrders,        \* Guardrails.max_orders_per_day
    MaxLoss,          \* Guardrails.max_daily_loss, in losing sells; 0 disables
    Rooms,            \* shares an equity may allow; 0: equity not positive
    NumRequests,      \* pause and resume requests, in the order they are sent
    Overlapping,      \* may one be sent before the last was answered?
    None,             \* model value
    MaxDay,           \* bound: midnights
    MaxDeletes,       \* bound: transactions the user deletes
    MaxCrashes        \* bound: crashes

Own     == Buys \cup Sells
Others  == OtherBuys \cup OtherSells
Tickets == Own \cup Others
AllBuys == Buys \cup OtherBuys
Requests == 1 .. NumRequests
Requested == [stage : {"sent", "saved", "done", "gone"}, pause : BOOLEAN]

ASSUME GateAssumption ==
    /\ IsFiniteSet(Tickets)
    /\ Buys \cap Sells = {} /\ OtherBuys \cap OtherSells = {} /\ Own \cap Others = {}
    /\ {MaxOrders, MaxLoss, NumRequests, MaxDay, MaxDeletes, MaxCrashes} \subseteq Nat
    /\ Rooms \subseteq Nat /\ Rooms # {} /\ Overlapping \in BOOLEAN
    /\ None \notin Tickets \cup (0 .. MaxDay) /\ None \notin Requested

VARIABLES
    at,        \* where the handler of each own ticket is
    view,      \* the log its lock section read
    room,      \* shares the equity it was given allows
    lock,      \* the ticket whose handler holds AppState.mutations, or None
    rowDay,    \* the day each order row was written, None without a row
    execs,     \* executions at the broker, in execution order
    execDay, pnl,  \* day and realized result of each
    ingested,  \* tickets whose execution is in the fills table
    log,       \* ... and whose transaction is (still) in the log
    day,
    paused,    \* TradingState.paused
    saved,     \* the "trading.paused" setting
    req,       \* where each pause request is, and what it asks
    deletes, crashes

ticketVars == <<at, view, room>>
brokerVars == <<execs, execDay, pnl>>
logVars    == <<ingested, log>>
pauseVars  == <<paused, saved, req>>
vars == <<ticketVars, lock, rowDay, brokerVars, logVars, day, pauseVars, deletes, crashes>>

TypeOK ==
    /\ at \in [Own -> {"idle", "judging", "passed", "done"}]
    /\ view \in [Own -> SUBSET Tickets]
    /\ room \in [Own -> Rooms \cup {0}]
    /\ lock \in Own \cup {None}
    /\ \A t \in Own : at[t] \in {"judging", "passed"} <=> lock = t
    /\ rowDay \in [Tickets -> (0 .. MaxDay) \cup {None}]
    /\ ToSet(execs) \subseteq {t \in Tickets : rowDay[t] # None \/ t \in Others}
    /\ IsInjective(execs)
    /\ execDay \in [Tickets -> 0 .. MaxDay]
    /\ pnl \in [Tickets -> {-1, 0, 1}]
    /\ log \subseteq ingested /\ ingested \subseteq ToSet(execs)
    /\ day \in 0 .. MaxDay
    /\ paused \in BOOLEAN /\ saved \in BOOLEAN
    /\ req \in [Requests -> Requested \cup {None}]
    /\ deletes \in 0 .. MaxDeletes /\ crashes \in 0 .. MaxCrashes

Init ==
    /\ at = [t \in Own |-> "idle"]
    /\ view = [t \in Own |-> {}]
    /\ room = [t \in Own |-> 0]
    /\ lock = None
    /\ rowDay = [t \in Tickets |-> None]
    /\ execs = <<>>
    /\ execDay = [t \in Tickets |-> 0]
    /\ pnl = [t \in Tickets |-> 0]
    /\ ingested = {} /\ log = {}
    /\ day = 0
    /\ paused = FALSE /\ saved = FALSE
    /\ req = [r \in Requests |-> None]
    /\ deletes = 0 /\ crashes = 0
-------------------------------------------------------------------------------
(* What compute_basis makes of a set of transactions, replayed in the order *)
(* of their execution.                                                      *)

Held(txs) == Cardinality(txs \cap AllBuys) - Cardinality(txs \ AllBuys)

UpTo(n, txs) == txs \cap {execs[i] : i \in 1 .. n}

(* No sell finds fewer shares than it sells (PortfolioError::Oversell).     *)
Consistent(txs) == \A n \in 1 .. Len(execs) : Held(UpTo(n, txs)) >= 0

(* Sales since midnight, winning ones less losing ones.                     *)
SoldToday(txs) == {t \in txs \ AllBuys : execDay[t] >= day}

RealizedToday(txs) ==
    Cardinality({t \in SoldToday(txs) : pnl[t] = 1})
        - Cardinality({t \in SoldToday(txs) : pnl[t] = -1})

OrdersToday == Cardinality({t \in Tickets : rowDay[t] = day})

(* check_ticket, on a log and the shares the equity allows.  Its rules on   *)
(* shape, price and notional speak of one ticket alone: see Abandon.        *)
Breaker(txs)    == MaxLoss > 0 /\ RealizedToday(txs) <= -MaxLoss
LongOnly(txs)   == Held(txs) >= 1
Fits(txs, most) == most = 0 \/ Held(txs) + 1 <= most

Allowed(t, txs, most) ==
    IF t \in Buys THEN ~Breaker(txs) /\ Fits(txs, most) ELSE LongOnly(txs)
-------------------------------------------------------------------------------
(* Tickets *)

(* The lock is taken and the log read; a log that does not replay is a 409. *)
(* Variant: the log read before the lock is taken.                          *)
EnterUnlocked(t) ==
    /\ at[t] = "idle" /\ rowDay[t] = None
    /\ Consistent(log)
    /\ lock' = t
    /\ at' = [at EXCEPT ![t] = "judging"]
    /\ view' = [view EXCEPT ![t] = log]
    /\ \E n \in Rooms : room' = [room EXCEPT ![t] = n]
    /\ UNCHANGED <<rowDay, brokerVars, logVars, day, pauseVars, deletes, crashes>>

Enter(t) ==
    /\ at[t] = "idle"
    /\ rowDay[t] = None
    /\ lock = None
    /\ Consistent(log)
    /\ lock' = t
    /\ at' = [at EXCEPT ![t] = "judging"]
    /\ view' = [view EXCEPT ![t] = log]
    /\ \E n \in Rooms : room' = [room EXCEPT ![t] = n]
    /\ UNCHANGED <<rowDay, brokerVars, logVars, day, pauseVars, deletes, crashes>>

(* Today's orders are counted and check_ticket finds no violation.          *)
Pass(t) ==
    /\ at[t] = "judging"
    /\ ~paused
    /\ OrdersToday < MaxOrders
    /\ Allowed(t, view[t], room[t])
    /\ at' = [at EXCEPT ![t] = "passed"]
    /\ UNCHANGED <<view, room, lock, rowDay, brokerVars, logVars, day, pauseVars,
                   deletes, crashes>>

(* insert_pending_order commits and the lock is released.                   *)
Insert(t) ==
    /\ at[t] = "passed"
    /\ at' = [at EXCEPT ![t] = "done"]
    /\ rowDay' = [rowDay EXCEPT ![t] = day]
    /\ lock' = None
    /\ view' = [view EXCEPT ![t] = {}]
    /\ room' = [room EXCEPT ![t] = 0]
    /\ UNCHANGED <<brokerVars, logVars, day, pauseVars, deletes, crashes>>

(* A rule is violated, a statement fails or the client hangs up: no row is  *)
(* written, the lock is released, and the ticket may be tried again.        *)
Abandon(t) ==
    /\ at[t] \in {"judging", "passed"}
    /\ at' = [at EXCEPT ![t] = "idle"]
    /\ lock' = None
    /\ view' = [view EXCEPT ![t] = {}]
    /\ room' = [room EXCEPT ![t] = 0]
    /\ UNCHANGED <<rowDay, brokerVars, logVars, day, pauseVars, deletes, crashes>>
-------------------------------------------------------------------------------
(* Orders and fills *)

(* A share changes hands at the broker; a sale realizes some result.        *)
Execute(t) ==
    /\ t \in Own => rowDay[t] # None
    /\ t \notin ToSet(execs)
    /\ execs' = Append(execs, t)
    /\ execDay' = [execDay EXCEPT ![t] = day]
    /\ \E gain \in IF t \in AllBuys THEN {0} ELSE {-1, 1} :
          pnl' = [pnl EXCEPT ![t] = gain]
    /\ UNCHANGED <<ticketVars, lock, rowDay, logVars, day, pauseVars, deletes, crashes>>

(* Reconciliation materializes an order placed elsewhere, stamped now.      *)
Materialize(t) ==
    /\ t \in Others
    /\ rowDay[t] = None
    /\ rowDay' = [rowDay EXCEPT ![t] = day]
    /\ UNCHANGED <<ticketVars, lock, brokerVars, logVars, day, pauseVars, deletes, crashes>>

(* ingest_execution, by the stream consumer or the backfill, once per fill. *)
(* Variant: without the mutations lock.                                     *)
IngestUnlocked(t) ==
    /\ rowDay[t] # None /\ t \in ToSet(execs) \ ingested
    /\ ingested' = ingested \cup {t}
    /\ log' = log \cup {t}
    /\ UNCHANGED <<ticketVars, lock, rowDay, brokerVars, day, pauseVars, deletes, crashes>>

Ingest(t) ==
    /\ lock = None
    /\ rowDay[t] # None
    /\ t \in ToSet(execs) \ ingested
    /\ ingested' = ingested \cup {t}
    /\ log' = log \cup {t}
    /\ UNCHANGED <<ticketVars, lock, rowDay, brokerVars, day, pauseVars, deletes, crashes>>

(* delete_tx, of any transaction and without a look at the rest of the log. *)
DeleteTx(t) ==
    /\ lock = None
    /\ deletes < MaxDeletes
    /\ t \in log
    /\ log' = log \ {t}
    /\ deletes' = deletes + 1
    /\ UNCHANGED <<ticketVars, lock, rowDay, brokerVars, ingested, day, pauseVars, crashes>>

Midnight ==
    /\ day < MaxDay
    /\ day' = day + 1
    /\ UNCHANGED <<ticketVars, lock, rowDay, brokerVars, logVars, pauseVars, deletes,
                   crashes>>
-------------------------------------------------------------------------------
(* The pause switch: set_paused writes the setting, then the flag.          *)

InFlight(r) == req[r] # None /\ req[r].stage \in {"sent", "saved"}

AskPause(r) ==
    /\ req[r] = None
    /\ \A q \in 1 .. r - 1 : req[q] # None /\ (Overlapping \/ ~InFlight(q))
    /\ \E p \in BOOLEAN : req' = [req EXCEPT ![r] = [stage |-> "sent", pause |-> p]]
    /\ UNCHANGED <<ticketVars, lock, rowDay, brokerVars, logVars, day, paused, saved,
                   deletes, crashes>>

(* The client may hang up meanwhile: the statement runs, the handler ends.  *)
SavePause(r) ==
    /\ req[r] # None /\ req[r].stage = "sent"
    /\ saved' = req[r].pause
    /\ \E s \in {"saved", "gone"} : req' = [req EXCEPT ![r].stage = s]
    /\ UNCHANGED <<ticketVars, lock, rowDay, brokerVars, logVars, day, paused, deletes,
                   crashes>>

StorePause(r) ==
    /\ req[r] # None /\ req[r].stage = "saved"
    /\ paused' = req[r].pause
    /\ req' = [req EXCEPT ![r].stage = "done"]
    /\ UNCHANGED <<ticketVars, lock, rowDay, brokerVars, logVars, day, saved, deletes,
                   crashes>>

(* The process dies and boots; load_persisted restores the flag.            *)
(* Variant: it does not.                                                    *)
CrashForgets ==
    /\ crashes < MaxCrashes
    /\ crashes' = crashes + 1
    /\ at' = [t \in Own |-> IF at[t] = "done" THEN "done" ELSE "idle"]
    /\ view' = [t \in Own |-> {}] /\ room' = [t \in Own |-> 0]
    /\ lock' = None
    /\ paused' = FALSE
    /\ req' = [r \in Requests |-> IF InFlight(r) THEN [req[r] EXCEPT !.stage = "gone"]
                                  ELSE req[r]]
    /\ UNCHANGED <<rowDay, brokerVars, logVars, day, saved, deletes>>

Crash ==
    /\ crashes < MaxCrashes
    /\ crashes' = crashes + 1
    /\ at' = [t \in Own |-> IF at[t] = "done" THEN "done" ELSE "idle"]
    /\ view' = [t \in Own |-> {}] /\ room' = [t \in Own |-> 0]
    /\ lock' = None
    /\ paused' = saved
    /\ req' = [r \in Requests |-> IF InFlight(r) THEN [req[r] EXCEPT !.stage = "gone"]
                                  ELSE req[r]]
    /\ UNCHANGED <<rowDay, brokerVars, logVars, day, saved, deletes>>

Next ==
    \/ \E t \in Own : Enter(t) \/ Pass(t) \/ Insert(t) \/ Abandon(t)
    \/ \E t \in Tickets : Execute(t) \/ Materialize(t) \/ Ingest(t) \/ DeleteTx(t)
    \/ \E r \in Requests : AskPause(r) \/ SavePause(r) \/ StorePause(r)
    \/ Midnight \/ Crash

Spec == Init /\ [][Next]_vars
-------------------------------------------------------------------------------
(* No day sees more orders of ours than the cap, whatever handlers run at   *)
(* once, wherever midnight falls and whatever restarts (check_ticket's      *)
(* DailyCap over orders_today, judged before the row is written).           *)
DailyCap ==
    \A d \in 0 .. MaxDay : Cardinality({t \in Own : rowDay[t] = d}) <= MaxOrders

(* The cap holds, and what enforces it: the lock has one owner, a ticket    *)
(* between its judgement and its row.                                       *)
CapHolds == TypeOK /\ DailyCap

(* When an order row is written, the guardrails hold on the log as it is at *)
(* that moment, not only on the one its handler read some awaits before.    *)
JudgedOnCurrentLog ==
    [][\A t \in Own : rowDay[t] = None /\ rowDay'[t] # None
            => Consistent(log) /\ Allowed(t, log, room[t])]_vars

(* An acknowledged pause is in force, and in the database for the next      *)
(* boot, until a later request resumes (set_paused: persisted first;        *)
(* load_persisted) - for requests sent one at a time.                       *)
PauseHolds ==
    \A r \in Requests :
        /\ req[r] # None /\ req[r].stage = "done" /\ req[r].pause
        /\ \A q \in r + 1 .. NumRequests : req[q] = None \/ req[q].pause
        => paused /\ saved
===============================================================================
