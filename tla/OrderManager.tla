----------------------------- MODULE OrderManager -----------------------------
(***************************************************************************)
(* The order manager of rekt-server (trading.rs) against a broker reached  *)
(* over HTTP and a trade_updates websocket (rekt-broker).                  *)
(*                                                                         *)
(* Processes: one HTTP handler per submitted ticket, cancel and kill-      *)
(* switch handlers, the serial stream consumer, one reconciliation pass at *)
(* a time (started by the consumer or by the timer), and the broker.       *)
(* Atomic steps are the SQL statements and transactions, the broker's own  *)
(* state changes, and the sends and arrivals of requests between them.     *)
(*                                                                         *)
(* An order of quantity MaxQty fills one unit at a time; the k-th          *)
(* execution of order o is <<o, k>>.  The stream reports it under an       *)
(* execution_id, the account activities under an id of their own; the code *)
(* compares the two as they come.  Guardrails (TicketGate) decide which    *)
(* tickets are persisted; here any ticket may be.                          *)
(***************************************************************************)
EXTENDS Naturals, Sequences, FiniteSets

CONSTANTS
    Own,         \* client ids this server mints ("rekt-..."): one ticket each
    Ext,         \* client ids of orders placed in the broker's own UI
    MaxQty,      \* size of every order, in unit executions
    Closing,     \* the statuses a broker closes an unfilled order with
    OneId,       \* does the broker give an execution one id in both places?
    Overlap,     \* hours the backfill cursor reaches back behind the last fill
    Nothing,     \* "no snapshot": model value
    Suspends,    \* does the broker show a cancellation before it takes effect?
    BrokerFaults,\* may broker calls time out or fail?
    DbFaults,    \* may a SQL statement of a handler fail?
    MaxOrders,   \* bound: orders placed, here or at the broker
    MaxTime,     \* bound: hours that pass
    MaxCrashes,  \* bound: a crash happens after fewer breaks than this,
    MaxDrops,    \* bound: ... and a disconnection of the stream than this
    MaxStream    \* bound: undelivered stream events

Ids   == Own \cup Ext
Execs == Ids \X (1 .. MaxQty)

(* The ids an execution is booked under: TradeUpdate.execution_id, and      *)
(* AlpacaActivity.id, which nothing converts into the other.                *)
Feeds   == {"stream", "activity"}
ExecIds == Execs \X Feeds
StreamId(e)   == <<e, "stream">>
ActivityId(e) == <<e, IF OneId THEN "stream" ELSE "activity">>

Terminal == {"filled", "canceled", "rejected", "expired", "replaced", "failed"}
PreFill  == {"pending_submit", "submitted", "accepted"}
Open     == PreFill \cup {"partially_filled", "pending_cancel"}
Statuses == Open \cup Terminal

BrokerOpen     == {"accepted", "partially_filled", "pending_cancel"}
BrokerStatuses == BrokerOpen \cup {"filled"} \cup Closing

ASSUME OMAssumption ==
    /\ Own \cap Ext = {}
    /\ MaxQty \in Nat \ {0}
    /\ Closing \subseteq {"canceled", "rejected", "expired", "replaced"}
    /\ "canceled" \in Closing
    /\ {Overlap, MaxOrders, MaxTime, MaxCrashes, MaxDrops, MaxStream} \subseteq Nat
    /\ {OneId, Suspends, BrokerFaults, DbFaults} \subseteq BOOLEAN

(* The broker's description of an order, as the handlers receive it.        *)
Snapshots == [st : BrokerStatuses, qty : 0 .. MaxQty]

ASSUME NothingAssumption == Nothing \notin Snapshots \cup Ids

VARIABLES
    (* the database *)
    status,     \* orders.status, "none" when the row does not exist
    bid,        \* ids whose row has its broker_order_id
    qty,        \* orders.filled_qty
    fills,      \* execution ids in the fills table
    txs,        \* transactions mirroring each execution id
    (* the server's memory *)
    ready,      \* TradingState.ready
    sub,        \* the submit handler of each own order
    killing,    \* a cancel_all handler between broker call and UPDATE
    lock,       \* holder of AppState.mutations, "free" if none
    cpc, cev,   \* stream consumer: where it is, the execution it holds
    unseenOrders, unseenTxs,  \* a commit no revision bump has followed yet
    (* the reconciliation pass; rpc = "idle" iff reconcile_lock is free *)
    rpc, owner, listing, fresh, seen, pend, asked, answer, batch, anyNew,
    (* the broker and the network *)
    bstatus, bqty, execTs, now,
    wire,       \* submissions sent and not yet at the broker
    cancels,    \* cancellations sent and not yet at the broker
    stream, connected,
    (* bounds *)
    breaks      \* crashes and disconnections so far

dbVars     == <<status, bid, qty, fills, txs>>
rowVars    == <<status, bid, qty>>
fillVars   == <<fills, txs>>
memVars    == <<ready, sub, killing, lock, cpc, cev, unseenOrders, unseenTxs>>
passVars   == <<rpc, owner, listing, fresh, seen, pend, asked, answer, batch, anyNew>>
brokerVars == <<bstatus, bqty, execTs, now>>
netVars    == <<wire, cancels, stream, connected>>
boundVars  == <<breaks>>
vars == <<dbVars, memVars, passVars, brokerVars, netVars, boundVars>>

Connected == [kind |-> "connected"]
Update(o, s, k) == [kind |-> "update", o |-> o, snap |-> s, exec |-> k]
Events ==
    {Connected} \cup
    [kind : {"update"}, o : Ids, snap : Snapshots, exec : 0 .. MaxQty]

SubStates  == {"idle", "persisted", "waiting", "acked", "refused"}
PassStates == {"idle", "apply", "pending", "resolve", "ingest", "ingesting", "refresh",
               "finish"}

DbTypeOK ==
    /\ status \in [Ids -> Statuses \cup {"none"}]
    /\ bid \subseteq Ids
    /\ qty \in [Ids -> 0 .. MaxQty]
    /\ fills \subseteq ExecIds
    /\ txs \in [ExecIds -> Nat]

MemTypeOK ==
    /\ ready \in BOOLEAN /\ killing \in BOOLEAN
    /\ sub \in [Own -> SubStates]
    /\ lock \in {"free", "consumer", "reconcile"}
    /\ cpc \in {"idle", "ingest", "busy", "repair", "refresh"}
    /\ cpc = "ingest" => cev \in Execs
    /\ unseenOrders \in BOOLEAN /\ unseenTxs \in BOOLEAN

NoListing == [o \in Ids |-> Nothing]

PassTypeOK ==
    /\ rpc \in PassStates
    /\ owner \in {"timer", "consumer"}
    /\ listing \in [Ids -> Snapshots \cup {Nothing}]
    /\ rpc # "apply" => listing = NoListing
    /\ fresh \subseteq {x \in Ext : listing[x] # Nothing}
    /\ seen \subseteq Ids /\ pend \subseteq Ids
    /\ rpc = "resolve" => asked \in Ids
    /\ answer \in Snapshots \cup {Nothing}
    /\ batch \subseteq Execs
    /\ anyNew \in BOOLEAN

BrokerTypeOK ==
    /\ bstatus \in [Ids -> BrokerStatuses \cup {"none"}]
    /\ bqty \in [Ids -> 0 .. MaxQty]
    /\ execTs \in [Execs -> 0 .. MaxTime]
    /\ now \in 0 .. MaxTime

NetTypeOK ==
    /\ wire \subseteq Own
    /\ cancels \subseteq Ids
    /\ stream \in Seq(Events)
    /\ connected \in BOOLEAN
    /\ breaks \in Nat

TypeOK == DbTypeOK /\ MemTypeOK /\ PassTypeOK /\ BrokerTypeOK /\ NetTypeOK
-------------------------------------------------------------------------------
(* The pass's local variables, empty between passes.                        *)
NoPass ==
    /\ rpc = "idle" /\ owner = "timer" /\ listing = NoListing
    /\ fresh = {} /\ seen = {} /\ pend = {}
    /\ asked = Nothing /\ answer = Nothing /\ batch = {} /\ anyNew = FALSE

Init ==
    /\ status = [o \in Ids |-> "none"]
    /\ bid = {}
    /\ qty = [o \in Ids |-> 0]
    /\ fills = {}
    /\ txs = [id \in ExecIds |-> 0]
    /\ ready = FALSE /\ killing = FALSE
    /\ sub = [o \in Own |-> "idle"]
    /\ lock = "free"
    /\ cpc = "idle" /\ cev = Nothing
    /\ unseenOrders = FALSE /\ unseenTxs = FALSE
    /\ NoPass
    /\ bstatus = [o \in Ids |-> "none"]
    /\ bqty = [o \in Ids |-> 0]
    /\ execTs = [e \in Execs |-> 0]
    /\ now = 0
    /\ wire = {} /\ cancels = {}
    /\ stream = <<>> /\ connected = FALSE
    /\ breaks = 0
MayPlace == Cardinality({o \in Ids : status[o] # "none" \/ bstatus[o] # "none"}) < MaxOrders
-------------------------------------------------------------------------------
(* SQL statements *)

(* apply_broker_order's WHERE clause.                                       *)
(* Variants: a clause of it forgotten, or a row in cancellation skipped.     *)
CanApplyTerminal(o, s) ==
    /\ status[o] # "none"
    /\ ~(status[o] = "partially_filled" /\ s.st \in PreFill)

CanApplyRegressing(o, s) == status[o] \notin Terminal \cup {"none"}

CanApplyUnlessCanceling(o, s) ==
    /\ status[o] \notin Terminal \cup {"none", "pending_cancel"}
    /\ ~(status[o] = "partially_filled" /\ s.st \in PreFill)

CanApply(o, s) ==
    /\ status[o] \notin Terminal \cup {"none"}
    /\ ~(status[o] = "partially_filled" /\ s.st \in PreFill)

(* Variant: the broker's cumulative quantity taken for an increment.        *)
ApplyIncrement(o, s) ==
    IF CanApply(o, s)
    THEN /\ status' = [status EXCEPT ![o] = s.st]
         /\ bid' = bid \cup {o}
         /\ qty' = [qty EXCEPT ![o] = @ + s.qty]
    ELSE UNCHANGED rowVars

ApplyBrokerOrder(o, s) ==
    IF CanApply(o, s)
    THEN /\ status' = [status EXCEPT ![o] = s.st]
         /\ bid' = bid \cup {o}
         /\ qty' = [qty EXCEPT ![o] = s.qty]
    ELSE UNCHANGED rowVars

(* ingest_execution: the order is found by its broker id; the fills row and *)
(* its mirrored transaction commit together, once per execution id.         *)
(* Variant: INSERT without OR IGNORE and the UNIQUE execution_id.           *)
IsNewEachTime(id) == id[1][1] \in bid

IsNew(id) == id[1][1] \in bid /\ id \notin fills

IngestExecution(id) ==
    IF IsNew(id)
    THEN /\ fills' = fills \cup {id}
         /\ txs' = [txs EXCEPT ![id] = @ + 1]
    ELSE UNCHANGED fillVars

BumpOrders == unseenOrders' = FALSE
Committed(changed) == unseenOrders' = (unseenOrders \/ changed)
-------------------------------------------------------------------------------
(* The broker *)

Snapshot(o) == [st |-> bstatus[o], qty |-> bqty[o]]

Present == {o \in Ids : bstatus[o] # "none"}

(* A change at the broker is pushed on the stream, if one is connected.     *)
Push(event) ==
    IF connected
    THEN Len(stream) < MaxStream /\ stream' = Append(stream, event)
    ELSE UNCHANGED stream

(* A submission arrives and is accepted; its response carries the new order.*)
BrokerAccept(o) ==
    /\ o \in wire
    /\ bstatus[o] = "none"
    /\ wire' = wire \ {o}
    /\ bstatus' = [bstatus EXCEPT ![o] = "accepted"]
    /\ Push(Update(o, [st |-> "accepted", qty |-> 0], 0))
    /\ sub' = IF sub[o] = "waiting" THEN [sub EXCEPT ![o] = "acked"] ELSE sub
    /\ UNCHANGED <<dbVars, ready, killing, lock, cpc, cev, unseenOrders, unseenTxs,
                   passVars, bqty, execTs, now, cancels, connected, boundVars>>

(* ... or answered 422/403.                                                 *)
BrokerRefuse(o) ==
    /\ o \in wire
    /\ wire' = wire \ {o}
    /\ sub' = IF sub[o] = "waiting" THEN [sub EXCEPT ![o] = "refused"] ELSE sub
    /\ UNCHANGED <<dbVars, ready, killing, lock, cpc, cev, unseenOrders, unseenTxs,
                   passVars, brokerVars, cancels, stream, connected, boundVars>>

(* ... or never arrives.                                                    *)
WireLost(o) ==
    /\ BrokerFaults
    /\ o \in wire
    /\ wire' = wire \ {o}
    /\ UNCHANGED <<dbVars, memVars, passVars, brokerVars, cancels, stream, connected,
                   boundVars>>

ExternalPlace(x) ==
    /\ x \in Ext
    /\ bstatus[x] = "none" /\ MayPlace
    /\ bstatus' = [bstatus EXCEPT ![x] = "accepted"]
    /\ Push(Update(x, [st |-> "accepted", qty |-> 0], 0))
    /\ UNCHANGED <<dbVars, memVars, passVars, bqty, execTs, now, wire, cancels,
                   connected, boundVars>>

BrokerFill(o) ==
    /\ bstatus[o] \in BrokerOpen
    /\ bqty[o] < MaxQty
    /\ LET k == bqty[o] + 1
           s == IF k = MaxQty THEN "filled"
                ELSE IF bstatus[o] = "pending_cancel" THEN "pending_cancel"
                ELSE "partially_filled"
       IN /\ bstatus' = [bstatus EXCEPT ![o] = s]
          /\ bqty' = [bqty EXCEPT ![o] = k]
          /\ execTs' = [execTs EXCEPT ![<<o, k>>] = now]
          /\ Push(Update(o, [st |-> s, qty |-> k], k))
    /\ UNCHANGED <<dbVars, memVars, passVars, now, wire, cancels, connected, boundVars>>

(* An open order ends unfilled: expiry, a venue's cancel, a replacement.    *)
BrokerClose(o) ==
    /\ bstatus[o] \in BrokerOpen
    /\ \E s \in Closing :
          /\ bstatus' = [bstatus EXCEPT ![o] = s]
          /\ Push(Update(o, [st |-> s, qty |-> bqty[o]], 0))
    /\ UNCHANGED <<dbVars, memVars, passVars, bqty, execTs, now, wire, cancels,
                   connected, boundVars>>

(* A cancellation or replacement (pending_replace maps to pending_cancel)   *)
(* is taken on, at our request or from the broker's UI.                     *)
BrokerCanceling(o) ==
    /\ Suspends
    /\ bstatus[o] \in {"accepted", "partially_filled"}
    /\ cancels' = cancels \cup {o}
    /\ bstatus' = [bstatus EXCEPT ![o] = "pending_cancel"]
    /\ Push(Update(o, [st |-> "pending_cancel", qty |-> bqty[o]], 0))
    /\ UNCHANGED <<dbVars, memVars, passVars, bqty, execTs, now, wire, connected,
                   boundVars>>

(* A cancellation takes effect on an order that is still open.              *)
BrokerCancel(o) ==
    /\ o \in cancels
    /\ cancels' = cancels \ {o}
    /\ IF bstatus[o] \in BrokerOpen
       THEN /\ bstatus' = [bstatus EXCEPT ![o] = "canceled"]
            /\ Push(Update(o, [st |-> "canceled", qty |-> bqty[o]], 0))
       ELSE UNCHANGED <<bstatus, stream>>
    /\ UNCHANGED <<dbVars, memVars, passVars, bqty, execTs, now, wire, connected,
                   boundVars>>

(* A call to the broker times out after 15 s: no hour passes within a pass. *)
HourPasses ==
    /\ now < MaxTime
    /\ rpc = "idle"
    /\ now' = now + 1
    /\ UNCHANGED <<dbVars, memVars, passVars, bstatus, bqty, execTs, netVars, boundVars>>
-------------------------------------------------------------------------------
(* Submission *)

(* Guardrails and the persisted intent, under the mutations lock.           *)
(* Variant: the request leaves before the intent is committed.              *)
SendBeforePersist(o) ==
    /\ ready /\ lock = "free" /\ sub[o] = "idle" /\ status[o] = "none" /\ MayPlace
    /\ wire' = wire \cup {o}
    /\ sub' = [sub EXCEPT ![o] = "persisted"]
    /\ UNCHANGED <<dbVars, ready, killing, lock, cpc, cev, unseenOrders, unseenTxs,
                   passVars, brokerVars, cancels, stream, connected, boundVars>>

Persist(o) ==
    /\ ready
    /\ lock = "free"
    /\ sub[o] = "idle"
    /\ status[o] = "none" /\ MayPlace
    /\ status' = [status EXCEPT ![o] = "pending_submit"]
    /\ sub' = [sub EXCEPT ![o] = "persisted"]
    /\ Committed(TRUE)
    /\ UNCHANGED <<bid, qty, fillVars, ready, killing, lock, cpc, cev, unseenTxs,
                   passVars, brokerVars, netVars, boundVars>>

(* Lock released, orders revision bumped, the request goes out.             *)
Send(o) ==
    /\ sub[o] = "persisted"
    /\ sub' = [sub EXCEPT ![o] = "waiting"]
    /\ wire' = wire \cup {o}
    /\ BumpOrders
    /\ UNCHANGED <<dbVars, ready, killing, lock, cpc, cev, unseenTxs, passVars,
                   brokerVars, cancels, stream, connected, boundVars>>

SubmitAccepted(o) ==
    /\ sub[o] = "acked"
    /\ sub' = [sub EXCEPT ![o] = "idle"]
    /\ ApplyBrokerOrder(o, [st |-> "accepted", qty |-> 0])
    /\ BumpOrders
    /\ UNCHANGED <<fillVars, ready, killing, lock, cpc, cev, unseenTxs, passVars,
                   brokerVars, netVars, boundVars>>

SubmitRejected(o) ==
    /\ sub[o] = "refused"
    /\ sub' = [sub EXCEPT ![o] = "idle"]
    /\ status' = IF status[o] = "pending_submit"
                 THEN [status EXCEPT ![o] = "rejected"] ELSE status
    /\ BumpOrders
    /\ UNCHANGED <<bid, qty, fillVars, ready, killing, lock, cpc, cev, unseenTxs,
                   passVars, brokerVars, netVars, boundVars>>

(* Timeout, 5xx, or the client hung up and the handler is dropped at its    *)
(* await: the row stays pending_submit, wherever the request is.            *)
(* Variant: an unknown outcome handled as a rejection.                      *)
SubmitUnknownRejects(o) ==
    /\ sub[o] \in {"waiting", "acked", "refused"}
    /\ sub' = [sub EXCEPT ![o] = "idle"]
    /\ status' = IF status[o] = "pending_submit"
                 THEN [status EXCEPT ![o] = "rejected"] ELSE status
    /\ BumpOrders
    /\ UNCHANGED <<bid, qty, fillVars, ready, killing, lock, cpc, cev, unseenTxs,
                   passVars, brokerVars, netVars, boundVars>>

SubmitUnknown(o) ==
    /\ sub[o] \in {"waiting", "acked", "refused"}
    /\ sub' = [sub EXCEPT ![o] = "idle"]
    /\ UNCHANGED <<dbVars, ready, killing, lock, cpc, cev, unseenOrders, unseenTxs,
                   passVars, brokerVars, netVars, boundVars>>
-------------------------------------------------------------------------------
(* Cancellation *)

(* The row is marked first; the request may then fail to leave.             *)
CancelOrder(o) ==
    /\ status[o] \notin Terminal \cup {"none"}
    /\ o \in bid
    /\ status' = [status EXCEPT ![o] = "pending_cancel"]
    /\ cancels' \in {cancels, cancels \cup {o}}
    /\ BumpOrders
    /\ UNCHANGED <<bid, qty, fillVars, ready, sub, killing, lock, cpc, cev, unseenTxs,
                   passVars, brokerVars, wire, stream, connected, boundVars>>

(* cancel_all: the broker is told first; an error, or a client that hangs   *)
(* up, ends the handler there although the broker acted ...                 *)
KillSwitch ==
    /\ ~killing
    /\ killing' \in BOOLEAN
    /\ cancels' = cancels \cup {o \in Ids : bstatus[o] \in BrokerOpen}
    /\ UNCHANGED <<dbVars, ready, sub, lock, cpc, cev, unseenOrders, unseenTxs,
                   passVars, brokerVars, wire, stream, connected, boundVars>>

(* ... and the local rows are marked when it has answered.                  *)
KillMark ==
    /\ killing
    /\ killing' = FALSE
    /\ status' = [o \in Ids |->
                    IF status[o] \in {"submitted", "accepted", "partially_filled"}
                    THEN "pending_cancel" ELSE status[o]]
    /\ BumpOrders
    /\ UNCHANGED <<bid, qty, fillVars, ready, sub, lock, cpc, cev, unseenTxs, passVars,
                   brokerVars, netVars, boundVars>>
-------------------------------------------------------------------------------
(* Reconciliation *)

(* try_lock succeeded and the mass status answered, or failed.              *)
BeginPass(who) ==
    /\ rpc = "idle"
    /\ rpc' = "apply"
    /\ owner' = who
    /\ \/ /\ listing' = [o \in Ids |-> IF o \in Present THEN Snapshot(o) ELSE Nothing]
          /\ seen' = Present
       \/ /\ BrokerFaults
          /\ listing' = NoListing
          /\ seen' = {}
    /\ UNCHANGED <<fresh, pend, asked, answer, batch, anyNew>>

TimerReconcile ==
    /\ BeginPass("timer")
    /\ UNCHANGED <<dbVars, memVars, brokerVars, netVars, boundVars>>

(* Step 1: one listed order at a time.  Ours are applied ...                *)
ReconcileOwn(o) ==
    /\ rpc = "apply"
    /\ o \in Own
    /\ listing[o] # Nothing
    /\ listing' = [listing EXCEPT ![o] = Nothing]
    /\ ApplyBrokerOrder(o, listing[o])
    /\ Committed(CanApply(o, listing[o]))
    /\ UNCHANGED <<fillVars, ready, sub, killing, lock, cpc, cev, unseenTxs,
                   rpc, owner, fresh, seen, pend, asked, answer, batch, anyNew,
                   brokerVars, netVars, boundVars>>

(* ... others are inserted when unknown (filled_qty at its default, 0) ...  *)
MaterializeExternal(x) ==
    /\ rpc = "apply"
    /\ x \in Ext \ fresh
    /\ listing[x] # Nothing
    /\ IF status[x] = "none"
       THEN /\ status' = [status EXCEPT ![x] = listing[x].st]
            /\ bid' = bid \cup {x}
            /\ fresh' = fresh \cup {x}
            /\ UNCHANGED listing
       ELSE /\ listing' = [listing EXCEPT ![x] = Nothing]
            /\ UNCHANGED <<status, bid, fresh>>
    /\ Committed(status[x] = "none")
    /\ UNCHANGED <<qty, fillVars, ready, sub, killing, lock, cpc, cev, unseenTxs,
                   rpc, owner, seen, pend, asked, answer, batch, anyNew,
                   brokerVars, netVars, boundVars>>

(* ... and applied only in the pass that inserted them.                     *)
ReconcileFresh(x) ==
    /\ rpc = "apply"
    /\ x \in fresh
    /\ fresh' = fresh \ {x}
    /\ listing' = [listing EXCEPT ![x] = Nothing]
    /\ ApplyBrokerOrder(x, listing[x])
    /\ Committed(CanApply(x, listing[x]))
    /\ UNCHANGED <<fillVars, ready, sub, killing, lock, cpc, cev, unseenTxs,
                   rpc, owner, seen, pend, asked, answer, batch, anyNew,
                   brokerVars, netVars, boundVars>>

(* Step 2: the pending_submit rows the mass status did not mention.         *)
SelectPending ==
    /\ rpc = "apply"
    /\ listing = NoListing
    /\ rpc' = "pending"
    /\ pend' = {o \in Ids : status[o] = "pending_submit"} \ seen
    /\ seen' = {}
    /\ UNCHANGED <<dbVars, memVars, owner, listing, fresh, asked, answer, batch,
                   anyNew, brokerVars, netVars, boundVars>>

AskBroker(o) ==
    /\ rpc = "pending"
    /\ o \in pend
    /\ pend' = pend \ {o}
    /\ \/ /\ rpc' = "resolve"
          /\ asked' = o
          /\ answer' = IF o \in Present THEN Snapshot(o) ELSE Nothing
       \/ /\ BrokerFaults
          /\ UNCHANGED <<rpc, asked, answer>>
    /\ UNCHANGED <<dbVars, memVars, owner, listing, fresh, seen, batch, anyNew,
                   brokerVars, netVars, boundVars>>

(* Some(order) is applied; None marks a row that is still pending failed.   *)
(* Variant: None leaves the row as it is.                                    *)
ResolveOnlyFound ==
    /\ rpc = "resolve"
    /\ rpc' = "pending"
    /\ asked' = Nothing
    /\ answer' = Nothing
    /\ IF answer # Nothing
       THEN ApplyBrokerOrder(asked, answer) /\ Committed(CanApply(asked, answer))
       ELSE UNCHANGED <<rowVars, unseenOrders>>
    /\ UNCHANGED <<fillVars, ready, sub, killing, lock, cpc, cev, unseenTxs,
                   owner, listing, fresh, seen, pend, batch, anyNew,
                   brokerVars, netVars, boundVars>>

ResolvePending ==
    /\ rpc = "resolve"
    /\ rpc' = "pending"
    /\ asked' = Nothing
    /\ answer' = Nothing
    /\ IF answer # Nothing
       THEN ApplyBrokerOrder(asked, answer) /\ Committed(CanApply(asked, answer))
       ELSE /\ status' = IF status[asked] = "pending_submit"
                         THEN [status EXCEPT ![asked] = "failed"] ELSE status
            /\ Committed(status[asked] = "pending_submit")
            /\ UNCHANGED <<bid, qty>>
    /\ UNCHANGED <<fillVars, ready, sub, killing, lock, cpc, cev, unseenTxs,
                   owner, listing, fresh, seen, pend, batch, anyNew,
                   brokerVars, netVars, boundVars>>

(* Step 3: executions strictly after the newest ingested fill minus the     *)
(* overlap; all of them when nothing was ingested yet.                      *)
Executed == {e \in Execs : e[2] <= bqty[e[1]]}

(* Variant: an exclusive cursor with no overlap.                            *)
AfterLastFill(e) == \A id \in fills : execTs[e] > execTs[id[1]]

AfterCursor(e) == \A id \in fills : execTs[e] + Overlap > execTs[id[1]]

FetchExecutions ==
    /\ rpc = "pending"
    /\ pend = {}
    /\ \/ /\ batch' = {e \in Executed : AfterCursor(e)}
          /\ rpc' = "ingest"
       \/ /\ BrokerFaults
          /\ rpc' = "finish"
          /\ UNCHANGED batch
    /\ UNCHANGED <<dbVars, memVars, owner, listing, fresh, seen, pend, asked, answer,
                   anyNew, brokerVars, netVars, boundVars>>

LockForIngest ==
    /\ rpc = "ingest"
    /\ lock = "free"
    /\ lock' = "reconcile"
    /\ rpc' = "ingesting"
    /\ UNCHANGED <<dbVars, ready, sub, killing, cpc, cev, unseenOrders, unseenTxs,
                   owner, listing, fresh, seen, pend, asked, answer, batch, anyNew,
                   brokerVars, netVars, boundVars>>

(* Oldest first ("direction": "asc"), one transaction each.                 *)
IngestNext(e) ==
    /\ rpc = "ingesting"
    /\ e \in batch
    /\ \A f \in batch : execTs[e] <= execTs[f]
    /\ batch' = batch \ {e}
    /\ IngestExecution(ActivityId(e))
    /\ anyNew' = (anyNew \/ IsNew(ActivityId(e)))
    /\ unseenTxs' = (unseenTxs \/ IsNew(ActivityId(e)))
    /\ UNCHANGED <<rowVars, ready, sub, killing, lock, cpc, cev, unseenOrders,
                   rpc, owner, listing, fresh, seen, pend, asked, answer,
                   brokerVars, netVars, boundVars>>

(* The loop is done: if anything was new, tx_revision is bumped and the     *)
(* symbols are read again, with the lock still held.                        *)
(* Variant: the bump forgotten.                                             *)
IngestDoneSilently ==
    /\ rpc = "ingesting"
    /\ batch = {}
    /\ rpc' = IF anyNew THEN "refresh" ELSE "finish"
    /\ lock' = IF anyNew THEN "reconcile" ELSE "free"
    /\ anyNew' = FALSE
    /\ UNCHANGED <<dbVars, ready, sub, killing, cpc, cev, unseenOrders, unseenTxs,
                   owner, listing, fresh, seen, pend, asked, answer, batch,
                   brokerVars, netVars, boundVars>>

IngestDone ==
    /\ rpc = "ingesting"
    /\ batch = {}
    /\ rpc' = IF anyNew THEN "refresh" ELSE "finish"
    /\ lock' = IF anyNew THEN "reconcile" ELSE "free"
    /\ anyNew' = FALSE
    /\ unseenTxs' = (unseenTxs /\ ~anyNew)
    /\ UNCHANGED <<dbVars, ready, sub, killing, cpc, cev, unseenOrders,
                   owner, listing, fresh, seen, pend, asked, answer, batch,
                   brokerVars, netVars, boundVars>>

RefreshSymbols ==
    /\ rpc = "refresh"
    /\ rpc' = "finish"
    /\ lock' = "free"
    /\ UNCHANGED <<dbVars, ready, sub, killing, cpc, cev, unseenOrders, unseenTxs,
                   owner, listing, fresh, seen, pend, asked, answer, batch, anyNew,
                   brokerVars, netVars, boundVars>>

ClearPass ==
    /\ rpc' = "idle" /\ owner' = "timer" /\ listing' = NoListing
    /\ fresh' = {} /\ seen' = {} /\ pend' = {}
    /\ asked' = Nothing /\ answer' = Nothing /\ batch' = {} /\ anyNew' = FALSE

(* Trading unlocks, whether or not the broker answered.                     *)
FinishPass ==
    /\ rpc = "finish"
    /\ ClearPass
    /\ cpc' = IF owner = "timer" THEN cpc ELSE IF cpc = "repair" THEN "refresh" ELSE "idle"
    /\ ready' = TRUE
    /\ BumpOrders
    /\ UNCHANGED <<dbVars, sub, killing, lock, cev, unseenTxs, brokerVars, netVars,
                   boundVars>>

(* A SQL error, of refresh_symbols too, leaves by `?`: no bump, no unlock,  *)
(* and the consumer's handler of the event ends with it.                    *)
AbortPass ==
    /\ DbFaults
    /\ rpc \notin {"idle", "finish"}
    /\ ClearPass
    /\ cpc' = IF owner = "timer" THEN cpc ELSE "idle"
    /\ lock' = IF lock = "reconcile" THEN "free" ELSE lock
    /\ UNCHANGED <<dbVars, ready, sub, killing, cev, unseenOrders, unseenTxs,
                   brokerVars, netVars, boundVars>>
-------------------------------------------------------------------------------
(* The stream and its serial consumer *)

(* Events not yet read from the socket are lost.                            *)
Disconnect ==
    /\ connected
    /\ breaks < MaxDrops
    /\ breaks' = breaks + 1
    /\ connected' = FALSE
    /\ \E n \in 0 .. Len(stream) : stream' = SubSeq(stream, 1, n)
    /\ UNCHANGED <<dbVars, memVars, passVars, brokerVars, wire, cancels>>

LastUpdate(o) ==
    Update(o, Snapshot(o),
           IF bstatus[o] \in {"partially_filled", "filled"} THEN bqty[o] ELSE 0)

(* Connected is emitted first; the broker may repeat an order's last event. *)
Reconnect ==
    /\ ~connected
    /\ connected' = TRUE
    /\ \/ stream' = Append(stream, Connected)
       \/ \E o \in Present : stream' = stream \o <<Connected, LastUpdate(o)>>
    /\ UNCHANGED <<dbVars, memVars, passVars, brokerVars, wire, cancels, boundVars>>

(* Connected reconciles inline, or skips when a pass is in flight.          *)
ConsumeConnected ==
    /\ cpc = "idle"
    /\ stream # <<>> /\ Head(stream) = Connected
    /\ stream' = Tail(stream)
    /\ \/ BeginPass("consumer") /\ cpc' = "busy"
       \/ rpc # "idle" /\ UNCHANGED <<cpc, passVars>>
    /\ UNCHANGED <<dbVars, ready, sub, killing, lock, cev, unseenOrders, unseenTxs,
                   brokerVars, wire, cancels, connected, boundVars>>

(* An update of a known order: the row is applied under the lock; a fill    *)
(* keeps the lock for its ingestion.                                        *)
ConsumeKnown ==
    /\ cpc = "idle"
    /\ stream # <<>> /\ Head(stream).kind = "update"
    /\ lock = "free"
    /\ LET ev == Head(stream) IN
       /\ status[ev.o] # "none"
       /\ ApplyBrokerOrder(ev.o, ev.snap)
       /\ Committed(CanApply(ev.o, ev.snap))
       /\ IF ev.exec # 0
          THEN cpc' = "ingest" /\ cev' = <<ev.o, ev.exec>> /\ lock' = "consumer"
          ELSE cpc' = "refresh" /\ UNCHANGED <<cev, lock>>
    /\ stream' = Tail(stream)
    /\ UNCHANGED <<fillVars, ready, sub, killing, unseenTxs, passVars, brokerVars,
                   wire, cancels, connected, boundVars>>

ConsumeFill ==
    /\ cpc = "ingest"
    /\ cpc' = "refresh" /\ cev' = Nothing /\ lock' = "free"
    /\ IngestExecution(StreamId(cev))
    /\ unseenTxs' = (unseenTxs /\ ~IsNew(StreamId(cev)))
    /\ UNCHANGED <<rowVars, ready, sub, killing, unseenOrders, passVars, brokerVars,
                   netVars, boundVars>>

(* An update of an unknown order is dropped and reconciled, or skipped.     *)
ConsumeUnknown ==
    /\ cpc = "idle"
    /\ stream # <<>> /\ Head(stream).kind = "update"
    /\ lock = "free"
    /\ status[Head(stream).o] = "none"
    /\ stream' = Tail(stream)
    /\ \/ BeginPass("consumer") /\ cpc' = "repair"
       \/ rpc # "idle" /\ cpc' = "refresh" /\ UNCHANGED passVars
    /\ UNCHANGED <<dbVars, ready, sub, killing, lock, cev, unseenOrders, unseenTxs,
                   brokerVars, wire, cancels, connected, boundVars>>

(* The symbols were read again; the event ends with its bump.               *)
ConsumeRefreshed ==
    /\ cpc = "refresh"
    /\ cpc' = "idle"
    /\ BumpOrders
    /\ UNCHANGED <<dbVars, ready, sub, killing, lock, cev, unseenTxs, passVars,
                   brokerVars, netVars, boundVars>>

(* A SQL error in any of these leaves apply_event before what follows.      *)
ConsumerFails ==
    /\ DbFaults
    /\ \/ cpc \in {"ingest", "refresh"} /\ UNCHANGED stream
       \/ /\ cpc = "idle" /\ lock = "free"
          /\ stream # <<>> /\ Head(stream).kind = "update"
          /\ stream' = Tail(stream)
    /\ cpc' = "idle" /\ cev' = Nothing
    /\ lock' = IF cpc = "ingest" THEN "free" ELSE lock
    /\ UNCHANGED <<dbVars, ready, sub, killing, unseenOrders, unseenTxs, passVars,
                   brokerVars, wire, cancels, connected, boundVars>>
-------------------------------------------------------------------------------
(* The process dies and boots again: handlers, locks, the stream and every  *)
(* cache are gone; the database, the broker and requests under way are not. *)
Crash ==
    /\ breaks < MaxCrashes
    /\ breaks' = breaks + 1
    /\ ready' = FALSE /\ killing' = FALSE
    /\ sub' = [o \in Own |-> "idle"]
    /\ lock' = "free"
    /\ cpc' = "idle" /\ cev' = Nothing
    /\ unseenOrders' = FALSE /\ unseenTxs' = FALSE
    /\ ClearPass
    /\ stream' = <<>> /\ connected' = FALSE
    /\ UNCHANGED <<dbVars, brokerVars, wire, cancels>>

BrokerStep(o) ==
    \/ BrokerAccept(o) \/ BrokerRefuse(o) \/ WireLost(o) \/ ExternalPlace(o)
    \/ BrokerFill(o) \/ BrokerClose(o) \/ BrokerCanceling(o)
    \/ BrokerCancel(o)

SubmitStep(o) ==
    \/ Persist(o) \/ Send(o) \/ SubmitAccepted(o) \/ SubmitRejected(o)
    \/ SubmitUnknown(o)

PassStep ==
    \/ \E o \in Ids : \/ ReconcileOwn(o) \/ MaterializeExternal(o) \/ ReconcileFresh(o)
                      \/ AskBroker(o)
    \/ SelectPending \/ ResolvePending \/ FetchExecutions \/ LockForIngest
    \/ (\E e \in Execs : IngestNext(e)) \/ IngestDone \/ RefreshSymbols \/ FinishPass

ConsumerStep ==
    ConsumeConnected \/ ConsumeKnown \/ ConsumeFill \/ ConsumeUnknown \/ ConsumeRefreshed

Next ==
    \/ \E o \in Ids : BrokerStep(o) \/ CancelOrder(o)
    \/ \E o \in Own : SubmitStep(o)
    \/ KillSwitch \/ KillMark
    \/ TimerReconcile \/ PassStep \/ AbortPass
    \/ ConsumerStep \/ ConsumerFails
    \/ Disconnect \/ Reconnect
    \/ HourPasses \/ Crash

Spec == Init /\ [][Next]_vars

(* The runtime polls its own tasks, the timer fires, the stream reconnects  *)
(* and the broker works off its cancellations; tokio's mutex is first come, *)
(* first served, so the consumer gets the lock a pass takes and releases.   *)
(* Users, crashes and the network owe nothing, and no HTTP handler does:    *)
(* hyper drops it wherever it waits when its client hangs up.               *)
Fairness ==
    /\ WF_vars(TimerReconcile \/ PassStep) /\ SF_vars(ConsumerStep) /\ WF_vars(Reconnect)
    /\ \A o \in Ids : WF_vars(BrokerCancel(o))

FairSpec == Spec /\ Fairness
-------------------------------------------------------------------------------
(* Safety *)

(* What is in the transaction log happened at the broker, and an execution  *)
(* id is in it exactly when it is in the fills table, and once: no repeated *)
(* event and no backfill doubles it, no crash separates the two rows.  If   *)
(* the broker used one id in both feeds, that is once per execution.        *)
BookedOnce ==
    /\ \A id \in ExecIds : txs[id] = IF id \in fills THEN 1 ELSE 0
    /\ \A id \in fills : id[1] \in Executed
    /\ OneId => \A id \in fills : id = StreamId(id[1])

(* No order of ours exists at the broker, or is on its way there, without   *)
(* its row: what a crash leaves behind can always be recognised.            *)
PersistedBeforeSent ==
    \A o \in Own : bstatus[o] # "none" \/ o \in wire => status[o] # "none"

(* What a row says at the end is what happened: a filled or closed row has  *)
(* the broker's final status and, when the order is ours, the quantity that *)
(* was executed, whatever overtook what; a rejected one never lived there.  *)
EndsTruthfully ==
    /\ \A o \in Ids :
           /\ status[o] \in ({"filled"} \cup Closing) \ {"rejected"} => bstatus[o] = status[o]
           /\ status[o] = "rejected" => bstatus[o] \in {"none", "rejected"}
    /\ \A o \in Own :
           status[o] \in ({"filled"} \cup Closing) \ {"rejected"} => qty[o] = bqty[o]

(* When no handler is at work, every commit has been followed by the bump   *)
(* of the revision its cached view is keyed on: snapshots cannot be stale.  *)
QuietMeansSeen ==
    rpc = "idle" /\ cpc = "idle" /\ (\A o \in Own : sub[o] # "persisted")
        => ~unseenOrders /\ ~unseenTxs

(* No handler, in whatever order, moves a row out of a terminal status.     *)
TerminalIsFinal ==
    [][\A o \in Ids : status[o] \in Terminal => status'[o] = status[o]]_vars

(* A late REST answer never undoes a partial fill the stream reported.      *)
PartialNeverFallsBack ==
    [][\A o \in Ids : status[o] = "partially_filled" => status'[o] \notin PreFill]_vars

(* The order manager implements the abstract order book and ledger.         *)
Book == INSTANCE OrderBook WITH ledger <- txs, Order <- [id \in ExecIds |-> id[1][1]]
ImplementsBook == Book!Spec

(* "Over-fetching is free - execution_id dedupes" (trading.rs): an          *)
(* execution that the stream delivered and the backfill fetches again is    *)
(* one transaction.                                                         *)
OverFetchingIsFree == \A e \in Execs : txs[<<e, "stream">>] + txs[<<e, "activity">>] <= 1

(* "Failed": "submission failed and the broker confirms it never saw the    *)
(* order" (orders.rs) - so the broker holds no such order.                  *)
FailedNeverReached == \A o \in Own : status[o] = "failed" => bstatus[o] = "none"
-------------------------------------------------------------------------------
(* Liveness, under FairSpec *)

(* No order stays "pending_submit": whoever answers, it is resolved.        *)
PendingResolves ==
    \A o \in Own : status[o] = "pending_submit" ~> status[o] # "pending_submit"

(* Every execution of an order the server knows at the broker is booked,    *)
(* whatever stream events or crashes intervened - unless one that is newer  *)
(* by the overlap or more was booked first: no backfill then asks for it.   *)
FillsArrive ==
    \A e \in Execs :
        e \in Executed /\ e[1] \in bid
            ~> \E id \in fills : id[1] = e \/ execTs[id[1]] >= execTs[e] + Overlap

(* A row of ours does not stay "pending_cancel".                            *)
CancelSettles ==
    \A o \in Own : status[o] = "pending_cancel" ~> status[o] # "pending_cancel"
===============================================================================
