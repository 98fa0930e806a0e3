------------------------------- MODULE LiveView -------------------------------
(***************************************************************************)
(* How a committed mutation reaches the dashboards: live.rs's revision-    *)
(* keyed caches, its dirty flag and its broadcaster, the websocket clients *)
(* behind it, and the one cache that is invalidated instead (splits.rs).   *)
(*                                                                         *)
(* One table, one revision and one cache stand for each of the pairs the   *)
(* snapshot reads (orders, transactions, watchlist, alerts).  They keep    *)
(* the same discipline but for a read that fails: the orders' cache takes  *)
(* an empty list for it, the others fail the snapshot.  A value of the     *)
(* table is the set of mutations in it.                                    *)
(* Atomic steps are the loads and stores on the atomics and the caches,    *)
(* and the SQL statements, of tasks that run on several threads.           *)
(***************************************************************************)
EXTENDS Naturals, Sequences

CONSTANTS
    Writers,     \* mutations, one handler each
    Clients,     \* dashboard websockets
    Checks,      \* GET /api/splits handlers
    Capacity,    \* messages the broadcast channel keeps for a receiver (16)
    MaxFailures, \* bound: reads of the table that fail
    Broadcaster, Nothing, Blank   \* model values

Readers == Clients \cup {Broadcaster}
Values  == SUBSET Writers
Shown   == Values \cup {Blank}

ASSUME LiveAssumption ==
    /\ Broadcaster \notin Clients
    /\ Capacity \in Nat \ {0}
    /\ Blank # Nothing /\ \A v \in Values : v # Nothing /\ v # Blank
    /\ MaxFailures \in Nat

VARIABLES
    db,          \* the mutations committed
    writer,      \* how far each writer is
    rev,         \* tx_revision, orders_revision, ...
    cache,       \* (revision, value)
    dirty,       \* Live.dirty
    reader,      \* how far each snapshot under construction is
    readRev,     \* the revision it loaded first
    value,       \* the value it has in hand, Blank for the list of a failed read
    lenient,     \* is the table the orders'?
    failures,    \* failed reads so far
    sent,        \* the last value broadcast, Blank if there was none to send
    subscribed,  \* clients receiving broadcasts
    queue, shown,\* what a client will receive, what it shows (or Blank)
    check, found,\* split checks, the log they computed on
    splits       \* splits.rs CACHE

writeVars == <<db, writer, rev>>
failVars  == <<lenient, failures>>
readVars  == <<cache, reader, readRev, value, failVars>>
showVars  == <<sent, subscribed, queue, shown>>
splitVars == <<check, found, splits>>
vars == <<writeVars, dirty, readVars, showVars, splitVars>>

Held == (SUBSET db) \cup {Blank}   \* what a snapshot may have in hand

TypeOK ==
    /\ writer \in [Writers -> {"idle", "committed", "bumped", "done"}]
    /\ db = {w \in Writers : writer[w] # "idle"}
    /\ rev \in Nat
    /\ cache \in [rev : Nat, val : Shown] /\ cache.rev <= rev
    /\ dirty \in BOOLEAN
    /\ reader \in [Readers -> {"idle", "loaded", "missed", "fetched", "ready"}]
    /\ readRev \in [Readers -> 0 .. rev]
    /\ value \in [Readers -> Held]
    /\ lenient \in BOOLEAN /\ failures \in 0 .. MaxFailures
    /\ sent \in Held
    /\ subscribed \subseteq Clients
    /\ queue \in [Clients -> Seq(Shown)]
    /\ \A c \in Clients : Len(queue[c]) <= Capacity /\ (c \notin subscribed => queue[c] = <<>>)
    /\ shown \in [Clients -> Shown \cup {Nothing}]
    /\ \A c \in subscribed : shown[c] # Nothing
    /\ check \in [Checks -> {"idle", "computing"}]
    /\ found \in [Checks -> Values]
    /\ splits = Nothing \/ splits \in Values

Init ==
    /\ db = {} /\ writer = [w \in Writers |-> "idle"]
    /\ rev = 0
    /\ cache = [rev |-> 0, val |-> {}]
    /\ dirty = FALSE
    /\ reader = [r \in Readers |-> "idle"]
    /\ readRev = [r \in Readers |-> 0]
    /\ value = [r \in Readers |-> {}]
    /\ lenient \in BOOLEAN /\ failures = 0
    /\ sent = {} /\ subscribed = {}
    /\ queue = [c \in Clients |-> <<>>]
    /\ shown = [c \in Clients |-> Nothing]
    /\ check = [k \in Checks |-> "idle"] /\ found = [k \in Checks |-> {}]
    /\ splits = Nothing
-------------------------------------------------------------------------------
(* A mutation: the statement commits, the revision moves, the flag is set.  *)
(* The handler may end after any of these: its client hangs up while it     *)
(* waits, or refresh_symbols, which sets the flag, fails; an order's intent *)
(* never sets it.                                                           *)

Commit(w) ==
    /\ writer[w] = "idle"
    /\ writer' = [writer EXCEPT ![w] = "committed"]
    /\ db' = db \cup {w}
    /\ UNCHANGED <<rev, dirty, readVars, showVars, splitVars>>

Bump(w) ==
    /\ writer[w] = "committed"
    /\ writer' = [writer EXCEPT ![w] = "bumped"]
    /\ rev' = rev + 1
    /\ UNCHANGED <<db, dirty, readVars, showVars, splitVars>>

(* A mutation of the transaction log also drops the split check's result.   *)
Mark(w) ==
    /\ writer[w] = "bumped"
    /\ writer' = [writer EXCEPT ![w] = "done"]
    /\ dirty' = TRUE
    /\ splits' = Nothing
    /\ UNCHANGED <<db, rev, readVars, showVars, check, found>>
-------------------------------------------------------------------------------
(* A snapshot, by the broadcaster or for a client that connected.           *)

Advance(r, stage) == reader' = [reader EXCEPT ![r] = stage]

LoadRevision(r) ==
    /\ readRev' = [readRev EXCEPT ![r] = rev]
    /\ Advance(r, "loaded")
    /\ UNCHANGED <<cache, value, failVars>>

Lookup(r) ==
    /\ reader[r] = "loaded"
    /\ IF cache.rev = readRev[r]
       THEN value' = [value EXCEPT ![r] = cache.val] /\ Advance(r, "ready")
       ELSE UNCHANGED value /\ Advance(r, "missed")
    /\ UNCHANGED <<writeVars, dirty, cache, readRev, failVars, showVars, splitVars>>

Fetch(r) ==
    /\ reader[r] = "missed"
    /\ value' = [value EXCEPT ![r] = db]
    /\ Advance(r, "fetched")
    /\ UNCHANGED <<writeVars, dirty, cache, readRev, failVars, showVars, splitVars>>

(* A failed read is an empty list of orders; it ends any other snapshot:    *)
(* the broadcaster has taken the flag and sends nothing, a client has       *)
(* nothing to show and subscribes all the same.                             *)
FetchFails(r) ==
    /\ reader[r] = "missed"
    /\ failures < MaxFailures
    /\ failures' = failures + 1
    /\ IF lenient
       THEN /\ value' = [value EXCEPT ![r] = Blank]
            /\ Advance(r, "fetched")
            /\ UNCHANGED <<sent, shown>>
       ELSE /\ Advance(r, IF r = Broadcaster THEN "idle" ELSE "ready")
            /\ sent' = IF r = Broadcaster THEN Blank ELSE sent
            /\ shown' = [c \in Clients |-> IF c = r THEN Blank ELSE shown[c]]
            /\ UNCHANGED value
    /\ UNCHANGED <<writeVars, dirty, cache, readRev, lenient, subscribed, queue, splitVars>>

(* Variant: the value stored under the revision of this moment.             *)
StoreUnderCurrent(r) ==
    /\ reader[r] = "fetched"
    /\ cache' = [rev |-> rev, val |-> value[r]]
    /\ Advance(r, "ready")
    /\ UNCHANGED <<writeVars, dirty, readRev, value, failVars, showVars, splitVars>>

Store(r) ==
    /\ reader[r] = "fetched"
    /\ cache' = [rev |-> readRev[r], val |-> value[r]]
    /\ Advance(r, "ready")
    /\ UNCHANGED <<writeVars, dirty, readRev, value, failVars, showVars, splitVars>>
-------------------------------------------------------------------------------
(* The broadcaster, at most once a second.                                  *)

Tick ==
    /\ reader[Broadcaster] = "idle"
    /\ subscribed # {}
    /\ dirty
    /\ dirty' = FALSE
    /\ LoadRevision(Broadcaster)
    /\ UNCHANGED <<writeVars, showVars, splitVars>>

(* A receiver that lags behind loses its oldest message.                    *)
(* Variant: its newest.                                                     *)
PushDropsNewest(q, v) == IF Len(q) = Capacity THEN q ELSE Append(q, v)

Push(q, v) == IF Len(q) = Capacity THEN Append(Tail(q), v) ELSE Append(q, v)

Broadcast ==
    /\ reader[Broadcaster] = "ready"
    /\ Advance(Broadcaster, "idle")
    /\ sent' = value[Broadcaster]
    /\ queue' = [c \in Clients |-> IF c \in subscribed THEN Push(queue[c], sent')
                                   ELSE queue[c]]
    /\ UNCHANGED <<writeVars, dirty, cache, readRev, value, failVars, subscribed, shown,
                   splitVars>>
-------------------------------------------------------------------------------
(* client_ws: one snapshot at once, then the broadcasts.                    *)

Connect(c) ==
    /\ c \notin subscribed
    /\ reader[c] = "idle"
    /\ LoadRevision(c)
    /\ UNCHANGED <<writeVars, dirty, showVars, splitVars>>

ShowFirst(c) ==
    /\ reader[c] = "ready"
    /\ shown[c] = Nothing
    /\ shown' = [shown EXCEPT ![c] = value[c]]
    /\ UNCHANGED <<writeVars, dirty, readVars, sent, subscribed, queue, splitVars>>

Subscribe(c) ==
    /\ reader[c] = "ready"
    /\ shown[c] # Nothing
    /\ Advance(c, "idle")
    /\ subscribed' = subscribed \cup {c}
    /\ UNCHANGED <<writeVars, dirty, cache, readRev, value, failVars, sent, queue, shown,
                   splitVars>>

Receive(c) ==
    /\ queue[c] # <<>>
    /\ shown' = [shown EXCEPT ![c] = Head(queue[c])]
    /\ queue' = [queue EXCEPT ![c] = Tail(@)]
    /\ UNCHANGED <<writeVars, dirty, readVars, sent, subscribed, splitVars>>

(* The socket is closed, before or after the subscription.                  *)
Leave(c) ==
    /\ shown[c] # Nothing
    /\ Advance(c, "idle")
    /\ subscribed' = subscribed \ {c}
    /\ queue' = [queue EXCEPT ![c] = <<>>]
    /\ shown' = [shown EXCEPT ![c] = Nothing]
    /\ UNCHANGED <<writeVars, dirty, cache, readRev, value, failVars, sent, splitVars>>
-------------------------------------------------------------------------------
(* GET /api/splits with nothing cached: the result is computed on the log    *)
(* while the data provider answers, and is not cached when the provider      *)
(* failed.  `refresh` bypasses the cache: it is an expiry followed by this.  *)

CheckSplits(k) ==
    /\ check[k] = "idle"
    /\ splits = Nothing
    /\ check' = [check EXCEPT ![k] = "computing"]
    /\ found' = [found EXCEPT ![k] = db]
    /\ UNCHANGED <<writeVars, dirty, readVars, showVars, splits>>

CacheSplits(k) ==
    /\ check[k] = "computing"
    /\ check' = [check EXCEPT ![k] = "idle"]
    /\ found' = [found EXCEPT ![k] = {}]
    /\ splits' \in {found[k], splits}
    /\ UNCHANGED <<writeVars, dirty, readVars, showVars>>

(* Variant: a result is served for as long as nothing invalidates it.       *)
KeepSplits ==
    /\ splits # Nothing
    /\ UNCHANGED vars

(* The result is six hours old.                                             *)
ExpireSplits ==
    /\ splits # Nothing
    /\ splits' = Nothing
    /\ UNCHANGED <<writeVars, dirty, readVars, showVars, check, found>>

ReadStep(r) == Lookup(r) \/ Fetch(r) \/ FetchFails(r) \/ Store(r)
BroadcasterStep == Tick \/ ReadStep(Broadcaster) \/ Broadcast
ClientStep(c) == ReadStep(c) \/ ShowFirst(c) \/ Subscribe(c) \/ Receive(c)

Next ==
    \/ \E w \in Writers : Commit(w) \/ Bump(w) \/ Mark(w)
    \/ BroadcasterStep
    \/ \E c \in Clients : Connect(c) \/ ClientStep(c) \/ Leave(c)
    \/ \E k \in Checks : CheckSplits(k) \/ CacheSplits(k)
    \/ ExpireSplits

Spec == Init /\ [][Next]_vars

(* The server's own tasks are polled, the broadcaster's interval keeps      *)
(* ticking, the data provider answers or times out (or the check's handler  *)
(* is dropped), results grow old.  Writers owe nothing.                     *)
Fairness ==
    /\ WF_vars(BroadcasterStep)
    /\ \A c \in Clients : WF_vars(ClientStep(c))
    /\ \A k \in Checks : WF_vars(CacheSplits(k))
    /\ WF_vars(ExpireSplits)

FairSpec == Spec /\ Fairness
-------------------------------------------------------------------------------
(* A cached value under the current revision has every mutation whose bump  *)
(* made that revision: because the revision is loaded before the fetch, a   *)
(* slow reader's late store can only miss, never serve an old value.  The   *)
(* exception is the empty list a failed read of the orders leaves there.    *)
CacheFresh ==
    cache.rev = rev /\ cache.val # Blank
        => {w \in Writers : writer[w] \in {"bumped", "done"}} \subseteq cache.val

OnlyOrdersGoBlank == cache.val = Blank => lenient

(* Between two snapshots, a flag that is down means everything marked so    *)
(* far was broadcast - or that a failed read has left the last snapshot     *)
(* with nothing to send: its updates wait for the next change.              *)
BroadcastCurrent ==
    reader[Broadcaster] = "idle" /\ ~dirty /\ sent # Blank
        => {w \in Writers : writer[w] = "done"} \subseteq sent

FailuresShow == sent = Blank \/ cache.val = Blank => failures > 0

(* Neither a reader nor a client is served what a mutation has made old,    *)
(* and what a failed read takes from them is counted: with no failure, no   *)
(* cache is blank and no flag is consumed unsent.                           *)
NothingStale ==
    TypeOK /\ CacheFresh /\ OnlyOrdersGoBlank /\ BroadcastCurrent /\ FailuresShow

(* A mutation whose flag is up while a client is subscribed gets to its     *)
(* screen, if the client stays and however far its socket lags behind,      *)
(* unless the snapshot that was to bring it failed and nothing changed      *)
(* since.                                                                   *)
Lost == reader[Broadcaster] = "idle" /\ ~dirty /\ sent = Blank

Delivered ==
    \A w \in Writers, c \in Clients :
        writer[w] = "done" /\ dirty /\ c \in subscribed
            ~> c \notin subscribed \/ (shown[c] # Blank /\ w \in shown[c]) \/ Lost

(* A split check in flight may store a result older than the mutation that  *)
(* invalidated the cache, and a mutation whose handler stops after its      *)
(* commit invalidates nothing; a result is served for six hours at most,    *)
(* and from some time on no result without the mutation is.                 *)
SplitsCatchUp ==
    \A w \in Writers :
        writer[w] = "committed" ~> [](splits # Nothing => w \in splits)
===============================================================================
