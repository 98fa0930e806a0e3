-------------------------------- MODULE Watch --------------------------------
(***************************************************************************)
(* Alerts, named watchlists and the quote stream they feed                 *)
(* (rekt-server/src/alerts.rs, api.rs, repo.rs, live.rs and                *)
(* rekt-data/src/stream.rs).                                               *)
(*                                                                         *)
(* Requests run in Slots next to the one evaluator task; a step ends at an *)
(* await.  Every mutation is followed by refresh_symbols, which reads the  *)
(* lists and the active alerts one after the other and then replaces the   *)
(* set of symbols the stream should be subscribed to.                      *)
(*                                                                         *)
(* A price or a drawdown is a level in Levels, NoData when there is none.  *)
(* Row ids are SQLite's: one more than the largest in use, so the id of a  *)
(* deleted last row is given again.  A read may fail, a client may hang up  *)
(* (which drops its handler at the await it is in) and a push may be       *)
(* refused; each costs one of the story's faults.                          *)
(*                                                                         *)
(* The set of symbols is kept symbol by symbol: a symbol is loose from the *)
(* commit that touches it until a refresh that began after it ends.  Left  *)
(* out: the symbols of transactions                                        *)
(* and of the market gauges, which only enlarge every set below; draft     *)
(* tickets; list names, which a create checks under the lock.              *)
(***************************************************************************)
EXTENDS Integers, FiniteSets

CONSTANTS
  Symbols,       \* instruments
  Levels,        \* readings of a price or a drawdown
  ListIds,       \* 1 .. n: rows of watchlists
  AlertIds,      \* 1 .. n: rows of alerts
  Slots,         \* requests that can be under way together
  Stories,       \* starting points: [ops, slots, lists, armed, requests, moves, faults],
                 \* the last three bounding the requests made, the quotes and
                 \* candles that arrive, and the failures
  Defs           \* alerts a user may create: [symbol, condition, threshold]

CONSTANTS Evaluator, NoData, Absent, Nobody

Procs == Slots \cup {Evaluator}

ASSUME WatchAssumption ==
  /\ Levels \subseteq Nat \ {0} /\ NoData \notin Levels /\ Absent \notin Levels
  /\ NoData # Absent /\ Evaluator \notin Slots /\ Nobody \notin Slots
  /\ ListIds \subseteq Nat /\ AlertIds \subseteq Nat
  /\ \A d \in Defs : d.symbol \in Symbols /\ d.threshold \in Nat /\ d.condition \in {"price_below", "price_above", "drawdown_above"}
  /\ \A st \in Stories : /\ st.lists \subseteq ListIds /\ st.lists # {} /\ st.slots \subseteq Slots
                         /\ st.armed \in [DOMAIN st.armed -> Defs]

VARIABLES
  story,      \* the operations in use
  lists,      \* ids in table watchlists
  members,    \* table watchlist_members: list id -> symbols
  alerts,     \* table alerts: id -> [status, def, value]
  price,      \* live price cache: symbol -> level or NoData
  drawdown,   \* max_drawdown_pct over the stored closes
  candles,    \* [rev, dirty]: candles_revision, and whether a bump is due
  req,        \* slot -> the request it serves
  lock,       \* AppState.mutations: its holder or Nobody
  ref,        \* process -> refresh_symbols under way
  desired,    \* value of the symbols watch channel
  changed,    \* the stream has not seen the latest value
  socket,     \* [state, provider]: the provider's subscriptions
  ev,         \* evaluate_alerts and its DrawdownCache
  unseen,     \* history: tables changed since the last bump of their revision
  loose,      \* history: symbols touched since the last refresh that ended began
  missed,     \* history: those of them whose own refresh was overtaken or cut short
  cut,        \* history: tables a change of which lost its bump
  owed,       \* history: id -> firings less notifications delivered
  untold,     \* history: id -> notifications refused, timed out or cut by a crash
  recycled,   \* history: ids given to a new alert while a pass held the old one
  spent       \* history: [requests, moves, faults]

vars == <<story, lists, members, alerts, price, drawdown, candles, req, lock, ref, desired,
          changed, socket, ev, unseen, loose, missed, cut, owed, untold, recycled, spent>>
tables  == <<lists, members, alerts>>
market  == <<price, drawdown, candles>>
stream  == <<desired, changed, socket>>
news    == <<owed, untold, recycled>>
slips   == <<missed, cut>>
history == <<loose, slips, news>>

NoRow == [status |-> "none"]
Idle  == [at |-> "idle"]
Resting == [at |-> "no", got |-> {}, late |-> {}, table |-> "alerts"]
ListSymbols  == UNION {members[l] : l \in ListIds}
AlertSymbols == {alerts[i].def.symbol : i \in {j \in AlertIds : alerts[j].status = "active"}}

(***************************************************************************)
(* The condition of an alert and what it reads (core/alerts.rs).           *)
(***************************************************************************)
NeedsPrice(def) == def.condition \in {"price_below", "price_above"}

Check(def, observed) ==
  IF def.condition = "price_below" THEN observed <= def.threshold ELSE observed >= def.threshold

CurrentObserved(def) == IF NeedsPrice(def) THEN price[def.symbol] ELSE drawdown[def.symbol]

AlreadyTrue(def) == CurrentObserved(def) # NoData /\ Check(def, CurrentObserved(def))

(***************************************************************************)
(* Requests.  A slot takes one when the budget and the story allow it.     *)
(***************************************************************************)
Takes(s, op) ==
  /\ s \in story.slots /\ op \in story.ops /\ req[s] = Idle /\ ref[s].at = "no" /\ spent.requests < story.requests
  /\ spent' = [spent EXCEPT !.requests = @ + 1]

Becomes(s, r) == req' = [req EXCEPT ![s] = r]

\* Refreshes that have read something come too late for a change of xs now.
TooLateFor(xs) == [p \in Procs |-> IF ref[p].at \in {"alerts", "send"} THEN [ref[p] EXCEPT !.late = @ \cup xs]
                                   ELSE ref[p]]
Beginning(table) == [at |-> "lists", got |-> {}, late |-> {}, table |-> table]

\* p has committed a change of xs: it bumps the revision and refreshes the
\* symbols, unless its client hangs up first (HangUp).
Committed(p, table, xs) ==
  /\ ref' = [TooLateFor(xs) EXCEPT ![p] = Beginning(table)]
  /\ unseen' = unseen \cup {table}
  /\ loose' = loose \cup xs

AddDefault(s) ==
  \E l \in lists, x \in Symbols :
    /\ Takes(s, "add") /\ \A k \in lists : l <= k
    /\ Becomes(s, [at |-> "add", list |-> l, symbol |-> x])
    /\ UNCHANGED <<story, tables, market, lock, ref, stream, ev, unseen, history>>

\* The bulk insert looks for its list inside its own transaction.
AddBulk(s) ==
  /\ req[s].at = "add"
  /\ IF req[s].list \in lists
     THEN /\ members' = [members EXCEPT ![req[s].list] = @ \cup {req[s].symbol}]
          /\ Committed(s, "watchlist", {req[s].symbol})
     ELSE UNCHANGED <<members, ref, unseen, loose>>
  /\ Becomes(s, Idle)
  /\ lock' = IF req[s].list \notin lists /\ lock = s THEN Nobody ELSE lock
  /\ UNCHANGED <<story, lists, alerts, market, stream, ev, slips, news, spent>>

\* The legacy remove, from every list and without the lock.
RemoveEverywhere(s) ==
  \E x \in ListSymbols :
    /\ Takes(s, "remove")
    /\ members' = [l \in ListIds |-> members[l] \ {x}]
    /\ Committed(s, "watchlist", {x})
    /\ UNCHANGED <<story, lists, alerts, market, req, lock, stream, ev, slips, news>>

AddToList(s) ==
  \E l \in lists, x \in Symbols :
    /\ Takes(s, "addTo") /\ lock = Nobody
    /\ lock' = s
    /\ Becomes(s, [at |-> "add", list |-> l, symbol |-> x])
    /\ UNCHANGED <<story, tables, market, ref, stream, ev, unseen, history>>

RemoveFromList(s) ==
  \E l \in ListIds : \E x \in members[l] :
    /\ Takes(s, "removeFrom") /\ lock = Nobody
    /\ lock' = s
    /\ members' = [members EXCEPT ![l] = @ \ {x}]
    /\ Committed(s, "watchlist", {x})
    /\ UNCHANGED <<story, lists, alerts, market, req, stream, ev, slips, news>>

CreateList(s) ==
  /\ Takes(s, "create") /\ lock = Nobody
  /\ \E n \in ListIds : (\A k \in lists : k < n) /\ (n - 1 \in lists) /\ lists' = lists \cup {n}
  /\ UNCHANGED <<story, members, alerts, market, req, lock, ref, stream, ev, unseen, history>>

\* Variant: the check that another list is left is made without the lock.
DropListCheckUnlocked(s) ==
  \E l \in ListIds :
    /\ Takes(s, "drop") /\ Cardinality(lists) > 1
    /\ Becomes(s, [at |-> "drop", list |-> l])
    /\ UNCHANGED <<story, tables, market, lock, ref, stream, ev, unseen, history>>

DropListCheck(s) ==
  \E l \in ListIds :
    /\ Takes(s, "drop") /\ lock = Nobody /\ Cardinality(lists) > 1
    /\ lock' = s
    /\ Becomes(s, [at |-> "drop", list |-> l])
    /\ UNCHANGED <<story, tables, market, ref, stream, ev, unseen, history>>

DropList(s) ==
  /\ req[s].at = "drop"
  /\ Becomes(s, Idle)
  /\ lists' = lists \ {req[s].list}
  /\ members' = [members EXCEPT ![req[s].list] = {}]
  /\ IF req[s].list \in lists THEN Committed(s, "watchlist", members[req[s].list]) /\ lock' = lock
     ELSE lock' = Nobody /\ UNCHANGED <<ref, unseen, loose>>
  /\ UNCHANGED <<story, alerts, market, stream, ev, slips, news, spent>>

(***************************************************************************)
(* Requests about alerts.                                                  *)
(***************************************************************************)
CreateAlertCheck(s) ==
  \E d \in Defs, allowImmediate \in BOOLEAN :
    /\ Takes(s, "arm") /\ (allowImmediate \/ ~ AlreadyTrue(d))
    /\ \A i \in AlertIds : (\A k \in AlertIds : k <= i) =>   \* bound: a free id
         alerts[i] = NoRow /\ \A q \in Slots : req[q].at # "arm"
    /\ Becomes(s, [at |-> "arm", def |-> d])
    /\ UNCHANGED <<story, tables, market, lock, ref, stream, ev, unseen, history>>

\* The ids the pass under way still means to fire.
Held == {a.id : a \in ev.batch} \cup IF ev.at = "trigger" THEN {ev.hit.id} ELSE {}

CreateAlert(s) ==
  /\ req[s].at = "arm"
  /\ \E i \in AlertIds :
       /\ \A k \in AlertIds : (k >= i) => alerts[k] = NoRow
       /\ i > 1 => alerts[i - 1] # NoRow
       /\ alerts' = [alerts EXCEPT ![i] = [status |-> "active", def |-> req[s].def, value |-> NoData]]
       /\ recycled' = IF i \in Held THEN recycled \cup {i} ELSE recycled \ {i}
  /\ Becomes(s, Idle) /\ Committed(s, "alerts", {req[s].def.symbol})
  /\ UNCHANGED <<story, lists, members, market, lock, stream, ev, slips, owed, untold, spent>>

DeleteAlert(s) ==
  \E i \in AlertIds :
    /\ Takes(s, "delete") /\ alerts[i] # NoRow
    /\ alerts' = [alerts EXCEPT ![i] = NoRow]
    /\ Committed(s, "alerts", {alerts[i].def.symbol})
    /\ UNCHANGED <<story, lists, members, market, req, lock, stream, ev, slips, news>>

DismissAlert(s) ==
  \E i \in AlertIds :
    /\ Takes(s, "dismiss") /\ alerts[i].status = "triggered"
    /\ alerts' = [alerts EXCEPT ![i].status = "dismissed"]
    /\ Committed(s, "alerts", {alerts[i].def.symbol})
    /\ UNCHANGED <<story, lists, members, market, req, lock, stream, ev, slips, news>>

RearmCheck(s) ==
  \E i \in AlertIds :
    /\ Takes(s, "rearm") /\ alerts[i] # NoRow /\ ~ AlreadyTrue(alerts[i].def)
    /\ Becomes(s, [at |-> "rearm", id |-> i])
    /\ UNCHANGED <<story, tables, market, lock, ref, stream, ev, unseen, history>>

\* Whatever the status is by now.
RearmAlert(s) ==
  /\ req[s].at = "rearm"
  /\ Becomes(s, Idle)
  /\ IF alerts[req[s].id] # NoRow
     THEN /\ alerts' = [alerts EXCEPT ![req[s].id] = [status |-> "active", def |-> @.def, value |-> NoData]]
          /\ Committed(s, "alerts", {alerts[req[s].id].def.symbol})
     ELSE UNCHANGED <<alerts, ref, unseen, loose>>
  /\ UNCHANGED <<story, lists, members, market, lock, stream, ev, slips, news, spent>>

(***************************************************************************)
(* refresh_symbols: two reads, an await apart, then the replacement.  The  *)
(* caller bumped its revision before the first.                            *)
(***************************************************************************)
RefreshLists(p) ==
  /\ ref[p].at = "lists"
  /\ ref' = [ref EXCEPT ![p] = [@ EXCEPT !.at = "alerts", !.got = ListSymbols]]
  /\ unseen' = unseen \ {ref[p].table} /\ cut' = cut \ {ref[p].table}
  /\ UNCHANGED <<story, tables, market, req, lock, stream, ev, loose, missed, news, spent>>

RefreshAlerts(p) ==
  /\ ref[p].at = "alerts"
  /\ ref' = [ref EXCEPT ![p] = [@ EXCEPT !.at = "send", !.got = ref[p].got \cup AlertSymbols]]
  /\ UNCHANGED <<story, tables, market, req, lock, stream, ev, unseen, history, spent>>

\* send_if_modified; the guard of a handler that held the lock drops here.
RefreshSend(p) ==
  /\ ref[p].at = "send"
  /\ ref' = [ref EXCEPT ![p] = Resting]
  /\ desired' = ref[p].got
  /\ changed' = (changed \/ desired # ref[p].got)
  /\ loose' = ref[p].late /\ missed' = ref[p].late
  /\ lock' = IF lock = p THEN Nobody ELSE lock
  /\ UNCHANGED <<story, tables, market, req, socket, ev, unseen, cut, news, spent>>

\* The refresh of p stops where it is: the set stays what it was.
Stops(p) ==
  /\ spent.faults < story.faults
  /\ spent' = [spent EXCEPT !.faults = @ + 1]
  /\ ref' = [ref EXCEPT ![p] = Resting]
  /\ missed' = IF ref[p].at # "no" THEN missed \cup loose ELSE missed
  /\ lock' = IF lock = p THEN Nobody ELSE lock
  /\ UNCHANGED <<story, tables, market, stream, ev, loose, news>>

\* One of its reads fails, after the bump.  A request answers the error, the
\* evaluator logs it; the change stays committed.
RefreshFails(p) ==
  /\ ref[p].at \in {"lists", "alerts"}
  /\ Stops(p)
  /\ IF ref[p].at = "lists" THEN unseen' = unseen \ {ref[p].table} /\ cut' = cut \ {ref[p].table}
     ELSE UNCHANGED <<unseen, cut>>
  /\ UNCHANGED req

\* The client hangs up and its handler is dropped with the guard it may hold:
\* before the commit, between the commit and the bump, or in the refresh.
HangUp(s) ==
  /\ req[s] # Idle \/ ref[s].at # "no"
  /\ Stops(s)
  /\ Becomes(s, Idle)
  /\ cut' = IF ref[s].at = "lists" THEN cut \cup {ref[s].table} ELSE cut
  /\ UNCHANGED unseen

(***************************************************************************)
(* One pass of evaluate_alerts.  It works on the alerts and the prices it  *)
(* read first; drawdowns are read once per symbol and candles_revision.    *)
(***************************************************************************)
EvLoad ==
  /\ ev.at = "idle" /\ ref[Evaluator].at = "no"
  /\ \E i \in AlertIds : alerts[i].status = "active"
  /\ ev' = [ev EXCEPT !.at = "prices",
              !.batch = {[id |-> i, def |-> alerts[i].def] : i \in {j \in AlertIds : alerts[j].status = "active"}}]
  /\ UNCHANGED <<story, tables, market, req, lock, ref, stream, unseen, history, spent>>

NothingCached == [x \in Symbols |-> Absent]

\* Variant: new candles do not clear the drawdown cache.
EvPricesKeepCache ==
  /\ ev.at = "prices"
  /\ ev' = [ev EXCEPT !.at = "check", !.prices = price, !.rev = candles.rev,
              !.cache = @]
  /\ UNCHANGED <<story, tables, market, req, lock, ref, stream, unseen, history, spent>>

EvPrices ==
  /\ ev.at = "prices"
  /\ ev' = [ev EXCEPT !.at = "check", !.prices = price, !.rev = candles.rev,
              !.cache = IF ev.rev = candles.rev THEN @ ELSE NothingCached]
  /\ UNCHANGED <<story, tables, market, req, lock, ref, stream, unseen, history, spent>>

\* What the pass has for an alert; a query that fails leaves NoData, cached.
EvObserve(def, failed) ==
  IF NeedsPrice(def) THEN ev.prices[def.symbol]
  ELSE IF ev.cache[def.symbol] # Absent THEN ev.cache[def.symbol]
  ELSE IF failed THEN NoData ELSE drawdown[def.symbol]

EvCheck ==
  \E a \in ev.batch, failed \in BOOLEAN :
    LET observed == EvObserve(a.def, failed) IN
    /\ ev.at = "check"
    /\ failed => /\ ~ NeedsPrice(a.def) /\ ev.cache[a.def.symbol] = Absent
                 /\ spent.faults < story.faults
    /\ spent' = IF failed THEN [spent EXCEPT !.faults = @ + 1] ELSE spent
    /\ ev' = [ev EXCEPT !.batch = @ \ {a},
                !.cache = IF NeedsPrice(a.def) THEN @ ELSE [@ EXCEPT ![a.def.symbol] = observed],
                !.at = IF observed # NoData /\ Check(a.def, observed) THEN "trigger" ELSE "check",
                !.hit = IF observed # NoData /\ Check(a.def, observed)
                        THEN [id |-> a.id, def |-> a.def, value |-> observed] ELSE Idle]
    /\ UNCHANGED <<story, tables, market, req, lock, ref, stream, unseen, history>>

\* Variant: notifies whether or not the UPDATE found its row.
EvTriggerAnyway ==
  /\ ev.at = "trigger"
  /\ IF alerts[ev.hit.id].status = "active"
     THEN /\ alerts' = [alerts EXCEPT ![ev.hit.id] = [status |-> "triggered", def |-> @.def, value |-> ev.hit.value]]
          /\ ev' = [ev EXCEPT !.at = "notify", !.any = TRUE]
          /\ ref' = TooLateFor({alerts[ev.hit.id].def.symbol}) /\ unseen' = unseen \cup {"alerts"}
          /\ loose' = loose \cup {alerts[ev.hit.id].def.symbol}
          /\ owed' = [owed EXCEPT ![ev.hit.id] = @ + 1]
     ELSE /\ ev' = [ev EXCEPT !.at = "notify"]
          /\ UNCHANGED <<alerts, ref, unseen, loose, owed>>
  /\ UNCHANGED <<story, lists, members, market, req, lock, stream, slips, untold, recycled, spent>>

\* The UPDATE asks for status active; no row, no notification.
EvTrigger ==
  /\ ev.at = "trigger"
  /\ IF alerts[ev.hit.id].status = "active"
     THEN /\ alerts' = [alerts EXCEPT ![ev.hit.id] = [status |-> "triggered", def |-> @.def, value |-> ev.hit.value]]
          /\ ev' = [ev EXCEPT !.at = "notify", !.any = TRUE]
          /\ ref' = TooLateFor({alerts[ev.hit.id].def.symbol}) /\ unseen' = unseen \cup {"alerts"}
          /\ loose' = loose \cup {alerts[ev.hit.id].def.symbol}
          /\ owed' = [owed EXCEPT ![ev.hit.id] = @ + 1]
     ELSE /\ ev' = [ev EXCEPT !.at = "check", !.hit = Idle]
          /\ UNCHANGED <<alerts, ref, unseen, loose, owed>>
  /\ UNCHANGED <<story, lists, members, market, req, lock, stream, slips, untold, recycled, spent>>

\* The UPDATE fails: the pass ends with neither bump nor refresh.
EvTriggerFails ==
  /\ ev.at = "trigger" /\ spent.faults < story.faults
  /\ spent' = [spent EXCEPT !.faults = @ + 1]
  /\ ev' = [ev EXCEPT !.at = "idle", !.batch = {}, !.hit = Idle, !.any = FALSE]
  /\ IF ev.any THEN cut' = cut \cup {"alerts"} /\ missed' = missed \cup loose ELSE UNCHANGED slips
  /\ UNCHANGED <<story, tables, market, req, lock, ref, stream, unseen, loose, news>>

\* The push is delivered.
EvNotify ==
  /\ ev.at = "notify"
  /\ owed' = [owed EXCEPT ![ev.hit.id] = @ - 1]
  /\ ev' = [ev EXCEPT !.at = "check", !.hit = Idle]
  /\ UNCHANGED <<story, tables, market, req, lock, ref, stream, unseen, loose, slips, untold, recycled, spent>>

\* It is refused, or lost and timed out after ten seconds: the pass logs that
\* and goes on, and nothing sends it again.
EvNotifyFails ==
  /\ ev.at = "notify" /\ spent.faults < story.faults
  /\ spent' = [spent EXCEPT !.faults = @ + 1]
  /\ untold' = [untold EXCEPT ![ev.hit.id] = @ + 1]
  /\ ev' = [ev EXCEPT !.at = "check", !.hit = Idle]
  /\ UNCHANGED <<story, tables, market, req, lock, ref, stream, unseen, loose, slips, owed, recycled>>

\* Variant: a pass that fired bumps and refreshes nothing.
EvDoneSilently ==
  /\ ev.at = "check" /\ ev.batch = {}
  /\ ev' = [ev EXCEPT !.at = "idle", !.any = FALSE]
  /\ ref' = ref
  /\ UNCHANGED <<story, tables, market, req, lock, stream, unseen, history, spent>>

EvDone ==
  /\ ev.at = "check" /\ ev.batch = {}
  /\ ev' = [ev EXCEPT !.at = "idle", !.any = FALSE]
  /\ ref' = IF ev.any THEN [ref EXCEPT ![Evaluator] = Beginning("alerts")] ELSE ref
  /\ UNCHANGED <<story, tables, market, req, lock, stream, unseen, history, spent>>

(***************************************************************************)
(* The market: quotes reach the cache for the symbols the provider sends;  *)
(* closes are stored, then candles_revision is bumped.                     *)
(***************************************************************************)
Quote ==
  \E x \in socket.provider, p \in Levels :
    /\ price[x] # p /\ spent.moves < story.moves
    /\ price' = [price EXCEPT ![x] = p]
    /\ spent' = [spent EXCEPT !.moves = @ + 1]
    /\ UNCHANGED <<story, tables, drawdown, candles, req, lock, ref, stream, ev, unseen, history>>

StoreCandles ==
  \E x \in Symbols, d \in Levels :
    /\ drawdown[x] # d /\ spent.moves < story.moves
    /\ \E def \in Defs : def.symbol = x /\ ~ NeedsPrice(def)
    /\ drawdown' = [drawdown EXCEPT ![x] = d]
    /\ candles' = [candles EXCEPT !.dirty = TRUE]
    /\ spent' = [spent EXCEPT !.moves = @ + 1]
    /\ UNCHANGED <<story, tables, price, req, lock, ref, stream, ev, unseen, history>>

BumpCandles ==
  /\ candles.dirty
  /\ candles' = [rev |-> candles.rev + 1, dirty |-> FALSE]
  /\ UNCHANGED <<story, tables, price, drawdown, req, lock, ref, stream, ev, unseen, history, spent>>

(***************************************************************************)
(* run_finnhub_stream.  Connecting subscribes the current value without    *)
(* marking it seen; a send that fails ends the loop of sends, and the      *)
(* broken socket is noticed later.                                         *)
(***************************************************************************)
\* Variant: the subscribed set survives the reconnect, so nothing is sent.
ConnectRemembers ==
  /\ socket.state = "down"
  /\ socket' = [state |-> "up", provider |-> socket.provider]
  /\ UNCHANGED <<story, tables, market, req, lock, ref, desired, changed, ev, unseen, history, spent>>

Connect ==
  /\ socket.state = "down"
  /\ socket' = [state |-> "up", provider |-> desired]
  /\ UNCHANGED <<story, tables, market, req, lock, ref, desired, changed, ev, unseen, history, spent>>

ConnectBreaks ==
  \E some \in SUBSET desired :
    /\ socket.state = "down" /\ spent.faults < story.faults
    /\ spent' = [spent EXCEPT !.faults = @ + 1]
    /\ socket' = [state |-> "broken", provider |-> some]
    /\ UNCHANGED <<story, tables, market, req, lock, ref, desired, changed, ev, unseen, history>>

\* On a broken socket a send fails, and the task reconnects.
OnChange ==
  /\ socket.state # "down" /\ changed
  /\ changed' = FALSE
  /\ socket' = IF socket.state = "up" THEN [socket EXCEPT !.provider = desired]
               ELSE [state |-> "down", provider |-> {}]
  /\ UNCHANGED <<story, tables, market, req, lock, ref, desired, ev, unseen, history, spent>>

SocketBreaks ==
  /\ socket.state = "up" /\ spent.faults < story.faults
  /\ spent' = [spent EXCEPT !.faults = @ + 1]
  /\ socket' = [socket EXCEPT !.state = "broken"]
  /\ UNCHANGED <<story, tables, market, req, lock, ref, desired, changed, ev, unseen, history>>

\* The error or the end of the frames.
SocketEnds ==
  /\ socket.state = "broken"
  /\ socket' = [state |-> "down", provider |-> {}]
  /\ UNCHANGED <<story, tables, market, req, lock, ref, desired, changed, ev, unseen, history, spent>>

(***************************************************************************)
(* A crash and the boot after it, which refreshes before it serves.  An    *)
(* alert whose push the crash cut off stays triggered and is never told.   *)
(***************************************************************************)
EvAtBoot == [at |-> "idle", batch |-> {}, prices |-> [x \in Symbols |-> NoData], rev |-> 0,
             cache |-> NothingCached, hit |-> Idle, any |-> FALSE]

Crash ==
  /\ spent.faults < story.faults
  /\ spent' = [spent EXCEPT !.faults = @ + 1]
  /\ req' = [s \in Slots |-> Idle] /\ lock' = Nobody
  /\ ref' = [p \in Procs |-> Resting]
  /\ ev' = EvAtBoot /\ candles' = [rev |-> 0, dirty |-> FALSE]
  /\ price' = [x \in Symbols |-> NoData]
  /\ desired' = ListSymbols \cup AlertSymbols /\ changed' = FALSE
  /\ socket' = [state |-> "down", provider |-> {}]
  /\ unseen' = {} /\ loose' = {} /\ missed' = {} /\ cut' = {}
  /\ untold' = IF ev.at = "notify" THEN [untold EXCEPT ![ev.hit.id] = @ + 1] ELSE untold
  /\ UNCHANGED <<story, tables, drawdown, owed, recycled>>

Armed(defs) ==
  [i \in AlertIds |-> IF i \in DOMAIN defs
                      THEN [status |-> "active", def |-> defs[i], value |-> NoData] ELSE NoRow]

Init ==
  /\ story \in Stories
  /\ lists = story.lists /\ members = [l \in ListIds |-> {}] /\ alerts = Armed(story.armed)
  /\ price = [x \in Symbols |-> NoData] /\ drawdown = [x \in Symbols |-> NoData]
  /\ candles = [rev |-> 0, dirty |-> FALSE]
  /\ req = [s \in Slots |-> Idle] /\ lock = Nobody /\ ref = [p \in Procs |-> Resting]
  /\ desired = AlertSymbols /\ changed = FALSE /\ socket = [state |-> "down", provider |-> {}]
  /\ ev = EvAtBoot
  /\ unseen = {} /\ loose = {} /\ missed = {} /\ cut = {}
  /\ owed = [i \in AlertIds |-> 0] /\ untold = [i \in AlertIds |-> 0]
  /\ recycled = {} /\ spent = [requests |-> 0, moves |-> 0, faults |-> 0]

Request(s) ==
  \/ AddDefault(s) \/ RemoveEverywhere(s) \/ AddToList(s) \/ RemoveFromList(s)
  \/ CreateList(s) \/ DropListCheck(s)
  \/ CreateAlertCheck(s) \/ DeleteAlert(s) \/ DismissAlert(s) \/ RearmCheck(s)

Finish(s) == AddBulk(s) \/ DropList(s) \/ CreateAlert(s) \/ RearmAlert(s)
Refresh(p) == RefreshLists(p) \/ RefreshAlerts(p) \/ RefreshSend(p)
Evaluate == EvLoad \/ EvPrices \/ EvCheck \/ EvTrigger \/ EvNotify \/ EvDone \/ Refresh(Evaluator)
Stream   == Connect \/ OnChange \/ SocketEnds
Market   == Quote \/ StoreCandles
Fault    == \/ EvTriggerFails \/ EvNotifyFails \/ ConnectBreaks \/ SocketBreaks \/ Crash
            \/ \E p \in Procs : RefreshFails(p)
            \/ \E s \in Slots : HangUp(s)

Next ==
  \/ \E s \in Slots : Request(s) \/ Finish(s) \/ Refresh(s)
  \/ Evaluate \/ BumpCandles \/ Stream \/ Market \/ Fault

\* Handlers, the scheduler's tick and the stream's loop always go on; users,
\* the market and faults need not.
Fairness ==
  /\ \A s \in Slots : WF_vars(Finish(s) \/ Refresh(s))
  /\ WF_vars(Evaluate) /\ WF_vars(BumpCandles) /\ WF_vars(Stream)

Spec == Init /\ [][Next]_vars /\ Fairness

-----------------------------------------------------------------------------
(* What the code must keep. *)

Rows == {NoRow} \cup [status : {"active", "triggered", "dismissed"}, def : Defs,
                      value : Levels \cup {NoData}]

\* Every variable has its shape, and only existing lists and alerts are named.
TypeOK ==
  /\ story \in Stories /\ lists \subseteq ListIds /\ members \in [ListIds -> SUBSET Symbols]
  /\ alerts \in [AlertIds -> Rows]
  /\ price \in [Symbols -> Levels \cup {NoData}] /\ drawdown \in [Symbols -> Levels \cup {NoData}]
  /\ candles \in [rev : Nat, dirty : BOOLEAN]
  /\ \A s \in Slots : req[s].at \in {"idle", "add", "drop", "arm", "rearm"}
  /\ lock \in Slots \cup {Nobody}
  /\ ref \in [Procs -> [at : {"no", "lists", "alerts", "send"}, got : SUBSET Symbols,
                        late : SUBSET Symbols, table : {"alerts", "watchlist"}]]
  /\ desired \subseteq Symbols /\ changed \in BOOLEAN
  /\ socket \in [state : {"down", "up", "broken"}, provider : SUBSET Symbols]
  /\ ev.at \in {"idle", "prices", "check", "trigger", "notify"}
  /\ ev.cache \in [Symbols -> Levels \cup {NoData, Absent}]
  /\ unseen \subseteq {"alerts", "watchlist"} /\ cut \subseteq {"alerts", "watchlist"}
  /\ loose \subseteq Symbols /\ missed \subseteq Symbols

\* However deletes of lists interleave, there is a list left for the flat add
\* to find (watchlist_delete refuses the last one, under the lock).
AlwaysAList == lists # {}

\* No symbol belongs to a list that is gone: the flat add takes no lock and may
\* find its list deleted between choosing it and inserting.
NoOrphans == \A l \in ListIds : members[l] # {} => l \in lists

\* The lists survive whatever interleaves.
ListsIntact == TypeOK /\ AlwaysAList /\ NoOrphans

\* An alert has a trigger record exactly when it fired, and the value recorded
\* satisfies the alert's own condition: an alert says when it becomes true.
HonestRow(i) ==
  alerts[i] # NoRow =>
    IF alerts[i].status = "active" THEN alerts[i].value = NoData
    ELSE alerts[i].value # NoData /\ Check(alerts[i].def, alerts[i].value)

\* So it is, whatever happens to an alert while a pass works on it, unless it
\* was deleted and its id given to another that the pass then fired: the update
\* is by id, and 0004_alerts.sql:6 gives the id of a deleted last row again.
FiresOnlyWhenTrue == \A i \in AlertIds \ recycled : HonestRow(i)

\* Each firing is told at most once, nothing that did not fire is told, and a
\* firing goes untold only when its one push was refused, lost or cut off by a
\* crash: a second pass, a delete or a dismissal in between changes none of it.
NoticePerFiring ==
  \A i \in AlertIds : owed[i] = untold[i] + IF ev.at = "notify" /\ ev.hit.id = i THEN 1 ELSE 0

\* A firing is true, and told at most once.
FiringsAreTrue == FiresOnlyWhenTrue /\ NoticePerFiring

Quiet == /\ \A s \in Slots : req[s] = Idle
         /\ \A p \in Procs : ref[p].at = "no"
         /\ ev.at = "idle"

\* Of a symbol no change is waiting for a refresh, the set asks exactly when a
\* list or an active alert names it.
RightUnlessLoose ==
  \A x \in Symbols \ loose : x \in desired <=> x \in ListSymbols \cup AlertSymbols

\* When nothing is under way, the set is wrong at most about the symbols whose
\* own refresh ended after another had read (the last to end wins), or failed,
\* or was dropped with its handler or its pass; nothing refreshes later of its
\* own accord, and the next refresh nobody overtakes mends them all.  A revision
\* is behind its table only when a hang-up or a failed pass cost the bump.
QuietIsCurrent ==
  /\ RightUnlessLoose
  /\ Quiet => loose \subseteq missed /\ unseen \subseteq cut

\* The provider ends up subscribed to exactly the symbols last asked for,
\* across failed sends, broken sockets and changes while connecting.
StreamFollows == <>[](socket.provider = desired)

\* The DrawdownCache holds a failed query's NoData until candles arrive.
Poisoned(x) == /\ ev.cache[x] = NoData /\ drawdown[x] # NoData
               /\ ev.rev = candles.rev /\ ~ candles.dirty

\* An armed alert whose condition stays true does not stay armed, unless the
\* drawdown it needs is a cached failure.
ConditionFires ==
  \A i \in AlertIds :
    ~ <>[](/\ alerts[i].status = "active" /\ AlreadyTrue(alerts[i].def)
           /\ (NeedsPrice(alerts[i].def) \/ ~ Poisoned(alerts[i].def.symbol)))
=============================================================================
