----------------------------- MODULE WatchProofs -----------------------------
(***************************************************************************)
(* Proofs about Watch, for every set of symbols, lists, alerts, slots and  *)
(* stories: the lists stay intact, an alert fires truly and is told of at  *)
(* most once, and the stream's set is right about every symbol but those   *)
(* whose refresh is under way, or was overtaken, failed or dropped.        *)
(*                                                                         *)
(* The inductive invariant has four parts.  Shapes types what TypeOK       *)
(* leaves open.  Lists adds who may delete a list.  Firings adds that the  *)
(* pass under way still speaks of the alerts it read.  Currency adds what  *)
(* each refresh has read so far, and that what is loose is either missed   *)
(* or about to be refreshed.                                               *)
(***************************************************************************)
EXTENDS Watch, FiniteSetTheorems, TLAPS

Readings == Levels \cup {NoData}

Requests == {Idle} \cup [at : {"add"}, list : ListIds, symbol : Symbols]
            \cup [at : {"drop"}, list : ListIds] \cup [at : {"arm"}, def : Defs]
            \cup [at : {"rearm"}, id : AlertIds]

Loaded == [id : AlertIds, def : Defs]
Hits   == [id : AlertIds, def : Defs, value : Levels]

PassShape == [at : {"idle", "prices", "check", "trigger", "notify"}, batch : SUBSET Loaded,
              prices : [Symbols -> Readings], rev : Nat, cache : [Symbols -> Readings \cup {Absent}],
              hit : Hits \cup {Idle}, any : BOOLEAN]

\* The shapes TypeOK leaves open: of a request, of the pass and of the counts.
Shapes ==
  /\ TypeOK
  /\ req \in [Slots -> Requests] /\ recycled \subseteq AlertIds /\ owed \in [AlertIds -> Int]
  /\ untold \in [AlertIds -> Int] /\ ev \in PassShape
  /\ ev.at \in {"trigger", "notify"} => ev.hit \in Hits

\* A request that has still to write has not begun to refresh.
OneThing == \A s \in Slots : ref[s].at # "no" => req[s] = Idle

\* A delete of a list holds the lock, and there is another list.
DropIsLocked ==
  \A s \in Slots : req[s].at = "drop" => lock = s /\ \E k \in lists : k # req[s].list

Lists == AlwaysAList /\ NoOrphans /\ OneThing /\ DropIsLocked

\* What the pass has read of an alert is still so.
SameAlert(i, def) == i \in recycled \/ alerts[i] = NoRow \/ alerts[i].def = def

Firings ==
  /\ FiringsAreTrue
  /\ \A a \in ev.batch : SameAlert(a.id, a.def)
  /\ ev.at = "trigger" => SameAlert(ev.hit.id, ev.hit.def) /\ Check(ev.hit.def, ev.hit.value)

\* Someone will refresh yet.
Pending == ev.any \/ \E p \in Procs : ref[p].at # "no"
\* Someone will bump the revision of table t yet.
Bumping(t) == (t = "alerts" /\ ev.any) \/ \E p \in Procs : ref[p].at = "lists" /\ ref[p].table = t

Watched == ListSymbols \cup AlertSymbols

Currency ==
  /\ ev.at = "idle" => ~ ev.any
  /\ ev.at # "idle" => ref[Evaluator].at = "no"
  /\ \A p \in Procs : ref[p].at = "alerts" =>
       \A x \in Symbols \ ref[p].late : x \in ref[p].got <=> x \in ListSymbols
  /\ \A p \in Procs : ref[p].at = "send" =>
       \A x \in Symbols \ ref[p].late : x \in ref[p].got <=> x \in Watched
  /\ RightUnlessLoose
  /\ Pending \/ loose \subseteq missed
  /\ \A t \in unseen : t \in cut \/ Bumping(t)

IInv == Shapes /\ Lists /\ Firings /\ Currency

-----------------------------------------------------------------------------

RefShape == [at : {"no", "lists", "alerts", "send"}, got : SUBSET Symbols,
             late : SUBSET Symbols, table : {"alerts", "watchlist"}]

\* A refresh that goes on is too late for what another process commits now.
Behind(q, xs) ==
  /\ ref'[q].at = ref[q].at /\ ref'[q].got = ref[q].got /\ ref'[q].table = ref[q].table
  /\ ref[q].at \in {"alerts", "send"} => ref'[q].late = ref[q].late \cup xs

\* The refreshes keep their shape, and every one that has read is behind.
LEMMA FallBehind ==
  ASSUME ref \in [Procs -> RefShape], NEW xs \in SUBSET Symbols
  PROVE  /\ TooLateFor(xs) \in [Procs -> RefShape]
         /\ \A q \in Procs :
              /\ TooLateFor(xs)[q].at = ref[q].at /\ TooLateFor(xs)[q].got = ref[q].got
              /\ TooLateFor(xs)[q].table = ref[q].table
              /\ ref[q].at \in {"alerts", "send"} => TooLateFor(xs)[q].late = ref[q].late \cup xs
<1>1. \A q \in Procs : ref[q] \in RefShape /\ [ref[q] EXCEPT !.late = @ \cup xs] \in RefShape
  BY DEF RefShape
<1>2. \A q \in Procs : TooLateFor(xs)[q] = IF ref[q].at \in {"alerts", "send"}
                                       THEN [ref[q] EXCEPT !.late = @ \cup xs] ELSE ref[q]
  BY DEF TooLateFor
<1>3. TooLateFor(xs) \in [Procs -> RefShape]
  BY <1>1 DEF TooLateFor
<1>4. QED
  BY <1>1, <1>2, <1>3 DEF RefShape

\* A commit starts a refresh of its own and leaves the others behind.
LEMMA CommitStarts ==
  ASSUME ref \in [Procs -> RefShape], NEW p \in Procs, NEW t \in {"alerts", "watchlist"},
         NEW xs \in SUBSET Symbols, Committed(p, t, xs)
  PROVE  /\ ref' \in [Procs -> RefShape]
         /\ ref'[p] = Beginning(t)
         /\ \A q \in Procs : q # p => Behind(q, xs)
         /\ unseen' = unseen \cup {t} /\ loose' = loose \cup xs
<1>1. TooLateFor(xs) \in [Procs -> RefShape]
  BY FallBehind
<1>2. ref' = [TooLateFor(xs) EXCEPT ![p] = Beginning(t)]
  BY DEF Committed
<1>3. Beginning(t) \in RefShape
  BY DEF RefShape, Beginning
<1>4. \A q \in Procs : q # p => ref'[q] = TooLateFor(xs)[q]
  BY <1>1, <1>2
<1>5. QED
  BY <1>1, <1>2, <1>3, <1>4, FallBehind DEF Behind, Committed

\* A refresh that reads a set of symbols keeps its shape.
LEMMA ReadingKeepsShape ==
  ASSUME NEW r \in RefShape, NEW X \in SUBSET Symbols, NEW stage \in {"alerts", "send"}
  PROVE  [r EXCEPT !.at = stage, !.got = X] \in RefShape
  BY DEF RefShape

\* What the two tables name are symbols.
LEMMA SymbolsWatched ==
  ASSUME Shapes
  PROVE  ListSymbols \subseteq Symbols /\ AlertSymbols \subseteq Symbols
  BY WatchAssumption DEF Shapes, TypeOK, Rows, NoRow, ListSymbols, AlertSymbols

\* The first states have the shapes: what a story arms are alerts.
LEMMA InitShapes ==
  Init => Shapes
<1> SUFFICES ASSUME Init PROVE Shapes
  OBVIOUS
<1>1. story \in Stories /\ lists \subseteq ListIds /\ members \in [ListIds -> SUBSET Symbols]
  BY WatchAssumption DEF Init
<1>2. alerts \in [AlertIds -> Rows]
  BY WatchAssumption DEF Init, Armed, Rows
<1>3. AlertSymbols \subseteq Symbols
  BY <1>2, WatchAssumption DEF AlertSymbols, Rows, NoRow
<1>4. ev = EvAtBoot /\ NothingCached \in [Symbols -> Readings \cup {Absent}]
  BY DEF Init, NothingCached
<1>5. ref \in [Procs -> RefShape]
  BY DEF Init, Resting, RefShape
<1>6. req \in [Slots -> Requests] /\ \A s \in Slots : req[s].at = "idle"
  BY DEF Init, Requests, Idle
<1>7. /\ ev \in PassShape
      /\ ev.at = "idle"
  BY <1>4 DEF EvAtBoot, Readings, PassShape
<1>8. TypeOK
  <2>1. candles \in [rev : Nat, dirty : BOOLEAN] /\ socket \in [state : {"down", "up", "broken"}, provider : SUBSET Symbols]
    BY DEF Init
  <2>2. price \in [Symbols -> Readings] /\ drawdown \in [Symbols -> Readings]
    BY DEF Init, Readings
  <2>3. desired \subseteq Symbols /\ lock = Nobody /\ changed = FALSE /\ unseen = {} /\ loose = {} /\ missed = {} /\ cut = {}
    BY <1>3 DEF Init
  <2>4. ev.cache \in [Symbols -> Readings \cup {Absent}] /\ ev.at = "idle"
    BY <1>7 DEF PassShape
  <2>5. QED
    BY <1>1, <1>2, <1>5, <1>6, <2>1, <2>2, <2>3, <2>4 DEF TypeOK, Readings, RefShape
<1>9. QED
  BY <1>6, <1>7, <1>8 DEF Init, Shapes

\* Every step keeps the shapes.
LEMMA ShapesStep ==
  ASSUME Shapes, [Next]_vars
  PROVE  Shapes'
<1>c. ListSymbols \subseteq Symbols /\ AlertSymbols \subseteq Symbols
  BY SymbolsWatched
<1> USE DEF Shapes, TypeOK, PassShape
<1>a. ref \in [Procs -> RefShape]
  BY DEF RefShape
<1>b. \A s \in Slots : s \in Procs
  BY DEF Procs
<1>e. \A i \in AlertIds : alerts[i] # NoRow => alerts[i].def.symbol \in Symbols
  BY WatchAssumption DEF Rows
<1>f. NoRow.status = "none"
  BY DEF NoRow
<1>1. ASSUME NEW s \in Slots, AddDefault(s) PROVE Shapes'
  BY <1>1 DEF AddDefault, Takes, Becomes, Requests, Idle, tables, market, stream, history, slips, news
<1>2. ASSUME NEW s \in Slots, RemoveEverywhere(s) PROVE Shapes'
  <2>0. PICK x \in Symbols : Committed(s, "watchlist", {x})
    BY <1>2, <1>c DEF RemoveEverywhere
  <2>1. ref' \in [Procs -> RefShape] /\ unseen' = unseen \cup {"watchlist"} /\ loose' \subseteq Symbols
    BY <2>0, <1>a, <1>b, CommitStarts
  <2>2. QED
    BY <1>2, <2>1 DEF RemoveEverywhere, Takes, market, stream, history, slips, news, RefShape
<1>3. ASSUME NEW s \in Slots, AddToList(s) PROVE Shapes'
  BY <1>3 DEF AddToList, Takes, Becomes, Requests, Idle, tables, market, stream, history, slips, news
<1>4. ASSUME NEW s \in Slots, RemoveFromList(s) PROVE Shapes'
  <2>0. PICK x \in Symbols : Committed(s, "watchlist", {x})
    BY <1>4, <1>c DEF RemoveFromList
  <2>1. ref' \in [Procs -> RefShape] /\ unseen' = unseen \cup {"watchlist"} /\ loose' \subseteq Symbols
    BY <2>0, <1>a, <1>b, CommitStarts
  <2>2. QED
    BY <1>4, <2>1 DEF RemoveFromList, Takes, market, stream, history, slips, news, RefShape
<1>5. ASSUME NEW s \in Slots, CreateList(s) PROVE Shapes'
  BY <1>5 DEF CreateList, Takes, market, stream, history, slips, news
<1>6. ASSUME NEW s \in Slots, DropListCheck(s) PROVE Shapes'
  BY <1>6 DEF DropListCheck, Takes, Becomes, Requests, Idle, tables, market, stream, history, slips, news
<1>7. ASSUME NEW s \in Slots, CreateAlertCheck(s) PROVE Shapes'
  BY <1>7 DEF CreateAlertCheck, Takes, Becomes, Requests, Idle, tables, market, stream, history, slips, news
<1>8. ASSUME NEW s \in Slots, DeleteAlert(s) PROVE Shapes'
  <2>0. PICK x \in Symbols : Committed(s, "alerts", {x})
    BY <1>8, <1>e DEF DeleteAlert
  <2>1. ref' \in [Procs -> RefShape] /\ unseen' = unseen \cup {"alerts"} /\ loose' \subseteq Symbols
    BY <2>0, <1>a, <1>b, CommitStarts
  <2>2. alerts' \in [AlertIds -> Rows]
    BY <1>8 DEF DeleteAlert, Rows
  <2>3. QED
    BY <1>8, <2>1, <2>2 DEF DeleteAlert, Takes, market, stream, history, slips, news, RefShape
<1>9. ASSUME NEW s \in Slots, DismissAlert(s) PROVE Shapes'
  <2>0. PICK x \in Symbols : Committed(s, "alerts", {x})
    BY <1>9, <1>e, <1>f DEF DismissAlert
  <2>1. ref' \in [Procs -> RefShape] /\ unseen' = unseen \cup {"alerts"} /\ loose' \subseteq Symbols
    BY <2>0, <1>a, <1>b, CommitStarts
  <2>2. alerts' \in [AlertIds -> Rows]
    BY <1>9 DEF DismissAlert, Rows, NoRow
  <2>3. QED
    BY <1>9, <2>1, <2>2 DEF DismissAlert, Takes, market, stream, history, slips, news, RefShape
<1>10. ASSUME NEW s \in Slots, RearmCheck(s) PROVE Shapes'
  BY <1>10 DEF RearmCheck, Takes, Becomes, Requests, Idle, tables, market, stream, history, slips, news
<1>11. ASSUME NEW s \in Slots, AddBulk(s) PROVE Shapes'
  <2>0. req[s] \in [at : {"add"}, list : ListIds, symbol : Symbols]
    BY <1>11 DEF AddBulk, Requests, Idle
  <2>b. (\E xs \in SUBSET Symbols : Committed(s, "watchlist", xs)) \/ UNCHANGED <<ref, unseen, loose>>
    BY <1>11, <2>0, <1>e, WatchAssumption DEF AddBulk
  <2>1. ref' \in [Procs -> RefShape] /\ unseen' \subseteq {"alerts", "watchlist"} /\ loose' \subseteq Symbols
    <3>1. ASSUME NEW xs \in SUBSET Symbols, NEW t \in {"alerts", "watchlist"}, Committed(s, t, xs)
          PROVE  ref' \in [Procs -> RefShape] /\ unseen' \subseteq {"alerts", "watchlist"} /\ loose' \subseteq Symbols
      <4>1. ref' \in [Procs -> RefShape] /\ unseen' = unseen \cup {t} /\ loose' = loose \cup xs
        BY <3>1, <1>a, <1>b, CommitStarts
      <4>2. QED
        BY <4>1
    <3>2. QED
      BY <2>b, <1>a, <3>1
  <2>2. members' \in [ListIds -> SUBSET Symbols]
    BY <1>11, <2>0 DEF AddBulk
  <2>3. req' \in [Slots -> Requests] /\ \A q \in Slots : req'[q].at \in {"idle", "add", "drop", "arm", "rearm"}
    BY <1>11 DEF AddBulk, Becomes, Requests, Idle
  <2>4. QED
    BY <1>11, <2>1, <2>2, <2>3 DEF AddBulk, market, stream, history, slips, news, RefShape
<1>12. ASSUME NEW s \in Slots, DropList(s) PROVE Shapes'
  <2>0. req[s] \in [at : {"drop"}, list : ListIds]
    BY <1>12 DEF DropList, Requests, Idle
  <2>b. (\E xs \in SUBSET Symbols : Committed(s, "watchlist", xs)) \/ UNCHANGED <<ref, unseen, loose>>
    BY <1>12, <2>0, <1>e, WatchAssumption DEF DropList
  <2>1. ref' \in [Procs -> RefShape] /\ unseen' \subseteq {"alerts", "watchlist"} /\ loose' \subseteq Symbols
    <3>1. ASSUME NEW xs \in SUBSET Symbols, NEW t \in {"alerts", "watchlist"}, Committed(s, t, xs)
          PROVE  ref' \in [Procs -> RefShape] /\ unseen' \subseteq {"alerts", "watchlist"} /\ loose' \subseteq Symbols
      <4>1. ref' \in [Procs -> RefShape] /\ unseen' = unseen \cup {t} /\ loose' = loose \cup xs
        BY <3>1, <1>a, <1>b, CommitStarts
      <4>2. QED
        BY <4>1
    <3>2. QED
      BY <2>b, <1>a, <3>1
  <2>2. members' \in [ListIds -> SUBSET Symbols]
    BY <1>12, <2>0 DEF DropList
  <2>3. req' \in [Slots -> Requests] /\ \A q \in Slots : req'[q].at \in {"idle", "add", "drop", "arm", "rearm"}
    BY <1>12 DEF DropList, Becomes, Requests, Idle
  <2>4. QED
    BY <1>12, <2>1, <2>2, <2>3 DEF DropList, market, stream, history, slips, news, RefShape
<1>13. ASSUME NEW s \in Slots, CreateAlert(s) PROVE Shapes'
  <2>0. req[s] \in [at : {"arm"}, def : Defs]
    BY <1>13 DEF CreateAlert, Requests, Idle
  <2>b. (\E xs \in SUBSET Symbols : Committed(s, "alerts", xs)) \/ UNCHANGED <<ref, unseen, loose>>
    BY <1>13, <2>0, <1>e, WatchAssumption DEF CreateAlert
  <2>1. ref' \in [Procs -> RefShape] /\ unseen' \subseteq {"alerts", "watchlist"} /\ loose' \subseteq Symbols
    <3>1. ASSUME NEW xs \in SUBSET Symbols, NEW t \in {"alerts", "watchlist"}, Committed(s, t, xs)
          PROVE  ref' \in [Procs -> RefShape] /\ unseen' \subseteq {"alerts", "watchlist"} /\ loose' \subseteq Symbols
      <4>1. ref' \in [Procs -> RefShape] /\ unseen' = unseen \cup {t} /\ loose' = loose \cup xs
        BY <3>1, <1>a, <1>b, CommitStarts
      <4>2. QED
        BY <4>1
    <3>2. QED
      BY <2>b, <1>a, <3>1
  <2>2. alerts' \in [AlertIds -> Rows] /\ recycled' \subseteq AlertIds
    BY <1>13, <2>0 DEF CreateAlert, Rows
  <2>3. req' \in [Slots -> Requests] /\ \A q \in Slots : req'[q].at \in {"idle", "add", "drop", "arm", "rearm"}
    BY <1>13 DEF CreateAlert, Becomes, Requests, Idle
  <2>4. QED
    BY <1>13, <2>1, <2>2, <2>3 DEF CreateAlert, market, stream, history, slips, news, RefShape
<1>14. ASSUME NEW s \in Slots, RearmAlert(s) PROVE Shapes'
  <2>0. req[s] \in [at : {"rearm"}, id : AlertIds]
    BY <1>14 DEF RearmAlert, Requests, Idle
  <2>b. (\E xs \in SUBSET Symbols : Committed(s, "alerts", xs)) \/ UNCHANGED <<ref, unseen, loose>>
    BY <1>14, <2>0, <1>e, WatchAssumption DEF RearmAlert
  <2>1. ref' \in [Procs -> RefShape] /\ unseen' \subseteq {"alerts", "watchlist"} /\ loose' \subseteq Symbols
    <3>1. ASSUME NEW xs \in SUBSET Symbols, NEW t \in {"alerts", "watchlist"}, Committed(s, t, xs)
          PROVE  ref' \in [Procs -> RefShape] /\ unseen' \subseteq {"alerts", "watchlist"} /\ loose' \subseteq Symbols
      <4>1. ref' \in [Procs -> RefShape] /\ unseen' = unseen \cup {t} /\ loose' = loose \cup xs
        BY <3>1, <1>a, <1>b, CommitStarts
      <4>2. QED
        BY <4>1
    <3>2. QED
      BY <2>b, <1>a, <3>1
  <2> DEFINE i == req[s].id
             row == [status |-> "active", def |-> alerts[i].def, value |-> NoData]
  <2>a. alerts[i] # NoRow => row \in Rows
    BY <2>0 DEF Rows
  <2>2. alerts' \in [AlertIds -> Rows]
    <3>1. CASE alerts[i] # NoRow
      <4>1. alerts' = [alerts EXCEPT ![i] = row]
        BY <1>14, <3>1 DEF RearmAlert
      <4> HIDE DEF row
      <4>2. QED
        BY <2>0, <2>a, <3>1, <4>1
    <3>2. CASE alerts[i] = NoRow
      BY <1>14, <3>2 DEF RearmAlert
    <3>3. QED
      BY <3>1, <3>2
  <2>3. req' \in [Slots -> Requests] /\ \A q \in Slots : req'[q].at \in {"idle", "add", "drop", "arm", "rearm"}
    BY <1>14 DEF RearmAlert, Becomes, Requests, Idle
  <2>4. QED
    BY <1>14, <2>1, <2>2, <2>3 DEF RearmAlert, market, stream, history, slips, news, RefShape
<1>15. ASSUME NEW p \in Procs, RefreshLists(p) PROVE Shapes'
  <2>1. ref' \in [Procs -> RefShape]
    <3>1. ref' = [ref EXCEPT ![p] = [ref[p] EXCEPT !.at = "alerts", !.got = ListSymbols]]
      BY <1>15, <1>a DEF RefreshLists
    <3>2. [ref[p] EXCEPT !.at = "alerts", !.got = ListSymbols] \in RefShape
      BY <1>a, <1>c, ReadingKeepsShape
    <3>3. QED
      BY <1>a, <3>1, <3>2
  <2>2. QED
    BY <1>15, <2>1 DEF RefreshLists, tables, market, stream, history, slips, news, RefShape
<1>16. ASSUME NEW p \in Procs, RefreshAlerts(p) PROVE Shapes'
  <2>1. ref' \in [Procs -> RefShape]
    <3>1. ref' = [ref EXCEPT ![p] = [ref[p] EXCEPT !.at = "send", !.got = ref[p].got \cup AlertSymbols]]
      BY <1>16 DEF RefreshAlerts
    <3>2. [ref[p] EXCEPT !.at = "send", !.got = ref[p].got \cup AlertSymbols] \in RefShape
      <4>1. ref[p] \in RefShape /\ ref[p].got \cup AlertSymbols \in SUBSET Symbols
        BY <1>a, <1>c DEF RefShape
      <4>2. QED
        BY <4>1, ReadingKeepsShape
    <3>3. QED
      BY <1>a, <3>1, <3>2
  <2>2. QED
    BY <1>16, <2>1 DEF RefreshAlerts, tables, market, stream, history, slips, news, RefShape
<1>17a. ASSUME NEW p \in Procs, RefreshFails(p) \/ (p \in Slots /\ HangUp(p)) PROVE Shapes'
  <2>1. ref' = [ref EXCEPT ![p] = Resting] /\ Resting \in RefShape
    BY <1>17a DEF RefreshFails, HangUp, Stops, Resting, RefShape
  <2>2. ref' \in [Procs -> RefShape]
    BY <1>a, <2>1
  <2>3. ref[p].table \in {"alerts", "watchlist"}
    BY <1>a DEF RefShape
  <2>4. cut' \subseteq {"alerts", "watchlist"} /\ unseen' \subseteq unseen /\ missed' \subseteq Symbols
    BY <1>17a, <2>3 DEF RefreshFails, HangUp, Stops
  <2>5. req' \in [Slots -> Requests] /\ \A q \in Slots : req'[q].at \in {"idle", "add", "drop", "arm", "rearm"}
    <3>1. req' = req \/ (p \in Slots /\ req' = [req EXCEPT ![p] = Idle])
      BY <1>17a DEF RefreshFails, HangUp, Becomes
    <3>2. QED
      BY <3>1 DEF Requests, Idle
  <2>6. /\ lock' \in Slots \cup {Nobody}
        /\ UNCHANGED <<story, lists, members, alerts, price, drawdown, candles, desired, changed, socket, ev,
                       loose, owed, untold, recycled>>
    BY <1>17a DEF RefreshFails, HangUp, Stops, tables, market, stream, news
  <2>7. QED
    BY <2>2, <2>4, <2>5, <2>6 DEF RefShape
<1>17. ASSUME NEW p \in Procs, RefreshSend(p) PROVE Shapes'
  BY <1>17 DEF RefreshSend, Resting, tables, market, stream, history, slips, news
<1>18. CASE EvLoad
  <2>1. \A i \in AlertIds : alerts[i].status = "active" => alerts[i].def \in Defs
    BY DEF Rows, NoRow
  <2>2. ev'.batch \subseteq Loaded
    BY <1>18, <2>1 DEF EvLoad, Loaded
  <2>3. QED
    BY <1>18, <2>2 DEF EvLoad, tables, market, stream, history, slips, news
<1>19. CASE EvPrices
  BY <1>19 DEF EvPrices, NothingCached, Readings, tables, market, stream, history, slips, news
<1>20. CASE EvCheck
  <2>1. PICK a \in ev.batch, failed \in BOOLEAN : EvCheck!(a, failed)
    BY <1>20 DEF EvCheck
  <2> DEFINE obs == EvObserve(a.def, failed)
  <2>2. a.id \in AlertIds /\ a.def \in Defs /\ a.def.symbol \in Symbols
    BY WatchAssumption DEF Loaded
  <2>3. obs \in Readings
    BY <2>2 DEF EvObserve, Readings
  <2>4. [id |-> a.id, def |-> a.def, value |-> obs] \in Hits \/ obs = NoData
    BY <2>2, <2>3 DEF Hits, Readings
  <2> HIDE DEF obs
  <2>5. /\ UNCHANGED <<story, lists, members, alerts, price, drawdown, candles, req, lock, ref, desired,
                       changed, socket, unseen, loose, missed, cut, owed, untold, recycled>>
        /\ ev' = [ev EXCEPT !.batch = @ \ {a},
                !.cache = IF NeedsPrice(a.def) THEN @ ELSE [@ EXCEPT ![a.def.symbol] = obs],
                !.at = IF obs # NoData /\ Check(a.def, obs) THEN "trigger" ELSE "check",
                !.hit = IF obs # NoData /\ Check(a.def, obs)
                        THEN [id |-> a.id, def |-> a.def, value |-> obs] ELSE Idle]
    BY <2>1 DEF obs, tables, market, stream, history, slips, news
  <2>6. (IF NeedsPrice(a.def) THEN ev.cache ELSE [ev.cache EXCEPT ![a.def.symbol] = obs])
          \in [Symbols -> Readings \cup {Absent}]
    BY <2>2, <2>3
  <2>7. /\ ev' \in PassShape
        /\ ev'.at \in {"trigger", "notify"} => ev'.hit \in Hits
    BY <2>4, <2>5, <2>6
  <2>8. QED
    BY <2>5, <2>7 DEF Readings
<1>21. CASE EvTrigger
  <2>1. ev.hit \in Hits
    BY <1>21 DEF EvTrigger
  <2> DEFINE i == ev.hit.id
             row == [status |-> "triggered", def |-> alerts[i].def, value |-> ev.hit.value]
  <2>a. i \in AlertIds /\ (alerts[i].status = "active" => row \in Rows)
    BY <2>1 DEF Rows, NoRow, Hits
  <2>2. alerts' \in [AlertIds -> Rows] /\ owed' \in [AlertIds -> Int]
    <3>1. CASE alerts[i].status = "active"
      <4>1. alerts' = [alerts EXCEPT ![i] = row] /\ owed' = [owed EXCEPT ![i] = @ + 1]
        BY <1>21, <3>1 DEF EvTrigger
      <4> HIDE DEF row
      <4>2. QED
        BY <2>a, <3>1, <4>1
    <3>2. CASE alerts[i].status # "active"
      BY <1>21, <3>2 DEF EvTrigger
    <3>3. QED
      BY <3>1, <3>2
  <2>4. /\ ev' \in PassShape
        /\ ev'.at \in {"trigger", "notify"} => ev'.hit \in Hits
    <3>1. ev' = [ev EXCEPT !.at = "notify", !.any = TRUE] \/ ev' = [ev EXCEPT !.at = "check", !.hit = Idle]
      BY <1>21 DEF EvTrigger
    <3>2. ev \in PassShape
      OBVIOUS
    <3>3. CASE ev' = [ev EXCEPT !.at = "notify", !.any = TRUE]
      BY <2>1, <3>2, <3>3
    <3>4. CASE ev' = [ev EXCEPT !.at = "check", !.hit = Idle]
      BY <3>2, <3>4
    <3>5. QED
      BY <3>1, <3>3, <3>4
  <2>3. ref' \in [Procs -> RefShape] /\ unseen' \subseteq {"alerts", "watchlist"} /\ loose' \subseteq Symbols
    <3>1. CASE alerts[i].status = "active"
      <4>1. {alerts[i].def.symbol} \in SUBSET Symbols
        BY <1>e, <1>f, <2>a, <3>1
      <4>2. ref' = TooLateFor({alerts[i].def.symbol}) /\ loose' = loose \cup {alerts[i].def.symbol}
            /\ unseen' = unseen \cup {"alerts"}
        BY <1>21, <3>1 DEF EvTrigger
      <4>3. QED
        BY <1>a, <4>1, <4>2, FallBehind
    <3>2. CASE alerts[i].status # "active"
      BY <1>21, <3>2, <1>a DEF EvTrigger
    <3>3. QED
      BY <3>1, <3>2
  <2>6. UNCHANGED <<story, lists, members, price, drawdown, candles, req, lock, desired, changed, socket,
                    missed, cut, untold, recycled>>
    BY <1>21 DEF EvTrigger, market, stream, slips
  <2>5. QED
    BY <2>2, <2>3, <2>4, <2>6 DEF RefShape, Readings
<1>22. CASE EvTriggerFails
  BY <1>22 DEF EvTriggerFails, tables, market, stream, history, slips, news
<1>23. CASE EvNotify
  <2>1. ev.hit \in Hits
    BY <1>23 DEF EvNotify
  <2>2. owed' \in [AlertIds -> Int]
    BY <1>23, <2>1 DEF EvNotify, Hits
  <2>3. QED
    BY <1>23, <2>2 DEF EvNotify, tables, market, stream, slips
<1>23a. CASE EvNotifyFails
  <2>1. ev.hit \in Hits
    BY <1>23a DEF EvNotifyFails
  <2>2. untold' \in [AlertIds -> Int]
    BY <1>23a, <2>1 DEF EvNotifyFails, Hits
  <2>3. QED
    BY <1>23a, <2>2 DEF EvNotifyFails, tables, market, stream, slips
<1>24. CASE EvDone
  <2>1. ref' \in [Procs -> RefShape]
    BY <1>24, <1>a DEF EvDone, Beginning, RefShape, Procs
  <2>2. QED
    BY <1>24, <2>1 DEF EvDone, tables, market, stream, history, slips, news, RefShape
<1>25. CASE Quote
  <2>1. price' \in [Symbols -> Readings]
    BY <1>25 DEF Quote, Readings
  <2>2. QED
    BY <1>25, <2>1 DEF Quote, tables, stream, history, slips, news, Readings
<1>26. CASE StoreCandles
  <2>0. drawdown' \in [Symbols -> Readings]
    BY <1>26 DEF StoreCandles, Readings
  <2>1. candles' \in [rev : Nat, dirty : BOOLEAN]
    BY <1>26 DEF StoreCandles
  <2>2. QED
    BY <1>26, <2>0, <2>1 DEF StoreCandles, tables, stream, history, slips, news, Readings
<1>27. CASE BumpCandles
  BY <1>27 DEF BumpCandles, tables, stream, history, slips, news
<1>28. CASE Connect \/ ConnectBreaks \/ OnChange \/ SocketBreaks \/ SocketEnds
  <2>1. socket' \in [state : {"down", "up", "broken"}, provider : SUBSET Symbols]
    BY <1>28 DEF Connect, ConnectBreaks, OnChange, SocketBreaks, SocketEnds
  <2>2. /\ UNCHANGED <<story, lists, members, alerts, price, drawdown, candles, req, lock, ref, desired,
                       ev, unseen, loose, missed, cut, owed, untold, recycled>>
        /\ changed' \in BOOLEAN
    BY <1>28 DEF Connect, ConnectBreaks, OnChange, SocketBreaks, SocketEnds, tables, market, history, slips, news
  <2>3. QED
    BY <2>1, <2>2
<1>29. CASE Crash
  <2>1. NothingCached \in [Symbols -> Readings \cup {Absent}]
    BY DEF NothingCached
  <2>2. ref' \in [Procs -> RefShape]
    BY <1>29 DEF Crash, Resting, RefShape
  <2>3. /\ ev' \in PassShape
        /\ ev'.at = "idle"
    BY <1>29, <2>1 DEF Crash, EvAtBoot, Readings
  <2>4. req' \in [Slots -> Requests] /\ \A q \in Slots : req'[q].at = "idle"
    BY <1>29 DEF Crash, Requests, Idle
  <2>5. desired' \subseteq Symbols
    BY <1>29, <1>c DEF Crash
  <2>a. price' \in [Symbols -> Readings]
    BY <1>29 DEF Crash, Readings
  <2>b. candles' \in [rev : Nat, dirty : BOOLEAN]
    BY <1>29 DEF Crash
  <2>c. socket' \in [state : {"down", "up", "broken"}, provider : SUBSET Symbols]
    BY <1>29 DEF Crash
  <2>d. untold' \in [AlertIds -> Int]
    <3>1. ev.at = "notify" => ev.hit.id \in AlertIds
      BY DEF Hits
    <3>2. QED
      BY <1>29, <3>1 DEF Crash
  <2>6. /\ lock' \in Slots \cup {Nobody} /\ changed' \in BOOLEAN
        /\ unseen' = {} /\ loose' = {} /\ missed' = {} /\ cut' = {}
        /\ UNCHANGED <<story, lists, members, alerts, drawdown, owed, recycled>>
    BY <1>29 DEF Crash, tables
  <2>7. QED
    BY <2>2, <2>3, <2>4, <2>5, <2>6, <2>a, <2>b, <2>c, <2>d DEF RefShape, Readings
<1>30. CASE UNCHANGED vars
  BY <1>30 DEF vars
<1>31. QED
  BY <1>1, <1>2, <1>3, <1>4, <1>5, <1>6, <1>7, <1>8, <1>9, <1>10, <1>11, <1>12, <1>13, <1>14, <1>15,
     <1>16, <1>17, <1>18, <1>19, <1>20, <1>21, <1>22, <1>23, <1>24, <1>25, <1>26, <1>27, <1>28, <1>29,
     <1>30, <1>17a, <1>23a
  DEF Next, Request, Finish, Refresh, Evaluate, Stream, Market, Fault, Procs
-----------------------------------------------------------------------------

\* Nothing but the lists, the requests, the lock and who is refreshing matters.
LEMMA ListsFrame ==
  ASSUME Lists, UNCHANGED <<lists, members, req, lock>>, \A s \in Slots : ref'[s].at = ref[s].at
  PROVE  Lists'
  BY DEF Lists, AlwaysAList, NoOrphans, OneThing, DropIsLocked

\* A request that commits has nothing left to write; the others are unaffected.
LEMMA CommitIsOneThing ==
  ASSUME Shapes, OneThing, NEW s \in Slots, NEW t \in {"alerts", "watchlist"}, NEW xs \in SUBSET Symbols,
         Committed(s, t, xs),
         req'[s] = Idle, \A q \in Slots : q # s => req'[q] = req[q]
  PROVE  OneThing'
<1>1. ref \in [Procs -> RefShape] /\ \A q \in Slots : q \in Procs
  BY DEF Shapes, TypeOK, RefShape, Procs
<1>2. \A q \in Slots : q # s => ref'[q].at = ref[q].at
  BY <1>1, CommitStarts DEF Behind
<1>3. QED
  BY <1>2 DEF OneThing

\* Of two or more lists there is another than any given one.
LEMMA AnotherList ==
  ASSUME NEW S, Cardinality(S) > 1, NEW l
  PROVE  \E k \in S : k # l
<1>1. SUFFICES ASSUME S \subseteq {l} PROVE FALSE
  OBVIOUS
<1>2. S = {} \/ S = {l}
  BY <1>1
<1>3. Cardinality(S) \in {0, 1}
  BY <1>2, FS_EmptySet, FS_Singleton
<1>4. QED
  BY <1>3

\* Every step keeps the lists intact: a delete found a second list under the
\* lock, nothing else removes one, and an insert looks for its list itself.
LEMMA ListsStep ==
  ASSUME Shapes, Lists, [Next]_vars
  PROVE  Lists'
<1>a. ref \in [Procs -> RefShape] /\ \A s \in Slots : s \in Procs /\ s # Evaluator
  BY WatchAssumption DEF Shapes, TypeOK, RefShape, Procs
<1>b. /\ lists \subseteq ListIds /\ members \in [ListIds -> SUBSET Symbols]
      /\ lock \in Slots \cup {Nobody} /\ Nobody \notin Slots /\ req \in [Slots -> Requests]
  BY WatchAssumption DEF Shapes, TypeOK
<1>c. AlwaysAList /\ NoOrphans /\ OneThing /\ DropIsLocked
  BY DEF Lists
<1>d. \A x \in Symbols : \A q \in Procs : TooLateFor({x})[q].at = ref[q].at
  BY <1>a, FallBehind
<1>e. /\ ListSymbols \subseteq Symbols
      /\ \A i \in AlertIds : alerts[i] # NoRow => alerts[i].def.symbol \in Symbols
      /\ NoRow.status = "none"
  BY SymbolsWatched, WatchAssumption DEF Shapes, TypeOK, Rows, NoRow
<1>1. ASSUME NEW s \in Slots, AddDefault(s) PROVE Lists'
  <2>1. UNCHANGED <<lists, members, lock, ref>> /\ ref[s].at = "no"
    BY <1>1 DEF AddDefault, Takes, tables
  <2>2. req'[s].at = "add" /\ \A q \in Slots : q # s => req'[q] = req[q]
    BY <1>1, <1>b DEF AddDefault, Becomes
  <2>3. QED
    BY <1>c, <2>1, <2>2 DEF Lists, AlwaysAList, NoOrphans, OneThing, DropIsLocked
<1>2. ASSUME NEW s \in Slots, RemoveEverywhere(s) PROVE Lists'
  <2>1. UNCHANGED <<lists, lock, req>> /\ req[s] = Idle /\ \E x \in Symbols : Committed(s, "watchlist", {x})
    BY <1>2, <1>b, <1>e DEF RemoveEverywhere, Takes
  <2>2. OneThing'
    BY <1>b, <1>c, <2>1, CommitIsOneThing
  <2>3. \A l \in ListIds : members'[l] \subseteq members[l]
    BY <1>2, <1>b DEF RemoveEverywhere
  <2>4. QED
    BY <1>b, <1>c, <2>1, <2>2, <2>3 DEF Lists, AlwaysAList, NoOrphans, DropIsLocked
<1>3. ASSUME NEW s \in Slots, AddToList(s) PROVE Lists'
  <2>1. UNCHANGED <<lists, members, ref>> /\ ref[s].at = "no" /\ lock = Nobody
    BY <1>3 DEF AddToList, Takes, tables
  <2>2. req'[s].at = "add" /\ \A q \in Slots : q # s => req'[q] = req[q]
    BY <1>3, <1>b DEF AddToList, Becomes
  <2>3. QED
    BY <1>b, <1>c, <2>1, <2>2 DEF Lists, AlwaysAList, NoOrphans, OneThing, DropIsLocked
<1>4. ASSUME NEW s \in Slots, RemoveFromList(s) PROVE Lists'
  <2>1. UNCHANGED <<lists, req>> /\ req[s] = Idle /\ lock = Nobody /\ \E x \in Symbols : Committed(s, "watchlist", {x})
    BY <1>4, <1>b DEF RemoveFromList, Takes
  <2>2. OneThing'
    BY <1>b, <1>c, <2>1, CommitIsOneThing
  <2>3. \A l \in ListIds : members'[l] \subseteq members[l]
    BY <1>4, <1>b DEF RemoveFromList
  <2>4. QED
    BY <1>b, <1>c, <2>1, <2>2, <2>3 DEF Lists, AlwaysAList, NoOrphans, DropIsLocked
<1>5. ASSUME NEW s \in Slots, CreateList(s) PROVE Lists'
  <2>1. UNCHANGED <<members, req, lock, ref>> /\ lists \subseteq lists'
    BY <1>5 DEF CreateList
  <2>2. QED
    BY <1>c, <2>1 DEF Lists, AlwaysAList, NoOrphans, OneThing, DropIsLocked
<1>6. ASSUME NEW s \in Slots, DropListCheck(s) PROVE Lists'
  <2>1. UNCHANGED <<lists, members, ref>> /\ ref[s].at = "no" /\ lock = Nobody /\ lock' = s /\ Cardinality(lists) > 1
    BY <1>6 DEF DropListCheck, Takes, tables
  <2>2. PICK l \in ListIds : req' = [req EXCEPT ![s] = [at |-> "drop", list |-> l]]
    BY <1>6 DEF DropListCheck, Becomes
  <2>3. req'[s].list = l /\ \A q \in Slots : q # s => req'[q] = req[q]
    BY <1>b, <2>2
  <2>4. \E k \in lists : k # l
    BY <2>1, AnotherList
  <2>5. QED
    BY <1>b, <1>c, <2>1, <2>3, <2>4 DEF Lists, AlwaysAList, NoOrphans, OneThing, DropIsLocked
<1>7. ASSUME NEW s \in Slots, CreateAlertCheck(s) \/ RearmCheck(s) PROVE Lists'
  <2>1. UNCHANGED <<lists, members, lock, ref>> /\ ref[s].at = "no"
    BY <1>7 DEF CreateAlertCheck, RearmCheck, Takes, tables
  <2>2. req'[s].at # "drop" /\ \A q \in Slots : q # s => req'[q] = req[q]
    BY <1>7, <1>b DEF CreateAlertCheck, RearmCheck, Becomes
  <2>3. QED
    BY <1>c, <2>1, <2>2 DEF Lists, AlwaysAList, NoOrphans, OneThing, DropIsLocked
<1>8. ASSUME NEW s \in Slots, DeleteAlert(s) \/ DismissAlert(s) PROVE Lists'
  <2>1. UNCHANGED <<lists, members, lock, req>> /\ req[s] = Idle /\ \E x \in Symbols : Committed(s, "alerts", {x})
    BY <1>8, <1>e DEF DeleteAlert, DismissAlert, Takes
  <2>2. OneThing'
    BY <1>b, <1>c, <2>1, CommitIsOneThing
  <2>3. QED
    BY <1>c, <2>1, <2>2 DEF Lists, AlwaysAList, NoOrphans, DropIsLocked
<1>9. ASSUME NEW s \in Slots, AddBulk(s) PROVE Lists'
  <2>1. req[s].at = "add" /\ req[s] # Idle /\ req[s].list \in ListIds
    BY <1>9, <1>b DEF AddBulk, Requests, Idle
  <2>2. lists' = lists /\ req'[s] = Idle /\ \A q \in Slots : q # s => req'[q] = req[q]
    BY <1>9, <1>b DEF AddBulk, Becomes
  <2>3. lock' = lock \/ lock = s
    BY <1>9 DEF AddBulk
  <2>4. CASE req[s].list \in lists
    <3>1. /\ members' = [members EXCEPT ![req[s].list] = @ \cup {req[s].symbol}]
          /\ Committed(s, "watchlist", {req[s].symbol}) /\ {req[s].symbol} \in SUBSET Symbols
      BY <1>9, <1>b, <2>4 DEF AddBulk, Requests, Idle
    <3>2. OneThing'
      BY <1>b, <1>c, <2>2, <3>1, CommitIsOneThing
    <3>3. NoOrphans'
      BY <1>b, <1>c, <2>2, <2>4, <3>1 DEF NoOrphans
    <3>4. QED
      BY <1>b, <1>c, <2>1, <2>2, <2>3, <3>2, <3>3 DEF Lists, AlwaysAList, DropIsLocked, Idle
  <2>5. CASE req[s].list \notin lists
    <3>1. UNCHANGED <<members, ref>>
      BY <1>9, <2>5 DEF AddBulk
    <3>2. QED
      BY <1>b, <1>c, <2>1, <2>2, <2>3, <3>1 DEF Lists, AlwaysAList, NoOrphans, OneThing, DropIsLocked, Idle
  <2>6. QED
    BY <2>4, <2>5
<1>10. ASSUME NEW s \in Slots, DropList(s) PROVE Lists'
  <2> DEFINE gone == req[s].list
  <2>1. req[s].at = "drop" /\ req[s] # Idle /\ gone \in ListIds
    BY <1>10, <1>b DEF DropList, Requests, Idle
  <2>2. /\ lists' = lists \ {gone} /\ req'[s] = Idle /\ \A q \in Slots : q # s => req'[q] = req[q]
        /\ members' = [members EXCEPT ![gone] = {}]
    BY <1>10, <1>b DEF DropList, Becomes
  <2>3. lock = s /\ \E k \in lists : k # gone
    BY <1>c, <2>1 DEF DropIsLocked
  <2> HIDE DEF gone
  <2>4. \A q \in Slots : req'[q].at # "drop"
    BY <1>c, <2>2, <2>3 DEF DropIsLocked, Idle
  <2>5. AlwaysAList' /\ DropIsLocked'
    BY <2>2, <2>3, <2>4 DEF AlwaysAList, DropIsLocked
  <2>6. NoOrphans'
    BY <1>b, <1>c, <2>1, <2>2 DEF NoOrphans
  <2>7. OneThing'
    <3>1. CASE req[s].list \in lists
      <4>1. Committed(s, "watchlist", members[req[s].list]) /\ members[req[s].list] \in SUBSET Symbols
        BY <1>10, <1>b, <3>1 DEF DropList
      <4>2. QED
        BY <1>b, <1>c, <2>2, <4>1, CommitIsOneThing
    <3>2. CASE req[s].list \notin lists
      <4>1. ref' = ref
        BY <1>10, <3>2 DEF DropList
      <4>2. QED
        BY <1>c, <2>2, <4>1 DEF OneThing
    <3>3. QED
      BY <3>1, <3>2
  <2>8. QED
    BY <2>5, <2>6, <2>7 DEF Lists
<1>11. ASSUME NEW s \in Slots, CreateAlert(s) \/ RearmAlert(s) PROVE Lists'
  <2>1. UNCHANGED <<lists, members, lock>> /\ req'[s] = Idle /\ \A q \in Slots : q # s => req'[q] = req[q]
    BY <1>11, <1>b DEF CreateAlert, RearmAlert, Becomes
  <2>2. (\E x \in Symbols : Committed(s, "alerts", {x})) \/ ref' = ref
    <3>1. CASE CreateAlert(s)
      <4>1. req[s].def \in Defs
        BY <1>b, <3>1 DEF CreateAlert, Requests, Idle
      <4>2. QED
        BY <3>1, <4>1, WatchAssumption DEF CreateAlert
    <3>2. CASE RearmAlert(s)
      <4>1. req[s].id \in AlertIds
        BY <1>b, <3>2 DEF RearmAlert, Requests, Idle
      <4>2. QED
        BY <3>2, <4>1, <1>e DEF RearmAlert
    <3>3. QED
      BY <1>11, <3>1, <3>2
  <2>3. OneThing'
    <3>1. ASSUME NEW x \in Symbols, Committed(s, "alerts", {x}) PROVE OneThing'
      BY <1>b, <1>c, <2>1, <3>1, CommitIsOneThing
    <3>2. CASE ref' = ref
      BY <1>c, <2>1, <3>2 DEF OneThing
    <3>3. QED
      BY <2>2, <3>1, <3>2
  <2>4. QED
    BY <1>c, <2>1, <2>3 DEF Lists, AlwaysAList, NoOrphans, DropIsLocked, Idle
<1>12. ASSUME NEW p \in Procs, RefreshLists(p) \/ RefreshAlerts(p) PROVE Lists'
  <2>1. UNCHANGED <<lists, members, req, lock>> /\ ref[p].at # "no"
    BY <1>12 DEF RefreshLists, RefreshAlerts, tables
  <2>2. \A q \in Procs : q # p => ref'[q] = ref[q]
    BY <1>12, <1>a DEF RefreshLists, RefreshAlerts
  <2>3. QED
    BY <1>a, <1>c, <2>1, <2>2 DEF Lists, AlwaysAList, NoOrphans, OneThing, DropIsLocked
<1>13. ASSUME NEW p \in Procs, RefreshSend(p) PROVE Lists'
  <2>1. UNCHANGED <<lists, members, req>> /\ ref[p].at # "no" /\ (lock' = lock \/ lock = p)
    BY <1>13 DEF RefreshSend, tables
  <2>2. \A q \in Procs : q # p => ref'[q] = ref[q]
    BY <1>13, <1>a DEF RefreshSend
  <2>3. p \in Slots => req[p] = Idle
    BY <1>c, <2>1 DEF OneThing
  <2>4. DropIsLocked'
    BY <1>c, <2>1, <2>3 DEF DropIsLocked, Idle
  <2>5. QED
    BY <1>a, <1>c, <2>1, <2>2, <2>3, <2>4 DEF Lists, AlwaysAList, NoOrphans, OneThing
<1>13a. ASSUME NEW p \in Procs, RefreshFails(p) \/ (p \in Slots /\ HangUp(p)) PROVE Lists'
  <2>1. UNCHANGED <<lists, members>> /\ (lock' = lock \/ lock = p)
    BY <1>13a DEF RefreshFails, HangUp, Stops, tables
  <2>2. ref'[p].at = "no" /\ \A q \in Procs : q # p => ref'[q] = ref[q]
    BY <1>13a, <1>a DEF RefreshFails, HangUp, Stops, Resting
  <2>3. /\ \A q \in Slots : q # p => req'[q] = req[q]
        /\ p \in Slots => req'[p] = Idle \/ (req'[p] = req[p] /\ ref[p].at # "no")
    BY <1>13a, <1>b DEF RefreshFails, HangUp, Becomes
  <2>4. OneThing'
    BY <1>a, <1>c, <2>2, <2>3 DEF OneThing
  <2>5. \A q \in Slots : req'[q].at = "drop" => req'[q] = req[q] /\ q # p
    BY <1>a, <1>c, <2>3 DEF OneThing, Idle
  <2>6. DropIsLocked'
    BY <1>a, <1>c, <2>1, <2>5 DEF DropIsLocked
  <2>7. QED
    BY <1>c, <2>1, <2>4, <2>6 DEF Lists, AlwaysAList, NoOrphans
<1>14. CASE EvLoad \/ EvPrices \/ EvCheck \/ EvTriggerFails \/ EvNotify \/ EvNotifyFails
  BY <1>14, ListsFrame DEF EvLoad, EvPrices, EvCheck, EvTriggerFails, EvNotify, EvNotifyFails, tables
<1>15. CASE EvTrigger
  <2>1. \A q \in Slots : ref'[q].at = ref[q].at
    <3>1. CASE alerts[ev.hit.id].status = "active"
      <4>1. ev.hit.id \in AlertIds
        BY <1>15 DEF EvTrigger, Shapes, Hits
      <4>2. alerts[ev.hit.id].def.symbol \in Symbols
        BY <1>e, <3>1, <4>1
      <4>3. ref' = TooLateFor({alerts[ev.hit.id].def.symbol})
        BY <1>15, <3>1 DEF EvTrigger
      <4>4. QED
        BY <1>a, <1>d, <4>2, <4>3
    <3>2. CASE alerts[ev.hit.id].status # "active"
      BY <1>15, <3>2 DEF EvTrigger
    <3>3. QED
      BY <3>1, <3>2
  <2>2. QED
    BY <1>15, <2>1, ListsFrame DEF EvTrigger
<1>16. CASE EvDone
  BY <1>16, <1>a, ListsFrame DEF EvDone, tables
<1>17. CASE Quote \/ StoreCandles \/ BumpCandles
  BY <1>17, ListsFrame DEF Quote, StoreCandles, BumpCandles, tables
<1>18. CASE Connect \/ ConnectBreaks \/ OnChange \/ SocketBreaks \/ SocketEnds
  BY <1>18, ListsFrame DEF Connect, ConnectBreaks, OnChange, SocketBreaks, SocketEnds, tables
<1>19. CASE Crash
  BY <1>19, <1>c DEF Crash, tables, Lists, AlwaysAList, NoOrphans, OneThing, DropIsLocked, Idle
<1>20. CASE UNCHANGED vars
  BY <1>20, ListsFrame DEF vars
<1>21. QED
  BY <1>1, <1>2, <1>3, <1>4, <1>5, <1>6, <1>7, <1>8, <1>9, <1>10, <1>11, <1>12, <1>13, <1>14, <1>15,
     <1>16, <1>17, <1>18, <1>19, <1>20, <1>13a
  DEF Next, Request, Finish, Refresh, Evaluate, Stream, Market, Fault, Procs
-----------------------------------------------------------------------------

\* Nothing but the alerts, the pass and the counts matters to the firings.
LEMMA FiringsFrame ==
  ASSUME Firings, UNCHANGED <<alerts, owed, untold, recycled, ev>>
  PROVE  Firings'
  BY DEF Firings, FiringsAreTrue, FiresOnlyWhenTrue, NoticePerFiring, HonestRow, SameAlert, Check

\* Every step keeps the firings true: what happens to an alert meanwhile either
\* leaves its condition, removes it, or gives its id away and records that.
LEMMA FiringsStep ==
  ASSUME Shapes, Firings, [Next]_vars
  PROVE  Firings'
<1>a. /\ alerts \in [AlertIds -> Rows] /\ owed \in [AlertIds -> Int] /\ untold \in [AlertIds -> Int] /\ recycled \subseteq AlertIds
      /\ req \in [Slots -> Requests] /\ ev \in PassShape /\ ev.batch \subseteq Loaded
      /\ ev.at \in {"trigger", "notify"} => ev.hit \in Hits
  BY DEF Shapes, TypeOK, PassShape
<1>b. /\ FiresOnlyWhenTrue /\ NoticePerFiring /\ \A a \in ev.batch : SameAlert(a.id, a.def)
      /\ ev.at = "trigger" => SameAlert(ev.hit.id, ev.hit.def) /\ Check(ev.hit.def, ev.hit.value)
  BY DEF Firings, FiringsAreTrue
<1>c. NoData \notin Levels
  BY WatchAssumption
<1>1. ASSUME NEW s \in Slots,
             \/ AddDefault(s) \/ RemoveEverywhere(s) \/ AddToList(s) \/ RemoveFromList(s)
             \/ CreateList(s) \/ DropListCheck(s) \/ CreateAlertCheck(s) \/ RearmCheck(s)
             \/ AddBulk(s) \/ DropList(s)
      PROVE  Firings'
  BY <1>1, FiringsFrame
  DEF AddDefault, RemoveEverywhere, AddToList, RemoveFromList, CreateList, DropListCheck,
      CreateAlertCheck, RearmCheck, AddBulk, DropList, tables, history, slips, news
<1>2. ASSUME NEW s \in Slots, DeleteAlert(s) PROVE Firings'
  <2>1. PICK i \in AlertIds : alerts' = [alerts EXCEPT ![i] = NoRow]
    BY <1>2 DEF DeleteAlert
  <2>2. UNCHANGED <<owed, untold, recycled, ev>>
    BY <1>2 DEF DeleteAlert, history, slips, news
  <2>3. \A k \in AlertIds : alerts'[k] = NoRow \/ alerts'[k] = alerts[k]
    BY <1>a, <2>1
  <2>4. FiresOnlyWhenTrue' /\ NoticePerFiring'
    BY <1>b, <2>2, <2>3 DEF FiresOnlyWhenTrue, HonestRow, NoticePerFiring, Check
  <2>5. \A k \in AlertIds, d \in Defs : SameAlert(k, d) => SameAlert(k, d)'
    BY <2>2, <2>3 DEF SameAlert
  <2>6. QED
    BY <1>a, <1>b, <2>2, <2>4, <2>5 DEF Firings, FiringsAreTrue, Loaded, Hits, Check
<1>3. ASSUME NEW s \in Slots, DismissAlert(s) PROVE Firings'
  <2>1. PICK i \in AlertIds : alerts[i].status = "triggered" /\ alerts' = [alerts EXCEPT ![i].status = "dismissed"]
    BY <1>3 DEF DismissAlert
  <2>2. UNCHANGED <<owed, untold, recycled, ev>>
    BY <1>3 DEF DismissAlert, history, slips, news
  <2>3. alerts[i] # NoRow /\ alerts'[i] # NoRow /\ alerts'[i].status = "dismissed"
        /\ alerts'[i].def = alerts[i].def /\ alerts'[i].value = alerts[i].value
    BY <1>a, <2>1 DEF Rows, NoRow
  <2>4. \A k \in AlertIds : k # i => alerts'[k] = alerts[k]
    BY <1>a, <2>1
  <2>5. FiresOnlyWhenTrue' /\ NoticePerFiring'
    BY <1>b, <2>1, <2>2, <2>3, <2>4 DEF FiresOnlyWhenTrue, HonestRow, NoticePerFiring, Check
  <2>6. \A k \in AlertIds, d \in Defs : SameAlert(k, d) => SameAlert(k, d)'
    BY <2>2, <2>3, <2>4 DEF SameAlert
  <2>7. QED
    BY <1>a, <1>b, <2>2, <2>5, <2>6 DEF Firings, FiringsAreTrue, Loaded, Hits, Check
<1>4. ASSUME NEW s \in Slots, CreateAlert(s) PROVE Firings'
  <2>1. PICK i \in AlertIds :
          /\ alerts' = [alerts EXCEPT ![i] = [status |-> "active", def |-> req[s].def, value |-> NoData]]
          /\ recycled' = IF i \in Held THEN recycled \cup {i} ELSE recycled \ {i}
    BY <1>4 DEF CreateAlert
  <2>2. UNCHANGED <<owed, untold, ev>>
    BY <1>4 DEF CreateAlert
  <2>3. alerts'[i].status = "active" /\ alerts'[i].value = NoData /\ \A k \in AlertIds : k # i => alerts'[k] = alerts[k]
    BY <1>a, <2>1
  <2>4. i \in Held => i \in recycled'
    BY <2>1
  <2>5. \A k \in AlertIds : k # i => (k \in recycled' <=> k \in recycled)
    BY <2>1
  <2>6. FiresOnlyWhenTrue' /\ NoticePerFiring'
    BY <1>b, <2>2, <2>3, <2>5 DEF FiresOnlyWhenTrue, HonestRow, NoticePerFiring, Check
  <2>7. \A k \in Held, d \in Defs : k \in AlertIds /\ SameAlert(k, d) => SameAlert(k, d)'
    BY <2>3, <2>4, <2>5 DEF SameAlert
  <2>8. \A a \in ev.batch : a.id \in Held
    BY DEF Held
  <2>9. ev.at = "trigger" => ev.hit.id \in Held
    BY DEF Held
  <2>10. QED
    BY <1>a, <1>b, <2>2, <2>6, <2>7, <2>8, <2>9 DEF Firings, FiringsAreTrue, Loaded, Hits, Check
<1>5. ASSUME NEW s \in Slots, RearmAlert(s) PROVE Firings'
  <2> DEFINE i == req[s].id
  <2>1. i \in AlertIds /\ UNCHANGED <<owed, untold, recycled, ev>>
    BY <1>5, <1>a DEF RearmAlert, Requests, Idle, history, slips, news
  <2>2. CASE alerts[i] = NoRow
    BY <1>5, <2>1, <2>2, FiringsFrame DEF RearmAlert
  <2>3. CASE alerts[i] # NoRow
    <3>1. alerts' = [alerts EXCEPT ![i] = [status |-> "active", def |-> @.def, value |-> NoData]]
      BY <1>5, <2>3 DEF RearmAlert
    <3> HIDE DEF i
    <3>2. /\ alerts'[i].status = "active" /\ alerts'[i].value = NoData /\ alerts'[i].def = alerts[i].def
          /\ \A k \in AlertIds : k # i => alerts'[k] = alerts[k]
      BY <1>a, <2>1, <3>1
    <3>3. FiresOnlyWhenTrue' /\ NoticePerFiring'
      BY <1>b, <2>1, <3>2 DEF FiresOnlyWhenTrue, HonestRow, NoticePerFiring, Check
    <3>4. \A k \in AlertIds, d \in Defs : SameAlert(k, d) => SameAlert(k, d)'
      BY <2>1, <2>3, <3>2 DEF SameAlert
    <3>5. QED
      BY <1>a, <1>b, <2>1, <3>3, <3>4 DEF Firings, FiringsAreTrue, Loaded, Hits, Check
  <2>4. QED
    BY <2>2, <2>3
<1>6. ASSUME NEW p \in Procs,
             RefreshLists(p) \/ RefreshAlerts(p) \/ RefreshSend(p) \/ RefreshFails(p) \/ HangUp(p)
      PROVE  Firings'
  BY <1>6, FiringsFrame
  DEF RefreshLists, RefreshAlerts, RefreshSend, RefreshFails, HangUp, Stops, tables, history, slips, news
<1>7. CASE EvLoad
  <2>1. UNCHANGED <<alerts, owed, untold, recycled>> /\ ev.at = "idle" /\ ev'.at = "prices"
    BY <1>7, <1>a DEF EvLoad, tables, history, slips, news, PassShape
  <2>2. ev'.batch = {[id |-> i, def |-> alerts[i].def] : i \in {j \in AlertIds : alerts[j].status = "active"}}
    BY <1>7, <1>a DEF EvLoad, PassShape
  <2>3. \A a \in ev'.batch : alerts[a.id].def = a.def
    BY <2>2
  <2>4. FiresOnlyWhenTrue' /\ NoticePerFiring'
    BY <1>b, <2>1 DEF FiresOnlyWhenTrue, HonestRow, NoticePerFiring, Check
  <2>5. QED
    BY <2>1, <2>3, <2>4 DEF Firings, FiringsAreTrue, SameAlert
<1>8. CASE EvPrices
  <2>1. UNCHANGED <<alerts, owed, untold, recycled>> /\ ev.at = "prices" /\ ev'.at = "check" /\ ev'.batch = ev.batch
    BY <1>8, <1>a DEF EvPrices, tables, history, slips, news, PassShape
  <2>2. QED
    BY <1>b, <2>1 DEF Firings, FiringsAreTrue, FiresOnlyWhenTrue, HonestRow, NoticePerFiring, SameAlert, Check
<1>9. CASE EvCheck
  <2>1. PICK a \in ev.batch, failed \in BOOLEAN : EvCheck!(a, failed)
    BY <1>9 DEF EvCheck
  <2> DEFINE obs == EvObserve(a.def, failed)
             holds == obs # NoData /\ Check(a.def, obs)
  <2>2. /\ UNCHANGED <<alerts, owed, untold, recycled>> /\ ev.at = "check"
        /\ ev' = [ev EXCEPT !.batch = @ \ {a},
                !.cache = IF NeedsPrice(a.def) THEN @ ELSE [@ EXCEPT ![a.def.symbol] = obs],
                !.at = IF holds THEN "trigger" ELSE "check",
                !.hit = IF holds THEN [id |-> a.id, def |-> a.def, value |-> obs] ELSE Idle]
    BY <2>1 DEF tables, history, slips, news
  <2> HIDE DEF obs, holds
  <2>3. /\ ev'.batch = ev.batch \ {a} /\ ev'.at = (IF holds THEN "trigger" ELSE "check")
        /\ ev'.hit = (IF holds THEN [id |-> a.id, def |-> a.def, value |-> obs] ELSE Idle)
    BY <1>a, <2>2 DEF PassShape
  <2>4. holds => Check(a.def, obs)
    BY DEF holds
  <2>5. FiresOnlyWhenTrue' /\ NoticePerFiring'
    BY <1>b, <2>2, <2>3 DEF FiresOnlyWhenTrue, HonestRow, NoticePerFiring, Check
  <2>6. \A b \in ev'.batch : SameAlert(b.id, b.def)'
    BY <1>b, <2>2, <2>3 DEF SameAlert
  <2>7. (ev.at = "trigger" => SameAlert(ev.hit.id, ev.hit.def) /\ Check(ev.hit.def, ev.hit.value))'
    <3>1. SUFFICES ASSUME ev'.at = "trigger" PROVE SameAlert(ev.hit.id, ev.hit.def)' /\ Check(ev.hit.def, ev.hit.value)'
      OBVIOUS
    <3>a. holds
      <4>1. CASE ~ holds
        <5>1. ev'.at = "check"
          BY <2>3, <4>1
        <5>2. QED
          BY <3>1, <5>1
      <4>2. QED
        BY <4>1
    <3>b. ev'.hit = [id |-> a.id, def |-> a.def, value |-> obs]
      BY <2>3, <3>a
    <3>2. ev'.hit.id = a.id /\ ev'.hit.def = a.def /\ ev'.hit.value = obs
      BY <3>b
    <3>3. SameAlert(a.id, a.def)
      BY <1>b
    <3>4. QED
      BY <2>2, <2>4, <3>a, <3>2, <3>3 DEF SameAlert, Check
  <2>8. QED
    BY <2>5, <2>6, <2>7 DEF Firings, FiringsAreTrue
<1>10. CASE EvTrigger
  <2> DEFINE i == ev.hit.id
  <2>1. ev.at = "trigger" /\ ev.hit \in Hits /\ i \in AlertIds /\ UNCHANGED <<untold, recycled>>
    BY <1>10, <1>a DEF EvTrigger, Hits
  <2>2. CASE alerts[i].status = "active"
    <3>1. /\ alerts' = [alerts EXCEPT ![i] = [status |-> "triggered", def |-> @.def, value |-> ev.hit.value]]
          /\ owed' = [owed EXCEPT ![i] = @ + 1] /\ ev' = [ev EXCEPT !.at = "notify", !.any = TRUE]
      BY <1>10, <2>2 DEF EvTrigger
    <3>2. ev'.at = "notify" /\ ev'.hit = ev.hit /\ ev'.batch = ev.batch
      BY <1>a, <3>1 DEF PassShape
    <3>3. i \notin recycled => Check(alerts[i].def, ev.hit.value)
      BY <1>b, <2>1, <2>2 DEF SameAlert, NoRow
    <3>4. ev.hit.value # NoData
      BY <1>c, <2>1 DEF Hits
    <3> HIDE DEF i
    <3>5. /\ alerts'[i].status = "triggered" /\ alerts'[i].def = alerts[i].def /\ alerts'[i].value = ev.hit.value
          /\ \A k \in AlertIds : k # i => alerts'[k] = alerts[k]
      BY <1>a, <2>1, <3>1
    <3>6. FiresOnlyWhenTrue'
      BY <1>b, <2>1, <3>3, <3>4, <3>5 DEF FiresOnlyWhenTrue, HonestRow, Check
    <3>7. \A k \in AlertIds : owed[k] = untold[k]
      BY <1>a, <1>b, <2>1 DEF NoticePerFiring
    <3>8. NoticePerFiring'
      BY <1>a, <2>1, <3>1, <3>2, <3>7 DEF NoticePerFiring, i
    <3>9. alerts[i] # NoRow
      BY <2>2 DEF NoRow, i
    <3>10. \A k \in AlertIds, d \in Defs : SameAlert(k, d) => SameAlert(k, d)'
      BY <2>1, <3>5, <3>9 DEF SameAlert
    <3>11. QED
      BY <1>a, <1>b, <3>2, <3>6, <3>8, <3>10 DEF Firings, FiringsAreTrue, Loaded
  <2>3. CASE alerts[i].status # "active"
    <3>1. UNCHANGED <<alerts, owed>> /\ ev' = [ev EXCEPT !.at = "check", !.hit = Idle]
      BY <1>10, <2>3 DEF EvTrigger
    <3>2. ev'.at = "check" /\ ev'.batch = ev.batch
      BY <1>a, <3>1 DEF PassShape
    <3>3. QED
      BY <1>b, <2>1, <3>1, <3>2 DEF Firings, FiringsAreTrue, FiresOnlyWhenTrue, HonestRow, NoticePerFiring, SameAlert, Check
  <2>4. QED
    BY <2>2, <2>3
<1>11. CASE EvTriggerFails
  <2>1. UNCHANGED <<alerts, owed, untold, recycled>> /\ ev.at = "trigger" /\ ev'.at = "idle" /\ ev'.batch = {}
    BY <1>11, <1>a DEF EvTriggerFails, tables, news, PassShape
  <2>2. QED
    BY <1>b, <2>1 DEF Firings, FiringsAreTrue, FiresOnlyWhenTrue, HonestRow, NoticePerFiring, Check
<1>12. CASE EvNotify
  <2>1. UNCHANGED <<alerts, untold, recycled>> /\ ev.at = "notify" /\ ev'.at = "check" /\ ev'.batch = ev.batch
        /\ owed' = [owed EXCEPT ![ev.hit.id] = @ - 1] /\ ev.hit.id \in AlertIds
    BY <1>12, <1>a DEF EvNotify, tables, PassShape, Hits
  <2>2. NoticePerFiring'
    BY <1>a, <1>b, <2>1 DEF NoticePerFiring
  <2>3. QED
    BY <1>b, <2>1, <2>2 DEF Firings, FiringsAreTrue, FiresOnlyWhenTrue, HonestRow, SameAlert, Check
<1>12a. CASE EvNotifyFails
  <2>1. UNCHANGED <<alerts, owed, recycled>> /\ ev.at = "notify" /\ ev'.at = "check" /\ ev'.batch = ev.batch
        /\ untold' = [untold EXCEPT ![ev.hit.id] = @ + 1] /\ ev.hit.id \in AlertIds
    BY <1>12a, <1>a DEF EvNotifyFails, tables, PassShape, Hits
  <2>2. NoticePerFiring'
    BY <1>a, <1>b, <2>1 DEF NoticePerFiring
  <2>3. QED
    BY <1>b, <2>1, <2>2 DEF Firings, FiringsAreTrue, FiresOnlyWhenTrue, HonestRow, SameAlert, Check
<1>13. CASE EvDone
  <2>1. UNCHANGED <<alerts, owed, untold, recycled>> /\ ev.at = "check" /\ ev'.at = "idle" /\ ev'.batch = ev.batch
    BY <1>13, <1>a DEF EvDone, tables, history, slips, news, PassShape
  <2>2. QED
    BY <1>b, <2>1 DEF Firings, FiringsAreTrue, FiresOnlyWhenTrue, HonestRow, NoticePerFiring, SameAlert, Check
<1>14. CASE Quote \/ StoreCandles \/ BumpCandles
  BY <1>14, FiringsFrame DEF Quote, StoreCandles, BumpCandles, tables, history, slips, news
<1>15. CASE Connect \/ ConnectBreaks \/ OnChange \/ SocketBreaks \/ SocketEnds
  BY <1>15, FiringsFrame DEF Connect, ConnectBreaks, OnChange, SocketBreaks, SocketEnds, tables, history, slips, news
<1>16. CASE Crash
  <2>1. /\ UNCHANGED <<alerts, owed, recycled>> /\ ev'.at = "idle" /\ ev'.batch = {}
        /\ untold' = IF ev.at = "notify" THEN [untold EXCEPT ![ev.hit.id] = @ + 1] ELSE untold
    BY <1>16 DEF Crash, tables, EvAtBoot
  <2>a. \A i \in AlertIds : untold'[i] = untold[i] + IF ev.at = "notify" /\ ev.hit.id = i THEN 1 ELSE 0
    BY <1>a, <2>1 DEF Hits
  <2>b. NoticePerFiring'
    BY <1>a, <1>b, <2>1, <2>a DEF NoticePerFiring
  <2>2. QED
    BY <1>b, <2>1, <2>b DEF Firings, FiringsAreTrue, FiresOnlyWhenTrue, HonestRow, Check
<1>17. CASE UNCHANGED vars
  BY <1>17, FiringsFrame DEF vars
<1>18. QED
  BY <1>1, <1>2, <1>3, <1>4, <1>5, <1>6, <1>7, <1>8, <1>9, <1>10, <1>11, <1>12, <1>13, <1>14, <1>15,
     <1>16, <1>17, <1>12a
  DEF Next, Request, Finish, Refresh, Evaluate, Stream, Market, Fault, Procs
-----------------------------------------------------------------------------

\* Nothing but the tables, the refreshes and what they wrote matters here.
LEMMA CurrencyFrame ==
  ASSUME Currency, UNCHANGED <<members, alerts, ref, desired, unseen, loose, missed, cut>>,
         ev'.at = "idle" <=> ev.at = "idle", ev'.any = ev.any
  PROVE  Currency'
<1>1. ListSymbols' = ListSymbols /\ AlertSymbols' = AlertSymbols /\ Watched' = Watched
  BY DEF ListSymbols, AlertSymbols, Watched
<1>2. QED
  BY <1>1 DEF Currency, Pending, Bumping, RightUnlessLoose

\* A step that changes what the tables say of the symbols xs only.
Touches(xs) ==
  \A x \in Symbols \ xs :
    /\ x \in ListSymbols' <=> x \in ListSymbols
    /\ x \in AlertSymbols' <=> x \in AlertSymbols

\* Lists that differ in xs only name the same symbols but those.
LEMMA ListsTouch ==
  ASSUME NEW xs \in SUBSET Symbols, UNCHANGED alerts,
         \A l \in ListIds : members'[l] \subseteq members[l] \cup xs /\ members[l] \subseteq members'[l] \cup xs
  PROVE  Touches(xs)
<1>1. AlertSymbols' = AlertSymbols
  BY DEF AlertSymbols
<1>2. \A x \in Symbols \ xs : x \in ListSymbols' <=> x \in ListSymbols
  BY DEF ListSymbols
<1>3. QED
  BY <1>1, <1>2 DEF Touches

\* One alert that is written leaves every symbol but its own as it was.
LEMMA AlertTouches ==
  ASSUME NEW i \in AlertIds, NEW x \in Symbols, UNCHANGED members,
         \A k \in AlertIds : k # i => alerts'[k] = alerts[k],
         alerts[i].status = "active" => alerts[i].def.symbol = x,
         alerts'[i].status = "active" => alerts'[i].def.symbol = x
  PROVE  Touches({x})
<1>1. ListSymbols' = ListSymbols
  BY DEF ListSymbols
<1>2. \A y \in Symbols : y \in AlertSymbols <=> \E k \in AlertIds : alerts[k].status = "active" /\ alerts[k].def.symbol = y
  BY DEF AlertSymbols
<1>3. \A y \in Symbols : y \in AlertSymbols' <=> \E k \in AlertIds : alerts'[k].status = "active" /\ alerts'[k].def.symbol = y
  BY DEF AlertSymbols
<1>4. ASSUME NEW y \in Symbols, y # x PROVE y \in AlertSymbols' <=> y \in AlertSymbols
  <2>1. ASSUME y \in AlertSymbols PROVE y \in AlertSymbols'
    <3>1. PICK k \in AlertIds : alerts[k].status = "active" /\ alerts[k].def.symbol = y
      BY <1>2, <2>1
    <3>2. k # i
      BY <1>4, <3>1
    <3>3. QED
      BY <1>3, <3>1, <3>2
  <2>2. ASSUME y \in AlertSymbols' PROVE y \in AlertSymbols
    <3>1. PICK k \in AlertIds : alerts'[k].status = "active" /\ alerts'[k].def.symbol = y
      BY <1>3, <2>2
    <3>2. k # i
      BY <1>4, <3>1
    <3>3. QED
      BY <1>2, <3>1, <3>2
  <2>3. QED
    BY <2>1, <2>2
<1>5. QED
  BY <1>1, <1>4 DEF Touches

\* When the refreshes fall behind by xs, and xs become loose, what each has read
\* and what the set says stay right about all the other symbols.
LEMMA BehindIsRight ==
  ASSUME Currency, NEW xs \in SUBSET Symbols, Touches(xs), desired' = desired, loose' = loose \cup xs,
         \A q \in Procs : Behind(q, xs) \/ ref'[q].at \notin {"alerts", "send"}
  PROVE  /\ \A p \in Procs : ref'[p].at = "alerts" =>
              \A x \in Symbols \ ref'[p].late : x \in ref'[p].got <=> x \in ListSymbols'
         /\ \A p \in Procs : ref'[p].at = "send" =>
              \A x \in Symbols \ ref'[p].late : x \in ref'[p].got <=> x \in Watched'
         /\ RightUnlessLoose'
<1>1. ASSUME NEW p \in Procs, ref'[p].at = "alerts", NEW x \in Symbols \ ref'[p].late
      PROVE  x \in ref'[p].got <=> x \in ListSymbols'
  <2>1. ref[p].at = "alerts" /\ ref'[p].got = ref[p].got /\ ref'[p].late = ref[p].late \cup xs
    BY <1>1 DEF Behind
  <2>2. x \in Symbols \ ref[p].late /\ x \in Symbols \ xs
    BY <1>1, <2>1
  <2>3. x \in ref[p].got <=> x \in ListSymbols
    BY <2>1, <2>2 DEF Currency
  <2>4. x \in ListSymbols' <=> x \in ListSymbols
    BY <2>2 DEF Touches
  <2>5. QED
    BY <2>1, <2>3, <2>4
<1>2. ASSUME NEW p \in Procs, ref'[p].at = "send", NEW x \in Symbols \ ref'[p].late
      PROVE  x \in ref'[p].got <=> x \in Watched'
  <2>1. ref[p].at = "send" /\ ref'[p].got = ref[p].got /\ ref'[p].late = ref[p].late \cup xs
    BY <1>2 DEF Behind
  <2>a. x \in Symbols \ ref[p].late /\ x \in Symbols \ xs
    BY <1>2, <2>1
  <2>2. x \in ref[p].got <=> x \in Watched
    BY <2>1, <2>a DEF Currency
  <2>3. x \in Watched' <=> x \in Watched
    BY <2>a DEF Touches, Watched
  <2>4. QED
    BY <2>1, <2>2, <2>3
<1>3. RightUnlessLoose'
  <2>1. SUFFICES ASSUME NEW x \in Symbols \ loose'
                 PROVE  x \in desired' <=> x \in ListSymbols' \cup AlertSymbols'
    BY DEF RightUnlessLoose
  <2>2. x \in Symbols \ loose /\ x \in Symbols \ xs
    BY <2>1
  <2>3. x \in desired <=> x \in ListSymbols \cup AlertSymbols
    BY <2>2 DEF Currency, RightUnlessLoose
  <2>4. /\ x \in ListSymbols' <=> x \in ListSymbols
        /\ x \in AlertSymbols' <=> x \in AlertSymbols
    BY <2>2 DEF Touches
  <2>5. QED
    BY <2>3, <2>4
<1>4. QED
  BY <1>1, <1>2, <1>3

\* A request that commits will bump and refresh; every refresh that has begun to
\* read falls behind, and answers for none of the symbols changed.
LEMMA CommitIsPending ==
  ASSUME Shapes, Currency, NEW s \in Slots, NEW t \in {"alerts", "watchlist"}, NEW xs \in SUBSET Symbols,
         Committed(s, t, xs), Touches(xs), ref[s].at = "no", UNCHANGED <<ev, desired, missed, cut>>
  PROVE  Currency'
<1>1. ref \in [Procs -> RefShape] /\ s \in Procs /\ Evaluator \in Procs /\ s # Evaluator
  BY WatchAssumption DEF Shapes, TypeOK, RefShape, Procs
<1>2. /\ ref' \in [Procs -> RefShape] /\ ref'[s] = Beginning(t)
      /\ \A q \in Procs : q # s => Behind(q, xs)
      /\ unseen' = unseen \cup {t} /\ loose' = loose \cup xs
  BY <1>1, CommitStarts
<1>3. /\ \A p \in Procs : ref'[p].at = "alerts" =>
           \A x \in Symbols \ ref'[p].late : x \in ref'[p].got <=> x \in ListSymbols'
      /\ \A p \in Procs : ref'[p].at = "send" =>
           \A x \in Symbols \ ref'[p].late : x \in ref'[p].got <=> x \in Watched'
      /\ RightUnlessLoose'
  <2>1. ref'[s].at \notin {"alerts", "send"}
    BY <1>2 DEF Beginning
  <2>2. QED
    BY <1>2, <2>1, BehindIsRight
<1>4. Pending'
  BY <1>1, <1>2 DEF Pending, Beginning
<1>5. \A u \in unseen : Bumping(u) => Bumping(u)'
  BY <1>1, <1>2 DEF Bumping, Behind
<1>6. Bumping(t)'
  BY <1>1, <1>2 DEF Bumping, Beginning
<1>7. ev.at # "idle" => ref'[Evaluator].at = "no"
  BY <1>1, <1>2 DEF Currency, Behind
<1>8. \A u \in unseen' : u \in cut' \/ Bumping(u)'
  BY <1>2, <1>5, <1>6 DEF Currency
<1>9. QED
  BY <1>3, <1>4, <1>7, <1>8 DEF Currency

\* Every step keeps the stream's set current or about to be refreshed.
LEMMA CurrencyStep ==
  ASSUME Shapes, NoOrphans, OneThing, Currency, [Next]_vars
  PROVE  Currency'
<1>a. /\ ref \in [Procs -> RefShape] /\ Evaluator \in Procs /\ \A s \in Slots : s \in Procs /\ s # Evaluator
      /\ req \in [Slots -> Requests] /\ ev \in PassShape /\ unseen \subseteq {"alerts", "watchlist"}
  BY WatchAssumption DEF Shapes, TypeOK, RefShape, Procs
<1>b. \A s \in Slots : req[s].at # "idle" => ref[s].at = "no"
  BY DEF OneThing, Idle
<1>c. /\ members \in [ListIds -> SUBSET Symbols] /\ alerts \in [AlertIds -> Rows]
      /\ ListSymbols \subseteq Symbols /\ NoRow.status = "none"
      /\ \A i \in AlertIds : alerts[i] # NoRow => alerts[i].def.symbol \in Symbols
  BY SymbolsWatched, WatchAssumption DEF Shapes, TypeOK, Rows, NoRow
<1>1. ASSUME NEW s \in Slots,
             \/ AddDefault(s) \/ AddToList(s) \/ CreateList(s) \/ DropListCheck(s)
             \/ CreateAlertCheck(s) \/ RearmCheck(s)
      PROVE  Currency'
  BY <1>1, CurrencyFrame
  DEF AddDefault, AddToList, CreateList, DropListCheck, CreateAlertCheck, RearmCheck, tables, stream, history, slips, news
<1>2. ASSUME NEW s \in Slots, RemoveEverywhere(s) \/ RemoveFromList(s) PROVE Currency'
  <2>1. PICK x \in Symbols :
          /\ Committed(s, "watchlist", {x})
          /\ \A l \in ListIds : members'[l] \in {members[l], members[l] \ {x}}
    <3>1. CASE RemoveEverywhere(s)
      BY <3>1, <1>c DEF RemoveEverywhere
    <3>2. CASE RemoveFromList(s)
      BY <3>2, <1>c DEF RemoveFromList
    <3>3. QED
      BY <1>2, <3>1, <3>2
  <2>2. ref[s].at = "no" /\ UNCHANGED <<alerts, desired, ev, missed, cut>>
    BY <1>2 DEF RemoveEverywhere, RemoveFromList, Takes, stream, slips
  <2>3. Touches({x})
    BY <2>1, <2>2, ListsTouch
  <2>4. QED
    BY <2>1, <2>2, <2>3, CommitIsPending
<1>3. ASSUME NEW s \in Slots, DeleteAlert(s) \/ DismissAlert(s) PROVE Currency'
  <2>1. PICK i \in AlertIds :
          /\ alerts[i] # NoRow /\ Committed(s, "alerts", {alerts[i].def.symbol})
          /\ \/ alerts' = [alerts EXCEPT ![i] = NoRow]
             \/ alerts' = [alerts EXCEPT ![i].status = "dismissed"]
    BY <1>3, <1>c DEF DeleteAlert, DismissAlert
  <2>2. ref[s].at = "no" /\ UNCHANGED <<members, desired, ev, missed, cut>>
    BY <1>3 DEF DeleteAlert, DismissAlert, Takes, stream, slips
  <2>3. alerts'[i].status # "active" /\ \A k \in AlertIds : k # i => alerts'[k] = alerts[k]
    BY <2>1, <1>c DEF Rows
  <2>4. Touches({alerts[i].def.symbol})
    BY <1>c, <2>1, <2>2, <2>3, AlertTouches
  <2>5. QED
    BY <1>c, <2>1, <2>2, <2>4, CommitIsPending
<1>4. ASSUME NEW s \in Slots, AddBulk(s) PROVE Currency'
  <2>1. ref[s].at = "no" /\ UNCHANGED <<alerts, desired, ev, missed, cut>>
        /\ req[s].list \in ListIds /\ req[s].symbol \in Symbols
    BY <1>4, <1>a, <1>b DEF AddBulk, Requests, Idle, stream, slips
  <2>2. CASE req[s].list \in lists
    <3>1. members' = [members EXCEPT ![req[s].list] = @ \cup {req[s].symbol}]
          /\ Committed(s, "watchlist", {req[s].symbol})
      BY <1>4, <2>2 DEF AddBulk
    <3>2. Touches({req[s].symbol})
      BY <1>c, <2>1, <3>1, ListsTouch
    <3>3. QED
      BY <2>1, <3>1, <3>2, CommitIsPending
  <2>3. CASE req[s].list \notin lists
    <3>1. UNCHANGED <<members, ref, unseen, loose>>
      BY <1>4, <2>3 DEF AddBulk
    <3>2. QED
      BY <2>1, <3>1, CurrencyFrame
  <2>4. QED
    BY <2>2, <2>3
<1>4a. ASSUME NEW s \in Slots, DropList(s) PROVE Currency'
  <2>1. ref[s].at = "no" /\ UNCHANGED <<alerts, desired, ev, missed, cut>> /\ req[s].list \in ListIds
        /\ members' = [members EXCEPT ![req[s].list] = {}]
    BY <1>4a, <1>a, <1>b DEF DropList, Requests, Idle, stream, slips
  <2>2. CASE req[s].list \in lists
    <3>1. Committed(s, "watchlist", members[req[s].list]) /\ members[req[s].list] \in SUBSET Symbols
      BY <1>4a, <1>c, <2>1, <2>2 DEF DropList
    <3>2. Touches(members[req[s].list])
      BY <1>c, <2>1, <3>1, ListsTouch
    <3>3. QED
      BY <2>1, <3>1, <3>2, CommitIsPending
  <2>3. CASE req[s].list \notin lists
    <3>1. UNCHANGED <<ref, unseen, loose>>
      BY <1>4a, <2>3 DEF DropList
    <3>2. members' = members
      BY <1>c, <2>1, <2>3 DEF NoOrphans
    <3>3. QED
      BY <2>1, <3>1, <3>2, CurrencyFrame
  <2>4. QED
    BY <2>2, <2>3
<1>5. ASSUME NEW s \in Slots, CreateAlert(s) PROVE Currency'
  <2>1. PICK i \in AlertIds :
          /\ alerts[i] = NoRow
          /\ alerts' = [alerts EXCEPT ![i] = [status |-> "active", def |-> req[s].def, value |-> NoData]]
    <3>1. PICK i \in AlertIds :
            /\ \A k \in AlertIds : (k >= i) => alerts[k] = NoRow
            /\ alerts' = [alerts EXCEPT ![i] = [status |-> "active", def |-> req[s].def, value |-> NoData]]
      BY <1>5 DEF CreateAlert
    <3>2. i >= i
      BY WatchAssumption
    <3>3. QED
      BY <3>1, <3>2
  <2>2. /\ Committed(s, "alerts", {req[s].def.symbol}) /\ ref[s].at = "no"
        /\ UNCHANGED <<members, desired, ev, missed, cut>>
    BY <1>5, <1>b DEF CreateAlert, stream, slips
  <2>3. req[s].def.symbol \in Symbols
    BY <1>5, <1>a, WatchAssumption DEF CreateAlert, Requests, Idle
  <2>4. alerts'[i].def.symbol = req[s].def.symbol /\ \A k \in AlertIds : k # i => alerts'[k] = alerts[k]
    BY <1>c, <2>1
  <2>5. Touches({req[s].def.symbol})
    BY <1>c, <2>1, <2>2, <2>3, <2>4, AlertTouches
  <2>6. QED
    BY <2>2, <2>3, <2>5, CommitIsPending
<1>6. ASSUME NEW s \in Slots, RearmAlert(s) PROVE Currency'
  <2>1. ref[s].at = "no" /\ UNCHANGED <<members, desired, ev, missed, cut>> /\ req[s].id \in AlertIds
    BY <1>6, <1>a, <1>b DEF RearmAlert, Requests, Idle, stream, slips
  <2>2. CASE alerts[req[s].id] = NoRow
    <3>1. UNCHANGED <<alerts, ref, unseen, loose>>
      BY <1>6, <2>2 DEF RearmAlert
    <3>2. QED
      BY <2>1, <3>1, CurrencyFrame
  <2>3. CASE alerts[req[s].id] # NoRow
    <3> DEFINE i == req[s].id
    <3>1. /\ alerts' = [alerts EXCEPT ![i] = [status |-> "active", def |-> @.def, value |-> NoData]]
          /\ Committed(s, "alerts", {alerts[i].def.symbol})
      BY <1>6, <2>3 DEF RearmAlert
    <3> HIDE DEF i
    <3>2. i \in AlertIds /\ alerts[i].def.symbol \in Symbols
      BY <1>c, <2>1, <2>3 DEF i
    <3>3. alerts'[i].def.symbol = alerts[i].def.symbol /\ \A k \in AlertIds : k # i => alerts'[k] = alerts[k]
      BY <1>c, <3>1, <3>2
    <3>4. Touches({alerts[i].def.symbol})
      BY <2>1, <3>2, <3>3, AlertTouches
    <3>5. QED
      BY <2>1, <3>1, <3>2, <3>4, CommitIsPending
  <2>4. QED
    BY <2>2, <2>3
<1>7. ASSUME NEW p \in Procs, RefreshLists(p) PROVE Currency'
  <2>1. /\ UNCHANGED <<members, alerts, desired, ev, loose, missed>> /\ ref[p].at = "lists"
        /\ unseen' = unseen \ {ref[p].table} /\ cut' = cut \ {ref[p].table}
    BY <1>7 DEF RefreshLists, tables, stream
  <2>2. /\ ref'[p].at = "alerts" /\ ref'[p].got = ListSymbols
        /\ \A q \in Procs : q # p => ref'[q] = ref[q]
    BY <1>7, <1>a DEF RefreshLists, RefShape
  <2>3. ListSymbols' = ListSymbols /\ Watched' = Watched
    BY <2>1 DEF ListSymbols, AlertSymbols, Watched
  <2>4. Pending' /\ RightUnlessLoose'
    BY <2>1, <2>2 DEF Pending, Currency, RightUnlessLoose, ListSymbols, AlertSymbols
  <2>5. \A t \in unseen' : t \in cut' \/ Bumping(t)'
    BY <2>1, <2>2 DEF Bumping, Currency
  <2>6. p = Evaluator => ev.at = "idle"
    BY <1>a, <2>1 DEF Currency
  <2>7. QED
    BY <1>a, <2>1, <2>2, <2>3, <2>4, <2>5, <2>6 DEF Currency
<1>8. ASSUME NEW p \in Procs, RefreshAlerts(p) PROVE Currency'
  <2>1. UNCHANGED <<members, alerts, desired, ev, loose, missed, cut, unseen>> /\ ref[p].at = "alerts"
    BY <1>8 DEF RefreshAlerts, tables, stream, history, slips, news
  <2>2. /\ ref'[p].at = "send" /\ ref'[p].got = ref[p].got \cup AlertSymbols /\ ref'[p].late = ref[p].late
        /\ \A q \in Procs : q # p => ref'[q] = ref[q]
    BY <1>8, <1>a DEF RefreshAlerts, RefShape
  <2>3. ListSymbols' = ListSymbols /\ Watched' = Watched
    BY <2>1 DEF ListSymbols, AlertSymbols, Watched
  <2>4. Pending' /\ RightUnlessLoose'
    BY <2>1, <2>2 DEF Pending, Currency, RightUnlessLoose, ListSymbols, AlertSymbols
  <2>5. \A t \in unseen' : t \in cut' \/ Bumping(t)'
    BY <2>1, <2>2 DEF Bumping, Currency
  <2>6. p = Evaluator => ev.at = "idle"
    BY <1>a, <2>1 DEF Currency
  <2>8. \A x \in Symbols \ ref'[p].late : x \in ref'[p].got <=> x \in Watched'
    BY <2>1, <2>2, <2>3 DEF Currency, Watched
  <2>7. QED
    BY <1>a, <2>1, <2>2, <2>3, <2>4, <2>5, <2>6, <2>8 DEF Currency
<1>9. ASSUME NEW p \in Procs, RefreshSend(p) PROVE Currency'
  <2>1. /\ UNCHANGED <<members, alerts, ev, unseen, cut>> /\ ref[p].at = "send"
        /\ desired' = ref[p].got /\ loose' = ref[p].late /\ missed' = ref[p].late
    BY <1>9 DEF RefreshSend, tables
  <2>2. ref'[p].at = "no" /\ \A q \in Procs : q # p => ref'[q] = ref[q]
    BY <1>9, <1>a DEF RefreshSend, Resting
  <2>3. ListSymbols' = ListSymbols /\ AlertSymbols' = AlertSymbols /\ Watched' = Watched
    BY <2>1 DEF ListSymbols, AlertSymbols, Watched
  <2>4. RightUnlessLoose'
    BY <2>1, <2>3 DEF Currency, RightUnlessLoose, Watched
  <2>5. \A t \in unseen' : t \in cut' \/ Bumping(t)'
    BY <2>1, <2>2 DEF Bumping, Currency
  <2>6. QED
    BY <1>a, <2>1, <2>2, <2>3, <2>4, <2>5 DEF Currency
<1>9a. ASSUME NEW p \in Procs, RefreshFails(p) \/ (p \in Slots /\ HangUp(p)) PROVE Currency'
  <2>1. /\ UNCHANGED <<members, alerts, desired, ev, loose>>
        /\ missed' = IF ref[p].at # "no" THEN missed \cup loose ELSE missed
    BY <1>9a DEF RefreshFails, HangUp, Stops, tables, stream
  <2>2. ref'[p].at = "no" /\ \A q \in Procs : q # p => ref'[q] = ref[q]
    BY <1>9a, <1>a DEF RefreshFails, HangUp, Stops, Resting
  <2>3. ListSymbols' = ListSymbols /\ AlertSymbols' = AlertSymbols /\ Watched' = Watched
    BY <2>1 DEF ListSymbols, AlertSymbols, Watched
  <2>4. RightUnlessLoose'
    BY <2>1, <2>3 DEF Currency, RightUnlessLoose, Watched
  <2>5. Pending' \/ loose' \subseteq missed'
    <3>1. CASE ref[p].at = "no"
      BY <2>1, <2>2, <3>1 DEF Currency, Pending
    <3>2. CASE ref[p].at # "no"
      BY <2>1, <3>2
    <3>3. QED
      BY <3>1, <3>2
  <2>6. /\ unseen' \subseteq unseen
        /\ \A t \in unseen' :
             /\ t \in cut => t \in cut'
             /\ ref[p].at = "lists" /\ ref[p].table = t => t \in cut'
    BY <1>9a DEF RefreshFails, HangUp
  <2>7. \A t \in unseen' : t \in cut' \/ Bumping(t)'
    <3>1. SUFFICES ASSUME NEW t \in unseen', t \notin cut' PROVE Bumping(t)'
      OBVIOUS
    <3>2. Bumping(t) /\ ~ (ref[p].at = "lists" /\ ref[p].table = t)
      BY <2>6, <3>1 DEF Currency
    <3>3. QED
      BY <2>1, <2>2, <3>2 DEF Bumping
  <2>8. QED
    BY <1>a, <2>1, <2>2, <2>3, <2>4, <2>5, <2>7 DEF Currency
<1>10. CASE EvLoad
  <2>1. /\ UNCHANGED <<members, alerts, ref, desired, unseen, loose, missed, cut>>
        /\ ev'.at = "prices" /\ ev'.any = ev.any /\ ref[Evaluator].at = "no"
    BY <1>10, <1>a DEF EvLoad, tables, stream, history, slips, news, PassShape
  <2>2. ListSymbols' = ListSymbols /\ AlertSymbols' = AlertSymbols /\ Watched' = Watched
    BY <2>1 DEF ListSymbols, AlertSymbols, Watched
  <2>3. QED
    BY <2>1, <2>2 DEF Currency, Pending, Bumping, RightUnlessLoose
<1>11. CASE EvPrices
  <2>1. ev.at = "prices" /\ ev'.at = "check" /\ ev'.any = ev.any
    BY <1>11, <1>a DEF EvPrices, PassShape
  <2>2. QED
    BY <1>11, <2>1, CurrencyFrame DEF EvPrices, tables, stream, history, slips, news
<1>12. CASE EvCheck
  <2>1. PICK a \in ev.batch, failed \in BOOLEAN : EvCheck!(a, failed)
    BY <1>12 DEF EvCheck
  <2> DEFINE obs == EvObserve(a.def, failed)
             holds == obs # NoData /\ Check(a.def, obs)
  <2>2. /\ UNCHANGED <<members, alerts, ref, desired, unseen, loose, missed, cut>> /\ ev.at = "check"
        /\ ev' = [ev EXCEPT !.batch = @ \ {a},
                !.cache = IF NeedsPrice(a.def) THEN @ ELSE [@ EXCEPT ![a.def.symbol] = obs],
                !.at = IF holds THEN "trigger" ELSE "check",
                !.hit = IF holds THEN [id |-> a.id, def |-> a.def, value |-> obs] ELSE Idle]
    BY <2>1 DEF tables, stream, history, slips, news
  <2> HIDE DEF obs, holds
  <2>3. ev'.at \in {"trigger", "check"} /\ ev'.any = ev.any
    BY <1>a, <2>2 DEF PassShape
  <2>4. QED
    BY <2>2, <2>3, CurrencyFrame
<1>13. CASE EvTrigger
  <2> DEFINE i == ev.hit.id
             x == alerts[i].def.symbol
  <2>1. UNCHANGED <<members, desired, missed, cut>> /\ ev.at = "trigger" /\ i \in AlertIds
    BY <1>13, <1>a DEF EvTrigger, stream, slips, PassShape, Shapes, Hits
  <2>2. CASE alerts[i].status = "active"
    <3>1. /\ ev' = [ev EXCEPT !.at = "notify", !.any = TRUE] /\ ref' = TooLateFor({x})
          /\ unseen' = unseen \cup {"alerts"} /\ loose' = loose \cup {x}
          /\ alerts' = [alerts EXCEPT ![i] = [status |-> "triggered", def |-> @.def, value |-> ev.hit.value]]
      BY <1>13, <2>2 DEF EvTrigger
    <3>2. ev'.at = "notify" /\ ev'.any
      BY <1>a, <3>1 DEF PassShape
    <3>a. x \in Symbols
      BY <1>c, <2>1, <2>2
    <3>3. \A q \in Procs : Behind(q, {x})
      BY <1>a, <3>1, <3>a, FallBehind DEF Behind
    <3>4. Touches({x})
      <4> HIDE DEF i
      <4>1. alerts'[i].status = "triggered" /\ \A k \in AlertIds : k # i => alerts'[k] = alerts[k]
        BY <1>c, <2>1, <3>1
      <4>2. QED
        BY <2>1, <3>a, <4>1, AlertTouches
    <3>b. /\ \A p \in Procs : ref'[p].at = "alerts" =>
              \A y \in Symbols \ ref'[p].late : y \in ref'[p].got <=> y \in ListSymbols'
          /\ \A p \in Procs : ref'[p].at = "send" =>
              \A y \in Symbols \ ref'[p].late : y \in ref'[p].got <=> y \in Watched'
          /\ RightUnlessLoose'
      <4> HIDE DEF x
      <4>1. {x} \in SUBSET Symbols
        BY <3>a
      <4>2. QED
        BY <2>1, <3>1, <3>3, <3>4, <4>1, BehindIsRight
    <3>5. Pending' /\ Bumping("alerts")' /\ \A t \in unseen : Bumping(t) => Bumping(t)'
      BY <3>2, <3>3 DEF Pending, Bumping, Behind
    <3>6. ref'[Evaluator].at = "no"
      BY <1>a, <2>1, <3>3 DEF Currency, Behind
    <3>c. \A t \in unseen' : t \in cut' \/ Bumping(t)'
      BY <2>1, <3>1, <3>5 DEF Currency
    <3>7. QED
      BY <3>2, <3>b, <3>5, <3>6, <3>c DEF Currency
  <2>3. CASE alerts[i].status # "active"
    <3>1. ev' = [ev EXCEPT !.at = "check", !.hit = Idle] /\ UNCHANGED <<alerts, ref, unseen, loose>>
      BY <1>13, <2>3 DEF EvTrigger
    <3>2. ev'.at = "check" /\ ev'.any = ev.any
      BY <1>a, <3>1 DEF PassShape
    <3>3. QED
      BY <2>1, <3>1, <3>2, CurrencyFrame
  <2>4. QED
    BY <2>2, <2>3
<1>14. CASE EvTriggerFails
  <2>1. /\ UNCHANGED <<members, alerts, ref, desired, unseen, loose>> /\ ev'.at = "idle" /\ ev'.any = FALSE
        /\ ev.any => cut' = cut \cup {"alerts"} /\ missed' = missed \cup loose
        /\ ~ ev.any => UNCHANGED <<cut, missed>>
    BY <1>14, <1>a DEF EvTriggerFails, tables, stream, slips, PassShape
  <2>2. ListSymbols' = ListSymbols /\ AlertSymbols' = AlertSymbols /\ Watched' = Watched
    BY <2>1 DEF ListSymbols, AlertSymbols, Watched
  <2>3. RightUnlessLoose'
    BY <2>1, <2>2 DEF Currency, RightUnlessLoose
  <2>4. ~ ev.any => (Pending' <=> Pending)
    BY <2>1 DEF Pending
  <2>5. \A t \in unseen' : t \in cut' \/ Bumping(t)'
    BY <2>1 DEF Currency, Bumping
  <2>6. Pending' \/ loose' \subseteq missed'
    BY <2>1, <2>4 DEF Currency
  <2>7. QED
    BY <2>1, <2>2, <2>3, <2>5, <2>6 DEF Currency
<1>15. CASE EvNotify \/ EvNotifyFails
  <2>1. ev.at = "notify" /\ ev'.at = "check" /\ ev'.any = ev.any
    BY <1>15, <1>a DEF EvNotify, EvNotifyFails, PassShape
  <2>2. QED
    BY <1>15, <2>1, CurrencyFrame DEF EvNotify, EvNotifyFails, tables, stream, history, slips, news
<1>16. CASE EvDone
  <2>1. /\ UNCHANGED <<members, alerts, desired, unseen, loose, missed, cut>>
        /\ ev.at = "check" /\ ev'.at = "idle" /\ ev'.any = FALSE
    BY <1>16, <1>a DEF EvDone, tables, stream, history, slips, news, PassShape
  <2>2. ListSymbols' = ListSymbols /\ AlertSymbols' = AlertSymbols /\ Watched' = Watched
    BY <2>1 DEF ListSymbols, AlertSymbols, Watched
  <2>3. CASE ~ ev.any
    <3>1. ref' = ref
      BY <1>16, <2>3 DEF EvDone
    <3>2. (Pending' <=> Pending) /\ \A t \in unseen : Bumping(t)' <=> Bumping(t)
      BY <2>1, <2>3, <3>1 DEF Pending, Bumping
    <3>3. QED
      BY <2>1, <2>2, <3>1, <3>2 DEF Currency, RightUnlessLoose
  <2>4. CASE ev.any
    <3>1. ref' = [ref EXCEPT ![Evaluator] = Beginning("alerts")]
      BY <1>16, <2>4 DEF EvDone
    <3>2. /\ ref'[Evaluator].at = "lists" /\ ref'[Evaluator].table = "alerts" /\ ref[Evaluator].at = "no"
          /\ \A q \in Procs : q # Evaluator => ref'[q] = ref[q]
      BY <1>a, <2>1, <3>1 DEF Beginning, Currency
    <3>3. Pending' /\ \A t \in unseen : Bumping(t) => Bumping(t)'
      BY <1>a, <3>2 DEF Pending, Bumping
    <3>4. QED
      BY <1>a, <2>1, <2>2, <3>2, <3>3 DEF Currency, RightUnlessLoose
  <2>5. QED
    BY <1>a, <2>3, <2>4 DEF PassShape
<1>17. CASE Quote \/ StoreCandles \/ BumpCandles
  BY <1>17, CurrencyFrame DEF Quote, StoreCandles, BumpCandles, tables, stream, history, slips, news
<1>18. CASE Connect \/ ConnectBreaks \/ OnChange \/ SocketBreaks \/ SocketEnds
  BY <1>18, CurrencyFrame DEF Connect, ConnectBreaks, OnChange, SocketBreaks, SocketEnds, tables, history, slips, news
<1>19. CASE Crash
  <2>1. /\ UNCHANGED <<members, alerts>> /\ desired' = ListSymbols \cup AlertSymbols /\ unseen' = {} /\ loose' = {}
        /\ ev'.at = "idle" /\ ev'.any = FALSE /\ \A q \in Procs : ref'[q].at = "no"
    BY <1>19 DEF Crash, tables, EvAtBoot, Resting
  <2>2. ListSymbols' = ListSymbols /\ AlertSymbols' = AlertSymbols /\ Watched' = Watched
    BY <2>1 DEF ListSymbols, AlertSymbols, Watched
  <2>3. QED
    BY <2>1, <2>2 DEF Currency, RightUnlessLoose
<1>20. CASE UNCHANGED vars
  BY <1>20, CurrencyFrame DEF vars
<1>21. QED
  BY <1>1, <1>2, <1>3, <1>4, <1>5, <1>6, <1>7, <1>8, <1>9, <1>10, <1>11, <1>12, <1>13, <1>14, <1>15,
     <1>16, <1>17, <1>18, <1>19, <1>20, <1>4a, <1>9a
  DEF Next, Request, Finish, Refresh, Evaluate, Stream, Market, Fault, Procs

\* The first states satisfy the other three parts.
LEMMA InitRest ==
  ASSUME Init
  PROVE  Lists /\ Firings /\ Currency
<1>1. Lists
  BY WatchAssumption DEF Init, Lists, AlwaysAList, NoOrphans, OneThing, DropIsLocked, Idle, Resting
<1>2. ev.at = "idle" /\ ev.batch = {} /\ ~ ev.any
  BY DEF Init, EvAtBoot
<1>3. \A i \in AlertIds : alerts[i] = NoRow \/ (alerts[i].status = "active" /\ alerts[i].value = NoData)
  BY DEF Init, Armed
<1>4. Firings
  BY <1>2, <1>3 DEF Init, Firings, FiringsAreTrue, FiresOnlyWhenTrue, HonestRow, NoticePerFiring
<1>5. ListSymbols = {}
  BY DEF Init, ListSymbols
<1>6. Currency
  BY <1>2, <1>5 DEF Init, Currency, RightUnlessLoose, Resting
<1>7. QED
  BY <1>1, <1>4, <1>6

\* The inductive invariant.
LEMMA Invariant ==
  Spec => []IInv
<1>1. Init => IInv
  BY InitShapes, InitRest DEF IInv
<1>2. IInv /\ [Next]_vars => IInv'
  BY ShapesStep, ListsStep, FiringsStep, CurrencyStep DEF IInv, Lists
<1>3. QED
  BY <1>1, <1>2, PTL DEF Spec

\* However requests interleave, also with a crash: a list is left, and no
\* symbol belongs to a list that is gone (watchlist_delete, watchlist_add).
THEOREM ListsAreIntact ==
  Spec => []ListsIntact
<1>1. IInv => ListsIntact
  BY DEF IInv, Shapes, Lists, ListsIntact
<1>2. QED
  BY <1>1, Invariant, PTL

\* An alert that fired did so on a reading that satisfies its condition, unless
\* its id was given again during the pass; it is told at most once for each
\* firing, and goes untold only through a push that failed or a crash during it
\* (evaluate_alerts, trigger_alert, send_notification).
THEOREM FiringsTrue ==
  Spec => []FiringsAreTrue
<1>1. IInv => FiringsAreTrue
  BY DEF IInv, Firings
<1>2. QED
  BY <1>1, Invariant, PTL

\* At all times the stream's set is right about every symbol no change of which
\* waits for a refresh; once everything is quiet only those wait whose refresh
\* was overtaken, failed or was dropped, and only a dropped handler or a failed
\* pass leaves a revision behind (refresh_symbols and its callers).
THEOREM QuietStreamIsCurrent ==
  Spec => []QuietIsCurrent
<1>1. IInv => QuietIsCurrent
  BY DEF IInv, Currency, Pending, Bumping, QuietIsCurrent, Quiet
<1>2. QED
  BY <1>1, Invariant, PTL
==============================================================================
