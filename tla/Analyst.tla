------------------------------- MODULE Analyst -------------------------------
(***************************************************************************)
(* The AI analyst of crates/rekt-server/src/analyst.rs over the loop and   *)
(* the transports of crates/rekt-analyst: manual runs, the scheduler's     *)
(* runs, the daily budget, the single-flight latch, what a run bills and   *)
(* records, and the recommendations it leaves.                             *)
(*                                                                         *)
(* A request is a process that reads the budget in one step, takes the     *)
(* latch in a later one and inserts its row in a third, and whose client   *)
(* may hang up at any of its awaits; the run it spawns is a task, keyed by *)
(* its row.  Rows survive a crash, tasks, latch and requests do not.       *)
(* Money is in units; a reply's price is nondeterministic since its input  *)
(* is unbounded.                                                           *)
(***************************************************************************)
EXTENDS Naturals, Sequences, SequencesExt, Screener

CONSTANTS
  Users,          \* concurrent requests; the scheduler is one more
  UserKinds,      \* the kinds they ask for
  Calendar,       \* the times the clock visits, ascending (see DayOf)
  Backends,       \* of {"http", "cli", "ollama", "off"}; found at boot
  Budget,         \* REKT_AI_DAILY_BUDGET
  Headroom,       \* max_output_cost of a kind
  ReplyCosts,     \* what one reply may bill
  MaxIterations,  \* 12 in the code
  MaxAttempts,    \* 3 in the code
  Members,        \* symbols of the screened watchlist
  Markets,        \* signals the members may show, Awaiting with < 30 bars
  FirstMarket,    \* the members' signals at boot
  Answers,        \* sequences of recommendations a model may return
  MaxRuns,        \* bound: analyses
  MaxFaults,      \* bound: crashes, panics and failed writes (hang-ups are free)
  MaxTurns        \* bound: changes of market or level, decisions on recommendations

ASSUME AnalystConstants ==
  /\ Calendar \in Seq(Nat) /\ Calendar # << >>
  /\ \A i \in 1..(Len(Calendar) - 1) : Calendar[i] < Calendar[i + 1]
  /\ Backends \subseteq {"http", "cli", "ollama", "off"}
  /\ {Budget, MaxIterations, MaxAttempts, MaxRuns, MaxTurns, MaxFaults} \subseteq Nat
  /\ MaxIterations # 0 /\ ReplyCosts \subseteq Nat
  /\ "scheduler" \notin Users
  /\ UserKinds \union {"briefing", "weekly_review"} \subseteq DOMAIN Headroom
  /\ \A k \in DOMAIN Headroom : Headroom[k] \in Nat
  /\ Members \subseteq STRING /\ Answers \subseteq Seq(STRING \X STRING)

VARIABLES
  now,        \* index into Calendar
  backend,
  market,     \* signals of the members
  level,      \* screener.aggressiveness
  turns, faults,
  latch,      \* analyst_running
  callers,    \* requests and the scheduler
  rows,       \* analyses
  tasks,      \* running jobs by row
  recs,       \* recommendations
  billed,     \* ghost: by row, what the provider billed
  unread,     \* ghost: the part of it in replies whose usage was never read
  lost,       \* ghost: rows whose job died or never began, or whose record failed
  wedged      \* ghost: a client hung up between the latch and the job

env == <<now, backend, market, level, turns>>
vars == <<env, faults, latch, callers, rows, tasks, recs, billed, unread, lost, wedged>>

Scheduler == "scheduler"
Callers == Users \union {Scheduler}
Awaiting == [rsi |-> Absent, v50 |-> Absent, v200 |-> Absent, dd |-> Absent]
NoJson == << <<"none", "none">> >>
Idle == [at |-> "idle", kind |-> "none", missed |-> {}]

-----------------------------------------------------------------------------
(* Time: three slots to a New York day - before 08:00, until 20:00 (UTC     *)
(* midnight), evening - and day 5 of 7 is a Saturday.                       *)
Clock == Calendar[now]
DayOf(t) == t \div 3
SlotOf(t) == t % 3
IsSaturday(t) == DayOf(t) % 7 = 5
IsWeekday(t) == DayOf(t) % 7 < 5

(* ny_day_start; by variant the UTC day's, which starts an evening earlier. *)
UtcDayStart(t) == 3 * ((t + 1) \div 3) - 1
NyDayStart(t) == 3 * DayOf(t)
SixDays == 18
Ttl == 21

(* analyses_cost_since adds the rows up one by one.                         *)
Total(amounts, m) ==
  LET upTo[n \in 0..m] == IF n = 0 THEN 0 ELSE upTo[n - 1] + amounts[n] IN upTo[m]

SumCosts(ids, cost) ==
  Total([i \in DOMAIN rows |-> IF i \in ids THEN cost[i] ELSE 0], Len(rows))

StartedSince(t) == {i \in DOMAIN rows : rows[i].started >= t}
AnalysesCostSince(t) == SumCosts(StartedSince(t), [i \in DOMAIN rows |-> rows[i].cost])
AnalysisRanSince(kind, t) == \E i \in StartedSince(t) : rows[i].kind = kind

(* scored_candidates: the members with enough bars that pass the screen.    *)
ScoredCandidates ==
  {<<m, Screen(market[m], level)>> :
     m \in {m \in Members : market[m] # Awaiting /\ Screen(market[m], level) # "none"}}

(* What analyze_list checks before it asks for a run.                       *)
IdeasToNarrate == ScoredCandidates # {}

Structured(kind) == kind \in {"weekly_review", "market_ideas"}
UsesTools(kind) == kind \in {"weekly_review", "on_demand"} /\ backend = "http"
BillsOf(cost) == IF backend = "ollama" THEN 0 ELSE cost

-----------------------------------------------------------------------------
Init ==
  /\ now = 1 /\ backend \in Backends
  /\ market = FirstMarket /\ level = "balanced" /\ turns = 0
  /\ latch = FALSE /\ callers = [c \in Callers |-> Idle]
  /\ rows = << >> /\ tasks = << >> /\ recs = << >>
  /\ billed = << >> /\ unread = << >> /\ lost = {} /\ wedged = FALSE /\ faults = 0

Fault == faults < MaxFaults /\ faults' = faults + 1
Turn == turns < MaxTurns /\ turns' = turns + 1

-----------------------------------------------------------------------------
(* maybe_scheduled_runs: one tick picks at most one kind.                   *)
Due(kind) ==
  CASE kind = "briefing" -> /\ IsWeekday(Clock) /\ SlotOf(Clock) >= 1
                            /\ ~AnalysisRanSince("briefing", NyDayStart(Clock))
    [] kind = "weekly_review" -> /\ IsSaturday(Clock) /\ SlotOf(Clock) >= 1
                                 /\ ~AnalysisRanSince("weekly_review", Clock - SixDays)

Tick(kind) ==
  /\ callers[Scheduler].at = "idle" /\ Len(rows) < MaxRuns
  /\ backend # "off" /\ Due(kind)
  /\ callers' = [callers EXCEPT ![Scheduler] = [Idle EXCEPT !.at = "asked", !.kind = kind]]
  /\ UNCHANGED <<env, faults, latch, rows, tasks, recs, billed, unread, lost, wedged>>

(* start_run, first half: the day's recorded spend plus the kind's worst    *)
(* case must fit, else 429; ollama bills nothing and skips it.              *)
Enabled == backend # "off"
FitsBudget(kind) ==
  backend = "ollama" \/ AnalysesCostSince(NyDayStart(Clock)) + Headroom[kind] <= Budget

(* A request of the user's reads the budget at once, analyze_list only when *)
(* the screen has something; the scheduler's comes from its tick.           *)
Request(c, kind) ==
  /\ c # Scheduler /\ callers[c].at = "idle" /\ Len(rows) < MaxRuns
  /\ Enabled /\ (kind = "market_ideas" => IdeasToNarrate)
  /\ FitsBudget(kind)
  /\ callers' = [callers EXCEPT ![c] = [Idle EXCEPT !.at = "fits", !.kind = kind]]
  /\ UNCHANGED <<env, faults, latch, rows, tasks, recs, billed, unread, lost, wedged>>

ReadBudget ==
  /\ callers[Scheduler].at = "asked"
  /\ callers' = [callers EXCEPT ![Scheduler] =
                   IF FitsBudget(@.kind) THEN [@ EXCEPT !.at = "fits"] ELSE Idle]
  /\ UNCHANGED <<env, faults, latch, rows, tasks, recs, billed, unread, lost, wedged>>

(* Second half: compare_exchange, else 409.                                 *)
TakeLatch(c) ==
  /\ callers[c].at = "fits" /\ ~latch /\ Len(rows) < MaxRuns
  /\ latch' = TRUE
  /\ callers' = [callers EXCEPT ![c].at = "insert"]
  /\ UNCHANGED <<env, faults, rows, tasks, recs, billed, unread, lost, wedged>>

LaunchRefused(c) ==
  /\ callers[c].at = "fits" /\ latch
  /\ callers' = [callers EXCEPT ![c] = Idle]
  /\ UNCHANGED <<env, faults, latch, rows, tasks, recs, billed, unread, lost, wedged>>

(* The row, then the spawn: one step, since until a job runs a crash leaves *)
(* the same whether it was spawned or not.                                  *)
NewRow(kind, by) ==
  [kind |-> kind, by |-> by, started |-> Clock, status |-> "running", cost |-> 0]
NewTask(kind) ==
  [at |-> IF kind = "market_ideas" THEN "screen" ELSE "call", left |-> MaxIterations,
   attempt |-> 1, used |-> 0, allow |-> {}, prompt |-> {}, todo |-> << >>, error |-> FALSE]

InsertAnalysis(c) ==
  /\ rows' = Append(rows, NewRow(callers[c].kind, c))
  /\ billed' = Append(billed, 0) /\ unread' = Append(unread, 0)

Launch(c) ==
  /\ callers[c].at = "insert"
  /\ InsertAnalysis(c)
  /\ tasks' = [i \in DOMAIN tasks \union {Len(rows) + 1} |->
                 IF i \in DOMAIN tasks THEN tasks[i] ELSE NewTask(callers[c].kind)]
  /\ callers' = [callers EXCEPT ![c] = Idle]
  /\ UNCHANGED <<env, faults, latch, recs, lost, wedged>>

(* 500, and the latch released.                                             *)
InsertFails(c) ==
  /\ Fault
  /\ callers[c].at = "insert"
  /\ latch' = FALSE
  /\ callers' = [callers EXCEPT ![c] = Idle]
  /\ UNCHANGED <<env, rows, tasks, recs, billed, unread, lost, wedged>>

(* A client that goes away drops its handler at an await.  At the insert's  *)
(* the latch is held and nothing drops it: RunningGuard lives in the job,   *)
(* which is not spawned, whether the insert still happens or not.           *)
HangUp(c) ==
  /\ c # Scheduler /\ callers[c].at # "idle"
  /\ callers' = [callers EXCEPT ![c] = Idle]
  /\ wedged' = (wedged \/ callers[c].at = "insert")
  /\ \/ UNCHANGED <<rows, billed, unread, lost>>
     \/ /\ callers[c].at = "insert"
        /\ InsertAnalysis(c) /\ lost' = lost \union {Len(rows) + 1}
  /\ UNCHANGED <<env, faults, latch, tasks, recs>>

-----------------------------------------------------------------------------
(* The job.  Step(i, t): task i goes on as t.                               *)
Step(i, t) == tasks' = [tasks EXCEPT ![i] = t]
Fails(t) == [t EXCEPT !.at = "finish", !.error = TRUE]

(* market_ideas screens up front; an empty screen fails before any call.    *)
ScreenUpFront(i) ==
  /\ tasks[i].at = "screen"
  /\ Step(i, IF ScoredCandidates = {} THEN Fails(tasks[i])
             ELSE [tasks[i] EXCEPT !.at = "call", !.allow = ScoredCandidates,
                                   !.prompt = ScoredCandidates])
  /\ UNCHANGED <<env, faults, latch, callers, rows, recs, billed, unread, lost, wedged>>

(* Variant: the attempts start over.                                        *)
BusyForever(i) ==
  /\ tasks[i].at = "call" /\ backend = "http"
  /\ Step(i, [tasks[i] EXCEPT !.attempt = (@ % MaxAttempts) + 1])
  /\ UNCHANGED <<env, faults, latch, callers, rows, recs, billed, unread, lost, wedged>>

(* send: only the HTTP transport retries, when the API is busy.             *)
Busy(i) ==
  /\ tasks[i].at = "call" /\ backend = "http"
  /\ Step(i, IF tasks[i].attempt < MaxAttempts
             THEN [tasks[i] EXCEPT !.attempt = @ + 1] ELSE Fails(tasks[i]))
  /\ UNCHANGED <<env, faults, latch, callers, rows, recs, billed, unread, lost, wedged>>

(* No reply to read a usage from: unreachable or refused, which bills       *)
(* nothing; timed out, unreadable, or the CLI's is_error envelope, whose    *)
(* usage parse_cli_output drops with the rest: billed, and never read.      *)
SendFails(i, cost) ==
  /\ tasks[i].at = "call"
  /\ billed' = [billed EXCEPT ![i] = @ + BillsOf(cost)]
  /\ unread' = [unread EXCEPT ![i] = @ + BillsOf(cost)]
  /\ Step(i, Fails(tasks[i]))
  /\ UNCHANGED <<env, faults, latch, callers, rows, recs, lost, wedged>>

(* The stop reasons of a reply: the API's own, and end_turn whatever the    *)
(* model did for the two transports that parse another program's answer.    *)
HttpStops == {"end_turn", "max_tokens", "pause_turn", "tool_use"}
CliStops == {"end_turn"}
OllamaStops == {"end_turn"}
StopReasons == CASE backend = "http" -> HttpStops [] backend = "cli" -> CliStops
                 [] OTHER -> OllamaStops

(* Usage is added before the stop reason is looked at; the variant forgets  *)
(* that of a truncated reply.                                               *)
AddUsageOnSuccess(t, cost, stop) ==
  IF stop = "max_tokens" THEN t ELSE [t EXCEPT !.used = @ + cost]
AddUsage(t, cost, stop) == [t EXCEPT !.used = @ + cost]

NextTurn(t) ==
  IF t.left = 1 THEN Fails(t) ELSE [t EXCEPT !.left = @ - 1, !.attempt = 1]

(* What the loop's text leads to: a structured kind without a JSON object   *)
(* is an error, its usage kept; else its recommendations are stored.        *)
Ends(kind, answer, t) ==
  CASE ~Structured(kind) -> [t EXCEPT !.at = "finish"]
    [] Structured(kind) /\ answer = NoJson -> Fails(t)
    [] OTHER -> [t EXCEPT !.at = "finish", !.todo = answer]

Reply(i, cost, stop, answer) ==
  LET t == AddUsage(tasks[i], cost, stop)
      kind == rows[i].kind
  IN  /\ tasks[i].at = "call" /\ stop \in StopReasons
      /\ (stop # "end_turn" \/ ~Structured(kind)) => answer = NoJson
      /\ billed' = [billed EXCEPT ![i] = @ + BillsOf(cost)]
      /\ Step(i, CASE stop = "end_turn" -> Ends(kind, answer, t)
                   [] stop = "max_tokens" -> Fails(t)
                   [] stop = "tool_use" /\ ~UsesTools(kind) -> Fails(t)
                   [] OTHER -> NextTurn(t))
      /\ UNCHANGED <<env, faults, latch, callers, rows, recs, unread, lost, wedged>>

(* Those of market_ideas only for screened names and with the screen's side;*)
(* by variant with the model's.                                             *)
Screened(t, sym) == \E a \in {"buy", "sell"} : <<sym, a>> \in t.allow
Skipped(kind, p, t) == kind = "market_ideas" /\ ~Screened(t, p[1])
StoredAsAnswered(kind, p, t) == p
Stored(kind, p, t) ==
  IF kind = "market_ideas" THEN <<p[1], CHOOSE a \in {"buy", "sell"} : <<p[1], a>> \in t.allow>>
  ELSE p

(* insert_recommendation, one transaction each; a failure is only logged.   *)
NewRec(i, p) ==
  [row |-> i, symbol |-> p[1], action |-> p[2], status |-> "open",
   created |-> Clock, expires |-> Clock + Ttl, prompted |-> tasks[i].prompt]

StoreRec(i) ==
  LET p == Head(tasks[i].todo)
      kind == rows[i].kind
  IN  /\ tasks[i].at = "finish" /\ tasks[i].todo # << >>
      /\ Step(i, [tasks[i] EXCEPT !.todo = Tail(@)])
      /\ IF Skipped(kind, p, tasks[i]) THEN UNCHANGED <<recs, faults>>
         ELSE \/ recs' = Append(recs, NewRec(i, Stored(kind, p, tasks[i]))) /\ faults' = faults
              \/ recs' = recs /\ Fault
      /\ UNCHANGED <<env, latch, callers, rows, billed, unread, lost, wedged>>

(* finish_analysis, then RunningGuard drops; a failed UPDATE is only logged *)
(* and leaves the row as it was.                                            *)
Release(i) ==
  /\ latch' = FALSE
  /\ tasks' = [j \in DOMAIN tasks \ {i} |-> tasks[j]]
  /\ callers' = [c \in Callers |-> IF callers[c].at = "fits"
                                   THEN [callers[c] EXCEPT !.missed = @ \union {i}] ELSE callers[c]]

Finish(i) ==
  /\ tasks[i].at = "finish" /\ tasks[i].todo = << >>
  /\ rows' = [rows EXCEPT ![i].status = IF tasks[i].error THEN "error" ELSE "done",
                          ![i].cost = BillsOf(tasks[i].used)]
  /\ Release(i)
  /\ UNCHANGED <<env, faults, recs, billed, unread, lost, wedged>>

FinishFails(i) ==
  /\ Fault
  /\ tasks[i].at = "finish" /\ tasks[i].todo = << >>
  /\ lost' = lost \union {i}
  /\ Release(i)
  /\ UNCHANGED <<env, rows, recs, billed, unread, wedged>>

(* A panic in the job: the guard's destructor still runs.                   *)
Panic(i) ==
  /\ Fault
  /\ i \in DOMAIN tasks
  /\ lost' = lost \union {i}
  /\ Release(i)
  /\ UNCHANGED <<env, rows, recs, billed, unread, wedged>>

-----------------------------------------------------------------------------
(* list_recommendations computes expiry at read; the update that accepts or *)
(* dismisses pairs with it, and repeating a decision succeeds.              *)
Shown(r) == IF r.status = "open" /\ r.expires < Clock THEN "expired" ELSE r.status

SetRecommendationStatus(k, status) ==
  /\ recs[k].status \in {"open", status} /\ recs[k].expires >= Clock
  /\ recs' = [recs EXCEPT ![k].status = status]
  /\ Turn
  /\ UNCHANGED <<now, backend, market, level, faults, latch, callers, rows, tasks, billed, unread, lost, wedged>>

-----------------------------------------------------------------------------
Advance ==
  /\ now < Len(Calendar) /\ now' = now + 1
  /\ UNCHANGED <<backend, market, level, turns, faults, latch, callers, rows, tasks, recs, billed, unread, lost, wedged>>

(* Bound: market and level move only while the screen's result is in use.   *)
ScreenInUse ==
  \E i \in DOMAIN tasks : rows[i].kind = "market_ideas" /\ tasks[i].at # "finish"

MarketMoves ==
  /\ Turn /\ ScreenInUse
  /\ market' \in [Members -> Markets] \ {market}
  /\ UNCHANGED <<now, backend, level, faults, latch, callers, rows, tasks, recs, billed, unread, lost, wedged>>

PutSettings ==
  /\ Turn /\ ScreenInUse
  /\ level' \in Levels \ {level}
  /\ UNCHANGED <<now, backend, market, faults, latch, callers, rows, tasks, recs, billed, unread, lost, wedged>>

(* A restart, perhaps on another backend; nothing mends the rows.           *)
Crash ==
  /\ Fault
  /\ backend' \in Backends
  /\ latch' = FALSE /\ tasks' = << >> /\ callers' = [c \in Callers |-> Idle]
  /\ lost' = lost \union DOMAIN tasks /\ wedged' = FALSE
  /\ UNCHANGED <<now, market, level, turns, rows, recs, billed, unread>>

Work(i) ==
  /\ i \in DOMAIN tasks
  /\ \/ ScreenUpFront(i) \/ Busy(i)
     \/ \E cost \in ReplyCosts \union {0} : SendFails(i, cost)
     \/ \E cost \in ReplyCosts, stop \in StopReasons, answer \in Answers \union {NoJson} :
          Reply(i, cost, stop, answer)
     \/ StoreRec(i) \/ Finish(i) \/ FinishFails(i)

Next ==
  \/ \E c \in Callers :
       \/ \E kind \in UserKinds : Request(c, kind)
       \/ TakeLatch(c) \/ LaunchRefused(c)
       \/ Launch(c) \/ InsertFails(c) \/ HangUp(c)
  \/ \E kind \in {"briefing", "weekly_review"} : Tick(kind)
  \/ ReadBudget
  \/ \E i \in DOMAIN tasks : Work(i) \/ Panic(i)
  \/ \E k \in DOMAIN recs, status \in {"accepted", "dismissed"} :
       SetRecommendationStatus(k, status)
  \/ Advance \/ MarketMoves \/ PutSettings \/ Crash

(* Every await of the job is bounded: 600 s on each call of each transport, *)
(* so a job that can step does; and the insert answers a handler that waits.*)
Fairness ==
  /\ WF_vars(\E i \in DOMAIN tasks : Work(i))
  /\ WF_vars(\E c \in Callers : Launch(c) \/ InsertFails(c))

Spec == Init /\ [][Next]_vars /\ Fairness

-----------------------------------------------------------------------------
(* Every part of the state has its type, and the clock is in its calendar. *)
TypeOK ==
  /\ now \in DOMAIN Calendar /\ backend \in Backends /\ level \in Levels
  /\ latch \in BOOLEAN /\ wedged \in BOOLEAN /\ DOMAIN callers = Callers
  /\ Len(rows) = Len(billed) /\ Len(rows) = Len(unread) /\ DOMAIN tasks \subseteq DOMAIN rows
  /\ lost \subseteq DOMAIN rows
  /\ \A i \in DOMAIN tasks : tasks[i].left \in 1..MaxIterations
  /\ \A k \in DOMAIN recs : recs[k].row \in DOMAIN rows

(* The latch is held exactly while one request inserts or one job is alive,*)
(* across errors, panics and restarts - or since a client hung up between  *)
(* the two, and then no other run gets past it; a row says running only for*)
(* that job or for one that never began or whose end was never recorded.   *)
Inserting == {c \in Callers : callers[c].at = "insert"}

LatchIsTheRun ==
  /\ latch <=> (Inserting # {} \/ DOMAIN tasks # {} \/ wedged)
  /\ \A c, d \in Inserting : c = d
  /\ \A i, j \in DOMAIN tasks : i = j
  /\ Inserting # {} => DOMAIN tasks = {}
  /\ wedged => Inserting = {} /\ DOMAIN tasks = {}
  /\ \A i \in DOMAIN rows : rows[i].status = "running" <=> i \in DOMAIN tasks \union lost

(* A row whose end was recorded costs what its replies billed, however the *)
(* run ended: failures may not spend invisibly.  They do when the failure  *)
(* is a call's own and its usage was not read; a run that says done has    *)
(* every reply on its row.                                                 *)
BilledIsRecorded ==
  \A i \in DOMAIN rows :
    /\ rows[i].status # "running" => rows[i].cost + unread[i] = billed[i]
    /\ rows[i].status = "done" => unread[i] = 0

(* The rows tell what runs and what was spent.                             *)
RunsRecorded == TypeOK /\ LatchIsTheRun /\ BilledIsRecorded

(* A run starts only when what the day's recorded runs billed in the       *)
(* replies that were read leaves room for its worst case - all of them but *)
(* those that ended between the request's budget read and its latch, which *)
(* it never saw.  A backend that bills nothing is not asked.               *)
StartsWithinBudget ==
  [][\A c \in Callers :
       (Len(rows') > Len(rows) /\ rows'[Len(rows')].by = c /\ backend # "ollama")
       => SumCosts(StartedSince(NyDayStart(Clock)) \ (lost \union callers[c].missed),
                   [i \in DOMAIN rows |-> billed[i] - unread[i]]) + Headroom[callers[c].kind]
            <= Budget]_vars

(* The scheduler starts at most one briefing in a New York day and at most *)
(* one review in six days, across restarts and late evenings.              *)
ScheduledOnce ==
  \A i, j \in DOMAIN rows :
    (i < j /\ rows[i].by = Scheduler /\ rows[j].by = Scheduler /\ rows[i].kind = rows[j].kind)
    => IF rows[i].kind = "briefing" THEN DayOf(rows[i].started) # DayOf(rows[j].started)
       ELSE rows[j].started - rows[i].started > SixDays

(* What a market_ideas run stores is what its prompt listed: no name and no*)
(* side of the model's own, also when market or level moved meanwhile.     *)
GroundedOnly ==
  \A k \in DOMAIN recs :
    rows[recs[k].row].kind = "market_ideas" =>
      <<recs[k].symbol, recs[k].action>> \in recs[k].prompted

(* Every run ends, whatever the API answers, and frees the latch: but for  *)
(* a restart, only a client that hung up during the insert leaves it held. *)
RunsEnd == latch ~> (~latch \/ wedged)
=============================================================================
