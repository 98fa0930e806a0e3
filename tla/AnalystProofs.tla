---------------------------- MODULE AnalystProofs ----------------------------
(***************************************************************************)
(* What Analyst promises for every calendar, budget, transport and set of  *)
(* answers: its rows tell what ran and what it cost, no run starts beyond  *)
(* the day's budget but for the runs it missed, the scheduler does not     *)
(* start a kind twice, and its ideas come from the screen.                 *)
(*                                                                         *)
(* IInv is the inductive invariant.  RunsRecorded alone is not: a job may  *)
(* only record what it was billed if its running total agrees with the     *)
(* bills so far, less what was never read (Spending).  ScheduledOnce needs what the scheduler read   *)
(* when it asked to hold until it launches (Schedule), and GroundedOnly    *)
(* that a job's allow list is what it prompted (Grounded).  The budget     *)
(* rests on AllFitted: what a request read still holds when it launches,   *)
(* since the day's recorded spend only grows when a run ends, and a run    *)
(* that ends meanwhile is one the request has missed.                      *)
(*                                                                         *)
(* At the end, the screen the ideas come from, for all signals.            *)
(***************************************************************************)
EXTENDS Analyst, WellFoundedInduction, SequenceTheorems, TLAPS

\* Symbols and sides; the provers do not know that a literal is a STRING.
Words == STRING \cup {"buy", "sell", "none"}
Pairs == Words \X Words
Kinds == {"briefing", "weekly_review", "market_ideas", "none"} \cup UserKinds

CallerShape == [at : {"idle", "asked", "fits", "insert"}, kind : Kinds, missed : SUBSET Nat]

RowShape == [kind : Kinds, by : Callers, started : Nat, status : {"running", "done", "error"}, cost : Nat]

TaskShape == [at : {"screen", "call", "finish"}, left : 1..MaxIterations, attempt : Nat, used : Nat,
              allow : SUBSET Pairs, prompt : SUBSET Pairs, todo : Seq(Pairs), error : BOOLEAN]

RecShape == [row : Nat, symbol : Words, action : Words, status : {"open", "accepted", "dismissed"}, created : Nat,
             expires : Nat, prompted : SUBSET Pairs]

\* The shapes TypeOK leaves open.
Shapes ==
  /\ TypeOK
  /\ callers \in [Callers -> CallerShape]
  /\ rows \in Seq(RowShape) /\ billed \in Seq(Nat) /\ unread \in Seq(Nat) /\ recs \in Seq(RecShape)
  /\ \A i \in DOMAIN tasks : tasks[i] \in TaskShape

\* What a job has spent so far is what was billed, less what was not read; a job that could not
\* read a bill has failed, and none was lost.
Spending ==
  \A i \in DOMAIN tasks : /\ i \notin lost /\ BillsOf(tasks[i].used) + unread[i] = billed[i]
                          /\ unread[i] # 0 => tasks[i].error

Runs == LatchIsTheRun /\ BilledIsRecorded /\ Spending

\* The rows and the scheduler's request are apart as the schedule wants.
Apart(kind, s, t) == IF kind = "briefing" THEN DayOf(s) < DayOf(t) ELSE t - s > SixDays

Schedule ==
  /\ callers[Scheduler].at # "idle" =>
       /\ callers[Scheduler].kind \in {"briefing", "weekly_review"}
       /\ \A i \in DOMAIN rows :
            rows[i].by = Scheduler /\ rows[i].kind = callers[Scheduler].kind
              => Apart(rows[i].kind, rows[i].started, Clock)
  /\ \A i, j \in DOMAIN rows :
       i < j /\ rows[i].by = Scheduler /\ rows[j].by = Scheduler /\ rows[i].kind = rows[j].kind
         => Apart(rows[i].kind, rows[i].started, rows[j].started)

\* A job's allow list is what it put in its prompt.
Grounded == GroundedOnly /\ \A i \in DOMAIN tasks : tasks[i].allow = tasks[i].prompt

IInv == Shapes /\ Runs /\ Schedule /\ Grounded
-----------------------------------------------------------------------------
(* The shapes.                                                              *)

\* One job goes on and the others stay.
LEMMA OneGoesOn ==
  ASSUME NEW i \in DOMAIN tasks, NEW t, Step(i, t)
  PROVE  /\ DOMAIN tasks' = DOMAIN tasks /\ tasks'[i] = t
         /\ \A j \in DOMAIN tasks : j # i => tasks'[j] = tasks[j]
  BY DEF Step

\* A job that ends leaves the others, and a request that waits for the latch has missed it.
LEMMA OneEnds ==
  ASSUME NEW i \in DOMAIN tasks, Release(i), callers \in [Callers -> CallerShape], i \in Nat
  PROVE  /\ DOMAIN tasks' = DOMAIN tasks \ {i} /\ ~latch'
         /\ \A j \in DOMAIN tasks' : tasks'[j] = tasks[j]
         /\ callers' \in [Callers -> CallerShape]
         /\ \A c \in Callers : callers'[c].at = callers[c].at /\ callers'[c].kind = callers[c].kind
         /\ \A c \in Callers : callers[c].at = "fits" => callers'[c].missed = callers[c].missed \cup {i}
<1>1. \A c \in Callers : [callers[c] EXCEPT !.missed = @ \cup {i}] \in CallerShape
  BY DEF CallerShape
<1>2. \A c \in Callers : /\ [callers[c] EXCEPT !.missed = @ \cup {i}].at = callers[c].at
                         /\ [callers[c] EXCEPT !.missed = @ \cup {i}].kind = callers[c].kind
                         /\ [callers[c] EXCEPT !.missed = @ \cup {i}].missed = callers[c].missed \cup {i}
  BY DEF CallerShape
<1>3. QED
  BY <1>1, <1>2 DEF Release

\* The clock shows one of its calendar's times.
LEMMA ClockIsNat ==
  ASSUME TypeOK
  PROVE  Clock \in Nat
  BY AnalystConstants DEF TypeOK, Clock

LEMMA ClockIsNext ==
  ASSUME Shapes'
  PROVE  Clock' \in Nat
  BY AnalystConstants DEF Shapes, TypeOK, Clock

\* A caller that asks nothing is a caller.
LEMMA IdleShape ==
  Idle \in CallerShape
  BY DEF Idle, CallerShape, Kinds

\* A job that starts has the shape of one.
LEMMA NewTaskShape ==
  ASSUME NEW kind
  PROVE  NewTask(kind) \in TaskShape
<1>1. << >> \in Seq(Pairs)
  BY EmptySeq
<1>2. QED
  BY <1>1, AnalystConstants DEF NewTask, TaskShape

\* A job that fails keeps what it spent and what it prompted.
LEMMA FailsShape ==
  ASSUME NEW t \in TaskShape
  PROVE  /\ Fails(t) \in TaskShape /\ Fails(t).used = t.used /\ Fails(t).allow = t.allow
         /\ Fails(t).prompt = t.prompt /\ Fails(t).error
  BY DEF Fails, TaskShape

\* A reply's usage is added before its stop reason is looked at.
LEMMA AddUsageShape ==
  ASSUME NEW t \in TaskShape, NEW cost \in Nat, NEW stop
  PROVE  LET u == AddUsage(t, cost, stop) IN
         u \in TaskShape /\ u.used = t.used + cost /\ u.allow = t.allow /\ u.prompt = t.prompt /\ u.error = t.error
  BY DEF AddUsage, TaskShape

\* Another turn of the loop spends nothing by itself, and turns stay within their limit.
LEMMA NextTurnShape ==
  ASSUME NEW t \in TaskShape
  PROVE  LET u == NextTurn(t) IN
         /\ u \in TaskShape /\ u.used = t.used /\ u.allow = t.allow /\ u.prompt = t.prompt
         /\ t.error => u.error
<1>1. CASE t.left = 1
  BY <1>1, FailsShape DEF NextTurn
<1>2. CASE t.left # 1
  <2>1. t.left - 1 \in 1..MaxIterations
    BY <1>2, AnalystConstants DEF TaskShape
  <2>2. QED
    BY <1>2, <2>1 DEF NextTurn, TaskShape
<1>3. QED
  BY <1>1, <1>2

\* The end of the loop spends nothing, whether its text could be read or not.
LEMMA EndsShape ==
  ASSUME NEW t \in TaskShape, NEW kind, NEW answer \in Answers \cup {NoJson}
  PROVE  LET u == Ends(kind, answer, t) IN
         /\ u \in TaskShape /\ u.used = t.used /\ u.allow = t.allow /\ u.prompt = t.prompt
         /\ t.error => u.error
<1>1. CASE ~ Structured(kind)
  <2>1. Ends(kind, answer, t) = [t EXCEPT !.at = "finish"]
    BY <1>1 DEF Ends
  <2>2. QED
    BY <2>1 DEF TaskShape
<1>2. CASE Structured(kind) /\ answer = NoJson
  BY <1>2, FailsShape DEF Ends
<1>3. CASE Structured(kind) /\ answer # NoJson
  <2>1. answer \in Seq(Pairs)
    <3>1. answer \in Seq(STRING \X STRING)
      BY <1>3, AnalystConstants
    <3>2. \A p \in STRING \X STRING : p \in Pairs
      BY DEF Pairs, Words
    <3>3. QED
      BY <3>1, <3>2, LenProperties, ElementOfSeq, SeqDef
  <2>2. Ends(kind, answer, t) = [t EXCEPT !.at = "finish", !.todo = answer]
    BY <1>3 DEF Ends
  <2>3. QED
    BY <2>1, <2>2 DEF TaskShape
<1>4. QED
  BY <1>1, <1>2, <1>3

\* Whatever the stop reason, a reply adds its cost and nothing else counts.
LEMMA ReplyGoesOn ==
  ASSUME Shapes, NEW i \in DOMAIN tasks, NEW cost \in ReplyCosts, NEW stop,
         NEW answer \in Answers \cup {NoJson}, Reply(i, cost, stop, answer)
  PROVE  /\ DOMAIN tasks' = DOMAIN tasks /\ tasks'[i] \in TaskShape
         /\ \A j \in DOMAIN tasks : j # i => tasks'[j] = tasks[j]
         /\ tasks'[i].used = tasks[i].used + cost /\ (tasks[i].error => tasks'[i].error)
         /\ tasks'[i].allow = tasks[i].allow /\ tasks'[i].prompt = tasks[i].prompt
<1> DEFINE t == AddUsage(tasks[i], cost, stop)
           kind == rows[i].kind
           u == CASE stop = "end_turn" -> Ends(kind, answer, t)
                  [] stop = "max_tokens" -> Fails(t)
                  [] stop = "tool_use" /\ ~UsesTools(kind) -> Fails(t)
                  [] OTHER -> NextTurn(t)
<1>1. Step(i, u)
  BY DEF Reply
<1>2. /\ t \in TaskShape /\ t.used = tasks[i].used + cost /\ t.allow = tasks[i].allow
      /\ t.prompt = tasks[i].prompt /\ t.error = tasks[i].error
  <2>1. tasks[i] \in TaskShape /\ cost \in Nat
    BY AnalystConstants DEF Shapes
  <2>2. QED
    BY <2>1, AddUsageShape
<1> HIDE DEF t
<1>3. u \in {Ends(kind, answer, t), Fails(t), NextTurn(t)}
  <2>1. CASE stop = "end_turn"
    BY <2>1
  <2>2. CASE stop = "max_tokens"
    BY <2>2
  <2>3. CASE stop \notin {"end_turn", "max_tokens"} /\ stop = "tool_use" /\ ~UsesTools(kind)
    BY <2>3
  <2>4. CASE stop \notin {"end_turn", "max_tokens"} /\ ~ (stop = "tool_use" /\ ~UsesTools(kind))
    BY <2>4
  <2>5. QED
    BY <2>1, <2>2, <2>3, <2>4
<1> HIDE DEF u
<1>4. /\ u \in TaskShape /\ u.used = t.used /\ u.allow = t.allow /\ u.prompt = t.prompt
      /\ t.error => u.error
  BY <1>2, <1>3, EndsShape, FailsShape, NextTurnShape
<1>5. QED
  BY <1>1, <1>2, <1>4, OneGoesOn

\* The screen lists pairs of a symbol and a side.
LEMMA ScreenShape ==
  ScoredCandidates \in SUBSET Pairs
<1>1. ASSUME NEW m \in Members
      PROVE  Screen(market[m], level) \in Words
  <2> DEFINE buy == BuyScore(market[m], level)
             sell == SellScore(market[m], level)
  <2>1. Screen(market[m], level) = IF buy >= sell /\ buy >= MinScore THEN "buy"
                                   ELSE IF sell > buy /\ sell >= MinScore THEN "sell" ELSE "none"
    BY DEF Screen
  <2> HIDE DEF buy, sell
  <2>2. QED
    BY <2>1 DEF Words
<1>2. \A m \in Members : m \in Words
  BY AnalystConstants DEF Words
<1>3. QED
  BY <1>1, <1>2 DEF ScoredCandidates, Pairs

\* A boot has the shapes.
LEMMA InitShapes ==
  ASSUME Init
  PROVE  Shapes
<1>1. 1 \in DOMAIN Calendar
  BY AnalystConstants
<1>2. << >> \in Seq(RowShape) /\ << >> \in Seq(Nat) /\ << >> \in Seq(RecShape)
  BY EmptySeq
<1>3. callers \in [Callers -> CallerShape] /\ DOMAIN callers = Callers
  BY IdleShape DEF Init
<1>4. DOMAIN tasks = {} /\ DOMAIN rows = {} /\ DOMAIN recs = {}
  BY DEF Init
<1>5. TypeOK
  BY <1>1, <1>3, <1>4 DEF Init, TypeOK, Levels
<1>6. QED
  BY <1>2, <1>3, <1>4, <1>5 DEF Init, Shapes

\* A row keeps its shape when its end is recorded.
LEMMA RecordedRow ==
  ASSUME NEW i \in DOMAIN rows, rows \in Seq(RowShape), NEW status \in {"done", "error"}, NEW cost \in Nat,
         rows' = [rows EXCEPT ![i].status = status, ![i].cost = cost]
  PROVE  /\ rows' \in Seq(RowShape) /\ Len(rows') = Len(rows) /\ DOMAIN rows' = DOMAIN rows
         /\ rows'[i].status = status /\ rows'[i].cost = cost
         /\ \A j \in DOMAIN rows : j # i => rows'[j] = rows[j]
         /\ \A j \in DOMAIN rows : /\ rows'[j].kind = rows[j].kind /\ rows'[j].by = rows[j].by
                                   /\ rows'[j].started = rows[j].started
<1> DEFINE row == [rows[i] EXCEPT !.status = status, !.cost = cost]
<1>1. i \in 1..Len(rows) /\ DOMAIN rows = 1..Len(rows) /\ rows[i] \in RowShape
  BY LenProperties, ElementOfSeq
<1>2. /\ row \in RowShape /\ row.status = status /\ row.cost = cost
      /\ row.kind = rows[i].kind /\ row.by = rows[i].by /\ row.started = rows[i].started
  BY <1>1 DEF RowShape
<1>3. rows' = [rows EXCEPT ![i] = row]
  BY <1>1
<1> HIDE DEF row
<1>4. /\ rows' \in Seq(RowShape) /\ Len(rows') = Len(rows) /\ rows'[i] = row
      /\ \A j \in DOMAIN rows : j # i => rows'[j] = rows[j]
  <2>1. rows' = [rows EXCEPT ![i] = row] /\ i \in 1..Len(rows) /\ row \in RowShape
    BY <1>1, <1>2, <1>3
  <2>2. /\ [rows EXCEPT ![i] = row] \in Seq(RowShape) /\ Len([rows EXCEPT ![i] = row]) = Len(rows)
        /\ \A j \in 1..Len(rows) : [rows EXCEPT ![i] = row][j] = IF j = i THEN row ELSE rows[j]
    BY <2>1, ExceptSeq
  <2>3. QED
    BY <1>1, <2>1, <2>2
<1>5. DOMAIN rows' = DOMAIN rows
  BY <1>1, <1>3
<1>6. QED
  BY <1>2, <1>4, <1>5

\* A bill is a number.
LEMMA BillsAreNat ==
  ASSUME NEW n \in Nat
  PROVE  BillsOf(n) \in Nat
  BY DEF BillsOf

\* What is stored is a pair, and for market_ideas one of the allowed.
LEMMA StoredPair ==
  ASSUME NEW kind, NEW p \in Pairs, NEW t, ~ Skipped(kind, p, t)
  PROVE  /\ Stored(kind, p, t) \in Pairs
         /\ kind = "market_ideas" => Stored(kind, p, t) \in t.allow
<1>1. CASE kind = "market_ideas"
  <2>1. \E a \in {"buy", "sell"} : <<p[1], a>> \in t.allow
    BY <1>1 DEF Skipped, Screened
  <2> DEFINE a == CHOOSE a \in {"buy", "sell"} : <<p[1], a>> \in t.allow
  <2>2. a \in {"buy", "sell"} /\ <<p[1], a>> \in t.allow
    BY <2>1
  <2>3. Stored(kind, p, t) = <<p[1], a>>
    BY <1>1 DEF Stored
  <2> HIDE DEF a
  <2>4. p[1] \in Words /\ a \in Words
    BY <2>2 DEF Pairs, Words
  <2>5. QED
    BY <2>2, <2>3, <2>4 DEF Pairs
<1>2. CASE kind # "market_ideas"
  BY <1>2 DEF Stored
<1>3. QED
  BY <1>1, <1>2

\* A stored recommendation names its row.
LEMMA NewRecShape ==
  ASSUME NEW i \in Nat, NEW p \in Pairs, tasks[i] \in TaskShape, Clock \in Nat
  PROVE  NewRec(i, p) \in RecShape /\ NewRec(i, p).row = i
<1>1. p[1] \in Words /\ p[2] \in Words
  BY DEF Pairs
<1>2. tasks[i].prompt \in SUBSET Pairs
  BY DEF TaskShape
<1>3. Clock + Ttl \in Nat
  BY DEF Ttl
<1>4. QED
  BY <1>1, <1>2, <1>3 DEF NewRec, RecShape

\* Every step keeps the shapes.
LEMMA ShapesStep ==
  ASSUME Shapes, [Next]_vars
  PROVE  Shapes'
<1>a. /\ TypeOK /\ callers \in [Callers -> CallerShape]
      /\ rows \in Seq(RowShape) /\ billed \in Seq(Nat) /\ unread \in Seq(Nat) /\ recs \in Seq(RecShape)
      /\ \A i \in DOMAIN tasks : tasks[i] \in TaskShape
  BY DEF Shapes
<1>b. /\ Clock \in Nat /\ Scheduler \in Callers
      /\ DOMAIN rows = 1..Len(rows) /\ Len(rows) \in Nat
      /\ DOMAIN billed = 1..Len(billed) /\ DOMAIN unread = 1..Len(unread) /\ DOMAIN recs = 1..Len(recs) /\ Len(recs) \in Nat
  BY <1>a, ClockIsNat, LenProperties DEF Callers
\* Steps of requests, which only move callers and the latch.
<1>1. ASSUME callers' \in [Callers -> CallerShape], latch' \in BOOLEAN, wedged' \in BOOLEAN,
             UNCHANGED <<env, rows, tasks, recs, billed, unread, lost>>
      PROVE  Shapes'
  BY <1>1, <1>a DEF Shapes, TypeOK, env
\* Steps of a job, which move it on.
<1>2. ASSUME NEW i \in DOMAIN tasks, tasks'[i] \in TaskShape, DOMAIN tasks' = DOMAIN tasks,
             \A j \in DOMAIN tasks : j # i => tasks'[j] = tasks[j],
             billed' \in Seq(Nat), Len(billed') = Len(billed), unread' \in Seq(Nat), Len(unread') = Len(unread),
             recs' \in Seq(RecShape), \A k \in DOMAIN recs' : recs'[k].row \in DOMAIN rows,
             UNCHANGED <<env, latch, callers, rows, lost, wedged>>
      PROVE  Shapes'
  <2>1. \A j \in DOMAIN tasks' : tasks'[j] \in TaskShape
    BY <1>2, <1>a
  <2>2. \A j \in DOMAIN tasks' : tasks'[j].left \in 1..MaxIterations
    BY <2>1 DEF TaskShape
  <2>3. TypeOK'
    BY <1>2, <1>a, <2>2 DEF TypeOK, env
  <2>4. QED
    BY <1>2, <1>a, <2>1, <2>3 DEF Shapes
\* Steps that end a job.
<1>3. ASSUME NEW i \in DOMAIN tasks, Release(i), lost' \subseteq DOMAIN rows, rows' \in Seq(RowShape),
             Len(rows') = Len(rows), UNCHANGED <<env, recs, billed, unread, wedged>>
      PROVE  Shapes'
  <2>0. i \in Nat
    BY <1>a, <1>b DEF TypeOK
  <2>1. /\ DOMAIN tasks' = DOMAIN tasks \ {i} /\ \A j \in DOMAIN tasks' : tasks'[j] = tasks[j]
        /\ callers' \in [Callers -> CallerShape]
    BY <1>3, <1>a, <2>0, OneEnds
  <2>2. DOMAIN rows' = DOMAIN rows /\ latch' \in BOOLEAN
    BY <1>3, <1>b, LenProperties DEF Release
  <2>3. TypeOK'
    BY <1>3, <1>a, <2>1, <2>2 DEF TypeOK, env
  <2>4. QED
    BY <1>3, <1>a, <2>1, <2>3 DEF Shapes
<1>4. ASSUME NEW kind \in {"briefing", "weekly_review"}, Tick(kind) PROVE Shapes'
  <2>1. [Idle EXCEPT !.at = "asked", !.kind = kind] \in CallerShape
    BY <1>4 DEF Idle, CallerShape, Kinds
  <2>2. callers' \in [Callers -> CallerShape]
    BY <1>4, <1>a, <2>1 DEF Tick
  <2>3. QED
    BY <1>1, <1>a, <1>4, <2>2 DEF Tick, TypeOK
<1>5. ASSUME NEW c \in Callers, NEW kind \in UserKinds, Request(c, kind) PROVE Shapes'
  <2>1. [Idle EXCEPT !.at = "fits", !.kind = kind] \in CallerShape
    BY <1>5 DEF Idle, CallerShape, Kinds
  <2>2. callers' \in [Callers -> CallerShape]
    BY <1>5, <1>a, <2>1 DEF Request
  <2>3. QED
    BY <1>1, <1>a, <1>5, <2>2 DEF Request, TypeOK
<1>6. CASE ReadBudget
  <2>1. [callers[Scheduler] EXCEPT !.at = "fits"] \in CallerShape
    BY <1>a, <1>b DEF CallerShape
  <2>2. callers' \in [Callers -> CallerShape]
    BY <1>6, <1>a, <2>1, IdleShape DEF ReadBudget
  <2>3. QED
    BY <1>1, <1>a, <1>6, <2>2 DEF ReadBudget, TypeOK
<1>7. ASSUME NEW c \in Callers, TakeLatch(c) \/ LaunchRefused(c) \/ InsertFails(c) PROVE Shapes'
  <2>1. [callers[c] EXCEPT !.at = "insert"] \in CallerShape
    BY <1>a DEF CallerShape
  <2>2. callers' \in [Callers -> CallerShape]
    BY <1>7, <1>a, <2>1, IdleShape DEF TakeLatch, LaunchRefused, InsertFails
  <2>3. latch' \in BOOLEAN /\ wedged' \in BOOLEAN /\ UNCHANGED <<env, rows, tasks, recs, billed, unread, lost>>
    BY <1>7, <1>a DEF TakeLatch, LaunchRefused, InsertFails, TypeOK
  <2>4. QED
    BY <1>1, <2>2, <2>3
\* Steps that insert a row, with a job or without one.
<1>8. ASSUME NEW c \in Callers, InsertAnalysis(c), callers' = [callers EXCEPT ![c] = Idle], wedged' \in BOOLEAN,
             DOMAIN tasks' \subseteq DOMAIN tasks \cup {Len(rows) + 1},
             \A j \in DOMAIN tasks' : tasks'[j] = IF j \in DOMAIN tasks THEN tasks[j] ELSE NewTask(callers[c].kind),
             lost' \subseteq lost \cup {Len(rows) + 1}, UNCHANGED <<env, latch, recs>>
      PROVE  Shapes'
  <2> DEFINE n == Len(rows) + 1
  <2>1. NewRow(callers[c].kind, c) \in RowShape
    BY <1>a, <1>b DEF NewRow, RowShape, CallerShape
  <2>2. rows' = Append(rows, NewRow(callers[c].kind, c)) /\ billed' = Append(billed, 0) /\ unread' = Append(unread, 0)
    BY <1>8 DEF InsertAnalysis
  <2>3. /\ rows' \in Seq(RowShape) /\ DOMAIN rows' = 1..n /\ Len(rows') = n
        /\ billed' \in Seq(Nat) /\ Len(billed') = Len(billed) + 1
        /\ unread' \in Seq(Nat) /\ Len(unread') = Len(unread) + 1
    BY <1>a, <1>b, <2>1, <2>2, AppendProperties, LenProperties
  <2>4. \A j \in DOMAIN tasks' : tasks'[j] \in TaskShape
    BY <1>a, <1>8, NewTaskShape
  <2>5. \A j \in DOMAIN tasks' : tasks'[j].left \in 1..MaxIterations
    BY <2>4 DEF TaskShape
  <2>6. callers' \in [Callers -> CallerShape]
    BY <1>8, <1>a, IdleShape
  <2> HIDE DEF n
  <2>7. DOMAIN rows \subseteq DOMAIN rows' /\ n \in DOMAIN rows'
    BY <1>b, <2>3 DEF n
  <2>8. TypeOK'
    BY <1>a, <1>8, <2>3, <2>5, <2>6, <2>7 DEF TypeOK, env, n
  <2>9. QED
    BY <1>a, <1>8, <2>3, <2>4, <2>6, <2>8 DEF Shapes
<1>8a. ASSUME NEW c \in Callers, Launch(c) PROVE Shapes'
  <2>1. /\ InsertAnalysis(c) /\ callers' = [callers EXCEPT ![c] = Idle] /\ UNCHANGED <<env, latch, recs, lost, wedged>>
        /\ DOMAIN tasks' = DOMAIN tasks \cup {Len(rows) + 1}
        /\ \A j \in DOMAIN tasks' : tasks'[j] = IF j \in DOMAIN tasks THEN tasks[j] ELSE NewTask(callers[c].kind)
    BY <1>8a DEF Launch
  <2>2. wedged' \in BOOLEAN
    BY <1>a, <2>1 DEF TypeOK
  <2>3. QED
    BY <1>8, <2>1, <2>2
<1>8b. ASSUME NEW c \in Callers, HangUp(c) PROVE Shapes'
  <2>1. callers' = [callers EXCEPT ![c] = Idle] /\ wedged' \in BOOLEAN /\ UNCHANGED <<env, latch, tasks, recs>>
    BY <1>8b, <1>a DEF HangUp, TypeOK
  <2>2. CASE UNCHANGED <<rows, billed, unread, lost>>
    <3>1. callers' \in [Callers -> CallerShape] /\ latch' \in BOOLEAN
      BY <1>a, <2>1, IdleShape DEF TypeOK
    <3>2. QED
      BY <1>1, <2>1, <2>2, <3>1
  <2>3. CASE InsertAnalysis(c) /\ lost' = lost \cup {Len(rows) + 1}
    BY <1>8, <2>1, <2>3
  <2>4. QED
    BY <1>8b, <2>2, <2>3 DEF HangUp
<1>9. ASSUME NEW i \in DOMAIN tasks, ScreenUpFront(i) \/ Busy(i) PROVE Shapes'
  <2>1. PICK t \in TaskShape : Step(i, t)
    <3>1. CASE ScreenUpFront(i)
      <4>1. [tasks[i] EXCEPT !.at = "call", !.allow = ScoredCandidates, !.prompt = ScoredCandidates] \in TaskShape
        BY <1>a, ScreenShape DEF TaskShape
      <4>2. QED
        BY <1>a, <3>1, <4>1, FailsShape DEF ScreenUpFront
    <3>2. CASE Busy(i)
      <4>1. tasks[i] \in TaskShape /\ tasks[i].attempt + 1 \in Nat
        BY <1>a DEF TaskShape
      <4>3. [tasks[i] EXCEPT !.attempt = @ + 1] \in TaskShape
        BY <4>1 DEF TaskShape
      <4>2. QED
        BY <1>a, <3>2, <4>3, FailsShape DEF Busy
    <3>3. QED
      BY <1>9, <3>1, <3>2
  <2>2. UNCHANGED <<env, latch, callers, rows, lost, wedged, recs, billed, unread>>
    BY <1>9 DEF ScreenUpFront, Busy
  <2>3. \A k \in DOMAIN recs : recs[k].row \in DOMAIN rows
    BY <1>a DEF TypeOK
  <2>4. QED
    BY <1>2, <1>a, <2>1, <2>2, <2>3, OneGoesOn
<1>9a. ASSUME NEW i \in DOMAIN tasks, NEW cost \in ReplyCosts \cup {0}, SendFails(i, cost) PROVE Shapes'
  <2>1. /\ i \in 1..Len(billed) /\ billed[i] \in Nat /\ i \in 1..Len(unread) /\ unread[i] \in Nat
        /\ BillsOf(cost) \in Nat
    BY <1>a, <1>b, BillsAreNat, AnalystConstants, ElementOfSeq DEF TypeOK
  <2>8. PICK m, n : m = billed[i] + BillsOf(cost) /\ n = unread[i] + BillsOf(cost)
    OBVIOUS
  <2>9. m \in Nat /\ n \in Nat
    BY <2>1, <2>8
  <2>2. /\ billed' = [billed EXCEPT ![i] = m] /\ unread' = [unread EXCEPT ![i] = n]
        /\ Step(i, Fails(tasks[i])) /\ UNCHANGED <<env, latch, callers, rows, lost, wedged, recs>>
    BY <1>9a, <2>8 DEF SendFails
  <2>3. billed' \in Seq(Nat) /\ Len(billed') = Len(billed)
    BY <1>a, <2>1, <2>2, <2>9, ExceptSeq
  <2>4. unread' \in Seq(Nat) /\ Len(unread') = Len(unread)
    BY <1>a, <2>1, <2>2, <2>9, ExceptSeq
  <2>5. \A k \in DOMAIN recs : recs[k].row \in DOMAIN rows
    BY <1>a DEF TypeOK
  <2>6. Fails(tasks[i]) \in TaskShape
    BY <1>a, FailsShape
  <2>7. QED
    BY <1>2, <1>a, <2>2, <2>3, <2>4, <2>5, <2>6, OneGoesOn
<1>10. ASSUME NEW i \in DOMAIN tasks, NEW cost \in ReplyCosts, NEW stop, NEW answer \in Answers \cup {NoJson},
              Reply(i, cost, stop, answer)
       PROVE  Shapes'
  <2>1. i \in 1..Len(billed) /\ billed[i] \in Nat /\ BillsOf(cost) \in Nat
    BY <1>a, <1>b, BillsAreNat, AnalystConstants, ElementOfSeq DEF TypeOK
  <2>2. billed' = [billed EXCEPT ![i] = @ + BillsOf(cost)] /\ UNCHANGED <<env, latch, callers, rows, lost, wedged, unread, recs>>
    BY <1>10 DEF Reply
  <2>3. billed' \in Seq(Nat) /\ Len(billed') = Len(billed)
    BY <1>a, <2>1, <2>2, ExceptSeq
  <2>4. \A k \in DOMAIN recs : recs[k].row \in DOMAIN rows
    BY <1>a DEF TypeOK
  <2>5. QED
    BY <1>2, <1>10, <1>a, <2>2, <2>3, <2>4, ReplyGoesOn
<1>11. ASSUME NEW i \in DOMAIN tasks, StoreRec(i) PROVE Shapes'
  <2> DEFINE p == Head(tasks[i].todo)
             kind == rows[i].kind
             rec == NewRec(i, Stored(kind, p, tasks[i]))
             t == [tasks[i] EXCEPT !.todo = Tail(@)]
  <2>1. p \in Pairs /\ Tail(tasks[i].todo) \in Seq(Pairs)
    BY <1>a, <1>11, HeadTailProperties DEF StoreRec, TaskShape
  <2>2. t \in TaskShape
    BY <1>a, <2>1 DEF TaskShape
  <2>3. i \in DOMAIN rows /\ i \in Nat
    BY <1>a, <1>b DEF TypeOK
  <2>4. ~ Skipped(kind, p, tasks[i]) => Stored(kind, p, tasks[i]) \in Pairs
    BY <2>1, StoredPair
  <2>5. ~ Skipped(kind, p, tasks[i]) => rec \in RecShape /\ rec.row = i
    BY <1>a, <1>b, <2>3, <2>4, NewRecShape
  <2>6. /\ Step(i, t) /\ UNCHANGED <<env, latch, callers, rows, billed, unread, lost, wedged>>
        /\ recs' = recs \/ (~ Skipped(kind, p, tasks[i]) /\ recs' = Append(recs, rec))
    BY <1>11 DEF StoreRec
  <2> HIDE DEF p, kind, rec, t
  <2>7. recs' \in Seq(RecShape) /\ \A k \in DOMAIN recs' : recs'[k].row \in DOMAIN rows
    <3>1. CASE recs' = recs
      BY <1>a, <3>1 DEF TypeOK
    <3>2. CASE ~ Skipped(kind, p, tasks[i]) /\ recs' = Append(recs, rec)
      <4>1. /\ recs' \in Seq(RecShape) /\ DOMAIN recs' = 1..Len(recs) + 1
            /\ \A k \in 1..Len(recs) : recs'[k] = recs[k]
            /\ recs'[Len(recs) + 1] = rec
        BY <1>a, <1>b, <2>5, <3>2, AppendProperties, LenProperties
      <4>2. \A k \in 1..Len(recs) + 1 : k \in 1..Len(recs) \/ k = Len(recs) + 1
        BY <1>b
      <4>3. QED
        BY <1>a, <1>b, <2>3, <2>5, <3>2, <4>1, <4>2 DEF TypeOK
    <3>3. QED
      BY <2>6, <3>1, <3>2
  <2>8. QED
    BY <1>2, <1>a, <2>2, <2>6, <2>7, OneGoesOn
<1>12. ASSUME NEW i \in DOMAIN tasks, Finish(i) PROVE Shapes'
  <2>1. tasks[i].used \in Nat /\ i \in DOMAIN rows
    BY <1>a DEF TaskShape, TypeOK
  <2>2. rows' \in Seq(RowShape) /\ Len(rows') = Len(rows)
    <3>1. CASE tasks[i].error
      <4>1. rows' = [rows EXCEPT ![i].status = "error", ![i].cost = BillsOf(tasks[i].used)]
        BY <1>12, <3>1 DEF Finish
      <4>2. QED
        BY <1>a, <2>1, <4>1, RecordedRow, BillsAreNat
    <3>2. CASE ~ tasks[i].error
      <4>1. rows' = [rows EXCEPT ![i].status = "done", ![i].cost = BillsOf(tasks[i].used)]
        BY <1>12, <3>2 DEF Finish
      <4>2. QED
        BY <1>a, <2>1, <4>1, RecordedRow, BillsAreNat
    <3>3. QED
      BY <3>1, <3>2
  <2>3. Release(i) /\ UNCHANGED <<env, recs, billed, unread, lost, wedged>>
    BY <1>12 DEF Finish
  <2>4. QED
    BY <1>3, <1>a, <2>2, <2>3 DEF TypeOK
<1>13. ASSUME NEW i \in DOMAIN tasks, FinishFails(i) \/ Panic(i) PROVE Shapes'
  <2>1. Release(i) /\ lost' = lost \cup {i} /\ UNCHANGED <<env, rows, recs, billed, unread, wedged>>
    BY <1>13 DEF FinishFails, Panic
  <2>2. i \in DOMAIN rows
    BY <1>a DEF TypeOK
  <2>3. QED
    BY <1>3, <1>a, <2>1, <2>2 DEF TypeOK
<1>14. ASSUME NEW k \in DOMAIN recs, NEW status \in {"accepted", "dismissed"}, SetRecommendationStatus(k, status)
       PROVE  Shapes'
  <2> DEFINE rec == [recs[k] EXCEPT !.status = status]
  <2>1. k \in 1..Len(recs) /\ recs[k] \in RecShape
    BY <1>a, <1>b, ElementOfSeq
  <2>2. rec \in RecShape /\ rec.row = recs[k].row
    BY <2>1 DEF RecShape
  <2>3. recs' = [recs EXCEPT ![k] = rec] /\ UNCHANGED <<now, backend, market, level, latch, callers, rows, tasks, billed, unread, lost, wedged>>
    BY <1>14 DEF SetRecommendationStatus
  <2> HIDE DEF rec
  <2>4. recs' \in Seq(RecShape) /\ DOMAIN recs' = DOMAIN recs
    BY <1>a, <1>b, <2>1, <2>2, <2>3, ExceptSeq
  <2>5. \A m \in DOMAIN recs' : recs'[m].row \in DOMAIN rows
    BY <1>a, <1>b, <2>2, <2>3, <2>4 DEF TypeOK
  <2>6. QED
    BY <1>a, <2>3, <2>4, <2>5 DEF Shapes, TypeOK
<1>15. CASE Advance
  <2>1. now + 1 \in DOMAIN Calendar
    BY <1>15, <1>a, AnalystConstants DEF Advance, TypeOK
  <2>2. QED
    BY <1>15, <1>a, <2>1 DEF Advance, Shapes, TypeOK
<1>16. CASE MarketMoves \/ PutSettings
  BY <1>16, <1>a DEF MarketMoves, PutSettings, Turn, Shapes, TypeOK
<1>17. CASE Crash
  <2>1. callers' \in [Callers -> CallerShape] /\ DOMAIN tasks' = {} /\ latch' = FALSE /\ wedged' = FALSE
    BY <1>17, IdleShape DEF Crash
  <2>2. backend' \in Backends /\ lost' \subseteq DOMAIN rows
    BY <1>17, <1>a DEF Crash, TypeOK
  <2>3. QED
    BY <1>17, <1>a, <2>1, <2>2 DEF Crash, Shapes, TypeOK
<1>18. CASE UNCHANGED vars
  BY <1>18, <1>a DEF vars, env, Shapes, TypeOK
<1>19. ASSUME NEW i \in DOMAIN tasks, Work(i) PROVE Shapes'
  BY <1>19, <1>9, <1>9a, <1>10, <1>11, <1>12, <1>13 DEF Work
<1>20. QED
  BY <1>4, <1>5, <1>6, <1>7, <1>8a, <1>8b, <1>13, <1>14, <1>15, <1>16, <1>17, <1>18, <1>19 DEF Next
-----------------------------------------------------------------------------
(* The latch, the rows and the money.                                       *)

\* Prices add up; only ollama bills nothing.
LEMMA BillsAdd ==
  ASSUME NEW m \in Nat, NEW n \in Nat
  PROVE  BillsOf(m + n) = BillsOf(m) + BillsOf(n)
<1>1. CASE backend = "ollama"
  BY <1>1 DEF BillsOf
<1>2. CASE backend # "ollama"
  BY <1>2 DEF BillsOf
<1>3. QED
  BY <1>1, <1>2

\* One request moves on.
LEMMA OneMoves ==
  ASSUME callers \in [Callers -> CallerShape], NEW c \in Callers, NEW x, callers' = [callers EXCEPT ![c] = x]
  PROVE  Inserting' = IF x.at = "insert" THEN Inserting \cup {c} ELSE Inserting \ {c}
  BY DEF Inserting

\* An inserted row runs, costs nothing yet, and leaves the others.
LEMMA RowAdded ==
  ASSUME Shapes, NEW c \in Callers, InsertAnalysis(c)
  PROVE  LET n == Len(rows) + 1 IN
         /\ Len(rows') = n /\ DOMAIN rows' = 1..n /\ rows'[n] = NewRow(callers[c].kind, c) /\ rows'[n] \in RowShape
         /\ rows'[n].status = "running" /\ rows'[n].cost = 0 /\ billed'[n] = 0 /\ unread'[n] = 0
         /\ \A i \in DOMAIN rows : rows'[i] = rows[i] /\ billed'[i] = billed[i] /\ unread'[i] = unread[i]
<1> DEFINE row == NewRow(callers[c].kind, c)
<1>1. /\ rows \in Seq(RowShape) /\ billed \in Seq(Nat) /\ unread \in Seq(Nat)
      /\ Len(billed) = Len(rows) /\ Len(unread) = Len(rows) /\ callers[c] \in CallerShape
  BY DEF Shapes, TypeOK
<1>2. row \in RowShape /\ row.status = "running" /\ row.cost = 0
  BY <1>1, ClockIsNat DEF Shapes, NewRow, RowShape, CallerShape
<1>3. rows' = Append(rows, row) /\ billed' = Append(billed, 0) /\ unread' = Append(unread, 0)
  BY DEF InsertAnalysis
<1> HIDE DEF row
<1>4. /\ DOMAIN rows = 1..Len(rows) /\ Len(rows) \in Nat
      /\ Len(rows') = Len(rows) + 1 /\ DOMAIN rows' = 1..(Len(rows) + 1) /\ rows'[Len(rows) + 1] = row
      /\ \A i \in 1..Len(rows) : rows'[i] = rows[i]
  BY <1>1, <1>2, <1>3, AppendProperties, LenProperties
<1>5. billed'[Len(rows) + 1] = 0 /\ \A i \in 1..Len(rows) : billed'[i] = billed[i]
  BY <1>1, <1>3, <1>4, AppendProperties
<1>6. unread'[Len(rows) + 1] = 0 /\ \A i \in 1..Len(rows) : unread'[i] = unread[i]
  BY <1>1, <1>3, <1>4, AppendProperties
<1>7. QED
  BY <1>2, <1>4, <1>5, <1>6 DEF row

\* The latch, the rows and the money stay true over every step of a request, a job, a restart.
LEMMA RunsStep ==
  ASSUME Shapes, Shapes', Runs, [Next]_vars
  PROVE  Runs'
<1>a. /\ TypeOK /\ callers \in [Callers -> CallerShape]
      /\ rows \in Seq(RowShape) /\ billed \in Seq(Nat) /\ Len(rows) = Len(billed)
      /\ \A i \in DOMAIN tasks : tasks[i] \in TaskShape
      /\ DOMAIN tasks \subseteq DOMAIN rows /\ lost \subseteq DOMAIN rows
  BY DEF Shapes, TypeOK
<1>d. unread \in Seq(Nat) /\ Len(rows) = Len(unread) /\ wedged \in BOOLEAN
  BY DEF Shapes, TypeOK
<1>b. /\ DOMAIN rows = 1..Len(rows) /\ Len(rows) \in Nat
      /\ DOMAIN billed = 1..Len(rows) /\ DOMAIN unread = 1..Len(rows)
      /\ \A i \in DOMAIN rows : rows[i] \in RowShape /\ billed[i] \in Nat /\ unread[i] \in Nat
  BY <1>a, <1>d, LenProperties, ElementOfSeq
<1>c. /\ latch <=> (Inserting # {} \/ DOMAIN tasks # {} \/ wedged)
      /\ \A x, y \in Inserting : x = y
      /\ \A i, j \in DOMAIN tasks : i = j
      /\ Inserting # {} => DOMAIN tasks = {}
      /\ wedged => Inserting = {} /\ DOMAIN tasks = {}
      /\ \A i \in DOMAIN rows : rows[i].status = "running" <=> i \in DOMAIN tasks \cup lost
  BY DEF Runs, LatchIsTheRun
<1>e. /\ \A i \in DOMAIN rows : rows[i].status # "running" => rows[i].cost + unread[i] = billed[i]
      /\ \A i \in DOMAIN rows : rows[i].status = "done" => unread[i] = 0
      /\ \A i \in DOMAIN tasks : i \notin lost
      /\ \A i \in DOMAIN tasks : BillsOf(tasks[i].used) + unread[i] = billed[i]
      /\ \A i \in DOMAIN tasks : unread[i] # 0 => tasks[i].error
  BY DEF Runs, BilledIsRecorded, Spending
<1>f. Idle.at # "insert" /\ \A c \in Callers : callers[c] \in CallerShape
  BY <1>a DEF Idle
\* Steps that touch none of it.
<1>1. ASSUME UNCHANGED <<backend, latch, rows, tasks, billed, unread, lost, wedged>>, Inserting' = Inserting
      PROVE  Runs'
  BY <1>1 DEF Runs, LatchIsTheRun, BilledIsRecorded, Spending, BillsOf
\* Steps that leave the money alone.
<1>m. ASSUME UNCHANGED <<env, rows, tasks, billed, unread, lost>> PROVE BilledIsRecorded' /\ Spending'
  <2>1. BilledIsRecorded'
    BY <1>m, <1>e DEF BilledIsRecorded
  <2>2. \A i \in DOMAIN tasks : BillsOf(tasks[i].used)' = BillsOf(tasks[i].used)
    BY <1>m DEF BillsOf, env
  <2>3. Spending'
    BY <1>m, <1>e, <2>2 DEF Spending
  <2>4. QED
    BY <2>1, <2>3
\* Steps of a job that bill nothing.
<1>2. ASSUME NEW i \in DOMAIN tasks, DOMAIN tasks' = DOMAIN tasks, tasks'[i].used = tasks[i].used,
             tasks[i].error => tasks'[i].error,
             \A j \in DOMAIN tasks : j # i => tasks'[j] = tasks[j],
             UNCHANGED <<backend, latch, callers, rows, billed, unread, lost, wedged>>
      PROVE  Runs'
  <2>1. \A j \in DOMAIN tasks' : tasks'[j].used = tasks[j].used /\ (tasks[j].error => tasks'[j].error)
    BY <1>2
  <2>2. Spending'
    BY <1>2, <1>e, <2>1 DEF Spending, BillsOf
  <2>3. Inserting' = Inserting
    BY <1>2 DEF Inserting
  <2>4. LatchIsTheRun'
    BY <1>2, <1>c, <2>3 DEF LatchIsTheRun
  <2>5. BilledIsRecorded'
    BY <1>2, <1>e DEF BilledIsRecorded
  <2>6. QED
    BY <2>2, <2>4, <2>5 DEF Runs
\* A job that ends without a record.
<1>3. ASSUME NEW i \in DOMAIN tasks, Release(i), lost' = lost \cup {i}, UNCHANGED <<env, rows, billed, unread, wedged>>
      PROVE  Runs'
  <2>0. i \in Nat
    BY <1>a, <1>b
  <2>1. DOMAIN tasks' = DOMAIN tasks \ {i} /\ ~ latch' /\ \A c \in Callers : callers'[c].at = callers[c].at
    BY <1>3, <1>a, <2>0, OneEnds
  <2>6. Inserting' = Inserting
    BY <2>1 DEF Inserting
  <2>2. DOMAIN tasks' = {}
    BY <1>c, <2>1
  <2>3. LatchIsTheRun'
    BY <1>3, <1>c, <2>1, <2>2, <2>6 DEF LatchIsTheRun
  <2>4. BilledIsRecorded'
    BY <1>3, <1>e DEF BilledIsRecorded
  <2>5. QED
    BY <2>2, <2>3, <2>4 DEF Runs, Spending
<1>4. ASSUME NEW kind \in {"briefing", "weekly_review"}, Tick(kind) PROVE Runs'
  <2>1. [Idle EXCEPT !.at = "asked", !.kind = kind].at = "asked"
    BY DEF Idle
  <2>2. Inserting' = Inserting
    BY <1>4, <1>a, <2>1, OneMoves DEF Tick, Callers, Inserting
  <2>3. QED
    BY <1>1, <1>4, <2>2 DEF Tick, env
<1>5. ASSUME NEW c \in Callers, NEW kind \in UserKinds, Request(c, kind) PROVE Runs'
  <2>1. [Idle EXCEPT !.at = "fits", !.kind = kind].at = "fits"
    BY DEF Idle
  <2>2. Inserting' = Inserting
    BY <1>5, <1>a, <2>1, OneMoves DEF Request, Inserting
  <2>3. QED
    BY <1>1, <1>5, <2>2 DEF Request, env
<1>6. CASE ReadBudget
  <2>1. [callers[Scheduler] EXCEPT !.at = "fits"].at = "fits" /\ Scheduler \in Callers
    BY <1>f DEF CallerShape, Callers
  <2>2. PICK x : callers' = [callers EXCEPT ![Scheduler] = x] /\ x.at # "insert"
    BY <1>6, <1>f, <2>1 DEF ReadBudget
  <2>3. Inserting' = Inserting
    BY <1>6, <1>a, <2>1, <2>2, OneMoves DEF ReadBudget, Inserting
  <2>4. QED
    BY <1>1, <1>6, <2>3 DEF ReadBudget, env
<1>7. ASSUME NEW c \in Callers, LaunchRefused(c) PROVE Runs'
  <2>1. Inserting' = Inserting
    BY <1>7, <1>a, <1>f, OneMoves DEF LaunchRefused, Inserting
  <2>2. QED
    BY <1>1, <1>7, <2>1 DEF LaunchRefused, env
\* The latch changes hands.
<1>7a. ASSUME NEW c \in Callers, TakeLatch(c) PROVE Runs'
  <2>1. [callers[c] EXCEPT !.at = "insert"].at = "insert"
    BY <1>f DEF CallerShape
  <2>2. callers' = [callers EXCEPT ![c] = [callers[c] EXCEPT !.at = "insert"]]
    BY <1>7a DEF TakeLatch
  <2>3. Inserting' = Inserting \cup {c}
    BY <1>a, <2>1, <2>2, OneMoves
  <2>4. /\ ~ latch /\ latch' = TRUE
        /\ UNCHANGED <<env, rows, tasks, billed, unread, lost, wedged>>
    BY <1>7a DEF TakeLatch
  <2>5. LatchIsTheRun'
    BY <1>c, <2>3, <2>4 DEF LatchIsTheRun
  <2>6. BilledIsRecorded' /\ Spending'
    BY <1>m, <2>4
  <2>7. QED
    BY <2>5, <2>6 DEF Runs
<1>7b. ASSUME NEW c \in Callers, InsertFails(c) PROVE Runs'
  <2>1. /\ c \in Inserting /\ latch' = FALSE /\ callers' = [callers EXCEPT ![c] = Idle]
        /\ UNCHANGED <<env, rows, tasks, billed, unread, lost, wedged>>
    BY <1>7b DEF InsertFails, Inserting
  <2>2. Inserting' = Inserting \ {c}
    BY <1>a, <1>f, <2>1, OneMoves
  <2>3. LatchIsTheRun'
    BY <1>c, <2>1, <2>2 DEF LatchIsTheRun
  <2>4. BilledIsRecorded' /\ Spending'
    BY <1>m, <2>1
  <2>5. QED
    BY <2>3, <2>4 DEF Runs
\* A row is inserted by the one that holds the latch, with a job or without one.
<1>8. ASSUME NEW c \in Inserting, InsertAnalysis(c), callers' = [callers EXCEPT ![c] = Idle], UNCHANGED <<env, latch>>,
             \/ /\ lost' = lost /\ wedged' = wedged
                /\ DOMAIN tasks' = DOMAIN tasks \cup {Len(rows) + 1}
                /\ tasks'[Len(rows) + 1].used = 0
             \/ lost' = lost \cup {Len(rows) + 1} /\ wedged' = TRUE /\ tasks' = tasks
      PROVE  Runs'
  <2> DEFINE n == Len(rows) + 1
  <2>0. c \in Callers
    BY DEF Inserting
  <2>1. /\ DOMAIN rows' = 1..n /\ rows'[n].status = "running" /\ billed'[n] = 0 /\ unread'[n] = 0
        /\ \A i \in DOMAIN rows : rows'[i] = rows[i] /\ billed'[i] = billed[i] /\ unread'[i] = unread[i]
    BY <1>8, <2>0, RowAdded
  <2>2. /\ \A i \in DOMAIN rows' : i \in DOMAIN rows \/ i = n
        /\ n \notin DOMAIN rows /\ n \notin lost
    BY <1>a, <1>b, <2>1
  <2>3. DOMAIN tasks = {} /\ ~ wedged /\ latch /\ Inserting = {c}
    BY <1>c
  <2>4. Inserting' = {}
    BY <1>8, <1>a, <1>f, <2>0, <2>3, OneMoves
  <2>5. BillsOf(0)' = 0
    BY DEF BillsOf
  <2> HIDE DEF n
  <2>6. LatchIsTheRun'
    BY <1>8, <1>c, <2>1, <2>2, <2>3, <2>4 DEF LatchIsTheRun, n
  <2>7. BilledIsRecorded'
    BY <1>e, <2>1, <2>2 DEF BilledIsRecorded
  <2>8. Spending'
    BY <1>8, <2>1, <2>2, <2>3, <2>5 DEF Spending, n
  <2>9. QED
    BY <2>6, <2>7, <2>8 DEF Runs
<1>8a. ASSUME NEW c \in Callers, Launch(c) PROVE Runs'
  <2>1. /\ c \in Inserting /\ InsertAnalysis(c) /\ callers' = [callers EXCEPT ![c] = Idle]
        /\ UNCHANGED <<env, latch, lost, wedged>>
        /\ DOMAIN tasks' = DOMAIN tasks \cup {Len(rows) + 1}
        /\ tasks'[Len(rows) + 1] = IF Len(rows) + 1 \in DOMAIN tasks THEN tasks[Len(rows) + 1]
                                  ELSE NewTask(callers[c].kind)
    BY <1>8a DEF Launch, Inserting
  <2>2. Len(rows) + 1 \notin DOMAIN tasks
    BY <1>a, <1>b
  <2>3. tasks'[Len(rows) + 1].used = 0
    BY <2>1, <2>2 DEF NewTask
  <2>4. QED
    BY <1>8, <2>1, <2>3
<1>8b. ASSUME NEW c \in Callers, HangUp(c) PROVE Runs'
  <2>1. /\ callers' = [callers EXCEPT ![c] = Idle] /\ wedged' = (wedged \/ callers[c].at = "insert")
        /\ UNCHANGED <<env, latch, tasks>>
    BY <1>8b DEF HangUp
  <2>2. CASE callers[c].at # "insert"
    <3>1. Inserting' = Inserting /\ wedged' = wedged
      BY <1>a, <1>d, <1>f, <2>1, <2>2, OneMoves DEF Inserting
    <3>2. UNCHANGED <<rows, billed, unread, lost>>
      BY <1>8b, <2>2 DEF HangUp
    <3>3. QED
      BY <1>1, <2>1, <3>1, <3>2 DEF env
  <2>3. CASE callers[c].at = "insert" /\ UNCHANGED <<rows, billed, unread, lost>>
    <3>1. c \in Inserting /\ wedged' = TRUE
      BY <2>1, <2>3 DEF Inserting
    <3>2. Inserting' = {}
      BY <1>a, <1>c, <1>f, <2>1, <3>1, OneMoves
    <3>3. LatchIsTheRun'
      BY <1>c, <2>1, <2>3, <3>1, <3>2 DEF LatchIsTheRun
    <3>4. BilledIsRecorded' /\ Spending'
      BY <1>m, <2>1, <2>3
    <3>5. QED
      BY <3>3, <3>4 DEF Runs
  <2>4. CASE callers[c].at = "insert" /\ InsertAnalysis(c) /\ lost' = lost \cup {Len(rows) + 1}
    <3>1. c \in Inserting /\ wedged' = TRUE
      BY <2>1, <2>4 DEF Inserting
    <3>2. QED
      BY <1>8, <2>1, <2>4, <3>1
  <2>5. QED
    BY <1>8b, <2>2, <2>3, <2>4 DEF HangUp
<1>9. ASSUME NEW i \in DOMAIN tasks, ScreenUpFront(i) \/ Busy(i) PROVE Runs'
  <2>1. PICK t : Step(i, t) /\ t.used = tasks[i].used /\ (tasks[i].error => t.error)
    <3>1. CASE ScreenUpFront(i)
      <4> DEFINE t == [tasks[i] EXCEPT !.at = "call", !.allow = ScoredCandidates, !.prompt = ScoredCandidates]
      <4>1. t.used = tasks[i].used /\ t.error = tasks[i].error
        BY <1>a DEF TaskShape
      <4>2. QED
        BY <1>a, <3>1, <4>1, FailsShape DEF ScreenUpFront
    <3>2. CASE Busy(i)
      <4> DEFINE t == [tasks[i] EXCEPT !.attempt = @ + 1]
      <4>1. t.used = tasks[i].used /\ t.error = tasks[i].error
        BY <1>a DEF TaskShape
      <4>2. QED
        BY <1>a, <3>2, <4>1, FailsShape DEF Busy
    <3>3. QED
      BY <1>9, <3>1, <3>2
  <2>2. UNCHANGED <<env, latch, callers, rows, billed, unread, lost, wedged>>
    BY <1>9 DEF ScreenUpFront, Busy
  <2>3. QED
    BY <1>2, <2>1, <2>2, OneGoesOn DEF env
\* A job's bill grows, read or not.
<1>9a. ASSUME NEW i \in DOMAIN tasks, DOMAIN tasks' = DOMAIN tasks, \A j \in DOMAIN tasks : j # i => tasks'[j] = tasks[j],
              BillsOf(tasks'[i].used) + unread'[i] = billed'[i], unread'[i] # 0 => tasks'[i].error,
              \A j \in DOMAIN rows : j # i => billed'[j] = billed[j] /\ unread'[j] = unread[j],
              UNCHANGED <<env, latch, callers, rows, lost, wedged>>
       PROVE  Runs'
  <2>0. i \in DOMAIN rows /\ i \notin lost
    BY <1>a, <1>e
  <2>1. rows[i].status = "running"
    BY <1>c, <2>0
  <2>7. DOMAIN tasks = {i}
    BY <1>c
  <2>2. Inserting' = Inserting
    BY <1>9a DEF Inserting
  <2>3. LatchIsTheRun'
    BY <1>9a, <1>c, <2>2 DEF LatchIsTheRun
  <2>4. BilledIsRecorded'
    BY <1>9a, <1>e, <2>1 DEF BilledIsRecorded
  <2>5. Spending'
    BY <1>9a, <2>0, <2>7 DEF Spending, BillsOf, env
  <2>6. QED
    BY <2>3, <2>4, <2>5 DEF Runs
<1>9b. ASSUME NEW i \in DOMAIN tasks, NEW cost \in ReplyCosts \cup {0}, SendFails(i, cost) PROVE Runs'
  <2>1. PICK n : n = BillsOf(cost)
    OBVIOUS
  <2>2. /\ billed' = [billed EXCEPT ![i] = billed[i] + n] /\ unread' = [unread EXCEPT ![i] = unread[i] + n]
        /\ Step(i, Fails(tasks[i])) /\ UNCHANGED <<env, latch, callers, rows, lost, wedged>>
    BY <1>9b, <2>1 DEF SendFails
  <2>3. /\ n \in Nat /\ billed[i] \in Nat /\ unread[i] \in Nat /\ i \in DOMAIN billed /\ i \in DOMAIN unread
        /\ BillsOf(tasks[i].used) \in Nat
    <3>1. cost \in Nat /\ tasks[i].used \in Nat
      BY <1>a, AnalystConstants DEF TaskShape
    <3>2. QED
      BY <1>a, <1>b, <2>1, <3>1, BillsAreNat
  <2>4. /\ DOMAIN tasks' = DOMAIN tasks /\ tasks'[i] = Fails(tasks[i])
        /\ \A j \in DOMAIN tasks : j # i => tasks'[j] = tasks[j]
    BY <2>2, OneGoesOn
  <2>5. Fails(tasks[i]).used = tasks[i].used /\ Fails(tasks[i]).error
    BY <1>a, FailsShape
  <2>6. billed'[i] = billed[i] + n /\ unread'[i] = unread[i] + n
    BY <2>2, <2>3
  <2>7. \A j \in DOMAIN rows : j # i => billed'[j] = billed[j] /\ unread'[j] = unread[j]
    BY <1>b, <2>2
  <2>8. BillsOf(tasks[i].used) + unread[i] = billed[i]
    BY <1>e
  <2>9. BillsOf(tasks'[i].used) = BillsOf(tasks[i].used)
    BY <2>4, <2>5
  <2>10. BillsOf(tasks'[i].used) + unread'[i] = billed'[i]
    BY <2>3, <2>6, <2>8, <2>9
  <2>11. tasks'[i].error
    BY <2>4, <2>5
  <2>12. QED
    BY <1>9a, <2>2, <2>4, <2>7, <2>10, <2>11
<1>10. ASSUME NEW i \in DOMAIN tasks, NEW cost \in ReplyCosts, NEW stop, NEW answer \in Answers \cup {NoJson},
              Reply(i, cost, stop, answer)
       PROVE  Runs'
  <2>1. /\ DOMAIN tasks' = DOMAIN tasks /\ \A j \in DOMAIN tasks : j # i => tasks'[j] = tasks[j]
        /\ tasks'[i].used = tasks[i].used + cost /\ (tasks[i].error => tasks'[i].error)
    BY <1>10, ReplyGoesOn
  <2>2. PICK n : n = BillsOf(cost)
    OBVIOUS
  <2>3. /\ billed' = [billed EXCEPT ![i] = billed[i] + n]
        /\ UNCHANGED <<env, latch, callers, rows, unread, lost, wedged>>
    BY <1>10, <2>2 DEF Reply
  <2>4. tasks[i].used \in Nat /\ cost \in Nat /\ i \in DOMAIN billed
    BY <1>a, <1>b, AnalystConstants DEF TaskShape
  <2>5. n \in Nat /\ BillsOf(tasks[i].used) \in Nat /\ billed[i] \in Nat /\ unread[i] \in Nat
    BY <1>a, <1>b, <2>2, <2>4, BillsAreNat
  <2>6. BillsOf(tasks'[i].used) = BillsOf(tasks[i].used) + n
    BY <2>1, <2>2, <2>4, BillsAdd
  <2>7. billed'[i] = billed[i] + n /\ unread'[i] = unread[i]
    BY <2>3, <2>4
  <2>8. BillsOf(tasks[i].used) + unread[i] = billed[i] /\ (unread[i] # 0 => tasks[i].error)
    BY <1>e
  <2>9. BillsOf(tasks'[i].used) + unread'[i] = billed'[i]
    BY <2>5, <2>6, <2>7, <2>8
  <2>10. \A j \in DOMAIN rows : j # i => billed'[j] = billed[j] /\ unread'[j] = unread[j]
    BY <1>b, <2>3
  <2>11. QED
    BY <1>9a, <2>1, <2>3, <2>7, <2>8, <2>9, <2>10
<1>11. ASSUME NEW i \in DOMAIN tasks, StoreRec(i) PROVE Runs'
  <2> DEFINE t == [tasks[i] EXCEPT !.todo = Tail(@)]
  <2>1. Step(i, t) /\ UNCHANGED <<env, latch, callers, rows, billed, unread, lost, wedged>>
    BY <1>11 DEF StoreRec
  <2>2. t.used = tasks[i].used /\ t.error = tasks[i].error
    BY <1>a DEF TaskShape
  <2>3. QED
    BY <1>2, <2>1, <2>2, OneGoesOn DEF env
<1>12. ASSUME NEW i \in DOMAIN tasks, Finish(i) PROVE Runs'
  <2> DEFINE status == IF tasks[i].error THEN "error" ELSE "done"
             cost == BillsOf(tasks[i].used)
  <2>1. status \in {"done", "error"} /\ cost \in Nat /\ i \in DOMAIN rows
    BY <1>a, BillsAreNat DEF TaskShape
  <2>2. rows' = [rows EXCEPT ![i].status = status, ![i].cost = cost]
    BY <1>12 DEF Finish
  <2>3. Release(i) /\ UNCHANGED <<env, billed, unread, lost, wedged>>
    BY <1>12 DEF Finish
  <2>4. cost + unread[i] = billed[i] /\ i \notin lost
    BY <1>e
  <2>10. status = "done" => unread[i] = 0
    BY <1>e
  <2>11. i \in Nat
    BY <1>b, <2>1
  <2> HIDE DEF status, cost
  <2>5. /\ DOMAIN rows' = DOMAIN rows /\ rows'[i].status = status /\ rows'[i].cost = cost
        /\ \A j \in DOMAIN rows : j # i => rows'[j] = rows[j]
    BY <1>a, <2>1, <2>2, RecordedRow
  <2>12. DOMAIN tasks' = DOMAIN tasks \ {i} /\ ~ latch' /\ \A c \in Callers : callers'[c].at = callers[c].at
    BY <1>a, <2>3, <2>11, OneEnds
  <2>6. DOMAIN tasks' = {} /\ ~ latch' /\ Inserting' = Inserting
    BY <1>c, <2>12 DEF Inserting
  <2>7. LatchIsTheRun'
    BY <1>c, <2>1, <2>3, <2>4, <2>5, <2>6 DEF LatchIsTheRun
  <2>8. BilledIsRecorded'
    BY <1>e, <2>3, <2>4, <2>5, <2>10 DEF BilledIsRecorded
  <2>9. QED
    BY <2>6, <2>7, <2>8 DEF Runs, Spending
<1>13. ASSUME NEW i \in DOMAIN tasks, FinishFails(i) \/ Panic(i) PROVE Runs'
  BY <1>3, <1>13 DEF FinishFails, Panic
<1>14. ASSUME NEW k \in DOMAIN recs, NEW status \in {"accepted", "dismissed"}, SetRecommendationStatus(k, status)
       PROVE  Runs'
  BY <1>1, <1>14 DEF SetRecommendationStatus, Inserting
<1>15. CASE Advance \/ MarketMoves \/ PutSettings
  BY <1>1, <1>15 DEF Advance, MarketMoves, PutSettings, Inserting
<1>16. CASE Crash
  <2>1. /\ DOMAIN tasks' = {} /\ latch' = FALSE /\ wedged' = FALSE /\ lost' = lost \cup DOMAIN tasks
        /\ UNCHANGED <<rows, billed, unread>>
    BY <1>16 DEF Crash
  <2>2. Inserting' = {}
    BY <1>16 DEF Crash, Inserting, Idle
  <2>3. QED
    BY <1>c, <1>e, <2>1, <2>2 DEF Runs, LatchIsTheRun, BilledIsRecorded, Spending
<1>17. CASE UNCHANGED vars
  BY <1>1, <1>17 DEF vars, env, Inserting
<1>18. ASSUME NEW i \in DOMAIN tasks, Work(i) PROVE Runs'
  BY <1>18, <1>9, <1>9b, <1>10, <1>11, <1>12, <1>13 DEF Work
<1>19. QED
  BY <1>4, <1>5, <1>6, <1>7, <1>7a, <1>7b, <1>8a, <1>8b, <1>13, <1>14, <1>15, <1>16, <1>17, <1>18 DEF Next
-----------------------------------------------------------------------------
(* The schedule.                                                            *)

\* A handler that inserts its row, and one that goes idle again without.
Inserts(c) == callers[c].at = "insert" /\ InsertAnalysis(c) /\ (Launch(c) \/ HangUp(c))
Leaves(c) == LaunchRefused(c) \/ InsertFails(c) \/ (HangUp(c) /\ rows' = rows)

\* What inserting leaves alone.
LEMMA InsertsKeep ==
  ASSUME NEW c \in Callers, Inserts(c)
  PROVE  /\ callers' = [callers EXCEPT ![c] = Idle] /\ UNCHANGED <<env, recs>>
         /\ \A j \in DOMAIN tasks' : \/ j \in DOMAIN tasks /\ tasks'[j] = tasks[j]
                                     \/ tasks'[j] = NewTask(callers[c].kind)
<1>1. CASE Launch(c)
  BY <1>1 DEF Launch
<1>2. CASE HangUp(c)
  BY <1>2 DEF HangUp
<1>3. QED
  BY <1>1, <1>2 DEF Inserts

\* Launches and hang-ups insert a row or leave.
LEMMA InsertsOrLeaves ==
  ASSUME NEW c \in Callers
  PROVE  /\ Launch(c) => Inserts(c)
         /\ HangUp(c) => Inserts(c) \/ Leaves(c)
         /\ Leaves(c) => /\ callers' = [callers EXCEPT ![c] = Idle] /\ UNCHANGED <<env, rows, tasks, recs>>
<1>1. Launch(c) => Inserts(c)
  BY DEF Launch, Inserts
<1>2. HangUp(c) => Inserts(c) \/ Leaves(c)
  BY DEF HangUp, Inserts, Leaves
<1>3. LaunchRefused(c) \/ InsertFails(c) => callers' = [callers EXCEPT ![c] = Idle] /\ UNCHANGED <<env, rows, tasks, recs>>
  BY DEF LaunchRefused, InsertFails
<1>4. HangUp(c) /\ rows' = rows => callers' = [callers EXCEPT ![c] = Idle] /\ UNCHANGED <<env, rows, tasks, recs>>
  BY DEF HangUp
<1>5. QED
  BY <1>1, <1>2, <1>3, <1>4 DEF Leaves

\* What one step of a job leaves alone.
LEMMA WorkKeeps ==
  ASSUME NEW i \in DOMAIN tasks, Work(i) \/ Panic(i)
  PROVE  /\ now' = now
         /\ rows' = rows \/ Finish(i)
         /\ UNCHANGED callers \/ Release(i)
<1>1. CASE ScreenUpFront(i)
  BY <1>1 DEF ScreenUpFront, env
<1>2. CASE Busy(i)
  BY <1>2 DEF Busy, env
<1>3. ASSUME NEW cost, SendFails(i, cost) PROVE now' = now /\ backend' = backend /\ rows' = rows /\ UNCHANGED callers
  BY <1>3 DEF SendFails, env
<1>4. ASSUME NEW cost, NEW stop, NEW answer, Reply(i, cost, stop, answer)
      PROVE  now' = now /\ rows' = rows /\ UNCHANGED callers
  BY <1>4 DEF Reply, env
<1>5. CASE StoreRec(i)
  BY <1>5 DEF StoreRec, env
<1>6. CASE Finish(i)
  BY <1>6 DEF Finish, env
<1>7. CASE FinishFails(i) \/ Panic(i)
  BY <1>7 DEF FinishFails, Panic, env
<1>8. QED
  BY <1>1, <1>2, <1>3, <1>4, <1>5, <1>6, <1>7 DEF Work

\* What the steps of requests and of the surroundings leave alone.
LEMMA OthersKeep ==
  ASSUME [Next]_vars, \A c \in Callers : ~ Inserts(c), \A i \in DOMAIN tasks : ~ (Work(i) \/ Panic(i))
  PROVE  /\ now' = now \/ Advance
         /\ rows' = rows /\ (tasks' = tasks \/ Crash)
         /\ \/ UNCHANGED callers \/ ReadBudget \/ Crash
            \/ \E c \in Callers : TakeLatch(c) \/ Leaves(c) \/ \E kind \in UserKinds : Request(c, kind)
            \/ \E kind \in {"briefing", "weekly_review"} : Tick(kind)
<1>1. \A c \in Callers, kind \in UserKinds : Request(c, kind) => now' = now /\ rows' = rows /\ tasks' = tasks
  BY DEF Request, env
<1>2. \A c \in Callers : TakeLatch(c) \/ Leaves(c) => now' = now /\ rows' = rows /\ tasks' = tasks
  BY InsertsOrLeaves DEF TakeLatch, env
<1>3. \A kind \in {"briefing", "weekly_review"} : Tick(kind) => now' = now /\ rows' = rows /\ tasks' = tasks
  BY DEF Tick, env
<1>4. ReadBudget => now' = now /\ rows' = rows /\ tasks' = tasks
  BY DEF ReadBudget, env
<1>5. Advance \/ MarketMoves \/ PutSettings
        => rows' = rows /\ tasks' = tasks /\ UNCHANGED callers /\ (now' = now \/ Advance)
  BY DEF Advance, MarketMoves, PutSettings
<1>6. \A k \in DOMAIN recs, status \in {"accepted", "dismissed"} :
        SetRecommendationStatus(k, status) => rows' = rows /\ tasks' = tasks /\ UNCHANGED callers /\ now' = now
  BY DEF SetRecommendationStatus
<1>7. Crash => now' = now /\ rows' = rows
  BY DEF Crash
<1>8. UNCHANGED vars => rows' = rows /\ tasks' = tasks /\ UNCHANGED callers /\ now' = now
  BY DEF vars, env
<1>9. \A c \in Callers : /\ Launch(c) \/ HangUp(c) => Leaves(c)
                         /\ LaunchRefused(c) \/ InsertFails(c) => Leaves(c)
  BY InsertsOrLeaves DEF Leaves
<1>10. QED
  BY <1>1, <1>2, <1>3, <1>4, <1>5, <1>6, <1>7, <1>8, <1>9 DEF Next

\* Only a restart changes the backend, and only a run's end the rows.
LEMMA WorkStays ==
  ASSUME NEW i \in DOMAIN tasks, Work(i) \/ Panic(i)
  PROVE  backend' = backend /\ (Release(i) \/ (UNCHANGED callers /\ rows' = rows))
<1>1. CASE ScreenUpFront(i)
  BY <1>1 DEF ScreenUpFront, env
<1>2. CASE Busy(i)
  BY <1>2 DEF Busy, env
<1>3. ASSUME NEW cost, SendFails(i, cost) PROVE now' = now /\ backend' = backend /\ rows' = rows /\ UNCHANGED callers
  BY <1>3 DEF SendFails, env
<1>4. ASSUME NEW cost, NEW stop, NEW answer, Reply(i, cost, stop, answer)
      PROVE  backend' = backend /\ rows' = rows /\ UNCHANGED callers
  BY <1>4 DEF Reply, env
<1>5. CASE StoreRec(i)
  BY <1>5 DEF StoreRec, env
<1>6. CASE Finish(i)
  BY <1>6 DEF Finish, env
<1>7. CASE FinishFails(i) \/ Panic(i)
  BY <1>7 DEF FinishFails, Panic, env
<1>8. QED
  BY <1>1, <1>2, <1>3, <1>4, <1>5, <1>6, <1>7 DEF Work

\* The same of the other steps.
LEMMA OthersStay ==
  ASSUME [Next]_vars, \A c \in Callers : ~ Inserts(c), \A i \in DOMAIN tasks : ~ (Work(i) \/ Panic(i))
  PROVE  backend' = backend \/ Crash
<1>1. \A c \in Callers, kind \in UserKinds : Request(c, kind) => backend' = backend
  BY DEF Request, env
<1>2. \A c \in Callers : TakeLatch(c) \/ Leaves(c) => backend' = backend
  BY InsertsOrLeaves DEF TakeLatch, env
<1>3. \A kind \in {"briefing", "weekly_review"} : Tick(kind) => backend' = backend
  BY DEF Tick, env
<1>4. ReadBudget => backend' = backend
  BY DEF ReadBudget, env
<1>5. Advance \/ MarketMoves \/ PutSettings => backend' = backend
  BY DEF Advance, MarketMoves, PutSettings
<1>6. \A k \in DOMAIN recs, status \in {"accepted", "dismissed"} :
        SetRecommendationStatus(k, status) => backend' = backend
  BY DEF SetRecommendationStatus
<1>7. UNCHANGED vars => backend' = backend
  BY DEF vars, env
<1>8. \A c \in Callers : /\ Launch(c) \/ HangUp(c) => Leaves(c)
                         /\ LaunchRefused(c) \/ InsertFails(c) => Leaves(c)
  BY InsertsOrLeaves DEF Leaves
<1>9. QED
  BY <1>1, <1>2, <1>3, <1>4, <1>5, <1>6, <1>7, <1>8 DEF Next

\* The clock never goes back.
LEMMA ClockGrows ==
  ASSUME Shapes, [Next]_vars
  PROVE  Clock' >= Clock
<1>1. CASE now' = now
  BY <1>1, ClockIsNat DEF Clock, Shapes
<1>2. CASE Advance
  <2>1. now \in 1..Len(Calendar) /\ now < Len(Calendar) /\ now' = now + 1 /\ Len(Calendar) \in Nat
    BY <1>2, AnalystConstants, LenProperties DEF Advance, Shapes, TypeOK
  <2>2. now \in 1..(Len(Calendar) - 1)
    BY <2>1
  <2>3. Calendar[now] < Calendar[now + 1] /\ Calendar[now] \in Nat /\ Calendar[now + 1] \in Nat
    BY <2>1, <2>2, AnalystConstants, ElementOfSeq
  <2>4. QED
    BY <2>1, <2>3 DEF Clock
<1>3. now' = now \/ Advance
  <2>1. \A c \in Callers : Inserts(c) => now' = now
    BY InsertsKeep DEF env
  <2>2. QED
    BY <2>1, WorkKeeps, OthersKeep
<1>4. QED
  BY <1>1, <1>2, <1>3

\* What is apart from a time is apart from a later one.
LEMMA ApartStays ==
  ASSUME NEW kind, NEW s \in Nat, NEW t \in Nat, NEW u \in Nat, u >= t, Apart(kind, s, t)
  PROVE  Apart(kind, s, u)
<1>1. CASE kind = "briefing"
  BY <1>1 DEF Apart, DayOf
<1>2. CASE kind # "briefing"
  BY <1>2 DEF Apart, SixDays
<1>3. QED
  BY <1>1, <1>2

\* A tick asks for a kind only when no row of it is too near.
LEMMA DueIsApart ==
  ASSUME Shapes, NEW kind \in {"briefing", "weekly_review"}, Due(kind), NEW i \in DOMAIN rows,
         rows[i].kind = kind
  PROVE  Apart(kind, rows[i].started, Clock)
<1>1. rows[i].started \in Nat /\ Clock \in Nat
  <2>1. rows \in Seq(RowShape) /\ TypeOK
    BY DEF Shapes
  <2>2. rows[i] \in RowShape
    BY <2>1, LenProperties, ElementOfSeq
  <2>3. QED
    BY <2>1, <2>2, ClockIsNat DEF RowShape
<1>2. CASE kind = "briefing"
  <2>1. ~ AnalysisRanSince("briefing", NyDayStart(Clock))
    BY <1>2 DEF Due
  <2>2. ~ (rows[i].started >= 3 * DayOf(Clock))
    BY <1>2, <2>1 DEF AnalysisRanSince, StartedSince, NyDayStart
  <2>3. QED
    BY <1>1, <1>2, <2>2 DEF Apart, DayOf
<1>3. CASE kind = "weekly_review"
  <2>1. ~ AnalysisRanSince("weekly_review", Clock - SixDays)
    BY <1>3 DEF Due
  <2>2. ~ (rows[i].started >= Clock - SixDays)
    BY <1>3, <2>1 DEF AnalysisRanSince, StartedSince
  <2>3. QED
    BY <1>1, <1>3, <2>2 DEF Apart, SixDays
<1>4. QED
  BY <1>2, <1>3

\* Rows only gain an end: what, who and when stay.
RowsStay ==
  /\ DOMAIN rows' = DOMAIN rows
  /\ \A i \in DOMAIN rows : /\ rows'[i].kind = rows[i].kind /\ rows'[i].by = rows[i].by
                            /\ rows'[i].started = rows[i].started

\* Only a handler at its insert adds a row.
LEMMA RowsKept ==
  ASSUME Shapes, [Next]_vars, \A c \in Callers : ~ Inserts(c)
  PROVE  RowsStay
<1>1. CASE rows' = rows
  BY <1>1 DEF RowsStay
<1>2. ASSUME NEW i \in DOMAIN tasks, Finish(i) PROVE RowsStay
  <2> DEFINE status == IF tasks[i].error THEN "error" ELSE "done"
             cost == BillsOf(tasks[i].used)
  <2>1. status \in {"done", "error"} /\ cost \in Nat /\ i \in DOMAIN rows /\ rows \in Seq(RowShape)
    BY BillsAreNat DEF TaskShape, Shapes, TypeOK
  <2>2. rows' = [rows EXCEPT ![i].status = status, ![i].cost = cost]
    BY <1>2 DEF Finish
  <2> HIDE DEF status, cost
  <2>3. QED
    BY <2>1, <2>2, RecordedRow DEF RowsStay
<1>3. rows' = rows \/ \E i \in DOMAIN tasks : Finish(i)
  BY WorkKeeps, OthersKeep
<1>4. QED
  BY <1>1, <1>2, <1>3

\* A job's key is its row's number.
LEMMA TasksAreNat ==
  ASSUME Shapes, NEW i \in DOMAIN tasks
  PROVE  i \in Nat /\ i \in DOMAIN rows
  BY LenProperties DEF Shapes, TypeOK

\* The scheduler's request only moves on, or goes.
LEMMA SchedulersRequest ==
  ASSUME Shapes, [Next]_vars, \A kind \in {"briefing", "weekly_review"} : ~ Tick(kind)
  PROVE  callers'[Scheduler].at # "idle" =>
           callers[Scheduler].at # "idle" /\ callers'[Scheduler].kind = callers[Scheduler].kind
<1>a. Scheduler \in Callers /\ callers \in [Callers -> CallerShape] /\ Idle.at = "idle"
  BY DEF Callers, Shapes, Idle
<1>1. CASE UNCHANGED callers
  BY <1>1
<1>2. ASSUME NEW c \in Callers, NEW kind \in UserKinds, Request(c, kind)
      PROVE  callers'[Scheduler] = callers[Scheduler]
  BY <1>2, <1>a DEF Request
<1>3. ASSUME NEW c \in Callers, Inserts(c) \/ Leaves(c)
      PROVE  callers'[Scheduler] = callers[Scheduler] \/ callers'[Scheduler] = Idle
  BY <1>3, <1>a, InsertsKeep, InsertsOrLeaves
<1>3a. ASSUME NEW c \in Callers, TakeLatch(c)
       PROVE  callers[Scheduler] # callers'[Scheduler] =>
                callers[Scheduler].at # "idle" /\ callers'[Scheduler].kind = callers[Scheduler].kind
  <2>1. /\ callers' = [callers EXCEPT ![c] = [callers[c] EXCEPT !.at = "insert"]]
        /\ callers[c].at = "fits" /\ callers[c] \in CallerShape
    BY <1>3a, <1>a DEF TakeLatch
  <2>2. [callers[c] EXCEPT !.at = "insert"].kind = callers[c].kind
    BY <2>1 DEF CallerShape
  <2>3. QED
    BY <1>a, <2>1, <2>2
<1>4. CASE ReadBudget
  <2>1. \/ callers'[Scheduler] = [callers[Scheduler] EXCEPT !.at = "fits"]
        \/ callers'[Scheduler] = Idle
    BY <1>4, <1>a DEF ReadBudget
  <2>2. [callers[Scheduler] EXCEPT !.at = "fits"].kind = callers[Scheduler].kind
    BY <1>a DEF CallerShape
  <2>3. callers[Scheduler].at = "asked"
    BY <1>4 DEF ReadBudget
  <2>4. QED
    BY <1>a, <2>1, <2>2, <2>3
<1>5. ASSUME NEW i \in DOMAIN tasks, Release(i)
      PROVE  callers'[Scheduler].at = callers[Scheduler].at /\ callers'[Scheduler].kind = callers[Scheduler].kind
  <2>1. i \in Nat
    BY TasksAreNat
  <2>2. QED
    BY <1>5, <1>a, <2>1, OneEnds
<1>6. CASE Crash
  BY <1>6, <1>a DEF Crash
<1>7. \/ UNCHANGED callers \/ ReadBudget \/ Crash
      \/ \E c \in Callers : Inserts(c) \/ Leaves(c) \/ TakeLatch(c) \/ \E kind \in UserKinds : Request(c, kind)
      \/ \E i \in DOMAIN tasks : Release(i)
  BY WorkKeeps, OthersKeep
<1>8. QED
  BY <1>1, <1>2, <1>3, <1>3a, <1>4, <1>5, <1>6, <1>7, <1>a

\* No step brings two of the scheduler's runs of a kind too near each other.
LEMMA ScheduleStep ==
  ASSUME Shapes, Shapes', Schedule, [Next]_vars
  PROVE  Schedule'
<1>a. /\ rows \in Seq(RowShape) /\ DOMAIN rows = 1..Len(rows) /\ Len(rows) \in Nat
      /\ \A i \in DOMAIN rows : rows[i] \in RowShape
      /\ Clock \in Nat /\ Clock' \in Nat /\ Clock' >= Clock
      /\ Scheduler \in Callers /\ callers \in [Callers -> CallerShape]
  <2>1. rows \in Seq(RowShape) /\ TypeOK /\ TypeOK' /\ callers \in [Callers -> CallerShape]
    BY DEF Shapes
  <2>2. DOMAIN rows = 1..Len(rows) /\ Len(rows) \in Nat /\ \A i \in DOMAIN rows : rows[i] \in RowShape
    BY <2>1, LenProperties, ElementOfSeq
  <2>3. Clock \in Nat
    BY <2>1, ClockIsNat
  <2>4. Clock' \in Nat
    BY <2>1, AnalystConstants DEF TypeOK, Clock
  <2>5. QED
    BY <2>1, <2>2, <2>3, <2>4, ClockGrows DEF Callers
<1>b. \A i \in DOMAIN rows : rows[i].started \in Nat
  BY <1>a DEF RowShape
<1>1. ASSUME NEW kind \in {"briefing", "weekly_review"}, Tick(kind)
      PROVE  Schedule'
  <2>1. callers'[Scheduler].kind = kind /\ UNCHANGED <<env, rows>>
    BY <1>1, <1>a DEF Tick, Idle
  <2>2. \A i \in DOMAIN rows : rows[i].kind = kind => Apart(kind, rows[i].started, Clock)
    BY <1>1, DueIsApart DEF Tick
  <2>3. Clock' = Clock
    BY <2>1 DEF Clock, env
  <2>4. QED
    BY <2>1, <2>2, <2>3 DEF Schedule
<1>2. ASSUME NEW c \in Callers, Inserts(c)
      PROVE  Schedule'
  <2> DEFINE n == Len(rows) + 1
             row == NewRow(callers[c].kind, c)
  <2>1. row \in RowShape /\ row.by = c /\ row.kind = callers[c].kind /\ row.started = Clock
    BY <1>a DEF NewRow, RowShape, CallerShape
  <2>2. callers' = [callers EXCEPT ![c] = Idle] /\ callers[c].at = "insert" /\ Clock' = Clock
    BY <1>2, InsertsKeep DEF Inserts, Clock, env
  <2>3. DOMAIN rows' = 1..n /\ rows'[n] = row /\ \A i \in DOMAIN rows : rows'[i] = rows[i]
    BY <1>2, RowAdded DEF Inserts
  <2> HIDE DEF row
  <2>4. /\ \A i \in DOMAIN rows' : i \in DOMAIN rows \/ i = n
        /\ \A i \in DOMAIN rows : i < n /\ i # n
        /\ \A i \in DOMAIN rows' : ~ (n < i)
    BY <1>a, <2>3
  <2> HIDE DEF n
  <2>5. CASE c = Scheduler
    <3>1. callers'[Scheduler].at = "idle"
      BY <1>a, <2>2, <2>5 DEF Idle
    <3>2. \A i \in DOMAIN rows : rows[i].by = Scheduler /\ rows[i].kind = row.kind
                                   => Apart(rows[i].kind, rows[i].started, row.started)
      BY <2>1, <2>2, <2>5 DEF Schedule
    <3>3. QED
      BY <2>3, <2>4, <3>1, <3>2 DEF Schedule
  <2>6. CASE c # Scheduler
    <3>1. callers'[Scheduler] = callers[Scheduler]
      BY <1>a, <2>2, <2>6
    <3>2. row.by # Scheduler
      BY <2>1, <2>6
    <3>3. QED
      BY <2>2, <2>3, <2>4, <3>1, <3>2 DEF Schedule
  <2>7. QED
    BY <2>5, <2>6
<1>3. CASE RowsStay /\ (callers'[Scheduler].at # "idle" =>
             callers[Scheduler].at # "idle" /\ callers'[Scheduler].kind = callers[Scheduler].kind)
  <2>1. ASSUME callers'[Scheduler].at # "idle", NEW i \in DOMAIN rows,
               rows[i].by = Scheduler, rows[i].kind = callers[Scheduler].kind
        PROVE  Apart(rows[i].kind, rows[i].started, Clock')
    <3>1. Apart(rows[i].kind, rows[i].started, Clock)
      BY <1>3, <2>1 DEF Schedule
    <3>2. QED
      BY <1>a, <1>b, <3>1, ApartStays
  <2>2. callers'[Scheduler].at # "idle" => callers'[Scheduler].kind \in {"briefing", "weekly_review"}
    BY <1>3 DEF Schedule
  <2>3. QED
    BY <1>3, <2>1, <2>2 DEF Schedule, RowsStay
<1>4. QED
  BY <1>1, <1>2, <1>3, RowsKept, SchedulersRequest
-----------------------------------------------------------------------------
(* What is stored.                                                          *)

\* A job's step keeps what it may store equal to what it put in the prompt.
LEMMA AllowKept ==
  ASSUME Shapes, NEW i \in DOMAIN tasks, Work(i) \/ Panic(i), tasks[i].allow = tasks[i].prompt
  PROVE  \/ /\ DOMAIN tasks' = DOMAIN tasks /\ tasks'[i].allow = tasks'[i].prompt
            /\ \A j \in DOMAIN tasks : j # i => tasks'[j] = tasks[j]
         \/ DOMAIN tasks' \subseteq DOMAIN tasks /\ \A j \in DOMAIN tasks' : tasks'[j] = tasks[j]
<1>a. tasks[i] \in TaskShape /\ callers \in [Callers -> CallerShape]
  BY DEF Shapes
<1> DEFINE Same(t) == t.allow = t.prompt
<1>1. \A t : Step(i, t) /\ Same(t) =>
        /\ DOMAIN tasks' = DOMAIN tasks /\ Same(tasks'[i])
        /\ \A j \in DOMAIN tasks : j # i => tasks'[j] = tasks[j]
  BY OneGoesOn
<1>2. CASE ScreenUpFront(i)
  <2>1. Same([tasks[i] EXCEPT !.at = "call", !.allow = ScoredCandidates, !.prompt = ScoredCandidates])
    BY <1>a DEF TaskShape
  <2>2. Same(Fails(tasks[i]))
    BY <1>a, FailsShape
  <2> HIDE DEF Same
  <2>3. \E t : Step(i, t) /\ Same(t)
    BY <1>2, <2>1, <2>2 DEF ScreenUpFront
  <2>4. QED
    BY <1>1, <2>3 DEF Same
<1>3. CASE Busy(i)
  <2>1. Same([tasks[i] EXCEPT !.attempt = @ + 1])
    BY <1>a DEF TaskShape
  <2>2. Same(Fails(tasks[i]))
    BY <1>a, FailsShape
  <2> HIDE DEF Same
  <2>3. \E t : Step(i, t) /\ Same(t)
    BY <1>3, <2>1, <2>2 DEF Busy
  <2>4. QED
    BY <1>1, <2>3 DEF Same
<1>4. ASSUME NEW cost, SendFails(i, cost)
      PROVE  /\ DOMAIN tasks' = DOMAIN tasks /\ Same(tasks'[i])
             /\ \A j \in DOMAIN tasks : j # i => tasks'[j] = tasks[j]
  BY <1>1, <1>4, <1>a, FailsShape DEF SendFails
<1>5. ASSUME NEW cost \in ReplyCosts, NEW stop, NEW answer \in Answers \cup {NoJson}, Reply(i, cost, stop, answer)
      PROVE  /\ DOMAIN tasks' = DOMAIN tasks /\ Same(tasks'[i])
             /\ \A j \in DOMAIN tasks : j # i => tasks'[j] = tasks[j]
  BY <1>5, ReplyGoesOn
<1>6. CASE StoreRec(i)
  <2>1. Same([tasks[i] EXCEPT !.todo = Tail(@)])
    BY <1>a DEF TaskShape
  <2>2. Step(i, [tasks[i] EXCEPT !.todo = Tail(@)])
    BY <1>6 DEF StoreRec
  <2>3. QED
    BY <1>1, <2>1, <2>2
<1>7. CASE Release(i)
  BY <1>7, <1>a, OneEnds, TasksAreNat
<1>8. QED
  BY <1>2, <1>3, <1>4, <1>5, <1>6, <1>7 DEF Work, Finish, FinishFails, Panic

\* What a step may do to the recommendations: add one of a job's, or decide on one.
LEMMA RecsKept ==
  ASSUME Shapes, [Next]_vars
  PROVE  \/ recs' = recs
         \/ \E i \in DOMAIN tasks : StoreRec(i)
         \/ \E k \in DOMAIN recs, status \in {"accepted", "dismissed"} : SetRecommendationStatus(k, status)
<1>1. \A c \in Callers : TakeLatch(c) \/ Launch(c) \/ LaunchRefused(c) \/ InsertFails(c) \/ HangUp(c) => recs' = recs
  BY DEF TakeLatch, Launch, LaunchRefused, InsertFails, HangUp
<1>2. \A c \in Callers, kind \in UserKinds : Request(c, kind) => recs' = recs
  BY DEF Request
<1>3. \A kind \in {"briefing", "weekly_review"} : Tick(kind) => recs' = recs
  BY DEF Tick
<1>4. ReadBudget \/ Crash => recs' = recs
  BY DEF ReadBudget, Crash
<1>5. Advance \/ MarketMoves \/ PutSettings \/ UNCHANGED vars => recs' = recs
  BY DEF Advance, MarketMoves, PutSettings, vars
<1>6. \A i \in DOMAIN tasks : ScreenUpFront(i) \/ Busy(i) \/ (\E cost : SendFails(i, cost)) => recs' = recs
  BY DEF ScreenUpFront, Busy, SendFails
<1>7. \A i \in DOMAIN tasks : Finish(i) \/ FinishFails(i) \/ Panic(i) => recs' = recs
  BY DEF Finish, FinishFails, Panic
<1>8. \A i \in DOMAIN tasks : \A cost, stop, answer : Reply(i, cost, stop, answer) => recs' = recs
  BY DEF Reply
<1>9. \A i \in DOMAIN tasks : Work(i) => recs' = recs \/ StoreRec(i)
  BY <1>6, <1>7, <1>8 DEF Work
<1>10. QED
  BY <1>1, <1>2, <1>3, <1>4, <1>5, <1>7, <1>9 DEF Next
\* A job's step, a launch and a restart keep what may be stored equal to what was prompted.
LEMMA AllowStep ==
  ASSUME Shapes, [Next]_vars, \A i \in DOMAIN tasks : tasks[i].allow = tasks[i].prompt
  PROVE  \A i \in DOMAIN tasks' : tasks'[i].allow = tasks'[i].prompt
<1>1. ASSUME NEW i \in DOMAIN tasks, Work(i) \/ Panic(i)
      PROVE  \A j \in DOMAIN tasks' : tasks'[j].allow = tasks'[j].prompt
  BY <1>1, AllowKept
<1>2. ASSUME NEW c \in Callers, Inserts(c)
      PROVE  \A j \in DOMAIN tasks' : tasks'[j].allow = tasks'[j].prompt
  <2>1. NewTask(callers[c].kind).allow = {} /\ NewTask(callers[c].kind).prompt = {}
    BY DEF NewTask
  <2>2. \A j \in DOMAIN tasks' : \/ j \in DOMAIN tasks /\ tasks'[j] = tasks[j]
                                 \/ tasks'[j] = NewTask(callers[c].kind)
    BY <1>2, InsertsKeep
  <2>3. QED
    BY <2>1, <2>2
<1>3. CASE Crash
  BY <1>3 DEF Crash
<1>4. CASE tasks' = tasks
  BY <1>4
<1>5. QED
  BY <1>1, <1>2, <1>3, <1>4, OthersKeep

\* A row never changes its kind.
LEMMA KindsKept ==
  ASSUME Shapes, [Next]_vars
  PROVE  DOMAIN rows \subseteq DOMAIN rows' /\ \A i \in DOMAIN rows : rows'[i].kind = rows[i].kind
<1>1. ASSUME NEW c \in Callers, Inserts(c)
      PROVE  DOMAIN rows \subseteq DOMAIN rows' /\ \A i \in DOMAIN rows : rows'[i] = rows[i]
  <2>1. DOMAIN rows = 1..Len(rows) /\ Len(rows) \in Nat
    BY LenProperties DEF Shapes
  <2>2. DOMAIN rows' = 1..(Len(rows) + 1) /\ \A i \in DOMAIN rows : rows'[i] = rows[i]
    BY <1>1, RowAdded DEF Inserts
  <2>3. QED
    BY <2>1, <2>2
<1>2. QED
  BY <1>1, RowsKept DEF RowsStay

\* What a step stores for market_ideas was in the prompt, and decisions move nothing.
LEMMA GroundedStep ==
  ASSUME Shapes, Grounded, [Next]_vars
  PROVE  Grounded'
<1>a. /\ recs \in Seq(RecShape) /\ DOMAIN recs = 1..Len(recs) /\ Len(recs) \in Nat
      /\ \A k \in DOMAIN recs : recs[k].row \in DOMAIN rows
      /\ \A k \in DOMAIN recs : rows[recs[k].row].kind = "market_ideas" =>
           <<recs[k].symbol, recs[k].action>> \in recs[k].prompted
  BY LenProperties DEF Shapes, TypeOK, Grounded, GroundedOnly
<1>b. /\ DOMAIN rows \subseteq DOMAIN rows' /\ \A i \in DOMAIN rows : rows'[i].kind = rows[i].kind
  BY KindsKept
<1>1. ASSUME recs' = recs PROVE GroundedOnly'
  BY <1>1, <1>a, <1>b DEF GroundedOnly
<1>2. ASSUME NEW i \in DOMAIN tasks, StoreRec(i)
      PROVE  GroundedOnly'
  <2> DEFINE p == Head(tasks[i].todo)
             kind == rows[i].kind
             pair == Stored(kind, p, tasks[i])
             rec == NewRec(i, pair)
  <2>1. tasks[i] \in TaskShape /\ tasks[i].allow = tasks[i].prompt /\ i \in DOMAIN rows /\ i \in Nat
    BY LenProperties DEF Shapes, Grounded, TypeOK
  <2>2. p \in Pairs
    BY <1>2, <2>1, HeadTailProperties DEF StoreRec, TaskShape
  <2>3. recs' = recs \/ (~ Skipped(kind, p, tasks[i]) /\ recs' = Append(recs, rec))
    BY <1>2 DEF StoreRec
  <2>4. ASSUME ~ Skipped(kind, p, tasks[i])
        PROVE  /\ rec \in RecShape /\ rec.row = i
               /\ kind = "market_ideas" => <<rec.symbol, rec.action>> \in rec.prompted
    <3> HIDE DEF p, kind
    <3>1. pair \in Pairs /\ (kind = "market_ideas" => pair \in tasks[i].allow)
      BY <2>2, <2>4, StoredPair
    <3> HIDE DEF pair
    <3>2. pair = <<pair[1], pair[2]>>
      BY <3>1 DEF Pairs
    <3>3. rec.symbol = pair[1] /\ rec.action = pair[2] /\ rec.prompted = tasks[i].prompt
      BY DEF NewRec
    <3>4. rec \in RecShape /\ rec.row = i
      BY <2>1, <3>1, NewRecShape, ClockIsNat DEF Shapes
    <3>5. QED
      BY <2>1, <3>1, <3>2, <3>3, <3>4
  <2> HIDE DEF p, kind, pair, rec
  <2>5. CASE recs' = recs
    BY <1>1, <2>5
  <2>6. CASE ~ Skipped(kind, p, tasks[i]) /\ recs' = Append(recs, rec)
    <3>1. /\ DOMAIN recs' = 1..(Len(recs) + 1) /\ recs'[Len(recs) + 1] = rec
          /\ \A k \in DOMAIN recs : recs'[k] = recs[k]
      BY <1>a, <2>4, <2>6, AppendProperties, LenProperties
    <3>2. \A k \in DOMAIN recs' : k \in DOMAIN recs \/ k = Len(recs) + 1
      BY <1>a, <3>1
    <3>3. rec.row = i /\ (kind = "market_ideas" => <<rec.symbol, rec.action>> \in rec.prompted)
      BY <2>4, <2>6
    <3>4. rows'[i].kind = kind
      BY <1>b, <2>1 DEF kind
    <3>5. QED
      BY <1>a, <1>b, <3>1, <3>2, <3>3, <3>4 DEF GroundedOnly
  <2>7. QED
    BY <2>3, <2>5, <2>6
<1>3. ASSUME NEW k \in DOMAIN recs, NEW status \in {"accepted", "dismissed"}, SetRecommendationStatus(k, status)
      PROVE  GroundedOnly'
  <2> DEFINE rec == [recs[k] EXCEPT !.status = status]
  <2>1. recs[k] \in RecShape
    BY <1>a, ElementOfSeq
  <2>2. /\ rec.row = recs[k].row /\ rec.symbol = recs[k].symbol /\ rec.action = recs[k].action
        /\ rec.prompted = recs[k].prompted
    BY <2>1 DEF RecShape
  <2>3. recs' = [recs EXCEPT ![k] = rec]
    BY <1>3 DEF SetRecommendationStatus
  <2> HIDE DEF rec
  <2>4. DOMAIN recs' = DOMAIN recs /\ recs'[k] = rec /\ \A m \in DOMAIN recs : m # k => recs'[m] = recs[m]
    BY <1>a, <2>3
  <2>5. QED
    BY <1>a, <1>b, <2>2, <2>4 DEF GroundedOnly
<1>4. GroundedOnly'
  BY <1>1, <1>2, <1>3, RecsKept
<1>5. QED
  BY <1>4, AllowStep DEF Grounded
-----------------------------------------------------------------------------
(* The theorems.                                                            *)

\* A boot satisfies the invariant: no rows, no jobs, no recommendations.
LEMMA InitIInv ==
  ASSUME Init
  PROVE  IInv
<1>1. DOMAIN tasks = {} /\ DOMAIN rows = {} /\ DOMAIN recs = {} /\ latch = FALSE
  BY DEF Init
<1>2. callers[Scheduler].at = "idle"
  BY DEF Init, Callers, Idle
<1>3. Shapes
  BY InitShapes
<1>8. Inserting = {} /\ wedged = FALSE /\ lost = {}
  BY DEF Init, Inserting, Idle
<1>4. Runs
  BY <1>1, <1>8 DEF Runs, LatchIsTheRun, BilledIsRecorded, Spending
<1>5. Schedule
  BY <1>1, <1>2 DEF Schedule
<1>6. Grounded
  BY <1>1 DEF Grounded, GroundedOnly
<1>7. QED
  BY <1>3, <1>4, <1>5, <1>6 DEF IInv

\* Every step keeps the invariant.
LEMMA Invariant ==
  Spec => []IInv
<1>1. IInv /\ [Next]_vars => IInv'
  BY ShapesStep, RunsStep, ScheduleStep, GroundedStep DEF IInv
<1>2. QED
  BY InitIInv, <1>1, PTL DEF Spec

\* Over every crash, panic, hang-up and failed write the latch is held exactly by the one request that
\* inserts or the one job that lives, unless a client hung up between the two and left it held by
\* nobody; a row says running only for a live job or one that never began or whose end was lost; and a
\* recorded end costs what was billed but for replies whose usage was not read, of which a run that is
\* done has none.
THEOREM RunsAreRecorded ==
  Spec => []RunsRecorded
<1>1. IInv => RunsRecorded
  BY DEF IInv, Shapes, Runs, RunsRecorded
<1>2. QED
  BY Invariant, <1>1, PTL

\* The scheduler never starts two briefings in a New York day nor two reviews within six days,
\* though its tick reads the rows in one step and the run inserts its own three steps later.
THEOREM SchedulerRunsOnce ==
  Spec => []ScheduledOnce
<1>1. ASSUME IInv PROVE ScheduledOnce
  <2>1. rows \in Seq(RowShape) /\ \A i \in DOMAIN rows : rows[i] \in RowShape
    BY <1>1, LenProperties, ElementOfSeq DEF IInv, Shapes
  <2>2. ASSUME NEW i \in DOMAIN rows, NEW j \in DOMAIN rows, i < j, rows[i].by = Scheduler,
               rows[j].by = Scheduler, rows[i].kind = rows[j].kind
        PROVE  IF rows[i].kind = "briefing" THEN DayOf(rows[i].started) # DayOf(rows[j].started)
               ELSE rows[j].started - rows[i].started > SixDays
    <3>1. Apart(rows[i].kind, rows[i].started, rows[j].started)
      BY <1>1, <2>2 DEF IInv, Schedule
    <3>2. rows[i].started \in Nat /\ rows[j].started \in Nat
      BY <2>1 DEF RowShape
    <3>3. QED
      BY <3>1, <3>2 DEF Apart, DayOf
  <2>3. QED
    BY <2>2 DEF ScheduledOnce
<1>2. QED
  BY Invariant, <1>1, PTL

\* Whatever the model answers and however the market and the level move meanwhile, a market_ideas run
\* stores only pairs its prompt listed: no name and no side of the model's own.
THEOREM IdeasStayGrounded ==
  Spec => []GroundedOnly
<1>1. IInv => GroundedOnly
  BY DEF IInv, Grounded
<1>2. QED
  BY Invariant, <1>1, PTL
-----------------------------------------------------------------------------
(* The budget.                                                              *)

\* A set of numbers has a least.
LEMMA LeastOf ==
  ASSUME NEW S \in SUBSET Nat, S # {}
  PROVE  \E m \in S : \A n \in S : m <= n
<1>1. PICK m \in S : \A n \in S : ~ (<<n, m>> \in OpToRel(<, Nat))
  BY NatLessThanWellFounded, WFMin
<1>2. \A n \in S : ~ (n < m)
  BY <1>1 DEF OpToRel
<1>3. QED
  BY <1>2

\* A table of running totals of the first m amounts.
Totals(f, amounts, m) ==
  /\ f \in [0..m -> Nat] /\ f[0] = 0
  /\ \A n \in 1..m : f[n] = f[n - 1] + amounts[n]

\* There is such a table: the shortest that did not exist could be written from the one before.
LEMMA TotalsExist ==
  ASSUME NEW m \in Nat, NEW amounts, \A i \in 1..m : amounts[i] \in Nat
  PROVE  \E f : Totals(f, amounts, m)
<1> DEFINE Missing == {n \in 0..m : ~ \E f : Totals(f, amounts, n)}
<1>1. ASSUME Missing # {} PROVE FALSE
  <2>0. Missing \in SUBSET Nat /\ Missing # {}
    BY <1>1
  <2>1. PICK n \in Missing : \A k \in Missing : n <= k
    BY <2>0, LeastOf
  <2>2. n \in 0..m /\ \A f : ~ Totals(f, amounts, n)
    OBVIOUS
  <2>3. n # 0
    <3>1. Totals([k \in 0..0 |-> 0], amounts, 0)
      BY DEF Totals
    <3>2. QED
      BY <2>2, <3>1
  <2>4. n - 1 \in 0..m /\ n - 1 \notin Missing /\ n - 1 \in Nat
    BY <2>1, <2>2, <2>3
  <2>5. PICK f : Totals(f, amounts, n - 1)
    BY <2>4
  <2> DEFINE g == [k \in 0..n |-> IF k = n THEN f[n - 1] + amounts[n] ELSE f[k]]
  <2>6. /\ f \in [0..(n - 1) -> Nat] /\ f[0] = 0 /\ amounts[n] \in Nat
        /\ \A k \in 1..(n - 1) : f[k] = f[k - 1] + amounts[k]
    BY <2>2, <2>3, <2>5 DEF Totals
  <2>7. f[n - 1] + amounts[n] \in Nat /\ \A k \in 0..(n - 1) : f[k] \in Nat
    BY <2>4, <2>6
  <2>8. g \in [0..n -> Nat] /\ g[0] = 0
    BY <2>2, <2>3, <2>6, <2>7
  <2>9. ASSUME NEW k \in 1..n PROVE g[k] = g[k - 1] + amounts[k]
    <3>1. k - 1 \in 0..n /\ k - 1 # n /\ g[k - 1] = f[k - 1] /\ k \in 0..n
      BY <2>2
    <3>2. CASE k = n
      BY <3>1, <3>2
    <3>3. CASE k # n
      BY <2>6, <3>1, <3>3
    <3>4. QED
      BY <3>2, <3>3
  <2>10. QED
    BY <2>2, <2>8, <2>9 DEF Totals
<1>2. m \in 0..m
  OBVIOUS
<1>3. QED
  BY <1>1, <1>2

\* Total is the last entry of such a table.
LEMMA TotalIs ==
  ASSUME NEW m \in Nat, NEW amounts, \A i \in 1..m : amounts[i] \in Nat
  PROVE  \E f : Totals(f, amounts, m) /\ Total(amounts, m) = f[m]
<1> DEFINE Table(f) == f = [n \in 0..m |-> IF n = 0 THEN 0 ELSE f[n - 1] + amounts[n]]
           upTo == CHOOSE f : Table(f)
<1>1. PICK f : Totals(f, amounts, m)
  BY TotalsExist
<1>2. Table(f)
  BY <1>1 DEF Totals
<1>3. Table(upTo)
  BY <1>2
<1>4. upTo = f
  <2>1. DOMAIN upTo = 0..m /\ \A n \in 0..m : upTo[n] = IF n = 0 THEN 0 ELSE upTo[n - 1] + amounts[n]
    BY <1>3
  <2> HIDE DEF upTo
  <2>2. DOMAIN f = 0..m /\ f[0] = 0 /\ \A n \in 1..m : f[n] = f[n - 1] + amounts[n]
    BY <1>1 DEF Totals
  <2>3. ASSUME NEW n \in 0..m, upTo[n] # f[n] PROVE FALSE
    <3> DEFINE Differ == {k \in 0..m : upTo[k] # f[k]}
    <3>0. Differ \in SUBSET Nat /\ Differ # {}
      BY <2>3
    <3>1. PICK k \in Differ : \A l \in Differ : k <= l
      BY <3>0, LeastOf
    <3>2. k # 0 /\ k \in 0..m /\ k - 1 \in 0..m /\ k - 1 \notin Differ
      BY <2>1, <2>2, <3>1
    <3>3. upTo[k - 1] = f[k - 1]
      BY <3>2
    <3>4. QED
      BY <2>1, <2>2, <3>1, <3>2, <3>3
  <2>4. QED
    BY <1>2, <1>3, <2>1, <2>2, <2>3
<1>5. Total(amounts, m) = upTo[m]
  BY DEF Total
<1>6. QED
  BY <1>1, <1>4, <1>5

\* Smaller amounts have a smaller total.
LEMMA TotalGrows ==
  ASSUME NEW m \in Nat, NEW small, NEW large,
         \A i \in 1..m : small[i] \in Nat /\ large[i] \in Nat /\ small[i] <= large[i]
  PROVE  Total(small, m) \in Nat /\ Total(large, m) \in Nat /\ Total(small, m) <= Total(large, m)
<1>1. PICK f : Totals(f, small, m) /\ Total(small, m) = f[m]
  BY TotalIs
<1>2. PICK g : Totals(g, large, m) /\ Total(large, m) = g[m]
  BY TotalIs
<1>3. ASSUME NEW n \in 0..m, ~ (f[n] <= g[n]) PROVE FALSE
  <2> DEFINE Over == {k \in 0..m : ~ (f[k] <= g[k])}
  <2>0. Over \in SUBSET Nat /\ Over # {}
    BY <1>3
  <2>1. PICK k \in Over : \A l \in Over : k <= l
    BY <2>0, LeastOf
  <2>2. k # 0 /\ k \in 1..m /\ k - 1 \in 0..m
    BY <1>1, <1>2, <2>1 DEF Totals
  <2>3. f[k - 1] <= g[k - 1]
    BY <2>1, <2>2
  <2>4. /\ f[k] = f[k - 1] + small[k] /\ g[k] = g[k - 1] + large[k]
        /\ f[k - 1] \in Nat /\ g[k - 1] \in Nat
    BY <1>1, <1>2, <2>2 DEF Totals
  <2>5. QED
    BY <2>1, <2>2, <2>3, <2>4
<1>4. QED
  BY <1>1, <1>2, <1>3 DEF Totals

\* An amount of zero at the end changes no total.
LEMMA TotalOfOneMore ==
  ASSUME NEW m \in Nat, NEW short, NEW long,
         \A i \in 1..m : short[i] \in Nat /\ long[i] = short[i], long[m + 1] = 0
  PROVE  Total(long, m + 1) = Total(short, m)
<1>1. PICK f : Totals(f, short, m) /\ Total(short, m) = f[m]
  BY TotalIs
<1>2. \A i \in 1..(m + 1) : long[i] \in Nat
  OBVIOUS
<1>3. PICK g : Totals(g, long, m + 1) /\ Total(long, m + 1) = g[m + 1]
  BY <1>2, TotalIs
<1>4. ASSUME NEW n \in 0..m, f[n] # g[n] PROVE FALSE
  <2> DEFINE Differ == {k \in 0..m : f[k] # g[k]}
  <2>0. Differ \in SUBSET Nat /\ Differ # {}
    BY <1>4
  <2>1. PICK k \in Differ : \A l \in Differ : k <= l
    BY <2>0, LeastOf
  <2>2. k # 0 /\ k \in 1..m /\ k - 1 \in 0..m
    BY <1>1, <1>3, <2>1 DEF Totals
  <2>3. f[k - 1] = g[k - 1]
    BY <2>1, <2>2
  <2>4. QED
    BY <1>1, <1>3, <2>1, <2>2, <2>3 DEF Totals
<1>5. g[m + 1] = g[m] + 0 /\ g[m] \in Nat
  BY <1>3 DEF Totals
<1>6. QED
  BY <1>1, <1>3, <1>4, <1>5

\* What the rows of a table that started from a time on cost, but for some of them.
Amounts(table, from, out) ==
  [i \in DOMAIN table |-> IF table[i].started >= from /\ i \notin out THEN table[i].cost ELSE 0]
SpendOf(table, from, out) == Total(Amounts(table, from, out), Len(table))

\* It is a number, the total of as many amounts as there are rows.
LEMMA SpendIs ==
  ASSUME NEW table \in Seq(RowShape), NEW from \in Nat, NEW out
  PROVE  /\ Len(table) \in Nat /\ DOMAIN table = 1..Len(table)
         /\ \A i \in 1..Len(table) : /\ table[i] \in RowShape /\ Amounts(table, from, out)[i] \in Nat
                                     /\ Amounts(table, from, out)[i]
                                          = IF table[i].started >= from /\ i \notin out THEN table[i].cost ELSE 0
         /\ SpendOf(table, from, out) \in Nat
<1>1. Len(table) \in Nat /\ DOMAIN table = 1..Len(table) /\ \A i \in 1..Len(table) : table[i] \in RowShape
  BY LenProperties, ElementOfSeq
<1>2. \A i \in 1..Len(table) : table[i].cost \in Nat /\ table[i].started \in Nat
  BY <1>1 DEF RowShape
<1>3. \A i \in 1..Len(table) :
        /\ Amounts(table, from, out)[i] = IF table[i].started >= from /\ i \notin out THEN table[i].cost ELSE 0
        /\ Amounts(table, from, out)[i] \in Nat
  BY <1>1, <1>2 DEF Amounts
<1>4. SpendOf(table, from, out) \in Nat
  BY <1>1, <1>3, TotalGrows DEF SpendOf
<1>5. QED
  BY <1>1, <1>3, <1>4

\* It does not grow when the day goes on, when more rows are left out, nor when the cost of a row that
\* is left out is recorded.
LEMMA SpendShrinks ==
  ASSUME NEW table \in Seq(RowShape), NEW next \in Seq(RowShape), Len(next) = Len(table),
         NEW from \in Nat, NEW to \in Nat, to >= from, NEW out, NEW more, \A i \in out : i \in more,
         \A i \in DOMAIN table : /\ next[i].started = table[i].started
                                 /\ i \notin more => next[i].cost = table[i].cost
  PROVE  SpendOf(next, to, more) <= SpendOf(table, from, out)
<1>1. PICK m : m = Len(table)
  OBVIOUS
<1>2. PICK old : old = Amounts(table, from, out)
  OBVIOUS
<1>3. PICK new : new = Amounts(next, to, more)
  OBVIOUS
<1>4. /\ m \in Nat /\ DOMAIN table = 1..m
      /\ \A i \in 1..m : table[i] \in RowShape /\ old[i] \in Nat /\ new[i] \in Nat
      /\ \A i \in 1..m : old[i] = IF table[i].started >= from /\ i \notin out THEN table[i].cost ELSE 0
      /\ \A i \in 1..m : new[i] = IF next[i].started >= to /\ i \notin more THEN next[i].cost ELSE 0
  BY <1>1, <1>2, <1>3, SpendIs
<1>5. ASSUME NEW i \in 1..m PROVE new[i] <= old[i]
  <2>1. PICK s : s = table[i].started
    OBVIOUS
  <2>2. s \in Nat
    BY <1>4, <2>1 DEF RowShape
  <2>3. CASE s >= to /\ i \notin more
    <3>1. s >= from /\ i \notin out /\ next[i].cost = table[i].cost
      BY <1>4, <2>2, <2>3
    <3>2. new[i] = next[i].cost
      BY <1>4, <2>1, <2>3
    <3>3. old[i] = table[i].cost
      BY <1>4, <2>1, <3>1
    <3>4. QED
      BY <1>4, <3>1, <3>2, <3>3
  <2>4. CASE ~ (s >= to /\ i \notin more)
    <3>1. new[i] = 0
      BY <1>4, <2>1, <2>4
    <3>2. QED
      BY <1>4, <3>1
  <2>5. QED
    BY <2>3, <2>4
<1>6. Total(new, m) <= Total(old, m)
  BY <1>4, <1>5, TotalGrows
<1>7. QED
  BY <1>1, <1>2, <1>3, <1>6 DEF SpendOf

\* A new row costs nothing yet.
LEMMA SpendOfOneMore ==
  ASSUME NEW table \in Seq(RowShape), NEW next \in Seq(RowShape), Len(next) = Len(table) + 1,
         \A i \in DOMAIN table : next[i] = table[i], next[Len(table) + 1].cost = 0, NEW from \in Nat, NEW out
  PROVE  SpendOf(next, from, out) = SpendOf(table, from, out)
<1>1. PICK m : m = Len(table)
  OBVIOUS
<1>2. PICK old : old = Amounts(table, from, out)
  OBVIOUS
<1>3. PICK new : new = Amounts(next, from, out)
  OBVIOUS
<1>4. /\ m \in Nat /\ DOMAIN table = 1..m /\ \A i \in 1..m : old[i] \in Nat
      /\ \A i \in 1..m : old[i] = IF table[i].started >= from /\ i \notin out THEN table[i].cost ELSE 0
  BY <1>1, <1>2, SpendIs
<1>5. \A i \in 1..(m + 1) : new[i] = IF next[i].started >= from /\ i \notin out THEN next[i].cost ELSE 0
  BY <1>1, <1>3, SpendIs
<1>6. \A i \in 1..m : new[i] = old[i]
  BY <1>4, <1>5
<1>7. new[m + 1] = 0
  BY <1>1, <1>4, <1>5
<1>8. Total(new, m + 1) = Total(old, m)
  BY <1>4, <1>6, <1>7, TotalOfOneMore
<1>9. QED
  BY <1>1, <1>2, <1>3, <1>8 DEF SpendOf

\* Days come in the order of their times.
LEMMA DaysInOrder ==
  ASSUME NEW s \in Nat, NEW t \in Nat, t >= s
  PROVE  NyDayStart(s) \in Nat /\ NyDayStart(t) \in Nat /\ NyDayStart(t) >= NyDayStart(s)
<1> DEFINE p == s \div 3
           q == t \div 3
<1>1. p \in Nat /\ q \in Nat /\ s \in 3 * p .. 3 * p + 2 /\ t \in 3 * q .. 3 * q + 2
  OBVIOUS
<1>2. NyDayStart(s) = 3 * p /\ NyDayStart(t) = 3 * q
  BY DEF NyDayStart, DayOf
<1> HIDE DEF p, q
<1>3. QED
  BY <1>1, <1>2

\* A request that read the budget: what the day's rows cost leaves it room, but for those it missed.
Reading == {"fits", "insert"}
Fitted(c) ==
  callers[c].at \in Reading =>
    /\ callers[c].kind \in DOMAIN Headroom
    /\ backend # "ollama" =>
         SpendOf(rows, NyDayStart(Clock), callers[c].missed) + Headroom[callers[c].kind] <= Budget

\* The callers' requests as they stand.
AllFitted == \A c \in Callers : Fitted(c)

\* What leaves a request fitting.
LEMMA FittedStays ==
  ASSUME Shapes, Shapes', NEW c \in Callers, Fitted(c), backend' = backend,
         callers[c].at \in Reading, callers'[c].kind = callers[c].kind,
         SpendOf(rows', NyDayStart(Clock'), callers'[c].missed) <= SpendOf(rows, NyDayStart(Clock), callers[c].missed)
  PROVE  Fitted(c)'
<1>1. PICK old : old = SpendOf(rows, NyDayStart(Clock), callers[c].missed)
  OBVIOUS
<1>2. PICK new : new = SpendOf(rows', NyDayStart(Clock'), callers'[c].missed)
  OBVIOUS
<1>3. PICK h : h = Headroom[callers[c].kind]
  OBVIOUS
<1>4. callers[c].kind \in DOMAIN Headroom /\ h \in Nat /\ Budget \in Nat
  BY <1>3, AnalystConstants DEF Fitted
<1>5. old \in Nat
  <2>1. rows \in Seq(RowShape) /\ Clock \in Nat
    BY ClockIsNat DEF Shapes
  <2>2. QED
    BY <1>1, <2>1, SpendIs, DaysInOrder
<1>6. new \in Nat
  <2>1. rows' \in Seq(RowShape) /\ Clock' \in Nat
    BY ClockIsNext DEF Shapes
  <2>2. QED
    BY <1>2, <2>1, SpendIs, DaysInOrder
<1>7. ASSUME backend # "ollama" PROVE new + h <= Budget
  <2>1. old + h <= Budget
    BY <1>1, <1>3, <1>7 DEF Fitted
  <2>2. new <= old
    BY <1>1, <1>2
  <2>3. QED
    BY <1>4, <1>5, <1>6, <2>1, <2>2
<1>8. QED
  BY <1>2, <1>3, <1>4, <1>7 DEF Fitted

\* A request nobody touches while the rows stay.
LEMMA FittedAside ==
  ASSUME Shapes, Shapes', NEW c \in Callers, Fitted(c), backend' = backend, Clock' >= Clock, rows' = rows,
         callers'[c].at \in Reading => callers[c].at \in Reading /\ callers'[c].kind = callers[c].kind
                                         /\ callers'[c].missed = callers[c].missed
  PROVE  Fitted(c)'
<1>0. rows \in Seq(RowShape) /\ Clock \in Nat /\ Clock' \in Nat
  BY ClockIsNat, ClockIsNext DEF Shapes
<1>1. /\ NyDayStart(Clock) \in Nat /\ NyDayStart(Clock') \in Nat
      /\ NyDayStart(Clock') >= NyDayStart(Clock)
  BY <1>0, DaysInOrder
<1>2. CASE callers'[c].at \in Reading
  <2>1. SpendOf(rows, NyDayStart(Clock'), callers[c].missed) <= SpendOf(rows, NyDayStart(Clock), callers[c].missed)
    BY <1>0, <1>1, SpendShrinks
  <2>2. QED
    BY <1>2, <2>1, FittedStays
<1>3. CASE callers'[c].at \notin Reading
  BY <1>3 DEF Fitted
<1>4. QED
  BY <1>2, <1>3

\* A request whose budget read said it fits.
LEMMA FittedNow ==
  ASSUME Shapes, NEW kind \in DOMAIN Headroom, FitsBudget(kind), rows' = rows, now' = now, backend' = backend,
         NEW c \in Callers, callers'[c].kind = kind
  PROVE  Fitted(c)'
<1>1. PICK day : day = NyDayStart(Clock)
  OBVIOUS
<1>0. Clock \in Nat /\ rows \in Seq(RowShape)
  BY ClockIsNat DEF Shapes
<1>2. day \in Nat /\ rows \in Seq(RowShape) /\ Clock' = Clock
  BY <1>0, <1>1, DaysInOrder DEF Clock
<1>3. Amounts(rows, day, {}) = [i \in DOMAIN rows |-> IF i \in StartedSince(day)
                                                    THEN [j \in DOMAIN rows |-> rows[j].cost][i] ELSE 0]
  BY DEF Amounts, StartedSince
<1>4. AnalysesCostSince(day) = SpendOf(rows, day, {})
  BY <1>3 DEF AnalysesCostSince, SumCosts, SpendOf
<1>5. PICK h : h = Headroom[kind]
  OBVIOUS
<1>6. PICK out : out = callers'[c].missed
  OBVIOUS
<1>7. SpendOf(rows, day, out) <= SpendOf(rows, day, {})
  BY <1>2, SpendShrinks
<1>8. ASSUME backend # "ollama" PROVE SpendOf(rows, day, out) + h <= Budget
  <2>1. SpendOf(rows, day, {}) + h <= Budget
    BY <1>1, <1>4, <1>5, <1>8 DEF FitsBudget
  <2>2. SpendOf(rows, day, {}) \in Nat /\ SpendOf(rows, day, out) \in Nat /\ h \in Nat /\ Budget \in Nat
    BY <1>2, <1>5, SpendIs, AnalystConstants
  <2>3. QED
    BY <1>7, <2>1, <2>2
<1>9. QED
  BY <1>1, <1>2, <1>5, <1>6, <1>8 DEF Fitted

\* A run that ends has been missed by every request that read before.
LEMMA FittedEnds ==
  ASSUME Shapes, Shapes', Runs, AllFitted, Clock' >= Clock, backend' = backend, NEW i \in DOMAIN tasks, Release(i),
         rows' = rows \/ Finish(i), NEW c \in Callers
  PROVE  Fitted(c)'
<1>1. /\ i \in Nat /\ i \in DOMAIN rows /\ callers \in [Callers -> CallerShape] /\ rows \in Seq(RowShape)
      /\ rows' \in Seq(RowShape) /\ DOMAIN rows = 1..Len(rows) /\ Len(rows) \in Nat
  BY TasksAreNat, LenProperties DEF Shapes
<1>2. /\ callers'[c].at = callers[c].at /\ callers'[c].kind = callers[c].kind
      /\ callers[c].at = "fits" => callers'[c].missed = callers[c].missed \cup {i}
  BY <1>1, OneEnds
<1>3. callers[c].at # "insert"
  BY DEF Runs, LatchIsTheRun, Inserting
<1>4. CASE callers[c].at = "fits"
  <2>1. /\ Len(rows') = Len(rows)
        /\ \A j \in DOMAIN rows : /\ rows'[j].started = rows[j].started
                                  /\ j # i => rows'[j].cost = rows[j].cost
    <3>1. CASE Finish(i)
      <4> DEFINE status == IF tasks[i].error THEN "error" ELSE "done"
                 cost == BillsOf(tasks[i].used)
      <4>1. status \in {"done", "error"} /\ cost \in Nat
        BY BillsAreNat DEF TaskShape, Shapes
      <4>2. rows' = [rows EXCEPT ![i].status = status, ![i].cost = cost]
        BY <3>1 DEF Finish
      <4> HIDE DEF status, cost
      <4>3. QED
        BY <1>1, <4>1, <4>2, RecordedRow
    <3>2. QED
      BY <3>1
  <2>2. PICK out, more : out = callers[c].missed /\ more = callers'[c].missed
    OBVIOUS
  <2>3. (\A j \in out : j \in more) /\ \A j \in DOMAIN rows : j \notin more => j # i
    BY <1>2, <1>4, <2>2
  <2>4. /\ NyDayStart(Clock) \in Nat /\ NyDayStart(Clock') \in Nat
        /\ NyDayStart(Clock') >= NyDayStart(Clock)
    BY ClockIsNat, ClockIsNext, DaysInOrder DEF Shapes
  <2>5. SpendOf(rows', NyDayStart(Clock'), more) <= SpendOf(rows, NyDayStart(Clock), out)
    BY <1>1, <2>1, <2>3, <2>4, SpendShrinks
  <2>6. Fitted(c) /\ callers[c].at \in Reading
    BY <1>4 DEF AllFitted, Reading
  <2>7. QED
    BY <1>2, <2>2, <2>5, <2>6, FittedStays
<1>5. CASE callers[c].at # "fits"
  BY <1>2, <1>3, <1>5 DEF Fitted, Reading
<1>6. QED
  BY <1>4, <1>5

\* Every step keeps what a request knows of the day's spend.
LEMMA FittedStep ==
  ASSUME IInv, Shapes', AllFitted, [Next]_vars
  PROVE  AllFitted'
<1>a. /\ Shapes /\ Runs /\ callers \in [Callers -> CallerShape] /\ Scheduler \in Callers
      /\ Idle.at \notin Reading /\ Clock' >= Clock
  BY ClockGrows DEF IInv, Shapes, Callers, Idle, Reading
\* Steps that let the rows be and move one request, which fits by itself or no longer asks.
<1>b. ASSUME NEW c \in Callers, NEW x, callers' = [callers EXCEPT ![c] = x], UNCHANGED <<rows, now, backend>>, Fitted(c)'
      PROVE  AllFitted'
  <2>1. ASSUME NEW d \in Callers, d # c PROVE Fitted(d)'
    <3>1. callers'[d] = callers[d]
      BY <1>a, <1>b, <2>1
    <3>2. QED
      BY <1>a, <1>b, <3>1, FittedAside DEF AllFitted
  <2>2. QED
    BY <1>b, <2>1 DEF AllFitted
<1>c. ASSUME NEW c \in Callers, NEW x, callers' = [callers EXCEPT ![c] = x], UNCHANGED <<rows, now, backend>>,
             x.at \notin Reading
      PROVE  AllFitted'
  <2>1. callers'[c] = x
    BY <1>a, <1>c
  <2>2. Fitted(c)'
    BY <1>c, <2>1 DEF Fitted
  <2>3. QED
    BY <1>b, <1>c, <2>2
<1>1. ASSUME NEW c \in Callers, NEW kind \in UserKinds, Request(c, kind) PROVE AllFitted'
  <2>1. /\ UNCHANGED <<rows, now, backend>> /\ FitsBudget(kind)
        /\ callers' = [callers EXCEPT ![c] = [Idle EXCEPT !.at = "fits", !.kind = kind]]
    BY <1>1 DEF Request, env
  <2>2. callers'[c].kind = kind /\ kind \in DOMAIN Headroom
    BY <1>a, <2>1, AnalystConstants DEF Idle
  <2>3. Fitted(c)'
    BY <1>a, <2>1, <2>2, FittedNow
  <2>4. QED
    BY <1>b, <2>1, <2>3
<1>2. ASSUME ReadBudget PROVE AllFitted'
  <2>1. /\ UNCHANGED <<rows, now, backend>> /\ callers[Scheduler].at = "asked"
        /\ callers' = [callers EXCEPT ![Scheduler] =
                        IF FitsBudget(callers[Scheduler].kind)
                        THEN [callers[Scheduler] EXCEPT !.at = "fits"] ELSE Idle]
    BY <1>2, <1>a DEF ReadBudget, env
  <2>2. callers[Scheduler].kind \in DOMAIN Headroom
    BY <2>1, AnalystConstants DEF IInv, Schedule
  <2>3. CASE FitsBudget(callers[Scheduler].kind)
    <3>1. callers' = [callers EXCEPT ![Scheduler] = [callers[Scheduler] EXCEPT !.at = "fits"]]
      BY <2>1, <2>3
    <3>2. callers'[Scheduler].kind = callers[Scheduler].kind
      BY <1>a, <3>1 DEF CallerShape
    <3>3. Fitted(Scheduler)'
      BY <1>a, <2>1, <2>2, <2>3, <3>2, FittedNow
    <3>4. QED
      BY <1>a, <1>b, <2>1, <3>1, <3>3
  <2>4. CASE ~ FitsBudget(callers[Scheduler].kind)
    <3>1. callers' = [callers EXCEPT ![Scheduler] = Idle]
      BY <2>1, <2>4
    <3>2. QED
      BY <1>a, <1>c, <2>1, <3>1
  <2>5. QED
    BY <2>3, <2>4
<1>3. ASSUME NEW kind \in {"briefing", "weekly_review"}, Tick(kind) PROVE AllFitted'
  <2>1. /\ UNCHANGED <<rows, now, backend>>
        /\ callers' = [callers EXCEPT ![Scheduler] = [Idle EXCEPT !.at = "asked", !.kind = kind]]
    BY <1>3 DEF Tick, env
  <2>2. [Idle EXCEPT !.at = "asked", !.kind = kind].at \notin Reading
    BY DEF Idle, Reading
  <2>3. QED
    BY <1>a, <1>c, <2>1, <2>2
<1>4. ASSUME NEW c \in Callers, TakeLatch(c) PROVE AllFitted'
  <2>1. /\ UNCHANGED <<rows, now, backend>> /\ callers[c].at = "fits" /\ callers[c] \in CallerShape
        /\ callers' = [callers EXCEPT ![c] = [callers[c] EXCEPT !.at = "insert"]]
    BY <1>4, <1>a DEF TakeLatch, env
  <2>2. callers'[c].kind = callers[c].kind /\ callers'[c].missed = callers[c].missed /\ callers[c].at \in Reading
    BY <1>a, <2>1 DEF CallerShape, Reading
  <2>3. Fitted(c)'
    BY <1>a, <2>1, <2>2, FittedAside DEF AllFitted
  <2>4. QED
    BY <1>b, <2>1, <2>3
<1>5. ASSUME NEW c \in Callers, Leaves(c) PROVE AllFitted'
  <2>1. callers' = [callers EXCEPT ![c] = Idle] /\ UNCHANGED <<rows, now, backend>>
    BY <1>5, InsertsOrLeaves DEF env
  <2>2. QED
    BY <1>a, <1>c, <2>1
<1>6. ASSUME NEW c \in Callers, Inserts(c) PROVE AllFitted'
  <2>1. callers' = [callers EXCEPT ![c] = Idle] /\ UNCHANGED <<now, backend>> /\ Clock' = Clock
    BY <1>6, InsertsKeep DEF env, Clock
  <2>2. /\ Len(rows') = Len(rows) + 1 /\ rows'[Len(rows) + 1].cost = 0 /\ \A i \in DOMAIN rows : rows'[i] = rows[i]
        /\ rows \in Seq(RowShape) /\ rows' \in Seq(RowShape) /\ Clock \in Nat
    BY <1>6, <1>a, RowAdded, ClockIsNat DEF Inserts, Shapes
  <2>5. NyDayStart(Clock) \in Nat
    BY <2>2, DaysInOrder
  <2>3. ASSUME NEW d \in Callers PROVE Fitted(d)'
    <3>1. CASE d = c
      <4>1. callers'[d] = Idle
        BY <1>a, <2>1, <3>1
      <4>2. QED
        BY <1>a, <4>1 DEF Fitted
    <3>2. CASE d # c /\ callers[d].at \in Reading
      <4>1. callers'[d] = callers[d]
        BY <1>a, <2>1, <3>2
      <4>2. SpendOf(rows', NyDayStart(Clock), callers[d].missed) = SpendOf(rows, NyDayStart(Clock), callers[d].missed)
        BY <2>2, <2>5, SpendOfOneMore
      <4>3. SpendOf(rows, NyDayStart(Clock), callers[d].missed) \in Nat
        BY <2>2, <2>5, SpendIs
      <4>4. SpendOf(rows', NyDayStart(Clock'), callers'[d].missed) <= SpendOf(rows, NyDayStart(Clock), callers[d].missed)
        BY <2>1, <4>1, <4>2, <4>3
      <4>5. QED
        BY <1>a, <2>1, <3>2, <4>1, <4>4, FittedStays DEF AllFitted
    <3>3. CASE d # c /\ callers[d].at \notin Reading
      <4>1. callers'[d] = callers[d]
        BY <1>a, <2>1, <3>3
      <4>2. QED
        BY <3>3, <4>1 DEF Fitted
    <3>4. QED
      BY <3>1, <3>2, <3>3
  <2>4. QED
    BY <2>3 DEF AllFitted
<1>7. ASSUME UNCHANGED callers, backend' = backend, rows' = rows PROVE AllFitted'
  BY <1>a, <1>7, FittedAside DEF AllFitted
<1>8. ASSUME Crash PROVE AllFitted'
  <2>1. ASSUME NEW d \in Callers PROVE Fitted(d)'
    <3>1. callers'[d] = Idle
      BY <1>8 DEF Crash
    <3>2. QED
      BY <1>a, <3>1 DEF Fitted
  <2>2. QED
    BY <2>1 DEF AllFitted
<1>9. CASE \E i \in DOMAIN tasks : Work(i) \/ Panic(i)
  <2>1. PICK i \in DOMAIN tasks : Work(i) \/ Panic(i)
    BY <1>9
  <2>2. backend' = backend /\ (rows' = rows \/ Finish(i)) /\ (Release(i) \/ (UNCHANGED callers /\ rows' = rows))
    BY <2>1, WorkStays, WorkKeeps
  <2>3. CASE Release(i)
    <3>1. ASSUME NEW d \in Callers PROVE Fitted(d)'
      BY <1>a, <2>2, <2>3, FittedEnds
    <3>2. QED
      BY <3>1 DEF AllFitted
  <2>4. CASE UNCHANGED callers /\ rows' = rows
    BY <1>7, <2>2, <2>4
  <2>5. QED
    BY <2>2, <2>3, <2>4
<1>10. ASSUME \A c \in Callers : ~ Inserts(c), \A i \in DOMAIN tasks : ~ (Work(i) \/ Panic(i))
       PROVE  AllFitted'
  <2>1. rows' = rows /\ (backend' = backend \/ Crash)
    BY <1>10, OthersKeep, OthersStay
  <2>2. \/ UNCHANGED callers \/ ReadBudget \/ Crash
        \/ \E c \in Callers : TakeLatch(c) \/ Leaves(c) \/ \E kind \in UserKinds : Request(c, kind)
        \/ \E kind \in {"briefing", "weekly_review"} : Tick(kind)
    BY <1>10, OthersKeep
  <2>3. ASSUME UNCHANGED callers, ~ Crash PROVE AllFitted'
    BY <1>7, <2>1, <2>3
  <2>4. QED
    BY <1>1, <1>2, <1>3, <1>4, <1>5, <1>8, <2>2, <2>3
<1>11. QED
  BY <1>6, <1>9, <1>10

\* A row is inserted within the day's room: no job runs then, so every row that was not lost costs
\* what the replies that were read billed.
LEMMA InsertFits ==
  ASSUME Shapes, Runs, AllFitted, NEW c \in Callers, callers[c].at = "insert", backend # "ollama"
  PROVE  SumCosts(StartedSince(NyDayStart(Clock)) \ (lost \cup callers[c].missed),
                  [i \in DOMAIN rows |-> billed[i] - unread[i]]) + Headroom[callers[c].kind] <= Budget
<1>1. PICK day, out, h : day = NyDayStart(Clock) /\ out = callers[c].missed /\ h = Headroom[callers[c].kind]
  OBVIOUS
<1>2. SpendOf(rows, day, out) + h <= Budget /\ h \in Nat /\ Budget \in Nat
  BY <1>1, AnalystConstants DEF AllFitted, Fitted, Reading
<1>3. /\ rows \in Seq(RowShape) /\ day \in Nat /\ Len(rows) \in Nat /\ DOMAIN rows = 1..Len(rows)
      /\ \A i \in DOMAIN rows : rows[i] \in RowShape /\ billed[i] \in Nat /\ unread[i] \in Nat
  <2>1. /\ rows \in Seq(RowShape) /\ billed \in Seq(Nat) /\ unread \in Seq(Nat)
        /\ Len(billed) = Len(rows) /\ Len(unread) = Len(rows) /\ Clock \in Nat
    BY ClockIsNat DEF Shapes, TypeOK
  <2>2. DOMAIN rows = 1..Len(rows) /\ Len(rows) \in Nat
    BY <2>1, LenProperties
  <2>3. day \in Nat
    BY <1>1, <2>1, DaysInOrder
  <2>4. \A i \in DOMAIN rows : rows[i] \in RowShape /\ billed[i] \in Nat /\ unread[i] \in Nat
    BY <2>1, <2>2, ElementOfSeq
  <2>5. QED
    BY <2>1, <2>2, <2>3, <2>4
<1>4. ASSUME NEW i \in DOMAIN rows, i \notin lost PROVE billed[i] - unread[i] = rows[i].cost
  <2>1. DOMAIN tasks = {}
    BY DEF Runs, LatchIsTheRun, Inserting
  <2>2. rows[i].status # "running"
    BY <1>4, <2>1 DEF Runs, LatchIsTheRun
  <2>3. rows[i].cost + unread[i] = billed[i] /\ rows[i].cost \in Nat
    BY <1>3, <2>2 DEF Runs, BilledIsRecorded, RowShape
  <2>4. QED
    BY <1>3, <2>3
<1> DEFINE ids == StartedSince(day) \ (lost \cup out)
           read == [i \in DOMAIN rows |-> billed[i] - unread[i]]
           real == [i \in DOMAIN rows |-> IF i \in ids THEN read[i] ELSE 0]
<1>5. PICK amounts : amounts = Amounts(rows, day, out)
  OBVIOUS
<1>6. \A i \in 1..Len(rows) : /\ amounts[i] \in Nat
                              /\ amounts[i] = IF rows[i].started >= day /\ i \notin out THEN rows[i].cost ELSE 0
  BY <1>3, <1>5, SpendIs
<1>7. ASSUME NEW i \in 1..Len(rows)
      PROVE  real[i] \in Nat /\ amounts[i] \in Nat /\ real[i] <= amounts[i]
  <2>1. CASE i \in ids
    <3>1. i \notin lost /\ rows[i].started >= day /\ i \notin out
      BY <2>1 DEF StartedSince
    <3>2. real[i] = rows[i].cost
      BY <1>3, <1>4, <2>1, <3>1
    <3>3. amounts[i] = rows[i].cost
      BY <1>6, <3>1
    <3>4. QED
      BY <1>6, <3>2, <3>3
  <2>2. CASE i \notin ids
    <3>1. real[i] = 0
      BY <1>3, <2>2
    <3>2. QED
      BY <1>6, <3>1
  <2>3. QED
    BY <2>1, <2>2
<1>8. SumCosts(ids, read) = Total(real, Len(rows))
  BY DEF SumCosts
<1> HIDE DEF real, read, ids
<1>9. Total(real, Len(rows)) \in Nat /\ Total(real, Len(rows)) <= Total(amounts, Len(rows))
  BY <1>3, <1>7, TotalGrows
<1>10. SpendOf(rows, day, out) = Total(amounts, Len(rows)) /\ SpendOf(rows, day, out) \in Nat
  BY <1>3, <1>5, SpendIs DEF SpendOf
<1>11. SumCosts(ids, read) + h <= Budget
  BY <1>2, <1>8, <1>9, <1>10
<1>12. QED
  BY <1>1, <1>11 DEF ids, read

\* No run starts unless what the day's recorded runs billed in the replies that were read leaves room
\* for its worst case, though the budget is read in one step and the latch taken in a later one: all
\* it can overlook is a run that ended in between.
THEOREM StartsWithinBudgetHolds ==
  Spec => StartsWithinBudget
<1>1. Init => AllFitted
  BY DEF Init, AllFitted, Fitted, Idle, Reading
<1>2. IInv /\ AllFitted /\ [Next]_vars
        => [\A c \in Callers :
              (Len(rows') > Len(rows) /\ rows'[Len(rows')].by = c /\ backend # "ollama")
              => SumCosts(StartedSince(NyDayStart(Clock)) \ (lost \cup callers[c].missed),
                          [i \in DOMAIN rows |-> billed[i] - unread[i]]) + Headroom[callers[c].kind]
                   <= Budget]_vars
  <2> SUFFICES ASSUME IInv, AllFitted, [Next]_vars, NEW c \in Callers, Len(rows') > Len(rows),
                      rows'[Len(rows')].by = c, backend # "ollama"
               PROVE  SumCosts(StartedSince(NyDayStart(Clock)) \ (lost \cup callers[c].missed),
                               [i \in DOMAIN rows |-> billed[i] - unread[i]]) + Headroom[callers[c].kind]
                        <= Budget
    OBVIOUS
  <2>1. Shapes /\ Runs /\ rows \in Seq(RowShape) /\ Len(rows) \in Nat /\ DOMAIN rows = 1..Len(rows)
    BY LenProperties DEF IInv, Shapes
  <2>2. PICK d \in Callers : Inserts(d)
    <3>1. ASSUME \A d \in Callers : ~ Inserts(d) PROVE FALSE
      <4>1. DOMAIN rows' = DOMAIN rows
        BY <2>1, <3>1, RowsKept DEF RowsStay
      <4>2. Shapes'
        BY <2>1, ShapesStep
      <4>3. DOMAIN rows' = 1..Len(rows') /\ Len(rows') \in Nat
        BY <4>2, LenProperties DEF Shapes
      <4>4. Len(rows') \in DOMAIN rows' /\ Len(rows') \notin DOMAIN rows
        BY <2>1, <4>3
      <4>5. QED
        BY <4>1, <4>4
    <3>2. QED
      BY <3>1
  <2>3. d = c
    <3>1. Len(rows') = Len(rows) + 1 /\ rows'[Len(rows) + 1] = NewRow(callers[d].kind, d)
      BY <2>1, <2>2, RowAdded DEF Inserts
    <3>2. QED
      BY <3>1 DEF NewRow
  <2>4. callers[c].at = "insert"
    BY <2>2, <2>3 DEF Inserts
  <2>5. QED
    BY <2>1, <2>4, InsertFits
<1>3. IInv /\ AllFitted /\ [Next]_vars => AllFitted'
  BY ShapesStep, FittedStep DEF IInv
<1>4. QED
  BY <1>1, <1>2, <1>3, Invariant, PTL DEF Spec, StartsWithinBudget

-----------------------------------------------------------------------------
(* The screen, for all signals.                                             *)
Signals == [rsi : Int, v50 : Int, v200 : Int, dd : Int]

(* The thresholds of Aggressiveness move one way with the level.           *)
LEMMA Thresholds ==
  ASSUME NEW l \in Levels, NEW k \in Levels, Rank[l] <= Rank[k]
  PROVE  /\ BuyRsi[l] \in Int /\ BuyRsi[k] \in Int /\ BuyRsi[l] <= BuyRsi[k]
         /\ SellRsi[l] \in Int /\ SellRsi[k] \in Int /\ SellRsi[l] >= SellRsi[k]
         /\ ExtendedPct[l] \in Int /\ ExtendedPct[k] \in Int
         /\ ExtendedPct[l] >= ExtendedPct[k]
         /\ MomentumOk(l) => MomentumOk(k)
  <1>1. CASE l = "conservative"
    BY <1>1 DEF Levels, Rank, BuyRsi, SellRsi, ExtendedPct, MomentumOk
  <1>2. CASE l = "balanced"
    BY <1>2 DEF Levels, Rank, BuyRsi, SellRsi, ExtendedPct, MomentumOk
  <1>3. CASE l = "aggressive"
    BY <1>3 DEF Levels, Rank, BuyRsi, SellRsi, ExtendedPct, MomentumOk
  <1> QED BY <1>1, <1>2, <1>3 DEF Levels

(* Neither side's score falls when the level rises: the fixed momentum cap *)
(* of screen is what this needs.                                           *)
LEMMA BuyScoreGrows ==
  ASSUME NEW s \in Signals, NEW l \in Levels, NEW k \in Levels, Rank[l] <= Rank[k]
  PROVE  BuyScore(s, l) \in Int /\ BuyScore(s, k) \in Int /\ BuyScore(s, l) <= BuyScore(s, k)
  <1> DEFINE low(m) == Points(Has(s.rsi) /\ s.rsi < BuyRsi[m], BuyRsi[m] - s.rsi)
             dip == Points(Has(s.v50) /\ Has(s.v200) /\ s.v50 < 0 /\ s.v200 > 0,
                           Least(-s.v50, 20))
             mom(m) == Points(/\ MomentumOk(m) /\ Has(s.v50) /\ Has(s.v200) /\ Has(s.rsi)
                              /\ s.v50 > 0 /\ s.v200 > 0 /\ s.rsi >= 50
                              /\ s.rsi < MomentumRsiCap(m), 6)
  <1>1. low(l) \in Int /\ low(k) \in Int /\ low(l) <= low(k)
    BY Thresholds DEF Points, Signals
  <1>2. dip \in Int
    BY DEF Points, Least, Signals
  <1>3. mom(l) \in Int /\ mom(k) \in Int /\ mom(l) <= mom(k)
    BY Thresholds DEF Points, MomentumRsiCap
  <1>4. BuyScore(s, l) = low(l) + dip + mom(l) /\ BuyScore(s, k) = low(k) + dip + mom(k)
    BY DEF BuyScore
  <1> HIDE DEF low, dip, mom
  <1> QED BY <1>1, <1>2, <1>3, <1>4

(* Nor does the other side's.                                              *)
LEMMA SellScoreGrows ==
  ASSUME NEW s \in Signals, NEW l \in Levels, NEW k \in Levels, Rank[l] <= Rank[k]
  PROVE  SellScore(s, l) \in Int /\ SellScore(s, k) \in Int /\ SellScore(s, l) <= SellScore(s, k)
  <1> DEFINE high(m) == Points(Has(s.rsi) /\ s.rsi > SellRsi[m], s.rsi - SellRsi[m])
             ext(m) == Points(Has(s.v50) /\ s.v50 > ExtendedPct[m], s.v50 - ExtendedPct[m])
             down == Points(Has(s.v50) /\ Has(s.v200) /\ s.v50 < 0 /\ s.v200 < -10,
                            -s.v200 - 10)
             deep == IF Has(s.dd) /\ Has(s.v200) /\ s.dd >= 30 /\ s.v200 < 0
                     THEN s.dd - 30 ELSE 0
  <1>1. high(l) \in Int /\ high(k) \in Int /\ high(l) <= high(k)
    BY Thresholds DEF Points, Signals
  <1>2. ext(l) \in Int /\ ext(k) \in Int /\ ext(l) <= ext(k)
    BY Thresholds DEF Points, Signals
  <1>3. down \in Int /\ deep \in Int
    BY DEF Points, Signals
  <1>4. /\ SellScore(s, l) = high(l) + ext(l) + down + deep
        /\ SellScore(s, k) = high(k) + ext(k) + down + deep
    BY DEF SellScore
  <1> HIDE DEF high, ext, down, deep
  <1> QED BY <1>1, <1>2, <1>3, <1>4

(* A symbol the screen surfaces at one level it surfaces at every more     *)
(* aggressive one, perhaps on the other side.                              *)
THEOREM LooserKeepsTheIdea ==
  ASSUME NEW s \in Signals, NEW l \in Levels, NEW k \in Levels, Rank[l] <= Rank[k],
         Screen(s, l) # "none"
  PROVE  Screen(s, k) # "none"
  <1>1. /\ BuyScore(s, l) \in Int /\ BuyScore(s, k) \in Int /\ BuyScore(s, l) <= BuyScore(s, k)
        /\ SellScore(s, l) \in Int /\ SellScore(s, k) \in Int
        /\ SellScore(s, l) <= SellScore(s, k)
    BY BuyScoreGrows, SellScoreGrows
  <1>2. BuyScore(s, l) >= MinScore \/ SellScore(s, l) >= MinScore
    BY <1>1 DEF Screen, MinScore
  <1>3. BuyScore(s, k) >= MinScore \/ SellScore(s, k) >= MinScore
    BY <1>1, <1>2 DEF MinScore
  <1> QED BY <1>1, <1>3 DEF Screen, MinScore

(* In an uptrend that is not extended, a buy at one level stays a buy at   *)
(* every more aggressive one: a momentum buy outweighs the most that an    *)
(* RSI under the cap can weigh on the sell side, where the cap and the     *)
(* sell thresholds of the levels overlap.                                  *)
THEOREM RsiAloneNeverFlips ==
  ASSUME NEW s \in Signals, NEW l \in Levels, NEW k \in Levels, Rank[l] <= Rank[k],
         Has(s.v50) => s.v50 >= 0 /\ s.v50 <= ExtendedPct[k],
         Has(s.v200) => s.v200 >= 0,
         Screen(s, l) = "buy"
  PROVE  Screen(s, k) = "buy"
  <1>1. /\ BuyScore(s, l) \in Int /\ BuyScore(s, k) \in Int /\ BuyScore(s, l) <= BuyScore(s, k)
        /\ BuyScore(s, l) >= MinScore
    BY BuyScoreGrows DEF Screen, MinScore
  <1>2. s.rsi \in Int /\ s.v50 \in Int /\ s.v200 \in Int
    BY DEF Signals
  <1>3. SellScore(s, k) = Points(Has(s.rsi) /\ s.rsi > SellRsi[k], s.rsi - SellRsi[k])
    <2>1. ~(Has(s.v50) /\ s.v50 > ExtendedPct[k])
      BY <1>2, Thresholds
    <2>2. ~(Has(s.v50) /\ s.v50 < 0) /\ ~(Has(s.v200) /\ s.v200 < 0)
      BY <1>2
    <2> QED BY <1>2, <2>1, <2>2, Thresholds DEF SellScore, Points
  <1>4. s.rsi < 68
    <2>1. SUFFICES ASSUME ~(s.rsi < 68) PROVE BuyScore(s, l) = 0
      BY <1>1, <1>2 DEF MinScore
    <2>2. BuyRsi[l] <= 45
      BY DEF BuyRsi, Levels
    <2> QED BY <1>2, <2>1, <2>2, Thresholds DEF BuyScore, Points, MomentumRsiCap
  <1>5. SellRsi[k] \in Int /\ SellRsi[k] >= 62
    BY DEF SellRsi, Levels
  <1>6. CASE s.rsi > SellRsi[k]
    <2>1. BuyRsi[k] <= 45 /\ BuyRsi[l] <= 45 /\ BuyRsi[k] \in Int /\ BuyRsi[l] \in Int
      BY DEF BuyRsi, Levels
    <2>2. BuyScore(s, k) >= 24
      <3>1. MomentumOk(l) /\ Has(s.v50) /\ Has(s.v200) /\ Has(s.rsi) /\ s.v50 > 0 /\ s.v200 > 0
        BY <1>1, <1>2, <1>5, <1>6, <2>1 DEF BuyScore, Points, MinScore
      <3> QED BY <1>2, <1>4, <1>5, <1>6, <2>1, <3>1, Thresholds
              DEF BuyScore, Points, MomentumRsiCap
    <2>3. SellScore(s, k) \in Int /\ SellScore(s, k) <= 20
      BY <1>2, <1>3, <1>4, <1>5 DEF Points
    <2> QED BY <1>1, <2>2, <2>3 DEF Screen, MinScore
  <1>7. CASE ~(s.rsi > SellRsi[k])
    <2>1. SellScore(s, k) = 0
      BY <1>3, <1>7 DEF Points
    <2> QED BY <1>1, <2>1 DEF Screen, MinScore
  <1> QED BY <1>6, <1>7
=============================================================================
