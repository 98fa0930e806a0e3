---------------------------- MODULE CandlesProofs ----------------------------
(***************************************************************************)
(* Theorems about the candle cache, for every calendar, listing, window    *)
(* and number of failures: its bars have no hole and only the newest may   *)
(* be provisional, and a cached equity curve is the one a rebuild gives.   *)
(* The argument for the bars: what a range adds joins them (JoinIsSound),  *)
(* because it reaches into them, and because whatever is cached reaches    *)
(* back as far as the window of today (Reach), so that a run which found   *)
(* the cache empty leaves no gap below what another stored meanwhile.      *)
(***************************************************************************)
EXTENDS Candles, SequenceTheorems, NaturalsInduction, WellFoundedInduction, TLAPS

(* The days the provider has a bar of.                                      *)
Trading(s) == {d \in Days \ Weekend : Listed[s] <= d}

(* Sound bars of a symbol: days of the past that leave no trading day out   *)
(* between two of them, reach back to the window of the day, and are final  *)
(* but for the newest.                                                      *)
PastDays(s, b) == DOMAIN b \subseteq {d \in Trading(s) : d <= today}

Convex(s, b) ==
  \A x, y \in DOMAIN b, d \in Trading(s) : x <= d /\ d <= y => d \in DOMAIN b

Reach(s, b) ==
  \A y \in DOMAIN b, d \in Trading(s) : today <= d + Window /\ d <= y => d \in DOMAIN b

Settled(b) == \A d, e \in DOMAIN b : ~b[d].final => e <= d

Sound(s, b) == PastDays(s, b) /\ Convex(s, b) /\ Reach(s, b) /\ Settled(b)

Bars == UNION {[D -> [final : BOOLEAN]] : D \in SUBSET Days}

(* A range that joins the cached days D, computed on the day now.           *)
Fits(D, r, now) ==
  /\ r[2] <= now
  /\ D = {} => r[1] + Window <= today
  /\ D # {} => /\ \E d \in D : r[1] <= d
               /\ r[2] = now \/ \E d \in D : d <= r[2]

-----------------------------------------------------------------------------
(* A set of numbers has a least ...                                         *)
LEMMA LeastOf ==
  ASSUME NEW S \in SUBSET Nat, S # {}
  PROVE  Min(S) \in S /\ \A n \in S : Min(S) <= n
<1>1. PICK m \in S : \A n \in S : ~ (<<n, m>> \in OpToRel(<, Nat))
  BY NatLessThanWellFounded, WFMin
<1>2. \A n \in S : ~ (n < m)
  BY <1>1 DEF OpToRel
<1>3. \A n \in S : m <= n
  BY <1>2
<1> QED BY <1>3 DEF Min

(* ... and below a bound a greatest: the least of its bounds.                *)
LEMMA GreatestOf ==
  ASSUME NEW S \in SUBSET Nat, S # {}, NEW b \in Nat, \A n \in S : n <= b
  PROVE  Max(S) \in S /\ \A n \in S : n <= Max(S)
<1> DEFINE U == {u \in Nat : \A n \in S : n <= u}
<1>1. U \in SUBSET Nat /\ U # {}
  OBVIOUS
<1> HIDE DEF U
<1>2. PICK m \in U : \A u \in U : m <= u
  BY <1>1, LeastOf
<1>3. m \in Nat /\ \A n \in S : n <= m
  BY <1>2 DEF U
<1>4. m \in S
  <2> SUFFICES ASSUME m \notin S PROVE FALSE
    OBVIOUS
  <2>1. \A n \in S : n < m
    BY <1>3
  <2>a. PICK n \in S : TRUE
    OBVIOUS
  <2>b. m - 1 \in Nat
    BY <1>3, <2>1, <2>a
  <2>2. m - 1 \in Nat /\ \A k \in S : k <= m - 1
    BY <1>3, <2>1, <2>b
  <2>3. m - 1 \in U
    BY <2>2 DEF U
  <2> QED BY <1>2, <1>3, <2>3
<1>5. \E x \in S : \A y \in S : x >= y
  BY <1>3, <1>4
<1> QED BY <1>5 DEF Max

(* The ranges of a backfill join the bars there are.                         *)
LEMMA RangesFit ==
  ASSUME NEW D \in SUBSET Days, NEW from \in Nat, NEW now \in Nat, NEW tried \in Nat,
         today \in Nat, from + Window <= today,
         NEW ranges, ranges = BackfillRanges(from, D, now, tried)
  PROVE  /\ ranges \in Seq({r \in Int \X Int : Fits(D, r, now)})
         /\ Len(ranges) <= IF D = {} THEN 1 ELSE 2
<1> DEFINE P == {r \in Int \X Int : Fits(D, r, now)}
<1>1. CASE D = {}
  <2>1. <<from, now>> \in P
    BY <1>1, CandleConstants DEF Fits
  <2> HIDE DEF P
  <2>2. << <<from, now>> >> \in Seq(P) /\ Len(<< <<from, now>> >>) = 1
    BY <2>1
  <2>3. <<>> \in Seq(P) /\ Len(<<>>) = 0
    OBVIOUS
  <2>4. ranges = << <<from, now>> >> \/ ranges = <<>>
    BY <1>1 DEF BackfillRanges
  <2>5. ranges \in Seq(P) /\ Len(ranges) <= 1
    <3>1. CASE ranges = << <<from, now>> >>
      BY <2>2, <3>1
    <3>2. CASE ranges = <<>>
      BY <2>3, <3>2
    <3> QED BY <2>4, <3>1, <3>2
  <2> QED BY <1>1, <2>5 DEF P
<1>2. CASE D # {}
  <2> DEFINE low == Min(D)
             high == Max(D)
             tail == <<high - Overlap, now>>
             head == <<from, Lesser(low + Overlap, now)>>
             A == IF high - Overlap < now THEN <<tail>> ELSE <<>>
             B == IF from < low /\ (tried = 0 \/ from < tried) THEN <<head>> ELSE <<>>
  <2>a. D \in SUBSET Nat /\ LastDay \in Nat /\ \A d \in D : d <= LastDay
    BY CandleConstants DEF Days
  <2>1. low \in D /\ high \in D /\ low \in Nat /\ high \in Nat /\ Overlap \in Nat
    BY <1>2, <2>a, LeastOf, GreatestOf, CandleConstants
  <2>2. tail \in P
    BY <1>2, <2>1 DEF Fits
  <2>3. from < low => head \in P
    BY <1>2, <2>1 DEF Fits, Lesser
  <2>4. ranges = A \o B
    BY <1>2 DEF BackfillRanges
  <2> HIDE DEF P, tail, head
  <2>5. A \in Seq(P) /\ Len(A) <= 1
    BY <2>2
  <2>6. B \in Seq(P) /\ Len(B) <= 1
    BY <2>3
  <2> HIDE DEF A, B
  <2>7. A \o B \in Seq(P) /\ Len(A \o B) = Len(A) + Len(B)
    BY <2>5, <2>6
  <2> QED BY <1>2, <2>4, <2>5, <2>6, <2>7 DEF P
<1> QED BY <1>1, <1>2

(* What the provider answers to such a range joins the bars there are.       *)
LEMMA JoinIsSound ==
  ASSUME today \in FirstDay .. LastDay, closed \in BOOLEAN,
         NEW s \in Symbols, NEW b \in Bars, Sound(s, b),
         NEW now \in Nat, now <= today, today <= now + Window,
         NEW r \in Int \X Int, Fits(DOMAIN b, r, now)
  PROVE  Sound(s, UpsertCandles(b, Provided(s, r)))
<1> DEFINE D == DOMAIN b
           g == Provided(s, r)
           G == {d \in Trading(s) : r[1] <= d /\ d <= r[2]}
           u == UpsertCandles(b, g)
           lo == r[1]
           hi == r[2]
<1>1. /\ today \in Nat /\ Window \in Nat /\ LastDay \in Nat /\ Listed[s] \in Nat
      /\ lo \in Int /\ hi \in Int /\ hi <= now
  BY CandleConstants DEF Fits
<1>2. \A d \in Trading(s) : d \in Nat /\ Listed[s] <= d
  BY <1>1 DEF Trading, Days
<1>3. DOMAIN g = G /\ \A d \in G : g[d].final = (d < today \/ closed)
  BY <1>1, <1>2 DEF Provided, Trading
<1>4. DOMAIN u = D \union G /\ \A d \in D \union G : u[d] = IF d \in G THEN g[d] ELSE b[d]
  BY <1>3 DEF UpsertCandles
<1>5. /\ D \subseteq {d \in Trading(s) : d <= today}
      /\ \A x, y \in D, d \in Trading(s) : x <= d /\ d <= y => d \in D
      /\ \A y \in D, d \in Trading(s) : today <= d + Window /\ d <= y => d \in D
      /\ \A d, e \in D : ~b[d].final => e <= d
  BY DEF Sound, PastDays, Convex, Reach, Settled
<1>6. \A d \in Trading(s) : d \in G <=> lo <= d /\ d <= hi
  OBVIOUS
<1>7. G \subseteq Trading(s) /\ D \subseteq Trading(s)
  BY <1>5
<1>8. D = {} => lo + Window <= today
  BY DEF Fits
<1>9. D # {} => (\E d \in D : lo <= d) /\ (hi = now \/ \E d \in D : d <= hi)
  BY DEF Fits
<1> HIDE DEF D, g, G, u, lo, hi
<1>10. PastDays(s, u)
  <2>1. \A d \in G : d <= today
    BY <1>1, <1>2, <1>6, <1>7
  <2> QED BY <1>4, <1>5, <1>7, <2>1 DEF PastDays
<1>11. ASSUME NEW y \in D \union G, NEW d \in Trading(s), today <= d + Window, d <= y
       PROVE  d \in D \union G
  <2>1. CASE y \in D
    BY <1>5, <1>11, <2>1
  <2>2. CASE y \in G
    <3>1. d <= hi
      BY <1>1, <1>2, <1>6, <1>7, <1>11, <2>2
    <3>2. CASE D = {}
      BY <1>1, <1>2, <1>6, <1>8, <1>11, <3>1, <3>2
    <3>3. CASE D # {}
      BY <1>1, <1>2, <1>5, <1>6, <1>7, <1>9, <1>11, <3>1, <3>3
    <3> QED BY <3>2, <3>3
  <2> QED BY <1>11, <2>1, <2>2
<1>12. ASSUME NEW x \in D \union G, NEW y \in D \union G, NEW d \in Trading(s), x <= d, d <= y
       PROVE  d \in D \union G
  <2>1. CASE x \in D /\ y \in D
    BY <1>5, <1>12, <2>1
  <2>2. CASE x \in G /\ y \in G
    BY <1>1, <1>2, <1>6, <1>7, <1>12, <2>2
  <2>3. CASE x \in D /\ y \in G
    <3>1. d <= hi /\ D # {}
      BY <1>1, <1>2, <1>6, <1>7, <1>12, <2>3
    <3>2. PICK z \in D : lo <= z
      BY <1>9, <3>1
    <3>3. CASE lo <= d
      BY <1>6, <3>1, <3>3
    <3>4. CASE ~(lo <= d)
      BY <1>1, <1>2, <1>5, <1>7, <1>12, <2>3, <3>2, <3>4
    <3> QED BY <3>3, <3>4
  <2>4. CASE x \in G /\ y \in D
    <3>1. lo <= d /\ D # {}
      BY <1>1, <1>2, <1>6, <1>7, <1>12, <2>4
    <3>2. CASE d <= hi
      BY <1>6, <3>1, <3>2
    <3>3. CASE ~(d <= hi) /\ hi = now
      BY <1>1, <1>2, <1>5, <1>12, <2>4, <3>3
    <3>4. ASSUME ~(d <= hi), NEW z \in D, z <= hi PROVE d \in D
      BY <1>1, <1>2, <1>5, <1>7, <1>12, <2>4, <3>4
    <3> QED BY <1>9, <3>1, <3>2, <3>3, <3>4
  <2> QED BY <1>12, <2>1, <2>2, <2>3, <2>4
<1>13. ASSUME NEW d \in D \union G, NEW e \in D \union G, ~u[d].final PROVE e <= d
  <2>1. CASE d \in G
    <3>1. ~(d < today)
      BY <1>3, <1>4, <1>13, <2>1
    <3>2. e <= today /\ d \in Nat
      BY <1>2, <1>4, <1>7, <1>10, <2>1 DEF PastDays
    <3>3. e \in Nat
      BY <1>2, <1>7
    <3> QED BY <1>1, <3>1, <3>2, <3>3
  <2>2. CASE d \in D /\ d \notin G
    <3>1. \A x \in D : x <= d
      BY <1>4, <1>5, <1>13, <2>2
    <3>2. CASE e \in D
      BY <3>1, <3>2
    <3>3. CASE e \in G /\ ~(e <= d)
      <4>1. lo <= d
        BY <1>1, <1>2, <1>7, <1>9, <2>2, <3>1
      <4>2. d <= hi
        BY <1>1, <1>2, <1>6, <1>7, <2>2, <3>3
      <4> QED BY <1>6, <1>7, <2>2, <4>1, <4>2
    <3> QED BY <3>2, <3>3
  <2> QED BY <2>1, <2>2
<1> QED
  BY <1>4, <1>10, <1>11, <1>12, <1>13 DEF Sound, Convex, Reach, Settled, u, g
-----------------------------------------------------------------------------
Runs == [at : {"idle", "next", "fetch", "store", "eod"}, from : Nat, today : Nat,
         todo : SUBSET Symbols, sym : Nat, ranges : Seq(Int \X Int), back : BOOLEAN,
         got : Bars, fetched : BOOLEAN]

Locked(t) == run[t].at \in {"fetch", "store"}

Shapes ==
  /\ today \in FirstDay .. LastDay /\ closed \in BOOLEAN
  /\ log \in [Modes -> SUBSET [sym : Symbols \union {Cash}, day : Nat]]
  /\ \A m \in Modes : \A x \in log[m] : Lead < x.day
  /\ bars \in [Symbols -> Bars]
  /\ floor \in [Symbols -> Nat]
  /\ \A m \in Modes : DOMAIN snaps[m] \subseteq FirstDay .. LastDay
  /\ run \in [Tasks -> Runs]
  /\ lock \in Tasks \union {Nobody}
  /\ \A t \in Tasks : lock = t <=> Locked(t)

(* What a task holds: ranges that join the bars of its symbol, and an       *)
(* answer that makes them no less sound; when the cache is empty there is   *)
(* one range.                                                               *)
Fitting(t) == {r \in Int \X Int : Fits(CachedDays(run[t].sym), r, run[t].today)}

Room(t) ==
  (IF CachedDays(run[t].sym) = {} THEN 1 ELSE 2) - (IF run[t].at = "store" THEN 1 ELSE 0)

TaskSound(t) ==
  /\ Running(t) => /\ run[t].today <= today /\ today <= run[t].today + Window
                   /\ run[t].from + Window <= run[t].today
  /\ ~Locked(t) => run[t].ranges = <<>>
  /\ Locked(t) => /\ run[t].sym \in Symbols
                  /\ run[t].ranges \in Seq(Fitting(t))
                  /\ Len(run[t].ranges) <= Room(t)
  /\ run[t].at = "store" => Sound(run[t].sym, UpsertCandles(bars[run[t].sym], run[t].got))

CInv ==
  /\ Shapes
  /\ \A s \in Symbols : Sound(s, bars[s])
  /\ \A t \in Tasks : TaskSound(t)

(* No bars are bars, and the only ones without a day.                       *)
LEMMA NoBars ==
  /\ << >> \in Bars
  /\ \A b \in Bars : DOMAIN b = {} => b = << >>
<1>1. << >> \in [{} -> [final : BOOLEAN]]
  OBVIOUS
<1>2. ASSUME NEW b \in Bars, DOMAIN b = {} PROVE b = << >>
  BY <1>2 DEF Bars
<1> QED BY <1>1, <1>2 DEF Bars

(* An idle task is one.                                                     *)
LEMMA IdleIsRun ==
  /\ Idle \in Runs /\ Idle.at = "idle" /\ Idle.ranges = <<>>
  /\ \A t \in Tasks : /\ Returned(t) \in Runs /\ Returned(t).at \in {"idle", "eod"}
                      /\ Returned(t).ranges = <<>>
<1>1. << >> \in Seq(Int \X Int) /\ 0 \in Nat
  OBVIOUS
<1>2. Idle \in Runs /\ Idle.at = "idle" /\ Idle.ranges = <<>>
  BY <1>1, NoBars DEF Idle, Runs
<1>3. ASSUME NEW place \in {"idle", "eod"}
      PROVE  LET r == [Idle EXCEPT !.at = place]
             IN  r \in Runs /\ r.at = place /\ r.ranges = <<>>
  BY <1>2 DEF Runs
<1> QED BY <1>2, <1>3 DEF Returned

(* What the provider answers are bars.                                      *)
LEMMA ProvidedBars ==
  ASSUME closed \in BOOLEAN, today \in Nat, NEW s \in Symbols, NEW r \in Int \X Int
  PROVE  Provided(s, r) \in Bars
<1> DEFINE G == {d \in Days \ Weekend : /\ Listed[s] <= d /\ d <= today
                                       /\ r[1] <= d /\ d <= r[2]}
<1>1. Provided(s, r) \in [G -> [final : BOOLEAN]]
  BY DEF Provided
<1> QED BY <1>1 DEF Bars

(* So are bars upserted with bars.                                          *)
LEMMA UpsertBars ==
  ASSUME NEW b \in Bars, NEW g \in Bars
  PROVE  UpsertCandles(b, g) \in Bars
<1>1. /\ DOMAIN b \subseteq Days /\ \A d \in DOMAIN b : b[d] \in [final : BOOLEAN]
      /\ DOMAIN g \subseteq Days /\ \A d \in DOMAIN g : g[d] \in [final : BOOLEAN]
  BY DEF Bars
<1>2. UpsertCandles(b, g) \in [DOMAIN b \union DOMAIN g -> [final : BOOLEAN]]
  BY <1>1 DEF UpsertCandles
<1> QED BY <1>1, <1>2 DEF Bars

(* The first date of a run started today.                                   *)
LEMMA DefaultFromIs ==
  ASSUME Shapes
  PROVE  /\ DefaultFrom \in Nat /\ DefaultFrom + Window <= today
         /\ Tracked \subseteq Symbols /\ today \in Nat
<1>1. today \in Nat /\ Window \in Nat /\ Lead \in Nat /\ FirstDay \in Nat /\ Window < today
  BY CandleConstants DEF Shapes
<1>2. \A x \in AllTx : x \in [sym : Symbols \union {Cash}, day : Nat] /\ Lead < x.day
  BY DEF Shapes, AllTx
<1>3. Tracked \subseteq Symbols
  BY <1>2, CandleConstants DEF Tracked
<1>4. CASE AllTx = {}
  BY <1>1, <1>3, <1>4 DEF DefaultFrom
<1>5. CASE AllTx # {}
  <2> DEFINE S == {x.day : x \in AllTx}
  <2>1. S \in SUBSET Nat /\ S # {}
    BY <1>2, <1>5
  <2>2. Min(S) \in S
    BY <2>1, LeastOf
  <2>3. Min(S) \in Nat /\ Lead < Min(S)
    BY <1>2, <2>2
  <2> HIDE DEF S
  <2>4. FirstTxDate = Min(S)
    BY DEF FirstTxDate, S
  <2> QED BY <1>1, <1>3, <1>5, <2>3, <2>4 DEF DefaultFrom, Lesser
<1> QED BY <1>4, <1>5

(* A task no one touches is as sound as before.                             *)
LEMMA TaskSame ==
  ASSUME NEW t \in Tasks, TaskSound(t), run'[t] = run[t], UNCHANGED today,
         Locked(t) => bars'[run[t].sym] = bars[run[t].sym]
  PROVE  TaskSound(t)'
<1>1. CASE Locked(t)
  <2>1. CachedDays(run[t].sym)' = CachedDays(run[t].sym)
    BY <1>1 DEF CachedDays
  <2>2. Fitting(t)' = Fitting(t) /\ Room(t)' = Room(t)
    BY <2>1 DEF Fitting, Room, Fits
  <2>3. Running(t)' = Running(t) /\ Locked(t)' = Locked(t)
    BY DEF Running, Locked
  <2>4. run[t].at = "store" =>
          Sound(run[t].sym, UpsertCandles(bars[run[t].sym], run[t].got))'
    BY <1>1 DEF TaskSound, Sound, PastDays, Convex, Reach, Settled, UpsertCandles
  <2> QED BY <2>2, <2>3, <2>4 DEF TaskSound
<1>2. CASE ~Locked(t)
  BY <1>2 DEF TaskSound, Locked, Running
<1> QED BY <1>1, <1>2

(* Bars no one touches are as sound as before, on any later day.            *)
LEMMA SoundLater ==
  ASSUME today \in Nat, today' \in Nat, today <= today', NEW s \in Symbols, NEW b, Sound(s, b)
  PROVE  /\ DOMAIN b \subseteq {d \in Trading(s) : d <= today'}
         /\ Convex(s, b) /\ Settled(b)
         /\ \A y \in DOMAIN b, d \in Trading(s) : today' <= d + Window /\ d <= y => d \in DOMAIN b
<1>1. Window \in Nat /\ \A d \in Trading(s) : d \in Nat
  BY CandleConstants DEF Trading, Days
<1>2. DOMAIN b \subseteq {d \in Trading(s) : d <= today'}
  BY <1>1 DEF Sound, PastDays
<1>3. \A d \in Trading(s) : today' <= d + Window => today <= d + Window
  BY <1>1
<1> QED BY <1>2, <1>3 DEF Sound, Reach

(* A step that changes one task and leaves the candles alone.               *)
LEMMA OneTask ==
  ASSUME CInv, NEW t \in Tasks, NEW r \in Runs, run' = [run EXCEPT ![t] = r],
         UNCHANGED <<today, closed, log, bars>>, floor' \in [Symbols -> Nat],
         \A m \in Modes : DOMAIN snaps'[m] \subseteq FirstDay .. LastDay,
         \/ lock' = lock /\ (Locked(t)' <=> Locked(t))
         \/ lock = Nobody /\ lock' = t /\ Locked(t)'
         \/ Locked(t) /\ lock' = Nobody /\ ~Locked(t)',
         TaskSound(t)'
  PROVE  CInv'
<1>1. run' \in [Tasks -> Runs] /\ \A p \in Tasks \ {t} : run'[p] = run[p]
  BY DEF CInv, Shapes
<1>2. \A p \in Tasks \ {t} : TaskSound(p)'
  BY <1>1, TaskSame DEF CInv
<1>3. \A s \in Symbols : Sound(s, bars[s])'
  BY DEF CInv, Sound, PastDays, Convex, Reach, Settled
<1>4. lock' \in Tasks \union {Nobody} /\ \A p \in Tasks : lock' = p <=> Locked(p)'
  BY <1>1 DEF CInv, Shapes, Locked, Tasks, Nobody
<1>5. Shapes'
  BY <1>1, <1>4 DEF CInv, Shapes
<1> QED BY <1>2, <1>3, <1>5 DEF CInv

(* A run starts with nothing in hand.                                       *)
LEMMA StartStep ==
  ASSUME CInv, NEW t \in Tasks, run[t].at = "idle", Started(t),
         UNCHANGED <<today, closed, log, bars, snaps, floor, lock>>
  PROVE  CInv'
<1> DEFINE r == [Idle EXCEPT !.at = "next", !.from = DefaultFrom, !.today = today, !.todo = Tracked]
<1>1. run' = [run EXCEPT ![t] = r] /\ run'[t] = r
  BY DEF Started, CInv, Shapes
<1>2. /\ DefaultFrom \in Nat /\ DefaultFrom + Window <= today
      /\ Tracked \subseteq Symbols /\ today \in Nat
  BY DefaultFromIs DEF CInv
<1>3. r \in Runs /\ r.at = "next" /\ r.today = today /\ r.from = DefaultFrom /\ r.ranges = <<>>
  BY <1>2, IdleIsRun DEF Idle, Runs
<1> HIDE DEF r
<1>4. ~Locked(t) /\ ~Locked(t)'
  BY <1>1, <1>3 DEF Locked
<1>5. TaskSound(t)'
  BY <1>1, <1>2, <1>3, <1>4, CandleConstants DEF TaskSound
<1> QED BY <1>1, <1>3, <1>4, <1>5, OneTask DEF CInv, Shapes

(* A run returns.                                                           *)
LEMMA ReturnStep ==
  ASSUME CInv, NEW t \in Tasks, NEW r \in {Idle, Returned(t)}, run' = [run EXCEPT ![t] = r],
         UNCHANGED <<today, closed, log, bars, floor>>,
         \A m \in Modes : DOMAIN snaps'[m] \subseteq FirstDay .. LastDay,
         lock' = IF Locked(t) THEN Nobody ELSE lock
  PROVE  CInv'
<1>1. r \in Runs /\ r.at \in {"idle", "eod"} /\ r.ranges = <<>>
  BY IdleIsRun
<1>2. run'[t] = r
  BY DEF CInv, Shapes
<1>3. ~Locked(t)' /\ TaskSound(t)'
  BY <1>1, <1>2 DEF Locked, TaskSound, Running
<1> QED BY <1>1, <1>3, OneTask DEF CInv, Shapes

(* A symbol is taken: its ranges join the bars cached at this moment.       *)
LEMMA TakeStep ==
  ASSUME CInv, NEW t \in Tasks, TakeSymbol(t)
  PROVE  CInv'
<1> DEFINE s == Min(run[t].todo)
           ranges == BackfillRanges(run[t].from, CachedDays(s), run[t].today, floor[s])
           back == /\ CachedDays(s) # {}
                   /\ run[t].from < Min(CachedDays(s))
                   /\ floor[s] = 0 \/ run[t].from < floor[s]
           r == [run[t] EXCEPT !.at = "fetch", !.sym = s, !.todo = @ \ {s}, !.ranges = ranges,
                               !.back = back]
<1>1. /\ run[t].at = "next" /\ run[t].todo # {} /\ lock = Nobody /\ lock' = t
      /\ run' = [run EXCEPT ![t] = r]
      /\ UNCHANGED <<today, closed, log, bars, floor, snaps>>
  <2>1. /\ run[t].at = "next" /\ run[t].todo # {} /\ lock = Nobody /\ lock' = t
        /\ UNCHANGED <<today, closed, log, bars, floor, snaps>>
    BY DEF TakeSymbol, market
  <2>2. run' = [run EXCEPT ![t] = r]
    BY DEF TakeSymbol
  <2> QED BY <2>1, <2>2
<1>2. run[t] \in Runs /\ today \in Nat /\ Window \in Nat
  BY CandleConstants DEF CInv, Shapes
<1>3. s \in Symbols /\ s \in Nat
  BY <1>1, <1>2, LeastOf, CandleConstants DEF Runs
<1>4. /\ run[t].from \in Nat /\ run[t].today \in Nat /\ run[t].today <= today
      /\ today <= run[t].today + Window /\ run[t].from + Window <= run[t].today
  BY <1>1, <1>2 DEF CInv, TaskSound, Running, Runs
<1>5. floor[s] \in Nat /\ bars[s] \in Bars /\ CachedDays(s) \in SUBSET Days
  BY <1>3 DEF CInv, Shapes, CachedDays, Bars
<1>6. /\ ranges \in Seq({x \in Int \X Int : Fits(CachedDays(s), x, run[t].today)})
      /\ Len(ranges) <= IF CachedDays(s) = {} THEN 1 ELSE 2
  <2>1. run[t].from + Window <= today
    BY <1>2, <1>4
  <2> QED BY <1>2, <1>4, <1>5, <2>1, RangesFit
<1>7. ranges \in Seq(Int \X Int)
  BY <1>6
<1> HIDE DEF s, ranges, back
<1>8. back \in BOOLEAN
  BY DEF back
<1>9. r \in Runs
  BY <1>2, <1>3, <1>7, <1>8 DEF Runs
<1>10. /\ r.at = "fetch" /\ r.sym = s /\ r.ranges = ranges /\ r.from = run[t].from
       /\ r.today = run[t].today
  BY <1>2 DEF Runs
<1>11. run'[t] = r
  BY <1>1 DEF CInv, Shapes
<1> HIDE DEF r
<1>12. Locked(t)' /\ CachedDays(run[t].sym)' = CachedDays(s)
  BY <1>1, <1>10, <1>11 DEF Locked, CachedDays
<1>13. Fitting(t)' = {x \in Int \X Int : Fits(CachedDays(s), x, run[t].today)}
  BY <1>1, <1>10, <1>11, <1>12 DEF Fitting, Fits
<1>14. Len(ranges) <= Room(t)'
  <2>1. Len(ranges) \in Nat
    BY <1>7
  <2> QED BY <1>6, <1>10, <1>11, <1>12, <2>1 DEF Room
<1>15. TaskSound(t)'
  BY <1>1, <1>3, <1>4, <1>6, <1>10, <1>11, <1>12, <1>13, <1>14 DEF TaskSound
<1> QED BY <1>1, <1>9, <1>12, <1>15, OneTask DEF CInv, Shapes

(* The next range is fetched, or fails.                                     *)
LEMMA FetchStep ==
  ASSUME CInv, NEW t \in Tasks, Fetch(t) \/ FetchFails(t)
  PROVE  CInv'
<1>a. PICK old : old = run[t]
  OBVIOUS
<1> DEFINE s == old.sym
           x == Head(old.ranges)
<1>b. PICK got : got = Provided(s, x)
  OBVIOUS
<1> DEFINE a == [old EXCEPT !.ranges = Tail(@), !.got = got,
                            !.at = IF got = << >> THEN "fetch" ELSE "store"]
           b == [old EXCEPT !.ranges = Tail(@)]
<1>1. /\ old.at = "fetch" /\ old.ranges # <<>>
      /\ run' = [run EXCEPT ![t] = a] \/ run' = [run EXCEPT ![t] = b]
      /\ UNCHANGED <<today, closed, log, bars, floor, snaps, lock>>
  <2>1. CASE Fetch(t)
    <3>1. /\ old.at = "fetch" /\ old.ranges # <<>>
          /\ UNCHANGED <<today, closed, log, bars, floor, snaps, lock>>
      BY <1>a, <2>1 DEF Fetch, market
    <3>2. run' = [run EXCEPT ![t] = a]
      BY <1>a, <1>b, <2>1 DEF Fetch
    <3> QED BY <3>1, <3>2
  <2>2. CASE FetchFails(t)
    <3>1. /\ old.at = "fetch" /\ old.ranges # <<>>
          /\ UNCHANGED <<today, closed, log, bars, floor, snaps, lock>>
      BY <1>a, <2>2 DEF FetchFails, market
    <3>2. run' = [run EXCEPT ![t] = b]
      BY <1>a, <2>2 DEF FetchFails
    <3> QED BY <3>1, <3>2
  <2> QED BY <2>1, <2>2
<1>2. old \in Runs /\ today \in Nat /\ closed \in BOOLEAN /\ Window \in Nat
      /\ bars \in [Symbols -> Bars]
  BY <1>a, CandleConstants DEF CInv, Shapes
<1>3. /\ s \in Symbols /\ old.ranges \in Seq(Fitting(t)) /\ Len(old.ranges) <= Room(t)
      /\ old.today \in Nat /\ old.today <= today /\ today <= old.today + Window
      /\ old.from + Window <= old.today
  BY <1>a, <1>1, <1>2 DEF CInv, TaskSound, Locked, Running, Runs
<1>4. x \in Fitting(t) /\ Tail(old.ranges) \in Seq(Fitting(t))
      /\ Len(Tail(old.ranges)) = Len(old.ranges) - 1
  <2> DEFINE F == Fitting(t)
  <2> HIDE DEF F
  <2>1. old.ranges \in Seq(F) /\ old.ranges # <<>>
    BY <1>1, <1>3 DEF F
  <2>2. x \in F /\ Tail(old.ranges) \in Seq(F) /\ Len(Tail(old.ranges)) = Len(old.ranges) - 1
    BY <2>1, HeadTailProperties
  <2> QED BY <2>2 DEF F
<1>5. x \in Int \X Int /\ Fits(CachedDays(s), x, old.today)
  BY <1>a, <1>4 DEF Fitting
<1>6. Tail(old.ranges) \in Seq(Int \X Int)
  BY <1>4 DEF Fitting
<1>7. Sound(s, UpsertCandles(bars[s], got)) /\ got \in Bars
  <2>1. bars[s] \in Bars /\ Sound(s, bars[s]) /\ DOMAIN bars[s] = CachedDays(s)
    BY <1>2, <1>3 DEF CInv, CachedDays
  <2>2. today \in FirstDay .. LastDay
    BY DEF CInv, Shapes
  <2> QED BY <1>b, <1>2, <1>3, <1>5, <2>1, <2>2, JoinIsSound, ProvidedBars
<1> HIDE DEF x
<1>8. a \in Runs /\ b \in Runs
  BY <1>2, <1>6, <1>7 DEF Runs
<1>9. ASSUME NEW r \in {a, b}
      PROVE  /\ r.sym = s /\ r.from = old.from /\ r.today = old.today /\ r.ranges = Tail(old.ranges)
             /\ r.at \in {"fetch", "store"} /\ (r.at = "store" => r.got = got)
  BY <1>1, <1>2, <1>9 DEF Runs
<1> HIDE DEF a, b
<1>10. PICK r \in {a, b} : run' = [run EXCEPT ![t] = r]
  BY <1>1
<1>11. run'[t] = r
  BY <1>10 DEF CInv, Shapes
<1>12. Locked(t) /\ Locked(t)' /\ CachedDays(run[t].sym)' = CachedDays(s)
  BY <1>a, <1>1, <1>9, <1>11 DEF Locked, CachedDays
<1>13. Fitting(t)' = Fitting(t)
  BY <1>a, <1>1, <1>9, <1>11, <1>12 DEF Fitting, Fits
<1>14. Len(run'[t].ranges) <= Room(t)'
  <2>1. Len(old.ranges) \in Nat
    BY <1>2 DEF Runs
  <2>2. Len(run'[t].ranges) = Len(old.ranges) - 1
    BY <1>4, <1>9, <1>11
  <2>3. run'[t].at \in {"fetch", "store"} /\ run[t].at = "fetch"
    BY <1>a, <1>1, <1>9, <1>11
  <2>4. Room(t)' >= Room(t) - 1
    BY <1>12, <2>3, <1>a DEF Room
  <2>5. Room(t) \in Int /\ Room(t)' \in Int
    BY DEF Room
  <2> QED BY <1>3, <2>1, <2>2, <2>4, <2>5
<1>15. run'[t].at = "store" => Sound(run[t].sym, UpsertCandles(bars[run[t].sym], run[t].got))'
  <2>1. Sound(s, UpsertCandles(bars[s], got))'
    BY <1>1, <1>7 DEF Sound, PastDays, Convex, Reach, Settled, UpsertCandles
  <2> QED BY <1>9, <1>11, <2>1
<1>16. TaskSound(t)'
  BY <1>1, <1>3, <1>4, <1>9, <1>11, <1>12, <1>13, <1>14, <1>15 DEF TaskSound
<1> QED BY <1>1, <1>8, <1>10, <1>12, <1>16, OneTask DEF CInv, Shapes

(* The answer is stored: the bars stay sound, and the ranges left over      *)
(* join the more of them.                                                   *)
LEMMA StoreStep ==
  ASSUME CInv, NEW t \in Tasks, Store(t)
  PROVE  CInv'
<1>a. PICK old : old = run[t]
  OBVIOUS
<1> DEFINE s == old.sym
<1>b. PICK new : new = UpsertCandles(bars[s], old.got)
  OBVIOUS
<1> DEFINE r == [old EXCEPT !.at = "fetch", !.got = << >>, !.fetched = TRUE]
<1>1. /\ old.at = "store" /\ run' = [run EXCEPT ![t] = r]
      /\ bars' = [bars EXCEPT ![s] = new]
      /\ UNCHANGED <<today, closed, log, floor, snaps, lock>>
  BY <1>a, <1>b DEF Store, market
<1>2. /\ old \in Runs /\ bars \in [Symbols -> Bars] /\ lock = t
      /\ run \in [Tasks -> Runs]
  BY <1>a, <1>1 DEF CInv, Shapes, Locked
<1>3. /\ s \in Symbols /\ old.ranges \in Seq(Fitting(t)) /\ Len(old.ranges) <= Room(t)
      /\ old.today <= today /\ today <= old.today + Window
      /\ old.from + Window <= old.today /\ Sound(s, new)
  BY <1>a, <1>b, <1>1 DEF CInv, TaskSound, Locked, Running
<1>4. r \in Runs /\ r.at = "fetch" /\ r.sym = s /\ r.ranges = old.ranges
      /\ r.today = old.today /\ r.from = old.from
  BY <1>2, NoBars DEF Runs
<1>5. run'[t] = r /\ \A p \in Tasks \ {t} : run'[p] = run[p]
  BY <1>1, <1>2
<1> HIDE DEF r
<1>6. new \in Bars
  BY <1>b, <1>2, <1>3, UpsertBars DEF Runs
<1>7. /\ bars' \in [Symbols -> Bars] /\ bars'[s] = new
      /\ \A k \in Symbols \ {s} : bars'[k] = bars[k]
  BY <1>1, <1>2, <1>3, <1>6
<1>8. \A k \in Symbols : Sound(k, bars[k])'
  <2>1. ASSUME NEW k \in Symbols PROVE Sound(k, bars'[k])
    BY <1>3, <1>7 DEF CInv
  <2> QED BY <1>1, <2>1 DEF Sound, PastDays, Convex, Reach, Settled
<1>9. \A p \in Tasks : lock' = p <=> Locked(p)'
  BY <1>1, <1>2, <1>4, <1>5 DEF CInv, Shapes, Locked
<1>10. Shapes'
  BY <1>1, <1>2, <1>4, <1>5, <1>7, <1>9 DEF CInv, Shapes
<1>11. \A p \in Tasks \ {t} : TaskSound(p)'
  <2>1. ASSUME NEW p \in Tasks \ {t} PROVE ~Locked(p)
    BY <1>2 DEF CInv, Shapes
  <2> QED BY <1>1, <1>5, <2>1, TaskSame DEF CInv
<1>12. /\ CachedDays(s) \subseteq DOMAIN new
       /\ CachedDays(run[t].sym)' = DOMAIN new /\ CachedDays(run[t].sym) = CachedDays(s)
  BY <1>a, <1>b, <1>4, <1>5, <1>7 DEF CachedDays, UpsertCandles
<1>13. TaskSound(t)'
  <2>1. CASE old.ranges = <<>>
    <3>1. old.ranges \in Seq(Fitting(t)') /\ Len(old.ranges) = 0
      BY <2>1
    <3>2. Len(old.ranges) <= Room(t)'
      BY <1>4, <1>5, <3>1 DEF Room
    <3> QED BY <1>1, <1>3, <1>4, <1>5, <3>1, <3>2 DEF TaskSound, Locked
  <2>2. CASE old.ranges # <<>>
    <3>1. Len(old.ranges) \in Nat /\ Len(old.ranges) # 0
      BY <1>2, <2>2 DEF Runs
    <3>2. Room(t) = IF CachedDays(s) = {} THEN 0 ELSE 1
      BY <1>a, <1>1, <1>12 DEF Room
    <3>3. CachedDays(s) # {} /\ Len(old.ranges) <= 1
      BY <1>3, <3>1, <3>2
    <3>4. Room(t)' = 2
      BY <1>4, <1>5, <1>12, <3>3 DEF Room
    <3>5. Fitting(t) = {x \in Int \X Int : Fits(CachedDays(s), x, old.today)}
      BY <1>a DEF Fitting
    <3>6. Fitting(t)' = {x \in Int \X Int : Fits(DOMAIN new, x, old.today)}
      BY <1>1, <1>4, <1>5, <1>12 DEF Fitting, Fits
    <3>7. Fitting(t) \subseteq Fitting(t)'
      BY <1>12, <3>3, <3>5, <3>6 DEF Fits
    <3>8. old.ranges \in Seq(Fitting(t)')
      BY <1>3, <3>7
    <3> QED BY <1>1, <1>3, <1>4, <1>5, <3>1, <3>3, <3>4, <3>8 DEF TaskSound, Locked
  <2> QED BY <2>1, <2>2
<1> QED BY <1>8, <1>10, <1>11, <1>13 DEF CInv

(* The symbol is released, its ranges done.                                 *)
LEMMA ReleaseStep ==
  ASSUME CInv, NEW t \in Tasks, Release(t)
  PROVE  CInv'
<1>a. PICK old : old = run[t]
  OBVIOUS
<1> DEFINE r == [old EXCEPT !.at = "next", !.sym = 0, !.back = FALSE]
<1>1. /\ old.at = "fetch" /\ old.ranges = <<>> /\ run' = [run EXCEPT ![t] = r]
      /\ UNCHANGED <<today, closed, log, bars, snaps>> /\ lock' = Nobody
      /\ floor' \in {floor, [floor EXCEPT ![old.sym] = old.from]}
  BY <1>a DEF Release, market
<1>2. old \in Runs /\ Locked(t) /\ run \in [Tasks -> Runs] /\ floor \in [Symbols -> Nat]
  BY <1>a, <1>1 DEF CInv, Shapes, Locked
<1>3. floor' \in [Symbols -> Nat]
  BY <1>1, <1>2 DEF Runs
<1>4. r \in Runs /\ r.at = "next" /\ r.ranges = <<>> /\ r.today = old.today /\ r.from = old.from
  BY <1>1, <1>2 DEF Runs
<1>5. run'[t] = r
  BY <1>1, <1>2
<1> HIDE DEF r
<1>6. ~Locked(t)' /\ Running(t) /\ TaskSound(t)
  BY <1>a, <1>1, <1>4, <1>5 DEF Locked, Running, CInv
<1>7. TaskSound(t)'
  BY <1>a, <1>1, <1>4, <1>5, <1>6 DEF TaskSound
<1> QED BY <1>1, <1>2, <1>3, <1>4, <1>6, <1>7, OneTask DEF CInv, Shapes

(* A run ends, with its locals or without.                                  *)
LEMMA EndStep ==
  ASSUME CInv, NEW t \in Tasks, Finish(t) \/ Abort(t)
  PROVE  CInv'
<1>1. /\ run' = [run EXCEPT ![t] = Returned(t)]
      /\ UNCHANGED <<today, closed, log, bars, floor, snaps>>
  BY DEF Finish, Abort, market
<1>2. lock' = IF Locked(t) THEN Nobody ELSE lock
  <2>1. CASE Finish(t)
    BY <2>1 DEF Finish, Locked
  <2>2. CASE Abort(t)
    BY <2>2 DEF Abort, Locked
  <2> QED BY <2>1, <2>2
<1> QED BY <1>1, <1>2, ReturnStep DEF CInv, Shapes

(* A snapshot is of a day the server runs on.                               *)
LEMMA SnapshotStep ==
  ASSUME CInv, Snapshot
  PROVE  CInv'
<1>1. /\ run' = [run EXCEPT !["scheduler"] = Idle] /\ run["scheduler"].at = "eod"
      /\ UNCHANGED <<today, closed, log, bars, floor, lock>>
  BY DEF Snapshot, market
<1>2. ~Locked("scheduler") /\ "scheduler" \in Tasks
  BY <1>1 DEF Locked, Tasks
<1>3. \A m \in Modes : DOMAIN snaps[m] \subseteq FirstDay .. LastDay
  BY DEF CInv, Shapes
<1>4. ASSUME NEW m \in Modes, NEW p \in BOOLEAN
      PROVE  DOMAIN UpsertSnapshot(m, p) \subseteq FirstDay .. LastDay
  <2>1. today \in FirstDay .. LastDay
    BY DEF CInv, Shapes
  <2> QED BY <1>3, <2>1 DEF UpsertSnapshot
<1>5. ASSUME NEW m \in Modes PROVE DOMAIN snaps'[m] \subseteq FirstDay .. LastDay
  <2>1. PICK p \in BOOLEAN : snaps'[m] = IF Captured(m) THEN UpsertSnapshot(m, p) ELSE snaps[m]
    BY <1>5 DEF Snapshot
  <2> QED BY <1>3, <1>4, <2>1
<1> QED BY <1>1, <1>2, <1>5, ReturnStep

(* A transaction is logged, at least the lead after the epoch.              *)
LEMMA CommitStep ==
  ASSUME CInv, Commit
  PROVE  CInv'
<1>1. PICK m \in Modes, s \in Symbols \union {Cash}, d \in TxDays :
        Lead < d /\ log' = [log EXCEPT ![m] = @ \union {[sym |-> s, day |-> d]}]
  BY DEF Commit
<1>2. UNCHANGED <<today, closed, bars, floor, snaps, lock, run>>
  BY DEF Commit, market
<1>3. d \in Nat
  BY CandleConstants
<1>4. /\ log' \in [Modes -> SUBSET [sym : Symbols \union {Cash}, day : Nat]]
      /\ \A k \in Modes : \A x \in log'[k] : Lead < x.day
  BY <1>1, <1>3 DEF CInv, Shapes
<1>5. Shapes'
  BY <1>2, <1>4 DEF CInv, Shapes, Locked
<1>6. \A s0 \in Symbols : Sound(s0, bars[s0])'
  BY <1>2 DEF CInv, Sound, PastDays, Convex, Reach, Settled
<1>7. \A t \in Tasks : TaskSound(t)'
  BY <1>2, TaskSame DEF CInv
<1> QED BY <1>5, <1>6, <1>7 DEF CInv

(* A transaction is announced.                                              *)
LEMMA AnnounceStep ==
  ASSUME CInv, Announce
  PROVE  CInv'
<1>1. UNCHANGED <<today, closed, log, bars, floor, snaps, lock>>
  BY DEF Announce, market
<1>2. CASE silent = {Cash}
  <2>1. run' = run
    BY <1>2 DEF Announce
  <2>2. Shapes'
    BY <1>1, <2>1 DEF CInv, Shapes, Locked
  <2>3. \A s \in Symbols : Sound(s, bars[s])'
    BY <1>1 DEF CInv, Sound, PastDays, Convex, Reach, Settled
  <2>4. \A t \in Tasks : TaskSound(t)'
    BY <1>1, <2>1, TaskSame DEF CInv
  <2> QED BY <2>2, <2>3, <2>4 DEF CInv
<1>3. CASE silent # {Cash}
  <2>1. run["spawned"].at = "idle" /\ Started("spawned") /\ "spawned" \in Tasks
    BY <1>3 DEF Announce, Tasks
  <2> QED BY <1>1, <2>1, StartStep
<1> QED BY <1>2, <1>3

(* The day closes, and the next opens on bars and tasks sound as before.    *)
LEMMA ClockStep ==
  ASSUME CInv, Clock
  PROVE  CInv'
<1>1. /\ UNCHANGED <<log, bars, floor, snaps, lock, run>>
      /\ today' \in FirstDay .. LastDay /\ closed' \in BOOLEAN
      /\ today \in Nat /\ today' \in Nat /\ today <= today' /\ Window \in Nat
      /\ \A t \in Tasks : Running(t) =>
           today' = today \/ (today' = today + 1 /\ today < run[t].today + Window)
  <2>1. UNCHANGED <<log, bars, floor, snaps, lock, run>> /\ closed' \in BOOLEAN
    BY DEF Clock
  <2>2. \/ today' = today
        \/ /\ today' = today + 1 /\ today < LastDay
           /\ \A t \in Tasks : Running(t) => today < run[t].today + Window
    BY DEF Clock
  <2>3. today \in FirstDay .. LastDay /\ FirstDay \in Nat /\ LastDay \in Nat /\ Window \in Nat
    BY CandleConstants DEF CInv, Shapes
  <2>4. today' \in FirstDay .. LastDay /\ today \in Nat /\ today' \in Nat /\ today <= today'
    BY <2>2, <2>3
  <2> QED BY <2>1, <2>2, <2>3, <2>4
<1>2. ASSUME NEW s \in Symbols, NEW b, Sound(s, b)
      PROVE  /\ DOMAIN b \subseteq {d \in Trading(s) : d <= today'}
             /\ Convex(s, b) /\ Settled(b)
             /\ \A y \in DOMAIN b, d \in Trading(s) : today' <= d + Window /\ d <= y => d \in DOMAIN b
  BY <1>1, <1>2, SoundLater
<1>3. Shapes'
  BY <1>1 DEF CInv, Shapes, Locked
<1>4. ASSUME NEW s \in Symbols PROVE Sound(s, bars[s])'
  <2>1. Sound(s, bars[s])
    BY DEF CInv
  <2> QED BY <1>1, <1>2, <2>1 DEF Sound, PastDays, Convex, Reach, Settled
<1>5. ASSUME NEW t \in Tasks PROVE TaskSound(t)'
  <2>1. TaskSound(t) /\ run[t] \in Runs
    BY DEF CInv, Shapes
  <2>2. Running(t) => /\ run[t].today <= today' /\ today' <= run[t].today + Window
                      /\ run[t].from + Window <= run[t].today
    BY <1>1, <2>1 DEF TaskSound, Runs
  <2>3. \A x \in Fitting(t) : x \in Fitting(t)'
    BY <1>1 DEF Fitting, Fits, CachedDays
  <2>4. Locked(t) => run[t].ranges \in Seq(Fitting(t)')
    BY <2>1, <2>3 DEF TaskSound
  <2>5. Room(t)' = Room(t) /\ Running(t)' = Running(t) /\ Locked(t)' = Locked(t)
    BY <1>1 DEF Room, Running, Locked, CachedDays
  <2>6. ASSUME run[t].at = "store"
        PROVE  Sound(run[t].sym, UpsertCandles(bars[run[t].sym], run[t].got))'
    <3>1. /\ run[t].sym \in Symbols
          /\ Sound(run[t].sym, UpsertCandles(bars[run[t].sym], run[t].got))
      BY <2>1, <2>6 DEF TaskSound, Locked
    <3>2. PICK u : u = UpsertCandles(bars[run[t].sym], run[t].got)
      OBVIOUS
    <3>3. PICK k \in Symbols : k = run[t].sym
      BY <3>1
    <3>4. Sound(k, u)'
      BY <1>2, <3>1, <3>2, <3>3 DEF Sound, PastDays, Convex, Reach, Settled
    <3>5. UpsertCandles(bars[run[t].sym], run[t].got)' = u /\ run'[t].sym = k
      BY <1>1, <3>2, <3>3 DEF UpsertCandles
    <3> QED BY <3>4, <3>5
  <2> QED BY <1>1, <2>1, <2>2, <2>4, <2>5, <2>6 DEF TaskSound
<1> QED BY <1>3, <1>4, <1>5 DEF CInv

(* A restart leaves the tables, and no task.                                *)
LEMMA CrashStep ==
  ASSUME CInv, Crash
  PROVE  CInv'
<1>1. /\ UNCHANGED <<today, closed, log, bars, floor, snaps>>
      /\ lock' = Nobody /\ run' = [t \in Tasks |-> Idle]
  BY DEF Crash
<1>2. \A t \in Tasks : ~Locked(t)' /\ TaskSound(t)'
  BY <1>1, IdleIsRun DEF Locked, TaskSound, Running
<1>3. Shapes'
  BY <1>1, <1>2, IdleIsRun DEF CInv, Shapes, Tasks, Nobody
<1>4. \A s \in Symbols : Sound(s, bars[s])'
  BY <1>1 DEF CInv, Sound, PastDays, Convex, Reach, Settled
<1> QED BY <1>2, <1>3, <1>4 DEF CInv

(* Nothing is cached when the server starts for the first time.             *)
LEMMA InitStep == Init => CInv
<1> SUFFICES ASSUME Init PROVE CInv
  OBVIOUS
<1>1. \A s \in Symbols : bars[s] = << >> /\ floor[s] = 0
  BY DEF Init
<1>2. \A t \in Tasks : run[t] = Idle
  BY DEF Init
<1>3. \A t \in Tasks : ~Locked(t) /\ TaskSound(t)
  BY <1>2, IdleIsRun DEF Locked, TaskSound, Running
<1>4. \A s \in Symbols : Sound(s, bars[s])
  BY <1>1 DEF Sound, PastDays, Convex, Reach, Settled
<1>5. /\ bars \in [Symbols -> Bars] /\ floor \in [Symbols -> Nat]
      /\ run \in [Tasks -> Runs] /\ lock = Nobody
  BY NoBars, IdleIsRun DEF Init
<1>6. /\ log \in [Modes -> SUBSET [sym : Symbols \union {Cash}, day : Nat]]
      /\ \A m \in Modes : \A x \in log[m] : Lead < x.day
      /\ \A m \in Modes : DOMAIN snaps[m] \subseteq FirstDay .. LastDay
      /\ today \in FirstDay .. LastDay /\ closed \in BOOLEAN
  <2>1. log = [m \in Modes |-> {}] /\ snaps = [m \in Modes |-> << >>]
    BY DEF Init
  <2>2. log \in [Modes -> SUBSET [sym : Symbols \union {Cash}, day : Nat]]
    BY <2>1
  <2>3. \A m \in Modes : log[m] = {} /\ DOMAIN snaps[m] = {}
    BY <2>1
  <2>4. today \in FirstDay .. LastDay
    BY CandleConstants DEF Init
  <2>5. closed \in BOOLEAN
    BY DEF Init
  <2> QED BY <2>2, <2>3, <2>4, <2>5
<1>7. Shapes
  BY <1>3, <1>5, <1>6 DEF Shapes, Tasks, Nobody
<1> QED BY <1>3, <1>4, <1>7 DEF CInv

(* Every step keeps the invariant.                                          *)
LEMMA CacheStep == CInv /\ [Next]_vars => CInv'
<1> SUFFICES ASSUME CInv, [Next]_vars PROVE CInv'
  OBVIOUS
<1>1. CASE Tick
  <2>1. run["scheduler"].at = "idle" /\ Started("scheduler") /\ "scheduler" \in Tasks
    BY <1>1 DEF Tick, Tasks
  <2> QED BY <1>1, <2>1, StartStep DEF Tick, market
<1>2. CASE Snapshot
  BY <1>2, SnapshotStep
<1>3. CASE Commit
  BY <1>3, CommitStep
<1>4. CASE Announce
  BY <1>4, AnnounceStep
<1>5. ASSUME NEW t \in Tasks, Backfill(t) PROVE CInv'
  BY <1>5, TakeStep, FetchStep, StoreStep, ReleaseStep, EndStep DEF Backfill
<1>6. ASSUME NEW t \in Tasks, FetchFails(t) \/ Abort(t) PROVE CInv'
  BY <1>6, FetchStep, EndStep
<1>7. CASE Miss \/ ReadLog \/ ReadCloses \/ UNCHANGED vars
  <2>1. UNCHANGED <<today, closed, log, bars, floor, snaps, lock, run>>
    BY <1>7 DEF Miss, ReadLog, ReadCloses, market, vars
  <2>2. Shapes'
    BY <2>1 DEF CInv, Shapes, Locked
  <2>3. \A s \in Symbols : Sound(s, bars[s])'
    BY <2>1 DEF CInv, Sound, PastDays, Convex, Reach, Settled
  <2>4. \A t \in Tasks : TaskSound(t)'
    BY <2>1, TaskSame DEF CInv
  <2> QED BY <2>2, <2>3, <2>4 DEF CInv
<1>8. CASE Clock
  BY <1>8, ClockStep
<1>9. CASE Crash
  BY <1>9, CrashStep
<1> QED BY <1>1, <1>2, <1>3, <1>4, <1>5, <1>6, <1>7, <1>8, <1>9 DEF Next

(* The invariant says of the cache what CacheSound does.                    *)
LEMMA SoundEnough == CInv => CacheSound
<1> SUFFICES ASSUME CInv PROVE CacheSound
  OBVIOUS
<1>1. ASSUME NEW s \in Symbols
      PROVE  /\ bars[s] \in Bars /\ Sound(s, bars[s]) /\ floor[s] \in Nat
             /\ DOMAIN bars[s] \subseteq Days \ Weekend
             /\ bars[s] # << >> => DOMAIN bars[s] # {}
  BY NoBars DEF CInv, Shapes, Sound, PastDays, Trading
<1>2. ASSUME NEW s \in Symbols, DOMAIN bars[s] # {}
      PROVE  /\ Min(DOMAIN bars[s]) \in DOMAIN bars[s]
             /\ Max(DOMAIN bars[s]) \in DOMAIN bars[s]
             /\ \A d \in DOMAIN bars[s] : Min(DOMAIN bars[s]) <= d /\ d <= Max(DOMAIN bars[s])
  <2>1. /\ DOMAIN bars[s] \in SUBSET Nat /\ LastDay \in Nat
        /\ \A d \in DOMAIN bars[s] : d <= LastDay
    BY <1>1, CandleConstants DEF Days
  <2> QED BY <1>2, <2>1, LeastOf, GreatestOf
<1>3. NoHoles
  <2> SUFFICES ASSUME NEW s \in Symbols, bars[s] # << >>,
                      NEW d \in Min(DOMAIN bars[s])..Max(DOMAIN bars[s]), d \notin Weekend
               PROVE  d \in DOMAIN bars[s]
    BY DEF NoHoles
  <2> DEFINE D == DOMAIN bars[s]
  <2>1. D # {} /\ Min(D) \in D /\ Max(D) \in D
    BY <1>1, <1>2
  <2>2. Min(D) \in Trading(s) /\ Max(D) \in Trading(s)
    BY <1>1, <2>1 DEF Sound, PastDays
  <2>3. d \in Trading(s)
    BY <2>2, CandleConstants DEF Trading, Days
  <2> QED BY <1>1, <2>1, <2>2, <2>3 DEF Sound, Convex, Trading, Days
<1>4. OnlyNewestProvisional
  <2> SUFFICES ASSUME NEW s \in Symbols, NEW d \in DOMAIN bars[s], ~bars[s][d].final
               PROVE  d = Max(DOMAIN bars[s])
    BY DEF OnlyNewestProvisional
  <2> DEFINE top == Max(DOMAIN bars[s])
  <2>1. top \in DOMAIN bars[s] /\ d <= top
    BY <1>2
  <2>2. top <= d
    BY <1>1, <2>1 DEF Sound, Settled
  <2>3. d \in Nat /\ top \in Nat
    BY <1>1, <2>1 DEF Days
  <2> QED BY <2>1, <2>2, <2>3
<1>5. TypeOK
  <2>1. ASSUME NEW t \in Tasks
        PROVE  /\ run[t].at \in {"idle", "next", "fetch", "store", "eod"}
               /\ lock = t <=> run[t].at \in {"fetch", "store"}
               /\ Len(run[t].ranges) <= 2
    <3>1. /\ run[t] \in Runs /\ TaskSound(t) /\ (lock = t <=> Locked(t))
      BY DEF CInv, Shapes
    <3>2. run[t].ranges = <<>> => Len(run[t].ranges) = 0
      OBVIOUS
    <3>3. Len(run[t].ranges) \in Nat
      BY <3>1 DEF Runs
    <3>4. Room(t) \in Int /\ Room(t) <= 2
      BY DEF Room
    <3>5. Len(run[t].ranges) <= 2
      BY <3>1, <3>2, <3>3, <3>4 DEF TaskSound
    <3> QED BY <3>1, <3>5 DEF Runs, Locked
  <2> QED BY <1>1, <2>1 DEF TypeOK, CInv, Shapes
<1> QED BY <1>3, <1>4, <1>5 DEF CacheSound

(* Whatever fetches fail, whatever restarts come between, and however many  *)
(* midnights, the candle cache has no hole and only its newest bar may      *)
(* still be provisional.                                                    *)
THEOREM CacheSoundHolds == Spec => []CacheSound
<1>1. Init => CInv
  BY InitStep
<1>2. CInv /\ [Next]_vars => CInv'
  BY CacheStep
<1>3. CInv => CacheSound
  BY SoundEnough
<1> QED BY <1>1, <1>2, <1>3, PTL DEF Spec

-----------------------------------------------------------------------------
Txs == SUBSET [sym : Symbols \union {Cash}, day : Nat]

Readers == [at : {"idle", "log", "closes"}, same : BOOLEAN, day : Nat, txs : Txs]

Fallback(txs) ==
  ClosesMap(({x.sym : x \in txs} \union {Benchmark}) \ {Cash}) = << >> /\ snaps["live"] # << >>

(* While nothing is waiting to be announced, the cached curve is that of    *)
(* the tables, unless the tables have no candle to draw one from ...        *)
CurveCurrent ==
  (hist.same /\ ~unannounced /\ silent = {})
  => hist.value = Curve(log["live"]) \/ Fallback(log["live"])

(* ... and a build in progress that may be cached has read the log as it is.*)
ReaderCurrent ==
  (reader.at = "closes" /\ reader.same /\ silent = {}) => reader.txs = log["live"]

HInv == reader \in Readers /\ CurveCurrent /\ ReaderCurrent

(* A reader is one, an idle one too.                                        *)
LEMMA NoReaderIs ==
  /\ NoReader \in Readers /\ NoReader.at = "idle"
  /\ NoCurve.same = FALSE
  /\ \A r \in Readers : LET n == [r EXCEPT !.same = FALSE]
                         IN  n \in Readers /\ ~n.same /\ n.at = r.at
BY DEF NoReader, Readers, Txs, NoCurve

(* A bump drops the cached curve, and the one being built.                  *)
LEMMA BumpStep ==
  ASSUME HInv, Bump PROVE HInv'
<1>1. hist'.same = FALSE /\ reader' = [reader EXCEPT !.same = FALSE]
  BY NoReaderIs DEF Bump
<1>2. reader' \in Readers /\ ~reader'.same
  BY <1>1, NoReaderIs DEF HInv
<1> QED BY <1>1, <1>2 DEF HInv, CurveCurrent, ReaderCurrent

(* A step that leaves the tables, the caches and the readers alone, or says *)
(* that the bars have changed.                                              *)
LEMMA QuietStep ==
  ASSUME HInv, UNCHANGED <<log, hist, reader, silent>>,
         \/ unannounced' = TRUE
         \/ UNCHANGED <<bars, snaps, unannounced>>
  PROVE  HInv'
<1>1. reader' \in Readers /\ ReaderCurrent'
  BY DEF HInv, ReaderCurrent
<1>2. CurveCurrent'
  <2>1. CASE unannounced' = TRUE
    BY <2>1 DEF CurveCurrent
  <2>2. CASE UNCHANGED <<bars, snaps, unannounced>>
    <3>1. Curve(log["live"])' = Curve(log["live"]) /\ Fallback(log["live"])' = Fallback(log["live"])
      BY <2>2 DEF Curve, Fallback, ClosesMap
    <3> QED BY <2>2, <3>1 DEF HInv, CurveCurrent
  <2> QED BY <2>1, <2>2
<1> QED BY <1>1, <1>2 DEF HInv

(* A snapshot changes the curve only where there are no candles.            *)
LEMMA SnapshotQuiet ==
  ASSUME HInv, Snapshot PROVE HInv'
<1>1. UNCHANGED <<bars, log, hist, reader, silent, unannounced>>
  BY DEF Snapshot
<1>2. snaps["live"] # << >> => snaps'["live"] # << >>
  <2>1. PICK p \in BOOLEAN : snaps'["live"] = IF Captured("live") THEN UpsertSnapshot("live", p)
                                             ELSE snaps["live"]
    BY CandleConstants DEF Snapshot
  <2>2. today \in DOMAIN UpsertSnapshot("live", p)
    BY DEF UpsertSnapshot
  <2>3. UpsertSnapshot("live", p) # << >>
    BY <2>2
  <2> QED BY <2>1, <2>3
<1>3. ClosesMap(({x.sym : x \in log["live"]} \union {Benchmark}) \ {Cash})'
        = ClosesMap(({x.sym : x \in log["live"]} \union {Benchmark}) \ {Cash})
  BY <1>1 DEF ClosesMap
<1>4. Fallback(log["live"]) => Fallback(log["live"])'
  BY <1>2, <1>3 DEF Fallback
<1>5. Curve(log["live"])' = Curve(log["live"]) \/ Fallback(log["live"])'
  BY <1>1, <1>2, <1>3 DEF Fallback, Curve
<1>6. CurveCurrent'
  BY <1>1, <1>4, <1>5 DEF HInv, CurveCurrent
<1> QED BY <1>1, <1>6 DEF HInv, ReaderCurrent

(* A curve is built from what the log and the candles are when they are     *)
(* read, and cached only under revisions that still stand.                  *)
LEMMA ReaderStep ==
  ASSUME Shapes, HInv, Miss \/ ReadLog \/ ReadCloses PROVE HInv'
<1>1. UNCHANGED <<today, log, bars, snaps, silent, unannounced>>
  BY DEF Miss, ReadLog, ReadCloses, market
<1>2. Curve(log["live"])' = Curve(log["live"]) /\ Fallback(log["live"])' = Fallback(log["live"])
  BY <1>1 DEF Curve, Fallback, ClosesMap
<1>3. today \in Nat /\ log["live"] \in Txs
  BY CandleConstants DEF Shapes, Txs
<1>4. CASE Miss
  <2>1. /\ hist' = hist
        /\ reader' = [at |-> "log", same |-> TRUE, day |-> today, txs |-> {}]
    BY <1>4 DEF Miss
  <2>2. reader' \in Readers /\ reader'.at = "log"
    BY <1>3, <2>1 DEF Readers, Txs
  <2> QED BY <1>1, <1>2, <2>1, <2>2 DEF HInv, CurveCurrent, ReaderCurrent
<1>5. CASE ReadLog
  <2>1. /\ hist' = hist
        /\ \/ reader' = NoReader
           \/ reader' = [reader EXCEPT !.at = "closes", !.txs = log["live"]]
    BY <1>5 DEF ReadLog
  <2>2. /\ reader' \in Readers
        /\ reader'.at = "closes" => reader'.txs = log["live"]
    BY <1>3, <2>1, NoReaderIs DEF HInv, Readers
  <2> QED BY <1>1, <1>2, <2>1, <2>2 DEF HInv, CurveCurrent, ReaderCurrent
<1>6. CASE ReadCloses
  <2>1. /\ reader' = NoReader /\ reader.at = "closes"
        /\ hist' = IF reader.same THEN [same |-> TRUE, day |-> reader.day, value |-> Curve(reader.txs)]
                   ELSE NoCurve
    BY <1>6 DEF ReadCloses
  <2>2. hist'.same => reader.same /\ hist'.value = Curve(reader.txs)
    BY <2>1, NoReaderIs
  <2>3. CurveCurrent'
    BY <1>1, <1>2, <2>1, <2>2 DEF HInv, CurveCurrent, ReaderCurrent
  <2> QED BY <2>1, <2>3, NoReaderIs DEF HInv, ReaderCurrent
<1> QED BY <1>4, <1>5, <1>6

(* Every step keeps the cached curve current.                               *)
LEMMA HistoryStep == CInv /\ HInv /\ [Next]_vars => HInv'
<1> SUFFICES ASSUME Shapes, HInv, [Next]_vars PROVE HInv'
  BY DEF CInv
<1>1. CASE Tick
  BY <1>1, QuietStep DEF Tick
<1>2. CASE Snapshot
  BY <1>2, SnapshotQuiet
<1>3. CASE Commit
  <2>1. silent' # {} /\ reader' = reader
    BY <1>3 DEF Commit
  <2> QED BY <2>1 DEF HInv, CurveCurrent, ReaderCurrent
<1>4. CASE Announce
  BY <1>4, BumpStep DEF Announce
<1>5. ASSUME NEW t \in Tasks, TakeSymbol(t) \/ Fetch(t) \/ FetchFails(t) \/ Release(t) \/ Abort(t)
      PROVE  HInv'
  BY <1>5, QuietStep DEF TakeSymbol, Fetch, FetchFails, Release, Abort
<1>6. ASSUME NEW t \in Tasks, Store(t) PROVE HInv'
  BY <1>6, QuietStep DEF Store
<1>7. ASSUME NEW t \in Tasks, Finish(t) PROVE HInv'
  <2>1. UNCHANGED <<log, bars, snaps, silent>>
    BY <1>7 DEF Finish
  <2>2. CASE run[t].fetched
    BY <1>7, <2>2, BumpStep DEF Finish
  <2>3. CASE ~run[t].fetched
    <3>1. UNCHANGED <<hist, reader>> /\ (unannounced' <=> unannounced)
      BY <1>7, <2>3 DEF Finish
    <3>2. Curve(log["live"])' = Curve(log["live"]) /\ Fallback(log["live"])' = Fallback(log["live"])
      BY <2>1 DEF Curve, Fallback, ClosesMap
    <3> QED BY <2>1, <3>1, <3>2 DEF HInv, CurveCurrent, ReaderCurrent
  <2> QED BY <2>2, <2>3
<1>8. CASE Miss \/ ReadLog \/ ReadCloses
  BY <1>8, ReaderStep
<1>9. CASE Clock \/ UNCHANGED vars
  BY <1>9, QuietStep DEF Clock, vars
<1>10. CASE Crash
  <2>1. hist'.same = FALSE /\ reader' = NoReader
    BY <1>10, NoReaderIs DEF Crash
  <2> QED BY <2>1, NoReaderIs DEF HInv, CurveCurrent, ReaderCurrent
<1> QED BY <1>1, <1>2, <1>3, <1>4, <1>5, <1>6, <1>7, <1>8, <1>9, <1>10 DEF Next, Backfill

(* An equity curve answered from the cache is the one a rebuild would give, *)
(* once every transaction committed and every bar stored has been announced *)
(* (but for the fallback to the snapshots, which announce nothing).         *)
THEOREM HistoryCurrentHolds == Spec => []HistoryCurrent
<1>1. Init => CInv /\ HInv
  <2>1. Init => HInv
    <3>1. ASSUME Init PROVE reader = NoReader /\ hist = NoCurve
      BY <3>1 DEF Init
    <3> QED BY <3>1, NoReaderIs DEF HInv, CurveCurrent, ReaderCurrent
  <2> QED BY <2>1, InitStep
<1>2. CInv /\ HInv /\ [Next]_vars => (CInv /\ HInv)'
  BY CacheStep, HistoryStep
<1>3. HInv => HistoryCurrent
  <2>1. ASSUME HInv, Curve(log["live"]).from = "candles" PROVE ~Fallback(log["live"])
    BY <2>1 DEF Curve, Fallback
  <2> QED BY <2>1 DEF HInv, CurveCurrent, HistoryCurrent, Hit
<1> QED BY <1>1, <1>2, <1>3, PTL DEF Spec

=============================================================================
