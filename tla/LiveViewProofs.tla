---------------------------- MODULE LiveViewProofs ----------------------------
(* Proofs about LiveView, for any writers, clients, checks, capacity and     *)
(* number of failed reads: the caches never serve what a mutation has made   *)
(* old, and the broadcaster consumes no update unsent, but for what a failed *)
(* read blanks.                                                              *)
EXTENDS LiveView, TLAPS

Bumped   == {w \in Writers : writer[w] \in {"bumped", "done"}}
Marked   == {w \in Writers : writer[w] = "done"}

(* A cached value was committed.                                             *)
CacheCommitted == cache.val \in Held

(* A blank value is a failed read of the orders.                             *)
BlankMeansFailed ==
    /\ \A r \in Readers : value[r] = Blank => lenient /\ failures > 0
    /\ OnlyOrdersGoBlank
    /\ FailuresShow

(* A value fetched under a revision that is still current has every mutation *)
(* that was bumped: storing it keeps the cache fresh.                        *)
FetchedFresh ==
    \A r \in Readers :
        reader[r] = "fetched" /\ readRev[r] = rev /\ value[r] # Blank
            => Bumped \subseteq value[r]

(* While the broadcaster works with the flag down, whatever it is going to   *)
(* send has every mutation marked so far: what it has in hand, and what it   *)
(* would find in the cache, or what a slow reader would put there first.     *)
BroadcasterSees ==
    ~dirty =>
        /\ reader[Broadcaster] \in {"fetched", "ready"} /\ value[Broadcaster] # Blank
               => Marked \subseteq value[Broadcaster]
        /\ reader[Broadcaster] = "loaded" =>
               /\ cache.rev = readRev[Broadcaster] /\ cache.val # Blank
                      => Marked \subseteq cache.val
               /\ \A r \in Readers :
                      reader[r] = "fetched" /\ readRev[r] = readRev[Broadcaster]
                          => value[r] = Blank \/ Marked \subseteq value[r]

IInv == TypeOK /\ CacheCommitted /\ BlankMeansFailed /\ CacheFresh /\ FetchedFresh
            /\ BroadcastCurrent /\ BroadcasterSees

(* What was committed can be held, and what is held can be shown.            *)
LEMMA HeldIsShown ==
    ASSUME TypeOK
    PROVE  {} \in Values /\ db \in Values /\ db \in Held /\ Blank \in Held /\ Held \subseteq Shown
  <1>1. db \subseteq Writers
    <2>1. db = {w \in Writers : writer[w] # "idle"}
      BY DEF TypeOK
    <2> QED BY <2>1
  <1>2. db \in Values /\ {} \in Values
    BY <1>1 DEF Values
  <1>3. ASSUME NEW v \in Held PROVE v \in Shown
    <2>1. CASE v \in SUBSET db
      BY <1>1, <2>1 DEF Shown, Values
    <2>2. CASE v = Blank
      BY <2>2 DEF Shown
    <2> QED BY <2>1, <2>2 DEF Held
  <1>4. db \in Held /\ Blank \in Held
    BY DEF Held
  <1> QED BY <1>2, <1>3, <1>4

(* A lagging receiver's queue stays within the channel's capacity.           *)
LEMMA PushFits ==
    ASSUME NEW q \in Seq(Shown), NEW v \in Shown, Len(q) <= Capacity
    PROVE  Push(q, v) \in Seq(Shown) /\ Len(Push(q, v)) <= Capacity
  <1>1. CASE Len(q) = Capacity
    <2>1. q # <<>>
      BY <1>1, LiveAssumption
    <2>2. Tail(q) \in Seq(Shown) /\ Len(Tail(q)) = Len(q) - 1
      BY <2>1
    <2> QED BY <1>1, <2>2, LiveAssumption DEF Push
  <1>2. CASE Len(q) # Capacity
    BY <1>2, LiveAssumption DEF Push
  <1> QED BY <1>1, <1>2

(* Types, and a cache of committed values, are kept by every step.           *)
LEMMA TypeStep ==
    ASSUME TypeOK, CacheCommitted, [Next]_vars
    PROVE  TypeOK' /\ CacheCommitted'
  <1> USE LiveAssumption, HeldIsShown DEF TypeOK, CacheCommitted, Readers, failVars
  <1>a. ASSUME UNCHANGED db PROVE Held' = Held
    BY <1>a DEF Held
  <1>1. ASSUME NEW w \in Writers, Commit(w) PROVE TypeOK' /\ CacheCommitted'
    BY <1>1 DEF Held, Commit, readVars, showVars, splitVars
  <1>2. ASSUME NEW w \in Writers, Bump(w) PROVE TypeOK' /\ CacheCommitted'
    BY <1>2, <1>a DEF Bump, readVars, showVars, splitVars
  <1>3. ASSUME NEW w \in Writers, Mark(w) PROVE TypeOK' /\ CacheCommitted'
    BY <1>3, <1>a DEF Mark, readVars, showVars, splitVars
  <1>4. ASSUME NEW r \in Readers, Lookup(r) PROVE TypeOK' /\ CacheCommitted'
    BY <1>4, <1>a DEF Lookup, Advance, writeVars, showVars, splitVars
  <1>5. ASSUME NEW r \in Readers, Fetch(r) PROVE TypeOK' /\ CacheCommitted'
    BY <1>5, <1>a DEF Fetch, Advance, writeVars, showVars, splitVars
  <1>5a. ASSUME NEW r \in Readers, FetchFails(r) PROVE TypeOK' /\ CacheCommitted'
    <2>1. /\ failures' \in 0 .. MaxFailures /\ sent' \in Held
          /\ value' \in [Readers -> Held]
      <3>1. failures' \in 0 .. MaxFailures
        BY <1>5a DEF FetchFails
      <3>2. value' = value \/ value' = [value EXCEPT ![r] = Blank]
        BY <1>5a DEF FetchFails
      <3>3. sent' = sent \/ sent' = Blank
        BY <1>5a DEF FetchFails
      <3> QED BY <3>1, <3>2, <3>3
    <2>2. reader' \in [Readers -> {"idle", "loaded", "missed", "fetched", "ready"}]
      BY <1>5a, <1>a DEF FetchFails, Advance
    <2>3. /\ shown' \in [Clients -> Shown \cup {Nothing}]
          /\ \A c \in subscribed : shown'[c] # Nothing
      <3>1. shown' = shown \/ shown' = [c \in Clients |-> IF c = r THEN Blank ELSE shown[c]]
        BY <1>5a DEF FetchFails
      <3> QED BY <3>1 DEF Shown
    <2> QED BY <1>5a, <1>a, <2>1, <2>2, <2>3 DEF FetchFails, writeVars, splitVars
  <1>6. ASSUME NEW r \in Readers, Store(r) PROVE TypeOK' /\ CacheCommitted'
    BY <1>6, <1>a DEF Store, Advance, writeVars, showVars, splitVars
  <1>7. ASSUME Tick PROVE TypeOK' /\ CacheCommitted'
    <2>1. readRev' \in [Readers -> 0 .. rev'] /\ rev' = rev
      BY <1>7, <1>a DEF Tick, LoadRevision, writeVars
    <2>2. reader' \in [Readers -> {"idle", "loaded", "missed", "fetched", "ready"}]
      BY <1>7, <1>a DEF Tick, LoadRevision, Advance
    <2> QED BY <1>7, <1>a, <2>1, <2>2 DEF Tick, LoadRevision, writeVars, showVars, splitVars
  <1>8. ASSUME Broadcast PROVE TypeOK' /\ CacheCommitted'
    <2>1. sent' \in Shown /\ sent' \in Held
      BY <1>8, <1>a DEF Broadcast
    <2>2. /\ queue' \in [Clients -> Seq(Shown)]
          /\ \A c \in Clients : /\ Len(queue'[c]) <= Capacity
                                /\ c \notin subscribed => queue'[c] = <<>>
      BY <1>8, <1>a, <2>1, PushFits DEF Broadcast
    <2> QED BY <1>8, <1>a, <2>1, <2>2 DEF Broadcast, Advance, writeVars, splitVars
  <1>9. ASSUME NEW c \in Clients, Connect(c) PROVE TypeOK' /\ CacheCommitted'
    BY <1>9, <1>a DEF Connect, LoadRevision, Advance, writeVars, showVars, splitVars
  <1>10. ASSUME NEW c \in Clients, ShowFirst(c) PROVE TypeOK' /\ CacheCommitted'
    BY <1>10, <1>a DEF ShowFirst, writeVars, readVars, splitVars
  <1>11. ASSUME NEW c \in Clients, Subscribe(c) PROVE TypeOK' /\ CacheCommitted'
    BY <1>11, <1>a DEF Subscribe, Advance, writeVars, splitVars
  <1>12. ASSUME NEW c \in Clients, Receive(c) PROVE TypeOK' /\ CacheCommitted'
    <2>1. /\ Head(queue[c]) \in Shown /\ Tail(queue[c]) \in Seq(Shown)
          /\ Len(Tail(queue[c])) <= Capacity /\ c \in subscribed
      BY <1>12, <1>a DEF Receive
    <2>2. /\ shown' = [shown EXCEPT ![c] = Head(queue[c])]
          /\ queue' = [queue EXCEPT ![c] = Tail(queue[c])]
      BY <1>12 DEF Receive
    <2>3. /\ queue' \in [Clients -> Seq(Shown)]
          /\ \A d \in Clients : Len(queue'[d]) <= Capacity /\ (d \notin subscribed => queue'[d] = <<>>)
      BY <2>1, <2>2
    <2>4. /\ shown' \in [Clients -> Shown \cup {Nothing}]
          /\ \A d \in subscribed : shown'[d] # Nothing
      BY <2>1, <2>2 DEF Shown
    <2> QED BY <1>12, <1>a, <2>3, <2>4 DEF Receive, writeVars, readVars, splitVars
  <1>13. ASSUME NEW c \in Clients, Leave(c) PROVE TypeOK' /\ CacheCommitted'
    BY <1>13, <1>a DEF Leave, Advance, writeVars, splitVars
  <1>14. ASSUME NEW k \in Checks, CheckSplits(k) PROVE TypeOK' /\ CacheCommitted'
    BY <1>14, <1>a DEF CheckSplits, writeVars, readVars, showVars
  <1>15. ASSUME NEW k \in Checks, CacheSplits(k) PROVE TypeOK' /\ CacheCommitted'
    BY <1>15, <1>a DEF CacheSplits, writeVars, readVars, showVars
  <1>16. ASSUME ExpireSplits PROVE TypeOK' /\ CacheCommitted'
    BY <1>16, <1>a DEF ExpireSplits, writeVars, readVars, showVars
  <1>17. CASE UNCHANGED vars
    BY <1>17, <1>a DEF vars, writeVars, readVars, showVars, splitVars
  <1> QED
    BY <1>1, <1>2, <1>3, <1>4, <1>5, <1>5a, <1>6, <1>7, <1>8, <1>9, <1>10, <1>11, <1>12,
       <1>13, <1>14, <1>15, <1>16, <1>17 DEF Next, BroadcasterStep, ClientStep, ReadStep

(* Only a failed read of the orders makes a value blank.                     *)
LEMMA BlankStep ==
    ASSUME TypeOK, CacheCommitted, BlankMeansFailed, [Next]_vars
    PROVE  BlankMeansFailed'
  <1> USE LiveAssumption
      DEF TypeOK, CacheCommitted, BlankMeansFailed, OnlyOrdersGoBlank, FailuresShow, Readers,
          Values, failVars
  <1>1. ASSUME NEW w \in Writers, Commit(w) \/ Bump(w) \/ Mark(w) PROVE BlankMeansFailed'
    BY <1>1 DEF Commit, Bump, Mark, readVars, showVars
  <1>2. ASSUME NEW r \in Readers, Lookup(r) PROVE BlankMeansFailed'
    BY <1>2 DEF Lookup, showVars
  <1>3. ASSUME NEW r \in Readers, Fetch(r) PROVE BlankMeansFailed'
    <2>1. db # Blank
      BY DEF Values
    <2> QED BY <1>3, <2>1 DEF Fetch, showVars
  <1>4. ASSUME NEW r \in Readers, FetchFails(r) PROVE BlankMeansFailed'
    BY <1>4 DEF FetchFails
  <1>5. ASSUME NEW r \in Readers, Store(r) PROVE BlankMeansFailed'
    BY <1>5 DEF Store, showVars
  <1>6. ASSUME Tick \/ \E c \in Clients : Connect(c) PROVE BlankMeansFailed'
    BY <1>6 DEF Tick, Connect, LoadRevision, showVars
  <1>7. ASSUME Broadcast PROVE BlankMeansFailed'
    BY <1>7 DEF Broadcast
  <1>8. ASSUME NEW c \in Clients, Subscribe(c) \/ Leave(c) \/ ShowFirst(c) \/ Receive(c)
        PROVE  BlankMeansFailed'
    BY <1>8 DEF Subscribe, Leave, ShowFirst, Receive, readVars
  <1>9. ASSUME \/ \E k \in Checks : CheckSplits(k) \/ CacheSplits(k)
               \/ ExpireSplits \/ UNCHANGED vars
        PROVE  BlankMeansFailed'
    BY <1>9 DEF CheckSplits, CacheSplits, ExpireSplits, readVars, showVars, vars
  <1> QED
    BY <1>1, <1>2, <1>3, <1>4, <1>5, <1>6, <1>7, <1>8, <1>9
    DEF Next, BroadcasterStep, ClientStep, ReadStep

(* The cache, and what slow readers are about to put into it, stay fresh.    *)
LEMMA FreshStep ==
    ASSUME TypeOK, CacheCommitted, CacheFresh, FetchedFresh, [Next]_vars
    PROVE  CacheFresh' /\ FetchedFresh'
  <1> USE LiveAssumption DEF TypeOK, CacheFresh, FetchedFresh, Bumped, Readers, Values, failVars
  <1>1. ASSUME NEW w \in Writers, Commit(w) PROVE CacheFresh' /\ FetchedFresh'
    BY <1>1 DEF Commit, readVars, showVars, splitVars
  <1>2. ASSUME NEW w \in Writers, Bump(w) PROVE CacheFresh' /\ FetchedFresh'
    BY <1>2 DEF Bump, readVars, showVars, splitVars
  <1>3. ASSUME NEW w \in Writers, Mark(w) PROVE CacheFresh' /\ FetchedFresh'
    BY <1>3 DEF Mark, readVars, showVars, splitVars
  <1>4. ASSUME NEW r \in Readers, Lookup(r) PROVE CacheFresh' /\ FetchedFresh'
    <2>1. UNCHANGED <<cache, rev, writer, readRev>>
      BY <1>4 DEF Lookup, writeVars
    <2>2. \A q \in Readers : reader'[q] = "fetched" => reader[q] = "fetched" /\ value'[q] = value[q]
      BY <1>4 DEF Lookup, Advance
    <2> QED BY <2>1, <2>2
  <1>5. ASSUME NEW r \in Readers, Fetch(r) PROVE CacheFresh' /\ FetchedFresh'
    BY <1>5 DEF Fetch, Advance, writeVars, showVars, splitVars
  <1>5a. ASSUME NEW r \in Readers, FetchFails(r) PROVE CacheFresh' /\ FetchedFresh'
    BY <1>5a DEF FetchFails, Advance, writeVars, splitVars
  <1>6. ASSUME NEW r \in Readers, Store(r) PROVE CacheFresh' /\ FetchedFresh'
    BY <1>6 DEF Store, Advance, writeVars, showVars, splitVars
  <1>7. ASSUME Tick PROVE CacheFresh' /\ FetchedFresh'
    BY <1>7 DEF Tick, LoadRevision, Advance, writeVars, showVars, splitVars
  <1>8. ASSUME Broadcast PROVE CacheFresh' /\ FetchedFresh'
    BY <1>8 DEF Broadcast, Advance, writeVars, splitVars
  <1>9. ASSUME NEW c \in Clients, Connect(c) PROVE CacheFresh' /\ FetchedFresh'
    BY <1>9 DEF Connect, LoadRevision, Advance, writeVars, showVars, splitVars
  <1>10. ASSUME NEW c \in Clients, Subscribe(c) \/ Leave(c) PROVE CacheFresh' /\ FetchedFresh'
    BY <1>10 DEF Subscribe, Leave, Advance, writeVars, splitVars
  <1>11. ASSUME UNCHANGED <<writeVars, dirty, readVars, sent>> PROVE CacheFresh' /\ FetchedFresh'
    BY <1>11 DEF writeVars, readVars
  <1>12. ASSUME NEW c \in Clients, ShowFirst(c) \/ Receive(c)
         PROVE  UNCHANGED <<writeVars, dirty, readVars, sent>>
    BY <1>12 DEF ShowFirst, Receive
  <1>13. ASSUME NEW k \in Checks, CheckSplits(k) \/ CacheSplits(k)
         PROVE  UNCHANGED <<writeVars, dirty, readVars, sent>>
    BY <1>13 DEF CheckSplits, CacheSplits, showVars
  <1>14. ExpireSplits \/ UNCHANGED vars => UNCHANGED <<writeVars, dirty, readVars, sent>>
    BY DEF ExpireSplits, showVars, vars
  <1> QED
    BY <1>1, <1>2, <1>3, <1>4, <1>5, <1>5a, <1>6, <1>7, <1>8, <1>9, <1>10, <1>11, <1>12, <1>13, <1>14
    DEF Next, BroadcasterStep, ClientStep, ReadStep

(* The broadcaster: once the flag is down, no step takes a marked mutation   *)
(* out of what it is about to send.                                          *)
LEMMA SeesStep ==
    ASSUME IInv, [Next]_vars
    PROVE  BroadcastCurrent' /\ BroadcasterSees'
  <1> USE LiveAssumption
      DEF IInv, TypeOK, CacheFresh, FetchedFresh, BroadcastCurrent, BroadcasterSees,
          Bumped, Marked, Readers, Values, failVars
  <1>1. ASSUME NEW w \in Writers, Commit(w) PROVE BroadcastCurrent' /\ BroadcasterSees'
    BY <1>1 DEF Commit, readVars, showVars, splitVars
  <1>2. ASSUME NEW w \in Writers, Bump(w) PROVE BroadcastCurrent' /\ BroadcasterSees'
    BY <1>2 DEF Bump, readVars, showVars, splitVars
  <1>3. ASSUME NEW w \in Writers, Mark(w) PROVE BroadcastCurrent' /\ BroadcasterSees'
    BY <1>3 DEF Mark, readVars, showVars, splitVars
  <1>4. ASSUME NEW r \in Readers, Lookup(r) PROVE BroadcastCurrent' /\ BroadcasterSees'
    <2>1. /\ reader[r] = "loaded" /\ Marked' = Marked
          /\ UNCHANGED <<writer, dirty, cache, readRev, sent>>
          /\ IF cache.rev = readRev[r]
             THEN /\ value' = [value EXCEPT ![r] = cache.val]
                  /\ reader' = [reader EXCEPT ![r] = "ready"]
             ELSE value' = value /\ reader' = [reader EXCEPT ![r] = "missed"]
      BY <1>4 DEF Lookup, Advance, writeVars, showVars
    <2>2. \A s \in Readers : reader'[s] = "fetched" => reader[s] = "fetched" /\ value'[s] = value[s]
      BY <2>1
    <2>3. CASE r = Broadcaster
      <3>1. reader'[Broadcaster] \in {"ready", "missed"}
        BY <2>1, <2>3
      <3>2. reader'[Broadcaster] = "ready" => cache.rev = readRev[Broadcaster] /\ value'[Broadcaster] = cache.val
        BY <2>1, <2>3
      <3> QED BY <2>1, <2>3, <3>1, <3>2
    <2>4. CASE r # Broadcaster
      <3>1. reader'[Broadcaster] = reader[Broadcaster] /\ value'[Broadcaster] = value[Broadcaster]
        BY <2>1, <2>4
      <3> QED BY <2>1, <2>2, <3>1
    <2> QED BY <2>3, <2>4
  <1>5. ASSUME NEW r \in Readers, Fetch(r) PROVE BroadcastCurrent' /\ BroadcasterSees'
    BY <1>5 DEF Fetch, Advance, writeVars, showVars, splitVars
  <1>5a. ASSUME NEW r \in Readers, FetchFails(r) PROVE BroadcastCurrent' /\ BroadcasterSees'
    <2>1. reader[r] = "missed" /\ Marked' = Marked /\ UNCHANGED <<writer, dirty, cache, readRev>>
      BY <1>5a DEF FetchFails, writeVars
    <2>2. CASE lenient
      <3>1. /\ value' = [value EXCEPT ![r] = Blank] /\ reader' = [reader EXCEPT ![r] = "fetched"]
            /\ sent' = sent
        BY <1>5a, <2>2 DEF FetchFails, Advance
      <3>2. \A q \in Readers : q # r => value'[q] = value[q] /\ reader'[q] = reader[q]
        BY <3>1
      <3>3. value'[r] = Blank /\ reader'[r] = "fetched"
        BY <3>1
      <3>4. BroadcastCurrent'
        BY <2>1, <3>1, <3>2, <3>3
      <3>5. BroadcasterSees'
        BY <2>1, <3>2, <3>3
      <3> QED BY <3>4, <3>5
    <2>3. CASE ~lenient
      <3>1. /\ reader' = [reader EXCEPT ![r] = IF r = Broadcaster THEN "idle" ELSE "ready"]
            /\ value' = value /\ sent' = (IF r = Broadcaster THEN Blank ELSE sent)
        BY <1>5a, <2>3 DEF FetchFails, Advance
      <3>2. BroadcastCurrent'
        BY <2>1, <3>1
      <3>3. BroadcasterSees'
        BY <2>1, <3>1
      <3> QED BY <3>2, <3>3
    <2> QED BY <2>2, <2>3
  <1>6. ASSUME NEW r \in Readers, Store(r) PROVE BroadcastCurrent' /\ BroadcasterSees'
    BY <1>6 DEF Store, Advance, writeVars, showVars, splitVars
  <1>7. ASSUME Tick PROVE BroadcastCurrent' /\ BroadcasterSees'
    <2>1. /\ reader' = [reader EXCEPT ![Broadcaster] = "loaded"]
          /\ readRev' = [readRev EXCEPT ![Broadcaster] = rev]
          /\ UNCHANGED <<writer, rev, cache, value>>
      BY <1>7 DEF Tick, LoadRevision, Advance, writeVars
    <2>2. Marked' = Marked /\ Marked \subseteq Bumped
      BY <2>1
    <2>3. reader'[Broadcaster] = "loaded" /\ readRev'[Broadcaster] = rev
      BY <2>1
    <2>4. cache.rev = rev /\ cache.val # Blank => Marked \subseteq cache.val
      BY <2>2
    <2>5. \A r \in Readers : reader'[r] = "fetched" /\ readRev'[r] = rev /\ value[r] # Blank
                               => Marked \subseteq value[r]
      BY <2>1, <2>2
    <2>6. BroadcasterSees'
      <3>1. reader'[Broadcaster] \notin {"fetched", "ready"}
        BY <2>3
      <3>2. cache'.rev = readRev'[Broadcaster] /\ cache'.val # Blank => Marked' \subseteq cache'.val
        BY <2>1, <2>2, <2>3, <2>4
      <3>3. ASSUME NEW q \in Readers, reader'[q] = "fetched", readRev'[q] = readRev'[Broadcaster],
                   value'[q] # Blank
            PROVE  Marked' \subseteq value'[q]
        BY <2>1, <2>2, <2>3, <2>5, <3>3
      <3> QED BY ONLY <3>1, <3>2, <3>3 DEF BroadcasterSees
    <2>7. BroadcastCurrent'
      BY <2>3
    <2> QED BY <2>6, <2>7
  <1>8. ASSUME Broadcast PROVE BroadcastCurrent' /\ BroadcasterSees'
    BY <1>8 DEF Broadcast, Advance, writeVars, splitVars
  <1>9. ASSUME NEW c \in Clients, Connect(c) PROVE BroadcastCurrent' /\ BroadcasterSees'
    BY <1>9 DEF Connect, LoadRevision, Advance, writeVars, showVars, splitVars
  <1>10. ASSUME NEW c \in Clients, Subscribe(c) \/ Leave(c) PROVE BroadcastCurrent' /\ BroadcasterSees'
    BY <1>10 DEF Subscribe, Leave, Advance, writeVars, splitVars
  <1>11. ASSUME UNCHANGED <<writeVars, dirty, readVars, sent>> PROVE BroadcastCurrent' /\ BroadcasterSees'
    BY <1>11 DEF writeVars, readVars
  <1>12. ASSUME NEW c \in Clients, ShowFirst(c) \/ Receive(c)
         PROVE  UNCHANGED <<writeVars, dirty, readVars, sent>>
    BY <1>12 DEF ShowFirst, Receive
  <1>13. ASSUME NEW k \in Checks, CheckSplits(k) \/ CacheSplits(k)
         PROVE  UNCHANGED <<writeVars, dirty, readVars, sent>>
    BY <1>13 DEF CheckSplits, CacheSplits, showVars
  <1>14. ExpireSplits \/ UNCHANGED vars => UNCHANGED <<writeVars, dirty, readVars, sent>>
    BY DEF ExpireSplits, showVars, vars
  <1> QED
    BY <1>1, <1>2, <1>3, <1>4, <1>5, <1>5a, <1>6, <1>7, <1>8, <1>9, <1>10, <1>11, <1>12, <1>13, <1>14
    DEF Next, BroadcasterStep, ClientStep, ReadStep

(* Start-up: nothing written, cached or subscribed.                          *)
LEMMA InitIsFine == Init => IInv
  <1> SUFFICES ASSUME Init PROVE IInv
    OBVIOUS
  <1>1. TypeOK
    <2>1. /\ writer \in [Writers -> {"idle", "committed", "bumped", "done"}]
          /\ db = {w \in Writers : writer[w] # "idle"}
      BY DEF Init
    <2>2. {} \in Values
      BY DEF Values
    <2>3. /\ cache \in [rev : Nat, val : Shown] /\ rev \in Nat /\ cache.rev <= rev
          /\ dirty \in BOOLEAN
      <3>1. cache = [rev |-> 0, val |-> {}] /\ rev = 0 /\ dirty = FALSE
        BY DEF Init
      <3>2. 0 \in Nat /\ 0 <= 0
        OBVIOUS
      <3>3. cache \in [rev : Nat, val : Shown]
        BY <2>2, <3>1, <3>2 DEF Shown
      <3>4. cache.rev = 0
        BY <3>1
      <3> QED BY <3>1, <3>2, <3>3, <3>4
    <2>4. /\ reader \in [Readers -> {"idle", "loaded", "missed", "fetched", "ready"}]
          /\ readRev \in [Readers -> 0 .. rev]
          /\ value \in [Readers -> Held]
          /\ lenient \in BOOLEAN /\ failures \in 0 .. MaxFailures
      BY LiveAssumption DEF Init, Held
    <2>5. /\ sent \in Held /\ subscribed \subseteq Clients
          /\ queue \in [Clients -> Seq(Shown)]
          /\ \A c \in Clients : Len(queue[c]) <= Capacity /\ queue[c] = <<>>
          /\ \A c \in Clients : shown[c] = Nothing
      BY LiveAssumption DEF Init, Held
    <2>6. /\ check \in [Checks -> {"idle", "computing"}]
          /\ found \in [Checks -> Values]
          /\ splits = Nothing
      BY DEF Init, Values
    <2> QED BY <2>1, <2>3, <2>4, <2>5, <2>6 DEF Init, TypeOK
  <1>2. CacheCommitted /\ BlankMeansFailed /\ CacheFresh /\ FetchedFresh /\ BroadcastCurrent /\ BroadcasterSees
    BY LiveAssumption
    DEF Init, Values, Held, CacheCommitted, BlankMeansFailed, OnlyOrdersGoBlank, FailuresShow,
        CacheFresh, FetchedFresh, BroadcastCurrent, BroadcasterSees,
        Bumped, Marked, Readers
  <1> QED BY <1>1, <1>2 DEF IInv

(* The inductive invariant: freshness of the cache and of the broadcasts,    *)
(* strengthened by what slow readers and the broadcaster have in hand.       *)
THEOREM Invariant == Spec => []IInv
  <1>1. Init => IInv
    BY InitIsFine
  <1>2. IInv /\ [Next]_vars => IInv'
    BY TypeStep, BlankStep, FreshStep, SeesStep DEF IInv
  <1> QED BY <1>1, <1>2, PTL DEF Spec

(* A cached value under the current revision is never old, and a flag that   *)
(* is down between two snapshots means everything marked was broadcast,      *)
(* unless a read failed: and only then is anything blank.                    *)
THEOREM NothingStaleHolds == Spec => []NothingStale
  <1>1. IInv => NothingStale
    BY DEF IInv, BlankMeansFailed, NothingStale
  <1> QED BY <1>1, Invariant, PTL
===============================================================================
