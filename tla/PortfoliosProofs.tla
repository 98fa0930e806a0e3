-------------------------- MODULE PortfoliosProofs --------------------------
(* Proofs about Portfolios, for any names, files, legacy registry and        *)
(* requests: no switch leaves an order behind, no file goes that is open or  *)
(* named, and no two portfolios come to share one.                           *)
EXTENDS Portfolios, SequenceTheorems, TLAPS

Registries ==
  {r \in [active : Names, entries : Seq(Entries)] :
     /\ r.active \in Listed(r)
     /\ \A i \in DOMAIN r.entries : r.entries[i].db \in {Slug[r.entries[i].name], DefaultDb}
     /\ \A i, j \in DOMAIN r.entries : r.entries[i].name = r.entries[j].name => i = j}

(* What a request under way may hold.                                        *)
Switching == {s \in [op : {"switch"}, name : Names, at : {"wait", "count", "close"},
                     reg : Registries] : s.name \in Listed(s.reg)}
Deleting  == [op : {"delete"}, name : Files, at : {"unlink"}, reg : {<< >>}]

Shapes ==
  /\ reg \in Registries
  /\ orders \in [Files -> SUBSET {"ours", "external"}]
  /\ pool \in [db : Files, open : BOOLEAN] /\ adrift \subseteq Files
  /\ up \in {"up", "draining", "down"}
  /\ req \in [Requests -> {Idle} \union Switching \union Deleting]

Locking ==
  /\ lock \in Requests \union {Nobody}
  /\ \A q \in Requests : lock = q <=> req[q].at \in {"count", "close", "unlink"}

(* The open pool is on the active portfolio's file, or left adrift, except   *)
(* between the save of a switch and the close; there no order of ours is     *)
(* working.                                                                  *)
PoolIsActive ==
  \/ ~pool.open
  \/ pool.db = ActiveEntry(reg).db
  \/ pool.db \in adrift
  \/ \E q \in Requests : req[q].at = "close"

NothingWorking ==
  (\E q \in Requests : req[q].at = "close") =>
    /\ up # "down"
    /\ \A f \in (Files \ adrift) \union {pool.db} : "ours" \notin orders[f]

OpenIsUp == pool.open => up = "up"

(* NoOrderLeft, and an open pool is on the one file with orders: a switch    *)
(* that counts none in an adrift file leaves none in the active one either.  *)
OrdersAreActive ==
  \A f \in Files \ adrift :
    "ours" \in orders[f] => f = ActiveEntry(reg).db /\ (pool.open => pool.db = f)

IInv == Shapes /\ Locking /\ PoolIsActive /\ NothingWorking /\ OpenIsUp /\ OrdersAreActive

-----------------------------------------------------------------------------
(* Registries *)

(* The active entry is the one with the active name.                         *)
LEMMA ActiveIs ==
  ASSUME NEW r \in Registries, NEW i \in DOMAIN r.entries, r.entries[i].name = r.active
  PROVE  ActiveEntry(r) = r.entries[i]
  <1>1. r.active \in Listed(r)
    BY DEF Registries
  <1>2. \A j \in DOMAIN r.entries : r.entries[j].name = r.active <=> j = i
    BY DEF Registries
  <1>3. DbOf(r, r.active) = i
    BY <1>2 DEF DbOf
  <1> QED BY <1>1, <1>3 DEF ActiveEntry

(* Some entry has it, and its file is a file.                                *)
LEMMA ActiveExists ==
  ASSUME NEW r \in Registries
  PROVE  /\ \E i \in DOMAIN r.entries : r.entries[i].name = r.active
         /\ ActiveEntry(r).db \in Files
  <1>1. PICK i \in DOMAIN r.entries : r.entries[i].name = r.active
    BY DEF Registries, Listed
  <1>2. ActiveEntry(r) = r.entries[i]
    BY <1>1, ActiveIs
  <1>3. r.entries[i] \in Entries
    BY <1>1 DEF Registries
  <1> QED BY <1>1, <1>2, <1>3 DEF Entries

(* A created portfolio leaves the active one alone.                          *)
LEMMA Appended ==
  ASSUME NEW r \in Registries, NEW e \in Entries, e.name \notin Listed(r),
         e.db = Slug[e.name], NEW s, s = [r EXCEPT !.entries = Append(@, e)]
  PROVE  s \in Registries /\ ActiveEntry(s) = ActiveEntry(r)
  <1> DEFINE old == r.entries
             new == s.entries
  <1>1. /\ r \in [active : Names, entries : Seq(Entries)]
        /\ s \in [active : Names, entries : Seq(Entries)] /\ s.active = r.active
        /\ new = Append(old, e)
    <2>1. r \in [active : Names, entries : Seq(Entries)]
      BY DEF Registries
    <2>2. Append(r.entries, e) \in Seq(Entries)
      BY <2>1
    <2> QED BY <2>1, <2>2
  <1>2. /\ DOMAIN old = 1 .. Len(old) /\ Len(old) \in Nat
        /\ DOMAIN new = 1 .. Len(old) + 1
        /\ new[Len(old) + 1] = e
        /\ \A i \in 1 .. Len(old) : new[i] = old[i]
    BY <1>1
  <1>3. \A i \in DOMAIN old : old[i].name # e.name
    BY DEF Listed
  <1>4. \A i, j \in DOMAIN new : new[i].name = new[j].name => i = j
    <2> HIDE DEF old, new
    <2>1. \A i \in DOMAIN new : i \in DOMAIN old \/ i = Len(old) + 1
      BY <1>2
    <2>2. \A i, j \in DOMAIN old : old[i].name = old[j].name => i = j
      BY DEF Registries, old
    <2> QED BY <1>2, <1>3, <2>1, <2>2
  <1>5. PICK i \in DOMAIN old : old[i].name = r.active
    BY ActiveExists
  <1>6. i \in DOMAIN new /\ new[i] = old[i]
    BY <1>2
  <1>7. s.active \in Listed(s)
    BY <1>1, <1>5, <1>6 DEF Listed
  <1>8. s \in Registries
    <2>1. \A j \in DOMAIN old : old[j].db \in {Slug[old[j].name], DefaultDb}
      BY DEF Registries
    <2>2. \A j \in DOMAIN new : new[j].db \in {Slug[new[j].name], DefaultDb}
      <3> HIDE DEF old, new
      <3>1. \A j \in DOMAIN new : j \in DOMAIN old \/ j = Len(old) + 1
        BY <1>2
      <3> QED BY <1>2, <2>1, <3>1
    <2> QED BY <1>1, <1>4, <1>7, <2>2 DEF Registries
  <1>9. ActiveEntry(s) = new[i] /\ ActiveEntry(r) = old[i]
    BY <1>1, <1>5, <1>6, <1>8, ActiveIs
  <1> QED BY <1>6, <1>8, <1>9

(* The sequence without its k-th element, element by element.                *)
LEMMA RemovedIs ==
  ASSUME NEW S, NEW old \in Seq(S), NEW k \in DOMAIN old,
         NEW new, new = RemoveAt(old, k)
  PROVE  /\ new \in Seq(S) /\ DOMAIN new = 1 .. Len(old) - 1
         /\ \A i \in DOMAIN new : /\ (IF i < k THEN i ELSE i + 1) \in DOMAIN old
                                  /\ new[i] = old[IF i < k THEN i ELSE i + 1]
         /\ \A i \in DOMAIN old \ {k} : \E j \in DOMAIN new : new[j] = old[i]
  <1> DEFINE From(i) == IF i < k THEN i ELSE i + 1
             left == SubSeq(old, 1, k - 1)
             right == SubSeq(old, k + 1, Len(old))
  <1>1. Len(old) \in Nat /\ DOMAIN old = 1 .. Len(old) /\ k \in 1 .. Len(old)
    OBVIOUS
  <1>2. new = left \o right
    BY DEF RemoveAt
  <1>3. \A i \in 1 .. Len(old) : old[i] \in S
    OBVIOUS
  <1>4. /\ left \in Seq(S) /\ Len(left) = k - 1
        /\ \A i \in 1 .. k - 1 : left[i] = old[i]
    <2>1. \A i \in 1 .. k - 1 : old[i] \in S
      BY <1>1, <1>3
    <2> QED BY <1>1, <2>1, SubSeqProperties
  <1>5. /\ right \in Seq(S) /\ Len(right) = Len(old) - k
        /\ \A i \in 1 .. Len(old) - k : right[i] = old[k + i]
    <2>1. \A i \in k + 1 .. Len(old) : old[i] \in S
      BY <1>1, <1>3
    <2>2. /\ right \in Seq(S)
          /\ Len(right) = IF k + 1 <= Len(old) THEN Len(old) - (k + 1) + 1 ELSE 0
          /\ \A i \in 1 .. Len(old) - (k + 1) + 1 : right[i] = old[(k + 1) + i - 1]
      BY <1>1, <2>1, SubSeqProperties
    <2> QED BY <1>1, <2>2
  <1> HIDE DEF left, right
  <1>6. /\ left \o right \in Seq(S)
        /\ Len(left \o right) = Len(old) - 1
        /\ \A i \in 1 .. Len(old) - 1 :
               (left \o right)[i] = IF i <= k - 1 THEN left[i] ELSE right[i - (k - 1)]
    <2>1. Len(left) + Len(right) = Len(old) - 1
      BY <1>1, <1>4, <1>5
    <2>2. /\ left \o right \in Seq(S)
          /\ Len(left \o right) = Len(left) + Len(right)
          /\ \A i \in 1 .. Len(left) + Len(right) : (left \o right)[i] =
                 IF i <= Len(left) THEN left[i] ELSE right[i - Len(left)]
      BY <1>4, <1>5, ConcatProperties
    <2> QED BY <1>4, <2>1, <2>2
  <1>7. \A i \in 1 .. Len(old) - 1 : (left \o right)[i] = old[From(i)]
    <2>1. ASSUME NEW i \in 1 .. Len(old) - 1, i < k
          PROVE  (left \o right)[i] = old[i]
      <3>1. i <= k - 1 /\ i \in 1 .. k - 1
        BY <1>1, <2>1
      <3> QED BY <1>4, <1>6, <3>1
    <2>2. ASSUME NEW i \in 1 .. Len(old) - 1, ~(i < k)
          PROVE  (left \o right)[i] = old[i + 1]
      <3>1. ~(i <= k - 1) /\ i - (k - 1) \in 1 .. Len(old) - k /\ k + (i - (k - 1)) = i + 1
        BY <1>1, <2>2
      <3> QED BY <1>5, <1>6, <3>1
    <2> QED BY <2>1, <2>2
  <1>8. DOMAIN new = 1 .. Len(old) - 1 /\ new \in Seq(S)
    BY <1>2, <1>6
  <1>9. \A i \in 1 .. Len(old) - 1 : From(i) \in 1 .. Len(old)
    BY <1>1
  <1>10. ASSUME NEW i \in DOMAIN old \ {k} PROVE \E j \in DOMAIN new : new[j] = old[i]
    <2> DEFINE j == IF i < k THEN i ELSE i - 1
    <2>1. j \in 1 .. Len(old) - 1 /\ From(j) = i
      BY <1>1
    <2> HIDE DEF j, From
    <2> QED BY <1>2, <1>7, <1>8, <2>1
  <1> QED BY <1>1, <1>2, <1>7, <1>8, <1>9, <1>10

(* So does the deletion of another one.                                      *)
LEMMA Removed ==
  ASSUME NEW r \in Registries, NEW k \in DOMAIN r.entries, r.entries[k].name # r.active,
         NEW s, s = [r EXCEPT !.entries = RemoveAt(@, k)]
  PROVE  s \in Registries /\ ActiveEntry(s) = ActiveEntry(r)
  <1> DEFINE old == r.entries
             new == s.entries
             From(i) == IF i < k THEN i ELSE i + 1
  <1>1. /\ r \in [active : Names, entries : Seq(Entries)]
        /\ old \in Seq(Entries)
    BY DEF Registries
  <1>2. s.active = r.active /\ new = RemoveAt(old, k)
    BY <1>1
  <1>3. /\ new \in Seq(Entries) /\ DOMAIN new = 1 .. Len(old) - 1
        /\ \A i \in DOMAIN new : From(i) \in DOMAIN old /\ new[i] = old[From(i)]
        /\ \A i \in DOMAIN old \ {k} : \E j \in DOMAIN new : new[j] = old[i]
    BY <1>1, <1>2, RemovedIs
  <1>4. Len(old) \in Nat /\ DOMAIN old = 1 .. Len(old) /\ k \in 1 .. Len(old)
    BY <1>1
  <1>5. \A i, j \in DOMAIN new : new[i].name = new[j].name => i = j
    <2>1. \A i, j \in DOMAIN old : old[i].name = old[j].name => i = j
      BY DEF Registries
    <2> HIDE DEF new, old
    <2>2. ASSUME NEW i \in DOMAIN new, NEW j \in DOMAIN new, new[i].name = new[j].name
          PROVE  i = j
      <3>1. From(i) = From(j)
        <4> HIDE DEF From
        <4> QED BY <1>3, <2>1, <2>2
      <3> QED BY <1>3, <1>4, <3>1
    <2> QED BY <2>2
  <1>6. \A i \in DOMAIN new : new[i].db \in {Slug[new[i].name], DefaultDb}
    <2>1. \A i \in DOMAIN old : old[i].db \in {Slug[old[i].name], DefaultDb}
      BY DEF Registries
    <2> HIDE DEF new, old, From
    <2> QED BY <1>3, <2>1
  <1>7. PICK i \in DOMAIN old : old[i].name = r.active
    BY ActiveExists
  <1>8. PICK j \in DOMAIN new : new[j] = old[i]
    BY <1>3, <1>7
  <1>9. s \in [active : Names, entries : Seq(Entries)]
    BY <1>1, <1>3
  <1>10. s.active \in Listed(s)
    BY <1>2, <1>7, <1>8 DEF Listed
  <1>11. s \in Registries
    BY <1>5, <1>6, <1>9, <1>10 DEF Registries
  <1>12. ActiveEntry(s) = new[j] /\ ActiveEntry(r) = old[i]
    BY <1>2, <1>7, <1>8, <1>11, ActiveIs
  <1> QED BY <1>8, <1>11, <1>12

-----------------------------------------------------------------------------
(* Start-up.                                                                 *)
LEMMA InitIsFine == Init => IInv
  <1> SUFFICES ASSUME Init PROVE IInv
    OBVIOUS
  <1>1. DefaultRegistry \in Registries
    <2> DEFINE es == << [name |-> Default, db |-> DefaultDb] >>
    <2>1. es \in Seq(Entries) /\ DOMAIN es = {1} /\ es[1].name = Default
      BY PortfolioConstants DEF Entries, Files
    <2> QED BY <2>1, PortfolioConstants DEF DefaultRegistry, Registries, Listed
  <1>2. Legacy # <<>> => [active |-> Legacy[1].name, entries |-> Legacy] \in Registries
    <2>1. Legacy # <<>> => 1 \in DOMAIN Legacy /\ Legacy[1] \in Entries
      BY PortfolioConstants
    <2> QED BY <2>1, PortfolioConstants DEF Registries, Listed, Entries
  <1>3. reg \in Registries
    BY <1>1, <1>2 DEF Init
  <1>4. Shapes
    BY <1>3, ActiveExists DEF Init, Shapes
  <1>5. Locking
    BY PortfolioConstants DEF Init, Locking, Idle
  <1>6. PoolIsActive /\ NothingWorking /\ OpenIsUp /\ OrdersAreActive
    BY DEF Init, PoolIsActive, NothingWorking, OpenIsUp, OrdersAreActive, Idle
  <1> QED BY <1>4, <1>5, <1>6 DEF IInv

(* Steps that take, keep or give back the lock, one by one.                  *)
LEMMA StepKeeps ==
  ASSUME IInv, [Next]_vars
  PROVE  IInv'
  <1> USE PortfolioConstants DEF IInv
  <1>1. ASSUME NEW q \in Requests, NEW n \in Names, Create(q, n) PROVE IInv'
    <2>1. [name |-> n, db |-> Slug[n]] \in Entries /\ n \notin Listed(reg)
      BY <1>1 DEF Create, Clashes, Entries, Files
    <2>2. reg' \in Registries /\ ActiveEntry(reg') = ActiveEntry(reg)
      BY <1>1, <2>1, Appended DEF Create, Shapes
    <2>3. UNCHANGED <<orders, adrift, pool, up, lock, req>>
      BY <1>1 DEF Create
    <2> QED BY <2>2, <2>3
        DEF Shapes, Locking, PoolIsActive, NothingWorking, OpenIsUp, OrdersAreActive
  <1>2. ASSUME NEW q \in Requests, NEW n \in Names, SwitchLoad(q, n) PROVE IInv'
    <2>1. [op |-> "switch", name |-> n, at |-> "wait", reg |-> reg] \in Switching
      BY <1>2 DEF SwitchLoad, Shapes, Switching
    <2>2. /\ req[q] = Idle
          /\ req' = [req EXCEPT ![q] = [op |-> "switch", name |-> n, at |-> "wait", reg |-> reg]]
          /\ UNCHANGED <<reg, adrift, orders, pool, up, lock>>
      BY <1>2 DEF SwitchLoad
    <2>3. Shapes'
      BY <2>1, <2>2 DEF Shapes
    <2>4. \A p \in Requests : req'[p].at = req[p].at \/ (p = q /\ req[p].at = "idle" /\ req'[p].at = "wait")
      BY <2>2 DEF Shapes, Idle
    <2> QED BY <2>2, <2>3, <2>4 DEF Locking, PoolIsActive, NothingWorking, OpenIsUp, OrdersAreActive
  <1>3. ASSUME NEW q \in Requests, SwitchLock(q) PROVE IInv'
    <2>1. /\ req[q] \in Switching /\ req[q].at = "wait" /\ lock = Nobody /\ lock' = q
          /\ req' = [req EXCEPT ![q].at = "count"]
          /\ UNCHANGED <<reg, adrift, orders, pool, up>>
      BY <1>3 DEF SwitchLock, Shapes, Idle, Deleting
    <2>2. [req[q] EXCEPT !.at = "count"] \in Switching
      BY <2>1 DEF Switching
    <2>3. Shapes'
      BY <2>1, <2>2 DEF Shapes
    <2>4. req'[q].at = "count" /\ \A p \in Requests \ {q} : req'[p] = req[p]
      BY <2>1 DEF Shapes, Switching
    <2>5. Locking'
      BY <2>1, <2>4 DEF Locking
    <2>6. \A p \in Requests : req'[p].at = "close" <=> req[p].at = "close"
      BY <2>1, <2>4
    <2> QED BY <2>1, <2>3, <2>5, <2>6 DEF PoolIsActive, NothingWorking, OpenIsUp, OrdersAreActive
  <1>4. ASSUME NEW q \in Requests, SwitchRefuse(q) PROVE IInv'
    <2>1. /\ req[q].at = "count" /\ lock' = Nobody /\ req' = [req EXCEPT ![q] = Idle]
          /\ UNCHANGED <<reg, adrift, orders, pool, up>>
      BY <1>4 DEF SwitchRefuse, Done
    <2>2. req'[q].at = "idle" /\ \A p \in Requests \ {q} : req'[p] = req[p]
      BY <2>1 DEF Shapes, Idle
    <2>3. Shapes'
      BY <2>1 DEF Shapes
    <2>4. Locking'
      BY <2>1, <2>2 DEF Locking
    <2>5. \A p \in Requests : req'[p].at = "close" <=> req[p].at = "close"
      BY <2>1, <2>2
    <2> QED BY <2>1, <2>3, <2>4, <2>5 DEF PoolIsActive, NothingWorking, OpenIsUp, OrdersAreActive
  <1>5. ASSUME NEW q \in Requests, SwitchSave(q) PROVE IInv'
    <2>1. /\ req[q] \in Switching /\ req[q].at = "count" /\ lock = q
          /\ orders[pool.db] = {} /\ pool.open
          /\ reg' = [req[q].reg EXCEPT !.active = req[q].name]
          /\ req' = [req EXCEPT ![q].at = "close"]
          /\ UNCHANGED <<orders, adrift, pool, up, lock>>
      BY <1>5 DEF SwitchSave, Shapes, Idle, Deleting, Locking
    <2>2. reg' \in Registries
      BY <2>1 DEF Switching, Registries, Listed
    <2>3. [req[q] EXCEPT !.at = "close"] \in Switching
      BY <2>1 DEF Switching
    <2>4. Shapes'
      BY <2>1, <2>2, <2>3 DEF Shapes
    <2>5. req'[q].at = "close" /\ \A p \in Requests \ {q} : req'[p] = req[p]
      BY <2>1 DEF Shapes, Switching
    <2>6. Locking'
      BY <2>1, <2>5 DEF Locking
    <2>7. pool.db \in Files
      BY DEF Shapes
    <2>8. \A f \in (Files \ adrift) \union {pool.db} : "ours" \notin orders[f]
      BY <2>1, <2>7 DEF OrdersAreActive
    <2> QED BY <2>1, <2>4, <2>5, <2>6, <2>8
        DEF PoolIsActive, NothingWorking, OpenIsUp, OrdersAreActive
  <1>6. ASSUME NEW q \in Requests, SwitchClose(q) PROVE IInv'
    <2>1. /\ req[q].at = "close" /\ lock' = Nobody /\ req' = [req EXCEPT ![q] = Idle]
          /\ pool' = [pool EXCEPT !.open = FALSE] /\ up' = "draining"
          /\ adrift' = adrift \ {pool.db} /\ UNCHANGED <<reg, orders>>
      BY <1>6 DEF SwitchClose, Done
    <2>2. req'[q].at = "idle" /\ \A p \in Requests \ {q} : req'[p] = req[p]
      BY <2>1 DEF Shapes, Idle
    <2>3. pool'.open = FALSE /\ Shapes'
      BY <2>1 DEF Shapes
    <2>4. Locking'
      BY <2>1, <2>2 DEF Locking
    <2>5. \A f \in (Files \ adrift) \union {pool.db} : "ours" \notin orders[f]
      BY <2>1 DEF NothingWorking
    <2>6. \A p \in Requests : req'[p].at # "close"
      BY <2>1, <2>2 DEF Locking
    <2> QED BY <2>1, <2>3, <2>4, <2>5, <2>6 DEF PoolIsActive, NothingWorking, OpenIsUp, OrdersAreActive
  <1>14. ASSUME NEW q \in Requests, SwitchDropped(q) PROVE IInv'
    <2>1. /\ req[q].op = "switch" /\ req' = [req EXCEPT ![q] = Idle]
          /\ lock' = IF lock = q THEN Nobody ELSE lock
          /\ UNCHANGED <<reg, orders, up>>
      BY <1>14 DEF SwitchDropped, Done
    <2>2. req'[q].at = "idle" /\ \A p \in Requests \ {q} : req'[p] = req[p]
      BY <2>1 DEF Shapes, Idle
    <2>3. \/ req[q].at # "close" /\ UNCHANGED <<pool, adrift>>
          \/ /\ req[q].at = "close" /\ pool' = [pool EXCEPT !.open = FALSE]
             /\ adrift' = adrift \ {pool.db}
          \/ req[q].at = "close" /\ adrift' = adrift \union {pool.db} /\ UNCHANGED pool
      BY <1>14 DEF SwitchDropped
    <2>4. Shapes'
      BY <2>1, <2>3 DEF Shapes
    <2>5. Locking'
      BY <2>1, <2>2 DEF Locking
    <2>6. CASE req[q].at # "close" /\ UNCHANGED <<pool, adrift>>
      <3>1. \A p \in Requests : req'[p].at = "close" <=> req[p].at = "close"
        BY <2>2, <2>6
      <3> QED BY <2>1, <2>4, <2>5, <2>6, <3>1
          DEF PoolIsActive, NothingWorking, OpenIsUp, OrdersAreActive
    <2>7. CASE req[q].at = "close"
      <3>1. \A p \in Requests : req'[p].at # "close"
        BY <2>2, <2>7 DEF Locking
      <3>2. \A f \in (Files \ adrift) \union {pool.db} : "ours" \notin orders[f]
        BY <2>7 DEF NothingWorking
      <3>3. \/ pool'.open = FALSE /\ adrift' = adrift \ {pool.db}
            \/ pool' = pool /\ adrift' = adrift \union {pool.db}
        BY <2>3, <2>7 DEF Shapes
      <3> QED BY <2>1, <2>4, <2>5, <3>1, <3>2, <3>3
          DEF PoolIsActive, NothingWorking, OpenIsUp, OrdersAreActive
    <2> QED BY <2>3, <2>6, <2>7
  <1>7. ASSUME NEW q \in Requests, NEW n \in Names, DeleteSave(q, n) PROVE IInv'
    <2> DEFINE k == DbOf(reg, n)
               held == [op |-> "delete", name |-> reg.entries[k].db, at |-> "unlink", reg |-> << >>]
    <2>1. k \in DOMAIN reg.entries /\ reg.entries[k].name = n
      BY <1>7 DEF DeleteSave, DbOf, Listed
    <2>2. /\ reg' = [reg EXCEPT !.entries = RemoveAt(@, k)] /\ reg.active # n
          /\ req[q] = Idle /\ lock = Nobody /\ lock' = q
          /\ req' = [req EXCEPT ![q] = held]
          /\ UNCHANGED <<orders, adrift, pool, up>>
      BY <1>7 DEF DeleteSave
    <2>3. reg' \in Registries /\ ActiveEntry(reg') = ActiveEntry(reg)
      BY <2>1, <2>2, Removed DEF Shapes
    <2>4. held \in Deleting
      <3>1. reg.entries[k] \in Entries
        BY <2>1 DEF Shapes, Registries
      <3> QED BY <3>1 DEF Entries, Deleting
    <2> HIDE DEF k, held
    <2>5. Shapes'
      BY <2>2, <2>3, <2>4 DEF Shapes
    <2>6. req'[q].at = "unlink" /\ \A p \in Requests \ {q} : req'[p] = req[p]
      BY <2>2, <2>4 DEF Shapes, Deleting
    <2>7. Locking'
      BY <2>2, <2>6 DEF Locking
    <2>8. \A p \in Requests : req'[p].at = "close" <=> req[p].at = "close"
      BY <2>2, <2>6 DEF Idle
    <2> QED BY <2>2, <2>3, <2>5, <2>7, <2>8
        DEF PoolIsActive, NothingWorking, OpenIsUp, OrdersAreActive
  <1>8. ASSUME NEW q \in Requests, DeleteUnlink(q) PROVE IInv'
    <2>1. /\ req[q].at = "unlink" /\ lock' = Nobody /\ req' = [req EXCEPT ![q] = Idle]
          /\ UNCHANGED <<reg, adrift, orders, pool, up>>
      BY <1>8 DEF DeleteUnlink, Done
    <2>2. req'[q].at = "idle" /\ \A p \in Requests \ {q} : req'[p] = req[p]
      BY <2>1 DEF Shapes, Idle
    <2>3. Shapes'
      BY <2>1 DEF Shapes
    <2>4. Locking'
      BY <2>1, <2>2 DEF Locking
    <2>5. \A p \in Requests : req'[p].at = "close" <=> req[p].at = "close"
      BY <2>1, <2>2
    <2> QED BY <2>1, <2>3, <2>4, <2>5 DEF PoolIsActive, NothingWorking, OpenIsUp, OrdersAreActive
  <1>9. ASSUME PlaceOrder PROVE IInv'
    <2>1. /\ pool.open /\ lock = Nobody
          /\ orders' = [orders EXCEPT ![pool.db] = @ \union {"ours"}]
          /\ UNCHANGED <<reg, adrift, pool, up, lock, req>>
      BY <1>9 DEF PlaceOrder
    <2>2. \A q \in Requests : req[q].at # "close"
      BY <2>1 DEF Locking
    <2>3. pool.db = ActiveEntry(reg).db \/ pool.db \in adrift
      BY <2>1, <2>2 DEF PoolIsActive
    <2>4. Shapes'
      BY <2>1 DEF Shapes
    <2>5. OrdersAreActive'
      BY <2>1, <2>3 DEF OrdersAreActive, Shapes
    <2> QED BY <2>1, <2>2, <2>4, <2>5 DEF Locking, PoolIsActive, NothingWorking, OpenIsUp
  <1>10. ASSUME Materialize \/ EndOrder PROVE IInv'
    <2>1. /\ orders' \in [Files -> SUBSET {"ours", "external"}]
          /\ \A f \in Files : "ours" \in orders'[f] => "ours" \in orders[f]
          /\ UNCHANGED <<reg, adrift, pool, up, lock, req>>
      BY <1>10 DEF Materialize, EndOrder, Shapes
    <2> QED BY <2>1 DEF Shapes, Locking, PoolIsActive, NothingWorking, OpenIsUp, OrdersAreActive
  <1>11. ASSUME Exit PROVE IInv'
    <2>1. /\ pool' = [pool EXCEPT !.open = FALSE] /\ lock' = Nobody /\ up' = "down"
          /\ req' = [q \in Requests |-> Idle] /\ UNCHANGED <<reg, adrift, orders>>
      BY <1>11 DEF Exit
    <2>2. pool'.open = FALSE /\ Shapes'
      BY <2>1 DEF Shapes
    <2>3. \A q \in Requests : req'[q].at = "idle"
      BY <2>1 DEF Idle
    <2> QED BY <2>1, <2>2, <2>3 DEF Locking, PoolIsActive, NothingWorking, OpenIsUp, OrdersAreActive
  <1>12. ASSUME Boot PROVE IInv'
    <2>1. /\ pool' = [db |-> ActiveEntry(reg).db, open |-> TRUE] /\ up = "down" /\ up' = "up"
          /\ adrift' = adrift \ {ActiveEntry(reg).db}
          /\ UNCHANGED <<reg, orders, lock, req>>
      BY <1>12 DEF Boot
    <2>2. Shapes'
      BY <2>1, ActiveExists DEF Shapes
    <2> QED BY <2>1, <2>2 DEF Locking, PoolIsActive, NothingWorking, OpenIsUp, OrdersAreActive
  <1>13. CASE UNCHANGED vars
    BY <1>13 DEF vars, Shapes, Locking, PoolIsActive, NothingWorking, OpenIsUp, OrdersAreActive
  <1> QED
    BY <1>1, <1>2, <1>3, <1>4, <1>5, <1>6, <1>7, <1>8, <1>9, <1>10, <1>11, <1>12, <1>13, <1>14
    DEF Next

(* A switch leaves no order behind: whatever requests, orders, hang-ups and  *)
(* crashes interleave, an order submitted here that is still working is in   *)
(* the file the next process opens, or in one that a process went on using   *)
(* after a client hung up on its switch.                                     *)
THEOREM NoOrderLeftHolds == Spec => []NoOrderLeft
  <1>1. IInv /\ [Next]_vars => IInv'
    BY StepKeeps
  <1>2. IInv => NoOrderLeft
    BY DEF IInv, OrdersAreActive, NoOrderLeft
  <1> QED BY <1>1, <1>2, InitIsFine, PTL DEF Spec
-----------------------------------------------------------------------------
(* Files                                                                     *)

(* The registries at large: the saved one and the copies switches hold.      *)
Held == {reg} \union {req[q].reg : q \in {q \in Requests : req[q].op = "switch"}}

Named(r, n, f) == \E i \in DOMAIN r.entries : r.entries[i] = [name |-> n, db |-> f]

(* All of them give an opened portfolio the same file, and it is there.      *)
OpenedKept == \A n \in opened : \E f \in exists : \A r \in Held : Named(r, n, f)

(* When the process is gone, so are its requests.                            *)
DownIsQuiet == up = "down" => ~pool.open /\ \A q \in Requests : req[q] = Idle

FInv == exists \subseteq Files /\ PoolFileKept /\ OpenedKept /\ DownIsQuiet

(* Every registry at large is one.                                           *)
LEMMA HeldAre == ASSUME Shapes PROVE Held \subseteq Registries
  BY DEF Shapes, Held, Idle, Switching, Deleting

(* An appended entry hides no other.                                         *)
LEMMA AppendKeeps ==
  ASSUME NEW r \in Registries, NEW e \in Entries, NEW s,
         s = [r EXCEPT !.entries = Append(@, e)], NEW n, NEW f, Named(r, n, f)
  PROVE  Named(s, n, f)
  <1>1. r.entries \in Seq(Entries) /\ s.entries = Append(r.entries, e)
    BY DEF Registries
  <1>2. PICK i \in DOMAIN r.entries : r.entries[i] = [name |-> n, db |-> f]
    BY DEF Named
  <1>3. i \in DOMAIN s.entries /\ s.entries[i] = r.entries[i]
    BY <1>1, <1>2
  <1> QED BY <1>2, <1>3 DEF Named

(* A removed entry takes no other with it, and brings none.                  *)
LEMMA RemoveKeeps ==
  ASSUME NEW r \in Registries, NEW k \in DOMAIN r.entries, NEW s,
         s = [r EXCEPT !.entries = RemoveAt(@, k)]
  PROVE  /\ \A n, f : n # r.entries[k].name /\ Named(r, n, f) => Named(s, n, f)
         /\ ToSet(s.entries) \subseteq ToSet(r.entries)
  <1> DEFINE old == r.entries
             new == s.entries
  <1>1. old \in Seq(Entries) /\ k \in DOMAIN old /\ new = RemoveAt(old, k)
    BY DEF Registries
  <1> HIDE DEF old, new
  <1>a. /\ \A i \in DOMAIN new : /\ (IF i < k THEN i ELSE i + 1) \in DOMAIN old
                                  /\ new[i] = old[IF i < k THEN i ELSE i + 1]
        /\ \A i \in DOMAIN old \ {k} : \E j \in DOMAIN new : new[j] = old[i]
    BY <1>1, RemovedIs
  <1>2. /\ \A i \in DOMAIN s.entries : \E j \in DOMAIN r.entries : s.entries[i] = r.entries[j]
        /\ \A i \in DOMAIN r.entries \ {k} : \E j \in DOMAIN s.entries : s.entries[j] = r.entries[i]
    BY <1>a DEF old, new
  <1>3. ASSUME NEW n, NEW f, n # r.entries[k].name, Named(r, n, f) PROVE Named(s, n, f)
    <2>1. PICK i \in DOMAIN r.entries : r.entries[i] = [name |-> n, db |-> f]
      BY <1>3 DEF Named
    <2>2. i # k
      BY <1>3, <2>1
    <2> QED BY <1>2, <2>1, <2>2 DEF Named
  <1> QED BY <1>2, <1>3 DEF ToSet

(* The active entry is among the entries.                                    *)
LEMMA ActiveNamed ==
  ASSUME NEW r \in Registries
  PROVE  /\ Named(r, ActiveEntry(r).name, ActiveEntry(r).db)
         /\ \E i \in DOMAIN r.entries : r.entries[i].db = ActiveEntry(r).db
  <1>1. PICK i \in DOMAIN r.entries : r.entries[i].name = r.active
    BY ActiveExists
  <1>2. ActiveEntry(r) = r.entries[i] /\ r.entries[i] \in Entries
    BY <1>1, ActiveIs DEF Registries
  <1> QED BY <1>2 DEF Named, Entries

(* What a step may do to the registries at large and keep opened portfolios. *)
LEMMA OpenedStays ==
  ASSUME OpenedKept, exists \subseteq exists', opened' \subseteq opened,
         \A s \in Held' : \E r \in Held :
             \A n \in opened', f \in exists : Named(r, n, f) => Named(s, n, f)
  PROVE  OpenedKept'
  <1> SUFFICES ASSUME NEW n \in opened'
               PROVE  \E f \in exists' : \A s \in Held' : Named(s, n, f)
    BY DEF OpenedKept, Named
  <1>1. PICK f \in exists : \A r \in Held : Named(r, n, f)
    BY DEF OpenedKept
  <1> QED BY <1>1


(* Every step keeps the files that are open or named.                        *)
LEMMA FilesStep ==
  ASSUME IInv, IInv', FInv, [Next]_vars
  PROVE  FInv'
  <1> USE DEF IInv, FInv
  <1>a. Held \subseteq Registries /\ reg \in Held
    BY HeldAre DEF Held
  <1>b. \A q \in Requests : req[q] \in {Idle} \union Switching \union Deleting
    BY DEF Shapes
  <1>c. req \in [Requests -> {Idle} \union Switching \union Deleting] /\ reg \in Registries
        /\ pool \in [db : Files, open : BOOLEAN]
    BY DEF Shapes
  <1>1. ASSUME NEW q \in Requests, NEW n \in Names, Create(q, n) PROVE FInv'
    <2> DEFINE e == [name |-> n, db |-> Slug[n]]
    <2>1. /\ reg' = [reg EXCEPT !.entries = Append(@, e)] /\ up # "down"
          /\ opened' = opened \ {n} /\ UNCHANGED <<exists, adrift, pool, up, req>>
      BY <1>1 DEF Create
    <2>2. e \in Entries
      BY PortfolioConstants DEF Entries, Files
    <2>3. \A m \in opened', f \in exists : Named(reg, m, f) => Named(reg', m, f)
      BY <1>c, <2>1, <2>2, AppendKeeps
    <2>4. \A s \in Held' : s \in Held \/ s = reg'
      BY <2>1 DEF Held
    <2>5. OpenedKept'
      <3>1. \A s \in Held' : \E r \in Held :
                \A m \in opened', f \in exists : Named(r, m, f) => Named(s, m, f)
        BY <1>a, <2>3, <2>4
      <3> QED BY <2>1, <3>1, OpenedStays
    <2> QED BY <2>1, <2>5 DEF PoolFileKept, DownIsQuiet
  <1>2. ASSUME NEW q \in Requests, UNCHANGED <<reg, exists, opened>>, \A p \in Requests \ {q} : req'[p] = req[p],
               req'[q].op = "switch" => req'[q].reg \in Held
        PROVE  OpenedKept'
    <2>1. Held' \subseteq Held
      BY <1>2 DEF Held
    <2> QED BY <1>2, <2>1, OpenedStays
  <1>3. ASSUME NEW q \in Requests, NEW n \in Names, SwitchLoad(q, n) PROVE FInv'
    <2>1. /\ UNCHANGED <<reg, exists, opened, adrift, pool, up>> /\ up # "down"
          /\ req' = [req EXCEPT ![q] = [op |-> "switch", name |-> n, at |-> "wait", reg |-> reg]]
      BY <1>3 DEF SwitchLoad
    <2>2. req'[q].reg \in Held /\ \A p \in Requests \ {q} : req'[p] = req[p]
      BY <1>c, <2>1 DEF Held
    <2> QED BY <1>2, <2>1, <2>2 DEF PoolFileKept, DownIsQuiet
  <1>4. ASSUME NEW q \in Requests, SwitchLock(q) PROVE FInv'
    <2>1. /\ UNCHANGED <<reg, exists, opened, adrift, pool, up>> /\ req[q] \in Switching
          /\ req' = [req EXCEPT ![q].at = "count"]
      BY <1>4, <1>b DEF SwitchLock, Idle, Deleting
    <2>2. req'[q].reg = req[q].reg /\ req[q].op = "switch" /\ \A p \in Requests \ {q} : req'[p] = req[p]
      BY <1>c, <2>1 DEF Switching
    <2>3. req'[q].reg \in Held
      BY <2>2 DEF Held
    <2>4. up # "down"
      BY <1>4 DEF SwitchLock, DownIsQuiet, Idle
    <2> QED BY <1>2, <2>1, <2>2, <2>3, <2>4 DEF PoolFileKept, DownIsQuiet
  <1>5. ASSUME NEW q \in Requests, SwitchRefuse(q) \/ SwitchClose(q) \/ SwitchDropped(q)
        PROVE  FInv'
    <2>1. /\ UNCHANGED <<reg, exists, opened>> /\ req' = [req EXCEPT ![q] = Idle]
          /\ req[q] # Idle
          /\ \/ UNCHANGED <<adrift, pool, up>>
             \/ pool' = [pool EXCEPT !.open = FALSE] /\ up' \in {up, "draining"}
             \/ adrift' = adrift \union {pool.db} /\ UNCHANGED <<pool, up>>
      BY <1>5 DEF SwitchRefuse, SwitchClose, SwitchDropped, Done, Idle
    <2>2. req'[q].op # "switch" /\ \A p \in Requests \ {q} : req'[p] = req[p]
      BY <1>c, <2>1 DEF Idle
    <2>3. up # "down"
      BY <2>1 DEF DownIsQuiet, Idle
    <2>4. PoolFileKept' /\ DownIsQuiet'
      BY <1>c, <2>1, <2>3 DEF PoolFileKept, DownIsQuiet
    <2>5. OpenedKept'
      BY <1>2, <2>1, <2>2
    <2> QED BY <2>1, <2>4, <2>5
  <1>6. ASSUME NEW q \in Requests, SwitchSave(q) PROVE FInv'
    <2>1. /\ req[q] \in Switching /\ UNCHANGED <<exists, opened, adrift, pool, up>>
          /\ reg' = [req[q].reg EXCEPT !.active = req[q].name]
          /\ req' = [req EXCEPT ![q].at = "close"]
      BY <1>6, <1>b DEF SwitchSave, Idle, Deleting
    <2>2. /\ req'[q].reg = req[q].reg /\ req[q].op = "switch" /\ req'[q].op = "switch"
          /\ \A p \in Requests \ {q} : req'[p] = req[p]
      BY <1>c, <2>1 DEF Switching
    <2>3. req[q].reg \in Held /\ req[q].reg \in Registries
      BY <1>a, <2>2 DEF Held
    <2>4. reg'.entries = req[q].reg.entries
      BY <2>1, <2>3 DEF Registries
    <2>5. \A s \in Held' : s \in Held \/ s = reg'
      BY <2>2, <2>3 DEF Held
    <2>6. \A m, f : Named(req[q].reg, m, f) => Named(reg', m, f)
      BY <2>4 DEF Named
    <2>7. OpenedKept'
      BY <2>1, <2>3, <2>5, <2>6, OpenedStays
    <2>8. up # "down"
      BY <1>6 DEF SwitchSave, DownIsQuiet, Idle
    <2> QED BY <2>1, <2>7, <2>8 DEF PoolFileKept, DownIsQuiet
  <1>7. ASSUME NEW q \in Requests, NEW n \in Names, DeleteSave(q, n) PROVE FInv'
    <2> DEFINE k == DbOf(reg, n)
               held == [op |-> "delete", name |-> reg.entries[k].db, at |-> "unlink", reg |-> << >>]
    <2>1. k \in DOMAIN reg.entries /\ reg.entries[k].name = n
      BY <1>7 DEF DeleteSave, DbOf, Listed
    <2>2. /\ reg' = [reg EXCEPT !.entries = RemoveAt(@, k)] /\ up # "down"
          /\ req' = [req EXCEPT ![q] = held] /\ opened' = opened \ {n}
          /\ UNCHANGED <<exists, adrift, pool, up>>
      BY <1>7 DEF DeleteSave
    <2>3. req'[q].op # "switch" /\ \A p \in Requests \ {q} : req'[p] = req[p]
      BY <1>c, <2>2
    <2> HIDE DEF k, held
    <2>4. \A m \in opened', f \in exists : Named(reg, m, f) => Named(reg', m, f)
      BY <1>c, <2>1, <2>2, RemoveKeeps
    <2>5. \A s \in Held' : s \in Held \/ s = reg'
      BY <2>3 DEF Held
    <2>6. OpenedKept'
      <3>1. \A s \in Held' : \E r \in Held :
                \A m \in opened', f \in exists : Named(r, m, f) => Named(s, m, f)
        BY <1>a, <2>4, <2>5
      <3> QED BY <2>2, <3>1, OpenedStays
    <2> QED BY <2>2, <2>6 DEF PoolFileKept, DownIsQuiet
  <1>8. ASSUME NEW q \in Requests, DeleteUnlink(q) PROVE FInv'
    <2>1. /\ req[q].at = "unlink" /\ req' = [req EXCEPT ![q] = Idle]
          /\ exists' = IF StillReferenced(req[q].name) THEN exists ELSE exists \ {req[q].name}
          /\ UNCHANGED <<reg, adrift, pool, up, opened>>
      BY <1>8 DEF DeleteUnlink, Done
    <2>2. req'[q].op # "switch" /\ \A p \in Requests \ {q} : req'[p] = req[p]
      BY <1>c, <2>1 DEF Idle
    <2>3. Held' \subseteq Held
      BY <2>1, <2>2 DEF Held
    <2>4. \A f \in exists : f \notin exists' => \A i \in DOMAIN reg.entries : reg.entries[i].db # f
      BY <2>1 DEF StillReferenced
    <2>5. ASSUME NEW n \in opened' PROVE \E f \in exists' : \A r \in Held' : Named(r, n, f)
      <3>1. PICK f \in exists : \A r \in Held : Named(r, n, f)
        BY <2>1, <2>5 DEF OpenedKept
      <3>2. f \in exists'
        BY <2>4, <3>1 DEF Held, Named
      <3> QED BY <2>3, <3>1, <3>2
    <2>6. OpenedKept'
      BY <2>5 DEF OpenedKept, Named
    <2>7. PoolFileKept'
      <3>1. \A p \in Requests : req[p].at # "close"
        BY <2>1 DEF Locking
      <3>2. pool.open => pool.db = ActiveEntry(reg).db \/ pool.db \in adrift
        BY <3>1 DEF PoolIsActive
      <3>3. \E i \in DOMAIN reg.entries : reg.entries[i].db = ActiveEntry(reg).db
        BY <1>c, ActiveNamed
      <3> QED BY <2>1, <2>4, <3>2, <3>3 DEF PoolFileKept
    <2>8. DownIsQuiet'
      BY <2>1 DEF DownIsQuiet, Idle
    <2>9. (exists \subseteq Files)'
      BY <2>1 DEF Files
    <2> QED BY <2>6, <2>7, <2>8, <2>9
  <1>9. ASSUME PlaceOrder \/ Materialize \/ EndOrder \/ UNCHANGED vars PROVE FInv'
    <2>1. UNCHANGED <<reg, exists, adrift, pool, up, req, opened>>
      BY <1>9 DEF PlaceOrder, Materialize, EndOrder, vars
    <2>2. Held' \subseteq Held
      BY <2>1 DEF Held
    <2>3. OpenedKept'
      BY <2>1, <2>2, OpenedStays
    <2> QED BY <2>1, <2>3 DEF PoolFileKept, DownIsQuiet
  <1>10. ASSUME Exit PROVE FInv'
    <2>1. /\ pool' = [pool EXCEPT !.open = FALSE]
          /\ req' = [q \in Requests |-> Idle] /\ UNCHANGED <<reg, exists, opened>>
      BY <1>10 DEF Exit
    <2>2. pool'.open = FALSE
      BY <1>c, <2>1
    <2>3. Held' \subseteq Held
      BY <2>1 DEF Held, Idle
    <2>4. OpenedKept'
      BY <2>1, <2>3, OpenedStays
    <2> QED BY <2>1, <2>2, <2>4 DEF PoolFileKept, DownIsQuiet
  <1>11. ASSUME Boot PROVE FInv'
    <2> DEFINE a == ActiveEntry(reg)
    <2>1. /\ up = "down" /\ up' = "up" /\ pool' = [db |-> a.db, open |-> TRUE]
          /\ exists' = exists \union {a.db} /\ opened' \subseteq opened \union {a.name}
          /\ UNCHANGED <<reg, req>>
      BY <1>11 DEF Boot
    <2>2. Held = {reg} /\ Held' = {reg}
      BY <2>1 DEF Held, DownIsQuiet, Idle
    <2>3. a.db \in Files /\ Named(reg, a.name, a.db)
      BY <1>c, ActiveExists, ActiveNamed
    <2> HIDE DEF a
    <2>4. ASSUME NEW n \in opened' PROVE \E f \in exists' : \A r \in Held' : Named(r, n, f)
      BY <2>1, <2>2, <2>3, <2>4 DEF OpenedKept
    <2>5. OpenedKept'
      BY <2>4 DEF OpenedKept, Named
    <2> QED BY <2>1, <2>3, <2>5 DEF PoolFileKept, DownIsQuiet, Files
  <1> QED
    BY <1>1, <1>3, <1>4, <1>5, <1>6, <1>7, <1>8, <1>9, <1>10, <1>11 DEF Next

(* No file goes that is open or named: the pool's is never unlinked under    *)
(* it unless a client hung up on the switch away from it, and a portfolio    *)
(* that was opened and not deleted keeps its own, through every switch,      *)
(* hang-up, stale copy, deletion and crash.                                  *)
THEOREM FilesKeptHolds == Spec => []FilesKept
  <1>1. Init => FInv
    <2> SUFFICES ASSUME Init PROVE FInv
      OBVIOUS
    <2>1. reg \in Registries /\ Held = {reg}
      BY InitIsFine DEF Init, IInv, Shapes, Held, Idle
    <2>2. exists \subseteq Files
      <3>1. \A i \in DOMAIN reg.entries : reg.entries[i] \in Entries
        BY <2>1 DEF Registries
      <3> QED BY <3>1 DEF Init, Entries
    <2>3. PoolFileKept /\ DownIsQuiet
      BY <2>1, ActiveNamed DEF Init, PoolFileKept, DownIsQuiet
    <2>4. ASSUME NEW n \in opened PROVE \E f \in exists : Named(reg, n, f)
      <3>1. PICK i \in DOMAIN reg.entries : reg.entries[i].name = n
        BY <2>4 DEF Init, Listed
      <3>2. reg.entries[i] \in Entries /\ reg.entries[i].db \in exists
        BY <2>1, <3>1 DEF Init, Registries
      <3> QED BY <3>1, <3>2 DEF Named, Entries
    <2> QED BY <2>1, <2>2, <2>3, <2>4 DEF FInv, OpenedKept
  <1>2. IInv /\ FInv /\ [Next]_vars => IInv' /\ FInv'
    BY StepKeeps, FilesStep
  <1>3. IInv /\ FInv => FilesKept
    <2> SUFFICES ASSUME IInv, FInv PROVE FilesKept
      OBVIOUS
    <2>1. reg \in Registries
      BY DEF IInv, Shapes
    <2>2. reg.entries # <<>> /\ Listed(reg) \subseteq Names
      <3>1. \A i \in DOMAIN reg.entries : reg.entries[i] \in Entries
        BY <2>1 DEF Registries
      <3>2. \E i \in DOMAIN reg.entries : TRUE
        BY <2>1, ActiveExists
      <3> QED BY <3>1, <3>2 DEF Entries, Listed
    <2>3. TypeOK
      BY <2>2 DEF IInv, FInv, Shapes, Locking, OpenIsUp, TypeOK
    <2>4. ASSUME NEW i \in DOMAIN reg.entries, reg.entries[i].name \in opened
          PROVE  reg.entries[i].db \in exists
      <3>1. PICK f \in exists : Named(reg, reg.entries[i].name, f)
        BY <2>4 DEF FInv, OpenedKept, Held
      <3>2. PICK j \in DOMAIN reg.entries : reg.entries[j] = [name |-> reg.entries[i].name, db |-> f]
        BY <3>1 DEF Named
      <3>3. j = i
        BY <2>1, <3>2 DEF Registries
      <3> QED BY <3>2, <3>3
    <2> QED BY <2>3, <2>4 DEF FilesKept, NoDanglingEntry, FInv
  <1> QED BY <1>1, <1>2, <1>3, InitIsFine, PTL DEF Spec

(* No two portfolios come to share a file: what create writes has a file of  *)
(* its own, and every other save repeats pairs that a registry already held. *)
THEOREM NoNewSharingHolds == Spec => NoNewSharing
  <1> DEFINE Old(x, y) == \E r \in Held : {x, y} \subseteq ToSet(r.entries)
             Step == \A i, j \in DOMAIN reg'.entries :
                       (i # j /\ reg'.entries[i].db = reg'.entries[j].db)
                         => Old(reg'.entries[i], reg'.entries[j])
  <1>1. IInv /\ [Next]_vars => Step
    <2> SUFFICES ASSUME IInv, [Next]_vars PROVE Step
      OBVIOUS
    <2>1. reg \in Registries /\ reg \in Held
      BY DEF IInv, Shapes, Held
    <2>2. ASSUME NEW r \in Held, ToSet(reg'.entries) \subseteq ToSet(r.entries) PROVE Step
      <3>1. \A i \in DOMAIN reg'.entries : reg'.entries[i] \in ToSet(reg'.entries)
        BY DEF ToSet
      <3> QED BY <2>2, <3>1
    <2>3. ASSUME NEW q \in Requests, NEW n \in Names, Create(q, n) PROVE Step
      <3> DEFINE old == reg.entries
                 new == reg'.entries
                 e == [name |-> n, db |-> Slug[n]]
      <3>1. new = Append(old, e) /\ old \in Seq(Entries)
        BY <2>1, <2>3 DEF Create, Registries
      <3>2. \A i \in DOMAIN old : old[i].db # Slug[n]
        <4>1. ASSUME NEW i \in DOMAIN old PROVE old[i].db # Slug[n]
          <5>1. old[i].name \in Listed(reg) /\ old[i].db \in {Slug[old[i].name], DefaultDb}
            BY <2>1 DEF Registries, Listed
          <5>2. Slug[old[i].name] # Slug[n]
            BY <2>3, <5>1 DEF Create, Clashes
          <5> QED BY <5>1, <5>2, PortfolioConstants
        <4> QED BY <4>1
      <3> HIDE DEF old, new
      <3>3. /\ \A i \in DOMAIN new : i \in DOMAIN old \/ i = Len(old) + 1
            /\ new[Len(old) + 1] = e /\ \A i \in DOMAIN old : new[i] = old[i]
        BY <3>1
      <3>4. ASSUME NEW i \in DOMAIN new, NEW j \in DOMAIN new, i # j, new[i].db = new[j].db
            PROVE  i \in DOMAIN old /\ j \in DOMAIN old
        BY <3>2, <3>3, <3>4
      <3>5. ASSUME NEW i \in DOMAIN old, NEW j \in DOMAIN old PROVE Old(new[i], new[j])
        BY <2>1, <3>3 DEF ToSet, old
      <3> QED BY <3>4, <3>5 DEF new
    <2>4. ASSUME NEW q \in Requests, SwitchSave(q) PROVE Step
      <3>1. /\ req[q] \in Switching
            /\ reg' = [req[q].reg EXCEPT !.active = req[q].name]
        BY <2>4 DEF SwitchSave, Idle, Deleting, IInv, Shapes
      <3>2. req[q].reg \in Held /\ reg'.entries = req[q].reg.entries
        BY <3>1 DEF Held, Switching, Registries
      <3> QED BY <2>2, <3>2
    <2>5. ASSUME NEW q \in Requests, NEW n \in Names, DeleteSave(q, n) PROVE Step
      <3> DEFINE k == DbOf(reg, n)
      <3>1. k \in DOMAIN reg.entries
        BY <2>5 DEF DeleteSave, DbOf, Listed
      <3>2. reg' = [reg EXCEPT !.entries = RemoveAt(@, k)]
        BY <2>5 DEF DeleteSave
      <3> HIDE DEF k
      <3>3. ToSet(reg'.entries) \subseteq ToSet(reg.entries)
        BY <2>1, <3>1, <3>2, RemoveKeeps
      <3> QED BY <2>1, <2>2, <3>3
    <2>6. ASSUME UNCHANGED reg PROVE Step
      BY <2>1, <2>2, <2>6
    <2> HIDE DEF Step
    <2> QED BY <2>3, <2>4, <2>5, <2>6
        DEF Next, SwitchLoad, SwitchLock, SwitchRefuse, SwitchClose, SwitchDropped, DeleteUnlink, PlaceOrder,
            Materialize, EndOrder, Exit, Boot, vars
  <1>2. Step => \A i, j \in DOMAIN reg'.entries :
        (i # j /\ reg'.entries[i].db = reg'.entries[j].db) =>
          \E r \in {reg} \union {req[q].reg : q \in {q \in Requests : req[q].op = "switch"}} :
            {reg'.entries[i], reg'.entries[j]} \subseteq ToSet(r.entries)
    BY DEF Held
  <1>3. IInv /\ [Next]_vars => IInv'
    BY StepKeeps
  <1> HIDE DEF Step
  <1> QED BY <1>1, <1>2, <1>3, InitIsFine, PTL DEF Spec, NoNewSharing

=============================================================================
