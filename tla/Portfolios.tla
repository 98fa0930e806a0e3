---------------------------- MODULE Portfolios ----------------------------
(***************************************************************************)
(* The portfolio registry of crates/rekt-server/src/portfolios.rs: one     *)
(* database file per portfolio, a JSON registry outside them, and a switch *)
(* that closes the pool and re-executes the process on another file.       *)
(*                                                                         *)
(* A request is a process with the registry it loaded as its local; the    *)
(* mutations lock is shared with order submission.  A crash may fall       *)
(* between any two steps; registry and files survive it.  A client that    *)
(* hangs up drops its handler at the await it is in: a switch dropped      *)
(* between saving the registry and closing the pool leaves the process     *)
(* running on a file that is no longer the active portfolio's.             *)
(***************************************************************************)
EXTENDS Naturals, Sequences, FiniteSets, SequencesExt

CONSTANTS
  Names,      \* names users type
  Slug,       \* slugify: names to slugs
  Default,    \* DEFAULT_NAME, opened as DefaultDb (basename of REKT_DB)
  DefaultDb,
  Legacy,     \* a registry written before the slug check, or <<>>: a file
              \* was named after its portfolio's slug then too
  Requests,
  MaxCreated, \* bound: portfolios created
  MaxAdrift   \* bound: files left adrift at once

Files   == {Slug[n] : n \in Names} \union {DefaultDb}
Entries == [name : Names, db : Files]
Nobody  == "nobody"

ASSUME PortfolioConstants ==
  /\ Slug \in [Names -> STRING] /\ Default \in Names
  /\ DefaultDb \notin {Slug[n] : n \in Names}
  /\ Legacy \in Seq(Entries)
  /\ \A i \in DOMAIN Legacy : Legacy[i].db \in {Slug[Legacy[i].name], DefaultDb}
  /\ \A i, j \in DOMAIN Legacy : Legacy[i].name = Legacy[j].name => i = j
  /\ Nobody \notin Requests
  /\ MaxCreated \in Nat /\ MaxAdrift \in Nat

VARIABLES
  reg,      \* portfolios.json: active name and entries, in order
  exists,   \* database files on disk
  orders,   \* working orders by file: ours, or placed in the broker's UI
  pool,     \* the running process's database: file and whether it is open
  up,       \* "up", "draining" (switched, about to exec), "down"
  lock,     \* mutations
  req,      \* requests
  opened,   \* ghost: names not deleted since a process opened their file
  adrift,   \* ghost: files a process went on using after its switch was dropped
  created

vars == <<reg, exists, orders, pool, up, lock, req, opened, adrift, created>>

Idle == [op |-> "none", name |-> "none", at |-> "idle", reg |-> << >>]

Listed(r) == {r.entries[i].name : i \in DOMAIN r.entries}
DbOf(r, n) == (CHOOSE i \in DOMAIN r.entries : r.entries[i].name = n)

(* active_entry: the first portfolio when the pointer dangles.             *)
ActiveEntry(r) ==
  IF r.active \in Listed(r) THEN r.entries[DbOf(r, r.active)] ELSE r.entries[1]

(* load synthesizes the single-portfolio registry when there is no file.   *)
DefaultRegistry ==
  [active |-> Default, entries |-> << [name |-> Default, db |-> DefaultDb] >>]

-----------------------------------------------------------------------------
Init ==
  /\ reg \in {DefaultRegistry} \union
        (IF Legacy = <<>> THEN {} ELSE {[active |-> Legacy[1].name, entries |-> Legacy]})
  /\ exists = {reg.entries[i].db : i \in DOMAIN reg.entries}
  /\ orders = [f \in Files |-> {}]
  /\ pool = [db |-> ActiveEntry(reg).db, open |-> TRUE]
  /\ up = "up" /\ lock = Nobody
  /\ req = [q \in Requests |-> Idle]
  /\ opened = Listed(reg) /\ adrift = {} /\ created = 0

Done(q) == req' = [req EXCEPT ![q] = Idle]

(* create: load, both collision checks, push and save under the lock; no   *)
(* await in between.  The file appears when a process opens it.            *)
ClashesByName(n) == n \in Listed(reg)
Clashes(n) == \E m \in Listed(reg) : m = n \/ Slug[m] = Slug[n]

Create(q, n) ==
  /\ up # "down" /\ req[q] = Idle /\ lock = Nobody
  /\ ~Clashes(n) /\ created < MaxCreated
  /\ reg' = [reg EXCEPT !.entries = Append(@, [name |-> n, db |-> Slug[n]])]
  /\ opened' = opened \ {n} /\ created' = created + 1
  /\ UNCHANGED <<exists, orders, pool, up, lock, req, adrift>>

(* switch: the registry is loaded and checked first, the lock comes after. *)
SwitchLoad(q, n) ==
  /\ up # "down" /\ req[q] = Idle
  /\ n \in Listed(reg) /\ reg.active # n
  /\ req' = [req EXCEPT ![q] = [op |-> "switch", name |-> n, at |-> "wait", reg |-> reg]]
  /\ UNCHANGED <<reg, exists, orders, pool, up, lock, opened, adrift, created>>

SwitchLock(q) ==
  /\ req[q].at = "wait" /\ req[q].op = "switch" /\ lock = Nobody
  /\ lock' = q /\ req' = [req EXCEPT ![q].at = "count"]
  /\ UNCHANGED <<reg, exists, orders, pool, up, opened, adrift, created>>

(* Open orders, or a pool an earlier switch has closed: refused.           *)
SwitchRefuse(q) ==
  /\ req[q].at = "count" /\ (orders[pool.db] # {} \/ ~pool.open)
  /\ lock' = Nobody /\ Done(q)
  /\ UNCHANGED <<reg, exists, orders, pool, up, opened, adrift, created>>

SwitchSave(q) ==
  /\ req[q].at = "count" /\ orders[pool.db] = {} /\ pool.open
  /\ reg' = [req[q].reg EXCEPT !.active = req[q].name]
  /\ req' = [req EXCEPT ![q].at = "close"]
  /\ UNCHANGED <<exists, orders, pool, up, lock, opened, adrift, created>>

(* wal_checkpoint and close, then the answer and 150 ms until the exec.    *)
SwitchClose(q) ==
  /\ req[q].at = "close"
  /\ pool' = [pool EXCEPT !.open = FALSE] /\ up' = "draining"
  /\ adrift' = adrift \ {pool.db}
  /\ lock' = Nobody /\ Done(q)
  /\ UNCHANGED <<reg, exists, orders, opened, created>>

(* The client hangs up while the switch waits for the lock, counts, folds  *)
(* the WAL or drains the pool: the lock is free again and nothing re-execs.*)
(* The registry stays saved; the pool is closed only if close() had begun. *)
SwitchDropped(q) ==
  /\ req[q].op = "switch"
  /\ Done(q)
  /\ lock' = IF lock = q THEN Nobody ELSE lock
  /\ \/ req[q].at # "close" /\ UNCHANGED <<pool, adrift>>
     \/ /\ req[q].at = "close" /\ pool' = [pool EXCEPT !.open = FALSE]
        /\ adrift' = adrift \ {pool.db}
     \/ /\ req[q].at = "close" /\ Cardinality(adrift \union {pool.db}) <= MaxAdrift
        /\ adrift' = adrift \union {pool.db}
        /\ UNCHANGED pool
  /\ UNCHANGED <<reg, exists, orders, up, opened, created>>

(* delete: refused for the active and for the only portfolio; the registry *)
(* is saved first, then the file goes unless another entry names it.       *)
DeleteSave(q, n) ==
  /\ up # "down" /\ req[q] = Idle /\ lock = Nobody
  /\ n \in Listed(reg) /\ reg.active # n /\ Len(reg.entries) > 1
  /\ reg' = [reg EXCEPT !.entries = RemoveAt(@, DbOf(reg, n))]
  /\ lock' = q
  /\ req' = [req EXCEPT ![q] =
       [op |-> "delete", name |-> reg.entries[DbOf(reg, n)].db, at |-> "unlink", reg |-> << >>]]
  /\ opened' = opened \ {n}
  /\ UNCHANGED <<exists, orders, pool, up, adrift, created>>

StillReferencedNever(db) == FALSE
StillReferenced(db) == \E i \in DOMAIN reg.entries : reg.entries[i].db = db

DeleteUnlink(q) ==
  /\ req[q].at = "unlink"
  /\ exists' = IF StillReferenced(req[q].name) THEN exists ELSE exists \ {req[q].name}
  /\ lock' = Nobody /\ Done(q)
  /\ UNCHANGED <<reg, orders, pool, up, opened, adrift, created>>

-----------------------------------------------------------------------------
(* submit_order's critical section writes its row; the row turns terminal  *)
(* when the broker says so; an order of the broker's UI is materialised    *)
(* without the lock.                                                       *)
PlaceOrderUnlocked ==
  /\ pool.open /\ up = "up"
  /\ orders' = [orders EXCEPT ![pool.db] = @ \union {"ours"}]
  /\ UNCHANGED <<reg, exists, pool, up, lock, req, opened, adrift, created>>

PlaceOrder ==
  /\ pool.open /\ lock = Nobody /\ up = "up"
  /\ orders' = [orders EXCEPT ![pool.db] = @ \union {"ours"}]
  /\ UNCHANGED <<reg, exists, pool, up, lock, req, opened, adrift, created>>

Materialize ==
  /\ pool.open /\ up = "up"
  /\ orders' = [orders EXCEPT ![pool.db] = @ \union {"external"}]
  /\ UNCHANGED <<reg, exists, pool, up, lock, req, opened, adrift, created>>

EndOrder ==
  /\ pool.open /\ up = "up"
  /\ \E o \in orders[pool.db] : orders' = [orders EXCEPT ![pool.db] = @ \ {o}]
  /\ UNCHANGED <<reg, exists, pool, up, lock, req, opened, adrift, created>>

-----------------------------------------------------------------------------
(* The exec of a switch, or a crash anywhere: the process is gone.         *)
Exit ==
  /\ up # "down" /\ up' = "down"
  /\ pool' = [pool EXCEPT !.open = FALSE]
  /\ lock' = Nobody /\ req' = [q \in Requests |-> Idle]
  /\ UNCHANGED <<reg, exists, orders, opened, adrift, created>>

(* main: the registry's active file is opened, created if missing.         *)
Boot ==
  /\ up = "down" /\ up' = "up"
  /\ pool' = [db |-> ActiveEntry(reg).db, open |-> TRUE]
  /\ exists' = exists \union {ActiveEntry(reg).db}
  /\ opened' = opened \union {ActiveEntry(reg).name}
  /\ adrift' = adrift \ {ActiveEntry(reg).db}
  /\ UNCHANGED <<reg, orders, lock, req, created>>

Next ==
  \/ \E q \in Requests, n \in Names :
       Create(q, n) \/ SwitchLoad(q, n) \/ DeleteSave(q, n)
  \/ \E q \in Requests :
       \/ SwitchLock(q) \/ SwitchRefuse(q) \/ SwitchSave(q) \/ SwitchClose(q)
       \/ SwitchDropped(q) \/ DeleteUnlink(q)
  \/ PlaceOrder \/ Materialize \/ EndOrder
  \/ Exit \/ Boot

Spec == Init /\ [][Next]_vars

-----------------------------------------------------------------------------
(* Shapes; a request holds the lock exactly between taking and giving it.  *)
TypeOK ==
  /\ reg.entries # <<>> /\ Listed(reg) \subseteq Names
  /\ exists \subseteq Files
  /\ orders \in [Files -> SUBSET {"ours", "external"}]
  /\ up \in {"up", "draining", "down"} /\ (pool.open => up = "up")
  /\ \A q \in Requests : lock = q <=> req[q].at \in {"count", "close", "unlink"}

(* No two portfolios share a database file ("silently make two portfolios  *)
(* share one DB"): no save makes a pair of entries with one file, unless   *)
(* the registry, or a switch's copy of it, already held that pair (a       *)
(* legacy registry may).                                                   *)
NoNewSharing ==
  [][\A i, j \in DOMAIN reg'.entries :
        (i # j /\ reg'.entries[i].db = reg'.entries[j].db) =>
          \E r \in {reg} \union {req[q].reg : q \in {q \in Requests : req[q].op = "switch"}} :
            {reg'.entries[i], reg'.entries[j]} \subseteq ToSet(r.entries)]_vars

(* No switch leaves an order behind: an order submitted here that is still *)
(* working is in the file of the active portfolio, whether the switch ran  *)
(* to its end, was refused or crashed.  Only a switch dropped after its    *)
(* save breaks that, and only for orders placed in that file before the    *)
(* process ends or a later switch gets through.                            *)
NoOrderLeft ==
  \A f \in Files \ adrift : "ours" \in orders[f] => f = ActiveEntry(reg).db

(* The file under the open pool is not unlinked, whoever deletes what,     *)
(* unless the pool was left adrift: then its portfolio is no longer the    *)
(* active one and delete does not know that the pool still has it open.    *)
PoolFileKept == pool.open => pool.db \in exists \union adrift

(* A portfolio the registry names, which was opened and not deleted, still *)
(* has its file: the registry is saved before the file goes, so a crash    *)
(* in between leaves at worst an orphan.                                   *)
NoDanglingEntry ==
  \A i \in DOMAIN reg.entries :
    reg.entries[i].name \in opened => reg.entries[i].db \in exists

(* No file goes that is named, or open and not adrift.                     *)
FilesKept == TypeOK /\ PoolFileKept /\ NoDanglingEntry
=============================================================================
