------------------------------ MODULE OrderBook ------------------------------
(***************************************************************************)
(* What the order manager promises about its two durable tables, whatever  *)
(* the broker, the network, the stream and the scheduler do: an order row  *)
(* moves along its life cycle and never leaves a terminal status, and each *)
(* execution id of a known order enters the transaction log at most once.  *)
(* A crash is a stuttering step: nothing here is lost and nothing is       *)
(* undone.  OrderManager implements this specification.                    *)
(***************************************************************************)
EXTENDS Naturals

CONSTANTS
    Ids,      \* client order ids, ours and those of externally placed orders
    ExecIds,  \* ids that executions are reported under
    Order     \* the order each of them belongs to

VARIABLES
    status,   \* status column of the orders row, "none" when there is no row
    ledger    \* how many transactions mirror an execution id

vars == <<status, ledger>>

Terminal == {"filled", "canceled", "rejected", "expired", "replaced", "failed"}
PreFill  == {"pending_submit", "submitted", "accepted"}
Open     == PreFill \cup {"partially_filled", "pending_cancel"}
Statuses == Open \cup Terminal

TypeOK ==
    /\ status \in [Ids -> Statuses \cup {"none"}]
    /\ ledger \in [ExecIds -> {0, 1}]

(* Every change one row may see in one step.  A row is born with any status *)
(* (an external order is materialized as the broker describes it).          *)
MayBecome(s, t) ==
    \/ s = t
    \/ s = "none" /\ t \in Statuses
    \/ s \in Open /\ t \in Statuses /\ ~(s = "partially_filled" /\ t \in PreFill)

Init ==
    /\ status = [o \in Ids |-> "none"]
    /\ ledger = [id \in ExecIds |-> 0]

(* The kill switch moves several rows with one statement, so a step may.    *)
Move ==
    /\ status' \in [Ids -> Statuses \cup {"none"}]
    /\ \A o \in Ids : MayBecome(status[o], status'[o])
    /\ UNCHANGED ledger

Book(id) ==
    /\ status[Order[id]] # "none"
    /\ ledger[id] = 0
    /\ ledger' = [ledger EXCEPT ![id] = 1]
    /\ UNCHANGED status

Next == Move \/ \E id \in ExecIds : Book(id)

Spec == Init /\ [][Next]_vars
==============================================================================
