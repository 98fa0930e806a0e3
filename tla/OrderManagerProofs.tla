-------------------------- MODULE OrderManagerProofs --------------------------
(***************************************************************************)
(* Theorems about the order manager, for every value of the constants: its *)
(* types, the two invariants a restart relies on, that it implements the   *)
(* abstract OrderBook, that rows end truthfully and that a quiet server    *)
(* has told its caches of every commit.  The argument: every description   *)
(* and every execution under way is the broker's (Word), every step either *)
(* moves rows along their life cycle or ingests one execution heard of     *)
(* (TableStep), every submission under way has a row (SentStep), a row is  *)
(* changed by the broker's word only (RowStep), and some handler owes the  *)
(* bump of each commit (QuietStep).                                        *)
(***************************************************************************)
EXTENDS OrderManager, TLAPS

(* The fields of a broker's description of an order.                        *)
LEMMA SnapshotFields ==
    ASSUME NEW s \in Snapshots
    PROVE  /\ s.st \in BrokerStatuses
           /\ s.st \in Statuses
           /\ s.qty \in 0 .. MaxQty
  BY OMAssumption DEF Snapshots, BrokerStatuses, BrokerOpen, Statuses, Open, PreFill, Terminal

(* What the broker reports of an order it has is such a description.        *)
LEMMA SnapshotOf ==
    ASSUME BrokerTypeOK, NEW o \in Present
    PROVE  Snapshot(o) \in Snapshots
  BY DEF BrokerTypeOK, Present, Snapshot, Snapshots

(* apply_broker_order keeps the types of the tables.                        *)
LEMMA ApplyKeepsDb ==
    ASSUME DbTypeOK, NEW o \in Ids, NEW s \in Snapshots,
           ApplyBrokerOrder(o, s), UNCHANGED fillVars
    PROVE  DbTypeOK'
  BY SnapshotFields DEF DbTypeOK, ApplyBrokerOrder, rowVars, fillVars

(* ingest_execution does too.                                               *)
LEMMA IngestKeepsDb ==
    ASSUME DbTypeOK, NEW id \in ExecIds, IngestExecution(id), UNCHANGED rowVars
    PROVE  DbTypeOK'
  BY DEF DbTypeOK, IngestExecution, rowVars, fillVars

(* What the two feeds report an execution under, and what stands for it.    *)
LEMMA IdOfExec ==
    ASSUME NEW e \in Execs
    PROVE  /\ StreamId(e) \in ExecIds /\ StreamId(e)[1] = e
           /\ ActivityId(e) \in ExecIds /\ ActivityId(e)[1] = e
           /\ OneId => ActivityId(e) = StreamId(e)
  BY DEF StreamId, ActivityId, ExecIds, Feeds

(* So is the answer to a submission: an accepted order with nothing filled.  *)
LEMMA NewOrder == [st |-> "accepted", qty |-> 0] \in Snapshots
  BY OMAssumption DEF Snapshots, BrokerStatuses, BrokerOpen

(* Pushing an event keeps the stream a sequence of events.                  *)
LEMMA PushKeepsStream ==
    ASSUME stream \in Seq(Events), NEW ev \in Events, Push(ev)
    PROVE  stream' \in Seq(Events)
  BY DEF Push

(* An update of a known id is one.                                          *)
LEMMA UpdateIsEvent ==
    ASSUME NEW o \in Ids, NEW s \in Snapshots, NEW k \in 0 .. MaxQty
    PROVE  Update(o, s, k) \in Events
  BY DEF Update, Events

(* A step that leaves the tables alone keeps their types.                   *)
LEMMA DbSame == ASSUME DbTypeOK, UNCHANGED dbVars PROVE DbTypeOK'
  BY DEF DbTypeOK, dbVars

(* The same for the handlers' memory.                                       *)
LEMMA MemSame == ASSUME MemTypeOK, UNCHANGED memVars PROVE MemTypeOK'
  BY DEF MemTypeOK, memVars

(* The same for the pass's variables.                                       *)
LEMMA PassSame == ASSUME PassTypeOK, UNCHANGED passVars PROVE PassTypeOK'
  BY DEF PassTypeOK, passVars

(* The same for the broker.                                                 *)
LEMMA BrokerSame == ASSUME BrokerTypeOK, UNCHANGED brokerVars PROVE BrokerTypeOK'
  BY DEF BrokerTypeOK, brokerVars

(* The same for the network and the bounds.                                 *)
LEMMA NetSame ==
    ASSUME NetTypeOK, UNCHANGED netVars, UNCHANGED boundVars PROVE NetTypeOK'
  BY DEF NetTypeOK, netVars, boundVars

(* The first step of a pass makes its variables well typed, whatever the    *)
(* mass status answered.                                                    *)
LEMMA BeginPassType ==
    ASSUME TypeOK, NEW who \in {"timer", "consumer"}, BeginPass(who)
    PROVE  PassTypeOK'
<1>1. ASSUME NEW o \in Present PROVE Snapshot(o) \in Snapshots
  BY SnapshotOf DEF TypeOK
<1>2. listing' \in [Ids -> Snapshots \cup {Nothing}]
  BY <1>1 DEF BeginPass, NoListing
<1>2a. fresh = {}
  BY DEF BeginPass, TypeOK, PassTypeOK, NoListing, Ids
<1> QED BY <1>2, <1>2a DEF BeginPass, TypeOK, PassTypeOK, Present, PassStates

(* The pass's variables are well typed when it has ended.                   *)
LEMMA ClearPassType == ClearPass => PassTypeOK'
  BY DEF ClearPass, PassTypeOK, PassStates, NoListing

(* Types are inductive: one step per action, one leaf per group of          *)
(* variables the action can disturb.                                        *)
LEMMA TypeStep == TypeOK /\ [Next]_vars => TypeOK'
<1> SUFFICES ASSUME TypeOK, [Next]_vars PROVE TypeOK'
  OBVIOUS
<1> USE DEF TypeOK
<1>1. ASSUME NEW o \in Ids, BrokerAccept(o) PROVE TypeOK'
  <2>1. MemTypeOK'
    BY <1>1 DEF BrokerAccept, MemTypeOK, SubStates, NetTypeOK
  <2>2. BrokerTypeOK'
    BY <1>1 DEF BrokerAccept, BrokerTypeOK, BrokerStatuses, BrokerOpen
  <2>3. NetTypeOK'
    BY <1>1, OMAssumption, PushKeepsStream, UpdateIsEvent, NewOrder DEF BrokerAccept, NetTypeOK, BrokerTypeOK, Snapshots, BrokerStatuses, BrokerOpen, boundVars, netVars
  <2> QED BY <1>1, <2>1, <2>2, <2>3, DbSame, PassSame DEF BrokerAccept
<1>2. ASSUME NEW o \in Ids, BrokerRefuse(o) PROVE TypeOK'
  <2>1. MemTypeOK'
    BY <1>2 DEF BrokerRefuse, MemTypeOK, SubStates, NetTypeOK
  <2>2. NetTypeOK'
    BY <1>2, OMAssumption DEF BrokerRefuse, NetTypeOK, netVars, boundVars
  <2> QED BY <1>2, <2>1, <2>2, DbSame, PassSame, BrokerSame DEF BrokerRefuse
<1>3. ASSUME NEW o \in Ids, WireLost(o) PROVE TypeOK'
  <2>1. NetTypeOK'
    BY <1>3, OMAssumption DEF WireLost, NetTypeOK, netVars, boundVars
  <2> QED BY <1>3, <2>1, DbSame, MemSame, PassSame, BrokerSame DEF WireLost
<1>4. ASSUME NEW o \in Ids, ExternalPlace(o) PROVE TypeOK'
  <2>1. BrokerTypeOK'
    BY <1>4 DEF ExternalPlace, BrokerTypeOK, BrokerStatuses, BrokerOpen
  <2>2. NetTypeOK'
    BY <1>4, OMAssumption, PushKeepsStream, UpdateIsEvent, NewOrder DEF ExternalPlace, NetTypeOK, BrokerTypeOK, Snapshots, BrokerStatuses, BrokerOpen, boundVars, netVars
  <2> QED BY <1>4, <2>1, <2>2, DbSame, MemSame, PassSame DEF ExternalPlace
<1>5. ASSUME NEW o \in Ids, BrokerFill(o) PROVE TypeOK'
  <2>1. BrokerTypeOK'
    BY <1>5, OMAssumption DEF BrokerFill, BrokerTypeOK, BrokerStatuses, BrokerOpen, Execs, brokerVars
  <2>2. NetTypeOK'
    <3> DEFINE k == bqty[o] + 1
               s == IF k = MaxQty THEN "filled"
                    ELSE IF bstatus[o] = "pending_cancel" THEN "pending_cancel"
                    ELSE "partially_filled"
    <3>1. k \in 0 .. MaxQty /\ s \in BrokerStatuses
      BY <1>5, OMAssumption DEF BrokerFill, BrokerTypeOK, BrokerStatuses, BrokerOpen
    <3>2. Update(o, [st |-> s, qty |-> k], k) \in Events
      BY <3>1, UpdateIsEvent DEF Snapshots
    <3>3. stream' \in Seq(Events)
      BY <1>5, <3>2, PushKeepsStream DEF BrokerFill, NetTypeOK
    <3> QED BY <1>5, <3>3 DEF BrokerFill, NetTypeOK, boundVars
  <2> QED BY <1>5, <2>1, <2>2, DbSame, MemSame, PassSame DEF BrokerFill
<1>6. ASSUME NEW o \in Ids, BrokerClose(o) PROVE TypeOK'
  <2>1. BrokerTypeOK'
    BY <1>6 DEF BrokerClose, BrokerTypeOK, BrokerStatuses
  <2>2. NetTypeOK'
    BY <1>6, OMAssumption, PushKeepsStream, UpdateIsEvent DEF BrokerClose, NetTypeOK, BrokerTypeOK, Snapshots, BrokerStatuses, BrokerOpen, boundVars, netVars
  <2> QED BY <1>6, <2>1, <2>2, DbSame, MemSame, PassSame DEF BrokerClose
<1>7. ASSUME NEW o \in Ids, BrokerCancel(o) PROVE TypeOK'
  <2>1. BrokerTypeOK'
    BY <1>7, OMAssumption DEF BrokerCanceling, BrokerCancel, BrokerTypeOK, BrokerStatuses, brokerVars
  <2>2. NetTypeOK'
    BY <1>7, OMAssumption, PushKeepsStream, UpdateIsEvent DEF BrokerCanceling, BrokerCancel, NetTypeOK, BrokerTypeOK, Snapshots, BrokerStatuses, BrokerOpen, boundVars, netVars
  <2> QED BY <1>7, <2>1, <2>2, DbSame, MemSame, PassSame DEF BrokerCanceling, BrokerCancel
<1>7a. ASSUME NEW o \in Ids, BrokerCanceling(o) PROVE TypeOK'
  <2>1. BrokerTypeOK'
    BY <1>7a DEF BrokerCanceling, BrokerTypeOK, BrokerStatuses, BrokerOpen
  <2>2. NetTypeOK'
    BY <1>7a, OMAssumption, PushKeepsStream, UpdateIsEvent DEF BrokerCanceling, NetTypeOK, BrokerTypeOK, Snapshots, BrokerStatuses, BrokerOpen, boundVars, netVars
  <2> QED BY <1>7a, <2>1, <2>2, DbSame, MemSame, PassSame DEF BrokerCanceling
<1>8. ASSUME HourPasses PROVE TypeOK'
  <2>1. BrokerTypeOK'
    BY <1>8, OMAssumption DEF HourPasses, BrokerTypeOK, brokerVars
  <2> QED BY <1>8, <2>1, DbSame, MemSame, PassSame, NetSame DEF HourPasses
<1>9. ASSUME NEW o \in Own, Persist(o) PROVE TypeOK'
  <2>1. DbTypeOK'
    BY <1>9, OMAssumption DEF Persist, DbTypeOK, Statuses, Open, PreFill, dbVars, rowVars, fillVars
  <2>2. MemTypeOK'
    BY <1>9 DEF Persist, MemTypeOK, SubStates, Committed
  <2> QED BY <1>9, <2>1, <2>2, PassSame, BrokerSame, NetSame DEF Persist
<1>10. ASSUME NEW o \in Own, Send(o) PROVE TypeOK'
  <2>1. MemTypeOK'
    BY <1>10 DEF Send, MemTypeOK, SubStates, BumpOrders
  <2>2. NetTypeOK'
    BY <1>10, OMAssumption DEF Send, NetTypeOK, netVars, boundVars
  <2> QED BY <1>10, <2>1, <2>2, DbSame, PassSame, BrokerSame DEF Send
<1>11. ASSUME NEW o \in Own, SubmitAccepted(o) PROVE TypeOK'
  <2>1. DbTypeOK'
    BY <1>11, OMAssumption, ApplyKeepsDb, NewOrder DEF SubmitAccepted, Snapshots, BrokerStatuses, BrokerOpen, Ids, dbVars, rowVars, fillVars
  <2>2. MemTypeOK'
    BY <1>11 DEF SubmitAccepted, MemTypeOK, SubStates, BumpOrders
  <2> QED BY <1>11, <2>1, <2>2, PassSame, BrokerSame, NetSame DEF SubmitAccepted
<1>12. ASSUME NEW o \in Own, SubmitRejected(o) PROVE TypeOK'
  <2>1. DbTypeOK'
    BY <1>12, OMAssumption DEF SubmitRejected, DbTypeOK, Statuses, Terminal, dbVars, rowVars, fillVars
  <2>2. MemTypeOK'
    BY <1>12 DEF SubmitRejected, MemTypeOK, SubStates, BumpOrders
  <2> QED BY <1>12, <2>1, <2>2, PassSame, BrokerSame, NetSame DEF SubmitRejected
<1>13. ASSUME NEW o \in Own, SubmitUnknown(o) PROVE TypeOK'
  <2>1. MemTypeOK'
    BY <1>13 DEF SubmitUnknown, MemTypeOK, SubStates
  <2> QED BY <1>13, <2>1, DbSame, PassSame, BrokerSame, NetSame DEF SubmitUnknown
<1>14. ASSUME NEW o \in Ids, CancelOrder(o) PROVE TypeOK'
  <2>1. DbTypeOK'
    BY <1>14, OMAssumption DEF CancelOrder, DbTypeOK, Statuses, Open, dbVars, rowVars, fillVars
  <2>2. MemTypeOK'
    BY <1>14 DEF CancelOrder, MemTypeOK, BumpOrders
  <2>3. NetTypeOK'
    BY <1>14, OMAssumption DEF CancelOrder, NetTypeOK, netVars, boundVars
  <2> QED BY <1>14, <2>1, <2>2, <2>3, PassSame, BrokerSame DEF CancelOrder
<1>15. ASSUME KillSwitch PROVE TypeOK'
  <2>1. MemTypeOK'
    BY <1>15 DEF KillSwitch, MemTypeOK
  <2>2. NetTypeOK'
    BY <1>15, OMAssumption DEF KillSwitch, NetTypeOK, netVars, boundVars
  <2> QED BY <1>15, <2>1, <2>2, DbSame, PassSame, BrokerSame DEF KillSwitch
<1>16. ASSUME KillMark PROVE TypeOK'
  <2>1. DbTypeOK'
    BY <1>16, OMAssumption DEF KillMark, DbTypeOK, Statuses, Open, dbVars, rowVars, fillVars
  <2>2. MemTypeOK'
    BY <1>16 DEF KillMark, MemTypeOK, BumpOrders
  <2> QED BY <1>16, <2>1, <2>2, PassSame, BrokerSame, NetSame DEF KillMark
<1>17. ASSUME TimerReconcile PROVE TypeOK'
  <2>1. PassTypeOK'
    BY <1>17, BeginPassType DEF TimerReconcile
  <2> QED BY <1>17, <2>1, DbSame, MemSame, BrokerSame, NetSame DEF TimerReconcile
<1>18. ASSUME NEW o \in Ids, ReconcileOwn(o) PROVE TypeOK'
  <2>1. DbTypeOK'
    BY <1>18, ApplyKeepsDb DEF ReconcileOwn, PassTypeOK
  <2>2. MemTypeOK'
    BY <1>18 DEF ReconcileOwn, MemTypeOK, Committed
  <2>3. PassTypeOK'
    <3>1. o \notin Ext /\ rpc = "apply" /\ rpc' = "apply"
      BY <1>18, OMAssumption DEF ReconcileOwn
    <3>2. listing' = [listing EXCEPT ![o] = Nothing]
      BY <1>18 DEF ReconcileOwn
    <3>3. listing' \in [Ids -> Snapshots \cup {Nothing}]
      BY <3>2 DEF PassTypeOK
    <3>4. fresh' \subseteq {x \in Ext : listing'[x] # Nothing}
      BY <1>18, <3>1, <3>2 DEF ReconcileOwn, PassTypeOK, Ids
    <3> QED BY <1>18, <3>1, <3>3, <3>4 DEF ReconcileOwn, PassTypeOK
  <2> QED BY <1>18, <2>1, <2>2, <2>3, BrokerSame, NetSame DEF ReconcileOwn
<1>19. ASSUME NEW o \in Ids, MaterializeExternal(o) PROVE TypeOK'
  <2>1. DbTypeOK'
    BY <1>19, SnapshotFields DEF MaterializeExternal, DbTypeOK, PassTypeOK, fillVars
  <2>2. MemTypeOK'
    BY <1>19 DEF MaterializeExternal, MemTypeOK, Committed
  <2>3. PassTypeOK'
    <3>1. rpc' = "apply"
      BY <1>19 DEF MaterializeExternal
    <3>2. CASE status[o] = "none"
      BY <1>19, <3>1, <3>2 DEF MaterializeExternal, PassTypeOK
    <3>3. CASE status[o] # "none"
      <4>1. listing' = [listing EXCEPT ![o] = Nothing] /\ fresh' = fresh /\ o \notin fresh
        BY <1>19, <3>3 DEF MaterializeExternal
      <4>2. listing' \in [Ids -> Snapshots \cup {Nothing}]
        BY <4>1 DEF PassTypeOK
      <4>3. fresh' \subseteq {x \in Ext : listing'[x] # Nothing}
        BY <4>1 DEF PassTypeOK, Ids
      <4> QED BY <1>19, <3>1, <4>2, <4>3 DEF MaterializeExternal, PassTypeOK
    <3> QED BY <3>2, <3>3
  <2> QED BY <1>19, <2>1, <2>2, <2>3, BrokerSame, NetSame DEF MaterializeExternal
<1>20. ASSUME NEW o \in Ids, ReconcileFresh(o) PROVE TypeOK'
  <2>1. DbTypeOK'
    BY <1>20, ApplyKeepsDb DEF ReconcileFresh, PassTypeOK
  <2>2. MemTypeOK'
    BY <1>20 DEF ReconcileFresh, MemTypeOK, Committed
  <2>3. PassTypeOK'
    BY <1>20 DEF ReconcileFresh, PassTypeOK
  <2> QED BY <1>20, <2>1, <2>2, <2>3, BrokerSame, NetSame DEF ReconcileFresh
<1>21. ASSUME SelectPending PROVE TypeOK'
  <2>1. PassTypeOK'
    BY <1>21 DEF SelectPending, PassTypeOK, PassStates
  <2> QED BY <1>21, <2>1, DbSame, MemSame, BrokerSame, NetSame DEF SelectPending
<1>22. ASSUME NEW o \in Ids, AskBroker(o) PROVE TypeOK'
  <2>1. PassTypeOK'
    BY <1>22, SnapshotOf DEF AskBroker, PassTypeOK, PassStates
  <2> QED BY <1>22, <2>1, DbSame, MemSame, BrokerSame, NetSame DEF AskBroker
<1>23. ASSUME ResolvePending PROVE TypeOK'
  <2>1. DbTypeOK'
    BY <1>23, ApplyKeepsDb DEF ResolvePending, PassTypeOK, DbTypeOK, fillVars, Statuses, Terminal
  <2>2. MemTypeOK'
    BY <1>23 DEF ResolvePending, MemTypeOK, Committed
  <2>3. PassTypeOK'
    BY <1>23 DEF ResolvePending, PassTypeOK, PassStates
  <2> QED BY <1>23, <2>1, <2>2, <2>3, BrokerSame, NetSame DEF ResolvePending
<1>24. ASSUME FetchExecutions PROVE TypeOK'
  <2>1. PassTypeOK'
    BY <1>24 DEF FetchExecutions, PassTypeOK, PassStates, Executed
  <2> QED BY <1>24, <2>1, DbSame, MemSame, BrokerSame, NetSame DEF FetchExecutions
<1>25. ASSUME LockForIngest PROVE TypeOK'
  <2>1. MemTypeOK'
    BY <1>25 DEF LockForIngest, MemTypeOK
  <2>2. PassTypeOK'
    BY <1>25 DEF LockForIngest, PassTypeOK, PassStates
  <2> QED BY <1>25, <2>1, <2>2, DbSame, BrokerSame, NetSame DEF LockForIngest
<1>26. ASSUME NEW e \in Execs, IngestNext(e) PROVE TypeOK'
  <2>1. DbTypeOK'
    BY <1>26, IngestKeepsDb, IdOfExec DEF IngestNext
  <2>2. MemTypeOK'
    BY <1>26 DEF IngestNext, MemTypeOK
  <2>3. PassTypeOK'
    BY <1>26 DEF IngestNext, PassTypeOK
  <2> QED BY <1>26, <2>1, <2>2, <2>3, BrokerSame, NetSame DEF IngestNext
<1>27. ASSUME IngestDone PROVE TypeOK'
  <2>1. MemTypeOK'
    BY <1>27 DEF IngestDone, MemTypeOK, PassTypeOK
  <2>2. PassTypeOK'
    BY <1>27 DEF IngestDone, PassTypeOK, PassStates
  <2> QED BY <1>27, <2>1, <2>2, DbSame, BrokerSame, NetSame DEF IngestDone
<1>27a. ASSUME RefreshSymbols PROVE TypeOK'
  <2>1. MemTypeOK'
    BY <1>27a DEF RefreshSymbols, MemTypeOK
  <2>2. PassTypeOK'
    BY <1>27a DEF RefreshSymbols, PassTypeOK, PassStates
  <2> QED BY <1>27a, <2>1, <2>2, DbSame, BrokerSame, NetSame DEF RefreshSymbols
<1>28. ASSUME FinishPass PROVE TypeOK'
  <2>1. MemTypeOK'
    BY <1>28 DEF FinishPass, MemTypeOK, BumpOrders
  <2>2. PassTypeOK'
    BY <1>28, ClearPassType DEF FinishPass
  <2> QED BY <1>28, <2>1, <2>2, DbSame, BrokerSame, NetSame DEF FinishPass
<1>29. ASSUME AbortPass PROVE TypeOK'
  <2>1. MemTypeOK'
    BY <1>29 DEF AbortPass, MemTypeOK
  <2>2. PassTypeOK'
    BY <1>29, ClearPassType DEF AbortPass
  <2> QED BY <1>29, <2>1, <2>2, DbSame, BrokerSame, NetSame DEF AbortPass
<1>30. ASSUME ConsumeConnected PROVE TypeOK'
  <2>1. MemTypeOK'
    BY <1>30 DEF ConsumeConnected, MemTypeOK, passVars
  <2>2. PassTypeOK'
    BY <1>30, BeginPassType DEF ConsumeConnected, PassTypeOK, passVars
  <2>3. NetTypeOK'
    BY <1>30 DEF ConsumeConnected, NetTypeOK, boundVars
  <2> QED BY <1>30, <2>1, <2>2, <2>3, DbSame, BrokerSame DEF ConsumeConnected
<1>31. ASSUME ConsumeKnown PROVE TypeOK'
  <2>1. DbTypeOK'
    BY <1>31, ApplyKeepsDb DEF ConsumeKnown, NetTypeOK, Events, Connected
  <2>2. MemTypeOK'
    <3> DEFINE ev == Head(stream)
    <3>1. ev \in Events /\ ev.kind = "update"
      BY <1>31 DEF ConsumeKnown, NetTypeOK
    <3>2. ev.o \in Ids /\ ev.exec \in 0 .. MaxQty
      BY <3>1 DEF Events, Connected
    <3>3. CASE ev.exec = 0
      BY <1>31, <3>3 DEF ConsumeKnown, MemTypeOK, Committed
    <3>4. CASE ev.exec # 0
      <4>1. <<ev.o, ev.exec>> \in Execs
        BY <3>2, <3>4, OMAssumption DEF Execs
      <4> QED BY <1>31, <3>4, <4>1 DEF ConsumeKnown, MemTypeOK, Committed
    <3> QED BY <3>3, <3>4
  <2>3. NetTypeOK'
    BY <1>31 DEF ConsumeKnown, NetTypeOK, boundVars
  <2> QED BY <1>31, <2>1, <2>2, <2>3, PassSame, BrokerSame DEF ConsumeKnown
<1>32. ASSUME ConsumeFill PROVE TypeOK'
  <2>1. DbTypeOK'
    BY <1>32, IngestKeepsDb, IdOfExec DEF ConsumeFill, MemTypeOK
  <2>2. MemTypeOK'
    BY <1>32 DEF ConsumeFill, MemTypeOK
  <2> QED BY <1>32, <2>1, <2>2, PassSame, BrokerSame, NetSame DEF ConsumeFill
<1>33. ASSUME ConsumerFails PROVE TypeOK'
  <2>1. MemTypeOK'
    BY <1>33 DEF ConsumerFails, MemTypeOK
  <2>2. stream' \in Seq(Events)
    BY <1>33 DEF ConsumerFails, NetTypeOK
  <2>3. NetTypeOK'
    BY <1>33, <2>2 DEF ConsumerFails, NetTypeOK, boundVars
  <2> QED BY <1>33, <2>1, <2>3, DbSame, PassSame, BrokerSame DEF ConsumerFails
<1>33a. ASSUME ConsumeRefreshed PROVE TypeOK'
  <2>1. MemTypeOK'
    BY <1>33a DEF ConsumeRefreshed, MemTypeOK, BumpOrders
  <2> QED BY <1>33a, <2>1, DbSame, PassSame, BrokerSame, NetSame DEF ConsumeRefreshed
<1>34. ASSUME ConsumeUnknown PROVE TypeOK'
  <2>1. MemTypeOK'
    BY <1>34 DEF ConsumeUnknown, MemTypeOK, passVars
  <2>2. PassTypeOK'
    BY <1>34, BeginPassType DEF ConsumeUnknown, PassTypeOK, passVars
  <2>3. NetTypeOK'
    BY <1>34 DEF ConsumeUnknown, NetTypeOK, boundVars
  <2> QED BY <1>34, <2>1, <2>2, <2>3, DbSame, BrokerSame DEF ConsumeUnknown
<1>35. ASSUME Disconnect PROVE TypeOK'
  <2>1. NetTypeOK'
    <3>1. PICK n \in 0 .. Len(stream) : stream' = SubSeq(stream, 1, n)
      BY <1>35 DEF Disconnect
    <3>2. stream' \in Seq(Events)
      BY <3>1 DEF NetTypeOK
    <3>3. breaks' \in Nat
      BY <1>35, OMAssumption DEF Disconnect, NetTypeOK
    <3> QED BY <1>35, <3>2, <3>3 DEF Disconnect, NetTypeOK
  <2> QED BY <1>35, <2>1, DbSame, MemSame, PassSame, BrokerSame DEF Disconnect
<1>36. ASSUME Reconnect PROVE TypeOK'
  <2>1. NetTypeOK'
    <3>1. Connected \in Events
      BY DEF Events
    <3>2. ASSUME NEW o \in Present PROVE LastUpdate(o) \in Events
      BY <3>2, SnapshotOf, UpdateIsEvent, OMAssumption DEF LastUpdate, Present, BrokerTypeOK
    <3> DEFINE S == Events
    <3>3. /\ stream \in Seq(S) /\ Connected \in S
          /\ \A o \in Present : LastUpdate(o) \in S
      BY <3>1, <3>2 DEF NetTypeOK
    <3> HIDE DEF S
    <3>4. ASSUME NEW o \in Present PROVE stream \o <<Connected, LastUpdate(o)>> \in Seq(S)
      <4>1. <<Connected, LastUpdate(o)>> \in Seq(S)
        BY <3>3
      <4> QED BY <3>3, <4>1
    <3>5. ASSUME stream' = Append(stream, Connected) PROVE stream' \in Seq(S)
      BY <3>3, <3>5
    <3>6. ASSUME \E o \in Present : stream' = stream \o <<Connected, LastUpdate(o)>>
          PROVE  stream' \in Seq(S)
      BY <3>4, <3>6, Zenon
    <3>7. stream' \in Seq(S)
      BY <1>36, <3>5, <3>6 DEF Reconnect
    <3>8. stream' \in Seq(Events)
      BY <3>7 DEF S
    <3> QED BY <1>36, <3>8 DEF Reconnect, NetTypeOK, boundVars
  <2> QED BY <1>36, <2>1, DbSame, MemSame, PassSame, BrokerSame DEF Reconnect
<1>37. ASSUME Crash PROVE TypeOK'
  <2>1. MemTypeOK'
    BY <1>37 DEF Crash, MemTypeOK, SubStates
  <2>2. PassTypeOK'
    BY <1>37, ClearPassType DEF Crash
  <2>3. NetTypeOK'
    <3>1. breaks' \in Nat
      BY <1>37, OMAssumption DEF Crash, NetTypeOK
    <3>2. stream' \in Seq(Events)
      BY <1>37 DEF Crash
    <3> QED BY <1>37, <3>1, <3>2 DEF Crash, NetTypeOK
  <2> QED BY <1>37, <2>1, <2>2, <2>3, DbSame, BrokerSame DEF Crash
<1>38. CASE UNCHANGED vars
  BY <1>38 DEF vars, dbVars, memVars, passVars, brokerVars, netVars, boundVars, DbTypeOK, MemTypeOK, PassTypeOK, BrokerTypeOK, NetTypeOK
<1> QED
  BY <1>1, <1>2, <1>3, <1>4, <1>5, <1>6, <1>7, <1>7a, <1>8, <1>9, <1>10, <1>11, <1>12,
     <1>13, <1>14, <1>15, <1>16, <1>17, <1>18, <1>19, <1>20, <1>21, <1>22, <1>23, <1>24, <1>25,
     <1>26, <1>27, <1>27a, <1>28, <1>29, <1>30, <1>31, <1>32, <1>33, <1>33a, <1>34, <1>35, <1>36, <1>37, <1>38
  DEF Next, BrokerStep, SubmitStep, PassStep, ConsumerStep
-------------------------------------------------------------------------------
(* Every variable keeps its type, for every number of orders, executions,   *)
(* crashes and disconnections.                                              *)
THEOREM TypeCorrect == Spec => []TypeOK
<1>1. Init => TypeOK
  <2> SUFFICES ASSUME Init PROVE TypeOK
    OBVIOUS
  <2>1. DbTypeOK
    BY OMAssumption DEF Init, DbTypeOK, Execs
  <2>2. MemTypeOK
    BY DEF Init, MemTypeOK, SubStates
  <2>3. PassTypeOK
    BY DEF Init, NoPass, PassTypeOK, PassStates, NoListing
  <2>4. BrokerTypeOK
    BY OMAssumption DEF Init, BrokerTypeOK
  <2>5. NetTypeOK
    <3>2. wire \subseteq Own /\ cancels \subseteq Ids /\ connected \in BOOLEAN
      BY DEF Init
    <3>3. stream \in Seq(Events)
      BY DEF Init
    <3>4. breaks \in Nat
      BY DEF Init
    <3> QED BY <3>2, <3>3, <3>4 DEF NetTypeOK
  <2> QED BY <2>1, <2>2, <2>3, <2>4, <2>5 DEF TypeOK
<1> QED BY <1>1, TypeStep, PTL DEF Spec
-------------------------------------------------------------------------------
(* The broker's word: what it tells of an order, and of its executions.     *)

(* How an order ends at the broker.                                         *)
Final == {"filled"} \cup Closing

(* A description of an order is true for good: if it says the order ended,  *)
(* that is how it ended.                                                    *)
Honest(o, s) == s.st \in Final => bstatus[o] = s.st /\ bqty[o] = s.qty

Happened(o, k) == k <= bqty[o]

HonestEvents ==
    {ev \in Events : ev.kind = "update" => Honest(ev.o, ev.snap) /\ Happened(ev.o, ev.exec)}

(* Every description under way is: on the stream, in the mass status, and   *)
(* the answer about a pending order; and every execution the server heard   *)
(* of took place.                                                           *)
Word ==
    /\ stream \in Seq(HonestEvents)
    /\ batch \subseteq Executed
    /\ cpc = "ingest" => cev \in Executed
    /\ \A o \in Ids : listing[o] # Nothing => Honest(o, listing[o])
    /\ answer # Nothing => asked \in Ids /\ Honest(asked, answer)

(* Only the broker changes its orders.                                      *)
LEMMA OnlyTheBroker ==
    ASSUME [Next]_vars, ~\E p \in Ids : BrokerStep(p)
    PROVE  UNCHANGED <<bstatus, bqty>>
<1>1. ASSUME \/ \E p \in Ids : CancelOrder(p)
             \/ \E p \in Own : SubmitStep(p)
             \/ KillSwitch \/ KillMark \/ TimerReconcile \/ AbortPass
             \/ ConsumerStep \/ ConsumerFails \/ ConsumeRefreshed \/ Disconnect \/ Reconnect
             \/ HourPasses \/ Crash \/ UNCHANGED vars
      PROVE  UNCHANGED <<bstatus, bqty>>
  BY <1>1
  DEF CancelOrder, SubmitStep, Persist, Send, SubmitAccepted, SubmitRejected, SubmitUnknown,
      KillSwitch, KillMark, TimerReconcile, AbortPass, ConsumerStep, ConsumeConnected,
      ConsumeKnown, ConsumeFill, ConsumeUnknown, ConsumerFails, ConsumeRefreshed, Disconnect, Reconnect,
      HourPasses, Crash, vars, brokerVars
<1>2. ASSUME PassStep PROVE UNCHANGED <<bstatus, bqty>>
  BY <1>2
  DEF PassStep, ReconcileOwn, MaterializeExternal, ReconcileFresh, AskBroker, SelectPending,
      ResolvePending, FetchExecutions, LockForIngest, IngestNext, IngestDone, RefreshSymbols, FinishPass,
      brokerVars
<1> QED BY <1>1, <1>2 DEF Next

(* An order that ended at the broker stays as it ended.                     *)
LEMMA EndedForGood ==
    ASSUME TypeOK, [Next]_vars, NEW o \in Ids, bstatus[o] \in Final
    PROVE  bstatus'[o] = bstatus[o] /\ bqty'[o] = bqty[o]
<1>1. bstatus[o] \notin BrokerOpen /\ bstatus[o] # "none"
  BY OMAssumption DEF Final, BrokerOpen
<1>2. bstatus \in [Ids -> BrokerStatuses \cup {"none"}] /\ bqty \in [Ids -> 0 .. MaxQty]
  BY DEF TypeOK, BrokerTypeOK
<1>3. ASSUME NEW p \in Ids, BrokerStep(p)
      PROVE  bstatus'[o] = bstatus[o] /\ bqty'[o] = bqty[o]
  <2>1. CASE BrokerFill(p) \/ BrokerClose(p) \/ BrokerCanceling(p)
    <3>1. bstatus[p] \in BrokerOpen
      BY <2>1 DEF BrokerFill, BrokerClose, BrokerCanceling, BrokerOpen
    <3>2. p # o
      BY <1>1, <3>1
    <3> QED BY <1>2, <2>1, <3>2 DEF BrokerFill, BrokerClose, BrokerCanceling
  <2>2. CASE \/ BrokerAccept(p) \/ BrokerRefuse(p) \/ WireLost(p) \/ ExternalPlace(p)
             \/ BrokerCancel(p)
    BY <1>1, <1>2, <2>2
    DEF BrokerAccept, BrokerRefuse, WireLost, ExternalPlace, BrokerCancel, brokerVars
  <2> QED BY <1>3, <2>1, <2>2 DEF BrokerStep
<1> QED BY <1>3, OnlyTheBroker

(* The broker never forgets an order.                                       *)
LEMMA BrokerRemembers ==
    ASSUME TypeOK, [Next]_vars, NEW o \in Ids, bstatus[o] # "none"
    PROVE  bstatus'[o] # "none"
<1>1. ASSUME NEW p \in Ids, BrokerStep(p) PROVE bstatus'[o] # "none"
  BY <1>1, OMAssumption
  DEF BrokerStep, BrokerAccept, BrokerRefuse, WireLost, ExternalPlace, BrokerFill, BrokerClose,
      BrokerCanceling, BrokerCancel, brokerVars, TypeOK, BrokerTypeOK
<1> QED BY <1>1, OnlyTheBroker

(* So what is honest stays honest.                                          *)
LEMMA HonestStays ==
    ASSUME TypeOK, [Next]_vars, NEW o \in Ids, NEW s, Honest(o, s)
    PROVE  Honest(o, s)'
  BY EndedForGood DEF Honest

(* What was executed stays executed.                                        *)
LEMMA QtyGrows ==
    ASSUME TypeOK, [Next]_vars, NEW o \in Ids
    PROVE  bqty[o] \in Nat /\ bqty'[o] \in Nat /\ bqty[o] <= bqty'[o]
<1>1. bqty \in [Ids -> 0 .. MaxQty] /\ MaxQty \in Nat
  BY OMAssumption DEF TypeOK, BrokerTypeOK
<1>2. ASSUME NEW p \in Ids, BrokerStep(p)
      PROVE  UNCHANGED bqty \/ bqty' = [bqty EXCEPT ![p] = bqty[p] + 1]
  BY <1>2
  DEF BrokerStep, BrokerAccept, BrokerRefuse, WireLost, ExternalPlace, BrokerFill, BrokerClose,
      BrokerCanceling, BrokerCancel, brokerVars
<1> QED BY <1>1, <1>2, OnlyTheBroker

LEMMA ExecutedGrows ==
    ASSUME TypeOK, [Next]_vars
    PROVE  Executed \subseteq Executed'
<1> SUFFICES ASSUME NEW e \in Executed PROVE e \in Executed'
  OBVIOUS
<1>1. e \in Execs /\ e[2] <= bqty[e[1]] /\ e[1] \in Ids /\ e[2] \in Nat
  BY DEF Executed, Execs
<1>2. bqty[e[1]] \in Nat /\ bqty'[e[1]] \in Nat /\ bqty[e[1]] <= bqty'[e[1]]
  BY <1>1, QtyGrows
<1>3. e[2] <= bqty'[e[1]]
  BY <1>1, <1>2
<1> QED BY <1>1, <1>3 DEF Executed

(* Honest events stay honest.                                               *)
LEMMA EventsStay ==
    ASSUME TypeOK, [Next]_vars
    PROVE  HonestEvents \subseteq HonestEvents'
<1> SUFFICES ASSUME NEW ev \in HonestEvents PROVE ev \in HonestEvents'
  OBVIOUS
<1>1. ev \in Events /\ (ev.kind = "update" => Honest(ev.o, ev.snap) /\ Happened(ev.o, ev.exec))
  BY DEF HonestEvents
<1>2. ev.kind = "update" => ev.o \in Ids /\ ev.exec \in Nat
  BY <1>1, OMAssumption DEF Events, Connected
<1>3. ev.kind = "update" => Honest(ev.o, ev.snap)'
  BY <1>1, <1>2, HonestStays
<1>4. ev.kind = "update" => bqty[ev.o] \in Nat /\ bqty'[ev.o] \in Nat /\ bqty[ev.o] <= bqty'[ev.o]
  BY <1>2, QtyGrows
<1>5. ev.kind = "update" => ev.exec <= bqty'[ev.o]
  BY <1>1, <1>2, <1>4 DEF Happened
<1> QED BY <1>1, <1>3, <1>5 DEF HonestEvents, Events, Happened

(* The stream only carries what was so when it was pushed.                  *)
LEMMA StreamStep ==
    ASSUME TypeOK, Word, [Next]_vars
    PROVE  stream' \in Seq(HonestEvents')
<1> DEFINE H == HonestEvents'
<1>1. stream \in Seq(H)
  BY EventsStay DEF Word
<1>2. ASSUME NEW o \in Ids, NEW s \in Snapshots, NEW k \in 0 .. MaxQty,
             s.st \in Final => bstatus'[o] = s.st /\ bqty'[o] = s.qty,
             k <= bqty'[o]
      PROVE  Update(o, s, k) \in H
  <2>1. Update(o, s, k) \in Events
    BY UpdateIsEvent
  <2>2. Update(o, s, k).o = o /\ Update(o, s, k).snap = s /\ Update(o, s, k).exec = k
    BY DEF Update
  <2> QED BY <1>2, <2>1, <2>2 DEF HonestEvents, Events, Honest, Happened
<1>3. Connected \in H
  BY DEF Connected, HonestEvents, Events
<1> HIDE DEF H
<1>4. ASSUME NEW ev \in H, Push(ev) PROVE stream' \in Seq(H)
  BY <1>1, <1>4 DEF Push
<1>4a. ASSUME NEW o \in Ids PROVE 0 <= bqty'[o]
  BY <1>4a, QtyGrows
<1> USE DEF TypeOK
<1>5. ASSUME NEW o \in Ids, BrokerAccept(o) \/ ExternalPlace(o) PROVE stream' \in Seq(H)
  <2> DEFINE s == [st |-> "accepted", qty |-> 0]
  <2>1. s.st \notin Final
    BY OMAssumption DEF Final
  <2>2. s \in Snapshots /\ 0 \in 0 .. MaxQty
    BY NewOrder, OMAssumption
  <2>3. Push(Update(o, s, 0))
    BY <1>5 DEF BrokerAccept, ExternalPlace
  <2> QED BY <1>2, <1>4, <1>4a, <2>1, <2>2, <2>3
<1>6. ASSUME NEW o \in Ids, BrokerFill(o) PROVE stream' \in Seq(H)
  <2> DEFINE k == bqty[o] + 1
             st == IF k = MaxQty THEN "filled"
                   ELSE IF bstatus[o] = "pending_cancel" THEN "pending_cancel"
                   ELSE "partially_filled"
             s == [st |-> st, qty |-> k]
  <2>1. k \in 0 .. MaxQty /\ st \in BrokerStatuses
    BY <1>6, OMAssumption DEF BrokerFill, BrokerTypeOK, BrokerStatuses, BrokerOpen
  <2>2. bstatus' = [bstatus EXCEPT ![o] = st] /\ bqty' = [bqty EXCEPT ![o] = k] /\ Push(Update(o, s, k))
    BY <1>6 DEF BrokerFill
  <2>3. bstatus'[o] = st /\ bqty'[o] = k
    BY <2>2 DEF BrokerTypeOK
  <2> HIDE DEF k, st
  <2>4. s \in Snapshots
    BY <2>1 DEF Snapshots
  <2>5. bstatus'[o] = s.st /\ bqty'[o] = s.qty
    BY <2>3
  <2> HIDE DEF s
  <2>6. Update(o, s, k) \in H
    BY <1>2, <2>1, <2>3, <2>4, <2>5
  <2> QED BY <1>4, <2>2, <2>6 DEF s
<1>7. ASSUME NEW o \in Ids, BrokerClose(o) \/ (BrokerCancel(o) /\ stream' # stream) PROVE stream' \in Seq(H)
  <2>1. PICK st \in Closing : /\ bstatus' = [bstatus EXCEPT ![o] = st] /\ bqty' = bqty
                              /\ Push(Update(o, [st |-> st, qty |-> bqty[o]], 0))
    BY <1>7, OMAssumption DEF BrokerClose, BrokerCancel
  <2> DEFINE s == [st |-> st, qty |-> bqty[o]]
  <2>2. bstatus'[o] = st /\ bqty'[o] = bqty[o]
    BY <2>1 DEF BrokerTypeOK
  <2>3. s \in Snapshots /\ 0 \in 0 .. MaxQty
    BY OMAssumption DEF Snapshots, BrokerTypeOK, BrokerStatuses
  <2>4. bstatus'[o] = s.st /\ bqty'[o] = s.qty
    BY <2>2
  <2>5. Push(Update(o, s, 0))
    BY <2>1
  <2> HIDE DEF s
  <2> QED BY <1>2, <1>4, <1>4a, <2>3, <2>4, <2>5
<1>7a. ASSUME NEW o \in Ids, BrokerCanceling(o) PROVE stream' \in Seq(H)
  <2> DEFINE s == [st |-> "pending_cancel", qty |-> bqty[o]]
  <2>1. s.st \notin Final
    BY OMAssumption DEF Final
  <2>2. s \in Snapshots /\ 0 \in 0 .. MaxQty
    BY OMAssumption DEF Snapshots, BrokerTypeOK, BrokerStatuses, BrokerOpen
  <2>3. Push(Update(o, s, 0))
    BY <1>7a DEF BrokerCanceling
  <2> HIDE DEF s
  <2> QED BY <1>2, <1>4, <1>4a, <2>1, <2>2, <2>3
<1>8. ASSUME Disconnect \/ Crash PROVE stream' \in Seq(H)
  <2>1. CASE Crash
    BY <2>1 DEF Crash
  <2>2. CASE Disconnect
    <3>1. PICK n \in 0 .. Len(stream) : stream' = SubSeq(stream, 1, n)
      BY <2>2 DEF Disconnect
    <3> QED BY <1>1, <3>1
  <2> QED BY <1>8, <2>1, <2>2
<1>9. ASSUME Reconnect PROVE stream' \in Seq(H)
  <2>1. ASSUME NEW o \in Present PROVE LastUpdate(o) \in H
    <3> DEFINE k == IF bstatus[o] \in {"partially_filled", "filled"} THEN bqty[o] ELSE 0
    <3>1. o \in Ids /\ Snapshot(o) \in Snapshots
      BY SnapshotOf DEF Present
    <3>2. UNCHANGED <<bstatus, bqty>>
      BY <1>9 DEF Reconnect, brokerVars
    <3>4. k \in 0 .. MaxQty
      BY <3>1, OMAssumption DEF BrokerTypeOK
    <3>6. bstatus'[o] = Snapshot(o).st /\ bqty'[o] = Snapshot(o).qty
      BY <3>2 DEF Snapshot
    <3>5. k <= bqty'[o]
      BY <3>1, <3>2, OMAssumption DEF BrokerTypeOK
    <3> HIDE DEF k
    <3>7. Update(o, Snapshot(o), k) \in H
      BY <1>2, <3>1, <3>4, <3>5, <3>6
    <3> QED BY <3>7 DEF LastUpdate, k
  <2>2. \/ stream' = Append(stream, Connected)
        \/ \E o \in Present : stream' = stream \o <<Connected, LastUpdate(o)>>
    BY <1>9 DEF Reconnect
  <2>3. ASSUME NEW o \in Present PROVE stream \o <<Connected, LastUpdate(o)>> \in Seq(H)
    <3>1. <<Connected, LastUpdate(o)>> \in Seq(H)
      BY <1>3, <2>1
    <3> QED BY <1>1, <3>1
  <2>4. Append(stream, Connected) \in Seq(H)
    BY <1>1, <1>3
  <2> QED BY <2>2, <2>3, <2>4
<1>10. ASSUME ConsumeConnected \/ ConsumeKnown \/ ConsumeUnknown \/ ConsumerFails
       PROVE  stream' \in Seq(H)
  <2>1. (stream # <<>> /\ stream' = Tail(stream)) \/ stream' = stream
    BY <1>10 DEF ConsumeConnected, ConsumeKnown, ConsumeUnknown, ConsumerFails
  <2> QED BY <1>1, <2>1
<1>11. ASSUME \/ \E p \in Ids : CancelOrder(p) \/ BrokerRefuse(p) \/ WireLost(p)
              \/ \E p \in Own : SubmitStep(p)
              \/ KillSwitch \/ KillMark \/ TimerReconcile \/ PassStep \/ AbortPass
              \/ ConsumeFill \/ ConsumeRefreshed \/ HourPasses \/ UNCHANGED vars
       PROVE  stream' = stream
  BY <1>11
  DEF CancelOrder, BrokerRefuse, WireLost, SubmitStep, Persist, Send, SubmitAccepted,
      SubmitRejected, SubmitUnknown, KillSwitch, KillMark, TimerReconcile, AbortPass, PassStep,
      ReconcileOwn, MaterializeExternal, ReconcileFresh, AskBroker, SelectPending,
      ResolvePending, FetchExecutions, LockForIngest, IngestNext, IngestDone, RefreshSymbols, FinishPass,
      ConsumeFill, ConsumeRefreshed, HourPasses, vars, netVars
<1> QED
  BY <1>1, <1>5, <1>6, <1>7, <1>7a, <1>8, <1>9, <1>10, <1>11
  DEF Next, BrokerStep, ConsumerStep, H

(* A pass's list of orders is what the broker said, less what was applied.   *)
LEMMA ListingStep ==
    ASSUME TypeOK, Word, [Next]_vars, NEW o \in Ids, listing'[o] # Nothing
    PROVE  Honest(o, listing[o])' 
<1>1. \/ listing'[o] = listing[o]
      \/ listing'[o] = Snapshot(o) /\ UNCHANGED <<bstatus, bqty>>
  <2> USE DEF TypeOK, PassTypeOK
  <2>1. ASSUME NEW who, BeginPass(who)
        PROVE  listing'[o] = Snapshot(o) \/ listing'[o] = Nothing
    BY <2>1 DEF BeginPass, NoListing
  <2>2. ASSUME TimerReconcile PROVE listing'[o] = Snapshot(o) /\ UNCHANGED <<bstatus, bqty>>
    BY <2>1, <2>2 DEF TimerReconcile, brokerVars
  <2>3. ASSUME ConsumeConnected \/ ConsumeUnknown
        PROVE  listing'[o] = listing[o] \/ (listing'[o] = Snapshot(o) /\ UNCHANGED <<bstatus, bqty>>)
    BY <2>1, <2>3 DEF ConsumeConnected, ConsumeUnknown, brokerVars, passVars
  <2>4. ASSUME NEW p \in Ids, ReconcileOwn(p) \/ MaterializeExternal(p) \/ ReconcileFresh(p)
        PROVE  listing'[o] = listing[o]
    BY <2>4 DEF ReconcileOwn, MaterializeExternal, ReconcileFresh
  <2>5. ASSUME FinishPass \/ AbortPass \/ Crash PROVE FALSE
    BY <2>5 DEF FinishPass, AbortPass, Crash, ClearPass, NoListing
  <2>6. ASSUME \/ \E p \in Ids : CancelOrder(p) \/ BrokerStep(p) \/ AskBroker(p)
               \/ \E p \in Own : SubmitStep(p)
               \/ KillSwitch \/ KillMark \/ ConsumeKnown \/ ConsumeFill \/ ConsumerFails \/ ConsumeRefreshed
               \/ Disconnect \/ Reconnect \/ HourPasses \/ UNCHANGED vars
        PROVE  listing' = listing
    BY <2>6
    DEF CancelOrder, BrokerStep, BrokerAccept, BrokerRefuse, WireLost, ExternalPlace,
        BrokerFill, BrokerClose, BrokerCanceling, BrokerCancel, AskBroker, SubmitStep, Persist, Send,
        SubmitAccepted, SubmitRejected, SubmitUnknown, KillSwitch, KillMark, ConsumeKnown,
        ConsumeFill, ConsumerFails, ConsumeRefreshed, Disconnect, Reconnect, HourPasses, vars, passVars
  <2>7. ASSUME \/ SelectPending \/ ResolvePending \/ FetchExecutions \/ LockForIngest
               \/ IngestDone \/ RefreshSymbols \/ \E e \in Execs : IngestNext(e)
        PROVE  listing' = listing
    BY <2>7
    DEF SelectPending, ResolvePending, FetchExecutions, LockForIngest, IngestDone, RefreshSymbols, IngestNext
  <2> QED
    BY <2>2, <2>3, <2>4, <2>5, <2>6, <2>7 DEF Next, PassStep, ConsumerStep
<1>2. CASE listing'[o] = listing[o]
  <2>1. PICK s : s = listing[o]
    OBVIOUS
  <2>2. Honest(o, s)
    BY <1>2, <2>1 DEF Word
  <2>3. Honest(o, s)'
    BY <2>2, HonestStays
  <2> QED BY <1>2, <2>1, <2>3 DEF Honest
<1>3. CASE listing'[o] = Snapshot(o) /\ UNCHANGED <<bstatus, bqty>>
  BY <1>3 DEF Honest, Snapshot
<1> QED BY <1>1, <1>2, <1>3

(* The answer about a pending order is what the broker said of it.          *)
LEMMA AnswerStep ==
    ASSUME TypeOK, Word, [Next]_vars, answer' # Nothing
    PROVE  asked' \in Ids /\ Honest(asked, answer)'
<1>1. \/ answer' = answer /\ asked' = asked
      \/ asked' \in Ids /\ answer' = Snapshot(asked') /\ UNCHANGED <<bstatus, bqty>>
  <2>1. ASSUME NEW who, BeginPass(who) PROVE UNCHANGED <<asked, answer>>
    BY <2>1 DEF BeginPass
  <2>2. ASSUME TimerReconcile \/ ConsumeConnected \/ ConsumeUnknown PROVE UNCHANGED <<asked, answer>>
    BY <2>1, <2>2 DEF TimerReconcile, ConsumeConnected, ConsumeUnknown, passVars
  <2>3. ASSUME NEW p \in Ids, AskBroker(p)
        PROVE  \/ UNCHANGED <<asked, answer>>
               \/ asked' \in Ids /\ answer' = Snapshot(asked') /\ UNCHANGED <<bstatus, bqty>>
    BY <2>3 DEF AskBroker, brokerVars
  <2>4. ASSUME ResolvePending \/ FinishPass \/ AbortPass \/ Crash PROVE FALSE
    BY <2>4 DEF ResolvePending, FinishPass, AbortPass, Crash, ClearPass
  <2>5. ASSUME \/ \E p \in Ids : CancelOrder(p) \/ BrokerStep(p)
               \/ \E p \in Own : SubmitStep(p)
               \/ KillSwitch \/ KillMark \/ ConsumeKnown \/ ConsumeFill \/ ConsumerFails \/ ConsumeRefreshed
               \/ Disconnect \/ Reconnect \/ HourPasses \/ UNCHANGED vars
        PROVE  UNCHANGED <<asked, answer>>
    BY <2>5
    DEF CancelOrder, BrokerStep, BrokerAccept, BrokerRefuse, WireLost, ExternalPlace,
        BrokerFill, BrokerClose, BrokerCanceling, BrokerCancel, SubmitStep, Persist, Send,
        SubmitAccepted, SubmitRejected, SubmitUnknown, KillSwitch, KillMark, ConsumeKnown,
        ConsumeFill, ConsumerFails, ConsumeRefreshed, Disconnect, Reconnect, HourPasses, vars, passVars
  <2>6. ASSUME \/ \E p \in Ids : ReconcileOwn(p) \/ MaterializeExternal(p) \/ ReconcileFresh(p)
               \/ SelectPending \/ FetchExecutions \/ LockForIngest
               \/ IngestDone \/ RefreshSymbols \/ \E e \in Execs : IngestNext(e)
        PROVE  UNCHANGED <<asked, answer>>
    BY <2>6
    DEF ReconcileOwn, MaterializeExternal, ReconcileFresh, SelectPending, FetchExecutions,
        LockForIngest, IngestDone, RefreshSymbols, IngestNext
  <2> QED
    BY <2>2, <2>3, <2>4, <2>5, <2>6 DEF Next, PassStep, ConsumerStep
<1>2. CASE answer' = answer /\ asked' = asked
  <2>1. PICK s, o : s = answer /\ o = asked
    OBVIOUS
  <2>2. o \in Ids /\ Honest(o, s)
    BY <1>2, <2>1 DEF Word
  <2>3. Honest(o, s)'
    BY <2>2, HonestStays
  <2> QED BY <1>2, <2>1, <2>2, <2>3 DEF Honest
<1>3. CASE asked' \in Ids /\ answer' = Snapshot(asked') /\ UNCHANGED <<bstatus, bqty>>
  BY <1>3 DEF Honest, Snapshot
<1> QED BY <1>1, <1>2, <1>3

(* The executions a pass or the consumer holds come from there.             *)
LEMMA HeardStep ==
    ASSUME TypeOK, Word, [Next]_vars
    PROVE  batch' \subseteq Executed' /\ (cpc' = "ingest" => cev' \in Executed')
<1>a. batch \subseteq Executed' /\ (cpc = "ingest" => cev \in Executed')
  BY ExecutedGrows DEF Word
<1>1. ASSUME UNCHANGED <<batch, cpc, cev>>
      PROVE  batch' \subseteq Executed' /\ (cpc' = "ingest" => cev' \in Executed')
  BY <1>a, <1>1
<1>2. ASSUME \/ \E p \in Ids : CancelOrder(p) \/ BrokerStep(p)
             \/ \E p \in Own : SubmitStep(p)
             \/ KillSwitch \/ KillMark \/ Disconnect \/ Reconnect \/ HourPasses
             \/ UNCHANGED vars
      PROVE  UNCHANGED <<batch, cpc, cev>>
  BY <1>2
  DEF CancelOrder, BrokerStep, BrokerAccept, BrokerRefuse, WireLost, ExternalPlace,
      BrokerFill, BrokerClose, BrokerCanceling, BrokerCancel, SubmitStep, Persist, Send,
      SubmitAccepted, SubmitRejected, SubmitUnknown, KillSwitch, KillMark, Disconnect,
      Reconnect, HourPasses, vars, memVars, passVars
<1>3. ASSUME \/ \E p \in Ids : \/ ReconcileOwn(p) \/ MaterializeExternal(p)
                               \/ ReconcileFresh(p) \/ AskBroker(p)
             \/ TimerReconcile \/ SelectPending \/ ResolvePending \/ LockForIngest
             \/ IngestDone \/ RefreshSymbols
      PROVE  UNCHANGED <<batch, cpc, cev>>
  BY <1>3
  DEF ReconcileOwn, MaterializeExternal, ReconcileFresh, AskBroker, TimerReconcile, BeginPass,
      SelectPending, ResolvePending, LockForIngest, IngestDone, RefreshSymbols, memVars
<1>4. ASSUME FetchExecutions
      PROVE  batch' \subseteq Executed' /\ (cpc' = "ingest" => cev' \in Executed')
  <2>1. batch' \subseteq Executed \cup batch /\ UNCHANGED <<cpc, cev>>
    BY <1>4 DEF FetchExecutions, memVars
  <2> QED BY <1>a, <2>1, ExecutedGrows
<1>5. ASSUME NEW e \in Execs, IngestNext(e)
      PROVE  batch' \subseteq Executed' /\ (cpc' = "ingest" => cev' \in Executed')
  <2>1. batch' \subseteq batch /\ UNCHANGED <<cpc, cev>>
    BY <1>5 DEF IngestNext
  <2> QED BY <1>a, <2>1
<1>6. ASSUME FinishPass \/ AbortPass \/ Crash
      PROVE  batch' \subseteq Executed' /\ (cpc' = "ingest" => cev' \in Executed')
  <2>1. batch' = {} /\ (cpc' = "ingest" => cpc = "ingest" /\ cev' = cev)
    BY <1>6 DEF FinishPass, AbortPass, Crash, ClearPass
  <2> QED BY <1>a, <2>1
<1>7. ASSUME ConsumeConnected \/ ConsumeUnknown \/ ConsumeFill \/ ConsumerFails \/ ConsumeRefreshed
      PROVE  batch' \subseteq Executed' /\ (cpc' = "ingest" => cev' \in Executed')
  <2>1. batch' = batch /\ (cpc' # "ingest" \/ UNCHANGED <<cpc, cev>>)
    BY <1>7 DEF ConsumeConnected, ConsumeUnknown, ConsumeFill, ConsumerFails, ConsumeRefreshed,
                BeginPass, passVars
  <2> QED BY <1>a, <2>1
<1>8. ASSUME ConsumeKnown
      PROVE  batch' \subseteq Executed' /\ (cpc' = "ingest" => cev' \in Executed')
  <2> DEFINE ev == Head(stream)
  <2>1. ev \in HonestEvents /\ ev.kind = "update"
    BY <1>8 DEF ConsumeKnown, Word
  <2>2. ev.o \in Ids /\ ev.exec \in 0 .. MaxQty /\ ev.exec <= bqty[ev.o]
    BY <2>1 DEF HonestEvents, Events, Connected, Happened
  <2>3. batch' = batch
    BY <1>8 DEF ConsumeKnown, passVars
  <2>4. CASE ev.exec = 0
    <3>1. cpc' # "ingest"
      BY <1>8, <2>4 DEF ConsumeKnown
    <3> QED BY <1>a, <2>3, <3>1
  <2>5. CASE ev.exec # 0
    <3>1. <<ev.o, ev.exec>> \in Executed
      BY <2>2, <2>5, OMAssumption DEF Executed, Execs
    <3>2. cev' = <<ev.o, ev.exec>>
      BY <1>8, <2>5 DEF ConsumeKnown
    <3> QED BY <1>a, <2>3, <3>1, <3>2, ExecutedGrows
  <2> QED BY <2>4, <2>5
<1> QED
  BY <1>1, <1>2, <1>3, <1>4, <1>5, <1>6, <1>7, <1>8 DEF Next, PassStep, ConsumerStep

(* So the broker's word is kept as it was given.                            *)
LEMMA WordStep == ASSUME TypeOK, Word, [Next]_vars PROVE Word'
  BY StreamStep, ListingStep, AnswerStep, HeardStep DEF Word
-------------------------------------------------------------------------------
(* The inductive invariant behind the safety theorems: besides the two      *)
(* invariants and the broker's word it says which rows must already exist - *)
(* those whose broker id was learned, and those a submit handler is still   *)
(* working on.                                                              *)
RowsExist ==
    /\ \A o \in bid : status[o] # "none"
    /\ \A o \in Own : sub[o] # "idle" => status[o] # "none"

IInv == TypeOK /\ Word /\ BookedOnce /\ PersistedBeforeSent /\ RowsExist

(* What a step may do to the tables: move rows along the life cycle, or     *)
(* ingest one execution the server heard of.                                *)
RowsMove ==
    /\ UNCHANGED fillVars
    /\ \A o \in Ids : Book!MayBecome(status[o], status'[o])
    /\ \A o \in bid' : o \in bid \/ status'[o] # "none"

Heard == batch \cup {e \in Execs : cpc = "ingest" /\ e = cev}

Ingests(id) ==
    /\ IngestExecution(id) /\ UNCHANGED <<rowVars, bqty>>
    /\ id[1] \in Heard
    /\ OneId => id = StreamId(id[1])

(* apply_broker_order only moves a row along its life cycle.                *)
LEMMA ApplyMovesRows ==
    ASSUME TypeOK, NEW o \in Ids, NEW s \in Snapshots,
           ApplyBrokerOrder(o, s), UNCHANGED fillVars
    PROVE  RowsMove
  BY SnapshotFields
  DEF ApplyBrokerOrder, CanApply, RowsMove, rowVars, TypeOK, DbTypeOK,
      Book!MayBecome, Book!Statuses, Book!Open, Book!PreFill, Book!Terminal,
      Statuses, Open, PreFill, Terminal

(* A step that leaves the tables alone moves no row.                        *)
LEMMA TablesSame == UNCHANGED dbVars => RowsMove
  BY DEF dbVars, RowsMove, fillVars, Book!MayBecome

(* Every step of the order manager is one of the two.                       *)
LEMMA TableStep ==
    ASSUME TypeOK, [Next]_vars
    PROVE  RowsMove \/ \E id \in ExecIds : Ingests(id)
<1> USE DEF TypeOK
<1>1. ASSUME NEW o \in Ids, BrokerStep(o) PROVE RowsMove
  BY <1>1, TablesSame
  DEF BrokerStep, BrokerAccept, BrokerRefuse, WireLost, ExternalPlace, BrokerFill,
      BrokerClose, BrokerCanceling, BrokerCancel
<1>2. ASSUME NEW o \in Ids, CancelOrder(o) PROVE RowsMove
  BY <1>2 DEF CancelOrder, RowsMove, DbTypeOK, Book!MayBecome, Book!Statuses, Book!Open,
              Book!PreFill, Book!Terminal, Statuses, Open, PreFill, Terminal
<1>3. ASSUME NEW o \in Own, Persist(o) PROVE RowsMove
  BY <1>3 DEF Persist, RowsMove, DbTypeOK, Ids, Book!MayBecome, Book!Statuses, Book!Open,
              Book!PreFill
<1>4. ASSUME NEW o \in Own, Send(o) \/ SubmitUnknown(o) PROVE RowsMove
  BY <1>4, TablesSame DEF Send, SubmitUnknown
<1>5. ASSUME NEW o \in Own, SubmitAccepted(o) PROVE RowsMove
  BY <1>5, ApplyMovesRows, NewOrder DEF SubmitAccepted, Ids
<1>6. ASSUME NEW o \in Own, SubmitRejected(o) PROVE RowsMove
  BY <1>6 DEF SubmitRejected, RowsMove, DbTypeOK, Ids, Book!MayBecome, Book!Statuses,
              Book!Open, Book!PreFill, Book!Terminal
<1>7. ASSUME KillMark PROVE RowsMove
  BY <1>7 DEF KillMark, RowsMove, DbTypeOK, Book!MayBecome, Book!Statuses, Book!Open,
              Book!PreFill, Book!Terminal
<1>8. ASSUME NEW o \in Ids, ReconcileOwn(o) \/ ReconcileFresh(o) PROVE RowsMove
  <2>1. listing[o] \in Snapshots
    BY <1>8 DEF ReconcileOwn, ReconcileFresh, PassTypeOK
  <2> QED BY <1>8, <2>1, ApplyMovesRows DEF ReconcileOwn, ReconcileFresh
<1>9. ASSUME NEW o \in Ids, MaterializeExternal(o) PROVE RowsMove
  <2>1. listing[o] \in Snapshots
    BY <1>9 DEF MaterializeExternal, PassTypeOK
  <2>2. listing[o].st \in Statuses /\ listing[o].st # "none"
    BY <2>1, SnapshotFields DEF Statuses, Open, PreFill, Terminal
  <2> QED BY <1>9, <2>2 DEF MaterializeExternal, RowsMove, DbTypeOK, Book!MayBecome,
             Book!Statuses, Book!Open, Book!PreFill, Book!Terminal, Statuses, Open, PreFill,
             Terminal
<1>10. ASSUME ResolvePending PROVE RowsMove
  <2>1. asked \in Ids
    BY <1>10 DEF ResolvePending, PassTypeOK
  <2>2. CASE answer # Nothing
    BY <1>10, <2>1, <2>2, ApplyMovesRows DEF ResolvePending, PassTypeOK
  <2>3. CASE answer = Nothing
    BY <1>10, <2>1, <2>3 DEF ResolvePending, RowsMove, DbTypeOK, Book!MayBecome,
       Book!Statuses, Book!Open, Book!PreFill, Book!Terminal
  <2> QED BY <2>2, <2>3
<1>11. ASSUME NEW e \in Execs, IngestNext(e) PROVE \E id \in ExecIds : Ingests(id)
  <2>1. Ingests(ActivityId(e))
    BY <1>11, IdOfExec DEF IngestNext, Ingests, Heard, rowVars, brokerVars
  <2> QED BY <2>1, IdOfExec
<1>12. CASE ConsumeKnown
  <2>1. Head(stream) \in Events /\ Head(stream).kind = "update"
    BY <1>12 DEF ConsumeKnown, NetTypeOK
  <2>2. Head(stream).o \in Ids /\ Head(stream).snap \in Snapshots
    BY <2>1 DEF Events, Connected
  <2> QED BY <1>12, <2>2, ApplyMovesRows DEF ConsumeKnown
<1>13. CASE ConsumeFill
  <2>1. cev \in Execs
    BY <1>13 DEF ConsumeFill, MemTypeOK
  <2>2. Ingests(StreamId(cev))
    BY <1>13, <2>1, IdOfExec DEF ConsumeFill, Ingests, Heard, rowVars, brokerVars
  <2> QED BY <2>1, <2>2, IdOfExec
<1>14. ASSUME \/ KillSwitch \/ TimerReconcile \/ SelectPending \/ FetchExecutions
              \/ LockForIngest \/ IngestDone \/ RefreshSymbols \/ FinishPass \/ AbortPass
              \/ ConsumeConnected \/ ConsumeUnknown \/ ConsumerFails \/ ConsumeRefreshed
              \/ Disconnect \/ Reconnect \/ HourPasses \/ Crash
              \/ \E o \in Ids : AskBroker(o)
       PROVE  RowsMove
  BY <1>14, TablesSame
  DEF KillSwitch, TimerReconcile, SelectPending, FetchExecutions, LockForIngest, IngestDone, RefreshSymbols,
      FinishPass, AbortPass, ConsumeConnected, ConsumeUnknown, ConsumerFails, ConsumeRefreshed, Disconnect,
      Reconnect, HourPasses, Crash, AskBroker
<1>15. CASE UNCHANGED vars
  BY <1>15, TablesSame DEF vars
<1> QED
  BY <1>1, <1>2, <1>3, <1>4, <1>5, <1>6, <1>7, <1>8, <1>9, <1>10, <1>11, <1>12, <1>13,
     <1>14, <1>15
  DEF Next, SubmitStep, PassStep, ConsumerStep
-------------------------------------------------------------------------------
(* Only the broker and a submit handler move a submission.                  *)
LEMMA OthersSend ==
    ASSUME [Next]_vars, NEW o \in Own, ~\E p \in Ids : BrokerStep(p),
           ~\E p \in Own : SubmitStep(p)
    PROVE  UNCHANGED <<bstatus, wire>> /\ (UNCHANGED sub \/ sub'[o] = "idle")
<1>1. ASSUME \/ \E p \in Ids : CancelOrder(p)
             \/ KillSwitch \/ KillMark \/ TimerReconcile \/ PassStep \/ AbortPass
             \/ ConsumerStep \/ ConsumerFails \/ ConsumeRefreshed \/ Disconnect \/ Reconnect
             \/ HourPasses \/ UNCHANGED vars
      PROVE  UNCHANGED <<bstatus, wire, sub>>
  BY <1>1
  DEF CancelOrder, KillSwitch, KillMark, TimerReconcile, PassStep, ReconcileOwn,
      MaterializeExternal, ReconcileFresh, AskBroker, SelectPending, ResolvePending,
      FetchExecutions, LockForIngest, IngestNext, IngestDone, RefreshSymbols, FinishPass, AbortPass,
      ConsumerStep, ConsumeConnected, ConsumeKnown, ConsumeFill, ConsumeUnknown,
      ConsumerFails, ConsumeRefreshed, Disconnect, Reconnect, HourPasses, vars, memVars, brokerVars, netVars
<1>2. ASSUME Crash PROVE UNCHANGED <<bstatus, wire>> /\ sub'[o] = "idle"
  BY <1>2 DEF Crash, brokerVars
<1> QED BY <1>1, <1>2 DEF Next

(* What reached the broker, or is on its way, was persisted before.         *)
LEMMA SentStep ==
    ASSUME TypeOK, [Next]_vars, NEW o \in Own
    PROVE  /\ bstatus'[o] # "none" \/ o \in wire'
                => bstatus[o] # "none" \/ o \in wire \/ sub[o] # "idle"
           /\ sub'[o] # "idle" => sub[o] # "idle" \/ status'[o] # "none"
<1> DEFINE Sent == bstatus'[o] # "none" \/ o \in wire'
                        => bstatus[o] # "none" \/ o \in wire \/ sub[o] # "idle"
           Working == sub'[o] # "idle" => sub[o] # "idle" \/ status'[o] # "none"
<1> SUFFICES Sent /\ Working
  OBVIOUS
<1> USE DEF TypeOK
<1>1. ASSUME NEW p \in Ids, BrokerStep(p) PROVE Sent
  BY <1>1, OMAssumption
  DEF BrokerStep, BrokerAccept, BrokerRefuse, WireLost, ExternalPlace, BrokerFill,
      BrokerClose, BrokerCanceling, BrokerCancel, brokerVars, netVars, BrokerTypeOK, BrokerOpen, Ids
<1>2. ASSUME NEW p \in Ids, BrokerStep(p) PROVE Working
  BY <1>2
  DEF BrokerStep, BrokerAccept, BrokerRefuse, WireLost, ExternalPlace, BrokerFill,
      BrokerClose, BrokerCanceling, BrokerCancel, memVars, MemTypeOK
<1>3. ASSUME NEW p \in Own, SubmitStep(p) PROVE Sent /\ Working
  BY <1>3
  DEF SubmitStep, Persist, Send, SubmitAccepted, SubmitRejected, SubmitUnknown, brokerVars,
      netVars, MemTypeOK, DbTypeOK, Ids
<1>4. ASSUME ~\E p \in Ids : BrokerStep(p), ~\E p \in Own : SubmitStep(p)
      PROVE  UNCHANGED <<bstatus, wire>> /\ (UNCHANGED sub \/ sub'[o] = "idle")
  BY <1>4, OthersSend
<1> QED BY <1>1, <1>2, <1>3, <1>4

(* The invariant is inductive.                                              *)
LEMMA InvariantStep == IInv /\ [Next]_vars => IInv'
<1> SUFFICES ASSUME IInv, [Next]_vars PROVE IInv'
  OBVIOUS
<1>1. TypeOK /\ TypeOK'
  BY TypeStep DEF IInv
<1>2. ASSUME NEW o \in Ids, status[o] # "none" PROVE status'[o] # "none"
  <2>1. CASE RowsMove
    BY <1>2, <2>1 DEF RowsMove, Book!MayBecome, Book!Statuses, Book!Open, Book!PreFill,
                      Book!Terminal
  <2>2. CASE \E id \in ExecIds : Ingests(id)
    BY <1>2, <2>2 DEF Ingests, rowVars
  <2> QED BY <1>1, <2>1, <2>2, TableStep
<1>3. BookedOnce'
  <2>a. fills \subseteq ExecIds /\ txs \in [ExecIds -> Nat] /\ Executed \subseteq Executed'
    BY <1>1, ExecutedGrows DEF TypeOK, DbTypeOK
  <2>1. CASE RowsMove
    BY <2>1, <2>a DEF RowsMove, fillVars, IInv, BookedOnce
  <2>2. ASSUME NEW id \in ExecIds, Ingests(id) PROVE BookedOnce'
    <3>1. id[1] \in Executed
      BY <2>2 DEF Ingests, Heard, IInv, Word
    <3>2. CASE IsNew(id)
      <4>1. fills' = fills \cup {id} /\ txs' = [txs EXCEPT ![id] = @ + 1] /\ id \notin fills
        BY <2>2, <3>2 DEF Ingests, IngestExecution, IsNew
      <4>2. \A x \in ExecIds : txs'[x] = IF x \in fills' THEN 1 ELSE 0
        BY <2>a, <4>1 DEF IInv, BookedOnce
      <4>3. \A x \in fills' : x[1] \in Executed'
        BY <2>a, <3>1, <4>1 DEF IInv, BookedOnce
      <4>4. OneId => \A x \in fills' : x = StreamId(x[1])
        BY <2>2, <4>1 DEF Ingests, IInv, BookedOnce
      <4> QED BY <4>2, <4>3, <4>4 DEF BookedOnce, StreamId
    <3>3. CASE ~IsNew(id)
      BY <2>2, <2>a, <3>3 DEF Ingests, IngestExecution, fillVars, IInv, BookedOnce
    <3> QED BY <3>2, <3>3
  <2> QED BY <1>1, <2>1, <2>2, TableStep
<1>4. PersistedBeforeSent'
  BY <1>1, <1>2, SentStep DEF IInv, PersistedBeforeSent, RowsExist, Ids
<1>5. RowsExist'
  <2>1. ASSUME NEW o \in bid' PROVE status'[o] # "none"
    <3>1. CASE RowsMove
      BY <1>1, <1>2, <2>1, <3>1 DEF RowsMove, IInv, RowsExist, TypeOK, DbTypeOK
    <3>2. CASE \E id \in ExecIds : Ingests(id)
      BY <2>1, <3>2 DEF Ingests, rowVars, IInv, RowsExist
    <3> QED BY <1>1, <3>1, <3>2, TableStep
  <2>2. ASSUME NEW o \in Own, sub'[o] # "idle" PROVE status'[o] # "none"
    BY <1>1, <1>2, <2>2, SentStep DEF IInv, RowsExist, Ids
  <2> QED BY <2>1, <2>2 DEF RowsExist
<1>6. Word'
  BY <1>1, WordStep DEF IInv
<1> QED BY <1>1, <1>3, <1>4, <1>5, <1>6 DEF IInv

(* Every behaviour keeps it.                                                *)
THEOREM Invariant == Spec => []IInv
<1>1. Init => Word /\ BookedOnce /\ PersistedBeforeSent /\ RowsExist
  <2> SUFFICES ASSUME Init PROVE Word /\ BookedOnce /\ PersistedBeforeSent /\ RowsExist
    OBVIOUS
  <2>1. Word
    BY DEF Init, NoPass, NoListing, Word
  <2> QED BY <2>1 DEF Init, BookedOnce, PersistedBeforeSent, RowsExist, Ids
<1>2. Spec => []TypeOK
  BY TypeCorrect
<1>3. Init /\ TypeOK => IInv
  BY <1>1 DEF IInv
<1> QED BY <1>2, <1>3, InvariantStep, PTL DEF Spec
-------------------------------------------------------------------------------
(* Only what was executed is booked, and once per id, however often the     *)
(* stream and the backfill report it and wherever a crash falls; a broker   *)
(* that uses one id in both has each execution booked once.                 *)
THEOREM BookedOnceHolds == Spec => []BookedOnce
<1>1. IInv => BookedOnce
  BY DEF IInv
<1> QED BY <1>1, Invariant, PTL

(* No order of ours is at the broker, or on its way there, without its row. *)
THEOREM PersistedBeforeSentHolds == Spec => []PersistedBeforeSent
<1>1. IInv => PersistedBeforeSent
  BY DEF IInv
<1> QED BY <1>1, Invariant, PTL

(* A step of the order manager is a step of the order book, or none.        *)
LEMMA BookStep == IInv /\ [Next]_vars => [Book!Next]_(Book!vars)
<1> SUFFICES ASSUME IInv, [Next]_vars PROVE [Book!Next]_(Book!vars)
  OBVIOUS
<1>1. TypeOK /\ TypeOK'
  BY TypeStep DEF IInv
<1>2. CASE RowsMove
  <2>1. status' \in [Ids -> Book!Statuses \cup {"none"}]
    BY <1>1 DEF TypeOK, DbTypeOK, Statuses, Open, PreFill, Terminal, Book!Statuses, Book!Open,
                Book!PreFill, Book!Terminal
  <2> QED BY <1>2, <2>1 DEF RowsMove, fillVars, Book!Next, Book!Move
<1>3. ASSUME NEW id \in ExecIds, Ingests(id) PROVE [Book!Next]_(Book!vars)
  <2>1. CASE IsNew(id)
    <3>1. status[id[1][1]] # "none" /\ txs[id] = 0 /\ UNCHANGED status
      BY <1>3, <2>1 DEF Ingests, rowVars, IsNew, IInv, BookedOnce, RowsExist
    <3>2. txs' = [txs EXCEPT ![id] = 1]
      BY <1>3, <2>1, <3>1 DEF Ingests, IngestExecution
    <3> QED BY <3>1, <3>2 DEF Book!Next, Book!Book
  <2>2. CASE ~IsNew(id)
    BY <1>3, <2>2 DEF Ingests, IngestExecution, rowVars, fillVars, Book!vars
  <2> QED BY <2>1, <2>2
<1> QED BY <1>1, <1>2, <1>3, TableStep

(* The order manager implements the order book, for every value of the      *)
(* constants: a crash, a lost answer or a repeated event is a stutter.      *)
THEOREM Refinement == Spec => ImplementsBook
<1>1. Init => Book!Init
  BY DEF Init, Book!Init
<1> QED BY <1>1, BookStep, Invariant, PTL DEF Spec, ImplementsBook, Book!Spec

(* No handler, in whatever order, moves a row out of a terminal status: the *)
(* order book does not allow it.                                            *)
THEOREM TerminalIsFinalHolds == Spec => TerminalIsFinal
<1> DEFINE Stays == \A o \in Ids : status[o] \in Terminal => status'[o] = status[o]
<1>1. IInv /\ [Next]_vars => [Stays]_vars
  <2> SUFFICES ASSUME IInv, [Next]_vars PROVE Stays
    OBVIOUS
  <2>1. CASE RowsMove
    BY <2>1 DEF RowsMove, Book!MayBecome, Book!Open, Book!PreFill, Terminal
  <2>2. CASE \E id \in ExecIds : Ingests(id)
    BY <2>2 DEF Ingests, rowVars
  <2> QED BY <2>1, <2>2, TableStep DEF IInv
<1> QED BY <1>1, Invariant, PTL DEF Spec, TerminalIsFinal

(* No late answer takes a row back from a partial fill to a status before.  *)
THEOREM PartialNeverFallsBackHolds == Spec => PartialNeverFallsBack
<1> DEFINE Forward ==
      \A o \in Ids : status[o] = "partially_filled" => status'[o] \notin PreFill
<1>1. IInv /\ [Next]_vars => [Forward]_vars
  <2> SUFFICES ASSUME IInv, [Next]_vars PROVE Forward
    OBVIOUS
  <2>1. CASE RowsMove
    BY <2>1 DEF RowsMove, Book!MayBecome, PreFill, Book!PreFill
  <2>2. CASE \E id \in ExecIds : Ingests(id)
    BY <2>2 DEF Ingests, rowVars, PreFill
  <2> QED BY <2>1, <2>2, TableStep DEF IInv
<1> QED BY <1>1, Invariant, PTL DEF Spec, PartialNeverFallsBack
-------------------------------------------------------------------------------
(* A submission is sent once: what is still to be sent or under way is not  *)
(* at the broker, and what was refused never will be.                       *)
SentOnce ==
    /\ \A o \in wire : bstatus[o] = "none"
    /\ \A o \in Own : sub[o] \in {"persisted", "refused"} => bstatus[o] = "none" /\ o \notin wire
    /\ \A o \in Ids : status[o] = "rejected" /\ bstatus[o] = "none"
                         => o \in Own /\ o \notin wire /\ sub[o] # "persisted"

Truth == SentOnce /\ EndsTruthfully

(* How a row may change: not at all, to a status that is no end, to our own *)
(* rejection after the broker's refusal, or to what the broker said.        *)
RowSays(o, s) ==
    /\ Honest(o, s) /\ UNCHANGED <<bstatus, bqty>>
    /\ status'[o] = s.st /\ (o \in Own => qty'[o] = s.qty)

RowChange(o) ==
    \/ status'[o] = status[o] /\ qty'[o] = qty[o]
    \/ status'[o] \in {"pending_submit", "pending_cancel", "failed"}
    \/ /\ status'[o] = "rejected" /\ o \in Own /\ sub[o] = "refused" /\ sub'[o] = "idle"
       /\ UNCHANGED <<bstatus, bqty, wire>>
    \/ \E s \in Snapshots : RowSays(o, s)

(* apply_broker_order writes what the broker said, or nothing.              *)
LEMMA ApplyRow ==
    ASSUME TypeOK, NEW p \in Ids, NEW s \in Snapshots, Honest(p, s), ApplyBrokerOrder(p, s),
           UNCHANGED <<bstatus, bqty>>, NEW o \in Ids
    PROVE  RowChange(o)
<1> USE DEF TypeOK, DbTypeOK
<1>1. CASE p = o /\ CanApply(p, s)
  <2>1. status'[o] = s.st /\ qty'[o] = s.qty
    BY <1>1 DEF ApplyBrokerOrder
  <2> QED BY <1>1, <2>1 DEF RowChange, RowSays
<1>2. CASE ~(p = o /\ CanApply(p, s))
  BY <1>2 DEF ApplyBrokerOrder, RowChange, rowVars
<1> QED BY <1>1, <1>2

(* Every step changes a row in one of these ways.                           *)
LEMMA RowStep ==
    ASSUME TypeOK, Word, [Next]_vars, NEW o \in Ids
    PROVE  RowChange(o)
<1> DEFINE Same == status'[o] = status[o] /\ qty'[o] = qty[o]
<1>a. status \in [Ids -> Statuses \cup {"none"}] /\ qty \in [Ids -> 0 .. MaxQty]
  BY DEF TypeOK, DbTypeOK
<1>1. ASSUME UNCHANGED <<status, qty>> PROVE RowChange(o)
  BY <1>1 DEF RowChange
<1>2. ASSUME NEW p \in Ids, CancelOrder(p) PROVE RowChange(o)
  BY <1>2, <1>a DEF CancelOrder, RowChange
<1>3. ASSUME KillMark PROVE RowChange(o)
  BY <1>3, <1>a DEF KillMark, RowChange
<1>4. ASSUME NEW p \in Own, Persist(p) PROVE RowChange(o)
  BY <1>4, <1>a DEF Persist, RowChange
<1>5. ASSUME NEW p \in Own, SubmitAccepted(p) PROVE RowChange(o)
  <2> DEFINE s == [st |-> "accepted", qty |-> 0]
  <2>1. s \in Snapshots /\ p \in Ids
    BY NewOrder DEF Ids
  <2>2. Honest(p, s)
    BY OMAssumption DEF Honest, Final
  <2>3. ApplyBrokerOrder(p, s) /\ UNCHANGED <<bstatus, bqty>>
    BY <1>5 DEF SubmitAccepted, brokerVars
  <2> QED BY <2>1, <2>2, <2>3, ApplyRow
<1>6. ASSUME NEW p \in Own, SubmitRejected(p) PROVE RowChange(o)
  <2>1. CASE p = o /\ status[o] = "pending_submit"
    <3>1. status'[o] = "rejected" /\ sub[o] = "refused" /\ o \in Own
      BY <1>6, <1>a, <2>1 DEF SubmitRejected
    <3>2. sub'[o] = "idle" /\ UNCHANGED <<bstatus, bqty, wire>>
      BY <1>6, <2>1 DEF SubmitRejected, brokerVars, netVars, TypeOK, MemTypeOK
    <3> QED BY <3>1, <3>2 DEF RowChange
  <2>2. CASE ~(p = o /\ status[o] = "pending_submit")
    BY <1>6, <1>a, <2>2 DEF SubmitRejected, RowChange
  <2> QED BY <2>1, <2>2
<1>7. ASSUME NEW p \in Ids, ReconcileOwn(p) \/ ReconcileFresh(p) PROVE RowChange(o)
  <2>1. listing[p] \in Snapshots /\ Honest(p, listing[p])
    BY <1>7 DEF ReconcileOwn, ReconcileFresh, TypeOK, PassTypeOK, Word
  <2> QED BY <1>7, <2>1, ApplyRow DEF ReconcileOwn, ReconcileFresh, brokerVars
<1>8. ASSUME NEW p \in Ids, MaterializeExternal(p) PROVE RowChange(o)
  <2>1. listing[p] \in Snapshots /\ Honest(p, listing[p]) /\ UNCHANGED <<qty, bstatus, bqty>>
    BY <1>8 DEF MaterializeExternal, TypeOK, PassTypeOK, Word, brokerVars
  <2>2. CASE p = o /\ status[o] = "none"
    <3>1. status'[o] = listing[p].st /\ o \notin Own
      BY <1>8, <1>a, <2>2, OMAssumption DEF MaterializeExternal
    <3> QED BY <2>1, <2>2, <3>1 DEF RowChange, RowSays
  <2>3. CASE ~(p = o /\ status[o] = "none")
    BY <1>8, <1>a, <2>1, <2>3 DEF MaterializeExternal, RowChange
  <2> QED BY <2>2, <2>3
<1>9. ASSUME ResolvePending PROVE RowChange(o)
  <2>1. asked \in Ids /\ answer \in Snapshots \cup {Nothing} /\ UNCHANGED <<bstatus, bqty>>
    BY <1>9 DEF ResolvePending, TypeOK, PassTypeOK, brokerVars
  <2>2. CASE answer # Nothing
    <3>1. answer \in Snapshots /\ Honest(asked, answer) /\ ApplyBrokerOrder(asked, answer)
      BY <1>9, <2>1, <2>2 DEF ResolvePending, Word
    <3> QED BY <2>1, <3>1, ApplyRow
  <2>3. CASE answer = Nothing
    BY <1>9, <1>a, <2>1, <2>3 DEF ResolvePending, RowChange
  <2> QED BY <2>2, <2>3
<1>10. ASSUME ConsumeKnown PROVE RowChange(o)
  <2> DEFINE ev == Head(stream)
  <2>1. ev \in HonestEvents /\ ev.kind = "update"
    BY <1>10 DEF ConsumeKnown, Word
  <2>2. ev.o \in Ids /\ ev.snap \in Snapshots /\ Honest(ev.o, ev.snap)
    BY <2>1 DEF HonestEvents, Events, Connected
  <2>3. ApplyBrokerOrder(ev.o, ev.snap) /\ UNCHANGED <<bstatus, bqty>>
    BY <1>10 DEF ConsumeKnown, brokerVars
  <2> QED BY <2>2, <2>3, ApplyRow
<1>11. ASSUME \/ \E p \in Ids : BrokerStep(p) \/ AskBroker(p)
              \/ \E p \in Own : Send(p) \/ SubmitUnknown(p)
              \/ KillSwitch \/ TimerReconcile \/ AbortPass
              \/ ConsumeConnected \/ ConsumeUnknown \/ ConsumeFill \/ ConsumerFails \/ ConsumeRefreshed
              \/ Disconnect \/ Reconnect \/ HourPasses \/ Crash \/ UNCHANGED vars
       PROVE  UNCHANGED <<status, qty>>
  BY <1>11
  DEF BrokerStep, BrokerAccept, BrokerRefuse, WireLost, ExternalPlace,
      BrokerFill, BrokerClose, BrokerCanceling, BrokerCancel, AskBroker, Send, SubmitUnknown, KillSwitch,
      TimerReconcile, AbortPass, ConsumeConnected, ConsumeUnknown, ConsumeFill,
      ConsumerFails, ConsumeRefreshed, Disconnect, Reconnect, HourPasses, Crash, vars, dbVars, rowVars
<1>12. ASSUME \/ SelectPending \/ FetchExecutions \/ LockForIngest \/ FinishPass
              \/ IngestDone \/ RefreshSymbols \/ \E e \in Execs : IngestNext(e)
       PROVE  UNCHANGED <<status, qty>>
  BY <1>12
  DEF SelectPending, FetchExecutions, LockForIngest, FinishPass, IngestDone, RefreshSymbols, IngestNext,
      dbVars, rowVars
<1> QED
  BY <1>1, <1>2, <1>3, <1>4, <1>5, <1>6, <1>7, <1>8, <1>9, <1>10, <1>11, <1>12
  DEF Next, SubmitStep, PassStep, ConsumerStep

(* Where a submission of ours may go in one step.                           *)
RequestMoves(o) ==
    /\ bstatus[o] # "none" => bstatus'[o] # "none"
    /\ bstatus[o] = "none" /\ bstatus'[o] # "none" => o \in wire /\ o \notin wire'
    /\ o \in wire' /\ o \notin wire =>
           sub[o] = "persisted" /\ sub'[o] = "waiting" /\ bstatus'[o] = bstatus[o]
    /\ sub'[o] = "persisted" /\ sub[o] # "persisted" =>
           /\ status[o] = "none" /\ status'[o] = "pending_submit"
           /\ bstatus'[o] = bstatus[o] /\ (o \in wire' => o \in wire)
    /\ sub'[o] = "refused" /\ sub[o] # "refused" =>
           o \in wire /\ o \notin wire' /\ bstatus'[o] = bstatus[o]

(* The one way from a ticket to the broker.                                 *)
LEMMA RequestStep ==
    ASSUME TypeOK, [Next]_vars, NEW o \in Own
    PROVE  RequestMoves(o)
<1>a. /\ bstatus \in [Ids -> BrokerStatuses \cup {"none"}] /\ sub \in [Own -> SubStates]
      /\ status \in [Ids -> Statuses \cup {"none"}] /\ o \in Ids /\ o \notin Ext
      /\ "none" \notin BrokerStatuses /\ "none" \notin Closing
  BY OMAssumption DEF TypeOK, BrokerTypeOK, MemTypeOK, DbTypeOK, Ids, BrokerStatuses, BrokerOpen
<1>1. ASSUME NEW p \in Ids, BrokerAccept(p) PROVE RequestMoves(o)
  BY <1>1, <1>a DEF BrokerAccept, RequestMoves
<1>2. ASSUME NEW p \in Ids, BrokerRefuse(p) \/ WireLost(p) PROVE RequestMoves(o)
  BY <1>2, <1>a DEF BrokerRefuse, WireLost, RequestMoves, brokerVars, memVars
<1>3. ASSUME NEW p \in Ids, \/ ExternalPlace(p) \/ BrokerFill(p) \/ BrokerClose(p)
                            \/ BrokerCanceling(p) \/ BrokerCancel(p)
      PROVE  RequestMoves(o)
  BY <1>3, <1>a DEF ExternalPlace, BrokerFill, BrokerClose, BrokerCanceling, BrokerCancel, RequestMoves, memVars, BrokerOpen
<1>4. ASSUME NEW p \in Own, Persist(p) PROVE RequestMoves(o)
  BY <1>4, <1>a DEF Persist, RequestMoves, brokerVars, netVars
<1>5. ASSUME NEW p \in Own, Send(p) PROVE RequestMoves(o)
  BY <1>5, <1>a DEF Send, RequestMoves, brokerVars
<1>6. ASSUME NEW p \in Own, SubmitAccepted(p) \/ SubmitRejected(p) \/ SubmitUnknown(p)
      PROVE  RequestMoves(o)
  BY <1>6, <1>a DEF SubmitAccepted, SubmitRejected, SubmitUnknown, RequestMoves, brokerVars, netVars
<1>7. ASSUME UNCHANGED <<bstatus, wire>> /\ (UNCHANGED sub \/ sub'[o] = "idle")
      PROVE  RequestMoves(o)
  BY <1>7 DEF RequestMoves
<1>8. ASSUME ~\E p \in Ids : BrokerStep(p), ~\E p \in Own : SubmitStep(p)
      PROVE  RequestMoves(o)
  BY <1>7, <1>8, OthersSend
<1> QED BY <1>1, <1>2, <1>3, <1>4, <1>5, <1>6, <1>8 DEF BrokerStep, SubmitStep

(* A submission stays sent once.                                            *)
LEMMA SentOnceStep ==
    ASSUME IInv, SentOnce, [Next]_vars
    PROVE  SentOnce'
<1>a. TypeOK /\ TypeOK' /\ Word
  BY TypeStep DEF IInv
<1>b. \A o \in Own : RequestMoves(o)
  BY <1>a, RequestStep
<1>1. ASSUME NEW o \in wire' PROVE bstatus'[o] = "none"
  <2>1. o \in Own
    BY <1>a DEF TypeOK, NetTypeOK
  <2> QED BY <1>b, <2>1 DEF SentOnce, RequestMoves
<1>2. ASSUME NEW o \in Own, sub'[o] \in {"persisted", "refused"}
      PROVE  bstatus'[o] = "none" /\ o \notin wire'
  <2>1. CASE sub'[o] = sub[o]
    BY <1>2, <1>b, <2>1 DEF SentOnce, RequestMoves
  <2>2. CASE sub'[o] = "persisted" /\ sub[o] # "persisted"
    BY <1>b, <2>2 DEF RequestMoves, IInv, PersistedBeforeSent
  <2>3. CASE sub'[o] = "refused" /\ sub[o] # "refused"
    BY <1>b, <2>3 DEF RequestMoves, SentOnce
  <2> QED BY <1>2, <2>1, <2>2, <2>3
<1>3. ASSUME NEW o \in Ids, status'[o] = "rejected", bstatus'[o] = "none"
      PROVE  o \in Own /\ o \notin wire' /\ sub'[o] # "persisted"
  <2>1. RowChange(o)
    BY <1>a, RowStep
  <2>2. CASE status'[o] = status[o]
    <3>1. bstatus[o] = "none"
      <4>1. CASE o \in Own
        BY <1>3, <1>b, <4>1 DEF RequestMoves
      <4>2. CASE o \notin Own
        BY <1>3, <1>a, <4>2, BrokerRemembers
      <4> QED BY <4>1, <4>2
    <3>2. o \in Own /\ o \notin wire /\ sub[o] # "persisted"
      BY <1>3, <2>2, <3>1 DEF SentOnce
    <3> QED BY <1>3, <1>b, <2>2, <3>1, <3>2 DEF RequestMoves
  <2>3. CASE o \in Own /\ sub[o] = "refused" /\ sub'[o] = "idle" /\ UNCHANGED <<bstatus, bqty, wire>>
    BY <2>3 DEF SentOnce
  <2>4. ASSUME NEW s \in Snapshots, RowSays(o, s) PROVE FALSE
    <3>1. s.st = "rejected" /\ bstatus[o] = "none" /\ Honest(o, s)
      BY <1>3, <2>4 DEF RowSays
    <3>2. s.st \in Final
      BY <3>1, SnapshotFields DEF BrokerStatuses, BrokerOpen, Final
    <3> QED BY <3>1, <3>2 DEF Honest
  <2> QED BY <1>3, <2>1, <2>2, <2>3, <2>4 DEF RowChange
<1> QED BY <1>1, <1>2, <1>3 DEF SentOnce

(* A row that ended still says what happened.                               *)
LEMMA EndsStep ==
    ASSUME IInv, SentOnce, EndsTruthfully, [Next]_vars
    PROVE  EndsTruthfully'
<1> DEFINE Ended == ({"filled"} \cup Closing) \ {"rejected"}
<1>a. TypeOK /\ TypeOK' /\ Word /\ Ended \subseteq Final
      /\ {"pending_submit", "pending_cancel", "failed"} \cap Ended = {}
  BY TypeStep, OMAssumption DEF IInv, Final
<1>1. ASSUME NEW o \in Ids
      PROVE  /\ status'[o] \in Ended => bstatus'[o] = status'[o]
             /\ status'[o] \in Ended /\ o \in Own => qty'[o] = bqty'[o]
             /\ status'[o] = "rejected" => bstatus'[o] \in {"none", "rejected"}
  <2>1. RowChange(o)
    BY <1>a, RowStep
  <2>2. CASE status'[o] = status[o] /\ qty'[o] = qty[o]
    <3>1. CASE status[o] \in Ended
      <4>1. bstatus[o] = status[o] /\ bstatus[o] \in Final /\ (o \in Own => qty[o] = bqty[o])
        BY <1>a, <3>1 DEF EndsTruthfully
      <4>2. bstatus'[o] = bstatus[o] /\ bqty'[o] = bqty[o]
        BY <1>a, <4>1, EndedForGood
      <4> QED BY <2>2, <3>1, <4>1, <4>2
    <3>2. CASE status[o] = "rejected" /\ bstatus[o] = "rejected"
      <4>1. bstatus[o] \in Final
        BY <1>a, <3>2 DEF TypeOK, BrokerTypeOK, BrokerStatuses, BrokerOpen, Final
      <4> QED BY <1>a, <2>2, <3>2, <4>1, EndedForGood
    <3>3. CASE status[o] = "rejected" /\ bstatus[o] = "none"
      <4>1. o \in Own /\ o \notin wire
        BY <3>3 DEF SentOnce
      <4>2. bstatus'[o] = "none"
        BY <1>a, <3>3, <4>1, RequestStep DEF RequestMoves
      <4> QED BY <2>2, <3>3, <4>2
    <3> QED BY <2>2, <3>1, <3>2, <3>3 DEF EndsTruthfully
  <2>3. CASE status'[o] \in {"pending_submit", "pending_cancel", "failed"}
    BY <1>a, <2>3
  <2>4. CASE /\ status'[o] = "rejected" /\ o \in Own /\ sub[o] = "refused"
             /\ UNCHANGED <<bstatus, bqty, wire>>
    BY <2>4 DEF SentOnce
  <2>5. ASSUME NEW s \in Snapshots, RowSays(o, s)
        PROVE  /\ status'[o] \in Ended => bstatus'[o] = status'[o]
               /\ status'[o] \in Ended /\ o \in Own => qty'[o] = bqty'[o]
               /\ status'[o] = "rejected" => bstatus'[o] \in {"none", "rejected"}
    <3>1. status'[o] = "rejected" => status'[o] \in Final
      BY <2>5, SnapshotFields DEF RowSays, BrokerStatuses, BrokerOpen, Final
    <3>2. status'[o] \in Final => bstatus'[o] = status'[o] /\ (o \in Own => qty'[o] = bqty'[o])
      BY <2>5 DEF RowSays, Honest
    <3> QED BY <1>a, <3>1, <3>2
  <2> QED BY <2>1, <2>2, <2>3, <2>4, <2>5 DEF RowChange
<1> QED BY <1>1 DEF EndsTruthfully, Ids

(* The strengthened invariant is inductive.                                 *)
LEMMA TruthStep == IInv /\ Truth /\ [Next]_vars => Truth'
  BY SentOnceStep, EndsStep DEF Truth

(* A row never ends with a story of its own: what it says at the end is     *)
(* what happened at the broker, whatever overtook what.                     *)
THEOREM EndsTruthfullyHolds == Spec => []EndsTruthfully
<1>1. Init => Truth
  <2> SUFFICES ASSUME Init PROVE Truth
    OBVIOUS
  <2>1. SentOnce
    BY DEF Init, SentOnce, Ids
  <2>2. EndsTruthfully
    BY OMAssumption DEF Init, EndsTruthfully, Ids
  <2> QED BY <2>1, <2>2 DEF Truth
<1>2. Truth => EndsTruthfully
  BY DEF Truth
<1> QED BY <1>1, <1>2, Invariant, TruthStep, PTL DEF Spec
-------------------------------------------------------------------------------
(* Who still owes the bump that a commit needs: a reconciliation pass, the  *)
(* consumer or a submit handler that has not sent yet; for the ledger, the  *)
(* pass that has just booked something.                                     *)
Quiet ==
    /\ unseenOrders => rpc # "idle" \/ cpc # "idle" \/ \E o \in Own : sub[o] = "persisted"
    /\ unseenTxs => rpc = "ingesting" /\ anyNew

(* The debt is passed on or paid in every step, when no SQL statement fails. *)
LEMMA QuietStep ==
    ASSUME DbFaults = FALSE, TypeOK, Quiet, [Next]_vars
    PROVE  Quiet'
<1> DEFINE Orders == unseenOrders' =>
                       rpc' # "idle" \/ cpc' # "idle" \/ \E o \in Own : sub'[o] = "persisted"
           Txs == unseenTxs' => rpc' = "ingesting" /\ anyNew'
<1> SUFFICES Orders /\ Txs
  BY DEF Quiet
<1> USE DEF Quiet
<1>a. sub \in [Own -> SubStates]
  BY DEF TypeOK, MemTypeOK
<1>1. ASSUME UNCHANGED memVars, UNCHANGED <<rpc, anyNew>> PROVE Orders /\ Txs
  BY <1>1 DEF memVars
<1>2. ASSUME NEW p \in Ids, BrokerAccept(p) \/ BrokerRefuse(p) PROVE Orders /\ Txs
  <2>1. UNCHANGED <<unseenOrders, unseenTxs, rpc, cpc, anyNew>>
    BY <1>2 DEF BrokerAccept, BrokerRefuse, passVars
  <2>2. ASSUME NEW o \in Own, sub[o] = "persisted" PROVE sub'[o] = "persisted"
    BY <1>2, <1>a, <2>2 DEF BrokerAccept, BrokerRefuse
  <2> QED BY <2>1, <2>2
<1>3. ASSUME NEW p \in Ids, \/ WireLost(p) \/ ExternalPlace(p) \/ BrokerFill(p)
                            \/ BrokerClose(p) \/ BrokerCanceling(p) \/ BrokerCancel(p)
      PROVE  UNCHANGED memVars /\ UNCHANGED <<rpc, anyNew>>
  BY <1>3 DEF WireLost, ExternalPlace, BrokerFill, BrokerClose, BrokerCanceling, BrokerCancel, passVars
<1>4. ASSUME NEW p \in Ids, CancelOrder(p) PROVE Orders /\ Txs
  BY <1>4 DEF CancelOrder, BumpOrders, passVars
<1>5. ASSUME NEW p \in Own, Persist(p) PROVE Orders /\ Txs
  BY <1>5, <1>a DEF Persist, passVars
<1>6. ASSUME NEW p \in Own, Send(p) \/ SubmitAccepted(p) \/ SubmitRejected(p)
      PROVE  Orders /\ Txs
  BY <1>6 DEF Send, SubmitAccepted, SubmitRejected, BumpOrders, passVars
<1>7. ASSUME NEW p \in Own, SubmitUnknown(p) PROVE Orders /\ Txs
  <2>1. UNCHANGED <<unseenOrders, unseenTxs, rpc, cpc, anyNew>>
    BY <1>7 DEF SubmitUnknown, passVars
  <2>2. ASSUME NEW o \in Own, sub[o] = "persisted" PROVE sub'[o] = "persisted"
    BY <1>7, <1>a, <2>2 DEF SubmitUnknown
  <2> QED BY <2>1, <2>2
<1>8. ASSUME KillSwitch \/ KillMark PROVE Orders /\ Txs
  BY <1>8 DEF KillSwitch, KillMark, BumpOrders, passVars
<1>9. ASSUME TimerReconcile \/ ConsumeConnected \/ ConsumeUnknown PROVE Orders /\ Txs
  BY <1>9 DEF TimerReconcile, ConsumeConnected, ConsumeUnknown, BeginPass, BumpOrders, memVars,
              passVars
<1>10. ASSUME NEW p \in Ids,
              \/ ReconcileOwn(p) \/ MaterializeExternal(p) \/ ReconcileFresh(p) \/ AskBroker(p)
       PROVE  Orders /\ Txs
  BY <1>10 DEF ReconcileOwn, MaterializeExternal, ReconcileFresh, AskBroker, memVars
<1>11. ASSUME SelectPending \/ ResolvePending \/ FetchExecutions \/ LockForIngest
       PROVE  Orders /\ Txs
  BY <1>11 DEF SelectPending, ResolvePending, FetchExecutions, LockForIngest, memVars
<1>12. ASSUME NEW e \in Execs, IngestNext(e) PROVE Orders /\ Txs
  BY <1>12 DEF IngestNext
<1>13. ASSUME IngestDone \/ RefreshSymbols \/ FinishPass PROVE Orders /\ Txs
  <2>1. CASE IngestDone
    <3>1. rpc' # "idle" /\ unseenTxs' = (unseenTxs /\ ~anyNew)
      BY <2>1 DEF IngestDone
    <3>2. ~(unseenTxs /\ ~anyNew)
      OBVIOUS
    <3> QED BY <3>1, <3>2
  <2>2. CASE FinishPass
    <3>1. rpc = "finish" /\ unseenOrders' = FALSE /\ unseenTxs' = unseenTxs
      BY <2>2 DEF FinishPass, BumpOrders
    <3> QED BY <3>1
  <2>3. CASE RefreshSymbols
    BY <2>3 DEF RefreshSymbols
  <2> QED BY <1>13, <2>1, <2>2, <2>3
<1>14. ASSUME ConsumeKnown PROVE Orders /\ Txs
  <2>1. cpc' # "idle" /\ UNCHANGED <<unseenTxs, rpc, anyNew>>
    BY <1>14 DEF ConsumeKnown, passVars
  <2> QED BY <2>1
<1>15. ASSUME ConsumeFill \/ ConsumeRefreshed PROVE Orders /\ Txs
  <2>1. CASE ConsumeFill
    <3>1. cpc' # "idle" /\ unseenTxs' = (unseenTxs /\ ~IsNew(StreamId(cev)))
          /\ UNCHANGED <<rpc, anyNew>>
      BY <2>1 DEF ConsumeFill, passVars
    <3>2. unseenTxs' => unseenTxs
      BY <3>1, Zenon
    <3> QED BY <3>1, <3>2
  <2>2. CASE ConsumeRefreshed
    BY <2>2 DEF ConsumeRefreshed, BumpOrders, passVars
  <2> QED BY <1>15, <2>1, <2>2
<1>16. ASSUME Disconnect \/ Reconnect \/ HourPasses \/ UNCHANGED vars
       PROVE  UNCHANGED memVars /\ UNCHANGED <<rpc, anyNew>>
  BY <1>16 DEF Disconnect, Reconnect, HourPasses, vars, passVars
<1>17. ASSUME Crash PROVE Orders /\ Txs
  BY <1>17 DEF Crash
<1>18. ~AbortPass /\ ~ConsumerFails
  BY DEF AbortPass, ConsumerFails
<1> HIDE DEF Orders, Txs, Quiet
<1> QED
  BY <1>1, <1>2, <1>3, <1>4, <1>5, <1>6, <1>7, <1>8, <1>9, <1>10, <1>11, <1>12, <1>13, <1>14,
     <1>15, <1>16, <1>17, <1>18
  DEF Next, BrokerStep, SubmitStep, PassStep, ConsumerStep

(* When no handler is at work, no cached view is behind the tables, as long *)
(* as no SQL statement fails: one that does leaves its handler by `?`,      *)
(* before the bump.                                                         *)
THEOREM QuietMeansSeenHolds ==
    ASSUME DbFaults = FALSE
    PROVE  Spec => []QuietMeansSeen
<1>1. Init => Quiet
  BY DEF Init, Quiet
<1>2. TypeOK /\ Quiet /\ [Next]_vars => Quiet'
  BY QuietStep
<1>3. Quiet => QuietMeansSeen
  BY DEF Quiet, QuietMeansSeen
<1> QED BY <1>1, <1>2, <1>3, TypeCorrect, PTL DEF Spec
===============================================================================
