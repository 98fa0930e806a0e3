--------------------------- MODULE TicketGateProofs ---------------------------
(* Proofs about TicketGate, for any finite set of tickets and any values of  *)
(* the guardrails and bounds: the cap on a day's orders holds, and so does   *)
(* an acknowledged pause.                                                    *)
EXTENDS TicketGate, FiniteSetTheorems, TLAPS

OwnOn(d) == {t \in Own : rowDay[t] = d}

(* What types leave out: executions are a sequence of tickets, and no row is *)
(* stamped with a day to come.                                               *)
Stamped ==
    /\ execs \in Seq(Tickets)
    /\ \A t \in Tickets : rowDay[t] # None => rowDay[t] <= day

(* A ticket that passed check_ticket still fits under the cap: only it can   *)
(* write a row of ours until it releases the lock, and midnight only makes   *)
(* room.                                                                     *)
RoomLeft == \A t \in Own : at[t] = "passed" => Cardinality(OwnOn(day)) < MaxOrders

CapInv == CapHolds /\ Stamped /\ RoomLeft

(* One more element at the end of a sequence.                                *)
LEMMA AppendedSet ==
    ASSUME NEW S, NEW q \in Seq(S), NEW x \in S
    PROVE  /\ Append(q, x) \in Seq(S)
           /\ ToSet(Append(q, x)) = ToSet(q) \cup {x}
           /\ IsInjective(q) /\ x \notin ToSet(q) => IsInjective(Append(q, x))
  <1>1. /\ DOMAIN q = 1 .. Len(q) /\ Len(q) \in Nat
        /\ Append(q, x) \in Seq(S)
        /\ DOMAIN Append(q, x) = 1 .. Len(q) + 1
        /\ Append(q, x)[Len(q) + 1] = x
        /\ \A i \in 1 .. Len(q) : Append(q, x)[i] = q[i]
    OBVIOUS
  <1>2. \A i \in 1 .. Len(q) + 1 : i \in 1 .. Len(q) \/ i = Len(q) + 1
    BY <1>1
  <1>3. ToSet(Append(q, x)) \subseteq ToSet(q) \cup {x}
    BY <1>1, <1>2 DEF ToSet
  <1>4. ToSet(q) \subseteq ToSet(Append(q, x)) /\ x \in ToSet(Append(q, x))
    BY <1>1 DEF ToSet
  <1>5. IsInjective(q) /\ x \notin ToSet(q) => IsInjective(Append(q, x))
    BY <1>1, <1>2 DEF IsInjective, ToSet
  <1> QED BY <1>1, <1>3, <1>4, <1>5

(* A request that moves on is a request.                                     *)
LEMMA StageOfRequest ==
    ASSUME NEW p \in Requested, NEW s \in {"sent", "saved", "done", "gone"}
    PROVE  [p EXCEPT !.stage = s] \in Requested
  BY DEF Requested

(* The actions grouped by what they change.                                  *)
LEMMA StepCases ==
    ASSUME Next
    PROVE  \/ \E t \in Own : Enter(t)
           \/ \E t \in Own : Pass(t)
           \/ \E t \in Own : Insert(t)
           \/ \E t \in Own : Abandon(t)
           \/ \E t \in Tickets : Execute(t)
           \/ \E t \in Tickets : Materialize(t)
           \/ \E t \in Tickets : Ingest(t) \/ DeleteTx(t)
           \/ \E r \in Requests : AskPause(r) \/ SavePause(r) \/ StorePause(r)
           \/ Midnight
           \/ Crash
  BY DEF Next

(* Types and stamps are kept by every step.                                  *)
LEMMA TypeStep ==
    ASSUME TypeOK, Stamped, [Next]_vars
    PROVE  TypeOK' /\ Stamped'
  <1> USE GateAssumption DEF TypeOK, Stamped, Own, Others, Tickets
  <1>1. ASSUME NEW t \in Own, Enter(t) PROVE TypeOK' /\ Stamped'
    BY <1>1 DEF Enter, brokerVars, logVars, pauseVars
  <1>2. ASSUME NEW t \in Own, Pass(t) PROVE TypeOK' /\ Stamped'
    BY <1>2 DEF Pass, brokerVars, logVars, pauseVars
  <1>3. ASSUME NEW t \in Own, Insert(t) PROVE TypeOK' /\ Stamped'
    BY <1>3 DEF Insert, brokerVars, logVars, pauseVars
  <1>4. ASSUME NEW t \in Own, Abandon(t) PROVE TypeOK' /\ Stamped'
    BY <1>4 DEF Abandon, brokerVars, logVars, pauseVars
  <1>5. ASSUME NEW t \in Tickets, Execute(t) PROVE TypeOK' /\ Stamped'
    <2>1. /\ t \in Own => rowDay[t] # None
          /\ t \notin ToSet(execs)
          /\ execs' = Append(execs, t)
          /\ UNCHANGED <<ticketVars, lock, rowDay, logVars, day, pauseVars, deletes, crashes>>
      BY <1>5 DEF Execute
    <2>2. ToSet(execs') = ToSet(execs) \cup {t} /\ IsInjective(execs')
      BY <2>1, AppendedSet
    <2>3. ToSet(execs') \subseteq {u \in Tickets : rowDay'[u] # None \/ u \in Others}
      BY <2>1, <2>2
    <2>4. execDay' \in [Tickets -> 0 .. MaxDay] /\ pnl' \in [Tickets -> {-1, 0, 1}]
      BY <1>5 DEF Execute
    <2>5. execs' \in Seq(Tickets)
      BY <2>1, AppendedSet
    <2>6. ingested' \subseteq ToSet(execs') /\ log' \subseteq ingested'
      BY <2>1, <2>2 DEF logVars
    <2> QED BY <2>1, <2>2, <2>3, <2>4, <2>5, <2>6 DEF ticketVars, logVars, pauseVars
  <1>6. ASSUME NEW t \in Tickets, Materialize(t) PROVE TypeOK' /\ Stamped'
    BY <1>6 DEF Materialize, ticketVars, brokerVars, logVars, pauseVars
  <1>7. ASSUME NEW t \in Tickets, Ingest(t) \/ DeleteTx(t) PROVE TypeOK' /\ Stamped'
    <2>1. log' \subseteq ingested' /\ ingested' \subseteq ToSet(execs) /\ deletes' \in 0 .. MaxDeletes
      BY <1>7 DEF Ingest, DeleteTx
    <2> QED BY <1>7, <2>1 DEF Ingest, DeleteTx, ticketVars, brokerVars, pauseVars
  <1>8. ASSUME NEW r \in Requests, AskPause(r) \/ SavePause(r) \/ StorePause(r)
        PROVE  TypeOK' /\ Stamped'
    <2>1. paused' \in BOOLEAN /\ saved' \in BOOLEAN /\ req' \in [Requests -> Requested \cup {None}]
      <3>1. CASE AskPause(r)
        BY <3>1 DEF AskPause, Requested
      <3>2. CASE SavePause(r)
        <4>1. req[r] \in Requested /\ req[r].pause \in BOOLEAN
          BY <3>2 DEF SavePause, Requested
        <4>2. PICK s \in {"saved", "gone"} : req' = [req EXCEPT ![r] = [req[r] EXCEPT !.stage = s]]
          BY <3>2 DEF SavePause
        <4> QED BY <3>2, <4>1, <4>2, StageOfRequest DEF SavePause
      <3>3. CASE StorePause(r)
        <4>1. req[r] \in Requested /\ req[r].pause \in BOOLEAN
          BY <3>3 DEF StorePause, Requested
        <4>2. req' = [req EXCEPT ![r] = [req[r] EXCEPT !.stage = "done"]]
          BY <3>3 DEF StorePause
        <4>3. [req[r] EXCEPT !.stage = "done"] \in Requested
          BY <4>1, StageOfRequest
        <4>4. paused' \in BOOLEAN /\ saved' = saved
          BY <3>3, <4>1 DEF StorePause
        <4> QED BY <4>2, <4>3, <4>4
      <3> QED BY <1>8, <3>1, <3>2, <3>3
    <2> QED BY <1>8, <2>1
        DEF AskPause, SavePause, StorePause, ticketVars, brokerVars, logVars
  <1>9. ASSUME Midnight PROVE TypeOK' /\ Stamped'
    BY <1>9 DEF Midnight, ticketVars, brokerVars, logVars, pauseVars
  <1>10. ASSUME Crash PROVE TypeOK' /\ Stamped'
    <2>1. req' \in [Requests -> Requested \cup {None}]
      <3>1. \A r \in Requests : InFlight(r) => [req[r] EXCEPT !.stage = "gone"] \in Requested
        BY StageOfRequest DEF InFlight
      <3> QED BY <1>10, <3>1 DEF Crash
    <2> QED BY <1>10, <2>1 DEF Crash, brokerVars, logVars
  <1>11. CASE UNCHANGED vars
    BY <1>11 DEF vars, ticketVars, brokerVars, logVars, pauseVars
  <1> QED
    BY StepCases, <1>1, <1>2, <1>3, <1>4, <1>5, <1>6, <1>7, <1>8, <1>9, <1>10, <1>11

(* Own tickets and their days are finite sets.                               *)
LEMMA OwnFinite ==
    ASSUME NEW d
    PROVE  IsFiniteSet(OwnOn(d)) /\ Cardinality(OwnOn(d)) \in Nat
  <1>1. OwnOn(d) \in SUBSET Tickets
    BY DEF OwnOn, Tickets
  <1> QED BY <1>1, GateAssumption, FS_Subset, FS_CardinalityType

(* The cap, step by step.                                                    *)
LEMMA CapStep ==
    ASSUME CapInv, [Next]_vars
    PROVE  DailyCap' /\ RoomLeft'
  <1> USE GateAssumption DEF CapInv, CapHolds, TypeOK
  <1>1. ASSUME UNCHANGED <<rowDay, day>>,
               \A t \in Own : at'[t] = "passed" => at[t] = "passed"
        PROVE  DailyCap' /\ RoomLeft'
    BY <1>1 DEF DailyCap, RoomLeft, OwnOn
  <1>2. ASSUME NEW t \in Own, Enter(t) \/ Abandon(t) PROVE DailyCap' /\ RoomLeft'
    BY <1>1, <1>2 DEF Enter, Abandon
  <1>3. ASSUME NEW t \in Own, Pass(t) PROVE DailyCap' /\ RoomLeft'
    <2>1. OwnOn(day) \in SUBSET {u \in Tickets : rowDay[u] = day}
      BY DEF OwnOn, Tickets
    <2>2. IsFiniteSet({u \in Tickets : rowDay[u] = day}) /\ OrdersToday \in Nat
      BY FS_Subset, FS_CardinalityType DEF OrdersToday
    <2>3. Cardinality(OwnOn(day)) <= OrdersToday
      BY <2>1, <2>2, FS_Subset DEF OrdersToday
    <2>4. Cardinality(OwnOn(day)) < MaxOrders
      BY <1>3, <2>2, <2>3, OwnFinite DEF Pass
    <2>5. UNCHANGED <<rowDay, day>>
      BY <1>3 DEF Pass
    <2>6. OwnOn(day)' = OwnOn(day)
      BY <2>5 DEF OwnOn
    <2>7. RoomLeft'
      BY <2>4, <2>6 DEF RoomLeft
    <2>8. DailyCap'
      BY <2>5 DEF DailyCap
    <2> QED BY <2>7, <2>8
  <1>4. ASSUME NEW t \in Own, Insert(t) PROVE DailyCap' /\ RoomLeft'
    <2>1. rowDay' = [rowDay EXCEPT ![t] = day] /\ day' = day /\ t \in Tickets
      BY <1>4 DEF Insert, Tickets
    <2>2. Cardinality(OwnOn(day)) < MaxOrders
      BY <1>4 DEF Insert, RoomLeft
    <2>3. \A u \in Own : at'[u] # "passed"
      BY <1>4 DEF Insert
    <2>4. ASSUME NEW d \in 0 .. MaxDay
          PROVE  Cardinality({u \in Own : rowDay'[u] = d}) <= MaxOrders
      <3> DEFINE after == {u \in Own : rowDay'[u] = d}
      <3>1. Cardinality(OwnOn(d)) <= MaxOrders
        BY DEF DailyCap, OwnOn
      <3>4. IsFiniteSet(OwnOn(d)) /\ Cardinality(OwnOn(d)) \in Nat
        BY OwnFinite
      <3>2. CASE d = day
        <4>1. after = OwnOn(d) \cup {t}
          BY <2>1, <3>2 DEF OwnOn
        <4>2. IsFiniteSet(after) /\ Cardinality(after) <= Cardinality(OwnOn(d)) + 1
          <5>1. /\ IsFiniteSet(OwnOn(d) \cup {t})
                /\ Cardinality(OwnOn(d) \cup {t}) =
                       IF t \in OwnOn(d) THEN Cardinality(OwnOn(d)) ELSE Cardinality(OwnOn(d)) + 1
            BY <3>4, FS_AddElement
          <5> HIDE DEF after
          <5> QED BY <3>4, <4>1, <5>1
        <4>3. Cardinality(OwnOn(d)) < MaxOrders
          BY <2>2, <3>2
        <4>4. Cardinality(after) \in Nat
          <5> HIDE DEF after
          <5> QED BY <4>2, FS_CardinalityType
        <4> QED BY <3>4, <4>2, <4>3, <4>4
      <3>3. CASE d # day
        <4>1. after \in SUBSET OwnOn(d)
          BY <2>1, <3>3 DEF OwnOn
        <4>2. Cardinality(after) <= Cardinality(OwnOn(d)) /\ Cardinality(after) \in Nat
          BY <3>4, <4>1, FS_Subset, FS_CardinalityType
        <4> QED BY <3>1, <3>4, <4>2
      <3> QED BY <3>2, <3>3
    <2> QED BY <2>3, <2>4 DEF DailyCap, RoomLeft
  <1>5. ASSUME NEW t \in Tickets, Execute(t) PROVE DailyCap' /\ RoomLeft'
    BY <1>1, <1>5 DEF Execute, ticketVars
  <1>6. ASSUME NEW t \in Tickets, Materialize(t) PROVE DailyCap' /\ RoomLeft'
    <2>1. t \notin Own /\ rowDay' = [rowDay EXCEPT ![t] = day] /\ UNCHANGED <<at, day>>
      BY <1>6 DEF Materialize, ticketVars
    <2>2. ASSUME NEW d PROVE OwnOn(d)' = OwnOn(d)
      BY <2>1 DEF OwnOn, Tickets
    <2> QED BY <2>1, <2>2 DEF DailyCap, RoomLeft, OwnOn
  <1>7. ASSUME NEW t \in Tickets, Ingest(t) \/ DeleteTx(t) PROVE DailyCap' /\ RoomLeft'
    BY <1>1, <1>7 DEF Ingest, DeleteTx, ticketVars
  <1>8. ASSUME NEW r \in Requests, AskPause(r) \/ SavePause(r) \/ StorePause(r)
        PROVE  DailyCap' /\ RoomLeft'
    BY <1>1, <1>8 DEF AskPause, SavePause, StorePause, ticketVars
  <1>9. ASSUME Midnight PROVE DailyCap' /\ RoomLeft'
    <2>1. day' = day + 1 /\ rowDay' = rowDay /\ at' = at
      BY <1>9 DEF Midnight, ticketVars
    <2>2. OwnOn(day + 1) = {}
      <3>1. day + 1 \in 0 .. MaxDay /\ ~(day + 1 <= day)
        BY <1>9 DEF Midnight
      <3>2. ASSUME NEW u \in Own PROVE rowDay[u] # day + 1
        <4>1. u \in Tickets
          BY DEF Tickets
        <4>2. rowDay[u] # None => rowDay[u] <= day
          BY <4>1 DEF Stamped
        <4> QED BY <3>1, <4>2
      <3> QED BY <3>2 DEF OwnOn
    <2>3. ASSUME NEW t \in Own, at'[t] = "passed" PROVE Cardinality(OwnOn(day + 1)) < MaxOrders
      BY <2>1, <2>2, <2>3, OwnFinite, FS_EmptySet DEF RoomLeft
    <2>4. RoomLeft'
      BY <2>1, <2>3 DEF RoomLeft, OwnOn
    <2>5. DailyCap'
      BY <2>1 DEF DailyCap
    <2> QED BY <2>4, <2>5
  <1>10. ASSUME Crash PROVE DailyCap' /\ RoomLeft'
    BY <1>1, <1>10 DEF Crash
  <1>11. CASE UNCHANGED vars
    BY <1>1, <1>11 DEF vars, ticketVars
  <1> QED
    BY StepCases, <1>2, <1>3, <1>4, <1>5, <1>6, <1>7, <1>8, <1>9, <1>10, <1>11

(* Start-up.                                                                 *)
LEMMA InitIsTyped ==
    ASSUME Init
    PROVE  TypeOK /\ Stamped
  <1>1. ToSet(execs) = {} /\ IsInjective(execs) /\ execs \in Seq(Tickets)
    BY DEF Init, ToSet, IsInjective
  <1>2. at \in [Own -> {"idle"}] /\ \A t \in Own : lock # t /\ at[t] = "idle"
    BY GateAssumption DEF Init, Tickets
  <1>3. rowDay \in [Tickets -> {None}] /\ execDay \in [Tickets -> {0}] /\ pnl \in [Tickets -> {0}]
    BY DEF Init
  <1>4. 0 \in 0 .. MaxDay /\ 0 \in 0 .. MaxDeletes /\ 0 \in 0 .. MaxCrashes
    BY GateAssumption
  <1>5. TypeOK
    BY <1>1, <1>2, <1>3, <1>4 DEF Init, TypeOK
  <1> QED BY <1>1, <1>5 DEF Init, Stamped

(* The inductive invariant of the cap.                                       *)
LEMMA CapInvariant == Spec => []CapInv
  <1>1. Init => CapInv
    <2> SUFFICES ASSUME Init PROVE CapInv
      OBVIOUS
    <2>1. TypeOK /\ Stamped
      BY InitIsTyped
    <2>3. \A d \in 0 .. MaxDay : OwnOn(d) = {}
      BY GateAssumption DEF Init, OwnOn, Own, Tickets
    <2>4. DailyCap /\ RoomLeft
      <3>1. \A t \in Own : at[t] # "passed"
        BY DEF Init
      <3>2. MaxOrders \in Nat
        BY GateAssumption
      <3>3. \A d \in 0 .. MaxDay : Cardinality(OwnOn(d)) <= MaxOrders
        BY <2>3, <3>2, FS_EmptySet
      <3> QED BY <3>1, <3>3 DEF DailyCap, RoomLeft, OwnOn
    <2> QED BY <2>1, <2>4 DEF CapInv, CapHolds
  <1>2. CapInv /\ [Next]_vars => CapInv'
    BY TypeStep, CapStep DEF CapInv, CapHolds
  <1> QED BY <1>1, <1>2, PTL DEF Spec

(* No day sees more of our orders than max_orders_per_day, for any number of *)
(* tickets, days and restarts: the count is made and the row written under   *)
(* one lock, and fills, other orders and midnight only make room or use none.*)
THEOREM CapHoldsAlways == Spec => []CapHolds
  <1>1. CapInv => CapHolds
    BY DEF CapInv
  <1> QED BY <1>1, CapInvariant, PTL
-------------------------------------------------------------------------------
(* Pauses, for requests sent one at a time.                                  *)

(* A request is sent when all before it are answered; one that has written   *)
(* the setting and not yet the flag finds the setting as it wrote it.        *)
InOrderOfSending ==
    /\ \A r, q \in Requests : q < r /\ req[r] # None => req[q] # None /\ ~InFlight(q)
    /\ \A r \in Requests : req[r] # None /\ req[r].stage = "saved" => saved = req[r].pause

PauseInv == TypeOK /\ Stamped /\ InOrderOfSending /\ PauseHolds

(* Steps that touch neither the switch nor its requests.                     *)
LEMMA PauseUntouched ==
    ASSUME PauseInv, UNCHANGED pauseVars
    PROVE  InOrderOfSending' /\ PauseHolds'
  BY DEF PauseInv, InOrderOfSending, PauseHolds, InFlight, pauseVars

(* The switch, step by step.                                                 *)
LEMMA PauseStep ==
    ASSUME PauseInv, ~Overlapping, [Next]_vars
    PROVE  InOrderOfSending' /\ PauseHolds'
  <1>0. Requests = 1 .. NumRequests /\ NumRequests \in Nat /\ None \notin Requested
    BY GateAssumption DEF Requests
  <1>1. ASSUME NEW r \in Requests, AskPause(r) PROVE InOrderOfSending' /\ PauseHolds'
    <2>1. PICK p \in BOOLEAN : req' = [req EXCEPT ![r] = [stage |-> "sent", pause |-> p]]
      BY <1>1 DEF AskPause
    <2>2. /\ req[r] = None /\ UNCHANGED <<paused, saved>>
          /\ \A q \in 1 .. r - 1 : req[q] # None /\ ~InFlight(q)
      BY <1>1 DEF AskPause, PauseInv
    <2>3. /\ req'[r] # None /\ req'[r].stage = "sent"
          /\ \A q \in Requests \ {r} : req'[q] = req[q]
      BY <1>0, <2>1 DEF PauseInv, TypeOK, Requested
    <2>4. \A q \in Requests : q > r => req[q] = None
      BY <1>0, <2>2 DEF PauseInv, InOrderOfSending
    <2>5. InOrderOfSending'
      BY <1>0, <2>2, <2>3, <2>4 DEF PauseInv, InOrderOfSending, InFlight
    <2>6. PauseHolds'
      BY <1>0, <2>2, <2>3, <2>4 DEF PauseInv, PauseHolds
    <2> QED BY <2>5, <2>6
  <1>2. ASSUME NEW r \in Requests, SavePause(r) PROVE InOrderOfSending' /\ PauseHolds'
    <2>1. PICK s \in {"saved", "gone"} : req' = [req EXCEPT ![r] = [req[r] EXCEPT !.stage = s]]
      BY <1>2 DEF SavePause
    <2>2. /\ req[r] # None /\ req[r] \in Requested /\ InFlight(r)
          /\ saved' = req[r].pause /\ paused' = paused
      BY <1>2 DEF SavePause, PauseInv, TypeOK, InFlight
    <2>3. /\ req'[r] # None /\ req'[r].stage = s /\ req'[r].pause = req[r].pause
          /\ \A q \in Requests \ {r} : req'[q] = req[q]
      BY <1>0, <2>1, <2>2 DEF PauseInv, TypeOK, Requested
    <2>4. \A q \in Requests : q > r => req[q] = None
      BY <1>0, <2>2 DEF PauseInv, InOrderOfSending
    <2>5. \A q \in Requests : q < r => req[q] # None /\ ~InFlight(q)
      BY <1>0, <2>2 DEF PauseInv, InOrderOfSending
    <2>6. InOrderOfSending'
      BY <1>0, <2>2, <2>3, <2>4, <2>5 DEF PauseInv, InOrderOfSending, InFlight
    <2>7. PauseHolds'
      BY <1>0, <2>2, <2>3, <2>4, <2>5 DEF PauseInv, PauseHolds
    <2> QED BY <2>6, <2>7
  <1>3. ASSUME NEW r \in Requests, StorePause(r) PROVE InOrderOfSending' /\ PauseHolds'
    <2>1. req' = [req EXCEPT ![r] = [req[r] EXCEPT !.stage = "done"]]
      BY <1>3 DEF StorePause
    <2>2. /\ req[r] # None /\ req[r] \in Requested /\ InFlight(r) /\ saved = req[r].pause
          /\ paused' = req[r].pause /\ saved' = saved
      BY <1>3 DEF StorePause, PauseInv, TypeOK, InFlight, InOrderOfSending
    <2>3. /\ req'[r] # None /\ req'[r].stage = "done" /\ req'[r].pause = req[r].pause
          /\ \A q \in Requests \ {r} : req'[q] = req[q]
      BY <1>0, <2>1, <2>2 DEF PauseInv, TypeOK, Requested
    <2>4. \A q \in Requests : q > r => req[q] = None
      BY <1>0, <2>2 DEF PauseInv, InOrderOfSending
    <2>5. \A q \in Requests : q < r => req[q] # None /\ ~InFlight(q)
      BY <1>0, <2>2 DEF PauseInv, InOrderOfSending
    <2>6. InOrderOfSending'
      BY <1>0, <2>2, <2>3, <2>4, <2>5 DEF PauseInv, InOrderOfSending, InFlight
    <2>7. PauseHolds'
      BY <1>0, <2>2, <2>3, <2>4, <2>5 DEF PauseInv, PauseHolds
    <2> QED BY <2>6, <2>7
  <1>4. ASSUME Crash PROVE InOrderOfSending' /\ PauseHolds'
    <2>1. /\ paused' = saved /\ saved' = saved
          /\ \A r \in Requests :
                 /\ ~InFlight(r) => req'[r] = req[r]
                 /\ InFlight(r) => /\ req'[r] # None /\ req'[r].stage = "gone"
                                   /\ req'[r].pause = req[r].pause
      BY <1>0, <1>4 DEF Crash, PauseInv, TypeOK, InFlight, Requested
    <2>2. \A r \in Requests : req'[r] = None <=> req[r] = None
      BY <2>1 DEF InFlight
    <2>3. \A r \in Requests : req'[r] # None => req'[r].stage \in {"done", "gone"}
      BY <2>1 DEF InFlight, PauseInv, TypeOK, Requested
    <2>4. InOrderOfSending'
      BY <1>0, <2>1, <2>2, <2>3 DEF PauseInv, InOrderOfSending, InFlight
    <2>5. PauseHolds'
      BY <1>0, <2>1, <2>2, <2>3 DEF PauseInv, PauseHolds, InFlight
    <2> QED BY <2>4, <2>5
  <1>5. Next => \/ UNCHANGED pauseVars \/ Crash
                \/ \E r \in Requests : AskPause(r) \/ SavePause(r) \/ StorePause(r)
    BY DEF Next, Enter, Pass, Insert, Abandon, Execute, Materialize, Ingest, DeleteTx, Midnight
  <1>6. UNCHANGED vars => UNCHANGED pauseVars
    BY DEF vars
  <1> QED BY <1>1, <1>2, <1>3, <1>4, <1>5, <1>6, PauseUntouched

(* An acknowledged pause is in force and in the database until a resume is   *)
(* asked for, through crashes and dropped requests, if requests do not       *)
(* overlap.                                                                  *)
THEOREM PauseHoldsAlways == ~Overlapping => (Spec => []PauseHolds)
  <1> SUFFICES ASSUME ~Overlapping PROVE Spec => []PauseHolds
    OBVIOUS
  <1>1. Init => PauseInv
    <2> SUFFICES ASSUME Init PROVE PauseInv
      OBVIOUS
    <2>1. TypeOK /\ Stamped
      BY InitIsTyped
    <2>2. \A r \in Requests : req[r] = None
      BY DEF Init
    <2> QED BY <2>1, <2>2 DEF PauseInv, InOrderOfSending, PauseHolds
  <1>2. PauseInv /\ [Next]_vars => PauseInv'
    BY TypeStep, PauseStep DEF PauseInv
  <1>3. PauseInv => PauseHolds
    BY DEF PauseInv
  <1> QED BY <1>1, <1>2, <1>3, PTL DEF Spec
-------------------------------------------------------------------------------
(* The judgement.                                                            *)

(* A handler that holds the lock has read the log as it still is, and what   *)
(* it was allowed on it is still allowed: an execution that is not in the    *)
(* log decides nothing, and a new day forgives the losses of the last.       *)
Judged(t) ==
    /\ at[t] \in {"judging", "passed"} => view[t] = log /\ Consistent(log)
    /\ at[t] = "passed" => Allowed(t, log, room[t])

(* No execution has a day to come.                                           *)
NoneAhead == \A t \in Tickets : execDay[t] <= day

JudgeInv == TypeOK /\ Stamped /\ NoneAhead /\ \A t \in Own : Judged(t)

(* What the guardrails make of a set of executed transactions does not       *)
(* change when another execution follows ...                                 *)
LEMMA ExecutionDecidesNothing ==
    ASSUME TypeOK, Stamped, NEW t \in Tickets, Execute(t),
           NEW txs \in SUBSET ToSet(execs), NEW u \in Own, NEW most
    PROVE  /\ Consistent(txs) => Consistent(txs)'
           /\ Allowed(u, txs, most)' = Allowed(u, txs, most)
  <1>1. /\ t \notin ToSet(execs) /\ execs' = Append(execs, t) /\ execs \in Seq(Tickets)
        /\ \A x \in txs : execDay'[x] = execDay[x] /\ pnl'[x] = pnl[x]
        /\ day' = day
    BY GateAssumption DEF Execute, TypeOK, Stamped, ToSet
  <1>2. SoldToday(txs)' = SoldToday(txs)
    BY <1>1 DEF SoldToday
  <1>3. \A x \in SoldToday(txs) : pnl'[x] = pnl[x]
    BY <1>1 DEF SoldToday
  <1>4. RealizedToday(txs)' = RealizedToday(txs)
    BY <1>2, <1>3 DEF RealizedToday
  <1>5. Allowed(u, txs, most)' = Allowed(u, txs, most)
    BY <1>4 DEF Allowed, Breaker, LongOnly, Fits, Held
  <1>6. ASSUME NEW n \in 1 .. Len(execs), Consistent(txs)
        PROVE  UpTo(n, txs)' = UpTo(n, txs)
    BY <1>1 DEF UpTo
  <1>7. ASSUME NEW n, n = Len(execs) + 1 PROVE UpTo(n, txs)' = UpTo(Len(execs), txs)
    BY <1>1, <1>7 DEF UpTo, ToSet
  <1>8. ASSUME Consistent(txs), NEW n \in 1 .. Len(execs')
        PROVE  Held(UpTo(n, txs)') >= 0
    <2>1. Len(execs') = Len(execs) + 1 /\ Len(execs) \in Nat
      BY <1>1
    <2>2. CASE n \in 1 .. Len(execs)
      BY <1>6, <1>8, <2>2 DEF Consistent
    <2>3. CASE n = Len(execs) + 1 /\ Len(execs) # 0
      <3>1. Len(execs) \in 1 .. Len(execs)
        BY <2>1, <2>3
      <3> QED BY <1>7, <1>8, <2>3, <3>1 DEF Consistent
    <2>4. CASE Len(execs) = 0
      <3>1. txs \cap {execs'[i] : i \in 1 .. n} = {}
        BY <1>1, <2>4 DEF ToSet
      <3>2. {} \cap AllBuys = {} /\ {} \ AllBuys = {} /\ Cardinality({}) = 0
        BY FS_EmptySet
      <3>3. Held({}) = 0
        BY <3>2 DEF Held
      <3> QED BY <3>1, <3>3 DEF UpTo
    <2> QED BY <2>1, <2>2, <2>3, <2>4
  <1> QED BY <1>5, <1>8 DEF Consistent, Held

(* ... nor, for what was allowed, when the day ends: no loss is of today.    *)
LEMMA NewDayAllows ==
    ASSUME TypeOK, NoneAhead, Midnight, NEW txs \in SUBSET Tickets, NEW u \in Own, NEW most,
           Allowed(u, txs, most)
    PROVE  Allowed(u, txs, most)'
  <1>1. day' = day + 1 /\ execDay' = execDay /\ pnl' = pnl /\ day \in Nat
    BY GateAssumption DEF Midnight, TypeOK, brokerVars
  <1>2. SoldToday(txs)' = {}
    <2>1. \A x \in txs : execDay[x] \in Nat /\ execDay[x] <= day
      BY GateAssumption DEF NoneAhead, TypeOK
    <2> QED BY <1>1, <2>1 DEF SoldToday
  <1>3. RealizedToday(txs)' = 0
    BY <1>2, FS_EmptySet DEF RealizedToday
  <1>4. ~Breaker(txs)'
    BY <1>3, GateAssumption DEF Breaker
  <1> QED BY <1>4 DEF Allowed, Fits, LongOnly, Held

(* The judgement, step by step.                                              *)
LEMMA JudgeStep ==
    ASSUME JudgeInv, [Next]_vars
    PROVE  NoneAhead' /\ \A t \in Own : Judged(t)'
  <1> USE DEF JudgeInv, TypeOK
  <1>0. /\ \A t, u \in Own : lock = t /\ at[u] \in {"judging", "passed"} => u = t
        /\ lock = None => \A t \in Own : at[t] \notin {"judging", "passed"}
        /\ log \subseteq ToSet(execs) /\ log \in SUBSET Tickets
    BY GateAssumption DEF Tickets
  <1>a. ASSUME UNCHANGED <<execs, execDay, pnl, day>>
        PROVE  \A txs, u, n : /\ Consistent(txs)' = Consistent(txs)
                              /\ Allowed(u, txs, n)' = Allowed(u, txs, n)
    BY <1>a DEF Consistent, UpTo, Held, Allowed, Breaker, RealizedToday, SoldToday, LongOnly, Fits
  <1>1. ASSUME NEW t \in Own, Enter(t) PROVE NoneAhead' /\ \A u \in Own : Judged(u)'
    <2>1. /\ UNCHANGED <<execs, execDay, pnl, day, log>>
          /\ lock = None /\ at' = [at EXCEPT ![t] = "judging"] /\ Consistent(log)
          /\ view' = [view EXCEPT ![t] = log]
      BY <1>1 DEF Enter, brokerVars, logVars
    <2>2. ASSUME NEW u \in Own, at'[u] \in {"judging", "passed"}
          PROVE  u = t /\ at'[u] = "judging"
      BY <1>0, <2>1, <2>2
    <2>3. view'[t] = log /\ Consistent(log)'
      BY <1>a, <2>1
    <2> QED BY <2>1, <2>2, <2>3 DEF NoneAhead, Judged
  <1>2. ASSUME NEW t \in Own, Pass(t) PROVE NoneAhead' /\ \A u \in Own : Judged(u)'
    <2>1. /\ UNCHANGED <<execs, execDay, pnl, day, log, view, room>>
          /\ at[t] = "judging" /\ at' = [at EXCEPT ![t] = "passed"]
          /\ Allowed(t, view[t], room[t])
      BY <1>2 DEF Pass, brokerVars, logVars
    <2>2. view[t] = log
      BY <2>1 DEF Judged
    <2>3. ASSUME NEW u \in Own PROVE Judged(u)'
      <3>1. at'[u] \in {"judging", "passed"} => at[u] \in {"judging", "passed"}
        BY <2>1
      <3>2. at'[u] = "passed" => Allowed(u, log, room[u])
        BY <2>1, <2>2 DEF Judged
      <3> QED BY <1>a, <2>1, <3>1, <3>2 DEF Judged
    <2> QED BY <2>1, <2>3 DEF NoneAhead
  <1>3. ASSUME UNCHANGED <<execs, execDay, pnl, day, log>>,
               \A u \in Own : at'[u] \in {"judging", "passed"} =>
                   at'[u] = at[u] /\ view'[u] = view[u] /\ room'[u] = room[u]
        PROVE  NoneAhead' /\ \A u \in Own : Judged(u)'
    BY <1>a, <1>3 DEF NoneAhead, Judged
  <1>4. ASSUME NEW t \in Own, Insert(t) \/ Abandon(t)
        PROVE  NoneAhead' /\ \A u \in Own : Judged(u)'
    BY <1>3, <1>4 DEF Insert, Abandon, brokerVars, logVars
  <1>5. ASSUME NEW t \in Tickets, Execute(t) PROVE NoneAhead' /\ \A u \in Own : Judged(u)'
    <2>1. /\ UNCHANGED <<at, view, room, log, day>> /\ execDay' = [execDay EXCEPT ![t] = day]
      BY <1>5 DEF Execute, ticketVars, logVars
    <2>2. NoneAhead'
      BY <2>1, GateAssumption DEF NoneAhead
    <2>3. \A u \in Own : /\ Consistent(log) => Consistent(log)'
                          /\ Allowed(u, log, room[u])' = Allowed(u, log, room[u])
      BY <1>0, <1>5, <2>1, ExecutionDecidesNothing
    <2> QED BY <2>1, <2>2, <2>3 DEF Judged
  <1>6. ASSUME NEW t \in Tickets, Materialize(t) PROVE NoneAhead' /\ \A u \in Own : Judged(u)'
    BY <1>3, <1>6 DEF Materialize, ticketVars, brokerVars, logVars
  <1>7. ASSUME NEW t \in Tickets, Ingest(t) \/ DeleteTx(t)
        PROVE  NoneAhead' /\ \A u \in Own : Judged(u)'
    <2>1. lock = None /\ UNCHANGED <<at, execDay, day>>
      BY <1>7 DEF Ingest, DeleteTx, ticketVars, brokerVars
    <2> QED BY <1>0, <2>1 DEF NoneAhead, Judged
  <1>8. ASSUME NEW r \in Requests, AskPause(r) \/ SavePause(r) \/ StorePause(r)
        PROVE  NoneAhead' /\ \A u \in Own : Judged(u)'
    BY <1>3, <1>8 DEF AskPause, SavePause, StorePause, ticketVars, brokerVars, logVars
  <1>9. ASSUME Midnight PROVE NoneAhead' /\ \A u \in Own : Judged(u)'
    <2>1. day' = day + 1 /\ UNCHANGED <<at, view, room, log, execs, execDay>>
      BY <1>9 DEF Midnight, ticketVars, brokerVars, logVars
    <2>2. NoneAhead'
      BY <2>1, GateAssumption DEF NoneAhead
    <2>3. Consistent(log)' = Consistent(log)
      BY <2>1 DEF Consistent, UpTo, Held
    <2>4. \A u \in Own : Allowed(u, log, room[u]) => Allowed(u, log, room[u])'
      BY <1>0, <1>9, <2>1, NewDayAllows
    <2> QED BY <2>1, <2>2, <2>3, <2>4 DEF Judged
  <1>10. ASSUME Crash PROVE NoneAhead' /\ \A u \in Own : Judged(u)'
    BY <1>3, <1>10 DEF Crash, brokerVars, logVars
  <1>11. CASE UNCHANGED vars
    BY <1>3, <1>11 DEF vars, ticketVars, brokerVars, logVars
  <1> QED
    BY StepCases, <1>1, <1>2, <1>4, <1>5, <1>6, <1>7, <1>8, <1>9, <1>10, <1>11

(* A row is written only on a log that replays and that allows the ticket at *)
(* that moment, not only on the one its handler read awaits before: what     *)
(* could take shares or make room away waits for the lock.                   *)
THEOREM JudgedOnCurrentLogHolds == Spec => JudgedOnCurrentLog
  <1>1. Init => JudgeInv
    <2> SUFFICES ASSUME Init PROVE JudgeInv
      OBVIOUS
    <2>1. \A t \in Tickets : execDay[t] <= day
      BY DEF Init
    <2>2. \A t \in Own : at[t] = "idle"
      BY DEF Init
    <2> QED BY <2>1, <2>2, InitIsTyped DEF JudgeInv, NoneAhead, Judged
  <1>2. JudgeInv /\ [Next]_vars => JudgeInv'
    BY TypeStep, JudgeStep DEF JudgeInv
  <1>3. JudgeInv /\ [Next]_vars =>
          [\A t \in Own : rowDay[t] = None /\ rowDay'[t] # None
              => Consistent(log) /\ Allowed(t, log, room[t])]_vars
    <2> SUFFICES ASSUME JudgeInv, Next, NEW t \in Own, rowDay[t] = None, rowDay'[t] # None
                 PROVE  Consistent(log) /\ Allowed(t, log, room[t])
      OBVIOUS
    <2>1. ASSUME NEW u \in Others, Materialize(u) PROVE FALSE
      <3>1. rowDay' = [rowDay EXCEPT ![u] = day] /\ u # t
        BY <2>1, GateAssumption DEF Materialize
      <3> QED BY <3>1 DEF JudgeInv, TypeOK, Tickets
    <2>2. rowDay' # rowDay
      OBVIOUS
    <2>3. \E u \in Own : Insert(u)
      BY <2>1, <2>2, StepCases
      DEF Enter, Pass, Abandon, Execute, Materialize, Ingest, DeleteTx, AskPause, SavePause,
          StorePause, Midnight, Crash
    <2>4. Insert(t)
      BY <2>3 DEF Insert, JudgeInv, TypeOK, Tickets
    <2> QED BY <2>4 DEF Insert, JudgeInv, Judged
  <1> QED BY <1>1, <1>2, <1>3, PTL DEF Spec, JudgedOnCurrentLog
===============================================================================
