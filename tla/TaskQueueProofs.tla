-------------------------- MODULE TaskQueueProofs --------------------------
(***************************************************************************)
(* What TLAPS proves of the task queue, for every set of workers, keys,    *)
(* priorities and reasons and for every bound.                             *)
(***************************************************************************)
EXTENDS TaskQueue, SequenceTheorems, FiniteSetTheorems, TLAPS

-----------------------------------------------------------------------------
(***************************************************************************)
(* The state machine                                                       *)
(***************************************************************************)

\* A move never leads from an ended status to an active one: only archiving
\* follows the end of a task (state_machine.py:40-45).
LEMMA EndedLeadsOnlyToArchived ==
  ASSUME NEW s \in EndedStatuses, NEW target, EnsureTransition(s, target)
  PROVE  target = "Archived"
BY DEF EndedStatuses, EnsureTransition, AllowedTransitions

\* A status is active for deduplication exactly when it has not ended.
LEMMA ActiveIsNotEnded ==
  /\ ActiveDedupeStatuses = Status \ EndedStatuses
  /\ EndedStatuses \subseteq Status
BY DEF ActiveDedupeStatuses, Status, EndedStatuses

\* A move leads to a status.
LEMMA TransitionTargets ==
  ASSUME NEW s \in Status, NEW target, EnsureTransition(s, target)
  PROVE  target \in Status
BY DEF Status, EnsureTransition, AllowedTransitions

-----------------------------------------------------------------------------
(***************************************************************************)
(* Types                                                                   *)
(***************************************************************************)

\* A commit of well-typed rows and events keeps the four tables well-typed.
LEMMA CommitTypes ==
  ASSUME QueueTypeOK,
         NEW rows \in Seq(TaskRows), Len(rows) <= MaxTasks,
         NEW events \in Seq(EventRows),
         \A i \in 1..Len(events) : events[i].task \in 1..Len(rows),
         Commit(rows, events), UNCHANGED now
  PROVE  QueueTypeOK'
<1> DEFINE snaps == [i \in 1..Len(events) |->
                       SnapshotOf(events[i].task, rows[events[i].task])]
<1>1. Len(events) \in Nat
  BY LenProperties
<1>2. ASSUME NEW i \in 1..Len(events)
      PROVE  SnapshotOf(events[i].task, rows[events[i].task]) \in Snapshots
  <2>1. events[i] \in EventRows
    BY ElementOfSeq
  <2>2. rows[events[i].task] \in TaskRows
    BY ElementOfSeq
  <2>3. QED
    BY <2>1, <2>2 DEF SnapshotOf, Snapshots, EventRows, TaskRows
<1>3. snaps \in Seq(Snapshots)
  BY <1>1, <1>2, IsASeq
<1>4. taskEvents \o events \in Seq(EventRows)
  BY ConcatProperties DEF QueueTypeOK
<1>5. outbox \o snaps \in Seq(Snapshots)
  BY <1>3, ConcatProperties DEF QueueTypeOK
<1>6. QED
  BY <1>4, <1>5 DEF Commit, QueueTypeOK

\* Rewriting one row keeps the table of tasks well-typed.
LEMMA RewriteTypes ==
  ASSUME QueueTypeOK, NEW t \in DOMAIN tasks, NEW row \in TaskRows,
         NEW event \in EventRows, event.task = t,
         Commit([tasks EXCEPT ![t] = row], <<event>>), UNCHANGED now
  PROVE  QueueTypeOK'
<1>1. /\ [tasks EXCEPT ![t] = row] \in Seq(TaskRows)
      /\ Len([tasks EXCEPT ![t] = row]) = Len(tasks)
      /\ t \in 1..Len(tasks)
  BY ExceptSeq, LenProperties DEF QueueTypeOK
<1>2. /\ <<event>> \in Seq(EventRows)
      /\ Len(<<event>>) = 1
      /\ <<event>>[1] = event
  OBVIOUS
<1>3. /\ Len([tasks EXCEPT ![t] = row]) <= MaxTasks
      /\ \A i \in 1..Len(<<event>>) :
           <<event>>[i].task \in 1..Len([tasks EXCEPT ![t] = row])
  BY <1>1, <1>2 DEF QueueTypeOK
<1>4. QED
  BY <1>1, <1>2, <1>3, CommitTypes

\* A row of the table is a well-typed row, and its id is a task id.
LEMMA RowTypes ==
  ASSUME QueueTypeOK, NEW t \in DOMAIN tasks
  PROVE  tasks[t] \in TaskRows /\ t \in TaskIds
<1>1. tasks \in Seq(TaskRows) /\ Len(tasks) <= MaxTasks
  BY DEF QueueTypeOK
<1>2. Len(tasks) \in Nat /\ DOMAIN tasks = 1..Len(tasks)
  BY <1>1, LenProperties
<1>3. tasks[t] \in TaskRows
  BY <1>1, <1>2, ElementOfSeq
<1>4. QED
  BY <1>1, <1>2, <1>3, QueueAssumption DEF TaskIds

\* The recovered row of a task whose lease has expired.
LEMMA RecoveredTypes ==
  ASSUME NEW row \in TaskRows
  PROVE  /\ Recovered(row) \in TaskRows
         /\ RecoveredStatus(row) \in Status
<1>1. RecoveredStatus(row) \in Status
  BY DEF RecoveredStatus, Status
<1>2. QED
  BY <1>1 DEF Recovered, TaskRows

\* Inserting a row keeps the four tables well-typed.
LEMMA CreateTypes ==
  ASSUME QueueTypeOK, NEW req \in Requests, NEW parent \in TaskIds \cup {None},
         CreateInTransaction(req, parent)
  PROVE  QueueTypeOK'
<1> DEFINE row   == NewRow(req, parent)
           id    == Len(tasks) + 1
           event == EventOf(id, None, row.status, CreationReason(req))
<1>1. Len(tasks) \in Nat
  BY LenProperties DEF QueueTypeOK
<1>2. row \in TaskRows
  BY DEF NewRow, TaskRows, Requests, Status
<1>3. event \in EventRows
  <2>1. id \in TaskIds
    BY <1>1, QueueAssumption DEF CreateInTransaction, TaskIds
  <2>2. CreationReason(req) \in Reasons
    BY DEF CreationReason, Reasons
  <2>3. row.status \in Status
    BY <1>2 DEF TaskRows
  <2>4. QED
    BY <2>1, <2>2, <2>3 DEF EventOf, EventRows
<1>4. /\ Append(tasks, row) \in Seq(TaskRows)
      /\ Len(Append(tasks, row)) = id
  BY <1>2 DEF QueueTypeOK
<1>5. id <= MaxTasks
  BY <1>1, QueueAssumption DEF CreateInTransaction
<1>6. /\ <<event>> \in Seq(EventRows)
      /\ \A i \in 1..Len(<<event>>) : <<event>>[i].task \in 1..id
  BY <1>1, <1>3 DEF EventOf
<1>7. Commit(Append(tasks, row), <<event>>) /\ UNCHANGED now
  BY DEF CreateInTransaction
<1>8. QED
  BY <1>4, <1>5, <1>6, <1>7, CommitTypes

\* Recovering every expired lease at once keeps the four tables well-typed.
LEMMA RecoverTypes ==
  ASSUME QueueTypeOK, NEW at \in Nat, RecoverExpiredLeases(at)
  PROVE  QueueTypeOK'
<1> DEFINE lost == Expired(at)
           rows == [t \in DOMAIN tasks |->
                      IF t \in lost THEN Recovered(tasks[t]) ELSE tasks[t]]
           n    == Cardinality(lost)
<1>1. Len(tasks) \in Nat /\ DOMAIN tasks = 1..Len(tasks)
  BY LenProperties DEF QueueTypeOK
<1>2. lost \subseteq DOMAIN tasks
  BY DEF Expired
<1>3. n \in Nat
  <2>1. IsFiniteSet(1..Len(tasks))
    BY <1>1, FS_Interval
  <2>2. IsFiniteSet(lost)
    BY <1>1, <1>2, <2>1, FS_Subset
  <2>3. QED
    BY <2>2, FS_CardinalityType
<1>4. PICK order \in LeaseOrders(lost) :
        Commit(rows,
               [i \in 1..n |-> EventOf(order[i], "Running",
                                       RecoveredStatus(tasks[order[i]]),
                                       [kind |-> "lease_expired", by |-> None])])
  BY DEF RecoverExpiredLeases
<1> DEFINE event(i) == EventOf(order[i], "Running",
                               RecoveredStatus(tasks[order[i]]),
                               [kind |-> "lease_expired", by |-> None])
           events   == [i \in 1..n |-> event(i)]
<1>5. ASSUME NEW t \in 1..Len(tasks)
      PROVE  (IF t \in lost THEN Recovered(tasks[t]) ELSE tasks[t]) \in TaskRows
  BY <1>1, RowTypes, RecoveredTypes
<1>6. rows \in Seq(TaskRows) /\ Len(rows) = Len(tasks)
  <2>1. rows = [t \in 1..Len(tasks) |->
                  IF t \in lost THEN Recovered(tasks[t]) ELSE tasks[t]]
    BY <1>1
  <2> HIDE DEF lost
  <2>2. rows \in Seq(TaskRows)
    BY <1>1, <1>5, <2>1, IsASeq
  <2>3. QED
    BY <1>1, <2>1, <2>2, LenProperties
<1>7. ASSUME NEW i \in 1..n
      PROVE  event(i) \in EventRows /\ event(i).task \in 1..Len(rows)
  <2>1. order[i] \in lost
    BY DEF LeaseOrders
  <2>2. order[i] \in DOMAIN tasks
    BY <1>2, <2>1
  <2>3. order[i] \in TaskIds /\ RecoveredStatus(tasks[order[i]]) \in Status
    BY <2>2, RowTypes, RecoveredTypes
  <2>4. [kind |-> "lease_expired", by |-> None] \in Reasons
    BY DEF Reasons
  <2>5. "Running" \in Status
    BY DEF Status
  <2>6. event(i) \in EventRows
    BY <2>3, <2>4, <2>5 DEF EventOf, EventRows
  <2>7. QED
    BY <1>1, <1>6, <2>2, <2>6 DEF EventOf
<1>8. events \in Seq(EventRows) /\ Len(events) = n
  <2> HIDE DEF n, event, rows
  <2>1. \A i \in 1..n : event(i) \in EventRows
    BY <1>7
  <2>2. events \in Seq(EventRows)
    BY <1>3, <2>1, IsASeq
  <2>3. QED
    BY <1>3, <2>2, LenProperties
<1>9. \A i \in 1..Len(events) : events[i].task \in 1..Len(rows)
  BY <1>7, <1>8
<1>10. Commit(rows, events) /\ UNCHANGED now
  BY <1>4 DEF RecoverExpiredLeases
<1>11. Len(rows) <= MaxTasks
  BY <1>6 DEF QueueTypeOK
<1>12. QED
  <2> HIDE DEF rows, events
  <2>1. QED
    BY <1>6, <1>8, <1>9, <1>10, <1>11, CommitTypes

\* The leased row of a task.
LEMMA LeasedTypes ==
  ASSUME NEW row \in TaskRows, NEW w \in Workers, NEW expiry \in Nat
  PROVE  Leased(row, w, expiry) \in TaskRows
<1>1. row.attempts + 1 \in Nat
  BY DEF TaskRows
<1>2. "Running" \in Status
  BY DEF Status
<1>3. QED
  BY <1>1, <1>2 DEF Leased, TaskRows

\* Leasing the task that is next in line keeps the four tables well-typed.
LEMMA LeaseTypes ==
  ASSUME QueueTypeOK, NEW w \in Workers, NEW at \in Nat, LeaseNext(w, at)
  PROVE  QueueTypeOK'
<1> DEFINE event(t) == EventOf(t, "Queued", "Running", [kind |-> "leased", by |-> w])
           expiry   == at + LeaseSeconds
<1>1. PICK t \in DOMAIN tasks :
        /\ Commit([tasks EXCEPT ![t] = Leased(@, w, expiry)], <<event(t)>>)
        /\ UNCHANGED now
  BY DEF LeaseNext
<1>2. tasks[t] \in TaskRows /\ t \in TaskIds
  BY RowTypes
<1>3. Leased(tasks[t], w, expiry) \in TaskRows
  <2>1. expiry \in Nat
    BY QueueAssumption
  <2>2. QED
    BY <1>2, <2>1, LeasedTypes
<1>4. event(t) \in EventRows /\ event(t).task = t
  <2>1. "Queued" \in Status /\ "Running" \in Status
    BY DEF Status
  <2>2. QED
    BY <1>2, <2>1 DEF EventOf, EventRows, Reasons
<1>5. QED
  BY <1>1, <1>3, <1>4, RewriteTypes

\* A move of a task keeps the four tables well-typed.
LEMMA TransitionTypes ==
  ASSUME QueueTypeOK, NEW t, NEW target \in Status, NEW reason \in CallerReasons,
         Transition(t, target, reason)
  PROVE  QueueTypeOK'
<1>1. t \in DOMAIN tasks
  BY DEF Transition
<1>2. tasks[t] \in TaskRows /\ t \in TaskIds
  BY <1>1, RowTypes
<1>3. Moved(tasks[t], target) \in TaskRows
  BY <1>2 DEF Moved, TaskRows
<1>4. EventOf(t, tasks[t].status, target, reason) \in EventRows
  BY <1>2 DEF EventOf, EventRows, Reasons, TaskRows
<1>5. QED
  BY <1>1, <1>3, <1>4, RewriteTypes DEF EventOf, Transition

\* The times an operation may judge by are natural numbers.
LEMMA RecentTimesAreTimes ==
  ASSUME QueueTypeOK
  PROVE  RecentTimes \subseteq Nat
BY QueueAssumption DEF QueueTypeOK, RecentTimes

\* What retry copies from a row is a well-typed request.
LEMMA RetryRequestTypes ==
  ASSUME NEW row \in TaskRows
  PROVE  RetryRequest(row) \in Requests
BY DEF RetryRequest, Requests, TaskRows

\* Every operation leaves the four tables well-typed.
LEMMA QueueTypeStep ==
  ASSUME QueueTypeOK, [QueueNext]_queueVars
  PROVE  QueueTypeOK'
<1>1. ASSUME NEW req \in Requests, Create(req) PROVE QueueTypeOK'
  BY <1>1, CreateTypes DEF Create
<1>2. ASSUME NEW t \in TaskIds, Retry(t) PROVE QueueTypeOK'
  <2>1. RetryRequest(tasks[t]) \in Requests
    BY <1>2, RowTypes, RetryRequestTypes DEF Retry
  <2>2. QED
    BY <1>2, <2>1, CreateTypes DEF Retry
<1>3. ASSUME NEW w \in Workers, NEW at \in RecentTimes, LeaseNext(w, at)
      PROVE  QueueTypeOK'
  BY <1>3, LeaseTypes, RecentTimesAreTimes
<1>4. ASSUME NEW at \in RecentTimes, RecoverExpiredLeases(at) PROVE QueueTypeOK'
  BY <1>4, RecoverTypes, RecentTimesAreTimes
<1>5. ASSUME NEW t \in TaskIds, NEW target \in Status, NEW reason \in CallerReasons,
             Transition(t, target, reason)
      PROVE  QueueTypeOK'
  BY <1>5, TransitionTypes
<1>6. CASE Tick
  BY <1>6, QueueAssumption DEF Tick, QueueTypeOK
<1>7. CASE UNCHANGED queueVars
  BY <1>7 DEF queueVars, QueueTypeOK
<1>8. QED
  BY <1>1, <1>2, <1>3, <1>4, <1>5, <1>6, <1>7 DEF QueueNext

\* The four tables keep their types.
THEOREM TypeCorrect == QueueSpec => []QueueTypeOK
<1>1. QueueInit => QueueTypeOK
  BY QueueAssumption DEF QueueInit, QueueTypeOK
<1>2. QueueTypeOK /\ [QueueNext]_queueVars => QueueTypeOK'
  BY QueueTypeStep
<1>3. QED
  BY <1>1, <1>2, PTL DEF QueueSpec
-----------------------------------------------------------------------------
(***************************************************************************)
(* Keys and ends.  They follow from what a step may do to the rows: leave  *)
(* them alone, move some of them along the state machine without touching  *)
(* their keys, or append one whose keys were looked up in the same step.   *)
(***************************************************************************)

RowStep(old, new) ==
  /\ new.idem = old.idem
  /\ new.dedupe = old.dedupe
  /\ \/ new = old
     \/ /\ EnsureTransition(old.status, new.status)
        /\ new = Moved(old, new.status) \/ old.status \in {"Queued", "Running"}

RowsMove ==
  /\ DOMAIN tasks' = DOMAIN tasks
  /\ \A t \in DOMAIN tasks : RowStep(tasks[t], tasks'[t])

RowIsAdded ==
  \E req \in Requests, parent \in TaskIds \cup {None} :
    /\ ~IdempotencyHit(req)
    /\ ~DedupeHit(req)
    /\ tasks' = Append(tasks, NewRow(req, parent))

\* A row that is rewritten along the state machine, alone.
LEMMA OneRowMoves ==
  ASSUME QueueTypeOK, NEW t \in DOMAIN tasks, NEW row,
         tasks' = [tasks EXCEPT ![t] = row], RowStep(tasks[t], row)
  PROVE  RowsMove
<1>1. \A u \in DOMAIN tasks : RowStep(tasks[u], tasks[u])
  BY DEF RowStep
<1>2. DOMAIN tasks' = DOMAIN tasks
  OBVIOUS
<1>3. ASSUME NEW u \in DOMAIN tasks
      PROVE  RowStep(tasks[u], tasks'[u])
  <2>1. CASE u = t
    BY <2>1
  <2>2. CASE u # t
    <3>1. tasks'[u] = tasks[u]
      BY <2>2
    <3>2. QED
      BY <1>1, <3>1
  <2>3. QED
    BY <2>1, <2>2
<1>4. QED
  BY <1>2, <1>3 DEF RowsMove

\* What a step of the queue may do to the rows: nothing, append one that was
\* created, or move some of them along the state machine.
LEMMA StepsOnRows ==
  ASSUME QueueTypeOK, QueueNext
  PROVE  tasks' = tasks \/ RowsMove \/ RowIsAdded
<1>1. ASSUME NEW req \in Requests, Create(req) PROVE RowIsAdded
  BY <1>1 DEF Create, CreateInTransaction, Commit, RowIsAdded
<1>2. ASSUME NEW t \in TaskIds, Retry(t) PROVE RowIsAdded
  <2>1. RetryRequest(tasks[t]) \in Requests
    BY <1>2, RowTypes, RetryRequestTypes DEF Retry
  <2>2. QED
    BY <1>2, <2>1 DEF Retry, CreateInTransaction, Commit, RowIsAdded
<1>3. ASSUME NEW w \in Workers, NEW at \in RecentTimes, LeaseNext(w, at)
      PROVE  RowsMove
  <2> DEFINE row(t) == Leased(tasks[t], w, at + LeaseSeconds)
  <2>1. PICK t \in DOMAIN tasks :
          /\ t \in Queued
          /\ EnsureTransition(tasks[t].status, "Running")
          /\ tasks' = [tasks EXCEPT ![t] = row(t)]
    BY <1>3 DEF LeaseNext, Commit, NextInLine
  <2>2. tasks[t] \in TaskRows
    BY RowTypes
  <2>3. RowStep(tasks[t], row(t))
    BY <2>1, <2>2 DEF RowStep, Queued, Leased, TaskRows
  <2>4. QED
    BY <2>1, <2>3, OneRowMoves
<1>4. ASSUME NEW at \in RecentTimes, RecoverExpiredLeases(at) PROVE RowsMove
  <2>1. tasks' = [t \in DOMAIN tasks |-> IF t \in Expired(at) THEN Recovered(tasks[t])
                                                              ELSE tasks[t]]
    BY <1>4 DEF RecoverExpiredLeases, Commit
  <2>2. ASSUME NEW t \in DOMAIN tasks, t \in Expired(at)
        PROVE  RowStep(tasks[t], Recovered(tasks[t]))
    <3>1. tasks[t] \in TaskRows /\ tasks[t].status = "Running"
      BY <2>2, RowTypes DEF Expired
    <3>2. EnsureTransition("Running", RecoveredStatus(tasks[t]))
      BY DEF EnsureTransition, AllowedTransitions, RecoveredStatus
    <3>3. QED
      BY <3>1, <3>2 DEF RowStep, Recovered, TaskRows
  <2>3. ASSUME NEW t \in DOMAIN tasks PROVE RowStep(tasks[t], tasks'[t])
    <3>1. CASE t \in Expired(at)
      BY <2>1, <2>2, <3>1
    <3>2. CASE t \notin Expired(at)
      BY <2>1, <3>2 DEF RowStep
    <3>3. QED
      BY <3>1, <3>2
  <2>4. QED
    BY <2>1, <2>3 DEF RowsMove
<1>5. ASSUME NEW t \in TaskIds, NEW target \in Status, NEW reason \in CallerReasons,
             Transition(t, target, reason)
      PROVE  RowsMove
  <2>1. /\ t \in DOMAIN tasks
        /\ EnsureTransition(tasks[t].status, target)
        /\ tasks' = [tasks EXCEPT ![t] = Moved(tasks[t], target)]
    BY <1>5 DEF Transition, Commit
  <2>2. tasks[t] \in TaskRows
    BY <2>1, RowTypes
  <2>3. /\ Moved(tasks[t], target).status = target
        /\ Moved(tasks[t], target).idem = tasks[t].idem
        /\ Moved(tasks[t], target).dedupe = tasks[t].dedupe
    BY <2>2 DEF Moved, TaskRows
  <2>4. RowStep(tasks[t], Moved(tasks[t], target))
    BY <2>1, <2>3 DEF RowStep
  <2>5. QED
    BY <2>1, <2>4, OneRowMoves
<1>6. ASSUME Tick PROVE tasks' = tasks
  BY <1>6 DEF Tick
<1>7. QED
  BY <1>1, <1>2, <1>3, <1>4, <1>5, <1>6 DEF QueueNext

\* What an appended row holds.
LEMMA AddedRow ==
  ASSUME QueueTypeOK, NEW row, tasks' = Append(tasks, row)
  PROVE  /\ DOMAIN tasks' = DOMAIN tasks \cup {Len(tasks) + 1}
         /\ Len(tasks) + 1 \notin DOMAIN tasks
         /\ tasks'[Len(tasks) + 1] = row
         /\ \A t \in DOMAIN tasks : tasks'[t] = tasks[t]
BY DEF QueueTypeOK

\* No two tasks ever share an idempotency key.
THEOREM IdempotentCreationHolds == QueueSpec => []IdempotentCreation
<1>1. QueueInit => IdempotentCreation
  BY DEF QueueInit, IdempotentCreation
<1>2. QueueTypeOK /\ IdempotentCreation /\ [QueueNext]_queueVars => IdempotentCreation'
  <2> SUFFICES ASSUME QueueTypeOK, IdempotentCreation, [QueueNext]_queueVars
               PROVE  IdempotentCreation'
    OBVIOUS
  <2>1. CASE tasks' = tasks
    BY <2>1 DEF IdempotentCreation
  <2>2. CASE RowsMove
    BY <2>2 DEF IdempotentCreation, RowsMove, RowStep
  <2>3. CASE RowIsAdded
    <3>1. PICK req \in Requests, parent \in TaskIds \cup {None} :
            /\ ~IdempotencyHit(req)
            /\ tasks' = Append(tasks, NewRow(req, parent))
      BY <2>3 DEF RowIsAdded
    <3>2. NewRow(req, parent).idem = req.idem
      BY DEF NewRow
    <3>3. \A t \in DOMAIN tasks : req.idem # None => tasks[t].idem # req.idem
      BY <3>1 DEF IdempotencyHit
    <3>4. QED
      BY <3>1, <3>2, <3>3, AddedRow DEF IdempotentCreation
  <2>4. QED
    BY <2>1, <2>2, <2>3, StepsOnRows DEF queueVars
<1>3. QED
  BY <1>1, <1>2, TypeCorrect, PTL DEF QueueSpec

\* A move never makes an ended task active.
LEMMA ActiveComesFromActive ==
  ASSUME NEW old, NEW new, old.status \in Status, RowStep(old, new),
         new.status \in ActiveDedupeStatuses
  PROVE  old.status \in ActiveDedupeStatuses
<1>1. CASE old.status \in EndedStatuses
  <2>1. ~EnsureTransition(old.status, new.status)
    BY <1>1, EndedLeadsOnlyToArchived DEF ActiveDedupeStatuses
  <2>2. QED
    BY <2>1 DEF RowStep
<1>2. QED
  BY <1>1, ActiveIsNotEnded

\* No two active tasks ever share a dedupe key.
THEOREM OneActivePerDedupeKeyHolds == QueueSpec => []OneActivePerDedupeKey
<1>1. QueueInit => OneActivePerDedupeKey
  BY DEF QueueInit, OneActivePerDedupeKey
<1>2. QueueTypeOK /\ OneActivePerDedupeKey /\ [QueueNext]_queueVars
        => OneActivePerDedupeKey'
  <2> SUFFICES ASSUME QueueTypeOK, OneActivePerDedupeKey, [QueueNext]_queueVars
               PROVE  OneActivePerDedupeKey'
    OBVIOUS
  <2>1. CASE tasks' = tasks
    BY <2>1 DEF OneActivePerDedupeKey
  <2>2. CASE RowsMove
    <3>1. ASSUME NEW t \in DOMAIN tasks, tasks'[t].status \in ActiveDedupeStatuses
          PROVE  tasks[t].status \in ActiveDedupeStatuses
      <4>1. tasks[t].status \in Status
        BY RowTypes DEF TaskRows
      <4>2. QED
        BY <2>2, <3>1, <4>1, ActiveComesFromActive DEF RowsMove
    <3>2. \A t \in DOMAIN tasks : tasks'[t].dedupe = tasks[t].dedupe
      BY <2>2 DEF RowsMove, RowStep
    <3>3. DOMAIN tasks' = DOMAIN tasks
      BY <2>2 DEF RowsMove
    <3>4. QED
      BY <3>1, <3>2, <3>3 DEF OneActivePerDedupeKey
  <2>3. CASE RowIsAdded
    <3>1. PICK req \in Requests, parent \in TaskIds \cup {None} :
            /\ ~DedupeHit(req)
            /\ tasks' = Append(tasks, NewRow(req, parent))
      BY <2>3 DEF RowIsAdded
    <3>2. NewRow(req, parent).dedupe = req.dedupe
      BY DEF NewRow
    <3>3. \A t \in DOMAIN tasks :
            /\ req.dedupe # None
            /\ tasks[t].status \in ActiveDedupeStatuses
            => tasks[t].dedupe # req.dedupe
      BY <3>1 DEF DedupeHit
    <3>4. QED
      BY <3>1, <3>2, <3>3, AddedRow DEF OneActivePerDedupeKey
  <2>4. QED
    BY <2>1, <2>2, <2>3, StepsOnRows DEF queueVars
<1>3. QED
  BY <1>1, <1>2, TypeCorrect, PTL DEF QueueSpec

\* No task is lost, and an ended one can only be archived.
THEOREM EndedTasksStayEndedHolds == QueueSpec => EndedTasksStayEnded
<1> DEFINE Kept == \A t \in DOMAIN tasks :
                     /\ t \in DOMAIN tasks'
                     /\ tasks[t].status \in EndedStatuses =>
                          tasks'[t] \in {tasks[t], Moved(tasks[t], "Archived")}
<1>1. QueueTypeOK /\ [QueueNext]_queueVars => [Kept]_queueVars
  <2> SUFFICES ASSUME QueueTypeOK, [QueueNext]_queueVars
               PROVE  Kept
    OBVIOUS
  <2>1. CASE tasks' = tasks
    BY <2>1
  <2>2. CASE RowsMove
    <3> SUFFICES ASSUME NEW t \in DOMAIN tasks, tasks[t].status \in EndedStatuses,
                        tasks'[t] # tasks[t]
                 PROVE  tasks'[t] = Moved(tasks[t], "Archived")
      BY <2>2 DEF RowsMove
    <3>1. RowStep(tasks[t], tasks'[t])
      BY <2>2 DEF RowsMove
    <3>2. EnsureTransition(tasks[t].status, tasks'[t].status)
      BY <3>1 DEF RowStep
    <3>3. tasks'[t].status = "Archived"
      BY <3>2, EndedLeadsOnlyToArchived
    <3>4. tasks[t].status \notin {"Queued", "Running"}
      BY DEF EndedStatuses
    <3>5. QED
      BY <3>1, <3>3, <3>4 DEF RowStep
  <2>3. CASE RowIsAdded
    BY <2>3, AddedRow DEF RowIsAdded
  <2>4. QED
    BY <2>1, <2>2, <2>3, StepsOnRows DEF queueVars
<1>2. QED
  BY <1>1, TypeCorrect, PTL DEF QueueSpec, EndedTasksStayEnded
=============================================================================
