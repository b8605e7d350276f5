------------------------- MODULE TaskHistoryProofs -------------------------
(***************************************************************************)
(* What TLAPS proves of the queue's records: the task events tell the life *)
(* of every task, the outbox ends in its row, attempts and leases agree    *)
(* with the events, and a task has children only when it did not succeed.  *)
(*                                                                         *)
(* All of it follows from one fact about the steps of the queue: a step    *)
(* leaves a task and its events alone, or changes the task in one of the   *)
(* ways below and appends exactly one event, and one snapshot, that say so.*)
(***************************************************************************)
EXTENDS TaskQueueProofs, FunctionTheorems

-----------------------------------------------------------------------------
(***************************************************************************)
(* The changes of a task and what records them                             *)
(***************************************************************************)

\* Event e says what a lease, a recovery, a move or a creation does to task t.
Taken(t, e) ==
  /\ NextInLine(t)
  /\ e.from = "Queued" /\ e.to = "Running"
  /\ \E w \in Workers, expiry \in Nat :
       /\ tasks'[t] = Leased(tasks[t], w, expiry)
       /\ e.reason = [kind |-> "leased", by |-> w]

Lost(t, e) ==
  /\ tasks[t].status = "Running"
  /\ tasks'[t] = Recovered(tasks[t])
  /\ e.from = "Running" /\ e.to = RecoveredStatus(tasks[t])
  /\ e.reason.kind = "lease_expired"
  /\ tasks[t].lease \in Nat /\ tasks[t].lease < now

MovedOn(t, e) ==
  /\ EnsureTransition(tasks[t].status, e.to)
  /\ tasks'[t] = Moved(tasks[t], e.to)
  /\ e.from = tasks[t].status
  /\ e.reason \in CallerReasons

Born(t, e) ==
  /\ e.from = None
  /\ e.reason.kind \in {"created", "cloud_manual"}
  /\ tasks'[t].attempts = 0
  /\ tasks'[t].owner = None /\ tasks'[t].lease = None
  /\ e.to = tasks'[t].status /\ e.to # "Completed"
  /\ \A u \in DOMAIN tasks : u < t
  /\ tasks'[t].parent # None =>
       /\ tasks'[t].parent \in DOMAIN tasks
       /\ tasks[tasks'[t].parent].status \in RetryableStatuses

Written(t, e) ==
  IF t \in DOMAIN tasks THEN Taken(t, e) \/ Lost(t, e) \/ MovedOn(t, e)
                        ELSE Born(t, e)

\* Task t and its events are left alone.
Kept(t) ==
  /\ t \in DOMAIN tasks
  /\ tasks'[t] = tasks[t]
  /\ EventsOf(t)' = EventsOf(t)

\* Task t is written, and row i of the two logs, a new one, says how.
WrittenAs(t, i) ==
  /\ i \in DOMAIN taskEvents' /\ i \notin DOMAIN taskEvents /\ i \in Nat
  /\ EventsOf(t)' = EventsOf(t) \cup {i}
  /\ \A j \in EventsOf(t) : j < i
  /\ outbox'[i] = SnapshotOf(t, tasks'[t])
  /\ Written(t, taskEvents'[i])

\* Every task is one or the other, and both logs only grow.
Recorded ==
  /\ \A i \in DOMAIN taskEvents : /\ i \in DOMAIN taskEvents'
                                  /\ taskEvents'[i] = taskEvents[i]
                                  /\ outbox'[i] = outbox[i]
  /\ DOMAIN tasks \subseteq DOMAIN tasks'
  /\ \A t \in DOMAIN tasks' : Kept(t) \/ \E i \in DOMAIN taskEvents' : WrittenAs(t, i)

\* The outbox has a snapshot of the same task for every task event, and every
\* event is of a task there is.
LogsAgree ==
  /\ Len(outbox) = Len(taskEvents)
  /\ \A i \in DOMAIN taskEvents : /\ taskEvents[i].task \in DOMAIN tasks
                                  /\ outbox[i].task = taskEvents[i].task

\* The logs start at 1 and are as long as each other.
LEMMA LogTypes ==
  ASSUME QueueTypeOK, LogsAgree
  PROVE  /\ Len(taskEvents) \in Nat
         /\ DOMAIN taskEvents = 1..Len(taskEvents)
         /\ DOMAIN outbox = 1..Len(taskEvents)
         /\ Len(tasks) \in Nat /\ DOMAIN tasks = 1..Len(tasks)
BY LenProperties DEF QueueTypeOK, LogsAgree

\* A commit keeps the events there are and appends the new ones.
LEMMA CommitAppends ==
  ASSUME QueueTypeOK, NEW rows, NEW events, events \in Seq(EventRows),
         Commit(rows, events)
  PROVE  /\ tasks' = rows
         /\ DOMAIN taskEvents' = 1..(Len(taskEvents) + Len(events))
         /\ \A i \in DOMAIN taskEvents : taskEvents'[i] = taskEvents[i]
         /\ \A i \in 1..Len(events) : taskEvents'[Len(taskEvents) + i] = events[i]
<1>1. taskEvents \in Seq(EventRows) /\ taskEvents' = taskEvents \o events
  BY DEF QueueTypeOK, Commit
<1>2. tasks' = rows
  BY DEF Commit
<1>3. QED
  BY <1>1, <1>2, ConcatProperties, LenProperties

\* The snapshots are of the rows as they are committed.
LEMMA CommitAppendsSnapshots ==
  ASSUME QueueTypeOK, NEW rows, NEW events, events \in Seq(EventRows),
         Commit(rows, events)
  PROVE  /\ Len(outbox') = Len(outbox) + Len(events)
         /\ \A i \in DOMAIN outbox : outbox'[i] = outbox[i]
         /\ \A i \in 1..Len(events) :
              outbox'[Len(outbox) + i] = SnapshotOf(events[i].task, rows[events[i].task])
<1> DEFINE snap(i) == SnapshotOf(events[i].task, rows[events[i].task])
           snaps   == [i \in 1..Len(events) |-> snap(i)]
           Any     == {snap(i) : i \in 1..Len(events)} \cup Snapshots
<1>1. Len(events) \in Nat
  BY LenProperties
<1>2. \A i \in 1..Len(events) : snap(i) \in Any
  OBVIOUS
<1>3. outbox \in Seq(Any)
  BY DEF QueueTypeOK
<1>4. outbox' = outbox \o snaps
  BY DEF Commit
<1> HIDE DEF Any, snap
<1>5. snaps \in Seq(Any)
  BY <1>1, <1>2, IsASeq
<1>6. Len(snaps) = Len(events) /\ \A i \in 1..Len(events) : snaps[i] = snap(i)
  BY <1>1, <1>5, LenProperties
<1> HIDE DEF snaps
<1>7. /\ Len(outbox \o snaps) = Len(outbox) + Len(snaps)
      /\ \A i \in 1..(Len(outbox) + Len(snaps)) :
           (outbox \o snaps)[i] = IF i <= Len(outbox) THEN outbox[i]
                                                     ELSE snaps[i - Len(outbox)]
  BY <1>3, <1>5, ConcatProperties
<1>8. Len(outbox) \in Nat /\ DOMAIN outbox = 1..Len(outbox)
  BY <1>3, LenProperties
<1>9. \A i \in DOMAIN outbox : outbox'[i] = outbox[i]
  BY <1>1, <1>4, <1>6, <1>7, <1>8
<1>10. ASSUME NEW i \in 1..Len(events)
       PROVE  outbox'[Len(outbox) + i] = snap(i)
  <2>1. /\ Len(outbox) + i \in 1..(Len(outbox) + Len(snaps))
        /\ ~(Len(outbox) + i <= Len(outbox))
        /\ Len(outbox) + i - Len(outbox) = i
    BY <1>1, <1>6, <1>8
  <2>2. (outbox \o snaps)[Len(outbox) + i] = snaps[i]
    BY <1>7, <2>1
  <2>3. QED
    BY <1>4, <1>6, <2>2
<1>11. QED
  BY <1>4, <1>6, <1>7, <1>9, <1>10 DEF snap

\* A commit of rows and events in which each task has at most one event, and the
\* one it has says how its row has changed, is recorded.
LEMMA CommitIsRecorded ==
  ASSUME QueueTypeOK, LogsAgree, NEW rows, NEW events, events \in Seq(EventRows),
         Commit(rows, events),
         DOMAIN tasks \subseteq DOMAIN rows,
         \A i \in 1..Len(events) : events[i].task \in DOMAIN rows,
         \A i, j \in 1..Len(events) : events[i].task = events[j].task => i = j,
         \A t \in DOMAIN rows :
           \/ /\ t \in DOMAIN tasks /\ rows[t] = tasks[t]
              /\ \A i \in 1..Len(events) : events[i].task # t
           \/ \E i \in 1..Len(events) : events[i].task = t /\ Written(t, events[i])
  PROVE  LogsAgree' /\ Recorded
<1> DEFINE n == Len(taskEvents)
<1>1. /\ n \in Nat /\ DOMAIN taskEvents = 1..n
      /\ Len(outbox) = n /\ DOMAIN outbox = 1..n
      /\ Len(events) \in Nat
  BY LogTypes, LenProperties DEF LogsAgree
<1>2. /\ tasks' = rows
      /\ DOMAIN taskEvents' = 1..(n + Len(events))
      /\ \A i \in 1..n : taskEvents'[i] = taskEvents[i]
      /\ \A i \in 1..Len(events) : taskEvents'[n + i] = events[i]
  BY <1>1, CommitAppends
<1>3. /\ Len(outbox') = n + Len(events)
      /\ \A i \in 1..n : outbox'[i] = outbox[i]
      /\ \A i \in 1..Len(events) :
           outbox'[n + i] = SnapshotOf(events[i].task, tasks'[events[i].task])
  BY <1>1, <1>2, CommitAppendsSnapshots
<1>4. ASSUME NEW i \in DOMAIN taskEvents', i \notin 1..n
      PROVE  \E e \in 1..Len(events) : i = n + e
  <2>1. i - n \in 1..Len(events) /\ i = n + (i - n)
    BY <1>1, <1>2, <1>4
  <2>2. QED
    BY <2>1
<1>5. \A e \in 1..Len(events) : n + e \in DOMAIN taskEvents' /\ n + e \notin 1..n
  BY <1>1, <1>2
<1>6. LogsAgree'
  <2>1. Len(taskEvents') = n + Len(events)
    <3>1. taskEvents \in Seq(EventRows) /\ taskEvents' = taskEvents \o events
      BY DEF QueueTypeOK, Commit
    <3>2. QED
      BY <3>1, ConcatProperties
  <2>2. ASSUME NEW i \in DOMAIN taskEvents'
        PROVE  /\ taskEvents'[i].task \in DOMAIN tasks'
               /\ outbox'[i].task = taskEvents'[i].task
    <3>1. CASE i \in 1..n
      BY <1>1, <1>2, <1>3, <3>1 DEF LogsAgree
    <3>2. CASE i \notin 1..n
      <4>1. PICK e \in 1..Len(events) : i = n + e
        BY <1>4, <3>2
      <4>2. taskEvents'[i] = events[e]
        BY <1>2, <4>1
      <4>3. outbox'[i] = SnapshotOf(events[e].task, tasks'[events[e].task])
        BY <1>3, <4>1
      <4>4. QED
        BY <1>2, <4>2, <4>3 DEF SnapshotOf
    <3>3. QED
      BY <3>1, <3>2
  <2>3. QED
    BY <1>3, <2>1, <2>2 DEF LogsAgree
<1>7. ASSUME NEW t \in DOMAIN tasks'
      PROVE  Kept(t) \/ \E i \in DOMAIN taskEvents' : WrittenAs(t, i)
  <2>1. CASE /\ t \in DOMAIN tasks /\ rows[t] = tasks[t]
             /\ \A e \in 1..Len(events) : events[e].task # t
    <3>1. \A i \in DOMAIN taskEvents' : taskEvents'[i].task = t => i \in 1..n
      BY <1>2, <1>4, <2>1
    <3>2. EventsOf(t)' = EventsOf(t)
      BY <1>1, <1>2, <3>1 DEF EventsOf
    <3>3. QED
      BY <1>2, <2>1, <3>2 DEF Kept
  <2>2. ASSUME NEW e \in 1..Len(events), events[e].task = t, Written(t, events[e])
        PROVE  WrittenAs(t, n + e)
    <3>1. ASSUME NEW i \in DOMAIN taskEvents', taskEvents'[i].task = t, i \notin 1..n
          PROVE  i = n + e
      <4>1. PICK f \in 1..Len(events) : i = n + f
        BY <1>4, <3>1
      <4>2. events[f].task = events[e].task
        BY <1>2, <2>2, <3>1, <4>1
      <4>3. QED
        BY <4>1, <4>2
    <3>2. EventsOf(t)' = EventsOf(t) \cup {n + e}
      BY <1>1, <1>2, <1>5, <2>2, <3>1 DEF EventsOf
    <3>3. \A j \in EventsOf(t) : j < n + e
      BY <1>1 DEF EventsOf
    <3>4. taskEvents'[n + e] = events[e] /\ outbox'[n + e] = SnapshotOf(t, tasks'[t])
      BY <1>2, <1>3, <2>2
    <3>5. QED
      BY <1>1, <1>5, <2>2, <3>2, <3>3, <3>4 DEF WrittenAs
  <2>3. QED
    BY <1>2, <1>5, <2>1, <2>2
<1>8. QED
  BY <1>1, <1>2, <1>3, <1>5, <1>6, <1>7 DEF Recorded

\* A commit that rewrites one row and records it.
LEMMA OneWriteIsRecorded ==
  ASSUME QueueTypeOK, LogsAgree,
         NEW t \in DOMAIN tasks, NEW row, NEW event \in EventRows, event.task = t,
         Commit([tasks EXCEPT ![t] = row], <<event>>), Written(t, event)
  PROVE  LogsAgree' /\ Recorded
<1>1. /\ <<event>> \in Seq(EventRows)
      /\ Len(<<event>>) = 1
      /\ <<event>>[1] = event
  OBVIOUS
<1> DEFINE rows == [tasks EXCEPT ![t] = row]
           events == <<event>>
<1>2. /\ DOMAIN rows = DOMAIN tasks
      /\ \A u \in DOMAIN tasks : u # t => rows[u] = tasks[u]
  OBVIOUS
<1> HIDE DEF rows, events
<1>3. \A i \in 1..Len(events) : i = 1 /\ events[i] = event
  BY <1>1 DEF events
<1>4. 1 \in 1..Len(events)
  BY <1>1 DEF events
<1>5. ASSUME NEW u \in DOMAIN rows
      PROVE  \/ /\ u \in DOMAIN tasks /\ rows[u] = tasks[u]
                /\ \A i \in 1..Len(events) : events[i].task # u
             \/ \E i \in 1..Len(events) : events[i].task = u /\ Written(u, events[i])
  <2>1. CASE u = t
    BY <1>3, <1>4, <2>1
  <2>2. CASE u # t
    BY <1>2, <1>3, <2>2
  <2>3. QED
    BY <2>1, <2>2
<1>6. Commit(rows, events) /\ events \in Seq(EventRows)
  BY <1>1 DEF rows, events
<1>7. QED
  BY <1>2, <1>3, <1>5, <1>6, CommitIsRecorded

-----------------------------------------------------------------------------
(***************************************************************************)
(* Every operation is recorded                                             *)
(***************************************************************************)

\* lease_next.
LEMMA LeaseIsRecorded ==
  ASSUME QueueTypeOK, LogsAgree, NEW w \in Workers, NEW at \in Nat, LeaseNext(w, at)
  PROVE  LogsAgree' /\ Recorded
<1> DEFINE event(t) == EventOf(t, "Queued", "Running", [kind |-> "leased", by |-> w])
           row(t)   == Leased(tasks[t], w, at + LeaseSeconds)
<1>1. PICK t \in DOMAIN tasks :
        NextInLine(t) /\ Commit([tasks EXCEPT ![t] = row(t)], <<event(t)>>)
  BY DEF LeaseNext
<1>2. event(t) \in EventRows
  <2>1. t \in TaskIds
    BY RowTypes
  <2>2. QED
    BY <2>1 DEF EventOf, EventRows, Reasons, Status
<1>3. Written(t, event(t))
  <2>1. at + LeaseSeconds \in Nat
    BY QueueAssumption
  <2>2. tasks'[t] = row(t)
    BY <1>1 DEF Commit
  <2>3. QED
    BY <1>1, <2>1, <2>2 DEF Written, Taken, EventOf
<1>4. event(t).task = t
  BY DEF EventOf
<1> HIDE DEF event, row
<1>5. QED
  BY <1>1, <1>2, <1>3, <1>4, OneWriteIsRecorded

\* transition.
LEMMA TransitionIsRecorded ==
  ASSUME QueueTypeOK, LogsAgree,
         NEW t, NEW target \in Status, NEW reason \in CallerReasons,
         Transition(t, target, reason)
  PROVE  LogsAgree' /\ Recorded
<1> DEFINE event == EventOf(t, tasks[t].status, target, reason)
           row   == Moved(tasks[t], target)
<1>1. t \in DOMAIN tasks
  BY DEF Transition
<1>2. tasks[t] \in TaskRows /\ t \in TaskIds
  BY <1>1, RowTypes
<1>3. event \in EventRows /\ event.task = t
  BY <1>2 DEF EventOf, EventRows, Reasons, TaskRows
<1>4. Commit([tasks EXCEPT ![t] = row], <<event>>)
  BY DEF Transition
<1>5. Written(t, event)
  <2>1. tasks'[t] = row
    BY <1>1, <1>4 DEF Commit
  <2>2. EnsureTransition(tasks[t].status, target)
    BY DEF Transition
  <2>3. QED
    BY <1>1, <2>1, <2>2 DEF Written, MovedOn, EventOf
<1> HIDE DEF event, row
<1>6. QED
  BY <1>1, <1>3, <1>4, <1>5, OneWriteIsRecorded

\* create and retry: the parent, when there is one, has failed or was cancelled.
LEMMA CreateIsRecorded ==
  ASSUME QueueTypeOK, LogsAgree, NEW req \in Requests,
         NEW parent \in TaskIds \cup {None}, CreateInTransaction(req, parent),
         parent # None =>
           parent \in DOMAIN tasks /\ tasks[parent].status \in RetryableStatuses
  PROVE  LogsAgree' /\ Recorded
<1> DEFINE id     == Len(tasks) + 1
           row    == NewRow(req, parent)
           event  == EventOf(id, None, row.status, CreationReason(req))
           rows   == Append(tasks, row)
           events == <<event>>
<1>1. Len(tasks) \in Nat /\ DOMAIN tasks = 1..Len(tasks)
  BY LogTypes
<1>2. row \in TaskRows
  BY DEF NewRow, TaskRows, Requests, Status
<1>3. event \in EventRows
  <2>1. id \in TaskIds
    BY <1>1, QueueAssumption DEF CreateInTransaction, TaskIds
  <2>2. CreationReason(req) \in Reasons
    BY DEF CreationReason, Reasons
  <2>3. row.status \in Status
    BY <1>2 DEF TaskRows
  <2>4. QED
    BY <2>1, <2>2, <2>3 DEF EventOf, EventRows
<1>4. Commit(rows, events)
  BY DEF CreateInTransaction
<1>5. /\ rows[id] = row /\ DOMAIN rows = DOMAIN tasks \cup {id}
      /\ id \notin DOMAIN tasks
      /\ \A t \in DOMAIN tasks : rows[t] = tasks[t] /\ t < id
  <2>1. tasks \in Seq(TaskRows)
    BY DEF QueueTypeOK
  <2> HIDE DEF row
  <2>2. QED
    BY <1>1, <1>2, <2>1, AppendProperties, LenProperties
<1>6. tasks' = rows
  BY <1>4 DEF Commit
<1>7. /\ events \in Seq(EventRows) /\ 1 \in 1..Len(events)
      /\ \A i \in 1..Len(events) : i = 1 /\ events[i] = event
  BY <1>3
<1>8. /\ event.task = id
      /\ Born(id, event)
  <2>1. /\ row.attempts = 0 /\ row.owner = None /\ row.lease = None
        /\ row.parent = parent
        /\ row.status # "Completed"
    BY DEF NewRow
  <2>2. /\ event.from = None /\ event.to = row.status /\ event.task = id
        /\ event.reason.kind \in {"created", "cloud_manual"}
    BY DEF EventOf, CreationReason
  <2> HIDE DEF row, event, rows
  <2>3. QED
    BY <1>5, <1>6, <2>1, <2>2 DEF Born
<1> HIDE DEF rows, events, event, row
<1>9. ASSUME NEW t \in DOMAIN rows
      PROVE  \/ /\ t \in DOMAIN tasks /\ rows[t] = tasks[t]
                /\ \A i \in 1..Len(events) : events[i].task # t
             \/ \E i \in 1..Len(events) : events[i].task = t /\ Written(t, events[i])
  <2>1. CASE t = id
    <3>1. events[1].task = t /\ Written(t, events[1])
      BY <1>5, <1>7, <1>8, <2>1 DEF Written
    <3>2. QED
      BY <1>7, <3>1
  <2>2. CASE t # id
    BY <1>5, <1>7, <1>8, <2>2
  <2>3. QED
    BY <2>1, <2>2
<1>10. QED
  BY <1>4, <1>5, <1>7, <1>8, <1>9, CommitIsRecorded

\* An order of leases lists each task once.
LEMMA LeaseOrdersAreInjective ==
  ASSUME NEW S, IsFiniteSet(S), NEW order \in LeaseOrders(S)
  PROVE  /\ Cardinality(S) \in Nat
         /\ \A i \in 1..Cardinality(S) : order[i] \in S
         /\ \A t \in S : \E i \in 1..Cardinality(S) : order[i] = t
         /\ \A i, j \in 1..Cardinality(S) : order[i] = order[j] => i = j
<1> DEFINE n == Cardinality(S)
<1>1. n \in Nat
  BY FS_CardinalityType
<1>2. order \in [1..n -> S] /\ \A t \in S : \E i \in 1..n : order[i] = t
  BY DEF LeaseOrders
<1>3. IsFiniteSet(1..n) /\ Cardinality(1..n) = n
  BY <1>1, FS_Interval
<1> HIDE DEF n
<1>4. order \in Surjection(1..n, S)
  BY <1>2, Fun_IsSurj
<1>5. order \in Injection(1..n, S)
  <2>1. Cardinality(1..n) = Cardinality(S)
    BY <1>3 DEF n
  <2>2. QED
    BY <1>3, <1>4, <2>1, FS_SurjSameCardinalityImpliesInj
<1>6. \A i, j \in 1..n : order[i] = order[j] => i = j
  BY <1>5, Fun_InjectionProperties
<1>7. QED
  BY <1>1, <1>2, <1>6 DEF n

\* recover_expired_leases commits one event for each task whose lease has expired.
LostEvent(t) == EventOf(t, "Running", RecoveredStatus(tasks[t]),
                        [kind |-> "lease_expired", by |-> None])

RecoveredRows(at) ==
  [t \in DOMAIN tasks |-> IF t \in Expired(at) THEN Recovered(tasks[t]) ELSE tasks[t]]

LEMMA RecoveryCommits ==
  ASSUME QueueTypeOK, NEW at, RecoverExpiredLeases(at)
  PROVE  \E events \in Seq(EventRows) :
           /\ Commit(RecoveredRows(at), events)
           /\ \A i \in 1..Len(events) : /\ events[i].task \in Expired(at)
                                        /\ events[i] = LostEvent(events[i].task)
           /\ \A t \in Expired(at) : \E i \in 1..Len(events) : events[i].task = t
           /\ \A i, j \in 1..Len(events) : events[i].task = events[j].task => i = j
<1> DEFINE lost == Expired(at)
           n    == Cardinality(lost)
<1>1. PICK order \in LeaseOrders(lost) :
        Commit(RecoveredRows(at), [i \in 1..n |-> LostEvent(order[i])])
  BY DEF RecoverExpiredLeases, RecoveredRows, LostEvent
<1> DEFINE events == [i \in 1..n |-> LostEvent(order[i])]
<1>2. lost \subseteq DOMAIN tasks /\ IsFiniteSet(lost)
  <2>1. IsFiniteSet(DOMAIN tasks)
    BY FS_Interval, LenProperties DEF QueueTypeOK
  <2>2. lost \subseteq DOMAIN tasks
    BY DEF Expired
  <2>3. QED
    BY <2>1, <2>2, FS_Subset
<1>3. ASSUME NEW t \in lost
      PROVE  LostEvent(t) \in EventRows /\ LostEvent(t).task = t
  <2>1. t \in TaskIds /\ tasks[t] \in TaskRows
    BY <1>2, RowTypes
  <2>2. RecoveredStatus(tasks[t]) \in Status
    BY <2>1, RecoveredTypes
  <2>3. QED
    BY <2>1, <2>2 DEF LostEvent, EventOf, EventRows, Reasons, Status
<1> HIDE DEF lost
<1>4. /\ n \in Nat
      /\ \A i \in 1..n : order[i] \in lost
      /\ \A t \in lost : \E i \in 1..n : order[i] = t
      /\ \A i, j \in 1..n : order[i] = order[j] => i = j
  BY <1>1, <1>2, LeaseOrdersAreInjective
<1> HIDE DEF n
<1>5. \A i \in 1..n : LostEvent(order[i]) \in EventRows
  BY <1>3, <1>4
<1>6. /\ events \in Seq(EventRows) /\ Len(events) = n
      /\ \A i \in 1..n : events[i] = LostEvent(order[i])
  <2>1. events \in Seq(EventRows)
    BY <1>4, <1>5, IsASeq
  <2>2. QED
    BY <1>4, <2>1, LenProperties
<1>7. Commit(RecoveredRows(at), events)
  BY <1>1
<1> HIDE DEF events
<1>8. \A i \in 1..n : events[i].task = order[i]
  BY <1>3, <1>4, <1>6
<1>9. /\ \A i \in 1..Len(events) : /\ events[i].task \in lost
                                   /\ events[i] = LostEvent(events[i].task)
      /\ \A t \in lost : \E i \in 1..Len(events) : events[i].task = t
      /\ \A i, j \in 1..Len(events) : events[i].task = events[j].task => i = j
  BY <1>4, <1>6, <1>8
<1>10. QED
  BY <1>6, <1>7, <1>9 DEF lost

\* The recovery of leases is recorded.
LEMMA RecoveryIsRecorded ==
  ASSUME QueueTypeOK, LogsAgree, NEW at \in RecentTimes, RecoverExpiredLeases(at)
  PROVE  LogsAgree' /\ Recorded
<1> DEFINE lost == Expired(at)
           rows == RecoveredRows(at)
<1>1. PICK events \in Seq(EventRows) :
        /\ Commit(rows, events)
        /\ \A i \in 1..Len(events) : /\ events[i].task \in lost
                                     /\ events[i] = LostEvent(events[i].task)
        /\ \A t \in lost : \E i \in 1..Len(events) : events[i].task = t
        /\ \A i, j \in 1..Len(events) : events[i].task = events[j].task => i = j
  BY RecoveryCommits
<1>2. lost \subseteq DOMAIN tasks
  BY DEF Expired
<1>3. /\ tasks' = rows /\ DOMAIN rows = DOMAIN tasks
      /\ \A t \in DOMAIN tasks :
           rows[t] = IF t \in lost THEN Recovered(tasks[t]) ELSE tasks[t]
  BY <1>1 DEF Commit, RecoveredRows
<1>4. ASSUME NEW t \in lost
      PROVE  Written(t, LostEvent(t))
  <2>1. tasks[t] \in TaskRows
    BY <1>2, RowTypes
  <2>2. tasks'[t] = Recovered(tasks[t])
    BY <1>2, <1>3
  <2>3. /\ tasks[t].status = "Running"
        /\ tasks[t].lease # None /\ tasks[t].lease < at
        /\ tasks[t].lease \in Nat
    BY <2>1 DEF Expired, TaskRows
  <2>4. tasks[t].lease < now
    BY <2>3, QueueAssumption DEF RecentTimes, QueueTypeOK
  <2>5. Lost(t, LostEvent(t))
    BY <2>2, <2>3, <2>4 DEF Lost, LostEvent, EventOf
  <2>6. QED
    BY <1>2, <2>5 DEF Written
<1> HIDE DEF lost, rows
<1>5. ASSUME NEW t \in DOMAIN rows
      PROVE  \/ /\ t \in DOMAIN tasks /\ rows[t] = tasks[t]
                /\ \A i \in 1..Len(events) : events[i].task # t
             \/ \E i \in 1..Len(events) : events[i].task = t /\ Written(t, events[i])
  <2>1. CASE t \in lost
    <3>1. PICK i \in 1..Len(events) : events[i].task = t
      BY <1>1, <2>1
    <3>2. events[i] = LostEvent(t)
      BY <1>1, <3>1
    <3>3. QED
      BY <1>4, <2>1, <3>1, <3>2
  <2>2. CASE t \notin lost
    BY <1>1, <1>3, <2>2
  <2>3. QED
    BY <2>1, <2>2
<1>6. \A i \in 1..Len(events) : events[i].task \in DOMAIN rows
  BY <1>1, <1>2, <1>3
<1>7. QED
  BY <1>1, <1>3, <1>5, <1>6, CommitIsRecorded

\* So every step of the queue is recorded; the clock writes nothing.
LEMMA StepIsRecorded ==
  ASSUME QueueTypeOK, LogsAgree, [QueueNext]_queueVars
  PROVE  LogsAgree' /\ Recorded
<1>1. ASSUME NEW req \in Requests, Create(req) PROVE LogsAgree' /\ Recorded
  BY <1>1, CreateIsRecorded DEF Create
<1>2. ASSUME NEW t \in TaskIds, Retry(t) PROVE LogsAgree' /\ Recorded
  <2>1. /\ RetryRequest(tasks[t]) \in Requests
        /\ CreateInTransaction(RetryRequest(tasks[t]), t)
        /\ t \in DOMAIN tasks /\ tasks[t].status \in RetryableStatuses
    BY <1>2, RowTypes, RetryRequestTypes DEF Retry
  <2>2. QED
    BY <2>1, CreateIsRecorded
<1>3. ASSUME NEW w \in Workers, NEW at \in RecentTimes, LeaseNext(w, at)
      PROVE  LogsAgree' /\ Recorded
  BY <1>3, LeaseIsRecorded, RecentTimesAreTimes
<1>4. ASSUME NEW at \in RecentTimes, RecoverExpiredLeases(at)
      PROVE  LogsAgree' /\ Recorded
  BY <1>4, RecoveryIsRecorded
<1>5. ASSUME NEW t \in TaskIds, NEW target \in Status, NEW reason \in CallerReasons,
             Transition(t, target, reason)
      PROVE  LogsAgree' /\ Recorded
  BY <1>5, TransitionIsRecorded
<1>6. CASE UNCHANGED <<tasks, taskEvents, outbox>>
  BY <1>6 DEF LogsAgree, Recorded, Kept, EventsOf
<1>7. QED
  BY <1>1, <1>2, <1>3, <1>4, <1>5, <1>6 DEF QueueNext, Tick, queueVars

\* The two logs agree in every reachable state.
THEOREM LogsAgreeAlways == QueueSpec => []LogsAgree
<1>1. QueueInit => LogsAgree
  BY DEF QueueInit, LogsAgree
<1>2. QueueTypeOK /\ LogsAgree /\ [QueueNext]_queueVars => LogsAgree'
  BY StepIsRecorded
<1>3. QED
  BY <1>1, <1>2, TypeCorrect, PTL DEF QueueSpec

-----------------------------------------------------------------------------
(***************************************************************************)
(* The history of a task                                                   *)
(***************************************************************************)

\* What every recorded change of a task has in common: its event leads from the
\* status the task had, if it was there, to the one it has now.
LEMMA WrittenEvents ==
  ASSUME QueueTypeOK, NEW t \in DOMAIN tasks', NEW e, Written(t, e)
  PROVE  /\ e.to = tasks'[t].status
         /\ t \notin DOMAIN tasks => e.from = None
         /\ t \in DOMAIN tasks => /\ e.from = tasks[t].status
                                  /\ EnsureTransition(e.from, e.to)
<1>1. CASE t \notin DOMAIN tasks
  BY <1>1 DEF Written, Born
<1>2. CASE t \in DOMAIN tasks
  <2>1. tasks[t] \in TaskRows
    BY <1>2, RowTypes
  <2>2. CASE Taken(t, e)
    <3>1. tasks[t].status = "Queued" /\ tasks'[t].status = "Running"
      BY <2>1, <2>2 DEF Taken, NextInLine, Queued, Leased, TaskRows
    <3>2. EnsureTransition("Queued", "Running")
      BY DEF EnsureTransition, AllowedTransitions
    <3>3. QED
      BY <1>2, <2>2, <3>1, <3>2 DEF Taken
  <2>3. CASE Lost(t, e)
    <3>1. tasks'[t].status = RecoveredStatus(tasks[t])
      BY <2>1, <2>3 DEF Lost, Recovered, TaskRows
    <3>2. EnsureTransition("Running", RecoveredStatus(tasks[t]))
      BY DEF EnsureTransition, AllowedTransitions, RecoveredStatus
    <3>3. QED
      BY <1>2, <2>3, <3>1, <3>2 DEF Lost
  <2>4. CASE MovedOn(t, e)
    BY <1>2, <2>1, <2>4 DEF MovedOn, Moved, TaskRows
  <2>5. QED
    BY <1>2, <2>2, <2>3, <2>4 DEF Written
<1>3. QED
  BY <1>1, <1>2

\* A task that is not there has no events.
LEMMA NoEventsBeforeBirth ==
  ASSUME LogsAgree, NEW t, t \notin DOMAIN tasks
  PROVE  EventsOf(t) = {}
BY DEF LogsAgree, EventsOf

\* The events of a task are positions of the log, and keep what they say.
LEMMA EventsAreKept ==
  ASSUME QueueTypeOK, LogsAgree, Recorded, NEW t
  PROVE  /\ EventsOf(t) \subseteq Nat
         /\ \A i \in EventsOf(t) : taskEvents'[i] = taskEvents[i]
BY LogTypes DEF EventsOf, Recorded

\* The invariant: the last event of a task ends in its status, and each event
\* starts where the one before it ended.
LastEventTells(t) ==
  \E l \in EventsOf(t) : /\ \A j \in EventsOf(t) : j <= l
                         /\ taskEvents[l].to = tasks[t].status

Continued(t, i) ==
  \/ taskEvents[i].from = None /\ \A j \in EventsOf(t) : i <= j
  \/ \E j \in EventsOf(t) :
       /\ j < i
       /\ \A k \in EventsOf(t) : k <= j \/ k >= i
       /\ taskEvents[j].to = taskEvents[i].from
       /\ EnsureTransition(taskEvents[j].to, taskEvents[i].to)

HistoryInv ==
  \A t \in DOMAIN tasks : LastEventTells(t) /\ \A i \in EventsOf(t) : Continued(t, i)

\* A recorded step keeps it.
LEMMA HistoryInvStep ==
  ASSUME QueueTypeOK, LogsAgree, HistoryInv, Recorded
  PROVE  HistoryInv'
<1> SUFFICES ASSUME NEW t \in DOMAIN tasks'
             PROVE  /\ LastEventTells(t)'
                    /\ \A k \in EventsOf(t)' : Continued(t, k)'
  BY DEF HistoryInv
<1>1. /\ EventsOf(t) \subseteq Nat
      /\ \A i \in EventsOf(t) : taskEvents'[i] = taskEvents[i]
  BY EventsAreKept
<1>2. CASE Kept(t)
  BY <1>1, <1>2 DEF Kept, HistoryInv, LastEventTells, Continued
<1>3. ASSUME NEW i \in DOMAIN taskEvents', WrittenAs(t, i)
      PROVE  LastEventTells(t)' /\ \A k \in EventsOf(t)' : Continued(t, k)'
  <2>1. /\ EventsOf(t)' = EventsOf(t) \cup {i}
        /\ \A j \in EventsOf(t) : j < i
        /\ Written(t, taskEvents'[i])
    BY <1>3 DEF WrittenAs
  <2>2. i \in Nat
    BY <1>3 DEF WrittenAs
  <2>3. LastEventTells(t)'
    BY <1>1, <2>1, <2>2, WrittenEvents DEF LastEventTells
  <2>4. ASSUME NEW k \in EventsOf(t) PROVE Continued(t, k)'
    <3>1. Continued(t, k)
      BY <2>4, NoEventsBeforeBirth DEF HistoryInv
    <3>2. k < i
      BY <2>1
    <3>3. CASE taskEvents[k].from = None /\ \A j \in EventsOf(t) : k <= j
      BY <1>1, <2>1, <2>2, <3>2, <3>3 DEF Continued
    <3>4. CASE \E j \in EventsOf(t) :
                 /\ j < k
                 /\ \A m \in EventsOf(t) : m <= j \/ m >= k
                 /\ taskEvents[j].to = taskEvents[k].from
                 /\ EnsureTransition(taskEvents[j].to, taskEvents[k].to)
      BY <1>1, <2>1, <2>2, <3>2, <3>4 DEF Continued
    <3>5. QED
      BY <3>1, <3>3, <3>4 DEF Continued
  <2>5. Continued(t, i)'
    <3>1. CASE t \in DOMAIN tasks
      <4>1. PICK l \in EventsOf(t) : /\ \A j \in EventsOf(t) : j <= l
                                     /\ taskEvents[l].to = tasks[t].status
        BY <3>1 DEF HistoryInv, LastEventTells
      <4>2. taskEvents'[l].to = tasks[t].status
        BY <1>1, <4>1
      <4>3. /\ taskEvents'[i].from = tasks[t].status
            /\ EnsureTransition(tasks[t].status, taskEvents'[i].to)
        BY <2>1, <3>1, WrittenEvents
      <4>4. l < i /\ l \in EventsOf(t)' /\ \A k \in EventsOf(t)' : k <= l \/ k >= i
        BY <1>1, <2>1, <2>2, <4>1
      <4>5. QED
        BY <4>2, <4>3, <4>4 DEF Continued
    <3>2. CASE t \notin DOMAIN tasks
      <4>1. EventsOf(t)' = {i} /\ taskEvents'[i].from = None
        BY <2>1, <3>2, NoEventsBeforeBirth, WrittenEvents
      <4>2. QED
        BY <2>2, <4>1 DEF Continued
    <3>3. QED
      BY <3>1, <3>2
  <2>6. QED
    BY <2>1, <2>3, <2>4, <2>5
<1>4. QED
  BY <1>2, <1>3 DEF Recorded

\* The task events tell every task's life without a gap, up to its status.
THEOREM HistoryExplainsStatusHolds == QueueSpec => []HistoryExplainsStatus
<1>1. QueueInit => HistoryInv
  BY DEF QueueInit, HistoryInv
<1>2. QueueTypeOK /\ LogsAgree /\ HistoryInv /\ [QueueNext]_queueVars => HistoryInv'
  BY StepIsRecorded, HistoryInvStep
<1>3. QueueTypeOK /\ LogsAgree /\ HistoryInv => HistoryExplainsStatus
  <2> SUFFICES ASSUME QueueTypeOK, LogsAgree, HistoryInv, NEW t \in DOMAIN tasks
               PROVE  /\ EventsOf(t) # {}
                      /\ \A i \in EventsOf(t) : Continued(t, i)
                      /\ \A i \in EventsOf(t) :
                           IsLastEvent(i, t) => taskEvents[i].to = tasks[t].status
    BY DEF HistoryExplainsStatus, Continued
  <2>1. EventsOf(t) \subseteq Nat
    BY LogTypes DEF EventsOf
  <2>2. PICK l \in EventsOf(t) : /\ \A j \in EventsOf(t) : j <= l
                                 /\ taskEvents[l].to = tasks[t].status
    BY DEF HistoryInv, LastEventTells
  <2>3. \A i \in EventsOf(t) : IsLastEvent(i, t) => i = l
    BY <2>1, <2>2 DEF IsLastEvent
  <2>4. QED
    BY <2>2, <2>3 DEF HistoryInv
<1>4. QED
  BY <1>1, <1>2, <1>3, TypeCorrect, LogsAgreeAlways, PTL DEF QueueSpec

\* A desktop that has applied the outbox shows what the queue holds: the last
\* snapshot of each task is its row.
THEOREM SnapshotsAreCurrentHolds == QueueSpec => []SnapshotsAreCurrent
<1> DEFINE Current(t, i) == /\ outbox[i] = SnapshotOf(t, tasks[t])
                            /\ \A j \in EventsOf(t) : j <= i
           Inv == \A t \in DOMAIN tasks : \E i \in EventsOf(t) : Current(t, i)
<1>1. QueueInit => Inv
  BY DEF QueueInit
<1>2. QueueTypeOK /\ LogsAgree /\ Inv /\ [QueueNext]_queueVars => Inv'
  <2> SUFFICES ASSUME QueueTypeOK, LogsAgree, Inv, Recorded, NEW t \in DOMAIN tasks'
               PROVE  \E i \in EventsOf(t)' : Current(t, i)'
    BY StepIsRecorded
  <2>1. CASE Kept(t)
    <3>1. PICK i \in EventsOf(t) : Current(t, i)
      BY <2>1 DEF Kept
    <3>2. outbox'[i] = outbox[i]
      BY DEF Recorded, EventsOf
    <3>3. Current(t, i)'
      BY <2>1, <3>1, <3>2 DEF Kept, SnapshotOf
    <3>4. QED
      BY <2>1, <3>3 DEF Kept
  <2>2. ASSUME NEW i \in DOMAIN taskEvents', WrittenAs(t, i)
        PROVE  i \in EventsOf(t)' /\ Current(t, i)'
    <3>1. EventsOf(t) \subseteq Nat
      BY EventsAreKept
    <3>2. QED
      BY <2>2, <3>1 DEF WrittenAs, SnapshotOf
  <2>3. QED
    BY <2>1, <2>2 DEF Recorded
<1>3. QueueTypeOK /\ LogsAgree /\ Inv => SnapshotsAreCurrent
  <2> SUFFICES ASSUME QueueTypeOK, LogsAgree, Inv, NEW t \in DOMAIN tasks
               PROVE  \E i \in DOMAIN outbox :
                        /\ outbox[i] = SnapshotOf(t, tasks[t])
                        /\ \A j \in DOMAIN outbox : outbox[j].task = t => j <= i
    BY DEF SnapshotsAreCurrent
  <2>1. PICK i \in EventsOf(t) : Current(t, i)
    OBVIOUS
  <2>2. \A j \in DOMAIN outbox : outbox[j].task = t => j \in EventsOf(t)
    BY LogTypes DEF LogsAgree, EventsOf
  <2>3. i \in DOMAIN outbox
    BY LogTypes DEF EventsOf
  <2>4. QED
    BY <2>1, <2>2, <2>3
<1>4. QED
  BY <1>1, <1>2, <1>3, TypeCorrect, LogsAgreeAlways, PTL DEF QueueSpec

\* attempt_count is the number of leases the task events record.
AttemptsCountLeases ==
  \A t \in DOMAIN tasks : tasks[t].attempts = Cardinality(Leases(t))

\* The leases of a task are finitely many events, and a written task has one more
\* exactly when its event is a lease.
LEMMA LeasesOfWritten ==
  ASSUME QueueTypeOK, LogsAgree, Recorded, NEW t, NEW i \in DOMAIN taskEvents',
         WrittenAs(t, i)
  PROVE  /\ Cardinality(Leases(t)) \in Nat
         /\ Cardinality(Leases(t)') =
              IF taskEvents'[i].reason.kind = "leased" THEN Cardinality(Leases(t)) + 1
                                                       ELSE Cardinality(Leases(t))
<1>1. /\ EventsOf(t)' = EventsOf(t) \cup {i} /\ i \notin EventsOf(t)
      /\ \A j \in EventsOf(t) : taskEvents'[j] = taskEvents[j]
  BY EventsAreKept DEF WrittenAs, EventsOf
<1>2. IsFiniteSet(Leases(t)) /\ i \notin Leases(t)
  <2>1. IsFiniteSet(1..Len(taskEvents)) /\ Leases(t) \subseteq 1..Len(taskEvents)
    BY FS_Interval, LogTypes DEF Leases, EventsOf
  <2>2. QED
    BY <1>1, <2>1, FS_Subset DEF Leases
<1>3. CASE taskEvents'[i].reason.kind = "leased"
  <2>1. Leases(t)' = Leases(t) \cup {i}
    BY <1>1, <1>3 DEF Leases
  <2>2. QED
    BY <1>2, <1>3, <2>1, FS_AddElement, FS_CardinalityType
<1>4. CASE taskEvents'[i].reason.kind # "leased"
  <2>1. Leases(t)' = Leases(t)
    BY <1>1, <1>4 DEF Leases
  <2>2. QED
    BY <1>2, <1>4, <2>1, FS_CardinalityType
<1>5. QED
  BY <1>3, <1>4

\* Every lease counts as an attempt, and nothing else does.
THEOREM AttemptsCountLeasesHolds == QueueSpec => []AttemptsCountLeases
<1> DEFINE Inv == \A t \in DOMAIN tasks : tasks[t].attempts = Cardinality(Leases(t))
<1>1. QueueInit => Inv
  BY DEF QueueInit
<1>2. QueueTypeOK /\ LogsAgree /\ Inv /\ [QueueNext]_queueVars => Inv'
  <2> SUFFICES ASSUME QueueTypeOK, LogsAgree, Inv, Recorded, NEW t \in DOMAIN tasks'
               PROVE  tasks'[t].attempts = Cardinality(Leases(t)')
    BY StepIsRecorded
  <2>1. CASE Kept(t)
    <3>1. Leases(t)' = Leases(t)
      BY <2>1, EventsAreKept DEF Kept, Leases
    <3>2. QED
      BY <2>1, <3>1 DEF Kept
  <2>2. ASSUME NEW i \in DOMAIN taskEvents', WrittenAs(t, i)
        PROVE  tasks'[t].attempts = Cardinality(Leases(t)')
    <3> DEFINE e == taskEvents'[i]
    <3>1. Written(t, e)
      BY <2>2 DEF WrittenAs
    <3>2. CASE t \notin DOMAIN tasks
      <4>1. Cardinality(Leases(t)) = 0
        BY <3>2, NoEventsBeforeBirth, FS_EmptySet DEF Leases
      <4>2. tasks'[t].attempts = 0 /\ e.reason.kind # "leased"
        BY <3>1, <3>2 DEF Written, Born
      <4>3. QED
        BY <2>2, <4>1, <4>2, LeasesOfWritten
    <3>3. CASE t \in DOMAIN tasks
      <4>1. tasks[t] \in TaskRows /\ tasks[t].attempts = Cardinality(Leases(t))
        BY <3>3, RowTypes
      <4>2. CASE Taken(t, e)
        <5>1. tasks'[t].attempts = tasks[t].attempts + 1 /\ e.reason.kind = "leased"
          BY <4>1, <4>2 DEF Taken, Leased, TaskRows
        <5>2. QED
          BY <2>2, <4>1, <5>1, LeasesOfWritten
      <4>3. CASE Lost(t, e) \/ MovedOn(t, e)
        <5>1. tasks'[t].attempts = tasks[t].attempts
          BY <4>1, <4>3 DEF Lost, MovedOn, Recovered, Moved, TaskRows
        <5>2. e.reason.kind # "leased"
          BY <4>3, QueueAssumption DEF Lost, MovedOn
        <5>3. QED
          BY <2>2, <4>1, <5>1, <5>2, LeasesOfWritten
      <4>4. QED
        BY <3>1, <3>3, <4>2, <4>3 DEF Written
    <3>4. QED
      BY <3>2, <3>3
  <2>3. QED
    BY <2>1, <2>2 DEF Recorded
<1>3. Inv => AttemptsCountLeases
  BY DEF AttemptsCountLeases
<1>4. QED
  BY <1>1, <1>2, <1>3, TypeCorrect, LogsAgreeAlways, PTL DEF QueueSpec

\* The lost leases of a task have failed it or not by the leases before them.
LostByCount(t, i) ==
  taskEvents[i].reason.kind = "lease_expired" =>
    ((taskEvents[i].to = "Failed") <=>
       Cardinality({j \in Leases(t) : j < i}) >= tasks[t].maxAttempts)

LostInv == \A t \in DOMAIN tasks : \A i \in EventsOf(t) : LostByCount(t, i)

\* A recorded step leaves the events of a task there are as they were, and judges
\* a lost lease by the attempts the row has counted.
LEMMA LostInvStep ==
  ASSUME QueueTypeOK, LogsAgree, AttemptsCountLeases, LostInv, Recorded
  PROVE  LostInv'
<1> SUFFICES ASSUME NEW t \in DOMAIN tasks', NEW k \in EventsOf(t)'
             PROVE  LostByCount(t, k)'
  BY DEF LostInv
<1>1. /\ EventsOf(t) \subseteq Nat
      /\ \A i \in EventsOf(t) : taskEvents'[i] = taskEvents[i]
  BY EventsAreKept
<1>2. CASE Kept(t)
  <2>1. Leases(t)' = Leases(t) /\ k \in EventsOf(t) /\ t \in DOMAIN tasks
    BY <1>1, <1>2 DEF Kept, Leases
  <2>2. QED
    BY <1>1, <1>2, <2>1 DEF Kept, LostInv, LostByCount
<1>3. ASSUME NEW i \in DOMAIN taskEvents', WrittenAs(t, i)
      PROVE  LostByCount(t, k)'
  <2>1. /\ EventsOf(t)' = EventsOf(t) \cup {i} /\ i \in Nat
        /\ \A j \in EventsOf(t) : j < i
        /\ Written(t, taskEvents'[i])
    BY <1>3 DEF WrittenAs
  <2>2. \A m \in EventsOf(t)' : m <= i =>
          {j \in Leases(t)' : j < m} = {j \in Leases(t) : j < m}
    BY <1>1, <2>1 DEF Leases
  <2>3. t \in DOMAIN tasks => tasks'[t].maxAttempts = tasks[t].maxAttempts
    <3>1. ASSUME t \in DOMAIN tasks PROVE tasks[t] \in TaskRows
      BY <3>1, RowTypes
    <3>2. QED
      BY <2>1, <3>1 DEF Written, Taken, Lost, MovedOn, Leased, Recovered, Moved, TaskRows
  <2>4. CASE k \in EventsOf(t)
    <3>1. t \in DOMAIN tasks /\ k < i
      BY <2>1, <2>4, NoEventsBeforeBirth
    <3>2. {j \in Leases(t)' : j < k} = {j \in Leases(t) : j < k}
      BY <1>1, <2>1, <2>2, <2>4, <3>1
    <3>3. LostByCount(t, k)
      BY <2>4, <3>1 DEF LostInv
    <3>4. QED
      BY <1>1, <2>3, <2>4, <3>1, <3>2, <3>3 DEF LostByCount
  <2>5. CASE k = i
    <3>1. SUFFICES ASSUME taskEvents'[i].reason.kind = "lease_expired"
                   PROVE  (taskEvents'[i].to = "Failed") <=>
                            Cardinality({j \in Leases(t)' : j < i})
                              >= tasks'[t].maxAttempts
      BY <2>5 DEF LostByCount
    <3>2. t \in DOMAIN tasks /\ Lost(t, taskEvents'[i])
      <4>1. ~Taken(t, taskEvents'[i])
        <5>1. SUFFICES ASSUME Taken(t, taskEvents'[i]) PROVE FALSE
          OBVIOUS
        <5>2. PICK w \in Workers : taskEvents'[i].reason = [kind |-> "leased", by |-> w]
          BY <5>1 DEF Taken
        <5>3. taskEvents'[i].reason.kind = "leased"
          BY <5>2
        <5>4. QED
          BY <3>1, <5>3
      <4>2. ~MovedOn(t, taskEvents'[i])
        BY <3>1, QueueAssumption DEF MovedOn
      <4>3. ~Born(t, taskEvents'[i])
        BY <3>1 DEF Born
      <4>4. QED
        BY <2>1, <4>1, <4>2, <4>3 DEF Written
    <3>3. {j \in Leases(t)' : j < i} = Leases(t)
      BY <1>1, <2>1, <2>2 DEF Leases
    <3>4. tasks[t].attempts = Cardinality(Leases(t))
      BY <3>2 DEF AttemptsCountLeases
    <3>5. QED
      BY <2>3, <3>2, <3>3, <3>4 DEF Lost, RecoveredStatus
  <2>6. QED
    BY <2>1, <2>4, <2>5
<1>4. QED
  BY <1>2, <1>3 DEF Recorded

\* A task whose lease is lost has failed exactly when it has been leased as often
\* as its limit allows (repository.py:287-291).
THEOREM LostTasksFailAtTheLimitHolds == QueueSpec => []LostTasksFailAtTheLimit
<1>1. QueueInit => LostInv
  BY DEF QueueInit, LostInv
<1>2. QueueTypeOK /\ LogsAgree /\ AttemptsCountLeases /\ LostInv
        /\ [QueueNext]_queueVars => LostInv'
  BY StepIsRecorded, LostInvStep
<1>3. LogsAgree /\ LostInv => LostTasksFailAtTheLimit
  BY DEF LogsAgree, LostInv, LostByCount, LostTasksFailAtTheLimit, EventsOf
<1>4. QED
  BY <1>1, <1>2, <1>3, TypeCorrect, LogsAgreeAlways, AttemptsCountLeasesHolds, PTL
     DEF QueueSpec

-----------------------------------------------------------------------------
(***************************************************************************)
(* Leases                                                                  *)
(***************************************************************************)

\* A task is moved to Running only from the queue, where it has no lease.
LEMMA OnlyQueuedTasksStart ==
  ASSUME NEW s \in Status, EnsureTransition(s, "Running")
  PROVE  s = "Queued"
BY DEF Status, EnsureTransition, AllowedTransitions

\* No lost, finished or moved task keeps a lease, and a lease is its last taker's.
THEOREM LeaseBelongsToLastLeaserHolds == QueueSpec => []LeaseBelongsToLastLeaser
<1> DEFINE Owned(t) ==
             /\ (tasks[t].owner = None) <=> (tasks[t].lease = None)
             /\ tasks[t].owner # None =>
                  /\ tasks[t].status = "Running"
                  /\ \E i \in EventsOf(t) :
                       /\ \A j \in EventsOf(t) : j <= i
                       /\ taskEvents[i].reason = [kind |-> "leased", by |-> tasks[t].owner]
           Inv == \A t \in DOMAIN tasks : Owned(t)
<1>1. QueueInit => Inv
  BY DEF QueueInit
<1>2. QueueTypeOK /\ LogsAgree /\ Inv /\ [QueueNext]_queueVars => Inv'
  <2> SUFFICES ASSUME QueueTypeOK, LogsAgree, Inv, Recorded, NEW t \in DOMAIN tasks'
               PROVE  Owned(t)'
    BY StepIsRecorded
  <2>1. CASE Kept(t)
    BY <2>1, EventsAreKept DEF Kept
  <2>2. ASSUME NEW i \in DOMAIN taskEvents', WrittenAs(t, i)
        PROVE  Owned(t)'
    <3> DEFINE e == taskEvents'[i]
    <3>1. Written(t, e)
      BY <2>2 DEF WrittenAs
    <3>2. CASE t \notin DOMAIN tasks
      BY <3>1, <3>2 DEF Written, Born
    <3>3. CASE t \in DOMAIN tasks
      <4>1. tasks[t] \in TaskRows /\ Owned(t)
        BY <3>3, RowTypes
      <4>2. CASE Taken(t, e)
        <5>1. PICK w \in Workers, expiry \in Nat :
                /\ tasks'[t] = Leased(tasks[t], w, expiry)
                /\ e.reason = [kind |-> "leased", by |-> w]
          BY <4>2 DEF Taken
        <5>2. /\ tasks'[t].owner = w /\ tasks'[t].lease = expiry
              /\ tasks'[t].status = "Running"
          BY <4>1, <5>1 DEF Leased, TaskRows
        <5>3. w # None /\ expiry # None
          BY QueueAssumption
        <5>4. i \in EventsOf(t)' /\ \A j \in EventsOf(t)' : j <= i
          BY <2>2, EventsAreKept DEF WrittenAs
        <5>5. QED
          BY <5>1, <5>2, <5>3, <5>4
      <4>3. CASE Lost(t, e)
        BY <4>1, <4>3 DEF Lost, Recovered, TaskRows
      <4>4. CASE MovedOn(t, e)
        <5>1. CASE e.to = "Running"
          <6>1. tasks[t].status = "Queued"
            BY <4>1, <4>4, <5>1, OnlyQueuedTasksStart DEF MovedOn, TaskRows
          <6>2. tasks[t].owner = None /\ tasks[t].lease = None
            BY <4>1, <6>1
          <6>3. QED
            BY <4>1, <4>4, <6>2 DEF MovedOn, Moved, TaskRows
        <5>2. CASE e.to # "Running"
          BY <4>1, <4>4, <5>2 DEF MovedOn, Moved, TaskRows
        <5>3. QED
          BY <5>1, <5>2
      <4>5. QED
        BY <3>1, <3>3, <4>2, <4>3, <4>4 DEF Written
    <3>4. QED
      BY <3>2, <3>3
  <2>3. QED
    BY <2>1, <2>2 DEF Recorded
<1>3. Inv => LeaseBelongsToLastLeaser
  BY DEF LeaseBelongsToLastLeaser, IsLastEvent
<1>4. QED
  BY <1>1, <1>2, <1>3, TypeCorrect, LogsAgreeAlways, PTL DEF QueueSpec

\* Only a recovery is recorded as one.
LEMMA OnlyLostTasksAreRecovered ==
  ASSUME NEW t, NEW e, e.reason.kind = "lease_expired"
  PROVE  ~Taken(t, e) /\ ~MovedOn(t, e)
<1>1. ASSUME Taken(t, e) PROVE FALSE
  <2>1. PICK w \in Workers : e.reason = [kind |-> "leased", by |-> w]
    BY <1>1 DEF Taken
  <2>2. e.reason.kind = "leased"
    BY <2>1
  <2>3. QED
    BY <2>2
<1>2. ~MovedOn(t, e)
  BY QueueAssumption DEF MovedOn
<1>3. QED
  BY <1>1, <1>2

\* No task is recovered whose lease still runs, by a clock that may be late.
THEOREM RecoveryOnlyAfterExpiryHolds == QueueSpec => RecoveryOnlyAfterExpiry
<1> DEFINE Due == \A t \in DOMAIN tasks, i \in DOMAIN taskEvents' :
                    /\ i > Len(taskEvents)
                    /\ taskEvents'[i].task = t
                    /\ taskEvents'[i].reason.kind = "lease_expired"
                    => tasks[t].lease < now
<1>1. QueueTypeOK /\ LogsAgree /\ [QueueNext]_queueVars => [Due]_queueVars
  <2> SUFFICES ASSUME QueueTypeOK, LogsAgree, Recorded,
                      NEW t \in DOMAIN tasks, NEW i \in DOMAIN taskEvents',
                      i > Len(taskEvents), taskEvents'[i].task = t,
                      taskEvents'[i].reason.kind = "lease_expired"
               PROVE  tasks[t].lease < now
    BY StepIsRecorded
  <2>1. i \in EventsOf(t)' /\ i \notin EventsOf(t)
    BY LogTypes DEF EventsOf
  <2>2. PICK k \in DOMAIN taskEvents' : WrittenAs(t, k)
    BY <2>1 DEF Recorded, Kept
  <2>3. Written(t, taskEvents'[i])
    BY <2>1, <2>2 DEF WrittenAs
  <2>4. ~Taken(t, taskEvents'[i]) /\ ~MovedOn(t, taskEvents'[i])
    BY OnlyLostTasksAreRecovered
  <2>5. QED
    BY <2>3, <2>4 DEF Written, Lost
<1>2. QED
  BY <1>1, TypeCorrect, LogsAgreeAlways, PTL DEF QueueSpec, RecoveryOnlyAfterExpiry

\* No task overtakes an older one of the same or a better priority.
THEOREM NoOvertakingHolds == QueueSpec => NoOvertaking
<1> DEFINE InTurn == \A t, u \in DOMAIN tasks :
                       /\ tasks[t].attempts # tasks'[t].attempts
                       /\ tasks[u].status = "Queued" /\ tasks'[u].status = "Queued"
                       => \/ tasks[t].priority < tasks[u].priority
                          \/ tasks[t].priority = tasks[u].priority /\ t < u
<1>1. QueueTypeOK /\ LogsAgree /\ [QueueNext]_queueVars => [InTurn]_queueVars
  <2> SUFFICES ASSUME QueueTypeOK, LogsAgree, Recorded,
                      NEW t \in DOMAIN tasks, NEW u \in DOMAIN tasks,
                      tasks[t].attempts # tasks'[t].attempts,
                      tasks[u].status = "Queued", tasks'[u].status = "Queued"
               PROVE  \/ tasks[t].priority < tasks[u].priority
                      \/ tasks[t].priority = tasks[u].priority /\ t < u
    BY StepIsRecorded
  <2>1. tasks[t] \in TaskRows
    BY RowTypes
  <2>2. PICK k \in DOMAIN taskEvents' : WrittenAs(t, k)
    BY DEF Recorded, Kept
  <2>3. Written(t, taskEvents'[k])
    BY <2>2 DEF WrittenAs
  <2>4. ~Lost(t, taskEvents'[k]) /\ ~MovedOn(t, taskEvents'[k])
    BY <2>1 DEF Lost, MovedOn, Recovered, Moved, TaskRows
  <2>5. Taken(t, taskEvents'[k])
    BY <2>3, <2>4 DEF Written
  <2>6. tasks'[t].status = "Running" /\ t # u
    BY <2>1, <2>5 DEF Taken, Leased, TaskRows
  <2>7. GoesBefore(t, u)
    BY <2>5 DEF Taken, NextInLine, Queued
  <2>8. QED
    BY <2>6, <2>7, LogTypes DEF GoesBefore
<1>2. QED
  BY <1>1, TypeCorrect, LogsAgreeAlways, PTL DEF QueueSpec, NoOvertaking

-----------------------------------------------------------------------------
(***************************************************************************)
(* Retries.  A task that has completed stays Completed or Archived, so one *)
(* that may be retried has never completed, and nor will it.               *)
(***************************************************************************)

EverCompleted(t) == \E i \in EventsOf(t) : taskEvents[i].to = "Completed"

CompletionIsLast ==
  \A t \in DOMAIN tasks : EverCompleted(t) => tasks[t].status \in {"Completed", "Archived"}

\* A recorded step keeps that.
LEMMA CompletionIsLastStep ==
  ASSUME QueueTypeOK, LogsAgree, CompletionIsLast, Recorded
  PROVE  CompletionIsLast'
<1> SUFFICES ASSUME NEW t \in DOMAIN tasks', EverCompleted(t)'
             PROVE  tasks'[t].status \in {"Completed", "Archived"}
  BY DEF CompletionIsLast
<1>1. CASE Kept(t)
  BY <1>1, EventsAreKept DEF Kept, CompletionIsLast, EverCompleted
<1>2. ASSUME NEW i \in DOMAIN taskEvents', WrittenAs(t, i)
      PROVE  tasks'[t].status \in {"Completed", "Archived"}
  <2>1. /\ Written(t, taskEvents'[i])
        /\ EventsOf(t)' = EventsOf(t) \cup {i}
    BY <1>2 DEF WrittenAs
  <2>2. taskEvents'[i].to = tasks'[t].status
    BY <2>1, WrittenEvents
  <2>3. CASE taskEvents'[i].to = "Completed"
    BY <2>2, <2>3
  <2>4. CASE EverCompleted(t)
    <3>1. t \in DOMAIN tasks
      BY <2>4, NoEventsBeforeBirth DEF EverCompleted
    <3>2. tasks[t].status \in EndedStatuses
      BY <2>4, <3>1 DEF CompletionIsLast, EndedStatuses
    <3>3. EnsureTransition(tasks[t].status, taskEvents'[i].to)
      BY <2>1, <3>1, WrittenEvents
    <3>4. QED
      BY <2>2, <3>2, <3>3, EndedLeadsOnlyToArchived
  <2>5. QED
    BY <2>1, <2>3, <2>4, EventsAreKept DEF EverCompleted
<1>3. QED
  BY <1>1, <1>2 DEF Recorded

\* Task p has failed or was cancelled, and never completed.
Unsuccessful(p) ==
  /\ p \in DOMAIN tasks
  /\ tasks[p].status \in RetryableStatuses \cup {"Archived"}
  /\ ~EverCompleted(p)

\* Once unsuccessful, a task stays so.
LEMMA UnsuccessfulStep ==
  ASSUME QueueTypeOK, LogsAgree, Recorded, NEW p, Unsuccessful(p)
  PROVE  Unsuccessful(p)'
<1>1. p \in DOMAIN tasks /\ p \in DOMAIN tasks'
  BY DEF Unsuccessful, Recorded
<1>2. CASE Kept(p)
  BY <1>1, <1>2, EventsAreKept DEF Kept, Unsuccessful, EverCompleted
<1>3. ASSUME NEW i \in DOMAIN taskEvents', WrittenAs(p, i)
      PROVE  Unsuccessful(p)'
  <2>1. /\ Written(p, taskEvents'[i])
        /\ EventsOf(p)' = EventsOf(p) \cup {i}
    BY <1>3 DEF WrittenAs
  <2>2. /\ taskEvents'[i].to = tasks'[p].status
        /\ EnsureTransition(tasks[p].status, taskEvents'[i].to)
    BY <1>1, <2>1, WrittenEvents
  <2>3. tasks[p].status \in EndedStatuses
    BY DEF Unsuccessful, RetryableStatuses, EndedStatuses
  <2>4. taskEvents'[i].to = "Archived"
    BY <2>2, <2>3, EndedLeadsOnlyToArchived
  <2>5. QED
    BY <1>1, <2>1, <2>2, <2>4, EventsAreKept DEF Unsuccessful, EverCompleted
<1>4. QED
  BY <1>1, <1>2, <1>3 DEF Recorded

\* Only tasks that have failed or were cancelled have children, and they never
\* complete.
THEOREM ChildrenOfUnsuccessfulTasksHolds == QueueSpec => []ChildrenOfUnsuccessfulTasks
<1> DEFINE Child(t) == tasks[t].parent # None =>
                         tasks[t].parent < t /\ Unsuccessful(tasks[t].parent)
           Inv == CompletionIsLast /\ \A t \in DOMAIN tasks : Child(t)
<1>1. QueueInit => Inv
  BY DEF QueueInit, CompletionIsLast
<1>2. QueueTypeOK /\ LogsAgree /\ Inv /\ [QueueNext]_queueVars => Inv'
  <2> SUFFICES ASSUME QueueTypeOK, LogsAgree, Inv, Recorded
               PROVE  Inv'
    BY StepIsRecorded
  <2>1. ASSUME NEW t \in DOMAIN tasks', tasks'[t].parent # None
        PROVE  \E p \in DOMAIN tasks :
                 tasks'[t].parent = p /\ p < t /\ Unsuccessful(p)
    <3>1. CASE t \in DOMAIN tasks
      <4>1. tasks[t] \in TaskRows
        BY <3>1, RowTypes
      <4>2. tasks'[t].parent = tasks[t].parent
        <5>1. CASE Kept(t)
          BY <5>1 DEF Kept
        <5>2. ASSUME NEW i \in DOMAIN taskEvents', Written(t, taskEvents'[i])
              PROVE  tasks'[t].parent = tasks[t].parent
          BY <3>1, <4>1, <5>2
             DEF Written, Taken, Lost, MovedOn, Leased, Recovered, Moved, TaskRows
        <5>3. QED
          BY <5>1, <5>2 DEF Recorded, WrittenAs
      <4>3. tasks[t].parent < t /\ Unsuccessful(tasks[t].parent)
        BY <2>1, <3>1, <4>2
      <4>4. QED
        BY <4>2, <4>3 DEF Unsuccessful
    <3>2. CASE t \notin DOMAIN tasks
      <4>1. PICK i \in DOMAIN taskEvents' : Born(t, taskEvents'[i])
        BY <3>2 DEF Recorded, Kept, WrittenAs, Written
      <4>2. /\ tasks'[t].parent \in DOMAIN tasks
            /\ tasks[tasks'[t].parent].status \in RetryableStatuses
            /\ tasks'[t].parent < t
        BY <2>1, <4>1 DEF Born
      <4>3. Unsuccessful(tasks'[t].parent)
        BY <4>2 DEF Unsuccessful, CompletionIsLast, RetryableStatuses
      <4>4. QED
        BY <4>2, <4>3
    <3>3. QED
      BY <3>1, <3>2
  <2>2. ASSUME NEW t \in DOMAIN tasks'
        PROVE  Child(t)'
    <3>1. CASE tasks'[t].parent = None
      BY <3>1
    <3>2. CASE tasks'[t].parent # None
      <4>1. PICK p \in DOMAIN tasks :
              tasks'[t].parent = p /\ p < t /\ Unsuccessful(p)
        BY <2>1, <3>2
      <4>2. Unsuccessful(p)'
        BY <4>1, UnsuccessfulStep
      <4>3. Unsuccessful(tasks[t].parent)'
        BY <4>1, <4>2 DEF Unsuccessful, EverCompleted, EventsOf
      <4>4. QED
        BY <4>1, <4>3
    <3>3. QED
      BY <3>1, <3>2
  <2>3. QED
    BY <2>2, CompletionIsLastStep
<1>3. Inv => ChildrenOfUnsuccessfulTasks
  BY DEF ChildrenOfUnsuccessfulTasks, Unsuccessful, EverCompleted
<1>4. QED
  BY <1>1, <1>2, <1>3, TypeCorrect, LogsAgreeAlways, PTL DEF QueueSpec
=============================================================================
