----------------------------- MODULE TaskQueue -----------------------------
(***************************************************************************)
(* QueueRepository (queue/repository.py): the durable task queue of the    *)
(* Mac Core.  Every operation is one BEGIN IMMEDIATE transaction on one    *)
(* SQLite connection behind a lock (Database.transaction), so one action.  *)
(* What is not atomic is the clock: lease_next and recover_expired_leases  *)
(* read it before they get the transaction, so the time they use is any    *)
(* time of the last LockWait ticks.                                        *)
(*                                                                         *)
(* Task ids are the row numbers of the tasks table.  created_at is read    *)
(* inside the inserting transaction, so the order of creation is the order *)
(* of the rows.  A create that meets its idempotency_key or an active      *)
(* dedupe_key returns the row it found and writes nothing: a stutter.      *)
(* not_before is never written by the code and is left out, as are the     *)
(* project, the payload, the error text and the other timestamps.          *)
(***************************************************************************)
EXTENDS TaskLifecycle, Integers, Sequences, FiniteSets

CONSTANTS
  Workers,         \* worker_id values of the callers of lease_next
  IdempotencyKeys, \* values of TaskCreate.idempotency_key
  DedupeKeys,      \* values of TaskCreate.dedupe_key
  Priorities,      \* values of TaskCreate.priority; a smaller one goes first
  AttemptLimits,   \* values of TaskCreate.max_attempts
  CallerReasons,   \* reasons the callers of transition give
  None,            \* SQL NULL
  LeaseSeconds,    \* length of a lease, in clock ticks
  LockWait,        \* longest wait for the transaction, in clock ticks
  MaxTasks,        \* bound: rows of the tasks table
  MaxEvents,       \* bound: rows of task_events
  MaxTime          \* bound: clock ticks

ASSUME QueueAssumption ==
  /\ Priorities \subseteq Nat
  /\ AttemptLimits \subseteq Nat \ {0}
  /\ LeaseSeconds \in Nat \ {0}
  /\ LockWait \in Nat
  /\ MaxTasks \in Nat
  /\ MaxEvents \in Nat
  /\ MaxTime \in Nat
  /\ None \notin Nat
  /\ None \notin Status
  /\ None \notin Workers
  /\ None \notin IdempotencyKeys
  /\ None \notin DedupeKeys
  /\ \A r \in CallerReasons :
       r.kind \notin {"created", "cloud_manual", "leased", "lease_expired"}

VARIABLES
  now,         \* the wall clock
  tasks,       \* table tasks: a sequence of rows, in insertion order
  taskEvents,  \* table task_events, in insertion order
  outbox       \* table event_outbox: snapshots of the rows, in rowid order

queueVars == <<now, tasks, taskEvents, outbox>>

TaskIds == 1..MaxTasks

TaskRows ==
  [ parent      : TaskIds \cup {None},
    status      : Status,
    priority    : Priorities,
    idem        : IdempotencyKeys \cup {None},
    dedupe      : DedupeKeys \cup {None},
    attempts    : Nat,
    maxAttempts : AttemptLimits,
    owner       : Workers \cup {None},
    lease       : Nat \cup {None} ]

\* The reason column of a task event: what happened and on whose behalf.
Reasons == [kind : {"created", "cloud_manual", "lease_expired"}, by : {None}]
           \cup [kind : {"leased"}, by : Workers]
           \cup CallerReasons

EventRows == [task : TaskIds, from : Status \cup {None}, to : Status,
              reason : Reasons]

Snapshots == [task : TaskIds, status : Status, attempts : Nat]

\* The fields of TaskCreate that the queue acts on.
Requests == [ idem        : IdempotencyKeys \cup {None},
              dedupe      : DedupeKeys \cup {None},
              cloudManual : BOOLEAN,
              priority    : Priorities,
              maxAttempts : AttemptLimits ]

-----------------------------------------------------------------------------
(***************************************************************************)
(* Writing: every change of a row is written together with its task event  *)
(* and a snapshot of the row in the outbox.                                *)
(***************************************************************************)

EventOf(t, from, to, reason) ==
  [task |-> t, from |-> from, to |-> to, reason |-> reason]

\* _append_task_update: the part of the row the desktop is told.
SnapshotOf(t, row) == [task |-> t, status |-> row.status, attempts |-> row.attempts]

\* Mutant: an update is not announced to the desktop when its task is in a
\* retry.
CommitSilentRetries(rows, events) ==
  /\ Len(taskEvents) + Len(events) <= MaxEvents
  /\ tasks' = rows
  /\ taskEvents' = taskEvents \o events
  /\ outbox' = outbox \o
       SelectSeq([i \in 1..Len(events) |->
                    SnapshotOf(events[i].task, rows[events[i].task])],
                 LAMBDA s : s.status # "Retrying")

\* The rows, their events and their snapshots commit together.
Commit(rows, events) ==
  /\ Len(taskEvents) + Len(events) <= MaxEvents
  /\ tasks' = rows
  /\ taskEvents' = taskEvents \o events
  /\ outbox' = outbox \o [i \in 1..Len(events) |->
                            SnapshotOf(events[i].task, rows[events[i].task])]

-----------------------------------------------------------------------------
(***************************************************************************)
(* Creating                                                                *)
(***************************************************************************)

\* Mutant: the key is only looked for among the tasks that have not ended.
IdempotencyHitAmongActive(req) ==
  /\ req.idem # None
  /\ \E t \in DOMAIN tasks : /\ tasks[t].idem = req.idem
                             /\ tasks[t].status \in ActiveDedupeStatuses

\* A row, in whatever status, already holds the idempotency_key.
IdempotencyHit(req) ==
  /\ req.idem # None
  /\ \E t \in DOMAIN tasks : tasks[t].idem = req.idem

\* An active row already holds the dedupe_key.
DedupeHit(req) ==
  /\ req.dedupe # None
  /\ \E t \in DOMAIN tasks : /\ tasks[t].dedupe = req.dedupe
                             /\ tasks[t].status \in ActiveDedupeStatuses

\* Mutant: a cloud task starts in the status of its approval.
NewRowPending(req, parent) ==
  [ parent |-> parent, priority |-> req.priority, idem |-> req.idem,
    dedupe |-> req.dedupe, attempts |-> 0, maxAttempts |-> req.maxAttempts,
    owner |-> None, lease |-> None,
    status |-> IF req.cloudManual THEN "Pending" ELSE "Queued" ]

\* Mutant: a cloud task goes straight to the queue.
NewRowQueued(req, parent) ==
  [ parent |-> parent, priority |-> req.priority, idem |-> req.idem,
    dedupe |-> req.dedupe, attempts |-> 0, maxAttempts |-> req.maxAttempts,
    owner |-> None, lease |-> None, status |-> "Queued" ]

\* The row _create_in_transaction inserts.
NewRow(req, parent) ==
  [ parent      |-> parent,
    status      |-> IF req.cloudManual THEN "WaitingForApproval" ELSE "Queued",
    priority    |-> req.priority,
    idem        |-> req.idem,
    dedupe      |-> req.dedupe,
    attempts    |-> 0,
    maxAttempts |-> req.maxAttempts,
    owner       |-> None,
    lease       |-> None ]

CreationReason(req) ==
  [kind |-> IF req.cloudManual THEN "cloud_manual" ELSE "created", by |-> None]

\* _create_in_transaction, when it inserts.
CreateInTransaction(req, parent) ==
  /\ ~IdempotencyHit(req)
  /\ ~DedupeHit(req)
  /\ Len(tasks) < MaxTasks
  /\ LET row == NewRow(req, parent)
         id  == Len(tasks) + 1
     IN  Commit(Append(tasks, row),
                <<EventOf(id, None, row.status, CreationReason(req))>>)
  /\ UNCHANGED now

\* POST /tasks and the task tools of the MCP server.
Create(req) == CreateInTransaction(req, None)

\* What retry copies from the task it retries: neither of its keys, and not
\* its cloud policy, which no column holds.
RetryRequest(row) ==
  [ idem |-> None, dedupe |-> None, cloudManual |-> FALSE,
    priority |-> row.priority, maxAttempts |-> row.maxAttempts ]

\* Mutant: a task that completed may be retried as well.
RetryAnyEnded(t) ==
  /\ t \in DOMAIN tasks
  /\ tasks[t].status \in {"Completed", "Failed", "Cancelled"}
  /\ CreateInTransaction(RetryRequest(tasks[t]), t)

\* POST /tasks/{id}/retry: a child task; the ended one is not touched.
Retry(t) ==
  /\ t \in DOMAIN tasks
  /\ tasks[t].status \in RetryableStatuses
  /\ CreateInTransaction(RetryRequest(tasks[t]), t)

-----------------------------------------------------------------------------
(***************************************************************************)
(* Leasing and recovering                                                  *)
(***************************************************************************)

\* The times a caller that now holds the transaction may have read before it.
RecentTimes == {at \in 0..now : now - at <= LockWait}

Queued == {t \in DOMAIN tasks : tasks[t].status = "Queued"}

\* ORDER BY priority, created_at
GoesBefore(t, u) ==
  \/ tasks[t].priority < tasks[u].priority
  \/ tasks[t].priority = tasks[u].priority /\ t <= u

\* Mutant: the most recently created task of the best priority is leased.
NewestNextInLine(t) ==
  /\ t \in Queued
  /\ \A u \in Queued : \/ tasks[t].priority < tasks[u].priority
                       \/ tasks[t].priority = tasks[u].priority /\ t >= u

NextInLine(t) ==
  /\ t \in Queued
  /\ \A u \in Queued : GoesBefore(t, u)

\* The UPDATE of lease_next.
Leased(row, w, expiry) ==
  [row EXCEPT !.status = "Running", !.attempts = @ + 1,
              !.owner = w, !.lease = expiry]

\* lease_next: the worker takes the task that is next in line.  max_attempts is
\* not looked at here.
LeaseNext(w, at) ==
  \E t \in DOMAIN tasks :
    /\ NextInLine(t)
    /\ EnsureTransition(tasks[t].status, "Running")
    /\ Commit([tasks EXCEPT ![t] = Leased(@, w, at + LeaseSeconds)],
              <<EventOf(t, "Queued", "Running", [kind |-> "leased", by |-> w])>>)
    /\ UNCHANGED now

\* Mutant: a lease counts as expired in its last tick.
ExpiresBy(at) ==
  {t \in DOMAIN tasks : /\ tasks[t].status = "Running"
                        /\ tasks[t].lease # None
                        /\ tasks[t].lease <= at}

\* The rows recover_expired_leases selects.
Expired(at) ==
  {t \in DOMAIN tasks : /\ tasks[t].status = "Running"
                        /\ tasks[t].lease # None
                        /\ tasks[t].lease < at}

\* Mutant: a task is retried once more than its limit says.
RecoveredOnceMore(row) ==
  IF row.attempts > row.maxAttempts THEN "Failed" ELSE "Retrying"

RecoveredStatus(row) ==
  IF row.attempts >= row.maxAttempts THEN "Failed" ELSE "Retrying"

Recovered(row) ==
  [row EXCEPT !.status = RecoveredStatus(row), !.owner = None, !.lease = None]

\* The ways to put the tasks of S in the order of their leases.
LeaseOrders(S) ==
  {f \in [1..Cardinality(S) -> S] :
     /\ \A t \in S : \E i \in DOMAIN f : f[i] = t
     /\ \A i, j \in DOMAIN f : i < j => tasks[f[i]].lease <= tasks[f[j]].lease}

\* recover_expired_leases: all expired leases, in one transaction.
RecoverExpiredLeases(at) ==
  /\ Expired(at) # {}
  /\ \E order \in LeaseOrders(Expired(at)) :
       Commit([t \in DOMAIN tasks |-> IF t \in Expired(at) THEN Recovered(tasks[t])
                                                           ELSE tasks[t]],
              [i \in 1..Cardinality(Expired(at)) |->
                 EventOf(order[i], "Running", RecoveredStatus(tasks[order[i]]),
                         [kind |-> "lease_expired", by |-> None])])
  /\ UNCHANGED now

-----------------------------------------------------------------------------
(***************************************************************************)
(* Moving                                                                  *)
(***************************************************************************)

\* Mutant: a task that is moved out of Running keeps its lease.
MovedWithLease(row, target) == [row EXCEPT !.status = target]

\* The UPDATE of transition_in_transaction: the lease survives only a move to
\* Running.
Moved(row, target) ==
  [row EXCEPT !.status = target,
              !.owner  = IF target = "Running" THEN @ ELSE None,
              !.lease  = IF target = "Running" THEN @ ELSE None]

\* Mutant: the event says the task came from Running, whatever it was in.
TransitionMisreported(t, target, reason) ==
  /\ t \in DOMAIN tasks
  /\ EnsureTransition(tasks[t].status, target)
  /\ Commit([tasks EXCEPT ![t] = Moved(@, target)],
            <<EventOf(t, "Running", target, reason)>>)
  /\ UNCHANGED now

\* transition, transition_in_transaction: who holds the lease is not looked at.
Transition(t, target, reason) ==
  /\ t \in DOMAIN tasks
  /\ EnsureTransition(tasks[t].status, target)
  /\ Commit([tasks EXCEPT ![t] = Moved(@, target)],
            <<EventOf(t, tasks[t].status, target, reason)>>)
  /\ UNCHANGED now

Tick ==
  /\ now < MaxTime
  /\ now' = now + 1
  /\ UNCHANGED <<tasks, taskEvents, outbox>>

-----------------------------------------------------------------------------
QueueInit ==
  /\ now = 0
  /\ tasks = <<>>
  /\ taskEvents = <<>>
  /\ outbox = <<>>

QueueNext ==
  \/ \E req \in Requests : Create(req)
  \/ \E t \in TaskIds : Retry(t)
  \/ \E w \in Workers, at \in RecentTimes : LeaseNext(w, at)
  \/ \E at \in RecentTimes : RecoverExpiredLeases(at)
  \/ \E t \in TaskIds, target \in Status, reason \in CallerReasons :
       Transition(t, target, reason)
  \/ Tick

QueueSpec == QueueInit /\ [][QueueNext]_queueVars

-----------------------------------------------------------------------------
(***************************************************************************)
(* Properties                                                              *)
(***************************************************************************)

\* The types of the four tables.
QueueTypeOK ==
  /\ now \in 0..MaxTime
  /\ tasks \in Seq(TaskRows)
  /\ Len(tasks) <= MaxTasks
  /\ taskEvents \in Seq(EventRows)
  /\ outbox \in Seq(Snapshots)

\* A request repeated with its idempotency_key never becomes a second task, not
\* even after the first one has ended (repository.py:56-62).
IdempotentCreation ==
  \A t, u \in DOMAIN tasks :
    tasks[t].idem # None /\ tasks[t].idem = tasks[u].idem => t = u

\* At no time are two tasks with the same dedupe_key active, whatever moves the
\* tasks have made since they were created (repository.py:64-72).
OneActivePerDedupeKey ==
  \A t, u \in DOMAIN tasks :
    /\ tasks[t].dedupe # None
    /\ tasks[t].dedupe = tasks[u].dedupe
    /\ tasks[t].status \in ActiveDedupeStatuses
    /\ tasks[u].status \in ActiveDedupeStatuses
    => t = u

\* The positions of the events of a task, and of its last event.
EventsOf(t) == {i \in DOMAIN taskEvents : taskEvents[i].task = t}
IsLastEvent(i, t) == i \in EventsOf(t) /\ \A j \in EventsOf(t) : j <= i

\* The events of a task tell its life: the first one creates it, each later one
\* starts where the one before ended, and the last one ends in the status of
\* the row.
HistoryExplainsStatus ==
  \A t \in DOMAIN tasks :
    /\ EventsOf(t) # {}
    /\ \A i \in EventsOf(t) :
         \/ taskEvents[i].from = None /\ \A j \in EventsOf(t) : i <= j
         \/ \E j \in EventsOf(t) :
              /\ j < i
              /\ \A k \in EventsOf(t) : k <= j \/ k >= i
              /\ taskEvents[j].to = taskEvents[i].from
              /\ EnsureTransition(taskEvents[j].to, taskEvents[i].to)
    /\ \A i \in EventsOf(t) :
         IsLastEvent(i, t) => taskEvents[i].to = tasks[t].status

\* The last snapshot of a task in the outbox is its row: a desktop that has
\* applied every event shows what the queue holds.
SnapshotsAreCurrent ==
  \A t \in DOMAIN tasks :
    \E i \in DOMAIN outbox :
      /\ outbox[i] = SnapshotOf(t, tasks[t])
      /\ \A j \in DOMAIN outbox : outbox[j].task = t => j <= i

Leases(t) == {i \in EventsOf(t) : taskEvents[i].reason.kind = "leased"}

\* Whatever moves came in between, a task whose lease is lost fails exactly when
\* it has been leased max_attempts times (repository.py:225-269, 287-291).
LostTasksFailAtTheLimit ==
  \A i \in DOMAIN taskEvents : taskEvents[i].reason.kind = "lease_expired" =>
    LET t == taskEvents[i].task IN
      (taskEvents[i].to = "Failed") <=>
        Cardinality({j \in Leases(t) : j < i}) >= tasks[t].maxAttempts

\* A lease belongs to the worker that took it last, and only while the task has
\* been running ever since: no lost, finished or moved task keeps a lease.
LeaseBelongsToLastLeaser ==
  \A t \in DOMAIN tasks :
    /\ (tasks[t].owner = None) <=> (tasks[t].lease = None)
    /\ tasks[t].owner # None =>
         /\ tasks[t].status = "Running"
         /\ \E i \in EventsOf(t) :
              /\ IsLastEvent(i, t)
              /\ taskEvents[i].reason = [kind |-> "leased", by |-> tasks[t].owner]

\* A child exists only because its parent failed or was cancelled, and its
\* parent has never completed (repository.py:185-186).
ChildrenOfUnsuccessfulTasks ==
  \A t \in DOMAIN tasks : tasks[t].parent # None =>
    /\ tasks[t].parent < t
    /\ tasks[tasks[t].parent].status \in RetryableStatuses \cup {"Archived"}
    /\ \A i \in EventsOf(tasks[t].parent) : taskEvents[i].to # "Completed"

\* What has ended stays ended: no row is lost, no ended task becomes active
\* again, and an ended task changes in nothing but in being archived.  The row is
\* the one modelled here: its approval_id, which a late request for an approval
\* still sets (approvals/service.py:93), is not part of it.
EndedTasksStayEnded ==
  [][\A t \in DOMAIN tasks :
       /\ t \in DOMAIN tasks'
       /\ tasks[t].status \in EndedStatuses =>
            tasks'[t] \in {tasks[t], Moved(tasks[t], "Archived")}]_queueVars

\* Recovery takes a task only when its lease has run out, although it judges
\* by a clock it read before it waited for the transaction.
RecoveryOnlyAfterExpiry ==
  [][\A t \in DOMAIN tasks, i \in DOMAIN taskEvents' :
       /\ i > Len(taskEvents)
       /\ taskEvents'[i].task = t
       /\ taskEvents'[i].reason.kind = "lease_expired"
       => tasks[t].lease < now]_queueVars

\* A task is leased only when no older task of the same or a better priority
\* is left waiting in the queue.
NoOvertaking ==
  [][\A t, u \in DOMAIN tasks :
       /\ tasks[t].attempts # tasks'[t].attempts
       /\ tasks[u].status = "Queued" /\ tasks'[u].status = "Queued"
       => \/ tasks[t].priority < tasks[u].priority
          \/ tasks[t].priority = tasks[u].priority /\ t < u]_queueVars
=============================================================================
