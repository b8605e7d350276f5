-------------------------- MODULE ApprovalsProofs --------------------------
(***************************************************************************)
(* What TLAPS proves of the approvals, for every set of clients, lifetimes *)
(* and workers and for every bound: the service takes only steps of the    *)
(* queue, a decision is final and in time, and a cloud task runs only      *)
(* after an approval.                                                      *)
(***************************************************************************)
EXTENDS Approvals, TaskHistoryProofs

-----------------------------------------------------------------------------
(***************************************************************************)
(* The service as a user of the queue                                      *)
(***************************************************************************)

\* The reasons the callers give are among those the queue is told of.
LEMMA ReasonsOfCallers ==
  /\ CancelReason \in CallerReasons
  /\ WorkerReason \in CallerReasons
  /\ \A a \in ApprovalIds, kind \in {"approval", "approval_rejected"} :
       [kind |-> kind, by |-> a] \in CallerReasons
BY ApprovalAssumption DEF DecisionReasons

\* A move by any caller is a move of the queue.
LEMMA MovesAreQueueMoves ==
  ASSUME QueueTypeOK, NEW t, NEW target \in Status, NEW reason \in CallerReasons,
         Transition(t, target, reason)
  PROVE  QueueNext
<1>1. t \in TaskIds
  BY RowTypes DEF Transition
<1>2. QED
  BY <1>1 DEF QueueNext

\* Each step of the service, and of the queue's other callers, is a step of the
\* queue or leaves its tables alone.
LEMMA StepIsQueueStep ==
  ASSUME QueueTypeOK, [Next]_vars
  PROVE  [QueueNext]_queueVars
<1>1. ASSUME NEW t \in TaskIds, Cancel(t) PROVE QueueNext
  BY <1>1, MovesAreQueueMoves, ReasonsOfCallers DEF Cancel, Status
<1>2. ASSUME NEW t \in TaskIds, NEW target \in Status, WorkerMove(t, target)
      PROVE  QueueNext
  BY <1>2, MovesAreQueueMoves, ReasonsOfCallers DEF WorkerMove
<1>3. ASSUME QueueStep PROVE QueueNext
  BY <1>1, <1>2, <1>3 DEF QueueStep, QueueNext
<1>4. ASSUME NEW a \in ApprovalIds, NEW at \in RecentTimes,
             Approve(a, at) \/ Reject(a, at)
      PROVE  QueueNext
  <2>1. CASE Approve(a, at)
    BY <2>1, MovesAreQueueMoves, ReasonsOfCallers DEF Approve, Decide, Status
  <2>2. CASE Reject(a, at)
    BY <2>2, MovesAreQueueMoves, ReasonsOfCallers DEF Reject, Decide, Status
  <2>3. QED
    BY <1>4, <2>1, <2>2
<1>5. ASSUME ApprovalStep PROVE QueueNext \/ UNCHANGED queueVars
  BY <1>4, <1>5
     DEF ApprovalStep, CheckRequest, InsertRequest, Restart, ExpireOnUse
<1>6. CASE UNCHANGED vars
  BY <1>6 DEF vars
<1>7. QED
  BY <1>3, <1>5, <1>6 DEF Next

\* The tables of the queue keep their types.
THEOREM QueueTypesHold == Spec => []QueueTypeOK
<1>1. Init => QueueTypeOK
  BY QueueAssumption DEF Init, QueueInit, QueueTypeOK
<1>2. QueueTypeOK /\ [Next]_vars => QueueTypeOK'
  BY StepIsQueueStep, QueueTypeStep
<1>3. QED
  BY <1>1, <1>2, PTL DEF Spec

\* Approvals and queue together behave, on the queue's tables, as the queue.
THEOREM ImplementsQueueHolds == Spec => ImplementsQueue
<1>1. Init => QueueInit
  BY DEF Init
<1>2. QueueTypeOK /\ [Next]_vars => [QueueNext]_queueVars
  BY StepIsQueueStep
<1>3. QED
  BY <1>1, <1>2, QueueTypesHold, PTL DEF Spec, ImplementsQueue, QueueSpec

-----------------------------------------------------------------------------
(***************************************************************************)
(* The approvals table                                                     *)
(***************************************************************************)

\* A row of the table is a well-typed approval.
LEMMA ApprovalRowTypes ==
  ASSUME ApprovalTypeOK, NEW a \in DOMAIN approvals
  PROVE  approvals[a] \in ApprovalRows
BY DEF ApprovalTypeOK

\* The times the service judges by are natural numbers.
LEMMA RecentTimesAreNat ==
  ASSUME QueueTypeOK
  PROVE  /\ now \in Nat
         /\ RecentTimes \subseteq Nat
BY QueueAssumption DEF QueueTypeOK, RecentTimes

\* What a step does to the table: nothing, append the approval of a request, or
\* resolve a pending one by the clock.
ApprovalIsAdded ==
  \E c \in Clients :
    /\ inFlight[c] # None
    /\ Len(approvals) < MaxApprovals
    /\ approvals' = Append(approvals, [ task       |-> inFlight[c].task,
                                        status     |-> "Pending",
                                        expires    |-> inFlight[c].expires,
                                        resolvedAt |-> None ])

ApprovalIsResolved ==
  \E a \in DOMAIN approvals, at \in Nat,
    verdict \in {"Approved", "Rejected", "Expired"} :
    /\ approvals[a].status = "Pending"
    /\ verdict # "Expired" => ~HasExpired(a, at)
    /\ Resolve(a, verdict, at)

\* Every step does one of the three.
LEMMA StepsOnApprovals ==
  ASSUME QueueTypeOK, [Next]_vars
  PROVE  approvals' = approvals \/ ApprovalIsAdded \/ ApprovalIsResolved
<1>1. ASSUME QueueStep PROVE approvals' = approvals
  BY <1>1 DEF QueueStep, approvalVars
<1>2. ASSUME NEW c \in Clients, InsertRequest(c) PROVE ApprovalIsAdded
  BY <1>2 DEF InsertRequest, ApprovalIsAdded
<1>3. ASSUME NEW a \in ApprovalIds, NEW at \in RecentTimes, ExpireOnUse(a, at)
      PROVE  ApprovalIsResolved
  BY <1>3, RecentTimesAreNat DEF ExpireOnUse, Usable, ApprovalIsResolved
<1>4. ASSUME NEW a \in ApprovalIds, NEW at \in RecentTimes,
             NEW verdict \in {"Approved", "Rejected"}, NEW target, NEW kind,
             Decide(a, at, verdict, target, kind)
      PROVE  ApprovalIsResolved
  BY <1>4, RecentTimesAreNat DEF Decide, Usable, ApprovalIsResolved
<1>5. ASSUME ApprovalStep
      PROVE  approvals' = approvals \/ ApprovalIsAdded \/ ApprovalIsResolved
  BY <1>2, <1>3, <1>4, <1>5
     DEF ApprovalStep, CheckRequest, Restart, Approve, Reject
<1>6. CASE UNCHANGED vars
  BY <1>6 DEF vars, approvalVars
<1>7. QED
  BY <1>1, <1>5, <1>6 DEF Next

\* What an appended approval leaves alone.
LEMMA AddedApproval ==
  ASSUME ApprovalTypeOK, NEW row, approvals' = Append(approvals, row)
  PROVE  /\ DOMAIN approvals' = DOMAIN approvals \cup {Len(approvals) + 1}
         /\ approvals'[Len(approvals) + 1] = row
         /\ \A a \in DOMAIN approvals : approvals'[a] = approvals[a]
BY DEF ApprovalTypeOK

\* The table, the column and the requests in flight keep their types.
LEMMA ApprovalTypeStep ==
  ASSUME QueueTypeOK, ApprovalTypeOK, [Next]_vars
  PROVE  ApprovalTypeOK'
<1>1. /\ approvals' \in Seq(ApprovalRows)
      /\ Len(approvals') <= MaxApprovals
  <2>1. CASE approvals' = approvals
    BY <2>1 DEF ApprovalTypeOK
  <2>2. CASE ApprovalIsAdded
    <3>1. PICK c \in Clients :
            /\ inFlight[c] # None
            /\ Len(approvals) < MaxApprovals
            /\ approvals' = Append(approvals, [ task       |-> inFlight[c].task,
                                                status     |-> "Pending",
                                                expires    |-> inFlight[c].expires,
                                                resolvedAt |-> None ])
      BY <2>2 DEF ApprovalIsAdded
    <3>2. inFlight[c] \in RequestsInFlight
      BY <3>1 DEF ApprovalTypeOK
    <3>3. QED
      BY <3>1, <3>2, ApprovalAssumption
         DEF ApprovalTypeOK, RequestsInFlight, ApprovalRows
  <2>3. CASE ApprovalIsResolved
    <3>1. PICK a \in DOMAIN approvals, at \in Nat,
               verdict \in {"Approved", "Rejected", "Expired"} :
            Resolve(a, verdict, at)
      BY <2>3 DEF ApprovalIsResolved
    <3>2. approvals[a] \in ApprovalRows
      BY ApprovalRowTypes
    <3>3. [approvals[a] EXCEPT !.status = verdict, !.resolvedAt = at]
            \in ApprovalRows
      BY <3>2 DEF ApprovalRows
    <3>4. approvals' \in Seq(ApprovalRows) /\ Len(approvals') = Len(approvals)
      BY <3>1, <3>3 DEF Resolve, ApprovalTypeOK
    <3>5. QED
      BY <3>4 DEF ApprovalTypeOK
  <2>4. QED
    BY <2>1, <2>2, <2>3, StepsOnApprovals
<1>2. approvalId' \in [TaskIds -> ApprovalIds \cup {None}]
  <2>1. ASSUME NEW c \in Clients, InsertRequest(c)
        PROVE  approvalId' \in [TaskIds -> ApprovalIds \cup {None}]
    <3>1. Len(approvals) + 1 \in ApprovalIds
      BY <2>1, ApprovalAssumption DEF InsertRequest, ApprovalIds, ApprovalTypeOK
    <3>2. QED
      BY <2>1, <3>1 DEF InsertRequest, ApprovalTypeOK
  <2>2. CASE UNCHANGED approvalId
    BY <2>2 DEF ApprovalTypeOK
  <2>3. QED
    BY <2>1, <2>2
       DEF Next, vars, QueueStep, approvalVars, ApprovalStep, CheckRequest, Restart,
           ExpireOnUse, Approve, Reject, Decide
<1>3. inFlight' \in [Clients -> RequestsInFlight \cup {None}]
  <2>1. ASSUME NEW c \in Clients, NEW t \in TaskIds, NEW lifetime \in Lifetimes,
               CheckRequest(c, t, lifetime)
        PROVE  inFlight' \in [Clients -> RequestsInFlight \cup {None}]
    <3>1. [task |-> t, expires |-> now + lifetime] \in RequestsInFlight
      BY RecentTimesAreNat, ApprovalAssumption DEF RequestsInFlight
    <3>2. QED
      BY <2>1, <3>1 DEF CheckRequest, ApprovalTypeOK
  <2>2. ASSUME NEW c \in Clients, InsertRequest(c)
        PROVE  inFlight' \in [Clients -> RequestsInFlight \cup {None}]
    BY <2>2 DEF InsertRequest, ApprovalTypeOK
  <2>3. CASE Restart
    BY <2>3 DEF Restart
  <2>4. CASE UNCHANGED inFlight
    BY <2>4 DEF ApprovalTypeOK
  <2>5. QED
    BY <2>1, <2>2, <2>3, <2>4
       DEF Next, vars, QueueStep, approvalVars, ApprovalStep, ExpireOnUse, Approve,
           Reject, Decide
<1>4. QED
  BY <1>1, <1>2, <1>3 DEF ApprovalTypeOK

\* The types hold in every reachable state.
THEOREM ApprovalTypesHold == Spec => []ApprovalTypeOK
<1>1. Init => ApprovalTypeOK
  BY ApprovalAssumption DEF Init, ApprovalTypeOK
<1>2. QueueTypeOK /\ ApprovalTypeOK /\ [Next]_vars => ApprovalTypeOK'
  BY ApprovalTypeStep
<1>3. QED
  BY <1>1, <1>2, QueueTypesHold, PTL DEF Spec

\* A verdict is never changed, nor what the approval is for: no token works
\* twice (service.py:119-120, 185-186).
THEOREM DecisionsAreFinalHolds == Spec => DecisionsAreFinal
<1> DEFINE Final == \A a \in DOMAIN approvals :
                      /\ a \in DOMAIN approvals'
                      /\ approvals'[a].task = approvals[a].task
                      /\ approvals'[a].expires = approvals[a].expires
                      /\ approvals[a].status # "Pending" =>
                           approvals'[a] = approvals[a]
<1>1. QueueTypeOK /\ ApprovalTypeOK /\ [Next]_vars => [Final]_vars
  <2> SUFFICES ASSUME QueueTypeOK, ApprovalTypeOK, [Next]_vars
               PROVE  Final
    OBVIOUS
  <2>1. CASE approvals' = approvals
    BY <2>1
  <2>2. CASE ApprovalIsAdded
    BY <2>2, AddedApproval DEF ApprovalIsAdded
  <2>3. CASE ApprovalIsResolved
    <3>1. PICK a \in DOMAIN approvals, at \in Nat,
               verdict \in {"Approved", "Rejected", "Expired"} :
            approvals[a].status = "Pending" /\ Resolve(a, verdict, at)
      BY <2>3 DEF ApprovalIsResolved
    <3>2. approvals[a] \in ApprovalRows
      BY ApprovalRowTypes
    <3>3. QED
      BY <3>1, <3>2 DEF Resolve, ApprovalRows
  <2>4. QED
    BY <2>1, <2>2, <2>3, StepsOnApprovals
<1>2. QED
  BY <1>1, QueueTypesHold, ApprovalTypesHold, PTL DEF Spec, DecisionsAreFinal

\* Nothing is decided at or after its expiry (service.py:123-124, 189).
THEOREM DecisionsInTimeHolds == Spec => []DecisionsInTime
<1>1. Init => DecisionsInTime
  BY DEF Init, DecisionsInTime
<1>2. QueueTypeOK /\ ApprovalTypeOK /\ DecisionsInTime /\ [Next]_vars
        => DecisionsInTime'
  <2> SUFFICES ASSUME QueueTypeOK, ApprovalTypeOK, DecisionsInTime, [Next]_vars
               PROVE  DecisionsInTime'
    OBVIOUS
  <2>1. CASE approvals' = approvals
    BY <2>1 DEF DecisionsInTime
  <2>2. CASE ApprovalIsAdded
    BY <2>2, AddedApproval DEF ApprovalIsAdded, DecisionsInTime
  <2>3. CASE ApprovalIsResolved
    <3>1. PICK a \in DOMAIN approvals, at \in Nat,
               verdict \in {"Approved", "Rejected", "Expired"} :
            /\ verdict # "Expired" => ~HasExpired(a, at)
            /\ Resolve(a, verdict, at)
      BY <2>3 DEF ApprovalIsResolved
    <3>2. approvals[a] \in ApprovalRows
      BY ApprovalRowTypes
    <3>3. QED
      BY <3>1, <3>2 DEF Resolve, ApprovalRows, HasExpired, DecisionsInTime
  <2>4. QED
    BY <2>1, <2>2, <2>3, StepsOnApprovals
<1>3. QED
  BY <1>1, <1>2, QueueTypesHold, ApprovalTypesHold, PTL DEF Spec

-----------------------------------------------------------------------------
(***************************************************************************)
(* Cloud tasks.  Until its first approval a cloud task is locked: it waits *)
(* or has ended, and no move leads from there to where workers look.       *)
(***************************************************************************)

Locked == {"WaitingForApproval", "Failed", "Cancelled", "Archived"}

HasApproval(t) == \E j \in EventsOf(t) : taskEvents[j].reason.kind = "approval"

CloudInv ==
  /\ \A i \in DOMAIN taskEvents : taskEvents[i].task \in DOMAIN tasks
  /\ \A t \in DOMAIN tasks : CreatedForCloud(t) =>
       /\ RunsOnlyAfterApproval(t)
       /\ HasApproval(t) \/ tasks[t].status \in Locked

\* What a step may write that moves tasks: events of tasks there are, none of
\* which makes a cloud task of one, runs a locked task, or leaves an unlocked
\* status to a locked task that has no approval.
UnlocksOnlyByApproval(events) ==
  /\ DOMAIN tasks' = DOMAIN tasks
  /\ \A i \in 1..Len(events) :
       /\ events[i].task \in DOMAIN tasks
       /\ events[i].reason.kind # "cloud_manual"
       /\ events[i].to = "Running" => tasks[events[i].task].status \notin Locked
  /\ \A t \in DOMAIN tasks :
       \/ tasks[t].status \notin Locked
       \/ tasks'[t].status \in Locked
       \/ \E i \in 1..Len(events) : /\ events[i].task = t
                                    /\ events[i].reason.kind = "approval"

\* Such a step keeps the invariant.
LEMMA MovesKeepCloudInv ==
  ASSUME QueueTypeOK, CloudInv, NEW rows, NEW events, events \in Seq(EventRows),
         Commit(rows, events), UnlocksOnlyByApproval(events)
  PROVE  CloudInv'
<1> DEFINE n == Len(taskEvents)
<1>1. /\ n \in Nat /\ DOMAIN taskEvents = 1..n
      /\ Len(events) \in Nat
  BY LenProperties DEF QueueTypeOK
<1>2. /\ DOMAIN taskEvents' = 1..(n + Len(events))
      /\ \A i \in 1..n : taskEvents'[i] = taskEvents[i]
      /\ \A i \in 1..Len(events) : taskEvents'[n + i] = events[i]
  BY <1>1, CommitAppends
<1>3. ASSUME NEW i \in DOMAIN taskEvents', i \notin 1..n
      PROVE  /\ i - n \in 1..Len(events)
             /\ taskEvents'[i] = events[i - n]
             /\ i > n
  <2>1. i - n \in 1..Len(events) /\ i > n /\ n + (i - n) = i
    BY <1>1, <1>2, <1>3
  <2>2. taskEvents'[n + (i - n)] = events[i - n]
    BY <1>2, <2>1
  <2>3. QED
    BY <2>1, <2>2
<1>4. ASSUME NEW i \in DOMAIN taskEvents'
      PROVE  taskEvents'[i].task \in DOMAIN tasks'
  BY <1>1, <1>2, <1>3 DEF CloudInv, UnlocksOnlyByApproval
<1>5. ASSUME NEW t \in DOMAIN tasks', CreatedForCloud(t)'
      PROVE  RunsOnlyAfterApproval(t)' /\ (HasApproval(t)' \/ tasks'[t].status \in Locked)
  <2>1. t \in DOMAIN tasks
    BY DEF UnlocksOnlyByApproval
  <2>2. PICK i \in DOMAIN taskEvents' :
          taskEvents'[i].task = t /\ taskEvents'[i].reason.kind = "cloud_manual"
    BY <1>5 DEF CreatedForCloud, EventsOf
  <2>3. i \in 1..n
    BY <1>3, <2>2 DEF UnlocksOnlyByApproval
  <2>4. CreatedForCloud(t)
    BY <1>1, <1>2, <2>2, <2>3 DEF CreatedForCloud, EventsOf
  <2>5. RunsOnlyAfterApproval(t) /\ (HasApproval(t) \/ tasks[t].status \in Locked)
    BY <2>1, <2>4 DEF CloudInv
  <2>6. HasApproval(t) => \E j \in 1..n : /\ j \in EventsOf(t)'
                                          /\ taskEvents'[j].reason.kind = "approval"
    BY <1>1, <1>2 DEF HasApproval, EventsOf
  <2>7. ASSUME NEW k \in EventsOf(t)', taskEvents'[k].to = "Running"
        PROVE  \E j \in EventsOf(t)' : j < k /\ taskEvents'[j].reason.kind = "approval"
    <3>1. k \in DOMAIN taskEvents' /\ taskEvents'[k].task = t
      BY <2>7 DEF EventsOf
    <3>2. CASE k \in 1..n
      <4>1. k \in EventsOf(t) /\ taskEvents[k].to = "Running"
        BY <1>1, <1>2, <2>7, <3>1, <3>2 DEF EventsOf
      <4>2. PICK j \in EventsOf(t) : j < k /\ taskEvents[j].reason.kind = "approval"
        BY <2>5, <4>1 DEF RunsOnlyAfterApproval
      <4>3. j \in 1..n
        BY <1>1 DEF EventsOf
      <4>4. j \in EventsOf(t)' /\ taskEvents'[j].reason.kind = "approval"
        BY <1>1, <1>2, <4>2, <4>3 DEF EventsOf
      <4>5. QED
        BY <4>2, <4>4
    <3>3. CASE k \notin 1..n
      <4>1. tasks[t].status \notin Locked /\ k > n
        BY <1>3, <2>7, <3>1, <3>3 DEF UnlocksOnlyByApproval
      <4>2. PICK j \in 1..n : /\ j \in EventsOf(t)'
                              /\ taskEvents'[j].reason.kind = "approval"
        BY <2>5, <2>6, <4>1
      <4>3. j < k
        BY <1>1, <1>2, <3>1, <4>1
      <4>4. QED
        BY <4>2, <4>3
    <3>4. QED
      BY <3>2, <3>3
  <2>8. ASSUME NEW e \in 1..Len(events), events[e].task = t,
               events[e].reason.kind = "approval"
        PROVE  HasApproval(t)'
    <3>1. n + e \in DOMAIN taskEvents' /\ taskEvents'[n + e] = events[e]
      BY <1>1, <1>2
    <3>2. QED
      BY <2>8, <3>1 DEF HasApproval, EventsOf
  <2>9. HasApproval(t)' \/ tasks'[t].status \in Locked
    <3>1. HasApproval(t) => HasApproval(t)'
      BY <2>6 DEF HasApproval
    <3>2. QED
      BY <2>1, <2>5, <2>8, <3>1 DEF UnlocksOnlyByApproval
  <2>10. QED
    BY <2>7, <2>9 DEF RunsOnlyAfterApproval
<1>6. QED
  BY <1>4, <1>5 DEF CloudInv

\* A move of one task keeps the invariant when it starts from an unlocked status,
\* ends in a locked one, or is the release of an approval.
LEMMA OneMoveKeepsCloudInv ==
  ASSUME QueueTypeOK, CloudInv,
         NEW t \in DOMAIN tasks, NEW row, NEW event \in EventRows,
         event.task = t, event.reason.kind # "cloud_manual",
         event.to = "Running" => tasks[t].status \notin Locked,
         \/ tasks[t].status \notin Locked
         \/ row.status \in Locked
         \/ event.reason.kind = "approval",
         Commit([tasks EXCEPT ![t] = row], <<event>>)
  PROVE  CloudInv'
<1>1. /\ <<event>> \in Seq(EventRows)
      /\ Len(<<event>>) = 1
      /\ <<event>>[1] = event
  OBVIOUS
<1>2. tasks' = [tasks EXCEPT ![t] = row]
  BY DEF Commit
<1>3. \A u \in DOMAIN tasks : u # t => tasks'[u] = tasks[u]
  BY <1>2
<1>4. tasks'[t] = row /\ DOMAIN tasks' = DOMAIN tasks
  BY <1>2
<1>5. ASSUME NEW u \in DOMAIN tasks
      PROVE  \/ tasks[u].status \notin Locked
             \/ tasks'[u].status \in Locked
             \/ \E i \in 1..Len(<<event>>) : /\ <<event>>[i].task = u
                                            /\ <<event>>[i].reason.kind = "approval"
  BY <1>1, <1>3, <1>4
<1>6. ASSUME NEW i \in 1..Len(<<event>>)
      PROVE  /\ <<event>>[i].task \in DOMAIN tasks
             /\ <<event>>[i].reason.kind # "cloud_manual"
             /\ <<event>>[i].to = "Running" =>
                  tasks[<<event>>[i].task].status \notin Locked
  BY <1>1
<1>7. UnlocksOnlyByApproval(<<event>>)
  BY <1>4, <1>5, <1>6 DEF UnlocksOnlyByApproval
<1>8. QED
  BY <1>1, <1>7, MovesKeepCloudInv

\* So does a move by a caller of transition.
LEMMA TransitionKeepsCloudInv ==
  ASSUME QueueTypeOK, CloudInv,
         NEW t, NEW target \in Status, NEW reason \in CallerReasons,
         reason.kind # "cloud_manual",
         Transition(t, target, reason),
         \/ tasks[t].status \notin Locked
         \/ target \in Locked
         \/ reason.kind = "approval" /\ target # "Running"
  PROVE  CloudInv'
<1> DEFINE event == EventOf(t, tasks[t].status, target, reason)
           row   == Moved(tasks[t], target)
<1>1. t \in DOMAIN tasks
  BY DEF Transition
<1>2. tasks[t] \in TaskRows /\ t \in TaskIds
  BY <1>1, RowTypes
<1>3. event \in EventRows
  BY <1>2 DEF EventOf, EventRows, Reasons, TaskRows
<1>4. event.task = t /\ event.to = target /\ event.reason = reason
  BY DEF EventOf
<1>5. row.status = target
  BY <1>2 DEF Moved, TaskRows
<1>6. Commit([tasks EXCEPT ![t] = row], <<event>>)
  BY DEF Transition
<1>7. "Running" \notin Locked
  BY DEF Locked
<1> HIDE DEF event, row
<1>8. QED
  BY <1>1, <1>3, <1>4, <1>5, <1>6, <1>7, OneMoveKeepsCloudInv

\* A lease takes a task from the queue, where no locked task is.
LEMMA LeaseKeepsCloudInv ==
  ASSUME QueueTypeOK, CloudInv, NEW w \in Workers, NEW at \in Nat, LeaseNext(w, at)
  PROVE  CloudInv'
<1> DEFINE event(t) == EventOf(t, "Queued", "Running", [kind |-> "leased", by |-> w])
           row(t)   == Leased(tasks[t], w, at + LeaseSeconds)
<1>1. PICK t \in DOMAIN tasks :
        t \in Queued /\ Commit([tasks EXCEPT ![t] = row(t)], <<event(t)>>)
  BY DEF LeaseNext, NextInLine
<1>2. tasks[t].status \notin Locked
  BY <1>1 DEF Queued, Locked
<1>3. event(t) \in EventRows
  <2>1. t \in TaskIds
    BY RowTypes
  <2>2. QED
    BY <2>1 DEF EventOf, EventRows, Reasons, Status
<1>4. event(t).task = t /\ event(t).reason.kind # "cloud_manual"
  BY DEF EventOf
<1> HIDE DEF event, row
<1>5. QED
  BY <1>1, <1>2, <1>3, <1>4, OneMoveKeepsCloudInv

\* The recovery of leases takes running tasks, which are not locked, and runs
\* none of them.
LEMMA RecoveryKeepsCloudInv ==
  ASSUME QueueTypeOK, CloudInv, NEW at, RecoverExpiredLeases(at)
  PROVE  CloudInv'
<1>1. PICK events \in Seq(EventRows) :
        /\ Commit(RecoveredRows(at), events)
        /\ \A i \in 1..Len(events) : /\ events[i].task \in Expired(at)
                                     /\ events[i] = LostEvent(events[i].task)
  BY RecoveryCommits
<1>2. \A t \in Expired(at) : t \in DOMAIN tasks /\ tasks[t].status \notin Locked
  BY DEF Expired, Locked
<1>3. \A t : LostEvent(t).reason.kind = "lease_expired" /\ LostEvent(t).to # "Running"
  BY DEF LostEvent, EventOf, RecoveredStatus
<1>4. /\ DOMAIN tasks' = DOMAIN tasks
      /\ \A t \in DOMAIN tasks : t \notin Expired(at) => tasks'[t] = tasks[t]
  BY <1>1 DEF Commit, RecoveredRows
<1>5. ASSUME NEW i \in 1..Len(events)
      PROVE  /\ events[i].task \in DOMAIN tasks
             /\ events[i].reason.kind # "cloud_manual"
             /\ events[i].to # "Running"
  BY <1>1, <1>2, <1>3
<1>6. UnlocksOnlyByApproval(events)
  BY <1>2, <1>4, <1>5 DEF UnlocksOnlyByApproval
<1>7. QED
  BY <1>1, <1>6, MovesKeepCloudInv

\* A new task has one event, which does not run it; a new cloud task is locked.
LEMMA CreateKeepsCloudInv ==
  ASSUME QueueTypeOK, CloudInv, NEW req \in Requests,
         NEW parent \in TaskIds \cup {None}, CreateInTransaction(req, parent)
  PROVE  CloudInv'
<1> DEFINE n     == Len(taskEvents)
           id    == Len(tasks) + 1
           row   == NewRow(req, parent)
           event == EventOf(id, None, row.status, CreationReason(req))
<1>1. /\ n \in Nat /\ DOMAIN taskEvents = 1..n
      /\ Len(tasks) \in Nat /\ DOMAIN tasks = 1..Len(tasks)
  BY LenProperties DEF QueueTypeOK
<1>2. taskEvents' = Append(taskEvents, event) /\ tasks' = Append(tasks, row)
  <2>1. taskEvents' = taskEvents \o <<event>>
    BY DEF CreateInTransaction, Commit
  <2>2. taskEvents \o <<event>> = Append(taskEvents, event)
    BY DEF QueueTypeOK
  <2>3. QED
    BY <2>1, <2>2 DEF CreateInTransaction, Commit
<1>3. /\ row.status \in {"WaitingForApproval", "Queued"}
      /\ req.cloudManual <=> row.status = "WaitingForApproval"
      /\ event.task = id
      /\ event.to = row.status
      /\ event.reason.kind = "cloud_manual" => req.cloudManual
  BY DEF NewRow, EventOf, CreationReason, Requests
<1> HIDE DEF event, row
<1>4. /\ DOMAIN taskEvents' = 1..(n + 1)
      /\ taskEvents'[n + 1] = event
      /\ \A i \in 1..n : taskEvents'[i] = taskEvents[i]
      /\ DOMAIN tasks' = 1..id
      /\ tasks'[id] = row
      /\ \A t \in DOMAIN tasks : tasks'[t] = tasks[t]
  BY <1>1, <1>2 DEF QueueTypeOK
<1>5. \A i \in 1..n : taskEvents[i].task \in DOMAIN tasks
  BY <1>1 DEF CloudInv
<1>6. \A i \in DOMAIN taskEvents' : taskEvents'[i].task = id <=> i = n + 1
  <2>1. \A i \in 1..n : taskEvents'[i].task # id
    BY <1>1, <1>4, <1>5
  <2>2. QED
    BY <1>1, <1>3, <1>4, <2>1
<1>7. ASSUME NEW t \in DOMAIN tasks
      PROVE  /\ EventsOf(t)' = EventsOf(t)
             /\ EventsOf(t) \subseteq 1..n
  <2>1. t # id
    BY <1>1
  <2>2. QED
    BY <1>1, <1>3, <1>4, <2>1 DEF EventsOf
<1>8. \A i \in DOMAIN taskEvents' : taskEvents'[i].task \in DOMAIN tasks'
  BY <1>1, <1>3, <1>4, <1>5
<1>9. ASSUME NEW t \in DOMAIN tasks', CreatedForCloud(t)'
      PROVE  RunsOnlyAfterApproval(t)' /\ (HasApproval(t)' \/ tasks'[t].status \in Locked)
  <2>1. CASE t = id
    <3>1. taskEvents'[n + 1].reason.kind = "cloud_manual"
      BY <1>6, <1>9, <2>1 DEF CreatedForCloud, EventsOf
    <3>2. row.status = "WaitingForApproval"
      BY <1>3, <1>4, <3>1
    <3>3. tasks'[t].status \in Locked
      BY <1>4, <2>1, <3>2 DEF Locked
    <3>4. \A i \in EventsOf(t)' : taskEvents'[i].to # "Running"
      BY <1>3, <1>4, <1>6, <2>1, <3>2 DEF EventsOf
    <3>5. QED
      BY <3>3, <3>4 DEF RunsOnlyAfterApproval
  <2>2. CASE t # id
    <3>1. t \in DOMAIN tasks
      BY <1>1, <1>4, <2>2
    <3>2. \A i \in EventsOf(t)' : i \in EventsOf(t) /\ taskEvents'[i] = taskEvents[i]
      BY <1>4, <1>7, <3>1
    <3>3. \A i \in EventsOf(t) : i \in EventsOf(t)' /\ taskEvents'[i] = taskEvents[i]
      BY <1>4, <1>7, <3>1
    <3>4. CreatedForCloud(t)
      BY <1>9, <3>2 DEF CreatedForCloud
    <3>5. RunsOnlyAfterApproval(t) /\ (HasApproval(t) \/ tasks[t].status \in Locked)
      BY <3>1, <3>4 DEF CloudInv
    <3>6. RunsOnlyAfterApproval(t)'
      BY <3>2, <3>3, <3>5 DEF RunsOnlyAfterApproval
    <3>7. HasApproval(t) => HasApproval(t)'
      BY <3>3 DEF HasApproval
    <3>8. QED
      BY <1>4, <3>1, <3>5, <3>6, <3>7
  <2>3. QED
    BY <2>1, <2>2
<1>10. QED
  BY <1>8, <1>9 DEF CloudInv

\* Every step keeps the invariant.
LEMMA CloudInvStep ==
  ASSUME QueueTypeOK, CloudInv, [Next]_vars
  PROVE  CloudInv'
<1>1. ASSUME NEW req \in Requests, Create(req) PROVE CloudInv'
  BY <1>1, CreateKeepsCloudInv DEF Create
<1>2. ASSUME NEW t \in TaskIds, Retry(t) PROVE CloudInv'
  <2>1. RetryRequest(tasks[t]) \in Requests
    BY <1>2, RowTypes, RetryRequestTypes DEF Retry
  <2>2. QED
    BY <1>2, <2>1, CreateKeepsCloudInv DEF Retry
<1>3. ASSUME NEW w \in Workers, NEW at \in RecentTimes, LeaseNext(w, at)
      PROVE  CloudInv'
  BY <1>3, LeaseKeepsCloudInv, RecentTimesAreNat
<1>4. ASSUME NEW at \in RecentTimes, RecoverExpiredLeases(at) PROVE CloudInv'
  BY <1>4, RecoveryKeepsCloudInv
<1>5. ASSUME NEW t \in TaskIds, Cancel(t) PROVE CloudInv'
  <2>1. /\ "Cancelled" \in Status \cap Locked
        /\ CancelReason.kind # "cloud_manual"
    BY DEF Status, Locked, CancelReason
  <2>2. QED
    BY <1>5, <2>1, TransitionKeepsCloudInv, ReasonsOfCallers DEF Cancel
<1>6. ASSUME NEW t \in TaskIds, NEW target \in Status, WorkerMove(t, target)
      PROVE  CloudInv'
  <2>1. tasks[t].status \notin Locked /\ WorkerReason.kind # "cloud_manual"
    BY <1>6 DEF WorkerMove, Locked, WorkerReason
  <2>2. QED
    BY <1>6, <2>1, TransitionKeepsCloudInv, ReasonsOfCallers DEF WorkerMove
<1>7. ASSUME NEW a \in ApprovalIds, NEW at \in RecentTimes, Approve(a, at)
      PROVE  CloudInv'
  <2>1. "Queued" \in Status
    BY DEF Status
  <2>2. Transition(approvals[a].task, "Queued", [kind |-> "approval", by |-> a])
    BY <1>7 DEF Approve, Decide
  <2>3. QED
    BY <2>1, <2>2, TransitionKeepsCloudInv, ReasonsOfCallers
<1>8. ASSUME NEW a \in ApprovalIds, NEW at \in RecentTimes, Reject(a, at)
      PROVE  CloudInv'
  <2>1. "Cancelled" \in Status \cap Locked
    BY DEF Status, Locked
  <2>2. Transition(approvals[a].task, "Cancelled",
                   [kind |-> "approval_rejected", by |-> a])
    BY <1>8 DEF Reject, Decide
  <2>3. QED
    BY <2>1, <2>2, TransitionKeepsCloudInv, ReasonsOfCallers
<1>9. CASE UNCHANGED <<tasks, taskEvents>>
  BY <1>9 DEF CloudInv, CreatedForCloud, RunsOnlyAfterApproval, HasApproval, EventsOf
<1>10. QED
  BY <1>1, <1>2, <1>3, <1>4, <1>5, <1>6, <1>7, <1>8, <1>9
     DEF Next, vars, queueVars, QueueStep, ApprovalStep, CheckRequest, InsertRequest,
         Restart, ExpireOnUse, Tick

\* A task created as cloud_manual runs only after an approval has released it.
THEOREM CloudTasksRunOnlyAfterApprovalHolds ==
  Spec => []CloudTasksRunOnlyAfterApproval
<1>1. Init => CloudInv
  BY DEF Init, QueueInit, CloudInv
<1>2. QueueTypeOK /\ CloudInv /\ [Next]_vars => CloudInv'
  BY CloudInvStep
<1>3. CloudInv => CloudTasksRunOnlyAfterApproval
  BY DEF CloudInv, CloudTasksRunOnlyAfterApproval
<1>4. QED
  BY <1>1, <1>2, <1>3, QueueTypesHold, PTL DEF Spec

-----------------------------------------------------------------------------
(***************************************************************************)
(* Verdicts and events.  An approval has the one event of its verdict, and *)
(* of no other; what is not in the table yet has none.                     *)
(***************************************************************************)

DecisionKinds == {"approval", "approval_rejected"}

VerdictOf(kind) == IF kind = "approval" THEN "Approved" ELSE "Rejected"

Decided(a, kind) == a \in DOMAIN approvals /\ approvals[a].status = VerdictOf(kind)

\* What the events say of a decision is what the table says of it.
EventsMatch(a, kind) ==
  IF Decided(a, kind)
  THEN \E i \in DOMAIN taskEvents : /\ DecisionEvents(a, kind) = {i}
                                    /\ taskEvents[i].task = approvals[a].task
  ELSE DecisionEvents(a, kind) = {}

DecisionInv == \A a \in ApprovalIds, kind \in DecisionKinds : EventsMatch(a, kind)

\* The events of a decision are neither added to nor changed.
SameEvents(a, kind) ==
  /\ DecisionEvents(a, kind)' = DecisionEvents(a, kind)
  /\ \A i \in DecisionEvents(a, kind) : i \in DOMAIN taskEvents'
                                        /\ taskEvents'[i] = taskEvents[i]

QuietStep == \A a \in ApprovalIds, kind \in DecisionKinds : SameEvents(a, kind)

\* Approval b gets the verdict of kind k, and with it the one event that says so.
DecisionIsWritten(b, k) ==
  /\ b \in DOMAIN approvals /\ approvals[b].status = "Pending"
  /\ \E at \in Nat : Resolve(b, VerdictOf(k), at)
  /\ \A a \in ApprovalIds, kind \in DecisionKinds :
       a # b \/ kind # k => SameEvents(a, kind)
  /\ \E i \in DOMAIN taskEvents' :
       /\ DecisionEvents(b, k)' = DecisionEvents(b, k) \cup {i}
       /\ taskEvents'[i].task = approvals[b].task

\* A commit whose events are not those of a decision leaves those alone.
LEMMA QuietCommit ==
  ASSUME QueueTypeOK, NEW a, NEW kind,
         NEW rows, NEW events, events \in Seq(EventRows), Commit(rows, events),
         \A i \in 1..Len(events) : events[i].reason # [kind |-> kind, by |-> a]
  PROVE  SameEvents(a, kind)
<1> DEFINE n == Len(taskEvents)
           r == [kind |-> kind, by |-> a]
<1>1. n \in Nat /\ DOMAIN taskEvents = 1..n /\ Len(events) \in Nat
  BY LenProperties DEF QueueTypeOK
<1>2. /\ DOMAIN taskEvents' = 1..(n + Len(events))
      /\ \A i \in 1..n : taskEvents'[i] = taskEvents[i]
      /\ \A i \in 1..Len(events) : taskEvents'[n + i] = events[i]
  BY <1>1, CommitAppends
<1> HIDE DEF r
<1>3. ASSUME NEW i \in DOMAIN taskEvents', taskEvents'[i].reason = r
      PROVE  i \in 1..n
  <2> SUFFICES ASSUME i \notin 1..n PROVE FALSE
    OBVIOUS
  <2>1. i - n \in 1..Len(events) /\ n + (i - n) = i
    BY <1>1, <1>2
  <2>2. taskEvents'[i] = events[i - n]
    BY <1>2, <2>1
  <2>3. QED
    BY <1>3, <2>1, <2>2 DEF r
<1>4. QED
  BY <1>1, <1>2, <1>3 DEF SameEvents, DecisionEvents, r

\* So does the creation of a task, and a step that writes no event.
LEMMA QuietCreate ==
  ASSUME QueueTypeOK, NEW req \in Requests, NEW parent \in TaskIds \cup {None},
         CreateInTransaction(req, parent)
  PROVE  QuietStep
<1> DEFINE id    == Len(tasks) + 1
           row   == NewRow(req, parent)
           event == EventOf(id, None, row.status, CreationReason(req))
<1>1. event \in EventRows
  <2>1. id \in TaskIds
    BY LenProperties, QueueAssumption DEF CreateInTransaction, TaskIds, QueueTypeOK
  <2>2. CreationReason(req) \in Reasons
    BY DEF CreationReason, Reasons
  <2>3. row.status \in Status
    BY DEF NewRow, Status
  <2>4. QED
    BY <2>1, <2>2, <2>3 DEF EventOf, EventRows
<1>2. event.reason.kind \notin DecisionKinds
  BY DEF EventOf, CreationReason, DecisionKinds
<1>3. Commit(Append(tasks, row), <<event>>)
  BY DEF CreateInTransaction
<1> HIDE DEF event
<1>4. ASSUME NEW a \in ApprovalIds, NEW kind \in DecisionKinds
      PROVE  SameEvents(a, kind)
  <2>1. event.reason # [kind |-> kind, by |-> a]
    BY <1>2
  <2>2. <<event>> \in Seq(EventRows) /\ \A i \in 1..Len(<<event>>) : <<event>>[i] = event
    BY <1>1
  <2>3. QED
    BY <1>3, <2>1, <2>2, QuietCommit
<1>5. QED
  BY <1>4 DEF QuietStep

\* So does a move for another reason, and a decision writes its own event.
LEMMA DecisionEventsOfMove ==
  ASSUME QueueTypeOK, NEW t, NEW target \in Status, NEW reason \in CallerReasons,
         Transition(t, target, reason)
  PROVE  /\ \A a, kind : reason # [kind |-> kind, by |-> a] => SameEvents(a, kind)
         /\ \A a, kind : reason = [kind |-> kind, by |-> a] =>
              \E i \in DOMAIN taskEvents' :
                /\ DecisionEvents(a, kind)' = DecisionEvents(a, kind) \cup {i}
                /\ taskEvents'[i].task = t
<1> DEFINE n     == Len(taskEvents)
           event == EventOf(t, tasks[t].status, target, reason)
           rows  == [tasks EXCEPT ![t] = Moved(tasks[t], target)]
<1>1. event \in EventRows /\ event.reason = reason /\ event.task = t
  <2>1. t \in TaskIds /\ tasks[t] \in TaskRows
    BY RowTypes DEF Transition
  <2>2. QED
    BY <2>1 DEF EventOf, EventRows, Reasons, TaskRows
<1>2. Commit(rows, <<event>>)
  BY DEF Transition
<1> HIDE DEF event, rows
<1>3. /\ <<event>> \in Seq(EventRows) /\ Len(<<event>>) = 1
      /\ \A i \in 1..Len(<<event>>) : <<event>>[i] = event
  BY <1>1
<1>4. ASSUME NEW a, NEW kind, reason # [kind |-> kind, by |-> a]
      PROVE  SameEvents(a, kind)
  BY <1>1, <1>2, <1>3, <1>4, QuietCommit
<1>5. n \in Nat /\ DOMAIN taskEvents = 1..n
  BY LenProperties DEF QueueTypeOK
<1>6. /\ DOMAIN taskEvents' = 1..(n + 1)
      /\ \A i \in 1..n : taskEvents'[i] = taskEvents[i]
      /\ taskEvents'[n + 1] = event
  <2> DEFINE events == <<event>>
  <2>1. 1 \in 1..Len(events) /\ events[1] = event /\ Len(events) = 1
    BY <1>3
  <2>2. events \in Seq(EventRows) /\ Commit(rows, events)
    BY <1>2, <1>3
  <2> HIDE DEF events
  <2>3. QED
    BY <1>5, <2>1, <2>2, CommitAppends
<1>7. ASSUME NEW a, NEW kind, reason = [kind |-> kind, by |-> a]
      PROVE  /\ DecisionEvents(a, kind)' = DecisionEvents(a, kind) \cup {n + 1}
             /\ taskEvents'[n + 1].task = t
             /\ n + 1 \in DOMAIN taskEvents'
  BY <1>1, <1>5, <1>6, <1>7 DEF DecisionEvents
<1>8. QED
  BY <1>4, <1>7

\* What a step does to verdicts and their events: nothing to either, a request or
\* an expiry, which write no event, or one decision.
LEMMA StepsOnDecisions ==
  ASSUME QueueTypeOK, [Next]_vars
  PROVE  \/ QuietStep /\ approvals' = approvals
         \/ QuietStep /\ ApprovalIsAdded
         \/ /\ QuietStep
            /\ \E a \in DOMAIN approvals, at \in Nat :
                 approvals[a].status = "Pending" /\ Resolve(a, "Expired", at)
         \/ \E b \in ApprovalIds, k \in DecisionKinds : DecisionIsWritten(b, k)
<1>1. ASSUME UNCHANGED taskEvents PROVE QuietStep
  BY <1>1 DEF QuietStep, SameEvents, DecisionEvents
<1>2. ASSUME NEW t, NEW target \in Status, NEW reason \in CallerReasons,
             reason.kind \notin DecisionKinds, Transition(t, target, reason)
      PROVE  QuietStep
  <2>1. \A a, kind : reason = [kind |-> kind, by |-> a] => reason.kind = kind
    OBVIOUS
  <2>2. QED
    BY <1>2, <2>1, DecisionEventsOfMove DEF QuietStep
<1>3. ASSUME QueueStep PROVE QuietStep /\ approvals' = approvals
  <2>1. ASSUME NEW req \in Requests, Create(req) PROVE QuietStep
    BY <2>1, QuietCreate DEF Create
  <2>2. ASSUME NEW t \in TaskIds, Retry(t) PROVE QuietStep
    <3>1. RetryRequest(tasks[t]) \in Requests
      BY <2>2, RowTypes, RetryRequestTypes DEF Retry
    <3>2. QED
      BY <2>2, <3>1, QuietCreate DEF Retry
  <2>3. ASSUME NEW w \in Workers, NEW at \in RecentTimes, LeaseNext(w, at)
        PROVE  QuietStep
    <3>1. PICK t \in DOMAIN tasks :
            Commit([tasks EXCEPT ![t] = Leased(tasks[t], w, at + LeaseSeconds)],
                   <<EventOf(t, "Queued", "Running", [kind |-> "leased", by |-> w])>>)
      BY <2>3 DEF LeaseNext
    <3> DEFINE event == EventOf(t, "Queued", "Running", [kind |-> "leased", by |-> w])
               rows  == [tasks EXCEPT ![t] = Leased(tasks[t], w, at + LeaseSeconds)]
    <3>2. t \in TaskIds
      BY RowTypes
    <3>3. event \in EventRows /\ event.reason.kind = "leased"
      BY <3>2 DEF EventOf, EventRows, Reasons, Status
    <3>4. Commit(rows, <<event>>)
      BY <3>1
    <3> HIDE DEF event, rows
    <3>5. /\ <<event>> \in Seq(EventRows)
          /\ \A i \in 1..Len(<<event>>) : <<event>>[i] = event
      BY <3>3
    <3>6. ASSUME NEW a, NEW kind \in DecisionKinds PROVE SameEvents(a, kind)
      <4>1. event.reason # [kind |-> kind, by |-> a]
        BY <3>3 DEF DecisionKinds
      <4>2. QED
        BY <3>4, <3>5, <4>1, QuietCommit
    <3>7. QED
      BY <3>6 DEF QuietStep
  <2>4. ASSUME NEW at \in RecentTimes, RecoverExpiredLeases(at) PROVE QuietStep
    <3>1. PICK events \in Seq(EventRows) :
            /\ Commit(RecoveredRows(at), events)
            /\ \A i \in 1..Len(events) : events[i] = LostEvent(events[i].task)
      BY <2>4, RecoveryCommits
    <3>2. \A t : LostEvent(t).reason.kind = "lease_expired"
      BY DEF LostEvent, EventOf
    <3>3. \A i \in 1..Len(events) : events[i].reason.kind = "lease_expired"
      BY <3>1, <3>2
    <3>4. ASSUME NEW a, NEW kind \in DecisionKinds PROVE SameEvents(a, kind)
      <4>1. ASSUME NEW i \in 1..Len(events)
            PROVE  events[i].reason # [kind |-> kind, by |-> a]
        BY <3>3 DEF DecisionKinds
      <4>2. QED
        BY <3>1, <4>1, QuietCommit
    <3>5. QED
      BY <3>4 DEF QuietStep
  <2>5. ASSUME NEW t \in TaskIds, Cancel(t) PROVE QuietStep
    <3>1. "Cancelled" \in Status /\ CancelReason.kind \notin DecisionKinds
      BY DEF Status, CancelReason, DecisionKinds
    <3>2. QED
      BY <1>2, <2>5, <3>1, ReasonsOfCallers DEF Cancel
  <2>6. ASSUME NEW t \in TaskIds, NEW target \in Status, WorkerMove(t, target)
        PROVE  QuietStep
    <3>1. WorkerReason.kind \notin DecisionKinds
      BY DEF WorkerReason, DecisionKinds
    <3>2. QED
      BY <1>2, <2>6, <3>1, ReasonsOfCallers DEF WorkerMove
  <2>7. QED
    BY <1>1, <1>3, <2>1, <2>2, <2>3, <2>4, <2>5, <2>6 DEF QueueStep, Tick, approvalVars
<1>4. ASSUME NEW b \in ApprovalIds, NEW at \in RecentTimes,
             NEW k \in DecisionKinds, NEW target \in Status,
             Decide(b, at, VerdictOf(k), target, k)
      PROVE  DecisionIsWritten(b, k)
  <2> DEFINE reason == [kind |-> k, by |-> b]
             t      == approvals[b].task
  <2>1. /\ b \in DOMAIN approvals /\ approvals[b].status = "Pending"
        /\ Resolve(b, VerdictOf(k), at)
        /\ Transition(t, target, reason)
    BY <1>4 DEF Decide, Usable
  <2>2. reason \in CallerReasons
    BY ReasonsOfCallers DEF DecisionKinds
  <2>3. /\ \A a, kind : a # b \/ kind # k => reason # [kind |-> kind, by |-> a]
        /\ reason = [kind |-> k, by |-> b]
    OBVIOUS
  <2> HIDE DEF reason, t
  <2>4. \A a, kind : a # b \/ kind # k => SameEvents(a, kind)
    <3>1. \A a, kind : reason # [kind |-> kind, by |-> a] => SameEvents(a, kind)
      BY <2>1, <2>2, DecisionEventsOfMove
    <3>2. QED
      BY <2>3, <3>1
  <2>5. \E i \in DOMAIN taskEvents' :
          /\ DecisionEvents(b, k)' = DecisionEvents(b, k) \cup {i}
          /\ taskEvents'[i].task = approvals[b].task
    <3>1. \E i \in DOMAIN taskEvents' :
            /\ DecisionEvents(b, k)' = DecisionEvents(b, k) \cup {i}
            /\ taskEvents'[i].task = t
      BY <2>1, <2>2, <2>3, DecisionEventsOfMove
    <3>2. QED
      BY <3>1 DEF t
  <2>6. QED
    BY <2>1, <2>4, <2>5, RecentTimesAreNat DEF DecisionIsWritten
<1>5. ASSUME NEW b \in ApprovalIds, NEW at \in RecentTimes,
             Approve(b, at) \/ Reject(b, at)
      PROVE  \E k \in DecisionKinds : DecisionIsWritten(b, k)
  BY <1>4, <1>5 DEF Approve, Reject, DecisionKinds, VerdictOf, Status
<1>6. ASSUME NEW c \in Clients, InsertRequest(c) PROVE QuietStep /\ ApprovalIsAdded
  BY <1>1, <1>6 DEF InsertRequest, ApprovalIsAdded, queueVars
<1>7. ASSUME NEW a \in ApprovalIds, NEW at \in RecentTimes, ExpireOnUse(a, at)
      PROVE  /\ QuietStep
             /\ a \in DOMAIN approvals /\ approvals[a].status = "Pending"
             /\ Resolve(a, "Expired", at)
  BY <1>1, <1>7 DEF ExpireOnUse, Usable, queueVars
<1>8. CASE \/ \E c \in Clients, t \in TaskIds, lifetime \in Lifetimes :
                CheckRequest(c, t, lifetime)
           \/ Restart
           \/ UNCHANGED vars
  BY <1>1, <1>8 DEF CheckRequest, Restart, vars, approvalVars, queueVars
<1>9. QED
  BY <1>3, <1>5, <1>6, <1>7, <1>8, RecentTimesAreNat DEF Next, ApprovalStep

\* Every step keeps the events of the decisions what the table says of them.
LEMMA DecisionInvStep ==
  ASSUME QueueTypeOK, ApprovalTypeOK, DecisionInv, [Next]_vars
  PROVE  DecisionInv'
<1> SUFFICES ASSUME NEW a \in ApprovalIds, NEW kind \in DecisionKinds
             PROVE  EventsMatch(a, kind)'
  BY DEF DecisionInv
<1>1. EventsMatch(a, kind)
  BY DEF DecisionInv
<1>2. ASSUME SameEvents(a, kind),
             Decided(a, kind)' <=> Decided(a, kind),
             Decided(a, kind) => approvals'[a].task = approvals[a].task
      PROVE  EventsMatch(a, kind)'
  BY <1>1, <1>2 DEF EventsMatch, SameEvents
<1>3. CASE QuietStep /\ approvals' = approvals
  BY <1>2, <1>3 DEF QuietStep, Decided
<1>4. CASE QuietStep /\ ApprovalIsAdded
  <2>1. PICK row : row.status = "Pending" /\ approvals' = Append(approvals, row)
    BY <1>4 DEF ApprovalIsAdded
  <2>2. Len(approvals) + 1 \notin DOMAIN approvals
    BY LenProperties DEF ApprovalTypeOK
  <2>3. SameEvents(a, kind) /\ VerdictOf(kind) # "Pending"
    BY <1>4 DEF QuietStep, VerdictOf
  <2>4. QED
    BY <1>2, <2>1, <2>2, <2>3, AddedApproval DEF Decided
<1>5. CASE /\ QuietStep
           /\ \E b \in DOMAIN approvals, at \in Nat :
                approvals[b].status = "Pending" /\ Resolve(b, "Expired", at)
  <2>1. PICK b \in DOMAIN approvals, at \in Nat :
          approvals[b].status = "Pending" /\ Resolve(b, "Expired", at)
    BY <1>5
  <2>2. approvals[b] \in ApprovalRows
    BY ApprovalRowTypes
  <2>3. SameEvents(a, kind) /\ VerdictOf(kind) \notin {"Pending", "Expired"}
    BY <1>5 DEF QuietStep, VerdictOf
  <2>4. QED
    BY <1>2, <2>1, <2>2, <2>3 DEF Decided, Resolve, ApprovalRows
<1>6. ASSUME NEW b \in ApprovalIds, NEW k \in DecisionKinds, DecisionIsWritten(b, k)
      PROVE  EventsMatch(a, kind)'
  <2>1. PICK at \in Nat : Resolve(b, VerdictOf(k), at)
    BY <1>6 DEF DecisionIsWritten
  <2>2. b \in DOMAIN approvals /\ approvals[b].status = "Pending"
    BY <1>6 DEF DecisionIsWritten
  <2>3. approvals[b] \in ApprovalRows
    BY <2>2, ApprovalRowTypes
  <2>4. /\ DOMAIN approvals' = DOMAIN approvals
        /\ \A c \in DOMAIN approvals : c # b => approvals'[c] = approvals[c]
        /\ approvals'[b].status = VerdictOf(k)
        /\ approvals'[b].task = approvals[b].task
    BY <2>1, <2>2, <2>3 DEF Resolve, ApprovalRows
  <2>5. CASE a = b /\ kind = k
    <3>1. PICK i \in DOMAIN taskEvents' :
            /\ DecisionEvents(a, kind)' = DecisionEvents(a, kind) \cup {i}
            /\ taskEvents'[i].task = approvals[a].task
      BY <1>6, <2>5 DEF DecisionIsWritten
    <3>2. DecisionEvents(a, kind) = {}
      BY <1>1, <2>2, <2>5 DEF EventsMatch, Decided, VerdictOf
    <3>3. DecisionEvents(a, kind)' = {i}
      BY <3>1, <3>2
    <3>4. Decided(a, kind)' /\ approvals'[a].task = approvals[a].task
      BY <2>2, <2>4, <2>5 DEF Decided
    <3>5. QED
      BY <3>1, <3>3, <3>4 DEF EventsMatch
  <2>6. CASE a # b \/ kind # k
    <3>1. SameEvents(a, kind)
      BY <1>6, <2>6 DEF DecisionIsWritten
    <3>2. kind # k => VerdictOf(kind) # VerdictOf(k)
      BY DEF VerdictOf, DecisionKinds
    <3>3. VerdictOf(kind) # "Pending"
      BY DEF VerdictOf
    <3>4. QED
      BY <1>2, <2>2, <2>4, <2>6, <3>1, <3>2, <3>3 DEF Decided
  <2>7. QED
    BY <2>5, <2>6
<1>7. QED
  BY <1>3, <1>4, <1>5, <1>6, StepsOnDecisions

\* A verdict and its one event commit together, on the task it was asked for.
THEOREM DecisionsMatchEventsHolds == Spec => []DecisionsMatchEvents
<1>1. Init => DecisionInv
  BY DEF Init, QueueInit, DecisionInv, EventsMatch, Decided, DecisionEvents
<1>2. QueueTypeOK /\ ApprovalTypeOK /\ DecisionInv /\ [Next]_vars => DecisionInv'
  BY DecisionInvStep
<1>3. ApprovalTypeOK /\ DecisionInv => DecisionsMatchEvents
  <2> SUFFICES ASSUME ApprovalTypeOK, DecisionInv, NEW a \in DOMAIN approvals
               PROVE  LET released  == DecisionEvents(a, "approval")
                          cancelled == DecisionEvents(a, "approval_rejected")
                      IN  /\ Cardinality(released) =
                               IF approvals[a].status = "Approved" THEN 1 ELSE 0
                          /\ Cardinality(cancelled) =
                               IF approvals[a].status = "Rejected" THEN 1 ELSE 0
                          /\ \A i \in released \cup cancelled :
                               taskEvents[i].task = approvals[a].task
    BY DEF DecisionsMatchEvents
  <2>1. a \in ApprovalIds
    BY LenProperties, ApprovalAssumption DEF ApprovalTypeOK, ApprovalIds
  <2>2. ASSUME NEW kind \in DecisionKinds
        PROVE  /\ Cardinality(DecisionEvents(a, kind)) =
                    IF approvals[a].status = VerdictOf(kind) THEN 1 ELSE 0
               /\ \A i \in DecisionEvents(a, kind) :
                    taskEvents[i].task = approvals[a].task
    <3>1. EventsMatch(a, kind)
      BY <2>1 DEF DecisionInv
    <3>2. Decided(a, kind) <=> approvals[a].status = VerdictOf(kind)
      BY DEF Decided
    <3>3. QED
      BY <3>1, <3>2, FS_EmptySet, FS_Singleton DEF EventsMatch
  <2>3. /\ "approval" \in DecisionKinds /\ VerdictOf("approval") = "Approved"
        /\ "approval_rejected" \in DecisionKinds
        /\ VerdictOf("approval_rejected") = "Rejected"
    BY DEF DecisionKinds, VerdictOf
  <2>4. QED
    BY <2>2, <2>3
<1>4. QED
  BY <1>1, <1>2, <1>3, QueueTypesHold, ApprovalTypesHold, PTL DEF Spec
=============================================================================
