----------------------------- MODULE Approvals -----------------------------
(***************************************************************************)
(* ApprovalService (approvals/service.py) on top of the task queue, with   *)
(* the callers the repository has: the REST and MCP handlers, and the      *)
(* workers the queue is made for.  approve and reject are one transaction  *)
(* over the approvals and the task tables; request is not: it reads the    *)
(* task in one transaction and inserts the approval in a second one.       *)
(*                                                                         *)
(* Tokens are not modelled: request hands out one token per approval, and  *)
(* approve and reject raise, changing nothing, unless they are given it.   *)
(* So the steps below are those of a caller that holds the right token.    *)
(***************************************************************************)
EXTENDS TaskQueue

CONSTANTS
  Clients,        \* callers of request, each in a thread of the server
  Lifetimes,      \* expires_seconds values, in clock ticks
  MaxApprovals    \* bound: rows of the approvals table

ApprovalIds == 1..MaxApprovals

DecisionReasons == [kind : {"approval", "approval_rejected"}, by : ApprovalIds]
CancelReason == [kind |-> "api_cancel", by |-> None]
WorkerReason == [kind |-> "worker", by |-> None]

ASSUME ApprovalAssumption ==
  /\ Lifetimes \subseteq Nat
  /\ MaxApprovals \in Nat
  /\ None \notin Clients
  /\ DecisionReasons \cup {CancelReason, WorkerReason} \subseteq CallerReasons

VARIABLES
  approvals,   \* table approvals, in insertion order
  approvalId,  \* column tasks.approval_id: the approval requested last
  inFlight     \* by client: the request that has passed its check, or None

approvalVars == <<approvals, approvalId, inFlight>>
vars == <<queueVars, approvalVars>>

\* The type, scope, requester and reason of an approval are carried, never read.
ApprovalRows ==
  [ task       : TaskIds,
    status     : {"Pending", "Approved", "Rejected", "Expired"},
    expires    : Nat,
    resolvedAt : Nat \cup {None} ]

RequestsInFlight == [task : TaskIds, expires : Nat]

-----------------------------------------------------------------------------
(***************************************************************************)
(* Requesting                                                              *)
(***************************************************************************)

\* The handler computes expires_at, request reads the task and finds it waiting.
CheckRequest(c, t, lifetime) ==
  /\ inFlight[c] = None
  /\ t \in DOMAIN tasks
  /\ tasks[t].status = "WaitingForApproval"
  /\ inFlight' = [inFlight EXCEPT ![c] = [task |-> t, expires |-> now + lifetime]]
  /\ UNCHANGED <<queueVars, approvals, approvalId>>

\* The transaction that inserts the approval; the task is not read again.
InsertRequest(c) ==
  /\ inFlight[c] # None
  /\ Len(approvals) < MaxApprovals
  /\ approvals' = Append(approvals, [ task       |-> inFlight[c].task,
                                      status     |-> "Pending",
                                      expires    |-> inFlight[c].expires,
                                      resolvedAt |-> None ])
  /\ approvalId' = [approvalId EXCEPT ![inFlight[c].task] = Len(approvals) + 1]
  /\ inFlight' = [inFlight EXCEPT ![c] = None]
  /\ UNCHANGED queueVars

\* The server stops and starts again: what is in its threads is gone.
Restart ==
  /\ \E c \in Clients : inFlight[c] # None
  /\ inFlight' = [c \in Clients |-> None]
  /\ UNCHANGED <<queueVars, approvals, approvalId>>

-----------------------------------------------------------------------------
(***************************************************************************)
(* Deciding                                                                *)
(***************************************************************************)

\* Mutant: a decided approval may be used again.
UsableAlways(a) == a \in DOMAIN approvals

\* The checks of approve and reject that end in ApprovalError.
Usable(a) ==
  /\ a \in DOMAIN approvals
  /\ approvals[a].status = "Pending"

\* Mutant: an approval may still be used in the tick in which it expires.
HasExpiredAfter(a, at) == approvals[a].expires < at

HasExpired(a, at) == approvals[a].expires <= at

Resolve(a, verdict, at) ==
  approvals' = [approvals EXCEPT ![a] = [@ EXCEPT !.status = verdict,
                                                  !.resolvedAt = at]]

\* approve or reject on an approval that has run out: marked, and refused.
ExpireOnUse(a, at) ==
  /\ Usable(a)
  /\ HasExpired(a, at)
  /\ Resolve(a, "Expired", at)
  /\ UNCHANGED <<queueVars, approvalId, inFlight>>

\* Mutant: the approval is committed whether or not the task can move.
DecideWithoutTask(a, at, verdict, target, kind) ==
  /\ Usable(a)
  /\ ~HasExpired(a, at)
  /\ Resolve(a, verdict, at)
  /\ UNCHANGED <<queueVars, approvalId, inFlight>>

\* Mutant: the row of the task is updated without its event and snapshot.
DecideWithoutEvent(a, at, verdict, target, kind) ==
  /\ Usable(a)
  /\ ~HasExpired(a, at)
  /\ EnsureTransition(tasks[approvals[a].task].status, target)
  /\ tasks' = [tasks EXCEPT ![approvals[a].task] = Moved(@, target)]
  /\ Resolve(a, verdict, at)
  /\ UNCHANGED <<now, taskEvents, outbox, approvalId, inFlight>>

\* The transaction that moves the task and resolves the approval; when the task
\* cannot make the move, neither is written.
Decide(a, at, verdict, target, kind) ==
  /\ Usable(a)
  /\ ~HasExpired(a, at)
  /\ Transition(approvals[a].task, target, [kind |-> kind, by |-> a])
  /\ Resolve(a, verdict, at)
  /\ UNCHANGED <<approvalId, inFlight>>

Approve(a, at) == Decide(a, at, "Approved", "Queued", "approval")

\* Mutant: the approval is given the status of the task it cancels.
RejectAsCancelled(a, at) ==
  Decide(a, at, "Cancelled", "Cancelled", "approval_rejected")

Reject(a, at) == Decide(a, at, "Rejected", "Cancelled", "approval_rejected")

-----------------------------------------------------------------------------
(***************************************************************************)
(* The other callers of the queue                                          *)
(***************************************************************************)

\* POST /tasks/{id}/cancel and the cancel_task tool.
Cancel(t) == Transition(t, "Cancelled", CancelReason)

\* What a worker does with a task that is in hand, and the scheduler with one
\* that waits for a tool or a retry; no code under src/ calls it yet.
WorkerMove(t, target) ==
  /\ t \in DOMAIN tasks
  /\ tasks[t].status \in {"Running", "WaitingForTool", "Retrying"}
  /\ target # "Cancelled"
  /\ Transition(t, target, WorkerReason)

QueueStep ==
  /\ \/ \E req \in Requests : Create(req)
     \/ \E t \in TaskIds : Retry(t)
     \/ \E w \in Workers, at \in RecentTimes : LeaseNext(w, at)
     \/ \E at \in RecentTimes : RecoverExpiredLeases(at)
     \/ \E t \in TaskIds : Cancel(t)
     \/ \E t \in TaskIds, target \in Status : WorkerMove(t, target)
     \/ Tick
  /\ UNCHANGED approvalVars

ApprovalStep ==
  \/ \E c \in Clients, t \in TaskIds, lifetime \in Lifetimes :
       CheckRequest(c, t, lifetime)
  \/ \E c \in Clients : InsertRequest(c)
  \/ Restart
  \/ \E a \in ApprovalIds, at \in RecentTimes :
       ExpireOnUse(a, at) \/ Approve(a, at) \/ Reject(a, at)

Init ==
  /\ QueueInit
  /\ approvals = <<>>
  /\ approvalId = [t \in TaskIds |-> None]
  /\ inFlight = [c \in Clients |-> None]

Next == QueueStep \/ ApprovalStep

Spec == Init /\ [][Next]_vars

-----------------------------------------------------------------------------
(***************************************************************************)
(* Properties                                                              *)
(***************************************************************************)

\* The types of the approvals table, the column and the requests in flight.
ApprovalTypeOK ==
  /\ approvals \in Seq(ApprovalRows)
  /\ Len(approvals) <= MaxApprovals
  /\ approvalId \in [TaskIds -> ApprovalIds \cup {None}]
  /\ inFlight \in [Clients -> RequestsInFlight \cup {None}]

\* The events a decision on approval a has written.
DecisionEvents(a, kind) ==
  {i \in DOMAIN taskEvents : taskEvents[i].reason = [kind |-> kind, by |-> a]}

\* A verdict and its effect on the task commit together and once: an approved
\* approval has released its own task exactly once, a rejected one has cancelled
\* it exactly once, and a pending or expired one has moved nothing
\* (service.py:136-159, 201-224).
DecisionsMatchEvents ==
  \A a \in DOMAIN approvals :
    LET released  == DecisionEvents(a, "approval")
        cancelled == DecisionEvents(a, "approval_rejected")
    IN  /\ Cardinality(released) = IF approvals[a].status = "Approved" THEN 1 ELSE 0
        /\ Cardinality(cancelled) = IF approvals[a].status = "Rejected" THEN 1 ELSE 0
        /\ \A i \in released \cup cancelled :
             taskEvents[i].task = approvals[a].task

\* A decision is final, and what an approval is for never changes: its token
\* cannot be replayed, by approve or by reject (service.py:119-120, 185-186).
DecisionsAreFinal ==
  [][\A a \in DOMAIN approvals :
       /\ a \in DOMAIN approvals'
       /\ approvals'[a].task = approvals[a].task
       /\ approvals'[a].expires = approvals[a].expires
       /\ approvals[a].status # "Pending" => approvals'[a] = approvals[a]]_vars

\* By the clock the decision has read, which may be behind the time at which it
\* holds the transaction, nothing is decided at or after the expiry
\* (service.py:124, 189).
DecisionsInTime ==
  \A a \in DOMAIN approvals :
    approvals[a].status \in {"Approved", "Rejected"} =>
      approvals[a].resolvedAt < approvals[a].expires

CreatedForCloud(t) ==
  \E i \in EventsOf(t) : taskEvents[i].reason.kind = "cloud_manual"

\* A task runs, by lease or otherwise, only after an approval released it.
RunsOnlyAfterApproval(t) ==
  \A i \in EventsOf(t) :
    taskEvents[i].to = "Running" =>
      \E j \in EventsOf(t) : j < i /\ taskEvents[j].reason.kind = "approval"

\* A task created as cloud_manual runs only after a human has approved it,
\* whatever its retries, its other approvals and its cancellations do.
CloudTasksRunOnlyAfterApproval ==
  \A t \in DOMAIN tasks : CreatedForCloud(t) => RunsOnlyAfterApproval(t)

\* The service touches the queue only through steps of the queue: every
\* behaviour of the two is, on the queue's tables, one of the queue alone.
ImplementsQueue == QueueSpec

-----------------------------------------------------------------------------
(***************************************************************************)
(* What the documents say and the code does not do                         *)
(***************************************************************************)

\* Cloud work stays at WaitingForApproval until a human approves it, and a retry
\* of the work is the same work (OPERATOR_GUIDE_CN.md:8).
CloudWorkRunsOnlyAfterApproval ==
  LET cloudWork[t \in DOMAIN tasks] ==
        \/ CreatedForCloud(t)
        \/ tasks[t].parent # None /\ cloudWork[tasks[t].parent]
  IN  \A t \in DOMAIN tasks : cloudWork[t] => RunsOnlyAfterApproval(t)

\* A rejection cancels a task that is waiting for approval (service.py:173).
RejectionsCancelWaitingTasks ==
  \A i \in DOMAIN taskEvents :
    taskEvents[i].reason.kind = "approval_rejected" =>
      taskEvents[i].from = "WaitingForApproval"
=============================================================================
