--------------------------- MODULE McpToolsProofs ---------------------------
(***************************************************************************)
(* What TLAPS proves of the MCP tools, for every set of callers, projects  *)
(* and workers and for every bound: the tools take only steps the services *)
(* offer, so the theorems about Approvals hold with them as callers; their *)
(* work stays out of protected projects; and what they submit for upload   *)
(* runs only after an approval.                                            *)
(***************************************************************************)
EXTENDS McpTools, ApprovalsProofs

\* A tool creates a task, cancels one or asks for an approval as the routes do.
LEMMA ToolStepsAreServiceSteps ==
  ASSUME [McpNext]_mcpVars
  PROVE  [Next]_vars
<1>1. ASSUME NEW operation, NEW project, NEW upload, NEW req \in Requests,
             SubmitTask(operation, project, upload, req)
      PROVE  Next
  BY <1>1 DEF SubmitTask, Next, QueueStep
<1>2. ASSUME NEW project, NEW t \in TaskIds, CancelTask(project, t) PROVE Next
  BY <1>2 DEF CancelTask, Next, QueueStep
<1>3. ASSUME NEW c \in Clients, NEW project, NEW t \in TaskIds,
             NEW lifetime \in Lifetimes, RequestHumanApproval(c, project, t, lifetime)
      PROVE  Next
  BY <1>3 DEF RequestHumanApproval, Next, ApprovalStep
<1>4. ASSUME NEW classification, CreateProject(classification) PROVE UNCHANGED vars
  BY <1>4 DEF CreateProject
<1>5. ASSUME ToolStep PROVE Next \/ UNCHANGED vars
  BY <1>1, <1>2, <1>3, <1>4, <1>5 DEF ToolStep
<1>6. CASE UNCHANGED mcpVars
  BY <1>6 DEF mcpVars
<1>7. QED
  BY <1>5, <1>6 DEF McpNext, OtherStep

\* With the tools as callers, tasks and approvals still behave as Approvals says.
THEOREM ImplementsApprovalsHolds == McpSpec => ImplementsApprovals
<1>1. McpInit => Init
  BY DEF McpInit
<1>2. [McpNext]_mcpVars => [Next]_vars
  BY ToolStepsAreServiceSteps
<1>3. QED
  BY <1>1, <1>2, PTL DEF McpSpec, ImplementsApprovals, Spec

-----------------------------------------------------------------------------
(***************************************************************************)
(* What a step of the queue keeps                                          *)
(***************************************************************************)

\* The rows there are, and their parents, stay; one row may be appended.
RowsKeepParents ==
  /\ DOMAIN tasks' = DOMAIN tasks
  /\ \A t \in DOMAIN tasks : tasks'[t].parent = tasks[t].parent

RowIsBorn ==
  \E req \in Requests, parent \in DOMAIN tasks \cup {None} :
    tasks' = Append(tasks, NewRow(req, parent))

LEMMA StepsOnParents ==
  ASSUME QueueTypeOK, QueueNext
  PROVE  RowsKeepParents \/ RowIsBorn
<1>1. ASSUME NEW req \in Requests, Create(req) PROVE RowIsBorn
  BY <1>1 DEF Create, CreateInTransaction, Commit, RowIsBorn
<1>2. ASSUME NEW t \in TaskIds, Retry(t) PROVE RowIsBorn
  <2>1. RetryRequest(tasks[t]) \in Requests /\ t \in DOMAIN tasks
    BY <1>2, RowTypes, RetryRequestTypes DEF Retry
  <2>2. QED
    BY <1>2, <2>1 DEF Retry, CreateInTransaction, Commit, RowIsBorn
<1>3. ASSUME NEW t \in DOMAIN tasks, NEW row, tasks' = [tasks EXCEPT ![t] = row],
             row.parent = tasks[t].parent
      PROVE  RowsKeepParents
  BY <1>3 DEF RowsKeepParents
<1>4. ASSUME NEW w \in Workers, NEW at \in RecentTimes, LeaseNext(w, at)
      PROVE  RowsKeepParents
  <2>1. PICK t \in DOMAIN tasks :
          tasks' = [tasks EXCEPT ![t] = Leased(tasks[t], w, at + LeaseSeconds)]
    BY <1>4 DEF LeaseNext, Commit
  <2>2. Leased(tasks[t], w, at + LeaseSeconds).parent = tasks[t].parent
    BY RowTypes DEF Leased, TaskRows
  <2>3. QED
    BY <1>3, <2>1, <2>2
<1>5. ASSUME NEW at \in RecentTimes, RecoverExpiredLeases(at) PROVE RowsKeepParents
  <2>1. tasks' = [t \in DOMAIN tasks |-> IF t \in Expired(at) THEN Recovered(tasks[t])
                                                              ELSE tasks[t]]
    BY <1>5 DEF RecoverExpiredLeases, Commit
  <2>2. \A t \in DOMAIN tasks : Recovered(tasks[t]).parent = tasks[t].parent
    BY RowTypes DEF Recovered, TaskRows
  <2>3. QED
    BY <2>1, <2>2 DEF RowsKeepParents
<1>6. ASSUME NEW t \in TaskIds, NEW target \in Status, NEW reason \in CallerReasons,
             Transition(t, target, reason)
      PROVE  RowsKeepParents
  <2>1. t \in DOMAIN tasks /\ tasks' = [tasks EXCEPT ![t] = Moved(tasks[t], target)]
    BY <1>6 DEF Transition, Commit
  <2>2. Moved(tasks[t], target).parent = tasks[t].parent
    BY <2>1, RowTypes DEF Moved, TaskRows
  <2>3. QED
    BY <1>3, <2>1, <2>2
<1>7. ASSUME Tick PROVE RowsKeepParents
  BY <1>7 DEF Tick, RowsKeepParents
<1>8. QED
  BY <1>1, <1>2, <1>4, <1>5, <1>6, <1>7 DEF QueueNext

-----------------------------------------------------------------------------
(***************************************************************************)
(* The projects and the tool calls                                         *)
(***************************************************************************)

\* What a step does to the projects and the tool calls.
ProjectsGrow ==
  \E classification \in Classifications :
    /\ Len(projects) < MaxProjects
    /\ projects' = Append(projects, classification)
    /\ UNCHANGED <<vars, toolCall>>

\* A tool's task: the project is there, and the gate has let the tool in.
ToolTaskIsBorn ==
  \E project \in DOMAIN projects, upload \in BOOLEAN, req \in Requests :
    /\ projects[project] # "PROTECTED"
    /\ req.cloudManual = upload
    /\ Create(req)
    /\ toolCall' = Append(toolCall, [project |-> project, upload |-> upload])
    /\ projects' = projects

ToolCallsAreCarried ==
  /\ [Next]_vars
  /\ \/ toolCall' = [t \in DOMAIN tasks' |-> Inherited(t)]
     \/ UNCHANGED <<tasks, toolCall>>
     \/ RowsKeepParents /\ toolCall' = toolCall
  /\ projects' = projects

\* In a protected project a tool that creates tasks is refused.
LEMMA TaskToolsAreRefused ==
  ASSUME NEW tool \in TaskTools, NEW project, project # None,
         Permitted(ToolOperation[tool], project)
  PROVE  projects[project] # "PROTECTED"
<1>1. ToolOperation[tool] \in {"execute", "create", "update"}
  BY DEF TaskTools, ToolOperation
<1>2. QED
  BY <1>1 DEF Permitted, Authorize

LEMMA StepsOnToolCalls ==
  ASSUME QueueTypeOK, McpTypeOK, [McpNext]_mcpVars
  PROVE  ProjectsGrow \/ ToolTaskIsBorn \/ ToolCallsAreCarried
<1>1. ASSUME NEW operation \in {ToolOperation[tool] : tool \in TaskTools},
             NEW project \in DOMAIN projects, NEW upload \in BOOLEAN,
             NEW req \in Requests, SubmitTask(operation, project, upload, req)
      PROVE  ToolTaskIsBorn
  <2>1. project # None
    BY McpAssumption, LenProperties DEF McpTypeOK
  <2>2. projects[project] # "PROTECTED"
    BY <1>1, <2>1, TaskToolsAreRefused DEF SubmitTask
  <2>3. QED
    BY <1>1, <2>2 DEF SubmitTask, CloudManual, ToolTaskIsBorn
<1>2. ASSUME NEW project, NEW t \in TaskIds, CancelTask(project, t)
      PROVE  ToolCallsAreCarried
  <2>1. [Next]_vars /\ toolCall' = toolCall /\ projects' = projects
    BY <1>2 DEF CancelTask, Next, QueueStep
  <2>2. /\ t \in DOMAIN tasks
        /\ tasks' = [tasks EXCEPT ![t] = Moved(tasks[t], "Cancelled")]
    BY <1>2 DEF CancelTask, Cancel, Transition, Commit
  <2>3. Moved(tasks[t], "Cancelled").parent = tasks[t].parent
    BY <2>2, RowTypes DEF Moved, TaskRows
  <2>4. QED
    BY <2>1, <2>2, <2>3 DEF ToolCallsAreCarried, RowsKeepParents
<1>3. ASSUME NEW c \in Clients, NEW project, NEW t \in TaskIds,
             NEW lifetime \in Lifetimes, RequestHumanApproval(c, project, t, lifetime)
      PROVE  ToolCallsAreCarried
  <2>1. [Next]_vars
    BY <1>3 DEF RequestHumanApproval, Next, ApprovalStep
  <2>2. QED
    BY <1>3, <2>1
       DEF RequestHumanApproval, CheckRequest, queueVars, ToolCallsAreCarried
<1>4. ASSUME NEW classification \in Classifications, CreateProject(classification)
      PROVE  ProjectsGrow
  BY <1>4 DEF CreateProject, ProjectsGrow
<1>5. ASSUME ToolStep PROVE ProjectsGrow \/ ToolTaskIsBorn \/ ToolCallsAreCarried
  BY <1>1, <1>2, <1>3, <1>4, <1>5 DEF ToolStep
<1>6. CASE OtherStep
  BY <1>6 DEF OtherStep, ToolCallsAreCarried
<1>7. CASE UNCHANGED mcpVars
  BY <1>7 DEF mcpVars, vars, queueVars, ToolCallsAreCarried
<1>8. QED
  BY <1>5, <1>6, <1>7 DEF McpNext

-----------------------------------------------------------------------------
(***************************************************************************)
(* Types                                                                   *)
(***************************************************************************)

LEMMA SameIntervals ==
  ASSUME NEW m \in Nat, NEW n \in Nat, 1..m = 1..n
  PROVE  m = n
<1>1. ASSUME m < n PROVE FALSE
  <2>1. n \in 1..n /\ n \notin 1..m
    BY <1>1
  <2>2. QED
    BY <2>1
<1>2. ASSUME n < m PROVE FALSE
  <2>1. m \in 1..m /\ m \notin 1..n
    BY <1>2
  <2>2. QED
    BY <2>1
<1>3. QED
  BY <1>1, <1>2

\* What the types say of the tool calls, row by row.
LEMMA ToolCallTypes ==
  ASSUME QueueTypeOK, McpTypeOK
  PROVE  /\ DOMAIN toolCall = DOMAIN tasks
         /\ \A t \in DOMAIN toolCall : toolCall[t] \in ToolCalls \cup {None}
<1>1. DOMAIN toolCall = 1..Len(tasks) /\ DOMAIN tasks = 1..Len(tasks)
  BY LenProperties DEF McpTypeOK, QueueTypeOK
<1>2. QED
  BY <1>1, ElementOfSeq DEF McpTypeOK

\* Rows that are born have a parent that is there, or none.
LEMMA InheritedTypes ==
  ASSUME QueueTypeOK, McpTypeOK, RowsKeepParents \/ RowIsBorn,
         NEW t \in DOMAIN tasks', t \notin DOMAIN tasks
  PROVE  tasks'[t].parent \in DOMAIN tasks \cup {None}
<1>1. PICK req \in Requests, parent \in DOMAIN tasks \cup {None} :
        tasks' = Append(tasks, NewRow(req, parent))
  BY DEF RowsKeepParents, RowIsBorn
<1>2. tasks'[t] = NewRow(req, parent)
  BY <1>1, AddedRow
<1>3. QED
  BY <1>1, <1>2 DEF NewRow

\* A step of the services leaves the rows of the tool calls as many as the rows
\* of the tasks, and each new one is a copy of an older one, or None.
LEMMA CarriedTypes ==
  ASSUME QueueTypeOK, QueueTypeOK', McpTypeOK, ToolCallsAreCarried
  PROVE  /\ DOMAIN toolCall' = DOMAIN tasks'
         /\ toolCall' \in Seq(ToolCalls \cup {None})
         /\ Len(toolCall') = Len(tasks')
         /\ \A t \in DOMAIN toolCall' :
              \/ t \in DOMAIN toolCall /\ toolCall'[t] = toolCall[t]
              \/ toolCall'[t] = None
              \/ /\ t \notin DOMAIN toolCall
                 /\ tasks'[t].parent # None
                 /\ \E u \in DOMAIN toolCall : toolCall'[t] = toolCall[u]
<1>1. /\ DOMAIN tasks = 1..Len(tasks) /\ Len(tasks) \in Nat
      /\ DOMAIN tasks' = 1..Len(tasks') /\ Len(tasks') \in Nat
  BY LenProperties DEF QueueTypeOK
<1>2. RowsKeepParents \/ RowIsBorn
  <2>1. [QueueNext]_queueVars
    BY StepIsQueueStep DEF ToolCallsAreCarried
  <2>2. CASE UNCHANGED queueVars
    BY <2>2 DEF queueVars, RowsKeepParents
  <2>3. QED
    BY <2>1, <2>2, StepsOnParents
<1>3. CASE toolCall' = [t \in DOMAIN tasks' |-> Inherited(t)]
  <2>1. ASSUME NEW t \in DOMAIN tasks'
        PROVE  /\ Inherited(t) \in ToolCalls \cup {None}
               /\ \/ t \in DOMAIN toolCall /\ Inherited(t) = toolCall[t]
                  \/ Inherited(t) = None
                  \/ /\ t \notin DOMAIN toolCall
                     /\ tasks'[t].parent # None
                     /\ \E u \in DOMAIN toolCall : Inherited(t) = toolCall[u]
    <3>1. CASE t \in DOMAIN toolCall
      BY <3>1, ToolCallTypes DEF Inherited
    <3>2. CASE t \notin DOMAIN toolCall /\ tasks'[t].parent = None
      BY <3>2 DEF Inherited
    <3>3. CASE t \notin DOMAIN toolCall /\ tasks'[t].parent # None
      <4>1. tasks'[t].parent \in DOMAIN toolCall
        BY <1>2, <3>3, ToolCallTypes, InheritedTypes
      <4>2. QED
        BY <3>3, <4>1, ToolCallTypes DEF Inherited
    <3>4. QED
      BY <3>1, <3>2, <3>3
  <2>2. toolCall' = [t \in 1..Len(tasks') |-> Inherited(t)]
    BY <1>1, <1>3
  <2>3. toolCall' \in Seq(ToolCalls \cup {None}) /\ Len(toolCall') = Len(tasks')
    <3>1. \A t \in 1..Len(tasks') : Inherited(t) \in ToolCalls \cup {None}
      BY <1>1, <2>1
    <3>2. toolCall' \in Seq(ToolCalls \cup {None})
      BY <1>1, <2>2, <3>1, IsASeq
    <3>3. QED
      BY <1>1, <2>2, <3>2, LenProperties
  <2>4. QED
    BY <1>3, <2>1, <2>3
<1>4. CASE toolCall' = toolCall /\ DOMAIN tasks' = DOMAIN tasks
  <2>1. Len(tasks') = Len(tasks)
    BY <1>1, <1>4, SameIntervals
  <2>2. QED
    BY <1>4, <2>1, ToolCallTypes DEF McpTypeOK
<1>5. QED
  BY <1>3, <1>4 DEF ToolCallsAreCarried, RowsKeepParents

\* A tool's task adds one row to the tasks and one to the tool calls.
LEMMA BornTypes ==
  ASSUME QueueTypeOK, McpTypeOK, NEW req \in Requests, Create(req),
         NEW call \in ToolCalls, toolCall' = Append(toolCall, call)
  PROVE  /\ DOMAIN toolCall' = DOMAIN tasks \cup {Len(tasks) + 1}
         /\ Len(tasks) + 1 \notin DOMAIN tasks
         /\ toolCall' \in Seq(ToolCalls \cup {None})
         /\ Len(toolCall') = Len(tasks')
         /\ toolCall'[Len(tasks) + 1] = call
         /\ \A t \in DOMAIN tasks : toolCall'[t] = toolCall[t]
         /\ tasks' = Append(tasks, NewRow(req, None))
<1>1. tasks' = Append(tasks, NewRow(req, None))
  BY DEF Create, CreateInTransaction, Commit
<1>2. /\ toolCall \in Seq(ToolCalls \cup {None}) /\ Len(toolCall) = Len(tasks)
      /\ tasks \in Seq(TaskRows)
  BY DEF McpTypeOK, QueueTypeOK
<1>3. /\ toolCall' \in Seq(ToolCalls \cup {None})
      /\ Len(toolCall') = Len(toolCall) + 1
      /\ DOMAIN toolCall' = 1..(Len(toolCall) + 1)
      /\ toolCall'[Len(toolCall) + 1] = call
      /\ \A t \in 1..Len(toolCall) : toolCall'[t] = toolCall[t]
  BY <1>2, AppendProperties, LenProperties
<1>4. DOMAIN tasks = 1..Len(tasks) /\ Len(tasks) \in Nat
  BY <1>2, LenProperties
<1>5. Len(tasks') = Len(tasks) + 1
  BY <1>1, <1>2
<1>6. QED
  BY <1>1, <1>2, <1>3, <1>4, <1>5

LEMMA ToolCallFields ==
  ASSUME NEW project \in 1..MaxProjects, NEW upload \in BOOLEAN
  PROVE  /\ [project |-> project, upload |-> upload] \in ToolCalls
         /\ [project |-> project, upload |-> upload] # None
BY McpAssumption DEF ToolCalls

LEMMA ProjectTypes ==
  ASSUME McpTypeOK
  PROVE  DOMAIN projects = 1..Len(projects) /\ DOMAIN projects \subseteq 1..MaxProjects
BY LenProperties, McpAssumption DEF McpTypeOK

\* An added project leaves the others as they are.
LEMMA AddedProject ==
  ASSUME McpTypeOK, NEW classification \in Classifications,
         projects' = Append(projects, classification)
  PROVE  /\ projects' \in Seq(Classifications)
         /\ Len(projects') = Len(projects) + 1
         /\ \A p \in DOMAIN projects : p \in DOMAIN projects' /\ projects'[p] = projects[p]
BY DEF McpTypeOK

\* The types, and that tools have not worked in protected projects, are kept.
LEMMA McpStep ==
  ASSUME QueueTypeOK, QueueTypeOK', McpTypeOK, ToolWorkAvoidsProtectedProjects,
         [McpNext]_mcpVars
  PROVE  McpTypeOK' /\ ToolWorkAvoidsProtectedProjects'
<1>1. CASE ProjectsGrow
  <2>1. PICK classification \in Classifications :
          /\ Len(projects) < MaxProjects
          /\ projects' = Append(projects, classification)
          /\ UNCHANGED <<vars, toolCall>>
    BY <1>1 DEF ProjectsGrow
  <2>2. tasks' = tasks /\ toolCall' = toolCall
    BY <2>1 DEF vars, queueVars
  <2>3. Len(projects') <= MaxProjects
    BY <2>1, AddedProject, McpAssumption DEF McpTypeOK
  <2>4. QED
    BY <2>1, <2>2, <2>3, AddedProject
       DEF McpTypeOK, ToolWorkAvoidsProtectedProjects
<1>2. CASE ToolTaskIsBorn
  <2>1. PICK project \in DOMAIN projects, upload \in BOOLEAN, req \in Requests :
          /\ projects[project] # "PROTECTED"
          /\ req.cloudManual = upload
          /\ Create(req)
          /\ toolCall' = Append(toolCall, [project |-> project, upload |-> upload])
          /\ projects' = projects
    BY <1>2 DEF ToolTaskIsBorn
  <2> DEFINE call == [project |-> project, upload |-> upload]
  <2>2. call \in ToolCalls /\ call.project = project
    BY ProjectTypes, ToolCallFields
  <2> HIDE DEF call
  <2>3. toolCall' = Append(toolCall, call)
    BY <2>1 DEF call
  <2>4. /\ toolCall' \in Seq(ToolCalls \cup {None})
        /\ Len(toolCall') = Len(tasks')
        /\ \A t \in DOMAIN toolCall' :
             \/ toolCall'[t] = call
             \/ t \in DOMAIN toolCall /\ toolCall'[t] = toolCall[t]
    BY <2>1, <2>2, <2>3, BornTypes, ToolCallTypes
  <2>5. QED
    BY <2>1, <2>2, <2>4 DEF McpTypeOK, ToolWorkAvoidsProtectedProjects
<1>3. CASE ToolCallsAreCarried
  <2>1. projects' = projects
    BY <1>3 DEF ToolCallsAreCarried
  <2>2. QED
    BY <1>3, <2>1, CarriedTypes DEF McpTypeOK, ToolWorkAvoidsProtectedProjects
<1>4. QED
  BY <1>1, <1>2, <1>3, StepsOnToolCalls

LEMMA QueueTypesWithTools == McpSpec => []QueueTypeOK
BY ImplementsApprovalsHolds, QueueTypesHold, PTL DEF ImplementsApprovals

LEMMA McpInvariant == McpSpec => [](McpTypeOK /\ ToolWorkAvoidsProtectedProjects)
<1>1. McpInit => McpTypeOK /\ ToolWorkAvoidsProtectedProjects
  BY McpAssumption
     DEF McpInit, Init, QueueInit, McpTypeOK, ToolWorkAvoidsProtectedProjects
<1>2. QueueTypeOK /\ QueueTypeOK' /\ McpTypeOK /\ ToolWorkAvoidsProtectedProjects
        /\ [McpNext]_mcpVars => McpTypeOK' /\ ToolWorkAvoidsProtectedProjects'
  BY McpStep
<1>3. QED
  BY <1>1, <1>2, QueueTypesWithTools, PTL DEF McpSpec

\* The projects and tool calls keep their types, and each call its project.
THEOREM McpTypesHold == McpSpec => []McpTypeOK
BY McpInvariant, PTL

\* Tools do no work in protected projects, retries included (gate.py:49-54).
THEOREM ToolWorkAvoidsProtectedProjectsHolds ==
  McpSpec => []ToolWorkAvoidsProtectedProjects
BY McpInvariant, PTL

-----------------------------------------------------------------------------
(***************************************************************************)
(* Uploads.  A task that a tool submitted for upload was created as a      *)
(* cloud task, and the event that says so stays; so the theorem about      *)
(* cloud tasks speaks of it.                                               *)
(***************************************************************************)

EventsStay ==
  \A i \in DOMAIN taskEvents : i \in DOMAIN taskEvents' /\ taskEvents'[i] = taskEvents[i]

\* A commit keeps the events there are, whatever it appends.
LEMMA CommitKeepsEvents ==
  ASSUME QueueTypeOK, NEW rows, NEW T, NEW events \in Seq(T), Commit(rows, events)
  PROVE  EventsStay
<1>1. taskEvents \in Seq(EventRows \cup T) /\ events \in Seq(EventRows \cup T)
  BY DEF QueueTypeOK
<1>2. taskEvents' = taskEvents \o events
  BY DEF Commit
<1>3. QED
  BY <1>1, <1>2, ConcatProperties, LenProperties DEF EventsStay

LEMMA OneEventStays ==
  ASSUME QueueTypeOK, NEW rows, NEW event, Commit(rows, <<event>>)
  PROVE  EventsStay
<1>1. <<event>> \in Seq({event})
  OBVIOUS
<1>2. QED
  BY <1>1, CommitKeepsEvents

LEMMA QueueKeepsEvents ==
  ASSUME QueueTypeOK, [QueueNext]_queueVars
  PROVE  EventsStay
<1>1. ASSUME NEW req, NEW parent, CreateInTransaction(req, parent) PROVE EventsStay
  BY <1>1, OneEventStays DEF CreateInTransaction
<1>2. ASSUME NEW w \in Workers, NEW at \in RecentTimes, LeaseNext(w, at)
      PROVE  EventsStay
  BY <1>2, OneEventStays DEF LeaseNext
<1>3. ASSUME NEW t, NEW target, NEW reason, Transition(t, target, reason)
      PROVE  EventsStay
  BY <1>3, OneEventStays DEF Transition
<1>4. ASSUME NEW at \in RecentTimes, RecoverExpiredLeases(at) PROVE EventsStay
  <2> DEFINE lost == Expired(at)
             n    == Cardinality(lost)
             rows == [t \in DOMAIN tasks |-> IF t \in lost THEN Recovered(tasks[t])
                                                          ELSE tasks[t]]
  <2>1. PICK order \in LeaseOrders(lost) :
          Commit(rows, [i \in 1..n |-> EventOf(order[i], "Running",
                                               RecoveredStatus(tasks[order[i]]),
                                               [kind |-> "lease_expired", by |-> None])])
    BY <1>4 DEF RecoverExpiredLeases
  <2> DEFINE event(i) == EventOf(order[i], "Running",
                                 RecoveredStatus(tasks[order[i]]),
                                 [kind |-> "lease_expired", by |-> None])
             events == [i \in 1..n |-> event(i)]
             T      == {event(i) : i \in 1..n}
  <2>2. n \in Nat
    <3>1. IsFiniteSet(DOMAIN tasks)
      BY FS_Interval, LenProperties DEF QueueTypeOK
    <3>2. lost \subseteq DOMAIN tasks
      BY DEF Expired
    <3>3. QED
      BY <3>1, <3>2, FS_Subset, FS_CardinalityType
  <2> HIDE DEF lost, n, rows, event
  <2>3. events \in Seq(T)
    BY <2>2, IsASeq
  <2>4. Commit(rows, events)
    BY <2>1 DEF event
  <2> HIDE DEF events, T
  <2>5. QED
    BY <2>3, <2>4, CommitKeepsEvents
<1>5. CASE UNCHANGED taskEvents
  BY <1>5 DEF EventsStay
<1>6. QED
  BY <1>1, <1>2, <1>3, <1>4, <1>5
     DEF QueueNext, queueVars, Create, Retry, Tick

\* What was created for the cloud stays so.
LEMMA CloudStays ==
  ASSUME EventsStay, NEW t, CreatedForCloud(t)
  PROVE  CreatedForCloud(t)'
BY DEF EventsStay, CreatedForCloud, EventsOf

UploadsAreCloudTasks ==
  \A t \in DOMAIN tasks :
    /\ toolCall[t] # None
    /\ toolCall[t].upload
    /\ tasks[t].parent = None
    => CreatedForCloud(t)

\* A new cloud task has the event of its creation.
LEMMA BornForCloud ==
  ASSUME QueueTypeOK, NEW req \in Requests, req.cloudManual, Create(req),
         NEW t, t = Len(tasks) + 1
  PROVE  CreatedForCloud(t)'
<1> DEFINE event == EventOf(t, None, NewRow(req, None).status, CreationReason(req))
<1>1. taskEvents' = taskEvents \o <<event>>
  BY DEF Create, CreateInTransaction, Commit
<1>2. event.task = t /\ event.reason.kind = "cloud_manual"
  BY DEF EventOf, CreationReason
<1> HIDE DEF event
<1>3. /\ taskEvents \in Seq(EventRows \cup {event})
      /\ <<event>> \in Seq(EventRows \cup {event})
  BY DEF QueueTypeOK
<1>4. /\ Len(taskEvents) + 1 \in DOMAIN taskEvents'
      /\ taskEvents'[Len(taskEvents) + 1] = event
  BY <1>1, <1>3, ConcatProperties, LenProperties
<1>5. QED
  BY <1>2, <1>4 DEF CreatedForCloud, EventsOf

LEMMA UploadsStep ==
  ASSUME QueueTypeOK, QueueTypeOK', McpTypeOK, UploadsAreCloudTasks,
         [McpNext]_mcpVars
  PROVE  UploadsAreCloudTasks'
<1>1. EventsStay
  BY ToolStepsAreServiceSteps, StepIsQueueStep, QueueKeepsEvents
<1>2. CASE ProjectsGrow
  <2>1. tasks' = tasks /\ toolCall' = toolCall
    BY <1>2 DEF ProjectsGrow, vars, queueVars
  <2>2. QED
    BY <1>1, <2>1, CloudStays DEF UploadsAreCloudTasks
<1>3. CASE ToolTaskIsBorn
  <2>1. PICK project \in DOMAIN projects, upload \in BOOLEAN, req \in Requests :
          /\ req.cloudManual = upload
          /\ Create(req)
          /\ toolCall' = Append(toolCall, [project |-> project, upload |-> upload])
    BY <1>3 DEF ToolTaskIsBorn
  <2> DEFINE call == [project |-> project, upload |-> upload]
             id   == Len(tasks) + 1
  <2>2. call \in ToolCalls /\ call.upload = upload
    BY ProjectTypes, ToolCallFields
  <2>3. toolCall' = Append(toolCall, call)
    BY <2>1
  <2> HIDE DEF call
  <2>4. /\ toolCall'[id] = call
        /\ \A t \in DOMAIN tasks : toolCall'[t] = toolCall[t]
        /\ tasks' = Append(tasks, NewRow(req, None))
    BY <2>1, <2>2, <2>3, BornTypes
  <2>5. /\ DOMAIN tasks' = DOMAIN tasks \cup {id}
        /\ \A t \in DOMAIN tasks : tasks'[t] = tasks[t]
    BY <2>4, AddedRow
  <2>6. ASSUME NEW t \in DOMAIN tasks', toolCall'[t] # None, toolCall'[t].upload,
               tasks'[t].parent = None
        PROVE  CreatedForCloud(t)'
    <3>1. CASE t = id
      <4>1. req.cloudManual
        BY <2>1, <2>2, <2>4, <2>6, <3>1
      <4>2. QED
        BY <2>1, <3>1, <4>1, BornForCloud
    <3>2. CASE t \in DOMAIN tasks
      BY <1>1, <2>4, <2>5, <2>6, <3>2, CloudStays DEF UploadsAreCloudTasks
    <3>3. QED
      BY <2>5, <3>1, <3>2
  <2>7. QED
    BY <2>6 DEF UploadsAreCloudTasks
<1>4. CASE ToolCallsAreCarried
  <2>1. RowsKeepParents \/ RowIsBorn
    <3>1. [QueueNext]_queueVars
      BY <1>4, StepIsQueueStep DEF ToolCallsAreCarried
    <3>2. CASE UNCHANGED queueVars
      BY <3>2 DEF queueVars, RowsKeepParents
    <3>3. QED
      BY <3>1, <3>2, StepsOnParents
  <2>2. ASSUME NEW t \in DOMAIN tasks PROVE tasks'[t].parent = tasks[t].parent
    BY <2>1, <2>2, AddedRow DEF RowsKeepParents, RowIsBorn
  <2>3. ASSUME NEW t \in DOMAIN tasks', toolCall'[t] # None, toolCall'[t].upload,
               tasks'[t].parent = None
        PROVE  CreatedForCloud(t)'
    <3>1. t \in DOMAIN toolCall /\ toolCall'[t] = toolCall[t]
      BY <1>4, <2>3, CarriedTypes
    <3>2. t \in DOMAIN tasks
      BY <3>1, ToolCallTypes
    <3>3. QED
      BY <1>1, <2>2, <2>3, <3>1, <3>2, CloudStays DEF UploadsAreCloudTasks
  <2>4. QED
    BY <2>3 DEF UploadsAreCloudTasks
<1>5. QED
  BY <1>2, <1>3, <1>4, StepsOnToolCalls

\* What a tool submits for upload runs only after an approval (tools.py:89-93).
THEOREM ToolUploadsRunOnlyAfterApprovalHolds ==
  McpSpec => []ToolUploadsRunOnlyAfterApproval
<1>1. McpInit => UploadsAreCloudTasks
  BY DEF McpInit, Init, QueueInit, UploadsAreCloudTasks
<1>2. QueueTypeOK /\ QueueTypeOK' /\ McpTypeOK /\ UploadsAreCloudTasks
        /\ [McpNext]_mcpVars => UploadsAreCloudTasks'
  BY UploadsStep
<1>3. UploadsAreCloudTasks /\ CloudTasksRunOnlyAfterApproval
        => ToolUploadsRunOnlyAfterApproval
  BY DEF UploadsAreCloudTasks, CloudTasksRunOnlyAfterApproval,
         ToolUploadsRunOnlyAfterApproval
<1>4. McpSpec => []CloudTasksRunOnlyAfterApproval
  BY ImplementsApprovalsHolds, CloudTasksRunOnlyAfterApprovalHolds, PTL
     DEF ImplementsApprovals
<1>5. QED
  BY <1>1, <1>2, <1>3, <1>4, QueueTypesWithTools, McpTypesHold, PTL DEF McpSpec

-----------------------------------------------------------------------------
\* The callers together, tools, routes and workers, keep the records of the queue
\* and of the approvals in agreement: they take no step the theorems about the
\* queue and the approvals do not speak of.
COROLLARY RecordsAgreeForEveryCaller ==
  McpSpec => [](/\ HistoryExplainsStatus
                /\ SnapshotsAreCurrent
                /\ LeaseBelongsToLastLeaser
                /\ DecisionsMatchEvents)
<1>1. McpSpec => Spec
  BY ImplementsApprovalsHolds DEF ImplementsApprovals
<1>2. Spec => QueueSpec
  BY ImplementsQueueHolds DEF ImplementsQueue
<1>. QED BY <1>1, <1>2, HistoryExplainsStatusHolds, SnapshotsAreCurrentHolds,
            LeaseBelongsToLastLeaserHolds, DecisionsMatchEventsHolds, PTL
=============================================================================
