------------------------------ MODULE McpTools ------------------------------
(***************************************************************************)
(* The tools of the MCP server (mcp/tools.py, mcp/registry.py) beside the  *)
(* REST callers of Approvals, and the projects both create                 *)
(* (projects/repository.py).  A tool asks the permission gate with the     *)
(* classification of the project it is called for, INTERNAL when it is     *)
(* called without one, and then calls the services the routes call.  The   *)
(* reading tools, and those that answer CAPABILITY_UNAVAILABLE, change     *)
(* nothing and are left out of the steps.                                  *)
(***************************************************************************)
EXTENDS Approvals, PermissionGate

CONSTANTS
  Classifications,  \* the classifications projects are created with
  MaxProjects       \* bound: rows of the projects table

\* The arguments of a call that are stored with the task: its project, and
\* whether the payload says cloud_upload.
ToolCalls == [project : 1..MaxProjects, upload : BOOLEAN]

ASSUME McpAssumption ==
  /\ Classifications \subseteq Classification
  /\ MaxProjects \in Nat
  /\ None \notin ToolCalls \cup Nat

VARIABLES
  projects,  \* table projects: the classification of each, in insertion order
  toolCall   \* by task: the tool call that created it, or the task it retries;
             \* None when that was a REST call

mcpVars == <<vars, projects, toolCall>>

\* FROZEN_TOOL_NAMES, with the permission each tool needs.
ToolOperation ==
  [ create_project |-> "create", read_project |-> "read", read_analysis |-> "read",
    read_evidence |-> "read", list_assets |-> "read",
    submit_transcription |-> "execute", submit_video_generation |-> "execute",
    submit_video_edit |-> "execute", submit_upscale |-> "execute",
    submit_interpolation |-> "execute", submit_ffmpeg_job |-> "execute",
    create_report |-> "create", create_script |-> "create",
    create_shot_list |-> "create", create_comfyui_workflow |-> "create",
    create_handoff_package |-> "create", submit_coding_task |-> "execute",
    write_result_back |-> "update", get_task_status |-> "read",
    cancel_task |-> "update", request_human_approval |-> "create" ]

\* _TASK_TYPES: the tools that create a task.
TaskTools ==
  {"submit_transcription", "submit_video_generation", "submit_video_edit",
   "submit_upscale", "submit_interpolation", "submit_ffmpeg_job", "create_report",
   "create_script", "create_shot_list", "create_comfyui_workflow",
   "create_handoff_package", "submit_coding_task", "write_result_back"}

\* _authorize, for a call with an existing project or without one.
Permitted(operation, project) ==
  Authorize("mcp_tool", operation,
            IF project = None THEN "INTERNAL" ELSE projects[project])

-----------------------------------------------------------------------------
\* Mutant: any text is taken for a classification.
CreateProjectUnvalidated(classification) ==
  /\ Len(projects) < MaxProjects
  /\ \E text \in {classification, "SECRET"} : projects' = Append(projects, text)
  /\ UNCHANGED <<vars, toolCall>>

\* POST /projects and create_project.
CreateProject(classification) ==
  /\ Len(projects) < MaxProjects
  /\ projects' = Append(projects, classification)
  /\ UNCHANGED <<vars, toolCall>>

\* Mutant: the policy of the task does not depend on its payload.
PolicyLocal(upload) == FALSE

\* Whether a tool's task is cloud_manual.
CloudManual(upload) == upload

\* A tool of TaskTools: the foreign key refuses a task without its project.
SubmitTask(operation, project, upload, req) ==
  /\ project \in DOMAIN projects
  /\ Permitted(operation, project)
  /\ req.dedupe = None
  /\ req.cloudManual = CloudManual(upload)
  /\ Create(req)
  /\ toolCall' = Append(toolCall, [project |-> project, upload |-> upload])
  /\ UNCHANGED <<approvalVars, projects>>

\* cancel_task; its reason is not told apart from that of the route.
CancelTask(project, t) ==
  /\ Permitted(ToolOperation["cancel_task"], project)
  /\ Cancel(t)
  /\ UNCHANGED <<approvalVars, projects, toolCall>>

\* Mutant: the tool leaves it to the approval to look at the task.
RequestUnchecked(c, project, t, lifetime) ==
  /\ Permitted(ToolOperation["request_human_approval"], project)
  /\ inFlight[c] = None
  /\ t \in DOMAIN tasks
  /\ inFlight' = [inFlight EXCEPT ![c] = [task |-> t, expires |-> now + lifetime]]
  /\ UNCHANGED <<queueVars, approvals, approvalId, projects, toolCall>>

\* request_human_approval, up to the transaction that inserts the approval.
RequestHumanApproval(c, project, t, lifetime) ==
  /\ Permitted(ToolOperation["request_human_approval"], project)
  /\ CheckRequest(c, t, lifetime)
  /\ UNCHANGED <<projects, toolCall>>

\* What a new row of tasks inherits: a retry copies the project and the payload.
Inherited(t) ==
  IF t \in DOMAIN toolCall THEN toolCall[t]
  ELSE IF tasks'[t].parent = None THEN None
  ELSE toolCall[tasks'[t].parent]

\* A step of the REST callers, the workers or the clock.
OtherStep ==
  /\ Next
  /\ toolCall' = [t \in DOMAIN tasks' |-> Inherited(t)]
  /\ UNCHANGED projects

ToolStep ==
  \/ \E classification \in Classifications : CreateProject(classification)
  \/ \E operation \in {ToolOperation[tool] : tool \in TaskTools},
        project \in DOMAIN projects, upload \in BOOLEAN, req \in Requests :
       SubmitTask(operation, project, upload, req)
  \/ \E project \in DOMAIN projects \cup {None}, t \in TaskIds :
       \/ CancelTask(project, t)
       \/ \E c \in Clients, lifetime \in Lifetimes :
            RequestHumanApproval(c, project, t, lifetime)

McpInit == Init /\ projects = <<>> /\ toolCall = <<>>

McpNext == OtherStep \/ ToolStep

McpSpec == McpInit /\ [][McpNext]_mcpVars

-----------------------------------------------------------------------------
(***************************************************************************)
(* Properties                                                              *)
(***************************************************************************)

\* The types of the projects and of the history of tool calls.
McpTypeOK ==
  /\ projects \in Seq(Classifications)
  /\ Len(projects) <= MaxProjects
  /\ toolCall \in Seq(ToolCalls \cup {None})
  /\ Len(toolCall) = Len(tasks)
  /\ \A t \in DOMAIN toolCall :
       toolCall[t] # None => toolCall[t].project \in DOMAIN projects

\* No work that began with a tool is in a protected project: not through a tool
\* of any permission, and not through the retries of its tasks (gate.py:49-54).
\* This is about where work begins: cancel_task and request_cloud_approval check
\* the project they are told, which need not be that of the task.
ToolWorkAvoidsProtectedProjects ==
  \A t \in DOMAIN toolCall :
    toolCall[t] # None => projects[toolCall[t].project] # "PROTECTED"

\* A task that a tool submitted with cloud_upload runs only after a human has
\* approved it, whoever leases, moves or cancels it (tools.py:89-93).  Its retries
\* are excluded: they carry no cloud policy and run unasked (OPERATOR_GUIDE_CN.md
\* says otherwise, and the run retry_bypass shows it of all cloud work).
ToolUploadsRunOnlyAfterApproval ==
  \A t \in DOMAIN tasks :
    /\ toolCall[t] # None
    /\ toolCall[t].upload
    /\ tasks[t].parent = None
    => RunsOnlyAfterApproval(t)

\* The tools touch tasks and approvals only through steps the services offer:
\* what is proved of Approvals holds with the tools as callers too.
ImplementsApprovals == Spec
=============================================================================
