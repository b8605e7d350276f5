--------------------------- MODULE PermissionGate ---------------------------
(***************************************************************************)
(* The permission gate of the Mac Core (permissions/gate.py, models.py):   *)
(* what it answers, as an operator.  A refusal raises; the reason codes    *)
(* are left out.                                                           *)
(***************************************************************************)

Classification == {"PUBLIC", "INTERNAL", "PROTECTED"}

ActorType == {"human_operator", "mac_agent", "mcp_tool", "windows_device",
              "connector", "health_supervisor", "cloud_exporter"}

Operation == {"read", "create", "update", "delete", "move", "execute",
              "cloud_upload"}

ControlledReaders == {"human_operator", "mac_agent", "connector", "mcp_tool"}

WorkspaceWriters ==
  {"human_operator", "mac_agent", "mcp_tool", "windows_device", "connector"}

Mutations == {"create", "update", "delete", "move"}

\* Mutant: in a protected project only what is listed is refused.
AuthorizeByList(actor, operation, classification) ==
  \/ /\ classification = "PROTECTED"
     /\ operation \notin Mutations \cup {"cloud_upload"}
  \/ /\ classification # "PROTECTED"
     /\ \/ operation = "cloud_upload" /\ actor = "cloud_exporter"
        \/ operation \in Mutations /\ actor \in WorkspaceWriters
        \/ operation \in {"read", "execute"}

\* authorize returns a decision, it does not raise.
Authorize(actor, operation, classification) ==
  \/ /\ classification = "PROTECTED"
     /\ operation = "read" /\ actor \in ControlledReaders
  \/ /\ classification # "PROTECTED"
     /\ \/ operation = "cloud_upload" /\ actor = "cloud_exporter"
        \/ operation \in Mutations /\ actor \in WorkspaceWriters
        \/ operation \in {"read", "execute"}
=============================================================================
