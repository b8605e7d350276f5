----------------------------- MODULE MCServices -----------------------------
(***************************************************************************)
(* Three services of the Mac Core that share no state and never call each  *)
(* other: the MCP tools with what they stand on, the result store, and the *)
(* audit chain.  A behaviour of all three is one of each, so one of them   *)
(* moves in a behaviour, the others rest: what is checked of each is the   *)
(* same, and the states are a sum and not a product.                       *)
(***************************************************************************)
EXTENDS McpTools, ResultStore, AuditChain

VARIABLE moving  \* the service that moves

CallReasons ==
  [kind : {"approval", "approval_rejected"}, by : 1..MaxApprovals]
    \cup [kind : {"api_cancel", "worker"}, by : {None}]

ServicesInit ==
  /\ McpInit /\ ResultInit /\ AuditInit
  /\ moving \in {"tools", "results", "audit"}

ToolsMove ==
  moving = "tools" /\ McpNext /\ UNCHANGED <<resultVars, auditVars, moving>>

ResultsMove ==
  moving = "results" /\ ResultNext /\ UNCHANGED <<mcpVars, auditVars, moving>>

AuditMoves ==
  moving = "audit" /\ AuditNext /\ UNCHANGED <<mcpVars, resultVars, moving>>

ServicesNext == ToolsMove \/ ResultsMove \/ AuditMoves

\* The types of the state of the three services.
ServicesTypeOK == McpTypeOK /\ ResultTypeOK /\ AuditTypeOK

ServicesSpec ==
  ServicesInit /\ [][ServicesNext]_<<mcpVars, resultVars, auditVars, moving>>
=============================================================================
