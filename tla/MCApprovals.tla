---------------------------- MODULE MCApprovals ----------------------------
(***************************************************************************)
(* Approvals with finite constants: the reasons are those the callers in   *)
(* the repository give, with up to MaxApprovals approvals.                 *)
(***************************************************************************)
EXTENDS Approvals

CallReasons ==
  [kind : {"approval", "approval_rejected"}, by : 1..MaxApprovals]
    \cup [kind : {"api_cancel", "worker"}, by : {None}]
=============================================================================
