---------------------------- MODULE MCTaskQueue ----------------------------
(***************************************************************************)
(* TaskQueue with finite constants.  The keys are strings that stand for   *)
(* two callers' keys; the reasons stand for the two kinds of callers of    *)
(* QueueRepository.transition.                                             *)
(***************************************************************************)
EXTENDS TaskQueue, TLC

CallReasons == {[kind |-> "caller", by |-> None]}

Symmetry == Permutations(Workers)
=============================================================================
