--------------------------- MODULE MCDesktopState ---------------------------
(***************************************************************************)
(* DesktopState for TLC: the runs of ConnectAsync are interchangeable, and *)
(* so are the visible tasks.                                               *)
(***************************************************************************)
EXTENDS DesktopState, TLC

Symmetry ==
  { runs @@ visible : runs \in Permutations(Attempts),
                      visible \in Permutations(Tasks \ Hidden) }
=============================================================================
