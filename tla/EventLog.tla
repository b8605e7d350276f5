------------------------------ MODULE EventLog ------------------------------
(***************************************************************************)
(* What the delivery of task events promises a desktop: the Mac Core keeps *)
(* one log of events, and each desktop applies the log from its beginning, *)
(* one event after the other, none left out and none applied twice         *)
(* (phase 2 design, "Consistency and recovery").  How far behind a desktop *)
(* may be is not bounded.                                                  *)
(***************************************************************************)
EXTENDS Naturals

CONSTANTS
  Clients,   \* the desktops
  MaxEvents  \* bound: length of the log

VARIABLES
  length,    \* length of the log
  applied    \* by client: how many events it has applied

Init ==
  /\ length = 0
  /\ applied = [c \in Clients |-> 0]

\* A transaction appends one or more events.
Append ==
  /\ length' \in (length + 1)..MaxEvents
  /\ UNCHANGED applied

Apply(c) ==
  /\ applied[c] < length
  /\ applied' = [applied EXCEPT ![c] = @ + 1]
  /\ UNCHANGED length

Next == Append \/ \E c \in Clients : Apply(c)

Spec == Init /\ [][Next]_<<length, applied>>
=============================================================================
