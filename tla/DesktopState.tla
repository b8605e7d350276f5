---------------------------- MODULE DesktopState ----------------------------
(***************************************************************************)
(* What the desktop shows and how it connects (State/AppStateStore.cs,     *)
(* State/TaskCoordinator.cs, ViewModels/MainWindowViewModel.cs).  The      *)
(* store takes the answers of REST calls and the events of a stream; a     *)
(* call in flight may be overtaken by events.  A connect cancels the       *)
(* connection before it; the connect at start-up and those of the save     *)
(* button, which stays enabled, may overlap.                               *)
(*                                                                         *)
(* The Mac Core is its log of events: event i is a snapshot of task        *)
(* log[i], a task's version is its last event, and a task list is the      *)
(* length of the log when it was read.  A stream delivers the log from     *)
(* where it starts, in order and without gaps (module EventLog).  There is *)
(* one Mac.  An action is what runs between two awaits; a call may fail at *)
(* any time once its connection is cancelled, or MaxFailures times before. *)
(***************************************************************************)
EXTENDS Integers, Sequences, FiniteSets, FiniteSetsExt

CONSTANTS
  Attempts,    \* runs of ConnectAsync: one at start-up, others by the button
  Tasks,       \* tasks of the Mac Core
  Hidden,      \* those of the diagnostics, filtered by the list and IsVisibleTask
  ListLimit,   \* the limit GetTasksAsync asks for
  None,        \* null
  MaxLog,      \* bound: events
  MaxConns,    \* bound: connections opened
  MaxFailures  \* bound: calls and streams that fail by themselves

ASSUME DesktopAssumption ==
  /\ IsFiniteSet(Attempts)
  /\ Hidden \subseteq Tasks
  /\ ListLimit \in Nat /\ MaxLog \in Nat /\ MaxConns \in Nat /\ MaxFailures \in Nat
  /\ None \notin Nat

VARIABLES
  log,          \* Mac Core: the tasks of the events, in order
  shown,        \* store, _tasks: by task, the version shown, or 0
  lastSequence, \* store, _lastSequence
  conns,        \* the connections opened so far
  current,      \* _client, _eventStream and _connectionLifetime, or None
  eventTask,    \* _eventTask: the connection whose stream it is, or None
  attempts,     \* the runs of ConnectAsync
  refresh,      \* the run of the refresh command, or None
  submit,       \* the run of the submit command, or None
  busy,         \* IsBusy
  failures,     \* how many failures there have been, for the bound
  overtaken,    \* history: tasks that an answer has set back
  overlapped    \* history: two runs of ConnectAsync have overlapped

storeVars == <<shown, lastSequence, overtaken>>
linkVars == <<conns, current, eventTask, attempts, overlapped>>
callVars == <<refresh, submit, busy>>
vars == <<log, storeVars, linkVars, callVars, failures>>

Versions == 0..MaxLog
ConnIds == 1..MaxConns

\* MacCoreClient, EventStreamClient and CancellationTokenSource of one connect:
\* the events consumed and received, RunAsync, and the lifetime.
Connections ==
  [ last : Versions, received : Versions,
    stream : {"new", "running", "ended"},
    life : {"open", "cancelled", "disposed"} ]

\* ConnectAsync: the connection it has taken from the fields or has opened, the
\* stream it awaits, and the answer to GET /tasks.
Runs ==
  [ at      : {"idle", "cancelling", "asking", "replaced", "undoing"},
    conn    : ConnIds \cup {None},
    awaited : ConnIds \cup {None},
    answer  : Versions \cup {None} ]

Idle == [at |-> "idle", conn |-> None, awaited |-> None, answer |-> None]

\* The last event of a task among the first n.
VersionAt(t, n) == Max({0} \cup {i \in 1..n : log[i] = t})

\* A call on connection k fails: it was cancelled, or something else happened.
CallFails(k) ==
  \/ conns[k].life # "open" /\ UNCHANGED failures
  \/ failures < MaxFailures /\ failures' = failures + 1

-----------------------------------------------------------------------------
(***************************************************************************)
(* The store                                                               *)
(***************************************************************************)

\* The visible tasks created in the first n events, and which of them were
\* created after t.
Created(n) == {u \in Tasks \ Hidden : VersionAt(u, n) > 0}
Newer(t, n) == {u \in Created(n) : \E i \in 1..n : log[i] = t /\ VersionAt(u, i) = 0}

\* The version of a task in the list read when the log had length n: the list
\* has the newest tasks only.
ListedVersion(t, n) ==
  IF t \in Created(n) /\ Cardinality(Newer(t, n)) < ListLimit THEN VersionAt(t, n)
                                                            ELSE 0

\* ReplaceTasks with that list.
ReplaceTasks(n) ==
  /\ shown' = [t \in Tasks |-> ListedVersion(t, n)]
  /\ overtaken' = {t \in Tasks \ Hidden :
                     VersionAt(t, lastSequence) > ListedVersion(t, n)}
  /\ UNCHANGED lastSequence

\* UpsertTask with version v of task t.
UpsertTask(t, v) ==
  /\ shown' = [shown EXCEPT ![t] = v]
  /\ overtaken' = IF VersionAt(t, lastSequence) > v THEN overtaken \cup {t}
                                                    ELSE overtaken \ {t}
  /\ UNCHANGED lastSequence

\* Mutant: the sequence is added to the last one.
ApplyAdding(s) ==
  IF s <= lastSequence THEN UNCHANGED storeVars
  ELSE /\ lastSequence' = lastSequence + s
       /\ shown' = IF log[s] \in Hidden THEN shown ELSE [shown EXCEPT ![log[s]] = s]
       /\ overtaken' = overtaken \ {log[s]}

\* Apply: an old event changes nothing; a filtered one only its sequence.
Apply(s) ==
  IF s <= lastSequence THEN UNCHANGED storeVars
  ELSE /\ lastSequence' = s
       /\ shown' = IF log[s] \in Hidden THEN shown ELSE [shown EXCEPT ![log[s]] = s]
       /\ overtaken' = overtaken \ {log[s]}

-----------------------------------------------------------------------------
(***************************************************************************)
(* Connecting                                                              *)
(***************************************************************************)

Ended(k) == k # None => conns[k].stream = "ended"

Cancelled(cs, k) == IF k = None THEN cs ELSE [cs EXCEPT ![k].life = "cancelled"]
Disposed(cs, k) == IF k = None THEN cs ELSE [cs EXCEPT ![k].life = "disposed"]

\* Mutant: the stream goes on from what the last one has received.
OpenAfterReceived(a, cs) ==
  LET start == IF cs = <<>> THEN 0 ELSE cs[Len(cs)].received IN
  /\ conns' = Append(cs, [last |-> start, received |-> start,
                          stream |-> "new", life |-> "open"])
  /\ current' = Len(conns) + 1
  /\ attempts' = [attempts EXCEPT ![a] = [Idle EXCEPT !.at = "asking",
                                                      !.conn = Len(conns) + 1]]
  /\ busy' = TRUE

\* A new client and stream; the stream goes on from what the store has applied.
Open(a, cs) ==
  /\ conns' = Append(cs, [last |-> lastSequence, received |-> lastSequence,
                          stream |-> "new", life |-> "open"])
  /\ current' = Len(conns) + 1
  /\ attempts' = [attempts EXCEPT ![a] = [Idle EXCEPT !.at = "asking",
                                                      !.conn = Len(conns) + 1]]
  /\ busy' = TRUE

\* A connect may begin: within the bound, it will be able to open a connection.
Begins(a) ==
  /\ attempts[a].at = "idle"
  /\ Len(conns) + Cardinality({b \in Attempts : attempts[b].at = "cancelling"}) < MaxConns

Overlaps(a) == \E b \in Attempts \ {a} : attempts[b].at # "idle"

\* ConnectAsync, when there is no running stream to wait for: CancelConnection
\* returns without leaving the thread.
Connect(a) ==
  /\ Begins(a)
  /\ Ended(eventTask)
  /\ Open(a, Disposed(conns, current))
  /\ eventTask' = None
  /\ overlapped' = (overlapped \/ Overlaps(a))
  /\ UNCHANGED <<log, storeVars, refresh, submit, failures>>

\* Mutant: the connection is taken but not cancelled.
TakeUncancelled(a, phase) ==
  /\ conns' = conns
  /\ attempts' = [attempts EXCEPT ![a] = [at |-> phase, conn |-> current,
                                          awaited |-> eventTask, answer |-> None]]
  /\ current' = None
  /\ eventTask' = None

\* The start of CancelConnectionAsync: the fields are taken and emptied, the
\* connection is cancelled, and the old stream is awaited.
TakeConnection(a, phase) ==
  /\ conns' = Cancelled(conns, current)
  /\ attempts' = [attempts EXCEPT ![a] = [at |-> phase, conn |-> current,
                                          awaited |-> eventTask, answer |-> None]]
  /\ current' = None
  /\ eventTask' = None

\* ConnectAsync, when it has to wait for the stream of the last connection.
CancelFirst(a) ==
  /\ Begins(a)
  /\ ~Ended(eventTask)
  /\ TakeConnection(a, "cancelling")
  /\ overlapped' = (overlapped \/ Overlaps(a))
  /\ UNCHANGED <<log, storeVars, callVars, failures>>

\* Mutant: the new connection is opened while the old stream still runs.
ConnectUnawaited(a) ==
  /\ attempts[a].at = "cancelling"
  /\ Open(a, Disposed(conns, attempts[a].conn))
  /\ UNCHANGED <<log, storeVars, eventTask, refresh, submit, failures, overlapped>>

\* The old stream has ended: its connection is disposed and a new one opened.
ConnectAfterCancel(a) ==
  /\ attempts[a].at = "cancelling"
  /\ Ended(attempts[a].awaited)
  /\ Open(a, Disposed(conns, attempts[a].conn))
  /\ UNCHANGED <<log, storeVars, eventTask, refresh, submit, failures, overlapped>>

\* The Mac Core reads the list of tasks for a connect.
AnswerAttempt(a) ==
  /\ attempts[a].at = "asking" /\ attempts[a].answer = None
  /\ attempts' = [attempts EXCEPT ![a].answer = Len(log)]
  /\ UNCHANGED <<log, storeVars, conns, current, eventTask, callVars, failures,
                 overlapped>>

\* RefreshCoreAsync of a connect; IsBusy is reset right after it.
ReplaceByAttempt(a) ==
  /\ attempts[a].at = "asking" /\ attempts[a].answer # None
  /\ ReplaceTasks(attempts[a].answer)
  /\ attempts' = [attempts EXCEPT ![a].at = "replaced"]
  /\ busy' = FALSE
  /\ UNCHANGED <<log, conns, current, eventTask, refresh, submit, failures, overlapped>>

\* RunEventStreamAsync: with a cancelled lifetime the stream ends at once.
StartStream(a) ==
  LET k == attempts[a].conn IN
  /\ attempts[a].at = "replaced"
  /\ conns[k].life # "disposed"
  /\ conns' = [conns EXCEPT ![k].stream =
                 IF conns[k].life = "open" THEN "running" ELSE "ended"]
  /\ eventTask' = k
  /\ attempts' = [attempts EXCEPT ![a] = Idle]
  /\ UNCHANGED <<log, storeVars, current, callVars, failures, overlapped>>

\* Mutant: a failed connect leaves the fields as they are.
UndoNothing(a) ==
  /\ \/ attempts[a].at = "asking" /\ CallFails(attempts[a].conn)
     \/ /\ attempts[a].at = "replaced"
        /\ conns[attempts[a].conn].life = "disposed"
        /\ UNCHANGED failures
  /\ attempts' = [attempts EXCEPT ![a] = [Idle EXCEPT !.at = "undoing"]]
  /\ current' = None
  /\ busy' = FALSE
  /\ UNCHANGED <<log, storeVars, conns, eventTask, refresh, submit, overlapped>>

\* The catch of ConnectAsync, after a failed call or on a disposed lifetime: it
\* takes whatever connection is in the fields by now.
Undo(a) ==
  /\ \/ attempts[a].at = "asking" /\ CallFails(attempts[a].conn)
     \/ /\ attempts[a].at = "replaced"
        /\ conns[attempts[a].conn].life = "disposed"
        /\ UNCHANGED failures
  /\ TakeConnection(a, "undoing")
  /\ busy' = FALSE
  /\ UNCHANGED <<log, storeVars, refresh, submit, overlapped>>

\* CancelConnectionAsync of the catch returns, and the connect has failed.
FinishUndo(a) ==
  /\ attempts[a].at = "undoing"
  /\ Ended(attempts[a].awaited)
  /\ conns' = Disposed(conns, attempts[a].conn)
  /\ attempts' = [attempts EXCEPT ![a] = Idle]
  /\ UNCHANGED <<log, storeVars, current, eventTask, callVars, failures, overlapped>>

-----------------------------------------------------------------------------
(***************************************************************************)
(* The event stream                                                        *)
(***************************************************************************)

Running(k) == k \in DOMAIN conns /\ conns[k].stream = "running"

\* The receiver puts an event into the channel.
Receive(k) ==
  /\ Running(k) /\ conns[k].life = "open"
  /\ conns[k].received < Len(log)
  /\ conns' = [conns EXCEPT ![k].received = @ + 1]
  /\ UNCHANGED <<log, storeVars, current, eventTask, attempts, callVars, failures,
                 overlapped>>

\* ApplyEventAsync: also after a cancel, for what is left in the channel.
Consume(k) ==
  /\ Running(k)
  /\ conns[k].last < conns[k].received
  /\ Apply(conns[k].last + 1)
  /\ conns' = [conns EXCEPT ![k].last = @ + 1]
  /\ UNCHANGED <<log, current, eventTask, attempts, callVars, failures, overlapped>>

\* RunEventStreamAsync returns on a cancelled lifetime.
StreamEnds(k) ==
  /\ Running(k)
  /\ conns[k].life # "open"
  /\ conns' = [conns EXCEPT ![k].stream = "ended"]
  /\ UNCHANGED <<log, storeVars, current, eventTask, attempts, callVars, failures,
                 overlapped>>

\* The Mac refuses the token: the channel is drained and the stream ends.
StreamFails(k) ==
  /\ Running(k)
  /\ conns[k].last = conns[k].received
  /\ failures < MaxFailures
  /\ failures' = failures + 1
  /\ conns' = [conns EXCEPT ![k].stream = "ended"]
  /\ UNCHANGED <<log, storeVars, current, eventTask, attempts, callVars, overlapped>>

-----------------------------------------------------------------------------
(***************************************************************************)
(* The commands and the Mac Core                                           *)
(***************************************************************************)

\* RefreshAsync with a client; the command is disabled while IsBusy.
Refresh ==
  /\ ~busy /\ refresh = None /\ current # None
  /\ refresh' = [conn |-> current, answer |-> None]
  /\ busy' = TRUE
  /\ UNCHANGED <<log, storeVars, linkVars, submit, failures>>

AnswerRefresh ==
  /\ refresh # None /\ refresh.answer = None
  /\ refresh' = [refresh EXCEPT !.answer = Len(log)]
  /\ UNCHANGED <<log, storeVars, linkVars, submit, busy, failures>>

EndRefresh ==
  /\ refresh # None
  /\ \/ refresh.answer # None /\ ReplaceTasks(refresh.answer) /\ UNCHANGED failures
     \/ CallFails(refresh.conn) /\ UNCHANGED storeVars
  /\ refresh' = None
  /\ busy' = FALSE
  /\ UNCHANGED <<log, linkVars, submit>>

\* SubmitTaskAsync: the task is named here, before the Mac Core creates it.
Submit(t) ==
  /\ ~busy /\ submit = None /\ current # None
  /\ VersionAt(t, Len(log)) = 0
  /\ submit' = [conn |-> current, task |-> t, answer |-> None]
  /\ busy' = TRUE
  /\ UNCHANGED <<log, storeVars, linkVars, refresh, failures>>

CreateSubmitted ==
  /\ submit # None /\ submit.answer = None
  /\ Len(log) < MaxLog
  /\ log' = Append(log, submit.task)
  /\ submit' = [submit EXCEPT !.answer = Len(log) + 1]
  /\ UNCHANGED <<storeVars, linkVars, refresh, busy, failures>>

\* CreateAsync returns: the answer goes into the store, or it is lost.
EndSubmit ==
  /\ submit # None
  /\ \/ submit.answer # None /\ UpsertTask(submit.task, submit.answer)
                             /\ UNCHANGED failures
     \/ CallFails(submit.conn) /\ UNCHANGED storeVars
  /\ submit' = None
  /\ busy' = FALSE
  /\ UNCHANGED <<log, linkVars, refresh>>

\* A task of the Mac Core is created by someone else, or changes.
TaskChanges(t) ==
  /\ Len(log) < MaxLog
  /\ submit # None => (submit.task # t \/ submit.answer # None)
  /\ log' = Append(log, t)
  /\ UNCHANGED <<storeVars, linkVars, callVars, failures>>

-----------------------------------------------------------------------------
Init ==
  /\ log = <<>>
  /\ shown = [t \in Tasks |-> 0]
  /\ lastSequence = 0
  /\ conns = <<>>
  /\ current = None
  /\ eventTask = None
  /\ attempts = [a \in Attempts |-> Idle]
  /\ refresh = None
  /\ submit = None
  /\ busy = FALSE
  /\ failures = 0
  /\ overtaken = {}
  /\ overlapped = FALSE

ConnectStep(a) ==
  \/ Connect(a) \/ CancelFirst(a) \/ ConnectAfterCancel(a)
  \/ AnswerAttempt(a) \/ ReplaceByAttempt(a) \/ StartStream(a)
  \/ Undo(a) \/ FinishUndo(a)

StreamStep(k) == Receive(k) \/ Consume(k) \/ StreamEnds(k) \/ StreamFails(k)

CommandStep ==
  \/ Refresh \/ AnswerRefresh \/ EndRefresh
  \/ CreateSubmitted \/ EndSubmit
  \/ \E t \in Tasks \ Hidden : Submit(t)

Next ==
  \/ \E a \in Attempts : ConnectStep(a)
  \/ \E k \in ConnIds : StreamStep(k)
  \/ CommandStep
  \/ \E t \in Tasks : TaskChanges(t)

Spec == Init /\ [][Next]_vars

-----------------------------------------------------------------------------
(***************************************************************************)
(* Properties                                                              *)
(***************************************************************************)

\* The types of the store, the connections and the calls in flight.
DesktopTypeOK ==
  /\ log \in Seq(Tasks) /\ Len(log) <= MaxLog
  /\ shown \in [Tasks -> Versions]
  /\ lastSequence \in 0..Len(log)
  /\ conns \in Seq(Connections) /\ Len(conns) <= MaxConns
  /\ {current, eventTask} \subseteq DOMAIN conns \cup {None}
  /\ attempts \in [Attempts -> Runs]
  /\ refresh \in [conn : ConnIds, answer : Versions \cup {None}] \cup {None}
  /\ submit \in [conn : ConnIds, task : Tasks, answer : Versions \cup {None}]
                \cup {None}
  /\ busy \in BOOLEAN
  /\ failures \in 0..MaxFailures
  /\ overtaken \in SUBSET Tasks
  /\ overlapped \in BOOLEAN

\* No event is left out and none is undone, by whatever connections, retries and
\* overlapping consumers it came: a task is shown older than the applied events
\* have it only because a REST answer was read before an event and stored after
\* it, or left the task out as too old (AppStateStore.cs:65, TaskCoordinator.cs:19).
OnlyOvertakenAnswersLeaveStaleRows ==
  \A t \in Tasks \ Hidden :
    shown[t] < VersionAt(t, lastSequence) => t \in overtaken

\* Unless two connects overlap, at most one stream applies events, those of
\* cancelled connections included (MainWindowViewModel.cs:385).
OneConsumerAtATime ==
  overlapped \/ Cardinality({k \in DOMAIN conns : Running(k)}) <= 1

\* Unless two connects overlap, no connection is forgotten while it is open: the
\* next cancel will find it.
OpenConnectionsAreCurrent ==
  overlapped \/ \A k \in DOMAIN conns : conns[k].life = "open" => k = current

\* Unless two connects overlap, what a connect waits for is a stream that was told
\* to end: no connect waits forever on a live stream (MainWindowViewModel.cs:401).
AwaitedStreamsEnd ==
  overlapped \/ \A a \in Attempts :
    attempts[a].awaited # None => conns[attempts[a].awaited].life # "open"
=============================================================================
