------------------------- MODULE DesktopStateProofs -------------------------
(***************************************************************************)
(* What TLAPS proves of the desktop, for every set of runs of ConnectAsync,*)
(* of tasks and for every bound: its types, that a row is stale only after *)
(* an answer that was overtaken, and that, unless two connects overlap,    *)
(* one stream at a time is consumed, no open connection is forgotten and   *)
(* no connect waits for a stream that was not told to end.                 *)
(***************************************************************************)
EXTENDS DesktopState, SequenceTheorems, FiniteSetTheorems, WellFoundedInduction,
        TLAPS

-----------------------------------------------------------------------------
(***************************************************************************)
(* The versions of a task                                                  *)
(***************************************************************************)

\* A set of naturals with an upper bound has a greatest element.
LEMMA GreatestElement ==
  ASSUME NEW n \in Nat, NEW S, S \subseteq 0..n, S # {}
  PROVE  /\ Max(S) \in S
         /\ \A x \in S : Max(S) >= x
<1> DEFINE T == {n - x : x \in S}
<1>1. T \subseteq Nat /\ T # {}
  <2>1. T \subseteq Nat
    OBVIOUS
  <2>2. PICK x \in S : TRUE
    OBVIOUS
  <2>3. n - x \in T
    BY <2>2
  <2>4. QED
    BY <2>1, <2>3
<1>2. PICK d \in T : \A e \in T : ~(<<e, d>> \in OpToRel(<, Nat))
  BY <1>1, NatLessThanWellFounded, WFMin
<1>3. \A e \in T : ~(e < d)
  BY <1>1, <1>2 DEF OpToRel
<1>4. PICK m \in S : d = n - m
  OBVIOUS
<1>5. ASSUME NEW x \in S PROVE m >= x
  <2>1. n - x \in T /\ x \in 0..n /\ m \in 0..n
    OBVIOUS
  <2>2. ~(n - x < n - m)
    BY <1>3, <1>4, <2>1
  <2>3. QED
    BY <2>1, <2>2
<1>6. QED
  BY <1>4, <1>5 DEF Max

-----------------------------------------------------------------------------
(***************************************************************************)
(* The inductive invariant                                                 *)
(***************************************************************************)

Cancelling == {a \in Attempts : attempts[a].at = "cancelling"}

\* A stream has consumed no more than it has received, which is no more than
\* there is; the store has applied whatever a stream has consumed.
StreamsBehindStore ==
  \A k \in DOMAIN conns : /\ conns[k].last <= conns[k].received
                          /\ conns[k].received <= Len(log)
                          /\ conns[k].last <= lastSequence

\* What the runs of ConnectAsync refer to is there.
RunsHaveConnections ==
  \A a \in Attempts :
    /\ {attempts[a].conn, attempts[a].awaited} \subseteq DOMAIN conns \cup {None}
    /\ attempts[a].at \in {"asking", "replaced"} => attempts[a].conn # None
    /\ attempts[a].awaited # None => attempts[a].at \in {"cancelling", "undoing"}

\* There is room for the connections that the runs will open.
RoomToConnect == Len(conns) + Cardinality(Cancelling) <= MaxConns

\* While connects do not overlap: one run at most is on, what is open is in the
\* fields, what still runs is in the fields or awaited, and the fields are empty
\* while a run cancels, and without a stream while one connects.
ConnectsDoNotMix ==
  /\ \A a, b \in Attempts :
       attempts[a].at # "idle" /\ attempts[b].at # "idle" => a = b
  /\ \A k \in DOMAIN conns : conns[k].life = "open" => k = current
  /\ \A k \in DOMAIN conns :
       conns[k].stream = "running" =>
         k = eventTask \/ \E a \in Attempts : attempts[a].awaited = k
  /\ \A a \in Attempts :
       /\ attempts[a].at # "idle" => eventTask = None
       /\ attempts[a].at \in {"cancelling", "undoing"} => current = None

DesktopInv ==
  /\ DesktopTypeOK
  /\ StreamsBehindStore
  /\ RunsHaveConnections
  /\ RoomToConnect
  /\ OnlyOvertakenAnswersLeaveStaleRows
  /\ overlapped \/ ConnectsDoNotMix

-----------------------------------------------------------------------------
(***************************************************************************)
(* Lemmas on the versions                                                  *)
(***************************************************************************)

\* A version is no later than the events it is taken from.
LEMMA VersionBounds ==
  ASSUME NEW t, NEW n \in Nat
  PROVE  /\ VersionAt(t, n) \in 0..n
         /\ \A i \in 1..n : log[i] = t => VersionAt(t, n) >= i
         /\ VersionAt(t, n) = 0 \/ log[VersionAt(t, n)] = t
<1> DEFINE S == {0} \cup {i \in 1..n : log[i] = t}
<1>1. S \subseteq 0..n /\ 0 \in S
  OBVIOUS
<1>2. Max(S) \in S /\ \A x \in S : Max(S) >= x
  <2> HIDE DEF S
  <2>1. S # {}
    BY <1>1
  <2>2. QED
    BY <1>1, <2>1, GreatestElement
<1>3. VersionAt(t, n) = Max(S)
  BY DEF VersionAt
<1>4. \A i \in 1..n : log[i] = t => i \in S
  OBVIOUS
<1>5. Max(S) = 0 \/ log[Max(S)] = t
  BY <1>2
<1> HIDE DEF S
<1>6. QED
  BY <1>1, <1>2, <1>3, <1>4, <1>5

\* The list of GET /tasks has no version later than that.
LEMMA ListedVersionBounds ==
  ASSUME NEW t, NEW n \in Nat
  PROVE  ListedVersion(t, n) \in 0..n
BY VersionBounds DEF ListedVersion

\* The next event sets the version of its own task and of no other.
LEMMA NextVersion ==
  ASSUME NEW t, NEW n \in Nat
  PROVE  VersionAt(t, n + 1) = IF log[n + 1] = t THEN n + 1 ELSE VersionAt(t, n)
<1> DEFINE v == VersionAt(t, n)
           w == VersionAt(t, n + 1)
<1>1. /\ v \in 0..n
      /\ \A i \in 1..n : log[i] = t => v >= i
      /\ v = 0 \/ log[v] = t
  BY VersionBounds
<1>2. /\ w \in 0..(n + 1)
      /\ \A i \in 1..(n + 1) : log[i] = t => w >= i
      /\ w = 0 \/ log[w] = t
  BY VersionBounds
<1> HIDE DEF v, w
<1>3. CASE log[n + 1] = t
  BY <1>2, <1>3 DEF w
<1>4. CASE log[n + 1] # t
  <2>1. w \in 0..n
    BY <1>2, <1>4
  <2>2. w >= v
    BY <1>1, <1>2, <1>4
  <2>3. v >= w
    BY <1>1, <1>2, <2>1
  <2>4. QED
    BY <1>1, <1>4, <2>1, <2>2, <2>3 DEF v, w
<1>5. QED
  BY <1>3, <1>4

-----------------------------------------------------------------------------
(***************************************************************************)
(* The store                                                               *)
(***************************************************************************)

\* What a step does to the store and the log.
StoreStep ==
  \/ UNCHANGED <<log, storeVars>>
  \/ UNCHANGED log /\ \E n \in Versions : ReplaceTasks(n)
  \/ UNCHANGED log /\ \E t \in Tasks, v \in Versions : UpsertTask(t, v)
  \/ /\ UNCHANGED log
     /\ \E k \in DOMAIN conns : /\ conns[k].last < conns[k].received
                                /\ Apply(conns[k].last + 1)
  \/ /\ Len(log) < MaxLog /\ UNCHANGED storeVars
     /\ \E t \in Tasks : log' = Append(log, t)

LEMMA StepsOnStore ==
  ASSUME DesktopTypeOK, [Next]_vars
  PROVE  StoreStep
<1>1. ASSUME NEW a \in Attempts, ConnectStep(a) PROVE StoreStep
  <2>1. ASSUME ReplaceByAttempt(a) PROVE StoreStep
    <3>1. attempts[a].answer \in Versions
      BY <2>1 DEF ReplaceByAttempt, DesktopTypeOK, Runs
    <3>2. QED
      BY <2>1, <3>1 DEF ReplaceByAttempt, StoreStep
  <2>2. QED
    BY <1>1, <2>1
       DEF ConnectStep, Connect, CancelFirst, ConnectAfterCancel, AnswerAttempt,
           StartStream, Undo, FinishUndo, StoreStep
<1>2. ASSUME NEW k \in ConnIds, StreamStep(k) PROVE StoreStep
  BY <1>2 DEF StreamStep, Receive, Consume, StreamEnds, StreamFails, Running, StoreStep
<1>3. ASSUME CommandStep PROVE StoreStep
  <2>1. ASSUME EndRefresh PROVE StoreStep
    <3>1. refresh.answer # None => refresh.answer \in Versions
      BY <2>1 DEF EndRefresh, DesktopTypeOK
    <3>2. QED
      BY <2>1, <3>1 DEF EndRefresh, StoreStep
  <2>2. ASSUME EndSubmit PROVE StoreStep
    <3>1. /\ submit.task \in Tasks
          /\ submit.answer # None => submit.answer \in Versions
      BY <2>2 DEF EndSubmit, DesktopTypeOK
    <3>2. QED
      BY <2>2, <3>1 DEF EndSubmit, StoreStep
  <2>3. ASSUME CreateSubmitted PROVE StoreStep
    <3>1. submit.task \in Tasks
      BY <2>3 DEF CreateSubmitted, DesktopTypeOK
    <3>2. QED
      BY <2>3, <3>1 DEF CreateSubmitted, StoreStep
  <2>4. QED
    BY <1>3, <2>1, <2>2, <2>3 DEF CommandStep, Refresh, AnswerRefresh, Submit, StoreStep
<1>4. ASSUME NEW t \in Tasks, TaskChanges(t) PROVE StoreStep
  BY <1>4 DEF TaskChanges, StoreStep
<1>5. CASE UNCHANGED vars
  BY <1>5 DEF vars, StoreStep
<1>6. QED
  BY <1>1, <1>2, <1>3, <1>4, <1>5 DEF Next

\* The log and the last applied sequence only grow, and the store keeps its types.
LEMMA StoreTypesStep ==
  ASSUME DesktopTypeOK, StreamsBehindStore, StoreStep
  PROVE  /\ log' \in Seq(Tasks) /\ Len(log') <= MaxLog /\ Len(log) <= Len(log')
         /\ shown' \in [Tasks -> Versions]
         /\ lastSequence' \in 0..Len(log') /\ lastSequence <= lastSequence'
         /\ overtaken' \in SUBSET Tasks
<1>1. /\ log \in Seq(Tasks) /\ Len(log) \in Nat /\ Len(log) <= MaxLog
      /\ MaxLog \in Nat
      /\ shown \in [Tasks -> Versions] /\ lastSequence \in 0..Len(log)
      /\ overtaken \in SUBSET Tasks
  BY LenProperties, DesktopAssumption DEF DesktopTypeOK
<1>2. CASE UNCHANGED <<log, storeVars>>
  BY <1>1, <1>2 DEF storeVars
<1>3. ASSUME UNCHANGED log, NEW n \in Versions, ReplaceTasks(n)
      PROVE  /\ shown' \in [Tasks -> Versions] /\ overtaken' \in SUBSET Tasks
             /\ lastSequence' = lastSequence
  <2>1. n \in Nat /\ 0..n \subseteq Versions
    BY <1>1 DEF Versions
  <2>2. \A t \in Tasks : ListedVersion(t, n) \in Versions
    BY <2>1, ListedVersionBounds
  <2>3. QED
    BY <1>3, <2>2 DEF ReplaceTasks
<1>4. ASSUME UNCHANGED log, NEW t \in Tasks, NEW v \in Versions, UpsertTask(t, v)
      PROVE  /\ shown' \in [Tasks -> Versions] /\ overtaken' \in SUBSET Tasks
             /\ lastSequence' = lastSequence
  BY <1>1, <1>4 DEF UpsertTask
<1>5. ASSUME UNCHANGED log, NEW k \in DOMAIN conns, conns[k].last < conns[k].received,
             Apply(conns[k].last + 1)
      PROVE  /\ shown' \in [Tasks -> Versions] /\ overtaken' \in SUBSET Tasks
             /\ lastSequence' \in 0..Len(log) /\ lastSequence <= lastSequence'
  <2> DEFINE s == conns[k].last + 1
  <2>1. conns[k] \in Connections
    BY DEF DesktopTypeOK
  <2>2. s \in 1..Len(log)
    BY <1>1, <1>5, <2>1 DEF Connections, Versions, StreamsBehindStore
  <2>3. log[s] \in Tasks /\ s \in Versions
    BY <1>1, <2>2, ElementOfSeq DEF Versions
  <2> HIDE DEF s
  <2>4. QED
    BY <1>1, <1>5, <2>2, <2>3 DEF Apply, s, storeVars
<1>6. ASSUME Len(log) < MaxLog, UNCHANGED storeVars,
             NEW t \in Tasks, log' = Append(log, t)
      PROVE  /\ log' \in Seq(Tasks) /\ Len(log') = Len(log) + 1
             /\ shown' = shown /\ lastSequence' = lastSequence /\ overtaken' = overtaken
  BY <1>1, <1>6, AppendProperties DEF storeVars
<1>7. QED
  BY <1>1, <1>2, <1>3, <1>4, <1>5, <1>6 DEF StoreStep

\* A row falls behind the applied events only by an answer that was overtaken.
LEMMA StaleRowsStep ==
  ASSUME DesktopTypeOK, StreamsBehindStore, OnlyOvertakenAnswersLeaveStaleRows,
         StoreStep
  PROVE  OnlyOvertakenAnswersLeaveStaleRows'
<1> SUFFICES ASSUME NEW t \in Tasks \ Hidden,
                    shown'[t] < VersionAt(t, lastSequence)'
             PROVE  t \in overtaken'
  BY DEF OnlyOvertakenAnswersLeaveStaleRows
<1>1. /\ log \in Seq(Tasks) /\ Len(log) \in Nat
      /\ lastSequence \in 0..Len(log) /\ shown \in [Tasks -> Versions]
      /\ shown[t] < VersionAt(t, lastSequence) => t \in overtaken
  BY LenProperties DEF DesktopTypeOK, OnlyOvertakenAnswersLeaveStaleRows
<1>2. ASSUME UNCHANGED log PROVE \A n : VersionAt(t, n)' = VersionAt(t, n)
  BY <1>2 DEF VersionAt
<1>3. CASE UNCHANGED <<log, storeVars>>
  BY <1>1, <1>3 DEF storeVars, VersionAt
<1>4. ASSUME UNCHANGED log, NEW n \in Versions, ReplaceTasks(n)
      PROVE  t \in overtaken'
  BY <1>4 DEF ReplaceTasks, VersionAt
<1>5. ASSUME UNCHANGED log, NEW u \in Tasks, NEW v \in Versions, UpsertTask(u, v)
      PROVE  t \in overtaken'
  BY <1>1, <1>5 DEF UpsertTask, VersionAt
<1>6. ASSUME UNCHANGED log, NEW k \in DOMAIN conns, conns[k].last < conns[k].received,
             Apply(conns[k].last + 1)
      PROVE  t \in overtaken'
  <2> DEFINE s == conns[k].last + 1
  <2>1. conns[k].last \in Nat /\ conns[k].last <= lastSequence
    <3>1. conns[k] \in Connections
      BY DEF DesktopTypeOK
    <3>2. QED
      BY <3>1 DEF Connections, Versions, StreamsBehindStore
  <2>2. CASE s <= lastSequence
    BY <1>1, <1>6, <2>2 DEF Apply, storeVars, VersionAt
  <2>3. CASE ~(s <= lastSequence)
    <3>1. s = lastSequence + 1 /\ lastSequence \in Nat
      BY <1>1, <2>1, <2>3
    <3>2. /\ lastSequence' = s
          /\ shown' = IF log[s] \in Hidden THEN shown ELSE [shown EXCEPT ![log[s]] = s]
          /\ overtaken' = overtaken \ {log[s]}
      BY <1>6, <2>3 DEF Apply
    <3>3. VersionAt(t, lastSequence)' = VersionAt(t, s)
      BY <1>6, <3>2 DEF VersionAt
    <3>4. VersionAt(t, s) = IF log[s] = t THEN s ELSE VersionAt(t, lastSequence)
      BY <3>1, NextVersion
    <3>5. CASE log[s] = t
      BY <1>1, <3>1, <3>2, <3>3, <3>4, <3>5
    <3>6. CASE log[s] # t
      <4>1. shown'[t] = shown[t]
        BY <1>1, <3>2, <3>6
      <4>2. QED
        BY <1>1, <3>2, <3>3, <3>4, <3>6, <4>1
    <3>7. QED
      BY <3>5, <3>6
  <2>4. QED
    BY <2>2, <2>3
<1>7. ASSUME Len(log) < MaxLog, UNCHANGED storeVars,
             NEW u \in Tasks, log' = Append(log, u)
      PROVE  t \in overtaken'
  <2>1. lastSequence' = lastSequence /\ shown' = shown /\ overtaken' = overtaken
    BY <1>7 DEF storeVars
  <2>2. VersionAt(t, lastSequence)' = VersionAt(t, lastSequence)
    <3>1. \A i \in 1..lastSequence : log'[i] = log[i]
      BY <1>1, <1>7, AppendProperties, LenProperties
    <3>2. {i \in 1..lastSequence : log'[i] = t} = {i \in 1..lastSequence : log[i] = t}
      BY <3>1
    <3>3. QED
      BY <2>1, <3>2 DEF VersionAt
  <2>3. QED
    BY <1>1, <2>1, <2>2
<1>8. QED
  BY <1>3, <1>4, <1>5, <1>6, <1>7 DEF StoreStep

-----------------------------------------------------------------------------
(***************************************************************************)
(* The connections                                                         *)
(***************************************************************************)

LinkTypes ==
  /\ conns \in Seq(Connections) /\ Len(conns) <= MaxConns
  /\ {current, eventTask} \subseteq DOMAIN conns \cup {None}
  /\ attempts \in [Attempts -> Runs]
  /\ overlapped \in BOOLEAN

\* The part of the invariant that is about connections.
LinkInv ==
  /\ LinkTypes
  /\ StreamsBehindStore
  /\ RunsHaveConnections
  /\ overlapped \/ ConnectsDoNotMix

\* The connections are numbered from 1 and well-typed, and None is no number.
LEMMA ConnTypes ==
  ASSUME LinkTypes
  PROVE  /\ Len(conns) \in Nat /\ DOMAIN conns = 1..Len(conns)
         /\ \A k \in DOMAIN conns : conns[k] \in Connections /\ k \in ConnIds
         /\ None \notin DOMAIN conns
         /\ MaxConns \in Nat
         /\ \A a \in Attempts : attempts[a] \in Runs
<1>1. Len(conns) \in Nat /\ DOMAIN conns = 1..Len(conns) /\ MaxConns \in Nat
  BY LenProperties, DesktopAssumption DEF LinkTypes
<1>2. \A k \in DOMAIN conns : conns[k] \in Connections
  BY DEF LinkTypes
<1>3. \A a \in Attempts : attempts[a] \in Runs
  BY DEF LinkTypes
<1>4. QED
  BY <1>1, <1>2, <1>3, DesktopAssumption DEF LinkTypes, ConnIds

\* The streams of cs are those of conns.
SameStreams(cs) ==
  /\ cs \in Seq(Connections)
  /\ Len(cs) = Len(conns) /\ DOMAIN cs = DOMAIN conns
  /\ \A j \in DOMAIN conns : /\ cs[j].last = conns[j].last
                             /\ cs[j].received = conns[j].received
                             /\ cs[j].stream = conns[j].stream

\* Cancelling or disposing a connection ends its life and touches no stream.
LEMMA LivesEnd ==
  ASSUME LinkTypes, NEW k \in DOMAIN conns \cup {None}
  PROVE  /\ SameStreams(Cancelled(conns, k))
         /\ \A j \in DOMAIN conns : Cancelled(conns, k)[j].life =
                                      IF j = k THEN "cancelled" ELSE conns[j].life
         /\ SameStreams(Disposed(conns, k))
         /\ \A j \in DOMAIN conns : Disposed(conns, k)[j].life =
                                      IF j = k THEN "disposed" ELSE conns[j].life
<1>1. CASE k = None
  BY <1>1, ConnTypes DEF SameStreams, Cancelled, Disposed, LinkTypes
<1>2. ASSUME k # None, NEW life \in {"cancelled", "disposed"},
             NEW cs, cs = [conns EXCEPT ![k].life = life]
      PROVE  /\ SameStreams(cs)
             /\ \A j \in DOMAIN conns :
                  cs[j].life = IF j = k THEN life ELSE conns[j].life
  <2>1. k \in DOMAIN conns /\ conns[k] \in Connections
    BY <1>2, ConnTypes
  <2> DEFINE row == [conns[k] EXCEPT !.life = life]
  <2>2. /\ row \in Connections /\ row.life = life
        /\ row.last = conns[k].last /\ row.received = conns[k].received
        /\ row.stream = conns[k].stream
    BY <2>1 DEF Connections
  <2>3. cs = [conns EXCEPT ![k] = row]
    BY <1>2
  <2> HIDE DEF row
  <2>4. /\ cs \in Seq(Connections) /\ Len(cs) = Len(conns)
        /\ DOMAIN cs = DOMAIN conns
        /\ cs[k] = row /\ \A j \in DOMAIN conns : j # k => cs[j] = conns[j]
    BY <2>1, <2>2, <2>3 DEF LinkTypes
  <2>5. QED
    BY <2>2, <2>4 DEF SameStreams
<1>3. QED
  BY <1>1, <1>2 DEF Cancelled, Disposed

\* A step that leaves the connections and the runs alone.
LEMMA UnchangedLinks ==
  ASSUME LinkInv, UNCHANGED linkVars,
         Len(log) \in Nat, Len(log') \in Nat, Len(log) <= Len(log'),
         lastSequence \in Nat, lastSequence' \in Nat, lastSequence <= lastSequence'
  PROVE  LinkInv'
<1>1. LinkTypes' /\ RunsHaveConnections' /\ (overlapped' \/ ConnectsDoNotMix')
  BY DEF LinkInv, LinkTypes, RunsHaveConnections, ConnectsDoNotMix, linkVars
<1>2. StreamsBehindStore'
  <2>1. \A k \in DOMAIN conns : /\ conns[k].received \in Nat /\ conns[k].last \in Nat
    <3>1. \A k \in DOMAIN conns : conns[k] \in Connections
      BY ConnTypes DEF LinkInv
    <3>2. QED
      BY <3>1 DEF Connections, Versions
  <2>2. QED
    BY <2>1 DEF LinkInv, StreamsBehindStore, linkVars
<1>3. QED
  BY <1>1, <1>2 DEF LinkInv

\* A connection is opened.  Unless connects overlap, the other runs are idle, no
\* stream runs, and what is open is the connection that is disposed of.
LEMMA OpeningKeepsLinks ==
  ASSUME LinkInv, NEW a \in Attempts, NEW k \in DOMAIN conns \cup {None},
         Open(a, Disposed(conns, k)), Len(conns) < MaxConns,
         UNCHANGED <<log, lastSequence>>, lastSequence \in 0..Len(log),
         Len(log) \in Nat, Len(log) <= MaxLog,
         eventTask' \in {eventTask, None}, overlapped' \in BOOLEAN,
         ~overlapped' =>
           /\ eventTask' = None
           /\ \A b \in Attempts \ {a} : attempts[b].at = "idle"
           /\ \A j \in DOMAIN conns : /\ conns[j].stream # "running"
                                      /\ conns[j].life = "open" => j = k
  PROVE  LinkInv'
<1> DEFINE n   == Len(conns)
           cs  == Disposed(conns, k)
           row == [last |-> lastSequence, received |-> lastSequence,
                   stream |-> "new", life |-> "open"]
           run == [Idle EXCEPT !.at = "asking", !.conn = n + 1]
<1>1. /\ LinkTypes /\ n \in Nat /\ DOMAIN conns = 1..n /\ MaxConns \in Nat
      /\ \A b \in Attempts : attempts[b] \in Runs
  BY ConnTypes DEF LinkInv
<1>2. /\ SameStreams(cs)
      /\ \A j \in DOMAIN conns : cs[j].life = IF j = k THEN "disposed" ELSE conns[j].life
  BY <1>1, LivesEnd
<1>3. row \in Connections
  BY DesktopAssumption DEF Connections, Versions
<1>4. /\ run \in Runs /\ run.conn = n + 1 /\ run.awaited = None /\ run.at = "asking"
  <2>1. n + 1 \in ConnIds
    BY <1>1 DEF ConnIds
  <2>2. Idle \in Runs /\ Idle.awaited = None
    BY DEF Idle, Runs
  <2>3. QED
    BY <2>1, <2>2 DEF Runs
<1>5. /\ conns' = Append(cs, row) /\ current' = n + 1
      /\ attempts' = [attempts EXCEPT ![a] = run]
  BY DEF Open
<1>6. /\ row.last = lastSequence /\ row.received = lastSequence
      /\ row.stream = "new" /\ row.life = "open"
  OBVIOUS
<1> HIDE DEF cs, row, run
<1>7. /\ conns' \in Seq(Connections) /\ Len(conns') = n + 1
      /\ DOMAIN conns' = 1..(n + 1)
      /\ conns'[n + 1] = row
      /\ \A j \in 1..n : conns'[j] = cs[j]
  BY <1>1, <1>2, <1>3, <1>5, AppendProperties, LenProperties DEF SameStreams
<1>8. /\ attempts' \in [Attempts -> Runs]
      /\ attempts'[a] = run
      /\ \A b \in Attempts : b # a => attempts'[b] = attempts[b]
  BY <1>1, <1>4, <1>5 DEF LinkTypes
<1>9. LinkTypes'
  BY <1>1, <1>5, <1>7, <1>8 DEF LinkTypes
<1>10. StreamsBehindStore'
  <2>1. \A j \in 1..n : /\ cs[j].last <= cs[j].received
                        /\ cs[j].received <= Len(log)
                        /\ cs[j].last <= lastSequence
    BY <1>1, <1>2 DEF SameStreams, LinkInv, StreamsBehindStore
  <2>2. \A j \in DOMAIN conns' : j \in 1..n \/ j = n + 1
    BY <1>1, <1>7
  <2>3. QED
    BY <1>6, <1>7, <2>1, <2>2 DEF StreamsBehindStore
<1>11. RunsHaveConnections'
  BY <1>1, <1>4, <1>7, <1>8, DesktopAssumption DEF LinkInv, RunsHaveConnections
<1>12. ASSUME ~overlapped' PROVE ConnectsDoNotMix'
  <2>1. \A b, c \in Attempts :
          attempts'[b].at # "idle" /\ attempts'[c].at # "idle" => b = c
    BY <1>8, <1>12
  <2>2. \A j \in DOMAIN conns' : j \in 1..n \/ j = n + 1
    BY <1>1, <1>7
  <2>3. \A j \in DOMAIN conns' : conns'[j].life = "open" => j = current'
    BY <1>1, <1>2, <1>5, <1>7, <1>12, <2>2
  <2>4. \A j \in DOMAIN conns' : conns'[j].stream # "running"
    BY <1>1, <1>2, <1>6, <1>7, <1>12, <2>2 DEF SameStreams
  <2>5. \A b \in Attempts :
          /\ attempts'[b].at # "idle" => eventTask' = None
          /\ attempts'[b].at \notin {"cancelling", "undoing"}
    BY <1>4, <1>8, <1>12
  <2>6. QED
    BY <2>1, <2>3, <2>4, <2>5 DEF ConnectsDoNotMix
<1>13. QED
  BY <1>9, <1>10, <1>11, <1>12 DEF LinkInv

\* A connection is taken from the fields and cancelled.  Unless connects overlap,
\* the other runs are idle.
LEMMA TakingKeepsLinks ==
  ASSUME LinkInv, NEW a \in Attempts, NEW phase \in {"cancelling", "undoing"},
         TakeConnection(a, phase), attempts[a].at \notin {"cancelling", "undoing"},
         UNCHANGED <<log, lastSequence>>, overlapped' \in BOOLEAN,
         ~overlapped' => /\ ~overlapped
                         /\ \A b \in Attempts \ {a} : attempts[b].at = "idle"
  PROVE  LinkInv'
<1> DEFINE run == [at |-> phase, conn |-> current, awaited |-> eventTask,
                   answer |-> None]
<1>1. /\ LinkTypes /\ DOMAIN conns = 1..Len(conns)
      /\ \A j \in DOMAIN conns : j \in ConnIds
      /\ \A b \in Attempts : attempts[b] \in Runs
      /\ {current, eventTask} \subseteq DOMAIN conns \cup {None}
      /\ None \notin DOMAIN conns
  BY ConnTypes DEF LinkInv, LinkTypes
<1>2. /\ SameStreams(conns')
      /\ \A j \in DOMAIN conns :
           conns'[j].life = IF j = current THEN "cancelled" ELSE conns[j].life
  BY <1>1, LivesEnd DEF TakeConnection
<1>3. /\ attempts' = [attempts EXCEPT ![a] = run]
      /\ current' = None /\ eventTask' = None
  BY DEF TakeConnection
<1>4. /\ run \in Runs /\ run.at = phase /\ run.conn = current
      /\ run.awaited = eventTask
  BY <1>1 DEF Runs
<1> HIDE DEF run
<1>5. /\ attempts' \in [Attempts -> Runs]
      /\ attempts'[a] = run
      /\ \A b \in Attempts : b # a => attempts'[b] = attempts[b]
  BY <1>1, <1>3, <1>4 DEF LinkTypes
<1>6. LinkTypes'
  BY <1>1, <1>2, <1>3, <1>5 DEF LinkTypes, SameStreams
<1>7. StreamsBehindStore'
  BY <1>2 DEF LinkInv, StreamsBehindStore, SameStreams
<1>8. RunsHaveConnections'
  BY <1>1, <1>2, <1>4, <1>5 DEF LinkInv, RunsHaveConnections, SameStreams
<1>9. ASSUME ~overlapped' PROVE ConnectsDoNotMix'
  <2>1. ConnectsDoNotMix /\ \A b \in Attempts \ {a} : attempts[b].at = "idle"
    BY <1>9 DEF LinkInv
  <2>2. \A b \in Attempts : attempts[b].awaited = None
    BY <2>1 DEF LinkInv, RunsHaveConnections
  <2>3. \A b, c \in Attempts :
          attempts'[b].at # "idle" /\ attempts'[c].at # "idle" => b = c
    BY <1>5, <2>1
  <2>4. \A j \in DOMAIN conns' : conns'[j].life # "open"
    BY <1>2, <2>1 DEF ConnectsDoNotMix, SameStreams
  <2>5. ASSUME NEW j \in DOMAIN conns', conns'[j].stream = "running"
        PROVE  attempts'[a].awaited = j
    <3>1. j \in DOMAIN conns /\ conns[j].stream = "running"
      BY <1>2, <2>5 DEF SameStreams
    <3>2. j # None
      BY <1>1, <3>1
    <3>3. j = eventTask
      BY <2>1, <2>2, <3>1, <3>2 DEF ConnectsDoNotMix
    <3>4. QED
      BY <1>4, <1>5, <3>3
  <2>6. QED
    BY <1>3, <2>3, <2>4, <2>5 DEF ConnectsDoNotMix
<1>10. QED
  BY <1>6, <1>7, <1>8, <1>9 DEF LinkInv

\* A run goes on, or ends, without having anything to do with the streams.
LEMMA RunStepKeepsLinks ==
  ASSUME LinkInv, NEW a \in Attempts, NEW run \in Runs,
         attempts' = [attempts EXCEPT ![a] = run],
         run.awaited = None,
         run.at \in {"idle", "asking", "replaced"},
         run.at # "idle" => attempts[a].at \in {"asking", "replaced"},
         run.conn = attempts[a].conn \/ run = Idle,
         attempts[a].awaited = None,
         UNCHANGED <<conns, current, eventTask, overlapped, log>>,
         lastSequence \in Nat, lastSequence' \in Nat, lastSequence <= lastSequence'
  PROVE  LinkInv'
<1>1. /\ LinkTypes /\ None \notin DOMAIN conns
      /\ \A k \in DOMAIN conns : conns[k] \in Connections
  BY ConnTypes DEF LinkInv
<1>2. /\ attempts' \in [Attempts -> Runs]
      /\ attempts'[a] = run
      /\ \A b \in Attempts : b # a => attempts'[b] = attempts[b]
  BY <1>1 DEF LinkTypes
<1>3. LinkTypes'
  BY <1>1, <1>2 DEF LinkTypes
<1>4. StreamsBehindStore'
  <2>1. \A k \in DOMAIN conns : conns[k].last \in Nat
    BY <1>1 DEF Connections, Versions
  <2>2. QED
    BY <2>1 DEF LinkInv, StreamsBehindStore
<1>5. RunsHaveConnections'
  BY <1>2 DEF LinkInv, RunsHaveConnections, Idle
<1>6. ASSUME ~overlapped PROVE ConnectsDoNotMix'
  <2>1. ConnectsDoNotMix
    BY <1>6 DEF LinkInv
  <2>2. \A b, c \in Attempts :
          attempts'[b].at # "idle" /\ attempts'[c].at # "idle" => b = c
    BY <1>2, <2>1 DEF ConnectsDoNotMix
  <2>3. \A b \in Attempts :
          /\ attempts'[b].at # "idle" => eventTask = None
          /\ attempts'[b].at \in {"cancelling", "undoing"} => current = None
    BY <1>2, <2>1 DEF ConnectsDoNotMix
  <2>4. ASSUME NEW k \in DOMAIN conns, conns[k].stream = "running"
        PROVE  k = eventTask \/ \E b \in Attempts : attempts'[b].awaited = k
    <3>1. CASE k = eventTask
      BY <3>1
    <3>2. ASSUME NEW b \in Attempts, attempts[b].awaited = k
          PROVE  attempts'[b].awaited = k
      <4>1. b # a
        BY <1>1, <3>2
      <4>2. QED
        BY <1>2, <3>2, <4>1
    <3>3. QED
      BY <2>1, <2>4, <3>1, <3>2 DEF ConnectsDoNotMix
  <2>5. QED
    BY <2>1, <2>2, <2>3, <2>4 DEF ConnectsDoNotMix
<1>7. QED
  BY <1>3, <1>4, <1>5, <1>6 DEF LinkInv

\* One stream goes on or ends, and its life is not touched.
LEMMA StreamStepKeepsLinks ==
  ASSUME LinkInv, NEW k \in DOMAIN conns, NEW row \in Connections,
         conns' = [conns EXCEPT ![k] = row],
         row.life = conns[k].life,
         row.stream = "running" => conns[k].stream = "running",
         row.last <= row.received, row.received <= Len(log), row.last <= lastSequence',
         UNCHANGED <<current, eventTask, attempts, overlapped, log>>,
         lastSequence \in Nat, lastSequence' \in Nat, lastSequence <= lastSequence'
  PROVE  LinkInv'
<1>1. /\ LinkTypes /\ \A j \in DOMAIN conns : conns[j] \in Connections
  BY ConnTypes DEF LinkInv
<1>2. /\ conns' \in Seq(Connections) /\ Len(conns') = Len(conns)
      /\ DOMAIN conns' = DOMAIN conns
      /\ conns'[k] = row /\ \A j \in DOMAIN conns : j # k => conns'[j] = conns[j]
  BY <1>1 DEF LinkTypes
<1>3. LinkTypes'
  BY <1>1, <1>2 DEF LinkTypes
<1>4. StreamsBehindStore'
  <2>1. \A j \in DOMAIN conns : conns[j].last \in Nat
    BY <1>1 DEF Connections, Versions
  <2>2. QED
    BY <1>2, <2>1 DEF LinkInv, StreamsBehindStore
<1>5. RunsHaveConnections'
  BY <1>2 DEF LinkInv, RunsHaveConnections
<1>6. ASSUME ~overlapped PROVE ConnectsDoNotMix'
  <2>1. ConnectsDoNotMix
    BY <1>6 DEF LinkInv
  <2>2. \A j \in DOMAIN conns :
          /\ conns'[j].life = conns[j].life
          /\ conns'[j].stream = "running" => conns[j].stream = "running"
    BY <1>2
  <2>3. QED
    BY <1>2, <2>1, <2>2 DEF ConnectsDoNotMix
<1>7. QED
  BY <1>3, <1>4, <1>5, <1>6 DEF LinkInv

-----------------------------------------------------------------------------
(***************************************************************************)
(* Every step keeps the connections in order                               *)
(***************************************************************************)

\* While connects do not overlap, the step of a run finds the others idle.
LEMMA OthersAreIdle ==
  ASSUME LinkInv, NEW a \in Attempts, ~overlapped, attempts[a].at # "idle"
  PROVE  /\ \A b \in Attempts \ {a} : attempts[b].at = "idle"
         /\ \A b \in Attempts \ {a} : attempts[b].awaited = None
         /\ eventTask = None
BY DEF LinkInv, ConnectsDoNotMix, RunsHaveConnections

\* The connects, up to the opening of a connection.
LEMMA OpeningsKeepLinks ==
  ASSUME DesktopInv, LinkInv, NEW a \in Attempts,
         Connect(a) \/ CancelFirst(a) \/ ConnectAfterCancel(a)
  PROVE  LinkInv'
<1>1. /\ LinkTypes /\ None \notin DOMAIN conns
      /\ Len(conns) \in Nat /\ MaxConns \in Nat
      /\ overlapped \in BOOLEAN
      /\ {current, eventTask} \subseteq DOMAIN conns \cup {None}
  BY ConnTypes DEF LinkInv, LinkTypes
<1>2. /\ lastSequence \in 0..Len(log) /\ Len(log) \in Nat /\ Len(log) <= MaxLog
  BY LenProperties DEF DesktopInv, DesktopTypeOK
<1>3. IsFiniteSet(Cancelling) /\ Cardinality(Cancelling) \in Nat
  BY DesktopAssumption, FS_Subset, FS_CardinalityType DEF Cancelling
<1>4. CASE Connect(a)
  <2>1. /\ attempts[a].at = "idle" /\ Ended(eventTask)
        /\ Open(a, Disposed(conns, current)) /\ eventTask' = None
        /\ overlapped' = (overlapped \/ Overlaps(a))
        /\ UNCHANGED <<log, lastSequence>>
        /\ Len(conns) + Cardinality(Cancelling) < MaxConns
    BY <1>4 DEF Connect, Begins, Cancelling, storeVars
  <2>2. Len(conns) < MaxConns
    BY <1>1, <1>3, <2>1
  <2>3. ASSUME ~overlapped'
        PROVE  /\ \A b \in Attempts \ {a} : attempts[b].at = "idle"
               /\ \A j \in DOMAIN conns : /\ conns[j].stream # "running"
                                          /\ conns[j].life = "open" => j = current
    <3>1. ~overlapped /\ \A b \in Attempts : attempts[b].at = "idle"
      BY <2>1, <2>3 DEF Overlaps
    <3>2. ConnectsDoNotMix /\ \A b \in Attempts : attempts[b].awaited = None
      BY <3>1 DEF LinkInv, RunsHaveConnections
    <3>3. \A j \in DOMAIN conns : conns[j].stream = "running" => j = eventTask
      BY <1>1, <3>2 DEF ConnectsDoNotMix
    <3>4. \A j \in DOMAIN conns : conns[j].stream # "running"
      BY <1>1, <2>1, <3>3 DEF Ended
    <3>5. QED
      BY <3>1, <3>2, <3>4 DEF ConnectsDoNotMix
  <2>4. overlapped' \in BOOLEAN
    BY <1>1, <2>1
  <2>5. QED
    BY <1>1, <1>2, <2>1, <2>2, <2>3, <2>4, OpeningKeepsLinks
<1>5. CASE CancelFirst(a)
  <2>1. /\ attempts[a].at = "idle" /\ TakeConnection(a, "cancelling")
        /\ overlapped' = (overlapped \/ Overlaps(a))
        /\ UNCHANGED <<log, lastSequence>>
    BY <1>5 DEF CancelFirst, Begins, storeVars
  <2>2. overlapped' \in BOOLEAN
    BY <1>1, <2>1
  <2>3. ~overlapped' => /\ ~overlapped
                        /\ \A b \in Attempts \ {a} : attempts[b].at = "idle"
    BY <2>1 DEF Overlaps
  <2>4. QED
    BY <2>1, <2>2, <2>3, TakingKeepsLinks
<1>6. CASE ConnectAfterCancel(a)
  <2>1. /\ attempts[a].at = "cancelling" /\ Ended(attempts[a].awaited)
        /\ Open(a, Disposed(conns, attempts[a].conn))
        /\ UNCHANGED <<log, lastSequence, eventTask, overlapped>>
    BY <1>6 DEF ConnectAfterCancel, storeVars
  <2>2. attempts[a].conn \in DOMAIN conns \cup {None}
    BY DEF LinkInv, RunsHaveConnections
  <2>3. Len(conns) < MaxConns
    <3>1. a \in Cancelling
      BY <2>1 DEF Cancelling
    <3>2. Cardinality(Cancelling) # 0
      BY <1>3, <3>1, FS_EmptySet
    <3>3. QED
      BY <1>1, <1>3, <3>2 DEF DesktopInv, RoomToConnect
  <2>4. ASSUME ~overlapped
        PROVE  /\ eventTask = None
               /\ \A b \in Attempts \ {a} : attempts[b].at = "idle"
               /\ \A j \in DOMAIN conns :
                    /\ conns[j].stream # "running"
                    /\ conns[j].life = "open" => j = attempts[a].conn
    <3>1. /\ eventTask = None
          /\ \A b \in Attempts \ {a} : attempts[b].at = "idle"
          /\ \A b \in Attempts \ {a} : attempts[b].awaited = None
      BY <2>1, <2>4, OthersAreIdle
    <3>2. ConnectsDoNotMix
      BY <2>4 DEF LinkInv
    <3>3. \A j \in DOMAIN conns : conns[j].stream = "running" => j = attempts[a].awaited
      BY <1>1, <3>1, <3>2 DEF ConnectsDoNotMix
    <3>4. \A j \in DOMAIN conns : conns[j].stream # "running"
      BY <1>1, <2>1, <3>3 DEF Ended
    <3>5. current = None
      BY <2>1, <3>2 DEF ConnectsDoNotMix
    <3>6. QED
      BY <1>1, <3>1, <3>2, <3>4, <3>5 DEF ConnectsDoNotMix
  <2> DEFINE k == attempts[a].conn
  <2> HIDE DEF k
  <2>5. /\ k \in DOMAIN conns \cup {None}
        /\ Open(a, Disposed(conns, k))
        /\ ~overlapped => \A j \in DOMAIN conns : /\ conns[j].stream # "running"
                                                  /\ conns[j].life = "open" => j = k
    BY <2>1, <2>2, <2>4 DEF k
  <2>6. QED
    BY <1>1, <1>2, <2>1, <2>3, <2>4, <2>5, OpeningKeepsLinks
<1>7. QED
  BY <1>4, <1>5, <1>6

\* The rest of a connect, and its failure.
LEMMA RunsKeepLinks ==
  ASSUME DesktopInv, LinkInv, NEW a \in Attempts,
         \/ AnswerAttempt(a) \/ ReplaceByAttempt(a) \/ StartStream(a)
         \/ Undo(a) \/ FinishUndo(a)
  PROVE  LinkInv'
<1>1. /\ LinkTypes /\ attempts[a] \in Runs /\ None \notin DOMAIN conns
      /\ overlapped \in BOOLEAN
      /\ \A k \in DOMAIN conns : conns[k] \in Connections /\ k \in ConnIds
  BY ConnTypes DEF LinkInv, LinkTypes
<1>2. /\ {attempts[a].conn, attempts[a].awaited} \subseteq DOMAIN conns \cup {None}
      /\ attempts[a].at \in {"asking", "replaced"} =>
           attempts[a].conn \in DOMAIN conns /\ attempts[a].awaited = None
  BY DEF LinkInv, RunsHaveConnections
<1>3. /\ lastSequence \in Nat /\ Len(log) \in Versions
  BY LenProperties DEF DesktopInv, DesktopTypeOK, Versions
<1>4. Idle \in Runs /\ Idle.at = "idle" /\ Idle.awaited = None
  BY DEF Idle, Runs
<1>5. CASE AnswerAttempt(a)
  <2> DEFINE run == [attempts[a] EXCEPT !.answer = Len(log)]
  <2>1. /\ attempts[a].at = "asking" /\ attempts' = [attempts EXCEPT ![a] = run]
        /\ UNCHANGED <<conns, current, eventTask, overlapped, log, lastSequence>>
    BY <1>5 DEF AnswerAttempt, storeVars
  <2>2. /\ run \in Runs /\ run.at = attempts[a].at /\ run.conn = attempts[a].conn
        /\ run.awaited = attempts[a].awaited
    BY <1>1, <1>3 DEF Runs
  <2> HIDE DEF run
  <2>3. /\ run.awaited = None /\ attempts[a].awaited = None
        /\ run.at \in {"asking", "replaced"}
        /\ attempts[a].at \in {"asking", "replaced"}
        /\ lastSequence' \in Nat /\ lastSequence <= lastSequence'
    BY <1>2, <1>3, <2>1, <2>2
  <2>4. QED
    BY <1>3, <2>1, <2>2, <2>3, RunStepKeepsLinks
<1>6. CASE ReplaceByAttempt(a)
  <2> DEFINE run == [attempts[a] EXCEPT !.at = "replaced"]
  <2>1. /\ attempts[a].at = "asking" /\ attempts' = [attempts EXCEPT ![a] = run]
        /\ UNCHANGED <<conns, current, eventTask, overlapped, log, lastSequence>>
    BY <1>6 DEF ReplaceByAttempt, ReplaceTasks
  <2>2. /\ run \in Runs /\ run.at = "replaced" /\ run.conn = attempts[a].conn
        /\ run.awaited = attempts[a].awaited
    BY <1>1 DEF Runs
  <2> HIDE DEF run
  <2>3. /\ run.awaited = None /\ attempts[a].awaited = None
        /\ run.at \in {"asking", "replaced"}
        /\ attempts[a].at \in {"asking", "replaced"}
        /\ lastSequence' \in Nat /\ lastSequence <= lastSequence'
    BY <1>2, <1>3, <2>1, <2>2
  <2>4. QED
    BY <1>3, <2>1, <2>2, <2>3, RunStepKeepsLinks
<1>7. CASE StartStream(a)
  <2> DEFINE k   == attempts[a].conn
             row == [conns[k] EXCEPT !.stream = IF conns[k].life = "open"
                                                  THEN "running" ELSE "ended"]
  <2>1. /\ attempts[a].at = "replaced" /\ k \in DOMAIN conns
        /\ conns' = [conns EXCEPT ![k] = row]
        /\ eventTask' = k /\ attempts' = [attempts EXCEPT ![a] = Idle]
        /\ UNCHANGED <<log, lastSequence, current, overlapped>>
    BY <1>2, <1>7 DEF StartStream, storeVars
  <2>2. /\ row \in Connections /\ row.life = conns[k].life
        /\ row.last = conns[k].last /\ row.received = conns[k].received
    BY <1>1, <2>1 DEF Connections
  <2> HIDE DEF row, k
  <2>3. /\ conns' \in Seq(Connections) /\ Len(conns') = Len(conns)
        /\ DOMAIN conns' = DOMAIN conns
        /\ conns'[k] = row /\ \A j \in DOMAIN conns : j # k => conns'[j] = conns[j]
    BY <1>1, <2>1, <2>2 DEF LinkTypes
  <2>4. /\ attempts' \in [Attempts -> Runs]
        /\ attempts'[a] = Idle
        /\ \A b \in Attempts : b # a => attempts'[b] = attempts[b]
    BY <1>1, <1>4, <2>1 DEF LinkTypes
  <2>5. LinkTypes'
    BY <1>1, <2>1, <2>3, <2>4 DEF LinkTypes
  <2>6. StreamsBehindStore'
    BY <2>1, <2>2, <2>3 DEF LinkInv, StreamsBehindStore
  <2>7. RunsHaveConnections'
    BY <2>3, <2>4 DEF LinkInv, RunsHaveConnections, Idle
  <2>8. ASSUME ~overlapped PROVE ConnectsDoNotMix'
    <3>1. /\ \A b \in Attempts \ {a} : attempts[b].at = "idle"
          /\ \A b \in Attempts \ {a} : attempts[b].awaited = None
          /\ eventTask = None
      BY <2>1, <2>8, OthersAreIdle
    <3>2. ConnectsDoNotMix /\ attempts[a].awaited = None
      BY <1>2, <2>1, <2>8 DEF LinkInv
    <3>3. \A j \in DOMAIN conns : conns[j].stream # "running"
      BY <1>1, <3>1, <3>2 DEF ConnectsDoNotMix
    <3>4. \A b \in Attempts : attempts'[b].at = "idle"
      BY <1>4, <2>4, <3>1
    <3>5. \A j \in DOMAIN conns :
            /\ conns'[j].life = conns[j].life
            /\ conns'[j].stream = "running" => j = k
      BY <2>2, <2>3, <3>3
    <3>6. QED
      BY <2>1, <2>3, <3>2, <3>4, <3>5 DEF ConnectsDoNotMix
  <2>9. QED
    BY <2>1, <2>5, <2>6, <2>7, <2>8 DEF LinkInv
<1>8. CASE Undo(a)
  <2>1. /\ attempts[a].at \in {"asking", "replaced"} /\ TakeConnection(a, "undoing")
        /\ UNCHANGED <<log, lastSequence, overlapped>>
    BY <1>8 DEF Undo, storeVars
  <2>2. ~overlapped => \A b \in Attempts \ {a} : attempts[b].at = "idle"
    BY <2>1, OthersAreIdle
  <2>3. QED
    BY <1>1, <2>1, <2>2, TakingKeepsLinks
<1>9. CASE FinishUndo(a)
  <2> DEFINE k == attempts[a].conn
  <2>1. /\ attempts[a].at = "undoing" /\ Ended(attempts[a].awaited)
        /\ conns' = Disposed(conns, k) /\ k \in DOMAIN conns \cup {None}
        /\ attempts' = [attempts EXCEPT ![a] = Idle]
        /\ UNCHANGED <<log, lastSequence, current, eventTask, overlapped>>
    BY <1>2, <1>9 DEF FinishUndo, storeVars
  <2> HIDE DEF k
  <2>2. /\ SameStreams(conns')
        /\ \A j \in DOMAIN conns :
             conns'[j].life = IF j = k THEN "disposed" ELSE conns[j].life
    BY <1>1, <2>1, LivesEnd
  <2>3. /\ attempts' \in [Attempts -> Runs]
        /\ attempts'[a] = Idle
        /\ \A b \in Attempts : b # a => attempts'[b] = attempts[b]
    BY <1>1, <1>4, <2>1 DEF LinkTypes
  <2>4. LinkTypes'
    BY <1>1, <2>1, <2>2, <2>3 DEF LinkTypes, SameStreams
  <2>5. StreamsBehindStore'
    BY <2>1, <2>2 DEF LinkInv, StreamsBehindStore, SameStreams
  <2>6. RunsHaveConnections'
    BY <2>2, <2>3 DEF LinkInv, RunsHaveConnections, Idle, SameStreams
  <2>7. ASSUME ~overlapped PROVE ConnectsDoNotMix'
    <3>1. /\ \A b \in Attempts \ {a} : attempts[b].at = "idle"
          /\ \A b \in Attempts \ {a} : attempts[b].awaited = None
          /\ eventTask = None
      BY <2>1, <2>7, OthersAreIdle
    <3>2. ConnectsDoNotMix
      BY <2>7 DEF LinkInv
    <3>3. \A j \in DOMAIN conns : conns[j].stream = "running" => j = attempts[a].awaited
      BY <1>1, <3>1, <3>2 DEF ConnectsDoNotMix
    <3>4. \A j \in DOMAIN conns : conns[j].stream # "running"
      BY <1>1, <2>1, <3>3 DEF Ended
    <3>5. \A b \in Attempts : attempts'[b].at = "idle"
      BY <1>4, <2>3, <3>1
    <3>6. \A j \in DOMAIN conns :
            /\ conns'[j].life = "open" => conns[j].life = "open"
            /\ conns'[j].stream # "running"
      BY <2>2, <3>4 DEF SameStreams
    <3>7. QED
      BY <2>1, <2>2, <3>2, <3>5, <3>6 DEF ConnectsDoNotMix, SameStreams
  <2>8. QED
    BY <2>1, <2>4, <2>5, <2>6, <2>7 DEF LinkInv
<1>10. QED
  BY <1>5, <1>6, <1>7, <1>8, <1>9

\* The streams.
LEMMA StreamsKeepLinks ==
  ASSUME DesktopInv, LinkInv, NEW k, StreamStep(k)
  PROVE  LinkInv'
<1>1. k \in DOMAIN conns /\ conns[k].stream = "running"
  BY DEF StreamStep, Receive, Consume, StreamEnds, StreamFails, Running
<1>2. conns[k] \in Connections
  BY <1>1, ConnTypes DEF LinkInv
<1>3. /\ conns[k].last \in Nat /\ conns[k].received \in Nat
      /\ conns[k].last <= conns[k].received
      /\ conns[k].received <= Len(log) /\ conns[k].last <= lastSequence
  BY <1>1, <1>2 DEF LinkInv, StreamsBehindStore, Connections, Versions
<1>4. /\ lastSequence \in Nat /\ Len(log) \in Nat /\ Len(log) <= MaxLog /\ MaxLog \in Nat
  BY LenProperties, DesktopAssumption DEF DesktopInv, DesktopTypeOK
<1>5. CASE Receive(k)
  <2> DEFINE row == [conns[k] EXCEPT !.received = conns[k].received + 1]
  <2>1. /\ conns[k].received < Len(log) /\ conns' = [conns EXCEPT ![k] = row]
        /\ UNCHANGED <<log, lastSequence, current, eventTask, attempts, overlapped>>
    BY <1>5 DEF Receive, storeVars
  <2>2. conns[k].received + 1 \in Versions
    BY <1>3, <1>4, <2>1 DEF Versions
  <2>3. /\ row \in Connections /\ row.life = conns[k].life
        /\ row.stream = conns[k].stream /\ row.last = conns[k].last
        /\ row.received = conns[k].received + 1
    BY <1>2, <2>2 DEF Connections
  <2> HIDE DEF row
  <2>4. /\ row.last <= row.received /\ row.received <= Len(log)
        /\ row.last <= lastSequence'
        /\ lastSequence' \in Nat /\ lastSequence <= lastSequence'
    BY <1>3, <1>4, <2>1, <2>3
  <2>5. QED
    BY <1>1, <1>4, <2>1, <2>3, <2>4, StreamStepKeepsLinks
<1>6. CASE Consume(k)
  <2> DEFINE row == [conns[k] EXCEPT !.last = conns[k].last + 1]
  <2>1. /\ conns[k].last < conns[k].received /\ conns' = [conns EXCEPT ![k] = row]
        /\ Apply(conns[k].last + 1)
        /\ UNCHANGED <<log, current, eventTask, attempts, overlapped>>
    BY <1>6 DEF Consume
  <2>2. conns[k].last + 1 \in Versions
    BY <1>3, <1>4, <2>1 DEF Versions
  <2>3. /\ row \in Connections /\ row.life = conns[k].life
        /\ row.stream = conns[k].stream /\ row.last = conns[k].last + 1
        /\ row.received = conns[k].received
    BY <1>2, <2>2 DEF Connections
  <2>4. /\ lastSequence' \in Nat /\ lastSequence <= lastSequence'
        /\ conns[k].last + 1 <= lastSequence'
    BY <1>3, <1>4, <2>1 DEF Apply, storeVars
  <2> HIDE DEF row
  <2>5. row.last <= row.received /\ row.received <= Len(log) /\ row.last <= lastSequence'
    BY <1>3, <1>4, <2>1, <2>3, <2>4
  <2>6. QED
    BY <1>1, <1>4, <2>1, <2>3, <2>4, <2>5, StreamStepKeepsLinks
<1>7. CASE StreamEnds(k) \/ StreamFails(k)
  <2> DEFINE row == [conns[k] EXCEPT !.stream = "ended"]
  <2>1. /\ conns' = [conns EXCEPT ![k] = row]
        /\ UNCHANGED <<log, lastSequence, current, eventTask, attempts, overlapped>>
    BY <1>7 DEF StreamEnds, StreamFails, storeVars
  <2>2. /\ row \in Connections /\ row.life = conns[k].life
        /\ row.stream = "ended" /\ row.last = conns[k].last
        /\ row.received = conns[k].received
    BY <1>2 DEF Connections
  <2> HIDE DEF row
  <2>3. /\ row.last <= row.received /\ row.received <= Len(log)
        /\ row.last <= lastSequence'
        /\ lastSequence' \in Nat /\ lastSequence <= lastSequence'
        /\ row.stream # "running"
    BY <1>3, <1>4, <2>1, <2>2
  <2>4. QED
    BY <1>1, <1>4, <2>1, <2>2, <2>3, StreamStepKeepsLinks
<1>8. QED
  BY <1>5, <1>6, <1>7 DEF StreamStep

\* Every step.
LEMMA LinkInvStep ==
  ASSUME DesktopInv, LinkInv, [Next]_vars
  PROVE  LinkInv'
<1>1. ASSUME UNCHANGED linkVars PROVE LinkInv'
  <2>1. StoreStep
    BY StepsOnStore DEF DesktopInv
  <2>2. /\ log' \in Seq(Tasks) /\ Len(log) <= Len(log')
        /\ lastSequence' \in 0..Len(log') /\ lastSequence <= lastSequence'
    BY <2>1, StoreTypesStep DEF DesktopInv
  <2>3. /\ log \in Seq(Tasks) /\ lastSequence \in 0..Len(log)
    BY DEF DesktopInv, DesktopTypeOK
  <2>4. /\ Len(log) \in Nat /\ Len(log') \in Nat
        /\ lastSequence \in Nat /\ lastSequence' \in Nat
    BY <2>2, <2>3, LenProperties
  <2>5. QED
    BY <1>1, <2>2, <2>4, UnchangedLinks
<1>2. ASSUME NEW a \in Attempts, ConnectStep(a) PROVE LinkInv'
  BY <1>2, OpeningsKeepLinks, RunsKeepLinks DEF ConnectStep
<1>3. ASSUME NEW k \in ConnIds, StreamStep(k) PROVE LinkInv'
  BY <1>3, StreamsKeepLinks
<1>4. ASSUME CommandStep \/ \E t \in Tasks : TaskChanges(t) PROVE UNCHANGED linkVars
  BY <1>4
     DEF CommandStep, Refresh, AnswerRefresh, EndRefresh, CreateSubmitted, EndSubmit,
         Submit, TaskChanges
<1>5. ASSUME UNCHANGED vars PROVE UNCHANGED linkVars
  BY <1>5 DEF vars
<1>6. QED
  BY <1>1, <1>2, <1>3, <1>4, <1>5 DEF Next

\* A run that cancels keeps room for the connection it will open.
LEMMA RoomToConnectStep ==
  ASSUME DesktopInv, LinkInv, [Next]_vars
  PROVE  RoomToConnect'
<1> DEFINE n == Len(conns)
           c == Cardinality(Cancelling)
<1>1. /\ LinkTypes /\ n \in Nat /\ MaxConns \in Nat
      /\ \A a \in Attempts : attempts[a] \in Runs
      /\ n + c <= MaxConns
      /\ {current, eventTask} \subseteq DOMAIN conns \cup {None}
  BY ConnTypes DEF LinkInv, LinkTypes, DesktopInv, RoomToConnect
<1>2. IsFiniteSet(Cancelling) /\ c \in Nat
  BY DesktopAssumption, FS_Subset, FS_CardinalityType DEF Cancelling
<1>3. ASSUME Len(conns') = n, Cancelling' = Cancelling PROVE RoomToConnect'
  BY <1>1, <1>3 DEF RoomToConnect
<1>4. ASSUME NEW a \in Attempts, NEW run, attempts' = [attempts EXCEPT ![a] = run]
      PROVE  Cancelling' = IF run.at = "cancelling" THEN Cancelling \cup {a}
                                                   ELSE Cancelling \ {a}
  <2>1. /\ attempts'[a] = run
        /\ \A b \in Attempts : b # a => attempts'[b] = attempts[b]
    BY <1>1, <1>4 DEF LinkTypes
  <2>2. CASE run.at = "cancelling"
    BY <2>1, <2>2 DEF Cancelling
  <2>3. CASE run.at # "cancelling"
    BY <2>1, <2>3 DEF Cancelling
  <2>4. QED
    BY <2>2, <2>3
<1>5. ASSUME NEW a \in Attempts, NEW k \in DOMAIN conns \cup {None},
             Open(a, Disposed(conns, k))
      PROVE  Len(conns') = n + 1 /\ Cancelling' = Cancelling \ {a}
  <2> DEFINE cs  == Disposed(conns, k)
             row == [last |-> lastSequence, received |-> lastSequence,
                     stream |-> "new", life |-> "open"]
             run == [Idle EXCEPT !.at = "asking", !.conn = n + 1]
  <2>1. cs \in Seq(Connections) /\ Len(cs) = n
    BY <1>1, LivesEnd DEF SameStreams
  <2>2. conns' = Append(cs, row) /\ attempts' = [attempts EXCEPT ![a] = run]
    BY <1>5 DEF Open
  <2>3. run.at # "cancelling"
    BY DEF Idle
  <2> HIDE DEF cs, row, run
  <2>4. Len(conns') = n + 1
    <3>1. cs \in Seq(Connections \cup {row})
      BY <2>1
    <3>2. QED
      BY <2>1, <2>2, <3>1, AppendProperties
  <2>5. QED
    BY <1>4, <2>2, <2>3, <2>4
<1>6. ASSUME NEW a \in Attempts, NEW phase \in {"cancelling", "undoing"},
             TakeConnection(a, phase)
      PROVE  /\ Len(conns') = n
             /\ Cancelling' = IF phase = "cancelling" THEN Cancelling \cup {a}
                                                     ELSE Cancelling \ {a}
  <2> DEFINE run == [at |-> phase, conn |-> current, awaited |-> eventTask,
                     answer |-> None]
  <2>1. SameStreams(conns')
    BY <1>1, <1>6, LivesEnd DEF TakeConnection
  <2>2. attempts' = [attempts EXCEPT ![a] = run] /\ run.at = phase
    BY <1>6 DEF TakeConnection
  <2> HIDE DEF run
  <2>3. QED
    BY <1>4, <2>1, <2>2 DEF SameStreams
<1>7. ASSUME NEW a \in Attempts, Connect(a) PROVE RoomToConnect'
  <2>1. n + c < MaxConns /\ a \notin Cancelling
    BY <1>7 DEF Connect, Begins, Cancelling
  <2>2. Len(conns') = n + 1 /\ Cancelling' = Cancelling \ {a}
    BY <1>1, <1>5, <1>7 DEF Connect
  <2>3. Cardinality(Cancelling') = c
    <3>1. Cancelling' = Cancelling
      BY <2>1, <2>2
    <3>2. QED
      BY <3>1
  <2>4. QED
    BY <1>1, <1>2, <2>1, <2>2, <2>3 DEF RoomToConnect
<1>8. ASSUME NEW a \in Attempts, CancelFirst(a) PROVE RoomToConnect'
  <2>1. n + c < MaxConns /\ a \notin Cancelling
    BY <1>8 DEF CancelFirst, Begins, Cancelling
  <2>2. Len(conns') = n /\ Cancelling' = Cancelling \cup {a}
    BY <1>6, <1>8 DEF CancelFirst
  <2>3. Cardinality(Cancelling') = c + 1
    BY <1>2, <2>1, <2>2, FS_AddElement
  <2>4. QED
    BY <1>1, <1>2, <2>1, <2>2, <2>3 DEF RoomToConnect
<1>9. ASSUME NEW a \in Attempts, ConnectAfterCancel(a) PROVE RoomToConnect'
  <2>1. a \in Cancelling /\ attempts[a].conn \in DOMAIN conns \cup {None}
    BY <1>9 DEF ConnectAfterCancel, Cancelling, LinkInv, RunsHaveConnections
  <2>2. Len(conns') = n + 1 /\ Cancelling' = Cancelling \ {a}
    BY <1>5, <1>9, <2>1 DEF ConnectAfterCancel
  <2>3. Cardinality(Cancelling') = c - 1
    BY <1>2, <2>1, <2>2, FS_RemoveElement
  <2>4. QED
    BY <1>1, <1>2, <2>2, <2>3 DEF RoomToConnect
<1>10. ASSUME NEW a \in Attempts, AnswerAttempt(a) \/ ReplaceByAttempt(a)
       PROVE  Len(conns') = n /\ Cancelling' = Cancelling
  <2>1. /\ attempts[a].at = "asking" /\ conns' = conns
        /\ \E run \in {[attempts[a] EXCEPT !.answer = Len(log)],
                       [attempts[a] EXCEPT !.at = "replaced"]} :
             attempts' = [attempts EXCEPT ![a] = run]
    BY <1>10 DEF AnswerAttempt, ReplaceByAttempt
  <2>2. \A run \in {[attempts[a] EXCEPT !.answer = Len(log)],
                    [attempts[a] EXCEPT !.at = "replaced"]} :
          run.at # "cancelling"
    BY <1>1, <2>1 DEF Runs
  <2>3. a \notin Cancelling
    BY <2>1 DEF Cancelling
  <2>4. Cancelling' = Cancelling \ {a}
    BY <1>4, <2>1, <2>2
  <2>5. QED
    BY <2>1, <2>3, <2>4
<1>11. ASSUME NEW a \in Attempts, StartStream(a) \/ FinishUndo(a)
       PROVE  Len(conns') = n /\ Cancelling' = Cancelling
  <2>1. /\ attempts' = [attempts EXCEPT ![a] = Idle] /\ a \notin Cancelling
        /\ Idle.at # "cancelling"
    BY <1>11 DEF StartStream, FinishUndo, Cancelling, Idle
  <2>2. Cancelling' = Cancelling \ {a}
    BY <1>4, <2>1
  <2>3. attempts[a].conn \in DOMAIN conns \cup {None}
    BY DEF LinkInv, RunsHaveConnections
  <2>4. Len(conns') = n
    BY <1>1, <1>11, <2>3, LivesEnd DEF StartStream, FinishUndo, SameStreams, LinkTypes
  <2>5. QED
    BY <2>1, <2>2, <2>4
<1>12. ASSUME NEW a \in Attempts, Undo(a)
       PROVE  Len(conns') = n /\ Cancelling' = Cancelling
  <2>1. a \notin Cancelling /\ TakeConnection(a, "undoing")
    BY <1>12 DEF Undo, Cancelling
  <2>2. QED
    BY <1>6, <2>1
<1>13. ASSUME NEW k \in ConnIds, StreamStep(k)
       PROVE  Len(conns') = n /\ Cancelling' = Cancelling
  <2>1. attempts' = attempts
    BY <1>13 DEF StreamStep, Receive, Consume, StreamEnds, StreamFails
  <2>2. Len(conns') = n
    BY <1>1, <1>13 DEF StreamStep, Receive, Consume, StreamEnds, StreamFails, LinkTypes
  <2>3. QED
    BY <2>1, <2>2 DEF Cancelling
<1>14. ASSUME UNCHANGED linkVars PROVE Len(conns') = n /\ Cancelling' = Cancelling
  BY <1>14 DEF linkVars, Cancelling
<1>15. ASSUME CommandStep \/ (\E t \in Tasks : TaskChanges(t)) \/ UNCHANGED vars
       PROVE  UNCHANGED linkVars
  BY <1>15
     DEF CommandStep, Refresh, AnswerRefresh, EndRefresh, CreateSubmitted, EndSubmit,
         Submit, TaskChanges, vars
<1>16. QED
  BY <1>3, <1>7, <1>8, <1>9, <1>10, <1>11, <1>12, <1>13, <1>14, <1>15
     DEF Next, ConnectStep

-----------------------------------------------------------------------------
(***************************************************************************)
(* The theorems                                                            *)
(***************************************************************************)

\* The calls in flight keep their types.
LEMMA CallTypesStep ==
  ASSUME DesktopTypeOK, [Next]_vars
  PROVE  /\ refresh' \in [conn : ConnIds, answer : Versions \cup {None}] \cup {None}
         /\ submit' \in [conn : ConnIds, task : Tasks, answer : Versions \cup {None}]
                        \cup {None}
         /\ busy' \in BOOLEAN
         /\ failures' \in 0..MaxFailures
<1> DEFINE Refreshes == [conn : ConnIds, answer : Versions \cup {None}]
           Submits   == [conn : ConnIds, task : Tasks, answer : Versions \cup {None}]
<1>1. /\ refresh \in Refreshes \cup {None} /\ submit \in Submits \cup {None}
      /\ busy \in BOOLEAN /\ failures \in 0..MaxFailures /\ MaxFailures \in Nat
  BY DesktopAssumption DEF DesktopTypeOK
<1>2. /\ log \in Seq(Tasks) /\ Len(log) \in Nat /\ Len(log) <= MaxLog /\ MaxLog \in Nat
  BY LenProperties, DesktopAssumption DEF DesktopTypeOK
<1>3. current # None => current \in ConnIds
  <2>1. DOMAIN conns = 1..Len(conns) /\ Len(conns) \in Nat
    BY LenProperties DEF DesktopTypeOK
  <2>2. QED
    BY <2>1, DesktopAssumption DEF DesktopTypeOK, ConnIds
<1>4. \A k : CallFails(k) => failures' \in 0..MaxFailures
  BY <1>1 DEF CallFails
<1>5. ASSUME Refresh PROVE refresh' \in Refreshes
  BY <1>3, <1>5 DEF Refresh
<1>6. ASSUME AnswerRefresh PROVE refresh' \in Refreshes
  BY <1>1, <1>2, <1>6 DEF AnswerRefresh, Versions
<1>7. ASSUME NEW t \in Tasks, Submit(t) PROVE submit' \in Submits
  BY <1>3, <1>7 DEF Submit
<1>8. ASSUME CreateSubmitted PROVE submit' \in Submits
  <2>1. Len(log) + 1 \in Versions
    BY <1>2, <1>8 DEF CreateSubmitted, Versions
  <2>2. QED
    BY <1>1, <1>8, <2>1 DEF CreateSubmitted
<1>9. refresh' \in Refreshes \cup {None}
  <2>1. \/ Refresh \/ AnswerRefresh \/ refresh' \in {None, refresh}
    BY DEF Next, vars, callVars, ConnectStep, Connect, CancelFirst, ConnectAfterCancel,
           AnswerAttempt, ReplaceByAttempt, StartStream, Undo, FinishUndo, StreamStep,
           Receive, Consume, StreamEnds, StreamFails, CommandStep, EndRefresh,
           CreateSubmitted, EndSubmit, Submit, TaskChanges
  <2>2. QED
    BY <1>1, <1>5, <1>6, <2>1
<1>10. submit' \in Submits \cup {None}
  <2>1. \/ CreateSubmitted \/ (\E t \in Tasks : Submit(t)) \/ submit' \in {None, submit}
    BY DEF Next, vars, callVars, ConnectStep, Connect, CancelFirst, ConnectAfterCancel,
           AnswerAttempt, ReplaceByAttempt, StartStream, Undo, FinishUndo, StreamStep,
           Receive, Consume, StreamEnds, StreamFails, CommandStep, Refresh,
           AnswerRefresh, EndRefresh, EndSubmit, TaskChanges
  <2>2. QED
    BY <1>1, <1>7, <1>8, <2>1
<1>11. busy' \in BOOLEAN
  BY <1>1
     DEF Next, vars, callVars, ConnectStep, Connect, CancelFirst, ConnectAfterCancel,
         Open, AnswerAttempt, ReplaceByAttempt, StartStream, Undo, FinishUndo,
         StreamStep, Receive, Consume, StreamEnds, StreamFails, CommandStep, Refresh,
         AnswerRefresh, EndRefresh, CreateSubmitted, EndSubmit, Submit, TaskChanges
<1>12. failures' \in 0..MaxFailures
  <2>1. \/ failures' = failures
        \/ failures < MaxFailures /\ failures' = failures + 1
    BY DEF Next, vars, callVars, ConnectStep, Connect, CancelFirst, ConnectAfterCancel,
           AnswerAttempt, ReplaceByAttempt, StartStream, Undo, FinishUndo, StreamStep,
           Receive, Consume, StreamEnds, StreamFails, CommandStep, Refresh,
           AnswerRefresh, EndRefresh, CreateSubmitted, EndSubmit, Submit, TaskChanges,
           CallFails
  <2>2. QED
    BY <1>1, <2>1
<1>13. QED
  BY <1>9, <1>10, <1>11, <1>12

\* The invariant holds at the start and is kept by every step.
LEMMA DesktopInvHolds == Spec => []DesktopInv
<1>1. Init => DesktopInv
  <2> SUFFICES ASSUME Init PROVE DesktopInv
    OBVIOUS
  <2>1. /\ log = <<>> /\ conns = <<>> /\ Len(log) = 0 /\ Len(conns) = 0
        /\ DOMAIN conns = {} /\ lastSequence = 0
        /\ Idle \in Runs /\ Idle.at = "idle" /\ Idle.conn = None /\ Idle.awaited = None
        /\ \A a \in Attempts : attempts[a] = Idle
        /\ MaxLog \in Nat /\ MaxConns \in Nat /\ MaxFailures \in Nat
    BY DesktopAssumption DEF Init, Idle, Runs
  <2>2. DesktopTypeOK
    <3>1. shown \in [Tasks -> Versions] /\ attempts \in [Attempts -> Runs]
      BY <2>1 DEF Init, Versions
    <3>2. /\ log \in Seq(Tasks) /\ conns \in Seq(Connections)
          /\ Len(log) <= MaxLog /\ Len(conns) <= MaxConns
          /\ lastSequence \in 0..Len(log) /\ failures \in 0..MaxFailures
      BY <2>1 DEF Init
    <3>3. /\ {current, eventTask} \subseteq DOMAIN conns \cup {None}
          /\ refresh = None /\ submit = None
          /\ busy \in BOOLEAN /\ overlapped \in BOOLEAN
          /\ overtaken \in SUBSET Tasks
      BY DEF Init
    <3>4. QED
      BY <3>1, <3>2, <3>3 DEF DesktopTypeOK
  <2>3. StreamsBehindStore /\ RunsHaveConnections
    BY <2>1 DEF StreamsBehindStore, RunsHaveConnections
  <2>4. RoomToConnect
    <3>1. Cancelling = {}
      BY <2>1 DEF Cancelling
    <3>2. QED
      BY <2>1, <3>1, FS_EmptySet DEF RoomToConnect
  <2>5. OnlyOvertakenAnswersLeaveStaleRows
    <3>1. \A t : VersionAt(t, 0) = 0
      BY VersionBounds
    <3>2. QED
      BY <2>1, <3>1 DEF Init, OnlyOvertakenAnswersLeaveStaleRows
  <2>6. ConnectsDoNotMix
    BY <2>1 DEF ConnectsDoNotMix
  <2>7. QED
    BY <2>2, <2>3, <2>4, <2>5, <2>6 DEF DesktopInv
<1>2. DesktopInv /\ [Next]_vars => DesktopInv'
  <2> SUFFICES ASSUME DesktopInv, [Next]_vars PROVE DesktopInv'
    OBVIOUS
  <2>1. DesktopTypeOK /\ LinkInv
    BY DEF DesktopInv, DesktopTypeOK, LinkInv, LinkTypes
  <2>2. LinkInv' /\ RoomToConnect'
    BY <2>1, LinkInvStep, RoomToConnectStep
  <2>3. StoreStep
    BY <2>1, StepsOnStore
  <2>4. OnlyOvertakenAnswersLeaveStaleRows'
    BY <2>1, <2>3, StaleRowsStep DEF DesktopInv
  <2>5. DesktopTypeOK'
    <3>1. /\ log' \in Seq(Tasks) /\ Len(log') <= MaxLog
          /\ shown' \in [Tasks -> Versions]
          /\ lastSequence' \in 0..Len(log')
          /\ overtaken' \in SUBSET Tasks
      BY <2>1, <2>3, StoreTypesStep DEF DesktopInv
    <3>2. QED
      BY <2>1, <2>2, <3>1, CallTypesStep DEF DesktopTypeOK, LinkInv, LinkTypes
  <2>6. QED
    BY <2>2, <2>4, <2>5 DEF DesktopInv, LinkInv
<1>3. QED
  BY <1>1, <1>2, PTL DEF Spec

\* The store, the connections and the calls in flight keep their types.
THEOREM DesktopTypesHold == Spec => []DesktopTypeOK
<1>1. DesktopInv => DesktopTypeOK
  BY DEF DesktopInv
<1>2. QED
  BY <1>1, DesktopInvHolds, PTL

\* No event is left out or undone, whatever connections it came by: a row is behind
\* the applied events only after an answer that events had overtaken.
THEOREM OnlyOvertakenAnswersLeaveStaleRowsHolds ==
  Spec => []OnlyOvertakenAnswersLeaveStaleRows
<1>1. DesktopInv => OnlyOvertakenAnswersLeaveStaleRows
  BY DEF DesktopInv
<1>2. QED
  BY <1>1, DesktopInvHolds, PTL

\* Unless two connects overlap, no open connection is forgotten.
THEOREM OpenConnectionsAreCurrentHolds == Spec => []OpenConnectionsAreCurrent
<1>1. DesktopInv => OpenConnectionsAreCurrent
  BY DEF DesktopInv, ConnectsDoNotMix, OpenConnectionsAreCurrent
<1>2. QED
  BY <1>1, DesktopInvHolds, PTL

\* Unless two connects overlap, the stream a connect waits for was told to end.
THEOREM AwaitedStreamsEndHolds == Spec => []AwaitedStreamsEnd
<1>1. DesktopInv => AwaitedStreamsEnd
  <2> SUFFICES ASSUME DesktopInv, ~overlapped,
                      NEW a \in Attempts, attempts[a].awaited # None
               PROVE  conns[attempts[a].awaited].life # "open"
    BY DEF AwaitedStreamsEnd
  <2>1. ConnectsDoNotMix /\ RunsHaveConnections
    BY DEF DesktopInv
  <2>2. attempts[a].awaited \in DOMAIN conns /\ current = None
    BY <2>1 DEF ConnectsDoNotMix, RunsHaveConnections
  <2>3. QED
    BY <2>1, <2>2 DEF ConnectsDoNotMix
<1>2. QED
  BY <1>1, DesktopInvHolds, PTL

\* Unless two connects overlap, one stream at most applies events.
THEOREM OneConsumerAtATimeHolds == Spec => []OneConsumerAtATime
<1> DEFINE consumers == {k \in DOMAIN conns : Running(k)}
<1>1. DesktopInv => OneConsumerAtATime
  <2> SUFFICES ASSUME DesktopInv, ~overlapped
               PROVE  Cardinality(consumers) <= 1
    BY DEF OneConsumerAtATime
  <2>1. ConnectsDoNotMix /\ RunsHaveConnections
    BY DEF DesktopInv
  <2>2. ASSUME NEW j \in consumers, NEW k \in consumers PROVE j = k
    <3>1. /\ j \in DOMAIN conns /\ conns[j].stream = "running"
          /\ k \in DOMAIN conns /\ conns[k].stream = "running"
      BY <2>2 DEF Running
    <3>2. /\ j # None /\ k # None
      <4>1. DOMAIN conns = 1..Len(conns) /\ Len(conns) \in Nat
        BY LenProperties DEF DesktopInv, DesktopTypeOK
      <4>2. QED
        BY <3>1, <4>1, DesktopAssumption
    <3>3. /\ j = eventTask \/ \E a \in Attempts : attempts[a].awaited = j
          /\ k = eventTask \/ \E a \in Attempts : attempts[a].awaited = k
      BY <2>1, <3>1 DEF ConnectsDoNotMix
    <3>4. \A a, b \in Attempts :
            attempts[a].awaited # None /\ attempts[b].awaited # None => a = b
      BY <2>1 DEF ConnectsDoNotMix, RunsHaveConnections
    <3>5. \A a \in Attempts : attempts[a].awaited # None => eventTask = None
      BY <2>1 DEF ConnectsDoNotMix, RunsHaveConnections
    <3>6. QED
      BY <3>2, <3>3, <3>4, <3>5
  <2> HIDE DEF consumers
  <2>3. CASE consumers = {}
    BY <2>3, FS_EmptySet
  <2>4. ASSUME NEW k \in consumers PROVE Cardinality(consumers) <= 1
    <3>1. consumers = {k}
      BY <2>2, <2>4
    <3>2. QED
      BY <3>1, FS_Singleton
  <2>5. QED
    BY <2>3, <2>4
<1>2. QED
  BY <1>1, DesktopInvHolds, PTL
=============================================================================
