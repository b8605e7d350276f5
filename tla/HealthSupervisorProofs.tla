----------------------- MODULE HealthSupervisorProofs -----------------------
(***************************************************************************)
(* Theorems about HealthSupervisor and the migration every process runs    *)
(* when it starts.                                                         *)
(***************************************************************************)
EXTENDS HealthSupervisor, TLAPS

\* Where a process may be before the migration is recorded.
Starting == {"down", "opened", "script", "record"}

\* The statements before the i-th have run.
RanBefore(i) == {Script[j] : j \in 1..(i - 1)} \subseteq tables

\* WorkersFindTheirTables, with what makes it inductive: a process at a statement
\* of the script has run those before it, one at the record has run them all,
\* and no table is ever dropped.
StartInv ==
  /\ proc = [p \in Processes |-> proc[p]]
  /\ tables \subseteq ToSet(Script)
  /\ recorded => tables = ToSet(Script)
  /\ \A p \in Processes :
       /\ proc[p].next \in 1..Len(Script)
       /\ RanBefore(proc[p].next)
       /\ At(p) = "record" => tables = ToSet(Script)
       /\ At(p) \notin Starting => recorded

\* The script has statements, and its set is that of its positions.
LEMMA ScriptFacts ==
  /\ Len(Script) = 17
  /\ ToSet(Script) = {Script[j] : j \in 1..17}
<1>1. Len(Script) = 17 /\ DOMAIN Script = 1..17
  BY DEF Script
<1>. QED BY <1>1 DEF ToSet

\* A step that only moves a process that has a record, or sends one to the start,
\* keeps the invariant.
LEMMA MovesKeepStartInv ==
  ASSUME StartInv, NEW p \in Processes, NEW place,
         GoTo(p, place), UNCHANGED <<tables, recorded>>,
         recorded \/ place \in {"down", "opened", "script"}
  PROVE  StartInv'
<1>1. Len(Script) = 17 /\ Script' = Script
  BY ScriptFacts
<1>2. /\ proc' = [q \in Processes |-> proc'[q]]
      /\ proc'[p] = [at |-> place, next |-> 1]
      /\ \A q \in Processes \ {p} : proc'[q] = proc[q]
  BY DEF StartInv, GoTo
<1>3. RanBefore(1)
  BY DEF RanBefore
<1>. QED BY <1>1, <1>2, <1>3 DEF StartInv, At, Starting, RanBefore

\* The steps of a start keep the invariant.
LEMMA StartStepsKeepStartInv ==
  ASSUME StartInv, NEW p \in Processes, StartStep(p)
  PROVE  StartInv'
<1>. USE ScriptFacts
<1>1. CASE OpenDatabase(p)
  BY <1>1, MovesKeepStartInv DEF OpenDatabase
<1>2. CASE CheckMigrations(p)
  <2>1. /\ proc' = [q \in Processes |-> proc'[q]]
        /\ proc'[p] = [at |-> IF recorded THEN "ready" ELSE "script", next |-> 1]
        /\ \A q \in Processes \ {p} : proc'[q] = proc[q]
    BY <1>2 DEF CheckMigrations, StartInv, GoTo
  <2>2. Script[1] = "schema_migrations"
    BY DEF Script
  <2>3. "schema_migrations" \in ToSet(Script)
    BY <2>2
  <2>4. /\ tables \subseteq tables' /\ tables' \subseteq ToSet(Script)
        /\ recorded' = recorded
    BY <1>2, <2>3 DEF CheckMigrations, StartInv
  <2>. QED BY <2>1, <2>4 DEF StartInv, At, Starting, RanBefore
<1>3. CASE RunStatement(p)
  <2>0. PICK i \in 1..17 : i = proc[p].next
    BY DEF StartInv
  <2>1. Script[i] \in ToSet(Script) /\ RanBefore(i)
    BY <2>0 DEF StartInv
  <2>2. /\ proc' = [q \in Processes |-> proc'[q]]
        /\ proc'[p] = IF i < 17 THEN [at |-> "script", next |-> i + 1]
                                ELSE [at |-> "record", next |-> 1]
        /\ \A q \in Processes \ {p} : proc'[q] = proc[q]
    BY <1>3, <2>0 DEF RunStatement, StartInv
  <2>3. /\ tables' = tables \cup {Script[i]}
        /\ tables' \subseteq ToSet(Script)
        /\ recorded' = recorded
    BY <1>3, <2>0, <2>1 DEF RunStatement, StartInv
  <2>4. i < 17 => RanBefore(i + 1)'
    BY <2>0, <2>1, <2>3 DEF RanBefore
  <2>5. i = 17 => tables' = ToSet(Script)
    BY <2>1, <2>3 DEF RanBefore
  <2>6. RanBefore(1)'
    BY DEF RanBefore
  <2>7. proc'[p].next \in 1..17 /\ RanBefore(proc[p].next)'
        /\ ((At(p) = "record")' => tables' = ToSet(Script))
        /\ (At(p) \in Starting)'
    <3>1. CASE i < 17
      BY <3>1, <2>2, <2>4 DEF At, Starting, RanBefore
    <3>2. CASE i = 17
      BY <3>2, <2>2, <2>5, <2>6 DEF At, Starting, RanBefore
    <3>. QED BY <3>1, <3>2, <2>0
  <2>8. \A q \in Processes \ {p} :
          /\ proc'[q].next \in 1..17 /\ RanBefore(proc[q].next)'
          /\ (At(q) = "record")' => tables' = ToSet(Script)
          /\ (At(q) \notin Starting)' => recorded'
    BY <2>2, <2>3 DEF StartInv, At, RanBefore
  <2>9. recorded' => tables' = ToSet(Script)
    BY <2>3 DEF StartInv
  <2>. QED BY <2>2, <2>3, <2>7, <2>8, <2>9 DEF StartInv
<1>4. CASE RecordMigration(p)
  <2>1. /\ proc' = [q \in Processes |-> proc'[q]]
        /\ proc'[p] = [at |-> "ready", next |-> 1]
        /\ \A q \in Processes \ {p} : proc'[q] = proc[q]
        /\ tables' = tables /\ recorded'
        /\ tables = ToSet(Script)
    BY <1>4 DEF RecordMigration, StartInv, GoTo, At
  <2>. QED BY <2>1 DEF StartInv, At, Starting, RanBefore
<1>5. CASE RecordRefused(p)
  BY <1>5, MovesKeepStartInv DEF RecordRefused
<1>. QED BY <1>1, <1>2, <1>3, <1>4, <1>5 DEF StartStep

\* The steps of a round move a process that has found the record.
LEMMA RoundStepsKeepStartInv ==
  ASSUME StartInv, NEW p \in Processes, RoundStep(p)
  PROVE  StartInv'
<1>. USE DEF Find, GoOn, Resident
<1>1. \A check \in Checks : WritePlace[check] \notin Starting
  BY DEF Checks, WritePlace, Starting
<1>2. At(p) \notin Starting /\ UNCHANGED <<tables, recorded>>
  BY <1>1 DEF RoundStep, CheckDatabase, CheckDisk, CheckFails, SkipResident,
              ReadInstalled, ReadRunning, Preload, ConfirmRunning, CallFails,
              WriteRow, WriteFails, WakeUp, Starting
<1>3. \E place : GoTo(p, place)
  BY DEF RoundStep, CheckDatabase, CheckDisk, CheckFails, SkipResident,
         ReadInstalled, ReadRunning, Preload, ConfirmRunning, CallFails,
         WriteRow, WriteFails, WakeUp
<1>4. recorded
  BY <1>2 DEF StartInv
<1>. QED BY <1>2, <1>3, <1>4, MovesKeepStartInv

\* The invariant holds, kills and overlapping starts included.
LEMMA StartInvHolds == Spec => []StartInv
<1>1. Init => StartInv
  BY ScriptFacts DEF Init, StartInit, StartInv, At, Starting, RanBefore
<1>2. StartInv /\ [Next]_vars => StartInv'
  <2>. SUFFICES ASSUME StartInv, [Next]_vars PROVE StartInv'
    OBVIOUS
  <2>1. ASSUME NEW p \in Processes, StartStep(p) PROVE StartInv'
    BY <2>1, StartStepsKeepStartInv
  <2>2. ASSUME NEW p \in Processes, Crash(p) PROVE StartInv'
    BY <2>2, MovesKeepStartInv DEF Crash
  <2>3. ASSUME NEW p \in Probers, RoundStep(p) PROVE StartInv'
    BY <2>3, RoundStepsKeepStartInv, SupervisionAssumption DEF Probers
  <2>4. CASE WorldChanges
    BY <2>4 DEF WorldChanges, startVars, StartInv, At, RanBefore
  <2>5. CASE UNCHANGED vars
    BY <2>5 DEF vars, startVars, StartInv, At, RanBefore
  <2>. QED BY <2>1, <2>2, <2>3, <2>4, <2>5 DEF Next
<1>. QED BY <1>1, <1>2, PTL DEF Spec

\* However many processes start, overlap and die in the migration, in whatever
\* order: whoever works on the database finds every table (database.py:69-85).
THEOREM WorkersFindTheirTablesHolds == Spec => []WorkersFindTheirTables
<1>1. StartInv => WorkersFindTheirTables
  BY DEF StartInv, WorkersFindTheirTables, RecordedMeansComplete, Starting
<1>. QED BY <1>1, StartInvHolds, PTL

-----------------------------------------------------------------------------
\* The types of what the processes keep in memory, of the rows and of the world.
ProcTypes == proc \in [Processes -> [at : Places, next : 1..17]]

RoundTypes ==
  /\ ProcTypes
  /\ recorded \in BOOLEAN
  /\ failures \in 0..MaxFailures
  /\ health \in [Checks -> Verdicts \cup {None}]
  /\ found \in [Probers -> [Checks -> Verdicts \cup {None}]]
  /\ world \in Worlds
  /\ changes \in 0..MaxChanges

\* A process that goes to a place is there, the others are where they were.
LEMMA GoingSomewhere ==
  ASSUME RoundTypes, NEW p \in Processes, NEW place \in Places, GoTo(p, place)
  PROVE  ProcTypes'
<1>1. [at |-> place, next |-> 1] \in [at : Places, next : 1..17]
  OBVIOUS
<1>2. proc \in [Processes -> [at : Places, next : 1..17]]
  BY DEF RoundTypes, ProcTypes
<1>. QED BY <1>1, <1>2 DEF ProcTypes, GoTo

\* The places of a round are places.
LEMMA RoundPlaces ==
  /\ {"down", "opened", "script", "record", "ready", "disk", "skip", "tags",
      "running", "preload", "confirm", "sleeping", "done"} \subseteq Places
  /\ \A check \in Checks : WritePlace[check] \in Places
  /\ \A p \in Probers, check \in Checks : AfterWrite(p, check) \in Places
<1>1. \A check \in Checks : WritePlace[check] \in Places
  BY DEF Places
<1>2. ASSUME NEW p \in Probers, NEW check \in Checks
      PROVE  AfterWrite(p, check) \in Places
  <2>1. /\ WritePlace["disk"] = "write_disk"
        /\ WritePlace["ollama_resident"] = "write_ollama_resident"
    BY DEF WritePlace
  <2>2. {"write_disk", "write_ollama_resident"} \subseteq Places
    BY <1>1, <2>1 DEF Checks
  <2>3. CASE check = "database"
    BY <2>2, <2>3 DEF AfterWrite
  <2>4. CASE check = "disk"
    BY <2>2, <2>4 DEF AfterWrite
  <2>5. CASE check = "ollama_resident"
    BY <2>5 DEF AfterWrite, Places
  <2>. QED BY <2>3, <2>4, <2>5 DEF Checks
<1>. QED BY <1>1, <1>2 DEF Places

\* A start goes on within its program.
LEMMA StartStepsKeepTypes ==
  ASSUME RoundTypes, NEW p \in Processes, StartStep(p)
  PROVE  ProcTypes' /\ recorded' \in BOOLEAN /\ failures' = failures
<1>1. recorded' \in BOOLEAN /\ failures' = failures
  BY DEF RoundTypes, StartStep, OpenDatabase, CheckMigrations, RunStatement,
         RecordMigration, RecordRefused
<1>2. {"down", "opened", "script", "record", "ready"} \subseteq Places
  BY RoundPlaces
<1>3. CASE \E place \in {"down", "opened", "script", "record", "ready"} : GoTo(p, place)
  BY <1>1, <1>2, <1>3, GoingSomewhere
<1>4. CASE RunStatement(p)
  <2>1. Len(Script) = 17
    BY ScriptFacts
  <2>2. proc \in [Processes -> [at : Places, next : 1..17]]
    BY DEF RoundTypes, ProcTypes
  <2>3. PICK i \in 1..17 : i = proc[p].next
    BY <2>2
  <2>4. proc' = [proc EXCEPT ![p] = IF i < 17 THEN [at |-> "script", next |-> i + 1]
                                              ELSE [at |-> "record", next |-> 1]]
    BY <1>4, <2>1, <2>3 DEF RunStatement
  <2>5. (IF i < 17 THEN [at |-> "script", next |-> i + 1]
                   ELSE [at |-> "record", next |-> 1]) \in [at : Places, next : 1..17]
    BY <1>2
  <2>. QED BY <1>1, <2>2, <2>4, <2>5 DEF ProcTypes
<1>. QED BY <1>3, <1>4 DEF StartStep, OpenDatabase, CheckMigrations,
                           RecordMigration, RecordRefused

\* A check finds a verdict.
LEMMA FindKeepsTypes ==
  ASSUME RoundTypes, NEW p \in Probers, NEW check \in Checks,
         NEW verdict \in Verdicts, NEW place \in Places,
         Find(p, check, verdict, place), world' \in Worlds
  PROVE  RoundTypes'
<1>1. p \in Processes
  BY SupervisionAssumption DEF Probers
<1>2. ProcTypes'
  BY <1>1, GoingSomewhere DEF Find
<1>3. found' \in [Probers -> [Checks -> Verdicts \cup {None}]]
  BY DEF Find, RoundTypes
<1>. QED BY <1>2, <1>3 DEF Find, RoundTypes

\* A check goes on without one.
LEMMA GoOnKeepsTypes ==
  ASSUME RoundTypes, NEW p \in Probers, NEW place \in Places,
         GoOn(p, place), world' \in Worlds
  PROVE  RoundTypes'
<1>1. p \in Processes
  BY SupervisionAssumption DEF Probers
<1>2. ProcTypes'
  BY <1>1, GoingSomewhere DEF GoOn
<1>. QED BY <1>2 DEF GoOn, RoundTypes

\* A round keeps its types, also when a check or a write fails.
LEMMA RoundStepsKeepTypes ==
  ASSUME RoundTypes, NEW p \in Probers, RoundStep(p)
  PROVE  RoundTypes'
<1>. USE RoundPlaces
<1>1. /\ p \in Processes /\ world \in Worlds
      /\ {"database", "disk", "ollama_resident"} = Checks
      /\ {"ok", "degraded", "error"} = Verdicts
      /\ (failures < MaxFailures /\ failures' = failures + 1) =>
           failures' \in 0..MaxFailures
  BY SupervisionAssumption, StartAssumption DEF Probers, RoundTypes, Checks, Verdicts
<1>2. /\ WritePlace["database"] = "write_database"
      /\ "write_database" \in Places
  <2>1. WritePlace["database"] = "write_database"
    BY DEF WritePlace
  <2>2. "database" \in Checks
    BY DEF Checks
  <2>. QED BY <2>1, <2>2
<1>3. CASE CheckDatabase(p)
  BY <1>1, <1>3, FindKeepsTypes DEF CheckDatabase
<1>4. CASE CheckDisk(p)
  <2>1. PICK verdict \in Verdicts, place \in Places : Find(p, "disk", verdict, place)
    BY <1>1, <1>4 DEF CheckDisk
  <2>2. "disk" \in Checks /\ world' \in Worlds
    BY <1>1, <1>4 DEF CheckDisk
  <2>. QED BY <2>1, <2>2, FindKeepsTypes
<1>5. ASSUME NEW check \in {"database", "disk"}, NEW place,
             CheckFails(p, check, place)
      PROVE  RoundTypes'
  <2>1. PICK to \in Places : GoTo(p, to)
    BY <1>5 DEF CheckFails
  <2>2. ProcTypes'
    BY <1>1, <2>1, GoingSomewhere
  <2>3. found' \in [Probers -> [Checks -> Verdicts \cup {None}]]
    BY <1>1, <1>5 DEF CheckFails, RoundTypes
  <2>4. failures' \in 0..MaxFailures
    BY <1>1, <1>5 DEF CheckFails
  <2>. QED BY <1>5, <2>2, <2>3, <2>4 DEF CheckFails, RoundTypes
<1>6. ASSUME NEW isResident \in BOOLEAN, Resident(p, isResident), world' \in Worlds
      PROVE  RoundTypes'
  <2>1. PICK verdict \in Verdicts :
          Find(p, "ollama_resident", verdict, "write_database")
    BY <1>1, <1>6 DEF Resident
  <2>. QED BY <1>1, <1>2, <1>6, <2>1, FindKeepsTypes
<1>7. CASE SkipResident(p)
  BY <1>1, <1>2, <1>7, FindKeepsTypes DEF SkipResident
<1>8. CASE ReadInstalled(p)
  BY <1>1, <1>6, <1>8, GoOnKeepsTypes DEF ReadInstalled
<1>9. CASE ReadRunning(p)
  <2>1. PICK place \in Places : GoOn(p, place)
    BY <1>9 DEF ReadRunning
  <2>. QED BY <1>1, <1>9, <2>1, GoOnKeepsTypes DEF ReadRunning
<1>10. [world EXCEPT !.running = TRUE] \in Worlds
  BY <1>1 DEF Worlds
<1>11. CASE Preload(p)
  BY <1>10, <1>11, GoOnKeepsTypes DEF Preload
<1>12. CASE ConfirmRunning(p)
  <2>1. world.running \in BOOLEAN
    BY <1>1 DEF Worlds
  <2>. QED BY <1>1, <1>6, <1>12, <2>1 DEF ConfirmRunning
<1>13. CASE CallFails(p)
  BY <1>1, <1>6, <1>10, <1>13 DEF CallFails
<1>14. ASSUME NEW check \in Checks, WriteRow(p, check) PROVE RoundTypes'
  <2>1. ProcTypes'
    BY <1>1, <1>14, GoingSomewhere DEF WriteRow
  <2>2. found[p][check] \in Verdicts \cup {None}
    BY DEF RoundTypes
  <2>3. /\ health' \in [Checks -> Verdicts \cup {None}]
        /\ found' \in [Probers -> [Checks -> Verdicts \cup {None}]]
    BY <1>14, <2>2 DEF WriteRow, RoundTypes
  <2>. QED BY <1>14, <2>1, <2>3 DEF WriteRow, RoundTypes
<1>15. ASSUME NEW check \in Checks, WriteFails(p, check) PROVE RoundTypes'
  <2>1. ProcTypes'
    BY <1>1, <1>15, GoingSomewhere DEF WriteFails
  <2>2. found' \in [Probers -> [Checks -> Verdicts \cup {None}]]
    BY <1>15 DEF WriteFails, RoundTypes
  <2>3. failures' \in 0..MaxFailures
    BY <1>1, <1>15 DEF WriteFails
  <2>. QED BY <1>15, <2>1, <2>2, <2>3 DEF WriteFails, RoundTypes
<1>16. CASE WakeUp(p)
  BY <1>1, <1>16, GoOnKeepsTypes DEF WakeUp
<1>. QED BY <1>3, <1>4, <1>5, <1>7, <1>8, <1>9, <1>11, <1>12, <1>13, <1>14,
            <1>15, <1>16 DEF RoundStep

\* The database, the processes, what a round has found and the rows it writes keep
\* their types, over failed checks, failed writes, kills and changes of the world.
THEOREM SupervisionTypesHold == Spec => []SupervisionTypeOK
<1>1. Init => RoundTypes
  <2>. SUFFICES ASSUME Init PROVE RoundTypes
    OBVIOUS
  <2>1. ProcTypes /\ recorded \in BOOLEAN
    <3>1. [at |-> "down", next |-> 1] \in [at : Places, next : 1..17]
      BY RoundPlaces
    <3>. QED BY <3>1 DEF Init, StartInit, ProcTypes
  <2>2. failures \in 0..MaxFailures /\ changes \in 0..MaxChanges
    BY SupervisionAssumption, StartAssumption DEF Init, StartInit
  <2>. QED BY <2>1, <2>2, RoundPlaces DEF Init, RoundTypes
<1>2. RoundTypes /\ [Next]_vars => RoundTypes'
  <2>. SUFFICES ASSUME RoundTypes, [Next]_vars PROVE RoundTypes'
    OBVIOUS
  <2>1. ASSUME NEW p \in Processes, StartStep(p),
               UNCHANGED <<health, found, world, changes>>
        PROVE  RoundTypes'
    BY <2>1, StartStepsKeepTypes DEF RoundTypes
  <2>2. ASSUME NEW p \in Processes, Crash(p), Forget(p),
               UNCHANGED <<health, world, changes>>
        PROVE  RoundTypes'
    <3>1. ProcTypes'
      BY <2>2, RoundPlaces, GoingSomewhere DEF Crash
    <3>2. found' \in [Probers -> [Checks -> Verdicts \cup {None}]]
      BY <2>2 DEF Forget, RoundTypes
    <3>3. failures' \in 0..MaxFailures
      BY <2>2, StartAssumption DEF Crash, RoundTypes
    <3>. QED BY <2>2, <3>1, <3>2, <3>3 DEF Crash, RoundTypes
  <2>3. CASE WorldChanges
    <3>1. world' \in Worlds
      <4>1. world \in Worlds
        BY DEF RoundTypes
      <4>2. PICK can \in {{}, {"lists"}, {"lists", "load"}} :
              world' \in { [world EXCEPT !.space = ~@],
                          [world EXCEPT !.up = ~@, !.running = FALSE],
                          [world EXCEPT !.installed = ~@, !.running = FALSE],
                          [world EXCEPT !.running = FALSE],
                          [world EXCEPT !.running = world.up /\ world.installed],
                          [world EXCEPT !.prompt = can] }
        <5>1. \A w \in Worlds : w.prompt \in {{}, {"lists"}, {"lists", "load"}}
          BY DEF Worlds
        <5>. QED BY <2>3, <5>1 DEF WorldChanges
      <4>. QED BY <4>1, <4>2 DEF Worlds
    <3>2. changes' \in 0..MaxChanges
      BY <2>3, SupervisionAssumption DEF WorldChanges, RoundTypes
    <3>. QED BY <2>3, <3>1, <3>2 DEF WorldChanges, startVars, RoundTypes, ProcTypes
  <2>4. CASE UNCHANGED vars
    BY <2>4 DEF vars, startVars, RoundTypes, ProcTypes
  <2>. QED BY <2>1, <2>2, <2>3, <2>4, RoundStepsKeepTypes DEF Next
<1>3. StartInv /\ RoundTypes => SupervisionTypeOK
  BY ScriptFacts DEF StartInv, RoundTypes, ProcTypes, SupervisionTypeOK
<1>. QED BY <1>1, <1>2, <1>3, StartInvHolds, PTL DEF Spec
=============================================================================
