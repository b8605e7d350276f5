-------------------------- MODULE HealthSupervisor --------------------------
(***************************************************************************)
(* The Mac Core's processes at work: serve, the supervise loop, which      *)
(* launchd keeps alive, and the health command of the installation and     *)
(* verification scripts (cli.py, health/supervisor.py,                     *)
(* ollama/resident_manager.py, ollama/client.py, deploy/macos).  A round   *)
(* checks the database, the disk and the resident model, then writes a row *)
(* per check; the writes are not guarded, so one that fails ends the       *)
(* process.  The loop opens and migrates the database anew each round.     *)
(* Every call of Ollama ends within the two seconds its client allows, or  *)
(* fails, as one may for ever that has a large model to load.  Meanwhile   *)
(* Ollama stops and starts, and models come and go.                        *)
(***************************************************************************)
EXTENDS Migrations

CONSTANTS
  Keep,       \* processes launchd keeps alive
  Loop,       \* processes that run rounds for ever
  Once,       \* processes that run one round
  Skip,       \* those of Once that skip Ollama
  None,       \* no row, nothing found yet
  MaxChanges  \* bound: changes of the world

ASSUME SupervisionAssumption ==
  /\ Keep \subseteq Processes
  /\ Loop \subseteq Keep /\ Once \subseteq Processes \ Keep /\ Skip \subseteq Once
  /\ MaxChanges \in Nat
  /\ None \notin {"ok", "degraded", "error"}

Probers == Loop \cup Once
Checks == {"database", "disk", "ollama_resident"}
Verdicts == {"ok", "degraded", "error"}

VARIABLES
  health,    \* table service_health: the status of each check, or None
  found,     \* by prober: the checks of its round so far
  world,     \* the disk, Ollama, its model, and what it does within two seconds
  changes    \* how often the world has changed, for the bound

vars == <<startVars, health, found, world, changes>>

\* prompt: the calls that Ollama, while it is up, is sure to answer in time.  Any
\* other may time out; a load takes longer than a list.
Worlds ==
  [space : BOOLEAN, up : BOOLEAN, installed : BOOLEAN, running : BOOLEAN,
   prompt : {{}, {"lists"}, {"lists", "load"}}]

\* A check of p has a verdict, and p goes on.
Find(p, check, verdict, place) ==
  /\ found' = [found EXCEPT ![p][check] = verdict]
  /\ GoTo(p, place)
  /\ UNCHANGED <<tables, recorded, failures, health, changes>>

\* p goes on without a verdict.
GoOn(p, place) ==
  /\ GoTo(p, place)
  /\ UNCHANGED <<tables, recorded, failures, health, found, changes>>

-----------------------------------------------------------------------------
(***************************************************************************)
(* A round of run_once                                                     *)
(***************************************************************************)

CheckDatabase(p) ==
  /\ At(p) = "ready"
  /\ Find(p, "database", "ok", "disk")
  /\ UNCHANGED world

CheckDisk(p) ==
  /\ At(p) = "disk"
  /\ Find(p, "disk", IF world.space THEN "ok" ELSE "degraded",
          IF p \in Skip THEN "skip" ELSE "tags")
  /\ UNCHANGED world

\* One of the two guarded checks raises.
CheckFails(p, check, place) ==
  /\ At(p) = place
  /\ failures < MaxFailures
  /\ failures' = failures + 1
  /\ found' = [found EXCEPT ![p][check] = "error"]
  /\ GoTo(p, IF check = "database" THEN "disk"
             ELSE IF p \in Skip THEN "skip" ELSE "tags")
  /\ UNCHANGED <<tables, recorded, health, world, changes>>

\* _HealthyResident of health --skip-ollama.
SkipResident(p) ==
  /\ At(p) = "skip"
  /\ Find(p, "ollama_resident", "ok", "write_database")
  /\ UNCHANGED world

\* Mutant: the status of the resident manager is stored as it is.
ResidentUnclassified(p, isResident) ==
  Find(p, "ollama_resident", IF isResident THEN "resident" ELSE "missing", "write_database")

\* ensure_resident returns: a result other than RESIDENT is degraded.
Resident(p, isResident) ==
  Find(p, "ollama_resident", IF isResident THEN "ok" ELSE "degraded", "write_database")

\* installed_models answers: without the model no download.
ReadInstalled(p) ==
  /\ At(p) = "tags"
  /\ world.up
  /\ IF world.installed THEN GoOn(p, "running") ELSE Resident(p, FALSE)
  /\ UNCHANGED world

\* Mutant: a model that is not running is left to itself.
ReadRunningOnly(p) ==
  /\ At(p) = "running"
  /\ world.up
  /\ GoOn(p, "confirm")
  /\ UNCHANGED world

\* running_models answers, before the preload.
ReadRunning(p) ==
  /\ At(p) = "running"
  /\ world.up
  /\ GoOn(p, IF world.running THEN "confirm" ELSE "preload")
  /\ UNCHANGED world

\* preload returns: Ollama has loaded the model.
Preload(p) ==
  /\ At(p) = "preload"
  /\ world.up /\ world.installed
  /\ GoOn(p, "confirm")
  /\ world' = [world EXCEPT !.running = TRUE]

\* running_models answers again.
ConfirmRunning(p) ==
  /\ At(p) = "confirm"
  /\ world.up
  /\ Resident(p, world.running)
  /\ UNCHANGED world

\* A call from this place is sure to be answered in time and without an error.
Answered(place) ==
  /\ world.up
  /\ IF place = "preload" THEN world.installed /\ "load" \in world.prompt
                          ELSE "lists" \in world.prompt

\* The call times out or is refused, and the check with it.  A load whose caller
\* has given up may go on to its end.
CallFails(p) ==
  /\ At(p) \in {"tags", "running", "preload", "confirm"}
  /\ ~Answered(At(p))
  /\ Resident(p, FALSE)
  /\ \/ UNCHANGED world
     \/ /\ At(p) = "preload" /\ world.up /\ world.installed
        /\ world' = [world EXCEPT !.running = TRUE]

\* Where the row of a check is written.
WritePlace ==
  [database |-> "write_database", disk |-> "write_disk",
   ollama_resident |-> "write_ollama_resident"]

\* Where the round goes on after writing the row of a check.
AfterWrite(p, check) ==
  CASE check = "database"        -> "write_disk"
    [] check = "disk"            -> "write_ollama_resident"
    [] check = "ollama_resident" -> IF p \in Loop THEN "sleeping" ELSE "done"

\* The upsert of one row of service_health, committed by itself.
WriteRow(p, check) ==
  /\ At(p) = WritePlace[check]
  /\ health' = [health EXCEPT ![check] = found[p][check]]
  /\ found' = [found EXCEPT ![p][check] = None]
  /\ GoTo(p, AfterWrite(p, check))
  /\ UNCHANGED <<tables, recorded, failures, world, changes>>

\* The upsert raises; nothing above it catches.
WriteFails(p, check) ==
  /\ At(p) = WritePlace[check]
  /\ failures < MaxFailures
  /\ failures' = failures + 1
  /\ GoTo(p, "down")
  /\ found' = [found EXCEPT ![p] = [c \in Checks |-> None]]
  /\ UNCHANGED <<tables, recorded, health, world, changes>>

\* The next round of the loop: build_services again.
WakeUp(p) ==
  /\ At(p) = "sleeping"
  /\ GoOn(p, "opened")
  /\ UNCHANGED world

-----------------------------------------------------------------------------
(***************************************************************************)
(* The world                                                               *)
(***************************************************************************)

\* The disk fills or is freed; Ollama stops, taking the model out of memory, or
\* starts; the model is installed or removed by hand, unloaded, or loaded for
\* another caller; Ollama gets slower or faster.
WorldChanges ==
  /\ changes < MaxChanges
  /\ changes' = changes + 1
  /\ world' \in { [world EXCEPT !.space = ~@],
                  [world EXCEPT !.up = ~@, !.running = FALSE],
                  [world EXCEPT !.installed = ~@, !.running = FALSE],
                  [world EXCEPT !.running = FALSE],
                  [world EXCEPT !.running = world.up /\ world.installed] }
                \cup {[world EXCEPT !.prompt = w.prompt] : w \in Worlds}
  /\ world' # world
  /\ UNCHANGED <<startVars, health, found>>

Forget(p) == found' = IF p \in Probers THEN [found EXCEPT ![p] = [c \in Checks |-> None]]
                                       ELSE found

-----------------------------------------------------------------------------
Init ==
  /\ StartInit
  /\ health = [c \in Checks |-> None]
  /\ found = [p \in Probers |-> [c \in Checks |-> None]]
  /\ world \in {w \in Worlds : w.running => w.up /\ w.installed}
  /\ changes = 0

RoundStep(p) ==
  \/ CheckDatabase(p) \/ CheckDisk(p)
  \/ CheckFails(p, "database", "ready") \/ CheckFails(p, "disk", "disk")
  \/ SkipResident(p) \/ ReadInstalled(p) \/ ReadRunning(p)
  \/ Preload(p) \/ ConfirmRunning(p) \/ CallFails(p)
  \/ \E check \in Checks : WriteRow(p, check) \/ WriteFails(p, check)
  \/ WakeUp(p)

Next ==
  \/ \E p \in Processes :
       \/ StartStep(p) /\ UNCHANGED <<health, found, world, changes>>
       \/ Crash(p) /\ Forget(p) /\ UNCHANGED <<health, world, changes>>
  \/ \E p \in Probers : RoundStep(p)
  \/ WorldChanges

\* launchd starts a process it keeps alive again, and a running process goes on:
\* calls of Ollama and waits for the database have time limits, so that each ends,
\* with an answer or with CallFails.  Nothing makes Ollama answer.
Fairness ==
  \A p \in Keep :
    /\ WF_vars(StartStep(p) /\ UNCHANGED <<health, found, world, changes>>)
    /\ p \in Probers => WF_vars(RoundStep(p))

Spec == Init /\ [][Next]_vars /\ Fairness

-----------------------------------------------------------------------------
(***************************************************************************)
(* Properties                                                              *)
(***************************************************************************)

Places ==
  {"down", "opened", "script", "record", "ready", "disk", "skip", "tags",
   "running", "preload", "confirm", "sleeping", "done"}
  \cup {WritePlace[c] : c \in Checks}

\* The types of the database, the processes, the checks and the world.
SupervisionTypeOK ==
  /\ tables \subseteq ToSet(Script)
  /\ recorded \in BOOLEAN
  /\ proc \in [Processes -> [at : Places, next : 1..Len(Script)]]
  /\ failures \in 0..MaxFailures
  /\ health \in [Checks -> Verdicts \cup {None}]
  /\ found \in [Probers -> [Checks -> Verdicts \cup {None}]]
  /\ world \in Worlds
  /\ changes \in 0..MaxChanges

\* A process works on the database only when the migration is recorded and every
\* table is there.
WorkersFindTheirTables ==
  /\ RecordedMeansComplete
  /\ \A p \in Processes :
       At(p) \notin {"down", "opened", "script", "record"} => recorded

\* What launchd keeps alive comes up: losing the race of two first starts, a kill
\* or a failed write only delays it (deploy/macos, KeepAlive).
KeptProcessesComeUp == \A p \in Keep : []<>(At(p) = "ready")

\* Ollama gets the model into memory in time, or has it there already.
Loadable ==
  /\ world.up /\ world.installed
  /\ "lists" \in world.prompt
  /\ world.running \/ "load" \in world.prompt

\* Once the world has settled, the rows say how it is and go on saying it: stale
\* or skipped checks are corrected, a supervisor that died in the middle of its
\* rows has written them again, and the model's row becomes ok when it can be
\* loaded within the time limit or has been loaded at last, and degraded when it
\* cannot be used at all.  Nothing is said of a model that is always too slow
\* (supervisor.py:56, resident_manager.py:36, services.py:56).
HealthConverges ==
  /\ <>[](health["database"] = "ok")
  /\ \A space \in BOOLEAN :
       <>[](world.space = space) =>
         <>[](health["disk"] = IF space THEN "ok" ELSE "degraded")
  /\ <>[]Loadable => <>[](health["ollama_resident"] = "ok")
  /\ <>[]~(world.up /\ world.installed) =>
       <>[](health["ollama_resident"] = "degraded")
=============================================================================
