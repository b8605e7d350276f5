---------------------------- MODULE ResultStore ----------------------------
(***************************************************************************)
(* The content-addressed store of results (results/store.py): put_bytes    *)
(* writes the object, then its manifest, each under a temporary name that  *)
(* it syncs and renames.  Puts run at once in several threads, writes      *)
(* fail, the process is killed, the machine loses its power.  A put of     *)
(* other bytes touches other files, so the puts here are all of one        *)
(* object; each writes its own result_type and created_at into the         *)
(* manifest.  The temporary files have names of their own and are not      *)
(* looked at by anyone; one that a kill leaves behind stays.               *)
(***************************************************************************)
EXTENDS Naturals

CONSTANTS
  Putters,         \* threads that put
  NoFile,          \* nothing under a name
  MaxPuts,         \* bound: puts that start
  MaxStoreFaults   \* bound: writes that fail, kills, losses of power

VARIABLES
  dir,        \* what is at the final names of the object and of its manifest
  put,        \* by putter: where its put is
  puts,       \* how many puts have started, for the bound
  faults,     \* how many faults there have been, for the bound
  powerLost   \* history: the machine has lost its power

resultVars == <<dir, put, puts, faults, powerLost>>

FileNames == {"object", "manifest"}

\* The put that wrote a file, whether it is all there, whether it was synced.
Files == [by : 1..MaxPuts, whole : BOOLEAN, synced : BOOLEAN]

ASSUME ResultAssumption ==
  MaxPuts \in Nat /\ MaxStoreFaults \in Nat /\ NoFile \notin Files

\* A put: its number, the file it is at and its step there, and the temporary
\* file; late is history: both files were there when the put began.
Idle == [number |-> 0, file |-> "object", at |-> "idle", temporary |-> NoFile,
         late |-> FALSE]

Exists(name) == dir[name] # NoFile

\* p goes on at another step for the file it is at.
At(p, step, temporary) ==
  put' = [put EXCEPT ![p].at = step, ![p].temporary = temporary]

\* _write_atomic returns: from the object to the manifest, or to the caller.
FileDone(p) ==
  put' = [put EXCEPT ![p].file = "manifest",
                     ![p].at = IF put[p].file = "object" THEN "look" ELSE "returned",
                     ![p].temporary = NoFile]

\* The temporary file that mkstemp has made.
Opened(p) == [by |-> put[p].number, whole |-> FALSE, synced |-> FALSE]

Begin(p) ==
  /\ put[p].at \in {"idle", "returned", "failed"}
  /\ puts < MaxPuts
  /\ puts' = puts + 1
  /\ put' = [put EXCEPT ![p] =
                [number |-> puts', file |-> "object", at |-> "check",
                 temporary |-> NoFile,
                 late |-> \A name \in FileNames : Exists(name)]]
  /\ UNCHANGED <<dir, faults, powerLost>>

\* put_bytes: is there a manifest already?
LookForManifest(p) ==
  /\ put[p].at = "look"
  /\ IF Exists("manifest") THEN FileDone(p) ELSE At(p, "check", NoFile)
  /\ UNCHANGED <<dir, puts, faults, powerLost>>

\* Mutant: what is at the destination is replaced.
CheckNothing(p) ==
  /\ put[p].at = "check"
  /\ At(p, "opened", Opened(p))
  /\ UNCHANGED <<dir, puts, faults, powerLost>>

\* _write_atomic: nothing to do when the file is there, else a temporary one.
CheckDestination(p) ==
  /\ put[p].at = "check"
  /\ IF Exists(put[p].file)
       THEN FileDone(p)
       ELSE At(p, "opened", Opened(p))
  /\ UNCHANGED <<dir, puts, faults, powerLost>>

Write(p) ==
  /\ put[p].at = "opened"
  /\ At(p, "written", [put[p].temporary EXCEPT !.whole = TRUE])
  /\ UNCHANGED <<dir, puts, faults, powerLost>>

\* Mutant: the file is flushed but not synced.
FlushOnly(p) ==
  /\ put[p].at = "written"
  /\ At(p, "synced", put[p].temporary)
  /\ UNCHANGED <<dir, puts, faults, powerLost>>

\* flush and os.fsync: the file is taken to have reached the medium.  On macOS
\* fsync leaves it in the drive's cache, and a loss of power may do more there.
Sync(p) ==
  /\ put[p].at = "written"
  /\ At(p, "synced", [put[p].temporary EXCEPT !.synced = TRUE])
  /\ UNCHANGED <<dir, puts, faults, powerLost>>

\* os.replace
Replace(p) ==
  /\ put[p].at = "synced"
  /\ dir' = [dir EXCEPT ![put[p].file] = put[p].temporary]
  /\ FileDone(p)
  /\ UNCHANGED <<puts, faults, powerLost>>

\* Mutant: an error of the write is swallowed with the temporary file.
WriteFailsSilently(p) ==
  /\ put[p].at \in {"opened", "written", "synced"}
  /\ faults < MaxStoreFaults
  /\ faults' = faults + 1
  /\ FileDone(p)
  /\ UNCHANGED <<dir, puts, powerLost>>

\* The write, the sync or the rename raises; the temporary file is removed.
WriteFails(p) ==
  /\ put[p].at \in {"opened", "written", "synced"}
  /\ faults < MaxStoreFaults
  /\ faults' = faults + 1
  /\ At(p, "failed", NoFile)
  /\ UNCHANGED <<dir, puts, powerLost>>

\* The process is killed; what it has renamed is there.
Kill ==
  /\ faults < MaxStoreFaults
  /\ faults' = faults + 1
  /\ put' = [p \in Putters |-> IF put[p].at = "returned" THEN put[p] ELSE Idle]
  /\ UNCHANGED <<dir, puts, powerLost>>

\* The directories are not synced, so a rename may or may not have happened on
\* the disk, each by itself; a file that was not synced may be cut short.
LosePower ==
  /\ faults < MaxStoreFaults
  /\ faults' = faults + 1
  /\ \E kept \in SUBSET FileNames, cut \in SUBSET FileNames :
       dir' = [name \in FileNames |->
                 IF name \notin kept \/ ~Exists(name) THEN NoFile
                 ELSE [dir[name] EXCEPT !.whole = @ /\ (name \notin cut \/ dir[name].synced),
                                        !.synced = TRUE]]
  /\ put' = [p \in Putters |-> Idle]
  /\ powerLost' = TRUE
  /\ UNCHANGED puts

ResultInit ==
  /\ dir = [name \in FileNames |-> NoFile]
  /\ put = [p \in Putters |-> Idle]
  /\ puts = 0
  /\ faults = 0
  /\ powerLost = FALSE

ResultNext ==
  \/ \E p \in Putters :
       \/ Begin(p) \/ LookForManifest(p) \/ CheckDestination(p)
       \/ Write(p) \/ Sync(p) \/ Replace(p) \/ WriteFails(p)
  \/ Kill
  \/ LosePower

ResultSpec == ResultInit /\ [][ResultNext]_resultVars

-----------------------------------------------------------------------------
(***************************************************************************)
(* Properties                                                              *)
(***************************************************************************)

\* The types of the two files and of the puts.
ResultTypeOK ==
  /\ dir \in [FileNames -> Files \cup {NoFile}]
  /\ put \in [Putters ->
       [ number : 0..MaxPuts,
         file : FileNames,
         at : {"idle", "check", "opened", "written", "synced", "look",
               "returned", "failed"},
         temporary : Files \cup {NoFile},
         late : BOOLEAN ]]
  /\ puts \in 0..MaxPuts /\ faults \in 0..MaxStoreFaults /\ powerLost \in BOOLEAN

\* verify: the file is there and hashes to its name.
Verify == Exists("object") /\ dir["object"].whole

\* What is at a final name is whole, whatever write failed, process was killed
\* or power was lost: the name alone says what the file holds (store.py:29-42).
FilesAreWhole == \A name \in FileNames : Exists(name) => dir[name].whole

\* What a put has returned is there and verifies, and goes on doing so, other
\* puts, failures and kills notwithstanding; only a loss of power may undo it.
ReturnedPutsVerify ==
  \A p \in Putters : put[p].at = "returned" => Verify /\ Exists("manifest")

\* A manifest speaks of an object that is there, except after a loss of power.
ManifestsHaveObjects == Exists("manifest") => powerLost \/ Exists("object")

\* A put that begins when both files are there leaves them as they are; only
\* puts that overlap may replace the manifest of another (store.py:45, 58).
LatePutsChangeNothing ==
  [][\A p \in Putters :
       put[p].late /\ put'[p] # put[p] /\ faults' = faults => dir' = dir]_resultVars
=============================================================================
