--------------------------- MODULE ServicesProofs ---------------------------
(***************************************************************************)
(* Theorems about the result store, for any number of threads, puts and    *)
(* faults; about the audit chain, for any number of rows; and about the    *)
(* three services of MCServices side by side.                              *)
(***************************************************************************)
EXTENDS MCServices, McpToolsProofs

-----------------------------------------------------------------------------
(***************************************************************************)
(* The result store                                                        *)
(***************************************************************************)


\* What a put may be, as ResultTypeOK says.
PutTypes ==
  [ number : 0..MaxPuts, file : FileNames,
    at : {"idle", "check", "opened", "written", "synced", "look", "returned", "failed"},
    temporary : Files \cup {NoFile}, late : BOOLEAN ]

\* What is at a final name has been synced before it was renamed, and a thread
\* that comes to the manifest has left the object behind it.
FilesAreSynced == \A name \in FileNames : Exists(name) => dir[name].synced

TemporariesAreWhole ==
  \A p \in Putters :
    /\ put[p].at = "written" => put[p].temporary.whole
    /\ put[p].at = "synced" => put[p].temporary.whole /\ put[p].temporary.synced

ObjectsComeFirst ==
  \A p \in Putters :
    /\ put[p].at # "idle" => put[p].number # 0
    /\ put[p].file = "manifest" => Exists("object")
    /\ put[p].at = "look" => put[p].file = "manifest"
    /\ put[p].at = "returned" => put[p].file = "manifest" /\ Exists("manifest")
    /\ put[p].at \in {"opened", "written", "synced"} => put[p].temporary \in Files

StoreInv ==
  /\ ResultTypeOK
  /\ FilesAreWhole
  /\ FilesAreSynced
  /\ TemporariesAreWhole
  /\ ObjectsComeFirst
  /\ ManifestsHaveObjects

\* A put begins within its bound.
LEMMA BeginKeepsStoreInv ==
  ASSUME StoreInv, NEW p \in Putters, Begin(p)
  PROVE  StoreInv'
<1>1. puts' \in 1..MaxPuts
  BY ResultAssumption DEF StoreInv, ResultTypeOK, Begin
<1>2. PICK late \in BOOLEAN :
        put' = [put EXCEPT ![p] = [number |-> puts', file |-> "object", at |-> "check",
                                   temporary |-> NoFile, late |-> late]]
  <2>. DEFINE both == \A name \in FileNames : Exists(name)
  <2>1. both \in BOOLEAN
    OBVIOUS
  <2>2. put' = [put EXCEPT ![p] =
                  [number |-> puts', file |-> "object", at |-> "check",
                   temporary |-> NoFile, late |-> both]]
    BY DEF Begin
  <2>. HIDE DEF both
  <2>. QED BY <2>1, <2>2
<1>3. ResultTypeOK'
  <2>1. puts' \in 0..MaxPuts /\ "object" \in FileNames
    BY <1>1, ResultAssumption DEF FileNames
  <2>. QED BY <1>2, <2>1 DEF StoreInv, ResultTypeOK, Begin
<1>4. /\ put'[p] = [number |-> puts', file |-> "object", at |-> "check",
                    temporary |-> NoFile, late |-> late]
      /\ \A q \in Putters \ {p} : put'[q] = put[q]
      /\ UNCHANGED <<dir, powerLost>>
  BY <1>2 DEF StoreInv, ResultTypeOK, Begin
<1>. QED
  BY <1>1, <1>3, <1>4 DEF StoreInv, FilesAreWhole, FilesAreSynced, TemporariesAreWhole,
                    ObjectsComeFirst, ManifestsHaveObjects, Exists

\* A put goes on at the file it is at.
LEMMA StepsOnOneFile ==
  ASSUME StoreInv, NEW p \in Putters, put[p].at # "idle", NEW step, NEW temporary,
         At(p, step, temporary),
         step \in {"check", "opened", "written", "synced", "failed"},
         temporary \in Files \cup {NoFile},
         step \in {"opened", "written", "synced"} => temporary \in Files,
         step \in {"written", "synced"} => temporary.whole,
         step = "synced" => temporary.synced,
         UNCHANGED <<dir, puts, powerLost>>, faults' \in 0..MaxStoreFaults
  PROVE  StoreInv'
<1>1. /\ put'[p] = [number |-> put[p].number, file |-> put[p].file, at |-> step,
                    temporary |-> temporary, late |-> put[p].late]
      /\ put' \in [Putters -> PutTypes]
      /\ \A q \in Putters \ {p} : put'[q] = put[q]
  <2>1. put \in [Putters -> PutTypes] /\ put[p] \in PutTypes
    BY DEF StoreInv, ResultTypeOK, PutTypes
  <2>2. /\ put' = [put EXCEPT ![p] = put'[p]]
        /\ put'[p] = [number |-> put[p].number, file |-> put[p].file, at |-> step,
                      temporary |-> temporary, late |-> put[p].late]
    BY <2>1 DEF At, PutTypes
  <2>3. put'[p] \in PutTypes
    BY <2>1, <2>2 DEF PutTypes
  <2>. QED BY <2>1, <2>2, <2>3
<1>2. ResultTypeOK'
  BY <1>1 DEF StoreInv, ResultTypeOK, PutTypes
<1>. QED
  BY <1>1, <1>2 DEF StoreInv, FilesAreWhole, FilesAreSynced, TemporariesAreWhole,
                    ObjectsComeFirst, ManifestsHaveObjects, Exists

\* A put is done with the file it is at, which is there.
LEMMA DoneWithAFile ==
  ASSUME StoreInv, NEW p \in Putters, put[p].at # "idle", FileDone(p),
         dir' \in [FileNames -> Files \cup {NoFile}],
         \A name \in FileNames :
           \/ dir'[name] = dir[name]
           \/ dir'[name] \in Files /\ dir'[name].whole /\ dir'[name].synced,
         dir'[put[p].file] # NoFile,
         UNCHANGED <<puts, faults, powerLost>>
  PROVE  StoreInv'
<1>1. /\ put'[p] = [number |-> put[p].number, file |-> "manifest",
                    at |-> IF put[p].file = "object" THEN "look" ELSE "returned",
                    temporary |-> NoFile, late |-> put[p].late]
      /\ put' \in [Putters -> PutTypes]
      /\ \A q \in Putters \ {p} : put'[q] = put[q]
  <2>1. /\ put \in [Putters -> PutTypes]
        /\ put[p] \in PutTypes
    BY DEF StoreInv, ResultTypeOK, PutTypes
  <2>2. /\ put' = [put EXCEPT ![p] = put'[p]]
        /\ put'[p] = [number |-> put[p].number, file |-> "manifest",
                      at |-> IF put[p].file = "object" THEN "look" ELSE "returned",
                      temporary |-> NoFile, late |-> put[p].late]
    BY <2>1 DEF FileDone, PutTypes
  <2>3. put'[p] \in PutTypes
    BY <2>1, <2>2 DEF PutTypes, FileNames
  <2>. QED BY <2>1, <2>2, <2>3 DEF PutTypes
<1>2. ResultTypeOK'
  BY <1>1 DEF StoreInv, ResultTypeOK, PutTypes
<1>3. \A name \in FileNames : Exists(name) => Exists(name)'
  BY ResultAssumption DEF Exists
<1>4. FilesAreWhole' /\ FilesAreSynced'
  BY DEF StoreInv, FilesAreWhole, FilesAreSynced, Exists
<1>5. TemporariesAreWhole'
  BY <1>1 DEF StoreInv, TemporariesAreWhole
<1>6. Exists("object")'
  <2>1. put[p].file \in FileNames
    BY DEF StoreInv, ResultTypeOK
  <2>. QED BY <2>1, <1>3 DEF StoreInv, ObjectsComeFirst, FileNames, Exists
<1>7. ObjectsComeFirst'
  <2>1. put[p].file = "object" \/ Exists("manifest")'
    BY DEF StoreInv, ResultTypeOK, FileNames, Exists
  <2>. QED BY <1>1, <1>3, <1>6, <2>1 DEF StoreInv, ObjectsComeFirst, FileNames
<1>. QED BY <1>2, <1>4, <1>5, <1>6, <1>7 DEF StoreInv, ManifestsHaveObjects

\* The file a put has just made.
LEMMA OpenedFiles ==
  ASSUME StoreInv, NEW p \in Putters, put[p].at # "idle"
  PROVE  Opened(p) \in Files
BY ResultAssumption DEF StoreInv, ResultTypeOK, ObjectsComeFirst, Opened, Files

\* The steps of a put keep the invariant.
LEMMA PutsKeepStoreInv ==
  ASSUME StoreInv, NEW p \in Putters,
         \/ LookForManifest(p) \/ CheckDestination(p) \/ Write(p) \/ Sync(p)
         \/ Replace(p) \/ WriteFails(p)
  PROVE  StoreInv'
<1>1. /\ dir \in [FileNames -> Files \cup {NoFile}]
      /\ faults \in 0..MaxStoreFaults
      /\ put[p].file \in FileNames
      /\ put[p].at # "idle"
  BY DEF StoreInv, ResultTypeOK, LookForManifest, CheckDestination, Write, Sync,
         Replace, WriteFails
<1>2. CASE LookForManifest(p)
  <2>1. put[p].file = "manifest"
    BY <1>2 DEF LookForManifest, StoreInv, ObjectsComeFirst
  <2>2. CASE Exists("manifest")
    BY <1>1, <1>2, <2>1, <2>2, DoneWithAFile DEF LookForManifest, Exists
  <2>3. CASE ~Exists("manifest")
    BY <1>1, <1>2, <2>3, StepsOnOneFile DEF LookForManifest
  <2>. QED BY <2>2, <2>3
<1>3. CASE CheckDestination(p)
  <2>1. CASE Exists(put[p].file)
    BY <1>1, <1>3, <2>1, DoneWithAFile DEF CheckDestination, Exists
  <2>2. CASE ~Exists(put[p].file)
    BY <1>1, <1>3, <2>2, StepsOnOneFile, OpenedFiles DEF CheckDestination
  <2>. QED BY <2>1, <2>2
<1>4. CASE Write(p)
  <2>1. put[p].temporary \in Files
    BY <1>4 DEF Write, StoreInv, ObjectsComeFirst
  <2>2. /\ [put[p].temporary EXCEPT !.whole = TRUE] \in Files
        /\ [put[p].temporary EXCEPT !.whole = TRUE].whole
    BY <2>1 DEF Files
  <2>. QED BY <1>1, <1>4, <2>2, StepsOnOneFile DEF Write
<1>5. CASE Sync(p)
  <2>1. put[p].temporary \in Files /\ put[p].temporary.whole
    BY <1>5 DEF Sync, StoreInv, ObjectsComeFirst, TemporariesAreWhole
  <2>2. /\ [put[p].temporary EXCEPT !.synced = TRUE] \in Files
        /\ [put[p].temporary EXCEPT !.synced = TRUE].whole
        /\ [put[p].temporary EXCEPT !.synced = TRUE].synced
    BY <2>1 DEF Files
  <2>. QED BY <1>1, <1>5, <2>2, StepsOnOneFile DEF Sync
<1>6. CASE Replace(p)
  <2>1. put[p].temporary \in Files /\ put[p].temporary.whole /\ put[p].temporary.synced
    BY <1>6 DEF Replace, StoreInv, ObjectsComeFirst, TemporariesAreWhole
  <2>2. /\ dir' = [dir EXCEPT ![put[p].file] = put[p].temporary]
        /\ FileDone(p) /\ UNCHANGED <<puts, faults, powerLost>>
    BY <1>6 DEF Replace
  <2>3. /\ dir' \in [FileNames -> Files \cup {NoFile}]
        /\ \A name \in FileNames :
             \/ dir'[name] = dir[name]
             \/ dir'[name] \in Files /\ dir'[name].whole /\ dir'[name].synced
        /\ dir'[put[p].file] # NoFile
    BY <1>1, <2>1, <2>2, ResultAssumption
  <2>. QED BY <1>1, <2>2, <2>3, DoneWithAFile
<1>7. CASE WriteFails(p)
  <2>1. faults' \in 0..MaxStoreFaults
    BY <1>1, <1>7, ResultAssumption DEF WriteFails
  <2>. QED BY <1>1, <1>7, <2>1, StepsOnOneFile DEF WriteFails
<1>. QED BY <1>2, <1>3, <1>4, <1>5, <1>6, <1>7

\* A kill loses the puts that have not returned, and no file.
LEMMA KillKeepsStoreInv ==
  ASSUME StoreInv, Kill
  PROVE  StoreInv'
<1>1. \A p \in Putters : put'[p] = put[p] \/ put'[p] = Idle
  BY DEF Kill
<1>2. ResultTypeOK'
  BY ResultAssumption DEF Kill, StoreInv, ResultTypeOK, Idle, FileNames
<1>3. ObjectsComeFirst' /\ TemporariesAreWhole'
  BY <1>1 DEF Kill, StoreInv, ObjectsComeFirst, TemporariesAreWhole, Idle, Exists
<1>. QED BY <1>2, <1>3 DEF Kill, StoreInv, FilesAreWhole, FilesAreSynced,
                           ManifestsHaveObjects, Exists

\* A loss of power leaves each file as it was synced, or takes it away.
LEMMA PowerLossKeepsStoreInv ==
  ASSUME StoreInv, LosePower
  PROVE  StoreInv'
<1>1. PICK kept \in SUBSET FileNames, cut \in SUBSET FileNames :
        dir' = [name \in FileNames |->
                  IF name \notin kept \/ ~Exists(name) THEN NoFile
                  ELSE [dir[name] EXCEPT !.whole = @ /\ (name \notin cut \/ dir[name].synced),
                                         !.synced = TRUE]]
  BY DEF LosePower
<1>2. ASSUME NEW name \in FileNames, dir'[name] # NoFile
      PROVE  dir'[name] \in Files /\ dir'[name].whole /\ dir'[name].synced
  <2>1. Exists(name) /\ dir[name] \in Files /\ dir[name].whole /\ dir[name].synced
    BY <1>1, <1>2 DEF StoreInv, ResultTypeOK, FilesAreWhole, FilesAreSynced, Exists
  <2>2. dir'[name] = [dir[name] EXCEPT !.whole = @ /\ (name \notin cut \/ dir[name].synced),
                                       !.synced = TRUE]
    BY <1>1, <1>2
  <2>3. dir'[name] = [by |-> dir[name].by, synced |-> TRUE,
                      whole |-> dir[name].whole /\ (name \notin cut \/ dir[name].synced)]
    BY <2>1, <2>2 DEF Files
  <2>. QED BY <2>1, <2>3 DEF Files
<1>3. dir' \in [FileNames -> Files \cup {NoFile}]
  BY <1>1, <1>2
<1>4. ResultTypeOK'
  BY <1>3, ResultAssumption DEF LosePower, StoreInv, ResultTypeOK, Idle, FileNames
<1>5. \A p \in Putters : put'[p] = Idle
  BY DEF LosePower
<1>. QED BY <1>2, <1>4, <1>5 DEF LosePower, StoreInv, FilesAreWhole, FilesAreSynced,
            TemporariesAreWhole, ObjectsComeFirst, ManifestsHaveObjects, Idle, Exists

LEMMA StoreInvHolds == ResultSpec => []StoreInv
<1>1. ASSUME ResultInit PROVE StoreInv
  <2>1. ResultTypeOK
    <3>1. /\ 0 \in 0..MaxPuts /\ 0 \in 0..MaxStoreFaults
          /\ dir \in [FileNames -> Files \cup {NoFile}]
      BY <1>1, ResultAssumption DEF ResultInit
    <3>2. \A p \in Putters : put[p] = Idle
      BY <1>1 DEF ResultInit
    <3>. QED BY <1>1, <3>1, <3>2 DEF ResultInit, ResultTypeOK, Idle, FileNames
  <2>2. \A p \in Putters : put[p].at = "idle" /\ put[p].file = "object"
    BY <1>1 DEF ResultInit, Idle
  <2>3. \A name \in FileNames : ~Exists(name)
    BY <1>1 DEF ResultInit, Exists
  <2>. QED BY <2>1, <2>2, <2>3 DEF StoreInv, FilesAreWhole, FilesAreSynced,
              TemporariesAreWhole, ObjectsComeFirst, ManifestsHaveObjects, FileNames
<1>2. StoreInv /\ [ResultNext]_resultVars => StoreInv'
  <2>. SUFFICES ASSUME StoreInv, [ResultNext]_resultVars PROVE StoreInv'
    OBVIOUS
  <2>1. ASSUME NEW p \in Putters, Begin(p) PROVE StoreInv'
    BY <2>1, BeginKeepsStoreInv
  <2>2. CASE Kill
    BY <2>2, KillKeepsStoreInv
  <2>3. CASE LosePower
    BY <2>3, PowerLossKeepsStoreInv
  <2>4. CASE UNCHANGED resultVars
    BY <2>4 DEF resultVars, StoreInv, ResultTypeOK, FilesAreWhole, FilesAreSynced,
       TemporariesAreWhole, ObjectsComeFirst, ManifestsHaveObjects, Exists
  <2>. QED BY <2>1, <2>2, <2>3, <2>4, PutsKeepStoreInv DEF ResultNext
<1>. QED BY <1>1, <1>2, PTL DEF ResultSpec

\* Whatever fails, is killed or loses its power, and however many puts overlap:
\* a file at a final name is whole (store.py:29-42).
THEOREM FilesAreWholeHolds == ResultSpec => []FilesAreWhole
BY StoreInvHolds, PTL DEF StoreInv

\* What a put has returned is there, with its manifest, and verifies.
THEOREM ReturnedPutsVerifyHolds == ResultSpec => []ReturnedPutsVerify
<1>1. StoreInv => ReturnedPutsVerify
  BY DEF StoreInv, ReturnedPutsVerify, ObjectsComeFirst, FilesAreWhole, FileNames,
         Verify, Exists
<1>. QED BY <1>1, StoreInvHolds, PTL

\* Without a loss of power, a manifest speaks of an object that is there.
THEOREM ManifestsHaveObjectsHold == ResultSpec => []ManifestsHaveObjects
BY StoreInvHolds, PTL DEF StoreInv

-----------------------------------------------------------------------------
\* A late put finds both files, and makes no temporary one.
LatePutsRest ==
  \A p \in Putters :
    put[p].late =>
      /\ \A name \in FileNames : Exists(name)
      /\ put[p].at \notin {"opened", "written", "synced"}

\* A step of a late put leaves the files alone and the put late.
LEMMA LatePutsStep ==
  ASSUME StoreInv, LatePutsRest, NEW p \in Putters, put[p].late,
         \/ LookForManifest(p) \/ CheckDestination(p) \/ Write(p) \/ Sync(p)
         \/ Replace(p) \/ WriteFails(p)
  PROVE  /\ UNCHANGED dir
         /\ put'[p].at \in {"look", "returned"}
<1>1. /\ LookForManifest(p) \/ CheckDestination(p)
      /\ put[p].file \in FileNames
      /\ \A name \in FileNames : Exists(name)
  BY DEF LatePutsRest, Write, Sync, Replace, WriteFails, StoreInv, ResultTypeOK
<1>2. FileDone(p) /\ UNCHANGED dir
  BY <1>1 DEF LookForManifest, CheckDestination, FileNames
<1>. QED BY <1>2 DEF FileDone, StoreInv, ResultTypeOK

\* A step of a put that is not late leaves it so.
LEMMA EarlyPutsStep ==
  ASSUME StoreInv, NEW p \in Putters, ~put[p].late,
         \/ LookForManifest(p) \/ CheckDestination(p) \/ Write(p) \/ Sync(p)
         \/ Replace(p) \/ WriteFails(p)
  PROVE  ~put'[p].late
BY DEF StoreInv, ResultTypeOK, LookForManifest, CheckDestination, Write, Sync,
       Replace, WriteFails, FileDone, At

\* Files appear and are replaced; only a loss of power takes them away.
LEMMA FilesStay ==
  ASSUME StoreInv, NEW p \in Putters,
         \/ LookForManifest(p) \/ CheckDestination(p) \/ Write(p) \/ Sync(p)
         \/ Replace(p) \/ WriteFails(p)
  PROVE  /\ \A name \in FileNames : Exists(name) => Exists(name)'
         /\ \A q \in Putters \ {p} : put'[q] = put[q]
<1>1. \A name \in FileNames : Exists(name) => Exists(name)'
  <2>1. CASE Replace(p)
    <3>1. put[p].temporary # NoFile /\ put[p].file \in FileNames
      BY <2>1, ResultAssumption DEF Replace, StoreInv, ResultTypeOK, ObjectsComeFirst
    <3>. QED BY <2>1, <3>1 DEF Replace, Exists, StoreInv, ResultTypeOK
  <2>2. CASE ~Replace(p)
    BY <2>2 DEF LookForManifest, CheckDestination, Write, Sync, WriteFails, Exists
  <2>. QED BY <2>1, <2>2
<1>2. \A q \in Putters \ {p} : put'[q] = put[q]
  BY DEF StoreInv, ResultTypeOK, LookForManifest, CheckDestination, Write, Sync,
         Replace, WriteFails, FileDone, At
<1>. QED BY <1>1, <1>2

LEMMA LatePutsRestStep ==
  ASSUME StoreInv, LatePutsRest, [ResultNext]_resultVars
  PROVE  LatePutsRest'
<1>1. ASSUME NEW p \in Putters, Begin(p) PROVE LatePutsRest'
  <2>1. /\ put'[p].at = "check"
        /\ put'[p].late <=> \A name \in FileNames : Exists(name)
        /\ \A q \in Putters \ {p} : put'[q] = put[q]
        /\ UNCHANGED dir
    BY <1>1 DEF Begin, StoreInv, ResultTypeOK
  <2>. QED BY <2>1 DEF LatePutsRest, Exists
<1>2. ASSUME NEW p \in Putters,
             \/ LookForManifest(p) \/ CheckDestination(p) \/ Write(p) \/ Sync(p)
             \/ Replace(p) \/ WriteFails(p)
      PROVE  LatePutsRest'
  BY <1>2, LatePutsStep, EarlyPutsStep, FilesStay DEF LatePutsRest
<1>3. CASE Kill
  <2>1. \A p \in Putters : put'[p] = put[p] \/ ~put'[p].late
    BY <1>3 DEF Kill, Idle
  <2>. QED BY <1>3, <2>1 DEF Kill, LatePutsRest, Exists
<1>4. CASE LosePower
  BY <1>4 DEF LosePower, LatePutsRest, Idle
<1>5. CASE UNCHANGED resultVars
  BY <1>5 DEF resultVars, LatePutsRest, Exists
<1>. QED BY <1>1, <1>2, <1>3, <1>4, <1>5 DEF ResultNext

\* A put that begins when both files are there replaces neither, whatever other
\* puts do meanwhile (store.py:31, 58).
THEOREM LatePutsChangeNothingHolds == ResultSpec => LatePutsChangeNothing
<1>1. ResultInit => LatePutsRest
  BY DEF ResultInit, LatePutsRest, Idle
<1>2. StoreInv /\ LatePutsRest /\ [ResultNext]_resultVars
        => [\A p \in Putters :
              put[p].late /\ put'[p] # put[p] /\ faults' = faults => dir' = dir]_resultVars
  <2>. SUFFICES ASSUME StoreInv, LatePutsRest, ResultNext, NEW p \in Putters,
                       put[p].late, put'[p] # put[p], faults' = faults
                PROVE  dir' = dir
    OBVIOUS
  <2>1. ~LosePower
    <3>1. faults \in Nat
      BY ResultAssumption DEF StoreInv, ResultTypeOK
    <3>2. LosePower => faults' = faults + 1
      BY DEF LosePower
    <3>. QED BY <3>1, <3>2
  <2>2. ASSUME NEW q \in Putters, q # p,
               \/ LookForManifest(q) \/ CheckDestination(q) \/ Write(q) \/ Sync(q)
               \/ Replace(q) \/ WriteFails(q)
        PROVE  FALSE
    BY <2>2, FilesStay
  <2>. QED BY <2>1, <2>2, LatePutsStep DEF ResultNext, Begin, Kill
<1>. QED BY <1>1, <1>2, LatePutsRestStep, StoreInvHolds, PTL
            DEF ResultSpec, LatePutsChangeNothing

-----------------------------------------------------------------------------
(***************************************************************************)
(* The audit chain.  With one damage at most, the verifier stops at the    *)
(* first row that the damage has hit, however many rows were appended      *)
(* before and after it.  Two damages may hide each other: the content and  *)
(* the hash of the last row, changed together, continue the chain.         *)
(***************************************************************************)

AuditRows ==
  [id : 1..MaxAppends, content : Contents, previous : Seq(Contents), hash : Seq(Contents)]

\* The histories of the rows, and the numbers of the rows, which grow.
HistoryOfRows ==
  /\ written \in Seq([row : AuditRows, after : 0..MaxAppends])
  /\ \A i \in DOMAIN audit : audit[i].id <= appends
  /\ \A i, j \in DOMAIN audit : i < j => audit[i].id < audit[j].id

\* A row that is as it was appended, and continues the chain.
Good(i) == Continues(i) /\ Undamaged(i)

AllGood == \A i \in DOMAIN audit : Good(i)

\* The damage has hit row d, or the row before it.
HitAt(d) == ~Continues(d) /\ ~Undamaged(d) /\ \A i \in 1..(d - 1) : Good(i)

AuditInv ==
  /\ AuditTypeOK
  /\ HistoryOfRows
  /\ damages = 0 => AllGood
  /\ damages = 1 => AllGood \/ \E d \in DOMAIN audit : HitAt(d)

\* What removing a row from a sequence leaves where.
LEMMA RemovedRow ==
  ASSUME NEW S, NEW s \in Seq(S), NEW i \in 1..Len(s)
  PROVE  /\ RemoveAt(s, i) \in Seq(S)
         /\ Len(RemoveAt(s, i)) = Len(s) - 1
         /\ \A j \in 1..(Len(s) - 1) :
              RemoveAt(s, i)[j] = IF j < i THEN s[j] ELSE s[j + 1]
<1>. DEFINE front == SubSeq(s, 1, i - 1)
            back == SubSeq(s, i + 1, Len(s))
<1>1. /\ front \in Seq(S) /\ Len(front) = i - 1
      /\ \A j \in 1..(i - 1) : front[j] = s[j]
  BY SubSeqProperties
<1>2. /\ back \in Seq(S) /\ Len(back) = Len(s) - i
      /\ \A j \in 1..(Len(s) - i) : back[j] = s[i + j]
  BY SubSeqProperties
<1>3. RemoveAt(s, i) = front \o back
  BY DEF RemoveAt
<1>. HIDE DEF front, back
<1>4. /\ front \o back \in Seq(S)
      /\ Len(front \o back) = Len(front) + Len(back)
      /\ \A j \in 1..(Len(front) + Len(back)) :
           (front \o back)[j] = IF j <= Len(front) THEN front[j] ELSE back[j - Len(front)]
  BY <1>1, <1>2, ConcatProperties
<1>5. Len(s) \in Nat /\ i \in Int /\ Len(front) + Len(back) = Len(s) - 1
  BY <1>1, <1>2
<1>6. \A j \in 1..(Len(s) - 1) :
        (front \o back)[j] = IF j < i THEN s[j] ELSE s[j + 1]
  <2>. SUFFICES ASSUME NEW j \in 1..(Len(s) - 1)
                PROVE  (front \o back)[j] = IF j < i THEN s[j] ELSE s[j + 1]
    OBVIOUS
  <2>1. CASE j < i
    BY <1>1, <1>4, <1>5, <2>1
  <2>2. CASE j >= i
    <3>1. j - (i - 1) \in 1..(Len(s) - i) /\ i + (j - (i - 1)) = j + 1
      BY <1>5, <2>2
    <3>2. (front \o back)[j] = back[j - (i - 1)]
      BY <1>1, <1>4, <1>5, <2>2
    <3>. QED BY <1>2, <1>5, <2>2, <3>1, <3>2
  <2>. QED BY <1>5, <2>1, <2>2
<1>. QED BY <1>3, <1>4, <1>5, <1>6

\* A hash is never that of the row before.
LEMMA HashesGrow ==
  ASSUME NEW content \in Contents, NEW previous \in Seq(Contents)
  PROVE  /\ CanonicalHash(content, previous) \in Seq(Contents)
         /\ CanonicalHash(content, previous) # previous
         /\ \A other \in Contents :
              CanonicalHash(other, previous) = CanonicalHash(content, previous)
                => other = content
<1>1. /\ Append(previous, content) \in Seq(Contents)
      /\ Len(Append(previous, content)) = Len(previous) + 1
      /\ \A other \in Contents : Append(previous, other)[Len(previous) + 1] = other
  BY AppendProperties
<1>. QED BY <1>1 DEF CanonicalHash

\* What a damaged hash may be is a sequence of contents.
LEMMA HashesAreSequences == Hashes \subseteq Seq(Contents)
BY AuditAssumption DEF Hashes, BoundedSeq, SeqOf

\* What AuditInv says of the table and its history.
LEMMA AuditFacts ==
  ASSUME AuditInv
  PROVE  /\ audit \in Seq(AuditRows) /\ Len(audit) \in Nat
         /\ DOMAIN audit = 1..Len(audit)
         /\ written \in Seq([row : AuditRows, after : 0..MaxAppends])
         /\ Len(written) = Len(audit)
         /\ appends \in 0..MaxAppends /\ damages \in 0..MaxDamages
         /\ \A i \in 1..Len(audit) : audit[i] \in AuditRows /\ audit[i].id \in 1..appends
         /\ \A i, j \in 1..Len(audit) : i < j => audit[i].id < audit[j].id
<1>1. /\ audit \in Seq(AuditRows) /\ Len(written) = Len(audit)
      /\ appends \in 0..MaxAppends /\ damages \in 0..MaxDamages
  BY DEF AuditInv, AuditTypeOK, AuditRows
<1>2. /\ Len(audit) \in Nat /\ DOMAIN audit = 1..Len(audit)
      /\ \A i \in 1..Len(audit) : audit[i] \in AuditRows
  BY <1>1
<1>3. HistoryOfRows
  BY DEF AuditInv
<1>4. \A i \in 1..Len(audit) : audit[i].id \in 1..appends
  <2>. SUFFICES ASSUME NEW i \in 1..Len(audit) PROVE audit[i].id \in 1..appends
    OBVIOUS
  <2>1. audit[i].id \in 1..MaxAppends
    BY <1>2 DEF AuditRows
  <2>2. audit[i].id <= appends
    BY <1>2, <1>3 DEF HistoryOfRows
  <2>. QED BY <1>1, <2>1, <2>2, AuditAssumption
<1>. QED BY <1>1, <1>2, <1>3, <1>4 DEF HistoryOfRows

\* Putting the types together again.
LEMMA AuditTypesFromFacts ==
  ASSUME audit \in Seq(AuditRows), Len(written) = Len(audit),
         appends \in 0..MaxAppends, damages \in 0..MaxDamages
  PROVE  AuditTypeOK
BY DEF AuditTypeOK, AuditRows

\* The row before row i has a hash and a number.
LEMMA RowsBefore ==
  ASSUME AuditInv, NEW i \in 0..Len(audit)
  PROVE  HashAt(i) \in Seq(Contents) /\ IdAt(i) \in 0..appends
<1>1. CASE i = 0
  BY <1>1, AuditFacts, AuditAssumption DEF HashAt, IdAt, NoHash
<1>2. CASE i # 0
  <2>1. i \in 1..Len(audit)
    BY <1>2, AuditFacts
  <2>2. audit[i] \in AuditRows /\ audit[i].id \in 1..appends
    BY <2>1, AuditFacts
  <2>3. audit[i].hash \in Seq(Contents)
    BY <2>2 DEF AuditRows
  <2>. QED BY <1>2, <2>2, <2>3 DEF HashAt, IdAt
<1>. QED BY <1>1, <1>2

\* An appended row continues the chain, and the rows before it stay.
LEMMA AppendKeepsAuditInv ==
  ASSUME AuditInv, NEW content \in Contents, AppendEvent(content)
  PROVE  AuditInv'
<1>0. PICK n \in Nat : n = Len(audit)
  BY AuditFacts
<1>. DEFINE row == RowAfter(appends + 1, content, HashAt(n))
            past == [row |-> row, after |-> IdAt(n)]
<1>1. /\ audit' = Append(audit, row) /\ written' = Append(written, past)
      /\ appends < MaxAppends /\ appends' = appends + 1 /\ damages' = damages
  BY <1>0 DEF AppendEvent, AppendAfter
<1>2. /\ audit \in Seq(AuditRows) /\ n \in Nat
      /\ written \in Seq([row : AuditRows, after : 0..MaxAppends]) /\ Len(written) = n
      /\ appends \in 0..MaxAppends /\ damages \in 0..MaxDamages
      /\ DOMAIN audit = 1..n
  BY <1>0, AuditFacts
<1>3. HashAt(n) \in Seq(Contents) /\ IdAt(n) \in 0..appends
  BY <1>0, RowsBefore
<1>4. /\ row.id = appends + 1 /\ row.content = content /\ row.previous = HashAt(n)
      /\ row.hash = CanonicalHash(content, HashAt(n))
      /\ past.row = row /\ past.after = IdAt(n)
  BY DEF RowAfter
<1>5. row \in AuditRows
  BY <1>1, <1>2, <1>3, HashesGrow, AuditAssumption DEF RowAfter, AuditRows
<1>6. past \in [row : AuditRows, after : 0..MaxAppends]
  BY <1>2, <1>3, <1>5, AuditAssumption
<1>. HIDE DEF row, past
<1>7. /\ audit' \in Seq(AuditRows) /\ Len(audit') = n + 1
      /\ \A i \in 1..n : audit'[i] = audit[i]
      /\ audit'[n + 1] = row
  BY <1>1, <1>2, <1>5, <1>0, AppendProperties
<1>8. /\ written' \in Seq([row : AuditRows, after : 0..MaxAppends])
      /\ Len(written') = n + 1
      /\ \A i \in 1..n : written'[i] = written[i]
      /\ written'[n + 1] = past
  BY <1>1, <1>2, <1>6, AppendProperties
<1>9. \A i \in 0..n : HashAt(i)' = HashAt(i) /\ IdAt(i)' = IdAt(i)
  BY <1>2, <1>7 DEF HashAt, IdAt
<1>10. \A i \in 1..n : (Continues(i)' <=> Continues(i)) /\ (Undamaged(i)' <=> Undamaged(i))
  BY <1>2, <1>7, <1>8, <1>9 DEF Continues, Undamaged
<1>11. Good(n + 1)'
  <2>1. (n + 1) - 1 = n
    BY <1>2
  <2>2. Continues(n + 1)'
    <3>1. audit'[n + 1].previous = HashAt((n + 1) - 1)'
      BY <1>2, <1>4, <1>7, <1>9, <2>1
    <3>2. audit'[n + 1].hash
            = CanonicalHash(audit'[n + 1].content, audit'[n + 1].previous)
      BY <1>4, <1>7
    <3>3. Continues(n + 1)' <=>
            /\ audit'[n + 1].previous = HashAt((n + 1) - 1)'
            /\ audit'[n + 1].hash
                 = CanonicalHash(audit'[n + 1].content, audit'[n + 1].previous)
      BY DEF Continues
    <3>. QED BY <3>1, <3>2, <3>3
  <2>3. Undamaged(n + 1)'
    <3>1. audit'[n + 1] = written'[n + 1].row
      BY <1>4, <1>7, <1>8
    <3>2. IdAt((n + 1) - 1)' = written'[n + 1].after
      <4>1. IdAt(n)' = IdAt(n)
        BY <1>2, <1>9
      <4>. QED BY <1>4, <1>8, <2>1, <4>1
    <3>3. Undamaged(n + 1)' <=>
            /\ audit'[n + 1] = written'[n + 1].row
            /\ IdAt((n + 1) - 1)' = written'[n + 1].after
      BY DEF Undamaged
    <3>. QED BY <3>1, <3>2, <3>3
  <2>. QED BY <2>2, <2>3 DEF Good
<1>12. DOMAIN audit = 1..n /\ DOMAIN audit' = 1..(n + 1)
  BY <1>2, <1>7
<1>13. AuditTypeOK'
  BY <1>1, <1>2, <1>7, <1>8, AuditAssumption DEF AuditTypeOK, AuditRows
<1>14. HistoryOfRows'
  <2>1. \A i \in 1..n : audit[i].id \in 0..appends
    BY <1>0, AuditFacts
  <2>2. \A i \in 1..(n + 1) : audit'[i].id <= appends'
    BY <1>1, <1>2, <1>4, <1>7, <2>1
  <2>3. \A i, j \in 1..(n + 1) : i < j => audit'[i].id < audit'[j].id
    <3>1. \A i, j \in 1..n : i < j => audit[i].id < audit[j].id
      BY <1>0, AuditFacts
    <3>2. \A i \in 1..n : audit'[i].id = audit[i].id
      BY <1>7
    <3>3. audit'[n + 1].id = appends + 1
      BY <1>4, <1>7
    <3>. SUFFICES ASSUME NEW i \in 1..(n + 1), NEW j \in 1..(n + 1), i < j
                  PROVE  audit'[i].id < audit'[j].id
      OBVIOUS
    <3>4. CASE j \in 1..n
      <4>1. i \in 1..n
        BY <3>4
      <4>. QED BY <3>1, <3>2, <3>4, <4>1
    <3>5. CASE j = n + 1
      <4>1. i \in 1..n
        BY <3>5
      <4>2. audit[i].id \in 0..appends
        BY <2>1, <4>1
      <4>. QED BY <1>2, <3>2, <3>3, <3>5, <4>1, <4>2
    <3>. QED BY <3>4, <3>5
  <2>. QED BY <1>8, <1>12, <2>2, <2>3 DEF HistoryOfRows
<1>15. AllGood => AllGood'
  <2>1. \A i \in 1..n : Good(i) => Good(i)'
    BY <1>10 DEF Good
  <2>2. \A i \in 1..(n + 1) : i \in 1..n \/ i = n + 1
    BY <1>2
  <2>. QED BY <1>11, <1>12, <2>1, <2>2 DEF AllGood
<1>16. \A d \in 1..n : HitAt(d) => HitAt(d)'
  BY <1>2, <1>10, <1>12 DEF HitAt, Good
<1>. QED BY <1>1, <1>2, <1>12, <1>13, <1>14, <1>15, <1>16 DEF AuditInv

\* A changed field is at a row that no longer continues the chain.
LEMMA ChangeKeepsAuditInv ==
  ASSUME AuditInv, NEW k \in DOMAIN audit, ChangeField(k)
  PROVE  AuditInv'
<1>. DEFINE n == Len(audit)
<1>1. /\ audit \in Seq(AuditRows) /\ n \in Nat /\ DOMAIN audit = 1..n
      /\ appends \in 0..MaxAppends /\ damages \in 0..MaxDamages
      /\ audit[k] \in AuditRows /\ Len(written) = n
  BY AuditFacts
<1>2. /\ damages < MaxDamages /\ damages' = damages + 1
      /\ written' = written /\ appends' = appends /\ audit' # audit
  BY DEF ChangeField
<1>3. PICK row \in AuditRows :
        /\ audit' = [audit EXCEPT ![k] = row]
        /\ row.id = audit[k].id
        /\ \/ row.previous = audit[k].previous /\ row.hash = audit[k].hash
           \/ row.content = audit[k].content /\ row.hash = audit[k].hash
           \/ row.content = audit[k].content /\ row.previous = audit[k].previous
  <2>1. CASE \E c \in Contents : audit' = [audit EXCEPT ![k].content = c]
    <3>1. PICK c \in Contents : audit' = [audit EXCEPT ![k].content = c]
      BY <2>1
    <3>2. [audit[k] EXCEPT !.content = c] \in AuditRows
      BY <1>1 DEF AuditRows
    <3>3. /\ [audit[k] EXCEPT !.content = c].id = audit[k].id
          /\ [audit[k] EXCEPT !.content = c].previous = audit[k].previous
          /\ [audit[k] EXCEPT !.content = c].hash = audit[k].hash
      BY <1>1 DEF AuditRows
    <3>. QED BY <3>1, <3>2, <3>3
  <2>2. CASE \E h \in Hashes : audit' = [audit EXCEPT ![k].previous = h]
    <3>1. PICK h \in Hashes : audit' = [audit EXCEPT ![k].previous = h]
      BY <2>2
    <3>2. h \in Seq(Contents)
      BY HashesAreSequences
    <3>3. [audit[k] EXCEPT !.previous = h] \in AuditRows
      BY <1>1, <3>2 DEF AuditRows
    <3>4. /\ [audit[k] EXCEPT !.previous = h].id = audit[k].id
          /\ [audit[k] EXCEPT !.previous = h].content = audit[k].content
          /\ [audit[k] EXCEPT !.previous = h].hash = audit[k].hash
      BY <1>1 DEF AuditRows
    <3>. QED BY <3>1, <3>3, <3>4
  <2>3. CASE \E h \in Hashes : audit' = [audit EXCEPT ![k].hash = h]
    <3>1. PICK h \in Hashes : audit' = [audit EXCEPT ![k].hash = h]
      BY <2>3
    <3>2. h \in Seq(Contents)
      BY HashesAreSequences
    <3>3. [audit[k] EXCEPT !.hash = h] \in AuditRows
      BY <1>1, <3>2 DEF AuditRows
    <3>4. /\ [audit[k] EXCEPT !.hash = h].id = audit[k].id
          /\ [audit[k] EXCEPT !.hash = h].content = audit[k].content
          /\ [audit[k] EXCEPT !.hash = h].previous = audit[k].previous
      BY <1>1 DEF AuditRows
    <3>. QED BY <3>1, <3>3, <3>4
  <2>. QED BY <2>1, <2>2, <2>3 DEF ChangeField
<1>. HIDE DEF n
<1>4. /\ audit' \in Seq(AuditRows) /\ Len(audit') = n /\ DOMAIN audit' = 1..n
      /\ audit'[k] = row /\ \A i \in (1..n) \ {k} : audit'[i] = audit[i]
  BY <1>1, <1>3 DEF n
<1>5. row # audit[k]
  <2>1. row = audit[k] => [audit EXCEPT ![k] = row] = audit
    BY <1>1
  <2>. QED BY <1>2, <1>3, <2>1
<1>6. AuditTypeOK'
  <2>1. damages' \in 0..MaxDamages /\ appends' \in 0..MaxAppends
    BY <1>1, <1>2, AuditAssumption
  <2>2. Len(written') = Len(audit')
    BY <1>1, <1>2, <1>4
  <2>. QED BY <1>4, <2>1, <2>2 DEF AuditTypeOK, AuditRows
<1>7. \A i \in 1..n : audit'[i].id = audit[i].id
  BY <1>3, <1>4
<1>8. HistoryOfRows'
  BY <1>1, <1>2, <1>4, <1>7 DEF AuditInv, HistoryOfRows
<1>9. damages = 0 => HitAt(k)'
  <2>. SUFFICES ASSUME damages = 0 PROVE HitAt(k)'
    OBVIOUS
  <2>1. \A i \in 1..n : Continues(i) /\ Undamaged(i)
    BY <1>1 DEF AuditInv, AllGood, Good
  <2>2. \A i \in 0..(k - 1) : HashAt(i)' = HashAt(i) /\ IdAt(i)' = IdAt(i)
    BY <1>1, <1>4 DEF HashAt, IdAt
  <2>3. \A i \in 1..(k - 1) : Good(i)'
    BY <1>1, <1>2, <1>4, <2>1, <2>2 DEF Good, Continues, Undamaged
  <2>4. ~Undamaged(k)'
    BY <1>1, <1>2, <1>4, <1>5, <2>1 DEF Undamaged
  <2>5. /\ audit[k].previous = HashAt(k - 1) /\ HashAt(k - 1)' = HashAt(k - 1)
        /\ audit[k].hash = CanonicalHash(audit[k].content, audit[k].previous)
        /\ audit[k].previous \in Seq(Contents) /\ audit[k].content \in Contents
        /\ row.content \in Contents
    <3>1. Continues(k) /\ k - 1 \in 0..(k - 1)
      BY <1>1, <2>1
    <3>2. /\ audit[k].previous \in Seq(Contents) /\ audit[k].content \in Contents
          /\ row.content \in Contents
      BY <1>1 DEF AuditRows
    <3>. QED BY <2>2, <3>1, <3>2 DEF Continues
  <2>6. /\ audit[k] = [id |-> audit[k].id, content |-> audit[k].content,
                       previous |-> audit[k].previous, hash |-> audit[k].hash]
        /\ row = [id |-> row.id, content |-> row.content,
                  previous |-> row.previous, hash |-> row.hash]
    BY <1>1 DEF AuditRows
  <2>7. ~(/\ row.previous = HashAt(k - 1)
          /\ row.hash = CanonicalHash(row.content, row.previous))
    BY <1>3, <1>5, <2>5, <2>6, HashesGrow
  <2>8. ~Continues(k)'
    BY <1>4, <2>5, <2>7 DEF Continues
  <2>. QED BY <2>3, <2>4, <2>8 DEF HitAt
<1>. QED BY <1>1, <1>2, <1>4, <1>6, <1>8, <1>9 DEF AuditInv

\* After a lost row, the row that followed it no longer continues the chain.
LEMMA LossKeepsAuditInv ==
  ASSUME AuditInv, NEW k \in DOMAIN audit, LoseRow(k)
  PROVE  AuditInv'
<1>. DEFINE n == Len(audit)
<1>1. /\ audit \in Seq(AuditRows) /\ n \in Nat /\ DOMAIN audit = 1..n /\ k \in 1..n
      /\ written \in Seq([row : AuditRows, after : 0..MaxAppends]) /\ Len(written) = n
      /\ appends \in 0..MaxAppends /\ damages \in 0..MaxDamages
      /\ k \in 1..Len(written)
  BY AuditFacts
<1>2. /\ damages < MaxDamages /\ damages' = damages + 1 /\ appends' = appends
      /\ audit' = RemoveAt(audit, k) /\ written' = RemoveAt(written, k)
  BY DEF LoseRow
<1>3. /\ audit' \in Seq(AuditRows) /\ Len(audit') = n - 1
      /\ \A j \in 1..(n - 1) : audit'[j] = IF j < k THEN audit[j] ELSE audit[j + 1]
  BY <1>1, <1>2, RemovedRow
<1>4. /\ written' \in Seq([row : AuditRows, after : 0..MaxAppends])
      /\ Len(written') = n - 1
      /\ \A j \in 1..(n - 1) : written'[j] = IF j < k THEN written[j] ELSE written[j + 1]
  <2>. DEFINE pasts == [row : AuditRows, after : 0..MaxAppends]
  <2>1. written \in Seq(pasts) /\ k \in 1..Len(written)
    BY <1>1
  <2>. HIDE DEF pasts
  <2>2. /\ RemoveAt(written, k) \in Seq(pasts)
        /\ Len(RemoveAt(written, k)) = Len(written) - 1
        /\ \A j \in 1..(Len(written) - 1) :
             RemoveAt(written, k)[j] = IF j < k THEN written[j] ELSE written[j + 1]
    BY <2>1, RemovedRow
  <2>3. Len(written) = n
    BY <1>1
  <2>. QED BY <1>2, <2>2, <2>3 DEF pasts
<1>. HIDE DEF n
<1>5. DOMAIN audit' = 1..(n - 1)
  BY <1>1, <1>3
<1>6. AuditTypeOK'
  BY <1>1, <1>2, <1>3, <1>4, AuditAssumption DEF AuditTypeOK, AuditRows
<1>7. HistoryOfRows'
  <2>1. \A i, j \in 1..n : i < j => audit[i].id < audit[j].id
    BY AuditFacts DEF n
  <2>2. \A i \in 1..n : audit[i].id <= appends
    BY AuditFacts DEF n
  <2>3. \A i, j \in 1..(n - 1) : i < j => audit'[i].id < audit'[j].id
    <3>. SUFFICES ASSUME NEW i \in 1..(n - 1), NEW j \in 1..(n - 1), i < j
                  PROVE  audit'[i].id < audit'[j].id
      OBVIOUS
    <3>1. CASE j < k
      BY <1>1, <1>3, <2>1, <3>1
    <3>2. CASE i < k /\ j >= k
      <4>1. audit'[i] = audit[i] /\ audit'[j] = audit[j + 1]
        BY <1>1, <1>3, <3>2
      <4>2. i \in 1..n /\ j + 1 \in 1..n /\ i < j + 1
        BY <1>1
      <4>. QED BY <2>1, <4>1, <4>2
    <3>3. CASE i >= k
      <4>1. audit'[i] = audit[i + 1] /\ audit'[j] = audit[j + 1]
        BY <1>1, <1>3, <3>3
      <4>2. i + 1 \in 1..n /\ j + 1 \in 1..n /\ i + 1 < j + 1
        BY <1>1
      <4>. QED BY <2>1, <4>1, <4>2
    <3>. QED BY <1>1, <3>1, <3>2, <3>3
  <2>4. \A i \in 1..(n - 1) : audit'[i].id <= appends'
    <3>. SUFFICES ASSUME NEW i \in 1..(n - 1) PROVE audit'[i].id <= appends'
      OBVIOUS
    <3>1. i \in 1..n /\ i + 1 \in 1..n
      BY <1>1
    <3>2. audit'[i] = audit[i] \/ audit'[i] = audit[i + 1]
      BY <1>3
    <3>. QED BY <1>2, <2>2, <3>1, <3>2
  <2>. QED BY <1>4, <1>5, <2>3, <2>4 DEF HistoryOfRows
<1>8. damages = 0 => AllGood' \/ HitAt(k)'
  <2>. SUFFICES ASSUME damages = 0 PROVE AllGood' \/ HitAt(k)'
    OBVIOUS
  <2>1. \A i \in 1..n : Continues(i) /\ Undamaged(i)
    BY <1>1 DEF AuditInv, AllGood, Good
  <2>2. \A i \in 0..(k - 1) : HashAt(i)' = HashAt(i) /\ IdAt(i)' = IdAt(i)
    BY <1>1, <1>3 DEF HashAt, IdAt
  <2>3. \A i \in 1..(k - 1) : Good(i)'
    <3>. SUFFICES ASSUME NEW i \in 1..(k - 1) PROVE Good(i)'
      OBVIOUS
    <3>0. i \in 1..(n - 1) /\ i < k /\ i \in 1..n /\ i - 1 \in 0..(k - 1)
      BY <1>1
    <3>1. /\ audit'[i] = audit[i] /\ written'[i] = written[i]
          /\ i \in 1..n /\ i - 1 \in 0..(k - 1)
      BY <1>3, <1>4, <3>0
    <3>2. HashAt(i - 1)' = HashAt(i - 1) /\ IdAt(i - 1)' = IdAt(i - 1)
      BY <2>2, <3>1
    <3>. QED BY <2>1, <3>1, <3>2 DEF Good, Continues, Undamaged
  <2>4. CASE k = n
    BY <1>1, <1>5, <2>3, <2>4 DEF AllGood
  <2>5. CASE k < n
    <3>1. /\ audit'[k] = audit[k + 1] /\ written'[k] = written[k + 1]
          /\ k + 1 \in 1..n /\ (k + 1) - 1 = k /\ k # 0
      <4>1. /\ k \in 1..(n - 1) /\ ~(k < k)
            /\ k + 1 \in 1..n /\ (k + 1) - 1 = k /\ k # 0
        BY <1>1, <2>5
      <4>. QED BY <1>3, <1>4, <4>1
    <3>2. /\ HashAt(k - 1) \in Seq(Contents) /\ IdAt(k - 1) \in Nat
          /\ audit[k].content \in Contents /\ audit[k].id \in Nat
          /\ IdAt(k - 1) < audit[k].id
      <4>1. audit[k] \in AuditRows /\ k - 1 \in 0..Len(audit)
        BY <1>1 DEF n
      <4>2. audit[k].content \in Contents /\ audit[k].id \in 1..MaxAppends
        BY <4>1 DEF AuditRows
      <4>3. HashAt(k - 1) \in Seq(Contents) /\ IdAt(k - 1) \in 0..appends
        BY <4>1, RowsBefore
      <4>4. IdAt(k - 1) < audit[k].id
        <5>1. CASE k = 1
          BY <4>2, <5>1, AuditAssumption DEF IdAt
        <5>2. CASE k # 1
          <6>1. k - 1 \in 1..n /\ k - 1 < k /\ k - 1 # 0
            BY <1>1, <5>2
          <6>2. audit[k - 1].id < audit[k].id
            BY <1>1, <6>1, AuditFacts DEF n
          <6>. QED BY <6>1, <6>2 DEF IdAt
        <5>. QED BY <5>1, <5>2
      <4>. QED BY <1>1, <4>2, <4>3, <4>4, AuditAssumption
    <3>3. audit[k + 1].previous = CanonicalHash(audit[k].content, HashAt(k - 1))
      <4>1. audit[k + 1].previous = HashAt(k)
        BY <2>1, <3>1 DEF Continues
      <4>2. HashAt(k) = audit[k].hash
        BY <3>1 DEF HashAt
      <4>3. audit[k].hash = CanonicalHash(audit[k].content, HashAt(k - 1))
        BY <1>1, <2>1 DEF Continues
      <4>. QED BY <4>1, <4>2, <4>3
    <3>4. ~Continues(k)'
      <4>1. CanonicalHash(audit[k].content, HashAt(k - 1)) # HashAt(k - 1)
        BY <3>2, HashesGrow
      <4>2. HashAt(k - 1)' = HashAt(k - 1)
        BY <1>1, <2>2
      <4>. QED BY <3>1, <3>3, <4>1, <4>2 DEF Continues
    <3>5. written[k + 1].after = audit[k].id
      BY <2>1, <3>1 DEF Undamaged, IdAt
    <3>6. ~Undamaged(k)'
      <4>1. IdAt(k - 1)' = IdAt(k - 1)
        BY <1>1, <2>2
      <4>2. IdAt(k - 1) # audit[k].id
        BY <3>2
      <4>. QED BY <3>1, <3>5, <4>1, <4>2 DEF Undamaged
    <3>. QED BY <2>3, <3>4, <3>6 DEF HitAt
  <2>. QED BY <1>1, <2>4, <2>5
<1>9. HitAt(k)' => k \in DOMAIN audit' \/ AllGood'
  BY <1>1, <1>5 DEF HitAt, AllGood
<1>. QED BY <1>1, <1>2, <1>6, <1>7, <1>8, <1>9 DEF AuditInv

LEMMA AuditInvHolds == AuditSpec => []AuditInv
<1>1. AuditInit => AuditInv
  BY AuditAssumption DEF AuditInit, AuditInv, AuditTypeOK, HistoryOfRows, AllGood
<1>2. AuditInv /\ [AuditNext]_auditVars => AuditInv'
  <2>1. AuditInv /\ UNCHANGED auditVars => AuditInv'
    BY DEF auditVars, AuditInv, AuditTypeOK, HistoryOfRows, AllGood, HitAt, Good,
           Continues, Undamaged, HashAt, IdAt
  <2>. QED BY <2>1, AppendKeepsAuditInv, ChangeKeepsAuditInv, LossKeepsAuditInv
           DEF AuditNext
<1>. QED BY <1>1, <1>2, PTL DEF AuditSpec

\* The table and its history keep their types, over damages of any number.
THEOREM AuditTypesHold == AuditSpec => []AuditTypeOK
BY AuditInvHolds, PTL DEF AuditInv

\* The least of a set of numbers is the one no other is below.
LEMMA LeastRow ==
  ASSUME NEW S \in SUBSET Nat, NEW least \in S, \A x \in S : least <= x
  PROVE  Min(S) = least
<1>1. \E x \in S : \A y \in S : x <= y
  OBVIOUS
<1>2. Min(S) \in S /\ \A y \in S : Min(S) <= y
  BY <1>1, Zenon DEF Min
<1>3. Min(S) <= least /\ least <= Min(S)
  BY <1>2
<1>4. Min(S) \in Nat /\ least \in Nat
  BY <1>2
<1>. HIDE DEF Min
<1>. QED BY <1>3, <1>4

\* As long as there has been one damage at most, the verifier names the row that
\* it hit first, or finds nothing when it only cut rows off the end, whatever is
\* appended afterwards (writer.py:65-108, verifier.py:17-34).
THEOREM OneDamageIsLocated == AuditSpec => [](damages <= 1 => DamageIsLocated)
<1>1. ASSUME AuditInv, damages <= 1 PROVE DamageIsLocated
  <2>. DEFINE broken == {i \in DOMAIN audit : ~Continues(i)}
              hit == {i \in DOMAIN audit : ~Undamaged(i)}
  <2>1. /\ VerifyAuditChain = IF broken = {} THEN 0 ELSE Min(broken)
        /\ FirstRow(LAMBDA i : ~Undamaged(i)) = IF hit = {} THEN 0 ELSE Min(hit)
    BY DEF VerifyAuditChain, FirstRow
  <2>2. AllGood \/ \E d \in DOMAIN audit : HitAt(d)
    BY <1>1, AuditAssumption DEF AuditInv, AuditTypeOK
  <2>3. CASE AllGood
    <3>1. broken = {} /\ hit = {}
      BY <2>3 DEF AllGood, Good
    <3>. QED BY <2>1, <3>1 DEF DamageIsLocated
  <2>4. CASE \E d \in DOMAIN audit : HitAt(d)
    <3>1. PICK d \in DOMAIN audit : HitAt(d)
      BY <2>4
    <3>2. DOMAIN audit \in SUBSET (Nat \ {0})
      BY <1>1, AuditFacts
    <3>3. \A i \in DOMAIN audit : i < d => Continues(i) /\ Undamaged(i)
      BY <3>1, <3>2 DEF HitAt, Good
    <3>4. /\ broken \in SUBSET Nat /\ hit \in SUBSET Nat
          /\ d \in broken /\ d \in hit
      BY <3>1, <3>2 DEF HitAt
    <3>5. (\A i \in broken : d <= i) /\ (\A i \in hit : d <= i)
      BY <3>1, <3>2, <3>3
    <3>. HIDE DEF broken, hit
    <3>6. Min(broken) = d /\ broken # {}
      BY <3>4, <3>5, LeastRow
    <3>7. Min(hit) = d /\ hit # {}
      BY <3>4, <3>5, LeastRow
    <3>. QED BY <2>1, <3>6, <3>7 DEF DamageIsLocated
  <2>. QED BY <2>2, <2>3, <2>4
<1>. QED BY <1>1, AuditInvHolds, PTL

\* The bound of the runs: one damage.
COROLLARY DamageIsLocatedHolds ==
  ASSUME MaxDamages <= 1
  PROVE  AuditSpec => []DamageIsLocated
<1>1. AuditInv => damages <= 1
  BY AuditFacts, AuditAssumption
<1>. QED BY <1>1, AuditInvHolds, OneDamageIsLocated, PTL

-----------------------------------------------------------------------------
(***************************************************************************)
(* The three services side by side                                         *)
(***************************************************************************)

\* The steps of MCServices are steps of one service that leave the others alone:
\* what is proved of each service by itself holds of them together.
THEOREM ServicesAreIndependent == ServicesSpec => McpSpec /\ ResultSpec /\ AuditSpec
<1>1. ServicesInit => McpInit /\ ResultInit /\ AuditInit
  BY DEF ServicesInit
<1>2. [ServicesNext]_<<mcpVars, resultVars, auditVars, moving>>
        => [McpNext]_mcpVars /\ [ResultNext]_resultVars /\ [AuditNext]_auditVars
  BY DEF ServicesNext, ToolsMove, ResultsMove, AuditMoves
<1>. QED BY <1>1, <1>2, PTL DEF ServicesSpec, McpSpec, ResultSpec, AuditSpec

\* The rows, files and calls of the three services keep their types.
COROLLARY ServicesTypesHold == ServicesSpec => []ServicesTypeOK
<1>1. StoreInv => ResultTypeOK
  BY DEF StoreInv
<1>. QED BY <1>1, ServicesAreIndependent, McpTypesHold, StoreInvHolds, AuditTypesHold, PTL
         DEF ServicesTypeOK
=============================================================================
