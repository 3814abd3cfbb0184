------------------------- MODULE DatasetImportProofs -------------------------
(* Theorems about DatasetImport for every value of its constants.          *)
EXTENDS DatasetImport, TLAPS

-----------------------------------------------------------------------------
(* Type correctness                                                        *)

\* The two fault bounds are natural numbers, restated as a fact to cite.
LEMMA Bounds == MaxFaults \in Nat /\ MaxCrashes \in Nat
BY ConstantsAssumption DEF ConstantsAssumption

\* A worker that gives its build up (status 'failed' with a message, before the swap)
\* changes only that job's row and its place, and keeps them in their types.
LEMMA RefuseType ==
    ASSUME TypeOK, NEW j \in Jobs, Refuse(j)
    PROVE  /\ kind' = kind /\ noted' = noted
           /\ status' \in [Jobs -> Statuses] /\ report' \in [Jobs -> Reports]
           /\ pc' \in [Jobs -> PCs]
           /\ UNCHANGED <<lock, up, hist, bounds>>
<1>1. kind' = kind /\ noted' = noted /\ UNCHANGED <<lock, up, hist, bounds>>
  BY DEF Refuse, SetStatus, Step
<1>2. status' \in [Jobs -> Statuses] /\ report' \in [Jobs -> Reports]
  BY DEF Refuse, SetStatus, TypeOK, Statuses, Terminal, Reports
<1>3. pc' \in [Jobs -> PCs]
  BY DEF Refuse, Step, Goto, TypeOK, PCs
<1> QED BY <1>1, <1>2, <1>3

\* A caveat in the job's log changes nothing of the row but its report.
LEMMA WarnedType ==
    ASSUME TypeOK, NEW j \in Jobs, Warned(j) \/ UNCHANGED row
    PROVE  /\ kind' = kind /\ status' = status /\ noted' = noted
           /\ report' \in [Jobs -> Reports]
BY DEF Warned, row, TypeOK, Reports

\* No job has the id that says that nobody has the lock, a request, or one that is gone.
LEMMA NoSuchJob ==
    /\ Nobody \notin Jobs /\ Asking \notin Jobs /\ Lost \notin Jobs
    /\ Nobody # Asking /\ Asking # Lost /\ Nobody # Lost
BY ConstantsAssumption DEF ConstantsAssumption, Jobs

\* Putting files over a directory, or taking some out of it, gives a directory.
LEMMA OverlayType ==
    ASSUME NEW d \in Dir, NEW e \in Dir, NEW S
    PROVE  Overlay(d, e, S) \in Dir /\ Without(d, S) \in Dir /\ NoDB \in Dir
BY DEF Overlay, Without, NoDB, Dir, File

\* Saving files under UPLOAD_DIR, or unlinking some there, gives directories.
LEMMA UploadedType ==
    ASSUME TypeOK, NEW files \in Dir, NEW S, Uploaded(files, S) \/ UnlinkUploads(S)
    PROVE  dataDir' \in Dir /\ uploads' \in Dir
<1>1. NoDB \in Dir
  BY DEF NoDB, Dir, File
<1> QED
  BY <1>1, OverlayType DEF UnlinkUploads, Uploaded, TypeOK

\* _restore_data_dir leaves the data directory and the backups with known files.
LEMMA RestoreType ==
    ASSUME TypeOK, NEW j \in Jobs, NEW S \in SUBSET Years, Restore(j, S)
    PROVE  dataDir' \in Dir /\ bak' \in Dir
BY DEF TypeOK, Restore, RollbackOff, Restored, Without, Dir, File

\* A fault counts against its bound and keeps the type.
LEMMA FaultType ==
    ASSUME TypeOK, Fault
    PROVE  faults' \in 0..MaxFaults /\ crashes' = crashes
BY Bounds DEF Fault, TypeOK

\* A step of a request or of its worker keeps every variable in its type.
LEMMA TypeStep ==
    ASSUME TypeOK, NEW j \in Jobs, Request(j) \/ Work(j) \/ Exception(j)
    PROVE  TypeOK'
<1> USE DEF db, dirs, row, worker, hist, bounds
<1>1. CASE StartImport(j)
  <2>1. PICK files \in [Years -> Contents \cup {Absent}] \ {NoDB} :
            Uploaded(files, Present(files)) /\ Accept(j, "upload", files, Present(files))
    BY <1>1 DEF StartImport
  <2>2. files \in Dir
    BY DEF Dir, File
  <2>3. dataDir' \in Dir /\ uploads' \in Dir
    BY <2>1, <2>2, UploadedType
  <2>4. Present(files) \in SUBSET Years
    BY DEF Present
  <2> QED
    BY <2>1, <2>2, <2>3, <2>4
    DEF Accept, Goto, TypeOK, Kinds, Statuses, PCs, BeforeSwap
<1>2. CASE Integrate(j)
  BY <1>2 DEF TypeOK, Integrate, Accept, Goto, NoDB, Dir, File,
    Kinds, Statuses, PCs, BeforeSwap
<1>3. CASE Deintegrate(j)
  BY <1>3 DEF TypeOK, Deintegrate, Accept, Goto, NoDB, Dir, File,
    Kinds, Statuses, PCs, BeforeSwap, IntegratedStarts, Present
<1>4. CASE SetRunning(j)
  BY <1>4 DEF TypeOK, SetRunning, Statuses, PCs, BeforeSwap, Step, Goto, At,
    Fault
<1>5. CASE Preflight(j)
  <2>1. CASE Refuse(j)
    BY <1>5, <2>1, RefuseType DEF Preflight, TypeOK
  <2>2. CASE Step(j, "stage") /\ UNCHANGED row
    BY <1>5, <2>2 DEF Preflight, Step, Goto, TypeOK, PCs, BeforeSwap
  <2> QED BY <1>5, <2>1, <2>2 DEF Preflight
<1>6. CASE StageAside(j)
  <2>1. PICK y \in todo[j] :
        IF dataDir[y] # Absent
          THEN /\ rec' = [rec EXCEPT ![j][y] = "moved"]
               /\ bak' = [bak EXCEPT ![y] = dataDir[y]]
               /\ dataDir' = [dataDir EXCEPT ![y] = Absent]
          ELSE rec' = [rec EXCEPT ![j][y] = "new"] /\ UNCHANGED <<bak, dataDir>>
    BY <1>6 DEF StageAside
  <2>2. y \in Years BY <2>1 DEF TypeOK
  <2>3. rec' \in [Jobs -> [Years -> Records]] /\ bak' \in Dir /\ dataDir' \in Dir
    <3>1. CASE dataDir[y] # Absent
      <4>1. rec' = [rec EXCEPT ![j][y] = "moved"]
        BY <2>1, <3>1
      <4>2. bak' = [bak EXCEPT ![y] = dataDir[y]]
        BY <2>1, <3>1
      <4>3. dataDir' = [dataDir EXCEPT ![y] = Absent]
        BY <2>1, <3>1
      <4>4. rec' \in [Jobs -> [Years -> Records]]
        BY <4>1, <2>2 DEF TypeOK, Records
      <4> QED
        BY <4>2, <4>3, <4>4, <2>2 DEF TypeOK, Dir, File
    <3>2. CASE dataDir[y] = Absent
      <4>1. rec' = [rec EXCEPT ![j][y] = "new"]
        BY <2>1, <3>2
      <4>2. UNCHANGED <<bak, dataDir>>
        BY <2>1, <3>2
      <4> QED
        BY <4>1, <4>2, <2>2 DEF TypeOK, Records
    <3> QED BY <3>1, <3>2
  <2> QED BY <1>6, <2>3 DEF StageAside, Step, Goto, TypeOK, PCs
<1>7. CASE StageCopy(j)
  BY <1>7 DEF TypeOK, StageCopy, Copying, Dir, PCs, BeforeSwap, Step, Goto,
    At, Fault
<1>8. CASE Staged(j)
  BY <1>8 DEF TypeOK, Staged, PCs, BeforeSwap, Step, Goto, At, Fault
<1>9. CASE Guard(j)
  <2>1. CASE Refuse(j)
    BY <1>9, <2>1, RefuseType DEF Guard, TypeOK
  <2>2. CASE Step(j, "build") /\ UNCHANGED row
    BY <1>9, <2>2 DEF Guard, Step, Goto, TypeOK, PCs, BeforeSwap
  <2>3. CASE /\ Fault /\ blind' = TRUE /\ Goto(j, "build")
             /\ UNCHANGED <<lock, up, row, dir0, stranded, leftover>>
    BY <1>9, <2>3, FaultType DEF Guard, Goto, TypeOK, PCs, BeforeSwap
  <2> QED BY <1>9, <2>1, <2>2, <2>3 DEF Guard
<1>10. CASE Union(j)
  <2>1. CASE Refuse(j) /\ UNCHANGED todo
    BY <1>10, <2>1, RefuseType DEF Union, TypeOK
  <2>2. CASE /\ todo' = [todo EXCEPT ![j] = UnionWith(j)]
             /\ Step(j, "fetch") /\ UNCHANGED row
    BY <1>10, <2>2 DEF Union, UnionWith, Present, Step, Goto, TypeOK, PCs, BeforeSwap
  <2> QED BY <1>10, <2>1, <2>2 DEF Union
<1>11. CASE Fetch(j)
  BY <1>11 DEF TypeOK, Fetch, Dir, File, PCs, BeforeSwap, Step, Goto, At,
    Fault
<1>12. CASE Fetched(j)
  BY <1>12 DEF TypeOK, Fetched, PCs, BeforeSwap, Step, Goto, At, Fault
<1>13. CASE Remove(j)
  <2>1. CASE Refuse(j) /\ UNCHANGED staging
    BY <1>13, <2>1, RefuseType DEF Remove, TypeOK
  <2>2. CASE staging' = Without(live, todo[j]) /\ Step(j, "check") /\ UNCHANGED row
    BY <1>13, <2>2, OverlayType DEF Remove, Step, Goto, TypeOK, PCs, BeforeSwap
  <2> QED BY <1>13, <2>1, <2>2 DEF Remove
<1>14. CASE Build(j)
  BY <1>14 DEF TypeOK, Build, Source, PCs, BeforeSwap, Step, Goto, At, Fault
<1>15. CASE BuildFails(j)
  <2>1. Source(j) \in Dir BY DEF Source, TypeOK
  <2>2. staging' \in Dir
    BY <1>15, <2>1, OverlayType DEF BuildFails
  <2>3. Refuse(j) BY <1>15 DEF BuildFails
  <2> QED BY <1>15, <2>2, <2>3, RefuseType DEF BuildFails, TypeOK
<1>16. CASE StartChecks(j)
  BY <1>16 DEF TypeOK, StartChecks, Statuses, PCs, BeforeSwap, Step, Goto, At,
    Fault
<1>17. CASE Verdict(j)
  <2>1. CASE Refuse(j) /\ staging' = IF kind[j] = "remove" THEN staging ELSE NoDB
    BY <1>17, <2>1, RefuseType, OverlayType DEF Verdict, TypeOK
  <2>2. CASE Step(j, "aside") /\ UNCHANGED <<row, staging>>
    BY <1>17, <2>2 DEF Verdict, Step, Goto, TypeOK, PCs, BeforeSwap
  <2> QED BY <1>17, <2>1, <2>2 DEF Verdict
<1>18. CASE MoveLiveAside(j)
  BY <1>18 DEF TypeOK, MoveLiveAside, NoDB, Dir, File, PCs, BeforeSwap, Step,
    Goto, At, Fault
<1>19. CASE MoveStagingToLive(j)
  BY <1>19 DEF TypeOK, MoveStagingToLive, NoDB, Dir, File, PCs, SwapTail,
    Step, Goto, At, Fault
<1>20. CASE UnlinkPrev(j)
  BY <1>20 DEF TypeOK, UnlinkPrev, NoDB, Dir, File, PCs, SwapTail, Step, Goto,
    At, Fault
<1>21. CASE NoteSwap(j)
  BY <1>21 DEF TypeOK, NoteSwap, PCs, SwapTail, Step, Goto, At, Fault
<1>22. CASE BumpAndInvalidate(j)
  BY <1>22 DEF TypeOK, BumpAndInvalidate, AfterTail, PCs, AfterSwap, Step,
    Goto, At, Fault
<1>23. CASE CaveatInstead(j)
  BY <1>23 DEF TypeOK, CaveatInstead, AfterTail, Reports, PCs, AfterSwap,
    Step, Goto, At, Fault
<1>24. CASE SetSwapped(j)
  BY <1>24 DEF TypeOK, SetSwapped, SetStatus, Statuses, Terminal, Reports,
    PCs, AfterSwap, Step, Goto, At, Fault
<1>25. CASE RecordProvenance(j)
  <2>1. j \in Jobs /\ kind[j] = "integrate" => src[j] \in [Years -> Releases \cup {Absent}]
    BY DEF TypeOK
  <2>2. prov' \in [Years -> {"none", "manual"} \cup Releases]
    BY <1>25, <2>1 DEF RecordProvenance, Recorded, TypeOK
  <2> QED
    BY <1>25, <2>2 DEF RecordProvenance, AfterProvenance, Step, Goto, TypeOK, PCs, AfterSwap
<1>26. CASE SweepBackups(j)
  <2>1. bak' \in Dir
    BY <1>26, OverlayType DEF SweepBackups, TypeOK
  <2>2. faults' \in 0..MaxFaults /\ crashes' = crashes
    BY <1>26, FaultType DEF SweepBackups, TypeOK
  <2> QED
    BY <1>26, <2>1, <2>2 DEF SweepBackups, Goto, TypeOK, PCs
<1>27. CASE RestoreAll(j)
  BY <1>27, RestoreType DEF RestoreAll, Step, Goto, TypeOK, PCs
<1>28. CASE HandleException(j)
  <2>1. dataDir' \in Dir /\ bak' \in Dir
    BY <1>28, RestoreType DEF HandleException
  <2>2. /\ kind' = kind /\ noted' = noted
        /\ status' \in [Jobs -> Statuses] /\ report' \in [Jobs -> Reports]
    BY <1>28 DEF HandleException, SayWhatHappened, Warned, SetStatus, TypeOK,
                 Statuses, Terminal, Reports
  <2> QED BY <1>28, <2>1, <2>2 DEF HandleException, Step, Goto, TypeOK, PCs
<1>29. CASE Finally(j)
  <2>3. NoDB \in Dir
    BY DEF NoDB, Dir, File
  <2>1. dataDir' \in Dir /\ uploads' \in Dir /\ staging' \in Dir
    BY <1>29, <2>3, UploadedType DEF Finally, TypeOK
  <2>2. leftover' \in SUBSET Years /\ faults' \in 0..MaxFaults /\ crashes' = crashes
    BY <1>29, FaultType DEF Finally, Discardable, Present, TypeOK
  <2> QED
    BY <1>29, <2>1, <2>2 DEF Finally, Goto, TypeOK, PCs
<1>30. CASE Release(j)
  BY <1>30 DEF TypeOK, Release, Forget, NoDB, NoRecord, Records, Dir, File,
    PCs, Step, Goto, At, Fault
<1>31. CASE MoveAsideRaises(j)
  BY <1>31, FaultType DEF MoveAsideRaises, Records, Goto, TypeOK, PCs
<1>32. CASE CopyRaises(j)
  <2>1. dataDir' \in Dir
    BY <1>32 DEF CopyRaises, Copying, TypeOK, Dir, File
  <2> QED
    BY <1>32, <2>1, FaultType DEF CopyRaises, Goto, TypeOK, PCs
<1>33. CASE SetSwappedRaises(j)
  BY <1>33, WarnedType, FaultType DEF SetSwappedRaises, Goto, TypeOK, PCs, AfterSwap
<1>34. CASE ProvenanceRaises(j)
  <2>1. Warned(j) \/ UNCHANGED row
    BY <1>34 DEF ProvenanceRaises
  <2>2. pc' \in [Jobs -> PCs]
    BY <1>34 DEF ProvenanceRaises, AfterProvenance, Goto, TypeOK, PCs, AfterSwap
  <2> QED BY <1>34, <2>1, <2>2, WarnedType, FaultType DEF ProvenanceRaises, TypeOK
<1>35. CASE RestoreRaises(j)
  BY <1>35, RestoreType, FaultType DEF RestoreRaises, Goto, TypeOK, PCs
<1>36. CASE HandlerRaises(j)
  BY <1>36, RestoreType, FaultType DEF HandlerRaises, Goto, TypeOK, PCs
<1>37. CASE Raises(j)
  BY <1>37, FaultType DEF Raises, CaughtAt, Strands, Goto, TypeOK, PCs, AfterSwap
<1> QED
  BY <1>1, <1>2, <1>3, <1>4, <1>5, <1>6, <1>7, <1>8, <1>9, <1>10, <1>11,
    <1>12, <1>13, <1>14, <1>15, <1>16, <1>17, <1>18, <1>19, <1>20, <1>21,
    <1>22, <1>23, <1>24, <1>25, <1>26, <1>27, <1>28, <1>29, <1>30, <1>31,
    <1>32, <1>33, <1>34, <1>35, <1>36, <1>37 DEF Request, Work, Exception

\* The state at boot has its type.
LEMMA InitType == Init => TypeOK
<1> SUFFICES ASSUME Init PROVE TypeOK
  OBVIOUS
<1>1. [Years -> Contents \cup {Absent}] \subseteq Dir
  BY DEF Dir, File
<1>2. NoDB \in Dir
  BY DEF NoDB, Dir, File
<1>3. live \in Dir /\ dataDir \in Dir /\ dir0 \in Dir
  BY <1>1 DEF Init
<1>4. rec \in [Jobs -> [Years -> Records]]
  BY DEF Init, NoRecord, Records
<1>5. /\ kind \in [Jobs -> Kinds \cup {"none"}] /\ status \in [Jobs -> Statuses]
      /\ report \in [Jobs -> Reports] /\ pc \in [Jobs -> PCs]
  BY DEF Init, Statuses, Reports, PCs
<1>6. faults \in 0..MaxFaults /\ crashes \in 0..MaxCrashes
  <2>1. faults = 0 /\ crashes = 0
    BY DEF Init
  <2> QED
    BY <2>1, Bounds
<1>7. /\ src \in [Jobs -> Dir] /\ todo \in [Jobs -> SUBSET Years]
      /\ \A j \in Jobs : kind[j] # "integrate"
      /\ noted \in [Jobs -> BOOLEAN] /\ swapped \in [Jobs -> BOOLEAN]
      /\ prov \in [Years -> {"none", "manual"} \cup Releases]
  BY <1>2 DEF Init
<1>8. /\ prev \in Dir /\ staging \in Dir /\ bak \in Dir /\ uploads \in Dir
      /\ cacheFresh \in BOOLEAN /\ up \in BOOLEAN /\ stranded \in BOOLEAN
      /\ blind \in BOOLEAN /\ leftover \in SUBSET Years
      /\ lock \in Jobs \cup {Nobody, Asking, Lost}
  BY <1>2 DEF Init
<1> QED
  BY <1>3, <1>4, <1>5, <1>6, <1>7, <1>8 DEF TypeOK

\* Every variable keeps its type, whatever the number of
\* years, files, jobs, exceptions and crashes.
THEOREM TypeCorrect == Spec => []TypeOK
<1>1. Init => TypeOK
  BY InitType
<1>2. TypeOK /\ [Next]_vars => TypeOK'
  <2> SUFFICES ASSUME TypeOK, [Next]_vars PROVE TypeOK'
    OBVIOUS
  <2> USE DEF db, dirs, row, worker, hist, bounds
  <2>1. CASE \E j \in Jobs : Request(j) \/ Work(j) \/ Exception(j)
    BY <2>1, TypeStep
  <2>2. CASE Acquire
    BY <2>2 DEF Acquire, TypeOK
  <2>7. CASE RequestRefused
    <3>1. dataDir' \in Dir /\ uploads' \in Dir
      <4>1. NoDB \in Dir
        BY DEF NoDB, Dir, File
      <4> QED
        BY <2>7, <4>1, UploadedType DEF RequestRefused
    <3>2. faults' \in 0..MaxFaults /\ crashes' = crashes
      BY <2>7, FaultType DEF RequestRefused, TypeOK
    <3> QED
      BY <2>7, <3>1, <3>2 DEF RequestRefused, TypeOK
  <2>8. CASE RequestLost
    <3>1. PICK files \in [Years -> Contents \cup {Absent, Corrupt}], S \in SUBSET Years :
              Uploaded(files, S) /\ leftover' = leftover \cup S
      BY <2>8 DEF RequestLost
    <3>2. files \in Dir
      BY DEF Dir, File
    <3>3. dataDir' \in Dir /\ uploads' \in Dir
      BY <3>1, <3>2, UploadedType
    <3>4. leftover' \in SUBSET Years
      BY <3>1 DEF TypeOK
    <3> QED
      BY <2>8, <3>3, <3>4, FaultType DEF RequestLost, TypeOK
  <2>9. CASE \E j \in Jobs : ThreadLost(j)
    <3>1. PICK j \in Jobs : ThreadLost(j)
      BY <2>9
    <3>2. /\ src' \in [Jobs -> Dir] /\ rec' \in [Jobs -> [Years -> Records]]
          /\ todo' \in [Jobs -> SUBSET Years]
          /\ \A k \in Jobs : src'[k] = src[k] \/ src'[k] = NoDB
      BY <3>1, OverlayType DEF ThreadLost, Forget, NoRecord, Records, TypeOK
    <3>3. NoDB \in [Years -> Releases \cup {Absent}]
      BY DEF NoDB
    <3>4. leftover' \in SUBSET Years /\ pc' \in [Jobs -> PCs]
      BY <3>1 DEF ThreadLost, Goto, Present, PCs, TypeOK
    <3>5. kind' = kind /\ lock' = Lost
      BY <3>1 DEF ThreadLost
    <3>6. \A k \in Jobs : kind'[k] = "integrate" => src'[k] \in [Years -> Releases \cup {Absent}]
      BY <3>2, <3>3, <3>5 DEF TypeOK
    <3> QED
      BY <3>1, <3>2, <3>4, <3>5, <3>6, FaultType DEF ThreadLost, TypeOK
  <2>3. CASE Crash
    <3>1. dataDir' \in Dir
      <4>1. CASE UNCHANGED dataDir
        BY <4>1 DEF TypeOK
      <4>2. CASE \E j \in Jobs : \E y \in Copying(j) :
                    dataDir' = [dataDir EXCEPT ![y] = Corrupt]
        BY <4>2 DEF Copying, TypeOK, Dir, File
      <4>3. CASE \E files \in [Years -> Contents \cup {Corrupt}], S \in SUBSET Years :
                    Uploaded(files, S)
        <5>1. PICK files \in [Years -> Contents \cup {Corrupt}], S \in SUBSET Years :
                  Uploaded(files, S)
          BY <4>3
        <5>2. files \in Dir
          BY DEF Dir, File
        <5> QED
          BY <5>1, <5>2, UploadedType
      <4> QED
        BY <2>3, <4>1, <4>2, <4>3 DEF Crash
    <3>10. uploads' \in Dir
      <4>1. CASE UNCHANGED uploads
        BY <4>1 DEF TypeOK
      <4>2. CASE \E files \in [Years -> Contents \cup {Corrupt}], S \in SUBSET Years :
                    Uploaded(files, S)
        <5>1. PICK files \in [Years -> Contents \cup {Corrupt}], S \in SUBSET Years :
                  Uploaded(files, S)
          BY <4>2
        <5>2. files \in Dir
          BY DEF Dir, File
        <5> QED
          BY <5>1, <5>2, UploadedType
      <4> QED
        BY <2>3, <4>1, <4>2 DEF Crash
    <3>11. leftover' \in SUBSET Years /\ blind' \in BOOLEAN
      BY <2>3 DEF Crash, Present, TypeOK
    <3>2. pc' \in [Jobs -> PCs]
      BY <2>3 DEF Crash, TypeOK, PCs
    <3>3. src' \in [Jobs -> Dir] /\ kind' = kind
          /\ \A j \in Jobs : src'[j] = NoDB
      BY <2>3, OverlayType DEF Crash, Forget, TypeOK
    <3>5. todo' \in [Jobs -> SUBSET Years]
      BY <2>3, OverlayType DEF Crash, Forget, TypeOK
    <3>4. rec' \in [Jobs -> [Years -> Records]]
      BY <2>3 DEF Crash, Forget, NoRecord, Records, TypeOK
    <3>6. \A j \in Jobs : src'[j] \in [Years -> Releases \cup {Absent}]
      BY <3>3 DEF NoDB
    <3>7. crashes' \in 0..MaxCrashes
      <4>1. crashes \in 0..MaxCrashes /\ crashes < MaxCrashes /\ crashes' = crashes + 1
        BY <2>3 DEF Crash, TypeOK
      <4> QED
        BY <4>1, Bounds
    <3>8. stranded' \in BOOLEAN /\ up' \in BOOLEAN
      BY <2>3 DEF Crash
    <3>9. lock' \in Jobs \cup {Nobody}
      BY <2>3 DEF Crash
    <3> QED
      BY <2>3, <3>1, <3>2, <3>3, <3>4, <3>5, <3>6, <3>7, <3>8,
         <3>9, <3>10, <3>11
      DEF Crash, TypeOK
  <2>4. CASE Boot
    BY <2>4 DEF Boot, Interrupted, TypeOK, Statuses, Terminal, Reports
  <2>5. CASE BootUnreconciled
    BY <2>5, FaultType DEF BootUnreconciled, TypeOK
  <2>6. CASE UNCHANGED vars
    BY <2>6 DEF vars, TypeOK
  <2> QED
    BY <2>1, <2>2, <2>3, <2>4, <2>5, <2>6, <2>7, <2>8, <2>9 DEF Next
<1> QED
  BY <1>1, <1>2, PTL DEF Spec

-----------------------------------------------------------------------------
(* What a request and what a step of a worker may touch                    *)

\* A request is accepted by the one that has the import lock: the next job takes the
\* lock over and is left pending, with its worker about to run.
LEMMA AcceptIsFresh ==
    ASSUME NEW j \in Jobs, NEW k, NEW files, NEW work, Accept(j, k, files, work)
    PROVE  /\ pc[j] = "unused" /\ lock = Asking /\ lock' = j
           /\ up /\ up' = up
           /\ pc' = [pc EXCEPT ![j] = "run"]
           /\ status' = [status EXCEPT ![j] = "pending"]
           /\ UNCHANGED <<report, swapped>>
<1>1. pc[j] = "unused"
  BY DEF Accept, NextJob, Jobs
<1> QED
  BY <1>1 DEF Accept, Goto

\* The request handlers change the jobs and the lock only by accepting.
LEMMA RequestAccepts ==
    ASSUME NEW j, Request(j)
    PROVE  \E k, files, work : Accept(j, k, files, work)
BY DEF Request, StartImport, Integrate, Deintegrate

\* Only the worker that is active moves, and it gives the lock back exactly
\* when it is done.
LEMMA WorkFrame ==
    ASSUME NEW j \in Jobs, pc \in [Jobs -> PCs], Work(j) \/ Exception(j)
    PROVE  /\ Active(j) /\ up /\ up' = up
           /\ \A k \in Jobs \ {j} : pc'[k] = pc[k]
           /\ \/ lock' = lock
              \/ lock' = Nobody /\ pc'[j] = "done"
<1> USE DEF Active, BeforeSwap, SwapTail, AfterSwap
<1>1. CASE SetRunning(j)
  BY <1>1 DEF SetRunning, Step, Goto, At
<1>2. CASE Preflight(j)
  BY <1>2 DEF Preflight, Refuse, Step, Goto, At
<1>3. CASE StageAside(j)
  BY <1>3 DEF StageAside, Step, Goto, At
<1>4. CASE StageCopy(j)
  BY <1>4 DEF StageCopy, Step, Goto, At
<1>5. CASE Staged(j)
  BY <1>5 DEF Staged, Step, Goto, At
<1>6. CASE Guard(j)
  BY <1>6 DEF Guard, Refuse, Step, Goto, At
<1>7. CASE Union(j)
  BY <1>7 DEF Union, Refuse, Step, Goto, At
<1>8. CASE Fetch(j)
  BY <1>8 DEF Fetch, Step, Goto, At
<1>9. CASE Fetched(j)
  BY <1>9 DEF Fetched, Step, Goto, At
<1>10. CASE Remove(j)
  BY <1>10 DEF Remove, Refuse, Step, Goto, At
<1>11. CASE Build(j)
  BY <1>11 DEF Build, Step, Goto, At
<1>12. CASE BuildFails(j)
  BY <1>12 DEF BuildFails, Refuse, Step, Goto, At
<1>13. CASE StartChecks(j)
  BY <1>13 DEF StartChecks, Step, Goto, At
<1>14. CASE Verdict(j)
  BY <1>14 DEF Verdict, Refuse, Step, Goto, At
<1>15. CASE MoveLiveAside(j)
  BY <1>15 DEF MoveLiveAside, Step, Goto, At
<1>16. CASE MoveStagingToLive(j)
  BY <1>16 DEF MoveStagingToLive, Step, Goto, At
<1>17. CASE UnlinkPrev(j)
  BY <1>17 DEF UnlinkPrev, Step, Goto, At
<1>18. CASE NoteSwap(j)
  BY <1>18 DEF NoteSwap, Step, Goto, At
<1>19. CASE BumpAndInvalidate(j)
  BY <1>19 DEF BumpAndInvalidate, AfterTail, Step, Goto, At
<1>20. CASE CaveatInstead(j)
  BY <1>20 DEF CaveatInstead, AfterTail, Step, Goto, At
<1>21. CASE SetSwapped(j)
  BY <1>21 DEF SetSwapped, Step, Goto, At
<1>22. CASE RecordProvenance(j)
  BY <1>22 DEF RecordProvenance, AfterProvenance, Step, Goto, At
<1>23. CASE SweepBackups(j)
  BY <1>23 DEF SweepBackups, Step, Goto, At
<1>24. CASE RestoreAll(j)
  BY <1>24 DEF RestoreAll, Step, Goto, At
<1>25. CASE HandleException(j)
  BY <1>25 DEF HandleException, Step, Goto, At
<1>26. CASE Finally(j)
  BY <1>26 DEF Finally, Step, Goto, At
<1>27. CASE Release(j)
  BY <1>27 DEF Release, Step, Goto, At
<1>28. CASE MoveAsideRaises(j)
  BY <1>28 DEF MoveAsideRaises, Goto, At
<1>29. CASE CopyRaises(j)
  BY <1>29 DEF CopyRaises, Goto, At
<1>30. CASE SetSwappedRaises(j)
  BY <1>30 DEF SetSwappedRaises, Goto, At
<1>31. CASE ProvenanceRaises(j)
  BY <1>31 DEF ProvenanceRaises, AfterProvenance, Goto, At
<1>32. CASE RestoreRaises(j)
  BY <1>32 DEF RestoreRaises, Goto, At
<1>33. CASE HandlerRaises(j)
  BY <1>33 DEF HandlerRaises, Goto, At
<1>34. CASE Raises(j)
  BY <1>34 DEF Raises, CaughtAt, Goto, At
<1> QED
  BY <1>1, <1>2, <1>3, <1>4, <1>5, <1>6, <1>7, <1>8, <1>9, <1>10, <1>11,
    <1>12, <1>13, <1>14, <1>15, <1>16, <1>17, <1>18, <1>19, <1>20, <1>21,
    <1>22, <1>23, <1>24, <1>25, <1>26, <1>27, <1>28, <1>29, <1>30, <1>31,
    <1>32, <1>33, <1>34 DEF Work, Exception

\* A job in use stays so.
LEMMA WorkLeavesUsed ==
    ASSUME NEW j \in Jobs, pc \in [Jobs -> PCs], Work(j) \/ Exception(j)
    PROVE  pc'[j] # "unused"
BY DEF Work, Exception, SetRunning, Preflight, StageAside, StageCopy, Staged, Guard, Union,
   Fetch, Fetched, Remove, Build, BuildFails, StartChecks, Verdict, MoveLiveAside,
   MoveStagingToLive, UnlinkPrev, NoteSwap, BumpAndInvalidate, AfterTail, CaveatInstead,
   SetSwapped, RecordProvenance, AfterProvenance, SweepBackups, RestoreAll, HandleException,
   Finally, Release, MoveAsideRaises, CopyRaises, SetSwappedRaises, ProvenanceRaises,
   RestoreRaises, HandlerRaises, Raises, CaughtAt, Refuse, Step, Goto

\* Only giving the lock back ends the worker.
LEMMA OnlyReleaseEnds ==
    ASSUME NEW j \in Jobs, pc \in [Jobs -> PCs], Work(j) \/ Exception(j), pc'[j] = "done"
    PROVE  Release(j)
BY DEF Work, Exception, SetRunning, Preflight, StageAside, StageCopy, Staged, Guard, Union,
   Fetch, Fetched, Remove, Build, BuildFails, StartChecks, Verdict, MoveLiveAside,
   MoveStagingToLive, UnlinkPrev, NoteSwap, BumpAndInvalidate, AfterTail, CaveatInstead,
   SetSwapped, RecordProvenance, AfterProvenance, SweepBackups, RestoreAll, HandleException,
   Finally, MoveAsideRaises, CopyRaises, SetSwappedRaises, ProvenanceRaises,
   RestoreRaises, HandlerRaises, Raises, CaughtAt, Refuse, Step, Goto

\* What a request does beside being accepted.
Endpoint == Acquire \/ RequestRefused \/ RequestLost

\* It touches the lock and the uploads.
LEMMA EndpointFrame ==
    ASSUME TypeOK, Endpoint
    PROVE  /\ lock \in {Nobody, Asking} /\ lock' \in {Nobody, Asking, Lost}
           /\ UNCHANGED <<db, bak, prov, cacheFresh, up, row, worker, dir0, stranded, blind,
                          crashes>>
           /\ faults \in Nat /\ faults' \in Nat /\ faults' >= faults
<1>1. CASE Acquire
  BY <1>1, Bounds DEF Acquire, dirs, hist, bounds, TypeOK
<1>2. CASE RequestRefused
  <2>1. UNCHANGED bounds \/ Fault
    BY <1>2 DEF RequestRefused
  <2>2. faults \in Nat /\ faults' \in Nat /\ faults' >= faults /\ crashes' = crashes
    BY <2>1, Bounds DEF Fault, bounds, TypeOK
  <2> QED
    BY <1>2, <2>2 DEF RequestRefused, hist
<1>3. CASE RequestLost
  BY <1>3, Bounds DEF RequestLost, Fault, TypeOK
<1> QED
  BY <1>1, <1>2, <1>3 DEF Endpoint

\* A thread that does not start ends its job where nothing was done yet.
LEMMA ThreadLostFrame ==
    ASSUME TypeOK, NEW j \in Jobs, ThreadLost(j)
    PROVE  /\ pc[j] = "run" /\ up /\ Active(j) /\ pc' = [pc EXCEPT ![j] = "done"]
           /\ lock' = Lost
           /\ UNCHANGED <<db, dirs, prov, cacheFresh, up, row, swapped, dir0, stranded, blind,
                          crashes>>
           /\ faults \in Nat /\ faults' = faults + 1
           /\ rec'[j] = NoRecord
           /\ \A k \in Jobs \ {j} : rec'[k] = rec[k] /\ src'[k] = src[k] /\ todo'[k] = todo[k]
BY Bounds DEF ThreadLost, At, Goto, Fault, Forget, Active, TypeOK

-----------------------------------------------------------------------------
(* Single flight                                                           *)

\* Nobody works while a request has the lock, or no one.
LEMMA EndpointIdle ==
    ASSUME SingleFlight, lock \in {Nobody, Asking, Lost}
    PROVE  \A i \in Jobs : ~Active(i)
BY NoSuchJob DEF SingleFlight

\* At most one pipeline is active, whatever raises and whenever the process
\* dies.  The invariant is inductive as it stands: an active worker holds the
\* lock, so a request can only be accepted when none is active.
THEOREM OnlyOnePipeline == Spec => []SingleFlight
<1>1. Init => SingleFlight
  BY DEF Init, SingleFlight, Active
<1>2. TypeOK /\ SingleFlight /\ [Next]_vars => SingleFlight'
  <2> SUFFICES ASSUME TypeOK, SingleFlight, [Next]_vars PROVE SingleFlight'
    OBVIOUS
  <2>1. pc \in [Jobs -> PCs] /\ Asking \notin Jobs
    BY NoSuchJob DEF TypeOK
  <2>2. ASSUME NEW j \in Jobs, Request(j) PROVE SingleFlight'
    <3>1. lock = Asking /\ lock' = j /\ pc' = [pc EXCEPT ![j] = "run"]
      BY <2>2, RequestAccepts, AcceptIsFresh
    <3> QED
      BY <2>1, <3>1 DEF SingleFlight, Active
  <2>3. ASSUME NEW j \in Jobs, Work(j) \/ Exception(j) PROVE SingleFlight'
    <3>1. /\ Active(j)
          /\ \A k \in Jobs \ {j} : pc'[k] = pc[k]
          /\ lock' = lock \/ (lock' = Nobody /\ pc'[j] = "done")
      BY <2>1, <2>3, WorkFrame
    <3>2. lock = j /\ \A k \in Jobs \ {j} : ~Active(k)
      BY <3>1 DEF SingleFlight
    <3> QED
      BY <3>1, <3>2 DEF SingleFlight, Active
  <2>4. CASE Endpoint
    BY <2>4, EndpointFrame, EndpointIdle DEF worker, SingleFlight, Active
  <2>9. ASSUME NEW j \in Jobs, ThreadLost(j) PROVE SingleFlight'
    <3>1. \A k \in Jobs \ {j} : ~Active(k)
      BY <2>9, ThreadLostFrame DEF SingleFlight
    <3> QED
      BY <2>1, <2>9, <3>1, ThreadLostFrame DEF SingleFlight, Active
  <2>5. CASE Crash
    BY <2>5 DEF Crash, SingleFlight, Active
  <2>6. CASE Boot
    BY <2>6 DEF Boot, worker, SingleFlight, Active
  <2>7. CASE BootUnreconciled
    BY <2>7 DEF BootUnreconciled, worker, SingleFlight, Active
  <2>8. CASE UNCHANGED vars
    BY <2>8 DEF vars, worker, SingleFlight, Active
  <2> QED
    BY <2>2, <2>3, <2>4, <2>5, <2>6, <2>7, <2>8, <2>9 DEF Next, Endpoint
<1> QED
  BY <1>1, <1>2, TypeCorrect, PTL DEF Spec

-----------------------------------------------------------------------------
(* A live dataset is not reported as failed                                *)

\* The strengthening: before the rename nothing is swapped and nothing has
\* failed, and a job that is both failed and swapped was marked by a boot.
SwapOrder ==
    /\ \A j \in Jobs : pc[j] \in BeforeSwap \cup {"copy", "unused"}
                          => ~swapped[j] /\ status[j] # "failed"
    /\ \A j \in Jobs : pc[j] = "unused" => status[j] = "none"
    /\ \A j \in Jobs : swapped[j] /\ status[j] = "failed"
                          => report[j] = "interrupted" /\ pc[j] = "done"

\* While the process is down no worker runs.
DownMeansDone == ~up => \A j \in Jobs : pc[j] \in {"unused", "done"}

Arrays ==
    /\ pc \in [Jobs -> PCs] /\ status \in [Jobs -> Statuses]
    /\ report \in [Jobs -> Reports] /\ swapped \in [Jobs -> BOOLEAN]

\* A request handler's step keeps the order of the swap: a new job is pending and
\* has swapped nothing.
LEMMA RequestKeepsOrder ==
    ASSUME Arrays, SwapOrder, NEW j \in Jobs, Request(j)
    PROVE  SwapOrder'
<1>1. /\ pc[j] = "unused"
      /\ pc' = [pc EXCEPT ![j] = "run"]
      /\ status' = [status EXCEPT ![j] = "pending"]
      /\ UNCHANGED <<report, swapped>>
  BY RequestAccepts, AcceptIsFresh
<1> QED
  BY <1>1 DEF Arrays, SwapOrder, BeforeSwap

\* A refusal keeps the order of the swap: only a job that has not swapped refuses.
LEMMA RefuseKeepsOrder ==
    ASSUME Arrays, SwapOrder, NEW j \in Jobs, pc[j] \in BeforeSwap, Refuse(j),
           UNCHANGED swapped
    PROVE  SwapOrder'
<1>1. status' = [status EXCEPT ![j] = "failed"]
  BY DEF Refuse, SetStatus
<1>2. /\ report' = [report EXCEPT ![j] = "refused"]
      /\ pc' = [pc EXCEPT ![j] = IF kind[j] = "upload" THEN "restore" ELSE "finally"]
  BY DEF Refuse, SetStatus, Step, Goto
<1>3. ~swapped[j]
  BY DEF SwapOrder
<1> QED
  BY <1>1, <1>2, <1>3 DEF Arrays, SwapOrder, BeforeSwap

\* A step of the worker, or an exception in it, keeps the order of the swap: no
\* path leads from the second rename to the write of 'failed'.
LEMMA WorkKeepsOrder ==
    ASSUME Arrays, SwapOrder, NEW j \in Jobs, Work(j) \/ Exception(j)
    PROVE  SwapOrder'
<1> USE DEF Arrays, SwapOrder, BeforeSwap, SwapTail, AfterSwap
<1>1. CASE SetRunning(j)
  BY <1>1 DEF SetRunning, Step, Goto, At, row
<1>2. CASE Preflight(j)
  <2>1. CASE Refuse(j)
    BY <1>2, <2>1, RefuseKeepsOrder DEF Preflight, At
  <2>2. CASE Step(j, "stage") /\ UNCHANGED row
    BY <1>2, <2>2 DEF Preflight, Step, Goto, At, row
  <2> QED
    BY <1>2, <2>1, <2>2 DEF Preflight
<1>3. CASE StageAside(j)
  BY <1>3 DEF StageAside, Step, Goto, At, row
<1>4. CASE StageCopy(j)
  BY <1>4 DEF StageCopy, Step, Goto, At, row
<1>5. CASE Staged(j)
  BY <1>5 DEF Staged, Step, Goto, At, row
<1>6. CASE Guard(j)
  <2>1. CASE Refuse(j)
    BY <1>6, <2>1, RefuseKeepsOrder DEF Guard, At
  <2>2. CASE Goto(j, "build") /\ UNCHANGED row
    BY <1>6, <2>2 DEF Guard, Goto, At, row
  <2> QED
    BY <1>6, <2>1, <2>2 DEF Guard, Step
<1>7. CASE Union(j)
  <2>1. CASE Refuse(j)
    BY <1>7, <2>1, RefuseKeepsOrder DEF Union, At
  <2>2. CASE Step(j, "fetch") /\ UNCHANGED row
    BY <1>7, <2>2 DEF Union, Step, Goto, At, row
  <2> QED
    BY <1>7, <2>1, <2>2 DEF Union
<1>8. CASE Fetch(j)
  BY <1>8 DEF Fetch, Step, Goto, At, row
<1>9. CASE Fetched(j)
  BY <1>9 DEF Fetched, Step, Goto, At, row
<1>10. CASE Remove(j)
  <2>1. CASE Refuse(j)
    BY <1>10, <2>1, RefuseKeepsOrder DEF Remove, At
  <2>2. CASE Step(j, "check") /\ UNCHANGED row
    BY <1>10, <2>2 DEF Remove, Step, Goto, At, row
  <2> QED
    BY <1>10, <2>1, <2>2 DEF Remove
<1>11. CASE Build(j)
  BY <1>11 DEF Build, Step, Goto, At, row
<1>12. CASE BuildFails(j)
  BY <1>12 DEF BuildFails, Refuse, SetStatus, Step, Goto, At, row
<1>13. CASE StartChecks(j)
  BY <1>13 DEF StartChecks, Step, Goto, At, row
<1>14. CASE Verdict(j)
  <2>1. CASE Refuse(j)
    BY <1>14, <2>1, RefuseKeepsOrder DEF Verdict, At
  <2>2. CASE Step(j, "aside") /\ UNCHANGED row
    BY <1>14, <2>2 DEF Verdict, Step, Goto, At, row
  <2> QED
    BY <1>14, <2>1, <2>2 DEF Verdict
<1>15. CASE MoveLiveAside(j)
  BY <1>15 DEF MoveLiveAside, Step, Goto, At, row
<1>16. CASE MoveStagingToLive(j)
  BY <1>16 DEF MoveStagingToLive, Step, Goto, At, row
<1>17. CASE UnlinkPrev(j)
  BY <1>17 DEF UnlinkPrev, Step, Goto, At, row
<1>18. CASE NoteSwap(j)
  BY <1>18 DEF NoteSwap, Step, Goto, At, row
<1>19. CASE BumpAndInvalidate(j)
  BY <1>19 DEF BumpAndInvalidate, AfterTail, Step, Goto, At, row
<1>20. CASE CaveatInstead(j)
  BY <1>20 DEF CaveatInstead, AfterTail, Step, Goto, At, row
<1>21. CASE SetSwapped(j)
  BY <1>21 DEF SetSwapped, SetStatus, Step, Goto, At, row
<1>22. CASE RecordProvenance(j)
  BY <1>22 DEF RecordProvenance, AfterProvenance, Step, Goto, At, row
<1>23. CASE SweepBackups(j)
  BY <1>23 DEF SweepBackups, Step, Goto, At, row
<1>24. CASE RestoreAll(j)
  BY <1>24 DEF RestoreAll, Step, Goto, At, row
<1>25. CASE HandleException(j)
  BY <1>25 DEF HandleException, SayWhatHappened, Warned, SetStatus, Step,
    Goto, At, row
<1>26. CASE Finally(j)
  BY <1>26 DEF Finally, Step, Goto, At, row
<1>27. CASE Release(j)
  BY <1>27 DEF Release, Step, Goto, At, row
<1>28. CASE MoveAsideRaises(j)
  BY <1>28 DEF MoveAsideRaises, Goto, At, Fault, row
<1>29. CASE CopyRaises(j)
  BY <1>29 DEF CopyRaises, Goto, At, Fault, row
<1>30. CASE SetSwappedRaises(j)
  BY <1>30 DEF SetSwappedRaises, Warned, Goto, At, Fault, row
<1>31. CASE ProvenanceRaises(j)
  BY <1>31 DEF ProvenanceRaises, AfterProvenance, Warned, Goto, At, Fault, row
<1>32. CASE RestoreRaises(j)
  BY <1>32 DEF RestoreRaises, Goto, At, Fault, row
<1>33. CASE HandlerRaises(j)
  BY <1>33 DEF HandlerRaises, Goto, At, Fault, row
<1>34. CASE Raises(j)
  BY <1>34 DEF Raises, CaughtAt, Goto, At, Fault, row
<1> QED
  BY <1>1, <1>2, <1>3, <1>4, <1>5, <1>6, <1>7, <1>8, <1>9, <1>10, <1>11,
    <1>12, <1>13, <1>14, <1>15, <1>16, <1>17, <1>18, <1>19, <1>20, <1>21,
    <1>22, <1>23, <1>24, <1>25, <1>26, <1>27, <1>28, <1>29, <1>30, <1>31,
    <1>32, <1>33, <1>34 DEF Work, Exception

\* The order of the swap holds in every reachable state.
LEMMA OrderHolds == Spec => [](SwapOrder /\ DownMeansDone)
<1> DEFINE Inv == SwapOrder /\ DownMeansDone
<1>1. Init => Inv
  BY DEF Init, SwapOrder, DownMeansDone
<1>2. TypeOK /\ Inv /\ [Next]_vars => Inv'
  <2> SUFFICES ASSUME TypeOK, Inv, [Next]_vars PROVE Inv'
    OBVIOUS
  <2>1. Arrays
    BY DEF Arrays, TypeOK
  <2>2. ASSUME NEW j \in Jobs, Request(j) \/ Work(j) \/ Exception(j) PROVE Inv'
    <3>1. SwapOrder'
      BY <2>1, <2>2, RequestKeepsOrder, WorkKeepsOrder
    <3>2. up'
      BY <2>1, <2>2, RequestAccepts, AcceptIsFresh, WorkFrame DEF Arrays
    <3> QED
      BY <3>1, <3>2 DEF DownMeansDone
  <2>3. CASE Endpoint
    BY <2>3, EndpointFrame DEF row, worker, SwapOrder, DownMeansDone
  <2>8. ASSUME NEW j \in Jobs, ThreadLost(j) PROVE Inv'
    <3>1. /\ pc[j] = "run" /\ pc' = [pc EXCEPT ![j] = "done"] /\ up' = up /\ up
          /\ UNCHANGED <<status, report, swapped>> /\ pc \in [Jobs -> PCs]
      BY <2>8, ThreadLostFrame DEF row, TypeOK
    <3> QED
      BY <3>1 DEF SwapOrder, DownMeansDone, BeforeSwap
  <2>4. CASE Crash
    BY <2>1, <2>4 DEF Crash, row, SwapOrder, DownMeansDone, Arrays, BeforeSwap
  <2>5. CASE Boot
    BY <2>1, <2>5 DEF Boot, Interrupted, Terminal, worker, SwapOrder, DownMeansDone, Arrays,
                      BeforeSwap
  <2>6. CASE BootUnreconciled
    BY <2>6 DEF BootUnreconciled, row, worker, SwapOrder, DownMeansDone
  <2>7. CASE UNCHANGED vars
    BY <2>7 DEF vars, row, worker, SwapOrder, DownMeansDone
  <2> QED
    BY <2>2, <2>3, <2>4, <2>5, <2>6, <2>7, <2>8 DEF Next, Endpoint
<1> QED
  BY <1>1, <1>2, TypeCorrect, PTL DEF Spec

\* A job whose files are live is only ever reported as failed by the boot that
\* follows a crash: no exception after the rename reaches a 'failed' write.
THEOREM LiveIsNotFailed == Spec => []FailedIsNotLive
<1>1. SwapOrder => FailedIsNotLive
  BY DEF SwapOrder, FailedIsNotLive
<1> QED
  BY <1>1, OrderHolds, PTL

\* For any number of jobs, years, failures and deaths: one pipeline at a time, and
\* none that calls a database failed which is live.
THEOREM HonestJobs == Spec => []OneHonestJob
BY OnlyOnePipeline, LiveIsNotFailed, PTL DEF OneHonestJob

-----------------------------------------------------------------------------
(* The files of a job                                                      *)

\* Where a pipeline is says which it is, and whether its files are live.
RightKind(j) ==
    /\ pc[j] = "unused" => kind[j] = "none"
    /\ Active(j) => kind[j] \in Kinds
    /\ pc[j] \in {"preflight", "stage", "copy", "guard", "restore", "sweep"} => kind[j] = "upload"
    /\ pc[j] \in {"union", "fetch"} => kind[j] = "integrate"
    /\ pc[j] = "remove" => kind[j] = "remove"
    /\ pc[j] \in SwapTail \cup AfterSwap \cup {"sweep"} => swapped[j]
    /\ pc[j] = "except" => faults > 0

\* What is recorded of a target before it is copied to: nothing while it waits, and
\* one at a time is under way.
Recording(j) ==
    /\ kind[j] # "upload" \/ Aliased => rec[j] = NoRecord
    /\ pc[j] \in {"unused", "run", "preflight"} => rec[j] = NoRecord
    /\ pc[j] = "stage" => \A y \in todo[j] : rec[j][y] = "none"
    /\ pc[j] = "copy" => \E x \in todo[j] :
          /\ rec[j][x] = "new" \/ (rec[j][x] = "moved" /\ bak[x] # Absent)
          /\ \A y \in todo[j] \ {x} : rec[j][y] = "none"

\* A target can be put back from its record.
Trackable(j, y) ==
    /\ rec[j][y] \in {"none", "kept"} => dataDir[y] = dir0[y]
    /\ rec[j][y] = "new" => dir0[y] = Absent
    /\ rec[j][y] = "moved" /\ ~swapped[j] =>
          IF bak[y] = Absent THEN dataDir[y] = dir0[y] ELSE bak[y] = dir0[y]

Tracked(j) ==
    Active(j) =>
        /\ \A y \in Years : Trackable(j, y)
        /\ pc[j] \in {"finally", "release"} /\ ~swapped[j] /\ faults < 2 => dataDir = dir0

Ready == {"check", "verdict", "aside", "promote"}

\* What is about to be swapped in, and what has been, is the directory of an upload.
BuiltFrom(j) ==
    Active(j) /\ kind[j] = "upload" =>
        /\ pc[j] \in Ready => staging = dataDir
        /\ swapped[j] => dataDir = live

\* The files of every job.
FilesInv ==
    \A j \in Jobs : RightKind(j) /\ Recording(j) /\ Tracked(j) /\ BuiltFrom(j)

\* A step of the worker of a job leaves the other jobs alone, and every kind as it is.
LEMMA OthersKept ==
    ASSUME TypeOK, NEW j \in Jobs, Work(j) \/ Exception(j)
    PROVE  /\ kind' = kind /\ dir0' = dir0
           /\ \A k \in Jobs \ {j} :
                 /\ rec'[k] = rec[k] /\ todo'[k] = todo[k] /\ src'[k] = src[k]
                 /\ swapped'[k] = swapped[k] /\ status'[k] = status[k] /\ report'[k] = report[k]
<1> USE DEF row, worker, hist
<1>0. /\ status \in [Jobs -> Statuses] /\ report \in [Jobs -> Reports]
      /\ swapped \in [Jobs -> BOOLEAN] /\ src \in [Jobs -> Dir]
      /\ todo \in [Jobs -> SUBSET Years] /\ rec \in [Jobs -> [Years -> Records]]
  BY DEF TypeOK
<1>1. CASE SetRunning(j)
  BY <1>1, <1>0 DEF SetRunning, Step, Goto, At, Fault
<1>2. CASE Preflight(j)
  BY <1>2, <1>0 DEF Preflight, Refuse, SetStatus, Step, Goto, At, Fault
<1>3. CASE StageAside(j)
  BY <1>3, <1>0 DEF StageAside, Step, Goto, At, Fault
<1>4. CASE StageCopy(j)
  BY <1>4, <1>0 DEF StageCopy, Step, Goto, At, Fault
<1>5. CASE Staged(j)
  BY <1>5, <1>0 DEF Staged, Step, Goto, At, Fault
<1>6. CASE Guard(j)
  BY <1>6, <1>0 DEF Guard, Refuse, SetStatus, Step, Goto, At, Fault
<1>7. CASE Union(j)
  BY <1>7, <1>0 DEF Union, Refuse, SetStatus, Step, Goto, At, Fault
<1>8. CASE Fetch(j)
  BY <1>8, <1>0 DEF Fetch, Step, Goto, At, Fault
<1>9. CASE Fetched(j)
  BY <1>9, <1>0 DEF Fetched, Step, Goto, At, Fault
<1>10. CASE Remove(j)
  BY <1>10, <1>0 DEF Remove, Refuse, SetStatus, Step, Goto, At, Fault
<1>11. CASE Build(j)
  BY <1>11, <1>0 DEF Build, Step, Goto, At, Fault
<1>12. CASE BuildFails(j)
  BY <1>12, <1>0 DEF BuildFails, Refuse, SetStatus, Step, Goto, At, Fault
<1>13. CASE StartChecks(j)
  BY <1>13, <1>0 DEF StartChecks, Step, Goto, At, Fault
<1>14. CASE Verdict(j)
  BY <1>14, <1>0 DEF Verdict, Refuse, SetStatus, Step, Goto, At, Fault
<1>15. CASE MoveLiveAside(j)
  BY <1>15, <1>0 DEF MoveLiveAside, Step, Goto, At, Fault
<1>16. CASE MoveStagingToLive(j)
  BY <1>16, <1>0 DEF MoveStagingToLive, Step, Goto, At, Fault
<1>17. CASE UnlinkPrev(j)
  BY <1>17, <1>0 DEF UnlinkPrev, Step, Goto, At, Fault
<1>18. CASE NoteSwap(j)
  BY <1>18, <1>0 DEF NoteSwap, Step, Goto, At, Fault
<1>19. CASE BumpAndInvalidate(j)
  BY <1>19, <1>0 DEF BumpAndInvalidate, AfterTail, Step, Goto, At, Fault
<1>20. CASE CaveatInstead(j)
  BY <1>20, <1>0 DEF CaveatInstead, AfterTail, Step, Goto, At, Fault
<1>21. CASE SetSwapped(j)
  BY <1>21, <1>0 DEF SetSwapped, SetStatus, Step, Goto, At, Fault
<1>22. CASE RecordProvenance(j)
  BY <1>22, <1>0 DEF RecordProvenance, AfterProvenance, Step, Goto, At, Fault
<1>23. CASE SweepBackups(j)
  BY <1>23, <1>0 DEF SweepBackups, Step, Goto, At, Fault
<1>24. CASE RestoreAll(j)
  BY <1>24, <1>0 DEF RestoreAll, Step, Goto, At, Fault
<1>25. CASE HandleException(j)
  BY <1>25, <1>0 DEF HandleException, SayWhatHappened, Warned, SetStatus, Step, Goto, At,
      Fault
<1>26. CASE Finally(j)
  BY <1>26, <1>0 DEF Finally, UnlinkUploads, Uploaded, Step, Goto, At, Fault
<1>27. CASE Release(j)
  BY <1>27, <1>0 DEF Release, Forget, Step, Goto, At, Fault
<1>28. CASE MoveAsideRaises(j)
  BY <1>28, <1>0 DEF MoveAsideRaises, Step, Goto, At, Fault
<1>29. CASE CopyRaises(j)
  BY <1>29, <1>0 DEF CopyRaises, Step, Goto, At, Fault
<1>30. CASE SetSwappedRaises(j)
  BY <1>30, <1>0 DEF SetSwappedRaises, Warned, Step, Goto, At, Fault
<1>31. CASE ProvenanceRaises(j)
  BY <1>31, <1>0 DEF ProvenanceRaises, AfterProvenance, Warned, Step, Goto, At, Fault
<1>32. CASE RestoreRaises(j)
  BY <1>32, <1>0 DEF RestoreRaises, Step, Goto, At, Fault
<1>33. CASE HandlerRaises(j)
  BY <1>33, <1>0 DEF HandlerRaises, Step, Goto, At, Fault
<1>34. CASE Raises(j)
  BY <1>34, <1>0 DEF Raises, CaughtAt, Step, Goto, At, Fault
<1> QED
  BY <1>1, <1>2, <1>3, <1>4, <1>5, <1>6, <1>7, <1>8, <1>9, <1>10, <1>11, <1>12, <1>13,
    <1>14, <1>15, <1>16, <1>17, <1>18, <1>19, <1>20, <1>21, <1>22, <1>23, <1>24, <1>25,
    <1>26, <1>27, <1>28, <1>29, <1>30, <1>31, <1>32, <1>33, <1>34 DEF Work, Exception

\* The place of a worker goes with its kind.
LEMMA KindStep ==
    ASSUME TypeOK, NEW j \in Jobs, RightKind(j), Work(j) \/ Exception(j)
    PROVE  RightKind(j)'
<1> USE DEF row, RightKind, Active, BeforeSwap, SwapTail, AfterSwap, Kinds, bounds
<1>0. /\ pc \in [Jobs -> PCs] /\ swapped \in [Jobs -> BOOLEAN] /\ faults \in Nat /\ kind' = kind
  BY Bounds, OthersKept DEF TypeOK
<1>1. CASE SetRunning(j)
  BY <1>1, <1>0 DEF SetRunning, Step, Goto, At, Fault
<1>2. CASE Preflight(j)
  BY <1>2, <1>0 DEF Preflight, Refuse, SetStatus, Step, Goto, At, Fault
<1>3. CASE StageAside(j)
  BY <1>3, <1>0 DEF StageAside, Step, Goto, At, Fault
<1>4. CASE StageCopy(j)
  BY <1>4, <1>0 DEF StageCopy, Step, Goto, At, Fault
<1>5. CASE Staged(j)
  BY <1>5, <1>0 DEF Staged, Step, Goto, At, Fault
<1>6. CASE Guard(j)
  BY <1>6, <1>0 DEF Guard, Refuse, SetStatus, Step, Goto, At, Fault
<1>7. CASE Union(j)
  BY <1>7, <1>0 DEF Union, Refuse, SetStatus, Step, Goto, At, Fault
<1>8. CASE Fetch(j)
  BY <1>8, <1>0 DEF Fetch, Step, Goto, At, Fault
<1>9. CASE Fetched(j)
  BY <1>9, <1>0 DEF Fetched, Step, Goto, At, Fault
<1>10. CASE Remove(j)
  BY <1>10, <1>0 DEF Remove, Refuse, SetStatus, Step, Goto, At, Fault
<1>11. CASE Build(j)
  BY <1>11, <1>0 DEF Build, Step, Goto, At, Fault
<1>12. CASE BuildFails(j)
  BY <1>12, <1>0 DEF BuildFails, Refuse, SetStatus, Step, Goto, At, Fault
<1>13. CASE StartChecks(j)
  BY <1>13, <1>0 DEF StartChecks, Step, Goto, At, Fault
<1>14. CASE Verdict(j)
  BY <1>14, <1>0 DEF Verdict, Refuse, SetStatus, Step, Goto, At, Fault
<1>15. CASE MoveLiveAside(j)
  BY <1>15, <1>0 DEF MoveLiveAside, Step, Goto, At, Fault
<1>16. CASE MoveStagingToLive(j)
  BY <1>16, <1>0 DEF MoveStagingToLive, Step, Goto, At, Fault
<1>17. CASE UnlinkPrev(j)
  BY <1>17, <1>0 DEF UnlinkPrev, Step, Goto, At, Fault
<1>18. CASE NoteSwap(j)
  BY <1>18, <1>0 DEF NoteSwap, Step, Goto, At, Fault
<1>19. CASE BumpAndInvalidate(j)
  BY <1>19, <1>0 DEF BumpAndInvalidate, AfterTail, Step, Goto, At, Fault
<1>20. CASE CaveatInstead(j)
  BY <1>20, <1>0 DEF CaveatInstead, AfterTail, Step, Goto, At, Fault
<1>21. CASE SetSwapped(j)
  BY <1>21, <1>0 DEF SetSwapped, SetStatus, Step, Goto, At, Fault
<1>22. CASE RecordProvenance(j)
  BY <1>22, <1>0 DEF RecordProvenance, AfterProvenance, Step, Goto, At, Fault
<1>23. CASE SweepBackups(j)
  BY <1>23, <1>0 DEF SweepBackups, Step, Goto, At, Fault
<1>24. CASE RestoreAll(j)
  BY <1>24, <1>0 DEF RestoreAll, Step, Goto, At, Fault
<1>25. CASE HandleException(j)
  BY <1>25, <1>0 DEF HandleException, SayWhatHappened, Warned, SetStatus, Step, Goto, At,
      Fault
<1>26. CASE Finally(j)
  BY <1>26, <1>0 DEF Finally, UnlinkUploads, Uploaded, Step, Goto, At, Fault
<1>27. CASE Release(j)
  BY <1>27, <1>0 DEF Release, Forget, Step, Goto, At, Fault
<1>28. CASE MoveAsideRaises(j)
  BY <1>28, <1>0 DEF MoveAsideRaises, Step, Goto, At, Fault
<1>29. CASE CopyRaises(j)
  BY <1>29, <1>0 DEF CopyRaises, Step, Goto, At, Fault
<1>30. CASE SetSwappedRaises(j)
  BY <1>30, <1>0 DEF SetSwappedRaises, Warned, Step, Goto, At, Fault
<1>31. CASE ProvenanceRaises(j)
  BY <1>31, <1>0 DEF ProvenanceRaises, AfterProvenance, Warned, Step, Goto, At, Fault
<1>32. CASE RestoreRaises(j)
  BY <1>32, <1>0 DEF RestoreRaises, Step, Goto, At, Fault
<1>33. CASE HandlerRaises(j)
  BY <1>33, <1>0 DEF HandlerRaises, Step, Goto, At, Fault
<1>34. CASE Raises(j)
  BY <1>34, <1>0 DEF Raises, CaughtAt, Step, Goto, At, Fault
<1> QED
  BY <1>1, <1>2, <1>3, <1>4, <1>5, <1>6, <1>7, <1>8, <1>9, <1>10, <1>11, <1>12, <1>13,
    <1>14, <1>15, <1>16, <1>17, <1>18, <1>19, <1>20, <1>21, <1>22, <1>23, <1>24, <1>25,
    <1>26, <1>27, <1>28, <1>29, <1>30, <1>31, <1>32, <1>33, <1>34 DEF Work, Exception

\* Staging a target records it, and sets aside what was there.
LEMMA AsideEffect ==
    ASSUME TypeOK, NEW j \in Jobs, StageAside(j)
    PROVE  \E y \in todo[j] :
              /\ y \in Years
              /\ \A z \in Years \ {y} : /\ rec'[j][z] = rec[j][z] /\ bak'[z] = bak[z]
                                        /\ dataDir'[z] = dataDir[z]
              /\ \/ dataDir[y] # Absent /\ rec'[j][y] = "moved" /\ bak'[y] = dataDir[y]
                 \/ dataDir[y] = Absent /\ rec'[j][y] = "new" /\ bak' = bak /\ dataDir' = dataDir
<1>1. PICK y \in todo[j] :
        IF dataDir[y] # Absent
          THEN /\ rec' = [rec EXCEPT ![j][y] = "moved"]
               /\ bak' = [bak EXCEPT ![y] = dataDir[y]]
               /\ dataDir' = [dataDir EXCEPT ![y] = Absent]
          ELSE rec' = [rec EXCEPT ![j][y] = "new"] /\ UNCHANGED <<bak, dataDir>>
  BY DEF StageAside
<1>2. y \in Years /\ bak \in [Years -> File] /\ dataDir \in [Years -> File]
      /\ rec \in [Jobs -> [Years -> Records]]
  BY <1>1 DEF TypeOK, Dir
<1>3. CASE dataDir[y] # Absent
  BY <1>1, <1>2, <1>3
<1>4. CASE dataDir[y] = Absent
  BY <1>1, <1>2, <1>4
<1> QED BY <1>3, <1>4

\* The one that is being copied.
LEMMA CopyingOne ==
    ASSUME TypeOK, NEW j \in Jobs, pc[j] = "copy", Recording(j), NEW y \in Copying(j)
    PROVE  /\ y \in todo[j] /\ y \in Years
           /\ rec[j][y] = "new" \/ (rec[j][y] = "moved" /\ bak[y] # Absent)
           /\ \A z \in todo[j] \ {y} : rec[j][z] = "none"
BY DEF Copying, Recording, TypeOK

\* A directory whose targets have no record is as it was.
LEMMA AsItWas ==
    ASSUME TypeOK, NEW j \in Jobs, rec[j] = NoRecord, \A y \in Years : Trackable(j, y)
    PROVE  dataDir = dir0
<1>1. \A y \in Years : dataDir[y] = dir0[y]
  BY DEF Trackable, NoRecord
<1> QED BY <1>1 DEF TypeOK, Dir

\* Putting targets back leaves the others as they can be put back, and does nothing once
\* the swap has happened.
LEMMA RestoreTracks ==
    ASSUME TypeOK, NEW j \in Jobs, NEW S \in SUBSET Years, Restore(j, S),
           \A y \in Years : Trackable(j, y), rec' = rec, swapped' = swapped, dir0' = dir0
    PROVE  /\ \A y \in Years : Trackable(j, y)'
           /\ ~swapped[j] /\ S = Years => dataDir' = dir0
           /\ swapped[j] => dataDir' = dataDir
<1>1. CASE swapped[j]
  BY <1>1 DEF Restore, RollbackOff, Trackable
<1>2. CASE ~swapped[j]
  <2>1. /\ dataDir' = [y \in Years |-> IF y \in S THEN Restored(j, y) ELSE dataDir[y]]
        /\ bak' = Without(bak, S \cap Moved(j))
    BY <1>2 DEF Restore, RollbackOff
  <2>2. \A y \in Years : bak'[y] = IF y \in S /\ rec[j][y] = "moved" THEN Absent ELSE bak[y]
    BY <2>1 DEF Without, Moved
  <2>3. rec[j] \in [Years -> Records]
    BY DEF TypeOK
  <2>4. \A y \in Years : y \in S => dataDir'[y] = dir0[y]
    BY <1>2, <2>1, <2>3 DEF Restored, Trackable, Records
  <2>5. \A y \in Years : y \notin S => dataDir'[y] = dataDir[y]
    BY <2>1
  <2>6. \A y \in Years : Trackable(j, y)'
    BY <1>2, <2>2, <2>3, <2>4, <2>5 DEF Trackable
  <2>7. S = Years => dataDir' = dir0
    BY <2>1, <2>4 DEF TypeOK, Dir
  <2> QED BY <1>2, <2>6, <2>7
<1> QED BY <1>1, <1>2

\* The clean-up of uploads spares the loader's directory.
LEMMA FinallyKeeps ==
    ASSUME TypeOK, NEW j \in Jobs, Finally(j)
    PROVE  dataDir' = dataDir /\ (Aliased \/ kind[j] # "upload" => uploads' = uploads)
<1>1. \A d \in Dir : Overlay(d, NoDB, {}) = d
  BY DEF Overlay, Dir
<1>2. PICK kept \in SUBSET Discardable(j) : UnlinkUploads(Discardable(j) \ kept)
  BY DEF Finally
<1>3. Aliased \/ kind[j] # "upload" => Discardable(j) \ kept = {}
  BY <1>2 DEF Discardable
<1> QED BY <1>1, <1>2, <1>3 DEF UnlinkUploads, Uploaded, TypeOK

\* A target is recorded before it is touched, one at a time.
LEMMA RecordStep ==
    ASSUME TypeOK, NEW j \in Jobs, RightKind(j), Recording(j), Work(j) \/ Exception(j)
    PROVE  Recording(j)'
<1> USE DEF row, Recording, dirs
<1>0. /\ pc \in [Jobs -> PCs] /\ kind' = kind /\ rec \in [Jobs -> [Years -> Records]]
      /\ todo \in [Jobs -> SUBSET Years] /\ bak \in Dir
  BY OthersKept DEF TypeOK
<1>1. CASE SetRunning(j)
  BY <1>1, <1>0 DEF SetRunning, Step, Goto, At, Fault, RightKind, AfterSwap, SwapTail,
      NoRecord
<1>2. CASE Preflight(j)
  BY <1>2, <1>0 DEF Preflight, Refuse, SetStatus, Step, Goto, At, Fault, RightKind,
      AfterSwap, SwapTail, NoRecord
<1>3. CASE StageAside(j)
  <2>1. PICK y \in todo[j] :
              /\ y \in Years
              /\ \A z \in Years \ {y} : /\ rec'[j][z] = rec[j][z] /\ bak'[z] = bak[z]
                                        /\ dataDir'[z] = dataDir[z]
              /\ \/ dataDir[y] # Absent /\ rec'[j][y] = "moved" /\ bak'[y] = dataDir[y]
                 \/ dataDir[y] = Absent /\ rec'[j][y] = "new" /\ bak' = bak /\ dataDir' = dataDir
    BY <1>3, AsideEffect
  <2>2. /\ pc'[j] = "copy" /\ todo' = todo /\ kind[j] = "upload" /\ ~Aliased
        /\ \A z \in todo[j] : z \in Years /\ rec[j][z] = "none"
    BY <1>3, <1>0 DEF StageAside, Step, Goto, At, RightKind
  <2>3. rec'[j][y] = "new" \/ (rec'[j][y] = "moved" /\ bak'[y] # Absent)
    BY <2>1
  <2>4. \A z \in todo[j] \ {y} : rec'[j][z] = "none"
    BY <2>1, <2>2
  <2> QED BY <1>0, <2>2, <2>3, <2>4
<1>4. CASE StageCopy(j)
  <2>1. PICK y \in Copying(j) : todo' = [todo EXCEPT ![j] = @ \ {y}]
    BY <1>4 DEF StageCopy
  <2> QED BY <1>4, <1>0, <2>1, CopyingOne DEF StageCopy, Step, Goto, At, RightKind
<1>5. CASE Staged(j)
  BY <1>5, <1>0 DEF Staged, Step, Goto, At, Fault, RightKind, AfterSwap, SwapTail, NoRecord
<1>6. CASE Guard(j)
  BY <1>6, <1>0 DEF Guard, Refuse, SetStatus, Step, Goto, At, Fault, RightKind, AfterSwap,
      SwapTail, NoRecord
<1>7. CASE Union(j)
  BY <1>7, <1>0 DEF Union, Refuse, SetStatus, Step, Goto, At, Fault, RightKind, AfterSwap,
      SwapTail, NoRecord
<1>8. CASE Fetch(j)
  BY <1>8, <1>0 DEF Fetch, Step, Goto, At, Fault, RightKind, AfterSwap, SwapTail, NoRecord
<1>9. CASE Fetched(j)
  BY <1>9, <1>0 DEF Fetched, Step, Goto, At, Fault, RightKind, AfterSwap, SwapTail, NoRecord
<1>10. CASE Remove(j)
  BY <1>10, <1>0 DEF Remove, Refuse, SetStatus, Step, Goto, At, Fault, RightKind, AfterSwap,
      SwapTail, NoRecord
<1>11. CASE Build(j)
  BY <1>11, <1>0 DEF Build, Step, Goto, At, Fault, RightKind, AfterSwap, SwapTail, NoRecord
<1>12. CASE BuildFails(j)
  BY <1>12, <1>0 DEF BuildFails, Refuse, SetStatus, Step, Goto, At, Fault, RightKind,
      AfterSwap, SwapTail, NoRecord
<1>13. CASE StartChecks(j)
  BY <1>13, <1>0 DEF StartChecks, Step, Goto, At, Fault, RightKind, AfterSwap, SwapTail,
      NoRecord
<1>14. CASE Verdict(j)
  BY <1>14, <1>0 DEF Verdict, Refuse, SetStatus, Step, Goto, At, Fault, RightKind,
      AfterSwap, SwapTail, NoRecord
<1>15. CASE MoveLiveAside(j)
  BY <1>15, <1>0 DEF MoveLiveAside, Step, Goto, At, Fault, RightKind, AfterSwap, SwapTail,
      NoRecord
<1>16. CASE MoveStagingToLive(j)
  BY <1>16, <1>0 DEF MoveStagingToLive, Step, Goto, At, Fault, RightKind, AfterSwap,
      SwapTail, NoRecord
<1>17. CASE UnlinkPrev(j)
  BY <1>17, <1>0 DEF UnlinkPrev, Step, Goto, At, Fault, RightKind, AfterSwap, SwapTail,
      NoRecord
<1>18. CASE NoteSwap(j)
  BY <1>18, <1>0 DEF NoteSwap, Step, Goto, At, Fault, RightKind, AfterSwap, SwapTail,
      NoRecord
<1>19. CASE BumpAndInvalidate(j)
  BY <1>19, <1>0 DEF BumpAndInvalidate, AfterTail, Step, Goto, At, Fault, RightKind,
      AfterSwap, SwapTail, NoRecord
<1>20. CASE CaveatInstead(j)
  BY <1>20, <1>0 DEF CaveatInstead, AfterTail, Step, Goto, At, Fault, RightKind, AfterSwap,
      SwapTail, NoRecord
<1>21. CASE SetSwapped(j)
  BY <1>21, <1>0 DEF SetSwapped, SetStatus, Step, Goto, At, Fault, RightKind, AfterSwap,
      SwapTail, NoRecord
<1>22. CASE RecordProvenance(j)
  BY <1>22, <1>0 DEF RecordProvenance, AfterProvenance, Step, Goto, At, Fault, RightKind,
      AfterSwap, SwapTail, NoRecord
<1>23. CASE SweepBackups(j)
  BY <1>23, <1>0 DEF SweepBackups, Step, Goto, At, Fault, RightKind, AfterSwap, SwapTail,
      NoRecord
<1>24. CASE RestoreAll(j)
  BY <1>24, <1>0 DEF RestoreAll, Step, Goto, At, Fault, RightKind, AfterSwap, SwapTail,
      NoRecord
<1>25. CASE HandleException(j)
  BY <1>25, <1>0 DEF HandleException, SayWhatHappened, Warned, SetStatus, Step, Goto, At,
      Fault, RightKind, AfterSwap, SwapTail, NoRecord
<1>26. CASE Finally(j)
  BY <1>26, <1>0 DEF Finally, UnlinkUploads, Uploaded, Step, Goto, At, Fault, RightKind, AfterSwap,
      SwapTail, NoRecord
<1>27. CASE Release(j)
  BY <1>27, <1>0 DEF Release, Forget, Step, Goto, At, Fault, RightKind, AfterSwap, SwapTail,
      NoRecord
<1>28. CASE MoveAsideRaises(j)
  BY <1>28, <1>0 DEF MoveAsideRaises, Step, Goto, At, Fault, RightKind, AfterSwap, SwapTail,
      NoRecord
<1>29. CASE CopyRaises(j)
  BY <1>29, <1>0 DEF CopyRaises, Step, Goto, At, Fault, RightKind, AfterSwap, SwapTail,
      NoRecord
<1>30. CASE SetSwappedRaises(j)
  BY <1>30, <1>0 DEF SetSwappedRaises, Warned, Step, Goto, At, Fault, RightKind, AfterSwap,
      SwapTail, NoRecord
<1>31. CASE ProvenanceRaises(j)
  BY <1>31, <1>0 DEF ProvenanceRaises, AfterProvenance, Warned, Step, Goto, At, Fault,
      RightKind, AfterSwap, SwapTail, NoRecord
<1>32. CASE RestoreRaises(j)
  BY <1>32, <1>0 DEF RestoreRaises, Step, Goto, At, Fault, RightKind, AfterSwap, SwapTail,
      NoRecord
<1>33. CASE HandlerRaises(j)
  BY <1>33, <1>0 DEF HandlerRaises, Step, Goto, At, Fault, RightKind, AfterSwap, SwapTail,
      NoRecord
<1>34. CASE Raises(j)
  BY <1>34, <1>0 DEF Raises, CaughtAt, Step, Goto, At, Fault, RightKind, AfterSwap,
      SwapTail, NoRecord
<1> QED
  BY <1>1, <1>2, <1>3, <1>4, <1>5, <1>6, <1>7, <1>8, <1>9, <1>10, <1>11, <1>12, <1>13,
    <1>14, <1>15, <1>16, <1>17, <1>18, <1>19, <1>20, <1>21, <1>22, <1>23, <1>24, <1>25,
    <1>26, <1>27, <1>28, <1>29, <1>30, <1>31, <1>32, <1>33, <1>34 DEF Work, Exception

\* Whatever fails, each target can still be put back, and is by the time the worker ends.
LEMMA TrackStep ==
    ASSUME TypeOK, NEW j \in Jobs, RightKind(j), Recording(j), Tracked(j), SwapOrder,
           Work(j) \/ Exception(j)
    PROVE  Tracked(j)'
<1> USE DEF row, Tracked, Trackable, dirs, Active, hist, bounds
<1>0. /\ pc \in [Jobs -> PCs] /\ kind' = kind /\ rec \in [Jobs -> [Years -> Records]]
      /\ todo \in [Jobs -> SUBSET Years] /\ bak \in Dir /\ dataDir \in Dir /\ dir0 \in Dir
      /\ dir0' = dir0 /\ swapped \in [Jobs -> BOOLEAN] /\ faults \in Nat
  BY Bounds, OthersKept DEF TypeOK
<1>1. CASE SetRunning(j)
  BY <1>1, <1>0 DEF SetRunning, Step, Goto, At, Fault, RightKind, AfterSwap, SwapTail
<1>2. CASE Preflight(j)
  BY <1>2, <1>0 DEF Preflight, Refuse, SetStatus, Step, Goto, At, Fault, RightKind,
      AfterSwap, SwapTail
<1>3. CASE StageAside(j)
  <2>1. PICK y \in todo[j] :
              /\ y \in Years
              /\ \A z \in Years \ {y} : /\ rec'[j][z] = rec[j][z] /\ bak'[z] = bak[z]
                                        /\ dataDir'[z] = dataDir[z]
              /\ \/ dataDir[y] # Absent /\ rec'[j][y] = "moved" /\ bak'[y] = dataDir[y]
                 \/ dataDir[y] = Absent /\ rec'[j][y] = "new" /\ bak' = bak /\ dataDir' = dataDir
    BY <1>3, AsideEffect
  <2>2. /\ rec[j][y] = "none" /\ \A z \in Years : Trackable(j, z)
        /\ swapped' = swapped /\ pc'[j] = "copy"
    BY <1>3, <1>0, <2>1 DEF StageAside, At, Step, Goto, Recording
  <2>3. Trackable(j, y)'
    BY <1>0, <2>1, <2>2
  <2>4. \A z \in Years \ {y} : Trackable(j, z)'
    BY <1>0, <2>1, <2>2
  <2> QED BY <2>2, <2>3, <2>4
<1>4. CASE StageCopy(j)
  <2>1. PICK y \in Copying(j) : dataDir' = [dataDir EXCEPT ![y] = src[j][y]]
    BY <1>4 DEF StageCopy
  <2>2. /\ y \in Years /\ (rec[j][y] = "new" \/ (rec[j][y] = "moved" /\ bak[y] # Absent))
        /\ rec' = rec /\ bak' = bak /\ swapped' = swapped /\ pc'[j] = "stage"
        /\ \A z \in Years : Trackable(j, z)
    BY <1>4, <1>0, <2>1, CopyingOne DEF StageCopy, At, Step, Goto
  <2>3. \A z \in Years : Trackable(j, z)'
    BY <1>0, <2>1, <2>2 DEF Dir
  <2> QED BY <2>2, <2>3
<1>5. CASE Staged(j)
  BY <1>5, <1>0 DEF Staged, Step, Goto, At, Fault, RightKind, AfterSwap, SwapTail
<1>6. CASE Guard(j)
  BY <1>6, <1>0 DEF Guard, Refuse, SetStatus, Step, Goto, At, Fault, RightKind, AfterSwap,
      SwapTail
<1>7. CASE Union(j)
  <2>1. kind[j] # "upload" => dataDir = dir0
    BY <1>7, AsItWas, <1>0 DEF Union, At, BeforeSwap, RightKind, Recording
  <2> QED BY <1>7, <1>0, <2>1 DEF Union, Refuse, SetStatus, Step, Goto, At
<1>8. CASE Fetch(j)
  BY <1>8, <1>0 DEF Fetch, Step, Goto, At, Fault, RightKind, AfterSwap, SwapTail
<1>9. CASE Fetched(j)
  BY <1>9, <1>0 DEF Fetched, Step, Goto, At, Fault, RightKind, AfterSwap, SwapTail
<1>10. CASE Remove(j)
  <2>1. kind[j] # "upload" => dataDir = dir0
    BY <1>10, AsItWas, <1>0 DEF Remove, At, BeforeSwap, RightKind, Recording
  <2> QED BY <1>10, <1>0, <2>1 DEF Remove, Refuse, SetStatus, Step, Goto, At
<1>11. CASE Build(j)
  BY <1>11, <1>0 DEF Build, Step, Goto, At, Fault, RightKind, AfterSwap, SwapTail
<1>12. CASE BuildFails(j)
  <2>1. kind[j] # "upload" => dataDir = dir0
    BY <1>12, AsItWas, <1>0 DEF BuildFails, At, BeforeSwap, RightKind, Recording
  <2> QED BY <1>12, <1>0, <2>1 DEF BuildFails, Refuse, SetStatus, Step, Goto, At
<1>13. CASE StartChecks(j)
  BY <1>13, <1>0 DEF StartChecks, Step, Goto, At, Fault, RightKind, AfterSwap, SwapTail
<1>14. CASE Verdict(j)
  <2>1. kind[j] # "upload" => dataDir = dir0
    BY <1>14, AsItWas, <1>0 DEF Verdict, At, BeforeSwap, RightKind, Recording
  <2> QED BY <1>14, <1>0, <2>1 DEF Verdict, Refuse, SetStatus, Step, Goto, At
<1>15. CASE MoveLiveAside(j)
  BY <1>15, <1>0 DEF MoveLiveAside, Step, Goto, At, Fault, RightKind, AfterSwap, SwapTail
<1>16. CASE MoveStagingToLive(j)
  BY <1>16, <1>0 DEF MoveStagingToLive, Step, Goto, At, Fault, RightKind, AfterSwap,
      SwapTail
<1>17. CASE UnlinkPrev(j)
  BY <1>17, <1>0 DEF UnlinkPrev, Step, Goto, At, Fault, RightKind, AfterSwap, SwapTail
<1>18. CASE NoteSwap(j)
  BY <1>18, <1>0 DEF NoteSwap, Step, Goto, At, Fault, RightKind, AfterSwap, SwapTail
<1>19. CASE BumpAndInvalidate(j)
  BY <1>19, <1>0 DEF BumpAndInvalidate, AfterTail, Step, Goto, At, Fault, RightKind,
      AfterSwap, SwapTail
<1>20. CASE CaveatInstead(j)
  BY <1>20, <1>0 DEF CaveatInstead, AfterTail, Step, Goto, At, Fault, RightKind, AfterSwap,
      SwapTail
<1>21. CASE SetSwapped(j)
  BY <1>21, <1>0 DEF SetSwapped, SetStatus, Step, Goto, At, Fault, RightKind, AfterSwap,
      SwapTail
<1>22. CASE RecordProvenance(j)
  BY <1>22, <1>0 DEF RecordProvenance, AfterProvenance, Step, Goto, At, Fault, RightKind,
      AfterSwap, SwapTail
<1>23. CASE SweepBackups(j)
  BY <1>23, <1>0 DEF SweepBackups, Step, Goto, At, Fault, RightKind, AfterSwap, SwapTail
<1>24. CASE RestoreAll(j)
  <2>1. Restore(j, Years) /\ rec' = rec /\ swapped' = swapped /\ Active(j)
    BY <1>24 DEF RestoreAll, At
  <2>2. (\A y \in Years : Trackable(j, y)') /\ (~swapped[j] => dataDir' = dir0)
    BY <1>0, <2>1, RestoreTracks
  <2> QED BY <1>24, <1>0, <2>1, <2>2 DEF RestoreAll, Step, Goto
<1>25. CASE HandleException(j)
  <2>1. Restore(j, Years) /\ rec' = rec /\ swapped' = swapped /\ Active(j)
    BY <1>25 DEF HandleException, At
  <2>2. (\A y \in Years : Trackable(j, y)') /\ (~swapped[j] => dataDir' = dir0)
    BY <1>0, <2>1, RestoreTracks
  <2> QED BY <1>25, <1>0, <2>1, <2>2 DEF HandleException, SayWhatHappened, Warned,
        SetStatus, Step, Goto
<1>26. CASE Finally(j)
  <2>1. dataDir' = dataDir /\ UNCHANGED <<bak, rec, swapped>>
    BY <1>26, FinallyKeeps DEF Finally
  <2>2. pc[j] = "finally" /\ pc'[j] = "release"
    BY <1>26, <1>0 DEF Finally, Goto, At
  <2>3. faults' >= faults
    BY <1>26, <1>0 DEF Finally, Fault
  <2>4. faults' < 2 => faults < 2
    BY <1>0, <1>26, <2>3 DEF Finally, Fault
  <2> QED BY <1>0, <2>1, <2>2, <2>4
<1>27. CASE Release(j)
  BY <1>27, <1>0 DEF Release, Forget, Step, Goto, At, Fault, RightKind, AfterSwap, SwapTail
<1>28. CASE MoveAsideRaises(j)
  <2>1. PICK y \in todo[j] : rec' = [rec EXCEPT ![j][y] = "kept"]
    BY <1>28 DEF MoveAsideRaises
  <2>2. /\ y \in Years /\ rec[j][y] = "none" /\ dataDir' = dataDir /\ bak' = bak
        /\ swapped' = swapped /\ pc'[j] = "except" /\ \A z \in Years : Trackable(j, z)
    BY <1>28, <1>0, <2>1 DEF MoveAsideRaises, At, Goto, Recording
  <2>3. \A z \in Years : Trackable(j, z)'
    BY <1>0, <2>1, <2>2
  <2> QED BY <2>2, <2>3
<1>29. CASE CopyRaises(j)
  <2>1. PICK y \in Copying(j), f \in {Absent, Corrupt} : dataDir' = [dataDir EXCEPT ![y] = f]
    BY <1>29 DEF CopyRaises
  <2>2. /\ y \in Years /\ (rec[j][y] = "new" \/ (rec[j][y] = "moved" /\ bak[y] # Absent))
        /\ rec' = rec /\ bak' = bak /\ swapped' = swapped /\ pc'[j] = "except"
        /\ \A z \in Years : Trackable(j, z)
    BY <1>29, <1>0, <2>1, CopyingOne DEF CopyRaises, At, Goto
  <2>3. \A z \in Years : Trackable(j, z)'
    BY <1>0, <2>1, <2>2 DEF Dir
  <2> QED BY <2>2, <2>3
<1>30. CASE SetSwappedRaises(j)
  BY <1>30, <1>0 DEF SetSwappedRaises, Warned, Step, Goto, At, Fault, RightKind, AfterSwap,
      SwapTail
<1>31. CASE ProvenanceRaises(j)
  BY <1>31, <1>0 DEF ProvenanceRaises, AfterProvenance, Warned, Step, Goto, At, Fault,
      RightKind, AfterSwap, SwapTail
<1>32. CASE RestoreRaises(j)
  <2>1. PICK S \in SUBSET Years : Restore(j, S)
    BY <1>32 DEF RestoreRaises
  <2>2. rec' = rec /\ swapped' = swapped /\ Active(j)
    BY <1>32 DEF RestoreRaises, At
  <2>3. \A y \in Years : Trackable(j, y)'
    BY <1>0, <2>1, <2>2, RestoreTracks
  <2> QED BY <1>32, <1>0, <2>2, <2>3 DEF RestoreRaises, Goto, At, Fault, RightKind
<1>33. CASE HandlerRaises(j)
  <2>1. PICK S \in SUBSET Years : Restore(j, S)
    BY <1>33 DEF HandlerRaises
  <2>2. rec' = rec /\ swapped' = swapped /\ Active(j)
    BY <1>33 DEF HandlerRaises, At
  <2>3. \A y \in Years : Trackable(j, y)'
    BY <1>0, <2>1, <2>2, RestoreTracks
  <2> QED BY <1>33, <1>0, <2>2, <2>3 DEF HandlerRaises, Goto, At, Fault, RightKind
<1>34. CASE Raises(j)
  BY <1>34, <1>0 DEF Raises, CaughtAt, Goto, BeforeSwap, SwapTail
<1> QED
  BY <1>1, <1>2, <1>3, <1>4, <1>5, <1>6, <1>7, <1>8, <1>9, <1>10, <1>11, <1>12, <1>13,
    <1>14, <1>15, <1>16, <1>17, <1>18, <1>19, <1>20, <1>21, <1>22, <1>23, <1>24, <1>25,
    <1>26, <1>27, <1>28, <1>29, <1>30, <1>31, <1>32, <1>33, <1>34 DEF Work, Exception

\* An upload goes live from the directory of the loader, which nothing rolls back then.
LEMMA BuiltStep ==
    ASSUME TypeOK, NEW j \in Jobs, RightKind(j), BuiltFrom(j), SwapOrder, Work(j) \/ Exception(j)
    PROVE  BuiltFrom(j)'
<1> USE DEF row, BuiltFrom, Ready, dirs, db, Active
<1>0. /\ pc \in [Jobs -> PCs] /\ kind' = kind /\ dataDir \in Dir
      /\ swapped \in [Jobs -> BOOLEAN] /\ (pc[j] \in BeforeSwap \cup {"copy"} => ~swapped[j])
  BY OthersKept DEF TypeOK, SwapOrder
<1>1. CASE SetRunning(j)
  BY <1>1, <1>0 DEF SetRunning, Step, Goto, At, Fault, RightKind, BeforeSwap, AfterSwap,
      SwapTail
<1>2. CASE Preflight(j)
  BY <1>2, <1>0 DEF Preflight, Refuse, SetStatus, Step, Goto, At, Fault, RightKind,
      BeforeSwap, AfterSwap, SwapTail
<1>3. CASE StageAside(j)
  BY <1>3, <1>0 DEF StageAside, Step, Goto, At, Fault, RightKind, BeforeSwap, AfterSwap,
      SwapTail
<1>4. CASE StageCopy(j)
  BY <1>4, <1>0 DEF StageCopy, Step, Goto, At, Fault, RightKind, BeforeSwap, AfterSwap,
      SwapTail
<1>5. CASE Staged(j)
  BY <1>5, <1>0 DEF Staged, Step, Goto, At, Fault, RightKind, BeforeSwap, AfterSwap,
      SwapTail
<1>6. CASE Guard(j)
  BY <1>6, <1>0 DEF Guard, Refuse, SetStatus, Step, Goto, At, Fault, RightKind, BeforeSwap,
      AfterSwap, SwapTail
<1>7. CASE Union(j)
  BY <1>7, <1>0 DEF Union, Refuse, SetStatus, Step, Goto, At, Fault, RightKind, BeforeSwap,
      AfterSwap, SwapTail
<1>8. CASE Fetch(j)
  BY <1>8, <1>0 DEF Fetch, Step, Goto, At, Fault, RightKind, BeforeSwap, AfterSwap, SwapTail
<1>9. CASE Fetched(j)
  BY <1>9, <1>0 DEF Fetched, Step, Goto, At, Fault, RightKind, BeforeSwap, AfterSwap,
      SwapTail
<1>10. CASE Remove(j)
  BY <1>10, <1>0 DEF Remove, Refuse, SetStatus, Step, Goto, At, Fault, RightKind,
      BeforeSwap, AfterSwap, SwapTail
<1>11. CASE Build(j)
  BY <1>11, <1>0 DEF Build, Source, Step, Goto, At, BeforeSwap
<1>12. CASE BuildFails(j)
  BY <1>12, <1>0 DEF BuildFails, Refuse, SetStatus, Step, Goto, At, Fault, RightKind,
      BeforeSwap, AfterSwap, SwapTail
<1>13. CASE StartChecks(j)
  BY <1>13, <1>0 DEF StartChecks, Step, Goto, At, Fault, RightKind, BeforeSwap, AfterSwap,
      SwapTail
<1>14. CASE Verdict(j)
  BY <1>14, <1>0 DEF Verdict, Refuse, SetStatus, Step, Goto, At, Fault, RightKind,
      BeforeSwap, AfterSwap, SwapTail
<1>15. CASE MoveLiveAside(j)
  BY <1>15, <1>0 DEF MoveLiveAside, Step, Goto, At, Fault, RightKind, BeforeSwap, AfterSwap,
      SwapTail
<1>16. CASE MoveStagingToLive(j)
  BY <1>16, <1>0 DEF MoveStagingToLive, Step, Goto, At, Fault, RightKind, BeforeSwap,
      AfterSwap, SwapTail
<1>17. CASE UnlinkPrev(j)
  BY <1>17, <1>0 DEF UnlinkPrev, Step, Goto, At, Fault, RightKind, BeforeSwap, AfterSwap,
      SwapTail
<1>18. CASE NoteSwap(j)
  BY <1>18, <1>0 DEF NoteSwap, Step, Goto, At, Fault, RightKind, BeforeSwap, AfterSwap,
      SwapTail
<1>19. CASE BumpAndInvalidate(j)
  BY <1>19, <1>0 DEF BumpAndInvalidate, AfterTail, Step, Goto, At, Fault, RightKind,
      BeforeSwap, AfterSwap, SwapTail
<1>20. CASE CaveatInstead(j)
  BY <1>20, <1>0 DEF CaveatInstead, AfterTail, Step, Goto, At, Fault, RightKind, BeforeSwap,
      AfterSwap, SwapTail
<1>21. CASE SetSwapped(j)
  BY <1>21, <1>0 DEF SetSwapped, SetStatus, Step, Goto, At, Fault, RightKind, BeforeSwap,
      AfterSwap, SwapTail
<1>22. CASE RecordProvenance(j)
  BY <1>22, <1>0 DEF RecordProvenance, AfterProvenance, Step, Goto, At, Fault, RightKind,
      BeforeSwap, AfterSwap, SwapTail
<1>23. CASE SweepBackups(j)
  BY <1>23, <1>0 DEF SweepBackups, Step, Goto, At, Fault, RightKind, BeforeSwap, AfterSwap,
      SwapTail
<1>24. CASE RestoreAll(j)
  <2>1. swapped[j] => dataDir' = dataDir
    BY <1>24 DEF RestoreAll, Restore, RollbackOff
  <2> QED BY <1>24, <1>0, <2>1 DEF RestoreAll, Step, Goto, At
<1>25. CASE HandleException(j)
  <2>1. swapped[j] => dataDir' = dataDir
    BY <1>25 DEF HandleException, Restore, RollbackOff
  <2> QED BY <1>25, <1>0, <2>1 DEF HandleException, SayWhatHappened, Warned, SetStatus,
        Step, Goto, At
<1>26. CASE Finally(j)
  BY <1>26, <1>0, FinallyKeeps DEF Finally, Step, Goto, At
<1>27. CASE Release(j)
  BY <1>27, <1>0 DEF Release, Forget, Step, Goto, At, Fault, RightKind, BeforeSwap,
      AfterSwap, SwapTail
<1>28. CASE MoveAsideRaises(j)
  BY <1>28, <1>0 DEF MoveAsideRaises, Step, Goto, At, Fault, RightKind, BeforeSwap,
      AfterSwap, SwapTail
<1>29. CASE CopyRaises(j)
  BY <1>29, <1>0 DEF CopyRaises, Step, Goto, At, Fault, RightKind, BeforeSwap, AfterSwap,
      SwapTail
<1>30. CASE SetSwappedRaises(j)
  BY <1>30, <1>0 DEF SetSwappedRaises, Warned, Step, Goto, At, Fault, RightKind, BeforeSwap,
      AfterSwap, SwapTail
<1>31. CASE ProvenanceRaises(j)
  BY <1>31, <1>0 DEF ProvenanceRaises, AfterProvenance, Warned, Step, Goto, At, Fault,
      RightKind, BeforeSwap, AfterSwap, SwapTail
<1>32. CASE RestoreRaises(j)
  <2>1. swapped[j] => dataDir' = dataDir
    BY <1>32 DEF RestoreRaises, Restore, RollbackOff
  <2> QED BY <1>32, <1>0, <2>1 DEF RestoreRaises, Step, Goto, At
<1>33. CASE HandlerRaises(j)
  <2>1. swapped[j] => dataDir' = dataDir
    BY <1>33 DEF HandlerRaises, Restore, RollbackOff
  <2> QED BY <1>33, <1>0, <2>1 DEF HandlerRaises, Step, Goto, At
<1>34. CASE Raises(j)
  BY <1>34, <1>0 DEF Raises, CaughtAt, Step, Goto, At, Fault, RightKind, BeforeSwap,
      AfterSwap, SwapTail
<1> QED
  BY <1>1, <1>2, <1>3, <1>4, <1>5, <1>6, <1>7, <1>8, <1>9, <1>10, <1>11, <1>12, <1>13,
    <1>14, <1>15, <1>16, <1>17, <1>18, <1>19, <1>20, <1>21, <1>22, <1>23, <1>24, <1>25,
    <1>26, <1>27, <1>28, <1>29, <1>30, <1>31, <1>32, <1>33, <1>34 DEF Work, Exception

\* A request is accepted where no worker is, and starts with a clean record.
LEMMA RequestFiles ==
    ASSUME TypeOK, SingleFlight, SwapOrder, FilesInv, NEW j \in Jobs, Request(j)
    PROVE  FilesInv'
<1>1. PICK k \in Kinds : \E files, work : Accept(j, k, files, work)
  BY DEF Request, StartImport, Integrate, Deintegrate, Kinds
<1>2. /\ pc[j] = "unused" /\ lock = Asking
      /\ pc' = [pc EXCEPT ![j] = "run"] /\ kind' = [kind EXCEPT ![j] = k]
      /\ UNCHANGED <<swapped, rec, live, staging, bak, faults>> /\ dir0' = dataDir'
  BY <1>1, AcceptIsFresh DEF Accept, db, bounds, Goto
<1>3. /\ pc \in [Jobs -> PCs] /\ kind \in [Jobs -> Kinds \cup {"none"}]
      /\ \A i \in Jobs : ~Active(i) /\ pc[i] \in {"unused", "done"}
  BY <1>2, EndpointIdle DEF Active, TypeOK
<1>4. ~swapped[j] /\ rec[j] = NoRecord
  BY <1>2 DEF SwapOrder, FilesInv, Recording
<1>5. ASSUME NEW i \in Jobs PROVE (RightKind(i) /\ Recording(i) /\ Tracked(i) /\ BuiltFrom(i))'
  <2>1. CASE i = j
    BY <1>2, <1>3, <1>4, <2>1 DEF RightKind, Recording, Tracked, Trackable, BuiltFrom,
        Active, NoRecord,
      Ready, SwapTail, AfterSwap
  <2>2. CASE i # j
    BY <1>2, <1>3, <2>2 DEF FilesInv, RightKind, Recording, Tracked, BuiltFrom, Active,
        SwapTail, AfterSwap
  <2> QED BY <2>1, <2>2
<1> QED BY <1>5 DEF FilesInv

\* The files of the jobs are in order, in every reachable state.
LEMMA FilesHold == Spec => [](TypeOK /\ SingleFlight /\ SwapOrder /\ FilesInv)
<1>1. Init => FilesInv
  BY DEF Init, FilesInv, RightKind, Recording, Tracked, BuiltFrom, Active, SwapTail,
      AfterSwap, NoRecord
<1>2. TypeOK /\ SingleFlight /\ SwapOrder /\ FilesInv /\ [Next]_vars => FilesInv'
  <2> SUFFICES ASSUME TypeOK, SingleFlight, SwapOrder, FilesInv, [Next]_vars PROVE FilesInv'
    OBVIOUS
  <2>1. ASSUME NEW j \in Jobs, Work(j) \/ Exception(j) PROVE FilesInv'
    <3>1. (RightKind(j) /\ Recording(j) /\ Tracked(j) /\ BuiltFrom(j))'
      BY <2>1, KindStep, RecordStep, TrackStep, BuiltStep DEF FilesInv
    <3>2. \A i \in Jobs \ {j} : ~Active(i)
      BY <2>1, WorkFrame DEF SingleFlight, TypeOK
    <3>3. /\ kind' = kind
          /\ \A i \in Jobs \ {j} : pc'[i] = pc[i] /\ rec'[i] = rec[i] /\ swapped'[i] = swapped[i]
      BY <2>1, WorkFrame, OthersKept DEF TypeOK
    <3>4. ASSUME NEW i \in Jobs \ {j}
          PROVE  (RightKind(i) /\ Recording(i) /\ Tracked(i) /\ BuiltFrom(i))'
      <4>1. pc[i] \in {"unused", "done"}
        BY <3>2 DEF Active
      <4> QED BY <3>3, <4>1 DEF FilesInv, RightKind, Recording, Tracked, BuiltFrom, Active,
            SwapTail,
        AfterSwap
    <3> QED BY <3>1, <3>4 DEF FilesInv
  <2>2. ASSUME NEW j \in Jobs, Request(j) PROVE FilesInv'
    BY <2>2, RequestFiles
  <2>3. CASE Endpoint
    <3>1. \A i \in Jobs : ~Active(i)
      BY <2>3, EndpointFrame, EndpointIdle
    <3>2. UNCHANGED <<bak, row, worker>>
      BY <2>3, EndpointFrame
    <3> QED BY <3>1, <3>2 DEF FilesInv, RightKind, Recording, Tracked, BuiltFrom, Active,
          row, worker,
      SwapTail, AfterSwap
  <2>7. ASSUME NEW j \in Jobs, ThreadLost(j) PROVE FilesInv'
    <3>1. /\ kind' = kind /\ swapped' = swapped /\ rec'[j] = NoRecord /\ pc'[j] = "done"
          /\ \A i \in Jobs \ {j} : pc'[i] = pc[i] /\ rec'[i] = rec[i] /\ ~Active(i)
      BY <2>7, ThreadLostFrame DEF row, SingleFlight, TypeOK
    <3> QED BY <3>1 DEF FilesInv, RightKind, Recording, Tracked, BuiltFrom, Active,
          SwapTail, AfterSwap
  <2>4. CASE Crash
    <3>1. /\ \A i \in Jobs : pc'[i] \in {"unused", "done"} /\ (pc'[i] = "unused" => pc[i] = "unused")
          /\ \A i \in Jobs : rec'[i] = NoRecord
          /\ kind' = kind
      BY <2>4 DEF Crash, Forget, row, TypeOK
    <3> QED BY <3>1 DEF FilesInv, RightKind, Recording, Tracked, BuiltFrom, Active,
          SwapTail, AfterSwap
  <2>5. CASE Boot \/ BootUnreconciled
    <3>1. /\ UNCHANGED <<db, dirs, kind, worker, hist>>
          /\ faults' >= faults /\ faults \in Nat /\ faults' \in Nat
      BY <2>5, Bounds DEF Boot, BootUnreconciled, row, bounds, Fault, TypeOK
    <3> QED BY <3>1 DEF FilesInv, RightKind, Recording, Tracked, Trackable, BuiltFrom,
          Active, SwapTail,
      AfterSwap, db, dirs, worker, hist
  <2>6. CASE UNCHANGED vars
    BY <2>6 DEF vars, FilesInv, RightKind, Recording, Tracked, Trackable, BuiltFrom, Active,
        SwapTail,
      AfterSwap, db, dirs, worker, hist, row, bounds
  <2> QED BY <2>1, <2>2, <2>3, <2>4, <2>5, <2>6, <2>7 DEF Next, Endpoint
<1> QED BY <1>1, <1>2, TypeCorrect, OnlyOnePipeline, OrderHolds, PTL DEF Spec

-----------------------------------------------------------------------------
(* The originals, and what is copied over them                             *)

\* The job that is active is the latest.
OnlyLatest == \A j \in Jobs : Active(j) => Latest(j)

\* Where an upload has not failed, what is staged of it is its own files.
StagedFiles(j) ==
    kind[j] = "upload" /\ Active(j) =>
        /\ src[j] \in [Years -> Contents \cup {Absent}] /\ todo[j] \subseteq Present(src[j])
        /\ pc[j] \in {"stage", "guard", "build"} \cup Ready \/ swapped[j] =>
              \A y \in Years : rec[j][y] # "none" => dataDir[y] \in Contents
        /\ pc[j] = "copy" =>
              \A y \in Years \ todo[j] : rec[j][y] # "none" => dataDir[y] \in Contents

\* A step of the worker goes on with the files of the upload, or gives it up.
LEMMA StagedStep ==
    ASSUME TypeOK, SwapOrder, NEW j \in Jobs, RightKind(j), Recording(j), StagedFiles(j),
           Work(j) \/ Exception(j)
    PROVE  StagedFiles(j)'
<1> USE DEF row, dirs, StagedFiles, Ready, Active
<1>0. /\ pc \in [Jobs -> PCs] /\ kind' = kind /\ rec \in [Jobs -> [Years -> Records]]
      /\ todo \in [Jobs -> SUBSET Years] /\ dataDir \in Dir /\ swapped \in [Jobs -> BOOLEAN]
      /\ (pc[j] \in BeforeSwap \cup {"copy"} => ~swapped[j]) /\ src \in [Jobs -> Dir]
  BY OthersKept DEF TypeOK, SwapOrder
<1>91. ASSUME UNCHANGED <<dataDir, rec, src, todo>>, Active(j), pc'[j] # "copy",
              \/ pc[j] \in {"stage", "guard", "build"} \cup Ready \/ swapped[j]
              \/ pc'[j] \notin {"stage", "guard", "build"} \cup Ready /\ ~swapped'[j]
       PROVE  StagedFiles(j)'
  BY <1>0, <1>91
<1>1. CASE SetRunning(j)
  BY <1>1, <1>0, <1>91 DEF SetRunning, Step, Goto, At, BeforeSwap, SwapTail, AfterSwap,
      RightKind
<1>2. CASE Preflight(j)
  <2>1. rec[j] = NoRecord
    BY <1>2 DEF Preflight, At, Recording
  <2> QED BY <1>2, <1>0, <2>1 DEF Preflight, Refuse, SetStatus, Step, Goto, At, NoRecord,
        BeforeSwap
<1>3. CASE StageAside(j)
  <2>1. PICK y \in todo[j] :
              /\ y \in Years
              /\ \A z \in Years \ {y} : /\ rec'[j][z] = rec[j][z] /\ bak'[z] = bak[z]
                                        /\ dataDir'[z] = dataDir[z]
    BY <1>3, AsideEffect
  <2>2. pc[j] = "stage" /\ pc'[j] = "copy" /\ UNCHANGED <<src, todo, swapped>> /\ ~swapped[j]
    BY <1>3, <1>0 DEF StageAside, At, Step, Goto, BeforeSwap
  <2> QED BY <1>0, <2>1, <2>2
<1>4. CASE StageCopy(j)
  <2>1. PICK y \in Copying(j) : /\ dataDir' = [dataDir EXCEPT ![y] = src[j][y]]
                                /\ todo' = [todo EXCEPT ![j] = @ \ {y}]
    BY <1>4 DEF StageCopy
  <2>2. /\ pc[j] = "copy" /\ pc'[j] = "stage" /\ UNCHANGED <<src, rec, swapped>>
        /\ y \in todo[j] /\ y \in Years /\ \A z \in todo[j] \ {y} : rec[j][z] = "none"
        /\ kind[j] = "upload" /\ ~swapped[j]
    BY <1>4, <1>0, <2>1, CopyingOne DEF StageCopy, At, Step, Goto, RightKind
  <2>3. dataDir'[y] \in Contents /\ \A z \in Years \ {y} : dataDir'[z] = dataDir[z]
    BY <1>0, <2>1, <2>2 DEF Dir, Present
  <2>4. \A z \in Years : rec[j][z] # "none" => dataDir'[z] \in Contents
    BY <2>2, <2>3
  <2>5. todo'[j] \subseteq todo[j]
    BY <1>0, <2>1
  <2> QED BY <1>0, <2>2, <2>4, <2>5
<1>5. CASE Staged(j)
  BY <1>5, <1>0 DEF Staged, Step, Goto, At, BeforeSwap
<1>6. CASE Guard(j)
  BY <1>6, <1>0, <1>91 DEF Guard, Refuse, SetStatus, Step, Goto, At, BeforeSwap, SwapTail,
      AfterSwap, RightKind
<1>7. CASE Union(j)
  BY <1>7, <1>0 DEF Union, At, RightKind
<1>8. CASE Fetch(j)
  BY <1>8, <1>0 DEF Fetch, At, RightKind
<1>9. CASE Fetched(j)
  BY <1>9, <1>0, <1>91 DEF Fetched, Step, Goto, At, BeforeSwap, SwapTail, AfterSwap,
      RightKind
<1>10. CASE Remove(j)
  BY <1>10, <1>0, <1>91 DEF Remove, Refuse, SetStatus, Step, Goto, At, BeforeSwap,
      SwapTail, AfterSwap, RightKind
<1>11. CASE Build(j)
  BY <1>11, <1>0, <1>91 DEF Build, Step, Goto, At, BeforeSwap, SwapTail, AfterSwap,
      RightKind
<1>12. CASE BuildFails(j)
  BY <1>12, <1>0, <1>91 DEF BuildFails, Refuse, SetStatus, Step, Goto, At, BeforeSwap,
      SwapTail, AfterSwap, RightKind
<1>13. CASE StartChecks(j)
  BY <1>13, <1>0, <1>91 DEF StartChecks, Step, Goto, At, BeforeSwap, SwapTail, AfterSwap,
      RightKind
<1>14. CASE Verdict(j)
  BY <1>14, <1>0, <1>91 DEF Verdict, Refuse, SetStatus, Step, Goto, At, BeforeSwap,
      SwapTail, AfterSwap, RightKind
<1>15. CASE MoveLiveAside(j)
  BY <1>15, <1>0, <1>91 DEF MoveLiveAside, Step, Goto, At, BeforeSwap, SwapTail,
      AfterSwap, RightKind
<1>16. CASE MoveStagingToLive(j)
  BY <1>16, <1>0, <1>91 DEF MoveStagingToLive, Step, Goto, At, BeforeSwap, SwapTail,
      AfterSwap, RightKind
<1>17. CASE UnlinkPrev(j)
  BY <1>17, <1>0, <1>91 DEF UnlinkPrev, Step, Goto, At, BeforeSwap, SwapTail, AfterSwap,
      RightKind
<1>18. CASE NoteSwap(j)
  BY <1>18, <1>0, <1>91 DEF NoteSwap, Step, Goto, At, BeforeSwap, SwapTail, AfterSwap,
      RightKind
<1>19. CASE BumpAndInvalidate(j)
  BY <1>19, <1>0, <1>91 DEF BumpAndInvalidate, AfterTail, Step, Goto, At, BeforeSwap,
      SwapTail, AfterSwap, RightKind
<1>20. CASE CaveatInstead(j)
  BY <1>20, <1>0, <1>91 DEF CaveatInstead, AfterTail, Step, Goto, At, BeforeSwap,
      SwapTail, AfterSwap, RightKind
<1>21. CASE SetSwapped(j)
  BY <1>21, <1>0, <1>91 DEF SetSwapped, SetStatus, Step, Goto, At, BeforeSwap, SwapTail,
      AfterSwap, RightKind
<1>22. CASE RecordProvenance(j)
  BY <1>22, <1>0, <1>91 DEF RecordProvenance, AfterProvenance, Step, Goto, At, BeforeSwap,
      SwapTail, AfterSwap, RightKind
<1>23. CASE SweepBackups(j)
  BY <1>23, <1>0, <1>91 DEF SweepBackups, Step, Goto, At, BeforeSwap, SwapTail, AfterSwap,
      RightKind
<1>24. CASE RestoreAll(j)
  <2>1. swapped[j] => dataDir' = dataDir
    BY <1>24 DEF RestoreAll, Restore, RollbackOff
  <2> QED BY <1>24, <1>0, <2>1 DEF RestoreAll, Step, Goto, At
<1>25. CASE HandleException(j)
  <2>1. swapped[j] => dataDir' = dataDir
    BY <1>25 DEF HandleException, Restore, RollbackOff
  <2> QED BY <1>25, <1>0, <2>1 DEF HandleException, SayWhatHappened, Warned, SetStatus,
      Step, Goto, At
<1>26. CASE Finally(j)
  BY <1>26, <1>0, <1>91, FinallyKeeps DEF Finally, Step, Goto, At
<1>27. CASE Release(j)
  BY <1>27, <1>0 DEF Release, Goto, At
<1>28. CASE MoveAsideRaises(j)
  BY <1>28, <1>0 DEF MoveAsideRaises, Goto, At, BeforeSwap
<1>29. CASE CopyRaises(j)
  BY <1>29, <1>0 DEF CopyRaises, Goto, At
<1>30. CASE SetSwappedRaises(j)
  BY <1>30, <1>0, <1>91 DEF SetSwappedRaises, Warned, Step, Goto, At, BeforeSwap,
      SwapTail, AfterSwap, RightKind
<1>31. CASE ProvenanceRaises(j)
  BY <1>31, <1>0, <1>91 DEF ProvenanceRaises, AfterProvenance, Warned, Step, Goto, At,
      BeforeSwap, SwapTail, AfterSwap, RightKind
<1>32. CASE RestoreRaises(j)
  <2>1. swapped[j] => dataDir' = dataDir
    BY <1>32 DEF RestoreRaises, Restore, RollbackOff
  <2> QED BY <1>32, <1>0, <2>1 DEF RestoreRaises, Step, Goto, At
<1>33. CASE HandlerRaises(j)
  <2>1. swapped[j] => dataDir' = dataDir
    BY <1>33 DEF HandlerRaises, Restore, RollbackOff
  <2> QED BY <1>33, <1>0, <2>1 DEF HandlerRaises, Step, Goto, At
<1>34. CASE Raises(j)
  BY <1>34, <1>0, <1>91 DEF Raises, CaughtAt, Step, Goto, At, BeforeSwap, SwapTail,
      AfterSwap, RightKind
<1> QED
  BY <1>1, <1>2, <1>3, <1>4, <1>5, <1>6, <1>7, <1>8, <1>9, <1>10, <1>11, <1>12, <1>13,
    <1>14, <1>15, <1>16, <1>17, <1>18, <1>19, <1>20, <1>21, <1>22, <1>23, <1>24, <1>25,
    <1>26, <1>27, <1>28, <1>29, <1>30, <1>31, <1>32, <1>33, <1>34 DEF Work, Exception

\* What the files of uploads rely on.
UploadsInv == OnlyLatest /\ \A j \in Jobs : StagedFiles(j)

\* A request is accepted by the next job, where no worker is.
LEMMA NextIsLatest ==
    ASSUME TypeOK, SingleFlight, NEW j \in Jobs, NEW k, NEW files, NEW work,
           Accept(j, k, files, work)
    PROVE  /\ \A i \in Jobs : ~Active(i)
           /\ Latest(j)' /\ \A i \in Jobs \ {j} : ~Active(i)' /\ ~Latest(i)'
<1>1. /\ pc[j] = "unused" /\ lock = Asking /\ pc' = [pc EXCEPT ![j] = "run"]
      /\ pc \in [Jobs -> PCs]
  BY AcceptIsFresh DEF TypeOK
<1>2. \A i \in Jobs : (pc[i] = "unused" <=> i >= j) /\ i \in Int
  BY DEF Accept, NextJob, Jobs
<1>3. \A i \in Jobs : ~Active(i)
  BY <1>1, EndpointIdle
<1>4. Latest(j)'
  BY <1>1, <1>2 DEF Latest
<1>5. ASSUME NEW i \in Jobs \ {j} PROVE ~Active(i)' /\ ~Latest(i)'
  BY <1>1, <1>2, <1>3, <1>5 DEF Latest, Active
<1> QED
  BY <1>3, <1>4, <1>5

\* Only the latest job is active, and what it has staged is its own, in every reachable
\* state.
LEMMA StagedHolds == Spec => []UploadsInv
<1>1. Init => UploadsInv
  BY DEF Init, UploadsInv, OnlyLatest, StagedFiles, Active
<1>2. TypeOK /\ SingleFlight /\ SwapOrder /\ FilesInv /\ UploadsInv /\ [Next]_vars => UploadsInv'
  <2> SUFFICES ASSUME TypeOK, SingleFlight, SwapOrder, FilesInv, OnlyLatest,
                      \A j \in Jobs : StagedFiles(j), [Next]_vars
               PROVE  OnlyLatest' /\ \A j \in Jobs : StagedFiles(j)'
    BY DEF UploadsInv
  <2>1. ASSUME NEW j \in Jobs, Work(j) \/ Exception(j)
        PROVE  OnlyLatest' /\ \A i \in Jobs : StagedFiles(i)'
    <3>1. StagedFiles(j)'
      BY <2>1, StagedStep DEF FilesInv
    <3>2. /\ Active(j) /\ \A i \in Jobs \ {j} : ~Active(i) /\ pc'[i] = pc[i] /\ ~Active(i)'
      BY <2>1, WorkFrame DEF TypeOK, SingleFlight, Active
    <3>3. pc'[j] # "unused"
      BY <2>1, WorkLeavesUsed DEF TypeOK
    <3>4. OnlyLatest'
      BY <3>2, <3>3 DEF OnlyLatest, Latest, Jobs
    <3> QED
      BY <3>1, <3>2, <3>4 DEF StagedFiles
  <2>2. ASSUME NEW j \in Jobs, Request(j)
        PROVE  OnlyLatest' /\ \A i \in Jobs : StagedFiles(i)'
    <3>1. \E k \in Kinds : \E files, work :
              /\ Accept(j, k, files, work)
              /\ k = "upload" => files \in [Years -> Contents \cup {Absent}]
                                 /\ work = Present(files)
      BY <2>2 DEF Request, StartImport, Integrate, Deintegrate, Kinds
    <3>2. PICK k, files, work :
              /\ k \in Kinds /\ Accept(j, k, files, work)
              /\ k = "upload" => files \in [Years -> Contents \cup {Absent}]
                                 /\ work = Present(files)
      BY <3>1, Zenon
    <3>3. Latest(j)' /\ \A i \in Jobs \ {j} : ~Active(i)'
      BY <3>2, NextIsLatest
    <3>4. /\ pc[j] = "unused" /\ pc' = [pc EXCEPT ![j] = "run"] /\ swapped' = swapped
          /\ kind' = [kind EXCEPT ![j] = k] /\ src' = [src EXCEPT ![j] = files]
          /\ todo' = [todo EXCEPT ![j] = work]
      BY <3>2, AcceptIsFresh DEF Accept
    <3>5. StagedFiles(j)'
      BY <3>2, <3>4 DEF StagedFiles, SwapOrder, TypeOK, Ready, Present
    <3> QED
      BY <3>3, <3>5 DEF StagedFiles, OnlyLatest
  <2>6. ASSUME NEW j \in Jobs, ThreadLost(j) PROVE OnlyLatest' /\ \A i \in Jobs : StagedFiles(i)'
    <3>1. \A i \in Jobs : ~Active(i)'
      BY <2>6, ThreadLostFrame DEF SingleFlight, Active, TypeOK
    <3> QED
      BY <3>1 DEF StagedFiles, OnlyLatest
  <2>3. CASE Endpoint
    <3>1. UNCHANGED worker /\ UNCHANGED row /\ \A i \in Jobs : ~Active(i)
      BY <2>3, EndpointFrame, EndpointIdle
    <3> QED
      BY <3>1 DEF worker, row, StagedFiles, OnlyLatest, Active
  <2>4. CASE Crash
    <3>1. \A i \in Jobs : ~Active(i)'
      BY <2>4 DEF Crash, Active
    <3> QED
      BY <3>1 DEF StagedFiles, OnlyLatest
  <2>5. CASE Boot \/ BootUnreconciled \/ UNCHANGED vars
    <3>1. UNCHANGED <<dataDir, kind, pc, swapped, src, todo, rec>>
      BY <2>5 DEF Boot, BootUnreconciled, vars, dirs, row, worker
    <3> QED
      BY <3>1 DEF StagedFiles, OnlyLatest, Active, Latest
  <2> QED
    BY <2>1, <2>2, <2>3, <2>4, <2>5, <2>6 DEF Next, Endpoint
<1> QED
  BY <1>1, <1>2, FilesHold, PTL DEF Spec

\* No job takes a file away from the loader: whatever happens where UPLOAD_DIR is DATA_DIR
\* or after the swap, and with at most one exception otherwise.
THEOREM SourcesStay == Spec => []LoaderSourcesKept
<1>1. TypeOK /\ FilesInv /\ UploadsInv => LoaderSourcesKept
  <2> SUFFICES ASSUME TypeOK, FilesInv, NEW j \in Jobs, StagedFiles(j), pc[j] = "release",
                      Aliased \/ swapped[j] \/ faults < 2
               PROVE  Present(dir0) \subseteq Present(dataDir)
    BY DEF LoaderSourcesKept, UploadsInv
  <2>1. /\ Active(j) /\ \A y \in Years : Trackable(j, y)
        /\ Recording(j) /\ RightKind(j) /\ (~swapped[j] /\ faults < 2 => dataDir = dir0)
    BY DEF FilesInv, Tracked, Active
  <2>2. CASE kind[j] # "upload" \/ Aliased
    BY <2>1, <2>2, AsItWas DEF Recording
  <2>3. CASE kind[j] = "upload" /\ swapped[j]
    <3>1. rec[j] \in [Years -> Records] /\ Absent \notin Contents
      BY ConstantsAssumption DEF TypeOK, ConstantsAssumption
    <3>2. ASSUME NEW y \in Present(dir0) PROVE dataDir[y] # Absent
      BY <2>1, <2>3, <3>1, <3>2 DEF StagedFiles, Trackable, Records, Present
    <3> QED
      BY <3>2 DEF Present
  <2> QED
    BY <2>1, <2>2, <2>3
<1> QED
  BY <1>1, FilesHold, StagedHolds, PTL DEF UploadsInv

\* A death, and what a step of the worker does to a target, leaves the original to be had.
LEMMA OriginalsStep ==
    ASSUME TypeOK, TypeOK', SingleFlight, FilesInv, FilesInv', OnlyLatest, OnlyLatest',
           OriginalsKept, [Next]_vars
    PROVE  OriginalsKept'
<1> SUFFICES ASSUME NEW j \in Jobs, Latest(j)', ~swapped'[j], ~Aliased, NEW y \in Years
             PROVE  dir0'[y] \in {dataDir'[y], bak'[y], Absent}
  BY DEF OriginalsKept
<1>1. CASE Active(j)'
  <2>1. Trackable(j, y)' /\ rec'[j][y] \in Records
    BY <1>1 DEF FilesInv, Tracked, TypeOK
  <2> QED
    BY <2>1 DEF Trackable, Records
<1>2. CASE ~Active(j)'
  <2>1. pc'[j] = "done"
    BY <1>2 DEF Latest, Active
  <2>2. ASSUME NEW i \in Jobs, Work(i) \/ Exception(i)
        PROVE  dir0'[y] \in {dataDir'[y], bak'[y], Absent}
    <3>1. Latest(i) /\ pc'[i] # "unused" /\ \A k \in Jobs \ {i} : pc'[k] = pc[k]
      BY <2>2, WorkFrame, WorkLeavesUsed DEF OnlyLatest, TypeOK
    <3>2. i = j
      BY <3>1 DEF Latest, Jobs
    <3>3. Release(j)
      BY <2>1, <2>2, <3>2, OnlyReleaseEnds DEF TypeOK
    <3> QED
      BY <3>1, <3>2, <3>3 DEF Release, dirs, hist, OriginalsKept
  <2>3. ASSUME NEW i \in Jobs, Request(i) PROVE FALSE
    <3>1. PICK k, files, work : Accept(i, k, files, work)
      BY <2>3, RequestAccepts
    <3>2. Latest(i)' /\ (j # i => ~Latest(j)') /\ pc'[i] = "run"
      BY <3>1, NextIsLatest, AcceptIsFresh DEF TypeOK
    <3> QED
      BY <2>1, <3>2
  <2>4. CASE Endpoint
    <3>1. dataDir' = dataDir
      BY <2>4 DEF Endpoint, Acquire, RequestRefused, RequestLost, UnlinkUploads, Uploaded, dirs
    <3> QED
      BY <2>4, <3>1, EndpointFrame DEF worker, OriginalsKept, Latest
  <2>7. ASSUME NEW i \in Jobs, ThreadLost(i)
        PROVE  dir0'[y] \in {dataDir'[y], bak'[y], Absent}
    <3>1. /\ pc[i] # "unused" /\ UNCHANGED <<dataDir, bak, dir0, swapped>>
          /\ \A k \in Jobs : pc'[k] = "unused" <=> pc[k] = "unused"
      BY <2>7, ThreadLostFrame DEF dirs, TypeOK
    <3> QED
      BY <3>1 DEF OriginalsKept, Latest, Jobs
  <2>5. CASE Crash
    <3>1. /\ dir0' = dir0 /\ bak' = bak /\ swapped' = swapped /\ Latest(j)
          /\ \A i \in Jobs : pc'[i] = "unused" <=> pc[i] = "unused"
      BY <2>5 DEF Crash, Latest, Jobs
    <3>2. CASE dataDir' = dataDir
      BY <3>1, <3>2 DEF OriginalsKept
    <3>3. CASE dataDir' # dataDir
      <4>0. PICK i \in Jobs : /\ pc[i] = "copy"
                              /\ \E x \in Copying(i) : dataDir' = [dataDir EXCEPT ![x] = Corrupt]
        BY <2>5, <3>3 DEF Crash, Uploaded
      <4>1. PICK x \in Copying(i) :
                pc[i] = "copy" /\ dataDir' = [dataDir EXCEPT ![x] = Corrupt]
        BY <4>0
      <4>2. i = j
        BY <3>1, <4>1 DEF OnlyLatest, Active, Latest, Jobs
      <4>3. /\ rec[j][x] = "new" \/ (rec[j][x] = "moved" /\ bak[x] # Absent)
            /\ Trackable(j, x)
        BY <4>1, <4>2, CopyingOne DEF FilesInv, Tracked, Active
      <4>4. dir0[x] \in {bak[x], Absent}
        BY <3>1, <4>3 DEF Trackable
      <4> QED
        BY <3>1, <4>1, <4>4 DEF OriginalsKept, TypeOK, Dir
    <3> QED
      BY <3>2, <3>3
  <2>6. CASE Boot \/ BootUnreconciled \/ UNCHANGED vars
    BY <2>6 DEF Boot, BootUnreconciled, vars, dirs, worker, hist, OriginalsKept, Latest
  <2> QED
    BY <2>2, <2>3, <2>4, <2>5, <2>6, <2>7 DEF Next, Endpoint
<1> QED
  BY <1>1, <1>2

\* However many exceptions and wherever a death, the originals of an upload that has not
\* swapped are in DATA_DIR or beside it.
LEMMA OriginalsHold == Spec => []OriginalsKept
<1>1. Init => OriginalsKept
  BY DEF Init, OriginalsKept
<1> QED
  BY <1>1, OriginalsStep, TypeCorrect, FilesHold, StagedHolds, PTL DEF Spec, UploadsInv

-----------------------------------------------------------------------------
(* The uploaded copies                                                     *)

\* The copies of an upload are there for its worker, but for those left over.
Copies ==
    /\ Aliased => uploads = NoDB
    /\ \/ Present(uploads) \subseteq leftover
       \/ \E j \in Jobs : /\ lock = j /\ kind[j] = "upload" /\ pc[j] \notin {"release", "done"}
                          /\ Present(uploads) \subseteq leftover \cup Present(src[j])

\* A step of the worker keeps the copies it has, until it discards them.
LEMMA CopiesStep ==
    ASSUME TypeOK, SingleFlight, NEW j \in Jobs, RightKind(j), Copies, Work(j) \/ Exception(j)
    PROVE  Copies'
<1> USE DEF row, worker, dirs, hist
<1>0. /\ pc \in [Jobs -> PCs] /\ kind' = kind /\ uploads \in Dir /\ lock = j
      /\ \A i \in Jobs : lock = i <=> i = j
  BY OthersKept, WorkFrame DEF TypeOK, SingleFlight
<1>91. ASSUME uploads' = uploads, leftover' = leftover, lock' = lock, src'[j] = src[j],
             pc'[j] \notin {"release", "done"}
      PROVE  Copies'
  BY <1>0, <1>91 DEF Copies, Present
<1>1. CASE SetRunning(j)
  BY <1>1, <1>0, <1>91 DEF SetRunning, Step, Goto, At, Fault
<1>2. CASE Preflight(j)
  BY <1>2, <1>0, <1>91 DEF Preflight, Refuse, SetStatus, Step, Goto, At, Fault
<1>3. CASE StageAside(j)
  BY <1>3, <1>0, <1>91 DEF StageAside, Step, Goto, At, Fault
<1>4. CASE StageCopy(j)
  BY <1>4, <1>0, <1>91 DEF StageCopy, Step, Goto, At, Fault
<1>5. CASE Staged(j)
  BY <1>5, <1>0, <1>91 DEF Staged, Step, Goto, At, Fault
<1>6. CASE Guard(j)
  BY <1>6, <1>0, <1>91 DEF Guard, Refuse, SetStatus, Step, Goto, At, Fault
<1>7. CASE Union(j)
  BY <1>7, <1>0, <1>91 DEF Union, Refuse, SetStatus, Step, Goto, At, Fault
<1>8. CASE Fetch(j)
  <2>1. uploads' = uploads /\ leftover' = leftover /\ kind[j] = "integrate"
    BY <1>8 DEF Fetch, At, RightKind, Step
  <2> QED BY <1>0, <2>1 DEF Copies, Present
<1>9. CASE Fetched(j)
  BY <1>9, <1>0, <1>91 DEF Fetched, Step, Goto, At, Fault
<1>10. CASE Remove(j)
  BY <1>10, <1>0, <1>91 DEF Remove, Refuse, SetStatus, Step, Goto, At, Fault
<1>11. CASE Build(j)
  BY <1>11, <1>0, <1>91 DEF Build, Step, Goto, At, Fault
<1>12. CASE BuildFails(j)
  BY <1>12, <1>0, <1>91 DEF BuildFails, Refuse, SetStatus, Step, Goto, At, Fault
<1>13. CASE StartChecks(j)
  BY <1>13, <1>0, <1>91 DEF StartChecks, Step, Goto, At, Fault
<1>14. CASE Verdict(j)
  BY <1>14, <1>0, <1>91 DEF Verdict, Refuse, SetStatus, Step, Goto, At, Fault
<1>15. CASE MoveLiveAside(j)
  BY <1>15, <1>0, <1>91 DEF MoveLiveAside, Step, Goto, At, Fault
<1>16. CASE MoveStagingToLive(j)
  BY <1>16, <1>0, <1>91 DEF MoveStagingToLive, Step, Goto, At, Fault
<1>17. CASE UnlinkPrev(j)
  BY <1>17, <1>0, <1>91 DEF UnlinkPrev, Step, Goto, At, Fault
<1>18. CASE NoteSwap(j)
  BY <1>18, <1>0, <1>91 DEF NoteSwap, Step, Goto, At, Fault
<1>19. CASE BumpAndInvalidate(j)
  BY <1>19, <1>0, <1>91 DEF BumpAndInvalidate, AfterTail, Step, Goto, At, Fault
<1>20. CASE CaveatInstead(j)
  BY <1>20, <1>0, <1>91 DEF CaveatInstead, AfterTail, Step, Goto, At, Fault
<1>21. CASE SetSwapped(j)
  BY <1>21, <1>0, <1>91 DEF SetSwapped, SetStatus, Step, Goto, At, Fault
<1>22. CASE RecordProvenance(j)
  BY <1>22, <1>0, <1>91 DEF RecordProvenance, AfterProvenance, Step, Goto, At, Fault
<1>23. CASE SweepBackups(j)
  BY <1>23, <1>0, <1>91 DEF SweepBackups, Step, Goto, At, Fault
<1>24. CASE RestoreAll(j)
  BY <1>24, <1>0, <1>91 DEF RestoreAll, Step, Goto, At, Fault
<1>25. CASE HandleException(j)
  BY <1>25, <1>0, <1>91 DEF HandleException, SayWhatHappened, Warned, SetStatus, Step, Goto,
      At, Fault
<1>26. CASE Finally(j)
  <2>1. PICK kept \in SUBSET Discardable(j) : /\ UnlinkUploads(Discardable(j) \ kept)
                                              /\ leftover' = leftover \cup kept
    BY <1>26 DEF Finally
  <2>2. CASE Aliased \/ kind[j] # "upload"
    <3>1. uploads' = uploads /\ leftover' = leftover
      BY <1>26, <2>1, <2>2, FinallyKeeps DEF Discardable
    <3>2. Aliased => Present(uploads) = {}
      BY DEF Copies, Present, NoDB
    <3> QED
      BY <1>0, <2>2, <3>1, <3>2 DEF Copies, Present
  <2>3. CASE ~Aliased /\ kind[j] = "upload"
    <3>1. /\ uploads' = Overlay(uploads, NoDB, Present(src[j]) \ kept)
          /\ kept \subseteq Present(src[j])
      BY <2>1, <2>3 DEF UnlinkUploads, Uploaded, Discardable
    <3>2. Present(uploads) \subseteq leftover \cup Present(src[j])
      BY <1>0 DEF Copies
    <3>3. Present(uploads') \subseteq leftover'
      BY <2>1, <3>1, <3>2 DEF Overlay, NoDB, Present
    <3> QED BY <2>3, <3>3 DEF Copies
  <2> QED BY <2>2, <2>3
<1>27. CASE Release(j)
  BY <1>27, <1>0 DEF Release, At, Copies, Present
<1>28. CASE MoveAsideRaises(j)
  BY <1>28, <1>0, <1>91 DEF MoveAsideRaises, Step, Goto, At, Fault
<1>29. CASE CopyRaises(j)
  BY <1>29, <1>0, <1>91 DEF CopyRaises, Step, Goto, At, Fault
<1>30. CASE SetSwappedRaises(j)
  BY <1>30, <1>0, <1>91 DEF SetSwappedRaises, Warned, Step, Goto, At, Fault
<1>31. CASE ProvenanceRaises(j)
  BY <1>31, <1>0, <1>91 DEF ProvenanceRaises, AfterProvenance, Warned, Step, Goto, At, Fault
<1>32. CASE RestoreRaises(j)
  BY <1>32, <1>0, <1>91 DEF RestoreRaises, Step, Goto, At, Fault
<1>33. CASE HandlerRaises(j)
  BY <1>33, <1>0, <1>91 DEF HandlerRaises, Step, Goto, At, Fault
<1>34. CASE Raises(j)
  BY <1>34, <1>0, <1>91 DEF Raises, CaughtAt, Step, Goto, At, Fault
<1> QED
  BY <1>1, <1>2, <1>3, <1>4, <1>5, <1>6, <1>7, <1>8, <1>9, <1>10, <1>11, <1>12, <1>13,
    <1>14, <1>15, <1>16, <1>17, <1>18, <1>19, <1>20, <1>21, <1>22, <1>23, <1>24, <1>25,
    <1>26, <1>27, <1>28, <1>29, <1>30, <1>31, <1>32, <1>33, <1>34 DEF Work, Exception

\* Copies of uploads wait for nobody.
LEMMA CopiesHold == Spec => []Copies
<1>1. Init => Copies
  <2>1. Present(NoDB) = {}
    BY DEF Present, NoDB
  <2> QED
    BY <2>1 DEF Init, Copies
<1>2. TypeOK /\ SingleFlight /\ FilesInv /\ Copies /\ [Next]_vars => Copies'
  <2> SUFFICES ASSUME TypeOK, SingleFlight, FilesInv, Copies, [Next]_vars PROVE Copies'
    OBVIOUS
  <2> USE DEF row, worker, dirs, hist
  <2>0. lock \in {Nobody, Asking, Lost} => Present(uploads) \subseteq leftover
    BY NoSuchJob DEF Copies
  <2>1. ASSUME NEW j \in Jobs, Work(j) \/ Exception(j) PROVE Copies'
    BY <2>1, CopiesStep DEF FilesInv
  <2>2. ASSUME NEW j \in Jobs, Request(j) PROVE Copies'
    <3>1. CASE StartImport(j)
      <4>1. PICK files \in [Years -> Contents \cup {Absent}] \ {NoDB} :
                Uploaded(files, Present(files)) /\ Accept(j, "upload", files, Present(files))
        BY <3>1 DEF StartImport
      <4>2. /\ lock = Asking /\ lock' = j /\ pc' = [pc EXCEPT ![j] = "run"]
            /\ kind' = [kind EXCEPT ![j] = "upload"] /\ src' = [src EXCEPT ![j] = files]
            /\ leftover' = leftover
        BY <4>1, AcceptIsFresh DEF Accept
      <4>3. CASE Aliased
        BY <2>0, <4>1, <4>2, <4>3 DEF Uploaded, Copies, Present
      <4>4. CASE ~Aliased
        <5>1. uploads' = Overlay(uploads, files, Present(files))
          BY <4>1, <4>4 DEF Uploaded
        <5>2. Present(uploads') \subseteq leftover \cup Present(files)
          BY <2>0, <4>2, <5>1 DEF Overlay, Present
        <5>3. pc'[j] = "run" /\ kind'[j] = "upload" /\ src'[j] = files
          BY <4>2 DEF TypeOK
        <5> QED BY <4>2, <4>4, <5>2, <5>3 DEF Copies, Present
      <4> QED BY <4>3, <4>4
    <3>2. CASE Integrate(j) \/ Deintegrate(j)
      <4>1. uploads' = uploads /\ leftover' = leftover /\ lock = Asking
        BY <3>2 DEF Integrate, Deintegrate, Accept
      <4> QED BY <2>0, <4>1 DEF Copies, Present
    <3> QED BY <2>2, <3>1, <3>2 DEF Request
  <2>3. CASE RequestRefused
    <3>1. PICK S \in SUBSET Years : UnlinkUploads(S)
      BY <2>3 DEF RequestRefused
    <3>2. leftover' = leftover /\ Present(uploads) \subseteq leftover
      BY <2>0, <2>3 DEF RequestRefused
    <3>3. Present(uploads') \subseteq Present(uploads) /\ (Aliased => uploads' = uploads)
      BY <3>1 DEF UnlinkUploads, Uploaded, Overlay, NoDB, Present
    <3> QED BY <3>2, <3>3 DEF Copies
  <2>4. CASE Crash
    <3>1. Aliased => uploads' = uploads
      BY <2>4 DEF Crash, Uploaded
    <3> QED BY <2>4, <3>1 DEF Crash, Copies
  <2>5. CASE Acquire \/ Boot \/ BootUnreconciled \/ UNCHANGED vars
    <3>1. UNCHANGED <<uploads, leftover, worker, kind>> /\ (lock' = lock \/ lock = Nobody)
      BY <2>5 DEF Acquire, Boot, BootUnreconciled, vars
    <3> QED BY <2>0, <3>1 DEF Copies, Present
  <2>6. CASE RequestLost
    <3>1. PICK files \in [Years -> Contents \cup {Absent, Corrupt}], S \in SUBSET Years :
              Uploaded(files, S) /\ leftover' = leftover \cup S
      BY <2>6 DEF RequestLost
    <3>2. Present(uploads) \subseteq leftover
      BY <2>0, <2>6 DEF RequestLost
    <3>3. Present(uploads') \subseteq leftover' /\ (Aliased => uploads' = uploads)
      BY <3>1, <3>2 DEF Uploaded, Overlay, Present
    <3> QED BY <3>3 DEF Copies
  <2>7. ASSUME NEW j \in Jobs, ThreadLost(j) PROVE Copies'
    <3>1. uploads' = uploads /\ leftover' = leftover \cup Present(uploads)
      BY <2>7 DEF ThreadLost
    <3> QED BY <3>1 DEF Copies, Present
  <2> QED BY <2>1, <2>2, <2>3, <2>4, <2>5, <2>6, <2>7 DEF Next
<1> QED BY <1>1, <1>2, FilesHold, PTL DEF Spec

\* Whatever raises and whoever comes: DATA_DIR is as it was without the swap, what is
\* live was built from it with one, the originals of the latest upload are there until
\* then, and no uploaded copy is left but where a clean-up failed or did not come to run.
THEOREM FilesAreKept == Spec => []FilesFollowJobs
<1>1. FilesInv => DataDirRestored
  BY DEF FilesInv, Tracked, Active, DataDirRestored
<1>2. FilesInv => SwappedDirMatchesLive
  BY DEF FilesInv, BuiltFrom, Active, SwappedDirMatchesLive
<1>3. Copies => UploadsDiscarded
  BY NoSuchJob DEF Copies, UploadsDiscarded
<1> QED
  BY <1>1, <1>2, <1>3, FilesHold, OriginalsHold, CopiesHold, PTL DEF FilesFollowJobs

-----------------------------------------------------------------------------
(* The caveat                                                              *)

\* Old answers are told by the job that left them: it says so, or has not ended, and
\* will when it does.
Tells(j) ==
    /\ swapped[j]
    /\ \/ report[j] = "warned"
       \/ report[j] = "interrupted" /\ pc[j] = "done"
       \/ /\ status[j] \notin Terminal
          /\ pc[j] \in SwapTail \cup {"warn", "except", "finally", "release", "done"}

Told == ~cacheFresh => \E j \in Jobs : Tells(j)

\* A worker that has not come to an end has not told how it ended.
Unended(j) == pc[j] \in BeforeSwap \cup SwapTail \cup {"copy", "warn"} => status[j] \notin Terminal

\* The status of a job is final only once it ends.
LEMMA EndsStep ==
    ASSUME TypeOK, NEW j \in Jobs, Unended(j), SwapOrder, Work(j) \/ Exception(j)
    PROVE  Unended(j)'
<1> USE DEF row, Unended, BeforeSwap, SwapTail, Terminal
<1>0. /\ pc \in [Jobs -> PCs] /\ status \in [Jobs -> Statuses]
  BY DEF TypeOK
<1>1. CASE SetRunning(j)
  BY <1>1, <1>0 DEF SetRunning, Step, Goto, At, Fault
<1>2. CASE Preflight(j)
  BY <1>2, <1>0 DEF Preflight, Refuse, SetStatus, Step, Goto, At, Fault
<1>3. CASE StageAside(j)
  BY <1>3, <1>0 DEF StageAside, Step, Goto, At, Fault
<1>4. CASE StageCopy(j)
  BY <1>4, <1>0 DEF StageCopy, Step, Goto, At, Fault
<1>5. CASE Staged(j)
  BY <1>5, <1>0 DEF Staged, Step, Goto, At, Fault
<1>6. CASE Guard(j)
  BY <1>6, <1>0 DEF Guard, Refuse, SetStatus, Step, Goto, At, Fault
<1>7. CASE Union(j)
  BY <1>7, <1>0 DEF Union, Refuse, SetStatus, Step, Goto, At, Fault
<1>8. CASE Fetch(j)
  BY <1>8, <1>0 DEF Fetch, Step, Goto, At, Fault
<1>9. CASE Fetched(j)
  BY <1>9, <1>0 DEF Fetched, Step, Goto, At, Fault
<1>10. CASE Remove(j)
  BY <1>10, <1>0 DEF Remove, Refuse, SetStatus, Step, Goto, At, Fault
<1>11. CASE Build(j)
  BY <1>11, <1>0 DEF Build, Step, Goto, At, Fault
<1>12. CASE BuildFails(j)
  BY <1>12, <1>0 DEF BuildFails, Refuse, SetStatus, Step, Goto, At, Fault
<1>13. CASE StartChecks(j)
  BY <1>13, <1>0 DEF StartChecks, Step, Goto, At, Fault
<1>14. CASE Verdict(j)
  BY <1>14, <1>0 DEF Verdict, Refuse, SetStatus, Step, Goto, At, Fault
<1>15. CASE MoveLiveAside(j)
  BY <1>15, <1>0 DEF MoveLiveAside, Step, Goto, At, Fault
<1>16. CASE MoveStagingToLive(j)
  BY <1>16, <1>0 DEF MoveStagingToLive, Step, Goto, At, Fault
<1>17. CASE UnlinkPrev(j)
  BY <1>17, <1>0 DEF UnlinkPrev, Step, Goto, At, Fault
<1>18. CASE NoteSwap(j)
  BY <1>18, <1>0 DEF NoteSwap, Step, Goto, At, Fault
<1>19. CASE BumpAndInvalidate(j)
  BY <1>19, <1>0 DEF BumpAndInvalidate, AfterTail, Step, Goto, At, Fault
<1>20. CASE CaveatInstead(j)
  BY <1>20, <1>0 DEF CaveatInstead, AfterTail, Step, Goto, At, Fault
<1>21. CASE SetSwapped(j)
  BY <1>21, <1>0 DEF SetSwapped, SetStatus, Step, Goto, At, Fault
<1>22. CASE RecordProvenance(j)
  BY <1>22, <1>0 DEF RecordProvenance, AfterProvenance, Step, Goto, At, Fault
<1>23. CASE SweepBackups(j)
  BY <1>23, <1>0 DEF SweepBackups, Step, Goto, At, Fault
<1>24. CASE RestoreAll(j)
  BY <1>24, <1>0 DEF RestoreAll, Step, Goto, At, Fault
<1>25. CASE HandleException(j)
  BY <1>25, <1>0 DEF HandleException, SayWhatHappened, Warned, SetStatus, Step, Goto, At,
      Fault
<1>26. CASE Finally(j)
  BY <1>26, <1>0 DEF Finally, UnlinkUploads, Uploaded, Step, Goto, At, Fault
<1>27. CASE Release(j)
  BY <1>27, <1>0 DEF Release, Forget, Step, Goto, At, Fault
<1>28. CASE MoveAsideRaises(j)
  BY <1>28, <1>0 DEF MoveAsideRaises, Step, Goto, At, Fault
<1>29. CASE CopyRaises(j)
  BY <1>29, <1>0 DEF CopyRaises, Step, Goto, At, Fault
<1>30. CASE SetSwappedRaises(j)
  BY <1>30, <1>0 DEF SetSwappedRaises, Warned, Step, Goto, At, Fault
<1>31. CASE ProvenanceRaises(j)
  BY <1>31, <1>0 DEF ProvenanceRaises, AfterProvenance, Warned, Step, Goto, At, Fault
<1>32. CASE RestoreRaises(j)
  BY <1>32, <1>0 DEF RestoreRaises, Step, Goto, At, Fault
<1>33. CASE HandlerRaises(j)
  BY <1>33, <1>0 DEF HandlerRaises, Step, Goto, At, Fault
<1>34. CASE Raises(j)
  BY <1>34, <1>0 DEF Raises, CaughtAt, Step, Goto, At, Fault
<1> QED
  BY <1>1, <1>2, <1>3, <1>4, <1>5, <1>6, <1>7, <1>8, <1>9, <1>10, <1>11, <1>12, <1>13,
    <1>14, <1>15, <1>16, <1>17, <1>18, <1>19, <1>20, <1>21, <1>22, <1>23, <1>24, <1>25,
    <1>26, <1>27, <1>28, <1>29, <1>30, <1>31, <1>32, <1>33, <1>34 DEF Work, Exception

\* A worker that has told has told, and one that is about to does, or the answers go.
LEMMA TellsStep ==
    ASSUME TypeOK, NEW j \in Jobs, SwapOrder, Tells(j), Work(j) \/ Exception(j)
    PROVE  Tells(j)' \/ cacheFresh'
<1> USE DEF row, Tells, SwapTail, Terminal, worker
<1>0. /\ pc \in [Jobs -> PCs] /\ status \in [Jobs -> Statuses] /\ report \in [Jobs -> Reports]
      /\ swapped \in [Jobs -> BOOLEAN] /\ pc[j] \notin BeforeSwap \cup {"copy"}
  BY DEF TypeOK, SwapOrder
<1>1. CASE SetRunning(j)
  BY <1>1, <1>0 DEF SetRunning, Step, Goto, At, Fault, BeforeSwap
<1>2. CASE Preflight(j)
  BY <1>2, <1>0 DEF Preflight, Refuse, SetStatus, Step, Goto, At, Fault, BeforeSwap
<1>3. CASE StageAside(j)
  BY <1>3, <1>0 DEF StageAside, Step, Goto, At, Fault, BeforeSwap
<1>4. CASE StageCopy(j)
  BY <1>4, <1>0 DEF StageCopy, Step, Goto, At, Fault, BeforeSwap
<1>5. CASE Staged(j)
  BY <1>5, <1>0 DEF Staged, Step, Goto, At, Fault, BeforeSwap
<1>6. CASE Guard(j)
  BY <1>6, <1>0 DEF Guard, Refuse, SetStatus, Step, Goto, At, Fault, BeforeSwap
<1>7. CASE Union(j)
  BY <1>7, <1>0 DEF Union, Refuse, SetStatus, Step, Goto, At, Fault, BeforeSwap
<1>8. CASE Fetch(j)
  BY <1>8, <1>0 DEF Fetch, Step, Goto, At, Fault, BeforeSwap
<1>9. CASE Fetched(j)
  BY <1>9, <1>0 DEF Fetched, Step, Goto, At, Fault, BeforeSwap
<1>10. CASE Remove(j)
  BY <1>10, <1>0 DEF Remove, Refuse, SetStatus, Step, Goto, At, Fault, BeforeSwap
<1>11. CASE Build(j)
  BY <1>11, <1>0 DEF Build, Step, Goto, At, Fault, BeforeSwap
<1>12. CASE BuildFails(j)
  BY <1>12, <1>0 DEF BuildFails, Refuse, SetStatus, Step, Goto, At, Fault, BeforeSwap
<1>13. CASE StartChecks(j)
  BY <1>13, <1>0 DEF StartChecks, Step, Goto, At, Fault, BeforeSwap
<1>14. CASE Verdict(j)
  BY <1>14, <1>0 DEF Verdict, Refuse, SetStatus, Step, Goto, At, Fault, BeforeSwap
<1>15. CASE MoveLiveAside(j)
  BY <1>15, <1>0 DEF MoveLiveAside, Step, Goto, At, Fault, BeforeSwap
<1>16. CASE MoveStagingToLive(j)
  BY <1>16, <1>0 DEF MoveStagingToLive, Step, Goto, At, Fault, BeforeSwap
<1>17. CASE UnlinkPrev(j)
  BY <1>17, <1>0 DEF UnlinkPrev, Step, Goto, At, Fault, BeforeSwap
<1>18. CASE NoteSwap(j)
  BY <1>18, <1>0 DEF NoteSwap, Step, Goto, At, Fault, BeforeSwap
<1>19. CASE BumpAndInvalidate(j)
  BY <1>19, <1>0 DEF BumpAndInvalidate, AfterTail, Step, Goto, At, Fault, BeforeSwap
<1>20. CASE CaveatInstead(j)
  BY <1>20, <1>0 DEF CaveatInstead, AfterTail, Step, Goto, At, Fault, BeforeSwap
<1>21. CASE SetSwapped(j)
  BY <1>21, <1>0 DEF SetSwapped, SetStatus, Step, Goto, At, Fault, BeforeSwap
<1>22. CASE RecordProvenance(j)
  BY <1>22, <1>0 DEF RecordProvenance, AfterProvenance, Step, Goto, At, Fault, BeforeSwap
<1>23. CASE SweepBackups(j)
  BY <1>23, <1>0 DEF SweepBackups, Step, Goto, At, Fault, BeforeSwap
<1>24. CASE RestoreAll(j)
  BY <1>24, <1>0 DEF RestoreAll, Step, Goto, At, Fault, BeforeSwap
<1>25. CASE HandleException(j)
  BY <1>25, <1>0 DEF HandleException, SayWhatHappened, Warned, SetStatus, Step, Goto, At,
      Fault, BeforeSwap
<1>26. CASE Finally(j)
  BY <1>26, <1>0 DEF Finally, UnlinkUploads, Uploaded, Step, Goto, At, Fault, BeforeSwap
<1>27. CASE Release(j)
  BY <1>27, <1>0 DEF Release, Forget, Step, Goto, At, Fault, BeforeSwap
<1>28. CASE MoveAsideRaises(j)
  BY <1>28, <1>0 DEF MoveAsideRaises, Step, Goto, At, Fault, BeforeSwap
<1>29. CASE CopyRaises(j)
  BY <1>29, <1>0 DEF CopyRaises, Step, Goto, At, Fault, BeforeSwap
<1>30. CASE SetSwappedRaises(j)
  BY <1>30, <1>0 DEF SetSwappedRaises, Warned, Step, Goto, At, Fault, BeforeSwap
<1>31. CASE ProvenanceRaises(j)
  BY <1>31, <1>0 DEF ProvenanceRaises, AfterProvenance, Warned, Step, Goto, At, Fault,
      BeforeSwap
<1>32. CASE RestoreRaises(j)
  BY <1>32, <1>0 DEF RestoreRaises, Step, Goto, At, Fault, BeforeSwap
<1>33. CASE HandlerRaises(j)
  BY <1>33, <1>0 DEF HandlerRaises, Step, Goto, At, Fault, BeforeSwap
<1>34. CASE Raises(j)
  BY <1>34, <1>0 DEF Raises, CaughtAt, Step, Goto, At, Fault, BeforeSwap
<1> QED
  BY <1>1, <1>2, <1>3, <1>4, <1>5, <1>6, <1>7, <1>8, <1>9, <1>10, <1>11, <1>12, <1>13,
    <1>14, <1>15, <1>16, <1>17, <1>18, <1>19, <1>20, <1>21, <1>22, <1>23, <1>24, <1>25,
    <1>26, <1>27, <1>28, <1>29, <1>30, <1>31, <1>32, <1>33, <1>34 DEF Work, Exception

\* The caveat is there when it is needed, in every reachable state.
LEMMA ToldHolds == Spec => [](Told /\ \A j \in Jobs : Unended(j))
<1>1. Init => Told /\ \A j \in Jobs : Unended(j)
  BY DEF Init, Told, Unended, Terminal, BeforeSwap, SwapTail
<1>2. /\ TypeOK /\ SwapOrder /\ DownMeansDone /\ FilesInv
      /\ Told /\ (\A j \in Jobs : Unended(j)) /\ [Next]_vars
      => (Told /\ \A j \in Jobs : Unended(j))'
  <2> SUFFICES ASSUME TypeOK, SwapOrder, DownMeansDone, FilesInv, Told,
                      \A j \in Jobs : Unended(j), [Next]_vars
               PROVE  Told' /\ \A j \in Jobs : Unended(j)'
    OBVIOUS
  <2>1. ASSUME NEW j \in Jobs, Work(j) \/ Exception(j) PROVE Told' /\ \A i \in Jobs : Unended(i)'
    <3>1. \A i \in Jobs \ {j} : /\ pc'[i] = pc[i] /\ swapped'[i] = swapped[i]
                                /\ status'[i] = status[i] /\ report'[i] = report[i]
      BY <2>1, WorkFrame, OthersKept DEF TypeOK
    <3>2. \A i \in Jobs : Unended(i)'
      BY <2>1, <3>1, EndsStep DEF Unended
    <3>3. CASE \E i \in Jobs : Tells(i)
      <4>1. PICK i \in Jobs : Tells(i)
        BY <3>3
      <4>2. CASE i = j
        BY <2>1, <3>2, <4>1, <4>2, TellsStep DEF Told
      <4>3. CASE i # j
        BY <3>1, <3>2, <4>1, <4>3 DEF Told, Tells
      <4> QED BY <4>2, <4>3
    <3>4. CASE cacheFresh /\ ~MoveStagingToLive(j)
      <4>1. cacheFresh'
        BY <2>1, <3>4 DEF Work, Exception, SetRunning, Preflight, StageAside, StageCopy,
            Staged, Guard,
          Union, Fetch, Fetched, Remove, Build, BuildFails, StartChecks, Verdict, MoveLiveAside,
          UnlinkPrev, NoteSwap, BumpAndInvalidate, CaveatInstead, SetSwapped, RecordProvenance,
          SweepBackups, RestoreAll, HandleException, Finally, Release, MoveAsideRaises, CopyRaises,
          SetSwappedRaises, ProvenanceRaises, RestoreRaises, HandlerRaises, Raises
      <4> QED BY <3>2, <4>1 DEF Told
    <3>5. CASE MoveStagingToLive(j)
      <4>1. swapped'[j] /\ pc'[j] = "unlink" /\ status' = status /\ pc[j] = "promote"
        BY <3>5 DEF MoveStagingToLive, At, Goto, row, TypeOK
      <4> QED BY <3>2, <4>1 DEF Told, Tells, Unended, SwapTail, BeforeSwap
    <3> QED BY <3>2, <3>3, <3>4, <3>5 DEF Told
  <2>2. ASSUME NEW j \in Jobs, Request(j) PROVE Told' /\ \A i \in Jobs : Unended(i)'
    <3>1. /\ pc[j] = "unused" /\ pc' = [pc EXCEPT ![j] = "run"]
          /\ status' = [status EXCEPT ![j] = "pending"]
          /\ UNCHANGED <<report, swapped, cacheFresh>> /\ ~swapped[j]
      BY <2>2, RequestAccepts, AcceptIsFresh DEF Accept, SwapOrder
    <3>2. pc \in [Jobs -> PCs] /\ status \in [Jobs -> Statuses]
      BY DEF TypeOK
    <3> QED BY <3>1, <3>2 DEF Told, Tells, Unended, Terminal
  <2>3. CASE Crash
    <3>1. /\ pc' = [i \in Jobs |-> IF pc[i] = "unused" THEN "unused" ELSE "done"]
          /\ UNCHANGED <<status, report, swapped, cacheFresh>>
          /\ \A i \in Jobs : pc[i] = "unused" => ~swapped[i]
      BY <2>3 DEF Crash, row, SwapOrder
    <3> QED BY <3>1 DEF Told, Tells, Unended, BeforeSwap, SwapTail
  <2>4. CASE Boot
    <3>1. /\ UNCHANGED <<pc, swapped, cacheFresh>>
          /\ \A i \in Jobs : /\ Interrupted(i) => status'[i] = "failed" /\ report'[i] = "interrupted"
                             /\ ~Interrupted(i) => status'[i] = status[i] /\ report'[i] = report[i]
      BY <2>4 DEF Boot, worker
    <3>2. \A i \in Jobs : pc[i] \in {"unused", "done"}
      BY <2>4 DEF Boot, DownMeansDone
    <3> QED BY <3>1, <3>2 DEF Told, Tells, Unended, BeforeSwap, SwapTail, Interrupted,
          Terminal, SwapOrder
  <2>5. CASE Endpoint \/ BootUnreconciled \/ UNCHANGED vars
    <3>1. UNCHANGED <<status, report, pc, swapped, cacheFresh>>
      BY <2>5, EndpointFrame DEF BootUnreconciled, vars, row, worker
    <3> QED BY <3>1 DEF Told, Tells, Unended
  <2>6. ASSUME NEW j \in Jobs, ThreadLost(j) PROVE Told' /\ \A i \in Jobs : Unended(i)'
    <3>1. /\ pc[j] = "run" /\ pc' = [pc EXCEPT ![j] = "done"] /\ pc \in [Jobs -> PCs]
          /\ UNCHANGED <<status, report, swapped, cacheFresh>>
      BY <2>6, ThreadLostFrame DEF row, TypeOK
    <3> QED BY <3>1 DEF Told, Tells, Unended, BeforeSwap, SwapTail
  <2> QED BY <2>1, <2>2, <2>3, <2>4, <2>5, <2>6 DEF Next, Endpoint
<1> QED BY <1>1, <1>2, FilesHold, OrderHolds, PTL DEF Spec

-----------------------------------------------------------------------------
(* The served dataset                                                      *)

\* What a swap would replace.
Base(j) == IF pc[j] = "promote" THEN Recoverable ELSE live

\* What is to be swapped in keeps the years of the old one, or takes one out.
Allowed(new, old) ==
    \/ Present(old) \subseteq Present(new)
    \/ \E y \in Present(old) : new = Without(old, {y})

\* Loaded from files that were copied to their end.
Whole(d)  == \A y \in Years : d[y] # Corrupt
Undamaged == Whole(live) /\ Whole(prev)

\* What a worker prepares is a dataset that may replace the one there is.
Prepared(j) ==
    /\ pc[j] \in Ready => /\ staging # NoDB /\ Whole(staging)
                          /\ stranded \/ blind \/ Allowed(staging, Base(j))
    /\ pc[j] = "promote" => live = NoDB
    /\ pc[j] = "build" => IF kind[j] = "upload"
                          THEN blind \/ Present(live) \subseteq Present(dataDir)
                          ELSE kind[j] = "integrate" /\ Present(live) \subseteq Present(src[j])
    /\ pc[j] = "fetch" => Present(live) \subseteq Present(src[j]) \cup todo[j]
    /\ pc[j] \in {"run", "remove"} /\ kind[j] = "remove" => \E y \in Years : todo[j] = {y}
    /\ pc[j] = "unlink" => live # NoDB

\* Without a live database the old one is stranded, or about to be replaced.
Withdrawn ==
    /\ stranded => live = NoDB /\ prev # NoDB
    /\ live = NoDB /\ prev # NoDB /\ ~stranded => \E j \in Jobs : pc[j] = "promote"

\* A database without a year is none.
LEMMA NoYears ==
    ASSUME NEW d \in Dir
    PROVE  Present(d) = {} <=> d = NoDB
BY DEF Present, NoDB, Dir

\* A worker prepares what may be swapped in.
LEMMA PreparedStep ==
    ASSUME TypeOK, SingleFlight, SwapOrder, NEW j \in Jobs, RightKind(j), Prepared(j), Withdrawn,
           Undamaged, Work(j) \/ Exception(j)
    PROVE  Prepared(j)'
<1> USE DEF row, db, dirs, Prepared, Ready
<1>0. /\ pc \in [Jobs -> PCs] /\ src \in [Jobs -> Dir] /\ todo \in [Jobs -> SUBSET Years]
      /\ kind' = kind /\ live \in Dir /\ prev \in Dir /\ staging \in Dir /\ dataDir \in Dir
  BY OthersKept DEF TypeOK
<1>90. ASSUME UNCHANGED <<live, prev, staging, stranded, blind>>, pc[j] \in Ready \ {"promote"},
             pc'[j] \in Ready \ {"promote"}
       PROVE  Prepared(j)'
  BY <1>0, <1>90 DEF Base, Allowed, Whole
<1>1. CASE SetRunning(j)
  BY <1>1, <1>0 DEF SetRunning, Step, Goto, At, Fault, RightKind, BeforeSwap, AfterSwap,
      SwapTail, hist
<1>2. CASE Preflight(j)
  BY <1>2, <1>0 DEF Preflight, Refuse, SetStatus, Step, Goto, At, Fault, RightKind,
      BeforeSwap, AfterSwap, SwapTail, hist
<1>3. CASE StageAside(j)
  BY <1>3, <1>0 DEF StageAside, Step, Goto, At, Fault, RightKind, BeforeSwap, AfterSwap,
      SwapTail, hist
<1>4. CASE StageCopy(j)
  BY <1>4, <1>0 DEF StageCopy, Step, Goto, At, Fault, RightKind, BeforeSwap, AfterSwap,
      SwapTail, hist
<1>5. CASE Staged(j)
  BY <1>5, <1>0 DEF Staged, Step, Goto, At, Fault, RightKind, BeforeSwap, AfterSwap,
      SwapTail, hist
<1>6. CASE Guard(j)
  BY <1>6, <1>0 DEF Guard, NoDroppedYears, Refuse, Step, Goto, At, RightKind, Present, hist
<1>7. CASE Union(j)
  <2>1. CASE Refuse(j)
    BY <1>0, <2>1 DEF Refuse, Step, Goto
  <2>2. CASE ~Refuse(j)
    BY <1>7, <1>0, <2>2 DEF Union, UnionWith, Step, Goto, Present
  <2> QED BY <2>1, <2>2
<1>8. CASE Fetch(j)
  <2>1. PICK y \in todo[j], r \in Releases :
            src' = [src EXCEPT ![j][y] = r] /\ todo' = [todo EXCEPT ![j] = @ \ {y}]
    BY <1>8 DEF Fetch
  <2>2. r # Absent /\ y \in Years
    BY <1>0, <2>1, ConstantsAssumption DEF ConstantsAssumption
  <2>3. Present(src'[j]) \cup todo'[j] = Present(src[j]) \cup todo[j]
    BY <1>0, <2>1, <2>2 DEF Present, Dir
  <2> QED BY <1>8, <1>0, <2>3 DEF Fetch, Step, Goto, At, Present
<1>9. CASE Fetched(j)
  BY <1>9, <1>0 DEF Fetched, Step, Goto, At, RightKind, Present
<1>10. CASE Remove(j)
  <2>1. pc[j] = "remove" /\ kind[j] = "remove" /\ live' = live
    BY <1>10 DEF Remove, At, RightKind
  <2>2. CASE Refuse(j)
    BY <1>0, <2>2 DEF Refuse, Step, Goto
  <2>3. CASE ~Refuse(j)
    <3>1. PICK y \in Years : todo[j] = {y}
      BY <2>1
    <3>2. /\ y \in Present(live) /\ Present(live) # {y} /\ staging' = Without(live, {y})
          /\ pc'[j] = "check"
      BY <1>10, <1>0, <2>3, <3>1 DEF Remove, Step, Goto
    <3>3. PICK z \in Present(live) : z # y
      BY <3>2
    <3>4. staging'[z] # Absent /\ z \in Years
      BY <3>2, <3>3 DEF Without, Present
    <3>5. staging' # NoDB
      BY <3>4 DEF NoDB
    <3>6. Whole(staging')
      BY <3>2, ConstantsAssumption DEF Undamaged, Whole, Without, ConstantsAssumption
    <3>7. Allowed(staging', live)
      BY <3>2 DEF Allowed
    <3> QED BY <2>1, <3>2, <3>5, <3>6, <3>7 DEF Base, Allowed, Present, Whole
  <2> QED BY <2>2, <2>3
<1>11. CASE Build(j)
  <2>1. /\ pc[j] = "build" /\ pc'[j] = "check" /\ live' = live /\ staging' = Source(j)
        /\ Source(j) # NoDB /\ blind' = blind
    BY <1>11, <1>0 DEF Build, Step, Goto, At, Loadable, hist
  <2>2. blind \/ Present(live) \subseteq Present(Source(j))
    BY <2>1 DEF Source
  <2>3. Whole(staging')
    BY <1>11, <2>1 DEF Build, Loadable, Whole
  <2> QED BY <2>1, <2>2, <2>3 DEF Base, Allowed, Present, Whole
<1>12. CASE BuildFails(j)
  BY <1>12, <1>0 DEF BuildFails, Refuse, SetStatus, Step, Goto, At, Fault, RightKind,
      BeforeSwap, AfterSwap, SwapTail, hist
<1>13. CASE StartChecks(j)
  <2>1. /\ UNCHANGED <<live, prev, staging, stranded, blind>>
        /\ pc[j] = "check" /\ pc'[j] = "verdict"
    BY <1>13, <1>0 DEF StartChecks, Step, Goto, At, hist
  <2> QED BY <1>90, <2>1
<1>14. CASE Verdict(j)
  <2>1. pc[j] = "verdict" /\ UNCHANGED <<live, prev, stranded, blind>>
    BY <1>14 DEF Verdict, At, Refuse, Step, hist
  <2>2. CASE Refuse(j)
    BY <2>2, <1>0 DEF Refuse, Step, Goto
  <2>3. CASE Step(j, "aside") /\ UNCHANGED <<row, staging>>
    BY <1>0, <1>90, <2>1, <2>3 DEF Step, Goto
  <2> QED BY <1>14, <2>2, <2>3 DEF Verdict
<1>15. CASE MoveLiveAside(j)
  <2>1. /\ pc[j] = "aside" /\ pc'[j] = "promote" /\ UNCHANGED <<staging, stranded, blind>>
        /\ IF live # NoDB THEN prev' = live /\ live' = NoDB ELSE UNCHANGED <<live, prev>>
    BY <1>15, <1>0 DEF MoveLiveAside, Step, Goto, At, hist
  <2>2. \A i \in Jobs : pc[i] # "promote"
    BY <2>1 DEF SingleFlight, Active
  <2>3. stranded \/ Recoverable' = live
    BY <2>1, <2>2 DEF Recoverable, Withdrawn
  <2> QED BY <1>0, <2>1, <2>3 DEF Base, Allowed, Present, Whole
<1>16. CASE MoveStagingToLive(j)
  BY <1>16, <1>0 DEF MoveStagingToLive, Step, Goto, At, Fault, RightKind, BeforeSwap,
      AfterSwap, SwapTail, hist
<1>17. CASE UnlinkPrev(j)
  BY <1>17, <1>0 DEF UnlinkPrev, Step, Goto, At, Fault, RightKind, BeforeSwap, AfterSwap,
      SwapTail, hist
<1>18. CASE NoteSwap(j)
  BY <1>18, <1>0 DEF NoteSwap, Step, Goto, At, Fault, RightKind, BeforeSwap, AfterSwap,
      SwapTail, hist
<1>19. CASE BumpAndInvalidate(j)
  BY <1>19, <1>0 DEF BumpAndInvalidate, AfterTail, Step, Goto, At, Fault, RightKind,
      BeforeSwap, AfterSwap, SwapTail, hist
<1>20. CASE CaveatInstead(j)
  BY <1>20, <1>0 DEF CaveatInstead, AfterTail, Step, Goto, At, Fault, RightKind, BeforeSwap,
      AfterSwap, SwapTail, hist
<1>21. CASE SetSwapped(j)
  BY <1>21, <1>0 DEF SetSwapped, SetStatus, Step, Goto, At, Fault, RightKind, BeforeSwap,
      AfterSwap, SwapTail, hist
<1>22. CASE RecordProvenance(j)
  BY <1>22, <1>0 DEF RecordProvenance, AfterProvenance, Step, Goto, At, Fault, RightKind,
      BeforeSwap, AfterSwap, SwapTail, hist
<1>23. CASE SweepBackups(j)
  BY <1>23, <1>0 DEF SweepBackups, Step, Goto, At, Fault, RightKind, BeforeSwap, AfterSwap,
      SwapTail, hist
<1>24. CASE RestoreAll(j)
  BY <1>24, <1>0 DEF RestoreAll, Step, Goto, At, Fault, RightKind, BeforeSwap, AfterSwap,
      SwapTail, hist
<1>25. CASE HandleException(j)
  BY <1>25, <1>0 DEF HandleException, SayWhatHappened, Warned, SetStatus, Step, Goto, At,
      Fault, RightKind, BeforeSwap, AfterSwap, SwapTail, hist
<1>26. CASE Finally(j)
  BY <1>26, <1>0 DEF Finally, UnlinkUploads, Uploaded, Step, Goto, At, Fault, RightKind, BeforeSwap,
      AfterSwap, SwapTail, hist
<1>27. CASE Release(j)
  BY <1>27, <1>0 DEF Release, Forget, Step, Goto, At, Fault, RightKind, BeforeSwap,
      AfterSwap, SwapTail, hist
<1>28. CASE MoveAsideRaises(j)
  BY <1>28, <1>0 DEF MoveAsideRaises, Step, Goto, At, Fault, RightKind, BeforeSwap,
      AfterSwap, SwapTail, hist
<1>29. CASE CopyRaises(j)
  BY <1>29, <1>0 DEF CopyRaises, Step, Goto, At, Fault, RightKind, BeforeSwap, AfterSwap,
      SwapTail, hist
<1>30. CASE SetSwappedRaises(j)
  BY <1>30, <1>0 DEF SetSwappedRaises, Warned, Step, Goto, At, Fault, RightKind, BeforeSwap,
      AfterSwap, SwapTail, hist
<1>31. CASE ProvenanceRaises(j)
  BY <1>31, <1>0 DEF ProvenanceRaises, AfterProvenance, Warned, Step, Goto, At, Fault,
      RightKind, BeforeSwap, AfterSwap, SwapTail, hist
<1>32. CASE RestoreRaises(j)
  BY <1>32, <1>0 DEF RestoreRaises, Step, Goto, At, Fault, RightKind, BeforeSwap, AfterSwap,
      SwapTail, hist
<1>33. CASE HandlerRaises(j)
  BY <1>33, <1>0 DEF HandlerRaises, Step, Goto, At, Fault, RightKind, BeforeSwap, AfterSwap,
      SwapTail, hist
<1>34. CASE Raises(j)
  BY <1>34, <1>0 DEF Raises, CaughtAt, Step, Goto, At, Fault, RightKind, BeforeSwap,
      AfterSwap, SwapTail, hist
<1> QED
  BY <1>1, <1>2, <1>3, <1>4, <1>5, <1>6, <1>7, <1>8, <1>9, <1>10, <1>11, <1>12, <1>13,
    <1>14, <1>15, <1>16, <1>17, <1>18, <1>19, <1>20, <1>21, <1>22, <1>23, <1>24, <1>25,
    <1>26, <1>27, <1>28, <1>29, <1>30, <1>31, <1>32, <1>33, <1>34 DEF Work, Exception

\* The dataset's own variables only move in the swap, or when it is given up.
LEMMA ServedQuiet ==
    ASSUME NEW j \in Jobs, Request(j) \/ Work(j) \/ Exception(j),
           ~MoveLiveAside(j), ~MoveStagingToLive(j), ~UnlinkPrev(j), ~Raises(j)
    PROVE  UNCHANGED <<live, prev, stranded>>
BY DEF Request, StartImport, Integrate, Deintegrate, Accept, Work, Exception, SetRunning,
    Preflight, StageAside,
   StageCopy, Staged, Guard, Union, Fetch, Fetched, Remove, Build, BuildFails, StartChecks, Verdict,
   NoteSwap, BumpAndInvalidate, CaveatInstead, SetSwapped, RecordProvenance, SweepBackups,
   RestoreAll, HandleException, Finally, Release, MoveAsideRaises, CopyRaises, SetSwappedRaises,
   ProvenanceRaises, RestoreRaises, HandlerRaises, Step, Refuse, db, hist

\* What is prepared is compared with it, but where the guard could not read it.
LEMMA GuardedQuiet ==
    ASSUME NEW j \in Jobs, Request(j) \/ Work(j) \/ Exception(j), ~Guard(j), ~Release(j)
    PROVE  blind' = blind
BY DEF Request, StartImport, Integrate, Deintegrate, Accept, Work, Exception, SetRunning,
    Preflight, StageAside,
   StageCopy, Staged, Union, Fetch, Fetched, Remove, Build, BuildFails, StartChecks, Verdict,
   MoveLiveAside, MoveStagingToLive, UnlinkPrev, Raises,
   NoteSwap, BumpAndInvalidate, CaveatInstead, SetSwapped, RecordProvenance, SweepBackups,
   RestoreAll, HandleException, Finally, MoveAsideRaises, CopyRaises, SetSwappedRaises,
   ProvenanceRaises, RestoreRaises, HandlerRaises, Step, Refuse, hist

\* What the dataset that is served relies on.
ServedInv == Withdrawn /\ Undamaged /\ \A j \in Jobs : Prepared(j)

\* The swap moves whole datasets, and nothing else touches them.
LEMMA UndamagedStep ==
    ASSUME NEW j \in Jobs, Prepared(j), Undamaged, Request(j) \/ Work(j) \/ Exception(j)
    PROVE  Undamaged'
<1>0. Whole(NoDB)
  BY ConstantsAssumption DEF Whole, NoDB, ConstantsAssumption
<1>1. CASE MoveLiveAside(j)
  BY <1>0, <1>1 DEF MoveLiveAside, Undamaged, Whole
<1>2. CASE MoveStagingToLive(j)
  BY <1>2 DEF MoveStagingToLive, At, Prepared, Ready, Undamaged, Whole
<1>3. CASE UnlinkPrev(j)
  BY <1>0, <1>3 DEF UnlinkPrev, Undamaged, Whole
<1>4. CASE Raises(j)
  BY <1>4 DEF Raises, db, Undamaged, Whole
<1>5. CASE ~MoveLiveAside(j) /\ ~MoveStagingToLive(j) /\ ~UnlinkPrev(j) /\ ~Raises(j)
  BY <1>5, ServedQuiet DEF Undamaged, Whole
<1> QED
  BY <1>1, <1>2, <1>3, <1>4, <1>5

\* Only the swap and its failure leave the rename to come.
LEMMA SwapLabels ==
    ASSUME NEW j \in Jobs, pc[j] = "promote", Work(j) \/ Exception(j),
           ~MoveStagingToLive(j), ~Raises(j)
    PROVE  FALSE
BY DEF Work, Exception, SetRunning, Preflight, StageAside, StageCopy, Staged, Guard, Union,
    Fetch,
   Fetched, Remove, Build, BuildFails, StartChecks, Verdict, MoveLiveAside, UnlinkPrev, NoteSwap,
   BumpAndInvalidate, CaveatInstead, SetSwapped, RecordProvenance, SweepBackups, RestoreAll,
   HandleException, Finally, Release, MoveAsideRaises, CopyRaises, SetSwappedRaises,
   ProvenanceRaises, RestoreRaises, HandlerRaises, At

\* A step of the worker keeps the old dataset where the swap, or a repair, finds it.
LEMMA WithdrawnStep ==
    ASSUME TypeOK, SingleFlight, SwapOrder, NEW j \in Jobs, RightKind(j), Prepared(j), Withdrawn,
           Work(j) \/ Exception(j)
    PROVE  Withdrawn'
<1>0. /\ pc \in [Jobs -> PCs] /\ \A i \in Jobs \ {j} : pc'[i] = pc[i] /\ pc[i] # "promote"
      /\ pc'[j] \in PCs
  BY WorkFrame, TypeStep DEF TypeOK, SingleFlight, Active
<1>1. CASE MoveLiveAside(j)
  <2>1. pc[j] = "aside" /\ pc'[j] = "promote" /\ stranded' = stranded
    BY <1>0, <1>1 DEF MoveLiveAside, At, Step, Goto, hist
  <2> QED
    BY <1>0, <1>1, <2>1 DEF MoveLiveAside, Withdrawn
<1>2. CASE MoveStagingToLive(j)
  BY <1>2 DEF MoveStagingToLive, At, Prepared, Ready, Withdrawn
<1>3. CASE UnlinkPrev(j)
  BY <1>3 DEF UnlinkPrev, At, Step, hist, Prepared, Withdrawn
<1>4. CASE Raises(j)
  <2>1. UNCHANGED <<live, prev>> /\ stranded' = (stranded \/ Strands(j))
    BY <1>4 DEF Raises, db
  <2>2. \A i \in Jobs : pc[i] = "promote" => i = j
    BY <1>0
  <2> QED
    BY <2>1, <2>2 DEF Withdrawn, Strands
<1>5. CASE ~MoveLiveAside(j) /\ ~MoveStagingToLive(j) /\ ~UnlinkPrev(j) /\ ~Raises(j)
  <2>1. UNCHANGED <<live, prev, stranded>>
    BY <1>5, ServedQuiet
  <2>2. pc[j] # "promote"
    BY <1>5, SwapLabels
  <2> QED
    BY <1>0, <2>1, <2>2 DEF Withdrawn
<1> QED
  BY <1>1, <1>2, <1>3, <1>4, <1>5

\* What is served stays recoverable, and what replaces it is fit to, in every
\* reachable state.
LEMMA ServedHolds == Spec => []ServedInv
<1>1. Init => ServedInv
  <2>1. ASSUME Init PROVE Undamaged
    BY <2>1, ConstantsAssumption DEF Init, Undamaged, Whole, NoDB, ConstantsAssumption
  <2> QED
    BY <2>1 DEF Init, ServedInv, Withdrawn, Prepared, Ready
<1>2. TypeOK /\ SingleFlight /\ SwapOrder /\ FilesInv /\ ServedInv /\ [Next]_vars => ServedInv'
  <2> SUFFICES ASSUME TypeOK, SingleFlight, SwapOrder, FilesInv, ServedInv, [Next]_vars
               PROVE  ServedInv'
    OBVIOUS
  <2>1. ASSUME NEW j \in Jobs, Work(j) \/ Exception(j) PROVE ServedInv'
    <3>1. Withdrawn' /\ Undamaged' /\ Prepared(j)'
      BY <2>1, WithdrawnStep, UndamagedStep, PreparedStep DEF FilesInv, ServedInv
    <3>2. ASSUME NEW i \in Jobs \ {j} PROVE Prepared(i)'
      <4>1. pc'[i] = pc[i] /\ pc[i] \in {"unused", "done"}
        BY <2>1, WorkFrame DEF TypeOK, SingleFlight, Active
      <4> QED
        BY <4>1 DEF Prepared, Ready
    <3> QED
      BY <3>1, <3>2 DEF ServedInv
  <2>2. ASSUME NEW j \in Jobs, Request(j) PROVE ServedInv'
    <3>0. \E k \in Kinds : \E files, work :
              /\ Accept(j, k, files, work)
              /\ k = "remove" => \E y \in Years : work = {y}
      BY <2>2 DEF Request, StartImport, Integrate, Deintegrate, Kinds, IntegratedStarts,
          Present
    <3>1. PICK k, files, work : /\ k \in Kinds /\ Accept(j, k, files, work)
                                /\ k = "remove" => \E y \in Years : work = {y}
      BY <3>0, Zenon
    <3>2. /\ pc' = [pc EXCEPT ![j] = "run"] /\ kind' = [kind EXCEPT ![j] = k]
          /\ todo' = [todo EXCEPT ![j] = work] /\ UNCHANGED <<live, prev, stranded>>
          /\ lock = Asking
      BY <3>1, AcceptIsFresh DEF Accept, db
    <3>3. \A i \in Jobs : pc[i] \in {"unused", "done"}
      BY <3>2, EndpointIdle DEF Active
    <3>4. Withdrawn' /\ Undamaged'
      BY <3>2, <3>3 DEF ServedInv, Withdrawn, Undamaged, Whole
    <3>5. ASSUME NEW i \in Jobs PROVE Prepared(i)'
      BY <3>1, <3>2, <3>3 DEF Prepared, Ready, TypeOK
    <3> QED
      BY <3>4, <3>5 DEF ServedInv
  <2>6. ASSUME NEW j \in Jobs, ThreadLost(j) PROVE ServedInv'
    <3>1. /\ \A i \in Jobs : pc[i] # "promote" /\ pc'[i] \in {"unused", "done"}
          /\ UNCHANGED <<live, prev, stranded>>
      BY <2>6, ThreadLostFrame DEF db, SingleFlight, Active, TypeOK
    <3> QED
      BY <3>1 DEF ServedInv, Withdrawn, Undamaged, Whole, Prepared, Ready
  <2>3. CASE Endpoint
    <3>1. \A i \in Jobs : pc[i] \in {"unused", "done"}
      BY <2>3, EndpointFrame, EndpointIdle DEF Active
    <3>2. UNCHANGED <<live, prev, stranded, pc>>
      BY <2>3, EndpointFrame DEF db, worker
    <3> QED
      BY <3>1, <3>2 DEF ServedInv, Withdrawn, Undamaged, Whole, Prepared, Ready
  <2>4. CASE Crash
    <3>1. /\ \A i \in Jobs : pc'[i] \in {"unused", "done"}
          /\ UNCHANGED <<live, prev>> /\ stranded' = (stranded \/ \E i \in Jobs : Strands(i))
      BY <2>4 DEF Crash, db
    <3> QED
      BY <3>1 DEF ServedInv, Withdrawn, Undamaged, Whole, Prepared, Ready, Strands
  <2>5. CASE Boot \/ BootUnreconciled \/ UNCHANGED vars
    <3>1. UNCHANGED <<live, prev, staging, stranded, blind, dataDir, pc, kind, src, todo>>
      BY <2>5 DEF Boot, BootUnreconciled, vars, db, dirs, row, worker, hist
    <3> QED
      BY <3>1 DEF ServedInv, Withdrawn, Undamaged, Whole, Prepared, Base, Recoverable
  <2> QED
    BY <2>1, <2>2, <2>3, <2>4, <2>5, <2>6 DEF Next, Endpoint
<1> QED
  BY <1>1, <1>2, FilesHold, PTL DEF Spec

\* A step of the pipelines, as the dataset that is served sees it.
LEMMA WorkServes ==
    ASSUME TypeOK, TypeOK', SingleFlight, NEW j \in Jobs, Prepared(j), Prepared(j)', Withdrawn,
           Withdrawn', Work(j) \/ Exception(j)
    PROVE  [Served!Next]_(Served!servedVars)
<1> USE DEF Served!servedVars
<1>0. /\ pc \in [Jobs -> PCs] /\ live \in Dir /\ prev \in Dir /\ staging \in Dir
      /\ live' \in Dir /\ \A i \in Jobs \ {j} : pc[i] # "promote"
  BY WorkFrame DEF TypeOK, SingleFlight, Active
<1>1. CASE MoveLiveAside(j)
  <2>1. pc[j] = "aside" /\ stranded' = stranded /\ blind' = blind
    BY <1>1 DEF MoveLiveAside, At, Step, hist
  <2>2. CASE live = NoDB
    BY <1>1, <2>1, <2>2 DEF MoveLiveAside, Recoverable
  <2>3. CASE live # NoDB
    <3>1. Served!Loaded(live) # {}
      BY <1>0, <2>3, NoYears DEF Served!Loaded, Present
    <3>2. ~stranded
      BY <2>3 DEF Withdrawn
    <3>3. prev' = live /\ live' = NoDB
      BY <1>1, <2>3 DEF MoveLiveAside
    <3> QED
      BY <2>1, <2>3, <3>1, <3>2, <3>3 DEF Recoverable, Served!Next, Served!Withdraw
  <2> QED
    BY <2>2, <2>3
<1>2. CASE MoveStagingToLive(j)
  <2>1. /\ pc[j] = "promote" /\ live = NoDB /\ staging # NoDB /\ live' = staging /\ prev' = prev
        /\ ~stranded' /\ (stranded \/ blind \/ Allowed(staging, Recoverable)) /\ Whole(staging)
        /\ blind' = blind
    BY <1>2 DEF MoveStagingToLive, At, Prepared, Ready, Base
  <2>2. /\ Recoverable' = staging /\ Recoverable' \in [Years -> File \ {Corrupt}]
        /\ Recoverable = prev /\ Served!Loaded(Recoverable') # {}
    BY <1>0, <2>1, NoYears DEF Recoverable, Served!Loaded, Present, Dir, Whole
  <2>3. CASE stranded
    BY <2>1, <2>2, <2>3 DEF Served!Next, Served!Reload
  <2>4. CASE ~stranded
    <3>1. prev = NoDB => Served!Loaded(Recoverable) = {}
      BY <1>0, <2>2, NoYears DEF Served!Loaded, Present
    <3>2. ~blind => Served!Keeps(Recoverable') \/ Served!RemovesOne(Recoverable')
      <4>1. CASE Present(Recoverable) \subseteq Present(staging)
        BY <2>2, <4>1 DEF Served!Keeps, Served!Loaded, Present
      <4>2. CASE \E y \in Present(Recoverable) : staging = Without(Recoverable, {y})
        <5>1. PICK y \in Present(Recoverable) : staging = Without(Recoverable, {y})
          BY <4>2
        <5>2. Recoverable \in [Years -> File]
          BY <1>0, <2>2 DEF Dir
        <5>3. staging = [Recoverable EXCEPT ![y] = Absent]
          BY <5>1, <5>2 DEF Without
        <5> QED
          BY <2>2, <5>1, <5>3 DEF Served!RemovesOne, Served!Loaded, Present
      <4> QED
        BY <2>1, <2>4, <4>1, <4>2 DEF Allowed
    <3> QED
      BY <2>1, <2>2, <2>4, <3>1, <3>2 DEF Served!Next, Served!Publish
  <2> QED
    BY <2>3, <2>4
<1>3. CASE UnlinkPrev(j)
  <2>1. live # NoDB /\ live' = live /\ stranded' = stranded /\ blind' = blind
    BY <1>3 DEF UnlinkPrev, At, Step, hist, Prepared
  <2> QED
    BY <2>1 DEF Recoverable
<1>4. CASE Raises(j)
  <2>1. UNCHANGED <<live, prev, blind>> /\ stranded' = (stranded \/ Strands(j))
    BY <1>4 DEF Raises, db
  <2> QED
    BY <2>1 DEF Recoverable, Strands, Served!Next, Served!Strand
<1>5. CASE ~MoveLiveAside(j) /\ ~MoveStagingToLive(j) /\ ~UnlinkPrev(j) /\ ~Raises(j)
  <2>1. UNCHANGED <<live, prev, stranded>>
    BY <1>5, ServedQuiet
  <2>2. CASE blind' = blind
    BY <2>1, <2>2 DEF Recoverable
  <2>3. CASE blind' # blind
    <3>1. blind \in BOOLEAN /\ blind' \in BOOLEAN
      BY DEF TypeOK
    <3> QED
      BY <2>1, <2>3, <3>1 DEF Recoverable, Served!Next, Served!Overlook, Served!Regard
  <2> QED
    BY <2>2, <2>3
<1> QED
  BY <1>1, <1>2, <1>3, <1>4, <1>5

\* For any number of jobs, years, failures and deaths, the pipelines implement
\* ServedDataset: what is served is made of whole files, a rebuild that could be compared
\* with the live dataset keeps its years, a removal takes one, and a dataset once loaded
\* can be put back until another one is live.
THEOREM DatasetIsServed == Spec => ServedSpec
<1> USE DEF Served!servedVars
<1>1. Init => Served!Init
  <2> SUFFICES ASSUME Init PROVE Served!Init
    OBVIOUS
  <2>1. live \in [Years -> File \ {Corrupt}] /\ prev = NoDB /\ ~stranded /\ ~blind
    BY ConstantsAssumption DEF Init, File, ConstantsAssumption
  <2>2. Recoverable = live
    BY <2>1 DEF Recoverable
  <2> QED
    BY <2>1, <2>2 DEF Served!Init
<1>2. /\ TypeOK /\ TypeOK' /\ SingleFlight /\ ServedInv /\ ServedInv' /\ [Next]_vars
      => [Served!Next]_(Served!servedVars)
  <2> SUFFICES ASSUME TypeOK, TypeOK', SingleFlight, ServedInv, ServedInv', [Next]_vars
               PROVE  [Served!Next]_(Served!servedVars)
    OBVIOUS
  <2>1. ASSUME NEW j \in Jobs, Work(j) \/ Exception(j)
        PROVE  [Served!Next]_(Served!servedVars)
    BY <2>1, WorkServes DEF ServedInv
  <2>2. ASSUME NEW j \in Jobs, Request(j) PROVE UNCHANGED Served!servedVars
    <3>1. UNCHANGED <<live, prev, stranded, blind>>
      BY <2>2 DEF Request, StartImport, Integrate, Deintegrate, Accept, db
    <3> QED
      BY <3>1 DEF Recoverable
  <2>3. CASE Crash
    <3>1. UNCHANGED <<live, prev>> /\ stranded' = (stranded \/ \E i \in Jobs : Strands(i))
          /\ blind' = FALSE /\ blind \in BOOLEAN
      BY <2>3 DEF Crash, db, TypeOK
    <3>2. CASE stranded' = stranded
      BY <3>1, <3>2 DEF Recoverable, Served!Next, Served!Regard
    <3>3. CASE stranded' # stranded
      <4>1. ~stranded /\ stranded' /\ live = NoDB /\ prev # NoDB
        BY <3>1, <3>3 DEF Strands, TypeOK
      <4> QED
        BY <3>1, <4>1 DEF Recoverable, Served!Next, Served!Strand
    <3> QED
      BY <3>2, <3>3
  <2>4. CASE Endpoint \/ Boot \/ BootUnreconciled \/ UNCHANGED vars
    <3>1. UNCHANGED <<live, prev, stranded, blind>>
      BY <2>4, EndpointFrame DEF Boot, BootUnreconciled, vars, db, hist
    <3> QED
      BY <3>1 DEF Recoverable
  <2>5. ASSUME NEW j \in Jobs, ThreadLost(j) PROVE UNCHANGED Served!servedVars
    BY <2>5, ThreadLostFrame DEF db, Recoverable
  <2> QED
    BY <2>1, <2>2, <2>3, <2>4, <2>5 DEF Next, Endpoint
<1> QED
  BY <1>1, <1>2, FilesHold, ServedHolds, PTL DEF Spec, ServedSpec, Served!Spec
-----------------------------------------------------------------------------
(* What is recorded of the live years                                      *)

Undisturbed == faults = 0 /\ crashes = 0

\* The swap is done and what it brought is still to be recorded.
Due(j) == pc[j] \in SwapTail \cup {"prov"} \/ (pc[j] = "status" /\ kind[j] # "remove")

\* While nothing fails, what is recorded fits the database, or will.
Books(j) ==
    Undisturbed /\ Active(j) =>
        /\ pc[j] \notin {"warn", "except"}
        /\ IF Due(j) THEN ProvenanceFits(live, Recorded(j)) ELSE ProvenanceFits(Base(j), prov)
        /\ pc[j] \in Ready => ProvenanceFits(staging, Recorded(j))

\* The loader's directory and the backups hold uploaded files only.
UploadedFile == Contents \cup {Absent, Corrupt}
UploadsOnly  == dataDir \in [Years -> UploadedFile] /\ bak \in [Years -> UploadedFile]

\* What the records rely on.
BooksInv ==
    /\ \A j \in Jobs : Books(j)
    /\ Undisturbed /\ lock \in {Nobody, Asking} => ProvenanceFits(live, prov)
    /\ stranded \/ blind => ~Undisturbed

\* Putting targets back brings uploaded files only.
LEMMA RestoreUploads ==
    ASSUME TypeOK, NEW j \in Jobs, NEW S \in SUBSET Years, Restore(j, S), UploadsOnly
    PROVE  UploadsOnly'
<1>1. CASE RollbackOff(j)
  BY <1>1 DEF Restore, UploadsOnly
<1>2. CASE ~RollbackOff(j)
  <2>1. /\ dataDir' = [y \in Years |-> IF y \in S THEN Restored(j, y) ELSE dataDir[y]]
        /\ bak' = [y \in Years |-> IF y \in S \cap Moved(j) THEN Absent ELSE bak[y]]
    BY <1>2 DEF Restore, Without
  <2>2. \A y \in Years : Restored(j, y) \in UploadedFile
    BY DEF Restored, UploadsOnly, UploadedFile
  <2> QED
    BY <2>1, <2>2 DEF UploadsOnly, UploadedFile
<1> QED
  BY <1>1, <1>2

\* Every step that touches the directory or a backup.
LEMMA UploadsStep ==
    ASSUME TypeOK, NEW j \in Jobs, StagedFiles(j), RightKind(j), UploadsOnly,
           Request(j) \/ Work(j) \/ Exception(j)
    PROVE  UploadsOnly'
<1>1. CASE StageAside(j)
  BY <1>1 DEF StageAside, UploadsOnly, UploadedFile
<1>2. CASE StageCopy(j)
  <2>1. PICK y \in Copying(j) : dataDir' = [dataDir EXCEPT ![y] = src[j][y]]
    BY <1>2 DEF StageCopy
  <2>2. y \in Years /\ src[j][y] \in UploadedFile /\ bak' = bak
    BY <1>2, <2>1 DEF StageCopy, At, StagedFiles, RightKind, Active, Copying, UploadedFile, TypeOK
  <2> QED
    BY <2>1, <2>2 DEF UploadsOnly
<1>3. CASE CopyRaises(j)
  BY <1>3 DEF CopyRaises, UploadsOnly, UploadedFile
<1>4. CASE RestoreAll(j)
  BY <1>4, RestoreUploads DEF RestoreAll
<1>5. CASE RestoreRaises(j)
  BY <1>5, RestoreUploads DEF RestoreRaises
<1>6. CASE HandleException(j)
  BY <1>6, RestoreUploads DEF HandleException
<1>7. CASE HandlerRaises(j)
  BY <1>7, RestoreUploads DEF HandlerRaises
<1>8. CASE SweepBackups(j)
  BY <1>8 DEF SweepBackups, Without, UploadsOnly, UploadedFile
<1>9. CASE Finally(j)
  BY <1>9, FinallyKeeps DEF Finally, UploadsOnly
<1>10. CASE Request(j)
  <2>1. bak' = bak
    BY <1>10 DEF Request, StartImport, Integrate, Deintegrate, Accept
  <2>2. CASE StartImport(j)
    <3>1. PICK files \in [Years -> Contents \cup {Absent}] \ {NoDB} :
              Uploaded(files, Present(files))
      BY <2>2 DEF StartImport
    <3> QED
      BY <2>1, <3>1 DEF Uploaded, Overlay, UploadsOnly, UploadedFile
  <2> QED
    BY <1>10, <2>1, <2>2 DEF Request, Integrate, Deintegrate, UploadsOnly
<1>11. CASE ~(StageAside(j) \/ StageCopy(j) \/ CopyRaises(j) \/ RestoreAll(j) \/ RestoreRaises(j)
              \/ HandleException(j) \/ HandlerRaises(j) \/ SweepBackups(j) \/ Finally(j)
              \/ Request(j))
  <2>1. UNCHANGED <<dataDir, bak>>
    BY <1>11 DEF Work, Exception, SetRunning, Preflight, Staged, Guard, Union, Fetch, Fetched,
       Remove, Build, BuildFails, StartChecks, Verdict, MoveLiveAside, MoveStagingToLive,
       UnlinkPrev, NoteSwap, BumpAndInvalidate, CaveatInstead, SetSwapped, RecordProvenance,
       Release, MoveAsideRaises, SetSwappedRaises, ProvenanceRaises, Raises, dirs
  <2> QED
    BY <2>1 DEF UploadsOnly
<1> QED
  BY <1>1, <1>2, <1>3, <1>4, <1>5, <1>6, <1>7, <1>8, <1>9, <1>10, <1>11

\* The loader's directory is made of uploads in every reachable state.
LEMMA UploadsOnlyHold == Spec => []UploadsOnly
<1>1. Init => UploadsOnly
  <2>0. Init => dataDir \in [Years -> Contents \cup {Absent}]
    BY DEF Init
  <2>1. ASSUME dataDir \in [Years -> Contents \cup {Absent}] PROVE dataDir \in [Years -> UploadedFile]
    BY <2>1 DEF UploadedFile
  <2>2. NoDB \in [Years -> UploadedFile]
    BY DEF NoDB, UploadedFile
  <2> QED
    BY <2>0, <2>1, <2>2 DEF Init, UploadsOnly
<1>2. TypeOK /\ FilesInv /\ UploadsInv /\ UploadsOnly /\ [Next]_vars => UploadsOnly'
  <2> SUFFICES ASSUME TypeOK, FilesInv, UploadsInv, UploadsOnly, [Next]_vars PROVE UploadsOnly'
    OBVIOUS
  <2>1. ASSUME NEW j \in Jobs, Request(j) \/ Work(j) \/ Exception(j) PROVE UploadsOnly'
    BY <2>1, UploadsStep DEF FilesInv, UploadsInv
  <2>2. CASE Acquire
    BY <2>2 DEF Acquire, dirs, UploadsOnly
  <2>5. CASE RequestRefused
    BY <2>5 DEF RequestRefused, UnlinkUploads, Uploaded, Overlay, NoDB, UploadsOnly, UploadedFile
  <2>6. CASE RequestLost
    <3>1. PICK files \in [Years -> Contents \cup {Absent, Corrupt}], S \in SUBSET Years :
              Uploaded(files, S)
      BY <2>6 DEF RequestLost
    <3> QED
      BY <2>6, <3>1 DEF RequestLost, Uploaded, Overlay, UploadsOnly, UploadedFile
  <2>7. CASE \E j \in Jobs : ThreadLost(j)
    BY <2>7 DEF ThreadLost, dirs, UploadsOnly
  <2>3. CASE Crash
    <3>1. CASE \E files \in [Years -> Contents \cup {Corrupt}], S \in SUBSET Years :
                  Uploaded(files, S)
      BY <2>3, <3>1 DEF Crash, Uploaded, Overlay, UploadsOnly, UploadedFile
    <3>2. CASE dataDir' = dataDir \/ \E y \in Years : dataDir' = [dataDir EXCEPT ![y] = Corrupt]
      BY <2>3, <3>2 DEF Crash, UploadsOnly, UploadedFile
    <3> QED
      BY <2>3, <3>1, <3>2 DEF Crash, Copying, TypeOK
  <2>4. CASE Boot \/ BootUnreconciled \/ UNCHANGED vars
    BY <2>4 DEF Boot, BootUnreconciled, vars, dirs, UploadsOnly
  <2> QED
    BY <2>1, <2>2, <2>3, <2>4, <2>5, <2>6, <2>7 DEF Next
<1> QED
  BY <1>1, <1>2, FilesHold, StagedHolds, PTL DEF Spec

\* What a rebuild is made from fits what will be recorded of it: the guard, or the union with
\* the live years, saw to it that no recorded year is missing.
LEMMA BuildFits ==
    ASSUME TypeOK, NEW j \in Jobs, pc[j] = "build", Prepared(j), StagedFiles(j), UploadsOnly,
           ~blind, ProvenanceFits(live, prov), Loadable(Source(j))
    PROVE  ProvenanceFits(Source(j), Recorded(j))
<1>0. /\ \A y \in Years : /\ live[y] \in Releases => prov[y] = live[y]
                          /\ prov[y] = "manual" => live[y] \in Contents
                          /\ prov[y] # "none" => live[y] # Absent
      /\ Contents \cap Releases = {} /\ Absent \notin Contents \cup Releases
      /\ Corrupt \notin Contents \cup Releases /\ "manual" \notin Releases
  BY ConstantsAssumption DEF ProvenanceFits, ConstantsAssumption
<1>1. CASE kind[j] = "upload"
  <2>1. /\ Source(j) = dataDir /\ Present(live) \subseteq Present(dataDir)
        /\ \A y \in Years : dataDir[y] # Corrupt
        /\ \A y \in Years : rec[j][y] # "none" => dataDir[y] \in Contents
    BY <1>1 DEF Source, Loadable, Prepared, StagedFiles, Active
  <2> SUFFICES ASSUME NEW y \in Years
               PROVE  /\ dataDir[y] \in Releases => Recorded(j)[y] = dataDir[y]
                      /\ Recorded(j)[y] = "manual" => dataDir[y] \in Contents
                      /\ Recorded(j)[y] # "none" => dataDir[y] # Absent
    BY <2>1 DEF ProvenanceFits
  <2>2. Recorded(j)[y] = IF rec[j][y] # "none" THEN "manual" ELSE prov[y]
    BY <1>1 DEF Recorded
  <2>3. dataDir[y] \in Contents \cup {Absent}
    BY <2>1 DEF UploadsOnly, UploadedFile
  <2>4. live[y] # Absent => dataDir[y] # Absent
    BY <2>1 DEF Present
  <2> QED
    BY <1>0, <2>1, <2>2, <2>3, <2>4
<1>2. CASE kind[j] = "integrate"
  <2>1. /\ Source(j) = src[j] /\ Present(live) \subseteq Present(src[j])
        /\ src[j] \in [Years -> Releases \cup {Absent}]
    BY <1>2 DEF Source, Prepared, TypeOK
  <2> SUFFICES ASSUME NEW y \in Years
               PROVE  /\ src[j][y] \in Releases => Recorded(j)[y] = src[j][y]
                      /\ Recorded(j)[y] = "manual" => src[j][y] \in Contents
                      /\ Recorded(j)[y] # "none" => src[j][y] # Absent
    BY <2>1 DEF ProvenanceFits
  <2>2. Recorded(j)[y] = IF src[j][y] # Absent THEN src[j][y] ELSE prov[y]
    BY <1>2 DEF Recorded
  <2>3. live[y] # Absent => src[j][y] # Absent
    BY <2>1 DEF Present
  <2> QED
    BY <1>0, <2>1, <2>2, <2>3
<1> QED
  BY <1>1, <1>2 DEF Prepared

\* Taking out a year takes out what is recorded of it.
LEMMA RemovalFits ==
    ASSUME TypeOK, NEW j \in Jobs, kind[j] = "remove", ProvenanceFits(live, prov)
    PROVE  ProvenanceFits(Without(live, todo[j]), Recorded(j))
<1>1. Absent \notin Releases
  BY ConstantsAssumption DEF ConstantsAssumption
<1>2. \A y \in Years : /\ Recorded(j)[y] = IF y \in todo[j] THEN "none" ELSE prov[y]
                       /\ Without(live, todo[j])[y] = IF y \in todo[j] THEN Absent ELSE live[y]
  BY DEF Recorded, Without
<1> QED
  BY <1>1, <1>2 DEF ProvenanceFits

\* The worker forgets no exception, and does not die by itself.
LEMMA StaysDisturbed ==
    ASSUME faults \in Nat, crashes \in Nat, NEW j \in Jobs, Work(j) \/ Exception(j)
    PROVE  faults' >= faults /\ faults' \in Nat /\ crashes' = crashes
<1>1. UNCHANGED bounds \/ Fault
  BY DEF Work, Exception, SetRunning, Preflight, StageAside, StageCopy, Staged, Guard, Union,
   Fetch, Fetched, Remove, Build, BuildFails, StartChecks, Verdict, MoveLiveAside,
   MoveStagingToLive, UnlinkPrev, NoteSwap, BumpAndInvalidate, CaveatInstead, SetSwapped,
   RecordProvenance, SweepBackups, RestoreAll, HandleException, Finally, Release,
   MoveAsideRaises, CopyRaises, SetSwappedRaises, ProvenanceRaises, RestoreRaises,
   HandlerRaises, Raises, Refuse, Step
<1> QED
  BY <1>1 DEF Fault, bounds

\* Only an exception strands the dataset, or blinds the guard.
LEMMA StrandedByFault ==
    ASSUME NEW j \in Jobs, Work(j) \/ Exception(j), ~stranded, ~blind, Undisturbed, Undisturbed'
    PROVE  ~stranded' /\ ~blind'
BY DEF Work, Exception, SetRunning, Preflight, StageAside, StageCopy, Staged, Guard, Union,
   Fetch, Fetched, Remove, Build, BuildFails, StartChecks, Verdict, MoveLiveAside,
   MoveStagingToLive, UnlinkPrev, NoteSwap, BumpAndInvalidate, CaveatInstead, SetSwapped,
   RecordProvenance, SweepBackups, RestoreAll, HandleException, Finally, Release,
   MoveAsideRaises, CopyRaises, SetSwappedRaises, ProvenanceRaises, RestoreRaises,
   HandlerRaises, Raises, Refuse, Step, Fault, hist, Undisturbed

\* A step of the worker keeps the records in step with the database, or owes them.
LEMMA BooksStep ==
    ASSUME TypeOK, SingleFlight, SwapOrder, NEW j \in Jobs, RightKind(j), Prepared(j), Withdrawn,
           StagedFiles(j), UploadsOnly, Books(j), stranded \/ blind => ~Undisturbed, Undisturbed',
           Work(j) \/ Exception(j)
    PROVE  Books(j)'
<1> USE DEF row, db, hist, bounds, Books, Ready, Due, Active
<1>0. /\ pc \in [Jobs -> PCs] /\ kind' = kind /\ faults \in Nat /\ crashes \in Nat
      /\ prov' \in [Years -> {"none", "manual"} \cup Releases]
  BY Bounds, OthersKept, TypeStep DEF TypeOK
<1>90. Active(j) /\ ~stranded /\ ~blind /\ Undisturbed
  <2>1. Active(j)
    BY WorkFrame DEF TypeOK
  <2>2. ASSUME ~Undisturbed PROVE FALSE
    BY <1>0, <2>2, StaysDisturbed DEF Undisturbed
  <2> QED
    BY <2>1, <2>2
<1>91. ASSUME UNCHANGED <<live, prov>>, pc[j] # "promote", pc'[j] # "promote",
              ~Due(j), ~Due(j)', pc'[j] \notin Ready \cup {"warn", "except"}
       PROVE  Books(j)'
  BY <1>0, <1>90, <1>91 DEF Base
<1>92. ASSUME UNCHANGED <<live, prov, rec, src, todo>>, Due(j), Due(j)', pc'[j] # "warn"
       PROVE  Books(j)'
  BY <1>0, <1>90, <1>92 DEF Recorded, ProvenanceFits, SwapTail
<1>1. CASE SetRunning(j)
  BY <1>1, <1>0, <1>91 DEF SetRunning, Step, Goto, At, SwapTail, RightKind
<1>2. CASE Preflight(j)
  BY <1>2, <1>0, <1>91 DEF Preflight, Refuse, SetStatus, Step, Goto, At, SwapTail, RightKind
<1>3. CASE StageAside(j)
  BY <1>3, <1>0, <1>91 DEF StageAside, Step, Goto, At, SwapTail, RightKind
<1>4. CASE StageCopy(j)
  BY <1>4, <1>0, <1>91 DEF StageCopy, Step, Goto, At, SwapTail, RightKind
<1>5. CASE Staged(j)
  BY <1>5, <1>0, <1>91 DEF Staged, Step, Goto, At, SwapTail, RightKind
<1>6. CASE Guard(j)
  BY <1>6, <1>0, <1>91 DEF Guard, Refuse, SetStatus, Step, Goto, At, SwapTail, RightKind
<1>7. CASE Union(j)
  BY <1>7, <1>0, <1>91 DEF Union, Refuse, SetStatus, Step, Goto, At, SwapTail, RightKind
<1>8. CASE Fetch(j)
  BY <1>8, <1>0, <1>91 DEF Fetch, Step, Goto, At, SwapTail, RightKind
<1>9. CASE Fetched(j)
  BY <1>9, <1>0, <1>91 DEF Fetched, Step, Goto, At, SwapTail, RightKind
<1>10. CASE Remove(j)
  <2>1. pc[j] = "remove" /\ kind[j] = "remove" /\ UNCHANGED <<live, prov, rec, src, todo>>
    BY <1>10 DEF Remove, At, RightKind
  <2>2. ProvenanceFits(live, prov)
    BY <1>90, <2>1 DEF Base, SwapTail
  <2>3. CASE Refuse(j)
    BY <1>0, <1>91, <2>1, <2>3 DEF Refuse, Step, Goto, SwapTail
  <2>4. CASE ~Refuse(j)
    <3>1. staging' = Without(live, todo[j]) /\ pc'[j] = "check"
      BY <1>10, <1>0, <2>4 DEF Remove, Step, Goto
    <3>2. ProvenanceFits(Without(live, todo[j]), Recorded(j))
      BY <2>1, <2>2, RemovalFits
    <3> QED BY <1>0, <2>1, <2>2, <3>1, <3>2 DEF Base, SwapTail, ProvenanceFits, Recorded
  <2> QED BY <2>3, <2>4
<1>11. CASE Build(j)
  <2>1. /\ pc[j] = "build" /\ pc'[j] = "check" /\ UNCHANGED <<live, prov, rec, src, todo>>
        /\ staging' = Source(j) /\ Loadable(Source(j))
    BY <1>11, <1>0 DEF Build, At, Step, Goto
  <2>2. ProvenanceFits(live, prov)
    BY <1>90, <2>1 DEF Base, SwapTail
  <2>3. ProvenanceFits(Source(j), Recorded(j))
    BY <1>90, <2>1, <2>2, BuildFits
  <2> QED BY <1>0, <2>1, <2>2, <2>3 DEF Base, SwapTail, ProvenanceFits, Recorded
<1>12. CASE BuildFails(j)
  BY <1>12, <1>0, <1>91 DEF BuildFails, Refuse, SetStatus, Step, Goto, At, SwapTail,
      RightKind
<1>13. CASE StartChecks(j)
  <2>1. /\ pc[j] = "check" /\ pc'[j] = "verdict"
        /\ UNCHANGED <<live, prov, staging, rec, src, todo>>
    BY <1>13, <1>0 DEF StartChecks, At, Step, Goto
  <2> QED BY <1>0, <1>90, <2>1 DEF Base, SwapTail, ProvenanceFits, Recorded
<1>14. CASE Verdict(j)
  <2>1. pc[j] = "verdict" /\ UNCHANGED <<live, prov, rec, src, todo>>
    BY <1>14 DEF Verdict, At
  <2>2. CASE Refuse(j)
    BY <1>0, <1>91, <2>1, <2>2 DEF Refuse, Step, Goto, SwapTail
  <2>3. CASE Step(j, "aside") /\ UNCHANGED <<row, staging>>
    BY <1>0, <1>90, <2>1, <2>3 DEF Step, Goto, Base, SwapTail, ProvenanceFits, Recorded
  <2> QED BY <1>14, <2>2, <2>3 DEF Verdict
<1>15. CASE MoveLiveAside(j)
  <2>1. /\ pc[j] = "aside" /\ pc'[j] = "promote"
        /\ UNCHANGED <<prov, staging, rec, src, todo>>
        /\ IF live # NoDB THEN prev' = live /\ live' = NoDB ELSE UNCHANGED <<live, prev>>
    BY <1>15, <1>0 DEF MoveLiveAside, At, Step, Goto
  <2>2. \A i \in Jobs : pc[i] # "promote"
    BY <2>1 DEF SingleFlight
  <2>3. Recoverable' = live
    BY <1>90, <2>1, <2>2 DEF Recoverable, Withdrawn
  <2> QED BY <1>0, <1>90, <2>1, <2>3 DEF Base, SwapTail, ProvenanceFits, Recorded
<1>16. CASE MoveStagingToLive(j)
  <2>1. /\ pc[j] = "promote" /\ pc'[j] = "unlink"
        /\ UNCHANGED <<prov, rec, src, todo>> /\ live' = staging
    BY <1>16, <1>0 DEF MoveStagingToLive, At, Goto
  <2> QED BY <1>0, <1>90, <2>1 DEF SwapTail, ProvenanceFits, Recorded
<1>17. CASE UnlinkPrev(j)
  BY <1>17, <1>0, <1>92 DEF UnlinkPrev, Step, Goto, At, SwapTail
<1>18. CASE NoteSwap(j)
  BY <1>18, <1>0, <1>92 DEF NoteSwap, Step, Goto, At, SwapTail
<1>19. CASE BumpAndInvalidate(j)
  BY <1>19, <1>0, <1>92 DEF BumpAndInvalidate, AfterTail, Step, Goto, At, SwapTail
<1>20. CASE CaveatInstead(j)
  BY <1>20, <1>90 DEF CaveatInstead, At
<1>21. CASE SetSwapped(j)
  <2>1. CASE kind[j] = "remove"
    BY <1>21, <2>1, <1>0, <1>91 DEF SetSwapped, SetStatus, Step, Goto, At, SwapTail
  <2>2. CASE kind[j] # "remove"
    BY <1>21, <2>2, <1>0, <1>92 DEF SetSwapped, SetStatus, Step, Goto, At, SwapTail
  <2> QED BY <2>1, <2>2
<1>22. CASE RecordProvenance(j)
  <2>1. /\ pc[j] = "prov" /\ pc'[j] = AfterProvenance(j) /\ live' = live /\ prov' = Recorded(j)
    BY <1>22, <1>0 DEF RecordProvenance, At, Step, Goto
  <2>2. ~Due(j)' /\ pc'[j] \notin Ready \cup {"warn", "except"}
    BY <1>0, <1>90, <2>1 DEF AfterProvenance, RightKind, Kinds, SwapTail
  <2> QED BY <1>0, <1>90, <2>1, <2>2 DEF Base
<1>23. CASE SweepBackups(j)
  BY <1>23, <1>0, <1>91 DEF SweepBackups, Step, Goto, At, SwapTail, RightKind
<1>24. CASE RestoreAll(j)
  BY <1>24, <1>0, <1>91 DEF RestoreAll, Step, Goto, At, SwapTail, RightKind
<1>25. CASE HandleException(j)
  BY <1>25, <1>90 DEF HandleException, At
<1>26. CASE Finally(j)
  BY <1>26, <1>0, <1>91 DEF Finally, UnlinkUploads, Uploaded, Step, Goto, At, SwapTail, RightKind
<1>27. CASE Release(j)
  BY <1>27, <1>0, <1>91 DEF Release, Forget, Step, Goto, At, SwapTail, RightKind
<1>28. CASE MoveAsideRaises(j)
  BY <1>28, <1>0 DEF MoveAsideRaises, Fault, Undisturbed
<1>29. CASE CopyRaises(j)
  BY <1>29, <1>0 DEF CopyRaises, Fault, Undisturbed
<1>30. CASE SetSwappedRaises(j)
  BY <1>30, <1>0 DEF SetSwappedRaises, Fault, Undisturbed
<1>31. CASE ProvenanceRaises(j)
  BY <1>31, <1>0 DEF ProvenanceRaises, Fault, Undisturbed
<1>32. CASE RestoreRaises(j)
  BY <1>32, <1>0 DEF RestoreRaises, Fault, Undisturbed
<1>33. CASE HandlerRaises(j)
  BY <1>33, <1>0 DEF HandlerRaises, Fault, Undisturbed
<1>34. CASE Raises(j)
  BY <1>34, <1>0 DEF Raises, Fault, Undisturbed
<1> QED
  BY <1>1, <1>2, <1>3, <1>4, <1>5, <1>6, <1>7, <1>8, <1>9, <1>10, <1>11, <1>12, <1>13,
    <1>14, <1>15, <1>16, <1>17, <1>18, <1>19, <1>20, <1>21, <1>22, <1>23, <1>24, <1>25,
    <1>26, <1>27, <1>28, <1>29, <1>30, <1>31, <1>32, <1>33, <1>34 DEF Work, Exception

\* What is recorded of the years follows the swap, in every reachable state.
LEMMA BooksHold == Spec => []BooksInv
<1>1. Init => BooksInv
  <2>1. ASSUME Init PROVE ProvenanceFits(live, prov)
    BY <2>1, ConstantsAssumption DEF Init, ProvenanceFits, ConstantsAssumption
  <2> QED
    BY <2>1 DEF Init, BooksInv, Books, Active
<1>2. /\ TypeOK /\ SingleFlight /\ SwapOrder /\ FilesInv /\ UploadsInv /\ UploadsOnly
      /\ ServedInv /\ BooksInv /\ [Next]_vars
   => BooksInv'
  <2> SUFFICES ASSUME TypeOK, SingleFlight, SwapOrder, FilesInv, UploadsInv, UploadsOnly,
                      ServedInv, BooksInv, [Next]_vars
               PROVE  BooksInv'
    OBVIOUS
  <2>0. /\ Nobody \notin Jobs /\ Asking \notin Jobs /\ Nobody # Lost /\ Asking # Lost
        /\ faults \in Nat /\ crashes \in Nat
    BY Bounds, NoSuchJob DEF TypeOK
  <2>1. ASSUME NEW j \in Jobs, Work(j) \/ Exception(j) PROVE BooksInv'
    <3>1. CASE ~Undisturbed'
      BY <3>1 DEF BooksInv, Books, Undisturbed
    <3>2. CASE Undisturbed'
      <4>1. Books(j)'
        BY <2>1, <3>2, BooksStep DEF BooksInv, FilesInv, UploadsInv, ServedInv
      <4>2. /\ Active(j) /\ lock = j /\ \A i \in Jobs \ {j} : ~Active(i)'
            /\ lock' = lock \/ (lock' = Nobody /\ pc'[j] = "done")
        BY <2>1, WorkFrame DEF TypeOK, SingleFlight, Active
      <4>3. \A i \in Jobs : Books(i)'
        BY <4>1, <4>2 DEF Books
      <4>4. Undisturbed
        BY <2>0, <2>1, <3>2, StaysDisturbed DEF Undisturbed
      <4>5. lock' \in {Nobody, Asking} => ProvenanceFits(live, prov)'
        <5>1. CASE Release(j)
          BY <4>2, <4>4, <5>1 DEF Release, At, BooksInv, Books, Due, SwapTail, Base, db,
              ProvenanceFits
        <5>2. CASE ~Release(j)
          BY <2>0, <2>1, <4>2, <5>2, OnlyReleaseEnds DEF TypeOK
        <5> QED
          BY <5>1, <5>2
      <4>6. ~stranded' /\ ~blind'
        BY <2>1, <3>2, <4>4, StrandedByFault DEF BooksInv
      <4> QED
        BY <4>3, <4>5, <4>6 DEF BooksInv
    <3> QED
      BY <3>1, <3>2
  <2>2. ASSUME NEW j \in Jobs, Request(j) PROVE BooksInv'
    <3>1. PICK k, files, work : Accept(j, k, files, work)
      BY <2>2, RequestAccepts
    <3>2. /\ lock = Asking /\ lock' = j /\ pc' = [pc EXCEPT ![j] = "run"]
          /\ UNCHANGED <<live, prov, stranded, blind, faults, crashes>>
      BY <3>1, AcceptIsFresh DEF Accept, db, bounds
    <3>3. \A i \in Jobs \ {j} : ~Active(i)'
      BY <3>1, NextIsLatest
    <3>4. Books(j)'
      BY <3>2 DEF Books, Due, Base, SwapTail, Ready, BooksInv, TypeOK, Undisturbed,
          ProvenanceFits
    <3> QED
      BY <2>0, <3>2, <3>3, <3>4 DEF BooksInv, Books, Undisturbed
  <2>3. CASE RequestLost \/ (\E j \in Jobs : ThreadLost(j)) \/ Crash \/ BootUnreconciled
    <3>1. ~Undisturbed'
      <4>1. Fault \/ crashes' = crashes + 1
        BY <2>3 DEF RequestLost, ThreadLost, Crash, BootUnreconciled
      <4> QED
        BY <2>0, <4>1 DEF Fault, Undisturbed
    <3> QED
      BY <3>1 DEF BooksInv, Books, Undisturbed
  <2>5. CASE Acquire \/ RequestRefused
    <3>1. /\ UNCHANGED <<live, prov, pc, stranded, blind, crashes>> /\ faults' >= faults
          /\ faults' \in Nat
          /\ lock \in {Nobody, Asking} /\ \A i \in Jobs : ~Active(i)
      BY <2>5, EndpointFrame, EndpointIdle DEF Endpoint, db, worker
    <3>2. Undisturbed' => Undisturbed
      BY <2>0, <3>1 DEF Undisturbed
    <3> QED
      BY <3>1, <3>2 DEF BooksInv, Books, Active, ProvenanceFits
  <2>4. CASE Boot \/ UNCHANGED vars
    <3>1. UNCHANGED <<live, prev, staging, prov, lock, kind, worker, stranded, blind, faults,
                      crashes>>
      BY <2>4 DEF Boot, vars, db, row, hist, bounds
    <3> QED
      BY <3>1 DEF BooksInv, Books, Undisturbed, worker, Active, Due, Base,
         Recoverable, Recorded, ProvenanceFits
  <2> QED
    BY <2>1, <2>2, <2>3, <2>4, <2>5 DEF Next
<1> QED
  BY <1>1, <1>2, FilesHold, StagedHolds, UploadsOnlyHold, ServedHolds, PTL DEF Spec

\* Whichever handlers failed, answers of the old dataset linger only when a job tells, and
\* without a failure or a death what is recorded of the years fits the live database.
THEOREM CaveatIsThere == Spec => []SwapIsTold
<1>1. Told => CacheStaleIsTold
  BY DEF Told, Tells, CacheStaleIsTold
<1>2. BooksInv => ProvenanceFollowsSwap
  BY DEF BooksInv, ProvenanceFollowsSwap, Undisturbed
<1> QED
  BY <1>1, <1>2, ToldHolds, BooksHold, PTL DEF SwapIsTold
=============================================================================
