---------------------------- MODULE DatasetImport ----------------------------
(***************************************************************************)
(* The dataset lifecycle of backend/app/importer.py: the single-flight     *)
(* import endpoints of routers/admin.py, the three background jobs         *)
(* (run_import, run_integrate, run_deintegrate), the two-rename swap of    *)
(* _activate_staging, the exception handlers around it, and the boot-time  *)
(* reconcile_interrupted_jobs.                                             *)
(*                                                                         *)
(* A database is the function from collection years to the source file     *)
(* each year was loaded from; NoDB (no year at all) stands for a missing   *)
(* ipeds.db, because neither integrity_checks nor run_deintegrate lets an  *)
(* empty one through.                                                      *)
(***************************************************************************)
EXTENDS Integers, FiniteSets

CONSTANTS
    Years,       \* collection years
    Contents,    \* distinguishable uploaded .accdb files for a year
    Releases,    \* what NCES serves for a year, "Provisional" or "Final"
    Absent,      \* no file or no rows for a year
    Corrupt,     \* a file whose copy was cut short
    Nobody,      \* _import_lock is free
    Asking,      \* a request holds it that has no job yet
    Lost,        \* its holder is gone, and it stays held
    MaxJobs,     \* bound: import_jobs rows created
    MaxFaults,   \* bound: exceptions raised by I/O
    MaxCrashes,  \* bound: process deaths
    Aliased      \* UPLOAD_DIR and DATA_DIR name the same directory

ASSUME ConstantsAssumption ==
    /\ Releases \subseteq {"Provisional", "Final"}
    /\ Contents \cap Releases = {}
    /\ Absent # Corrupt
    /\ {Absent, Corrupt} \cap (Contents \cup Releases) = {}
    /\ MaxJobs \in Nat /\ MaxFaults \in Nat /\ MaxCrashes \in Nat
    /\ Aliased \in BOOLEAN
    /\ {Nobody, Asking, Lost} \cap (1..MaxJobs) = {}
    /\ Nobody # Asking /\ Asking # Lost /\ Nobody # Lost

Jobs == 1..MaxJobs
File == Contents \cup Releases \cup {Absent, Corrupt}
Dir  == [Years -> File]
NoDB == [y \in Years |-> Absent]
Present(d) == {y \in Years : d[y] # Absent}

\* d with the entries of S taken from e.
Overlay(d, e, S) == [y \in Years |-> IF y \in S THEN e[y] ELSE d[y]]
Without(d, S)    == [y \in Years |-> IF y \in S THEN Absent ELSE d[y]]

VARIABLES
    live, prev, staging,  \* ipeds.db, ipeds.db.prev, ipeds_staging.db
    dataDir, bak,         \* DATA_DIR/*.accdb and the .accdb.bak beside each
    uploads,              \* UPLOAD_DIR/*.accdb
    prov,                 \* year_provenance rows
    cacheFresh,           \* data_version bumped and answers wiped since the swap
    lock, up,             \* _import_lock; the process serves
    kind, status,         \* the import_jobs row
    report,               \* what its report and log columns tell the admin
    noted,                \* its log says that the swap completed
    pc, swapped,          \* the worker thread and its `swapped` flag
    src, todo,            \* its source files; the years it has still to handle
    rec,                  \* its _Staged records, one per year
    dir0,                 \* history: DATA_DIR when the latest job began
    stranded,             \* history: the old database was left under .prev
    blind,                \* history: the running job was not guarded
    leftover,             \* history: years whose uploaded copy nobody unlinked
    faults, crashes

db     == <<live, prev, staging>>
dirs   == <<dataDir, bak, uploads>>
row    == <<kind, status, report, noted>>
worker == <<pc, swapped, src, todo, rec>>
hist   == <<dir0, stranded, blind, leftover>>
bounds == <<faults, crashes>>
vars   == <<db, dirs, prov, cacheFresh, lock, up, row, worker, hist, bounds>>

Kinds    == {"upload", "integrate", "remove"}
Terminal == {"failed", "swapped"}
Statuses == {"none", "pending", "running", "checks"} \cup Terminal
Reports  == {"", "ok", "refused", "error", "warned", "interrupted"}

\* What a _Staged record says of a target: nothing was there before, the
\* original is still under its own name, or it was moved to the backup.
Records == {"none", "new", "kept", "moved"}

\* Program counters, by where an exception raised there is caught.
BeforeSwap == {"run", "preflight", "stage", "guard", "union", "fetch", "remove",
               "build", "check", "verdict", "aside", "promote"}
SwapTail   == {"unlink", "note", "bump"}
AfterSwap  == {"warn", "status", "prov"}
PCs == BeforeSwap \cup SwapTail \cup AfterSwap
         \cup {"unused", "copy", "restore", "except", "sweep", "finally",
               "release", "done"}

TypeOK ==
    /\ live \in Dir /\ prev \in Dir /\ staging \in Dir
    /\ dataDir \in Dir /\ bak \in Dir /\ uploads \in Dir
    /\ prov \in [Years -> {"none", "manual"} \cup Releases]
    /\ cacheFresh \in BOOLEAN /\ up \in BOOLEAN
    /\ lock \in Jobs \cup {Nobody, Asking, Lost}
    /\ kind \in [Jobs -> Kinds \cup {"none"}]
    /\ status \in [Jobs -> Statuses]
    /\ report \in [Jobs -> Reports]
    /\ noted \in [Jobs -> BOOLEAN]
    /\ pc \in [Jobs -> PCs]
    /\ swapped \in [Jobs -> BOOLEAN]
    /\ src \in [Jobs -> Dir]
    /\ \A j \in Jobs : kind[j] = "integrate"
                          => src[j] \in [Years -> Releases \cup {Absent}]
    /\ todo \in [Jobs -> SUBSET Years]
    /\ rec \in [Jobs -> [Years -> Records]]
    /\ dir0 \in Dir /\ stranded \in BOOLEAN /\ blind \in BOOLEAN
    /\ leftover \in SUBSET Years
    /\ faults \in 0..MaxFaults /\ crashes \in 0..MaxCrashes

NoRecord == [y \in Years |-> "none"]

\* A fresh deployment, or one whose ipeds.db was built by
\* scripts/build_ipeds_db.py from the files in DATA_DIR.
Init ==
    /\ live \in [Years -> Contents \cup {Absent}]
    /\ dataDir = live
    /\ prev = NoDB /\ staging = NoDB /\ bak = NoDB /\ uploads = NoDB
    /\ prov = [y \in Years |-> "none"]
    /\ cacheFresh = TRUE
    /\ lock = Nobody /\ up = TRUE
    /\ kind = [j \in Jobs |-> "none"]
    /\ status = [j \in Jobs |-> "none"]
    /\ report = [j \in Jobs |-> ""]
    /\ noted = [j \in Jobs |-> FALSE]
    /\ pc = [j \in Jobs |-> "unused"]
    /\ swapped = [j \in Jobs |-> FALSE]
    /\ src = [j \in Jobs |-> NoDB]
    /\ todo = [j \in Jobs |-> {}]
    /\ rec = [j \in Jobs |-> NoRecord]
    /\ dir0 = live /\ stranded = FALSE /\ blind = FALSE /\ leftover = {}
    /\ faults = 0 /\ crashes = 0

-----------------------------------------------------------------------------
(* Shorthands                                                              *)

At(j, l)   == up /\ pc[j] = l
Goto(j, l) == pc' = [pc EXCEPT ![j] = l]
Fault      == faults < MaxFaults /\ faults' = faults + 1 /\ UNCHANGED crashes

SetStatus(j, s, r) ==
    /\ status' = [status EXCEPT ![j] = s]
    /\ report' = [report EXCEPT ![j] = r]
    /\ UNCHANGED <<kind, noted>>

\* A caveat appended to the report or the log; the status stays.
Warned(j) ==
    /\ report' = [report EXCEPT ![j] = "warned"]
    /\ UNCHANGED <<kind, status, noted>>

\* A step of the worker that ends at l and changes nothing but what its caller
\* names beside it.
Step(j, l) == Goto(j, l) /\ UNCHANGED <<lock, up, hist, bounds>>

\* A handled failure before the swap: the status first, then the clean-up.
Refuse(j) ==
    /\ SetStatus(j, "failed", "refused")
    /\ Step(j, IF kind[j] = "upload" THEN "restore" ELSE "finally")

-----------------------------------------------------------------------------
(* The admin endpoints: take the lock, validate, create the row, start the *)
(* thread.  A refused request releases the lock again; one whose holder is *)
(* gone before the thread runs does not.                                   *)

IntegratedStarts == Present(live)
NextJob(j) == \A k \in Jobs : pc[k] = "unused" <=> k >= j

\* _import_lock.acquire(blocking=False) succeeds; another request gets a 409.
Acquire ==
    /\ up /\ lock = Nobody /\ lock' = Asking
    /\ \E j \in Jobs : NextJob(j)
    /\ UNCHANGED <<db, dirs, prov, cacheFresh, up, row, worker, hist, bounds>>

\* What accepted requests have in common, create_job() and the closure for the
\* thread: files is what the worker is given, work the years it has to go through.
Accept(j, k, files, work) ==
    /\ up /\ lock = Asking /\ NextJob(j)
    /\ lock' = j
    /\ kind' = [kind EXCEPT ![j] = k]
    /\ status' = [status EXCEPT ![j] = "pending"]
    /\ Goto(j, "run")
    /\ src' = [src EXCEPT ![j] = files]
    /\ todo' = [todo EXCEPT ![j] = work]
    /\ dir0' = dataDir'
    /\ UNCHANGED <<db, bak, prov, cacheFresh, up, report, noted, swapped, rec,
                   stranded, blind, leftover, bounds>>

\* UPLOAD_DIR with the entries of S taken from files.
Uploaded(files, S) ==
    IF Aliased THEN dataDir' = Overlay(dataDir, files, S) /\ UNCHANGED uploads
               ELSE uploads' = Overlay(uploads, files, S) /\ UNCHANGED dataDir

\* The uploaded files are streamed into UPLOAD_DIR, over what is there.
StartImport(j) ==
    \E files \in [Years -> Contents \cup {Absent}] \ {NoDB} :
        /\ Uploaded(files, Present(files))
        /\ Accept(j, "upload", files, Present(files))

\* Unlink the files of the years in S under UPLOAD_DIR.
UnlinkUploads(S) == Uploaded(NoDB, S)

\* A validation fails, or streaming the body does (413, a full disk): every
\* destination opened so far is unlinked and the lock released.
RequestRefused ==
    /\ up /\ lock = Asking /\ lock' = Nobody
    /\ \E S \in SUBSET Years :
          /\ UnlinkUploads(S)
          /\ IF S = {} THEN UNCHANGED bounds ELSE Fault
    /\ UNCHANGED <<db, bak, prov, cacheFresh, up, row, worker, hist>>

\* start_import ends outside its handler: the directory cannot be made, the request
\* is cancelled while it reads, an unlink of the handler raises.  Each upload is whole,
\* cut short or gone, and the lock is not released.
RequestLost ==
    /\ up /\ lock = Asking /\ lock' = Lost /\ Fault
    /\ \E files \in [Years -> Contents \cup {Absent, Corrupt}], S \in SUBSET Years :
          /\ Uploaded(files, S)
          /\ leftover' = leftover \cup S
    /\ UNCHANGED <<db, bak, prov, cacheFresh, up, row, worker, dir0, stranded, blind>>

\* _derive_status: a year is selectable when it is not integrated, or was
\* integrated as Provisional and NCES now offers Final.
Selectable(y) ==
    \/ y \notin IntegratedStarts
    \/ prov[y] = "Provisional" /\ "Final" \in Releases

Integrate(j) ==
    \E S \in (SUBSET Years) \ {{}} :
        /\ \A y \in S : Selectable(y)
        /\ UNCHANGED <<dataDir, uploads>>
        /\ Accept(j, "integrate", NoDB, S)

Deintegrate(j) ==
    \E y \in IntegratedStarts :
        /\ IntegratedStarts # {y}
        /\ UNCHANGED <<dataDir, uploads>>
        /\ Accept(j, "remove", NoDB, {y})

\* The thread ends, and its locals with it.
Forget(S) ==
    /\ src'  = [k \in Jobs |-> IF k \in S THEN NoDB ELSE src[k]]
    /\ todo' = [k \in Jobs |-> IF k \in S THEN {} ELSE todo[k]]
    /\ rec'  = [k \in Jobs |-> IF k \in S THEN NoRecord ELSE rec[k]]

\* Thread.start raises: nobody is left to run the job or to release the lock.
ThreadLost(j) ==
    /\ At(j, "run") /\ Fault
    /\ lock' = Lost /\ Goto(j, "done")
    /\ leftover' = leftover \cup Present(uploads)
    /\ Forget({j})
    /\ UNCHANGED <<db, dirs, prov, cacheFresh, up, row, swapped, dir0, stranded, blind>>

-----------------------------------------------------------------------------
(* The workers up to the staging database                                  *)

\* The thread starts and takes its job.
SetRunning(j) ==
    /\ At(j, "run")
    /\ status' = [status EXCEPT ![j] = "running"]
    /\ Step(j, CASE kind[j] = "upload"    -> "preflight"
                 [] kind[j] = "integrate" -> "union"
                 [] OTHER                 -> "remove")
    /\ UNCHANGED <<db, dirs, prov, cacheFresh, kind, report, noted, swapped, src,
                   todo, rec>>

Preflight(j) ==
    /\ At(j, "preflight")
    /\ \/ Refuse(j)
       \/ Step(j, "stage") /\ UNCHANGED row
    /\ UNCHANGED <<db, dirs, prov, cacheFresh, swapped, src, todo, rec>>

\* Record the target, then move an existing file aside.  In the aliased
\* configuration the upload already is the target and nothing is recorded.
StageAside(j) ==
    /\ At(j, "stage") /\ ~Aliased
    /\ \E y \in todo[j] :
        IF dataDir[y] # Absent
          THEN /\ rec' = [rec EXCEPT ![j][y] = "moved"]
               /\ bak' = [bak EXCEPT ![y] = dataDir[y]]
               /\ dataDir' = [dataDir EXCEPT ![y] = Absent]
          ELSE rec' = [rec EXCEPT ![j][y] = "new"] /\ UNCHANGED <<bak, dataDir>>
    /\ Step(j, "copy")
    /\ UNCHANGED <<db, uploads, prov, cacheFresh, row, swapped, src, todo>>

\* The move raises: the record is there, without a backup.
MoveAsideRaises(j) ==
    /\ At(j, "stage") /\ ~Aliased /\ Fault
    /\ \E y \in todo[j] :
        /\ dataDir[y] # Absent
        /\ rec' = [rec EXCEPT ![j][y] = "kept"]
    /\ Goto(j, "except")
    /\ UNCHANGED <<db, dirs, prov, cacheFresh, lock, up, row, swapped, src, todo,
                   hist>>

\* The target recorded but not yet copied.
Copying(j) == {y \in todo[j] : rec[j][y] # "none"}

StageCopy(j) ==
    /\ At(j, "copy")
    /\ \E y \in Copying(j) :
        /\ dataDir' = [dataDir EXCEPT ![y] = src[j][y]]
        /\ todo' = [todo EXCEPT ![j] = @ \ {y}]
    /\ Step(j, "stage")
    /\ UNCHANGED <<db, bak, uploads, prov, cacheFresh, row, swapped, src, rec>>

CopyRaises(j) ==
    /\ At(j, "copy") /\ Fault
    /\ \E y \in Copying(j), f \in {Absent, Corrupt} :
          dataDir' = [dataDir EXCEPT ![y] = f]
    /\ Goto(j, "except")
    /\ UNCHANGED <<db, bak, uploads, prov, cacheFresh, lock, up, row, swapped, src,
                   todo, rec, hist>>

Staged(j) ==
    /\ At(j, "stage") /\ (todo[j] = {} \/ Aliased)
    /\ todo' = [todo EXCEPT ![j] = {}]
    /\ Step(j, "guard")
    /\ UNCHANGED <<db, dirs, prov, cacheFresh, row, swapped, src, rec>>

\* Mutant: a set of the same size counts as a superset.
NoFewerYears == Cardinality(Present(live)) <= Cardinality(Present(dataDir))

\* _guard_no_dropped_years; a live database that is absent or has no year in it is
\* NoDB, and lets everything through.
NoDroppedYears == Present(live) \subseteq Present(dataDir)

\* It lets everything through too when it cannot read the live database.
Guard(j) ==
    /\ At(j, "guard")
    /\ \/ NoDroppedYears /\ Step(j, "build") /\ UNCHANGED row
       \/ ~NoDroppedYears /\ Refuse(j)
       \/ /\ live # NoDB /\ Fault
          /\ blind' = TRUE /\ Goto(j, "build")
          /\ UNCHANGED <<lock, up, row, dir0, stranded, leftover>>
    /\ UNCHANGED <<db, dirs, prov, cacheFresh, swapped, src, todo, rec>>

UnionWith(j) == todo[j] \cup Present(live)

\* run_integrate: what is live now plus what was selected is fetched anew,
\* unless the estimate says it does not fit on the volume.
Union(j) ==
    /\ At(j, "union")
    /\ \/ Refuse(j) /\ UNCHANGED todo
       \/ /\ todo' = [todo EXCEPT ![j] = UnionWith(j)]
          /\ Step(j, "fetch") /\ UNCHANGED row
    /\ UNCHANGED <<db, dirs, prov, cacheFresh, swapped, src, rec>>

\* Downloads run concurrently, so they finish in any order; a download that
\* fails is Raises.
Fetch(j) ==
    /\ At(j, "fetch")
    /\ \E y \in todo[j], r \in Releases :
        /\ src' = [src EXCEPT ![j][y] = r]
        /\ todo' = [todo EXCEPT ![j] = @ \ {y}]
    /\ Step(j, "fetch")
    /\ UNCHANGED <<db, dirs, prov, cacheFresh, row, swapped, rec>>

Fetched(j) ==
    /\ At(j, "fetch") /\ todo[j] = {}
    /\ Step(j, "build")
    /\ UNCHANGED <<db, dirs, prov, cacheFresh, row, swapped, src, todo, rec>>

\* run_deintegrate: re-check the request against the live database, then
\* delete the year from a copy of it.
Remove(j) ==
    /\ At(j, "remove")
    /\ \/ Refuse(j) /\ UNCHANGED staging
       \/ /\ todo[j] \subseteq Present(live) /\ Present(live) # todo[j]
          /\ staging' = Without(live, todo[j])
          /\ Step(j, "check") /\ UNCHANGED row
    /\ UNCHANGED <<live, prev, dirs, prov, cacheFresh, swapped, src, todo, rec>>

-----------------------------------------------------------------------------
(* build_check_swap, and the checks of run_deintegrate                     *)

\* The directory the loader reads.  It has no year to load, or refuses to
\* treat an unreadable file as empty data, otherwise.
Source(j)   == IF kind[j] = "upload" THEN dataDir ELSE src[j]
Loadable(d) == d # NoDB /\ \A y \in Years : d[y] # Corrupt

Build(j) ==
    /\ At(j, "build") /\ Loadable(Source(j))
    /\ staging' = Source(j)
    /\ Step(j, "check")
    /\ UNCHANGED <<live, prev, dirs, prov, cacheFresh, row, swapped, src, todo, rec>>

\* The loader exits with an error, part of the staging database written.
BuildFails(j) ==
    /\ At(j, "build")
    /\ \E S \in SUBSET Years : staging' = Overlay(NoDB, Source(j), S)
    /\ Refuse(j)
    /\ UNCHANGED <<live, prev, dirs, prov, cacheFresh, swapped, src, todo, rec>>

StartChecks(j) ==
    /\ At(j, "check")
    /\ status' = [status EXCEPT ![j] = "checks"]
    /\ Step(j, "verdict")
    /\ UNCHANGED <<db, dirs, prov, cacheFresh, kind, report, noted, swapped, src,
                   todo, rec>>

\* integrity_checks and deintegrate_checks weigh row counts, so either verdict
\* is possible; a failed rebuild drops the staging database here, a failed
\* removal in its finally.
Verdict(j) ==
    /\ At(j, "verdict")
    /\ \/ Refuse(j) /\ staging' = IF kind[j] = "remove" THEN staging ELSE NoDB
       \/ Step(j, "aside") /\ UNCHANGED <<row, staging>>
    /\ UNCHANGED <<live, prev, dirs, prov, cacheFresh, swapped, src, todo, rec>>

-----------------------------------------------------------------------------
(* _activate_staging and the bookkeeping after it                          *)

MoveLiveAside(j) ==
    /\ At(j, "aside")
    /\ IF live # NoDB THEN prev' = live /\ live' = NoDB ELSE UNCHANGED <<live, prev>>
    /\ Step(j, "promote")
    /\ UNCHANGED <<staging, dirs, prov, cacheFresh, row, swapped, src, todo, rec>>

\* The second rename; on_swapped fires with it.
MoveStagingToLive(j) ==
    /\ At(j, "promote")
    /\ live' = staging /\ staging' = NoDB
    /\ swapped' = [swapped EXCEPT ![j] = TRUE]
    /\ cacheFresh' = FALSE /\ stranded' = FALSE
    /\ Goto(j, "unlink")
    /\ UNCHANGED <<prev, dirs, prov, lock, up, row, src, todo, rec, dir0, blind, leftover,
                   bounds>>

UnlinkPrev(j) ==
    /\ At(j, "unlink")
    /\ prev' = NoDB
    /\ Step(j, "note")
    /\ UNCHANGED <<live, staging, dirs, prov, cacheFresh, row, swapped, src, todo,
                   rec>>

NoteSwap(j) ==
    /\ At(j, "note")
    /\ noted' = [noted EXCEPT ![j] = TRUE]
    /\ Step(j, "bump")
    /\ UNCHANGED <<db, dirs, prov, cacheFresh, kind, status, report, swapped, src,
                   todo, rec>>

\* run_deintegrate tidies year_provenance before its last status write, the
\* other two write the status first.
AfterTail(j) == IF kind[j] = "remove" THEN "prov" ELSE "status"

BumpAndInvalidate(j) ==
    /\ At(j, "bump")
    /\ cacheFresh' = TRUE
    /\ Step(j, AfterTail(j))
    /\ UNCHANGED <<db, dirs, prov, row, swapped, src, todo, rec>>

\* Mutant: the failure is absorbed in silence.
NoCaveat(j) ==
    /\ At(j, "warn")
    /\ Step(j, AfterTail(j))
    /\ UNCHANGED <<db, dirs, prov, cacheFresh, row, swapped, src, todo, rec>>

\* _activate_staging_guarded absorbs a failure after the rename into a caveat.
CaveatInstead(j) ==
    /\ At(j, "warn")
    /\ report' = [report EXCEPT ![j] = "warned"]
    /\ noted' = [noted EXCEPT ![j] = TRUE]
    /\ Step(j, AfterTail(j))
    /\ UNCHANGED <<db, dirs, prov, cacheFresh, kind, status, swapped, src, todo,
                   rec>>

SetSwapped(j) ==
    /\ At(j, "status")
    /\ SetStatus(j, "swapped", IF report[j] = "warned" THEN "warned" ELSE "ok")
    /\ Step(j, IF kind[j] = "remove" THEN "finally" ELSE "prov")
    /\ UNCHANGED <<db, dirs, prov, cacheFresh, swapped, src, todo, rec>>

\* A failed 'swapped' write is absorbed for a rebuild: the caveat goes through
\* separate writes, which may fail as well.
SetSwappedRaises(j) ==
    /\ At(j, "status") /\ kind[j] # "remove" /\ Fault
    /\ Warned(j) \/ UNCHANGED row
    /\ Goto(j, "prov")
    /\ UNCHANGED <<db, dirs, prov, cacheFresh, lock, up, swapped, src, todo, rec,
                   hist>>

\* Mutant: the years that were not fetched are recorded as well.
RecordedEveryYear(j) ==
    [y \in Years |->
        CASE kind[j] = "upload" /\ rec[j][y] # "none" -> "manual"
          [] kind[j] = "integrate"                    -> src[j][y]
          [] kind[j] = "remove" /\ y \in todo[j]      -> "none"
          [] OTHER                                    -> prov[y]]

\* _record_provenance: the files an upload staged are "manual", every year of
\* an integration gets the release fetched; a removal deletes its row.
Recorded(j) ==
    [y \in Years |->
        CASE kind[j] = "upload" /\ rec[j][y] # "none"    -> "manual"
          [] kind[j] = "integrate" /\ src[j][y] # Absent -> src[j][y]
          [] kind[j] = "remove" /\ y \in todo[j]         -> "none"
          [] OTHER                                       -> prov[y]]

\* Where each pipeline goes on from there.
AfterProvenance(j) ==
    CASE kind[j] = "upload"    -> "sweep"
      [] kind[j] = "integrate" -> "finally"
      [] OTHER                 -> "status"

RecordProvenance(j) ==
    /\ At(j, "prov")
    /\ prov' = Recorded(j)
    /\ Step(j, AfterProvenance(j))
    /\ UNCHANGED <<db, dirs, cacheFresh, row, swapped, src, todo, rec>>

\* Absorbed with a caveat; when writing the caveat fails as well, a removal
\* ends in the outer handler and a rebuild goes on without it.
ProvenanceRaises(j) ==
    /\ At(j, "prov") /\ Fault
    /\ \/ Warned(j) /\ Goto(j, AfterProvenance(j))
       \/ /\ UNCHANGED row
          /\ Goto(j, IF kind[j] = "remove" THEN "except" ELSE AfterProvenance(j))
    /\ UNCHANGED <<db, dirs, prov, cacheFresh, lock, up, swapped, src, todo, rec,
                   hist>>

Moved(j) == {y \in Years : rec[j][y] = "moved"}

\* The backups go once the swap has happened; one that cannot be removed is
\* logged and stays.
SweepBackups(j) ==
    /\ At(j, "sweep")
    /\ \E kept \in SUBSET Moved(j) :
        /\ bak' = Without(bak, Moved(j) \ kept)
        /\ IF kept = {} THEN UNCHANGED bounds ELSE Fault
    /\ Goto(j, "finally")
    /\ UNCHANGED <<db, dataDir, uploads, prov, cacheFresh, lock, up, row, swapped,
                   src, todo, rec, hist>>

-----------------------------------------------------------------------------
(* Failure: _restore_data_dir, the outer except, the finally, the lock     *)

\* Mutant: a target without a backup counts as one that did not exist before.
RestoredByBackup(j, y) ==
    CASE rec[j][y] = "none"                        -> dataDir[y]
      [] rec[j][y] = "moved" /\ bak[y] # Absent    -> bak[y]
      [] OTHER                                     -> Absent

\* What _restore_data_dir leaves under the name of year y: only a target that
\* did not exist before may be removed, and a backup already moved back is not
\* missed.
Restored(j, y) ==
    CASE rec[j][y] = "new"                        -> Absent
      [] rec[j][y] = "moved" /\ bak[y] # Absent   -> bak[y]
      [] OTHER                                    -> dataDir[y]

\* _restore_all, for the years in S: nothing once the swap has happened.
RollbackOff(j) == swapped[j]

Restore(j, S) ==
    IF RollbackOff(j) THEN UNCHANGED <<dataDir, bak>>
    ELSE /\ dataDir' = [y \in Years |-> IF y \in S THEN Restored(j, y)
                                                   ELSE dataDir[y]]
         /\ bak' = Without(bak, S \cap Moved(j))

\* After a handled failure of run_import; an exception here replays the whole
\* loop from the outer handler.
RestoreAll(j) ==
    /\ At(j, "restore")
    /\ Restore(j, Years)
    /\ Step(j, "finally")
    /\ UNCHANGED <<db, uploads, prov, cacheFresh, row, swapped, src, todo, rec>>

RestoreRaises(j) ==
    /\ At(j, "restore") /\ Fault
    /\ \E S \in SUBSET Years : Restore(j, S)
    /\ Goto(j, "except")
    /\ UNCHANGED <<db, uploads, prov, cacheFresh, lock, up, row, swapped, src, todo,
                   rec, hist>>

\* Mutant: every exception is reported as a failure.
SayFailed(j) == SetStatus(j, "failed", "error")

\* Once the swap has happened nothing may report the job as failed.
SayWhatHappened(j) ==
    IF swapped[j] THEN Warned(j) ELSE SetStatus(j, "failed", "error")

\* The outer except: restore first, then say what happened.
HandleException(j) ==
    /\ At(j, "except")
    /\ Restore(j, Years)
    /\ SayWhatHappened(j)
    /\ Step(j, "finally")
    /\ UNCHANGED <<db, uploads, prov, cacheFresh, swapped, src, todo, rec>>

\* Mutant: an exception in the handler ends the thread without its finally.
HandlerEndsThread(j) ==
    /\ At(j, "except") /\ Fault
    /\ \E S \in SUBSET Years : Restore(j, S)
    /\ Goto(j, "done")
    /\ UNCHANGED <<db, uploads, prov, cacheFresh, lock, up, row, swapped, src, todo,
                   rec, hist>>

\* It raises itself, half-way through the restore or at the status write; only
\* the finally clauses still run.
HandlerRaises(j) ==
    /\ At(j, "except") /\ Fault
    /\ \E S \in SUBSET Years : Restore(j, S)
    /\ Goto(j, "finally")
    /\ UNCHANGED <<db, uploads, prov, cacheFresh, lock, up, row, swapped, src, todo,
                   rec, hist>>

DiscardableAlways(j) == IF kind[j] = "upload" THEN Present(src[j]) ELSE {}

\* _discard_uploads keeps a copy that is the loader's own source.
Discardable(j) == IF kind[j] = "upload" /\ ~Aliased THEN Present(src[j]) ELSE {}

\* An upload's copies in UPLOAD_DIR, the work directory of an integration, or
\* the staging database of a removal.  A copy that cannot be unlinked is logged and
\* stays, as they all do when the directories cannot be told apart.
Finally(j) ==
    /\ At(j, "finally")
    /\ \E kept \in SUBSET Discardable(j) :
        /\ UnlinkUploads(Discardable(j) \ kept)
        /\ leftover' = leftover \cup kept
        /\ IF kept = {} THEN UNCHANGED bounds ELSE Fault
    /\ staging' = IF kind[j] = "remove" THEN NoDB ELSE staging
    /\ Goto(j, "release")
    /\ UNCHANGED <<live, prev, bak, prov, cacheFresh, lock, up, row, swapped, src, todo, rec,
                   dir0, stranded, blind>>

Release(j) ==
    /\ At(j, "release")
    /\ lock' = Nobody /\ blind' = FALSE
    /\ Goto(j, "done")
    /\ Forget({j})
    /\ UNCHANGED <<db, dirs, prov, cacheFresh, up, row, swapped, dir0, stranded, leftover,
                   bounds>>

\* A statement raises before it has its effect.
CaughtAt(j) == IF pc[j] \in SwapTail THEN "warn" ELSE "except"

Strands(j) == pc[j] = "promote" /\ prev # NoDB /\ live = NoDB

Raises(j) ==
    /\ up /\ Fault
    /\ \/ pc[j] \in BeforeSwap \cup SwapTail \cup {"warn"}
       \/ pc[j] = "status" /\ kind[j] = "remove"
    /\ Goto(j, CaughtAt(j))
    /\ stranded' = (stranded \/ Strands(j))
    /\ UNCHANGED <<db, dirs, prov, cacheFresh, lock, up, row, swapped, src, todo,
                   rec, dir0, blind, leftover>>

-----------------------------------------------------------------------------
(* Process death and the next boot                                         *)

\* The daemon thread dies where it is; a file being copied may be half there, and
\* so may those of a request that reads.
Crash ==
    /\ up /\ crashes < MaxCrashes
    /\ crashes' = crashes + 1 /\ up' = FALSE /\ lock' = Nobody
    /\ pc' = [j \in Jobs |-> IF pc[j] = "unused" THEN "unused" ELSE "done"]
    /\ stranded' = (stranded \/ \E j \in Jobs : Strands(j)) /\ blind' = FALSE
    /\ \/ UNCHANGED <<dataDir, uploads>>
       \/ \E j \in Jobs : /\ pc[j] = "copy" /\ UNCHANGED uploads
                          /\ \E y \in Copying(j) :
                                dataDir' = [dataDir EXCEPT ![y] = Corrupt]
       \/ /\ lock = Asking
          /\ \E files \in [Years -> Contents \cup {Corrupt}], S \in SUBSET Years :
                Uploaded(files, S)
    /\ leftover' = leftover \cup Present(uploads')
    /\ Forget(Jobs)
    /\ UNCHANGED <<db, bak, prov, cacheFresh, row, swapped, dir0, faults>>

\* reconcile_interrupted_jobs, before the application serves.
Interrupted(j) == status[j] \notin Terminal \cup {"none"}

Boot ==
    /\ ~up /\ up' = TRUE
    /\ status' = [j \in Jobs |-> IF Interrupted(j) THEN "failed" ELSE status[j]]
    /\ report' = [j \in Jobs |-> IF Interrupted(j) THEN "interrupted" ELSE report[j]]
    /\ UNCHANGED <<db, dirs, prov, cacheFresh, lock, kind, noted, worker, hist,
                   bounds>>

\* A reconciliation that raises does not block the boot.
BootUnreconciled ==
    /\ ~up /\ up' = TRUE /\ Fault
    /\ UNCHANGED <<db, dirs, prov, cacheFresh, lock, row, worker, hist>>

-----------------------------------------------------------------------------
Request(j) == StartImport(j) \/ Integrate(j) \/ Deintegrate(j)

\* A step of the worker that does not raise.
Work(j) ==
    \/ SetRunning(j) \/ Preflight(j) \/ StageAside(j) \/ StageCopy(j) \/ Staged(j)
    \/ Guard(j) \/ Union(j) \/ Fetch(j) \/ Fetched(j) \/ Remove(j)
    \/ Build(j) \/ BuildFails(j) \/ StartChecks(j) \/ Verdict(j)
    \/ MoveLiveAside(j) \/ MoveStagingToLive(j) \/ UnlinkPrev(j) \/ NoteSwap(j)
    \/ BumpAndInvalidate(j) \/ CaveatInstead(j) \/ SetSwapped(j)
    \/ RecordProvenance(j) \/ SweepBackups(j) \/ RestoreAll(j)
    \/ HandleException(j) \/ Finally(j) \/ Release(j)

Exception(j) ==
    \/ MoveAsideRaises(j) \/ CopyRaises(j) \/ SetSwappedRaises(j)
    \/ ProvenanceRaises(j) \/ RestoreRaises(j) \/ HandlerRaises(j) \/ Raises(j)

\* A request that has the lock comes to its end, one way or another.
Answer == (\E j \in Jobs : Request(j)) \/ RequestRefused

Next ==
    \/ \E j \in Jobs : Request(j) \/ ThreadLost(j) \/ Work(j) \/ Exception(j)
    \/ Acquire \/ RequestRefused \/ RequestLost
    \/ Crash
    \/ Boot \/ BootUnreconciled

Spec == Init /\ [][Next]_vars

\* A running thread keeps running, a request reads what is there already, and a
\* process that died is restarted (the compose file restarts it); nothing is
\* assumed of what is asked for, of exceptions and of crashes.
Fairness == (\A j \in Jobs : WF_vars(Work(j))) /\ WF_vars(Answer) /\ WF_vars(Boot)
FairSpec == Spec /\ Fairness

-----------------------------------------------------------------------------
(* Properties                                                              *)

Active(j) == pc[j] \notin {"unused", "done"}

\* At most one pipeline runs, and it holds the lock: two of them would race
\* on ipeds_staging.db, DATA_DIR and the two renames.
SingleFlight == \A j \in Jobs : Active(j) => lock = j

\* A job whose files became the live dataset is never reported as failed by
\* the worker; only the boot after a crash says so.
FailedIsNotLive ==
    \A j \in Jobs : status[j] = "failed" /\ swapped[j] => report[j] = "interrupted"

\* One pipeline at a time, and no lie about how it ended: what a second request
\* or a failing handler would break first.
OneHonestJob == SingleFlight /\ FailedIsNotLive

\* A job that ends without its swap leaves the loader's directory, which the
\* next rebuild reads, as it found it, whichever statement failed (a second
\* failure, inside the restore itself, can leave it half restored).
DataDirRestored ==
    \A j \in Jobs : pc[j] = "release" /\ ~swapped[j] /\ faults < 2 => dataDir = dir0

\* Once an upload is live, the loader's directory is what it was built from:
\* no failure after the rename may roll the directory back under it.
SwappedDirMatchesLive ==
    \A j \in Jobs : pc[j] = "release" /\ kind[j] = "upload" /\ swapped[j]
                        => dataDir = live

\* No uploaded copy outlives its job, whatever its outcome and whichever statement
\* failed, but one that could not be unlinked itself (importer.py:1055-1063), or whose
\* request or process was gone before it came to that.
UploadsDiscarded == lock \in {Nobody, Lost} => Present(uploads) \subseteq leftover

Latest(j) == pc[j] # "unused" /\ \A k \in Jobs : k > j => pc[k] = "unused"

\* However many exceptions there were, in the handlers too, and wherever the process
\* died: until the latest upload has swapped, each file the loader had when it began is
\* in DATA_DIR or in the backup beside it (importer.py:1173).  Of the latest only: the
\* next one may move what a death left in DATA_DIR over that backup.
OriginalsKept ==
    \A j \in Jobs : Latest(j) /\ ~swapped[j] /\ ~Aliased
        => \A y \in Years : dir0[y] \in {dataDir[y], bak[y], Absent}

\* The files on the disk follow what became of the job: as they were without a
\* swap, what is live was built from them after one, the originals to be had until
\* then, and no copies left over in silence.
FilesFollowJobs ==
    DataDirRestored /\ OriginalsKept /\ SwappedDirMatchesLive /\ UploadsDiscarded

\* No job takes a year's file away from the loader, not even where the upload
\* directory is the loader's (elsewhere a second failure can leave a restore half done).
LoaderSourcesKept ==
    \A j \in Jobs : pc[j] = "release" /\ (Aliased \/ swapped[j] \/ faults < 2)
        => Present(dir0) \subseteq Present(dataDir)

\* When answers computed from the old dataset may still be replayed although
\* no worker is about to invalidate them, some job says that a step went wrong
\* or never said that it finished.
CacheStaleIsTold ==
    ~cacheFresh /\ (\A j \in Jobs : pc[j] \notin SwapTail \cup {"warn"})
        => \/ ~up
           \/ \E j \in Jobs : /\ swapped[j]
                             /\ \/ report[j] \in {"warned", "interrupted"}
                                \/ status[j] \notin Terminal

\* What year_provenance says of a database: the release of every year that was fetched,
\* "manual" only where a file was uploaded, and nothing of a year that is not there.
\* (A release may outlive its year: an upload rebuilds the other years from DATA_DIR.)
ProvenanceFits(d, p) ==
    \A y \in Years :
        /\ d[y] \in Releases => p[y] = d[y]
        /\ p[y] = "manual" => d[y] \in Contents
        /\ p[y] # "none" => d[y] # Absent

\* It is written apart from the swap, by year (importer.py:1197, 1499, 1675), and fits
\* the live database again by the time the job lets the next one in, unless an exception
\* or a death came between.
ProvenanceFollowsSwap ==
    lock = Nobody /\ faults = 0 /\ crashes = 0 => ProvenanceFits(live, prov)

\* Nothing is left of the old dataset beside the new one in silence: neither answers
\* nor what is recorded of its years.
SwapIsTold == CacheStaleIsTold /\ ProvenanceFollowsSwap

\* What queries are answered from, or would be were ipeds.db.prev moved back.
Recoverable == IF live # NoDB THEN live ELSE prev

\* What is served is made of whole files: a copy cut short by a death or a full disk is
\* never loaded, although the directory may hold one.
Served == INSTANCE ServedDataset WITH
    File   <- File \ {Corrupt},
    served <- Recoverable,
    mode   <- IF stranded THEN "stranded"
              ELSE IF live = NoDB /\ prev # NoDB THEN "swapping" ELSE "serving",
    guarded <- ~blind

\* The pipelines replace the served dataset only as ServedDataset allows.
ServedSpec == Served!Spec

\* Every accepted job reaches a final status, across crashes and restarts, unless
\* an exception kept its outcome from being recorded.
JobSettles ==
    \A j \in Jobs : status[j] = "pending" ~> status[j] \in Terminal \/ faults > 0

\* Whatever raises in a request or in its job, the lock comes back, unless the request
\* is cancelled or its thread does not start: then no import runs before a restart
\* (routers/admin.py:871, 908, 1094, 1125).
LockReleased == lock # Nobody ~> lock \in {Nobody, Lost}

\* An accepted job comes to its end and lets the next one in (importer.py:1246).
JobsFinish == JobSettles /\ LockReleased

-----------------------------------------------------------------------------
(* What the repository says of the program and the code does not keep    *)

\* A rebuild's "year set must be a SUPERSET of the live years - otherwise the
\* swap would silently drop a year", over the dataset last known good: not so when that
\* is stranded under .prev, nor when the guard could not read it.
RebuildKeepsYears ==
    [][\A j \in Jobs : swapped'[j] /\ ~swapped[j] /\ kind[j] # "remove"
            => Present(Recoverable) \subseteq Present(live')]_vars
=============================================================================
