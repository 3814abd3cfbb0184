----------------------------- MODULE Migrations -----------------------------
(***************************************************************************)
(* app.db across upgrades and restores: init_db of backend/app/db.py with  *)
(* its snapshot before the first migration of an upgrade, the migrations   *)
(* and the refusal of a database that is too new, and the operator's       *)
(* scripts/backup_app_db.py and scripts/restore_app_db.py.                 *)
(*                                                                         *)
(* The database is its main file and its write-ahead log; a process that   *)
(* dies leaves committed content in the log, and so may one that stops.    *)
(* What is in it is the schema, the version it says it has, and a stamp    *)
(* for the last write the application made.                                *)
(*                                                                         *)
(* A snapshot app.db.pre-v<N> has the header of a database with a log, so  *)
(* a reader of it leaves app.db.pre-v<N>-wal and -shm beside it, and a     *)
(* death while it is written leaves app.db.pre-v<N>-journal.  These bear   *)
(* names that the glob of _prune_snapshots takes for snapshots.            *)
(***************************************************************************)
EXTENDS Integers, Sequences

CONSTANTS
    Newest,      \* bound: the versions are 1..Newest
    Kept,        \* SNAPSHOTS_KEPT
    Keep,        \* --keep of the backup script
    None, Torn,
    Sidecar,     \* a file beside a snapshot, of its name and more
    MaxWrites, MaxFaults, MaxRestores  \* bounds

ASSUME MigrationAssumption ==
    /\ Newest \in Nat \ {0} /\ Kept \in Nat \ {0} /\ Keep \in Nat \ {0}
    /\ MaxWrites \in Nat /\ MaxFaults \in Nat /\ MaxRestores \in Nat
    /\ None # Torn

Versions == 0..Newest
Content  == [ver : Versions, schema : SUBSET (1..Newest), data : 0..MaxWrites]
File     == Content \cup {None, Torn}

ASSUME FileAssumption == None \notin Content /\ Torn \notin Content

ASSUME SidecarAssumption == Sidecar \notin Versions

VARIABLES
    image,      \* the newest version the installed build knows
    main, wal,  \* app.db and its log
    snap,       \* [Versions -> File]: app.db.pre-v<N>
    order,      \* what app.db.pre-v* finds, by age, the newest first
    beside,     \* history: how many sidecars there have been
    backups,    \* the files of the backup script, the newest first
    aside,      \* app.db.pre-restore-<ts>
    source,     \* what is being restored
    pc,
    from,       \* history: the version a boot found
    before,     \* history: and the database it found
    writes, faults, restores,
    taken       \* history: the snapshots taken, the newest first

files  == <<main, wal>>
snaps  == <<snap, order, beside, taken>>
script == <<backups, aside, source>>
found  == <<from, before>>
spent  == <<writes, faults, restores>>
vars   == <<image, files, snaps, script, pc, found, spent>>

\* What a reader of the database sees.
View == IF wal # None THEN wal ELSE main

PCs == {"stopped", "snapshot", "prune", "migrate", "running", "unlink", "copy"}

TypeOK ==
    /\ image \in 1..Newest /\ main \in File \ {None} /\ wal \in Content \cup {None}
    /\ snap \in [Versions -> File]
    /\ order \in Seq(Versions \cup {Sidecar}) /\ beside \in Nat
    /\ backups \in Seq(Content \cup {Torn}) /\ Len(backups) <= Keep + faults
    /\ aside \in File /\ source \in Content \cup {None}
    /\ pc \in PCs /\ from \in Versions /\ before \in File
    /\ writes \in 0..MaxWrites /\ faults \in 0..MaxFaults /\ restores \in 0..MaxRestores
    /\ taken \in Seq([of : Versions, file : Content \cup {Torn}])

Empty == [ver |-> 0, schema |-> {}, data |-> 0]

Init ==
    /\ image = 1 /\ main = Empty /\ wal = None
    /\ snap = [v \in Versions |-> None] /\ order = <<>> /\ beside = 0 /\ taken = <<>>
    /\ backups = <<>> /\ aside = None /\ source = None
    /\ pc = "stopped" /\ from = 0 /\ before = None
    /\ writes = 0 /\ faults = 0 /\ restores = 0

Fault == faults < MaxFaults /\ faults' = faults + 1

NoFault == UNCHANGED spent

-----------------------------------------------------------------------------
(* Boot                                                                      *)

\* Mutant: a build takes a database as it finds it.
TooNewForNobody == FALSE

TooNew == View.ver > image

\* init_db.  A snapshot of this version that is there already is not taken
\* again; a database that is too new, or no database, ends the boot.
Boot ==
    /\ pc = "stopped" /\ main # Torn /\ ~TooNew
    /\ from' = View.ver /\ before' = View
    /\ pc' = IF View.ver < image /\ snap[View.ver] = None THEN "snapshot" ELSE "migrate"
    /\ UNCHANGED <<image, files, snaps, script>> /\ NoFault

\* The copy goes straight to its final name; "there" is what stands at the
\* front of the directory then.
Snapshot(f, there) ==
    /\ snap' = [snap EXCEPT ![from] = f]
    /\ taken' = <<[of |-> from, file |-> f]>> \o taken
    /\ order' = there \o order /\ beside' = beside + Len(there) - 1

\* What a death leaves of it, its journal the older or the newer of the two.
CutShort == {<<from>>, <<from, Sidecar>>, <<Sidecar, from>>}

SnapshotTaken ==
    /\ pc = "snapshot" /\ pc' = "prune"
    /\ Snapshot(View, <<from>>)
    /\ UNCHANGED <<image, files, script, found>> /\ NoFault

\* The disk is full, or cannot be written at all: logged, and the upgrade goes on.
SnapshotFails ==
    /\ pc = "snapshot" /\ pc' = "migrate" /\ Fault
    /\ Snapshot(Torn, <<from>>) \/ UNCHANGED snaps
    /\ UNCHANGED <<image, files, script, found, writes, restores>>

\* Mutant: the oldest are kept.
LastingOldest == SubSeq(order, IF Len(order) > Kept THEN Len(order) - Kept + 1 ELSE 1, Len(order))

\* The newest Kept files that app.db.pre-v* finds.
Lasting == SubSeq(order, 1, IF Len(order) > Kept THEN Kept ELSE Len(order))

\* The others go, or cannot be unlinked, which is logged.
Prune ==
    /\ pc = "prune" /\ pc' = "migrate"
    /\ \/ order' = Lasting /\ NoFault
       \/ order' = order /\ Fault /\ UNCHANGED <<writes, restores>>
    /\ snap' = [v \in Versions |-> IF \E i \in 1..Len(order') : order'[i] = v THEN snap[v] ELSE None]
    /\ UNCHANGED <<image, files, beside, taken, script, found>>

\* Mutant: the version is a statement of its own, which a failure may keep back.
MigratedUnwrapped(c) ==
    \E v \in {c.ver, c.ver + 1} :
        wal' = [c EXCEPT !.ver = v, !.schema = @ \cup {c.ver + 1}]

\* One transaction: the statements of the next migration and its version.
Migrated(c) == wal' = [c EXCEPT !.ver = @ + 1, !.schema = @ \cup {c.ver + 1}]

Migrate ==
    /\ pc = "migrate"
    /\ IF View.ver < image THEN Migrated(View) /\ UNCHANGED pc ELSE pc' = "running" /\ UNCHANGED wal
    /\ UNCHANGED <<image, main, snaps, script, found>> /\ NoFault

-----------------------------------------------------------------------------
(* The application, and its end                                              *)

Write ==
    /\ pc = "running" /\ writes < MaxWrites
    /\ writes' = writes + 1 /\ wal' = [View EXCEPT !.data = writes + 1]
    /\ UNCHANGED <<image, main, snaps, script, pc, found, faults, restores>>

\* The last connection that closes brings the log home.
Checkpoint ==
    /\ pc \in {"running", "migrate"} /\ wal # None
    /\ main' = wal /\ wal' = None
    /\ UNCHANGED <<image, snaps, script, pc, found>> /\ NoFault

Stop ==
    /\ pc = "running" /\ wal = None /\ pc' = "stopped"
    /\ UNCHANGED <<image, files, snaps, script, found>> /\ NoFault

\* The process dies, or a migration raises.  A snapshot being taken stays as far
\* as it came.
Crash ==
    /\ pc \in {"snapshot", "prune", "migrate", "running"} /\ Fault
    /\ \/ UNCHANGED snaps
       \/ pc = "snapshot" /\ \E there \in CutShort : Snapshot(Torn, there)
    /\ pc' = "stopped"
    /\ UNCHANGED <<image, files, script, found, writes, restores>>

-----------------------------------------------------------------------------
(* The operator                                                              *)

\* Pull another image, newer or older.
Install(v) ==
    /\ pc = "stopped" /\ v # image /\ image' = v
    /\ UNCHANGED <<files, snaps, script, pc, found>> /\ NoFault

\* Mutant: one more is kept than was asked for.
NewerOneMore(f) ==
    SubSeq(<<f>> \o backups, 1, IF Len(backups) <= Keep THEN Len(backups) + 1 ELSE Keep)

\* The backups once f is there, and the oldest gone.
Newer(f) == SubSeq(<<f>> \o backups, 1, IF Len(backups) < Keep THEN Len(backups) + 1 ELSE Keep)

\* make_backup: online, and consistent under writes.  One that raises or dies in the
\* copy leaves what it wrote, and in _prune the whole file: either way none goes.
Backup ==
    /\ pc \in {"stopped", "running"} /\ main # Torn /\ View.ver > 0
    /\ \/ backups' = Newer(View) /\ NoFault
       \/ /\ \E f \in {View, Torn} : backups' = <<f>> \o backups
          /\ Fault /\ UNCHANGED <<writes, restores>>
    /\ UNCHANGED <<image, files, snaps, aside, source, pc, found>>

\* is_valid_backup() takes a whole file that has the users table.
Valid(f) == f \notin {None, Torn} /\ f.ver > 0

\* It reads what it is given, and of a snapshot that leaves a log and its index:
\* two files more, one when the log was there, none where nothing can be written.
Inspected ==
    \E n \in 0..2 :
        /\ order' = [i \in 1..n |-> Sidecar] \o order /\ beside' = beside + n
        /\ UNCHANGED <<snap, taken>>

\* restore(): the database is copied aside, the main file alone.
Restore(f) ==
    /\ pc = "stopped" /\ restores < MaxRestores /\ Valid(f)
    /\ source' = f /\ aside' = main /\ pc' = "unlink"
    /\ restores' = restores + 1
    /\ UNCHANGED <<image, files, backups, found, writes, faults>>

RestoreBackup ==
    \E f \in {backups[i] : i \in 1..Len(backups)} \cup {aside} : Restore(f) /\ UNCHANGED snaps

RestoreSnapshot == \E v \in Versions : Restore(snap[v]) /\ Inspected

\* The script without --yes, or with a snapshot it refuses.
DryRun ==
    /\ pc \in {"stopped", "running"} /\ restores < MaxRestores
    /\ \E v \in Versions : snap[v] # None
    /\ Inspected /\ restores' = restores + 1
    /\ UNCHANGED <<image, files, script, pc, found, writes, faults>>

\* Mutant: the log of the database that was is left to the one that comes.
LeaveSidecars == UNCHANGED wal

ClearSidecars == wal' = None

Unlink ==
    /\ pc = "unlink" /\ pc' = "copy" /\ ClearSidecars
    /\ UNCHANGED <<image, main, snaps, script, found>> /\ NoFault

Copy ==
    /\ pc = "copy" /\ pc' = "stopped"
    /\ main' = source /\ source' = None
    /\ UNCHANGED <<image, wal, snaps, backups, aside, found>> /\ NoFault

\* The script dies, the file half written or not touched yet.
RestoreCut ==
    /\ pc \in {"unlink", "copy"} /\ pc' = "stopped" /\ Fault
    /\ source' = None
    /\ main' = main \/ (pc = "copy" /\ main' = Torn)
    /\ UNCHANGED <<image, wal, snaps, backups, aside, found, writes, restores>>

Next ==
    \/ Boot \/ SnapshotTaken \/ SnapshotFails \/ Prune \/ Migrate
    \/ Write \/ Checkpoint \/ Stop \/ Crash
    \/ \E v \in 1..Newest : Install(v)
    \/ Backup \/ Unlink \/ Copy \/ RestoreCut
    \/ RestoreBackup \/ RestoreSnapshot \/ DryRun

Spec == Init /\ [][Next]_vars
-----------------------------------------------------------------------------
\* Whatever is upgraded, restored, cut short and booted again: the version of the
\* database, and of every whole copy of it, says which migrations it has
\* (db.py:664-683).
VersionTellsSchema ==
    \A f \in {main, wal, aside, source} \cup {snap[v] : v \in Versions}
                \cup {backups[i] : i \in 1..Len(backups)} :
        f \notin {None, Torn} => f.schema = 1..f.ver

\* A build neither migrates nor writes a database newer than it knows: rolling the
\* image back, or restoring a newer file under it, changes nothing (db.py:638-645).
NewerIsLeftAlone == [][wal' \notin {wal, None} => wal'.ver <= image]_vars

\* Two snapshots are enough to step back across the upgrade just made and the one
\* before it (db.py:727-735), as far as that is so: the last that was taken is
\* there, as it was taken, and of the Kept last all but one for every sidecar that
\* inspecting a snapshot, or a death in one, has left (db.py:736).
TwoUpgradesBack ==
    \A i \in 1..Len(taken) :
        (i = 1 \/ i + beside <= Kept) /\ (\A j \in 1..i - 1 : taken[j].of # taken[i].of)
        => snap[taken[i].of] = taken[i].file

\* A restored database is the file it was restored from, nothing of the one before.
RestoreIsExact ==
    [][pc = "copy" /\ pc' = "stopped" /\ faults' = faults => View' = source]_vars

\* "so a bad upgrade is reversible" (README.md:270): the running application can
\* step back to the database its boot found.
UpgradeIsReversible ==
    pc = "running" /\ faults = 0 /\ from < image => snap[from] = before

\* "so a bad restore is itself reversible" (restore_app_db.py:5-6).
RestoreIsReversible ==
    pc = "unlink" => aside = View
=============================================================================
