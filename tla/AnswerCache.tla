----------------------------- MODULE AnswerCache -----------------------------
(***************************************************************************)
(* The semantic answer cache of backend/app/skills.py: query_cache and the *)
(* data_version and cache_app_version markers, looked up and filled by the *)
(* turns of routers/chat.py and mcpsrv/ask.py while an import swaps the    *)
(* dataset under them and the process restarts into another build.         *)
(*                                                                         *)
(* A question stands for the near-identical questions the similarity       *)
(* threshold puts together, and an answer for what it was computed from.   *)
(***************************************************************************)
EXTENDS Integers, FiniteSets, FiniteSetsExt

CONSTANTS
    Users, Questions,
    Builds,      \* app versions
    Nobody,      \* the user_id of a row older than migration 29
    Unmarked,    \* no cache_app_version has been recorded
    Turns,       \* bound: the turns that are asked
    MaxSwaps,    \* bound: dataset swaps
    MaxFaults,   \* bound: failures that are logged and absorbed
    MaxBoots,    \* bound: starts of the process
    MaxRows,     \* cache_max_rows; 0 turns the ceiling off
    Retention    \* cache_retention_days is positive

ASSUME ConstantsAssumption ==
    /\ Nobody \notin Users /\ Unmarked \notin Builds
    /\ MaxSwaps \in Nat /\ MaxFaults \in Nat /\ MaxBoots \in Nat /\ MaxRows \in Nat
    /\ Retention \in BOOLEAN

Datasets == 1..(MaxSwaps + 1)

\* saw: the datasets its queries ran on; across: one more went live between the
\* first of them and the stamp; live: the one that was live at the stamp, which
\* is version; alone: it depends on no earlier turn.
Row == [id : Nat, user : Users \cup {Nobody}, question : Questions, saw : SUBSET Datasets,
        across : BOOLEAN, build : Builds, alone : BOOLEAN, version : Datasets,
        live : Datasets, expired : BOOLEAN]

VARIABLES
    dataset,       \* which dataset is ipeds.db: counts the swaps
    dataVersion,   \* meta.data_version
    tail,          \* what the swap has still to do: "bump", "wipe", "done"
    bumped,        \* history: data_version was bumped since the last swap
    build, up,     \* the running build
    marker,        \* meta.cache_app_version
    checked,       \* history: every boot since the last wipe compared the marker
    cache,         \* query_cache
    pc, user, question, alone,  \* the turns
    version,       \* the data_version a turn has read
    saw,           \* the datasets its queries ran on so far
    across,        \* history: a dataset went live between a query and the stamp
    since,         \* history: the dataset it looked up for
    replay,        \* the row it replayed, at most one
    faults, boots

meta   == <<dataVersion, marker>>
swap   == <<dataset, tail, bumped>>
proc   == <<build, up, checked>>
asked  == <<user, question, alone>>
turn   == <<pc, asked, version, saw, across, since, replay>>
bounds == <<faults, boots>>
vars   == <<meta, swap, proc, cache, turn, bounds>>

PCs == {"unasked", "guard", "lookup", "match", "agent", "stamp", "insert", "done"}

TypeOK ==
    /\ dataset \in Datasets /\ dataVersion \in 1..dataset
    /\ tail \in {"bump", "wipe", "done"}
    /\ bumped \in BOOLEAN /\ checked \in BOOLEAN /\ up \in BOOLEAN
    /\ build \in Builds /\ marker \in Builds \cup {Unmarked}
    /\ cache \subseteq Row /\ \A r \in cache : r.version <= dataVersion
    /\ pc \in [Turns -> PCs]
    /\ user \in [Turns -> Users] /\ question \in [Turns -> Questions]
    /\ alone \in [Turns -> BOOLEAN]
    /\ version \in [Turns -> Datasets]
    /\ saw \in [Turns -> SUBSET Datasets] /\ across \in [Turns -> BOOLEAN]
    /\ since \in [Turns -> 0..(MaxSwaps + 1)]
    /\ replay \in [Turns -> SUBSET Row]
    /\ faults \in 0..MaxFaults /\ boots \in 0..MaxBoots

\* A database that is new, or that an older build left: with answers of its
\* own, and without a marker when that build did not know of it.
Init ==
    /\ dataset = 1 /\ dataVersion = 1 /\ tail = "done" /\ bumped = TRUE
    /\ build \in Builds /\ up = FALSE /\ checked = TRUE
    /\ \/ marker = Unmarked /\ cache = {}
       \/ /\ marker \in {Unmarked, build}
          /\ \E u \in Users \cup {Nobody}, q \in Questions :
                cache = {[id |-> 1, user |-> u, question |-> q, saw |-> {1},
                          across |-> FALSE, build |-> build, alone |-> TRUE,
                          version |-> 1, live |-> 1, expired |-> FALSE]}
    /\ pc = [t \in Turns |-> "unasked"]
    /\ user \in [Turns -> Users] /\ question \in [Turns -> Questions]
    /\ alone \in [Turns -> BOOLEAN]
    /\ version = [t \in Turns |-> 1]
    /\ saw = [t \in Turns |-> {}] /\ across = [t \in Turns |-> FALSE]
    /\ since = [t \in Turns |-> 0]
    /\ replay = [t \in Turns |-> {}]
    /\ faults = 0 /\ boots = 0

-----------------------------------------------------------------------------
At(t, l)   == up /\ pc[t] = l
Goto(t, l) == pc' = [pc EXCEPT ![t] = l]
Fault      == faults < MaxFaults /\ faults' = faults + 1 /\ UNCHANGED boots

-----------------------------------------------------------------------------
(* The tail of _activate_staging: rename, bump data_version, wipe.  Imports  *)
(* are single-flight, so the next rename waits for the end of this tail.     *)

\* The turn has queried, and will only then read the version it stores under.
UnderWay(t) == pc[t] \in {"agent", "stamp"} /\ saw[t] # {}

Rename ==
    /\ up /\ tail = "done" /\ dataset <= MaxSwaps
    /\ dataset' = dataset + 1
    /\ tail' = "bump" /\ bumped' = FALSE
    /\ across' = [t \in Turns |-> across[t] \/ UnderWay(t)]
    /\ UNCHANGED <<meta, proc, cache, pc, asked, version, saw, since, replay, bounds>>

\* Mutant: the version is bumped by the rebuild and by the tail.
BumpTwice ==
    /\ up /\ tail = "bump"
    /\ dataVersion' = dataVersion + 2
    /\ tail' = "wipe" /\ bumped' = TRUE
    /\ UNCHANGED <<marker, dataset, proc, cache, turn, bounds>>

Bump ==
    /\ up /\ tail = "bump"
    /\ dataVersion' = dataVersion + 1
    /\ tail' = "wipe" /\ bumped' = TRUE
    /\ UNCHANGED <<marker, dataset, proc, cache, turn, bounds>>

\* invalidate_cache.
Wipe ==
    /\ up /\ tail = "wipe"
    /\ cache' = {} /\ tail' = "done"
    /\ UNCHANGED <<meta, dataset, bumped, proc, turn, bounds>>

\* A step of the tail raises; the job keeps a caveat and the tail is over.
TailRaises ==
    /\ up /\ tail # "done" /\ Fault
    /\ tail' = "done"
    /\ UNCHANGED <<meta, dataset, bumped, proc, cache, turn>>

-----------------------------------------------------------------------------
(* A turn: guard, lookup on a question that stands alone, agent, store       *)

Ask(t) ==
    /\ At(t, "unasked")
    /\ Goto(t, "guard")
    /\ UNCHANGED <<meta, swap, proc, cache, asked, version, saw, across,
                   since, replay, bounds>>

\* A refusal ends the turn; a follow-up is never looked up.
Screened(t) ==
    /\ At(t, "guard")
    /\ Goto(t, "done") \/ Goto(t, IF alone[t] THEN "lookup" ELSE "agent")
    /\ UNCHANGED <<meta, swap, proc, cache, asked, version, saw, across,
                   since, replay, bounds>>

\* cache_lookup reads data_version first and the rows after it.
ReadVersion(t) ==
    /\ At(t, "lookup")
    /\ Goto(t, "match")
    /\ version' = [version EXCEPT ![t] = dataVersion]
    /\ since' = [since EXCEPT ![t] = IF bumped THEN dataset ELSE 0]
    /\ UNCHANGED <<meta, swap, proc, cache, asked, saw, across, replay, bounds>>

\* Mutant: the rows of every version are searched, on the wipe's word.
MatchingUnwiped(t) ==
    {r \in cache : r.user = user[t] /\ r.question = question[t]}

Matching(t) ==
    {r \in cache : /\ r.version = version[t] /\ r.user = user[t]
                    /\ r.question = question[t]}

\* The best of the rows above the threshold is replayed word for word.
Replay(t) ==
    /\ At(t, "match")
    /\ \E r \in Matching(t) : replay' = [replay EXCEPT ![t] = {r}]
    /\ Goto(t, "done")
    /\ UNCHANGED <<meta, swap, proc, cache, asked, version, saw, across, since,
                   bounds>>

Miss(t) ==
    /\ At(t, "match") /\ Matching(t) = {}
    /\ Goto(t, "agent")
    /\ UNCHANGED <<meta, swap, proc, cache, asked, version, saw, across,
                   since, replay, bounds>>

\* Nothing is embedded, so nothing is looked up or stored.
NoEmbedding(t) ==
    /\ At(t, "lookup") \/ At(t, "stamp")
    /\ Goto(t, IF pc[t] = "lookup" THEN "agent" ELSE "done")
    /\ UNCHANGED <<meta, swap, proc, cache, asked, version, saw, across,
                   since, replay, bounds>>

\* The agent runs its queries one after the other, each on the file that is
\* ipeds.db when it is opened.
RunSql(t) ==
    /\ At(t, "agent")
    /\ saw' = [saw EXCEPT ![t] = @ \cup {dataset}]
    /\ UNCHANGED <<meta, swap, proc, cache, pc, asked, version, across, since, replay,
                   bounds>>

Storable(t) == alone[t] /\ saw[t] # {}

\* An error, a clarifying question or an answer without SQL is not stored.
Answer(t) ==
    /\ At(t, "agent")
    /\ \/ Goto(t, "done")
       \/ Storable(t) /\ Goto(t, "stamp")
    /\ UNCHANGED <<meta, swap, proc, cache, asked, version, saw, across,
                   since, replay, bounds>>

\* cache_store reads data_version for the row it is about to insert.
StampVersion(t) ==
    /\ At(t, "stamp")
    /\ Goto(t, "insert")
    /\ version' = [version EXCEPT ![t] = dataVersion]
    /\ since' = [since EXCEPT ![t] = dataset]
    /\ UNCHANGED <<meta, swap, proc, cache, asked, saw, across, replay, bounds>>

\* SQLite takes the highest id plus one.
NextId == IF cache = {} THEN 1 ELSE 1 + Max({r.id : r \in cache})

StoredRow(t) ==
    [id |-> NextId, user |-> user[t], question |-> question[t], saw |-> saw[t],
     across |-> across[t], build |-> build, alone |-> alone[t],
     version |-> version[t], live |-> since[t], expired |-> FALSE]

\* Only the rows below the n-th id from the top are deleted.
Newest(rows, n) == {r \in rows : Cardinality({s \in rows : s.id > r.id}) < n}

\* Mutant: the OFFSET of the ceiling is off by one.
PrunedLate(rows) ==
    LET kept == {r \in rows : ~(Retention /\ r.expired)}
    IN  IF MaxRows > 0 THEN Newest(kept, MaxRows + 1) ELSE kept

\* _prune_cache: the rows past the retention window, then those past the
\* ceiling; a setting of 0 turns its half off.
Pruned(rows) ==
    LET kept == {r \in rows : ~(Retention /\ r.expired)}
    IN  IF MaxRows > 0 THEN Newest(kept, MaxRows) ELSE kept

Insert(t) ==
    /\ At(t, "insert")
    /\ cache' = Pruned(cache \cup {StoredRow(t)})
    /\ Goto(t, "done")
    /\ UNCHANGED <<meta, swap, proc, asked, version, saw, across, since, replay,
                   bounds>>

-----------------------------------------------------------------------------
(* Time, death and the next boot                                             *)

\* The oldest rows get older than the retention window.
Expire ==
    /\ \E n \in {r.id : r \in cache} :
          cache' = {[r EXCEPT !.expired = @ \/ r.id <= n] : r \in cache}
    /\ UNCHANGED <<meta, swap, proc, turn, bounds>>

Crash ==
    /\ up /\ up' = FALSE
    /\ pc' = [t \in Turns |-> IF pc[t] = "unasked" THEN "unasked" ELSE "done"]
    /\ tail' = "done"
    /\ UNCHANGED <<meta, dataset, bumped, build, checked, cache, asked, version,
                   saw, across, since, replay, bounds>>

\* Mutant: a missing marker counts as current.
VersionDiffers(b) == marker \notin {b, Unmarked}

\* invalidate_cache_if_version_changed: a missing marker counts as changed.
VersionChanged(b) == marker # b

\* The process starts, of the same build or of another one; the check runs
\* before anything can be answered, and its failure does not block the boot.
Boot ==
    /\ ~up /\ up' = TRUE
    /\ boots < MaxBoots /\ boots' = boots + 1
    /\ \E b \in Builds :
        /\ build' = b
        /\ IF VersionChanged(b)
             THEN cache' = {} /\ marker' = b /\ checked' = TRUE
             ELSE UNCHANGED <<cache, marker, checked>>
    /\ UNCHANGED <<dataVersion, swap, turn, faults>>

BootUnchecked ==
    /\ ~up /\ up' = TRUE
    /\ boots < MaxBoots /\ boots' = boots + 1
    /\ faults < MaxFaults /\ faults' = faults + 1
    /\ build' \in Builds
    /\ checked' = FALSE
    /\ UNCHANGED <<meta, swap, cache, turn>>

-----------------------------------------------------------------------------
Turn(t) ==
    \/ Ask(t) \/ Screened(t) \/ ReadVersion(t) \/ Replay(t) \/ Miss(t)
    \/ NoEmbedding(t) \/ RunSql(t) \/ Answer(t) \/ StampVersion(t) \/ Insert(t)

Import == Rename \/ Bump \/ Wipe \/ TailRaises

Next ==
    \/ \E t \in Turns : Turn(t)
    \/ Import
    \/ Expire \/ Crash \/ Boot \/ BootUnchecked

Spec == Init /\ [][Next]_vars

-----------------------------------------------------------------------------
(* Properties                                                              *)

\* What is replayed depends on no earlier turn of the conversation it was given
\* in, and is given to nobody who refers to one.
ReplayStandsAlone ==
    \A t \in Turns : \A r \in replay[t] : r.alone /\ alone[t]

\* Once data_version was bumped for a dataset, a lookup replays the answers whose
\* queries all ran on it or on a newer one: not those a failed or missing wipe has
\* left, and none that a slow lookup finds late.  One kind escapes: the answer of
\* a turn that was under way when a dataset went live is stored under the version
\* after it (skills.py:648).  So it is only kept from lookups for the datasets
\* that went live after it was stored.
ReplayIsCurrent ==
    \A t \in Turns : \A r \in replay[t] : since[t] # 0 =>
        IF r.across THEN r.live >= since[t] ELSE \A d \in r.saw : d >= since[t]

\* As long as every boot makes its check, an answer is only replayed by the
\* build that wrote it.
ReplayIsOfThisBuild ==
    \A t \in Turns : replay'[t] # replay[t] /\ checked
        => \A r \in replay'[t] : r.build = build

\* What is replayed is right: it stands alone, is of the dataset that is live as far
\* as no swap came in between, and of the build that runs (skills.py:557-580).
ReplayIsRight ==
    [][ReplayStandsAlone' /\ ReplayIsCurrent' /\ ReplayIsOfThisBuild]_vars

\* A store leaves a cache within its bounds, and its own row in it.
StoreSweeps ==
    [][\A t \in Turns : up' /\ pc[t] = "insert" /\ pc'[t] = "done"
            => /\ MaxRows > 0 => Cardinality(cache') <= MaxRows
               /\ Retention => \A r \in cache' : ~r.expired
               /\ StoredRow(t) \in cache']_vars
=============================================================================
