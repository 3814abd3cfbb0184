-------------------------- MODULE AnswerCacheProofs --------------------------
(* Theorems about AnswerCache for every value of its constants.            *)
EXTENDS AnswerCache, WellFoundedInduction, FiniteSetTheorems, TLAPS

-----------------------------------------------------------------------------
(* The inductive invariant                                                 *)

\* The shapes the argument reads.  Ids play no part in it.
RowShape(r) ==
    /\ r = [id |-> r.id, user |-> r.user, question |-> r.question, saw |-> r.saw,
            across |-> r.across, build |-> r.build, alone |-> r.alone,
            version |-> r.version, live |-> r.live, expired |-> r.expired]
    /\ r.version \in Nat /\ r.live \in Nat
Shapes ==
    /\ dataset \in Nat \ {0} /\ dataVersion \in Nat /\ bumped \in BOOLEAN
    /\ pc \in [Turns -> PCs]
    /\ version \in [Turns -> Nat] /\ since \in [Turns -> Nat]
    /\ DOMAIN replay = Turns /\ DOMAIN saw = Turns
    /\ \A r \in cache : RowShape(r)

\* What carries the current version, once it was bumped for the live dataset,
\* was stamped while that dataset was live.
StampedNow(v, l) == v <= dataVersion /\ (bumped /\ v = dataVersion => l = dataset)

Stamped ==
    /\ \A r \in cache : StampedNow(r.version, r.live)
    /\ \A t \in Turns : pc[t] = "insert" => StampedNow(version[t], since[t])

\* A lookup that has read the version finds no older answer, whatever is
\* stored, bumped or renamed before it reads the rows.
Awaiting(t) == pc[t] = "match" /\ since[t] # 0
Current ==
    \A t \in Turns : Awaiting(t) =>
        /\ since[t] <= dataset
        /\ \A r \in cache : r.version = version[t] => r.live >= since[t]
        /\ \A u \in Turns : pc[u] = "insert" /\ version[u] = version[t]
                                => since[u] >= since[t]

\* Only what stands alone is on its way in or out of the cache.
Alone ==
    /\ \A r \in cache : r.alone
    /\ \A t \in Turns : pc[t] \in {"lookup", "match", "stamp", "insert"} => alone[t]

\* Unless a dataset went live on the way, an answer is of the one dataset that is
\* live at its queries, at its stamp and with its row.
Seen ==
    /\ \A r \in cache : ~r.across => \A d \in r.saw : d = r.live
    /\ \A t \in Turns :
          /\ pc[t] \in {"unasked", "guard", "lookup", "match"} => saw[t] = {}
          /\ pc[t] \in {"agent", "stamp"} /\ ~across[t] => \A d \in saw[t] : d = dataset
          /\ pc[t] = "insert" /\ ~across[t] => \A d \in saw[t] : d = since[t]

ReplayedLast == \A t \in Turns : replay[t] # {} => pc[t] = "done"

Inv == Shapes /\ Stamped /\ Current /\ Alone /\ Seen /\ ReplayedLast
         /\ ReplayStandsAlone /\ ReplayIsCurrent

\* The states the program can start from satisfy the invariant.
LEMMA InitInv == Init => Inv
<1> SUFFICES ASSUME Init PROVE Inv
  OBVIOUS
<1>1. Shapes
  <2>2. \A r \in cache : RowShape(r)
    BY DEF Init, RowShape
  <2> QED BY <2>2 DEF Init, Shapes, PCs
<1>2. Stamped /\ Current /\ Alone /\ Seen /\ ReplayedLast /\ ReplayStandsAlone /\ ReplayIsCurrent
  BY DEF Init, Stamped, StampedNow, Current, Awaiting, Alone, Seen, ReplayedLast,
    ReplayStandsAlone, ReplayIsCurrent
<1> QED BY <1>1, <1>2 DEF Inv

-----------------------------------------------------------------------------
(* Preservation                                                            *)

\* A step that only moves a turn on, and not into the two places where it
\* holds a version.
Quiet(t, l) ==
    /\ UNCHANGED <<dataset, dataVersion, bumped, cache, asked, version, saw, across, since,
                   replay>>
    /\ pc[t] \notin {"insert", "done"} /\ pc' = [pc EXCEPT ![t] = l]
    /\ l \in {"guard", "lookup", "agent", "stamp", "done"}
    /\ l \in {"guard", "lookup"} => saw[t] = {}
    /\ l \in {"lookup", "stamp"} => alone[t]

\* A step that leaves the cache and every version alone keeps the invariant.
LEMMA QuietInv ==
    ASSUME Inv, NEW t \in Turns, NEW l, Quiet(t, l)
    PROVE  Inv'
<1>1. Shapes'
  BY DEF Inv, Shapes, Quiet, PCs
<1>2. Stamped' /\ Alone'
  BY DEF Inv, Shapes, Stamped, StampedNow, Alone, Quiet, asked
<1>3. Current'
  BY DEF Inv, Shapes, Current, Awaiting, Quiet
<1>4. ReplayedLast' /\ ReplayStandsAlone' /\ ReplayIsCurrent'
  BY DEF Inv, Shapes, ReplayedLast, ReplayStandsAlone, ReplayIsCurrent, Quiet, asked
<1>5. Seen'
  <2>1. UNCHANGED <<cache, dataset, saw, across, since>> /\ pc' = [pc EXCEPT ![t] = l]
    BY DEF Quiet
  <2>2. pc[t] \in {"unasked", "guard", "lookup", "match", "agent", "stamp"}
    BY DEF Inv, Shapes, PCs, Quiet
  <2>3. ~across[t] => \A d \in saw[t] : d = dataset
    BY <2>2 DEF Inv, Seen
  <2> QED BY <2>1, <2>3 DEF Inv, Shapes, Seen, Quiet
<1> QED BY <1>1, <1>2, <1>3, <1>4, <1>5 DEF Inv

\* The steps of a turn that neither read a version nor touch the cache.
LEMMA MovesQuietly ==
    ASSUME Inv, NEW t \in Turns,
           Ask(t) \/ Screened(t) \/ Miss(t) \/ NoEmbedding(t) \/ Answer(t)
    PROVE  Inv'
<1>1. CASE Ask(t)
  <2>1. Quiet(t, "guard")
    BY <1>1 DEF Inv, Seen, Ask, At, Goto, Quiet, swap, meta
  <2> QED BY <2>1, QuietInv
<1>2. CASE Screened(t)
  <2>1. Quiet(t, "done") \/ Quiet(t, "lookup") \/ Quiet(t, "agent")
    BY <1>2 DEF Inv, Seen, Screened, At, Goto, Quiet, swap, meta
  <2> QED BY <2>1, QuietInv
<1>3. CASE Miss(t)
  <2>1. Quiet(t, "agent")
    BY <1>3 DEF Miss, At, Goto, Quiet, swap, meta
  <2> QED BY <2>1, QuietInv
<1>4. CASE NoEmbedding(t)
  <2>1. Quiet(t, "agent") \/ Quiet(t, "done")
    BY <1>4 DEF NoEmbedding, At, Goto, Quiet, swap, meta
  <2> QED BY <2>1, QuietInv
<1>5. CASE Answer(t)
  <2>1. Quiet(t, "done") \/ Quiet(t, "stamp")
    BY <1>5 DEF Answer, Storable, At, Goto, Quiet, swap, meta
  <2> QED BY <2>1, QuietInv
<1> QED BY <1>1, <1>2, <1>3, <1>4, <1>5

\* cache_lookup reads the version: from here the rows it may find are fixed.
LEMMA ReadVersionInv == ASSUME Inv, NEW t \in Turns, ReadVersion(t) PROVE Inv'
<1> USE DEF ReadVersion, At, Goto, swap, meta, asked, Inv
<1>1. Shapes'
  BY DEF Shapes, PCs
<1>2. Stamped' /\ Alone'
  BY DEF Shapes, Stamped, StampedNow, Alone
<1>3. Current'
  BY DEF Shapes, Stamped, StampedNow, Current, Awaiting
<1>4. ReplayedLast' /\ ReplayStandsAlone' /\ ReplayIsCurrent'
  BY DEF Shapes, ReplayedLast, ReplayStandsAlone, ReplayIsCurrent
<1>5. Seen'
  BY DEF Shapes, Seen
<1> QED BY <1>1, <1>2, <1>3, <1>4, <1>5

\* What is replayed is a row that matches, so it is current and its user's own.
LEMMA ReplayInv == ASSUME Inv, NEW t \in Turns, Replay(t) PROVE Inv'
<1> USE DEF Replay, At, Goto, swap, meta, asked, Inv
<1>1. Shapes'
  BY DEF Shapes, PCs
<1>2. Stamped' /\ Alone'
  BY DEF Shapes, Stamped, StampedNow, Alone
<1>3. Current'
  BY DEF Shapes, Current, Awaiting
<1>4. ReplayedLast'
  BY DEF Shapes, ReplayedLast
<1>5. ReplayStandsAlone'
  BY DEF Shapes, ReplayStandsAlone, Matching, Alone
<1>6. ReplayIsCurrent'
  <2>1. PICK r \in Matching(t) : replay' = [replay EXCEPT ![t] = {r}]
    OBVIOUS
  <2>2. since[t] # 0 => r.live >= since[t] /\ (~r.across => \A d \in r.saw : d = r.live)
    BY <2>1 DEF Matching, Current, Awaiting, Seen
  <2> QED BY <2>1, <2>2 DEF Shapes, ReplayIsCurrent
<1>7. Seen'
  BY DEF Shapes, Seen
<1> QED BY <1>1, <1>2, <1>3, <1>4, <1>5, <1>6, <1>7

\* A query only adds to what the turn has seen.
LEMMA RunSqlInv == ASSUME Inv, NEW t \in Turns, RunSql(t) PROVE Inv'
<1> USE DEF RunSql, At, swap, meta, asked, Inv, Shapes
<1>1. Shapes' /\ Stamped' /\ Current' /\ Alone'
  BY DEF Stamped, StampedNow, Current, Awaiting, Alone
<1>2. ReplayedLast' /\ ReplayStandsAlone' /\ ReplayIsCurrent'
  BY DEF ReplayedLast, ReplayStandsAlone, ReplayIsCurrent
<1>3. Seen'
  BY DEF Seen
<1> QED BY <1>1, <1>2, <1>3

\* cache_store reads the version that is current for the live dataset.
LEMMA StampVersionInv == ASSUME Inv, NEW t \in Turns, StampVersion(t) PROVE Inv'
<1> USE DEF StampVersion, At, Goto, swap, meta, asked, Inv
<1>1. Shapes'
  BY DEF Shapes, PCs
<1>2. Stamped' /\ Alone'
  BY DEF Shapes, Stamped, StampedNow, Alone
<1>3. Current'
  BY DEF Shapes, Stamped, StampedNow, Current, Awaiting
<1>4. ReplayedLast' /\ ReplayStandsAlone' /\ ReplayIsCurrent'
  BY DEF Shapes, ReplayedLast, ReplayStandsAlone, ReplayIsCurrent
<1>5. Seen'
  BY DEF Shapes, Seen
<1> QED BY <1>1, <1>2, <1>3, <1>4, <1>5

\* Pruning only takes rows away.
LEMMA PrunedSubset == \A rows : Pruned(rows) \subseteq rows
BY DEF Pruned, Newest

\* A store only adds its own row, and that one carries the stamp it read.
LEMMA InsertInv == ASSUME Inv, NEW t \in Turns, Insert(t) PROVE Inv'
<1> DEFINE row == StoredRow(t)
<1>1. cache' \subseteq cache \cup {row}
  BY PrunedSubset DEF Insert
<1>2. /\ row.version = version[t] /\ row.live = since[t] /\ row.alone = alone[t]
      /\ row.saw = saw[t] /\ row.across = across[t]
      /\ row = [id |-> row.id, user |-> row.user, question |-> row.question,
                saw |-> row.saw, across |-> row.across, build |-> row.build,
                alone |-> row.alone, version |-> row.version, live |-> row.live,
                expired |-> row.expired]
  BY DEF StoredRow
<1> HIDE DEF row
<1>3. /\ UNCHANGED <<dataset, dataVersion, bumped, asked, version, saw, across, since, replay>>
      /\ pc[t] = "insert" /\ pc' = [pc EXCEPT ![t] = "done"]
  BY DEF Insert, At, Goto, swap, meta
<1>4. Shapes'
  BY <1>1, <1>2, <1>3 DEF Inv, Shapes, RowShape, PCs
<1>5. Stamped' /\ Alone'
  BY <1>1, <1>2, <1>3 DEF Inv, Shapes, Stamped, StampedNow, Alone, asked
<1>6. Current'
  BY <1>1, <1>2, <1>3 DEF Inv, Shapes, Current, Awaiting
<1>7. ReplayedLast' /\ ReplayStandsAlone' /\ ReplayIsCurrent'
  BY <1>3 DEF Inv, Shapes, ReplayedLast, ReplayStandsAlone, ReplayIsCurrent, asked
<1>8. Seen'
  BY <1>1, <1>2, <1>3 DEF Inv, Shapes, Seen
<1> QED BY <1>4, <1>5, <1>6, <1>7, <1>8 DEF Inv

\* A row that gets older keeps the rest.
LEMMA ExpireRows ==
    ASSUME Inv, Expire
    PROVE  \A r \in cache' : RowShape(r) /\ \E s \in cache :
              r.version = s.version /\ r.live = s.live /\ r.alone = s.alone
              /\ r.saw = s.saw /\ r.across = s.across
<1>1. PICK n : cache' = {[r EXCEPT !.expired = @ \/ r.id <= n] : r \in cache}
  BY DEF Expire
<1>2. TAKE r \in cache'
<1>3. PICK s \in cache : r = [s EXCEPT !.expired = @ \/ s.id <= n]
  BY <1>1
<1>4. RowShape(s)
  BY DEF Inv, Shapes
<1> QED BY <1>3, <1>4 DEF RowShape

\* Ageing changes nothing a lookup reads.
LEMMA ExpireInv == ASSUME Inv, Expire PROVE Inv'
<1>1. UNCHANGED <<dataset, dataVersion, bumped, turn>>
  BY DEF Expire, swap, meta
<1>2. Shapes'
  BY <1>1, ExpireRows DEF turn, asked, Inv, Shapes
<1>3. Stamped' /\ Alone'
  BY <1>1, ExpireRows DEF turn, asked, Inv, Stamped, StampedNow, Alone
<1>4. Current'
  BY <1>1, ExpireRows DEF turn, Inv, Current, Awaiting
<1>5. ReplayedLast' /\ ReplayStandsAlone' /\ ReplayIsCurrent'
  BY <1>1 DEF turn, asked, Inv, ReplayedLast, ReplayStandsAlone, ReplayIsCurrent
<1>6. Seen'
  BY <1>1, ExpireRows DEF turn, Inv, Seen
<1> QED BY <1>2, <1>3, <1>4, <1>5, <1>6 DEF Inv

\* The tail of a swap: the rename opens a window that the bump closes.
LEMMA ImportInv == ASSUME Inv, Import PROVE Inv'
<1> USE DEF Inv
<1>1. /\ UNCHANGED <<pc, asked, version, saw, since, replay>> /\ cache' \subseteq cache
      /\ \/ UNCHANGED <<dataset, across>>
         \/ across' = [t \in Turns |-> across[t] \/ UnderWay(t)]
  BY DEF Import, Rename, Bump, Wipe, TailRaises, turn, swap
<1>2. \/ dataset' = dataset + 1 /\ bumped' = FALSE /\ dataVersion' = dataVersion
      \/ dataset' = dataset /\ bumped' = TRUE /\ dataVersion' = dataVersion + 1
      \/ UNCHANGED <<dataset, bumped, dataVersion>>
  BY DEF Import, Rename, Bump, Wipe, TailRaises, meta, swap
<1>3. Shapes'
  <2>1. dataset' \in {dataset, dataset + 1} /\ dataVersion' \in {dataVersion, dataVersion + 1}
    BY <1>2
  <2>2. dataset' \in Nat \ {0} /\ dataVersion' \in Nat
    BY <2>1 DEF Shapes
  <2>3. bumped' \in BOOLEAN
    BY <1>2 DEF Shapes
  <2>4. \A r \in cache' : RowShape(r)
    BY <1>1 DEF Shapes
  <2> QED BY <1>1, <2>2, <2>3, <2>4 DEF Shapes
<1>4. Stamped'
  BY <1>1, <1>2 DEF Shapes, RowShape, Stamped, StampedNow
<1>5. Current'
  BY <1>1, <1>2 DEF Shapes, Current, Awaiting
<1>6. Alone' /\ ReplayedLast' /\ ReplayStandsAlone' /\ ReplayIsCurrent'
  BY <1>1 DEF asked, Alone, ReplayedLast, ReplayStandsAlone, ReplayIsCurrent
<1>7. Seen'
  BY <1>1 DEF Seen, UnderWay
<1> QED BY <1>3, <1>4, <1>5, <1>6, <1>7

\* Crashes and boots end turns and at most empty the cache.
LEMMA BootInv ==
    ASSUME Inv, Crash \/ Boot \/ BootUnchecked \/ UNCHANGED vars
    PROVE  Inv'
<1> USE DEF Inv
<1>1. /\ UNCHANGED <<dataset, dataVersion, bumped, asked, version, saw, across, since, replay>>
      /\ cache' \subseteq cache
  BY DEF Crash, Boot, BootUnchecked, vars, meta, swap, turn
<1>2. \/ pc' = pc
      \/ pc' = [t \in Turns |-> IF pc[t] = "unasked" THEN "unasked" ELSE "done"]
  BY DEF Crash, Boot, BootUnchecked, vars, turn
<1>3. Shapes'
  BY <1>1, <1>2 DEF Shapes, PCs
<1>4. Stamped' /\ Alone'
  BY <1>1, <1>2 DEF Shapes, Stamped, StampedNow, Alone, asked
<1>5. Current'
  BY <1>1, <1>2 DEF Shapes, Current, Awaiting
<1>6. ReplayedLast' /\ ReplayStandsAlone' /\ ReplayIsCurrent'
  BY <1>1, <1>2 DEF Shapes, asked, ReplayedLast, ReplayStandsAlone, ReplayIsCurrent
<1>7. Seen'
  BY <1>1, <1>2 DEF Shapes, Seen
<1> QED BY <1>3, <1>4, <1>5, <1>6, <1>7

\* The invariant holds in every reachable state: the argument every theorem
\* below rests on.
THEOREM Invariance == Spec => []Inv
<1>1. Inv /\ [Next]_vars => Inv'
  BY MovesQuietly, ReadVersionInv, ReplayInv, RunSqlInv, StampVersionInv,
    InsertInv, ImportInv, ExpireInv, BootInv DEF Next, Turn
<1> QED BY InitInv, <1>1, PTL DEF Spec

-----------------------------------------------------------------------------
(* What follows from it                                                    *)

\* No answer that depends on a conversation is replayed, and none inside one,
\* whoever asks what and when.
THEOREM LoneReplay == Spec => []ReplayStandsAlone
BY Invariance, PTL DEF Inv

\* Whatever the interleaving of lookups, stores, renames, bumps and failed
\* tails, a lookup under a bumped version replays only what was queried on that
\* dataset or a newer one, except for the turns a dataset went live under: they
\* are kept from the lookups of datasets that went live after they were stored.
THEOREM CurrentReplay == Spec => []ReplayIsCurrent
BY Invariance, PTL DEF Inv

-----------------------------------------------------------------------------
(* The build that wrote a row                                              *)

\* While every boot makes its check, the running build is the marked one and has
\* written whatever there is.
Built ==
    /\ build \in Builds
    /\ checked =>
          /\ up => marker = build
          /\ marker # Unmarked => \A r \in cache : r.build = marker

LEMMA InitBuilt == Init => Built
BY DEF Init, Built

\* Only the row that is stored is new, and it is of the running build.
LEMMA TurnBuilt == ASSUME Built, NEW t \in Turns, Turn(t) PROVE Built'
<1>1. UNCHANGED <<proc, marker>>
  BY DEF Turn, Ask, Screened, ReadVersion, Replay, Miss, NoEmbedding, RunSql, Answer,
    StampVersion, Insert, meta
<1>2. CASE Insert(t)
  <2>1. cache' \subseteq cache \cup {StoredRow(t)} /\ up
    BY <1>2, PrunedSubset DEF Insert, At
  <2>2. StoredRow(t).build = build
    BY DEF StoredRow
  <2> QED BY <1>1, <2>1, <2>2 DEF Built, proc
<1>3. CASE ~Insert(t)
  <2>1. UNCHANGED cache
    BY <1>3 DEF Turn, Ask, Screened, ReadVersion, Replay, Miss, NoEmbedding, RunSql,
      Answer, StampVersion
  <2> QED BY <1>1, <2>1 DEF Built, proc
<1> QED BY <1>2, <1>3

\* Age does not touch the build.
LEMMA ExpireBuilt == ASSUME Built, Inv, Expire PROVE Built'
<1>1. \A r \in cache' : \E s \in cache : r.build = s.build
  <2>1. PICK n : cache' = {[r EXCEPT !.expired = @ \/ r.id <= n] : r \in cache}
    BY DEF Expire
  <2>2. TAKE r \in cache'
  <2>3. PICK s \in cache : r = [s EXCEPT !.expired = @ \/ s.id <= n]
    BY <2>1
  <2>4. RowShape(s)
    BY DEF Inv, Shapes
  <2> QED BY <2>3, <2>4 DEF RowShape
<1>2. UNCHANGED <<proc, marker>>
  BY DEF Expire, meta
<1> QED BY <1>1, <1>2 DEF Built, proc

\* A boot that finds another marker wipes, and marks what it is.
LEMMA BootBuilt == ASSUME Built, Boot PROVE Built'
<1>1. PICK b \in Builds :
        /\ build' = b /\ up'
        /\ IF VersionChanged(b)
             THEN cache' = {} /\ marker' = b /\ checked' = TRUE
             ELSE UNCHANGED <<cache, marker, checked>>
  BY DEF Boot
<1> QED BY <1>1 DEF Built, VersionChanged

LEMMA StepBuilt == Built /\ Inv /\ [Next]_vars => Built'
<1> SUFFICES ASSUME Built, Inv, [Next]_vars PROVE Built'
  OBVIOUS
<1>1. CASE Import
  BY <1>1 DEF Import, Rename, Bump, Wipe, TailRaises, Built, meta, proc
<1>2. CASE Crash \/ BootUnchecked \/ UNCHANGED vars
  BY <1>2 DEF Crash, BootUnchecked, vars, meta, proc, Built
<1> QED BY <1>1, <1>2, TurnBuilt, ExpireBuilt, BootBuilt DEF Next

\* Only a lookup that matches replays, and it replays a row of the cache.
LEMMA ReplayedRows ==
    ASSUME [Next]_vars, NEW t \in Turns, replay'[t] # replay[t], Inv
    PROVE  up /\ replay'[t] \subseteq cache
<1>1. PICK u \in Turns : Replay(u)
  BY DEF Next, Turn, Ask, Screened, ReadVersion, Replay, Miss, NoEmbedding, RunSql, Answer,
    StampVersion, Insert, Import, Rename, Bump, Wipe, TailRaises, Expire, Crash, Boot,
    BootUnchecked, vars, turn
<1>2. PICK r \in Matching(u) : replay' = [replay EXCEPT ![u] = {r}]
  BY <1>1 DEF Replay
<1>3. r \in cache /\ up
  BY <1>1, <1>2 DEF Matching, Replay, At
<1>4. t = u /\ replay'[t] = {r}
  BY <1>2 DEF Inv, Shapes
<1> QED BY <1>3, <1>4

\* As long as every boot makes its check, what is replayed is of the build that runs.
THEOREM ReplaysOfThisBuild == Spec => [][ReplayIsOfThisBuild]_vars
<1>1. Built /\ Inv /\ [Next]_vars => [ReplayIsOfThisBuild]_vars
  <2> SUFFICES ASSUME Built, Inv, [Next]_vars, NEW t \in Turns,
                      replay'[t] # replay[t], checked, NEW r \in replay'[t]
               PROVE  r.build = build
    BY DEF ReplayIsOfThisBuild
  <2>1. up /\ r \in cache
    BY ReplayedRows
  <2>2. marker = build /\ build # Unmarked
    BY <2>1, ConstantsAssumption DEF Built
  <2> QED BY <2>1, <2>2 DEF Built
<1> QED BY InitBuilt, StepBuilt, Invariance, <1>1, PTL DEF Spec

\* Whoever asks what under which build and dataset, and whatever is swapped, stored,
\* wiped or booted in between: a replay stands alone, is current as ReplayIsCurrent
\* says, and of this build.
THEOREM ReplaysAreRight == Spec => ReplayIsRight
BY LoneReplay, CurrentReplay, ReplaysOfThisBuild, PTL DEF ReplayIsRight

-----------------------------------------------------------------------------
(* Types, and the rows of the table                                        *)

\* A set of numbers with an upper bound has a greatest element.
LEMMA GreatestOf ==
    ASSUME NEW S \in SUBSET Nat, S # {},
           NEW n \in Nat, \A x \in S : x <= n
    PROVE  Max(S) \in S /\ \A x \in S : x <= Max(S)
<1> DEFINE Below == OpToRel(<, Nat)
           Tops  == {k \in Nat : \A x \in S : x <= k}
<1>1. Tops \subseteq Nat /\ n \in Tops
  OBVIOUS
<1>2. PICK k \in Tops : \A y \in Tops : ~(<<y, k>> \in Below)
  <2>1. IsWellFoundedOn(Below, Nat)
    BY NatLessThanWellFounded
  <2> HIDE DEF Tops, Below
  <2> QED BY <1>1, <2>1, WFMin
<1>3. \A y \in Tops : ~(y < k)
  BY <1>2 DEF OpToRel
<1>4. k \in S
  <2>1. SUFFICES ASSUME k \notin S PROVE FALSE
    OBVIOUS
  <2>2. k # 0
    <3>1. PICK x \in S : TRUE
      OBVIOUS
    <3> QED BY <2>1, <3>1
  <2>3. k - 1 \in Nat /\ \A x \in S : x <= k - 1
    BY <2>1, <2>2
  <2> QED BY <1>3, <2>3
<1>5. \A x \in S : k >= x
  OBVIOUS
<1> QED BY <1>4, <1>5 DEF Max

\* A set of numbers has a least element.
LEMMA LeastOf ==
    ASSUME NEW S \in SUBSET Nat, S # {}
    PROVE  \E k \in S : \A x \in S : k <= x
<1> DEFINE Below == OpToRel(<, Nat)
<1>1. PICK k \in S : \A y \in S : ~(<<y, k>> \in Below)
  <2>1. IsWellFoundedOn(Below, Nat)
    BY NatLessThanWellFounded
  <2> HIDE DEF Below
  <2> QED BY <2>1, WFMin
<1>2. \A y \in S : ~(y < k)
  BY <1>1 DEF OpToRel
<1> QED BY <1>2

\* The rows are finitely many, with ids of their own.
Numbered ==
    /\ IsFiniteSet(cache)
    /\ \E n \in Nat : \A r \in cache : r.id <= n
    /\ \A r, s \in cache : r.id = s.id => r = s

\* What a bump and a store are about to do keeps the version behind the dataset.
Underway ==
    /\ tail = "bump" => dataVersion < dataset
    /\ \A t \in Turns : pc[t] = "insert" => version[t] <= dataVersion /\ since[t] # 0

Typed == TypeOK /\ Numbered /\ Underway

LEMMA InitTyped == Init => Typed
<1> SUFFICES ASSUME Init PROVE Typed
  OBVIOUS
<1>1. MaxSwaps \in Nat /\ MaxFaults \in Nat /\ MaxBoots \in Nat /\ 1 \in Datasets
  BY ConstantsAssumption DEF Datasets
<1>2. cache \subseteq Row /\ \A r \in cache : r.id = 1 /\ r.version = 1
  <2>1. CASE cache = {}
    BY <2>1
  <2>2. CASE cache # {}
    <3>1. PICK u \in Users \cup {Nobody}, q \in Questions :
            cache = {[id |-> 1, user |-> u, question |-> q, saw |-> {1},
                      across |-> FALSE, build |-> build, alone |-> TRUE,
                      version |-> 1, live |-> 1, expired |-> FALSE]}
      BY <2>2 DEF Init
    <3>2. build \in Builds /\ {1} \in SUBSET Datasets /\ 1 \in Nat
      BY <1>1 DEF Init
    <3> QED BY <1>1, <3>1, <3>2 DEF Row
  <2> QED BY <2>1, <2>2
<1>3. IsFiniteSet(cache) /\ \A r, s \in cache : r = s
  <2>1. cache = {} \/ \E x : cache = {x}
    BY DEF Init
  <2> QED BY <2>1, FS_EmptySet, FS_Singleton
<1>4. TypeOK
  <2>1. /\ dataset \in Datasets /\ dataVersion \in 1..dataset /\ \A r \in cache : r.version <= dataVersion
        /\ faults \in 0..MaxFaults /\ boots \in 0..MaxBoots
    BY <1>1, <1>2 DEF Init
  <2>2. /\ since \in [Turns -> 0..(MaxSwaps + 1)] /\ version \in [Turns -> Datasets]
        /\ saw \in [Turns -> SUBSET Datasets] /\ replay \in [Turns -> SUBSET Row]
    BY <1>1 DEF Init
  <2>3. marker \in Builds \cup {Unmarked} /\ build \in Builds
    BY DEF Init
  <2> QED BY <1>2, <2>1, <2>2, <2>3 DEF Init, TypeOK, PCs
<1>5. Numbered
  BY <1>2, <1>3 DEF Numbered
<1>6. Underway
  BY DEF Init, Underway
<1> QED BY <1>4, <1>5, <1>6 DEF Typed

\* The next id is above all there are.
LEMMA NextIdIsNew ==
    ASSUME Typed
    PROVE  NextId \in Nat /\ \A r \in cache : r.id \in Nat /\ r.id < NextId
<1>1. \A r \in cache : r.id \in Nat
  BY DEF Typed, TypeOK, Row
<1>2. CASE cache = {}
  BY <1>2 DEF NextId
<1>3. CASE cache # {}
  <2> DEFINE S == {r.id : r \in cache}
  <2>1. S \in SUBSET Nat /\ S # {} /\ \A r \in cache : r.id \in S
    BY <1>1, <1>3
  <2>2. PICK n \in Nat : \A x \in S : x <= n
    BY DEF Typed, Numbered
  <2>3. NextId = 1 + Max(S)
    BY <1>3 DEF NextId
  <2> HIDE DEF S
  <2>4. Max(S) \in S /\ \A x \in S : x <= Max(S)
    BY <2>1, <2>2, GreatestOf
  <2>5. Max(S) \in Nat
    BY <2>1, <2>4
  <2>6. \A r \in cache : r.id \in Nat /\ r.id <= Max(S)
    BY <1>1, <2>1, <2>4
  <2> QED BY <2>3, <2>5, <2>6
<1> QED BY <1>2, <1>3

\* The row that is about to be stored.
LEMMA StoredRowTyped ==
    ASSUME Typed, NEW t \in Turns, pc[t] = "insert"
    PROVE  /\ StoredRow(t) \in Row /\ StoredRow(t).version <= dataVersion
           /\ StoredRow(t).id = NextId /\ ~StoredRow(t).expired
<1>1. user[t] \in Users /\ question[t] \in Questions /\ alone[t] \in BOOLEAN /\ across[t] \in BOOLEAN /\ build \in Builds
  BY DEF Typed, TypeOK
<1>2. saw[t] \in SUBSET Datasets /\ version[t] \in Datasets /\ since[t] \in Datasets
  BY ConstantsAssumption DEF Typed, TypeOK, Underway, Datasets
<1>3. version[t] <= dataVersion
  BY DEF Typed, Underway
<1> QED BY <1>1, <1>2, <1>3, NextIdIsNew DEF StoredRow, Row

LEMMA InsertTyped == ASSUME Typed, NEW t \in Turns, Insert(t) PROVE Typed'
<1> DEFINE row == StoredRow(t)
<1>1. /\ UNCHANGED <<meta, swap, proc, asked, version, saw, across, since, replay, bounds>>
      /\ pc[t] = "insert" /\ pc' = [pc EXCEPT ![t] = "done"]
  BY DEF Insert, At, Goto
<1>2. cache' \subseteq cache \cup {row}
  BY PrunedSubset DEF Insert
<1>3. row \in Row /\ row.version <= dataVersion /\ row.id = NextId
  BY <1>1, StoredRowTyped
<1> HIDE DEF row
<1>4. cache' \subseteq Row /\ \A r \in cache' : r.version <= dataVersion
  BY <1>2, <1>3 DEF Typed, TypeOK
<1>5. TypeOK'
  BY <1>1, <1>4 DEF Typed, TypeOK, PCs, meta, swap, proc, asked, bounds
<1>6. Numbered'
  <2>1. IsFiniteSet(cache')
    BY <1>2, FS_AddElement, FS_Subset DEF Typed, Numbered
  <2>2. \A r \in cache' : r.id <= NextId
    BY <1>2, <1>3, NextIdIsNew
  <2>3. \A r, s \in cache' : r.id = s.id => r = s
    BY <1>2, <1>3, NextIdIsNew DEF Typed, Numbered
  <2> QED BY <2>1, <2>2, <2>3, NextIdIsNew DEF Numbered
<1>7. Underway'
  BY <1>1 DEF Typed, TypeOK, Underway, meta, swap
<1> QED BY <1>5, <1>6, <1>7 DEF Typed

\* The steps of a turn that leave the cache alone.
LEMMA TurnTyped == ASSUME Typed, NEW t \in Turns, Turn(t), ~Insert(t) PROVE Typed'
<1> USE DEF At, Goto
<1>1. UNCHANGED <<meta, swap, proc, cache, asked, across, bounds>>
  BY DEF Turn, Ask, Screened, ReadVersion, Replay, Miss, NoEmbedding, RunSql, Answer, StampVersion
<1>2. Numbered'
  BY <1>1 DEF Typed, Numbered
<1>3. dataset \in Datasets /\ dataVersion \in Datasets /\ (bumped \in BOOLEAN)
      /\ dataset \in 0..(MaxSwaps + 1) /\ 0 \in 0..(MaxSwaps + 1) /\ dataset # 0
  BY ConstantsAssumption DEF Typed, TypeOK, Datasets
<1>4. /\ pc' \in [Turns -> PCs]
      /\ \A u \in Turns : pc'[u] = "insert" => u = t \/ pc[u] = "insert"
      /\ pc'[t] = "insert" => pc[t] = "insert" \/ StampVersion(t)
  BY DEF Typed, TypeOK, PCs, Turn, Ask, Screened, ReadVersion, Replay, Miss, NoEmbedding, RunSql,
    Answer, StampVersion
<1>5. version' \in [Turns -> Datasets] /\ since' \in [Turns -> 0..(MaxSwaps + 1)]
  BY <1>3 DEF Typed, TypeOK, Turn, Ask, Screened, ReadVersion, Replay, Miss, NoEmbedding, RunSql,
    Answer, StampVersion
<1>6. saw' \in [Turns -> SUBSET Datasets]
  BY <1>3 DEF Typed, TypeOK, Turn, Ask, Screened, ReadVersion, Replay, Miss, NoEmbedding, RunSql,
    Answer, StampVersion
<1>7. replay' \in [Turns -> SUBSET Row]
  <2>1. CASE Replay(t)
    <3>1. PICK r \in cache : replay' = [replay EXCEPT ![t] = {r}]
      BY <2>1 DEF Replay, Matching
    <3>2. {r} \in SUBSET Row
      BY DEF Typed, TypeOK
    <3> QED BY <3>1, <3>2 DEF Typed, TypeOK
  <2>2. CASE ~Replay(t)
    BY <2>2 DEF Typed, TypeOK, Turn, Ask, Screened, ReadVersion, Miss, NoEmbedding, RunSql, Answer,
      StampVersion
  <2> QED BY <2>1, <2>2
<1>8. TypeOK'
  BY <1>1, <1>4, <1>5, <1>6, <1>7 DEF Typed, TypeOK, meta, swap, proc, asked, bounds
<1>9. Underway'
  <2>1. dataVersion' = dataVersion /\ tail' = tail /\ dataset' = dataset
    BY <1>1 DEF meta, swap
  <2>2. \A u \in Turns : pc'[u] = "insert" => version'[u] <= dataVersion' /\ since'[u] # 0
    <3> SUFFICES ASSUME NEW u \in Turns, pc'[u] = "insert"
                 PROVE  version'[u] <= dataVersion' /\ since'[u] # 0
      OBVIOUS
    <3>1. CASE StampVersion(t)
      BY <1>3, <1>4, <2>1, <3>1 DEF StampVersion, Typed, TypeOK, Underway, Datasets
    <3>2. CASE ReadVersion(t)
      <4>1. pc[t] = "lookup" /\ pc'[t] = "match"
        BY <3>2 DEF ReadVersion, Typed, TypeOK
      <4>2. u # t /\ version'[u] = version[u] /\ since'[u] = since[u]
        BY <3>2, <4>1 DEF ReadVersion, Typed, TypeOK
      <4> QED BY <1>4, <2>1, <4>2 DEF Typed, Underway
    <3>3. CASE ~StampVersion(t) /\ ~ReadVersion(t)
      <4>1. UNCHANGED <<version, since>>
        BY <3>3 DEF Turn, Ask, Screened, Replay, Miss, NoEmbedding, RunSql, Answer
      <4> QED BY <1>4, <2>1, <3>3, <4>1 DEF Typed, Underway
    <3> QED BY <3>1, <3>2, <3>3
  <2> QED BY <2>1, <2>2 DEF Typed, Underway
<1> QED BY <1>2, <1>8, <1>9 DEF Typed

LEMMA ImportTyped == ASSUME Typed, Import PROVE Typed'
<1>1. /\ UNCHANGED <<proc, pc, asked, version, saw, since, replay>> /\ cache' \in {cache, {}}
      /\ marker' = marker /\ across' \in [Turns -> BOOLEAN]
  BY DEF Import, Rename, Bump, Wipe, TailRaises, meta, turn, UnderWay, Typed, TypeOK
<1>2. MaxFaults \in Nat /\ MaxBoots \in Nat /\ MaxSwaps \in Nat
  BY ConstantsAssumption
<1>3. /\ dataset' \in Datasets /\ dataVersion' \in 1..dataset' /\ dataVersion <= dataVersion'
      /\ tail' = "bump" => dataVersion' < dataset'
  BY <1>2 DEF Import, Rename, Bump, Wipe, TailRaises, Typed, TypeOK, Underway, Datasets, meta
<1>4. tail' \in {"bump", "wipe", "done"} /\ bumped' \in BOOLEAN
  BY DEF Import, Rename, Bump, Wipe, TailRaises, Typed, TypeOK
<1>5. faults' \in 0..MaxFaults /\ boots' \in 0..MaxBoots
  BY <1>2 DEF Import, Rename, Bump, Wipe, TailRaises, Typed, TypeOK, Fault, bounds
<1>6. cache' \subseteq Row /\ \A r \in cache' : r.version <= dataVersion'
  <2>1. \A r \in cache : r.version \in Nat /\ r.version <= dataVersion
    BY DEF Typed, TypeOK, Row, Datasets
  <2>2. dataVersion \in Nat /\ dataVersion' \in Nat
    BY <1>3 DEF Typed, TypeOK, Datasets
  <2> QED BY <1>1, <1>3, <2>1, <2>2 DEF Typed, TypeOK
<1>7. TypeOK'
  BY <1>1, <1>3, <1>4, <1>5, <1>6 DEF Typed, TypeOK, proc, asked
<1>8. Numbered'
  BY <1>1, FS_EmptySet DEF Typed, Numbered
<1>9. Underway'
  <2>1. \A t \in Turns : version[t] \in Nat
    BY DEF Typed, TypeOK, Datasets
  <2>2. dataVersion \in Nat /\ dataVersion' \in Nat
    BY <1>3 DEF Typed, TypeOK, Datasets
  <2> QED BY <1>1, <1>3, <2>1, <2>2 DEF Typed, Underway
<1> QED BY <1>7, <1>8, <1>9 DEF Typed

LEMMA ExpireTyped == ASSUME Typed, Expire PROVE Typed'
<1>1. PICK n : cache' = {[r EXCEPT !.expired = @ \/ r.id <= n] : r \in cache}
  BY DEF Expire
<1>2. UNCHANGED <<meta, swap, proc, turn, bounds>>
  BY DEF Expire
<1> DEFINE Older(r) == [r EXCEPT !.expired = @ \/ r.id <= n]
<1>3. cache' = {Older(r) : r \in cache}
  BY <1>1
<1>4. \A r \in cache : Older(r) \in Row /\ Older(r).id = r.id /\ Older(r).version = r.version
  <2> SUFFICES ASSUME NEW r \in cache
               PROVE  Older(r) \in Row /\ Older(r).id = r.id /\ Older(r).version = r.version
    OBVIOUS
  <2> DEFINE e == r.expired \/ r.id <= n
  <2>1. r \in Row
    BY DEF Typed, TypeOK
  <2>2. e \in BOOLEAN /\ Older(r) = [r EXCEPT !.expired = e]
    OBVIOUS
  <2> HIDE DEF e, Older
  <2> QED BY <2>1, <2>2 DEF Row
<1> HIDE DEF Older
<1>5. TypeOK'
  <2>1. cache' \subseteq Row /\ \A r \in cache' : r.version <= dataVersion
    BY <1>3, <1>4 DEF Typed, TypeOK
  <2> QED BY <1>2, <2>1 DEF Typed, TypeOK, meta, swap, proc, turn, asked, bounds
<1>6. Numbered'
  <2>1. IsFiniteSet(cache')
    <3> DEFINE f == [r \in cache |-> Older(r)]
    <3>1. f \in Surjection(cache, cache')
      BY <1>3 DEF Surjection
    <3> HIDE DEF f
    <3> QED BY <3>1, FS_Surjection DEF Typed, Numbered
  <2>2. \E k \in Nat : \A r \in cache' : r.id <= k
    BY <1>3, <1>4 DEF Typed, Numbered
  <2>3. \A r, s \in cache' : r.id = s.id => r = s
    BY <1>3, <1>4 DEF Typed, Numbered
  <2> QED BY <2>1, <2>2, <2>3 DEF Numbered
<1>7. Underway'
  BY <1>2 DEF Typed, Underway, meta, swap, turn
<1> QED BY <1>5, <1>6, <1>7 DEF Typed

LEMMA BootTyped ==
    ASSUME Typed, Crash \/ Boot \/ BootUnchecked \/ UNCHANGED vars
    PROVE  Typed'
<1>1. /\ UNCHANGED <<dataset, dataVersion, bumped, asked, version, saw, across, since, replay>>
      /\ tail' \in {tail, "done"} /\ cache' \in {cache, {}}
  BY DEF Crash, Boot, BootUnchecked, vars, meta, swap, turn
<1>2. \/ pc' = pc
      \/ pc' = [t \in Turns |-> IF pc[t] = "unasked" THEN "unasked" ELSE "done"]
  BY DEF Crash, Boot, BootUnchecked, vars, turn
<1>3. MaxFaults \in Nat /\ MaxBoots \in Nat
  BY ConstantsAssumption
<1>4. /\ build' \in Builds /\ marker' \in Builds \cup {Unmarked}
      /\ up' \in BOOLEAN /\ checked' \in BOOLEAN
  BY DEF Crash, Boot, BootUnchecked, vars, meta, swap, proc, Typed, TypeOK
<1>5. faults' \in 0..MaxFaults /\ boots' \in 0..MaxBoots
  BY <1>3 DEF Crash, Boot, BootUnchecked, vars, bounds, Typed, TypeOK
<1>6. pc' \in [Turns -> PCs]
  BY <1>2 DEF Typed, TypeOK, PCs
<1>7. TypeOK'
  BY <1>1, <1>4, <1>5, <1>6 DEF Typed, TypeOK, asked
<1>8. Numbered'
  BY <1>1, FS_EmptySet DEF Typed, Numbered
<1>9. Underway'
  BY <1>1, <1>2 DEF Typed, Underway
<1> QED BY <1>7, <1>8, <1>9 DEF Typed

LEMMA StepTyped == Typed /\ [Next]_vars => Typed'
BY InsertTyped, TurnTyped, ImportTyped, ExpireTyped, BootTyped DEF Next

\* Everything keeps its type; an id, once there are rows, is above all of them.
THEOREM TypeCorrect == Spec => []TypeOK
<1>1. Typed => TypeOK
  BY DEF Typed
<1> QED BY InitTyped, StepTyped, <1>1, PTL DEF Spec

-----------------------------------------------------------------------------
(* The sweep of a store                                                    *)

\* Rows with fewer than n rows above them are at most n.
LEMMA NewestAreFew ==
    ASSUME NEW rows, IsFiniteSet(rows), NEW n \in Nat \ {0},
           \A r \in rows : r.id \in Nat,
           \A r, s \in rows : r.id = s.id => r = s
    PROVE  Cardinality(Newest(rows, n)) <= n
<1> DEFINE N == Newest(rows, n)
<1>1. N \subseteq rows /\ IsFiniteSet(N) /\ Cardinality(N) \in Nat
  BY FS_Subset, FS_CardinalityType DEF Newest
<1>2. CASE N = {}
  BY <1>2, FS_EmptySet
<1>3. CASE N # {}
  <2> DEFINE S == {r.id : r \in N}
  <2>1. S \in SUBSET Nat /\ S # {}
    BY <1>1, <1>3
  <2>2. PICK k \in S : \A x \in S : k <= x
    <3> HIDE DEF S
    <3> QED BY <2>1, LeastOf
  <2>3. PICK r \in N : r.id = k
    OBVIOUS
  <2> DEFINE Above == {s \in rows : s.id > r.id}
  <2>4. Cardinality(Above) < n /\ IsFiniteSet(Above) /\ Cardinality(Above) \in Nat
    BY FS_Subset, FS_CardinalityType DEF Newest
  <2>5. N \ {r} \subseteq Above
    <3> SUFFICES ASSUME NEW s \in N, s # r PROVE s \in Above
      OBVIOUS
    <3>1. s \in rows /\ r \in rows /\ s.id \in Nat /\ r.id \in Nat
      BY <1>1
    <3>2. s.id \in S /\ r.id <= s.id
      BY <2>2, <2>3
    <3>3. s.id # r.id
      BY <3>1
    <3> QED BY <3>1, <3>2, <3>3
  <2>6. Cardinality(N \ {r}) <= Cardinality(Above)
    BY <2>4, <2>5, FS_Subset
  <2>7. Cardinality(N \ {r}) = Cardinality(N) - 1
    BY <1>1, FS_RemoveElement
  <2>8. Cardinality(N) <= n
    <3> HIDE DEF N, Above
    <3> QED BY <1>1, <2>4, <2>6, <2>7
  <2> QED BY <2>8
<1> QED BY <1>2, <1>3

\* The row with the highest id is among the newest.
LEMMA HighestIsNew ==
    ASSUME NEW rows, NEW n \in Nat \ {0}, NEW r \in rows,
           \A s \in rows : s.id \in Nat, \A s \in rows : s.id <= r.id
    PROVE  r \in Newest(rows, n)
<1>1. {s \in rows : s.id > r.id} = {}
  OBVIOUS
<1> QED BY <1>1, FS_EmptySet DEF Newest

LEMMA InsertSweeps ==
    ASSUME Typed, NEW t \in Turns, Insert(t)
    PROVE  /\ MaxRows > 0 => Cardinality(cache') <= MaxRows
           /\ Retention => \A r \in cache' : ~r.expired
           /\ StoredRow(t) \in cache'
<1> DEFINE row  == StoredRow(t)
           all  == cache \cup {row}
           kept == {r \in all : ~(Retention /\ r.expired)}
<1>1. /\ row \in Row /\ row.id = NextId /\ ~row.expired
  BY StoredRowTyped DEF Insert, At
<1>2. cache' = IF MaxRows > 0 THEN Newest(kept, MaxRows) ELSE kept
  BY DEF Insert, Pruned
<1> HIDE DEF row
<1>3. /\ \A r \in all : r.id \in Nat /\ r.id <= row.id
      /\ \A r, s \in all : r.id = s.id => r = s
  BY <1>1, NextIdIsNew DEF Typed, Numbered
<1>4. IsFiniteSet(kept)
  <2>1. IsFiniteSet(all) /\ kept \subseteq all
    BY FS_AddElement DEF Typed, Numbered
  <2> QED BY <2>1, FS_Subset
<1>5. row \in kept /\ kept \subseteq all /\ \A r \in kept : Retention => ~r.expired
  BY <1>1
<1> HIDE DEF kept, all
<1>6. CASE MaxRows > 0
  <2>1. MaxRows \in Nat \ {0}
    BY <1>6, ConstantsAssumption
  <2>2. cache' = Newest(kept, MaxRows)
    BY <1>2, <1>6
  <2>3. Cardinality(Newest(kept, MaxRows)) <= MaxRows
    BY <1>3, <1>4, <1>5, <2>1, NewestAreFew
  <2>4. row \in Newest(kept, MaxRows)
    BY <1>3, <1>5, <2>1, HighestIsNew
  <2>5. Newest(kept, MaxRows) \subseteq kept
    BY DEF Newest
  <2> QED BY <1>5, <2>2, <2>3, <2>4, <2>5 DEF row
<1>7. CASE ~(MaxRows > 0)
  BY <1>2, <1>5, <1>7 DEF row
<1> QED BY <1>6, <1>7

\* Only a store ends a turn that was about to store, as long as the process is up.
LEMMA StoreIsInsert ==
    ASSUME Typed, [Next]_vars, NEW t \in Turns, up', pc[t] = "insert", pc'[t] = "done"
    PROVE  Insert(t)
<1>1. \A u \in Turns : Turn(u) => u = t
  BY DEF Turn, Ask, Screened, ReadVersion, Replay, Miss, NoEmbedding, RunSql, Answer, StampVersion,
    Insert, At, Goto, Typed, TypeOK
<1>2. Turn(t) => Insert(t)
  BY DEF Turn, Ask, Screened, ReadVersion, Replay, Miss, NoEmbedding, RunSql, Answer, StampVersion,
    Insert, At
<1>3. ~(Import \/ Expire \/ Crash \/ Boot \/ BootUnchecked \/ UNCHANGED vars)
  BY DEF Import, Rename, Bump, Wipe, TailRaises, Expire, Crash, Boot, BootUnchecked, vars, turn
<1> QED BY <1>1, <1>2, <1>3 DEF Next

\* A store leaves the cache within its bounds and keeps what it stored.
THEOREM StoresSweep == Spec => StoreSweeps
<1> DEFINE A == \A t \in Turns : up' /\ pc[t] = "insert" /\ pc'[t] = "done"
                  => /\ MaxRows > 0 => Cardinality(cache') <= MaxRows
                     /\ Retention => \A r \in cache' : ~r.expired
                     /\ StoredRow(t) \in cache'
<1>1. Typed /\ [Next]_vars => [A]_vars
  BY InsertSweeps, StoreIsInsert
<1> HIDE DEF A
<1>2. Spec => [][A]_vars
  BY InitTyped, StepTyped, <1>1, PTL DEF Spec
<1> QED BY <1>2 DEF A, StoreSweeps
=============================================================================
