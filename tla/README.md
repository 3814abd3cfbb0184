# Verification of IPEDS Oracle

IPEDS Oracle answers questions about US higher education in natural language.
A FastAPI server keeps two SQLite databases: `ipeds.db`, the dataset that the
model's SQL runs on, which administrators replace as a whole from Access files,
and `app.db`, where people, sessions, conversations, cached answers and jobs
are. A React client talks to it over HTTP and a stream of events.

This directory holds TLA+ models of the parts of the server whose behaviour
depends on the order of steps, the TLC runs over small instances of them, and
theorems about them that TLAPS checks for every instance. `PROJECT.json` is the
index: every modelled definition with the source lines it stands for, the runs,
one plausible bug per property that the run would find, the hazards and the
theorems.

## 1. Inventory

For each component: the state it keeps, its operations, what makes it hard, and
what it must get right. Paths are under `backend/app/` unless they say otherwise.

**Dataset lifecycle** (`importer.py`, import endpoints of `routers/admin.py`,
`scripts/build_ipeds_db.py`).
State: `ipeds.db`, `ipeds.db.prev`, `ipeds_staging.db`, the Access files of
DATA_DIR with a `.accdb.bak` beside some of them, the uploads in UPLOAD_DIR;
`import_jobs`, `year_provenance` and `meta.data_version` in `app.db`; a process-wide
lock. Operations: upload, integrate years from NCES, remove a year; each is
accepted by a request handler and run by a daemon thread. Hard: an exception may
come from any statement, those of the exception handlers and of the status
writes included; the swap is two renames and not one; the process may die
anywhere, and the boot only marks the jobs that were running; in one deployment
UPLOAD_DIR is DATA_DIR. It must run one job at a time, never lose a year that it
was not asked to drop, leave DATA_DIR as it was when the swap did not happen and
never roll it back when it did, and say truthfully how a job ended.

**Answer cache** (`skills.py`, looked up and filled by `routers/chat.py` and
`mcpsrv/ask.py`, wiped by `importer.py` and `main.py`).
State: `query_cache` rows stamped with `meta.data_version`, and
`meta.cache_app_version`. Hard: a lookup and a store are several statements with
a minute of model calls between them, and a swap may come in between; a wipe may
fail; a new build may find the rows of an older one. It must never replay an
answer of an older dataset or build, or one that depends on a conversation.

**Chat turns and conversations** (`routers/chat.py`, `feedback.py`, `guard.py`).
State: `conversations`, `messages`, `usage_log`, and what a stream in flight holds
(its conversation id, the message it edits, what it has spent). Hard: a turn
reads its conversation, awaits model calls, and writes a minute later, while
other tabs append, edit, rename and delete; ids are reused after a deletion; a
stream may be cancelled at any await; a title and a feedback lesson are computed
after the answer was committed. It must keep questions with their answers, write
where the question was asked, lose nothing on an edit that fails, leave no empty
conversation, and bill what was spent.

**Access** (`auth.py`, `apikeys.py`, `routers/auth.py`, `routers/keys.py`, Users
endpoints of `routers/admin.py`, `db.py:_bootstrap_admins`).
State: `allowlist`, `users` with `is_admin`, `access_requests`, `login_tokens`,
`sessions`, `api_keys`, `meta.bootstrap_admins_applied`. Hard: an endpoint reads
its caller and its target before its first write opens a transaction, so both may
be stale; addresses of one mailbox (+tags) share a denial; a removal under a
provider must also block, or the provider signs the person in again; every boot
applies ADMIN_EMAILS. There must remain an administrator, whoever was removed
must be out and his sessions and keys dead for good, and no boot may bring anybody back.

**Provider sign-in** (`oidc.py`, `ldapauth.py`, `authmethod.py`, `routers/auth.py`).
State: `oidc_logins`, a row per login that is under way; the browser's cookie; the cached
signing keys with two clocks, of the fetch and of the last forced one; `users.oidc_sub`.
Operations: start a login, its callback, from the burning of the state over the exchange,
the keys and the decision to the session. Hard: the callback holds no transaction while it
talks to the provider, so it may come twice, from another browser, or after another
first sign-in; keys rotate right after a fetch or during an outage. A login must open
one session, for the browser that began it; a bound address stays bound; a published key
must not stay unknown for longer than the floor between fetches.

**Rate limits** (`ratelimit.py`, called by the doors). State: a table of attempts per
door. A request reads the clock, waits for the write lock, and then deletes, counts and
inserts in one transaction. Hard: those that wait have clocks older than what has
committed; the LDAP form checks first and charges a failure only after its bind. No
window may hold more than its cap.

**Lessons** (`skills.py`, `seeds.py`, `lessoncats.py`, `feedback.py`, Skills endpoints
of `routers/admin.py`). State: `skills`, pending candidates and live lessons with or
without a vector; `lesson_rejections`, the tombstones; in `meta` the muted categories,
the marker of shipped seeds and the version of the vectors. Hard: a candidate looks for
tombstones, duplicates and suppressors and writes later; administrators edit and reject
by id in between; embeddings may be missing for the life of a process; seeds are
inserted one transaction each and the marker is written last; builds are rolled back.
A rejected idea must stay out, guidance must have been approved and stay findable, and
a seed must ship once and stay deleted.

**Agent loop** (`llm.py`, `critic.py`, `tools/registry.py`). State: the messages of
one turn, its rounds, failures, escalation, the pending emission, the critic's draft,
the answer as it is settled and stamped. Hard: a model may answer with text, with tools,
with both or with nothing, in any round; the emission is forced, the draft is sent back,
the rounds run out and a synthesis follows; the provider or a tool may fail anywhere. It
must end, in a bounded number of requests; what ships must have been seen by the
critic, and a revision replaces a draft only if it is one.

**SQL execution** (`tools/sql.py`). State: a read-only connection, a timer thread, an
event and a lock between it and the worker. Hard: `sqlite3_interrupt` reaches only a
statement that is active; the timer may fire at any step. The timer must never touch a
connection given up, and a statement must not return more than the result may have.

**Schema migrations and snapshots** (`db.py`), **backup and restore**
(`scripts/backup_app_db.py`, `scripts/restore_app_db.py`). State: `app.db` with its
write-ahead log, its version and schema; `app.db.pre-v<N>`; the backups; the copy set
aside by a restore. Hard: death between snapshot, migration and pruning, or between
the log and the file in a restore; content left in the log; images rolled back; a
snapshot that exists counts as taken. The version must tell the schema, a build must
leave a newer database alone, and what is kept must be what was copied.

**MCP endpoint** (`mcpsrv/`): the agent for API-key callers. **Grounding** (`grounding.py`):
whether a figure or a table of an answer is supported by its results, a function of both.
**Log store** (`logbuffer.py`): pruned by age and count. **NCES** (`nces.py`): catalog and
downloads, I/O whose outcomes the dataset model has. **Boot** (`main.py`): the order of
reconciliation, cache check and bootstrap. **Mail, middleware, LLM transport, search**: no
state of their own that outlives a request. **Browser client** (`frontend/src`): turns that
outlive the view that began them, table selection, CSV import.

How they interact. Everything shares `app.db`, whose transactions are the only
atomic steps between threads; the importer's swap and the cache meet in
`meta.data_version`; a chat turn meets the cache, the lessons and the agent, which runs
its queries through the SQL execution; every request meets a limiter and then Access,
through its session or key; the boot touches each of them once, after the migrations,
before the application serves.

## 2. The modules and the code

| module | models | composed with |
|---|---|---|
| `DatasetImport` | the import endpoints, the three pipelines, the swap, the handlers, death and boot | `ServedDataset` as the specification it implements |
| `ServedDataset` | what the pipelines promise of the served dataset | |
| `AnswerCache` | lookup, store, wipe and version check, under swaps and boots | |
| `ChatTurn` | turns, tabs, the feedback distiller, billing | `Conversations` as the specification it implements |
| `Conversations` | what the chat promises of conversations: exchanges said and replaced in one step | |
| `Access` | people, requests, links, sessions, keys, the bootstrap | |
| `Lessons` | candidates, tombstones, mutes, reviews, seeds over boots | |
| `RunSql` | a query's worker and its watchdog | |
| `AgentLoop` | `stream_agent` from its first call to its terminal events | `RunSql` for each query |
| `RateLimit` | the sliding windows of the five doors | |
| `SignIn` | a login with the provider, its keys, the binding of an address | `RateLimit` as the door it starts at |
| `Migrations` | boots of builds, snapshots, backup and restore | |
| `MC...` | the small instances TLC checks | each its module |
| `...Proofs` | the theorems | each its module |

**Granularity.** A step is what no other thread can get between: one transaction
of `app.db`, one file operation, or the reads between two awaits. A worker or a
request is a program counter (`pc`, or a record in a slot of `calls`) whose value
names the statement that comes next.

**Data.** A database of IPEDS is the function from collection years to the file
each year was loaded from. An answer is the set of datasets its queries saw. A
message is the turn that wrote it. A model call is a member of `Spend`. An
address is a model value, with `Canon` for the mailbox it reaches. Similarity of
questions is equality of question classes. Texts, wording, percentages, logs and
costs in tokens are left out.

**DatasetImport.** A request takes the lock (`Acquire`) and then becomes a job
(`StartImport`, `Integrate`, `Deintegrate`), is refused (`RequestRefused`, which releases
the lock) or ends outside its handler (`RequestLost`); a thread starts (`SetRunning`) or
does not (`ThreadLost`). `Work(j)` is a step of the thread of job `j` in the order of
`run_import`, `run_integrate` and `run_deintegrate`, through `build_check_swap` and
`_activate_staging`; `Exception(j)` has the statements that raise, each leading to the
handler that catches it, with what it has done by then; `Finally` and `Release` are the
`finally` clauses, the first of which may leave copies. `Guard` refuses, lets through, or
fails to read the live database and lets through (`blind`). `Crash` drops the threads and
their locals wherever they are and may leave a half copied file; `Boot` is
`reconcile_interrupted_jobs`. `dir0`, `stranded`, `blind` and `leftover` are history. The
CSV conversion and the integrity checks are one choice: they pass or they fail.

**AnswerCache.** A turn goes `guard`, `lookup`, `match`, `agent`, `stamp`, `insert`:
reading `data_version` and reading the rows are two steps, and so are stamping and
inserting. `Rename`, `Bump`, `Wipe` and `TailRaises` are the swap as the cache sees
it. `since`, `bumped`, `checked`, `across` (a dataset went live between a query and the
stamp) and the fields `saw`, `across` and `live` of a row are history.

**ChatTurn.** `Ask` and `AskNew` are the request, `Begin` the first part of the
generator, `GuardAllows` to `Retitle` its stages, `Finally` its clean-up; `Cut` cancels
it at any await, `PersistRefused` is a failing insert. `Distill` and `ChargeDistill`
are the detached feedback task. `NextId` is how SQLite numbers rows of a table
without AUTOINCREMENT. What `Conversations` sees of it is a question on its way from
`loaded` to `persist` (`Asked`), the conversations named by the turn that opened them, and
the messages of each by their place (`SaidIn`): ids of conversations, which are given
again, are not part of the promise. `Ask` edits only messages that some tab was shown.

**Access.** A request occupies a slot from the read of its caller to its
transaction. `AskAdmin` passes `require_admin` and the self guard, `Check` reads the
target, and the writing actions (`Promote` to `Unblock`) are the transactions; batches
choose which rows fail. `AskLink`, `AskProvider`, `AskKey` and what follows them are the
visitor's side. `Boot` resolves AUTH_METHOD and runs `_bootstrap_admins`.
`removals`, `verdict`, `out` and `listed` are history.

**Lessons.** A candidate goes `gate`, `tombstone`, `duplicate` (then `vote`), `suppressor`,
`save`, the order of `_upvote_or_save`; each is one read or one write. Two texts are
near-identical when `IdeaOf` says so; a vector is the idea it was computed from, so a stale
vector is one of another idea. A tab is between its read (`AskPatch`, `AskDelete`,
`AskMute`) and its transaction (`Patch`, `Delete`, `SetMuted`). `Upgrade`, `ReadSeeds`,
`Ship`, `Mark` and `Reembed` are the boot of `main.py`, which goes on when one of them
raises (`BootStepFails`) and is cut short by `Crash`. `uid`, `seen`, `unread`, `bare` and
`barred` of a row, `bars` of a candidate, `shown`, `shipped` and `torn` are history:
`unread` is a rule that a vote filled in, `bare` a row that came without one from an older
build (`OldTables`), `bars` are the rejections of the candidate's idea that have stood since
before it was proposed, and `torn` says that a seed was inserted or deleted where the marker
does not have it. A patch never empties a rule: the Skills tab refuses it
(`Skills.jsx:103`), and a bare PATCH that does so is left out, as are an admin's notes.

**RunSql.** The worker goes `armed`, `probing`, `probed`, `running`, `ending`, `stopped`,
`marked`, `closed`; the watchdog `armed`, `due`, `striking`. An interrupt sets `hit` only if
a statement is active; `hit` ends it at some later step of its own. `width` is what the
statement has, which the probe may or may not tell; `RowValueLimit` is the arithmetic of
the cap.

**AgentLoop.** `pc` names what the turn awaits: a `call`, a round of `tools` with the
`query` in it, the `force` of an emission, the `review`, and past the loop `synth`,
`correct`, `last`, then the stamps and `Ship`. A text is one of a few: clean answers,
rebuttals (which speak to the reviewer), a clarify fence, nothing. What the provider says,
how a query ends, what the critic and the grounding find are choices. `Abandon` cancels the
generator at any await. `reviewed`, `requeried` and `calls` are history.

**RateLimit.** A request is `waiting` for the lock with the clock it read, `checking` or
`binding` at the LDAP form, then `failed` or `served`; `Enforce`, `CheckOnly` and `Charge`
are the transactions. The doors share no table and a deployment has one way to sign in,
so a behaviour is about one door; `LockTimesOut` is a busy timeout.

**SignIn.** `BeginLogin` is what a request that was served by the limiter of `/oidc/start`
does. A callback goes `burning` (`Burn`), `exchange`, `fetching` to `refetched` (`_jwks`,
`Fetch`, `Cache`, `ForceKeys`, `Ask`), `deciding`, `writing`. The keys are counted, a
document has the current and the last. `asked`, `starter`, `signedIn` and `opened` are
history.

**Migrations.** A file is its version, the migrations it has had, and a stamp of the last
write; a reader sees the log if there is one, else the main file. `Boot` refuses what
is too new, takes the snapshot (`SnapshotTaken`, or `SnapshotFails`), prunes, and goes
through `Migrate` one version at a time; `Stop` and `Crash` may leave the log.
`Backup` and `Restore`, `Unlink`, `Copy` are the scripts, the latter cut anywhere; a backup
that fails leaves its file and does not prune. `order` is what the pattern `app.db.pre-v*`
finds, by age: the snapshots, and the sidecars that SQLite leaves beside one when a death
cuts it short (`CutShort`) or a reader validates it (`Inspected`). `taken`, `beside`,
`from` and `before` are history.

## 3. The runs

Every cfg says `CHECK_DEADLOCK FALSE`: jobs, turns, removals and boots are bounded,
and a system whose bounds are used up stops. Where a run uses symmetry it has no
liveness property, and permutes only values the code does not tell apart.

| run | instance | shows |
|---|---|---|
| `import_swap` | 2 years, 2 uploads, 1 release, 2 jobs, 2 exceptions (in requests too), 1 death | the safety of the pipelines, and that they implement `ServedDataset` |
| `import_faults` | 2 years, 1 upload, 2 releases, 1 job, 2 exceptions, 1 death, UPLOAD_DIR = DATA_DIR, fairness | the lock comes back unless it is lost with its request or thread, jobs settle, jobs take no source away |
| `cache_swap` | 2 users, 2 questions, 2 turns, 2 builds, 1 swap, 1 failure, 2 boots, cap 1 | replays stand alone, are current but for turns across a swap, and of this build; stores sweep |
| `chat_tabs` | 2 users, 2 turns, 1 deletion, 1 fault, all model calls | pairs, homes, empty conversations, bills, and that the turns implement `Conversations` |
| `chat_resolves` | 1 user, 2 turns, 2 deletions, 1 rename, 1 fault, fairness | an empty conversation does not stay |
| `chat_lands` | 2 users, 2 turns, 1 deletion | refutes that messages stay with their owner |
| `access` | 2 addresses of one mailbox, 1 request at a time, batches of 2, 1 key, 1 removal, 2 boots, both methods, an older database | an administrator remains, removals stick, the cap on keys is kept, blocks follow decisions, old sessions and keys stay dead, restarts restore nobody |
| `lessons_review` | 1 candidate, 1 tab, 2 requests, 2 boots of 2 builds, older databases, with a row without a rule too | rejections, seeds, approvals, vectors |
| `agent_turn` | 4 rounds, a correction of 2, 1 tool call a reply, 2 clean answers and a rebuttal, emission forced or not; 3 columns; fairness | what ships is settled and was reviewed; requests are bounded; threads are apart; turns end |
| `agent_exits` | 1 round, a correction of 1 | refutes that every exit is told |
| `sign_in` | 6 deployments of the five doors, 2 people, 1 address, 2 requests; 2 logins, 2 callbacks, 2 subjects, 1 rotation, 1 restart | budgets hold, logins open one session, bindings stick, rotations are picked up |
| `migrations` | 3 versions, 2 snapshots kept, 1 backup kept, 1 write, 1 fault, 2 restores or dry runs | the version tells the schema, newer is left alone, snapshots and restores are exact |

**What the properties say.** *Dataset*: `OneHonestJob`, every worker holds the lock
(`SingleFlight`) and no handler reports a job as failed whose database is live
(`FailedIsNotLive`). `FilesFollowJobs`, with at most one exception a job that did not swap
leaves DATA_DIR as it found it, however many come an upload that is live is never rolled
back under the live database, the original of every file the latest job replaces is in
DATA_DIR or beside it until a swap, over deaths and failing handlers too, and uploads go
when their job has ended, but for those that could not be unlinked or whose request, thread
or process was gone (`DataDirRestored`, `SwappedDirMatchesLive`, `OriginalsKept`,
`UploadsDiscarded`); `LoaderSourcesKept`, no job unlinks what the loader reads: with
UPLOAD_DIR = DATA_DIR however it ends, else if it swapped or met at most one exception.
`SwapIsTold`, answers of the old dataset can only linger when a job says so
(`CacheStaleIsTold`), and without a fault a live year that was loaded from a release is
recorded as that release and no year is recorded that is not there
(`ProvenanceFollowsSwap`); the converse does not hold, a recorded release may be of a year
that an upload has since rebuilt from another file. `ServedSpec`, the dataset is replaced as
a whole, of whole files only, keeps its years or loses exactly one unless the guard could
not read them or they were stranded, and is recoverable in between. `JobsFinish`, a job
settles and the lock comes back, unless it was lost with its holder. *Cache*:
`ReplayIsRight`, a replay depends on no conversation (`ReplayStandsAlone`), its queries all
ran on the dataset it is looked up for or a newer one, except that the answer of a turn that
was under way across a swap is only kept from lookups for later datasets
(`ReplayIsCurrent`), and it is of the running build (`ReplayIsOfThisBuild`); `StoreSweeps`.
That a row is its user's own is a condition of one query (`Matching`) and no property.
*Chat*: `ThreadsAreWhole`, questions keep their answers and turns write where they were
asked (`PairsIntact`, `TurnsStayHome`); `ConversationSpec`, an exchange is said in one step,
once, in the conversation it was asked in, and goes only when an exchange replaces it or
with its conversation, so an edit that is cut, fails or crashes leaves what it was to
replace; `NoPhantom`, `BilledInFull`, `EmptyResolves`. *Access*: `SerialAccess`, one request
at a time an administrator remains, administrators are allowed, removals stick, and nobody
makes himself a key over the cap (`CapIsKept`; the instance has one key and a cap of one, so
what it shows is that the count refuses, and the theorem has any number); `DecisionsHold`,
whatever is in flight a mailbox is blocked exactly when the last decision was to block it,
and no session and no key made before a removal works after it (login links and keys made
later do, see below); `RestartRestoresNobody`. *Lessons*: `LibraryIsReviewed`, no candidate
that was rejected all the while it was on its way is saved or raises a row in the queue, and
live guidance is a seed or was approved by somebody to whom it was shown, and whose rule is
not one that a vote wrote since, unless the row came without any; `SeedsAreHandedOver`,
seeds ship once and stay deleted, over boots, deaths and other builds; `GuidanceIsKept`, no
step takes a vector away. *Agent*: `ShippedIsSettled`, after a REVISE the draft ships or a
text that ran a query since, differs and does not speak to the reviewer, and only the answer
of an exhausted turn gives way to the apology; `AnswerIsReviewed`, with the critic on no
answer to a question that was queried ships unseen; `RequestsBounded`; `QueryIsContained`,
the watchdog strikes no connection given up and a row fits the budget of the result;
`TurnEnds`. *Sign-in*: `BudgetsHold`, no window of a person's or an address's attempts holds
more than its cap, and none holds more wrong guesses than the cap and the other threads;
`OneSessionPerLogin`, `BindingSticks`; `RotationIsPickedUp`, a token signed with a published
key is refused for it only within the floor of somebody's request for newer keys.
*Migrations*: `VersionTellsSchema`, of every whole file; `NewerIsLeftAlone`;
`TwoUpgradesBack`, the last snapshot is there as it was taken, and the one before unless a
sidecar has taken its place; `RestoreIsExact`, a restored database is the file it was
restored from.

**Why the bounds are enough.** The pipelines have one lock, so two jobs are a job
and its predecessor's leftovers; two exceptions are one in a statement and one in
its handler, which is the last place that catches; with two jobs a death counts as one of
the two (`TwoMishaps`: the third of a behaviour is its last step), with one it comes on top.
In the cache a replay relates
one storing turn, one swap and one looking up; builds differ or not. In the chat
each hazard is between two turns, or a turn and a deletion. In Access one slot is the
code without races, which is what `SerialAccess` is about; the properties that hold under
races are theorems for any number of slots. Addresses share a mailbox because separate
mailboxes do not interact in the tables it is about; the database is an older one, since
a fresh one under a provider without ADMIN_EMAILS has no administrator to begin with. In
the library each property relates one candidate or one seed to what administrators and
boots do meanwhile. In the agent four rounds are a query, an answer, the critic's
revision and one more, so that the revision falls inside the loop, at its end and past
it; a reply's further tool calls only repeat the first. In the sign-in two of
everything are one and what races it; the patience of a request that waits for the lock
is at most the window, as the 5 seconds of `busy_timeout` are. In the migrations the fault
is in the boot, the backup or the restore, three versions an upgrade, one after it, and a
rollback. All the safety the runs check is also proved for every value of the constants,
`SerialAccess` under its assumption of one request at a time.

**Fairness.** `import_faults` assumes weak fairness of a worker's steps, since a
daemon thread that runs keeps running, of `Answer`, since a request that holds the lock reads
a body that is there or is refused, and of `Boot`, since `compose.yaml` restarts
the server (`restart: unless-stopped`). `chat_resolves` assumes it of the steps of a
turn and of its distiller, since model calls have timeouts. `agent_turn` assumes it of the
steps of a turn for the same reason, and of both threads of a query, which are scheduled; not
of the statement itself, which may run for ever. Requests, exceptions,
cancellations, crashes and admins' actions are never assumed to come. `JobsFinish`
and `EmptyResolves` promise nothing once a write has failed: a job whose outcome
could not be recorded waits for the next boot, and nothing sweeps a conversation
whose clean-up failed. `TurnEnds` promises nothing of a query that runs unwatched: the timer
fires once, and if it does so between the probe and the statement nobody interrupts it
(`Unwatched`). The safety of the doors and of the migrations needs no fairness.

### Where the code and its words disagree

Each of these is a run that TLC refutes.

- `chat_lands`: conversation ids are reused (`db.py:74`), so a turn whose conversation is
  deleted while it runs writes into the next conversation, another user's included.
- `agent_exits`: the discovery tools run queries where `dispatch` (`tools/registry.py:167`)
  catches only malformed arguments, so a timeout or an SQLite error of one leaves
  `stream_agent` without a terminal `done`, although `routers/chat.py:636-637` counts on one
  from every exit; nothing of the turn is stored or billed.

The models also show, without a run of their own; where a property is named it is defined
in the module and TLC refutes it on the module's instance, with two slots where said.

*Dataset.* The lock is taken before a directory is made outside the handler
(`routers/admin.py:871-873`), before awaits whose cancellation `except Exception` does not
catch, and released by the thread alone (908, 1094, 1125): a request cut there, or a thread
that does not start, leaves it held, every later import answered with "An import is already
running", and in the second case a pending job, until a restart (`RequestLost`,
`ThreadLost`). The guard against dropped years lets everything through when reading the live
database raises (`importer.py:960-963`), as it does for a first build, so a busy or damaged
database may cost years in one swap (`Guard`, `RebuildKeepsYears`); what stands behind it,
the shrink rule of the integrity checks, is part of their choice. A failing unlink of an
uploaded copy is logged and the copy stays, all of them do when the directories cannot be
told apart (`importer.py:1055-1063`, `Finally`); what a death left half staged is moved by
the next upload over the original's backup, which is why `OriginalsKept` is of the latest
job. Death between the two renames leaves no `ipeds.db`; the guard at `importer.py:959`
finds no live database, takes the next rebuild for a first one, and the swap unlinks
`.prev`: years are gone (`RebuildKeepsYears`). A second rename that raises is reported as a
failure before the swap (`importer.py:739`, `Raises` at `promote`). A death between the
second rename and its log line makes the boot's report deny the swap (`Boot`). A death while
files are staged leaves a half copy for the next rebuild (`Crash`). A manual upload rebuilds
from all of DATA_DIR and not "from exactly the files you provide" (`importer.py:971`), so
`year_provenance` may keep a release that a live year was not built from. A refused request
unlinks what it opened, loader sources too when UPLOAD_DIR is DATA_DIR (`RequestRefused`).

*Cache and chat.* A turn whose queries ran before a swap stores its answer under the
`data_version` after it (`skills.py:648`, `StampVersion`), and it is replayed as an answer of
the new dataset until the next import. A hit is replayed as it is stored and runs nothing
(`routers/chat.py:535-577`), although `README.md:112-113` says that "the numbers are always
re-checked against the live data". A drained turn whose conversation was deleted bills nothing
(`PersistRefused`).

*Access*, all with two slots. Two administrators demote each other at once and none is left
(`OneAdminRemains`); a provider sign-in that was checked before a removal re-creates the
removed person after it (`RemovalSticks`; `AskProvider`, `SignIn`); two requests overshoot
the cap on API keys by one (`CountKeys`, `Mint`); a key minted by a request that was
authenticated before its owner's removal is live after it. With one slot: `_remove_user`
(`routers/admin.py:341-359`) leaves `login_tokens` and `verify_login` (`auth.py:378-400`)
does not ask the allowlist, so a link sent before a removal still opens a session, which
works once the address is allowed again (`VerifyLink`).

*Lessons.* `routers/chat.py:753` calls `record_lesson_from_critic` without the category of
the finding, so the gate of muted categories is never taken (`PassedCategory`, `Gate`). A
vote on a duplicate without a rule writes the candidate's on it by an id read before, and
neither asks whether the row is live by now nor sends it back for review
(`skills.py:448-453`, `Vote`): what nobody has read becomes guidance. The vector of such a
row stays as it was. A mute that another tab's request read before is overwritten by it
(`AskMute`, `SetMuted`). An approval by an id that was given to another lesson approves that
one (`Patch`). A seed ships twice when the process dies between its insertion and an
existing marker, or when an older build writes the first marker over a newer one's rows
(`torn`). A text edited without embeddings keeps the vector of the old one, so that its
tombstone turns the old idea away (`PatchedVector`).

*Agent.* A clarify fence that comes back from the correction round ships as the text
of an answer (`ClarifyIsStripped`, `llm.py:580`). An empty forced emission replaces a
complete answer (`ForceEmits`). `exhausted` is stamped on a turn whose last round did bring a
reply (`Synthesis`). `critic_revised` stays true when the corrected answer has given way to
the apology (`Degrades`). The draft is lost when a later call to the provider fails
(`CallFails`). A query that was rejected or failed counts as one that was run since the
draft (`Kept`); one that is too large is not a failing round (`QueryReturns`). Without an
API key there is an error and no `done` (`llm.py:1135-1137`), the exception its caller names.

*Sign-in.* Two first sign-ins of one address with different subjects both get a session,
although "every later one must match" (`auth.py:275-276`, `EveryLaterOneMatches`); the
binding itself is not moved. At the LDAP form a failure is charged to the address twice,
and the first charge precedes the check, so that the cap of an address is one lower than
it says; a lock timeout leaves a wrong guess uncharged (`LockTimesOut`). The floor between
key fetches is read and stamped in two steps, and two callbacks may both fetch
(`ForceKeys`, `Ask`).

*Migrations.* "keeping the two most recent" (`README.md:269-270`): the pruning sorts all
that `app.db.pre-v*` matches (`db.py:736`), with the `-wal` and `-shm` that SQLite leaves
beside a snapshot when the documented restore (`README.md:275-277`) validates it, so that
the next upgrade may unlink a snapshot and keep its neighbour's sidecar (`Lasting`,
`Inspected`). That a reader leaves them is SQLite's behaviour for a database in WAL mode
that it may not write; the model lets it leave them or not. A backup that raises leaves its
file and never comes to its pruning (`backup_app_db.py:43-49`), so there may be one file
more than `Keep` for every failure, until one succeeds. "so a bad upgrade is reversible"
(`README.md:270`): a snapshot of an earlier upgrade counts as this one's, so after a restore
there may be none of the database the boot found (`UpgradeIsReversible`). "so a bad restore
is itself reversible" (`restore_app_db.py:5-6`): the copy set aside is the main file alone
and misses what is in the log (`RestoreIsReversible`).

## 4. The theorems

All are of the form `Spec => ...` for every value of the constants under the named
assumptions of the module, which TLC evaluates on every run: `ConstantsAssumption`,
`BytesAssumption` (of `RunSql`, which says that the least cap times the most columns SQLite
compiles fits the result) and `TurnAssumption` (of `AgentLoop`), `LimitAssumption` (of
`RateLimit`), `SignInAssumption` and `CallAssumption` (of `SignIn`), `MigrationAssumption` and
`FileAssumption`. `PROJECT.json` lists the results; these are their arguments.

`DatasetImportProofs`
- `TypeCorrect`: the types are inductive as they stand; one lemma, `TypeStep`, has a
  step per action.
- `HonestJobs`, from two. `OnlyOnePipeline`: single flight is inductive under the types. A
  worker that is not `unused` or `done` holds the lock; accepting needs the lock free; only
  the last step of a worker and a death give it up, and both end the workers they free it
  from. `LiveIsNotFailed` needs `SwapOrder`, that a job before the swap has neither swapped
  nor failed and that the failing handlers are only reached before it, and `DownMeansDone`,
  that no worker runs while the process is down, so that the boot's marking is the only
  other source of `failed`.
- `FilesAreKept`, `SourcesStay`: from `FilesInv`, for each job. `RightKind`: where a worker
  is says which pipeline it is and whether its files are live. `Recording`: a target is
  recorded before it is touched, and one at a time. `Tracked`: every target can be put back
  from its record, at each statement that can raise, and is by the time the worker cleans
  up; only a second exception, inside the restore, may leave it half done, and that one can
  not come before the first. `BuiltFrom`: from the build to the end, what is swapped in is
  the directory of the upload, which nothing rolls back any more. `Copies` has the uploaded
  copies wait for the worker that holds the lock, or counted as left over. `OriginalsKept` is not about the end of a
  job but about every state, deaths included, and needs `OnlyLatest` (the latest job that
  was accepted is the only one that may still write) and `Tracked` at each of its steps:
  a backup is whole before its file is overwritten, and unlinked only when the file is
  back. `SourcesStay` needs `StagedFiles`: from its staging to its swap each file an
  upload replaces is replaced by one of its own, so that a swap takes none away. Where
  the two directories are one nothing is recorded and so nothing unlinked.
- `CaveatIsThere`, from two. `Told`: between a swap and the wipe of the answers some worker
  is about to do it, and afterwards a job bears the warning or has not settled; each
  handler adds to the report or leaves the status open, and the boot marks what is open.
  `Books`: while nothing is disturbed, the provenance fits the live database except from a
  rename to the statement that records it, and there what is still to be written is known
  (`Due`); every uploaded or fetched file that a build may load is accounted for
  (`UploadsOnly`), so that a build and a removal leave rows that fit (`BuildFits`,
  `RemovalFits`).
- `DatasetIsServed`, the refinement: `Prepared` follows the years from the request to the
  rename (what is staged keeps those there were or takes one out, whatever was fetched or
  copied), and `Withdrawn` says that without a live database the old one is stranded or
  its replacement is one step away, and `Undamaged` that neither the live database nor the one
  kept beside it was loaded from a half copied file (`Loadable`). A guard that could not read
  the live database (`blind`) is the abstract `Overlook`, the end of its build `Regard`. The two renames are `Withdraw` and `Publish` (or
  `Reload`), an exception or a death between them is `Strand`, all else is a stutter.

`AnswerCacheProofs`
- `ReplaysAreRight`, from three. `LoneReplay`: only turns that stand alone are on their way in
  or out of the cache. `CurrentReplay`: what carries the current version, once it was bumped
  for the live dataset, was stored for it (`Stamped`), a lookup that has read the version
  finds no older row under it, whatever is bumped or stored before it reads (`Current`), and
  unless a dataset went live on the way the queries of an answer ran on the dataset it was
  stored for (`Seen`). The wipe plays no part: the version alone is enough. `ReplaysOfThisBuild`: once a boot has
  checked, the running build is the one that is marked and has written every row (`Built`).
- `TypeCorrect`: with `Numbered`, that the rows are finite and their ids distinct and bounded.
- `StoresSweep`: `HighestIsNew` and `NewestAreFew` say of the sweep that the rows it keeps are
  as many as the cap allows and that the one just stored is among them.

`ChatTurnProofs`
- `TypeCorrect`: with `Indexed`, that a table has a bound on its ids, so that `NextId` is
  the successor of a maximum that exists (`MaxOfBounded`, from well-foundedness).
- `ThreadsStayWhole`, from two. `QuestionsKeepAnswers`: with `Parity`, that questions have
  odd ids and answers even ones, so that no edit, whose place is a question some tab has
  seen, can cut between. `HomeIsKept`: with `HomeInv`, that ids are unique, no message is
  without its conversation, and a turn in flight whose conversation was not deleted finds
  there the conversation it was asked in. The deletion that frees an id marks the turns it
  orphans; every later row with that id is then outside the claim.
- `BillsAreFull`: with `BillInv`, that once the row is written whatever is not on it is a
  title's or a lesson's whose charge is under way or lost (`Pending`).
- `NoneStaysEmpty`: with `RowsInv`, that a conversation has one row, that nothing of a turn is
  in the table before it persists, and that an empty conversation is awaited by the turn
  that made it (`Awaited`).
- `ConversationsAreKept`: the refinement of `Conversations`, from the same invariants and
  `MadeInv`, that a conversation is its maker's, who made no other, and that a turn has no
  conversation of its own before it begins. Steps that only move turns or change titles
  (`Quiet`) give up questions at most. `_persist` is the one step that says anything: what an
  edit keeps are whole pairs (`KeptPairs`), `NextIdIsNew` puts the exchange above them, and
  one row per id means no other conversation is touched. A deletion, also `_delete_if_empty`,
  closes one conversation and makes its turns stray.

`AccessProofs`
- `TypeCorrect`: with the finiteness of the keys, whose ids are counted.
- `DecisionsAreKept`, from two. `LastWord`: each decision writes the rows of the whole mailbox
  (`DecisionIsLastWord`) and nothing else touches a denial; the invariant is inductive under
  the types for any number of requests in flight. `OldAccessDies`: a removal deletes the
  sessions and revokes the keys of exactly those whose count of removals it raises, and what
  is made later carries the new count.
- `RestartGrantsNothing`: with `Remembered`, that before the marker exists nobody was
  listed who is not a user, and after it everybody listed is in it.
- `SerialIsSafe`, which is about sequences of requests and not about races, and so not among
  the results of `PROJECT.json`: with `Vetted`, that what the only request in flight has read is still so
  (the caller of a demotion is an administrator who stays, a target has or has not the
  flag, whom the provider signs in is not out), `OutAreBlocked`, that who was removed for
  good has a denial on his mailbox, and `Manned`, that once anybody can be signed in there
  is an administrator. It assumes `OneAtATime`, without which races refute it (see the
  property's comments), and `SomebodyListed`, that a new deployment names an
  administrator: with an empty ADMIN_EMAILS its provider lets in people whom nobody
  administers. `CapIsKept` is inductive beside it (`NextKeepsCap`): a revocation only takes
  live keys away, and what mints one ends the only request.

`LessonsProofs`
- `TypeCorrect`: with `Shapes`, that ids and births have an upper bound (`FollowingIsNew`)
  and that a candidate on its way has a text.
- `LibraryIsAllowed`, from two. `RejectionHolds`: with `Barred`, that whatever bars a candidate
  is a tombstone of its idea and that nothing bars one that has come past the tombstones;
  `Numbered` tells tombstones apart, so that what is allowed again is what bars no more.
  `GuidanceSeen`: with `Identified`, that a row is the last of those that had its id, and
  `Bare`, that only a row that came without a rule has had one filled in.
- `GuidanceStaysFindable`: `RowStep` says once what may become of a row: it descends from an
  older one, or is the one that was saved.
- `SeedsGoOver`: with `Shipping`, that what is about to ship is not in the marker, and
  `Counted`, that what was shipped is found by the backfill before there is a marker, and
  is in it or about to be after.

`AgentLoopProofs`, from `Inv`, one lemma per action
- `TypeCorrect`: with `Flow`, which says of each `pc` where in the turn it is and what can
  have happened by then.
- `DraftOrCorrection`, `NothingUnseen`: with `Sound`, that the text that is about to be
  settled is what `ShippedIsSettled` and `AnswerIsReviewed` say of the one that has been.
- `RequestsAreBounded`: with `Budget`. `Paid` is what a turn can still be charged for: the
  rounds that are left, an emission not yet forced, a review not yet made, and past the
  loop its three parts; every request takes one of it.
- `QueriesAreContained`: with `Apart`, that the watchdog strikes exactly while it holds the
  lock, and then the connection was not given up; and `Fits`, that from the probe on the limit
  of a value times the columns is within the result, whether the probe could tell them
  or not (`LimitFits`).

`SignInProofs`, from `Inv`
- `TypeCorrect`.
- `BudgetsAreKept`: with `Clocked` and `Forgotten`. What a transaction deletes is older than
  two windows before its clock, and the lock's patience bounds how stale a clock can be, so
  what was deleted is in no window that a later transaction counts: the rows left are all
  that was ever logged there, and each insertion finds fewer than the cap. At the LDAP form
  (`OneDoor`) the guesses of a window that are charged and those still loose (`Guesses`) are at
  most the cap less one and the threads.
- `LoginsAreSpentOnce`: with `BurntOnce`, that of the callbacks of a login one at most is past
  the burning, none before and none after its session, and `OfStarter`.
- `RotationsArePickedUp`: with `Younger`, that a document fetched because of a token is no older
  than the token's key, and that the floor is stamped no later than somebody asked.
- `BindingsStick`: of all steps only `Write` sets the subject, and it looks at the binding
  again in its own transaction.

`MigrationsProofs`, from `Inv`
- `TypeCorrect`, `VersionIsTrue`: with `AllHonest`, that every whole file's schema is what
  its version says, and `Steady`, that a build works on a whole database it knows, and that
  a restore has what it copies and no log beside it.
- `SnapshotsStay`: with `InOrder`, that the i-th last one taken, unless a later one is of its version,
  is as it was taken and among the i + `beside` newest files that the pattern finds, so that
  pruning cuts behind it.
- `NewerIsSafe`, `RestoresAreExact`: from `Steady`, the first because only a boot that found
  its image new enough comes to write, the second because between unlink and copy there is
  no log.

The file starts empty: the database from before there were versions
(`test_migrations.py:78`) is outside all of these.

**Only model-checked.** Liveness (`JobsFinish`, `EmptyResolves`, `TurnEnds`), which with
enabledness is out of the prover's reach. What the folds over data compute for every input
is out of reach too, but no property here needs it. Every safety property of a passing run
is stated by a theorem.

## 5. The plan

Most important behaviour first. Done: 1 `DatasetImport` with `ServedDataset`, 2
`AnswerCache`, 3 `ChatTurn` with `Conversations`, 4 `Access`, 5 `Lessons`, 6 `AgentLoop`
with `RunSql`, 7 `SignIn` with `RateLimit`, 8 `Migrations`, with their theorems. Next:

9. `Inflight`: the client's registry of turns against the server's stream.
10. Algorithms as functions checked against reference definitions: grounding of
    figures, pruning of results, estimation, table selection.

## 6. Not modelled, and why

Validation of SQL text, prompts, rendering, redaction and CSV parsing are functions
of one input, without an order of steps; their tests are the better tool. The matching of
figures to results (`grounding.py`) is arithmetic on one answer; the agent has its
verdicts as choices. Mail, HTTP and the NCES site are I/O whose outcomes the models choose
freely. Middleware decides on one request alone. The log store is one writer and a bounded
deletion. The browser client runs on one thread and keeps nothing the server relies on; its
registry of turns is in the plan. CI and build tooling are not part of the program. Model
quality is out of scope. Time is abstracted where only its order matters: a session, a link
or a cache row may expire at any moment, which covers every clock; `RateLimit` and `SignIn`
have a clock that ticks. SQLite itself is trusted to make a transaction atomic, to survive a
death of the process, and to number rows as documented.
