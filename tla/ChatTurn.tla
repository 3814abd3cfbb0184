------------------------------ MODULE ChatTurn ------------------------------
(***************************************************************************)
(* Turns of the web chat, POST /api/chat/stream in backend/app/routers/    *)
(* chat.py: the request, its stream generator gen(), the transactions they *)
(* make on conversations, messages and usage_log, the detached feedback    *)
(* distiller, and the requests of other tabs that rename and delete        *)
(* conversations between any two of those steps.                           *)
(*                                                                         *)
(* A message's text is the turn that wrote it.  What an LLM call costs is  *)
(* the member of Spend it stands for.                                      *)
(***************************************************************************)
EXTENDS Integers, FiniteSets, FiniteSetsExt

CONSTANTS
    Users,
    Turns,       \* bound: the requests that are made
    Renamed,     \* a title its owner typed
    MaxRenames,  \* bound: renames
    MaxDeletes,  \* bound: deleted conversations
    MaxFaults,   \* bound: crashes and writes that fail
    Keys         \* whether llm_api_key is set: one value, or both

ASSUME ConstantsAssumption ==
    /\ Renamed \notin Turns
    /\ MaxRenames \in Nat /\ MaxDeletes \in Nat /\ MaxFaults \in Nat
    /\ Keys \subseteq BOOLEAN

VARIABLES
    conversations, messages,
    bill,          \* usage_log: the calls a turn's row is charged for
    logged,        \* the turns that have a row there
    keyed,         \* llm_api_key is set
    pc, user,      \* the turns
    req,           \* what a turn in flight holds
    spent,         \* the LLM calls it has made
    task,          \* its feedback distiller
    home,          \* history: the turn that created the conversation asked in
    orphaned,      \* history: that conversation was deleted during the turn
    ending,        \* history: how the turn ended
    shown,         \* <<conversation, id>> of the questions a tab has seen
    renames, deletes, faults

db     == <<conversations, messages, bill, logged>>
local  == <<user, req>>
ghost  == <<home, orphaned, ending, shown>>
bounds == <<renames, deletes, faults>>
vars   == <<db, keyed, pc, local, spent, task, ghost, bounds>>

Conversation == [id : Nat \ {0}, owner : Users, maker : Turns, title : Turns \cup {Renamed}]
Message == [id : Nat \ {0}, conv : Nat \ {0}, role : {"user", "assistant"}, turn : Turns]
Spend   == {"guard", "agent", "title", "feedback"}
\* conv: the conversation it writes to, 0 for none yet; edit: edit_message_id, 0
\* for none; follows: the history it loaded is not empty; kind: of its answer.
Kinds   == {"none", "refusal", "cached", "answer", "clarify", "error"}
Request == [conv : Nat, isNew : BOOLEAN, edit : Nat, follows : BOOLEAN, kind : Kinds]
Fresh   == [conv |-> 0, isNew |-> TRUE, edit |-> 0, follows |-> FALSE, kind |-> "none"]
PCs     == {"unasked", "loaded", "guard", "agent", "persist", "title", "charge",
            "retitle", "finally", "done"}
Tasks   == {"none", "asking", "charging", "ended", "lost"}
Endings == {"none", "served", "cut", "failed", "crashed"}

TypeOK ==
    /\ conversations \subseteq Conversation /\ messages \subseteq Message
    /\ bill \in [Turns -> SUBSET Spend] /\ logged \subseteq Turns
    /\ keyed \in BOOLEAN
    /\ pc \in [Turns -> PCs] /\ user \in [Turns -> Users]
    /\ req \in [Turns -> Request] /\ spent \in [Turns -> SUBSET Spend]
    /\ task \in [Turns -> Tasks]
    /\ home \in [Turns -> Turns] /\ orphaned \in [Turns -> BOOLEAN]
    /\ ending \in [Turns -> Endings]
    /\ shown \subseteq (Nat \ {0}) \X (Nat \ {0})
    /\ renames \in 0..MaxRenames /\ deletes \in 0..MaxDeletes /\ faults \in 0..MaxFaults

Init ==
    /\ conversations = {} /\ messages = {}
    /\ bill = [t \in Turns |-> {}] /\ logged = {}
    /\ keyed \in Keys
    /\ pc = [t \in Turns |-> "unasked"] /\ user \in [Turns -> Users]
    /\ req = [t \in Turns |-> Fresh] /\ spent = [t \in Turns |-> {}]
    /\ task = [t \in Turns |-> "none"]
    /\ home = [t \in Turns |-> t] /\ orphaned = [t \in Turns |-> FALSE]
    /\ ending = [t \in Turns |-> "none"] /\ shown = {}
    /\ renames = 0 /\ deletes = 0 /\ faults = 0

-----------------------------------------------------------------------------
\* Mutant: an empty table starts below its first id.
NextIdFromZero(rows) == IF rows = {} THEN 0 ELSE 1 + Max({r.id : r \in rows})

\* The primary keys are not AUTOINCREMENT: SQLite takes the highest id plus one.
NextId(rows) == IF rows = {} THEN 1 ELSE 1 + Max({r.id : r \in rows})

Thread(c)   == {m \in messages : m.conv = c}
Exists(c)   == \E r \in conversations : r.id = c

OwnedBy(u) == {c \in conversations : c.owner = u}

Goto(t, l)  == pc' = [pc EXCEPT ![t] = l]
Fault       == faults < MaxFaults /\ faults' = faults + 1 /\ UNCHANGED <<renames, deletes>>
Running(t)  == pc[t] \notin {"unasked", "loaded", "finally", "done"}

-----------------------------------------------------------------------------
(* The request, before anything is streamed                                  *)

\* A new conversation is only made in gen().
AskNew(t) ==
    /\ pc[t] = "unasked"
    /\ Goto(t, "loaded")
    /\ UNCHANGED <<db, keyed, local, spent, task, ghost, bounds>>

\* The history is what comes before the question that is replaced.
Loaded(c, e) ==
    [conv |-> c, isNew |-> FALSE, edit |-> e, kind |-> "none",
     follows |-> \E m \in Thread(c) : e = 0 \/ m.id < e]

\* Mutant: an edit drops what it replaces as soon as it is asked.
AskDrops(t, c, e) ==
    /\ pc[t] = "unasked" /\ c \in OwnedBy(user[t])
    /\ e = 0 \/ <<c.id, e>> \in shown
    /\ messages' = {m \in messages : ~(e # 0 /\ m.conv = c.id /\ m.id >= e)}
    /\ req' = [req EXCEPT ![t] = Loaded(c.id, e)]
    /\ home' = [home EXCEPT ![t] = c.maker]
    /\ Goto(t, "loaded")
    /\ UNCHANGED <<conversations, bill, logged, keyed, user, spent, task, orphaned,
                   ending, shown, bounds>>

\* A follow-up, or the edit of a question, in a conversation of the caller.
Ask(t, c, e) ==
    /\ pc[t] = "unasked" /\ c \in OwnedBy(user[t])
    /\ e = 0 \/ <<c.id, e>> \in shown
    /\ req' = [req EXCEPT ![t] = Loaded(c.id, e)]
    /\ home' = [home EXCEPT ![t] = c.maker]
    /\ Goto(t, "loaded")
    /\ UNCHANGED <<db, keyed, user, spent, task, orphaned, ending, shown, bounds>>

-----------------------------------------------------------------------------
(* gen(): the conversation, the guard, the answer, the write, the title      *)

Created(t) == [id |-> NextId(conversations), owner |-> user[t], maker |-> t, title |-> t]

Begin(t) ==
    /\ pc[t] = "loaded"
    /\ Goto(t, "guard")
    /\ IF req[t].isNew
         THEN /\ conversations' = conversations \cup {Created(t)}
              /\ req' = [req EXCEPT ![t].conv = NextId(conversations)]
         ELSE UNCHANGED <<conversations, req>>
    /\ UNCHANGED <<messages, bill, logged, keyed, user, spent, task, ghost, bounds>>

\* A call that fails or is switched off costs nothing; without a key none is made.
Costs(t, call) ==
    \/ keyed /\ spent' = [spent EXCEPT ![t] = @ \cup {call}]
    \/ UNCHANGED spent

Answered(t, k) ==
    /\ req' = [req EXCEPT ![t].kind = k]
    /\ Goto(t, "persist")

GuardAllows(t) ==
    /\ pc[t] = "guard" /\ Costs(t, "guard")
    /\ Goto(t, "agent")
    /\ UNCHANGED <<db, keyed, local, task, ghost, bounds>>

GuardRefuses(t) ==
    /\ pc[t] = "guard" /\ keyed
    /\ spent' = [spent EXCEPT ![t] = @ \cup {"guard"}]
    /\ Answered(t, "refusal")
    /\ UNCHANGED <<db, keyed, user, task, ghost, bounds>>

\* Only a question with no history is looked up in the answer cache.
CacheHit(t) ==
    /\ pc[t] = "agent" /\ ~req[t].follows
    /\ Answered(t, "cached")
    /\ UNCHANGED <<db, keyed, user, spent, task, ghost, bounds>>

\* stream_agent ends in an answer, a clarifying question or an error.
Agent(t) ==
    /\ pc[t] = "agent" /\ keyed /\ Costs(t, "agent")
    /\ \E k \in {"answer", "clarify", "error"} : Answered(t, k)
    /\ UNCHANGED <<db, keyed, user, task, ghost, bounds>>

Ended(t, how) == ending' = [ending EXCEPT ![t] = how]

\* result is None: only without an API key.
NoResult(t) ==
    /\ pc[t] = "agent" /\ ~keyed
    /\ Goto(t, "finally") /\ Ended(t, "served")
    /\ UNCHANGED <<db, keyed, local, spent, task, home, orphaned, shown, bounds>>

\* Mutant: the question itself stays.
ReplacedAfter(t) == {m \in Thread(req[t].conv) : req[t].edit # 0 /\ m.id > req[t].edit}

\* The question an edit replaces, and all that follows it in the conversation.
Replaced(t) == {m \in Thread(req[t].conv) : req[t].edit # 0 /\ m.id >= req[t].edit}

Exchange(t, id) ==
    {[id |-> id, conv |-> req[t].conv, role |-> "user", turn |-> t],
     [id |-> id + 1, conv |-> req[t].conv, role |-> "assistant", turn |-> t]}

\* Mutant: the guard's call is not folded into the agent's.
FoldedWithoutGuard(t) == IF req[t].kind \in {"refusal", "cached"} THEN spent[t]
                         ELSE spent[t] \ {"guard"}

\* What the row of a turn is charged when it is written.
Folded(t) == spent[t]

Names(t)    == req[t].isNew /\ req[t].kind \in {"cached", "answer", "clarify"}
Distills(t) == req[t].follows /\ req[t].kind = "answer" /\ keyed

\* _persist: one transaction for the delete, the pair and the bill.
Persist(t) ==
    /\ pc[t] = "persist" /\ Exists(req[t].conv)
    /\ LET kept == messages \ Replaced(t)
           id   == NextId(kept)
       IN  /\ messages' = kept \cup Exchange(t, id)
           /\ shown' = shown \cup {<<req[t].conv, id>>}
    /\ bill' = [bill EXCEPT ![t] = Folded(t)]
    /\ logged' = logged \cup {t}
    /\ IF Distills(t) THEN \/ task' = [task EXCEPT ![t] = "asking"]
                           \/ UNCHANGED task    \* skills_enabled is off
                      ELSE UNCHANGED task
    /\ IF Names(t) THEN Goto(t, "title") /\ UNCHANGED ending
                   ELSE Goto(t, "finally") /\ Ended(t, "served")
    /\ UNCHANGED <<conversations, keyed, local, spent, home, orphaned, bounds>>

\* The foreign key of messages: the conversation is gone.
PersistRefused(t) ==
    /\ pc[t] = "persist" /\ ~Exists(req[t].conv)
    /\ Goto(t, "finally") /\ Ended(t, "failed")
    /\ UNCHANGED <<db, keyed, local, spent, task, home, orphaned, shown, bounds>>

Title(t) ==
    /\ pc[t] = "title" /\ Costs(t, "title")
    /\ Goto(t, "charge")
    /\ UNCHANGED <<db, keyed, local, task, ghost, bounds>>

\* _add_usage, on the row _persist returned.
Charge(t) ==
    /\ pc[t] = "charge"
    /\ bill' = [bill EXCEPT ![t] = @ \cup (spent[t] \cap {"title"})]
    /\ Goto(t, "retitle")
    /\ UNCHANGED <<conversations, messages, logged, keyed, local, spent, task,
                   ghost, bounds>>

\* _update_title, by id; a title that did not come changes nothing.
Retitle(t) ==
    /\ pc[t] = "retitle"
    /\ conversations' = IF "title" \in spent[t]
                          THEN {IF c.id = req[t].conv THEN [c EXCEPT !.title = t] ELSE c :
                                    c \in conversations}
                          ELSE conversations
    /\ Goto(t, "finally") /\ Ended(t, "served")
    /\ UNCHANGED <<messages, bill, logged, keyed, local, spent, task, home, orphaned,
                   shown, bounds>>

\* Mutant: nothing takes the row of a turn that wrote nothing away.
EmptyKept(t) == {}

\* _delete_if_empty.
Empty(t) == {c \in conversations : req[t].isNew /\ c.id = req[t].conv /\ Thread(c.id) = {}}

\* The running turns whose conversation was one of those.
Orphans(gone) ==
    [t \in Turns |-> orphaned[t] \/
        (pc[t] \in PCs \ {"unasked", "done"} /\ req[t].conv \in {c.id : c \in gone})]

Over(t) == Goto(t, "done") /\ req' = [req EXCEPT ![t] = Fresh]

Finally(t) ==
    /\ pc[t] = "finally"
    /\ conversations' = conversations \ Empty(t)
    /\ orphaned' = Orphans(Empty(t))
    /\ Over(t)
    /\ UNCHANGED <<messages, bill, logged, keyed, user, spent, task, home, ending,
                   shown, bounds>>

\* The clean-up's failure is suppressed.
FinallyFails(t) ==
    /\ pc[t] = "finally" /\ req[t].isNew /\ Fault
    /\ Over(t)
    /\ UNCHANGED <<db, keyed, user, spent, task, ghost>>

-----------------------------------------------------------------------------
(* The distiller runs after the stream is closed                             *)

Distill(t) ==
    /\ task[t] = "asking" /\ Costs(t, "feedback")
    /\ task' = [task EXCEPT ![t] = "charging"]
    /\ UNCHANGED <<db, keyed, pc, local, ghost, bounds>>

\* _add_usage first, the lesson after it.
ChargeDistill(t) ==
    /\ task[t] = "charging"
    /\ bill' = [bill EXCEPT ![t] = @ \cup (spent[t] \cap {"feedback"})]
    /\ task' = [task EXCEPT ![t] = "ended"]
    /\ UNCHANGED <<conversations, messages, logged, keyed, pc, local, spent, ghost,
                   bounds>>

\* Its failure is caught and logged.
DistillFails(t) ==
    /\ task[t] = "charging" /\ Fault
    /\ task' = [task EXCEPT ![t] = "lost"]
    /\ UNCHANGED <<db, keyed, pc, local, spent, ghost>>

-----------------------------------------------------------------------------
(* Clients that go away, other tabs, and the death of the process            *)

\* The client disconnects before the stream starts.
NeverBegins(t) ==
    /\ pc[t] = "loaded"
    /\ Over(t) /\ Ended(t, "cut")
    /\ UNCHANGED <<db, keyed, user, spent, task, home, orphaned, shown, bounds>>

\* gen() unwinds from the yield or the await it is at: the client disconnected,
\* or a call raised.  Whatever the pending call cost is not known any more.
Cut(t) ==
    /\ Running(t)
    /\ \/ UNCHANGED spent
       \/ /\ pc[t] \in {"guard", "agent", "title"} /\ keyed
          /\ spent' = [spent EXCEPT ![t] = @ \cup {pc[t]}]
    /\ Goto(t, "finally") /\ Ended(t, "cut")
    /\ UNCHANGED <<db, keyed, local, task, home, orphaned, shown, bounds>>

Rename(c) ==
    /\ renames < MaxRenames /\ renames' = renames + 1
    /\ conversations' = (conversations \ {c}) \cup {[c EXCEPT !.title = Renamed]}
    /\ UNCHANGED <<messages, bill, logged, keyed, pc, local, spent, task, ghost,
                   deletes, faults>>

\* delete_conversation by its owner: its messages and its row in one transaction.
Delete(c) ==
    /\ deletes < MaxDeletes /\ deletes' = deletes + 1
    /\ messages' = messages \ Thread(c.id)
    /\ conversations' = conversations \ {c}
    /\ orphaned' = Orphans({c})
    /\ UNCHANGED <<bill, logged, keyed, pc, local, spent, task, home, ending, shown,
                   renames, faults>>

\* The process dies and comes back: no turn and no task survives it.
Crash ==
    /\ Fault
    /\ pc' = [t \in Turns |-> IF pc[t] = "unasked" THEN "unasked" ELSE "done"]
    /\ req' = [t \in Turns |-> Fresh]
    /\ ending' = [t \in Turns |-> IF pc[t] \in {"unasked", "done"} THEN ending[t]
                                  ELSE "crashed"]
    /\ task' = [t \in Turns |-> IF task[t] \in {"asking", "charging"} THEN "lost"
                                ELSE task[t]]
    /\ UNCHANGED <<db, keyed, user, spent, home, orphaned, shown>>

-----------------------------------------------------------------------------
Step(t) ==
    \/ Begin(t) \/ GuardAllows(t) \/ GuardRefuses(t) \/ CacheHit(t) \/ Agent(t)
    \/ NoResult(t) \/ Persist(t) \/ PersistRefused(t) \/ Title(t)
    \/ Charge(t) \/ Retitle(t) \/ Finally(t)

Distiller(t) == Distill(t) \/ ChargeDistill(t)

Next ==
    \/ \E t \in Turns :
        \/ AskNew(t)
        \/ \E c \in conversations, e \in {0} \cup {s[2] : s \in shown} : Ask(t, c, e)
        \/ Step(t) \/ Distiller(t)
        \/ NeverBegins(t) \/ Cut(t) \/ FinallyFails(t) \/ DistillFails(t)
    \/ \E c \in conversations : Rename(c) \/ Delete(c)
    \/ Crash

Spec == Init /\ [][Next]_vars

\* The event loop and the thread pool run every turn that was asked on; every
\* LLM call has a timeout.
FairSpec == Spec /\ \A t \in Turns : WF_vars(Step(t)) /\ WF_vars(Distiller(t))

-----------------------------------------------------------------------------
(* Properties                                                                *)

\* Every question is followed, under the next id, by the answer of its turn, and
\* no answer stands without its question: whatever was edited, deleted, cut or
\* lost, also under an edit that names a question another tab has replaced.
PairsIntact ==
    \A m \in messages :
        LET twin == IF m.role = "user" THEN [m EXCEPT !.id = @ + 1, !.role = "assistant"]
                    ELSE [m EXCEPT !.id = @ - 1, !.role = "user"]
        IN  twin \in messages

\* A turn writes to the conversation it was asked in, and so to one of its own
\* user, unless that conversation was deleted while the turn ran.
TurnsStayHome ==
    \A c \in conversations : \A m \in Thread(c.id) :
        ~orphaned[m.turn] => c.maker = home[m.turn] /\ c.owner = user[m.turn]

\* Every conversation is whole and its own: no tab, edit or turn in flight tears a
\* question from its answer or puts either where it was not asked
\* (routers/chat.py:900-950).
ThreadsAreWhole == PairsIntact /\ TurnsStayHome

\* The questions on their way, and what was said in the conversation that turn k made.
Asking   == {t \in Turns : pc[t] \in {"loaded", "guard", "agent", "persist"}}
Asked(t) == [turn |-> t, home |-> home[t], from |-> req[t].edit, stray |-> orphaned[t]]

MadeBy(k, m) == \E c \in conversations : c.maker = k /\ c.id = m.conv
Place(m)     == [at |-> m.id, role |-> m.role, turn |-> m.turn]
SaidIn(k)    == {Place(m) : m \in {n \in messages : MadeBy(k, n)}}

Said == INSTANCE Conversations WITH
    asked   <- {t \in Turns : pc[t] # "unasked"},
    asks    <- {Asked(t) : t \in Asking},
    open    <- {c.maker : c \in conversations},
    threads <- [k \in Turns |-> SaidIn(k)]

\* The turns implement the promise: whatever other tabs ask, edit, rename and delete in
\* between, an exchange comes at once, once, where it was asked, and an edit that is cut,
\* fails or crashes leaves what it was to replace (routers/chat.py:900-950).
ConversationSpec == Said!Spec

\* A conversation without a message is the one a running turn has created: as
\* long as nothing crashed and no clean-up failed, none stays behind.
NoPhantom ==
    faults = 0 => \A c \in conversations : Thread(c.id) = {} =>
        /\ pc[c.maker] \notin {"unasked", "loaded", "done"}
        /\ req[c.maker].conv = c.id

\* The row of a turn that came to its end is charged for each call it made, the
\* calls that came back after the row was written included.
BilledInFull ==
    \A t \in Turns : ending[t] = "served" /\ task[t] \in {"none", "ended"}
        => bill[t] = spent[t]

\* Whatever the client and the other tabs do, a conversation does not stay empty
\* as long as nothing crashes and no clean-up fails.
EmptyResolves ==
    \A t \in Turns :
        (\E c \in conversations : c.maker = t /\ Thread(c.id) = {})
            ~> \/ ~\E c \in conversations : c.maker = t /\ Thread(c.id) = {}
               \/ faults > 0

-----------------------------------------------------------------------------
(* What the repository says of the program and the run refutes               *)

\* "a term can never reach another user's messages": the messages of a
\* conversation are its owner's.
MessagesAreTheOwners ==
    \A c \in conversations : \A m \in Thread(c.id) : c.owner = user[m.turn]
=============================================================================
