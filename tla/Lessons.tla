------------------------------- MODULE Lessons -------------------------------
(***************************************************************************)
(* The library of lessons: candidates that a turn's critic and the         *)
(* feedback distiller propose (backend/app/skills.py), what administrators *)
(* do with them (Skills endpoints of routers/admin.py), the tombstones of  *)
(* rejected ones, and what every boot ships, upgrades and re-embeds        *)
(* (main.py).  Each read and each transaction is a step of its own, since  *)
(* candidates and endpoints run in threads of their own.                   *)
(*                                                                         *)
(* A text is a headline with its description, a question one with its SQL; *)
(* None is the text of a row without a rule, which only older builds leave: *)
(* the Skills tab does not save an empty one.                              *)
(* Two vectors are near-identical when their texts have the same idea.     *)
(* A seed's slug, its question and its current text are one value.  The    *)
(* counts of votes and of hits are left out.                               *)
(***************************************************************************)
EXTENDS Naturals, FiniteSetsExt

CONSTANTS
    Texts, IdeaOf, None,
    Written,     \* the texts that critic, distiller and administrators come up with
    Questions,
    Learnable,   \* lessoncats.LEARNABLE
    Seeds,
    FirstText,   \* SEED_LESSON_UPGRADES: the v1 text of some seeds
    OldTables,   \* what older builds may have left in skills
    Releases,    \* the sets of seeds that some build ships
    Turns,       \* bound: the candidates
    Tabs,        \* bound: the admin requests at one time
    MaxActs,     \* bound: the admin requests
    MaxBoots     \* bound: boots

Ideas == {IdeaOf[t] : t \in Texts}

ASSUME ConstantsAssumption ==
    /\ IdeaOf = [t \in Texts |-> IdeaOf[t]] /\ None \notin Ideas
    /\ Written \subseteq Texts /\ Seeds \subseteq Texts /\ None \notin Texts
    /\ FirstText = [s \in DOMAIN FirstText |-> FirstText[s]]
    /\ DOMAIN FirstText \subseteq Seeds
    /\ \A s \in DOMAIN FirstText : FirstText[s] \in Texts
    /\ Releases \subseteq SUBSET Seeds
    /\ None \notin Learnable
    /\ MaxActs \in Nat /\ MaxBoots \in Nat

VARIABLES
    skills, lesson_rejections,
    muted,        \* meta.muted_lesson_categories
    marked,       \* meta.seed_lessons_applied has been written
    applied,      \* and has these
    reembedded,   \* meta.skills_embed_source_version is this build's
    turns,        \* the candidates on their way into the library
    tabs,         \* the admin requests between their read and their transaction
    proc,         \* where the process is
    release,      \* the seeds that the running build ships
    embeds,       \* fastembed loaded, for as long as the process lives
    todo,         \* seed_from_schema_examples: missing and not yet inserted
    known,        \* its `applied`
    shown,        \* the lessons that a list was ever made of
    shipped,      \* history: how often a seed was inserted
    torn,         \* history: a seeding or a deletion that the marker missed
    acts, boots

tables == <<skills, lesson_rejections>>
metas  == <<muted, marked, applied, reembedded>>
build  == <<release, embeds>>
seeding == <<todo, known, shipped, torn>>
Forget  == todo' = {} /\ known' = {}
vars == <<tables, metas, turns, tabs, proc, build, seeding, shown, acts, boots>>

Sources == {"critic", "user-feedback", "seed"}
\* seen: an administrator acted on this lesson, which his list showed, or wrote its
\* text; unread: a vote put its text in, and no administrator has acted since with that
\* text before him; bare: it came without a rule; barred: a candidate that was rejected
\* all the while made it or voted for it.  All four are history.
Lesson == [id : Nat \ {0}, uid : Nat \ {0}, text : Texts \cup {None}, vec : Ideas \cup {None},
           ques : Questions \cup Seeds, source : Sources, verified : BOOLEAN,
           cat : Learnable \cup {None}, seen : BOOLEAN, unread : BOOLEAN, bare : BOOLEAN,
           barred : BOOLEAN]
\* From before there were markers, rejections and categories.
ASSUME OldTablesAssumption == \A old \in OldTables :
    /\ old \subseteq Lesson
    /\ old # {} => \E r \in old : \A n \in old : n.id <= r.id
    /\ \A r, n \in old : r.id = n.id => r = n
    /\ \A r \in old : /\ r.uid = r.id /\ r.cat = None /\ ~r.barred
                      /\ r.seen = r.verified /\ ~r.unread /\ r.bare = (r.text = None)
Tombstone == [uid : Nat, text : Texts \cup {None}, vec : Ideas \cup {None}]
\* bars: the rejections of this very idea since before it was proposed.
Candidate == [pc : {"unasked", "gate", "tombstone", "duplicate", "vote", "suppressor",
                    "save", "done"},
              source : Sources, text : Texts \cup {None}, vec : Ideas \cup {None},
              ques : Questions \cup {None}, cat : Learnable \cup {None}, dup : Nat,
              bars : SUBSET Nat]
Unasked == [pc |-> "unasked", source |-> "critic", text |-> None, vec |-> None,
            ques |-> None, cat |-> None, dup |-> 0, bars |-> {}]
Done   == [Unasked EXCEPT !.pc = "done"]
Idle == [kind |-> "idle"]
Request ==
    {Idle}
    \cup [kind : {"patch"}, id : Nat \ {0}, uid : Nat \ {0}, read : BOOLEAN,
          text : Texts \cup {None}, vec : Ideas \cup {None}, verified : BOOLEAN \cup {None}]
    \cup [kind : {"delete"}, no : Nat, id : Nat \ {0}, text : Texts \cup {None},
          vec : Ideas \cup {None}, mute : SUBSET Learnable]
    \cup [kind : {"mute"}, muted : SUBSET Learnable]

TypeOK ==
    /\ skills \subseteq Lesson /\ lesson_rejections \subseteq Tombstone
    /\ muted \subseteq Learnable
    /\ marked \in BOOLEAN /\ applied \subseteq Seeds
    /\ reembedded \in BOOLEAN
    /\ turns \in [Turns -> Candidate] /\ tabs \in [Tabs -> Request]
    /\ proc \in {"down", "upgrade", "read", "ship", "reembed", "up"}
    /\ release \subseteq Seeds /\ embeds \in BOOLEAN
    /\ todo \subseteq Seeds /\ known \subseteq Seeds
    /\ shown \subseteq (Nat \ {0}) \X (Nat \ {0})
    /\ shipped \in [Seeds -> Nat] /\ torn \in BOOLEAN
    /\ acts \in 0..MaxActs /\ boots \in 0..MaxBoots

-----------------------------------------------------------------------------
(* The table                                                                 *)

\* Mutant: an empty table starts below its first id.
FollowingFromZero(S) == IF S = {} THEN 0 ELSE 1 + Max(S)

Following(S) == IF S = {} THEN 1 ELSE 1 + Max(S)

\* Not AUTOINCREMENT: the highest id plus one.
NextId == Following({r.id : r \in skills})
Born   == Following({p[1] : p \in shown})

IsLive(source) == source = "seed"

\* There is nothing to embed in a row without a rule.
Embed(t) == IF embeds /\ t # None THEN IdeaOf[t] ELSE None

\* A row as save_skill inserts it, with the history that its maker brings.
NewLesson(text, ques, source, cat, bars) ==
    [id |-> NextId, uid |-> Born, text |-> text, vec |-> Embed(text), ques |-> ques,
     source |-> source, verified |-> IsLive(source), cat |-> cat, seen |-> FALSE,
     unread |-> FALSE, bare |-> FALSE, barred |-> bars # {}]

Save(row) == skills' = skills \cup {row} /\ shown' = shown \cup {<<row.uid, row.id>>}

SetLesson(id, f(_)) == skills' = {IF r.id = id THEN f(r) ELSE r : r \in skills}

Init ==
    /\ skills \in OldTables
    /\ shown = {<<r.uid, r.id>> : r \in skills}
    /\ shipped = [s \in Seeds |-> IF \E r \in skills : r.source = "seed" /\ r.ques = s THEN 1 ELSE 0]
    /\ lesson_rejections = {} /\ muted = {}
    /\ marked = FALSE /\ applied = {} /\ reembedded = FALSE
    /\ turns = [t \in Turns |-> Unasked] /\ tabs = [b \in Tabs |-> Idle]
    /\ proc = "down" /\ release = {} /\ embeds = FALSE
    /\ todo = {} /\ known = {} /\ torn = FALSE
    /\ acts = 0 /\ boots = 0

-----------------------------------------------------------------------------
(* Candidates: _upvote_or_save and its callers                               *)

Up == proc = "up"
OneIdea(a, b) == a # None /\ a = b

\* The very same text, or the same idea where both vectors are of their texts.
SameIdea(x, text, vec) ==
    \/ x.text = text
    \/ /\ x.text # None /\ IdeaOf[x.text] = IdeaOf[text]
       /\ x.vec = IdeaOf[x.text] /\ vec = IdeaOf[text]

\* chat.py calls record_lesson_from_critic without its category.
PassedCategory(c) == None

Propose(t, source, text, q, c) ==
    /\ Up /\ turns[t].pc = "unasked"
    /\ turns' = [turns EXCEPT ![t] =
        [pc |-> IF source = "critic" THEN "gate" ELSE "tombstone", source |-> source,
         text |-> text, vec |-> Embed(text), ques |-> q, cat |-> PassedCategory(c),
         dup |-> 0,
         bars |-> {x.uid : x \in {y \in lesson_rejections : SameIdea(y, text, Embed(text))}}]]
    /\ UNCHANGED <<tables, metas, tabs, proc, build, seeding, shown, acts, boots>>

\* A turn without a history whose critic had a finding of a learnable category.
Critic(t) == \E text \in Written, q \in Questions, c \in Learnable :
    Propose(t, "critic", text, q, c)

\* The detached distiller found a correction in a follow-up.
Distiller(t) == \E text \in Written, q \in Questions :
    Propose(t, "user-feedback", text, q, None)

To(t, l) == turns' = [turns EXCEPT ![t] = IF l = "done" THEN Done ELSE [@ EXCEPT !.pc = l]]

Step(t, from, to) ==
    /\ turns[t].pc = from
    /\ To(t, to)
    /\ UNCHANGED <<tables, metas, tabs, proc, build, seeding, shown, acts, boots>>

Gate(t) == Step(t, "gate", IF turns[t].cat \in muted THEN "done" ELSE "tombstone")

\* Mutants: a search that has only one of its two arms.
VectorArm(x, c) == OneIdea(c.vec, x.vec)
TextArm(x, c)   == c.text = x.text

Similar(x, c) == VectorArm(x, c) \/ TextArm(x, c)

CheckTombstone(t) ==
    Step(t, "tombstone",
         IF \E x \in lesson_rejections : Similar(x, turns[t]) THEN "done" ELSE "duplicate")

\* Pending, of the same source; the question only counts without embeddings.
Duplicates(c) ==
    {r \in skills : /\ ~r.verified /\ r.source = c.source
                    /\ IF c.vec # None THEN r.vec = c.vec ELSE r.ques = c.ques}

FindDuplicate(t) ==
    /\ turns[t].pc = "duplicate"
    /\ \/ /\ Duplicates(turns[t]) = {}
          /\ To(t, "suppressor")
       \/ \E r \in Duplicates(turns[t]) :
              turns' = [turns EXCEPT ![t].pc = "vote", ![t].dup = r.id]
    /\ UNCHANGED <<tables, metas, tabs, proc, build, seeding, shown, acts, boots>>

\* Mutant: the backfill does not ask whether there is a rule.
Overwritable(r, c) == r.text # c.text

\* The backfill's condition: headline and lesson are both empty.
Ruleless(r, c) == r.text = None

\* The update is by id, whatever has become of the row.  A missing rule is filled in, the
\* vector staying as it is, and so is a missing category.
Vote(t) ==
    LET c == turns[t]
        Voted(r) == [r EXCEPT !.text = IF Ruleless(r, c) THEN c.text ELSE @,
                              !.unread = @ \/ Ruleless(r, c),
                              !.cat = IF @ = None THEN c.cat ELSE @,
                              !.barred = @ \/ c.bars # {}] IN
    /\ c.pc = "vote"
    /\ SetLesson(c.dup, Voted)
    /\ To(t, "done")
    /\ UNCHANGED <<lesson_rejections, metas, tabs, proc, build, seeding, shown, acts, boots>>

\* Verified, or for the critic pending from another source.
Suppressors(c) ==
    {r \in skills : /\ r.verified \/ (c.source = "critic" /\ r.source # c.source)
                    /\ Similar(r, c)}

FindSuppressor(t) ==
    Step(t, "suppressor", IF Suppressors(turns[t]) # {} THEN "done" ELSE "save")

SaveSkill(t) ==
    LET c == turns[t] IN
    /\ c.pc = "save"
    /\ Save(NewLesson(c.text, c.ques, c.source, c.cat, c.bars))
    /\ To(t, "done")
    /\ UNCHANGED <<lesson_rejections, metas, tabs, proc, build, seeding, acts, boots>>

Active(t) == turns[t].pc \notin {"unasked", "done"}

\* Whatever raises on the way costs the lesson and is logged.
Fails(t) == Active(t) /\ Step(t, turns[t].pc, "done")

-----------------------------------------------------------------------------
(* Administrators                                                            *)

\* What the candidates in flight remember of rejections.
Follow(rejections) ==
    turns' = [t \in Turns |-> [turns[t] EXCEPT !.bars = @ \cap {x.uid : x \in rejections}]]

AskTab(b, request) ==
    /\ Up /\ tabs[b] = Idle /\ acts < MaxActs
    /\ tabs' = [tabs EXCEPT ![b] = request] /\ acts' = acts + 1
    /\ UNCHANGED <<tables, metas, turns, proc, build, seeding, shown, boots>>

\* Whether the list that is asked from showed the rule: it may be older than the rule.
Showed(r) == IF r.unread THEN BOOLEAN ELSE {r.text # None}

\* A tab asks by the id that its list showed; a missing row is a 404, or nothing to do.
AskPatch(b) == \E p \in shown, r \in skills :
    /\ r.id = p[2]
    /\ \E t \in Written \cup {None}, v \in BOOLEAN \cup {None}, read \in Showed(r) :
        /\ (t = None) # (v = None)
        /\ AskTab(b, [kind |-> "patch", id |-> p[2], uid |-> p[1], read |-> read,
                      text |-> t, vec |-> Embed(t), verified |-> v])

AskDelete(b) == \E p \in shown, r \in skills, mute \in BOOLEAN :
    /\ r.id = p[2]
    /\ AskTab(b, [kind |-> "delete", no |-> acts, id |-> r.id, text |-> r.text,
                  vec |-> IF r.vec = None THEN Embed(r.text) ELSE r.vec,
                  mute |-> IF mute /\ r.cat # None THEN {r.cat} ELSE {}])

\* set_category_muted reads the list before its write opens a transaction.
AskMute(b) == \E c \in Learnable :
    \E m \in {muted \cup {c}, muted \ {c}} : AskTab(b, [kind |-> "mute", muted |-> m])

Answer(b) == tabs' = [tabs EXCEPT ![b] = Idle]

\* Mutant: an edit without embeddings takes the vector away.
NoStaleVector(r, c) == c.vec

\* A vector is only replaced by a vector.
PatchedVector(r, c) == IF c.vec = None THEN r.vec ELSE c.vec

Patch(b) ==
    LET c == tabs[b]
        Patched(r) == [r EXCEPT
            !.text = IF c.text = None THEN @ ELSE c.text,
            !.vec = IF c.text = None THEN @ ELSE PatchedVector(r, c),
            !.verified = IF c.verified = None THEN @ ELSE c.verified,
            !.seen = @ \/ c.text # None \/ r.uid = c.uid,
            !.unread = @ /\ c.text = None /\ ~(r.uid = c.uid /\ c.read)] IN
    /\ c.kind = "patch"
    /\ SetLesson(c.id, Patched)
    /\ Answer(b)
    /\ UNCHANGED <<lesson_rejections, metas, turns, proc, build, seeding, shown, acts, boots>>

\* One transaction: the tombstone, the deletion, the mute.
Delete(b) ==
    LET c == tabs[b] IN
    /\ c.kind = "delete"
    /\ lesson_rejections' = lesson_rejections \cup {[uid |-> c.no, text |-> c.text, vec |-> c.vec]}
    /\ skills' = {r \in skills : r.id # c.id}
    /\ muted' = muted \cup c.mute
    /\ Follow(lesson_rejections')
    /\ torn' = (torn \/ \E r \in skills \ skills' :
                    r.source = "seed" /\ r.ques \notin applied)
    /\ Answer(b)
    /\ UNCHANGED <<marked, applied, reembedded, proc, build, todo, known, shipped, shown, acts, boots>>

SetMuted(b) ==
    /\ tabs[b].kind = "mute"
    /\ muted' = tabs[b].muted
    /\ Answer(b)
    /\ UNCHANGED <<tables, marked, applied, reembedded, turns, proc, build, seeding, shown, acts, boots>>

\* One transaction each: "allow again" for one rejection, or for all.
AllowAgain ==
    /\ Up /\ acts < MaxActs
    /\ \E gone \in {{x} : x \in lesson_rejections} \cup {lesson_rejections} :
        lesson_rejections' = lesson_rejections \ gone
    /\ Follow(lesson_rejections')
    /\ acts' = acts + 1
    /\ UNCHANGED <<skills, metas, tabs, proc, build, seeding, shown, boots>>

-----------------------------------------------------------------------------
(* Boots                                                                     *)

Start ==
    /\ proc = "down" /\ boots < MaxBoots
    /\ proc' = "upgrade" /\ boots' = boots + 1
    /\ release' \in Releases /\ embeds' \in BOOLEAN
    /\ UNCHANGED <<tables, metas, turns, tabs, seeding, shown, acts>>

\* upgrade_seed_lessons leaves edited rows alone, and every vector as it is.
Upgrade ==
    LET Old(r) == {s \in release \cap DOMAIN FirstText :
                       r.source = "seed" /\ r.text = FirstText[s]} IN
    /\ proc = "upgrade" /\ proc' = "read"
    /\ skills' = {IF Old(r) = {} THEN r ELSE [r EXCEPT !.text = CHOOSE s \in Old(r) : TRUE] :
                  r \in skills}
    /\ UNCHANGED <<lesson_rejections, metas, turns, tabs, build, seeding, shown, acts, boots>>

\* _backfill_applied_seed_keys: by its headline or its question.
Seeded == {s \in release : \E r \in skills : r.source = "seed" /\ (r.text = s \/ r.ques = s)}

ReadSeeds ==
    /\ proc = "read" /\ proc' = "ship"
    /\ known' = IF marked THEN applied ELSE Seeded
    /\ todo' = release \ known'
    /\ UNCHANGED <<tables, metas, turns, tabs, build, shipped, torn, shown, acts, boots>>

Ship == \E s \in todo :
    /\ proc = "ship"
    /\ Save(NewLesson(s, s, "seed", None, {}))
    /\ shipped' = [shipped EXCEPT ![s] = @ + 1]
    /\ todo' = todo \ {s}
    /\ UNCHANGED <<lesson_rejections, metas, turns, tabs, proc, build, known, torn, acts, boots>>

\* Mutant: a build forgets what it does not ship.
OwnSeeds == release

\* A build with fewer seeds does not forget those of a newer one; but the backfill is
\* blind to those whose marker a newer one did not live to write.
MarkedSeeds == known \cup release

Mark ==
    /\ proc = "ship" /\ todo = {} /\ proc' = "reembed"
    /\ marked' = TRUE /\ applied' = MarkedSeeds /\ Forget
    /\ torn' = (torn \/ \E s \in Seeds \ applied' : shipped[s] > 0)
    /\ UNCHANGED <<tables, muted, reembedded, turns, tabs, build, shipped, shown, acts, boots>>

\* Some seed is inserted that an existing marker does not have.
Unmarked == proc = "ship" /\ marked /\ todo # release \ known

\* main.py goes on when seeding, or the upgrade before it, raises.
BootStepFails ==
    /\ \/ proc = "upgrade" /\ proc' = "read"
       \/ proc \in {"read", "ship"} /\ proc' = "reembed"
       \/ proc = "reembed" /\ proc' = "up"
    /\ torn' = (torn \/ Unmarked) /\ Forget
    /\ UNCHANGED <<tables, metas, turns, tabs, build, shipped, shown, acts, boots>>

\* reembed_skills_if_needed: all rows that have a rule, or none.
CanReembed == ~reembedded /\ (embeds \/ \A r \in skills : r.text = None)

Reembed ==
    /\ proc = "reembed" /\ proc' = "up"
    /\ \/ /\ CanReembed
          /\ skills' = {IF r.text = None THEN r ELSE [r EXCEPT !.vec = IdeaOf[r.text]] :
                        r \in skills}
          /\ reembedded' = TRUE
       \/ /\ ~CanReembed
          /\ UNCHANGED <<skills, reembedded>>
    /\ UNCHANGED <<lesson_rejections, muted, marked, applied, turns, tabs, build, seeding, shown,
                   acts, boots>>

Crash ==
    /\ proc # "down" /\ proc' = "down" /\ release' = {} /\ embeds' = FALSE
    /\ turns' = [t \in Turns |-> IF Active(t) THEN Done ELSE turns[t]]
    /\ tabs' = [b \in Tabs |-> Idle]
    /\ torn' = (torn \/ Unmarked) /\ Forget
    /\ UNCHANGED <<tables, metas, shipped, shown, acts, boots>>

Next ==
    \/ \E t \in Turns :
        \/ Critic(t) \/ Distiller(t) \/ Gate(t) \/ CheckTombstone(t) \/ FindDuplicate(t)
        \/ Vote(t) \/ FindSuppressor(t) \/ SaveSkill(t) \/ Fails(t)
    \/ \E b \in Tabs :
        \/ AskPatch(b) \/ AskDelete(b) \/ AskMute(b) \/ Patch(b) \/ Delete(b) \/ SetMuted(b)
    \/ AllowAgain
    \/ Start \/ Upgrade \/ ReadSeeds \/ Ship \/ Mark \/ BootStepFails \/ Reembed \/ Crash

Spec == Init /\ [][Next]_vars

-----------------------------------------------------------------------------
(* Properties                                                                *)

\* A rejected idea stays rejected: no candidate that was rejected from before it was
\* proposed until it was saved makes a lesson or raises one in the review queue,
\* however threads interleave and whether vectors were there or not (skills.py:324-364,
\* and the order that _upvote_or_save keeps, skills.py:409-437).
RejectedStaysOut == \A r \in skills : ~r.barred

\* A seed ships at most once per database (skills.py:768), over deaths of the process,
\* first installs cut short, builds with fewer seeds and edited rows; unless an
\* insertion or a deletion happened that the marker does not have.
SeedsShipOnce == torn \/ \A s \in Seeds : shipped[s] <= 1

\* What the marker has is not shipped again and not forgotten, whatever is deleted and
\* whichever build boots (skills.py:768-776).
SeedsStayDeleted ==
    [][applied \subseteq applied' /\ \A s \in applied : shipped'[s] = shipped[s]]_vars

\* What the model is given as guidance is a seed, or an administrator has acted on that
\* very lesson (skills.py:13-14), unless its id was another lesson's before, since a tab
\* then approves what it does not show; and its rule is one that an administrator wrote
\* or had before him, unless the row came without one: the vote that fills it in neither
\* asks whether the row is live by now nor sends it back to the review.
GuidanceWasSeen ==
    \A r \in skills : r.verified /\ r.source # "seed" =>
        \/ r.seen /\ (r.unread => r.bare)
        \/ \E p \in shown : p[2] = r.id /\ p[1] < r.uid

\* The hand-over of the seeds over every boot, death and build: each once, and none
\* again once an administrator has deleted it.
SeedsAreHandedOver == []SeedsShipOnce /\ SeedsStayDeleted

\* What is in the library was let in: nothing that was rejected, and no guidance that
\* nobody has approved; nor is an approved rule replaced by one that nobody has read.
LibraryIsReviewed == RejectedStaysOut /\ GuidanceWasSeen

\* A lesson that retrieval can find is found for as long as it exists, over edits and
\* boots without embeddings (routers/admin.py:1478-1483, skills.py:826-836).
GuidanceIsKept ==
    [][\A r \in skills, n \in skills' : r.uid = n.uid /\ r.vec # None => n.vec # None]_vars
=============================================================================
