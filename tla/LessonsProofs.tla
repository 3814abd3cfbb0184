---------------------------- MODULE LessonsProofs ----------------------------
(* Theorems about Lessons for every value of its constants.                *)
EXTENDS Lessons, WellFoundedInduction, TLAPS

-----------------------------------------------------------------------------
(* Primary keys                                                              *)

\* Natural numbers with an upper bound.
Bounded(S) == S \subseteq Nat /\ \E n \in Nat : \A x \in S : x <= n

\* What follows a bounded set of numbers is positive and above all of them.
LEMMA FollowingIsNew ==
    ASSUME NEW S, Bounded(S)
    PROVE  Following(S) \in Nat \ {0} /\ \A x \in S : x < Following(S)
<1>1. CASE S = {}
  BY <1>1 DEF Following
<1>2. CASE S # {}
  <2> DEFINE Less   == OpToRel(<, Nat)
             Bounds == {k \in Nat : \A x \in S : x <= k}
  <2>1. IsWellFoundedOn(Less, Nat)
    BY NatLessThanWellFounded
  <2>2. Bounds \subseteq Nat /\ Bounds # {}
    BY DEF Bounded
  <2>3. PICK k \in Bounds : \A y \in Bounds : ~(<<y, k>> \in Less)
    <3> HIDE DEF Bounds, Less
    <3> QED BY <2>1, <2>2, WFMin
  <2>4. k \in Nat /\ S \subseteq Nat /\ \A y \in Bounds : ~(y < k)
    BY <2>3 DEF OpToRel, Bounded
  <2>5. k \in S
    <3>1. SUFFICES ASSUME k \notin S PROVE FALSE
      OBVIOUS
    <3>2. \A x \in S : x <= k /\ x # k
      BY <3>1
    <3>3. k # 0
      <4>1. PICK x \in S : TRUE
        BY <1>2
      <4> QED BY <2>4, <3>2, <4>1
    <3>4. k - 1 \in Nat /\ \A x \in S : x <= k - 1
      BY <2>4, <3>2, <3>3
    <3> QED BY <2>4, <3>4
  <2>6. \E m \in S : \A x \in S : m >= x
    BY <2>4, <2>5
  <2>7. Max(S) \in S /\ \A x \in S : Max(S) >= x
    BY <2>6 DEF Max
  <2>8. Max(S) \in Nat /\ \A x \in S : x \in Nat
    BY <2>4, <2>7
  <2>9. Following(S) = 1 + Max(S)
    BY <1>2 DEF Following
  <2> HIDE DEF Bounds, Less
  <2> QED BY <2>7, <2>8, <2>9
<1> QED BY <1>1, <1>2

-----------------------------------------------------------------------------
(* Types                                                                     *)

Ids    == {r.id : r \in skills}
Births == {p[1] : p \in shown}

\* A candidate on its way is about something.
Filled == \A t \in Turns : Active(t) => turns[t].text \in Texts /\ turns[t].ques \in Questions

Shapes == TypeOK /\ Bounded(Ids) /\ Bounded(Births) /\ Filled

\* What Embed returns.
LEMMA EmbedType ==
    ASSUME NEW t \in Texts \cup {None}
    PROVE  /\ t # None => IdeaOf[t] \in Ideas
           /\ Embed(t) \in Ideas \cup {None}
BY DEF Ideas, Embed

\* The initial states are well typed.
LEMMA InitShapes == Init => Shapes
<1> SUFFICES ASSUME Init PROVE Shapes
  OBVIOUS
<1>1. TypeOK
  <2>1. skills \subseteq Lesson
    BY OldTablesAssumption DEF Init
  <2>2. shown \subseteq (Nat \ {0}) \X (Nat \ {0})
    BY <2>1 DEF Init, Lesson
  <2>3. turns \in [Turns -> Candidate]
    BY DEF Init, Unasked, Candidate, Sources
  <2>4. tabs \in [Tabs -> Request]
    BY DEF Init, Request
  <2>5. shipped \in [Seeds -> Nat]
    BY DEF Init
  <2>6. acts \in 0..MaxActs /\ boots \in 0..MaxBoots
    BY ConstantsAssumption DEF Init
  <2> QED BY <2>1, <2>2, <2>3, <2>4, <2>5, <2>6 DEF Init, TypeOK
<1>2. \A r \in skills : r.id \in Nat /\ r.uid = r.id
  BY OldTablesAssumption DEF Lesson, Init
<1>3. \E n \in Nat : \A r \in skills : r.id <= n
  <2>1. CASE skills = {}
    BY <2>1
  <2>2. CASE skills # {}
    <3>1. PICK r \in skills : \A n \in skills : n.id <= r.id
      BY <2>2, OldTablesAssumption DEF Init
    <3> QED BY <1>2, <3>1
  <2> QED BY <2>1, <2>2
<1>4. Bounded(Ids)
  BY <1>2, <1>3 DEF Bounded, Ids, Init
<1>5. \A x \in Births : \E r \in skills : x = r.uid
  <2> SUFFICES ASSUME NEW p \in shown PROVE \E r \in skills : p[1] = r.uid
    BY DEF Births
  <2>1. PICK r \in skills : p = <<r.uid, r.id>>
    BY DEF Init
  <2> QED BY <2>1
<1>6. Bounded(Births)
  BY <1>2, <1>3, <1>5 DEF Bounded
<1>7. Filled
  BY DEF Init, Filled, Active, Unasked
<1> QED BY <1>1, <1>4, <1>6, <1>7 DEF Shapes

\* Fewer rows, or rows with other contents, are still bounded.
LEMMA KeepsIds ==
    ASSUME Bounded(Ids), \A n \in skills' : \E r \in skills : n.id = r.id
    PROVE  Bounded(Ids)'
<1>1. Ids' \subseteq Ids
  BY DEF Ids
<1> QED BY <1>1 DEF Bounded

\* Going on, or out.
LEMMA ToType ==
    ASSUME Shapes, NEW t \in Turns, Active(t),
           \/ To(t, "done") \/ To(t, "tombstone") \/ To(t, "duplicate")
           \/ To(t, "suppressor") \/ To(t, "save")
    PROVE  turns' \in [Turns -> Candidate] /\ Filled'
<1>1. turns[t] \in Candidate /\ Done \in Candidate /\ Done.pc = "done"
  BY DEF Shapes, TypeOK, Candidate, Done, Unasked, Sources
<1>2. ASSUME NEW l \in {"tombstone", "duplicate", "suppressor", "save", "done"}, To(t, l)
      PROVE  turns' \in [Turns -> Candidate] /\ Filled'
  <2>1. [turns[t] EXCEPT !.pc = l] \in Candidate
    BY <1>1 DEF Candidate
  <2>2. turns' \in [Turns -> Candidate]
    BY <1>1, <1>2, <2>1 DEF To, Shapes, TypeOK
  <2>3. CASE l = "done"
    BY <1>1, <1>2, <2>3 DEF To, Shapes, TypeOK, Filled, Active
  <2>4. CASE l # "done"
    <3>1. turns' = [turns EXCEPT ![t] = [turns[t] EXCEPT !.pc = l]]
      BY <1>2, <2>4 DEF To
    <3>2. turns'[t].text = turns[t].text /\ turns'[t].ques = turns[t].ques
      BY <1>1, <3>1 DEF Shapes, TypeOK, Candidate
    <3>3. \A u \in Turns \ {t} : turns'[u] = turns[u]
      BY <3>1 DEF Shapes, TypeOK
    <3>4. Filled'
      BY <3>2, <3>3 DEF Shapes, Filled, Active
    <3> QED BY <2>2, <3>4
  <2> QED BY <2>2, <2>3, <2>4
<1> QED BY <1>2

\* The candidates' steps that write nothing.
LEMMA CandidateShapes ==
    ASSUME Shapes, NEW t \in Turns,
           \/ Gate(t) \/ CheckTombstone(t) \/ FindSuppressor(t) \/ Fails(t)
    PROVE  Shapes'
<1>1. turns' \in [Turns -> Candidate] /\ Filled'
  BY ToType DEF Gate, CheckTombstone, FindSuppressor, Fails, Step, Active
<1>2. UNCHANGED <<tables, metas, tabs, proc, build, seeding, shown, acts, boots>>
  BY DEF Gate, CheckTombstone, FindSuppressor, Fails, Step
<1> QED BY <1>1, <1>2 DEF Shapes, TypeOK, Ids, Births, tables, metas, build, seeding

\* A candidate is proposed.
LEMMA ProposeShapes ==
    ASSUME Shapes, NEW t \in Turns, Critic(t) \/ Distiller(t)
    PROVE  Shapes'
<1>1. PICK source \in {"critic", "user-feedback"}, text \in Texts, q \in Questions,
           c \in Learnable \cup {None} : Propose(t, source, text, q, c)
  BY ConstantsAssumption DEF Critic, Distiller
<1> DEFINE bars == {x.uid : x \in {y \in lesson_rejections : SameIdea(y, text, Embed(text))}}
<1>2. bars \in SUBSET Nat
  BY DEF Shapes, TypeOK, Tombstone
<1>3. Embed(text) \in Ideas \cup {None} /\ PassedCategory(c) \in Learnable \cup {None}
  BY EmbedType DEF PassedCategory
<1>4. turns'[t] \in Candidate /\ turns' = [turns EXCEPT ![t] = turns'[t]]
  <2> HIDE DEF bars
  <2>1. turns' = [turns EXCEPT ![t] =
          [pc |-> IF source = "critic" THEN "gate" ELSE "tombstone", source |-> source,
           text |-> text, vec |-> Embed(text), ques |-> q, cat |-> PassedCategory(c),
           dup |-> 0, bars |-> bars]]
    BY <1>1 DEF Propose, bars
  <2> QED BY <1>2, <1>3, <2>1 DEF Shapes, TypeOK, Candidate, Sources
<1>5. turns' \in [Turns -> Candidate] /\ \A u \in Turns \ {t} : turns'[u] = turns[u]
  BY <1>4 DEF Shapes, TypeOK
<1>6. turns'[t].text \in Texts /\ turns'[t].ques \in Questions
  BY <1>1 DEF Propose, Shapes, TypeOK
<1>7. Filled'
  BY <1>5, <1>6 DEF Filled, Active, Shapes
<1> QED BY <1>1, <1>5, <1>7 DEF Propose, Shapes, TypeOK, Ids, Births, tables, metas, build, seeding

\* A candidate finds the row it repeats, or none.
LEMMA FindShapes ==
    ASSUME Shapes, NEW t \in Turns, FindDuplicate(t)
    PROVE  Shapes'
<1>1. turns' \in [Turns -> Candidate] /\ Filled'
  <2>1. CASE To(t, "suppressor")
    BY <2>1, ToType DEF FindDuplicate, Active
  <2>2. CASE \E r \in Duplicates(turns[t]) :
                turns' = [turns EXCEPT ![t].pc = "vote", ![t].dup = r.id]
    <3>1. PICK r \in Duplicates(turns[t]) :
                turns' = [turns EXCEPT ![t].pc = "vote", ![t].dup = r.id]
      BY <2>2
    <3>2. r.id \in Nat /\ turns[t] \in Candidate
      BY DEF Duplicates, Shapes, TypeOK, Lesson
    <3>3. [turns[t] EXCEPT !.pc = "vote", !.dup = r.id] \in Candidate
      BY <3>2 DEF Candidate
    <3>4. turns' \in [Turns -> Candidate]
      BY <3>1, <3>3 DEF Shapes, TypeOK
    <3>5. \A u \in Turns : turns'[u].text = turns[u].text /\ turns'[u].ques = turns[u].ques
      BY <3>1, <3>2 DEF Shapes, TypeOK, Candidate
    <3>6. \A u \in Turns : Active(u)' => Active(u)
      BY <3>1 DEF Shapes, TypeOK, Active, FindDuplicate
    <3> QED BY <3>4, <3>5, <3>6 DEF Shapes, Filled
  <2> QED BY <2>1, <2>2 DEF FindDuplicate
<1> QED BY <1>1 DEF FindDuplicate, Shapes, TypeOK, Ids, Births, tables, metas, build, seeding

\* It counts for that row.
LEMMA VoteShapes ==
    ASSUME Shapes, NEW t \in Turns, Vote(t)
    PROVE  Shapes'
<1> DEFINE c == turns[t]
           Voted(r) == [r EXCEPT !.text = IF Ruleless(r, c) THEN c.text ELSE @,
                                 !.unread = @ \/ Ruleless(r, c),
                                 !.cat = IF @ = None THEN c.cat ELSE @,
                                 !.barred = @ \/ c.bars # {}]
<1>1. skills' = {IF r.id = c.dup THEN Voted(r) ELSE r : r \in skills}
  BY DEF Vote, SetLesson
<1>2. \A r \in skills : Voted(r) \in Lesson /\ Voted(r).id = r.id
  <2>1. c.cat \in Learnable \cup {None} /\ c.text \in Texts
    BY DEF Shapes, TypeOK, Candidate, Filled, Active, Vote
  <2>2. TAKE r \in skills
  <2>3. r \in Lesson
    BY DEF Shapes, TypeOK
  <2>4. (IF r.cat = None THEN c.cat ELSE r.cat) \in Learnable \cup {None}
    BY <2>1, <2>3 DEF Lesson
  <2>5. (r.barred \/ c.bars # {}) \in BOOLEAN /\ (r.unread \/ Ruleless(r, c)) \in BOOLEAN
    OBVIOUS
  <2>6. (IF Ruleless(r, c) THEN c.text ELSE r.text) \in Texts \cup {None}
    BY <2>1, <2>3 DEF Lesson
  <2> DEFINE text == IF Ruleless(r, c) THEN c.text ELSE r.text
             unr  == r.unread \/ Ruleless(r, c)
             cat  == IF r.cat = None THEN c.cat ELSE r.cat
             bar  == r.barred \/ c.bars # {}
  <2>7. Voted(r) = [r EXCEPT !.text = text, !.unread = unr, !.cat = cat, !.barred = bar]
    BY Zenon
  <2>8. /\ text \in Texts \cup {None} /\ unr \in BOOLEAN
        /\ cat \in Learnable \cup {None} /\ bar \in BOOLEAN
    BY <2>4, <2>5, <2>6
  <2> HIDE DEF c, Voted, text, unr, cat, bar
  <2> QED BY <2>3, <2>7, <2>8 DEF Lesson
<1>3. skills' \subseteq Lesson /\ \A n \in skills' : \E r \in skills : n.id = r.id
  <2> HIDE DEF Voted
  <2> QED BY <1>1, <1>2 DEF Shapes, TypeOK
<1>4. Bounded(Ids)' /\ turns' \in [Turns -> Candidate] /\ Filled'
  BY <1>3, KeepsIds, ToType DEF Vote, Shapes, Active
<1> QED BY <1>3, <1>4 DEF Vote, Shapes, TypeOK, Births, metas, build, seeding

\* A new row is one, with numbers that no row has.
LEMMA NewLessonType ==
    ASSUME Shapes
    PROVE  \A text \in Texts, ques \in Questions \cup Seeds, source \in Sources,
              cat \in Learnable \cup {None}, bars \in SUBSET Nat :
           LET row == NewLesson(text, ques, source, cat, bars) IN
           /\ row \in Lesson
           /\ \A r \in skills : r.id < row.id
           /\ \A p \in shown : p[1] < row.uid
           /\ row.verified = IsLive(source) /\ row.barred = (bars # {})
           /\ row.source = source /\ row.ques = ques
<1> TAKE text \in Texts, ques \in Questions \cup Seeds, source \in Sources,
         cat \in Learnable \cup {None}, bars \in SUBSET Nat
<1>1. NextId \in Nat \ {0} /\ \A r \in skills : r.id < NextId
  BY FollowingIsNew DEF Shapes, Ids, NextId
<1>2. Born \in Nat \ {0} /\ \A p \in shown : p[1] < Born
  BY FollowingIsNew DEF Shapes, Births, Born
<1>3. Embed(text) \in Ideas \cup {None}
  BY EmbedType
<1>4. IsLive(source) \in BOOLEAN /\ (bars # {}) \in BOOLEAN
  BY DEF IsLive
<1> QED BY <1>1, <1>2, <1>3, <1>4 DEF NewLesson, Lesson

\* Saving a row of such numbers.
LEMMA SaveType ==
    ASSUME Shapes, NEW row \in Lesson, Save(row),
           \A r \in skills : r.id < row.id, \A p \in shown : p[1] < row.uid
    PROVE  /\ skills' \subseteq Lesson /\ shown' \subseteq (Nat \ {0}) \X (Nat \ {0})
           /\ Bounded(Ids)' /\ Bounded(Births)'
<1>1. row.id \in Nat \ {0} /\ row.uid \in Nat \ {0}
  BY DEF Lesson
<1>2. skills' = skills \cup {row} /\ shown' = shown \cup {<<row.uid, row.id>>}
  BY DEF Save
<1>3. \A r \in skills : r.id \in Nat
  BY DEF Shapes, TypeOK, Lesson
<1>4. Ids' \subseteq Nat /\ \A x \in Ids' : x <= row.id
  BY <1>1, <1>2, <1>3 DEF Ids
<1>5. \A p \in shown' : p[1] \in Nat /\ p[1] <= row.uid
  <2>1. \A p \in shown : p[1] \in Nat
    BY DEF Shapes, TypeOK
  <2> QED BY <1>1, <1>2, <2>1
<1>6. Bounded(Ids)' /\ Bounded(Births)'
  BY <1>1, <1>4, <1>5 DEF Bounded, Births
<1> QED BY <1>1, <1>2, <1>6 DEF Shapes, TypeOK

\* The row of a candidate.
LEMMA SavedRow ==
    ASSUME Shapes, NEW t \in Turns, SaveSkill(t)
    PROVE  LET c == turns[t]  row == NewLesson(c.text, c.ques, c.source, c.cat, c.bars) IN
           /\ row \in Lesson
           /\ \A r \in skills : r.id < row.id
           /\ \A p \in shown : p[1] < row.uid
           /\ row.text \in Texts
<1> DEFINE c   == turns[t]
           row == NewLesson(c.text, c.ques, c.source, c.cat, c.bars)
<1>1. c \in Candidate /\ c.text \in Texts /\ c.ques \in Questions
  BY DEF SaveSkill, Shapes, TypeOK, Filled, Active
<1>2. c.source \in Sources /\ c.cat \in Learnable \cup {None} /\ c.bars \in SUBSET Nat
  BY <1>1 DEF Candidate
<1>3. row.text = c.text
  BY DEF NewLesson
<1>4. row \in Lesson /\ (\A r \in skills : r.id < row.id) /\ \A p \in shown : p[1] < row.uid
  <2>1. c.text \in Texts /\ c.ques \in Questions \cup Seeds
    BY <1>1
  <2>2. \A text \in Texts, ques \in Questions \cup Seeds, source \in Sources,
           cat \in Learnable \cup {None}, bars \in SUBSET Nat :
           /\ NewLesson(text, ques, source, cat, bars) \in Lesson
           /\ \A r \in skills : r.id < NewLesson(text, ques, source, cat, bars).id
           /\ \A p \in shown : p[1] < NewLesson(text, ques, source, cat, bars).uid
    BY NewLessonType
  <2> HIDE DEF c
  <2> QED BY <1>2, <2>1, <2>2
<1> QED BY <1>1, <1>3, <1>4

\* A candidate is saved.
LEMMA SaveShapes ==
    ASSUME Shapes, NEW t \in Turns, SaveSkill(t)
    PROVE  Shapes'
<1> DEFINE c   == turns[t]
           row == NewLesson(c.text, c.ques, c.source, c.cat, c.bars)
<1>3. row \in Lesson /\ (\A r \in skills : r.id < row.id) /\ \A p \in shown : p[1] < row.uid
  BY SavedRow
<1>4. Save(row)
  BY DEF SaveSkill
<1>5. /\ skills' \subseteq Lesson /\ shown' \subseteq (Nat \ {0}) \X (Nat \ {0})
      /\ Bounded(Ids)' /\ Bounded(Births)'
  <2> HIDE DEF row
  <2> QED BY <1>3, <1>4, SaveType
<1>6. turns' \in [Turns -> Candidate] /\ Filled'
  BY ToType DEF SaveSkill, Active
<1> QED BY <1>5, <1>6 DEF SaveSkill, Shapes, TypeOK, metas, build, seeding

\* A request is noted.
LEMMA AskShapes ==
    ASSUME Shapes, NEW b \in Tabs, NEW request \in Request, AskTab(b, request)
    PROVE  Shapes'
<1>1. tabs' \in [Tabs -> Request]
  BY DEF AskTab, Shapes, TypeOK
<1>2. acts' \in 0..MaxActs
  BY ConstantsAssumption DEF AskTab, Shapes, TypeOK
<1> QED BY <1>1, <1>2
    DEF AskTab, Shapes, TypeOK, Ids, Births, Filled, Active, tables, metas, build, seeding

\* A list showed a rule, or did not.
LEMMA ShowedType == ASSUME NEW r PROVE Showed(r) \subseteq BOOLEAN
BY DEF Showed

\* The three of them.
LEMMA RequestShapes ==
    ASSUME Shapes, NEW b \in Tabs, AskPatch(b) \/ AskDelete(b) \/ AskMute(b)
    PROVE  Shapes'
<1>1. CASE AskPatch(b)
  <2>1. PICK p \in shown, t \in Written \cup {None}, v \in BOOLEAN \cup {None},
             read \in BOOLEAN :
          AskTab(b, [kind |-> "patch", id |-> p[2], uid |-> p[1], read |-> read,
                     text |-> t, vec |-> Embed(t), verified |-> v])
    BY <1>1, ShowedType DEF AskPatch
  <2>2. p[1] \in Nat \ {0} /\ p[2] \in Nat \ {0}
    BY DEF Shapes, TypeOK
  <2>3. t \in Texts \cup {None} /\ Embed(t) \in Ideas \cup {None}
    BY EmbedType, ConstantsAssumption
  <2>4. [kind |-> "patch", id |-> p[2], uid |-> p[1], read |-> read,
         text |-> t, vec |-> Embed(t), verified |-> v] \in Request
    BY <2>2, <2>3 DEF Request
  <2> QED BY <2>1, <2>4, AskShapes
<1>2. CASE AskDelete(b)
  <2>1. PICK r \in skills, mute \in BOOLEAN :
          AskTab(b, [kind |-> "delete", no |-> acts, id |-> r.id, text |-> r.text,
                     vec |-> IF r.vec = None THEN Embed(r.text) ELSE r.vec,
                     mute |-> IF mute /\ r.cat # None THEN {r.cat} ELSE {}])
    BY <1>2 DEF AskDelete
  <2>2. r \in Lesson /\ acts \in Nat
    BY DEF Shapes, TypeOK
  <2>3. (IF r.vec = None THEN Embed(r.text) ELSE r.vec) \in Ideas \cup {None}
    BY <2>2, EmbedType DEF Lesson
  <2>4. (IF mute /\ r.cat # None THEN {r.cat} ELSE {}) \in SUBSET Learnable
    BY <2>2 DEF Lesson
  <2>5. [kind |-> "delete", no |-> acts, id |-> r.id, text |-> r.text,
         vec |-> IF r.vec = None THEN Embed(r.text) ELSE r.vec,
         mute |-> IF mute /\ r.cat # None THEN {r.cat} ELSE {}] \in Request
    BY <2>2, <2>3, <2>4 DEF Request, Lesson
  <2> QED BY <2>1, <2>5, AskShapes
<1>3. CASE AskMute(b)
  <2>1. PICK m \in SUBSET Learnable : AskTab(b, [kind |-> "mute", muted |-> m])
    BY <1>3 DEF AskMute, Shapes, TypeOK
  <2>2. [kind |-> "mute", muted |-> m] \in Request
    BY DEF Request
  <2> QED BY <2>1, <2>2, AskShapes
<1> QED BY <1>1, <1>2, <1>3

\* What a candidate remembers only gets less.
LEMMA FollowType ==
    ASSUME Shapes, NEW rejections, Follow(rejections)
    PROVE  /\ turns' \in [Turns -> Candidate] /\ Filled'
           /\ \A t \in Turns : /\ turns'[t].bars \subseteq turns[t].bars
                               /\ turns'[t].bars \subseteq {x.uid : x \in rejections}
                               /\ turns'[t].pc = turns[t].pc
                               /\ turns'[t].vec = turns[t].vec
                               /\ turns'[t].text = turns[t].text
<1>1. \A t \in Turns : turns[t] \in Candidate
  BY DEF Shapes, TypeOK
<1>2. ASSUME NEW t \in Turns
      PROVE  LET c == [turns[t] EXCEPT !.bars = @ \cap {x.uid : x \in rejections}] IN
             /\ c \in Candidate /\ c.bars = turns[t].bars \cap {x.uid : x \in rejections}
             /\ c.pc = turns[t].pc /\ c.vec = turns[t].vec /\ c.text = turns[t].text
             /\ c.ques = turns[t].ques
  <2>1. turns[t].bars \cap {x.uid : x \in rejections} \in SUBSET Nat
    BY <1>1 DEF Candidate
  <2> QED BY <1>1, <2>1 DEF Candidate
<1>3. \A t \in Turns : /\ turns'[t] \in Candidate
                       /\ turns'[t].bars = turns[t].bars \cap {x.uid : x \in rejections}
                       /\ turns'[t].pc = turns[t].pc /\ turns'[t].vec = turns[t].vec
                       /\ turns'[t].text = turns[t].text /\ turns'[t].ques = turns[t].ques
  BY <1>2 DEF Follow
<1>4. turns' \in [Turns -> Candidate]
  BY <1>3 DEF Follow
<1>5. Filled'
  BY <1>3 DEF Shapes, Filled, Active
<1> QED BY <1>3, <1>4, <1>5

\* A lesson is edited or approved.
LEMMA PatchShapes ==
    ASSUME Shapes, NEW b \in Tabs, Patch(b)
    PROVE  Shapes'
<1> DEFINE c == tabs[b]
           Patched(r) == [r EXCEPT
               !.text = IF c.text = None THEN @ ELSE c.text,
               !.vec = IF c.text = None THEN @ ELSE PatchedVector(r, c),
               !.verified = IF c.verified = None THEN @ ELSE c.verified,
               !.seen = @ \/ c.text # None \/ r.uid = c.uid,
               !.unread = @ /\ c.text = None /\ ~(r.uid = c.uid /\ c.read)]
<1>1. /\ c.text \in Texts \cup {None} /\ c.vec \in Ideas \cup {None}
      /\ c.verified \in BOOLEAN \cup {None}
  BY DEF Patch, Shapes, TypeOK, Request, Idle
<1>2. skills' = {IF r.id = c.id THEN Patched(r) ELSE r : r \in skills}
  BY DEF Patch, SetLesson
<1>3. \A r \in skills : Patched(r) \in Lesson /\ Patched(r).id = r.id
  <2>1. TAKE r \in skills
  <2>2. r \in Lesson
    BY DEF Shapes, TypeOK
  <2>3. (IF c.text = None THEN r.vec ELSE PatchedVector(r, c)) \in Ideas \cup {None}
    BY <1>1, <2>2 DEF PatchedVector, Lesson
  <2>4. (IF c.text = None THEN r.text ELSE c.text) \in Texts \cup {None}
    BY <1>1, <2>2 DEF Lesson
  <2>5. (IF c.verified = None THEN r.verified ELSE c.verified) \in BOOLEAN
    BY <1>1, <2>2 DEF Lesson
  <2>6. /\ (r.seen \/ c.text # None \/ r.uid = c.uid) \in BOOLEAN
        /\ (r.unread /\ c.text = None /\ ~(r.uid = c.uid /\ c.read)) \in BOOLEAN
    OBVIOUS
  <2> DEFINE text == IF c.text = None THEN r.text ELSE c.text
             vec  == IF c.text = None THEN r.vec ELSE PatchedVector(r, c)
             ver  == IF c.verified = None THEN r.verified ELSE c.verified
             seen == r.seen \/ c.text # None \/ r.uid = c.uid
             unr  == r.unread /\ c.text = None /\ ~(r.uid = c.uid /\ c.read)
  <2>7. Patched(r) = [r EXCEPT !.text = text, !.vec = vec, !.verified = ver, !.seen = seen,
                               !.unread = unr]
    BY Zenon
  <2>8. /\ text \in Texts \cup {None} /\ vec \in Ideas \cup {None} /\ ver \in BOOLEAN
        /\ seen \in BOOLEAN /\ unr \in BOOLEAN
    BY <2>3, <2>4, <2>5, <2>6
  <2> HIDE DEF c, Patched, text, vec, ver, seen, unr
  <2> QED BY <2>2, <2>7, <2>8 DEF Lesson
<1>4. skills' \subseteq Lesson /\ \A n \in skills' : \E r \in skills : n.id = r.id
  <2> HIDE DEF Patched
  <2> QED BY <1>2, <1>3 DEF Shapes, TypeOK
<1>5. tabs' \in [Tabs -> Request]
  BY DEF Patch, Answer, Shapes, TypeOK, Request
<1> QED BY <1>4, <1>5, KeepsIds
    DEF Patch, Shapes, TypeOK, Births, Filled, Active, metas, build, seeding

\* A lesson is rejected.
LEMMA DeleteShapes ==
    ASSUME Shapes, NEW b \in Tabs, Delete(b)
    PROVE  Shapes'
<1> DEFINE c == tabs[b]
<1>1. [uid |-> c.no, text |-> c.text, vec |-> c.vec] \in Tombstone /\ c.mute \subseteq Learnable
  BY DEF Delete, Shapes, TypeOK, Request, Idle, Tombstone
<1>2. tabs' \in [Tabs -> Request]
  BY DEF Delete, Answer, Shapes, TypeOK, Request
<1>3. turns' \in [Turns -> Candidate] /\ Filled'
  BY FollowType DEF Delete
<1>4. Bounded(Ids)'
  BY KeepsIds DEF Delete, Shapes
<1>5. /\ skills' \subseteq Lesson /\ lesson_rejections' \subseteq Tombstone
      /\ muted' \subseteq Learnable /\ torn' \in BOOLEAN
  BY <1>1 DEF Delete, Shapes, TypeOK
<1> QED BY <1>2, <1>3, <1>4, <1>5 DEF Delete, Shapes, TypeOK, Births, build

\* A mute list is written; a rejection is taken back.
LEMMA MuteShapes ==
    ASSUME Shapes, (\E b \in Tabs : SetMuted(b)) \/ AllowAgain
    PROVE  Shapes'
<1>1. CASE \E b \in Tabs : SetMuted(b)
  <2>1. PICK b \in Tabs : SetMuted(b)
    BY <1>1
  <2>2. muted' \subseteq Learnable
    BY <2>1 DEF SetMuted, Shapes, TypeOK, Request, Idle
  <2>3. turns' \in [Turns -> Candidate] /\ Filled'
    BY <2>1 DEF SetMuted, Shapes, TypeOK, Filled, Active
  <2>4. tabs' \in [Tabs -> Request]
    BY <2>1 DEF SetMuted, Answer, Shapes, TypeOK, Request
  <2> QED BY <2>1, <2>2, <2>3, <2>4
      DEF SetMuted, Shapes, TypeOK, Ids, Births, tables, build, seeding
<1>2. CASE AllowAgain
  <2>1. lesson_rejections' \subseteq Tombstone
    BY <1>2 DEF AllowAgain, Shapes, TypeOK
  <2>2. turns' \in [Turns -> Candidate] /\ Filled'
    BY <1>2, FollowType DEF AllowAgain
  <2>3. acts' \in 0..MaxActs
    BY <1>2, ConstantsAssumption DEF AllowAgain, Shapes, TypeOK
  <2> QED BY <1>2, <2>1, <2>2, <2>3
      DEF AllowAgain, Shapes, TypeOK, Ids, Births, metas, build, seeding
<1> QED BY <1>1, <1>2

\* The process starts, or dies.
LEMMA ProcessShapes ==
    ASSUME Shapes, Start \/ Crash
    PROVE  Shapes'
<1>1. CASE Start
  <2>1. release' \subseteq Seeds /\ embeds' \in BOOLEAN
    BY <1>1, ConstantsAssumption DEF Start
  <2>2. boots' \in 0..MaxBoots
    BY <1>1, ConstantsAssumption DEF Start, Shapes, TypeOK
  <2> QED BY <1>1, <2>1, <2>2
      DEF Start, Shapes, TypeOK, Ids, Births, Filled, Active, tables, metas, seeding
<1>2. CASE Crash
  <2>1. Done \in Candidate /\ Done.pc = "done"
    BY DEF Candidate, Done, Unasked, Sources
  <2>2. \A t \in Turns : turns'[t] = IF Active(t) THEN Done ELSE turns[t]
    BY <1>2 DEF Crash
  <2>3. turns' \in [Turns -> Candidate]
    BY <1>2, <2>1 DEF Crash, Shapes, TypeOK
  <2>4. \A t \in Turns : ~Active(t)'
    BY <2>1, <2>2 DEF Active
  <2>5. tabs' \in [Tabs -> Request] /\ release' = {} /\ embeds' = FALSE
    BY <1>2 DEF Crash, Request
  <2>6. todo' = {} /\ known' = {} /\ torn' \in BOOLEAN
    BY <1>2 DEF Crash, Forget, Shapes, TypeOK
  <2>7. Filled'
    BY <2>4 DEF Filled
  <2> QED BY <1>2, <2>3, <2>5, <2>6, <2>7
      DEF Crash, Shapes, TypeOK, Ids, Births, tables, metas
<1> QED BY <1>1, <1>2

\* Rows are rewritten in place at boot.
LEMMA RewriteShapes ==
    ASSUME Shapes, Upgrade \/ Reembed
    PROVE  Shapes'
<1>1. skills' \subseteq Lesson /\ \A n \in skills' : \E r \in skills : n.id = r.id
  <2>1. CASE Upgrade
    <3> DEFINE Old(r) == {s \in release \cap DOMAIN FirstText :
                              r.source = "seed" /\ r.text = FirstText[s]}
               New(r) == IF Old(r) = {} THEN r
                         ELSE [r EXCEPT !.text = CHOOSE s \in Old(r) : TRUE]
    <3>1. skills' = {New(r) : r \in skills}
      BY <2>1 DEF Upgrade
    <3>2. \A r \in skills : New(r) \in Lesson /\ New(r).id = r.id
      <4>1. TAKE r \in skills
      <4>2. r \in Lesson
        BY DEF Shapes, TypeOK
      <4>3. CASE Old(r) = {}
        BY <4>2, <4>3
      <4>4. CASE Old(r) # {}
        <5>1. (CHOOSE s \in Old(r) : TRUE) \in Texts
          BY <4>4, ConstantsAssumption
        <5> HIDE DEF Old
        <5> QED BY <4>2, <4>4, <5>1 DEF Lesson
      <4> QED BY <4>3, <4>4
    <3> HIDE DEF New
    <3> QED BY <3>1, <3>2
  <2>2. CASE /\ Reembed
             /\ skills' = {IF r.text = None THEN r ELSE [r EXCEPT !.vec = IdeaOf[r.text]] :
                           r \in skills}
    <3> DEFINE New(r) == IF r.text = None THEN r ELSE [r EXCEPT !.vec = IdeaOf[r.text]]
    <3>1. \A r \in skills : New(r) \in Lesson
      BY EmbedType DEF Lesson, Shapes, TypeOK
    <3>2. \A r \in skills : New(r).id = r.id
      BY DEF Lesson, Shapes, TypeOK
    <3>3. skills' = {New(r) : r \in skills}
      BY <2>2
    <3> HIDE DEF New
    <3> QED BY <3>1, <3>2, <3>3
  <2>3. CASE Reembed /\ UNCHANGED skills
    BY <2>3 DEF Shapes, TypeOK
  <2> QED BY <2>1, <2>2, <2>3 DEF Reembed
<1>2. Bounded(Ids)'
  BY <1>1, KeepsIds DEF Shapes
<1>3. reembedded' \in BOOLEAN
  BY DEF Upgrade, Reembed, Shapes, TypeOK, metas
<1> QED BY <1>1, <1>2, <1>3
    DEF Upgrade, Reembed, Shapes, TypeOK, Births, Filled, Active, metas, build, seeding

\* A seed is inserted.
LEMMA ShipShapes ==
    ASSUME Shapes, Ship
    PROVE  Shapes'
<1>1. PICK s \in todo : /\ proc = "ship"
                        /\ Save(NewLesson(s, s, "seed", None, {}))
                        /\ shipped' = [shipped EXCEPT ![s] = @ + 1]
                        /\ todo' = todo \ {s}
  BY DEF Ship
<1> DEFINE row == NewLesson(s, s, "seed", None, {})
<1>2. s \in Seeds /\ s \in Texts /\ "seed" \in Sources
  BY ConstantsAssumption DEF Shapes, TypeOK, Sources
<1>3. row \in Lesson /\ (\A r \in skills : r.id < row.id) /\ \A p \in shown : p[1] < row.uid
  BY <1>2, NewLessonType
<1>4. Save(row)
  BY <1>1
<1>5. /\ skills' \subseteq Lesson /\ shown' \subseteq (Nat \ {0}) \X (Nat \ {0})
      /\ Bounded(Ids)' /\ Bounded(Births)'
  <2> HIDE DEF row
  <2> QED BY <1>3, <1>4, SaveType
<1>6. shipped' \in [Seeds -> Nat] /\ todo' \subseteq Seeds
  BY <1>1, <1>2 DEF Shapes, TypeOK
<1> QED BY <1>5, <1>6 DEF Ship, Shapes, TypeOK, Filled, Active, metas, build

\* The rest of the seeding.
LEMMA SeedingShapes ==
    ASSUME Shapes, ReadSeeds \/ Mark \/ BootStepFails
    PROVE  Shapes'
<1>1. CASE ReadSeeds
  <2>1. known' \subseteq Seeds /\ todo' \subseteq Seeds
    BY <1>1 DEF ReadSeeds, Seeded, Shapes, TypeOK
  <2> QED BY <1>1, <2>1
      DEF ReadSeeds, Shapes, TypeOK, Ids, Births, Filled, Active, tables, metas, build
<1>2. CASE Mark
  <2>1. applied' \subseteq Seeds /\ marked' \in BOOLEAN /\ known' = {} /\ todo' = {}
    BY <1>2 DEF Mark, MarkedSeeds, Forget, Shapes, TypeOK
  <2> QED BY <1>2, <2>1
      DEF Mark, Shapes, TypeOK, Ids, Births, Filled, Active, tables, build
<1>3. CASE BootStepFails
  <2>1. torn' \in BOOLEAN /\ known' = {} /\ todo' = {}
    BY <1>3 DEF BootStepFails, Forget, Shapes, TypeOK
  <2>2. proc' \in {"read", "reembed", "up"}
    BY <1>3 DEF BootStepFails
  <2> QED BY <1>3, <2>1, <2>2
      DEF BootStepFails, Shapes, TypeOK, Ids, Births, Filled, Active, tables, metas, build
<1> QED BY <1>1, <1>2, <1>3

\* Nothing happens.
LEMMA StutterShapes == ASSUME Shapes, UNCHANGED vars PROVE Shapes'
BY DEF vars, Shapes, TypeOK, Ids, Births, Filled, Active, tables, metas, build, seeding

\* Every step keeps the types, whoever takes it.
LEMMA NextShapes == ASSUME Shapes, [Next]_vars PROVE Shapes'
<1>1. ASSUME NEW t \in Turns,
             \/ Critic(t) \/ Distiller(t) \/ Gate(t) \/ CheckTombstone(t) \/ FindDuplicate(t)
             \/ Vote(t) \/ FindSuppressor(t) \/ SaveSkill(t) \/ Fails(t)
      PROVE  Shapes'
  BY <1>1, ProposeShapes, CandidateShapes, FindShapes, VoteShapes, SaveShapes
<1>2. ASSUME NEW b \in Tabs,
             \/ AskPatch(b) \/ AskDelete(b) \/ AskMute(b) \/ Patch(b) \/ Delete(b) \/ SetMuted(b)
      PROVE  Shapes'
  BY <1>2, RequestShapes, PatchShapes, DeleteShapes, MuteShapes
<1>3. CASE AllowAgain
  BY <1>3, MuteShapes
<1>4. CASE Start \/ Upgrade \/ ReadSeeds \/ Ship \/ Mark \/ BootStepFails \/ Reembed \/ Crash
  BY <1>4, ProcessShapes, RewriteShapes, SeedingShapes, ShipShapes
<1>5. CASE UNCHANGED vars
  BY <1>5, StutterShapes
<1> QED BY <1>1, <1>2, <1>3, <1>4, <1>5 DEF Next

\* Shapes is an invariant.
LEMMA ShapesHold == Spec => []Shapes
<1>1. Shapes /\ [Next]_vars => Shapes'
  BY NextShapes
<1> QED BY InitShapes, <1>1, PTL DEF Spec

\* Every variable keeps its type.
THEOREM TypeCorrect == Spec => []TypeOK
<1>1. Shapes => TypeOK
  BY DEF Shapes
<1> QED BY ShapesHold, <1>1, PTL

-----------------------------------------------------------------------------
(* What the candidates and the administrators leave alone                    *)

CandidateStep(t) ==
    \/ Critic(t) \/ Distiller(t) \/ Gate(t) \/ CheckTombstone(t) \/ FindDuplicate(t)
    \/ Vote(t) \/ FindSuppressor(t) \/ SaveSkill(t) \/ Fails(t)

AdminAsks(b) == AskPatch(b) \/ AskDelete(b) \/ AskMute(b)

AdminWrites == AllowAgain \/ \E b \in Tabs : Patch(b) \/ Delete(b) \/ SetMuted(b)

BootStep == Start \/ Upgrade \/ ReadSeeds \/ Ship \/ Mark \/ BootStepFails \/ Reembed \/ Crash

\* Every step is one of these.
LEMMA StepKinds ==
    ASSUME [Next]_vars
    PROVE  \/ \E t \in Turns : CandidateStep(t)
           \/ \E b \in Tabs : AdminAsks(b)
           \/ AdminWrites
           \/ BootStep
           \/ UNCHANGED vars
BY DEF Next, CandidateStep, AdminAsks, AdminWrites, BootStep

\* A candidate writes no more than its own row and its own state.
LEMMA CandidateFrame ==
    ASSUME NEW t \in Turns, CandidateStep(t)
    PROVE  UNCHANGED <<lesson_rejections, metas, tabs, proc, build, seeding, acts, boots>>
BY DEF CandidateStep, Critic, Distiller, Propose, Gate, CheckTombstone, FindDuplicate, Vote,
       FindSuppressor, SaveSkill, Fails, Step, tables

\* A request writes nothing yet.
LEMMA AskFrame ==
    ASSUME NEW b \in Tabs, AdminAsks(b)
    PROVE  UNCHANGED <<tables, metas, turns, proc, build, seeding, shown, boots>>
<1>1. \E request : AskTab(b, request)
  BY DEF AdminAsks, AskPatch, AskDelete, AskMute
<1> QED BY <1>1 DEF AskTab

\* Administrators do not touch the marker or the boot.
LEMMA AdminFrame ==
    ASSUME AdminWrites
    PROVE  UNCHANGED <<marked, applied, reembedded, proc, build, todo, known, shipped, shown, boots>>
<1>1. CASE AllowAgain
  BY <1>1 DEF AllowAgain, metas, seeding
<1>2. ASSUME NEW b \in Tabs, Patch(b) \/ Delete(b) \/ SetMuted(b)
      PROVE  UNCHANGED <<marked, applied, reembedded, proc, build, todo, known, shipped, shown, boots>>
  <2>1. CASE Patch(b)
    BY <2>1 DEF Patch, metas, seeding
  <2>2. CASE Delete(b)
    BY <2>2 DEF Delete
  <2>3. CASE SetMuted(b)
    BY <2>3 DEF SetMuted, seeding
  <2> QED BY <1>2, <2>1, <2>2, <2>3
<1> QED BY <1>1, <1>2 DEF AdminWrites

-----------------------------------------------------------------------------
(* Seeds that were deleted                                                   *)

\* Before there is a marker it has nothing; what is about to ship is not in it.
Shipping ==
    /\ ~marked => applied = {}
    /\ proc = "ship" => applied \subseteq known /\ todo \cap known = {} /\ todo \subseteq release

\* Shipping holds initially and every step keeps it.
LEMMA ShippingStep ==
    ASSUME Shapes, Shipping, [Next]_vars
    PROVE  Shipping'
<1>1. CASE \E t \in Turns : CandidateStep(t)
  BY <1>1, CandidateFrame DEF Shipping, metas, seeding, build
<1>2. CASE \E b \in Tabs : AdminAsks(b)
  BY <1>2, AskFrame DEF Shipping, metas, seeding, build
<1>3. CASE AdminWrites
  BY <1>3, AdminFrame DEF Shipping, build
<1>4. CASE BootStep
  <2>1. CASE ReadSeeds
    BY <2>1 DEF ReadSeeds, Shipping, metas, build
  <2>2. CASE Ship
    <3>1. /\ UNCHANGED <<marked, applied, proc, known, release>>
          /\ todo' \subseteq todo
      BY <2>2 DEF Ship, metas, build
    <3> QED BY <3>1 DEF Shipping
  <2>3. CASE Mark
    BY <2>3 DEF Mark, Shipping
  <2>4. CASE Start \/ Upgrade \/ BootStepFails \/ Reembed \/ Crash
    <3>1. UNCHANGED <<marked, applied>> /\ proc' # "ship"
      BY <2>4 DEF Start, Upgrade, BootStepFails, Reembed, Crash, metas
    <3> QED BY <3>1 DEF Shipping
  <2> QED BY <1>4, <2>1, <2>2, <2>3, <2>4 DEF BootStep
<1>5. CASE UNCHANGED vars
  BY <1>5 DEF vars, Shipping, metas, seeding, build
<1> QED BY <1>1, <1>2, <1>3, <1>4, <1>5, StepKinds

\* One step of it.
LEMMA StaysDeletedStep ==
    ASSUME Shapes, Shipping, [Next]_vars
    PROVE  applied \subseteq applied' /\ \A s \in applied : shipped'[s] = shipped[s]
<1>1. CASE \E t \in Turns : CandidateStep(t)
  BY <1>1, CandidateFrame DEF metas, seeding
<1>2. CASE \E b \in Tabs : AdminAsks(b)
  BY <1>2, AskFrame DEF metas, seeding
<1>3. CASE AdminWrites
  BY <1>3, AdminFrame
<1>4. CASE BootStep
  <2>1. CASE Ship
    <3>1. PICK s \in todo : proc = "ship" /\ shipped' = [shipped EXCEPT ![s] = @ + 1]
      BY <2>1 DEF Ship
    <3>2. applied' = applied
      BY <2>1 DEF Ship, metas
    <3>3. s \notin applied
      BY <3>1 DEF Shipping
    <3> QED BY <3>1, <3>2, <3>3 DEF Shapes, TypeOK
  <2>2. CASE Mark
    BY <2>2 DEF Mark, MarkedSeeds, Shipping
  <2>3. CASE Start \/ Upgrade \/ ReadSeeds \/ BootStepFails \/ Reembed \/ Crash
    BY <2>3 DEF Start, Upgrade, ReadSeeds, BootStepFails, Reembed, Crash, metas, seeding
  <2> QED BY <1>4, <2>1, <2>2, <2>3 DEF BootStep
<1>5. CASE UNCHANGED vars
  BY <1>5 DEF vars, metas, seeding
<1> QED BY <1>1, <1>2, <1>3, <1>4, <1>5, StepKinds

\* What the marker has is neither forgotten nor shipped again, for any sequence of
\* builds, deaths of the process and deletions (skills.py:768-776).
THEOREM DeletedSeedsStay == Spec => SeedsStayDeleted
<1>1. Init => Shipping
  BY DEF Init, Shipping
<1>2. Shapes /\ Shipping /\ [Next]_vars => Shipping'
  BY ShippingStep
<1>3. Shapes /\ Shipping /\ [Next]_vars =>
        [applied \subseteq applied' /\ \A s \in applied : shipped'[s] = shipped[s]]_vars
  BY StaysDeletedStep
<1> QED BY ShapesHold, <1>1, <1>2, <1>3, PTL DEF Spec, SeedsStayDeleted

-----------------------------------------------------------------------------
(* Rejections                                                                *)

Deleting(b) == tabs[b].kind = "delete"

\* Tombstones, and those on their way, are told apart by their numbers.
Numbered ==
    /\ \A x, y \in lesson_rejections : x.uid = y.uid => x = y
    /\ \A x \in lesson_rejections : x.uid < acts
    /\ \A b \in Tabs : Deleting(b) =>
          /\ tabs[b].no < acts
          /\ \A x \in lesson_rejections : x.uid # tabs[b].no
          /\ \A d \in Tabs : Deleting(d) /\ tabs[d].no = tabs[b].no => d = b

\* Whatever bars a candidate is a tombstone of its idea; a candidate that has come past
\* the tombstones has none.
Barred(t) ==
    /\ \A u \in turns[t].bars :
          \E x \in lesson_rejections : x.uid = u /\ SameIdea(x, turns[t].text, turns[t].vec)
    /\ turns[t].pc \in {"duplicate", "vote", "suppressor", "save"} => turns[t].bars = {}

\* A request takes a number of its own.
LEMMA AskNumbered ==
    ASSUME Shapes, Numbered, NEW b \in Tabs, AdminAsks(b)
    PROVE  Numbered'
<1>1. PICK request : AskTab(b, request) /\ (request.kind = "delete" => request.no = acts)
  <2>1. CASE AskPatch(b)
    <3>1. PICK p, t, v, read :
            AskTab(b, [kind |-> "patch", id |-> p[2], uid |-> p[1], read |-> read,
                       text |-> t, vec |-> Embed(t), verified |-> v])
      BY <2>1, Zenon DEF AskPatch
    <3> QED BY <3>1
  <2>2. CASE AskDelete(b)
    <3>1. PICK r, vec, mute :
            AskTab(b, [kind |-> "delete", no |-> acts, id |-> r.id, text |-> r.text,
                       vec |-> vec, mute |-> mute])
      BY <2>2, Zenon DEF AskDelete
    <3> QED BY <3>1
  <2>3. CASE AskMute(b)
    <3>1. PICK m : AskTab(b, [kind |-> "mute", muted |-> m])
      BY <2>3, Zenon DEF AskMute
    <3> QED BY <3>1
  <2> QED BY <2>1, <2>2, <2>3 DEF AdminAsks
<1>2. acts \in Nat /\ acts' = acts + 1 /\ lesson_rejections' = lesson_rejections
  BY <1>1 DEF AskTab, tables, Shapes, TypeOK
<1>3. tabs'[b] = request /\ \A d \in Tabs \ {b} : tabs'[d] = tabs[d]
  BY <1>1 DEF AskTab, Shapes, TypeOK
<1>4. \A x \in lesson_rejections : x.uid \in Nat
  BY DEF Shapes, TypeOK, Tombstone
<1>5. \A d \in Tabs : Deleting(d) => tabs[d].no \in Nat
  BY DEF Deleting, Shapes, TypeOK, Request, Idle
<1> QED BY <1>1, <1>2, <1>3, <1>4, <1>5 DEF Numbered, Deleting

\* An answered request gives its number to its tombstone.
LEMMA AnswerNumbered ==
    ASSUME Shapes, Numbered, AdminWrites
    PROVE  Numbered'
<1>1. CASE AllowAgain
  <2>1. lesson_rejections' \subseteq lesson_rejections /\ acts' = acts + 1 /\ tabs' = tabs
    BY <1>1 DEF AllowAgain
  <2>2. acts \in Nat /\ \A x \in lesson_rejections : x.uid \in Nat
    BY DEF Shapes, TypeOK, Tombstone
  <2>3. \A d \in Tabs : Deleting(d) => tabs[d].no \in Nat
    BY DEF Deleting, Shapes, TypeOK, Request, Idle
  <2> QED BY <2>1, <2>2, <2>3 DEF Numbered, Deleting
<1>2. ASSUME NEW b \in Tabs, Patch(b) \/ SetMuted(b)
      PROVE  Numbered'
  <2>1. Answer(b) /\ lesson_rejections' = lesson_rejections /\ acts' = acts
    BY <1>2 DEF Patch, SetMuted, tables
  <2>2. tabs'[b].kind = "idle" /\ \A d \in Tabs \ {b} : tabs'[d] = tabs[d]
    BY <2>1 DEF Answer, Idle, Shapes, TypeOK
  <2> QED BY <2>1, <2>2 DEF Numbered, Deleting
<1>3. ASSUME NEW b \in Tabs, Delete(b)
      PROVE  Numbered'
  <2> DEFINE x == [uid |-> tabs[b].no, text |-> tabs[b].text, vec |-> tabs[b].vec]
  <2>1. /\ Answer(b) /\ acts' = acts /\ Deleting(b)
        /\ lesson_rejections' = lesson_rejections \cup {x}
    BY <1>3 DEF Delete, Deleting
  <2>2. tabs'[b].kind = "idle" /\ \A d \in Tabs \ {b} : tabs'[d] = tabs[d]
    BY <2>1 DEF Answer, Idle, Shapes, TypeOK
  <2>3. x.uid = tabs[b].no
    OBVIOUS
  <2> HIDE DEF x
  <2> QED BY <2>1, <2>2, <2>3 DEF Numbered, Deleting
<1> QED BY <1>1, <1>2, <1>3 DEF AdminWrites

\* A boot never numbers anything; a crash forgets the requests.
LEMMA BootNumbered ==
    ASSUME Numbered, BootStep
    PROVE  Numbered'
<1>1. /\ lesson_rejections' = lesson_rejections /\ acts' = acts
      /\ tabs' = tabs \/ tabs' = [b \in Tabs |-> Idle]
  BY DEF BootStep, Start, Upgrade, ReadSeeds, Ship, Mark, BootStepFails, Reembed, Crash, tables
<1> QED BY <1>1 DEF Numbered, Deleting, Idle

\* The numbers stay apart over every step.
LEMMA NumberedStep ==
    ASSUME Shapes, Numbered, [Next]_vars
    PROVE  Numbered'
<1>1. CASE (\E t \in Turns : CandidateStep(t)) \/ UNCHANGED vars
  <2>1. UNCHANGED <<lesson_rejections, tabs, acts>>
    BY <1>1, CandidateFrame DEF vars, tables
  <2> QED BY <2>1 DEF Numbered, Deleting
<1> QED BY <1>1, StepKinds, AskNumbered, AnswerNumbered, BootNumbered

\* What bars a candidate also stands in the way of it.
LEMMA SameIdeaIsSimilar ==
    ASSUME Shapes, NEW t \in Turns, NEW x \in lesson_rejections, Active(t),
           SameIdea(x, turns[t].text, turns[t].vec)
    PROVE  Similar(x, turns[t])
<1>1. turns[t].text \in Texts
  BY DEF Shapes, Filled
<1>2. IdeaOf[turns[t].text] # None
  BY <1>1, ConstantsAssumption DEF Ideas
<1> QED BY <1>2 DEF SameIdea, Similar, TextArm, VectorArm, OneIdea

\* A candidate's own step.
LEMMA CandidateBars ==
    ASSUME Shapes, NEW t \in Turns, CandidateStep(t), \A u \in Turns : Barred(u)
    PROVE  \A u \in Turns : Barred(u)'
<1>1. lesson_rejections' = lesson_rejections
  BY CandidateFrame
<1>2. Done.pc = "done" /\ Done.bars = {}
  BY DEF Done, Unasked
<1>3. CASE Critic(t) \/ Distiller(t)
  <2>1. PICK source, text, q, c : Propose(t, source, text, q, c)
    BY <1>3, Zenon DEF Critic, Distiller
  <2> DEFINE bars == {x.uid : x \in {y \in lesson_rejections : SameIdea(y, text, Embed(text))}}
  <2>2. /\ turns'[t].pc \in {"gate", "tombstone"} /\ turns'[t].bars = bars
        /\ turns'[t].text = text /\ turns'[t].vec = Embed(text)
        /\ \A u \in Turns \ {t} : turns'[u] = turns[u]
    <3> HIDE DEF bars
    <3>1. turns' = [turns EXCEPT ![t] =
            [pc |-> IF source = "critic" THEN "gate" ELSE "tombstone", source |-> source,
             text |-> text, vec |-> Embed(text), ques |-> q, cat |-> PassedCategory(c),
             dup |-> 0, bars |-> bars]]
      BY <2>1 DEF Propose, bars
    <3> QED BY <3>1 DEF Shapes, TypeOK
  <2>3. \A u \in bars : \E x \in lesson_rejections :
           x.uid = u /\ SameIdea(x, text, Embed(text))
    OBVIOUS
  <2> HIDE DEF bars
  <2> QED BY <1>1, <2>2, <2>3 DEF Barred
<1>4. CASE CheckTombstone(t)
  <2>1. turns[t].pc = "tombstone" /\ Active(t)
    BY <1>4 DEF CheckTombstone, Step, Active
  <2>2. CASE \E x \in lesson_rejections : Similar(x, turns[t])
    <3>1. turns' = [turns EXCEPT ![t] = Done]
      BY <1>4, <2>2 DEF CheckTombstone, Step, To
    <3> QED BY <1>1, <1>2, <3>1 DEF Barred, Shapes, TypeOK
  <2>3. CASE ~\E x \in lesson_rejections : Similar(x, turns[t])
    <3>1. turns' = [turns EXCEPT ![t] = [@ EXCEPT !.pc = "duplicate"]]
      BY <1>4, <2>3 DEF CheckTombstone, Step, To
    <3>2. turns[t].bars = {}
      BY <2>1, <2>3, SameIdeaIsSimilar DEF Barred
    <3>3. turns'[t].bars = {} /\ \A u \in Turns \ {t} : turns'[u] = turns[u]
      BY <3>1, <3>2 DEF Shapes, TypeOK, Candidate
    <3> QED BY <1>1, <3>3 DEF Barred
  <2> QED BY <2>2, <2>3
<1>5. CASE Gate(t) \/ FindDuplicate(t) \/ Vote(t) \/ FindSuppressor(t) \/ SaveSkill(t) \/ Fails(t)
  <2>1. \/ turns' = [turns EXCEPT ![t] = Done]
        \/ turns[t].pc = "gate" /\ turns' = [turns EXCEPT ![t] = [@ EXCEPT !.pc = "tombstone"]]
        \/ /\ turns[t].pc \in {"duplicate", "suppressor"}
           /\ \E l, r : \/ turns' = [turns EXCEPT ![t] = [@ EXCEPT !.pc = l]]
                        \/ turns' = [turns EXCEPT ![t].pc = l, ![t].dup = r]
    BY <1>5 DEF Gate, FindDuplicate, Vote, FindSuppressor, SaveSkill, Fails, Step, To
  <2>2. CASE turns' = [turns EXCEPT ![t] = Done]
    BY <1>1, <1>2, <2>2 DEF Barred, Shapes, TypeOK
  <2>3. CASE /\ turns[t].pc = "gate"
             /\ turns' = [turns EXCEPT ![t] = [@ EXCEPT !.pc = "tombstone"]]
    <3>1. /\ turns'[t].pc = "tombstone" /\ turns'[t].bars = turns[t].bars
          /\ turns'[t].text = turns[t].text /\ turns'[t].vec = turns[t].vec
          /\ \A u \in Turns \ {t} : turns'[u] = turns[u]
      BY <2>3 DEF Shapes, TypeOK, Candidate
    <3> QED BY <1>1, <3>1 DEF Barred
  <2>4. CASE /\ turns[t].pc \in {"duplicate", "suppressor"}
             /\ \E l, r : \/ turns' = [turns EXCEPT ![t] = [@ EXCEPT !.pc = l]]
                          \/ turns' = [turns EXCEPT ![t].pc = l, ![t].dup = r]
    <3>1. turns[t].bars = {}
      BY <2>4 DEF Barred
    <3>2. turns'[t].bars = turns[t].bars /\ \A u \in Turns \ {t} : turns'[u] = turns[u]
      BY <2>4 DEF Shapes, TypeOK, Candidate
    <3> QED BY <1>1, <3>1, <3>2 DEF Barred
  <2> QED BY <2>1, <2>2, <2>3, <2>4
<1> QED BY <1>3, <1>4, <1>5 DEF CandidateStep

\* An administrator's: a rejection leaves the older ones there, and what is allowed again
\* no longer bars.
LEMMA AdminBars ==
    ASSUME Shapes, Numbered, AdminWrites, \A u \in Turns : Barred(u)
    PROVE  \A u \in Turns : Barred(u)'
<1>1. ASSUME Follow(lesson_rejections'),
             \/ lesson_rejections \subseteq lesson_rejections'
             \/ lesson_rejections' \subseteq lesson_rejections
      PROVE  \A u \in Turns : Barred(u)'
  <2>1. SUFFICES ASSUME NEW t \in Turns PROVE Barred(t)'
    OBVIOUS
  <2>2. /\ turns'[t].bars \subseteq turns[t].bars
        /\ turns'[t].bars \subseteq {x.uid : x \in lesson_rejections'}
        /\ turns'[t].pc = turns[t].pc /\ turns'[t].vec = turns[t].vec
        /\ turns'[t].text = turns[t].text
    BY <1>1, FollowType
  <2>3. ASSUME NEW u \in turns'[t].bars
        PROVE  \E x \in lesson_rejections' :
                  x.uid = u /\ SameIdea(x, turns[t].text, turns[t].vec)
    <3>1. PICK x \in lesson_rejections :
             x.uid = u /\ SameIdea(x, turns[t].text, turns[t].vec)
      BY <2>2 DEF Barred
    <3>2. PICK y \in lesson_rejections' : y.uid = u
      BY <2>2
    <3> QED BY <1>1, <3>1, <3>2 DEF Numbered
  <2> QED BY <2>2, <2>3 DEF Barred
<1>2. CASE AllowAgain
  BY <1>1, <1>2 DEF AllowAgain
<1>3. ASSUME NEW b \in Tabs, Patch(b) \/ Delete(b) \/ SetMuted(b)
      PROVE  \A u \in Turns : Barred(u)'
  <2>1. CASE Patch(b)
    BY <2>1 DEF Patch, Barred
  <2>2. CASE Delete(b)
    BY <1>1, <2>2 DEF Delete
  <2>3. CASE SetMuted(b)
    BY <2>3 DEF SetMuted, Barred, tables
  <2> QED BY <1>3, <2>1, <2>2, <2>3
<1> QED BY <1>2, <1>3 DEF AdminWrites

\* A boot's.
LEMMA BootBars ==
    ASSUME BootStep, \A u \in Turns : Barred(u)
    PROVE  \A u \in Turns : Barred(u)'
<1>1. CASE Crash
  <2>1. /\ lesson_rejections' = lesson_rejections
        /\ \A u \in Turns : turns'[u] = Done \/ turns'[u] = turns[u]
    BY <1>1 DEF Crash, tables
  <2>2. Done.pc = "done" /\ Done.bars = {}
    BY DEF Done, Unasked
  <2> QED BY <2>1, <2>2 DEF Barred
<1>2. CASE ~Crash
  <2>1. UNCHANGED <<lesson_rejections, turns>>
    BY <1>2 DEF BootStep, Start, Upgrade, ReadSeeds, Ship, Mark, BootStepFails, Reembed, tables
  <2> QED BY <2>1 DEF Barred
<1> QED BY <1>1, <1>2

-----------------------------------------------------------------------------
(* What may become of a row                                                  *)

\* n is r after a step; p is the pair that the tab of an approval without an edit holds.
Descends(n, r) ==
    /\ n.id = r.id /\ n.uid = r.uid /\ n.source = r.source /\ n.ques = r.ques
    /\ r.vec # None => n.vec # None
    /\ n.text = None => r.text = None
    /\ n.bare = r.bare
    /\ n.unread => r.unread \/ r.text = None
    /\ n.barred => r.barred
    /\ n.verified /\ ~n.seen => \/ r.verified /\ ~r.seen
                                \/ \E b \in Tabs : /\ tabs[b].kind = "patch"
                                                   /\ tabs[b].id = r.id /\ tabs[b].uid # r.uid

\* A row may go unless it is a seed that the marker misses.
MayGo(r) == torn' \/ r.source # "seed" \/ r.ques \in applied

\* Every row after the step is one older row's descendant.
Descend ==
    /\ shown' = shown
    /\ \E f : /\ skills' \subseteq {f[r] : r \in skills}
              /\ \A r \in skills : Descends(f[r], r) /\ (f[r] \in skills' \/ MayGo(r))

\* Nothing changes, or rows go.
LEMMA StayDescend ==
    ASSUME skills' \subseteq skills, shown' = shown, \A r \in skills \ skills' : MayGo(r)
    PROVE  Descend
<1> DEFINE f == [r \in skills |-> r]
<1>1. /\ skills' \subseteq {f[r] : r \in skills}
      /\ \A r \in skills : Descends(f[r], r) /\ (f[r] \in skills' \/ MayGo(r))
  BY DEF Descends
<1> QED BY <1>1 DEF Descend

Newborn(row) ==
    /\ row \in Lesson /\ Save(row)
    /\ \A r \in skills : r.id < row.id
    /\ \A p \in shown : p[1] < row.uid
    /\ row.verified => row.source = "seed"
    /\ row.text # None /\ ~row.unread
    /\ ~row.barred

\* A candidate's step.
LEMMA CandidateRows ==
    ASSUME Shapes, NEW t \in Turns, CandidateStep(t), Barred(t)
    PROVE  Descend \/ \E row : Newborn(row)
<1>1. CASE Vote(t)
  <2> DEFINE c == turns[t]
             Voted(r) == [r EXCEPT !.text = IF Ruleless(r, c) THEN c.text ELSE @,
                                   !.unread = @ \/ Ruleless(r, c),
                                   !.cat = IF @ = None THEN c.cat ELSE @,
                                   !.barred = @ \/ c.bars # {}]
  <2>1. skills' = {IF r.id = c.dup THEN Voted(r) ELSE r : r \in skills} /\ shown' = shown
    BY <1>1 DEF Vote, SetLesson
  <2>2. c.bars = {} /\ c.text \in Texts /\ c.text # None
    BY <1>1, ConstantsAssumption DEF Vote, Barred, Shapes, Filled, Active
  <2>3. \A r \in skills : Descends(r, r) /\ Descends(Voted(r), r)
    <3>1. TAKE r \in skills
    <3>2. r \in Lesson
      BY DEF Shapes, TypeOK
    <3>3. /\ Voted(r).id = r.id /\ Voted(r).uid = r.uid /\ Voted(r).source = r.source
          /\ Voted(r).ques = r.ques /\ Voted(r).vec = r.vec /\ Voted(r).bare = r.bare
          /\ Voted(r).verified = r.verified /\ Voted(r).seen = r.seen
          /\ Voted(r).barred = (r.barred \/ c.bars # {})
          /\ Voted(r).text = IF Ruleless(r, c) THEN c.text ELSE r.text
          /\ Voted(r).unread = (r.unread \/ Ruleless(r, c))
      <4> HIDE DEF c
      <4> QED BY <3>2 DEF Lesson
    <3> HIDE DEF Voted
    <3> QED BY <2>2, <3>3 DEF Descends, Ruleless
  <2> DEFINE f == [r \in skills |-> IF r.id = c.dup THEN Voted(r) ELSE r]
  <2> HIDE DEF Voted
  <2>4. skills' = {f[r] : r \in skills} /\ \A r \in skills : Descends(f[r], r)
    BY <2>1, <2>3
  <2> QED BY <2>1, <2>4 DEF Descend
<1>2. CASE SaveSkill(t)
  <2> DEFINE c   == turns[t]
             row == NewLesson(c.text, c.ques, c.source, c.cat, c.bars)
  <2>1. /\ row \in Lesson /\ row.text \in Texts
        /\ (\A r \in skills : r.id < row.id) /\ \A p \in shown : p[1] < row.uid
    BY <1>2, SavedRow
  <2>3. c.bars = {}
    BY <1>2 DEF SaveSkill, Barred
  <2>4. /\ Save(row) /\ ~row.unread /\ ~row.barred
        /\ row.verified => row.source = "seed"
    BY <1>2, <2>3 DEF SaveSkill, NewLesson, IsLive
  <2> HIDE DEF row
  <2>5. Newborn(row)
    BY <2>1, <2>4, ConstantsAssumption DEF Newborn
  <2> QED BY <2>5
<1>3. CASE ~Vote(t) /\ ~SaveSkill(t)
  <2>1. skills' = skills /\ shown' = shown
    BY <1>3 DEF CandidateStep, Critic, Distiller, Propose, Gate, CheckTombstone, FindDuplicate,
                FindSuppressor, Fails, Step, tables
  <2> QED BY <2>1, StayDescend
<1> QED BY <1>1, <1>2, <1>3

\* An administrator's.
LEMMA AdminRows ==
    ASSUME Shapes, AdminWrites
    PROVE  Descend
<1>1. ASSUME NEW b \in Tabs, Patch(b)
      PROVE  Descend
  <2> DEFINE c == tabs[b]
             Patched(r) == [r EXCEPT
                 !.text = IF c.text = None THEN @ ELSE c.text,
                 !.vec = IF c.text = None THEN @ ELSE PatchedVector(r, c),
                 !.verified = IF c.verified = None THEN @ ELSE c.verified,
                 !.seen = @ \/ c.text # None \/ r.uid = c.uid,
                 !.unread = @ /\ c.text = None /\ ~(r.uid = c.uid /\ c.read)]
  <2>1. skills' = {IF r.id = c.id THEN Patched(r) ELSE r : r \in skills} /\ shown' = shown
    BY <1>1 DEF Patch, SetLesson
  <2>2. c.kind = "patch"
    BY <1>1 DEF Patch
  <2>3. \A r \in skills : r.id = c.id => Descends(Patched(r), r)
    <3>1. SUFFICES ASSUME NEW r \in skills, r.id = c.id PROVE Descends(Patched(r), r)
      OBVIOUS
    <3>2. r \in Lesson
      BY DEF Shapes, TypeOK
    <3> DEFINE vec  == IF c.text = None THEN r.vec ELSE PatchedVector(r, c)
               seen == r.seen \/ c.text # None \/ r.uid = c.uid
               ver  == IF c.verified = None THEN r.verified ELSE c.verified
               text == IF c.text = None THEN r.text ELSE c.text
               unr  == r.unread /\ c.text = None /\ ~(r.uid = c.uid /\ c.read)
    <3>3. r.vec # None => vec # None
      BY DEF PatchedVector
    <3>4. ver /\ ~seen => ~r.seen /\ r.uid # c.uid
      OBVIOUS
    <3>5. Patched(r) = [r EXCEPT !.text = text, !.vec = vec, !.verified = ver, !.seen = seen,
                                 !.unread = unr]
      BY Zenon
    <3>7. (text = None => r.text = None) /\ (unr => r.unread)
      OBVIOUS
    <3> HIDE DEF vec, seen, ver, text, unr, Patched
    <3>6. /\ Patched(r).id = r.id /\ Patched(r).uid = r.uid /\ Patched(r).source = r.source
          /\ Patched(r).ques = r.ques /\ Patched(r).vec = vec /\ Patched(r).barred = r.barred
          /\ Patched(r).verified = ver /\ Patched(r).seen = seen
          /\ Patched(r).text = text /\ Patched(r).unread = unr /\ Patched(r).bare = r.bare
      BY <3>2, <3>5 DEF Lesson
    <3> QED BY <2>2, <3>1, <3>3, <3>4, <3>6, <3>7 DEF Descends
  <2> DEFINE f == [r \in skills |-> IF r.id = c.id THEN Patched(r) ELSE r]
  <2> HIDE DEF Patched
  <2>4. \A r \in skills : Descends(r, r)
    BY DEF Descends
  <2>5. skills' = {f[r] : r \in skills} /\ \A r \in skills : Descends(f[r], r)
    BY <2>1, <2>3, <2>4
  <2> QED BY <2>1, <2>5 DEF Descend
<1>2. CASE AllowAgain \/ \E b \in Tabs : Delete(b) \/ SetMuted(b)
  <2>1. skills' \subseteq skills /\ shown' = shown
    BY <1>2, AdminFrame DEF AdminWrites, AllowAgain, Delete, SetMuted, tables
  <2>2. \A r \in skills \ skills' : MayGo(r)
    BY <1>2 DEF AllowAgain, Delete, SetMuted, tables, MayGo
  <2> QED BY <2>1, <2>2, StayDescend
<1> QED BY <1>1, <1>2 DEF AdminWrites

\* A boot's.
LEMMA BootRows ==
    ASSUME Shapes, BootStep
    PROVE  Descend \/ \E row : Newborn(row)
<1>1. CASE Upgrade
  <2> DEFINE Old(r) == {s \in release \cap DOMAIN FirstText :
                            r.source = "seed" /\ r.text = FirstText[s]}
             New(r) == IF Old(r) = {} THEN r
                       ELSE [r EXCEPT !.text = CHOOSE s \in Old(r) : TRUE]
  <2>1. skills' = {New(r) : r \in skills} /\ shown' = shown
    BY <1>1 DEF Upgrade
  <2>2. \A r \in skills : Descends(New(r), r)
    <3>1. \A r \in skills : r \in Lesson
      BY DEF Shapes, TypeOK
    <3>2. \A r \in skills : Old(r) # {} => (CHOOSE s \in Old(r) : TRUE) # None
      <4> SUFFICES ASSUME NEW r \in skills, Old(r) # {}
                   PROVE  (CHOOSE s \in Old(r) : TRUE) # None
        OBVIOUS
      <4>1. (CHOOSE s \in Old(r) : TRUE) \in Old(r)
        BY Zenon
      <4>2. Old(r) \subseteq Texts
        BY ConstantsAssumption
      <4> HIDE DEF Old
      <4> QED BY <4>1, <4>2, ConstantsAssumption
    <3> HIDE DEF Old
    <3> QED BY <3>1, <3>2 DEF Descends, Lesson
  <2> DEFINE f == [r \in skills |-> New(r)]
  <2> HIDE DEF New
  <2>3. skills' = {f[r] : r \in skills} /\ \A r \in skills : Descends(f[r], r)
    BY <2>1, <2>2
  <2> QED BY <2>1, <2>3 DEF Descend
<1>2. CASE Reembed
  <2>1. CASE skills' = {IF r.text = None THEN r ELSE [r EXCEPT !.vec = IdeaOf[r.text]] :
                        r \in skills}
    <3> DEFINE New(r) == IF r.text = None THEN r ELSE [r EXCEPT !.vec = IdeaOf[r.text]]
    <3>1. \A r \in skills : r \in Lesson /\ (r.text # None => IdeaOf[r.text] # None)
      BY ConstantsAssumption DEF Shapes, TypeOK, Lesson, Ideas
    <3>2. \A r \in skills : Descends(New(r), r)
      BY <3>1 DEF Descends, Lesson
    <3>5. skills' = {New(r) : r \in skills}
      BY <2>1
    <3> HIDE DEF New
    <3> DEFINE f == [r \in skills |-> New(r)]
    <3>3. skills' = {f[r] : r \in skills} /\ \A r \in skills : Descends(f[r], r)
      BY <3>2, <3>5
    <3>4. shown' = shown
      BY <1>2 DEF Reembed
    <3> QED BY <3>3, <3>4 DEF Descend
  <2>2. CASE skills' = skills
    BY <1>2, <2>2, StayDescend DEF Reembed
  <2> QED BY <1>2, <2>1, <2>2 DEF Reembed
<1>3. CASE Ship
  <2>1. PICK s \in todo : Save(NewLesson(s, s, "seed", None, {}))
    BY <1>3 DEF Ship
  <2> DEFINE row == NewLesson(s, s, "seed", None, {})
  <2>2. s \in Seeds /\ s \in Texts /\ "seed" \in Sources
    BY ConstantsAssumption DEF Shapes, TypeOK, Sources
  <2>3. /\ row \in Lesson /\ (\A r \in skills : r.id < row.id) /\ (\A p \in shown : p[1] < row.uid)
    BY <2>2, NewLessonType
  <2>4. /\ Save(row) /\ row.source = "seed" /\ ~row.barred /\ ~row.unread
        /\ row.text # None
    BY <2>1, <2>2, ConstantsAssumption DEF NewLesson
  <2> HIDE DEF row
  <2>5. Newborn(row)
    BY <2>3, <2>4 DEF Newborn
  <2> QED BY <2>5
<1>4. CASE Start \/ ReadSeeds \/ Mark \/ BootStepFails \/ Crash
  <2>1. skills' = skills /\ shown' = shown
    BY <1>4 DEF Start, ReadSeeds, Mark, BootStepFails, Crash, tables
  <2> QED BY <2>1, StayDescend
<1> QED BY <1>1, <1>2, <1>3, <1>4 DEF BootStep

\* Every row after a step is an older one, or the one that was saved.
LEMMA RowStep ==
    ASSUME Shapes, \A t \in Turns : Barred(t), [Next]_vars
    PROVE  Descend \/ \E row : Newborn(row)
<1>1. CASE \E t \in Turns : CandidateStep(t)
  BY <1>1, CandidateRows
<1>2. CASE (\E b \in Tabs : AdminAsks(b)) \/ UNCHANGED vars
  <2>1. skills' = skills /\ shown' = shown
    BY <1>2, AskFrame DEF vars, tables
  <2> QED BY <2>1, StayDescend
<1>3. CASE AdminWrites
  BY <1>3, AdminRows
<1>4. CASE BootStep
  BY <1>4, BootRows
<1> QED BY <1>1, <1>2, <1>3, <1>4, StepKinds

-----------------------------------------------------------------------------
(* What rejected, approved and live lessons can rely on                      *)

Rejecting == Numbered /\ (\A t \in Turns : Barred(t)) /\ RejectedStaysOut

\* Rejecting is inductive.
LEMMA RejectingHolds == Spec => []Rejecting
<1>1. Init => Rejecting
  BY OldTablesAssumption
     DEF Init, Rejecting, Numbered, Deleting, Idle, Barred, Unasked, RejectedStaysOut
<1>2. ASSUME Shapes, Rejecting, [Next]_vars PROVE Rejecting'
  <2>1. Numbered'
    BY <1>2, NumberedStep DEF Rejecting
  <2>2. \A t \in Turns : Barred(t)'
    <3>1. CASE (\E b \in Tabs : AdminAsks(b)) \/ UNCHANGED vars
      <4>1. UNCHANGED <<lesson_rejections, turns>>
        BY <3>1, AskFrame DEF vars, tables
      <4> QED BY <1>2, <4>1 DEF Barred, Rejecting
    <3> QED BY <1>2, <3>1, StepKinds, CandidateBars, AdminBars, BootBars DEF Rejecting
  <2>3. RejectedStaysOut'
    BY <1>2, RowStep DEF Rejecting, RejectedStaysOut, Descend, Descends, Newborn, Save
  <2> QED BY <2>1, <2>2, <2>3 DEF Rejecting
<1>3. Shapes /\ Rejecting /\ [Next]_vars => Rejecting'
  BY <1>2
<1> QED BY ShapesHold, <1>1, <1>3, PTL DEF Spec

\* What was rejected from before it was proposed until it would be saved is neither saved
\* nor raised in the queue, whatever interleaves (skills.py:324-364, 409-437).
THEOREM RejectionHolds == Spec => []RejectedStaysOut
<1>1. Rejecting => RejectedStaysOut
  BY DEF Rejecting
<1> QED BY RejectingHolds, <1>1, PTL

\* Lessons are told apart by uid; of those that had an id, a row is the last; tabs ask for
\* lessons that once had the id they ask for.
Identified ==
    /\ \A r, n \in skills : r.uid = n.uid => r = n
    /\ \A r \in skills : <<r.uid, r.id>> \in shown
    /\ \A r \in skills, p \in shown : p[2] = r.id => p[1] <= r.uid
    /\ \A b \in Tabs : tabs[b].kind = "patch" => <<tabs[b].uid, tabs[b].id>> \in shown

\* Identified holds initially.
LEMMA InitIdentified == Init => Identified
<1> SUFFICES ASSUME Init PROVE Identified
  OBVIOUS
<1>1. \A r \in skills : r.uid = r.id /\ r.id \in Nat
  BY OldTablesAssumption DEF Lesson, Init
<1>2. shown = {<<r.uid, r.id>> : r \in skills}
  BY DEF Init
<1>3. ASSUME NEW p \in shown PROVE p[1] = p[2]
  <2>1. PICK r \in skills : p = <<r.uid, r.id>>
    BY <1>2
  <2> QED BY <1>1, <2>1
<1>4. \A b \in Tabs : tabs[b].kind = "idle"
  BY DEF Init, Idle
<1>5. \A r, n \in skills : r.uid = n.uid => r = n
  BY <1>1, OldTablesAssumption DEF Init
<1>6. \A r \in skills, p \in shown : p[2] = r.id => p[1] <= r.uid
  BY <1>1, <1>2, <1>3
<1> QED BY <1>2, <1>4, <1>5, <1>6 DEF Identified

\* A tab asks for what a list has shown, and lists only get longer.
LEMMA TabsStep ==
    ASSUME Shapes, Identified, \A t \in Turns : Barred(t), [Next]_vars
    PROVE  \A b \in Tabs : tabs'[b].kind = "patch" => <<tabs'[b].uid, tabs'[b].id>> \in shown'
<1>1. shown \subseteq shown'
  BY RowStep DEF Descend, Newborn, Save
<1>2. CASE \A b \in Tabs : tabs'[b] = tabs[b] \/ tabs'[b].kind = "idle"
  BY <1>1, <1>2 DEF Identified
<1>3. CASE (\E t \in Turns : CandidateStep(t)) \/ UNCHANGED vars
  BY <1>2, <1>3, CandidateFrame DEF vars
<1>4. CASE AdminWrites
  <2>1. CASE AllowAgain
    BY <1>2, <2>1 DEF AllowAgain
  <2>2. ASSUME NEW b \in Tabs, Answer(b)
        PROVE  \A d \in Tabs : tabs'[d] = tabs[d] \/ tabs'[d].kind = "idle"
    BY <2>2 DEF Answer, Idle, Shapes, TypeOK
  <2>3. AllowAgain \/ \E b \in Tabs : Answer(b)
    BY <1>4 DEF AdminWrites, Patch, Delete, SetMuted
  <2> QED BY <1>2, <2>1, <2>2, <2>3
<1>5. CASE BootStep
  <2>1. tabs' = tabs \/ tabs' = [b \in Tabs |-> Idle]
    BY <1>5 DEF BootStep, Start, Upgrade, ReadSeeds, Ship, Mark, BootStepFails, Reembed, Crash
  <2> QED BY <1>2, <2>1 DEF Idle
<1>6. ASSUME NEW b \in Tabs, AdminAsks(b)
      PROVE  \A d \in Tabs : tabs'[d].kind = "patch" => <<tabs'[d].uid, tabs'[d].id>> \in shown'
  <2>1. PICK request : /\ AskTab(b, request)
                       /\ request.kind = "patch" => <<request.uid, request.id>> \in shown
    <3>1. CASE AskPatch(b)
      <4>1. PICK p, t, v, read :
              /\ p \in shown
              /\ AskTab(b, [kind |-> "patch", id |-> p[2], uid |-> p[1], read |-> read,
                            text |-> t, vec |-> Embed(t), verified |-> v])
        BY <3>1, Zenon DEF AskPatch
      <4>2. p = <<p[1], p[2]>>
        BY <4>1 DEF Shapes, TypeOK
      <4> QED BY <4>1, <4>2
    <3>2. CASE AskDelete(b)
      <4>1. PICK r, vec, mute :
              AskTab(b, [kind |-> "delete", no |-> acts, id |-> r.id, text |-> r.text,
                         vec |-> vec, mute |-> mute])
        BY <3>2, Zenon DEF AskDelete
      <4> QED BY <4>1
    <3>3. CASE AskMute(b)
      <4>1. PICK m : AskTab(b, [kind |-> "mute", muted |-> m])
        BY <3>3, Zenon DEF AskMute
      <4> QED BY <4>1
    <3> QED BY <1>6, <3>1, <3>2, <3>3 DEF AdminAsks
  <2>2. tabs'[b] = request /\ \A d \in Tabs \ {b} : tabs'[d] = tabs[d]
    BY <2>1 DEF AskTab, Shapes, TypeOK
  <2> QED BY <1>1, <2>1, <2>2 DEF Identified
<1> QED BY <1>3, <1>4, <1>5, <1>6, StepKinds

\* Rows keep their uid and id, and a new one's are new.
LEMMA RowsIdentified ==
    ASSUME Shapes, Identified, \A t \in Turns : Barred(t), [Next]_vars
    PROVE  /\ \A r \in skills' : <<r.uid, r.id>> \in shown'
           /\ \A r \in skills', p \in shown' : p[2] = r.id => p[1] <= r.uid
<1>1. CASE Descend
  BY <1>1 DEF Descend, Descends, Identified
<1>2. ASSUME NEW row, Newborn(row)
      PROVE  /\ \A r \in skills' : <<r.uid, r.id>> \in shown'
             /\ \A r \in skills', p \in shown' : p[2] = r.id => p[1] <= r.uid
  <2>1. skills' = skills \cup {row} /\ shown' = shown \cup {<<row.uid, row.id>>}
    BY <1>2 DEF Newborn, Save
  <2>2. \A r \in skills \cup {row} : r.id \in Nat /\ r.uid \in Nat
    BY <1>2 DEF Newborn, Shapes, TypeOK, Lesson
  <2>3. \A p \in shown : p[1] \in Nat /\ p[1] < row.uid
    BY <1>2 DEF Newborn, Shapes, TypeOK
  <2>4. \A r \in skills : r.id < row.id
    BY <1>2 DEF Newborn
  <2>5. \A r \in skills' : <<r.uid, r.id>> \in shown'
    BY <2>1 DEF Identified
  <2>6. \A r \in skills, p \in shown' : p[2] = r.id => p[1] <= r.uid
    BY <2>1, <2>2, <2>4 DEF Identified
  <2>7. \A p \in shown' : p[1] <= row.uid
    BY <2>1, <2>2, <2>3
  <2> QED BY <2>1, <2>5, <2>6, <2>7
<1> QED BY <1>1, <1>2, RowStep

\* No two rows come to have one uid.
LEMMA UidsStep ==
    ASSUME Shapes, Identified, \A t \in Turns : Barred(t), [Next]_vars
    PROVE  \A r, n \in skills' : r.uid = n.uid => r = n
<1>1. CASE Descend
  <2>1. PICK f : /\ skills' \subseteq {f[r] : r \in skills}
                 /\ \A r \in skills : f[r].uid = r.uid
    BY <1>1 DEF Descend, Descends
  <2> QED BY <2>1 DEF Identified
<1>2. ASSUME NEW row, Newborn(row)
      PROVE  \A r, n \in skills' : r.uid = n.uid => r = n
  <2>1. skills' = skills \cup {row}
    BY <1>2 DEF Newborn, Save
  <2>2. \A r \in skills : r.uid \in Nat /\ r.uid < row.uid
    <3> SUFFICES ASSUME NEW r \in skills PROVE r.uid \in Nat /\ r.uid < row.uid
      OBVIOUS
    <3>1. <<r.uid, r.id>> \in shown
      BY DEF Identified
    <3>2. \A p \in shown : p[1] < row.uid
      BY <1>2 DEF Newborn
    <3> QED BY <3>1, <3>2 DEF Shapes, TypeOK, Lesson
  <2>3. row.uid \in Nat
    BY <1>2 DEF Newborn, Lesson
  <2> QED BY <2>1, <2>2, <2>3 DEF Identified
<1> QED BY <1>1, <1>2, RowStep

\* Only what came without a rule is without one, or has one from a vote.
Bare == \A r \in skills : r.text = None \/ r.unread => r.bare

\* No step takes a rule away, and none but an administrator replaces one.
LEMMA BareStep ==
    ASSUME Shapes, \A t \in Turns : Barred(t), Bare, [Next]_vars
    PROVE  Bare'
<1>1. CASE Descend
  <2>1. PICK f : /\ skills' \subseteq {f[r] : r \in skills}
                 /\ \A r \in skills : /\ f[r].bare = r.bare
                                      /\ f[r].text = None => r.text = None
                                      /\ f[r].unread => r.unread \/ r.text = None
    BY <1>1 DEF Descend, Descends
  <2> QED BY <2>1 DEF Bare
<1>2. ASSUME NEW row, Newborn(row)
      PROVE  Bare'
  BY <1>2 DEF Newborn, Save, Bare
<1> QED BY <1>1, <1>2, RowStep

\* A step that approves a lesson is by an administrator to whom it was shown.
LEMMA SeenStep ==
    ASSUME Shapes, Identified, Bare', \A t \in Turns : Barred(t), GuidanceWasSeen, [Next]_vars
    PROVE  GuidanceWasSeen'
<1> SUFFICES ASSUME NEW n \in skills', n.verified, n.source # "seed", ~n.seen
             PROVE  \E p \in shown' : p[2] = n.id /\ p[1] < n.uid
  BY DEF GuidanceWasSeen, Bare
<1>1. ASSUME NEW r \in skills, Descends(n, r), shown' = shown
      PROVE  \E p \in shown' : p[2] = n.id /\ p[1] < n.uid
  <2>1. n.id = r.id /\ n.uid = r.uid /\ n.source = r.source
    BY <1>1 DEF Descends
  <2>2. CASE r.verified /\ ~r.seen
    BY <1>1, <2>1, <2>2 DEF GuidanceWasSeen
  <2>3. CASE \E b \in Tabs : tabs[b].kind = "patch" /\ tabs[b].id = r.id /\ tabs[b].uid # r.uid
    <3>1. PICK b \in Tabs : tabs[b].kind = "patch" /\ tabs[b].id = r.id /\ tabs[b].uid # r.uid
      BY <2>3
    <3>2. <<tabs[b].uid, tabs[b].id>> \in shown
      BY <3>1 DEF Identified
    <3>3. tabs[b].uid <= r.uid /\ tabs[b].uid \in Nat /\ r.uid \in Nat
      BY <3>1, <3>2 DEF Identified, Shapes, TypeOK, Lesson
    <3>4. tabs[b].uid < r.uid
      BY <3>1, <3>3
    <3> QED BY <1>1, <2>1, <3>1, <3>2, <3>4
  <2> QED BY <1>1, <2>2, <2>3 DEF Descends
<1>2. CASE Descend
  BY <1>1, <1>2 DEF Descend
<1>3. ASSUME NEW row, Newborn(row)
      PROVE  \E p \in shown' : p[2] = n.id /\ p[1] < n.uid
  BY <1>3 DEF Newborn, Save, GuidanceWasSeen
<1> QED BY <1>2, <1>3, RowStep

\* Nor does a step take a vector away.
LEMMA KeptStep ==
    ASSUME Shapes, Identified, \A t \in Turns : Barred(t), [Next]_vars
    PROVE  \A r \in skills, n \in skills' : r.uid = n.uid /\ r.vec # None => n.vec # None
<1>1. CASE Descend
  <2>1. PICK f : /\ skills' \subseteq {f[r] : r \in skills}
                 /\ \A r \in skills : f[r].uid = r.uid /\ (r.vec # None => f[r].vec # None)
    BY <1>1 DEF Descend, Descends
  <2> QED BY <2>1 DEF Identified
<1>2. ASSUME NEW row, Newborn(row)
      PROVE  \A r \in skills, n \in skills' : r.uid = n.uid /\ r.vec # None => n.vec # None
  <2>1. skills' = skills \cup {row}
    BY <1>2 DEF Newborn, Save
  <2>2. \A r \in skills : r.uid \in Nat /\ r.uid < row.uid
    <3> SUFFICES ASSUME NEW r \in skills PROVE r.uid \in Nat /\ r.uid < row.uid
      OBVIOUS
    <3>1. <<r.uid, r.id>> \in shown
      BY DEF Identified
    <3>2. \A p \in shown : p[1] < row.uid
      BY <1>2 DEF Newborn
    <3> QED BY <3>1, <3>2 DEF Shapes, TypeOK, Lesson
  <2>3. row.uid \in Nat
    BY <1>2 DEF Newborn, Lesson
  <2> QED BY <2>1, <2>2, <2>3 DEF Identified
<1> QED BY <1>1, <1>2, RowStep

Approving == Identified /\ Bare /\ GuidanceWasSeen

\* Approving is inductive.
LEMMA ApprovingHolds == Spec => []Approving
<1>1. Init => Approving
  <2>1. Init => GuidanceWasSeen /\ Bare
    BY OldTablesAssumption DEF Init, GuidanceWasSeen, Bare
  <2> QED BY <2>1, InitIdentified DEF Approving
<1>2. ASSUME Shapes, Rejecting, Approving, [Next]_vars PROVE Approving'
  <2>1. Identified'
    <3>1. Identified /\ \A t \in Turns : Barred(t)
      BY <1>2 DEF Approving, Rejecting
    <3> QED BY <1>2, <3>1, UidsStep, RowsIdentified, TabsStep DEF Identified
  <2>2. Bare'
    BY <1>2, BareStep DEF Approving, Rejecting
  <2> QED BY <1>2, <2>1, <2>2, SeenStep DEF Approving, Rejecting
<1>3. Shapes /\ Rejecting /\ Approving /\ [Next]_vars => Approving'
  BY <1>2
<1> QED BY ShapesHold, RejectingHolds, <1>1, <1>3, PTL DEF Spec

\* Whatever the model is given as guidance is a seed, or an administrator acted on that
\* lesson, or on one that had its id before (skills.py:13-14); and unless the lesson came
\* without a rule, its rule is not one that a vote put in unread (skills.py:448-453).
THEOREM GuidanceSeen == Spec => []GuidanceWasSeen
<1>1. Approving => GuidanceWasSeen
  BY DEF Approving
<1> QED BY ApprovingHolds, <1>1, PTL

\* A lesson with a vector never loses it (routers/admin.py:1478-1483, skills.py:826-836).
THEOREM GuidanceStaysFindable == Spec => GuidanceIsKept
<1>1. Shapes /\ Rejecting /\ Approving /\ [Next]_vars =>
        [\A r \in skills, n \in skills' : r.uid = n.uid /\ r.vec # None => n.vec # None]_vars
  BY KeptStep DEF Approving, Rejecting
<1> QED BY ShapesHold, RejectingHolds, ApprovingHolds, <1>1, PTL DEF Spec, GuidanceIsKept

-----------------------------------------------------------------------------
(* Seeds ship once                                                           *)

HasRow(s) == \E r \in skills : r.source = "seed" /\ r.ques = s

\* What a database was given is there for the backfill, or in the marker, or about to be.
Counted ==
    torn \/ \A s \in Seeds :
        /\ shipped[s] <= 1
        /\ shipped[s] = 1 /\ ~marked => HasRow(s)
        /\ shipped[s] = 1 /\ marked /\ s \notin applied =>
              proc = "ship" /\ s \in release \ (todo \cup known)
        /\ proc = "ship" /\ s \in todo => shipped[s] = 0

\* A seed's row goes only where the marker has it.
LEMMA RowsStay ==
    ASSUME Shapes, Shipping, \A t \in Turns : Barred(t), [Next]_vars, ~torn', ~marked,
           NEW s \in Seeds, HasRow(s)
    PROVE  HasRow(s)'
<1>1. PICK r \in skills : r.source = "seed" /\ r.ques = s
  BY DEF HasRow
<1>2. CASE Descend
  BY <1>1, <1>2 DEF Descend, Descends, MayGo, Shipping, HasRow
<1>3. ASSUME NEW row, Newborn(row) PROVE HasRow(s)'
  BY <1>1, <1>3 DEF Newborn, Save, HasRow
<1> QED BY <1>2, <1>3, RowStep

\* Steps that neither seed nor end the seeding.
LEMMA QuietCounted ==
    ASSUME Shapes, Shipping, \A t \in Turns : Barred(t), Counted, [Next]_vars,
           torn => torn', UNCHANGED <<shipped, marked, applied, todo, known>>,
           \/ UNCHANGED <<proc, release>>
           \/ proc # "ship" /\ proc' # "ship"
           \/ proc' # "ship" /\ (torn' \/ ~marked \/ todo = release \ known)
    PROVE  Counted'
<1> SUFFICES ASSUME ~torn', NEW s \in Seeds
             PROVE  (/\ shipped[s] <= 1
                     /\ shipped[s] = 1 /\ ~marked => HasRow(s)
                     /\ shipped[s] = 1 /\ marked /\ s \notin applied =>
                           proc = "ship" /\ s \in release \ (todo \cup known)
                     /\ proc = "ship" /\ s \in todo => shipped[s] = 0)'
  BY DEF Counted
<1>1. HasRow(s) /\ ~marked => HasRow(s)'
  BY RowsStay
<1> QED BY <1>1 DEF Counted

\* Counted is kept by every step.
LEMMA CountedStep ==
    ASSUME Shapes, Shipping, \A t \in Turns : Barred(t), Counted, [Next]_vars
    PROVE  Counted'
<1>1. CASE (\E t \in Turns : CandidateStep(t)) \/ (\E b \in Tabs : AdminAsks(b)) \/ UNCHANGED vars
  <2>1. UNCHANGED <<proc, build, seeding, metas>>
    BY <1>1, CandidateFrame, AskFrame DEF vars
  <2> QED BY <2>1, QuietCounted DEF build, seeding, metas
<1>2. CASE AdminWrites
  <2>1. torn => torn'
    BY <1>2 DEF AdminWrites, AllowAgain, Patch, Delete, SetMuted, seeding
  <2> QED BY <1>2, <2>1, AdminFrame, QuietCounted DEF build
<1>3. CASE Start \/ Upgrade \/ Reembed
  <2>1. UNCHANGED <<shipped, marked, applied, todo, known, torn>> /\ proc # "ship" /\ proc' # "ship"
    BY <1>3 DEF Start, Upgrade, Reembed, seeding, metas
  <2> QED BY <2>1, QuietCounted
<1>4. CASE BootStepFails \/ Crash
  <2>1. /\ UNCHANGED <<shipped, marked, applied, skills>> /\ proc' # "ship"
        /\ torn' = (torn \/ Unmarked)
    BY <1>4 DEF BootStepFails, Crash, metas, tables
  <2> QED BY <2>1 DEF Counted, Unmarked, HasRow
<1>5. CASE ReadSeeds
  <2>1. /\ UNCHANGED <<shipped, marked, applied, skills, torn, release>>
        /\ proc = "read" /\ proc' = "ship"
        /\ known' = IF marked THEN applied ELSE Seeded
        /\ todo' = release \ known'
    BY <1>5 DEF ReadSeeds, metas, tables, build
  <2>2. SUFFICES ASSUME ~torn, NEW s \in Seeds
                 PROVE  (/\ shipped[s] <= 1
                         /\ shipped[s] = 1 /\ ~marked => HasRow(s)
                         /\ shipped[s] = 1 /\ marked /\ s \notin applied =>
                               proc = "ship" /\ s \in release \ (todo \cup known)
                         /\ proc = "ship" /\ s \in todo => shipped[s] = 0)'
    BY <2>1 DEF Counted
  <2>3. /\ shipped[s] <= 1 /\ shipped[s] \in Nat
        /\ shipped[s] = 1 /\ ~marked => HasRow(s)
        /\ ~(shipped[s] = 1 /\ marked /\ s \notin applied)
    BY <2>1, <2>2 DEF Counted, Shapes, TypeOK
  <2>4. s \in todo' => shipped[s] # 1
    <3> SUFFICES ASSUME s \in todo', shipped[s] = 1 PROVE FALSE
      OBVIOUS
    <3>1. ~marked /\ HasRow(s)
      BY <2>1, <2>3
    <3>2. s \in Seeded
      BY <2>1, <3>1 DEF Seeded, HasRow
    <3> QED BY <2>1, <3>1, <3>2
  <2> QED BY <2>1, <2>3, <2>4 DEF HasRow
<1>6. CASE Ship
  <2>1. PICK s \in todo : /\ proc = "ship"
                          /\ Save(NewLesson(s, s, "seed", None, {}))
                          /\ shipped' = [shipped EXCEPT ![s] = @ + 1]
                          /\ todo' = todo \ {s}
    BY <1>6 DEF Ship
  <2>2. UNCHANGED <<marked, applied, proc, release, known, torn>>
    BY <1>6 DEF Ship, metas, build
  <2>3. HasRow(s)'
    <3> DEFINE row == NewLesson(s, s, "seed", None, {})
    <3>1. row \in skills' /\ row.source = "seed" /\ row.ques = s
      BY <2>1 DEF Save, NewLesson
    <3> HIDE DEF row
    <3> QED BY <3>1 DEF HasRow
  <2>4. SUFFICES ASSUME ~torn, NEW x \in Seeds
                 PROVE  (/\ shipped[x] <= 1
                         /\ shipped[x] = 1 /\ ~marked => HasRow(x)
                         /\ shipped[x] = 1 /\ marked /\ x \notin applied =>
                               proc = "ship" /\ x \in release \ (todo \cup known)
                         /\ proc = "ship" /\ x \in todo => shipped[x] = 0)'
    BY <2>2 DEF Counted
  <2>5. CASE x = s
    <3>1. shipped[s] = 0 /\ s \in release \ known
      BY <2>1, <2>4, <2>5 DEF Counted, Shipping
    <3>2. shipped'[s] = 1
      BY <2>1, <2>4, <2>5, <3>1 DEF Shapes, TypeOK
    <3> QED BY <2>1, <2>2, <2>3, <2>5, <3>1, <3>2
  <2>6. CASE x # s
    <3>1. shipped'[x] = shipped[x]
      BY <2>1, <2>6 DEF Shapes, TypeOK
    <3>2. HasRow(x) /\ ~marked => HasRow(x)'
      BY <2>2, <2>4, RowsStay
    <3> QED BY <2>1, <2>2, <2>4, <2>6, <3>1, <3>2 DEF Counted
  <2> QED BY <2>5, <2>6
<1>7. CASE Mark
  <2>1. /\ UNCHANGED shipped /\ marked' /\ proc' # "ship"
        /\ torn' = (torn \/ \E s \in Seeds \ applied' : shipped[s] > 0)
    BY <1>7 DEF Mark
  <2>2. \A s \in Seeds : shipped[s] \in Nat
    BY DEF Shapes, TypeOK
  <2>3. torn \/ \A s \in Seeds : shipped[s] <= 1
    BY DEF Counted
  <2>4. torn' \/ \A s \in Seeds : shipped[s] = 1 => s \in applied'
    <3> SUFFICES ASSUME ~torn', NEW s \in Seeds, shipped[s] = 1 PROVE s \in applied'
      OBVIOUS
    <3>1. shipped[s] > 0
      OBVIOUS
    <3> QED BY <2>1, <3>1
  <2> QED BY <2>1, <2>3, <2>4 DEF Counted
<1> QED BY <1>1, <1>2, <1>3, <1>4, <1>5, <1>6, <1>7, StepKinds DEF BootStep

\* A seed is given to a database once, unless a death of the process, or a deletion, came
\* between its insertion and the marker (skills.py:768).
THEOREM SeedsAreGivenOnce == Spec => []SeedsShipOnce
<1>1. Init => Shipping /\ Counted
  BY DEF Init, Shipping, Counted, HasRow
<1>2. ASSUME Shapes, Rejecting, Shipping, Counted, [Next]_vars PROVE Shipping' /\ Counted'
  BY <1>2, ShippingStep, CountedStep DEF Rejecting
<1>3. Shapes /\ Rejecting /\ Shipping /\ Counted /\ [Next]_vars => Shipping' /\ Counted'
  BY <1>2
<1>4. Counted => SeedsShipOnce
  BY DEF Counted, SeedsShipOnce
<1> QED BY ShapesHold, RejectingHolds, <1>1, <1>3, <1>4, PTL DEF Spec

\* For any number of seeds, builds, boots and deaths, each seed is shipped once and stays
\* as it was left.
THEOREM SeedsGoOver == Spec => SeedsAreHandedOver
BY SeedsAreGivenOnce, DeletedSeedsStay, PTL DEF SeedsAreHandedOver

\* For any number of candidates, ideas, tabs and administrators, nothing rejected comes in,
\* no guidance is live that was not approved, and votes replace no rule: they fill in the
\* missing one of a row that an older build left without, approved or not.
THEOREM LibraryIsAllowed == Spec => []LibraryIsReviewed
BY RejectionHolds, GuidanceSeen, PTL DEF LibraryIsReviewed
=============================================================================
