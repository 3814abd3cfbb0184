---------------------------- MODULE ChatTurnProofs ----------------------------
(* Theorems about ChatTurn for every value of its constants.               *)
EXTENDS ChatTurn, WellFoundedInduction, TLAPS

-----------------------------------------------------------------------------
(* Primary keys                                                              *)

\* A set of natural numbers with an upper bound has a greatest element, which
\* is its least upper bound.
LEMMA MaxOfBounded ==
    ASSUME NEW S \in SUBSET Nat, S # {},
           NEW n \in Nat, \A x \in S : x <= n
    PROVE  Max(S) \in S /\ \A x \in S : x <= Max(S)
<1> DEFINE Less   == OpToRel(<, Nat)
           Bounds == {k \in Nat : \A x \in S : x <= k}
<1>1. IsWellFoundedOn(Less, Nat)
  BY NatLessThanWellFounded
<1>2. Bounds \subseteq Nat /\ Bounds # {}
  OBVIOUS
<1>3. PICK k \in Bounds : \A y \in Bounds : ~(<<y, k>> \in Less)
  <2> HIDE DEF Bounds, Less
  <2> QED BY <1>1, <1>2, WFMin
<1>4. \A y \in Bounds : ~(y < k)
  BY <1>3 DEF OpToRel
<1>5. k \in S
  <2>1. SUFFICES ASSUME k \notin S PROVE FALSE
    OBVIOUS
  <2>2. \A x \in S : x <= k /\ x # k
    BY <2>1
  <2>3. k # 0
    <3>1. PICK x \in S : TRUE
      OBVIOUS
    <3> QED BY <2>2, <3>1
  <2>4. k - 1 \in Nat /\ \A x \in S : x <= k - 1
    BY <2>2, <2>3
  <2> QED BY <1>4, <2>4
<1>6. \A x \in S : k >= x
  OBVIOUS
<1> QED BY <1>5, <1>6 DEF Max

\* The ids of a table: positive numbers, with a highest one.
Indexed(rows) == /\ \A r \in rows : r.id \in Nat \ {0}
               /\ \E n \in Nat : \A r \in rows : r.id <= n

\* A new row of a table gets an id above all of its rows, the one after the
\* highest; the first row of an empty table gets 1.
LEMMA NextIdIsNew ==
    ASSUME NEW rows, Indexed(rows)
    PROVE  /\ NextId(rows) \in Nat \ {0}
           /\ \A r \in rows : r.id < NextId(rows)
           /\ rows = {} => NextId(rows) = 1
           /\ rows # {} => \E r \in rows : NextId(rows) = r.id + 1
<1>1. CASE rows = {}
  BY <1>1 DEF NextId
<1>2. CASE rows # {}
  <2> DEFINE S == {r.id : r \in rows}
  <2>1. S \in SUBSET Nat /\ S # {}
    BY <1>2 DEF Indexed
  <2>2. PICK n \in Nat : \A r \in rows : r.id <= n
    BY DEF Indexed
  <2>3. \A x \in S : x <= n
    BY <2>2
  <2>4. Max(S) \in S /\ \A x \in S : x <= Max(S)
    <3> HIDE DEF S
    <3> QED BY <2>1, <2>3, MaxOfBounded
  <2>5. NextId(rows) = 1 + Max(S)
    BY <1>2 DEF NextId
  <2>6. PICK r \in rows : Max(S) = r.id
    BY <2>4
  <2>7. \A q \in rows : q.id <= r.id
    BY <2>4, <2>6
  <2>8. r.id \in Nat \ {0} /\ NextId(rows) = r.id + 1
    BY <2>5, <2>6 DEF Indexed
  <2>9. \A q \in rows : q.id \in Nat
    BY DEF Indexed
  <2> QED BY <1>2, <2>7, <2>8, <2>9
<1> QED BY <1>1, <1>2

-----------------------------------------------------------------------------
(* Types                                                                     *)

Shapes == TypeOK /\ Indexed(conversations) /\ Indexed(messages)

\* The initial states are well typed.
LEMMA InitShapes == Init => Shapes
<1> SUFFICES ASSUME Init PROVE Shapes
  OBVIOUS
<1>1. TypeOK
  BY ConstantsAssumption
     DEF Init, TypeOK, PCs, Request, Fresh, Kinds, Spend, Tasks, Endings
<1>2. Indexed(conversations) /\ Indexed(messages)
  BY DEF Init, Indexed
<1> QED BY <1>1, <1>2 DEF Shapes

\* A request in a conversation, with ids of the types the turn keeps.
LEMMA RequestShapes ==
    ASSUME Shapes, NEW t \in Turns, NEW c \in conversations,
           NEW e \in {0} \cup {s[2] : s \in shown}, Ask(t, c, e)
    PROVE  Shapes'
<1> USE DEF Shapes, TypeOK, db, local, ghost, bounds
<1>1. e \in Nat /\ c.id \in Nat /\ c.maker \in Turns
  BY DEF Conversation
<1>2. Loaded(c.id, e) \in Request
  BY <1>1 DEF Loaded, Request, Kinds
<1> QED BY <1>1, <1>2 DEF Ask, Goto, PCs, Indexed

\* A new request, and the client that does not wait for its stream.
LEMMA MoveShapes ==
    ASSUME Shapes, NEW t \in Turns, AskNew(t) \/ NeverBegins(t)
    PROVE  Shapes'
<1> USE DEF Shapes, TypeOK, db, local, ghost, bounds
<1>1. CASE AskNew(t)
  BY <1>1 DEF AskNew, Goto, PCs, Indexed
<1>2. CASE NeverBegins(t)
  <2>1. Fresh \in Request
    BY DEF Fresh, Request, Kinds
  <2> QED BY <1>2, <2>1 DEF NeverBegins, Over, Ended, Goto, PCs, Endings, Indexed
<1> QED BY <1>1, <1>2

\* A new conversation has an id of its own.
LEMMA BeginShapes ==
    ASSUME Shapes, NEW t \in Turns, Begin(t)
    PROVE  Shapes'
<1> USE DEF Shapes, TypeOK, db, local, ghost, bounds
<1>1. NextId(conversations) \in Nat \ {0} /\ \A c \in conversations : c.id < NextId(conversations)
  BY NextIdIsNew
<1>2. Created(t) \in Conversation /\ Created(t).id = NextId(conversations)
  BY <1>1 DEF Created, Conversation
<1>3. conversations' \subseteq Conversation /\ req' \in [Turns -> Request]
  <2>1. conversations' \subseteq Conversation
    BY <1>2 DEF Begin
  <2>2. [req EXCEPT ![t].conv = NextId(conversations)] \in [Turns -> Request]
    BY <1>1 DEF Request
  <2> QED BY <2>1, <2>2 DEF Begin
<1>4. Indexed(conversations')
  <2>1. CASE req[t].isNew
    <3>1. conversations' = conversations \cup {Created(t)}
      BY <2>1 DEF Begin
    <3>2. \A c \in conversations' : c.id \in Nat \ {0} /\ c.id <= NextId(conversations)
      BY <3>1, <1>1, <1>2 DEF Indexed
    <3> QED BY <3>2, <1>1 DEF Indexed
  <2>2. CASE ~req[t].isNew
    BY <2>2 DEF Begin
  <2> QED BY <2>1, <2>2
<1>5. pc' \in [Turns -> PCs]
  BY DEF Begin, Goto, PCs
<1>6. UNCHANGED <<messages, bill, logged, keyed, user, spent, task, ghost, bounds>>
  BY DEF Begin
<1>7. TypeOK'
  BY <1>3, <1>5, <1>6
<1>8. Indexed(messages)'
  BY <1>6 DEF Indexed
<1> QED BY <1>4, <1>7, <1>8

\* The steps of a turn that write neither conversations nor messages.
LEMMA QuietShapes ==
    ASSUME Shapes, NEW t \in Turns,
           \/ GuardAllows(t) \/ GuardRefuses(t) \/ CacheHit(t) \/ Agent(t) \/ NoResult(t)
           \/ PersistRefused(t) \/ Title(t) \/ Charge(t) \/ FinallyFails(t) \/ Distill(t)
           \/ ChargeDistill(t) \/ DistillFails(t) \/ Cut(t)
    PROVE  Shapes'
<1> USE DEF Shapes, TypeOK, db, local, ghost, bounds, Goto, Costs, Ended, PCs, Spend, Kinds
<1>0. /\ \A k \in Kinds : [req EXCEPT ![t].kind = k] \in [Turns -> Request]
      /\ [req EXCEPT ![t] = Fresh] \in [Turns -> Request]
  BY DEF Request, Fresh
<1>1. CASE GuardAllows(t) \/ Title(t)
  BY <1>1 DEF GuardAllows, Title, Indexed
<1>2. CASE GuardRefuses(t)
  BY <1>0, <1>2 DEF GuardRefuses, Answered, Indexed
<1>3. CASE CacheHit(t)
  BY <1>0, <1>3 DEF CacheHit, Answered, Indexed
<1>4. CASE Agent(t)
  <2>1. PICK k \in {"answer", "clarify", "error"} : Answered(t, k)
    BY <1>4 DEF Agent
  <2>2. spent' \in [Turns -> SUBSET Spend]
    BY <1>4 DEF Agent
  <2>3. /\ req' \in [Turns -> Request] /\ pc' \in [Turns -> PCs]
        /\ UNCHANGED <<db, keyed, user, task, ghost, bounds>>
    BY <1>0, <1>4, <2>1 DEF Agent, Answered
  <2> QED BY <2>2, <2>3 DEF Indexed
<1>5. CASE NoResult(t) \/ PersistRefused(t)
  BY <1>5 DEF NoResult, PersistRefused, Endings, Indexed
<1>6. CASE Charge(t)
  BY <1>6 DEF Charge, Indexed
<1>7. CASE FinallyFails(t)
  BY <1>0, <1>7, ConstantsAssumption DEF FinallyFails, Over, Fault, Indexed
<1>8. CASE Distill(t)
  BY <1>8 DEF Distill, Tasks, Indexed
<1>9. CASE ChargeDistill(t)
  BY <1>9 DEF ChargeDistill, Tasks, Indexed
<1>10. CASE DistillFails(t)
  BY <1>10, ConstantsAssumption DEF DistillFails, Fault, Tasks, Indexed
<1>11. CASE Cut(t)
  BY <1>11 DEF Cut, Endings, Indexed
<1> QED BY <1>1, <1>2, <1>3, <1>4, <1>5, <1>6, <1>7, <1>8, <1>9, <1>10, <1>11

\* A table that only loses rows keeps its ids.
LEMMA IndexedSubset ==
    ASSUME NEW rows, Indexed(rows), NEW less \in SUBSET rows
    PROVE  Indexed(less)
BY DEF Indexed

\* A persisted turn adds two rows above those it keeps.
LEMMA PersistShapes ==
    ASSUME Shapes, NEW t \in Turns, Persist(t)
    PROVE  Shapes'
<1> USE DEF Shapes, TypeOK, local, bounds
<1> DEFINE kept == messages \ Replaced(t)
           id   == NextId(kept)
<1>1. Indexed(kept)
  BY IndexedSubset
<1>2. id \in Nat \ {0} /\ \A m \in kept : m.id < id
  BY <1>1, NextIdIsNew
<1>3. /\ messages' = kept \cup Exchange(t, id)
      /\ shown' = shown \cup {<<req[t].conv, id>>}
  BY DEF Persist
<1>4. req[t].conv \in Nat \ {0}
  BY DEF Persist, Exists, Conversation
<1> HIDE DEF kept, id
<1>5. Exchange(t, id) \subseteq Message /\ \A m \in Exchange(t, id) : m.id <= id + 1
  BY <1>2, <1>4 DEF Exchange, Message
<1>6. messages' \subseteq Message
  BY <1>3, <1>5 DEF kept
<1>7. Indexed(messages')
  <2>1. \A m \in messages' : m.id \in Nat \ {0}
    BY <1>6 DEF Message
  <2>2. \A m \in messages' : m.id <= id + 1
    <3>1. TAKE m \in messages'
    <3>2. CASE m \in kept
      BY <3>2, <1>2, <2>1
    <3>3. CASE m \in Exchange(t, id)
      BY <3>3, <1>5
    <3> QED BY <3>1, <3>2, <3>3, <1>3
  <2>3. id + 1 \in Nat
    BY <1>2
  <2> QED BY <2>1, <2>2, <2>3 DEF Indexed
<1>8. shown' \subseteq (Nat \ {0}) \X (Nat \ {0})
  BY <1>2, <1>3, <1>4
<1>9. bill' \in [Turns -> SUBSET Spend] /\ logged' \subseteq Turns
  BY DEF Persist, Folded
<1>10. pc' \in [Turns -> PCs] /\ task' \in [Turns -> Tasks] /\ ending' \in [Turns -> Endings]
  BY DEF Persist, Goto, Ended, PCs, Tasks, Endings
<1>11. UNCHANGED <<conversations, keyed, local, spent, home, orphaned, bounds>>
  BY DEF Persist
<1>12. Indexed(conversations)'
  BY <1>11 DEF Indexed
<1> QED BY <1>6, <1>7, <1>8, <1>9, <1>10, <1>11, <1>12

\* A title changes no id.
LEMMA RetitleShapes ==
    ASSUME Shapes, NEW t \in Turns, Retitle(t)
    PROVE  Shapes'
<1> USE DEF Shapes, TypeOK, local, ghost, bounds
<1>1. \A c \in conversations' : c \in Conversation /\ \E d \in conversations : c.id = d.id
  <2>1. CASE conversations' = conversations
    BY <2>1
  <2>2. CASE conversations' # conversations
    <3>1. conversations' = {IF c.id = req[t].conv THEN [c EXCEPT !.title = t] ELSE c :
                                c \in conversations}
      BY <2>2 DEF Retitle
    <3>2. TAKE c \in conversations'
    <3>3. PICK d \in conversations :
              c = IF d.id = req[t].conv THEN [d EXCEPT !.title = t] ELSE d
      BY <3>1
    <3> QED BY <3>3 DEF Conversation
  <2> QED BY <2>1, <2>2
<1>2. Indexed(conversations')
  BY <1>1 DEF Indexed
<1>3. conversations' \subseteq Conversation
  BY <1>1
<1>4. pc' \in [Turns -> PCs] /\ ending' \in [Turns -> Endings]
  BY DEF Retitle, Goto, Ended, PCs, Endings
<1>5. UNCHANGED <<messages, bill, logged, keyed, local, spent, task, home, orphaned,
                  shown, bounds>>
  BY DEF Retitle
<1>6. Indexed(messages)'
  BY <1>5 DEF Indexed
<1> QED BY <1>2, <1>3, <1>4, <1>5, <1>6

\* Rows that go take no other id with them.
LEMMA FinallyShapes ==
    ASSUME Shapes, NEW t \in Turns, Finally(t)
    PROVE  Shapes'
<1> USE DEF Shapes, TypeOK, local, ghost, bounds
<1>1. /\ conversations' \subseteq conversations
      /\ UNCHANGED <<messages, bill, logged, keyed, user, spent, task, home, ending,
                     shown, bounds>>
  BY DEF Finally
<1>2. Indexed(conversations)' /\ Indexed(messages)'
  BY <1>1 DEF Indexed
<1>3. orphaned' \in [Turns -> BOOLEAN]
  BY DEF Finally, Orphans
<1>4. Fresh \in Request
  BY DEF Fresh, Request, Kinds
<1>5. pc' \in [Turns -> PCs] /\ req' \in [Turns -> Request]
  BY <1>4 DEF Finally, Over, Goto, PCs
<1> QED BY <1>1, <1>2, <1>3, <1>5

\* The other tabs.
LEMMA TabShapes ==
    ASSUME Shapes, NEW c \in conversations, Rename(c) \/ Delete(c)
    PROVE  Shapes'
<1> USE DEF Shapes, TypeOK, local, ghost, bounds
<1>1. CASE Rename(c)
  <2> DEFINE d == [c EXCEPT !.title = Renamed]
  <2>1. conversations' = (conversations \ {c}) \cup {d}
    BY <1>1 DEF Rename
  <2>2. d \in Conversation /\ d.id = c.id
    BY DEF Conversation
  <2>3. conversations' \subseteq Conversation
    BY <2>1, <2>2
  <2>4. Indexed(conversations')
    <3> HIDE DEF d
    <3> QED BY <2>1, <2>2 DEF Indexed
  <2>5. renames' \in 0..MaxRenames
    BY <1>1, ConstantsAssumption DEF Rename
  <2>6. UNCHANGED <<messages, bill, logged, keyed, pc, local, spent, task, ghost,
                    deletes, faults>>
    BY <1>1 DEF Rename
  <2>7. Indexed(messages)'
    BY <2>6 DEF Indexed
  <2> QED BY <2>3, <2>4, <2>5, <2>6, <2>7
<1>2. CASE Delete(c)
  <2>1. /\ conversations' \subseteq conversations /\ messages' \subseteq messages
        /\ UNCHANGED <<bill, logged, keyed, pc, local, spent, task, home, ending, shown,
                       renames, faults>>
    BY <1>2 DEF Delete
  <2>2. Indexed(conversations)' /\ Indexed(messages)'
    BY <2>1 DEF Indexed
  <2>3. deletes' \in 0..MaxDeletes
    BY <1>2, ConstantsAssumption DEF Delete
  <2>4. orphaned' \in [Turns -> BOOLEAN]
    BY <1>2 DEF Delete, Orphans
  <2> QED BY <2>1, <2>2, <2>3, <2>4
<1> QED BY <1>1, <1>2

\* A crash only ends turns.
LEMMA CrashShapes == ASSUME Shapes, Crash PROVE Shapes'
<1> USE DEF Shapes, TypeOK, db, local, ghost, bounds
<1>1. pc' \in [Turns -> PCs] /\ ending' \in [Turns -> Endings] /\ task' \in [Turns -> Tasks]
  BY DEF Crash, PCs, Endings, Tasks
<1>2. req' \in [Turns -> Request]
  <2>1. Fresh \in Request
    BY DEF Fresh, Request, Kinds
  <2> QED BY <2>1 DEF Crash
<1>3. faults' \in 0..MaxFaults /\ UNCHANGED <<renames, deletes>>
  BY ConstantsAssumption DEF Crash, Fault
<1>4. UNCHANGED <<db, keyed, user, spent, home, orphaned, shown>>
  BY DEF Crash
<1>5. Indexed(conversations)' /\ Indexed(messages)'
  BY <1>4 DEF Indexed
<1> QED BY <1>1, <1>2, <1>3, <1>4, <1>5

\* Every step keeps the types.
LEMMA NextShapes == Shapes /\ [Next]_vars => Shapes'
<1> SUFFICES ASSUME Shapes, [Next]_vars PROVE Shapes'
  OBVIOUS
<1>1. CASE UNCHANGED vars
  BY <1>1 DEF vars, db, local, ghost, bounds, Shapes, TypeOK, Indexed
<1>2. ASSUME NEW t \in Turns, NEW c \in conversations,
             NEW e \in {0} \cup {s[2] : s \in shown}, Ask(t, c, e)
      PROVE  Shapes'
  BY <1>2, RequestShapes
<1>3. ASSUME NEW t \in Turns, AskNew(t) \/ NeverBegins(t) PROVE Shapes'
  BY <1>3, MoveShapes
<1>4. ASSUME NEW t \in Turns,
             Step(t) \/ Distiller(t) \/ Cut(t) \/ FinallyFails(t) \/ DistillFails(t)
      PROVE  Shapes'
  BY <1>4, BeginShapes, QuietShapes, PersistShapes, RetitleShapes, FinallyShapes
     DEF Step, Distiller
<1>5. ASSUME NEW c \in conversations, Rename(c) \/ Delete(c) PROVE Shapes'
  BY <1>5, TabShapes
<1> QED BY <1>1, <1>2, <1>3, <1>4, <1>5, CrashShapes DEF Next

\* The variables keep their types, and the highest id of each table exists.
THEOREM TypeCorrect == Spec => []TypeOK
<1>1. Spec => []Shapes
  BY InitShapes, NextShapes, PTL DEF Spec
<1> QED BY <1>1, PTL DEF Shapes

-----------------------------------------------------------------------------
(* Every question keeps its answer                                           *)

\* Exchanges are written in pairs above every other row, and an edit starts at
\* a question: questions have odd ids, and a cut never falls inside a pair.
Parity ==
    /\ \A m \in messages : m.id % 2 = IF m.role = "user" THEN 1 ELSE 0
    /\ \A s \in shown : s[2] % 2 = 1
    /\ \A t \in Turns : req[t].edit = 0 \/ req[t].edit % 2 = 1

Twin(m) ==
    IF m.role = "user"
      THEN [id |-> m.id + 1, conv |-> m.conv, role |-> "assistant", turn |-> m.turn]
      ELSE [id |-> m.id - 1, conv |-> m.conv, role |-> "user", turn |-> m.turn]
Paired(rows) == \A m \in rows : Twin(m) \in rows

PairInv == Parity /\ Paired(messages)

\* The property in the terms of Twin.
LEMMA PairedIsIntact == TypeOK => (PairsIntact <=> Paired(messages))
<1> SUFFICES ASSUME TypeOK, NEW m \in messages
             PROVE  Twin(m) = IF m.role = "user" THEN [m EXCEPT !.id = @ + 1, !.role = "assistant"]
                              ELSE [m EXCEPT !.id = @ - 1, !.role = "user"]
  BY DEF PairsIntact, Paired
<1> QED BY DEF TypeOK, Message, Twin

\* A step that writes no message may end turns, or start one at a question.
LEMMA QuietPairs ==
    ASSUME PairInv, UNCHANGED <<messages, shown>>,
           \A t \in Turns : \/ req'[t].edit \in {0, req[t].edit}
                            \/ req'[t].edit % 2 = 1
    PROVE  PairInv'
BY DEF PairInv, Parity, Paired

\* The turns' own steps but Persist.
LEMMA StepPairs ==
    ASSUME Shapes, PairInv, NEW t \in Turns,
           \/ AskNew(t) \/ Begin(t) \/ GuardAllows(t) \/ GuardRefuses(t) \/ CacheHit(t)
           \/ Agent(t) \/ NoResult(t) \/ PersistRefused(t) \/ Title(t) \/ Charge(t)
           \/ Retitle(t) \/ Finally(t) \/ FinallyFails(t) \/ Distiller(t)
           \/ DistillFails(t) \/ NeverBegins(t) \/ Cut(t)
    PROVE  PairInv'
<1>1. UNCHANGED <<messages, shown>>
  BY DEF AskNew, Begin, GuardAllows, GuardRefuses, CacheHit, Agent, NoResult,
     PersistRefused, Title, Charge, Retitle, Finally, FinallyFails, Distiller, Distill,
     ChargeDistill, DistillFails, NeverBegins, Cut, db, ghost
<1>2. \/ UNCHANGED req
      \/ \E n : req' = [req EXCEPT ![t].conv = n]
      \/ \E k : req' = [req EXCEPT ![t].kind = k]
      \/ req' = [req EXCEPT ![t] = Fresh]
  <2>1. CASE Agent(t)
    BY <2>1 DEF Agent, Answered
  <2>2. CASE ~Agent(t)
    BY <2>2 DEF AskNew, Begin, GuardAllows, GuardRefuses, CacheHit, NoResult,
       PersistRefused, Title, Charge, Retitle, Finally, FinallyFails, Distiller, Distill,
       ChargeDistill, DistillFails, NeverBegins, Cut, Answered, Over, local
  <2> QED BY <2>1, <2>2
<1>3. req \in [Turns -> Request]
  BY DEF Shapes, TypeOK
<1>4. \A u \in Turns : req'[u].edit \in {0, req[u].edit}
  BY <1>2, <1>3 DEF Request, Fresh
<1> QED BY <1>1, <1>4, QuietPairs

\* An edit starts at a question a tab has seen.
LEMMA AskPairs ==
    ASSUME Shapes, PairInv, NEW t \in Turns, NEW c \in conversations,
           NEW e \in {0} \cup {s[2] : s \in shown}, Ask(t, c, e)
    PROVE  PairInv'
<1>1. UNCHANGED <<messages, shown>>
  BY DEF Ask, db
<1>2. e = 0 \/ e % 2 = 1
  BY DEF PairInv, Parity
<1>3. req' = [req EXCEPT ![t] = Loaded(c.id, e)] /\ Loaded(c.id, e).edit = e
  BY DEF Ask, Loaded
<1>4. \A u \in Turns : req'[u].edit \in {0, req[u].edit} \/ req'[u].edit % 2 = 1
  BY <1>2, <1>3 DEF Shapes, TypeOK
<1> QED BY <1>1, <1>4, QuietPairs

\* What an edit keeps are whole pairs.
LEMMA KeptPairs ==
    ASSUME Shapes, PairInv, NEW t \in Turns
    PROVE  Paired(messages \ Replaced(t))
<1> DEFINE kept == messages \ Replaced(t)
<1>1. messages \subseteq Message /\ kept \subseteq messages
  BY DEF Shapes, TypeOK
<1>2. req[t].edit \in Nat /\ (req[t].edit = 0 \/ req[t].edit % 2 = 1)
  BY DEF PairInv, Parity, Shapes, TypeOK, Request
<1>3. ASSUME NEW m \in kept PROVE Twin(m) \in kept
  <2>1. m \in Message /\ Twin(m) \in messages /\ Twin(m).conv = m.conv
    BY <1>1 DEF PairInv, Paired, Twin
  <2>2. m.id \in Nat \ {0} /\ m.id % 2 = IF m.role = "user" THEN 1 ELSE 0
    BY <1>1 DEF PairInv, Parity, Message
  <2>3. m.conv = req[t].conv /\ req[t].edit # 0 => m.id < req[t].edit
    BY <1>2, <2>2 DEF Replaced, Thread
  <2>4. m.conv = req[t].conv /\ req[t].edit # 0 => Twin(m).id < req[t].edit
    BY <1>2, <2>2, <2>3 DEF Twin
  <2>5. Twin(m).id \in Int
    BY <2>2 DEF Twin
  <2> QED BY <1>2, <2>1, <2>4, <2>5 DEF Replaced, Thread
<1> QED
  BY <1>3 DEF Paired

\* The exchange that is written is a pair, and so is all that is left of the
\* conversation before the question it replaces.
LEMMA PersistPairs ==
    ASSUME Shapes, PairInv, NEW t \in Turns, Persist(t)
    PROVE  PairInv'
<1> DEFINE kept == messages \ Replaced(t)
           id   == NextId(kept)
<1>1. Indexed(kept) /\ messages \subseteq Message /\ kept \subseteq messages
  BY IndexedSubset DEF Shapes, TypeOK
<1>2. req[t].edit \in Nat /\ (req[t].edit = 0 \/ req[t].edit % 2 = 1)
  BY DEF PairInv, Parity, Shapes, TypeOK, Request
<1>3. \A m \in kept : Twin(m) \in kept
  BY KeptPairs DEF Paired
<1>4. /\ id \in Nat \ {0} /\ (kept = {} => id = 1)
      /\ \A q \in kept : q.id < id
      /\ kept # {} => \E q \in kept : id = q.id + 1
  BY <1>1, NextIdIsNew
<1>5. /\ messages' = kept \cup Exchange(t, id)
      /\ shown' = shown \cup {<<req[t].conv, id>>}
      /\ UNCHANGED req
  BY DEF Persist, local
<1> HIDE DEF kept, id
<1>6. id % 2 = 1
  <2>1. SUFFICES ASSUME NEW m \in kept, id = m.id + 1 PROVE id % 2 = 1
    BY <1>4
  <2>2. m.id \in Nat \ {0} /\ m.id % 2 = IF m.role = "user" THEN 1 ELSE 0
    BY <1>1 DEF PairInv, Parity, Message
  <2>3. m.role # "user"
    <3> SUFFICES ASSUME m.role = "user" PROVE FALSE
      OBVIOUS
    <3>1. Twin(m).id = id
      BY <2>1 DEF Twin
    <3>2. PICK q \in kept : q = Twin(m)
      BY <1>3
    <3>3. q.id < id
      BY <1>4
    <3> QED BY <1>4, <3>1, <3>2, <3>3
  <2> QED BY <2>1, <2>2, <2>3
<1>7. \A m \in Exchange(t, id) : /\ Twin(m) \in Exchange(t, id)
                                 /\ m.id % 2 = IF m.role = "user" THEN 1 ELSE 0
  <2>1. (id + 1) % 2 = 0 /\ (id + 1) - 1 = id
    BY <1>4, <1>6
  <2> QED BY <1>4, <1>6, <2>1 DEF Exchange, Twin
<1>8. Paired(messages)'
  BY <1>3, <1>5, <1>7 DEF Paired
<1>9. Parity'
  BY <1>1, <1>5, <1>6, <1>7 DEF PairInv, Parity
<1> QED BY <1>8, <1>9 DEF PairInv

\* A conversation goes with all of its pairs; a rename, a crash and a stutter
\* leave them alone.
LEMMA OtherPairs ==
    ASSUME Shapes, PairInv,
           (\E c \in conversations : Rename(c) \/ Delete(c)) \/ Crash \/ UNCHANGED vars
    PROVE  PairInv'
<1>1. ASSUME NEW c \in conversations, Delete(c) PROVE PairInv'
  <2>1. messages' = messages \ Thread(c.id) /\ UNCHANGED <<shown, req>>
    BY <1>1 DEF Delete, local
  <2>2. \A m \in messages : Twin(m).conv = m.conv
    BY DEF Twin
  <2> QED BY <2>1, <2>2 DEF PairInv, Parity, Paired, Thread
<1>2. ASSUME NEW c \in conversations, Rename(c) PROVE PairInv'
  BY <1>2, QuietPairs DEF Rename, ghost, local
<1>3. CASE Crash
  BY <1>3, QuietPairs DEF Crash, db, Fresh
<1>4. CASE UNCHANGED vars
  BY <1>4, QuietPairs DEF vars, db, local, ghost
<1> QED BY <1>1, <1>2, <1>3, <1>4

\* No interleaving of turns, edits, deletions, disconnections and crashes leaves a
\* question without its answer or an answer without its question.
THEOREM QuestionsKeepAnswers == Spec => []PairsIntact
<1>1. Init => PairInv
  BY DEF Init, PairInv, Parity, Paired, Fresh
<1>2. Shapes /\ PairInv /\ [Next]_vars => PairInv'
  BY StepPairs, AskPairs, PersistPairs, OtherPairs DEF Next, Step
<1>3. Spec => [](Shapes /\ PairInv)
  BY <1>1, <1>2, InitShapes, NextShapes, PTL DEF Spec
<1>4. Shapes /\ PairInv => PairsIntact
  BY PairedIsIntact DEF Shapes, PairInv
<1> QED BY <1>3, <1>4, PTL

-----------------------------------------------------------------------------
(* Every turn writes to its own conversation                                 *)

\* Rows that agree but for the title.
Same(c, d) == c.id = d.id /\ c.owner = d.owner /\ c.maker = d.maker

OneRowPerId == \A c, d \in conversations : c.id = d.id => Same(c, d)
NoStray     == \A m \in messages : Exists(m.conv)
Home(t, c)  == c.id = req[t].conv /\ c.maker = home[t] /\ c.owner = user[t]

\* A turn in flight that has a conversation, and whose conversation is still
\* there, is at home in it; one that will create its own is its home.
InFlight ==
    \A t \in Turns : pc[t] \notin {"unasked", "done"} =>
        /\ req[t].conv # 0 /\ ~orphaned[t] => \E c \in conversations : Home(t, c)
        /\ pc[t] = "loaded" /\ req[t].isNew => home[t] = t
        /\ pc[t] = "loaded" /\ ~req[t].isNew => req[t].conv # 0
Unasked ==
    \A t \in Turns : pc[t] = "unasked" =>
        /\ req[t] = Fresh /\ home[t] = t /\ ~orphaned[t]
        /\ \A m \in messages : m.turn # t

HomeInv == OneRowPerId /\ NoStray /\ InFlight /\ Unasked /\ TurnsStayHome

\* Turns move on or end, rows change their titles, and nothing else happens.
Titles ==
    /\ \A c \in conversations' : \E d \in conversations : Same(c, d)
    /\ \A d \in conversations : \E c \in conversations' : Same(c, d)
Moves(t) ==
    \/ pc'[t] = pc[t] /\ req'[t] = req[t]
    \/ pc'[t] \notin {"unasked", "loaded"} /\ pc[t] \notin {"unasked", "done"}
           /\ req'[t].conv = req[t].conv
    \/ pc'[t] = "done"
    \/ pc[t] = "unasked" /\ pc'[t] = "loaded" /\ req'[t] = req[t]

\* Such a step keeps every turn at home.
LEMMA QuietHome ==
    ASSUME Shapes, HomeInv, Titles, \A t \in Turns : Moves(t),
           UNCHANGED <<messages, user, home, orphaned>>
    PROVE  HomeInv'
<1> USE DEF HomeInv, Titles, Same
<1>1. OneRowPerId'
  BY DEF OneRowPerId
<1>2. NoStray'
  BY DEF NoStray, Exists
<1>3. InFlight'
  <2> SUFFICES ASSUME NEW t \in Turns, pc'[t] \notin {"unasked", "done"}
               PROVE  /\ req'[t].conv # 0 /\ ~orphaned[t] =>
                            \E c \in conversations' : Home(t, c)'
                      /\ pc'[t] = "loaded" /\ req'[t].isNew => home[t] = t
                      /\ pc'[t] = "loaded" /\ ~req'[t].isNew => req'[t].conv # 0
    BY DEF InFlight
  <2>1. Moves(t)
    OBVIOUS
  <2>2. CASE pc[t] = "unasked"
    <3>1. pc'[t] = "loaded" /\ req'[t] = Fresh
      BY <2>1, <2>2 DEF Moves, Unasked
    <3>2. home[t] = t /\ Fresh.conv = 0 /\ Fresh.isNew
      BY <2>2 DEF Unasked, Fresh
    <3> QED BY <3>1, <3>2
  <2>3. CASE pc[t] # "unasked"
    <3>1. req'[t].conv = req[t].conv /\ pc[t] # "done"
      BY <2>1, <2>3 DEF Moves
    <3>2. pc'[t] = "loaded" => pc[t] = "loaded" /\ req'[t] = req[t]
      BY <2>1, <2>3 DEF Moves
    <3> QED BY <2>3, <3>1, <3>2 DEF InFlight, Home
  <2> QED BY <2>2, <2>3
<1>4. Unasked'
  BY DEF Unasked, Moves
<1>5. TurnsStayHome'
  BY DEF TurnsStayHome, Thread
<1> QED BY <1>1, <1>2, <1>3, <1>4, <1>5

\* The steps that write no row but a title.
LEMMA StepHome ==
    ASSUME Shapes, HomeInv, NEW t \in Turns,
           \/ AskNew(t) \/ GuardAllows(t) \/ GuardRefuses(t) \/ CacheHit(t)
           \/ Agent(t) \/ NoResult(t) \/ PersistRefused(t) \/ Title(t) \/ Charge(t)
           \/ FinallyFails(t) \/ Distiller(t)
           \/ DistillFails(t) \/ NeverBegins(t) \/ Cut(t)
    PROVE  HomeInv'
<1>1. UNCHANGED <<conversations, messages, user, home, orphaned>>
  BY DEF AskNew, GuardAllows, GuardRefuses, CacheHit, Agent, NoResult,
     PersistRefused, Title, Charge, FinallyFails, Distiller, Distill,
     ChargeDistill, DistillFails, NeverBegins, Cut, db, ghost, local
<1>2. Titles
  BY <1>1 DEF Titles, Same
<1>3. req \in [Turns -> Request] /\ pc \in [Turns -> PCs]
  BY DEF Shapes, TypeOK
<1>4. \/ UNCHANGED <<pc, req>>
      \/ pc[t] = "unasked" /\ pc' = [pc EXCEPT ![t] = "loaded"] /\ UNCHANGED req
      \/ /\ pc[t] \notin {"unasked", "done"}
         /\ \E l \in PCs \ {"unasked", "loaded"} : pc' = [pc EXCEPT ![t] = l]
         /\ UNCHANGED req \/ \E k : req' = [req EXCEPT ![t].kind = k]
      \/ pc' = [pc EXCEPT ![t] = "done"] /\ req' = [req EXCEPT ![t] = Fresh]
  <2>1. CASE Agent(t)
    BY <2>1 DEF Agent, Answered, Goto, PCs
  <2>2. CASE ~Agent(t)
    BY <2>2 DEF AskNew, GuardAllows, GuardRefuses, CacheHit, NoResult,
       PersistRefused, Title, Charge, FinallyFails, Distiller, Distill, ChargeDistill,
       DistillFails, NeverBegins, Cut, Running, Answered, Over, Goto, local, PCs
  <2> QED BY <2>1, <2>2
<1>5. \A u \in Turns : Moves(u)
  BY <1>3, <1>4 DEF Moves, PCs, Request
<1> QED BY <1>1, <1>2, <1>5, QuietHome

\* A request is only taken in a conversation of its user, and that one is home.
LEMMA AskHome ==
    ASSUME Shapes, HomeInv, NEW t \in Turns, NEW c \in conversations,
           NEW e \in {0} \cup {s[2] : s \in shown}, Ask(t, c, e)
    PROVE  HomeInv'
<1> USE DEF HomeInv
<1>1. /\ UNCHANGED <<conversations, messages, user, orphaned>>
      /\ pc[t] = "unasked" /\ c.owner = user[t]
      /\ pc' = [pc EXCEPT ![t] = "loaded"]
      /\ req' = [req EXCEPT ![t] = Loaded(c.id, e)]
      /\ home' = [home EXCEPT ![t] = c.maker]
  BY DEF Ask, OwnedBy, Goto, db
<1>2. /\ pc \in [Turns -> PCs] /\ req \in [Turns -> Request] /\ home \in [Turns -> Turns]
      /\ c.id \in Nat \ {0}
  BY DEF Shapes, TypeOK, Indexed
<1>3. OneRowPerId' /\ NoStray'
  BY <1>1 DEF OneRowPerId, NoStray, Exists, Same
<1>4. \A u \in Turns \ {t} : UNCHANGED <<pc[u], req[u], home[u]>>
  BY <1>1, <1>2
<1>5. /\ pc'[t] = "loaded" /\ home'[t] = c.maker
      /\ req'[t].conv = c.id /\ ~req'[t].isNew
  BY <1>1, <1>2 DEF Loaded
<1>6. InFlight'
  BY <1>1, <1>2, <1>4, <1>5 DEF InFlight, Home
<1>7. Unasked'
  BY <1>1, <1>4, <1>5 DEF Unasked
<1>8. TurnsStayHome'
  <2>1. \A m \in messages : m.turn \in Turns /\ m.turn # t
    BY <1>1 DEF Unasked, Shapes, TypeOK, Message
  <2> QED BY <1>1, <1>4, <2>1 DEF TurnsStayHome, Thread
<1> QED BY <1>3, <1>6, <1>7, <1>8

\* A new conversation has no messages yet, and no turn but its own writes to it.
LEMMA BeginHome ==
    ASSUME Shapes, HomeInv, NEW t \in Turns, Begin(t)
    PROVE  HomeInv'
<1> USE DEF HomeInv
<1>1. /\ UNCHANGED <<messages, user, home, orphaned>>
      /\ pc[t] = "loaded" /\ pc' = [pc EXCEPT ![t] = "guard"]
      /\ pc \in [Turns -> PCs] /\ req \in [Turns -> Request]
  BY DEF Begin, Goto, ghost, Shapes, TypeOK
<1>2. CASE ~req[t].isNew
  <2>1. UNCHANGED <<conversations, req>>
    BY <1>2 DEF Begin
  <2>2. Titles /\ \A u \in Turns : Moves(u)
    BY <1>1, <2>1 DEF Titles, Same, Moves
  <2> QED BY <1>1, <2>2, QuietHome
<1>3. CASE req[t].isNew
  <2> DEFINE new == Created(t)
  <2>1. /\ new.id = NextId(conversations) /\ new.maker = t /\ new.owner = user[t]
        /\ new.id \in Nat \ {0} /\ \A c \in conversations : c.id < new.id
    BY NextIdIsNew DEF Created, Shapes
  <2>2. conversations' = conversations \cup {new}
    BY <1>3 DEF Begin
  <2>3. \A u \in Turns : /\ req'[u].isNew = req[u].isNew
                         /\ u # t => req'[u] = req[u]
                         /\ u = t => req'[u].conv = new.id
    BY <1>1, <1>3, <2>1 DEF Begin, Request
  <2> HIDE DEF new
  <2>4. \A c \in conversations : c.id \in Nat /\ c.id # new.id
    BY <2>1 DEF Shapes, Indexed
  <2>5. OneRowPerId'
    BY <2>2, <2>4 DEF OneRowPerId, Same
  <2>6. NoStray' /\ \A m \in messages : m.conv # new.id
    BY <1>1, <2>2, <2>4 DEF NoStray, Exists
  <2>7. pc'[t] = "guard" /\ \A u \in Turns : u # t => pc'[u] = pc[u]
    BY <1>1
  <2>8. InFlight'
    <3> SUFFICES ASSUME NEW u \in Turns, pc'[u] \notin {"unasked", "done"}
                 PROVE  /\ req'[u].conv # 0 /\ ~orphaned[u] =>
                              \E c \in conversations' : Home(u, c)'
                        /\ pc'[u] = "loaded" /\ req'[u].isNew => home[u] = u
                        /\ pc'[u] = "loaded" /\ ~req'[u].isNew => req'[u].conv # 0
      BY <1>1 DEF InFlight
    <3>1. CASE u = t
      <4>1. home[t] = t
        BY <1>1, <1>3 DEF InFlight
      <4>2. new.id = req'[t].conv /\ new.maker = home'[t] /\ new.owner = user'[t]
        BY <4>1, <1>1, <2>1, <2>3
      <4> QED BY <3>1, <4>1, <4>2, <2>2, <2>7 DEF Home
    <3>2. CASE u # t
      <4>1. pc'[u] = pc[u] /\ req'[u] = req[u]
        BY <3>2, <2>3, <2>7
      <4> QED BY <4>1, <1>1, <2>2 DEF InFlight, Home
    <3> QED BY <3>1, <3>2
  <2>9. Unasked'
    <3> SUFFICES ASSUME NEW u \in Turns, pc'[u] = "unasked"
                 PROVE  /\ req'[u] = Fresh /\ home[u] = u /\ ~orphaned[u]
                        /\ \A m \in messages : m.turn # u
      BY <1>1 DEF Unasked
    <3>1. u # t /\ pc[u] = "unasked" /\ req'[u] = req[u]
      BY <2>3, <2>7
    <3> QED BY <3>1 DEF Unasked
  <2>10. TurnsStayHome'
    BY <1>1, <2>2, <2>6 DEF TurnsStayHome, Thread
  <2> QED BY <2>5, <2>6, <2>8, <2>9, <2>10
<1> QED BY <1>2, <1>3

\* A turn that was not orphaned writes into the row it is at home in.
LEMMA PersistHome ==
    ASSUME Shapes, HomeInv, NEW t \in Turns, Persist(t)
    PROVE  HomeInv'
<1> USE DEF HomeInv
<1>1. /\ UNCHANGED <<conversations, user, home, orphaned, req>>
      /\ pc[t] = "persist" /\ Exists(req[t].conv)
      /\ \E l \in {"title", "finally"} : pc' = [pc EXCEPT ![t] = l]
      /\ pc \in [Turns -> PCs]
  BY DEF Persist, Goto, local, Shapes, TypeOK
<1>2. \A m \in messages' \ messages : m.turn = t /\ m.conv = req[t].conv
  <2>1. messages' \subseteq messages \cup Exchange(t, NextId(messages \ Replaced(t)))
    BY DEF Persist
  <2> QED BY <2>1 DEF Exchange
<1>3. OneRowPerId' /\ NoStray'
  BY <1>1, <1>2 DEF OneRowPerId, NoStray, Exists, Same
<1>4. \A u \in Turns : \/ pc'[u] = pc[u]
                       \/ u = t /\ pc'[u] \notin {"unasked", "done", "loaded"}
  <2>1. PICK l \in {"title", "finally"} : pc' = [pc EXCEPT ![t] = l]
    BY <1>1
  <2> QED BY <1>1, <2>1
<1>5. InFlight'
  BY <1>1, <1>4 DEF InFlight, Home
<1>6. Unasked'
  BY <1>1, <1>2, <1>4 DEF Unasked
<1>7. ~orphaned[t] => \E c \in conversations : Home(t, c)
  <2>1. req[t].conv # 0
    BY <1>1 DEF Exists, Shapes, Indexed
  <2> QED BY <1>1, <2>1 DEF InFlight
<1>8. TurnsStayHome'
  BY <1>1, <1>2, <1>7 DEF TurnsStayHome, Thread, OneRowPerId, Same, Home
<1> QED BY <1>3, <1>5, <1>6, <1>8

\* A title moves nothing, whoever writes it.
LEMMA TitleHome ==
    ASSUME Shapes, HomeInv,
           (\E t \in Turns : Retitle(t)) \/ (\E c \in conversations : Rename(c))
    PROVE  HomeInv'
<1>1. ASSUME NEW t \in Turns, Retitle(t) PROVE HomeInv'
  <2>1. Titles
    <3>1. CASE conversations' = conversations
      BY <3>1 DEF Titles, Same
    <3>2. CASE conversations' # conversations
      <4>1. conversations' = {IF c.id = req[t].conv THEN [c EXCEPT !.title = t] ELSE c :
                                  c \in conversations}
        BY <1>1, <3>2 DEF Retitle
      <4>2. \A c \in conversations : Same([c EXCEPT !.title = t], c) /\ Same(c, c)
        BY DEF Same, Shapes, TypeOK, Conversation
      <4> QED BY <4>1, <4>2 DEF Titles
    <3> QED BY <3>1, <3>2
  <2>2. UNCHANGED <<messages, user, home, orphaned, req>>
    BY <1>1 DEF Retitle, local
  <2>3. \A u \in Turns : Moves(u)
    BY <1>1, <2>2 DEF Retitle, Goto, Moves, Shapes, TypeOK
  <2> QED BY <2>1, <2>2, <2>3, QuietHome
<1>2. ASSUME NEW c \in conversations, Rename(c) PROVE HomeInv'
  <2>1. \A d \in conversations : Same(d, d) /\ Same([c EXCEPT !.title = Renamed], c)
    BY DEF Same, Shapes, TypeOK, Conversation
  <2>2. conversations' = (conversations \ {c}) \cup {[c EXCEPT !.title = Renamed]}
    BY <1>2 DEF Rename
  <2>3. Titles
    BY <2>1, <2>2 DEF Titles
  <2>4. UNCHANGED <<messages, user, home, orphaned, req, pc>>
    BY <1>2 DEF Rename, local, ghost
  <2> QED BY <2>3, <2>4, QuietHome DEF Moves
<1> QED BY <1>1, <1>2

\* A conversation that goes takes its messages with it and orphans the turns that
\* were at home in it.
LEMMA GoneHome ==
    ASSUME Shapes, HomeInv, NEW gone \in SUBSET conversations,
           conversations' = conversations \ gone,
           orphaned' = Orphans(gone),
           messages' \subseteq messages,
           \A m \in messages' : \A c \in gone : m.conv # c.id,
           \A t \in Turns : \/ pc'[t] = pc[t] /\ req'[t] = req[t]
                            \/ pc'[t] = "done",
           UNCHANGED <<user, home>>
    PROVE  HomeInv'
<1> USE DEF HomeInv
<1>1. OneRowPerId'
  BY DEF OneRowPerId, Same
<1>2. NoStray'
  BY DEF NoStray, Exists
<1>3. pc \in [Turns -> PCs]
  BY DEF Shapes, TypeOK
<1>4. \A t \in Turns : /\ orphaned[t] => orphaned'[t]
                       /\ pc[t] = "unasked" => orphaned'[t] = orphaned[t]
                       /\ pc[t] \notin {"unasked", "done"} /\ ~orphaned'[t]
                            => \A c \in gone : c.id # req[t].conv
  BY <1>3 DEF Orphans, PCs, Shapes, TypeOK
<1>5. InFlight'
  <2> SUFFICES ASSUME NEW t \in Turns, pc'[t] \notin {"unasked", "done"}
               PROVE  /\ req'[t].conv # 0 /\ ~orphaned'[t] =>
                            \E c \in conversations' : Home(t, c)'
                      /\ pc'[t] = "loaded" /\ req'[t].isNew => home[t] = t
                      /\ pc'[t] = "loaded" /\ ~req'[t].isNew => req'[t].conv # 0
    BY DEF InFlight
  <2>1. pc'[t] = pc[t] /\ req'[t] = req[t]
    OBVIOUS
  <2>2. req[t].conv # 0 /\ ~orphaned'[t] => \E c \in conversations : Home(t, c) /\ c \notin gone
    BY <1>4, <2>1 DEF InFlight, Home
  <2> QED BY <2>1, <2>2 DEF InFlight, Home
<1>6. Unasked'
  <2> SUFFICES ASSUME NEW t \in Turns, pc'[t] = "unasked"
               PROVE  /\ req'[t] = Fresh /\ home[t] = t /\ ~orphaned'[t]
                      /\ \A m \in messages' : m.turn # t
    BY DEF Unasked
  <2>1. pc[t] = "unasked" /\ req'[t] = req[t]
    OBVIOUS
  <2> QED BY <1>4, <2>1 DEF Unasked
<1>7. TurnsStayHome'
  <2>1. \A m \in messages : m.turn \in Turns
    BY DEF Shapes, TypeOK, Message
  <2> QED BY <1>4, <2>1 DEF TurnsStayHome, Thread
<1> QED BY <1>1, <1>2, <1>5, <1>6, <1>7

\* The clean-up takes a row without messages.
LEMMA FinallyHome ==
    ASSUME Shapes, HomeInv, NEW t \in Turns, Finally(t)
    PROVE  HomeInv'
<1>1. /\ Empty(t) \in SUBSET conversations
      /\ conversations' = conversations \ Empty(t)
      /\ orphaned' = Orphans(Empty(t))
      /\ UNCHANGED <<messages, user, home>>
  BY DEF Finally, Empty
<1>2. \A m \in messages : \A c \in Empty(t) : m.conv # c.id
  BY DEF Empty, Thread
<1>3. \A u \in Turns : \/ pc'[u] = pc[u] /\ req'[u] = req[u]
                       \/ pc'[u] = "done"
  BY DEF Finally, Over, Goto, Shapes, TypeOK
<1> QED BY <1>1, <1>2, <1>3, GoneHome

\* Its owner takes a conversation and all it holds.
LEMMA DeleteHome ==
    ASSUME Shapes, HomeInv, NEW c \in conversations, Delete(c)
    PROVE  HomeInv'
<1>1. /\ {c} \in SUBSET conversations
      /\ conversations' = conversations \ {c} /\ orphaned' = Orphans({c})
      /\ messages' = messages \ Thread(c.id)
      /\ UNCHANGED <<user, home, pc, req>>
  BY DEF Delete, local
<1>2. \A m \in messages' : \A d \in {c} : m.conv # d.id
  BY <1>1 DEF Thread
<1>3. messages' \subseteq messages
  BY <1>1
<1> QED BY <1>1, <1>2, <1>3, GoneHome

\* A crash only ends turns.
LEMMA CrashHome == ASSUME Shapes, HomeInv, Crash PROVE HomeInv'
<1>1. UNCHANGED <<conversations, messages, user, home, orphaned>>
  BY DEF Crash, db
<1>2. Titles
  BY <1>1 DEF Titles, Same
<1>3. \A t \in Turns : Moves(t)
  BY DEF Crash, Moves, HomeInv, Unasked
<1> QED BY <1>1, <1>2, <1>3, QuietHome

\* Every step keeps the turns at home.
LEMMA NextHome == Shapes /\ HomeInv /\ [Next]_vars => HomeInv'
<1> SUFFICES ASSUME Shapes, HomeInv, [Next]_vars PROVE HomeInv'
  OBVIOUS
<1>1. CASE UNCHANGED vars
  <2>1. Titles /\ \A t \in Turns : Moves(t)
    BY <1>1 DEF vars, db, local, Titles, Same, Moves
  <2> QED BY <1>1, <2>1, QuietHome DEF vars, db, local, ghost
<1>2. ASSUME NEW t \in Turns, NEW c \in conversations,
             NEW e \in {0} \cup {s[2] : s \in shown}, Ask(t, c, e)
      PROVE  HomeInv'
  BY <1>2, AskHome
<1>3. ASSUME NEW t \in Turns,
             \/ AskNew(t) \/ Step(t) \/ Distiller(t) \/ NeverBegins(t) \/ Cut(t)
             \/ FinallyFails(t) \/ DistillFails(t)
      PROVE  HomeInv'
  BY <1>3, StepHome, BeginHome, PersistHome, TitleHome, FinallyHome DEF Step
<1>4. ASSUME NEW c \in conversations, Rename(c) \/ Delete(c) PROVE HomeInv'
  BY <1>4, TitleHome, DeleteHome
<1> QED BY <1>1, <1>2, <1>3, <1>4, CrashHome DEF Next

\* Unless its conversation was deleted under it, a turn only ever writes to the
\* conversation it was asked in, which is its user's: whatever ids are used
\* again, whatever other turns, tabs and crashes do in between.
THEOREM HomeIsKept == Spec => []TurnsStayHome
<1>1. Init => HomeInv
  BY DEF Init, HomeInv, OneRowPerId, NoStray, InFlight, Unasked, TurnsStayHome
<1>2. Spec => [](Shapes /\ HomeInv)
  BY <1>1, NextHome, InitShapes, NextShapes, PTL DEF Spec
<1> QED BY <1>2, PTL DEF HomeInv

\* For any number of tabs, turns, conversations and deletions, no conversation is
\* torn and none holds what was asked in another that still stands.
THEOREM ThreadsStayWhole == Spec => []ThreadsAreWhole
BY QuestionsKeepAnswers, HomeIsKept, PTL DEF ThreadsAreWhole

-----------------------------------------------------------------------------
(* The bill                                                                  *)

\* What a turn has spent is on its bill once it was written, but for a title or a
\* lesson whose charge is under way or lost.
Pending(t, x) ==
    \/ x = "title" /\ pc[t] = "charge"
    \/ x = "feedback" /\ task[t] \in {"charging", "lost"}

Written(t) == pc[t] \in {"title", "charge", "retitle"} \/ ending[t] = "served"

BillInv ==
    \A t \in Turns :
        /\ bill[t] \subseteq spent[t]
        /\ ~keyed => spent[t] = {}
        /\ ending[t] # "none" => pc[t] \in {"finally", "done"}
        /\ Written(t) => \A x \in spent[t] \ bill[t] : Pending(t, x)

\* The same, of one turn: what the others do does not matter.
BillOf(t) ==
    /\ bill[t] \subseteq spent[t]
    /\ ~keyed => spent[t] = {}
    /\ ending[t] # "none" => pc[t] \in {"finally", "done"}
    /\ Written(t) => \A x \in spent[t] \ bill[t] : Pending(t, x)

\* The step of a turn is its own affair.
Alone(t) ==
    \A u \in Turns \ {t} :
        /\ bill'[u] = bill[u] /\ spent'[u] = spent[u] /\ ending'[u] = ending[u]
        /\ pc'[u] = pc[u] /\ task'[u] = task[u]

LEMMA AloneBill ==
    ASSUME BillInv, NEW t \in Turns, Alone(t), BillOf(t)', keyed' = keyed
    PROVE  BillInv'
<1> SUFFICES ASSUME NEW u \in Turns PROVE BillOf(u)'
  BY DEF BillInv, BillOf
<1>1. CASE u = t
  BY <1>1
<1>2. CASE u # t
  BY <1>2 DEF BillInv, BillOf, Alone, Written, Pending
<1> QED BY <1>1, <1>2

LEMMA TurnBill ==
    ASSUME Shapes, BillInv, NEW t \in Turns,
           \/ AskNew(t) \/ Step(t) \/ Distiller(t) \/ NeverBegins(t) \/ Cut(t)
           \/ FinallyFails(t) \/ DistillFails(t)
           \/ \E c \in conversations, e \in {0} \cup {s[2] : s \in shown} : Ask(t, c, e)
    PROVE  BillInv'
<1> USE DEF Shapes, TypeOK, Goto, Costs, Ended
<1>0. BillOf(t)
  BY DEF BillInv, BillOf
<1>1. CASE AskNew(t) \/ \E c \in conversations, e \in {0} \cup {s[2] : s \in shown} : Ask(t, c, e)
  <2>1. UNCHANGED <<bill, spent, ending, task, keyed>> /\ pc' = [pc EXCEPT ![t] = "loaded"]
        /\ pc[t] = "unasked"
    BY <1>1 DEF AskNew, Ask, db, ghost
  <2>2. Alone(t) /\ BillOf(t)'
    BY <1>0, <2>1 DEF Alone, BillOf, Written, Pending
  <2> QED BY <2>1, <2>2, AloneBill
<1>2. CASE Begin(t) \/ GuardAllows(t) \/ GuardRefuses(t) \/ CacheHit(t) \/ Agent(t)
  <2>1. /\ UNCHANGED <<bill, ending, task, keyed>>
        /\ pc[t] \in {"loaded", "guard", "agent"}
        /\ \E l \in {"guard", "agent", "persist"} : pc' = [pc EXCEPT ![t] = l]
        /\ spent' = spent \/ (keyed /\ \E x : spent' = [spent EXCEPT ![t] = @ \cup {x}])
    <3>1. CASE Agent(t)
      BY <3>1 DEF Agent, Answered, db, ghost
    <3>2. CASE ~Agent(t)
      BY <1>2, <3>2 DEF Begin, GuardAllows, GuardRefuses, CacheHit, Answered, db, ghost
    <3> QED BY <3>1, <3>2
  <2>2. Alone(t) /\ BillOf(t)'
    BY <1>0, <2>1 DEF Alone, BillOf, Written, Pending
  <2> QED BY <2>1, <2>2, AloneBill
<1>3. CASE NoResult(t)
  <2>1. /\ UNCHANGED <<bill, spent, task, keyed>> /\ ~keyed
        /\ pc' = [pc EXCEPT ![t] = "finally"] /\ ending' = [ending EXCEPT ![t] = "served"]
    BY <1>3 DEF NoResult, db
  <2>2. Alone(t) /\ BillOf(t)'
    BY <1>0, <2>1 DEF Alone, BillOf, Written, Pending
  <2> QED BY <2>1, <2>2, AloneBill
<1>4. CASE Persist(t)
  <2>1. /\ UNCHANGED <<spent, keyed>> /\ bill' = [bill EXCEPT ![t] = spent[t]]
        /\ \/ UNCHANGED task
           \/ task' = [task EXCEPT ![t] = "asking"]
        /\ \/ pc' = [pc EXCEPT ![t] = "title"] /\ UNCHANGED ending
           \/ /\ pc' = [pc EXCEPT ![t] = "finally"]
              /\ ending' = [ending EXCEPT ![t] = "served"]
        /\ pc[t] = "persist"
    BY <1>4 DEF Persist, Folded
  <2>2. Alone(t) /\ BillOf(t)'
    BY <1>0, <2>1 DEF Alone, BillOf, Written, Pending
  <2> QED BY <2>1, <2>2, AloneBill
<1>5. CASE PersistRefused(t) \/ NeverBegins(t) \/ Cut(t)
  <2>1. /\ UNCHANGED <<bill, task, keyed>>
        /\ \E l \in {"finally", "done"} : pc' = [pc EXCEPT ![t] = l]
        /\ \E h \in {"failed", "cut"} : ending' = [ending EXCEPT ![t] = h]
        /\ spent' = spent \/ (keyed /\ \E x : spent' = [spent EXCEPT ![t] = @ \cup {x}])
    BY <1>5 DEF PersistRefused, NeverBegins, Cut, Over, db
  <2>2. Alone(t) /\ BillOf(t)'
    BY <1>0, <2>1 DEF Alone, BillOf, Written, Pending
  <2> QED BY <2>1, <2>2, AloneBill
<1>6. CASE Title(t)
  <2>1. /\ UNCHANGED <<bill, ending, task, keyed>> /\ pc[t] = "title"
        /\ pc' = [pc EXCEPT ![t] = "charge"]
        /\ spent' = spent \/ (keyed /\ spent' = [spent EXCEPT ![t] = @ \cup {"title"}])
    BY <1>6 DEF Title, db, ghost
  <2>2. Alone(t) /\ BillOf(t)'
    BY <1>0, <2>1 DEF Alone, BillOf, Written, Pending
  <2> QED BY <2>1, <2>2, AloneBill
<1>7. CASE Charge(t)
  <2>1. /\ UNCHANGED <<spent, ending, task, keyed>> /\ pc[t] = "charge"
        /\ pc' = [pc EXCEPT ![t] = "retitle"]
        /\ bill' = [bill EXCEPT ![t] = @ \cup (spent[t] \cap {"title"})]
    BY <1>7 DEF Charge, ghost
  <2>2. Alone(t) /\ BillOf(t)'
    BY <1>0, <2>1 DEF Alone, BillOf, Written, Pending
  <2> QED BY <2>1, <2>2, AloneBill
<1>8. CASE Retitle(t)
  <2>1. /\ UNCHANGED <<bill, spent, task, keyed>> /\ pc[t] = "retitle"
        /\ pc' = [pc EXCEPT ![t] = "finally"] /\ ending' = [ending EXCEPT ![t] = "served"]
    BY <1>8 DEF Retitle
  <2>2. Alone(t) /\ BillOf(t)'
    BY <1>0, <2>1 DEF Alone, BillOf, Written, Pending
  <2> QED BY <2>1, <2>2, AloneBill
<1>9. CASE Finally(t) \/ FinallyFails(t)
  <2>1. /\ UNCHANGED <<bill, spent, ending, task, keyed>> /\ pc[t] = "finally"
        /\ pc' = [pc EXCEPT ![t] = "done"]
    BY <1>9 DEF Finally, FinallyFails, Over, db, ghost
  <2>2. Alone(t) /\ BillOf(t)'
    BY <1>0, <2>1 DEF Alone, BillOf, Written, Pending
  <2> QED BY <2>1, <2>2, AloneBill
<1>10. CASE Distill(t)
  <2>1. /\ UNCHANGED <<bill, ending, pc, keyed>> /\ task[t] = "asking"
        /\ task' = [task EXCEPT ![t] = "charging"]
        /\ spent' = spent \/ (keyed /\ spent' = [spent EXCEPT ![t] = @ \cup {"feedback"}])
    BY <1>10 DEF Distill, db, ghost
  <2>2. Alone(t) /\ BillOf(t)'
    BY <1>0, <2>1 DEF Alone, BillOf, Written, Pending
  <2> QED BY <2>1, <2>2, AloneBill
<1>11. CASE ChargeDistill(t)
  <2>1. /\ UNCHANGED <<spent, ending, pc, keyed>> /\ task[t] = "charging"
        /\ task' = [task EXCEPT ![t] = "ended"]
        /\ bill' = [bill EXCEPT ![t] = @ \cup (spent[t] \cap {"feedback"})]
    BY <1>11 DEF ChargeDistill, ghost
  <2>2. Alone(t) /\ BillOf(t)'
    BY <1>0, <2>1 DEF Alone, BillOf, Written, Pending
  <2> QED BY <2>1, <2>2, AloneBill
<1>12. CASE DistillFails(t)
  <2>1. /\ UNCHANGED <<bill, spent, ending, pc, keyed>>
        /\ task' = [task EXCEPT ![t] = "lost"]
    BY <1>12 DEF DistillFails, db, ghost
  <2>2. Alone(t) /\ BillOf(t)'
    BY <1>0, <2>1 DEF Alone, BillOf, Written, Pending
  <2> QED BY <2>1, <2>2, AloneBill
<1> QED BY <1>1, <1>2, <1>3, <1>4, <1>5, <1>6, <1>7, <1>8, <1>9, <1>10, <1>11, <1>12
        DEF Step, Distiller

\* A death loses the charges that were under way with the turns they were of.
LEMMA CrashBill == ASSUME Shapes, BillInv, Crash PROVE BillInv'
<1> SUFFICES ASSUME NEW t \in Turns PROVE BillOf(t)'
  BY DEF BillInv, BillOf
<1>1. BillOf(t)
  BY DEF BillInv, BillOf
<1>2. /\ UNCHANGED <<bill, spent, keyed>>
      /\ pc'[t] = IF pc[t] = "unasked" THEN "unasked" ELSE "done"
      /\ ending'[t] = IF pc[t] \in {"unasked", "done"} THEN ending[t] ELSE "crashed"
      /\ task'[t] = IF task[t] \in {"asking", "charging"} THEN "lost" ELSE task[t]
  BY DEF Crash, db
<1> QED BY <1>1, <1>2 DEF BillOf, Written, Pending

LEMMA NextBill == Shapes /\ BillInv /\ [Next]_vars => BillInv'
<1> SUFFICES ASSUME Shapes, BillInv, [Next]_vars PROVE BillInv'
  OBVIOUS
<1>1. CASE UNCHANGED vars \/ \E c \in conversations : Rename(c) \/ Delete(c)
  <2>1. UNCHANGED <<bill, spent, ending, pc, task, keyed>>
    BY <1>1 DEF vars, db, ghost, Rename, Delete
  <2> QED BY <2>1 DEF BillInv, Written, Pending
<1> QED BY <1>1, TurnBill, CrashBill DEF Next

\* Whatever titles and distillers add after the row was written, and in which order:
\* the bill of a turn that was served is what it spent, unless a charge was lost.
THEOREM BillsAreFull == Spec => []BilledInFull
<1>1. Init => BillInv
  BY DEF Init, BillInv, Written, Pending
<1>2. Spec => [](Shapes /\ BillInv)
  BY <1>1, NextBill, InitShapes, NextShapes, PTL DEF Spec
<1>3. BillInv => BilledInFull
  <2> SUFFICES ASSUME BillInv, NEW t \in Turns, ending[t] = "served",
                      task[t] \in {"none", "ended"}
               PROVE  bill[t] = spent[t]
    BY DEF BilledInFull
  <2>1. pc[t] # "charge" /\ \A x \in spent[t] \ bill[t] : Pending(t, x)
    BY DEF BillInv, Written
  <2>2. bill[t] \subseteq spent[t] /\ \A x \in spent[t] : x \in bill[t]
    BY <2>1 DEF BillInv, Pending
  <2> QED BY <2>2
<1> QED BY <1>2, <1>3, PTL

-----------------------------------------------------------------------------
(* What an edit replaces, and what stays empty                               *)

\* One row per conversation, titles and all.
OneRow == \A c, d \in conversations : c.id = d.id => c = d

\* Until it is persisted nothing of a turn is in the table.
NotYet ==
    \A m \in messages : pc[m.turn] \notin {"unasked", "loaded", "guard", "agent", "persist"}

\* An empty conversation belongs to a turn that is still to write to it, or to take it
\* away.
Awaited(c) ==
    /\ pc[c.maker] \notin {"unasked", "loaded", "done"}
    /\ req[c.maker].conv = c.id /\ req[c.maker].isNew
AllAwaited == faults = 0 => \A c \in conversations : Thread(c.id) = {} => Awaited(c)

RowsInv == OneRow /\ NotYet /\ AllAwaited

\* The steps that leave both tables alone: turns move on, a kind is answered.
LEMMA QuietRows ==
    ASSUME Shapes, RowsInv, NEW t \in Turns,
           \/ AskNew(t) \/ GuardAllows(t) \/ GuardRefuses(t) \/ CacheHit(t)
           \/ Agent(t) \/ NoResult(t) \/ PersistRefused(t) \/ Title(t) \/ Charge(t)
           \/ FinallyFails(t) \/ Distiller(t)
           \/ DistillFails(t) \/ NeverBegins(t) \/ Cut(t)
           \/ \E c \in conversations, e \in {0} \cup {s[2] : s \in shown} : Ask(t, c, e)
    PROVE  RowsInv'
<1> USE DEF Shapes, TypeOK
<1>1. UNCHANGED <<conversations, messages>>
  BY DEF AskNew, GuardAllows, GuardRefuses, CacheHit, Agent, NoResult, PersistRefused, Title,
    Charge, FinallyFails, Distiller, Distill, ChargeDistill, DistillFails, NeverBegins, Cut, Ask, db
<1>2. \/ UNCHANGED <<pc, req>>
      \/ pc[t] = "unasked" /\ pc' = [pc EXCEPT ![t] = "loaded"]
            /\ \E r : req' = [req EXCEPT ![t] = r]
      \/ /\ pc[t] \notin {"unasked", "loaded", "done", "finally"}
         /\ \E l \in PCs \ {"unasked", "loaded", "done"} :
               /\ pc' = [pc EXCEPT ![t] = l]
               /\ pc[t] \notin {"guard", "agent", "persist"} => l \notin {"guard", "agent", "persist"}
         /\ UNCHANGED req \/ \E k : req' = [req EXCEPT ![t].kind = k]
      \/ /\ pc' = [pc EXCEPT ![t] = "done"] /\ req' = [req EXCEPT ![t] = Fresh]
         /\ pc[t] = "loaded" \/ faults' # 0
  <2>1. CASE Agent(t)
    BY <2>1 DEF Agent, Answered, Goto, PCs
  <2>2. CASE \E c \in conversations, e \in {0} \cup {s[2] : s \in shown} : Ask(t, c, e)
    BY <2>2 DEF Ask, Goto
  <2>3. CASE AskNew(t)
    <3>1. req' = [req EXCEPT ![t] = req[t]]
      BY <2>3 DEF AskNew, local
    <3> QED BY <2>3, <3>1 DEF AskNew, Goto
  <2>4. CASE FinallyFails(t)
    <3>1. faults' # 0
      BY <2>4 DEF FinallyFails, Fault
    <3> QED BY <2>4, <3>1 DEF FinallyFails, Over, Goto
  <2>5. CASE NeverBegins(t)
    BY <2>5 DEF NeverBegins, Over, Goto
  <2>6. CASE Distiller(t) \/ DistillFails(t)
    BY <2>6 DEF Distiller, Distill, ChargeDistill, DistillFails, local
  <2>7. CASE \/ GuardAllows(t) \/ GuardRefuses(t) \/ CacheHit(t) \/ NoResult(t)
             \/ PersistRefused(t) \/ Title(t) \/ Charge(t) \/ Cut(t)
    BY <2>7 DEF GuardAllows, GuardRefuses, CacheHit, NoResult, PersistRefused, Title, Charge, Cut,
      Running, Answered, Goto, local, PCs
  <2> QED BY <2>1, <2>2, <2>3, <2>4, <2>5, <2>6, <2>7
<1>3. faults' = 0 => faults = 0
  <2>1. CASE FinallyFails(t) \/ DistillFails(t)
    BY <2>1 DEF FinallyFails, DistillFails, Fault
  <2>2. CASE ~FinallyFails(t) /\ ~DistillFails(t)
    <3>1. UNCHANGED bounds
      BY <2>2 DEF AskNew, GuardAllows, GuardRefuses, CacheHit, Agent, NoResult, PersistRefused,
        Title, Charge, Distiller, Distill, ChargeDistill, NeverBegins, Cut, Ask
    <3> QED BY <3>1 DEF bounds
  <2> QED BY <2>1, <2>2
<1>4. OneRow' /\ NotYet'
  <2>1. \A m \in messages : m.turn \in Turns
    BY DEF Message
  <2>2. \A u \in Turns : pc'[u] \in {"unasked", "loaded", "guard", "agent", "persist"} =>
            pc[u] \in {"unasked", "loaded", "guard", "agent", "persist"}
    BY <1>2 DEF PCs
  <2> QED BY <1>1, <2>1, <2>2 DEF RowsInv, OneRow, NotYet
<1>5. AllAwaited'
  <2> SUFFICES ASSUME faults' = 0, NEW c \in conversations, Thread(c.id) = {}
               PROVE  Awaited(c)'
    BY <1>1 DEF AllAwaited, Thread
  <2>1. Awaited(c) /\ c.maker \in Turns
    BY <1>3 DEF RowsInv, AllAwaited, Conversation
  <2>2. req[t] = [conv |-> req[t].conv, isNew |-> req[t].isNew, edit |-> req[t].edit,
                  follows |-> req[t].follows, kind |-> req[t].kind]
    BY DEF Request
  <2>3. CASE c.maker # t
    BY <1>2, <2>1, <2>3 DEF Awaited
  <2>4. CASE c.maker = t
    <3>1. pc[t] \notin {"unasked", "loaded", "done"}
      BY <2>1, <2>4 DEF Awaited
    <3>2. pc'[t] \notin {"unasked", "loaded", "done"}
      BY <1>2, <3>1
    <3>3. UNCHANGED req \/ \E k : req' = [req EXCEPT ![t].kind = k]
      <4>1. faults' = 0
        OBVIOUS
      <4> QED BY <1>2, <3>1, <4>1
    <3>4. req'[t].conv = req[t].conv /\ req'[t].isNew = req[t].isNew
      <4>1. CASE \E k : req' = [req EXCEPT ![t].kind = k]
        <5>1. PICK k : req' = [req EXCEPT ![t].kind = k]
          BY <4>1
        <5>2. req'[t] = [req[t] EXCEPT !.kind = k]
          BY <5>1
        <5> QED BY <5>2, <2>2
      <4> QED BY <3>3, <4>1
    <3> QED BY <2>1, <2>4, <3>2, <3>4 DEF Awaited
  <2> QED BY <2>3, <2>4
<1> QED BY <1>4, <1>5 DEF RowsInv

\* A new conversation is awaited by the turn that made it.
LEMMA BeginRows == ASSUME Shapes, RowsInv, NEW t \in Turns, Begin(t) PROVE RowsInv'
<1> USE DEF Shapes, TypeOK
<1>1. NextId(conversations) \in Nat \ {0} /\ \A c \in conversations : c.id < NextId(conversations)
  BY NextIdIsNew
<1>2. /\ pc[t] = "loaded" /\ pc' = [pc EXCEPT ![t] = "guard"] /\ UNCHANGED <<messages, faults>>
  BY DEF Begin, Goto, bounds
<1>3. conversations' \subseteq conversations \cup {Created(t)}
      /\ Created(t).id = NextId(conversations) /\ Created(t).maker = t
  BY DEF Begin, Created
<1>4. \/ UNCHANGED req
      \/ req[t].isNew /\ req' = [req EXCEPT ![t].conv = NextId(conversations)]
  BY DEF Begin
<1>5. OneRow'
  <2> SUFFICES ASSUME NEW c \in conversations', NEW d \in conversations', c.id = d.id
               PROVE  c = d
    BY DEF OneRow
  <2>1. \A b \in conversations : b.id \in Nat
    BY DEF Conversation
  <2>2. ~(c \in conversations /\ d = Created(t)) /\ ~(d \in conversations /\ c = Created(t))
    BY <1>1, <1>3, <2>1
  <2> QED BY <1>3, <2>2 DEF RowsInv, OneRow
<1>6. NotYet'
  <2>1. \A m \in messages : m.turn \in Turns
    BY DEF Message
  <2> QED BY <1>2, <2>1 DEF RowsInv, NotYet
<1>7. AllAwaited'
  <2> SUFFICES ASSUME faults = 0, NEW c \in conversations', Thread(c.id) = {}
               PROVE  Awaited(c)'
    BY <1>2 DEF AllAwaited, Thread
  <2>1. CASE c \in conversations
    <3>1. Awaited(c) /\ c.maker \in Turns
      BY <2>1 DEF RowsInv, AllAwaited, Conversation
    <3>2. c.maker # t
      BY <1>2, <3>1 DEF Awaited
    <3> QED BY <1>2, <1>4, <3>1, <3>2 DEF Awaited
  <2>2. CASE c \notin conversations
    <3>1. c = Created(t) /\ req[t].isNew /\ req' = [req EXCEPT ![t].conv = NextId(conversations)]
      BY <1>3, <2>2 DEF Begin
    <3>2. req'[t].conv = NextId(conversations) /\ req'[t].isNew
      BY <3>1 DEF Request
    <3> QED BY <1>2, <1>3, <3>1, <3>2 DEF Awaited
  <2> QED BY <2>1, <2>2
<1> QED BY <1>5, <1>6, <1>7 DEF RowsInv

\* What a turn persists leaves its conversation with the exchange in it.
LEMMA PersistRows == ASSUME Shapes, RowsInv, NEW t \in Turns, Persist(t) PROVE RowsInv'
<1> USE DEF Shapes, TypeOK
<1> DEFINE id == NextId(messages \ Replaced(t))
           q  == [id |-> id, conv |-> req[t].conv, role |-> "user", turn |-> t]
           a  == [id |-> id + 1, conv |-> req[t].conv, role |-> "assistant", turn |-> t]
<1>1. /\ UNCHANGED <<conversations, req, faults>> /\ pc[t] = "persist"
      /\ \E l \in {"title", "finally"} : pc' = [pc EXCEPT ![t] = l]
      /\ messages' = (messages \ Replaced(t)) \cup {q, a}
  BY DEF Persist, Goto, local, bounds, Exchange
<1>2. q.conv = req[t].conv /\ q.turn = t /\ a.turn = t /\ q \in messages'
  BY <1>1
<1>3. \A m \in messages' : m \in messages \/ m = q \/ m = a
  BY <1>1
<1> HIDE DEF id, q, a
<1>4. OneRow'
  BY <1>1 DEF RowsInv, OneRow
<1>5. NotYet'
  <2>1. \A m \in messages : m.turn \in Turns
    BY DEF Message
  <2> QED BY <1>1, <1>2, <1>3, <2>1 DEF RowsInv, NotYet
<1>6. AllAwaited'
  <2> SUFFICES ASSUME faults = 0, NEW c \in conversations, Thread(c.id)' = {}
               PROVE  Awaited(c)'
    BY <1>1 DEF AllAwaited
  <2>1. c.id # req[t].conv
    BY <1>2 DEF Thread
  <2>2. Thread(c.id) = {}
    BY <1>1, <2>1 DEF Thread, Replaced
  <2>3. Awaited(c) /\ c.maker \in Turns
    BY <2>2 DEF RowsInv, AllAwaited, Conversation
  <2> QED BY <1>1, <2>3 DEF Awaited
<1> QED BY <1>4, <1>5, <1>6 DEF RowsInv

\* A title is of a row that is there.
LEMMA RetitleRows ==
    ASSUME Shapes, RowsInv, NEW t \in Turns, Retitle(t)
    PROVE  RowsInv'
<1> USE DEF Shapes, TypeOK
<1> DEFINE New(c) == IF c.id = req[t].conv THEN [c EXCEPT !.title = t] ELSE c
<1>1. /\ UNCHANGED <<messages, req, faults>> /\ pc[t] = "retitle"
      /\ pc' = [pc EXCEPT ![t] = "finally"]
      /\ conversations' = {New(c) : c \in conversations} \/ UNCHANGED conversations
  BY DEF Retitle, Goto, local, bounds
<1>2. \A c \in conversations : New(c).id = c.id /\ New(c).maker = c.maker
  BY DEF Conversation
<1> HIDE DEF New
<1>3. \A c \in conversations' : \E d \in conversations : c.id = d.id /\ c.maker = d.maker
                                                      /\ c \in {d, New(d)}
  BY <1>1, <1>2
<1>4. OneRow'
  BY <1>1, <1>2 DEF RowsInv, OneRow
<1>5. NotYet'
  <2>1. \A m \in messages : m.turn \in Turns
    BY DEF Message
  <2> QED BY <1>1, <2>1 DEF RowsInv, NotYet
<1>6. AllAwaited'
  <2> SUFFICES ASSUME faults = 0, NEW c \in conversations', Thread(c.id) = {}
               PROVE  Awaited(c)'
    BY <1>1 DEF AllAwaited, Thread
  <2>1. PICK d \in conversations : c.id = d.id /\ c.maker = d.maker
    BY <1>3
  <2>2. Awaited(d) /\ d.maker \in Turns
    BY <2>1 DEF RowsInv, AllAwaited, Conversation
  <2> QED BY <1>1, <2>1, <2>2 DEF Awaited
<1> QED BY <1>4, <1>5, <1>6 DEF RowsInv

\* A turn that ends takes what it leaves empty with it.
LEMMA FinallyRows == ASSUME Shapes, RowsInv, NEW t \in Turns, Finally(t) PROVE RowsInv'
<1> USE DEF Shapes, TypeOK
<1>1. /\ UNCHANGED <<messages, faults>> /\ pc[t] = "finally"
      /\ pc' = [pc EXCEPT ![t] = "done"] /\ req' = [req EXCEPT ![t] = Fresh]
      /\ conversations' = conversations \ Empty(t)
  BY DEF Finally, Over, Goto, bounds
<1>2. OneRow'
  BY <1>1 DEF RowsInv, OneRow
<1>3. NotYet'
  <2>1. \A m \in messages : m.turn \in Turns
    BY DEF Message
  <2> QED BY <1>1, <2>1 DEF RowsInv, NotYet
<1>4. AllAwaited'
  <2> SUFFICES ASSUME faults = 0, NEW c \in conversations, c \notin Empty(t), Thread(c.id) = {}
               PROVE  Awaited(c)'
    BY <1>1 DEF AllAwaited, Thread
  <2>1. Awaited(c) /\ c.maker \in Turns
    BY DEF RowsInv, AllAwaited, Conversation
  <2>2. c.maker # t
    BY <2>1 DEF Awaited, Empty
  <2> QED BY <1>1, <2>1, <2>2 DEF Awaited
<1> QED BY <1>2, <1>3, <1>4 DEF RowsInv

\* A deletion takes the messages of its conversation, and of no other.
LEMMA DeleteRows ==
    ASSUME Shapes, RowsInv, NEW c \in conversations, Delete(c)
    PROVE  RowsInv'
<1>1. /\ UNCHANGED <<pc, req, faults>> /\ conversations' = conversations \ {c}
      /\ messages' = messages \ Thread(c.id)
  BY DEF Delete, local
<1>2. OneRow' /\ NotYet'
  BY <1>1 DEF RowsInv, OneRow, NotYet
<1>3. \A d \in conversations' : d.id # c.id /\ Thread(d.id)' = Thread(d.id)
  BY <1>1 DEF RowsInv, OneRow, Thread
<1>4. AllAwaited'
  BY <1>1, <1>3 DEF RowsInv, AllAwaited, Awaited
<1> QED BY <1>2, <1>4 DEF RowsInv

LEMMA RenameRows ==
    ASSUME Shapes, RowsInv, NEW c \in conversations, Rename(c)
    PROVE  RowsInv'
<1> DEFINE d == [c EXCEPT !.title = Renamed]
<1>1. /\ UNCHANGED <<messages, pc, req, faults>> /\ conversations' = (conversations \ {c}) \cup {d}
  BY DEF Rename, local
<1>2. d.id = c.id /\ d.maker = c.maker
  BY DEF Shapes, TypeOK, Conversation
<1> HIDE DEF d
<1>3. OneRow' /\ NotYet'
  BY <1>1, <1>2 DEF RowsInv, OneRow, NotYet
<1>4. AllAwaited'
  BY <1>1, <1>2 DEF RowsInv, AllAwaited, Awaited, Thread
<1> QED BY <1>3, <1>4 DEF RowsInv

LEMMA CrashRows == ASSUME Shapes, RowsInv, Crash PROVE RowsInv'
<1> USE DEF Shapes, TypeOK
<1>1. UNCHANGED <<conversations, messages>> /\ faults' # 0
      /\ pc' = [t \in Turns |-> IF pc[t] = "unasked" THEN "unasked" ELSE "done"]
  BY DEF Crash, Fault, db
<1>2. \A m \in messages : m.turn \in Turns
  BY DEF Message
<1> QED BY <1>1, <1>2 DEF RowsInv, OneRow, NotYet, AllAwaited

LEMMA NextRows == Shapes /\ RowsInv /\ [Next]_vars => RowsInv'
<1> SUFFICES ASSUME Shapes, RowsInv, [Next]_vars PROVE RowsInv'
  OBVIOUS
<1>1. CASE UNCHANGED vars
  BY <1>1 DEF vars, db, local, bounds, RowsInv, OneRow, NotYet, AllAwaited, Awaited, Thread
<1> QED BY <1>1, QuietRows, BeginRows, PersistRows, RetitleRows, FinallyRows, DeleteRows,
        RenameRows, CrashRows DEF Next, Step

LEMMA AlwaysRows == Spec => [](Shapes /\ RowsInv)
<1>1. Init => RowsInv
  BY DEF Init, RowsInv, OneRow, NotYet, AllAwaited
<1> QED BY <1>1, NextRows, InitShapes, NextShapes, PTL DEF Spec

\* As long as nothing crashes and no clean-up fails, the only empty conversations are
\* those of turns that still run, for any number of them and of tabs.
THEOREM NoneStaysEmpty == Spec => []NoPhantom
<1>1. RowsInv => NoPhantom
  BY DEF RowsInv, AllAwaited, Awaited, NoPhantom
<1> QED BY <1>1, AlwaysRows, PTL

-----------------------------------------------------------------------------
(* What people see of their conversations                                    *)

\* A conversation is its maker's, who has begun and made no other; until a turn has
\* begun nothing is known of the conversation it will make.
MadeInv ==
    /\ \A c \in conversations : c.owner = user[c.maker] /\ pc[c.maker] \notin {"unasked", "loaded"}
    /\ \A c, d \in conversations : c.maker = d.maker => c.id = d.id
    /\ \A t \in Turns : pc[t] = "loaded" /\ req[t].isNew => req[t].conv = 0 /\ ~orphaned[t]
    /\ \A t \in Turns : pc[t] \in {"guard", "agent", "persist"} => req[t].conv # 0

\* All that is known of the tables and of the turns.
SaidInv == Shapes /\ PairInv /\ HomeInv /\ RowsInv /\ MadeInv

\* A question stays as it was asked, or is on its way no more.
Fades(t) ==
    /\ pc'[t] = "unasked" <=> pc[t] = "unasked"
    /\ pc'[t] = "loaded" => pc[t] = "loaded" /\ req'[t] = req[t]
    /\ pc'[t] \in {"guard", "agent", "persist"} =>
          /\ pc[t] \in {"guard", "agent", "persist"} \/ (pc[t] = "loaded" /\ ~req[t].isNew)
          /\ req'[t].edit = req[t].edit /\ req'[t].conv = req[t].conv

Quiet == Titles /\ (\A t \in Turns : Fades(t)) /\ UNCHANGED <<messages, user, home, orphaned>>

\* Nothing else is to be seen of such a step.
LEMMA QuietSaid ==
    ASSUME SaidInv, Quiet
    PROVE  MadeInv' /\ Said!GiveUp
<1> USE DEF SaidInv, Quiet
<1>1. \A c \in conversations : c.maker \in Turns
  BY DEF Shapes, TypeOK, Conversation
<1>2. MadeInv'
  <2>1. \A c \in conversations' : c.owner = user'[c.maker] /\ pc'[c.maker] \notin {"unasked", "loaded"}
    BY <1>1 DEF MadeInv, Titles, Same, Fades
  <2>2. \A c, d \in conversations' : c.maker = d.maker => c.id = d.id
    BY DEF MadeInv, Titles, Same
  <2>3. \A t \in Turns : pc'[t] = "loaded" /\ req'[t].isNew => req'[t].conv = 0 /\ ~orphaned'[t]
    BY DEF MadeInv, Fades
  <2>4. \A t \in Turns : pc'[t] \in {"guard", "agent", "persist"} => req'[t].conv # 0
    BY DEF MadeInv, Fades, HomeInv, InFlight
  <2> QED
    BY <2>1, <2>2, <2>3, <2>4 DEF MadeInv
<1>3. {c.maker : c \in conversations}' = {c.maker : c \in conversations}
  BY DEF Titles, Same
<1>4. \A k \in Turns : SaidIn(k)' = SaidIn(k)
  <2>1. \A k \in Turns : \A m \in messages : MadeBy(k, m)' <=> MadeBy(k, m)
    BY DEF MadeBy, Titles, Same
  <2>2. \A m : Place(m)' = Place(m)
    BY DEF Place
  <2> QED
    BY <2>1, <2>2 DEF SaidIn, Place
<1>5. {t \in Turns : pc[t] # "unasked"}' = {t \in Turns : pc[t] # "unasked"}
  BY DEF Fades
<1>6. {Asked(t) : t \in Asking}' \subseteq {Asked(t) : t \in Asking}
  <2>1. \A t \in Asking' : t \in Asking /\ Asked(t)' = Asked(t)
    BY DEF Asking, Asked, Fades
  <2> QED
    BY <2>1
<1> QED
  BY <1>2, <1>3, <1>4, <1>5, <1>6 DEF Said!GiveUp

\* The turns' own steps but those that write a row, and the rename of another tab.
LEMMA StepsAreQuiet ==
    ASSUME SaidInv, NEW t \in Turns,
           \/ GuardAllows(t) \/ GuardRefuses(t) \/ CacheHit(t)
           \/ Agent(t) \/ NoResult(t) \/ PersistRefused(t) \/ Title(t) \/ Charge(t)
           \/ Retitle(t) \/ FinallyFails(t) \/ Distiller(t)
           \/ DistillFails(t) \/ NeverBegins(t) \/ Cut(t)
    PROVE  Quiet
<1> USE DEF SaidInv
<1>1. UNCHANGED <<messages, user, home, orphaned>>
  BY DEF GuardAllows, GuardRefuses, CacheHit, Agent, NoResult,
     PersistRefused, Title, Charge, Retitle, FinallyFails, Distiller, Distill,
     ChargeDistill, DistillFails, NeverBegins, Cut, db, ghost, local
<1>2. Titles
  <2>1. CASE Retitle(t)
    <3>1. CASE conversations' = conversations
      BY <3>1 DEF Titles, Same
    <3>2. CASE conversations' # conversations
      <4>1. conversations' = {IF c.id = req[t].conv THEN [c EXCEPT !.title = t] ELSE c :
                                  c \in conversations}
        BY <2>1, <3>2 DEF Retitle
      <4>2. \A c \in conversations : Same([c EXCEPT !.title = t], c) /\ Same(c, c)
        BY DEF Same, Shapes, TypeOK, Conversation
      <4> QED
        BY <4>1, <4>2 DEF Titles
    <3> QED
      BY <3>1, <3>2
  <2>2. CASE ~Retitle(t)
    <3>1. conversations' = conversations
      BY <2>2 DEF GuardAllows, GuardRefuses, CacheHit, Agent, NoResult,
         PersistRefused, Title, Charge, FinallyFails, Distiller, Distill,
         ChargeDistill, DistillFails, NeverBegins, Cut, db
    <3> QED
      BY <3>1 DEF Titles, Same
  <2> QED
    BY <2>1, <2>2
<1>3. req \in [Turns -> Request] /\ pc \in [Turns -> PCs]
  BY DEF Shapes, TypeOK
<1>4. \/ UNCHANGED <<pc, req>>
      \/ /\ pc[t] \in {"guard", "agent", "persist"}
         /\ \E l \in PCs \ {"unasked", "loaded"} : pc' = [pc EXCEPT ![t] = l]
         /\ UNCHANGED req \/ \E k : req' = [req EXCEPT ![t].kind = k]
      \/ /\ pc[t] # "unasked"
         /\ \E l \in PCs \ {"unasked", "loaded", "guard", "agent", "persist"} :
               pc' = [pc EXCEPT ![t] = l]
  <2>1. CASE Agent(t)
    BY <2>1 DEF Agent, Answered, Goto, PCs
  <2>2. CASE ~Agent(t)
    BY <2>2 DEF GuardAllows, GuardRefuses, CacheHit, NoResult, Retitle,
       PersistRefused, Title, Charge, FinallyFails, Distiller, Distill, ChargeDistill,
       DistillFails, NeverBegins, Cut, Running, Answered, Over, Goto, local, PCs
  <2> QED
    BY <2>1, <2>2
<1>5. \A u \in Turns \ {t} : Fades(u)
  <2>1. \A u \in Turns \ {t} : pc'[u] = pc[u] /\ req'[u] = req[u]
    <3>1. CASE Agent(t)
      BY <1>3, <3>1 DEF Agent, Answered, Goto
    <3>2. CASE ~Agent(t)
      BY <1>3, <3>2 DEF GuardAllows, GuardRefuses, CacheHit, NoResult, Retitle,
         PersistRefused, Title, Charge, FinallyFails, Distiller, Distill, ChargeDistill,
         DistillFails, NeverBegins, Cut, Running, Answered, Over, Goto, local
    <3> QED
      BY <3>1, <3>2
  <2> QED
    BY <2>1 DEF Fades
<1>6. Fades(t)
  BY <1>3, <1>4 DEF Fades, PCs, Request
<1> QED
  BY <1>1, <1>2, <1>5, <1>6 DEF Quiet

\* A question that comes is new, and is asked in a conversation of its user.
LEMMA AskSaid ==
    ASSUME SaidInv, NEW t \in Turns,
           \/ AskNew(t)
           \/ \E c \in conversations, e \in {0} \cup {s[2] : s \in shown} : Ask(t, c, e)
    PROVE  MadeInv' /\ Said!Ask(t)
<1> USE DEF SaidInv
<1>1. /\ UNCHANGED <<conversations, messages, user, orphaned>>
      /\ pc[t] = "unasked" /\ pc' = [pc EXCEPT ![t] = "loaded"]
  BY DEF AskNew, Ask, Goto, db, ghost, local
<1>2. /\ pc \in [Turns -> PCs] /\ req \in [Turns -> Request] /\ home \in [Turns -> Turns]
  BY DEF Shapes, TypeOK
<1>3. \/ UNCHANGED <<req, home>>
      \/ \E c \in conversations : \E e : /\ c.owner = user[t]
                                       /\ req' = [req EXCEPT ![t] = Loaded(c.id, e)]
                                       /\ home' = [home EXCEPT ![t] = c.maker]
  BY DEF AskNew, Ask, OwnedBy, ghost, local
<1>4. req[t] = Fresh /\ home[t] = t /\ ~orphaned[t]
  BY <1>1 DEF HomeInv, Unasked
<1>5. \A u \in Turns \ {t} : UNCHANGED <<pc[u], req[u], home[u]>>
  BY <1>1, <1>2, <1>3
<1>6. pc'[t] = "loaded"
  BY <1>1, <1>2
<1>7. \/ req'[t] = Fresh /\ home'[t] = t
      \/ /\ ~req'[t].isNew
         /\ \E c \in conversations : c.owner = user[t] /\ home'[t] = c.maker
  <2>1. CASE UNCHANGED <<req, home>>
    BY <1>4, <2>1
  <2>2. CASE \E c \in conversations : \E e : /\ c.owner = user[t]
                                          /\ req' = [req EXCEPT ![t] = Loaded(c.id, e)]
                                          /\ home' = [home EXCEPT ![t] = c.maker]
    <3>1. PICK c \in conversations : \E e : /\ c.owner = user[t]
                                         /\ req' = [req EXCEPT ![t] = Loaded(c.id, e)]
                                         /\ home' = [home EXCEPT ![t] = c.maker]
      BY <2>2
    <3>2. ~req'[t].isNew /\ home'[t] = c.maker /\ c.owner = user[t]
      BY <1>2, <3>1 DEF Loaded
    <3> QED
      BY <3>2
  <2> QED
    BY <1>3, <2>1, <2>2
<1>8. MadeInv'
  <2>1. \A c \in conversations : c.maker \in Turns \ {t}
    BY <1>1 DEF MadeInv, Shapes, TypeOK, Conversation
  <2>2. \A c \in conversations : pc'[c.maker] \notin {"unasked", "loaded"}
    BY <1>5, <2>1 DEF MadeInv
  <2>3. \A u \in Turns : pc'[u] = "loaded" /\ req'[u].isNew => req'[u].conv = 0 /\ ~orphaned[u]
    BY <1>4, <1>5, <1>7 DEF MadeInv, Fresh
  <2>4. \A u \in Turns : pc'[u] \in {"guard", "agent", "persist"} => req'[u].conv # 0
    BY <1>5, <1>6 DEF MadeInv
  <2> QED
    BY <1>1, <2>2, <2>3, <2>4 DEF MadeInv
<1>9. Said!Ask(t)
  <2>1. {u \in Turns : pc[u] # "unasked"}' = {u \in Turns : pc[u] # "unasked"} \cup {t}
    BY <1>5, <1>6
  <2>2. /\ Asking' = Asking \cup {t} /\ t \notin Asking
        /\ \A u \in Asking : Asked(u)' = Asked(u) /\ Asked(u).turn # t
    BY <1>1, <1>5, <1>6 DEF Asking, Asked
  <2>3. {Asked(u) : u \in Asking}' = {Asked(u) : u \in Asking} \cup {Asked(t)'}
    BY <2>2
  <2>4. Asked(t)' \notin {Asked(u) : u \in Asking}
    <3>1. Asked(t)'.turn = t
      BY DEF Asked
    <3> QED
      BY <2>2, <3>1
  <2>5. Asked(t)' = Said!Question(t, Asked(t)'.home, Asked(t)'.from)
    BY <1>1, <1>2, <1>4 DEF Asked, Said!Question, Shapes, TypeOK
  <2>6. \/ Asked(t)'.home = t
        \/ /\ Asked(t)'.home \in {c.maker : c \in conversations}
           /\ user[Asked(t)'.home] = user[t]
    BY <1>7 DEF Asked, MadeInv
  <2>7. \A k \in Turns : SaidIn(k)' = SaidIn(k)
    BY <1>1 DEF SaidIn, MadeBy, Place
  <2>8. t \notin {u \in Turns : pc[u] # "unasked"}
    BY <1>1
  <2> QED
    BY <1>1, <2>1, <2>3, <2>4, <2>5, <2>6, <2>7, <2>8 DEF Said!Ask
<1> QED
  BY <1>8, <1>9

\* A conversation that is opened has no messages yet.
LEMMA BeginSaid ==
    ASSUME SaidInv, NEW t \in Turns, Begin(t)
    PROVE  /\ MadeInv'
           /\ \/ Said!GiveUp
              \/ \E q \in {Asked(u) : u \in Asking} : Said!Open(q)
<1>1. /\ UNCHANGED <<messages, user, home, orphaned>>
      /\ pc[t] = "loaded" /\ pc' = [pc EXCEPT ![t] = "guard"]
      /\ pc \in [Turns -> PCs] /\ req \in [Turns -> Request]
  BY DEF Begin, Goto, ghost, SaidInv, Shapes, TypeOK
<1>2. CASE ~req[t].isNew
  <2>1. UNCHANGED <<conversations, req>>
    BY <1>2 DEF Begin
  <2>2. Quiet
    BY <1>1, <1>2, <2>1 DEF Quiet, Titles, Same, Fades
  <2> QED
    BY <2>2, QuietSaid
<1>3. CASE req[t].isNew
  <2> USE DEF SaidInv
  <2> DEFINE new == Created(t)
  <2>1. /\ new.id = NextId(conversations) /\ new.maker = t /\ new.owner = user[t]
        /\ new.id \in Nat \ {0} /\ \A c \in conversations : c.id < new.id
    BY NextIdIsNew DEF Created, Shapes
  <2>2. conversations' = conversations \cup {new}
    BY <1>3 DEF Begin
  <2>3. \A u \in Turns : /\ req'[u].isNew = req[u].isNew /\ req'[u].edit = req[u].edit
                         /\ u # t => req'[u] = req[u]
                         /\ u = t => req'[u].conv = new.id
    BY <1>1, <1>3, <2>1 DEF Begin, Request
  <2>4. pc'[t] = "guard" /\ \A u \in Turns : u # t => pc'[u] = pc[u]
    BY <1>1
  <2>5. \A c \in conversations : c.maker \in Turns \ {t} /\ c.id \in Nat /\ c.id # new.id
    BY <1>1, <2>1 DEF MadeInv, Shapes, TypeOK, Conversation, Indexed
  <2>6. \A m \in messages : m.conv # new.id
    BY <2>5 DEF HomeInv, NoStray, Exists
  <2> HIDE DEF new
  <2>7. MadeInv'
    <3>1. \A c \in conversations' :
              c.owner = user'[c.maker] /\ pc'[c.maker] \notin {"unasked", "loaded"}
      BY <1>1, <2>1, <2>2, <2>4, <2>5 DEF MadeInv
    <3>2. \A c, d \in conversations' : c.maker = d.maker => c.id = d.id
      BY <2>1, <2>2, <2>5 DEF MadeInv
    <3>3. \A u \in Turns : pc'[u] = "loaded" /\ req'[u].isNew => req'[u].conv = 0 /\ ~orphaned'[u]
      BY <1>1, <2>3, <2>4 DEF MadeInv
    <3>4. \A u \in Turns : pc'[u] \in {"guard", "agent", "persist"} => req'[u].conv # 0
      BY <2>1, <2>3, <2>4 DEF MadeInv
    <3> QED
      BY <3>1, <3>2, <3>3, <3>4 DEF MadeInv
  <2>8. home[t] = t /\ ~orphaned[t] /\ t \in Asking
    BY <1>1, <1>3 DEF HomeInv, InFlight, MadeInv, Asking
  <2>9. {c.maker : c \in conversations}' = {c.maker : c \in conversations} \cup {t}
    BY <2>1, <2>2
  <2>10. \A k \in Turns : SaidIn(k)' = SaidIn(k)
    <3>1. \A k \in Turns : \A m \in messages : MadeBy(k, m)' <=> MadeBy(k, m)
      BY <2>2, <2>6 DEF MadeBy
    <3> QED
      BY <1>1, <3>1 DEF SaidIn, Place
  <2>11. {u \in Turns : pc[u] # "unasked"}' = {u \in Turns : pc[u] # "unasked"}
    BY <1>1, <2>4
  <2>12. {Asked(u) : u \in Asking}' = {Asked(u) : u \in Asking}
    <3>1. Asking' = Asking
      BY <1>1, <2>4 DEF Asking
    <3>2. \A u \in Asking : Asked(u)' = Asked(u)
      BY <1>1, <2>3 DEF Asking, Asked
    <3> QED
      BY <3>1, <3>2
  <2>13. /\ Asked(t).home = Asked(t).turn /\ ~Asked(t).stray /\ Asked(t).turn = t
         /\ t \notin {c.maker : c \in conversations}
    BY <2>5, <2>8 DEF Asked
  <2>14. \E q \in {Asked(u) : u \in Asking} : Said!Open(q)
    BY <1>1, <2>8, <2>9, <2>10, <2>11, <2>12, <2>13 DEF Said!Open
  <2> QED
    BY <2>7, <2>14
<1> QED
  BY <1>2, <1>3

\* What goes is a conversation, with all that was said in it and with nothing else.
LEMMA GoneSaid ==
    ASSUME SaidInv, NEW c \in conversations,
           conversations' = conversations \ {c}, orphaned' = Orphans({c}),
           messages' = messages \ Thread(c.id), UNCHANGED <<user, home>>,
           \A t \in Turns : \/ pc'[t] = pc[t] /\ req'[t] = req[t]
                            \/ pc[t] = "finally" /\ pc'[t] = "done"
    PROVE  /\ MadeInv' /\ Said!Close(c.maker)
           /\ c.maker \in {d.maker : d \in conversations}
<1> USE DEF SaidInv
<1>1. c.maker \in Turns /\ pc \in [Turns -> PCs] /\ \A d \in conversations : d.maker \in Turns
  BY DEF Shapes, TypeOK, Conversation
<1>2. \A t \in Turns : pc'[t] = "unasked" <=> pc[t] = "unasked"
  OBVIOUS
<1>3. \A d \in conversations : d = c <=> d.id = c.id
  BY DEF RowsInv, OneRow
<1>4. \A d \in conversations : d = c <=> d.maker = c.maker
  BY <1>3 DEF MadeInv
<1>5. MadeInv'
  <2>1. \A d \in conversations' : d.owner = user'[d.maker] /\ pc'[d.maker] \notin {"unasked", "loaded"}
    BY <1>1 DEF MadeInv
  <2>2. \A d, b \in conversations' : d.maker = b.maker => d.id = b.id
    BY DEF MadeInv
  <2>3. \A t \in Turns : pc'[t] = "loaded" /\ req'[t].isNew => req'[t].conv = 0 /\ ~orphaned'[t]
    <3>1. c.id # 0
      BY DEF Shapes, Indexed
    <3> QED
      BY <3>1 DEF MadeInv, Orphans
  <2>4. \A t \in Turns : pc'[t] \in {"guard", "agent", "persist"} => req'[t].conv # 0
    BY DEF MadeInv
  <2> QED
    BY <2>1, <2>2, <2>3, <2>4 DEF MadeInv
<1>6. {d.maker : d \in conversations}' = {d.maker : d \in conversations} \ {c.maker}
  BY <1>4
<1>7. \A k \in Turns : SaidIn(k)' = IF k = c.maker THEN {} ELSE SaidIn(k)
  <2>1. \A m \in messages' : ~MadeBy(c.maker, m)'
    BY <1>4 DEF MadeBy
  <2>2. ASSUME NEW k \in Turns, k # c.maker PROVE SaidIn(k)' = SaidIn(k)
    <3>1. \A m \in messages : m \in messages' /\ MadeBy(k, m)' <=> MadeBy(k, m)
      BY <1>3, <2>2 DEF MadeBy, Thread
    <3> QED
      BY <3>1 DEF SaidIn, Place
  <2> QED
    BY <2>1, <2>2 DEF SaidIn
<1>8. Asking' = Asking
  BY DEF Asking
<1>9. \A t \in Asking : Asked(t)' = [Asked(t) EXCEPT !.stray = @ \/ Asked(t).home = c.maker]
  <2> SUFFICES ASSUME NEW t \in Asking
               PROVE  Asked(t)' = [Asked(t) EXCEPT !.stray = @ \/ Asked(t).home = c.maker]
    OBVIOUS
  <2>1. /\ t \in Turns /\ pc[t] \in {"loaded", "guard", "agent", "persist"}
        /\ orphaned[t] \in BOOLEAN
    BY DEF Asking, Shapes, TypeOK
  <2>2. req'[t] = req[t]
    BY <2>1
  <2>3. orphaned'[t] = (orphaned[t] \/ req[t].conv = c.id)
    BY <2>1 DEF Orphans, PCs
  <2>4. ~orphaned[t] => (req[t].conv = c.id <=> home[t] = c.maker)
    <3> SUFFICES ASSUME ~orphaned[t]
                 PROVE  req[t].conv = c.id <=> home[t] = c.maker
      OBVIOUS
    <3>1. CASE req[t].conv # 0
      <4>1. PICK d \in conversations : d.id = req[t].conv /\ d.maker = home[t]
        BY <2>1, <3>1 DEF HomeInv, InFlight, Home
      <4> QED
        BY <1>3, <1>4, <4>1
    <3>2. CASE req[t].conv = 0
      <4>1. pc[t] = "loaded" /\ home[t] = t
        BY <2>1, <3>2 DEF MadeInv, HomeInv, InFlight
      <4>2. c.id # 0 /\ c.maker # t
        BY <4>1 DEF Shapes, Indexed, MadeInv
      <4> QED
        BY <3>2, <4>1, <4>2
    <3> QED
      BY <3>1, <3>2
  <2>5. orphaned'[t] = (orphaned[t] \/ home[t] = c.maker)
    BY <2>1, <2>3, <2>4
  <2>6. Asked(t)' = [turn |-> t, home |-> home[t], from |-> req[t].edit, stray |-> orphaned'[t]]
    BY <2>2 DEF Asked
  <2>7. [Asked(t) EXCEPT !.stray = @ \/ Asked(t).home = c.maker] =
            [turn |-> t, home |-> home[t], from |-> req[t].edit,
             stray |-> orphaned[t] \/ home[t] = c.maker]
    BY DEF Asked
  <2> QED
    BY <2>5, <2>6, <2>7
<1>10. {Asked(t) : t \in Asking}' =
           {[q EXCEPT !.stray = @ \/ q.home = c.maker] : q \in {Asked(t) : t \in Asking}}
  BY <1>8, <1>9
<1>11. {t \in Turns : pc[t] # "unasked"}' = {t \in Turns : pc[t] # "unasked"}
  BY <1>2
<1>12. [k \in Turns |-> SaidIn(k)]' = [[k \in Turns |-> SaidIn(k)] EXCEPT ![c.maker] = {}]
  BY <1>1, <1>7
<1>13. Said!Close(c.maker)
  BY <1>6, <1>10, <1>11, <1>12 DEF Said!Close
<1> QED
  BY <1>5, <1>13


\* Its owner closes a conversation.
LEMMA DeleteSaid ==
    ASSUME SaidInv, NEW c \in conversations, Delete(c)
    PROVE  /\ MadeInv' /\ Said!Close(c.maker)
           /\ c.maker \in {d.maker : d \in conversations}
<1>1. /\ conversations' = conversations \ {c} /\ orphaned' = Orphans({c})
      /\ messages' = messages \ Thread(c.id)
      /\ UNCHANGED <<user, home, pc, req>>
  BY DEF Delete, local
<1>2. \A t \in Turns : \/ pc'[t] = pc[t] /\ req'[t] = req[t]
                       \/ pc[t] = "finally" /\ pc'[t] = "done"
  BY <1>1
<1> QED
  BY <1>1, <1>2, GoneSaid

\* So does the turn that opened it, when it wrote nothing.
LEMMA FinallySaid ==
    ASSUME SaidInv, NEW t \in Turns, Finally(t)
    PROVE  /\ MadeInv'
           /\ \/ Said!GiveUp
              \/ \E k \in {d.maker : d \in conversations} : Said!Close(k)
<1>1. /\ conversations' = conversations \ Empty(t) /\ orphaned' = Orphans(Empty(t))
      /\ UNCHANGED <<messages, user, home>>
      /\ orphaned \in [Turns -> BOOLEAN]
  BY DEF Finally, SaidInv, Shapes, TypeOK
<1>2. \A u \in Turns : \/ pc'[u] = pc[u] /\ req'[u] = req[u]
                       \/ pc[u] = "finally" /\ pc'[u] = "done"
  BY DEF Finally, Over, Goto, SaidInv, Shapes, TypeOK
<1>3. CASE Empty(t) = {}
  <2>1. conversations' = conversations
    BY <1>1, <1>3
  <2>2. orphaned' = orphaned
    BY <1>1, <1>3 DEF Orphans
  <2>3. Titles
    BY <2>1 DEF Titles, Same
  <2>4. \A u \in Turns : Fades(u)
    BY <1>2 DEF Fades
  <2>5. Quiet
    BY <1>1, <2>2, <2>3, <2>4 DEF Quiet
  <2> QED
    BY <2>5, QuietSaid
<1>4. CASE Empty(t) # {}
  <2>1. PICK c \in Empty(t) : TRUE
    BY <1>4
  <2>2. c \in conversations /\ Thread(c.id) = {} /\ Empty(t) = {c}
    BY <2>1 DEF Empty, SaidInv, RowsInv, OneRow
  <2>3. conversations' = conversations \ {c} /\ orphaned' = Orphans({c})
    BY <1>1, <2>2
  <2>4. messages' = messages \ Thread(c.id)
    BY <1>1, <2>2
  <2>5. MadeInv' /\ Said!Close(c.maker) /\ c.maker \in {d.maker : d \in conversations}
    BY <1>1, <1>2, <2>2, <2>3, <2>4, GoneSaid
  <2> QED
    BY <2>5
<1> QED
  BY <1>3, <1>4

\* A crash gives up what is on its way; titles and stutters are not seen.
LEMMA OthersAreQuiet ==
    ASSUME SaidInv,
           Crash \/ UNCHANGED vars \/ \E c \in conversations : Rename(c)
    PROVE  Quiet
<1>1. CASE Crash
  <2>1. UNCHANGED <<conversations, messages, user, home, orphaned>>
    BY <1>1 DEF Crash, db
  <2>2. Titles
    BY <2>1 DEF Titles, Same
  <2>3. \A t \in Turns : Fades(t)
    BY <1>1 DEF Crash, Fades
  <2> QED
    BY <2>1, <2>2, <2>3 DEF Quiet
<1>2. CASE UNCHANGED vars
  <2>1. UNCHANGED <<conversations, messages, user, home, orphaned, pc, req>>
    BY <1>2 DEF vars, db, local, ghost
  <2> QED
    BY <2>1 DEF Quiet, Titles, Same, Fades
<1>3. ASSUME NEW c \in conversations, Rename(c) PROVE Quiet
  <2>1. \A d \in conversations : Same(d, d) /\ Same([c EXCEPT !.title = Renamed], c)
    BY DEF Same, SaidInv, Shapes, TypeOK, Conversation
  <2>2. conversations' = (conversations \ {c}) \cup {[c EXCEPT !.title = Renamed]}
    BY <1>3 DEF Rename
  <2>3. Titles
    BY <2>1, <2>2 DEF Titles
  <2>4. UNCHANGED <<messages, user, home, orphaned, req, pc>>
    BY <1>3 DEF Rename, local, ghost
  <2> QED
    BY <2>3, <2>4 DEF Quiet, Fades
<1> QED
  BY <1>1, <1>2, <1>3

\* An exchange is said at once, above all that is kept, in the conversation it was asked
\* in: what is kept is whole, and no other conversation has the id.
LEMMA PersistSaid ==
    ASSUME SaidInv, NEW t \in Turns, Persist(t)
    PROVE  /\ MadeInv'
           /\ \E k \in {c.maker : c \in conversations} : Said!Say(Asked(t), k)
           /\ Asked(t) \in {Asked(u) : u \in Asking}
<1> USE DEF SaidInv
<1> DEFINE kept == messages \ Replaced(t)
           id   == NextId(kept)
<1>1. /\ UNCHANGED <<conversations, user, home, orphaned, req>>
      /\ pc[t] = "persist" /\ Exists(req[t].conv)
      /\ \E l \in {"title", "finally"} : pc' = [pc EXCEPT ![t] = l]
      /\ pc \in [Turns -> PCs]
      /\ messages' = kept \cup Exchange(t, id)
  BY DEF Persist, Goto, local, Shapes, TypeOK
<1>2. Indexed(kept) /\ messages \subseteq Message /\ kept \subseteq messages
  BY IndexedSubset DEF Shapes, TypeOK
<1>3. id \in Nat \ {0} /\ \A m \in kept : m.id < id
  BY <1>2, NextIdIsNew
<1>4. \A m \in kept : Twin(m) \in kept
  BY KeptPairs DEF Paired
<1>5. \A m \in messages : /\ m.conv # req[t].conv => m \in kept
                          /\ m.conv = req[t].conv =>
                                (m \in kept <=> req[t].edit = 0 \/ m.id < req[t].edit)
  BY <1>2 DEF Replaced, Thread, Message, Shapes, TypeOK, Request
<1>6. \A m : m \in Exchange(t, id) <=>
            \/ m = [id |-> id, conv |-> req[t].conv, role |-> "user", turn |-> t]
            \/ m = [id |-> id + 1, conv |-> req[t].conv, role |-> "assistant", turn |-> t]
  BY DEF Exchange
<1> HIDE DEF kept, id
<1>7. PICK c \in conversations : c.id = req[t].conv
  BY <1>1 DEF Exists
<1> DEFINE k    == c.maker
           here == {m \in kept : m.conv = c.id}
           left == {m \in SaidIn(k) : req[t].edit = 0 \/ m.at < req[t].edit}
<1>8. \A m : MadeBy(k, m) <=> m.conv = c.id
  BY DEF MadeBy, MadeInv
<1>9. left = {Place(m) : m \in here}
  <2>1. left = {Place(m) : m \in {n \in messages : n.conv = c.id /\
                                      (req[t].edit = 0 \/ n.id < req[t].edit)}}
    BY <1>8 DEF SaidIn, Place
  <2>2. here = {n \in messages : n.conv = c.id /\ (req[t].edit = 0 \/ n.id < req[t].edit)}
    BY <1>2, <1>5, <1>7
  <2> QED
    BY <2>1, <2>2
<1>10. Said!Whole(left)
  <2> SUFFICES ASSUME NEW m \in here
               PROVE  \E at \in {Place(m).at, Place(m).at - 1} :
                          /\ Place(m) \in Said!Exchange(Place(m).turn, at)
                          /\ Said!Exchange(Place(m).turn, at) \subseteq left
    BY <1>9 DEF Said!Whole
  <2>1. m \in Message /\ Twin(m) \in here
    BY <1>2, <1>4 DEF Twin
  <2>2. Place(m) \in left /\ Place(Twin(m)) \in left
    BY <1>9, <2>1
  <2>3. CASE m.role = "user"
    <3>1. Said!Exchange(m.turn, m.id) = {Place(m), Place(Twin(m))}
      BY <2>1, <2>3 DEF Said!Exchange, Place, Twin, Message
    <3> QED
      BY <2>2, <3>1 DEF Place
  <2>4. CASE m.role = "assistant"
    <3>1. (m.id - 1) + 1 = m.id
      BY <2>1 DEF Message
    <3>2. Said!Exchange(m.turn, m.id - 1) = {Place(Twin(m)), Place(m)}
      BY <2>1, <2>4, <3>1 DEF Said!Exchange, Place, Twin, Message
    <3> QED
      BY <2>2, <3>2 DEF Place
  <2> QED
    BY <2>1, <2>3, <2>4 DEF Message
<1>11. SaidIn(k)' = left \cup Said!Exchange(t, id)
  <2>1. SaidIn(k)' = {Place(m) : m \in {n \in messages' : n.conv = c.id}}
    BY <1>1, <1>8 DEF SaidIn, Place, MadeBy
  <2>2. {n \in messages' : n.conv = c.id} = here \cup Exchange(t, id)
    BY <1>1, <1>6, <1>7
  <2>3. {Place(m) : m \in Exchange(t, id)} = Said!Exchange(t, id)
    BY DEF Exchange, Said!Exchange, Place
  <2> QED
    BY <1>9, <2>1, <2>2, <2>3
<1>12. ASSUME NEW j \in Turns, j # k PROVE SaidIn(j)' = SaidIn(j)
  <2>1. \A m : MadeBy(j, m) => m.conv # c.id
    BY <1>12 DEF MadeBy, RowsInv, OneRow
  <2>2. {n \in messages' : MadeBy(j, n)'} = {n \in messages : MadeBy(j, n)}
    <3>1. \A m : MadeBy(j, m)' <=> MadeBy(j, m)
      BY <1>1 DEF MadeBy
    <3> QED
      BY <1>1, <1>2, <1>5, <1>6, <1>7, <2>1, <3>1
  <2> QED
    BY <2>2 DEF SaidIn, Place
<1>13. k \in Turns
  BY DEF Shapes, TypeOK, Conversation
<1>14. [j \in Turns |-> SaidIn(j)]' =
           [[j \in Turns |-> SaidIn(j)] EXCEPT ![k] = left \cup Said!Exchange(t, id)]
  BY <1>11, <1>12, <1>13
<1>15. pc'[t] \in {"title", "finally"} /\ \A u \in Turns : u # t => pc'[u] = pc[u]
  <2>1. PICK l \in {"title", "finally"} : pc' = [pc EXCEPT ![t] = l]
    BY <1>1
  <2> QED
    BY <1>1, <2>1
<1>16. MadeInv'
  <2>1. \A d \in conversations' : d.owner = user'[d.maker] /\ pc'[d.maker] \notin {"unasked", "loaded"}
    BY <1>1, <1>15 DEF MadeInv, Shapes, TypeOK, Conversation
  <2>2. \A d, b \in conversations' : d.maker = b.maker => d.id = b.id
    BY <1>1 DEF MadeInv
  <2>3. \A u \in Turns : pc'[u] = "loaded" /\ req'[u].isNew => req'[u].conv = 0 /\ ~orphaned'[u]
    BY <1>1, <1>15 DEF MadeInv
  <2>4. \A u \in Turns : pc'[u] \in {"guard", "agent", "persist"} => req'[u].conv # 0
    BY <1>1, <1>15 DEF MadeInv
  <2> QED
    BY <2>1, <2>2, <2>3, <2>4 DEF MadeInv
<1>17. /\ Asked(t).turn = t /\ Asked(t).from = req[t].edit
       /\ Asked(t).stray \/ k = Asked(t).home
  <2>1. Asked(t).turn = t /\ Asked(t).from = req[t].edit
        /\ Asked(t).stray = orphaned[t] /\ Asked(t).home = home[t]
    BY DEF Asked
  <2>2. ASSUME ~orphaned[t] PROVE k = home[t]
    <3>1. PICK d \in conversations : d.id = req[t].conv /\ d.maker = home[t]
      BY <1>1, <2>2 DEF HomeInv, InFlight, Home, MadeInv
    <3> QED
      BY <1>7, <3>1 DEF RowsInv, OneRow
  <2> QED
    BY <2>1, <2>2
<1>18. {Asked(u) : u \in Asking}' = {Asked(u) : u \in Asking} \ {Asked(t)}
  <2>1. Asking' = Asking \ {t} /\ \A u \in Asking : Asked(u)' = Asked(u)
    BY <1>1, <1>15 DEF Asking, Asked
  <2>2. \A u \in Asking : u # t => Asked(u) # Asked(t)
    <3>1. \A u : Asked(u).turn = u
      BY DEF Asked
    <3> QED
      BY <3>1
  <2> QED
    BY <2>1, <2>2
<1>19. {u \in Turns : pc[u] # "unasked"}' = {u \in Turns : pc[u] # "unasked"}
  BY <1>1, <1>15
<1>20. k \in {d.maker : d \in conversations} /\ t \in Asking
  BY <1>1 DEF Asking
<1> DEFINE first == [at |-> id, role |-> "user", turn |-> t]
<1>21. /\ first \in SaidIn(k)' /\ first.at = id
       /\ \A n \in left : n.at < id
  BY <1>3, <1>9, <1>11 DEF Said!Exchange, Place
<1>22. Said!Say(Asked(t), k)
  <2> DEFINE threads == [j \in Turns |-> SaidIn(j)]
  <2>1. {m \in threads[k] : Asked(t).from = 0 \/ m.at < Asked(t).from} = left
    BY <1>13, <1>17
  <2>2. /\ first \in threads'[k]
        /\ threads' = [threads EXCEPT ![k] = left \cup Said!Exchange(Asked(t).turn, first.at)]
    BY <1>13, <1>14, <1>17, <1>21
  <2>3. \E m \in threads'[k] :
          /\ \A n \in left : n.at < m.at
          /\ threads' = [threads EXCEPT ![k] = left \cup Said!Exchange(Asked(t).turn, m.at)]
    <3> HIDE DEF threads, left, first
    <3> QED
      BY <1>21, <2>2
  <2> HIDE DEF left
  <2> QED
    BY <1>1, <1>10, <1>17, <1>18, <1>19, <1>20, <2>1, <2>3 DEF Said!Say
<1> QED
  BY <1>16, <1>20, <1>22

\* Every step is one that people may see, or none.
LEMMA NextSaid ==
    ASSUME SaidInv, [Next]_vars
    PROVE  MadeInv' /\ [Said!Next]_(Said!conversationVars)
<1>1. CASE \E t \in Turns : \/ AskNew(t)
                           \/ \E c \in conversations, e \in {0} \cup {s[2] : s \in shown} : Ask(t, c, e)
  BY <1>1, AskSaid DEF Said!Next
<1>2. CASE \E t \in Turns : Begin(t)
  BY <1>2, BeginSaid DEF Said!Next
<1>3. CASE \E t \in Turns : Persist(t)
  BY <1>3, PersistSaid DEF Said!Next
<1>4. CASE \E t \in Turns : Finally(t)
  BY <1>4, FinallySaid DEF Said!Next
<1>5. CASE \E c \in conversations : Delete(c)
  BY <1>5, DeleteSaid DEF Said!Next
<1>6. CASE Crash \/ UNCHANGED vars \/ \E c \in conversations : Rename(c)
  BY <1>6, OthersAreQuiet, QuietSaid DEF Said!Next
<1>7. CASE \E t \in Turns : \/ GuardAllows(t) \/ GuardRefuses(t) \/ CacheHit(t)
                           \/ Agent(t) \/ NoResult(t) \/ PersistRefused(t) \/ Title(t)
                           \/ Charge(t) \/ Retitle(t) \/ FinallyFails(t) \/ Distiller(t)
                           \/ DistillFails(t) \/ NeverBegins(t) \/ Cut(t)
  BY <1>7, StepsAreQuiet, QuietSaid DEF Said!Next
<1> QED
  BY <1>1, <1>2, <1>3, <1>4, <1>5, <1>6, <1>7 DEF Next, Step

\* Whatever tabs, edits, deletions, crashes and lost clients do in between, for any number
\* of them: an exchange is said at once and once, in the conversation it was asked in, and
\* nothing is dropped but by the exchange that replaces it or with its conversation.
THEOREM ConversationsAreKept == Spec => ConversationSpec
<1>1. Init => PairInv /\ HomeInv /\ RowsInv /\ MadeInv
  BY DEF Init, PairInv, Parity, Paired, Fresh, HomeInv, OneRowPerId, NoStray, InFlight,
     Unasked, TurnsStayHome, RowsInv, OneRow, NotYet, AllAwaited, MadeInv
<1>2. Init => Said!Init
  <2> SUFFICES ASSUME Init PROVE Said!Init
    OBVIOUS
  <2>1. \A k \in Turns : SaidIn(k) = {}
    BY DEF Init, SaidIn
  <2>2. Asking = {}
    BY DEF Init, Asking
  <2> QED
    BY <2>1, <2>2 DEF Init, Said!Init
<1>3. SaidInv /\ [Next]_vars => SaidInv'
  <2>1. Shapes /\ PairInv /\ [Next]_vars => PairInv'
    BY StepPairs, AskPairs, PersistPairs, OtherPairs DEF Next, Step
  <2> QED
    BY <2>1, NextShapes, NextHome, NextRows, NextSaid DEF SaidInv
<1>4. SaidInv /\ [Next]_vars => [Said!Next]_(Said!conversationVars)
  BY NextSaid
<1>5. Init => SaidInv
  BY <1>1, InitShapes DEF SaidInv
<1> QED
  BY <1>2, <1>3, <1>4, <1>5, PTL DEF Spec, ConversationSpec, Said!Spec
=============================================================================
