----------------------------- MODULE AccessProofs -----------------------------
(* Theorems about Access for every value of its constants.                 *)
EXTENDS Access, FiniteSetTheorems, TLAPS

-----------------------------------------------------------------------------
(* Types                                                                     *)

\* A key's id is the number of keys minted before it, so the keys are finite.
Shapes == TypeOK /\ IsFiniteSet(keys)

\* The initial states are well typed.
LEMMA InitShapes == Init => Shapes
<1> SUFFICES ASSUME Init PROVE Shapes
  OBVIOUS
<1>1. IsFiniteSet(keys)
  BY FS_EmptySet DEF Init
<1>2. TypeOK
  <2>1. /\ allowlist \subseteq Emails /\ users \subseteq Emails
        /\ admins \subseteq users /\ listed \subseteq Emails
    BY DEF Init
  <2>2. calls \in [Slots -> Call \cup {Idle}]
    BY DEF Init
  <2>3. 0 \in Epochs /\ 0 \in 0..MaxBoots
    BY ConstantsAssumption DEF Epochs
  <2> QED BY <2>1, <2>2, <2>3 DEF Init, TypeOK
<1> QED BY <1>1, <1>2 DEF Shapes

\* A request in flight is a call, whose fields have their types.
LEMMA CallShapes ==
    ASSUME TypeOK, NEW s \in Slots, calls[s].op # "none"
    PROVE  calls[s] \in Call
BY DEF TypeOK, Idle

\* A slot takes a call, or becomes free.
LEMMA PutShapes ==
    ASSUME TypeOK, NEW s \in Slots, NEW c \in Call \cup {Idle}, Put(s, c)
    PROVE  calls' \in [Slots -> Call \cup {Idle}]
BY DEF TypeOK, Put

\* A transaction writes for a call and frees its slot.
LEMMA WriterShapes ==
    ASSUME TypeOK, NEW s \in Slots, NEW op \in Ops, Writes(s, op)
    PROVE  calls[s] \in Call /\ calls' \in [Slots -> Call \cup {Idle}]
<1>1. op # "none"
  BY DEF Ops, Named, Many, Others
<1>2. calls[s] \in Call
  BY <1>1, CallShapes DEF Writes, Is
<1>3. calls' \in [Slots -> Call \cup {Idle}]
  BY PutShapes DEF Writes, Over
<1> QED BY <1>2, <1>3

\* Whether something is a member of a set is a truth value.
LEMMA MembershipIsBoolean == ASSUME NEW x, NEW S PROVE (x \in S) \in BOOLEAN
OBVIOUS

\* What a request reads changes no table.
LEMMA ReadShapes ==
    ASSUME Shapes, NEW s \in Slots,
           \/ AskAdmin(s) \/ Check(s) \/ CountKeys(s)
           \/ \E e \in Emails : AskLink(s, e) \/ AskProvider(s, e) \/ AskKey(s, e)
    PROVE  Shapes'
<1> USE DEF Shapes, TypeOK
<1>0. 0 \in Epochs /\ \A e \in Emails : removals[e] \in Epochs
  BY ConstantsAssumption DEF Epochs
<1>1. \E c \in Call \cup {Idle} : Put(s, c)
  <2>1. CASE AskAdmin(s)
    <3>1. PICK op \in Named \cup Many \cup {"add", "mint for"}, S \in SUBSET Emails,
              grant \in BOOLEAN :
              Put(s, Request(op, S, grant, op \in Many \cup {"add"}))
      BY <2>1 DEF AskAdmin
    <3>2. Request(op, S, grant, op \in Many \cup {"add"}) \in Call
      <4>1. op \in Ops
        BY DEF Ops
      <4>2. \A b \in BOOLEAN : Request(op, S, grant, b) \in Call
        BY <4>1, <1>0 DEF Request, Call
      <4>3. (op \in Many \cup {"add"}) \in BOOLEAN
        BY MembershipIsBoolean
      <4> QED BY ONLY <4>2, <4>3, Zenon
    <3> QED BY <3>1, <3>2
  <2>2. CASE Check(s)
    <3>1. calls[s] \in Call
      BY <2>2, CallShapes DEF Check, Reads
    <3>2. [calls[s] EXCEPT !.checked = TRUE] \in Call
      BY <3>1 DEF Call
    <3> QED BY <2>2, <3>2 DEF Check, Over, Checked
  <2>3. CASE CountKeys(s)
    <3>1. calls[s] \in Call
      BY <2>3, CallShapes DEF CountKeys, Reads
    <3>2. [calls[s] EXCEPT !.checked = TRUE] \in Call
      BY <3>1 DEF Call
    <3> QED BY <2>3, <3>2 DEF CountKeys, Over, Checked
  <2>4. ASSUME NEW e \in Emails, AskLink(s, e) \/ AskProvider(s, e)
        PROVE  \E c \in Call : Put(s, c)
    BY <2>4, <1>0 DEF AskLink, AskProvider, Request, Call, Ops, Others
  <2>5. ASSUME NEW e \in Emails, AskKey(s, e) PROVE \E c \in Call : Put(s, c)
    BY <2>5, <1>0 DEF AskKey, Request, Call, Ops, Others
  <2> QED BY <2>1, <2>2, <2>3, <2>4, <2>5
<1>2. calls' \in [Slots -> Call \cup {Idle}]
  BY <1>1, PutShapes
<1>3. UNCHANGED <<people, asks, links, sessions, keys, config, hist>>
  BY DEF AskAdmin, Check, CountKeys, AskLink, AskProvider, AskKey
<1> QED BY <1>2, <1>3 DEF people, asks, config, hist

\* The flag given and taken.
LEMMA FlagShapes ==
    ASSUME Shapes, NEW s \in Slots,
           Promote(s) \/ PromoteAll(s) \/ Demote(s) \/ DemoteAll(s)
    PROVE  Shapes'
<1> USE DEF Shapes, TypeOK
<1>1. \E op \in Ops : Writes(s, op)
  BY DEF Promote, PromoteAll, Demote, DemoteAll, Ops, Named, Many
<1>2. calls[s] \in Call /\ calls' \in [Slots -> Call \cup {Idle}]
  BY <1>1, WriterShapes
<1>3. calls[s].on \subseteq Emails
  BY <1>2 DEF Call
<1>4. \E S \in SUBSET Emails : Promoted(S) \/ Demoted(S)
  BY <1>3 DEF Promote, PromoteAll, Demote, DemoteAll
<1> QED BY <1>2, <1>4 DEF Promoted, Demoted, Known, asks, config, hist

\* A function's values on a finite domain are finitely many.
LEMMA FiniteImage ==
    ASSUME NEW D, IsFiniteSet(D), NEW g, g = [x \in D |-> g[x]]
    PROVE  IsFiniteSet({g[x] : x \in D})
<1> DEFINE T == {g[x] : x \in D}
<1>1. g \in Surjection(D, T)
  BY DEF Surjection
<1> QED BY <1>1, FS_Surjection

\* Revoking keys keeps them keys, and as many as there are.
LEMMA KeysRevokedShapes ==
    ASSUME Shapes, NEW S
    PROVE  KeysRevoked(S) \subseteq Key /\ IsFiniteSet(KeysRevoked(S))
<1> DEFINE f(k) == [k EXCEPT !.live = @ /\ k.owner \notin S]
<1>1. \A k \in Key : f(k) \in Key
  <2> SUFFICES ASSUME NEW k \in Key PROVE f(k) \in Key
    OBVIOUS
  <2>1. \A b \in BOOLEAN : [k EXCEPT !.live = b] \in Key
    BY DEF Key
  <2>2. (k.live /\ k.owner \notin S) \in BOOLEAN
    OBVIOUS
  <2> QED BY ONLY <2>1, <2>2, Zenon
<1>2. KeysRevoked(S) = {f(k) : k \in keys}
  BY DEF KeysRevoked
<1>3. KeysRevoked(S) \subseteq Key
  BY <1>1, <1>2 DEF Shapes, TypeOK
<1>4. IsFiniteSet(KeysRevoked(S))
  <2> DEFINE g == [k \in keys |-> f(k)]
  <2>1. KeysRevoked(S) = {g[k] : k \in keys}
    <3> HIDE DEF f
    <3> QED BY <1>2
  <2>2. g = [k \in keys |-> g[k]]
    <3> HIDE DEF f
    <3> QED OBVIOUS
  <2> HIDE DEF g
  <2> QED BY <2>1, <2>2, FiniteImage DEF Shapes
<1> QED BY <1>3, <1>4

\* A decision on mailboxes.
LEMMA DecidedShapes ==
    ASSUME TypeOK, NEW S, NEW v \in {"none", "blocked", "cleared"}, Decided(S, v)
    PROVE  verdict' \in [Mailboxes -> {"none", "blocked", "cleared"}]
BY DEF TypeOK, Decided

\* Removals.
LEMMA RemovalShapes ==
    ASSUME Shapes, NEW s \in Slots, Remove(s) \/ RemoveAll(s)
    PROVE  Shapes'
<1> USE DEF Shapes, TypeOK
<1>1. \E op \in Ops : Writes(s, op)
  BY DEF Remove, RemoveAll, Ops, Named, Many
<1>2. calls[s] \in Call /\ calls' \in [Slots -> Call \cup {Idle}]
  BY <1>1, WriterShapes
<1>3. calls[s].on \subseteq Emails
  BY <1>2 DEF Call
<1>4. PICK S \in SUBSET Emails : Removed(S)
  BY <1>3 DEF Remove, RemoveAll
<1>5. removals' \in [Emails -> Epochs]
  <2>1. \A e \in S : removals[e] + 1 \in Epochs
    BY <1>4, ConstantsAssumption DEF Removed, Epochs
  <2> QED BY <1>4, <2>1 DEF Removed
<1>6. keys' \subseteq Key /\ IsFiniteSet(keys')
  BY <1>4, KeysRevokedShapes DEF Removed
<1>7. verdict' \in [Mailboxes -> {"none", "blocked", "cleared"}]
  BY <1>4, DecidedShapes DEF Removed
<1>8. denied' \subseteq Emails /\ out' \subseteq Emails
  BY <1>4 DEF Removed
<1>9. /\ allowlist' \subseteq Emails /\ admins' \subseteq users'
      /\ sessions' \subseteq Session /\ \A t \in sessions' : t.owner \in users'
  BY <1>4 DEF Removed, SessionsLeft
<1> QED BY <1>2, <1>4, <1>5, <1>6, <1>7, <1>8, <1>9 DEF Removed, config

\* Approvals, denials and their undoing.
LEMMA RequestShapes ==
    ASSUME Shapes, NEW s \in Slots,
           Add(s) \/ Approve(s) \/ Import(s) \/ Deny(s) \/ Unblock(s)
    PROVE  Shapes'
<1> USE DEF Shapes, TypeOK
<1>1. \E op \in Ops : Writes(s, op)
  BY DEF Add, Approve, Import, Deny, Unblock, Ops, Many
<1>2. calls[s] \in Call /\ calls' \in [Slots -> Call \cup {Idle}]
  BY <1>1, WriterShapes
<1>3. calls[s].on \subseteq Emails
  BY <1>2 DEF Call
<1>4. CASE Add(s) \/ Approve(s)
  <2>1. PICK S \in SUBSET Emails, grant \in BOOLEAN : Approved(S, grant)
    BY <1>2, <1>3, <1>4 DEF Add, Approve, Call
  <2>2. verdict' \in [Mailboxes -> {"none", "blocked", "cleared"}]
    BY <2>1, DecidedShapes DEF Approved
  <2>3. users' \subseteq Emails /\ users \subseteq users' /\ admins' \subseteq users'
    BY <2>1 DEF Approved, Known
  <2> QED BY <1>2, <2>1, <2>2, <2>3 DEF Approved, config
<1>5. CASE Import(s)
  <2>1. users' \subseteq Emails /\ users \subseteq users' /\ admins' \subseteq users'
    BY <1>3, <1>5 DEF Import, Known
  <2> QED BY <1>2, <1>3, <1>5, <2>1 DEF Import, asks, config
<1>6. CASE Deny(s)
  <2>1. verdict' \in [Mailboxes -> {"none", "blocked", "cleared"}]
    BY <1>6, DecidedShapes DEF Deny
  <2> QED BY <1>2, <1>6, <2>1 DEF Deny, people, config
<1>7. CASE Unblock(s)
  <2>1. verdict' \in [Mailboxes -> {"none", "blocked", "cleared"}]
    BY <1>7, DecidedShapes DEF Unblock
  <2> QED BY <1>2, <1>7, <2>1 DEF Unblock, people, config
<1> QED BY <1>4, <1>5, <1>6, <1>7

\* Links and sessions.
LEMMA SignInShapes ==
    ASSUME Shapes,
           \/ \E s \in Slots : MintLink(s) \/ FileRequest(s) \/ SignIn(s)
           \/ \E e \in Emails : VerifyLink(e)
           \/ SessionEnds \/ LinkExpires
    PROVE  Shapes'
<1> USE DEF Shapes, TypeOK
<1>1. ASSUME NEW s \in Slots, MintLink(s) \/ FileRequest(s) \/ SignIn(s)
      PROVE  Shapes'
  <2>1. \E op \in Ops : Writes(s, op)
    BY <1>1 DEF MintLink, FileRequest, SignIn, Ops, Others
  <2>2. calls[s] \in Call /\ calls' \in [Slots -> Call \cup {Idle}]
    BY <2>1, WriterShapes
  <2>3. calls[s].on \subseteq Emails
    BY <2>2 DEF Call
  <2>4. CASE SignIn(s)
    <3>1. \A f \in calls[s].on : NewSession(f) \in Session
      BY <2>3 DEF NewSession, Session
    <3>2. users' = users \cup calls[s].on
      BY <2>4 DEF SignIn, Known
    <3>3. sessions' = sessions \cup {NewSession(f) : f \in calls[s].on}
      BY <2>4 DEF SignIn
    <3>4. sessions' \subseteq Session /\ \A t \in sessions' : t.owner \in users'
      BY <3>1, <3>2, <3>3 DEF NewSession
    <3> QED BY <2>2, <2>3, <2>4, <3>2, <3>4 DEF SignIn, asks, config, hist
  <2> QED BY <1>1, <2>2, <2>3, <2>4 DEF MintLink, FileRequest, people, asks, config, hist
<1>2. ASSUME NEW e \in Emails, VerifyLink(e) PROVE Shapes'
  <2>1. NewSession(e) \in Session /\ NewSession(e).owner = e
    BY DEF NewSession, Session
  <2> QED BY <1>2, <2>1 DEF VerifyLink, Known, asks, config, hist
<1>3. CASE SessionEnds \/ LinkExpires
  BY <1>3 DEF SessionEnds, LinkExpires, people, asks, config, hist
<1> QED BY <1>1, <1>2, <1>3

\* Keys.
LEMMA KeyShapes ==
    ASSUME Shapes, NEW k \in keys, Revoke(k)
    PROVE  Shapes'
<1> USE DEF Shapes, TypeOK
<1>1. [k EXCEPT !.live = FALSE] \in Key
  BY DEF Key
<1>2. keys' \subseteq Key
  BY <1>1 DEF Revoke
<1>3. IsFiniteSet(keys')
  <2>1. IsFiniteSet(keys \ {k})
    BY FS_RemoveElement
  <2>2. IsFiniteSet((keys \ {k}) \cup {[k EXCEPT !.live = FALSE]})
    BY <2>1, FS_AddElement
  <2> QED BY <2>2 DEF Revoke
<1> QED BY <1>2, <1>3 DEF Revoke, people, asks, config, hist

LEMMA MintShapes ==
    ASSUME Shapes, NEW s \in Slots, Mint(s)
    PROVE  Shapes'
<1> USE DEF Shapes, TypeOK
<1> DEFINE new(e) == [id |-> Cardinality(keys) + 1, owner |-> e, live |-> TRUE,
                      born |-> removals[e]]
           born == {new(e) : e \in calls[s].on}
<1>1. \E op \in Ops : Writes(s, op)
  BY DEF Mint, Ops, Others
<1>2. calls[s] \in Call /\ calls' \in [Slots -> Call \cup {Idle}]
  BY <1>1, WriterShapes
<1>3. calls[s].on \subseteq Emails /\ \A e \in Emails : removals[e] \in Epochs
  BY <1>2 DEF Call
<1>4. Cardinality(keys) \in Nat /\ Cardinality(keys) + 1 \in 1..MaxKeys
  <2>1. Cardinality(keys) \in Nat
    BY FS_CardinalityType
  <2>2. Cardinality(keys) < MaxKeys /\ MaxKeys \in Nat
    BY ConstantsAssumption DEF Mint
  <2> QED BY ONLY <2>1, <2>2
<1>5. keys' = keys \cup born
  BY DEF Mint
<1>6. born \subseteq Key
  <2>1. \A e \in calls[s].on : new(e) \in Key
    BY <1>3, <1>4 DEF Key
  <2> QED BY <2>1
<1>7. IsFiniteSet(born)
  <2> DEFINE g == [e \in calls[s].on |-> new(e)]
  <2> HIDE DEF new
  <2>1. IsFiniteSet(calls[s].on)
    BY <1>3, FS_Subset, ConstantsAssumption
  <2>2. g = [e \in calls[s].on |-> g[e]] /\ born = {g[e] : e \in calls[s].on}
    OBVIOUS
  <2>3. IsFiniteSet({g[e] : e \in calls[s].on})
    <3> HIDE DEF g
    <3> QED BY ONLY <2>1, <2>2, FiniteImage
  <2> QED BY ONLY <2>2, <2>3
<1>8. keys' \subseteq Key /\ IsFiniteSet(keys')
  <2> HIDE DEF born
  <2> QED BY <1>5, <1>6, <1>7, FS_Union
<1> QED BY <1>2, <1>8 DEF Mint, people, asks, config, hist

\* The boot.
LEMMA BootShapes ==
    ASSUME Shapes, Boot
    PROVE  Shapes'
<1> USE DEF Shapes, TypeOK
<1>1. boots' \in 0..MaxBoots
  BY ConstantsAssumption DEF Boot
<1>2. requested' \in Methods /\ method' \in {"magic_link", "idp", "down"}
  BY ConstantsAssumption DEF Boot
<1>3. calls' \in [Slots -> Call \cup {Idle}]
  BY DEF Boot
<1>4. PICK E \in SUBSET Emails :
        /\ allowlist' = allowlist \cup Granted(E)
        /\ users' = users \cup Granted(E) /\ admins' = admins \cup Granted(E)
        /\ marked' = TRUE /\ applied' = applied \cup E
        /\ listed' = IF marked THEN listed \cup E ELSE E
        /\ out' = out \ Granted(E)
  BY ConstantsAssumption DEF Boot, Known
<1>5. Granted(E) \subseteq Emails
  BY DEF Granted
<1> QED BY <1>1, <1>2, <1>3, <1>4, <1>5 DEF Boot, asks

\* Every step keeps the types.
LEMMA NextShapes == Shapes /\ [Next]_vars => Shapes'
<1> SUFFICES ASSUME Shapes, [Next]_vars PROVE Shapes'
  OBVIOUS
<1>1. CASE Boot
  BY <1>1, BootShapes
<1>2. ASSUME NEW s \in Slots, Administer(s) PROVE Shapes'
  BY <1>2, ReadShapes, FlagShapes, RemovalShapes, RequestShapes DEF Administer
<1>3. ASSUME NEW s \in Slots, Visit(s) PROVE Shapes'
  BY <1>3, ReadShapes, SignInShapes, MintShapes DEF Visit
<1>4. ASSUME NEW e \in Emails, VerifyLink(e) PROVE Shapes'
  BY <1>4, SignInShapes
<1>5. ASSUME NEW k \in keys, Revoke(k) PROVE Shapes'
  BY <1>5, KeyShapes
<1>6. CASE SessionEnds \/ LinkExpires
  BY <1>6, SignInShapes
<1>7. CASE UNCHANGED vars
  BY <1>7 DEF Shapes, TypeOK, vars, people, asks, config, hist
<1> QED BY <1>1, <1>2, <1>3, <1>4, <1>5, <1>6, <1>7 DEF Next

LEMMA ShapesHold == Spec => []Shapes
BY InitShapes, NextShapes, PTL DEF Spec

\* Every reachable state is well typed: admins and session owners are users.
THEOREM TypeCorrect == Spec => []TypeOK
<1>1. Shapes => TypeOK
  BY DEF Shapes
<1> QED BY <1>1, ShapesHold, PTL

-----------------------------------------------------------------------------
(* Blocks                                                                    *)

\* What happens to an address depends on the last decision on its mailbox only,
\* when that decision leaves no denied row of the mailbox or makes one.
LEMMA DecisionIsLastWord ==
    ASSUME TypeOK, BlockIsLastWord, NEW S \in SUBSET Emails,
           \/ denied' = denied \ Group(S) /\ Decided(S, "cleared")
           \/ /\ denied' \subseteq denied \cup Group(S)
              /\ denied \subseteq denied'
              /\ \A e \in S : \E f \in denied' : Canon[f] = Canon[e]
              /\ Decided(S, "blocked")
    PROVE  BlockIsLastWord'
<1> SUFFICES ASSUME NEW e \in Emails
             PROVE  Blocked(e)' <=> verdict'[Canon[e]] = "blocked"
  BY DEF BlockIsLastWord
<1>1. Blocked(e) <=> verdict[Canon[e]] = "blocked"
  BY DEF BlockIsLastWord
<1>2. Canon[e] \in Mailboxes
  BY DEF Mailboxes
<1>3. CASE denied' = denied \ Group(S) /\ Decided(S, "cleared")
  <2>1. verdict'[Canon[e]] = IF \E f \in S : Canon[f] = Canon[e] THEN "cleared"
                                                      ELSE verdict[Canon[e]]
    BY <1>2, <1>3 DEF Decided
  <2> QED BY <1>1, <1>3, <2>1 DEF Blocked, Group, TypeOK
<1>4. CASE /\ denied' \subseteq denied \cup Group(S) /\ denied \subseteq denied'
           /\ \A f \in S : \E g \in denied' : Canon[g] = Canon[f]
           /\ Decided(S, "blocked")
  <2>1. verdict'[Canon[e]] = IF \E f \in S : Canon[f] = Canon[e] THEN "blocked"
                                                      ELSE verdict[Canon[e]]
    BY <1>2, <1>4 DEF Decided
  <2>2. CASE \E f \in S : Canon[f] = Canon[e]
    BY <1>4, <2>1, <2>2 DEF Blocked
  <2>3. CASE ~\E f \in S : Canon[f] = Canon[e]
    <3>1. Blocked(e)' <=> Blocked(e)
      BY <1>4, <2>3 DEF Blocked, Group
    <3> QED BY <1>1, <2>1, <2>3, <3>1
  <2> QED BY <2>2, <2>3
<1> QED BY <1>3, <1>4

\* The steps that leave the denials and the decisions alone.
LEMMA UndecidedIsLastWord ==
    ASSUME BlockIsLastWord, UNCHANGED <<denied, verdict>>
    PROVE  BlockIsLastWord'
BY DEF BlockIsLastWord, Blocked

\* Removing people blocks the mailbox of each of them, or nobody's.
LEMMA RemovedIsLastWord ==
    ASSUME TypeOK, BlockIsLastWord, NEW S \in SUBSET Emails, Removed(S)
    PROVE  BlockIsLastWord'
<1>1. CASE requested # "magic_link"
  <2>1. denied' = denied \cup {e \in S : ~Blocked(e)} /\ Decided(S, "blocked")
    BY <1>1 DEF Removed
  <2>2. denied' \subseteq denied \cup Group(S)
    BY <2>1 DEF Group
  <2>3. \A e \in S : \E f \in denied' : Canon[f] = Canon[e]
    BY <2>1 DEF Blocked
  <2> QED BY <2>1, <2>2, <2>3, DecisionIsLastWord
<1>2. CASE requested = "magic_link"
  BY <1>2, UndecidedIsLastWord DEF Removed
<1> QED BY <1>1, <1>2

\* Every step keeps it.
LEMMA NextIsLastWord ==
    ASSUME TypeOK, BlockIsLastWord, [Next]_vars
    PROVE  BlockIsLastWord'
<1>1. CASE Boot
  BY <1>1, UndecidedIsLastWord DEF Boot, asks
<1>2. ASSUME NEW s \in Slots, Administer(s) PROVE BlockIsLastWord'
  <2>1. CASE \/ AskAdmin(s) \/ Check(s)
             \/ Promote(s) \/ PromoteAll(s) \/ Demote(s) \/ DemoteAll(s) \/ Import(s)
    BY <2>1, UndecidedIsLastWord
       DEF AskAdmin, Check, Promote, PromoteAll, Demote, DemoteAll, Import,
           Promoted, Demoted, asks, hist
  <2>2. ASSUME NEW op \in Ops, Writes(s, op) PROVE calls[s].on \in SUBSET Emails
    BY <2>2, WriterShapes DEF Call
  <2>3. CASE Remove(s) \/ RemoveAll(s)
    <3>1. \E S \in SUBSET Emails : Removed(S)
      BY <2>2, <2>3 DEF Remove, RemoveAll, Ops, Named, Many
    <3> QED BY <3>1, RemovedIsLastWord
  <2>4. CASE Add(s) \/ Approve(s)
    <3>1. \E S \in SUBSET Emails, grant \in {FALSE, calls[s].grant} : Approved(S, grant)
      BY <2>2, <2>4 DEF Add, Approve, Ops, Many
    <3>2. \E S \in SUBSET Emails : denied' = denied \ Group(S) /\ Decided(S, "cleared")
      BY <3>1 DEF Approved, Resolved
    <3> QED BY <3>2, DecisionIsLastWord
  <2>5. CASE Deny(s)
    <3> DEFINE rows == pending \cap Group(calls[s].on)
    <3>1. denied' = denied \cup rows /\ Decided(rows, "blocked") /\ rows \in SUBSET Emails
      BY <2>5 DEF Deny, Group
    <3>2. rows \subseteq Group(rows)
      BY DEF Group
    <3> HIDE DEF rows
    <3> QED BY <3>1, <3>2, DecisionIsLastWord
  <2>6. CASE Unblock(s)
    <3>1. calls[s].on \in SUBSET Emails
      BY <2>2, <2>6 DEF Unblock, Ops, Many
    <3> QED BY <2>6, <3>1, DecisionIsLastWord DEF Unblock
  <2> QED BY <1>2, <2>1, <2>3, <2>4, <2>5, <2>6 DEF Administer
<1>3. ASSUME NEW s \in Slots, Visit(s) PROVE BlockIsLastWord'
  BY <1>3, UndecidedIsLastWord
     DEF Visit, AskLink, AskProvider, AskKey, MintLink, FileRequest, SignIn, CountKeys,
         Mint, asks, hist
<1>4. CASE \/ \E e \in Emails : VerifyLink(e)
           \/ \E k \in keys : Revoke(k)
           \/ SessionEnds \/ LinkExpires
  BY <1>4, UndecidedIsLastWord DEF VerifyLink, Revoke, SessionEnds, LinkExpires, asks, hist
<1>5. CASE UNCHANGED vars
  BY <1>5, UndecidedIsLastWord DEF vars, asks, hist
<1> QED BY <1>1, <1>2, <1>3, <1>4, <1>5 DEF Next

\* For any addresses and whatever mailboxes they reach: a mailbox is blocked
\* exactly when the last decision of an admin on it was to block it.
THEOREM LastWord == Spec => []BlockIsLastWord
<1>1. Init => BlockIsLastWord
  BY DEF Init, BlockIsLastWord, Blocked, Mailboxes
<1>2. Shapes /\ BlockIsLastWord /\ [Next]_vars => BlockIsLastWord'
  BY NextIsLastWord DEF Shapes
<1> QED BY <1>1, <1>2, ShapesHold, PTL DEF Spec

-----------------------------------------------------------------------------
(* Sessions and keys                                                         *)

\* The steps that remove nobody leave good what was good.
LEMMA NobodyRemoved ==
    ASSUME OldAccessStaysDead, UNCHANGED removals,
           \A t \in sessions' : t \in sessions \/ t.born = removals[t.owner],
           \A k \in keys' : k.live => k \in keys \/ k.born = removals[k.owner]
    PROVE  OldAccessStaysDead'
BY DEF OldAccessStaysDead

\* A removal takes the sessions and revokes the keys of those it removes.
LEMMA RemovedStaysDead ==
    ASSUME TypeOK, OldAccessStaysDead, NEW S \in SUBSET Emails, Removed(S)
    PROVE  OldAccessStaysDead'
<1>1. \A e \in Emails \ S : removals'[e] = removals[e]
  BY DEF Removed
<1>2. \A t \in sessions' : t \in sessions /\ t.owner \in Emails \ S
  BY DEF Removed, SessionsLeft, TypeOK, Session
<1>3. ASSUME NEW k \in keys', k.live
      PROVE  k.owner \in Emails \ S /\ k.born = removals[k.owner]
  <2>1. PICK j \in keys : k = [j EXCEPT !.live = j.live /\ j.owner \notin S]
    BY DEF Removed, KeysRevoked
  <2>2. j \in Key
    BY DEF TypeOK
  <2>3. k.owner = j.owner /\ k.born = j.born /\ (k.live = (j.live /\ j.owner \notin S))
    BY <2>1, <2>2 DEF Key
  <2>4. j.live /\ j.owner \notin S
    BY <1>3, <2>3
  <2>5. j.born = removals[j.owner] /\ j.owner \in Emails
    BY <2>2, <2>4 DEF OldAccessStaysDead, Key
  <2> QED BY <2>3, <2>4, <2>5
<1> QED BY <1>1, <1>2, <1>3 DEF OldAccessStaysDead

\* Every step keeps it.
LEMMA NextStaysDead ==
    ASSUME TypeOK, OldAccessStaysDead, [Next]_vars
    PROVE  OldAccessStaysDead'
<1>1. CASE Boot
  BY <1>1, NobodyRemoved DEF Boot
<1>2. ASSUME NEW s \in Slots, Administer(s) PROVE OldAccessStaysDead'
  <2>1. CASE Remove(s) \/ RemoveAll(s)
    <3>1. \E op \in Ops : Writes(s, op)
      BY <2>1 DEF Remove, RemoveAll, Ops, Named, Many
    <3>2. calls[s].on \in SUBSET Emails
      BY <3>1, WriterShapes DEF Call
    <3>3. \E S \in SUBSET Emails : Removed(S)
      BY <2>1, <3>2 DEF Remove, RemoveAll
    <3> QED BY <3>3, RemovedStaysDead
  <2>2. CASE \/ AskAdmin(s) \/ Check(s)
             \/ Promote(s) \/ PromoteAll(s) \/ Demote(s) \/ DemoteAll(s)
    BY <2>2, NobodyRemoved
       DEF AskAdmin, Check, Promote, PromoteAll, Demote, DemoteAll, Promoted, Demoted, hist
  <2>3. CASE Add(s) \/ Approve(s) \/ Import(s) \/ Deny(s) \/ Unblock(s)
    BY <2>3, NobodyRemoved DEF Add, Approve, Approved, Import, Deny, Unblock
  <2> QED BY <1>2, <2>1, <2>2, <2>3 DEF Administer
<1>3. ASSUME NEW s \in Slots, Visit(s) PROVE OldAccessStaysDead'
  <2>1. CASE SignIn(s)
    <3>1. \A e : NewSession(e).born = removals[NewSession(e).owner]
      BY DEF NewSession
    <3>2. sessions' = sessions \cup {NewSession(e) : e \in calls[s].on}
      BY <2>1 DEF SignIn
    <3>3. UNCHANGED <<removals, keys>>
      BY <2>1 DEF SignIn, hist
    <3> QED BY <3>1, <3>2, <3>3, NobodyRemoved
  <2>2. CASE Mint(s)
    <3> DEFINE new(e) == [id |-> Cardinality(keys) + 1, owner |-> e, live |-> TRUE,
                          born |-> removals[e]]
    <3>1. \A k \in keys' : k \in keys \/ k.born = removals[k.owner]
      <4>1. \A e : new(e).born = removals[new(e).owner]
        OBVIOUS
      <4>2. keys' = keys \cup {new(e) : e \in calls[s].on}
        BY <2>2 DEF Mint
      <4> HIDE DEF new
      <4> QED BY <4>1, <4>2
    <3>2. UNCHANGED <<removals, sessions>>
      BY <2>2 DEF Mint, hist
    <3> QED BY <3>1, <3>2, NobodyRemoved
  <2>3. CASE \/ \E e \in Emails : AskLink(s, e) \/ AskProvider(s, e) \/ AskKey(s, e)
             \/ MintLink(s) \/ FileRequest(s) \/ CountKeys(s)
    BY <2>3, NobodyRemoved
       DEF AskLink, AskProvider, AskKey, MintLink, FileRequest, CountKeys, hist
  <2> QED BY <1>3, <2>1, <2>2, <2>3 DEF Visit
<1>4. ASSUME NEW e \in Emails, VerifyLink(e) PROVE OldAccessStaysDead'
  BY <1>4, NobodyRemoved DEF VerifyLink, NewSession, hist
<1>5. ASSUME NEW k \in keys, Revoke(k) PROVE OldAccessStaysDead'
  <2>1. \A j \in keys' : j.live => j \in keys
    BY <1>5 DEF Revoke, TypeOK, Key
  <2> QED BY <1>5, <2>1, NobodyRemoved DEF Revoke, hist
<1>6. CASE SessionEnds \/ LinkExpires
  BY <1>6, NobodyRemoved DEF SessionEnds, LinkExpires, hist
<1>7. CASE UNCHANGED vars
  BY <1>7, NobodyRemoved DEF vars, hist
<1> QED BY <1>1, <1>2, <1>3, <1>4, <1>5, <1>6, <1>7 DEF Next

\* For any number of people and requests in flight, no session and no live key
\* survives the removal of its owner, so that readmitting the address revives
\* neither.
THEOREM OldAccessDies == Spec => []OldAccessStaysDead
<1>1. Init => OldAccessStaysDead
  BY DEF Init, OldAccessStaysDead
<1>2. Shapes /\ OldAccessStaysDead /\ [Next]_vars => OldAccessStaysDead'
  BY NextStaysDead DEF Shapes
<1> QED BY <1>1, <1>2, ShapesHold, PTL DEF Spec

-----------------------------------------------------------------------------
(* The boot                                                                  *)

\* Until the marker is written nobody can be signed in and nothing runs, so the
\* tables are those the older build left; from then on the marker lists every
\* address a boot has named.
BeforeMarker ==
    /\ listed \subseteq users /\ (allowlist = {} => listed = {})
    /\ method = "down" /\ calls = [s \in Slots |-> Idle]
    /\ links = {} /\ sessions = {} /\ keys = {}

Remembered == (~marked => BeforeMarker) /\ (marked => listed \subseteq applied)

\* A boot remembers what it names.
LEMMA BootRemembers ==
    ASSUME Remembered, Boot
    PROVE  Remembered'
<1>1. marked'
  BY DEF Boot
<1>2. listed' \subseteq applied'
  BY DEF Boot, Remembered
<1> QED BY <1>1, <1>2 DEF Remembered

\* Before the marker, a boot is the only step there is.
LEMMA OnlyBoot ==
    ASSUME BeforeMarker, Next
    PROVE  Boot
<1>1. ASSUME NEW s \in Slots, Administer(s) PROVE FALSE
  <2>1. calls[s] = Idle
    BY DEF BeforeMarker
  <2> QED BY <1>1, <2>1
          DEF BeforeMarker, Administer, AskAdmin, Admin, SignedIn, Check, Reads, Idle, Promote,
              PromoteAll, Demote, DemoteAll, Remove, RemoveAll, Add, Approve, Import, Deny,
              Unblock, Writes, Is
<1>2. ASSUME NEW s \in Slots, Visit(s) PROVE FALSE
  <2>1. calls[s] = Idle
    BY DEF BeforeMarker
  <2> QED BY <1>2, <2>1
          DEF BeforeMarker, Visit, AskLink, AskProvider, AskKey, SignedIn, MintLink,
              FileRequest, SignIn, CountKeys, Mint, Reads, Idle, Writes, Is
<1>3. ~(\E e \in Emails : VerifyLink(e)) /\ ~SessionEnds /\ ~LinkExpires /\ keys = {}
  BY DEF BeforeMarker, VerifyLink, SessionEnds, LinkExpires
<1> QED BY <1>1, <1>2, <1>3 DEF Next

\* No other step touches the marker or what boots have named.
LEMMA OthersKeepMarker ==
    ASSUME [Next]_vars, ~Boot
    PROVE  UNCHANGED <<marked, applied, listed, boots>>
<1>1. ASSUME NEW s \in Slots, Administer(s)
      PROVE  UNCHANGED <<marked, applied, listed, boots>>
  BY <1>1 DEF Administer, AskAdmin, Check, Promote, PromoteAll, Promoted, Demote, DemoteAll,
              Demoted, Remove, RemoveAll, Removed, Add, Approve, Approved, Import, Deny,
              Unblock, config, hist
<1>2. ASSUME NEW s \in Slots, Visit(s)
      PROVE  UNCHANGED <<marked, applied, listed, boots>>
  BY <1>2 DEF Visit, AskLink, AskProvider, AskKey, MintLink, FileRequest, SignIn, CountKeys,
              Mint, config, hist
<1>3. CASE \/ \E e \in Emails : VerifyLink(e)
           \/ \E k \in keys : Revoke(k)
           \/ SessionEnds \/ LinkExpires
  BY <1>3 DEF VerifyLink, Revoke, SessionEnds, LinkExpires, config, hist
<1>4. CASE UNCHANGED vars
  BY <1>4 DEF vars, config, hist
<1> QED BY <1>1, <1>2, <1>3, <1>4 DEF Next

LEMMA RememberedHolds == Spec => []Remembered
<1>1. Init => Remembered
  BY DEF Init, Remembered, BeforeMarker
<1>2. Remembered /\ [Next]_vars => Remembered'
  <2> SUFFICES ASSUME Remembered, [Next]_vars PROVE Remembered'
    OBVIOUS
  <2>1. CASE Boot
    BY <2>1, BootRemembers
  <2>2. CASE ~Boot /\ marked
    BY <2>2, OthersKeepMarker DEF Remembered
  <2>3. CASE ~Boot /\ ~marked
    <3>1. UNCHANGED vars
      BY <2>3, OnlyBoot DEF Remembered
    <3> QED BY <3>1 DEF Remembered, BeforeMarker, vars, people, config, hist
  <2> QED BY <2>1, <2>2, <2>3
<1> QED BY <1>1, <1>2, PTL DEF Spec

\* For any lists that ADMIN_EMAILS takes over the boots, the upgrade of a
\* database without the marker included: no boot readmits or promotes an
\* address that it or an earlier one has named.
THEOREM RestartGrantsNothing == Spec => RestartRestoresNobody
<1> DEFINE Restores == boots' # boots => /\ listed \cap allowlist' \subseteq allowlist
                                        /\ listed \cap admins' \subseteq admins
<1>1. Remembered /\ [Next]_vars => [Restores]_vars
  <2> SUFFICES ASSUME Remembered, [Next]_vars, boots' # boots PROVE Restores
    BY DEF vars, config
  <2>1. Boot
    BY OthersKeepMarker
  <2>2. PICK E : /\ allowlist' = allowlist \cup Granted(E)
                 /\ admins' = admins \cup Granted(E)
    BY <2>1 DEF Boot
  <2>3. listed \cap Granted(E) = {}
    <3>1. CASE marked
      BY <3>1 DEF Remembered, Granted
    <3>2. CASE ~marked
      BY <3>2 DEF Remembered, BeforeMarker, Granted
    <3> QED BY <3>1, <3>2
  <2> QED BY <2>2, <2>3
<1> QED BY <1>1, RememberedHolds, PTL DEF Spec, RestartRestoresNobody

\* For any number of requests in flight, addresses and mailboxes, what administrators
\* decided last is what holds, of the block list and of the sessions and keys made
\* before a removal.
THEOREM DecisionsAreKept == Spec => []DecisionsHold
BY LastWord, OldAccessDies, PTL DEF DecisionsHold

-----------------------------------------------------------------------------
(* One request at a time                                                     *)

OneAtATime == \A s, t \in Slots : s = t

\* A new deployment's operator names an administrator at every boot.
SomebodyListed == Older \/ {} \notin AdminEmails

\* What a request has read still holds while it is the only one.
Vetted(s) ==
    /\ Is(s, "demote") => \E who \in admins : who \notin calls[s].on
    /\ Is(s, "promote") /\ calls[s].checked => calls[s].on \subseteq allowlist
    /\ Is(s, "remove") /\ calls[s].checked => calls[s].on \cap admins = {}
    /\ Is(s, "sign in") => calls[s].on \cap out = {}

\* Once anybody can be signed in there is an administrator.
Manned ==
    /\ Older \/ marked => admins # {}
    /\ ~Older /\ ~marked => allowlist = {} /\ applied = {}

OutAreBlocked == \A e \in out : Blocked(e)

Serial ==
    /\ AdminsAreAllowed /\ RemovalSticks /\ OutAreBlocked /\ Manned
    /\ \A s \in Slots : Vetted(s)

\* The only request is over when its transaction is.
LEMMA NothingInFlight ==
    ASSUME TypeOK, OneAtATime, NEW s \in Slots, Over(s)
    PROVE  \A t \in Slots : Vetted(t)'
BY DEF OneAtATime, Over, Put, TypeOK, Vetted, Is, Idle

\* A request that is made or checked has read the tables as they are.
LEMMA ReadsAreVetted ==
    ASSUME TypeOK, OneAtATime, Serial, NEW s \in Slots,
           \/ AskAdmin(s) \/ Check(s) \/ CountKeys(s)
           \/ \E e \in Emails : AskLink(s, e) \/ AskProvider(s, e) \/ AskKey(s, e)
    PROVE  \A t \in Slots : Vetted(t)'
<1> USE DEF people, asks, hist
<1>1. \A t \in Slots : t = s
  BY DEF OneAtATime
<1>2. calls \in [Slots -> Call \cup {Idle}]
  BY DEF TypeOK
<1>3. CASE AskAdmin(s)
  <2>1. PICK who \in Emails, op \in Named \cup Many \cup {"add", "mint for"},
             S \in SUBSET Emails, grant \in BOOLEAN :
            /\ who \in admins /\ OnOthers(who, op, S)
            /\ Put(s, Request(op, S, grant, op \in Many \cup {"add"}))
    BY <1>3 DEF AskAdmin, Admin
  <2>2. /\ calls'[s].op = op /\ calls'[s].on = S
    BY <1>2, <2>1 DEF Put, Request
  <2>3. op \in {"promote", "remove"} => ~calls'[s].checked
    BY <1>2, <2>1 DEF Put, Request, Many
  <2>4. UNCHANGED <<allowlist, admins, out>>
    BY <1>3 DEF AskAdmin
  <2>5. op = "demote" => who \notin S
    BY <2>1 DEF OnOthers
  <2>6. op # "sign in"
    BY DEF Named, Many
  <2>7. Vetted(s)'
    BY <2>1, <2>2, <2>3, <2>4, <2>5, <2>6 DEF Vetted, Is
  <2> QED
    BY <1>1, <2>7
<1>4. CASE Check(s)
  <2>1. UNCHANGED <<allowlist, admins, out>>
    BY <1>4 DEF Check
  <2>2. CASE Over(s)
    BY <2>2, NothingInFlight
  <2>3. CASE Checked(s) /\ Eligible(calls[s].op, calls[s].on)
    <3>1. calls[s] \in Call
      BY <1>4, CallShapes DEF Check, Reads
    <3>2. /\ calls'[s].op = calls[s].op /\ calls'[s].on = calls[s].on
      BY <1>2, <2>3, <3>1 DEF Checked, Put, Call
    <3>3. Vetted(s)
      BY DEF Serial
    <3> QED
      BY <1>1, <2>1, <2>3, <3>2, <3>3 DEF Vetted, Is, Eligible
  <2> QED
    BY <1>4, <2>2, <2>3 DEF Check
<1>5. CASE \E e \in Emails : AskProvider(s, e)
  <2>1. PICK e \in Emails : AskProvider(s, e)
    BY <1>5
  <2>2. calls'[s].op = "sign in" /\ calls'[s].on = {e}
    BY <1>2, <2>1 DEF AskProvider, Put, Request
  <2>3. e \notin out
    BY <2>1 DEF AskProvider, MaySignIn, Serial, RemovalSticks, OutAreBlocked
  <2>4. out' = out
    BY <2>1 DEF AskProvider
  <2>5. Vetted(s)'
    BY <2>2, <2>3, <2>4 DEF Vetted, Is
  <2> QED
    BY <1>1, <2>5
<1>6. CASE \E e \in Emails : AskLink(s, e) \/ AskKey(s, e)
  <2>1. calls'[s].op \in {"link", "request", "mint"}
    BY <1>2, <1>6 DEF AskLink, AskKey, Put, Request
  <2> QED
    BY <1>1, <2>1 DEF Vetted, Is
<1>7. CASE CountKeys(s)
  <2>1. CASE Over(s)
    BY <2>1, NothingInFlight
  <2>2. CASE Checked(s)
    <3>1. calls'[s].op = "mint"
      BY <1>2, <1>7, <2>2, CallShapes DEF CountKeys, Checked, Put, Is, Call, Reads
    <3> QED
      BY <1>1, <3>1 DEF Vetted, Is
  <2> QED
    BY <1>7, <2>1, <2>2 DEF CountKeys
<1> QED
  BY <1>3, <1>4, <1>5, <1>6, <1>7

\* A removal leaves the administrators there are, and puts out whom it blocks.
LEMMA RemovedIsSerial ==
    ASSUME TypeOK, Serial, NEW S \in SUBSET Emails, S \cap admins = {}, Removed(S)
    PROVE  /\ AdminsAreAllowed' /\ RemovalSticks' /\ OutAreBlocked'
           /\ admins' = admins
<1>1. allowlist' = allowlist \ S /\ admins' = admins
  BY DEF Removed
<1>2. CASE requested # "magic_link"
  <2>1. denied' = denied \cup {e \in S : ~Blocked(e)} /\ out' = out \cup S
    BY <1>2 DEF Removed
  <2> QED
    BY <1>1, <2>1 DEF Serial, AdminsAreAllowed, RemovalSticks, OutAreBlocked, Blocked
<1>3. CASE requested = "magic_link"
  <2>1. denied' = denied /\ out' = out
    BY <1>3 DEF Removed
  <2> QED
    BY <1>1, <2>1 DEF Serial, AdminsAreAllowed, RemovalSticks, OutAreBlocked, Blocked
<1> QED
  BY <1>2, <1>3

\* Whoever is let in is no longer out, and nobody else's block is lifted.
LEMMA ApprovedIsSerial ==
    ASSUME TypeOK, Serial, NEW S \in SUBSET Emails, NEW grant, Approved(S, grant)
    PROVE  /\ AdminsAreAllowed' /\ RemovalSticks' /\ OutAreBlocked'
           /\ admins \subseteq admins'
<1>1. /\ allowlist' = allowlist \cup S /\ admins' \subseteq admins \cup S
      /\ admins \subseteq admins'
      /\ denied' = denied \ Group(S) /\ out' = out \ Group(S)
  BY DEF Approved, Resolved
<1>2. S \subseteq Group(S)
  BY DEF Group
<1>3. OutAreBlocked'
  BY <1>1 DEF Serial, OutAreBlocked, Blocked, Group, TypeOK
<1> QED
  BY <1>1, <1>2, <1>3 DEF Serial, AdminsAreAllowed, RemovalSticks

\* A step of the only request.
LEMMA AdministerIsSerial ==
    ASSUME TypeOK, OneAtATime, Serial, admins # {}, NEW s \in Slots, Administer(s)
    PROVE  /\ AdminsAreAllowed' /\ RemovalSticks' /\ OutAreBlocked' /\ admins' # {}
           /\ \A t \in Slots : Vetted(t)'
<1> USE DEF people, asks, hist
<1>0. ASSUME NEW op \in Ops, Writes(s, op)
      PROVE  calls[s].on \in SUBSET Emails /\ \A t \in Slots : Vetted(t)'
  BY <1>0, WriterShapes, NothingInFlight DEF Writes, Call
<1>1. CASE AskAdmin(s) \/ Check(s)
  BY <1>1, ReadsAreVetted
     DEF AskAdmin, Check, Serial, AdminsAreAllowed, RemovalSticks, OutAreBlocked, Blocked
<1>2. CASE Promote(s) \/ PromoteAll(s)
  <2>1. PICK S : S \subseteq allowlist /\ Promoted(S)
    BY <1>2 DEF Promote, PromoteAll, Writes, Serial, Vetted
  <2>2. \A t \in Slots : Vetted(t)'
    BY <1>0, <1>2 DEF Promote, PromoteAll, Ops, Named, Many
  <2> QED
    BY <2>1, <2>2
       DEF Promoted, Serial, AdminsAreAllowed, RemovalSticks, OutAreBlocked, Blocked
<1>3. CASE Demote(s) \/ DemoteAll(s)
  <2>1. PICK S : Demoted(S) /\ admins \ S # {}
    BY <1>3 DEF Demote, DemoteAll, Writes, Serial, Vetted
  <2>2. \A t \in Slots : Vetted(t)'
    BY <1>0, <1>3 DEF Demote, DemoteAll, Ops, Named, Many
  <2> QED
    BY <2>1, <2>2
       DEF Demoted, Serial, AdminsAreAllowed, RemovalSticks, OutAreBlocked, Blocked
<1>4. CASE Remove(s) \/ RemoveAll(s)
  <2>1. calls[s].on \in SUBSET Emails /\ \A t \in Slots : Vetted(t)'
    BY <1>0, <1>4 DEF Remove, RemoveAll, Ops, Named, Many
  <2>2. PICK S \in SUBSET Emails : S \cap admins = {} /\ Removed(S)
    BY <1>4, <2>1 DEF Remove, RemoveAll, Writes, Serial, Vetted
  <2> QED
    BY <2>1, <2>2, RemovedIsSerial
<1>5. CASE Add(s) \/ Approve(s)
  <2>1. calls[s].on \in SUBSET Emails /\ \A t \in Slots : Vetted(t)'
    BY <1>0, <1>5 DEF Add, Approve, Ops, Many
  <2>2. PICK S \in SUBSET Emails, grant \in {FALSE, calls[s].grant} : Approved(S, grant)
    BY <1>5, <2>1 DEF Add, Approve
  <2>3. /\ AdminsAreAllowed' /\ RemovalSticks' /\ OutAreBlocked' /\ admins \subseteq admins'
    BY <2>2, ApprovedIsSerial
  <2> QED
    BY <2>1, <2>3
<1>6. CASE Import(s)
  <2>1. \A t \in Slots : Vetted(t)'
    BY <1>0, <1>6 DEF Import, Ops, Many
  <2>2. /\ allowlist' = allowlist \cup calls[s].on /\ out' = out \ (calls[s].on \ allowlist)
        /\ admins' \subseteq admins \cup calls[s].on /\ admins \subseteq admins'
        /\ denied' = denied
    BY <1>6 DEF Import
  <2> QED
    BY <2>1, <2>2 DEF Serial, AdminsAreAllowed, RemovalSticks, OutAreBlocked, Blocked
<1>7. CASE Deny(s)
  <2>1. \A t \in Slots : Vetted(t)'
    BY <1>0, <1>7 DEF Deny, Ops, Many
  <2>2. UNCHANGED <<allowlist, admins, out>> /\ denied \subseteq denied'
    BY <1>7 DEF Deny
  <2> QED
    BY <2>1, <2>2 DEF Serial, AdminsAreAllowed, RemovalSticks, OutAreBlocked, Blocked
<1>8. CASE Unblock(s)
  <2>1. \A t \in Slots : Vetted(t)'
    BY <1>0, <1>8 DEF Unblock, Ops, Many
  <2>2. /\ UNCHANGED <<allowlist, admins>>
        /\ denied' = denied \ Group(calls[s].on) /\ out' = out \ Group(calls[s].on)
    BY <1>8 DEF Unblock
  <2>3. OutAreBlocked'
    BY <2>2 DEF Serial, OutAreBlocked, Blocked, Group, TypeOK
  <2> QED
    BY <2>1, <2>2, <2>3 DEF Serial, AdminsAreAllowed, RemovalSticks
<1> QED
  BY <1>1, <1>2, <1>3, <1>4, <1>5, <1>6, <1>7, <1>8 DEF Administer

\* A visitor grants no flag, and is let in only when he is not out.
LEMMA VisitIsSerial ==
    ASSUME TypeOK, OneAtATime, Serial, NEW s \in Slots, Visit(s)
    PROVE  /\ AdminsAreAllowed' /\ RemovalSticks' /\ OutAreBlocked' /\ admins' = admins
           /\ \A t \in Slots : Vetted(t)'
<1> USE DEF people, asks, hist
<1>1. CASE \/ CountKeys(s)
           \/ \E e \in Emails : AskLink(s, e) \/ AskProvider(s, e) \/ AskKey(s, e)
  <2>1. UNCHANGED <<allowlist, admins, out, denied>>
    BY <1>1 DEF CountKeys, AskLink, AskProvider, AskKey
  <2> QED
    BY <1>1, <2>1, ReadsAreVetted
       DEF Serial, AdminsAreAllowed, RemovalSticks, OutAreBlocked, Blocked
<1>2. CASE MintLink(s) \/ FileRequest(s) \/ Mint(s)
  <2>1. UNCHANGED <<allowlist, admins, out, denied>> /\ Over(s)
    BY <1>2 DEF MintLink, FileRequest, Mint, Writes
  <2> QED
    BY <2>1, NothingInFlight
       DEF Serial, AdminsAreAllowed, RemovalSticks, OutAreBlocked, Blocked
<1>3. CASE SignIn(s)
  <2>1. /\ UNCHANGED <<admins, out, denied>> /\ Over(s)
        /\ allowlist' = allowlist \cup calls[s].on
    BY <1>3 DEF SignIn, Writes
  <2>2. calls[s].on \cap out = {}
    BY <1>3 DEF SignIn, Writes, Serial, Vetted
  <2> QED
    BY <2>1, <2>2, NothingInFlight
       DEF Serial, AdminsAreAllowed, RemovalSticks, OutAreBlocked, Blocked
<1> QED
  BY <1>1, <1>2, <1>3 DEF Visit

\* A boot ends what is in flight, and admits whom it lists with the flag.
LEMMA BootIsSerial ==
    ASSUME SomebodyListed, Serial, Boot
    PROVE  Serial'
<1>1. PICK E \in AdminEmails :
          /\ allowlist' = allowlist \cup Granted(E) /\ admins' = admins \cup Granted(E)
          /\ marked' /\ out' = out \ Granted(E)
  BY DEF Boot
<1>2. denied' = denied /\ \A s \in Slots : calls'[s] = Idle
  BY DEF Boot, asks
<1>3. admins' # {}
  <2>1. CASE Older \/ marked
    BY <1>1, <2>1 DEF Serial, Manned
  <2>2. CASE ~Older /\ ~marked
    <3>1. Granted(E) = E /\ E # {}
      BY <2>2 DEF Serial, Manned, Granted, SomebodyListed
    <3> QED
      BY <1>1, <3>1
  <2> QED
    BY <2>1, <2>2
<1>4. \A s \in Slots : Vetted(s)'
  <2>1. \A s \in Slots : calls'[s].op = "none"
    BY <1>2 DEF Idle
  <2> QED
    BY <2>1 DEF Vetted, Is
<1> QED
  BY <1>1, <1>2, <1>3, <1>4
     DEF Serial, AdminsAreAllowed, RemovalSticks, OutAreBlocked, Blocked, Manned

\* Revoking a key leaves its owner with no more live keys than before.
LEMMA RevokedAreFewer ==
    ASSUME Shapes, NEW k \in keys, Revoke(k), NEW e
    PROVE  /\ Cardinality(LiveKeys(e)) \in Nat /\ Cardinality(LiveKeys(e)') \in Nat
           /\ Cardinality(LiveKeys(e)') <= Cardinality(LiveKeys(e))
<1>1. keys' = (keys \ {k}) \cup {[k EXCEPT !.live = FALSE]}
  BY DEF Revoke
<1>2. [k EXCEPT !.live = FALSE].live = FALSE
  BY DEF Shapes, TypeOK, Key
<1>3. LiveKeys(e)' \in SUBSET LiveKeys(e)
  BY <1>1, <1>2 DEF LiveKeys
<1>4. IsFiniteSet(LiveKeys(e))
  <2>1. LiveKeys(e) \in SUBSET keys
    BY DEF LiveKeys
  <2> QED
    BY <2>1, FS_Subset DEF Shapes
<1>5. /\ IsFiniteSet(LiveKeys(e)')
      /\ Cardinality(LiveKeys(e)') <= Cardinality(LiveKeys(e))
  BY <1>3, <1>4, FS_Subset
<1> QED
  BY <1>4, <1>5, FS_CardinalityType

\* The keys somebody counted are still all the live ones he has when his is written.
LEMMA NextKeepsCap ==
    ASSUME OneAtATime, Shapes, CapIsKept, [Next]_vars
    PROVE  CapIsKept'
<1> USE DEF people, asks, config, hist
<1>1. \A s, t \in Slots : s = t
  BY DEF OneAtATime
<1>2. calls \in [Slots -> Call \cup {Idle}]
  BY DEF Shapes, TypeOK
<1>3. ASSUME NEW s \in Slots, Over(s) PROVE CapIsKept'
  <2>1. \A t \in Slots : calls'[t].op = "none"
    BY <1>1, <1>2, <1>3 DEF Over, Put, Idle
  <2> QED
    BY <2>1 DEF CapIsKept, Is
<1>4. ASSUME NEW s \in Slots, calls'[s].op # "mint" \/ ~calls'[s].checked PROVE CapIsKept'
  BY <1>1, <1>4 DEF CapIsKept, Is
<1>5. CASE keys' = keys /\ calls' = calls
  BY <1>5 DEF CapIsKept, Is, LiveKeys
<1>6. CASE Boot
  <2>1. \A t \in Slots : calls'[t].op = "none"
    BY <1>6 DEF Boot, Idle
  <2> QED
    BY <2>1 DEF CapIsKept, Is
<1>7. ASSUME NEW s \in Slots, Administer(s) PROVE CapIsKept'
  <2>1. CASE AskAdmin(s)
    <3>1. PICK op \in Named \cup Many \cup {"add", "mint for"},
               S \in SUBSET Emails, grant \in BOOLEAN :
              Put(s, Request(op, S, grant, op \in Many \cup {"add"}))
      BY <2>1 DEF AskAdmin
    <3>2. calls'[s].op = op
      BY <1>2, <3>1 DEF Put, Request
    <3> QED
      BY <1>4, <3>2 DEF Named, Many
  <2>2. CASE Check(s)
    <3>1. CASE Checked(s)
      <4>1. calls[s] \in Call
        BY <2>2, CallShapes DEF Shapes, Check, Reads
      <4>2. calls'[s].op = calls[s].op /\ calls[s].op # "mint"
        BY <1>2, <2>2, <3>1, <4>1 DEF Checked, Put, Check, Named, Call
      <4> QED
        BY <1>4, <4>2
    <3> QED
      BY <1>3, <2>2, <3>1 DEF Check
  <2> QED
    BY <1>3, <1>7, <2>1, <2>2
       DEF Administer, Writes, Promote, PromoteAll, Demote, DemoteAll, Remove, RemoveAll,
           Add, Approve, Import, Deny, Unblock
<1>8. ASSUME NEW s \in Slots, Visit(s) PROVE CapIsKept'
  <2>1. CASE \E e \in Emails : AskLink(s, e) \/ AskProvider(s, e) \/ AskKey(s, e)
    <3>1. \A e \in Emails : AskLink(s, e) => calls'[s].op \in {"link", "request"}
      BY <1>2 DEF AskLink, Put, Request
    <3>2. ASSUME NEW e \in Emails, AskProvider(s, e) PROVE calls'[s].op = "sign in"
      BY <1>2, <3>2 DEF AskProvider, Put, Request
    <3>3. \A e \in Emails : AskKey(s, e) => ~calls'[s].checked
      BY <1>2 DEF AskKey, Put, Request
    <3> QED
      BY <1>4, <2>1, <3>1, <3>2, <3>3
  <2>2. CASE CountKeys(s)
    <3>1. CASE Checked(s) /\ \A e \in calls[s].on : Cardinality(LiveKeys(e)) < MaxActiveKeys
      <4>1. calls[s] \in Call
        BY <2>2, CallShapes DEF Shapes, CountKeys, Reads
      <4>2. calls'[s].on = calls[s].on /\ keys' = keys
        BY <1>2, <2>2, <3>1, <4>1 DEF Checked, Put, CountKeys, Call
      <4> QED
        BY <1>1, <3>1, <4>2 DEF CapIsKept, LiveKeys
    <3> QED
      BY <1>3, <2>2, <3>1 DEF CountKeys
  <2> QED
    BY <1>3, <1>8, <2>1, <2>2 DEF Visit, Writes, MintLink, FileRequest, SignIn, Mint
<1>9. ASSUME NEW k \in keys, Revoke(k) PROVE CapIsKept'
  <2> SUFFICES ASSUME NEW s \in Slots, (Is(s, "mint") /\ calls[s].checked)',
                      NEW e \in calls'[s].on
               PROVE  Cardinality(LiveKeys(e)') < MaxActiveKeys
    BY DEF CapIsKept
  <2>1. calls' = calls
    BY <1>9 DEF Revoke
  <2>2. Cardinality(LiveKeys(e)) < MaxActiveKeys
    BY <2>1 DEF CapIsKept, Is
  <2> QED
    BY <1>9, <2>2, RevokedAreFewer, ConstantsAssumption
<1>10. CASE UNCHANGED vars
  BY <1>5, <1>10 DEF vars
<1> QED
  BY <1>5, <1>6, <1>7, <1>8, <1>9, <1>10 DEF Next, VerifyLink, SessionEnds, LinkExpires

\* A result about sequences of requests, not about races: two requests in flight
\* refute every conjunct, and the endpoints run in a thread pool.
\* Where requests come one at a time and a new deployment's operator names somebody,
\* for any addresses and mailboxes: an administrator remains, administrators are allowed,
\* whoever was removed for good stays out, and nobody makes himself a key over the cap.
THEOREM SerialIsSafe ==
    ASSUME OneAtATime, SomebodyListed
    PROVE  Spec => []SerialAccess
<1>1. Init => Serial
  BY DEF Init, Serial, AdminsAreAllowed, RemovalSticks, OutAreBlocked, Manned, Vetted, Is, Idle
<1>2. TypeOK /\ Remembered /\ Serial /\ [Next]_vars => Serial'
  <2> SUFFICES ASSUME TypeOK, Remembered, Serial, [Next]_vars PROVE Serial'
    OBVIOUS
  <2>1. CASE Boot
    BY <2>1, BootIsSerial
  <2>2. CASE UNCHANGED vars
    BY <2>2 DEF vars, people, asks, config, hist, Serial, AdminsAreAllowed, RemovalSticks,
                OutAreBlocked, Blocked, Manned, Vetted, Is
  <2>3. CASE Next /\ ~Boot
    <3>1. marked /\ marked' /\ admins # {}
      BY <2>3, OnlyBoot, OthersKeepMarker DEF Remembered, Serial, Manned
    <3>2. ASSUME NEW s \in Slots, Administer(s) PROVE Serial'
      BY <3>1, <3>2, AdministerIsSerial DEF Serial, Manned
    <3>3. ASSUME NEW s \in Slots, Visit(s) PROVE Serial'
      BY <3>1, <3>3, VisitIsSerial DEF Serial, Manned
    <3>4. CASE \/ \E e \in Emails : VerifyLink(e)
               \/ \E k \in keys : Revoke(k)
               \/ SessionEnds \/ LinkExpires
      <4>1. UNCHANGED <<allowlist, admins, denied, out, calls>>
        BY <3>4 DEF VerifyLink, Revoke, SessionEnds, LinkExpires, people, asks, hist
      <4> QED
        BY <3>1, <4>1 DEF Serial, AdminsAreAllowed, RemovalSticks, OutAreBlocked, Blocked,
                          Manned, Vetted, Is
    <3> QED
      BY <2>3, <3>2, <3>3, <3>4 DEF Next
  <2> QED
    BY <2>1, <2>2, <2>3
<1>3. Serial /\ CapIsKept => SerialAccess
  BY DEF Serial, SerialAccess, OneAdminRemains, AdminsAreAllowed, Manned
<1>4. Init => CapIsKept
  BY DEF Init, CapIsKept, Is, Idle
<1>5. Shapes /\ CapIsKept /\ [Next]_vars => CapIsKept'
  BY NextKeepsCap
<1> QED
  BY <1>1, <1>2, <1>3, <1>4, <1>5, TypeCorrect, ShapesHold, RememberedHolds, PTL DEF Spec
=============================================================================
