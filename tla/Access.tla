-------------------------------- MODULE Access --------------------------------
(***************************************************************************)
(* Who may use the deployment: the allowlist, the admin flags, the access  *)
(* requests, the sign-in links, the sessions and the API keys of app.db,   *)
(* written by backend/app/auth.py, apikeys.py, routers/auth.py, routers/   *)
(* keys.py, the Users endpoints of routers/admin.py and the boot's         *)
(* _bootstrap_admins.                                                      *)
(*                                                                         *)
(* The endpoints run in a thread pool, and each opens its transaction with *)
(* its first write: what a request reads before that (its caller's         *)
(* session, the target's rows) may be stale when it writes.  A request is  *)
(* a call in one of the Slots, from its first read to its transaction.     *)
(***************************************************************************)
EXTENDS Integers, FiniteSets

CONSTANTS
    Emails,         \* addresses
    Canon,          \* canon_email: the mailbox an address reaches
    AdminEmails,    \* the values ADMIN_EMAILS may have at a boot
    Methods,        \* the values AUTH_METHOD may have at a boot
    Older,          \* the database is one that an older build has left
    Slots,          \* bound: the requests that are in flight
    Bulk,           \* bound: the addresses one request names
    MaxKeys,        \* bound: API keys minted
    MaxActiveKeys,  \* MAX_ACTIVE_KEYS
    MaxRemovals,    \* bound: removals of one address
    MaxBoots        \* bound: starts of the process

ASSUME ConstantsAssumption ==
    /\ IsFiniteSet(Emails)
    /\ Methods \subseteq {"magic_link", "idp"}
    /\ AdminEmails \subseteq SUBSET Emails
    /\ Older \in BOOLEAN
    /\ Bulk \in Nat /\ MaxKeys \in Nat /\ MaxActiveKeys \in Nat
    /\ MaxRemovals \in Nat /\ MaxBoots \in Nat

VARIABLES
    allowlist, users, admins,  \* allowlist rows, users rows, those with is_admin
    pending, denied,           \* addresses with an access request in that status
    links,                     \* addresses with an unused sign-in link
    sessions, keys,
    marked, applied,           \* meta.bootstrap_admins_applied is there; what it lists
    requested, method,         \* AUTH_METHOD, and the method that is in force
    calls,                     \* the requests in flight
    removals,                  \* history: how often an address was removed
    verdict,                   \* history: what admins last decided on a mailbox
    out,                       \* history: removed for good, see RemovalSticks
    listed,                    \* history: named by ADMIN_EMAILS at a boot since the
                               \* upgrade, or at the last one before it
    boots

people == <<allowlist, users, admins>>
asks   == <<pending, denied>>
config == <<marked, applied, requested, method, boots>>
hist   == <<removals, verdict, out, listed>>
vars   == <<people, asks, links, sessions, keys, config, calls, hist>>

Mailboxes == {Canon[e] : e \in Emails}
Epochs    == 0..MaxRemovals

\* born: the removals of its owner when it was made.
Session == [owner : Emails, born : Epochs]
Key     == [id : 1..MaxKeys, owner : Emails, born : Epochs, live : BOOLEAN]

\* What an admin asks for by name, for many at once, and everybody else's calls.
Named  == {"promote", "demote", "remove"}
Many   == {"promote all", "demote all", "remove all", "import", "approve", "deny",
           "unblock"}
Others == {"link", "request", "sign in", "mint"}
Ops    == Named \cup Many \cup Others \cup {"add", "mint for"}

\* on: the addresses it is about; grant: its is_admin flag; asked: when its caller
\* was authenticated; checked: it has read its target.
Call == [op : Ops, on : SUBSET Emails, grant : BOOLEAN, checked : BOOLEAN]
Idle == [op |-> "none", on |-> {}, grant |-> FALSE, checked |-> FALSE]

TypeOK ==
    /\ allowlist \subseteq Emails /\ users \subseteq Emails /\ admins \subseteq users
    /\ pending \subseteq Emails /\ denied \subseteq Emails
    /\ links \subseteq Emails
    /\ sessions \subseteq Session /\ keys \subseteq Key
    /\ \A t \in sessions : t.owner \in users
    /\ marked \in BOOLEAN /\ applied \subseteq Emails
    /\ requested \in Methods \cup {"down"} /\ method \in {"magic_link", "idp", "down"}
    /\ calls \in [Slots -> Call \cup {Idle}]
    /\ removals \in [Emails -> Epochs]
    /\ verdict \in [Mailboxes -> {"none", "blocked", "cleared"}]
    /\ out \subseteq Emails /\ listed \subseteq Emails
    /\ boots \in 0..MaxBoots

\* A new database, or one that a build without the marker left: that build has
\* made a user of each address ADMIN_EMAILS named.
Init ==
    /\ IF Older
         THEN /\ allowlist \in (SUBSET Emails) \ {{}} /\ users \in SUBSET Emails
              /\ admins \in (SUBSET (users \cap allowlist)) \ {{}}
              /\ listed \in SUBSET users
         ELSE allowlist = {} /\ users = {} /\ admins = {} /\ listed = {}
    /\ marked = FALSE /\ applied = {}
    /\ pending = {} /\ denied = {} /\ links = {} /\ sessions = {} /\ keys = {}
    /\ requested = "down" /\ method = "down" /\ boots = 0
    /\ calls = [s \in Slots |-> Idle]
    /\ removals = [e \in Emails |-> 0]
    /\ verdict = [m \in Mailboxes |-> "none"] /\ out = {}

-----------------------------------------------------------------------------
Group(S)    == {e \in Emails : \E f \in S : Canon[e] = Canon[f]}
Blocked(e)  == \E f \in denied : Canon[f] = Canon[e]
SignedIn(e) == e \in allowlist /\ \E s \in sessions : s.owner = e
Admin(e)    == SignedIn(e) /\ e \in admins

\* Mutant: only rows that are there are updated.
KnownOnly(S) == users

\* The users row of each address of S, made where there is none.
Known(S) == users \cup S

\* The history of a decision on the mailboxes of S.
Decided(S, v) ==
    verdict' = [m \in Mailboxes |-> IF \E e \in S : Canon[e] = m THEN v ELSE verdict[m]]

Is(s, op)  == calls[s].op = op
Reads(s)   == calls[s].op # "none" /\ ~calls[s].checked
Put(s, c)  == calls' = [calls EXCEPT ![s] = c]
Over(s)    == Put(s, Idle)
Checked(s) == Put(s, [calls[s] EXCEPT !.checked = TRUE])
Request(op, S, grant, checked) ==
    [op |-> op, on |-> S, grant |-> grant, checked |-> checked]

-----------------------------------------------------------------------------
(* An admin's request: require_admin, what it reads, what it writes          *)

\* Mutant: the caller is not compared with the target.
OnAnyone(who, op, S) == op \in Named => Cardinality(S) = 1

\* Nobody demotes or removes himself, by name or in a batch.
OnOthers(who, op, S) ==
    /\ op \in Named => Cardinality(S) = 1
    /\ op \in {"demote", "remove", "demote all", "remove all"} => who \notin S

AskAdmin(s) ==
    /\ Is(s, "none")
    /\ \E who \in Emails, op \in Named \cup Many \cup {"add", "mint for"} :
        \E S \in (SUBSET Emails) \ {{}}, grant \in BOOLEAN :
            /\ Admin(who) /\ OnOthers(who, op, S)
            /\ Cardinality(S) <= IF op \in Many THEN Bulk ELSE 1
            /\ grant => op \in {"add", "import"}
            /\ op = "mint for" => MaxKeys > 0
            /\ Put(s, Request(op, S, grant, op \in Many \cup {"add"}))
    /\ UNCHANGED <<people, asks, links, sessions, keys, config, hist>>

\* What the endpoints that name one address read before they write.
Eligible(op, S) ==
    CASE op \in {"promote", "demote"} -> S \subseteq allowlist
      [] op = "remove"                -> S \cap admins = {}
      [] op = "mint for"              -> S \subseteq users \cap allowlist

Check(s) ==
    /\ Reads(s) /\ calls[s].op \in Named \cup {"mint for"}
    /\ IF Eligible(calls[s].op, calls[s].on) THEN Checked(s) ELSE Over(s)
    /\ UNCHANGED <<people, asks, links, sessions, keys, config, hist>>

\* The transaction of a request that has read what it reads.
Writes(s, op) == Is(s, op) /\ calls[s].checked /\ Over(s)

Promoted(S) ==
    /\ users' = Known(S) /\ admins' = admins \cup S
    /\ UNCHANGED <<allowlist, asks, links, sessions, keys, config, hist>>

Promote(s) == Writes(s, "promote") /\ Promoted(calls[s].on)

\* A batch: the rows that are eligible when it runs, less those that fail.
PromoteAll(s) ==
    /\ Writes(s, "promote all")
    /\ \E S \in SUBSET ((calls[s].on \cap allowlist) \ admins) : Promoted(S)

Demoted(S) ==
    /\ admins' = admins \ S
    /\ UNCHANGED <<allowlist, users, asks, links, sessions, keys, config, hist>>

Demote(s) == Writes(s, "demote") /\ Demoted(calls[s].on)

\* Rolled back when it would leave no users row with the flag.
DemoteAll(s) ==
    /\ Writes(s, "demote all")
    /\ \E S \in SUBSET (calls[s].on \cap allowlist \cap admins) :
          Demoted(IF admins \subseteq S THEN {} ELSE S)

SessionsLeft(S) == {t \in sessions : t.owner \notin S}
KeysRevoked(S)  == {[k EXCEPT !.live = @ /\ k.owner \notin S] : k \in keys}

\* _remove_user; it blocks the mailbox where a provider would sign it in again.
Removed(S) ==
    /\ \A e \in S : removals[e] < MaxRemovals
    /\ removals' = [e \in Emails |-> IF e \in S THEN removals[e] + 1 ELSE removals[e]]
    /\ allowlist' = allowlist \ S
    /\ admins' = admins \ S
    /\ sessions' = SessionsLeft(S)
    /\ keys' = KeysRevoked(S)
    /\ IF requested # "magic_link"
         THEN /\ denied' = denied \cup {e \in S : ~Blocked(e)}
              /\ Decided(S, "blocked") /\ out' = out \cup S
         ELSE UNCHANGED <<denied, verdict, out>>
    /\ UNCHANGED <<users, pending, links, config, listed>>

Remove(s) == Writes(s, "remove") /\ Removed(calls[s].on)

RemoveAll(s) ==
    /\ Writes(s, "remove all") /\ admins # {}
    /\ \E S \in SUBSET ((calls[s].on \cap allowlist) \ admins) : Removed(S)

-----------------------------------------------------------------------------
(* Access requests: approve, import, deny, unblock                           *)

\* Mutant: only the rows of the very address are resolved.
ResolvedExactly(S) == S

\* A decision on an address resolves the rows of every address of its mailbox.
Resolved(S) == Group(S)

\* _approve_allowlist: a row that was approved is not read again, and is left out.
Approved(S, grant) ==
    /\ allowlist' = allowlist \cup S
    /\ IF grant THEN users' = Known(S) /\ admins' = admins \cup S
                ELSE UNCHANGED <<users, admins>>
    /\ pending' = pending \ Resolved(S) /\ denied' = denied \ Resolved(S)
    /\ Decided(S, "cleared") /\ out' = out \ Group(S)
    /\ UNCHANGED <<links, sessions, keys, config, removals, listed>>

Add(s) == Writes(s, "add") /\ Approved(calls[s].on, calls[s].grant)

\* Approving one address resolves the others of its mailbox in the same batch.
Approve(s) ==
    /\ Writes(s, "approve")
    /\ \E S \in SUBSET ((calls[s].on \cap pending) \ allowlist) :
        /\ \A e, f \in S : Canon[e] = Canon[f] => e = f
        /\ Approved(S, FALSE)

\* The CSV import leaves a denial as it is.
Import(s) ==
    /\ Writes(s, "import")
    /\ LET new == calls[s].on \ allowlist
       IN  /\ allowlist' = allowlist \cup new
           /\ IF calls[s].grant THEN users' = Known(new) /\ admins' = admins \cup new
                                ELSE UNCHANGED <<users, admins>>
           /\ out' = out \ new
    /\ UNCHANGED <<asks, links, sessions, keys, config, removals, verdict, listed>>

Deny(s) ==
    /\ Writes(s, "deny")
    /\ LET rows == pending \cap Group(calls[s].on)
       IN  /\ pending' = pending \ rows /\ denied' = denied \cup rows
           /\ Decided(rows, "blocked")
    /\ UNCHANGED <<people, links, sessions, keys, config, removals, out, listed>>

Unblock(s) ==
    /\ Writes(s, "unblock")
    /\ denied' = denied \ Group(calls[s].on)
    /\ Decided(calls[s].on, "cleared") /\ out' = out \ Group(calls[s].on)
    /\ UNCHANGED <<people, pending, links, sessions, keys, config, removals, listed>>

-----------------------------------------------------------------------------
(* Signing in: a link, or the identity provider                              *)

\* request_login reads the allowlist, then the denials.
AskLink(s, e) ==
    /\ Is(s, "none") /\ method = "magic_link"
    /\ e \in allowlist \/ ~Blocked(e)
    /\ Put(s, Request(IF e \in allowlist THEN "link" ELSE "request", {e}, FALSE, TRUE))
    /\ UNCHANGED <<people, asks, links, sessions, keys, config, hist>>

MintLink(s) ==
    /\ Writes(s, "link")
    /\ links' = links \cup calls[s].on
    /\ UNCHANGED <<people, asks, sessions, keys, config, hist>>

FileRequest(s) ==
    /\ Writes(s, "request")
    /\ pending' = pending \cup calls[s].on
    /\ UNCHANGED <<people, denied, links, sessions, keys, config, hist>>

\* create_session.
NewSession(e) == [owner |-> e, born |-> removals[e]]

\* verify_login: one transaction, and the allowlist is not asked.
VerifyLink(e) ==
    /\ method = "magic_link" /\ e \in links
    /\ links' = links \ {e}
    /\ users' = Known({e})
    /\ sessions' = sessions \cup {NewSession(e)}
    /\ UNCHANGED <<allowlist, admins, asks, keys, config, calls, hist>>

\* The callback reads the allowlist and the denials of whom the provider names.
MaySignIn(e) == e \in allowlist \/ ~Blocked(e)

AskProvider(s, e) ==
    /\ Is(s, "none") /\ method = "idp" /\ MaySignIn(e)
    /\ Put(s, Request("sign in", {e}, FALSE, TRUE))
    /\ UNCHANGED <<people, asks, links, sessions, keys, config, hist>>

\* provision_from_idp and create_session in one transaction.
SignIn(s) ==
    /\ Writes(s, "sign in")
    /\ allowlist' = allowlist \cup calls[s].on
    /\ users' = Known(calls[s].on)
    /\ sessions' = sessions \cup {NewSession(e) : e \in calls[s].on}
    /\ UNCHANGED <<admins, asks, links, keys, config, hist>>

\* A session is logged out or expires, a link expires.
SessionEnds ==
    /\ \E t \in sessions : sessions' = sessions \ {t}
    /\ UNCHANGED <<people, asks, links, keys, config, calls, hist>>

LinkExpires ==
    /\ \E e \in links : links' = links \ {e}
    /\ UNCHANGED <<people, asks, sessions, keys, config, calls, hist>>

-----------------------------------------------------------------------------
(* API keys                                                                  *)

LiveKeys(e) == {k \in keys : k.owner = e /\ k.live}

\* create_key reads the session, and the count of live keys after it.
AskKey(s, e) ==
    /\ Is(s, "none") /\ MaxKeys > 0 /\ SignedIn(e)
    /\ Put(s, Request("mint", {e}, FALSE, FALSE))
    /\ UNCHANGED <<people, asks, links, sessions, keys, config, hist>>

CountKeys(s) ==
    /\ Is(s, "mint") /\ Reads(s)
    /\ IF \A e \in calls[s].on : Cardinality(LiveKeys(e)) < MaxActiveKeys
         THEN Checked(s) ELSE Over(s)
    /\ UNCHANGED <<people, asks, links, sessions, keys, config, hist>>

Mint(s) ==
    /\ Writes(s, "mint") \/ Writes(s, "mint for")
    /\ Cardinality(keys) < MaxKeys
    /\ keys' = keys \cup {[id |-> Cardinality(keys) + 1, owner |-> e, live |-> TRUE,
                           born |-> removals[e]] : e \in calls[s].on}
    /\ UNCHANGED <<people, asks, links, sessions, config, hist>>

\* Its owner or an admin revokes a key.
Revoke(k) ==
    /\ k.live
    /\ SignedIn(k.owner) \/ \E who \in Emails : Admin(who)
    /\ keys' = (keys \ {k}) \cup {[k EXCEPT !.live = FALSE]}
    /\ UNCHANGED <<people, asks, links, sessions, config, calls, hist>>

-----------------------------------------------------------------------------
(* The boot                                                                  *)

\* Mutant: what was applied before is not remembered on the upgrade hop.
GrantedOnUpgrade(E) ==
    {e \in E : e \notin applied}

\* _bootstrap_admins: a database that has an allowlist but no marker only
\* records the addresses it knows.
Granted(E) ==
    {e \in E : /\ e \notin applied
               /\ allowlist = {} \/ marked \/ e \notin users \cup allowlist}

\* The requests in flight die with the process.  A method whose configuration
\* is incomplete falls back to the magic link.
Boot ==
    /\ boots < MaxBoots /\ boots' = boots + 1
    /\ requested' \in Methods /\ method' \in {requested', "magic_link"}
    /\ calls' = [s \in Slots |-> Idle]
    /\ \E E \in AdminEmails :
        /\ allowlist' = allowlist \cup Granted(E)
        /\ users' = Known(Granted(E)) /\ admins' = admins \cup Granted(E)
        /\ marked' = TRUE /\ applied' = applied \cup E
        /\ listed' = IF marked THEN listed \cup E ELSE E
        /\ out' = out \ Granted(E)
    /\ UNCHANGED <<asks, links, sessions, keys, removals, verdict>>

-----------------------------------------------------------------------------
Administer(s) ==
    \/ AskAdmin(s) \/ Check(s)
    \/ Promote(s) \/ PromoteAll(s) \/ Demote(s) \/ DemoteAll(s)
    \/ Remove(s) \/ RemoveAll(s)
    \/ Add(s) \/ Approve(s) \/ Import(s) \/ Deny(s) \/ Unblock(s)

Visit(s) ==
    \/ \E e \in Emails : AskLink(s, e) \/ AskProvider(s, e) \/ AskKey(s, e)
    \/ MintLink(s) \/ FileRequest(s) \/ SignIn(s) \/ CountKeys(s) \/ Mint(s)

Next ==
    \/ Boot
    \/ \E s \in Slots : Administer(s) \/ Visit(s)
    \/ \E e \in Emails : VerifyLink(e)
    \/ \E k \in keys : Revoke(k)
    \/ SessionEnds \/ LinkExpires

Spec == Init /\ [][Next]_vars

-----------------------------------------------------------------------------
(* Properties                                                                *)

\* A mailbox is blocked exactly when the last thing an admin decided about any
\* address of it was to block it: no approval leaves a denial of a variant
\* behind to come back to life with a removal, no denial misses a variant.
BlockIsLastWord ==
    \A e \in Emails : Blocked(e) <=> verdict[Canon[e]] = "blocked"

\* A session or a key that its owner had when he was removed is never good for
\* anything again, not when the address is allowed back.  Nothing is said of a
\* login link: a removal leaves it, and verify_login asks for no allowlist, so an
\* old one still opens a session for whoever is readmitted.  Nor of a key that a
\* request authenticated before the removal makes after it: it is a new key.
OldAccessStaysDead ==
    /\ \A t \in sessions : t.born = removals[t.owner]
    /\ \A k \in keys : k.live => k.born = removals[k.owner]

\* A restart neither readmits nor promotes an address that ADMIN_EMAILS has
\* named before, whatever became of it since, on the upgrade hop included.
RestartRestoresNobody ==
    [][boots' # boots => /\ listed \cap allowlist' \subseteq allowlist
                         /\ listed \cap admins' \subseteq admins]_vars

\* Somebody can administer the deployment.  The self-demotion guard "guarantees
\* at least one admin always remains": it does with one request at a time, and
\* two admins who demote each other at once refute it.
OneAdminRemains == allowlist # {} => admins \cap allowlist # {}

\* With one request at a time, only people of the allowlist hold the flag: an
\* address that is added again does not come back as an admin.
AdminsAreAllowed == admins \subseteq allowlist

\* Whoever is removed while a provider signs people in stays out until an admin
\* decides otherwise or the operator lists him: "blocking is what makes it
\* stick".  It does with one request at a time; a sign-in that is in flight
\* during the removal refutes it.
RemovalSticks == out \cap allowlist = {}

\* What administrators decide is in force, whatever is in flight: on the mailbox,
\* and on the sessions and keys there were when somebody was removed
\* (routers/admin.py:109-149, 341-360).
DecisionsHold == BlockIsLastWord /\ OldAccessStaysDead

\* A key somebody makes for himself never is one too many: the live keys it counted are
\* under the cap until it is written (routers/keys.py:66).  With one request at a time;
\* two that count before either writes refute it.  An administrator's is not counted.
CapIsKept ==
    \A s \in Slots : Is(s, "mint") /\ calls[s].checked
        => \A e \in calls[s].on : Cardinality(LiveKeys(e)) < MaxActiveKeys

\* What the endpoints keep one request at a time, each of which a race between a
\* read and a transaction refutes.
SerialAccess == OneAdminRemains /\ AdminsAreAllowed /\ RemovalSticks /\ CapIsKept
=============================================================================
