------------------------------- MODULE SignIn -------------------------------
(***************************************************************************)
(* Signing in with the institution's provider (OIDC): oidc.py, the routes  *)
(* of routers/auth.py and the trust on first use of auth.py.  A login is   *)
(* started (past the limiter of RateLimit), comes back once, to the        *)
(* browser that started it, is exchanged for an id_token without any       *)
(* transaction open, verified against the cached signing keys, and         *)
(* becomes a session bound to the provider's subject.                      *)
(*                                                                         *)
(* The browsers are RateLimit's People; every subject claims the same      *)
(* email address.  The keys the provider publishes are counted: document   *)
(* g has the keys g - 1 and g.                                             *)
(***************************************************************************)
EXTENDS RateLimit

CONSTANTS
    Calls,         \* callbacks in flight at once
    States,        \* bound: the logins started
    Subjects,      \* subjects of the provider
    StateTtl,      \* _STATE_TTL_SECONDS
    JwksTtl,       \* _JWKS_TTL_SECONDS
    Floor,         \* _JWKS_MIN_REFETCH_SECONDS
    MaxRotations,  \* bound: rotations of the provider's keys
    MaxRestarts    \* bound: restarts of the server

ASSUME SignInAssumption ==
    /\ None \notin People \cup States \cup Subjects
    /\ StateTtl \in Nat /\ JwksTtl \in Nat /\ Floor \in Nat \ {0}
    /\ MaxRotations \in Nat /\ MaxRestarts \in Nat

VARIABLES
    logins,    \* [States -> row of oidc_logins]
    cookie,    \* [People -> state in the browser's cookie]
    call,      \* [Calls -> callback, or None]
    signing,   \* the key the provider signs with
    cached, cachedAt, forcedAt,  \* _cache: jwks, jwks_at, jwks_forced_at
    bound,     \* users.oidc_sub of the address
    restarts,
    asked,     \* history: when the provider was last asked for newer keys
    starter,   \* history: the browser that started a login
    signedIn,  \* history: the sessions opened
    opened     \* history: how many of each login

browser  == <<cookie, starter>>
keys     == <<cached, cachedAt, forcedAt, asked>>
outcome  == <<bound, signedIn, opened>>
oidcVars == <<logins, browser, call, signing, keys, outcome, restarts>>
vars     == <<limitVars, oidcVars>>

Never == -JwksTtl - Floor

Keys == 0..MaxRotations

LoginRow == [is : {"free", "pending", "used", "swept"}, until : 0..MaxTime + StateTtl]
Callback == [pc : {"burning", "exchange", "fetching", "fetched", "forcing", "asking",
                   "refetching", "refetched", "deciding", "writing"},
             browser : People, state : States, at : 0..MaxTime, key : Keys, sub : Subjects \cup {None},
             doc : Keys]

ASSUME CallAssumption == None \notin Callback /\ None \notin Keys

TypeOK ==
    /\ LimitTypeOK
    /\ logins \in [States -> LoginRow]
    /\ cookie \in [People -> States \cup {None}]
    /\ call \in [Calls -> Callback \cup {None}]
    /\ signing \in Keys /\ cached \in Keys \cup {None}
    /\ {cachedAt, forcedAt, asked} \subseteq {Never} \cup 0..MaxTime
    /\ bound \in Subjects \cup {None} /\ restarts \in 0..MaxRestarts
    /\ starter \in [States -> People \cup {None}]
    /\ signedIn \subseteq [state : States, browser : People, sub : Subjects]
    /\ opened \in [States -> Nat]

NoKeys == cached = None /\ cachedAt = Never /\ forcedAt = Never

Init ==
    /\ LimitInit
    /\ logins = [s \in States |-> [is |-> "free", until |-> 0]]
    /\ cookie = [b \in People |-> None]
    /\ call = [c \in Calls |-> None]
    /\ signing = 0 /\ NoKeys /\ bound = None /\ restarts = 0
    /\ asked = Never /\ starter = [s \in States |-> None]
    /\ signedIn = {} /\ opened = [s \in States |-> 0]

-----------------------------------------------------------------------------
(* POST /oidc/start                                                          *)

\* begin_login: discovery may fail, before the row is written.
BeginLogin(r, s) ==
    /\ door = "start" /\ At(r, "served") /\ Ends(r)
    /\ \/ UNCHANGED <<logins, browser>>
       \/ /\ logins[s].is = "free"
          /\ logins' = [logins EXCEPT ![s] = [is |-> "pending", until |-> now + StateTtl]]
          /\ cookie' = [cookie EXCEPT ![req[r].who] = s]
          /\ starter' = [starter EXCEPT ![s] = req[r].who]
    /\ UNCHANGED <<setting, now, rows, log, call, signing, keys, outcome, restarts>>

-----------------------------------------------------------------------------
(* GET /oidc/callback                                                        *)

In(c, pc) == call[c] # None /\ call[c].pc = pc

CallEnds(c) == call' = [call EXCEPT ![c] = None]

CallGoes(c, pc) == call' = [call EXCEPT ![c].pc = pc]

\* _oidc_failure: whatever went wrong, the browser's cookie goes.
Refused(c) ==
    /\ CallEnds(c)
    /\ cookie' = [cookie EXCEPT ![call[c].browser] = None]

Usable(s) == logins[s].is = "pending" /\ logins[s].until >= now

\* A browser comes back with a state, its own or one somebody sent it, once or
\* again.  claim_state compares the cookie and reads the row.
Return(c, b, s) ==
    /\ door = "start" /\ call[c] = None /\ starter[s] # None
    /\ \/ /\ cookie[b] = s /\ Usable(s)
          /\ call' = [call EXCEPT ![c] = [pc |-> "burning", browser |-> b, state |-> s, at |-> 0,
                                          key |-> 0, doc |-> 0, sub |-> None]]
          /\ UNCHANGED cookie
       \/ /\ ~(cookie[b] = s /\ Usable(s))
          /\ cookie' = [cookie EXCEPT ![b] = None] /\ UNCHANGED call
    /\ UNCHANGED <<limitVars, logins, starter, signing, keys, outcome, restarts>>

\* Mutant: the row is marked without asking whether it still was free.
BurnAlways(c) ==
    LET s == call[c].state IN
    /\ In(c, "burning")
    /\ CallGoes(c, "exchange") /\ UNCHANGED cookie
    /\ logins' = [logins EXCEPT ![s].is = "used"]
    /\ UNCHANGED <<limitVars, starter, signing, keys, outcome, restarts>>

\* The conditional update: of two callbacks that read the row, one proceeds.
Burn(c) ==
    LET s == call[c].state IN
    /\ In(c, "burning")
    /\ IF logins[s].is = "pending"
       THEN /\ CallGoes(c, "exchange") /\ UNCHANGED cookie
            /\ logins' = [logins EXCEPT ![s].is = "used"]
       ELSE Refused(c) /\ UNCHANGED logins
    /\ UNCHANGED <<limitVars, starter, signing, keys, outcome, restarts>>

Has(doc, key) == doc # None /\ key \in {doc - 1, doc}

\* Mutant: claims without a subject are accepted.
VerifiedAnyone(c) ==
    \E sub \in Subjects \cup {None} :
        call' = [call EXCEPT ![c] = [@ EXCEPT !.pc = "deciding", !.sub = sub,
                                              !.at = 0, !.key = 0, !.doc = 0]]

\* The signature holds, and the keys are done with.  The claims name whoever is
\* signed in at the provider.
Verified(c) ==
    \E sub \in Subjects :
        call' = [call EXCEPT ![c] = [@ EXCEPT !.pc = "deciding", !.sub = sub,
                                              !.at = 0, !.key = 0, !.doc = 0]]

\* exchange_code: the provider refuses, or answers with an id_token, and jwks()
\* has a fresh document or asks for one.
Exchange(c) ==
    LET fresh == cached # None /\ now - cachedAt < JwksTtl IN
    /\ In(c, "exchange")
    /\ \/ Refused(c)
       \/ fresh /\ Has(cached, signing) /\ Verified(c) /\ UNCHANGED cookie
       \/ /\ ~(fresh /\ Has(cached, signing))
          /\ call' = [call EXCEPT ![c] = [@ EXCEPT !.pc = IF fresh THEN "forcing" ELSE "fetching",
                                                   !.at = now, !.key = signing]]
          /\ UNCHANGED cookie
    /\ UNCHANGED <<limitVars, logins, starter, signing, keys, outcome, restarts>>

\* The provider's answer, or none.
Fetch(c) ==
    /\ (In(c, "fetching") \/ In(c, "refetching"))
    /\ \/ Refused(c)
       \/ /\ call' = [call EXCEPT ![c] = [@ EXCEPT !.doc = signing,
                          !.pc = IF In(c, "fetching") THEN "fetched" ELSE "refetched"]]
          /\ UNCHANGED cookie
    /\ UNCHANGED <<limitVars, logins, starter, signing, keys, outcome, restarts>>

\* It is cached under the time it was asked for, over whatever another callback
\* has cached in the meantime; this one is verified with what it fetched itself.
Cache(c) ==
    LET fits == Has(call[c].doc, call[c].key) IN
    /\ (In(c, "fetched") \/ In(c, "refetched"))
    /\ cached' = call[c].doc /\ cachedAt' = call[c].at
    /\ \/ fits /\ Verified(c) /\ UNCHANGED cookie
       \/ ~fits /\ In(c, "fetched") /\ CallGoes(c, "forcing") /\ UNCHANGED cookie
       \/ ~fits /\ In(c, "refetched") /\ Refused(c)
    /\ UNCHANGED <<limitVars, logins, starter, signing, forcedAt, asked, outcome, restarts>>

\* Mutant: the floor counts from the last fetch of any kind.
WithinFloorOfAny == cached # None /\ now - (IF cachedAt < forcedAt THEN forcedAt ELSE cachedAt) < Floor

WithinFloor == cached # None /\ now - forcedAt < Floor

\* jwks(force=True): the floor is looked up, and stamped before the request.
ForceKeys(c) ==
    /\ In(c, "forcing")
    /\ IF ~WithinFloor
       THEN /\ call' = [call EXCEPT ![c] = [@ EXCEPT !.pc = "asking", !.at = now]]
            /\ UNCHANGED cookie
       ELSE IF Has(cached, call[c].key) THEN Verified(c) /\ UNCHANGED cookie
       ELSE Refused(c)
    /\ UNCHANGED <<limitVars, logins, starter, signing, keys, outcome, restarts>>

Ask(c) ==
    /\ In(c, "asking") /\ CallGoes(c, "refetching")
    /\ forcedAt' = call[c].at /\ asked' = call[c].at
    /\ UNCHANGED <<limitVars, logins, browser, signing, cached, cachedAt, outcome, restarts>>

\* idp_identity_conflicts, read before the transaction's first write.  The
\* address may be blocked as well.
Decide(c) ==
    /\ In(c, "deciding")
    /\ \/ Refused(c)
       \/ bound \in {None, call[c].sub} /\ CallGoes(c, "writing") /\ UNCHANGED cookie
    /\ UNCHANGED <<limitVars, logins, starter, signing, keys, outcome, restarts>>

\* Mutant: the subject of the last sign-in is the one that counts.
BindAnew(c) == bound' = call[c].sub

\* bind_idp_identity only fills a blank.
BindSubject(c) == bound' = IF bound = None THEN call[c].sub ELSE bound

Swept == [s \in States |->
             IF logins[s].is = "used" \/ (logins[s].is = "pending" /\ logins[s].until < now)
             THEN [logins[s] EXCEPT !.is = "swept"] ELSE logins[s]]

\* One transaction: the sweep, the grant, the session, the subject.
Write(c) ==
    LET b == call[c].browser  s == call[c].state IN
    /\ In(c, "writing") /\ CallEnds(c)
    /\ logins' = Swept /\ cookie' = [cookie EXCEPT ![b] = None]
    /\ BindSubject(c)
    /\ signedIn' = signedIn \cup {[state |-> s, browser |-> b, sub |-> call[c].sub]}
    /\ opened' = [opened EXCEPT ![s] = @ + 1]
    /\ UNCHANGED <<limitVars, starter, signing, keys, restarts>>

-----------------------------------------------------------------------------
Rotate ==
    /\ door = "start" /\ signing < MaxRotations /\ signing' = signing + 1
    /\ UNCHANGED <<limitVars, logins, browser, call, keys, outcome, restarts>>

\* The tables survive; the cached keys and the requests in flight do not.  Boot
\* sweeps as a sign-in does.
Restart ==
    /\ restarts < MaxRestarts /\ restarts' = restarts + 1
    /\ req' = [r \in Threads |-> None]
    /\ call' = [c \in Calls |-> None]
    /\ logins' = Swept
    /\ cached' = None /\ cachedAt' = Never /\ forcedAt' = Never
    /\ UNCHANGED <<setting, now, rows, log, browser, signing, asked, outcome>>

Next ==
    \/ (LimitStep \/ Tick) /\ UNCHANGED oidcVars
    \/ \E r \in Threads, s \in States : BeginLogin(r, s)
    \/ \E c \in Calls :
          \/ \E b \in People, s \in States : Return(c, b, s)
          \/ Burn(c) \/ Exchange(c) \/ Fetch(c) \/ Cache(c) \/ ForceKeys(c) \/ Ask(c)
          \/ Decide(c) \/ Write(c)
    \/ Rotate \/ Restart

Spec == Init /\ [][Next]_vars
-----------------------------------------------------------------------------
\* A login opens one session at most, and for the browser that started it,
\* however often its callback comes back and to whom (oidc.py:441-467).
OneSessionPerLogin ==
    /\ \A s \in States : opened[s] <= 1
    /\ \A x \in signedIn : x.browser = starter[x.state]

\* Once an address has a subject, no sign-in gives it another one: not the one
\* that raced the first (auth.py:288-294).
BindingSticks == [][bound # None => bound' = bound]_vars

Published(key) == key \in {signing - 1, signing}

\* An id_token signed with a key the provider publishes is refused for its
\* signature only while somebody asked for newer keys less than Floor ago, not
\* because a document came in a moment before the rotation (oidc.py:295-299).
RotationIsPickedUp ==
    [][\A c \in Calls :
          /\ (In(c, "forcing") \/ In(c, "refetched")) /\ call'[c] = None
          /\ Published(call[c].key) /\ restarts' = restarts
          => now - asked < Floor]_vars

\* "the first OIDC sign-in for an address records the pair and every later one has
\* to match it" (auth.py:275-276).
EveryLaterOneMatches == \A x \in signedIn : x.sub = bound
=============================================================================
