----------------------------- MODULE RateLimit -----------------------------
(***************************************************************************)
(* The sliding windows of backend/app/ratelimit.py: a request reads the    *)
(* clock, waits for the write lock of app.db, and in one transaction       *)
(* forgets what is long past, counts what is left of the window, and       *)
(* refuses or records itself.  The LDAP form checks first and charges a    *)
(* failure only after the directory has answered.                          *)
(*                                                                         *)
(* The tables of the doors share nothing and a deployment has one way to   *)
(* sign in, so a behaviour is about one door.                              *)
(***************************************************************************)
EXTENDS Integers, FiniteSets

CONSTANTS
    Settings,  \* the deployments: a door and the caps it has
    People,    \* emails, user names, users, keys: who a person's budget is for
    Hosts,     \* client addresses
    Nobody,    \* _IP_ONLY_SENTINEL
    None,
    Threads,   \* requests in flight at once
    Window,    \* the *_rate_window_seconds
    Patience,  \* the busy_timeout of app.db
    MaxTime    \* bound: the clock

ASSUME LimitAssumption ==
    /\ Settings \subseteq [door : {"link", "start", "ldap", "chat", "mcp"}, person : Int, host : Int,
                            until : 0..MaxTime]
    /\ Nobody \notin People /\ None \notin People /\ IsFiniteSet(Threads)
    /\ Window \in Nat /\ Patience \in Nat /\ Patience <= Window
    /\ MaxTime \in Nat

VARIABLES
    setting,    \* the door, and its caps per person and per client address;
                \* until bounds the clock
    now,
    rows,       \* its table of attempts
    log,        \* history: every row there ever was
    req         \* [Threads -> request, or None]

limitVars == <<setting, now, rows, log, req>>

Row     == [n : Nat, who : People \cup {Nobody}, host : Hosts, at : 0..MaxTime]
Request == [pc : {"waiting", "checking", "binding", "failed", "served"},
            who : People, host : Hosts, at : 0..MaxTime]

LimitTypeOK ==
    /\ setting \in Settings /\ now \in 0..MaxTime
    /\ rows \subseteq log /\ log \subseteq Row
    /\ req \in [Threads -> Request \cup {None}]

LimitInit ==
    /\ setting \in Settings /\ now = 0 /\ rows = {} /\ log = {}
    /\ req = [r \in Threads |-> None]

-----------------------------------------------------------------------------
door == setting.door

ByPerson == door # "start"
ByHost   == door \in {"link", "start", "ldap"}

\* A cap that is not positive is the off switch of the chat and MCP limiters;
\* at the other doors it refuses everyone.
Disabled == door \in {"chat", "mcp"} /\ setting.person <= 0

\* What a request that read the clock at t leaves of the table: it may have
\* waited for the lock, and one behind it still has an older window to count.
Remembered(t) == {a \in rows : a.at >= t - 2 * Window}

Recent(t) == {a \in rows : a.at >= t - Window}

\* Mutant: one more than the cap.
PersonSpentLate(q) == Cardinality({a \in Recent(q.at) : a.who = q.who}) > setting.person

PersonSpent(q) == Cardinality({a \in Recent(q.at) : a.who = q.who}) >= setting.person

HostSpent(q) == Cardinality({a \in Recent(q.at) : a.host = q.host}) >= setting.host

Spent(q) == (ByPerson /\ PersonSpent(q)) \/ (ByHost /\ HostSpent(q))

\* A row for who, of request q.
Attempt(who, q) == [n |-> Cardinality(log), who |-> who, host |-> q.host, at |-> q.at]

Recorded(kept, a) == rows' = kept \cup {a} /\ log' = log \cup {a}

At(r, pc) == req[r] # None /\ req[r].pc = pc

\* It waits for the write lock.
Locking(r) == At(r, "waiting") \/ At(r, "checking") \/ At(r, "failed")

Ends(r) == req' = [req EXCEPT ![r] = None]

Goes(r, pc) == req' = [req EXCEPT ![r].pc = pc]

GoesNow(r, pc) == req' = [req EXCEPT ![r].pc = pc, ![r].at = now]

-----------------------------------------------------------------------------
Arrive(r, who, host) ==
    /\ req[r] = None
    /\ req' = [req EXCEPT ![r] = [pc |-> "waiting", who |-> who, host |-> host, at |-> now]]
    /\ UNCHANGED <<setting, now, rows, log>>

\* A refusal closes the connection on the uncommitted DELETE: nothing is forgotten.
Enforce(r) ==
    /\ door # "ldap" /\ At(r, "waiting")
    /\ \/ Disabled /\ Goes(r, "served") /\ UNCHANGED <<rows, log>>
       \/ ~Disabled /\ Spent(req[r]) /\ Ends(r) /\ UNCHANGED <<rows, log>>
       \/ /\ ~Disabled /\ ~Spent(req[r]) /\ Goes(r, "served")
          /\ Recorded(Remembered(req[r].at),
                      Attempt(IF ByPerson THEN req[r].who ELSE Nobody, req[r]))
    /\ UNCHANGED <<setting, now>>

\* enforce_auth_ip_rate_limit, the first of the LDAP form's two checks.
EnforceHost(r) ==
    /\ door = "ldap" /\ At(r, "waiting")
    /\ IF HostSpent(req[r]) THEN Ends(r) /\ UNCHANGED <<rows, log>>
       ELSE /\ GoesNow(r, "checking")
            /\ Recorded(Remembered(req[r].at), Attempt(Nobody, req[r]))
    /\ UNCHANGED <<setting, now>>

\* enforce_auth_rate_limit(record=False): it counts, and leaves the table alone.
CheckOnly(r) ==
    /\ At(r, "checking")
    /\ IF Spent(req[r]) THEN Ends(r) ELSE Goes(r, "binding")
    /\ UNCHANGED <<setting, now, rows, log>>

\* The directory takes its time.  A password that is right may still be of an
\* address this deployment has blocked.
Bind(r) ==
    /\ At(r, "binding")
    /\ GoesNow(r, "served") \/ GoesNow(r, "failed")
    /\ UNCHANGED <<setting, now, rows, log>>

\* record_auth_attempt.
Charge(r) ==
    /\ At(r, "failed") /\ Ends(r)
    /\ Recorded(rows, Attempt(req[r].who, req[r]))
    /\ UNCHANGED <<setting, now>>

\* The write lock does not come within the busy_timeout: an error, and no row.
LockTimesOut(r) ==
    /\ Locking(r) /\ Ends(r)
    /\ UNCHANGED <<setting, now, rows, log>>

\* The request goes on; a start of an OIDC login goes on in SignIn.
Answer(r) ==
    /\ door # "start" /\ At(r, "served") /\ Ends(r)
    /\ UNCHANGED <<setting, now, rows, log>>

Tick ==
    /\ now < setting.until /\ now' = now + 1
    /\ \A r \in Threads : Locking(r) => now < req[r].at + Patience
    /\ UNCHANGED <<setting, rows, log, req>>

LimitStep ==
    \E r \in Threads :
          \/ \E who \in People, host \in Hosts : Arrive(r, who, host)
          \/ Enforce(r) \/ EnforceHost(r) \/ CheckOnly(r) \/ Bind(r) \/ Charge(r)
          \/ LockTimesOut(r) \/ Answer(r)

-----------------------------------------------------------------------------
InWindow(S, t) == {a \in S : t <= a.at /\ a.at <= t + Window}

\* However requests wait for each other, a restart between them or not, no window
\* of the configured length has more requests of one person than the cap
\* (ratelimit.py:1-5).
WindowBudget ==
    door \notin {"start", "ldap"} /\ ~Disabled =>
        \A who \in People, t \in 0..MaxTime :
            LET some == InWindow({a \in log : a.who = who}, t)
            IN  some # {} => Cardinality(some) <= setting.person

\* Nor more sign-ins from one address, which at the LDAP form are its rows without
\* a name (routers/auth.py:384-386).
HostBudget ==
    ByHost => \A host \in Hosts, t \in 0..MaxTime :
        LET some == InWindow({a \in log : a.host = host /\ (door = "ldap" => a.who = Nobody)}, t)
        IN  some # {} => Cardinality(some) <= setting.host

\* Guesses in flight pass the check together, for they are charged later: a window
\* has at most as many wrong ones of one name as the cap and the other requests in
\* flight allow (routers/auth.py:388-391).
GuessBudget ==
    door = "ldap" => \A who \in People, t \in 0..MaxTime :
        LET some == InWindow({a \in log : a.who = who}, t)
        IN  some # {} => Cardinality(some) <= setting.person + Cardinality(Threads) - 1

\* No door lets more through than its caps, in any window.
BudgetsHold == WindowBudget /\ HostBudget /\ GuessBudget
=============================================================================
