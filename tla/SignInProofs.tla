---------------------------- MODULE SignInProofs ----------------------------
(* Theorems about SignIn, and the RateLimit in it, for every value of their *)
(* constants.                                                               *)
EXTENDS SignIn, FiniteSetTheorems, TLAPS

-----------------------------------------------------------------------------
(* The inductive invariant of the windows                                    *)

\* A request has read the clock, and waits no longer than the lock lets it.
Clocked ==
    \A r \in Threads :
        req[r] # None =>
            /\ req[r].at <= now
            /\ Locking(r) => now <= req[r].at + Patience

\* What is gone from the table is two windows old.
Forgotten == \A a \in log : a \notin rows => a.at < now - 2 * Window

\* Only the LDAP form lets a directory answer in between.
OneDoor == \A r \in Threads : req[r] # None /\ req[r].pc \in {"checking", "binding", "failed"}
                                  => door = "ldap"

Named(who, t) == InWindow({a \in log : a.who = who}, t)

Hosted(host, t) == InWindow({a \in log : a.host = host /\ (door = "ldap" => a.who = Nobody)}, t)

\* The guesses in flight that may yet be charged to the window.
Loose(who, t) ==
    {r \in Threads : /\ req[r] # None /\ req[r].who = who
                     /\ \/ req[r].pc = "binding" /\ now <= t + Window
                        \/ req[r].pc = "failed" /\ t <= req[r].at /\ req[r].at <= t + Window}

\* Those charged and those still loose are not more than the cap and the threads.
Guesses ==
    door = "ldap" => \A who \in People, t \in 0..MaxTime :
        Named(who, t) # {} \/ Loose(who, t) # {} =>
            Cardinality(Named(who, t)) + Cardinality(Loose(who, t))
                <= setting.person + Cardinality(Threads) - 1

Tables == LimitTypeOK /\ IsFiniteSet(log) /\ Clocked /\ Forgotten /\ OneDoor

LimitInv == Tables /\ WindowBudget /\ HostBudget /\ Guesses

-----------------------------------------------------------------------------
(* Counting                                                                  *)

LEMMA Fewer ==
    ASSUME NEW T, IsFiniteSet(T), NEW S, S \subseteq T
    PROVE  /\ IsFiniteSet(S) /\ Cardinality(S) \in Nat /\ Cardinality(T) \in Nat
           /\ Cardinality(S) <= Cardinality(T)
BY FS_Subset, FS_CardinalityType

LEMMA OneMore ==
    ASSUME NEW S, IsFiniteSet(S), NEW x
    PROVE  /\ IsFiniteSet(S \cup {x}) /\ Cardinality(S) \in Nat
           /\ Cardinality(S \cup {x}) \in Nat /\ Cardinality(S \cup {x}) <= Cardinality(S) + 1
BY FS_AddElement, FS_CardinalityType

LEMMA Numbers ==
    /\ Window \in Nat /\ Patience \in Nat /\ Patience <= Window /\ MaxTime \in Nat
    /\ IsFiniteSet(Threads) /\ Nobody \notin People /\ None \notin People
BY LimitAssumption

LEMMA SettingParts ==
    ASSUME LimitTypeOK
    PROVE  /\ door \in {"link", "start", "ldap", "chat", "mcp"}
           /\ setting.person \in Int /\ setting.host \in Int /\ setting.until \in 0..MaxTime
BY LimitAssumption DEF LimitTypeOK, door

LEMMA RequestParts ==
    ASSUME LimitTypeOK, NEW r \in Threads, req[r] # None
    PROVE  /\ req[r] \in Request
           /\ req[r].pc \in {"waiting", "checking", "binding", "failed", "served"}
           /\ req[r].who \in People /\ req[r].host \in Hosts /\ req[r].at \in 0..MaxTime
BY DEF LimitTypeOK, Request

\* Whoever waits for the lock still finds every row of its window.
LEMMA NoneIsMissed ==
    ASSUME Tables, NEW r \in Threads, req[r] # None, Locking(r),
           NEW a \in log, a.at >= req[r].at - Window
    PROVE  a \in Recent(req[r].at)
<1>1. req[r].at \in 0..MaxTime /\ now \in 0..MaxTime /\ now <= req[r].at + Patience
  BY RequestParts DEF Tables, LimitTypeOK, Clocked
<1>2. a.at \in 0..MaxTime
  BY DEF Tables, LimitTypeOK, Row
<1>3. ~(a.at < now - 2 * Window)
  BY <1>1, <1>2, Numbers
<1>4. a \in rows
  BY <1>3 DEF Tables, Forgotten
<1> QED BY <1>4 DEF Recent

\* A row whose request found less than cap of its kind in its window leaves every
\* window with no more than cap of them.
LEMMA CapKept ==
    ASSUME Tables, NEW r \in Threads, req[r] # None, Locking(r), NEW cap \in Int,
           NEW kind, kind \subseteq log,
           NEW t \in 0..MaxTime, NEW a, a.at = req[r].at,
           InWindow(kind, t) # {} => Cardinality(InWindow(kind, t)) <= cap,
           Cardinality({b \in Recent(req[r].at) : b \in kind}) < cap,
           InWindow(kind \cup {a}, t) # {}
    PROVE  Cardinality(InWindow(kind \cup {a}, t)) <= cap
<1>1. IsFiniteSet(log) /\ rows \subseteq log /\ log \subseteq Row
  BY DEF Tables, LimitTypeOK
<1>2. req[r].at \in 0..MaxTime
  BY RequestParts DEF Tables
<1> DEFINE old == InWindow(kind, t)
           seen == {b \in Recent(req[r].at) : b \in kind}
<1>3. CASE t <= a.at /\ a.at <= t + Window
  <2>1. InWindow(kind \cup {a}, t) = old \cup {a}
    BY <1>3 DEF InWindow
  <2>2. old \subseteq seen
    <3> SUFFICES ASSUME NEW b \in old PROVE b \in seen
      OBVIOUS
    <3>1. b \in log /\ b \in kind /\ t <= b.at /\ b.at \in 0..MaxTime
      BY <1>1 DEF InWindow, Row
    <3>2. b.at >= req[r].at - Window
      BY <1>2, <1>3, <3>1, Numbers
    <3> QED BY <3>1, <3>2, NoneIsMissed
  <2>3. IsFiniteSet(seen)
    BY <1>1, Fewer DEF Recent
  <2>4. Cardinality(old) <= Cardinality(seen) /\ IsFiniteSet(old)
        /\ Cardinality(old) \in Nat /\ Cardinality(seen) \in Nat
    BY <2>2, <2>3, Fewer
  <2>5. Cardinality(old \cup {a}) <= Cardinality(old) + 1 /\ Cardinality(old \cup {a}) \in Nat
    BY <2>4, OneMore
  <2>6. Cardinality(seen) < cap
    OBVIOUS
  <2>7. Cardinality(old \cup {a}) <= cap
    <3> DEFINE x == Cardinality(old)  y == Cardinality(seen)  z == Cardinality(old \cup {a})
    <3>1. x \in Nat /\ y \in Nat /\ z \in Nat /\ x <= y /\ z <= x + 1 /\ y < cap
      BY <2>4, <2>5, <2>6
    <3> HIDE DEF x, y, z
    <3>2. z <= cap
      BY <3>1
    <3> QED BY <3>2 DEF z
  <2> QED BY <2>1, <2>7
<1>4. CASE ~(t <= a.at /\ a.at <= t + Window)
  <2>1. InWindow(kind \cup {a}, t) = old
    BY <1>4 DEF InWindow
  <2> QED BY <2>1
<1> QED BY <1>3, <1>4

-----------------------------------------------------------------------------
(* The steps of the windows                                                  *)

\* A step that records nothing and lets no guess loose.
LEMMA QuietStep ==
    ASSUME LimitInv, UNCHANGED <<setting, rows, log>>, now' \in 0..MaxTime, now <= now',
           req' \in [Threads -> Request \cup {None}], Clocked', OneDoor',
           \A who \in People, t \in 0..MaxTime : Loose(who, t)' \subseteq Loose(who, t)
    PROVE  LimitInv'
<1>1. LimitTypeOK'
  BY DEF LimitInv, Tables, LimitTypeOK
<1>2. Forgotten'
  <2> SUFFICES ASSUME NEW a \in log, a \notin rows PROVE a.at < now' - 2 * Window
    BY DEF Forgotten
  <2>1. a.at < now - 2 * Window
    BY DEF LimitInv, Tables, Forgotten
  <2>2. a.at \in 0..MaxTime /\ now \in 0..MaxTime
    BY DEF LimitInv, Tables, LimitTypeOK, Row
  <2> QED BY <2>1, <2>2, Numbers
<1>3. WindowBudget' /\ HostBudget'
  BY DEF LimitInv, WindowBudget, HostBudget, InWindow, door, Disabled, ByHost
<1>4. Guesses'
  <2> SUFFICES ASSUME door = "ldap", NEW who \in People, NEW t \in 0..MaxTime,
                      Named(who, t) # {} \/ Loose(who, t)' # {}
               PROVE  Cardinality(Named(who, t)) + Cardinality(Loose(who, t)')
                          <= setting.person + Cardinality(Threads) - 1
    BY DEF Guesses, Named, InWindow, door
  <2> DEFINE P == Loose(who, t)  Q == Loose(who, t)'  S == Named(who, t)
  <2>1. Q \subseteq P
    OBVIOUS
  <2>2. S # {} \/ P # {} => Cardinality(S) + Cardinality(P) <= setting.person + Cardinality(Threads) - 1
    BY DEF LimitInv, Guesses
  <2>3. IsFiniteSet(P) /\ IsFiniteSet(S) /\ Cardinality(Threads) \in Nat
    <3>1. P \subseteq Threads /\ S \subseteq log
      BY DEF Loose, Named, InWindow
    <3> HIDE DEF P, S
    <3> QED BY <3>1, Fewer, Numbers DEF LimitInv, Tables
  <2>4. setting.person \in Int
    BY SettingParts DEF LimitInv, Tables
  <2> HIDE DEF P, Q, S
  <2>5. Cardinality(Q) <= Cardinality(P) /\ Cardinality(Q) \in Nat /\ Cardinality(P) \in Nat
        /\ Cardinality(S) \in Nat
    BY <2>1, <2>3, Fewer
  <2>6. S # {} \/ P # {}
    BY <2>1 DEF P, Q, S
  <2>7. Cardinality(S) + Cardinality(Q) <= setting.person + Cardinality(Threads) - 1
    BY <2>2, <2>3, <2>4, <2>5, <2>6
  <2> QED BY <2>7 DEF Q, S
<1> QED BY <1>1, <1>2, <1>3, <1>4 DEF LimitInv, Tables

\* Requests that go away, all or some.
LEMMA RequestsGo ==
    ASSUME LimitInv, UNCHANGED <<setting, now, rows, log>>,
           req' \in [Threads -> Request \cup {None}],
           \A r \in Threads : req'[r] \in {req[r], None}
    PROVE  LimitInv'
<1>1. now \in 0..MaxTime /\ now <= now'
  BY DEF LimitInv, Tables, LimitTypeOK
<1>2. Clocked' /\ OneDoor'
  BY DEF LimitInv, Tables, Clocked, OneDoor, Locking, At, door
<1>3. \A who \in People, t \in 0..MaxTime : Loose(who, t)' \subseteq Loose(who, t)
  BY DEF Loose
<1> QED BY <1>1, <1>2, <1>3, QuietStep

\* One that ends or moves on by itself.
LEMMA RequestMoves ==
    ASSUME LimitInv, UNCHANGED <<setting, now, rows, log>>, NEW r \in Threads,
           NEW q \in Request \cup {None}, req' = [req EXCEPT ![r] = q],
           q # None => /\ q.at <= now /\ now <= q.at + Patience
                       /\ q.pc \in {"checking", "failed"} => door = "ldap"
                       /\ q.pc # "binding"
                       /\ q.pc = "failed" => /\ At(r, "binding") /\ q.at = now
                                             /\ q.who = req[r].who
    PROVE  LimitInv'
<1>1. now \in 0..MaxTime /\ now <= now' /\ req \in [Threads -> Request \cup {None}]
  BY DEF LimitInv, Tables, LimitTypeOK
<1>2. req' \in [Threads -> Request \cup {None}] /\ req'[r] = q
      /\ \A s \in Threads : s # r => req'[s] = req[s]
  BY <1>1
<1>3. Clocked'
  BY <1>1, <1>2 DEF LimitInv, Tables, Clocked, Locking, At
<1>4. OneDoor'
  BY <1>1, <1>2 DEF LimitInv, Tables, OneDoor, door
<1>5. \A who \in People, t \in 0..MaxTime : Loose(who, t)' \subseteq Loose(who, t)
  BY <1>1, <1>2 DEF Loose, At
<1> QED BY <1>1, <1>2, <1>3, <1>4, <1>5, QuietStep

\* A request that is recorded under who, with the others of at least this window kept.
LEMMA RecordStep ==
    ASSUME Tables, NEW r \in Threads, req[r] # None, Locking(r), NEW who \in People \cup {Nobody},
           NEW kept \in SUBSET rows,
           \A b \in rows : b \notin kept => b.at < now - 2 * Window,
           Recorded(kept, Attempt(who, req[r])),
           UNCHANGED <<setting, now>>,
           NEW q \in Request \cup {None}, req' = [req EXCEPT ![r] = q],
           q # None => /\ q.at <= now /\ now <= q.at + Patience
                       /\ q.pc \in {"checking", "binding", "failed"} => door = "ldap"
    PROVE  Tables'
<1> DEFINE a == Attempt(who, req[r])
<1>1. a \in Row /\ rows \subseteq log /\ log \subseteq Row /\ IsFiniteSet(log)
      /\ now \in 0..MaxTime
  <2>1. Cardinality(log) \in Nat
    BY FS_CardinalityType DEF Tables
  <2> QED BY <2>1, RequestParts DEF Tables, LimitTypeOK, Attempt, Row
<1>2. rows' = kept \cup {a} /\ log' = log \cup {a}
  BY DEF Recorded
<1> HIDE DEF a
<1>3. LimitTypeOK'
  BY <1>1, <1>2 DEF Tables, LimitTypeOK
<1>4. IsFiniteSet(log')
  BY <1>1, <1>2, OneMore
<1>5. Forgotten'
  BY <1>1, <1>2 DEF Tables, Forgotten
<1>6. req'[r] = q /\ \A s \in Threads : s # r => req'[s] = req[s]
  BY DEF Tables, LimitTypeOK
<1>7. Clocked' /\ OneDoor'
  BY <1>1, <1>6 DEF Tables, Clocked, OneDoor, Locking, At, door
<1> QED BY <1>3, <1>4, <1>5, <1>7 DEF Tables

\* What an attempt forgets is two windows old.
LEMMA ForgetsOld ==
    ASSUME Tables, NEW r \in Threads, req[r] # None, Locking(r)
    PROVE  \A b \in rows : b \notin Remembered(req[r].at) => b.at < now - 2 * Window
<1> SUFFICES ASSUME NEW b \in rows, ~(b.at >= req[r].at - 2 * Window)
             PROVE  b.at < now - 2 * Window
  BY DEF Remembered
<1>1. b.at \in 0..MaxTime /\ req[r].at \in 0..MaxTime /\ now \in 0..MaxTime
      /\ req[r].at <= now
  BY RequestParts DEF Tables, LimitTypeOK, Row, Clocked
<1> QED BY <1>1, Numbers

LEMMA ArriveInv ==
    ASSUME LimitInv, NEW r \in Threads, NEW who \in People, NEW host \in Hosts, Arrive(r, who, host)
    PROVE  LimitInv'
<1> DEFINE q == [pc |-> "waiting", who |-> who, host |-> host, at |-> now]
<1>1. now \in 0..MaxTime
  BY DEF LimitInv, Tables, LimitTypeOK
<1>2. q \in Request /\ q.at = now /\ q.pc = "waiting"
  BY <1>1 DEF Request
<1>3. req' = [req EXCEPT ![r] = q] /\ UNCHANGED <<setting, now, rows, log>>
  BY DEF Arrive
<1>4. q.at <= now /\ now <= q.at + Patience
  BY <1>1, <1>2, Numbers
<1> HIDE DEF q
<1> QED BY <1>2, <1>3, <1>4, RequestMoves

\* A request that ends, or is served, without a row.
LEMMA GoesInv ==
    ASSUME LimitInv, NEW r \in Threads, req[r] # None, Locking(r),
           UNCHANGED <<setting, now, rows, log>>, Ends(r) \/ Goes(r, "served")
    PROVE  LimitInv'
<1>1. CASE Ends(r)
  <2>1. req' \in [Threads -> Request \cup {None}] /\ \A s \in Threads : req'[s] \in {req[s], None}
    BY <1>1 DEF LimitInv, Tables, LimitTypeOK, Ends
  <2> QED BY <2>1, RequestsGo
<1>2. CASE Goes(r, "served")
  <2> DEFINE q == [req[r] EXCEPT !.pc = "served"]
  <2>1. req[r] \in Request /\ req[r].at <= now /\ now <= req[r].at + Patience
    BY RequestParts DEF LimitInv, Tables, Clocked
  <2>2. q \in Request /\ q.at = req[r].at /\ q.pc = "served"
    BY <2>1 DEF Request
  <2>3. req' = [req EXCEPT ![r] = q]
    BY <1>2 DEF Goes
  <2> HIDE DEF q
  <2> QED BY <2>1, <2>2, <2>3, RequestMoves
<1> QED BY <1>1, <1>2

\* The rows of one person, of one address.
OfPerson(who) == {a \in log : a.who = who}
OfHost(host)  == {a \in log : a.host = host /\ (door = "ldap" => a.who = Nobody)}

LEMMA OneMoreOfPerson ==
    ASSUME NEW a, log' = log \cup {a}, NEW who
    PROVE  OfPerson(who)' = IF a.who = who THEN OfPerson(who) \cup {a} ELSE OfPerson(who)
BY DEF OfPerson

LEMMA OneMoreOfHost ==
    ASSUME NEW a, log' = log \cup {a}, UNCHANGED setting, NEW host
    PROVE  OfHost(host)' = IF a.host = host /\ (door = "ldap" => a.who = Nobody)
                           THEN OfHost(host) \cup {a} ELSE OfHost(host)
BY DEF OfHost, door

\* A request that found its person's budget unspent leaves it kept.
LEMMA PersonKept ==
    ASSUME LimitInv, Tables', NEW r \in Threads, req[r] # None, Locking(r), UNCHANGED setting,
           NEW a, a.at = req[r].at, a.who = req[r].who, log' = log \cup {a},
           ~PersonSpent(req[r])
    PROVE  WindowBudget'
<1> SUFFICES ASSUME door \notin {"start", "ldap"}, ~Disabled, NEW who \in People,
                    NEW t \in 0..MaxTime, InWindow(OfPerson(who)', t) # {}
             PROVE  Cardinality(InWindow(OfPerson(who)', t)) <= setting.person
  BY DEF WindowBudget, OfPerson, door, Disabled, InWindow
<1>1. InWindow(OfPerson(who), t) # {} =>
          Cardinality(InWindow(OfPerson(who), t)) <= setting.person
  BY DEF LimitInv, WindowBudget, OfPerson
<1>2. CASE a.who = who
  <2>1. {b \in Recent(req[r].at) : b.who = req[r].who}
            = {b \in Recent(req[r].at) : b \in OfPerson(who)}
    BY <1>2 DEF Recent, OfPerson, LimitInv, Tables, LimitTypeOK
  <2>2. /\ IsFiniteSet({b \in Recent(req[r].at) : b \in OfPerson(who)})
        /\ setting.person \in Int
    <3>1. {b \in Recent(req[r].at) : b \in OfPerson(who)} \subseteq log
      BY DEF Recent, OfPerson
    <3> QED BY <3>1, Fewer, SettingParts DEF LimitInv, Tables
  <2>3. Cardinality({b \in Recent(req[r].at) : b \in OfPerson(who)}) \in Nat
    BY <2>2, FS_CardinalityType
  <2>4. Cardinality({b \in Recent(req[r].at) : b \in OfPerson(who)}) < setting.person
    <3>1. ~(Cardinality({b \in Recent(req[r].at) : b.who = req[r].who}) >= setting.person)
      BY DEF PersonSpent
    <3>2. ~(Cardinality({b \in Recent(req[r].at) : b \in OfPerson(who)}) >= setting.person)
      BY <2>1, <3>1
    <3> DEFINE x == Cardinality({b \in Recent(req[r].at) : b \in OfPerson(who)})
    <3>3. x \in Nat /\ ~(x >= setting.person)
      BY <2>3, <3>2
    <3> HIDE DEF x
    <3>4. x < setting.person
      BY <2>2, <3>3
    <3> QED BY <3>4 DEF x
  <2>5. OfPerson(who)' = OfPerson(who) \cup {a} /\ OfPerson(who) \subseteq log
    BY <1>2, OneMoreOfPerson DEF OfPerson
  <2> QED BY <1>1, <2>2, <2>4, <2>5, CapKept DEF LimitInv
<1>3. CASE a.who # who
  BY <1>1, <1>3, OneMoreOfPerson
<1> QED BY <1>2, <1>3

\* A request that found its address's budget unspent leaves it kept.
LEMMA HostKept ==
    ASSUME LimitInv, NEW r \in Threads, req[r] # None, Locking(r), UNCHANGED setting,
           NEW a, a.at = req[r].at, a.host = req[r].host, log' = log \cup {a},
           ~HostSpent(req[r])
    PROVE  HostBudget'
<1> SUFFICES ASSUME ByHost, NEW host \in Hosts,
                    NEW t \in 0..MaxTime, InWindow(OfHost(host)', t) # {}
             PROVE  Cardinality(InWindow(OfHost(host)', t)) <= setting.host
  BY DEF HostBudget, OfHost, door, ByHost, InWindow
<1>1. InWindow(OfHost(host), t) # {} =>
          Cardinality(InWindow(OfHost(host), t)) <= setting.host
  BY DEF LimitInv, HostBudget, OfHost
<1>2. CASE a.host = host /\ (door = "ldap" => a.who = Nobody)
  <2> DEFINE all == {b \in Recent(req[r].at) : b.host = req[r].host}
             mine == {b \in Recent(req[r].at) : b \in OfHost(host)}
  <2>1. mine \subseteq all /\ all \subseteq log
    BY <1>2 DEF Recent, OfHost, LimitInv, Tables, LimitTypeOK
  <2>2. IsFiniteSet(all) /\ setting.host \in Int
    BY <2>1, Fewer, SettingParts DEF LimitInv, Tables
  <2>3. Cardinality(mine) <= Cardinality(all) /\ Cardinality(mine) \in Nat
        /\ Cardinality(all) \in Nat
    BY <2>1, <2>2, Fewer
  <2>4. ~(Cardinality(all) >= setting.host)
    BY DEF HostSpent
  <2>5. Cardinality(mine) < setting.host
    <3> HIDE DEF mine, all
    <3> QED BY <2>2, <2>3, <2>4
  <2>6. OfHost(host)' = OfHost(host) \cup {a} /\ OfHost(host) \subseteq log
    BY <1>2, OneMoreOfHost DEF OfHost
  <2> QED BY <1>1, <2>2, <2>5, <2>6, CapKept DEF LimitInv
<1>3. CASE ~(a.host = host /\ (door = "ldap" => a.who = Nobody))
  BY <1>1, <1>3, OneMoreOfHost
<1> QED BY <1>2, <1>3

\* Without a name, or at another door, a row is nobody's guess.
LEMMA GuessesKept ==
    ASSUME LimitInv, Tables', NEW r \in Threads, NEW a, log' = log \cup {a},
           UNCHANGED <<setting, now>>,
           door = "ldap" => a.who = Nobody,
           \A s \in Threads : s # r => req'[s] = req[s],
           req'[r] # None => req'[r].pc \notin {"binding", "failed"}
    PROVE  Guesses'
<1> SUFFICES ASSUME door = "ldap", NEW who \in People, NEW t \in 0..MaxTime,
                    Named(who, t)' # {} \/ Loose(who, t)' # {}
             PROVE  Cardinality(Named(who, t)') + Cardinality(Loose(who, t)')
                        <= setting.person + Cardinality(Threads) - 1
  BY DEF Guesses, door
<1> DEFINE P == Loose(who, t)  Q == Loose(who, t)'  S == Named(who, t)
<1>1. Named(who, t)' = S
  BY Numbers DEF Named, InWindow
<1>2. Q \subseteq P
  BY DEF Loose
<1>3. S # {} \/ P # {} => Cardinality(S) + Cardinality(P) <= setting.person + Cardinality(Threads) - 1
  BY DEF LimitInv, Guesses
<1>4. IsFiniteSet(P) /\ IsFiniteSet(S) /\ Cardinality(Threads) \in Nat /\ setting.person \in Int
  <2>1. P \subseteq Threads /\ S \subseteq log
    BY DEF Loose, Named, InWindow
  <2> HIDE DEF P, S
  <2> QED BY <2>1, Fewer, Numbers, SettingParts DEF LimitInv, Tables
<1>5. S # {} \/ P # {}
  BY <1>1, <1>2
<1> HIDE DEF P, Q, S
<1>6. Cardinality(Q) <= Cardinality(P) /\ Cardinality(Q) \in Nat /\ Cardinality(P) \in Nat
      /\ Cardinality(S) \in Nat
  BY <1>2, <1>4, Fewer
<1>7. Cardinality(S) + Cardinality(Q) <= setting.person + Cardinality(Threads) - 1
  BY <1>3, <1>4, <1>5, <1>6
<1> QED BY <1>1, <1>7 DEF Q

\* Forget and record, at every door but the LDAP form's.
LEMMA EnforceInv ==
    ASSUME LimitInv, NEW r \in Threads, Enforce(r)
    PROVE  LimitInv'
<1>1. door # "ldap" /\ req[r] # None /\ Locking(r) /\ UNCHANGED <<setting, now>>
  BY DEF Enforce, At, Locking
<1>2. CASE UNCHANGED <<rows, log>> /\ (Ends(r) \/ Goes(r, "served"))
  BY <1>1, <1>2, GoesInv
<1>3. CASE /\ ~Disabled /\ ~Spent(req[r]) /\ Goes(r, "served")
           /\ Recorded(Remembered(req[r].at),
                       Attempt(IF ByPerson THEN req[r].who ELSE Nobody, req[r]))
  <2> DEFINE who == IF ByPerson THEN req[r].who ELSE Nobody
             a   == Attempt(who, req[r])
             q   == [req[r] EXCEPT !.pc = "served"]
  <2>1. req[r] \in Request /\ req[r].at <= now /\ now <= req[r].at + Patience
        /\ who \in People \cup {Nobody}
    BY <1>1, RequestParts DEF LimitInv, Tables, Clocked
  <2>2. q \in Request /\ q.at = req[r].at /\ q.pc = "served" /\ req' = [req EXCEPT ![r] = q]
    BY <1>3, <2>1 DEF Request, Goes
  <2>3. Recorded(Remembered(req[r].at), a) /\ log' = log \cup {a}
    BY <1>3 DEF Recorded
  <2>4. a.at = req[r].at /\ a.host = req[r].host /\ a.who = who
    BY DEF Attempt
  <2> HIDE DEF q
  <2>5. Tables'
    <3>1. Remembered(req[r].at) \in SUBSET rows
      BY DEF Remembered
    <3>2. \A b \in rows : b \notin Remembered(req[r].at) => b.at < now - 2 * Window
      BY <1>1, ForgetsOld DEF LimitInv
    <3> HIDE DEF who
    <3> QED BY <1>1, <2>1, <2>2, <2>3, <3>1, <3>2, RecordStep DEF LimitInv
  <2>6. WindowBudget'
    <3>1. CASE ByPerson
      BY <1>1, <1>3, <2>3, <2>4, <2>5, <3>1, PersonKept DEF Spent
    <3>2. CASE ~ByPerson
      BY <1>1, <3>2 DEF ByPerson, WindowBudget, door
    <3> QED BY <3>1, <3>2
  <2>7. HostBudget'
    <3>1. CASE ByHost
      BY <1>1, <1>3, <2>3, <2>4, <3>1, HostKept DEF Spent
    <3>2. CASE ~ByHost
      BY <1>1, <3>2 DEF ByHost, HostBudget, door
    <3> QED BY <3>1, <3>2
  <2>8. Guesses'
    BY <1>1 DEF Guesses, door
  <2> QED BY <2>5, <2>6, <2>7, <2>8 DEF LimitInv
<1> QED BY <1>2, <1>3 DEF Enforce

LEMMA EnforceHostInv ==
    ASSUME LimitInv, NEW r \in Threads, EnforceHost(r)
    PROVE  LimitInv'
<1>1. door = "ldap" /\ req[r] # None /\ Locking(r) /\ UNCHANGED <<setting, now>>
  BY DEF EnforceHost, At, Locking
<1>2. CASE UNCHANGED <<rows, log>> /\ Ends(r)
  BY <1>1, <1>2, GoesInv
<1>3. CASE /\ ~HostSpent(req[r]) /\ GoesNow(r, "checking")
           /\ Recorded(Remembered(req[r].at), Attempt(Nobody, req[r]))
  <2> DEFINE a == Attempt(Nobody, req[r])
             q == [req[r] EXCEPT !.pc = "checking", !.at = now]
  <2>1. req[r] \in Request /\ now \in 0..MaxTime
    BY <1>1, RequestParts DEF LimitInv, Tables, LimitTypeOK
  <2>2. q \in Request /\ q.at = now /\ q.pc = "checking" /\ req' = [req EXCEPT ![r] = q]
    BY <1>3, <2>1 DEF Request, GoesNow
  <2>3. Recorded(Remembered(req[r].at), a) /\ log' = log \cup {a}
    BY <1>3 DEF Recorded
  <2>4. a.at = req[r].at /\ a.host = req[r].host /\ a.who = Nobody
    BY DEF Attempt
  <2>5. q.at <= now /\ now <= q.at + Patience
    BY <2>1, <2>2, Numbers
  <2> HIDE DEF q
  <2>6. Tables'
    <3>1. Remembered(req[r].at) \in SUBSET rows
      BY DEF Remembered
    <3>2. \A b \in rows : b \notin Remembered(req[r].at) => b.at < now - 2 * Window
      BY <1>1, ForgetsOld DEF LimitInv
    <3> QED BY <1>1, <2>2, <2>3, <2>5, <3>1, <3>2, RecordStep DEF LimitInv
  <2>7. WindowBudget'
    BY <1>1 DEF WindowBudget, door
  <2>8. HostBudget'
    BY <1>1, <1>3, <2>3, <2>4, HostKept
  <2>9. req'[r] = q /\ \A s \in Threads : s # r => req'[s] = req[s]
    BY <2>2 DEF LimitInv, Tables, LimitTypeOK
  <2>10. Guesses'
    BY <1>1, <2>2, <2>3, <2>4, <2>6, <2>9, GuessesKept
  <2> QED BY <2>6, <2>7, <2>8, <2>10 DEF LimitInv
<1> QED BY <1>2, <1>3 DEF EnforceHost

\* A guess that passes the check finds its windows with less than the cap, and all
\* threads together may be loose.
LEMMA CheckOnlyInv ==
    ASSUME LimitInv, NEW r \in Threads, CheckOnly(r)
    PROVE  LimitInv'
<1>1. door = "ldap" /\ req[r] # None /\ Locking(r) /\ UNCHANGED <<setting, now, rows, log>>
      /\ At(r, "checking")
  BY DEF CheckOnly, At, Locking, LimitInv, Tables, OneDoor
<1>2. CASE Ends(r)
  BY <1>1, <1>2, GoesInv
<1>3. CASE ~Spent(req[r]) /\ Goes(r, "binding")
  <2> DEFINE q == [req[r] EXCEPT !.pc = "binding"]
  <2>1. req[r] \in Request /\ req[r].at <= now /\ now \in 0..MaxTime /\ req[r].at \in 0..MaxTime
    BY <1>1, RequestParts DEF LimitInv, Tables, LimitTypeOK, Clocked
  <2>2. q \in Request /\ q.at = req[r].at /\ q.who = req[r].who /\ q.pc = "binding"
        /\ req' = [req EXCEPT ![r] = q]
    BY <1>3, <2>1 DEF Request, Goes
  <2> HIDE DEF q
  <2>3. req' \in [Threads -> Request \cup {None}]
        /\ req'[r] = q /\ \A s \in Threads : s # r => req'[s] = req[s]
    BY <2>1, <2>2 DEF LimitInv, Tables, LimitTypeOK
  <2>4. Tables'
    <3>1. LimitTypeOK' /\ IsFiniteSet(log') /\ Forgotten'
      BY <1>1, <2>3 DEF LimitInv, Tables, LimitTypeOK, Forgotten
    <3>2. Clocked'
      BY <1>1, <2>1, <2>2, <2>3 DEF LimitInv, Tables, Clocked, Locking, At
    <3>3. OneDoor'
      BY <1>1, <2>3 DEF LimitInv, Tables, OneDoor, door
    <3> QED BY <3>1, <3>2, <3>3 DEF Tables
  <2>5. WindowBudget' /\ HostBudget'
    BY <1>1 DEF LimitInv, WindowBudget, HostBudget, InWindow, door, Disabled, ByHost
  <2>6. Guesses'
    <3> SUFFICES ASSUME NEW who \in People, NEW t \in 0..MaxTime,
                        Named(who, t) # {} \/ Loose(who, t)' # {}
                 PROVE  Cardinality(Named(who, t)) + Cardinality(Loose(who, t)')
                            <= setting.person + Cardinality(Threads) - 1
      BY <1>1 DEF Guesses, Named, InWindow, door
    <3> DEFINE S == Named(who, t)  P == Loose(who, t)  Q == Loose(who, t)'
    <3>1. IsFiniteSet(S) /\ IsFiniteSet(P) /\ IsFiniteSet(Q) /\ setting.person \in Int
          /\ Cardinality(Threads) \in Nat /\ Cardinality(S) \in Nat /\ Cardinality(Q) \in Nat
          /\ Cardinality(P) \in Nat /\ Cardinality(Q) <= Cardinality(Threads)
      <4>1. P \subseteq Threads /\ Q \subseteq Threads /\ S \subseteq log
        BY DEF Loose, Named, InWindow
      <4> HIDE DEF P, Q, S
      <4> QED BY <4>1, Fewer, Numbers, SettingParts DEF LimitInv, Tables
    <3>2. CASE r \in Q
      <4>1. who = req[r].who /\ now <= t + Window
        BY <1>1, <2>2, <2>3, <3>2 DEF Loose
      <4> DEFINE seen == {b \in Recent(req[r].at) : b.who = req[r].who}
      <4>2. S \subseteq seen
        <5> SUFFICES ASSUME NEW b \in S PROVE b \in seen
          OBVIOUS
        <5>1. b \in log /\ b.who = who /\ t <= b.at /\ b.at \in 0..MaxTime
          BY DEF Named, InWindow, LimitInv, Tables, LimitTypeOK, Row
        <5>2. b.at >= req[r].at - Window
          BY <2>1, <4>1, <5>1, Numbers
        <5> QED BY <1>1, <4>1, <5>1, <5>2, NoneIsMissed DEF LimitInv
      <4>3. IsFiniteSet(seen)
        <5>1. seen \subseteq log
          BY DEF Recent, LimitInv, Tables, LimitTypeOK
        <5> HIDE DEF seen
        <5> QED BY <5>1, Fewer DEF LimitInv, Tables
      <4>4. ~(Cardinality(seen) >= setting.person)
        BY <1>1, <1>3 DEF Spent, PersonSpent, ByPerson
      <4> HIDE DEF seen, S, P, Q
      <4>5. Cardinality(S) <= Cardinality(seen) /\ Cardinality(seen) \in Nat
        BY <4>2, <4>3, Fewer
      <4>6. Cardinality(S) + Cardinality(Q) <= setting.person + Cardinality(Threads) - 1
        BY <3>1, <4>4, <4>5
      <4> QED BY <4>6 DEF S, Q
    <3>3. CASE r \notin Q
      <4>1. Q \subseteq P
        BY <1>1, <2>3, <3>3 DEF Loose
      <4>2. S # {} \/ P # {} =>
                Cardinality(S) + Cardinality(P) <= setting.person + Cardinality(Threads) - 1
        BY <1>1 DEF LimitInv, Guesses
      <4>3. S # {} \/ P # {}
        BY <4>1
      <4> HIDE DEF S, P, Q
      <4>4. Cardinality(Q) <= Cardinality(P)
        BY <3>1, <4>1, Fewer
      <4>5. Cardinality(S) + Cardinality(Q) <= setting.person + Cardinality(Threads) - 1
        BY <3>1, <4>2, <4>3, <4>4
      <4> QED BY <4>5 DEF S, Q
    <3> QED BY <3>2, <3>3
  <2> QED BY <2>4, <2>5, <2>6 DEF LimitInv
<1> QED BY <1>2, <1>3 DEF CheckOnly

LEMMA BindInv ==
    ASSUME LimitInv, NEW r \in Threads, Bind(r)
    PROVE  LimitInv'
<1>1. At(r, "binding") /\ req[r] # None /\ UNCHANGED <<setting, now, rows, log>>
      /\ door = "ldap"
  BY DEF Bind, At, LimitInv, Tables, OneDoor
<1>2. PICK pc \in {"served", "failed"} : GoesNow(r, pc)
  BY DEF Bind
<1> DEFINE q == [req[r] EXCEPT !.pc = pc, !.at = now]
<1>3. req[r] \in Request /\ now \in 0..MaxTime
  BY <1>1, RequestParts DEF LimitInv, Tables, LimitTypeOK
<1>4. q \in Request /\ q.at = now /\ q.pc = pc /\ q.who = req[r].who
      /\ req' = [req EXCEPT ![r] = q]
  BY <1>2, <1>3 DEF Request, GoesNow
<1>5. q.at <= now /\ now <= q.at + Patience
  BY <1>3, <1>4, Numbers
<1> HIDE DEF q
<1> QED BY <1>1, <1>2, <1>4, <1>5, RequestMoves

\* The guess that is charged was loose.
LEMMA ChargeInv ==
    ASSUME LimitInv, NEW r \in Threads, Charge(r)
    PROVE  LimitInv'
<1>1. At(r, "failed") /\ req[r] # None /\ Locking(r) /\ UNCHANGED <<setting, now>>
      /\ door = "ldap" /\ req[r].pc = "failed"
  BY DEF Charge, At, Locking, LimitInv, Tables, OneDoor
<1> DEFINE a == Attempt(req[r].who, req[r])
<1>2. Recorded(rows, a) /\ log' = log \cup {a} /\ req' = [req EXCEPT ![r] = None]
  BY DEF Charge, Recorded, Ends
<1>3. a.at = req[r].at /\ a.who = req[r].who /\ a.who \in People
  BY <1>1, RequestParts DEF Attempt, LimitInv, Tables
<1>4. Tables'
  BY <1>1, <1>2, <1>3, RecordStep DEF LimitInv
<1>5. WindowBudget'
  BY <1>1 DEF WindowBudget, door
<1>6. HostBudget'
  <2>1. \A host \in Hosts : OfHost(host)' = OfHost(host)
    BY <1>1, <1>2, <1>3, OneMoreOfHost, Numbers
  <2> QED BY <1>1, <2>1 DEF LimitInv, HostBudget, OfHost, ByHost, door
<1>7. req'[r] = None /\ \A s \in Threads : s # r => req'[s] = req[s]
  BY <1>2 DEF LimitInv, Tables, LimitTypeOK
<1>8. Guesses'
  <2> SUFFICES ASSUME NEW who \in People, NEW t \in 0..MaxTime,
                      Named(who, t)' # {} \/ Loose(who, t)' # {}
               PROVE  Cardinality(Named(who, t)') + Cardinality(Loose(who, t)')
                          <= setting.person + Cardinality(Threads) - 1
    BY <1>1 DEF Guesses
  <2> DEFINE S == Named(who, t)  Z == Named(who, t)'  P == Loose(who, t)  Q == Loose(who, t)'
  <2>1. S # {} \/ P # {} =>
            Cardinality(S) + Cardinality(P) <= setting.person + Cardinality(Threads) - 1
    BY <1>1 DEF LimitInv, Guesses
  <2>2. IsFiniteSet(S) /\ IsFiniteSet(P) /\ setting.person \in Int /\ Cardinality(Threads) \in Nat
    <3>1. P \subseteq Threads /\ S \subseteq log
      BY DEF Loose, Named, InWindow
    <3> HIDE DEF P, S
    <3> QED BY <3>1, Fewer, Numbers, SettingParts DEF LimitInv, Tables
  <2>3. CASE a.who = who /\ t <= a.at /\ a.at <= t + Window
    <3>1. Z = S \cup {a}
      BY <1>2, <2>3 DEF Named, InWindow
    <3>2. r \in P /\ Q = P \ {r}
      BY <1>1, <1>3, <1>7, <2>3 DEF Loose
    <3> HIDE DEF S, Z, P, Q, a
    <3>3. Cardinality(Z) <= Cardinality(S) + 1 /\ Cardinality(Z) \in Nat /\ Cardinality(S) \in Nat
      BY <2>2, <3>1, OneMore
    <3>4. Cardinality(Q) = Cardinality(P) - 1 /\ Cardinality(P) \in Nat
      BY <2>2, <3>2, FS_RemoveElement, FS_CardinalityType
    <3>5. Cardinality(Z) + Cardinality(Q) <= setting.person + Cardinality(Threads) - 1
      BY <2>1, <2>2, <3>2, <3>3, <3>4
    <3> QED BY <3>5 DEF Z, Q
  <2>4. CASE ~(a.who = who /\ t <= a.at /\ a.at <= t + Window)
    <3>1. Z = S
      BY <1>2, <2>4 DEF Named, InWindow
    <3>2. Q \subseteq P
      BY <1>1, <1>7 DEF Loose
    <3>3. S # {} \/ P # {}
      BY <3>1, <3>2
    <3> HIDE DEF S, Z, P, Q
    <3>4. Cardinality(Q) <= Cardinality(P) /\ Cardinality(Q) \in Nat /\ Cardinality(P) \in Nat
          /\ Cardinality(S) \in Nat
      BY <2>2, <3>2, Fewer
    <3>5. Cardinality(Z) + Cardinality(Q) <= setting.person + Cardinality(Threads) - 1
      BY <2>1, <2>2, <3>1, <3>3, <3>4
    <3> QED BY <3>5 DEF Z, Q
  <2> QED BY <2>3, <2>4
<1> QED BY <1>4, <1>5, <1>6, <1>8 DEF LimitInv

LEMMA TickInv == LimitInv /\ Tick => LimitInv'
<1> SUFFICES ASSUME LimitInv, Tick PROVE LimitInv'
  OBVIOUS
<1>1. UNCHANGED <<setting, rows, log, req>> /\ now' = now + 1 /\ now \in 0..MaxTime
      /\ now < setting.until /\ \A r \in Threads : Locking(r) => now < req[r].at + Patience
  BY DEF Tick, LimitInv, Tables, LimitTypeOK
<1>2. now' \in 0..MaxTime /\ now <= now'
  BY <1>1, SettingParts, Numbers DEF LimitInv, Tables
<1>3. req' \in [Threads -> Request \cup {None}]
  BY <1>1 DEF LimitInv, Tables, LimitTypeOK
<1>4. Clocked'
  <2> SUFFICES ASSUME NEW r \in Threads, req[r] # None
               PROVE  req[r].at <= now' /\ (Locking(r) => now' <= req[r].at + Patience)
    BY <1>1 DEF Clocked, Locking, At
  <2>1. req[r].at \in 0..MaxTime /\ req[r].at <= now
    BY RequestParts DEF LimitInv, Tables, Clocked
  <2> QED BY <1>1, <2>1, Numbers
<1>5. OneDoor'
  BY <1>1 DEF LimitInv, Tables, OneDoor, door
<1>6. \A who \in People, t \in 0..MaxTime : Loose(who, t)' \subseteq Loose(who, t)
  BY <1>1, Numbers DEF Loose
<1> QED BY <1>1, <1>2, <1>3, <1>4, <1>5, <1>6, QuietStep

\* A step of the limiter, or of one that leaves its table alone and may drop requests.
LimitMoves ==
    \/ LimitStep \/ Tick
    \/ /\ UNCHANGED <<setting, now, rows, log>>
       /\ req' \in [Threads -> Request \cup {None}]
       /\ \A r \in Threads : req'[r] \in {req[r], None}

LEMMA LimitMovesInv == LimitInv /\ LimitMoves => LimitInv'
<1> SUFFICES ASSUME LimitInv, LimitMoves PROVE LimitInv'
  OBVIOUS
<1>1. CASE LimitStep
  <2> SUFFICES ASSUME NEW r \in Threads, LockTimesOut(r) \/ Answer(r) PROVE LimitInv'
    BY <1>1, ArriveInv, EnforceInv, EnforceHostInv, CheckOnlyInv, BindInv, ChargeInv DEF LimitStep
  <2>1. UNCHANGED <<setting, now, rows, log>> /\ req' = [req EXCEPT ![r] = None]
    BY DEF LockTimesOut, Answer, Ends
  <2>2. req' \in [Threads -> Request \cup {None}] /\ \A s \in Threads : req'[s] \in {req[s], None}
    BY <2>1 DEF LimitInv, Tables, LimitTypeOK
  <2> QED BY <2>1, <2>2, RequestsGo
<1>2. CASE Tick
  BY <1>2, TickInv
<1> QED BY <1>1, <1>2, RequestsGo DEF LimitMoves

LEMMA LimitInitInv == LimitInit => LimitInv
<1> SUFFICES ASSUME LimitInit PROVE LimitInv
  OBVIOUS
<1>1. LimitTypeOK
  BY Numbers DEF LimitInit, LimitTypeOK
<1>2. IsFiniteSet(log)
  BY FS_EmptySet DEF LimitInit
<1>3. Clocked /\ Forgotten /\ OneDoor
  BY DEF LimitInit, Clocked, Forgotten, OneDoor
<1>4. WindowBudget /\ HostBudget
  BY DEF LimitInit, WindowBudget, HostBudget, InWindow
<1>5. Guesses
  BY DEF LimitInit, Guesses, Named, InWindow, Loose
<1> QED BY <1>1, <1>2, <1>3, <1>4, <1>5 DEF LimitInv, Tables

\* What is loose only makes the budget of the guesses tighter.
LEMMA BudgetsFollow == LimitInv => BudgetsHold
<1> SUFFICES ASSUME LimitInv PROVE GuessBudget
  BY DEF LimitInv, BudgetsHold
<1> SUFFICES ASSUME door = "ldap", NEW who \in People, NEW t \in 0..MaxTime, Named(who, t) # {}
             PROVE  Cardinality(Named(who, t)) <= setting.person + Cardinality(Threads) - 1
  BY DEF GuessBudget, Named
<1> DEFINE S == Named(who, t)  P == Loose(who, t)
<1>1. Cardinality(S) + Cardinality(P) <= setting.person + Cardinality(Threads) - 1
  BY DEF LimitInv, Guesses
<1>2. P \subseteq Threads /\ S \subseteq log
  BY DEF Loose, Named, InWindow
<1>3. setting.person \in Int
  BY SettingParts DEF LimitInv, Tables
<1> HIDE DEF S, P
<1>4. Cardinality(S) \in Nat /\ Cardinality(P) \in Nat /\ Cardinality(Threads) \in Nat
  BY <1>2, Fewer, Numbers DEF LimitInv, Tables
<1>5. Cardinality(S) <= setting.person + Cardinality(Threads) - 1
  BY <1>1, <1>3, <1>4
<1> QED BY <1>5 DEF S

-----------------------------------------------------------------------------
(* The inductive invariant of the logins                                     *)

OidcTypeOK ==
    /\ logins \in [States -> LoginRow]
    /\ cookie \in [People -> States \cup {None}]
    /\ call \in [Calls -> Callback \cup {None}]
    /\ signing \in Keys /\ cached \in Keys \cup {None}
    /\ {cachedAt, forcedAt, asked} \subseteq {Never} \cup 0..MaxTime
    /\ bound \in Subjects \cup {None} /\ restarts \in 0..MaxRestarts
    /\ starter \in [States -> People \cup {None}]
    /\ signedIn \subseteq [state : States, browser : People, sub : Subjects]
    /\ opened \in [States -> Nat]

\* A callback past the point where its login was burnt.
Burnt(c) == call[c] # None /\ call[c].pc # "burning"

\* The subject is known once the claims are verified.
Claimed == \A c \in Calls : call[c] # None /\ call[c].pc \in {"deciding", "writing"}
                                => call[c].sub \in Subjects

\* A cookie, a callback and a session are of the browser that started the login,
\* and nobody has started one that is free.
OfStarter ==
    /\ \A b \in People : cookie[b] # None => starter[cookie[b]] = b
    /\ \A c \in Calls : call[c] # None => starter[call[c].state] = call[c].browser
    /\ \A x \in signedIn : starter[x.state] = x.browser
    /\ \A s \in States : logins[s].is = "free" => starter[s] = None

\* A login is burnt by one callback, and then opens one session or none.
BurntOnce ==
    /\ \A c \in Calls : Burnt(c) => /\ logins[call[c].state].is \in {"used", "swept"}
                                    /\ opened[call[c].state] = 0
    /\ \A c, d \in Calls : Burnt(c) /\ Burnt(d) /\ call[c].state = call[d].state => c = d
    /\ \A s \in States : logins[s].is \in {"free", "pending"} => opened[s] = 0
    /\ \A s \in States : opened[s] <= 1

\* A document that was asked for because of a token is no older than its key, and
\* the floor is stamped no later than somebody asked.
Younger ==
    /\ forcedAt <= asked
    /\ \A c \in Calls : call[c] # None =>
          /\ call[c].key <= signing
          /\ call[c].pc = "refetched" => call[c].key <= call[c].doc /\ call[c].doc <= signing

LoginInv == OidcTypeOK /\ Claimed /\ OfStarter /\ BurntOnce /\ Younger

Inv == LimitInv /\ LoginInv

LEMMA TypeParts == TypeOK <=> LimitTypeOK /\ OidcTypeOK
BY DEF TypeOK, OidcTypeOK

USE DEF browser, keys, outcome, limitVars

LEMMA SignInNumbers ==
    /\ StateTtl \in Nat /\ JwksTtl \in Nat /\ Floor \in Nat \ {0} /\ MaxRotations \in Nat
    /\ MaxRestarts \in Nat /\ None \notin People \cup States \cup Subjects
    /\ Never \in Int
BY SignInAssumption DEF Never

LEMMA InitInv == Init => Inv
<1> SUFFICES ASSUME Init PROVE Inv
  OBVIOUS
<1>1. LimitInv
  BY LimitInitInv DEF Init
<1>2. OidcTypeOK
  <2>1. [is |-> "free", until |-> 0] \in LoginRow /\ 0 \in Keys /\ 0 \in 0..MaxRestarts
    BY SignInNumbers, Numbers DEF LoginRow, Keys
  <2> QED BY <2>1 DEF Init, NoKeys, OidcTypeOK
<1>3. Claimed /\ OfStarter /\ BurntOnce
  BY DEF Init, Claimed, OfStarter, BurntOnce, Burnt
<1>4. Younger
  BY SignInNumbers DEF Init, NoKeys, Younger
<1> QED BY <1>1, <1>2, <1>3, <1>4 DEF Inv, LoginInv

-----------------------------------------------------------------------------
(* What the limiter sees of a login                                          *)

LEMMA NextMovesLimit == LimitInv /\ [Next]_vars => LimitMoves
<1> SUFFICES ASSUME LimitInv, [Next]_vars PROVE LimitMoves
  OBVIOUS
<1>1. req \in [Threads -> Request \cup {None}]
  BY DEF LimitInv, Tables, LimitTypeOK
<1>2. CASE UNCHANGED limitVars
  BY <1>1, <1>2 DEF LimitMoves
<1>3. ASSUME NEW r \in Threads, NEW s \in States, BeginLogin(r, s) PROVE LimitMoves
  BY <1>1, <1>3 DEF BeginLogin, Ends, LimitMoves
<1>4. CASE Restart
  BY <1>1, <1>4 DEF Restart, LimitMoves
<1>5. CASE LimitStep \/ Tick
  BY <1>5 DEF LimitMoves
<1>6. ASSUME NEW c \in Calls, NEW b \in People, NEW s \in States, Return(c, b, s)
      PROVE  UNCHANGED limitVars
  BY <1>6 DEF Return
<1>8. ASSUME NEW c \in Calls, Burn(c) \/ Exchange(c) \/ Fetch(c) \/ Cache(c)
      PROVE  UNCHANGED limitVars
  <2>1. CASE Burn(c) BY <2>1 DEF Burn
  <2>2. CASE Exchange(c) BY <2>2 DEF Exchange
  <2>3. CASE Fetch(c) BY <2>3 DEF Fetch
  <2>4. CASE Cache(c) BY <2>4 DEF Cache
  <2> QED BY <1>8, <2>1, <2>2, <2>3, <2>4
<1>9. ASSUME NEW c \in Calls, ForceKeys(c) \/ Ask(c) \/ Decide(c) \/ Write(c)
      PROVE  UNCHANGED limitVars
  <2>1. CASE ForceKeys(c) BY <2>1 DEF ForceKeys
  <2>2. CASE Ask(c) BY <2>2 DEF Ask
  <2>3. CASE Decide(c) BY <2>3 DEF Decide
  <2>4. CASE Write(c) BY <2>4 DEF Write
  <2> QED BY <1>9, <2>1, <2>2, <2>3, <2>4
<1>7. CASE Rotate \/ UNCHANGED vars
  BY <1>2, <1>7 DEF Rotate, vars
<1>10. CASE \E c \in Calls :
               \/ \E b \in People, s \in States : Return(c, b, s)
               \/ Burn(c) \/ Exchange(c) \/ Fetch(c) \/ Cache(c) \/ ForceKeys(c) \/ Ask(c)
               \/ Decide(c) \/ Write(c)
  <2>1. UNCHANGED limitVars
    BY <1>10, <1>6, <1>8, <1>9
  <2> QED BY <1>2, <2>1
<1>11. CASE \E r \in Threads, s \in States : BeginLogin(r, s)
  BY <1>3, <1>11
<1> QED BY <1>4, <1>5, <1>7, <1>10, <1>11 DEF Next

-----------------------------------------------------------------------------
(* The steps of a login                                                      *)

\* A row, once it is swept.
LEMMA SweptRows ==
    ASSUME OidcTypeOK, NEW s \in States
    PROVE  /\ Swept[s] \in LoginRow
           /\ Swept[s].is = logins[s].is
              \/ (logins[s].is \in {"used", "pending"} /\ Swept[s].is = "swept")
BY DEF OidcTypeOK, Swept, LoginRow

LEMMA BeginLoginInv ==
    ASSUME Inv, NEW r \in Threads, NEW s \in States, BeginLogin(r, s)
    PROVE  LoginInv'
<1>1. UNCHANGED <<call, signing, cached, cachedAt, forcedAt, asked, bound, signedIn, opened, restarts>>
  BY DEF BeginLogin
<1>2. CASE UNCHANGED <<logins, browser>>
  BY <1>1, <1>2 DEF Inv, LoginInv, OidcTypeOK, Claimed, OfStarter, BurntOnce, Burnt, Younger
<1>3. CASE /\ logins[s].is = "free"
           /\ logins' = [logins EXCEPT ![s] = [is |-> "pending", until |-> now + StateTtl]]
           /\ cookie' = [cookie EXCEPT ![req[r].who] = s]
           /\ starter' = [starter EXCEPT ![s] = req[r].who]
  <2>1. req[r].who \in People /\ now \in 0..MaxTime
    BY RequestParts DEF BeginLogin, At, Inv, LimitInv, Tables, LimitTypeOK
  <2> DEFINE row == [is |-> "pending", until |-> now + StateTtl]
  <2>2. row \in LoginRow /\ row.is = "pending"
    BY <2>1, SignInNumbers, Numbers DEF LoginRow
  <2> HIDE DEF row
  <2>3. logins' = [logins EXCEPT ![s] = row]
    BY <1>3 DEF row
  <2>4. OidcTypeOK'
    BY <1>1, <1>3, <2>1, <2>2, <2>3 DEF Inv, LoginInv, OidcTypeOK
  <2>5. Claimed' /\ Younger'
    BY <1>1 DEF Inv, LoginInv, Claimed, Younger
  <2>6. starter[s] = None /\ None \notin People
    BY <1>3, Numbers DEF Inv, LoginInv, OfStarter
  <2>7. \A x \in States : x # s => starter'[x] = starter[x] /\ logins'[x] = logins[x]
    BY <1>3, <2>3 DEF Inv, LoginInv, OidcTypeOK
  <2>8. starter'[s] = req[r].who /\ logins'[s].is = "pending"
    BY <1>3, <2>2, <2>3 DEF Inv, LoginInv, OidcTypeOK
  <2>9. OfStarter'
    <3>1. \A b \in People : cookie'[b] # None => starter'[cookie'[b]] = b
      BY <1>3, <2>1, <2>6, <2>7, <2>8 DEF Inv, LoginInv, OidcTypeOK, OfStarter
    <3>2. \A c \in Calls : call[c] # None => starter'[call[c].state] = call[c].browser
      BY <2>6, <2>7 DEF Inv, LoginInv, OidcTypeOK, OfStarter, Callback
    <3>3. \A x \in signedIn : starter'[x.state] = x.browser
      BY <2>6, <2>7 DEF Inv, LoginInv, OidcTypeOK, OfStarter
    <3>4. \A x \in States : logins'[x].is = "free" => starter'[x] = None
      BY <2>7, <2>8 DEF Inv, LoginInv, OfStarter
    <3> QED BY <1>1, <3>1, <3>2, <3>3, <3>4 DEF OfStarter
  <2>10. BurntOnce'
    <3>1. \A c \in Calls : Burnt(c) => call[c].state # s
      BY <1>3 DEF Inv, LoginInv, BurntOnce
    <3>2. \A c \in Calls : call[c] # None => call[c].state \in States
      BY DEF Inv, LoginInv, OidcTypeOK, Callback
    <3> QED BY <1>1, <1>3, <2>7, <2>8, <3>1, <3>2 DEF Inv, LoginInv, BurntOnce, Burnt
  <2> QED BY <2>4, <2>5, <2>9, <2>10 DEF LoginInv
<1> QED BY <1>2, <1>3 DEF BeginLogin

\* A callback that has burnt its login goes on, or ends and takes the cookie.
LEMMA CallStep ==
    ASSUME LoginInv, NEW c \in Calls, Burnt(c), NEW q \in Callback \cup {None},
           call' = [call EXCEPT ![c] = q],
           UNCHANGED <<logins, starter, signing, bound, signedIn, opened, restarts>>,
           cookie' \in [People -> States \cup {None}],
           \A b \in People : cookie'[b] \in {cookie[b], None},
           cached' \in Keys \cup {None},
           {cachedAt', forcedAt', asked'} \subseteq {Never} \cup 0..MaxTime, forcedAt' <= asked',
           q # None => /\ q.state = call[c].state /\ q.browser = call[c].browser
                       /\ q.pc # "burning" /\ q.key <= signing
                       /\ q.pc = "refetched" => q.key <= q.doc /\ q.doc <= signing
                       /\ q.pc \in {"deciding", "writing"} => q.sub \in Subjects
    PROVE  LoginInv'
<1>1. call'[c] = q /\ \A d \in Calls : d # c => call'[d] = call[d]
  BY DEF LoginInv, OidcTypeOK
<1>2. OidcTypeOK'
  BY DEF LoginInv, OidcTypeOK
<1>3. Claimed'
  BY <1>1 DEF LoginInv, Claimed
<1>4. OfStarter'
  BY <1>1 DEF LoginInv, OfStarter, Burnt
<1>5. \A d \in Calls : Burnt(d)' => Burnt(d) /\ call'[d].state = call[d].state
  BY <1>1 DEF Burnt
<1>6. BurntOnce'
  BY <1>5 DEF LoginInv, BurntOnce
<1>7. Younger'
  BY <1>1 DEF LoginInv, Younger
<1> QED BY <1>2, <1>3, <1>4, <1>6, <1>7 DEF LoginInv

LEMMA RefusedCall ==
    ASSUME LoginInv, NEW c \in Calls, call[c] # None, Refused(c)
    PROVE  /\ call' = [call EXCEPT ![c] = None]
           /\ cookie' \in [People -> States \cup {None}]
           /\ \A b \in People : cookie'[b] \in {cookie[b], None}
BY DEF LoginInv, OidcTypeOK, Refused, CallEnds

\* A callback in a stage has its parts.
LEMMA CallParts ==
    ASSUME LoginInv, NEW c \in Calls, NEW pc, In(c, pc)
    PROVE  /\ call[c] # None /\ call[c].pc = pc /\ call[c] \in Callback
           /\ call[c].browser \in People /\ call[c].state \in States /\ call[c].at \in 0..MaxTime
           /\ call[c].key \in Keys /\ call[c].doc \in Keys /\ call[c].key <= signing
           /\ signing \in Keys /\ Keys = 0..MaxRotations /\ MaxRotations \in Nat
           /\ cookie \in [People -> States \cup {None}]
           /\ \A b \in People : cookie[b] \in {cookie[b], None}
           /\ cached \in Keys \cup {None}
           /\ {cachedAt, forcedAt, asked} \subseteq {Never} \cup 0..MaxTime /\ forcedAt <= asked
BY SignInNumbers DEF LoginInv, OidcTypeOK, Younger, In, Callback, Keys

\* The claims of a token that held name a subject.
LEMMA VerifiedCall ==
    ASSUME LoginInv, NEW c \in Calls, NEW pc, In(c, pc), Verified(c)
    PROVE  \E q \in Callback :
               /\ call' = [call EXCEPT ![c] = q] /\ q.pc = "deciding" /\ q.sub \in Subjects
               /\ q.state = call[c].state /\ q.browser = call[c].browser
               /\ q.key <= signing
<1>1. PICK sub \in Subjects :
        call' = [call EXCEPT ![c] = [@ EXCEPT !.pc = "deciding", !.sub = sub,
                                              !.at = 0, !.key = 0, !.doc = 0]]
  BY DEF Verified
<1> DEFINE q == [call[c] EXCEPT !.pc = "deciding", !.sub = sub, !.at = 0, !.key = 0, !.doc = 0]
<1>2. call' = [call EXCEPT ![c] = q]
  BY <1>1
<1>3. q \in Callback /\ q.pc = "deciding" /\ q.sub = sub /\ q.state = call[c].state
      /\ q.browser = call[c].browser /\ q.key = 0
  <2>1. call[c] \in Callback /\ 0 \in Keys /\ 0 \in 0..MaxTime
    BY CallParts, Numbers
  <2> QED BY <2>1 DEF Callback
<1>4. q.key <= signing
  BY <1>3, CallParts
<1> HIDE DEF q
<1> QED BY <1>2, <1>3, <1>4

LEMMA ReturnInv ==
    ASSUME LoginInv, NEW c \in Calls, NEW b \in People, NEW s \in States, Return(c, b, s)
    PROVE  LoginInv'
<1>1. UNCHANGED <<logins, starter, signing, cached, cachedAt, forcedAt, asked, bound, signedIn,
                  opened, restarts>>
      /\ call[c] = None
  BY DEF Return
<1>2. CASE cookie' = [cookie EXCEPT ![b] = None] /\ UNCHANGED call
  BY <1>1, <1>2 DEF LoginInv, OidcTypeOK, Claimed, OfStarter, BurntOnce, Burnt, Younger
<1>3. CASE /\ cookie[b] = s /\ UNCHANGED cookie
           /\ call' = [call EXCEPT ![c] = [pc |-> "burning", browser |-> b, state |-> s, at |-> 0,
                                           key |-> 0, doc |-> 0, sub |-> None]]
  <2> DEFINE q == [pc |-> "burning", browser |-> b, state |-> s, at |-> 0, key |-> 0, doc |-> 0,
                   sub |-> None]
  <2>1. q \in Callback /\ q.pc = "burning" /\ q.browser = b /\ q.state = s /\ q.key = 0
    BY Numbers, SignInNumbers DEF Callback, Keys
  <2>2. call'[c] = q /\ call' \in [Calls -> Callback \cup {None}]
        /\ \A d \in Calls : d # c => call'[d] = call[d]
    BY <1>3, <2>1 DEF LoginInv, OidcTypeOK
  <2> HIDE DEF q
  <2>3. OidcTypeOK' /\ Claimed'
    BY <1>1, <1>3, <2>1, <2>2 DEF LoginInv, OidcTypeOK, Claimed
  <2>4. OfStarter'
    BY <1>1, <1>3, <2>1, <2>2, SignInNumbers DEF LoginInv, OfStarter
  <2>5. \A d \in Calls : Burnt(d)' => Burnt(d) /\ call'[d] = call[d]
    BY <2>1, <2>2 DEF Burnt
  <2>6. BurntOnce'
    BY <1>1, <2>5 DEF LoginInv, BurntOnce
  <2>7. Younger'
    BY <1>1, <2>1, <2>2, SignInNumbers DEF LoginInv, OidcTypeOK, Younger, Keys
  <2> QED BY <2>3, <2>4, <2>6, <2>7 DEF LoginInv
<1> QED BY <1>2, <1>3 DEF Return

\* The conditional update makes one callback the owner of the login.
LEMMA BurnInv ==
    ASSUME LoginInv, NEW c \in Calls, Burn(c)
    PROVE  LoginInv'
<1> DEFINE s == call[c].state
<1>1. UNCHANGED <<starter, signing, cached, cachedAt, forcedAt, asked, bound, signedIn, opened,
                  restarts>> /\ In(c, "burning")
  BY DEF Burn
<1>2. call[c] # None /\ call[c] \in Callback /\ s \in States /\ call[c].pc = "burning"
      /\ call[c].key <= signing
  BY <1>1, CallParts
<1>3. CASE logins[s].is = "pending" /\ CallGoes(c, "exchange") /\ UNCHANGED cookie
           /\ logins' = [logins EXCEPT ![s].is = "used"]
  <2> DEFINE q == [call[c] EXCEPT !.pc = "exchange"]
  <2>1. q \in Callback /\ q.pc = "exchange" /\ q.browser = call[c].browser /\ q.state = s
        /\ q.key = call[c].key
    BY <1>2 DEF Callback
  <2>2. call'[c] = q /\ call' \in [Calls -> Callback \cup {None}]
        /\ \A d \in Calls : d # c => call'[d] = call[d]
    BY <1>3, <2>1 DEF LoginInv, OidcTypeOK, CallGoes
  <2> HIDE DEF q
  <2>3. logins' \in [States -> LoginRow] /\ logins'[s].is = "used"
        /\ \A x \in States : x # s => logins'[x] = logins[x]
    BY <1>2, <1>3 DEF LoginInv, OidcTypeOK, LoginRow
  <2>4. OidcTypeOK' /\ Claimed'
    BY <1>1, <1>3, <2>1, <2>2, <2>3 DEF LoginInv, OidcTypeOK, Claimed
  <2>5. OfStarter'
    BY <1>1, <1>2, <1>3, <2>1, <2>2, <2>3 DEF LoginInv, OfStarter
  <2>6. \A d \in Calls : d # c /\ Burnt(d) => call[d].state # s
    BY <1>3 DEF LoginInv, BurntOnce
  <2>7. \A d \in Calls : call[d] # None => call[d].state \in States
    BY DEF LoginInv, OidcTypeOK, Callback
  <2>8. opened[s] = 0
    BY <1>2, <1>3 DEF LoginInv, BurntOnce
  <2>9. \A d \in Calls : Burnt(d)' => \/ d = c /\ call'[d].state = s
                                      \/ d # c /\ Burnt(d) /\ call'[d].state = call[d].state
    BY <2>1, <2>2 DEF Burnt
  <2>10. BurntOnce'
    <3>1. \A d \in Calls : Burnt(d)' => /\ logins'[call'[d].state].is \in {"used", "swept"}
                                        /\ opened[call'[d].state] = 0
      BY <2>3, <2>6, <2>7, <2>8, <2>9 DEF LoginInv, BurntOnce, Burnt
    <3>2. \A d, e \in Calls : Burnt(d)' /\ Burnt(e)' /\ call'[d].state = call'[e].state => d = e
      BY <2>6, <2>9 DEF LoginInv, BurntOnce
    <3>3. \A x \in States : logins'[x].is \in {"free", "pending"} => opened[x] = 0
      BY <2>3 DEF LoginInv, BurntOnce
    <3> QED BY <1>1, <3>1, <3>2, <3>3 DEF LoginInv, BurntOnce
  <2>11. Younger'
    BY <1>1, <1>2, <2>1, <2>2 DEF LoginInv, Younger
  <2> QED BY <2>4, <2>5, <2>10, <2>11 DEF LoginInv
<1>4. CASE Refused(c) /\ UNCHANGED logins
  <2>1. call'[c] = None /\ \A d \in Calls : d # c => call'[d] = call[d]
    BY <1>2, <1>4, RefusedCall DEF LoginInv, OidcTypeOK
  <2>2. cookie' \in [People -> States \cup {None}]
        /\ (\A b \in People : cookie'[b] \in {cookie[b], None})
        /\ call' \in [Calls -> Callback \cup {None}]
    BY <1>2, <1>4, RefusedCall DEF LoginInv, OidcTypeOK
  <2>3. OidcTypeOK' /\ Claimed' /\ Younger'
    BY <1>1, <1>4, <2>1, <2>2 DEF LoginInv, OidcTypeOK, Claimed, Younger
  <2>4. OfStarter'
    BY <1>1, <1>4, <2>1, <2>2 DEF LoginInv, OfStarter
  <2>5. \A d \in Calls : Burnt(d)' => Burnt(d) /\ call'[d] = call[d]
    BY <2>1 DEF Burnt
  <2>6. BurntOnce'
    BY <1>1, <1>4, <2>5 DEF LoginInv, BurntOnce
  <2> QED BY <2>3, <2>4, <2>6 DEF LoginInv
<1> QED BY <1>3, <1>4 DEF Burn

LEMMA ExchangeInv ==
    ASSUME LoginInv, now \in 0..MaxTime, NEW c \in Calls, Exchange(c)
    PROVE  LoginInv'
<1>1. In(c, "exchange") /\ UNCHANGED <<logins, starter, signing, cached, cachedAt, forcedAt, asked,
                                       bound, signedIn, opened, restarts>>
  BY DEF Exchange
<1>2. Burnt(c)
  BY <1>1 DEF Burnt, In
<1>3. CASE Refused(c)
  BY <1>1, <1>2, <1>3, RefusedCall, CallParts, CallStep DEF Burnt
<1>4. CASE Verified(c) /\ UNCHANGED cookie
  BY <1>1, <1>2, <1>4, VerifiedCall, CallParts, CallStep
<1>5. ASSUME NEW pc \in {"forcing", "fetching"}, UNCHANGED cookie,
             call' = [call EXCEPT ![c] = [@ EXCEPT !.pc = pc, !.at = now, !.key = signing]]
      PROVE  LoginInv'
  <2> DEFINE q == [call[c] EXCEPT !.pc = pc, !.at = now, !.key = signing]
  <2>1. call' = [call EXCEPT ![c] = q]
    BY <1>5
  <2>2. q \in Callback /\ q.pc = pc /\ q.key = signing /\ q.state = call[c].state
        /\ q.browser = call[c].browser
    BY <1>1, CallParts DEF Callback
  <2>3. q.key <= signing
    BY <1>1, <2>2, CallParts
  <2> HIDE DEF q
  <2> QED BY <1>1, <1>2, <1>5, <2>1, <2>2, <2>3, CallParts, CallStep
<1> QED BY <1>3, <1>4, <1>5 DEF Exchange

LEMMA FetchInv ==
    ASSUME LoginInv, NEW c \in Calls, Fetch(c)
    PROVE  LoginInv'
<1>1. /\ UNCHANGED <<logins, starter, signing, cached, cachedAt, forcedAt, asked, bound, signedIn,
                     opened, restarts>>
      /\ \E pc \in {"fetching", "refetching"} : In(c, pc)
  BY DEF Fetch
<1>2. PICK pc \in {"fetching", "refetching"} : In(c, pc)
  BY <1>1
<1>3. Burnt(c)
  BY <1>2 DEF Burnt, In
<1>4. CASE Refused(c)
  BY <1>1, <1>2, <1>3, <1>4, RefusedCall, CallParts, CallStep DEF Burnt
<1>5. ASSUME NEW to \in {"fetched", "refetched"}, UNCHANGED cookie,
             call' = [call EXCEPT ![c] = [@ EXCEPT !.doc = signing, !.pc = to]]
      PROVE  LoginInv'
  <2> DEFINE q == [call[c] EXCEPT !.doc = signing, !.pc = to]
  <2>1. call' = [call EXCEPT ![c] = q]
    BY <1>5
  <2>2. q \in Callback /\ q.pc = to /\ q.key = call[c].key /\ q.doc = signing
        /\ q.state = call[c].state /\ q.browser = call[c].browser
    BY <1>2, CallParts DEF Callback
  <2>3. q.key <= signing /\ q.key <= q.doc /\ q.doc <= signing
    BY <1>2, <2>2, CallParts
  <2> HIDE DEF q
  <2>4. q.pc \notin {"burning", "deciding", "writing"}
    BY <2>2
  <2>5. cookie' \in [People -> States \cup {None}]
        /\ \A b \in People : cookie'[b] \in {cookie[b], None}
    BY <1>2, <1>5, CallParts
  <2>6. /\ cached' \in Keys \cup {None}
        /\ {cachedAt', forcedAt', asked'} \subseteq {Never} \cup 0..MaxTime
        /\ forcedAt' <= asked'
    BY <1>1, <1>2, CallParts
  <2> QED BY <1>1, <1>3, <2>1, <2>2, <2>3, <2>4, <2>5, <2>6, CallStep
<1> QED BY <1>4, <1>5 DEF Fetch

LEMMA CacheInv ==
    ASSUME LoginInv, NEW c \in Calls, Cache(c)
    PROVE  LoginInv'
<1>1. /\ UNCHANGED <<logins, starter, signing, forcedAt, asked, bound, signedIn, opened, restarts>>
      /\ cached' = call[c].doc /\ cachedAt' = call[c].at
      /\ \E pc \in {"fetched", "refetched"} : In(c, pc)
  BY DEF Cache
<1>2. PICK pc \in {"fetched", "refetched"} : In(c, pc)
  BY <1>1
<1>3. Burnt(c)
  BY <1>2 DEF Burnt, In
<1>4. /\ cached' \in Keys \cup {None}
      /\ {cachedAt', forcedAt', asked'} \subseteq {Never} \cup 0..MaxTime /\ forcedAt' <= asked'
  BY <1>1, <1>2, CallParts
<1>5. CASE Refused(c)
  BY <1>1, <1>2, <1>3, <1>4, <1>5, RefusedCall, CallStep DEF Burnt
<1>6. CASE Verified(c) /\ UNCHANGED cookie
  BY <1>1, <1>2, <1>3, <1>4, <1>6, VerifiedCall, CallParts, CallStep
<1>7. CASE CallGoes(c, "forcing") /\ UNCHANGED cookie
  <2> DEFINE q == [call[c] EXCEPT !.pc = "forcing"]
  <2>1. call' = [call EXCEPT ![c] = q]
    BY <1>7 DEF CallGoes
  <2>2. q \in Callback /\ q.pc = "forcing" /\ q.key = call[c].key /\ q.state = call[c].state
        /\ q.browser = call[c].browser
    BY <1>2, CallParts DEF Callback
  <2>3. q.key <= signing
    BY <1>2, <2>2, CallParts
  <2> HIDE DEF q
  <2> QED BY <1>1, <1>2, <1>3, <1>4, <1>7, <2>1, <2>2, <2>3, CallParts, CallStep
<1> QED BY <1>5, <1>6, <1>7 DEF Cache

LEMMA ForceKeysInv ==
    ASSUME LoginInv, now \in 0..MaxTime, NEW c \in Calls, ForceKeys(c)
    PROVE  LoginInv'
<1>1. In(c, "forcing") /\ UNCHANGED <<logins, starter, signing, cached, cachedAt, forcedAt, asked,
                                      bound, signedIn, opened, restarts>>
  BY DEF ForceKeys
<1>2. Burnt(c)
  BY <1>1 DEF Burnt, In
<1>3. CASE Refused(c)
  BY <1>1, <1>2, <1>3, RefusedCall, CallParts, CallStep DEF Burnt
<1>4. CASE Verified(c) /\ UNCHANGED cookie
  BY <1>1, <1>2, <1>4, VerifiedCall, CallParts, CallStep
<1>5. CASE call' = [call EXCEPT ![c] = [@ EXCEPT !.pc = "asking", !.at = now]] /\ UNCHANGED cookie
  <2> DEFINE q == [call[c] EXCEPT !.pc = "asking", !.at = now]
  <2>1. call' = [call EXCEPT ![c] = q]
    BY <1>5
  <2>2. q \in Callback /\ q.pc = "asking" /\ q.key = call[c].key /\ q.state = call[c].state
        /\ q.browser = call[c].browser
    BY <1>1, CallParts DEF Callback
  <2>3. q.key <= signing
    BY <1>1, <2>2, CallParts
  <2> HIDE DEF q
  <2> QED BY <1>1, <1>2, <1>5, <2>1, <2>2, <2>3, CallParts, CallStep
<1> QED BY <1>3, <1>4, <1>5 DEF ForceKeys

LEMMA AskInv ==
    ASSUME LoginInv, NEW c \in Calls, Ask(c)
    PROVE  LoginInv'
<1>1. /\ In(c, "asking") /\ CallGoes(c, "refetching")
      /\ forcedAt' = call[c].at /\ asked' = call[c].at
      /\ UNCHANGED <<logins, cookie, starter, signing, cached, cachedAt, bound, signedIn, opened,
                     restarts>>
  BY DEF Ask
<1>2. Burnt(c)
  BY <1>1 DEF Burnt, In
<1> DEFINE q == [call[c] EXCEPT !.pc = "refetching"]
<1>3. call' = [call EXCEPT ![c] = q]
  BY <1>1 DEF CallGoes
<1>4. q \in Callback /\ q.pc = "refetching" /\ q.key = call[c].key /\ q.state = call[c].state
      /\ q.browser = call[c].browser
  BY <1>1, CallParts DEF Callback
<1>5. q.key <= signing /\ forcedAt' <= asked'
      /\ {cachedAt', forcedAt', asked'} \subseteq {Never} \cup 0..MaxTime
  BY <1>1, <1>4, CallParts
<1> HIDE DEF q
<1> QED BY <1>1, <1>2, <1>3, <1>4, <1>5, CallParts, CallStep

LEMMA DecideInv ==
    ASSUME LoginInv, NEW c \in Calls, Decide(c)
    PROVE  LoginInv'
<1>1. In(c, "deciding") /\ UNCHANGED <<logins, starter, signing, cached, cachedAt, forcedAt, asked,
                                       bound, signedIn, opened, restarts>>
  BY DEF Decide
<1>2. Burnt(c)
  BY <1>1 DEF Burnt, In
<1>3. CASE Refused(c)
  BY <1>1, <1>2, <1>3, RefusedCall, CallParts, CallStep DEF Burnt
<1>4. CASE CallGoes(c, "writing") /\ UNCHANGED cookie
  <2> DEFINE q == [call[c] EXCEPT !.pc = "writing"]
  <2>1. call' = [call EXCEPT ![c] = q]
    BY <1>4 DEF CallGoes
  <2>2. q \in Callback /\ q.pc = "writing" /\ q.key = call[c].key /\ q.state = call[c].state
        /\ q.browser = call[c].browser /\ q.sub = call[c].sub
    BY <1>1, CallParts DEF Callback
  <2>3. q.key <= signing /\ q.sub \in Subjects
    BY <1>1, <2>2, CallParts DEF LoginInv, Claimed, In
  <2> HIDE DEF q
  <2> QED BY <1>1, <1>2, <1>4, <2>1, <2>2, <2>3, CallParts, CallStep
<1> QED BY <1>3, <1>4 DEF Decide

\* The callback that owns the login opens the one session it is for.
LEMMA WriteInv ==
    ASSUME LoginInv, NEW c \in Calls, Write(c)
    PROVE  LoginInv'
<1> DEFINE b == call[c].browser
           s == call[c].state
           x == [state |-> s, browser |-> b, sub |-> call[c].sub]
<1>1. /\ In(c, "writing") /\ UNCHANGED <<starter, signing, cached, cachedAt, forcedAt, asked, restarts>>
      /\ logins' = Swept /\ cookie' = [cookie EXCEPT ![b] = None]
      /\ signedIn' = signedIn \cup {x} /\ opened' = [opened EXCEPT ![s] = @ + 1]
      /\ bound' = IF bound = None THEN call[c].sub ELSE bound
      /\ call' = [call EXCEPT ![c] = None]
  BY DEF Write, BindSubject, CallEnds
<1>2. call[c] # None /\ b \in People /\ s \in States /\ call[c].sub \in Subjects /\ Burnt(c)
      /\ call[c].pc = "writing"
  BY <1>1, CallParts DEF LoginInv, Claimed, In, Burnt
<1>3. call'[c] = None /\ call' \in [Calls -> Callback \cup {None}]
      /\ \A d \in Calls : d # c => call'[d] = call[d]
  BY <1>1 DEF LoginInv, OidcTypeOK
<1>4. opened[s] = 0 /\ opened' \in [States -> Nat] /\ opened'[s] = 1
      /\ \A y \in States : y # s => opened'[y] = opened[y]
  BY <1>1, <1>2 DEF LoginInv, OidcTypeOK, BurntOnce
<1>5. logins' \in [States -> LoginRow]
      /\ \A y \in States : logins'[y].is = logins[y].is
                           \/ (logins[y].is \in {"used", "pending"} /\ logins'[y].is = "swept")
  <2>1. Swept = [y \in States |-> Swept[y]]
    BY DEF Swept
  <2> QED BY <1>1, <2>1, SweptRows DEF LoginInv
<1>6. x \in [state : States, browser : People, sub : Subjects] /\ x.state = s /\ x.browser = b
  BY <1>2
<1> HIDE DEF x
<1>7. OidcTypeOK' /\ Claimed'
  BY <1>1, <1>2, <1>3, <1>4, <1>5, <1>6 DEF LoginInv, OidcTypeOK, Claimed
<1>8. OfStarter'
  <2>1. starter[s] = b
    BY <1>2 DEF LoginInv, OfStarter
  <2>2. \A y \in People : cookie'[y] # None => starter[cookie'[y]] = y
    BY <1>1 DEF LoginInv, OidcTypeOK, OfStarter
  <2>3. \A d \in Calls : call'[d] # None => starter[call'[d].state] = call'[d].browser
    BY <1>3 DEF LoginInv, OfStarter
  <2>4. \A y \in signedIn' : starter[y.state] = y.browser
    BY <1>1, <1>6, <2>1 DEF LoginInv, OfStarter
  <2>5. \A y \in States : logins'[y].is = "free" => starter[y] = None
    BY <1>5 DEF LoginInv, OfStarter
  <2> QED BY <1>1, <2>2, <2>3, <2>4, <2>5 DEF OfStarter
<1>9. BurntOnce'
  <2>1. \A d \in Calls : Burnt(d)' => d # c /\ Burnt(d) /\ call'[d] = call[d]
    BY <1>3 DEF Burnt
  <2>2. \A d \in Calls : Burnt(d)' => call[d].state \in States /\ call[d].state # s
    BY <1>2, <2>1 DEF LoginInv, OidcTypeOK, Callback, BurntOnce, Burnt
  <2>3. \A d \in Calls : Burnt(d)' => /\ logins'[call'[d].state].is \in {"used", "swept"}
                                      /\ opened'[call'[d].state] = 0
    BY <1>4, <1>5, <2>1, <2>2 DEF LoginInv, BurntOnce
  <2>4. \A d, e \in Calls : Burnt(d)' /\ Burnt(e)' /\ call'[d].state = call'[e].state => d = e
    BY <2>1 DEF LoginInv, BurntOnce
  <2>5. \A y \in States : logins'[y].is \in {"free", "pending"} => opened'[y] = 0
    <3>1. logins[s].is \notin {"free", "pending"}
      BY <1>2 DEF LoginInv, BurntOnce
    <3> QED BY <1>4, <1>5, <3>1 DEF LoginInv, BurntOnce
  <2>6. \A y \in States : opened'[y] <= 1
    BY <1>4 DEF LoginInv, BurntOnce
  <2> QED BY <2>3, <2>4, <2>5, <2>6 DEF BurntOnce
<1>10. Younger'
  BY <1>1, <1>3 DEF LoginInv, Younger
<1> QED BY <1>7, <1>8, <1>9, <1>10 DEF LoginInv

LEMMA RotateInv == LoginInv /\ Rotate => LoginInv'
<1> SUFFICES ASSUME LoginInv, Rotate PROVE LoginInv'
  OBVIOUS
<1>1. UNCHANGED <<logins, cookie, starter, call, cached, cachedAt, forcedAt, asked, bound, signedIn,
                  opened, restarts>>
      /\ signing' = signing + 1 /\ signing < MaxRotations /\ signing \in Keys
  BY DEF Rotate, LoginInv, OidcTypeOK
<1>2. OidcTypeOK' /\ Claimed' /\ OfStarter' /\ BurntOnce'
  BY <1>1, SignInNumbers DEF LoginInv, OidcTypeOK, Claimed, OfStarter, BurntOnce, Burnt, Keys
<1>3. Younger'
  <2>1. \A c \in Calls : call[c] # None => call[c].key \in Nat /\ call[c].doc \in Nat
    BY SignInNumbers DEF LoginInv, OidcTypeOK, Callback, Keys
  <2>2. signing \in Nat
    BY <1>1, SignInNumbers DEF Keys
  <2> QED BY <1>1, <2>1, <2>2 DEF LoginInv, Younger
<1> QED BY <1>2, <1>3 DEF LoginInv

LEMMA RestartInv == LoginInv /\ Restart => LoginInv'
<1> SUFFICES ASSUME LoginInv, Restart PROVE LoginInv'
  OBVIOUS
<1>1. UNCHANGED <<cookie, starter, signing, asked, bound, signedIn, opened>>
      /\ call' = [c \in Calls |-> None] /\ logins' = Swept
      /\ cached' = None /\ cachedAt' = Never /\ forcedAt' = Never
      /\ restarts' \in 0..MaxRestarts
  BY SignInNumbers DEF Restart, LoginInv, OidcTypeOK
<1>2. logins' \in [States -> LoginRow]
      /\ \A y \in States : logins'[y].is = logins[y].is
                           \/ (logins[y].is \in {"used", "pending"} /\ logins'[y].is = "swept")
  <2>1. Swept = [y \in States |-> Swept[y]]
    BY DEF Swept
  <2> QED BY <1>1, <2>1, SweptRows DEF LoginInv
<1>3. OidcTypeOK'
  BY <1>1, <1>2 DEF LoginInv, OidcTypeOK
<1>4. Claimed' /\ OfStarter' /\ BurntOnce'
  BY <1>1, <1>2 DEF LoginInv, Claimed, OfStarter, BurntOnce, Burnt
<1>5. Never <= asked
  <2>1. asked \in {Never} \cup 0..MaxTime
    BY DEF LoginInv, OidcTypeOK
  <2>2. Never \in Int /\ Never <= 0
    BY SignInNumbers DEF Never
  <2> QED BY <2>1, <2>2, Numbers
<1>6. Younger'
  BY <1>1, <1>5 DEF Younger
<1> QED BY <1>3, <1>4, <1>6 DEF LoginInv

-----------------------------------------------------------------------------
(* The theorems                                                              *)

\* The invariant holds in every reachable state: the argument every theorem
\* below rests on.
THEOREM Invariance == Spec => []Inv
<1>1. Inv /\ [Next]_vars => Inv'
  <2> SUFFICES ASSUME Inv, [Next]_vars PROVE Inv'
    OBVIOUS
  <2>1. LimitInv'
    BY NextMovesLimit, LimitMovesInv DEF Inv
  <2>2. now \in 0..MaxTime
    BY DEF Inv, LimitInv, Tables, LimitTypeOK
  <2>3. CASE UNCHANGED oidcVars
    <3>1. UNCHANGED <<logins, cookie, starter, call, signing, cached, cachedAt, forcedAt, asked,
                      bound, signedIn, opened, restarts>>
      BY <2>3 DEF oidcVars
    <3>2. OidcTypeOK' /\ Claimed' /\ OfStarter' /\ Younger'
      BY <3>1 DEF Inv, LoginInv, OidcTypeOK, Claimed, OfStarter, Younger
    <3>3. BurntOnce'
      BY <3>1 DEF Inv, LoginInv, BurntOnce, Burnt
    <3> QED BY <2>1, <3>2, <3>3 DEF LoginInv, Inv
  <2>4. ASSUME NEW r \in Threads, NEW s \in States, BeginLogin(r, s) PROVE LoginInv'
    BY <2>4, BeginLoginInv
  <2>5. ASSUME NEW c \in Calls, NEW b \in People, NEW s \in States, Return(c, b, s) PROVE LoginInv'
    BY <2>5, ReturnInv DEF Inv
  <2>6. ASSUME NEW c \in Calls, Burn(c) \/ Exchange(c) \/ Fetch(c) \/ Cache(c) PROVE LoginInv'
    BY <2>2, <2>6, BurnInv, ExchangeInv, FetchInv, CacheInv DEF Inv
  <2>7. ASSUME NEW c \in Calls, ForceKeys(c) \/ Ask(c) \/ Decide(c) \/ Write(c) PROVE LoginInv'
    BY <2>2, <2>7, ForceKeysInv, AskInv, DecideInv, WriteInv DEF Inv
  <2>a. LoginInv
    BY DEF Inv
  <2>8. CASE Rotate \/ Restart
    BY <2>1, <2>8, <2>a, RotateInv, RestartInv DEF Inv
  <2>9. CASE UNCHANGED vars
    BY <2>3, <2>9 DEF vars
  <2> QED BY <2>1, <2>3, <2>4, <2>5, <2>6, <2>7, <2>8, <2>9 DEF Next, Inv
<1> QED BY InitInv, <1>1, PTL DEF Spec

\* The tables of the limiter and of the logins keep their types.
THEOREM TypeCorrect == Spec => []TypeOK
<1>1. Inv => TypeOK
  BY TypeParts DEF Inv, LimitInv, Tables, LoginInv
<1> QED BY Invariance, <1>1, PTL

\* For any caps, window and patience of the lock, any number of threads, people
\* and addresses: no window has more of one person or one address than its cap
\* allows, and no more wrong guesses than the cap and the threads.
THEOREM BudgetsAreKept == Spec => []BudgetsHold
<1>1. Inv => BudgetsHold
  BY BudgetsFollow DEF Inv
<1> QED BY Invariance, <1>1, PTL

\* However many callbacks come back with a login, at once or again, it opens one
\* session and for the browser that started it.
THEOREM LoginsAreSpentOnce == Spec => []OneSessionPerLogin
<1>1. Inv => OneSessionPerLogin
  BY DEF Inv, LoginInv, BurntOnce, OfStarter, OneSessionPerLogin
<1> QED BY Invariance, <1>1, PTL

\* A rotation is picked up by whoever comes next, unless somebody asked for newer
\* keys less than Floor ago.
THEOREM RotationsArePickedUp == Spec => RotationIsPickedUp
<1>1. Inv /\ [Next]_vars =>
        \A c \in Calls :
          /\ (In(c, "forcing") \/ In(c, "refetched")) /\ call'[c] = None
          /\ Published(call[c].key) /\ restarts' = restarts
          => now - asked < Floor
  <2> SUFFICES ASSUME Inv, [Next]_vars, NEW c \in Calls,
                      In(c, "forcing") \/ In(c, "refetched"), call'[c] = None,
                      Published(call[c].key), restarts' = restarts
               PROVE  now - asked < Floor
    OBVIOUS
  <2>1. PICK pc \in {"forcing", "refetched"} : In(c, pc)
    OBVIOUS
  <2>2. call[c] # None /\ call[c].pc \in {"forcing", "refetched"} /\ call[c] \in Callback
    BY <2>1, CallParts DEF Inv
  <2>3. restarts \in Nat
    BY SignInNumbers DEF Inv, LoginInv, OidcTypeOK
  <2>4. ForceKeys(c) \/ Cache(c)
    <3>1. call \in [Calls -> Callback \cup {None}]
      BY DEF Inv, LoginInv, OidcTypeOK
    <3>2. call' # call
      BY <2>2
    <3>3. ~Restart
      BY <2>3 DEF Restart
    <3>4. PICK d \in Calls :
             \/ \E b \in People, s \in States : Return(d, b, s)
             \/ Burn(d) \/ Exchange(d) \/ Fetch(d) \/ Cache(d) \/ ForceKeys(d) \/ Ask(d)
             \/ Decide(d) \/ Write(d)
      BY <3>2, <3>3 DEF Next, vars, oidcVars, BeginLogin, Rotate
    <3>5. \E e : call' = [call EXCEPT ![d] = e]
      <4>1. CASE \E b \in People, s \in States : Return(d, b, s)
        BY <3>2, <4>1 DEF Return
      <4>2. CASE Burn(d) BY <4>2 DEF Burn, CallGoes, Refused, CallEnds
      <4>3. CASE Exchange(d) BY <4>3 DEF Exchange, Refused, CallEnds, Verified
      <4>4. CASE Fetch(d) BY <4>4 DEF Fetch, Refused, CallEnds
      <4>5. CASE Cache(d) BY <4>5 DEF Cache, CallGoes, Refused, CallEnds, Verified
      <4>6. CASE ForceKeys(d) BY <4>6 DEF ForceKeys, Refused, CallEnds, Verified
      <4>7. CASE Ask(d) BY <4>7 DEF Ask, CallGoes
      <4>8. CASE Decide(d) BY <4>8 DEF Decide, CallGoes, Refused, CallEnds
      <4>9. CASE Write(d) BY <4>9 DEF Write, CallEnds
      <4> QED BY <3>4, <4>1, <4>2, <4>3, <4>4, <4>5, <4>6, <4>7, <4>8, <4>9
    <3>6. d = c
      BY <2>2, <3>1, <3>5
    <3> QED BY <2>2, <3>4, <3>6 DEF Return, Burn, Exchange, Fetch, Ask, Decide, Write, In
  <2>5. CASE ForceKeys(c)
    <3>1. ASSUME Verified(c) PROVE FALSE
      BY <2>1, <3>1, VerifiedCall, CallAssumption DEF Inv, LoginInv, OidcTypeOK
    <3>2. ASSUME call' = [call EXCEPT ![c] = [@ EXCEPT !.pc = "asking", !.at = now]] PROVE FALSE
      <4>1. call'[c] = [call[c] EXCEPT !.pc = "asking", !.at = now] /\ now \in 0..MaxTime
        BY <3>2 DEF Inv, LoginInv, OidcTypeOK, LimitInv, Tables, LimitTypeOK
      <4>2. [call[c] EXCEPT !.pc = "asking", !.at = now] \in Callback
        BY <2>2, <4>1 DEF Callback
      <4> QED BY <4>1, <4>2, CallAssumption
    <3>3. WithinFloor
      BY <2>5, <3>1, <3>2 DEF ForceKeys
    <3>4. now \in 0..MaxTime /\ forcedAt \in {Never} \cup 0..MaxTime
          /\ asked \in {Never} \cup 0..MaxTime /\ forcedAt <= asked
      BY DEF Inv, LimitInv, Tables, LimitTypeOK, LoginInv, OidcTypeOK, Younger
    <3> QED BY <3>3, <3>4, SignInNumbers, Numbers DEF WithinFloor
  <2>6. CASE Cache(c)
    <3>1. ASSUME Verified(c) PROVE FALSE
      BY <2>1, <3>1, VerifiedCall, CallAssumption DEF Inv, LoginInv, OidcTypeOK
    <3>2. ASSUME CallGoes(c, "forcing") PROVE FALSE
      <4>1. call'[c] = [call[c] EXCEPT !.pc = "forcing"]
        BY <3>2 DEF CallGoes, Inv, LoginInv, OidcTypeOK
      <4>2. [call[c] EXCEPT !.pc = "forcing"] \in Callback
        BY <2>2 DEF Callback
      <4> QED BY <4>1, <4>2, CallAssumption
    <3>3. call[c].pc = "refetched" /\ ~Has(call[c].doc, call[c].key)
      BY <2>6, <3>1, <3>2 DEF Cache, In
    <3>4. call[c].key <= call[c].doc /\ call[c].doc <= signing
      BY <2>2, <3>3 DEF Inv, LoginInv, Younger
    <3>5. call[c].key \in Nat /\ call[c].doc \in Nat /\ signing \in Nat /\ call[c].doc # None
      BY <2>1, CallParts, CallAssumption DEF Inv
    <3>6. call[c].key \in {call[c].doc - 1, call[c].doc}
      BY <3>4, <3>5 DEF Published
    <3> QED BY <3>3, <3>5, <3>6 DEF Has
  <2> QED BY <2>4, <2>5, <2>6
<1> QED BY Invariance, <1>1, PTL DEF Spec, RotationIsPickedUp

\* The subject of an address is written once, whichever sign-ins race for it.
THEOREM BindingsStick == Spec => BindingSticks
<1>1. [Next]_vars => [bound # None => bound' = bound]_vars
  <2> SUFFICES ASSUME Next, bound # None PROVE bound' = bound
    BY DEF vars, oidcVars
  <2>1. ASSUME NEW c \in Calls, Write(c) PROVE bound' = bound
    BY <2>1 DEF Write, BindSubject
  <2>2. CASE ~\E c \in Calls : Write(c)
    BY <2>2 DEF Next, oidcVars, BeginLogin, Return, Burn, Exchange, Fetch, Cache, ForceKeys, Ask, Decide,
      Rotate, Restart
  <2> QED BY <2>1, <2>2
<1> QED BY <1>1, PTL DEF Spec, BindingSticks
=============================================================================
