------------------------------ MODULE MCSignIn ------------------------------
(* A small instance of SignIn for TLC.                                      *)
EXTENDS SignIn, TLC

CONSTANTS p1, p2, h1, r1, r2, c1, c2, s1, s2, u1, u2

Door(d, p, h, t) == [door |-> d, person |-> p, host |-> h, until |-> t]
Others == {Door("link", 2, 3, 2), Door("ldap", 1, 5, 1), Door("chat", 1, 0, 3), Door("chat", 2, 0, 2),
           Door("mcp", 0, 0, 1)}
Start  == {Door("start", 0, 1, 2)}
Deployments == Others \cup Start
TwoPeople  == {p1, p2}
OneHost    == {h1}
TwoThreads == {r1, r2}
TwoCalls   == {c1, c2}
TwoStates  == {s1, s2}
TwoSubjects == {u1, u2}
Alike == Permutations(TwoPeople) \cup Permutations(TwoThreads) \cup Permutations(TwoCalls)
             \cup Permutations(TwoStates) \cup Permutations(TwoSubjects)
=============================================================================
