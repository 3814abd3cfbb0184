----------------------------- MODULE MCChatTurn -----------------------------
(* Small instances of ChatTurn for TLC.                                    *)
EXTENDS ChatTurn, TLC

CONSTANTS u1, u2, t1, t2

OneUser    == {u1}
TwoUsers   == {u1, u2}
TwoTurns   == {t1, t2}

Keyed    == {TRUE}
Keyless  == {FALSE}

\* The users and the turns are interchangeable.
Symmetry == Permutations(Users) \cup Permutations(Turns)
=============================================================================
