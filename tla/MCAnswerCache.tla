---------------------------- MODULE MCAnswerCache ----------------------------
(* Small instances of AnswerCache for TLC.                                 *)
EXTENDS AnswerCache, TLC

CONSTANTS u1, u2, q1, q2, b1, b2, t1, t2

MCUsers     == {u1, u2}
MCQuestions == {q1, q2}
MCBuilds    == {b1, b2}
MCTurns     == {t1, t2}

\* The users, the questions, the builds and the turns are interchangeable.
Symmetry == Permutations(Users) \cup Permutations(Questions) \cup Permutations(Builds)
                \cup Permutations(Turns)
=============================================================================
