------------------------------ MODULE MCLessons ------------------------------
(* Small instances of Lessons for TLC.                                     *)
EXTENDS Lessons, TLC

CONSTANTS s1, s2, v1, a, b, i, j, q1, c1, t1, b1

MCTexts      == {s1, s2, v1, a, b}
\* a says in other words what the newer seed does.
MCIdeaOf     == [t \in MCTexts |-> IF t \in {s1, v1} THEN i ELSE j]
OneText      == {a}
AllSeeds     == {s1, s2}
\* The older build ships s1; v1 is the text s1 once had.
MCReleases   == {{s1}, {s1, s2}}
OldText      == (s1 :> v1)
Old(n, t, v, q, src) ==
    [id |-> n, uid |-> n, text |-> t, vec |-> v, ques |-> q, source |-> src,
     verified |-> src = "seed", cat |-> None, seen |-> src = "seed", unread |-> FALSE,
     bare |-> t = None, barred |-> FALSE]
\* A seed of the older build, and of what waits for review a lesson saved in an outage
\* or one without a rule.
OldSeed      == Old(1, v1, i, s1, "seed")
MCOldTables  == {{}, {OldSeed}, {OldSeed, Old(2, b, None, q1, "critic")},
                 {OldSeed, Old(2, None, None, q1, "critic")}}
OneQuestion  == {q1}
OneCategory  == {c1}
OneTurn      == {t1}
OneTab       == {b1}
=============================================================================
