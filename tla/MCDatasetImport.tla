--------------------------- MODULE MCDatasetImport ---------------------------
(* Small instances of DatasetImport for TLC.                               *)
EXTENDS DatasetImport, TLC

CONSTANTS y1, y2, c1, c2

MCYears     == {y1, y2}
MCContents  == {c1, c2}
OneContent  == {c1}
MCReleases  == {"Provisional", "Final"}
OneRelease  == {"Final"}

\* Two exceptions, or one and a death: the third mishap of a behaviour is its last step.
TwoMishaps == faults + crashes <= 2

\* Neither the years nor the uploaded files are told apart by the code.
Symmetry == Permutations(Years) \cup Permutations(Contents)
=============================================================================
