---------------------------- MODULE ServedDataset ----------------------------
(***************************************************************************)
(* What the import pipelines promise of ipeds.db: the dataset is replaced  *)
(* as a whole, a rebuild that could be compared with it keeps every year   *)
(* and a removal takes exactly one, an interrupted swap leaves the old     *)
(* dataset recoverable, and a dataset once loaded is never lost.           *)
(* DatasetImport implements it.                                            *)
(***************************************************************************)
CONSTANTS Years, File, Absent

VARIABLES
    served,  \* the dataset that is served, or that can be put back
    mode,    \* "serving", "swapping" (withdrawn for the next rename) or
             \* "stranded" (withdrawn, and nobody is about to replace it)
    guarded  \* what is about to replace it was compared with it

servedVars == <<served, mode, guarded>>

Loaded(d) == {y \in Years : d[y] # Absent}

Init ==
    /\ served \in [Years -> File]
    /\ mode = "serving" /\ guarded = TRUE

\* Its years could not be read: what is built now may have fewer.
Overlook == guarded' = FALSE /\ UNCHANGED <<served, mode>>

\* That came to its end.
Regard == guarded' = TRUE /\ UNCHANGED <<served, mode>>

Withdraw ==
    /\ mode = "serving" /\ Loaded(served) # {}
    /\ mode' = "swapping"
    /\ UNCHANGED <<served, guarded>>

\* A rebuild keeps the years, a removal drops one and never the last.
Keeps(d)      == Loaded(served) \subseteq Loaded(d)
RemovesOne(d) == \E y \in Loaded(served) :
                    d = [served EXCEPT ![y] = Absent] /\ Loaded(d) # {}

Publish ==
    /\ \/ mode = "swapping"
       \/ mode = "serving" /\ Loaded(served) = {}
    /\ mode' = "serving"
    /\ served' \in [Years -> File] /\ Loaded(served') # {}
    /\ guarded => Keeps(served') \/ RemovesOne(served')
    /\ UNCHANGED guarded

Strand ==
    /\ mode = "swapping" /\ mode' = "stranded"
    /\ guarded' \in {guarded, TRUE} /\ UNCHANGED served

\* With nothing at ipeds.db the next import counts as a first build.
Reload ==
    /\ mode = "stranded" /\ mode' = "serving"
    /\ served' \in [Years -> File] /\ Loaded(served') # {}
    /\ UNCHANGED guarded

Next == Overlook \/ Regard \/ Withdraw \/ Publish \/ Strand \/ Reload

Spec == Init /\ [][Next]_servedVars
=============================================================================
