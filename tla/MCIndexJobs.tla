----------------------------- MODULE MCIndexJobs -----------------------------
(***************************************************************************)
(* Media trees small enough for TLC.  In the first the directory d holds   *)
(* the video a and, one level deeper, the file b, and the file c lies next *)
(* to d.  In the second there is only a, also as the root of a job.        *)
(***************************************************************************)
EXTENDS IndexJobs, TLC

CONSTANTS a, b, c, d, fileA

Tree == {a, b, c}
TreeScopes == {Top, d}
TreeBelow == (Top :> {a, b, c}) @@ (d :> {a, b})
TreeShallow == (Top :> {c}) @@ (d :> {a})

Lone == {a}
LoneScopes == {Top, fileA}
LoneBelow == (Top :> {a}) @@ (fileA :> {a})
LoneShallow == (Top :> {}) @@ (fileA :> {a})

NoScopes == {}
FileScopes == {fileA}

\* Process identities and job ids are drawn at random and compared only for equality.
Symmetry == Permutations(Processes) \cup Permutations(Jobs)
==============================================================================
