------------------------------ MODULE PathScope ------------------------------
(***************************************************************************)
(* The scope of a de-indexing DELETE.  A media path is stored as one text, *)
(* its components joined by "$"; a job names its root the same way, and    *)
(* the worker selects the rows of its scope with an equality and a LIKE.   *)
(* A path is the sequence of its characters.                               *)
(***************************************************************************)
EXTENDS Naturals, Sequences, SequencesExt

\* canonicalPath and safeParts: no component is empty.
Canonical(path) ==
    /\ path # <<>> /\ Head(path) # "$" /\ Last(path) # "$"
    /\ \A i \in 1 .. Len(path) - 1 : <<path[i], path[i + 1]>> # <<"$", "$">>

\* PostgreSQL's LIKE, for patterns without an escape character: from[i] is where in the
\* text the pattern from i on matches the rest.
Like(text, pattern) ==
    LET n == Len(text)
        m == Len(pattern)
        from[i \in 1 .. m + 1] ==
            IF i > m THEN {n + 1}
            ELSE IF pattern[i] = "%" THEN UNION {1 .. j : j \in from[i + 1]}
            ELSE {j \in 1 .. n : pattern[i] \in {"_", text[j]} /\ j + 1 \in from[i + 1]}
    IN  1 \in from[1]

\* Bug: the "$" between the root and the rest is forgotten.
SelectedPrefix(root, path) == root = <<>> \/ path = root \/ Like(path, root \o <<"%">>)

\* staleDeleteQuery: does the DELETE of a job for root select the row of path?
Selected(root, path) ==
    root = <<>> \/ path = root \/ Like(path, root \o <<"$", "%">>)

\* The paths that a walk from root can meet: the root itself and what lies below it.
Inside(root, path) == root = <<>> \/ path = root \/ IsPrefix(root \o <<"$">>, path)

\* A root without LIKE's wildcards.
Plain(root) == \A i \in DOMAIN root : root[i] \notin {"%", "_"}
==============================================================================
