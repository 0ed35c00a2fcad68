----------------------------- MODULE MCIndexScope -----------------------------
(***************************************************************************)
(* IndexJobs with the real scope predicate over two sibling folders, the   *)
(* files a_/f and ab/f.                                                    *)
(***************************************************************************)
EXTENDS IndexJobs, PathScope

Underscored == <<"a", "_", "$", "f">>
Sibling == <<"a", "b", "$", "f">>

MCPaths == {Underscored, Sibling}
MCTop == <<>>
MCScopes == {MCTop, <<"a", "_">>}
MCBelow == [s \in MCScopes |-> {p \in MCPaths : Inside(s, p)}]
MCMatched == [s \in MCScopes |-> {p \in MCPaths : Selected(s, p)}]
MCShallow == [s \in MCScopes |-> {}]
===============================================================================
