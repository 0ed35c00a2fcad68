------------------------------- MODULE MCInputs -------------------------------
(***************************************************************************)
(* What the services are sent and must take for what was meant: the roots  *)
(* of index jobs, search queries, the URLs of media, and the tags and      *)
(* comments of an image, all of them up to a bound, each against a         *)
(* definition of what it means.                                            *)
(***************************************************************************)
EXTENDS Inputs, SearchQuery

CONSTANTS
    MaxRoot, MaxPath, MaxUrl,         \* bounds: the lengths of roots, of paths
                                      \* and of the paths of media files
    Words, Tags, CommentTexts, Paths, \* names and texts that queries look for
    MaxLeaves,                        \* terms of a query
    TagTexts, Remarks                 \* tags and comments that are encoded

AsciiWords == {<<"a">>}
AsciiTags == {<<"b", " ", "b">>}
AsciiComments == {<<"a", " ", "+">>}
AsciiPaths == {<<"a", "#">>}

\* Characters in the order of their bytes; the last takes two.
AsciiAndE == <<" ", "+", ":", "A", "B", "_", "a", "b", "n", "t", "w", "e acute">>
SomeLetters == {"A", "B", "a", "b", "n", "e acute"}
LowerCases == [c \in ToSet(AsciiAndE) |-> CASE c = "A" -> "a" [] c = "B" -> "b" [] OTHER -> c]
Widths == [c \in ToSet(AsciiAndE) |-> IF c = "e acute" THEN 2 ELSE 1]

\* Words that share letters, a phrase, a letter of two bytes, a stop word and no word;
\* and a comment whose second word is too long to count.
Stops == {<<"a", "n">>}
Labels == {<<"a", "b">>, <<"A", "_", "b">>, <<"b", "a", " ", "b", "a">>, <<"e acute">>,
           <<"a", "n">>, <<"+">>}
Sentences == Labels \cup {<<"a", "b", "+", "B", "A">>,
                          <<"a", "n", " ", "b", "b", "b", "b", "b", "e acute">>}

\* A letter of two bytes, and a name with two underscores.
OtherTags == {<<"C3", "A0">>, <<"b", "_", "_", "b">>}

CanonicalPaths(chars, n) == {p \in BoundedSeq(chars, n) : Canonical(p)}

Leaves ==
    ({"text"} \X Words) \cup ({"tag"} \X Tags) \cup ({"comment"} \X CommentTexts)
        \cup {<<"not", leaf>> : leaf \in ({"path"} \X Paths) \cup ({"tag"} \X Tags)}

\* The queries of n terms, as trees.
Queries[n \in 1 .. MaxLeaves] ==
    IF n = 1 THEN Leaves
    ELSE UNION {{"and", "or"} \X Queries[k] \X Queries[n - k] : k \in 1 .. n - 1}

RootsAndPaths ==
    [root : CanonicalPaths(Chars, MaxRoot) \cup {<<>>}, path : CanonicalPaths(Chars, MaxPath)]
Searches ==
    UNION {[terms : {n}, query : Queries[n], plus : {<<" ">>, <<"+">>}] : n \in 1 .. MaxLeaves}
Urls == [url : CanonicalPaths(UrlChars, MaxUrl)]
Annotated == [tags : BoundedSeq(TagTexts, 2), comments : BoundedSeq(Remarks, 2)]

Inputs == RootsAndPaths \cup Searches \cup Urls \cup Annotated

InputsInit == input \in Inputs

InputsNext == UNCHANGED input

InputsSpec == InputsInit /\ [][InputsNext]_input

------------------------------------------------------------------------------
\* Properties.

\* A query as the help tells to write it: words with underscores for their spaces, and
\* parentheses around an alternative that is part of a conjunction.
RECURSIVE Written(_, _)
Written(query, plus) ==
    LET group(q) == IF q[1] = "or" THEN <<"(">> \o Written(q, plus) \o <<")">>
                    ELSE Written(q, plus)
        word(name) == Replace(name, " ", "_")
    IN  CASE query[1] = "or" -> Written(query[2], plus) \o <<"|">> \o Written(query[3], plus)
          [] query[1] = "and" -> group(query[2]) \o plus \o group(query[3])
          [] query[1] = "not" -> <<"!">> \o Written(query[2], plus)
          [] query[1] = "text" -> word(query[2])
          [] query[1] = "tag" -> <<"#">> \o word(query[2])
          [] query[1] = "comment" -> <<"[">> \o query[2] \o <<"]">>
          [] query[1] = "path" -> <<"'">> \o query[2] \o <<"'">>

\* A query is accepted as long as it has no more terms than are allowed, and selects
\* what its tree says, whatever an image matches, with negation before conjunction
\* before disjunction (parseImageSearch, the search help of index.html).
QueriesMeanWhatTheySay ==
    Of({"terms", "query", "plus"}) =>
        LET parsed == Parse(Written(input.query, input.plus))
            found == {<<"path", p>> : p \in Paths} \cup {l \in Leaves : l[1] # "not"}
        IN  /\ parsed.ok <=> input.terms <= MaxTerms
            /\ parsed.ok =>
                   \A matching \in SUBSET found :
                       Selects(input.query, matching) <=>
                       Selects(parsed.node, {<<f[1], Spaced(f[2])>> : f \in matching})

==============================================================================
