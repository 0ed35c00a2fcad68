-------------------------------- MODULE Inputs --------------------------------
(***************************************************************************)
(* What the services are sent and must take for what was meant: the root   *)
(* of an index job and a path, the path of a media file, and the tags and  *)
(* comments of an image, each against a definition of what it means.       *)
(***************************************************************************)
EXTENDS PathScope, MediaUrls, Vectorizer

CONSTANTS
    Chars,   \* of roots and paths
    UrlChars \* of the paths of media files

\* "/" separates the names of files and is part of none.
ASSUME UrlAssumption == "/" \notin UrlChars

VARIABLE input

Of(kinds) == DOMAIN input = kinds

------------------------------------------------------------------------------
\* Properties.

\* A DELETE reaches every row of its scope, also when a wildcard is part of a name; and
\* for a root without wildcards no row outside of it, such as that of a sibling whose
\* name begins with the root's (staleDeleteQuery).
ScopesHold ==
    Of({"root", "path"}) =>
        /\ Inside(input.root, input.path) => Selected(input.root, input.path)
        /\ Plain(input.root) /\ Selected(input.root, input.path) =>
               Inside(input.root, input.path)

\* The URL of a file, or of its thumbnail, is read back as the path of that file, with
\* a query or without, although names contain the characters that URLs give a meaning
\* (encodedPath, authorizeMedia, parseThumbnailPath).
UrlsNameTheirFile ==
    Of({"url"}) =>
        /\ \A query \in {<<>>, <<"?">>, <<"?", "/", "s">>} :
               /\ AuthorizedPath(MediaUrl(input.url) \o query) = input.url
               /\ AuthorizedPath(ThumbnailUrl(input.url) \o query) = input.url
        /\ ParseThumbnailPath(PathUnescape(ThumbnailUrl(input.url))) = input.url

\* There is one vector, whatever the order in which the map yields the terms, it is as long
\* as it may be, and no term that it leaves out counts more than one that it keeps
\* (Vectorize).
OneVector(f) ==
    /\ Cardinality(Vectors(f)) = 1
    /\ \A v \in Vectors(f) :
           /\ Cardinality(DOMAIN v) = Min({MaxKept, Cardinality(DOMAIN f)})
           /\ \A s \in DOMAIN v, t \in DOMAIN f \ DOMAIN v : f[s] >= f[t]

\* An image has one vector, in whatever order its comments are read; and it is empty only
\* if no tag has a letter and no comment a word that counts (Vectorize).
VectorsCanonical ==
    Of({"tags", "comments"}) =>
        LET f == Frequencies(input.tags, input.comments)
            wordless(texts, counts(_)) ==
                \A i \in DOMAIN texts : \A k \in DOMAIN WordsOf(texts[i]) :
                    ~ counts(WordsOf(texts[i])[k])
        IN  /\ OneVector(f)
            /\ \A order \in Bijection(DOMAIN input.comments, DOMAIN input.comments) :
                   f = Frequencies(input.tags,
                                   [i \in DOMAIN input.comments |-> input.comments[order[i]]])
            /\ \A v \in Vectors(f) :
                   DOMAIN v = {} <=> /\ wordless(input.tags, LAMBDA word : TRUE)
                                     /\ wordless(input.comments, Counts)
===============================================================================
