------------------------------ MODULE MediaUrls -------------------------------
(***************************************************************************)
(* The URLs of media files and thumbnails, and how they are read back: the *)
(* API writes them into its answers, the proxy hands the raw request line  *)
(* to the API, which decides whether the file may be sent, and the         *)
(* thumbnail handler takes path and size from the decoded path.            *)
(* A path or URL is the sequence of its characters.                        *)
(***************************************************************************)
EXTENDS Naturals, Sequences, SequencesExt

\* url.PathEscape, of the characters that matter here.
Escape == [c \in {"%", "?", " "} |->
              CASE c = "%" -> <<"%", "2", "5">> [] c = "?" -> <<"%", "3", "F">>
                [] c = " " -> <<"%", "2", "0">>]

Escaped(c) == IF c \in DOMAIN Escape THEN Escape[c] ELSE <<c>>

PathEscape(s) == FlattenSeq([i \in DOMAIN s |-> Escaped(s[i])])

\* url.PathUnescape: the last character of an escape gives the one that it stands for, the
\* others of it nothing, and any other character itself.
Meaning(escape) == CHOOSE c \in DOMAIN Escape : Escape[c] = escape
Begins(s, i) == i \in DOMAIN s /\ s[i] = "%"

Unescaped(s, i) ==
    IF Begins(s, i) \/ Begins(s, i - 1) THEN <<>>
    ELSE IF Begins(s, i - 2) THEN <<Meaning(SubSeq(s, i - 2, i))>>
    ELSE <<s[i]>>

PathUnescape(s) == FlattenSeq([i \in DOMAIN s |-> Unescaped(s, i)])

Replace(s, old, new) == [i \in DOMAIN s |-> IF s[i] = old THEN new ELSE s[i]]

\* encodedPath: "$" separates the components of a path, "/" those of a URL.
EncodedPath(path) == PathEscape(Replace(path, "$", "/"))

Media == <<"/", "m", "/">>
Thumbnail == <<"/", "t", "/">>
Small == <<"/", "s">>

\* mediaPath, and the thumbnail_url of scanImages and imageSummaries.
MediaUrl(path) == Media \o EncodedPath(path)
ThumbnailUrl(path) == Thumbnail \o EncodedPath(path) \o Small

\* What stands before the first c, and before the last one.
Before(s, c) == SubSeq(s, 1, Min({i \in DOMAIN s : s[i] = c} \cup {Len(s) + 1}) - 1)
BeforeLast(s, c) == SubSeq(s, 1, Max({i \in DOMAIN s : s[i] = c} \cup {1}) - 1)

Without(prefix, s) == SubSeq(s, Len(prefix) + 1, Len(s))

\* Bug: the query is cut off after decoding.
OriginalDecodedFirst(uri) == Before(PathUnescape(uri), "?")

\* The path of the request line, X-Original-URI.
Original(uri) == PathUnescape(Before(uri, "?"))

\* authorizeMedia: the path whose row a reader needs, or none for another URL.
AuthorizedPath(uri) ==
    LET original == Original(uri) IN
    CASE IsPrefix(Media, original) -> Replace(Without(Media, original), "/", "$")
      [] IsPrefix(Thumbnail, original) ->
             Replace(BeforeLast(Without(Thumbnail, original), "/"), "/", "$")
      [] OTHER -> <<>>

\* parseThumbnailPath, of the path that net/http has decoded.
ParseThumbnailPath(decoded) == Replace(BeforeLast(Without(Thumbnail, decoded), "/"), "/", "$")
==============================================================================
