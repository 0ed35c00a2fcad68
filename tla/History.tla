------------------------------- MODULE History -------------------------------
(***************************************************************************)
(* The pages of a user's comments.  A page is asked for with the date and  *)
(* the id of the last comment of the page before it, while comments are    *)
(* written and images, with their comments, are de-indexed.  A comment's   *)
(* date is the time at which its transaction began, its id is drawn at the *)
(* INSERT, and others see it from the commit on: the three orders differ.  *)
(***************************************************************************)
EXTENDS Naturals, FiniteSets, SequencesExt

CONSTANTS
    Limit,        \* comments on a page
    MaxDate,      \* bound: instants at which transactions begin
    MaxComments   \* bound: comments that are written

ASSUME HistoryAssumption == Limit \in Nat \ {0} /\ MaxDate \in Nat /\ MaxComments \in Nat

VARIABLES
    uncommitted, \* comments of transactions that are open
    comments,    \* comments that everyone sees
    written,     \* the sequence of message.id
    cursor,      \* what the next page is asked for with: nothing, or a comment
    ended,       \* the page just shown had no next cursor
    listed,      \* the comments shown so far, in their order
    atFirst      \* the comments that were there when the first page was read

history_vars == <<uncommitted, comments, written, cursor, ended, listed, atFirst>>

Ids == 1 .. MaxComments
Dates == 1 .. MaxDate
Comments == [date : Dates, id : Ids]

HistoryInit ==
    /\ uncommitted = {} /\ comments = {} /\ written = 0
    /\ cursor = {} /\ ended = FALSE /\ listed = <<>> /\ atFirst = {}

------------------------------------------------------------------------------
\* addComment, as far as it matters here, and the deletion of an image.

InsertComment(d) ==
    /\ written < MaxComments
    /\ written' = written + 1
    /\ uncommitted' = uncommitted \cup {[date |-> d, id |-> written + 1]}
    /\ UNCHANGED <<comments, cursor, ended, listed, atFirst>>

CommitComment(c) ==
    /\ c \in uncommitted
    /\ uncommitted' = uncommitted \ {c}
    /\ comments' = comments \cup {c}
    /\ UNCHANGED <<written, cursor, ended, listed, atFirst>>

DeleteComment(c) ==
    /\ c \in comments
    /\ comments' = comments \ {c}
    /\ UNCHANGED <<uncommitted, written, cursor, ended, listed, atFirst>>

------------------------------------------------------------------------------
\* userComments.

\* The order of (message_date, id).
Older(a, b) == a.date < b.date \/ (a.date = b.date /\ a.id < b.id)

\* The n newest of a set.
Newest(S, n) == {c \in S : Cardinality({d \in S : Older(c, d)}) < n}

\* S newest first.
Listings(S) ==
    {s \in [1 .. Cardinality(S) -> S] : \A i, j \in DOMAIN s : i < j => Older(s[j], s[i])}

\* Bug: the cursor is made of the comment that was read to see whether more follow.
CursorOfExtra(sorted) == sorted[Limit + 1]

\* The last comment on the page.
CursorOf(sorted) == sorted[Limit]

\* The rows before the cursor, newest first; one more than the limit is read, to see
\* whether there is a next page.
ReadPage ==
    LET rows == {c \in comments : \A d \in cursor : Older(c, d)} IN
    \E sorted \in Listings(Newest(rows, Limit + 1)) :
        LET more == Len(sorted) > Limit IN
        /\ ~ ended
        /\ ended' = ~ more
        /\ listed' = listed \o IF more THEN SubSeq(sorted, 1, Limit) ELSE sorted
        /\ cursor' = IF more THEN {CursorOf(sorted)} ELSE cursor
        /\ atFirst' = IF cursor = {} THEN comments ELSE atFirst
        /\ UNCHANGED <<uncommitted, comments, written>>

HistoryNext ==
    \/ \E d \in Dates : InsertComment(d)
    \/ \E c \in Comments : CommitComment(c) \/ DeleteComment(c)
    \/ ReadPage

HistorySpec == HistoryInit /\ [][HistoryNext]_history_vars

------------------------------------------------------------------------------
\* Properties.

\* Whoever goes through all pages is shown the comments newest first, none twice, and
\* none is left out that was there at the first page and still is at the last one,
\* although comments of earlier dates appear and others vanish meanwhile
\* (userComments, parseCommentCursor).
HistoryComplete ==
    /\ \A i, j \in DOMAIN listed : i < j => Older(listed[j], listed[i])
    /\ ended => atFirst \cap comments \subseteq ToSet(listed)
==============================================================================
