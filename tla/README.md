# A TLA+ verification of imageboard

This directory specifies parts of the imageboard in TLA+, model-checks them with
TLC on small instances and proves theorems about them, for every value of the
constants, with TLAPS. The code is the reference; `PROJECT.json` names, for each
definition, the lines it stands for.

## 1. Inventory

The program is a set of processes around one PostgreSQL database and one media
tree. They share no memory; they meet in rows and files.

| component | code | state it keeps | operations |
| --- | --- | --- | --- |
| Index worker | `index_worker/cmd/index-worker/main.go` | `index_job` rows, `image.last_index_job`, the walk in memory | claim, walk, upsert a batch, renew the lease, look for a cancellation, de-index, finish, audit |
| Index requests | `go_api/cmd/api/handlers.go`, `static/app.js`, `index_all.py` | `index_job` rows; in a page: folders queued, jobs watched | queue a folder, a file or the tree; poll; cancel |
| Embedding worker | `go_api/internal/embedding/worker.go`, `go_api/cmd/embedding-worker/main.go`, triggers of migration 0008, `discovery.go` | `image_embedding_job`, `image_embedding`, `image_embedding_term`, `embedding_setting` | mark dirty, configure, claim, read the source, renew, publish, fail, serve |
| Vectorizer | `go_api/internal/embedding/vector.go` | none | tags and comments to at most 128 weighted terms |
| Discovery ranking | `go_api/cmd/api/discovery.go` | none | single queries for rankings and similar images |
| Accounts, authentication | `go_api/cmd/api/users.go`, `main.go` | `user` rows, a cache of checked credentials, scrypt slots, an advisory lock | authenticate, create, update, set a password |
| Annotations | `go_api/cmd/api/handlers.go` | `image`, `tag`, `tag_image`, `message` | update context, add a comment or a reply |
| Favorites, hits | `go_api/cmd/api/handlers.go` | `image_favorite`, `image.hits` | favorite, unfavorite, count |
| Search, listing | `go_api/cmd/api/handlers.go` | none | parse a search, list a page of images |
| Thumbnails | `go_api/cmd/api/thumbnail.go`, `index-worker/thumbnails.go` | the encrypted cache | load, generate, store, discard |
| Media paths, authorization | `go_api/cmd/api/handlers.go`, `main.go` | none | canonicalise, resolve, authorise |
| Page | `static/app.js` | route, inspector, viewer, queues | navigate, render, inspect, load similar images |
| Helpers, deployment | `describe_image.py`, scripts, compose file, nginx, tor, migrations | configuration | |

How they interact, and where it is hard:

* A page or the helper POSTs a request; the API inserts a row of `index_job`,
  unless the partial unique index `index_job_active_unique` finds an active one,
  which is then the answer. Answers arrive late, and several requests may share one
  job.
* The index worker claims the oldest job, holds it by a one-minute lease that each
  batch extends, and shares nothing with the API but the row: a cancellation is seen
  only when the worker looks. The lease may lapse while the worker walks; the
  process may die; the container restarts it under a new identity.
* The walk reads a directory tree that changes meanwhile. Each batch stamps its
  image rows with the job's id, and the final DELETE takes the rows of the scope that
  do not have the stamp. What the walk could not see must not be taken for absent.
* An annotation transaction fires triggers that raise the revision of the image's
  embedding job and take its lease away, in the same transaction, while an
  embedding process may be between reading the text and publishing the vector.
* Deleting an image cascades into both embedding tables under that process.
* A request is authenticated by one statement and one hash, or a cached proof, and works
  later. A change of an account opens a transaction, waits for an advisory lock that the
  scripts take too, and checks its actor again under it, computing a hash while it holds the
  lock and a pooled connection.
* Two updates of tags meet in the rows of shared tags, which each locks in the order of a
  Go map, and in the job's row of an image, which the first change of a transaction marks. A
  reply reads its ancestors one statement at a time while the image may be deleted.
* A thumbnail is stamped with what a stat saw of its file, then the file is opened, read and
  written to the cache, while it changes, and while another request or the worker writes
  the same row.
* The page shows what the hash of its location names. The user and the browser's
  history change the hash, events of it and of the dialog are queued, and answers of
  requests, for an image that may have been left, come in any order.
* Names of files go through three services as URLs, roots of jobs and search terms; each
  escapes or reads them in its own way.
* A restart of the embedding worker with another tag weight changes the version and
  queues every job again.

What makes each modelled component correct: a successful scan leaves the rows of its
scope equal to its files; no live file loses its row; results are final; an active
job settles, because it blocks all others; a served vector was made from the present
annotations and the present version; an edit is never waiting behind the backfill;
a page runs one polling loop per job and each loop ends; an active administrator always
remains, nobody changes an account by rights he has lost, and nobody waits for a slot or a
lock for ever; threads stay whole and within their depth, no annotation changes without its
embedding job, and an update of tags that nothing disturbed replaces them; nobody is
served a thumbnail older than the file he asked for, and the worker's thumbnails of videos
stay; an inspector shows one image, the one that the hash names; a history of comments
leaves none out; a query, a root and a URL are taken for what was meant; and a vector depends on
the annotations alone.

## 2. Modules

| module | what it is |
| --- | --- |
| `JobTable` | abstract: what the `index_job` table promises to clients |
| `IndexJobs` | the index worker, the INSERT and the cancellation of the API, the disk, crashes and refused statements |
| `PathScope` | canonical paths, PostgreSQL's `LIKE`, and the scope predicate of the de-indexing DELETE |
| `IndexRequests` | pages, helper and API around an instance of `JobTable` |
| `VectorIndex` | abstract: what similar-images promises of the vector of an image |
| `EmbeddingQueue` | triggers, embedding worker, de-indexing, and the API's validity rule |
| `AccountTable` | abstract: what the `user` table promises, whoever changes it |
| `Accounts` | authentication, its cache and hash slots, the handlers that change accounts, and the scripts |
| `Thumbnails` | the cache that the API and the index worker share, over files that change |
| `Inspector` | the page's hash, its inspector, and the requests and polls of it |
| `History` | the pages of a user's comments, while comments come and go |
| `SearchQuery` | the parser of searches, and what a query selects |
| `MediaUrls` | the URLs of media and thumbnails, from the answer to the check of the request |
| `Vectorizer` | from the texts of tags and comments to the terms of a vector |
| `Annotations` | contextUpdate and addComment, statement by statement, and the deletion of an image, under row locks |
| `MCIndexJobs`, `MCIndexScope`, `MCEmbeddingQueue`, `MCAccounts`, `MCAnnotations` | instances for TLC; `MCIndexScope` composes `IndexJobs` with the predicate of `PathScope` |
| `Inputs` | what the services are sent: the properties of `PathScope`, `MediaUrls` and `Vectorizer` |
| `MCInputs` | bounded inputs of these and of `SearchQuery`, with the property of the latter |
| `MCPage` | what a page does and gets: `IndexRequests`, `Inspector`, `Thumbnails`, `History` and `MCInputs` in one instance |
| `IndexJobsProofs`, `EmbeddingQueueProofs`, `AccountsProofs`, `AnnotationsProofs`, `ThumbnailsProofs`, `InspectorProofs` | theorems about the module of the same name |
| `PageProofs`, `InputsProofs` | theorems about `IndexRequests` and `History`, and about `PathScope`, `MediaUrls` and `Vectorizer` |

An operator whose comment begins with "Bug:" is not part of a specification. It is a
plausible mistake in the definition that follows it, and `PROJECT.json` says which
property finds it when it takes that definition's place. Where `MCPage` brings modules together,
their specifications carry the module's name (`InspectorSpec`, `ThumbnailsSpec`); `Spec` is that of
`IndexRequests`.

### IndexJobs

The rows of `index_job` are `status`, `owner` (worker_id), `lapsed` (the lease has run
out), `root` and `limited` (max_depth is set). `catalog[p]` is the image row of the path
p: `Gone`, `Unstamped` or the id in last_index_job. A process has a program point `at`:
`rooting` (jobRoot, Lstat), `walking`, `renewing` (after upsertBatch's commit: one
renewLease per video, then progress), `checking` (cancelled), `sweeping`
(deindexStale), `clearing` (deindexMissingScope), `finishing`, `auditing`. `todo`,
`batch`, `clips`, `whole` are what remains to be walked, the slice `files`, the videos
whose renewal is due, and the flag `complete`.

One action is one statement, one transaction or one look at the file system; between
two of them every other process, the API and the disk may act. `Visit` takes the paths
in any order, which includes the order of WalkDir. A file that is on disk can be
taken or unreadable (`whole` becomes FALSE). A file that is absent, or whose presence
changed during the scan, may be passed over, because a directory is listed before its
entries are visited. `RefuseRoot` stands for the errors before the walk and for a symbolic
link at the root; it may always happen.

An error of `upsertBatch` is a failure even after its commit (a lost lease in
`renewLease`), while `progress` only makes the process drop the job: the two ways in
which the code treats a lost lease are kept apart. `finish` is guarded by the
worker id alone, so it may overwrite a cancellation; this is why `JobTable` does not
promise that a cancellation is final.

Abstracted: the counters, the sizes and names of files, the video thumbnail made
between renewals (it is in `Thumbnails`), and the order of claims (any claimable job). `churn` and `moved` are
history variables, used by properties only: the paths that came or went during the
present scan, and since the job was first claimed.

### PathScope

Media paths are components joined by `$`. `Selected` is the WHERE clause of
staleDeleteQuery, `Inside` is what a walk can meet. `Like` is a recursive function: from a
position of the pattern to the positions of the text at which the rest of it matches. Patterns
have no backslash (canonicalPath refuses it in a component).

### IndexRequests

A request is a pair of a client and a scope. `Insert` and `Conflict` are the two
outcomes of enqueueJob's INSERT; `ReadActive` is activeJob, a statement of its own.
`Open`, `Receive`, `Reject`, `Poll` and `PollFails` are queueFolderIndex and watchIndexJob;
`loops` counts the calls of watchIndexJob that run. `Ask` and `Report` are index_all.py,
of which a request or a poll that fails ends the program (`Lose`, and a helper that
never reports). The worker is `JobTable`'s `Take` and `Settle`, which `IndexJobs` is shown
to implement.

### EmbeddingQueue

`revision`, `state`, `urgent` (priority), `due` (available_at), `token`, `lapsed` are the job
row; `built`, `vector`, `stamp` the embedding (revision, the content its terms were made
from, version). The vectorizer is a function, so a vector is represented by the
content it was made from, and `Silent` contents are those with no terms.

PostgreSQL's row locks decide where a transaction must be split. An annotation
transaction writes the job row, keeps its lock and commits: other transactions see
nothing before and everything after, so it is one action (`Annotate`). Publish locks the
job row and then works: it is `PublishBegin` and `PublishCommit`, and while it is between
them (`Locked`) no other statement changes that row and Claim skips it. Configure
reads the version under a lock, and its UPDATE applies to the rows that were committed when it
began (`snapshot`), each re-read when its lock is free. The heartbeat (`Renew`) renews a
lease that already lapsed as long as the row still matches, and otherwise cancels
the job. A heartbeat that meets a changed row ends the job through `Fail`, whose own
guard then fails. `Publish` that returns false ends `Process` without an error:
the job keeps running until its lease lapses.

### Accounts

The user table is `members`, `admins` (privileges), `disabled` (banned) and `password`; a
stored hash is represented by its password, because a salt only makes the cache miss once
more. `Placeholder` is what the migration puts in place of a hash. A request goes from
`lookup` (its row is read) through `proving` (verifyPassword), `hashing` (hashPassword, before
the transaction), `beginning` (a connection), `locking` (the advisory lock), `reading` and
`rechecking` (beginAccountChange), `deciding` (the handler reads the row under the lock),
`confirming` (the current password of an own change) and `committing`. At `proving`, `hashing`,
`rechecking` and `confirming` it needs one of the `Slots`; from `locking` on it holds one of the
`connections` of the pool, whose size is one of `PoolSizes` and never changes. `Drop` is a statement that fails or a client that has gone, which a
computation of a hash does not notice. Kinds of requests are `create`, `update`, `reset`, `own`,
and `use` for every route that changes no account.

`Script` is create_user.py or rotate_password.sh, each one transaction under the same lock.
Rows are never deleted and names never change, so a name stands for an id. Left out:
the forms of names, passwords and bodies (refused before anything changes), the check of
the origin, and audit events, which are written by the same transaction.

### Annotations

`present`, `links`, `on` and `parent` are the committed rows of `image`, `tag_image` and
`message`; messages are numbered as they come. A link carries the request that inserted it,
because a DELETE takes the rows that its snapshot found (`seen`), never a row that was
inserted since, even of the same tag. A request for an update goes through `clearing` and `deleting` (the
DELETE of the links begins, and is executed), `upserting` and `linking` for each tag in
any order (the handler ranges over a map), `commenting`, and `committing`, where what it wrote
(`removed`, `added`, the comment) becomes visible. A reply is `climbing` while addComment
counts ancestors, each read being a transaction of its own, then `inserting`. A request of the kind
`deindex` is the worker's DELETE for one image, with its cascade.

Locks are `named` (rows of tags), `marking` (the job's row, written by the triggers) and
`sharing` (the key-share lock that an inserted row keeps on its image). `Blockers(r)` are the
requests that the next statement of r waits for. `Deadlocked` and `Detect` are
PostgreSQL's detector, which aborts one request of a cycle. `Fail` is a statement refused or a
client gone, with the deferred Rollback; a request for an image that is not there, or with
nothing to do, fails at once. `Commit` raises the revision once, as the trigger does in a
transaction.

`EmbeddingQueue` takes an annotation transaction as one action, `Annotate`. `ChangesAreMarked` is
what justifies it: whoever sees a change of annotations sees the mark too.

Left out here: updateImage (one UPDATE of a title), the text of comments and the forms of the
names of tags, and the answer that is read after the commit.

### Thumbnails

`cache[k]` is the row of thumbnail_cache for a path and a variant: its stamp, the version of
the file that its content was made from, and whether it decrypts. Versions of a file are
counted, and a stamp (size and time of modification) stands for a version: two versions of
a file with the same size and the same microsecond would be one to the code as well, and
are not told apart here.

A request of the API is `Arrive` (existingPath and its stat), `Load`, `Discard` (the DELETE of
loadThumbnail, which is a statement of its own and does not say which row it means),
`Generate` (the file is opened again) and `Store`. The worker's way with a video is `Walk` (the stat of
the walk), `Look` and `Keep` with `Render` between them. `End` and `GiveUp` stand for every error, and may
happen at every point. `Change`, `Unlink` and `Damage` are the disk, and a row that a new
key or a fault of the table makes unreadable.

`WalkedVideosCached` excepts keys that were damaged once: a request that found such a row
may be about to delete the good one that the worker has written since. The API answers
"being generated" for a video without a row; that the worker makes small ones only is
why a video's large variant is never hit.

### Inspector

`hash` is the location, a view and perhaps an image. `opened`, `request`, `generation`,
`inspected`, `openedAt` and `base` are the dialog and the fields of `state`; `body` and `similar` what the two parts of
the dialog show, and of which image. `calls` are the requests to the API that have not been
answered, each with the number and generation it was sent under; an aborted request is one whose
number is no longer `request`. `events` counts the events that the browser has queued, `renders` the
readRoutes that await their view.

What JavaScript runs between two awaits is one action. `OpenImage` writes the hash by
history.pushState, and the handler of a close event by replaceState; of neither does the page get
an event. `Navigate` changes the hash with an event, which is queued. Close events are queued too, and may be handled after the dialog was opened
again. `Ignore` is an answer that is not wanted any more, or the abort; `ItemArrives`,
`SimilarArrives` and `Saved` go on as the code does: the image's arrival starts the first poll,
a save another one, and an index that is being built sets the timer.

Left out: what the views draw, favorites, downloads and the document reader, none of
which touches these variables.

### History

A comment has a date (NOW(), the beginning of its transaction), an id (drawn at the INSERT)
and appears to others at its commit, so that comments may appear below the cursor or
above it. `ReadPage` is userComments with the cursor that its last answer gave: one row more
than the limit is read, and the cursor is made of the last one shown. ORDER BY and LIMIT are
described by what they return: `Listings` are the sequences of a set in the order of dates and
ids. `DeleteComment` is the cascade of a de-indexed image.

### SearchQuery

A recursive-descent parser over the bytes of a query, one operator for each of the
code's functions, which returns where it stopped, a node and the number of terms seen. They
call each other through `parse`, a function of a rule and a position that `Parse` defines by them.
`Blank` has the bytes that unicode.IsSpace accepts one by one. `Selects` is what the SQL of
compileImageSearch means; a term that an image matches is a given. Left out: the
limits on the length of a query and of a term.

### MediaUrls

`MediaUrl` and `ThumbnailUrl` are written by the API (encodedPath, scanImages). A request comes to
authorizeMedia as the raw request line, in the header of the proxy: the query is cut off,
the rest decoded once (`Original`, `AuthorizedPath`). The thumbnail handler gets a path that net/http has decoded
(`ParseThumbnailPath`). Escapes are those of the three characters that matter to it; the others
that url.PathEscape escapes go the same way as the space.

### Vectorizer

`Frequencies` adds up words and phrases as Vectorize does. A Go map yields its keys in any order and
sort.Slice need not be stable: `Sorts` are all sequences of the terms that the sort may leave, of which
`Vectorize` cuts the first terms. Its result is the map from kept terms to their frequencies: log1p
keeps their order, and it and the norm are functions of these numbers. Numbers are natural: a weight
stands for a multiple of the smallest weight in use, and is positive because the worker refuses to
start with another (cmd/embedding-worker/main.go:31), so that the norm is zero only if there are no terms.
Characters are the constants `Alphabet` (in the order of their bytes), `Letters`, `LowerCase` and
`Width` (the bytes of each in UTF-8): of a run, the 12 of `AsciiAndE`, of a proof, any that
`AlphabetAssumption` allows.
`EmbeddingQueue`, where a vector is represented by the content it was made from, rests on
this being a function (`VectorsCanonical`).

## 3. Runs

Every bound is a CONSTANT: MaxFaults (statements the database refuses, stalls,
broken connections), MaxChanges (files that come or go), MaxEdits (annotation
transactions), MaxScripts (runs of scripts), MaxClicks (what a user does), MaxVersion
(versions of a file), MaxDate and MaxComments, the lengths and alphabets of inputs, and
the sizes of the sets.

| run | instance | shows |
| --- | --- | --- |
| `IndexJobsOne` | 2 identities, one alive at a time; 1 job; a tree of 3 files with one directory, scopes Top and that directory; batches of 2; 1 fault; 2 disk changes | `TypeOK`, `Reconciled`, `AuditedSucceeded`, `OnlyAbsentFilesDeindexed` |
| `IndexJobsTwo` | 2 processes side by side, 2 jobs, one video, also as the root of a job; 1 fault | `ResultsAreFinal`, `DisownedProcessLeavesJobs`, `ImplementsJobTable` |
| `IndexJobsLive` | one process at a time, 2 jobs, 1 fault, fair | `EveryJobSettles` |
| `IndexJobsResume` | 1 job, 1 file, 1 disk change, a crash | `ScanReconciles` fails |
| `IndexScope` | the files a_/f and ab/f, the scope a_, the real predicate | `OnlyAbsentFilesDeindexed` fails |
| `Page` | see below | `TypeOK`, `OneLoopPerJob`, `ShownResultsHold`, `LoopsEnd`; `InspectorShowsWanted`, `RouteIsShown`, `SimilarInOrder`; `ServedNotOlder`, `WalkedVideosCached`; `HistoryComplete`; `ScopesHold`, `QueriesMeanWhatTheySay`, `UrlsNameTheirFile`, `VectorsCanonical` |
| `IndexRequestsHelper` | 1 page, the helper, 1 job | `HelperIndexedAll` fails |
| `SearchNames` | single terms: a tag with a letter of two bytes, and one with two underscores | `QueriesMeanWhatTheySay` fails |
| `EmbeddingQueueOne` | 2 images, 2 processes of different versions, one alive at a time; 3 contents, one silent; 2 edits, 1 fault, fair | `TypeOK`, `NoContextIsTrue`, `ReadyIsServed`, `EditsGoFirst`, `DirtyImagesSettle` |
| `EmbeddingQueueTwo` | the same with two alive, 2 contents | `ServedVectorsAreCurrent`, `ImplementsVectorIndex` |
| `Accounts` | 2 names, 2 passwords, 2 requests, 1 slot, a pool of 1 or of 2 connections, 1 run of a script, fair | `TypeOK`, `AdminRemains`, `ActorStillMay`, `OldPasswordsFail`, `RequestsEnd`, `ImplementsAccountTable` |
| `Annotations` | 3 requests of 10 kinds, 2 images, 2 tags, a thread of 3 comments, replies with at most 2 ancestors, fair | `TypeOK`, `ThreadsWhole`, `ChangesAreMarked`, `UndisturbedReplace`, `RequestsEnd` |

`Page` puts together, one part at a time, what a page does and gets:

* `IndexRequests`: 1 page, 2 scopes, the helper, 2 jobs, 1 fault, fair;
* `Inspector`: 2 views, 2 images, 3 things that the user does, and a poll that is repeated once
  instead of 5 times;
* `Thumbnails`: a picture and a video, 2 requests at a time, 3 versions of a file;
* `History`: pages of 2 comments, 4 comments at 2 dates;
* all canonical roots of up to 3 and paths of up to 4 characters over a, `_`, `%`, `$`; all queries
  of up to 4 terms of each kind with the three operators, under a limit of 3 terms instead of
  20; all paths of up to 4 characters over a, `%`, 2, 5, `?`, a space and `$`; up to 2 tags and
  2 comments out of 6 and 8 texts, with vectors of at most 3 terms instead of 128.

The variable `focus` says which part may move. That is sound: the parts share no variable,
each property is about one of them, and an action with a fairness condition is
never enabled in a part that rests. A row of the cache depends on its own key and file
only, so that one file's thumbnails move at a time; and the hash begins with one view and with one
image or none, the others being the same up to their names.

Why the bounds are enough for the cases that matter: three files and batches of two
make a full and a partial batch, a file outside the scanned directory and one that a
limited walk does not reach; two identities give a crash, or a lapsed lease, followed
by a second claim, or two racing holders; two jobs let a job follow a cancelled one
whose process is still at work; two disk changes let a file go and come back within a scan. Two
images are needed for priority and for one to be published while the other is
configured. A root of two characters has a wildcard, and four are enough for a sibling that shares a
prefix, or for what lies below. Four bytes of a URL hold an escape in a name with a
character beside it. Queries of four terms have a disjunction within a conjunction on
either side, and reach the limit of terms and one more. Three clicks are enough to
open, close and open again, or to open one image, leave it and open another, with all
orders of answers and events between them; two versions that appear between the steps of one
request, and two writers of one row, need three versions. Four comments on pages of two fill
two pages, or end one exactly, with one more that appears meanwhile. Two requests give the mutual demotion, a
reset that meets a login or another change, a lookup of the cache that straddles a
change, and a lock holder that waits for the only slot while the other has a connection
or that slot. With a pool of one connection, the other waits for the connection of the lock holder
before it can wait for the lock: a handler that asked for a second connection while it holds
the first would wait for ever (the mutant `ReadApart`). `MCInit` leaves out tables and requests
that are others with the names, the passwords or the requests exchanged, pairs of requests that both
come with a wrong password, and pairs that both come from the second account; a pool of one is
given to two active administrators with their passwords, since who is refused earlier never asks for a
connection. Three
requests on annotations give two updates that lock the two tags in either order, with
one that deletes their image, or one that replies, between them. The limit of ancestors is 2
instead of 8: the thread of 3 comments has the last parent that can be replied to, and a
reply to what another request posts is allowed or refused by what that one replied to. `MCInit` leaves out the
orders of the requests among themselves, and puts what there is at first on one image and one tag.

Deadlock is not checked where the system may stop: every job and identity is used up,
or the bounds are. Identities that are used up are also why `Crash` leaves one
for the restart.

### Disagreements with the documentation

* `IndexJobsResume`. The stamp of a scan is the job's id, which a second claim keeps. A
  file stamped by the first scan and deleted before the second one begins keeps its
  row after the second scan's success. `Reconciled` is the weaker statement that
  does hold: files that came or went since the job was *first* claimed are excepted. A
  later job repairs the row.
* `IndexScope`. The DELETE's LIKE does not escape `_` and `%` in the name of the root.
  For the same reason the second half of `ScopesHold` is about roots without wildcards, and
  `LiveFilesKept` below assumes exact scopes.
* `IndexRequestsHelper`. A request is answered with the active job whatever its scope,
  and the answer does not name the scope; the helper then reports that job's success.

* `SearchNames`. The parser tests single bytes for blanks (handlers.go:287), and 0x85 and 0xA0 are
  blanks to unicode.IsSpace: a letter such as à, which is C3 A0, ends its term. And a tag with
  two underscores is not found: the tag of the query has its spaces collapsed, that of
  the database does not. The search help (index.html:149) says "Match an assigned
  tag exactly."

README.md:161 of the repository says that "Video thumbnails remain disabled; the Go thumbnail cache
generates image previews only". The index worker makes them (thumbnails.go) and the API serves
them, as `Thumbnails` does.

Two updates of the same image that overlap can leave the union of their tags: the DELETE of
the second does not find the links that the first inserts. README.md:139 of the repository says that
an update replaces the tags. It does not speak of concurrent updates, so `UndisturbedReplace` states
the replacement for an update whose DELETE saw the links that its commit finds.

Some more things hold only while one process of a service is alive at a time, which
is what the compose file starts. With `Overlap = TRUE`, `OnlyAbsentFilesDeindexed` fails: a
process that lost its job stamps rows of the next job's scan. And `ReadyIsServed`
fails: an image annotated after Configure's UPDATE began, and published by the
old process before Configure commits, stays ready under the old version.
`EveryJobSettles` is stated for one process too: leases of two slow processes can
lapse in turn for ever. And so is `WalkedVideosCached`, with its theorem: `Thumbnails` has one index
worker, so that a row of a video has one writer; a process that overlapped it could put the row of
an older stat over the present one. It also excepts every row that was ever damaged, so that it says
nothing of the deletion of a good row by a request that found a bad one (thumbnail.go:143).

### Fairness

* `IndexJobs`: WF of `Work(w)` for each process: a process that is alive takes its next
  step (`worker.run` is a loop that waits only for its ticker). Cancelling, queueing
  and disk changes are not fair. WF of `Start`: the containers have `restart:
  unless-stopped`. WF of the lapse of a lease that no process works under: time
  passes. A lease under which a process works may lapse, but need not.
* `EmbeddingQueue`: the same, with the retry delay of Fail. The heartbeat needs no
  fairness, and a process may stall past its lease at the cost of a fault.
* `IndexRequests`: the API serves requests, answers arrive or fail, a loop goes on, and
  the worker takes and settles what is queued or running (`EveryJobSettles`), but owes a
  cancelled job nothing. Opening folders,
  cancelling and losing connections are not fair.

* `Accounts`: WF of `Handle(r)`: the goroutine of a request goes on while a slot, a connection
  or the lock it waits for is free. With many requests that a waiting one is
  served in the end is due to the queues of Go's channels, of the pool and of PostgreSQL.
  Arrivals, lost clients, scripts and the cache's expiry are not fair.
* `Annotations`: WF of `Handle(r)`: a statement whose locks are free is executed; and WF of
  `Detect(r)`: PostgreSQL looks for a cycle after `deadlock_timeout`. Arrivals and failures
  are not fair.

Faults are bounded: against a database that refuses for ever nothing settles.

## 4. Proofs

The theorems hold for every number of processes, jobs, images, pages, paths and
contents, every batch size and every bound. They assume only the named assumptions
of the modules (`ScopeAssumption`, `ValueAssumption`, `ContentAssumption`,
`WorkerAssumption`, `RequestAssumption`, `OrderAssumption`, `AccountAssumption`, `AnnotationAssumption`,
`InspectorAssumption`, `HistoryAssumption`, `UrlAssumption`, `VectorAssumption`: a vector keeps at least
one term, and a tag has a positive weight; `AlphabetAssumption`: a space, a colon and the prefixes of
words and phrases are among the characters, a character has a lower case that is one, and takes
up to four bytes, a space one), and what is said below.

* `IndexJobsProofs`. The types are inductive only together with `InHand` (a working
  process has a job; finish has a result). `finish` has no status guard, so that it
  never replaces a result rests on `OwnedUnfinished`: while a process works and still owns its job,
  the job is running or cancelled. With it every step is a step of `JobTable` or a
  stutter (`JobTableImplemented`), and a success or a failure stays (`FinalResults`). Every
  statement that extends a lease or settles a job names the worker that must own it, and no two
  processes have one name, so that a job is left alone by the process that lost it
  (`DisownedLeave`).
  Its second part is about scans, for one process alive at a time (`~ Overlap`). Then the process that
  works on a job owns it (`Owns`), which gives `AuditsAreTrue`. `NothingSkipped` says that in
  a whole, unlimited scan every file of the scope that was there all along is still
  to be walked, in the batch, or stamped; `Shape` that nothing is left to walk or to
  flush when the sweep begins. From these follow `LiveFilesKept` (which also assumes
  `ExactScopes`: the predicate selects the scope and no more) and one half of
  `SuccessReconciles`. The other half needs `StampsTrue` (a row stamped by a job under way has its
  file, unless the file moved since the job was first claimed) and `TakenFromDisk`.
* `EmbeddingQueueProofs`, for any number of processes side by side. Everything that
  changes the annotations changes the row's revision and takes the token away, so a
  process whose token and revision still match has read the present content
  (`SourceIsCurrent`), and still does when it publishes, since the row is locked
  (`PublisherOwns`). `StatusTells` then relates a settled row to the image:
  `ServedCurrent` and `NoContextTrue`. `EditsFirst` rests on `EditsUrgent`: the job of an outdated
  vector is urgent, and no failure, second claim or change of version takes that back.
  Its second part is about versions. A process that is changing the setting finds every row
  that has, or is about to get, a vector of the version it changes the setting to
  (`SnapshotFinds`); hence no vector becomes valid by a change of version, and every step is a step
  of `VectorIndex` or a stutter (`VectorIndexImplemented`, any number of processes). `ReadyServed`
  is for one process at a time, when nobody publishes while another configures.
* `PageProofs`. `OneLoop` and `ShownHold`, with `AnswersKnown` (an answer names a job that
  exists) and `JobTable`'s rule that a success or a failure does not change. `Pages`, the completeness
  of a history, rests on `CursorIsLast` (the cursor is the last comment shown, whose date
  and id no later page reaches back to) and `ShownSoFar` (of the comments that were there at the first
  page, those that are not older than the cursor have been shown). A page keeps them because
  the newest comments of a set are closed upwards (`NewestClosed`), and an answer without a
  cursor has shown all that was left (`NewestAll`).
* `InputsProofs`, for texts of any length and over any characters (`UrlAssumption`: a name of a file
  has no "/"). `Scopes`: a pattern that is a root followed by `$` and `%` matches
  what begins with the root (`BeginsLike`), and nothing else if the root has no wildcard
  (`LikeBegins`). The recursive function of `Like` exists (`BackwardFunction`), and what holds of all
  its positions is shown by a least counterexample (`Upwards`, `Downwards`). `Urls`: an escaped
  text is read back (`UnescapeEscaped`), one character at a time (`EscapeOneMore`,
  `UnescapeOneMore`): that needs a text whose last escape is complete (`Complete`), for otherwise what
  follows would change the meaning of what came before. An escaped text has no `?`, so that the query is
  cut off where it begins (`BeforeQuery`), and the size of a thumbnail is the last component
  even if a folder is named like it (`BeforeSize`). `Vector`: whatever the terms and their frequencies,
  sort.Slice can leave them in one order only. Its comparison orders them strictly and
  totally (`HeavierOrders`), because texts of equal frequency are told apart by their first difference
  (`PrecedesOrders`); and in a sequence that follows such an order each term stands at the place that
  the number of terms before it gives (`PlacesAscend`, `AscendingIsCounting`), so that there is one
  (`OneFollows`). `ImageVector` is `VectorsCanonical`, for any characters, any comments in every
  permutation, and any tags that in lower case have at most
  `MaxBytes` bytes: the source counts phrases of up to 128, and cleanTag (handlers.go:1131), through
  which every tag is stored, lowers tags and admits up to 100 bytes, so that a tag with a letter has a phrase
  that counts. The folds are known by their first and
  last steps (`FoldExists`, `FoldSteps`). What a text adds to a term does not depend on what it is added to
  (`TextAdds`); hence the frequency of a term is the number of units that the comments have for it
  (`SumsCount`), and a permutation of the comments is a bijection of their units (`UnitsReordered`,
  `CommentsReordered`). Words are the runs of letters (`WordsAreRuns`), and
  a phrase has no more bytes than its tag in lower case (`PhraseFits`), because bytes add up
  (`BytesConcat`) and between two of its words the tag has at least the one byte that separates them.
* `AccountsProofs`. One request at a time is in the points that hold the lock (`Exclusive`), and
  only a commit or a script changes a row, so what was read under the lock is true until
  the commit: the actor is entitled (`ActorFresh`, which gives `CommitsAreEntitled`) and the
  change allowed (`StillAllowed`, which with the count of the other administrators
  gives `TableImplemented` and `AdminAlwaysRemains`). `CacheHonest` (the cache has only proofs of the
  password of their key) gives `OnlyStoredPasswords`. Types rest on `StillAllowed` too: only
  members get flags because the row was found.
* `AnnotationsProofs`. `ThreadsStayWhole` rests on `Founded` (a message is numbered after its
  parent), `Counted` (what addComment has counted and what is above its cursor are all the
  ancestors) and `Shared` (the image of a request that refers to it is not
  deleted). The number of ancestors is a recursive function of `parent`; that a new message
  leaves the other counts alone (`CountsAgree`) is shown by a least counterexample. `Marked` (who
  will change something holds the job's row) gives `EveryChangeMarked`. `LinksDone` (visible links come from
  requests that have committed) and `Replaces` (what was seen is deleted or gone; the
  tags are linked, at hand or left) give `UndisturbedReplaces`.

* `ThumbnailsProofs`, for any files, requests and versions. A row holds what was read no
  earlier than its stamp (`RowsNotOlder`), because whoever writes it has read the file after
  the stat (`RequestsNotOlder`, `ScansNotOlder`); a hit with the stamp of the request's stat is therefore
  not older either (`ServedIsNotOlder`). `WalkedVideosStayCached` adds `Blamed`: what
  cannot be decrypted was damaged, and requests make no thumbnails of videos, so that a
  row of a video is written by its scan alone, with the stamp of its walk.
* `InspectorProofs`, for any views and images, any number of polls and anything that the user
  does. Every opening takes a new number, so that the calls of the present number are for the
  image inspected (`RequestsOfInspected`), which gives `WantedIsShown`. While the image
  itself is awaited nothing else of its number is under way, and polls have generations of their
  own (`PollsApart`). Two requests for similar images may be in flight, when a save is answered while
  one is pending; `PollsInOrder` says of all of them that only the answer of the last one sent is
  drawn or starts a timer, and that no timer is left beside it (`DrawnInOrder`). `HashFollowed` says of a hash whose events are
  handled and whose view is rendered that the inspector is open for it, or that a close event is about
  to take the image back; it gives `HashIsShown`. `InspectorAssumption` says that no image
  is the value that stands for none.

Only model-checked: liveness (`EveryJobSettles`, `DirtyImagesSettle`, `LoopsEnd`, `RequestsEnd`), which TLAPS
does not support, and `QueriesMeanWhatTheySay`, whose parser is a set of functions that call each other
on nested terms. The properties with a violation are refuted, not proved.

## 5. Not modelled, and the plan

* Partly modelled. Annotations: updateImage, one UPDATE of a title that no trigger and no
  other statement depends on, is left out. Media paths: existingPath, which looks at each
  component of a path on disk, and the explorer's listing. Search and listing: the listings by page
  number are single queries, and may shift between two pages as such listings do. The
  page: its views, favorites and the document reader. An answer of a view that was left can be
  drawn over the next view (app.js:631); nothing in the repository promises otherwise.
  Migrations: the tables, constraints and triggers are in the modules that use them, the
  one-time conversions are not.
* Not modelled: rankings (single read-only queries), favorites and hits (statements that are
  idempotent or atomic by themselves), describe_image.py (sequential, without state), and
  deployment, whose restart policy is used as fairness. Contents of files, wording, layout
  and logging are data that no property depends on.
* Worth adding: `Cascade` under the locks of Publish, that is, the order in which the two lock the job's
  row and the image's; the favorite buttons of a page, whose requests may overtake each
  other, and of which one that was drawn again since its click still adds its change to the count
  beside it (app.js:739, from reading alone); existingPath against a tree that changes.
* Worth proving: the scan with overlapping processes, for scopes that do not meet.
