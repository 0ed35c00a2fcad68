------------------------------ MODULE Inspector -------------------------------
(***************************************************************************)
(* The inspector of the page: a dialog that shows one image, with its      *)
(* comments and the images similar to it.  What it shows follows the hash  *)
(* of the location, which the page and the browser's history change, and   *)
(* the answers of requests that arrive late and in any order.              *)
(*                                                                         *)
(* Everything between two awaits is one step.  A hash is the view it names *)
(* and the image; an event that the browser has queued is counted.         *)
(***************************************************************************)
EXTENDS Naturals

CONSTANTS
    Views,       \* routes without their image
    Images,      \* ids of images
    NoImage,     \* no image in a hash, or in the inspector
    MaxAttempts, \* polls of a similarity index that is not ready: 5 in the source
    MaxClicks    \* bound: what the user does

ASSUME InspectorAssumption == NoImage \notin Images

VARIABLES
    hash,       \* location.hash
    opened,     \* the dialog is open
    request,    \* state.inspectorRequest
    generation, \* state.similarRequest
    inspected,  \* state.inspectorID
    openedAt,   \* state.inspectorHash
    body,       \* what #inspector-body shows, and of which image
    similar,    \* what #similar-body shows, and of which image
    timer,      \* what state.similarTimer will ask for: a set of at most one call
    calls,      \* requests to the API that are not answered yet
    events,     \* queued events, "close" and "hashchange"
    base,       \* state.baseRoute
    renders,    \* readRoutes that await the view's render, by the hash they began with
    clicks      \* what the user did so far

inspector_vars == <<hash, opened, request, generation, inspected, openedAt, body, similar,
                    timer, calls, events, base, renders, clicks>>

\* Changed by requests and answers alone; and by routes alone.
content == <<generation, body, similar, timer, calls>>
route == <<hash, events, base, renders, clicks>>

Hashes == [view : Views, image : Images \cup {NoImage}]
Nothing == [kind |-> "nothing", image |-> NoImage]

\* A request to the API: what it remembers of the time when it was sent, and for which
\* time it asks; saves are told apart by that number.
Call(kind, image, req, gen, attempt) ==
    [kind |-> kind, image |-> image, request |-> req, generation |-> gen, attempt |-> attempt]

InspectorInit ==
    /\ hash \in Hashes
    /\ opened = FALSE /\ request = 0 /\ generation = 0
    /\ inspected = NoImage /\ openedAt = {}
    /\ body = Nothing /\ similar = Nothing /\ timer = {} /\ calls = {}
    /\ events = [close |-> 0, hashchange |-> 1]
    /\ base = {}
    /\ renders = [h \in Hashes |-> 0]
    /\ clicks = 0

\* The user does something; MaxClicks bounds it.
Click == clicks < MaxClicks /\ clicks' = clicks + 1

Queue(event) == events' = [events EXCEPT ![event] = @ + 1]

------------------------------------------------------------------------------
\* Requests: cancelInspectorRequests, inspect, loadSimilar.

\* Bug: the requests of the image before are left to answer.
CancelTimerOnly == timer' = {} /\ UNCHANGED request

\* cancelInspectorRequests; the abort of the controller is the change of request.
CancelRequests == timer' = {} /\ request' = request + 1

\* inspect, up to its await, with the hash already written.
Inspect(i) ==
    /\ CancelRequests
    /\ inspected' = i /\ openedAt' = {hash'}
    /\ body' = [kind |-> "loading", image |-> i] /\ similar' = Nothing
    /\ opened' = TRUE
    /\ UNCHANGED generation
    /\ calls' = calls \cup {Call("item", i, request', generation, 0)}

\* loadSimilar, up to its await.
LoadSimilar(i, attempt, others) ==
    /\ generation' = generation + 1
    /\ calls' = others \cup {Call("similar", i, request, generation + 1, attempt)}
    /\ UNCHANGED request

\* The answer of c is still wanted (current).
Current(c) == opened /\ c.request = request

\* Bug: an answer counts although another one was asked for since.
CurrentWhenever(c) == Current(c)

\* Of the answers for similar images only the one that was asked for last is.
CurrentSimilar(c) == Current(c) /\ c.generation = generation

\* An answer that nobody wants any more, or an abort.
Ignore(c) ==
    /\ c \in calls
    /\ ~ Current(c) \/ (c.kind = "similar" /\ ~ CurrentSimilar(c))
    /\ calls' = calls \ {c}
    /\ UNCHANGED <<opened, request, generation, inspected, openedAt, body, similar, timer, route>>

ItemArrives(c) ==
    /\ c \in calls /\ c.kind = "item" /\ Current(c)
    /\ body' = [kind |-> "item", image |-> c.image]
    /\ similar' = [kind |-> "finding", image |-> c.image]
    /\ LoadSimilar(c.image, 0, calls \ {c})
    /\ UNCHANGED <<opened, inspected, openedAt, timer, route>>

ItemFails(c) ==
    /\ c \in calls /\ c.kind = "item" /\ Current(c)
    /\ body' = [kind |-> "failed", image |-> c.image]
    /\ calls' = calls \ {c}
    /\ UNCHANGED <<opened, request, generation, inspected, openedAt, similar, timer, route>>

\* The images, or a button that asks again; while the index is being built, a timer too.
SimilarArrives(c) ==
    /\ c \in calls /\ c.kind = "similar" /\ CurrentSimilar(c)
    /\ calls' = calls \ {c}
    /\ \/ similar' = [kind |-> "images", image |-> c.image] /\ UNCHANGED timer
       \/ /\ similar' = [kind |-> "button", image |-> c.image]
          /\ \/ UNCHANGED timer
             \/ /\ c.attempt < MaxAttempts
                /\ timer' = {[c EXCEPT !.attempt = @ + 1]}
    /\ UNCHANGED <<opened, request, generation, inspected, openedAt, body, route>>

TimerFires ==
    \E c \in timer :
        /\ timer' = {}
        /\ LoadSimilar(c.image, c.attempt, calls)
        /\ UNCHANGED <<opened, inspected, openedAt, body, similar, route>>

\* The metadata or a comment was saved, of the image that is still inspected.
Saved(c) ==
    /\ c \in calls /\ c.kind = "save" /\ Current(c)
    /\ timer' = {}
    /\ LoadSimilar(c.image, 0, calls \ {c})
    /\ UNCHANGED <<opened, inspected, openedAt, body, similar, route>>

SaveFails(c) ==
    /\ c \in calls /\ c.kind = "save" /\ Current(c)
    /\ calls' = calls \ {c}
    /\ UNCHANGED <<opened, request, generation, inspected, openedAt, body, similar, timer, route>>

------------------------------------------------------------------------------
\* What the user does.

\* openImage: of the view, of the similar images, again after a failure, or when the
\* answer to a click on a file arrives, which may be while the dialog is open.
OpenImage(i) ==
    /\ Click
    /\ base # {}
    /\ hash' = [hash EXCEPT !.image = i]
    /\ Inspect(i)
    /\ UNCHANGED <<events, base, renders>>

\* One of the two forms of the inspector is submitted.
Save ==
    /\ Click
    /\ opened /\ body.kind = "item"
    /\ calls' = calls \cup {Call("save", body.image, request, 0, clicks)}
    /\ UNCHANGED <<opened, request, generation, inspected, openedAt, body, similar, timer,
                   hash, events, base, renders>>

\* The button of #similar-body.
Refresh ==
    /\ Click
    /\ opened /\ similar.kind = "button"
    /\ timer' = {}
    /\ LoadSimilar(similar.image, 0, calls)
    /\ UNCHANGED <<opened, inspected, openedAt, body, similar, hash, events, base, renders>>

\* The close box, the backdrop or the Escape key.
Close ==
    /\ Click
    /\ opened
    /\ opened' = FALSE
    /\ Queue("close")
    /\ UNCHANGED <<content, request, inspected, openedAt, hash, base, renders>>

\* Back, forward, a link or a search: the hash changes, and the page hears of it later.
Navigate(h) ==
    /\ Click
    /\ h # hash
    /\ hash' = h
    /\ Queue("hashchange")
    /\ UNCHANGED <<content, opened, request, inspected, openedAt, base, renders>>

\* pagehide; the page may be shown again as it was left.
Hide ==
    /\ Click
    /\ CancelRequests
    /\ body' = Nothing /\ similar' = Nothing
    /\ UNCHANGED <<opened, generation, inspected, openedAt, calls, hash, events, base, renders>>

------------------------------------------------------------------------------
\* Events.

\* Bug: a close event of before closes the inspector that was opened since.
CloseEventAlways(reopened) == TRUE

\* The inspector may have been opened again since it was closed.
CloseEventCounts(reopened) == ~ reopened

\* The handler of "close".
Closed ==
    /\ events.close > 0
    /\ events' = [events EXCEPT !.close = @ - 1]
    /\ IF CloseEventCounts(opened)
       THEN /\ CancelRequests
            /\ body' = Nothing /\ similar' = Nothing
            /\ inspected' = NoImage /\ openedAt' = {}
            /\ hash' = IF hash \in openedAt THEN [hash EXCEPT !.image = NoImage] ELSE hash
       ELSE UNCHANGED <<request, timer, body, similar, inspected, openedAt, hash>>
    /\ UNCHANGED <<opened, generation, calls, base, renders, clicks>>

\* The part of readRoute before the render: a hash without image closes the inspector.
CloseForRoute ==
    IF opened /\ hash.image = NoImage
    THEN /\ CancelRequests
         /\ opened' = FALSE
         /\ events' = [events EXCEPT !.hashchange = @ - 1, !.close = @ + 1]
    ELSE /\ events' = [events EXCEPT !.hashchange = @ - 1]
         /\ UNCHANGED <<opened, request, timer>>

\* readRoute: the view must be rendered first.
RouteOfOtherView ==
    /\ events.hashchange > 0
    /\ hash.view \notin base
    /\ CloseForRoute
    /\ base' = {hash.view}
    /\ renders' = [renders EXCEPT ![hash] = @ + 1]
    /\ UNCHANGED <<generation, body, similar, calls, inspected, openedAt, hash, clicks>>

\* readRoute: the view is there, and so may be an image.
RouteOfSameView ==
    /\ events.hashchange > 0
    /\ hash.view \in base
    /\ IF hash.image = NoImage
       THEN /\ CloseForRoute
            /\ UNCHANGED <<generation, body, similar, calls, inspected, openedAt, hash>>
       ELSE /\ events' = [events EXCEPT !.hashchange = @ - 1]
            /\ UNCHANGED hash
            /\ Inspect(hash.image)
    /\ UNCHANGED <<base, renders, clicks>>

\* The rest of readRoute after the render.
Wanted(h) == h = hash /\ h.image # NoImage

Rendered(h) ==
    /\ renders[h] > 0
    /\ renders' = [renders EXCEPT ![h] = @ - 1]
    /\ UNCHANGED hash
    /\ IF Wanted(h)
       THEN Inspect(h.image)
       ELSE UNCHANGED <<content, opened, request, inspected, openedAt>>
    /\ UNCHANGED <<events, base, clicks>>

Answer(c) ==
    \/ Ignore(c)
    \/ ItemArrives(c) \/ ItemFails(c)
    \/ SimilarArrives(c)
    \/ Saved(c) \/ SaveFails(c)

User ==
    \/ \E i \in Images : OpenImage(i)
    \/ Save \/ Refresh \/ Close \/ Hide
    \/ \E h \in Hashes : Navigate(h)

Event == Closed \/ RouteOfOtherView \/ RouteOfSameView \/ \E h \in Hashes : Rendered(h)

InspectorNext == User \/ Event \/ TimerFires \/ \E c \in calls : Answer(c)

InspectorSpec == InspectorInit /\ [][InspectorNext]_inspector_vars

------------------------------------------------------------------------------
\* Properties.

\* An open inspector shows nothing of another image than the one it was last opened
\* for, neither its data nor what is similar to it, whichever answers arrive late
\* (inspect, loadSimilar).
InspectorShowsWanted ==
    opened => body.image \in {inspected, NoImage} /\ similar.image \in {inspected, NoImage}

\* Once all events are handled and all views rendered, the inspector is open if and
\* only if the hash names an image, and it is that image (openImage, readRoute and the
\* handler of "close").
RouteIsShown ==
    events = [close |-> 0, hashchange |-> 0] /\ (\A h \in Hashes : renders[h] = 0) =>
        /\ opened <=> hash.image # NoImage
        /\ opened => inspected = hash.image

\* Of the answers for similar images only the one is drawn, or lets a timer start, that was
\* asked for last: a save, the timer and the button may ask again while earlier requests are
\* under way, however long these take; and no timer is left to ask beside it (loadSimilar).
SimilarInOrder ==
    [][\A c \in calls \ calls' :
          c.kind = "similar" /\ <<similar, timer>>' # <<similar, timer>> =>
              /\ \A d \in calls \ {c} : d.kind = "similar" => d.generation < c.generation
              /\ c.generation = generation /\ timer = {}]_inspector_vars
==============================================================================
