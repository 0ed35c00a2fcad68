---------------------------- MODULE InspectorProofs ----------------------------
(***************************************************************************)
(* Proofs about Inspector, for any views and images, any number of polls   *)
(* and anything that the user does.                                        *)
(*                                                                         *)
(* Every opening of the inspector takes a new number, so that a request of *)
(* the present number is for the image inspected (RequestsOfInspected).    *)
(* While the image itself is awaited nothing else of that number is under  *)
(* way, and requests for similar images have generations of their own,     *)
(* the present one only if no timer waits (PollsApart).  A hash whose      *)
(* events are handled is shown, or about to be taken back by a close event *)
(* (HashFollowed).                                                         *)
(***************************************************************************)
EXTENDS Inspector, TLAPS

ImageOrNone == Images \cup {NoImage}

Calls == [kind : {"item", "similar", "save"}, image : ImageOrNone, request : Nat,
          generation : Nat, attempt : Nat]

Shown == [kind : {"nothing", "loading", "item", "failed", "finding", "images", "button"},
          image : ImageOrNone]

RequestsTyped ==
    /\ request \in Nat /\ generation \in Nat
    /\ inspected \in ImageOrNone
    /\ body \in Shown /\ similar \in Shown
    /\ calls \subseteq Calls /\ timer \subseteq Calls
    /\ clicks \in Nat

RoutesTyped ==
    /\ hash \in Hashes
    /\ opened \in BOOLEAN
    /\ openedAt \subseteq Hashes
    /\ events \in [{"close", "hashchange"} -> Nat]
    /\ renders \in [Hashes -> Nat]

Typed == RequestsTyped /\ RoutesTyped

\* What is asked for under the present number is for the image inspected.
RequestsOfInspected ==
    /\ \A c \in calls :
           c.request <= request /\ (opened /\ c.request = request => c.image = inspected)
    /\ opened => \A c \in timer : c.image = inspected
    /\ opened /\ body.kind = "item" => body.image = inspected
    /\ opened /\ similar.kind = "button" => similar.image = inspected

\* The image c itself is awaited, and nothing else.
OnlyAwaited(c) ==
    /\ timer = {} /\ body.kind # "item" /\ similar.kind # "button"
    /\ \A d \in calls : d.request = request => d = c

\* Polls have generations of their own, and a timer waits alone.
PollsApart ==
    /\ \A c \in calls : c.request = request /\ c.kind = "item" => OnlyAwaited(c)
    /\ \A c \in calls : c.kind = "similar" => c.generation <= generation
    /\ \A c, d \in calls :
           c.kind = "similar" /\ d.kind = "similar" /\ c.generation = d.generation => c = d
    /\ \A c, d \in timer : c = d
    /\ timer # {} => \A c \in calls : c.kind = "similar" => c.generation # generation

\* Once the page has heard of a hash and rendered its view, the inspector is closed if it
\* names no image, and otherwise open for it, or a close event will take the image back.
HashFollowed ==
    events.hashchange = 0 =>
        /\ hash.image = NoImage => ~ opened
        /\ hash.image # NoImage /\ renders[hash] = 0 =>
              /\ hash \in openedAt
              /\ opened => inspected = hash.image
              /\ ~ opened => events.close > 0

------------------------------------------------------------------------------
\* An image that a hash names.
LEMMA HashNames ==
    ASSUME RoutesTyped, hash.image # NoImage
    PROVE  hash.image \in Images /\ NoImage \notin Images
BY InspectorAssumption DEF RoutesTyped, Hashes

\* The handling of one hashchange event, which may close the inspector.
LEMMA EventTaken ==
    ASSUME RoutesTyped, events.hashchange > 0,
           \/ events' = [events EXCEPT !.hashchange = @ - 1, !.close = @ + 1]
           \/ events' = [events EXCEPT !.hashchange = @ - 1]
    PROVE  events' \in [{"close", "hashchange"} -> Nat]
<1>1. /\ events \in [{"close", "hashchange"} -> Nat]
      /\ events.hashchange - 1 \in Nat /\ events.close + 1 \in Nat
    BY DEF RoutesTyped
<1>2. CASE events' = [events EXCEPT !.hashchange = @ - 1, !.close = @ + 1]
    BY <1>1, <1>2
<1>3. CASE events' = [events EXCEPT !.hashchange = @ - 1]
    BY <1>1, <1>3
<1> QED
    BY <1>2, <1>3

\* What inspect leaves behind has its type.
LEMMA InspectTyped ==
    ASSUME RequestsTyped, NEW i \in Images, Inspect(i), clicks' \in Nat
    PROVE  RequestsTyped'
<1> USE DEF RequestsTyped, Inspect, CancelRequests, ImageOrNone
<1>1. request' \in Nat /\ generation' \in Nat /\ inspected' \in ImageOrNone
    OBVIOUS
<1>2. body' \in Shown /\ similar' \in Shown
    BY DEF Shown, Nothing
<1>3. Call("item", i, request', generation, 0) \in Calls
    BY <1>1 DEF Call, Calls
<1>4. calls' \subseteq Calls /\ timer' \subseteq Calls
    BY <1>3
<1> QED
    BY <1>1, <1>2, <1>4

\* Of what it opens, the inspector awaits the image alone, under a new number.
LEMMA InspectApart ==
    ASSUME Typed, RequestsOfInspected, PollsApart, NEW i \in Images, Inspect(i)
    PROVE  /\ RequestsOfInspected' /\ InspectorShowsWanted' /\ PollsApart'
<1> DEFINE new == Call("item", i, request', generation, 0)
<1> USE DEF Typed, RequestsTyped, Inspect, CancelRequests
<1>1. /\ request' = request + 1 /\ request \in Nat /\ generation' = generation
      /\ calls' = calls \cup {new} /\ timer' = {} /\ inspected' = i
      /\ body'.kind = "loading" /\ body'.image = i /\ similar'.kind = "nothing"
      /\ similar'.image = NoImage
    BY DEF Nothing
<1>2. /\ new.kind = "item" /\ new.image = i /\ new.request = request'
    BY DEF Call
<1>3. \A c \in calls : c.request \in Nat /\ c.request <= request /\ c.request # request'
    BY <1>1 DEF RequestsOfInspected, Calls
<1> HIDE DEF new
<1>4. RequestsOfInspected'
    BY <1>1, <1>2, <1>3 DEF RequestsOfInspected
<1>5. InspectorShowsWanted'
    BY <1>1 DEF InspectorShowsWanted
<1>6. /\ timer' = {} /\ body'.kind # "item" /\ similar'.kind # "button"
      /\ \A d \in calls' : d.request = request' => d = new
    BY <1>1, <1>2, <1>3
<1>7. PollsApart'
    BY <1>1, <1>2, <1>3, <1>6 DEF PollsApart, OnlyAwaited
<1> QED
    BY <1>4, <1>5, <1>7

\* Requests and what is shown keep their types.
LEMMA RequestsTypedNext ==
    ASSUME Typed, [InspectorNext]_inspector_vars
    PROVE  RequestsTyped'
<1> USE DEF Typed, RequestsTyped, RoutesTyped, Hashes, ImageOrNone, Calls, Shown
<1>1. ASSUME NEW i \in Images, OpenImage(i) PROVE RequestsTyped'
    BY <1>1, InspectTyped DEF OpenImage, Click
<1>2. ASSUME Save PROVE RequestsTyped'
  <2>1. Call("save", body.image, request, 0, clicks) \in Calls
      BY DEF Call
  <2> QED
      BY <1>2, <2>1 DEF Save, Click
<1>3. ASSUME Refresh PROVE RequestsTyped'
  <2>1. Call("similar", similar.image, request, generation + 1, 0) \in Calls
      BY DEF Call
  <2> QED
      BY <1>3, <2>1 DEF Refresh, LoadSimilar, Click
<1>4. ASSUME Close PROVE RequestsTyped'
    BY <1>4 DEF Close, Queue, content, Click
<1>5. ASSUME Hide PROVE RequestsTyped'
    BY <1>5 DEF Hide, CancelRequests, Nothing, Click
<1>6. ASSUME NEW h \in Hashes, Navigate(h) PROVE RequestsTyped'
    BY <1>6 DEF Navigate, Queue, content, Click
<1>7. ASSUME Closed PROVE RequestsTyped'
    BY <1>7 DEF Closed, CloseEventCounts, CancelRequests, Nothing
<1>8. ASSUME RouteOfOtherView PROVE RequestsTyped'
    BY <1>8 DEF RouteOfOtherView, CloseForRoute, CancelRequests
<1>9. ASSUME RouteOfSameView PROVE RequestsTyped'
  <2>1. CASE hash.image = NoImage
      BY <1>9, <2>1 DEF RouteOfSameView, CloseForRoute, CancelRequests
  <2>2. CASE hash.image # NoImage
      BY <1>9, <2>2, HashNames, InspectTyped DEF RouteOfSameView
  <2> QED
      BY <2>1, <2>2
<1>10. ASSUME NEW h \in Hashes, Rendered(h) PROVE RequestsTyped'
  <2>1. CASE Wanted(h)
      BY <1>10, <2>1, HashNames, InspectTyped DEF Rendered, Wanted
  <2>2. CASE ~ Wanted(h)
      BY <1>10, <2>2 DEF Rendered, content
  <2> QED
      BY <2>1, <2>2
<1>11. ASSUME TimerFires PROVE RequestsTyped'
    BY <1>11 DEF TimerFires, LoadSimilar, Call, route
<1>12. ASSUME NEW c \in calls, Ignore(c) PROVE RequestsTyped'
    BY <1>12 DEF Ignore, route
<1>13. ASSUME NEW c \in calls, ItemArrives(c) PROVE RequestsTyped'
    BY <1>13 DEF ItemArrives, Current, LoadSimilar, Call, route
<1>14. ASSUME NEW c \in calls, ItemFails(c) PROVE RequestsTyped'
    BY <1>14 DEF ItemFails, Current, route
<1>15. ASSUME NEW c \in calls, SimilarArrives(c) PROVE RequestsTyped'
    BY <1>15 DEF SimilarArrives, CurrentSimilar, Current, route
<1>16. ASSUME NEW c \in calls, Saved(c) PROVE RequestsTyped'
    BY <1>16 DEF Saved, Current, LoadSimilar, Call, route
<1>17. ASSUME NEW c \in calls, SaveFails(c) PROVE RequestsTyped'
    BY <1>17 DEF SaveFails, Current, route
<1>18. CASE UNCHANGED inspector_vars
    BY <1>18 DEF inspector_vars
<1> QED
    BY <1>1, <1>2, <1>3, <1>4, <1>5, <1>6, <1>7, <1>8, <1>9, <1>10, <1>11, <1>12,
       <1>13, <1>14, <1>15, <1>16, <1>17, <1>18
    DEF InspectorNext, User, Event, Answer

\* Routes and events keep their types.
LEMMA RoutesTypedNext ==
    ASSUME Typed, [InspectorNext]_inspector_vars
    PROVE  RoutesTyped'
<1> USE DEF Typed, RoutesTyped
<1>1. ASSUME NEW i \in Images, OpenImage(i) PROVE RoutesTyped'
  <2>1. hash' \in Hashes
      BY <1>1 DEF OpenImage, Hashes
  <2> QED
      BY <1>1, <2>1 DEF OpenImage, Inspect
<1>2. ASSUME Close PROVE RoutesTyped'
  <2>1. events' \in [{"close", "hashchange"} -> Nat]
      BY <1>2 DEF Close, Queue
  <2> QED
      BY <1>2, <2>1 DEF Close
<1>3. ASSUME NEW h \in Hashes, Navigate(h) PROVE RoutesTyped'
  <2>1. events' \in [{"close", "hashchange"} -> Nat]
      BY <1>3 DEF Navigate, Queue
  <2> QED
      BY <1>3, <2>1 DEF Navigate
<1>4. ASSUME Closed PROVE RoutesTyped'
  <2>1. events' \in [{"close", "hashchange"} -> Nat]
      BY <1>4 DEF Closed
  <2>2. [hash EXCEPT !.image = NoImage] \in Hashes
      BY DEF Hashes
  <2> QED
      BY <1>4, <2>1, <2>2 DEF Closed
<1>5. ASSUME RouteOfOtherView PROVE RoutesTyped'
  <2>1. events' \in [{"close", "hashchange"} -> Nat]
      BY <1>5, EventTaken DEF RouteOfOtherView, CloseForRoute
  <2>2. renders' \in [Hashes -> Nat]
      BY <1>5 DEF RouteOfOtherView
  <2> QED
      BY <1>5, <2>1, <2>2 DEF RouteOfOtherView, CloseForRoute
<1>6. ASSUME RouteOfSameView PROVE RoutesTyped'
  <2>1. events' \in [{"close", "hashchange"} -> Nat]
      BY <1>6, EventTaken DEF RouteOfSameView, CloseForRoute
  <2> QED
      BY <1>6, <2>1 DEF RouteOfSameView, CloseForRoute, Inspect
<1>7. ASSUME NEW h \in Hashes, Rendered(h) PROVE RoutesTyped'
  <2>1. renders' \in [Hashes -> Nat]
      BY <1>7 DEF Rendered
  <2> QED
      BY <1>7, <2>1 DEF Rendered, Inspect
<1>8. CASE UNCHANGED <<hash, opened, openedAt, events, renders>>
    BY <1>8
<1> QED
    BY <1>1, <1>2, <1>3, <1>4, <1>5, <1>6, <1>7, <1>8
    DEF InspectorNext, User, Event, Answer, inspector_vars, Save, Refresh, Hide,
        TimerFires, Ignore, ItemArrives, ItemFails, SimilarArrives, Saved,
        SaveFails, content, route

------------------------------------------------------------------------------
\* What is shown.

\* A new opening has a new number, and answers are taken for the present number only.
LEMMA RequestsOfInspectedNext ==
    ASSUME Typed, RequestsOfInspected, InspectorShowsWanted, PollsApart, [InspectorNext]_inspector_vars
    PROVE  (RequestsOfInspected /\ InspectorShowsWanted)'
<1> USE DEF Typed, RequestsTyped, RoutesTyped, Hashes, ImageOrNone, Calls, Shown,
        RequestsOfInspected, InspectorShowsWanted
<1>1. ASSUME NEW i \in Images, OpenImage(i) PROVE (RequestsOfInspected /\ InspectorShowsWanted)'
    BY <1>1, InspectApart DEF OpenImage
<1>2. ASSUME Save PROVE (RequestsOfInspected /\ InspectorShowsWanted)'
    BY <1>2 DEF Save, Call, Click
<1>3. ASSUME Refresh PROVE (RequestsOfInspected /\ InspectorShowsWanted)'
    BY <1>3 DEF Refresh, LoadSimilar, Call, Click
<1>4. ASSUME Close PROVE (RequestsOfInspected /\ InspectorShowsWanted)'
    BY <1>4 DEF Close, Queue, content, Click
<1>5. ASSUME Hide PROVE (RequestsOfInspected /\ InspectorShowsWanted)'
    BY <1>5 DEF Hide, CancelRequests, Nothing, Click
<1>6. ASSUME NEW h \in Hashes, Navigate(h) PROVE (RequestsOfInspected /\ InspectorShowsWanted)'
    BY <1>6 DEF Navigate, Queue, content, Click
<1>7. ASSUME Closed PROVE (RequestsOfInspected /\ InspectorShowsWanted)'
    BY <1>7 DEF Closed, CloseEventCounts, CancelRequests, Nothing
<1>8. ASSUME RouteOfOtherView PROVE (RequestsOfInspected /\ InspectorShowsWanted)'
    BY <1>8 DEF RouteOfOtherView, CloseForRoute, CancelRequests
<1>9. ASSUME RouteOfSameView PROVE (RequestsOfInspected /\ InspectorShowsWanted)'
  <2>1. CASE hash.image = NoImage
      BY <1>9, <2>1 DEF RouteOfSameView, CloseForRoute, CancelRequests
  <2>2. CASE hash.image # NoImage
      BY <1>9, <2>2, HashNames, InspectApart DEF RouteOfSameView
  <2> QED
      BY <2>1, <2>2
<1>10. ASSUME NEW h \in Hashes, Rendered(h) PROVE (RequestsOfInspected /\ InspectorShowsWanted)'
  <2>1. CASE Wanted(h)
      BY <1>10, <2>1, HashNames, InspectApart DEF Rendered, Wanted
  <2>2. CASE ~ Wanted(h)
      BY <1>10, <2>2 DEF Rendered, content
  <2> QED
      BY <2>1, <2>2
<1>11. ASSUME TimerFires PROVE (RequestsOfInspected /\ InspectorShowsWanted)'
    BY <1>11 DEF TimerFires, LoadSimilar, Call, route
<1>12. ASSUME NEW c \in calls, Ignore(c) PROVE (RequestsOfInspected /\ InspectorShowsWanted)'
    BY <1>12 DEF Ignore, route
<1>13. ASSUME NEW c \in calls, ItemArrives(c) PROVE (RequestsOfInspected /\ InspectorShowsWanted)'
    BY <1>13 DEF ItemArrives, Current, LoadSimilar, Call, route
<1>14. ASSUME NEW c \in calls, ItemFails(c) PROVE (RequestsOfInspected /\ InspectorShowsWanted)'
    BY <1>14 DEF ItemFails, Current, route
<1>15. ASSUME NEW c \in calls, SimilarArrives(c) PROVE (RequestsOfInspected /\ InspectorShowsWanted)'
    BY <1>15 DEF SimilarArrives, CurrentSimilar, Current, route
<1>16. ASSUME NEW c \in calls, Saved(c) PROVE (RequestsOfInspected /\ InspectorShowsWanted)'
    BY <1>16 DEF Saved, Current, LoadSimilar, Call, route
<1>17. ASSUME NEW c \in calls, SaveFails(c) PROVE (RequestsOfInspected /\ InspectorShowsWanted)'
    BY <1>17 DEF SaveFails, Current, route
<1>18. CASE UNCHANGED inspector_vars
    BY <1>18 DEF inspector_vars
<1> QED
    BY <1>1, <1>2, <1>3, <1>4, <1>5, <1>6, <1>7, <1>8, <1>9, <1>10, <1>11, <1>12,
       <1>13, <1>14, <1>15, <1>16, <1>17, <1>18
    DEF InspectorNext, User, Event, Answer

------------------------------------------------------------------------------
\* Polls.

\* Whoever polls raises the generation and drops the timer, or was the timer.
LEMMA PollsApartNext ==
    ASSUME Typed, RequestsOfInspected, PollsApart, [InspectorNext]_inspector_vars
    PROVE  PollsApart'
<1> USE DEF Typed, RequestsTyped, ImageOrNone, Calls, Shown, RequestsOfInspected,
        PollsApart, OnlyAwaited
<1>1. ASSUME NEW i \in Images, OpenImage(i) PROVE PollsApart'
    BY <1>1, InspectApart DEF OpenImage
<1>2. ASSUME Save PROVE PollsApart'
    BY <1>2 DEF Save, Call, Click
<1>3. ASSUME Refresh PROVE PollsApart'
    BY <1>3 DEF Refresh, LoadSimilar, Call, Click
<1>4. ASSUME Close PROVE PollsApart'
    BY <1>4 DEF Close, Queue, content, Click
<1>5. ASSUME Hide PROVE PollsApart'
    BY <1>5 DEF Hide, CancelRequests, Nothing, Click
<1>6. ASSUME NEW h \in Hashes, Navigate(h) PROVE PollsApart'
    BY <1>6 DEF Navigate, Queue, content, Click
<1>7. ASSUME Closed PROVE PollsApart'
    BY <1>7 DEF Closed, CloseEventCounts, CancelRequests, Nothing
<1>8. ASSUME RouteOfOtherView PROVE PollsApart'
    BY <1>8 DEF RouteOfOtherView, CloseForRoute, CancelRequests
<1>9. ASSUME RouteOfSameView PROVE PollsApart'
  <2>1. CASE hash.image = NoImage
      BY <1>9, <2>1 DEF RouteOfSameView, CloseForRoute, CancelRequests
  <2>2. CASE hash.image # NoImage
      BY <1>9, <2>2, HashNames, InspectApart DEF RouteOfSameView
  <2> QED
      BY <2>1, <2>2
<1>10. ASSUME NEW h \in Hashes, Rendered(h) PROVE PollsApart'
  <2>1. CASE Wanted(h)
      BY <1>10, <2>1, HashNames, InspectApart DEF Rendered, Wanted
  <2>2. CASE ~ Wanted(h)
      BY <1>10, <2>2 DEF Rendered, content
  <2> QED
      BY <2>1, <2>2
<1>11. ASSUME TimerFires PROVE PollsApart'
    BY <1>11 DEF TimerFires, LoadSimilar, Call, route
<1>12. ASSUME NEW c \in calls, Ignore(c) PROVE PollsApart'
    BY <1>12 DEF Ignore, route
<1>13. ASSUME NEW c \in calls, ItemArrives(c) PROVE PollsApart'
    BY <1>13 DEF ItemArrives, Current, LoadSimilar, Call, route
<1>14. ASSUME NEW c \in calls, ItemFails(c) PROVE PollsApart'
    BY <1>14 DEF ItemFails, Current, route
<1>15. ASSUME NEW c \in calls, SimilarArrives(c) PROVE PollsApart'
    BY <1>15 DEF SimilarArrives, CurrentSimilar, Current, route
<1>16. ASSUME NEW c \in calls, Saved(c) PROVE PollsApart'
    BY <1>16 DEF Saved, Current, LoadSimilar, Call, route
<1>17. ASSUME NEW c \in calls, SaveFails(c) PROVE PollsApart'
    BY <1>17 DEF SaveFails, Current, route
<1>18. CASE UNCHANGED inspector_vars
    BY <1>18 DEF inspector_vars
<1> QED
    BY <1>1, <1>2, <1>3, <1>4, <1>5, <1>6, <1>7, <1>8, <1>9, <1>10, <1>11, <1>12,
       <1>13, <1>14, <1>15, <1>16, <1>17, <1>18
    DEF InspectorNext, User, Event, Answer

\* A step that draws an answer for similar images, or starts a timer, is the arrival of the
\* one asked for last.
LEMMA DrawnInOrder ==
    ASSUME RequestsTyped, PollsApart, [InspectorNext]_inspector_vars,
           NEW c \in calls \ calls', c.kind = "similar",
           <<similar, timer>>' # <<similar, timer>>
    PROVE  /\ \A d \in calls \ {c} : d.kind = "similar" => d.generation < c.generation
           /\ c.generation = generation /\ timer = {}
<1>1. \A d \in calls : d.generation \in Nat
    BY DEF RequestsTyped, Calls
<1>2. SimilarArrives(c)
  <2>1. ASSUME NEW i \in Images, OpenImage(i) PROVE FALSE
      BY <2>1 DEF OpenImage, Inspect
  <2>2. ASSUME NEW h \in Hashes, Rendered(h) PROVE FALSE
      BY <2>2 DEF Rendered, Inspect, content
  <2>3. ASSUME RouteOfSameView PROVE FALSE
      BY <2>3 DEF RouteOfSameView, CloseForRoute, Inspect
  <2>4. ASSUME RouteOfOtherView PROVE FALSE
      BY <2>4 DEF RouteOfOtherView
  <2>5. ASSUME Save \/ Refresh \/ TimerFires PROVE FALSE
      BY <2>5 DEF Save, Refresh, TimerFires, LoadSimilar
  <2>6. ASSUME Close \/ Hide \/ Closed PROVE FALSE
      BY <2>6 DEF Close, Hide, Closed, content
  <2>7. ASSUME NEW h \in Hashes, Navigate(h) PROVE FALSE
      BY <2>7 DEF Navigate, content
  <2>8. ASSUME NEW d \in calls, Ignore(d) PROVE FALSE
      BY <2>8 DEF Ignore
  <2>9. ASSUME NEW d \in calls, ItemArrives(d) \/ Saved(d) PROVE FALSE
      BY <2>9 DEF ItemArrives, Saved, LoadSimilar
  <2>10. ASSUME NEW d \in calls, ItemFails(d) \/ SaveFails(d) PROVE FALSE
      BY <2>10 DEF ItemFails, SaveFails
  <2>11. ASSUME NEW d \in calls, SimilarArrives(d) PROVE d = c
      BY <2>11 DEF SimilarArrives
  <2>12. CASE UNCHANGED inspector_vars
      BY <2>12 DEF inspector_vars
  <2> QED
      BY <2>1, <2>2, <2>3, <2>4, <2>5, <2>6, <2>7, <2>8, <2>9, <2>10, <2>11, <2>12
      DEF InspectorNext, User, Event, Answer
<1>3. c.generation = generation
    BY <1>2 DEF SimilarArrives, CurrentSimilar
<1>4. timer = {}
    BY <1>3 DEF PollsApart
<1>5. ASSUME NEW d \in calls \ {c}, d.kind = "similar" PROVE d.generation < c.generation
  <2>1. d.generation <= generation /\ d.generation # c.generation
      BY <1>5 DEF PollsApart
  <2> QED
      BY <1>1, <1>3, <2>1 DEF RequestsTyped
<1> QED
    BY <1>3, <1>4, <1>5

------------------------------------------------------------------------------
\* Routes.

\* Whoever changes the hash opens the inspector for it, closes it, or queues an event.
LEMMA HashFollowedNext ==
    ASSUME Typed, HashFollowed, [InspectorNext]_inspector_vars
    PROVE  HashFollowed'
<1> USE DEF Typed, RoutesTyped, Hashes, HashFollowed
<1>1. ASSUME NEW i \in Images, OpenImage(i) PROVE HashFollowed'
  <2>1. /\ hash'.image = i /\ i # NoImage /\ hash' \in openedAt' /\ inspected' = i
        /\ opened' = TRUE
      BY <1>1, InspectorAssumption DEF OpenImage, Inspect
  <2> QED
      BY <2>1
<1>2. ASSUME Close PROVE HashFollowed'
    BY <1>2 DEF Close, Queue, content, Click
<1>3. ASSUME NEW h \in Hashes, Navigate(h) PROVE HashFollowed'
    BY <1>3 DEF Navigate, Queue, content, Click
<1>4. ASSUME Closed PROVE HashFollowed'
    BY <1>4 DEF Closed, CloseEventCounts, CancelRequests, Nothing
<1>5. ASSUME RouteOfOtherView PROVE HashFollowed'
  <2> HIDE DEF Hashes, HashFollowed
  <2>1. renders'[hash'] # 0
      BY <1>5 DEF RouteOfOtherView
  <2> USE DEF HashFollowed
  <2>2. hash' = hash /\ (hash.image = NoImage => ~ opened')
      BY <1>5 DEF RouteOfOtherView, CloseForRoute
  <2> QED
      BY <2>1, <2>2
<1>6. ASSUME RouteOfSameView PROVE HashFollowed'
    BY <1>6 DEF RouteOfSameView, CloseForRoute, Inspect, CancelRequests, Call
<1>7. ASSUME NEW h \in Hashes, Rendered(h) PROVE HashFollowed'
    BY <1>7 DEF Rendered, Wanted, Inspect, CancelRequests, Call, content
<1>8. CASE UNCHANGED <<hash, opened, openedAt, events, renders, inspected>>
    BY <1>8
<1> QED
    BY <1>1, <1>2, <1>3, <1>4, <1>5, <1>6, <1>7, <1>8
    DEF InspectorNext, User, Event, Answer, inspector_vars, Save, Refresh, Hide,
        TimerFires, Ignore, ItemArrives, ItemFails, SimilarArrives, Saved,
        SaveFails, content, route

------------------------------------------------------------------------------
\* The invariant.

IInv == Typed /\ RequestsOfInspected /\ InspectorShowsWanted /\ PollsApart

\* The strengthened invariant holds initially and is kept, so it holds always.
LEMMA Invariant == InspectorSpec => []IInv
<1>1. InspectorInit => IInv
  <2> SUFFICES ASSUME InspectorInit PROVE IInv
      OBVIOUS
  <2> USE DEF InspectorInit, Nothing
  <2>1. RequestsTyped
      BY DEF RequestsTyped, ImageOrNone, Shown
  <2>2. RoutesTyped
    <3>1. events \in [{"close", "hashchange"} -> Nat]
        OBVIOUS
    <3>2. renders \in [Hashes -> Nat]
        OBVIOUS
    <3> QED
        BY <3>1, <3>2 DEF RoutesTyped
  <2>3. RequestsOfInspected /\ InspectorShowsWanted /\ PollsApart
      BY DEF RequestsOfInspected, InspectorShowsWanted, PollsApart
  <2> QED
      BY <2>1, <2>2, <2>3 DEF IInv, Typed
<1>2. IInv /\ [InspectorNext]_inspector_vars => IInv'
    BY RequestsTypedNext, RoutesTypedNext, RequestsOfInspectedNext, PollsApartNext
    DEF IInv, Typed
<1> QED
    BY <1>1, <1>2, PTL DEF InspectorSpec

\* An open inspector shows nothing of another image than the one it was last opened for
\* (inspect, loadSimilar).
THEOREM WantedIsShown == InspectorSpec => []InspectorShowsWanted
<1>1. IInv => InspectorShowsWanted
    BY DEF IInv
<1> QED
    BY Invariant, <1>1, PTL

\* However many requests for similar images are under way, only the answer of the last one
\* is drawn or starts a timer, and no timer waits beside it (loadSimilar).
THEOREM PollsInOrder == InspectorSpec => SimilarInOrder
<1> DEFINE Step ==
        \A c \in calls \ calls' :
            c.kind = "similar" /\ <<similar, timer>>' # <<similar, timer>> =>
                /\ \A d \in calls \ {c} : d.kind = "similar" => d.generation < c.generation
                /\ c.generation = generation /\ timer = {}
<1>1. IInv /\ [InspectorNext]_inspector_vars => [Step]_inspector_vars
    BY DrawnInOrder DEF IInv, Typed
<1>2. [][Step]_inspector_vars => SimilarInOrder
    BY DEF SimilarInOrder
<1> HIDE DEF Step
<1> QED
    BY Invariant, <1>1, <1>2, PTL DEF InspectorSpec

\* Once all events are handled and views rendered, the inspector shows the image that the
\* hash names, or is closed (openImage, readRoute and the handler of "close").
THEOREM HashIsShown == InspectorSpec => []RouteIsShown
<1>1. InspectorInit => HashFollowed
    BY DEF InspectorInit, HashFollowed
<1>2. IInv /\ HashFollowed /\ [InspectorNext]_inspector_vars => HashFollowed'
    BY HashFollowedNext DEF IInv
<1>3. IInv /\ HashFollowed => RouteIsShown
    BY DEF IInv, Typed, RoutesTyped, HashFollowed, RouteIsShown
<1> QED
    BY Invariant, <1>1, <1>2, <1>3, PTL DEF InspectorSpec
==============================================================================
