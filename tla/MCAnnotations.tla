---------------------------- MODULE MCAnnotations ----------------------------
(***************************************************************************)
(* Two images, two tags, and three requests.                               *)
(***************************************************************************)
EXTENDS Annotations, SequencesExt

CONSTANTS i, k, x, y, r1, r2, r3

Ask(kind, image, tags, comment, reply) ==
    [kind |-> kind, image |-> image, tags |-> tags, comment |-> comment, parent |-> reply]

OrderSeq == <<
    Ask("context", i, {}, FALSE, 0),
    Ask("context", i, {x}, FALSE, 0),
    Ask("context", i, {x, y}, TRUE, 0),
    Ask("context", i, Nothing, TRUE, 0),
    Ask("context", k, {x, y}, FALSE, 0),
    Ask("reply", i, Nothing, FALSE, 0),
    Ask("reply", i, Nothing, FALSE, 2),
    Ask("reply", i, Nothing, FALSE, 4),
    Ask("reply", k, Nothing, FALSE, 1),
    Ask("deindex", i, Nothing, FALSE, 0)>>

MCOrders == ToSet(OrderSeq)

Place(o) == CHOOSE n \in DOMAIN OrderSeq : OrderSeq[n] = o

\* The requests are alike: their orders are taken in the order of OrderSeq.  What there is
\* at first, is on the image i, and a tag that it has, is x.
MCInit ==
    /\ Init
    /\ links[k] = {} /\ y \notin Names(links[i]) /\ on[1] = i
    /\ Place(order[r1]) <= Place(order[r2]) /\ Place(order[r2]) <= Place(order[r3])

MCSpec == MCInit /\ [][Next]_vars /\ Fairness
===============================================================================
