----------------------------- MODULE OrderBook -----------------------------
(***************************************************************************)
(* What the order-service promises, whatever its handlers and Postgres do  *)
(* in between: an id is used for one order, an order is confirmed to its   *)
(* user only when it is in the book, it is shown to its user only and as   *)
(* it stands there, it leaves the book only when its user cancels it, and  *)
(* a cancellation that is acknowledged has taken effect.                   *)
(***************************************************************************)
CONSTANTS
    Ids,        \* the ids of orders
    Users,
    Details,    \* what is ordered: records with a user
    NoDetails

VARIABLES
    book,       \* id -> the details of an order that stands, or NoDetails
    confirmed,  \* the ids users were told
    gone,       \* the ids of the orders that were cancelled
    shown,      \* what was shown: [to, id, details]
    cancelled   \* the cancellations that were acknowledged: [by, id]

pages == <<book, confirmed, gone, shown, cancelled>>

Stands(i) == book[i] # NoDetails
Of(i, u) == Stands(i) /\ book[i].user = u

Init ==
    /\ book = [i \in Ids |-> NoDetails]
    /\ confirmed = {} /\ gone = {} /\ shown = {} /\ cancelled = {}

\* The reply may be lost: then nobody learns the id of the order.
Place(i) ==
    /\ ~Stands(i) /\ i \notin confirmed
    /\ \E d \in Details : book' = [book EXCEPT ![i] = d]
    /\ confirmed' \in {confirmed, confirmed \cup {i}}
    /\ UNCHANGED <<gone, shown, cancelled>>

Show(i, u) ==
    /\ Of(i, u)
    /\ shown' = shown \cup {[to |-> u, id |-> i, details |-> book[i]]}
    /\ UNCHANGED <<book, confirmed, gone, cancelled>>

\* To cancel what is somebody else's, or gone, changes nothing and may be
\* acknowledged.
Cancel(i, u) ==
    /\ i \in confirmed
    /\ IF Of(i, u)
       THEN book' = [book EXCEPT ![i] = NoDetails] /\ gone' = gone \cup {i}
       ELSE UNCHANGED <<book, gone>>
    /\ cancelled' \in {cancelled, cancelled \cup {[by |-> u, id |-> i]}}
    /\ UNCHANGED <<confirmed, shown>>

Next ==
    \E i \in Ids :
        \/ Place(i)
        \/ \E u \in Users : Show(i, u) \/ Cancel(i, u)

Spec == Init /\ [][Next]_pages
=============================================================================
