---------------------------- MODULE MCOrderEvents ----------------------------
(* A small instance of OrderEvents for TLC. *)
EXTENDS OrderEvents

First == CHOOSE p \in Replica : TRUE

\* One process of the notification service serves the customers, and may be
\* restarted.  To the others the subscription fails and no socket comes: they
\* work the queue, which takes a worker that is late and its successor.
\* MCNotifications has two replicas that are subscribed.
SparesOnlyWork ==
  \A p \in Replica :
    IF p = First THEN state'[p] # "deaf"
    ELSE /\ state'[p] # "subscribed"
         /\ state[p] # "down" => state'[p] # "down"
         /\ \A s \in Socket : conn'[s].at # p

\* At most one job is stalled in a behaviour, and none that is worked on when a
\* socket is there.  Which user has the order makes no difference.
FewAtOnce ==
  /\ Cardinality({j \in NS!Row : stalls'[j] > 0}) <= 1
  /\ (\E s \in Socket : conn'[s].status # "new") =>
       \A j \in NS!Row : stalls'[j] = 0 /\ status'[j] \in {"none", "waiting"}
  /\ \A o \in Order : orders'[o] # None => orders'[o].userId = CHOOSE u \in User : TRUE
=============================================================================
