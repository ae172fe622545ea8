---------------------------- MODULE OrderService ----------------------------
(***************************************************************************)
(* The order service (apps/order-service): the handlers of POST /orders,   *)
(* PATCH /orders/:id and DELETE /orders/:id, running concurrently against  *)
(* the "orders" table and publishing to the Redis channel "order_events".  *)
(*                                                                         *)
(* A handler runs without interruption up to its next await, so a request  *)
(* is a sequence of steps, one per database or Redis call.  The handlers   *)
(* of different requests, in one process or in several replicas,           *)
(* interleave freely between those steps.                                  *)
(***************************************************************************)
EXTENDS Naturals, Sequences

CONSTANTS
  Order,            \* the uuids the database may generate for orders
  User,             \* the customers (userId of the access token)
  Request,          \* the HTTP requests made, each one handled once
  RequestedStatus,  \* the statuses that occur in PATCH bodies
  Overlap,          \* TRUE: requests for one order may run at the same time
  Faults,           \* TRUE: a process may stop, a call may be rejected
  None              \* absence of a row, an id or a status

OrderStatus == {"pending", "processing", "shipped", "delivered", "cancelled"}

ASSUME OrderAssumption ==
  /\ None \notin Order \cup User \cup OrderStatus
  /\ None \notin [userId : User, status : OrderStatus, deleted : BOOLEAN]
  /\ None \notin [orderId : Order, userId : User,
                  old : OrderStatus \cup {None}, new : OrderStatus]
  /\ RequestedStatus \subseteq OrderStatus
  /\ Overlap \in BOOLEAN
  /\ Faults \in BOOLEAN

VARIABLES
  orders,   \* orders[o]: the row of order o, or None
  channel,  \* channel[o]: the messages published for order o, in order
  pc,       \* pc[r]: the next step of request r
  job,      \* job[r]: the local variables of the handler of request r
  held      \* history: held[o] is the set of statuses order o has had

vars == <<orders, channel, pc, job, held>>

-----------------------------------------------------------------------------
Row == [userId : User, status : OrderStatus, deleted : BOOLEAN]

Column == {"status", "deleted"}

\* The entity a handler holds (id, userId, and new = entity.status), the
\* oldStatus it remembers, and the columns its save() is about to write.
Job == [id : Order \cup {None}, userId : User \cup {None},
        old : OrderStatus \cup {None}, new : OrderStatus \cup {None},
        dirty : SUBSET Column]

NoJob == [id |-> None, userId |-> None, old |-> None, new |-> None, dirty |-> {}]

\* A message on "order_events".  The code's two kinds are told apart by
\* old: order_created has no oldStatus.
Message == [orderId : Order, userId : User,
            old : OrderStatus \cup {None}, new : OrderStatus]

Ended == {"done", "aborted", "unannounced"}

InFlight(r) == pc[r] \in {"select", "write", "publish"}

\* The environment may promise that two requests never work on one order at
\* the same time.  Nothing in the service enforces it.
MayStart(o) == Overlap \/ \A r \in Request : InFlight(r) => job[r].id # o

\* A find query hides the rows whose @DeleteDateColumn is set.
Visible(o) == orders[o] # None /\ ~orders[o].deleted

\* Mutant of NewRow: create() forgets the initial status.
NewRowNoStatus(u) == [userId |-> u, status |-> None, deleted |-> FALSE]

NewRow(u) == [userId |-> u, status |-> "pending", deleted |-> FALSE]

\* save() compares the entity, which was found when not deleted, with the
\* row as it is now: these are the columns that differ.
Changed(j, row) ==
  {c \in Column : \/ c = "status" /\ row.status # j.new
                  \/ c = "deleted" /\ row.deleted}

\* The row after the UPDATE of the columns found to differ.
Updated(j, row) ==
  [row EXCEPT !.status = IF "status" \in j.dirty THEN j.new ELSE @,
              !.deleted = IF "deleted" \in j.dirty THEN FALSE ELSE @]

\* Mutants of Announces: oldStatus read after the assignment of the new
\* status (lines 80 and 81 swapped); no test of the two at all.
AnnouncesNever(j) == j.new # j.new
AnnouncesAlways(j) == TRUE

\* oldStatus !== updatedOrder.status
Announces(j) == j.old # j.new

\* Mutant of MessageOf: the two statuses of the message swapped.
MessageOfSwapped(j) ==
  [orderId |-> j.id, userId |-> j.userId, old |-> j.new, new |-> j.old]

MessageOf(j) ==
  [orderId |-> j.id, userId |-> j.userId, old |-> j.old, new |-> j.new]

-----------------------------------------------------------------------------
Init ==
  /\ orders = [o \in Order |-> None]
  /\ channel = [o \in Order |-> <<>>]
  /\ pc = [r \in Request |-> "new"]
  /\ job = [r \in Request |-> NoJob]
  /\ held = [o \in Order |-> {}]

Goto(r, step) == pc' = [pc EXCEPT ![r] = step]

\* create(): the entity has no id, save() is a single INSERT.
Create(r) ==
  /\ pc[r] = "new"
  /\ \E o \in Order, u \in User :
       /\ orders[o] = None
       /\ orders' = [orders EXCEPT ![o] = NewRow(u)]
       /\ job' = [job EXCEPT ![r] =
                    [id |-> o, userId |-> u, old |-> None,
                     new |-> NewRow(u).status, dirty |-> {}]]
       /\ held' = [held EXCEPT ![o] = {NewRow(u).status}]
  /\ Goto(r, "publish")
  /\ UNCHANGED channel

\* updateStatus(), up to the await of save(): findOne() answers 404 when the
\* order is not visible; otherwise the entity is kept and its status replaced.
FindForUpdate(r) ==
  /\ pc[r] = "new"
  /\ \E o \in Order, s \in RequestedStatus :
       /\ MayStart(o)
       /\ \/ /\ Visible(o)
             /\ job' = [job EXCEPT ![r] =
                          [id |-> o, userId |-> orders[o].userId,
                           old |-> orders[o].status, new |-> s, dirty |-> {}]]
             /\ Goto(r, "select")
          \/ /\ ~Visible(o)
             /\ Goto(r, "done")
             /\ UNCHANGED job
  /\ UNCHANGED <<orders, channel, held>>

\* save(entity), first half: the row is selected again, soft-deleted or not,
\* and compared with the entity.
SelectForSave(r) ==
  /\ pc[r] = "select"
  /\ job' = [job EXCEPT ![r].dirty = Changed(job[r], orders[job[r].id])]
  /\ Goto(r, "write")
  /\ UNCHANGED <<orders, channel, held>>

\* save(entity), second half: UPDATE of the columns found to differ.
WriteForSave(r) ==
  LET o == job[r].id
  IN  /\ pc[r] = "write"
      /\ orders' = [orders EXCEPT ![o] = Updated(job[r], @)]
      /\ held' = [held EXCEPT ![o] = @ \cup {orders'[o].status}]
      /\ Goto(r, IF Announces(job[r]) THEN "publish" ELSE "done")
      /\ UNCHANGED <<channel, job>>

\* redisClient.publish(), at the end of create() and of updateStatus().
Publish(r) ==
  /\ pc[r] = "publish"
  /\ channel' = [channel EXCEPT ![job[r].id] = Append(@, MessageOf(job[r]))]
  /\ Goto(r, "done")
  /\ UNCHANGED <<orders, job, held>>

\* softDelete(): one UPDATE, which also matches a row deleted before; 404
\* when it matches none.
SoftDelete(r) ==
  /\ pc[r] = "new"
  /\ \E o \in Order :
       /\ MayStart(o)
       /\ \/ /\ orders[o] # None
             /\ orders' = [orders EXCEPT ![o].deleted = TRUE]
          \/ /\ orders[o] = None
             /\ UNCHANGED orders
  /\ Goto(r, "done")
  /\ UNCHANGED <<channel, job, held>>

\* The awaited call is rejected (the client gets a 500), or SIGTERM ends the
\* process: the rest of the handler does not run.  A handler that stops at
\* its publish has written the row and leaves it unannounced.
Abort(r) ==
  /\ Faults
  /\ InFlight(r)
  /\ Goto(r, IF pc[r] = "publish" THEN "unannounced" ELSE "aborted")
  /\ UNCHANGED <<orders, channel, job, held>>

\* Every request of this instance has been handled.
Quiet ==
  /\ \A r \in Request : pc[r] \in Ended
  /\ UNCHANGED vars

Next ==
  \/ \E r \in Request :
       \/ Create(r) \/ FindForUpdate(r) \/ SelectForSave(r) \/ WriteForSave(r)
       \/ Publish(r) \/ SoftDelete(r) \/ Abort(r)
  \/ Quiet

Spec == Init /\ [][Next]_vars

\* Every awaited promise settles, so a handler once started is not left
\* between two steps for ever.
FairSpec ==
  /\ Spec
  /\ \A r \in Request :
       WF_vars(SelectForSave(r) \/ WriteForSave(r) \/ Publish(r))

-----------------------------------------------------------------------------
\* The type invariant: the shape of the rows of "orders", of the messages on
\* "order_events" and of the locals of each handler.
TypeOK ==
  /\ orders \in [Order -> Row \cup {None}]
  /\ channel \in [Order -> Seq(Message)]
  /\ pc \in [Request -> {"new", "select", "write", "publish"} \cup Ended]
  /\ job \in [Request -> Job]
  /\ held \in [Order -> SUBSET OrderStatus]

\* A published message tells the truth, however requests interleave: it is
\* about a stored order and addressed to its owner, both statuses in it are
\* statuses the order has really had, and they differ.
EventsTruthful ==
  \A o \in Order : \A i \in 1..Len(channel[o]) :
    LET m == channel[o][i]
    IN  /\ m.orderId = o
        /\ orders[o] # None
        /\ m.userId = orders[o].userId
        /\ m.new \in held[o]
        /\ m.old \in held[o] \cup {None}
        /\ m.old # m.new

Announced(o, s) == \E i \in 1..Len(channel[o]) : channel[o][i].new = s

\* A handler stopped with the announcement of status s still to make.
Lost(o, s) ==
  \E r \in Request : pc[r] = "unannounced" /\ job[r].id = o /\ job[r].new = s

\* No status is held unheard: for every status an order has ever had, a
\* message with that new status was published, or is about to be, or was lost
\* when its handler stopped between save() and publish().  True even when
\* updates race: a save() that the test of oldStatus keeps silent can only
\* bring back a status already announced.
HeldStatusAnnounced ==
  \A o \in Order : \A s \in held[o] :
    \/ Announced(o, s)
    \/ \E r \in Request : /\ pc[r] \in {"publish", "unannounced"}
                          /\ job[r].id = o
                          /\ job[r].new = s

\* DELETE /orders/:id is final: no later step brings a deleted order back.
\* save() can, because it writes every column in which the entity, read
\* before the deletion, differs from the row.
DeleteIsFinal ==
  [][\A o \in Order :
       orders[o] # None /\ orders[o].deleted => orders'[o].deleted]_vars

\* "Emit event via Redis pub/sub when order status changes": the step that
\* changes the status of a stored order leaves its handler at the publish of
\* exactly this change, from the status replaced to the status written.
EveryChangeAnnounced ==
  [][\A o \in Order :
       orders[o] # None /\ orders'[o].status # orders[o].status =>
         \E r \in Request : /\ pc'[r] = "publish"
                            /\ job'[r].id = o
                            /\ job'[r].old = orders[o].status
                            /\ job'[r].new = orders'[o].status]_vars

\* A subscriber that follows the channel knows the order: when no request is
\* working on an order, the last message about it carries its status, unless
\* the announcement of just that status was lost with its handler.
LastEventIsCurrent ==
  \A o \in Order :
    orders[o] # None /\ (\A r \in Request : InFlight(r) => job[r].id # o) =>
      \/ /\ channel[o] # <<>>
         /\ channel[o][Len(channel[o])].new = orders[o].status
      \/ Lost(o, orders[o].status)

\* Every status an order takes is sooner or later on the channel, although
\* updates race; only a handler that stopped before its publish excuses it.
EventuallyAnnounced ==
  \A o \in Order : \A s \in OrderStatus :
    s \in held[o] ~> Announced(o, s) \/ Lost(o, s)

-----------------------------------------------------------------------------
(* One request at a time on each order: the service is the abstract order    *)
(* book.  A handler that stands before its publish owes its message.         *)

Pending(o) == {r \in Request : pc[r] = "publish" /\ job[r].id = o}

dueBar ==
  [o \in Order |->
     IF Pending(o) = {} THEN None
     ELSE MessageOf(job[CHOOSE r \in Pending(o) : TRUE])]

OB == INSTANCE OrderBook WITH
        book <- orders, due <- dueBar, feed <- channel, Lossy <- Faults

\* Each handler, taken from its first step to its last, is one step of the
\* order book or none.
ImplementsOrderBook == OB!Spec
=============================================================================
