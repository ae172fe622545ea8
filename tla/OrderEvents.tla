---------------------------- MODULE OrderEvents ----------------------------
(***************************************************************************)
(* From the order to its customer: the order service, the Redis channel    *)
(* "order_events", the notification service and its email queue, composed. *)
(* The i-th message about order o is the event <<o, i>>.  Each component   *)
(* keeps its own steps; they meet in three of them: a publish is received  *)
(* by the subscribed replicas, an enqueue adds a job, and a process of the *)
(* notification service stops with its worker.                             *)
(***************************************************************************)
EXTENDS Naturals, Sequences, FiniteSets

CONSTANTS
  Order, User, Request, RequestedStatus, Overlap,   \* of OrderService
  Replica, Socket,                                  \* of Notifications
  Faults, None

VARIABLES
  orders, channel, pc, job, held,
  owner, state, inbox, handler, rows, jobs, userSockets, conn, received,
  waiting, status, lock, stalls, work, mailed

orderVars == <<orders, channel, pc, job, held>>

noteVars ==
  <<owner, state, inbox, handler, rows, jobs, userSockets, conn, received>>

emailVars == <<waiting, status, lock, stalls, work, mailed>>

vars == <<orderVars, noteVars, emailVars>>

\* A request publishes at most once.
Event == Order \X (1..Cardinality(Request))

OS == INSTANCE OrderService

NS == INSTANCE Notifications WITH pc <- handler

EQ == INSTANCE EmailQueue WITH Job <- NS!Row, Worker <- Replica

\* The assumptions of the three components.
ASSUME EventsAssumption ==
  /\ None \notin Order \cup User \cup OS!OrderStatus
  /\ None \notin [userId : User, status : OS!OrderStatus, deleted : BOOLEAN]
  /\ None \notin [orderId : Order, userId : User,
                  old : OS!OrderStatus \cup {None}, new : OS!OrderStatus]
  /\ RequestedStatus \subseteq OS!OrderStatus
  /\ Overlap \in BOOLEAN /\ Faults \in BOOLEAN
  /\ None \notin User \cup Replica
  /\ None \notin NS!Row \cup Replica
  /\ IsFiniteSet(Replica) /\ IsFiniteSet(Request)

Init == OS!Init /\ NS!Init /\ EQ!Init

-----------------------------------------------------------------------------
OrderStep(r) ==
  /\ \/ OS!Create(r) \/ OS!FindForUpdate(r) \/ OS!SelectForSave(r)
     \/ OS!WriteForSave(r) \/ OS!SoftDelete(r) \/ OS!Abort(r)
  /\ UNCHANGED <<noteVars, emailVars>>

\* The place the message takes in the channel of its order.
EventOf(o) == <<o, Len(channel[o]) + 1>>

\* Mutant of Addressee: any user.
AddresseeAny(r, u) == u \in User

\* The userId of the message.
Addressee(r, u) == u = job[r].userId

Publish(r) ==
  LET e == EventOf(job[r].id)
  IN  /\ OS!Publish(r)
      /\ NS!Publish(e)
      /\ Addressee(r, owner'[e])
      /\ UNCHANGED emailVars

NoteStep(p) ==
  /\ \/ NS!Start(p) \/ NS!Subscribe(p) \/ NS!SubscribeFails(p) \/ NS!Receive(p)
     \/ \E e \in Event : NS!Save(p, e) \/ NS!Push(p, e) \/ NS!Reject(p, e)
     \/ \E s \in Socket : NS!Connect(p, s)
  /\ UNCHANGED <<orderVars, emailVars>>

SocketStep(s) ==
  /\ NS!Refuse(s) \/ NS!Disconnect(s)
  /\ UNCHANGED <<orderVars, emailVars>>

Enqueue(p, e) ==
  /\ NS!Enqueue(p, e)
  /\ EQ!Add(NS!NewRow(p, e))
  /\ UNCHANGED orderVars

WorkerStep(p) ==
  /\ state[p] # "down"
  /\ EQ!Take(p) \/ EQ!Send(p) \/ EQ!Complete(p)
  /\ UNCHANGED <<orderVars, noteVars>>

\* The check for stalled jobs is made by any worker that runs.
StallCheck(j) ==
  /\ \E p \in Replica : state[p] # "down"
  /\ EQ!Stall(j)
  /\ UNCHANGED <<orderVars, noteVars>>

Crash(p) ==
  /\ NS!Crash(p)
  /\ EQ!Stop(p)
  /\ UNCHANGED orderVars

Quiet ==
  /\ \A r \in Request : pc[r] \in OS!Ended
  /\ UNCHANGED vars

Next ==
  \/ \E r \in Request : OrderStep(r) \/ Publish(r)
  \/ \E p \in Replica :
       \/ NoteStep(p) \/ WorkerStep(p) \/ Crash(p)
       \/ \E e \in Event : Enqueue(p, e)
  \/ \E s \in Socket : SocketStep(s)
  \/ \E j \in NS!Row : StallCheck(j)
  \/ Quiet

Spec == Init /\ [][Next]_vars

\* Of the order service: every awaited promise settles.  Of the notification
\* service: a process that is deployed goes on: it comes up and subscribes, its
\* event loop delivers what Redis sent it and what was awaited, and its worker
\* asks for jobs, runs the timer of process() and looks for stalled jobs.
FairSpec ==
  /\ Spec
  /\ \A r \in Request :
       WF_orderVars(OS!SelectForSave(r) \/ OS!WriteForSave(r) \/ Publish(r))
  /\ \A p \in Replica :
       /\ WF_noteVars(\/ NS!Start(p) \/ NS!Subscribe(p) \/ NS!Receive(p)
                      \/ \E e \in Event : NS!Save(p, e) \/ NS!Push(p, e) \/ Enqueue(p, e))
       /\ WF_emailVars(/\ state[p] # "down"
                       /\ EQ!Take(p) \/ EQ!Send(p) \/ EQ!Complete(p))
  /\ WF_emailVars(\E j \in NS!Row : StallCheck(j))

-----------------------------------------------------------------------------
\* The type invariant: each component keeps its types in the composition.
TypeOK == OS!TypeOK /\ NS!TypeOK /\ EQ!TypeOK

Published(e) == e[2] <= Len(channel[e[1]])

\* What a customer is told concerns an order of his own: a notification he
\* reads, an email to him or a message pushed to a socket opened with his token
\* was published by the order service for an order stored under his id.
InboxTruthful ==
  /\ \A n \in rows \cup jobs :
       /\ Published(n.event)
       /\ orders[n.event[1]] # None
       /\ n.userId = orders[n.event[1]].userId
  /\ \A s \in Socket : \A i \in 1..Len(received[s]) :
       LET e == received[s][i]
       IN  Published(e) /\ conn[s].user = orders[e[1]].userId

\* Replica p was not subscribed when e was published, or its handler of e was
\* rejected or lost with the process.
Missed(p, e) ==
  \/ handler[p][e] \in {"failed", "lost"}
  \/ handler[p][e] = "idle" /\ ~NS!InInbox(p, e)

\* "Centrally handles all communication with users": every status an order
\* takes is sooner or later saved and mailed to its owner by each replica of the
\* notification service, unless the announcement was lost before its publish
\* or that replica missed it.
StatusReachesCustomer ==
  \A o \in Order : \A s \in {"pending"} \cup RequestedStatus :
    s \in held[o] ~>
      \/ OS!Lost(o, s)
      \/ \E i \in 1..Cardinality(Request) :
           /\ i <= Len(channel[o]) /\ channel[o][i].new = s
           /\ \A p \in Replica :
                \/ Missed(p, <<o, i>>)
                \/ [event |-> <<o, i>>, by |-> p, userId |-> orders[o].userId]
                     \in rows \cap jobs

\* The email queue keeps its promise when the notification service fills it and
\* the workers stop with their processes: a job accepted is completed only
\* after its email, is mailed at most twice, and never leaves a final state.
DeliversMail == EQ!ImplementsMailDelivery

\* An email queued is sent and its job completed, or the job fails after its
\* second stall, if only one replica stops crashing for good.
QueuedIsSent ==
  \A p \in Replica : <>[](state[p] # "down") =>
    \A e \in Event :
      (\E j \in jobs : j.event = e) ~>
        \A j \in {n \in jobs : n.event = e} :
          \/ status[j] = "completed" /\ mailed[j] >= 1
          \/ status[j] = "failed" /\ stalls[j] > EQ!MaxStalled
=============================================================================
