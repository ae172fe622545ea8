--------------------------- MODULE Notifications ---------------------------
(***************************************************************************)
(* The notification service (apps/notification-service), in one or more    *)
(* replicas: each subscribes to the Redis channel "order_events", handles  *)
(* every message it receives (save a row, push to the sockets of the user, *)
(* queue an email), and keeps its own map from users to sockets.           *)
(*                                                                         *)
(* handleOrderEvent() is not awaited by the listener that calls it, so the *)
(* handlers of several messages run concurrently, cut at their awaits.     *)
(***************************************************************************)
EXTENDS Naturals, Sequences, Functions

CONSTANTS
  Replica,   \* the processes of the service
  User,      \* the customers
  Socket,    \* the socket ids, each used for one connection
  Event,     \* the messages published on "order_events"
  Faults,    \* TRUE: processes stop, calls are rejected
  None       \* absence of a user or a replica

ASSUME NotificationAssumption ==
  /\ None \notin User \cup Replica
  /\ Faults \in BOOLEAN

VARIABLES
  owner,        \* owner[e]: the userId in message e, or None: not yet published
  state,        \* state[p]: of the process of replica p
  inbox,        \* inbox[p]: messages received on the connection to Redis
  pc,           \* pc[p][e]: the next step of replica p's handler of message e
  rows,         \* the table "notifications"
  jobs,         \* the jobs added to "email-queue"
  userSockets,  \* userSockets[p][u][s]: how often the list of user u has socket id s
  conn,         \* conn[s]: the connection with socket id s
  received      \* received[s]: the messages pushed to socket s

vars ==
  <<owner, state, inbox, pc, rows, jobs, userSockets, conn, received>>

-----------------------------------------------------------------------------
\* A row, and a job, with the handler that made it.
Row == [event : Event, by : Replica, userId : User]

Conn == [status : {"new", "open", "closed"},
         at : Replica \cup {None}, user : User \cup {None}]

NoConn == [status |-> "new", at |-> None, user |-> None]

Busy == {"save", "push", "queue"}

Steps == {"idle", "done", "failed", "lost"} \cup Busy

InInbox(p, e) == \E i \in 1..Len(inbox[p]) : inbox[p][i] = e

Open(s, p) == conn[s].status = "open" /\ conn[s].at = p

\* Mutant of FirstStep: the push comes before the save.
FirstStepPush == "push"

\* handleOrderEvent() begins with the save.
FirstStep == "save"

\* No entry for the user: an empty list.
NoSockets == [s \in Socket |-> 0]

\* Mutant of AfterPush: the email is sent only to those who are offline.
AfterPushOffline(p, e) ==
  IF userSockets[p][owner[e]] = NoSockets THEN "queue" ELSE "done"

\* The email is queued whether or not a socket was found.
AfterPush(p, e) == "queue"

\* Mutant of NewRow: the userId of the message is not copied.
NewRowNoUser(p, e) == [event |-> e, by |-> p, userId |-> None]

NewRow(p, e) == [event |-> e, by |-> p, userId |-> owner[e]]

\* Mutant of Registered: the id is pushed on the list twice.
RegisteredTwice(list, s) == [list EXCEPT ![s] = @ + 2]

\* sockets.push(client.id)
Registered(list, s) == [list EXCEPT ![s] = @ + 1]

\* Mutant of Unregistered: the entry of the user is deleted with the first
\* of his sockets.
UnregisteredAll(list, s) == NoSockets

\* sockets.filter((id) => id !== client.id), and no entry for an empty list
Unregistered(list, s) == [list EXCEPT ![s] = 0]

-----------------------------------------------------------------------------
Init ==
  /\ owner = [e \in Event |-> None]
  /\ state = [p \in Replica |-> "down"]
  /\ inbox = [p \in Replica |-> <<>>]
  /\ pc = [p \in Replica |-> [e \in Event |-> "idle"]]
  /\ rows = {}
  /\ jobs = {}
  /\ userSockets = [p \in Replica |-> [u \in User |-> NoSockets]]
  /\ conn = [s \in Socket |-> NoConn]
  /\ received = [s \in Socket |-> <<>>]

Goto(p, e, step) == pc' = [pc EXCEPT ![p][e] = step]

\* Redis hands a message to the connections subscribed at that moment, and to
\* no other.
Publish(e) ==
  /\ owner[e] = None
  /\ \E u \in User : owner' = [owner EXCEPT ![e] = u]
  /\ inbox' = [p \in Replica |-> IF state[p] = "subscribed" THEN Append(inbox[p], e)
                                                            ELSE inbox[p]]
  /\ UNCHANGED <<state, pc, rows, jobs, userSockets, conn, received>>

\* The process starts; onModuleInit() does not wait for the subscription.
Start(p) ==
  /\ state[p] = "down"
  /\ state' = [state EXCEPT ![p] = "starting"]
  /\ UNCHANGED <<owner, inbox, pc, rows, jobs, userSockets, conn, received>>

Subscribe(p) ==
  /\ state[p] = "starting"
  /\ state' = [state EXCEPT ![p] = "subscribed"]
  /\ UNCHANGED <<owner, inbox, pc, rows, jobs, userSockets, conn, received>>

\* The subscription is rejected: that is logged and never tried again, and the
\* process goes on without it, with its sockets and its worker.
SubscribeFails(p) ==
  /\ Faults
  /\ state[p] = "starting"
  /\ state' = [state EXCEPT ![p] = "deaf"]
  /\ UNCHANGED <<owner, inbox, pc, rows, jobs, userSockets, conn, received>>

\* The listener calls handleOrderEvent() and does not wait for it.
Receive(p) ==
  /\ inbox[p] # <<>>
  /\ inbox' = [inbox EXCEPT ![p] = Tail(@)]
  /\ Goto(p, Head(inbox[p]), FirstStep)
  /\ UNCHANGED <<owner, state, rows, jobs, userSockets, conn, received>>

\* The INSERT of the notification.
Save(p, e) ==
  /\ pc[p][e] = "save"
  /\ rows' = rows \cup {NewRow(p, e)}
  /\ Goto(p, e, "push")
  /\ UNCHANGED <<owner, state, inbox, jobs, userSockets, conn, received>>

\* sendNotificationToUser(), in one go with the call of emailQueue.add(): an
\* emit for every id on the list of the user; it reaches the sockets open here.
Push(p, e) ==
  LET hits(s) == IF Open(s, p) THEN userSockets[p][owner[e]][s] ELSE 0
  IN  /\ pc[p][e] = "push"
      /\ received' = [s \in Socket |-> received[s] \o [i \in 1..hits(s) |-> e]]
      /\ Goto(p, e, AfterPush(p, e))
      /\ UNCHANGED <<owner, state, inbox, rows, jobs, userSockets, conn>>

\* The job is stored in Redis.
Enqueue(p, e) ==
  /\ pc[p][e] = "queue"
  /\ jobs' = jobs \cup {NewRow(p, e)}
  /\ Goto(p, e, "done")
  /\ UNCHANGED <<owner, state, inbox, rows, userSockets, conn, received>>

\* The save or the add is rejected: .catch(console.error) ends the handler.
Reject(p, e) ==
  /\ Faults
  /\ pc[p][e] \in {"save", "queue"}
  /\ Goto(p, e, "failed")
  /\ UNCHANGED <<owner, state, inbox, rows, jobs, userSockets, conn, received>>

\* handleConnection() with a valid token, whose user is u.
Connect(p, s) ==
  /\ state[p] # "down"
  /\ conn[s].status = "new"
  /\ \E u \in User :
       /\ conn' = [conn EXCEPT ![s] = [status |-> "open", at |-> p, user |-> u]]
       /\ userSockets' = [userSockets EXCEPT ![p][u] = Registered(@, s)]
  /\ UNCHANGED <<owner, state, inbox, pc, rows, jobs, received>>

\* handleConnection() without a valid token: client.disconnect(), and
\* handleDisconnect() finds no user on the socket.
Refuse(s) ==
  /\ conn[s].status = "new"
  /\ conn' = [conn EXCEPT ![s].status = "closed"]
  /\ UNCHANGED <<owner, state, inbox, pc, rows, jobs, userSockets, received>>

\* handleDisconnect() of an accepted client.
Disconnect(s) ==
  LET c == conn[s]
  IN  /\ c.status = "open"
      /\ conn' = [conn EXCEPT ![s].status = "closed"]
      /\ userSockets' = [userSockets EXCEPT ![c.at][c.user] = Unregistered(@, s)]
      /\ UNCHANGED <<owner, state, inbox, pc, rows, jobs, received>>

\* SIGTERM: process.exit(0), with all that is in memory, messages received and
\* not yet handled included.
Crash(p) ==
  /\ Faults
  /\ state[p] # "down"
  /\ state' = [state EXCEPT ![p] = "down"]
  /\ inbox' = [inbox EXCEPT ![p] = <<>>]
  /\ pc' = [pc EXCEPT ![p] =
              [e \in Event |-> IF @[e] \in Busy \/ InInbox(p, e) THEN "lost" ELSE @[e]]]
  /\ userSockets' = [userSockets EXCEPT ![p] = [u \in User |-> NoSockets]]
  /\ conn' = [s \in Socket |->
                IF Open(s, p) THEN [conn[s] EXCEPT !.status = "closed"] ELSE conn[s]]
  /\ UNCHANGED <<owner, rows, jobs, received>>

\* Every message of this instance is published and no handler is at work.
Quiet ==
  /\ \A e \in Event : owner[e] # None
  /\ \A p \in Replica : inbox[p] = <<>> /\ \A e \in Event : pc[p][e] \notin Busy
  /\ UNCHANGED vars

Next ==
  \/ \E e \in Event : Publish(e)
  \/ \E p \in Replica :
       \/ Start(p) \/ Subscribe(p) \/ SubscribeFails(p) \/ Receive(p) \/ Crash(p)
       \/ \E e \in Event :
            Save(p, e) \/ Push(p, e) \/ Enqueue(p, e) \/ Reject(p, e)
       \/ \E s \in Socket : Connect(p, s)
  \/ \E s \in Socket : Refuse(s) \/ Disconnect(s)
  \/ Quiet

Spec == Init /\ [][Next]_vars

-----------------------------------------------------------------------------
\* The type invariant: the shape of the rows and jobs, of the handlers, of the
\* connections and of the map of sockets.
TypeOK ==
  /\ owner \in [Event -> User \cup {None}]
  /\ state \in [Replica -> {"down", "starting", "subscribed", "deaf"}]
  /\ inbox \in [Replica -> Seq(Event)]
  /\ pc \in [Replica -> [Event -> Steps]]
  /\ rows \subseteq Row
  /\ jobs \subseteq Row
  /\ userSockets \in [Replica -> [User -> [Socket -> Nat]]]
  /\ conn \in [Socket -> Conn]
  /\ received \in [Socket -> Seq(Event)]

\* The map of each replica lists exactly the sockets open there, each once and
\* under the user of its token, through any sequence of connects, disconnects
\* and restarts.
RegistryExact ==
  \A p \in Replica, u \in User, s \in Socket :
    userSockets[p][u][s] = IF Open(s, p) /\ conn[s].user = u THEN 1 ELSE 0

\* What a client has been pushed, it finds again with GET /notifications: the
\* row was there before, and it belongs to the user whose token opened the
\* socket.  The same holds for every email queued.
SavedFirst ==
  /\ \A s \in Socket : \A i \in 1..Len(received[s]) :
       [event |-> received[s][i], by |-> conn[s].at, userId |-> conn[s].user] \in rows
  /\ jobs \subseteq rows

\* A socket is pushed a message at most once, although every replica handles
\* every message: each replica pushes to its own sockets only.
PushedOnce ==
  \A s \in Socket : IsInjective(received[s])
=============================================================================
