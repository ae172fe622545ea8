------------------------ MODULE NotificationsProofs ------------------------
(***************************************************************************)
(* Proofs about Notifications, for any number of replicas, users, sockets  *)
(* and messages.                                                           *)
(***************************************************************************)
EXTENDS Notifications, SequenceTheorems, TLAPS

\* A message is waiting in the inbox or has been given to the handler, never
\* both; a handler past its save has made its row.
HandlerInv ==
  \A p \in Replica, e \in Event :
    /\ InInbox(p, e) => pc[p][e] = "idle"
    /\ InInbox(p, e) \/ pc[p][e] # "idle" => owner[e] # None
    /\ pc[p][e] \in {"push", "queue"} => NewRow(p, e) \in rows

\* Redis delivers a message once to each subscribed connection.
InboxInv ==
  \A p \in Replica : \A i, k \in 1..Len(inbox[p]) :
    inbox[p][i] = inbox[p][k] => i = k

\* The messages pushed to a socket come from handlers of its own replica that
\* have their push behind them.
Pushed(s) ==
  \A i \in 1..Len(received[s]) :
    /\ conn[s].at \in Replica
    /\ pc[conn[s].at][received[s][i]] \notin {"idle", "save", "push"}

ConnInv ==
  \A s \in Socket :
    /\ conn[s].status = "new" => received[s] = <<>>
    /\ conn[s].status = "open" => conn[s].at \in Replica /\ conn[s].user \in User
    /\ Pushed(s)

NoteInv ==
  /\ TypeOK /\ HandlerInv /\ InboxInv /\ ConnInv
  /\ RegistryExact /\ SavedFirst /\ PushedOnce

-----------------------------------------------------------------------------
LEMMA InitNoteInv == Init => NoteInv
<1> SUFFICES ASSUME Init PROVE NoteInv
  OBVIOUS
<1>1. TypeOK
  BY DEF Init, TypeOK, NoSockets, NoConn, Conn, Steps
<1>2. HandlerInv /\ InboxInv
  BY DEF Init, HandlerInv, InboxInv, InInbox
<1>3. ConnInv /\ RegistryExact /\ SavedFirst /\ PushedOnce
  BY DEF Init, ConnInv, Pushed, RegistryExact, NoSockets, NoConn, Open,
         SavedFirst, PushedOnce, IsInjective
<1>4. QED
  BY <1>1, <1>2, <1>3 DEF NoteInv

-----------------------------------------------------------------------------
LEMMA NewRowType ==
  ASSUME TypeOK, NEW p \in Replica, NEW e \in Event, owner[e] # None
  PROVE  NewRow(p, e) \in Row
BY DEF TypeOK, NewRow, Row

LEMMA HeadOfInbox ==
  ASSUME TypeOK, NEW p \in Replica, inbox[p] # <<>>
  PROVE  /\ Head(inbox[p]) \in Event
         /\ Tail(inbox[p]) \in Seq(Event)
         /\ InInbox(p, Head(inbox[p]))
         /\ Len(Tail(inbox[p])) = Len(inbox[p]) - 1
         /\ \A i \in 1..Len(Tail(inbox[p])) : Tail(inbox[p])[i] = inbox[p][i + 1]
         /\ Head(inbox[p]) = inbox[p][1]
         /\ Len(inbox[p]) \in Nat \ {0}
<1>1. inbox[p] \in Seq(Event)
  BY DEF TypeOK
<1>2. /\ Len(inbox[p]) \in Nat \ {0}
      /\ Head(inbox[p]) = inbox[p][1]
      /\ Len(Tail(inbox[p])) = Len(inbox[p]) - 1
      /\ \A i \in 1..Len(Tail(inbox[p])) : Tail(inbox[p])[i] = inbox[p][i + 1]
  BY <1>1
<1>3. QED
  BY <1>1, <1>2 DEF InInbox

LEMMA GotoType ==
  ASSUME pc \in [Replica -> [Event -> Steps]],
         NEW p \in Replica, NEW e \in Event, NEW step \in Steps, Goto(p, e, step)
  PROVE  /\ pc' \in [Replica -> [Event -> Steps]]
         /\ pc'[p][e] = step
         /\ \A q \in Replica, f \in Event : <<q, f>> # <<p, e>> => pc'[q][f] = pc[q][f]
BY DEF Goto

\* A list of n copies of e.
LEMMA Copies ==
  ASSUME NEW n \in Nat, NEW e \in Event
  PROVE  /\ [i \in 1..n |-> e] \in Seq(Event)
         /\ Len([i \in 1..n |-> e]) = n
<1>1. [i \in 1..n |-> e] \in [1..n -> Event]
  OBVIOUS
<1>2. [i \in 1..n |-> e] \in Seq(Event)
  BY <1>1, SeqDef, Zenon
<1>3. QED
  BY <1>2

\* The list of one user at one replica is replaced.
LEMMA ListType ==
  ASSUME userSockets \in [Replica -> [User -> [Socket -> Nat]]],
         NEW p \in Replica, NEW u \in User, NEW s \in Socket, NEW n \in Nat,
         userSockets' = [userSockets EXCEPT ![p][u] = [userSockets[p][u] EXCEPT ![s] = n]]
  PROVE  /\ userSockets' \in [Replica -> [User -> [Socket -> Nat]]]
         /\ userSockets'[p][u][s] = n
         /\ \A q \in Replica, v \in User, t \in Socket :
              <<q, v, t>> # <<p, u, s>> => userSockets'[q][v][t] = userSockets[q][v][t]
OBVIOUS

LEMMA TypeStep ==
  ASSUME TypeOK, HandlerInv, ConnInv, [Next]_vars
  PROVE  TypeOK'
<1> USE DEF TypeOK
<1>1. ASSUME NEW e \in Event, Publish(e)
      PROVE  TypeOK'
  <2>1. PICK u \in User : owner' = [owner EXCEPT ![e] = u]
    BY <1>1 DEF Publish
  <2>2. \A p \in Replica : Append(inbox[p], e) \in Seq(Event)
    OBVIOUS
  <2>3. inbox' \in [Replica -> Seq(Event)]
    BY <1>1, <2>2 DEF Publish
  <2>4. QED
    BY <1>1, <2>1, <2>3 DEF Publish
<1>2. ASSUME NEW p \in Replica, Start(p) \/ Subscribe(p) \/ SubscribeFails(p)
      PROVE  TypeOK'
  BY <1>2 DEF Start, Subscribe, SubscribeFails
<1>3. ASSUME NEW p \in Replica, Receive(p)
      PROVE  TypeOK'
  <2>1. Head(inbox[p]) \in Event /\ Tail(inbox[p]) \in Seq(Event)
    BY <1>3, HeadOfInbox DEF Receive
  <2>2. QED
    BY <1>3, <2>1 DEF Receive, Goto, FirstStep, Steps, Busy
<1>4. ASSUME NEW p \in Replica, NEW e \in Event, Save(p, e) \/ Enqueue(p, e)
      PROVE  TypeOK'
  <2>1. NewRow(p, e) \in Row
    <3>1. owner[e] # None
      BY <1>4 DEF Save, Enqueue, HandlerInv
    <3>2. QED
      BY <3>1, NewRowType
  <2>2. rows' \subseteq Row /\ jobs' \subseteq Row
    BY <1>4, <2>1 DEF Save, Enqueue
  <2>3. pc' \in [Replica -> [Event -> Steps]]
    <3>1. "push" \in Steps /\ "done" \in Steps
      BY DEF Steps, Busy
    <3>2. QED
      BY <1>4, <3>1, GotoType DEF Save, Enqueue
  <2>4. QED
    BY <1>4, <2>2, <2>3 DEF Save, Enqueue
<1>5. ASSUME NEW p \in Replica, NEW e \in Event, Push(p, e)
      PROVE  TypeOK'
  <2>1. owner[e] \in User
    BY <1>5 DEF Push, HandlerInv
  <2> DEFINE hits(s) == IF Open(s, p) THEN userSockets[p][owner[e]][s] ELSE 0
  <2>2. received' = [s \in Socket |-> received[s] \o [i \in 1..hits(s) |-> e]]
    BY <1>5 DEF Push
  <2>3. \A s \in Socket : hits(s) \in Nat
    BY <2>1
  <2> HIDE DEF hits
  <2>4. ASSUME NEW s \in Socket
        PROVE  received[s] \o [i \in 1..hits(s) |-> e] \in Seq(Event)
    <3>1. [i \in 1..hits(s) |-> e] \in Seq(Event)
      BY <2>3, Copies
    <3>2. received[s] \in Seq(Event)
      OBVIOUS
    <3>3. QED
      BY <3>1, <3>2
  <2>5. received' \in [Socket -> Seq(Event)]
    BY <2>2, <2>4
  <2>6. QED
    BY <1>5, <2>5 DEF Push, AfterPush, Goto, Steps, Busy
<1>6. ASSUME NEW p \in Replica, NEW e \in Event, Reject(p, e)
      PROVE  TypeOK'
  BY <1>6 DEF Reject, Goto, Steps, Busy
<1>7. ASSUME NEW p \in Replica, NEW s \in Socket, Connect(p, s)
      PROVE  TypeOK'
  <2>1. PICK u \in User :
          /\ conn' = [conn EXCEPT ![s] = [status |-> "open", at |-> p, user |-> u]]
          /\ userSockets' = [userSockets EXCEPT ![p][u] =
                               [userSockets[p][u] EXCEPT ![s] = userSockets[p][u][s] + 1]]
    BY <1>7 DEF Connect, Registered
  <2>2. conn' \in [Socket -> Conn]
    BY <2>1 DEF Conn
  <2>3. userSockets[p][u][s] + 1 \in Nat
    OBVIOUS
  <2>4. userSockets' \in [Replica -> [User -> [Socket -> Nat]]]
    BY <2>1, <2>3, ListType
  <2>5. QED
    BY <1>7, <2>2, <2>4 DEF Connect
<1>8. ASSUME NEW s \in Socket, Refuse(s)
      PROVE  TypeOK'
  BY <1>8 DEF Refuse, Conn
<1>9. ASSUME NEW s \in Socket, Disconnect(s)
      PROVE  TypeOK'
  <2>1. PICK p \in Replica, u \in User : p = conn[s].at /\ u = conn[s].user
    BY <1>9 DEF Disconnect, ConnInv
  <2>2. conn' = [conn EXCEPT ![s].status = "closed"]
    BY <1>9 DEF Disconnect
  <2>3. userSockets' = [userSockets EXCEPT ![p][u] = [userSockets[p][u] EXCEPT ![s] = 0]]
    BY <1>9, <2>1 DEF Disconnect, Unregistered
  <2>4. conn' \in [Socket -> Conn]
    BY <2>2 DEF Conn
  <2>5. userSockets' \in [Replica -> [User -> [Socket -> Nat]]]
    BY <2>3, ListType
  <2>6. QED
    BY <1>9, <2>4, <2>5 DEF Disconnect
<1>10. ASSUME NEW p \in Replica, Crash(p)
       PROVE  TypeOK'
  <2>1. pc' \in [Replica -> [Event -> Steps]]
    BY <1>10 DEF Crash, Steps, Busy
  <2>2. userSockets' \in [Replica -> [User -> [Socket -> Nat]]]
    BY <1>10 DEF Crash, NoSockets
  <2>3. conn' \in [Socket -> Conn]
    BY <1>10 DEF Crash, Conn
  <2>4. QED
    BY <1>10, <2>1, <2>2, <2>3 DEF Crash
<1>11. CASE Quiet \/ UNCHANGED vars
  BY <1>11 DEF Quiet, vars
<1>12. QED
  BY <1>1, <1>2, <1>3, <1>4, <1>5, <1>6, <1>7, <1>8, <1>9, <1>10, <1>11 DEF Next

-----------------------------------------------------------------------------
LEMMA InboxStep ==
  ASSUME TypeOK, HandlerInv, InboxInv, [Next]_vars
  PROVE  InboxInv'
<1> USE DEF TypeOK
<1>1. ASSUME NEW e \in Event, Publish(e)
      PROVE  InboxInv'
  <2> SUFFICES ASSUME NEW p \in Replica
               PROVE  \A i, k \in 1..Len(inbox'[p]) :
                        inbox'[p][i] = inbox'[p][k] => i = k
    BY DEF InboxInv
  <2>1. CASE inbox'[p] = inbox[p]
    BY <2>1 DEF InboxInv
  <2>2. CASE inbox'[p] = Append(inbox[p], e)
    <3>1. inbox[p] \in Seq(Event)
      OBVIOUS
    <3>2. ~InInbox(p, e)
      BY <1>1 DEF Publish, HandlerInv
    <3>3. \A i \in 1..Len(inbox[p]) : inbox[p][i] # e
      BY <3>2 DEF InInbox
    <3>4. \A i, k \in 1..Len(inbox[p]) : inbox[p][i] = inbox[p][k] => i = k
      BY DEF InboxInv
    <3>5. QED
      BY <2>2, <3>1, <3>3, <3>4
  <2>3. QED
    BY <1>1, <2>1, <2>2 DEF Publish
<1>2. ASSUME NEW p \in Replica, Receive(p)
      PROVE  InboxInv'
  <2>1. inbox' = [inbox EXCEPT ![p] = Tail(@)]
    BY <1>2 DEF Receive
  <2>2. \A i, k \in 1..Len(Tail(inbox[p])) :
          Tail(inbox[p])[i] = Tail(inbox[p])[k] => i = k
    BY <1>2, HeadOfInbox DEF Receive, InboxInv
  <2>3. QED
    BY <2>1, <2>2 DEF InboxInv
<1>3. ASSUME NEW p \in Replica, Crash(p)
      PROVE  InboxInv'
  <2>1. inbox' = [inbox EXCEPT ![p] = <<>>]
    BY <1>3 DEF Crash
  <2>2. QED
    BY <2>1 DEF InboxInv
<1>4. CASE UNCHANGED inbox
  BY <1>4 DEF InboxInv
<1>5. QED
  BY <1>1, <1>2, <1>3, <1>4
     DEF Next, Start, Subscribe, SubscribeFails,
         Save, Push, Enqueue, Reject, Connect, Refuse,
         Disconnect, Quiet, vars

-----------------------------------------------------------------------------
\* A published message keeps its user, and its row is never removed.
LEMMA OwnersStay ==
  ASSUME TypeOK, [Next]_vars
  PROVE  /\ \A e \in Event : owner[e] # None => owner'[e] = owner[e]
         /\ rows \subseteq rows'
<1> USE DEF TypeOK
<1>1. ASSUME NEW e \in Event, Publish(e)
      PROVE  /\ \A f \in Event : owner[f] # None => owner'[f] = owner[f]
             /\ rows \subseteq rows'
  BY <1>1 DEF Publish
<1>2. CASE UNCHANGED owner /\ rows \subseteq rows'
  BY <1>2
<1>3. QED
  BY <1>1, <1>2
     DEF Next, Start, Subscribe, SubscribeFails,
         Receive, Save, Push, Enqueue, Reject, Connect, Refuse,
         Disconnect, Crash, Quiet, vars

LEMMA HandlerStep ==
  ASSUME TypeOK, HandlerInv, InboxInv, [Next]_vars
  PROVE  HandlerInv'
<1> USE DEF TypeOK
<1>0. \A p \in Replica, e \in Event :
        /\ owner[e] # None => owner'[e] # None
        /\ owner[e] # None => NewRow(p, e)' = NewRow(p, e)
        /\ owner[e] # None /\ NewRow(p, e) \in rows => NewRow(p, e)' \in rows'
  BY OwnersStay DEF NewRow
<1>1. ASSUME NEW e \in Event, Publish(e)
      PROVE  HandlerInv'
  <2> SUFFICES ASSUME NEW p \in Replica, NEW f \in Event
               PROVE  /\ InInbox(p, f)' => pc'[p][f] = "idle"
                      /\ InInbox(p, f)' \/ pc'[p][f] # "idle" => owner'[f] # None
                      /\ pc'[p][f] \in {"push", "queue"} => NewRow(p, f)' \in rows'
    BY DEF HandlerInv
  <2>1. pc' = pc
    BY <1>1 DEF Publish
  <2>2. InInbox(p, f)' => InInbox(p, f) \/ f = e
    <3>1. inbox[p] \in Seq(Event)
      OBVIOUS
    <3>2. inbox'[p] = inbox[p] \/ inbox'[p] = Append(inbox[p], e)
      BY <1>1 DEF Publish
    <3>3. QED
      BY <3>1, <3>2 DEF InInbox
  <2>3. f = e => owner[f] = None /\ owner'[f] # None
    BY <1>1, NotificationAssumption DEF Publish
  <2>4. QED
    BY <1>0, <2>1, <2>2, <2>3 DEF HandlerInv
<1>2. ASSUME NEW p \in Replica, Receive(p)
      PROVE  HandlerInv'
  <2> SUFFICES ASSUME NEW q \in Replica, NEW f \in Event
               PROVE  /\ InInbox(q, f)' => pc'[q][f] = "idle"
                      /\ InInbox(q, f)' \/ pc'[q][f] # "idle" => owner'[f] # None
                      /\ pc'[q][f] \in {"push", "queue"} => NewRow(q, f)' \in rows'
    BY DEF HandlerInv
  <2> DEFINE e == Head(inbox[p])
  <2>1. e \in Event /\ InInbox(p, e)
    BY <1>2, HeadOfInbox DEF Receive
  <2>2. \A g \in Event : InInbox(p, g)' => InInbox(p, g) /\ g # e
    <3>1. inbox'[p] = Tail(inbox[p])
      BY <1>2 DEF Receive
    <3>2. QED
      BY <1>2, <3>1, HeadOfInbox DEF Receive, InInbox, InboxInv
  <2>3. \A o \in Replica \ {p}, g \in Event : InInbox(o, g)' => InInbox(o, g)
    BY <1>2 DEF Receive, InInbox
  <2>4. pc'[p][e] = "save"
    BY <1>2, <2>1 DEF Receive, Goto, FirstStep
  <2>5. \A o \in Replica, g \in Event : <<o, g>> # <<p, e>> => pc'[o][g] = pc[o][g]
    BY <1>2, <2>1 DEF Receive, Goto
  <2> HIDE DEF e
  <2>6. owner[e] # None
    BY <2>1 DEF HandlerInv
  <2>7. CASE <<q, f>> = <<p, e>>
    BY <1>0, <2>2, <2>4, <2>6, <2>7
  <2>8. CASE <<q, f>> # <<p, e>>
    <3>1. InInbox(q, f)' => InInbox(q, f)
      BY <2>2, <2>3
    <3>2. pc'[q][f] = pc[q][f]
      BY <2>5, <2>8
    <3>3. QED
      BY <1>0, <3>1, <3>2 DEF HandlerInv
  <2>9. QED
    BY <2>7, <2>8
<1>3. ASSUME NEW p \in Replica, NEW e \in Event,
             Save(p, e) \/ Push(p, e) \/ Enqueue(p, e) \/ Reject(p, e)
      PROVE  HandlerInv'
  <2>1. PICK step \in {"push", "queue", "done", "failed"} : Goto(p, e, step)
    BY <1>3 DEF Save, Push, Enqueue, Reject, AfterPush
  <2>2. /\ pc'[p][e] = step
        /\ \A q \in Replica, f \in Event : <<q, f>> # <<p, e>> => pc'[q][f] = pc[q][f]
    BY <2>1, GotoType DEF Steps, Busy
  <2>3. pc[p][e] \in Busy
    BY <1>3 DEF Save, Push, Enqueue, Reject, Busy
  <2>4. step \in {"push", "queue"} => NewRow(p, e)' \in rows'
    <3>1. CASE Save(p, e)
      BY <3>1, <1>0, <2>3 DEF Save, HandlerInv, Busy
    <3>2. CASE Push(p, e)
      BY <3>2, <1>0, <2>3 DEF Push, HandlerInv, Busy
    <3>3. CASE Enqueue(p, e) \/ Reject(p, e)
      BY <3>3, <2>2 DEF Enqueue, Reject, Goto
    <3>4. QED
      BY <1>3, <3>1, <3>2, <3>3
  <2>5. \A q \in Replica, f \in Event : InInbox(q, f)' = InInbox(q, f)
    BY <1>3 DEF Save, Push, Enqueue, Reject, InInbox
  <2>6. owner[e] # None /\ ~InInbox(p, e)
    BY <2>3 DEF HandlerInv, Busy
  <2> SUFFICES ASSUME NEW q \in Replica, NEW f \in Event
               PROVE  /\ InInbox(q, f)' => pc'[q][f] = "idle"
                      /\ InInbox(q, f)' \/ pc'[q][f] # "idle" => owner'[f] # None
                      /\ pc'[q][f] \in {"push", "queue"} => NewRow(q, f)' \in rows'
    BY DEF HandlerInv
  <2> HIDE DEF TypeOK
  <2>7. CASE <<q, f>> = <<p, e>>
    BY <1>0, <2>2, <2>4, <2>5, <2>6, <2>7
  <2>8. CASE <<q, f>> # <<p, e>>
    <3>1. pc'[q][f] = pc[q][f]
      BY <2>2, <2>8
    <3>2. QED
      BY <1>0, <2>5, <3>1 DEF HandlerInv
  <2>9. QED
    BY <2>7, <2>8
<1>4. ASSUME NEW p \in Replica, Crash(p)
      PROVE  HandlerInv'
  <2> SUFFICES ASSUME NEW q \in Replica, NEW f \in Event
               PROVE  /\ InInbox(q, f)' => pc'[q][f] = "idle"
                      /\ InInbox(q, f)' \/ pc'[q][f] # "idle" => owner'[f] # None
                      /\ pc'[q][f] \in {"push", "queue"} => NewRow(q, f)' \in rows'
    BY DEF HandlerInv
  <2>1. CASE q = p
    <3>1. ~InInbox(p, f)'
      BY <1>4 DEF Crash, InInbox
    <3>2. pc'[p][f] = IF pc[p][f] \in Busy \/ InInbox(p, f) THEN "lost" ELSE pc[p][f]
      BY <1>4 DEF Crash
    <3>3. pc'[p][f] \notin {"push", "queue"}
      BY <3>2 DEF Busy
    <3>4. pc'[p][f] # "idle" => owner[f] # None
      BY <3>2 DEF Busy, HandlerInv
    <3>5. QED
      BY <1>0, <2>1, <3>1, <3>3, <3>4
  <2>2. CASE q # p
    <3>1. inbox'[q] = inbox[q] /\ pc'[q] = pc[q]
      BY <1>4, <2>2 DEF Crash
    <3>2. InInbox(q, f)' <=> InInbox(q, f)
      BY <3>1 DEF InInbox
    <3>3. QED
      BY <1>0, <3>1, <3>2 DEF HandlerInv
  <2>3. QED
    BY <2>1, <2>2
<1>5. CASE UNCHANGED <<owner, inbox, pc, rows>>
  BY <1>5 DEF HandlerInv, InInbox, NewRow
<1>6. QED
  BY <1>1, <1>2, <1>3, <1>4, <1>5
     DEF Next, Start, Subscribe, SubscribeFails, Connect, Refuse, Disconnect, Quiet, vars

-----------------------------------------------------------------------------
LEMMA RegistryStep ==
  ASSUME TypeOK, ConnInv, RegistryExact, [Next]_vars
  PROVE  RegistryExact'
<1> USE DEF TypeOK
<1>1. ASSUME NEW p \in Replica, NEW s \in Socket, Connect(p, s)
      PROVE  RegistryExact'
  <2>1. PICK u \in User :
          /\ conn' = [conn EXCEPT ![s] = [status |-> "open", at |-> p, user |-> u]]
          /\ userSockets' = [userSockets EXCEPT ![p][u] =
                               [userSockets[p][u] EXCEPT ![s] = userSockets[p][u][s] + 1]]
    BY <1>1 DEF Connect, Registered
  <2>2. \A q \in Replica, v \in User : userSockets[q][v][s] = 0
    BY <1>1 DEF Connect, RegistryExact, Open
  <2>3. /\ userSockets'[p][u][s] = 1
        /\ \A q \in Replica, v \in User, t \in Socket :
             <<q, v, t>> # <<p, u, s>> => userSockets'[q][v][t] = userSockets[q][v][t]
    BY <2>1, <2>2, ListType
  <2>4. /\ conn'[s] = [status |-> "open", at |-> p, user |-> u]
        /\ \A t \in Socket \ {s} : conn'[t] = conn[t]
    BY <2>1
  <2> SUFFICES ASSUME NEW q \in Replica, NEW v \in User, NEW t \in Socket
               PROVE  userSockets'[q][v][t] =
                        IF Open(t, q)' /\ conn'[t].user = v THEN 1 ELSE 0
    BY DEF RegistryExact
  <2>5. CASE t = s
    BY <2>2, <2>3, <2>4, <2>5 DEF Open
  <2>6. CASE t # s
    BY <2>3, <2>4, <2>6 DEF Open, RegistryExact
  <2>7. QED
    BY <2>5, <2>6
<1>2. ASSUME NEW s \in Socket, Refuse(s)
      PROVE  RegistryExact'
  <2>1. /\ conn[s].status = "new" /\ conn'[s].status = "closed"
        /\ \A t \in Socket \ {s} : conn'[t] = conn[t]
        /\ userSockets' = userSockets
    BY <1>2 DEF Refuse, Conn
  <2>2. \A q \in Replica, t \in Socket :
          (Open(t, q)' <=> Open(t, q)) /\ (Open(t, q) => conn'[t] = conn[t])
    BY <2>1 DEF Open
  <2>3. QED
    BY <2>1, <2>2 DEF RegistryExact
<1>3. ASSUME NEW s \in Socket, Disconnect(s)
      PROVE  RegistryExact'
  <2>1. PICK p \in Replica, u \in User : p = conn[s].at /\ u = conn[s].user
    BY <1>3 DEF Disconnect, ConnInv
  <2>2. userSockets' = [userSockets EXCEPT ![p][u] = [userSockets[p][u] EXCEPT ![s] = 0]]
    BY <1>3, <2>1 DEF Disconnect, Unregistered
  <2>3. /\ userSockets'[p][u][s] = 0
        /\ \A q \in Replica, v \in User, t \in Socket :
             <<q, v, t>> # <<p, u, s>> => userSockets'[q][v][t] = userSockets[q][v][t]
    BY <2>2, ListType
  <2>4. /\ conn'[s].status = "closed"
        /\ \A t \in Socket \ {s} : conn'[t] = conn[t]
    BY <1>3 DEF Disconnect, Conn
  <2> SUFFICES ASSUME NEW q \in Replica, NEW v \in User, NEW t \in Socket
               PROVE  userSockets'[q][v][t] =
                        IF Open(t, q)' /\ conn'[t].user = v THEN 1 ELSE 0
    BY DEF RegistryExact
  <2>5. CASE t = s
    BY <2>1, <2>3, <2>4, <2>5 DEF Open, RegistryExact
  <2>6. CASE t # s
    BY <2>3, <2>4, <2>6 DEF Open, RegistryExact
  <2>7. QED
    BY <2>5, <2>6
<1>4. ASSUME NEW p \in Replica, Crash(p)
      PROVE  RegistryExact'
  <2>1. \A t \in Socket :
          /\ Open(t, p) => conn'[t].status = "closed"
          /\ ~Open(t, p) => conn'[t] = conn[t]
    BY <1>4 DEF Crash, Conn, Open
  <2>2. /\ \A v \in User, t \in Socket : userSockets'[p][v][t] = 0
        /\ \A q \in Replica \ {p} : userSockets'[q] = userSockets[q]
    BY <1>4 DEF Crash, NoSockets
  <2> SUFFICES ASSUME NEW q \in Replica, NEW v \in User, NEW t \in Socket
               PROVE  userSockets'[q][v][t] =
                        IF Open(t, q)' /\ conn'[t].user = v THEN 1 ELSE 0
    BY DEF RegistryExact
  <2>3. CASE q = p
    <3>1. ~Open(t, p)'
      BY <2>1 DEF Open
    <3>2. QED
      BY <2>2, <2>3, <3>1
  <2>4. CASE q # p
    <3>1. Open(t, q)' <=> Open(t, q)
      BY <2>1, <2>4 DEF Open
    <3>2. Open(t, q) => conn'[t] = conn[t]
      BY <2>1, <2>4 DEF Open
    <3>3. userSockets'[q][v][t] = userSockets[q][v][t]
      BY <2>2, <2>4
    <3>4. QED
      BY <3>1, <3>2, <3>3 DEF RegistryExact
  <2>5. QED
    BY <2>3, <2>4
<1>5. CASE UNCHANGED <<userSockets, conn>>
  BY <1>5 DEF RegistryExact, Open
<1>6. QED
  BY <1>1, <1>2, <1>3, <1>4, <1>5
     DEF Next, Publish, Start, Subscribe, SubscribeFails,
         Receive, Save, Push, Enqueue, Reject, Quiet, vars

-----------------------------------------------------------------------------
\* What one step does to a socket that has been pushed something.
LEMMA SocketsStay ==
  ASSUME TypeOK, ConnInv, [Next]_vars
  PROVE  \A s \in Socket :
           conn[s].status # "new" =>
             /\ conn'[s].at = conn[s].at /\ conn'[s].user = conn[s].user
             /\ conn'[s].status # "new"
             /\ conn'[s].status = "open" => conn[s].status = "open"
<1> USE DEF TypeOK, Conn
<1>1. ASSUME NEW p \in Replica, NEW t \in Socket, Connect(p, t)
      PROVE  \A s \in Socket : conn[s].status # "new" => conn'[s] = conn[s]
  BY <1>1 DEF Connect
<1>2. ASSUME NEW t \in Socket, Refuse(t) \/ Disconnect(t)
      PROVE  /\ conn'[t].status = "closed"
             /\ conn'[t].at = conn[t].at /\ conn'[t].user = conn[t].user
             /\ \A s \in Socket \ {t} : conn'[s] = conn[s]
  BY <1>2 DEF Refuse, Disconnect
<1>3. ASSUME NEW p \in Replica, Crash(p)
      PROVE  \A s \in Socket :
               \/ conn'[s] = conn[s]
               \/ /\ conn'[s].status = "closed"
                  /\ conn'[s].at = conn[s].at /\ conn'[s].user = conn[s].user
  BY <1>3 DEF Crash
<1>4. CASE UNCHANGED conn
  BY <1>4
<1>5. QED
  BY <1>1, <1>2, <1>3, <1>4
     DEF Next, Publish, Start, Subscribe, SubscribeFails,
         Receive, Save, Push, Enqueue, Reject, Quiet, vars

\* A handler that has pushed does not push again.
LEMMA PushedStays ==
  ASSUME TypeOK, HandlerInv, [Next]_vars
  PROVE  \A p \in Replica, e \in Event :
           pc[p][e] \notin {"idle", "save", "push"} => pc'[p][e] \notin {"idle", "save", "push"}
<1> USE DEF TypeOK
<1>1. ASSUME NEW p \in Replica, Receive(p)
      PROVE  \A q \in Replica, e \in Event : pc[q][e] # "idle" => pc'[q][e] = pc[q][e]
  <2>1. Head(inbox[p]) \in Event /\ pc[p][Head(inbox[p])] = "idle"
    BY <1>1, HeadOfInbox DEF Receive, HandlerInv
  <2>2. QED
    BY <1>1, <2>1 DEF Receive, Goto
<1>2. ASSUME NEW p \in Replica, NEW e \in Event,
             Save(p, e) \/ Push(p, e) \/ Enqueue(p, e) \/ Reject(p, e)
      PROVE  \A q \in Replica, f \in Event :
               pc[q][f] \notin {"idle", "save", "push"} =>
                 pc'[q][f] \in {pc[q][f], "done", "failed"}
  <2>1. PICK step \in Steps :
          /\ Goto(p, e, step)
          /\ pc[p][e] \notin {"idle", "save", "push"} => step \in {"done", "failed"}
    BY <1>2 DEF Save, Push, Enqueue, Reject, AfterPush, Steps, Busy
  <2>2. pc'[p][e] = step
    BY <2>1, GotoType
  <2>3. \A q \in Replica, f \in Event : <<q, f>> # <<p, e>> => pc'[q][f] = pc[q][f]
    BY <2>1, GotoType
  <2>4. QED
    BY <2>1, <2>2, <2>3
<1>3. ASSUME NEW p \in Replica, Crash(p)
      PROVE  \A q \in Replica, f \in Event : pc'[q][f] \in {pc[q][f], "lost"}
  BY <1>3 DEF Crash
<1>4. CASE UNCHANGED pc
  BY <1>4
<1>5. QED
  BY <1>1, <1>2, <1>3, <1>4
     DEF Next, Publish, Start, Subscribe, SubscribeFails,
         Connect, Refuse, Disconnect, Quiet, vars

\* A push adds the message once to the open sockets of its user at this
\* replica, and to no other.
LEMMA PushAdds ==
  ASSUME TypeOK, HandlerInv, RegistryExact,
         NEW p \in Replica, NEW e \in Event, Push(p, e), NEW s \in Socket
  PROVE  \/ received'[s] = received[s]
         \/ /\ received'[s] = Append(received[s], e)
            /\ Open(s, p) /\ conn[s].user = owner[e]
<1> USE DEF TypeOK
<1>1. owner[e] \in User
  BY DEF Push, HandlerInv
<1> DEFINE n == IF Open(s, p) THEN userSockets[p][owner[e]][s] ELSE 0
<1>2. received'[s] = received[s] \o [i \in 1..n |-> e]
  BY DEF Push
<1>3. received[s] \in Seq(Event)
  OBVIOUS
<1>4. \/ n = 0
      \/ n = 1 /\ Open(s, p) /\ conn[s].user = owner[e]
  BY <1>1 DEF RegistryExact
<1> HIDE DEF n, TypeOK
<1>5. CASE n = 0
  <2>1. 1..n = {}
    BY <1>5
  <2>2. [i \in 1..n |-> e] = <<>>
    BY <2>1
  <2>3. received[s] \o <<>> = received[s]
    BY <1>3
  <2>4. received'[s] = received[s] \o <<>>
    BY <1>2, <2>2
  <2>5. QED
    BY <2>3, <2>4
<1>6. CASE n = 1 /\ Open(s, p) /\ conn[s].user = owner[e]
  <2>1. [i \in 1..n |-> e] = <<e>>
    BY <1>6
  <2>2. received'[s] = received[s] \o <<e>>
    BY <1>2, <2>1
  <2>3. received[s] \o <<e>> = Append(received[s], e)
    BY <1>3
  <2>4. QED
    BY <1>6, <2>2, <2>3
<1>7. QED
  BY <1>4, <1>5, <1>6

\* What a socket has received changes by one push at most.
LEMMA ReceivedGrows ==
  ASSUME TypeOK, HandlerInv, RegistryExact, [Next]_vars, NEW s \in Socket
  PROVE  \/ received'[s] = received[s]
         \/ \E p \in Replica, e \in Event :
              /\ Push(p, e) /\ Open(s, p) /\ conn[s].user = owner[e]
              /\ received'[s] = Append(received[s], e)
<1>1. ASSUME NEW p \in Replica, NEW e \in Event, Push(p, e)
      PROVE  \/ received'[s] = received[s]
             \/ /\ Open(s, p) /\ conn[s].user = owner[e]
                /\ received'[s] = Append(received[s], e)
  BY <1>1, PushAdds
<1>2. CASE UNCHANGED received
  BY <1>2
<1>3. QED
  BY <1>1, <1>2
     DEF Next, Publish, Start, Subscribe, SubscribeFails,
         Receive, Save, Enqueue, Reject, Connect, Refuse,
         Disconnect, Crash, Quiet, vars

LEMMA ConnStep ==
  ASSUME TypeOK, HandlerInv, ConnInv, RegistryExact, [Next]_vars
  PROVE  ConnInv'
<1> USE DEF TypeOK
<1> SUFFICES ASSUME NEW s \in Socket
             PROVE  /\ conn'[s].status = "new" => received'[s] = <<>>
                    /\ conn'[s].status = "open" =>
                         conn'[s].at \in Replica /\ conn'[s].user \in User
                    /\ Pushed(s)'
  BY DEF ConnInv
<1>1. conn'[s].status = "new" => received'[s] = <<>>
  <2> SUFFICES ASSUME conn'[s].status = "new" PROVE received'[s] = <<>>
    OBVIOUS
  <2>1. conn[s].status = "new" /\ ~(\E p \in Replica : Open(s, p))
    BY SocketsStay DEF Open
  <2>2. QED
    BY <2>1, ReceivedGrows DEF ConnInv
<1>2. conn'[s].status = "open" => conn'[s].at \in Replica /\ conn'[s].user \in User
  <2>1. CASE conn[s].status # "new"
    BY <2>1, SocketsStay DEF ConnInv
  <2>2. ASSUME conn[s].status = "new", NEW p \in Replica, NEW t \in Socket, Connect(p, t)
        PROVE  conn'[s].status = "open" => conn'[s].at \in Replica /\ conn'[s].user \in User
    BY <2>2 DEF Connect, Conn
  <2>3. CASE conn[s].status = "new" /\ conn'[s].status # "open"
    BY <2>3
  <2>4. CASE UNCHANGED conn
    BY <2>4 DEF ConnInv
  <2>5. ASSUME NEW t \in Socket, Refuse(t) \/ Disconnect(t), conn[s].status = "new"
        PROVE  conn'[s].status # "open"
    BY <2>5 DEF Refuse, Disconnect, Conn
  <2>6. ASSUME NEW p \in Replica, Crash(p), conn[s].status = "new"
        PROVE  conn'[s].status # "open"
    BY <2>6 DEF Crash, Conn, Open
  <2>7. QED
    BY <2>1, <2>2, <2>3, <2>4, <2>5, <2>6
       DEF Next, Publish, Start, Subscribe, SubscribeFails,
           Receive, Save, Push, Enqueue, Reject, Quiet, vars
<1>3. Pushed(s)'
  <2>1. ASSUME NEW i \in 1..Len(received[s])
        PROVE  /\ conn'[s].at \in Replica
               /\ pc'[conn'[s].at][received[s][i]] \notin {"idle", "save", "push"}
    <3>1. conn[s].status # "new"
      BY DEF ConnInv
    <3>2. received[s][i] \in Event
      OBVIOUS
    <3>3. conn'[s].at = conn[s].at /\ conn[s].at \in Replica
      BY <3>1, SocketsStay DEF ConnInv, Pushed
    <3>4. pc[conn[s].at][received[s][i]] \notin {"idle", "save", "push"}
      BY DEF ConnInv, Pushed
    <3>5. QED
      BY <3>2, <3>3, <3>4, PushedStays
  <2>2. CASE received'[s] = received[s]
    BY <2>1, <2>2 DEF Pushed
  <2>3. ASSUME NEW p \in Replica, NEW e \in Event, Push(p, e), Open(s, p),
               received'[s] = Append(received[s], e)
        PROVE  Pushed(s)'
    <3>1. conn'[s].at = p /\ pc'[p][e] = "queue"
      BY <2>3 DEF Push, Open, AfterPush, Goto
    <3>2. received[s] \in Seq(Event)
      OBVIOUS
    <3>3. QED
      BY <2>1, <2>3, <3>1, <3>2 DEF Pushed
  <2>4. QED
    BY <2>2, <2>3, ReceivedGrows
<1>4. QED
  BY <1>1, <1>2, <1>3

LEMMA SavedStep ==
  ASSUME TypeOK, HandlerInv, ConnInv, RegistryExact, SavedFirst, [Next]_vars
  PROVE  SavedFirst'
<1> USE DEF TypeOK
<1>1. rows \subseteq rows'
  BY OwnersStay
<1>2. jobs' \subseteq rows'
  <2>1. ASSUME NEW p \in Replica, NEW e \in Event, Enqueue(p, e)
        PROVE  jobs' \subseteq rows'
    BY <2>1 DEF Enqueue, HandlerInv, SavedFirst
  <2>2. CASE UNCHANGED jobs
    BY <1>1, <2>2 DEF SavedFirst
  <2>3. QED
    BY <2>1, <2>2
       DEF Next, Publish, Start, Subscribe, SubscribeFails,
           Receive, Save, Push, Reject, Connect, Refuse,
           Disconnect, Crash, Quiet, vars
<1>3. ASSUME NEW s \in Socket, NEW i \in 1..Len(received'[s])
      PROVE  [event |-> received'[s][i], by |-> conn'[s].at, userId |-> conn'[s].user]
               \in rows'
  <2>1. CASE received'[s] = received[s]
    <3>1. conn[s].status # "new"
      BY <2>1 DEF ConnInv
    <3>2. conn'[s].at = conn[s].at /\ conn'[s].user = conn[s].user
      BY <3>1, SocketsStay
    <3>3. QED
      BY <1>1, <2>1, <3>2 DEF SavedFirst
  <2>2. ASSUME NEW p \in Replica, NEW e \in Event, Push(p, e), Open(s, p),
               conn[s].user = owner[e], received'[s] = Append(received[s], e)
        PROVE  [event |-> received'[s][i], by |-> conn'[s].at, userId |-> conn'[s].user]
                 \in rows'
    <3>1. NewRow(p, e) \in rows /\ UNCHANGED <<conn, rows>>
      BY <2>2 DEF Push, HandlerInv
    <3>2. received[s] \in Seq(Event)
      OBVIOUS
    <3>3. CASE i = Len(received[s]) + 1
      BY <2>2, <3>1, <3>2, <3>3 DEF NewRow, Open
    <3>4. CASE i \in 1..Len(received[s])
      BY <2>2, <3>1, <3>2, <3>4 DEF SavedFirst
    <3>5. QED
      BY <2>2, <3>2, <3>3, <3>4
  <2>3. QED
    BY <2>1, <2>2, ReceivedGrows
<1>4. QED
  BY <1>2, <1>3 DEF SavedFirst

LEMMA PushedOnceStep ==
  ASSUME TypeOK, HandlerInv, ConnInv, RegistryExact, PushedOnce, [Next]_vars
  PROVE  PushedOnce'
<1> USE DEF TypeOK
<1> SUFFICES ASSUME NEW s \in Socket PROVE IsInjective(received'[s])
  BY DEF PushedOnce
<1>1. CASE received'[s] = received[s]
  BY <1>1 DEF PushedOnce
<1>2. ASSUME NEW p \in Replica, NEW e \in Event, Push(p, e), Open(s, p),
             received'[s] = Append(received[s], e)
      PROVE  IsInjective(received'[s])
  <2>1. received[s] \in Seq(Event)
    OBVIOUS
  <2>2. \A i \in 1..Len(received[s]) : received[s][i] # e
    BY <1>2 DEF Push, Open, ConnInv, Pushed
  <2>3. \A i, k \in 1..Len(received[s]) : received[s][i] = received[s][k] => i = k
    BY <2>1 DEF PushedOnce, IsInjective
  <2>4. QED
    BY <1>2, <2>1, <2>2, <2>3 DEF IsInjective
<1>3. QED
  BY <1>1, <1>2, ReceivedGrows

-----------------------------------------------------------------------------
LEMMA NoteInvStep == NoteInv /\ [Next]_vars => NoteInv'
BY TypeStep, HandlerStep, InboxStep, ConnStep, RegistryStep, SavedStep, PushedOnceStep
   DEF NoteInv

LEMMA NoteInvHolds == Spec => []NoteInv
BY InitNoteInv, NoteInvStep, PTL DEF Spec

\* The rows, handlers, connections and registries of the notification service
\* always have their types.
THEOREM TypeCorrect == Spec => []TypeOK
BY NoteInvHolds, PTL DEF NoteInv

\* Through any sequence of connects, disconnects and restarts of any number of
\* replicas, each registry lists exactly the sockets open there, once.
THEOREM RegistryIsExact == Spec => []RegistryExact
BY NoteInvHolds, PTL DEF NoteInv

\* Whatever is pushed or queued as an email is stored before, for that user.
THEOREM SavedIsFirst == Spec => []SavedFirst
BY NoteInvHolds, PTL DEF NoteInv

\* However many replicas handle a message, no socket is pushed it twice.
THEOREM PushedAtMostOnce == Spec => []PushedOnce
BY NoteInvHolds, PTL DEF NoteInv

-----------------------------------------------------------------------------
(* The emails queued are those of the handlers that reached their end.       *)

JobsExact ==
  /\ \A n \in jobs : n = NewRow(n.by, n.event)
  /\ \A p \in Replica, e \in Event : NewRow(p, e) \in jobs <=> pc[p][e] = "done"

LEMMA NewRowFields ==
  ASSUME NEW p \in Replica, NEW e \in Event
  PROVE  /\ NewRow(p, e).by = p /\ NewRow(p, e).event = e
         /\ NewRow(p, e).userId = owner[e]
         /\ \A q \in Replica, f \in Event :
              NewRow(q, f) = NewRow(p, e) => q = p /\ f = e
BY DEF NewRow

LEMMA JobsStep ==
  ASSUME NoteInv, JobsExact, [Next]_vars
  PROVE  JobsExact'
<1>. USE DEF NoteInv
<1>a. /\ jobs \subseteq Row
      /\ \A p \in Replica, e \in Event : pc[p][e] # "idle" => owner[e] # None
  BY DEF TypeOK, HandlerInv
\* Neither the jobs nor the handlers that are done change, nor the user of a
\* message that was published.
<1>b. ASSUME jobs' = jobs,
             \A e \in Event : owner[e] # None => owner'[e] = owner[e],
             \A p \in Replica, e \in Event :
               pc'[p][e] = "done" <=> pc[p][e] = "done"
      PROVE  JobsExact'
  <2>1. ASSUME NEW n \in jobs
        PROVE  /\ n.by \in Replica /\ n.event \in Event
               /\ n = NewRow(n.by, n.event)'
               /\ pc[n.by][n.event] = "done"
    <3>1. n.by \in Replica /\ n.event \in Event /\ n = NewRow(n.by, n.event)
      BY <1>a DEF JobsExact, Row
    <3>2. pc[n.by][n.event] = "done"
      BY <3>1 DEF JobsExact
    <3>. QED  BY <1>a, <1>b, <3>1, <3>2 DEF NewRow
  <2>2. ASSUME NEW p \in Replica, NEW e \in Event, pc[p][e] = "done"
        PROVE  NewRow(p, e)' \in jobs
    <3>1. NewRow(p, e) \in jobs
      BY <2>2 DEF JobsExact
    <3>. QED  BY <1>a, <1>b, <2>2, <3>1 DEF NewRow
  <2>3. ASSUME NEW p \in Replica, NEW e \in Event, NewRow(p, e)' \in jobs
        PROVE  pc[p][e] = "done"
    BY <2>1, <2>3 DEF NewRow
  <2>. QED  BY <1>b, <2>1, <2>2, <2>3 DEF JobsExact
<1>0. \A e \in Event : owner[e] # None => owner'[e] = owner[e]
  BY OwnersStay
<1>1. ASSUME NEW p \in Replica, NEW e \in Event, Enqueue(p, e) PROVE JobsExact'
  <2>1. /\ jobs' = jobs \cup {NewRow(p, e)} /\ owner' = owner
        /\ pc'[p][e] = "done"
        /\ \A q \in Replica, f \in Event :
             q # p \/ f # e => pc'[q][f] = pc[q][f]
    BY <1>1 DEF Enqueue, Goto, TypeOK
  <2>2. \A q \in Replica, f \in Event : NewRow(q, f)' = NewRow(q, f)
    BY <2>1 DEF NewRow
  <2>3. \A n \in jobs' : n = NewRow(n.by, n.event)'
    BY <2>1, NewRowFields DEF JobsExact, NewRow
  <2>4. ASSUME NEW q \in Replica, NEW f \in Event
        PROVE  NewRow(q, f) \in jobs' <=> pc'[q][f] = "done"
    BY <2>1, NewRowFields DEF JobsExact
  <2>. QED  BY <2>2, <2>3, <2>4 DEF JobsExact
<1>2. ASSUME NEW p \in Replica, NEW e \in Event,
             Save(p, e) \/ Push(p, e) \/ Reject(p, e)
      PROVE  JobsExact'
  <2>1. /\ jobs' = jobs /\ pc[p][e] # "done" /\ pc'[p][e] # "done"
        /\ \A q \in Replica, f \in Event :
             q # p \/ f # e => pc'[q][f] = pc[q][f]
    BY <1>2 DEF Save, Push, Reject, Goto, AfterPush, TypeOK
  <2>. QED  BY <1>0, <1>b, <2>1
<1>3. ASSUME NEW p \in Replica, Receive(p) PROVE JobsExact'
  <2>1. PICK e \in Event : e = Head(inbox[p]) /\ pc[p][e] = "idle"
    BY <1>3, HeadOfInbox DEF Receive, HandlerInv
  <2>2. /\ jobs' = jobs /\ pc'[p][e] = "save"
        /\ \A q \in Replica, f \in Event :
             q # p \/ f # e => pc'[q][f] = pc[q][f]
    BY <1>3, <2>1 DEF Receive, Goto, FirstStep, TypeOK
  <2>. QED  BY <1>0, <1>b, <2>1, <2>2
<1>4. ASSUME NEW p \in Replica, Crash(p) PROVE JobsExact'
  <2>1. \A q \in Replica, e \in Event : pc'[q][e] = "done" <=> pc[q][e] = "done"
    BY <1>4 DEF Crash, HandlerInv, Busy, TypeOK
  <2>. QED  BY <1>0, <1>4, <1>b, <2>1 DEF Crash
<1>5. CASE pc' = pc /\ jobs' = jobs
  BY <1>0, <1>b, <1>5
<1>. QED
  BY <1>1, <1>2, <1>3, <1>4, <1>5
     DEF Next, Publish, Start, Subscribe, SubscribeFails,
         Connect, Refuse, Disconnect, Quiet, vars

\* An email is queued for exactly the messages whose handler ran to its end: a
\* crash or a rejection never leaves one half handled and queued, and none is
\* queued twice.
THEOREM JobsAreExact == Spec => []JobsExact
<1>1. Init => JobsExact
  BY DEF Init, JobsExact
<1>2. NoteInv /\ JobsExact /\ [Next]_vars => JobsExact'
  BY JobsStep
<1>. QED  BY <1>1, <1>2, NoteInvHolds, PTL DEF Spec
=============================================================================
