------------------------- MODULE OrderEventsProofs -------------------------
(***************************************************************************)
(* Proofs about the composition OrderEvents: it implements each of its     *)
(* components, so what is proved of a component holds in it; and what a    *)
(* customer is told is true, for any number of orders, users, requests,    *)
(* replicas and sockets.                                                   *)
(***************************************************************************)
EXTENDS OrderEvents, FiniteSetTheorems, SequenceTheorems, TLAPS

OP == INSTANCE OrderServiceProofs

NP == INSTANCE NotificationsProofs WITH pc <- handler

EP == INSTANCE EmailQueueProofs WITH Job <- NS!Row, Worker <- Replica

-----------------------------------------------------------------------------
(* The order service: every step is one of its steps, or changes nothing of *)
(* it.                                                                       *)

LEMMA OrderInit == Init => OP!Init
BY DEF Init, OS!Init, OP!Init, OS!NoJob, OP!NoJob

LEMMA OrderActions ==
  ASSUME NEW r \in Request
  PROVE  /\ OS!Create(r) => OP!Create(r)
         /\ OS!FindForUpdate(r) => OP!FindForUpdate(r)
         /\ OS!SelectForSave(r) => OP!SelectForSave(r)
         /\ OS!WriteForSave(r) => OP!WriteForSave(r)
         /\ OS!Publish(r) => OP!Publish(r)
         /\ OS!SoftDelete(r) => OP!SoftDelete(r)
         /\ OS!Abort(r) => OP!Abort(r)
<1> USE DEF OS!Goto, OP!Goto
<1>1. OS!Create(r) => OP!Create(r)
  BY DEF OS!Create, OP!Create, OS!NewRow, OP!NewRow
<1>2. OS!FindForUpdate(r) => OP!FindForUpdate(r)
  BY DEF OS!FindForUpdate, OP!FindForUpdate, OS!MayStart, OP!MayStart,
         OS!InFlight, OP!InFlight, OS!Visible, OP!Visible
<1>3. OS!SelectForSave(r) => OP!SelectForSave(r)
  BY DEF OS!SelectForSave, OP!SelectForSave, OS!Changed, OP!Changed, OS!Column, OP!Column
<1>4. OS!WriteForSave(r) => OP!WriteForSave(r)
  BY DEF OS!WriteForSave, OP!WriteForSave, OS!Updated, OP!Updated,
         OS!Announces, OP!Announces
<1>5. OS!Publish(r) => OP!Publish(r)
  BY DEF OS!Publish, OP!Publish, OS!MessageOf, OP!MessageOf
<1>6. OS!SoftDelete(r) => OP!SoftDelete(r)
  BY DEF OS!SoftDelete, OP!SoftDelete, OS!MayStart, OP!MayStart, OS!InFlight, OP!InFlight
<1>7. OS!Abort(r) => OP!Abort(r)
  BY DEF OS!Abort, OP!Abort, OS!InFlight, OP!InFlight
<1>8. QED
  BY <1>1, <1>2, <1>3, <1>4, <1>5, <1>6, <1>7

LEMMA OrderNext == [Next]_vars => [OP!Next]_OP!vars
<1> SUFFICES ASSUME [Next]_vars PROVE [OP!Next]_OP!vars
  OBVIOUS
<1>1. ASSUME NEW r \in Request, OrderStep(r) \/ Publish(r)
      PROVE  OP!Next
  BY <1>1, OrderActions DEF OrderStep, Publish, OP!Next
<1>2. CASE UNCHANGED orderVars
  BY <1>2 DEF orderVars, OP!vars
<1>3. QED
  BY <1>1, <1>2
     DEF Next, NoteStep, SocketStep, Enqueue, WorkerStep, StallCheck, Crash, Quiet,
         vars, orderVars

\* The composition implements the order service.
LEMMA OrderSpec == Spec => OP!Spec
BY OrderInit, OrderNext, PTL DEF Spec, OP!Spec

LEMMA OrderInvariant == Spec => []OP!RaceInv
<1>1. OP!Spec => []OP!RaceInv
  BY OP!RaceInvariant, EventsAssumption DEF OS!OrderStatus, OP!OrderStatus
<1>2. QED
  BY <1>1, OrderSpec, PTL

-----------------------------------------------------------------------------
(* The events: no more messages than requests, so each has its event.        *)

Done == {r \in Request : pc[r] = "done"}

CountInv == \A o \in Order : Len(channel[o]) <= Cardinality(Done)

LEMMA DoneFacts ==
  /\ IsFiniteSet(Done) /\ Cardinality(Done) \in Nat
  /\ Cardinality(Request) \in Nat
BY EventsAssumption, FS_Subset, FS_CardinalityType DEF Done

LEMMA DoneGrows ==
  ASSUME OP!TypeOK, [OP!Next]_OP!vars
  PROVE  Done \subseteq Done'
BY DEF OP!Next, OP!vars, OP!TypeOK, OP!Create, OP!FindForUpdate, OP!SelectForSave,
       OP!WriteForSave, OP!Publish, OP!SoftDelete, OP!Abort, OP!Quiet, OP!Goto,
       OP!InFlight, Done

LEMMA PublishCounts ==
  ASSUME OP!TypeOK, NEW r \in Request, OP!Publish(r)
  PROVE  /\ Cardinality(Done') = Cardinality(Done) + 1
         /\ Cardinality(Done) < Cardinality(Request)
<1>1. r \notin Done /\ Done' = Done \cup {r}
  BY DEF OP!Publish, OP!Goto, OP!TypeOK, Done
<1>2. Cardinality(Done') = Cardinality(Done) + 1
  BY <1>1, DoneFacts, FS_AddElement
<1>3. Done' \subseteq Request
  BY DEF Done
<1>4. Cardinality(Done') <= Cardinality(Request)
  BY <1>3, EventsAssumption, FS_Subset
<1>5. QED
  BY <1>2, <1>4, DoneFacts

LEMMA CountStep ==
  ASSUME OP!RaceInv, CountInv, [Next]_vars
  PROVE  CountInv'
<1> USE DEF OP!RaceInv
<1>0. [OP!Next]_OP!vars
  BY OrderNext
<1>1. ASSUME NEW r \in Request, OP!Publish(r)
      PROVE  CountInv'
  <2>1. PICK o \in Order : o = job[r].id
    BY <1>1 DEF OP!HandlerOK, OP!Publish
  <2>2. channel' = [channel EXCEPT ![o] = Append(@, OP!MessageOf(job[r]))]
    BY <1>1, <2>1 DEF OP!Publish
  <2>3. /\ channel[o] \in Seq(OP!Message)
        /\ \A p \in Order \ {o} : channel'[p] = channel[p]
        /\ channel'[o] = Append(channel[o], OP!MessageOf(job[r]))
    BY <2>2 DEF OP!TypeOK
  <2>4. Len(channel'[o]) = Len(channel[o]) + 1 /\ Len(channel[o]) \in Nat
    BY <2>3
  <2>5. Cardinality(Done') = Cardinality(Done) + 1
    BY <1>1, PublishCounts
  <2>6. ASSUME NEW p \in Order
        PROVE  Len(channel'[p]) <= Cardinality(Done')
    <3>1. channel[p] \in Seq(OP!Message)
      BY DEF OP!TypeOK
    <3>2. Len(channel[p]) \in Nat
      BY <3>1
    <3>3. QED
      BY <2>3, <2>4, <2>5, <3>2, DoneFacts DEF CountInv
  <2>7. QED
    BY <2>6 DEF CountInv
<1>2. CASE UNCHANGED channel
  <2>1. Cardinality(Done) <= Cardinality(Done')
    <3>1. Done \subseteq Done' /\ IsFiniteSet(Done')
      BY <1>0, DoneGrows, EventsAssumption, FS_Subset DEF Done
    <3>2. QED
      BY <3>1, FS_Subset
  <2>2. ASSUME NEW p \in Order
        PROVE  Len(channel'[p]) <= Cardinality(Done')
    <3>1. channel[p] \in Seq(OP!Message)
      BY DEF OP!TypeOK
    <3>2. Len(channel[p]) \in Nat
      BY <3>1
    <3>3. Cardinality(Done') \in Nat
      BY EventsAssumption, FS_Subset, FS_CardinalityType DEF Done
    <3>4. QED
      BY <1>2, <2>1, <3>2, <3>3, DoneFacts DEF CountInv
  <2>3. QED
    BY <2>2 DEF CountInv
<1>3. QED
  BY <1>0, <1>1, <1>2
     DEF OP!Next, OP!vars, OP!Create, OP!FindForUpdate, OP!SelectForSave,
         OP!WriteForSave, OP!SoftDelete, OP!Abort, OP!Quiet

LEMMA CountInvariant == Spec => []CountInv
<1>1. Init => CountInv
  <2>1. Init => \A o \in Order : Len(channel[o]) = 0
    BY DEF Init, OS!Init
  <2>2. QED
    BY <2>1, DoneFacts DEF CountInv
<1>2. OP!RaceInv /\ CountInv /\ [Next]_vars => CountInv'
  BY CountStep
<1>3. QED
  BY <1>1, <1>2, OrderInvariant, PTL DEF Spec

\* The event of the message a request is about to publish.
LEMMA EventOfPublish ==
  ASSUME OP!RaceInv, CountInv, NEW r \in Request, Publish(r)
  PROVE  /\ job[r].id \in Order
         /\ EventOf(job[r].id) \in Event
         /\ EventOf(job[r].id) = <<job[r].id, Len(channel[job[r].id]) + 1>>
<1>1. OP!Publish(r)
  BY OrderActions DEF Publish
<1>2. job[r].id \in Order
  BY <1>1 DEF OP!RaceInv, OP!HandlerOK, OP!Publish
<1>3. channel[job[r].id] \in Seq(OP!Message)
  BY <1>2 DEF OP!RaceInv, OP!TypeOK
<1>4. Len(channel[job[r].id]) \in Nat
  BY <1>3
<1>5. Len(channel[job[r].id]) < Cardinality(Request)
  BY <1>1, <1>2, <1>4, PublishCounts, DoneFacts DEF OP!RaceInv, CountInv
<1>6. Len(channel[job[r].id]) + 1 \in 1..Cardinality(Request)
  BY <1>4, <1>5, DoneFacts
<1>7. QED
  BY <1>2, <1>6 DEF EventOf, Event

-----------------------------------------------------------------------------
(* The notification service.                                                 *)

LEMMA NoteInit == Init => NP!Init
BY DEF Init, NS!Init, NP!Init, NS!NoSockets, NP!NoSockets, NS!NoConn, NP!NoConn

LEMMA NotePublish == ASSUME NEW e \in Event, NS!Publish(e) PROVE NP!Publish(e)
BY DEF NS!Publish, NP!Publish

LEMMA NoteReceive == ASSUME NEW p \in Replica, NS!Receive(p) PROVE NP!Receive(p)
BY DEF NS!Receive, NP!Receive, NS!Goto, NP!Goto, NS!FirstStep, NP!FirstStep

LEMMA NotePush ==
  ASSUME NEW p \in Replica, NEW e \in Event, NS!Push(p, e)
  PROVE  NP!Push(p, e)
BY DEF NS!Push, NP!Push, NS!Goto, NP!Goto, NS!AfterPush, NP!AfterPush, NS!Open, NP!Open

LEMMA NoteCrash == ASSUME NEW p \in Replica, NS!Crash(p) PROVE NP!Crash(p)
BY DEF NS!Crash, NP!Crash, NS!Busy, NP!Busy, NS!InInbox, NP!InInbox,
       NS!NoSockets, NP!NoSockets, NS!Open, NP!Open

LEMMA NoteNext ==
  OP!RaceInv /\ CountInv /\ [Next]_vars => [NP!Next]_NP!vars
<1> SUFFICES ASSUME OP!RaceInv, CountInv, [Next]_vars PROVE [NP!Next]_NP!vars
  OBVIOUS
<1>1. ASSUME NEW r \in Request, Publish(r)
      PROVE  NP!Next
  <2>1. PICK e \in Event : NS!Publish(e)
    BY <1>1, EventOfPublish DEF Publish
  <2>2. QED
    BY <2>1, NotePublish DEF NP!Next
<1>2. ASSUME NEW p \in Replica, NoteStep(p)
      PROVE  NP!Next
  <2>1. CASE NS!Start(p) \/ NS!Subscribe(p) \/ NS!SubscribeFails(p)
    BY <2>1 DEF NS!Start, NS!Subscribe, NS!SubscribeFails,
                NP!Start, NP!Subscribe, NP!SubscribeFails, NP!Next
  <2>2. CASE NS!Receive(p)
    BY <2>2, NoteReceive DEF NP!Next
  <2>3. ASSUME NEW e \in Event, NS!Save(p, e) \/ NS!Reject(p, e)
        PROVE  NP!Next
    BY <2>3 DEF NS!Save, NP!Save, NS!Reject, NP!Reject, NS!Goto, NP!Goto,
                NS!NewRow, NP!NewRow, NP!Next
  <2>4. ASSUME NEW e \in Event, NS!Push(p, e)
        PROVE  NP!Next
    BY <2>4, NotePush DEF NP!Next
  <2>5. ASSUME NEW s \in Socket, NS!Connect(p, s)
        PROVE  NP!Next
    BY <2>5 DEF NS!Connect, NP!Connect, NS!Registered, NP!Registered, NP!Next
  <2>6. QED
    BY <1>2, <2>1, <2>2, <2>3, <2>4, <2>5 DEF NoteStep
<1>3. ASSUME NEW s \in Socket, SocketStep(s)
      PROVE  NP!Next
  BY <1>3 DEF SocketStep, NS!Refuse, NP!Refuse, NS!Disconnect, NP!Disconnect,
              NS!Unregistered, NP!Unregistered, NP!Next
<1>4. ASSUME NEW p \in Replica, NEW e \in Event, Enqueue(p, e)
      PROVE  NP!Next
  BY <1>4 DEF Enqueue, NS!Enqueue, NP!Enqueue, NS!Goto, NP!Goto, NS!NewRow, NP!NewRow,
              NP!Next
<1>5. ASSUME NEW p \in Replica, Crash(p)
      PROVE  NP!Next
  BY <1>5, NoteCrash DEF Crash, NP!Next
<1>6. CASE UNCHANGED noteVars
  BY <1>6 DEF noteVars, NP!vars
<1>7. QED
  BY <1>1, <1>2, <1>3, <1>4, <1>5, <1>6
     DEF Next, OrderStep, WorkerStep, StallCheck, Quiet, vars

\* The composition implements the notification service.
LEMMA NoteSpec == Spec => NP!Spec
BY NoteInit, NoteNext, OrderInvariant, CountInvariant, PTL DEF Spec, NP!Spec

LEMMA NoteInvariant == Spec => []NP!NoteInv
<1>1. NP!Spec => []NP!NoteInv
  BY NP!NoteInvHolds, EventsAssumption
<1>2. QED
  BY <1>1, NoteSpec, PTL

-----------------------------------------------------------------------------
(* The email queue: what is queued is a row the handler has made.            *)

LEMMA EmailInit == Init => EP!Init
BY DEF Init, EQ!Init, EP!Init, EQ!Idle, EP!Idle

\* The instance of the queue brings its own copy of IsFiniteSet.
LEMMA EmailAssumptions == EP!EmailAssumption
BY EventsAssumption DEF EP!EmailAssumption, IsFiniteSet, EP!IsFiniteSet

LEMMA EmailAdd ==
  ASSUME NP!NoteInv, NEW p \in Replica, NEW e \in Event, Enqueue(p, e)
  PROVE  NS!NewRow(p, e) \in NS!Row /\ EP!Add(NS!NewRow(p, e))
<1>1. NP!Enqueue(p, e)
  BY DEF Enqueue, NS!Enqueue, NP!Enqueue, NS!Goto, NP!Goto, NS!NewRow, NP!NewRow
<1>2. owner[e] \in User
  BY <1>1 DEF NP!Enqueue, NP!NoteInv, NP!HandlerInv, NP!TypeOK
<1>3. NS!NewRow(p, e) \in NS!Row
  BY <1>2 DEF NS!NewRow, NS!Row
<1>4. QED
  BY <1>3 DEF Enqueue, EQ!Add, EP!Add

LEMMA EmailNext == NP!NoteInv /\ [Next]_vars => [EP!Next]_EP!vars
<1> SUFFICES ASSUME NP!NoteInv, [Next]_vars PROVE [EP!Next]_EP!vars
  OBVIOUS
<1>1. ASSUME NEW p \in Replica, NEW e \in Event, Enqueue(p, e)
      PROVE  EP!Next
  BY <1>1, EmailAdd DEF EP!Next
<1>2. ASSUME NEW p \in Replica, WorkerStep(p)
      PROVE  EP!Next
  <2>1. CASE EQ!Take(p)
    BY <2>1 DEF EQ!Take, EP!Take, EQ!Idle, EP!Idle, EP!Next
  <2>2. CASE EQ!Send(p)
    BY <2>2 DEF EQ!Send, EP!Send, EP!Next
  <2>3. CASE EQ!Complete(p)
    BY <2>3 DEF EQ!Complete, EP!Complete, EQ!Finished, EP!Finished, EQ!Idle, EP!Idle,
                EP!Next
  <2>4. QED
    BY <1>2, <2>1, <2>2, <2>3 DEF WorkerStep
<1>3. ASSUME NEW j \in NS!Row, StallCheck(j)
      PROVE  EP!Next
  BY <1>3 DEF StallCheck, EQ!Stall, EP!Stall, EQ!MayRepeat, EP!MayRepeat,
              EQ!MaxStalled, EP!MaxStalled, EP!Next
<1>4. ASSUME NEW p \in Replica, Crash(p)
      PROVE  EP!Next
  BY <1>4 DEF Crash, EQ!Stop, EP!Stop, EQ!Idle, EP!Idle, EP!Next
<1>5. CASE UNCHANGED emailVars
  BY <1>5 DEF emailVars, EP!vars
<1>6. QED
  BY <1>1, <1>2, <1>3, <1>4, <1>5
     DEF Next, OrderStep, Publish, NoteStep, SocketStep, Quiet, vars

\* The composition implements the email queue.
LEMMA EmailSpec == Spec => EP!Spec
BY EmailInit, EmailNext, NoteInvariant, PTL DEF Spec, EP!Spec

-----------------------------------------------------------------------------
(* The joint: an event carries the user of the message it stands for.        *)

DeliverInv ==
  \A e \in Event :
    IF Published(e) THEN owner[e] = channel[e[1]][e[2]].userId ELSE owner[e] = None

LEMMA EventFacts ==
  ASSUME NEW e \in Event
  PROVE  /\ e[1] \in Order /\ e[2] \in Nat \ {0}
         /\ e = <<e[1], e[2]>>
BY DoneFacts DEF Event

LEMMA ChannelLength ==
  ASSUME OP!TypeOK, NEW o \in Order
  PROVE  channel[o] \in Seq(OP!Message) /\ Len(channel[o]) \in Nat
<1>1. channel[o] \in Seq(OP!Message)
  BY DEF OP!TypeOK
<1>2. QED
  BY <1>1

LEMMA DeliverInit == Init => DeliverInv
<1> SUFFICES ASSUME Init, NEW e \in Event
             PROVE  ~Published(e) /\ owner[e] = None
  BY DEF DeliverInv
<1>1. owner[e] = None /\ Len(channel[e[1]]) = 0
  BY EventFacts DEF Init, OS!Init, NS!Init
<1>2. QED
  BY <1>1, EventFacts DEF Published

LEMMA DeliverStep ==
  ASSUME OP!RaceInv, CountInv, NP!NoteInv, DeliverInv, [Next]_vars
  PROVE  DeliverInv'
<1> USE DEF OP!RaceInv, NP!NoteInv
<1>1. ASSUME NEW r \in Request, Publish(r)
      PROVE  DeliverInv'
  <2>1. PICK o \in Order : o = job[r].id
    BY <1>1, EventOfPublish
  <2> DEFINE n == Len(channel[o]) + 1
             m == OP!MessageOf(job[r])
  <2>2. /\ <<o, n>> \in Event
        /\ NS!Publish(<<o, n>>)
        /\ owner'[<<o, n>>] = job[r].userId
    BY <1>1, <2>1, EventOfPublish DEF Publish, Addressee
  <2>3. OP!Publish(r)
    BY <1>1, OrderActions DEF Publish
  <2>4. channel' = [channel EXCEPT ![o] = Append(@, m)]
    BY <2>1, <2>3 DEF OP!Publish
  <2>5. \A p \in Order \ {o} : channel'[p] = channel[p]
    BY <2>4 DEF OP!TypeOK
  <2>6. channel'[o] = Append(channel[o], m)
    BY <2>4 DEF OP!TypeOK
  <2>7. m.userId = job[r].userId
    BY DEF OP!MessageOf
  <2> HIDE DEF m
  <2>8. /\ Len(channel'[o]) = n
        /\ channel'[o][n] = m
        /\ \A i \in 1..Len(channel[o]) : channel'[o][i] = channel[o][i]
    BY <2>6, ChannelLength
  <2>9. \A e \in Event \ {<<o, n>>} : owner'[e] = owner[e]
    BY <2>2 DEF NS!Publish, NP!TypeOK
  <2>10. ASSUME NEW e \in Event
         PROVE  IF Published(e)' THEN owner'[e] = channel'[e[1]][e[2]].userId
                                 ELSE owner'[e] = None
    <3>1. CASE e = <<o, n>>
      BY <2>2, <2>7, <2>8, <3>1, ChannelLength DEF Published
    <3>2. CASE e # <<o, n>> /\ e[1] = o
      <4>1. e[2] # n /\ e[2] \in Nat \ {0}
        BY <3>2, EventFacts
      <4>2. e[2] <= n <=> e[2] <= Len(channel[o])
        BY <4>1, ChannelLength
      <4>3. e[2] <= Len(channel[o]) => channel'[o][e[2]] = channel[o][e[2]]
        BY <2>8, <4>1, ChannelLength
      <4>4. owner'[e] = owner[e]
        BY <2>9, <3>2
      <4>5. QED
        BY <2>8, <3>2, <4>2, <4>3, <4>4 DEF DeliverInv, Published
    <3>3. CASE e[1] # o
      <4>1. channel'[e[1]] = channel[e[1]] /\ owner'[e] = owner[e]
        BY <2>5, <2>9, <3>3, EventFacts
      <4>2. QED
        BY <4>1 DEF DeliverInv, Published
    <3>4. QED
      BY <3>1, <3>2, <3>3
  <2>11. QED
    BY <2>10 DEF DeliverInv
<1>2. CASE UNCHANGED <<channel, owner>>
  BY <1>2 DEF DeliverInv, Published
<1>3. ASSUME NEW r \in Request, OrderStep(r)
      PROVE  UNCHANGED <<channel, owner>>
  BY <1>3 DEF OrderStep, noteVars, OS!Create, OS!FindForUpdate, OS!SelectForSave,
              OS!WriteForSave, OS!SoftDelete, OS!Abort
<1>4. ASSUME NEW p \in Replica, NoteStep(p)
      PROVE  UNCHANGED <<channel, owner>>
  BY <1>4 DEF NoteStep, orderVars, NS!Start, NS!Subscribe, NS!SubscribeFails,
              NS!Receive, NS!Save, NS!Push,
              NS!Reject, NS!Connect
<1>5. ASSUME NEW s \in Socket, SocketStep(s)
      PROVE  UNCHANGED <<channel, owner>>
  BY <1>5 DEF SocketStep, orderVars, NS!Refuse, NS!Disconnect
<1>6. ASSUME NEW p \in Replica, NEW e \in Event, Enqueue(p, e)
      PROVE  UNCHANGED <<channel, owner>>
  BY <1>6 DEF Enqueue, NS!Enqueue, orderVars
<1>7. ASSUME NEW p \in Replica, Crash(p)
      PROVE  UNCHANGED <<channel, owner>>
  BY <1>7 DEF Crash, NS!Crash, orderVars
<1>8. QED
  BY <1>1, <1>2, <1>3, <1>4, <1>5, <1>6, <1>7
     DEF Next, WorkerStep, StallCheck, Quiet, vars, orderVars, noteVars

\* A row was made for the user of its event.
RowsInv == \A n \in rows : n.userId = owner[n.event] /\ owner[n.event] # None

LEMMA RowsStep ==
  ASSUME NP!NoteInv, RowsInv, [NP!Next]_NP!vars
  PROVE  RowsInv'
<1> USE DEF NP!NoteInv
<1>1. \A n \in rows : n.event \in Event /\ n \in NP!Row
  BY DEF NP!TypeOK, NP!Row
<1>2. \A e \in Event : owner[e] # None => owner'[e] = owner[e]
  BY NP!OwnersStay, EventsAssumption
<1>3. ASSUME NEW p \in Replica, NEW e \in Event, NP!Save(p, e)
      PROVE  RowsInv'
  <2>1. rows' = rows \cup {NP!NewRow(p, e)} /\ owner' = owner /\ owner[e] # None
    BY <1>3 DEF NP!Save, NP!HandlerInv
  <2>2. NP!NewRow(p, e).event = e /\ NP!NewRow(p, e).userId = owner[e]
    BY DEF NP!NewRow
  <2>3. QED
    BY <2>1, <2>2 DEF RowsInv
<1>4. CASE UNCHANGED rows
  BY <1>1, <1>2, <1>4 DEF RowsInv
<1>5. QED
  BY <1>3, <1>4
     DEF NP!Next, NP!vars, NP!Publish, NP!Start, NP!Subscribe, NP!SubscribeFails,
         NP!Receive, NP!Push,
         NP!Enqueue, NP!Reject, NP!Connect, NP!Refuse, NP!Disconnect, NP!Crash, NP!Quiet

JointInv ==
  OP!RaceInv /\ CountInv /\ NP!NoteInv /\ DeliverInv /\ RowsInv

LEMMA JointInvariant == Spec => []JointInv
<1>1. Init => DeliverInv /\ RowsInv
  BY DeliverInit DEF Init, NS!Init, RowsInv
<1>2. OP!RaceInv /\ CountInv /\ NP!NoteInv /\ DeliverInv /\ RowsInv /\ [Next]_vars
        => DeliverInv' /\ RowsInv'
  BY DeliverStep, NoteNext, RowsStep
<1>3. QED
  BY <1>1, <1>2, OrderInvariant, CountInvariant, NoteInvariant, PTL DEF Spec, JointInv

-----------------------------------------------------------------------------
\* What stands behind a row: a message of the order service to the owner of its
\* order.
LEMMA RowTruthful ==
  ASSUME JointInv, NEW n \in rows
  PROVE  /\ Published(n.event)
         /\ orders[n.event[1]] # None
         /\ n.userId = orders[n.event[1]].userId
<1> DEFINE e == n.event
<1>1. e \in Event
  BY DEF JointInv, NP!NoteInv, NP!TypeOK, NP!Row
<1>2. n.userId = owner[e] /\ owner[e] # None
  BY DEF JointInv, RowsInv
<1> HIDE DEF e
<1>3. Published(e) /\ owner[e] = channel[e[1]][e[2]].userId
  BY <1>1, <1>2 DEF JointInv, DeliverInv
<1>4. e[2] \in 1..Len(channel[e[1]])
  BY <1>1, <1>3, EventFacts, ChannelLength DEF Published, JointInv, OP!RaceInv
<1>5. /\ orders[e[1]] # None
      /\ channel[e[1]][e[2]].userId = orders[e[1]].userId
  BY <1>1, <1>4, EventFacts DEF JointInv, OP!RaceInv, OP!EventsTruthful
<1>6. QED
  BY <1>2, <1>3, <1>5 DEF e

LEMMA JointTruthful == JointInv => InboxTruthful
<1> SUFFICES ASSUME JointInv PROVE InboxTruthful
  OBVIOUS
<1>1. ASSUME NEW n \in rows \cup jobs
      PROVE  /\ Published(n.event)
             /\ orders[n.event[1]] # None
             /\ n.userId = orders[n.event[1]].userId
  <2>1. n \in rows
    BY DEF JointInv, NP!NoteInv, NP!SavedFirst
  <2>2. QED
    BY <2>1, RowTruthful
<1>2. ASSUME NEW s \in Socket, NEW i \in 1..Len(received[s])
      PROVE  /\ Published(received[s][i])
             /\ conn[s].user = orders[received[s][i][1]].userId
  <2> DEFINE n == [event |-> received[s][i], by |-> conn[s].at, userId |-> conn[s].user]
  <2>1. n \in rows
    BY DEF JointInv, NP!NoteInv, NP!SavedFirst
  <2>2. n.event = received[s][i] /\ n.userId = conn[s].user
    OBVIOUS
  <2> HIDE DEF n
  <2>3. QED
    BY <2>1, <2>2, RowTruthful
<1>3. QED
  BY <1>1, <1>2 DEF InboxTruthful

\* Whatever races, fails and restarts, every notification saved, email queued
\* and message pushed was published for an order of the customer who gets it.
THEOREM InboxIsTruthful == Spec => []InboxTruthful
BY JointInvariant, JointTruthful, PTL

\* Each component keeps its types in the composition.
THEOREM TypeCorrect == Spec => []TypeOK
<1>1. JointInv => OS!TypeOK /\ NS!TypeOK
  <2>1. OP!TypeOK => OS!TypeOK
    BY DEF OP!TypeOK, OS!TypeOK, OP!Row, OS!Row, OP!Message, OS!Message, OP!Job, OS!Job,
           OP!OrderStatus, OS!OrderStatus, OP!Column, OS!Column, OP!Ended, OS!Ended
  <2>2. NP!TypeOK => NS!TypeOK
    BY DEF NP!TypeOK, NS!TypeOK, NP!Row, NS!Row, NP!Conn, NS!Conn, NP!Steps, NS!Steps,
           NP!Busy, NS!Busy
  <2>3. QED
    BY <2>1, <2>2 DEF JointInv, OP!RaceInv, NP!NoteInv
<1>2. EP!Spec => []EP!TypeOK
  BY EP!TypeCorrect, EmailAssumptions
<1>3. EP!TypeOK => EQ!TypeOK
  BY DEF EP!TypeOK, EQ!TypeOK
<1>4. QED
  BY <1>1, <1>2, <1>3, EmailSpec, JointInvariant, PTL DEF TypeOK

-----------------------------------------------------------------------------
(* The components, as they were specified alone: nothing they do in the      *)
(* composition is not one of their own steps.                                *)

LEMMA EmailAddOwn ==
  ASSUME NP!NoteInv, NEW p \in Replica, NEW e \in Event, Enqueue(p, e)
  PROVE  EQ!Next
<1>1. NS!NewRow(p, e) \in NS!Row
  BY EmailAdd
<1>. QED  BY <1>1 DEF Enqueue, EQ!Next

\* The order service, the notification service and the email queue composed do
\* what each does alone, whatever the two others do: what holds of one of them
\* in any surroundings holds here.
THEOREM ImplementsComponents == Spec => OS!Spec /\ NS!Spec /\ EQ!Spec
<1>1. Init => OS!Init /\ NS!Init /\ EQ!Init
  BY DEF Init
<1>2. [Next]_vars => [OS!Next]_OS!vars
  <2> SUFFICES ASSUME [Next]_vars PROVE [OS!Next]_OS!vars
    OBVIOUS
  <2>1. ASSUME NEW r \in Request, OrderStep(r) \/ Publish(r)
        PROVE  OS!Next
    BY <2>1 DEF OrderStep, Publish, OS!Next
  <2>2. CASE UNCHANGED orderVars
    BY <2>2 DEF orderVars, OS!vars
  <2>. QED
    BY <2>1, <2>2
       DEF Next, NoteStep, SocketStep, Enqueue, WorkerStep, StallCheck, Crash, Quiet,
           vars
<1>3. JointInv /\ [Next]_vars => [NS!Next]_NS!vars
  <2> SUFFICES ASSUME JointInv, [Next]_vars PROVE [NS!Next]_NS!vars
    OBVIOUS
  <2>1. ASSUME NEW r \in Request, Publish(r) PROVE NS!Next
    <3>1. PICK e \in Event : NS!Publish(e)
      BY <2>1, EventOfPublish DEF Publish, JointInv
    <3>. QED  BY <3>1 DEF NS!Next
  <2>2. ASSUME NEW p \in Replica, NoteStep(p) PROVE NS!Next
    BY <2>2 DEF NoteStep, NS!Next
  <2>3. ASSUME NEW s \in Socket, SocketStep(s) PROVE NS!Next
    BY <2>3 DEF SocketStep, NS!Next
  <2>4. ASSUME NEW p \in Replica, NEW e \in Event, Enqueue(p, e) PROVE NS!Next
    BY <2>4 DEF Enqueue, NS!Next
  <2>5. ASSUME NEW p \in Replica, Crash(p) PROVE NS!Next
    BY <2>5 DEF Crash, NS!Next
  <2>6. CASE UNCHANGED noteVars
    BY <2>6 DEF noteVars, NS!vars
  <2>. QED
    BY <2>1, <2>2, <2>3, <2>4, <2>5, <2>6
       DEF Next, OrderStep, WorkerStep, StallCheck, Quiet, vars
<1>4. JointInv /\ [Next]_vars => [EQ!Next]_EQ!vars
  <2> SUFFICES ASSUME JointInv, [Next]_vars PROVE [EQ!Next]_EQ!vars
    OBVIOUS
  <2>1. ASSUME NEW p \in Replica, NEW e \in Event, Enqueue(p, e) PROVE EQ!Next
    BY <2>1, EmailAddOwn DEF JointInv
  <2>2. ASSUME NEW p \in Replica, WorkerStep(p) PROVE EQ!Next
    BY <2>2 DEF WorkerStep, EQ!Next
  <2>3. ASSUME NEW j \in NS!Row, StallCheck(j) PROVE EQ!Next
    BY <2>3 DEF StallCheck, EQ!Next
  <2>4. ASSUME NEW p \in Replica, Crash(p) PROVE EQ!Next
    BY <2>4 DEF Crash, EQ!Next
  <2>5. CASE UNCHANGED emailVars
    BY <2>5 DEF emailVars, EQ!vars
  <2>. QED
    BY <2>1, <2>2, <2>3, <2>4, <2>5
       DEF Next, OrderStep, Publish, NoteStep, SocketStep, Quiet, vars
<1>. QED
  BY <1>1, <1>2, <1>3, <1>4, JointInvariant, PTL DEF Spec, OS!Spec, NS!Spec, EQ!Spec

\* The email queue keeps its promise when the notification service fills it
\* and the workers stop with their processes: the queue that is composed here
\* implements MailDelivery.
THEOREM MailIsDelivered == Spec => DeliversMail
<1>1. EP!Spec => EP!ImplementsMailDelivery
  BY EP!RefinesMailDelivery, EmailAssumptions
<1> USE DEF EP!stageBar, EQ!stageBar, EP!MaxStalled, EQ!MaxStalled
<1>2. EP!MD!Init => EQ!MD!Init
  BY DEF EP!MD!Init, EQ!MD!Init
<1>3. [EP!MD!Next]_EP!MD!deliveryVars => [EQ!MD!Next]_EQ!MD!deliveryVars
  BY DEF EP!MD!deliveryVars, EQ!MD!deliveryVars, EP!MD!Next, EQ!MD!Next,
         EP!MD!Accept, EQ!MD!Accept, EP!MD!Mail, EQ!MD!Mail, EP!MD!Confirm,
         EQ!MD!Confirm, EP!MD!Fail, EQ!MD!Fail, EP!MD!Goto, EQ!MD!Goto
<1>. QED
  BY <1>1, <1>2, <1>3, EmailSpec, PTL
     DEF DeliversMail, EP!ImplementsMailDelivery, EQ!ImplementsMailDelivery,
         EP!MD!Spec, EQ!MD!Spec

-----------------------------------------------------------------------------
(* Nothing is lost without a trace: where each event, each status and each   *)
(* email is.                                                                 *)

Handled(p, e) ==
  [event |-> e, by |-> p, userId |-> orders[e[1]].userId] \in rows \cap jobs

UnderWay(p, e) == NS!InInbox(p, e) \/ handler[p][e] \in NS!Busy

\* Exactly one of: replica p missed event e, has it before it, has handled it.
Accounted(p, e) ==
  /\ Missed(p, e) \/ UnderWay(p, e) \/ Handled(p, e)
  /\ ~(Missed(p, e) /\ UnderWay(p, e))
  /\ Handled(p, e) => ~Missed(p, e) /\ ~UnderWay(p, e)

EventsAccounted ==
  \A p \in Replica, e \in Event : Published(e) => Accounted(p, e)

\* Every status an order has had was lost before its publish, is about to be
\* published, or is the status of an event of which each replica can account.
StatusAccounted ==
  \A o \in Order : \A s \in held[o] :
    \/ OS!Lost(o, s)
    \/ \E r \in Request : pc[r] = "publish" /\ job[r].id = o /\ job[r].new = s
    \/ \E i \in 1..Cardinality(Request) :
         /\ i <= Len(channel[o]) /\ channel[o][i].new = s
         /\ \A p \in Replica : Accounted(p, <<o, i>>)

\* The queue holds a job for each email the handlers queued and for no other.
QueueFilled == \A j \in NS!Row : status[j] # "none" <=> j \in jobs

LEMMA JobsInvariant == Spec => []NP!JobsExact
<1>1. NP!Spec => []NP!JobsExact
  BY NP!JobsAreExact, EventsAssumption
<1>. QED  BY <1>1, NoteSpec, PTL

\* A handler that is done has made its job, and the job is for the owner of the
\* order the event is about.
LEMMA DoneHandled ==
  ASSUME JointInv, NP!JobsExact, NEW p \in Replica, NEW e \in Event, Published(e)
  PROVE  Handled(p, e) <=> handler[p][e] = "done"
<1>1. owner[e] = channel[e[1]][e[2]].userId
  BY DEF JointInv, DeliverInv
<1>2. e[2] \in 1..Len(channel[e[1]])
  BY EventFacts, ChannelLength DEF Published, JointInv, OP!RaceInv
<1>3. channel[e[1]][e[2]].userId = orders[e[1]].userId
  BY <1>2, EventFacts DEF JointInv, OP!RaceInv, OP!EventsTruthful
<1>4. NP!NewRow(p, e) = [event |-> e, by |-> p, userId |-> orders[e[1]].userId]
  BY <1>1, <1>3 DEF NP!NewRow
<1>5. NP!NewRow(p, e) \in jobs <=> handler[p][e] = "done"
  BY DEF NP!JobsExact
<1>6. jobs \subseteq rows
  BY DEF JointInv, NP!NoteInv, NP!SavedFirst
<1>. QED  BY <1>4, <1>5, <1>6 DEF Handled

LEMMA EachAccounted ==
  ASSUME JointInv, NP!JobsExact, NEW p \in Replica, NEW e \in Event, Published(e)
  PROVE  Accounted(p, e)
<1>1. handler[p][e] \in {"idle", "done", "failed", "lost", "save", "push", "queue"}
  BY DEF JointInv, NP!NoteInv, NP!TypeOK, NP!Steps, NP!Busy
<1>2. NS!InInbox(p, e) => handler[p][e] = "idle"
  BY DEF JointInv, NP!NoteInv, NP!HandlerInv, NP!InInbox, NS!InInbox
<1>. QED
  BY <1>1, <1>2, DoneHandled DEF Accounted, Missed, UnderWay, NS!Busy

\* What each replica did with each message: it was not subscribed or its handler
\* failed, it has the message before it, or the row and the email are made for
\* the owner of the order; never two of the three.  The safety half of
\* StatusReachesCustomer.
THEOREM EventsAreAccounted == Spec => [](EventsAccounted /\ StatusAccounted)
<1>1. JointInv /\ NP!JobsExact => EventsAccounted
  BY EachAccounted DEF EventsAccounted
<1>2. JointInv /\ EventsAccounted => StatusAccounted
  <2> SUFFICES ASSUME JointInv, EventsAccounted,
                      NEW o \in Order, NEW s \in held[o],
                      NEW i \in 1..Len(channel[o]), channel[o][i].new = s
               PROVE  \E k \in 1..Cardinality(Request) :
                        /\ k <= Len(channel[o]) /\ channel[o][k].new = s
                        /\ \A p \in Replica : Accounted(p, <<o, k>>)
    <3> HIDE DEF Accounted
    <3>. QED
      BY DEF StatusAccounted, JointInv, OP!RaceInv, OP!HeldStatusAnnounced,
             OP!Announced, OS!Lost
  <2>1. Len(channel[o]) \in Nat /\ Len(channel[o]) <= Cardinality(Done)
    BY ChannelLength DEF JointInv, OP!RaceInv, CountInv
  <2>2. Cardinality(Done) <= Cardinality(Request)
    BY EventsAssumption, FS_Subset DEF Done
  <2>3. i \in 1..Cardinality(Request) /\ i <= Len(channel[o])
    BY <2>1, <2>2, DoneFacts
  <2>4. <<o, i>> \in Event /\ Published(<<o, i>>)
    BY <2>3 DEF Event, Published
  <2>. QED  BY <2>3, <2>4 DEF EventsAccounted
<1>. QED  BY <1>1, <1>2, JointInvariant, JobsInvariant, PTL

-----------------------------------------------------------------------------
EmailInv == EP!QueueInv /\ EP!EndInv

LEMMA EmailInvariant == Spec => []EmailInv
<1>1. EP!Spec => []EP!QueueInv /\ []EP!EndInv
  BY EP!QueueInvariant, EP!EndInvariant, EmailAssumptions
<1>. QED  BY <1>1, EmailSpec, PTL DEF EmailInv

LEMMA FilledStep ==
  ASSUME NP!NoteInv, EmailInv, QueueFilled, [Next]_vars
  PROVE  QueueFilled'
<1>a. EP!TypeOK
  BY DEF EmailInv, EP!QueueInv
<1>1. ASSUME NEW p \in Replica, NEW e \in Event, Enqueue(p, e)
      PROVE  QueueFilled'
  <2> DEFINE n == NS!NewRow(p, e)
  <2>1. n \in NS!Row /\ status' = [status EXCEPT ![n] = "waiting"]
    BY <1>1, EmailAdd DEF EP!Add
  <2>2. jobs' = jobs \cup {n}
    BY <1>1 DEF Enqueue, NS!Enqueue
  <2> HIDE DEF n
  <2>. QED  BY <1>a, <2>1, <2>2 DEF QueueFilled, EP!TypeOK
<1>b. ASSUME jobs' = jobs,
             \A j \in NS!Row : status'[j] # "none" <=> status[j] # "none"
      PROVE  QueueFilled'
  BY <1>b DEF QueueFilled
<1>2. ASSUME NEW p \in Replica, EQ!Take(p) PROVE
             \A j \in NS!Row : status'[j] # "none" <=> status[j] # "none"
  <2>1. waiting # <<>> /\ status' = [status EXCEPT ![Head(waiting)] = "active"]
    BY <1>2 DEF EQ!Take
  <2>2. status[Head(waiting)] = "waiting"
    BY <1>a, <2>1, EP!HeadOfQueue
  <2>. QED  BY <1>a, <2>1, <2>2 DEF EP!TypeOK
<1>3. ASSUME NEW p \in Replica, EQ!Complete(p) PROVE
             \A j \in NS!Row : status'[j] # "none" <=> status[j] # "none"
  <2>1. \/ status' = status
        \/ /\ lock[work[p].job] = p
           /\ status' = [status EXCEPT ![work[p].job] = "completed"]
    BY <1>3 DEF EQ!Complete
  <2>2. work[p].sent => work[p].job \in NS!Row
    BY DEF EmailInv, EP!EndInv, EP!SentOK
  <2>3. work[p].job \in NS!Row
    BY <1>3, <2>2 DEF EQ!Complete, EQ!Finished
  <2>4. lock[work[p].job] = p => status[work[p].job] = "active"
    BY <1>a, <2>3, EventsAssumption DEF EP!TypeOK
  <2>. QED  BY <1>a, <2>1, <2>3, <2>4 DEF EP!TypeOK
<1>4. ASSUME NEW h \in NS!Row, EQ!Stall(h) PROVE
             \A j \in NS!Row : status'[j] # "none" <=> status[j] # "none"
  BY <1>4, <1>a DEF EQ!Stall, EP!TypeOK
<1>5. ASSUME NEW p \in Replica, WorkerStep(p) PROVE QueueFilled'
  BY <1>5, <1>b, <1>2, <1>3 DEF WorkerStep, EQ!Send, noteVars
<1>6. ASSUME NEW j \in NS!Row, StallCheck(j) PROVE QueueFilled'
  BY <1>6, <1>b, <1>4 DEF StallCheck, noteVars
<1>7. ASSUME jobs' = jobs, status' = status PROVE QueueFilled'
  BY <1>7, <1>b
<1>8. ASSUME NEW r \in Request, OrderStep(r) \/ Publish(r) PROVE QueueFilled'
  BY <1>7, <1>8, EventOfPublish
     DEF OrderStep, Publish, NS!Publish, noteVars, emailVars
<1>9. ASSUME NEW p \in Replica, NoteStep(p) \/ Crash(p) PROVE QueueFilled'
  BY <1>7, <1>9
     DEF NoteStep, NS!Start, NS!Subscribe, NS!SubscribeFails,
         NS!Receive, NS!Save, NS!Push, NS!Reject,
         NS!Connect, Crash, NS!Crash, EQ!Stop, emailVars
<1>10. ASSUME NEW s \in Socket, SocketStep(s) PROVE QueueFilled'
  BY <1>7, <1>10 DEF SocketStep, NS!Refuse, NS!Disconnect, emailVars
<1>. QED
  BY <1>1, <1>5, <1>6, <1>7, <1>8, <1>9, <1>10
     DEF Next, Quiet, vars, noteVars, emailVars

LEMMA FilledInvariant == Spec => []QueueFilled
<1>1. Init => QueueFilled
  BY DEF Init, NS!Init, EQ!Init, QueueFilled
<1>2. NP!NoteInv /\ EmailInv /\ QueueFilled /\ [Next]_vars => QueueFilled'
  BY FilledStep
<1>. QED  BY <1>1, <1>2, NoteInvariant, EmailInvariant, PTL DEF Spec

MailAccounted ==
  \A j \in NS!Row :
    /\ status[j] # "none" <=> j \in jobs
    /\ mailed[j] >= 1 =>
         /\ j \in jobs /\ Published(j.event)
         /\ j.userId = orders[j.event[1]].userId
    /\ status[j] = "completed" => mailed[j] >= 1
    /\ status[j] = "failed" => stalls[j] > EQ!MaxStalled
    /\ mailed[j] <= 1 + EQ!MaxStalled

\* An email is sent only for a job that a handler queued for the owner of the
\* order it is about, and at most twice; the queue has each such job, completed
\* only when it was mailed and failed only after its second stall.  The safety
\* half of QueuedIsSent.
THEOREM MailIsAccounted == Spec => []MailAccounted
<1>1. JointInv /\ EmailInv /\ QueueFilled => MailAccounted
  <2> SUFFICES ASSUME JointInv, EmailInv, QueueFilled, NEW j \in NS!Row
               PROVE  /\ status[j] # "none" <=> j \in jobs
                      /\ mailed[j] >= 1 =>
                           /\ j \in jobs /\ Published(j.event)
                           /\ j.userId = orders[j.event[1]].userId
                      /\ status[j] = "completed" => mailed[j] >= 1
                      /\ status[j] = "failed" => stalls[j] > EQ!MaxStalled
                      /\ mailed[j] <= 1 + EQ!MaxStalled
    BY DEF MailAccounted
  <2>1. status[j] # "none" <=> j \in jobs
    BY DEF QueueFilled
  <2>2. /\ status[j] = "completed" => mailed[j] >= 1
        /\ status[j] = "failed" => stalls[j] > EQ!MaxStalled
    BY DEF EmailInv, EP!EndInv, EP!EndOK, EP!MaxStalled, EQ!MaxStalled
  <2>3. mailed[j] <= 1 + EQ!MaxStalled
    BY EP!BudgetBounds, EmailAssumptions
       DEF EmailInv, EP!MailedAtMostTwice, EP!MaxStalled, EQ!MaxStalled
  <2>4. status[j] = "none" => mailed[j] = 0
    BY DEF EmailInv, EP!QueueInv, EP!BudgetOK
  <2>5. mailed[j] >= 1 => j \in jobs
    BY <2>1, <2>4
  <2>6. j \in jobs => Published(j.event) /\ j.userId = orders[j.event[1]].userId
    BY JointTruthful DEF InboxTruthful
  <2>. QED  BY <2>1, <2>2, <2>3, <2>5, <2>6
<1>. QED  BY <1>1, JointInvariant, EmailInvariant, FilledInvariant, PTL

\* The steps two components make together wait for neither of the two alone: a
\* message has a place of its own when it is published, and the queue takes
\* every job a handler adds.
JointStepsFree ==
  /\ \A r \in Request : pc[r] = "publish" =>
       LET e == EventOf(job[r].id) IN e \in Event /\ owner[e] = None
  /\ \A p \in Replica, e \in Event :
       handler[p][e] = "queue" => status[NS!NewRow(p, e)] = "none"

\* No guard of one component holds up a step of another: a request at its publish
\* finds its event free, a handler at its add finds its job not yet queued.
THEOREM JointStepsAreFree == Spec => []JointStepsFree
<1>1. JointInv => \A r \in Request : pc[r] = "publish" =>
        EventOf(job[r].id) \in Event /\ owner[EventOf(job[r].id)] = None
  <2> SUFFICES ASSUME JointInv, NEW r \in Request, pc[r] = "publish"
               PROVE  EventOf(job[r].id) \in Event /\ owner[EventOf(job[r].id)] = None
    OBVIOUS
  <2>1. PICK o \in Order : o = job[r].id
    BY DEF JointInv, OP!RaceInv, OP!HandlerOK
  <2>2. Len(channel[o]) \in Nat /\ Len(channel[o]) <= Cardinality(Done)
    BY ChannelLength DEF JointInv, OP!RaceInv, CountInv
  <2>3. Cardinality(Done) + 1 <= Cardinality(Request)
    <3>1. r \notin Done /\ Done \cup {r} \subseteq Request
      BY DEF Done
    <3>2. Cardinality(Done \cup {r}) = Cardinality(Done) + 1
      BY <3>1, DoneFacts, FS_AddElement
    <3>. QED  BY <3>1, <3>2, EventsAssumption, FS_Subset
  <2>4. <<o, Len(channel[o]) + 1>> \in Event
    BY <2>2, <2>3, DoneFacts DEF Event
  <2>5. ~Published(<<o, Len(channel[o]) + 1>>)
    BY <2>2 DEF Published
  <2>. QED  BY <2>1, <2>4, <2>5 DEF EventOf, JointInv, DeliverInv
<1>2. JointInv /\ NP!JobsExact /\ QueueFilled =>
        \A p \in Replica, e \in Event :
          handler[p][e] = "queue" => status[NS!NewRow(p, e)] = "none"
  <2> SUFFICES ASSUME JointInv, NP!JobsExact, QueueFilled,
                      NEW p \in Replica, NEW e \in Event, handler[p][e] = "queue"
               PROVE  status[NS!NewRow(p, e)] = "none"
    OBVIOUS
  <2>1. NP!NewRow(p, e) = NS!NewRow(p, e)
    BY DEF NP!NewRow, NS!NewRow
  <2>2. NS!NewRow(p, e) \notin jobs
    BY <2>1 DEF NP!JobsExact
  <2>3. owner[e] \in User
    BY DEF JointInv, NP!NoteInv, NP!HandlerInv, NP!TypeOK
  <2>4. NS!NewRow(p, e) \in NS!Row
    BY <2>3 DEF NS!NewRow, NS!Row
  <2>. QED  BY <2>2, <2>4 DEF QueueFilled
<1>3. JointInv /\ NP!JobsExact /\ QueueFilled => JointStepsFree
  BY <1>1, <1>2 DEF JointStepsFree
<1>. QED  BY <1>3, JointInvariant, JobsInvariant, FilledInvariant, PTL
=============================================================================
