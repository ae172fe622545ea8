------------------------- MODULE OrderServiceProofs -------------------------
(***************************************************************************)
(* Proofs about OrderService, for any number of orders, users and          *)
(* requests.                                                               *)
(***************************************************************************)
EXTENDS OrderService, TLAPS

(***************************************************************************)
(* What holds however requests interleave.                                 *)
(***************************************************************************)

\* The row of an order has its present status in its history; an order that
\* does not exist has no history and no message.
RowsHeld ==
  \A o \in Order :
    IF orders[o] = None THEN held[o] = {} /\ channel[o] = <<>>
                        ELSE orders[o].status \in held[o]

\* What a handler in flight, or one that stopped at its publish, knows of the
\* order it works on.
HandlerOK(r) ==
  LET o == job[r].id
  IN  /\ pc[r] \in {"select", "write", "publish", "unannounced"} =>
           /\ o \in Order
           /\ orders[o] # None
           /\ job[r].userId = orders[o].userId
           /\ job[r].new \in OrderStatus
           /\ job[r].old \in held[o] \cup {None}
      /\ pc[r] \in {"select", "write"} => job[r].old \in held[o]
      /\ pc[r] = "write" /\ "status" \notin job[r].dirty =>
           job[r].new \in held[o]
      /\ pc[r] \in {"publish", "unannounced"} =>
           job[r].new \in held[o] /\ job[r].old # job[r].new

RaceInv ==
  /\ TypeOK
  /\ RowsHeld
  /\ \A r \in Request : HandlerOK(r)
  /\ EventsTruthful
  /\ HeldStatusAnnounced

(***************************************************************************)
(* What holds when requests do not overlap on an order.                    *)
(***************************************************************************)

\* At most one request is in flight on an order, and what it has read is
\* still what the row holds.
SerialOK(r) ==
  LET o == job[r].id
  IN  /\ \A q \in Request \ {r} :
           InFlight(r) /\ InFlight(q) => job[q].id # o
      /\ pc[r] \in {"select", "write"} =>
           /\ orders[o].status = job[r].old
           /\ ~orders[o].deleted
      /\ pc[r] = "write" => job[r].dirty = Changed(job[r], orders[o])
      /\ pc[r] = "publish" => orders[o].status = job[r].new

SerialInv == RaceInv /\ \A r \in Request : SerialOK(r)

-----------------------------------------------------------------------------
(* Facts about rows and locals. *)

LEMMA NewRowFacts ==
  ASSUME NEW u \in User
  PROVE  /\ NewRow(u) \in Row
         /\ NewRow(u).userId = u
         /\ NewRow(u).status = "pending"
         /\ "pending" \in OrderStatus
BY DEF NewRow, Row, OrderStatus

LEMMA RowIsNotNone == None \notin Row
BY OrderAssumption DEF Row

\* The UPDATE of save() keeps the owner, and the status it leaves is the
\* row's or the entity's.
LEMMA UpdatedFacts ==
  ASSUME NEW j \in Job, NEW row \in Row, j.new \in OrderStatus
  PROVE  /\ Updated(j, row) \in Row
         /\ Updated(j, row).userId = row.userId
         /\ Updated(j, row).status =
              IF "status" \in j.dirty THEN j.new ELSE row.status
         /\ "deleted" \notin j.dirty => Updated(j, row).deleted = row.deleted
BY DEF Updated, Row

LEMMA ChangedFacts ==
  ASSUME NEW j, NEW row
  PROVE  /\ Changed(j, row) \subseteq Column
         /\ "status" \in Changed(j, row) <=> row.status # j.new
         /\ "deleted" \in Changed(j, row) <=> row.deleted
BY DEF Changed, Column

\* Remembering the columns to write changes nothing else in the locals.
LEMMA DirtyFacts ==
  ASSUME NEW j \in Job, NEW d \in SUBSET Column
  PROVE  LET k == [j EXCEPT !.dirty = d]
         IN  /\ k \in Job /\ k.dirty = d
             /\ k.id = j.id /\ k.userId = j.userId
             /\ k.old = j.old /\ k.new = j.new
BY DEF Job

LEMMA MessageOfType ==
  ASSUME NEW j \in Job, j.id \in Order, j.userId \in User, j.new \in OrderStatus
  PROVE  MessageOf(j) \in Message
BY DEF MessageOf, Message, Job

-----------------------------------------------------------------------------
(* Type correctness.  It needs HandlerOK: only a handler that works on a    *)
(* stored order writes one.                                                 *)

LEMMA TypeInit == Init => TypeOK
BY DEF Init, TypeOK, NoJob, Job, Column, Ended

LEMMA TypeStep ==
  ASSUME TypeOK, \A r \in Request : HandlerOK(r), [Next]_vars
  PROVE  TypeOK'
<1>. USE DEF TypeOK, Goto
<1>1. ASSUME NEW r \in Request, Create(r) PROVE TypeOK'
  <2>1. PICK o \in Order, u \in User :
          /\ orders' = [orders EXCEPT ![o] = NewRow(u)]
          /\ job' = [job EXCEPT ![r] =
                       [id |-> o, userId |-> u, old |-> None,
                        new |-> NewRow(u).status, dirty |-> {}]]
          /\ held' = [held EXCEPT ![o] = {NewRow(u).status}]
    BY <1>1 DEF Create
  <2>2. [id |-> o, userId |-> u, old |-> None,
         new |-> NewRow(u).status, dirty |-> {}] \in Job
    BY NewRowFacts DEF Job
  <2>3. job' \in [Request -> Job]
    BY <2>1, <2>2
  <2>4. orders' \in [Order -> Row \cup {None}]
    BY <2>1, NewRowFacts
  <2>5. held' \in [Order -> SUBSET OrderStatus]
    BY <2>1, NewRowFacts
  <2>6. pc' \in [Request -> {"new", "select", "write", "publish"} \cup Ended]
    BY <1>1 DEF Create
  <2>. QED  BY <1>1, <2>3, <2>4, <2>5, <2>6 DEF Create
<1>2. ASSUME NEW r \in Request, FindForUpdate(r) PROVE TypeOK'
  <2>1. PICK o \in Order, s \in RequestedStatus :
          \/ /\ Visible(o)
             /\ job' = [job EXCEPT ![r] =
                          [id |-> o, userId |-> orders[o].userId,
                           old |-> orders[o].status, new |-> s, dirty |-> {}]]
             /\ Goto(r, "select")
          \/ /\ ~Visible(o)
             /\ Goto(r, "done")
             /\ UNCHANGED job
    BY <1>2 DEF FindForUpdate
  <2>2. Visible(o) => [id |-> o, userId |-> orders[o].userId,
                       old |-> orders[o].status, new |-> s, dirty |-> {}] \in Job
    BY OrderAssumption DEF Visible, Row, Job
  <2>. QED  BY <1>2, <2>1, <2>2 DEF FindForUpdate, Ended
<1>3. ASSUME NEW r \in Request, SelectForSave(r) PROVE TypeOK'
  <2>. DEFINE d == Changed(job[r], orders[job[r].id])
  <2>1. d \in SUBSET Column
    BY ChangedFacts
  <2>. HIDE DEF d
  <2>2. [job[r] EXCEPT !.dirty = d] \in Job
    BY <2>1, DirtyFacts
  <2>3. job' = [job EXCEPT ![r].dirty = d]
    BY <1>3 DEF SelectForSave, d
  <2>. QED  BY <1>3, <2>2, <2>3 DEF SelectForSave
<1>4. ASSUME NEW r \in Request, WriteForSave(r) PROVE TypeOK'
  <2>. DEFINE o == job[r].id
  <2>1. o \in Order /\ orders[o] \in Row /\ job[r].new \in OrderStatus
    BY <1>4 DEF HandlerOK, WriteForSave
  <2>2. Updated(job[r], orders[o]) \in Row
    BY <2>1, UpdatedFacts
  <2>3. orders' \in [Order -> Row \cup {None}] /\ orders'[o].status \in OrderStatus
    BY <1>4, <2>1, <2>2 DEF WriteForSave, Row
  <2>4. held' \in [Order -> SUBSET OrderStatus]
    BY <1>4, <2>1, <2>3 DEF WriteForSave
  <2>5. pc' \in [Request -> {"new", "select", "write", "publish"} \cup Ended]
    BY <1>4 DEF WriteForSave, Ended
  <2>. QED  BY <1>4, <2>3, <2>4, <2>5 DEF WriteForSave
<1>5. ASSUME NEW r \in Request, Publish(r) PROVE TypeOK'
  <2>1. MessageOf(job[r]) \in Message /\ job[r].id \in Order
    BY <1>5, MessageOfType DEF Publish, HandlerOK, Row
  <2>2. channel' \in [Order -> Seq(Message)]
    BY <1>5, <2>1 DEF Publish
  <2>. QED  BY <1>5, <2>2 DEF Publish, Ended
<1>6. ASSUME NEW r \in Request, SoftDelete(r) PROVE TypeOK'
  <2>1. \A o \in Order : orders[o] # None =>
          [orders[o] EXCEPT !.deleted = TRUE] \in Row
    BY DEF Row
  <2>. QED  BY <1>6, <2>1 DEF SoftDelete, Ended
<1>7. ASSUME NEW r \in Request, Abort(r) PROVE TypeOK'
  BY <1>7 DEF Abort, Ended
<1>8. ASSUME UNCHANGED vars PROVE TypeOK'
  BY <1>8 DEF vars
<1>. QED
  BY <1>1, <1>2, <1>3, <1>4, <1>5, <1>6, <1>7, <1>8 DEF Next, Quiet

-----------------------------------------------------------------------------
(* Rows are never removed and never change hands, and the history of an     *)
(* order only grows.                                                        *)

Persists(o) ==
  /\ held[o] \subseteq held'[o]
  /\ orders[o] # None => /\ orders'[o] # None
                         /\ orders'[o].userId = orders[o].userId

\* Only the acting request moves.
OthersStay(r) == \A q \in Request \ {r} : pc'[q] = pc[q] /\ job'[q] = job[q]

\* What WriteForSave does to the row and to its history.
LEMMA WriteFacts ==
  ASSUME TypeOK, NEW r \in Request, HandlerOK(r), WriteForSave(r)
  PROVE  LET o == job[r].id
         IN  /\ o \in Order
             /\ orders[o] \in Row
             /\ job[r].new \in OrderStatus
             /\ orders'[o] = Updated(job[r], orders[o])
             /\ orders'[o] \in Row
             /\ orders'[o].userId = orders[o].userId
             /\ orders'[o].status =
                  IF "status" \in job[r].dirty THEN job[r].new ELSE orders[o].status
             /\ held'[o] = held[o] \cup {orders'[o].status}
             /\ \A p \in Order \ {o} : orders'[p] = orders[p] /\ held'[p] = held[p]
             /\ pc' = [pc EXCEPT ![r] =
                         IF Announces(job[r]) THEN "publish" ELSE "done"]
             /\ channel' = channel
             /\ job' = job
<1>. DEFINE o == job[r].id
<1>1. o \in Order /\ orders[o] \in Row /\ job[r].new \in OrderStatus /\ job[r] \in Job
  BY DEF TypeOK, HandlerOK, WriteForSave
<1>2. orders'[o] = Updated(job[r], orders[o])
  BY <1>1 DEF TypeOK, WriteForSave
<1>3. /\ held'[o] = held[o] \cup {orders'[o].status}
      /\ \A p \in Order \ {o} : orders'[p] = orders[p] /\ held'[p] = held[p]
  BY <1>1 DEF TypeOK, WriteForSave
<1>. QED  BY <1>1, <1>2, <1>3, UpdatedFacts DEF WriteForSave, Goto

LEMMA Persistence ==
  ASSUME TypeOK, RowsHeld, \A r \in Request : HandlerOK(r), [Next]_vars,
         NEW o \in Order
  PROVE  Persists(o)
<1>. USE DEF TypeOK, Persists
<1>1. ASSUME NEW r \in Request, Create(r) PROVE Persists(o)
  BY <1>1 DEF Create, RowsHeld
<1>2. ASSUME NEW r \in Request, WriteForSave(r) PROVE Persists(o)
  BY <1>2, WriteFacts, RowIsNotNone
<1>3. ASSUME NEW r \in Request, SoftDelete(r) PROVE Persists(o)
  <2>1. \A p \in Order : orders[p] # None =>
          /\ [orders[p] EXCEPT !.deleted = TRUE] \in Row
          /\ [orders[p] EXCEPT !.deleted = TRUE].userId = orders[p].userId
    BY DEF Row
  <2>. QED  BY <1>3, <2>1, RowIsNotNone DEF SoftDelete
<1>4. CASE UNCHANGED <<orders, held>>
  BY <1>4
<1>. QED
  BY <1>1, <1>2, <1>3, <1>4
     DEF Next, Quiet, FindForUpdate, SelectForSave, Publish, Abort, vars

\* A handler that does not move keeps what it knows.
LEMMA HandlerStays ==
  ASSUME \A o \in Order : Persists(o), NEW q \in Request, HandlerOK(q),
         pc'[q] = pc[q], job'[q] = job[q]
  PROVE  HandlerOK(q)'
BY DEF HandlerOK, Persists

LEMMA HandlerStep ==
  ASSUME TypeOK, RowsHeld, \A r \in Request : HandlerOK(r), [Next]_vars
  PROVE  \A q \in Request : HandlerOK(q)'
<1>. USE DEF Goto
<1>a. \A o \in Order : Persists(o)
  BY Persistence
<1>b. ASSUME NEW r \in Request, OthersStay(r), HandlerOK(r)'
      PROVE  \A q \in Request : HandlerOK(q)'
  BY <1>a, <1>b, HandlerStays DEF OthersStay
<1>1. ASSUME NEW r \in Request, Create(r) PROVE \A q \in Request : HandlerOK(q)'
  <2>1. PICK o \in Order, u \in User :
          /\ orders' = [orders EXCEPT ![o] = NewRow(u)]
          /\ job' = [job EXCEPT ![r] =
                       [id |-> o, userId |-> u, old |-> None,
                        new |-> NewRow(u).status, dirty |-> {}]]
          /\ held' = [held EXCEPT ![o] = {NewRow(u).status}]
    BY <1>1 DEF Create
  <2>2. OthersStay(r) /\ pc'[r] = "publish"
    BY <1>1, <2>1 DEF Create, TypeOK, OthersStay
  <2>3. /\ orders'[o] = NewRow(u) /\ NewRow(u) # None
        /\ held'[o] = {NewRow(u).status}
        /\ job'[r].id = o /\ job'[r].userId = u
        /\ job'[r].old = None /\ job'[r].new = NewRow(u).status
    BY <2>1, NewRowFacts, RowIsNotNone DEF TypeOK
  <2>4. HandlerOK(r)'
    BY <2>2, <2>3, NewRowFacts, OrderAssumption DEF HandlerOK
  <2>. QED  BY <1>b, <2>2, <2>4
<1>2. ASSUME NEW r \in Request, FindForUpdate(r) PROVE \A q \in Request : HandlerOK(q)'
  <2>1. PICK o \in Order, s \in RequestedStatus :
          \/ /\ Visible(o)
             /\ job' = [job EXCEPT ![r] =
                          [id |-> o, userId |-> orders[o].userId,
                           old |-> orders[o].status, new |-> s, dirty |-> {}]]
             /\ pc' = [pc EXCEPT ![r] = "select"]
          \/ /\ ~Visible(o)
             /\ pc' = [pc EXCEPT ![r] = "done"]
             /\ UNCHANGED job
    BY <1>2 DEF FindForUpdate
  <2>2. OthersStay(r)
    BY <2>1 DEF TypeOK, OthersStay
  <2>3. HandlerOK(r)'
    <3>1. CASE pc'[r] = "select"
      <4>1. /\ Visible(o)
            /\ job'[r].id = o /\ job'[r].userId = orders[o].userId
            /\ job'[r].old = orders[o].status /\ job'[r].new = s
        BY <2>1, <3>1 DEF TypeOK
      <4>2. orders' = orders /\ held' = held
        BY <1>2 DEF FindForUpdate
      <4>. QED  BY <3>1, <4>1, <4>2, OrderAssumption DEF HandlerOK, Visible, RowsHeld
    <3>2. CASE pc'[r] = "done"
      BY <3>2 DEF HandlerOK
    <3>. QED  BY <2>1, <3>1, <3>2 DEF TypeOK
  <2>. QED  BY <1>b, <2>2, <2>3
<1>3. ASSUME NEW r \in Request, SelectForSave(r) PROVE \A q \in Request : HandlerOK(q)'
  <2>. DEFINE d == Changed(job[r], orders[job[r].id])
  <2>1. "status" \notin d => orders[job[r].id].status = job[r].new
    BY ChangedFacts
  <2>. HIDE DEF d
  <2>2. /\ pc[r] = "select" /\ pc'[r] = "write" /\ OthersStay(r)
        /\ orders' = orders /\ held' = held
        /\ job'[r] = [job[r] EXCEPT !.dirty = d]
    BY <1>3 DEF SelectForSave, TypeOK, OthersStay, d
  <2>3. /\ job'[r].id = job[r].id /\ job'[r].userId = job[r].userId
        /\ job'[r].old = job[r].old /\ job'[r].new = job[r].new
        /\ job'[r].dirty = d
    BY <2>2 DEF TypeOK, Job
  <2>4. HandlerOK(r)'
    BY <2>1, <2>2, <2>3 DEF HandlerOK, RowsHeld
  <2>. QED  BY <1>b, <2>2, <2>4
<1>4. ASSUME NEW r \in Request, WriteForSave(r) PROVE \A q \in Request : HandlerOK(q)'
  <2>1. OthersStay(r) /\ pc[r] = "write"
    BY <1>4, WriteFacts DEF TypeOK, OthersStay, WriteForSave
  <2>2. job[r].new \in held'[job[r].id]
    BY <1>4, <2>1, WriteFacts DEF HandlerOK
  <2>3. pc'[r] = (IF Announces(job[r]) THEN "publish" ELSE "done") /\ job' = job
    BY <1>4, WriteFacts DEF TypeOK
  <2>4. HandlerOK(r)'
    BY <1>a, <2>1, <2>2, <2>3 DEF HandlerOK, Announces, Persists
  <2>. QED  BY <1>b, <2>1, <2>4
<1>5. ASSUME NEW r \in Request, Publish(r) PROVE \A q \in Request : HandlerOK(q)'
  BY <1>5, <1>b DEF Publish, OthersStay, HandlerOK, TypeOK
<1>6. ASSUME NEW r \in Request, SoftDelete(r) PROVE \A q \in Request : HandlerOK(q)'
  BY <1>6, <1>b DEF SoftDelete, OthersStay, HandlerOK, TypeOK
<1>7. ASSUME NEW r \in Request, Abort(r) PROVE \A q \in Request : HandlerOK(q)'
  BY <1>7, <1>b DEF Abort, InFlight, OthersStay, HandlerOK, TypeOK
<1>8. ASSUME UNCHANGED vars PROVE \A q \in Request : HandlerOK(q)'
  BY <1>8 DEF vars, HandlerOK
<1>. QED
  BY <1>1, <1>2, <1>3, <1>4, <1>5, <1>6, <1>7, <1>8 DEF Next, Quiet

-----------------------------------------------------------------------------
LEMMA RowsHeldStep ==
  ASSUME TypeOK, RowsHeld, \A r \in Request : HandlerOK(r), [Next]_vars
  PROVE  RowsHeld'
<1>. USE DEF TypeOK, RowsHeld
<1>1. ASSUME NEW r \in Request, Create(r) PROVE RowsHeld'
  BY <1>1, NewRowFacts, RowIsNotNone DEF Create
<1>2. ASSUME NEW r \in Request, WriteForSave(r) PROVE RowsHeld'
  <2>1. ASSUME NEW p \in Order, p # job[r].id
        PROVE  /\ orders'[p] = None => held'[p] = {} /\ channel'[p] = <<>>
               /\ orders'[p] # None => orders'[p].status \in held'[p]
    BY <1>2, <2>1, WriteFacts
  <2>2. LET o == job[r].id
        IN  orders'[o] # None /\ orders'[o].status \in held'[o]
    BY <1>2, WriteFacts, RowIsNotNone
  <2>. QED  BY <2>1, <2>2
<1>3. ASSUME NEW r \in Request, Publish(r) PROVE RowsHeld'
  <2>1. job[r].id \in Order /\ orders[job[r].id] # None
    BY <1>3 DEF Publish, HandlerOK
  <2>. QED  BY <1>3, <2>1 DEF Publish
<1>4. ASSUME NEW r \in Request, SoftDelete(r) PROVE RowsHeld'
  <2>1. \A p \in Order : orders[p] # None =>
          /\ [orders[p] EXCEPT !.deleted = TRUE] \in Row
          /\ [orders[p] EXCEPT !.deleted = TRUE].status = orders[p].status
    BY DEF Row
  <2>. QED  BY <1>4, <2>1, RowIsNotNone DEF SoftDelete
<1>5. CASE UNCHANGED <<orders, held, channel>>
  BY <1>5
<1>. QED
  BY <1>1, <1>2, <1>3, <1>4, <1>5
     DEF Next, Quiet, FindForUpdate, SelectForSave, Abort, vars

\* What Publish does to the channel of its order.
LEMMA PublishFacts ==
  ASSUME TypeOK, NEW r \in Request, HandlerOK(r), Publish(r)
  PROVE  LET o == job[r].id
             m == MessageOf(job[r])
         IN  /\ o \in Order /\ m \in Message
             /\ m.orderId = o /\ m.userId = job[r].userId
             /\ m.old = job[r].old /\ m.new = job[r].new
             /\ channel'[o] = Append(channel[o], m)
             /\ Len(channel'[o]) = Len(channel[o]) + 1
             /\ channel'[o][Len(channel[o]) + 1] = m
             /\ \A i \in 1..Len(channel[o]) : channel'[o][i] = channel[o][i]
             /\ \A p \in Order \ {o} : channel'[p] = channel[p]
<1>. DEFINE o == job[r].id
            m == MessageOf(job[r])
<1>1. o \in Order /\ m \in Message
  BY MessageOfType DEF TypeOK, HandlerOK, Publish, Row
<1>2. /\ m.orderId = o /\ m.userId = job[r].userId
      /\ m.old = job[r].old /\ m.new = job[r].new
  BY DEF MessageOf
<1>. HIDE DEF m
<1>3. /\ channel'[o] = Append(channel[o], m)
      /\ channel[o] \in Seq(Message)
      /\ \A p \in Order \ {o} : channel'[p] = channel[p]
  BY <1>1 DEF TypeOK, Publish, m
<1>4. /\ Len(channel'[o]) = Len(channel[o]) + 1
      /\ channel'[o][Len(channel[o]) + 1] = m
      /\ \A i \in 1..Len(channel[o]) : channel'[o][i] = channel[o][i]
  BY <1>1, <1>3
<1>. QED  BY <1>1, <1>2, <1>3, <1>4 DEF m

LEMMA EventsStep ==
  ASSUME TypeOK, RowsHeld, \A r \in Request : HandlerOK(r), EventsTruthful,
         [Next]_vars
  PROVE  EventsTruthful'
<1>a. \A o \in Order : Persists(o)
  BY Persistence
<1>1. ASSUME NEW r \in Request, Publish(r) PROVE EventsTruthful'
  <2>. DEFINE o == job[r].id
              m == MessageOf(job[r])
  <2>1. /\ m.orderId = o /\ orders[o] # None /\ m.userId = orders[o].userId
        /\ m.new \in held[o] /\ m.old \in held[o] \cup {None} /\ m.old # m.new
    BY <1>1, PublishFacts DEF HandlerOK, Publish
  <2>2. orders' = orders /\ held' = held
    BY <1>1 DEF Publish
  <2>. HIDE DEF m
  <2>3. ASSUME NEW p \in Order, NEW i \in 1..Len(channel'[p])
        PROVE  \/ p = o /\ channel'[p][i] = m
               \/ i \in 1..Len(channel[p]) /\ channel'[p][i] = channel[p][i]
    <3>1. CASE p = o
      <4>1. /\ Len(channel'[o]) = Len(channel[o]) + 1
            /\ channel'[o][Len(channel[o]) + 1] = m
            /\ \A k \in 1..Len(channel[o]) : channel'[o][k] = channel[o][k]
            /\ channel[o] \in Seq(Message)
        BY <1>1, PublishFacts DEF m, TypeOK
      <4>. QED  BY <3>1, <4>1
    <3>2. CASE p # o
      BY <1>1, <3>2, PublishFacts
    <3>. QED  BY <3>1, <3>2
  <2>. QED  BY <2>1, <2>2, <2>3 DEF EventsTruthful
<1>2. CASE channel' = channel
  BY <1>2, <1>a DEF EventsTruthful, Persists
<1>. QED
  BY <1>1, <1>2
     DEF Next, Quiet, Create, FindForUpdate, SelectForSave, WriteForSave,
         SoftDelete, Abort, vars

\* A handler between its save() and the end of its publish, or stopped there.
Speaks(r, o, s) ==
  pc[r] \in {"publish", "unannounced"} /\ job[r].id = o /\ job[r].new = s

LEMMA HeldStep ==
  ASSUME TypeOK, RowsHeld, \A r \in Request : HandlerOK(r),
         HeldStatusAnnounced, [Next]_vars
  PROVE  HeldStatusAnnounced'
<1>. DEFINE Heard(o, s) == Announced(o, s) \/ \E r \in Request : Speaks(r, o, s)
<1>0. \A o \in Order : \A s \in held[o] : Heard(o, s)
  BY DEF HeldStatusAnnounced, Speaks
<1>. SUFFICES \A o \in Order : \A s \in held'[o] : Heard(o, s)'
  BY DEF HeldStatusAnnounced, Speaks
<1>. USE DEF Goto
<1>1. ASSUME NEW r \in Request, Create(r),
             NEW p \in Order, NEW s \in held'[p]
      PROVE  Heard(p, s)'
  <2>1. PICK o \in Order, u \in User :
          /\ job' = [job EXCEPT ![r] =
                       [id |-> o, userId |-> u, old |-> None,
                        new |-> NewRow(u).status, dirty |-> {}]]
          /\ held' = [held EXCEPT ![o] = {NewRow(u).status}]
    BY <1>1 DEF Create
  <2>2. /\ pc[r] = "new" /\ pc' = [pc EXCEPT ![r] = "publish"]
        /\ channel' = channel
    BY <1>1 DEF Create
  <2>3. CASE p = o
    BY <2>1, <2>2, <2>3 DEF TypeOK, Speaks
  <2>4. CASE p # o
    <3>1. s \in held[p] /\ Heard(p, s)
      BY <1>0, <1>1, <2>1, <2>4 DEF TypeOK
    <3>2. \A q \in Request : Speaks(q, p, s) => Speaks(q, p, s)'
      BY <2>1, <2>2 DEF TypeOK, Speaks
    <3>. QED  BY <2>2, <3>1, <3>2 DEF Announced
  <2>. QED  BY <2>3, <2>4
<1>2. ASSUME NEW r \in Request, WriteForSave(r),
             NEW p \in Order, NEW s \in held'[p]
      PROVE  Heard(p, s)'
  <2>1. /\ pc[r] = "write" /\ job' = job /\ channel' = channel
        /\ pc' = [pc EXCEPT ![r] =
                    IF Announces(job[r]) THEN "publish" ELSE "done"]
    BY <1>2, WriteFacts DEF WriteForSave
  <2>2. CASE s \in held[p]
    <3>1. \A q \in Request : Speaks(q, p, s) => Speaks(q, p, s)'
      BY <2>1 DEF TypeOK, Speaks
    <3>. QED  BY <1>0, <2>1, <2>2, <3>1 DEF Announced
  <2>3. CASE s \notin held[p]
    <3>1. p = job[r].id /\ s = job[r].new /\ job[r].old \in held[p]
      BY <1>2, <2>1, <2>3, WriteFacts DEF HandlerOK, RowsHeld
    <3>2. Announces(job[r])
      BY <2>3, <3>1 DEF Announces
    <3>. QED  BY <2>1, <3>1, <3>2 DEF TypeOK, Speaks
  <2>. QED  BY <2>2, <2>3
<1>3. ASSUME NEW r \in Request, Publish(r),
             NEW p \in Order, NEW s \in held'[p]
      PROVE  Heard(p, s)'
  <2>1. /\ pc' = [pc EXCEPT ![r] = "done"] /\ job' = job /\ held' = held
    BY <1>3 DEF Publish
  <2>2. CASE Announced(p, s)
    <3>1. PICK i \in 1..Len(channel[p]) : channel[p][i].new = s
      BY <2>2 DEF Announced
    <3>2. i \in 1..Len(channel'[p]) /\ channel'[p][i] = channel[p][i]
      BY <1>3, <3>1, PublishFacts DEF TypeOK
    <3>. QED  BY <3>1, <3>2 DEF Announced
  <2>3. CASE Speaks(r, p, s)
    <3>1. /\ Len(channel'[p]) = Len(channel[p]) + 1
          /\ channel'[p][Len(channel[p]) + 1].new = s
          /\ channel[p] \in Seq(Message)
      BY <1>3, <2>3, PublishFacts DEF Speaks, TypeOK
    <3>. QED  BY <3>1 DEF Announced
  <2>4. ASSUME NEW q \in Request, q # r, Speaks(q, p, s) PROVE Speaks(q, p, s)'
    BY <2>1, <2>4 DEF Speaks, TypeOK
  <2>. QED  BY <1>0, <2>1, <2>2, <2>3, <2>4
<1>4. ASSUME held' = held, channel' = channel,
             \A r \in Request : \A o \in Order : \A s \in OrderStatus :
               Speaks(r, o, s) => Speaks(r, o, s)'
      PROVE  \A o \in Order : \A s \in held'[o] : Heard(o, s)'
  BY <1>0, <1>4 DEF Announced, TypeOK
<1>5. ASSUME NEW r \in Request, FindForUpdate(r)
      PROVE  \A o \in Order : \A s \in held'[o] : Heard(o, s)'
  <2>1. pc[r] = "new" /\ OthersStay(r) /\ held' = held /\ channel' = channel
    BY <1>5 DEF FindForUpdate, TypeOK, OthersStay
  <2>. QED  BY <1>4, <2>1 DEF Speaks, OthersStay
<1>6. ASSUME NEW r \in Request, SelectForSave(r)
      PROVE  \A o \in Order : \A s \in held'[o] : Heard(o, s)'
  <2>1. pc[r] = "select" /\ OthersStay(r) /\ held' = held /\ channel' = channel
    BY <1>6 DEF SelectForSave, TypeOK, OthersStay
  <2>. QED  BY <1>4, <2>1 DEF Speaks, OthersStay
<1>7. ASSUME NEW r \in Request, SoftDelete(r)
      PROVE  \A o \in Order : \A s \in held'[o] : Heard(o, s)'
  <2>1. pc[r] = "new" /\ OthersStay(r) /\ held' = held /\ channel' = channel
    BY <1>7 DEF SoftDelete, TypeOK, OthersStay
  <2>. QED  BY <1>4, <2>1 DEF Speaks, OthersStay
<1>8. ASSUME NEW r \in Request, Abort(r)
      PROVE  \A o \in Order : \A s \in held'[o] : Heard(o, s)'
  <2>1. \A q \in Request : \A o \in Order : \A s \in OrderStatus :
          Speaks(q, o, s) => Speaks(q, o, s)'
    BY <1>8 DEF Abort, InFlight, TypeOK, Speaks
  <2>. QED  BY <1>4, <1>8, <2>1 DEF Abort
<1>9. ASSUME UNCHANGED vars
      PROVE  \A o \in Order : \A s \in held'[o] : Heard(o, s)'
  BY <1>4, <1>9 DEF vars, Speaks
<1>. QED
  BY <1>1, <1>2, <1>3, <1>5, <1>6, <1>7, <1>8, <1>9 DEF Next, Quiet

-----------------------------------------------------------------------------
LEMMA RaceInvInit == Init => RaceInv
<1>1. Init => \A r \in Request : HandlerOK(r)
  BY DEF Init, HandlerOK
<1>2. Init => EventsTruthful
  BY DEF Init, EventsTruthful
<1>. QED
  BY <1>1, <1>2, TypeInit DEF Init, RaceInv, RowsHeld, HeldStatusAnnounced

LEMMA RaceInvStep == RaceInv /\ [Next]_vars => RaceInv'
BY TypeStep, RowsHeldStep, HandlerStep, EventsStep, HeldStep DEF RaceInv

LEMMA RaceInvariant == Spec => []RaceInv
BY RaceInvInit, RaceInvStep, PTL DEF Spec

\* The rows, the messages and the locals keep their shape, because a handler
\* writes only the row of an order that exists (HandlerOK).
THEOREM TypeCorrect == Spec => []TypeOK
<1>1. RaceInv => TypeOK
  BY DEF RaceInv
<1>. QED  BY <1>1, RaceInvariant, PTL

\* However requests interleave and whenever a process stops, what is
\* published about an order is true of it: owner, old and new status.
THEOREM EventsAreTruthful == Spec => []EventsTruthful
<1>1. RaceInv => EventsTruthful
  BY DEF RaceInv
<1>. QED  BY <1>1, RaceInvariant, PTL

\* However requests interleave, no status goes unheard unless the handler that
\* wrote it stopped before its publish.
THEOREM HeldStatusIsAnnounced == Spec => []HeldStatusAnnounced
<1>1. RaceInv => HeldStatusAnnounced
  BY DEF RaceInv
<1>. QED  BY <1>1, RaceInvariant, PTL

-----------------------------------------------------------------------------
(* One order at a time, whatever happens to the others.  Overlap is a promise *)
(* about all requests; what an order needs is only that its own do not race.  *)

\* No two requests are in flight on the order, and it is not deleted between
\* the find and the UPDATE of an update.
Undisturbed(o) ==
  /\ \A q, r \in Request :
       /\ InFlight(q) /\ job[q].id = o
       /\ InFlight(r) /\ job[r].id = o
       => q = r
  /\ \A r \in Request :
       pc[r] \in {"select", "write"} /\ job[r].id = o => ~orders[o].deleted

\* What the handler in flight has read is still what the row holds.
UpToDate(r) ==
  LET o == job[r].id
  IN  /\ pc[r] \in {"select", "write"} => orders[o].status = job[r].old
      /\ pc[r] = "write" => job[r].dirty = Changed(job[r], orders[o])
      /\ pc[r] = "publish" => orders[o].status = job[r].new

\* Between publishes the channel of an order ends with its status, or the
\* handler that wrote this status has stopped without a word.
ToldOrLost(o) ==
  \/ /\ channel[o] # <<>>
     /\ channel[o][Len(channel[o])].new = orders[o].status
  \/ Lost(o, orders[o].status)

Followed(o) ==
  /\ \A r \in Request : job[r].id = o => UpToDate(r)
  /\ orders[o] # None /\ Pending(o) = {} => ToldOrLost(o)

\* A step changes the status of an order when it inserts its row or is the
\* UPDATE of a handler at work on it.
LEMMA StatusSteps ==
  ASSUME RaceInv, [Next]_vars, NEW o \in Order
  PROVE  \/ orders[o] = None
         \/ orders'[o] # None /\ orders'[o].status = orders[o].status
         \/ \E r \in Request : WriteForSave(r) /\ job[r].id = o
<1>. USE DEF RaceInv
<1>1. ASSUME NEW r \in Request, Create(r), orders[o] # None
      PROVE  orders'[o] = orders[o]
  BY <1>1 DEF Create, TypeOK
<1>2. ASSUME NEW r \in Request, WriteForSave(r), job[r].id # o
      PROVE  orders'[o] = orders[o]
  BY <1>2, WriteFacts
<1>3. ASSUME NEW r \in Request, SoftDelete(r), orders[o] # None
      PROVE  orders'[o] # None /\ orders'[o].status = orders[o].status
  <2>1. /\ [orders[o] EXCEPT !.deleted = TRUE] \in Row
        /\ [orders[o] EXCEPT !.deleted = TRUE].status = orders[o].status
    BY <1>3 DEF TypeOK, Row
  <2>. QED  BY <1>3, <2>1, RowIsNotNone DEF SoftDelete, TypeOK
<1>. QED
  BY <1>1, <1>2, <1>3
     DEF Next, Quiet, FindForUpdate, SelectForSave, Publish, Abort, vars

\* The UPDATE of a handler nobody disturbs writes the new status over the old
\* one and leaves deletedAt alone.
LEMMA UndisturbedWrite ==
  ASSUME RaceInv, NEW r \in Request, WriteForSave(r),
         Undisturbed(job[r].id), Followed(job[r].id)
  PROVE  LET o == job[r].id
         IN  /\ orders[o].status = job[r].old
             /\ orders'[o].status = job[r].new
             /\ ~orders'[o].deleted
<1>. USE DEF RaceInv
<1>. DEFINE o == job[r].id
<1>1. /\ orders[o].status = job[r].old /\ ~orders[o].deleted
      /\ job[r].dirty = Changed(job[r], orders[o])
  BY DEF Followed, UpToDate, Undisturbed, WriteForSave
<1>2. /\ "status" \in job[r].dirty <=> orders[o].status # job[r].new
      /\ "deleted" \notin job[r].dirty
  BY <1>1, ChangedFacts
<1>3. orders'[o].deleted = orders[o].deleted
  BY <1>2, WriteFacts, UpdatedFacts DEF TypeOK
<1>. QED  BY <1>1, <1>2, <1>3, WriteFacts

\* A handler that stays, on an order whose status and row stay.
LEMMA UpToDateStays ==
  ASSUME RaceInv, NEW o \in Order, Undisturbed(o), Undisturbed(o)',
         NEW q \in Request, pc'[q] = pc[q], job'[q] = job[q], job[q].id = o,
         UpToDate(q),
         InFlight(q) => orders'[o].status = orders[o].status
  PROVE  UpToDate(q)'
<1>1. pc[q] = "write" => ~orders[o].deleted /\ ~orders'[o].deleted
  BY DEF Undisturbed
<1>2. pc[q] = "write" => Changed(job[q], orders'[o]) = Changed(job[q], orders[o])
  BY <1>1 DEF Changed, InFlight
<1>. QED  BY <1>2 DEF UpToDate, InFlight

LEMMA UpToDateStep ==
  ASSUME RaceInv, NEW o \in Order, Undisturbed(o), Undisturbed(o)', Followed(o),
         [Next]_vars, NEW q \in Request, job'[q].id = o
  PROVE  UpToDate(q)'
<1>. USE DEF Goto
<1>a. /\ TypeOK /\ RowsHeld /\ \A r \in Request : HandlerOK(r)
      /\ \A r \in Request : job[r].id = o => UpToDate(r)
  BY DEF RaceInv, Followed
<1>2. ASSUME Create(q) PROVE UpToDate(q)'
  BY <1>2, <1>a, NewRowFacts DEF Create, TypeOK, UpToDate
<1>3. ASSUME FindForUpdate(q) PROVE UpToDate(q)'
  BY <1>3, <1>a DEF FindForUpdate, TypeOK, UpToDate
<1>4. ASSUME SelectForSave(q) PROVE UpToDate(q)'
  <2>. DEFINE row == orders[job[q].id]
              d == Changed(job[q], row)
              k == [job[q] EXCEPT !.dirty = d]
  <2>1. /\ pc[q] = "select" /\ pc'[q] = "write" /\ orders' = orders /\ job'[q] = k
    BY <1>4, <1>a DEF SelectForSave, TypeOK
  <2>2. job[q] \in Job /\ d \in SUBSET Column
    BY <1>a, ChangedFacts DEF TypeOK
  <2>3. /\ job'[q].id = job[q].id /\ job'[q].old = job[q].old
        /\ job'[q].dirty = Changed(job'[q], row)
    <3>. HIDE DEF row, d
    <3>1. k.id = job[q].id /\ k.old = job[q].old /\ k.new = job[q].new /\ k.dirty = d
      BY <2>2 DEF Job
    <3>. HIDE DEF k
    <3>2. Changed(k, row) = Changed(job[q], row)
      BY <3>1 DEF Changed
    <3>. QED  BY <2>1, <3>1, <3>2 DEF d
  <2>. HIDE DEF d, k
  <2>. QED  BY <1>a, <2>1, <2>3 DEF UpToDate
<1>5. ASSUME WriteForSave(q) PROVE UpToDate(q)'
  <2>1. job' = job /\ pc'[q] \in {"publish", "done"}
    BY <1>5, <1>a, WriteFacts DEF TypeOK
  <2>2. job[q].id = o /\ orders'[o].status = job[q].new
    BY <1>5, <1>a, <2>1, UndisturbedWrite DEF Followed
  <2>. QED  BY <2>1, <2>2 DEF UpToDate
<1>6. ASSUME Publish(q) \/ SoftDelete(q) \/ Abort(q) PROVE UpToDate(q)'
  BY <1>6, <1>a DEF Publish, SoftDelete, Abort, TypeOK, UpToDate
<1>7. ASSUME UNCHANGED vars PROVE UpToDate(q)'
  BY <1>7, <1>a DEF vars, UpToDate
<1>8. ASSUME NEW r \in Request, r # q,
             \/ Create(r) \/ FindForUpdate(r) \/ SelectForSave(r)
             \/ WriteForSave(r) \/ Publish(r) \/ SoftDelete(r) \/ Abort(r)
      PROVE  UpToDate(q)'
  <2>1. OthersStay(r)
    BY <1>8, <1>a
       DEF Create, FindForUpdate, SelectForSave, WriteForSave, Publish,
           SoftDelete, Abort, TypeOK, OthersStay
  <2>2. pc'[q] = pc[q] /\ job'[q] = job[q] /\ job[q].id = o /\ UpToDate(q)
    BY <1>8, <1>a, <2>1 DEF OthersStay
  <2>3. InFlight(q) =>
          ~ \E p \in Request : WriteForSave(p) /\ job[p].id = o
    BY <1>a, <2>2 DEF Undisturbed, WriteForSave, InFlight, TypeOK
  <2>4. InFlight(q) => orders'[o].status = orders[o].status
    BY <1>a, <2>2, <2>3, StatusSteps DEF HandlerOK, InFlight
  <2>. QED  BY <2>2, <2>4, UpToDateStays
<1>. QED
  BY <1>2, <1>3, <1>4, <1>5, <1>6, <1>7, <1>8 DEF Next, Quiet

\* What a stopped handler has left unsaid stays unsaid.
LEMMA LostStays ==
  ASSUME TypeOK, [Next]_vars, NEW o \in Order, NEW s \in OrderStatus, Lost(o, s)
  PROVE  \E r \in Request : pc'[r] = "unannounced" /\ job'[r].id = o /\ job'[r].new = s
<1>1. PICK r \in Request : pc[r] = "unannounced" /\ job[r].id = o /\ job[r].new = s
  BY DEF Lost
<1>2. pc'[r] = "unannounced" /\ job'[r] = job[r]
  BY <1>1
     DEF TypeOK, Next, Quiet, Create, FindForUpdate, SelectForSave, WriteForSave,
         Publish, SoftDelete, Abort, InFlight, Goto, vars
<1>. QED  BY <1>1, <1>2

LEMMA ToldStep ==
  ASSUME RaceInv, NEW o \in Order, Undisturbed(o), Followed(o),
         [Next]_vars, orders'[o] # None, Pending(o)' = {}
  PROVE  ToldOrLost(o)'
<1>. USE DEF Goto
<1>a. /\ TypeOK /\ \A r \in Request : HandlerOK(r)
      /\ orders[o] # None /\ Pending(o) = {} => ToldOrLost(o)
  BY DEF RaceInv, Followed
\* The step wrote neither the status nor the channel of the order.
<1>b. ASSUME orders[o] # None, Pending(o) = {}, channel'[o] = channel[o],
             orders'[o].status = orders[o].status
      PROVE  ToldOrLost(o)'
  <2>1. ToldOrLost(o) /\ orders[o].status \in OrderStatus
    BY <1>a, <1>b DEF TypeOK, Row
  <2>2. CASE Lost(o, orders[o].status)
    BY <1>a, <1>b, <2>1, <2>2, LostStays DEF ToldOrLost, Lost
  <2>3. CASE ~Lost(o, orders[o].status)
    BY <1>b, <2>1, <2>3 DEF ToldOrLost
  <2>. QED  BY <2>2, <2>3
<1>c. ASSUME NEW r \in Request, pc[r] # "publish", OthersStay(r)
      PROVE  Pending(o) = {}
  BY <1>c DEF Pending, OthersStay
<1>1. ASSUME NEW r \in Request, Create(r) PROVE ToldOrLost(o)'
  <2>1. OthersStay(r) /\ pc[r] = "new" /\ channel' = channel /\ pc'[r] = "publish"
    BY <1>a, <1>1 DEF Create, TypeOK, OthersStay
  <2>2. job'[r].id # o
    BY <2>1 DEF Pending
  <2>3. orders'[o] = orders[o]
    BY <1>a, <1>1, <2>2 DEF Create, TypeOK
  <2>. QED  BY <1>b, <1>c, <2>1, <2>3
<1>2. ASSUME NEW r \in Request, WriteForSave(r) PROVE ToldOrLost(o)'
  <2>1. /\ OthersStay(r) /\ pc[r] = "write" /\ channel' = channel /\ job' = job
        /\ pc'[r] = IF Announces(job[r]) THEN "publish" ELSE "done"
        /\ orders[job[r].id] # None
    BY <1>a, <1>2, WriteFacts DEF WriteForSave, TypeOK, OthersStay, HandlerOK
  <2>2. orders[o] # None /\ orders'[o].status = orders[o].status
    <3>1. CASE job[r].id = o
      <4>1. orders[o].status = job[r].old /\ orders'[o].status = job[r].new
        BY <1>2, <3>1, UndisturbedWrite
      <4>. QED  BY <2>1, <3>1, <4>1 DEF Announces, Pending
    <3>2. CASE job[r].id # o
      BY <1>a, <1>2, <3>2, WriteFacts
    <3>. QED  BY <3>1, <3>2
  <2>. QED  BY <1>b, <1>c, <2>1, <2>2
<1>3. ASSUME NEW r \in Request, Publish(r) PROVE ToldOrLost(o)'
  <2>1. /\ OthersStay(r) /\ pc[r] = "publish" /\ pc'[r] = "done"
        /\ orders' = orders /\ job' = job
    BY <1>a, <1>3 DEF Publish, TypeOK, OthersStay
  <2>2. CASE job[r].id = o
    <3>. DEFINE m == MessageOf(job[r])
    <3>1. /\ channel'[o] = Append(channel[o], m)
          /\ channel[o] \in Seq(Message) /\ m \in Message
          /\ m.new = job[r].new
      BY <1>a, <1>3, <2>2, PublishFacts DEF TypeOK
    <3>2. orders'[o].status = job[r].new
      BY <2>1, <2>2 DEF Followed, UpToDate
    <3>. HIDE DEF m
    <3>3. channel'[o] # <<>> /\ channel'[o][Len(channel'[o])] = m
      BY <3>1
    <3>. QED  BY <3>1, <3>2, <3>3 DEF ToldOrLost
  <2>3. CASE job[r].id # o
    <3>1. Pending(o) = {}
      BY <2>1, <2>3 DEF Pending, OthersStay
    <3>2. channel'[o] = channel[o]
      BY <1>a, <1>3, <2>3, PublishFacts
    <3>. QED  BY <1>b, <2>1, <3>1, <3>2
  <2>. QED  BY <2>2, <2>3
<1>4. ASSUME NEW r \in Request, Abort(r) PROVE ToldOrLost(o)'
  <2>1. /\ OthersStay(r) /\ channel' = channel /\ orders' = orders /\ job' = job
        /\ pc'[r] = IF pc[r] = "publish" THEN "unannounced" ELSE "aborted"
    BY <1>a, <1>4 DEF Abort, TypeOK, OthersStay
  <2>2. CASE pc[r] = "publish" /\ job[r].id = o
    BY <2>1, <2>2 DEF Followed, UpToDate, ToldOrLost, Lost
  <2>3. CASE ~(pc[r] = "publish" /\ job[r].id = o)
    <3>1. Pending(o) = {}
      BY <2>1, <2>3 DEF Pending, OthersStay
    <3>. QED  BY <1>b, <2>1, <3>1
  <2>. QED  BY <2>2, <2>3
<1>5. ASSUME NEW r \in Request,
             FindForUpdate(r) \/ SelectForSave(r) \/ SoftDelete(r)
      PROVE  ToldOrLost(o)'
  <2>1. OthersStay(r) /\ pc[r] # "publish" /\ channel' = channel
    BY <1>a, <1>5 DEF FindForUpdate, SelectForSave, SoftDelete, TypeOK, OthersStay
  <2>2. orders[o] # None
    BY <1>a, <1>5 DEF FindForUpdate, SelectForSave, SoftDelete, TypeOK
  <2>3. \A p \in Request : ~WriteForSave(p)
    BY <1>a, <1>5
       DEF FindForUpdate, SelectForSave, SoftDelete, WriteForSave, TypeOK
  <2>. QED  BY <1>b, <1>c, <2>1, <2>2, <2>3, StatusSteps
<1>6. ASSUME UNCHANGED vars PROVE ToldOrLost(o)'
  BY <1>a, <1>6 DEF vars, Pending, ToldOrLost, Lost
<1>. QED
  BY <1>1, <1>2, <1>3, <1>4, <1>5, <1>6 DEF Next, Quiet

LEMMA FollowedInit == Init => \A o \in Order : Followed(o)
BY DEF Init, Followed, UpToDate

LEMMA FollowedStep ==
  ASSUME RaceInv, NEW o \in Order, Undisturbed(o), Undisturbed(o)',
         Followed(o), [Next]_vars
  PROVE  Followed(o)'
BY UpToDateStep, ToldStep DEF Followed

\* What a subscriber sees of the order between two requests on it.
EndsWithStatus(o) ==
  orders[o] # None /\ (\A r \in Request : InFlight(r) => job[r].id # o) =>
    \/ /\ channel[o] # <<>>
       /\ channel[o][Len(channel[o])].new = orders[o].status
    \/ Lost(o, orders[o].status)

\* A step that leaves the order deleted, if it was, and that announces the
\* change of its status, if it is one.
Faithful(o) ==
  /\ orders[o] # None /\ orders[o].deleted => orders'[o].deleted
  /\ orders[o] # None /\ orders'[o].status # orders[o].status =>
       \E r \in Request : /\ pc'[r] = "publish"
                          /\ job'[r].id = o
                          /\ job'[r].old = orders[o].status
                          /\ job'[r].new = orders'[o].status

LEMMA FaithfulStep ==
  ASSUME RaceInv, NEW o \in Order, Undisturbed(o), Followed(o), [Next]_vars
  PROVE  Faithful(o)
<1>1. ASSUME orders[o] # None, orders[o].deleted
      PROVE  orders'[o].deleted
  <2>. USE DEF RaceInv
  <2>1. ASSUME NEW r \in Request, Create(r) PROVE orders'[o].deleted
    BY <1>1, <2>1 DEF Create, TypeOK
  <2>2. ASSUME NEW r \in Request, WriteForSave(r) PROVE orders'[o].deleted
    <3>1. job[r].id # o
      BY <1>1, <2>2 DEF WriteForSave, Undisturbed
    <3>. QED  BY <1>1, <2>2, <3>1, WriteFacts
  <2>3. ASSUME NEW r \in Request, SoftDelete(r) PROVE orders'[o].deleted
    <3>1. [orders[o] EXCEPT !.deleted = TRUE].deleted = TRUE
      BY <1>1 DEF TypeOK, Row
    <3>. QED  BY <1>1, <2>3, <3>1 DEF SoftDelete, TypeOK
  <2>. QED
    BY <1>1, <2>1, <2>2, <2>3
       DEF Next, Quiet, FindForUpdate, SelectForSave, Publish, Abort, vars
<1>2. ASSUME orders[o] # None, orders'[o].status # orders[o].status
      PROVE  \E r \in Request : /\ pc'[r] = "publish"
                                /\ job'[r].id = o
                                /\ job'[r].old = orders[o].status
                                /\ job'[r].new = orders'[o].status
  <2>1. PICK r \in Request : WriteForSave(r) /\ job[r].id = o
    BY <1>2, StatusSteps
  <2>2. orders[o].status = job[r].old /\ orders'[o].status = job[r].new
    BY <1>2, <2>1, UndisturbedWrite
  <2>3. job' = job /\ pc'[r] = "publish"
    BY <1>2, <2>1, <2>2, WriteFacts DEF RaceInv, TypeOK, Announces
  <2>. QED  BY <2>1, <2>2, <2>3
<1>. QED  BY <1>1, <1>2 DEF Faithful

LEMMA FollowedEnds ==
  ASSUME NEW o \in Order, Followed(o)
  PROVE  EndsWithStatus(o)
BY DEF Followed, EndsWithStatus, ToldOrLost, Pending, InFlight

\* An order whose own requests do not overlap is safe, however the requests on
\* other orders race: its deletion is final, each change of its status goes on
\* to be published, and its channel ends with its status.
THEOREM UndisturbedOrder ==
  ASSUME NEW o \in Order
  PROVE  Spec /\ []Undisturbed(o) =>
           [](EndsWithStatus(o)) /\ [][Faithful(o)]_vars
<1>1. Init => Followed(o)
  BY FollowedInit
<1>2. RaceInv /\ Undisturbed(o) /\ Undisturbed(o)' /\ Followed(o) /\ [Next]_vars
        => Followed(o)'
  BY FollowedStep
<1>3. Followed(o) => EndsWithStatus(o)
  BY FollowedEnds
<1>4. RaceInv /\ Undisturbed(o) /\ Followed(o) /\ [Next]_vars => [Faithful(o)]_vars
  BY FaithfulStep
<1>. QED  BY <1>1, <1>2, <1>3, <1>4, RaceInvariant, PTL DEF Spec

-----------------------------------------------------------------------------
(* When the environment lets no two requests overlap on an order.           *)

LEMMA WriteAlone ==
  ASSUME SerialInv, NEW r \in Request, WriteForSave(r)
  PROVE  LET o == job[r].id
         IN  /\ orders'[o].status = job[r].new
             /\ ~orders'[o].deleted
             /\ orders[o].status = job[r].old
             /\ ~orders[o].deleted
<1>. USE DEF SerialInv, RaceInv
<1>. DEFINE o == job[r].id
<1>1. /\ orders[o].status = job[r].old /\ ~orders[o].deleted
      /\ job[r].dirty = Changed(job[r], orders[o])
  BY DEF SerialOK, WriteForSave
<1>2. /\ "status" \in job[r].dirty <=> orders[o].status # job[r].new
      /\ "deleted" \notin job[r].dirty
  BY <1>1, ChangedFacts
<1>3. orders'[o].deleted = orders[o].deleted
  BY <1>2, WriteFacts, UpdatedFacts DEF TypeOK
<1>. QED  BY <1>1, <1>2, <1>3, WriteFacts

LEMMA SerialStep ==
  ASSUME SerialInv, ~Overlap, [Next]_vars, NEW q \in Request
  PROVE  SerialOK(q)'
<1>. USE DEF Goto
<1>a. TypeOK /\ RowsHeld /\ (\A r \in Request : HandlerOK(r) /\ SerialOK(r))
  BY DEF SerialInv, RaceInv
\* A request that stays, while no other one enters its order.
<1>b. ASSUME pc'[q] = pc[q], job'[q] = job[q],
             InFlight(q) => orders'[job[q].id] = orders[job[q].id],
             \A p \in Request \ {q} :
               InFlight(p)' /\ InFlight(q) =>
                 \/ InFlight(p) /\ job'[p].id = job[p].id
                 \/ job'[p].id # job[q].id
      PROVE  SerialOK(q)'
  BY <1>a, <1>b DEF SerialOK, InFlight, HandlerOK
<1>1. ASSUME NEW r \in Request, Create(r) PROVE SerialOK(q)'
  <2>1. PICK o \in Order, u \in User :
          /\ orders[o] = None
          /\ orders' = [orders EXCEPT ![o] = NewRow(u)]
          /\ job' = [job EXCEPT ![r] =
                       [id |-> o, userId |-> u, old |-> None,
                        new |-> NewRow(u).status, dirty |-> {}]]
    BY <1>1 DEF Create
  <2>2. OthersStay(r) /\ pc'[r] = "publish" /\ job'[r].id = o
        /\ job'[r].new = NewRow(u).status /\ orders'[o] = NewRow(u)
        /\ \A p \in Order \ {o} : orders'[p] = orders[p]
    BY <1>a, <1>1, <2>1 DEF Create, TypeOK, OthersStay
  <2>3. \A p \in Request : InFlight(p) => job[p].id # o
    BY <1>a, <2>1 DEF HandlerOK, InFlight
  <2>4. CASE q = r
    BY <2>2, <2>3, <2>4 DEF SerialOK, OthersStay, InFlight
  <2>5. CASE q # r
    <3>1. InFlight(q) => orders'[job[q].id] = orders[job[q].id]
      BY <1>a, <2>2, <2>3 DEF HandlerOK, InFlight
    <3>. QED  BY <1>b, <2>2, <2>3, <2>5, <3>1 DEF OthersStay, InFlight
  <2>. QED  BY <2>4, <2>5
<1>2. ASSUME NEW r \in Request, FindForUpdate(r) PROVE SerialOK(q)'
  <2>1. PICK o \in Order, s \in RequestedStatus :
          /\ MayStart(o)
          /\ \/ /\ Visible(o)
                /\ job' = [job EXCEPT ![r] =
                             [id |-> o, userId |-> orders[o].userId,
                              old |-> orders[o].status, new |-> s, dirty |-> {}]]
                /\ pc' = [pc EXCEPT ![r] = "select"]
             \/ /\ ~Visible(o)
                /\ pc' = [pc EXCEPT ![r] = "done"]
                /\ UNCHANGED job
    BY <1>2 DEF FindForUpdate
  <2>2. \A p \in Request : InFlight(p) => job[p].id # o
    BY <2>1 DEF MayStart
  <2>3. OthersStay(r) /\ pc[r] = "new" /\ orders' = orders
    BY <1>a, <1>2, <2>1 DEF FindForUpdate, TypeOK, OthersStay
  <2>4. \/ /\ pc'[r] = "select" /\ Visible(o)
           /\ job'[r].id = o /\ job'[r].old = orders[o].status
        \/ pc'[r] = "done"
    BY <1>a, <2>1 DEF TypeOK
  <2>5. CASE q = r
    BY <2>2, <2>3, <2>4, <2>5 DEF SerialOK, OthersStay, InFlight, Visible
  <2>6. CASE q # r
    BY <1>b, <2>2, <2>3, <2>4, <2>6 DEF OthersStay, InFlight
  <2>. QED  BY <2>5, <2>6
<1>3. ASSUME NEW r \in Request, SelectForSave(r) PROVE SerialOK(q)'
  <2>. DEFINE row == orders[job[r].id]
              d == Changed(job[r], row)
              k == [job[r] EXCEPT !.dirty = d]
  <2>1. /\ pc[r] = "select" /\ pc'[r] = "write" /\ OthersStay(r)
        /\ orders' = orders
        /\ job'[r] = k
    BY <1>a, <1>3 DEF SelectForSave, TypeOK, OthersStay
  <2>2. job[r] \in Job /\ d \in SUBSET Column
    BY <1>a, ChangedFacts DEF TypeOK
  <2>3. /\ job'[r].id = job[r].id /\ job'[r].old = job[r].old
        /\ job'[r].dirty = Changed(job'[r], row)
    <3>. HIDE DEF row, d
    <3>1. k.id = job[r].id /\ k.old = job[r].old /\ k.new = job[r].new /\ k.dirty = d
      BY <2>2 DEF Job
    <3>. HIDE DEF k
    <3>2. Changed(k, row) = Changed(job[r], row)
      BY <3>1 DEF Changed
    <3>. QED  BY <2>1, <3>1, <3>2 DEF d
  <2>4. CASE q = r
    <3>. HIDE DEF d, k
    <3>. QED  BY <1>a, <2>1, <2>3, <2>4 DEF SerialOK, OthersStay, InFlight
  <2>5. CASE q # r
    BY <1>b, <2>1, <2>3, <2>5 DEF OthersStay, InFlight
  <2>. QED  BY <2>4, <2>5
<1>4. ASSUME NEW r \in Request, WriteForSave(r) PROVE SerialOK(q)'
  <2>1. /\ pc[r] = "write" /\ job' = job /\ OthersStay(r)
        /\ pc'[r] \in {"publish", "done"}
        /\ orders'[job[r].id].status = job[r].new
        /\ \A p \in Order \ {job[r].id} : orders'[p] = orders[p]
    BY <1>4, <1>a, WriteFacts, WriteAlone DEF WriteForSave, TypeOK, OthersStay
  <2>2. CASE q = r
    BY <1>a, <2>1, <2>2 DEF SerialOK, OthersStay, InFlight
  <2>3. CASE q # r
    <3>1. InFlight(q) => orders'[job[q].id] = orders[job[q].id]
      BY <1>a, <2>1, <2>3 DEF SerialOK, HandlerOK, InFlight
    <3>. QED  BY <1>b, <2>1, <2>3, <3>1 DEF OthersStay, InFlight
  <2>. QED  BY <2>2, <2>3
<1>5. ASSUME NEW r \in Request, Publish(r) PROVE SerialOK(q)'
  BY <1>5, <1>a, <1>b DEF Publish, SerialOK, InFlight, TypeOK
<1>6. ASSUME NEW r \in Request, SoftDelete(r) PROVE SerialOK(q)'
  <2>1. pc[r] = "new" /\ pc'[r] = "done" /\ OthersStay(r) /\ job' = job
    BY <1>6, <1>a DEF SoftDelete, TypeOK, OthersStay
  <2>2. InFlight(q) => orders'[job[q].id] = orders[job[q].id]
    <3>1. PICK o \in Order :
            /\ MayStart(o)
            /\ \/ orders' = [orders EXCEPT ![o].deleted = TRUE]
               \/ orders' = orders
      BY <1>6 DEF SoftDelete
    <3>2. InFlight(q) => job[q].id \in Order \ {o}
      BY <1>a, <3>1 DEF MayStart, HandlerOK, InFlight
    <3>. QED  BY <1>a, <3>1, <3>2 DEF TypeOK
  <2>3. CASE q = r
    BY <2>1, <2>3 DEF SerialOK, InFlight
  <2>4. CASE q # r
    BY <1>b, <2>1, <2>2, <2>4 DEF OthersStay, InFlight
  <2>. QED  BY <2>3, <2>4
<1>7. ASSUME NEW r \in Request, Abort(r) PROVE SerialOK(q)'
  BY <1>7, <1>a, <1>b DEF Abort, SerialOK, InFlight, TypeOK
<1>8. ASSUME UNCHANGED vars PROVE SerialOK(q)'
  BY <1>8, <1>b DEF vars, InFlight
<1>. QED
  BY <1>1, <1>2, <1>3, <1>4, <1>5, <1>6, <1>7, <1>8 DEF Next, Quiet

LEMMA SerialInvariant ==
  ASSUME ~Overlap
  PROVE  Spec => []SerialInv
<1>1. Init => SerialInv
  BY RaceInvInit DEF Init, SerialInv, SerialOK, InFlight
<1>2. SerialInv /\ [Next]_vars => SerialInv'
  BY RaceInvStep, SerialStep DEF SerialInv
<1>. QED  BY <1>1, <1>2, PTL DEF Spec

\* Then no request disturbs another, and every order is followed.
AllUndisturbed == \A o \in Order : Undisturbed(o)

AllFollowed == \A o \in Order : Followed(o)

CalmInv == SerialInv /\ AllUndisturbed /\ AllFollowed

LEMMA CalmInvariant ==
  ASSUME ~Overlap
  PROVE  Spec => []CalmInv
<1>1. SerialInv => AllUndisturbed
  BY DEF SerialInv, SerialOK, AllUndisturbed, Undisturbed
<1>2. Init => AllFollowed
  BY FollowedInit DEF AllFollowed
<1>3. SerialInv /\ AllUndisturbed /\ AllUndisturbed' /\ AllFollowed /\ [Next]_vars
        => AllFollowed'
  BY FollowedStep DEF SerialInv, AllUndisturbed, AllFollowed
<1>. QED  BY <1>1, <1>2, <1>3, SerialInvariant, PTL DEF Spec, CalmInv

\* DELETE is final when no other request works on the order meanwhile: the
\* save() of an update then writes no deletedAt.
THEOREM DeletedStaysDeleted ==
  ASSUME ~Overlap
  PROVE  Spec => DeleteIsFinal
<1>1. CalmInv /\ [Next]_vars =>
        [\A o \in Order :
           orders[o] # None /\ orders[o].deleted => orders'[o].deleted]_vars
  BY FaithfulStep DEF CalmInv, AllUndisturbed, AllFollowed, SerialInv, Faithful
<1>. QED  BY <1>1, CalmInvariant, PTL DEF Spec, DeleteIsFinal

\* Under the same assumption the comment in updateStatus() is right: the step
\* that changes a status goes on to publish exactly that change.
THEOREM ChangesAreAnnounced ==
  ASSUME ~Overlap
  PROVE  Spec => EveryChangeAnnounced
<1>1. CalmInv /\ [Next]_vars =>
        [\A o \in Order :
           orders[o] # None /\ orders'[o].status # orders[o].status =>
             \E r \in Request : /\ pc'[r] = "publish"
                                /\ job'[r].id = o
                                /\ job'[r].old = orders[o].status
                                /\ job'[r].new = orders'[o].status]_vars
  BY FaithfulStep DEF CalmInv, AllUndisturbed, AllFollowed, SerialInv, Faithful
<1>. QED  BY <1>1, CalmInvariant, PTL DEF Spec, EveryChangeAnnounced

\* Without overlap, a subscriber that has seen everything knows the status of
\* every order no request is working on, unless the handler that wrote just
\* this status stopped before its publish.
THEOREM LastEventCurrent ==
  ASSUME ~Overlap
  PROVE  Spec => []LastEventIsCurrent
<1>1. CalmInv => LastEventIsCurrent
  BY FollowedEnds DEF CalmInv, AllFollowed, EndsWithStatus, LastEventIsCurrent
<1>. QED  BY <1>1, CalmInvariant, PTL

-----------------------------------------------------------------------------
(* No overlap: the order book.                                              *)

\* What an order is owed is the message of the one handler that stands before
\* its publish.
DueOf ==
  /\ \A r \in Request : pc[r] = "publish" =>
       /\ Pending(job[r].id) = {r}
       /\ dueBar[job[r].id] = MessageOf(job[r])
       /\ dueBar[job[r].id] # None
  /\ \A o \in Order : Pending(o) = {} => dueBar[o] = None

LEMMA DueFacts == SerialInv => DueOf
<1>. SUFFICES ASSUME SerialInv PROVE DueOf
  OBVIOUS
<1>. USE DEF SerialInv, RaceInv
<1>1. ASSUME NEW r \in Request, pc[r] = "publish"
      PROVE  /\ Pending(job[r].id) = {r}
             /\ dueBar[job[r].id] = MessageOf(job[r])
             /\ dueBar[job[r].id] # None
  <2>1. /\ job[r].id \in Order /\ orders[job[r].id] # None
        /\ job[r].userId = orders[job[r].id].userId
        /\ job[r].new \in OrderStatus
    BY <1>1 DEF HandlerOK
  <2>2. Pending(job[r].id) = {r}
    BY <1>1 DEF Pending, SerialOK, InFlight
  <2>3. (CHOOSE q \in Pending(job[r].id) : TRUE) = r
    BY <2>2
  <2>4. job[r] \in Job /\ job[r].userId \in User
    BY <2>1 DEF TypeOK, Row
  <2>5. MessageOf(job[r]) \in Message
    BY <2>1, <2>4, MessageOfType
  <2>6. MessageOf(job[r]) # None
    BY <2>5, OrderAssumption DEF Message
  <2>. QED  BY <2>1, <2>2, <2>3, <2>6 DEF dueBar
<1>2. \A o \in Order : Pending(o) = {} => dueBar[o] = None
  BY DEF dueBar
<1>. QED  BY <1>1, <1>2 DEF DueOf

LEMMA DueFactsNext == SerialInv' => DueOf'
BY DueFacts, PTL

\* What is owed for an order no step touches.
LEMMA DueSame ==
  ASSUME SerialInv, SerialInv', NEW o \in Order,
         Pending(o)' = Pending(o), \A q \in Pending(o) : job'[q] = job[q]
  PROVE  dueBar'[o] = dueBar[o]
<1>. DueOf /\ DueOf'
  BY DueFacts, DueFactsNext
<1>1. CASE Pending(o) = {}
  BY <1>1 DEF DueOf
<1>2. ASSUME NEW r \in Pending(o) PROVE dueBar'[o] = dueBar[o]
  <2>1. r \in Request /\ pc[r] = "publish" /\ job[r].id = o
    BY <1>2 DEF Pending
  <2>2. pc'[r] = "publish" /\ job'[r] = job[r]
    BY <1>2 DEF Pending
  <2>3. dueBar[o] = MessageOf(job[r])
    BY <2>1 DEF DueOf
  <2>4. dueBar'[o] = MessageOf(job'[r])
    BY <2>1, <2>2 DEF DueOf
  <2>. QED  BY <2>2, <2>3, <2>4
<1>. QED  BY <1>1, <1>2

LEMMA DueIsFunction == dueBar = [o \in Order |-> dueBar[o]]
BY DEF dueBar

LEMMA DueIsFunctionNext == dueBar' = [o \in Order |-> dueBar'[o]]
BY DEF dueBar

\* A step of the service is a step of the order book, or none.
LEMMA BookStep ==
  ASSUME SerialInv, SerialInv', ~Overlap, [Next]_vars
  PROVE  [OB!Next]_(OB!bookVars)
<1>. USE DEF Goto
<1>a. /\ DueOf /\ DueOf'
      /\ TypeOK /\ RowsHeld
      /\ \A r \in Request : HandlerOK(r) /\ SerialOK(r)
  BY DueFacts, DueFactsNext DEF SerialInv, RaceInv
<1>b. ASSUME \A o \in Order : dueBar'[o] = dueBar[o] PROVE dueBar' = dueBar
  BY <1>b, DueIsFunction, DueIsFunctionNext
<1>c. ASSUME NEW o \in Order, NEW m, dueBar'[o] = m,
             \A p \in Order \ {o} : dueBar'[p] = dueBar[p]
      PROVE  dueBar' = [dueBar EXCEPT ![o] = m]
  BY <1>c, DueIsFunction, DueIsFunctionNext
<1>1. ASSUME NEW r \in Request, Create(r) PROVE OB!Next
  <2>1. PICK o \in Order, u \in User :
          /\ orders[o] = None
          /\ orders' = [orders EXCEPT ![o] = NewRow(u)]
          /\ job' = [job EXCEPT ![r] =
                       [id |-> o, userId |-> u, old |-> None,
                        new |-> NewRow(u).status, dirty |-> {}]]
    BY <1>1 DEF Create
  <2>2. /\ OthersStay(r) /\ pc[r] = "new" /\ pc'[r] = "publish" /\ channel' = channel
        /\ job'[r] = [id |-> o, userId |-> u, old |-> None,
                      new |-> NewRow(u).status, dirty |-> {}]
    BY <1>a, <1>1, <2>1 DEF Create, TypeOK, OthersStay
    <2>. DEFINE m == [orderId |-> o, userId |-> u, old |-> None, new |-> "pending"]
  <2>4. MessageOf(job'[r]) = m /\ job'[r].id = o
    BY <2>2, NewRowFacts DEF MessageOf
  <2>5. dueBar'[o] = m
    BY <1>a, <2>2, <2>4 DEF DueOf
  <2>6. ASSUME NEW p \in Order \ {o} PROVE dueBar'[p] = dueBar[p]
    <3>1. Pending(p)' = Pending(p) /\ \A q \in Pending(p) : job'[q] = job[q]
      BY <2>2, <2>4, <2>6 DEF Pending, OthersStay
    <3>. QED  BY <1>a, <2>2, <3>1, DueSame
  <2>7. dueBar' = [dueBar EXCEPT ![o] = m]
    BY <1>c, <2>5, <2>6
  <2>8. OB!Place(o, u)
    BY <2>1, <2>2, <2>7 DEF OB!Place, OB!Owe, NewRow
  <2>. QED  BY <2>8 DEF OB!Next
<1>2. ASSUME NEW r \in Request, OthersStay(r), pc[r] # "publish", pc'[r] # "publish"
      PROVE  dueBar' = dueBar
  <2>1. ASSUME NEW p \in Order PROVE dueBar'[p] = dueBar[p]
    <3>1. Pending(p)' = Pending(p) /\ \A q \in Pending(p) : job'[q] = job[q]
      BY <1>2 DEF Pending, OthersStay
    <3>. QED  BY <1>a, <1>2, <3>1, DueSame
  <2>. QED  BY <1>b, <2>1
<1>3. ASSUME NEW r \in Request, FindForUpdate(r) PROVE UNCHANGED <<orders, dueBar, channel>>
  <2>1. /\ OthersStay(r) /\ channel' = channel /\ orders' = orders
        /\ pc[r] # "publish" /\ pc'[r] # "publish"
    BY <1>a, <1>3 DEF FindForUpdate, TypeOK, OthersStay
  <2>. QED  BY <1>2, <2>1
<1>4. ASSUME NEW r \in Request, SelectForSave(r) PROVE UNCHANGED <<orders, dueBar, channel>>
  <2>1. /\ OthersStay(r) /\ channel' = channel /\ orders' = orders
        /\ pc[r] # "publish" /\ pc'[r] # "publish"
    BY <1>a, <1>4 DEF SelectForSave, TypeOK, OthersStay
  <2>. QED  BY <1>2, <2>1
<1>5. ASSUME NEW r \in Request, WriteForSave(r) PROVE [OB!Next]_(OB!bookVars)
  <2>. DEFINE o == job[r].id
  <2>1. /\ o \in Order /\ orders[o] \in Row /\ orders'[o] \in Row
        /\ orders[o] # None
        /\ job[r].new \in OrderStatus
        /\ orders[o].status = job[r].old /\ orders'[o].status = job[r].new
        /\ ~orders[o].deleted /\ ~orders'[o].deleted
        /\ orders'[o].userId = orders[o].userId
        /\ orders[o].userId = job[r].userId
    BY <1>a, <1>5, WriteFacts, WriteAlone, RowIsNotNone DEF HandlerOK, WriteForSave
  <2>2. orders'[o] = [orders[o] EXCEPT !.status = job[r].new]
    BY <2>1 DEF Row
  <2>3. orders' = [orders EXCEPT ![o].status = job[r].new]
    BY <1>a, <1>5, <2>1, <2>2, WriteFacts DEF WriteForSave, TypeOK
  <2>4. /\ OthersStay(r) /\ channel' = channel /\ job' = job /\ pc[r] = "write"
        /\ pc'[r] = IF Announces(job[r]) THEN "publish" ELSE "done"
    BY <1>a, <1>5, WriteFacts DEF WriteForSave, TypeOK, OthersStay
  <2>5. CASE Announces(job[r])
    <3>. DEFINE m == [orderId |-> o, userId |-> orders[o].userId,
                      old |-> orders[o].status, new |-> job[r].new]
    <3>1. MessageOf(job[r]) = m
      BY <2>1 DEF MessageOf
    <3>2. Pending(o) = {}
      BY <1>a, <2>4 DEF Pending, SerialOK, InFlight
    <3>3. dueBar'[o] = m
      BY <1>a, <2>1, <2>4, <2>5, <3>1 DEF DueOf
    <3>4. ASSUME NEW p \in Order \ {o} PROVE dueBar'[p] = dueBar[p]
      <4>1. Pending(p)' = Pending(p) /\ \A q \in Pending(p) : job'[q] = job[q]
        BY <2>4, <3>4 DEF Pending, OthersStay
      <4>. QED  BY <1>a, <2>4, <4>1, DueSame
    <3>5. dueBar' = [dueBar EXCEPT ![o] = m]
      BY <1>c, <2>1, <3>3, <3>4
    <3>6. OB!SetStatus(o, job[r].new)
      BY <1>a, <2>1, <2>3, <2>4, <2>5, <3>2, <3>5 DEF OB!SetStatus, OB!Owe, Announces, DueOf
    <3>. QED  BY <2>1, <3>6 DEF OB!Next
  <2>6. CASE ~Announces(job[r])
    <3>1. dueBar' = dueBar
      BY <1>2, <2>4, <2>6
    <3>2. orders' = orders
      <4>1. orders'[o] = orders[o]
        BY <2>1, <2>2, <2>6 DEF Announces, Row
      <4>. QED  BY <1>a, <1>5, <4>1, WriteFacts DEF WriteForSave, TypeOK
    <3>. QED  BY <2>4, <3>1, <3>2 DEF OB!bookVars
  <2>. QED  BY <2>5, <2>6
<1>5a. ASSUME NEW r \in Request, pc[r] = "publish", pc'[r] # "publish",
              OthersStay(r), job' = job
       PROVE  /\ job[r].id \in Order
              /\ dueBar[job[r].id] = MessageOf(job[r])
              /\ dueBar[job[r].id] # None
              /\ dueBar' = [dueBar EXCEPT ![job[r].id] = None]
  <2>. DEFINE o == job[r].id
  <2>1. o \in Order /\ Pending(o) = {r} /\ dueBar[o] = MessageOf(job[r]) /\ dueBar[o] # None
    BY <1>a, <1>5a DEF DueOf, HandlerOK
  <2>2. Pending(o)' = {}
    BY <1>5a, <2>1 DEF Pending, OthersStay
  <2>3. dueBar'[o] = None
    BY <1>a, <1>5a, <2>1, <2>2 DEF DueOf
  <2>4. ASSUME NEW p \in Order \ {o} PROVE dueBar'[p] = dueBar[p]
    <3>1. Pending(p)' = Pending(p) /\ \A q \in Pending(p) : job'[q] = job[q]
      BY <1>5a, <2>4 DEF Pending, OthersStay
    <3>. QED  BY <3>1, DueSame
  <2>. QED  BY <1>c, <2>1, <2>3, <2>4
<1>6. ASSUME NEW r \in Request, Publish(r) PROVE OB!Next
  <2>. DEFINE o == job[r].id
  <2>1. /\ OthersStay(r) /\ pc[r] = "publish" /\ pc'[r] # "publish"
        /\ orders' = orders /\ job' = job
        /\ channel' = [channel EXCEPT ![o] = Append(@, MessageOf(job[r]))]
    BY <1>a, <1>6 DEF Publish, TypeOK, OthersStay
  <2>2. OB!Announce(o)
    BY <1>5a, <2>1 DEF OB!Announce
  <2>. QED  BY <1>5a, <2>1, <2>2 DEF OB!Next
<1>7. ASSUME NEW r \in Request, SoftDelete(r) PROVE [OB!Next]_(OB!bookVars)
  <2>1. /\ OthersStay(r) /\ channel' = channel
        /\ pc[r] # "publish" /\ pc'[r] # "publish"
    BY <1>a, <1>7 DEF SoftDelete, TypeOK, OthersStay
  <2>2. dueBar' = dueBar
    BY <1>2, <2>1
  <2>3. PICK o \in Order :
          /\ MayStart(o)
          /\ \/ orders[o] # None /\ orders' = [orders EXCEPT ![o].deleted = TRUE]
             \/ orders' = orders
    BY <1>7 DEF SoftDelete
  <2>4. dueBar[o] = None
    BY <1>a, <2>3 DEF MayStart, DueOf, Pending, InFlight
  <2>. QED  BY <2>1, <2>2, <2>3, <2>4 DEF OB!Next, OB!Delete, OB!bookVars
<1>8. ASSUME NEW r \in Request, Abort(r) PROVE [OB!Next]_(OB!bookVars)
  <2>. DEFINE o == job[r].id
  <2>1. /\ Faults /\ OthersStay(r) /\ pc'[r] # "publish"
        /\ orders' = orders /\ job' = job /\ channel' = channel
    BY <1>a, <1>8 DEF Abort, TypeOK, OthersStay
  <2>2. CASE pc[r] = "publish"
    <3>1. OB!Lose(o)
      BY <1>5a, <2>1, <2>2 DEF OB!Lose
    <3>. QED  BY <1>5a, <2>1, <2>2, <3>1 DEF OB!Next
  <2>3. CASE pc[r] # "publish"
    BY <1>2, <2>1, <2>3 DEF OB!bookVars
  <2>. QED  BY <2>2, <2>3
<1>9. ASSUME UNCHANGED vars PROVE UNCHANGED <<orders, dueBar, channel>>
  BY <1>9 DEF vars, dueBar, Pending, MessageOf
<1>. QED
  BY <1>1, <1>3, <1>4, <1>5, <1>6, <1>7, <1>8, <1>9 DEF Next, Quiet, OB!bookVars

\* Without overlap the handlers, cut up at every await and stopped at any,
\* implement the order book, whose operations are indivisible.
THEOREM RefinesOrderBook ==
  ASSUME ~Overlap
  PROVE  Spec => ImplementsOrderBook
<1>1. Init => OB!Init
  <2>. SUFFICES ASSUME Init PROVE OB!Init
    OBVIOUS
  <2>1. \A o \in Order : Pending(o) = {}
    BY DEF Init, Pending
  <2>. QED  BY <2>1 DEF Init, OB!Init, dueBar
<1>2. SerialInv /\ SerialInv' /\ [Next]_vars => [OB!Next]_(OB!bookVars)
  BY BookStep
<1>. QED  BY <1>1, <1>2, SerialInvariant, PTL DEF Spec, OB!Spec, ImplementsOrderBook
=============================================================================
