--------------------------- MODULE GatewayProofs ---------------------------
(***************************************************************************)
(* Proofs about Gateway, for any requests, addresses, routes, limits and   *)
(* services with a strategy.                                               *)
(***************************************************************************)
EXTENDS Gateway, FiniteSetTheorems, TLAPS

\* What is known of request r at each place of its way.
Placed(r) ==
  /\ pc[r] # "new" => req[r] \in Req /\ req[r].route \in Used
  /\ pc[r] \in AtService \cup {"relay"} => req[r].route \in Proxied
  /\ pc[r] \in {"gateway", "stalled", "relay"} => ~req[r].direct
  /\ pc[r] \in {"respond", "relay"} => status[r] \in Status \ {429}
  /\ pc[r] \in {"new", "gateway", "relay"} => told[r] = None
  /\ pc[r] \in AtService => told[r] \in {None, Cut}
  /\ pc[r] = "done" => told[r] # None

PlacedInv == TypeOK /\ \A r \in Request : Placed(r)

\* Status st is no lie about the handler of request r.
Believable(r, st) ==
  /\ st = 200 => r \in acted
  /\ st \in {400, 403, 404, 408, 429} => r \notin acted
  /\ st = 401 /\ req[r].route # "refresh" => r \notin acted

\* The handler has acted exactly from its step "acted" on, and the status being
\* sent or told is no lie about it.
Answered(r) ==
  /\ pc[r] \in {"new", "gateway", "stalled", "service", "handler"} => r \notin acted
  /\ pc[r] = "acted" => r \in acted
  /\ pc[r] \in {"respond", "relay"} => Believable(r, status[r])
  /\ pc[r] = "done" /\ req[r].route \in Proxied => Believable(r, told[r])
  /\ pc[r] = "done" /\ req[r].route \notin Proxied => r \notin acted

\* Request q carries what its route asks for.
Cleared(q) ==
  q.route \notin OpenRoutes =>
    /\ q.token # None /\ ServiceOf[q.route] \in StrategyIn
    /\ q.route \in AdminRoutes => q.token.role = "admin"

\* The reason for a refusal st of request q.
Reason(q, st) ==
  /\ st = 401 /\ q.route \notin OpenRoutes => ~SignedIn(q)
  /\ st = 403 => q.token # None /\ q.route \in AdminRoutes /\ q.token.role # "admin"

\* Work is done for those who are cleared, and a refusal on its way or told has
\* its reason.
Judged(r) ==
  /\ pc[r] = "handler" \/ r \in acted => Cleared(req[r])
  /\ pc[r] \in {"respond", "relay"} => Reason(req[r], status[r])
  /\ told[r] # None => Reason(req[r], told[r])

\* The requests that have used up the limit of address a on route x.
Spent(a, x) ==
  {s \in Request : told[s] \in {200, 503} /\ req[s].from = a /\ req[s].route = x}

\* The throttler counts no more than these, and refuses at the limit only.
HitsInv ==
  /\ \A a \in Address, x \in OwnRoutes : hits[<<a, x>>] <= Cardinality(Spent(a, x))
  /\ \A r \in Request :
       told[r] = 429 => Limit <= Cardinality(Spent(req[r].from, req[r].route))

-----------------------------------------------------------------------------
LEMMA RouteFacts ==
  /\ Proxied = {"login", "refresh", "adminOnly", "orders", "create", "status",
                "remove", "bare", "notifications"}
  /\ \A x \in Proxied : x \notin OwnRoutes /\ x # "unknown"
  /\ \A x \in Proxied \cap Used : ServiceOf[x] \in Service /\ ServiceOf[x] \in Process
  /\ \A x \in Proxied : ServiceOf[x] \in {"auth", "order", "notification"}
  /\ "gateway" \notin Service
BY DEF Proxied, ServiceOf, OwnRoutes, Service, Process

LEMMA VerdictFacts ==
  ASSUME NEW q \in Req, q.route \in Proxied
  PROVE  /\ Verdict(q) \in {200, 401, 403, 404, 500}
         /\ Verdict(q) = 200 => Cleared(q)
         /\ Reason(q, Verdict(q))
<1>1. CASE q.route = "bare"
  BY <1>1 DEF Verdict, Reason, Cleared, OpenRoutes
<1>2. CASE q.route # "bare" /\ q.route \in OpenRoutes
  BY <1>2 DEF Verdict, Reason, Cleared, OpenRoutes
<1>3. CASE /\ q.route # "bare" /\ q.route \notin OpenRoutes
           /\ ServiceOf[q.route] \notin StrategyIn
  BY <1>3 DEF Verdict, Reason, Cleared
<1>4. CASE /\ q.route # "bare" /\ q.route \notin OpenRoutes
           /\ ServiceOf[q.route] \in StrategyIn /\ ~SignedIn(q)
  BY <1>4 DEF Verdict, Reason, Cleared
<1>5. CASE /\ q.route # "bare" /\ q.route \notin OpenRoutes
           /\ ServiceOf[q.route] \in StrategyIn /\ SignedIn(q) /\ ~HasRole(q)
  BY <1>5 DEF Verdict, Reason, Cleared, HasRole, SignedIn
<1>6. CASE /\ q.route # "bare" /\ q.route \notin OpenRoutes
           /\ ServiceOf[q.route] \in StrategyIn /\ SignedIn(q) /\ HasRole(q)
  BY <1>6 DEF Verdict, Reason, Cleared, HasRole, SignedIn
<1>7. QED
  BY <1>1, <1>2, <1>3, <1>4, <1>5, <1>6

\* None is none of the values it stands in for, and Cut no status.
LEMMA AssumedOfNone ==
  /\ None \notin AccessToken /\ None \notin Req /\ None \notin Status /\ None # Cut
  /\ Cut \notin Status /\ Limit \in Nat /\ MaxTime \in Nat
BY GatewayAssumption DEF Cut, Status

LEMMA InitPlaced == Init => PlacedInv
<1> SUFFICES ASSUME Init PROVE PlacedInv
  OBVIOUS
<1>1. TypeOK
  BY AssumedOfNone DEF Init, TypeOK, Steps
<1>2. \A r \in Request : Placed(r)
  BY DEF Init, Placed, AtService
<1>3. QED
  BY <1>1, <1>2 DEF PlacedInv

\* The service of a request under way there is one of the processes.
LEMMA AtProcess ==
  ASSUME PlacedInv, NEW r \in Request, pc[r] \in AtService \cup {"relay"}
  PROVE  At(r) \in Service /\ At(r) \in Process
BY RouteFacts DEF PlacedInv, Placed, At, AtService

\* A request that is answered stays in its place otherwise.
LEMMA AnswerPlaced ==
  ASSUME PlacedInv, NEW r \in Request, NEW st \in Status,
         pc[r] # "new", Answer(r, st), UNCHANGED <<req, status>>
  PROVE  /\ pc' \in [Request -> Steps]
         /\ told' \in [Request -> Status \cup {Cut, None}]
         /\ counted' \in [Process -> SUBSET [request : Request, status : Status]]
         /\ \A s \in Request : Placed(s)'
<1>1. [request |-> r, status |-> st] \in [request : Request, status : Status]
  OBVIOUS
<1>2. /\ pc' \in [Request -> Steps]
      /\ told' \in [Request -> Status \cup {Cut, None}]
  BY DEF PlacedInv, TypeOK, Answer, Goto, Steps
<1>3. counted' \in [Process -> SUBSET [request : Request, status : Status]]
  BY <1>1 DEF PlacedInv, TypeOK, Answer, Count, Process
<1>4. ASSUME NEW s \in Request
      PROVE  Placed(s)'
  BY AssumedOfNone DEF PlacedInv, TypeOK, Answer, Goto, Placed, AtService
<1>5. QED
  BY <1>2, <1>3, <1>4

\* So does one whose service has decided.
LEMMA DecidePlaced ==
  ASSUME PlacedInv, NEW r \in Request, NEW st \in Status \ {429},
         pc[r] \in AtService, Decide(r, st), UNCHANGED <<req, told>>
  PROVE  /\ pc' \in [Request -> Steps]
         /\ status' \in [Request -> Status \cup {None}]
         /\ \A s \in Request : Placed(s)'
<1>1. /\ pc' \in [Request -> Steps]
      /\ status' \in [Request -> Status \cup {None}]
  BY DEF PlacedInv, TypeOK, Decide, Goto, Steps, AtService
<1>2. ASSUME NEW s \in Request
      PROVE  Placed(s)'
  BY DEF PlacedInv, TypeOK, Decide, Goto, Placed, AtService
<1>3. QED
  BY <1>1, <1>2

LEMMA PlacedStep ==
  ASSUME PlacedInv, [Next]_vars
  PROVE  PlacedInv'
<1> USE DEF PlacedInv
<1>1. ASSUME NEW r \in Request, Send(r)
      PROVE  PlacedInv'
  <2>1. PICK q \in Req : /\ Sensible(q) /\ req' = [req EXCEPT ![r] = q]
                          /\ Goto(r, IF q.direct THEN "service" ELSE "gateway")
    BY <1>1 DEF Send
  <2>2. TypeOK'
    BY <1>1, <2>1 DEF Send, TypeOK, Goto, Steps, AtService
  <2>3. ASSUME NEW s \in Request
        PROVE  Placed(s)'
    BY <1>1, <2>1 DEF Send, Sensible, TypeOK, Goto, Placed, AtService
  <2>4. QED
    BY <2>2, <2>3
<1>2. ASSUME NEW r \in Request, AnswerOwn(r)
      PROVE  PlacedInv'
  <2>1. /\ pc[r] = "gateway" /\ UNCHANGED <<now, up, req, status, acted, gone>>
        /\ req[r] \in Req
    BY <1>2 DEF AnswerOwn, Placed
  <2>2. PICK st \in Status : Answer(r, st)
    BY <1>2 DEF AnswerOwn, Status, OwnStatus
  <2>3. hits' \in [Address \X OwnRoutes -> 0..Limit]
    BY <1>2, <2>1, AssumedOfNone DEF AnswerOwn, TypeOK, Limited, Req
  <2>4. QED
    BY <2>1, <2>2, <2>3, AnswerPlaced DEF TypeOK
<1>3. ASSUME NEW r \in Request, Forward(r)
      PROVE  PlacedInv'
  <2>1. CASE Answer(r, 504)
    BY <1>3, <2>1, AnswerPlaced DEF Forward, TypeOK, Status
  <2>2. CASE /\ Goto(r, IF req[r].body THEN "stalled" ELSE "service")
             /\ UNCHANGED <<told, counted>>
    <3>1. TypeOK'
      BY <1>3, <2>2 DEF Forward, TypeOK, Goto, Steps, AtService
    <3>2. ASSUME NEW s \in Request
          PROVE  Placed(s)'
      BY <1>3, <2>2 DEF Forward, TypeOK, Goto, Placed, AtService
    <3>3. QED
      BY <3>1, <3>2
  <2>3. QED
    BY <1>3, <2>1, <2>2 DEF Forward
<1>4. ASSUME NEW r \in Request, Guard(r)
      PROVE  PlacedInv'
  <2>1. /\ pc[r] = "service" /\ req[r] \in Req /\ req[r].route \in Proxied
        /\ UNCHANGED <<now, up, req, told, acted, counted, gone, hits>>
    BY <1>4 DEF Guard, Placed, AtService
  <2>2. CASE Goto(r, "handler") /\ UNCHANGED status
    <3>1. TypeOK'
      BY <2>1, <2>2 DEF TypeOK, Goto, Steps, AtService
    <3>2. ASSUME NEW s \in Request
          PROVE  Placed(s)'
      BY <2>1, <2>2 DEF TypeOK, Goto, Placed, AtService
    <3>3. QED
      BY <3>1, <3>2
  <2>3. CASE Decide(r, Verdict(req[r]))
    <3>1. Verdict(req[r]) \in Status \ {429}
      BY <2>1, VerdictFacts DEF Status
    <3>2. QED
      BY <2>1, <2>3, <3>1, DecidePlaced DEF TypeOK, AtService
  <2>4. QED
    BY <1>4, <2>2, <2>3 DEF Guard
<1>5. ASSUME NEW r \in Request, Act(r)
      PROVE  PlacedInv'
  <2>1. TypeOK'
    BY <1>5 DEF Act, TypeOK, Goto, Steps, AtService
  <2>2. ASSUME NEW s \in Request
        PROVE  Placed(s)'
    BY <1>5 DEF Act, TypeOK, Goto, Placed, AtService
  <2>3. QED
    BY <2>1, <2>2
<1>6. ASSUME NEW r \in Request,
             Refuse(r) \/ RefuseExpired(r) \/ Complete(r) \/ Fail(r)
      PROVE  PlacedInv'
  <2>1. PICK st \in Status \ {429} : Decide(r, st)
    BY <1>6 DEF Refuse, RefuseExpired, Complete, Fail, Status
  <2>2. pc[r] \in AtService /\ UNCHANGED <<now, up, req, told, counted, gone, hits, acted>>
    BY <1>6 DEF Refuse, RefuseExpired, Complete, Fail, AtService
  <2>3. QED
    BY <2>1, <2>2, DecidePlaced DEF TypeOK
<1>7. ASSUME NEW r \in Request, Respond(r)
      PROVE  PlacedInv'
  <2>1. /\ pc[r] = "respond" /\ status[r] \in Status /\ told[r] \in {None, Cut}
        /\ At(r) \in Process
    BY <1>7, AtProcess DEF Respond, Placed, AtService
  <2>2. counted' \in [Process -> SUBSET [request : Request, status : Status]]
    <3>1. [request |-> r, status |-> status[r]] \in [request : Request, status : Status]
      BY <2>1
    <3>2. QED
      BY <1>7, <3>1 DEF Respond, Count, TypeOK
  <2>3. TypeOK'
    BY <1>7, <2>1, <2>2 DEF Respond, Deliver, TypeOK, Goto, Steps
  <2>4. ASSUME NEW s \in Request
        PROVE  Placed(s)'
    BY <1>7, <2>1, AssumedOfNone DEF Respond, Deliver, TypeOK, Goto, Placed, AtService
  <2>5. QED
    BY <2>3, <2>4
<1>8. ASSUME NEW r \in Request, Relay(r)
      PROVE  PlacedInv'
  BY <1>8, AnswerPlaced DEF Relay, TypeOK, Placed
<1>9. ASSUME NEW r \in Request, HangUp(r)
      PROVE  PlacedInv'
  <2>1. TypeOK'
    BY <1>9 DEF HangUp, TypeOK, Goto, Steps
  <2>2. ASSUME NEW s \in Request
        PROVE  Placed(s)'
    BY <1>9, AssumedOfNone DEF HangUp, TypeOK, Goto, Placed, AtService, Steps
  <2>3. QED
    BY <2>1, <2>2
<1>10. ASSUME NEW p \in Process, StopService(p)
       PROVE  PlacedInv'
  <2>1. TypeOK'
    BY <1>10 DEF StopService, Forget, TypeOK, Steps, Status
  <2>2. ASSUME NEW s \in Request
        PROVE  Placed(s)'
    BY <1>10, AssumedOfNone DEF StopService, TypeOK, Placed, AtService, Status
  <2>3. QED
    BY <2>1, <2>2
<1>11. CASE StopGateway
  <2>1. TypeOK'
    BY <1>11, AssumedOfNone DEF StopGateway, Forget, TypeOK, Steps, Process
  <2>2. ASSUME NEW s \in Request
        PROVE  Placed(s)'
    BY <1>11, AssumedOfNone DEF StopGateway, TypeOK, Placed, AtService, Steps
  <2>3. QED
    BY <2>1, <2>2
<1>12. ASSUME NEW p \in Process, Start(p)
       PROVE  PlacedInv'
  BY <1>12 DEF Start, TypeOK, Placed
<1>13. ASSUME NEW k \in Address \X OwnRoutes, EndWindow(k)
       PROVE  PlacedInv'
  BY <1>13, AssumedOfNone DEF EndWindow, TypeOK, Placed
<1>14. CASE Tick
  BY <1>14, AssumedOfNone DEF Tick, TypeOK, Placed
<1>15. CASE UNCHANGED vars
  BY <1>15 DEF vars, TypeOK, Placed
<1>16. ASSUME NEW r \in Request, TimeOut(r)
       PROVE  PlacedInv'
  <2>1. \E step \in {"relay", "done"} : pc' = [pc EXCEPT ![r] = step]
    BY <1>16 DEF TimeOut, Goto
  <2>2. status' \in [Request -> Status \cup {None}] /\ UNCHANGED Status
    BY <1>16 DEF TimeOut, TypeOK, Status
  <2>3. TypeOK'
    BY <1>16, <2>1, <2>2 DEF TimeOut, TypeOK, Steps
  <2>4. ASSUME NEW s \in Request
        PROVE  Placed(s)'
    BY <1>16, AssumedOfNone DEF TimeOut, TypeOK, Goto, Placed, AtService, Status
  <2>5. QED
    BY <2>3, <2>4
<1>17. QED
  BY <1>1, <1>2, <1>3, <1>4, <1>5, <1>6, <1>7, <1>8, <1>9, <1>10, <1>11, <1>12,
     <1>13, <1>14, <1>15, <1>16 DEF Next, Advance, Quiet

\* What each step knows of the requests, whose places are the usual ones.
LEMMA AnsweredStep ==
  ASSUME PlacedInv, \A r \in Request : Answered(r), [Next]_vars, NEW s \in Request
  PROVE  Answered(s)'
<1> USE DEF PlacedInv, TypeOK, Placed
<1>1. ASSUME NEW r \in Request, Send(r)
      PROVE  Answered(s)'
  BY <1>1
     DEF Send, Goto, Answered, Believable, AtService, Steps
<1>2. ASSUME NEW r \in Request, AnswerOwn(r)
      PROVE  Answered(s)'
  BY <1>2, AssumedOfNone, RouteFacts
     DEF AnswerOwn, Answer, Goto, Answered, Believable, AtService, Steps
<1>3. ASSUME NEW r \in Request, Forward(r)
      PROVE  Answered(s)'
  BY <1>3, AssumedOfNone, RouteFacts
     DEF Forward, Answer, Goto, Answered, Believable, AtService, Steps
<1>4. ASSUME NEW r \in Request, Guard(r)
      PROVE  Answered(s)'
  BY <1>4, VerdictFacts
     DEF Guard, Decide, Goto, Answered, Believable, AtService, Steps
<1>5. ASSUME NEW r \in Request, Act(r)
      PROVE  Answered(s)'
  BY <1>5
     DEF Act, Goto, Answered, Believable, AtService, Steps
<1>6. ASSUME NEW r \in Request,
             Refuse(r) \/ RefuseExpired(r) \/ Complete(r) \/ Fail(r)
      PROVE  Answered(s)'
  BY <1>6
     DEF Refuse, RefuseExpired, Complete, Fail, Decide, Goto, Answered, Believable,
         AtService, Steps
<1>7. ASSUME NEW r \in Request, Respond(r)
      PROVE  Answered(s)'
  BY <1>7, AssumedOfNone, RouteFacts
     DEF Respond, Deliver, Goto, Answered, Believable, AtService, Steps, Cut
<1>8. ASSUME NEW r \in Request, Relay(r)
      PROVE  Answered(s)'
  BY <1>8
     DEF Relay, Answer, Goto, Answered, Believable, AtService, Steps
<1>9. ASSUME NEW r \in Request, HangUp(r)
      PROVE  Answered(s)'
  BY <1>9, AssumedOfNone, RouteFacts
     DEF HangUp, Goto, Answered, Believable, AtService, Steps, Cut
<1>10. ASSUME NEW p \in Process, StopService(p)
       PROVE  Answered(s)'
  BY <1>10, AssumedOfNone, RouteFacts
     DEF StopService, Goto, Answered, Believable, AtService, Steps, Cut
<1>11. CASE StopGateway
  BY <1>11, AssumedOfNone, RouteFacts
     DEF StopGateway, Goto, Answered, Believable, AtService, Steps, Cut
<1>12. ASSUME NEW p \in Process, Start(p)
       PROVE  Answered(s)'
  BY <1>12
     DEF Start, Goto, Answered, Believable, AtService, Steps
<1>13. ASSUME NEW k \in Address \X OwnRoutes, EndWindow(k)
       PROVE  Answered(s)'
  BY <1>13
     DEF EndWindow, Goto, Answered, Believable, AtService, Steps
<1>14. CASE Tick
  BY <1>14
     DEF Tick, Goto, Answered, Believable, AtService, Steps
<1>15. CASE UNCHANGED vars
  BY <1>15
     DEF vars, Goto, Answered, Believable, AtService, Steps
<1>16. ASSUME NEW r \in Request, TimeOut(r)
       PROVE  Answered(s)'
  BY <1>16, AssumedOfNone, RouteFacts
     DEF TimeOut, Goto, Answered, Believable, AtService, Steps, Cut
<1>17. QED
  BY <1>1, <1>2, <1>3, <1>4, <1>5, <1>6, <1>7, <1>8, <1>9, <1>10, <1>11, <1>12,
     <1>13, <1>14, <1>15, <1>16 DEF Next, Advance, Quiet

LEMMA JudgedStep ==
  ASSUME PlacedInv, \A r \in Request : Answered(r) /\ Judged(r), [Next]_vars,
         NEW s \in Request
  PROVE  Judged(s)'
<1> USE DEF PlacedInv, TypeOK, Placed
<1>1. ASSUME NEW r \in Request, Send(r)
      PROVE  Judged(s)'
  BY <1>1
     DEF Send, Goto, Answered, Judged, Cleared, Reason, SignedIn, AtService, Steps
<1>2. ASSUME NEW r \in Request, AnswerOwn(r)
      PROVE  Judged(s)'
  BY <1>2, AssumedOfNone, RouteFacts
     DEF AnswerOwn, Answer, OwnStatus, Goto, Answered, Judged, Cleared, Reason, SignedIn, AtService, Steps
<1>3. ASSUME NEW r \in Request, Forward(r)
      PROVE  Judged(s)'
  BY <1>3, AssumedOfNone, RouteFacts
     DEF Forward, Answer, Goto, Judged, Cleared, Reason, SignedIn, AtService, Steps
<1>4. ASSUME NEW r \in Request, Guard(r)
      PROVE  Judged(s)'
  BY <1>4, VerdictFacts
     DEF Guard, Decide, Goto, Judged, Cleared, Reason, SignedIn, AtService, Steps
<1>5. ASSUME NEW r \in Request, Act(r)
      PROVE  Judged(s)'
  BY <1>5
     DEF Act, Goto, Judged, Cleared, Reason, SignedIn, AtService, Steps
<1>6. ASSUME NEW r \in Request,
             Refuse(r) \/ RefuseExpired(r) \/ Complete(r) \/ Fail(r)
      PROVE  Judged(s)'
  BY <1>6
     DEF Refuse, RefuseExpired, Complete, Fail, Decide, Goto, Judged, Cleared, Reason,
         SignedIn, OpenRoutes, AtService, Steps
<1>7. ASSUME NEW r \in Request, Respond(r)
      PROVE  Judged(s)'
  BY <1>7, AssumedOfNone, RouteFacts
     DEF Respond, Deliver, Goto, Judged, Cleared, Reason, SignedIn, AtService, Steps, Cut
<1>8. ASSUME NEW r \in Request, Relay(r)
      PROVE  Judged(s)'
  BY <1>8
     DEF Relay, Answer, Goto, Judged, Cleared, Reason, SignedIn, AtService, Steps
<1>9. ASSUME NEW r \in Request, HangUp(r)
      PROVE  Judged(s)'
  BY <1>9, AssumedOfNone, RouteFacts
     DEF HangUp, Goto, Judged, Cleared, Reason, SignedIn, AtService, Steps, Cut
<1>10. ASSUME NEW p \in Process, StopService(p)
       PROVE  Judged(s)'
  BY <1>10, AssumedOfNone, RouteFacts
     DEF StopService, Goto, Judged, Cleared, Reason, SignedIn, AtService, Steps, Cut
<1>11. CASE StopGateway
  BY <1>11, AssumedOfNone, RouteFacts
     DEF StopGateway, Goto, Judged, Cleared, Reason, SignedIn, AtService, Steps, Cut
<1>12. ASSUME NEW p \in Process, Start(p)
       PROVE  Judged(s)'
  BY <1>12
     DEF Start, Goto, Judged, Cleared, Reason, SignedIn, AtService, Steps
<1>13. ASSUME NEW k \in Address \X OwnRoutes, EndWindow(k)
       PROVE  Judged(s)'
  BY <1>13
     DEF EndWindow, Goto, Judged, Cleared, Reason, SignedIn, AtService, Steps
<1>14. CASE Tick
  <2>1. pc[s] # "new" /\ ~SignedIn(req[s]) => ~SignedIn(req[s])'
    <3>1. ASSUME pc[s] # "new", req[s].token # None
          PROVE  req[s].token.exp \in Nat
      BY <3>1 DEF Req, AccessToken
    <3>2. QED
      BY <1>14, <3>1 DEF Tick, SignedIn
  <2>2. told[s] # None \/ pc[s] \in {"respond", "relay"} => pc[s] # "new"
    OBVIOUS
  <2>3. UNCHANGED <<pc, req, status, told, acted>>
    BY <1>14 DEF Tick
  <2>4. QED
    BY <2>1, <2>2, <2>3 DEF Judged, Cleared, Reason
<1>15. CASE UNCHANGED vars
  BY <1>15
     DEF vars, Goto, Judged, Cleared, Reason, SignedIn, AtService, Steps
<1>16. ASSUME NEW r \in Request, TimeOut(r)
       PROVE  Judged(s)'
  BY <1>16, AssumedOfNone
     DEF TimeOut, Goto, Judged, Cleared, Reason, SignedIn, AtService, Steps
<1>17. QED
  BY <1>1, <1>2, <1>3, <1>4, <1>5, <1>6, <1>7, <1>8, <1>9, <1>10, <1>11, <1>12,
     <1>13, <1>14, <1>15, <1>16 DEF Next, Advance, Quiet

-----------------------------------------------------------------------------
\* What a client was told stays what it was told, with the request it answers.
LEMMA ToldStays ==
  ASSUME PlacedInv, [Next]_vars, NEW s \in Request, told[s] \in Status
  PROVE  told'[s] = told[s] /\ req'[s] = req[s]
<1>1. pc[s] = "done" /\ told[s] # None
  BY AssumedOfNone DEF PlacedInv, TypeOK, Placed, Steps, AtService
<1>2. /\ told \in [Request -> Status \cup {Cut, None}] /\ req \in [Request -> Req \cup {None}]
  BY DEF PlacedInv, TypeOK
<1>3. ASSUME NEW r \in Request,
             Send(r) \/ Advance(r) \/ TimeOut(r) \/ Fail(r) \/ HangUp(r)
      PROVE  told'[s] = told[s] /\ req'[s] = req[s]
  <2>1. pc[r] # "done"
    BY <1>3 DEF Send, Advance, AnswerOwn, Forward, Guard, Act, Refuse,
                RefuseExpired, Complete, TimeOut, Fail, Respond, Relay, HangUp
  <2>2. \/ UNCHANGED told
        \/ \E st : told' = [told EXCEPT ![r] = st]
    BY <1>3 DEF Send, Advance, AnswerOwn, Forward, Guard, Act, Refuse,
                RefuseExpired, Complete, TimeOut, Fail, Respond, Deliver, Relay,
                HangUp, Answer
  <2>3. \/ UNCHANGED req
        \/ \E q : req' = [req EXCEPT ![r] = q]
    BY <1>3 DEF Send, Advance, AnswerOwn, Forward, Guard, Act, Refuse,
                RefuseExpired, Complete, TimeOut, Fail, Respond, Relay, HangUp
  <2>4. QED
    BY <1>1, <1>2, <2>1, <2>2, <2>3
<1>4. CASE StopGateway
  BY <1>1, <1>2, <1>4 DEF StopGateway
<1>5. ASSUME NEW p \in Process, StopService(p)
      PROVE  told'[s] = told[s] /\ req'[s] = req[s]
  BY <1>1, <1>2, <1>5 DEF StopService
<1>6. CASE \/ \E p \in Process : Start(p)
           \/ \E k \in Address \X OwnRoutes : EndWindow(k)
           \/ Tick \/ Quiet \/ UNCHANGED vars
  BY <1>6 DEF Start, EndWindow, Tick, Quiet, vars
<1>7. QED
  BY <1>3, <1>4, <1>5, <1>6 DEF Next

\* The requests that have used up a limit are finitely many and stay so.
LEMMA SpentGrows ==
  ASSUME PlacedInv, [Next]_vars, NEW a, NEW x
  PROVE  /\ Spent(a, x) \subseteq Spent(a, x)'
         /\ Cardinality(Spent(a, x)) \in Nat /\ Cardinality(Spent(a, x)') \in Nat
         /\ Cardinality(Spent(a, x)) <= Cardinality(Spent(a, x)')
         /\ IsFiniteSet(Spent(a, x)) /\ IsFiniteSet(Spent(a, x)')
<1>1. Spent(a, x) \subseteq Spent(a, x)'
  BY ToldStays DEF Spent, Status
<1>2. IsFiniteSet(Spent(a, x)) /\ IsFiniteSet(Spent(a, x)')
  <2>1. Spent(a, x) \subseteq Request /\ Spent(a, x)' \subseteq Request
    BY DEF Spent
  <2>2. QED
    BY <2>1, GatewayAssumption, FS_Subset
<1>3. QED
  BY <1>1, <1>2, FS_Subset, FS_CardinalityType

\* Whoever was refused was refused with reason, and that reason remains.
LEMMA StillSpent ==
  ASSUME PlacedInv, HitsInv, [Next]_vars, NEW r \in Request, told[r] = 429
  PROVE  Limit <= Cardinality(Spent(req[r].from, req[r].route)')
<1>1. PICK a, x : a = req[r].from /\ x = req[r].route
  OBVIOUS
<1>2. Limit <= Cardinality(Spent(a, x)) /\ req'[r] = req[r]
  BY <1>1, ToldStays DEF HitsInv, Status
<1>3. Limit <= Cardinality(Spent(a, x)')
  BY <1>2, SpentGrows, AssumedOfNone
<1>4. QED
  BY <1>1, <1>2, <1>3 DEF Spent

LEMMA HitsStep ==
  ASSUME PlacedInv, HitsInv, [Next]_vars
  PROVE  HitsInv'
<1>1. \A k \in Address \X OwnRoutes : hits[k] \in Nat
  BY AssumedOfNone DEF PlacedInv, TypeOK
<1>2. ASSUME \A k \in Address \X OwnRoutes : hits'[k] \in {0, hits[k]},
             \A r \in Request : told'[r] = 429 => told[r] = 429
      PROVE  HitsInv'
  <2>1. ASSUME NEW a \in Address, NEW x \in OwnRoutes
        PROVE  hits'[<<a, x>>] <= Cardinality(Spent(a, x)')
    BY <1>1, <1>2, SpentGrows DEF HitsInv
  <2>2. ASSUME NEW r \in Request, told'[r] = 429
        PROVE  Limit <= Cardinality(Spent(req[r].from, req[r].route)')
               /\ req'[r] = req[r]
    BY <1>2, <2>2, ToldStays, StillSpent DEF Status
  <2>3. QED
    BY <2>1, <2>2 DEF HitsInv, Spent
<1>3. ASSUME NEW r \in Request, AnswerOwn(r)
      PROVE  HitsInv'
  <2>1. /\ pc[r] = "gateway" /\ req[r] \in Req /\ told[r] = None /\ UNCHANGED req
    BY <1>3 DEF AnswerOwn, PlacedInv, TypeOK, Placed
  <2>2. CASE Limited(req[r]) /\ Answer(r, 429) /\ UNCHANGED hits
    <3>1. /\ req[r].from \in Address /\ req[r].route \in OwnRoutes
          /\ hits[<<req[r].from, req[r].route>>] >= Limit
      BY <2>1, <2>2 DEF Limited, Req
    <3>2. Limit <= Cardinality(Spent(req[r].from, req[r].route)')
      <4>1. PICK a \in Address, x \in OwnRoutes : a = req[r].from /\ x = req[r].route
        BY <3>1
      <4>2. hits[<<a, x>>] >= Limit /\ hits[<<a, x>>] <= Cardinality(Spent(a, x))
        BY <3>1, <4>1 DEF HitsInv
      <4>3. hits[<<a, x>>] \in Nat
        BY <1>1
      <4>4. Limit <= Cardinality(Spent(a, x)')
        BY <4>2, <4>3, SpentGrows, AssumedOfNone
      <4>5. QED
        BY <2>1, <4>1, <4>4 DEF Spent
    <3>3. ASSUME NEW s \in Request, told'[s] = 429
          PROVE  Limit <= Cardinality(Spent(req[s].from, req[s].route)')
      <4>1. CASE s = r
        BY <3>2, <4>1
      <4>2. CASE s # r
        <5>1. told[s] = 429
          BY <2>2, <3>3, <4>2 DEF Answer, PlacedInv, TypeOK
        <5>2. QED
          BY <5>1, StillSpent
      <4>3. QED
        BY <4>1, <4>2
    <3>4. ASSUME NEW a \in Address, NEW x \in OwnRoutes
          PROVE  hits'[<<a, x>>] <= Cardinality(Spent(a, x)')
      BY <1>1, <2>2, SpentGrows DEF HitsInv
    <3>5. QED
      BY <2>1, <3>3, <3>4 DEF HitsInv, Spent
  <2>3. CASE /\ req[r].route \in OwnRoutes /\ ~Limited(req[r])
             /\ \E st \in OwnStatus(req[r].route) : Answer(r, st)
             /\ hits' = [hits EXCEPT ![<<req[r].from, req[r].route>>] = @ + 1]
    <3>1. PICK st \in {200, 503} : Answer(r, st)
      BY <2>3 DEF OwnStatus
    <3>2. told' = [told EXCEPT ![r] = st] /\ told \in [Request -> Status \cup {Cut, None}]
      BY <3>1 DEF Answer, PlacedInv, TypeOK
    <3>3. ASSUME NEW a \in Address, NEW x \in OwnRoutes
          PROVE  hits'[<<a, x>>] <= Cardinality(Spent(a, x)')
      <4>1. CASE <<a, x>> # <<req[r].from, req[r].route>>
        <5>1. hits'[<<a, x>>] = hits[<<a, x>>]
          BY <2>3, <4>1 DEF PlacedInv, TypeOK
        <5>2. QED
          BY <1>1, <5>1, SpentGrows DEF HitsInv
      <4>2. CASE a = req[r].from /\ x = req[r].route
        <5>1. hits'[<<a, x>>] = hits[<<a, x>>] + 1
          BY <2>3, <4>2 DEF PlacedInv, TypeOK
        <5>2. r \notin Spent(a, x) /\ r \in Spent(a, x)'
          BY <2>1, <3>2, <4>2, AssumedOfNone DEF Spent, Status
        <5>3. Cardinality(Spent(a, x) \cup {r}) = Cardinality(Spent(a, x)) + 1
          BY <5>2, SpentGrows, FS_AddElement
        <5>4. Spent(a, x) \cup {r} \subseteq Spent(a, x)'
          BY <5>2, SpentGrows
        <5>5. Cardinality(Spent(a, x) \cup {r}) <= Cardinality(Spent(a, x)')
          BY <5>4, SpentGrows, FS_Subset
        <5>6. hits[<<a, x>>] <= Cardinality(Spent(a, x))
          BY DEF HitsInv
        <5>7. Cardinality(Spent(a, x)) \in Nat /\ Cardinality(Spent(a, x)') \in Nat
          BY SpentGrows
        <5>8. hits[<<a, x>>] \in Nat
          BY <1>1
        <5>9. QED
          BY <5>1, <5>3, <5>5, <5>6, <5>7, <5>8
      <4>3. QED
        BY <4>1, <4>2
    <3>4. ASSUME NEW s \in Request, told'[s] = 429
          PROVE  Limit <= Cardinality(Spent(req[s].from, req[s].route)')
      <4>1. told[s] = 429
        BY <3>1, <3>2, <3>4
      <4>2. QED
        BY <4>1, StillSpent
    <3>5. QED
      BY <2>1, <3>3, <3>4 DEF HitsInv, Spent
  <2>4. CASE Answer(r, 404) /\ UNCHANGED hits
    BY <1>2, <2>4 DEF Answer, PlacedInv, TypeOK
  <2>5. QED
    BY <1>3, <2>2, <2>3, <2>4 DEF AnswerOwn
<1>4. ASSUME NEW r \in Request, Relay(r) \/ Respond(r)
      PROVE  HitsInv'
  <2>1. /\ status[r] # 429 /\ UNCHANGED hits
        /\ UNCHANGED told \/ told' = [told EXCEPT ![r] = status[r]]
    BY <1>4 DEF Relay, Answer, Respond, Deliver, PlacedInv, Placed
  <2>2. QED
    BY <1>2, <2>1 DEF PlacedInv, TypeOK
<1>5. ASSUME NEW r \in Request,
             \/ Send(r) \/ Forward(r) \/ Guard(r) \/ Act(r) \/ Refuse(r)
             \/ RefuseExpired(r) \/ Complete(r) \/ TimeOut(r) \/ Fail(r)
             \/ HangUp(r)
      PROVE  HitsInv'
  <2>1. /\ UNCHANGED hits
        /\ UNCHANGED told \/ \E st \in {Cut, 504} : told' = [told EXCEPT ![r] = st]
    BY <1>5 DEF Send, Forward, Guard, Act, Refuse, RefuseExpired, Complete,
                TimeOut, Fail, HangUp, Answer
  <2>2. QED
    BY <1>2, <2>1 DEF PlacedInv, TypeOK, Cut
<1>6. CASE StopGateway
  BY <1>2, <1>6 DEF StopGateway, PlacedInv, TypeOK, Cut
<1>7. ASSUME NEW k \in Address \X OwnRoutes, EndWindow(k)
      PROVE  HitsInv'
  BY <1>2, <1>7 DEF EndWindow, PlacedInv, TypeOK
<1>8. ASSUME NEW p \in Process, StopService(p)
      PROVE  HitsInv'
  BY <1>2, <1>8 DEF StopService, PlacedInv, TypeOK, Cut
<1>9. CASE \/ \E p \in Process : Start(p)
           \/ Tick \/ Quiet \/ UNCHANGED vars
  BY <1>2, <1>9 DEF Start, Tick, Quiet, vars
<1>10. QED
  BY <1>3, <1>4, <1>5, <1>6, <1>7, <1>8, <1>9 DEF Next, Advance

-----------------------------------------------------------------------------
(* The counts of the processes. *)

\* What process p has counted for request r in all its lives, and one such count.
Entries(p, r) == {c \in counted[p] \cup gone[p] : c.request = r}

Entry(r, st) == [request |-> r, status |-> st]

\* G and S, the counts of gateway and service for request r, fit its place.
Tally(r, place, st, answer, G, S) ==
  /\ place \in AtService \cup {"gateway"} => G = {} /\ S = {}
  /\ place = "relay" => /\ G = {}
                        /\ \/ S = {Entry(r, st)}
                           \/ S = {} /\ st \in {408, 504}
  /\ place = "done" =>
       \/ answer = Cut /\ G = {} /\ \E x \in Status : S \subseteq {Entry(r, x)}
       \/ req[r].direct /\ G = {} /\ S = {Entry(r, answer)}
       \/ /\ G = {Entry(r, answer)}
          /\ \/ S = G
             \/ S = {} /\ answer \in {408, 504}

Tallied(r) ==
  /\ pc[r] = "new" => \A p \in Process : Entries(p, r) = {}
  /\ pc[r] # "new" /\ req[r].route \in Proxied =>
       Tally(r, pc[r], status[r], told[r], Entries("gateway", r), Entries(At(r), r))

TalliedInv == \A r \in Request : Tallied(r)

\* What a step can do to request r and to the counts of it.
Kept(r) == \A p \in Process : Entries(p, r)' = Entries(p, r)

Stays(r) ==
  /\ UNCHANGED <<pc[r], req[r], status[r], told[r]>>
  /\ Kept(r)

Enters(r) ==
  /\ pc[r] = "new" /\ pc'[r] \in {"gateway", "service"}
  /\ req'[r].route \in Used
  /\ Kept(r)

Moves(r) ==
  /\ pc[r] \in AtService \cup {"gateway"}
  /\ \/ pc'[r] \in AtService
     \/ pc'[r] = "relay" /\ status'[r] \in {408, 504}
  /\ req'[r] = req[r]
  /\ Kept(r)

Counts(r, p, st) ==
  /\ Entries(p, r)' = Entries(p, r) \cup {Entry(r, st)}
  /\ \A o \in Process : o # p => Entries(o, r)' = Entries(o, r)

IsCut(r) ==
  /\ pc[r] \in AtService \cup {"gateway", "relay"}
  /\ pc'[r] = "done" /\ told'[r] = Cut
  /\ req'[r] = req[r]
  /\ \/ Kept(r)
     \/ pc[r] = "respond" /\ Counts(r, At(r), status[r])

IsAnswered(r) ==
  /\ pc'[r] = "done"
  /\ req'[r] = req[r]
  /\ \E st \in Status :
       /\ \/ pc[r] = "gateway" /\ st = 504
          \/ pc[r] = "gateway" /\ req[r].route \notin Proxied
          \/ pc[r] = "relay" /\ st = status[r]
       /\ told'[r] = st
       /\ Counts(r, "gateway", st)

Responds(r) ==
  /\ pc[r] = "respond" /\ pc'[r] = "relay"
  /\ req'[r] = req[r] /\ status'[r] = status[r]
  /\ Counts(r, At(r), status[r])

IsServed(r) ==
  /\ pc[r] = "respond" /\ pc'[r] = "done"
  /\ req'[r] = req[r] /\ req[r].direct /\ told'[r] = status[r]
  /\ Counts(r, At(r), status[r])

\* The ways in which a step can move request r on.
MovesOn(r) ==
  \/ Stays(r) \/ Enters(r) \/ Moves(r) \/ IsCut(r)
  \/ IsAnswered(r) \/ Responds(r) \/ IsServed(r)

\* Whichever way it moves, what was counted for it fits its new place.
LEMMA TalliedMove ==
  ASSUME PlacedInv, NEW s \in Request, Tallied(s), MovesOn(s)
  PROVE  Tallied(s)'
<1>0. /\ "gateway" \in Process
      /\ pc[s] # "new" /\ req[s].route \in Proxied => At(s) \in Process /\ At(s) # "gateway"
  BY RouteFacts DEF PlacedInv, Placed, At, Process
<1>01. req'[s] = req[s] => At(s)' = At(s)
  BY DEF At
<1>1. CASE Stays(s)
  <2>1. CASE pc[s] = "new"
    BY <1>1, <2>1 DEF Stays, Kept, Tallied
  <2>2. CASE pc[s] # "new" /\ req[s].route \in Proxied
    <3>1. /\ Entries("gateway", s)' = Entries("gateway", s)
          /\ Entries(At(s), s)' = Entries(At(s), s)
      BY <1>0, <1>01, <1>1, <2>2 DEF Stays, Kept
    <3>2. Tally(s, pc[s], status[s], told[s], Entries("gateway", s), Entries(At(s), s))'
      BY <1>1, <2>2, <3>1 DEF Stays, Tallied, Tally, Entry
    <3>3. QED
      BY <1>1, <2>2, <3>2 DEF Stays, Tallied
  <2>3. CASE pc[s] # "new" /\ req[s].route \notin Proxied
    BY <1>1, <2>3 DEF Stays, Tallied
  <2>4. QED
    BY <2>1, <2>2, <2>3
<1>2. CASE Enters(s)
  <2>1. \A p \in Process : Entries(p, s)' = {}
    BY <1>2 DEF Enters, Kept, Tallied
  <2>2. req'[s].route \in Proxied => At(s)' \in Process
    BY <1>2, RouteFacts DEF Enters, At
  <2>3. req'[s].route \in Proxied =>
          Tally(s, pc[s], status[s], told[s], Entries("gateway", s), Entries(At(s), s))'
    BY <1>0, <1>2, <2>1, <2>2 DEF Enters, Tally, AtService
  <2>4. QED
    BY <1>2, <2>3 DEF Enters, Tallied
<1>3. CASE Moves(s)
  <2>1. CASE req[s].route \in Proxied
    <3>1. pc[s] # "new" /\ pc'[s] # "new" /\ pc'[s] # "done"
      BY <1>3 DEF Moves, AtService
    <3>2. Entries("gateway", s) = {} /\ Entries(At(s), s) = {}
      BY <1>3, <2>1, <3>1 DEF Moves, Tallied, Tally
    <3>3. Entries("gateway", s)' = {} /\ Entries(At(s), s)' = {}
      BY <1>0, <1>01, <1>3, <2>1, <3>1, <3>2 DEF Moves, Kept
    <3>4. Tally(s, pc[s], status[s], told[s], Entries("gateway", s), Entries(At(s), s))'
      BY <1>3, <3>1, <3>3 DEF Moves, Tally, AtService
    <3>5. QED
      BY <3>1, <3>4 DEF Tallied
  <2>2. CASE req[s].route \notin Proxied
    BY <1>3, <2>2 DEF Moves, Tallied, AtService
  <2>3. QED
    BY <2>1, <2>2
<1>4. CASE IsCut(s)
  <2>1. CASE req[s].route \in Proxied
    <3>1. /\ pc[s] # "new"
          /\ pc[s] \in {"respond", "relay"} => status[s] \in Status
      BY <1>4 DEF IsCut, AtService, PlacedInv, Placed
    <3>2. Entries("gateway", s) = {}
      BY <1>4, <2>1, <3>1 DEF IsCut, Tallied, Tally
    <3>3. PICK x \in Status : Entries(At(s), s) \subseteq {Entry(s, x)}
      <4>1. CASE pc[s] = "relay"
        BY <2>1, <3>1, <4>1 DEF Tallied, Tally
      <4>2. CASE pc[s] # "relay"
        BY <1>4, <2>1, <3>1, <4>2 DEF IsCut, Tallied, Tally, Status
      <4>3. QED
        BY <4>1, <4>2
    <3>4. /\ Entries("gateway", s)' = {}
          /\ \E y \in Status : Entries(At(s), s)' \subseteq {Entry(s, y)}
      <4>1. CASE Kept(s)
        BY <1>0, <1>01, <1>4, <2>1, <3>1, <3>2, <3>3, <4>1 DEF IsCut, Kept
      <4>2. CASE pc[s] = "respond" /\ Counts(s, At(s), status[s])
        <5>1. Entries(At(s), s) = {}
          BY <2>1, <3>1, <4>2 DEF Tallied, Tally, AtService
        <5>2. status[s] \in Status /\ At(s)' = At(s)
          BY <1>01, <1>4, <3>1, <4>2 DEF IsCut
        <5>3. QED
          BY <1>0, <2>1, <3>1, <3>2, <4>2, <5>1, <5>2 DEF Counts
      <4>3. QED
        BY <1>4, <4>1, <4>2 DEF IsCut
    <3>5. (\A y : Entry(s, y)' = Entry(s, y)) /\ Status' = Status
      BY DEF Entry, Status
    <3>6. Tally(s, pc[s], status[s], told[s], Entries("gateway", s), Entries(At(s), s))'
      BY <1>4, <3>4, <3>5 DEF IsCut, Tally, AtService
    <3>7. QED
      BY <1>4, <3>6 DEF IsCut, Tallied
  <2>2. CASE req[s].route \notin Proxied
    BY <1>4, <2>2 DEF IsCut, Tallied
  <2>3. QED
    BY <2>1, <2>2
<1>5. CASE IsAnswered(s)
  <2>1. PICK st \in Status :
           /\ \/ pc[s] = "gateway" /\ st = 504
              \/ pc[s] = "gateway" /\ req[s].route \notin Proxied
              \/ pc[s] = "relay" /\ st = status[s]
           /\ told'[s] = st
           /\ Counts(s, "gateway", st)
    BY <1>5 DEF IsAnswered
  <2>2. CASE req[s].route \in Proxied
    <3>1. pc[s] # "new"
      BY <2>1
    <3>2. /\ Entries("gateway", s) = {}
          /\ \/ Entries(At(s), s) = {Entry(s, st)}
             \/ Entries(At(s), s) = {} /\ st \in {408, 504}
      BY <2>1, <2>2, <3>1 DEF Tallied, Tally
    <3>3. /\ Entries("gateway", s)' = {Entry(s, st)}
          /\ Entries(At(s), s)' = Entries(At(s), s)
      BY <1>0, <1>01, <1>5, <2>1, <2>2, <3>1, <3>2 DEF IsAnswered, Counts
    <3>4. Entry(s, told[s])' = Entry(s, st)
      BY <2>1 DEF Entry
    <3>5. Tally(s, pc[s], status[s], told[s], Entries("gateway", s), Entries(At(s), s))'
      BY <1>5, <2>1, <3>2, <3>3, <3>4 DEF IsAnswered, Tally, AtService
    <3>6. QED
      BY <1>5, <3>5 DEF IsAnswered, Tallied
  <2>3. CASE req[s].route \notin Proxied
    BY <1>5, <2>3 DEF IsAnswered, Tallied
  <2>4. QED
    BY <2>2, <2>3
<1>6. CASE Responds(s)
  <2>1. pc[s] # "new" /\ req[s].route \in Proxied
    BY <1>6 DEF Responds, PlacedInv, Placed, AtService
  <2>2. Entries("gateway", s) = {} /\ Entries(At(s), s) = {}
    BY <1>6, <2>1 DEF Responds, Tallied, Tally, AtService
  <2>3. Entries("gateway", s)' = {} /\ Entries(At(s), s)' = {Entry(s, status[s])}
    BY <1>0, <1>01, <1>6, <2>1, <2>2 DEF Responds, Counts
  <2>4. Entries("gateway", s)' = {} /\ Entries(At(s), s)' = {Entry(s, status'[s])}
    BY <1>6, <2>3 DEF Responds
  <2>5. pc'[s] = "relay"
    BY <1>6 DEF Responds
  <2>6. Tally(s, pc[s], status[s], told[s], Entries("gateway", s), Entries(At(s), s))'
    BY <2>4, <2>5 DEF Tally, AtService, Entry
  <2>7. QED
    BY <1>6, <2>6 DEF Responds, Tallied
<1>7. CASE IsServed(s)
  <2>1. pc[s] # "new" /\ req[s].route \in Proxied
    BY <1>7 DEF IsServed, PlacedInv, Placed, AtService
  <2>2. Entries("gateway", s) = {} /\ Entries(At(s), s) = {}
    BY <1>7, <2>1 DEF IsServed, Tallied, Tally, AtService
  <2>3. Entries("gateway", s)' = {} /\ Entries(At(s), s)' = {Entry(s, told'[s])}
    BY <1>0, <1>01, <1>7, <2>1, <2>2 DEF IsServed, Counts
  <2>4. Tally(s, pc[s], status[s], told[s], Entries("gateway", s), Entries(At(s), s))'
    BY <1>7, <2>3 DEF IsServed, Tally, AtService, Entry
  <2>5. QED
    BY <1>7, <2>4 DEF IsServed, Tallied
<1>8. QED
  BY <1>1, <1>2, <1>3, <1>4, <1>5, <1>6, <1>7 DEF MovesOn

\* Counting adds one entry of one process for one request.
LEMMA CountFacts ==
  ASSUME PlacedInv, NEW p \in Process, NEW r \in Request, NEW st, Count(p, r, st),
         UNCHANGED gone
  PROVE  /\ Counts(r, p, st)
         /\ \A s \in Request : s # r => Kept(s)
BY DEF PlacedInv, TypeOK, Count, Counts, Kept, Entries, Entry

\* Nobody is counted.
LEMMA CountSame == UNCHANGED <<counted, gone>> => \A s \in Request : Kept(s)
BY DEF Kept, Entries

\* What a process forgets, its former lives have counted.
LEMMA ForgetKeeps ==
  ASSUME PlacedInv, NEW p \in Process, Forget(p)
  PROVE  \A s \in Request : Kept(s)
BY DEF PlacedInv, TypeOK, Forget, Kept, Entries

\* Every step moves a request on in one of these ways.
LEMMA EveryMove ==
  ASSUME PlacedInv, [Next]_vars, NEW s \in Request
  PROVE  MovesOn(s)
<1>0. /\ pc \in [Request -> Steps] /\ told \in [Request -> Status \cup {Cut, None}]
      /\ status \in [Request -> Status \cup {None}] /\ req \in [Request -> Req \cup {None}]
      /\ Placed(s)
  BY DEF PlacedInv, TypeOK
<1>1. ASSUME NEW r \in Request, Send(r)
      PROVE  Stays(s) \/ Enters(s)
  BY <1>0, <1>1, CountSame DEF Send, Sensible, Goto, Stays, Enters
<1>2. ASSUME NEW r \in Request, AnswerOwn(r) \/ Forward(r) \/ Relay(r)
      PROVE  Stays(s) \/ Moves(s) \/ IsAnswered(s)
  <2>1. CASE /\ Goto(r, IF req[r].body THEN "stalled" ELSE "service")
             /\ Forward(r) /\ UNCHANGED <<told, counted>>
    BY <1>0, <2>1, CountSame DEF Forward, Goto, Stays, Moves, AtService
  <2>2. CASE \E st \in Status :
               /\ \/ pc[r] = "gateway" /\ st = 504
                  \/ pc[r] = "gateway" /\ req[r].route \notin Proxied
                  \/ pc[r] = "relay" /\ st = status[r]
               /\ Answer(r, st)
    <3>1. PICK st \in Status :
             /\ \/ pc[r] = "gateway" /\ st = 504
                \/ pc[r] = "gateway" /\ req[r].route \notin Proxied
                \/ pc[r] = "relay" /\ st = status[r]
             /\ Answer(r, st)
      BY <2>2
    <3>2. UNCHANGED <<req, status, gone>>
      BY <1>2 DEF AnswerOwn, Forward, Relay
    <3>3. Counts(r, "gateway", st) /\ \A o \in Request : o # r => Kept(o)
      BY <3>1, <3>2, CountFacts DEF Answer, Process
    <3>4. CASE s = r
      BY <1>0, <3>1, <3>2, <3>3, <3>4 DEF Answer, Goto, IsAnswered
    <3>5. CASE s # r
      BY <1>0, <3>1, <3>2, <3>3, <3>5 DEF Answer, Goto, Stays
    <3>6. QED
      BY <3>4, <3>5
  <2>3. CASE AnswerOwn(r)
    <3>1. pc[r] = "gateway" /\ req[r].route \notin Proxied
      BY <2>3, RouteFacts DEF AnswerOwn, Limited
    <3>2. \E st \in Status : Answer(r, st)
      BY <2>3 DEF AnswerOwn, OwnStatus, Status
    <3>3. QED
      BY <2>2, <3>1, <3>2
  <2>4. CASE Forward(r) /\ Answer(r, 504)
    BY <2>2, <2>4 DEF Forward, Status
  <2>5. CASE Relay(r)
    BY <2>2, <2>5 DEF Relay, PlacedInv, Placed
  <2>6. QED
    BY <1>2, <2>1, <2>3, <2>4, <2>5 DEF Forward
<1>3. ASSUME NEW r \in Request,
             \/ Guard(r) \/ Act(r) \/ Refuse(r) \/ RefuseExpired(r)
             \/ Complete(r) \/ Fail(r)
      PROVE  Stays(s) \/ Moves(s)
  <2>1. /\ UNCHANGED <<req, told, counted, gone>>
        /\ pc[r] \in AtService
        /\ \E step \in AtService : pc' = [pc EXCEPT ![r] = step]
        /\ UNCHANGED status \/ \E st : status' = [status EXCEPT ![r] = st]
    BY <1>3 DEF Guard, Act, Refuse, RefuseExpired, Complete, Fail, Decide, Goto,
                AtService
  <2>2. QED
    BY <1>0, <2>1, CountSame DEF Stays, Moves
<1>4. ASSUME NEW r \in Request, Respond(r)
      PROVE  Stays(s) \/ IsCut(s) \/ Responds(s) \/ IsServed(s)
  <2>1. /\ pc[r] = "respond" /\ Deliver(r) /\ UNCHANGED <<req, status, gone>>
        /\ At(r) \in Process
    BY <1>4, AtProcess DEF Respond, AtService
  <2>2. CASE told[r] = Cut /\ UNCHANGED counted
    BY <1>0, <2>1, <2>2, CountSame DEF Deliver, Goto, Stays, IsCut, AtService
  <2>3. CASE Count(At(r), r, status[r])
    <3>1. PICK p \in Process : p = At(r)
      BY <2>1
    <3>0. PICK st : st = status[r]
      OBVIOUS
    <3>2. Counts(r, p, st) /\ \A o \in Request : o # r => Kept(o)
      BY <2>1, <2>3, <3>0, <3>1, CountFacts
    <3>3. CASE s = r
      BY <1>0, <2>1, <3>0, <3>1, <3>2, <3>3
         DEF Deliver, Goto, IsCut, Responds, IsServed, AtService
    <3>4. CASE s # r
      BY <1>0, <2>1, <3>2, <3>4 DEF Deliver, Goto, Stays
    <3>5. QED
      BY <3>3, <3>4
  <2>4. QED
    BY <1>4, <2>2, <2>3 DEF Respond
<1>5. ASSUME NEW r \in Request, HangUp(r) \/ TimeOut(r)
      PROVE  Stays(s) \/ Moves(s) \/ IsCut(s)
  <2>1. CASE HangUp(r)
    BY <1>0, <2>1, CountSame DEF HangUp, Goto, Stays, Moves, IsCut, Steps, AtService
  <2>2. CASE TimeOut(r)
    BY <1>0, <2>2, CountSame DEF TimeOut, Goto, Stays, Moves, IsCut, AtService
  <2>3. QED
    BY <1>5, <2>1, <2>2
<1>6. ASSUME NEW p \in Process, StopService(p)
      PROVE  Stays(s) \/ Moves(s) \/ IsCut(s)
  <2>1. UNCHANGED req /\ Kept(s)
    BY <1>6, ForgetKeeps DEF StopService
  <2>2. CASE pc[s] \in AtService /\ At(s) = p
    <3>1. told[s] \in {None, Cut} /\ req[s].direct \in BOOLEAN
      BY <1>0, <2>2 DEF Placed, Req, AtService
    <3>2. CASE told[s] = None /\ ~req[s].direct
      BY <1>6, <2>1, <2>2, <3>2 DEF StopService, Moves
    <3>3. CASE told[s] = None /\ req[s].direct
      BY <1>6, <2>1, <2>2, <3>3 DEF StopService, IsCut
    <3>4. CASE told[s] # None
      BY <1>6, <2>1, <2>2, <3>1, <3>4 DEF StopService, IsCut
    <3>5. QED
      BY <3>1, <3>2, <3>3, <3>4
  <2>3. CASE ~(pc[s] \in AtService /\ At(s) = p)
    BY <1>0, <1>6, <2>1, <2>3 DEF StopService, Stays
  <2>4. QED
    BY <2>2, <2>3
<1>7. CASE StopGateway
  <2>1. UNCHANGED <<req, status>> /\ Kept(s)
    BY <1>7, ForgetKeeps DEF StopGateway, Process
  <2>0. pc[s] # "new" => req[s].direct \in BOOLEAN
    BY <1>0 DEF Placed, Req
  <2>2. CASE pc[s] \notin {"new", "done"} /\ ~req[s].direct /\ told[s] = None
    BY <1>0, <1>7, <2>0, <2>1, <2>2 DEF StopGateway, MovesOn, Moves, IsCut, Steps, AtService
  <2>3. CASE ~(pc[s] \notin {"new", "done"} /\ ~req[s].direct /\ told[s] = None)
    BY <1>0, <1>7, <2>0, <2>1, <2>3 DEF StopGateway, MovesOn, Stays
  <2>4. QED
    BY <2>2, <2>3
<1>8. CASE \/ \E p \in Process : Start(p)
           \/ \E k \in Address \X OwnRoutes : EndWindow(k)
           \/ Tick \/ Quiet \/ UNCHANGED vars
  BY <1>8, CountSame DEF Start, EndWindow, Tick, Quiet, vars, MovesOn, Stays
<1>9. QED
  BY <1>1, <1>2, <1>3, <1>4, <1>5, <1>6, <1>7, <1>8 DEF Next, Advance, MovesOn

LEMMA TalliedStep ==
  ASSUME PlacedInv, TalliedInv, [Next]_vars
  PROVE  TalliedInv'
BY TalliedMove, EveryMove DEF TalliedInv

-----------------------------------------------------------------------------
\* The inductive invariant.
GatewayInv ==
  /\ PlacedInv
  /\ \A r \in Request : Answered(r) /\ Judged(r)
  /\ HitsInv
  /\ TalliedInv

LEMMA InitInv == Init => GatewayInv
<1> SUFFICES ASSUME Init PROVE GatewayInv
  OBVIOUS
<1>1. \A r \in Request : Answered(r) /\ Judged(r)
  BY DEF Init, Answered, Judged
<1>2. HitsInv
  <2>1. ASSUME NEW a \in Address, NEW x \in OwnRoutes
        PROVE  hits[<<a, x>>] <= Cardinality(Spent(a, x))
    <3>1. Spent(a, x) = {}
      BY AssumedOfNone DEF Init, Spent, Status
    <3>2. QED
      BY <3>1, FS_EmptySet DEF Init
  <2>2. QED
    BY <2>1, AssumedOfNone DEF Init, HitsInv, Status
<1>3. TalliedInv
  BY DEF Init, TalliedInv, Tallied, Entries
<1>4. QED
  BY <1>1, <1>2, <1>3, InitPlaced DEF GatewayInv

LEMMA StepInv == GatewayInv /\ [Next]_vars => GatewayInv'
BY PlacedStep, AnsweredStep, JudgedStep, HitsStep, TalliedStep DEF GatewayInv

THEOREM GatewayInvariant == Spec => []GatewayInv
BY InitInv, StepInv, PTL DEF Spec

\* Every request is at a place of its way and carries what that place knows of
\* it, and the throttler's counts stay within the limit.
THEOREM TypeCorrect == Spec => []TypeOK
<1>1. GatewayInv => TypeOK
  BY DEF GatewayInv, PlacedInv
<1>2. QED
  BY <1>1, GatewayInvariant, PTL

\* Whatever stops, fails or hangs up: a client told 200 had its work done, and
\* a client that was refused had not and never will, unless refresh refused it,
\* which removes the record of an expired token first.
THEOREM AnswersAreTruthful == Spec => []AnswerTruthful
<1>1. GatewayInv => AnswerTruthful
  <2> SUFFICES ASSUME GatewayInv, NEW r \in Request, told[r] \in Status
               PROVE  /\ told[r] = 200 /\ req[r].route \in Proxied => r \in acted
                      /\ told[r] \in {400, 403, 404, 408, 429} => r \notin acted
                      /\ told[r] = 401 /\ req[r].route # "refresh" => r \notin acted
    BY DEF AnswerTruthful, Status
  <2>1. pc[r] = "done"
    BY AssumedOfNone DEF GatewayInv, PlacedInv, TypeOK, Placed, Steps, AtService
  <2>2. QED
    BY <2>1 DEF GatewayInv, Answered, Believable
<1>2. QED
  BY <1>1, GatewayInvariant, PTL

\* The guards of the services let through whom the routes allow, and nobody is
\* refused without the reason the status gives.
THEOREM VerdictsAreJust == Spec => []VerdictJust
<1>1. GatewayInv => VerdictJust
  BY AssumedOfNone DEF GatewayInv, VerdictJust, Judged, Cleared, Reason, At, Status
<1>2. QED
  BY <1>1, GatewayInvariant, PTL

\* The throttler refuses only who has used up the limit on that route himself.
THEOREM LimitsAreOwn == Spec => []LimitedByOwnHits
<1>1. GatewayInv => LimitedByOwnHits
  BY DEF GatewayInv, HitsInv, Spent, LimitedByOwnHits
<1>2. QED
  BY <1>1, GatewayInvariant, PTL

\* Over all lives of the processes, gateway and service count a request at most
\* once each; the counts both still hold agree, and a count that is missing has
\* gone with its process, was never made or is on its way.
THEOREM MetricsAgree == Spec => []CountersAgree
<1> DEFINE Agree(r, G, GG, S, SS) ==
             /\ Cardinality(G \cup GG) <= 1
             /\ Cardinality(S \cup SS) <= 1
             /\ \A c \in G : c.status = told[r]
             /\ G # {} /\ S # {} => G = S
             /\ G # {} /\ S = {} => told[r] \in {408, 504} \/ SS # {}
             /\ S # {} /\ G = {} =>
                  \/ pc[r] = "relay" \/ told[r] = Cut \/ GG # {}
                  \/ req[r].direct /\ \A c \in S : c.status = told[r]
<1>1. ASSUME GatewayInv, NEW r \in Request, pc[r] # "new", req[r].route \in Proxied,
             NEW G, NEW GG, NEW S, NEW SS,
             G \cup GG = Entries("gateway", r), S \cup SS = Entries(At(r), r)
      PROVE  Agree(r, G, GG, S, SS)
  <2>1. /\ Tally(r, pc[r], status[r], told[r], G \cup GG, S \cup SS)
        /\ pc[r] \in Steps
    BY <1>1 DEF GatewayInv, PlacedInv, TypeOK, TalliedInv, Tallied
  <2>2. /\ Cardinality({}) <= 1
        /\ \A x : Cardinality({x}) <= 1
    BY FS_EmptySet, FS_Singleton
  <2>3. (\E x : G \cup GG \subseteq {x}) /\ (\E x : S \cup SS \subseteq {x})
    BY <1>1, <2>1 DEF Tally, Steps, AtService
  <2>4. Cardinality(G \cup GG) <= 1 /\ Cardinality(S \cup SS) <= 1
    <3>1. ASSUME NEW X, NEW x, X \subseteq {x}
          PROVE  Cardinality(X) <= 1
      <4>1. X = {} \/ X = {x}
        BY <3>1
      <4>2. QED
        BY <2>2, <4>1
    <3>2. QED
      BY <2>3, <3>1
  <2>5. CASE pc[r] # "done"
    <3>1. G = {} /\ GG = {} /\ (S # {} => pc[r] = "relay")
      BY <1>1, <2>1, <2>5 DEF Tally, Steps, AtService
    <3>2. QED
      BY <2>4, <3>1
  <2>6. CASE pc[r] = "done" /\ told[r] = Cut /\ G \cup GG = {}
    BY <2>4, <2>6
  <2>7. CASE /\ req[r].direct /\ G \cup GG = {} /\ S \cup SS = {Entry(r, told[r])}
    BY <2>4, <2>7 DEF Entry
  <2>8. CASE /\ G \cup GG = {Entry(r, told[r])}
             /\ \/ S \cup SS = G \cup GG
                \/ S \cup SS = {} /\ told[r] \in {408, 504}
    BY <2>4, <2>8 DEF Entry
  <2>9. QED
    BY <2>1, <2>5, <2>6, <2>7, <2>8 DEF Tally
<1>2. GatewayInv => CountersAgree
  <2> DEFINE In(C, r) == {c \in C : c.request = r}
  <2>1. ASSUME GatewayInv, NEW r \in Request, pc[r] # "new", req[r].route \in Proxied
        PROVE  Agree(r, In(counted["gateway"], r), In(gone["gateway"], r),
                     In(counted[At(r)], r), In(gone[At(r)], r))
    <3>1. \A p : In(counted[p], r) \cup In(gone[p], r) = Entries(p, r)
      BY DEF Entries
    <3> HIDE DEF Agree, In
    <3>2. QED
      BY <1>1, <2>1, <3>1
  <2>2. QED
    BY <2>1 DEF CountersAgree
<1>3. QED
  BY <1>2, GatewayInvariant, PTL

-----------------------------------------------------------------------------
(* The way of a request has no way back.                                     *)

Place ==
  [new |-> 0, gateway |-> 1, stalled |-> 2, service |-> 3, handler |-> 4,
   acted |-> 5, respond |-> 6, relay |-> 7, done |-> 8]

\* What a step may do to request r: move it on, answer it once, do its work.
Onward(r) ==
  /\ Place[pc[r]] <= Place[pc'[r]]
  /\ Advance(r) => Place[pc[r]] < Place[pc'[r]]
  /\ told[r] # None => told'[r] = told[r]
  /\ r \in acted => r \in acted'
  /\ pc[r] # "new" => req'[r] = req[r]

AllOnward == \A r \in Request : Onward(r)

LEMMA PlaceFacts ==
  /\ \A x \in Steps : Place[x] \in 0..8
  /\ \A x \in Steps : Place[x] <= Place[x]
  /\ \A x \in Steps : x # "done" => Place[x] < Place["done"]
  /\ \A x \in AtService : Place[x] < Place["relay"]
BY DEF Place, Steps, AtService

\* Each step of the gateway and the service takes the request further.
LEMMA AdvanceMoves ==
  ASSUME PlacedInv, NEW r \in Request, Advance(r)
  PROVE  Place[pc[r]] < Place[pc'[r]]
<1> USE DEF PlacedInv, TypeOK, Goto, Place
<1>1. CASE AnswerOwn(r) \/ Forward(r)
  BY <1>1 DEF AnswerOwn, Forward, Answer
<1>2. CASE Guard(r) \/ Act(r) \/ Refuse(r) \/ RefuseExpired(r) \/ Complete(r)
  BY <1>2 DEF Guard, Act, Refuse, RefuseExpired, Complete, Decide
<1>3. CASE Respond(r) \/ Relay(r)
  BY <1>3 DEF Respond, Deliver, Relay, Answer
<1>. QED  BY <1>1, <1>2, <1>3 DEF Advance

\* What one step of a request does to it and to the others.
LEMMA StepOnward ==
  ASSUME PlacedInv, NEW r \in Request,
         Send(r) \/ Advance(r) \/ TimeOut(r) \/ Fail(r) \/ HangUp(r)
  PROVE  /\ Place[pc[r]] <= Place[pc'[r]]
         /\ told[r] # None => told'[r] = told[r]
         /\ acted \subseteq acted'
         /\ pc[r] # "new" => req'[r] = req[r]
         /\ \A s \in Request \ {r} :
              pc'[s] = pc[s] /\ told'[s] = told[s] /\ req'[s] = req[s]
<1> USE DEF PlacedInv, TypeOK, Goto, Place
<1>1. CASE Send(r)
  BY <1>1 DEF Send
<1>2. CASE AnswerOwn(r)
  BY <1>2 DEF AnswerOwn, Answer, Placed
<1>3. CASE Forward(r)
  BY <1>3 DEF Forward, Answer, Placed
<1>4. CASE Guard(r)
  BY <1>4 DEF Guard, Decide
<1>5. CASE Act(r)
  BY <1>5 DEF Act
<1>6. CASE Refuse(r) \/ RefuseExpired(r) \/ Complete(r) \/ Fail(r)
  BY <1>6 DEF Refuse, RefuseExpired, Complete, Fail, Decide
<1>7. CASE Respond(r) \/ TimeOut(r)
  BY <1>7 DEF Respond, Deliver, TimeOut, Placed, AtService
<1>8. CASE Relay(r)
  BY <1>8 DEF Relay, Answer, Placed
<1>9. CASE HangUp(r)
  BY <1>9 DEF HangUp, Steps, AtService
<1>. QED
  BY <1>1, <1>2, <1>3, <1>4, <1>5, <1>6, <1>7, <1>8, <1>9 DEF Advance

LEMMA OnwardStep ==
  ASSUME PlacedInv, [Next]_vars
  PROVE  AllOnward
<1> USE DEF PlacedInv, TypeOK
<1> SUFFICES ASSUME NEW s \in Request
             PROVE  /\ Place[pc[s]] <= Place[pc'[s]]
                    /\ told[s] # None => told'[s] = told[s]
                    /\ s \in acted => s \in acted'
                    /\ pc[s] # "new" => req'[s] = req[s]
  BY AdvanceMoves DEF AllOnward, Onward
<1>1. ASSUME NEW r \in Request,
             Send(r) \/ Advance(r) \/ TimeOut(r) \/ Fail(r) \/ HangUp(r)
      PROVE  /\ Place[pc[s]] <= Place[pc'[s]]
             /\ told[s] # None => told'[s] = told[s]
             /\ s \in acted => s \in acted'
             /\ pc[s] # "new" => req'[s] = req[s]
  <2>1. CASE s = r
    BY <1>1, <2>1, StepOnward
  <2>2. CASE s # r
    BY <1>1, <2>2, StepOnward, PlaceFacts
  <2>. QED  BY <2>1, <2>2
<1>2. ASSUME NEW p \in Process, StopService(p)
      PROVE  /\ Place[pc[s]] <= Place[pc'[s]]
             /\ told[s] # None => told'[s] = told[s]
             /\ UNCHANGED <<acted, req>>
  <2>1. \/ pc'[s] = pc[s]
        \/ pc[s] \in AtService /\ pc'[s] \in {"relay", "done"}
    BY <1>2 DEF StopService
  <2>. QED  BY <1>2, <2>1 DEF StopService, Place, AtService, Steps
<1>3. ASSUME StopGateway
      PROVE  /\ Place[pc[s]] <= Place[pc'[s]]
             /\ told[s] # None => told'[s] = told[s]
             /\ UNCHANGED <<acted, req>>
  <2>1. pc'[s] \in {pc[s], "done"} /\ (told[s] # None => told'[s] = told[s])
    BY <1>3 DEF StopGateway
  <2>. QED  BY <1>3, <2>1 DEF StopGateway, Place, AtService, Steps
<1>4. CASE UNCHANGED <<pc, told, acted, req>>
  BY <1>4, PlaceFacts
<1>. QED
  BY <1>1, <1>2, <1>3, <1>4 DEF Next, Start, EndWindow, Tick, Quiet, vars

\* Whatever stops and hangs up, a request only moves on toward its end, each
\* step of the gateway and the service takes it further, a client is answered
\* once, and work done is not undone: the safety half of EventuallyAnswered.
THEOREM RequestsMoveOn == Spec => [][AllOnward]_vars
<1>1. GatewayInv /\ [Next]_vars => [AllOnward]_vars
  BY OnwardStep DEF GatewayInv
<1>. QED  BY <1>1, GatewayInvariant, PTL DEF Spec
=============================================================================
