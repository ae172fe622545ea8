------------------------------ MODULE Gateway ------------------------------
(***************************************************************************)
(* The path of a request through the API gateway (apps/api-gateway), the   *)
(* proxy, the guards of the service behind it (libs/common) and back, or   *)
(* straight to the service, whose port is published as well, with the      *)
(* metrics both processes keep.  What the handlers do to the database is   *)
(* the subject of the other modules; here a handler acts, refuses or       *)
(* fails, and the question is what the client and the counters then know.  *)
(***************************************************************************)
EXTENDS Naturals, FiniteSets

CONSTANTS
  Address,     \* the addresses from which requests reach the gateway (req.ip)
  Request,     \* the HTTP requests made, each one handled once
  Used,        \* the routes these requests ask for
  StrategyIn,  \* the services that provide the passport strategy "jwt"
  Limit,       \* the hits the throttler allows per window
  MaxTime,     \* bound of the clock
  Faults,      \* TRUE: processes stop, clients hang up, handlers fail
  None         \* absence of a token, a request or an answer

\* The routes of the gateway itself: GET /, /health, /ready and /metrics.
OwnRoutes == {"hello", "health", "ready", "metrics"}

\* POST /auth/login and the like, and POST /auth/refresh: no guard.
OpenRoutes == {"login", "refresh"}

\* JwtAuthGuard: GET /orders, POST /orders; GET /notifications.
SignedRoutes == {"orders", "create", "notifications"}

\* @Roles('admin'): PATCH and DELETE /orders/:id; POST /auth/admin-only.
AdminRoutes == {"status", "remove", "adminOnly"}

\* The handlers that ask for a body (@Body() with a DTO).
BodyRoutes == {"login", "refresh", "create", "status"}

\* The service a proxied path leads to.  The prefix is cut off on the way, so
\* the service knows /api/orders/orders and answers 404 to /api/orders
\* ("bare").
ServiceOf ==
  [login |-> "auth", refresh |-> "auth", adminOnly |-> "auth",
   orders |-> "order", create |-> "order", status |-> "order",
   remove |-> "order", bare |-> "order", notifications |-> "notification"]

Proxied == DOMAIN ServiceOf

\* The services these requests can reach.
Service == {ServiceOf[x] : x \in Used \cap Proxied}

\* "unknown": a path that is neither the gateway's own nor under a prefix.
Route == OwnRoutes \cup Proxied \cup {"unknown"}

VARIABLES
  now,      \* the clock
  up,       \* the processes that run
  pc,       \* pc[r]: where request r is
  req,      \* req[r]: the sender, route, token and body of r
  status,   \* status[r]: the status of the response being sent
  told,     \* told[r]: what the client was answered
  acted,    \* the requests whose handler has changed the database
  counted,  \* counted[p]: the increments of http_requests_total in process p
  gone,     \* history: gone[p]: those that went with the memory of p
  hits      \* hits[<<a, x>>]: the throttler's count, address a, own route x

vars == <<now, up, pc, req, status, told, acted, counted, gone, hits>>

-----------------------------------------------------------------------------
Process == Service \cup {"gateway"}

Status == {200, 400, 401, 403, 404, 408, 429, 500, 503, 504}

\* What a client is told when its connection breaks.
Cut == 0

\* An access token: the role it was signed for, and its expiry.
AccessToken == [role : {"user", "admin"}, exp : 1..MaxTime + 1]

\* direct: sent to the service's own port; body: with a JSON body.
Req == [from : Address, route : Route, token : AccessToken \cup {None},
        direct : BOOLEAN, body : BOOLEAN]

ASSUME GatewayAssumption ==
  /\ Used \subseteq Route
  /\ StrategyIn \subseteq {"auth", "order", "notification"}
  /\ IsFiniteSet(Request)
  /\ Limit \in Nat
  /\ MaxTime \in Nat
  /\ Faults \in BOOLEAN
  /\ None \notin AccessToken \cup Req \cup Status \cup {Cut}

AtService == {"stalled", "service", "handler", "acted", "respond"}

Steps == {"new", "gateway", "relay", "done"} \cup AtService

At(r) == ServiceOf[req[r].route]

\* passport-jwt: a bearer token, signed with the secret and not expired.
SignedIn(q) == q.token # None /\ now < q.token.exp

\* Mutant of HasRole: the roles listed on the class are not looked up.
HasRoleAlways(q) == TRUE

\* RolesGuard: no role is required, or the user of the token has it.
HasRole(q) == q.route \in AdminRoutes => q.token.role = "admin"

\* The service's verdict before the handler: 404 from the router, 500 from
\* passport when the strategy is unknown, then JwtAuthGuard, then RolesGuard.
Verdict(q) ==
  IF q.route = "bare" THEN 404
  ELSE IF q.route \in OpenRoutes THEN 200
  ELSE IF ServiceOf[q.route] \notin StrategyIn THEN 500
  ELSE IF ~SignedIn(q) THEN 401
  ELSE IF ~HasRole(q) THEN 403
  ELSE 200

\* Mutant of Limited: one tracker for all addresses, as behind another proxy.
LimitedTogether(q) ==
  q.route \in OwnRoutes /\ \E a \in Address : hits[<<a, q.route>>] >= Limit

\* Mutant of Limited: the throttler counts and never refuses.
LimitedNever(q) == FALSE

\* ThrottlerGuard runs for the routes of controllers, not for proxied paths.
Limited(q) == q.route \in OwnRoutes /\ hits[<<q.from, q.route>>] >= Limit

-----------------------------------------------------------------------------
Init ==
  /\ now = 0
  /\ up = Process
  /\ pc = [r \in Request |-> "new"]
  /\ req = [r \in Request |-> None]
  /\ status = [r \in Request |-> None]
  /\ told = [r \in Request |-> None]
  /\ acted = {}
  /\ counted = [p \in Process |-> {}]
  /\ gone = [p \in Process |-> {}]
  /\ hits = [k \in Address \X OwnRoutes |-> 0]

Goto(r, step) == pc' = [pc EXCEPT ![r] = step]

Count(p, r, st) ==
  counted' = [counted EXCEPT ![p] = @ \cup {[request |-> r, status |-> st]}]

\* The response of the gateway is finished: its metrics, and the client.
Answer(r, st) ==
  /\ Goto(r, "done")
  /\ told' = [told EXCEPT ![r] = st]
  /\ Count("gateway", r, st)

\* The service has decided: the response is to be written.
Decide(r, st) ==
  /\ Goto(r, "respond")
  /\ status' = [status EXCEPT ![r] = st]

\* A token is sent only where a guard may read it, a body only where a handler
\* asks for one; the routes of the gateway are asked of the gateway.
Sensible(q) ==
  /\ q.route \in Used
  /\ q.token # None => q.route \in SignedRoutes \cup AdminRoutes
  /\ q.body => q.route \in BodyRoutes
  /\ q.direct => q.route \in Proxied

Send(r) ==
  /\ pc[r] = "new"
  /\ \E q \in Req :
       /\ Sensible(q)
       /\ (IF q.direct THEN ServiceOf[q.route] ELSE "gateway") \in up
       /\ req' = [req EXCEPT ![r] = q]
       /\ Goto(r, IF q.direct THEN "service" ELSE "gateway")
  /\ UNCHANGED <<now, up, status, told, acted, counted, gone, hits>>

\* /health answers 503 when the heap has outgrown 150 MB.
OwnStatus(x) == IF x = "health" THEN {200, 503} ELSE {200}

\* Guard and handler of a route of the gateway itself, or its 404.
AnswerOwn(r) ==
  LET q == req[r]
  IN  /\ pc[r] = "gateway"
      /\ \/ /\ Limited(q)
            /\ Answer(r, 429)
            /\ UNCHANGED hits
         \/ /\ q.route \in OwnRoutes /\ ~Limited(q)
            /\ \E st \in OwnStatus(q.route) : Answer(r, st)
            /\ hits' = [hits EXCEPT ![<<q.from, q.route>>] = @ + 1]
         \/ /\ q.route = "unknown" /\ ~Limited(q)
            /\ Answer(r, 404)
            /\ UNCHANGED hits
      /\ UNCHANGED <<now, up, req, status, acted, gone>>

\* Mutant of Forward: no answer for a service that does not listen.
ForwardOnly(r) ==
  /\ pc[r] = "gateway"
  /\ req[r].route \in Proxied /\ ~Limited(req[r])
  /\ At(r) \in up
  /\ Goto(r, IF req[r].body THEN "stalled" ELSE "service")
  /\ UNCHANGED <<now, up, req, status, told, acted, counted, gone, hits>>

\* createProxyMiddleware: on to the service, or 504 when it does not listen.
\* A body is not sent on: the body parser that Nest puts before every
\* middleware has read it.  Its Content-Length is, and the service, whose own
\* parser comes first too, waits for what never arrives.
Forward(r) ==
  /\ pc[r] = "gateway"
  /\ req[r].route \in Proxied /\ ~Limited(req[r])
  /\ \/ /\ At(r) \in up
        /\ Goto(r, IF req[r].body THEN "stalled" ELSE "service")
        /\ UNCHANGED <<told, counted>>
     \/ /\ At(r) \notin up
        /\ Answer(r, 504)
  /\ UNCHANGED <<now, up, req, status, acted, gone, hits>>

\* Node gives up on the body (requestTimeout) and answers 408 past Nest, so
\* that the service counts nothing.
TimeOut(r) ==
  /\ pc[r] = "stalled"
  /\ status' = [status EXCEPT ![r] = 408]
  /\ Goto(r, IF told[r] = Cut THEN "done" ELSE "relay")
  /\ UNCHANGED <<now, up, req, told, acted, counted, gone, hits>>

\* The router and the guards of the service.
Guard(r) ==
  LET v == Verdict(req[r])
  IN  /\ pc[r] = "service"
      /\ IF v = 200 THEN Goto(r, "handler") /\ UNCHANGED status ELSE Decide(r, v)
      /\ UNCHANGED <<now, up, req, told, acted, counted, gone, hits>>

\* The ValidationPipe lets the request pass to the handler.
Valid(q) == q.route \in BodyRoutes => q.body

\* The handler does its work.
Act(r) ==
  /\ pc[r] = "handler"
  /\ Valid(req[r])
  /\ acted' = acted \cup {r}
  /\ Goto(r, "acted")
  /\ UNCHANGED <<now, up, req, status, told, counted, gone, hits>>

\* Mutant of Refuse: the order is looked for after the write.
RefuseLate(r) ==
  /\ pc[r] = "acted"
  /\ Decide(r, 404)
  /\ UNCHANGED <<now, up, req, told, acted, counted, gone, hits>>

\* The ValidationPipe rejects the request, or the handler throws before its
\* work: NotFoundException, or UnauthorizedException at login and refresh.
Refuse(r) ==
  /\ pc[r] = "handler"
  /\ \/ Decide(r, 400)
     \/ /\ Valid(req[r])
        /\ Decide(r, IF req[r].route \in OpenRoutes THEN 401 ELSE 404)
  /\ UNCHANGED <<now, up, req, told, acted, counted, gone, hits>>

\* refresh(): the record of a token that has expired is removed, and then the
\* token is refused.
RefuseExpired(r) ==
  /\ pc[r] = "acted" /\ req[r].route = "refresh"
  /\ Decide(r, 401)
  /\ UNCHANGED <<now, up, req, told, acted, counted, gone, hits>>

Complete(r) ==
  /\ pc[r] = "acted"
  /\ Decide(r, 200)
  /\ UNCHANGED <<now, up, req, told, acted, counted, gone, hits>>

\* A call of the handler is rejected, before or after its work.
Fail(r) ==
  /\ Faults
  /\ \/ pc[r] = "acted"
     \/ pc[r] = "handler" /\ Valid(req[r])
  /\ Decide(r, 500)
  /\ UNCHANGED <<now, up, req, told, acted, counted, gone, hits>>

\* The response of the service goes to the client or to the gateway, if either
\* still waits for it.
Deliver(r) ==
  \/ told[r] = Cut /\ Goto(r, "done") /\ UNCHANGED told
  \/ told[r] # Cut /\ ~req[r].direct /\ Goto(r, "relay") /\ UNCHANGED told
  \/ /\ told[r] # Cut /\ req[r].direct
     /\ Goto(r, "done")
     /\ told' = [told EXCEPT ![r] = status[r]]

\* Mutant of Respond: the status is read when the request arrives.
RespondEarly(r) ==
  /\ pc[r] = "respond"
  /\ Deliver(r)
  /\ \/ Count(At(r), r, 200)
     \/ told[r] = Cut /\ UNCHANGED counted
  /\ UNCHANGED <<now, up, req, status, acted, gone, hits>>

\* The response of the service is finished and counted.  When the client is
\* gone it may have nobody to go to: then it never emits 'finish'.
Respond(r) ==
  /\ pc[r] = "respond"
  /\ Deliver(r)
  /\ \/ Count(At(r), r, status[r])
     \/ told[r] = Cut /\ UNCHANGED counted
  /\ UNCHANGED <<now, up, req, status, acted, gone, hits>>

Relay(r) ==
  /\ pc[r] = "relay"
  /\ Answer(r, status[r])
  /\ UNCHANGED <<now, up, req, status, acted, gone, hits>>

\* The client closes its connection; a handler under way is not stopped.
HangUp(r) ==
  /\ Faults
  /\ pc[r] \in Steps \ {"new", "done"}
  /\ told[r] = None
  /\ told' = [told EXCEPT ![r] = Cut]
  /\ Goto(r, IF pc[r] \in AtService THEN pc[r] ELSE "done")
  /\ UNCHANGED <<now, up, req, status, acted, counted, gone, hits>>

\* The memory of process p goes, and with it the counters of prom-client.
Forget(p) ==
  /\ up' = up \ {p}
  /\ counted' = [counted EXCEPT ![p] = {}]
  /\ gone' = [gone EXCEPT ![p] = @ \cup counted[p]]

\* SIGTERM at a service: the proxy sees its connections reset, and answers 504;
\* a client that is connected itself sees its own connection break.
StopService(p) ==
  LET Hit(r) == pc[r] \in AtService /\ At(r) = p
      Open(r) == Hit(r) /\ told[r] = None
  IN  /\ Faults
      /\ p \in up \cap Service
      /\ Forget(p)
      /\ pc' = [r \in Request |->
                  CASE Open(r) /\ ~req[r].direct -> "relay"
                    [] Open(r) /\ req[r].direct  -> "done"
                    [] Hit(r) /\ ~Open(r)        -> "done"
                    [] OTHER                     -> pc[r]]
      /\ status' = [r \in Request |-> IF Hit(r) THEN 504 ELSE status[r]]
      /\ told' = [r \in Request |-> IF Open(r) /\ req[r].direct THEN Cut ELSE told[r]]
      /\ UNCHANGED <<now, req, acted, hits>>

\* SIGTERM at the gateway: its connections break, and the counts of the
\* throttler, which are in memory, are gone.
StopGateway ==
  LET Hit(r) == /\ pc[r] \notin {"new", "done"}
                /\ ~req[r].direct /\ told[r] = None
  IN  /\ Faults
      /\ "gateway" \in up
      /\ Forget("gateway")
      /\ told' = [r \in Request |-> IF Hit(r) THEN Cut ELSE told[r]]
      /\ pc' = [r \in Request |->
                  IF Hit(r) /\ pc[r] \notin AtService THEN "done" ELSE pc[r]]
      /\ hits' = [k \in DOMAIN hits |-> 0]
      /\ UNCHANGED <<now, req, status, acted>>

Start(p) ==
  /\ p \notin up
  /\ up' = up \cup {p}
  /\ UNCHANGED <<now, pc, req, status, told, acted, counted, gone, hits>>

\* The ttl of a throttled hit is over.
EndWindow(k) ==
  /\ hits[k] > 0
  /\ hits' = [hits EXCEPT ![k] = 0]
  /\ UNCHANGED <<now, up, pc, req, status, told, acted, counted, gone>>

Tick ==
  /\ now < MaxTime
  /\ now' = now + 1
  /\ UNCHANGED <<up, pc, req, status, told, acted, counted, gone, hits>>

Advance(r) ==
  \/ AnswerOwn(r) \/ Forward(r) \/ Guard(r) \/ Act(r) \/ Refuse(r)
  \/ RefuseExpired(r) \/ Complete(r) \/ Respond(r) \/ Relay(r)

\* Every request of this instance has come to its end.
Quiet ==
  /\ \A r \in Request : pc[r] = "done"
  /\ UNCHANGED vars

Next ==
  \/ \E r \in Request : Send(r) \/ Advance(r) \/ TimeOut(r) \/ Fail(r) \/ HangUp(r)
  \/ \E p \in Process : StopService(p) \/ Start(p)
  \/ StopGateway
  \/ \E k \in Address \X OwnRoutes : EndWindow(k)
  \/ Tick
  \/ Quiet

Spec == Init /\ [][Next]_vars

\* The event loops run and every awaited promise settles.  Nothing is assumed of
\* TimeOut: how long a stalled request waits is up to Node's configuration.
FairSpec == Spec /\ \A r \in Request : WF_vars(Advance(r))

-----------------------------------------------------------------------------
\* The type invariant: where each request is, what is known of it, and the
\* counters of the processes.
TypeOK ==
  /\ now \in 0..MaxTime
  /\ up \subseteq Process
  /\ pc \in [Request -> Steps]
  /\ req \in [Request -> Req \cup {None}]
  /\ status \in [Request -> Status \cup {None}]
  /\ told \in [Request -> Status \cup {Cut, None}]
  /\ acted \subseteq Request
  /\ counted \in [Process -> SUBSET [request : Request, status : Status]]
  /\ gone \in [Process -> SUBSET [request : Request, status : Status]]
  /\ hits \in [Address \X OwnRoutes -> 0..Limit]

\* An answer can be believed, through the proxy and whatever stops meanwhile:
\* success means the handler did its work, a refusal that it did nothing and
\* never will.  The one refusal that may come after work is the 401 of refresh,
\* which removes the record of an expired token first.  After a 500, a 504 or a
\* broken connection either may be true.
AnswerTruthful ==
  \A r \in Request :
    /\ told[r] = 200 /\ req[r].route \in Proxied => r \in acted
    /\ told[r] \in {400, 403, 404, 408, 429} => r \notin acted
    /\ told[r] = 401 /\ req[r].route # "refresh" => r \notin acted

\* The guards, in the order in which they run, decide as the routes promise:
\* only a signed-in user of the right role gets work done, and a refusal has
\* its reason: a token missing or by now expired, or a role that is missing.
VerdictJust ==
  \A r \in Request :
    LET q == req[r]
    IN  /\ r \in acted /\ q.route \notin OpenRoutes =>
             /\ q.token # None /\ At(r) \in StrategyIn
             /\ q.route \in AdminRoutes => q.token.role = "admin"
        /\ told[r] = 401 /\ q.route \notin OpenRoutes => ~SignedIn(q)
        /\ told[r] = 403 =>
             q.token # None /\ q.route \in AdminRoutes /\ q.token.role # "admin"

\* The metrics of the gateway and of the services tell the same story of a
\* request, although they count at different moments and forget what they
\* counted when their process stops: neither counts a request twice, over all
\* its lives, what the gateway counts is what the client was told, and when both
\* count a request they count the same status.  Where one of them has no count,
\* it has forgotten it; or it is the service, which never decided (408, 504); or
\* the gateway, which has not relayed yet, broke off or was not asked.
CountersAgree ==
  \A r \in Request : pc[r] # "new" /\ req[r].route \in Proxied =>
    LET In(C) == {c \in C : c.request = r}
        G == In(counted["gateway"])
        S == In(counted[At(r)])
    IN  /\ Cardinality(G \cup In(gone["gateway"])) <= 1
        /\ Cardinality(S \cup In(gone[At(r)])) <= 1
        /\ \A c \in G : c.status = told[r]
        /\ G # {} /\ S # {} => G = S
        /\ G # {} /\ S = {} => told[r] \in {408, 504} \/ In(gone[At(r)]) # {}
        /\ S # {} /\ G = {} =>
             \/ pc[r] = "relay" \/ told[r] = Cut \/ In(gone["gateway"]) # {}
             \/ req[r].direct /\ \A c \in S : c.status = told[r]

\* Who is answered 429 has used up the limit himself, on that same route of
\* the gateway: neither other addresses nor proxied traffic nor restarts can
\* make the health check of the gateway refuse its callers.
LimitedByOwnHits ==
  \A r \in Request : told[r] = 429 =>
    Limit <= Cardinality({s \in Request : /\ told[s] \in {200, 503}
                                          /\ req[s].from = req[r].from
                                          /\ req[s].route = req[r].route})

\* A request is answered or its connection breaks, and its handler comes to an
\* end, whatever stops meanwhile and even if nothing is ever started again: but
\* for one that brings a body to the gateway, which the proxy cannot pass on.
EventuallyAnswered ==
  \A r \in Request :
    /\ pc[r] \in {"gateway", "service"}
    /\ req[r].body => req[r].direct
    ~> pc[r] = "done" /\ told[r] # None
=============================================================================
