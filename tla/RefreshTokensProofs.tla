------------------------ MODULE RefreshTokensProofs ------------------------
(***************************************************************************)
(* Proofs about RefreshTokens, for any number of users and requests, any   *)
(* lifetime and any length of time.                                        *)
(***************************************************************************)
EXTENDS RefreshTokens, FiniteSetTheorems, TLAPS

(***************************************************************************)
(* What holds however requests interleave.                                 *)
(***************************************************************************)

\* A token once issued keeps its row until it expires, and refresh() accepts
\* no token that is spent.
Here(t) == tokens[t] # None \/ Expired(t)
Spent(t) == Expired(t) \/ (tokens[t] # None /\ tokens[t].revoked)

\* A row without a user belongs to an expired token and is revoked.
RowOK(t) ==
  tokens[t] # None /\ tokens[t].user = None => tokens[t].revoked /\ Expired(t)

GrantOK(g) ==
  /\ Here(g.token)
  /\ g.from # None => Spent(g.from)

\* What a handler in flight knows of the token it was given.
HandlerOK(r) ==
  LET t == job[r].token
  IN  /\ pc[r] \in {"remove", "select", "write"} =>
           /\ t \in Token
           /\ Here(t)
      /\ pc[r] = "remove" => Expired(t)
      /\ pc[r] \in {"select", "write"} =>
           /\ job[r].op \in {"refresh", "logout"}
           /\ job[r].op = "refresh" => job[r].user \in User
      /\ pc[r] = "write" =>
           /\ job[r].mode \in {"insert", "update", "none"}
           /\ job[r].mode = "insert" => Expired(t)
           /\ job[r].mode = "none" => Spent(t)
      /\ pc[r] \in {"sign", "insert"} =>
           /\ job[r].user \in User
           /\ t # None => t \in Token /\ Spent(t) /\ job[r].op = "refresh"
      /\ pc[r] = "insert" => job[r].fresh \in Token

TokenInv ==
  /\ TypeOK
  /\ \A t \in Token : RowOK(t)
  /\ \A g \in grants : GrantOK(g)
  /\ \A t \in loggedOut : Spent(t)
  /\ \A r \in Request : HandlerOK(r)

(***************************************************************************)
(* What holds of a token no two requests of which overlap.                 *)
(***************************************************************************)

\* At most one request is in flight with the token.
Alone(t) ==
  \A q, r \in Request :
    /\ InFlight(q) /\ job[q].token = t
    /\ InFlight(r) /\ job[r].token = t
    => q = r

AllAlone == \A t \in Token : Alone(t)

\* A refresh that has found its token valid still has its row; nothing was
\* issued for the token, nor was it logged out.
Unspoilt(t) ==
  /\ \A r \in Request :
       /\ InFlight(r) /\ job[r].token = t
       /\ job[r].op = "refresh" /\ pc[r] # "remove"
       => /\ tokens[t] # None
          /\ \A g \in grants : g.from # t
          /\ t \notin loggedOut
  /\ \A g, h \in grants : g.from = t /\ h.from = t => g = h

AllUnspoilt == \A t \in Token : Unspoilt(t)

-----------------------------------------------------------------------------
LEMMA TokenFacts ==
  ASSUME NEW t \in Token
  PROVE  t[2] \in Nat /\ t # None /\ t[1] \in User
<1>1. t \in User \X (0..MaxTime)
  BY DEF Token
<1>2. t # None
  BY <1>1, TokenAssumption
<1>3. t[1] \in User /\ t[2] \in 0..MaxTime
  BY <1>1
<1>4. t[2] \in Nat
  BY <1>3, TokenAssumption
<1>. QED  BY <1>2, <1>3, <1>4

LEMMA RowFacts ==
  ASSUME NEW row \in Row
  PROVE  /\ row # None
         /\ [row EXCEPT !.revoked = TRUE] \in Row
         /\ [row EXCEPT !.revoked = TRUE].revoked = TRUE
         /\ [row EXCEPT !.revoked = TRUE].user = row.user
BY TokenAssumption DEF Row

LEMMA NewRowFacts ==
  ASSUME NEW u \in User
  PROVE  /\ NewRow(u) \in Row /\ NewRow(u) # None
         /\ NewRow(u).user = u /\ u # None
         /\ NewRow(u).revoked = FALSE
<1>1. NewRow(u) \in Row /\ NewRow(u).user = u /\ NewRow(u).revoked = FALSE
  BY DEF Row, NewRow
<1>2. u # None
  BY TokenAssumption
<1>. QED  BY <1>1, <1>2, RowFacts

\* What save() leaves of the row of a token.
LEMMA SavedFacts ==
  ASSUME NEW j \in Job, NEW row \in Row \cup {None},
         j.mode = "insert" => row = None
  PROVE  /\ Saved(j, row) \in Row \cup {None}
         /\ row # None => /\ Saved(j, row) # None
                          /\ Saved(j, row).user = row.user
                          /\ row.revoked => Saved(j, row).revoked
                          /\ Saved(j, row).revoked =>
                               row.revoked \/ j.mode = "update"
         /\ j.mode = "update" /\ row # None => Saved(j, row).revoked
         /\ j.mode = "insert" => /\ Saved(j, row) # None
                                 /\ Saved(j, row).revoked
                                 /\ Saved(j, row).user = j.user
         /\ j.mode # "insert" /\ row = None => Saved(j, row) = None
         /\ j.mode \notin {"insert", "update"} => Saved(j, row) = row
<1>1. CASE j.mode = "insert"
  <2>1. Saved(j, row) = [revoked |-> TRUE, user |-> j.user]
    BY <1>1 DEF Saved
  <2>2. [revoked |-> TRUE, user |-> j.user] \in Row
    BY DEF Row, Job
  <2>. QED  BY <1>1, <2>1, <2>2, RowFacts
<1>2. CASE j.mode = "update" /\ row # None
  <2>1. Saved(j, row) = [row EXCEPT !.revoked = TRUE]
    BY <1>2 DEF Saved
  <2>. QED  BY <1>2, <2>1, RowFacts
<1>3. CASE j.mode # "insert" /\ ~(j.mode = "update" /\ row # None)
  <2>1. Saved(j, row) = row
    BY <1>3 DEF Saved
  <2>. QED  BY <1>3, <2>1
<1>. QED  BY <1>1, <1>2, <1>3

\* The local variables a find leaves behind.
LEMMA FoundFacts ==
  ASSUME NEW o \in {"login", "refresh", "logout"},
         NEW t \in Token \cup {None}, NEW u \in User \cup {None}
  PROVE  LET j == [NoJob EXCEPT !.op = o, !.token = t, !.user = u]
         IN  /\ j \in Job /\ j.op = o /\ j.token = t /\ j.user = u
BY DEF NoJob, Job

LEMMA ModeFacts ==
  ASSUME NEW j \in Job, NEW m \in {"none", "update", "insert"}
  PROVE  LET k == [j EXCEPT !.mode = m]
         IN  /\ k \in Job /\ k.mode = m /\ k.op = j.op
             /\ k.token = j.token /\ k.user = j.user
BY DEF Job

LEMMA FreshFacts ==
  ASSUME NEW j \in Job, NEW t \in Token
  PROVE  LET k == [j EXCEPT !.fresh = t]
         IN  /\ k \in Job /\ k.fresh = t /\ k.op = j.op
             /\ k.token = j.token /\ k.user = j.user
BY DEF Job

OthersStay(r) == \A q \in Request \ {r} : pc'[q] = pc[q] /\ job'[q] = job[q]

\* The four actions that set local variables, and the two that write rows,
\* said in terms of what they leave behind.
LEMMA LoginFacts ==
  ASSUME TypeOK, NEW r \in Request, Login(r)
  PROVE  /\ OthersStay(r) /\ pc[r] = "new" /\ pc'[r] = "sign"
         /\ job' \in [Request -> Job]
         /\ job'[r].token = None /\ job'[r].user \in User
<1>1. PICK u \in User : job' = [job EXCEPT ![r] = [NoJob EXCEPT !.op = "login", !.user = u]]
  BY DEF Login
<1>2. /\ [NoJob EXCEPT !.op = "login", !.user = u] \in Job
      /\ [NoJob EXCEPT !.op = "login", !.user = u].token = None
      /\ [NoJob EXCEPT !.op = "login", !.user = u].user = u
  BY DEF NoJob, Job
<1>. QED  BY <1>1, <1>2 DEF Login, Goto, TypeOK, OthersStay

LEMMA IssuedFacts ==
  ASSUME TypeOK, NEW t \in Issued
  PROVE  t \in Token /\ \E g \in grants : g.token = t
BY DEF TypeOK, Issued, Grant

LEMMA FindFacts ==
  ASSUME TokenInv, NEW r \in Request, FindForRefresh(r) \/ FindForLogout(r)
  PROVE  /\ OthersStay(r) /\ pc[r] = "new"
         /\ \/ pc'[r] = "done" /\ job'[r] = job[r]
            \/ /\ pc'[r] \in {"remove", "select"}
               /\ job'[r].op \in {"refresh", "logout"}
               /\ job'[r].token \in Token
               /\ MayStart(job'[r].token)
               /\ tokens[job'[r].token] # None
               /\ job'[r].op = "refresh" =>
                    Valid(job'[r].token) /\ job'[r].user \in User
               /\ pc'[r] = "remove" => Expired(job'[r].token)
               /\ job'[r].op = "refresh" /\ pc'[r] = "select" =>
                    ~Expired(job'[r].token)
         /\ job' \in [Request -> Job]
<1>. USE DEF TokenInv, Goto
<1>1. CASE FindForRefresh(r)
  <2>1. PICK t \in Issued :
          /\ MayStart(t)
          /\ \/ /\ Valid(t)
                /\ job' = [job EXCEPT ![r] =
                             [NoJob EXCEPT !.op = "refresh", !.token = t,
                                           !.user = tokens[t].user]]
                /\ pc' = [pc EXCEPT ![r] = IF Expired(t) THEN "remove" ELSE "select"]
             \/ /\ pc' = [pc EXCEPT ![r] = "done"]
                /\ job' = job
    BY <1>1 DEF FindForRefresh
  <2>2. CASE job' = job /\ pc' = [pc EXCEPT ![r] = "done"]
    BY <1>1, <2>1, <2>2 DEF FindForRefresh, TypeOK, OthersStay
  <2>3. CASE ~(job' = job /\ pc' = [pc EXCEPT ![r] = "done"])
    <3>. DEFINE u == tokens[t].user
                j == [NoJob EXCEPT !.op = "refresh", !.token = t, !.user = u]
    <3>1. t \in Token /\ Valid(t) /\ RowOK(t)
      BY <2>1, <2>3, IssuedFacts
    <3>2. u \in User
      <4>1. tokens[t] \in Row /\ tokens[t].user # None
        BY <3>1 DEF TypeOK, Valid, RowOK
      <4>. QED  BY <4>1 DEF Row
    <3>. HIDE DEF u
    <3>3. j \in Job /\ j.op = "refresh" /\ j.token = t /\ j.user = u
      BY <3>1, <3>2, FoundFacts
    <3>. HIDE DEF j
    <3>4. job' = [job EXCEPT ![r] = j]
      BY <2>1, <2>3 DEF j, u
    <3>. QED  BY <1>1, <2>1, <2>3, <3>1, <3>2, <3>3, <3>4
                 DEF FindForRefresh, TypeOK, OthersStay, Valid
  <2>. QED  BY <2>2, <2>3
<1>2. CASE FindForLogout(r)
  <2>1. PICK t \in Issued :
          /\ MayStart(t)
          /\ \/ /\ tokens[t] # None
                /\ job' = [job EXCEPT ![r] =
                             [NoJob EXCEPT !.op = "logout", !.token = t]]
                /\ pc' = [pc EXCEPT ![r] = "select"]
             \/ /\ pc' = [pc EXCEPT ![r] = "done"]
                /\ job' = job
    BY <1>2 DEF FindForLogout
  <2>2. CASE job' = job /\ pc' = [pc EXCEPT ![r] = "done"]
    BY <1>2, <2>1, <2>2 DEF FindForLogout, TypeOK, OthersStay
  <2>3. CASE ~(job' = job /\ pc' = [pc EXCEPT ![r] = "done"])
    <3>. DEFINE j == [NoJob EXCEPT !.op = "logout", !.token = t]
    <3>1. t \in Token /\ tokens[t] # None
      BY <2>1, <2>3, IssuedFacts
    <3>2. j \in Job /\ j.op = "logout" /\ j.token = t
      BY <3>1 DEF NoJob, Job
    <3>. HIDE DEF j
    <3>3. job' = [job EXCEPT ![r] = j]
      BY <2>1, <2>3 DEF j
    <3>. QED  BY <1>2, <2>1, <2>3, <3>1, <3>2, <3>3
                 DEF FindForLogout, TypeOK, OthersStay
  <2>. QED  BY <2>2, <2>3
<1>. QED  BY <1>1, <1>2

-----------------------------------------------------------------------------
\* What the writes of a handler do to the row of its token.
LEMMA RevocationFacts ==
  ASSUME TokenInv, NEW r \in Request, WriteRevocation(r)
  PROVE  LET t == job[r].token
         IN  /\ t \in Token /\ pc[r] = "write" /\ job' = job /\ OthersStay(r)
             /\ \A s \in Token \ {t} : tokens'[s] = tokens[s]
             /\ tokens' \in [Token -> Row \cup {None}]
             /\ \/ /\ pc'[r] = "failed" /\ tokens' = tokens /\ loggedOut' = loggedOut
                   /\ tokens[t] # None
                \/ /\ pc'[r] = IF job[r].op = "refresh" THEN "sign" ELSE "done"
                   /\ loggedOut' = IF job[r].op = "logout" THEN loggedOut \cup {t}
                                                           ELSE loggedOut
                   /\ job[r].mode = "insert" => tokens[t] = None
                   /\ tokens'[t] = Saved(job[r], tokens[t])
<1>. USE DEF Goto
<1>. DEFINE t == job[r].token
<1>1. /\ t \in Token /\ TypeOK /\ pc[r] = "write" /\ job' = job
      /\ tokens[t] \in Row \cup {None} /\ job[r] \in Job
  BY DEF TokenInv, HandlerOK, TypeOK, WriteRevocation
<1>2. CASE /\ job[r].mode = "insert" /\ tokens[t] # None
           /\ pc' = [pc EXCEPT ![r] = "failed"]
           /\ tokens' = tokens /\ loggedOut' = loggedOut
  BY <1>1, <1>2 DEF TypeOK, OthersStay
<1>3. CASE /\ job[r].mode = "insert" => tokens[t] = None
           /\ tokens' = [tokens EXCEPT ![t] = Saved(job[r], @)]
           /\ pc' = [pc EXCEPT ![r] = IF job[r].op = "refresh" THEN "sign" ELSE "done"]
           /\ loggedOut' = IF job[r].op = "logout" THEN loggedOut \cup {t}
                                                   ELSE loggedOut
  <2>1. Saved(job[r], tokens[t]) \in Row \cup {None}
    BY <1>1, <1>3, SavedFacts
  <2>. QED  BY <1>1, <1>3, <2>1 DEF TypeOK, OthersStay
<1>. QED  BY <1>2, <1>3 DEF WriteRevocation

LEMMA InsertFacts ==
  ASSUME TokenInv, NEW r \in Request, InsertToken(r)
  PROVE  LET t == job[r].fresh
         IN  /\ t \in Token /\ job' = job /\ OthersStay(r)
             /\ pc[r] = "insert" /\ pc'[r] \in {"done", "failed"}
             /\ \/ /\ pc'[r] = "failed"
                   /\ tokens' = tokens /\ grants' = grants
                \/ /\ tokens[t] = None
                   /\ tokens'[t] = NewRow(job[r].user) /\ job[r].user \in User
                   /\ tokens' = [tokens EXCEPT ![t] = NewRow(job[r].user)]
                   /\ grants' = grants \cup {[from |-> job[r].token, token |-> t]}
                   /\ [from |-> job[r].token, token |-> t] \in Grant
             /\ tokens' \in [Token -> Row \cup {None}]
<1>. USE DEF Goto
<1>. DEFINE t == job[r].fresh
<1>1. /\ t \in Token /\ TypeOK /\ pc[r] = "insert" /\ job' = job
      /\ job[r].user \in User /\ NewRow(job[r].user) \in Row
      /\ job[r].token \in Token \cup {None}
  BY NewRowFacts DEF TokenInv, HandlerOK, InsertToken
<1>2. OthersStay(r) /\ pc'[r] \in {"done", "failed"}
  BY <1>1 DEF InsertToken, TypeOK, OthersStay
<1>3. [from |-> job[r].token, token |-> t] \in Grant
  BY <1>1 DEF Grant
<1>. QED  BY <1>1, <1>2, <1>3 DEF InsertToken, TypeOK

LEMMA TypeStep ==
  ASSUME TokenInv, [Next]_vars
  PROVE  TypeOK'
<1>. USE DEF Goto
<1>a. TypeOK
  BY DEF TokenInv
<1>1. ASSUME NEW r \in Request, Login(r) PROVE TypeOK'
  BY <1>a, <1>1, LoginFacts DEF Login, TypeOK
<1>2. ASSUME NEW r \in Request, Unknown(r) PROVE TypeOK'
  BY <1>a, <1>2 DEF Unknown, TypeOK, Ended
<1>3. ASSUME NEW r \in Request, FindForRefresh(r) PROVE TypeOK'
  <2>1. job' \in [Request -> Job]
    BY <1>3, FindFacts
  <2>. QED  BY <1>a, <1>3, <2>1 DEF FindForRefresh, TypeOK, Ended
<1>4. ASSUME NEW r \in Request, FindForLogout(r) PROVE TypeOK'
  <2>1. job' \in [Request -> Job]
    BY <1>4, FindFacts
  <2>2. loggedOut' \subseteq Token
    BY <1>a, <1>4, IssuedFacts DEF FindForLogout, TypeOK
  <2>. QED  BY <1>a, <1>4, <2>1, <2>2 DEF FindForLogout, TypeOK, Ended
<1>5. ASSUME NEW r \in Request, Remove(r) PROVE TypeOK'
  BY <1>a, <1>5 DEF Remove, TypeOK, Ended
<1>6. ASSUME NEW r \in Request, SelectForSave(r) PROVE TypeOK'
  <2>. DEFINE row == tokens[job[r].token]
              m == IF row = None THEN "insert"
                   ELSE IF row.revoked THEN "none" ELSE "update"
  <2>1. m \in {"none", "update", "insert"}
    OBVIOUS
  <2>. HIDE DEF m
  <2>2. [job[r] EXCEPT !.mode = m] \in Job
    BY <1>a, <2>1, ModeFacts DEF TypeOK
  <2>3. job' = [job EXCEPT ![r].mode = m]
    BY <1>6 DEF SelectForSave, m
  <2>. QED  BY <1>a, <1>6, <2>2, <2>3 DEF SelectForSave, TypeOK
<1>7. ASSUME NEW r \in Request, WriteRevocation(r) PROVE TypeOK'
  <2>1. /\ tokens' \in [Token -> Row \cup {None}]
        /\ loggedOut' \subseteq Token
    BY <1>a, <1>7, RevocationFacts DEF TypeOK
  <2>. QED  BY <1>a, <1>7, <2>1 DEF WriteRevocation, TypeOK, Ended
<1>8. ASSUME NEW r \in Request, Sign(r) PROVE TypeOK'
  <2>. DEFINE t == <<job[r].user, now>>
  <2>1. t \in Token
    <3>1. job[r].user \in User
      BY <1>8 DEF Sign, TokenInv, HandlerOK
    <3>2. now \in 0..MaxTime
      BY <1>a DEF TypeOK
    <3>. QED  BY <3>1, <3>2 DEF Token
  <2>. HIDE DEF t
  <2>2. [job[r] EXCEPT !.fresh = t] \in Job
    BY <1>a, <2>1, FreshFacts DEF TypeOK
  <2>3. job' = [job EXCEPT ![r].fresh = t]
    BY <1>8 DEF Sign, t
  <2>. QED  BY <1>a, <1>8, <2>2, <2>3 DEF Sign, TypeOK
<1>9. ASSUME NEW r \in Request, InsertToken(r) PROVE TypeOK'
  <2>1. tokens' \in [Token -> Row \cup {None}]
    BY <1>9, InsertFacts
  <2>2. \E g \in Grant : grants' = grants \/ grants' = grants \cup {g}
    <3>. DEFINE g == [from |-> job[r].token, token |-> job[r].fresh]
    <3>1. g \in Grant
      <4>1. job[r] \in Job /\ job[r].fresh \in Token
        BY <1>a, <1>9 DEF InsertToken, TokenInv, HandlerOK, TypeOK
      <4>. QED  BY <4>1 DEF Job, Grant
    <3>2. grants' = grants \/ grants' = grants \cup {g}
      BY <1>9 DEF InsertToken
    <3>. QED  BY <3>1, <3>2
  <2>. QED  BY <1>a, <1>9, <2>1, <2>2 DEF InsertToken, TypeOK, Ended
<1>10. ASSUME NEW r \in Request, Abort(r) PROVE TypeOK'
  BY <1>a, <1>10 DEF Abort, TypeOK, Ended
<1>11. ASSUME Tick PROVE TypeOK'
  <2>1. now' \in 0..MaxTime
    BY <1>a, <1>11, TokenAssumption DEF Tick, TypeOK
  <2>. QED  BY <1>a, <1>11, <2>1 DEF Tick, TypeOK
<1>12. ASSUME UNCHANGED vars PROVE TypeOK'
  BY <1>a, <1>12 DEF vars, TypeOK
<1>. QED
  BY <1>1, <1>2, <1>3, <1>4, <1>5, <1>6, <1>7, <1>8, <1>9, <1>10, <1>11, <1>12
     DEF Next, Quiet

-----------------------------------------------------------------------------
(* A spent token stays spent, and a token that has its row keeps it until   *)
(* it expires, whatever step is taken.                                      *)

Persists(t) ==
  /\ Spent(t) => Spent(t)'
  /\ Here(t) => Here(t)'
  /\ Expired(t) => Expired(t)'
  /\ RowOK(t)'

LEMMA Persistence ==
  ASSUME TokenInv, [Next]_vars, NEW t \in Token
  PROVE  Persists(t)
<1>. USE DEF Persists, Spent, Here, RowOK
<1>a. /\ TypeOK /\ RowOK(t) /\ tokens[t] \in Row \cup {None}
      /\ now \in Nat /\ t[2] \in Nat /\ Lifetime \in Nat
  BY TokenFacts, TokenAssumption DEF TokenInv, TypeOK
<1>b. ASSUME now' = now, tokens'[t] = tokens[t] PROVE Persists(t)
  BY <1>a, <1>b DEF Expired
<1>1. ASSUME NEW r \in Request, Remove(r) PROVE Persists(t)
  <2>1. /\ job[r].token \in Token /\ Expired(job[r].token)
        /\ tokens' = [tokens EXCEPT ![job[r].token] = None] /\ now' = now
    BY <1>1 DEF Remove, TokenInv, HandlerOK
  <2>2. CASE t = job[r].token
    BY <1>a, <2>1, <2>2 DEF Expired, TypeOK
  <2>3. CASE t # job[r].token
    BY <1>a, <1>b, <2>1, <2>3 DEF TypeOK
  <2>. QED  BY <2>2, <2>3
<1>2. ASSUME NEW r \in Request, WriteRevocation(r) PROVE Persists(t)
  <2>1. now' = now /\ (t # job[r].token => tokens'[t] = tokens[t])
    BY <1>2, RevocationFacts DEF WriteRevocation
  <2>2. CASE t = job[r].token /\ tokens'[t] # tokens[t]
    <3>1. /\ pc[r] = "write" /\ job[r] \in Job /\ HandlerOK(r)
          /\ job[r].mode = "insert" => tokens[t] = None
          /\ tokens'[t] = Saved(job[r], tokens[t])
      BY <1>2, <1>a, <2>2, RevocationFacts DEF TokenInv, TypeOK
    <3>2. CASE job[r].mode = "insert"
      <4>1. Expired(t) /\ tokens'[t] # None /\ tokens'[t].revoked
        BY <1>a, <2>2, <3>1, <3>2, SavedFacts DEF HandlerOK
      <4>. QED  BY <2>1, <4>1 DEF Expired
    <3>3. CASE job[r].mode # "insert"
      <4>1. /\ tokens[t] # None /\ tokens'[t] # None
            /\ tokens'[t].user = tokens[t].user /\ tokens'[t].revoked
        BY <1>a, <2>2, <3>1, <3>3, SavedFacts DEF HandlerOK
      <4>. QED  BY <1>a, <2>1, <4>1 DEF Expired
    <3>. QED  BY <3>2, <3>3
  <2>. QED  BY <1>b, <2>1, <2>2
<1>3. ASSUME NEW r \in Request, InsertToken(r) PROVE Persists(t)
  <2>. DEFINE f == job[r].fresh
  <2>1. now' = now /\ f \in Token
    BY <1>3, InsertFacts DEF InsertToken
  <2>2. CASE tokens' = tokens
    BY <1>b, <2>1, <2>2
  <2>3. CASE /\ tokens[f] = None
             /\ tokens' = [tokens EXCEPT ![f] = NewRow(job[r].user)]
             /\ job[r].user \in User
    <3>1. CASE t = f
      BY <1>a, <2>1, <2>3, <3>1, NewRowFacts DEF Expired, TypeOK
    <3>2. CASE t # f
      BY <1>a, <1>b, <2>1, <2>3, <3>2 DEF TypeOK
    <3>. QED  BY <3>1, <3>2
  <2>. QED  BY <1>3, <2>2, <2>3, InsertFacts
<1>4. CASE Tick
  <2>1. tokens' = tokens /\ now' = now + 1
    BY <1>4 DEF Tick
  <2>2. Expired(t) => Expired(t)'
    BY <1>a, <2>1 DEF Expired
  <2>. QED  BY <1>a, <2>1, <2>2
<1>5. CASE now' = now /\ tokens' = tokens
  BY <1>b, <1>5
<1>. QED
  BY <1>1, <1>2, <1>3, <1>4, <1>5
     DEF Next, Quiet, Login, Unknown, FindForRefresh, FindForLogout,
         SelectForSave, Sign, Abort, vars

LEMMA HandlerStays ==
  ASSUME \A t \in Token : Persists(t), NEW q \in Request, HandlerOK(q),
         pc'[q] = pc[q], job'[q] = job[q]
  PROVE  HandlerOK(q)'
BY DEF HandlerOK, Persists

LEMMA HandlerStep ==
  ASSUME TokenInv, [Next]_vars, NEW q \in Request
  PROVE  HandlerOK(q)'
<1>. USE DEF Goto
<1>a. /\ TypeOK /\ \A t \in Token : Persists(t)
      /\ \A r \in Request : HandlerOK(r)
  BY Persistence DEF TokenInv
<1>b. ASSUME NEW r \in Request, OthersStay(r), HandlerOK(r)' PROVE HandlerOK(q)'
  BY <1>a, <1>b, HandlerStays DEF OthersStay
\* A handler whose answer is sent knows nothing any more.
<1>c. ASSUME NEW r \in Request, OthersStay(r), pc'[r] \in Ended PROVE HandlerOK(q)'
  BY <1>b, <1>c DEF HandlerOK, Ended
<1>1. ASSUME NEW r \in Request, Login(r) PROVE HandlerOK(q)'
  <2>1. OthersStay(r) /\ HandlerOK(r)'
    BY <1>a, <1>1, LoginFacts DEF HandlerOK
  <2>. QED  BY <1>b, <2>1
<1>2. ASSUME NEW r \in Request, Unknown(r) PROVE HandlerOK(q)'
  BY <1>a, <1>c, <1>2 DEF Unknown, TypeOK, OthersStay, Ended
<1>3. ASSUME NEW r \in Request, FindForRefresh(r) \/ FindForLogout(r)
      PROVE  HandlerOK(q)'
  <2>1. tokens' = tokens /\ now' = now
    BY <1>3 DEF FindForRefresh, FindForLogout
  <2>2. CASE pc'[r] = "done"
    BY <1>c, <1>3, <2>2, FindFacts DEF Ended
  <2>3. CASE pc'[r] # "done"
    <3>1. HandlerOK(r)'
      BY <1>3, <2>1, <2>3, FindFacts DEF HandlerOK, Here, Expired
    <3>. QED  BY <1>b, <1>3, <3>1, FindFacts
  <2>. QED  BY <2>2, <2>3
<1>4. ASSUME NEW r \in Request, Remove(r) PROVE HandlerOK(q)'
  BY <1>a, <1>c, <1>4 DEF Remove, TypeOK, OthersStay, Ended
<1>5. ASSUME NEW r \in Request, SelectForSave(r) PROVE HandlerOK(q)'
  <2>. DEFINE t == job[r].token
              row == tokens[t]
              m == IF row = None THEN "insert"
                   ELSE IF row.revoked THEN "none" ELSE "update"
  <2>1. /\ pc[r] = "select" /\ pc'[r] = "write" /\ OthersStay(r)
        /\ tokens' = tokens /\ now' = now /\ HandlerOK(r) /\ job[r] \in Job
        /\ job'[r] = [job[r] EXCEPT !.mode = m]
    BY <1>a, <1>5 DEF SelectForSave, TypeOK, OthersStay
  <2>2. /\ m \in {"none", "update", "insert"}
        /\ m = "insert" /\ Here(t) => Expired(t)
        /\ m = "none" => Spent(t)
    BY DEF Here, Spent
  <2>. HIDE DEF m
  <2>3. /\ job'[r].mode = m /\ job'[r].op = job[r].op
        /\ job'[r].token = t /\ job'[r].user = job[r].user
    BY <2>1, <2>2 DEF Job
  <2>4. HandlerOK(r)'
    BY <2>1, <2>2, <2>3 DEF HandlerOK, Here, Spent, Expired
  <2>. QED  BY <1>b, <2>1, <2>4
<1>6. ASSUME NEW r \in Request, WriteRevocation(r) PROVE HandlerOK(q)'
  <2>. DEFINE t == job[r].token
  <2>1. OthersStay(r) /\ pc[r] = "write" /\ job' = job /\ t \in Token
    BY <1>6, RevocationFacts
  <2>2. CASE pc'[r] # "sign"
    BY <1>c, <1>6, <2>1, <2>2, RevocationFacts DEF Ended
  <2>3. CASE pc'[r] = "sign"
    <3>1. /\ job[r].op = "refresh" /\ job[r].user \in User
          /\ job[r].mode \in {"insert", "update", "none"}
          /\ job[r].mode = "insert" => tokens[t] = None
          /\ tokens'[t] = Saved(job[r], tokens[t])
          /\ tokens[t] \in Row \cup {None} /\ job[r] \in Job /\ Here(t)
          /\ job[r].mode = "none" => Spent(t)
      BY <1>a, <1>6, <2>1, <2>3, RevocationFacts DEF HandlerOK, TypeOK
    <3>2. Spent(t)'
      <4>1. CASE job[r].mode = "insert"
        BY <2>1, <3>1, <4>1, SavedFacts DEF Spent
      <4>2. CASE job[r].mode = "none"
        BY <1>a, <2>1, <3>1, <4>2 DEF Persists
      <4>3. CASE job[r].mode = "update" /\ tokens[t] # None
        BY <2>1, <3>1, <4>3, SavedFacts DEF Spent
      <4>4. CASE tokens[t] = None
        <5>1. Expired(t)
          BY <3>1, <4>4 DEF Here
        <5>. QED  BY <1>a, <2>1, <5>1 DEF Persists, Spent
      <4>. QED  BY <3>1, <4>1, <4>2, <4>3, <4>4
    <3>3. HandlerOK(r)'
      BY <2>1, <2>3, <3>1, <3>2 DEF HandlerOK
    <3>. QED  BY <1>b, <2>1, <3>3
  <2>. QED  BY <2>2, <2>3
<1>7. ASSUME NEW r \in Request, Sign(r) PROVE HandlerOK(q)'
  <2>. DEFINE f == <<job[r].user, now>>
  <2>1. /\ pc[r] = "sign" /\ pc'[r] = "insert" /\ OthersStay(r)
        /\ job'[r] = [job[r] EXCEPT !.fresh = f] /\ job[r] \in Job
    BY <1>a, <1>7 DEF Sign, TypeOK, OthersStay
  <2>2. f \in Token
    <3>1. job[r].user \in User /\ now \in 0..MaxTime
      BY <1>a, <2>1 DEF HandlerOK, TypeOK
    <3>. QED  BY <3>1 DEF Token
  <2>. HIDE DEF f
  <2>3. /\ job'[r].fresh = f /\ job'[r].op = job[r].op
        /\ job'[r].token = job[r].token /\ job'[r].user = job[r].user
    BY <2>1 DEF Job
  <2>4. tokens' = tokens /\ now' = now
    BY <1>7 DEF Sign
  <2>5. HandlerOK(r)'
    BY <1>a, <2>1, <2>2, <2>3, <2>4 DEF HandlerOK, Spent, Expired
  <2>. QED  BY <1>b, <2>1, <2>5
<1>8. ASSUME NEW r \in Request, InsertToken(r) PROVE HandlerOK(q)'
  BY <1>c, <1>8, InsertFacts DEF Ended
<1>9. ASSUME NEW r \in Request, Abort(r) PROVE HandlerOK(q)'
  BY <1>a, <1>c, <1>9 DEF Abort, TypeOK, OthersStay, Ended
<1>10. CASE UNCHANGED <<pc, job>>
  BY <1>a, <1>10, HandlerStays
<1>. QED
  BY <1>1, <1>2, <1>3, <1>4, <1>5, <1>6, <1>7, <1>8, <1>9, <1>10
     DEF Next, Quiet, Tick, vars

\* What a step adds to the histories.
LEMMA GrantStep ==
  ASSUME TokenInv, [Next]_vars, NEW g \in grants'
  PROVE  \/ g \in grants
         \/ \E r \in Request :
              /\ InsertToken(r) /\ g.from = job[r].token
              /\ g.token = job[r].fresh /\ tokens'[g.token] # None
<1>1. ASSUME NEW r \in Request, InsertToken(r), g \notin grants
      PROVE  /\ g.from = job[r].token
             /\ g.token = job[r].fresh /\ tokens'[g.token] # None
  <2>. DEFINE f == job[r].fresh
  <2>1. /\ grants' = grants \cup {[from |-> job[r].token, token |-> f]}
        /\ tokens' = [tokens EXCEPT ![f] = NewRow(job[r].user)]
    BY <1>1 DEF InsertToken
  <2>2. f \in Token /\ job[r].user \in User /\ TypeOK
    BY <1>1 DEF InsertToken, TokenInv, HandlerOK
  <2>3. g = [from |-> job[r].token, token |-> f]
    BY <1>1, <2>1
  <2>4. tokens'[f] = NewRow(job[r].user)
    BY <2>1, <2>2 DEF TypeOK
  <2>. QED  BY <2>2, <2>3, <2>4, NewRowFacts
<1>. QED
  BY <1>1
     DEF Next, Quiet, Tick, Login, Unknown, FindForRefresh, FindForLogout, Remove,
         SelectForSave, WriteRevocation, Sign, Abort, vars

LEMMA LogoutStep ==
  ASSUME TokenInv, [Next]_vars, NEW t \in loggedOut'
  PROVE  \/ t \in loggedOut
         \/ t \in Issued /\ tokens[t] = None /\ MayStart(t)
         \/ \E r \in Request :
              /\ WriteRevocation(r) /\ t = job[r].token
              /\ job[r].op = "logout" /\ pc'[r] = "done"
<1>1. ASSUME NEW r \in Request, WriteRevocation(r), t \notin loggedOut
      PROVE  /\ t = job[r].token
             /\ job[r].op = "logout" /\ pc'[r] = "done"
  BY <1>1, RevocationFacts
<1>2. ASSUME NEW r \in Request, FindForLogout(r), t \notin loggedOut
      PROVE  t \in Issued /\ tokens[t] = None /\ MayStart(t)
  BY <1>2 DEF FindForLogout
<1>. QED
  BY <1>1, <1>2
     DEF Next, Quiet, Tick, Login, Unknown, FindForRefresh, Remove,
         SelectForSave, InsertToken, Sign, Abort, vars

LEMMA TokenInvStep == TokenInv /\ [Next]_vars => TokenInv'
<1>. SUFFICES ASSUME TokenInv, [Next]_vars PROVE TokenInv'
  OBVIOUS
<1>a. /\ TypeOK /\ TypeOK' /\ \A t \in Token : Persists(t)
      /\ \A r \in Request : HandlerOK(r) /\ HandlerOK(r)'
  BY TypeStep, Persistence, HandlerStep DEF TokenInv
<1>1. ASSUME NEW g \in grants' PROVE GrantOK(g)'
  <2>0. /\ g.token \in Token /\ g.from \in Token \cup {None}
    BY <1>a DEF TypeOK, Grant
  <2>1. CASE g \in grants
    BY <1>a, <2>0, <2>1 DEF TokenInv, GrantOK, Persists
  <2>2. ASSUME NEW r \in Request, InsertToken(r), g.from = job[r].token,
               tokens'[g.token] # None
        PROVE  GrantOK(g)'
    <3>1. g.from # None => Spent(g.from)
      BY <1>a, <2>2 DEF InsertToken, HandlerOK
    <3>2. g.from # None => Spent(g.from)'
      BY <1>a, <2>0, <3>1 DEF Persists
    <3>. QED  BY <2>2, <3>2 DEF GrantOK, Here
  <2>. QED  BY <2>1, <2>2, GrantStep
<1>2. ASSUME NEW t \in loggedOut' PROVE Spent(t)'
  <2>0. t \in Token
    BY <1>a DEF TypeOK
  <2>1. CASE t \in loggedOut
    BY <1>a, <2>0, <2>1 DEF TokenInv, Persists
  <2>2. CASE t \in Issued /\ tokens[t] = None
    <3>1. Here(t)
      BY <1>a, <2>2, IssuedFacts DEF TokenInv, GrantOK
    <3>2. Expired(t)
      BY <2>2, <3>1 DEF Here
    <3>. QED  BY <1>a, <2>0, <3>2 DEF Persists, Spent
  <2>3. ASSUME NEW r \in Request, WriteRevocation(r), t = job[r].token, pc'[r] = "done"
        PROVE  Spent(t)'
    <3>1. /\ job[r] \in Job /\ tokens[t] \in Row \cup {None}
          /\ job[r].mode = "insert" => tokens[t] = None
          /\ tokens'[t] = Saved(job[r], tokens[t])
      BY <1>a, <2>0, <2>3, RevocationFacts DEF TypeOK
    <3>2. /\ job[r].mode \in {"insert", "update", "none"} /\ Here(t)
          /\ job[r].mode = "none" => Spent(t)
      BY <1>a, <2>3 DEF WriteRevocation, HandlerOK
    <3>3. CASE job[r].mode = "insert"
      BY <3>1, <3>3, SavedFacts DEF Spent
    <3>4. CASE job[r].mode = "none"
      BY <1>a, <2>0, <3>2, <3>4 DEF Persists
    <3>5. CASE job[r].mode = "update" /\ tokens[t] # None
      BY <3>1, <3>5, SavedFacts DEF Spent
    <3>6. CASE tokens[t] = None
      <4>1. Expired(t)
        BY <3>2, <3>6 DEF Here
      <4>. QED  BY <1>a, <2>0, <4>1 DEF Persists, Spent
    <3>. QED  BY <3>2, <3>3, <3>4, <3>5, <3>6
  <2>. QED  BY <2>1, <2>2, <2>3, LogoutStep
<1>3. \A t \in Token : RowOK(t)'
  BY <1>a DEF Persists
<1>. QED  BY <1>a, <1>1, <1>2, <1>3 DEF TokenInv

LEMMA TokenInvInit == Init => TokenInv
<1>1. Init => TypeOK
  BY TokenAssumption DEF Init, TypeOK, NoJob, Job
<1>. QED  BY <1>1 DEF Init, TokenInv, RowOK, HandlerOK

LEMMA TokenInvariant == Spec => []TokenInv
BY TokenInvInit, TokenInvStep, PTL DEF Spec

LEMMA LifeFacts ==
  ASSUME NEW t \in Token
  PROVE  /\ lifeBar[t] = "dead" <=> Spent(t)
         /\ ~Spent(t) => lifeBar[t] = IF tokens[t] = None THEN "unborn" ELSE "live"
BY DEF lifeBar, Spent

\* The rows of the table and the locals of the handlers keep their shape.
THEOREM TypeCorrect == Spec => []TypeOK
<1>1. TokenInv => TypeOK
  BY DEF TokenInv
<1>. QED  BY <1>1, TokenInvariant, PTL

\* refresh() never finds a row without a user, although the save() of a logout
\* can insert one.
THEOREM OrphansAreRevoked == Spec => []OrphansRevoked
<1>1. TokenInv => OrphansRevoked
  BY DEF TokenInv, RowOK, OrphansRevoked
<1>. QED  BY <1>1, TokenInvariant, PTL

\* A token in exchange for which another was issued is spent, for good, also
\* when refreshes race, requests stop half way and clocks pass expiresAt.
THEOREM ParentIsSpent == Spec => []ParentSpent
<1>1. TokenInv => ParentSpent
  BY LifeFacts DEF TokenInv, TypeOK, Grant, GrantOK, ParentSpent
<1>. QED  BY <1>1, TokenInvariant, PTL

\* A token whose logout was answered is not usable, whatever raced with it.
THEOREM LoggedOutIsDead == Spec => []LoggedOutDead
<1>1. TokenInv => LoggedOutDead
  BY LifeFacts DEF TokenInv, TypeOK, LoggedOutDead
<1>. QED  BY <1>1, TokenInvariant, PTL

-----------------------------------------------------------------------------
(* The table implements the life of each token.                             *)

LEMMA LifeFactsNext ==
  ASSUME NEW t \in Token
  PROVE  /\ lifeBar'[t] = "dead" <=> Spent(t)'
         /\ ~Spent(t)' => lifeBar'[t] = IF tokens'[t] = None THEN "unborn" ELSE "live"
BY DEF lifeBar, Spent

\* A step that issues no token ends the life of some tokens, or of none.
LEMMA LifeEnds ==
  ASSUME \A t \in Token : \/ lifeBar'[t] = lifeBar[t]
                          \/ lifeBar[t] # "dead" /\ lifeBar'[t] = "dead"
  PROVE  TL!Next
<1>. DEFINE S == {t \in Token : lifeBar[t] # "dead" /\ lifeBar'[t] = "dead"}
<1>1. lifeBar' = [t \in Token |-> lifeBar'[t]]
  BY DEF lifeBar
<1>2. \A t \in Token : lifeBar'[t] = IF t \in S THEN "dead" ELSE lifeBar[t]
  OBVIOUS
<1>3. TL!End(S)
  <2>. HIDE DEF S
  <2>1. lifeBar' = [t \in Token |-> IF t \in S THEN "dead" ELSE lifeBar[t]]
    BY <1>1, <1>2
  <2>2. \A t \in S : lifeBar[t] # "dead"
    BY DEF S
  <2>. QED  BY <2>1, <2>2 DEF TL!End
<1>4. S \in SUBSET Token
  OBVIOUS
<1>. QED  BY <1>3, <1>4 DEF TL!Next

LEMMA LifeStep ==
  ASSUME TokenInv, [Next]_vars
  PROVE  [TL!Next]_lifeBar
<1>a. TypeOK /\ \A t \in Token : Persists(t)
  BY Persistence DEF TokenInv
\* The tokens whose row appears or disappears only when they have expired.
<1>b. ASSUME NEW t \in Token,
             tokens[t] = None /\ tokens'[t] # None => Spent(t)',
             tokens[t] # None /\ tokens'[t] = None => Spent(t)
      PROVE  \/ lifeBar'[t] = lifeBar[t]
             \/ lifeBar[t] # "dead" /\ lifeBar'[t] = "dead"
  <2>1. Spent(t) => Spent(t)'
    BY <1>a DEF Persists
  <2>2. CASE Spent(t)
    BY <2>1, <2>2, LifeFacts, LifeFactsNext
  <2>3. CASE ~Spent(t) /\ Spent(t)'
    <3>1. lifeBar[t] # "dead" /\ lifeBar'[t] = "dead"
      BY <2>3, LifeFacts, LifeFactsNext
    <3>. QED  BY <3>1
  <2>4. CASE ~Spent(t)'
    BY <1>b, <2>1, <2>4, LifeFacts, LifeFactsNext
  <2>. QED  BY <2>2, <2>3, <2>4
<1>1. ASSUME NEW r \in Request, InsertToken(r) PROVE [TL!Next]_lifeBar
  <2>0. job[r].fresh \in Token /\ job[r].user \in User /\ now' = now
    BY <1>1 DEF InsertToken, TokenInv, HandlerOK
  <2>f. PICK f \in Token : f = job[r].fresh
    BY <2>0
  <2>1. CASE tokens' = tokens
    BY <1>b, <2>1, LifeEnds
  <2>2. CASE /\ tokens[f] = None
             /\ tokens' = [tokens EXCEPT ![f] = NewRow(job[r].user)]
    <3>1. /\ tokens'[f] # None /\ ~tokens'[f].revoked
          /\ \A t \in Token \ {f} : tokens'[t] = tokens[t]
      BY <1>a, <2>0, <2>2, NewRowFacts DEF TypeOK
    <3>2. CASE Expired(f)
      <4>1. Spent(f)'
        BY <1>a, <2>0, <3>2 DEF Persists, Spent
      <4>. QED  BY <1>b, <2>2, <3>1, <4>1, LifeEnds
    <3>3. CASE ~Expired(f)
      <4>1. ~Spent(f) /\ ~Spent(f)'
        BY <2>0, <2>2, <3>1, <3>3 DEF Spent, Expired
      <4>2. lifeBar[f] = "unborn" /\ lifeBar'[f] = "live"
        BY <2>0, <2>2, <3>1, <4>1, LifeFacts, LifeFactsNext
      <4>3. \A t \in Token \ {f} : lifeBar'[t] = lifeBar[t]
        BY <2>0, <3>1 DEF lifeBar, Expired
      <4>4. lifeBar' = [lifeBar EXCEPT ![f] = "live"]
        BY <2>0, <4>2, <4>3 DEF lifeBar
      <4>. QED  BY <2>0, <4>2, <4>4 DEF TL!Next, TL!Issue
    <3>. QED  BY <3>2, <3>3
  <2>. QED  BY <1>1, <2>f, <2>1, <2>2 DEF InsertToken
<1>2. ASSUME NEW r \in Request, Remove(r) PROVE TL!Next
  <2>1. ASSUME NEW t \in Token
        PROVE  /\ tokens[t] = None /\ tokens'[t] # None => Spent(t)'
               /\ tokens[t] # None /\ tokens'[t] = None => Spent(t)
    <3>1. /\ job[r].token \in Token /\ Expired(job[r].token)
          /\ tokens' = [tokens EXCEPT ![job[r].token] = None]
      BY <1>2 DEF Remove, TokenInv, HandlerOK
    <3>. QED  BY <1>a, <3>1 DEF Spent, TypeOK
  <2>. QED  BY <1>b, <2>1, LifeEnds
<1>3. ASSUME NEW r \in Request, WriteRevocation(r) PROVE TL!Next
  <2>1. ASSUME NEW t \in Token
        PROVE  /\ tokens[t] = None /\ tokens'[t] # None => Spent(t)'
               /\ tokens[t] # None /\ tokens'[t] = None => Spent(t)
    <3>1. CASE t # job[r].token \/ tokens' = tokens
      BY <1>3, <3>1, RevocationFacts
    <3>2. CASE t = job[r].token /\ tokens' # tokens
      <4>1. /\ job[r] \in Job /\ tokens[t] \in Row \cup {None}
            /\ job[r].mode = "insert" => tokens[t] = None
            /\ tokens'[t] = Saved(job[r], tokens[t])
        BY <1>a, <1>3, <3>2, RevocationFacts DEF TypeOK
      <4>2. CASE job[r].mode = "insert"
        BY <4>1, <4>2, SavedFacts DEF Spent
      <4>3. CASE job[r].mode # "insert"
        BY <4>1, <4>3, SavedFacts
      <4>. QED  BY <4>2, <4>3
    <3>. QED  BY <3>1, <3>2
  <2>. QED  BY <1>b, <2>1, LifeEnds
<1>4. CASE tokens' = tokens
  BY <1>b, <1>4, LifeEnds
<1>. QED
  BY <1>1, <1>2, <1>3, <1>4
     DEF Next, Quiet, Tick, Login, Unknown, FindForRefresh, FindForLogout,
         SelectForSave, Sign, Abort, vars

\* Whatever interleaves and whatever fails, every row of "refresh_tokens" goes
\* through the life of a token: issued once, usable, then spent for ever.
THEOREM RefinesTokenLife == Spec => ImplementsTokenLife
<1>1. Init => TL!Init
  BY TokenFacts, TokenAssumption DEF Init, TL!Init, lifeBar, Expired
<1>2. TokenInv /\ [Next]_vars => [TL!Next]_lifeBar
  BY LifeStep
<1>. QED  BY <1>1, <1>2, TokenInvariant, PTL DEF Spec, TL!Spec, ImplementsTokenLife

-----------------------------------------------------------------------------
(* One token at a time, whatever happens to the others.                     *)

\* Where a request in flight comes from: it was, with the same token, or it
\* has just started.
Went(p) ==
  /\ InFlight(p)
  /\ job'[p].token = job[p].token /\ job'[p].op = job[p].op
  /\ pc[p] = "remove" => pc'[p] = "remove"

Started(p) ==
  /\ FindForRefresh(p) \/ FindForLogout(p)
  /\ job'[p].token \in Token
  /\ pc'[p] # "done"

LEMMA Flight ==
  ASSUME TokenInv, [Next]_vars, NEW p \in Request, InFlight(p)'
  PROVE  Went(p) \/ Started(p) \/ job'[p].token = None
<1>. USE DEF Goto
<1>a. TypeOK
  BY DEF TokenInv
<1>b. ASSUME pc'[p] = pc[p], job'[p] = job[p] PROVE Went(p)
  BY <1>b DEF Went, InFlight
<1>c. ASSUME NEW r \in Request, OthersStay(r), p # r PROVE Went(p)
  BY <1>b, <1>c DEF OthersStay
<1>d. ASSUME NEW r \in Request, OthersStay(r), pc'[r] \in Ended PROVE Went(p)
  BY <1>c, <1>d DEF InFlight, Ended
<1>1. ASSUME NEW r \in Request, Login(r) PROVE Went(p) \/ job'[p].token = None
  BY <1>a, <1>c, <1>1, LoginFacts
<1>2. ASSUME NEW r \in Request, Unknown(r) PROVE Went(p)
  BY <1>a, <1>d, <1>2 DEF Unknown, TypeOK, OthersStay, Ended
<1>3. ASSUME NEW r \in Request, FindForRefresh(r) \/ FindForLogout(r)
      PROVE  Went(p) \/ Started(p)
  <2>1. CASE p # r
    BY <1>c, <1>3, <2>1, FindFacts
  <2>2. CASE p = r
    BY <1>3, <2>2, FindFacts DEF Started, InFlight
  <2>. QED  BY <2>1, <2>2
<1>4. ASSUME NEW r \in Request, Remove(r) PROVE Went(p)
  BY <1>a, <1>d, <1>4 DEF Remove, TypeOK, OthersStay, Ended
<1>5. ASSUME NEW r \in Request, SelectForSave(r) PROVE Went(p)
  <2>. DEFINE row == tokens[job[r].token]
              m == IF row = None THEN "insert"
                   ELSE IF row.revoked THEN "none" ELSE "update"
  <2>1. /\ pc[r] = "select" /\ pc'[r] = "write" /\ OthersStay(r)
        /\ job[r] \in Job /\ job'[r] = [job[r] EXCEPT !.mode = m]
    BY <1>a, <1>5 DEF SelectForSave, TypeOK, OthersStay
  <2>. HIDE DEF m
  <2>2. job'[r].op = job[r].op /\ job'[r].token = job[r].token
    BY <2>1 DEF Job
  <2>. QED  BY <1>c, <2>1, <2>2 DEF Went, InFlight
<1>6. ASSUME NEW r \in Request, WriteRevocation(r) PROVE Went(p)
  BY <1>c, <1>6, RevocationFacts DEF Went, InFlight
<1>7. ASSUME NEW r \in Request, Sign(r) PROVE Went(p)
  <2>. DEFINE f == <<job[r].user, now>>
  <2>1. /\ pc[r] = "sign" /\ pc'[r] = "insert" /\ OthersStay(r)
        /\ job[r] \in Job /\ job'[r] = [job[r] EXCEPT !.fresh = f]
    BY <1>a, <1>7 DEF Sign, TypeOK, OthersStay
  <2>. HIDE DEF f
  <2>2. job'[r].op = job[r].op /\ job'[r].token = job[r].token
    BY <2>1 DEF Job
  <2>. QED  BY <1>c, <2>1, <2>2 DEF Went, InFlight
<1>8. ASSUME NEW r \in Request, InsertToken(r) PROVE Went(p)
  BY <1>d, <1>8, InsertFacts DEF Ended
<1>9. ASSUME NEW r \in Request, Abort(r) PROVE Went(p)
  BY <1>a, <1>d, <1>9 DEF Abort, TypeOK, OthersStay, Ended
<1>10. CASE UNCHANGED <<pc, job>>
  BY <1>b, <1>10
<1>. QED
  BY <1>1, <1>2, <1>3, <1>4, <1>5, <1>6, <1>7, <1>8, <1>9, <1>10
     DEF Next, Quiet, Tick, vars

\* The row of a token goes only with the request that removes it.
LEMMA RowStays ==
  ASSUME TokenInv, [Next]_vars, NEW t \in Token, tokens[t] # None,
         tokens'[t] = None
  PROVE  \E r \in Request : Remove(r) /\ job[r].token = t
<1>a. TypeOK
  BY DEF TokenInv
<1>1. ASSUME NEW r \in Request, WriteRevocation(r) PROVE FALSE
  BY <1>a, <1>1, RevocationFacts, SavedFacts DEF TypeOK
<1>2. ASSUME NEW r \in Request, InsertToken(r) PROVE FALSE
  BY <1>a, <1>2, InsertFacts, NewRowFacts DEF TypeOK
<1>3. ASSUME NEW r \in Request, Remove(r) PROVE job[r].token = t
  BY <1>a, <1>3 DEF Remove, TypeOK
<1>. QED
  BY <1>1, <1>2, <1>3
     DEF Next, Quiet, Tick, Login, Unknown, FindForRefresh, FindForLogout,
         SelectForSave, Sign, Abort, vars

\* The one refresh in flight with the token is not overtaken: nobody removes
\* its row, issues a token for it or logs it out.
LEMMA NotOvertaken ==
  ASSUME TokenInv, [Next]_vars, NEW t \in Token, Alone(t), Unspoilt(t),
         NEW q \in Request, Went(q), job[q].token = t, job[q].op = "refresh",
         InFlight(q)', pc[q] # "remove"
  PROVE  /\ tokens'[t] # None
         /\ \A g \in grants' : g.from # t
         /\ t \notin loggedOut'
<1>a. /\ InFlight(q) /\ TypeOK
      /\ tokens[t] # None /\ (\A g \in grants : g.from # t) /\ t \notin loggedOut
      /\ \A r \in Request : InFlight(r) /\ job[r].token = t => r = q
  BY DEF Went, Unspoilt, Alone, TokenInv
<1>1. tokens'[t] # None
  <2>. SUFFICES ASSUME tokens'[t] = None PROVE FALSE
    OBVIOUS
  <2>1. PICK r \in Request : Remove(r) /\ job[r].token = t
    BY <1>a, RowStays
  <2>. QED  BY <1>a, <2>1 DEF Remove, InFlight
<1>2. ASSUME NEW g \in grants', g \notin grants PROVE g.from # t
  <2>1. PICK r \in Request : InsertToken(r) /\ g.from = job[r].token
    BY <1>2, GrantStep
  <2>2. InFlight(r) /\ r # q
    BY <2>1, InsertFacts DEF InFlight
  <2>. QED  BY <1>a, <2>1, <2>2
<1>3. ASSUME t \in loggedOut' PROVE FALSE
  <2>1. PICK r \in Request : /\ WriteRevocation(r) /\ t = job[r].token
                             /\ job[r].op = "logout"
    BY <1>a, <1>3, LogoutStep
  <2>. QED  BY <1>a, <2>1 DEF WriteRevocation, InFlight
<1>. QED  BY <1>a, <1>1, <1>2, <1>3

LEMMA UnspoiltStep ==
  ASSUME TokenInv, [Next]_vars, NEW t \in Token, Alone(t), Unspoilt(t)
  PROVE  Unspoilt(t)'
<1>1. ASSUME NEW q \in Request, InFlight(q)', job'[q].token = t,
             job'[q].op = "refresh", pc'[q] # "remove"
      PROVE  /\ tokens'[t] # None
             /\ \A g \in grants' : g.from # t
             /\ t \notin loggedOut'
  <2>1. CASE Went(q)
    BY <1>1, <2>1, NotOvertaken DEF Went
  <2>2. CASE Started(q)
    <3>1. Valid(t) /\ ~Expired(t)
      BY <1>1, <2>2, FindFacts DEF Started
    <3>2. ~Spent(t) /\ tokens[t] # None
      BY <3>1 DEF Spent, Valid
    <3>3. (\A g \in grants : g.from # t) /\ t \notin loggedOut
      BY <3>2, TokenFacts DEF TokenInv, GrantOK
    <3>4. grants' = grants /\ tokens' = tokens
      BY <2>2 DEF Started, FindForRefresh, FindForLogout
    <3>5. loggedOut' = loggedOut
      BY <2>2 DEF Started, FindForRefresh, FindForLogout, Goto, TokenInv, TypeOK
    <3>. QED  BY <3>2, <3>3, <3>4, <3>5
  <2>. QED  BY <1>1, <2>1, <2>2, Flight, TokenFacts
\* A grant that a step adds is the first for its token.
<1>2. ASSUME NEW g \in grants', g \notin grants, g.from = t,
             NEW h \in grants', h.from = t
      PROVE  g = h
  <2>1. PICK r \in Request : InsertToken(r) /\ g.from = job[r].token
    BY <1>2, GrantStep
  <2>2. grants' = grants \cup {[from |-> job[r].token, token |-> job[r].fresh]}
    BY <1>2, <2>1 DEF InsertToken
  <2>3. InFlight(r) /\ pc[r] = "insert" /\ job[r].op = "refresh"
    BY <1>2, <2>1, TokenFacts DEF InsertToken, InFlight, TokenInv, HandlerOK
  <2>4. \A k \in grants : k.from # t
    BY <1>2, <2>1, <2>3 DEF Unspoilt
  <2>. QED  BY <1>2, <2>2, <2>4
<1>. QED  BY <1>1, <1>2 DEF Unspoilt

\* A grant is for a token that was not logged out.
LEMMA GrantBeforeLogout ==
  ASSUME TokenInv, [Next]_vars, NEW g \in grants', g \notin grants,
         g.from \in Token, Unspoilt(g.from)
  PROVE  g.from \notin loggedOut
<1>1. PICK r \in Request : InsertToken(r) /\ g.from = job[r].token
  BY GrantStep
<1>2. InFlight(r) /\ pc[r] = "insert" /\ job[r].op = "refresh"
  BY <1>1, TokenFacts DEF InsertToken, InFlight, TokenInv, HandlerOK
<1>. QED  BY <1>1, <1>2 DEF Unspoilt

LEMMA UnspoiltInit == Init => AllUnspoilt
BY DEF Init, AllUnspoilt, Unspoilt, InFlight

\* A client that waits for the answer before it uses its token again is safe,
\* however the requests with other tokens race and whatever stops half way:
\* the token is exchanged at most once, and never after its logout was
\* answered.
THEOREM AloneTokenIsSafe ==
  ASSUME NEW t \in Token
  PROVE  Spec /\ []Alone(t) =>
           /\ [](\A g, h \in grants : g.from = t /\ h.from = t => g = h)
           /\ [][\A g \in grants' :
                   g \notin grants /\ g.from = t => t \notin loggedOut]_vars
<1>1. Init => Unspoilt(t)
  BY UnspoiltInit DEF AllUnspoilt
<1>2. TokenInv /\ Alone(t) /\ Unspoilt(t) /\ [Next]_vars => Unspoilt(t)'
  BY UnspoiltStep
<1>3. Unspoilt(t) => \A g, h \in grants : g.from = t /\ h.from = t => g = h
  BY DEF Unspoilt
<1>4. TokenInv /\ Unspoilt(t) /\ [Next]_vars =>
        [\A g \in grants' :
           g \notin grants /\ g.from = t => t \notin loggedOut]_vars
  BY GrantBeforeLogout
<1>. QED  BY <1>1, <1>2, <1>3, <1>4, TokenInvariant, PTL DEF Spec

-----------------------------------------------------------------------------
(* Every token at once.                                                     *)

LEMMA AllUnspoiltInvariant == Spec /\ []AllAlone => []AllUnspoilt
<1>1. TokenInv /\ AllAlone /\ AllUnspoilt /\ [Next]_vars => AllUnspoilt'
  BY UnspoiltStep DEF AllAlone, AllUnspoilt
<1>. QED  BY <1>1, UnspoiltInit, TokenInvariant, PTL DEF Spec

\* The environment that promises not to overlap requests keeps every token to
\* one request at a time.
LEMMA AloneStep ==
  ASSUME TokenInv, AllAlone, ~Overlap, [Next]_vars
  PROVE  AllAlone'
<1>. SUFFICES ASSUME NEW t \in Token,
                     NEW q \in Request, InFlight(q)', job'[q].token = t,
                     NEW r \in Request, InFlight(r)', job'[r].token = t,
                     q # r
              PROVE  FALSE
  BY DEF AllAlone, Alone
\* A request that starts finds its token free.
<1>1. ASSUME NEW p \in Request, Started(p), NEW s \in Request, s # p, InFlight(s)'
      PROVE  job'[s].token # job'[p].token
  <2>1. /\ MayStart(job'[p].token) /\ OthersStay(p) /\ job'[p].token \in Token
    BY <1>1, FindFacts DEF Started
  <2>2. InFlight(s) /\ job'[s] = job[s]
    BY <1>1, <2>1 DEF OthersStay, InFlight
  <2>. QED  BY <2>1, <2>2 DEF MayStart
<1>2. ~Started(q) /\ ~Started(r)
  BY <1>1
<1>3. Went(q) /\ Went(r)
  BY <1>2, Flight, TokenFacts
<1>. QED  BY <1>3 DEF Went, AllAlone, Alone

LEMMA NoOverlapAlone ==
  ASSUME ~Overlap
  PROVE  Spec => []AllAlone
<1>1. Init => AllAlone
  BY DEF Init, AllAlone, Alone, InFlight
<1>2. TokenInv /\ AllAlone /\ [Next]_vars => AllAlone'
  BY AloneStep
<1>. QED  BY <1>1, <1>2, TokenInvariant, PTL DEF Spec

\* When a client waits for the answer before it uses a token again, a token is
\* exchanged at most once, whatever stops half way and however long it takes.
THEOREM TokensAreSingleUse ==
  ASSUME ~Overlap
  PROVE  Spec => []SingleUse
<1>1. TokenInv /\ AllUnspoilt => SingleUse
  BY DEF TokenInv, TypeOK, Grant, AllUnspoilt, Unspoilt, SingleUse
<1>. QED  BY <1>1, NoOverlapAlone, AllUnspoiltInvariant, TokenInvariant, PTL

\* Under the same assumption nothing is issued for a token after its logout
\* was answered.
THEOREM LogoutIsFinal ==
  ASSUME ~Overlap
  PROVE  Spec => NoGrantAfterLogout
<1>1. ASSUME TokenInv, AllUnspoilt, [Next]_vars, NEW g \in grants', g \notin grants
      PROVE  g.from \notin loggedOut
  <2>1. PICK r \in Request : InsertToken(r) /\ g.from = job[r].token
    BY <1>1, GrantStep
  <2>2. g.from \in Token \cup {None}
    BY <1>1, <2>1 DEF InsertToken, TokenInv, TypeOK, Job
  <2>3. None \notin loggedOut
    BY <1>1, TokenFacts DEF TokenInv, TypeOK
  <2>. QED  BY <1>1, <2>2, <2>3, GrantBeforeLogout DEF AllUnspoilt
<1>2. TokenInv /\ AllUnspoilt /\ [Next]_vars =>
        [\A g \in grants' : g \notin grants => g.from \notin loggedOut]_vars
  BY <1>1
<1>. QED
  BY <1>2, NoOverlapAlone, AllUnspoiltInvariant, TokenInvariant, PTL
     DEF Spec, NoGrantAfterLogout

-----------------------------------------------------------------------------
(* A login opens one session.                                               *)

\* The tokens a refresh has found valid and not yet exchanged.
Held == {t \in Token : \E r \in Request : /\ job[r].token = t
                                          /\ job[r].op = "refresh"
                                          /\ pc[r] \in {"select", "write", "sign", "insert"}}

\* The sessions: the tokens refresh() would accept, and those it exchanges.
Sessions == {t \in Token : ~Spent(t) /\ tokens[t] # None} \cup Held

Logins == {g \in grants : g.from = None}

SessionInv ==
  /\ IsFiniteSet(Sessions) /\ IsFiniteSet(grants)
  /\ Cardinality(Sessions) <= Cardinality(Logins)

\* What sessions a step may add.
LEMMA SessionsGrow ==
  ASSUME TokenInv, [Next]_vars,
         \A r \in Request : ~InsertToken(r)
  PROVE  Sessions' \subseteq Sessions /\ grants' = grants
<1>a. TokenInv /\ TypeOK
  BY DEF TokenInv
<1>1. grants' = grants
  BY DEF Next, Quiet, Tick, Login, Unknown, FindForRefresh, FindForLogout, Remove,
         SelectForSave, WriteRevocation, Sign, Abort, vars
<1>2. ASSUME NEW t \in Token, ~Spent(t)', tokens'[t] # None
      PROVE  ~Spent(t) /\ tokens[t] # None
  <2>1. Persists(t)
    BY <1>a, Persistence
  <2>2. ~Spent(t)
    BY <1>2, <2>1 DEF Persists
  <2>3. CASE tokens[t] = None
    <3>1. ASSUME NEW r \in Request, WriteRevocation(r)
          PROVE  FALSE
      <4>1. t = job[r].token /\ tokens'[t] = Saved(job[r], tokens[t]) /\ job[r] \in Job
            /\ (job[r].mode = "insert" => tokens[t] = None)
        BY <1>a, <1>2, <2>3, <3>1, RevocationFacts DEF TypeOK
      <4>2. tokens'[t].revoked
        BY <1>2, <2>3, <4>1, SavedFacts
      <4>3. QED
        BY <1>2, <4>2 DEF Spent
    <3>2. ASSUME NEW r \in Request, Remove(r)
          PROVE  tokens'[t] = None
      BY <1>a, <2>3, <3>2 DEF Remove, TypeOK
    <3>3. QED
      BY <1>2, <2>3, <3>1, <3>2 DEF Next, Quiet, Tick, Login, Unknown, FindForRefresh,
         FindForLogout, SelectForSave, Sign, Abort, vars
  <2>4. QED
    BY <2>2, <2>3
<1>3. ASSUME NEW t \in Held' PROVE t \in Sessions
  <2>1. PICK r \in Request : /\ job'[r].token = t /\ job'[r].op = "refresh"
                             /\ pc'[r] \in {"select", "write", "sign", "insert"}
    BY <1>3 DEF Held
  <2>2. t \in Token
    BY <1>3 DEF Held
  <2>3. InFlight(r)'
    BY <2>1 DEF InFlight
  <2>4. CASE Went(r)
    <3>1. t \in Held
      BY <2>1, <2>2, <2>4 DEF Went, Held, InFlight
    <3>2. QED
      BY <3>1 DEF Sessions
  <2>5. CASE Started(r)
    <3>1. Valid(t) /\ ~Expired(t)
      BY <1>a, <2>1, <2>5, FindFacts DEF Started
    <3>2. QED
      BY <2>2, <3>1 DEF Sessions, Valid, Spent
  <2>6. QED
    BY <1>a, <2>1, <2>2, <2>3, <2>4, <2>5, Flight, TokenFacts
<1>4. QED
  BY <1>1, <1>2, <1>3 DEF Sessions

\* A token inserted takes the place of the one it is exchanged for, or is the
\* token of a login.
LEMMA SessionInsert ==
  ASSUME TokenInv, AllAlone, NEW r \in Request, InsertToken(r), pc'[r] = "done"
  PROVE  /\ job[r].token = None =>
              /\ Sessions' \subseteq Sessions \cup {job[r].fresh}
              /\ job[r].fresh \in Sessions' \ Sessions =>
                   \A g \in grants : g.token # job[r].fresh
         /\ job[r].token # None =>
              /\ job[r].token \in Sessions
              /\ Sessions' \subseteq (Sessions \ {job[r].token}) \cup {job[r].fresh}
<1>a. /\ TokenInv /\ TypeOK /\ HandlerOK(r)
      /\ pc[r] = "insert" /\ job' = job /\ OthersStay(r) /\ now' = now
      /\ job[r].fresh \in Token /\ tokens[job[r].fresh] = None
      /\ tokens' = [tokens EXCEPT ![job[r].fresh] = NewRow(job[r].user)]
  BY InsertFacts DEF TokenInv, InsertToken
<1>1. ASSUME NEW t \in Token, t # job[r].fresh
      PROVE  tokens'[t] = tokens[t] /\ Spent(t)' = Spent(t)
  BY <1>a, <1>1 DEF TypeOK, Spent, Expired
<1>2. Held' \subseteq Held \ {job[r].token}
  <2>1. ASSUME NEW t \in Held'
        PROVE  t \in Held /\ t # job[r].token
    <3>1. PICK q \in Request : /\ job[q].token = t /\ job[q].op = "refresh"
                               /\ pc'[q] \in {"select", "write", "sign", "insert"}
                               /\ t \in Token
      BY <1>a, <2>1 DEF Held
    <3>2. q # r /\ pc'[q] = pc[q]
      BY <1>a, <3>1 DEF OthersStay
    <3>3. InFlight(q) /\ InFlight(r)
      BY <1>a, <3>1, <3>2 DEF InFlight
    <3>4. t # job[r].token
      BY <1>a, <3>1, <3>2, <3>3 DEF AllAlone, Alone
    <3>5. QED
      BY <3>1, <3>2, <3>4 DEF Held
  <2>2. QED
    BY <2>1
<1>3. CASE job[r].token = None
  <2>1. Sessions' \subseteq Sessions \cup {job[r].fresh}
    BY <1>1, <1>2 DEF Sessions
  <2>2. ASSUME NEW g \in grants, g.token = job[r].fresh, job[r].fresh \in Sessions' \ Sessions
        PROVE  FALSE
    <3>1. Expired(job[r].fresh)
      BY <1>a, <2>2 DEF TokenInv, GrantOK, Here
    <3>2. PICK f \in Token : f = job[r].fresh
      BY <1>a
    <3>3. Spent(f)'
      BY <1>a, <3>1, <3>2 DEF Spent, Expired
    <3>4. f \in Held
      BY <1>2, <2>2, <3>2, <3>3 DEF Sessions
    <3>5. QED
      BY <2>2, <3>2, <3>4 DEF Sessions
  <2>3. QED
    BY <1>3, <2>1, <2>2
<1>4. CASE job[r].token # None
  <2>1. job[r].token \in Token /\ Spent(job[r].token) /\ job[r].op = "refresh"
    BY <1>a, <1>4 DEF HandlerOK
  <2>2. job[r].token \in Sessions
    BY <1>a, <2>1 DEF Sessions, Held
  <2>3. ASSUME NEW t \in Sessions', t # job[r].fresh
        PROVE  t \in Sessions \ {job[r].token}
    <3>1. CASE t \in Held'
      BY <1>2, <3>1 DEF Sessions
    <3>2. CASE t \in Token /\ ~Spent(t)' /\ tokens'[t] # None
      BY <1>1, <2>1, <2>3, <3>2 DEF Sessions
    <3>3. QED
      BY <2>3, <3>1, <3>2 DEF Sessions
  <2>4. QED
    BY <1>4, <2>2, <2>3
<1>5. QED
  BY <1>3, <1>4

\* Sessions and logins keep their balance.
LEMMA SessionStep ==
  ASSUME TokenInv, AllAlone, SessionInv, [Next]_vars
  PROVE  SessionInv'
<1>0. /\ IsFiniteSet(Logins) /\ Cardinality(Logins) \in Nat /\ Cardinality(Sessions) \in Nat
      /\ IsFiniteSet(Sessions) /\ IsFiniteSet(grants)
      /\ Cardinality(Sessions) <= Cardinality(Logins)
  <2>1. Logins \subseteq grants
    BY DEF Logins
  <2>2. QED
    BY <2>1, FS_Subset, FS_CardinalityType DEF SessionInv
<1>1. CASE \A r \in Request : ~InsertToken(r)
  <2>1. Sessions' \subseteq Sessions /\ grants' = grants
    BY <1>1, SessionsGrow
  <2>2. Logins' = Logins
    BY <2>1 DEF Logins
  <2>3. /\ IsFiniteSet(Sessions') /\ Cardinality(Sessions') \in Nat
        /\ Cardinality(Sessions') <= Cardinality(Sessions)
    BY <1>0, <2>1, FS_Subset, FS_CardinalityType
  <2>4. QED
    BY <1>0, <2>1, <2>2, <2>3 DEF SessionInv
<1>2. ASSUME NEW r \in Request, InsertToken(r)
      PROVE  SessionInv'
  <2>0. TokenInv
    OBVIOUS
  <2>1. CASE pc'[r] = "failed" /\ tokens' = tokens /\ grants' = grants
    <3>1. job' = job /\ OthersStay(r) /\ now' = now
      BY <1>2, <2>0, InsertFacts DEF InsertToken
    <3>2. Held' \subseteq Held
      <4>1. ASSUME NEW t \in Token, NEW q \in Request, job'[q].token = t,
                   job'[q].op = "refresh", pc'[q] \in {"select", "write", "sign", "insert"}
            PROVE  t \in Held
        <5>1. q # r /\ pc'[q] = pc[q]
          BY <2>1, <3>1, <4>1 DEF OthersStay
        <5>2. QED
          BY <3>1, <4>1, <5>1 DEF Held
      <4>2. QED
        BY <4>1 DEF Held
    <3>3. Sessions' \subseteq Sessions
      BY <2>1, <3>1, <3>2 DEF Sessions, Spent, Expired
    <3>4. Logins' = Logins
      BY <2>1 DEF Logins
    <3>5. /\ IsFiniteSet(Sessions') /\ Cardinality(Sessions') \in Nat
          /\ Cardinality(Sessions') <= Cardinality(Sessions)
      BY <1>0, <3>3, FS_Subset, FS_CardinalityType
    <3>6. QED
      BY <1>0, <2>1, <3>4, <3>5 DEF SessionInv
  <2>2. CASE /\ pc'[r] = "done"
             /\ grants' = grants \cup {[from |-> job[r].token, token |-> job[r].fresh]}
    <3>1. PICK t, f : t = job[r].token /\ f = job[r].fresh
      OBVIOUS
    <3>2. PICK g : g = [from |-> t, token |-> f]
      OBVIOUS
    <3>3. grants' = grants \cup {g} /\ g.from = t /\ g.token = f
      BY <2>2, <3>1, <3>2
    <3>4. IsFiniteSet(grants') /\ IsFiniteSet(Logins')
      <4>1. IsFiniteSet(grants')
        BY <1>0, <3>3, FS_AddElement
      <4>2. Logins' \subseteq grants'
        BY DEF Logins
      <4>3. QED
        BY <4>1, <4>2, FS_Subset
    <3>5. CASE t # None
      <4>1. t \in Sessions /\ Sessions' \subseteq (Sessions \ {t}) \cup {f}
        BY <1>2, <2>2, <3>1, <3>5, SessionInsert
      <4>2. Logins' = Logins
        BY <3>3, <3>5 DEF Logins
      <4>3. /\ IsFiniteSet(Sessions \ {t})
            /\ Cardinality(Sessions \ {t}) = Cardinality(Sessions) - 1
        BY <1>0, <4>1, FS_RemoveElement
      <4>4. /\ IsFiniteSet((Sessions \ {t}) \cup {f})
            /\ \/ Cardinality((Sessions \ {t}) \cup {f}) = Cardinality(Sessions \ {t})
               \/ Cardinality((Sessions \ {t}) \cup {f}) = Cardinality(Sessions \ {t}) + 1
        BY <4>3, FS_AddElement
      <4>5. /\ IsFiniteSet(Sessions') /\ Cardinality(Sessions') \in Nat
            /\ Cardinality(Sessions') <= Cardinality((Sessions \ {t}) \cup {f})
        BY <4>1, <4>4, FS_Subset, FS_CardinalityType
      <4>6. Cardinality(Sessions') <= Cardinality(Logins')
        BY <1>0, <4>2, <4>3, <4>4, <4>5
      <4>7. QED
        BY <3>4, <4>5, <4>6 DEF SessionInv
    <3>6. CASE t = None
      <4>1. /\ Sessions' \subseteq Sessions \cup {f}
            /\ f \in Sessions' \ Sessions => \A h \in grants : h.token # f
        BY <1>2, <2>2, <3>1, <3>6, SessionInsert
      <4>2. Logins' = Logins \cup {g}
        BY <3>3, <3>6 DEF Logins
      <4>3. CASE f \in Sessions' \ Sessions
        <5>1. g \notin Logins
          BY <3>3, <4>1, <4>3 DEF Logins
        <5>2. Cardinality(Logins') = Cardinality(Logins) + 1
          BY <1>0, <4>2, <5>1, FS_AddElement
        <5>3. /\ IsFiniteSet(Sessions \cup {f})
              /\ Cardinality(Sessions \cup {f}) = Cardinality(Sessions) + 1
          BY <1>0, <4>3, FS_AddElement
        <5>4. /\ IsFiniteSet(Sessions') /\ Cardinality(Sessions') \in Nat
              /\ Cardinality(Sessions') <= Cardinality(Sessions \cup {f})
          BY <4>1, <5>3, FS_Subset, FS_CardinalityType
        <5>5. Cardinality(Sessions') <= Cardinality(Logins')
          BY <1>0, <5>2, <5>3, <5>4
        <5>6. QED
          BY <3>4, <5>4, <5>5 DEF SessionInv
      <4>4. CASE f \notin Sessions' \ Sessions
        <5>1. Sessions' \subseteq Sessions
          BY <4>1, <4>4
        <5>2. /\ IsFiniteSet(Sessions') /\ Cardinality(Sessions') \in Nat
              /\ Cardinality(Sessions') <= Cardinality(Sessions)
          BY <1>0, <5>1, FS_Subset, FS_CardinalityType
        <5>3. /\ Cardinality(Logins') \in Nat
              /\ Cardinality(Logins) <= Cardinality(Logins')
          BY <3>4, <4>2, FS_Subset, FS_CardinalityType
        <5>4. Cardinality(Sessions') <= Cardinality(Logins')
          BY <1>0, <5>2, <5>3
        <5>5. QED
          BY <3>4, <5>2, <5>4 DEF SessionInv
      <4>5. QED
        BY <4>3, <4>4
    <3>7. QED
      BY <3>5, <3>6
  <2>3. QED
    <3>1. TypeOK
      BY <2>0 DEF TokenInv
    <3>2. CASE Goto(r, "done") /\ grants' = grants \cup {[from |-> job[r].token, token |-> job[r].fresh]}
      BY <2>2, <3>1, <3>2 DEF Goto, TypeOK
    <3>3. CASE Goto(r, "failed") /\ UNCHANGED <<tokens, grants>>
      BY <2>1, <3>1, <3>3 DEF Goto, TypeOK
    <3>4. QED
      BY <1>2, <3>2, <3>3 DEF InsertToken
<1>3. QED
  BY <1>1, <1>2

\* A login opens one session: as long as no token is in two requests at once,
\* there are never more usable tokens than logins, whatever expires, fails or
\* stops.
THEOREM SessionsBalance == Spec /\ []AllAlone => []OneTokenPerLogin
<1>1. Init => SessionInv
  <2> SUFFICES ASSUME Init PROVE SessionInv
    OBVIOUS
  <2>1. Held = {} /\ Logins = {} /\ grants = {}
    BY DEF Init, Held, Logins
  <2>2. Sessions = {}
    BY <2>1 DEF Init, Sessions
  <2>3. QED
    BY <2>1, <2>2, FS_EmptySet DEF SessionInv
<1>2. TokenInv /\ AllAlone /\ SessionInv /\ [Next]_vars => SessionInv'
  BY SessionStep
<1>3. TokenInv /\ SessionInv => OneTokenPerLogin
  <2> SUFFICES ASSUME TokenInv, SessionInv PROVE OneTokenPerLogin
    OBVIOUS
  <2>1. {t \in Token : lifeBar[t] = "live"} \subseteq Sessions
    BY LifeFacts DEF Sessions, TokenInv
  <2>2. Logins \subseteq grants
    BY DEF Logins
  <2>3. /\ IsFiniteSet(Sessions) /\ Cardinality(Sessions) \in Nat
        /\ Cardinality({t \in Token : lifeBar[t] = "live"}) <= Cardinality(Sessions)
        /\ Cardinality({t \in Token : lifeBar[t] = "live"}) \in Nat
    BY <2>1, FS_Subset, FS_CardinalityType DEF SessionInv
  <2>4. Cardinality(Logins) \in Nat
    BY <2>2, FS_Subset, FS_CardinalityType DEF SessionInv
  <2>5. QED
    BY <2>3, <2>4 DEF SessionInv, OneTokenPerLogin, Logins
<1>4. QED
  BY <1>1, <1>2, <1>3, TokenInvariant, PTL DEF Spec

\* The same of an environment that promises never to overlap two requests with
\* one token.
THEOREM OneSessionPerLogin ==
  ASSUME ~Overlap
  PROVE  Spec => []OneTokenPerLogin
BY NoOverlapAlone, SessionsBalance, PTL
=============================================================================
