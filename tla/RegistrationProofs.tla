------------------------- MODULE RegistrationProofs -------------------------
(***************************************************************************)
(* Proofs about Registration, for any number of emails, passwords and      *)
(* requests.                                                               *)
(***************************************************************************)
EXTENDS Registration, TLAPS

\* The unique column: no two rows have one email.
Unique ==
  \A q, r \in Request :
    users[q] # None /\ users[r] # None /\ users[q].email = users[r].email => q = r

\* What request r knows of the table, at each of its steps and answers.
HandlerOK(r) ==
  LET j == job[r]
  IN  /\ pc[r] \in {"insert", "answer", "created"} =>
           j.email \in Email /\ j.password \in Password
      /\ pc[r] \in {"new", "insert"} => users[r] = None
      /\ pc[r] \in {"answer", "created"} => users[r] = NewUser(j)
      /\ pc[r] = "exists" => Found(j.email) \ {r} # {}
      /\ pc[r] \in {"compare", "welcome"} => j.user \in Found(j.email)
      /\ pc[r] = "welcome" => users[j.user].password = j.password
      /\ pc[r] = "unauthorized" => ~j.known

\* A request that came after the 201 can still name the request that got it.
KnownOK(r) == job[r].known => Registered(job[r].email, job[r].password)

RegInv ==
  /\ TypeOK
  /\ Unique
  /\ \A r \in Request : HandlerOK(r) /\ KnownOK(r)

-----------------------------------------------------------------------------
LEMMA RowFacts ==
  ASSUME NEW row \in Row
  PROVE  /\ row # None
         /\ row.email \in Email /\ row.password \in Password /\ row.role \in Role
BY RegistrationAssumption DEF Row

\* The row of a registration has the email and the password of its body.
LEMMA NewUserFacts ==
  ASSUME NEW j \in Job, j.email \in Email, j.password \in Password
  PROVE  /\ NewUser(j) \in Row
         /\ NewUser(j).email = j.email
         /\ NewUser(j).password = j.password
BY DEF NewUser, Row, Job, Role

\* What the handlers note of the body of a request.
LEMMA JobFacts ==
  ASSUME NEW e \in Email, NEW p \in Password, NEW o \in Role \cup {None},
         NEW q \in Request \cup {None}
  PROVE  /\ RegisterJob(e, p, o) \in Job
         /\ LoginJob(e, p, q) \in Job
BY DEF Job, RegisterJob, LoginJob, Registered

LEMMA FoundFacts ==
  ASSUME NEW e
  PROVE  \A q \in Request : q \in Found(e) <=> users[q] # None /\ users[q].email = e
BY DEF Found

LEMMA TypeInit == Init => TypeOK
BY DEF Init, TypeOK, NoJob, Job

LEMMA TypeStep ==
  ASSUME TypeOK, \A r \in Request : HandlerOK(r), [Next]_vars
  PROVE  TypeOK'
<1> USE DEF TypeOK
<1>1. ASSUME NEW r \in Request, FindForRegister(r)
      PROVE  TypeOK'
  <2>1. PICK e \in Email, p \in Password, o \in Role \cup {None} :
           /\ job' = [job EXCEPT ![r] = RegisterJob(e, p, o)]
           /\ Goto(r, IF Found(e) # {} THEN "exists" ELSE "insert")
    BY <1>1 DEF FindForRegister
  <2>2. RegisterJob(e, p, o) \in Job
    BY JobFacts
  <2>3. QED
    BY <1>1, <2>1, <2>2 DEF FindForRegister, Goto, Ended
<1>2. ASSUME NEW r \in Request, InsertUser(r)
      PROVE  TypeOK'
  <2>1. NewUser(job[r]) \in Row
    <3>1. job[r] \in Job
      OBVIOUS
    <3>2. job[r].email \in Email /\ job[r].password \in Password
      BY <1>2 DEF InsertUser, HandlerOK
    <3>3. QED
      BY <3>1, <3>2, NewUserFacts
  <2>2. QED
    BY <1>2, <2>1 DEF InsertUser, Goto, Ended
<1>3. ASSUME NEW r \in Request, FindForLogin(r)
      PROVE  TypeOK'
  <2>1. PICK e \in Email, p \in Password, q \in Request \cup {None} :
          /\ job' = [job EXCEPT ![r] = LoginJob(e, p, q)]
          /\ Goto(r, "unauthorized") \/ Goto(r, "compare")
    BY <1>3 DEF FindForLogin, Found
  <2>2. LoginJob(e, p, q) \in Job
    BY JobFacts
  <2>3. QED
    BY <1>3, <2>1, <2>2 DEF FindForLogin, Goto, Ended
<1>4. ASSUME NEW r \in Request, Answer(r) \/ Compare(r) \/ Abort(r)
      PROVE  TypeOK'
  BY <1>4 DEF Answer, Compare, Abort, Goto, Ended
<1>5. CASE Quiet \/ UNCHANGED vars
  BY <1>5 DEF Quiet, vars
<1>6. QED
  BY <1>1, <1>2, <1>3, <1>4, <1>5 DEF Next

-----------------------------------------------------------------------------
(* What no step undoes: rows stay as they were inserted, and so do the        *)
(* answers and the locals of a request that has been answered.                *)

LEMMA RowsStay ==
  ASSUME TypeOK, \A r \in Request : HandlerOK(r), [Next]_vars
  PROVE  \A q \in Request : users[q] # None => users'[q] = users[q]
<1> USE DEF TypeOK
<1>1. ASSUME NEW r \in Request, InsertUser(r)
      PROVE  \A q \in Request : users[q] # None => users'[q] = users[q]
  <2>1. users[r] = None
    BY <1>1 DEF InsertUser, HandlerOK
  <2>2. QED
    BY <1>1, <2>1 DEF InsertUser
<1>2. CASE UNCHANGED users
  BY <1>2
<1>3. QED
  BY <1>1, <1>2
     DEF Next, FindForRegister, Answer, FindForLogin, Compare, Abort, Quiet, vars

LEMMA OthersStay ==
  ASSUME TypeOK, [Next]_vars
  PROVE  \A r \in Request :
           \/ pc'[r] = pc[r] /\ job'[r] = job[r] /\ (pc[r] # "insert" => users'[r] = users[r])
           \/ /\ pc[r] \notin Ended
              /\ pc[r] # "new" => job'[r] = job[r]
<1> USE DEF TypeOK
<1>1. ASSUME NEW q \in Request,
             FindForRegister(q) \/ InsertUser(q) \/ Answer(q)
               \/ FindForLogin(q) \/ Compare(q) \/ Abort(q)
      PROVE  /\ pc[q] \notin Ended
             /\ pc[q] # "new" => job'[q] = job[q]
             /\ \A r \in Request \ {q} :
                  pc'[r] = pc[r] /\ job'[r] = job[r] /\ users'[r] = users[r]
  <2>1. pc[q] \notin Ended
    BY <1>1 DEF FindForRegister, InsertUser, Answer, FindForLogin, Compare, Abort,
                InFlight, Ended
  <2>2. pc[q] # "new" => job'[q] = job[q]
    BY <1>1 DEF FindForRegister, InsertUser, Answer, FindForLogin, Compare, Abort
  <2>3. ASSUME NEW r \in Request \ {q}
        PROVE  pc'[r] = pc[r] /\ job'[r] = job[r] /\ users'[r] = users[r]
    BY <1>1 DEF FindForRegister, InsertUser, Answer, FindForLogin, Compare, Abort, Goto
  <2>4. QED
    BY <2>1, <2>2, <2>3
<1>2. CASE Quiet \/ UNCHANGED vars
  BY <1>2 DEF Quiet, vars
<1>3. QED
  BY <1>1, <1>2 DEF Next

\* A 201, once answered, is there for good.
LEMMA RegisteredStays ==
  ASSUME TypeOK, [Next]_vars, NEW e, NEW p, Registered(e, p)
  PROVE  Registered(e, p)'
<1>1. PICK q \in Request :
        pc[q] = "created" /\ job[q].email = e /\ job[q].password = p
  BY DEF Registered
<1>2. pc'[q] = "created" /\ job'[q] = job[q]
  BY <1>1, OthersStay DEF Ended
<1>3. QED
  BY <1>1, <1>2 DEF Registered

\* An account that was found is found again, and has the same password.
LEMMA FoundStays ==
  ASSUME TypeOK, \A r \in Request : HandlerOK(r), [Next]_vars, NEW e
  PROVE  Found(e) \subseteq Found(e)'
BY RowsStay DEF Found

\* A 201 that was answered means that the row is there.
LEMMA RegisteredIsFound ==
  ASSUME RegInv, NEW e, NEW p, Registered(e, p)
  PROVE  \E q \in Found(e) : users[q].password = p
<1>1. PICK q \in Request :
        pc[q] = "created" /\ job[q].email = e /\ job[q].password = p
  BY DEF Registered
<1>2. /\ users[q] = NewUser(job[q])
      /\ job[q] \in Job /\ job[q].email \in Email /\ job[q].password \in Password
  BY <1>1 DEF RegInv, TypeOK, HandlerOK
<1>3. /\ NewUser(job[q]) # None
      /\ NewUser(job[q]).email = e /\ NewUser(job[q]).password = p
  BY <1>1, <1>2, NewUserFacts, RowFacts
<1>4. QED
  BY <1>2, <1>3 DEF Found

\* The row that InsertUser adds.
LEMMA InsertFacts ==
  ASSUME RegInv, NEW r \in Request, InsertUser(r), users' # users
  PROVE  /\ Insertable(job[r].email)
         /\ users' = [users EXCEPT ![r] = NewUser(job[r])]
         /\ NewUser(job[r]) \in Row
         /\ NewUser(job[r]).email = job[r].email
         /\ \A q \in Request : users[q] # None => users[q].email # job[r].email
<1>1. job[r] \in Job /\ job[r].email \in Email /\ job[r].password \in Password
  BY DEF InsertUser, RegInv, TypeOK, HandlerOK
<1>2. QED
  BY <1>1, NewUserFacts DEF InsertUser, Insertable, Found

LEMMA UniqueStep ==
  ASSUME RegInv, [Next]_vars
  PROVE  Unique'
<1>1. ASSUME NEW r \in Request, InsertUser(r), users' # users
      PROVE  Unique'
  <2>1. Unique /\ users \in [Request -> Row \cup {None}]
    BY DEF RegInv, TypeOK
  <2>2. SUFFICES ASSUME NEW p \in Request, NEW q \in Request,
                        users'[p] # None, users'[q] # None,
                        users'[p].email = users'[q].email
                 PROVE  p = q
    BY DEF Unique
  <2>3. CASE p # r /\ q # r
    BY <1>1, <2>1, <2>2, <2>3, InsertFacts DEF Unique
  <2>4. CASE p = r \/ q = r
    BY <1>1, <2>1, <2>2, <2>4, InsertFacts
  <2>5. QED
    BY <2>3, <2>4
<1>2. CASE UNCHANGED users
  BY <1>2 DEF RegInv, Unique
<1>3. QED
  BY <1>1, <1>2
     DEF Next, FindForRegister, InsertUser, Answer, FindForLogin, Compare, Abort,
         Quiet, vars

-----------------------------------------------------------------------------
LEMMA HandlerStays ==
  ASSUME RegInv, [Next]_vars, NEW r \in Request,
         pc'[r] = pc[r], job'[r] = job[r], users'[r] = users[r]
  PROVE  HandlerOK(r)'
<1>1. HandlerOK(r) /\ TypeOK /\ (\A q \in Request : HandlerOK(q))
  BY DEF RegInv
<1>2. Found(job[r].email) \subseteq Found(job[r].email)'
  BY <1>1, FoundStays
<1>3. job[r].user \in Found(job[r].email) =>
        users'[job[r].user] = users[job[r].user]
  BY <1>1, RowsStay DEF Found
<1>4. QED
  BY <1>1, <1>2, <1>3 DEF HandlerOK, NewUser, Found

LEMMA HandlerStep ==
  ASSUME RegInv, [Next]_vars, NEW r \in Request
  PROVE  HandlerOK(r)'
<1>1. HandlerOK(r) /\ TypeOK
  BY DEF RegInv
<1> USE DEF TypeOK
<1>2. CASE FindForRegister(r)
  <2>1. PICK e \in Email, p \in Password, o \in Role \cup {None} :
           /\ job' = [job EXCEPT ![r] = RegisterJob(e, p, o)]
           /\ Goto(r, IF Found(e) # {} THEN "exists" ELSE "insert")
    BY <1>2 DEF FindForRegister
  <2>2. job'[r].email = e /\ job'[r].password = p
    BY <1>1, <2>1 DEF RegisterJob
  <2>3. users' = users /\ users[r] = None
    BY <1>1, <1>2 DEF FindForRegister, HandlerOK
  <2>4. r \notin Found(e) /\ Found(e)' = Found(e)
    BY <2>3 DEF Found
  <2>5. CASE Found(e) # {}
    BY <1>1, <2>1, <2>2, <2>3, <2>4, <2>5 DEF HandlerOK, Goto, Found
  <2>6. CASE Found(e) = {}
    BY <1>1, <2>1, <2>2, <2>3, <2>4, <2>6 DEF HandlerOK, Goto
  <2>7. QED
    BY <2>5, <2>6
<1>3. CASE InsertUser(r)
  <2>1. job' = job /\ pc'[r] \in {"answer", "failed"}
    BY <1>1, <1>3 DEF InsertUser, Goto
  <2>2. CASE pc'[r] = "answer"
    <3>1. Insertable(job[r].email) /\ users' = [users EXCEPT ![r] = NewUser(job[r])]
      BY <1>1, <1>3, <2>2 DEF InsertUser, Goto
    <3>2. QED
      BY <1>1, <1>3, <2>1, <2>2, <3>1 DEF HandlerOK, InsertUser, NewUser
  <2>3. CASE pc'[r] = "failed"
    BY <2>3 DEF HandlerOK
  <2>4. QED
    BY <2>1, <2>2, <2>3
<1>4. CASE Answer(r)
  BY <1>1, <1>4 DEF Answer, Goto, HandlerOK, NewUser
<1>5. CASE FindForLogin(r)
  <2>1. PICK e \in Email, p \in Password :
          \/ /\ Found(e) = {}
             /\ job' = [job EXCEPT ![r] = LoginJob(e, p, None)]
             /\ Goto(r, "unauthorized")
          \/ /\ \E q \in Found(e) : job' = [job EXCEPT ![r] = LoginJob(e, p, q)]
             /\ Goto(r, "compare")
    BY <1>5 DEF FindForLogin
  <2>2. CASE Found(e) = {} /\ job' = [job EXCEPT ![r] = LoginJob(e, p, None)]
               /\ Goto(r, "unauthorized")
    <3>1. ~Registered(e, p)
      BY <2>2, RegisteredIsFound
    <3>2. pc'[r] = "unauthorized" /\ job'[r] = LoginJob(e, p, None)
      BY <1>1, <2>2 DEF Goto
    <3>3. ~job'[r].known
      BY <3>1, <3>2 DEF LoginJob
    <3>4. QED
      BY <3>2, <3>3 DEF HandlerOK
  <2>3. CASE /\ \E q \in Found(e) : job' = [job EXCEPT ![r] = LoginJob(e, p, q)]
             /\ Goto(r, "compare")
    <3>1. PICK q \in Found(e) : job' = [job EXCEPT ![r] = LoginJob(e, p, q)]
      BY <2>3
    <3>2. pc'[r] = "compare" /\ job'[r].email = e /\ job'[r].user = q
      BY <1>1, <2>3, <3>1 DEF Goto, LoginJob
    <3>3. Found(e)' = Found(e)
      BY <1>5 DEF FindForLogin, Found
    <3>4. QED
      BY <3>1, <3>2, <3>3 DEF HandlerOK, Found
  <2>4. QED
    BY <2>1, <2>2, <2>3
<1>6. CASE Compare(r)
  <2>0. CASE pc'[r] = "failed"
    BY <2>0 DEF HandlerOK
  <2>1. job' = job /\ users' = users /\ job[r].user \in Found(job[r].email)
    BY <1>1, <1>6 DEF Compare, HandlerOK
  <2>2. CASE pc'[r] # "failed" /\ Welcomes(job[r])
    BY <1>1, <1>6, <2>1, <2>2 DEF Compare, Goto, Welcomes, HandlerOK, Found
  <2>3. CASE pc'[r] # "failed" /\ ~Welcomes(job[r])
    <3>1. pc'[r] = "unauthorized"
      BY <1>1, <1>6, <2>3 DEF Compare, Goto
    <3>2. ~Registered(job[r].email, job[r].password)
      <4>1. SUFFICES ASSUME Registered(job[r].email, job[r].password)
                     PROVE  FALSE
        OBVIOUS
      <4>2. PICK q \in Found(job[r].email) : users[q].password = job[r].password
        BY <4>1, RegisteredIsFound
      <4>3. q = job[r].user
        BY <2>1, <4>2 DEF Found, RegInv, Unique
      <4>4. QED
        BY <2>3, <4>2, <4>3 DEF Welcomes
    <3>3. ~job[r].known
      BY <3>2 DEF RegInv, KnownOK
    <3>4. QED
      BY <2>1, <3>1, <3>3 DEF HandlerOK
  <2>4. QED
    BY <2>0, <2>2, <2>3
<1>7. CASE Abort(r)
  BY <1>1, <1>7 DEF Abort, Goto, HandlerOK
<1>8. ASSUME NEW q \in Request \ {r},
             FindForRegister(q) \/ InsertUser(q) \/ Answer(q)
               \/ FindForLogin(q) \/ Compare(q) \/ Abort(q)
      PROVE  HandlerOK(r)'
  <2>1. pc'[r] = pc[r] /\ job'[r] = job[r] /\ users'[r] = users[r]
    BY <1>1, <1>8
       DEF FindForRegister, InsertUser, Answer, FindForLogin, Compare, Abort, Goto
  <2>2. QED
    BY <2>1, HandlerStays
<1>9. CASE Quiet \/ UNCHANGED vars
  BY <1>9, HandlerStays DEF Quiet, vars
<1>10. QED
  BY <1>2, <1>3, <1>4, <1>5, <1>6, <1>7, <1>8, <1>9 DEF Next

LEMMA KnownStep ==
  ASSUME RegInv, [Next]_vars, NEW r \in Request
  PROVE  KnownOK(r)'
<1>1. KnownOK(r) /\ TypeOK
  BY DEF RegInv
<1>2. CASE job'[r] = job[r]
  BY <1>1, <1>2, RegisteredStays DEF KnownOK
<1>3. CASE FindForRegister(r)
  <2>1. PICK e \in Email, p \in Password, o \in Role \cup {None} :
          job' = [job EXCEPT ![r] = RegisterJob(e, p, o)]
    BY <1>3 DEF FindForRegister
  <2>2. ~job'[r].known
    BY <1>1, <2>1 DEF TypeOK, RegisterJob
  <2>3. QED
    BY <2>2 DEF KnownOK
<1>4. CASE FindForLogin(r)
  <2>1. PICK e \in Email, p \in Password, q \in Request \cup {None} :
          job' = [job EXCEPT ![r] = LoginJob(e, p, q)]
    BY <1>4 DEF FindForLogin, Found
  <2>2. /\ job'[r].email = e /\ job'[r].password = p
        /\ job'[r].known => Registered(e, p)
    BY <1>1, <2>1 DEF TypeOK, LoginJob
  <2>3. QED
    BY <1>1, <2>2, RegisteredStays DEF KnownOK
<1>5. job'[r] = job[r] \/ FindForRegister(r) \/ FindForLogin(r)
  <2>1. ASSUME NEW q \in Request \ {r}, FindForRegister(q) \/ FindForLogin(q)
        PROVE  job'[r] = job[r]
    BY <1>1, <2>1 DEF FindForRegister, FindForLogin, TypeOK
  <2>2. QED
    BY <2>1 DEF Next, InsertUser, Answer, Compare, Abort, Quiet, vars
<1>6. QED
  BY <1>2, <1>3, <1>4, <1>5

LEMMA RegInvariant == Spec => []RegInv
<1>1. Init => RegInv
  BY TypeInit DEF Init, RegInv, Unique, HandlerOK, KnownOK, NoJob
<1>2. RegInv /\ [Next]_vars => RegInv'
  BY TypeStep, UniqueStep, HandlerStep, KnownStep DEF RegInv
<1>3. QED
  BY <1>1, <1>2, PTL DEF Spec

-----------------------------------------------------------------------------
\* The rows of "users" and the locals of each handler always have their types.
THEOREM TypeCorrect == Spec => []TypeOK
<1>1. RegInv => TypeOK
  BY DEF RegInv
<1>2. QED
  BY <1>1, RegInvariant, PTL

\* Of the racing registrations of one email at most one is told 201, and none
\* when somebody else's row is there; who is told 400 has lost to another.
THEOREM OneIsTold == Spec => []OneWinner
<1>1. ASSUME RegInv, NEW r \in Request, pc[r] = "created"
      PROVE  /\ users[r] = NewUser(job[r])
             /\ users[r] # None
             /\ users[r].email = job[r].email
  <2>1. job[r] \in Job /\ job[r].email \in Email /\ job[r].password \in Password
    BY <1>1 DEF RegInv, TypeOK, HandlerOK
  <2>2. QED
    BY <1>1, <2>1, NewUserFacts, RowFacts DEF RegInv, HandlerOK
<1>2. ASSUME RegInv, NEW r \in Request, users[r] # None,
             NEW q \in Request, pc[q] = "created", job[q].email = users[r].email
      PROVE  q = r
  BY <1>1, <1>2 DEF RegInv, Unique
<1>3. RegInv => OneWinner
  BY <1>1, <1>2 DEF OneWinner, RegInv, HandlerOK
<1>4. QED
  BY <1>3, RegInvariant, PTL

\* A login with the credentials of a registration answered with 201 is never
\* refused.
THEOREM RegisteredIsWelcome == Spec => []RegisteredMayLogin
<1>1. RegInv => RegisteredMayLogin
  BY DEF RegInv, HandlerOK, RegisteredMayLogin
<1>2. QED
  BY <1>1, RegInvariant, PTL

\* Who is welcomed gave the password of the only account of the email.
THEOREM WelcomedIsOwner == Spec => []WelcomeIsOwner
<1>1. RegInv => WelcomeIsOwner
  <2>1. SUFFICES ASSUME RegInv, NEW r \in Request, pc[r] = "welcome"
                 PROVE  /\ Found(job[r].email) = {job[r].user}
                        /\ users[job[r].user].password = job[r].password
    BY DEF WelcomeIsOwner
  <2>2. job[r].user \in Found(job[r].email)
        /\ users[job[r].user].password = job[r].password
    BY <2>1 DEF RegInv, HandlerOK
  <2>3. QED
    BY <2>1, <2>2 DEF RegInv, Unique, Found
<1>2. QED
  BY <1>1, RegInvariant, PTL

-----------------------------------------------------------------------------
(* The refinement. *)

Account(u) == [password |-> u.password, role |-> u.role]

\* An email has the account of its row.
LEMMA AccountFacts ==
  ASSUME RegInv
  PROVE  /\ accountBar = [e \in Email |-> accountBar[e]]
         /\ \A e \in Email : Found(e) = {} => accountBar[e] = None
         /\ \A e \in Email : \A q \in Found(e) : accountBar[e] = Account(users[q])
<1>1. ASSUME NEW e \in Email, NEW q \in Found(e)
      PROVE  accountBar[e] = Account(users[q])
  <2>1. Found(e) = {q}
    BY <1>1 DEF RegInv, Unique, Found
  <2>2. (CHOOSE p \in Found(e) : TRUE) = q
    BY <2>1
  <2>3. QED
    BY <2>1, <2>2 DEF accountBar, Account
<1>2. QED
  BY <1>1 DEF accountBar

LEMMA AccountFactsNext ==
  ASSUME RegInv'
  PROVE  /\ accountBar' = [e \in Email |-> accountBar'[e]]
         /\ \A e \in Email : Found(e)' = {} => accountBar'[e] = None
         /\ \A e \in Email : \A q \in Found(e)' : accountBar'[e] = Account(users'[q])
<1>1. ASSUME NEW e \in Email, NEW q \in Found(e)'
      PROVE  accountBar'[e] = Account(users'[q])
  <2>1. Found(e)' = {q}
    BY <1>1 DEF RegInv, Unique, Found
  <2>2. (CHOOSE p \in Found(e)' : TRUE) = q
    BY <2>1
  <2>3. QED
    BY <2>1, <2>2 DEF accountBar, Account
<1>2. QED
  BY <1>1 DEF accountBar

\* A step that leaves the table alone leaves the accounts alone.
LEMMA AccountsStay ==
  ASSUME users' = users
  PROVE  accountBar' = accountBar
BY DEF accountBar, Found

LEMMA AccountStep ==
  ASSUME RegInv, RegInv', [Next]_vars
  PROVE  [AC!Next]_accountBar
<1>1. ASSUME NEW r \in Request, NEW e, NEW u,
             e = job[r].email, u = NewUser(job[r]), InsertUser(r), users' # users
      PROVE  AC!Next
  <2>1. /\ users' = [users EXCEPT ![r] = u]
        /\ Insertable(e) /\ u \in Row /\ u.email = e
        /\ \A q \in Request : users[q] # None => users[q].email # e
    BY <1>1, InsertFacts
  <2>2. /\ users \in [Request -> Row \cup {None}]
        /\ e \in Email /\ users[r] = None
    BY <1>1 DEF RegInv, TypeOK, HandlerOK, InsertUser
  <2>3. Account(u) \in [password : Password, role : Role]
    <3>1. u.password \in Password /\ u.role \in Role
      BY <2>1, RowFacts
    <3>2. QED
      BY <3>1 DEF Account
  <2>4. Found(e) = {} /\ r \in Found(e)' /\ users'[r] = u
    <3>1. u # None
      BY <2>1, RowFacts
    <3>2. QED
      BY <2>1, <2>2, <3>1 DEF Found, Insertable
  <2>5. accountBar[e] = None /\ accountBar'[e] = Account(u)
    BY <2>2, <2>4, AccountFacts, AccountFactsNext
  <2>6. ASSUME NEW d \in Email \ {e}
        PROVE  accountBar'[d] = accountBar[d]
    <3>1. Found(d)' = Found(d)
      BY <2>1, <2>2 DEF Found
    <3>2. CASE Found(d) = {}
      BY <3>1, <3>2, AccountFacts, AccountFactsNext
    <3>3. CASE Found(d) # {}
      <4>1. PICK q \in Found(d) : TRUE
        BY <3>3
      <4>2. users'[q] = users[q]
        BY <2>1, <2>2, <4>1 DEF Found
      <4>3. QED
        BY <3>1, <4>1, <4>2, AccountFacts, AccountFactsNext
    <3>4. QED
      BY <3>2, <3>3
  <2>7. accountBar' = [accountBar EXCEPT ![e] = Account(u)]
    BY <2>2, <2>5, <2>6, AccountFacts, AccountFactsNext
  <2>8. AC!Register(e, Account(u))
    BY <2>5, <2>7 DEF AC!Register
  <2>9. QED
    BY <2>2, <2>3, <2>8 DEF AC!Next
<1>2. CASE users' = users
  BY <1>2, AccountsStay
<1>3. QED
  BY <1>1, <1>2
     DEF Next, FindForRegister, InsertUser, Answer, FindForLogin, Compare, Abort,
         Quiet, vars

\* The handlers implement the abstract accounts, whatever races and fails.
THEOREM RefinesAccounts == Spec => ImplementsAccounts
<1>1. Init => AC!Init
  BY DEF Init, AC!Init, accountBar, Found
<1>2. RegInv /\ RegInv' /\ [Next]_vars => [AC!Next]_accountBar
  BY AccountStep
<1>3. QED
  BY <1>1, <1>2, RegInvariant, PTL DEF Spec, ImplementsAccounts, AC!Spec
=============================================================================
