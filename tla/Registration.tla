---------------------------- MODULE Registration ----------------------------
(***************************************************************************)
(* Registration and the check of credentials in the auth service           *)
(* (apps/auth-service): the handlers of POST /auth/register and of         *)
(* POST /auth/login up to its tokens, running concurrently against the     *)
(* "users" table.  What login does next is in RefreshTokens.               *)
(*                                                                         *)
(* A handler is cut at its awaits.  Hashing and comparing a password take  *)
(* long and change nothing: they only keep the handler between two steps.  *)
(***************************************************************************)
EXTENDS Naturals

CONSTANTS
  Email,      \* the emails that occur in requests
  Password,   \* passwords, as far as bcrypt tells them apart
  Request,    \* the HTTP requests made, each one handled once
  Faults,     \* TRUE: a process may stop, a call may be rejected
  None        \* absence of a row, or of a field of the body

Role == {"user", "admin"}

ASSUME RegistrationAssumption ==
  /\ None \notin Email \cup Password \cup Role \cup Request
  /\ None \notin [email : Email, password : Password, role : Role]
  /\ None \notin [password : Password, role : Role]
  /\ Faults \in BOOLEAN

VARIABLES
  users,   \* users[r]: the row that request r has inserted, or None
  pc,      \* pc[r]: the next step of request r, or its answer
  job      \* job[r]: the body of request r and the locals of its handler

vars == <<users, pc, job>>

-----------------------------------------------------------------------------
\* passwordHash is told apart by the password it was made from.
Row == [email : Email, password : Password, role : Role]

\* The body; the row login() has found, named by the request that inserted
\* it; and whether a registration of just this email and password had been
\* answered with 201 when the request came (history, read by no action).
Job == [email : Email \cup {None}, password : Password \cup {None},
        role : Role \cup {None}, user : Request \cup {None}, known : BOOLEAN]

NoJob ==
  [email |-> None, password |-> None, role |-> None, user |-> None, known |-> FALSE]

InFlight(r) == pc[r] \in {"insert", "answer", "compare"}

\* 201, 400, 500, 200, 401; or no answer at all
Ended == {"created", "exists", "failed", "welcome", "unauthorized", "aborted"}

\* findOne({email})
Found(e) == {q \in Request : users[q] # None /\ users[q].email = e}

\* Mutant of Insertable: the column email without "unique: true".
InsertableAlways(e) == TRUE

\* The column is unique.
Insertable(e) == Found(e) = {}

\* Mutant of NewUser: the role column without a default.
NewUserNoDefault(j) == [email |-> j.email, password |-> j.password, role |-> j.role]

\* The role of the body, or the default of the column.
NewUser(j) ==
  [email |-> j.email, password |-> j.password,
   role |-> IF j.role = None THEN "user" ELSE j.role]

\* Mutant of Welcomes: the result of bcrypt.compare() is not awaited.
WelcomesAlways(j) == TRUE

\* bcrypt.compare() of the password of the body with the row found
Welcomes(j) == users[j.user].password = j.password

Registered(e, p) ==
  \E q \in Request :
    pc[q] = "created" /\ job[q].email = e /\ job[q].password = p

RegisterJob(e, p, o) ==
  [email |-> e, password |-> p, role |-> o, user |-> None, known |-> FALSE]

LoginJob(e, p, q) ==
  [email |-> e, password |-> p, role |-> None, user |-> q,
   known |-> Registered(e, p)]

-----------------------------------------------------------------------------
Init ==
  /\ users = [r \in Request |-> None]
  /\ pc = [r \in Request |-> "new"]
  /\ job = [r \in Request |-> NoJob]

Goto(r, step) == pc' = [pc EXCEPT ![r] = step]

\* register(), up to the await of save(): 400 when the email is found.
FindForRegister(r) ==
  /\ pc[r] = "new"
  /\ \E e \in Email, p \in Password, o \in Role \cup {None} :
       /\ job' = [job EXCEPT ![r] = RegisterJob(e, p, o)]
       /\ Goto(r, IF Found(e) # {} THEN "exists" ELSE "insert")
  /\ UNCHANGED users

\* save(user): the INSERT, rejected when another request has been faster.  The
\* catch clause answers 500 to that as to any other error of save(), and of
\* those some come when the row is there, as a connection lost after COMMIT.
InsertUser(r) ==
  LET e == job[r].email
  IN  /\ pc[r] = "insert"
      /\ \/ /\ Insertable(e)
            /\ users' = [users EXCEPT ![r] = NewUser(job[r])]
            /\ Goto(r, "answer") \/ (Faults /\ Goto(r, "failed"))
         \/ /\ ~Insertable(e) \/ Faults
            /\ Goto(r, "failed")
            /\ UNCHANGED users
      /\ UNCHANGED job

\* register() returns; the client gets 201.
Answer(r) ==
  /\ pc[r] = "answer"
  /\ Goto(r, "created")
  /\ UNCHANGED <<users, job>>

\* login(), up to the await of compare(): 401 when the email is not found.
FindForLogin(r) ==
  /\ pc[r] = "new"
  /\ \E e \in Email, p \in Password :
       \/ /\ Found(e) = {}
          /\ job' = [job EXCEPT ![r] = LoginJob(e, p, None)]
          /\ Goto(r, "unauthorized")
       \/ /\ \E q \in Found(e) : job' = [job EXCEPT ![r] = LoginJob(e, p, q)]
          /\ Goto(r, "compare")
  /\ UNCHANGED users

\* login(), from compare() on: 401, or on to the tokens of the user found; 500
\* when compare() is rejected.
Compare(r) ==
  /\ pc[r] = "compare"
  /\ \/ Goto(r, IF Welcomes(job[r]) THEN "welcome" ELSE "unauthorized")
     \/ Faults /\ Goto(r, "failed")
  /\ UNCHANGED <<users, job>>

\* SIGTERM ends the process; after the INSERT the account exists, and its owner
\* has not been told.
Abort(r) ==
  /\ Faults
  /\ InFlight(r)
  /\ Goto(r, "aborted")
  /\ UNCHANGED <<users, job>>

\* Every request of this instance has been handled.
Quiet ==
  /\ \A r \in Request : pc[r] \in Ended
  /\ UNCHANGED vars

Next ==
  \/ \E r \in Request :
       \/ FindForRegister(r) \/ InsertUser(r) \/ Answer(r)
       \/ FindForLogin(r) \/ Compare(r) \/ Abort(r)
  \/ Quiet

Spec == Init /\ [][Next]_vars

-----------------------------------------------------------------------------
\* The type invariant: the shape of the rows of "users" and of the locals of
\* each handler.
TypeOK ==
  /\ users \in [Request -> Row \cup {None}]
  /\ pc \in [Request -> {"new", "insert", "answer", "compare"} \cup Ended]
  /\ job \in [Request -> Job]

\* Of the registrations of one email that race, whatever fails, at most one is
\* told 201: its row is there with what it asked for, and nobody is told 201 for
\* an email whose row somebody else has inserted, even if that one was told 500
\* or nothing.  One that is told 400 is told so because another has the account.
\* A 500 says nothing: the row may be another's, its own or missing.
OneWinner ==
  \A r \in Request :
    /\ pc[r] = "created" => users[r] = NewUser(job[r])
    /\ users[r] # None =>
         \A q \in Request :
           pc[q] = "created" /\ job[q].email = users[r].email => q = r
    /\ pc[r] = "exists" => Found(job[r].email) \ {r} # {}

\* Once the 201 has been received, a login with the same email and password is
\* never refused, whatever other registrations of that email are under way.
RegisteredMayLogin ==
  \A r \in Request : pc[r] = "unauthorized" => ~job[r].known

\* Who is welcomed presented the password of the account, and the account is
\* the only one of that email: the tokens are issued for the right user.
WelcomeIsOwner ==
  \A r \in Request :
    pc[r] = "welcome" =>
      /\ Found(job[r].email) = {job[r].user}
      /\ users[job[r].user].password = job[r].password

-----------------------------------------------------------------------------
\* What the table says of an email.
accountBar ==
  [e \in Email |->
     IF Found(e) = {} THEN None
     ELSE LET u == users[CHOOSE q \in Found(e) : TRUE]
          IN  [password |-> u.password, role |-> u.role]]

AC == INSTANCE Accounts WITH account <- accountBar,
                             Credential <- [password : Password, role : Role]

\* An email gets an account once, and what it was registered with never
\* changes, whatever races and whatever fails.
ImplementsAccounts == AC!Spec
=============================================================================
