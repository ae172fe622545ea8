--------------------------- MODULE RefreshTokens ---------------------------
(***************************************************************************)
(* The refresh tokens of the auth service (apps/auth-service): the         *)
(* handlers of POST /auth/login, /auth/refresh and /auth/logout, running   *)
(* concurrently against the "refresh_tokens" table.                        *)
(*                                                                         *)
(* A refresh token is a signed JWT of the user and of the second it is     *)
(* signed in: the same user and the same second give the same string.  As  *)
(* in OrderService a handler is cut at every await.                        *)
(***************************************************************************)
EXTENDS Naturals, FiniteSets

CONSTANTS
  User,       \* the registered users
  Request,    \* the HTTP requests made, each one handled once
  Lifetime,   \* JWT_REFRESH_EXPIRATION, in ticks of the clock
  MaxTime,    \* bound: the clock of this instance stops here
  Overlap,    \* TRUE: requests with one token may run at the same time
  Faults,     \* TRUE: a process may stop, a call may be rejected
  None        \* absence of a row, a token or a user

ASSUME TokenAssumption ==
  /\ Lifetime \in Nat
  /\ MaxTime \in Nat
  /\ None \notin User
  /\ None \notin User \X (0..MaxTime)
  /\ None \notin [revoked : BOOLEAN, user : User \cup {None}]
  /\ Overlap \in BOOLEAN
  /\ Faults \in BOOLEAN

VARIABLES
  now,        \* the clock, in ticks of one second
  tokens,     \* tokens[t]: the row of token t, or None
  pc,         \* pc[r]: the next step of request r
  job,        \* job[r]: the local variables of the handler of request r
  grants,     \* history: which token was issued in exchange for which
  loggedOut   \* history: the tokens a logout has been answered for

vars == <<now, tokens, pc, job, grants, loggedOut>>

-----------------------------------------------------------------------------
\* The token of user t[1], signed in second t[2].
Token == User \X (0..MaxTime)

\* A row of the table.  expiresAt is t[2] + Lifetime; userId may be NULL.
Row == [revoked : BOOLEAN, user : User \cup {None}]

\* What a handler remembers: the token presented, the user of its record (or
\* of the login), what save() decided to do, and the token it has signed.
Job == [op : {"none", "login", "refresh", "logout"},
        token : Token \cup {None}, user : User \cup {None},
        mode : {"none", "update", "insert"}, fresh : Token \cup {None}]

NoJob ==
  [op |-> "none", token |-> None, user |-> None, mode |-> "none", fresh |-> None]

\* A token issued in exchange for another, or for credentials (None).
Grant == [from : Token \cup {None}, token : Token]

Ended == {"done", "failed", "aborted"}

InFlight(r) == pc[r] \in {"remove", "select", "write", "sign", "insert"}

\* The environment may promise that a client waits for the answer before it
\* presents the same token again.  Nothing in the service enforces it.
MayStart(t) == Overlap \/ \A r \in Request : InFlight(r) => job[r].token # t

\* What clients can present: the tokens they were given.
Issued == {g.token : g \in grants}

\* Mutant of Valid: the query of refresh() without isRevoked: false.
ValidAlways(t) == tokens[t] # None

\* findOne({token, isRevoked: false})
Valid(t) == tokens[t] # None /\ ~tokens[t].revoked


\* new Date() > expiresAt
Expired(t) == now > t[2] + Lifetime

\* Mutants of Saved: isRevoked = true is forgotten; or it is lost when
\* save() turns out to be an INSERT.
SavedUnrevoked(j, row) == row

SavedInsertLive(j, row) ==
  IF j.mode = "insert" THEN [revoked |-> FALSE, user |-> j.user]
  ELSE IF j.mode = "update" /\ row # None THEN [row EXCEPT !.revoked = TRUE]
  ELSE row

\* The row after save(record): TypeORM inserts the record when the row was
\* gone, and otherwise updates isRevoked, if the row is still there.
Saved(j, row) ==
  IF j.mode = "insert" THEN [revoked |-> TRUE, user |-> j.user]
  ELSE IF j.mode = "update" /\ row # None THEN [row EXCEPT !.revoked = TRUE]
  ELSE row

\* Mutant of NewRow: isRevoked without its default.
NewRowNoDefault(u) == [revoked |-> None, user |-> u]

\* The row of a token just issued: isRevoked has its default.
NewRow(u) == [revoked |-> FALSE, user |-> u]

-----------------------------------------------------------------------------
Init ==
  /\ now = 0
  /\ tokens = [t \in Token |-> None]
  /\ pc = [r \in Request |-> "new"]
  /\ job = [r \in Request |-> NoJob]
  /\ grants = {}
  /\ loggedOut = {}

Goto(r, step) == pc' = [pc EXCEPT ![r] = step]

\* login(), with the credentials of a user: up to generateTokens().
Login(r) ==
  /\ pc[r] = "new"
  /\ \E u \in User :
       job' = [job EXCEPT ![r] = [NoJob EXCEPT !.op = "login", !.user = u]]
  /\ Goto(r, "sign")
  /\ UNCHANGED <<now, tokens, grants, loggedOut>>

\* Wrong credentials (401), or a refresh (401) or logout (200) with a string
\* that was never issued.
Unknown(r) ==
  /\ pc[r] = "new"
  /\ Goto(r, "done")
  /\ UNCHANGED <<now, tokens, job, grants, loggedOut>>

\* refresh(), up to the await that follows findOne(): 401 when there is no
\* such unrevoked row; an expired one is to be removed, a good one revoked.
FindForRefresh(r) ==
  /\ pc[r] = "new"
  /\ \E t \in Issued :
       /\ MayStart(t)
       /\ \/ /\ Valid(t)
             /\ job' = [job EXCEPT ![r] =
                          [NoJob EXCEPT !.op = "refresh", !.token = t,
                                        !.user = tokens[t].user]]
             /\ Goto(r, IF Expired(t) THEN "remove" ELSE "select")
          \/ /\ ~Valid(t)
             /\ Goto(r, "done")
             /\ UNCHANGED job
  /\ UNCHANGED <<now, tokens, grants, loggedOut>>

\* remove(record): a DELETE by id, then 401.
Remove(r) ==
  /\ pc[r] = "remove"
  /\ tokens' = [tokens EXCEPT ![job[r].token] = None]
  /\ Goto(r, "done")
  /\ UNCHANGED <<now, job, grants, loggedOut>>

\* logout(), up to the await that follows findOne(); without a row it answers.
FindForLogout(r) ==
  /\ pc[r] = "new"
  /\ \E t \in Issued :
       /\ MayStart(t)
       /\ \/ /\ tokens[t] # None
             /\ job' = [job EXCEPT ![r] =
                          [NoJob EXCEPT !.op = "logout", !.token = t]]
             /\ Goto(r, "select")
             /\ UNCHANGED loggedOut
          \/ /\ tokens[t] = None
             /\ Goto(r, "done")
             /\ loggedOut' = loggedOut \cup {t}
             /\ UNCHANGED job
  /\ UNCHANGED <<now, tokens, grants>>

\* save(record) of refresh() and logout(), first half: the row is selected
\* again to find out what to write.
SelectForSave(r) ==
  LET row == tokens[job[r].token]
  IN  /\ pc[r] = "select"
      /\ job' = [job EXCEPT ![r].mode =
                   IF row = None THEN "insert"
                   ELSE IF row.revoked THEN "none" ELSE "update"]
      /\ Goto(r, "write")
      /\ UNCHANGED <<now, tokens, grants, loggedOut>>

\* save(record), second half.  An INSERT whose id has come back meanwhile is
\* rejected, and the request with it (500).
WriteRevocation(r) ==
  LET t == job[r].token
  IN  /\ pc[r] = "write"
      /\ \/ /\ job[r].mode = "insert"
            /\ tokens[t] # None
            /\ Goto(r, "failed")
            /\ UNCHANGED <<tokens, loggedOut>>
         \/ /\ job[r].mode = "insert" => tokens[t] = None
            /\ tokens' = [tokens EXCEPT ![t] = Saved(job[r], @)]
            /\ Goto(r, IF job[r].op = "refresh" THEN "sign" ELSE "done")
            /\ loggedOut' = IF job[r].op = "logout" THEN loggedOut \cup {t}
                                                    ELSE loggedOut
      /\ UNCHANGED <<now, job, grants>>

\* generateTokens(), up to its await: the token of this user and second.
Sign(r) ==
  /\ pc[r] = "sign"
  /\ job' = [job EXCEPT ![r].fresh = <<job[r].user, now>>]
  /\ Goto(r, "insert")
  /\ UNCHANGED <<now, tokens, grants, loggedOut>>

\* Mutant of InsertToken: the row is upserted, as without "unique: true".
InsertTokenUpsert(r) ==
  /\ pc[r] = "insert"
  /\ tokens' = [tokens EXCEPT ![job[r].fresh] = NewRow(job[r].user)]
  /\ grants' = grants \cup {[from |-> job[r].token, token |-> job[r].fresh]}
  /\ Goto(r, "done")
  /\ UNCHANGED <<now, job, loggedOut>>

\* generateTokens(): the INSERT of the token.  The column is unique: when the
\* row exists the INSERT is rejected (500).
InsertToken(r) ==
  LET t == job[r].fresh
  IN  /\ pc[r] = "insert"
      /\ \/ /\ tokens[t] = None
            /\ tokens' = [tokens EXCEPT ![t] = NewRow(job[r].user)]
            /\ grants' = grants \cup {[from |-> job[r].token, token |-> t]}
            /\ Goto(r, "done")
         \/ /\ tokens[t] # None
            /\ Goto(r, "failed")
            /\ UNCHANGED <<tokens, grants>>
      /\ UNCHANGED <<now, job, loggedOut>>

\* The awaited call is rejected (500), or SIGTERM ends the process.
Abort(r) ==
  /\ Faults
  /\ InFlight(r)
  /\ Goto(r, "aborted")
  /\ UNCHANGED <<now, tokens, job, grants, loggedOut>>

Tick ==
  /\ now < MaxTime
  /\ now' = now + 1
  /\ UNCHANGED <<tokens, pc, job, grants, loggedOut>>

\* Every request has been handled and the clock has stopped.
Quiet ==
  /\ now = MaxTime
  /\ \A r \in Request : pc[r] \in Ended
  /\ UNCHANGED vars

Next ==
  \/ \E r \in Request :
       \/ Login(r) \/ Unknown(r) \/ FindForRefresh(r) \/ Remove(r)
       \/ FindForLogout(r) \/ SelectForSave(r) \/ WriteRevocation(r)
       \/ Sign(r) \/ InsertToken(r) \/ Abort(r)
  \/ Tick
  \/ Quiet

Spec == Init /\ [][Next]_vars

-----------------------------------------------------------------------------
\* The type invariant: the shape of the rows of "refresh_tokens", of the
\* locals of each handler and of the histories.
TypeOK ==
  /\ now \in 0..MaxTime
  /\ tokens \in [Token -> Row \cup {None}]
  /\ pc \in [Request -> {"new", "remove", "select", "write", "sign", "insert"}
                          \cup Ended]
  /\ job \in [Request -> Job]
  /\ grants \subseteq Grant
  /\ loggedOut \subseteq Token

\* A row without a user is revoked.  Only the save() of a logout, when the row
\* was removed after it was found, inserts one; refresh() would pass the
\* missing user to generateTokens().
OrphansRevoked ==
  \A t \in Token : tokens[t] # None /\ tokens[t].user = None => tokens[t].revoked

\* The life of a token as the database shows it to refresh(): a row that is
\* missing before the token's time is over is still to come.
lifeBar ==
  [t \in Token |-> IF Expired(t) THEN "dead"
                   ELSE IF tokens[t] = None THEN "unborn"
                   ELSE IF tokens[t].revoked THEN "dead" ELSE "live"]

TL == INSTANCE TokenLife WITH life <- lifeBar

\* Whatever interleaves and whatever fails, no token is issued twice and none
\* comes back to life: not by the save() that inserts a removed row again, and
\* not by signing the same token in the same second.
ImplementsTokenLife == TL!Spec

\* A token handed out for another is only handed out when that other is spent,
\* and it stays spent; also when refreshes race and processes stop.
ParentSpent ==
  \A g \in grants : g.from # None => lifeBar[g.from] = "dead"

\* A token whose logout was answered cannot be used again, even when the
\* logout races with refreshes that remove or rewrite its row.
LoggedOutDead ==
  \A t \in loggedOut : lifeBar[t] = "dead"

\* Rotation: a refresh token is exchanged at most once.
SingleUse ==
  \A g, h \in grants : g.from # None /\ g.from = h.from => g = h

\* After the answer to a logout no token is issued in exchange for the token
\* logged out: the session is over.
NoGrantAfterLogout ==
  [][\A g \in grants' : g \notin grants => g.from \notin loggedOut]_vars

\* A login opens one session: there are never more usable tokens than logins,
\* because each refresh replaces the token it spends.
OneTokenPerLogin ==
  Cardinality({t \in Token : lifeBar[t] = "live"})
    <= Cardinality({g \in grants : g.from = None})

\* "Revoke old token and issue new ones": a refresh that is answered without
\* new tokens leaves the token it was given usable, unless it has expired.
RevokeAndIssue ==
  \A r \in Request :
    job[r].op = "refresh" /\ pc[r] = "failed" =>
      \/ Expired(job[r].token)
      \/ Valid(job[r].token)
=============================================================================
