----------------------------- MODULE EmailQueue -----------------------------
(***************************************************************************)
(* The queue "email-queue" (apps/notification-service): jobs kept by       *)
(* BullMQ in Redis, and one worker in every process of the service, which  *)
(* sends one email at a time.  A job whose worker no longer renews its     *)
(* lock is given to a worker again, MaxStalled times.                      *)
(***************************************************************************)
EXTENDS Naturals, Sequences, FiniteSets

CONSTANTS
  Job,       \* the jobs that may be added
  Worker,    \* the workers
  Faults,    \* TRUE: workers stop, locks run out
  None       \* absence of a job or a worker

\* What the proofs ask of them; OrderEvents assumes it of its instance.
EmailAssumption ==
  /\ None \notin Job \cup Worker
  /\ IsFiniteSet(Worker)

VARIABLES
  waiting,   \* the jobs to be taken, in order
  status,    \* status[j]: of job j
  lock,      \* lock[j]: the worker that job j is locked by
  stalls,    \* stalls[j]: how often job j has stalled
  work,      \* work[w]: the job worker w processes, and whether it was sent
  mailed     \* mailed[j]: the emails sent for job j

vars == <<waiting, status, lock, stalls, work, mailed>>

\* The defaults of BullMQ: maxStalledCount is 1.
MaxStalled == 1

Idle == [job |-> None, sent |-> FALSE]

Init ==
  /\ waiting = <<>>
  /\ status = [j \in Job |-> "none"]
  /\ lock = [j \in Job |-> None]
  /\ stalls = [j \in Job |-> 0]
  /\ work = [w \in Worker |-> Idle]
  /\ mailed = [j \in Job |-> 0]

Add(j) ==
  /\ status[j] = "none"
  /\ status' = [status EXCEPT ![j] = "waiting"]
  /\ waiting' = Append(waiting, j)
  /\ UNCHANGED <<lock, stalls, work, mailed>>

Take(w) ==
  LET j == Head(waiting)
  IN  /\ work[w] = Idle
      /\ waiting # <<>>
      /\ waiting' = Tail(waiting)
      /\ status' = [status EXCEPT ![j] = "active"]
      /\ lock' = [lock EXCEPT ![j] = w]
      /\ work' = [work EXCEPT ![w].job = j]
      /\ UNCHANGED <<stalls, mailed>>

\* process(): a second later the email is sent.
Send(w) ==
  /\ work[w].job # None /\ ~work[w].sent
  /\ work' = [work EXCEPT ![w].sent = TRUE]
  /\ mailed' = [mailed EXCEPT ![work[w].job] = @ + 1]
  /\ UNCHANGED <<waiting, status, lock, stalls>>

\* Mutant of Finished: process() returns without awaiting the email.
FinishedEarly(w) == work[w].job # None

\* process() has returned.
Finished(w) == work[w].sent

\* A job is completed by the worker that still holds its lock; the completion
\* by a worker that lost it is refused.
Complete(w) ==
  LET j == work[w].job
  IN  /\ Finished(w)
      /\ work' = [work EXCEPT ![w] = Idle]
      /\ IF lock[j] = w
         THEN /\ status' = [status EXCEPT ![j] = "completed"]
              /\ lock' = [lock EXCEPT ![j] = None]
         ELSE UNCHANGED <<status, lock>>
      /\ UNCHANGED <<waiting, stalls, mailed>>

MayRepeat(j) == stalls[j] < MaxStalled

\* The lock of an active job has run out: its worker is gone, or was kept from
\* renewing it.  The job goes to the front of the queue, or fails.
Stall(j) ==
  /\ status[j] = "active"
  /\ Faults \/ work[lock[j]].job # j
  /\ lock' = [lock EXCEPT ![j] = None]
  /\ stalls' = [stalls EXCEPT ![j] = @ + 1]
  /\ \/ /\ MayRepeat(j)
        /\ waiting' = <<j>> \o waiting
        /\ status' = [status EXCEPT ![j] = "waiting"]
     \/ /\ ~MayRepeat(j)
        /\ status' = [status EXCEPT ![j] = "failed"]
        /\ UNCHANGED waiting
  /\ UNCHANGED <<work, mailed>>

\* The process of the worker stops.
Stop(w) ==
  /\ work' = [work EXCEPT ![w] = Idle]
  /\ UNCHANGED <<waiting, status, lock, stalls, mailed>>

Next ==
  \/ \E j \in Job : Add(j) \/ Stall(j)
  \/ \E w \in Worker : Take(w) \/ Send(w) \/ Complete(w) \/ Stop(w)

Spec == Init /\ [][Next]_vars

-----------------------------------------------------------------------------
\* The type invariant: each job is in one place.  It stands in the queue, once,
\* exactly while it waits, and is locked exactly while it is active.
TypeOK ==
  /\ waiting \in Seq(Job)
  /\ status \in [Job -> {"none", "waiting", "active", "completed", "failed"}]
  /\ lock \in [Job -> Worker \cup {None}]
  /\ stalls \in [Job -> Nat]
  /\ work \in [Worker -> [job : Job \cup {None}, sent : BOOLEAN]]
  /\ mailed \in [Job -> Nat]
  /\ \A i, k \in 1..Len(waiting) : waiting[i] = waiting[k] => i = k
  /\ \A j \in Job :
       /\ status[j] = "waiting" <=> \E i \in 1..Len(waiting) : waiting[i] = j
       /\ status[j] = "active" <=> lock[j] # None

\* A customer gets an email about one message at most twice from each replica
\* that queued it, whichever of a stalled worker and its successor comes first.
MailedAtMostTwice == \A j \in Job : mailed[j] <= 1 + MaxStalled

\* A job stays queued while workers take it, lose it and take it again.
stageBar ==
  [j \in Job |-> IF status[j] \in {"waiting", "active"} THEN "queued" ELSE status[j]]

MD == INSTANCE MailDelivery WITH
        stage <- stageBar, sent <- mailed, MaxMail <- 1 + MaxStalled

\* The queue and its workers keep the promise of at-least-once delivery, with
\* locks that run out, late workers and processes that stop.
ImplementsMailDelivery == MD!Spec
=============================================================================
