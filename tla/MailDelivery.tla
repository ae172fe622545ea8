---------------------------- MODULE MailDelivery ----------------------------
(***************************************************************************)
(* What the email queue promises for each job it accepts: at most MaxMail  *)
(* emails, none before the job is accepted, and a job is only reported     *)
(* completed when one of them is sent.  Completed and failed are for good. *)
(* A late email, of a worker that lost its job, may come after either.     *)
(***************************************************************************)
EXTENDS Naturals

CONSTANTS
  Job,       \* the jobs that may be added
  MaxMail    \* the most emails a job may cost its customer

VARIABLES
  stage,     \* stage[j]: what the queue says of job j
  sent       \* sent[j]: the emails sent for job j

deliveryVars == <<stage, sent>>

Init ==
  /\ stage = [j \in Job |-> "none"]
  /\ sent = [j \in Job |-> 0]

Goto(j, s) == stage' = [stage EXCEPT ![j] = s]

Accept(j) ==
  /\ stage[j] = "none"
  /\ Goto(j, "queued")
  /\ UNCHANGED sent

Mail(j) ==
  /\ stage[j] # "none"
  /\ sent[j] < MaxMail
  /\ sent' = [sent EXCEPT ![j] = @ + 1]
  /\ UNCHANGED stage

Confirm(j) ==
  /\ stage[j] = "queued"
  /\ sent[j] >= 1
  /\ Goto(j, "completed")
  /\ UNCHANGED sent

Fail(j) ==
  /\ stage[j] = "queued"
  /\ Goto(j, "failed")
  /\ UNCHANGED sent

Next == \E j \in Job : Accept(j) \/ Mail(j) \/ Confirm(j) \/ Fail(j)

Spec == Init /\ [][Next]_deliveryVars
=============================================================================
