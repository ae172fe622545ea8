-------------------------- MODULE EmailQueueProofs --------------------------
(***************************************************************************)
(* Proofs about EmailQueue, for any jobs and workers.                      *)
(***************************************************************************)
EXTENDS EmailQueue, SequenceTheorems, FiniteSetTheorems, TLAPS

\* The workers that still are to send the email of job j.
Unsent(j) == {w \in Worker : work[w].job = j /\ ~work[w].sent}

\* How often job j may have been given out again.
Repeats(j) == IF stalls[j] < MaxStalled THEN stalls[j] ELSE MaxStalled

\* The emails sent for a job, those its workers will still send and the one its
\* place in the queue stands for are at most one more than its repeats.
BudgetOK(j) ==
  /\ status[j] = "none" => mailed[j] = 0 /\ \A w \in Worker : work[w].job # j
  /\ mailed[j] + Cardinality(Unsent(j)) + (IF status[j] = "waiting" THEN 1 ELSE 0)
       <= 1 + Repeats(j)

QueueInv == TypeOK /\ \A j \in Job : BudgetOK(j)

-----------------------------------------------------------------------------
LEMMA NoneIsNoJob == EmailAssumption => None \notin Job /\ None \notin Worker
BY DEF EmailAssumption

LEMMA InitQueueInv ==
  ASSUME EmailAssumption, Init
  PROVE  QueueInv
<1>1. TypeOK
  BY NoneIsNoJob DEF Init, TypeOK, Idle
<1>2. ASSUME NEW j \in Job
      PROVE  BudgetOK(j)
  <2>1. \A w \in Worker : work[w].job # j
    BY NoneIsNoJob DEF Init, Idle
  <2>2. Unsent(j) = {}
    BY <2>1 DEF Unsent
  <2>3. Cardinality(Unsent(j)) = 0
    BY <2>2, FS_EmptySet
  <2>4. QED
    BY <2>1, <2>3 DEF BudgetOK, Init, Repeats, MaxStalled
<1>3. QED
  BY <1>1, <1>2 DEF QueueInv

-----------------------------------------------------------------------------
\* The first of the queue, and what is left of it.
LEMMA HeadOfQueue ==
  ASSUME TypeOK, waiting # <<>>
  PROVE  /\ Head(waiting) \in Job /\ Tail(waiting) \in Seq(Job)
         /\ status[Head(waiting)] = "waiting"
         /\ \A i, k \in 1..Len(Tail(waiting)) :
              Tail(waiting)[i] = Tail(waiting)[k] => i = k
         /\ \A j \in Job :
              (\E i \in 1..Len(Tail(waiting)) : Tail(waiting)[i] = j)
                <=> status[j] = "waiting" /\ j # Head(waiting)
<1>1. waiting \in Seq(Job)
  BY DEF TypeOK
<1>2. /\ Len(waiting) \in Nat \ {0}
      /\ Head(waiting) = waiting[1]
      /\ Len(Tail(waiting)) = Len(waiting) - 1
      /\ \A i \in 1..Len(Tail(waiting)) : Tail(waiting)[i] = waiting[i + 1]
      /\ Tail(waiting) \in Seq(Job)
  BY <1>1
<1>3. Head(waiting) \in Job
  BY <1>1, <1>2
<1>4. status[Head(waiting)] = "waiting"
  BY <1>2, <1>3 DEF TypeOK
<1>5. \A i, k \in 1..Len(Tail(waiting)) : Tail(waiting)[i] = Tail(waiting)[k] => i = k
  BY <1>2 DEF TypeOK
<1>6. ASSUME NEW j \in Job
      PROVE  (\E i \in 1..Len(Tail(waiting)) : Tail(waiting)[i] = j)
               <=> status[j] = "waiting" /\ j # Head(waiting)
  <2>1. ASSUME NEW i \in 1..Len(Tail(waiting)), Tail(waiting)[i] = j
        PROVE  status[j] = "waiting" /\ j # Head(waiting)
    BY <1>2, <2>1 DEF TypeOK
  <2>2. ASSUME status[j] = "waiting", j # Head(waiting)
        PROVE  \E i \in 1..Len(Tail(waiting)) : Tail(waiting)[i] = j
    <3>1. PICK k \in 1..Len(waiting) : waiting[k] = j
      BY <2>2 DEF TypeOK
    <3>2. k - 1 \in 1..Len(Tail(waiting)) /\ Tail(waiting)[k - 1] = j
      BY <1>2, <2>2, <3>1
    <3>3. QED
      BY <3>2
  <2>3. QED
    BY <2>1, <2>2
<1>7. QED
  BY <1>2, <1>3, <1>4, <1>5, <1>6

LEMMA TypeStep ==
  ASSUME EmailAssumption, TypeOK, [Next]_vars
  PROVE  TypeOK'
<1>1. ASSUME NEW j \in Job, Add(j)
      PROVE  TypeOK'
  <2>1. /\ waiting \in Seq(Job) /\ waiting' = Append(waiting, j)
        /\ status[j] = "none" /\ status' = [status EXCEPT ![j] = "waiting"]
        /\ UNCHANGED <<lock, stalls, work, mailed>>
    BY <1>1 DEF Add, TypeOK
  <2>2. /\ waiting' \in Seq(Job)
        /\ Len(waiting') = Len(waiting) + 1
        /\ \A i \in 1..Len(waiting) : waiting'[i] = waiting[i]
        /\ waiting'[Len(waiting) + 1] = j
    BY <2>1
  <2>3. \A i \in 1..Len(waiting) : waiting[i] # j
    BY <2>1 DEF TypeOK
  <2>4. \A i, k \in 1..Len(waiting') : waiting'[i] = waiting'[k] => i = k
    BY <2>1, <2>2, <2>3 DEF TypeOK
  <2>5. ASSUME NEW h \in Job
        PROVE  status'[h] = "waiting" <=> \E i \in 1..Len(waiting') : waiting'[i] = h
    <3>1. CASE h = j
      BY <2>1, <2>2, <3>1 DEF TypeOK
    <3>2. CASE h # j
      BY <2>1, <2>2, <3>2 DEF TypeOK
    <3>3. QED
      BY <3>1, <3>2
  <2>6. \A h \in Job : status'[h] = "active" <=> lock'[h] # None
    BY <2>1 DEF TypeOK
  <2>7. QED
    BY <2>1, <2>2, <2>4, <2>5, <2>6 DEF TypeOK
<1>2. ASSUME NEW w \in Worker, Take(w)
      PROVE  TypeOK'
  <2> DEFINE j == Head(waiting)
  <2>1. /\ waiting # <<>> /\ waiting' = Tail(waiting)
        /\ status' = [status EXCEPT ![j] = "active"]
        /\ lock' = [lock EXCEPT ![j] = w]
        /\ work' = [work EXCEPT ![w].job = j]
        /\ UNCHANGED <<stalls, mailed>>
    BY <1>2 DEF Take
  <2>2. /\ j \in Job /\ waiting' \in Seq(Job)
        /\ status[j] = "waiting"
        /\ \A i, k \in 1..Len(waiting') : waiting'[i] = waiting'[k] => i = k
        /\ \A h \in Job : (\E i \in 1..Len(waiting') : waiting'[i] = h)
                             <=> status[h] = "waiting" /\ h # j
    BY <2>1, HeadOfQueue
  <2> HIDE DEF j
  <2>3. \A h \in Job :
          /\ status'[h] = "waiting" <=> \E i \in 1..Len(waiting') : waiting'[i] = h
          /\ status'[h] = "active" <=> lock'[h] # None
    BY <2>1, <2>2, NoneIsNoJob DEF TypeOK
  <2>4. work' \in [Worker -> [job : Job \cup {None}, sent : BOOLEAN]]
    BY <2>1, <2>2 DEF TypeOK
  <2>5. QED
    BY <2>1, <2>2, <2>3, <2>4 DEF TypeOK
<1>3. ASSUME NEW w \in Worker, Send(w)
      PROVE  TypeOK'
  <2>1. PICK j \in Job : j = work[w].job
    BY <1>3 DEF Send, TypeOK
  <2>2. /\ work' = [work EXCEPT ![w].sent = TRUE]
        /\ mailed' = [mailed EXCEPT ![j] = @ + 1]
        /\ UNCHANGED <<waiting, status, lock, stalls>>
    BY <1>3, <2>1 DEF Send
  <2>3. work' \in [Worker -> [job : Job \cup {None}, sent : BOOLEAN]]
    <3>1. work \in [Worker -> [job : Job \cup {None}, sent : BOOLEAN]]
      BY DEF TypeOK
    <3>2. [work[w] EXCEPT !.sent = TRUE] \in [job : Job \cup {None}, sent : BOOLEAN]
      BY <3>1
    <3>3. QED
      BY <2>2, <3>1, <3>2
  <2>4. mailed' \in [Job -> Nat]
    BY <2>2 DEF TypeOK
  <2>5. QED
    BY <2>2, <2>3, <2>4 DEF TypeOK
<1>4. ASSUME NEW w \in Worker, Complete(w)
      PROVE  TypeOK'
  <2> DEFINE j == work[w].job
  <2>1. work' \in [Worker -> [job : Job \cup {None}, sent : BOOLEAN]]
    BY <1>4 DEF Complete, Idle, TypeOK
  <2>2. CASE UNCHANGED <<status, lock>>
    BY <1>4, <2>1, <2>2 DEF Complete, TypeOK
  <2>3. CASE /\ lock[j] = w /\ j \in Job
             /\ status' = [status EXCEPT ![j] = "completed"]
             /\ lock' = [lock EXCEPT ![j] = None]
    <3> HIDE DEF j
    <3>1. status[j] = "active"
      BY <2>3, NoneIsNoJob DEF TypeOK
    <3>2. \A h \in Job :
            /\ status'[h] = "waiting" <=> status[h] = "waiting"
            /\ status'[h] = "active" <=> lock'[h] # None
      BY <2>3, <3>1 DEF TypeOK
    <3>3. QED
      BY <1>4, <2>1, <2>3, <3>2 DEF Complete, TypeOK
  <2>4. j \notin Job => UNCHANGED <<status, lock>>
    BY <1>4 DEF Complete, TypeOK
  <2>5. QED
    BY <1>4, <2>2, <2>3, <2>4 DEF Complete
<1>5. ASSUME NEW j \in Job, Stall(j)
      PROVE  TypeOK'
  <2>1. /\ status[j] = "active"
        /\ lock' = [lock EXCEPT ![j] = None]
        /\ stalls' = [stalls EXCEPT ![j] = @ + 1]
        /\ UNCHANGED <<work, mailed>>
    BY <1>5 DEF Stall
  <2>2. waiting \in Seq(Job) /\ \A i \in 1..Len(waiting) : waiting[i] # j
    BY <2>1 DEF TypeOK
  <2>3. CASE waiting' = <<j>> \o waiting /\ status' = [status EXCEPT ![j] = "waiting"]
    <3>1. /\ waiting' \in Seq(Job)
          /\ Len(waiting') = Len(waiting) + 1
          /\ waiting'[1] = j
          /\ \A i \in 2..Len(waiting') : waiting'[i] = waiting[i - 1]
      BY <2>2, <2>3
    <3>2. ASSUME NEW i \in 1..Len(waiting'), NEW k \in 1..Len(waiting'),
                 waiting'[i] = waiting'[k]
          PROVE  i = k
      <4>1. \A n \in 2..Len(waiting') :
              n - 1 \in 1..Len(waiting) /\ waiting'[n] = waiting[n - 1] /\ waiting'[n] # j
        BY <2>2, <3>1
      <4>2. CASE i = 1 \/ k = 1
        BY <3>1, <3>2, <4>1, <4>2
      <4>3. CASE i # 1 /\ k # 1
        <5>1. PICK a \in 1..Len(waiting), b \in 1..Len(waiting) : a = i - 1 /\ b = k - 1
          BY <2>2, <3>1, <4>3
        <5>2. waiting[a] = waiting[b]
          BY <3>1, <3>2, <4>3, <5>1
        <5>3. a = b
          BY <5>2 DEF TypeOK
        <5>4. QED
          BY <5>1, <5>3
      <4>4. QED
        BY <4>2, <4>3
    <3>3. ASSUME NEW h \in Job
          PROVE  status'[h] = "waiting" <=> \E i \in 1..Len(waiting') : waiting'[i] = h
      <4>1. CASE h = j
        BY <2>2, <2>3, <3>1, <4>1 DEF TypeOK
      <4>2. CASE h # j
        <5>1. ASSUME NEW i \in 1..Len(waiting), waiting[i] = h
              PROVE  i + 1 \in 1..Len(waiting') /\ waiting'[i + 1] = h
          BY <2>2, <3>1, <5>1
        <5>2. ASSUME NEW i \in 1..Len(waiting'), waiting'[i] = h
              PROVE  i - 1 \in 1..Len(waiting) /\ waiting[i - 1] = h
          BY <2>2, <3>1, <4>2, <5>2
        <5>3. status'[h] = status[h]
          BY <2>3, <4>2 DEF TypeOK
        <5>4. QED
          BY <5>1, <5>2, <5>3 DEF TypeOK
      <4>3. QED
        BY <4>1, <4>2
    <3>4. \A h \in Job : status'[h] = "active" <=> lock'[h] # None
      BY <2>1, <2>3 DEF TypeOK
    <3>5. /\ status' \in [Job -> {"none", "waiting", "active", "completed", "failed"}]
          /\ lock' \in [Job -> Worker \cup {None}]
          /\ stalls' \in [Job -> Nat]
      BY <2>1, <2>3 DEF TypeOK
    <3>6. QED
      BY <2>1, <3>1, <3>2, <3>3, <3>4, <3>5 DEF TypeOK
  <2>4. CASE status' = [status EXCEPT ![j] = "failed"] /\ UNCHANGED waiting
    BY <2>1, <2>4 DEF TypeOK
  <2>5. QED
    BY <1>5, <2>3, <2>4 DEF Stall
<1>6. ASSUME NEW w \in Worker, Stop(w)
      PROVE  TypeOK'
  BY <1>6 DEF Stop, Idle, TypeOK
<1>7. CASE UNCHANGED vars
  BY <1>7 DEF vars, TypeOK
<1>8. QED
  BY <1>1, <1>2, <1>3, <1>4, <1>5, <1>6, <1>7 DEF Next

-----------------------------------------------------------------------------
\* The workers that still are to send an email are finitely many.
LEMMA UnsentFacts ==
  ASSUME EmailAssumption, TypeOK, NEW j \in Job
  PROVE  /\ IsFiniteSet(Unsent(j)) /\ Cardinality(Unsent(j)) \in Nat
         /\ Repeats(j) \in 0..MaxStalled
         /\ mailed[j] \in Nat /\ stalls[j] \in Nat
<1>1. IsFiniteSet(Unsent(j))
  BY FS_Subset DEF EmailAssumption, Unsent
<1>2. QED
  BY <1>1, FS_CardinalityType DEF TypeOK, Repeats, MaxStalled

LEMMA BudgetStep ==
  ASSUME EmailAssumption, QueueInv, [Next]_vars, NEW j \in Job
  PROVE  BudgetOK(j)'
<1> USE DEF QueueInv
<1>0. TypeOK /\ TypeOK' /\ BudgetOK(j)
  BY TypeStep
<1>1. ASSUME NEW h \in Job, Add(h)
      PROVE  BudgetOK(j)'
  <2>1. /\ status[h] = "none" /\ status' = [status EXCEPT ![h] = "waiting"]
        /\ UNCHANGED <<lock, stalls, work, mailed>>
    BY <1>1 DEF Add
  <2>2. Unsent(j)' = Unsent(j) /\ Repeats(j)' = Repeats(j)
    BY <2>1 DEF Unsent, Repeats
  <2>3. CASE j # h
    BY <1>0, <2>1, <2>2, <2>3 DEF BudgetOK, TypeOK
  <2>4. CASE j = h
    <3>1. mailed[j] = 0 /\ Unsent(j) = {}
      BY <1>0, <2>1, <2>4 DEF BudgetOK, Unsent
    <3>2. Cardinality(Unsent(j)) = 0
      BY <3>1, FS_EmptySet
    <3>3. status'[j] = "waiting"
      BY <1>0, <2>1, <2>4 DEF TypeOK
    <3>4. QED
      BY <1>0, <2>1, <2>2, <3>1, <3>2, <3>3, UnsentFacts DEF BudgetOK
  <2>5. QED
    BY <2>3, <2>4
<1>2. ASSUME NEW w \in Worker, Take(w)
      PROVE  BudgetOK(j)'
  <2> DEFINE h == Head(waiting)
  <2>1. /\ work[w] = Idle /\ waiting # <<>>
        /\ status' = [status EXCEPT ![h] = "active"]
        /\ work' = [work EXCEPT ![w].job = h]
        /\ UNCHANGED <<stalls, mailed>>
    BY <1>2 DEF Take
  <2>2. h \in Job /\ status[h] = "waiting"
    BY <1>0, <2>1, HeadOfQueue
  <2>3. /\ work'[w].job = h /\ ~work'[w].sent
        /\ \A v \in Worker \ {w} : work'[v] = work[v]
        /\ work[w].job = None
    BY <1>0, <2>1 DEF Idle, TypeOK
  <2>4. Repeats(j)' = Repeats(j) /\ mailed'[j] = mailed[j]
    BY <2>1 DEF Repeats
  <2> HIDE DEF h
  <2>5. CASE j = h
    <3>1. Unsent(j)' = Unsent(j) \cup {w} /\ w \notin Unsent(j)
      BY <2>3, <2>5, NoneIsNoJob DEF Unsent
    <3>2. Cardinality(Unsent(j)') = Cardinality(Unsent(j)) + 1
      BY <1>0, <3>1, UnsentFacts, FS_AddElement
    <3>3. status'[j] = "active" /\ status[j] = "waiting"
      BY <1>0, <2>1, <2>2, <2>5 DEF TypeOK
    <3>4. QED
      BY <1>0, <2>4, <3>2, <3>3, UnsentFacts DEF BudgetOK
  <2>6. CASE j # h
    <3>1. Unsent(j)' = Unsent(j)
      BY <2>3, <2>6, NoneIsNoJob DEF Unsent
    <3>2. status'[j] = status[j]
      BY <1>0, <2>1, <2>6 DEF TypeOK
    <3>3. (\A v \in Worker : work[v].job # j) => \A v \in Worker : work'[v].job # j
      BY <2>3, <2>6
    <3>4. QED
      BY <1>0, <2>4, <3>1, <3>2, <3>3 DEF BudgetOK
  <2>7. QED
    BY <2>5, <2>6
<1>3. ASSUME NEW w \in Worker, Send(w)
      PROVE  BudgetOK(j)'
  <2>1. PICK h \in Job : h = work[w].job
    BY <1>0, <1>3 DEF Send, TypeOK
  <2>2. /\ ~work[w].sent
        /\ work'[w].job = h /\ work'[w].sent
        /\ \A v \in Worker \ {w} : work'[v] = work[v]
        /\ mailed'[h] = mailed[h] + 1
        /\ \A g \in Job \ {h} : mailed'[g] = mailed[g]
        /\ UNCHANGED <<status, stalls>>
    BY <1>0, <1>3, <2>1 DEF Send, TypeOK
  <2>3. Repeats(j)' = Repeats(j)
    BY <2>2 DEF Repeats
  <2>4. CASE j = h
    <3>1. Unsent(j)' = Unsent(j) \ {w} /\ w \in Unsent(j)
      BY <2>1, <2>2, <2>4 DEF Unsent
    <3>2. Cardinality(Unsent(j)') = Cardinality(Unsent(j)) - 1
      BY <1>0, <3>1, UnsentFacts, FS_RemoveElement
    <3>3. status[j] # "none"
      BY <1>0, <2>1, <2>4 DEF BudgetOK
    <3>4. QED
      BY <1>0, <2>2, <2>3, <2>4, <3>2, <3>3, UnsentFacts DEF BudgetOK
  <2>5. CASE j # h
    <3>1. Unsent(j)' = Unsent(j)
      BY <2>1, <2>2, <2>5 DEF Unsent
    <3>2. (\A v \in Worker : work[v].job # j) => \A v \in Worker : work'[v].job # j
      BY <2>2, <2>5
    <3>3. QED
      BY <1>0, <2>2, <2>3, <2>5, <3>1, <3>2 DEF BudgetOK
  <2>6. QED
    BY <2>4, <2>5
<1>4. ASSUME NEW w \in Worker, Complete(w) \/ Stop(w)
      PROVE  BudgetOK(j)'
  <2>1. /\ work' = [work EXCEPT ![w] = Idle]
        /\ UNCHANGED <<stalls, mailed>>
    BY <1>4 DEF Complete, Stop
  <2>2. \/ status' = status
        \/ \E h \in Job : status' = [status EXCEPT ![h] = "completed"] /\ lock[h] = w
    BY <1>0, <1>4 DEF Complete, Stop, TypeOK
  <2>3. /\ status'[j] = "none" => status[j] = "none"
        /\ status'[j] = "waiting" => status[j] = "waiting"
    BY <1>0, <2>2 DEF TypeOK
  <2>4. \A v \in Worker : work'[v].job = j => v # w /\ work'[v] = work[v]
    BY <1>0, <2>1, NoneIsNoJob DEF Idle, TypeOK
  <2>5. Unsent(j)' \subseteq Unsent(j)
    BY <2>4 DEF Unsent
  <2>6. /\ Cardinality(Unsent(j)') <= Cardinality(Unsent(j))
        /\ Cardinality(Unsent(j)') \in Nat
    BY <1>0, <2>5, UnsentFacts, FS_Subset, FS_CardinalityType
  <2>7. Repeats(j)' = Repeats(j) /\ mailed'[j] = mailed[j]
    BY <2>1 DEF Repeats
  <2>8. status[j] = "none" => \A v \in Worker : work'[v].job # j
    BY <1>0, <2>4 DEF BudgetOK
  <2>9. QED
    BY <1>0, <2>3, <2>6, <2>7, <2>8, UnsentFacts DEF BudgetOK
<1>5. ASSUME NEW h \in Job, Stall(h)
      PROVE  BudgetOK(j)'
  <2>1. /\ status[h] = "active"
        /\ stalls' = [stalls EXCEPT ![h] = @ + 1]
        /\ UNCHANGED <<work, mailed>>
        /\ \/ stalls[h] < MaxStalled /\ status' = [status EXCEPT ![h] = "waiting"]
           \/ ~(stalls[h] < MaxStalled) /\ status' = [status EXCEPT ![h] = "failed"]
    BY <1>5 DEF Stall, MayRepeat
  <2>2. Unsent(j)' = Unsent(j)
    BY <2>1 DEF Unsent
  <2>3. CASE j # h
    <3>1. stalls'[j] = stalls[j] /\ status'[j] = status[j]
      BY <1>0, <2>1, <2>3 DEF TypeOK
    <3>2. Repeats(j)' = Repeats(j)
      BY <3>1 DEF Repeats
    <3>3. QED
      BY <1>0, <2>1, <2>2, <3>1, <3>2 DEF BudgetOK
  <2>4. CASE j = h
    <3>1. stalls'[j] = stalls[j] + 1
      BY <1>0, <2>1, <2>4 DEF TypeOK
    <3>2. CASE stalls[j] < MaxStalled
      <4>1. status'[j] = "waiting" /\ status[j] = "active"
        BY <1>0, <2>1, <2>4, <3>2 DEF TypeOK
      <4>2. Repeats(j)' = Repeats(j) + 1
        BY <1>0, <3>1, <3>2, UnsentFacts DEF Repeats, MaxStalled
      <4>3. QED
        BY <1>0, <2>1, <2>2, <4>1, <4>2, UnsentFacts DEF BudgetOK
    <3>3. CASE ~(stalls[j] < MaxStalled)
      <4>1. status'[j] = "failed" /\ status[j] = "active"
        BY <1>0, <2>1, <2>4, <3>3 DEF TypeOK
      <4>2. Repeats(j)' = Repeats(j)
        BY <1>0, <3>1, <3>3, UnsentFacts DEF Repeats, MaxStalled
      <4>3. QED
        BY <1>0, <2>1, <2>2, <4>1, <4>2, UnsentFacts DEF BudgetOK
    <3>4. QED
      BY <3>2, <3>3
  <2>5. QED
    BY <2>3, <2>4
<1>6. CASE UNCHANGED vars
  BY <1>0, <1>6 DEF vars, BudgetOK, Unsent, Repeats
<1>7. QED
  BY <1>1, <1>2, <1>3, <1>4, <1>5, <1>6 DEF Next

-----------------------------------------------------------------------------
LEMMA QueueInvariant ==
  ASSUME EmailAssumption
  PROVE  Spec => []QueueInv
<1>1. Init => QueueInv
  BY InitQueueInv
<1>2. QueueInv /\ [Next]_vars => QueueInv'
  BY TypeStep, BudgetStep DEF QueueInv
<1>3. QED
  BY <1>1, <1>2, PTL DEF Spec

LEMMA BudgetBounds ==
  ASSUME EmailAssumption, QueueInv
  PROVE  MailedAtMostTwice
<1> SUFFICES ASSUME NEW j \in Job
             PROVE  mailed[j] <= 1 + MaxStalled
  BY DEF MailedAtMostTwice
<1>1. QED
  BY UnsentFacts DEF QueueInv, BudgetOK, MaxStalled

\* Each job stands in one place, whatever stalls and stops.
THEOREM TypeCorrect ==
  ASSUME EmailAssumption
  PROVE  Spec => []TypeOK
<1>1. QueueInv => TypeOK
  BY DEF QueueInv
<1>2. QED
  BY <1>1, QueueInvariant, PTL

\* For any number of workers, no job is mailed more than twice.
THEOREM MailedTwiceAtMost ==
  ASSUME EmailAssumption
  PROVE  Spec => []MailedAtMostTwice
<1>1. QueueInv => MailedAtMostTwice
  BY BudgetBounds
<1>2. QED
  BY <1>1, QueueInvariant, PTL

-----------------------------------------------------------------------------
(* What a final state says of its job.                                       *)

\* A worker that has sent an email has it counted.
SentOK(w) == work[w].sent => work[w].job \in Job /\ mailed[work[w].job] >= 1

\* A completed job was mailed; a failed one has stalled too often.
EndOK(j) ==
  /\ status[j] = "completed" => mailed[j] >= 1
  /\ status[j] = "failed" => stalls[j] > MaxStalled

EndInv ==
  /\ \A w \in Worker : SentOK(w)
  /\ \A j \in Job : EndOK(j)

LEMMA CountsGrow ==
  ASSUME TypeOK, [Next]_vars, NEW j \in Job
  PROVE  mailed'[j] >= mailed[j] /\ stalls'[j] >= stalls[j]
<1>1. ASSUME NEW w \in Worker, Send(w) PROVE mailed'[j] >= mailed[j]
  BY <1>1 DEF Send, TypeOK
<1>2. ASSUME NEW h \in Job, Stall(h) PROVE stalls'[j] >= stalls[j]
  BY <1>2 DEF Stall, TypeOK
<1>3. \/ mailed' = mailed
      \/ \E w \in Worker : Send(w)
  BY DEF Next, Add, Take, Complete, Stall, Stop, vars
<1>4. \/ stalls' = stalls
      \/ \E h \in Job : Stall(h)
  BY DEF Next, Add, Take, Send, Complete, Stop, vars
<1>5. mailed[j] \in Nat /\ stalls[j] \in Nat
  BY DEF TypeOK
<1>6. mailed'[j] >= mailed[j]
  BY <1>1, <1>3, <1>5
<1>7. stalls'[j] >= stalls[j]
  BY <1>2, <1>4, <1>5
<1>. QED  BY <1>6, <1>7

LEMMA EndStep ==
  ASSUME EmailAssumption, TypeOK, EndInv, [Next]_vars
  PROVE  EndInv'
<1>a. TypeOK'
  BY TypeStep
\* A worker that did not take or send keeps its count.
<1>b. ASSUME NEW w \in Worker, work'[w] = work[w] \/ ~work'[w].sent
      PROVE  SentOK(w)'
  BY <1>a, <1>b, CountsGrow DEF EndInv, SentOK, TypeOK
<1>c. ASSUME NEW j \in Job, status'[j] = status[j]
      PROVE  EndOK(j)'
  BY <1>a, <1>c, CountsGrow DEF EndInv, EndOK, TypeOK, MaxStalled
<1>1. ASSUME NEW w \in Worker PROVE SentOK(w)'
  <2>1. ASSUME NEW v \in Worker, Take(v) PROVE SentOK(w)'
    <3>1. w # v => work'[w] = work[w]
      BY <2>1 DEF Take, TypeOK
    <3>2. ~work'[v].sent
      BY <2>1 DEF Take, Idle, TypeOK
    <3>. QED  BY <1>b, <3>1, <3>2
  <2>2. ASSUME NEW v \in Worker, Send(v) PROVE SentOK(w)'
    <3>1. w # v => work'[w] = work[w]
      BY <2>2 DEF Send, TypeOK
    <3>2. CASE w = v
      <4>1. /\ work[w].job \in Job /\ work'[w].job = work[w].job
            /\ mailed'[work[w].job] = mailed[work[w].job] + 1
            /\ mailed[work[w].job] \in Nat
        BY <2>2, <3>2 DEF Send, TypeOK
      <4>. QED  BY <4>1 DEF SentOK
    <3>. QED  BY <1>b, <3>1, <3>2
  <2>3. ASSUME NEW v \in Worker, Complete(v) \/ Stop(v) PROVE SentOK(w)'
    BY <1>b, <2>3 DEF Complete, Stop, Idle, TypeOK
  <2>4. CASE work' = work
    BY <1>b, <2>4
  <2>. QED
    BY <2>1, <2>2, <2>3, <2>4 DEF Next, Add, Stall, vars
<1>2. ASSUME NEW j \in Job PROVE EndOK(j)'
  <2>1. ASSUME NEW v \in Worker, Take(v) PROVE EndOK(j)'
    <3>1. status'[j] = status[j] \/ status'[j] = "active"
      BY <2>1 DEF Take, TypeOK
    <3>. QED  BY <1>c, <3>1 DEF EndOK
  <2>2. ASSUME NEW v \in Worker, Complete(v) PROVE EndOK(j)'
    <3>1. status'[j] # status[j] => j = work[v].job /\ status'[j] = "completed"
      BY <2>2 DEF Complete, TypeOK
    <3>2. work[v].sent /\ mailed' = mailed
      BY <2>2 DEF Complete, Finished
    <3>3. status'[j] # status[j] => mailed'[j] >= 1
      BY <3>1, <3>2 DEF EndInv, SentOK
    <3>. QED  BY <1>c, <3>1, <3>3 DEF EndOK
  <2>3. ASSUME NEW h \in Job, Stall(h) PROVE EndOK(j)'
    <3>1. status'[j] # status[j] =>
            /\ j = h
            /\ \/ status'[j] = "waiting"
               \/ status'[j] = "failed" /\ ~MayRepeat(j)
      BY <2>3 DEF Stall, TypeOK
    <3>2. stalls'[h] = stalls[h] + 1 /\ stalls[h] \in Nat
      BY <2>3 DEF Stall, TypeOK
    <3>. QED  BY <1>c, <3>1, <3>2 DEF EndOK, MayRepeat, MaxStalled
  <2>4. ASSUME NEW h \in Job, Add(h) PROVE EndOK(j)'
    <3>1. status'[j] = status[j] \/ status'[j] = "waiting"
      BY <2>4 DEF Add, TypeOK
    <3>. QED  BY <1>c, <3>1 DEF EndOK
  <2>5. CASE status' = status
    BY <1>c, <2>5
  <2>. QED
    BY <2>1, <2>2, <2>3, <2>4, <2>5 DEF Next, Send, Stop, vars
<1>. QED  BY <1>1, <1>2 DEF EndInv

LEMMA EndInvariant ==
  ASSUME EmailAssumption
  PROVE  Spec => []EndInv
<1>1. Init => EndInv
  BY DEF Init, Idle, EndInv, SentOK, EndOK
<1>2. QueueInv /\ EndInv /\ [Next]_vars => EndInv'
  BY EndStep DEF QueueInv
<1>. QED  BY <1>1, <1>2, QueueInvariant, PTL DEF Spec

-----------------------------------------------------------------------------
(* The queue keeps its promise.                                              *)

LEMMA StageIsFunction ==
  /\ stageBar = [j \in Job |-> stageBar[j]]
  /\ stageBar' = [j \in Job |-> stageBar'[j]]
BY DEF stageBar

\* The stage of one job changes, or none does.
LEMMA StageChange ==
  ASSUME NEW j \in Job, NEW s, stageBar'[j] = s,
         \A h \in Job \ {j} : status'[h] = status[h]
  PROVE  MD!Goto(j, s)
<1>1. \A h \in Job \ {j} : stageBar'[h] = stageBar[h]
  BY DEF stageBar
<1>. HIDE DEF stageBar
<1>. QED  BY <1>1, StageIsFunction DEF MD!Goto

LEMMA StageSame ==
  ASSUME \A h \in Job : stageBar'[h] = stageBar[h]
  PROVE  stageBar' = stageBar
<1>. HIDE DEF stageBar
<1>. QED  BY StageIsFunction

LEMMA MailStep ==
  ASSUME EmailAssumption, QueueInv, EndInv, [Next]_vars
  PROVE  [MD!Next]_(MD!deliveryVars)
<1>a. TypeOK /\ \A j \in Job : BudgetOK(j)
  BY DEF QueueInv
<1>1. ASSUME NEW j \in Job, Add(j) PROVE MD!Next
  <2>1. stageBar[j] = "none" /\ stageBar'[j] = "queued" /\ mailed' = mailed
    BY <1>a, <1>1 DEF Add, TypeOK, stageBar
  <2>2. \A h \in Job \ {j} : status'[h] = status[h]
    BY <1>a, <1>1 DEF Add, TypeOK
  <2>. QED  BY <2>1, <2>2, StageChange DEF MD!Accept, MD!Next
<1>2. ASSUME NEW w \in Worker, Take(w) PROVE UNCHANGED <<stageBar, mailed>>
  <2>1. Head(waiting) \in Job /\ status[Head(waiting)] = "waiting"
    BY <1>a, <1>2, HeadOfQueue DEF Take
  <2>2. \A h \in Job : stageBar'[h] = stageBar[h]
    BY <1>a, <1>2, <2>1 DEF Take, TypeOK, stageBar
  <2>. QED  BY <1>2, <2>2, StageSame DEF Take
<1>3. ASSUME NEW w \in Worker, Send(w) PROVE MD!Next
  <2>1. PICK j \in Job : j = work[w].job
    BY <1>a, <1>3 DEF Send, TypeOK
  <2>2. status[j] # "none"
    BY <1>a, <2>1 DEF BudgetOK
  <2>3. stageBar[j] # "none"
    BY <2>2 DEF stageBar
  <2>4. mailed[j] < 1 + MaxStalled
    <3>1. w \in Unsent(j)
      BY <1>3, <2>1 DEF Send, Unsent
    <3>2. Cardinality(Unsent(j) \ {w}) = Cardinality(Unsent(j)) - 1
      BY <1>a, <3>1, UnsentFacts, FS_RemoveElement
    <3>3. Cardinality(Unsent(j) \ {w}) \in Nat
      BY <1>a, UnsentFacts, FS_RemoveElement, FS_CardinalityType
    <3>. QED  BY <1>a, <3>2, <3>3, UnsentFacts DEF BudgetOK, MaxStalled
  <2>5. mailed' = [mailed EXCEPT ![j] = @ + 1] /\ status' = status
    BY <1>3, <2>1 DEF Send
  <2>6. stageBar' = stageBar
    BY <2>5 DEF stageBar
  <2>. QED  BY <2>3, <2>4, <2>5, <2>6 DEF MD!Mail, MD!Next
<1>4. ASSUME NEW w \in Worker, Complete(w) PROVE [MD!Next]_(MD!deliveryVars)
  <2>. DEFINE j == work[w].job
  <2>1. j \in Job /\ mailed[j] >= 1 /\ mailed' = mailed
    BY <1>4 DEF Complete, Finished, EndInv, SentOK
  <2>. HIDE DEF j
  <2>2. CASE lock[j] = w
    <3>1. status[j] = "active" /\ status' = [status EXCEPT ![j] = "completed"]
      BY <1>a, <1>4, <2>1, <2>2, NoneIsNoJob DEF Complete, TypeOK, j
    <3>2. stageBar[j] = "queued" /\ stageBar'[j] = "completed"
      BY <1>a, <2>1, <3>1 DEF TypeOK, stageBar
    <3>3. \A h \in Job \ {j} : status'[h] = status[h]
      BY <1>a, <3>1 DEF TypeOK
    <3>. QED  BY <2>1, <3>2, <3>3, StageChange DEF MD!Confirm, MD!Next
  <2>3. CASE lock[j] # w
    <3>1. status' = status
      BY <1>4, <2>3 DEF Complete, j
    <3>2. stageBar' = stageBar
      BY <3>1 DEF stageBar
    <3>. QED  BY <2>1, <3>2 DEF MD!deliveryVars
  <2>. QED  BY <2>2, <2>3
<1>5. ASSUME NEW j \in Job, Stall(j) PROVE [MD!Next]_(MD!deliveryVars)
  <2>1. /\ status[j] = "active" /\ mailed' = mailed
        /\ \A h \in Job \ {j} : status'[h] = status[h]
        /\ status'[j] \in {"waiting", "failed"}
    BY <1>a, <1>5 DEF Stall, TypeOK
  <2>2. stageBar[j] = "queued"
    BY <2>1 DEF stageBar
  <2>3. CASE status'[j] = "failed"
    <3>1. stageBar'[j] = "failed"
      BY <2>3 DEF stageBar
    <3>. QED  BY <2>1, <2>2, <3>1, StageChange DEF MD!Fail, MD!Next
  <2>4. CASE status'[j] = "waiting"
    <3>1. \A h \in Job : stageBar'[h] = stageBar[h]
      BY <2>1, <2>4 DEF stageBar
    <3>. QED  BY <2>1, <3>1, StageSame DEF MD!deliveryVars
  <2>. QED  BY <2>1, <2>3, <2>4
<1>6. ASSUME UNCHANGED <<status, mailed>> PROVE UNCHANGED <<stageBar, mailed>>
  BY <1>6 DEF stageBar
<1>. QED
  BY <1>1, <1>2, <1>3, <1>4, <1>5, <1>6 DEF Next, Stop, vars, MD!deliveryVars

\* However many workers there are, and whichever of them stop or lose their
\* locks: a job accepted is mailed at most twice, is completed only after an
\* email, and completed and failed are for good.
THEOREM RefinesMailDelivery ==
  ASSUME EmailAssumption
  PROVE  Spec => ImplementsMailDelivery
<1>1. Init => MD!Init
  BY DEF Init, MD!Init, stageBar
<1>2. QueueInv /\ EndInv /\ [Next]_vars => [MD!Next]_(MD!deliveryVars)
  BY MailStep
<1>. QED
  BY <1>1, <1>2, QueueInvariant, EndInvariant, PTL
     DEF Spec, MD!Spec, ImplementsMailDelivery
=============================================================================
