-------------------------- MODULE OrderQueryProofs --------------------------
(***************************************************************************)
(* Proofs about OrderQuery, for any number of orders, any statuses, dates  *)
(* and page size, and any number of rows that come and go meanwhile.       *)
(***************************************************************************)
EXTENDS OrderQuery, FiniteSetTheorems, TLAPS

(***************************************************************************)
(* Ranks in a finite set of numbers, whatever the set is.                  *)
(***************************************************************************)

\* The elements of F greater than o, and how many they are.
Above(F, o) == {x \in F : x > o}
Rank(F, o) == Cardinality(Above(F, o))

\* The elements whose rank is one of the l ranks from k on.
Slice(F, k, l) == {o \in F : Rank(F, o) >= k /\ Rank(F, o) < k + l}

\* The elements of S whose rank is less than k, and those of greater rank.
Passed(F, S, k) == {o \in S : Rank(F, o) < k}
Ahead(F, S, k) == {o \in S \cap F : Rank(F, o) >= k}

LEMMA RankType ==
  ASSUME NEW F, \A i \in F : i \in Nat, IsFiniteSet(F), NEW o
  PROVE  /\ Rank(F, o) \in Nat /\ IsFiniteSet(Above(F, o))
         /\ Cardinality(F) \in Nat
<1>1. Above(F, o) \subseteq F
  BY DEF Above
<1>2. QED
  BY <1>1, FS_Subset, FS_CardinalityType DEF Rank

\* The greater an element, the lower its rank.
LEMMA RankOrder ==
  ASSUME NEW F, \A i \in F : i \in Nat, IsFiniteSet(F), NEW o \in F, NEW p \in F, o < p
  PROVE  Rank(F, p) < Rank(F, o)
<1>1. Above(F, p) \cup {p} \subseteq Above(F, o) /\ p \notin Above(F, p)
  BY DEF Above
<1>2. Cardinality(Above(F, p) \cup {p}) = Rank(F, p) + 1
  BY <1>1, RankType, FS_AddElement DEF Rank
<1>3. Cardinality(Above(F, p) \cup {p}) <= Rank(F, o)
  BY <1>1, RankType, FS_Subset DEF Rank
<1>4. QED
  BY <1>2, <1>3, RankType

\* The ranks are 0, 1, 2 and so on, each the rank of one element.
LEMMA RankBijection ==
  ASSUME NEW F, \A i \in F : i \in Nat, IsFiniteSet(F)
  PROVE  [o \in F |-> Rank(F, o)] \in Bijection(F, 0..Cardinality(F) - 1)
<1> DEFINE f == [o \in F |-> Rank(F, o)]
           n == Cardinality(F)
<1>1. n \in Nat /\ Cardinality(0..n - 1) = n /\ IsFiniteSet(0..n - 1)
  <2>1. 0 \in Int /\ n \in Nat /\ n - 1 \in Int
    BY FS_CardinalityType
  <2>2. /\ Cardinality(0..n - 1) = IF 0 > n - 1 THEN 0 ELSE (n - 1) - 0 + 1
        /\ IsFiniteSet(0..n - 1)
    BY <2>1, FS_Interval
  <2>3. QED
    BY <2>1, <2>2
<1>2. ASSUME NEW o \in F
      PROVE  Rank(F, o) \in 0..n - 1
  <2>1. Above(F, o) \cup {o} \subseteq F /\ o \notin Above(F, o)
    BY DEF Above
  <2>2. Cardinality(Above(F, o) \cup {o}) = Rank(F, o) + 1
    BY <2>1, RankType, FS_AddElement DEF Rank
  <2>3. Cardinality(Above(F, o) \cup {o}) <= n
    BY <2>1, FS_Subset
  <2>4. QED
    BY <1>1, <2>2, <2>3, RankType
<1>3. \A o, p \in F : Rank(F, o) = Rank(F, p) => o = p
  <2>1. ASSUME NEW o \in F, NEW p \in F, Rank(F, o) = Rank(F, p), o # p
        PROVE  FALSE
    <3>1. o < p \/ p < o
      BY <2>1
    <3>2. QED
      BY <2>1, <3>1, RankOrder, RankType
  <2>2. QED
    BY <2>1
<1>4. f \in Injection(F, 0..n - 1)
  BY <1>2, <1>3 DEF Injection, IsInjective
<1>5. f \in Surjection(F, 0..n - 1)
  <2> HIDE DEF f
  <2>1. QED
    BY <1>1, <1>4, FS_Injection
<1>6. QED
  BY <1>4, <1>5 DEF Bijection

\* How many elements a slice has.
LEMMA SliceSize ==
  ASSUME NEW F, \A i \in F : i \in Nat, IsFiniteSet(F), NEW k \in Nat, NEW l \in Nat
  PROVE  /\ IsFiniteSet(Slice(F, k, l)) /\ Cardinality(Slice(F, k, l)) \in Nat
         /\ Cardinality(Slice(F, k, l)) =
              IF Cardinality(F) >= k + l THEN l
              ELSE IF Cardinality(F) > k THEN Cardinality(F) - k ELSE 0
<1> DEFINE n == Cardinality(F)
           b == IF n >= k + l THEN k + l ELSE n
           f == [o \in F |-> Rank(F, o)]
           g == [o \in Slice(F, k, l) |-> Rank(F, o)]
<1>1. n \in Nat /\ b \in Nat
  BY FS_CardinalityType
<1>2. /\ \A o \in F : Rank(F, o) \in 0..n - 1
      /\ \A o, p \in F : Rank(F, o) = Rank(F, p) => o = p
      /\ \A i \in 0..n - 1 : \E o \in F : Rank(F, o) = i
  <2>1. f \in Bijection(F, 0..n - 1)
    BY RankBijection
  <2>2. \A o \in F : f[o] = Rank(F, o)
    OBVIOUS
  <2>3. QED
    BY <2>1, <2>2 DEF Bijection, Injection, IsInjective, Surjection
<1>3. g \in Bijection(Slice(F, k, l), k..b - 1)
  <2>1. \A o \in Slice(F, k, l) : o \in F /\ g[o] = Rank(F, o) /\ g[o] \in k..b - 1
    BY <1>1, <1>2 DEF Slice
  <2>2. \A i \in k..b - 1 : \E o \in Slice(F, k, l) : g[o] = i
    <3>1. ASSUME NEW i \in k..b - 1
          PROVE  \E o \in Slice(F, k, l) : g[o] = i
      <4>1. PICK o \in F : Rank(F, o) = i
        BY <1>1, <1>2
      <4>2. o \in Slice(F, k, l)
        BY <1>1, <4>1 DEF Slice
      <4>3. QED
        BY <4>1, <4>2
    <3>2. QED
      BY <3>1
  <2>3. QED
    BY <1>2, <2>1, <2>2 DEF Bijection, Injection, IsInjective, Surjection
<1>4. Slice(F, k, l) \subseteq F /\ IsFiniteSet(Slice(F, k, l))
  <2>1. Slice(F, k, l) \subseteq F
    BY DEF Slice
  <2>2. QED
    BY <2>1, FS_Subset
<1>5. Cardinality(k..b - 1) = Cardinality(Slice(F, k, l))
  <2>1. ExistsBijection(Slice(F, k, l), k..b - 1)
    BY <1>3 DEF ExistsBijection
  <2>2. QED
    BY <1>4, <2>1, FS_Bijection
<1>6. Cardinality(k..b - 1) = IF k > b - 1 THEN 0 ELSE (b - 1) - k + 1
  <2>1. k \in Int /\ b - 1 \in Int
    BY <1>1
  <2>2. QED
    BY <2>1, FS_Interval
<1>7. QED
  BY <1>1, <1>4, <1>5, <1>6

\* A new element moves those below it down by one.
LEMMA RankAdd ==
  ASSUME NEW F, \A i \in F : i \in Nat, IsFiniteSet(F), NEW x \in Nat, x \notin F, NEW o \in Nat
  PROVE  Rank(F \cup {x}, o) = IF o < x THEN Rank(F, o) + 1 ELSE Rank(F, o)
<1>1. CASE o < x
  <2>1. Above(F \cup {x}, o) = Above(F, o) \cup {x} /\ x \notin Above(F, o)
    BY <1>1 DEF Above
  <2>2. QED
    BY <1>1, <2>1, RankType, FS_AddElement DEF Rank
<1>2. CASE ~(o < x)
  <2>1. Above(F \cup {x}, o) = Above(F, o)
    BY <1>2 DEF Above
  <2>2. QED
    BY <1>2, <2>1 DEF Rank
<1>3. QED
  BY <1>1, <1>2

\* An element that arrives hides nothing that was passed, and brings at most
\* one element ahead again.
LEMMA Arrival ==
  ASSUME NEW F, \A i \in F : i \in Nat, IsFiniteSet(F), NEW x \in Nat, x \notin F,
         NEW k \in Nat, NEW S, \A i \in S : i \in Nat, IsFiniteSet(S)
  PROVE  /\ Passed(F \cup {x}, S, k) \subseteq Passed(F, S, k)
         /\ IsFiniteSet(Ahead(F \cup {x}, S, k)) /\ IsFiniteSet(Ahead(F, S, k))
         /\ Cardinality(Ahead(F \cup {x}, S, k)) <= Cardinality(Ahead(F, S, k)) + 1
<1> DEFINE G == F \cup {x}
<1>1. Passed(G, S, k) \subseteq Passed(F, S, k)
  BY RankAdd, RankType DEF Passed
<1>2. IsFiniteSet(Ahead(G, S, k)) /\ IsFiniteSet(Ahead(F, S, k))
  <2>1. Ahead(G, S, k) \subseteq S /\ Ahead(F, S, k) \subseteq S
    BY DEF Ahead
  <2>2. QED
    BY <2>1, FS_Subset
<1>3. IsFiniteSet(G) /\ (\A i \in G : i \in Nat)
  BY FS_AddElement
<1>4. ASSUME NEW E, Ahead(G, S, k) \subseteq Ahead(F, S, k) \cup E,
             IsFiniteSet(E), Cardinality(E) \in Nat, Cardinality(E) <= 1
      PROVE  Cardinality(Ahead(G, S, k)) <= Cardinality(Ahead(F, S, k)) + 1
  <2> DEFINE U == Ahead(F, S, k) \cup E
             V == Ahead(F, S, k) \cap E
  <2>1. /\ IsFiniteSet(U)
        /\ Cardinality(U) = Cardinality(Ahead(F, S, k)) + Cardinality(E) - Cardinality(V)
    BY <1>2, <1>4, FS_Union
  <2>2. IsFiniteSet(V)
    BY <1>2, FS_Intersection
  <2>3. /\ Cardinality(V) \in Nat /\ Cardinality(Ahead(F, S, k)) \in Nat
        /\ Cardinality(Ahead(G, S, k)) \in Nat
    BY <1>2, <2>2, FS_CardinalityType
  <2>4. Cardinality(Ahead(G, S, k)) <= Cardinality(U)
    BY <1>4, <2>1, FS_Subset
  <2>5. QED
    BY <1>4, <2>1, <2>3, <2>4
<1>5. CASE Rank(G, x) >= k
  <2>1. ASSUME NEW o \in Ahead(G, S, k), o # x
        PROVE  o \in Ahead(F, S, k)
    <3>1. o \in S /\ o \in F /\ Rank(G, o) >= k
      BY <2>1 DEF Ahead
    <3>2. CASE o < x
      <4>1. Rank(G, x) < Rank(G, o)
        BY <1>3, <3>1, <3>2, RankOrder
      <4>2. Rank(G, o) = Rank(F, o) + 1 /\ Rank(F, o) \in Nat /\ Rank(G, x) \in Nat
        BY <1>3, <3>1, <3>2, RankAdd, RankType
      <4>3. QED
        BY <1>5, <3>1, <4>1, <4>2 DEF Ahead
    <3>3. CASE ~(o < x)
      BY <3>1, <3>3, RankAdd DEF Ahead
    <3>4. QED
      BY <3>2, <3>3
  <2>2. Ahead(G, S, k) \subseteq Ahead(F, S, k) \cup {x}
    BY <2>1
  <2>3. IsFiniteSet({x}) /\ Cardinality({x}) = 1
    BY FS_Singleton
  <2>4. QED
    BY <1>1, <1>2, <1>4, <2>2, <2>3
<1>6. CASE ~(Rank(G, x) >= k)
  <2>1. ASSUME NEW o \in Ahead(G, S, k), o \notin Ahead(F, S, k)
        PROVE  o \in Slice(G, k, 1)
    <3>1. o \in S /\ o \in G /\ o # x /\ o \in F /\ Rank(G, o) >= k /\ o \in Nat
      BY <1>6, <2>1 DEF Ahead
    <3>2. ~(Rank(F, o) >= k) /\ Rank(F, o) \in Nat
      BY <2>1, <3>1, RankType DEF Ahead
    <3>3. Rank(G, o) = IF o < x THEN Rank(F, o) + 1 ELSE Rank(F, o)
      BY <3>1, RankAdd
    <3>4. QED
      BY <3>1, <3>2, <3>3 DEF Slice
  <2>2. Ahead(G, S, k) \subseteq Ahead(F, S, k) \cup Slice(G, k, 1)
    BY <2>1
  <2>3. /\ IsFiniteSet(Slice(G, k, 1)) /\ Cardinality(Slice(G, k, 1)) \in Nat
        /\ Cardinality(Slice(G, k, 1)) <= 1
    <3>1. /\ Cardinality(Slice(G, k, 1)) =
               IF Cardinality(G) >= k + 1 THEN 1
               ELSE IF Cardinality(G) > k THEN Cardinality(G) - k ELSE 0
          /\ IsFiniteSet(Slice(G, k, 1)) /\ Cardinality(Slice(G, k, 1)) \in Nat
      BY <1>3, SliceSize
    <3>2. Cardinality(G) \in Nat
      BY <1>3, FS_CardinalityType
    <3>3. QED
      BY <3>1, <3>2
  <2>4. QED
    BY <1>1, <1>2, <1>4, <2>2, <2>3
<1>7. QED
  BY <1>5, <1>6

\* An element that leaves lets at most one pass unseen, and brings none ahead.
LEMMA Departure ==
  ASSUME NEW F, \A i \in F : i \in Nat, IsFiniteSet(F), NEW x \in F,
         NEW k \in Nat, NEW S \in SUBSET F, NEW T, \A i \in T : i \in Nat
  PROVE  /\ IsFiniteSet(Passed(F \ {x}, S \ {x}, k)) /\ IsFiniteSet(Passed(F, S, k))
         /\ Cardinality(Passed(F \ {x}, S \ {x}, k)) <= Cardinality(Passed(F, S, k)) + 1
         /\ Ahead(F \ {x}, T, k) \subseteq Ahead(F, T, k)
<1> DEFINE G == F \ {x}
           P == Passed(F, S, k)
           Q == Passed(G, S \ {x}, k)
           E == Slice(F, k, 1)
<1>1. (\A i \in G : i \in Nat) /\ IsFiniteSet(G) /\ G \cup {x} = F /\ x \notin G /\ x \in Nat
  BY FS_RemoveElement
<1>2. ASSUME NEW o \in Nat
      PROVE  /\ Rank(F, o) = IF o < x THEN Rank(G, o) + 1 ELSE Rank(G, o)
             /\ Rank(F, o) \in Nat /\ Rank(G, o) \in Nat
  <2>1. Rank(G \cup {x}, o) = IF o < x THEN Rank(G, o) + 1 ELSE Rank(G, o)
    BY <1>1, RankAdd
  <2>2. QED
    BY <1>1, <2>1, RankType
<1>3. Ahead(G, T, k) \subseteq Ahead(F, T, k)
  <2>1. ASSUME NEW o \in Ahead(G, T, k)
        PROVE  o \in Ahead(F, T, k)
    <3>1. o \in T /\ o \in F /\ o \in Nat /\ Rank(G, o) >= k
      BY <2>1 DEF Ahead
    <3>2. /\ Rank(F, o) = IF o < x THEN Rank(G, o) + 1 ELSE Rank(G, o)
          /\ Rank(F, o) \in Nat /\ Rank(G, o) \in Nat
      BY <1>2, <3>1
    <3>3. QED
      BY <3>1, <3>2 DEF Ahead
  <2>2. QED
    BY <2>1
<1>4. Q \subseteq P \cup E
  <2>1. ASSUME NEW o \in Q, o \notin P
        PROVE  o \in E
    <3>1. o \in S /\ o \in F /\ o \in Nat /\ Rank(G, o) < k /\ ~(Rank(F, o) < k)
      BY <2>1 DEF Passed
    <3>2. /\ Rank(F, o) = IF o < x THEN Rank(G, o) + 1 ELSE Rank(G, o)
          /\ Rank(F, o) \in Nat /\ Rank(G, o) \in Nat
      BY <1>2, <3>1
    <3>3. Rank(F, o) >= k /\ Rank(F, o) < k + 1
      BY <3>1, <3>2
    <3>4. QED
      BY <3>1, <3>3 DEF Slice
  <2>2. QED
    BY <2>1
<1>5. IsFiniteSet(P) /\ IsFiniteSet(Q)
  <2>1. P \subseteq F /\ Q \subseteq F
    BY DEF Passed
  <2>2. QED
    BY <2>1, FS_Subset
<1>6. IsFiniteSet(E) /\ Cardinality(E) \in Nat /\ Cardinality(E) <= 1
  <2>1. /\ Cardinality(E) = IF Cardinality(F) >= k + 1 THEN 1
                           ELSE IF Cardinality(F) > k THEN Cardinality(F) - k ELSE 0
        /\ IsFiniteSet(E) /\ Cardinality(E) \in Nat
    BY SliceSize
  <2>2. Cardinality(F) \in Nat
    BY FS_CardinalityType
  <2>3. QED
    BY <2>1, <2>2
<1> HIDE DEF P, Q, E
<1>7. /\ IsFiniteSet(P \cup E)
      /\ Cardinality(P \cup E) = Cardinality(P) + Cardinality(E) - Cardinality(P \cap E)
  BY <1>5, <1>6, FS_Union
<1>8. IsFiniteSet(P \cap E)
  BY <1>5, FS_Intersection
<1>9. Cardinality(P \cap E) \in Nat /\ Cardinality(P) \in Nat /\ Cardinality(Q) \in Nat
  BY <1>5, <1>8, FS_CardinalityType
<1>10. Cardinality(Q) <= Cardinality(P \cup E)
  BY <1>4, <1>7, FS_Subset
<1>11. Cardinality(Q) <= Cardinality(P) + 1
  BY <1>6, <1>7, <1>9, <1>10
<1>12. QED
  BY <1>3, <1>5, <1>11 DEF P, Q

\* What is received twice counts twice.
LEMMA ReceiveCount ==
  ASSUME NEW T, IsFiniteSet(T), NEW P, IsFiniteSet(P)
  PROVE  Cardinality(T \cup P) + Cardinality(P \cap T) = Cardinality(T) + Cardinality(P)
<1>1. /\ IsFiniteSet(T \cup P)
      /\ Cardinality(T \cup P) = Cardinality(T) + Cardinality(P) - Cardinality(T \cap P)
  BY FS_Union
<1>2. Cardinality(T \cap P) = Cardinality(P \cap T) /\ IsFiniteSet(P \cap T)
  <2>1. T \cap P = P \cap T
    OBVIOUS
  <2>2. QED
    BY <2>1, FS_Intersection
<1>3. /\ Cardinality(T) \in Nat /\ Cardinality(P \cap T) \in Nat
      /\ Cardinality(P) \in Nat
  BY <1>2, FS_CardinalityType
<1>4. QED
  BY <1>1, <1>2, <1>3

\* The page of the l ranks from k on is received: what it shows is not hidden,
\* and what it shows again was ahead.
LEMMA TurnOver ==
  ASSUME NEW F, \A i \in F : i \in Nat, IsFiniteSet(F), NEW k \in Nat, NEW l \in Nat,
         NEW S, NEW T, S \subseteq F, IsFiniteSet(T), NEW P, P = Slice(F, k, l)
  PROVE  /\ Passed(F, S \ (T \cup P), k + l) \subseteq Passed(F, S \ T, k)
         /\ Cardinality(P \cap T) + Cardinality(Ahead(F, T \cup P, k + l))
              <= Cardinality(Ahead(F, T, k))
         /\ Cardinality(P \cap T) \in Nat
<1> DEFINE A == Ahead(F, T \cup P, k + l)
           B == Ahead(F, T, k)
<1>0. \A o \in F : Rank(F, o) \in Nat
  BY RankType
<1>1. Passed(F, S \ (T \cup P), k + l) \subseteq Passed(F, S \ T, k)
  BY <1>0 DEF Passed, Slice
<1>2. P \cap T \subseteq B /\ A \subseteq B /\ (P \cap T) \cap A = {}
  BY <1>0 DEF Ahead, Slice
<1>3. IsFiniteSet(P) /\ Cardinality(P) \in Nat
  <2>1. IsFiniteSet(Slice(F, k, l)) /\ Cardinality(Slice(F, k, l)) \in Nat
    BY SliceSize
  <2>2. QED
    BY <2>1
<1>4. IsFiniteSet(B) /\ IsFiniteSet(P \cap T) /\ IsFiniteSet(A)
  <2>1. B \subseteq T
    BY DEF Ahead
  <2>2. IsFiniteSet(B)
    BY <2>1, FS_Subset
  <2>3. QED
    BY <1>2, <2>2, FS_Subset
<1> HIDE DEF A, B
<1>5. Cardinality(P \cap T) + Cardinality(A) <= Cardinality(B)
  <2>1. /\ IsFiniteSet((P \cap T) \cup A)
        /\ Cardinality((P \cap T) \cup A) =
             Cardinality(P \cap T) + Cardinality(A) - Cardinality((P \cap T) \cap A)
    BY <1>4, FS_Union
  <2>2. Cardinality((P \cap T) \cap A) = 0
    BY <1>2, FS_EmptySet
  <2>3. Cardinality((P \cap T) \cup A) <= Cardinality(B)
    BY <1>2, <1>4, FS_Subset
  <2>4. Cardinality(P \cap T) \in Nat /\ Cardinality(A) \in Nat
    BY <1>4, FS_CardinalityType
  <2>5. QED
    BY <2>1, <2>2, <2>3, <2>4
<1>6. Cardinality(P \cap T) \in Nat
  BY <1>4, FS_CardinalityType
<1>7. QED
  BY <1>1, <1>5, <1>6 DEF A, B

(***************************************************************************)
(* The reader.                                                             *)
(***************************************************************************)

\* The rows of the result that the pages received so far account for.
Offset == IF pc = "count" THEN page * Limit ELSE Skip

\* The rows received, with repetitions.
Received == Cardinality(seen) + repeats

\* While the result is read: of the rows passed no more are hidden than left,
\* of the rows ahead no more are known than arrived, and the rows received are
\* as many as were passed, but for those that left or arrived.
ReadingInv ==
  /\ steady \subseteq Found
  /\ Cardinality(Passed(Found, steady \ seen, Offset)) <= left
  /\ repeats + Cardinality(Ahead(Found, seen, Offset)) <= arrived
  /\ Received <= Offset
  /\ Received <= Cardinality(Found) + left
  /\ \/ Offset <= Received + arrived
     \/ pc = "count" /\ Cardinality(Found) <= Received + arrived

QueryInv ==
  /\ TypeOK
  /\ pc = "start" =>
       /\ page = 1 /\ seen = {} /\ repeats = 0
       /\ left = 0 /\ arrived = 0
  /\ Reading => ReadingInv
  /\ RepeatedAtMostArrived
  /\ HiddenAtMostLeft
  /\ TotalFits

LEMMA OrderFacts ==
  /\ IsFiniteSet(Order) /\ (\A o \in Order : o \in Nat)
  /\ IsFiniteSet(Found) /\ (\A o \in Found : o \in Nat) /\ Found \subseteq Order
  /\ Cardinality(Found) \in Nat
<1>1. IsFiniteSet(Order) /\ (\A o \in Order : o \in Nat)
  <2>1. 1 \in Int /\ Orders \in Int
    BY QueryAssumption
  <2>2. QED
    BY <2>1, FS_Interval DEF Order
<1>2. Found \subseteq Order
  BY DEF Found
<1>3. QED
  BY <1>1, <1>2, FS_Subset, FS_CardinalityType

\* The finite sets of the reader.
LEMMA ReaderFacts ==
  ASSUME TypeOK
  PROVE  /\ IsFiniteSet(seen) /\ Cardinality(seen) \in Nat
         /\ IsFiniteSet(steady \ seen) /\ Cardinality(steady \ seen) \in Nat
         /\ (\A o \in seen : o \in Nat)
         /\ Skip \in Nat /\ page * Limit = Skip + Limit /\ page * Limit \in Nat
         /\ Offset \in Nat /\ Received \in Nat
<1>1. seen \subseteq Order /\ steady \ seen \subseteq Order
  BY DEF TypeOK
<1>2. /\ IsFiniteSet(seen) /\ Cardinality(seen) \in Nat
      /\ IsFiniteSet(steady \ seen) /\ Cardinality(steady \ seen) \in Nat
      /\ (\A o \in seen : o \in Nat)
  BY <1>1, OrderFacts, FS_Subset, FS_CardinalityType
<1>3. Skip \in Nat /\ page * Limit = Skip + Limit /\ page * Limit \in Nat
  <2>1. page \in Nat /\ page - 1 \in Nat /\ Limit \in Nat
    BY QueryAssumption DEF TypeOK
  <2>2. \A x, y \in Nat : x * y \in Nat /\ (x + 1) * y = x * y + y
    OBVIOUS
  <2>3. page = (page - 1) + 1
    BY <2>1
  <2>4. QED
    BY <2>1, <2>2, <2>3 DEF Skip
<1>4. Offset \in Nat
  BY <1>3 DEF Offset
<1>5. Received \in Nat
  BY <1>2 DEF Received, TypeOK
<1>6. QED
  BY <1>2, <1>3, <1>4, <1>5

\* A change of one row changes the result by that row at most.
LEMMA FoundChange ==
  ASSUME TypeOK, NEW o \in Order, NEW row, Change(o, row)
  PROVE  \/ Found' = Found
         \/ o \notin Found /\ Found' = Found \cup {o}
         \/ o \in Found /\ Found' = Found \ {o}
<1>1. ASSUME NEW x \in Order, x # o
      PROVE  Matches(x)' = Matches(x)
  BY <1>1 DEF Change, reader, Matches, TypeOK
<1>2. QED
  BY <1>1 DEF Found

LEMMA ChangeStep ==
  ASSUME QueryInv, NEW o \in Order, NEW row \in Row, Change(o, row)
  PROVE  QueryInv'
<1>0. TypeOK /\ UNCHANGED reader /\ pc # "done" /\ o \in Nat
  BY OrderFacts DEF QueryInv, Change
<1>1. UNCHANGED <<Skip, Offset, Received>>
  BY <1>0 DEF reader, Skip, Offset, Received
<1>2. CASE ~Reading
  <2>1. UNCHANGED <<steady, left, arrived>>
    BY <1>2 DEF Change
  <2>2. TypeOK'
    BY <1>0, <2>1 DEF TypeOK, Change, reader
  <2>3. QED
    BY <1>0, <1>2, <2>1, <2>2
       DEF QueryInv, reader, Reading, RepeatedAtMostArrived, HiddenAtMostLeft, TotalFits
<1>3. CASE Reading
  <2>1. /\ left' = left + Cardinality(Found \ Found')
        /\ arrived' = arrived + Cardinality(Found' \ Found)
        /\ steady' = steady \cap Found'
        /\ ReadingInv
    BY <1>3 DEF Change, QueryInv
  <2>2. /\ IsFiniteSet(steady \ seen) /\ IsFiniteSet(seen) /\ (\A i \in seen : i \in Nat)
        /\ Offset \in Nat /\ Received \in Nat /\ Cardinality(seen) \in Nat
        /\ left \in Nat /\ arrived \in Nat /\ repeats \in Nat
    BY <1>0, ReaderFacts DEF TypeOK
  <2>3. Cardinality({}) = 0 /\ Cardinality({o}) = 1
    BY FS_EmptySet, FS_Singleton
  <2> DEFINE P == Passed(Found, steady \ seen, Offset)
             A == Ahead(Found, seen, Offset)
             PP == Passed(Found', steady' \ seen, Offset)
             AA == Ahead(Found', seen, Offset)
  <2>4. /\ P \subseteq Found /\ IsFiniteSet(P) /\ Cardinality(P) \in Nat
        /\ A \subseteq Found /\ IsFiniteSet(A) /\ Cardinality(A) \in Nat
    <3>1. P \subseteq Found /\ A \subseteq Found
      BY <2>1 DEF ReadingInv, Passed, Ahead
    <3>2. QED
      BY <3>1, OrderFacts, FS_Subset, FS_CardinalityType
  <2>5. /\ left' \in Nat /\ arrived' \in Nat
        /\ Cardinality(PP) <= left'
        /\ repeats + Cardinality(AA) <= arrived'
        /\ Cardinality(AA) \in Nat
        /\ Received <= Cardinality(Found') + left'
        /\ \/ Offset <= Received + arrived'
           \/ pc = "count" /\ Cardinality(Found') <= Received + arrived'
    <3>1. CASE Found' = Found
      <4>1. left' = left /\ arrived' = arrived /\ steady' = steady
        BY <2>1, <2>2, <2>3, <3>1 DEF ReadingInv
      <4>2. QED
        BY <2>1, <2>2, <2>4, <3>1, <4>1 DEF ReadingInv
    <3>2. CASE o \notin Found /\ Found' = Found \cup {o}
      <4>1. left' = left /\ arrived' = arrived + 1 /\ steady' = steady
        <5>1. Found \ Found' = {} /\ Found' \ Found = {o}
          BY <3>2
        <5>2. steady' = steady
          BY <2>1, <3>2 DEF ReadingInv
        <5>3. /\ left' = left + Cardinality({})
              /\ arrived' = arrived + Cardinality({o})
          BY <2>1, <5>1
        <5>4. QED
          BY <2>2, <2>3, <5>2, <5>3
      <4>2. /\ PP \subseteq P /\ IsFiniteSet(AA)
            /\ Cardinality(AA) <= Cardinality(A) + 1
        <5>1. \A i \in steady \ seen : i \in Nat
          BY <2>1, OrderFacts DEF ReadingInv
        <5>2. Passed(Found \cup {o}, steady \ seen, Offset) \subseteq P
          BY <1>0, <2>2, <3>2, <5>1, OrderFacts, Arrival
        <5>3. /\ IsFiniteSet(Ahead(Found \cup {o}, seen, Offset))
              /\ Cardinality(Ahead(Found \cup {o}, seen, Offset)) <= Cardinality(A) + 1
          BY <1>0, <2>2, <3>2, OrderFacts, Arrival
        <5>4. QED
          BY <3>2, <4>1, <5>2, <5>3
      <4>3. /\ Cardinality(PP) <= Cardinality(P) /\ Cardinality(PP) \in Nat
            /\ Cardinality(AA) \in Nat
        BY <2>4, <4>2, FS_Subset, FS_CardinalityType
      <4>4. Cardinality(Found') = Cardinality(Found) + 1 /\ Cardinality(Found) \in Nat
        BY <3>2, OrderFacts, FS_AddElement
      <4>5. /\ Cardinality(P) <= left /\ repeats + Cardinality(A) <= arrived
            /\ Received <= Cardinality(Found) + left
            /\ \/ Offset <= Received + arrived
               \/ pc = "count" /\ Cardinality(Found) <= Received + arrived
        BY <2>1 DEF ReadingInv
      <4> HIDE DEF P, A, PP, AA
      <4>6. QED
        BY <2>2, <2>4, <4>1, <4>2, <4>3, <4>4, <4>5
    <3>3. CASE o \in Found /\ Found' = Found \ {o}
      <4>1. left' = left + 1 /\ arrived' = arrived /\ steady' = steady \ {o}
        <5>1. Found \ Found' = {o} /\ Found' \ Found = {}
          BY <3>3
        <5>2. QED
          BY <2>1, <2>2, <2>3, <3>3, <5>1 DEF ReadingInv
      <4>2. /\ IsFiniteSet(PP) /\ Cardinality(PP) <= Cardinality(P) + 1
            /\ AA \subseteq A
        <5>1. steady \ seen \subseteq Found /\ (steady \ {o}) \ seen = (steady \ seen) \ {o}
          BY <2>1 DEF ReadingInv
        <5>2. /\ IsFiniteSet(Passed(Found \ {o}, (steady \ seen) \ {o}, Offset))
              /\ Cardinality(Passed(Found \ {o}, (steady \ seen) \ {o}, Offset))
                   <= Cardinality(P) + 1
          BY <2>2, <3>3, <5>1, OrderFacts, Departure
        <5>3. Ahead(Found \ {o}, seen, Offset) \subseteq A
          BY <2>2, <3>3, <5>1, OrderFacts, Departure
        <5>4. QED
          BY <3>3, <4>1, <5>1, <5>2, <5>3
      <4>3. /\ Cardinality(AA) <= Cardinality(A) /\ Cardinality(PP) \in Nat
            /\ Cardinality(AA) \in Nat
        BY <2>4, <4>2, FS_Subset, FS_CardinalityType
      <4>4. Cardinality(Found') = Cardinality(Found) - 1 /\ Cardinality(Found) \in Nat
        BY <3>3, OrderFacts, FS_RemoveElement
      <4>5. /\ Cardinality(P) <= left /\ repeats + Cardinality(A) <= arrived
            /\ Received <= Cardinality(Found) + left
            /\ \/ Offset <= Received + arrived
               \/ pc = "count" /\ Cardinality(Found) <= Received + arrived
        BY <2>1 DEF ReadingInv
      <4> HIDE DEF P, A, PP, AA
      <4>6. QED
        BY <2>2, <2>4, <4>1, <4>2, <4>3, <4>4, <4>5
    <3>4. QED
      BY <1>0, <3>1, <3>2, <3>3, FoundChange
  <2>6. ReadingInv'
    BY <1>0, <1>1, <2>1, <2>5 DEF ReadingInv, reader
  <2>7. TypeOK'
    BY <1>0, <2>1, <2>5 DEF TypeOK, Change, reader
  <2>8. repeats <= arrived'
    BY <2>2, <2>5
  <2>9. QED
    BY <1>0, <1>3, <2>6, <2>7, <2>8
       DEF QueryInv, reader, Reading, RepeatedAtMostArrived, HiddenAtMostLeft, TotalFits
<1>4. QED
  BY <1>2, <1>3

LEMMA AskStep ==
  ASSUME QueryInv, Ask
  PROVE  QueryInv'
<1>1. /\ TypeOK /\ pc = "start" /\ pc' = "select" /\ steady' = Found
      /\ page = 1 /\ seen = {} /\ repeats = 0 /\ left = 0 /\ arrived = 0
      /\ UNCHANGED <<rows, filter, page, total, seen, repeats, left, arrived>>
  BY DEF QueryInv, Ask
<1>2. Found' = Found /\ Offset = 0 /\ Offset' = 0
  <2>1. Found' = Found
    BY <1>1 DEF Found, Matches
  <2>2. Skip = 0 * Limit /\ Limit \in Nat
    BY <1>1, QueryAssumption DEF Skip
  <2>3. QED
    BY <1>1, <2>1, <2>2 DEF Offset, Skip
<1>3. Passed(Found, Found, 0) = {} /\ Ahead(Found, {}, 0) = {}
  <2>1. \A x \in Found : Rank(Found, x) \in Nat
    BY OrderFacts, RankType
  <2>2. QED
    BY <2>1 DEF Passed, Ahead
<1>4. Cardinality({}) = 0 /\ Received = 0 /\ Received' = 0
  BY <1>1, FS_EmptySet DEF Received
<1>5. ReadingInv'
  <2>1. Found \ {} = Found
    OBVIOUS
  <2>2. Found' = Found /\ steady' = Found /\ seen' = {} /\ Offset' = 0
    BY <1>1, <1>2
  <2>3. /\ Passed(Found, steady \ seen, Offset)' = {}
        /\ Ahead(Found, seen, Offset)' = {}
    BY <1>1, <1>2, <1>3, <2>1, <2>2
  <2>4. steady' \subseteq Found' /\ Cardinality(Found') \in Nat
    BY <1>1, <1>2, OrderFacts
  <2>5. left' = 0 /\ arrived' = 0 /\ repeats' = 0
    BY <1>1
  <2>6. QED
    BY <1>2, <1>4, <2>3, <2>4, <2>5 DEF ReadingInv
<1>6. TypeOK'
  BY <1>1, OrderFacts DEF TypeOK
<1>7. QED
  BY <1>1, <1>5, <1>6
     DEF QueryInv, Reading, RepeatedAtMostArrived, HiddenAtMostLeft, TotalFits

LEMMA SelectStep ==
  ASSUME QueryInv, Select
  PROVE  QueryInv'
<1> DEFINE n == Cardinality(Page)
           known == n < Limit /\ (n > 0 \/ page = 1)
           P == Passed(Found, steady \ seen, Skip)
           PP == Passed(Found, steady \ (seen \cup Page), Skip + Limit)
           A == Ahead(Found, seen, Skip)
           AA == Ahead(Found, seen \cup Page, Skip + Limit)
           c == Cardinality(Page \cap seen)
<1>1. /\ TypeOK /\ pc = "select" /\ seen' = seen \cup Page /\ repeats' = repeats + c
      /\ total' = IF known THEN Skip + n ELSE total
      /\ pc' = IF known THEN "done" ELSE "count"
      /\ UNCHANGED <<rows, filter, page, steady, left, arrived>>
  BY DEF QueryInv, Select
<1>2. Found' = Found /\ Offset = Skip
  BY <1>1 DEF Found, Matches, Offset
<1>3. Page = Slice(Found, Skip, Limit) /\ Page \subseteq Order
  BY OrderFacts DEF Page, Slice, Before, Rank, Above
<1>4. /\ IsFiniteSet(seen) /\ Cardinality(seen) \in Nat /\ (\A o \in seen : o \in Nat)
      /\ Skip \in Nat /\ page * Limit = Skip + Limit /\ Limit \in Nat /\ Limit # 0
      /\ left \in Nat /\ arrived \in Nat /\ repeats \in Nat /\ Received \in Nat
      /\ Cardinality(Found) \in Nat
  BY <1>1, ReaderFacts, OrderFacts, QueryAssumption DEF TypeOK
<1>5. /\ steady \subseteq Found /\ Cardinality(P) <= left
      /\ repeats + Cardinality(A) <= arrived
      /\ Received <= Skip /\ Received <= Cardinality(Found) + left
      /\ Skip <= Received + arrived
  BY <1>1, <1>2 DEF QueryInv, Reading, ReadingInv
<1>6. /\ IsFiniteSet(Page) /\ n \in Nat
      /\ n = IF Cardinality(Found) >= Skip + Limit THEN Limit
             ELSE IF Cardinality(Found) > Skip THEN Cardinality(Found) - Skip ELSE 0
  <2>1. LET S == Slice(Found, Skip, Limit)
        IN  /\ IsFiniteSet(S) /\ Cardinality(S) \in Nat
            /\ Cardinality(S) =
                 IF Cardinality(Found) >= Skip + Limit THEN Limit
                 ELSE IF Cardinality(Found) > Skip THEN Cardinality(Found) - Skip ELSE 0
    BY <1>4, OrderFacts, SliceSize
  <2>2. QED
    BY <1>3, <2>1
<1>7. /\ PP \subseteq P /\ c + Cardinality(AA) <= Cardinality(A) /\ c \in Nat
      /\ Cardinality(seen \cup Page) + c = Cardinality(seen) + n
  <2> HIDE DEF known
  <2>1. PICK F, k, l, S, T, Q :
          /\ F = Found /\ k = Skip /\ l = Limit /\ S = steady /\ T = seen
          /\ Q = Page
    OBVIOUS
  <2>2. /\ (\A i \in F : i \in Nat) /\ IsFiniteSet(F) /\ k \in Nat /\ l \in Nat
        /\ S \subseteq F /\ IsFiniteSet(T) /\ Q = Slice(F, k, l)
    BY <1>3, <1>4, <1>5, <2>1, OrderFacts
  <2>3. /\ Passed(F, S \ (T \cup Q), k + l) \subseteq Passed(F, S \ T, k)
        /\ Cardinality(Q \cap T) + Cardinality(Ahead(F, T \cup Q, k + l))
             <= Cardinality(Ahead(F, T, k))
        /\ Cardinality(Q \cap T) \in Nat
    <3>1. Passed(F, S \ (T \cup Q), k + l) \subseteq Passed(F, S \ T, k)
      BY <2>2, TurnOver
    <3>2. Cardinality(Q \cap T) + Cardinality(Ahead(F, T \cup Q, k + l))
            <= Cardinality(Ahead(F, T, k))
      BY <2>2, TurnOver, Zenon
    <3>3. Cardinality(Q \cap T) \in Nat
      BY <2>2, TurnOver, Zenon
    <3>4. QED
      BY <3>1, <3>2, <3>3
  <2>4. Cardinality(seen \cup Page) + Cardinality(Page \cap seen) = Cardinality(seen) + n
    BY <1>4, <1>6, ReceiveCount
  <2>5. QED
    BY <2>1, <2>3, <2>4
<1>8. /\ IsFiniteSet(P) /\ IsFiniteSet(PP) /\ Cardinality(PP) <= Cardinality(P)
      /\ Cardinality(P) \in Nat /\ Cardinality(PP) \in Nat
      /\ Cardinality(A) \in Nat /\ Cardinality(AA) \in Nat
      /\ Cardinality(seen \cup Page) \in Nat
  <2>1. P \subseteq Found /\ A \subseteq Found /\ AA \subseteq Found
    BY <1>5 DEF Passed, Ahead
  <2>2. IsFiniteSet(seen \cup Page)
    BY <1>4, <1>6, FS_Union
  <2>3. QED
    BY <1>7, <2>1, <2>2, OrderFacts, FS_Subset, FS_CardinalityType
<1>9. Received' = Received + n /\ Received' \in Nat
  <2>1. Received' = Cardinality(seen \cup Page) + (repeats + c)
    BY <1>1 DEF Received
  <2>2. Received = Cardinality(seen) + repeats
    BY DEF Received
  <2> HIDE DEF n, c
  <2>3. QED
    BY <1>4, <1>6, <1>7, <1>8, <2>1, <2>2
<1> HIDE DEF n, c, P, PP, A, AA
<1>10. TypeOK'
  <2>1. /\ seen' \subseteq Order /\ repeats' \in Nat /\ total' \in Nat
        /\ pc' \in {"start", "select", "count", "done"}
    BY <1>1, <1>3, <1>4, <1>6, <1>7 DEF TypeOK
  <2>2. QED
    BY <1>1, <2>1 DEF TypeOK
<1>11. repeats' <= arrived'
  BY <1>1, <1>4, <1>5, <1>7, <1>8
<1>12. CASE ~known
  <2>1. pc' = "count" /\ Offset' = Skip + Limit
    BY <1>1, <1>4, <1>12 DEF Offset
  <2>2. /\ Cardinality(PP) <= left
        /\ repeats' + Cardinality(AA) <= arrived
        /\ Received' <= Skip + Limit
        /\ Received' <= Cardinality(Found) + left
    BY <1>1, <1>4, <1>5, <1>6, <1>7, <1>8, <1>9
  <2>3. Skip + Limit <= Received' + arrived \/ Cardinality(Found) <= Received' + arrived
    BY <1>4, <1>5, <1>6, <1>9
  <2>4. ReadingInv'
    <3>1. /\ Passed(Found, steady \ seen, Offset)' = PP
          /\ Ahead(Found, seen, Offset)' = AA
      BY <1>1, <1>2, <2>1 DEF PP, AA
    <3>2. QED
      BY <1>1, <1>2, <1>5, <2>1, <2>2, <2>3, <3>1 DEF ReadingInv
  <2>5. QED
    BY <1>10, <1>11, <2>1, <2>4
       DEF QueryInv, Reading, RepeatedAtMostArrived, HiddenAtMostLeft, TotalFits
<1>13. CASE known
  <2>1. pc' = "done" /\ total' = Skip + n /\ n < Limit /\ Cardinality(Found) <= Skip + n
    BY <1>1, <1>4, <1>6, <1>13
  <2>2. HiddenAtMostLeft'
    <3>1. \A o \in Found : Rank(Found, o) \in Nat /\ Rank(Found, o) < Skip + Limit
      <4>1. \A o \in Found : Rank(Found, o) \in 0..Cardinality(Found) - 1
        BY OrderFacts, RankBijection DEF Bijection, Injection
      <4>2. QED
        BY <1>4, <2>1, <1>6, <4>1
    <3>2. steady' \ seen' = PP
      BY <1>1, <1>5, <3>1 DEF PP, Passed
    <3>3. Cardinality(PP) <= left'
      BY <1>1, <1>4, <1>5, <1>8
    <3>4. QED
      BY <3>2, <3>3 DEF HiddenAtMostLeft
  <2>3. TotalFits'
    <3>1. /\ Received' <= total' + left'
          /\ total' <= Received' + arrived'
      BY <1>1, <1>4, <1>5, <1>6, <1>9, <2>1
    <3>2. QED
      BY <3>1 DEF TotalFits, Received
  <2>4. QED
    BY <1>10, <1>11, <2>1, <2>2, <2>3 DEF QueryInv, Reading, RepeatedAtMostArrived
<1>14. QED
  BY <1>12, <1>13

LEMMA CountStep ==
  ASSUME QueryInv, Count
  PROVE  QueryInv'
<1> DEFINE n == Cardinality(Found)
           P == Passed(Found, steady \ seen, Offset)
<1>1. /\ TypeOK /\ pc = "count" /\ total' = n
      /\ UNCHANGED <<rows, filter, seen, repeats, steady, left, arrived>>
  BY DEF QueryInv, Count
<1>2. /\ Found' = Found /\ Offset = page * Limit /\ Offset \in Nat /\ n \in Nat
      /\ Received' = Received /\ Received \in Nat /\ left \in Nat /\ arrived \in Nat
  BY <1>1, ReaderFacts, OrderFacts DEF Found, Matches, Offset, Received, TypeOK
<1>3. ReadingInv
  BY <1>1 DEF QueryInv, Reading
<1>4. CASE page * Limit >= n
  <2>1. pc' = "done" /\ page' = page
    BY <1>4 DEF Count
  <2>2. TypeOK' /\ RepeatedAtMostArrived'
    BY <1>1, <1>2, <2>1 DEF TypeOK, QueryInv, RepeatedAtMostArrived
  <2>3. HiddenAtMostLeft'
    <3>1. \A o \in Found : Rank(Found, o) \in Nat /\ Rank(Found, o) < Offset
      <4>1. \A o \in Found : Rank(Found, o) \in 0..n - 1
        BY OrderFacts, RankBijection DEF Bijection, Injection
      <4> HIDE DEF n
      <4>2. QED
        BY <1>2, <1>4, <4>1
    <3>2. steady \ seen = P
      BY <1>3, <3>1 DEF ReadingInv, Passed
    <3>3. Cardinality(steady \ seen) <= left
      BY <1>3, <3>2 DEF ReadingInv
    <3>4. QED
      BY <1>1, <3>3 DEF HiddenAtMostLeft
  <2>4. TotalFits'
    <3>1. Received <= n + left /\ n <= Received + arrived
      <4> HIDE DEF n
      <4>1. /\ Received <= n + left
            /\ Offset <= Received + arrived \/ n <= Received + arrived
        BY <1>3 DEF ReadingInv, n
      <4>2. QED
        BY <1>2, <1>4, <4>1
    <3>2. QED
      BY <1>1, <3>1 DEF TotalFits, Received
  <2>5. QED
    BY <2>1, <2>2, <2>3, <2>4 DEF QueryInv, Reading
<1>5. CASE ~(page * Limit >= n)
  <2>1. pc' = "select" /\ page' = page + 1
    BY <1>5 DEF Count
  <2>2. TypeOK' /\ RepeatedAtMostArrived'
    BY <1>1, <1>2, <2>1 DEF TypeOK, QueryInv, RepeatedAtMostArrived
  <2>3. Offset' = Offset
    <3>1. page \in Nat /\ Limit \in Nat
      BY <1>1, QueryAssumption DEF TypeOK
    <3>2. (page + 1) - 1 = page
      BY <3>1
    <3>3. QED
      BY <1>2, <2>1, <3>2 DEF Offset, Skip
  <2>4. Offset <= Received + arrived
    <3> HIDE DEF n
    <3>1. Offset <= Received + arrived \/ n <= Received + arrived
      BY <1>3 DEF ReadingInv, n
    <3>2. QED
      BY <1>2, <1>5, <3>1
  <2>5. ReadingInv'
    BY <1>1, <1>2, <1>3, <2>3, <2>4 DEF ReadingInv
  <2>6. QED
    BY <2>1, <2>2, <2>5 DEF QueryInv, Reading, HiddenAtMostLeft, TotalFits
<1>6. QED
  BY <1>4, <1>5

(***************************************************************************)
(* The invariant, and what it says.                                        *)
(***************************************************************************)

LEMMA QueryInit ==
  ASSUME Init
  PROVE  QueryInv
BY QueryAssumption
   DEF Init, QueryInv, TypeOK, Filter, Reading, RepeatedAtMostArrived,
       HiddenAtMostLeft, TotalFits

LEMMA QueryNext ==
  ASSUME QueryInv, [Next]_vars
  PROVE  QueryInv'
<1>1. ASSUME NEW o \in Order, Begin(o)
      PROVE  QueryInv'
  <2>1. NewRow \in Row
    BY QueryAssumption DEF NewRow, Row
  <2>2. QED
    BY <1>1, <2>1, ChangeStep DEF Begin
<1>2. ASSUME NEW o \in Order, rows[o] # None
      PROVE  rows[o] \in Row
  BY <1>2 DEF QueryInv, TypeOK
<1>3. ASSUME NEW o \in Order, Commit(o)
      PROVE  QueryInv'
  <2>1. [rows[o] EXCEPT !.state = "stored"] \in Row
    BY <1>2, <1>3 DEF Commit, Row
  <2>2. QED
    BY <1>3, <2>1, ChangeStep DEF Commit
<1>4. ASSUME NEW o \in Order, Delete(o)
      PROVE  QueryInv'
  <2>1. [rows[o] EXCEPT !.state = "deleted"] \in Row
    BY <1>2, <1>4 DEF Delete, Row
  <2>2. QED
    BY <1>4, <2>1, ChangeStep DEF Delete
<1>5. ASSUME NEW o \in Order, NEW s \in Status, Update(o, s)
      PROVE  QueryInv'
  <2>1. [rows[o] EXCEPT !.status = s, !.state = "stored"] \in Row
    BY <1>2, <1>5 DEF Update, Row
  <2>2. QED
    BY <1>5, <2>1, ChangeStep DEF Update
<1>6. CASE UNCHANGED vars
  <2>1. UNCHANGED <<Found, Skip>>
    BY <1>6 DEF vars, Found, Matches, Skip
  <2>2. UNCHANGED <<Offset, Received>>
    BY <1>6, <2>1 DEF vars, Offset, Received
  <2>3. QED
    BY <1>6, <2>1, <2>2
       DEF vars, QueryInv, TypeOK, Reading, ReadingInv, RepeatedAtMostArrived,
           HiddenAtMostLeft, TotalFits
<1>7. QED
  BY <1>1, <1>3, <1>4, <1>5, <1>6, AskStep, SelectStep, CountStep DEF Next, Quiet

\* The invariant of the reading: in every state of every run, the ranks in
\* the result at that moment say what the reader can have missed or repeated.
THEOREM Invariant == Spec => []QueryInv
<1>1. Init => QueryInv
  BY QueryInit
<1>2. QueryInv /\ [Next]_vars => QueryInv'
  BY QueryNext
<1>3. QED
  BY <1>1, <1>2, PTL DEF Spec

\* The types of the reader and of the table.
THEOREM TypeCorrect == Spec => []TypeOK
<1>1. QueryInv => TypeOK
  BY DEF QueryInv
<1>2. QED
  BY <1>1, Invariant, PTL

\* However many orders, and whatever comes and goes between the pages and
\* between the two queries of a page of findAll, a reader of all pages misses
\* at most one row for each that left.
THEOREM HiddenAreFew == Spec => []HiddenAtMostLeft
<1>1. QueryInv => HiddenAtMostLeft
  BY DEF QueryInv
<1>2. QED
  BY <1>1, Invariant, PTL

\* It receives at most one row again for each that arrived.
THEOREM RepeatsAreFew == Spec => []RepeatedAtMostArrived
<1>1. QueryInv => RepeatedAtMostArrived
  BY DEF QueryInv
<1>2. QED
  BY <1>1, Invariant, PTL

\* The total that findAll reports last agrees with the rows received, but for
\* those that left or arrived while the pages were read.
THEOREM TotalsFit == Spec => []TotalFits
<1>1. QueryInv => TotalFits
  BY DEF QueryInv
<1>2. QED
  BY <1>1, Invariant, PTL

-----------------------------------------------------------------------------
(* What a reader has who is not disturbed.                                   *)

\* As long as no row has left or arrived, the result is the one the reader
\* began with, and what it received is from it.
StillInv ==
  pc # "start" /\ left = 0 /\ arrived = 0 => Found = steady /\ seen \subseteq steady

LEMMA StillChange ==
  ASSUME QueryInv, StillInv, NEW o \in Order, NEW row \in Row, Change(o, row)
  PROVE  StillInv'
<1>0. TypeOK /\ UNCHANGED <<pc, seen>>
  BY DEF QueryInv, Change, reader
<1>1. CASE ~Reading
  BY <1>0, <1>1 DEF Change, StillInv, Reading, TypeOK
<1>2. CASE Reading
  <2>1. SUFFICES ASSUME left' = 0, arrived' = 0 PROVE Found' = steady' /\ seen' \subseteq steady'
    BY DEF StillInv
  <2>2. /\ left' = left + Cardinality(Found \ Found')
        /\ arrived' = arrived + Cardinality(Found' \ Found)
        /\ steady' = steady \cap Found'
    BY <1>2 DEF Change
  <2>3. Found' = Found
    <3>1. CASE o \notin Found /\ Found' = Found \cup {o}
      <4>1. Found' \ Found = {o}
        BY <3>1
      <4>2. Cardinality(Found' \ Found) = 1
        BY <4>1, FS_Singleton
      <4>. QED  BY <1>0, <2>1, <2>2, <4>2 DEF TypeOK
    <3>2. CASE o \in Found /\ Found' = Found \ {o}
      <4>1. Found \ Found' = {o}
        BY <3>2
      <4>2. Cardinality(Found \ Found') = 1
        BY <4>1, FS_Singleton
      <4>. QED  BY <1>0, <2>1, <2>2, <4>2 DEF TypeOK
    <3>. QED  BY <1>0, <3>1, <3>2, FoundChange
  <2>4. Found \ Found' = {} /\ Found' \ Found = {}
    BY <2>3
  <2>5. left = 0 /\ arrived = 0
    <3>1. Cardinality(Found \ Found') = 0 /\ Cardinality(Found' \ Found) = 0
      BY <2>4, FS_EmptySet
    <3>2. left \in Nat /\ arrived \in Nat
      BY <1>0 DEF TypeOK
    <3>. QED  BY <2>1, <2>2, <3>1, <3>2
  <2>6. Found = steady /\ seen \subseteq steady
    BY <1>2, <2>5 DEF StillInv, Reading
  <2>. QED  BY <1>0, <2>2, <2>3, <2>6
<1>. QED  BY <1>1, <1>2

LEMMA StillStep ==
  ASSUME QueryInv, StillInv, [Next]_vars
  PROVE  StillInv'
<1>a. TypeOK
  BY DEF QueryInv
<1>b. \A o \in Order : rows[o] # None => rows[o] \in Row
  BY <1>a DEF TypeOK
<1>1. ASSUME NEW o \in Order, Begin(o) PROVE StillInv'
  BY <1>1, StillChange, QueryAssumption DEF Begin, NewRow, Row
<1>2. ASSUME NEW o \in Order, Commit(o) PROVE StillInv'
  <2>1. [rows[o] EXCEPT !.state = "stored"] \in Row
    BY <1>2, <1>b DEF Commit, Row
  <2>. QED  BY <1>2, <2>1, StillChange DEF Commit
<1>3. ASSUME NEW o \in Order, Delete(o) PROVE StillInv'
  <2>1. [rows[o] EXCEPT !.state = "deleted"] \in Row
    BY <1>3, <1>b DEF Delete, Row
  <2>. QED  BY <1>3, <2>1, StillChange DEF Delete
<1>4. ASSUME NEW o \in Order, NEW s \in Status, Update(o, s) PROVE StillInv'
  <2>1. [rows[o] EXCEPT !.status = s, !.state = "stored"] \in Row
    BY <1>4, <1>b DEF Update, Row
  <2>. QED  BY <1>4, <2>1, StillChange DEF Update
<1>c. ASSUME rows' = rows, filter' = filter PROVE Found' = Found
  BY <1>c DEF Found, Matches
<1>5. CASE Ask
  <2>1. seen = {}
    BY <1>5 DEF QueryInv, Ask
  <2>. QED  BY <1>5, <1>c, <2>1 DEF Ask, StillInv
<1>6. CASE Select
  BY <1>6, <1>c DEF Select, StillInv, Page
<1>7. CASE Count
  BY <1>7, <1>c DEF Count, StillInv
<1>8. CASE UNCHANGED vars
  BY <1>8, <1>c DEF vars, StillInv
<1>. QED
  BY <1>1, <1>2, <1>3, <1>4, <1>5, <1>6, <1>7, <1>8 DEF Next, Quiet

\* A reader of all pages whose result stood still while it read, whatever was
\* written to other rows, has received exactly the rows that match its filter,
\* each once, and their number as the total.
THEOREM StillIsExact == Spec => []ExactWhenStill
<1>1. Init => StillInv
  BY DEF Init, StillInv
<1>2. QueryInv /\ StillInv /\ [Next]_vars => StillInv'
  BY StillStep
<1>3. QueryInv /\ StillInv => ExactWhenStill
  <2> SUFFICES ASSUME QueryInv, StillInv, pc = "done", left = 0, arrived = 0
               PROVE  seen = Found /\ repeats = 0 /\ total = Cardinality(Found)
    BY DEF ExactWhenStill
  <2>1. TypeOK /\ Found = steady /\ seen \subseteq steady
    BY DEF QueryInv, StillInv
  <2>2. IsFiniteSet(steady \ seen) /\ Cardinality(steady \ seen) = 0
    BY <2>1, ReaderFacts DEF QueryInv, HiddenAtMostLeft
  <2>3. steady \ seen = {}
    BY <2>2, FS_EmptySet
  <2>4. repeats = 0
    BY <2>1 DEF QueryInv, RepeatedAtMostArrived, TypeOK
  <2>5. total = Cardinality(seen)
    BY <2>1, <2>4, ReaderFacts DEF QueryInv, TotalFits, TypeOK
  <2>. QED  BY <2>1, <2>3, <2>4, <2>5
<1>. QED  BY <1>1, <1>2, <1>3, Invariant, PTL DEF Spec

\* How far the reader can have got.
PagesBounded == page = 1 \/ Skip < Orders

\* The reader never asks for a page that lies wholly beyond the orders there can
\* be, however fast the end of the result moves while it reads: once its queries
\* are answered it ends after that many pages.
THEOREM PagesAreBounded == Spec => []PagesBounded
<1>1. Init => PagesBounded
  BY DEF Init, PagesBounded
<1>2. QueryInv /\ PagesBounded /\ [Next]_vars => PagesBounded'
  <2> SUFFICES ASSUME QueryInv, PagesBounded, [Next]_vars PROVE PagesBounded'
    OBVIOUS
  <2>1. CASE page' = page
    BY <2>1 DEF PagesBounded, Skip
  <2>2. CASE page' # page
    <3>1. page' = page + 1 /\ page * Limit < Cardinality(Found)
      <4>1. Count
        BY <2>2 DEF Next, Ask, Select, Begin, Commit, Delete, Update, Change, reader,
                    Quiet, vars
      <4>2. page * Limit \in Nat /\ Cardinality(Found) \in Nat
        BY ReaderFacts, OrderFacts DEF QueryInv
      <4>. QED  BY <2>2, <4>1, <4>2 DEF Count
    <3>2. Cardinality(Found) <= Orders
      <4>1. Cardinality(Order) = Orders /\ IsFiniteSet(Order)
        BY FS_Interval, QueryAssumption DEF Order
      <4>. QED  BY <4>1, OrderFacts, FS_Subset
    <3>3. page \in Nat /\ (page + 1) - 1 = page
      BY DEF QueryInv, TypeOK
    <3>4. Skip' = page * Limit
      BY <3>1, <3>3 DEF Skip
    <3>. QED
      BY <3>1, <3>2, <3>4, ReaderFacts, OrderFacts, QueryAssumption
         DEF PagesBounded, QueryInv
  <2>. QED  BY <2>1, <2>2
<1>. QED  BY <1>1, <1>2, Invariant, PTL DEF Spec
=============================================================================
