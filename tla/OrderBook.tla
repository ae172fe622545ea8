----------------------------- MODULE OrderBook -----------------------------
(***************************************************************************)
(* What the order service promises a customer who waits for his answers: a *)
(* book of orders in which a request is one indivisible change, and a feed *)
(* of messages in which the changes of an order are announced one by one,  *)
(* each before the next is made.  A deleted order is never touched again.  *)
(***************************************************************************)
EXTENDS Sequences

CONSTANTS
  Order,         \* order ids
  User,          \* customers
  OrderStatus,   \* the values of the status enum
  Lossy,         \* TRUE: an announcement may be lost
  None           \* absence of a row, of an old status, of an announcement

VARIABLES
  book,          \* book[o]: the row of order o, or None
  due,           \* due[o]: the message still to be announced, or None
  feed           \* feed[o]: the messages announced for order o

bookVars == <<book, due, feed>>

Init ==
  /\ book = [o \in Order |-> None]
  /\ due = [o \in Order |-> None]
  /\ feed = [o \in Order |-> <<>>]

Owe(o, u, old, new) ==
  due' = [due EXCEPT ![o] = [orderId |-> o, userId |-> u, old |-> old, new |-> new]]

Place(o, u) ==
  /\ book[o] = None
  /\ book' = [book EXCEPT ![o] =
                [userId |-> u, status |-> "pending", deleted |-> FALSE]]
  /\ Owe(o, u, None, "pending")
  /\ UNCHANGED feed

SetStatus(o, s) ==
  /\ book[o] # None
  /\ ~book[o].deleted
  /\ book[o].status # s
  /\ due[o] = None
  /\ book' = [book EXCEPT ![o].status = s]
  /\ Owe(o, book[o].userId, book[o].status, s)
  /\ UNCHANGED feed

Delete(o) ==
  /\ book[o] # None
  /\ due[o] = None
  /\ book' = [book EXCEPT ![o].deleted = TRUE]
  /\ UNCHANGED <<due, feed>>

Announce(o) ==
  /\ due[o] # None
  /\ due' = [due EXCEPT ![o] = None]
  /\ feed' = [feed EXCEPT ![o] = Append(@, due[o])]
  /\ UNCHANGED book

Lose(o) ==
  /\ Lossy
  /\ due[o] # None
  /\ due' = [due EXCEPT ![o] = None]
  /\ UNCHANGED <<book, feed>>

Next ==
  \E o \in Order :
    \/ \E u \in User : Place(o, u)
    \/ \E s \in OrderStatus : SetStatus(o, s)
    \/ Delete(o) \/ Announce(o) \/ Lose(o)

Spec == Init /\ [][Next]_bookVars
=============================================================================
