----------------------------- MODULE OrderQuery -----------------------------
(***************************************************************************)
(* GET /orders (apps/order-service, findAll), read page by page by one     *)
(* client while other requests insert, update and delete orders.  A page   *)
(* is one query for the rows and, unless the page shows it, one for their  *)
(* total; nothing holds the table still between them, or between pages.    *)
(***************************************************************************)
EXTENDS Naturals, FiniteSets

CONSTANTS
  Orders,    \* how many orders are placed at most
  Status,    \* the statuses that occur
  Dates,     \* what occurs as startDate and endDate, counted in orders
  Limit,     \* the rows of a page
  MaxMoves,  \* bound of the rows that enter or leave the result meanwhile
  None       \* absence of a row, or of a criterion

ASSUME QueryAssumption ==
  /\ None \notin Status /\ None \notin Dates
  /\ "pending" \in Status
  /\ Dates \subseteq Nat
  /\ Orders \in Nat
  /\ Limit \in Nat \ {0}
  /\ MaxMoves \in Nat

VARIABLES
  rows,      \* the table "orders"
  filter,    \* the query parameters status, startDate and endDate
  pc,        \* the next step of the client, or of the handler of its page
  page,      \* the page asked for
  total,     \* the total of the last page
  seen,      \* the orders received so far
  repeats,   \* the rows received that had been received before
  steady,    \* history: the orders in the result ever since the first page
  left,      \* history: the rows that left the result while it was read
  arrived    \* history: the rows that entered it

vars ==
  <<rows, filter, pc, page, total, seen, repeats, steady, left, arrived>>

reader == <<filter, pc, page, total, seen, repeats>>

-----------------------------------------------------------------------------
\* Orders are named by the order of their createdAt, the start of the
\* transaction that inserts them.  No two are created in the same microsecond:
\* between those PostgreSQL could choose anew for every page.
Order == 1..Orders

Row == [status : Status, state : {"inserting", "stored", "deleted"}]

Filter == [status : Status \cup {None},
           from : Dates \cup {None}, to : Dates \cup {None}]

\* where: the status if one is given, the dates if both are.
Matches(o) ==
  /\ rows[o] # None
  /\ rows[o].state = "stored"
  /\ filter.status # None => rows[o].status = filter.status
  /\ filter.from # None /\ filter.to # None => o \in filter.from..filter.to

\* The result of the query, all pages of it.
Found == {o \in Order : Matches(o)}

\* order: createdAt DESC.
Before(o) == {x \in Found : x > o}

\* Mutant of NewRow: create() forgets the initial status.
NewRowNoStatus == [status |-> None, state |-> "inserting"]

NewRow == [status |-> "pending", state |-> "inserting"]

\* Mutants of Skip: pages counted from 0; one row less to a page.
SkipOne == page * Limit
SkipLess == (page - 1) * (Limit - 1)

Skip == (page - 1) * Limit

\* skip and take.
Page == {o \in Found : /\ Cardinality(Before(o)) >= Skip
                       /\ Cardinality(Before(o)) < Skip + Limit}

-----------------------------------------------------------------------------
Init ==
  /\ rows = [o \in Order |-> None]
  /\ filter \in Filter
  /\ pc = "start"
  /\ page = 1
  /\ total = 0
  /\ seen = {}
  /\ repeats = 0
  /\ steady = {}
  /\ left = 0
  /\ arrived = 0

Reading == pc \in {"select", "count"}

\* The row of order o is now row; the histories follow the result.  What
\* happens after the reading is left out.
Change(o, row) ==
  /\ pc # "done"
  /\ rows' = [rows EXCEPT ![o] = row]
  /\ UNCHANGED reader
  /\ IF Reading
     THEN /\ left' = left + Cardinality(Found \ Found')
          /\ arrived' = arrived + Cardinality(Found' \ Found)
          /\ left' + arrived' <= MaxMoves
          /\ steady' = steady \cap Found'
     ELSE UNCHANGED <<steady, left, arrived>>

\* The transaction of the INSERT takes its time.
Begin(o) ==
  /\ rows[o] = None
  /\ \A x \in 1..o - 1 : rows[x] # None
  /\ Change(o, NewRow)

\* It commits, perhaps after younger ones.
Commit(o) ==
  /\ rows[o] # None /\ rows[o].state = "inserting"
  /\ Change(o, [rows[o] EXCEPT !.state = "stored"])

\* The UPDATE of updateStatus, whose save() also brings a deleted row back.
Update(o, s) ==
  /\ rows[o] # None /\ rows[o].state # "inserting"
  /\ Change(o, [rows[o] EXCEPT !.status = s, !.state = "stored"])

Delete(o) ==
  /\ rows[o] # None /\ rows[o].state # "inserting"
  /\ Change(o, [rows[o] EXCEPT !.state = "deleted"])

\* The client asks for the first page.
Ask ==
  /\ pc = "start"
  /\ pc' = "select"
  /\ steady' = Found
  /\ UNCHANGED <<rows, filter, page, total, seen, repeats, left, arrived>>

\* The rows of the page.  Where a page is not full the total follows from it,
\* unless the page is empty and not the first.
Select ==
  LET n == Cardinality(Page)
      known == n < Limit /\ (n > 0 \/ page = 1)
  IN  /\ pc = "select"
      /\ seen' = seen \cup Page
      /\ repeats' = repeats + Cardinality(Page \cap seen)
      /\ total' = IF known THEN Skip + n ELSE total
      /\ pc' = IF known THEN "done" ELSE "count"
      /\ UNCHANGED <<rows, filter, page, steady, left, arrived>>

\* The second query; the client goes on until its pages reach the total.
Count ==
  LET n == Cardinality(Found)
  IN  /\ pc = "count"
      /\ total' = n
      /\ IF page * Limit >= n
         THEN pc' = "done" /\ UNCHANGED page
         ELSE pc' = "select" /\ page' = page + 1
      /\ UNCHANGED <<rows, filter, seen, repeats, steady, left, arrived>>

Quiet == pc = "done" /\ UNCHANGED vars

Next ==
  \/ Ask \/ Select \/ Count
  \/ \E o \in Order :
       \/ Begin(o) \/ Commit(o) \/ Delete(o)
       \/ \E s \in Status : Update(o, s)
  \/ Quiet

Spec == Init /\ [][Next]_vars

-----------------------------------------------------------------------------
\* The type invariant: the rows, the reader and the histories.
TypeOK ==
  /\ rows \in [Order -> Row \cup {None}]
  /\ filter \in Filter
  /\ pc \in {"start", "select", "count", "done"}
  /\ page \in Nat \ {0}
  /\ total \in Nat
  /\ seen \subseteq Order
  /\ repeats \in Nat
  /\ steady \subseteq Order
  /\ left \in Nat
  /\ arrived \in Nat

\* A client that reads all pages misses an order that was in the result all
\* the time only where another one left the result and the rest moved up: one
\* at most for each that left.  Nothing that arrives, and no gap between the
\* two queries of a page, hides a row.
HiddenAtMostLeft ==
  pc = "done" => Cardinality(steady \ seen) <= left

\* It receives a row twice only where another one arrived and the rest moved
\* down.
RepeatedAtMostArrived == repeats <= arrived

\* The rows received add up to the total last reported, but for those that
\* left or arrived meanwhile.
TotalFits ==
  pc = "done" =>
    /\ Cardinality(seen) + repeats <= total + left
    /\ total <= Cardinality(seen) + repeats + arrived

\* A client during whose reading no row left or entered the result, whatever was
\* written to others, has exactly the rows that match its filter, each once, and
\* their number as the total.
ExactWhenStill ==
  pc = "done" /\ left = 0 /\ arrived = 0 =>
    seen = Found /\ repeats = 0 /\ total = Cardinality(Found)
=============================================================================
