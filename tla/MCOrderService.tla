--------------------------- MODULE MCOrderService ---------------------------
(* Small instances of OrderService for TLC. *)
EXTENDS OrderService, TLC

\* Requests, orders and users are interchangeable.  Used only where no
\* liveness property is checked.
Symmetry ==
  Permutations(Request) \cup Permutations(Order) \cup Permutations(User)
=============================================================================
