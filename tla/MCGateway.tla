----------------------------- MODULE MCGateway -----------------------------
(* Small instances of Gateway for TLC. *)
EXTENDS Gateway, TLC

\* Requests meet in the throttler only, and each is judged by its own way: of two
\* requests at least one is for the gateway itself.  Nothing depends on the
\* address of a request that no throttler sees, on a token where there is no
\* strategy to read it, nor on which request is the first.  The constraint
\* leaves out sends alone, which no fairness speaks of.
WithoutRepeats ==
  /\ \A r \in Request : pc'[r] # "new" =>
       /\ req'[r].route \notin OwnRoutes => req'[r].from = CHOOSE a \in Address : TRUE
       /\ req'[r].token # None => ServiceOf[req'[r].route] \in StrategyIn
  /\ \A r, s \in Request : r < s =>
       /\ pc'[r] = "new" => pc'[s] = "new"
       /\ pc'[r] # "new" /\ pc'[s] # "new" => {req'[r].route, req'[s].route} \cap OwnRoutes # {}
=============================================================================
