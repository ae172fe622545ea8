----------------------------- MODULE TokenLife -----------------------------
(***************************************************************************)
(* What the "refresh_tokens" table promises about each refresh token:      *)
(* it is issued at most once, it can be used until it is spent (exchanged, *)
(* logged out or expired), and a spent token is never usable again.        *)
(***************************************************************************)
CONSTANT Token

VARIABLE life     \* life[t] \in {"unborn", "live", "dead"}

Init == life = [t \in Token |-> "unborn"]

Issue(t) ==
  /\ life[t] = "unborn"
  /\ life' = [life EXCEPT ![t] = "live"]

\* Several tokens may expire in the same second.
End(S) ==
  /\ \A t \in S : life[t] # "dead"
  /\ life' = [t \in Token |-> IF t \in S THEN "dead" ELSE life[t]]

Next ==
  \/ \E t \in Token : Issue(t)
  \/ \E S \in SUBSET Token : End(S)

Spec == Init /\ [][Next]_life
=============================================================================
