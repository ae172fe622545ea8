-------------------------- MODULE MCRefreshTokens --------------------------
(* Small instances of RefreshTokens for TLC. *)
EXTENDS RefreshTokens, TLC

\* Requests and users are interchangeable.
Symmetry == Permutations(Request) \cup Permutations(User)
=============================================================================
