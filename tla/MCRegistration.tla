--------------------------- MODULE MCRegistration ---------------------------
(* Small instances of Registration for TLC. *)
EXTENDS Registration, TLC

\* Requests, emails and passwords are interchangeable.
Symmetry ==
  Permutations(Request) \cup Permutations(Email) \cup Permutations(Password)
=============================================================================
