-------------------------- MODULE MCNotifications --------------------------
(* Small instances of Notifications for TLC. *)
EXTENDS Notifications, TLC

\* Replicas, users, sockets and messages are interchangeable.
Symmetry ==
  Permutations(Replica) \cup Permutations(User) \cup Permutations(Socket)
    \cup Permutations(Event)
=============================================================================
