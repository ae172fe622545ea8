------------------------------ MODULE Accounts ------------------------------
(***************************************************************************)
(* What registration promises: an email is given an account at most once,  *)
(* and neither its password nor its role ever changes.                     *)
(***************************************************************************)
CONSTANTS
  Email,
  Credential,   \* what an account is registered with
  None          \* absence of an account

VARIABLE account   \* account[e]: what email e was registered with, or None

Init == account = [e \in Email |-> None]

Register(e, c) ==
  /\ account[e] = None
  /\ account' = [account EXCEPT ![e] = c]

Next == \E e \in Email, c \in Credential : Register(e, c)

Spec == Init /\ [][Next]_account
=============================================================================
