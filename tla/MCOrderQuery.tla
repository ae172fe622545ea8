---------------------------- MODULE MCOrderQuery ----------------------------
(* Small instances of OrderQuery for TLC. *)
EXTENDS OrderQuery, TLC
=============================================================================
