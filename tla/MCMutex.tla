------------------------------ MODULE MCMutex ------------------------------
(* Small instances of Mutex for TLC. *)
EXTENDS Mutex

CONSTANTS u1, u2, e1
=============================================================================
