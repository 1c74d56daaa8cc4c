------------------------------ MODULE MCRWLock ------------------------------
(* The reader/writer lock with a few threads. *)
EXTENDS RWLock
=============================================================================
