------------------------------ MODULE CondPoolMC ------------------------------
(* Values for model checking CondPool that a .cfg cannot write. *)
EXTENDS CondPool

CONSTANTS o1, d1, d2, d3

(* All condition variables are waited for with the first mutex. *)
MCMutexOf == [d \in {d1, d2, d3} |-> o1]

=============================================================================
