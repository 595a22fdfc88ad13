----------------------------- MODULE MCEmsGate ------------------------------
(* Model-checking instance of EmsGate: one user call, two background calls. *)
EXTENDS EmsGate
=============================================================================
