----------------------------- MODULE MCEmsAuth ------------------------------
(* EmsAuth with one device, its poll, and one sync of the hub. *)
EXTENDS EmsAuth

OneDevice == [t \in Users |-> "device"]
=============================================================================
