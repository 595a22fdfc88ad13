---------------------------- MODULE MCDevicePoll ----------------------------
(* Model-checking instances of DevicePoll. *)
EXTENDS DevicePoll, TLC

\* The two addresses are interchangeable in every safety property.
HostSymmetry == Permutations(Hosts)
=============================================================================
