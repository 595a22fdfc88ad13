------------------------------ MODULE MCInstall -----------------------------
(* Install with an air conditioner known to the LAN and to EMS, a          *)
(* dehumidifier EMS does not list and a refrigerator without a LAN module. *)
EXTENDS Install

CONSTANTS ac, dh, fridge

\* Without a hub nothing is installed; with it the refrigerator is, and the
\* dehumidifier's entry, if any, says 2.
\* Both modules answer, or the air conditioner is off and the dehumidifier has its address.
MCInit ==
  /\ Init
  /\ at \in {[m \in Modules |-> IF m = ac THEN 1 ELSE 2],
             [m \in Modules |-> IF m = ac THEN NoHost ELSE 1]}
  /\ hub => \E e \in entries : e.dev = fridge
  /\ ~hub => entries = {}
  /\ \A e \in entries : e.dev = dh => e.host = 2

MCSpec == MCInit /\ [][Next]_vars
=============================================================================
