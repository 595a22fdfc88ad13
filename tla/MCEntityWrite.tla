--------------------------- MODULE MCEntityWrite ----------------------------
(***************************************************************************)
(* EntityWrite on an air conditioner whose module lists cooling alone, as  *)
(* the mask 0x0001, and whose catalogue lists comfort cooling.             *)
(* Its set point is -6 or -5.                                              *)
(***************************************************************************)
EXTENDS EntityWrite

CONSTANTS none

MCCallers == {"climate", "entity", "service"}
MCKeys == {"power", "mode", "aux"}
MCValues == UNION {Domain(key) : key \in MCKeys}
MCCommands == UNION {[key : {key}, value : Domain(key)] : key \in MCKeys}
MCCopies == {0, 1}
MCModeInfo == [min |-> 0, max |-> 1]
MCHidden == {{}, {"mode"}, MCKeys}
MCOthers == {"power", "mode"}
MCSelectInfo == [min |-> 250, max |-> 251]

\* Two events reach every step from here: a call leaves, resumes or restores
\* comfort cooling, with the power on or off.
MCInit == Init /\ dev.aux = (CHOOSE value \in AuxValues : TRUE) /\ dev.mode = Comfort
MCSpec == MCInit /\ [][Next]_vars /\ Fairness
=============================================================================
