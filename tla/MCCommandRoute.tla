--------------------------- MODULE MCCommandRoute ---------------------------
(***************************************************************************)
(* CommandRoute with a write and a poll that share one slot, or two.       *)
(***************************************************************************)
EXTENDS CommandRoute

CONSTANTS w, p, none

MCTasks == {w, p}
MCCallers == {w}
MCPollers == {p}
MCKeys == {"power"}
MCValues == {0, 1}
MCCommands == [key : MCKeys, value : {1}]
MCSettings == {1, 2}
=============================================================================
