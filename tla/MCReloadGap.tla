---------------------------- MODULE MCReloadGap -----------------------------
(***************************************************************************)
(* DevicePoll with a history variable for the gap between two reloads,     *)
(* which outlives the closure that schedules them.                         *)
(***************************************************************************)
EXTENDS DevicePoll

VARIABLE sinceReload   \* ticks since any setup of the entry scheduled a reload

gapHistory == <<vars, sinceReload>>

GapInit == Init /\ sinceReload = ReloadGap

GapNext ==
  \/ /\ Tick
     /\ sinceReload' = Older(sinceReload, ReloadGap)
  \/ /\ Setup \/ Poll \/ Reloads \/ CacheExpires \/ User \/ Environment
     /\ sinceReload' = IF reload' \ reload = {"probe"} THEN 0 ELSE sinceReload

GapSpec == GapInit /\ [][GapNext]_gapHistory

\* "After the socket comes back, reload once ... A failed reload may try again
\* after this gap" (__init__.py 107-109): two probe reloads of an entry are at
\* least _LAN_RELOAD_GAP_S apart.
ReloadGapRespected ==
  [][reload' \ reload = {"probe"} => sinceReload = ReloadGap]_gapHistory
=============================================================================
