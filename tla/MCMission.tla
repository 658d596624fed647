----------------------------- MODULE MCMission -----------------------------
(***************************************************************************)
(* Two tasks, two goods requests, two goals.                               *)
(***************************************************************************)
EXTENDS Mission

CONSTANTS t1, t2

==============================================================================
