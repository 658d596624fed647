---------------------------- MODULE MCNavigation ----------------------------
(***************************************************************************)
(* Two goals: one that is under way, and one that takes its place.         *)
(***************************************************************************)
EXTENDS Navigation

==============================================================================
