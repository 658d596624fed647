----------------------------- MODULE MCMapSync -----------------------------
(***************************************************************************)
(* Two versions, one answer under way besides the one that is handled.     *)
(***************************************************************************)
EXTENDS MapSync

CONSTANTS v1, v2

==============================================================================
