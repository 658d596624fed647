------------------------------ MODULE ListFeed ------------------------------
(***************************************************************************)
(* What the robot_list topic promises to the simulation manager: it holds  *)
(* lists that the edge has had, later ones after earlier ones, perhaps not *)
(* all of them, and perhaps the same one again.                            *)
(***************************************************************************)
EXTENDS Integers

VARIABLES
  version,   \* how often the edge's list has changed
  held       \* the version that the manager holds, 0 for none

FeedInit == version = 1 /\ held = 0

\* A robot has registered, or its pose or instance has changed.
Change == version' = version + 1 /\ UNCHANGED held

\* A list arrives.
Deliver == held' \in {v \in 1 .. version : v >= held} /\ UNCHANGED version

FeedNext == Change \/ Deliver

FeedSpec == FeedInit /\ [][FeedNext]_<<version, held>>

==============================================================================
