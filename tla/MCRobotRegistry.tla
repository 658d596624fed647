--------------------------- MODULE MCRobotRegistry ---------------------------
(***************************************************************************)
(* Two robots, two times to register at, and two HTTP workers that upload  *)
(* and activate one map version, with an archive that has a location for   *)
(* each robot and with one that cannot be read and has none: the refused   *)
(* second upload, concurrent ones in one temporary file, a restart with    *)
(* another archive than the one the points were loaded from, and a robot   *)
(* whose row is refused before a crash all happen.                         *)
(***************************************************************************)
EXTENDS RobotRegistry, TLC

CONSTANTS r1, r2, s1, s2, v1, w1, w2, p1, p2

MCRobot   == {r1, r2}
MCStamp   == {s1, s2}
MCVersion == {v1}
MCWorker  == {w1, w2}
MCPose    == {p1, p2}

\* A map with a location for each robot.
MCArchives == {<<p1, p2>>}

Symmetry ==
  Permutations(MCRobot) \cup Permutations(MCStamp)
    \cup Permutations(MCWorker)

==============================================================================
