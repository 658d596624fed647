------------------------- MODULE Nav2ProcessProofs -------------------------
(***************************************************************************)
(* Theorems about Nav2Process, for any map versions and any number of      *)
(* messages, restarts and failures.                                        *)
(***************************************************************************)
EXTENDS Nav2Process, TLAPS

Waiting == IF "map_info" \in inbox THEN 1 ELSE 0

\* Every launch was asked for by a message, taken once in each run of the node.
LaunchesAreAsked == launches + Waiting <= changes + restarts

\* A pid is that of a launch, in a state that is not stopped, and of the noted map.
PidOK ==
  /\ m_nav2_pid # NoPid => m_nav2_pid \in 1 .. launches /\ m_nav2_state # "STOPPED"
  /\ executor # "idle" => m_nav2_state # "STOPPED"

\* As long as nothing fails, a start has a Nav2 that runs.
HealthyOK ==
  failures = 0 => /\ m_nav2_pid # NoPid => m_nav2_pid \in running
                  /\ m_nav2_state # "STOPPED" => m_nav2_pid # NoPid
                  /\ m_initial_pose_published => m_nav2_pid # NoPid

\* The inductive invariant.
Nav2Inv ==
  TypeOK /\ LaunchesAreAsked /\ PidOK /\ HealthyOK /\ OwnNav2HasTheMap /\ PoseIsForOwnNav2

USE Nav2Assumption DEF Nav2Assumption, Nav2State

LEMMA Nav2Init == Init => Nav2Inv
<1> SUFFICES ASSUME Init PROVE Nav2Inv OBVIOUS
<1>1. TypeOK
  <2>1. launchedWith \in [Pids -> Version \cup {None}]
    BY DEF Init
  <2>2. manager \in [Pids -> [Managers -> {"absent", "up", "asked", "active", "failed"}]]
    BY DEF Init
  <2>3. /\ launches \in 0 .. (MaxChanges + MaxRestarts)
        /\ changes \in 0 .. MaxChanges /\ restarts \in 0 .. MaxRestarts
        /\ failures \in 0 .. MaxFailures
    BY DEF Init
  <2>4. /\ m_nav2_pid \in Pids \cup {NoPid}
        /\ running \subseteq 1 .. launches /\ posed \subseteq 1 .. launches
    BY DEF Init
  <2>5. /\ mapInfo \in Version \cup {NotReady, None}
        /\ m_current_map_version \in Version \cup {None}
    BY DEF Init
  <2> QED BY <2>1, <2>2, <2>3, <2>4, <2>5 DEF Init, TypeOK
<1>2. LaunchesAreAsked BY DEF Init, LaunchesAreAsked, Waiting
<1>3. PidOK /\ HealthyOK /\ OwnNav2HasTheMap /\ PoseIsForOwnNav2
  BY DEF Init, PidOK, HealthyOK, OwnNav2HasTheMap, PoseIsForOwnNav2
<1> QED BY <1>1, <1>2, <1>3 DEF Nav2Inv

LEMMA PidFacts == NoPid \notin Pids /\ NoPid \in Int
BY DEF NoPid, Pids

------------------------------------------------------------------------------

LEMMA AgentKeeps ==
  ASSUME Nav2Inv, (\E v \in Version \cup {NotReady} : PublishMapInfo(v)) \/ PublishPose
  PROVE  Nav2Inv'
<1> USE DEF Nav2Inv
<1>1. TypeOK'
  <2>1. ASSUME NEW v \in Version \cup {NotReady}, PublishMapInfo(v)
        PROVE  TypeOK'
    <3>1. changes' \in 0 .. MaxChanges /\ mapInfo' \in Version \cup {NotReady, None}
      BY <2>1 DEF PublishMapInfo, TypeOK
    <3> QED BY <2>1, <3>1 DEF PublishMapInfo, TypeOK, maps, pose, nav2, bounds
  <2>2. ASSUME PublishPose
        PROVE  TypeOK'
    BY <2>2 DEF PublishPose, TypeOK, maps, pose, nav2, bounds
  <2> QED BY <2>1, <2>2
<1>2. LaunchesAreAsked'
  BY DEF TypeOK, LaunchesAreAsked, Waiting, PublishMapInfo, PublishPose, nav2, bounds
<1>3. PidOK' /\ HealthyOK' /\ OwnNav2HasTheMap' /\ PoseIsForOwnNav2'
  BY DEF PidOK, HealthyOK, OwnNav2HasTheMap, PoseIsForOwnNav2, PublishMapInfo, PublishPose,
     maps, pose, nav2, bounds
<1> QED BY <1>1, <1>2, <1>3

\* A launch has a number that no earlier one had.
LEMMA LaunchKeeps ==
  ASSUME Nav2Inv, NEW v \in Version, LaunchNav2(v)
  PROVE  Nav2Inv'
<1> USE DEF Nav2Inv, LaunchNav2, Relaunch, MapReady, Take
<1>1. /\ launches \in Nat /\ changes \in 0 .. MaxChanges /\ restarts \in 0 .. MaxRestarts
      /\ launches + 1 <= changes + restarts
  BY DEF LaunchesAreAsked, Waiting, TypeOK
<1>2. launches' \in Pids /\ launches' \in 0 .. (MaxChanges + MaxRestarts)
  BY <1>1 DEF Pids
<1>3. launchedWith' \in [Pids -> Version \cup {None}] /\ launchedWith'[launches'] = v
  BY <1>2 DEF TypeOK
<1>4. running' \subseteq 1 .. launches' /\ posed' \subseteq 1 .. launches'
  BY <1>1 DEF TypeOK, StopNav2Process
<1>5. TypeOK'
  BY <1>2, <1>3, <1>4 DEF TypeOK, StopNav2Process
<1>6. LaunchesAreAsked'
  BY <1>1 DEF LaunchesAreAsked, Waiting, TypeOK
<1>7. PidOK' BY <1>1, <1>2 DEF PidOK, Pids
<1>8. HealthyOK' BY <1>2, PidFacts DEF HealthyOK
<1>9. OwnNav2HasTheMap' BY <1>3 DEF OwnNav2HasTheMap
<1>10. PoseIsForOwnNav2' BY DEF PoseIsForOwnNav2, HealthyOK, StopNav2Process
<1> QED BY <1>5, <1>6, <1>7, <1>8, <1>9, <1>10

LEMMA HandleMapInfoKeeps ==
  ASSUME Nav2Inv, HandleMapInfo
  PROVE  Nav2Inv'
<1> USE DEF Nav2Inv
<1>1. CASE MapNotReady
  <2>1. TypeOK'
    BY <1>1 DEF MapNotReady, Take, StopNav2Process, TypeOK, pose, nav2, bounds
  <2>2. LaunchesAreAsked'
    BY <1>1 DEF MapNotReady, Take, TypeOK, LaunchesAreAsked, Waiting, nav2, bounds
  <2>3. m_nav2_state' = "STOPPED" /\ executor' = "idle" /\ failures' = failures
    BY <1>1 DEF MapNotReady, Take, bounds
  <2>4. m_nav2_pid' = NoPid
    BY <1>1 DEF MapNotReady, PidOK
  <2>5. failures = 0 => ~m_initial_pose_published'
    <3>1. CASE m_nav2_state = "STOPPED"
      BY <1>1, <3>1 DEF MapNotReady, PidOK, HealthyOK, pose
    <3>2. CASE m_nav2_state # "STOPPED"
      BY <1>1, <3>2 DEF MapNotReady, StopNav2Process, HealthyOK
    <3> QED BY <3>1, <3>2
  <2>6. PidOK' BY <2>3, <2>4 DEF PidOK
  <2>7. HealthyOK' /\ PoseIsForOwnNav2'
    BY <2>3, <2>4, <2>5 DEF HealthyOK, PoseIsForOwnNav2
  <2>8. OwnNav2HasTheMap' BY <2>4 DEF OwnNav2HasTheMap
  <2> QED BY <2>1, <2>2, <2>6, <2>7, <2>8
<1>2. ASSUME NEW v \in Version, KeepNav2(v)
      PROVE  Nav2Inv'
  BY <1>2 DEF KeepNav2, MapReady, Take, MapChanged, TypeOK, LaunchesAreAsked, Waiting, PidOK,
     HealthyOK, OwnNav2HasTheMap, PoseIsForOwnNav2, pose, nav2, bounds
<1>3. ASSUME NEW v \in Version, LaunchNav2(v)
      PROVE  Nav2Inv'
  BY <1>3, LaunchKeeps
<1>4. ASSUME NEW v \in Version, ForkFails(v)
      PROVE  Nav2Inv'
  BY <1>4 DEF ForkFails, Relaunch, MapReady, Take, StopNav2Process, TypeOK, LaunchesAreAsked,
     Waiting, PidOK, HealthyOK, OwnNav2HasTheMap, PoseIsForOwnNav2, nav2
<1> QED BY <1>1, <1>2, <1>3, <1>4 DEF HandleMapInfo

\* A pose that is published while nothing has failed reaches the Nav2 in hand.
LEMMA PoseKeeps ==
  ASSUME Nav2Inv, HandleInitialPose \/ TickLocalizes
  PROVE  Nav2Inv'
<1> USE DEF Nav2Inv
<1>1. CASE HandleInitialPose
  <2>1. TypeOK'
    BY <1>1 DEF HandleInitialPose, Take, PublishInitialPose, TypeOK, maps, nav2, bounds
  <2>2. LaunchesAreAsked' /\ PidOK' /\ OwnNav2HasTheMap'
    BY <1>1 DEF HandleInitialPose, Take, LaunchesAreAsked, Waiting, PidOK, OwnNav2HasTheMap,
       maps, nav2, bounds
  <2>3. HealthyOK' /\ PoseIsForOwnNav2'
    BY <1>1 DEF HandleInitialPose, PublishInitialPose, HealthyOK, PoseIsForOwnNav2, nav2, bounds
  <2> QED BY <2>1, <2>2, <2>3
<1>2. CASE TickLocalizes
  <2>1. TypeOK'
    BY <1>2 DEF TickLocalizes, PublishInitialPose, TypeOK, topics, maps, nav2, bounds
  <2>2. LaunchesAreAsked' /\ PidOK' /\ OwnNav2HasTheMap'
    BY <1>2 DEF TickLocalizes, LaunchesAreAsked, Waiting, PidOK, OwnNav2HasTheMap,
       topics, maps, nav2, bounds
  <2>3. HealthyOK' /\ PoseIsForOwnNav2'
    BY <1>2 DEF TickLocalizes, PublishInitialPose, HealthyOK, PoseIsForOwnNav2, nav2, bounds
  <2> QED BY <2>1, <2>2, <2>3
<1> QED BY <1>1, <1>2

LEMMA SendStartupType ==
  ASSUME TypeOK, NEW m \in Managers, SendStartup(m)
  PROVE  manager' \in [Pids -> [Managers -> {"absent", "up", "asked", "active", "failed"}]]
BY DEF TypeOK, SendStartup

LEMMA StartupKeeps ==
  ASSUME Nav2Inv, TickStarts \/ AskNavigation \/ AskLocalization
  PROVE  Nav2Inv'
<1> USE DEF Nav2Inv
<1>1. CASE TickStarts
  BY <1>1 DEF TickStarts, Starting, TypeOK, LaunchesAreAsked, Waiting, PidOK, HealthyOK,
     OwnNav2HasTheMap, PoseIsForOwnNav2, topics, maps, pose, nav2, bounds
<1>2. CASE AskNavigation
  <2>1. manager' \in [Pids -> [Managers -> {"absent", "up", "asked", "active", "failed"}]]
    BY <1>2, SendStartupType DEF AskNavigation, Managers
  <2> QED
    BY <1>2, <2>1 DEF AskNavigation, TypeOK, LaunchesAreAsked, Waiting, PidOK, HealthyOK,
       OwnNav2HasTheMap, PoseIsForOwnNav2, topics, maps, pose, nav2, bounds
<1>3. CASE AskLocalization
  <2>1. manager' \in [Pids -> [Managers -> {"absent", "up", "asked", "active", "failed"}]]
    BY <1>3, SendStartupType DEF AskLocalization, Managers
  <2> QED
    BY <1>3, <2>1 DEF AskLocalization, TypeOK, LaunchesAreAsked, Waiting, PidOK, HealthyOK,
       OwnNav2HasTheMap, PoseIsForOwnNav2, topics, maps, pose, nav2, bounds
<1> QED BY <1>1, <1>2, <1>3

LEMMA RestartKeeps ==
  ASSUME Nav2Inv, Restart
  PROVE  Nav2Inv'
<1> USE DEF Nav2Inv
<1>1. TypeOK'
  <2>1. restarts' \in 0 .. MaxRestarts BY DEF Restart, TypeOK
  <2>2. inbox' \subseteq {"map_info", "initial_pose"} BY DEF Restart
  <2> QED BY <2>1, <2>2 DEF Restart, TypeOK, nav2
<1>2. LaunchesAreAsked' BY DEF Restart, TypeOK, LaunchesAreAsked, Waiting, nav2
<1>3. PidOK' /\ HealthyOK' /\ OwnNav2HasTheMap' /\ PoseIsForOwnNav2'
  BY DEF Restart, PidOK, HealthyOK, OwnNav2HasTheMap, PoseIsForOwnNav2, nav2
<1> QED BY <1>1, <1>2, <1>3

LEMMA Nav2Keeps ==
  ASSUME Nav2Inv, NEW p \in Pids,
         (\E m \in Managers : ManagerUp(p, m) \/ StartsUp(p, m) \/ StartupFails(p, m)) \/ Dies(p)
  PROVE  Nav2Inv'
<1> USE DEF Nav2Inv
<1>1. ASSUME NEW m \in Managers, ManagerUp(p, m) \/ StartsUp(p, m) \/ StartupFails(p, m)
      PROVE  Nav2Inv'
  <2>1. manager' \in [Pids -> [Managers -> {"absent", "up", "asked", "active", "failed"}]]
    BY <1>1 DEF ManagerUp, StartsUp, StartupFails, TypeOK
  <2>2. failures' = failures \/ (failures < MaxFailures /\ failures' = failures + 1)
    BY <1>1 DEF ManagerUp, StartsUp, StartupFails, bounds
  <2>3. UNCHANGED <<topics, maps, m_nav2_state, m_nav2_pid, pose, executor, navStarted, nav2,
                    restarts>>
    BY <1>1 DEF ManagerUp, StartsUp, StartupFails, bounds
  <2>4. TypeOK'
    BY <2>1, <2>2, <2>3 DEF TypeOK, topics, maps, pose, nav2
  <2>5. LaunchesAreAsked' /\ PidOK' /\ OwnNav2HasTheMap'
    BY <2>3 DEF LaunchesAreAsked, Waiting, PidOK, OwnNav2HasTheMap, topics, maps, nav2
  <2>6. HealthyOK' /\ PoseIsForOwnNav2'
    BY <2>2, <2>3 DEF TypeOK, HealthyOK, PoseIsForOwnNav2, pose, nav2
  <2> QED BY <2>4, <2>5, <2>6
<1>2. CASE Dies(p)
  <2>1. TypeOK'
    BY <1>2 DEF Dies, TypeOK, topics, maps, pose
  <2> QED
    BY <1>2, <2>1 DEF Dies, TypeOK, LaunchesAreAsked, Waiting, PidOK, HealthyOK,
       OwnNav2HasTheMap, PoseIsForOwnNav2, topics, maps, pose
<1> QED BY <1>1, <1>2

LEMMA Nav2Step == Nav2Inv /\ [Next]_vars => Nav2Inv'
<1>1. CASE UNCHANGED vars
  BY <1>1 DEF Nav2Inv, TypeOK, LaunchesAreAsked, Waiting, PidOK, HealthyOK, OwnNav2HasTheMap,
     PoseIsForOwnNav2, vars, topics, maps, pose, nav2, bounds
<1> QED
  BY <1>1, AgentKeeps, HandleMapInfoKeeps, PoseKeeps, StartupKeeps, RestartKeeps, Nav2Keeps
  DEF Next, Node

LEMMA Nav2Always == Spec => []Nav2Inv
BY Nav2Init, Nav2Step, PTL DEF Spec

------------------------------------------------------------------------------
\* Type correctness: the process in hand is none or one that was launched, and no more
\* launches happen than messages ask for.
THEOREM Nav2TypeCorrect == Spec => []TypeOK
<1>1. Nav2Inv => TypeOK BY DEF Nav2Inv
<1> QED BY <1>1, Nav2Always, PTL

\* The Nav2 in hand has the map version noted last (handleMapInfo), whatever fails.
THEOREM OwnNav2Correct == Spec => []OwnNav2HasTheMap
<1>1. Nav2Inv => OwnNav2HasTheMap BY DEF Nav2Inv
<1> QED BY <1>1, Nav2Always, PTL

\* The mark of the published pose counts for the Nav2 in hand (stopNav2Process).
THEOREM PoseCorrect == Spec => []PoseIsForOwnNav2
<1>1. Nav2Inv => PoseIsForOwnNav2 BY DEF Nav2Inv
<1> QED BY <1>1, Nav2Always, PTL

------------------------------------------------------------------------------
(* Which Nav2 has been started up when the node goes on. *)

Localizing == {"WAITING_FOR_LOCALIZATION", "READY"}

\* Manager m of process p has taken a STARTUP request.
Asked(p, m) == manager[p][m] \in {"asked", "active"}

\* While nothing fails, the manager that the executor believes to have asked has been asked
\* by it, and a node that waits for its localization has asked one of each.
AskedOK ==
  /\ navStarted => executor = "askLocalization"
  /\ failures = 0 =>
       /\ navStarted => \E p \in running : Asked(p, "navigation")
       /\ m_nav2_state \in Localizing => \A m \in Managers : \E p \in running : Asked(p, m)

LEMMA FailuresGrow ==
  ASSUME Nav2Inv, Next, failures' = 0
  PROVE  failures = 0
<1>1. failures \in Nat BY DEF Nav2Inv, TypeOK
<1>2. failures' \in {failures, failures + 1}
  BY DEF Next, Node, bounds, PublishMapInfo, PublishPose, HandleMapInfo, MapNotReady, KeepNav2,
     LaunchNav2, ForkFails, Relaunch, HandleInitialPose, TickStarts, TickLocalizes,
     AskNavigation, AskLocalization, Restart, ManagerUp, StartsUp, StartupFails, Dies
<1> QED BY <1>1, <1>2

\* A request that was taken stands, while nothing fails.
LEMMA AskedKept ==
  ASSUME Nav2Inv, Next, failures' = 0, NEW m \in Managers, NEW p \in running, Asked(p, m)
  PROVE  p \in running' /\ Asked(p, m)'
<1>1. p \in Pids /\ manager[p] \in [Managers -> {"absent", "up", "asked", "active", "failed"}]
  <2>1. p \in 1 .. launches /\ launches \in 0 .. (MaxChanges + MaxRestarts)
    BY DEF Nav2Inv, TypeOK
  <2> QED BY <2>1 DEF Nav2Inv, TypeOK, Pids
<1>2. CASE \/ \E v \in Version \cup {NotReady} : PublishMapInfo(v)
           \/ PublishPose \/ MapNotReady \/ HandleInitialPose \/ TickStarts \/ TickLocalizes
           \/ \E v \in Version : KeepNav2(v) \/ LaunchNav2(v) \/ ForkFails(v)
           \/ Restart
  BY <1>2 DEF PublishMapInfo, PublishPose, MapNotReady, KeepNav2, LaunchNav2, ForkFails,
     Relaunch, HandleInitialPose, TickStarts, TickLocalizes, Restart, nav2, Asked
<1>3. CASE AskNavigation \/ AskLocalization
  BY <1>1, <1>3 DEF AskNavigation, AskLocalization, SendStartup, nav2, Asked, Managers
<1>4. ASSUME NEW q \in Pids, NEW n \in Managers, ManagerUp(q, n) \/ StartsUp(q, n)
      PROVE  p \in running' /\ Asked(p, m)'
  BY <1>1, <1>4 DEF ManagerUp, StartsUp, nav2, Asked, Nav2Inv, TypeOK
<1>5. CASE \E q \in Pids : Dies(q) \/ \E n \in Managers : StartupFails(q, n)
  BY <1>5 DEF Dies, StartupFails, Nav2Inv, TypeOK
<1> QED BY <1>2, <1>3, <1>4, <1>5 DEF Next, Node, HandleMapInfo

\* A request reaches all that listen.
LEMMA SendStartupAsks ==
  ASSUME Nav2Inv, NEW m \in Managers, SendStartup(m), Listening(m) # {}, running' = running
  PROVE  \E p \in running : Asked(p, m)'
<1>1. PICK p \in running : p \in Listening(m) BY DEF Listening
<1>2. p \in Pids
  <2>1. p \in 1 .. launches /\ launches \in 0 .. (MaxChanges + MaxRestarts)
    BY DEF Nav2Inv, TypeOK
  <2> QED BY <2>1 DEF Pids
<1> QED BY <1>1, <1>2 DEF SendStartup, Asked, Nav2Inv, TypeOK

LEMMA AskedStep ==
  ASSUME Nav2Inv, AskedOK, Next
  PROVE  AskedOK'
<1>f. failures' = 0 => failures = 0 BY FailuresGrow
<1>k. failures' = 0 => \A m \in Managers :
        (\E p \in running : Asked(p, m)) => \E p \in running' : Asked(p, m)'
  BY AskedKept
<1>m. "navigation" \in Managers /\ "localization" \in Managers BY DEF Managers
<1>1. CASE AskNavigation
  <2>1. navStarted' = (Listening("navigation") # {}) /\ executor' = "askLocalization"
        /\ m_nav2_state' = m_nav2_state /\ running' = running
    BY <1>1 DEF AskNavigation, nav2
  <2>2. navStarted' => \E p \in running : Asked(p, "navigation")'
    BY <1>1, <1>m, <2>1, SendStartupAsks DEF AskNavigation
  <2> QED BY <1>f, <1>k, <2>1, <2>2 DEF AskedOK
<1>2. CASE AskLocalization
  <2>1. ~navStarted' /\ running' = running BY <1>2 DEF AskLocalization, nav2
  <2>2. m_nav2_state' \in Localizing => navStarted /\ Listening("localization") # {}
    BY <1>2 DEF AskLocalization, Localizing
  <2>3. m_nav2_state' \in Localizing => \E p \in running : Asked(p, "localization")'
    BY <1>2, <1>m, <2>1, <2>2, SendStartupAsks DEF AskLocalization
  <2>4. failures' = 0 /\ m_nav2_state' \in Localizing =>
          \E p \in running' : Asked(p, "navigation")'
    BY <1>f, <1>k, <1>m, <2>2 DEF AskedOK
  <2> QED BY <2>1, <2>3, <2>4 DEF AskedOK, Managers
<1>3. CASE ~AskNavigation /\ ~AskLocalization
  <2>1. navStarted' => navStarted /\ executor' = executor
    BY <1>3 DEF Next, Node, PublishMapInfo, PublishPose, HandleMapInfo, MapNotReady, KeepNav2,
       LaunchNav2, ForkFails, Relaunch, MapReady, Take, HandleInitialPose, TickStarts,
       TickLocalizes, Restart, ManagerUp, StartsUp, StartupFails, Dies, AskedOK
  <2>2. m_nav2_state' \in Localizing => m_nav2_state \in Localizing
    BY <1>3 DEF Next, Node, PublishMapInfo, PublishPose, HandleMapInfo, MapNotReady, KeepNav2,
       LaunchNav2, ForkFails, Relaunch, HandleInitialPose, TickStarts,
       TickLocalizes, Restart, ManagerUp, StartsUp, StartupFails, Dies, Localizing
  <2> QED BY <1>f, <1>k, <1>m, <2>1, <2>2 DEF AskedOK
<1> QED BY <1>1, <1>2, <1>3

\* While nothing fails, a node that waits for its localization, or is ready, has asked a
\* lifecycle manager of each kind that runs; and it was its own Nav2 that it asked, with the
\* map that was noted, as long as that is the only one (sendStartup, startNav2Lifecycle).
\* With a second launch the old Nav2 may have answered in its place (ReadyNav2IsActive).
THEOREM FirstNav2IsAsked ==
  Spec => [](failures = 0 /\ m_nav2_state \in Localizing =>
               /\ \A m \in Managers : \E p \in running : Asked(p, m)
               /\ launches = 1 => /\ m_nav2_pid \in running
                                  /\ launchedWith[m_nav2_pid] = m_current_map_version
                                  /\ \A m \in Managers : Asked(m_nav2_pid, m))
<1>1. Init => AskedOK
  BY DEF Init, AskedOK, Localizing
<1>2. Nav2Inv /\ AskedOK /\ [Next]_vars => AskedOK'
  <2>1. AskedOK /\ UNCHANGED vars => AskedOK'
    BY DEF vars, nav2, bounds, AskedOK, Asked
  <2> QED BY <2>1, AskedStep
<1>3. ASSUME Nav2Inv, AskedOK, failures = 0, m_nav2_state \in Localizing
      PROVE  /\ \A m \in Managers : \E p \in running : Asked(p, m)
             /\ launches = 1 => /\ m_nav2_pid \in running
                                /\ launchedWith[m_nav2_pid] = m_current_map_version
                                /\ \A m \in Managers : Asked(m_nav2_pid, m)
  <2>1. \A m \in Managers : \E p \in running : Asked(p, m) BY <1>3 DEF AskedOK
  <2>2. m_nav2_pid # NoPid /\ m_nav2_pid \in running
    BY <1>3 DEF Nav2Inv, HealthyOK, Localizing
  <2>3. launches = 1 => \A p \in running : p = m_nav2_pid
    BY <1>3, <2>2 DEF Nav2Inv, TypeOK
  <2> QED BY <1>3, <2>1, <2>2, <2>3 DEF Nav2Inv, OwnNav2HasTheMap
<1> QED BY <1>1, <1>2, <1>3, Nav2Always, PTL DEF Spec

==============================================================================
