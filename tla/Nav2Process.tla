---------------------------- MODULE Nav2Process ----------------------------
(***************************************************************************)
(* How the navigation node of an AMR starts and stops Nav2: the state      *)
(* machine of NavigationServer over a child process and its two lifecycle  *)
(* managers.                                                               *)
(*                                                                         *)
(*   executor  the callbacks for the map, for the initial pose and of the  *)
(*             1 s timer, one at a time.  The wait for a lifecycle service *)
(*             blocks it for up to 5 s per manager, in which Nav2 goes on. *)
(*   Nav2      the processes that were ever launched, with their managers. *)
(*                                                                         *)
(* A stop calls killpg with a negative group, which the C library refuses: *)
(* a Nav2 that is told to stop goes on, under the same names as the next,  *)
(* and the server has forgotten it.  Every Nav2 whose manager is up hears  *)
(* a STARTUP request; none of the answers is read.                         *)
(*                                                                         *)
(* Goals, feedback and results are Navigation.  The parameter file, the    *)
(* pose topic and the destructor, which stops Nav2 as above, are left out. *)
(***************************************************************************)
EXTENDS Integers, FiniteSets

CONSTANTS
  Version,       \* map_version: the path of map.yaml is the same for all of them
  NotReady,      \* a MapInfo that is not ready; the agent of this repository sends none
  None,          \* no MapInfo yet
  MaxChanges,    \* bound on the MapInfo messages
  MaxRestarts,   \* bound on the restarts of the node
  MaxFailures    \* bound on failed forks, failed startups and deaths of Nav2

ASSUME Nav2Assumption ==
  /\ {NotReady, None} \cap Version = {} /\ NotReady # None
  /\ MaxChanges \in Nat /\ MaxRestarts \in Nat /\ MaxFailures \in Nat

\* Each message is taken once by each run of the node, and launches at most one Nav2.
Pids     == 1 .. (MaxChanges + MaxRestarts)
NoPid    == -1
Managers == {"navigation", "localization"}

VARIABLES
  \* The latched topics of the agent: what they hold, and what the node has yet to take.
  mapInfo, initialPose, inbox,
  \* NavigationServer; m_initial_pose only as whether there is one.
  m_map_ready, m_current_map_version, m_nav2_state, m_nav2_pid,
  m_initial_pose, m_initial_pose_published,
  executor, navStarted,
  \* Nav2: the version each was launched with, those that run, how far their managers
  \* are, and those that ran when an initial pose was published.
  launches, launchedWith, running, manager, posed,
  changes, restarts, failures

topics  == <<mapInfo, initialPose, inbox, changes>>
maps    == <<m_map_ready, m_current_map_version>>
pose    == <<m_initial_pose, m_initial_pose_published, posed>>
nav2    == <<launches, launchedWith, running>>
bounds  == <<restarts, failures>>
vars    == <<topics, maps, m_nav2_state, m_nav2_pid, pose, executor, navStarted,
             nav2, manager, bounds>>

Nav2State == {"STOPPED", "STARTING_PROCESS", "STARTING_LIFECYCLE", "WAITING_FOR_LOCALIZATION",
              "READY", "STOPPING", "FAILED"}

\* Every variable of the node has its type: the process in hand is none or one that was
\* launched.
TypeOK ==
  /\ mapInfo \in Version \cup {NotReady, None}
  /\ initialPose \in BOOLEAN
  /\ inbox \subseteq {"map_info", "initial_pose"}
  /\ m_map_ready \in BOOLEAN
  /\ m_current_map_version \in Version \cup {None}
  /\ m_nav2_state \in Nav2State
  /\ m_nav2_pid \in Pids \cup {NoPid}
  /\ m_initial_pose \in BOOLEAN
  /\ m_initial_pose_published \in BOOLEAN
  /\ executor \in {"idle", "askNavigation", "askLocalization"}
  /\ navStarted \in BOOLEAN
  /\ launches \in 0 .. (MaxChanges + MaxRestarts)
  /\ launchedWith \in [Pids -> Version \cup {None}]
  /\ running \subseteq 1 .. launches
  /\ manager \in [Pids -> [Managers -> {"absent", "up", "asked", "active", "failed"}]]
  /\ posed \subseteq 1 .. launches
  /\ changes \in 0 .. MaxChanges
  /\ restarts \in 0 .. MaxRestarts
  /\ failures \in 0 .. MaxFailures

Init ==
  /\ mapInfo = None /\ initialPose = FALSE /\ inbox = {} /\ changes = 0
  /\ m_map_ready = FALSE /\ m_current_map_version = None
  /\ m_nav2_state = "STOPPED" /\ m_nav2_pid = NoPid
  /\ m_initial_pose = FALSE /\ m_initial_pose_published = FALSE /\ posed = {}
  /\ executor = "idle" /\ navStarted = FALSE
  /\ launches = 0 /\ launchedWith = [p \in Pids |-> None] /\ running = {}
  /\ manager = [p \in Pids |-> [m \in Managers |-> "absent"]]
  /\ restarts = 0 /\ failures = 0

------------------------------------------------------------------------------
(* The agent.  Each topic keeps its last message for a subscriber that comes later. *)

PublishMapInfo(v) ==
  /\ changes < MaxChanges
  /\ changes' = changes + 1
  /\ mapInfo' = v
  /\ inbox' = inbox \cup {"map_info"}
  /\ UNCHANGED <<initialPose, maps, m_nav2_state, m_nav2_pid, pose, executor, navStarted,
                 nav2, manager, bounds>>

\* The agent publishes its pose once.
PublishPose ==
  /\ ~initialPose
  /\ initialPose' = TRUE
  /\ inbox' = inbox \cup {"initial_pose"}
  /\ UNCHANGED <<mapInfo, changes, maps, m_nav2_state, m_nav2_pid, pose, executor,
                 navStarted, nav2, manager, bounds>>

------------------------------------------------------------------------------
(* The executor. *)

\* The node takes a message of topic t.
Take(t) ==
  /\ executor = "idle"
  /\ t \in inbox
  /\ inbox' = inbox \ {t}
  /\ UNCHANGED <<mapInfo, initialPose, changes>>

\* Fault: the mark of the published pose is kept over a stop.
StopKeepsPose == UNCHANGED pose

\* stopNav2Process, if there is a pid: the signals reach nobody, and Nav2 runs on.
StopNav2Process ==
  /\ m_initial_pose_published' = (m_initial_pose_published /\ m_nav2_pid = NoPid)
  /\ UNCHANGED <<m_initial_pose, posed>>

\* handleMapInfo, when the map is not ready.
MapNotReady ==
  /\ Take("map_info")
  /\ mapInfo = NotReady
  /\ m_map_ready' = FALSE
  /\ IF m_nav2_state = "STOPPED"
       THEN UNCHANGED <<m_nav2_state, m_nav2_pid, pose>>
       ELSE m_nav2_state' = "STOPPED" /\ m_nav2_pid' = NoPid /\ StopNav2Process
  /\ UNCHANGED <<m_current_map_version, executor, navStarted, nav2, manager, bounds>>

\* Fault: only the paths are compared, which are the same for every version.
MapPathChanged(v) == FALSE

\* Whether the Nav2 that was launched has another map than the one that came.
MapChanged(v) == m_nav2_pid # NoPid /\ m_current_map_version # v

\* The map as handleMapInfo notes it, whatever becomes of Nav2.
MapReady(v) ==
  /\ Take("map_info")
  /\ mapInfo = v /\ v \in Version
  /\ m_map_ready' = TRUE
  /\ m_current_map_version' = v

\* It came again, or finds a start without a process: nothing is launched.
KeepNav2(v) ==
  /\ MapReady(v)
  /\ m_nav2_state # "STOPPED" /\ ~MapChanged(v)
  /\ UNCHANGED <<m_nav2_state, m_nav2_pid, pose, executor, navStarted, nav2, manager, bounds>>

\* Nav2 is stopped when it has another map, and launched; the first tick follows at once.
Relaunch(v) ==
  /\ MapReady(v)
  /\ m_nav2_state = "STOPPED" \/ MapChanged(v)
  /\ StopNav2Process
  /\ m_nav2_state' = "STARTING_PROCESS"
  /\ executor' = "askNavigation"
  /\ UNCHANGED <<navStarted, manager, restarts>>

\* Fault: what is kept for the process is the negative number that killpg is given.
LaunchKeepsGroup(v) ==
  /\ Relaunch(v)
  /\ launches' = launches + 1
  /\ launchedWith' = [launchedWith EXCEPT ![launches'] = v]
  /\ running' = running \cup {launches'}
  /\ m_nav2_pid' = -launches'
  /\ UNCHANGED failures

LaunchNav2(v) ==
  /\ Relaunch(v)
  /\ launches' = launches + 1
  /\ launchedWith' = [launchedWith EXCEPT ![launches'] = v]
  /\ running' = running \cup {launches'}
  /\ m_nav2_pid' = launches'
  /\ UNCHANGED failures

\* fork fails: the FAILED that launchNav2Process sets is overwritten at once, so that no
\* status reports it, and nothing launches Nav2 again while the map stays ready.
ForkFails(v) ==
  /\ failures < MaxFailures
  /\ failures' = failures + 1
  /\ Relaunch(v)
  /\ m_nav2_pid' = NoPid
  /\ UNCHANGED nav2

HandleMapInfo ==
  \/ MapNotReady
  \/ \E v \in Version : KeepNav2(v) \/ LaunchNav2(v) \/ ForkFails(v)

\* publishInitialPoseIfReady, in a state that lets it: once for each Nav2, to all that run.
PublishInitialPose(known) ==
  IF known /\ ~m_initial_pose_published
    THEN /\ m_initial_pose_published' = TRUE
         /\ posed' = posed \cup running
    ELSE UNCHANGED <<m_initial_pose_published, posed>>

HandleInitialPose ==
  /\ Take("initial_pose")
  /\ m_initial_pose' = TRUE
  /\ IF m_nav2_state \in {"WAITING_FOR_LOCALIZATION", "READY"}
       THEN PublishInitialPose(TRUE)
       ELSE UNCHANGED <<m_initial_pose_published, posed>>
  /\ UNCHANGED <<maps, m_nav2_state, m_nav2_pid, executor, navStarted, nav2, manager, bounds>>

\* Fault: a start that did not reach both managers is not tried again.
StartingOnce == {"STARTING_PROCESS"}

\* The states in which a tick starts the lifecycle, or tries it again.
Starting == {"STARTING_PROCESS", "STARTING_LIFECYCLE"}

TickStarts ==
  /\ executor = "idle" /\ m_map_ready
  /\ m_nav2_state \in Starting
  /\ executor' = "askNavigation"
  /\ UNCHANGED <<topics, maps, m_nav2_state, m_nav2_pid, pose, navStarted, nav2, manager, bounds>>

TickLocalizes ==
  /\ executor = "idle" /\ m_map_ready
  /\ m_nav2_state = "WAITING_FOR_LOCALIZATION"
  /\ PublishInitialPose(m_initial_pose)
  /\ m_nav2_state' = IF m_initial_pose_published' THEN "READY" ELSE m_nav2_state
  /\ UNCHANGED <<topics, maps, m_nav2_pid, m_initial_pose, executor, navStarted, nav2,
                 manager, bounds>>

\* The managers m that offer their service, and so hear a request.
Listening(m) == {p \in running : manager[p][m] # "absent"}

\* sendStartup: every Nav2 that listens is asked, whichever was launched last.
SendStartup(m) ==
  manager' = [p \in Pids |-> IF p \in Listening(m) THEN [manager[p] EXCEPT ![m] = "asked"]
                             ELSE manager[p]]

AskNavigation ==
  /\ executor = "askNavigation"
  /\ executor' = "askLocalization"
  /\ navStarted' = (Listening("navigation") # {})
  /\ SendStartup("navigation")
  /\ UNCHANGED <<topics, maps, m_nav2_state, m_nav2_pid, pose, nav2, bounds>>

AskLocalization ==
  /\ executor = "askLocalization"
  /\ executor' = "idle"
  /\ navStarted' = FALSE
  /\ SendStartup("localization")
  /\ m_nav2_state' = IF navStarted /\ Listening("localization") # {}
                       THEN "WAITING_FOR_LOCALIZATION" ELSE "STARTING_LIFECYCLE"
  /\ UNCHANGED <<topics, maps, m_nav2_pid, pose, nav2, bounds>>

\* The node ends and starts anew; its children have process groups of their own.
Restart ==
  /\ restarts < MaxRestarts
  /\ restarts' = restarts + 1
  /\ inbox' = {t \in {"map_info", "initial_pose"} :
                 IF t = "map_info" THEN mapInfo # None ELSE initialPose}
  /\ m_map_ready' = FALSE /\ m_current_map_version' = None
  /\ m_nav2_state' = "STOPPED" /\ m_nav2_pid' = NoPid
  /\ m_initial_pose' = FALSE /\ m_initial_pose_published' = FALSE
  /\ executor' = "idle" /\ navStarted' = FALSE
  /\ UNCHANGED <<mapInfo, initialPose, changes, posed, nav2, manager, failures>>

------------------------------------------------------------------------------
(* Nav2. *)

ManagerUp(p, m) ==
  /\ p \in running /\ manager[p][m] = "absent"
  /\ manager' = [manager EXCEPT ![p][m] = "up"]
  /\ UNCHANGED <<topics, maps, m_nav2_state, m_nav2_pid, pose, executor, navStarted, nav2,
                 bounds>>

\* A manager has brought its nodes up.
StartsUp(p, m) ==
  /\ p \in running /\ manager[p][m] = "asked"
  /\ manager' = [manager EXCEPT ![p][m] = "active"]
  /\ UNCHANGED <<topics, maps, m_nav2_state, m_nav2_pid, pose, executor, navStarted, nav2,
                 bounds>>

StartupFails(p, m) ==
  /\ failures < MaxFailures
  /\ failures' = failures + 1
  /\ p \in running /\ manager[p][m] = "asked"
  /\ manager' = [manager EXCEPT ![p][m] = "failed"]
  /\ UNCHANGED <<topics, maps, m_nav2_state, m_nav2_pid, pose, executor, navStarted, nav2,
                 restarts>>

\* Nobody waits for the process: the node does not notice.
Dies(p) ==
  /\ failures < MaxFailures
  /\ failures' = failures + 1
  /\ p \in running
  /\ running' = running \ {p}
  /\ manager' = [manager EXCEPT ![p] = [m \in Managers |-> "absent"]]
  /\ UNCHANGED <<topics, maps, m_nav2_state, m_nav2_pid, pose, executor, navStarted,
                 launches, launchedWith, restarts>>

------------------------------------------------------------------------------
Node == HandleMapInfo \/ HandleInitialPose \/ TickStarts \/ TickLocalizes
        \/ AskNavigation \/ AskLocalization

Next ==
  \/ \E v \in Version \cup {NotReady} : PublishMapInfo(v)
  \/ PublishPose
  \/ Node
  \/ Restart
  \/ \E p \in Pids, m \in Managers : ManagerUp(p, m) \/ StartsUp(p, m) \/ StartupFails(p, m)
  \/ \E p \in Pids : Dies(p)

Spec == Init /\ [][Next]_vars

\* The executor takes what is there, its timer fires, and a Nav2 that runs answers.
FairSpec ==
  /\ Spec
  /\ WF_vars(HandleMapInfo) /\ WF_vars(HandleInitialPose)
  /\ WF_vars(TickStarts) /\ WF_vars(TickLocalizes)
  /\ WF_vars(AskNavigation) /\ WF_vars(AskLocalization)
  /\ (\A p \in Pids, m \in Managers :
        WF_vars(ManagerUp(p, m)) /\ WF_vars(StartsUp(p, m) \/ StartupFails(p, m)))

------------------------------------------------------------------------------
\* The Nav2 that the node takes for its own was launched with the map version that the node
\* has noted last, and the map is ready: no order of messages leaves the node with the
\* process of an older version (handleMapInfo).
OwnNav2HasTheMap ==
  m_nav2_pid # NoPid => m_map_ready /\ launchedWith[m_nav2_pid] = m_current_map_version

\* As long as nothing has failed, the mark of the published pose is one of the Nav2 in hand:
\* a pose that an earlier one was given does not count for it (stopNav2Process).
PoseIsForOwnNav2 ==
  failures = 0 /\ m_initial_pose_published => m_nav2_pid \in posed

\* The node becomes ready, and stays so, when nothing fails and the agent comes to leave it
\* a map that is ready and a pose, however slowly Nav2 comes up.
NavigationComesUp ==
  [](failures = 0) /\ <>[](mapInfo \in Version /\ initialPose) => <>[](m_nav2_state = "READY")

\* A node that stays ready has a Nav2 of its map that was started up (the requirement on
\* the initialization of the navigation).
ReadyNav2IsActive ==
  m_nav2_state = "READY" ~>
    \/ m_nav2_state # "READY"
    \/ \E p \in running : /\ launchedWith[p] = m_current_map_version
                          /\ \A m \in Managers : manager[p][m] = "active"

==============================================================================
