---------------------------- MODULE SimLifecycle ----------------------------
(***************************************************************************)
(* The simulation manager: it makes the models in Gazebo agree with the    *)
(* list of robots that the edge sends it (RobotListFeed has the sending).  *)
(*                                                                         *)
(*   notifier  EdgeClient::notifyDealThread, which compares the list with  *)
(*             a copy of the models and then makes its requests, one call  *)
(*             after the other (RobotSyncManager).                         *)
(*   worker    RobotLifecycleManager::workerLoop, one request at a time.   *)
(*   executor  the callbacks of the node: the timer that asks for the      *)
(*             models, and Gazebo's answers.                               *)
(*                                                                         *)
(* A request is [robot, old, new]: a creation has no old instance, a       *)
(* deletion no new one, a replacement both.                                *)
(***************************************************************************)
EXTENDS Integers, Sequences, FiniteSets, SequencesExt

CONSTANTS
  Robots,
  Instances,
  None,
  MaxChanges,    \* bound on the changes of the edge's list
  MaxQueue,      \* bound: no list is delivered while more requests are under way
  MaxRestarts    \* bound on restarts of the manager

States == {"waitCreate", "waitModel", "waitController", "active", "failed", "deleting"}

ASSUME SimConstants ==
  /\ None \notin Instances /\ None \notin States
  /\ IsFiniteSet(Robots) /\ IsFiniteSet(Instances)
  /\ MaxChanges \in Nat /\ MaxQueue \in Nat /\ MaxRestarts \in Nat

Models   == Robots \X Instances
Lists    == [Robots -> Instances \cup {None}]
Requests == [robot : Robots, old : Instances \cup {None}, new : Instances \cup {None}]
Answers  == [robot : Robots, for : {"delete", "replace", "cleanup"}, success : BOOLEAN]

VARIABLES
  list, changes,      \* the edge's list, and how often it has changed
  m_robotList, m_robotListUpdated,
  toRequest,          \* the requests the notifier has yet to make
  m_models,           \* what the manager knows of Gazebo's models
  m_robots,           \* the state of a managed robot, or None
  m_queue,
  pc, request,        \* the worker
  m_processes,        \* the launches in the manager's table
  spawning,           \* launches that may still put their model into the world
  ready,              \* Gazebo's services can be reached
  gazebo,             \* the models of the world
  reply,              \* an answer to get_model_list under way, or None
  answers,            \* answers to delete_entity under way
  late,               \* an interrupted launch was not stopped in time
  restarts

edge    == <<list, changes>>
feed    == <<m_robotList, m_robotListUpdated, toRequest>>
worker  == <<pc, request>>
launch  == <<m_processes, spawning, late>>
world   == <<ready, gazebo>>
wire    == <<reply, answers>>
simVars == <<edge, feed, m_models, m_robots, m_queue, worker,
             launch, world, wire, restarts>>

\* Every variable of the manager has its type.
SimTypeOK ==
  /\ list \in Lists /\ changes \in 0 .. MaxChanges
  /\ m_robotList \in Lists
  /\ m_robotListUpdated \in BOOLEAN
  /\ toRequest \in Seq(Requests)
  /\ m_models \subseteq Models
  /\ m_robots \in [Robots -> States \cup {None}]
  /\ m_queue \in Seq(Requests)
  /\ pc \in {"idle", "create", "waitModel", "waitController", "delete", "replace", "waitDelete"}
  /\ pc # "idle" => request \in Requests
  /\ m_processes \subseteq Models
  /\ spawning \subseteq Models
  /\ late \in BOOLEAN
  /\ ready \in BOOLEAN
  /\ gazebo \subseteq Models
  /\ reply # None => reply \subseteq Models
  /\ answers \in Seq(Answers)
  /\ restarts \in 0 .. MaxRestarts

SimInit ==
  /\ list \in Lists /\ changes = 0
  /\ m_robotList = [r \in Robots |-> None]
  /\ m_robotListUpdated = FALSE
  /\ toRequest = <<>>
  /\ m_models = {}
  /\ m_robots = [r \in Robots |-> None]
  /\ m_queue = <<>>
  /\ pc = "idle" /\ request = None
  /\ m_processes = {} /\ spawning = {} /\ late = FALSE
  /\ ready = FALSE /\ gazebo = {}
  /\ reply = None /\ answers = <<>>
  /\ restarts = 0

------------------------------------------------------------------------------
(***************************************************************************)
(* The edge's lists, and their synchronisation with the models.            *)
(***************************************************************************)

EdgeChanges ==
  /\ changes < MaxChanges
  /\ changes' = changes + 1
  /\ list' \in Lists \ {list}
  /\ UNCHANGED <<feed, m_models, m_robots, m_queue, worker, launch, world, wire, restarts>>

\* EdgeClient::handleRobotList.
ReceiveList ==
  /\ Len(toRequest) + Len(m_queue) + Len(answers) <= MaxQueue
  /\ m_robotList' = list
  /\ m_robotListUpdated' = TRUE
  /\ UNCHANGED <<edge, toRequest, m_models, m_robots, m_queue, worker, launch, world, wire, restarts>>

\* A robot is compared with one model of its name, the first in Gazebo's order.
Wanted(old) ==
  {q \in [robot : Robots, old : Instances \cup {None}, new : Instances] :
     /\ q.new = m_robotList[q.robot]
     /\ q.old = old[q.robot]
     /\ q.old # q.new}

Unwanted ==
  {q \in [robot : Robots, old : Instances, new : {None}] :
     /\ m_robotList[q.robot] = None
     /\ <<q.robot, q.old>> \in m_models}

\* notifyDealThread: RobotSyncManager::sync up to its calls.
Sync ==
  /\ m_robotListUpdated /\ toRequest = <<>>
  /\ m_robotListUpdated' = FALSE
  /\ \E old \in [Robots -> Instances \cup {None}] :
       /\ \A r \in Robots : IF \E m \in m_models : m[1] = r THEN <<r, old[r]>> \in m_models
                                                            ELSE old[r] = None
       /\ \E first \in SetToSeqs(Wanted(old)), last \in SetToSeqs(Unwanted) :
            toRequest' = first \o last
  /\ UNCHANGED <<edge, m_robotList, m_models, m_robots, m_queue, worker, launch, world, wire,
                 restarts>>

\* Fault: requestCreate does not look whether the robot is managed.
AcceptedUnmanaged(q) == TRUE

\* A robot that is managed by now is not created again, unless that has failed.
Accepted(q) == q.old = None => m_robots[q.robot] \in {None, "failed"}

\* One call of requestCreate, requestReplace or requestDelete, each with its own lock.
Request ==
  /\ toRequest # <<>>
  /\ toRequest' = Tail(toRequest)
  /\ LET q == Head(toRequest)
     IN  /\ m_queue' = IF Accepted(q) THEN Append(m_queue, q) ELSE m_queue
         /\ m_robots' = IF q.old = None /\ Accepted(q)
                        THEN [m_robots EXCEPT ![q.robot] = "waitCreate"] ELSE m_robots
  /\ UNCHANGED <<edge, m_robotList, m_robotListUpdated, m_models, worker, launch, world, wire,
                 restarts>>

------------------------------------------------------------------------------
(***************************************************************************)
(* The worker.                                                             *)
(***************************************************************************)

\* setState: of a robot that is not managed nothing is recorded.
SetState(r, state) ==
  m_robots' = [m_robots EXCEPT ![r] = IF @ = None THEN None ELSE state]

\* AmrProcessManager::stop interrupts the launch and does not wait for it: what it has
\* asked Gazebo for may still happen.
Stop(m) ==
  /\ m_processes' = m_processes \ {m}
  /\ late' \in {late, TRUE}
  /\ spawning' = IF late' = late THEN spawning \ (m_processes \cap {m}) ELSE spawning

\* deleteModelAsync and deleteModel: nothing is asked of a Gazebo that is not there. It
\* serves a deletion at once, next to the seconds of a launch; its answer comes later.
Delete(m, for) ==
  /\ gazebo' = IF ready THEN gazebo \ {m} ELSE gazebo
  /\ answers' = IF ready
       THEN Append(answers, [robot |-> m[1], for |-> for, success |-> m \in gazebo])
       ELSE answers

Old == <<request.robot, request.old>>
New == <<request.robot, request.new>>

TakeRequest ==
  /\ pc = "idle"
  /\ m_queue # <<>>
  /\ request' = Head(m_queue)
  /\ m_queue' = Tail(m_queue)
  /\ pc' = IF request'.old = None THEN "create"
           ELSE IF request'.new = None THEN "delete" ELSE "replace"
  /\ UNCHANGED <<edge, feed, m_models, m_robots, launch, world, wire, restarts>>

\* createRobot: the launch of this very instance must not be in the table.
Launch ==
  /\ pc = "create"
  /\ New \notin m_processes
  /\ m_processes' = m_processes \cup {New}
  /\ spawning' = spawning \cup {New}
  /\ UNCHANGED late
  /\ SetState(request.robot, "waitModel")
  /\ pc' = "waitModel"
  /\ UNCHANGED <<edge, feed, m_models, m_queue, request, world, wire, restarts>>

LaunchFails ==
  /\ pc = "create"
  /\ SetState(request.robot, "failed")
  /\ pc' = "idle" /\ request' = None
  /\ UNCHANGED <<edge, feed, m_models, m_queue, launch, world, wire, restarts>>

ModelSeen ==
  /\ pc = "waitModel"
  /\ New \in m_models
  /\ SetState(request.robot, "waitController")
  /\ pc' = "waitController"
  /\ UNCHANGED <<edge, feed, m_models, m_queue, request, launch, world, wire, restarts>>

\* ControllerChecker::check asks by the robot's name: any model of the robot answers.
ControllerAnswers == \E m \in gazebo : m[1] = request.robot

ControllerReady ==
  /\ pc = "waitController"
  /\ ControllerAnswers
  /\ SetState(request.robot, "active")
  /\ pc' = "idle" /\ request' = None
  /\ UNCHANGED <<edge, feed, m_models, m_queue, launch, world, wire, restarts>>

\* Fault: the failure of a creation is not recorded.
GiveUpSilently ==
  /\ pc \in {"waitModel", "waitController"}
  /\ Stop(New)
  /\ Delete(New, "cleanup")
  /\ pc' = "idle" /\ request' = None
  /\ UNCHANGED <<edge, feed, m_models, m_robots, m_queue, ready, reply, restarts>>

\* 30 s without the model, or 6 s without its controller: cleanupRobot.
GiveUp ==
  /\ pc \in {"waitModel", "waitController"}
  /\ Stop(New)
  /\ Delete(New, "cleanup")
  /\ SetState(request.robot, "failed")
  /\ pc' = "idle" /\ request' = None
  /\ UNCHANGED <<edge, feed, m_models, m_queue, ready, reply, restarts>>

\* Fault: the robot is not marked as being deleted.
DeleteUnmarked ==
  /\ pc = "delete"
  /\ Stop(Old)
  /\ Delete(Old, "delete")
  /\ pc' = "idle" /\ request' = None
  /\ UNCHANGED <<edge, feed, m_models, m_robots, m_queue, ready, reply, restarts>>

DeleteRobot ==
  /\ pc = "delete"
  /\ SetState(request.robot, "deleting")
  /\ Stop(Old)
  /\ Delete(Old, "delete")
  /\ pc' = "idle" /\ request' = None
  /\ UNCHANGED <<edge, feed, m_models, m_queue, ready, reply, restarts>>

\* replaceRobot waits for the old model's end.
ReplaceRobot ==
  /\ pc = "replace"
  /\ Stop(Old)
  /\ Delete(Old, "replace")
  /\ pc' = "waitDelete"
  /\ UNCHANGED <<edge, feed, m_models, m_robots, m_queue, request, ready, reply, restarts>>

Worker ==
  \/ TakeRequest \/ Launch \/ LaunchFails \/ ModelSeen \/ ControllerReady \/ GiveUp
  \/ DeleteRobot \/ ReplaceRobot

------------------------------------------------------------------------------
(***************************************************************************)
(* Gazebo, and its answers on the executor.                                *)
(***************************************************************************)

GazeboStarts ==
  /\ ~ready
  /\ ready' = TRUE
  /\ UNCHANGED <<edge, feed, m_models, m_robots, m_queue, worker, launch, gazebo, wire, restarts>>

\* A launch has its model spawned; a second one by the same name is refused.
ModelAppears(m) ==
  /\ ready
  /\ m \in spawning
  /\ spawning' = spawning \ {m}
  /\ gazebo' = gazebo \cup {m}
  /\ UNCHANGED <<edge, feed, m_models, m_robots, m_queue, worker,
                 m_processes, late, ready, wire, restarts>>

\* onTimerUpdateRobotModels, and Gazebo's answer.
UpdateModels ==
  /\ ready
  /\ reply = None
  /\ reply' = gazebo
  /\ UNCHANGED <<edge, feed, m_models, m_robots, m_queue, worker, launch, world, answers, restarts>>

ModelsReply ==
  /\ reply # None
  /\ m_models' = reply
  /\ reply' = None
  /\ UNCHANGED <<edge, feed, m_robots, m_queue, worker, launch, world, answers, restarts>>

\* Fault: any answer is taken for that of the deletion that a replacement waits for.
DeleteReplyUnread ==
  /\ answers # <<>>
  /\ LET a == Head(answers)
     IN  /\ m_robots' = IF a.for = "delete" /\ a.success
                        THEN [m_robots EXCEPT ![a.robot] = None] ELSE m_robots
         /\ pc' = IF a.for # "cleanup" THEN "create" ELSE pc
  /\ answers' = Tail(answers)
  /\ UNCHANGED <<edge, feed, m_models, m_queue, request, launch, world, reply, restarts>>

\* The callback of a deletion forgets the robot; a replacement goes on or ends.
DeleteReply ==
  /\ answers # <<>>
  /\ LET a == Head(answers)
     IN  /\ m_robots' = IF a.for = "delete" /\ a.success
                        THEN [m_robots EXCEPT ![a.robot] = None] ELSE m_robots
         /\ IF a.for = "replace" THEN /\ pc' = IF a.success THEN "create" ELSE "idle"
                                      /\ request' = IF a.success THEN request ELSE None
            ELSE UNCHANGED worker
  /\ answers' = Tail(answers)
  /\ UNCHANGED <<edge, feed, m_models, m_queue, launch, world, reply, restarts>>

\* The manager restarts: Gazebo, its models and the launches stay.
ManagerRestarts ==
  /\ restarts < MaxRestarts
  /\ restarts' = restarts + 1
  /\ m_robotList' = [r \in Robots |-> None] /\ m_robotListUpdated' = FALSE /\ toRequest' = <<>>
  /\ m_models' = {}
  /\ m_robots' = [r \in Robots |-> None]
  /\ m_queue' = <<>>
  /\ pc' = "idle" /\ request' = None
  /\ m_processes' = {}
  /\ reply' = None /\ answers' = <<>>
  /\ UNCHANGED <<edge, spawning, late, world>>

Gazebo == GazeboStarts \/ \E m \in Models : ModelAppears(m)

SimNext ==
  \/ EdgeChanges \/ ReceiveList \/ Sync \/ Request
  \/ Worker
  \/ Gazebo \/ UpdateModels \/ ModelsReply \/ DeleteReply
  \/ ManagerRestarts

SimSpec == SimInit /\ [][SimNext]_simVars

SimFairSpec ==
  /\ SimSpec
  /\ WF_simVars(ReceiveList) /\ WF_simVars(Sync) /\ WF_simVars(Request)
  /\ WF_simVars(Worker)
  /\ WF_simVars(Gazebo) /\ WF_simVars(UpdateModels)
  /\ WF_simVars(ModelsReply) /\ WF_simVars(DeleteReply)

------------------------------------------------------------------------------
\* One robot never has two launches, which would share its namespace and its topics: a
\* creation is refused for a robot that is managed, and a replacement stops the old launch
\* first. (Not after an interrupted launch has gone on, nor after a restart.)
OneLaunch ==
  ~ late /\ restarts = 0 => \A m, n \in m_processes : m[1] = n[1] => m = n

\* A robot that counts as active, so that no creation is accepted for it, stands in Gazebo
\* with its launch running, or is being replaced, whatever requests were queued for it from
\* old lists and old models.
ActiveStands ==
  ~ late /\ restarts = 0 =>
    \A r \in Robots : m_robots[r] = "active" =>
      \/ \E m \in m_processes \cap gazebo : m[1] = r
      \/ pc \in {"waitDelete", "create"} /\ request.robot = r /\ request.old # None

Agrees == gazebo = {<<r, list[r]>> : r \in {s \in Robots : list[s] # None}}

\* No interrupted launch goes on, the manager restarts only under a list that stays, and
\* from some time on launches start and are in time.
Undisturbed ==
  /\ [](~ late /\ (restarts = 0 \/ changes = 0))
  /\ <>[][~ GiveUp /\ ~ (LaunchFails /\ New \notin m_processes)]_simVars

DeletionsSucceed == \A i \in DOMAIN answers : answers[i].for = "delete" => answers[i].success

\* The synchronisation is maintained: the models agree with the edge's list at last, when
\* no deletion is asked of Gazebo for a model that has gone already. (One that is leaves the
\* robot in the state deleting for ever, and it is never created again.)
ModelsConvergeIfDeleted == Undisturbed /\ []DeletionsSucceed => <>[]Agrees

==============================================================================
