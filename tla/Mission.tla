------------------------------ MODULE Mission ------------------------------
(***************************************************************************)
(* The behaviour manager of an AMR (AmrBehaviorManagerNode) with its       *)
(* NavigationClient, over the action that NavigateAction promises and      *)
(* Navigation implements.                                                  *)
(*                                                                         *)
(* Its callbacks run on one executor, each as a whole.  The timers of the  *)
(* simulated grasp and placement are wall timers that nothing cancels:     *)
(* armed once, they fire for as long as the node lives, whatever has become*)
(* of the task.  Several armed timers of one kind only fire more often.    *)
(*                                                                         *)
(* Commands come from the agent in any order and number.  A response names *)
(* a request that was published; the broker may deliver it again.  Task    *)
(* state updates are included although the agent's router drops them       *)
(* (TaskBridge): without them the manager asks for nothing.                *)
(***************************************************************************)
EXTENDS NavigateAction, Sequences

CONSTANTS
  Task,
  NoTask,
  MaxRequests   \* bound on the goods requests

ASSUME MissionAssumption == NoTask \notin Task

NoRequest == 0
NoGoal    == 0

VARIABLES
  m_current_task_id,
  m_task_state,
  m_goods_status,            \* it lists goods with a pending quantity
  m_current_goods,           \* the request whose response brought them
  m_request_id,
  m_waiting_goods_response,
  m_map_ready,
  m_edge_online,
  graspTimer, placeTimer,    \* m_one_shot_timers has such a timer
  m_current_goal_handle,     \* of NavigationClient
  known, finished,           \* goals whose acceptance, whose result has been received
  \* History.
  asked,                     \* the task of each request that was published
  granted                    \* requests an accepted response was taken for

trip    == <<m_current_task_id, m_task_state, m_goods_status, m_current_goods>>
request == <<m_request_id, m_waiting_goods_response, asked>>
timers  == <<graspTimer, placeTimer>>
inputs  == <<m_map_ready, m_edge_online>>
client  == <<m_current_goal_handle, known, finished>>
vars    == <<action, trip, request, timers, inputs, client, granted>>

Init ==
  /\ ActionInit
  /\ m_current_task_id = NoTask
  /\ m_task_state = "IDLE"
  /\ m_goods_status = FALSE
  /\ m_current_goods = NoRequest
  /\ m_request_id = NoRequest
  /\ m_waiting_goods_response = FALSE
  /\ m_map_ready = FALSE
  /\ m_edge_online = TRUE
  /\ graspTimer = FALSE
  /\ placeTimer = FALSE
  /\ m_current_goal_handle = NoGoal
  /\ known = {}
  /\ finished = {}
  /\ asked = <<>>
  /\ granted = {}

------------------------------------------------------------------------------
(***************************************************************************)
(* Commands.                                                               *)
(***************************************************************************)

ResetTask ==
  /\ m_current_task_id' = NoTask
  /\ m_task_state' = "IDLE"
  /\ m_goods_status' = FALSE
  /\ m_current_goods' = NoRequest
  /\ m_request_id' = NoRequest
  /\ m_waiting_goods_response' = FALSE
  /\ UNCHANGED asked

\* The manager asks for the next goods, in state s with goods pending or not.
MaybeRequestNextGoods(s, pending) ==
  IF /\ m_edge_online /\ m_map_ready
     /\ s # "INTERRUPTED"
     /\ ~m_waiting_goods_response
     /\ m_current_task_id # NoTask
     /\ pending
  THEN /\ Len(asked) < MaxRequests
       /\ asked' = Append(asked, m_current_task_id)
       /\ m_request_id' = Len(asked) + 1
       /\ m_waiting_goods_response' = TRUE
  ELSE UNCHANGED request

\* Fault: a task that takes the place of another inherits what it was waiting for.
AssignStillWaiting(t) ==
  /\ m_map_ready
  /\ m_current_task_id # t
  /\ m_current_task_id' = t
  /\ m_task_state' = "ACCEPTED"
  /\ m_goods_status' = FALSE
  /\ m_current_goods' = NoRequest
  /\ UNCHANGED <<request, timers, inputs, client, granted, action>>

\* Fault: it inherits the goods.
AssignWithGoods(t) ==
  /\ m_map_ready
  /\ m_current_task_id # t
  /\ m_current_task_id' = t
  /\ m_task_state' = "ACCEPTED"
  /\ m_goods_status' = FALSE
  /\ m_waiting_goods_response' = FALSE
  /\ UNCHANGED <<m_request_id, asked, m_current_goods>>
  /\ UNCHANGED <<timers, inputs, client, granted, action>>

\* A task that runs is replaced without a word; the timers, the navigation and
\* the request_id stay.
HandleTaskAssign(t) ==
  /\ m_map_ready
  /\ m_current_task_id # t
  /\ m_current_task_id' = t
  /\ m_task_state' = "ACCEPTED"
  /\ m_goods_status' = FALSE
  /\ m_current_goods' = NoRequest
  /\ m_waiting_goods_response' = FALSE
  /\ UNCHANGED <<m_request_id, asked, timers, inputs, client, granted, action>>

\* NavigationClient::cancelNavigation: of the goal that was accepted last, unless
\* its end is known.
CancelGoal ==
  cancels' = cancels \cup ({m_current_goal_handle} \ (finished \cup {NoGoal}))

\* Fault: the task is not given up.
CancelWithoutReset(t) ==
  /\ m_current_task_id = t
  /\ CancelGoal
  /\ m_task_state' = "CANCELLED"
  /\ UNCHANGED <<m_current_task_id, m_goods_status, m_current_goods, request>>
  /\ UNCHANGED <<goal, arrived, timers, inputs, client, granted>>

\* CARRY_ABORTED is published and the task forgotten; the timers stay armed.
HandleTaskCancel(t) ==
  /\ m_current_task_id = t
  /\ CancelGoal
  /\ ResetTask
  /\ UNCHANGED <<goal, arrived, timers, inputs, client, granted>>

\* A terminal state ends the task, any other brings the quantities.
HandleTaskStateUpdate(t) ==
  /\ m_current_task_id = t
  /\ \/ ResetTask
     \/ \E pending \in BOOLEAN :
          /\ m_goods_status' = pending
          /\ MaybeRequestNextGoods(m_task_state, pending)
          /\ UNCHANGED <<m_current_task_id, m_task_state, m_current_goods>>
  /\ UNCHANGED <<timers, inputs, client, granted, action>>

\* The task of the response is compared, its request_id is not.
HandleGoodsResponse(r) ==
  /\ asked[r] = m_current_task_id
  /\ m_waiting_goods_response
  /\ m_waiting_goods_response' = FALSE
  /\ \/ UNCHANGED <<trip, timers, granted>>   \* refused
     \/ /\ m_current_goods' = r
        /\ m_task_state' = "GRASPING"
        /\ graspTimer' = TRUE
        /\ granted' = granted \cup {r}
        /\ UNCHANGED <<m_current_task_id, m_goods_status, placeTimer>>
  /\ UNCHANGED <<m_request_id, asked, inputs, client, action>>

\* A ready MapInfo, whose zones and stations can be read or not.
OnMapInfo ==
  /\ m_map_ready' \in BOOLEAN
  /\ UNCHANGED <<trip, request, timers, m_edge_online, client, granted, action>>

OnEdgeStatus ==
  /\ m_edge_online' \in BOOLEAN
  /\ UNCHANGED <<trip, request, timers, m_map_ready, client, granted, action>>

------------------------------------------------------------------------------
(***************************************************************************)
(* Grasp, navigation, placement.                                           *)
(***************************************************************************)

\* The grasp is over.  navigateToPose sends a goal if its server can be reached.
GraspTimer ==
  /\ graspTimer
  /\ m_task_state' = "TRANSPORTING"
  /\ UNCHANGED goal \/ \E g \in Goals : Send(g)
  /\ UNCHANGED <<m_current_task_id, m_goods_status, m_current_goods>>
  /\ UNCHANGED <<cancels, arrived, request, timers, inputs, client, granted>>

GoalResponse(g) ==
  /\ g \notin known
  /\ goal[g] \notin {"unsent", "sent"}
  /\ known' = known \cup {g}
  /\ m_current_goal_handle' =
       IF goal[g] = "rejected" THEN m_current_goal_handle ELSE g
  /\ UNCHANGED <<trip, request, timers, inputs, finished, granted, action>>

\* onNavigationResult, which does not ask which goal it is the result of.
NavigationResult(g) ==
  /\ g \in known \ finished
  /\ goal[g] \in Terminal
  /\ finished' = finished \cup {g}
  /\ IF m_task_state # "TRANSPORTING" THEN UNCHANGED <<m_task_state, placeTimer>>
     ELSE IF goal[g] = "succeeded"
     THEN m_task_state' = "PLACING" /\ placeTimer' = TRUE
     ELSE m_task_state' = "INTERRUPTED" /\ UNCHANGED placeTimer
  /\ UNCHANGED <<m_current_task_id, m_goods_status, m_current_goods, graspTimer>>
  /\ UNCHANGED <<request, inputs, m_current_goal_handle, known, granted, action>>

\* CARRY_COMPLETED is published, of whatever task and goods the manager has by then,
\* driven or not, and the next goods are asked for; offline the task is given up.
PlaceTimer ==
  /\ placeTimer
  /\ IF m_edge_online
     THEN /\ m_task_state' = "ACCEPTED"
          /\ m_current_goods' = NoRequest
          /\ MaybeRequestNextGoods("ACCEPTED", m_goods_status)
          /\ UNCHANGED <<m_current_task_id, m_goods_status>>
     ELSE ResetTask
  /\ UNCHANGED <<timers, inputs, client, granted, action>>

------------------------------------------------------------------------------

Command ==
  \/ \E t \in Task : HandleTaskAssign(t) \/ HandleTaskCancel(t) \/ HandleTaskStateUpdate(t)
  \/ \E r \in 1 .. Len(asked) : HandleGoodsResponse(r)

BehaviorStep ==
  \/ Command \/ OnMapInfo \/ OnEdgeStatus
  \/ GraspTimer \/ PlaceTimer
  \/ \E g \in Goals : GoalResponse(g) \/ NavigationResult(g)

Next ==
  \/ BehaviorStep
  \/ ServerStep /\ UNCHANGED <<trip, request, timers, inputs, client, granted>>

Spec == Init /\ [][Next]_vars

------------------------------------------------------------------------------
(***************************************************************************)
(* Properties.                                                             *)
(***************************************************************************)

TaskStates == {"IDLE", "ACCEPTED", "GRASPING", "TRANSPORTING", "PLACING", "INTERRUPTED"}

\* Every variable of the behaviour manager has its type.
TypeOK ==
  /\ goal \in [Goals -> Status]
  /\ cancels \subseteq Goals
  /\ arrived \in BOOLEAN
  /\ m_current_task_id \in Task \cup {NoTask}
  /\ m_task_state \in TaskStates
  /\ m_goods_status \in BOOLEAN
  /\ m_current_goods \in Nat
  /\ m_request_id \in Nat
  /\ m_waiting_goods_response \in BOOLEAN
  /\ m_map_ready \in BOOLEAN
  /\ m_edge_online \in BOOLEAN
  /\ graspTimer \in BOOLEAN
  /\ placeTimer \in BOOLEAN
  /\ m_current_goal_handle \in Goals \cup {NoGoal}
  /\ known \subseteq Goals
  /\ finished \subseteq known
  /\ asked \in Seq(Task)
  /\ granted \subseteq 1 .. Len(asked)

\* The manager waits only for the answer to a request it made for the task it has:
\* assignments, cancels, timers of earlier trips and lost connections leave no wait
\* behind that the next task would never be rid of.
WaitsForItsOwn ==
  m_waiting_goods_response =>
    /\ m_request_id \in 1 .. Len(asked)
    /\ asked[m_request_id] = m_current_task_id

\* The goods in hand, which every report names together with the current task, were
\* granted to that task: no trip's goods are reported for another task.
GoodsBelongToTask ==
  m_current_goods # NoRequest =>
    /\ m_current_goods \in granted
    /\ asked[m_current_goods] = m_current_task_id

==============================================================================
