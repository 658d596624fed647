--------------------------- MODULE MissionProofs ---------------------------
(***************************************************************************)
(* Theorems about Mission, for any number of tasks, requests and goals.    *)
(***************************************************************************)
EXTENDS Mission, TLAPS

\* The inductive invariant.
MissionInv == TypeOK /\ WaitsForItsOwn /\ GoodsBelongToTask

------------------------------------------------------------------------------

USE MissionAssumption, GoalsAssumption

LEMMA MissionInit == Init => MissionInv
<1> SUFFICES ASSUME Init PROVE MissionInv
  OBVIOUS
<1>1. goal \in [Goals -> Status] /\ \A g \in Goals : goal[g] = "unsent"
  BY DEF Init, ActionInit, Status
<1>2. asked \in Seq(Task)
  BY DEF Init
<1>3. cancels \subseteq Goals /\ known \subseteq Goals /\ finished \subseteq known
      /\ granted \subseteq 1 .. Len(asked)
  BY DEF Init, ActionInit
<1>4. TypeOK
  BY <1>1, <1>2, <1>3 DEF Init, ActionInit, TypeOK, TaskStates, NoGoal, NoRequest
<1>5. WaitsForItsOwn /\ GoodsBelongToTask
  BY DEF Init, WaitsForItsOwn, GoodsBelongToTask
<1> QED BY <1>4, <1>5 DEF MissionInv

\* Forgetting the task forgets what the manager waits for and holds.
LEMMA ResetKeeps ==
  ASSUME MissionInv, ResetTask, UNCHANGED <<goal, arrived, timers, inputs, client, granted>>,
         cancels' \subseteq Goals
  PROVE  MissionInv'
BY DEF MissionInv, ResetTask, TypeOK, WaitsForItsOwn, GoodsBelongToTask,
       TaskStates, timers, inputs, client, NoRequest

\* Asking for goods keeps what was asked before and waits for the new request.
LEMMA AskingKeeps ==
  ASSUME TypeOK, WaitsForItsOwn, NEW s, NEW p \in BOOLEAN, MaybeRequestNextGoods(s, p)
  PROVE  /\ asked' \in Seq(Task)
         /\ 1 .. Len(asked) \subseteq 1 .. Len(asked')
         /\ \A r \in 1 .. Len(asked) : asked'[r] = asked[r]
         /\ m_request_id' \in Nat
         /\ m_waiting_goods_response' \in BOOLEAN
         /\ m_current_task_id' = m_current_task_id => WaitsForItsOwn'
<1>1. CASE UNCHANGED request
  BY <1>1 DEF request, TypeOK, WaitsForItsOwn
<1>2. CASE /\ m_current_task_id # NoTask
           /\ asked' = Append(asked, m_current_task_id)
           /\ m_request_id' = Len(asked) + 1
           /\ m_waiting_goods_response' = TRUE
  <2>1. m_current_task_id \in Task /\ asked \in Seq(Task) /\ Len(asked) \in Nat
    BY <1>2 DEF TypeOK
  <2>2. /\ asked' \in Seq(Task)
        /\ Len(asked') = Len(asked) + 1
        /\ \A r \in 1 .. Len(asked) : asked'[r] = asked[r]
        /\ asked'[Len(asked) + 1] = m_current_task_id
    BY <1>2, <2>1
  <2> QED BY <1>2, <2>1, <2>2 DEF WaitsForItsOwn
<1> QED BY <1>1, <1>2 DEF MaybeRequestNextGoods

LEMMA CommandKeeps ==
  ASSUME MissionInv, Command
  PROVE  MissionInv'
<1> USE DEF MissionInv
<1>1. ASSUME NEW t \in Task, HandleTaskAssign(t) PROVE MissionInv'
  BY <1>1 DEF HandleTaskAssign, TypeOK, WaitsForItsOwn, GoodsBelongToTask,
     TaskStates, timers, inputs, client, action, NoRequest
<1>2. ASSUME NEW t \in Task, HandleTaskCancel(t) PROVE MissionInv'
  <2>1. cancels' \subseteq Goals
    BY <1>2 DEF HandleTaskCancel, CancelGoal, TypeOK, NoGoal
  <2> QED BY <1>2, <2>1, ResetKeeps DEF HandleTaskCancel
<1>3. ASSUME NEW t \in Task, HandleTaskStateUpdate(t) PROVE MissionInv'
  <2>1. CASE ResetTask
    BY <1>3, <2>1, ResetKeeps DEF HandleTaskStateUpdate, action, TypeOK
  <2>2. ASSUME NEW p \in BOOLEAN, m_goods_status' = p,
               MaybeRequestNextGoods(m_task_state, p),
               UNCHANGED <<m_current_task_id, m_task_state, m_current_goods>>
        PROVE  MissionInv'
    <3>1. UNCHANGED <<timers, inputs, client, granted, action>>
      BY <1>3 DEF HandleTaskStateUpdate
    <3>2. TypeOK'
      BY <2>2, <3>1, AskingKeeps DEF TypeOK, timers, inputs, client, action
    <3>3. WaitsForItsOwn' BY <2>2, AskingKeeps
    <3>4. GoodsBelongToTask'
      BY <2>2, <3>1, AskingKeeps DEF GoodsBelongToTask, TypeOK
    <3> QED BY <3>2, <3>3, <3>4
  <2> QED BY <1>3, <2>1, <2>2 DEF HandleTaskStateUpdate
<1>4. ASSUME NEW r \in 1 .. Len(asked), HandleGoodsResponse(r) PROVE MissionInv'
  <2>1. r \in Nat /\ r # NoRequest BY DEF NoRequest, TypeOK
  <2>2. TypeOK'
    BY <1>4, <2>1 DEF HandleGoodsResponse, TypeOK, TaskStates, trip, timers, inputs, client,
                      action
  <2>3. WaitsForItsOwn' BY <1>4 DEF HandleGoodsResponse, WaitsForItsOwn
  <2>4. GoodsBelongToTask'
    BY <1>4, <2>1 DEF HandleGoodsResponse, GoodsBelongToTask, trip
  <2> QED BY <2>2, <2>3, <2>4
<1> QED BY <1>1, <1>2, <1>3, <1>4 DEF Command

\* The timers and the answers of the navigation node.
LEMMA TripKeeps ==
  ASSUME MissionInv,
         \/ GraspTimer \/ PlaceTimer
         \/ \E g \in Goals : GoalResponse(g) \/ NavigationResult(g)
  PROVE  MissionInv'
<1> USE DEF MissionInv
<1>1. CASE GraspTimer
  <2>1. goal' \in [Goals -> Status]
    BY <1>1 DEF GraspTimer, Send, TypeOK, Status
  <2>2. TypeOK'
    BY <1>1, <2>1 DEF GraspTimer, TypeOK, TaskStates, request, timers, inputs, client
  <2>3. WaitsForItsOwn' /\ GoodsBelongToTask'
    BY <1>1 DEF GraspTimer, WaitsForItsOwn, GoodsBelongToTask, request
  <2> QED BY <2>2, <2>3
<1>2. CASE PlaceTimer
  <2>1. CASE ResetTask
    BY <1>2, <2>1, ResetKeeps DEF PlaceTimer, action, TypeOK
  <2>2. CASE /\ m_task_state' = "ACCEPTED"
             /\ m_current_goods' = NoRequest
             /\ MaybeRequestNextGoods("ACCEPTED", m_goods_status)
             /\ UNCHANGED <<m_current_task_id, m_goods_status>>
    <3>1. UNCHANGED <<timers, inputs, client, granted, action>>
      BY <1>2 DEF PlaceTimer
    <3>2. m_goods_status \in BOOLEAN BY DEF TypeOK
    <3>3. TypeOK'
      BY <2>2, <3>1, <3>2, AskingKeeps
      DEF TypeOK, TaskStates, timers, inputs, client, action, NoRequest
    <3>4. WaitsForItsOwn' BY <2>2, <3>2, AskingKeeps
    <3>5. GoodsBelongToTask'
      BY <2>2 DEF GoodsBelongToTask
    <3> QED BY <3>3, <3>4, <3>5
  <2> QED BY <1>2, <2>1, <2>2 DEF PlaceTimer
<1>3. ASSUME NEW g \in Goals, GoalResponse(g) PROVE MissionInv'
  <2>1. TypeOK'
    BY <1>3 DEF GoalResponse, TypeOK, trip, request, timers, inputs, action
  <2>2. WaitsForItsOwn' /\ GoodsBelongToTask'
    BY <1>3 DEF GoalResponse, WaitsForItsOwn, GoodsBelongToTask, trip, request
  <2> QED BY <2>1, <2>2
<1>4. ASSUME NEW g \in Goals, NavigationResult(g) PROVE MissionInv'
  <2>1. TypeOK'
    <3>1. /\ finished' \subseteq known' /\ known' \subseteq Goals
          /\ m_task_state' \in TaskStates /\ placeTimer' \in BOOLEAN
      BY <1>4 DEF NavigationResult, TypeOK, TaskStates
    <3> QED BY <1>4, <3>1 DEF NavigationResult, TypeOK, request, inputs, action
  <2>2. WaitsForItsOwn' /\ GoodsBelongToTask'
    BY <1>4 DEF NavigationResult, WaitsForItsOwn, GoodsBelongToTask, request
  <2> QED BY <2>1, <2>2
<1> QED BY <1>1, <1>2, <1>3, <1>4

\* The navigation node touches nothing of the manager's.
LEMMA ServerKeeps ==
  ASSUME MissionInv, ServerStep,
         UNCHANGED <<trip, request, timers, inputs, client, granted>>
  PROVE  MissionInv'
<1> USE DEF MissionInv
<1>1. /\ goal' \in [Goals -> Status]
      /\ cancels' \subseteq Goals
      /\ arrived' \in BOOLEAN
  <2>1. CASE Arrive
    BY <2>1 DEF Arrive, TypeOK
  <2>2. ASSUME NEW g \in Goals, Answer(g) \/ Cancel(g)
        PROVE  <1>1!:
    BY <2>2 DEF Answer, Cancel, TypeOK, Status, Open
  <2>3. ASSUME NEW g \in Goals, End(g) PROVE <1>1!:
    BY <2>3 DEF End, TypeOK, Status, Terminal
  <2> QED BY <2>1, <2>2, <2>3 DEF ServerStep
<1>2. TypeOK'
  BY <1>1 DEF TypeOK, trip, request, timers, inputs, client
<1>3. WaitsForItsOwn' /\ GoodsBelongToTask'
  BY DEF WaitsForItsOwn, GoodsBelongToTask, trip, request
<1> QED BY <1>2, <1>3

LEMMA MissionNext == MissionInv /\ [Next]_vars => MissionInv'
<1> SUFFICES ASSUME MissionInv, [Next]_vars PROVE MissionInv'
  OBVIOUS
<1>1. CASE Command
  BY <1>1, CommandKeeps
<1>2. CASE OnMapInfo \/ OnEdgeStatus
  <2>1. m_map_ready' \in BOOLEAN /\ m_edge_online' \in BOOLEAN
    BY <1>2 DEF OnMapInfo, OnEdgeStatus, MissionInv, TypeOK
  <2>2. UNCHANGED <<trip, request, timers, client, granted, action>>
    BY <1>2 DEF OnMapInfo, OnEdgeStatus
  <2> QED
    BY <2>1, <2>2 DEF MissionInv, TypeOK, WaitsForItsOwn, GoodsBelongToTask,
       trip, request, timers, client, action
<1>3. CASE GraspTimer \/ PlaceTimer \/ \E g \in Goals : GoalResponse(g) \/ NavigationResult(g)
  BY <1>3, TripKeeps
<1>4. CASE ServerStep /\ UNCHANGED <<trip, request, timers, inputs, client, granted>>
  BY <1>4, ServerKeeps
<1>5. CASE UNCHANGED vars
  BY <1>5 DEF vars, MissionInv, TypeOK, WaitsForItsOwn, GoodsBelongToTask,
     trip, request, timers, inputs, client, action
<1> QED BY <1>1, <1>2, <1>3, <1>4, <1>5 DEF Next, BehaviorStep

\* The agreement of the manager's task, requests, goods and timers holds for any tasks
\* and any number of requests and goals.
THEOREM MissionInvariance == Spec => []MissionInv
BY MissionInit, MissionNext, PTL DEF Spec

\* Every variable of the behaviour manager keeps its type; a cancelled task does not
\* stay in the state CANCELLED.
THEOREM MissionTypeCorrect == Spec => []TypeOK
BY MissionInvariance, PTL DEF MissionInv

\* No wait is left behind by a task that was replaced, cancelled or given up.
THEOREM WaitsAreOwn == Spec => []WaitsForItsOwn
BY MissionInvariance, PTL DEF MissionInv

\* The goods in hand were granted to the task they are reported for.
THEOREM GoodsAreTheTasks == Spec => []GoodsBelongToTask
BY MissionInvariance, PTL DEF MissionInv

==============================================================================
