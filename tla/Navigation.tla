----------------------------- MODULE Navigation -----------------------------
(***************************************************************************)
(* The navigation node of an AMR: the action server amr_navigate_to_pose   *)
(* (NavigationServer) and the client of Nav2 behind it (NavigationManager).*)
(*                                                                         *)
(*   executor  the callbacks of the node, one at a time.                   *)
(*   thread    one detached thread per accepted goal, which runs execute   *)
(*             and waits for the one flag that every result sets.          *)
(*                                                                         *)
(* m_state and m_goal_handle are shared without a lock.  The executor      *)
(* alone assigns m_goal_handle.  The client sends and cancels goals as it  *)
(* likes.  The start and stop of Nav2 are left out: that its server cannot *)
(* be reached, or that a goal comes before the map, is possible any time.  *)
(***************************************************************************)
EXTENDS Integers

CONSTANT MaxGoals   \* bound on the goals that are sent

ASSUME NavigationConstants == MaxGoals \in Nat

Goals  == 1 .. MaxGoals
NoGoal == 0

VARIABLES
  goal,           \* the action's goals, as the server has them
  cancels,        \* requests under way to cancel one of them
  thread,         \* where execute is
  nav2,           \* Nav2's goals: execute sends at most one for each of its own
  told,           \* those whose end NavigationManager has been told
  stopping,       \* those that Nav2 has been asked to cancel
  m_state,
  m_goal_handle,
  callback,       \* the result resultCallback is about to hand on, or "none"
  m_navigation_result,
  m_navigation_result_ready,
  alive           \* the process has not been terminated

manager == <<m_state, m_goal_handle, stopping>>
flag    == <<m_navigation_result, m_navigation_result_ready>>
vars    == <<goal, cancels, thread, nav2, told, manager, callback, flag, alive>>

Open     == {"executing", "canceling"}
Terminal == {"succeeded", "canceled", "aborted"}
Outcomes == {"succeeded", "canceled", "failed"}

\* Every variable of the node has its type.
TypeOK ==
  /\ goal \in [Goals -> {"unsent", "sent", "rejected"} \cup Open \cup Terminal]
  /\ cancels \subseteq Goals
  /\ thread \in [Goals -> {"none", "start", "check", "busy", "cancel", "waitOld",
                           "recheck", "send", "reset", "wait", "done"}]
  /\ nav2 \in [Goals -> {"none", "sent", "active", "arrived", "aborted", "canceled"}]
  /\ told \subseteq Goals
  /\ stopping \subseteq Goals
  /\ m_state \in {"idle", "accepting", "navigating", "canceling"}
  /\ m_goal_handle \in Goals \cup {NoGoal}
  /\ callback \in Outcomes \cup {"none"}
  /\ m_navigation_result \in Outcomes \cup {"idle"}
  /\ m_navigation_result_ready \in BOOLEAN
  /\ alive \in BOOLEAN

Init ==
  /\ goal = [g \in Goals |-> "unsent"]
  /\ cancels = {}
  /\ thread = [g \in Goals |-> "none"]
  /\ nav2 = [g \in Goals |-> "none"]
  /\ told = {}
  /\ stopping = {}
  /\ m_state = "idle"
  /\ m_goal_handle = NoGoal
  /\ callback = "none"
  /\ m_navigation_result = "idle"
  /\ m_navigation_result_ready = FALSE
  /\ alive = TRUE

------------------------------------------------------------------------------
(***************************************************************************)
(* The executor's callbacks.                                               *)
(***************************************************************************)

\* NavigationManager::cancelNavigation, as one step.
CancelNavigation ==
  IF m_goal_handle = NoGoal THEN UNCHANGED manager
  ELSE /\ m_state' = "canceling"
       /\ stopping' = stopping \cup {m_goal_handle}
       /\ UNCHANGED m_goal_handle

\* A goal that comes before the map is rejected, any other gets a thread.
HandleGoal(g) ==
  /\ callback = "none"
  /\ goal[g] = "sent"
  /\ \/ /\ goal' = [goal EXCEPT ![g] = "rejected"]
        /\ UNCHANGED thread
     \/ /\ goal' = [goal EXCEPT ![g] = "executing"]
        /\ thread' = [thread EXCEPT ![g] = "start"]
  /\ UNCHANGED <<cancels, nav2, told, manager, callback, flag>>

\* Fault: Nav2 is told to cancel, and the client that its cancel is refused.
CancelRefused(g) ==
  /\ callback = "none"
  /\ g \in cancels
  /\ cancels' = cancels \ {g}
  /\ IF goal[g] = "executing" THEN CancelNavigation ELSE UNCHANGED manager
  /\ UNCHANGED <<goal, thread, nav2, told, callback, flag>>

\* Whatever goal is to be cancelled, it is Nav2's present one that is.
HandleCancel(g) ==
  /\ callback = "none"
  /\ g \in cancels
  /\ cancels' = cancels \ {g}
  /\ IF goal[g] = "executing"
     THEN goal' = [goal EXCEPT ![g] = "canceling"] /\ CancelNavigation
     ELSE UNCHANGED <<goal, manager>>
  /\ UNCHANGED <<thread, nav2, told, callback, flag>>

\* Nav2 accepts: goalResponseCallback with a handle.
GoalAccepted(g) ==
  /\ callback = "none"
  /\ nav2[g] = "sent"
  /\ nav2' = [nav2 EXCEPT ![g] = "active"]
  /\ m_state' = "navigating"
  /\ m_goal_handle' = g
  /\ UNCHANGED <<goal, cancels, thread, told, stopping, callback, flag>>

\* The manager is idle again before the server hears of the result.
EndOfGoal(g, outcome) ==
  /\ told' = told \cup {g}
  /\ m_state' = "idle"
  /\ m_goal_handle' = NoGoal
  /\ callback' = outcome
  /\ UNCHANGED stopping

\* Nav2 refuses: goalResponseCallback without a handle.
GoalRefused(g) ==
  /\ callback = "none"
  /\ nav2[g] = "sent"
  /\ nav2' = [nav2 EXCEPT ![g] = "aborted"]
  /\ EndOfGoal(g, "failed")
  /\ UNCHANGED <<goal, cancels, thread, flag>>

\* Fault: a goal that Nav2 gives up counts as one that has arrived.
OutcomeLenient(g) == IF nav2[g] = "canceled" THEN "canceled" ELSE "succeeded"

Outcome(g) == CASE nav2[g] = "arrived"  -> "succeeded"
                [] nav2[g] = "canceled" -> "canceled"
                [] OTHER                -> "failed"

ResultCallback(g) ==
  /\ callback = "none"
  /\ nav2[g] \in {"arrived", "aborted", "canceled"}
  /\ g \notin told
  /\ EndOfGoal(g, Outcome(g))
  /\ UNCHANGED <<goal, cancels, thread, nav2, flag>>

\* NavigationServer::onNavigationResult, called by either callback above: every
\* thread that waits may take the result.
OnNavigationResult ==
  /\ callback # "none"
  /\ m_navigation_result' = callback
  /\ m_navigation_result_ready' = TRUE
  /\ callback' = "none"
  /\ UNCHANGED <<goal, cancels, thread, nav2, told, manager>>

------------------------------------------------------------------------------
(***************************************************************************)
(* execute, on the thread of goal g.                                       *)
(***************************************************************************)

Goto(g, pc) == thread' = [thread EXCEPT ![g] = pc]

Finish(g, status) ==
  /\ Goto(g, "done")
  /\ goal' = [goal EXCEPT ![g] = status]

Start(g) ==
  /\ thread[g] = "start"
  /\ IF goal[g] = "canceling" THEN Finish(g, "canceled")
     ELSE Goto(g, "check") /\ UNCHANGED goal
  /\ UNCHANGED <<cancels, nav2, told, manager, callback, flag>>

\* NavigationManager::navigateToPose up to its look at m_state.  A busy manager
\* is waited for once.
Check(g) ==
  /\ thread[g] \in {"check", "recheck"}
  /\ \/ Finish(g, "aborted")   \* Nav2 cannot be reached
     \/ m_state = "idle" /\ Goto(g, "send") /\ UNCHANGED goal
     \/ /\ m_state # "idle"
        /\ IF thread[g] = "check" THEN Goto(g, "busy") /\ UNCHANGED goal
           ELSE Finish(g, "aborted")
  /\ UNCHANGED <<cancels, nav2, told, manager, callback, flag>>

\* cancelNavigation again, whose look at the handle and whose use of it may have
\* a result between them.
Supersede(g) ==
  /\ thread[g] = "busy"
  /\ Goto(g, IF m_goal_handle = NoGoal THEN "waitOld" ELSE "cancel")
  /\ UNCHANGED <<goal, cancels, nav2, told, manager, callback, flag>>

CancelOld(g) ==
  /\ thread[g] = "cancel"
  /\ Goto(g, "waitOld")
  /\ m_state' = "canceling"
  /\ stopping' = stopping \cup ({m_goal_handle} \ {NoGoal})
  /\ UNCHANGED <<goal, cancels, nav2, told, m_goal_handle, callback, flag>>

\* waitForNavigationResult for the goal before: the flag or 60 s, and the flag
\* may be that of an earlier result.
OldEnded(g) ==
  /\ thread[g] = "waitOld"
  /\ Goto(g, "recheck")
  /\ UNCHANGED <<goal, cancels, nav2, told, manager, callback, flag>>

\* The rest of navigateToPose.
Send(g) ==
  /\ thread[g] = "send"
  /\ Goto(g, "reset")
  /\ m_state' = "accepting"
  /\ nav2' = [nav2 EXCEPT ![g] = "sent"]
  /\ UNCHANGED <<goal, cancels, told, m_goal_handle, stopping, callback, flag>>

\* A result that has come since is forgotten here.
ResetFlag(g) ==
  /\ thread[g] = "reset"
  /\ Goto(g, "wait")
  /\ m_navigation_result_ready' = FALSE
  /\ UNCHANGED <<goal, cancels, nav2, told, manager, callback, m_navigation_result>>

\* rclcpp_action throws when a goal is to be canceled that no client has asked to
\* cancel.  Nothing catches that on a detached thread: it ends the process, which is
\* not started again, and the goal stays as it is.
Report(g, status) ==
  IF status = "canceled" /\ goal[g] = "executing"
  THEN alive' = FALSE /\ UNCHANGED <<goal, thread>>
  ELSE Finish(g, status) /\ UNCHANGED alive

\* Fault: a result that is neither success nor cancel is passed on as it is.
TakeResultRaw(g) ==
  /\ thread[g] = "wait"
  /\ m_navigation_result_ready
  /\ Report(g, m_navigation_result)
  /\ UNCHANGED <<cancels, nav2, told, manager, callback, flag>>

TakeResult(g) ==
  /\ thread[g] = "wait"
  /\ m_navigation_result_ready
  /\ Report(g, IF m_navigation_result \in {"succeeded", "canceled"}
               THEN m_navigation_result ELSE "aborted")
  /\ UNCHANGED <<cancels, nav2, told, manager, callback, flag>>

\* Fault: the wait has no limit.
TimeoutNever(g) == FALSE /\ UNCHANGED vars

\* 60 s without one.
Timeout(g) ==
  /\ thread[g] = "wait"
  /\ ~m_navigation_result_ready
  /\ Finish(g, "aborted")
  /\ UNCHANGED <<cancels, nav2, told, manager, callback, flag>>

------------------------------------------------------------------------------
(***************************************************************************)
(* Nav2, which is no part of the repository: it ends a goal as it likes,   *)
(* and cancels it only when asked.                                         *)
(***************************************************************************)

Nav2Ends(g) ==
  /\ nav2[g] = "active"
  /\ \E end \in {"arrived", "aborted", "canceled"} :
       /\ end = "canceled" => g \in stopping
       /\ nav2' = [nav2 EXCEPT ![g] = end]
  /\ UNCHANGED <<goal, cancels, thread, told, manager, callback, flag, alive>>

------------------------------------------------------------------------------

\* A step of the node, but for the one that may end it.
Lives(step) == alive /\ step /\ UNCHANGED alive

Executor(g) ==
  Lives(\/ HandleGoal(g) \/ HandleCancel(g)
        \/ GoalAccepted(g) \/ GoalRefused(g) \/ ResultCallback(g))

Execute(g) ==
  \/ Lives(\/ Start(g) \/ Check(g) \/ Supersede(g) \/ CancelOld(g) \/ OldEnded(g)
           \/ Send(g) \/ ResetFlag(g) \/ Timeout(g))
  \/ alive /\ TakeResult(g)

Client(g) ==
  /\ \/ /\ goal[g] = "unsent"
        /\ \A h \in 1 .. g - 1 : goal[h] # "unsent"
        /\ goal' = [goal EXCEPT ![g] = "sent"]
        /\ UNCHANGED cancels
     \/ /\ goal[g] \in Open \cup Terminal
        /\ cancels' = cancels \cup {g}
        /\ UNCHANGED goal
  /\ UNCHANGED <<thread, nav2, told, manager, callback, flag, alive>>

Next ==
  \/ Lives(OnNavigationResult)
  \/ \E g \in Goals : Executor(g) \/ Execute(g) \/ Nav2Ends(g) \/ Client(g)

Spec == Init /\ [][Next]_vars

\* The executor handles what arrives; a thread goes on, or gives up after a minute.
\* Nothing is assumed of Nav2.
FairSpec ==
  /\ Spec
  /\ WF_vars(Lives(OnNavigationResult))
  /\ \A g \in Goals : WF_vars(Lives(HandleGoal(g))) /\ WF_vars(Execute(g))

------------------------------------------------------------------------------
(***************************************************************************)
(* Properties.                                                             *)
(***************************************************************************)

\* The handle that cancelNavigation uses is that of a goal Nav2 has not reported the
\* end of, and a manager that holds one is not taken for idle: although threads and
\* callbacks write m_state without a lock, no goal overtakes one that is still held
\* without trying to cancel it.
HandleIsCurrent ==
  m_goal_handle # NoGoal =>
    /\ m_goal_handle \notin told
    /\ nav2[m_goal_handle] \notin {"none", "sent"}
    /\ m_state # "idle"

\* The node is an action server: each goal is answered and ends once, none succeeds
\* without an arrival and none is canceled that no client has asked to cancel,
\* whichever thread wakes up first and whenever the flag is reset.
Action == INSTANCE NavigateAction WITH arrived <- \E g \in Goals : nav2[g] = "arrived"
ImplementsAction == Action!ActionSpec

\* The node dies of a second goal only: of the cancel that this one makes of the
\* first, or of a client's cancel that hits the goal it was not meant for.  Whatever the
\* cancels of one goal, and whenever they come, no result of it ends the process.
Accepted(g) == goal[g] \in Open \cup Terminal
DiesOfSecondGoal == ~alive => \E g, h \in Goals : g # h /\ Accepted(g) /\ Accepted(h)

\* Every goal that reaches the server is rejected or ends, also when Nav2 never answers,
\* and when its answer is forgotten by the reset or taken for another goal's, unless
\* the node has died of having two goals.
GoalsAreAnswered ==
  \A g \in Goals :
    goal[g] = "sent" ~>
      \/ goal[g] \in Terminal \cup {"rejected"}
      \/ ~alive /\ DiesOfSecondGoal

==============================================================================
