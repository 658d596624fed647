-------------------------- MODULE NavigationProofs --------------------------
(***************************************************************************)
(* Theorems about Navigation, for any number of goals.                     *)
(***************************************************************************)
EXTENDS Navigation, TLAPS

Arrived == \E g \in Goals : nav2[g] = "arrived"

Unstarted == {"none", "start", "check", "busy", "cancel", "waitOld", "recheck", "send"}

\* A thread runs as long as its goal is open, and has sent nothing to Nav2 before.
ThreadsOK ==
  \A g \in Goals :
    /\ thread[g] \notin {"none", "done"} => goal[g] \in Open
    /\ goal[g] = "sent" => thread[g] = "none"
    /\ goal[g] = "unsent" => thread[g] = "none"
    /\ thread[g] \in Unstarted => nav2[g] = "none"

\* The manager hears only of goals that have ended.
ToldOK == \A g \in told : nav2[g] \notin {"none", "sent", "active"}

\* A success that is handed on, or lies behind the flag, is of an arrival.
ResultOK ==
  /\ callback = "succeeded" => Arrived
  /\ m_navigation_result = "succeeded" => Arrived

\* The inductive invariant.
NavInv == TypeOK /\ HandleIsCurrent /\ ThreadsOK /\ ToldOK /\ ResultOK

------------------------------------------------------------------------------

USE NavigationConstants

LEMMA NavInit == Init => NavInv
BY DEF Init, NavInv, TypeOK, HandleIsCurrent, ThreadsOK, ToldOK, ResultOK,
       Arrived, NoGoal, Outcomes, Unstarted, Goals, Open

\* What the executor does to the goals keeps the invariant.
LEMMA ExecutorKeeps ==
  ASSUME NavInv, NEW g \in Goals, Executor(g)
  PROVE  NavInv'
<1> USE DEF NavInv
<1> DEFINE Ended == {"arrived", "aborted", "canceled"}
<1>0. alive' = alive
  BY DEF Executor, Lives
<1>1. CASE HandleGoal(g)
  <2>1. TypeOK' BY <1>0, <1>1 DEF HandleGoal, TypeOK, manager, flag, Open
  <2>2. HandleIsCurrent' /\ ToldOK' /\ ResultOK'
    BY <1>1 DEF HandleGoal, HandleIsCurrent, ToldOK, ResultOK, Arrived, manager, flag
  <2>3. ThreadsOK'
    BY <1>1 DEF HandleGoal, ThreadsOK, TypeOK, Open, Unstarted
  <2> QED BY <2>1, <2>2, <2>3
<1>2. CASE HandleCancel(g)
  <2>1. TypeOK' BY <1>0, <1>2 DEF HandleCancel, CancelNavigation, TypeOK, manager, flag, Open, NoGoal
  <2>2. HandleIsCurrent'
    BY <1>2 DEF HandleCancel, CancelNavigation, HandleIsCurrent, manager
  <2>3. ToldOK' /\ ResultOK'
    BY <1>2 DEF HandleCancel, ToldOK, ResultOK, Arrived, flag
  <2>4. ThreadsOK'
    BY <1>2 DEF HandleCancel, ThreadsOK, TypeOK, Open
  <2> QED BY <2>1, <2>2, <2>3, <2>4
<1>3. CASE GoalAccepted(g)
  <2>1. TypeOK' BY <1>0, <1>3 DEF GoalAccepted, TypeOK, flag
  <2>2. HandleIsCurrent' /\ ToldOK'
    BY <1>3 DEF GoalAccepted, HandleIsCurrent, ToldOK, TypeOK
  <2>3. ResultOK'
    BY <1>3 DEF GoalAccepted, ResultOK, Arrived, TypeOK, flag
  <2>4. ThreadsOK'
    BY <1>3 DEF GoalAccepted, ThreadsOK, TypeOK, Unstarted
  <2> QED BY <2>1, <2>2, <2>3, <2>4
<1>4. CASE GoalRefused(g)
  <2>1. TypeOK' BY <1>0, <1>4 DEF GoalRefused, EndOfGoal, TypeOK, flag, Outcomes
  <2>2. HandleIsCurrent' BY <1>4 DEF GoalRefused, EndOfGoal, HandleIsCurrent
  <2>3. ToldOK' BY <1>4 DEF GoalRefused, EndOfGoal, ToldOK, TypeOK
  <2>4. ResultOK' BY <1>4 DEF GoalRefused, EndOfGoal, ResultOK, Arrived, TypeOK, flag
  <2>5. ThreadsOK' BY <1>4 DEF GoalRefused, ThreadsOK, TypeOK, Unstarted
  <2> QED BY <2>1, <2>2, <2>3, <2>4, <2>5
<1>5. CASE ResultCallback(g)
  <2>1. Outcome(g) \in Outcomes /\ (Outcome(g) = "succeeded" => Arrived)
    BY DEF Outcome, Outcomes, Arrived
  <2>2. TypeOK' BY <1>0, <1>5, <2>1 DEF ResultCallback, EndOfGoal, TypeOK, flag
  <2>3. HandleIsCurrent' BY <1>5 DEF ResultCallback, EndOfGoal, HandleIsCurrent
  <2>4. ToldOK' BY <1>5 DEF ResultCallback, EndOfGoal, ToldOK, TypeOK
  <2>5. ResultOK' BY <1>5, <2>1 DEF ResultCallback, EndOfGoal, ResultOK, Arrived, flag
  <2>6. ThreadsOK' BY <1>5 DEF ResultCallback, ThreadsOK
  <2> QED BY <2>2, <2>3, <2>4, <2>5, <2>6
<1> QED BY <1>1, <1>2, <1>3, <1>4, <1>5 DEF Executor, Lives

\* What the thread of a goal does keeps it.
LEMMA ExecuteKeeps ==
  ASSUME NavInv, NEW g \in Goals, Execute(g)
  PROVE  NavInv'
<1> USE DEF NavInv
<1>0. alive' \in BOOLEAN
  BY DEF Execute, Lives, TakeResult, Report, TypeOK
<1>1. CASE Start(g) \/ Check(g) \/ Supersede(g) \/ OldEnded(g) \/ TakeResult(g) \/ Timeout(g)
  <2>1. UNCHANGED <<cancels, nav2, told, manager, callback, flag>>
    BY <1>1 DEF Start, Check, Supersede, OldEnded, TakeResult, Timeout
  <2>2. HandleIsCurrent' /\ ToldOK' /\ ResultOK'
    BY <2>1 DEF HandleIsCurrent, ToldOK, ResultOK, Arrived, manager, flag
  <2>3. thread[g] \notin {"none", "done"}
    BY <1>1 DEF Start, Check, Supersede, OldEnded, TakeResult, Timeout
  <2>4. \/ \E s \in Terminal : Finish(g, s)
        \/ /\ thread[g] \in Unstarted
           /\ \E pc \in Unstarted \ {"none"} : Goto(g, pc)
           /\ UNCHANGED goal
        \/ UNCHANGED <<goal, thread>>
    BY <1>1 DEF Start, Check, Supersede, OldEnded, TakeResult, Report, Timeout, Finish,
                Terminal, Unstarted
  <2>5. TypeOK'
    BY <1>0, <2>1, <2>4 DEF TypeOK, Finish, Goto, Terminal, Unstarted, manager, flag
  <2>6. ThreadsOK'
    BY <2>1, <2>3, <2>4 DEF ThreadsOK, TypeOK, Finish, Goto, Terminal, Unstarted, Open
  <2> QED BY <2>2, <2>5, <2>6
<1>2. CASE CancelOld(g)
  <2>1. TypeOK' BY <1>0, <1>2 DEF CancelOld, Goto, TypeOK, flag, NoGoal
  <2>2. HandleIsCurrent' /\ ToldOK' /\ ResultOK'
    BY <1>2 DEF CancelOld, HandleIsCurrent, ToldOK, ResultOK, Arrived, flag
  <2>3. ThreadsOK'
    BY <1>2 DEF CancelOld, Goto, ThreadsOK, TypeOK, Unstarted
  <2> QED BY <2>1, <2>2, <2>3
<1>3. CASE Send(g)
  <2>1. nav2[g] = "none" BY <1>3 DEF Send, ThreadsOK, Unstarted
  <2>2. TypeOK' BY <1>0, <1>3 DEF Send, Goto, TypeOK, flag
  <2>3. HandleIsCurrent' /\ ToldOK'
    BY <1>3, <2>1 DEF Send, HandleIsCurrent, ToldOK, TypeOK, NoGoal
  <2>4. ResultOK' BY <1>3, <2>1 DEF Send, ResultOK, Arrived, TypeOK, flag
  <2>5. ThreadsOK' BY <1>3 DEF Send, Goto, ThreadsOK, TypeOK, Unstarted
  <2> QED BY <2>2, <2>3, <2>4, <2>5
<1>4. CASE ResetFlag(g)
  <2>1. TypeOK' BY <1>0, <1>4 DEF ResetFlag, Goto, TypeOK, manager
  <2>2. HandleIsCurrent' /\ ToldOK' /\ ResultOK'
    BY <1>4 DEF ResetFlag, HandleIsCurrent, ToldOK, ResultOK, Arrived, manager
  <2>3. ThreadsOK' BY <1>4 DEF ResetFlag, Goto, ThreadsOK, TypeOK, Unstarted
  <2> QED BY <2>1, <2>2, <2>3
<1> QED BY <1>1, <1>2, <1>3, <1>4 DEF Execute, Lives

LEMMA NavNext == NavInv /\ [Next]_vars => NavInv'
<1> SUFFICES ASSUME NavInv, [Next]_vars PROVE NavInv'
  OBVIOUS
<1> USE DEF NavInv
<1>1. CASE Lives(OnNavigationResult)
  <2>1. TypeOK' BY <1>1 DEF Lives, OnNavigationResult, TypeOK, manager
  <2>2. HandleIsCurrent' /\ ThreadsOK' /\ ToldOK' /\ ResultOK'
    BY <1>1 DEF Lives, OnNavigationResult, HandleIsCurrent, ThreadsOK, ToldOK, ResultOK,
                Arrived, manager
  <2> QED BY <2>1, <2>2
<1>2. CASE \E g \in Goals : Executor(g)
  BY <1>2, ExecutorKeeps
<1>3. CASE \E g \in Goals : Execute(g)
  BY <1>3, ExecuteKeeps
<1>4. ASSUME NEW g \in Goals, Nav2Ends(g) PROVE NavInv'
  <2>1. TypeOK' BY <1>4 DEF Nav2Ends, TypeOK, manager, flag
  <2>2. HandleIsCurrent' /\ ToldOK'
    BY <1>4 DEF Nav2Ends, HandleIsCurrent, ToldOK, TypeOK, manager
  <2>3. ResultOK' BY <1>4 DEF Nav2Ends, ResultOK, Arrived, TypeOK, flag
  <2>4. ThreadsOK' BY <1>4 DEF Nav2Ends, ThreadsOK, TypeOK
  <2> QED BY <2>1, <2>2, <2>3, <2>4
<1>5. ASSUME NEW g \in Goals, Client(g) PROVE NavInv'
  <2>1. TypeOK' BY <1>5 DEF Client, TypeOK, manager, flag
  <2>2. HandleIsCurrent' /\ ToldOK' /\ ResultOK'
    BY <1>5 DEF Client, HandleIsCurrent, ToldOK, ResultOK, Arrived, manager, flag
  <2>3. ThreadsOK' BY <1>5 DEF Client, ThreadsOK, TypeOK, Open
  <2> QED BY <2>1, <2>2, <2>3
<1>6. CASE UNCHANGED vars
  BY <1>6 DEF vars, manager, flag, TypeOK, HandleIsCurrent, ThreadsOK, ToldOK, ResultOK,
              Arrived
<1> QED BY <1>1, <1>2, <1>3, <1>4, <1>5, <1>6 DEF Next

\* What the threads and the executor rely on holds for any number of goals.
THEOREM NavigationInvariance == Spec => []NavInv
BY NavInit, NavNext, PTL DEF Spec

\* Every variable of the navigation node keeps its type: no result is passed on that
\* the action does not know.
THEOREM NavigationTypeCorrect == Spec => []TypeOK
BY NavigationInvariance, PTL DEF NavInv

\* The handle of the manager is never that of a goal whose end it has been told, and
\* an idle manager has none.
THEOREM HandleCorrect == Spec => []HandleIsCurrent
BY NavigationInvariance, PTL DEF NavInv

------------------------------------------------------------------------------
(***************************************************************************)
(* What the node dies of.                                                  *)
(***************************************************************************)

HasRival(g) == \E h \in Goals \ {g} : Accepted(h)

\* Nav2 is asked to cancel an executing goal only on behalf of another one, and a
\* result "canceled" is that of a goal it was asked to cancel.
CancelsOK ==
  /\ \A g \in Goals : nav2[g] # "none" => Accepted(g)
  /\ \A g \in Goals : nav2[g] = "canceled" => g \in stopping
  /\ \A g \in stopping : Accepted(g) /\ (goal[g] = "executing" => HasRival(g))
  /\ callback = "canceled" \/ m_navigation_result = "canceled" =>
       \E g \in Goals : nav2[g] = "canceled"
  /\ DiesOfSecondGoal

LEMMA CancelsInit == Init => CancelsOK
BY DEF Init, CancelsOK, DiesOfSecondGoal

\* An accepted goal stays one, and starts to execute once.
LEMMA AcceptedStays ==
  ASSUME NavInv, [Next]_vars, NEW g \in Goals, Accepted(g)
  PROVE  Accepted(g)' /\ (goal'[g] = "executing" => goal[g] = "executing")
<1> USE DEF NavInv, Accepted, Open, Terminal
<1>1. CASE UNCHANGED goal
  BY <1>1
<1>2. ASSUME NEW h \in Goals, Executor(h) PROVE goal'[g] = goal[g] \/ goal'[g] = "canceling"
  BY <1>2 DEF Executor, Lives, HandleGoal, HandleCancel, GoalAccepted, GoalRefused,
              ResultCallback, TypeOK
<1>3. ASSUME NEW h \in Goals, Execute(h) PROVE goal'[g] = goal[g] \/ goal'[g] \in Terminal
  BY <1>3 DEF Execute, Lives, Start, Check, Supersede, CancelOld, OldEnded, Send, ResetFlag,
              TakeResult, Report, Timeout, Finish, TypeOK
<1>4. ASSUME NEW h \in Goals, Client(h) PROVE goal'[g] = goal[g]
  BY <1>4 DEF Client, TypeOK
<1>5. \/ UNCHANGED goal
      \/ \E h \in Goals : Executor(h) \/ Execute(h) \/ Client(h)
  BY DEF Next, Lives, OnNavigationResult, Nav2Ends, vars
<1> QED
  BY <1>1, <1>2, <1>3, <1>4, <1>5

LEMMA CancelsKeep ==
  ASSUME NavInv, CancelsOK, [Next]_vars
  PROVE  CancelsOK'
<1> USE DEF NavInv
<1>1. \A g \in Goals : Accepted(g) =>
        Accepted(g)' /\ (goal'[g] = "executing" => goal[g] = "executing")
  BY AcceptedStays
<1>2. \A g \in Goals : HasRival(g) => HasRival(g)'
  BY <1>1 DEF HasRival
<1> DEFINE Rest ==
      /\ \A g \in Goals : nav2'[g] # "none" => nav2[g] # "none" \/ Accepted(g)
      /\ \A g \in Goals : nav2'[g] = "canceled" => nav2[g] = "canceled" \/ g \in stopping
      /\ stopping \subseteq stopping' /\ stopping' \subseteq Goals
      /\ \A g \in stopping' : g \in stopping
                              \/ /\ Accepted(g)
                                 /\ goal'[g] = "executing" => HasRival(g)
      /\ \A g \in Goals : nav2[g] = "canceled" => nav2'[g] = "canceled"
      /\ callback' = "canceled" \/ m_navigation_result' = "canceled" =>
           \E g \in Goals : nav2[g] = "canceled"
      /\ ~alive' => ~alive \/ \E g, h \in Goals : g # h /\ Accepted(g) /\ Accepted(h)
<1>3. ASSUME Rest PROVE CancelsOK'
  <2>1. (\A g \in Goals : nav2[g] # "none" => Accepted(g))'
    BY <1>1, <1>3 DEF CancelsOK
  <2>2. (\A g \in Goals : nav2[g] = "canceled" => g \in stopping)'
    BY <1>3 DEF CancelsOK
  <2>3. (\A g \in stopping : Accepted(g) /\ (goal[g] = "executing" => HasRival(g)))'
    BY <1>1, <1>2, <1>3 DEF CancelsOK
  <2>4. (callback = "canceled" \/ m_navigation_result = "canceled" =>
           \E g \in Goals : nav2[g] = "canceled")'
    BY <1>3
  <2>5. DiesOfSecondGoal'
    BY <1>1, <1>3 DEF CancelsOK, DiesOfSecondGoal
  <2> QED BY <2>1, <2>2, <2>3, <2>4, <2>5 DEF CancelsOK
<1>4. CASE UNCHANGED <<nav2, stopping, callback, flag, alive>>
  BY <1>3, <1>4 DEF CancelsOK, flag, TypeOK
<1>5. ASSUME NEW g \in Goals, HandleCancel(g), UNCHANGED alive PROVE CancelsOK'
  <2>1. CASE stopping' = stopping
    BY <1>3, <1>5, <2>1 DEF HandleCancel, CancelsOK, flag, TypeOK
  <2>2. CASE stopping' # stopping
    <3> DEFINE h == m_goal_handle
    <3>1. /\ goal[g] = "executing" /\ goal' = [goal EXCEPT ![g] = "canceling"]
          /\ h # NoGoal /\ stopping' = stopping \cup {h}
      BY <1>5, <2>2 DEF HandleCancel, CancelNavigation, manager
    <3>2. h \in Goals /\ Accepted(h) /\ Accepted(g)
      BY <3>1 DEF TypeOK, HandleIsCurrent, CancelsOK, Accepted, Open
    <3>3. goal'[h] = "executing" => HasRival(h)
      BY <3>1, <3>2 DEF HasRival, TypeOK
    <3> QED
      BY <1>3, <1>5, <3>1, <3>2, <3>3 DEF HandleCancel, CancelsOK, flag, TypeOK
  <2> QED BY <2>1, <2>2
<1>6. ASSUME NEW g \in Goals, GoalAccepted(g), UNCHANGED alive PROVE CancelsOK'
  BY <1>3, <1>6 DEF GoalAccepted, CancelsOK, flag, TypeOK
<1>7. ASSUME NEW g \in Goals, GoalRefused(g), UNCHANGED alive PROVE CancelsOK'
  BY <1>3, <1>7 DEF GoalRefused, EndOfGoal, CancelsOK, flag, TypeOK
<1>8. ASSUME NEW g \in Goals, ResultCallback(g), UNCHANGED alive PROVE CancelsOK'
  <2>1. Outcome(g) = "canceled" => nav2[g] = "canceled"
    BY DEF Outcome
  <2> QED
    BY <1>3, <1>8, <2>1 DEF ResultCallback, EndOfGoal, CancelsOK, flag, TypeOK
<1>9. ASSUME OnNavigationResult, UNCHANGED alive PROVE CancelsOK'
  BY <1>3, <1>9 DEF OnNavigationResult, manager, CancelsOK, TypeOK
<1>10. ASSUME NEW g \in Goals, CancelOld(g), UNCHANGED alive PROVE CancelsOK'
  <2> DEFINE h == m_goal_handle
  <2>1. goal[g] \in Open /\ nav2[g] = "none"
    BY <1>10 DEF CancelOld, ThreadsOK, Unstarted
  <2>2. h # NoGoal => h \in Goals /\ Accepted(h) /\ HasRival(h)
    BY <2>1 DEF TypeOK, HandleIsCurrent, CancelsOK, HasRival, Accepted
  <2> QED
    BY <1>3, <1>10, <2>2 DEF CancelOld, CancelsOK, flag, TypeOK
<1>11. ASSUME NEW g \in Goals, Send(g), UNCHANGED alive PROVE CancelsOK'
  <2>1. Accepted(g) /\ nav2[g] = "none"
    BY <1>11 DEF Send, ThreadsOK, Unstarted, Accepted
  <2> QED
    BY <1>3, <1>11, <2>1 DEF Send, CancelsOK, flag, TypeOK
<1>12. ASSUME NEW g \in Goals, TakeResult(g) PROVE CancelsOK'
  <2>1. UNCHANGED <<nav2, stopping, callback, flag>>
    BY <1>12 DEF TakeResult, manager
  <2>2. CASE alive'
    BY <1>3, <2>1, <2>2 DEF CancelsOK, flag, TypeOK
  <2>3. CASE ~alive' /\ alive
    <3>1. goal[g] = "executing" /\ m_navigation_result = "canceled"
      BY <1>12, <2>3 DEF TakeResult, Report
    <3>2. PICK h \in Goals : nav2[h] = "canceled"
      BY <3>1 DEF CancelsOK
    <3>3. Accepted(h) /\ Accepted(g) /\ (h = g => HasRival(g))
      BY <3>1, <3>2 DEF CancelsOK, Accepted, Open
    <3>4. \E x, y \in Goals : x # y /\ Accepted(x) /\ Accepted(y)
      BY <3>3 DEF HasRival
    <3> QED
      BY <1>3, <2>1, <3>4 DEF CancelsOK, flag, TypeOK
  <2>4. CASE ~alive' /\ ~alive
    BY <1>3, <2>1, <2>4 DEF CancelsOK, flag, TypeOK
  <2> QED BY <2>2, <2>3, <2>4 DEF TypeOK
<1>13. ASSUME NEW g \in Goals, Nav2Ends(g) PROVE CancelsOK'
  BY <1>3, <1>13 DEF Nav2Ends, manager, flag, CancelsOK, TypeOK
<1>14. ASSUME NEW g \in Goals, Executor(g) PROVE CancelsOK'
  <2>1. CASE HandleGoal(g) /\ UNCHANGED alive
    BY <1>4, <2>1 DEF HandleGoal, manager
  <2> QED
    BY <1>5, <1>6, <1>7, <1>8, <1>14, <2>1 DEF Executor, Lives
<1>15. ASSUME NEW g \in Goals, Execute(g) PROVE CancelsOK'
  <2>1. CASE /\ Start(g) \/ Check(g) \/ Supersede(g) \/ OldEnded(g) \/ Timeout(g)
             /\ UNCHANGED alive
    BY <1>4, <2>1 DEF Start, Check, Supersede, OldEnded, Timeout, manager
  <2>2. CASE ResetFlag(g) /\ UNCHANGED alive
    BY <1>3, <2>2 DEF ResetFlag, manager, CancelsOK, TypeOK
  <2> QED
    BY <1>10, <1>11, <1>12, <1>15, <2>1, <2>2 DEF Execute, Lives
<1>16. CASE (\E g \in Goals : Client(g)) \/ UNCHANGED vars
  BY <1>4, <1>16 DEF Client, vars, manager
<1> QED
  BY <1>9, <1>13, <1>14, <1>15, <1>16 DEF Next, Lives

\* A goal that a client sends when it has sent no other does not end the node, whatever
\* Nav2 makes of it: the node dies only when it has accepted a second one.
THEOREM DeathNeedsTwoGoals == Spec => []DiesOfSecondGoal
<1>1. CancelsOK => DiesOfSecondGoal
  BY DEF CancelsOK
<1> QED
  BY <1>1, CancelsInit, CancelsKeep, NavigationInvariance, PTL DEF Spec

------------------------------------------------------------------------------
(***************************************************************************)
(* The refinement.                                                         *)
(***************************************************************************)

LEMMA ActionInitial == Init => Action!ActionInit
BY DEF Init, Action!ActionInit, Goals, Action!Goals

\* A step that neither answers nor ends a goal is a stutter.
LEMMA Stutters ==
  ASSUME UNCHANGED <<goal, cancels>>, Arrived' = Arrived
  PROVE  UNCHANGED Action!action
BY DEF Action!action, Arrived

LEMMA ExecutorRefines ==
  ASSUME NavInv, NEW g \in Goals, Executor(g)
  PROVE  [Action!ServerStep \/ Action!ClientStep]_(Action!action)
<1> USE DEF NavInv
<1>1. CASE HandleGoal(g)
  BY <1>1 DEF HandleGoal, Action!ServerStep, Action!Answer, Action!Goals, Goals
<1>2. CASE HandleCancel(g)
  BY <1>2 DEF HandleCancel, Action!ServerStep, Action!Cancel, Action!Goals, Goals
<1>3. CASE GoalAccepted(g) \/ GoalRefused(g) \/ ResultCallback(g)
  <2>1. Arrived' = Arrived
    BY <1>3 DEF GoalAccepted, GoalRefused, ResultCallback, Arrived, TypeOK
  <2> QED
    BY <1>3, <2>1, Stutters DEF GoalAccepted, GoalRefused, ResultCallback
<1> QED BY <1>1, <1>2, <1>3 DEF Executor, Lives

LEMMA ExecuteRefines ==
  ASSUME NavInv, NEW g \in Goals, Execute(g)
  PROVE  [Action!ServerStep \/ Action!ClientStep]_(Action!action)
<1> USE DEF NavInv
<1>1. CASE Send(g)
  <2>1. Arrived' = Arrived
    BY <1>1 DEF Send, Arrived, TypeOK, ThreadsOK, Unstarted
  <2> QED BY <1>1, <2>1, Stutters DEF Send
<1>2. CASE \E s \in Terminal : /\ Finish(g, s)
                               /\ s = "succeeded" => Arrived
                               /\ s = "canceled" => goal[g] = "canceling"
  <2>1. ~Send(g) /\ ~CancelOld(g) /\ ~ResetFlag(g) /\ ~Supersede(g) /\ ~OldEnded(g)
    BY <1>2 DEF Finish, Goto, Send, CancelOld, ResetFlag, Supersede, OldEnded, TypeOK
  <2>2. /\ thread[g] \notin {"none", "done"}
        /\ UNCHANGED <<cancels, nav2>>
    BY <2>1 DEF Execute, Lives, Start, Check, TakeResult, Timeout
  <2>3. goal[g] \in Open BY <2>2 DEF ThreadsOK
  <2> QED
    BY <1>2, <2>2, <2>3 DEF Finish, Arrived, Terminal, Open, Action!ServerStep, Action!End,
       Action!Goals, Goals, Action!Open, Action!Terminal
<1>3. CASE UNCHANGED <<goal, cancels, nav2>>
  BY <1>3, Stutters DEF Arrived
<1>4. \/ Send(g)
      \/ \E s \in Terminal : /\ Finish(g, s)
                             /\ s = "succeeded" => Arrived
                             /\ s = "canceled" => goal[g] = "canceling"
      \/ UNCHANGED <<goal, cancels, nav2>>
  <2>1. CASE TakeResult(g)
    <3>1. goal[g] \in Open
      BY <2>1 DEF TakeResult, ThreadsOK
    <3> QED
      BY <2>1, <3>1 DEF TakeResult, Report, Finish, Terminal, Open, ResultOK
  <2>2. CASE ~TakeResult(g)
    BY <2>2 DEF Execute, Lives, Start, Check, Supersede, CancelOld, OldEnded, ResetFlag,
           Timeout, Finish, Terminal
  <2> QED BY <2>1, <2>2
<1> QED BY <1>1, <1>2, <1>3, <1>4

LEMMA ActionNext ==
  NavInv /\ [Next]_vars => [Action!ServerStep \/ Action!ClientStep]_(Action!action)
<1> SUFFICES ASSUME NavInv, [Next]_vars
             PROVE  [Action!ServerStep \/ Action!ClientStep]_(Action!action)
  OBVIOUS
<1> USE DEF NavInv
<1>1. CASE Lives(OnNavigationResult) \/ UNCHANGED vars
  BY <1>1, Stutters DEF Lives, OnNavigationResult, vars, Arrived
<1>2. CASE \E g \in Goals : Executor(g)
  BY <1>2, ExecutorRefines
<1>3. CASE \E g \in Goals : Execute(g)
  BY <1>3, ExecuteRefines
<1>4. ASSUME NEW g \in Goals, Nav2Ends(g)
      PROVE  [Action!ServerStep \/ Action!ClientStep]_(Action!action)
  <2>1. Arrived' \/ Arrived' = Arrived
    BY <1>4 DEF Nav2Ends, Arrived, TypeOK
  <2>2. CASE Arrived'
    BY <1>4, <2>2 DEF Nav2Ends, Arrived, Action!ServerStep, Action!Arrive
  <2>3. CASE Arrived' = Arrived
    BY <1>4, <2>3, Stutters DEF Nav2Ends
  <2> QED BY <2>1, <2>2, <2>3
<1>5. ASSUME NEW g \in Goals, Client(g)
      PROVE  [Action!ServerStep \/ Action!ClientStep]_(Action!action)
  BY <1>5 DEF Client, Open, Terminal, Action!ClientStep, Action!Send, Action!RequestCancel,
     Action!Goals, Goals, Action!Open, Action!Terminal
<1> QED BY <1>1, <1>2, <1>3, <1>4, <1>5 DEF Next

\* The navigation node implements the action: each goal is answered and ends once,
\* none succeeds unless Nav2 has reached one, and none is canceled unless a client has
\* asked for it.
THEOREM ActionImplemented == Spec => ImplementsAction
<1>1. Init => Action!ActionInit
  BY ActionInitial
<1>2. NavInv /\ [Next]_vars => [Action!ServerStep \/ Action!ClientStep]_(Action!action)
  BY ActionNext
<1> QED
  BY <1>1, <1>2, NavigationInvariance, PTL DEF Spec, ImplementsAction, Action!ActionSpec

==============================================================================
