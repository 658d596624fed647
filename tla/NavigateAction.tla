--------------------------- MODULE NavigateAction ---------------------------
(***************************************************************************)
(* What the action amr_navigate_to_pose promises to the node that uses it: *)
(* a goal is rejected or accepted, an accepted one ends once, and it ends  *)
(* as succeeded only if the robot has arrived somewhere.  Where it has     *)
(* arrived the code does not keep apart: goals share one result.           *)
(*                                                                         *)
(* Mission uses this action, Navigation implements it.                     *)
(***************************************************************************)
EXTENDS Integers

CONSTANT MaxGoals   \* bound on the goals that are sent

ASSUME GoalsAssumption == MaxGoals \in Nat

Goals == 1 .. MaxGoals

VARIABLES
  goal,      \* the status of each goal, as the server has it
  cancels,   \* requests under way to cancel a goal
  arrived    \* the robot has reached a goal

action == <<goal, cancels, arrived>>

Open     == {"executing", "canceling"}
Terminal == {"succeeded", "canceled", "aborted"}
Status   == {"unsent", "sent", "rejected"} \cup Open \cup Terminal

ActionInit ==
  /\ goal = [g \in Goals |-> "unsent"]
  /\ cancels = {}
  /\ arrived = FALSE

\* The client.
Send(g) ==
  /\ goal[g] = "unsent"
  /\ \A h \in 1 .. g - 1 : goal[h] # "unsent"
  /\ goal' = [goal EXCEPT ![g] = "sent"]

RequestCancel(g) ==
  /\ goal[g] \in Open \cup Terminal
  /\ cancels' = cancels \cup {g}

\* The server.
Answer(g) ==
  /\ goal[g] = "sent"
  /\ \E s \in {"rejected", "executing"} : goal' = [goal EXCEPT ![g] = s]
  /\ UNCHANGED <<cancels, arrived>>

Cancel(g) ==
  /\ g \in cancels
  /\ cancels' = cancels \ {g}
  /\ goal' = IF goal[g] = "executing" THEN [goal EXCEPT ![g] = "canceling"] ELSE goal
  /\ UNCHANGED arrived

Arrive ==
  /\ arrived' = TRUE
  /\ UNCHANGED <<goal, cancels>>

\* A goal is canceled only if a client has asked for it.
End(g) ==
  /\ goal[g] \in Open
  /\ \E s \in Terminal :
       /\ s = "succeeded" => arrived
       /\ s = "canceled" => goal[g] = "canceling"
       /\ goal' = [goal EXCEPT ![g] = s]
  /\ UNCHANGED <<cancels, arrived>>

ServerStep == Arrive \/ \E g \in Goals : Answer(g) \/ Cancel(g) \/ End(g)

ClientStep ==
  \E g \in Goals :
    \/ Send(g) /\ UNCHANGED <<cancels, arrived>>
    \/ RequestCancel(g) /\ UNCHANGED <<goal, arrived>>

ActionSpec == ActionInit /\ [][ServerStep \/ ClientStep]_action

==============================================================================
