----------------------------- MODULE GoodsLedger -----------------------------
(***************************************************************************)
(* What the edge server promises about the goods of a transport task,     *)
(* without its tables, its counters or its threads.                        *)
(*                                                                         *)
(* A task is opened once with an order: how many units of each good are    *)
(* to be carried.  A claim is one trip of one robot: it books some units   *)
(* of one good that nobody else holds, and is later settled exactly once,  *)
(* as COMPLETED (the units are delivered) or as ABORTED (the units become  *)
(* free again).  The ledger never books a unit twice.                      *)
(*                                                                         *)
(* EdgeTask keeps three counters per good and decides with those; that it  *)
(* implements this module says that its counters always agree with its     *)
(* allocation rows.                                                        *)
(***************************************************************************)
EXTENDS Naturals, FiniteSets

CONSTANTS
  Task,        \* task identifiers
  Good,        \* goods identifiers
  Claim,       \* claim identifiers: the pairs <<request_id, robot_id>>
  MaxQuantity  \* largest quantity an order or a claim may name

VARIABLES
  order,       \* order[t][g]: the units of g that task t must carry
  claim        \* claim[c]: NoClaim, or the row booked under c

ledgerVars == <<order, claim>>

SettledStates == {"COMPLETED", "ABORTED"}

NoClaim == [state |-> "NONE"]
Claims  == [state : {"IN_PROGRESS"} \cup SettledStates,
            task : Task, good : Good, quantity : 1..MaxQuantity]

NoOrder == [g \in Good |-> 0]

\* Is c a claim on good g of task t that is in state s?
Books(c, t, g, s) ==
  /\ claim[c].state = s
  /\ claim[c].task = t
  /\ claim[c].good = g

\* The units of g that claims in state s hold: one element per claim and unit,
\* so that their number is the sum of the claims' quantities.
Units(t, g, s) ==
  {u \in Claim \X (1..MaxQuantity) :
     Books(u[1], t, g, s) /\ u[2] <= claim[u[1]].quantity}

Held(t, g)      == Cardinality(Units(t, g, "IN_PROGRESS"))
Delivered(t, g) == Cardinality(Units(t, g, "COMPLETED"))

LedgerInit ==
  /\ order = [t \in Task |-> NoOrder]
  /\ claim = [c \in Claim |-> NoClaim]

\* A task is opened with a non-empty order, once.
Open(t, o) ==
  /\ order[t] = NoOrder
  /\ o # NoOrder
  /\ order' = [order EXCEPT ![t] = o]
  /\ UNCHANGED claim

\* A new claim books q units of g that are neither held nor delivered.
Book(c, t, g, q) ==
  /\ claim[c] = NoClaim
  /\ Held(t, g) + Delivered(t, g) + q <= order[t][g]
  /\ claim' = [claim EXCEPT ![c] =
       [state |-> "IN_PROGRESS", task |-> t, good |-> g, quantity |-> q]]
  /\ UNCHANGED order

\* A claim in progress is settled, and stays as it was settled.
Settle(c, s) ==
  /\ claim[c].state = "IN_PROGRESS"
  /\ claim' = [claim EXCEPT ![c].state = s]
  /\ UNCHANGED order

LedgerNext ==
  \/ \E t \in Task, o \in [Good -> 0..MaxQuantity] : Open(t, o)
  \/ \E c \in Claim, t \in Task, g \in Good, q \in 1..MaxQuantity :
       Book(c, t, g, q)
  \/ \E c \in Claim, s \in SettledStates : Settle(c, s)

LedgerSpec == LedgerInit /\ [][LedgerNext]_ledgerVars

==============================================================================
