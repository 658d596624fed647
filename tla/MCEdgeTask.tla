------------------------------ MODULE MCEdgeTask ------------------------------
(***************************************************************************)
(* Constants for model checking EdgeTask: one task for two units of a      *)
(* good, or three, and two robots that apply for one and for two of them.  *)
(***************************************************************************)
EXTENDS EdgeTask, TLC

CONSTANTS t1, r1, r2, g1, q1, w1, w2

Item(g, n) == [good |-> g, quantity |-> n]
Apply(q, r, items) == [request |-> q, robot |-> r, task |-> t1, items |-> items]
Report(e, r, q) == [event |-> e, robot |-> r, task |-> t1, request |-> q]

TwoUnits  == {[g \in Good |-> 2]}
MCOrders  == {[g \in Good |-> 2], [g \in Good |-> 3]}
TwoCrews == {{r1, r2}, {r2}}
PairCrew == {{r1, r2}}
OneCrew  == {{r1}}

\* Each request fits alone; the two together fit an order of three, not of two.
Competing == {Apply(q1, r1, <<Item(g1, 1)>>), Apply(q1, r2, <<Item(g1, 2)>>)}

\* The whole order in one application.
Whole == {Apply(q1, r1, <<Item(g1, 2)>>)}

\* Contradictory reports, of two claims, and one that names none.
AllReports ==
  {Report("CARRY_COMPLETED", r1, q1), Report("CARRY_ABORTED", r1, q1),
   Report("CARRY_COMPLETED", r2, q1), Report("STATUS_ACCEPTED", r1, NoRequest),
   Report("CARRY_COMPLETED", r2, NoRequest)}

\* A report that names no request, too.
FewReports ==
  {Report("CARRY_COMPLETED", r1, q1), Report("CARRY_ABORTED", r1, NoRequest),
   Report("STATUS_ACCEPTED", r1, NoRequest)}

==============================================================================
