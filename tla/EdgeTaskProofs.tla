--------------------------- MODULE EdgeTaskProofs ---------------------------
(***************************************************************************)
(* Proofs about EdgeTask, for every value of its constants.                *)
(*                                                                         *)
(* The counters of tbl_task_goods_status are decreased by the quantity of  *)
(* an allocation row, so that even their type depends on their agreement   *)
(* with the rows, and what the consumer thread does next depends on what   *)
(* its earlier calls found.  IInv puts the three together.                 *)
(***************************************************************************)
EXTENDS EdgeTask, FiniteSetTheorems, TLAPS

(***************************************************************************)
(* The units that the rows of an allocation table hold.                    *)
(***************************************************************************)

\* L!Units for an arbitrary table f in place of alloc.
UnitsIn(f, t, g, s) ==
  {u \in Claim \X (1..MaxQuantity) :
     /\ f[u[1]].state = s
     /\ f[u[1]].task = t
     /\ f[u[1]].good = g
     /\ u[2] <= f[u[1]].quantity}

\* The units of one claim.
UnitsOf(c, q) == {c} \X (1..q)

Tables == [Claim -> L!Claims \cup {L!NoClaim}]

\* Every unit of a table is a claim with a number.
LEMMA UnitsAreUnits ==
  \A f, t, g, s : UnitsIn(f, t, g, s) \subseteq Claim \X (1..MaxQuantity)
BY DEF UnitsIn

\* A table has finitely many units: claims and quantities are bounded.
LEMMA UnitsFinite ==
  ASSUME NEW f, NEW t, NEW g, NEW s
  PROVE  /\ IsFiniteSet(UnitsIn(f, t, g, s))
         /\ Cardinality(UnitsIn(f, t, g, s)) \in Nat
<1> DEFINE U == Claim \X (1..MaxQuantity)
<1>1. IsFiniteSet(Claim)
  BY FS_Product, ConstantsAssumption DEF Claim
<1>2. IsFiniteSet(1..MaxQuantity)
  BY FS_Interval, ConstantsAssumption
<1>3. IsFiniteSet(U)
  BY <1>1, <1>2, FS_Product
<1>4. UnitsIn(f, t, g, s) \in SUBSET U
  BY DEF UnitsIn
<1> QED
  BY <1>3, <1>4, FS_Subset, FS_CardinalityType

\* A claim of quantity q has q units.
LEMMA UnitsOfCard ==
  ASSUME NEW c, NEW q \in Nat
  PROVE  IsFiniteSet(UnitsOf(c, q)) /\ Cardinality(UnitsOf(c, q)) = q
<1> DEFINE S == {c}
           T == 1..q
<1>1. IsFiniteSet(S) /\ Cardinality(S) = 1
  BY FS_Singleton
<1>2. IsFiniteSet(T) /\ Cardinality(T) = q
  BY FS_Interval
<1> HIDE DEF S, T
<1>3. /\ IsFiniteSet(S \X T)
      /\ Cardinality(S \X T) = Cardinality(S) * Cardinality(T)
  BY <1>1, <1>2, FS_Product
<1>4. 1 * q = q
  OBVIOUS
<1> QED
  BY <1>1, <1>2, <1>3, <1>4 DEF UnitsOf, S, T

\* Adding a disjoint set of units adds their number.
LEMMA CardAdd ==
  ASSUME NEW S, NEW T, IsFiniteSet(S), IsFiniteSet(T), S \cap T = {}
  PROVE  Cardinality(S \cup T) = Cardinality(S) + Cardinality(T)
<1>1. Cardinality(S) \in Nat /\ Cardinality(T) \in Nat
  BY FS_CardinalityType
<1>2. Cardinality(S \cap T) = 0
  BY FS_EmptySet
<1>3. Cardinality(S \cup T) = Cardinality(S) + Cardinality(T) - Cardinality(S \cap T)
  BY FS_Union
<1> QED
  BY <1>1, <1>2, <1>3

\* Taking a subset of the units away takes their number away.
LEMMA CardRemove ==
  ASSUME NEW S, NEW T, IsFiniteSet(S), T \subseteq S
  PROVE  /\ Cardinality(S \ T) = Cardinality(S) - Cardinality(T)
         /\ Cardinality(T) <= Cardinality(S)
<1>1. S \cap T = T
  OBVIOUS
<1>2. T \in SUBSET S
  OBVIOUS
<1> QED
  BY <1>1, <1>2, FS_Difference, FS_Subset

------------------------------------------------------------------------------
(***************************************************************************)
(* What the two writes to the allocation table do to the units.            *)
(***************************************************************************)

NewRow(t, g, q) ==
  [state |-> "IN_PROGRESS", task |-> t, good |-> g, quantity |-> q]

\* ApproveGoodsAllocation: a free key gets a row, and its units are held.
LEMMA BookUnits ==
  ASSUME NEW f \in Tables, NEW c \in Claim, f[c] = L!NoClaim,
         NEW t0 \in Task, NEW g0 \in Good, NEW q \in 1..MaxQuantity,
         NEW f1, f1[c] = NewRow(t0, g0, q),
         \A d \in Claim : d # c => f1[d] = f[d],
         NEW t, NEW g, NEW s, s # "NONE"
  PROVE  Cardinality(UnitsIn(f1, t, g, s)) =
           IF t = t0 /\ g = g0 /\ s = "IN_PROGRESS"
           THEN Cardinality(UnitsIn(f, t, g, s)) + q
           ELSE Cardinality(UnitsIn(f, t, g, s))
<1>1. /\ f1[c] = NewRow(t0, g0, q)
      /\ \A d \in Claim : d # c => f1[d] = f[d]
  OBVIOUS
<1>2. MaxQuantity \in Nat /\ q \in Nat
  BY ConstantsAssumption
<1>3. f[c].state = "NONE"
  BY DEF L!NoClaim
<1>4. CASE t = t0 /\ g = g0 /\ s = "IN_PROGRESS"
  <2>1. UnitsIn(f1, t, g, s) = UnitsIn(f, t, g, s) \cup UnitsOf(c, q)
    BY <1>1, <1>2, <1>3, <1>4 DEF UnitsIn, UnitsOf, NewRow
  <2>2. UnitsIn(f, t, g, s) \cap UnitsOf(c, q) = {}
    BY <1>3, <1>4 DEF UnitsIn, UnitsOf
  <2>3. Cardinality(UnitsIn(f1, t, g, s)) = Cardinality(UnitsIn(f, t, g, s)) + q
    BY <1>2, <2>1, <2>2, CardAdd, UnitsFinite, UnitsOfCard
  <2> QED
    BY <1>4, <2>3
<1>5. CASE ~(t = t0 /\ g = g0 /\ s = "IN_PROGRESS")
  <2>1. UnitsIn(f1, t, g, s) = UnitsIn(f, t, g, s)
    BY <1>1, <1>3, <1>5 DEF UnitsIn, NewRow
  <2> QED
    BY <1>5, <2>1
<1> QED
  BY <1>4, <1>5

\* SettleGoodsAllocation: the units of a row in progress leave it, and become
\* delivered if the row becomes COMPLETED.
LEMMA SettleUnits ==
  ASSUME NEW f \in Tables, NEW c \in Claim, f[c].state = "IN_PROGRESS",
         NEW s1 \in {"COMPLETED", "ABORTED"},
         NEW f1, f1[c].state = s1, f1[c].task = f[c].task,
         f1[c].good = f[c].good, f1[c].quantity = f[c].quantity,
         \A d \in Claim : d # c => f1[d] = f[d],
         NEW t, NEW g
  PROVE  /\ t = f[c].task /\ g = f[c].good =>
              f[c].quantity <= Cardinality(UnitsIn(f, t, g, "IN_PROGRESS"))
         /\ Cardinality(UnitsIn(f1, t, g, "IN_PROGRESS")) =
              IF t = f[c].task /\ g = f[c].good
              THEN Cardinality(UnitsIn(f, t, g, "IN_PROGRESS")) - f[c].quantity
              ELSE Cardinality(UnitsIn(f, t, g, "IN_PROGRESS"))
         /\ Cardinality(UnitsIn(f1, t, g, "COMPLETED")) =
              IF t = f[c].task /\ g = f[c].good /\ s1 = "COMPLETED"
              THEN Cardinality(UnitsIn(f, t, g, "COMPLETED")) + f[c].quantity
              ELSE Cardinality(UnitsIn(f, t, g, "COMPLETED"))
<1> DEFINE row  == f[c]
           q    == f[c].quantity
           here == t = row.task /\ g = row.good
<1>1. row \in L!Claims
  BY DEF Tables, L!NoClaim
<1>3. q \in 1..MaxQuantity
  BY <1>1 DEF L!Claims
<1>4. MaxQuantity \in Nat /\ q \in Nat
  BY <1>3, ConstantsAssumption
<1>q. q = f[c].quantity
  OBVIOUS
<1>r. \A u : u \in UnitsOf(c, q) <=>
               u \in Claim \X (1..MaxQuantity) /\ u[1] = c /\ u[2] <= q
  BY <1>3, <1>4 DEF UnitsOf
<1>s. /\ \A d \in Claim : d # c => f1[d] = f[d]
      /\ f[c].state = "IN_PROGRESS"
      /\ f1[c].state = s1
      /\ f1[c].task = f[c].task
      /\ f1[c].good = f[c].good
      /\ f1[c].quantity = q
  OBVIOUS
<1>h. here <=> t = f[c].task /\ g = f[c].good
  OBVIOUS
<1> HIDE DEF q, here, row
<1>5. ASSUME here
      PROVE  /\ UnitsOf(c, q) \subseteq UnitsIn(f, t, g, "IN_PROGRESS")
             /\ UnitsIn(f1, t, g, "IN_PROGRESS") =
                  UnitsIn(f, t, g, "IN_PROGRESS") \ UnitsOf(c, q)
  <2>1. UnitsOf(c, q) \subseteq UnitsIn(f, t, g, "IN_PROGRESS")
    BY <1>q, <1>r, <1>s, <1>h, <1>5 DEF UnitsIn
  <2>2. \A u \in Claim \X (1..MaxQuantity) :
          u \in UnitsIn(f1, t, g, "IN_PROGRESS") <=>
            u \in UnitsIn(f, t, g, "IN_PROGRESS") /\ u \notin UnitsOf(c, q)
    <3> SUFFICES ASSUME NEW u \in Claim \X (1..MaxQuantity)
                 PROVE  u \in UnitsIn(f1, t, g, "IN_PROGRESS") <=>
                          u \in UnitsIn(f, t, g, "IN_PROGRESS") /\ u \notin UnitsOf(c, q)
      OBVIOUS
    <3>1. u[1] \in Claim
      OBVIOUS
    <3>2. CASE u[1] = c
      BY <1>q, <1>r, <1>s, <3>2 DEF UnitsIn
    <3>3. CASE u[1] # c
      BY <1>r, <1>s, <3>1, <3>3 DEF UnitsIn
    <3> QED
      BY <3>2, <3>3
  <2>3. UnitsIn(f1, t, g, "IN_PROGRESS") =
          UnitsIn(f, t, g, "IN_PROGRESS") \ UnitsOf(c, q)
    BY <2>2, UnitsAreUnits
  <2> QED
    BY <2>1, <2>3
<1>6. ASSUME ~here
      PROVE  UnitsIn(f1, t, g, "IN_PROGRESS") = UnitsIn(f, t, g, "IN_PROGRESS")
  BY <1>s, <1>h, <1>6 DEF UnitsIn
<1>7. ASSUME here, s1 = "COMPLETED"
      PROVE  /\ UnitsOf(c, q) \cap UnitsIn(f, t, g, "COMPLETED") = {}
             /\ UnitsIn(f1, t, g, "COMPLETED") =
                  UnitsIn(f, t, g, "COMPLETED") \cup UnitsOf(c, q)
  <2>1. UnitsOf(c, q) \cap UnitsIn(f, t, g, "COMPLETED") = {}
    BY <1>r, <1>s DEF UnitsIn
  <2>2. \A u \in Claim \X (1..MaxQuantity) :
          u \in UnitsIn(f1, t, g, "COMPLETED") <=>
            u \in UnitsIn(f, t, g, "COMPLETED") \/ u \in UnitsOf(c, q)
    BY <1>r, <1>s, <1>h, <1>7 DEF UnitsIn
  <2>3. UnitsIn(f1, t, g, "COMPLETED") =
          UnitsIn(f, t, g, "COMPLETED") \cup UnitsOf(c, q)
    BY <1>r, <2>2, UnitsAreUnits
  <2> QED
    BY <2>1, <2>3
<1>8. ASSUME ~(here /\ s1 = "COMPLETED")
      PROVE  UnitsIn(f1, t, g, "COMPLETED") = UnitsIn(f, t, g, "COMPLETED")
  BY <1>s, <1>h, <1>8 DEF UnitsIn
<1>9. here => /\ q <= Cardinality(UnitsIn(f, t, g, "IN_PROGRESS"))
              /\ Cardinality(UnitsIn(f1, t, g, "IN_PROGRESS")) =
                   Cardinality(UnitsIn(f, t, g, "IN_PROGRESS")) - q
  <2> SUFFICES ASSUME here
               PROVE  /\ q <= Cardinality(UnitsIn(f, t, g, "IN_PROGRESS"))
                      /\ Cardinality(UnitsIn(f1, t, g, "IN_PROGRESS")) =
                           Cardinality(UnitsIn(f, t, g, "IN_PROGRESS")) - q
    OBVIOUS
  <2>1. IsFiniteSet(UnitsIn(f, t, g, "IN_PROGRESS"))
    BY UnitsFinite
  <2>2. Cardinality(UnitsOf(c, q)) = q
    BY <1>4, UnitsOfCard
  <2> QED
    BY <1>5, <2>1, <2>2, CardRemove
<1>10. here /\ s1 = "COMPLETED" =>
         Cardinality(UnitsIn(f1, t, g, "COMPLETED")) =
           Cardinality(UnitsIn(f, t, g, "COMPLETED")) + q
  BY <1>4, <1>7, CardAdd, UnitsFinite, UnitsOfCard
<1> QED
  BY <1>6, <1>8, <1>9, <1>10 DEF q, here, row

------------------------------------------------------------------------------
(***************************************************************************)
(* The database: what holds of its tables, and what every call preserves.  *)
(***************************************************************************)

\* A task without a row has no goods rows either.
NoStrayStock ==
  \A t \in Task : task[t] = "NONE" => stock[t] = [g \in Good |-> NoRow]

DbOK ==
  /\ task \in [Task -> TaskStates]
  /\ crew \in [Task -> SUBSET Robot]
  /\ stock \in [Task -> [Good -> Rows]]
  /\ alloc \in Tables
  /\ NoStrayStock
  /\ CountersMatchRows

\* An allocation row keeps what was booked; a settled row keeps its state.
RowsKept ==
  \A c \in Claim : alloc[c].state # "NONE" =>
    /\ alloc'[c].state # "NONE"
    /\ alloc'[c].task = alloc[c].task
    /\ alloc'[c].good = alloc[c].good
    /\ alloc'[c].quantity = alloc[c].quantity
    /\ alloc[c].state \in L!SettledStates => alloc'[c] = alloc[c]

\* A delivered unit stays delivered.
DeliveredKept ==
  \A t \in Task, g \in Good : stock'[t][g].completed >= stock[t][g].completed

\* A task that exists keeps its crew and its order.
OrderKept ==
  \A t \in Task : task[t] # "NONE" =>
    /\ task'[t] # "NONE"
    /\ crew'[t] = crew[t]
    /\ \A g \in Good : stock'[t][g].total = stock[t][g].total

\* A task that exists and is all carried stays so.
DoneKept ==
  \A t \in Task : task[t] # "NONE" /\ AllDone(t) => AllDone(t)'

DbStep == DbOK' /\ RowsKept /\ DeliveredKept /\ OrderKept /\ DoneKept

\* The counters and the units they count, before and after a step.
LEMMA HeldIsUnits ==
  ASSUME NEW t, NEW g
  PROVE  /\ L!Held(t, g)       = Cardinality(UnitsIn(alloc, t, g, "IN_PROGRESS"))
         /\ L!Delivered(t, g)  = Cardinality(UnitsIn(alloc, t, g, "COMPLETED"))
         /\ L!Held(t, g)'      = Cardinality(UnitsIn(alloc', t, g, "IN_PROGRESS"))
         /\ L!Delivered(t, g)' = Cardinality(UnitsIn(alloc', t, g, "COMPLETED"))
BY DEF L!Held, L!Delivered, L!Units, L!Books, UnitsIn, L!Cardinality, Cardinality

\* A step that leaves the tables alone.
LEMMA NoDbStep ==
  ASSUME DbOK, UNCHANGED db
  PROVE  DbStep
<1>1. UNCHANGED <<task, crew, stock, alloc>>
  BY DEF db
<1>2. CountersMatchRows'
  BY <1>1, HeldIsUnits DEF DbOK, CountersMatchRows
<1>3. DbOK'
  BY <1>1, <1>2 DEF DbOK, NoStrayStock
<1>4. stock \in [Task -> [Good -> Rows]]
  BY DEF DbOK
<1>5. DeliveredKept
  BY <1>1, <1>4 DEF DeliveredKept, Rows
<1> QED
  BY <1>1, <1>3, <1>5 DEF DbStep, RowsKept, OrderKept, DoneKept, AllDone

\* UpdateTaskState writes one column.
LEMMA UpdateTaskStateDb ==
  ASSUME DbOK, NEW t \in Task, NEW s \in TaskStates \ {"NONE"},
         UpdateTaskState(t, s)
  PROVE  DbStep
<1>1. UNCHANGED <<crew, stock, alloc>> /\ task' = [task EXCEPT ![t] = s]
  BY DEF UpdateTaskState
<1>2. task' \in [Task -> TaskStates] /\ \A u \in Task : task[u] # "NONE" => task'[u] # "NONE"
  BY <1>1 DEF DbOK
<1>3. CountersMatchRows'
  BY <1>1, HeldIsUnits DEF DbOK, CountersMatchRows
<1>4. NoStrayStock'
  BY <1>1 DEF DbOK, NoStrayStock
<1>5. DbOK'
  BY <1>1, <1>2, <1>3, <1>4 DEF DbOK
<1>6. stock \in [Task -> [Good -> Rows]]
  BY DEF DbOK
<1>7. DeliveredKept
  BY <1>1, <1>6 DEF DeliveredKept, Rows
<1> QED
  BY <1>1, <1>2, <1>5, <1>7 DEF DbStep, RowsKept, OrderKept, DoneKept, AllDone

\* CreateTask opens a task that had no row and hence no units.
LEMMA CreateTaskDb ==
  ASSUME DbOK, NEW t \in Task, NEW robots \in Crews, NEW o \in Orders,
         CreateTask(t, robots, o)
  PROVE  DbStep
<1>1. /\ task[t] = "NONE"
      /\ task' = [task EXCEPT ![t] = "PENDING"]
      /\ crew' = [crew EXCEPT ![t] = robots]
      /\ stock' = [stock EXCEPT ![t] = [g \in Good |-> Row(o[g])]]
      /\ alloc' = alloc
  BY DEF CreateTask
<1>2. /\ robots \in SUBSET Robot
      /\ o \in [Good -> Nat]
  BY ConstantsAssumption
<1>3. \A g \in Good : Row(o[g]) \in Rows
  BY <1>2 DEF Row, Rows
<1>4. /\ task' \in [Task -> TaskStates]
      /\ crew' \in [Task -> SUBSET Robot]
      /\ stock' \in [Task -> [Good -> Rows]]
      /\ alloc' \in Tables
  BY <1>1, <1>2, <1>3 DEF DbOK, TaskStates, Active
<1>5. NoStrayStock'
  BY <1>1 DEF DbOK, NoStrayStock
<1>6. /\ \A u \in Task : u # t => stock'[u] = stock[u]
      /\ \A g \in Good : stock'[t][g] = Row(o[g])
      /\ \A g \in Good : stock[t][g] = NoRow
  BY <1>1 DEF DbOK, NoStrayStock
<1>f. \A g \in Good :
        /\ stock'[t][g].total = o[g] /\ stock'[t][g].pending = o[g]
        /\ stock'[t][g].in_progress = 0 /\ stock'[t][g].completed = 0
        /\ stock[t][g].in_progress = 0 /\ stock[t][g].completed = 0
  <2>1. \A n : /\ Row(n).total = n /\ Row(n).pending = n
               /\ Row(n).in_progress = 0 /\ Row(n).completed = 0
    BY DEF Row
  <2>2. NoRow.in_progress = 0 /\ NoRow.completed = 0
    BY DEF NoRow
  <2> QED
    BY <1>6, <2>1, <2>2
<1>7. CountersMatchRows'
  <2> SUFFICES ASSUME NEW u \in Task, NEW g \in Good
               PROVE  /\ stock'[u][g].total = stock'[u][g].pending
                           + stock'[u][g].in_progress + stock'[u][g].completed
                      /\ stock'[u][g].in_progress = L!Held(u, g)'
                      /\ stock'[u][g].completed = L!Delivered(u, g)'
    BY DEF CountersMatchRows
  <2>1. L!Held(u, g)' = L!Held(u, g) /\ L!Delivered(u, g)' = L!Delivered(u, g)
    BY <1>1, HeldIsUnits
  <2>2. /\ stock[u][g].total = stock[u][g].pending
                           + stock[u][g].in_progress + stock[u][g].completed
        /\ stock[u][g].in_progress = L!Held(u, g)
        /\ stock[u][g].completed = L!Delivered(u, g)
    BY DEF DbOK, CountersMatchRows
  <2>3. CASE u # t
    BY <1>6, <2>1, <2>2, <2>3
  <2>4. CASE u = t
    <3>1. L!Held(t, g) = 0 /\ L!Delivered(t, g) = 0
      BY <1>f, <2>2, <2>4
    <3>2. o[g] \in Nat
      BY <1>2
    <3> QED
      BY <1>f, <2>1, <2>4, <3>1, <3>2
  <2> QED
    BY <2>3, <2>4
<1>8. DeliveredKept
  <2>1. \A u \in Task, g \in Good : stock[u][g].completed \in Nat
    BY DEF DbOK, Rows
  <2>2. \A g \in Good : stock'[t][g].completed = stock[t][g].completed
    BY <1>f
  <2> QED
    BY <1>6, <2>1, <2>2 DEF DeliveredKept
<1>9. \A u \in Task : task[u] # "NONE" =>
        task'[u] # "NONE" /\ crew'[u] = crew[u] /\ stock'[u] = stock[u]
  BY <1>1, <1>6 DEF DbOK
<1>10. DbOK'
  BY <1>4, <1>5, <1>7 DEF DbOK
<1> QED
  BY <1>1, <1>8, <1>9, <1>10 DEF DbStep, RowsKept, OrderKept, DoneKept, AllDone

\* ApproveGoodsAllocation moves pending units to in progress and adds the row
\* that holds them.
LEMMA ApproveDb ==
  ASSUME DbOK, NEW m, m.task \in Task, Key(m) \in Claim,
         NEW item \in Items, item.quantity > 0,
         CanApprove(m, item), ApproveGoodsAllocation(m, item)
  PROVE  DbStep /\ task[m.task] # "NONE"
<1> DEFINE t == m.task
           g == item.good
           c == Key(m)
           q == item.quantity
<1>1. /\ g \in Good /\ q \in 1..MaxQuantity /\ q \in Nat
  BY ConstantsAssumption DEF Items
<1>2. /\ stock[t][g].total > 0
      /\ stock[t][g].pending >= q
      /\ alloc[c] = L!NoClaim
  BY DEF CanApprove
<1>3. /\ stock' = [stock EXCEPT ![t][g].pending = @ - q,
                                ![t][g].in_progress = @ + q]
      /\ alloc' = [alloc EXCEPT ![c] = NewRow(t, g, q)]
      /\ task' = task /\ crew' = crew
  BY DEF ApproveGoodsAllocation, NewRow
<1>4. stock \in [Task -> [Good -> Rows]] /\ alloc \in Tables
  BY DEF DbOK
<1>5. /\ \A u \in Task, h \in Good :
           u # t \/ h # g => stock'[u][h] = stock[u][h]
      /\ stock'[t][g].total = stock[t][g].total
      /\ stock'[t][g].pending = stock[t][g].pending - q
      /\ stock'[t][g].in_progress = stock[t][g].in_progress + q
      /\ stock'[t][g].completed = stock[t][g].completed
  BY <1>1, <1>3, <1>4 DEF Rows
<1>6. stock' \in [Task -> [Good -> Rows]]
  BY <1>1, <1>2, <1>3, <1>4 DEF Rows
<1>7. /\ alloc' \in Tables
      /\ alloc'[c] = NewRow(t, g, q)
      /\ \A d \in Claim : d # c => alloc'[d] = alloc[d]
      /\ alloc[c].state = "NONE"
  BY <1>1, <1>2, <1>3, <1>4 DEF Tables, NewRow, L!Claims, L!NoClaim
<1>8. task[t] # "NONE"
  <2>1. NoRow.total = 0
    BY DEF NoRow
  <2> QED
    BY <1>1, <1>2, <2>1 DEF DbOK, NoStrayStock
<1>9. NoStrayStock'
  BY <1>3, <1>4, <1>8 DEF DbOK, NoStrayStock
<1> HIDE DEF t, g, c, q
<1>10. CountersMatchRows'
  <2> SUFFICES ASSUME NEW u \in Task, NEW h \in Good
               PROVE  /\ stock'[u][h].total = stock'[u][h].pending
                           + stock'[u][h].in_progress + stock'[u][h].completed
                      /\ stock'[u][h].in_progress = L!Held(u, h)'
                      /\ stock'[u][h].completed = L!Delivered(u, h)'
    BY DEF CountersMatchRows
  <2>1. /\ stock[u][h].total = stock[u][h].pending
                           + stock[u][h].in_progress + stock[u][h].completed
        /\ stock[u][h].in_progress = L!Held(u, h)
        /\ stock[u][h].completed = L!Delivered(u, h)
        /\ stock[u][h] \in Rows
    BY <1>4 DEF DbOK, CountersMatchRows
  <2>2. t \in Task /\ c \in Claim
    BY DEF t, c
  <2>3. /\ L!Held(u, h)' = IF u = t /\ h = g THEN L!Held(u, h) + q ELSE L!Held(u, h)
        /\ L!Delivered(u, h)' = L!Delivered(u, h)
    <3>1. /\ Cardinality(UnitsIn(alloc', u, h, "IN_PROGRESS")) =
               IF u = t /\ h = g
               THEN Cardinality(UnitsIn(alloc, u, h, "IN_PROGRESS")) + q
               ELSE Cardinality(UnitsIn(alloc, u, h, "IN_PROGRESS"))
          /\ Cardinality(UnitsIn(alloc', u, h, "COMPLETED")) =
               Cardinality(UnitsIn(alloc, u, h, "COMPLETED"))
      BY <1>1, <1>2, <1>4, <1>7, <2>2, BookUnits
    <3> QED
      BY <3>1, HeldIsUnits
  <2> QED
    BY <1>1, <1>5, <2>1, <2>3 DEF Rows
<1>11. DbOK'
  BY <1>3, <1>6, <1>7, <1>9, <1>10 DEF DbOK
<1>12. DeliveredKept
  <2>1. \A u \in Task, h \in Good :
          /\ stock'[u][h].completed = stock[u][h].completed
          /\ stock[u][h].completed \in Nat
    BY <1>4, <1>5 DEF Rows
  <2> QED
    BY <2>1 DEF DeliveredKept
<1>13. OrderKept
  BY <1>3, <1>5 DEF OrderKept
<1>14. DoneKept
  <2>1. stock[t][g].pending # 0
    BY <1>1, <1>2, <1>4 DEF Rows
  <2>2. ~AllDone(t)
    BY <1>1, <2>1 DEF AllDone
  <2> QED
    BY <1>5, <2>2 DEF DoneKept, AllDone
<1>15. RowsKept
  BY <1>7 DEF RowsKept
<1> QED
  BY <1>8, <1>11, <1>12, <1>13, <1>14, <1>15 DEF DbStep, t

\* SettleGoodsAllocation takes the units of a row out of progress.
LEMMA SettleDb ==
  ASSUME DbOK, NEW m, Key(m) \in Claim,
         CanSettle(m), SettleGoodsAllocation(m)
  PROVE  /\ DbStep
         /\ alloc'[Key(m)].state \in L!SettledStates
         /\ \A u \in Task, h \in Good : stock'[u][h].total = stock[u][h].total
<1> DEFINE c  == Key(m)
           t  == alloc[c].task
           g  == alloc[c].good
           q  == alloc[c].quantity
           ok == m.event = "CARRY_COMPLETED"
           s1 == IF ok THEN "COMPLETED" ELSE "ABORTED"
<1>1. stock \in [Task -> [Good -> Rows]] /\ alloc \in Tables /\ c \in Claim
  BY DEF DbOK
<1>2. alloc[c].state = "IN_PROGRESS"
  BY DEF CanSettle
<1>3. alloc[c] \in L!Claims
  BY <1>1, <1>2 DEF Tables, L!NoClaim
<1>4. t \in Task /\ g \in Good /\ q \in 1..MaxQuantity /\ q \in Nat
  BY <1>3, ConstantsAssumption DEF L!Claims
<1>5. /\ alloc' = [alloc EXCEPT ![c].state = s1]
      /\ stock' = [stock EXCEPT
           ![t][g].in_progress = @ - q,
           ![t][g].completed = IF ok THEN @ + q ELSE @,
           ![t][g].pending   = IF ok THEN @ ELSE @ + q]
      /\ task' = task /\ crew' = crew
  BY DEF SettleGoodsAllocation
<1>6. /\ \A u \in Task, h \in Good :
           u # t \/ h # g => stock'[u][h] = stock[u][h]
      /\ stock'[t][g].total = stock[t][g].total
      /\ stock'[t][g].in_progress = stock[t][g].in_progress - q
      /\ stock'[t][g].completed =
           IF ok THEN stock[t][g].completed + q ELSE stock[t][g].completed
      /\ stock'[t][g].pending =
           IF ok THEN stock[t][g].pending ELSE stock[t][g].pending + q
  <2> HIDE DEF t, g, q, ok
  <2>1. CASE ok
    <3>1. stock' = [stock EXCEPT ![t][g].in_progress = @ - q,
                                 ![t][g].completed = @ + q,
                                 ![t][g].pending   = @]
      BY <1>5, <2>1
    <3> QED
      BY <1>1, <1>4, <2>1, <3>1 DEF Rows
  <2>2. CASE ~ok
    <3>1. stock' = [stock EXCEPT ![t][g].in_progress = @ - q,
                                 ![t][g].completed = @,
                                 ![t][g].pending   = @ + q]
      BY <1>5, <2>2
    <3> QED
      BY <1>1, <1>4, <2>2, <3>1 DEF Rows
  <2> QED
    BY <2>1, <2>2
<1>7. /\ alloc'[c] = [alloc[c] EXCEPT !.state = s1]
      /\ \A d \in Claim : d # c => alloc'[d] = alloc[d]
      /\ s1 \in L!SettledStates /\ s1 \in {"COMPLETED", "ABORTED"}
  BY <1>1, <1>5 DEF Tables, L!SettledStates
<1>8. /\ alloc'[c].state = s1
      /\ alloc'[c].task = t
      /\ alloc'[c].good = g
      /\ alloc'[c].quantity = q
      /\ alloc'[c] \in L!Claims
  BY <1>3, <1>7 DEF L!Claims, L!SettledStates
<1>9. alloc' \in Tables
  BY <1>1, <1>5, <1>7, <1>8 DEF Tables
<1> HIDE DEF c, t, g, q, ok, s1
<1>10. \A u \in Task, h \in Good :
         LET here == u = t /\ h = g
         IN  /\ here => q <= L!Held(u, h)
             /\ L!Held(u, h)' = IF here THEN L!Held(u, h) - q ELSE L!Held(u, h)
             /\ L!Delivered(u, h)' =
                  IF here /\ ok THEN L!Delivered(u, h) + q ELSE L!Delivered(u, h)
  <2> SUFFICES ASSUME NEW u \in Task, NEW h \in Good
               PROVE  LET here == u = t /\ h = g
                      IN  /\ here => q <= L!Held(u, h)
                          /\ L!Held(u, h)' = IF here THEN L!Held(u, h) - q ELSE L!Held(u, h)
                          /\ L!Delivered(u, h)' =
                               IF here /\ ok THEN L!Delivered(u, h) + q ELSE L!Delivered(u, h)
    OBVIOUS
  <2>1. s1 = "COMPLETED" <=> ok
    BY DEF s1
  <2>3. /\ u = t /\ h = g => q <= Cardinality(UnitsIn(alloc, u, h, "IN_PROGRESS"))
        /\ Cardinality(UnitsIn(alloc', u, h, "IN_PROGRESS")) =
             IF u = t /\ h = g
             THEN Cardinality(UnitsIn(alloc, u, h, "IN_PROGRESS")) - q
             ELSE Cardinality(UnitsIn(alloc, u, h, "IN_PROGRESS"))
        /\ Cardinality(UnitsIn(alloc', u, h, "COMPLETED")) =
             IF u = t /\ h = g /\ ok
             THEN Cardinality(UnitsIn(alloc, u, h, "COMPLETED")) + q
             ELSE Cardinality(UnitsIn(alloc, u, h, "COMPLETED"))
    <3>1. /\ alloc'[c].task = alloc[c].task /\ alloc'[c].good = alloc[c].good
          /\ alloc'[c].quantity = alloc[c].quantity /\ alloc'[c].state = s1
      BY <1>8 DEF t, g, q
    <3>2. \A d \in Claim : d # c => alloc'[d] = alloc[d]
      BY <1>7
    <3>3. s1 \in {"COMPLETED", "ABORTED"}
      BY <1>7
    <3> QED
      BY <1>1, <1>2, <2>1, <3>1, <3>2, <3>3, SettleUnits DEF t, g, q
  <2> QED
    BY <2>3, HeldIsUnits
<1>11. \A u \in Task, h \in Good :
         /\ stock[u][h].total = stock[u][h].pending
                           + stock[u][h].in_progress + stock[u][h].completed
         /\ stock[u][h].in_progress = L!Held(u, h)
         /\ stock[u][h].completed = L!Delivered(u, h)
         /\ stock[u][h] \in Rows
  BY <1>1 DEF DbOK, CountersMatchRows
<1>12. stock[t][g].in_progress >= q /\ stock[t][g].in_progress # 0
  BY <1>4, <1>10, <1>11 DEF Rows
<1>13. stock' \in [Task -> [Good -> Rows]]
  BY <1>1, <1>4, <1>5, <1>12 DEF Rows
<1>14. CountersMatchRows'
  <2> SUFFICES ASSUME NEW u \in Task, NEW h \in Good
               PROVE  /\ stock'[u][h].total = stock'[u][h].pending
                           + stock'[u][h].in_progress + stock'[u][h].completed
                      /\ stock'[u][h].in_progress = L!Held(u, h)'
                      /\ stock'[u][h].completed = L!Delivered(u, h)'
    BY DEF CountersMatchRows
  <2>1. CASE u = t /\ h = g
    BY <1>4, <1>6, <1>10, <1>11, <2>1 DEF Rows
  <2>2. CASE ~(u = t /\ h = g)
    BY <1>6, <1>10, <1>11, <2>2
  <2> QED
    BY <2>1, <2>2
<1>15. task[t] # "NONE"
  <2>1. NoRow.in_progress = 0
    BY DEF NoRow
  <2> QED
    BY <1>4, <1>12, <2>1 DEF DbOK, NoStrayStock
<1>16. NoStrayStock'
  BY <1>1, <1>5, <1>15 DEF DbOK, NoStrayStock
<1>17. DbOK'
  BY <1>5, <1>9, <1>13, <1>14, <1>16 DEF DbOK
<1>18. RowsKept
  BY <1>2, <1>7, <1>8 DEF RowsKept, t, g, q, L!SettledStates
<1>19. DeliveredKept
  BY <1>4, <1>6, <1>11 DEF DeliveredKept, Rows
<1>20. OrderKept
  BY <1>5, <1>6 DEF OrderKept
<1>21. DoneKept
  <2>1. ~AllDone(t)
    BY <1>4, <1>12 DEF AllDone
  <2> QED
    BY <1>6, <2>1 DEF DoneKept, AllDone
<1> QED
  BY <1>6, <1>7, <1>8, <1>17, <1>18, <1>19, <1>20, <1>21 DEF DbStep, c

------------------------------------------------------------------------------
(***************************************************************************)
(* The same calls as steps of GoodsLedger.                                 *)
(***************************************************************************)

LedgerStep == [L!LedgerNext]_(L!ledgerVars)

\* The order of the ledger is the column total_quantity.
Totals == [t \in Task |-> [g \in Good |-> stock[t][g].total]]

\* A call that leaves goods and allocations alone is a stuttering step.
LEMMA StutterLedger ==
  ASSUME UNCHANGED <<stock, alloc>>
  PROVE  LedgerStep
BY DEF LedgerStep, L!ledgerVars

\* CreateTask opens an order.
LEMMA CreateTaskLedger ==
  ASSUME DbOK, NEW t \in Task, NEW robots \in Crews, NEW o \in Orders,
         CreateTask(t, robots, o)
  PROVE  LedgerStep
<1>1. /\ task[t] = "NONE" /\ alloc' = alloc
      /\ stock' = [stock EXCEPT ![t] = [g \in Good |-> Row(o[g])]]
  BY DEF CreateTask
<1>2. o \in [Good -> 0..MaxQuantity] /\ o # L!NoOrder
  BY ConstantsAssumption DEF NoOrder, L!NoOrder
<1>3. stock \in [Task -> [Good -> Rows]]
  BY DEF DbOK
<1>4. \A n : Row(n).total = n
  BY DEF Row
<1>5. Totals' = [Totals EXCEPT ![t] = o]
  <2>1. [g \in Good |-> Row(o[g]).total] = o
    BY <1>2, <1>4
  <2>2. \A u \in Task : [g \in Good |-> stock'[u][g].total] =
                          IF u = t THEN o ELSE [g \in Good |-> stock[u][g].total]
    BY <1>1, <1>3, <2>1
  <2> QED
    BY <2>2 DEF Totals
<1>6. Totals[t] = L!NoOrder
  <2>1. NoRow.total = 0
    BY DEF NoRow
  <2> QED
    BY <1>1, <2>1 DEF DbOK, NoStrayStock, Totals, L!NoOrder
<1>7. L!Open(t, o)
  BY <1>1, <1>2, <1>5, <1>6 DEF L!Open, Totals
<1> QED
  BY <1>2, <1>7 DEF LedgerStep, L!LedgerNext

\* ApproveGoodsAllocation books: what is pending is what nobody has booked.
LEMMA ApproveLedger ==
  ASSUME DbOK, NEW m, m.task \in Task, Key(m) \in Claim,
         NEW item \in Items, item.quantity > 0,
         CanApprove(m, item), ApproveGoodsAllocation(m, item)
  PROVE  LedgerStep
<1> DEFINE t == m.task
           g == item.good
           c == Key(m)
           q == item.quantity
<1>1. g \in Good /\ q \in 1..MaxQuantity /\ q \in Nat
  BY ConstantsAssumption DEF Items
<1>2. stock[t][g].pending >= q /\ alloc[c] = L!NoClaim
  BY DEF CanApprove
<1>3. stock \in [Task -> [Good -> Rows]]
  BY DEF DbOK
<1>4. /\ alloc' = [alloc EXCEPT ![c] =
           [state |-> "IN_PROGRESS", task |-> t, good |-> g, quantity |-> q]]
      /\ \A u \in Task, h \in Good : stock'[u][h].total = stock[u][h].total
  BY <1>1, <1>3, ApproveDb DEF ApproveGoodsAllocation, Rows
<1> HIDE DEF t, g, c, q
<1>5. t \in Task /\ c \in Claim
  BY DEF t, c
<1>6. /\ stock[t][g].total = stock[t][g].pending
                           + stock[t][g].in_progress + stock[t][g].completed
      /\ stock[t][g].in_progress = L!Held(t, g)
      /\ stock[t][g].completed = L!Delivered(t, g)
      /\ stock[t][g] \in Rows
      /\ Totals[t][g] = stock[t][g].total
  BY <1>1, <1>3, <1>5 DEF DbOK, CountersMatchRows, Totals
<1>7. L!Held(t, g) + L!Delivered(t, g) + q <= Totals[t][g]
  BY <1>1, <1>2, <1>6 DEF Rows
<1>8. Totals' = Totals
  BY <1>4 DEF Totals
<1>9. L!Book(c, t, g, q)
  BY <1>2, <1>4, <1>7, <1>8 DEF L!Book, Totals
<1> QED
  BY <1>1, <1>5, <1>9 DEF LedgerStep, L!LedgerNext

\* SettleGoodsAllocation settles.
LEMMA SettleLedger ==
  ASSUME DbOK, NEW m, Key(m) \in Claim,
         CanSettle(m), SettleGoodsAllocation(m)
  PROVE  LedgerStep
<1> DEFINE c  == Key(m)
           s1 == IF m.event = "CARRY_COMPLETED" THEN "COMPLETED" ELSE "ABORTED"
<1>1. stock \in [Task -> [Good -> Rows]]
  BY DEF DbOK
<1>2. alloc[c].state = "IN_PROGRESS"
  BY DEF CanSettle
<1>3. /\ alloc' = [alloc EXCEPT ![c].state = s1]
      /\ \A u \in Task, h \in Good : stock'[u][h].total = stock[u][h].total
  BY SettleDb DEF SettleGoodsAllocation
<1>4. Totals' = Totals
  BY <1>3 DEF Totals
<1>5. s1 \in L!SettledStates
  BY DEF L!SettledStates
<1>6. L!Settle(c, s1)
  BY <1>2, <1>3, <1>4 DEF L!Settle, Totals
<1> QED
  BY <1>5, <1>6 DEF LedgerStep, L!LedgerNext

------------------------------------------------------------------------------
(***************************************************************************)
(* The inductive invariant: what each thread still knows, between two of   *)
(* its calls, of the tables that other threads change.                     *)
(***************************************************************************)

\* The goods of item i of application m are booked under its key.
Booked(m, i) ==
  /\ alloc[Key(m)].state # "NONE"
  /\ alloc[Key(m)].task = m.task
  /\ alloc[Key(m)].good = m.items[i].good
  /\ alloc[Key(m)].quantity = m.items[i].quantity

AllBooked(m) ==
  /\ ValidApplication(m)
  /\ \A i \in 1..Len(m.items) : Booked(m, i)

\* The report about to be acknowledged, if any, names no claim or a settled one.
SettledAck(m) ==
  m # NoAck /\ NamesClaim(m) => alloc[Key(m)].state \in L!SettledStates

Carried(t) == task[t] # "NONE" /\ AllDone(t)

\* What the consumer's next call may rely on.
ConsumerKnows ==
  /\ consumer.pc = "approve" =>
       /\ ValidApplication(consumer.msg)
       /\ consumer.next <= Len(consumer.msg.items)
       /\ \A i \in 1..(consumer.next - 1) : Booked(consumer.msg, i)
  /\ consumer.pc = "run" =>
       AllBooked(consumer.msg) /\ task[consumer.msg.task] # "NONE"
  /\ consumer.pc = "reply" /\ consumer.ok => AllBooked(consumer.msg)
  /\ consumer.pc = "settle" =>
       /\ consumer.msg.event \in CarryEvents
       /\ consumer.msg.request # NoRequest
       /\ alloc[Key(consumer.msg)].state # "NONE"
  /\ consumer.pc \in {"read", "accept"} => consumer.msg.event = "STATUS_ACCEPTED"
  /\ consumer.pc \in {"check", "succeed"} =>
       /\ consumer.msg.event = "CARRY_COMPLETED"
       /\ consumer.msg.request # NoRequest
       /\ alloc[Key(consumer.msg)].state \in L!SettledStates
  /\ consumer.pc = "succeed" => Carried(consumer.msg.task)
  /\ consumer.pc \in {"build", "publish", "ack"} => SettledAck(consumer.ack)
  /\ consumer.pc = "publish" /\ consumer.seen = "SUCCEEDED" => Carried(consumer.task)

\* A worker in state x commands the crew of a task that exists.
WorkerFact(x) ==
  /\ x.pc \in {"cancel", "assign", "notify"} => task[x.task] # "NONE"
  /\ x.pc \in {"assign", "notify"} => x.todo \subseteq crew[x.task]

WorkerKnows == \A w \in Worker : WorkerFact(worker[w])

MonitorKnows ==
  monitor.pc = "publish" /\ monitor.seen = "SUCCEEDED" => Carried(monitor.task)

AcceptedKnows == \A m \in accepted : AllBooked(m)

SucceededKnows == \A t \in Task : task[t] = "SUCCEEDED" => Carried(t)

\* The memory of the process has its type.
MemoryOK ==
  /\ fleet \in [Robot -> FleetStates]
  /\ worker \in [Worker -> WorkerStates]
  /\ consumer \in ConsumerStates
  /\ monitor \in MonitorStates
  /\ accepted \subseteq Applications
  /\ crashes \in 0..MaxCrashes

Knows ==
  WorkerKnows /\ ConsumerKnows /\ MonitorKnows /\ AcceptedKnows /\ SucceededKnows

IInv == DbOK /\ MemoryOK /\ Knows

\* No step makes a task SUCCEEDED that is not carried.
SuccessJustified ==
  \A t \in Task : task'[t] = "SUCCEEDED" => Carried(t)

\* What every step does to the tables.
Effects == DbStep /\ LedgerStep /\ SuccessJustified

------------------------------------------------------------------------------
(***************************************************************************)
(* Types of messages and of threads.                                       *)
(***************************************************************************)

\* The fields of a goods request.
LEMMA ApplicationFields ==
  ASSUME NEW m \in Applications
  PROVE  /\ m.task \in Task /\ m.robot \in Robot /\ Key(m) \in Claim
         /\ Len(m.items) \in Nat
         /\ m.items \in Seq(Items)
         /\ \A i \in 1..Len(m.items) : m.items[i] \in Items
<1>1. m \in [request : Request, robot : Robot, task : Task, items : Seq(Items)]
  BY ConstantsAssumption
<1>2. m.request \in Request /\ m.robot \in Robot /\ m.task \in Task /\ m.items \in Seq(Items)
  BY <1>1
<1>3. Len(m.items) \in Nat /\ \A i \in 1..Len(m.items) : m.items[i] \in Items
  BY <1>2
<1> QED
  BY <1>2, <1>3 DEF Key, Claim

\* The fields of a report; only a report with a request_id names a claim.
LEMMA ReportFields ==
  ASSUME NEW m \in Reports
  PROVE  /\ m.task \in Task /\ m.event \in ReportEvents
         /\ m.request # NoRequest => Key(m) \in Claim
         /\ Finish(m) \in [pc : {"build"}, task : Task, ack : Reports \cup {NoAck}]
<1>1. m \in [event : ReportEvents, robot : Robot, task : Task,
             request : Request \cup {NoRequest}]
  BY ConstantsAssumption
<1>2. /\ m.event \in ReportEvents /\ m.robot \in Robot /\ m.task \in Task
      /\ m.request \in Request \cup {NoRequest}
  BY <1>1
<1>3. m.request # NoRequest => Key(m) \in Claim
  BY <1>2 DEF Key, Claim
<1> QED
  BY <1>2, <1>3 DEF Finish

\* The record of the consumer for each pc.
LEMMA ConsumerRecord ==
  ASSUME consumer \in ConsumerStates
  PROVE  /\ consumer.pc = "approve" => consumer \in
              [pc : {"approve"}, msg : Applications, next : Nat \ {0}, seen : TaskStates]
         /\ consumer.pc = "run" => consumer \in [pc : {"run"}, msg : Applications]
         /\ consumer.pc = "reply" =>
              consumer \in [pc : {"reply"}, msg : Applications, ok : BOOLEAN]
         /\ consumer.pc \in {"settle", "read", "accept", "check", "succeed"} =>
              consumer \in [pc : {"settle", "read", "accept", "check", "succeed"},
                            msg : Reports]
         /\ consumer.pc = "build" =>
              consumer \in [pc : {"build"}, task : Task, ack : Reports \cup {NoAck}]
         /\ consumer.pc = "publish" =>
              consumer \in [pc : {"publish"}, task : Task, seen : TaskStates,
                            ack : Reports \cup {NoAck}]
         /\ consumer.pc = "ack" => consumer \in [pc : {"ack"}, ack : Reports]
BY DEF ConsumerStates, Idle

\* The record of a worker for each pc.
LEMMA WorkerRecord ==
  ASSUME NEW x \in WorkerStates
  PROVE  /\ x.pc = "insert" =>
              x \in [pc : {"insert"}, task : Task, crew : Crews, order : Orders]
         /\ x.pc = "cancel" => x \in [pc : {"cancel"}, task : Task]
         /\ x.pc \in {"assign", "notify"} =>
              x \in [pc : {"assign", "notify"}, task : Task, todo : SUBSET Robot]
BY DEF WorkerStates, Idle

\* The record of the monitor for each pc.
LEMMA MonitorRecord ==
  ASSUME monitor \in MonitorStates
  PROVE  /\ monitor.pc = "next" => monitor \in [pc : {"next"}, queue : SUBSET Task]
         /\ monitor.pc = "probe" => monitor \in
              [pc : {"probe"}, queue : SUBSET Task, task : Task, left : SUBSET Robot]
         /\ monitor.pc \in {"interrupt", "build"} => monitor \in
              [pc : {"interrupt", "build"}, queue : SUBSET Task, task : Task]
         /\ monitor.pc = "publish" => monitor \in
              [pc : {"publish"}, queue : SUBSET Task, task : Task, seen : TaskStates]
BY DEF MonitorStates, Idle

------------------------------------------------------------------------------
(***************************************************************************)
(* What a step that touches one part leaves true of the others.            *)
(***************************************************************************)

\* A step that leaves the tables alone.
LEMMA QuietEffects ==
  ASSUME IInv, UNCHANGED db
  PROVE  Effects
<1>1. DbStep
  BY NoDbStep DEF IInv
<1>2. LedgerStep
  BY StutterLedger DEF db
<1>3. SuccessJustified
  BY DEF db, IInv, Knows, SucceededKnows, SuccessJustified
<1> QED
  BY <1>1, <1>2, <1>3 DEF Effects

\* A step that writes tbl_task.state.
LEMMA UpdateEffects ==
  ASSUME IInv, NEW t \in Task, NEW s \in TaskStates \ {"NONE"},
         UpdateTaskState(t, s), s = "SUCCEEDED" => Carried(t)
  PROVE  Effects
<1>1. DbStep
  BY UpdateTaskStateDb DEF IInv
<1>2. LedgerStep
  BY StutterLedger DEF UpdateTaskState
<1>3. SuccessJustified
  BY DEF UpdateTaskState, IInv, DbOK, Knows, SucceededKnows, SuccessJustified
<1> QED
  BY <1>1, <1>2, <1>3 DEF Effects

\* A booked item stays booked.
LEMMA BookedKept ==
  ASSUME RowsKept, NEW m, Key(m) \in Claim, NEW i, Booked(m, i)
  PROVE  Booked(m, i)'
BY DEF RowsKept, Booked, Key

\* A request whose items are all booked stays so.
LEMMA AllBookedKept ==
  ASSUME RowsKept, NEW m, Key(m) \in Claim, AllBooked(m)
  PROVE  AllBooked(m)'
BY BookedKept DEF AllBooked, ValidApplication

\* A settled claim stays settled.
LEMMA SettledKept ==
  ASSUME RowsKept, NEW c \in Claim, alloc[c].state \in L!SettledStates
  PROVE  alloc'[c].state \in L!SettledStates
<1>1. alloc[c].state # "NONE"
  BY DEF L!SettledStates
<1> QED
  BY <1>1 DEF RowsKept

\* A carried task stays carried.
LEMMA CarriedKept ==
  ASSUME DbStep, NEW t \in Task, Carried(t)
  PROVE  Carried(t)'
BY DEF DbStep, OrderKept, DoneKept, Carried

\* What the database guarantees of SUCCEEDED tasks.
LEMMA SucceededStep ==
  ASSUME Effects
  PROVE  SucceededKnows'
BY CarriedKept DEF Effects, SuccessJustified, SucceededKnows

\* The answered requests keep their goods when no answer is added.
LEMMA AcceptedStep ==
  ASSUME IInv, Effects, UNCHANGED accepted
  PROVE  AcceptedKnows'
<1> SUFFICES ASSUME NEW m \in accepted PROVE AllBooked(m)'
  BY DEF AcceptedKnows
<1>1. Key(m) \in Claim
  BY ApplicationFields DEF IInv, MemoryOK
<1>2. AllBooked(m)
  BY DEF IInv, Knows, AcceptedKnows
<1> QED
  BY <1>1, <1>2, AllBookedKept DEF Effects, DbStep

\* What the consumer knows stands while other threads run.
LEMMA ConsumerUndisturbed ==
  ASSUME IInv, Effects, UNCHANGED consumer
  PROVE  ConsumerKnows'
<1>1. consumer \in ConsumerStates /\ ConsumerKnows /\ DbStep /\ RowsKept /\ consumer' = consumer
  BY DEF IInv, MemoryOK, Knows, Effects, DbStep
<1>2. ASSUME consumer.pc = "approve"
      PROVE  (/\ ValidApplication(consumer.msg)
              /\ consumer.next <= Len(consumer.msg.items)
              /\ \A i \in 1..(consumer.next - 1) : Booked(consumer.msg, i))'
  <2>1. PICK m : m = consumer.msg
    OBVIOUS
  <2>2. Key(m) \in Claim
    BY <1>1, <1>2, <2>1, ConsumerRecord, ApplicationFields
  <2>3. PICK n : n = consumer.next
    OBVIOUS
  <2>4. ValidApplication(m) /\ n <= Len(m.items) /\ \A i \in 1..(n - 1) : Booked(m, i)
    BY <1>1, <1>2, <2>1, <2>3 DEF ConsumerKnows
  <2>5. \A i \in 1..(n - 1) : Booked(m, i)'
    BY <1>1, <2>2, <2>4, BookedKept
  <2>6. consumer'.msg = m /\ consumer'.next = n
    BY <1>1, <2>1, <2>3
  <2> QED
    BY <2>4, <2>5, <2>6 DEF ValidApplication, Booked
<1>3. ASSUME consumer.pc \in {"run", "reply"}, consumer.pc = "reply" => consumer.ok
      PROVE  AllBooked(consumer.msg)'
  <2>1. PICK m : m = consumer.msg
    OBVIOUS
  <2>2. Key(m) \in Claim /\ AllBooked(m)
    BY <1>1, <1>3, <2>1, ConsumerRecord, ApplicationFields DEF ConsumerKnows
  <2>3. AllBooked(m)'
    BY <1>1, <2>2, AllBookedKept
  <2>4. consumer'.msg = m
    BY <1>1, <2>1
  <2> QED
    BY <2>3, <2>4 DEF AllBooked, ValidApplication, Booked
<1>4. ASSUME consumer.pc = "run"
      PROVE  task'[consumer.msg.task] # "NONE"
  <2>1. consumer.msg.task \in Task
    BY <1>1, <1>4, ConsumerRecord, ApplicationFields
  <2> QED
    BY <1>1, <1>4, <2>1 DEF ConsumerKnows, DbStep, OrderKept
<1>5. ASSUME consumer.pc = "settle"
      PROVE  alloc'[Key(consumer.msg)].state # "NONE"
  <2>1. Key(consumer.msg) \in Claim
    BY <1>1, <1>5, ConsumerRecord, ReportFields DEF ConsumerKnows
  <2> QED
    BY <1>1, <1>5, <2>1 DEF ConsumerKnows, RowsKept
<1>6. ASSUME consumer.pc \in {"check", "succeed"}
      PROVE  alloc'[Key(consumer.msg)].state \in L!SettledStates
  <2>1. Key(consumer.msg) \in Claim
    BY <1>1, <1>6, ConsumerRecord, ReportFields DEF ConsumerKnows
  <2> QED
    BY <1>1, <1>6, <2>1, SettledKept DEF ConsumerKnows
<1>7. ASSUME consumer.pc = "succeed"
      PROVE  Carried(consumer.msg.task)'
  <2>1. consumer.msg.task \in Task
    BY <1>1, <1>7, ConsumerRecord, ReportFields
  <2> QED
    BY <1>1, <1>7, <2>1, CarriedKept DEF ConsumerKnows, Carried, AllDone
<1>8. ASSUME consumer.pc \in {"build", "publish", "ack"}
      PROVE  SettledAck(consumer.ack)'
  <2>1. consumer.ack \in Reports \cup {NoAck}
    BY <1>1, <1>8, ConsumerRecord
  <2> SUFFICES ASSUME consumer.ack # NoAck, NamesClaim(consumer.ack)
               PROVE  alloc'[Key(consumer.ack)].state \in L!SettledStates
    BY <1>1 DEF SettledAck, NamesClaim, Key
  <2>2. Key(consumer.ack) \in Claim
    BY <2>1, ReportFields DEF NamesClaim
  <2>3. alloc[Key(consumer.ack)].state \in L!SettledStates
    BY <1>1, <1>8 DEF ConsumerKnows, SettledAck
  <2> QED
    BY <1>1, <2>2, <2>3, SettledKept
<1>9. ASSUME consumer.pc = "publish", consumer.seen = "SUCCEEDED"
      PROVE  Carried(consumer.task)'
  <2>1. consumer.task \in Task
    BY <1>1, <1>9, ConsumerRecord
  <2> QED
    BY <1>1, <1>9, <2>1, CarriedKept DEF ConsumerKnows, Carried, AllDone
<1> QED
  BY <1>1, <1>2, <1>3, <1>4, <1>5, <1>6, <1>7, <1>8, <1>9 DEF ConsumerKnows, Key

\* What the monitor knows stands while other threads run.
LEMMA MonitorUndisturbed ==
  ASSUME IInv, Effects, UNCHANGED monitor
  PROVE  MonitorKnows'
<1>1. monitor \in MonitorStates /\ MonitorKnows /\ DbStep
  BY DEF IInv, MemoryOK, Knows, Effects
<1>2. ASSUME monitor.pc = "publish", monitor.seen = "SUCCEEDED"
      PROVE  Carried(monitor.task)'
  <2>1. monitor.task \in Task
    BY <1>1, <1>2, MonitorRecord
  <2> QED
    BY <1>1, <1>2, <2>1, CarriedKept DEF MonitorKnows, Carried, AllDone
<1> QED
  BY <1>2 DEF MonitorKnows

------------------------------------------------------------------------------
(***************************************************************************)
(* The actions of the workers, of the registry and of the monitor, and the *)
(* crash.                                                                  *)
(***************************************************************************)

\* What a worker knows stands while other threads run.
LEMMA WorkerFactKept ==
  ASSUME DbStep, NEW x \in WorkerStates, WorkerFact(x)
  PROVE  WorkerFact(x)'
<1>1. x.pc \in {"cancel", "assign", "notify"} => x.task \in Task
  BY WorkerRecord
<1> QED
  BY <1>1 DEF WorkerFact, DbStep, OrderKept

\* The workers' facts when no worker moves.
LEMMA WorkersUndisturbed ==
  ASSUME IInv, Effects, UNCHANGED worker
  PROVE  WorkerKnows'
<1> SUFFICES ASSUME NEW w \in Worker PROVE WorkerFact(worker[w])'
  BY DEF WorkerKnows
<1>1. PICK x : x = worker[w]
  OBVIOUS
<1>2. x \in WorkerStates /\ WorkerFact(x) /\ worker'[w] = x
  BY <1>1 DEF IInv, MemoryOK, Knows, WorkerKnows
<1>3. WorkerFact(x)'
  BY <1>2, WorkerFactKept DEF Effects
<1> QED
  BY <1>2, <1>3 DEF WorkerFact

\* The parts of the invariant after a step.
LEMMA Assemble ==
  ASSUME Effects, MemoryOK', WorkerKnows', ConsumerKnows', MonitorKnows', AcceptedKnows'
  PROVE  IInv'
BY SucceededStep DEF Effects, DbStep, IInv, Knows

\* A step of a worker changes what only that worker knows.
LEMMA WorkerMoves ==
  ASSUME IInv, Effects, NEW w \in Worker, NEW next \in WorkerStates,
         WorkerGoto(w, next), WorkerFact(next)',
         UNCHANGED <<fleet, consumer, monitor, accepted, crashes>>
  PROVE  IInv'
<1>1. MemoryOK'
  BY DEF IInv, MemoryOK, WorkerGoto
<1>2. WorkerKnows'
  <2> SUFFICES ASSUME NEW v \in Worker PROVE WorkerFact(worker[v])'
    BY DEF WorkerKnows
  <2>1. CASE v = w
    <3>1. worker'[v] = next
      BY <2>1 DEF WorkerGoto, IInv, MemoryOK
    <3> QED
      BY <3>1 DEF WorkerFact
  <2>2. CASE v # w
    <3>1. PICK x : x = worker[v]
      OBVIOUS
    <3>2. x \in WorkerStates /\ WorkerFact(x) /\ worker'[v] = x
      BY <2>2, <3>1 DEF IInv, MemoryOK, Knows, WorkerKnows, WorkerGoto
    <3>3. WorkerFact(x)'
      BY <3>2, WorkerFactKept DEF Effects
    <3> QED
      BY <3>2, <3>3 DEF WorkerFact
  <2> QED
    BY <2>1, <2>2
<1> QED
  BY <1>1, <1>2, Assemble, AcceptedStep, ConsumerUndisturbed, MonitorUndisturbed

\* The actions of one worker.
LEMMA WorkerPreserves ==
  ASSUME IInv, NEW w \in Worker,
         \/ \E t \in Task, robots \in Crews, o \in Orders : CreateCheck(w, t, robots, o)
         \/ \E t \in Task : CancelCheck(w, t)
         \/ WorkerStep(w)
  PROVE  Effects /\ IInv'
<1>t. worker[w] \in WorkerStates
  BY DEF IInv, MemoryOK
<1>1. ASSUME NEW t \in Task, NEW robots \in Crews, NEW o \in Orders,
             CreateCheck(w, t, robots, o)
      PROVE  Effects /\ IInv'
  <2> DEFINE next == [pc |-> "insert", task |-> t, crew |-> robots, order |-> o]
  <2>1. next \in WorkerStates /\ WorkerFact(next)'
    BY DEF WorkerStates, WorkerFact
  <2> QED
    BY <1>1, <2>1, QuietEffects, WorkerMoves DEF CreateCheck
<1>2. ASSUME NEW t \in Task, CancelCheck(w, t)
      PROVE  Effects /\ IInv'
  <2> DEFINE next == [pc |-> "cancel", task |-> t]
  <2>1. next \in WorkerStates /\ WorkerFact(next)'
    BY <1>2 DEF CancelCheck, WorkerStates, WorkerFact, db
  <2> QED
    BY <1>2, <2>1, QuietEffects, WorkerMoves DEF CancelCheck
<1>3. ASSUME CreateInsert(w)
      PROVE  Effects /\ IInv'
  <2>1. PICK job : job = worker[w]
    OBVIOUS
  <2>2. /\ job.task \in Task /\ job.crew \in Crews /\ job.order \in Orders
    BY <1>3, <1>t, <2>1, WorkerRecord DEF CreateInsert
  <2>3. CASE /\ CreateTask(job.task, job.crew, job.order)
             /\ WorkerGoto(w, [pc |-> "assign", task |-> job.task, todo |-> job.crew])
    <3> DEFINE next == [pc |-> "assign", task |-> job.task, todo |-> job.crew]
    <3>1. next \in WorkerStates
      BY <2>2, ConstantsAssumption DEF WorkerStates
    <3>5. WorkerFact(next)'
      BY <2>2, <2>3 DEF CreateTask, WorkerFact, IInv, DbOK
    <3>2. DbStep /\ LedgerStep
      BY <2>2, <2>3, CreateTaskDb, CreateTaskLedger DEF IInv
    <3>3. SuccessJustified
      BY <2>2, <2>3 DEF CreateTask, SuccessJustified, IInv, DbOK, Knows, SucceededKnows
    <3>4. Effects
      BY <3>2, <3>3 DEF Effects
    <3> QED
      BY <1>3, <2>3, <3>1, <3>4, <3>5, WorkerMoves DEF CreateInsert
  <2>4. CASE WorkerGoto(w, Idle) /\ UNCHANGED db
    <3>1. Idle \in WorkerStates /\ WorkerFact(Idle)'
      BY DEF WorkerStates, WorkerFact, Idle
    <3> QED
      BY <1>3, <2>4, <3>1, QuietEffects, WorkerMoves DEF CreateInsert
  <2> QED
    BY <1>3, <2>1, <2>3, <2>4 DEF CreateInsert
<1>4. ASSUME CancelUpdate(w)
      PROVE  Effects /\ IInv'
  <2>1. PICK next : next = [pc |-> "notify", task |-> worker[w].task,
                            todo |-> crew[worker[w].task]]
    OBVIOUS
  <2>2. worker[w].task \in Task
    BY <1>4, <1>t, WorkerRecord DEF CancelUpdate
  <2>3. Effects
    BY <1>4, <2>2, UpdateEffects DEF CancelUpdate, TaskStates, Terminal
  <2>4. next \in WorkerStates
    BY <2>1, <2>2 DEF WorkerStates, IInv, DbOK
  <2>5. WorkerFact(next)'
    BY <1>4, <2>1, <2>2 DEF CancelUpdate, UpdateTaskState, WorkerFact, IInv, DbOK
  <2> QED
    BY <1>4, <2>1, <2>3, <2>4, <2>5, WorkerMoves DEF CancelUpdate
<1>5. ASSUME NEW r \in Robot, PublishCommand(w, r)
      PROVE  Effects /\ IInv'
  <2>1. PICK x : x = worker[w]
    OBVIOUS
  <2> DEFINE rest == x.todo \ {r}
             next == IF rest = {} THEN Idle ELSE [x EXCEPT !.todo = rest]
  <2>2. x \in [pc : {"assign", "notify"}, task : Task, todo : SUBSET Robot]
    BY <1>5, <1>t, <2>1, WorkerRecord DEF PublishCommand
  <2>3. next \in WorkerStates
    BY <2>2 DEF WorkerStates
  <2>4. WorkerFact(x)'
    BY <1>5, <2>1, <1>t, QuietEffects, WorkerFactKept
       DEF PublishCommand, Effects, IInv, Knows, WorkerKnows
  <2>5. WorkerFact(next)'
    BY <2>2, <2>4 DEF WorkerFact, Idle
  <2> QED
    BY <1>5, <2>1, <2>3, <2>5, QuietEffects, WorkerMoves DEF PublishCommand
<1> QED
  BY <1>1, <1>2, <1>3, <1>4, <1>5 DEF WorkerStep

\* Registration, status and the passing of time change the registry only.
LEMMA RegistryPreserves ==
  ASSUME IInv, NEW r \in Connecting,
         \/ RegisterRobot(r)
         \/ FiveMinutesPass(r)
         \/ \E s \in FleetStates : RobotStatus(r, s)
  PROVE  Effects /\ IInv'
<1>1. \E s \in FleetStates : SetFleet(r, s)
  BY DEF RegisterRobot, FiveMinutesPass, RobotStatus, FleetStates
<1>2. PICK s \in FleetStates : SetFleet(r, s)
  BY <1>1
<1>3. UNCHANGED <<db, worker, consumer, monitor, accepted, crashes>>
  BY <1>2 DEF SetFleet
<1>4. MemoryOK'
  BY <1>2, <1>3 DEF SetFleet, IInv, MemoryOK
<1> QED
  BY <1>3, <1>4, QuietEffects, Assemble, AcceptedStep, WorkersUndisturbed,
     ConsumerUndisturbed, MonitorUndisturbed

\* A step of the monitor changes what only the monitor knows.
LEMMA MonitorMoves ==
  ASSUME IInv, Effects, monitor' \in MonitorStates,
         monitor'.pc # "publish" \/ monitor'.seen # "SUCCEEDED" \/ Carried(monitor.task)',
         UNCHANGED <<fleet, worker, consumer, accepted, crashes>>
  PROVE  IInv'
<1>1. MemoryOK'
  BY DEF IInv, MemoryOK
<1>2. MonitorKnows'
  BY DEF MonitorKnows, Carried, AllDone
<1> QED
  BY <1>1, <1>2, Assemble, AcceptedStep, WorkersUndisturbed, ConsumerUndisturbed

\* The end of a task in the monitor's round.
LEMMA NextTaskType ==
  ASSUME NEW queue \in SUBSET Task
  PROVE  NextTask(queue) \in MonitorStates /\ NextTask(queue).pc # "publish"
BY DEF NextTask, MonitorStates, Idle

\* The actions of the monitor.
LEMMA MonitorPreserves ==
  ASSUME IInv, MonitorStep
  PROVE  Effects /\ IInv'
<1>t. monitor \in MonitorStates
  BY DEF IInv, MemoryOK
<1>1. ASSUME Tick
      PROVE  Effects /\ IInv'
  <2>1. {t \in Task : task[t] \in Active} \in SUBSET Task
    OBVIOUS
  <2> QED
    BY <1>1, <2>1, NextTaskType, QuietEffects, MonitorMoves DEF Tick, MonitorGoto
<1>2. ASSUME NEW t \in Task, TakeTask(t)
      PROVE  Effects /\ IInv'
  <2>1. monitor.queue \in SUBSET Task
    BY <1>2, <1>t, MonitorRecord DEF TakeTask
  <2>2. monitor' \in MonitorStates /\ monitor'.pc # "publish"
    BY <1>2, <2>1 DEF TakeTask, MonitorGoto, MonitorStates, IInv, DbOK
  <2> QED
    BY <1>2, <2>2, QuietEffects, MonitorMoves DEF TakeTask
<1>3. ASSUME NEW r \in Robot, ProbeRobot(r)
      PROVE  Effects /\ IInv'
  <2>1. monitor \in [pc : {"probe"}, queue : SUBSET Task, task : Task, left : SUBSET Robot]
    BY <1>3, <1>t, MonitorRecord DEF ProbeRobot
  <2>2. \/ monitor' = NextTask(monitor.queue)
        \/ monitor' = [monitor EXCEPT !.left = monitor.left \ {r}]
        \/ monitor' = [pc |-> "interrupt", queue |-> monitor.queue, task |-> monitor.task]
    BY <1>3 DEF ProbeRobot, MonitorGoto
  <2>3. [monitor EXCEPT !.left = monitor.left \ {r}] \in
          [pc : {"probe"}, queue : SUBSET Task, task : Task, left : SUBSET Robot]
    BY <2>1
  <2>4. monitor' \in MonitorStates /\ monitor'.pc # "publish"
    BY <2>1, <2>2, <2>3, NextTaskType DEF MonitorStates
  <2> QED
    BY <1>3, <2>4, QuietEffects, MonitorMoves DEF ProbeRobot
<1>4. ASSUME InterruptTask
      PROVE  Effects /\ IInv'
  <2>1. monitor \in [pc : {"interrupt", "build"}, queue : SUBSET Task, task : Task]
    BY <1>4, <1>t, MonitorRecord DEF InterruptTask
  <2>2. Effects
    BY <1>4, <2>1, UpdateEffects DEF InterruptTask, TaskStates, Terminal
  <2>3. monitor' \in [pc : {"interrupt", "build"}, queue : SUBSET Task, task : Task]
    BY <1>4, <2>1 DEF InterruptTask, MonitorGoto
  <2>4. monitor' \in MonitorStates /\ monitor'.pc # "publish"
    BY <2>3 DEF MonitorStates
  <2> QED
    BY <1>4, <2>2, <2>4, MonitorMoves DEF InterruptTask
<1>5. ASSUME MonitorBuildState
      PROVE  Effects /\ IInv'
  <2>1. monitor \in [pc : {"interrupt", "build"}, queue : SUBSET Task, task : Task]
    BY <1>5, <1>t, MonitorRecord DEF MonitorBuildState
  <2>2. /\ monitor' = [pc |-> "publish", queue |-> monitor.queue,
                       task |-> monitor.task, seen |-> task[monitor.task]]
        /\ UNCHANGED db
    BY <1>5 DEF MonitorBuildState, MonitorGoto
  <2>3. task[monitor.task] \in TaskStates
    BY <2>1 DEF IInv, DbOK
  <2>4. monitor' \in MonitorStates
    BY <2>1, <2>2, <2>3 DEF MonitorStates
  <2>5. monitor'.seen = "SUCCEEDED" => Carried(monitor.task)'
    BY <2>1, <2>2 DEF IInv, Knows, SucceededKnows, Carried, AllDone, db
  <2> QED
    BY <1>5, <2>4, <2>5, QuietEffects, MonitorMoves DEF MonitorBuildState
<1>6. ASSUME MonitorPublish
      PROVE  Effects /\ IInv'
  <2>1. monitor.queue \in SUBSET Task
    BY <1>6, <1>t, MonitorRecord DEF MonitorPublish
  <2>2. monitor' \in MonitorStates /\ monitor'.pc # "publish"
    BY <1>6, <2>1, NextTaskType DEF MonitorPublish, MonitorGoto
  <2> QED
    BY <1>6, <2>2, QuietEffects, MonitorMoves DEF MonitorPublish
<1> QED
  BY <1>1, <1>2, <1>3, <1>4, <1>5, <1>6 DEF MonitorStep

\* A crash forgets all threads and keeps the tables.
LEMMA CrashPreserves ==
  ASSUME IInv, CrashRestart
  PROVE  Effects /\ IInv'
<1>1. Effects
  BY QuietEffects DEF CrashRestart
<1>2. MemoryOK'
  BY ConstantsAssumption DEF CrashRestart, IInv, MemoryOK, WorkerStates,
     ConsumerStates, MonitorStates, FleetStates
<1>3. WorkerKnows' /\ ConsumerKnows' /\ MonitorKnows'
  BY DEF CrashRestart, WorkerKnows, WorkerFact, ConsumerKnows, MonitorKnows, Idle
<1> QED
  BY <1>1, <1>2, <1>3, Assemble, AcceptedStep DEF CrashRestart

------------------------------------------------------------------------------
(***************************************************************************)
(* The actions of the consumer.                                            *)
(***************************************************************************)

\* What must hold of the consumer's next record.
ConsumerReady == consumer' \in ConsumerStates /\ ConsumerKnows'

\* A step of the consumer changes what only the consumer knows.
LEMMA ConsumerMoves ==
  ASSUME IInv, Effects, ConsumerReady, UNCHANGED <<fleet, worker, monitor, accepted, crashes>>
  PROVE  IInv'
<1>1. MemoryOK'
  BY DEF IInv, MemoryOK, ConsumerReady
<1> QED
  BY <1>1, Assemble, AcceptedStep, WorkersUndisturbed, MonitorUndisturbed DEF ConsumerReady

\* The way out of the report handler acknowledges settled claims only.
LEMMA FinishReady ==
  ASSUME NEW m \in Reports, consumer' = Finish(m),
         m.event \in CarryEvents /\ m.request # NoRequest =>
           alloc'[Key(m)].state \in L!SettledStates
  PROVE  ConsumerReady
<1>1. consumer' \in [pc : {"build"}, task : Task, ack : Reports \cup {NoAck}]
  BY ReportFields
<1>2. consumer' \in ConsumerStates /\ consumer'.pc = "build"
  BY <1>1 DEF ConsumerStates
<1>3. SettledAck(consumer.ack)'
  BY DEF Finish, SettledAck, NamesClaim, Key
<1> QED
  BY <1>2, <1>3 DEF ConsumerReady, ConsumerKnows

\* The arrival of a goods request.
LEMMA ReceiveApplicationPreserves ==
  ASSUME IInv, NEW m \in Applications, ReceiveApplication(m)
  PROVE  Effects /\ IInv'
<1>1. m.task \in Task
  BY ApplicationFields
<1>2. CASE /\ ValidApplication(m)
           /\ consumer' = [pc |-> "approve", msg |-> m, next |-> 1, seen |-> task[m.task]]
  <2>1. consumer' \in ConsumerStates
    BY <1>1, <1>2 DEF ConsumerStates, IInv, DbOK
  <2>2. Len(m.items) \in Nat /\ Len(m.items) # 0
    BY <1>2, ApplicationFields DEF ValidApplication
  <2>3. 1 <= Len(m.items) /\ 1..(1 - 1) = {}
    BY <2>2
  <2>4. ConsumerKnows'
    BY <1>2, <2>3 DEF ConsumerKnows, ValidApplication
  <2> QED
    BY <2>1, <2>4, QuietEffects, ConsumerMoves DEF ReceiveApplication, ConsumerReady
<1>3. CASE consumer' = [pc |-> "reply", msg |-> m, ok |-> FALSE]
  <2>1. ConsumerReady
    BY <1>3 DEF ConsumerReady, ConsumerStates, ConsumerKnows
  <2> QED
    BY <2>1, QuietEffects, ConsumerMoves DEF ReceiveApplication
<1> QED
  BY <1>2, <1>3 DEF ReceiveApplication, ConsumerGoto

\* One item of a goods request.
LEMMA ApproveItemPreserves ==
  ASSUME IInv, ApproveItem
  PROVE  Effects /\ IInv'
<1>1. PICK m, n : m = consumer.msg /\ n = consumer.next
  OBVIOUS
<1>2. consumer \in [pc : {"approve"}, msg : Applications, next : Nat \ {0}, seen : TaskStates]
  BY ConsumerRecord DEF ApproveItem, IInv, MemoryOK
<1>3. /\ m \in Applications /\ n \in Nat \ {0}
      /\ ValidApplication(m) /\ n <= Len(m.items)
      /\ \A i \in 1..(n - 1) : Booked(m, i)
  BY <1>1, <1>2 DEF IInv, Knows, ConsumerKnows
<1>4. /\ m.task \in Task /\ Key(m) \in Claim /\ Len(m.items) \in Nat
      /\ n \in 1..Len(m.items)
      /\ m.items[n] \in Items /\ m.items[n].quantity > 0
  BY <1>3, ApplicationFields DEF ValidApplication
<1>5. PICK item : item = m.items[n]
  OBVIOUS
<1>6. CASE /\ CanApprove(m, item)
           /\ ApproveGoodsAllocation(m, item)
  <2>1. DbStep /\ LedgerStep /\ task[m.task] # "NONE"
    BY <1>4, <1>5, <1>6, ApproveDb, ApproveLedger DEF IInv
  <2>2. Effects
    BY <2>1, <1>6 DEF Effects, ApproveGoodsAllocation, SuccessJustified,
       IInv, Knows, SucceededKnows
  <2>3. Booked(m, n)'
    BY <1>4, <1>5, <1>6 DEF ApproveGoodsAllocation, Booked, Key, IInv, DbOK, Tables
  <2>4. \A i \in 1..(n - 1) : Booked(m, i)'
    BY <1>3, <1>4, <2>1, BookedKept DEF DbStep
  <2>5. \A i \in 1..n : Booked(m, i)'
    BY <1>3, <2>3, <2>4
  <2>6. task'[m.task] # "NONE"
    BY <1>4, <2>1 DEF DbStep, OrderKept
  <2>7. CASE n < Len(m.items) /\ consumer' = [consumer EXCEPT !.next = @ + 1]
    <3>1. consumer' \in [pc : {"approve"}, msg : Applications, next : Nat \ {0},
                         seen : TaskStates]
      BY <1>2, <2>7
    <3>2. consumer'.pc = "approve" /\ consumer'.msg = m /\ consumer'.next = n + 1
      BY <1>1, <1>2, <2>7
    <3>3. consumer' \in ConsumerStates
      BY <3>1 DEF ConsumerStates
    <3>4. n + 1 <= Len(m.items) /\ (n + 1) - 1 = n
      BY <1>3, <1>4, <2>7
    <3>5. ConsumerKnows'
      BY <1>3, <2>5, <3>2, <3>4 DEF ConsumerKnows, ValidApplication, Booked
    <3> QED
      BY <2>2, <3>3, <3>5, ConsumerMoves DEF ApproveItem, ConsumerReady
  <2>8. CASE n >= Len(m.items) /\ consumer' = AfterApproval(m, consumer.seen)
    <3>1. AllBooked(m)'
      BY <1>3, <1>4, <2>5, <2>8 DEF AllBooked, ValidApplication
    <3>2. CASE consumer' = [pc |-> "run", msg |-> m]
      <4>1. consumer' \in ConsumerStates
        BY <1>3, <3>2 DEF ConsumerStates
      <4>2. ConsumerKnows'
        BY <2>6, <3>1, <3>2 DEF ConsumerKnows, AllBooked, ValidApplication, Booked
      <4> QED
        BY <2>2, <4>1, <4>2, ConsumerMoves DEF ApproveItem, ConsumerReady
    <3>3. CASE consumer' = [pc |-> "reply", msg |-> m, ok |-> TRUE]
      <4>1. consumer' \in ConsumerStates
        BY <1>3, <3>3 DEF ConsumerStates
      <4>2. ConsumerKnows'
        BY <3>1, <3>3 DEF ConsumerKnows, AllBooked, ValidApplication, Booked
      <4> QED
        BY <2>2, <4>1, <4>2, ConsumerMoves DEF ApproveItem, ConsumerReady
    <3> QED
      BY <2>8, <3>2, <3>3 DEF AfterApproval
  <2> QED
    BY <1>1, <1>4, <1>5, <1>6, <2>7, <2>8 DEF ApproveItem, ConsumerGoto
<1>7. CASE consumer' = [pc |-> "reply", msg |-> m, ok |-> FALSE] /\ UNCHANGED db
  <2>1. ConsumerReady
    BY <1>3, <1>7 DEF ConsumerReady, ConsumerStates, ConsumerKnows
  <2> QED
    BY <1>7, <2>1, QuietEffects, ConsumerMoves DEF ApproveItem
<1> QED
  BY <1>1, <1>5, <1>6, <1>7 DEF ApproveItem, ConsumerGoto

\* The write of RUNNING after the approvals.
LEMMA StartRunningPreserves ==
  ASSUME IInv, StartRunning
  PROVE  Effects /\ IInv'
<1>1. PICK m : m = consumer.msg
  OBVIOUS
<1>2. m \in Applications /\ AllBooked(m)
  BY <1>1, ConsumerRecord DEF StartRunning, IInv, MemoryOK, Knows, ConsumerKnows
<1>3. m.task \in Task /\ Key(m) \in Claim
  BY <1>2, ApplicationFields
<1>4. Effects
  BY <1>1, <1>3, UpdateEffects DEF StartRunning, TaskStates, Active
<1>5. consumer' = [pc |-> "reply", msg |-> m, ok |-> TRUE]
  BY <1>1 DEF StartRunning, ConsumerGoto
<1>6. AllBooked(m)'
  BY <1>2, <1>3, <1>4, AllBookedKept DEF Effects, DbStep
<1>7. consumer' \in ConsumerStates
  BY <1>2, <1>5 DEF ConsumerStates
<1>8. ConsumerKnows'
  BY <1>5, <1>6 DEF ConsumerKnows, AllBooked, ValidApplication, Booked
<1> QED
  BY <1>4, <1>7, <1>8, ConsumerMoves DEF StartRunning, ConsumerReady

\* The goods response: the only step that answers a request.
LEMMA ReplyApplicationPreserves ==
  ASSUME IInv, ReplyApplication
  PROVE  Effects /\ IInv'
<1>1. PICK m : m = consumer.msg
  OBVIOUS
<1>2. /\ consumer \in [pc : {"reply"}, msg : Applications, ok : BOOLEAN]
      /\ m \in Applications
      /\ consumer.ok => AllBooked(m)
  BY <1>1, ConsumerRecord DEF ReplyApplication, IInv, MemoryOK, Knows, ConsumerKnows
<1>3. m.task \in Task /\ Key(m) \in Claim
  BY <1>2, ApplicationFields
<1>4. Effects
  BY QuietEffects DEF ReplyApplication
<1>5. /\ consumer' = [pc |-> "build", task |-> m.task, ack |-> NoAck]
      /\ accepted' = IF consumer.ok THEN accepted \cup {m} ELSE accepted
      /\ UNCHANGED <<fleet, worker, monitor, crashes>>
  BY <1>1 DEF ReplyApplication, ConsumerGoto
<1>6. consumer' \in ConsumerStates
  BY <1>3, <1>5 DEF ConsumerStates
<1>7. ConsumerKnows'
  BY <1>5 DEF ConsumerKnows, SettledAck
<1>8. MemoryOK'
  BY <1>2, <1>5, <1>6 DEF IInv, MemoryOK
<1>9. AcceptedKnows'
  <2> SUFFICES ASSUME NEW a \in accepted' PROVE AllBooked(a)'
    BY DEF AcceptedKnows
  <2>1. AllBooked(a) /\ Key(a) \in Claim
    BY <1>2, <1>3, <1>5, ApplicationFields DEF IInv, MemoryOK, Knows, AcceptedKnows
  <2> QED
    BY <1>4, <2>1, AllBookedKept DEF Effects, DbStep
<1> QED
  BY <1>4, <1>5, <1>7, <1>8, <1>9, Assemble, WorkersUndisturbed, MonitorUndisturbed

\* The arrival of a report.
LEMMA ReceiveReportPreserves ==
  ASSUME IInv, NEW m \in Reports, ReceiveReport(m)
  PROVE  Effects /\ IInv'
<1>1. consumer' = AfterInsert(m)
  BY DEF ReceiveReport, ConsumerGoto
<1>2. CASE m.event \in CarryEvents /\ m.request # NoRequest
  <2>1. consumer' = [pc |-> "settle", msg |-> m]
    BY <1>1, <1>2 DEF AfterInsert, CarryEvents
  <2>2. PICK a \in accepted : Key(a) = Key(m)
    BY <1>2 DEF ReceiveReport
  <2>3. AllBooked(a) /\ a \in Applications
    BY <2>2 DEF IInv, MemoryOK, Knows, AcceptedKnows
  <2>4. Len(a.items) \in Nat /\ Len(a.items) # 0
    BY <2>3, ApplicationFields DEF AllBooked, ValidApplication
  <2>5. 1 \in 1..Len(a.items)
    BY <2>4
  <2>6. alloc[Key(m)].state # "NONE"
    BY <2>2, <2>3, <2>5 DEF AllBooked, Booked
  <2>7. alloc'[Key(m)].state # "NONE"
    BY <2>6 DEF ReceiveReport, db
  <2>8. consumer' \in ConsumerStates
    BY <2>1 DEF ConsumerStates
  <2>9. ConsumerKnows'
    BY <1>2, <2>1, <2>7 DEF ConsumerKnows, Key
  <2> QED
    BY <2>8, <2>9, QuietEffects, ConsumerMoves DEF ReceiveReport, ConsumerReady
<1>3. CASE m.event = "STATUS_ACCEPTED"
  <2>1. consumer' = [pc |-> "read", msg |-> m]
    BY <1>1, <1>3 DEF AfterInsert, CarryEvents
  <2>2. ConsumerReady
    BY <1>3, <2>1 DEF ConsumerReady, ConsumerStates, ConsumerKnows
  <2> QED
    BY <2>2, QuietEffects, ConsumerMoves DEF ReceiveReport
<1>4. CASE ~(m.event \in CarryEvents /\ m.request # NoRequest) /\ m.event # "STATUS_ACCEPTED"
  <2>1. consumer' = Finish(m)
    BY <1>1, <1>4 DEF AfterInsert
  <2>2. ConsumerReady
    BY <1>4, <2>1, FinishReady
  <2> QED
    BY <2>2, QuietEffects, ConsumerMoves DEF ReceiveReport
<1> QED
  BY <1>2, <1>3, <1>4

\* The settlement of a claim, or its refusal because it is settled already.
LEMMA SettleClaimPreserves ==
  ASSUME IInv, SettleClaim
  PROVE  Effects /\ IInv'
<1>1. PICK m : m = consumer.msg
  OBVIOUS
<1>2. /\ m \in Reports
      /\ m.event \in CarryEvents /\ m.request # NoRequest
      /\ alloc[Key(m)].state # "NONE"
  BY <1>1, ConsumerRecord DEF SettleClaim, IInv, MemoryOK, Knows, ConsumerKnows
<1>3. Key(m) \in Claim
  BY <1>2, ReportFields
<1>4. CASE /\ CanSettle(m) /\ SettleGoodsAllocation(m)
           /\ consumer' = IF m.event = "CARRY_COMPLETED"
                          THEN [pc |-> "check", msg |-> m] ELSE Finish(m)
  <2>1. /\ DbStep /\ LedgerStep
        /\ alloc'[Key(m)].state \in L!SettledStates
    BY <1>3, <1>4, SettleDb, SettleLedger DEF IInv
  <2>2. Effects
    BY <1>4, <2>1 DEF Effects, SettleGoodsAllocation, SuccessJustified,
       IInv, Knows, SucceededKnows
  <2>3. CASE m.event = "CARRY_COMPLETED"
    <3>1. consumer' \in ConsumerStates
      BY <1>2, <1>4, <2>3 DEF ConsumerStates
    <3>2. ConsumerKnows'
      BY <1>2, <1>4, <2>1, <2>3 DEF ConsumerKnows, Key
    <3> QED
      BY <2>2, <3>1, <3>2, ConsumerMoves DEF SettleClaim, ConsumerReady
  <2>4. CASE m.event # "CARRY_COMPLETED"
    BY <1>2, <1>4, <2>1, <2>2, <2>4, FinishReady, ConsumerMoves DEF SettleClaim
  <2> QED
    BY <2>3, <2>4
<1>5. CASE ~CanSettle(m) /\ consumer' = Finish(m) /\ UNCHANGED db
  <2>1. alloc[Key(m)] \in L!Claims \cup {L!NoClaim}
    BY <1>3 DEF IInv, DbOK, Tables
  <2>2. alloc[Key(m)].state \in L!SettledStates
    BY <1>2, <1>5, <2>1 DEF CanSettle, L!Claims, L!NoClaim, L!SettledStates
  <2>3. alloc'[Key(m)].state \in L!SettledStates
    BY <1>5, <2>2 DEF db
  <2> QED
    BY <1>2, <1>5, <2>3, FinishReady, QuietEffects, ConsumerMoves DEF SettleClaim
<1> QED
  BY <1>1, <1>4, <1>5 DEF SettleClaim, ConsumerGoto

\* ACCEPTED: the read and the write.
LEMMA AcceptPreserves ==
  ASSUME IInv, ReadForAccept \/ WriteAccepted
  PROVE  Effects /\ IInv'
<1>1. PICK m : m = consumer.msg
  OBVIOUS
<1>2. /\ consumer \in [pc : {"settle", "read", "accept", "check", "succeed"}, msg : Reports]
      /\ m \in Reports /\ m.event = "STATUS_ACCEPTED"
  BY <1>1, ConsumerRecord
     DEF ReadForAccept, WriteAccepted, IInv, MemoryOK, Knows, ConsumerKnows
<1>3. m.task \in Task /\ m.event \notin CarryEvents
  BY <1>2, ReportFields DEF CarryEvents
<1>4. ASSUME ReadForAccept
      PROVE  Effects /\ IInv'
  <2>1. CASE consumer' = [consumer EXCEPT !.pc = "accept"]
    <3>1. /\ consumer' \in [pc : {"settle", "read", "accept", "check", "succeed"}, msg : Reports]
          /\ consumer'.pc = "accept" /\ consumer'.msg = m
      BY <1>1, <1>2, <2>1
    <3>2. ConsumerReady
      BY <1>2, <3>1 DEF ConsumerReady, ConsumerStates, ConsumerKnows
    <3> QED
      BY <1>4, <3>2, QuietEffects, ConsumerMoves DEF ReadForAccept
  <2>2. CASE consumer' = Finish(m)
    BY <1>2, <1>3, <1>4, <2>2, FinishReady, QuietEffects, ConsumerMoves DEF ReadForAccept
  <2> QED
    BY <1>1, <1>4, <2>1, <2>2 DEF ReadForAccept, ConsumerGoto
<1>5. ASSUME WriteAccepted
      PROVE  Effects /\ IInv'
  <2>1. Effects
    BY <1>1, <1>3, <1>5, UpdateEffects DEF WriteAccepted, TaskStates, Active
  <2>2. consumer' = Finish(m)
    BY <1>1, <1>5 DEF WriteAccepted, ConsumerGoto
  <2> QED
    BY <1>2, <1>3, <1>5, <2>1, <2>2, FinishReady, ConsumerMoves DEF WriteAccepted
<1> QED
  BY <1>4, <1>5

\* SUCCEEDED: the reads and the write.
LEMMA SucceedPreserves ==
  ASSUME IInv, CheckAllDone \/ WriteSucceeded
  PROVE  Effects /\ IInv'
<1>1. PICK m : m = consumer.msg
  OBVIOUS
<1>2. /\ consumer \in [pc : {"settle", "read", "accept", "check", "succeed"}, msg : Reports]
      /\ m \in Reports /\ m.event = "CARRY_COMPLETED" /\ m.request # NoRequest
      /\ alloc[Key(m)].state \in L!SettledStates
  BY <1>1, ConsumerRecord
     DEF CheckAllDone, WriteSucceeded, IInv, MemoryOK, Knows, ConsumerKnows
<1>3. m.task \in Task /\ Key(m) \in Claim
  BY <1>2, ReportFields
<1>4. ASSUME CheckAllDone
      PROVE  Effects /\ IInv'
  <2>1. Effects
    BY <1>4, QuietEffects DEF CheckAllDone
  <2>2. alloc'[Key(m)].state \in L!SettledStates
    BY <1>2, <1>4 DEF CheckAllDone, db
  <2>3. CASE Carried(m.task) /\ consumer' = [consumer EXCEPT !.pc = "succeed"]
    <3>1. /\ consumer' \in [pc : {"settle", "read", "accept", "check", "succeed"}, msg : Reports]
          /\ consumer'.pc = "succeed" /\ consumer'.msg = m
      BY <1>1, <1>2, <2>3
    <3>2. Carried(m.task)'
      BY <1>4, <2>3 DEF CheckAllDone, db, Carried, AllDone
    <3>3. consumer' \in ConsumerStates
      BY <3>1 DEF ConsumerStates
    <3>4. ConsumerKnows'
      BY <1>2, <2>2, <3>1, <3>2 DEF ConsumerKnows, Key, Carried, AllDone
    <3> QED
      BY <1>4, <2>1, <3>3, <3>4, ConsumerMoves DEF CheckAllDone, ConsumerReady
  <2>4. CASE consumer' = Finish(m)
    BY <1>2, <1>4, <2>1, <2>2, <2>4, FinishReady, ConsumerMoves DEF CheckAllDone
  <2> QED
    BY <1>1, <1>4, <2>3, <2>4 DEF CheckAllDone, ConsumerGoto, Carried
<1>5. ASSUME WriteSucceeded
      PROVE  Effects /\ IInv'
  <2>1. Carried(m.task)
    BY <1>1, <1>5 DEF WriteSucceeded, IInv, Knows, ConsumerKnows
  <2>2. Effects
    BY <1>1, <1>3, <1>5, <2>1, UpdateEffects DEF WriteSucceeded, TaskStates, Terminal
  <2>3. consumer' = Finish(m)
    BY <1>1, <1>5 DEF WriteSucceeded, ConsumerGoto
  <2>4. alloc'[Key(m)].state \in L!SettledStates
    BY <1>2, <1>3, <2>2, SettledKept DEF Effects, DbStep
  <2> QED
    BY <1>2, <1>5, <2>2, <2>3, <2>4, FinishReady, ConsumerMoves DEF WriteSucceeded
<1> QED
  BY <1>4, <1>5

\* The state message and the ACK.
LEMMA PublishPreserves ==
  ASSUME IInv, BuildState \/ PublishState \/ PublishAck
  PROVE  Effects /\ IInv'
<1>1. UNCHANGED db /\ UNCHANGED <<fleet, worker, monitor, accepted, crashes>>
  BY DEF BuildState, PublishState, PublishAck
<1>2. Effects
  BY <1>1, QuietEffects
<1>3. PICK ack : ack = consumer.ack
  OBVIOUS
<1>4. ASSUME ack \in Reports \cup {NoAck}, SettledAck(ack), consumer' = AfterState(ack)
      PROVE  ConsumerReady
  <2>1. CASE ack = NoAck
    BY <1>4, <2>1 DEF AfterState, ConsumerReady, ConsumerStates, ConsumerKnows, Idle
  <2>2. CASE ack # NoAck
    <3>1. consumer' = [pc |-> "ack", ack |-> ack] /\ ack \in Reports
      BY <1>4, <2>2 DEF AfterState
    <3>2. NamesClaim(ack) => alloc'[Key(ack)].state \in L!SettledStates
      BY <1>1, <1>4, <2>2 DEF SettledAck, db
    <3>3. consumer' \in ConsumerStates
      BY <3>1 DEF ConsumerStates
    <3>4. ConsumerKnows'
      BY <3>1, <3>2 DEF ConsumerKnows, SettledAck, NamesClaim, Key
    <3> QED
      BY <3>3, <3>4 DEF ConsumerReady
  <2> QED
    BY <2>1, <2>2
<1>5. ASSUME BuildState
      PROVE  ConsumerReady
  <2>1. PICK t : t = consumer.task
    OBVIOUS
  <2>2. t \in Task /\ ack \in Reports \cup {NoAck} /\ SettledAck(ack)
    BY <1>3, <1>5, <2>1, ConsumerRecord DEF BuildState, IInv, MemoryOK, Knows, ConsumerKnows
  <2>3. CASE /\ task[t] # "NONE"
             /\ consumer' = [pc |-> "publish", task |-> t, seen |-> task[t], ack |-> ack]
    <3>1. consumer' \in ConsumerStates
      BY <2>2, <2>3 DEF ConsumerStates, IInv, DbOK
    <3>2. SettledAck(ack)'
      BY <1>1, <2>2 DEF SettledAck, NamesClaim, Key, db
    <3>3. task[t] = "SUCCEEDED" => Carried(t)'
      BY <1>1, <2>2 DEF IInv, Knows, SucceededKnows, Carried, AllDone, db
    <3>4. ConsumerKnows'
      BY <2>3, <3>2, <3>3 DEF ConsumerKnows, SettledAck, NamesClaim, Key, Carried, AllDone
    <3> QED
      BY <3>1, <3>4 DEF ConsumerReady
  <2>4. CASE consumer' = AfterState(ack)
    BY <1>4, <2>2, <2>4
  <2> QED
    BY <1>3, <1>5, <2>1, <2>3, <2>4 DEF BuildState, ConsumerGoto
<1>6. ASSUME PublishState
      PROVE  ConsumerReady
  <2>1. ack \in Reports \cup {NoAck} /\ SettledAck(ack)
    BY <1>3, <1>6, ConsumerRecord DEF PublishState, IInv, MemoryOK, Knows, ConsumerKnows
  <2> QED
    BY <1>3, <1>4, <1>6, <2>1 DEF PublishState, ConsumerGoto
<1>7. ASSUME PublishAck
      PROVE  ConsumerReady
  BY <1>7 DEF PublishAck, ConsumerGoto, ConsumerReady, ConsumerStates, ConsumerKnows, Idle
<1> QED
  BY <1>1, <1>2, <1>5, <1>6, <1>7, ConsumerMoves

------------------------------------------------------------------------------
(***************************************************************************)
(* The whole system.                                                       *)
(***************************************************************************)

\* At the start no row exists, nothing is held and no thread runs.
LEMMA InitEstablishes ==
  ASSUME Init
  PROVE  IInv
<1>1. \A t \in Task, g \in Good, s \in {"IN_PROGRESS", "COMPLETED"} :
        UnitsIn(alloc, t, g, s) = {}
  BY DEF Init, UnitsIn, L!NoClaim
<1>2. Cardinality({}) = 0
  BY FS_EmptySet
<1>3. CountersMatchRows
  <2> SUFFICES ASSUME NEW t \in Task, NEW g \in Good
               PROVE  LET row == stock[t][g] IN
                        /\ row.total = row.pending + row.in_progress + row.completed
                        /\ row.in_progress = L!Held(t, g)
                        /\ row.completed = L!Delivered(t, g)
    BY DEF CountersMatchRows
  <2>1. L!Held(t, g) = 0 /\ L!Delivered(t, g) = 0
    BY <1>1, <1>2, HeldIsUnits
  <2> QED
    BY <2>1 DEF Init, NoRow
<1>4. DbOK
  BY <1>3 DEF DbOK, Init, TaskStates, Tables, Rows, NoRow, NoStrayStock
<1>5. MemoryOK
  BY ConstantsAssumption DEF MemoryOK, Init, FleetStates, WorkerStates, ConsumerStates,
     MonitorStates
<1>6. Knows
  BY DEF Init, Idle, Knows, WorkerKnows, WorkerFact, ConsumerKnows, MonitorKnows,
     AcceptedKnows, SucceededKnows
<1> QED
  BY <1>4, <1>5, <1>6 DEF IInv

\* The steps of the consumer, action by action.
LEMMA ConsumerPreserves ==
  ASSUME IInv, ConsumerStep
  PROVE  Effects /\ IInv'
BY ApproveItemPreserves, StartRunningPreserves, ReplyApplicationPreserves,
   SettleClaimPreserves, AcceptPreserves, SucceedPreserves, PublishPreserves
   DEF ConsumerStep

\* The arrival of a request or of a message.
LEMMA ArrivalPreserves ==
  ASSUME IInv, Arrival
  PROVE  Effects /\ IInv'
<1>1. CASE \E w \in Worker, t \in Task : CancelCheck(w, t)
  BY <1>1, WorkerPreserves
<1>2. CASE \E w \in Worker, t \in Task, robots \in Crews, o \in Orders :
             CreateCheck(w, t, robots, o)
  BY <1>2, WorkerPreserves
<1>3. CASE \E m \in Applications : ReceiveApplication(m)
  BY <1>3, ReceiveApplicationPreserves
<1>4. CASE \E m \in Reports : ReceiveReport(m)
  BY <1>4, ReceiveReportPreserves
<1>5. CASE \E r \in Connecting : RegisterRobot(r) \/ FiveMinutesPass(r)
  BY <1>5, RegistryPreserves
<1>6. CASE \E r \in Connecting, s \in FleetStates : RobotStatus(r, s)
  BY <1>6, RegistryPreserves
<1> QED
  BY <1>1, <1>2, <1>3, <1>4, <1>5, <1>6 DEF Arrival

\* Every step keeps the invariant and treats the tables as it should.
LEMMA StepPreserves ==
  ASSUME IInv, [Next]_vars
  PROVE  Effects /\ IInv'
<1>1. CASE \E w \in Worker : WorkerStep(w)
  BY <1>1, WorkerPreserves
<1>2. CASE ConsumerStep
  BY <1>2, ConsumerPreserves
<1>3. CASE MonitorStep
  BY <1>3, MonitorPreserves
<1>4. CASE Arrival
  BY <1>4, ArrivalPreserves
<1>5. CASE CrashRestart
  BY <1>5, CrashPreserves
<1>6. CASE UNCHANGED vars
  <2>1. UNCHANGED <<db, fleet, worker, consumer, monitor, accepted, crashes>>
    BY <1>6 DEF vars
  <2>2. MemoryOK'
    BY <2>1 DEF IInv, MemoryOK
  <2> QED
    BY <2>1, <2>2, QuietEffects, Assemble, AcceptedStep, WorkersUndisturbed,
       ConsumerUndisturbed, MonitorUndisturbed
<1> QED
  BY <1>1, <1>2, <1>3, <1>4, <1>5, <1>6 DEF Next

\* The inductive invariant: tables that agree with each other, threads whose
\* next call relies on nothing another thread can take away.
THEOREM Invariance == Spec => []IInv
<1>1. Init => IInv
  BY InitEstablishes
<1>2. IInv /\ [Next]_vars => IInv'
  BY StepPreserves
<1> QED
  BY <1>1, <1>2, PTL DEF Spec

\* The tables and the threads keep their types; in particular no counter of
\* tbl_task_goods_status ever becomes negative.
THEOREM TypeCorrect == Spec => []TypeOK
<1>1. IInv => TypeOK
  BY DEF IInv, DbOK, MemoryOK, TypeOK, Tables
<1> QED
  BY <1>1, Invariance, PTL

\* The counters agree with the allocation rows, whatever robots apply for,
\* repeat, complete and abort, and wherever the process stops.
THEOREM CountersCorrect == Spec => []CountersMatchRows
<1>1. IInv => CountersMatchRows
  BY DEF IInv, DbOK
<1> QED
  BY <1>1, Invariance, PTL

\* A task is SUCCEEDED, and announced as SUCCEEDED, only when all its goods
\* have been carried.
THEOREM SuccessCorrect == Spec => []SucceededMeansCarried
<1>1. IInv => SucceededMeansCarried
  BY DEF IInv, Knows, SucceededKnows, ConsumerKnows, MonitorKnows, Carried,
     SucceededMeansCarried
<1> QED
  BY <1>1, Invariance, PTL

\* A CARRY report that names its request is acknowledged only when its claim has been
\* settled, whatever copies, contradictions and crashes came before.  Nothing is claimed of
\* one that names none: the code acknowledges it and settles nothing.
THEOREM AcksCorrect == Spec => []AckedCarryIsSettled
<1>1. IInv => AckedCarryIsSettled
  <2> SUFFICES ASSUME IInv, consumer.pc = "ack", NamesClaim(consumer.ack)
               PROVE  alloc[Key(consumer.ack)].state \in L!SettledStates
    BY DEF AckedCarryIsSettled
  <2>1. consumer.ack \in Reports
    BY ConsumerRecord DEF IInv, MemoryOK
  <2> QED
    BY <2>1, ConstantsAssumption DEF IInv, Knows, ConsumerKnows, SettledAck
<1> QED
  BY <1>1, Invariance, PTL

\* A goods request is answered accepted=true only when all its goods are booked
\* under its key, and they stay booked.
THEOREM AcceptanceCorrect == Spec => []AcceptedIsBooked
<1>1. IInv => AcceptedIsBooked
  BY DEF IInv, Knows, AcceptedKnows, AllBooked, Booked, AcceptedIsBooked
<1> QED
  BY <1>1, Invariance, PTL

\* TASK_ASSIGN and TASK_CANCEL go to robots of the task only.
THEOREM CommandsCorrect == Spec => []OnlyCrewCommanded
<1>1. IInv => OnlyCrewCommanded
  BY DEF IInv, Knows, WorkerKnows, WorkerFact, OnlyCrewCommanded
<1> QED
  BY <1>1, Invariance, PTL

\* No step changes a settled claim or takes back a delivered unit.
THEOREM SettlementIsFinal == Spec => SettledForGood
<1>1. IInv /\ [Next]_vars =>
        [/\ \A c \in Claim :
              alloc[c].state \in L!SettledStates => alloc'[c] = alloc[c]
         /\ \A t \in Task, g \in Good :
              stock'[t][g].completed >= stock[t][g].completed]_vars
  BY StepPreserves DEF Effects, DbStep, RowsKept, DeliveredKept, L!SettledStates
<1> QED
  BY <1>1, Invariance, PTL DEF Spec, SettledForGood

\* No step changes the robots or the quantities of a task, or removes it.
THEOREM OrdersAreFinal == Spec => OrderIsImmutable
<1>1. IInv /\ [Next]_vars =>
        [\A t \in Task : task[t] # "NONE" =>
           /\ task'[t] # "NONE"
           /\ crew'[t] = crew[t]
           /\ \A g \in Good : stock'[t][g].total = stock[t][g].total]_vars
  BY StepPreserves DEF Effects, DbStep, OrderKept
<1> QED
  BY <1>1, Invariance, PTL DEF Spec, OrderIsImmutable

\* Every step of the edge server is a step of the ledger or leaves it alone:
\* no unit is ever booked twice, and no claim settled twice.
THEOREM LedgerImplemented == Spec => ImplementsLedger
<1>1. Init => L!LedgerInit
  <2>1. NoRow.total = 0
    BY DEF NoRow
  <2> QED
    BY <2>1 DEF Init, L!LedgerInit, L!NoOrder
<1>2. IInv /\ [Next]_vars => [L!LedgerNext]_(L!ledgerVars)
  BY StepPreserves DEF Effects, LedgerStep
<1> QED
  BY <1>1, <1>2, Invariance, PTL DEF Spec, ImplementsLedger, L!LedgerSpec

------------------------------------------------------------------------------
(***************************************************************************)
(* A task that is carried and has ended stays so. The state of a task may  *)
(* be overwritten by what a thread decided some steps ago; these are the   *)
(* facts by which no such write meets a task whose goods are all carried.  *)
(***************************************************************************)

\* Goods of the task have been granted, or it has ended.
Started(t) == task[t] \notin {"NONE", "PENDING"}

\* A pending task was ordered something, nothing of which has been carried.
OrdersOK    == \A t \in Task : task[t] = "PENDING" => \E g \in Good : stock[t][g].total # 0
CompletedOK == \A t \in Task, g \in Good : stock[t][g].completed # 0 => Started(t)
AcceptedOK  == \A a \in accepted : Started(a.task)

\* What the consumer has decided, or read, of the task's state.
DecisionOK ==
  /\ consumer.pc = "approve" /\ consumer.seen # "PENDING" => Started(consumer.msg.task)
  /\ consumer.pc = "run" => ~AllDone(consumer.msg.task)
  /\ consumer.pc = "reply" /\ consumer.ok => Started(consumer.msg.task)
  /\ consumer.pc = "settle" => \E a \in accepted : Key(a) = Key(consumer.msg)
  /\ consumer.pc = "accept" =>
       task[consumer.msg.task] # "NONE" /\ ~AllDone(consumer.msg.task)

StateInv == OrdersOK /\ CompletedOK /\ AcceptedOK /\ DecisionOK

\* A step writes no state that is before the start.
Advance == \A t \in Task : task'[t] = task[t] \/ Started(t)'

LEMMA AdvanceKeeps ==
  ASSUME IInv, StateInv, Effects, Advance,
         \A t \in Task, g \in Good : stock'[t][g].completed # stock[t][g].completed => Started(t)
  PROVE  /\ \A t \in Task : Started(t) => Started(t)'
         /\ OrdersOK' /\ CompletedOK'
         /\ accepted' = accepted => AcceptedOK'
<1>1. \A t \in Task : Started(t) => Started(t)' BY DEF Advance, Started
<1>2. OrdersOK'
  BY DEF StateInv, OrdersOK, Advance, Started, Effects, DbStep, OrderKept
<1>3. CompletedOK' BY <1>1 DEF StateInv, CompletedOK
<1>4. accepted' = accepted => AcceptedOK'
  <2>1. \A a \in accepted : a.task \in Task BY ApplicationFields DEF IInv, MemoryOK
  <2> QED BY <1>1, <2>1 DEF StateInv, AcceptedOK
<1> QED BY <1>1, <1>2, <1>3, <1>4

\* What the consumer has decided stands while other threads run.
LEMMA DecisionKept ==
  ASSUME IInv, StateInv, UNCHANGED <<consumer, accepted>>,
         \A t \in Task : Started(t) => Started(t)',
         \A t \in Task : task[t] # "NONE" => task'[t] # "NONE" /\ stock'[t] = stock[t]
  PROVE  DecisionOK'
<1>1. consumer.pc \in {"approve", "run", "reply", "settle", "accept"} =>
        consumer.msg.task \in Task
  BY ConsumerRecord, ApplicationFields, ReportFields DEF IInv, MemoryOK
<1>2. consumer.pc \in {"run", "accept"} => task[consumer.msg.task] # "NONE"
  BY DEF IInv, Knows, ConsumerKnows, StateInv, DecisionOK
<1>3. consumer.pc \in {"run", "accept"} => ~AllDone(consumer.msg.task)'
  BY <1>1, <1>2 DEF AllDone, StateInv, DecisionOK
<1> QED BY <1>1, <1>2, <1>3 DEF StateInv, DecisionOK, Key

\* The steps that write nothing of the database nor of the consumer.
LEMMA QuietState ==
  ASSUME IInv, StateInv, UNCHANGED <<db, consumer, accepted>>
  PROVE  StateInv' /\ task' = task
BY DEF db, StateInv, OrdersOK, CompletedOK, AcceptedOK, DecisionOK, Started, AllDone, Key

\* The writes of the other threads.
LEMMA OverwriteState ==
  ASSUME IInv, StateInv, NEW t \in Task, NEW s \in TaskStates \ {"NONE", "PENDING"},
         UpdateTaskState(t, s), UNCHANGED <<consumer, accepted>>, s = "SUCCEEDED" => Carried(t)
  PROVE  StateInv'
<1>1. Effects BY UpdateEffects
<1>2. task' = [task EXCEPT ![t] = s] /\ stock' = stock BY DEF UpdateTaskState
<1>3. Advance BY <1>2 DEF Advance, Started, IInv, DbOK
<1>4. \A u \in Task : task[u] # "NONE" => task'[u] # "NONE" /\ stock'[u] = stock[u]
  BY <1>2 DEF IInv, DbOK
<1> QED BY <1>1, <1>2, <1>3, <1>4, AdvanceKeeps, DecisionKept DEF StateInv

\* A task that is new has an order, and nothing carried.
LEMMA CreateState ==
  ASSUME IInv, StateInv, NEW w \in Worker, CreateInsert(w)
  PROVE  StateInv' /\ \A t \in Task : task[t] \in Terminal => task'[t] \in Terminal
<1>1. CASE UNCHANGED db
  BY <1>1, QuietState DEF CreateInsert
<1>2. CASE CreateTask(worker[w].task, worker[w].crew, worker[w].order)
  <2>1. PICK u, o : u = worker[w].task /\ o = worker[w].order OBVIOUS
  <2>2. u \in Task /\ o \in Orders
    BY <2>1, WorkerRecord DEF CreateInsert, IInv, MemoryOK
  <2>3. o \in [Good -> 0..MaxQuantity] /\ o # NoOrder BY <2>2, ConstantsAssumption
  <2>4. \E g \in Good : o[g] # 0 BY <2>3 DEF NoOrder
  <2>5. /\ task[u] = "NONE" /\ task' = [task EXCEPT ![u] = "PENDING"]
        /\ stock' = [stock EXCEPT ![u] = [g \in Good |-> Row(o[g])]]
    BY <1>2, <2>1 DEF CreateTask
  <2>6. \A t \in Task \ {u} : task'[t] = task[t] /\ stock'[t] = stock[t]
    BY <2>2, <2>5 DEF IInv, DbOK
  <2>7. task'[u] = "PENDING" /\ \A g \in Good : stock'[u][g] = Row(o[g])
    BY <2>2, <2>5 DEF IInv, DbOK
  <2>r. \A n : Row(n).total = n /\ Row(n).completed = 0 BY DEF Row
  <2>8. UNCHANGED <<consumer, accepted>> BY DEF CreateInsert
  <2>9. \A t \in Task : Started(t) => Started(t)' BY <2>5, <2>6 DEF Started
  <2>10. OrdersOK'
    <3>1. \E g \in Good : stock'[u][g].total # 0 BY <2>4, <2>7, <2>r
    <3> QED BY <3>1, <2>6 DEF StateInv, OrdersOK
  <2>11. CompletedOK'
    <3>1. \A g \in Good : stock'[u][g].completed = 0 BY <2>7, <2>r
    <3> QED BY <3>1, <2>6, <2>9 DEF StateInv, CompletedOK
  <2>12. AcceptedOK'
    <3>1. \A a \in accepted : a.task \in Task BY ApplicationFields DEF IInv, MemoryOK
    <3> QED BY <2>8, <2>9, <3>1 DEF StateInv, AcceptedOK
  <2>13. DecisionOK'
    <3>1. \A t \in Task : task[t] # "NONE" => task'[t] # "NONE" /\ stock'[t] = stock[t]
      BY <2>5, <2>6
    <3> QED BY <2>8, <2>9, <3>1, DecisionKept
  <2> QED BY <2>5, <2>6, <2>10, <2>11, <2>12, <2>13 DEF StateInv, Terminal
<1> QED BY <1>1, <1>2 DEF CreateInsert


\* The consumer moves on to where it has decided nothing of the task's state.
Undecided == consumer'.pc \notin {"approve", "run", "reply", "settle", "accept"}

LEMMA UndecidedKeeps ==
  ASSUME IInv, StateInv, Undecided, UNCHANGED <<db, accepted>>
  PROVE  StateInv'
BY DEF db, StateInv, OrdersOK, CompletedOK, AcceptedOK, DecisionOK, Started, Undecided

\* The consumer moves on to where it has not decided, and has written a state.
LEMMA UndecidedWrites ==
  ASSUME IInv, StateInv, Undecided, UNCHANGED accepted,
         NEW t \in Task, NEW s \in TaskStates \ {"NONE", "PENDING"},
         UpdateTaskState(t, s), s = "SUCCEEDED" => Carried(t)
  PROVE  StateInv'
<1>1. Effects BY UpdateEffects
<1>2. task' = [task EXCEPT ![t] = s] /\ stock' = stock BY DEF UpdateTaskState
<1>3. Advance BY <1>2 DEF Advance, Started, IInv, DbOK
<1>4. DecisionOK' BY DEF Undecided, DecisionOK
<1> QED BY <1>1, <1>2, <1>3, <1>4, AdvanceKeeps DEF StateInv

LEMMA ReceiveApplicationState ==
  ASSUME IInv, StateInv, NEW m \in Applications, ReceiveApplication(m)
  PROVE  StateInv'
<1>1. UNCHANGED <<task, stock, accepted>> BY DEF ReceiveApplication, db
<1>2. OrdersOK' /\ CompletedOK' /\ AcceptedOK'
  BY <1>1 DEF StateInv, OrdersOK, CompletedOK, AcceptedOK, Started
<1>3. CASE /\ task[m.task] # "NONE"
           /\ consumer' = [pc |-> "approve", msg |-> m, next |-> 1, seen |-> task[m.task]]
  BY <1>1, <1>2, <1>3 DEF StateInv, DecisionOK, Started
<1>4. CASE consumer' = [pc |-> "reply", msg |-> m, ok |-> FALSE]
  BY <1>2, <1>4 DEF StateInv, DecisionOK
<1> QED BY <1>3, <1>4 DEF ReceiveApplication, ConsumerGoto

\* While the goods of the request are under way, the task is not done.
LEMMA ApproveItemState ==
  ASSUME IInv, StateInv, ApproveItem
  PROVE  StateInv' /\ task' = task
<1>1. PICK m, n, item : m = consumer.msg /\ n = consumer.next /\ item = m.items[n]
  OBVIOUS
<1>2. consumer \in [pc : {"approve"}, msg : Applications, next : Nat \ {0}, seen : TaskStates]
  BY ConsumerRecord DEF ApproveItem, IInv, MemoryOK
<1>3. /\ m \in Applications /\ ValidApplication(m)
      /\ n \in Nat \ {0} /\ n <= Len(m.items)
  BY <1>1, <1>2 DEF IInv, Knows, ConsumerKnows
<1>4. m.task \in Task /\ n \in 1..Len(m.items) /\ item \in Items /\ item.quantity > 0
  BY <1>1, <1>3, ApplicationFields DEF ValidApplication
<1>5. Effects /\ accepted' = accepted
  BY ApproveItemPreserves DEF ApproveItem
<1>6. consumer.seen # "PENDING" => Started(m.task)
  BY <1>1 DEF ApproveItem, StateInv, DecisionOK
<1>7. CASE /\ ApproveGoodsAllocation(m, item)
           /\ consumer' = IF n < Len(m.items) THEN [consumer EXCEPT !.next = @ + 1]
                                              ELSE AfterApproval(m, consumer.seen)
  <2>1. PICK row : row = stock[m.task][item.good] OBVIOUS
  <2>2. item.good \in Good /\ item.quantity \in Nat \ {0} /\ row \in Rows
    <3>1. item.good \in Good /\ item.quantity \in 0..MaxQuantity BY <1>4 DEF Items
    <3> QED BY <1>4, <2>1, <3>1, ConstantsAssumption DEF IInv, DbOK
  <2>3. /\ task' = task
        /\ \A t \in Task, g \in Good : stock'[t][g].completed = stock[t][g].completed
        /\ stock'[m.task][item.good].in_progress = row.in_progress + item.quantity
    BY <1>4, <1>7, <2>1, <2>2 DEF ApproveGoodsAllocation, IInv, DbOK, Rows
  <2>4. ~AllDone(m.task)'
    <3>1. row.in_progress \in Nat BY <2>2 DEF Rows
    <3>2. stock'[m.task][item.good].in_progress # 0 BY <2>2, <2>3, <3>1
    <3> QED BY <2>2, <3>2 DEF AllDone
  <2>5. OrdersOK' /\ CompletedOK' /\ AcceptedOK'
    BY <1>5, <2>3, AdvanceKeeps DEF Advance
  <2>6. CASE consumer' = [consumer EXCEPT !.next = @ + 1]
    <3>1. consumer'.pc = "approve" /\ consumer'.msg = m /\ consumer'.seen = consumer.seen
      BY <1>1, <1>2, <2>6
    <3>2. DecisionOK' BY <1>6, <2>3, <3>1 DEF DecisionOK, Started
    <3> QED BY <2>3, <2>5, <3>2 DEF StateInv
  <2>7. CASE consumer' = [pc |-> "run", msg |-> m]
    <3>1. DecisionOK' BY <2>4, <2>7 DEF DecisionOK, AllDone
    <3> QED BY <2>3, <2>5, <3>1 DEF StateInv
  <2>8. CASE /\ consumer' = [pc |-> "reply", msg |-> m, ok |-> TRUE]
             /\ consumer.seen \notin {"PENDING", "ACCEPTED"}
    <3>1. DecisionOK' BY <1>6, <2>3, <2>8 DEF DecisionOK, Started
    <3> QED BY <2>3, <2>5, <3>1 DEF StateInv
  <2> QED BY <1>7, <2>6, <2>7, <2>8 DEF AfterApproval
<1>8. CASE consumer' = [pc |-> "reply", msg |-> m, ok |-> FALSE] /\ UNCHANGED db
  <2>1. UNCHANGED <<task, stock>> BY <1>8 DEF db
  <2>2. OrdersOK' /\ CompletedOK' /\ AcceptedOK'
    BY <1>5, <2>1 DEF StateInv, OrdersOK, CompletedOK, AcceptedOK, Started
  <2>3. DecisionOK' BY <1>8 DEF DecisionOK
  <2> QED BY <2>1, <2>2, <2>3 DEF StateInv
<1> QED BY <1>1, <1>7, <1>8 DEF ApproveItem, ConsumerGoto

\* RUNNING is written over whatever the state has become, but not over that of a task that
\* is carried: what was just granted is still under way.
LEMMA StartRunningState ==
  ASSUME IInv, StateInv, StartRunning
  PROVE  StateInv' /\ \A t \in Task : AllDone(t) => task'[t] = task[t]
<1>1. PICK m : m = consumer.msg OBVIOUS
<1>2. m \in Applications
  BY <1>1, ConsumerRecord DEF StartRunning, IInv, MemoryOK
<1>3. m.task \in Task BY <1>2, ApplicationFields
<1>4. /\ Effects /\ accepted' = accepted /\ stock' = stock
      /\ task' = [task EXCEPT ![m.task] = "RUNNING"]
      /\ consumer' = [pc |-> "reply", msg |-> m, ok |-> TRUE]
  BY <1>1, StartRunningPreserves DEF StartRunning, UpdateTaskState, ConsumerGoto
<1>5. ~AllDone(m.task) BY <1>1 DEF StartRunning, StateInv, DecisionOK
<1>6. /\ task'[m.task] = "RUNNING"
      /\ \A t \in Task \ {m.task} : task'[t] = task[t]
  BY <1>3, <1>4 DEF IInv, DbOK
<1>7. Advance BY <1>6 DEF Advance, Started
<1>8. DecisionOK' BY <1>4, <1>6 DEF DecisionOK, Started
<1> QED BY <1>4, <1>5, <1>6, <1>7, <1>8, AdvanceKeeps DEF StateInv

LEMMA ReplyApplicationState ==
  ASSUME IInv, StateInv, ReplyApplication
  PROVE  StateInv' /\ task' = task
<1>1. UNCHANGED <<task, stock>> BY DEF ReplyApplication, db
<1>2. OrdersOK' /\ CompletedOK'
  BY <1>1 DEF StateInv, OrdersOK, CompletedOK, Started
<1>3. AcceptedOK'
  BY <1>1 DEF ReplyApplication, StateInv, AcceptedOK, DecisionOK, Started
<1>4. DecisionOK' BY DEF ReplyApplication, ConsumerGoto, DecisionOK
<1> QED BY <1>1, <1>2, <1>3, <1>4 DEF StateInv

LEMMA ReceiveReportState ==
  ASSUME IInv, StateInv, NEW m \in Reports, ReceiveReport(m)
  PROVE  StateInv'
<1>1. UNCHANGED <<task, stock, alloc, crew, accepted>> BY DEF ReceiveReport, db
<1>2. CASE m.event \in CarryEvents /\ m.request # NoRequest
  <2>1. consumer' = [pc |-> "settle", msg |-> m]
    BY <1>2 DEF ReceiveReport, ConsumerGoto, AfterInsert, CarryEvents
  <2>2. \E a \in accepted' : Key(a) = Key(m) BY <1>1, <1>2 DEF ReceiveReport
  <2>3. DecisionOK' BY <2>1, <2>2 DEF DecisionOK, Key
  <2> QED BY <1>1, <2>3 DEF StateInv, OrdersOK, CompletedOK, AcceptedOK, Started
<1>3. CASE ~(m.event \in CarryEvents /\ m.request # NoRequest)
  <2>1. Undecided
    BY <1>3 DEF ReceiveReport, ConsumerGoto, AfterInsert, Finish, Undecided
  <2> QED BY <1>1, <2>1, UndecidedKeeps DEF db
<1> QED BY <1>2, <1>3

\* Only a request that was granted is settled, so that its task has started.
LEMMA SettleClaimState ==
  ASSUME IInv, StateInv, SettleClaim
  PROVE  StateInv' /\ task' = task
<1>1. PICK m : m = consumer.msg OBVIOUS
<1>2. PICK a \in accepted : Key(a) = Key(m)
  BY <1>1 DEF SettleClaim, StateInv, DecisionOK
<1>3. /\ m \in Reports /\ m.request # NoRequest
  BY <1>1, ConsumerRecord DEF SettleClaim, IInv, MemoryOK, Knows, ConsumerKnows
<1>4. Effects /\ accepted' = accepted BY SettleClaimPreserves DEF SettleClaim
<1>5. Undecided
  BY DEF SettleClaim, ConsumerGoto, Finish, Undecided
<1>6. CASE SettleGoodsAllocation(m)
  <2>1. /\ a \in Applications /\ AllBooked(a) /\ Started(a.task)
    BY DEF IInv, MemoryOK, Knows, AcceptedKnows, StateInv, AcceptedOK
  <2>2. 1 \in 1..Len(a.items)
    BY <2>1, ApplicationFields DEF AllBooked, ValidApplication
  <2>3. alloc[Key(m)].task = a.task
    BY <1>2, <2>1, <2>2 DEF AllBooked, Booked
  <2>4. /\ task' = task
        /\ \A t \in Task, g \in Good :
             t # a.task => stock'[t][g].completed = stock[t][g].completed
    BY <1>6, <2>3 DEF SettleGoodsAllocation, IInv, DbOK
  <2>5. OrdersOK' /\ CompletedOK' /\ AcceptedOK'
    BY <1>4, <2>1, <2>4, AdvanceKeeps DEF Advance
  <2>6. DecisionOK' BY <1>5 DEF Undecided, DecisionOK
  <2> QED BY <2>4, <2>5, <2>6 DEF StateInv
<1>7. CASE UNCHANGED db
  BY <1>4, <1>5, <1>7, UndecidedKeeps DEF db
<1> QED BY <1>1, <1>6, <1>7 DEF SettleClaim

\* What is read as PENDING has nothing carried, and so is not done when ACCEPTED is written.
LEMMA ReadForAcceptState ==
  ASSUME IInv, StateInv, ReadForAccept
  PROVE  StateInv'
<1>1. PICK m : m = consumer.msg OBVIOUS
<1>2. /\ consumer \in [pc : {"settle", "read", "accept", "check", "succeed"}, msg : Reports]
      /\ m.task \in Task
  BY <1>1, ConsumerRecord, ReportFields DEF ReadForAccept, IInv, MemoryOK
<1>3. UNCHANGED <<task, stock, alloc, crew, accepted>> BY DEF ReadForAccept, db
<1>4. CASE task[m.task] = "PENDING" /\ consumer' = [consumer EXCEPT !.pc = "accept"]
  <2>1. PICK g \in Good : stock[m.task][g].total # 0
    BY <1>2, <1>4 DEF StateInv, OrdersOK
  <2>2. stock[m.task][g].completed = 0
    BY <1>2, <1>4 DEF StateInv, CompletedOK, Started
  <2>3. /\ stock[m.task][g] \in Rows
        /\ stock[m.task][g].total = stock[m.task][g].pending
             + stock[m.task][g].in_progress + stock[m.task][g].completed
    BY <1>2 DEF IInv, DbOK, CountersMatchRows
  <2>4. ~AllDone(m.task)
    BY <2>1, <2>2, <2>3 DEF AllDone, Rows
  <2>5. consumer'.pc = "accept" /\ consumer'.msg = m BY <1>1, <1>2, <1>4
  <2>6. DecisionOK' BY <1>3, <1>4, <2>4, <2>5 DEF DecisionOK, AllDone
  <2> QED BY <1>3, <2>6 DEF StateInv, OrdersOK, CompletedOK, AcceptedOK, Started
<1>5. CASE consumer' = Finish(m)
  <2>1. Undecided BY <1>5 DEF Finish, Undecided
  <2> QED BY <1>3, <2>1, UndecidedKeeps DEF db
<1> QED BY <1>1, <1>4, <1>5 DEF ReadForAccept, ConsumerGoto

LEMMA WriteAcceptedState ==
  ASSUME IInv, StateInv, WriteAccepted
  PROVE  StateInv' /\ \A t \in Task : AllDone(t) => task'[t] = task[t]
<1>1. PICK m : m = consumer.msg OBVIOUS
<1>2. m.task \in Task
  BY <1>1, ConsumerRecord, ReportFields DEF WriteAccepted, IInv, MemoryOK
<1>3. Undecided BY DEF WriteAccepted, ConsumerGoto, Finish, Undecided
<1>4. UpdateTaskState(m.task, "ACCEPTED") /\ UNCHANGED accepted
  BY <1>1 DEF WriteAccepted
<1>5. StateInv'
  BY <1>2, <1>3, <1>4, UndecidedWrites DEF TaskStates, Active
<1>6. ~AllDone(m.task) BY <1>1 DEF WriteAccepted, StateInv, DecisionOK
<1> QED BY <1>2, <1>4, <1>5, <1>6 DEF UpdateTaskState, IInv, DbOK

LEMMA SucceedState ==
  ASSUME IInv, StateInv, CheckAllDone \/ WriteSucceeded
  PROVE  StateInv' /\ \A t \in Task : task[t] \in Terminal => task'[t] \in Terminal
<1>1. PICK m : m = consumer.msg OBVIOUS
<1>2. /\ consumer \in [pc : {"settle", "read", "accept", "check", "succeed"}, msg : Reports]
      /\ m.task \in Task
  BY <1>1, ConsumerRecord, ReportFields DEF CheckAllDone, WriteSucceeded, IInv, MemoryOK
<1>3. CASE CheckAllDone
  <2>1. Undecided
    <3>1. CASE consumer' = [consumer EXCEPT !.pc = "succeed"]
      BY <1>2, <3>1 DEF Undecided
    <3>2. CASE consumer' = Finish(m) BY <3>2 DEF Finish, Undecided
    <3> QED BY <1>1, <1>3, <3>1, <3>2 DEF CheckAllDone, ConsumerGoto
  <2> QED BY <1>3, <2>1, UndecidedKeeps DEF CheckAllDone, db
<1>4. CASE WriteSucceeded
  <2>1. Undecided BY <1>4 DEF WriteSucceeded, ConsumerGoto, Finish, Undecided
  <2>2. Carried(m.task)
    BY <1>1, <1>4 DEF WriteSucceeded, IInv, Knows, ConsumerKnows
  <2>3. UpdateTaskState(m.task, "SUCCEEDED") /\ UNCHANGED accepted
    BY <1>1, <1>4 DEF WriteSucceeded
  <2>4. StateInv'
    BY <1>2, <2>1, <2>2, <2>3, UndecidedWrites DEF TaskStates, Terminal
  <2> QED BY <1>2, <2>3, <2>4 DEF UpdateTaskState, Terminal, IInv, DbOK
<1> QED BY <1>3, <1>4


\* A terminal state of a task that is carried stays terminal.
EndedStays == \A t \in Task : AllDone(t) /\ task[t] \in Terminal => task'[t] \in Terminal

LEMMA OthersState ==
  ASSUME IInv, StateInv, (\E w \in Worker : WorkerStep(w)) \/ MonitorStep
  PROVE  StateInv' /\ EndedStays
<1>1. ASSUME NEW w \in Worker, CreateInsert(w)
      PROVE  StateInv' /\ EndedStays
  BY <1>1, CreateState DEF EndedStays
<1>2. ASSUME NEW w \in Worker, CancelUpdate(w)
      PROVE  StateInv' /\ EndedStays
  <2>1. worker[w].task \in Task
    BY <1>2, WorkerRecord DEF CancelUpdate, IInv, MemoryOK
  <2>2. UpdateTaskState(worker[w].task, "CANCELLED") /\ UNCHANGED <<consumer, accepted>>
    BY <1>2 DEF CancelUpdate
  <2>3. StateInv' BY <2>1, <2>2, OverwriteState DEF TaskStates, Terminal
  <2> QED BY <2>1, <2>2, <2>3 DEF UpdateTaskState, EndedStays, Terminal, IInv, DbOK
<1>3. CASE InterruptTask
  <2>1. monitor.task \in Task
    BY <1>3, MonitorRecord DEF InterruptTask, IInv, MemoryOK
  <2>2. UpdateTaskState(monitor.task, "INTERRUPTED") /\ UNCHANGED <<consumer, accepted>>
    BY <1>3 DEF InterruptTask
  <2>3. StateInv' BY <2>1, <2>2, OverwriteState DEF TaskStates, Terminal
  <2> QED BY <2>1, <2>2, <2>3 DEF UpdateTaskState, EndedStays, Terminal, IInv, DbOK
<1>4. CASE \/ \E w \in Worker, r \in Robot : PublishCommand(w, r)
           \/ Tick \/ MonitorBuildState \/ MonitorPublish
           \/ \E t \in Task : TakeTask(t)
           \/ \E r \in Robot : ProbeRobot(r)
  <2>1. UNCHANGED <<db, consumer, accepted>>
    BY <1>4 DEF PublishCommand, Tick, MonitorBuildState, MonitorPublish, TakeTask, ProbeRobot
  <2> QED BY <2>1, QuietState DEF EndedStays
<1> QED BY <1>1, <1>2, <1>3, <1>4 DEF WorkerStep, MonitorStep

LEMMA ConsumerState ==
  ASSUME IInv, StateInv, ConsumerStep
  PROVE  StateInv' /\ EndedStays
<1>1. CASE BuildState \/ PublishState \/ PublishAck
  <2>1. Undecided
    BY <1>1 DEF BuildState, PublishState, PublishAck, ConsumerGoto, AfterState, Idle, Undecided
  <2>2. UNCHANGED <<db, accepted>> BY <1>1 DEF BuildState, PublishState, PublishAck
  <2> QED BY <2>1, <2>2, UndecidedKeeps DEF EndedStays, db
<1>2. CASE ReadForAccept
  BY <1>2, ReadForAcceptState DEF EndedStays, ReadForAccept, db
<1>3. CASE StartRunning \/ WriteAccepted
  BY <1>3, StartRunningState, WriteAcceptedState DEF EndedStays
<1>4. CASE ApproveItem \/ ReplyApplication \/ SettleClaim
  BY <1>4, ApproveItemState, ReplyApplicationState, SettleClaimState DEF EndedStays
<1>5. CASE CheckAllDone \/ WriteSucceeded
  BY <1>5, SucceedState DEF EndedStays
<1> QED BY <1>1, <1>2, <1>3, <1>4, <1>5 DEF ConsumerStep

LEMMA ArrivalState ==
  ASSUME IInv, StateInv, Arrival \/ CrashRestart
  PROVE  StateInv' /\ EndedStays
<1>1. task' = task
  BY DEF Arrival, CrashRestart, CancelCheck, CreateCheck, ReceiveApplication, ReceiveReport,
     RegisterRobot, FiveMinutesPass, RobotStatus, SetFleet, db
<1>2. CASE CrashRestart
  <2>1. Undecided BY <1>2 DEF CrashRestart, Idle, Undecided
  <2> QED BY <1>1, <1>2, <2>1, UndecidedKeeps DEF CrashRestart, EndedStays
<1>3. CASE \/ \E m \in Applications : ReceiveApplication(m)
           \/ \E m \in Reports : ReceiveReport(m)
  BY <1>1, <1>3, ReceiveApplicationState, ReceiveReportState DEF EndedStays
<1>4. CASE \/ \E w \in Worker, t \in Task :
                \/ CancelCheck(w, t)
                \/ \E robots \in Crews, o \in Orders : CreateCheck(w, t, robots, o)
           \/ \E r \in Connecting : RegisterRobot(r) \/ FiveMinutesPass(r)
           \/ \E r \in Connecting, s \in FleetStates : RobotStatus(r, s)
  <2>1. UNCHANGED <<db, consumer, accepted>>
    BY <1>4 DEF CancelCheck, CreateCheck, RegisterRobot, FiveMinutesPass, RobotStatus, SetFleet
  <2> QED BY <1>1, <2>1, QuietState DEF EndedStays
<1> QED BY <1>2, <1>3, <1>4 DEF Arrival

LEMMA StateStep == IInv /\ StateInv /\ [Next]_vars => StateInv' /\ EndedStays
<1>1. IInv /\ StateInv /\ UNCHANGED vars => StateInv' /\ EndedStays
  BY QuietState DEF vars, EndedStays
<1> QED BY <1>1, OthersState, ConsumerState, ArrivalState DEF Next

LEMMA StateInvariance == Spec => []StateInv
<1>1. Init => StateInv
  BY DEF Init, NoRow, Idle, StateInv, OrdersOK, CompletedOK, AcceptedOK, DecisionOK
<1> QED BY <1>1, StateStep, Invariance, PTL DEF Spec

\* A terminal state may be overwritten by what a thread read before (TerminalNotRolledBack
\* is violated), but not that of a task whose goods are all carried: such a task stays
\* carried and ended, whatever goods requests, reports, cancels, ticks and crashes follow.
\* RUNNING is written only while the goods that were just granted are under way, and ACCEPTED
\* only if the task was pending when it was read, before anything of it had been carried.
THEOREM CarriedTaskStaysEnded ==
  Spec => [][\A t \in Task : Carried(t) /\ task[t] \in Terminal =>
                               (Carried(t) /\ task[t] \in Terminal)']_vars
<1>1. IInv /\ StateInv /\ [Next]_vars =>
        [\A t \in Task : Carried(t) /\ task[t] \in Terminal =>
                           (Carried(t) /\ task[t] \in Terminal)']_vars
  <2> SUFFICES ASSUME IInv, StateInv, Next, NEW t \in Task, Carried(t), task[t] \in Terminal
               PROVE  Carried(t)' /\ task'[t] \in Terminal
    OBVIOUS
  <2>1. Carried(t)' BY StepPreserves, CarriedKept DEF Effects
  <2>2. task'[t] \in Terminal BY StateStep DEF EndedStays, Carried
  <2> QED BY <2>1, <2>2
<1> QED BY <1>1, Invariance, StateInvariance, PTL DEF Spec

==============================================================================
