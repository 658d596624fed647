------------------------------ MODULE EdgeTask -------------------------------
(***************************************************************************)
(* The transport tasks of the edge server: TaskService over the SQLite     *)
(* task tables, called by three kinds of threads.                          *)
(*                                                                         *)
(*   Worker    HTTP threads of the API server: create and cancel.          *)
(*   consumer  the one thread that takes messages off the MQTT queue:      *)
(*             goods requests, task status reports, robot registration     *)
(*             and robot status.                                           *)
(*   monitor   the timer thread that interrupts tasks whose robots have    *)
(*             all failed (EdgeServerApp::checkAmrHeartbeat).              *)
(*                                                                         *)
(* TaskService holds no lock.  Every method of SQLiteDB holds one for its  *)
(* whole body, so that a database call is one atomic step here and any     *)
(* other thread may run between two of them.  What a thread carries from   *)
(* one step to the next is its record: "pc" names the call it makes next.  *)
(*                                                                         *)
(* Messages come from the environment: any report or goods request may     *)
(* arrive at any time and any number of times (MQTT QoS 1).  The database  *)
(* survives a crash; everything else is lost.                              *)
(***************************************************************************)
EXTENDS Naturals, Sequences, FiniteSets

CONSTANTS
  Task, Robot, Good,
  Request,       \* request identifiers an AMR puts in its goods requests
  NoRequest,     \* the empty request_id
  NoAck,         \* no report to acknowledge
  Worker,        \* HTTP worker threads
  Connecting,    \* the robots that may come online
  MaxQuantity,   \* largest quantity in an order or a goods request
  Crews,         \* the robot_ids a create request may name
  Orders,        \* the goods a create request may name
  Applications,  \* the goods requests the AMRs may send
  Reports,       \* the task status reports the AMRs may send
  MaxCrashes     \* bound on the crashes of a behaviour

Claim == Request \X Robot

Active   == {"PENDING", "ACCEPTED", "RUNNING"}
Terminal == {"SUCCEEDED", "FAILED", "CANCELLED", "INTERRUPTED"}
TaskStates == {"NONE"} \cup Active \cup Terminal   \* NONE: no such row

CarryEvents == {"CARRY_COMPLETED", "CARRY_ABORTED"}
ReportEvents == CarryEvents \cup {"STATUS_ACCEPTED", "STATUS_OTHER"}

NoOrder == [g \in Good |-> 0]
Items   == [good : Good, quantity : 0..MaxQuantity]

ASSUME ConstantsAssumption ==
  /\ MaxQuantity \in Nat
  /\ MaxCrashes \in Nat
  /\ IsFiniteSet(Request) /\ IsFiniteSet(Robot)
  /\ NoRequest \notin Request
  /\ NoAck \notin Reports
  /\ Connecting \subseteq Robot
  /\ Crews \subseteq (SUBSET Robot) \ {{}}
  /\ Orders \subseteq [Good -> 0..MaxQuantity] \ {NoOrder}
  /\ Applications \subseteq
       [request : Request, robot : Robot, task : Task, items : Seq(Items)]
  /\ Reports \subseteq
       [event : ReportEvents, robot : Robot, task : Task,
        request : Request \cup {NoRequest}]

VARIABLES
  \* The database.
  task,       \* tbl_task.state, "NONE" where there is no row
  crew,       \* tbl_task.robot_ids
  stock,      \* tbl_task_goods_status; total 0 where there is no row
  alloc,      \* tbl_task_goods_allocation by its key <<request_id, robot_id>>
  \* The memory of the process.
  fleet,      \* RobotManager: what getRobotStatus says of each robot
  worker, consumer, monitor,
  accepted,   \* the goods requests that were answered accepted=true
  crashes     \* crashes so far

db   == <<task, crew, stock, alloc>>
vars == <<db, fleet, worker, consumer, monitor, accepted, crashes>>

L == INSTANCE GoodsLedger WITH
       order <- [t \in Task |-> [g \in Good |-> stock[t][g].total]],
       claim <- alloc

Idle == [pc |-> "idle"]

------------------------------------------------------------------------------
(***************************************************************************)
(* Database calls.                                                         *)
(***************************************************************************)

NoRow == [total |-> 0, pending |-> 0, in_progress |-> 0, completed |-> 0]
Row(n) == [total |-> n, pending |-> n, in_progress |-> 0, completed |-> 0]

\* SQLiteDB::CreateTask, one transaction; the primary key refuses a second row.
CreateTask(t, robots, o) ==
  /\ task[t] = "NONE"
  /\ task'  = [task EXCEPT ![t] = "PENDING"]
  /\ crew'  = [crew EXCEPT ![t] = robots]
  /\ stock' = [stock EXCEPT ![t] = [g \in Good |-> Row(o[g])]]
  /\ UNCHANGED alloc

\* SQLiteDB::UpdateTaskState and UpdateTaskStateWithEvent: an UPDATE on the
\* task's row with no condition on the state it overwrites.
UpdateTaskState(t, s) ==
  /\ task' = [task EXCEPT ![t] = s]
  /\ UNCHANGED <<crew, stock, alloc>>

\* SQLiteDB::GetTaskGoodsStatus and the loop over its rows that decides
\* whether the whole task has been carried.
AllDone(t) ==
  \A g \in Good : stock[t][g].pending = 0 /\ stock[t][g].in_progress = 0

Key(m) == <<m.request, m.robot>>

\* Fault: the UPDATE without "AND pending_quantity >= ?".
CanApproveAnyQuantity(m, item) ==
  /\ stock[m.task][item.good].total > 0
  /\ alloc[Key(m)] = L!NoClaim

\* Fault: the allocation table without UNIQUE(request_id, robot_id), read by key.
CanApproveRepeat(m, item) ==
  /\ stock[m.task][item.good].total > 0
  /\ stock[m.task][item.good].pending >= item.quantity

\* The two statements of SQLiteDB::ApproveGoodsAllocation succeed: the UPDATE
\* finds enough pending units, and the INSERT finds its key free.
CanApprove(m, item) ==
  /\ stock[m.task][item.good].total > 0
  /\ stock[m.task][item.good].pending >= item.quantity
  /\ alloc[Key(m)] = L!NoClaim

ApproveGoodsAllocation(m, item) ==
  /\ stock' = [stock EXCEPT
       ![m.task][item.good].pending     = @ - item.quantity,
       ![m.task][item.good].in_progress = @ + item.quantity]
  /\ alloc' = [alloc EXCEPT ![Key(m)] =
       [state |-> "IN_PROGRESS", task |-> m.task,
        good |-> item.good, quantity |-> item.quantity]]
  /\ UNCHANGED <<task, crew>>

\* Fault: the units of an aborted claim are counted as completed.
SettleAbortedAsCompleted(m) ==
  LET row == alloc[Key(m)]
  IN  /\ alloc' = [alloc EXCEPT ![Key(m)].state =
                     IF m.event = "CARRY_COMPLETED" THEN "COMPLETED" ELSE "ABORTED"]
      /\ stock' = [stock EXCEPT
           ![row.task][row.good].in_progress = @ - row.quantity,
           ![row.task][row.good].completed   = @ + row.quantity]
      /\ UNCHANGED <<task, crew>>

\* SQLiteDB::SettleGoodsAllocation: only a row in progress can be settled, and
\* its units move to completed or back to pending in the same transaction.
CanSettle(m) == alloc[Key(m)].state = "IN_PROGRESS"

SettleGoodsAllocation(m) ==
  LET row == alloc[Key(m)]
      done == m.event = "CARRY_COMPLETED"
  IN  /\ alloc' = [alloc EXCEPT ![Key(m)].state =
                     IF done THEN "COMPLETED" ELSE "ABORTED"]
      /\ stock' = [stock EXCEPT
           ![row.task][row.good].in_progress = @ - row.quantity,
           ![row.task][row.good].completed = IF done THEN @ + row.quantity ELSE @,
           ![row.task][row.good].pending   = IF done THEN @ ELSE @ + row.quantity]
      /\ UNCHANGED <<task, crew>>
------------------------------------------------------------------------------
(***************************************************************************)
(* HTTP workers.  A publish changes nothing in the edge server: it is a    *)
(* step of its own because the process may stop, and other threads may     *)
(* run, between two of them.                                               *)
(***************************************************************************)

WorkerGoto(w, next) == worker' = [worker EXCEPT ![w] = next]

\* TaskService::createTask up to TaskExists.
CreateCheck(w, t, robots, o) ==
  /\ worker[w] = Idle
  /\ task[t] = "NONE"
  /\ WorkerGoto(w, [pc |-> "insert", task |-> t, crew |-> robots, order |-> o])
  /\ UNCHANGED <<db, fleet, consumer, monitor, accepted, crashes>>

\* Fault: the result of CreateTask is not looked at.
CreateInsertUnchecked(w) ==
  /\ worker[w].pc = "insert"
  /\ LET job == worker[w] IN
       /\ \/ CreateTask(job.task, job.crew, job.order)
          \/ task[job.task] # "NONE" /\ UNCHANGED db
       /\ WorkerGoto(w, [pc |-> "assign", task |-> job.task, todo |-> job.crew])
  /\ UNCHANGED <<fleet, consumer, monitor, accepted, crashes>>

\* The call of CreateTask; if another worker inserted the task meanwhile the
\* INSERT fails and the request is refused with 50001.
CreateInsert(w) ==
  /\ worker[w].pc = "insert"
  /\ LET job == worker[w] IN
       \/ /\ CreateTask(job.task, job.crew, job.order)
          /\ WorkerGoto(w, [pc |-> "assign", task |-> job.task, todo |-> job.crew])
       \/ /\ task[job.task] # "NONE"
          /\ WorkerGoto(w, Idle)
          /\ UNCHANGED db
  /\ UNCHANGED <<fleet, consumer, monitor, accepted, crashes>>

\* TaskService::cancelTask: the state is read here and overwritten later.
CancelCheck(w, t) ==
  /\ worker[w] = Idle
  /\ task[t] \notin Terminal \cup {"NONE"}
  /\ WorkerGoto(w, [pc |-> "cancel", task |-> t])
  /\ UNCHANGED <<db, fleet, consumer, monitor, accepted, crashes>>

CancelUpdate(w) ==
  /\ worker[w].pc = "cancel"
  /\ UpdateTaskState(worker[w].task, "CANCELLED")
  /\ WorkerGoto(w, [pc |-> "notify", task |-> worker[w].task,
                    todo |-> crew[worker[w].task]])
  /\ UNCHANGED <<fleet, consumer, monitor, accepted, crashes>>

\* One publish of TASK_ASSIGN (pc "assign") or TASK_CANCEL (pc "notify") to a
\* robot of the task.
PublishCommand(w, r) ==
  /\ worker[w].pc \in {"assign", "notify"}
  /\ r \in worker[w].todo
  /\ LET rest == worker[w].todo \ {r} IN
       WorkerGoto(w, IF rest = {} THEN Idle ELSE [worker[w] EXCEPT !.todo = rest])
  /\ UNCHANGED <<db, fleet, consumer, monitor, accepted, crashes>>

------------------------------------------------------------------------------
(***************************************************************************)
(* The MQTT consumer thread.                                               *)
(***************************************************************************)

ConsumerGoto(next) == consumer' = next

\* Back in the report handler, which does not look at what handleAmrTaskStatus
\* returned: the task's state is published, and the report is acknowledged,
\* whatever it is and whether or not it was settled.
Finish(m) == [pc |-> "build", task |-> m.task, ack |-> m]

ValidApplication(m) ==
  /\ m.items # <<>>
  /\ \A i \in 1..Len(m.items) : m.items[i].quantity > 0

\* TaskService::handleGoodsApply up to GetTask; the task's state is kept in
\* the local variable "task" for the decision at the end.
ReceiveApplication(m) ==
  /\ consumer = Idle
  /\ ConsumerGoto(
       IF ValidApplication(m) /\ task[m.task] # "NONE" /\ m.robot \in crew[m.task]
       THEN [pc |-> "approve", msg |-> m, next |-> 1, seen |-> task[m.task]]
       ELSE [pc |-> "reply", msg |-> m, ok |-> FALSE])
  /\ UNCHANGED <<db, fleet, worker, monitor, accepted, crashes>>

\* What follows the approval of the last good.
AfterApproval(m, seen) ==
  IF seen \in {"PENDING", "ACCEPTED"} THEN [pc |-> "run", msg |-> m]
  ELSE [pc |-> "reply", msg |-> m, ok |-> TRUE]

\* Fault: a good that cannot be approved is passed over.
ApproveItemOrSkip ==
  /\ consumer.pc = "approve"
  /\ LET m == consumer.msg
         item == m.items[consumer.next]
     IN  /\ \/ CanApprove(m, item) /\ ApproveGoodsAllocation(m, item)
            \/ ~CanApprove(m, item) /\ UNCHANGED db
         /\ ConsumerGoto(IF consumer.next < Len(m.items)
                         THEN [consumer EXCEPT !.next = @ + 1]
                         ELSE AfterApproval(m, consumer.seen))
  /\ UNCHANGED <<fleet, worker, monitor, accepted, crashes>>

\* One turn of the loop over request.goods.  Units approved by an earlier turn
\* stay approved when a later one fails.
ApproveItem ==
  /\ consumer.pc = "approve"
  /\ LET m == consumer.msg
         item == m.items[consumer.next]
     IN  \/ /\ CanApprove(m, item)
            /\ ApproveGoodsAllocation(m, item)
            /\ ConsumerGoto(
                 IF consumer.next < Len(m.items)
                 THEN [consumer EXCEPT !.next = @ + 1]
                 ELSE AfterApproval(m, consumer.seen))
         \/ /\ ~CanApprove(m, item)
            /\ ConsumerGoto([pc |-> "reply", msg |-> m, ok |-> FALSE])
            /\ UNCHANGED db
  /\ UNCHANGED <<fleet, worker, monitor, accepted, crashes>>

\* "first goods approved": the write that follows the stale read.
StartRunning ==
  /\ consumer.pc = "run"
  /\ UpdateTaskState(consumer.msg.task, "RUNNING")
  /\ ConsumerGoto([pc |-> "reply", msg |-> consumer.msg, ok |-> TRUE])
  /\ UNCHANGED <<fleet, worker, monitor, accepted, crashes>>

\* The goods response; the task's state is published next.
ReplyApplication ==
  /\ consumer.pc = "reply"
  /\ accepted' = IF consumer.ok THEN accepted \cup {consumer.msg} ELSE accepted
  /\ ConsumerGoto([pc |-> "build", task |-> consumer.msg.task, ack |-> NoAck])
  /\ UNCHANGED <<db, fleet, worker, monitor, crashes>>

\* Fault: only completed carries are settled.
AfterInsertNoAbort(m) ==
  CASE m.event = "CARRY_COMPLETED" /\ m.request # NoRequest -> [pc |-> "settle", msg |-> m]
    [] m.event = "STATUS_ACCEPTED" -> [pc |-> "read", msg |-> m]
    [] OTHER -> Finish(m)

\* What follows InsertAmrTaskStatusEvent in TaskService::handleAmrTaskStatus.
\* That call is INSERT OR IGNORE: it succeeds for a duplicate too.
AfterInsert(m) ==
  CASE m.event \in CarryEvents /\ m.request # NoRequest -> [pc |-> "settle", msg |-> m]
    [] m.event = "STATUS_ACCEPTED" -> [pc |-> "read", msg |-> m]
    [] OTHER -> Finish(m)

\* An AMR carries, and so reports on, a claim whose request was answered
\* accepted=true; it may also leave the request_id empty.
ReceiveReport(m) ==
  /\ consumer = Idle
  /\ m.event \in CarryEvents /\ m.request # NoRequest =>
       \E a \in accepted : Key(a) = Key(m)
  /\ ConsumerGoto(AfterInsert(m))
  /\ UNCHANGED <<db, fleet, worker, monitor, accepted, crashes>>

\* SettleGoodsAllocation; when it fails the handler returns at once.
SettleClaim ==
  /\ consumer.pc = "settle"
  /\ LET m == consumer.msg IN
       \/ /\ CanSettle(m)
          /\ SettleGoodsAllocation(m)
          /\ ConsumerGoto(IF m.event = "CARRY_COMPLETED"
                          THEN [pc |-> "check", msg |-> m] ELSE Finish(m))
       \/ /\ ~CanSettle(m)
          /\ ConsumerGoto(Finish(m))
          /\ UNCHANGED db
  /\ UNCHANGED <<fleet, worker, monitor, accepted, crashes>>

\* Fault: the task's state is not looked at before ACCEPTED is written.
ReadForAcceptUnchecked ==
  /\ consumer.pc = "read"
  /\ ConsumerGoto([consumer EXCEPT !.pc = "accept"])
  /\ UNCHANGED <<db, fleet, worker, monitor, accepted, crashes>>

\* GetTask for a first STATUS/ACCEPTED, then the write of ACCEPTED.
ReadForAccept ==
  /\ consumer.pc = "read"
  /\ ConsumerGoto(IF task[consumer.msg.task] = "PENDING"
                  THEN [consumer EXCEPT !.pc = "accept"] ELSE Finish(consumer.msg))
  /\ UNCHANGED <<db, fleet, worker, monitor, accepted, crashes>>

WriteAccepted ==
  /\ consumer.pc = "accept"
  /\ UpdateTaskState(consumer.msg.task, "ACCEPTED")
  /\ ConsumerGoto(Finish(consumer.msg))
  /\ UNCHANGED <<fleet, worker, monitor, accepted, crashes>>

\* Fault: goods still under way are forgotten.
CheckNonePending ==
  /\ consumer.pc = "check"
  /\ LET t == consumer.msg.task IN
       ConsumerGoto(IF task[t] # "NONE" /\ \A g \in Good : stock[t][g].pending = 0
                    THEN [consumer EXCEPT !.pc = "succeed"] ELSE Finish(consumer.msg))
  /\ UNCHANGED <<db, fleet, worker, monitor, accepted, crashes>>

\* GetTask and GetTaskGoodsStatus after a completed carry, then SUCCEEDED.  Two
\* calls, one step: a task never disappears, and only this thread changes the
\* stock of a task that exists.
CheckAllDone ==
  /\ consumer.pc = "check"
  /\ LET t == consumer.msg.task IN
       ConsumerGoto(IF task[t] # "NONE" /\ AllDone(t)
                    THEN [consumer EXCEPT !.pc = "succeed"] ELSE Finish(consumer.msg))
  /\ UNCHANGED <<db, fleet, worker, monitor, accepted, crashes>>

WriteSucceeded ==
  /\ consumer.pc = "succeed"
  /\ UpdateTaskState(consumer.msg.task, "SUCCEEDED")
  /\ ConsumerGoto(Finish(consumer.msg))
  /\ UNCHANGED <<fleet, worker, monitor, accepted, crashes>>

\* After the state message: the ACK of a report.  A goods request has none.
AfterState(ack) == IF ack = NoAck THEN Idle ELSE [pc |-> "ack", ack |-> ack]

\* TaskService::buildTaskStateMessage reads the state; no message is built for
\* an unknown task.
BuildState ==
  /\ consumer.pc = "build"
  /\ ConsumerGoto(
       IF task[consumer.task] # "NONE"
       THEN [pc |-> "publish", task |-> consumer.task,
             seen |-> task[consumer.task], ack |-> consumer.ack]
       ELSE AfterState(consumer.ack))
  /\ UNCHANGED <<db, fleet, worker, monitor, accepted, crashes>>

PublishState ==
  /\ consumer.pc = "publish"
  /\ ConsumerGoto(AfterState(consumer.ack))
  /\ UNCHANGED <<db, fleet, worker, monitor, accepted, crashes>>

PublishAck ==
  /\ consumer.pc = "ack"
  /\ ConsumerGoto(Idle)
  /\ UNCHANGED <<db, fleet, worker, monitor, accepted, crashes>>
------------------------------------------------------------------------------
(***************************************************************************)
(* What the consumer does to the robot registry: registration and status.  *)
(* The state of a robot is abstracted to what checkAmrHeartbeat tells      *)
(* apart.  REGISTERED: online since its registration, no status yet.       *)
(* SILENT: its last status was a normal one, and five minutes have passed. *)
(***************************************************************************)
FleetStates == {"UNKNOWN", "REGISTERED", "NORMAL", "SILENT", "ABNORMAL"}

SetFleet(r, s) ==
  /\ fleet' = [fleet EXCEPT ![r] = s]
  /\ UNCHANGED <<db, worker, consumer, monitor, accepted, crashes>>

\* RobotManager::registerRobot: a known robot keeps its status.
RegisterRobot(r) ==
  consumer = Idle /\ fleet[r] = "UNKNOWN" /\ SetFleet(r, "REGISTERED")

\* RobotManager::updateRobotStatus: the whole status is replaced.
RobotStatus(r, s) ==
  /\ consumer = Idle
  /\ s \in {"NORMAL", "ABNORMAL"} \ {fleet[r]}
  /\ fleet[r] # "UNKNOWN"
  /\ SetFleet(r, s)

\* Five minutes pass without a message.  The monitor compares its clock, in
\* seconds, with the status timestamp: registration stamps seconds, so that a robot
\* which only registered times out; a status message brings the AMR's
\* milliseconds, and "now - timestamp" stays far below zero for ever.
FiveMinutesPass(r) ==
  \/ fleet[r] = "REGISTERED" /\ SetFleet(r, "ABNORMAL")
  \/ fleet[r] = "NORMAL" /\ SetFleet(r, "SILENT")

------------------------------------------------------------------------------
(***************************************************************************)
(* EdgeServerApp::checkAmrHeartbeat, on the task monitor timer.            *)
(***************************************************************************)
MonitorGoto(next) == monitor' = next

\* The monitor turns to its next task, or ends this round.
NextTask(queue) ==
  IF queue = {} THEN Idle ELSE [pc |-> "next", queue |-> queue]

\* GetActiveTasks: the list the whole round works from.
Tick ==
  /\ monitor = Idle
  /\ \E t \in Task : task[t] \in Active
  /\ MonitorGoto(NextTask({t \in Task : task[t] \in Active}))
  /\ UNCHANGED <<db, fleet, worker, consumer, accepted, crashes>>

TakeTask(t) ==
  /\ monitor.pc = "next"
  /\ t \in monitor.queue
  /\ MonitorGoto([pc |-> "probe", queue |-> monitor.queue \ {t},
                  task |-> t, left |-> crew[t]])
  /\ UNCHANGED <<db, fleet, worker, consumer, accepted, crashes>>

\* Fault: a robot the registry does not know keeps its tasks alive.
ProbeKnownRobot(r) ==
  /\ monitor.pc = "probe"
  /\ r \in monitor.left
  /\ LET rest == monitor.left \ {r} IN
       MonitorGoto(
         IF fleet[r] # "ABNORMAL" THEN NextTask(monitor.queue)
         ELSE IF rest # {} THEN [monitor EXCEPT !.left = rest]
         ELSE [pc |-> "interrupt", queue |-> monitor.queue, task |-> monitor.task])
  /\ UNCHANGED <<db, fleet, worker, consumer, accepted, crashes>>

\* getRobotStatus, one call a robot: the first robot that is not found abnormal
\* ends the loop, a silent one too, and one the registry does not know is passed
\* over.
ProbeRobot(r) ==
  /\ monitor.pc = "probe"
  /\ r \in monitor.left
  /\ LET rest == monitor.left \ {r} IN
       MonitorGoto(
         IF fleet[r] \in {"REGISTERED", "NORMAL", "SILENT"} THEN NextTask(monitor.queue)
         ELSE IF rest # {} THEN [monitor EXCEPT !.left = rest]
         ELSE [pc |-> "interrupt", queue |-> monitor.queue, task |-> monitor.task])
  /\ UNCHANGED <<db, fleet, worker, consumer, accepted, crashes>>

\* markTaskInterrupted, whatever the task has become since GetActiveTasks.
InterruptTask ==
  /\ monitor.pc = "interrupt"
  /\ UpdateTaskState(monitor.task, "INTERRUPTED")
  /\ MonitorGoto([monitor EXCEPT !.pc = "build"])
  /\ UNCHANGED <<fleet, worker, consumer, accepted, crashes>>

MonitorBuildState ==
  /\ monitor.pc = "build"
  /\ MonitorGoto([pc |-> "publish", queue |-> monitor.queue,
                  task |-> monitor.task, seen |-> task[monitor.task]])
  /\ UNCHANGED <<db, fleet, worker, consumer, accepted, crashes>>

MonitorPublish ==
  /\ monitor.pc = "publish"
  /\ MonitorGoto(NextTask(monitor.queue))
  /\ UNCHANGED <<db, fleet, worker, consumer, accepted, crashes>>

------------------------------------------------------------------------------
\* The process stops between any two steps and starts again: threads and queue
\* are gone, and LoadRobots brings every persisted robot back as OFFLINE.
CrashRestart ==
  /\ crashes < MaxCrashes
  /\ crashes'  = crashes + 1
  /\ worker'   = [w \in Worker |-> Idle]
  /\ consumer' = Idle
  /\ monitor'  = Idle
  /\ fleet'    = [r \in Robot |->
                    IF fleet[r] = "UNKNOWN" THEN "UNKNOWN" ELSE "ABNORMAL"]
  /\ UNCHANGED <<db, accepted>>

Init ==
  /\ task      = [t \in Task |-> "NONE"]
  /\ crew      = [t \in Task |-> {}]
  /\ stock     = [t \in Task |-> [g \in Good |-> NoRow]]
  /\ alloc     = [c \in Claim |-> L!NoClaim]
  /\ fleet     = [r \in Robot |-> "UNKNOWN"]
  /\ worker    = [w \in Worker |-> Idle]
  /\ consumer  = Idle
  /\ monitor   = Idle
  /\ accepted  = {}
  /\ crashes   = 0

WorkerStep(w) ==
  \/ CreateInsert(w)
  \/ CancelUpdate(w)
  \/ \E r \in Robot : PublishCommand(w, r)

ConsumerStep ==
  \/ ApproveItem \/ StartRunning \/ ReplyApplication
  \/ SettleClaim \/ ReadForAccept \/ WriteAccepted
  \/ CheckAllDone \/ WriteSucceeded
  \/ BuildState \/ PublishState \/ PublishAck

MonitorStep ==
  \/ Tick \/ InterruptTask \/ MonitorBuildState \/ MonitorPublish
  \/ \E t \in Task : TakeTask(t)
  \/ \E r \in Robot : ProbeRobot(r)

\* A request or a message reaches an idle thread.
Arrival ==
  \/ \E w \in Worker, t \in Task :
       \/ CancelCheck(w, t)
       \/ \E robots \in Crews, o \in Orders : CreateCheck(w, t, robots, o)
  \/ \E m \in Applications : ReceiveApplication(m)
  \/ \E m \in Reports : ReceiveReport(m)
  \/ \E r \in Connecting : RegisterRobot(r) \/ FiveMinutesPass(r)
  \/ \E r \in Connecting, s \in FleetStates : RobotStatus(r, s)

Next ==
  \/ \E w \in Worker : WorkerStep(w)
  \/ ConsumerStep
  \/ MonitorStep
  \/ Arrival
  \/ CrashRestart

Spec == Init /\ [][Next]_vars

(***************************************************************************)
(* Fairness.  Every thread is an operating-system thread that never waits  *)
(* for another one longer than a database call: once a thread has a call   *)
(* to make, it makes it.  The timer keeps ticking.  Nothing is assumed of  *)
(* requests and messages.                                                  *)
(***************************************************************************)
FairSpec ==
  /\ Spec
  /\ \A w \in Worker : WF_vars(WorkerStep(w))
  /\ WF_vars(ConsumerStep)
  /\ WF_vars(MonitorStep)

------------------------------------------------------------------------------
(***************************************************************************)
(* Properties.                                                             *)
(***************************************************************************)

Rows == [total : Nat, pending : Nat, in_progress : Nat, completed : Nat]

WorkerStates ==
       {Idle}
  \cup [pc : {"insert"}, task : Task, crew : Crews, order : Orders]
  \cup [pc : {"cancel"}, task : Task]
  \cup [pc : {"assign", "notify"}, task : Task, todo : SUBSET Robot]

ConsumerStates ==
       {Idle}
  \cup [pc : {"approve"}, msg : Applications, next : Nat \ {0}, seen : TaskStates]
  \cup [pc : {"run"}, msg : Applications]
  \cup [pc : {"reply"}, msg : Applications, ok : BOOLEAN]
  \cup [pc : {"settle", "read", "accept", "check", "succeed"}, msg : Reports]
  \cup [pc : {"build"}, task : Task, ack : Reports \cup {NoAck}]
  \cup [pc : {"publish"}, task : Task, seen : TaskStates, ack : Reports \cup {NoAck}]
  \cup [pc : {"ack"}, ack : Reports]

MonitorStates ==
       {Idle}
  \cup [pc : {"next"}, queue : SUBSET Task]
  \cup [pc : {"probe"}, queue : SUBSET Task, task : Task, left : SUBSET Robot]
  \cup [pc : {"interrupt", "build"}, queue : SUBSET Task, task : Task]
  \cup [pc : {"publish"}, queue : SUBSET Task, task : Task, seen : TaskStates]

\* Every variable has its type; no counter of tbl_task_goods_status is negative.
TypeOK ==
  /\ task \in [Task -> TaskStates]
  /\ crew \in [Task -> SUBSET Robot]
  /\ stock \in [Task -> [Good -> Rows]]
  /\ alloc \in [Claim -> L!Claims \cup {L!NoClaim}]
  /\ fleet \in [Robot -> FleetStates]
  /\ worker \in [Worker -> WorkerStates]
  /\ consumer \in ConsumerStates
  /\ monitor \in MonitorStates
  /\ accepted \subseteq Applications
  /\ crashes \in 0..MaxCrashes

\* The counters of tbl_task_goods_status agree with each other and with the
\* rows of tbl_task_goods_allocation: what is in progress, or completed, is the
\* sum of the rows that are, across rejected, repeated and aborted requests.
CountersMatchRows ==
  \A t \in Task, g \in Good :
    LET row == stock[t][g] IN
      /\ row.total = row.pending + row.in_progress + row.completed
      /\ row.in_progress = L!Held(t, g)
      /\ row.completed = L!Delivered(t, g)

\* A task that is SUCCEEDED, or is being announced to the robots as SUCCEEDED,
\* has all its goods carried: none pending, none under way.
SucceededMeansCarried ==
  /\ \A t \in Task : task[t] = "SUCCEEDED" => AllDone(t)
  /\ consumer.pc = "publish" /\ consumer.seen = "SUCCEEDED" => AllDone(consumer.task)
  /\ monitor.pc = "publish" /\ monitor.seen = "SUCCEEDED" => AllDone(monitor.task)

\* A CARRY report that names its request is acknowledged only when its claim has
\* been settled for good, by this report or by an earlier copy: the AMR may
\* forget it.  This is all that can be said, of a database that takes its writes:
\* a report whose settlement is refused is acknowledged like any other, and one
\* without a request_id, the only kind that amr_behavior_manager sends, settles
\* nothing, although pending-task-reports-format.md:52 has the edge acknowledge
\* what it has handled successfully (README, section 5).
NamesClaim(m) == m.event \in CarryEvents /\ m.request # NoRequest

AckedCarryIsSettled ==
  consumer.pc = "ack" /\ NamesClaim(consumer.ack) =>
    alloc[Key(consumer.ack)].state \in L!SettledStates

\* A request answered accepted=true has its goods booked, all of them, under
\* its own key.
AcceptedIsBooked ==
  \A m \in accepted : \A i \in 1..Len(m.items) :
    /\ alloc[Key(m)].state # "NONE"
    /\ alloc[Key(m)].task = m.task
    /\ alloc[Key(m)].good = m.items[i].good
    /\ alloc[Key(m)].quantity = m.items[i].quantity

\* Only robots of the task that was created are ever commanded about it: a
\* create request that loses the race for its task_id tells nobody.
OnlyCrewCommanded ==
  \A w \in Worker :
    worker[w].pc \in {"assign", "notify"} =>
      task[worker[w].task] # "NONE" /\ worker[w].todo \subseteq crew[worker[w].task]

\* A claim is settled once: neither a repeated report nor one that contradicts
\* the first changes it, and a delivered unit stays delivered.
SettledForGood ==
  [][/\ \A c \in Claim :
          alloc[c].state \in L!SettledStates => alloc'[c] = alloc[c]
     /\ \A t \in Task, g \in Good :
          stock'[t][g].completed >= stock[t][g].completed]_vars

\* What a task was created with, its robots and its quantities, never changes,
\* and no task is ever deleted.
OrderIsImmutable ==
  [][\A t \in Task : task[t] # "NONE" =>
        /\ task'[t] # "NONE"
        /\ crew'[t] = crew[t]
        /\ \A g \in Good : stock'[t][g].total = stock[t][g].total]_vars

\* The tables implement the ledger: goods are booked only while they are free
\* and every claim is settled at most once.
ImplementsLedger == L!LedgerSpec

------------------------------------------------------------------------------
(***************************************************************************)
(* Liveness, under FairSpec without a crash.                               *)
(***************************************************************************)

Opened(t) == task[t] # "NONE"

\* A task whose goods have all been carried comes to a terminal state and
\* stays terminal, whatever cancels, reports and ticks come in between.
CarriedTaskEnds ==
  \A t \in Task : Opened(t) /\ AllDone(t) ~> [](task[t] \in Terminal)

\* When every robot of an open task has failed and none recovers, the task is
\* ended (ALL_AMRS_ABNORMAL).  Failed is what checkAmrHeartbeat can see: a robot
\* that was never heard of, that registered and sent nothing, that reported an
\* error, or whose last will came.  One that falls silent after a normal status is
\* not among them: interface-contract.md:26 and task-state-machine.md:117 count it
\* as abnormal after five minutes, the code never does (README, section 5).
DeadCrew(t) == \A r \in crew[t] : fleet[r] \in {"UNKNOWN", "ABNORMAL"}
DeadCrewEndsTask ==
  \A t \in Task :
    Opened(t) /\ DeadCrew(t) ~> task[t] \in Terminal \/ ~DeadCrew(t)

------------------------------------------------------------------------------
(***************************************************************************)
(* What the documents say and the code does not do.                        *)
(***************************************************************************)

\* docs/architecture/task-state-machine.md:56: a terminal state is not rolled
\* back by an old message.
TerminalNotRolledBack ==
  [][\A t \in Task : task[t] \in Terminal => task'[t] \in Terminal]_vars

==============================================================================
