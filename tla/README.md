# The AMR warehouse system in TLA+

TLA+ models of the AMR warehouse collaborative system, the TLC runs that check
them on small instances, and TLAPS proofs of the theorems that matter most for
every value of the constants. `PROJECT.json` lists the components, the runs,
the mutants, the source lines every definition models, the findings, the
hazards and the theorems; this file says how they hang together.

```
tlc -workers 2 -config MCEdgeTask.cfg MCEdgeTask
tlapm EdgeTaskProofs.tla
```

## 1. The system

The *edge server* is one C++ process on a server. Operators talk to it over
HTTP, the robots (AMRs) over MQTT, and the simulation over a WebSocket. It
keeps tasks, robots and maps in SQLite. Each *AMR* runs four ROS 2 nodes: an
agent that speaks MQTT, a behaviour manager that executes a task, a navigation
node that drives Nav2, and a localisation node. The *simulation manager* keeps a
Gazebo model for every robot that the edge lists.

```
 operator --HTTP--> edge_server <--MQTT--> amr_agent <--ROS topics--> amr_behavior_manager
                        |                      |                              | action
                   robot_list (WebSocket)  map package (HTTP)          amr_navigation -> Nav2
                        v
                 simulation_manager -> Gazebo
```

| Component | State it keeps | Operations | Interacts through |
| --- | --- | --- | --- |
| `TaskService`, `EdgeServerApp::checkAmrHeartbeat` | `tbl_task`, `tbl_task_goods_status`, `tbl_task_goods_allocation` | create, cancel, goods request, status report, state message, interruption | HTTP threads, the MQTT consumer thread and the monitor's timer thread, all over the same tables |
| `RobotManager`, `RobotService` | `m_robots`, `tbl_robot`, `tbl_robot_instance` | register, restore, status, will, time-out, list | MQTT consumer, timer of the list |
| `IdlePointAllocator` | `m_points`, `m_occupied` | load, allocate, mark | registration, activation of a map, start |
| `MapService` | `tbl_map_package`, `tbl_active_map`, the package files | upload, activate, download, check of a version | HTTP threads |
| MQTT client and router of the edge | a queue, one consumer thread | one handler per message | broker |
| WebSocket server, topics, `RobotListPublisher` | sessions and their send queues, subscribers, the timer's trigger | subscribe, publish on a timer or trigger, heartbeat | simulation manager |
| `amr_agent` task bridge | `m_pending` file, connection state | publish or store a report, remove acknowledged ones, flush every 5 s | MQTT, ROS topics |
| `amr_agent` registration, `MapManager` | registered flag, map directory, version file | register every 5 s until answered, download and install a map | MQTT, HTTP |
| `amr_behavior_manager` | task, state, request_id, goods, timers | assign, cancel, response, state update, grasp, place | topics from the agent, action client |
| `amr_navigation` | active goal, ready flag, Nav2 process | execute, cancel, map info, start and stop of Nav2 | action server, lifecycle services |
| `simulation_manager` | robots and their lifecycle states, a work queue | sync with a list, create, delete, replace | WebSocket, Gazebo services, child processes |

What makes it hard:

- **Interleaving over the database.** Each method of `SQLiteDB` is atomic
  under its own lock, but `TaskService` makes several calls per operation and
  holds nothing between them. HTTP threads, the MQTT thread and the monitor
  meet there.
- **Repeated and late messages.** QoS 1, a stored report that is sent again
  every five seconds, reports that contradict an earlier one.
- **Crash and restart** between two calls: the tables survive, threads,
  queue and registry do not.
- **Partial failure**: a request of several goods, an upload that is refused
  after it has overwritten a file.
- **Liveness**: a task that has been carried, or whose robots have all failed,
  must end.

What makes each component correct:

- *Tasks*: no unit of a good is booked twice; counters and rows agree; a claim
  is settled once; SUCCEEDED only when all is carried; only the task's robots
  are commanded; a CARRY report that names its request is acknowledged when it has been
  settled; tasks end.
- *Registry and maps*: memory and table agree, but for rows that the database refused; a
  stored robot has one identity and one initial pose for ever; two robots do not start at
  one place; the active map has a file.
- *Agent*: a report is neither forgotten nor kept for ever, as long as no other shares its
  message_id; the version recorded is the version installed; a missing map arrives.
- *Behaviour*: what is waited for and what is carried belong to the task in hand.
- *Navigation*: every goal is answered, unless the node has died of a second one, ends
  once, succeeds only after an arrival and is canceled only on request; the Nav2 in hand
  has the current map and was given the pose.
- *List feed*: no change of the table waits for a whole period, lists never go back, the
  current one arrives.
- *Simulation*: one launch per robot, an active robot stands in Gazebo, the models come to
  agree with the last list.

## 2. The modules

| Module | Models | State |
| --- | --- | --- |
| `GoodsLedger` | the promise: a task is opened once with an order, a claim books free units, and is settled once | abstract |
| `EdgeTask` | `TaskService`, the task tables, the monitor and the part of the registry the monitor reads | done |
| `MCEdgeTask` | constants of `EdgeTask` for TLC | done |
| `EdgeTaskProofs` | theorems about `EdgeTask` | done |
| `RobotRegistry` | registration, restore, IDLE points, upload and activation of maps, the published list | done |
| `MCRobotRegistry` | its constants for TLC | done |
| `RobotRegistryProofs` | theorems about `RobotRegistry` | done |
| `TaskBridge` | the agent's `TaskBridge`, `PendingReportStore` and message router, against an edge that acknowledges | done |
| `MCTaskBridge` | its constants for TLC | done |
| `TaskBridgeProofs` | theorems about `TaskBridge` | done |
| `MapSync` | registration of the agent and `MapManager`, against the edge's check of a version and its download route | done |
| `MCMapSync` | its constants for TLC | done |
| `MapSyncProofs` | theorems about `MapSync` | done |
| `NavigateAction` | the promise of the action `amr_navigate_to_pose`: a goal ends once, succeeds only after an arrival, and is canceled only when asked | abstract |
| `Navigation` | `NavigationServer`'s action, its threads, and `NavigationManager` before Nav2; implements `NavigateAction` | done |
| `MCNavigation` | its constants for TLC | done |
| `NavigationProofs` | theorems about `Navigation`, the refinement among them | done |
| `Mission` | the behaviour manager and its `NavigationClient`, composed with `NavigateAction` | done |
| `MCMission` | its constants for TLC | done |
| `MissionProofs` | theorems about `Mission` | done |
| `ListFeed` | the promise of the topic `robot_list`: lists that the edge has had, later ones after earlier ones | abstract |
| `RobotListFeed` | the edge's timer, publisher, topics and WebSocket server, and the manager's WebSocket client; implements `ListFeed` | done |
| `MCRobotListFeed` | its constants for TLC | done |
| `SimLifecycle` | the simulation manager's synchronisation, its worker and its launches, before Gazebo | done |
| `MCSimLifecycle` | its constants for TLC | done |
| `RobotListProofs` | theorems about `RobotListFeed`, the refinement among them, and about `SimLifecycle`, which takes its lists | done |
| `Nav2Process` | the navigation node's state machine over the process of Nav2 and its lifecycle managers | done |
| `MCNav2Process` | its constants for TLC | done |
| `Nav2ProcessProofs` | theorems about `Nav2Process` | done |

### EdgeTask

*State.* `task`, `crew`, `stock` and `alloc` are the tables: the state and the
robots of each task, the four counters of each of its goods, and the
allocation rows by their unique key (request_id, robot_id). `fleet` is what the
monitor can tell apart in `RobotManager`. `worker[w]`, `consumer` and `monitor`
are the local variables of the threads, with a `pc` that names the next
database call or publish; `accepted` remembers the goods requests that were
answered `accepted=true`.

*Actions.* One database call is one step, because the lock of `SQLiteDB` is
held for exactly that long. `createTask` is `CreateCheck`, `CreateInsert` and a
`PublishCommand` per robot; `cancelTask` is `CancelCheck`, `CancelUpdate` and
`PublishCommand`; `handleGoodsApply` is `ReceiveApplication`, one `ApproveItem`
per good, `StartRunning` when the state it *had read* was PENDING or ACCEPTED,
and `ReplyApplication`; `handleAmrTaskStatus` is `ReceiveReport`, then
`SettleClaim`, `CheckAllDone` and `WriteSucceeded`, or `ReadForAccept` and
`WriteAccepted`; each message ends with `BuildState`, `PublishState` and, for a
report, `PublishAck`: `robotTaskStatusHandler` does not look at what
`handleAmrTaskStatus` returned, and acknowledges every report. `checkAmrHeartbeat` is
`Tick`, `TakeTask`, `ProbeRobot`, `InterruptTask`, `MonitorBuildState` and
`MonitorPublish`. `CrashRestart` may come between any two of them.

*Environment.* Any goods request in `Applications` and any report in `Reports`
may arrive whenever the consumer is idle, any number of times. One restriction:
a CARRY report that names a request names one that was accepted, as the
interface contract (section 4.6) asks of an AMR. A report that names none is
possible, and the repository's own behaviour manager sends no other: it settles nothing,
and is acknowledged. A robot may fall silent (`FiveMinutesPass`): the monitor then finds
it abnormal if it has only registered, and never if its last status was a normal one.

*Abstraction.* Requests that fail the validation of their fields change nothing
and are left out, as are the event tables, which nothing reads back, and
messages that are published to nobody in particular. A crash loses whatever is
in the memory of the process; the database's transactions are atomic.

### RobotRegistry

*State.* `table` and `instances` are `tbl_robot` and `tbl_robot_instance`;
`packages`, `active`, `tmp` and `file` the map tables and files; `robots`,
`points` and `occupied` the memory of `RobotManager` and `IdlePointAllocator`;
`told` and `listed` what the AMRs and the simulation have been sent, which no
crash takes back; `reloaded` is history: the points have been loaded again after
a robot was given one; `unsaved` and `forgotten` are those robots whose row the database
refused, and those of them that had been answered when the process crashed.

*Actions.* `handleRegister` is `RegisterRobot`, `UpsertRobot` and
`AnswerRegistration`, between which the list may be published and the process
may crash. `UpsertRobot` may write nothing: its result is not looked at, and the pose is
answered all the same. An upload is `BeginUpload` (the temporary file named after the
version is cut off), `ReceiveUpload` (its body has arrived), `CopyUpload`,
`InsertPackage` and, when it is to be activated, `LoadPoints`; when the body breaks off or
`uploadMap` refuses, `RemoveUpload`. An activation is `FindPackage`, `SetActiveMap` and
`LoadPoints`. Two workers may be anywhere in these, in one temporary file too.
`LoadPoints` may find the package unreadable while another thread copies over it, and
`CrashRestart` may cut off a copy.

*Abstraction.* An archive is the sequence of poses of its IDLE locations, as
`load` takes them from its two YAML files; an archive that cannot be read yields
none. What a temporary file holds when a body has been streamed into it is any archive,
the unreadable one included, since another upload may have written there too. The
restore loop of `init` is one step: it runs before the servers and timers start.

### TaskBridge

*State.* `file` is the pending file, which survives a crash; `executor` the
callback that runs on the ROS executor, `link` the connection; `sent` and `acks`
what is under way in either direction; `queue` and `handled` the edge. A
report is known to both sides by its message_id, which is a millisecond and an
event type: two events can share one, and `Id` says so.

*Actions.* `publishTaskEventToMqtt` is `TakeEvent` (its look at the connection),
`PublishEvent` and, when either finds it down, `StoreReport`. The flush is `Flush`,
which loads the list once, and a `FlushReport` per report. `onStatusAckMessage` is
`ReceiveAck`, on the other thread, at any time between these. `RouteMessage` is
the lookup of a handler for any other topic. `LinkChanges`, `AmrCrash` and
`EdgeCrash` may come anywhere.

*Environment.* The broker delivers at least once and in any order. The edge takes a
message into the queue of its router, where a crash loses it, handles it, and
acknowledges everything but goods requests. What handling means is `EdgeTask`.

*What it shows.* The acknowledgement of one event removes another unhandled when they
share their message_id. `StoredReportsAreDelivered` says that this is the only way for
a stored report to leave the file without having been handled.

*Abstraction.* The order of reports in the file: a flush sends them in any order.
A file that cannot be read or written.

### MapSync

*State.* `active` and `intact` are the active map and the packages that are whole;
`requests` and `responses` what is under way; `dir` the entries of the map directory,
which survive a restart in the middle of an update; `reported` the version the node
read at its start and registers with ever after; `map` what `MapManager` believes;
`shown` the last MapInfo, as it compares with the directory.

*Actions.* `checkMapUpdate` is `EdgeAnswer`. `onRegisterResponse` of the node and of
`MapManager` are `TakeRefusal` (the codec drops it), `TakeUpToDate` and `TakeUpdate`;
`updateMap` goes on with `Download` or `DownloadFails`, a `ClearEntry` and an
`ExtractEntry` per entry, and `FinishUpdate`. The timer asks meanwhile, operators
activate and upload, and a `Restart` finds whatever the directory holds.

*What it shows.* A restart between the first and the last entry of an update may leave
metadata without a map. If their version is the active one the edge answers that there is
nothing to update, and the AMR has no map for as long as that version stays active:
`MissingMapArrives` leaves out, by name, the AMR that registers with the active version.

*Abstraction.* A package has two entries that matter, the metadata and the map.
An archive that is being overwritten cannot be opened. The names that the metadata
gives to the files, and the disk's failures, are left out.

### Navigation

*State.* `goal` and `cancels` are the action's goals and cancel requests; `thread` is
where `execute` stands on the detached thread of each goal; `m_state`, `m_goal_handle`
and `stopping` belong to `NavigationManager`; `nav2` and `told` are Nav2's goals and those
whose end has been reported; `m_navigation_result` and its ready flag are the one place
through which every result reaches every thread that waits; `alive` says that the process
has not been terminated.

*Actions.* The executor's callbacks are `HandleGoal`, `HandleCancel`, `GoalAccepted`,
`GoalRefused` and `ResultCallback`; the last two are followed by `OnNavigationResult`,
with the manager idle already and no other callback in between. `execute` is `Start`,
`Check` (the look at `m_state`), `Supersede` and `CancelOld` (the two halves of
`cancelNavigation`), `OldEnded`, `Check` again, `Send`, `ResetFlag`, and `TakeResult` or
`Timeout`. `Report` is what becomes of a result: the library throws when a goal is to be
canceled that no client has asked to cancel, nothing catches that on a detached thread,
and the process ends; no launch file starts it again. `Lives` marks the steps it takes
a living process for. Threads and executor interleave between any two of these, as they do over
members that no lock protects.

*What it shows.* A thread may take the result of another goal, so that a goal that was
superseded can report success; a result may be lost, so that an arrival is reported
as a time-out. A goal that another one takes the place of is canceled at Nav2 and still
executing for its client: the process dies of it, and neither goal is answered. The
promise that remains is `NavigateAction`, in which success says that some goal has been
reached, and canceled that a client has asked for it; `DiesOfSecondGoal` says that one
goal alone never ends the process, whatever cancels come and whenever.

*Abstraction.* Nav2 may accept, refuse or never answer, arrive, fail, and cancel when
asked. That its process is started, stopped or restarted with another map is left out;
that it cannot be reached, or that the map is missing, is possible at any time.
What becomes of Nav2 and of the client after the death of the node is left out: the
client gets no further answer. Feedback and `m_navigating`, which only feed status messages, are left
out. The library's reaction to an empty goal handle is taken to be none.

### Mission

*State.* The members of `AmrBehaviorManagerNode` by their names; goods are known by the
request that brought them, and the list of quantities by whether any is pending.
`graspTimer` and `placeTimer` say that `m_one_shot_timers` holds such a timer: these are
wall timers that nothing cancels, so that they fire again and again once armed, also for
goods and tasks that have come since. `known`,
`finished` and `m_current_goal_handle` are the client's side of the action.

*Actions.* `HandleTaskAssign`, `HandleTaskCancel`, `HandleTaskStateUpdate` and
`HandleGoodsResponse` are the four commands, `GraspTimer` and `PlaceTimer` the bodies
of the timers, `GoalResponse` and `NavigationResult` the callbacks of the client. Each is
one step: the node has one executor.

*Environment.* Any command about any task at any time. A response names a request that
was published, and may come late or again (QoS 1). Task state updates are included,
without which the manager never asks for goods, although the agent's router drops
them today: the properties are those of the manager, whichever
commands it is given.

*Abstraction.* The choice of the good and of its destination, the status messages, and the
death of the navigation node.

### RobotListFeed

*State.* `version` counts the changes of the robot table, so that a list is the version it
was read at. `m_triggered` and `timer` are `Timer`'s, `published` and `receivers` the round
that `RobotListPublisher` is in, `m_subscribers` the topic's. `m_sessionById`,
`m_sendQueue`, `m_needSendClientSet`, `writable` and `requests` belong to the WebSocket
server; `connection`, `unsent`, `events` and `held` to the client; `toClient` and
`toServer` are what is under way.

*Actions.* `TableChanges` and `Trigger` are a registration and the event it raises, which is
sent after the lock of the registry has been released. `Wake` resets the trigger and
`Publish` reads the table, then there is one `SendToWSClient` for each subscriber.
`AskToWrite` and `OnWriteable` are the service thread; `OnReceive` and `Subscribe` the way
of a subscription through the server's message thread. `Connect`, `ConnectionCloses`,
`OnReceiveList`, `OnEvent` and `OnWrite` are the client's threads. Either side may see the
end of a connection first.

*Abstraction.* A ping is any end of a connection. A message arrives whole, or is lost with
its connection. Nobody unsubscribes.

### SimLifecycle

*State.* `list` is the edge's; `m_robotList` and its flag what `EdgeClient` holds, and
`toRequest` what its thread has found and not asked for yet; `m_models` what was last heard
of Gazebo; `m_robots`, `m_queue`, `pc` and `request` the lifecycle
manager and its worker; `m_processes` the launches it knows, `spawning` those that may
still put a model into the world; `reply` and `answers` Gazebo's answers under way. `late`
is history: an interrupted launch was not stopped in time.

*Actions.* `ReceiveList` is the client's callback; `Sync` is the thread that compares the list
with a copy of the models, and `Request` each of its calls, under the lock of the lifecycle
manager, between which the worker and the executor go on.
The worker's are `TakeRequest`, `Launch`, `LaunchFails`, `ModelSeen`, `ControllerReady`,
`GiveUp` (either wait is over), `DeleteRobot` and `ReplaceRobot`, which goes on in
`DeleteReply`. `UpdateModels` and `ModelsReply` are the node's timer and Gazebo's answer.
`ManagerRestarts` finds the world and the launches as they are.

*Abstraction.* A deletion takes effect when it is asked for and is answered later: Gazebo
serves it within the seconds that a launch takes. A deletion so slow that it meets the
next model of the same name is left out, and so are launches that die by themselves and
restarts of Gazebo. A list waits while `MaxQueue` requests are yet to be made, queued or
unanswered.

### Nav2Process

*State.* The members of `NavigationServer` by their names; `executor` is where the node
stands in `startNav2Lifecycle`, whose waits for two services Nav2 uses to go on.
`launchedWith`, `running` and `manager` are all the Nav2 processes that were ever launched;
`posed` those that ran when a pose was published.

*Actions.* `handleMapInfo` is `MapNotReady`, `KeepNav2`, `LaunchNav2` and `ForkFails`;
`handleStateMachineTick` is `TickStarts` and `TickLocalizes`; `startNav2Lifecycle` is
`AskNavigation` and `AskLocalization`. `Restart` is the end and new start of the node, which
takes the latched messages again. `ManagerUp`, `StartsUp`, `StartupFails` and `Dies` are
Nav2's.

*What it shows.* `killpg` is called with the negative of the process id, which the C library
refuses. No Nav2 is therefore ever stopped: all of those that run answer to the same names.
The FAILED that a fork sets is overwritten before the callback ends, so that no step
starts from it; the type of `m_nav2_state` is nevertheless the code's, all seven.

*Abstraction.* The parameter file, and the names that the map's files have in it.

### Order of the work that follows

1. `Nav2Process` composed with `Navigation`, so that a Nav2 that is started again loses
   the goals it had, and with `MapSync`, whose MapInfo it takes.
2. `EndToEnd`: `TaskBridge` and `Mission` composed with `EdgeTask` in the place of its
   environment of requests and reports; it shows which claims stay in progress because
   the manager's CARRY reports name no request. A theorem worth proving there: a claim
   that is carried and reported with its request is settled.

## 3. The runs

| Run | Module, cfg | What it shows |
| --- | --- | --- |
| `edge_task` | `MCEdgeTask`, `MCEdgeTask.cfg` | counters, claims and success are consistent, a CARRY report that names its request is acknowledged only when settled, and the tables implement `GoodsLedger`, with two robots competing for the goods, reports in any order and number, with a request_id or without, a cancel, the monitor and a crash |
| `edge_task_live` | `MCEdgeTask`, `MCEdgeTaskLive.cfg` | two workers race to create one task with different crews and to cancel it: only the winner's robots are commanded, a carried task ends and stays ended, and a task is ended whose robots are all known to have failed; one that falls silent after a normal status is not |
| `edge_task_terminal` | `MCEdgeTask`, `MCEdgeTaskTerminal.cfg` | *violation*: a terminal state is rolled back |
| `registry` | `MCRobotRegistry`, `MCRobotRegistry.cfg` | a pose that was answered is kept, and stored unless the database refused the row; poses are distinct until the points are reloaded; stored identities are final |
| `task_bridge` | `MCTaskBridge`, `MCTaskBridge.cfg` | no report leaves the file before the edge has handled one of its message_id, none is forgotten without a crash, and a stored task report that shares its message_id with no other is handled once the connection stays up |
| `map_sync` | `MCMapSync`, `MCMapSync.cfg` | a failed download costs no map, a map is misnamed only by a switch between answer and download, and an AMR without a map gets one unless it registers with the active version |
| `navigation` | `MCNavigation`, `MCNavigation.cfg` | the node implements `NavigateAction`, dies only of a second goal, and answers every goal unless it has died so, although results are lost and mixed up |
| `mission` | `MCMission`, `MCMission.cfg` | no wait outlives its task, and the goods in hand were granted to the task they are reported for |
| `robot_feed` | `MCRobotListFeed`, `MCRobotListFeed.cfg` | no trigger is lost, the feed implements `ListFeed` over connections that end on either side, and the manager comes to hold the current list |
| `sim_lifecycle` | `MCSimLifecycle`, `MCSimLifecycle.cfg` | one launch per robot, an active robot stands in Gazebo, and the models come to agree with the list when no deletion comes too late |
| `nav2_process` | `MCNav2Process`, `MCNav2Process.cfg` | the Nav2 in hand has the current map, the published pose counts for it, and the node becomes ready when nothing fails |
| `nav2_switch` | `MCNav2Process`, `MCNav2ProcessSwitch.cfg` | *violation*: after a second map the node is ready for ever with a Nav2 that nobody started up |

Every property of a passing run has a mutant: a definition of the module changed
as a plausible bug would change it (a dropped `WHERE` clause, a forgotten
reset, an unchecked state), kept in the module as an operator marked *Fault*.
Under the run's own configuration TLC finds the property violated by it. No
specification uses these operators.

### Bounds, and why they are enough

- *Tasks.* One task: no step relates two tasks but the monitor's round, which
  takes them one after the other. Two robots: every race of the tables is
  between two claims, or between a claim and a cancel. Orders of two and three
  units against requests for one and for two: in the first the requests exclude
  each other, in the second they fit exactly. One good. One crash:
  what a second one could find is what the first leaves.
- *Threads.* One worker in `edge_task`, which races with the consumer and the
  monitor; two in `edge_task_live`, where creates race with each other.
- *Registry.* Two robots, two times to register at, two workers, one version with
  two contents (an archive with a place for each robot, and one that cannot be read and
  has none), one robot whose row is refused (`MaxRefused`), one crash. Robots, times and
  workers are symmetric; no liveness is checked with
  symmetry.
- *Bridge.* A goods request, which is never acknowledged, and two completed carries
  that share a message_id: fewer would not let one report's acknowledgement remove
  another's. One crash, of either side.
- *Map.* Two versions, one of which is uploaded again; one answer under way besides
  the one being handled, so that it may be stale; one restart, at any step of an
  update.
- *Navigation.* Two goals: one under way and one that takes its place, which is all that
  `execute` distinguishes. A client may stop sending goals, so that this run does not
  check for deadlock.
- *Mission.* Two tasks, two requests and two goals: a second trip meets the timers, the
  late responses and the late results of the first.
- *Feed.* Three versions, so that a middle one may be skipped; two connections, of which the
  second stays; queues of two lists, fewer than the versions. A round waits while a list is
  under way (`MaxUnderWay`), as periods are longer than the way of a message.
- *Simulation.* One robot and two instances of it: requests about different robots share
  only the queue. Two changes, so that a robot goes and comes back as another instance; one
  restart. `MaxQueue` lets a list be compared while requests of an earlier one are still
  under way.
- *Nav2.* Two versions, two messages, one restart and one failure. `nav2_switch` has neither
  restart nor failure: a change of the map is enough.
- These three do not check for deadlock: their inputs are bounded, and then nothing is left
  to do.
- The constants named `Max...` and the sets of requests and reports are the only bounds.

The proofs below need none of these bounds.

### Fairness

`FairSpec` has weak fairness for each worker's next step, for the consumer's and
for the monitor's, its tick included. Each is a thread that never waits longer
than another thread's database call, and the timer of the monitor repeats for as
long as the process lives. Nothing is assumed of requests and messages: a client
or a robot may fall silent at any time.

`FairSpec` of `TaskBridge` has weak fairness for the executor, whose flush timer
repeats, for the consumer's handling of each acknowledgement, for the delivery of
each message and for the edge's handling of it. Nothing is assumed of the
connection: the property itself asks that it comes back for good.

`FairSpec` of `MapSync` has weak fairness for the consumer and the register timer, and
strong fairness for the edge's answer and for a download that succeeds: a connection
that is tried for ever works some time. That the edge goes offline and recovers again
and again is a premise of the property, since nothing else makes a registered AMR
ask again.

`FairSpec` of `Navigation` has weak fairness for the hand-over of a result, for each
goal's `HandleGoal` and for each thread, whose waits have a limit of 60 s, as long as the
process lives. Nothing is assumed of Nav2. `Mission` has no fairness: its properties are safety properties.

`FairSpec` of `RobotListFeed` has weak fairness for every thread of both sides, the timer's
period included, and for the news of an end to reach the other side (a ping without an
answer). Nothing is assumed of connections but the bound on their number: the last stays.

`SimFairSpec` of `SimLifecycle` has weak fairness for the threads, the calls of the notifier
included, the node's timer and Gazebo.
The edge sends its list every period. That launches start and are in time in the end is a
premise of the property, not of the specification.

`FairSpec` of `Nav2Process` has weak fairness for each callback of the executor, its timer
of one second included, and for each process of Nav2: a manager comes up, and brings its
nodes up or fails. That nothing fails is a premise of `NavigationComesUp`.

## 4. The proofs

`EdgeTaskProofs` assumes `ConstantsAssumption` (finitely many robots and
requests, quantities bounded by `MaxQuantity`, well-typed sets of inputs) and
proves, for any number of tasks, goods, robots, workers and crashes:

- `TypeCorrect`, `CountersCorrect`, `SuccessCorrect`, `AcksCorrect`,
  `AcceptanceCorrect`, `CommandsCorrect`: the invariants of the two passing runs;
- `SettlementIsFinal`, `OrdersAreFinal`: their action properties;
- `LedgerImplemented`: `Spec => L!LedgerSpec`;
- `CarriedTaskStaysEnded`: a task whose goods are all carried and whose state is terminal
  stays so.

The inductive invariant `IInv` is `DbOK /\ MemoryOK /\ Knows`. The agreement of
the tables (`DbOK`, with `CountersMatchRows` and the absence of rows for tasks that
do not exist) is inductive by itself: each database call preserves it, in
whatever order the threads make them. The other properties are not, because a
thread acts on what it read some steps ago. `Knows` says what may still be relied
on: that a worker that publishes has found the row created with its own crew;
that the consumer between approvals has booked every earlier good of the request;
that it has found everything carried before it writes SUCCEEDED, and nothing can
book again; that a CARRY report which names its request and is about to be acknowledged
has a settled row. Sums over
allocation rows are cardinalities of sets of (claim, unit) pairs, so that booking
and settling a claim adds, or moves, a block of known size; the lemmas about
them are at the head of the module. The refinement maps `order` to the totals of
`stock` and `claim` to `alloc`; every step is a step of the ledger or a stutter.

`CarriedTaskStaysEnded` is what remains true of the sentence that `edge_task_terminal`
refutes: a task that was cancelled may go back to RUNNING, but no task whose goods are all
carried. Its invariant `StateInv` relates the state of a task to what has been carried of it,
and to what the consumer is about to write: a pending task was ordered something
(`OrdersOK`), of which nothing has been carried (`CompletedOK`), since only the claim of a
granted request is settled and a grant is answered after the state has been written
(`AcceptedOK`); when the consumer writes ACCEPTED, or RUNNING after a grant, something of the
task is still to be carried (`DecisionOK`). `Advance` says that no write
of a state takes a task that has started back to before its start.

`RobotRegistryProofs` assumes `RegistryAssumption` (the origin is no IDLE pose, the
locations of an archive are distinct) and proves `RegistryTypeCorrect`,
`RegistryPersistent`, `AnswersAreStored`, `PointsAreDistinct` and
`IdentitiesAreFinal`. Its inductive invariant `RInv` adds three facts to the checked
ones: `Progress` (what the consumer and the workers may rely on between their
calls), `OneInstance` (the stored instances of a robot are exactly its own) and
`GivenIsOccupied` (until a reload, the point of a known robot, stored or not, is either
marked, or no longer among the points). The last is why the distinctness of poses
survives a restart with another archive in the same file. `RegistryPersistent` says what
is left of the agreement of memory and table when rows may be refused: a row may be
missing, and is never another than the memory's.

`TaskBridgeProofs` assumes `BridgeAssumption` (every event has a type) and proves
`BridgeTypeCorrect`, `EventsAreKept`, `StoredReportsAreKept` and `StoredRequestsStay`. The inductive
invariant `BridgeInv` adds `AcksAreJustified` to the checked ones: whatever is on its
way as an acknowledgement names a message_id that the edge has handled. Without it
nothing would connect the step that removes a report with the state of the edge.
`StoredRequestsStay` needs `NoRequestIsAcked` besides: no message_id under way as an
acknowledgement is of a goods request, and the type is a part of the message_id, so that no
other report's acknowledgement removes a request that was stored.

`MapSyncProofs` assumes `MapSyncAssumption` (no version is the absent one) and proves
`MapTypeCorrect`, `MapsAreKept` and `ShownVersionsAreHeld`. Its invariant `MapInv`
carries through the steps of an update what the checked properties say before and
after it: the entries extracted so far are the archive's (`UpdateOK`), and a map
that goes by a wrong name has been shown by it (`MisnamedIsShown`).

`NavigationProofs` assumes that `MaxGoals` is a natural number and proves
`NavigationTypeCorrect`, `HandleCorrect`, `DeathNeedsTwoGoals` and `ActionImplemented`. Its invariant `NavInv`
adds `ThreadsOK` (a thread runs as long as its goal is open and has one goal of
Nav2's at most), `ToldOK` (the manager hears only of goals that have ended) and `ResultOK`
(a success behind the flag is of an arrival); the last is why a thread that takes a
result of another goal still reports no arrival that has not been. `CancelsOK` says where a
cancel that nobody asked for may come from: from a second goal, or from a client's cancel
of another goal than the executing one. The refinement
maps `arrived` to Nav2's having reached a goal; `Finish` is the abstract `End`, and what
happens between the manager, the flag and the threads is a stutter.

`MissionProofs` assumes that `NoTask` is no task and proves `MissionTypeCorrect`,
`WaitsAreOwn` and `GoodsAreTheTasks`. The three are inductive together: a manager that waits
does so for a request of its own task, which is what a response brings goods for, and every
way out of a task forgets the goods.

`RobotListProofs` assumes `FeedConstants` for its first part and proves `FeedTypeCorrect`,
`TriggersAreKept`, `FeedImplemented` and `CurrentListIsKept`. Its invariant follows the lists along their way:
`QueuesOK` (what waits for a session was published, in order, and a session that does not
exist has an empty queue), `ClientOK` (what the manager holds, has received and is being
sent follow each other) and `SessionOK` (they come before what waits for the session it
has). A new connection begins with an empty queue and nothing under way, which is why no
older list can overtake a newer one across connections. Lemmas about `Append` and `Tail`
of such queues are at the head of the module.

Its second part assumes `SimConstants` (finitely many robots and instances, `None` is none
of them) and proves `SimTypeCorrect`, `LaunchesAreSingle`, `ActiveRobotsStand` and
`AgreementIsKept` of `SimLifecycle`. `OneLaunch` and `ActiveStands` are far from inductive:
that a creation finds no other launch of its robot depends on the queue, on the worker and
on the answers that are still to come. `SimInv` therefore counts the lives of a robot: a
launch in the table, a creation in the queue, a creation that the worker has in hand, and
an answer under way that a model has gone. A robot has one of these at most (`OneOfEach`,
`OneOfAll`), and while it has one its state refuses another creation (`Managed`).
`ActiveOK` says that an active robot has its model, or that a replacement took the model
away, and `WorldOK` that the table of launches is the models of the world and those that are
still to come. The last two hold only until a launch that was given up goes on or the manager
restarts, which is what `Calm` says and the properties assume. `AgreementIsKept` is the
safety half of `ModelsConvergeIfDeleted`: when the models agree with the list and the
manager knows it and has nothing left to ask for (`Settled`), a synchronisation asks for
nothing, so that only a change of the list or a restart ends the agreement. Requests that
are still to be made are harmless to the rest: `Accepted` decides when the call is made,
under the lock, and not when the comparison was.

`Nav2ProcessProofs` assumes `Nav2Assumption` and proves `Nav2TypeCorrect`,
`OwnNav2Correct`, `PoseCorrect` and `FirstNav2IsAsked`. Its invariant adds `LaunchesAreAsked` (each launch is
for a message, taken once in each run of the node), `PidOK` (a node that is stopped has no
pid) and `HealthyOK` (while nothing fails, a node that is not stopped has a Nav2 that runs,
so that a pose reaches it). `FirstNav2IsAsked` is what remains true of the sentence that
`nav2_switch` refutes: while nothing fails, a node that localizes or is ready has asked a
lifecycle manager of each kind, and with one launch it is those of its own Nav2. Its
`AskedOK` follows the two kinds of request through the steps between them.

Only model-checked: the liveness properties
`CarriedTaskEnds`, `DeadCrewEndsTask`, `StoredReportsAreDelivered`, `MissingMapArrives`,
`GoalsAreAnswered`, `CurrentListArrives`, `ModelsConvergeIfDeleted` and
`NavigationComesUp` (fairness is out of the prover's reach); and the two violations. Nine
theorems state properties that no run repeats: `SettledForGood`, `OrderIsImmutable`,
`MemoryMatchesTable` and `HandleIsCurrent`, since the refinements and invariants of the
runs are stronger, and `CarriedTaskStaysEnded`, `StoredRequestsStay`, `CurrentListIsKept`,
`AgreementIsKept` and `FirstNav2IsAsked`, which say how far a liveness property, or a
violated one, holds at every step.

## 5. What the code does otherwise than its documents say

1. `handleGoodsApply` writes RUNNING because of a state it read before the
   approvals: a cancel in between is undone, although the state machine's document
   says that no old message rolls a terminal state back (`edge_task_terminal`).
2. `stopNav2Process` stops no Nav2. After a change of the map the STARTUP requests are
   answered by the old process, and the node becomes ready while the new one was never
   asked (`nav2_switch`).

Each is a run of its own with the documents' sentence as the property; the
passing runs, and the theorems `CarriedTaskStaysEnded` and `FirstNav2IsAsked`, state what
does hold nevertheless. Seen while modelling, and contained in
the models without a run of their own:

- The unique key of the allocation table is (request_id, robot_id), without the good: the
  second good of any request is refused and the first stays booked
  (`docs/requirements/interface-contract.md`, line 388, approves each good by itself).
- The last settlement and SUCCEEDED are two transactions. After a crash in between
  the report that is sent again fails to settle and the handler returns before it
  looks at the remaining goods (ADR 0001, line 46, merges the reports after a recovery).
- The agent subscribes to the states of all tasks with a wildcard and looks the
  handler up by equality: no task state ever reaches the behaviour manager.
- Every report is acknowledged, whatever became of it (`amr_communication.cpp`, lines 259-267).
  A CARRY report without a request_id, the only kind that the behaviour manager sends, is
  refused by `handleAmrTaskStatus` (`task_service.cpp`, lines 261-264) and acknowledged, so that
  the AMR forgets it and the claim stays in progress
  (`docs/requirements/pending-task-reports-format.md`, line 52, has the edge acknowledge what
  it has handled successfully). `AckedCarryIsSettled` is about reports that name their request.
- A robot that falls silent after a normal status never becomes abnormal: the AMR stamps
  its status in milliseconds (`amr_agent_node.cpp`, line 233), the monitor's clock is in
  seconds (`edge_server_app.cpp`, lines 222 and 238). The documents have it abnormal after five
  minutes (`interface-contract.md`, lines 26 and 397; `docs/architecture/task-state-machine.md`,
  lines 117 and 119), so that a task whose robots are all silent is to be interrupted; in the
  code only a last will or an error does that. `DeadCrewEndsTask` leaves the silent robot out.
- `handleRegister` does not look at the result of `UpsertRobot` (`robot_service.cpp`, lines 50-53):
  an AMR is answered a pose that is not stored, and a crash forgets it. An identity is
  listed to the simulation before it is stored, and a robot that registers again after
  a crash in between gets another. `ToldPoseIsStored` and `IdentityIsFinal` leave these out;
  `DistinctUntilReload` is about the robots that are known, and the place of a forgotten
  one may be given to another.
- Two events of one type in one millisecond share their message_id
  (`interface-contract.md`, lines 511 and 567, has the edge recognise repetitions by it). The
  acknowledgement of the first removes a stored second one unhandled: a carry is lost.
- An AMR that restarts while an update is clearing or extracting may find the metadata
  without the map. It registers with their version; when that is active the edge answers
  that there is nothing to update (`map_service.cpp`, line 199), `loadCurrentMap` fails
  (`map_manager.cpp`, lines 169-178), and the AMR stays without a map.
- A map package that cannot be opened leaves the AMR with an empty directory that it
  still counts, and publishes, as a ready map.
- Activating a map, even the active one, forgets which IDLE points are occupied
  (`reloaded` in `RobotRegistry`).
- A comment in `waitForNavigationResult` says that one thread waits at a time, so that
  the ready flag is enough to match a result with its goal. Two threads wait when a
  goal supersedes another, and either may take the result of the other.
- `execute` calls `canceled()` for a goal whose place another has taken, which is still
  executing for its client (`navigation_server.cpp`, lines 350-353): the library throws on
  the detached thread, the process ends, and nothing starts it again. The grasp timer
  fires every second and sends a further goal each time, so that every trip of more than
  a second runs into this.
- The timers go on after a cancel: an AMR without a task transports to the origin. The place
  timer goes on too (`amr_behavior_manager_node.cpp`, lines 350-367): after one arrival it
  reports CARRY_COMPLETED every time it fires, for goods that have been granted since and
  never driven, of another task also.
- *Simulation.* A deletion is asked for a model of the last answer, which a cleanup may have
  removed since. It fails, the robot stays in the state DELETING, and no creation is ever
  accepted for it again; `ModelsConvergeIfDeleted` leaves this case out. One launch per
  robot does not hold after an interrupted launch that goes on, or after a restart, as
  launches outlive the manager. The controllers of a new instance are asked for by the
  robot's name, so that those of another instance answer.
- *Feed.* The timer of the list starts without an immediate round
  (`robot_list_publisher.cpp`, line 32). `sendToWSClient` reports success also when the queue
  is full; a session that has
  ended stays subscribed until the next round; `Timer::stop` sets its flag without the
  mutex, and a second stop detaches a thread that cannot be joined; a message longer
  than the receive buffer arrives in pieces, each of which is refused.
- *Nav2.* After a failed fork FAILED (`navigation_server.cpp`, line 569) is overwritten by
  STARTING_PROCESS (line 451), so that the node reports no error and launches nothing while
  the map stays ready. The answer to STARTUP is not read, and the
  death of Nav2 is not noticed. The pose is published once, right after the request,
  perhaps before there is anybody to take it; after a fork that failed and a map that is
  not ready the mark of a published pose is kept.

## 6. What is not modelled

- Failures of the disk and of SQLite itself, but for the row of a robot that is refused
  (`UpsertRobot`); the event tables.
- What follows the death of the navigation node, in Nav2, in the behaviour manager and for
  the process of Nav2. Launches of the simulation that die by themselves, and restarts of
  Gazebo (`simulation.md`, section 6).
- A late response to an earlier request of the task in hand is not told from the response to
  the present one (`GoodsBelongToTask` compares tasks).
- Parsing and formatting of messages, and requests that they refuse; the vendored JSON,
  HTTP, SQLite and logging libraries.
- The lengths of the periods (1 s, 5 s, 20 s, 300 s): a timer may tick at any time.
- The sessions of the MQTT clients: that topics are subscribed again after a reconnection.
  The broker's last will is a message that may come at any time.
- The publish of a state message pairs the state with the quantities of another
  call; only the pair with SUCCEEDED is stated (`SucceededMeansCarried`).
- Two activations of different versions may set the active map in one order and
  load the points in the other: the model has these behaviours, and no document says
  which points should be the ones then.
- Localisation, which only forwards poses.
- Start scripts, robot descriptions and worlds, which are data.
- The map and warehouse tools. They write the files that a map package is made of and take
  no part in the running system. Each editor has a terminal thread and a ROS callback over
  the same members, without a lock: a point that is clicked while `finish` is handled may
  still be added, so that a wall can get a third point after the check for two; and
  two editors of one file overwrite each other's additions.
