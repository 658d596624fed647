----------------------------- MODULE TaskBridge -----------------------------
(***************************************************************************)
(* The reports of an AMR on their way to the edge server: TaskBridge and   *)
(* PendingReportStore of the agent, its MQTT client and message router,    *)
(* and as much of the edge as acknowledges.                                *)
(*                                                                         *)
(*   executor  the ROS executor: the task event subscription and the flush *)
(*             timer are in one callback group and never overlap.          *)
(*   consumer  the thread that takes messages off the router's queue.      *)
(*                                                                         *)
(* A call of the store is one step: add and removeByMessageIds hold its    *)
(* mutex, and load, which the flush calls without it, reads a file that is *)
(* only ever replaced by a rename.  The order of the reports in the file   *)
(* is left out: a flush sends them in any order.                           *)
(*                                                                         *)
(* The file survives a crash of the AMR, nothing else does.  Messages may  *)
(* be delivered several times and in any order.                            *)
(***************************************************************************)
EXTENDS Naturals

CONSTANTS
  Event,       \* the task events the behaviour manager publishes
  event_type,  \* the event_type of each
  Stamp,       \* milliseconds, as makeMessageId puts them in a message_id
  Task,
  MaxCrashes   \* bound on the crashes of a behaviour, of the AMR and the edge

EventTypes == {"GOODS_REQUEST", "STATUS", "CARRY_COMPLETED", "CARRY_ABORTED"}

ASSUME BridgeAssumption ==
  /\ event_type \in [Event -> EventTypes]
  /\ MaxCrashes \in Nat

Message == [event : Event, stamp : Stamp]

\* TaskBridge::makeMessageId: two events of one type in one millisecond share it.
Id(m) == <<m.stamp, event_type[m.event]>>
Ids   == Stamp \X EventTypes

IsRequest(m) == event_type[m.event] = "GOODS_REQUEST"

VARIABLES
  \* The AMR.
  file,      \* pending_task_reports.json
  executor,  \* the callback that runs
  link,      \* isConnected()
  \* Between the two.
  sent,      \* published, and not yet taken by the edge
  acks,      \* acknowledged message_ids on their way to the AMR
  \* The edge server.
  queue,     \* in the memory of its message router
  handled,   \* handled and, but for requests, acknowledged
  \* History.
  taken,     \* messages built for the events of the behaviour manager
  unknown,   \* topics that were delivered and found no handler
  crashes

amr  == <<file, executor, link>>
edge == <<queue, handled>>
vars == <<amr, sent, acks, edge, taken, unknown, crashes>>

Idle == [pc |-> "idle"]

------------------------------------------------------------------------------
(***************************************************************************)
(* The executor.                                                           *)
(***************************************************************************)

\* TaskBridge::publishTaskEventToMqtt up to its look at the connection.
TakeEvent(e, s) ==
  /\ executor = Idle
  /\ \A m \in taken : m.event # e
  /\ LET m == [event |-> e, stamp |-> s] IN
       /\ taken' = taken \cup {m}
       /\ executor' = [pc |-> IF link THEN "publish" ELSE "store", msg |-> m]
  /\ UNCHANGED <<file, link, sent, acks, edge, unknown, crashes>>

\* Fault: the result of publish is not looked at.
PublishUnchecked ==
  /\ executor.pc = "publish"
  /\ sent' = IF link THEN sent \cup {executor.msg} ELSE sent
  /\ executor' = Idle
  /\ UNCHANGED <<file, link, acks, edge, taken, unknown, crashes>>

\* MqttClient::publish: the client takes the message, or throws when the
\* connection has been lost since.
PublishEvent ==
  /\ executor.pc = "publish"
  /\ IF link
     THEN sent' = sent \cup {executor.msg} /\ executor' = Idle
     ELSE executor' = [executor EXCEPT !.pc = "store"] /\ UNCHANGED sent
  /\ UNCHANGED <<file, link, acks, edge, taken, unknown, crashes>>

\* Fault: no look for a report with the same message_id.
StoreAnyway ==
  /\ executor.pc = "store"
  /\ file' = file \cup {executor.msg}
  /\ executor' = Idle
  /\ UNCHANGED <<link, sent, acks, edge, taken, unknown, crashes>>

\* PendingReportStore::add.
StoreReport ==
  /\ executor.pc = "store"
  /\ file' = IF \E m \in file : Id(m) = Id(executor.msg)
             THEN file ELSE file \cup {executor.msg}
  /\ executor' = Idle
  /\ UNCHANGED <<link, sent, acks, edge, taken, unknown, crashes>>

\* Fault: one report a period.
FlushOneReport ==
  /\ executor = Idle
  /\ link
  /\ \E m \in file : executor' = [pc |-> "flush", todo |-> {m}]
  /\ UNCHANGED <<file, link, sent, acks, edge, taken, unknown, crashes>>

\* TaskBridge::flushPendingReports on its timer: the list is loaded once.
Flush ==
  /\ executor = Idle
  /\ link
  /\ file # {}
  /\ executor' = [pc |-> "flush", todo |-> file]
  /\ UNCHANGED <<file, link, sent, acks, edge, taken, unknown, crashes>>

AfterFlushing(m) ==
  LET rest == executor.todo \ {m}
  IN  IF rest = {} THEN Idle ELSE [pc |-> "flush", todo |-> rest]

\* Fault: a report that has been published is removed.
FlushAndForget(m) ==
  /\ executor.pc = "flush"
  /\ m \in executor.todo
  /\ sent' = IF link THEN sent \cup {m} ELSE sent
  /\ file' = IF link THEN file \ {m} ELSE file
  /\ executor' = AfterFlushing(m)
  /\ UNCHANGED <<link, acks, edge, taken, unknown, crashes>>

\* One turn of its loop; a publish that fails is passed over.
FlushReport(m) ==
  /\ executor.pc = "flush"
  /\ m \in executor.todo
  /\ sent' = IF link THEN sent \cup {m} ELSE sent
  /\ executor' = AfterFlushing(m)
  /\ UNCHANGED <<file, link, acks, edge, taken, unknown, crashes>>

------------------------------------------------------------------------------
(***************************************************************************)
(* The consumer.                                                           *)
(***************************************************************************)

\* What the agent subscribes to.  The broker matches "+" with any level.
Filters == {<<"task">>, <<"state", "+">>, <<"response">>, <<"ack">>}
Topics  == {<<"task">>, <<"response">>, <<"ack">>} \cup {<<"state", t>> : t \in Task}

Matches(filter, topic) ==
  \/ filter = topic
  \/ filter = <<"state", "+">> /\ topic[1] = "state"

\* MqttMessageRouter::messageRouter: handlers are looked up by equality.
HasHandler(topic) == topic \in Filters

\* PendingReportStore::removeByMessageIds, in onStatusAckMessage.
ReceiveAck(id) ==
  /\ id \in acks
  /\ file' = {m \in file : Id(m) # id}
  /\ acks' \in {acks, acks \ {id}}
  /\ UNCHANGED <<executor, link, sent, edge, taken, unknown, crashes>>

\* Any other message: its handler forwards it to the behaviour manager.
RouteMessage(topic) ==
  /\ \E filter \in Filters : Matches(filter, topic)
  /\ unknown' = IF HasHandler(topic) THEN unknown ELSE unknown \cup {topic}
  /\ UNCHANGED <<amr, sent, acks, edge, taken, crashes>>

------------------------------------------------------------------------------
(***************************************************************************)
(* The broker and the edge server, as far as the agent depends on them.    *)
(***************************************************************************)

LinkChanges ==
  /\ link' = ~link
  /\ UNCHANGED <<file, executor, sent, acks, edge, taken, unknown, crashes>>

\* Delivery, at least once, to the queue of the edge's message router.
EdgeReceive(m) ==
  /\ m \in sent \ queue
  /\ queue' = queue \cup {m}
  /\ sent' \in {sent, sent \ {m}}
  /\ UNCHANGED <<amr, acks, handled, taken, unknown, crashes>>

\* AmrCommunication::robotTaskStatusHandler acknowledges when it is done;
\* robotGoodsRequestHandler sends a response only.
EdgeHandle(m) ==
  /\ m \in queue
  /\ queue' = queue \ {m}
  /\ handled' = handled \cup {m}
  /\ acks' = IF IsRequest(m) THEN acks ELSE acks \cup {Id(m)}
  /\ UNCHANGED <<amr, sent, taken, unknown, crashes>>

------------------------------------------------------------------------------
\* The AMR restarts: what its client had not handed to the broker is gone, and
\* so is what its router had not handled.
AmrCrash ==
  /\ crashes < MaxCrashes
  /\ crashes' = crashes + 1
  /\ executor' = Idle
  /\ link' = FALSE
  /\ sent' \in SUBSET sent
  /\ acks' \in SUBSET acks
  /\ UNCHANGED <<file, edge, taken, unknown>>

\* The edge restarts without the queue of its router.
EdgeCrash ==
  /\ crashes < MaxCrashes
  /\ crashes' = crashes + 1
  /\ queue' = {}
  /\ UNCHANGED <<amr, sent, acks, handled, taken, unknown>>

Init ==
  /\ file     = {}
  /\ executor = Idle
  /\ link     = FALSE
  /\ sent     = {}
  /\ acks     = {}
  /\ queue    = {}
  /\ handled  = {}
  /\ taken    = {}
  /\ unknown  = {}
  /\ crashes  = 0

ExecutorStep ==
  \/ PublishEvent \/ StoreReport \/ Flush
  \/ \E m \in Message : FlushReport(m)

Next ==
  \/ ExecutorStep
  \/ \E e \in Event, s \in Stamp : TakeEvent(e, s)
  \/ \E id \in Ids : ReceiveAck(id)
  \/ \E topic \in Topics : RouteMessage(topic)
  \/ \E m \in Message : EdgeReceive(m) \/ EdgeHandle(m)
  \/ LinkChanges
  \/ AmrCrash
  \/ EdgeCrash

Spec == Init /\ [][Next]_vars

(***************************************************************************)
(* Fairness: callbacks that are due run, the flush timer's among them, the *)
(* broker delivers what it was given, and the edge handles its queue.      *)
(* Nothing is assumed of the connection.                                   *)
(***************************************************************************)
FairSpec ==
  /\ Spec
  /\ WF_vars(ExecutorStep)
  /\ \A id \in Ids : WF_vars(ReceiveAck(id))
  /\ \A m \in Message : WF_vars(EdgeReceive(m)) /\ WF_vars(EdgeHandle(m))

------------------------------------------------------------------------------
(***************************************************************************)
(* Properties.                                                             *)
(***************************************************************************)

ExecutorStates ==
       {Idle}
  \cup [pc : {"publish", "store"}, msg : Message]
  \cup [pc : {"flush"}, todo : (SUBSET Message) \ {{}}]

\* Every variable has its type, and no two reports in the file share a
\* message_id (docs: written once per message_id).
TypeOK ==
  /\ file \subseteq Message
  /\ \A m, n \in file : Id(m) = Id(n) => m = n
  /\ executor \in ExecutorStates
  /\ link \in BOOLEAN
  /\ sent \subseteq Message
  /\ acks \subseteq Ids
  /\ queue \subseteq Message
  /\ handled \subseteq Message
  /\ taken \subseteq Message
  /\ unknown \subseteq Topics
  /\ crashes \in 0..MaxCrashes

\* A report leaves the file only when the edge has handled one with its
\* message_id: neither a flush, nor an old acknowledgement, nor a crash of
\* either side loses it.
StoredLeavesWhenHandled ==
  [][\A m \in file :
       m \notin file' => \E h \in handled : Id(h) = Id(m)]_vars

\* Without a crash no event is forgotten, however the connection comes and goes
\* between the look at it, the publish and the flush: under its message_id it is
\* with the executor, in the file, on its way or handled.
NothingForgotten ==
  crashes = 0 =>
    \A m \in taken :
      \/ executor.pc \in {"publish", "store"} /\ executor.msg = m
      \/ \E x \in file \cup sent \cup queue \cup handled : Id(x) = Id(m)

\* If the connection comes back for good, a task report in the file leaves it, and
\* the edge has handled it by then, unless its message_id is another event's too:
\* two events of one type in one millisecond share it, and the acknowledgement of
\* either removes the other unhandled.  Goods requests are never acknowledged.
StoredReportsAreDelivered ==
  \A m \in Message :
    ~IsRequest(m) =>
      (<>[]link =>
         (m \in file ~>
            /\ m \notin file
            /\ m \in handled \/ \E x \in taken \ {m} : Id(x) = Id(m)))

==============================================================================
