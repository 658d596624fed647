---------------------------- MODULE RobotListFeed ----------------------------
(***************************************************************************)
(* The topic robot_list, from the edge's robot table to the list that the  *)
(* simulation manager holds.                                               *)
(*                                                                         *)
(*   timer      Timer::runLoop with RobotListPublisher::publish: a list    *)
(*              for each subscriber, every period and when a robot comes   *)
(*              or goes                                                    *)
(*   service    WebSocketServer::serviceThread, which owns the connections *)
(*   messages   the message threads of both sides                          *)
(*   run        WebSocketClient::run, which connects again and again       *)
(*                                                                         *)
(* A session is numbered by its connection. Pings are left out: they end a *)
(* connection that does not answer, which may happen to any one here, and  *)
(* take the turn of a message, which asks for another.                     *)
(***************************************************************************)
EXTENDS Integers, Sequences

CONSTANTS
  MAX_SEND_QUEUE,
  MaxVersions,    \* bound on the changes of the list
  MaxSessions,    \* bound on the connections; the last one stays
  MaxUnderWay     \* bound: no round begins while more is under way to the client

ASSUME FeedConstants ==
  /\ MAX_SEND_QUEUE \in Nat \ {0}
  /\ MaxVersions \in Nat \ {0} /\ MaxSessions \in Nat \ {0}
  /\ MaxUnderWay \in Nat

VARIABLES
  version,           \* how often the robot table has changed
  registering,       \* a change whose event has not been raised
  m_triggered, timer,
  published,         \* the version that the last round has read
  receivers,         \* the subscribers that the round has yet to serve
  m_subscribers,
  m_sessionById, m_sendQueue, m_needSendClientSet,
  writable,          \* sessions whose turn to write has been asked for
  requests,          \* the edge's m_receiveQueue: sessions that subscribe
  connection,        \* the client's session, 0 for none
  connections,       \* how many there have been
  toClient, toServer,  \* what is under way: lists, and a number of subscriptions
  unsent,            \* subscriptions in the client's m_sendQueue
  events,            \* the client's m_receiveQueue: lists, and 0 for CONNECTED
  held

table    == <<version, registering>>
timing   == <<m_triggered, timer, published, receivers>>
server   == <<m_sessionById, m_sendQueue, m_needSendClientSet, writable, requests>>
link     == <<connection, connections, toClient, toServer>>
client   == <<unsent, events, held>>
vars     == <<table, timing, m_subscribers, server, link, client>>

Sessions == 1 .. MaxSessions
Versions == 1 .. MaxVersions

\* Every variable of the feed has its type.
TypeOK ==
  /\ version \in Versions
  /\ registering \in BOOLEAN
  /\ m_triggered \in BOOLEAN
  /\ timer \in {"wait", "run", "send"}
  /\ published \in 0 .. version
  /\ receivers \subseteq Sessions
  /\ m_subscribers \subseteq Sessions
  /\ m_sessionById \subseteq Sessions
  /\ m_sendQueue \in [Sessions -> Seq(Versions)]
  /\ \A s \in Sessions : Len(m_sendQueue[s]) <= MAX_SEND_QUEUE
  /\ m_needSendClientSet \subseteq Sessions
  /\ writable \subseteq Sessions
  /\ requests \in Seq(Sessions)
  /\ connections \in 0 .. MaxSessions
  /\ connection \in {0, connections}
  /\ toClient \in Seq(Versions) /\ toServer \in Nat
  /\ unsent \in Nat
  /\ events \in Seq({0} \cup Versions)
  /\ held \in 0 .. version

Init ==
  /\ version = 1 /\ registering = FALSE
  /\ m_triggered = FALSE /\ timer = "wait" /\ published = 1 /\ receivers = {}
  /\ m_subscribers = {}
  /\ m_sessionById = {} /\ m_sendQueue = [s \in Sessions |-> <<>>]
  /\ m_needSendClientSet = {} /\ writable = {} /\ requests = <<>>
  /\ connection = 0 /\ connections = 0 /\ toClient = <<>> /\ toServer = 0
  /\ unsent = 0 /\ events = <<>> /\ held = 0

------------------------------------------------------------------------------
(***************************************************************************)
(* The publisher.                                                          *)
(***************************************************************************)

\* registerRobot or markOffline, under m_mutex ...
TableChanges ==
  /\ ~ registering
  /\ version < MaxVersions
  /\ version' = version + 1
  /\ registering' = TRUE
  /\ UNCHANGED <<timing, m_subscribers, server, link, client>>

\* ... and its event: Timer::trigger.
Trigger ==
  /\ registering
  /\ registering' = FALSE
  /\ m_triggered' = TRUE
  /\ UNCHANGED <<version, timer, published, receivers, m_subscribers, server, link, client>>

\* The timer wakes after its period, or at once when it has been triggered.
Wake ==
  /\ timer = "wait"
  /\ Len(toClient) + Len(events) <= MaxUnderWay
  /\ timer' = "run"
  /\ m_triggered' = FALSE
  /\ UNCHANGED <<table, published, receivers, m_subscribers, server, link, client>>

\* publish: nothing without a subscriber.
Publish ==
  /\ timer = "run"
  /\ published' = version
  /\ receivers' = m_subscribers
  /\ timer' = IF m_subscribers = {} THEN "wait" ELSE "send"
  /\ UNCHANGED <<table, m_triggered, m_subscribers, server, link, client>>

\* Fault: the queue has no limit.
SendUnlimited(s) ==
  /\ timer = "send"
  /\ s \in receivers \cap m_sessionById
  /\ m_sendQueue' = [m_sendQueue EXCEPT ![s] = Append(@, published)]
  /\ m_needSendClientSet' = m_needSendClientSet \cup {s}
  /\ receivers' = receivers \ {s}
  /\ timer' = IF receivers' = {} THEN "wait" ELSE "send"
  /\ UNCHANGED <<table, m_triggered, published, m_subscribers, m_sessionById, writable, requests,
                 link, client>>

\* Fault: the trigger is reset after the round, as runLoop does after its immediate one.
SendThenReset(s) ==
  /\ timer = "send"
  /\ s \in receivers
  /\ receivers' = receivers \ {s}
  /\ timer' = IF receivers' = {} THEN "wait" ELSE "send"
  /\ m_triggered' = (m_triggered /\ receivers' # {})
  /\ UNCHANGED <<table, published, m_subscribers, server, link, client>>

\* sendToWSClient: a full queue takes no list, which is not told. A subscriber without a
\* session is struck off.
SendToWSClient(s) ==
  /\ timer = "send"
  /\ s \in receivers
  /\ IF s \in m_sessionById
     THEN /\ m_sendQueue' = IF Len(m_sendQueue[s]) < MAX_SEND_QUEUE
                            THEN [m_sendQueue EXCEPT ![s] = Append(@, published)] ELSE m_sendQueue
          /\ m_needSendClientSet' = m_needSendClientSet \cup {s}
          /\ UNCHANGED m_subscribers
     ELSE /\ m_subscribers' = m_subscribers \ {s}
          /\ UNCHANGED <<m_sendQueue, m_needSendClientSet>>
  /\ receivers' = receivers \ {s}
  /\ timer' = IF receivers' = {} THEN "wait" ELSE "send"
  /\ UNCHANGED <<table, m_triggered, published, m_sessionById, writable, requests, link, client>>

------------------------------------------------------------------------------
(***************************************************************************)
(* The server's threads.                                                   *)
(***************************************************************************)

AskToWrite ==
  /\ m_needSendClientSet # {}
  /\ writable' = writable \cup (m_needSendClientSet \cap m_sessionById)
  /\ m_needSendClientSet' = {}
  /\ UNCHANGED <<table, timing, m_subscribers, m_sessionById, m_sendQueue, requests, link, client>>

\* Fault: the last list is sent first.
OnWriteableLast(s) ==
  /\ s \in writable
  /\ m_sendQueue[s] # <<>>
  /\ m_sendQueue' = [m_sendQueue EXCEPT ![s] = SubSeq(@, 1, Len(@) - 1)]
  /\ toClient' = IF s = connection THEN Append(toClient, m_sendQueue[s][Len(m_sendQueue[s])])
                                   ELSE toClient
  /\ writable' = IF m_sendQueue'[s] = <<>> THEN writable \ {s} ELSE writable
  /\ UNCHANGED <<table, timing, m_subscribers, m_sessionById, m_needSendClientSet, requests,
                 connection, connections, toServer, client>>

\* popMessage, and whether there are more.
OnWriteable(s) ==
  /\ s \in writable
  /\ m_sendQueue' = IF m_sendQueue[s] = <<>> THEN m_sendQueue
                    ELSE [m_sendQueue EXCEPT ![s] = Tail(@)]
  /\ toClient' = IF m_sendQueue[s] # <<>> /\ s = connection
                 THEN Append(toClient, Head(m_sendQueue[s])) ELSE toClient
  /\ writable' = IF m_sendQueue'[s] = <<>> THEN writable \ {s} ELSE writable
  /\ UNCHANGED <<table, timing, m_subscribers, m_sessionById, m_needSendClientSet, requests,
                 connection, connections, toServer, client>>

OnReceive ==
  /\ toServer > 0
  /\ toServer' = toServer - 1
  /\ requests' = Append(requests, connection)
  /\ UNCHANGED <<table, timing, m_subscribers, m_sessionById, m_sendQueue, m_needSendClientSet,
                 writable, connection, connections, toClient, client>>

\* messageThread, handleSubscribe and TopicManager::subscribe.
Subscribe ==
  /\ requests # <<>>
  /\ m_subscribers' = m_subscribers \cup {Head(requests)}
  /\ requests' = Tail(requests)
  /\ UNCHANGED <<table, timing, m_sessionById, m_sendQueue, m_needSendClientSet, writable,
                 link, client>>

\* onDisconnected, or cleanupSession after a ping without its answer.
SessionEnds(s) ==
  /\ s \in m_sessionById
  /\ s = connection => connection < MaxSessions
  /\ m_sessionById' = m_sessionById \ {s}
  /\ m_sendQueue' = [m_sendQueue EXCEPT ![s] = <<>>]
  /\ writable' = writable \ {s}
  /\ UNCHANGED <<table, timing, m_subscribers, m_needSendClientSet, requests, link, client>>

------------------------------------------------------------------------------
(***************************************************************************)
(* The client.                                                             *)
(***************************************************************************)

\* A session of its own for every connection; what is unsent or unhandled stays.
Connect ==
  /\ connection = 0
  /\ connections < MaxSessions
  /\ connections' = connections + 1
  /\ connection' = connections'
  /\ m_sessionById' = m_sessionById \cup {connection'}
  /\ events' = Append(events, 0)
  /\ UNCHANGED <<table, timing, m_subscribers, m_sendQueue, m_needSendClientSet, writable,
                 requests, toClient, toServer, unsent, held>>

\* onConnectionClosed: what is under way is lost.
ConnectionCloses ==
  /\ connection # 0
  /\ connection \in m_sessionById => connection < MaxSessions
  /\ connection' = 0
  /\ toClient' = <<>> /\ toServer' = 0
  /\ UNCHANGED <<table, timing, m_subscribers, server, connections, client>>

OnReceiveList ==
  /\ toClient # <<>>
  /\ events' = Append(events, Head(toClient))
  /\ toClient' = Tail(toClient)
  /\ UNCHANGED <<table, timing, m_subscribers, server, connection, connections, toServer,
                 unsent, held>>

\* Fault: only the first connection is answered by a subscription.
OnEventOnce ==
  /\ events # <<>>
  /\ IF Head(events) = 0 THEN unsent' = (IF connections = 1 THEN 1 ELSE unsent) /\ UNCHANGED held
                         ELSE held' = Head(events) /\ UNCHANGED unsent
  /\ events' = Tail(events)
  /\ UNCHANGED <<table, timing, m_subscribers, server, link>>

\* EdgeClient::onEventCallback: a connection is answered by a subscription, a list is taken.
OnEvent ==
  /\ events # <<>>
  /\ IF Head(events) = 0 THEN unsent' = unsent + 1 /\ UNCHANGED held
                         ELSE held' = Head(events) /\ UNCHANGED unsent
  /\ events' = Tail(events)
  /\ UNCHANGED <<table, timing, m_subscribers, server, link>>

OnWrite ==
  /\ connection # 0
  /\ unsent > 0
  /\ unsent' = unsent - 1
  /\ toServer' = toServer + 1
  /\ UNCHANGED <<table, timing, m_subscribers, server, connection, connections, toClient,
                 events, held>>

------------------------------------------------------------------------------
Timer == Wake \/ Publish \/ \E s \in Sessions : SendToWSClient(s)

Next ==
  \/ TableChanges \/ Trigger
  \/ Timer
  \/ AskToWrite \/ (\E s \in Sessions : OnWriteable(s) \/ SessionEnds(s))
  \/ OnReceive \/ Subscribe
  \/ Connect \/ ConnectionCloses \/ OnReceiveList \/ OnEvent \/ OnWrite

Spec == Init /\ [][Next]_vars

\* Every thread goes on; an end that one side has seen reaches the other.
FairSpec ==
  /\ Spec
  /\ WF_vars(Trigger) /\ WF_vars(Timer)
  /\ WF_vars(AskToWrite) /\ (\A s \in Sessions : WF_vars(OnWriteable(s)))
  /\ WF_vars(OnReceive) /\ WF_vars(Subscribe)
  /\ WF_vars(Connect) /\ WF_vars(OnReceiveList) /\ WF_vars(OnEvent) /\ WF_vars(OnWrite)
  /\ (\A s \in Sessions : WF_vars(s # connection /\ SessionEnds(s)))
  /\ WF_vars(connection \notin m_sessionById /\ ConnectionCloses)

------------------------------------------------------------------------------
\* A registration that falls into a round that is already sending has a round of its own,
\* without waiting for the period: the trigger is reset before the list is read.
TriggerIsKept == version = published \/ registering \/ m_triggered \/ timer = "run"

\* The lists that the manager takes are the edge's, never an older one after a newer one,
\* whatever connections they came by.
Feed == INSTANCE ListFeed
ImplementsFeed == Feed!FeedSpec

\* Once the connection stays and the robots stay, the manager holds the current list, and
\* only its own session is subscribed.
CurrentListArrives == <>[](held = version /\ m_subscribers = {connection})

==============================================================================
