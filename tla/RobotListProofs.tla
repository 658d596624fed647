-------------------------- MODULE RobotListProofs --------------------------
(***************************************************************************)
(* The robot list on its way from the edge's tables to Gazebo's models:    *)
(* theorems about the feed that brings it to the manager (RobotListFeed)   *)
(* and about the manager that launches and deletes models after it         *)
(* (SimLifecycle), for any constants that their assumptions allow.         *)
(***************************************************************************)
EXTENDS RobotListFeed, SimLifecycle, FiniteSetTheorems, TLAPS


\* The lists of q are none of a version after n, or none of one before n; 0 is no list.
UpTo(q, n)  == \A i \in 1 .. Len(q) : q[i] <= n
Above(n, q) == \A i \in 1 .. Len(q) : q[i] # 0 => n <= q[i]

\* Within q, and between p and q that follows it, versions do not decrease.
Sorted(q)    == \A i, j \in 1 .. Len(q) : i < j /\ q[j] # 0 => q[i] <= q[j]
Before(p, q) == \A i \in 1 .. Len(p) : Above(p[i], q)

\* Whatever waits in a queue was published, and the lists of a session follow each other.
QueuesOK ==
  /\ published # 0
  /\ m_sessionById \subseteq 1 .. connections
  /\ \A s \in Sessions : /\ s \notin m_sessionById => m_sendQueue[s] = <<>>
                         /\ Sorted(m_sendQueue[s]) /\ UpTo(m_sendQueue[s], published)

\* The lists that the manager holds, has received and is being sent follow each other.
ClientOK ==
  /\ held <= published /\ Above(held, events) /\ Above(held, toClient)
  /\ Sorted(events) /\ UpTo(events, published) /\ Before(events, toClient)
  /\ Sorted(toClient) /\ UpTo(toClient, published)
  /\ connection = 0 => toClient = <<>>

\* They come before those that wait for the manager's session.
SessionOK ==
  connection # 0 => /\ Above(held, m_sendQueue[connection])
                    /\ Before(events, m_sendQueue[connection])
                    /\ Before(toClient, m_sendQueue[connection])

OrderInv == TypeOK /\ QueuesOK /\ ClientOK /\ SessionOK /\ TriggerIsKept

\* Without a connection no subscription is under way.
WireOK == connection = 0 => toServer = 0

\* The inductive invariant.
FeedInv == OrderInv /\ WireOK

USE FeedConstants DEF FeedConstants

------------------------------------------------------------------------------
(* Queues. *)

LEMMA AppendFacts ==
  ASSUME NEW q \in Seq(Nat), NEW x \in Nat
  PROVE  /\ Append(q, x) \in Seq(Nat)
         /\ Sorted(q) /\ (x = 0 \/ UpTo(q, x)) => Sorted(Append(q, x))
         /\ \A n \in Nat : UpTo(q, n) /\ x <= n => UpTo(Append(q, x), n)
         /\ \A n \in Nat : Above(n, q) /\ (x = 0 \/ n <= x) => Above(n, Append(q, x))
<1>1. /\ Append(q, x) \in Seq(Nat) /\ Len(Append(q, x)) = Len(q) + 1 /\ Len(q) \in Nat
      /\ \A i \in 1 .. Len(q) : Append(q, x)[i] = q[i] /\ q[i] \in Nat
      /\ Append(q, x)[Len(q) + 1] = x
  OBVIOUS
<1>2. \A i \in 1 .. Len(Append(q, x)) : i \in 1 .. Len(q) \/ i = Len(q) + 1
  BY <1>1
<1>3. ASSUME Sorted(q), x = 0 \/ UpTo(q, x)
      PROVE  Sorted(Append(q, x))
  <2> SUFFICES ASSUME NEW i \in 1 .. Len(Append(q, x)), NEW j \in 1 .. Len(Append(q, x)),
                      i < j, Append(q, x)[j] # 0
               PROVE  Append(q, x)[i] <= Append(q, x)[j]
    BY DEF Sorted
  <2>1. i \in 1 .. Len(q)
    BY <1>1, <1>2
  <2>2. CASE j \in 1 .. Len(q) BY <1>1, <1>3, <2>1, <2>2 DEF Sorted
  <2>3. CASE j = Len(q) + 1 BY <1>1, <1>3, <2>1, <2>3 DEF UpTo
  <2> QED BY <1>2, <2>2, <2>3
<1> QED BY <1>1, <1>2, <1>3 DEF UpTo, Above

LEMMA TailFacts ==
  ASSUME NEW q \in Seq(Nat), q # <<>>
  PROVE  /\ Tail(q) \in Seq(Nat) /\ Head(q) \in Nat
         /\ Sorted(q) => Sorted(Tail(q)) /\ Above(Head(q), Tail(q))
         /\ \A n \in Nat : UpTo(q, n) => UpTo(Tail(q), n) /\ Head(q) <= n
         /\ \A n \in Nat : Above(n, q) => Above(n, Tail(q)) /\ (Head(q) = 0 \/ n <= Head(q))
<1>1. /\ Tail(q) \in Seq(Nat) /\ Len(Tail(q)) = Len(q) - 1 /\ Len(q) \in Nat \ {0}
      /\ \A i \in 1 .. Len(Tail(q)) : Tail(q)[i] = q[i + 1] /\ i + 1 \in 1 .. Len(q)
      /\ \A i \in 1 .. Len(q) : q[i] \in Nat
      /\ Head(q) = q[1] /\ 1 \in 1 .. Len(q)
  OBVIOUS
<1>2. ASSUME Sorted(q)
      PROVE  Sorted(Tail(q)) /\ Above(Head(q), Tail(q))
  <2>1. Sorted(Tail(q)) BY <1>1, <1>2 DEF Sorted
  <2>2. Above(Head(q), Tail(q))
    <3> SUFFICES ASSUME NEW i \in 1 .. Len(Tail(q)), Tail(q)[i] # 0
                 PROVE  Head(q) <= Tail(q)[i]
      BY DEF Above
    <3>1. 1 < i + 1 /\ q[i + 1] # 0 /\ i + 1 \in 1 .. Len(q) BY <1>1
    <3> QED BY <1>1, <1>2, <3>1 DEF Sorted
  <2> QED BY <2>1, <2>2
<1> QED BY <1>1, <1>2 DEF UpTo, Above

\* Between two queues.
LEMMA BeforeFacts ==
  ASSUME NEW p \in Seq(Nat), NEW q \in Seq(Nat), NEW x \in Nat
  PROVE  /\ Before(p, q) /\ (x = 0 \/ UpTo(p, x)) => Before(p, Append(q, x))
         /\ Before(p, q) /\ Above(x, q) => Before(Append(p, x), q)
         /\ Before(p, q) /\ q # <<>> => Before(p, Tail(q))
         /\ Before(p, q) /\ p # <<>> => Before(Tail(p), q) /\ Above(Head(p), q)
         /\ Before(p, <<>>) /\ Above(x, <<>>)
<1>1. \A i \in 1 .. Len(p) : p[i] \in Nat OBVIOUS
<1>2. Before(p, q) /\ (x = 0 \/ UpTo(p, x)) => Before(p, Append(q, x))
  BY <1>1, AppendFacts DEF Before, UpTo
<1>3. Before(p, q) /\ Above(x, q) => Before(Append(p, x), q)
  <2>1. /\ \A i \in 1 .. Len(Append(p, x)) : i \in 1 .. Len(p) \/ i = Len(p) + 1
        /\ \A i \in 1 .. Len(p) : Append(p, x)[i] = p[i]
        /\ Append(p, x)[Len(p) + 1] = x
    OBVIOUS
  <2> QED BY <2>1 DEF Before
<1>4. Before(p, q) /\ q # <<>> => Before(p, Tail(q))
  BY <1>1, TailFacts DEF Before
<1>5. Before(p, q) /\ p # <<>> => Before(Tail(p), q) /\ Above(Head(p), q)
  <2> SUFFICES ASSUME Before(p, q), p # <<>> PROVE Before(Tail(p), q) /\ Above(Head(p), q)
    OBVIOUS
  <2>1. /\ \A i \in 1 .. Len(Tail(p)) : Tail(p)[i] = p[i + 1] /\ i + 1 \in 1 .. Len(p)
        /\ Head(p) = p[1] /\ 1 \in 1 .. Len(p)
    OBVIOUS
  <2> QED BY <2>1 DEF Before
<1>6. Before(p, <<>>) /\ Above(x, <<>>) BY DEF Before, Above
<1> QED BY <1>2, <1>3, <1>4, <1>5, <1>6

------------------------------------------------------------------------------
(* The steps. *)

LEMMA FeedTypes ==
  ASSUME TypeOK
  PROVE  /\ version \in Nat /\ published \in Nat /\ held \in Nat /\ connections \in Nat
         /\ published <= version
         /\ events \in Seq(Nat) /\ toClient \in Seq(Nat)
         /\ \A s \in Sessions : m_sendQueue[s] \in Seq(Nat)
<1>1. version \in Nat /\ published \in Nat /\ held \in Nat /\ connections \in Nat
      /\ published <= version
  BY DEF TypeOK, Versions
<1>2. \A q \in Seq({0} \cup Versions) : q \in Seq(Nat)
  BY DEF Versions
<1>3. \A q \in Seq(Versions) : q \in Seq(Nat)
  BY DEF Versions
<1> QED BY <1>1, <1>2, <1>3 DEF TypeOK

LEMMA OrderInit == Init => OrderInv
<1> SUFFICES ASSUME Init PROVE OrderInv OBVIOUS
<1>1. m_sendQueue \in [Sessions -> Seq(Versions)] BY DEF Init
<1>2. \A s \in Sessions : m_sendQueue[s] = <<>> BY DEF Init
<1>3. /\ \A s \in Sessions : Len(m_sendQueue[s]) <= MAX_SEND_QUEUE
      /\ <<>> \in Seq(Sessions) /\ <<>> \in Seq(Versions) /\ <<>> \in Seq({0} \cup Versions)
      /\ 1 \in Versions /\ 0 \in 0 .. MaxSessions
  BY <1>2 DEF Versions
<1>4. TypeOK
  <2>1. /\ version \in Versions /\ published \in 0 .. version /\ held \in 0 .. version
        /\ connections \in 0 .. MaxSessions /\ connection \in {0, connections}
        /\ toServer \in Nat /\ unsent \in Nat
    BY <1>3 DEF Init
  <2>2. /\ toClient \in Seq(Versions) /\ events \in Seq({0} \cup Versions)
        /\ requests \in Seq(Sessions)
    BY <1>3 DEF Init
  <2> QED BY <1>1, <1>3, <2>1, <2>2 DEF Init, TypeOK
<1>5. QueuesOK BY <1>2 DEF Init, QueuesOK, Sorted, UpTo
<1>6. ClientOK BY DEF Init, ClientOK, Above, Sorted, UpTo, Before
<1>7. SessionOK /\ TriggerIsKept BY DEF Init, SessionOK, TriggerIsKept
<1> QED BY <1>4, <1>5, <1>6, <1>7 DEF OrderInv

\* What the order of the lists reads.
order == <<m_sessionById, m_sendQueue, connection, connections, toClient, events, held>>

LEMMA OrderKept ==
  ASSUME OrderInv, UNCHANGED order, published' \in Nat \ {0}, published <= published'
  PROVE  QueuesOK' /\ ClientOK' /\ SessionOK'
<1> USE FeedTypes DEF OrderInv, order
<1>1. \A q \in Seq(Nat) : UpTo(q, published) => UpTo(q, published')
  BY DEF UpTo
<1>2. QueuesOK' BY <1>1 DEF QueuesOK
<1>3. ClientOK' BY <1>1 DEF ClientOK
<1>4. SessionOK' BY DEF SessionOK
<1> QED BY <1>2, <1>3, <1>4

\* A round reads the version after it has reset the trigger.
LEMMA TimerKeeps ==
  ASSUME OrderInv, TableChanges \/ Trigger \/ Wake \/ Publish
  PROVE  OrderInv'
<1> USE FeedTypes DEF OrderInv
<1>1. UNCHANGED order /\ published' \in Nat \ {0} /\ published <= published'
  BY DEF QueuesOK, TableChanges, Trigger, Wake, Publish, order, timing, server, link, client
<1>2. QueuesOK' /\ ClientOK' /\ SessionOK'
  BY <1>1, OrderKept
<1>3. TypeOK'
  <2>1. CASE TableChanges
    <3>1. version' \in Versions /\ version <= version' BY <2>1 DEF TableChanges, TypeOK, Versions
    <3> QED BY <2>1, <3>1 DEF TableChanges, TypeOK, timing, server, link, client
  <2>2. CASE Trigger BY <2>2 DEF Trigger, TypeOK, server, link, client
  <2>3. CASE Wake BY <2>3 DEF Wake, TypeOK, table, server, link, client
  <2>4. CASE Publish
    <3>1. published' \in 0 .. version BY <2>4 DEF Publish
    <3> QED BY <2>4, <3>1 DEF Publish, TypeOK, table, server, link, client
  <2> QED BY <2>1, <2>2, <2>3, <2>4
<1>4. TriggerIsKept'
  BY DEF TableChanges, Trigger, Wake, Publish, TriggerIsKept, TypeOK, table, timing
<1> QED BY <1>2, <1>3, <1>4

LEMMA SendKeeps ==
  ASSUME OrderInv, NEW s \in Sessions, SendToWSClient(s)
  PROVE  OrderInv'
<1> USE FeedTypes DEF OrderInv
<1>1. TriggerIsKept'
  BY DEF SendToWSClient, TriggerIsKept, table
<1>2. CASE s \in m_sessionById /\ Len(m_sendQueue[s]) < MAX_SEND_QUEUE
  <2> DEFINE q == Append(m_sendQueue[s], published)
  <2>1. /\ m_sendQueue' = [m_sendQueue EXCEPT ![s] = q]
        /\ UNCHANGED <<m_subscribers, table, published, m_sessionById, link, client>>
    BY <1>2 DEF SendToWSClient
  <2>2. published \in Versions
    BY DEF QueuesOK, TypeOK, Versions
  <2>3. q \in Seq(Versions) /\ Len(q) <= MAX_SEND_QUEUE
    BY <1>2, <2>2 DEF TypeOK
  <2>4. TypeOK'
    BY <1>2, <2>1, <2>3 DEF SendToWSClient, TypeOK, table, link, client
  <2>5. m_sendQueue'[s] = q /\ \A o \in Sessions \ {s} : m_sendQueue'[o] = m_sendQueue[o]
    BY <2>1 DEF TypeOK
  <2>6. Sorted(q) /\ UpTo(q, published)
    BY AppendFacts DEF QueuesOK
  <2>7. QueuesOK' BY <1>2, <2>1, <2>5, <2>6 DEF QueuesOK, link
  <2>8. ClientOK' BY <2>1 DEF ClientOK, link, client
  <2>9. SessionOK'
    <3> SUFFICES ASSUME connection # 0, s = connection
                 PROVE  Above(held, q) /\ Before(events, q) /\ Before(toClient, q)
      BY <2>1, <2>5 DEF SessionOK, TypeOK, link, client, Sessions
    <3> QED BY AppendFacts, BeforeFacts DEF SessionOK, ClientOK
  <2> QED BY <1>1, <2>4, <2>7, <2>8, <2>9
<1>3. CASE ~(s \in m_sessionById /\ Len(m_sendQueue[s]) < MAX_SEND_QUEUE)
  <2>1. UNCHANGED order /\ published' = published
    BY <1>3 DEF SendToWSClient, order, link, client
  <2>2. TypeOK'
    BY <1>3 DEF SendToWSClient, TypeOK, table, link, client
  <2> QED BY <1>1, <2>1, <2>2, OrderKept DEF QueuesOK
<1> QED BY <1>2, <1>3

LEMMA ServerKeeps ==
  ASSUME OrderInv, WireOK, AskToWrite \/ OnReceive \/ Subscribe
  PROVE  OrderInv'
<1> USE FeedTypes DEF OrderInv
<1>1. UNCHANGED order /\ published' = published
  BY DEF AskToWrite, OnReceive, Subscribe, order, timing, client, link
<1>2. TypeOK'
  <2>1. CASE AskToWrite BY <2>1 DEF AskToWrite, TypeOK, table, timing, link, client
  <2>2. CASE OnReceive
    <3>1. connection \in Sessions
      BY <2>2 DEF OnReceive, TypeOK, Sessions, WireOK
    <3> QED BY <2>2, <3>1 DEF OnReceive, TypeOK, table, timing, client
  <2>3. CASE Subscribe BY <2>3 DEF Subscribe, TypeOK, table, timing, link, client
  <2> QED BY <2>1, <2>2, <2>3
<1>3. TriggerIsKept'
  BY DEF AskToWrite, OnReceive, Subscribe, TriggerIsKept, table, timing
<1> QED BY <1>1, <1>2, <1>3, OrderKept DEF QueuesOK

\* The first of the lists that wait goes to the manager, if the session is its own.
LEMMA WriteKeeps ==
  ASSUME OrderInv, NEW s \in Sessions, OnWriteable(s)
  PROVE  OrderInv'
<1> USE FeedTypes DEF OrderInv
<1>1. TriggerIsKept'
  BY DEF OnWriteable, TriggerIsKept, table, timing
<1>2. CASE m_sendQueue[s] = <<>>
  <2>1. UNCHANGED order /\ published' = published
    BY <1>2 DEF OnWriteable, order, timing, client
  <2>2. TypeOK'
    BY <1>2 DEF OnWriteable, TypeOK, table, timing, client
  <2> QED BY <1>1, <2>1, <2>2, OrderKept DEF QueuesOK
<1>3. CASE m_sendQueue[s] # <<>>
  <2> DEFINE q == m_sendQueue[s]
  <2>1. /\ m_sendQueue' = [m_sendQueue EXCEPT ![s] = Tail(q)]
        /\ toClient' = IF s = connection THEN Append(toClient, Head(q)) ELSE toClient
        /\ UNCHANGED <<table, timing, m_sessionById, connection, connections, client>>
    BY <1>3 DEF OnWriteable
  <2>2. /\ Tail(q) \in Seq(Versions) /\ Head(q) \in Versions /\ Len(Tail(q)) <= MAX_SEND_QUEUE
        /\ Head(q) # 0
    BY <1>3 DEF TypeOK, Versions
  <2>3. m_sendQueue'[s] = Tail(q) /\ \A o \in Sessions \ {s} : m_sendQueue'[o] = m_sendQueue[o]
    BY <2>1 DEF TypeOK
  <2>4. TypeOK'
    <3>1. /\ toClient' \in Seq(Versions) /\ m_sendQueue' \in [Sessions -> Seq(Versions)]
          /\ \A o \in Sessions : Len(m_sendQueue'[o]) <= MAX_SEND_QUEUE
      BY <2>1, <2>2, <2>3 DEF TypeOK
    <3>2. writable' \subseteq Sessions
      BY DEF OnWriteable, TypeOK
    <3>3. UNCHANGED <<table, timing, m_subscribers, m_sessionById, m_needSendClientSet, requests,
                      connection, connections, toServer, client>>
      BY DEF OnWriteable
    <3> QED BY <3>1, <3>2, <3>3 DEF TypeOK, table, timing, client
  <2>5. QueuesOK'
    BY <1>3, <2>1, <2>3, TailFacts DEF QueuesOK, timing
  <2>6. CASE s = connection
    <3>1. /\ connection # 0 /\ Sorted(q) /\ UpTo(q, published)
      BY <2>6 DEF QueuesOK, Sessions
    <3>2. /\ Above(held, q) /\ Before(events, q) /\ Before(toClient, q)
      BY <2>6, <3>1 DEF SessionOK
    <3>3. Head(q) \in Nat /\ Head(q) <= published /\ held <= Head(q) /\ Above(Head(q), Tail(q))
          /\ Above(held, Tail(q)) /\ Tail(q) \in Seq(Nat)
      BY <1>3, <2>2, <3>1, <3>2, TailFacts
    <3>4. UpTo(events, Head(q)) /\ UpTo(toClient, Head(q))
      <4>1. q[1] # 0 /\ q[1] = Head(q) /\ 1 \in 1 .. Len(q)
        BY <1>3, <2>2
      <4> HIDE DEF q
      <4> QED BY <3>2, <4>1 DEF Before, Above, UpTo
    <3>5. ClientOK'
      BY <2>1, <2>6, <3>1, <3>3, <3>4, AppendFacts, BeforeFacts DEF ClientOK, timing, client
    <3>6. Before(events, Tail(q)) /\ Before(toClient, Tail(q))
      BY <1>3, <3>2, BeforeFacts
    <3>7. Before(Append(toClient, Head(q)), Tail(q))
      BY <3>3, <3>6, BeforeFacts
    <3>8. SessionOK'
      BY <2>1, <2>3, <2>6, <3>3, <3>6, <3>7 DEF SessionOK, client
    <3> QED BY <1>1, <2>4, <2>5, <3>5, <3>8
  <2>7. CASE s # connection
    <3>1. ClientOK' BY <2>1, <2>7 DEF ClientOK, timing, client
    <3>2. connection # 0 => m_sendQueue'[connection] = m_sendQueue[connection]
      BY <2>3, <2>7 DEF TypeOK, Sessions
    <3>3. SessionOK' BY <2>1, <2>7, <3>2 DEF SessionOK, client
    <3> QED BY <1>1, <2>4, <2>5, <3>1, <3>3
  <2> QED BY <2>6, <2>7
<1> QED BY <1>2, <1>3

LEMMA SessionEndKeeps ==
  ASSUME OrderInv, NEW s \in Sessions, SessionEnds(s)
  PROVE  OrderInv'
<1> USE FeedTypes DEF OrderInv
<1>1. TriggerIsKept'
  BY DEF SessionEnds, TriggerIsKept, table, timing
<1>2. m_sendQueue'[s] = <<>> /\ \A o \in Sessions \ {s} : m_sendQueue'[o] = m_sendQueue[o]
  BY DEF SessionEnds, TypeOK
<1>3. m_sendQueue' \in [Sessions -> Seq(Versions)] /\ Len(m_sendQueue'[s]) <= MAX_SEND_QUEUE
  BY <1>2 DEF SessionEnds, TypeOK
<1>4. TypeOK'
  BY <1>2, <1>3 DEF SessionEnds, TypeOK, table, timing, link, client
<1>5. QueuesOK'
  BY <1>2 DEF SessionEnds, QueuesOK, Sorted, UpTo, timing, link
<1>6. ClientOK' BY DEF SessionEnds, ClientOK, timing, link, client
<1>7. SessionOK'
  <2>1. CASE s = connection
    BY <1>2, <2>1, BeforeFacts DEF SessionEnds, SessionOK, link, client
  <2>2. CASE s # connection
    BY <1>2, <2>2 DEF SessionEnds, SessionOK, TypeOK, Sessions, link, client
  <2> QED BY <2>1, <2>2
<1> QED BY <1>1, <1>4, <1>5, <1>6, <1>7

------------------------------------------------------------------------------
(* The client. *)

\* A new session has an empty queue.
LEMMA ConnectKeeps ==
  ASSUME OrderInv, Connect
  PROVE  OrderInv'
<1> USE FeedTypes DEF OrderInv
<1>1. /\ connection' = connections + 1 /\ connections' = connections + 1
      /\ connection' \in Sessions /\ connection' \notin m_sessionById /\ connection' # 0
      /\ m_sendQueue[connection'] = <<>>
      /\ m_sessionById' = m_sessionById \cup {connection'}
      /\ events' = Append(events, 0)
  BY DEF Connect, QueuesOK, TypeOK, Sessions
<1>2. TypeOK'
  <2>1. events' \in Seq({0} \cup Versions) /\ connections' \in 0 .. MaxSessions
    BY <1>1 DEF Connect, TypeOK, Sessions
  <2> QED BY <1>1, <2>1 DEF Connect, TypeOK, table, timing
<1>3. QueuesOK'
  <2>1. UNCHANGED <<published, m_sendQueue>> BY DEF Connect, timing
  <2>2. m_sessionById' \subseteq 1 .. connections'
    <3>1. connections \in Nat /\ m_sessionById \subseteq 1 .. connections BY DEF QueuesOK
    <3>2. 1 .. connections \subseteq 1 .. connections + 1 BY <3>1
    <3>3. connections + 1 \in 1 .. connections + 1 BY <3>1
    <3> QED BY <1>1, <3>1, <3>2, <3>3
  <2> QED BY <1>1, <2>1, <2>2 DEF QueuesOK
<1>4. toClient = <<>> /\ toClient' = toClient /\ held' = held /\ published' = published
  BY DEF Connect, ClientOK, timing
<1>5. Sorted(events') /\ UpTo(events', published) /\ Above(held, events')
  BY <1>1, AppendFacts DEF ClientOK
<1>6. ClientOK'
  BY <1>1, <1>4, <1>5 DEF ClientOK, Above, Before, Sorted, UpTo
<1>7. SessionOK'
  BY <1>1, <1>4 DEF Connect, SessionOK, Above, Before
<1>8. TriggerIsKept' BY DEF Connect, TriggerIsKept, table, timing
<1> QED BY <1>2, <1>3, <1>6, <1>7, <1>8

LEMMA CloseKeeps ==
  ASSUME OrderInv, ConnectionCloses
  PROVE  OrderInv'
<1> USE FeedTypes DEF OrderInv
<1>1. TypeOK'
  BY DEF ConnectionCloses, TypeOK, table, timing, server, client
<1>2. QueuesOK' BY DEF ConnectionCloses, QueuesOK, timing, server
<1>3. ClientOK'
  BY DEF ConnectionCloses, ClientOK, timing, client, Above, Before, Sorted, UpTo
<1>4. SessionOK' /\ TriggerIsKept'
  BY DEF ConnectionCloses, SessionOK, TriggerIsKept, table, timing
<1> QED BY <1>1, <1>2, <1>3, <1>4

LEMMA ReceiveKeeps ==
  ASSUME OrderInv, OnReceiveList
  PROVE  OrderInv'
<1> USE FeedTypes DEF OrderInv
<1>1. toClient # <<>> /\ events' = Append(events, Head(toClient)) /\ toClient' = Tail(toClient)
  BY DEF OnReceiveList
<1>2. TypeOK'
  BY <1>1 DEF OnReceiveList, TypeOK, table, timing, server
<1>3. QueuesOK' BY DEF OnReceiveList, QueuesOK, timing, server
<1>4. /\ Head(toClient) \in Nat /\ Head(toClient) # 0 /\ Head(toClient) <= published
      /\ held <= Head(toClient)
      /\ Above(Head(toClient), Tail(toClient)) /\ Above(held, Tail(toClient))
  BY <1>1, TailFacts DEF ClientOK, TypeOK, Versions
<1>5. UpTo(events, Head(toClient))
  <2>1. Head(toClient) = toClient[1] /\ 1 \in 1 .. Len(toClient) BY <1>1
  <2> QED BY <1>4, <2>1 DEF ClientOK, Before, Above, UpTo
<1>6. Before(events, Tail(toClient))
  BY <1>1, BeforeFacts DEF ClientOK
<1>7. Tail(toClient) \in Seq(Nat) /\ Sorted(Tail(toClient)) /\ UpTo(Tail(toClient), published)
  BY <1>1, TailFacts DEF ClientOK
<1>8. Before(events', toClient')
  BY <1>1, <1>4, <1>6, <1>7, BeforeFacts
<1>9. Sorted(events') /\ UpTo(events', published) /\ Above(held, events')
  BY <1>1, <1>4, <1>5, AppendFacts DEF ClientOK
<1>10. ClientOK'
  BY <1>1, <1>4, <1>7, <1>8, <1>9 DEF OnReceiveList, ClientOK, timing
<1>11. SessionOK'
  <2> SUFFICES ASSUME connection # 0
               PROVE  /\ Above(held, m_sendQueue[connection])
                      /\ Before(events', m_sendQueue[connection])
                      /\ Before(toClient', m_sendQueue[connection])
    BY DEF OnReceiveList, SessionOK, server
  <2>1. connection \in Sessions BY DEF TypeOK, Sessions
  <2> QED BY <1>1, <1>4, <1>7, <2>1, BeforeFacts DEF SessionOK
<1>12. TriggerIsKept' BY DEF OnReceiveList, TriggerIsKept, table, timing
<1> QED BY <1>2, <1>3, <1>10, <1>11, <1>12

LEMMA EventKeeps ==
  ASSUME OrderInv, OnEvent
  PROVE  OrderInv' /\ held' \in {v \in 0 .. version : v >= held}
         /\ (held' # held => held' \in 1 .. version)
<1> USE FeedTypes DEF OrderInv
<1>1. /\ events # <<>> /\ events' = Tail(events)
      /\ held' = IF Head(events) = 0 THEN held ELSE Head(events)
      /\ UNCHANGED <<table, timing, m_subscribers, server, link>>
  BY DEF OnEvent
<1>2. /\ Head(events) \in Nat /\ Head(events) <= published
      /\ Head(events) = 0 \/ held <= Head(events)
      /\ Above(Head(events), Tail(events)) /\ Above(held, Tail(events))
      /\ Tail(events) \in Seq(Nat) /\ Sorted(Tail(events)) /\ UpTo(Tail(events), published)
      /\ Before(Tail(events), toClient) /\ Above(Head(events), toClient)
  BY <1>1, TailFacts, BeforeFacts DEF ClientOK
<1>3. held' \in 0 .. version /\ held <= held' /\ held' <= published
      /\ (held' # held => held' \in 1 .. version)
  BY <1>1, <1>2 DEF ClientOK
<1>4. TypeOK'
  BY <1>1, <1>3 DEF OnEvent, TypeOK, table, timing, server, link
<1>5. QueuesOK' BY <1>1 DEF QueuesOK, timing, server, link
<1>6. ClientOK'
  BY <1>1, <1>2, <1>3 DEF ClientOK, timing, link
<1>7. SessionOK'
  <2> SUFFICES ASSUME connection # 0
               PROVE  /\ Above(held', m_sendQueue[connection])
                      /\ Before(Tail(events), m_sendQueue[connection])
                      /\ Before(toClient, m_sendQueue[connection])
    BY <1>1 DEF SessionOK, server, link
  <2>1. connection \in Sessions BY DEF TypeOK, Sessions
  <2>2. Above(Head(events), m_sendQueue[connection])
        /\ Before(Tail(events), m_sendQueue[connection])
    BY <1>1, <2>1, BeforeFacts DEF SessionOK
  <2> QED BY <1>1, <2>2 DEF SessionOK
<1>8. TriggerIsKept' BY <1>1 DEF TriggerIsKept, table, timing
<1> QED BY <1>3, <1>4, <1>5, <1>6, <1>7, <1>8

LEMMA WriteRequestKeeps ==
  ASSUME OrderInv, OnWrite
  PROVE  OrderInv'
<1> USE FeedTypes DEF OrderInv
<1>1. UNCHANGED order /\ published' = published
  BY DEF OnWrite, order, timing, server
<1>2. TypeOK' BY DEF OnWrite, TypeOK, table, timing, server
<1>3. TriggerIsKept' BY DEF OnWrite, TriggerIsKept, table, timing
<1> QED BY <1>1, <1>2, <1>3, OrderKept DEF QueuesOK

------------------------------------------------------------------------------
(* The theorems. *)

LEMMA OrderStep == FeedInv /\ [Next]_vars => OrderInv'
<1> SUFFICES ASSUME FeedInv, [Next]_vars PROVE OrderInv' OBVIOUS
<1> USE DEF FeedInv
<1>1. CASE UNCHANGED vars
  <2>1. UNCHANGED order /\ published' = published
    BY <1>1 DEF vars, order, table, timing, server, link, client
  <2>2. TypeOK' /\ TriggerIsKept'
    BY <1>1 DEF OrderInv, TypeOK, TriggerIsKept, vars, table, timing, server, link, client
  <2> QED BY <2>1, <2>2, OrderKept, FeedTypes DEF OrderInv, QueuesOK
<1>2. CASE Next
  BY <1>2, TimerKeeps, SendKeeps, ServerKeeps, WriteKeeps, SessionEndKeeps, ConnectKeeps,
     CloseKeeps, ReceiveKeeps, EventKeeps, WriteRequestKeeps DEF Next, Timer
<1> QED BY <1>1, <1>2

LEMMA WireStep == FeedInv /\ [Next]_vars => WireOK'
<1> SUFFICES ASSUME FeedInv, [Next]_vars PROVE WireOK' OBVIOUS
<1>1. connection # 0 => connection' # 0 \/ toServer' = 0
  BY DEF Next, Timer, TableChanges, Trigger, Wake, Publish, SendToWSClient, AskToWrite,
     OnWriteable, SessionEnds, OnReceive, Subscribe, Connect, ConnectionCloses, OnReceiveList,
     OnEvent, OnWrite, vars, link
<1>2. connection = 0 /\ toServer = 0 => connection' # 0 \/ toServer' = 0
  BY DEF Next, Timer, TableChanges, Trigger, Wake, Publish, SendToWSClient, AskToWrite,
     OnWriteable, SessionEnds, OnReceive, Subscribe, Connect, ConnectionCloses, OnReceiveList,
     OnEvent, OnWrite, vars, link
<1> QED BY <1>1, <1>2 DEF FeedInv, WireOK

LEMMA FeedInvariance == Spec => []FeedInv
<1>1. Init => FeedInv
  BY OrderInit DEF FeedInv, WireOK, Init
<1>2. FeedInv /\ [Next]_vars => FeedInv'
  BY OrderStep, WireStep DEF FeedInv
<1> QED BY <1>1, <1>2, PTL DEF Spec

\* Every variable of the publisher, the sessions and the client keeps its type, and no queue
\* of a session (WebSocketSession) grows past its limit.
THEOREM FeedTypeCorrect == Spec => []TypeOK
<1>1. FeedInv => TypeOK BY DEF FeedInv, OrderInv
<1> QED BY <1>1, FeedInvariance, PTL

\* No trigger of the timer is lost: while the last round has read an older list, a round is
\* asked for or about to be (Timer::trigger, runLoop).
THEOREM TriggersAreKept == Spec => []TriggerIsKept
<1>1. FeedInv => TriggerIsKept BY DEF FeedInv, OrderInv
<1> QED BY <1>1, FeedInvariance, PTL

\* Across any number of connections, the lists that the manager takes are the edge's, and
\* never an older one after a newer one (EdgeClient::handleRobotList).
THEOREM FeedImplemented == Spec => ImplementsFeed
<1>1. Init => Feed!FeedInit
  BY DEF Init, Feed!FeedInit
<1>2. FeedInv /\ [Next]_vars => [Feed!FeedNext]_<<version, held>>
  <2> SUFFICES ASSUME FeedInv, Next
               PROVE  Feed!FeedNext \/ UNCHANGED <<version, held>>
    BY DEF vars, table, client
  <2>1. CASE TableChanges
    BY <2>1 DEF TableChanges, Feed!FeedNext, Feed!Change, client
  <2>2. CASE OnEvent
    <3>1. version' = version BY <2>2 DEF OnEvent, table
    <3>2. held' # held => held' \in {v \in 1 .. version : v >= held}
      BY <2>2, EventKeeps, FeedTypes DEF FeedInv, OrderInv
    <3> QED BY <3>1, <3>2 DEF Feed!FeedNext, Feed!Deliver
  <2>3. CASE ~TableChanges /\ ~OnEvent
    BY <2>3 DEF Next, Timer, Trigger, Wake, Publish, SendToWSClient, AskToWrite, OnWriteable,
       SessionEnds, OnReceive, Subscribe, Connect, ConnectionCloses, OnReceiveList, OnWrite,
       table, client
  <2> QED BY <2>1, <2>2, <2>3
<1> QED BY <1>1, <1>2, FeedInvariance, PTL DEF Spec, ImplementsFeed, Feed!FeedSpec

\* Only a change of the edge's list takes it away from what the manager holds: no list that is
\* still under way, no new connection and no repeated round sets the manager back
\* (EdgeClient::handleRobotList, WebSocketClient::run). In particular a manager that holds the
\* current list keeps it, the safety half of CurrentListArrives.
THEOREM CurrentListIsKept ==
  Spec => [][version' - held' <= version - held \/ version' # version]_vars
<1>1. FeedInv /\ [Next]_vars =>
        [version' - held' <= version - held \/ version' # version]_vars
  <2> SUFFICES ASSUME FeedInv, Next, version' = version
               PROVE  version' - held' <= version - held
    OBVIOUS
  <2> USE FeedTypes DEF FeedInv, OrderInv
  <2>1. CASE OnEvent
    BY <2>1, EventKeeps
  <2>2. CASE ~OnEvent
    BY <2>2 DEF Next, Timer, TableChanges, Trigger, Wake, Publish, SendToWSClient, AskToWrite,
       OnWriteable, SessionEnds, OnReceive, Subscribe, Connect, ConnectionCloses, OnReceiveList,
       OnWrite, table, client
  <2> QED BY <2>1, <2>2
<1> QED BY <1>1, FeedInvariance, PTL DEF Spec


------------------------------------------------------------------------------
(* The manager's launches: from here on, SimLifecycle. *)

\* The properties hold until an interrupted launch goes on, or the manager restarts.
Calm == ~ late /\ restarts = 0

Creation(q) == q.old = None

\* An answer that ends the life of a model that was there.
Ends(a) == a.success /\ a.for \in {"delete", "replace"}

Queued(r)    == \E i \in 1 .. Len(m_queue) : Creation(m_queue[i]) /\ m_queue[i].robot = r
Launching(r) == pc = "create" /\ request.robot = r
Launched(r)  == \E m \in m_processes : m[1] = r
Ended(r)     == \E i \in 1 .. Len(answers) : Ends(answers[i]) /\ answers[i].robot = r

\* A request asks for something, and the worker is where its request leads.
RequestsOK ==
  /\ \A i \in 1 .. Len(m_queue) : m_queue[i].old # m_queue[i].new
  /\ \A i \in 1 .. Len(toRequest) : toRequest[i].old # toRequest[i].new
  /\ pc # "idle" => request.old # request.new
  /\ pc \in {"create", "waitModel", "waitController", "replace", "waitDelete"} => request.new # None
  /\ pc \in {"delete", "replace", "waitDelete"} => request.old # None

\* A replacement waits for one answer at most, and only while it has the worker.
AnswersOK ==
  /\ \A i \in 1 .. Len(answers) :
       answers[i].for = "replace" => pc = "waitDelete" /\ answers[i].robot = request.robot
  /\ \A i, j \in 1 .. Len(answers) :
       answers[i].for = "replace" /\ answers[j].for = "replace" => i = j

\* The models of the world, and those that may still come, are the manager's launches.
WorldOK ==
  /\ ~ ready => gazebo = {}
  /\ Calm => /\ m_processes = gazebo \cup spawning
             /\ pc \in {"waitModel", "waitController"} => New \in m_processes

\* A robot has one launch, or one creation that waits for the worker, or one that the
\* worker is about to launch, or one answer that its model has gone ...
OneOfEach ==
  /\ \A m, n \in m_processes : m[1] = n[1] => m = n
  /\ \A i, j \in 1 .. Len(m_queue) :
       /\ Creation(m_queue[i]) /\ Creation(m_queue[j])
       /\ m_queue[i].robot = m_queue[j].robot
       => i = j
  /\ \A i, j \in 1 .. Len(answers) :
       /\ Ends(answers[i]) /\ Ends(answers[j])
       /\ answers[i].robot = answers[j].robot
       => i = j

\* ... and no two of these ...
OneOfAll ==
  \A r \in Robots :
    /\ Launched(r) => ~ Queued(r) /\ ~ Launching(r) /\ ~ Ended(r)
    /\ Queued(r) => ~ Launching(r) /\ ~ Ended(r)
    /\ Launching(r) => ~ Ended(r)

\* ... and with any of them no other creation is accepted for it.
Managed ==
  \A r \in Robots : Launched(r) \/ Queued(r) \/ Launching(r) \/ Ended(r) =>
                      m_robots[r] \notin {None, "failed"}

Replaced(r) ==
  \E i \in 1 .. Len(answers) : /\ answers[i].for = "replace" /\ answers[i].success
                               /\ answers[i].robot = r

\* An active robot has its model, or a replacement that has taken the model away.
ActiveOK ==
  \A r \in Robots : m_robots[r] = "active" =>
    \/ \E m \in gazebo : m[1] = r
    \/ Launching(r) /\ request.old # None
    \/ Replaced(r)

\* The inductive invariant.
LivesOK == OneOfEach /\ OneOfAll /\ Managed /\ ActiveOK
SimInv  == SimTypeOK /\ RequestsOK /\ AnswersOK /\ WorldOK /\ (Calm => LivesOK)

USE SimConstants DEF SimConstants

LEMMA SimInitOK == SimInit => SimInv
<1> SUFFICES ASSUME SimInit PROVE SimInv OBVIOUS
<1>1. SimTypeOK
  <2>1. m_queue \in Seq(Requests) /\ toRequest \in Seq(Requests) /\ answers \in Seq(Answers)
    BY DEF SimInit
  <2>2. changes \in 0 .. MaxChanges /\ restarts \in 0 .. MaxRestarts BY DEF SimInit
  <2>3. m_robotList \in Lists BY DEF SimInit, Lists
  <2> QED BY <2>1, <2>2, <2>3 DEF SimInit, SimTypeOK
<1>2. RequestsOK /\ AnswersOK /\ WorldOK
  BY DEF SimInit, RequestsOK, AnswersOK, WorldOK, Calm
<1>3. LivesOK
  BY DEF SimInit, LivesOK, OneOfEach, OneOfAll, Managed, ActiveOK, Queued, Launching, Launched,
     Ended, Replaced, States
<1> QED BY <1>1, <1>2, <1>3 DEF SimInv

------------------------------------------------------------------------------
(* The requests of a synchronisation. *)

\* A sequence of the elements of a finite set has each of them once.
LEMMA SeqsFacts ==
  ASSUME NEW S, IsFiniteSet(S), NEW f \in SetToSeqs(S)
  PROVE  /\ f \in Seq(S)
         /\ \A i, j \in 1 .. Len(f) : f[i] = f[j] => i = j
<1>1. Cardinality(S) \in Nat BY FS_CardinalityType
<1>2. /\ f \in [1 .. Cardinality(S) -> S]
      /\ \A i, j \in 1 .. Cardinality(S) : i # j => f[i] # f[j]
  BY DEF SetToSeqs
<1>3. f \in Seq(S) /\ Len(f) = Cardinality(S) BY <1>1, <1>2
<1> QED BY <1>2, <1>3

LEMMA WantedFacts ==
  ASSUME SimTypeOK, NEW old \in [Robots -> Instances \cup {None}]
  PROVE  /\ IsFiniteSet(Wanted(old)) /\ Wanted(old) \subseteq Requests
         /\ \A q \in Wanted(old) : q.old # q.new
<1>1. /\ Wanted(old) \subseteq Requests
      /\ \A q \in Wanted(old) : q.old # q.new
  BY DEF Wanted, Requests
<1>2. \A p, q \in Wanted(old) : p.robot = q.robot => p = q
  BY DEF Wanted
<1>3. IsFiniteSet(Wanted(old))
  <2> DEFINE f == [q \in Wanted(old) |-> q.robot]
  <2>1. f \in Injection(Wanted(old), Robots)
    BY <1>1, <1>2 DEF Injection, IsInjective, Requests
  <2> QED BY <2>1, FS_Injection
<1> QED BY <1>1, <1>3

LEMMA UnwantedFacts ==
  ASSUME SimTypeOK
  PROVE  /\ IsFiniteSet(Unwanted) /\ Unwanted \subseteq Requests
         /\ \A q \in Unwanted : q.old # q.new
<1>1. /\ Unwanted \subseteq Requests
      /\ \A q \in Unwanted : q.old # q.new /\ q.robot \in Robots /\ q.old \in Instances
  BY DEF Unwanted, Requests
<1>2. IsFiniteSet(Unwanted)
  <2> DEFINE f == [q \in Unwanted |-> <<q.robot, q.old>>]
  <2>1. IsFiniteSet(Robots \X Instances) BY FS_Product
  <2>2. f \in Injection(Unwanted, Robots \X Instances)
    <3>1. \A p, q \in Unwanted : p.robot = q.robot /\ p.old = q.old => p = q
      BY DEF Unwanted
    <3>2. f \in [Unwanted -> Robots \X Instances] BY <1>1
    <3>3. \A p, q \in Unwanted : f[p] = f[q] => p = q BY <3>1
    <3> QED BY <3>2, <3>3 DEF Injection, IsInjective
  <2> QED BY <2>1, <2>2, FS_Injection
<1> QED BY <1>1, <1>2

\* A comparison leaves requests to make, and touches nothing else.
LEMMA SyncKeeps ==
  ASSUME SimInv, Sync
  PROVE  SimInv'
<1> USE DEF SimInv
<1>1. PICK old \in [Robots -> Instances \cup {None}] :
        \E first \in SetToSeqs(Wanted(old)), last \in SetToSeqs(Unwanted) :
          toRequest' = first \o last
  BY DEF Sync
<1>2. PICK first \in SetToSeqs(Wanted(old)), last \in SetToSeqs(Unwanted) :
        toRequest' = first \o last
  BY <1>1
<1>3. first \in Seq(Wanted(old)) /\ last \in Seq(Unwanted)
  BY WantedFacts, UnwantedFacts, SeqsFacts
<1>4. /\ first \in Seq(Requests) /\ \A i \in 1 .. Len(first) : first[i].old # first[i].new
      /\ last \in Seq(Requests) /\ \A i \in 1 .. Len(last) : last[i].old # last[i].new
  <2>1. /\ Wanted(old) \subseteq Requests /\ \A q \in Wanted(old) : q.old # q.new
        /\ Unwanted \subseteq Requests /\ \A q \in Unwanted : q.old # q.new
    BY WantedFacts, UnwantedFacts
  <2>2. /\ \A i \in 1 .. Len(first) : first[i] \in Wanted(old)
        /\ \A i \in 1 .. Len(last) : last[i] \in Unwanted
    BY <1>3
  <2>3. first \in Seq(Requests) BY <1>3, <2>1
  <2>4. last \in Seq(Requests) BY <1>3, <2>1
  <2> QED BY <2>1, <2>2, <2>3, <2>4
<1>5. toRequest' \in Seq(Requests) BY <1>2, <1>4
<1>6. \A i \in 1 .. Len(toRequest') : toRequest'[i].old # toRequest'[i].new
  <2>1. \A i \in 1 .. Len(toRequest') :
          \/ i \in 1 .. Len(first) /\ toRequest'[i] = first[i]
          \/ i - Len(first) \in 1 .. Len(last) /\ toRequest'[i] = last[i - Len(first)]
    BY <1>2, <1>4
  <2> QED BY <1>4, <2>1
<1>7. UNCHANGED <<edge, m_robotList, m_models, m_robots, m_queue, worker, launch, world, wire,
                  restarts>> /\ m_robotListUpdated' = FALSE
  BY DEF Sync
<1>8. SimTypeOK' BY <1>5, <1>7 DEF SimTypeOK, edge, worker, launch, world, wire
<1>9. RequestsOK' /\ AnswersOK' /\ WorldOK'
  BY <1>6, <1>7 DEF RequestsOK, AnswersOK, WorldOK, Calm, New, worker, launch, world, wire
<1>10. ASSUME Calm' PROVE LivesOK'
  BY <1>7, <1>10 DEF LivesOK, OneOfEach, OneOfAll, Managed, ActiveOK, Queued, Launching,
     Launched, Ended, Replaced, Calm, worker, launch, world, wire
<1> QED BY <1>8, <1>9, <1>10

\* A creation is queued only for a robot that is not managed, and manages it.
LEMMA RequestKeeps ==
  ASSUME SimInv, Request
  PROVE  SimInv'
<1> USE DEF SimInv
<1> DEFINE q == toRequest[1]
           Fresh(r) == Creation(q) /\ Accepted(q) /\ q.robot = r
<1>1. toRequest \in Seq(Requests) /\ toRequest # <<>> /\ toRequest' = Tail(toRequest)
      /\ Head(toRequest) = q
  BY DEF Request, SimTypeOK
<1>2. /\ 1 \in 1 .. Len(toRequest) /\ q \in Requests /\ q.old # q.new
      /\ toRequest' \in Seq(Requests)
      /\ \A i \in 1 .. Len(toRequest') : toRequest'[i].old # toRequest'[i].new
  <2>1. 1 \in 1 .. Len(toRequest) /\ q \in Requests BY <1>1
  <2>2. toRequest' \in Seq(Requests) BY <1>1
  <2>3. \A i \in 1 .. Len(toRequest') : i + 1 \in 1 .. Len(toRequest)
                                          /\ toRequest'[i] = toRequest[i + 1]
    BY <1>1
  <2> QED BY <2>1, <2>2, <2>3 DEF RequestsOK
<1>3. /\ m_queue' = IF Accepted(q) THEN Append(m_queue, q) ELSE m_queue
      /\ m_robots' = IF Creation(q) /\ Accepted(q)
                     THEN [m_robots EXCEPT ![q.robot] = "waitCreate"] ELSE m_robots
      /\ UNCHANGED <<edge, m_robotList, m_robotListUpdated, m_models, worker, launch, world,
                     wire, restarts>>
  BY <1>1 DEF Request, Creation
<1>4. q.robot \in Robots BY <1>2 DEF Requests
<1>5. /\ m_robots' \in [Robots -> States \cup {None}]
      /\ \A r \in Robots : Fresh(r) => /\ m_robots[r] \in {None, "failed"}
                                       /\ m_robots'[r] = "waitCreate"
      /\ \A r \in Robots : ~ Fresh(r) => m_robots'[r] = m_robots[r]
  BY <1>3, <1>4 DEF Accepted, Creation, SimTypeOK, States
<1>6. m_queue \in Seq(Requests) /\ Len(m_queue) \in Nat BY DEF SimTypeOK
<1>7. /\ m_queue' \in Seq(Requests)
      /\ \A i \in 1 .. Len(m_queue') :
           \/ i \in 1 .. Len(m_queue) /\ m_queue'[i] = m_queue[i]
           \/ i = Len(m_queue) + 1 /\ m_queue'[i] = q /\ Accepted(q)
  <2>1. CASE Accepted(q)
    <3>1. m_queue' = Append(m_queue, q) BY <1>3, <2>1
    <3> QED BY <2>1, <3>1, <1>2, <1>6
  <2>2. CASE ~ Accepted(q)
    BY <2>2, <1>3, <1>6
  <2> QED BY <2>1, <2>2
<1>8. SimTypeOK'
  BY <1>2, <1>3, <1>5, <1>7 DEF SimTypeOK, edge, worker, launch, world, wire
<1>9. RequestsOK'
  <2>1. \A i \in 1 .. Len(m_queue') : m_queue'[i].old # m_queue'[i].new
    BY <1>2, <1>7 DEF RequestsOK
  <2> QED BY <2>1, <1>2, <1>3 DEF RequestsOK, worker
<1>10. AnswersOK' /\ WorldOK'
  BY <1>3 DEF AnswersOK, WorldOK, Calm, New, worker, launch, world, wire
<1>11. ASSUME Calm' PROVE LivesOK'
  <2>1. LivesOK BY <1>3, <1>11 DEF Calm, launch
  <2>2. \A r \in Robots : Fresh(r) => ~ Launched(r) /\ ~ Queued(r) /\ ~ Launching(r) /\ ~ Ended(r)
    BY <2>1, <1>5 DEF LivesOK, Managed
  <2>3. \A r \in Robots : /\ Launched(r)' <=> Launched(r)
                          /\ Launching(r)' <=> Launching(r)
                          /\ Ended(r)' <=> Ended(r)
                          /\ Replaced(r)' <=> Replaced(r)
    BY <1>3 DEF Launched, Launching, Ended, Replaced, worker, launch, wire
  <2>4. \A r \in Robots : Queued(r)' => Queued(r) \/ Fresh(r)
    BY <1>7 DEF Queued
  <2>5. ASSUME NEW i \in 1 .. Len(m_queue'), NEW j \in 1 .. Len(m_queue'),
               Creation(m_queue'[i]), Creation(m_queue'[j]),
               m_queue'[i].robot = m_queue'[j].robot
        PROVE  i = j
    <3>1. CASE i \in 1 .. Len(m_queue) /\ j \in 1 .. Len(m_queue)
      BY <3>1, <1>6, <1>7, <2>1, <2>5 DEF LivesOK, OneOfEach
    <3>2. CASE i \notin 1 .. Len(m_queue) /\ j \notin 1 .. Len(m_queue)
      BY <3>2, <1>7
    <3>3. CASE i \in 1 .. Len(m_queue) /\ j \notin 1 .. Len(m_queue)
      BY <3>3, <1>4, <1>6, <1>7, <2>2, <2>5 DEF Queued
    <3>4. CASE i \notin 1 .. Len(m_queue) /\ j \in 1 .. Len(m_queue)
      BY <3>4, <1>4, <1>6, <1>7, <2>2, <2>5 DEF Queued
    <3> QED BY <3>1, <3>2, <3>3, <3>4
  <2>6. OneOfEach' BY <2>1, <2>5, <1>3 DEF LivesOK, OneOfEach, launch, wire
  <2>7. OneOfAll' BY <2>1, <2>2, <2>3, <2>4 DEF LivesOK, OneOfAll
  <2>8. Managed' BY <2>1, <2>3, <2>4, <1>5 DEF LivesOK, Managed, States
  <2>9. ActiveOK' BY <2>1, <2>3, <1>3, <1>5 DEF LivesOK, ActiveOK, world, worker
  <2> QED BY <2>6, <2>7, <2>8, <2>9 DEF LivesOK
<1> QED BY <1>8, <1>9, <1>10, <1>11

------------------------------------------------------------------------------
(* The edge and Gazebo leave the lives of the robots alone. *)

LEMMA OutsideKeeps ==
  ASSUME SimInv,
         \/ EdgeChanges \/ ReceiveList \/ GazeboStarts \/ UpdateModels \/ ModelsReply
         \/ \E m \in Models : ModelAppears(m)
  PROVE  SimInv'
<1> USE DEF SimInv
<1>1. UNCHANGED <<toRequest, m_robots, m_queue, worker, m_processes, late, restarts, answers>>
  BY DEF EdgeChanges, ReceiveList, GazeboStarts, UpdateModels, ModelsReply, ModelAppears,
     feed, launch, wire
<1>2. gazebo \subseteq gazebo' /\ (~ ready' => gazebo' = {})
  BY DEF EdgeChanges, ReceiveList, GazeboStarts, UpdateModels, ModelsReply, ModelAppears,
     world, WorldOK
<1>3. SimTypeOK'
  <2>1. CASE EdgeChanges
    BY <2>1 DEF EdgeChanges, SimTypeOK, feed, worker, launch, world, wire
  <2>2. CASE ReceiveList
    BY <2>2 DEF ReceiveList, SimTypeOK, edge, worker, launch, world, wire
  <2>3. CASE GazeboStarts
    BY <2>3 DEF GazeboStarts, SimTypeOK, edge, feed, worker, launch, wire
  <2>4. CASE UpdateModels \/ ModelsReply
    BY <2>4 DEF UpdateModels, ModelsReply, SimTypeOK, edge, feed, worker, launch, world
  <2>5. ASSUME NEW m \in Models, ModelAppears(m)
        PROVE  SimTypeOK'
    BY <2>5 DEF ModelAppears, SimTypeOK, edge, feed, worker, wire
  <2> QED BY <2>1, <2>2, <2>3, <2>4, <2>5
<1>4. RequestsOK' /\ AnswersOK'
  BY <1>1 DEF RequestsOK, AnswersOK, worker
<1>5. WorldOK'
  <2>1. Calm' => gazebo' \cup spawning' = gazebo \cup spawning
    BY DEF EdgeChanges, ReceiveList, GazeboStarts, UpdateModels, ModelsReply, ModelAppears,
       launch, world
  <2> QED BY <1>1, <1>2, <2>1 DEF WorldOK, Calm, New, worker
<1>6. ASSUME Calm' PROVE LivesOK'
  <2>1. LivesOK BY <1>1, <1>6 DEF Calm
  <2>2. OneOfEach' BY <1>1, <2>1 DEF LivesOK, OneOfEach
  <2>3. OneOfAll' /\ Managed'
    BY <1>1, <2>1 DEF LivesOK, OneOfAll, Managed, Launched, Queued, Launching, Ended, worker
  <2>4. ActiveOK'
    BY <1>1, <1>2, <2>1 DEF LivesOK, ActiveOK, Launching, Replaced, worker
  <2> QED BY <2>2, <2>3, <2>4 DEF LivesOK
<1> QED BY <1>3, <1>4, <1>5, <1>6

------------------------------------------------------------------------------
(* The worker. *)

LEMMA SetStateFacts ==
  ASSUME SimTypeOK, NEW r \in Robots, NEW state \in States, SetState(r, state)
  PROVE  /\ m_robots' \in [Robots -> States \cup {None}]
         /\ \A s \in Robots \ {r} : m_robots'[s] = m_robots[s]
         /\ m_robots'[r] = IF m_robots[r] = None THEN None ELSE state
BY DEF SetState, SimTypeOK

\* A creation that leaves the queue is the one that the worker is about to launch.
LEMMA TakeRequestKeeps ==
  ASSUME SimInv, TakeRequest
  PROVE  SimInv'
<1> USE DEF SimInv
<1>1. /\ m_queue \in Seq(Requests) /\ m_queue # <<>>
      /\ request' = Head(m_queue) /\ m_queue' = Tail(m_queue)
  BY DEF TakeRequest, SimTypeOK
<1>2. /\ 1 \in 1 .. Len(m_queue) /\ request' = m_queue[1] /\ request' \in Requests
      /\ m_queue' \in Seq(Requests)
      /\ \A i \in 1 .. Len(m_queue') : /\ i + 1 \in 1 .. Len(m_queue) /\ i + 1 # 1
                                       /\ m_queue'[i] = m_queue[i + 1]
  BY <1>1
<1>3. UNCHANGED <<edge, feed, m_models, m_robots, launch, world, wire, restarts>>
  BY DEF TakeRequest
<1>4. /\ pc = "idle"
      /\ pc' = IF request'.old = None THEN "create"
               ELSE IF request'.new = None THEN "delete" ELSE "replace"
  BY DEF TakeRequest
<1>5. SimTypeOK'
  BY <1>2, <1>3, <1>4 DEF SimTypeOK, edge, feed, launch, world, wire
<1>6. RequestsOK'
  <2>1. \A i \in 1 .. Len(m_queue') : m_queue'[i].old # m_queue'[i].new
    BY <1>2 DEF RequestsOK
  <2>2. request'.old # request'.new BY <1>2 DEF RequestsOK
  <2> QED BY <2>1, <2>2, <1>3, <1>4 DEF RequestsOK, feed
<1>7. AnswersOK' /\ WorldOK'
  BY <1>3, <1>4 DEF AnswersOK, WorldOK, Calm, launch, world, wire
<1>8. ASSUME Calm' PROVE LivesOK'
  <2>1. LivesOK BY <1>3, <1>8 DEF Calm, launch
  <2>2. \A r \in Robots : /\ Launched(r)' <=> Launched(r)
                          /\ Ended(r)' <=> Ended(r)
                          /\ ~ Launching(r) /\ ~ Replaced(r)
    BY <1>3, <1>4 DEF Launched, Launching, Ended, Replaced, AnswersOK, launch, wire
  <2>3. \A r \in Robots : Launching(r)' => Creation(m_queue[1]) /\ m_queue[1].robot = r
    BY <1>2, <1>4 DEF Launching, Creation
  <2>4. \A r \in Robots : Queued(r)' => Queued(r)
    BY <1>2 DEF Queued
  <2>5. \A r \in Robots : Launching(r)' => Queued(r)
    BY <1>2, <2>3 DEF Queued
  <2>6. \A r \in Robots : ~ (Launching(r)' /\ Queued(r)')
    BY <1>2, <2>1, <2>3 DEF LivesOK, OneOfEach, Queued
  <2>7. OneOfEach'
    <3>1. ASSUME NEW i \in 1 .. Len(m_queue'), NEW j \in 1 .. Len(m_queue'),
                 Creation(m_queue'[i]), Creation(m_queue'[j]),
                 m_queue'[i].robot = m_queue'[j].robot
          PROVE  i = j
      <4>1. i + 1 = j + 1 BY <3>1, <1>2, <2>1 DEF LivesOK, OneOfEach
      <4> QED BY <4>1
    <3> QED BY <3>1, <2>1, <1>3 DEF LivesOK, OneOfEach, launch, wire
  <2>8. OneOfAll' BY <2>1, <2>2, <2>4, <2>5, <2>6 DEF LivesOK, OneOfAll
  <2>9. Managed' BY <2>1, <2>2, <2>4, <2>5, <1>3 DEF LivesOK, Managed
  <2>10. ActiveOK' BY <2>1, <2>2, <1>3 DEF LivesOK, ActiveOK, world
  <2> QED BY <2>7, <2>8, <2>9, <2>10 DEF LivesOK
<1> QED BY <1>5, <1>6, <1>7, <1>8

LEMMA LaunchKeeps ==
  ASSUME SimInv, Launch
  PROVE  SimInv'
<1> USE DEF SimInv
<1> DEFINE r == request.robot
<1>1. /\ pc = "create" /\ pc' = "waitModel"
      /\ m_processes' = m_processes \cup {New} /\ spawning' = spawning \cup {New}
      /\ SetState(r, "waitModel")
      /\ UNCHANGED <<edge, feed, m_models, m_queue, request, late, world, wire, restarts>>
  BY DEF Launch
<1>2. request \in Requests /\ r \in Robots /\ New \in Models /\ New[1] = r
  BY <1>1 DEF SimTypeOK, RequestsOK, Requests, New, Models
<1>3. /\ m_robots' \in [Robots -> States \cup {None}]
      /\ \A s \in Robots \ {r} : m_robots'[s] = m_robots[s]
      /\ m_robots'[r] = IF m_robots[r] = None THEN None ELSE "waitModel"
  BY <1>1, <1>2, SetStateFacts DEF States
<1>4. SimTypeOK'
  BY <1>1, <1>2, <1>3 DEF SimTypeOK, edge, feed, world, wire
<1>5. RequestsOK' /\ AnswersOK' /\ WorldOK'
  BY <1>1 DEF RequestsOK, AnswersOK, WorldOK, Calm, New, world, wire, feed
<1>6. ASSUME Calm' PROVE LivesOK'
  <2>1. LivesOK BY <1>1, <1>6 DEF Calm
  <2>2. Launching(r) /\ ~ Launched(r) /\ ~ Queued(r) /\ ~ Ended(r) /\ m_robots[r] # None
    BY <1>1, <1>2, <2>1 DEF LivesOK, OneOfAll, Managed, Launching
  <2>3. \A s \in Robots : /\ ~ Launching(s)'
                          /\ Queued(s)' <=> Queued(s)
                          /\ Ended(s)' <=> Ended(s)
                          /\ Replaced(s)' <=> Replaced(s)
                          /\ s # r => (Launched(s)' <=> Launched(s)) /\ ~ Launching(s)
    BY <1>1, <1>2 DEF Launching, Queued, Ended, Replaced, Launched, wire
  <2>4. \A m, n \in m_processes' : m[1] = n[1] => m = n
    BY <1>1, <1>2, <2>1, <2>2 DEF LivesOK, OneOfEach, Launched
  <2>5. OneOfEach' BY <2>4, <2>1, <1>1 DEF LivesOK, OneOfEach, wire
  <2>6. OneOfAll' BY <2>1, <2>2, <2>3 DEF LivesOK, OneOfAll
  <2>7. Managed' BY <2>1, <2>2, <2>3, <1>3 DEF LivesOK, Managed, States
  <2>8. ActiveOK' BY <2>1, <2>2, <2>3, <1>1, <1>3 DEF LivesOK, ActiveOK, world
  <2> QED BY <2>5, <2>6, <2>7, <2>8 DEF LivesOK
<1> QED BY <1>4, <1>5, <1>6

LEMMA LaunchFailsKeeps ==
  ASSUME SimInv, LaunchFails
  PROVE  SimInv'
<1> USE DEF SimInv
<1> DEFINE r == request.robot
<1>1. /\ pc = "create" /\ pc' = "idle"
      /\ SetState(r, "failed")
      /\ UNCHANGED <<edge, feed, m_models, m_queue, launch, world, wire, restarts>>
  BY DEF LaunchFails
<1>2. request \in Requests /\ r \in Robots
  BY <1>1 DEF SimTypeOK, Requests
<1>3. /\ m_robots' \in [Robots -> States \cup {None}]
      /\ \A s \in Robots \ {r} : m_robots'[s] = m_robots[s]
      /\ m_robots'[r] \in {None, "failed"}
  BY <1>1, <1>2, SetStateFacts DEF States
<1>4. SimTypeOK'
  BY <1>1, <1>3 DEF SimTypeOK, edge, feed, launch, world, wire
<1>5. RequestsOK' /\ AnswersOK' /\ WorldOK'
  BY <1>1 DEF RequestsOK, AnswersOK, WorldOK, Calm, launch, world, wire, feed
<1>6. ASSUME Calm' PROVE LivesOK'
  <2>1. LivesOK BY <1>1, <1>6 DEF Calm, launch
  <2>2. Launching(r) /\ ~ Launched(r) /\ ~ Queued(r) /\ ~ Ended(r)
    BY <1>1, <1>2, <2>1 DEF LivesOK, OneOfAll, Launching
  <2>3. \A s \in Robots : /\ ~ Launching(s)'
                          /\ Queued(s)' <=> Queued(s)
                          /\ Ended(s)' <=> Ended(s)
                          /\ Replaced(s)' <=> Replaced(s)
                          /\ Launched(s)' <=> Launched(s)
                          /\ s # r => ~ Launching(s)
    BY <1>1, <1>2 DEF Launching, Queued, Ended, Replaced, Launched, launch, wire
  <2>4. OneOfEach' BY <2>1, <1>1 DEF LivesOK, OneOfEach, launch, wire
  <2>5. OneOfAll' BY <2>1, <2>3 DEF LivesOK, OneOfAll
  <2>6. Managed' BY <2>1, <2>2, <2>3, <1>3 DEF LivesOK, Managed
  <2>7. m_robots'[r] # "active" BY <1>3 DEF States
  <2>8. ActiveOK' BY <2>1, <2>3, <2>7, <1>1, <1>3 DEF LivesOK, ActiveOK, world
  <2> QED BY <2>4, <2>5, <2>6, <2>8 DEF LivesOK
<1> QED BY <1>4, <1>5, <1>6

\* Whoever answers for a robot's controller, a model of that robot is in the world.
LEMMA WaitsKeep ==
  ASSUME SimInv, ModelSeen \/ ControllerReady
  PROVE  SimInv'
<1> USE DEF SimInv
<1> DEFINE r == request.robot
<1>1. /\ pc \in {"waitModel", "waitController"}
      /\ \/ pc' = "waitController" /\ UNCHANGED request /\ SetState(r, "waitController")
         \/ pc' = "idle" /\ SetState(r, "active") /\ \E m \in gazebo : m[1] = r
      /\ UNCHANGED <<edge, feed, m_models, m_queue, launch, world, wire, restarts>>
  BY DEF ModelSeen, ControllerReady, ControllerAnswers
<1>2. request \in Requests /\ r \in Robots
  BY <1>1 DEF SimTypeOK, Requests
<1>3. /\ m_robots' \in [Robots -> States \cup {None}]
      /\ \A s \in Robots \ {r} : m_robots'[s] = m_robots[s]
      /\ m_robots[r] # None => m_robots'[r] \notin {None, "failed"}
      /\ m_robots'[r] = "active" => \E m \in gazebo : m[1] = r
  BY <1>1, <1>2, SetStateFacts DEF States
<1>4. SimTypeOK'
  BY <1>1, <1>2, <1>3 DEF SimTypeOK, edge, feed, launch, world, wire
<1>5. RequestsOK' /\ AnswersOK' /\ WorldOK'
  BY <1>1 DEF RequestsOK, AnswersOK, WorldOK, Calm, New, launch, world, wire, feed
<1>6. ASSUME Calm' PROVE LivesOK'
  <2>1. LivesOK BY <1>1, <1>6 DEF Calm, launch
  <2>2. \A s \in Robots : /\ ~ Launching(s) /\ ~ Launching(s)'
                          /\ Queued(s)' <=> Queued(s)
                          /\ Ended(s)' <=> Ended(s)
                          /\ Replaced(s)' <=> Replaced(s)
                          /\ Launched(s)' <=> Launched(s)
    BY <1>1 DEF Launching, Queued, Ended, Replaced, Launched, launch, wire
  <2>3. OneOfEach' BY <2>1, <1>1 DEF LivesOK, OneOfEach, launch, wire
  <2>4. OneOfAll' BY <2>1, <2>2 DEF LivesOK, OneOfAll
  <2>5. Managed' BY <2>1, <2>2, <1>3 DEF LivesOK, Managed
  <2>6. ActiveOK' BY <2>1, <2>2, <1>1, <1>3 DEF LivesOK, ActiveOK, world
  <2> QED BY <2>3, <2>4, <2>5, <2>6 DEF LivesOK
<1> QED BY <1>4, <1>5, <1>6

\* What a stop and a deletion of the same model do as long as no launch goes on.
LEMMA EndFacts ==
  ASSUME SimInv, NEW m \in Models, NEW for \in {"delete", "replace", "cleanup"},
         Stop(m), Delete(m, for), UNCHANGED <<ready, restarts>>
  PROVE  /\ m_processes' \subseteq Models /\ spawning' \subseteq Models /\ gazebo' \subseteq Models
         /\ late' \in BOOLEAN /\ answers' \in Seq(Answers)
         /\ ~ ready' => gazebo' = {}
         /\ Calm' => /\ Calm
                     /\ m_processes' = m_processes \ {m} /\ gazebo' = gazebo \ {m}
                     /\ m_processes' = gazebo' \cup spawning'
         /\ m \in gazebo => ready
<1> USE DEF SimInv
<1>1. m_processes' = m_processes \ {m} BY DEF Stop
<1>2. /\ ~ ready => gazebo = {}
      /\ gazebo' = gazebo \ {m}
  BY DEF Delete, WorldOK
<1>3. late' \in BOOLEAN /\ spawning' \subseteq spawning BY DEF Stop, SimTypeOK
<1>4. answers' \in Seq(Answers)
  <2>1. m[1] \in Robots BY DEF Models
  <2>2. [robot |-> m[1], for |-> for, success |-> m \in gazebo] \in Answers
    BY <2>1 DEF Answers
  <2> QED BY <2>2 DEF Delete, SimTypeOK
<1>5. ASSUME Calm' PROVE Calm /\ m_processes' = gazebo' \cup spawning'
  <2>1. Calm /\ late' = late BY <1>5 DEF Calm, Stop, SimTypeOK
  <2>2. m_processes = gazebo \cup spawning BY <2>1 DEF WorldOK
  <2>3. spawning' = spawning \ {m} BY <2>1, <2>2 DEF Stop
  <2> QED BY <2>1, <2>2, <2>3, <1>1, <1>2
<1> QED BY <1>1, <1>2, <1>3, <1>4, <1>5 DEF SimTypeOK

\* The answer to a deletion comes after those under way; it is a success if the model was there.
LEMMA AnswerFacts ==
  ASSUME SimTypeOK, NEW m \in Models, NEW for \in {"delete", "replace", "cleanup"},
         Delete(m, for)
  PROVE  /\ \A i \in 1 .. Len(answers) : i \in 1 .. Len(answers') /\ answers'[i] = answers[i]
         /\ \A i \in 1 .. Len(answers') :
              \/ i \in 1 .. Len(answers) /\ answers'[i] = answers[i]
              \/ /\ i = Len(answers) + 1 /\ answers'[i].robot = m[1]
                 /\ answers'[i].for = for /\ (answers'[i].success <=> m \in gazebo)
         /\ ready => /\ Len(answers) + 1 \in 1 .. Len(answers')
                     /\ answers'[Len(answers) + 1].robot = m[1]
                     /\ answers'[Len(answers) + 1].for = for
                     /\ answers'[Len(answers) + 1].success <=> m \in gazebo
<1>1. answers \in Seq(Answers) BY DEF SimTypeOK
<1>2. CASE ready
  <2> DEFINE a == [robot |-> m[1], for |-> for, success |-> m \in gazebo]
  <2>1. answers' = Append(answers, a) BY <1>2 DEF Delete
  <2>2. /\ Len(answers') = Len(answers) + 1 /\ Len(answers) \in Nat
        /\ \A i \in 1 .. Len(answers) : answers'[i] = answers[i]
        /\ answers'[Len(answers) + 1] = a
    BY <1>1, <2>1
  <2>3. a.robot = m[1] /\ a.for = for /\ (a.success <=> m \in gazebo) OBVIOUS
  <2> HIDE DEF a
  <2> QED BY <2>2, <2>3
<1>3. CASE ~ ready
  BY <1>3 DEF Delete
<1> QED BY <1>2, <1>3

\* A creation that is given up takes its launch with it.
LEMMA GiveUpKeeps ==
  ASSUME SimInv, GiveUp
  PROVE  SimInv'
<1> USE DEF SimInv
<1> DEFINE r == request.robot
<1>1. /\ pc \in {"waitModel", "waitController"} /\ pc' = "idle"
      /\ Stop(New) /\ Delete(New, "cleanup") /\ SetState(r, "failed")
      /\ UNCHANGED <<edge, feed, m_models, m_queue, ready, reply, restarts>>
  BY DEF GiveUp
<1>2. request \in Requests /\ r \in Robots /\ New \in Models /\ New[1] = r
  BY <1>1 DEF SimTypeOK, RequestsOK, Requests, New, Models
<1>3. /\ m_robots' \in [Robots -> States \cup {None}]
      /\ \A s \in Robots \ {r} : m_robots'[s] = m_robots[s]
      /\ m_robots'[r] \in {None, "failed"}
  BY <1>1, <1>2, SetStateFacts DEF States
<1>4. SimTypeOK'
  BY <1>1, <1>2, <1>3, EndFacts DEF SimTypeOK, edge, feed
<1>5. RequestsOK' BY <1>1 DEF RequestsOK, feed
<1>6. AnswersOK'
  BY <1>1, <1>2, AnswerFacts DEF AnswersOK
<1>7. WorldOK'
  BY <1>1, <1>2, EndFacts DEF WorldOK
<1>8. ASSUME Calm' PROVE LivesOK'
  <2>1. /\ Calm /\ LivesOK /\ m_processes' = m_processes \ {New} /\ gazebo' = gazebo \ {New}
        /\ New \in m_processes
    BY <1>1, <1>2, <1>8, EndFacts DEF WorldOK
  <2>2. \A s \in Robots : s = r => ~ Queued(s) /\ ~ Ended(s) /\ ~ Launched(s)'
    <3>1. Launched(r) BY <1>2, <2>1 DEF Launched
    <3>2. \A s \in Robots : s = r => ~ Launched(s)'
      BY <1>2, <2>1 DEF LivesOK, OneOfEach, Launched
    <3> QED BY <3>1, <3>2, <1>2, <2>1 DEF LivesOK, OneOfAll
  <2>3. \A s \in Robots : /\ ~ Launching(s) /\ ~ Launching(s)'
                          /\ Queued(s)' <=> Queued(s)
                          /\ Ended(s)' => Ended(s)
                          /\ ~ Replaced(s)
                          /\ Launched(s)' => Launched(s)
    BY <1>1, <1>2, <2>1, AnswerFacts
    DEF Launching, Queued, Ended, Ends, Replaced, Launched, AnswersOK
  <2>4. OneOfEach'
    <3>1. ASSUME NEW i \in 1 .. Len(answers'), NEW j \in 1 .. Len(answers'),
                 Ends(answers'[i]), Ends(answers'[j]), answers'[i].robot = answers'[j].robot
          PROVE  i = j
      BY <3>1, <1>1, <1>2, <2>1, AnswerFacts DEF LivesOK, OneOfEach, Ends
    <3> QED BY <3>1, <2>1, <1>1 DEF LivesOK, OneOfEach
  <2>5. OneOfAll' BY <2>1, <2>3 DEF LivesOK, OneOfAll
  <2>6. Managed'
    <3>1. \A s \in Robots : Launched(s)' \/ Queued(s)' \/ Launching(s)' \/ Ended(s)' =>
            s # r /\ (Launched(s) \/ Queued(s) \/ Ended(s))
      BY <2>2, <2>3
    <3> QED BY <3>1, <2>1, <1>3 DEF LivesOK, Managed
  <2>7. m_robots'[r] # "active" BY <1>3 DEF States
  <2>8. ActiveOK' BY <2>1, <2>3, <2>7, <1>2, <1>3 DEF LivesOK, ActiveOK
  <2> QED BY <2>4, <2>5, <2>6, <2>8 DEF LivesOK
<1> QED BY <1>4, <1>5, <1>6, <1>7, <1>8

\* The end of a launch that is asked for has its place taken by the answer to come.
LEMMA EndingLives ==
  ASSUME SimInv, NEW m \in Models, NEW for \in {"delete", "replace"},
         Stop(m), Delete(m, for), UNCHANGED <<ready, restarts, m_queue>>,
         pc \notin {"create", "waitDelete"}, pc' # "create", Calm'
  PROVE  /\ LivesOK /\ gazebo' = gazebo \ {m} /\ OneOfEach' /\ OneOfAll'
         /\ \A r \in Robots : Launched(r)' \/ Queued(r)' \/ Launching(r)' \/ Ended(r)' =>
                                Launched(r) \/ Queued(r) \/ Launching(r) \/ Ended(r)
         /\ \A r \in Robots : ~ Launching(r) /\ ~ Replaced(r)
<1>1. /\ LivesOK /\ m_processes' = m_processes \ {m} /\ gazebo' = gazebo \ {m}
      /\ gazebo \subseteq m_processes /\ m[1] \in Robots
  BY EndFacts DEF SimInv, WorldOK, Models
<1>2. ASSUME m \in gazebo
      PROVE  Launched(m[1]) /\ ~ Launched(m[1])' /\ ~ Queued(m[1]) /\ ~ Ended(m[1])
  <2>1. Launched(m[1]) BY <1>1, <1>2 DEF Launched
  <2>2. ~ Launched(m[1])' BY <1>1, <1>2 DEF LivesOK, OneOfEach, Launched
  <2> QED BY <2>1, <2>2, <1>1 DEF LivesOK, OneOfAll
<1>3. \A i \in 1 .. Len(answers') : Ends(answers'[i]) =>
        \/ i \in 1 .. Len(answers) /\ answers'[i] = answers[i]
        \/ i = Len(answers) + 1 /\ answers'[i].robot = m[1] /\ m \in gazebo
  BY AnswerFacts DEF SimInv, Ends
<1>4. ASSUME NEW r \in Robots, Ended(r)'
      PROVE  Ended(r) \/ (r = m[1] /\ m \in gazebo)
  <2>1. PICK i \in 1 .. Len(answers') : Ends(answers'[i]) /\ answers'[i].robot = r
    BY <1>4 DEF Ended
  <2>2. CASE i \in 1 .. Len(answers) /\ answers'[i] = answers[i]
    BY <2>1, <2>2 DEF Ended
  <2> QED BY <2>1, <2>2, <1>3
<1>5. \A r \in Robots : /\ ~ Launching(r) /\ ~ Launching(r)' /\ ~ Replaced(r)
                        /\ Queued(r)' <=> Queued(r)
                        /\ Launched(r)' => Launched(r)
  BY <1>1 DEF Launching, Replaced, Queued, Launched, SimInv, AnswersOK
<1>6. OneOfEach'
  <2>1. ASSUME NEW i \in 1 .. Len(answers'), NEW j \in 1 .. Len(answers'),
               Ends(answers'[i]), Ends(answers'[j]), answers'[i].robot = answers'[j].robot
        PROVE  i = j
    <3>1. \A k \in 1 .. Len(answers) : Ends(answers[k]) /\ answers[k].robot = m[1] => m \notin gazebo
      BY <1>2 DEF Ended
    <3> QED BY <3>1, <2>1, <1>1, <1>3 DEF LivesOK, OneOfEach
  <2> QED BY <2>1, <1>1 DEF LivesOK, OneOfEach
<1>7. OneOfAll'
  <2>1. ASSUME NEW r \in Robots
        PROVE  /\ Launched(r)' => ~ Queued(r)' /\ ~ Launching(r)' /\ ~ Ended(r)'
               /\ Queued(r)' => ~ Launching(r)' /\ ~ Ended(r)'
               /\ Launching(r)' => ~ Ended(r)'
    BY <1>1, <1>2, <1>4, <1>5 DEF LivesOK, OneOfAll
  <2> QED BY <2>1 DEF OneOfAll
<1>8. \A r \in Robots : Launched(r)' \/ Queued(r)' \/ Launching(r)' \/ Ended(r)' =>
                          Launched(r) \/ Queued(r) \/ Launching(r) \/ Ended(r)
  BY <1>2, <1>4, <1>5
<1> QED BY <1>1, <1>5, <1>6, <1>7, <1>8

\* A deletion of a model that stands is answered at last; the robot is in the state deleting.
LEMMA DeleteRobotKeeps ==
  ASSUME SimInv, DeleteRobot
  PROVE  SimInv'
<1> USE DEF SimInv
<1> DEFINE r == request.robot
<1>1. /\ pc = "delete" /\ pc' = "idle"
      /\ Stop(Old) /\ Delete(Old, "delete") /\ SetState(r, "deleting")
      /\ UNCHANGED <<edge, feed, m_models, m_queue, ready, reply, restarts>>
  BY DEF DeleteRobot
<1>2. request \in Requests /\ r \in Robots /\ Old \in Models /\ Old[1] = r
  BY <1>1 DEF SimTypeOK, RequestsOK, Requests, Old, Models
<1>3. /\ m_robots' \in [Robots -> States \cup {None}]
      /\ \A s \in Robots \ {r} : m_robots'[s] = m_robots[s]
      /\ m_robots[r] # None => m_robots'[r] \notin {None, "failed"}
      /\ m_robots'[r] # "active"
  BY <1>1, <1>2, SetStateFacts DEF States
<1>4. SimTypeOK'
  BY <1>1, <1>2, <1>3, EndFacts DEF SimTypeOK, edge, feed
<1>5. RequestsOK' BY <1>1 DEF RequestsOK, feed
<1>6. AnswersOK'
  BY <1>1, <1>2, AnswerFacts DEF AnswersOK
<1>7. WorldOK'
  BY <1>1, <1>2, EndFacts DEF WorldOK
<1>8. ASSUME Calm' PROVE LivesOK'
  <2>1. /\ LivesOK /\ gazebo' = gazebo \ {Old} /\ OneOfEach' /\ OneOfAll'
        /\ \A s \in Robots : Launched(s)' \/ Queued(s)' \/ Launching(s)' \/ Ended(s)' =>
                               Launched(s) \/ Queued(s) \/ Launching(s) \/ Ended(s)
        /\ \A s \in Robots : ~ Launching(s) /\ ~ Replaced(s)
    BY <1>1, <1>2, <1>8, EndingLives
  <2>2. Managed' BY <2>1, <1>2, <1>3 DEF LivesOK, Managed
  <2>3. ActiveOK' BY <2>1, <1>2, <1>3 DEF LivesOK, ActiveOK
  <2> QED BY <2>1, <2>2, <2>3 DEF LivesOK
<1> QED BY <1>4, <1>5, <1>6, <1>7, <1>8

\* So is the deletion of a model that is replaced, whose robot keeps its state.
LEMMA ReplaceRobotKeeps ==
  ASSUME SimInv, ReplaceRobot
  PROVE  SimInv'
<1> USE DEF SimInv
<1> DEFINE r == request.robot
<1>1. /\ pc = "replace" /\ pc' = "waitDelete"
      /\ Stop(Old) /\ Delete(Old, "replace")
      /\ UNCHANGED <<edge, feed, m_models, m_robots, m_queue, request, ready, reply, restarts>>
  BY DEF ReplaceRobot
<1>2. request \in Requests /\ r \in Robots /\ Old \in Models /\ Old[1] = r
  BY <1>1 DEF SimTypeOK, RequestsOK, Requests, Old, Models
<1>3. SimTypeOK'
  BY <1>1, <1>2, EndFacts DEF SimTypeOK, edge, feed
<1>4. RequestsOK' BY <1>1 DEF RequestsOK, feed
<1>5. AnswersOK'
  <2>1. \A i \in 1 .. Len(answers) : answers[i].for # "replace" BY <1>1 DEF AnswersOK
  <2>2. \A i \in 1 .. Len(answers') : answers'[i].for = "replace" =>
          i = Len(answers) + 1 /\ answers'[i].robot = r
    BY <2>1, <1>1, <1>2, AnswerFacts
  <2> QED BY <2>2, <1>1 DEF AnswersOK
<1>6. WorldOK'
  BY <1>1, <1>2, EndFacts DEF WorldOK
<1>7. ASSUME Calm' PROVE LivesOK'
  <2>1. /\ LivesOK /\ gazebo' = gazebo \ {Old} /\ OneOfEach' /\ OneOfAll'
        /\ \A s \in Robots : Launched(s)' \/ Queued(s)' \/ Launching(s)' \/ Ended(s)' =>
                               Launched(s) \/ Queued(s) \/ Launching(s) \/ Ended(s)
        /\ \A s \in Robots : ~ Launching(s) /\ ~ Replaced(s)
    BY <1>1, <1>2, <1>7, EndingLives
  <2>2. Managed' BY <2>1, <1>1 DEF LivesOK, Managed
  <2>3. ActiveOK'
    <3>1. ASSUME NEW s \in Robots, m_robots[s] = "active"
          PROVE  (\E m \in gazebo' : m[1] = s) \/ Replaced(s)'
      <4>1. PICK m \in gazebo : m[1] = s BY <3>1, <2>1 DEF LivesOK, ActiveOK
      <4>2. CASE m # Old BY <4>1, <4>2, <2>1
      <4>3. CASE m = Old
        BY <4>1, <4>3, <1>1, <1>2, EndFacts, AnswerFacts DEF Replaced
      <4> QED BY <4>2, <4>3
    <3> QED BY <3>1, <1>1 DEF ActiveOK
  <2> QED BY <2>1, <2>2, <2>3 DEF LivesOK
<1> QED BY <1>3, <1>4, <1>5, <1>6, <1>7

\* The answer that a model has gone is the end of its robot's life, or the begin of the next.
LEMMA DeleteReplyKeeps ==
  ASSUME SimInv, DeleteReply
  PROVE  SimInv'
<1> USE DEF SimInv
<1>1. PICK a \in Answers :
        /\ a = answers[1] /\ 1 \in 1 .. Len(answers)
        /\ m_robots' = IF a.for = "delete" /\ a.success
                       THEN [m_robots EXCEPT ![a.robot] = None] ELSE m_robots
        /\ IF a.for = "replace" THEN /\ pc' = IF a.success THEN "create" ELSE "idle"
                                     /\ request' = IF a.success THEN request ELSE None
           ELSE UNCHANGED worker
  <2>1. answers \in Seq(Answers) /\ answers # <<>> BY DEF DeleteReply, SimTypeOK
  <2>2. /\ Head(answers) = answers[1] /\ answers[1] \in Answers /\ 1 \in 1 .. Len(answers)
    BY <2>1
  <2> QED BY <2>2 DEF DeleteReply
<1>2. /\ answers' \in Seq(Answers)
      /\ \A i \in 1 .. Len(answers') : /\ i + 1 \in 1 .. Len(answers) /\ i + 1 # 1
                                       /\ answers'[i] = answers[i + 1]
  BY DEF DeleteReply, SimTypeOK
<1>3. \A i \in 1 .. Len(answers) : i # 1 => i - 1 \in 1 .. Len(answers') /\ answers'[i - 1] = answers[i]
  BY DEF DeleteReply, SimTypeOK
<1>4. UNCHANGED <<edge, feed, m_models, m_queue, launch, world, reply, restarts>>
  BY DEF DeleteReply
<1>5. a.robot \in Robots /\ a.for \in {"delete", "replace", "cleanup"} /\ a.success \in BOOLEAN
  BY DEF Answers
<1>6. a.for = "replace" => pc = "waitDelete" /\ a.robot = request.robot
  BY <1>1 DEF AnswersOK
<1>7. SimTypeOK'
  <2>1. m_robots' \in [Robots -> States \cup {None}] BY <1>1 DEF SimTypeOK
  <2>2. /\ pc' \in {"idle", "create", "waitModel", "waitController", "delete", "replace", "waitDelete"}
        /\ pc' # "idle" => request' \in Requests
    BY <1>1, <1>6 DEF SimTypeOK, worker
  <2> QED BY <2>1, <2>2, <1>2, <1>4 DEF SimTypeOK, edge, feed, launch, world
<1>8. RequestsOK'
  BY <1>1, <1>4, <1>6 DEF RequestsOK, worker, feed
<1>9. AnswersOK'
  <2>1. \A i \in 1 .. Len(answers') : answers'[i].for = "replace" =>
          a.for # "replace" /\ pc = "waitDelete" /\ answers'[i].robot = request.robot
    BY <1>1, <1>2 DEF AnswersOK
  <2>2. ASSUME NEW i \in 1 .. Len(answers'), NEW j \in 1 .. Len(answers'),
               answers'[i].for = "replace", answers'[j].for = "replace"
        PROVE  i = j
    <3>1. i + 1 = j + 1 BY <2>2, <1>2 DEF AnswersOK
    <3> QED BY <3>1
  <2>3. \A i \in 1 .. Len(answers') : answers'[i].for = "replace" =>
          pc' = "waitDelete" /\ answers'[i].robot = request'.robot
    BY <2>1, <1>1 DEF worker
  <2> QED BY <2>2, <2>3 DEF AnswersOK
<1>10. WorldOK'
  BY <1>1, <1>4, <1>6 DEF WorldOK, Calm, New, launch, world, worker
<1>11. ASSUME Calm' PROVE LivesOK'
  <2>1. LivesOK BY <1>4, <1>11 DEF Calm, launch
  <2>2. \A r \in Robots : /\ Launched(r)' <=> Launched(r)
                          /\ Queued(r)' <=> Queued(r)
    BY <1>4 DEF Launched, Queued, launch
  <2>3. ASSUME NEW r \in Robots, Ended(r)'
        PROVE  Ended(r) /\ ~ (Ends(a) /\ a.robot = r)
    <3>1. PICK i \in 1 .. Len(answers') : Ends(answers'[i]) /\ answers'[i].robot = r
      BY <2>3 DEF Ended
    <3>2. i + 1 \in 1 .. Len(answers) /\ i + 1 # 1 /\ answers'[i] = answers[i + 1]
      BY <1>2
    <3> QED BY <3>1, <3>2, <1>1, <2>1 DEF Ended, LivesOK, OneOfEach
  <2>4. \A r \in Robots : Launching(r)' =>
          \/ Launching(r)
          \/ Ended(r) /\ Ends(a) /\ a.robot = r /\ a.for = "replace"
    BY <1>1, <1>5, <1>6 DEF Launching, Ended, Ends, worker
  <2>5. \A r \in Robots : Launching(r) => Launching(r)'
    BY <1>1, <1>6 DEF Launching, worker
  <2>6. \A r \in Robots : a.for = "delete" /\ a.success /\ a.robot = r =>
          ~ Launched(r) /\ ~ Queued(r) /\ ~ Launching(r) /\ ~ Launching(r)' /\ ~ Ended(r)'
    BY <2>1, <2>3, <2>4, <1>1 DEF LivesOK, OneOfAll, Ended, Ends
  <2>7. OneOfEach'
    <3>1. ASSUME NEW i \in 1 .. Len(answers'), NEW j \in 1 .. Len(answers'),
                 Ends(answers'[i]), Ends(answers'[j]), answers'[i].robot = answers'[j].robot
          PROVE  i = j
      <4>1. i + 1 = j + 1 BY <3>1, <1>2, <2>1 DEF LivesOK, OneOfEach
      <4> QED BY <4>1
    <3> QED BY <3>1, <2>1, <1>4 DEF LivesOK, OneOfEach, launch
  <2>8. OneOfAll'
    <3>1. ASSUME NEW r \in Robots
          PROVE  /\ Launched(r)' => ~ Queued(r)' /\ ~ Launching(r)' /\ ~ Ended(r)'
                 /\ Queued(r)' => ~ Launching(r)' /\ ~ Ended(r)'
                 /\ Launching(r)' => ~ Ended(r)'
      BY <2>1, <2>2, <2>3, <2>4 DEF LivesOK, OneOfAll
    <3> QED BY <3>1 DEF OneOfAll
  <2>9. Managed'
    <3>1. ASSUME NEW r \in Robots, Launched(r)' \/ Queued(r)' \/ Launching(r)' \/ Ended(r)'
          PROVE  m_robots'[r] \notin {None, "failed"}
      <4>1. ~ (a.for = "delete" /\ a.success /\ a.robot = r)
        BY <3>1, <2>2, <2>6
      <4>2. m_robots'[r] = m_robots[r] BY <4>1, <1>1 DEF SimTypeOK
      <4>3. Launched(r) \/ Queued(r) \/ Launching(r) \/ Ended(r)
        BY <3>1, <2>2, <2>3, <2>4
      <4> QED BY <4>2, <4>3, <2>1 DEF LivesOK, Managed
    <3> QED BY <3>1 DEF Managed
  <2>10. ActiveOK'
    <3>1. ASSUME NEW r \in Robots, m_robots'[r] = "active"
          PROVE  \/ \E m \in gazebo' : m[1] = r
                 \/ Launching(r)' /\ request'.old # None
                 \/ Replaced(r)'
      <4>1. m_robots[r] = "active" BY <3>1, <1>1, <1>5 DEF SimTypeOK, States
      <4>2. CASE \E m \in gazebo : m[1] = r BY <4>2, <1>4 DEF world
      <4>3. CASE Launching(r) /\ request.old # None
        BY <4>3, <2>5, <1>1, <1>6 DEF Launching, worker
      <4>4. CASE Replaced(r)
        <5>1. PICK i \in 1 .. Len(answers) :
                answers[i].for = "replace" /\ answers[i].success /\ answers[i].robot = r
          BY <4>4 DEF Replaced
        <5>2. CASE i = 1
          BY <5>1, <5>2, <1>1, <1>6 DEF Launching, RequestsOK
        <5>3. CASE i # 1
          BY <5>1, <5>3, <1>3 DEF Replaced
        <5> QED BY <5>2, <5>3
      <4> QED BY <4>1, <4>2, <4>3, <4>4, <2>1 DEF LivesOK, ActiveOK
    <3> QED BY <3>1 DEF ActiveOK
  <2> QED BY <2>7, <2>8, <2>9, <2>10 DEF LivesOK
<1> QED BY <1>7, <1>8, <1>9, <1>10, <1>11

LEMMA RestartKeeps ==
  ASSUME SimInv, ManagerRestarts
  PROVE  SimInv'
<1> USE DEF SimInv
<1>1. restarts \in Nat /\ restarts' = restarts + 1 /\ restarts' \in 0 .. MaxRestarts
  BY DEF ManagerRestarts, SimTypeOK
<1>2. ~ Calm' BY <1>1 DEF Calm
<1>3. m_queue' = <<>> /\ toRequest' = <<>> /\ answers' = <<>> /\ pc' = "idle"
  BY DEF ManagerRestarts
<1>4. SimTypeOK'
  <2>1. m_queue' \in Seq(Requests) /\ toRequest' \in Seq(Requests) /\ answers' \in Seq(Answers)
    BY <1>3
  <2>2. m_robotList' \in Lists BY DEF ManagerRestarts, Lists
  <2> QED BY <2>1, <2>2, <1>1 DEF ManagerRestarts, SimTypeOK, edge, world
<1>5. RequestsOK' /\ AnswersOK' BY <1>3 DEF RequestsOK, AnswersOK
<1>6. WorldOK' BY <1>2 DEF ManagerRestarts, WorldOK, world
<1> QED BY <1>2, <1>4, <1>5, <1>6

------------------------------------------------------------------------------
\* Each step of the manager, of its callers and of Gazebo keeps the invariant.
LEMMA SimStep == SimInv /\ [SimNext]_simVars => SimInv'
<1>1. CASE UNCHANGED simVars
  BY <1>1 DEF simVars, edge, feed, worker, launch, world, wire, SimInv, SimTypeOK, RequestsOK,
     AnswersOK, WorldOK, Calm, New, LivesOK, OneOfEach, OneOfAll, Managed, ActiveOK, Queued,
     Launching, Launched, Ended, Replaced
<1> QED
  BY <1>1, OutsideKeeps, SyncKeeps, RequestKeeps, TakeRequestKeeps, LaunchKeeps, LaunchFailsKeeps, WaitsKeep,
     GiveUpKeeps, DeleteRobotKeeps, ReplaceRobotKeeps, DeleteReplyKeeps, RestartKeeps
  DEF SimNext, Worker, Gazebo

LEMMA SimAlways == SimSpec => []SimInv
BY SimInitOK, SimStep, PTL DEF SimSpec

\* Every variable has its type: the list, the states, the queue, the worker, the answers,
\* the processes and the models of the simulation manager.
THEOREM SimTypeCorrect == SimSpec => []SimTypeOK
<1>1. SimInv => SimTypeOK BY DEF SimInv
<1> QED BY <1>1, SimAlways, PTL

\* No two processes of robot_launch.py run for one robot, however the lists, the worker's
\* steps and Gazebo's answers interleave, until a launch that was given up goes on or the
\* manager restarts (SimulationManager::createRobot, deleteRobot, replaceRobot).
THEOREM LaunchesAreSingle == SimSpec => []OneLaunch
<1>1. SimInv => OneLaunch BY DEF SimInv, Calm, LivesOK, OneOfEach, OneLaunch
<1> QED BY <1>1, SimAlways, PTL

\* A robot that the manager holds ACTIVE stands in Gazebo by a launch of its own, but while
\* the worker replaces it (SimulationManager::replaceRobot), under the same condition.
THEOREM ActiveRobotsStand == SimSpec => []ActiveStands
<1>1. ASSUME SimInv, Calm, NEW r \in Robots, m_robots[r] = "active"
      PROVE  \/ \E m \in m_processes \cap gazebo : m[1] = r
             \/ pc \in {"waitDelete", "create"} /\ request.robot = r /\ request.old # None
  <2>1. CASE \E m \in gazebo : m[1] = r
    BY <2>1, <1>1 DEF SimInv, WorldOK
  <2>2. CASE Launching(r) /\ request.old # None
    BY <2>2 DEF Launching
  <2>3. CASE Replaced(r)
    BY <2>3, <1>1 DEF Replaced, SimInv, AnswersOK, RequestsOK
  <2> QED BY <1>1, <2>1, <2>2, <2>3 DEF SimInv, LivesOK, ActiveOK
<1>2. SimInv => ActiveStands BY <1>1 DEF Calm, ActiveStands
<1> QED BY <1>2, SimAlways, PTL

------------------------------------------------------------------------------
(* A world that agrees with the list is left alone. *)

\* The models are those of the list, the manager knows it, and nothing is under way.
Settled ==
  /\ Agrees /\ m_robotList = list /\ m_models = gazebo /\ reply \in {None, gazebo}
  /\ toRequest = <<>> /\ m_queue = <<>> /\ pc = "idle" /\ answers = <<>> /\ spawning = {}

\* Whichever of a robot's models it is compared with, a settled world lacks nothing, ...
LEMMA NothingWanted ==
  ASSUME SimTypeOK, Settled, NEW old \in [Robots -> Instances \cup {None}],
         \A r \in Robots : IF \E m \in m_models : m[1] = r THEN <<r, old[r]>> \in m_models
                                                           ELSE old[r] = None
  PROVE  Wanted(old) = {}
<1>1. m_models = {<<r, list[r]>> : r \in {s \in Robots : list[s] # None}} /\ m_robotList = list
  BY DEF Settled, Agrees
<1>2. ASSUME NEW r \in Robots
      PROVE  old[r] = list[r]
  <2>1. CASE list[r] = None
    <3>1. ~ \E m \in m_models : m[1] = r BY <1>1, <2>1
    <3> QED BY <2>1, <3>1
  <2>2. CASE list[r] # None
    <3>1. <<r, list[r]>> \in m_models BY <1>1, <2>2
    <3>2. \E m \in m_models : m[1] = r BY <3>1
    <3>3. <<r, old[r]>> \in m_models BY <3>2
    <3> QED BY <1>1, <3>3
  <2> QED BY <2>1, <2>2
<1> QED BY <1>1, <1>2 DEF Wanted

\* ... and has nothing that is not wanted.
LEMMA NothingUnwanted ==
  ASSUME SimTypeOK, Settled
  PROVE  Unwanted = {}
<1>1. m_models = {<<r, list[r]>> : r \in {s \in Robots : list[s] # None}} /\ m_robotList = list
  BY DEF Settled, Agrees
<1>2. ASSUME NEW r \in Robots, list[r] = None, NEW i \in Instances
      PROVE  <<r, i>> \notin m_models
  BY <1>1, <1>2
<1> QED BY <1>1, <1>2 DEF Unwanted

\* Once the models agree with the list, and the manager knows it, no synchronisation asks for
\* anything: only a change of the list or a restart ends the agreement. The manager does not
\* make and unmake models around the state it was to reach (RobotSyncManager::sync).
THEOREM AgreementIsKept ==
  SimSpec => [][Settled /\ list' = list /\ restarts' = restarts => Settled']_simVars
<1>1. ASSUME SimInv, SimNext, Settled, list' = list, restarts' = restarts
      PROVE  Settled'
  <2> USE <1>1 DEF SimInv
  <2>1. CASE EdgeChanges \/ ManagerRestarts
    BY <2>1 DEF EdgeChanges, ManagerRestarts, SimTypeOK
  <2>2. CASE ReceiveList \/ Request
    BY <2>2 DEF ReceiveList, Request, Settled, Agrees, edge, world, worker, launch, wire
  <2>3. CASE Sync
    <3>1. PICK old \in [Robots -> Instances \cup {None}] :
            /\ \A r \in Robots : IF \E m \in m_models : m[1] = r THEN <<r, old[r]>> \in m_models
                                                                 ELSE old[r] = None
            /\ \E first \in SetToSeqs(Wanted(old)), last \in SetToSeqs(Unwanted) :
                 toRequest' = first \o last
      BY <2>3 DEF Sync
    <3>2. Wanted(old) = {} /\ Unwanted = {} BY <3>1, NothingWanted, NothingUnwanted
    <3>3. PICK first \in SetToSeqs({}), last \in SetToSeqs({}) :
            toRequest' = first \o last
      BY <3>1, <3>2
    <3>4. IsFiniteSet({}) BY FS_EmptySet
    <3>5. first \in Seq({}) /\ last \in Seq({}) BY <3>4, SeqsFacts
    <3>6. first = <<>> /\ last = <<>> BY <3>5
    <3>7. toRequest' = <<>> BY <3>3, <3>6
    <3> QED BY <2>3, <3>7 DEF Sync, Settled, Agrees, edge, world, worker, launch, wire
  <2>4. CASE Worker
    BY <2>4 DEF Worker, TakeRequest, Launch, LaunchFails, ModelSeen, ControllerReady, GiveUp,
       DeleteRobot, ReplaceRobot, Settled
  <2>5. CASE GazeboStarts
    BY <2>5 DEF GazeboStarts, Settled, Agrees, edge, feed, worker, launch, wire
  <2>6. CASE \E m \in Models : ModelAppears(m)
    BY <2>6 DEF ModelAppears, Settled
  <2>7. CASE UpdateModels
    BY <2>7 DEF UpdateModels, Settled, Agrees, edge, feed, worker, launch, world
  <2>8. CASE ModelsReply
    BY <2>8 DEF ModelsReply, Settled, Agrees, edge, feed, worker, launch, world
  <2>9. CASE DeleteReply
    BY <2>9 DEF DeleteReply, Settled
  <2> QED
    BY <2>1, <2>2, <2>3, <2>4, <2>5, <2>6, <2>7, <2>8, <2>9 DEF SimNext, Gazebo
<1>2. SimInv /\ [SimNext]_simVars =>
        [Settled /\ list' = list /\ restarts' = restarts => Settled']_simVars
  BY <1>1
<1> QED BY <1>2, SimAlways, PTL DEF SimSpec

==============================================================================
