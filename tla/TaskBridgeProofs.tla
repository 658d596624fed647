-------------------------- MODULE TaskBridgeProofs --------------------------
(***************************************************************************)
(* Theorems about TaskBridge, for any events, any times and any number of  *)
(* crashes.                                                                *)
(***************************************************************************)
EXTENDS TaskBridge, TLAPS

\* Only what the edge has handled is acknowledged.
AcksAreJustified == \A id \in acks : \E h \in handled : Id(h) = id

\* The inductive invariant.  That nothing is forgotten needs the second part:
\* an acknowledgement takes a report out of the file.
BridgeInv == TypeOK /\ AcksAreJustified /\ NothingForgotten

\* A message_id is one of Ids.
LEMMA IdType == \A m \in Message : Id(m) \in Ids
BY BridgeAssumption DEF Id, Ids, Message

\* A message has no other fields than its event and its stamp.
LEMMA MessageType ==
  \A e \in Event, s \in Stamp : [event |-> e, stamp |-> s] \in Message
BY DEF Message

\* Idle is a state of the executor, and no other has its pc.
LEMMA ExecutorMessage ==
  ASSUME executor \in ExecutorStates
  PROVE  /\ executor.pc \in {"publish", "store"} => executor.msg \in Message
         /\ executor.pc = "flush" => executor.todo \in (SUBSET Message) \ {{}}
BY DEF ExecutorStates, Idle

------------------------------------------------------------------------------
(***************************************************************************)
(* Types.                                                                  *)
(***************************************************************************)

\* The initial state has the right types.
LEMMA InitTypeOK == Init => TypeOK
<1> SUFFICES ASSUME Init PROVE TypeOK
  OBVIOUS
<1>1. executor \in ExecutorStates
  BY DEF Init, ExecutorStates
<1>2. 0 \in 0..MaxCrashes
  BY BridgeAssumption
<1> QED BY <1>1, <1>2 DEF Init, TypeOK

\* Every step keeps the types.
LEMMA TypeStep == TypeOK /\ [Next]_vars => TypeOK'
<1> SUFFICES ASSUME TypeOK, [Next]_vars PROVE TypeOK'
  OBVIOUS
<1> USE BridgeAssumption
<1>t. ASSUME NEW e \in Event, NEW s \in Stamp, TakeEvent(e, s) PROVE TypeOK'
  <2>1. [event |-> e, stamp |-> s] \in Message
    BY MessageType
  <2>2. taken' \subseteq Message
    BY <1>t, <2>1 DEF TakeEvent, TypeOK
  <2>3. executor' \in ExecutorStates
    BY <1>t, <2>1 DEF TakeEvent, ExecutorStates
  <2> QED BY <1>t, <2>2, <2>3 DEF TakeEvent, TypeOK, edge
<1>p. ASSUME PublishEvent PROVE TypeOK'
  <2>1. executor.msg \in Message
    BY <1>p, ExecutorMessage DEF PublishEvent, TypeOK
  <2>2. executor' \in ExecutorStates
    BY <1>p, <2>1 DEF PublishEvent, TypeOK, ExecutorStates, Idle
  <2> QED BY <1>p, <2>1, <2>2 DEF PublishEvent, TypeOK, edge
<1>s. ASSUME StoreReport PROVE TypeOK'
  <2>1. executor.msg \in Message
    BY <1>s, ExecutorMessage DEF StoreReport, TypeOK
  <2>2. executor' \in ExecutorStates
    BY <1>s DEF StoreReport, ExecutorStates
  <2>3. file' \subseteq Message /\ \A m, n \in file' : Id(m) = Id(n) => m = n
    BY <1>s, <2>1 DEF StoreReport, TypeOK
  <2> QED BY <1>s, <2>2, <2>3 DEF StoreReport, TypeOK, edge
<1>f. ASSUME Flush PROVE TypeOK'
  <2>1. executor' \in ExecutorStates
    BY <1>f DEF Flush, TypeOK, ExecutorStates
  <2> QED BY <1>f, <2>1 DEF Flush, TypeOK, edge
<1>r. ASSUME NEW m \in Message, FlushReport(m) PROVE TypeOK'
  <2>1. executor.todo \in (SUBSET Message) \ {{}}
    BY <1>r, ExecutorMessage DEF FlushReport, TypeOK
  <2>2. executor' \in ExecutorStates
    BY <1>r, <2>1 DEF FlushReport, AfterFlushing, ExecutorStates
  <2> QED BY <1>r, <2>2 DEF FlushReport, TypeOK, edge
<1>a. ASSUME NEW id \in Ids, ReceiveAck(id) PROVE TypeOK'
  BY <1>a DEF ReceiveAck, TypeOK, edge
<1>o. ASSUME NEW topic \in Topics, RouteMessage(topic) PROVE TypeOK'
  BY <1>o DEF RouteMessage, TypeOK, edge, amr
<1>l. ASSUME LinkChanges PROVE TypeOK'
  BY <1>l DEF LinkChanges, TypeOK, edge
<1>e. ASSUME NEW m \in Message, EdgeReceive(m) PROVE TypeOK'
  BY <1>e DEF EdgeReceive, TypeOK, amr
<1>h. ASSUME NEW m \in Message, EdgeHandle(m) PROVE TypeOK'
  BY <1>h, IdType DEF EdgeHandle, TypeOK, amr
<1>c. ASSUME AmrCrash PROVE TypeOK'
  <2>1. executor' \in ExecutorStates
    BY <1>c DEF AmrCrash, ExecutorStates
  <2>2. sent' \subseteq Message /\ acks' \subseteq Ids
    BY <1>c DEF AmrCrash, TypeOK
  <2>3. crashes' \in 0..MaxCrashes
    <3>1. crashes \in 0..MaxCrashes /\ crashes < MaxCrashes /\ crashes' = crashes + 1
      BY <1>c DEF AmrCrash, TypeOK
    <3> QED BY <3>1
  <2> QED BY <1>c, <2>1, <2>2, <2>3 DEF AmrCrash, TypeOK, edge
<1>d. ASSUME EdgeCrash PROVE TypeOK'
  BY <1>d DEF EdgeCrash, TypeOK, amr
<1>u. ASSUME UNCHANGED vars PROVE TypeOK'
  BY <1>u DEF vars, amr, edge, TypeOK
<1> QED
  BY <1>t, <1>p, <1>s, <1>f, <1>r, <1>a, <1>o, <1>l, <1>e, <1>h, <1>c, <1>d, <1>u
  DEF Next, ExecutorStep

------------------------------------------------------------------------------
(***************************************************************************)
(* Acknowledgements.                                                       *)
(***************************************************************************)

\* Every step keeps acknowledgements justified: only EdgeHandle adds one.
LEMMA AcksStep == AcksAreJustified /\ [Next]_vars => AcksAreJustified'
<1> SUFFICES ASSUME AcksAreJustified, [Next]_vars PROVE AcksAreJustified'
  OBVIOUS
<1>1. CASE \E m \in Message : EdgeHandle(m)
  BY <1>1 DEF AcksAreJustified, EdgeHandle, Id
<1>2. CASE acks' \subseteq acks /\ handled' = handled
  BY <1>2 DEF AcksAreJustified, Id
<1>3. \/ \E m \in Message : EdgeHandle(m)
      \/ acks' \subseteq acks /\ handled' = handled
  BY DEF Next, ExecutorStep, vars, edge, amr, TakeEvent, PublishEvent, StoreReport,
         Flush, FlushReport, ReceiveAck, RouteMessage, LinkChanges, EdgeReceive,
         AmrCrash, EdgeCrash
<1> QED BY <1>1, <1>2, <1>3

------------------------------------------------------------------------------
(***************************************************************************)
(* Nothing is forgotten.                                                   *)
(***************************************************************************)

\* Where a message may be, but for the executor.
Places == file \cup sent \cup queue \cup handled

\* Whatever is somewhere stays somewhere, under its message_id, unless there is
\* a crash.
LEMMA PlacesKept ==
  ASSUME AcksAreJustified, [Next]_vars, crashes' = crashes, crashes \in Nat,
         NEW x \in Places
  PROVE  \E y \in Places' : Id(y) = Id(x)
<1>1. CASE \E id \in Ids : ReceiveAck(id)
  <2>1. PICK id \in Ids : ReceiveAck(id)
    BY <1>1
  <2>2. CASE x \in file /\ Id(x) = id
    <3>1. PICK h \in handled : Id(h) = id
      BY <2>1 DEF ReceiveAck, AcksAreJustified
    <3>2. h \in Places'
      BY <2>1 DEF ReceiveAck, edge, Places
    <3> QED BY <2>2, <3>1, <3>2
  <2>3. CASE ~(x \in file /\ Id(x) = id)
    <3>1. x \in Places'
      BY <2>1, <2>3 DEF ReceiveAck, edge, Places
    <3> QED BY <3>1
  <2> QED BY <2>2, <2>3
<1>2. CASE ~ \E id \in Ids : ReceiveAck(id)
  <2>1. ~AmrCrash /\ ~EdgeCrash
    BY DEF AmrCrash, EdgeCrash
  <2>2. x \in Places'
    BY <1>2, <2>1
    DEF Places, Next, ExecutorStep, vars, edge, amr, TakeEvent, PublishEvent,
        StoreReport, Flush, FlushReport, RouteMessage, LinkChanges, EdgeReceive,
        EdgeHandle
  <2> QED BY <2>2
<1> QED BY <1>1, <1>2

\* The executor lets go of a message only when it is somewhere.
LEMMA ExecutorLetsGo ==
  ASSUME [Next]_vars, crashes' = crashes, crashes \in Nat,
         executor.pc \in {"publish", "store"},
         ~ (executor'.pc \in {"publish", "store"} /\ executor'.msg = executor.msg)
  PROVE  \E y \in Places' : Id(y) = Id(executor.msg)
<1>1. ~AmrCrash /\ ~EdgeCrash
  BY DEF AmrCrash, EdgeCrash
<1>2. PublishEvent \/ StoreReport
  BY <1>1
  DEF Next, ExecutorStep, vars, edge, amr, TakeEvent, Flush, FlushReport, Idle,
      ReceiveAck, RouteMessage, LinkChanges, EdgeReceive, EdgeHandle
<1>3. CASE PublishEvent /\ link
  BY <1>3 DEF PublishEvent, Places
<1>4. CASE PublishEvent /\ ~link
  <2>1. executor' = [executor EXCEPT !.pc = "store"]
    BY <1>4 DEF PublishEvent
  <2>2. executor'.msg = executor.msg
    BY <2>1
  <2> QED BY <2>1, <2>2
<1>5. CASE StoreReport
  BY <1>5 DEF StoreReport, Places
<1> QED BY <1>2, <1>3, <1>4, <1>5

\* Every step keeps NothingForgotten.
LEMMA NothingForgottenStep ==
  BridgeInv /\ [Next]_vars => NothingForgotten'
<1> SUFFICES ASSUME BridgeInv, [Next]_vars, crashes' = 0, NEW m \in taken'
             PROVE  \/ executor'.pc \in {"publish", "store"} /\ executor'.msg = m
                    \/ \E x \in Places' : Id(x) = Id(m)
  BY DEF NothingForgotten, Places, Id
<1>1. crashes \in Nat /\ crashes' \in {crashes, crashes + 1}
  BY BridgeAssumption
  DEF BridgeInv, TypeOK, Next, ExecutorStep, vars, edge, amr, TakeEvent, PublishEvent,
      StoreReport, Flush, FlushReport, ReceiveAck, RouteMessage, LinkChanges,
      EdgeReceive, EdgeHandle, AmrCrash, EdgeCrash
<1>2. crashes = 0 /\ crashes' = crashes
  BY <1>1
<1>3. CASE m \in taken
  <2>1. CASE executor.pc \in {"publish", "store"} /\ executor.msg = m
    BY <1>2, <2>1, ExecutorLetsGo
  <2>2. CASE \E x \in Places : Id(x) = Id(m)
    BY <1>2, <2>2, PlacesKept DEF BridgeInv
  <2> QED BY <1>2, <1>3, <2>1, <2>2 DEF BridgeInv, NothingForgotten, Places
<1>4. CASE m \notin taken
  <2>1. PICK e \in Event, s \in Stamp : TakeEvent(e, s)
    BY <1>4
    DEF Next, ExecutorStep, vars, edge, amr, PublishEvent, StoreReport, Flush,
        FlushReport, ReceiveAck, RouteMessage, LinkChanges, EdgeReceive, EdgeHandle,
        AmrCrash, EdgeCrash
  <2>2. m = [event |-> e, stamp |-> s]
    BY <1>4, <2>1 DEF TakeEvent
  <2> QED BY <2>1, <2>2 DEF TakeEvent
<1> QED BY <1>3, <1>4

------------------------------------------------------------------------------
(***************************************************************************)
(* Theorems.                                                               *)
(***************************************************************************)

\* BridgeInv is inductive.
THEOREM BridgeInvariance == Spec => []BridgeInv
<1>1. Init => BridgeInv
  BY InitTypeOK DEF Init, BridgeInv, AcksAreJustified, NothingForgotten
<1>2. BridgeInv /\ [Next]_vars => BridgeInv'
  BY TypeStep, AcksStep, NothingForgottenStep DEF BridgeInv
<1> QED BY <1>1, <1>2, PTL DEF Spec

\* Types, and at most one stored report per message_id (PendingReportStore::add).
THEOREM BridgeTypeCorrect == Spec => []TypeOK
<1>1. BridgeInv => TypeOK
  BY DEF BridgeInv
<1> QED BY <1>1, BridgeInvariance, PTL

\* No event of the behaviour manager is forgotten without a crash
\* (TaskBridge::publishTaskEventToMqtt and the flush).
THEOREM EventsAreKept == Spec => []NothingForgotten
<1>1. BridgeInv => NothingForgotten
  BY DEF BridgeInv
<1> QED BY <1>1, BridgeInvariance, PTL

\* A stored report leaves the file only when the edge has handled it, whatever
\* crashes (PendingReportStore::removeByMessageIds).
THEOREM StoredReportsAreKept == Spec => StoredLeavesWhenHandled
<1>1. ASSUME BridgeInv, [Next]_vars, NEW m \in file, m \notin file'
      PROVE  \E h \in handled : Id(h) = Id(m)
  <2>1. PICK id \in Ids : ReceiveAck(id)
    BY <1>1
    DEF Next, ExecutorStep, vars, edge, amr, TakeEvent, PublishEvent, StoreReport,
        Flush, FlushReport, RouteMessage, LinkChanges, EdgeReceive, EdgeHandle,
        AmrCrash, EdgeCrash
  <2>2. Id(m) = id
    BY <1>1, <2>1 DEF ReceiveAck
  <2> QED BY <1>1, <2>1, <2>2 DEF ReceiveAck, BridgeInv, AcksAreJustified
<1>2. BridgeInv /\ [Next]_vars =>
        [\A m \in file : m \notin file' => \E h \in handled : Id(h) = Id(m)]_vars
  BY <1>1
<1> QED BY <1>2, BridgeInvariance, PTL DEF Spec, StoredLeavesWhenHandled

------------------------------------------------------------------------------
(* Goods requests. *)

\* What is acknowledged is a report of the carriage: robotGoodsRequestHandler sends none.
NoRequestIsAcked == \A id \in acks : id[2] # "GOODS_REQUEST"

LEMMA RequestStep ==
  ASSUME TypeOK, NoRequestIsAcked, [Next]_vars
  PROVE  /\ NoRequestIsAcked'
         /\ \A m \in file : IsRequest(m) => m \in file'
<1>1. CASE \E m \in Message : EdgeHandle(m)
  <2>1. PICK m \in Message : EdgeHandle(m) BY <1>1
  <2>2. Id(m)[2] = event_type[m.event] BY DEF Id
  <2> QED BY <2>1, <2>2 DEF EdgeHandle, NoRequestIsAcked, IsRequest, amr
<1>2. CASE \E id \in Ids : ReceiveAck(id)
  <2>1. PICK id \in Ids : ReceiveAck(id) BY <1>2
  <2>2. ASSUME NEW m \in file, IsRequest(m)
        PROVE  Id(m) # id
    <3>1. Id(m)[2] = "GOODS_REQUEST" BY <2>2 DEF Id, IsRequest
    <3> QED BY <2>1, <3>1 DEF ReceiveAck, NoRequestIsAcked
  <2> QED BY <2>1, <2>2 DEF ReceiveAck, NoRequestIsAcked
<1>3. CASE ~(\E m \in Message : EdgeHandle(m)) /\ ~(\E id \in Ids : ReceiveAck(id))
  BY <1>3
  DEF Next, ExecutorStep, vars, edge, amr, TakeEvent, PublishEvent, StoreReport, Flush,
      FlushReport, RouteMessage, LinkChanges, EdgeReceive, AmrCrash, EdgeCrash,
      NoRequestIsAcked
<1> QED BY <1>1, <1>2, <1>3

\* A goods request that is stored never leaves the file, however often it is sent and
\* answered: a response is no acknowledgement, and no acknowledgement of another report has
\* its message_id (TaskBridge::onStatusAckMessage, flushPendingReports). This is why
\* StoredReportsAreDelivered is said of the other reports only.
THEOREM StoredRequestsStay ==
  Spec => [][\A m \in file : IsRequest(m) => m \in file']_vars
<1>1. Init => NoRequestIsAcked
  BY DEF Init, NoRequestIsAcked
<1>2. TypeOK /\ NoRequestIsAcked /\ [Next]_vars =>
        /\ NoRequestIsAcked'
        /\ [\A m \in file : IsRequest(m) => m \in file']_vars
  BY RequestStep
<1> QED BY <1>1, <1>2, BridgeTypeCorrect, PTL DEF Spec

==============================================================================
