------------------------- MODULE RobotRegistryProofs -------------------------
(***************************************************************************)
(* Theorems about RobotRegistry, for every fleet, every set of maps and    *)
(* any number of HTTP workers.                                             *)
(*                                                                         *)
(* The properties are not inductive.  RInv adds                            *)
(*   - what a thread has made sure of before its next call: the robot that *)
(*     is persisted is known, the one that is answered has the pose of the *)
(*     answer and is stored with it unless its row was refused, a package  *)
(*     that is inserted or loaded has a file (Progress);                   *)
(*   - that one instance is stored of each robot that is (OneInstance);    *)
(*   - that the point a robot was given is marked as occupied as long as   *)
(*     the points have not been loaded again (GivenIsOccupied), which is   *)
(*     what makes the next point a free one.                               *)
(***************************************************************************)
EXTENDS RobotRegistry, TLAPS

\* What the threads rely on between two calls.
Progress ==
  /\ consumer.pc = "persist" => Known(consumer.robot)
  /\ consumer.pc = "answer" =>
       /\ Known(consumer.robot) /\ robots[consumer.robot].pose = consumer.pose
       /\ consumer.robot \notin unsaved =>
            table[consumer.robot] = robots[consumer.robot]
  /\ \A w \in Worker :
       /\ worker[w].pc = "insert" => file[worker[w].version] # NoFile
       /\ worker[w].pc \in {"activate", "load"} => worker[w].version \in packages

OneInstance ==
  \A r \in Robot :
    instances[r] = IF table[r] = NoEntry THEN {} ELSE {table[r].instance}

GivenIsOccupied ==
  ~reloaded =>
    \A r \in Robot : Known(r) =>
      \A i \in 1..Len(points) : points[i] = robots[r].pose => i \in occupied

RInv ==
  /\ TypeOK /\ MemoryMatchesTable /\ ToldPoseIsStored /\ DistinctUntilReload
  /\ Progress /\ OneInstance /\ GivenIsOccupied

------------------------------------------------------------------------------

LEMMA ContentsAreInjective ==
  ASSUME NEW s \in Contents
  PROVE  s \in Seq(Pose) /\ Len(s) \in Nat /\ Injective(s)
<1>1. CASE s \in Archives
  BY <1>1, RegistryAssumption
<1>2. CASE s = <<>>
  BY <1>2 DEF Injective
<1> QED
  BY <1>1, <1>2 DEF Contents, Unreadable

\* What registration gives an unknown robot: the origin, or a point that was free
\* and becomes occupied.
LEMMA AllocationIsFresh ==
  ASSUME TypeOK, TakePoint
  PROVE  /\ occupied \subseteq occupied' /\ occupied' \subseteq 1..Len(points)
         /\ \/ Allocated = Origin
            \/ \E i \in 1..Len(points) :
                 i \notin occupied /\ i \in occupied' /\ Allocated = points[i]
<1>1. First \subseteq {i \in 1..Len(points) : i \notin occupied}
  BY DEF First, Free
<1>2. CASE First = {}
  BY <1>2 DEF Allocated, TakePoint, TypeOK
<1>3. CASE First # {}
  <2>1. (CHOOSE i \in First : TRUE) \in First
    BY <1>3
  <2> QED
    BY <1>1, <1>3, <2>1 DEF Allocated, TakePoint, TypeOK
<1> QED
  BY <1>2, <1>3

------------------------------------------------------------------------------
(***************************************************************************)
(* RInv holds initially and is preserved by every step.                    *)
(***************************************************************************)

LEMMA EntriesAreEntries ==
  ASSUME NEW e \in Entry
  PROVE  e # NoEntry /\ e.instance \in Stamp /\ e.pose \in Poses
BY RegistryAssumption DEF Entry, NoEntry

\* While no registration is under way, memory and table agree on every robot whose
\* row was not refused.
LEMMA IdleMatches ==
  ASSUME MemoryMatchesTable, consumer.pc # "persist"
  PROVE  \A q \in Robot : robots[q] = table[q] \/ (table[q] = NoEntry /\ q \in unsaved)
<1>1. \A q : [pc |-> "persist", robot |-> q].pc = "persist"
  OBVIOUS
<1> QED
  BY <1>1 DEF MemoryMatchesTable

LEMMA InitEstablishes == Init => RInv
<1> SUFFICES ASSUME Init PROVE RInv
  OBVIOUS
<1> USE DEF Init
<1>1. TypeOK
  <2>1. points \in Contents /\ occupied \subseteq 1..Len(points)
    BY DEF Contents, Unreadable
  <2>2. consumer \in ConsumerStates /\ worker \in [Worker -> WorkerStates]
    BY DEF ConsumerStates, WorkerStates
  <2>3. /\ crashes \in 0..MaxCrashes
        /\ \A v \in packages : file[v] # NoFile
    BY RegistryAssumption
  <2>4. /\ tmp \in [Version -> Contents \cup {NoFile}]
        /\ file \in [Version -> Contents \cup {NoFile}]
    OBVIOUS
  <2> QED
    BY <2>1, <2>2, <2>3, <2>4 DEF TypeOK
<1>2. MemoryMatchesTable /\ ToldPoseIsStored /\ DistinctUntilReload
  BY DEF MemoryMatchesTable, ToldPoseIsStored, DistinctUntilReload, Known
<1>3. Progress /\ OneInstance /\ GivenIsOccupied
  BY DEF Progress, OneInstance, GivenIsOccupied, Known, Idle
<1> QED
  BY <1>1, <1>2, <1>3 DEF RInv

LEMMA RegisterPreserves ==
  ASSUME RInv, NEW r \in Robot, NEW s \in Stamp, RegisterRobot(r, s)
  PROVE  RInv'
<1> USE DEF RInv, RegisterRobot
<1> DEFINE e == [instance |-> s, pose |-> Allocated]
<1>1. UNCHANGED <<table, instances, packages, active, tmp, file, points, worker,
                  told, listed, unsaved, forgotten, reloaded, crashes>>
  BY DEF stored, others, lost
<1>2. consumer = Idle /\ consumer' = [pc |-> "persist", robot |-> r]
  OBVIOUS
<1>3. \A q \in Robot : robots[q] = table[q] \/ (table[q] = NoEntry /\ q \in unsaved)
  BY <1>2, IdleMatches DEF Idle
<1>4. CASE Known(r)
  <2>1. UNCHANGED <<robots, occupied>>
    BY <1>4
  <2>2. TypeOK'
    BY <1>1, <1>2, <2>1 DEF TypeOK, ConsumerStates
  <2>3. MemoryMatchesTable'
    <3> SUFFICES ASSUME NEW q \in Robot
                 PROVE  robots'[q] = table'[q] \/ (table'[q] = NoEntry /\ q \in unsaved')
      BY Zenon DEF MemoryMatchesTable
    <3> QED
      BY <1>1, <1>3, <2>1
  <2>4. DistinctUntilReload'
    BY <1>1, <2>1 DEF DistinctUntilReload, Known
  <2>8. OneInstance'
    BY <1>1 DEF OneInstance
  <2>7. GivenIsOccupied'
    BY <1>1, <2>1 DEF GivenIsOccupied, Known
  <2>6. ToldPoseIsStored'
    BY <1>1, <2>1 DEF ToldPoseIsStored, Known
  <2>5. Progress'
    BY <1>1, <1>2, <1>4, <2>1 DEF Progress, Known
  <2> QED
    BY <2>2, <2>3, <2>4, <2>5, <2>6, <2>7, <2>8
<1>5. CASE ~Known(r)
  <2>1. robots' = [robots EXCEPT ![r] = e] /\ TakePoint
    BY <1>5
  <2>2. /\ occupied \subseteq occupied' /\ occupied' \subseteq 1..Len(points)
        /\ \/ Allocated = Origin
           \/ \E i \in 1..Len(points) :
                i \notin occupied /\ i \in occupied' /\ Allocated = points[i]
    BY <2>1, AllocationIsFresh
  <2>3. points \in Seq(Pose) /\ Len(points) \in Nat /\ Injective(points)
    BY ContentsAreInjective DEF TypeOK
  <2>4. e \in Entry
    BY <2>2, <2>3 DEF Entry, Poses
  <2>5. e # NoEntry
    BY <2>4, EntriesAreEntries
  <2>6. robots \in [Robot -> Entry \cup {NoEntry}]
    BY DEF TypeOK
  <2>7. robots'[r] = e /\ \A q \in Robot : q # r => robots'[q] = robots[q]
    BY <2>1, <2>6
  <2>8. TypeOK'
    BY <1>1, <1>2, <2>1, <2>2, <2>4 DEF TypeOK, ConsumerStates
  <2>9. table[r] = NoEntry
    BY <1>3, <1>5 DEF Known
  <2>10. MemoryMatchesTable'
    BY <1>1, <1>2, <1>3, <2>7, <2>9 DEF MemoryMatchesTable
  <2>11. (ToldPoseIsStored /\ OneInstance)'
    <3>1. told[r] = {} \/ r \in forgotten
      BY <1>5 DEF ToldPoseIsStored
    <3>2. ToldPoseIsStored'
      BY <1>1, <2>7, <3>1 DEF ToldPoseIsStored, Known
    <3> QED
      BY <1>1, <3>2 DEF OneInstance
  <2>12. Progress'
    BY <1>1, <1>2, <2>5, <2>7 DEF Progress, Known
  <2>13. DistinctUntilReload'
    <3> SUFFICES ASSUME ~reloaded, NEW q \in Robot, q # r, Known(q),
                        robots[q].pose = e.pose
                 PROVE  e.pose = Origin
      BY <1>1, <2>7 DEF DistinctUntilReload, Known
    <3>1. \A i \in 1..Len(points) : points[i] = Allocated => i \in occupied
      BY DEF GivenIsOccupied
    <3> QED
      BY <2>2, <3>1
  <2>14. GivenIsOccupied'
    <3> SUFFICES ASSUME ~reloaded, NEW q \in Robot, robots'[q] # NoEntry,
                        NEW i \in 1..Len(points), points[i] = robots'[q].pose
                 PROVE  i \in occupied'
      BY <1>1 DEF GivenIsOccupied, Known
    <3>1. CASE q # r
      BY <2>2, <2>7, <3>1 DEF GivenIsOccupied, Known
    <3>2. CASE q = r
      <4>1. points[i] = Allocated
        BY <2>7, <3>2
      <4>2. points[i] # Origin
        BY <2>3, RegistryAssumption
      <4> QED
        BY <2>2, <2>3, <4>1, <4>2 DEF Injective
    <3> QED
      BY <3>1, <3>2
  <2> QED
    BY <2>8, <2>10, <2>11, <2>12, <2>13, <2>14
<1> QED
  BY <1>4, <1>5

LEMMA UpsertPreserves ==
  ASSUME RInv, UpsertRobot
  PROVE  RInv'
<1> USE DEF RInv, UpsertRobot
<1> DEFINE r == consumer.robot
<1>1. UNCHANGED <<packages, active, tmp, file, robots, points, occupied, worker,
                  told, listed, forgotten, reloaded, crashes>>
  BY DEF memory, others
<1>2. r \in Robot /\ consumer = [pc |-> "persist", robot |-> r]
  BY DEF TypeOK, ConsumerStates, Idle
<1>3. robots[r] \in Entry /\ robots[r] # NoEntry
  BY <1>2 DEF TypeOK, Progress, Known
<1>4. robots[r].instance \in Stamp /\ robots[r].pose \in Poses
  BY <1>3, EntriesAreEntries
<1>5. table[r] = robots[r] \/ table[r] = NoEntry
  BY <1>2 DEF MemoryMatchesTable
<1>6. consumer' = [pc |-> "answer", robot |-> r, pose |-> robots[r].pose]
  OBVIOUS
<1>7. /\ table'[r] \in {table[r], robots[r]}
      /\ \A q \in Robot : q # r => table'[q] = table[q]
      /\ instances'[r] = IF table'[r] = NoEntry THEN {} ELSE {robots[r].instance}
      /\ \A q \in Robot : q # r => instances'[q] = instances[q]
      /\ unsaved' \subseteq Robot
      /\ \A q \in Robot : q # r => (q \in unsaved' <=> q \in unsaved)
      /\ r \notin unsaved' => table'[r] = robots[r]
  <2>1. instances[r] = IF table[r] = NoEntry THEN {} ELSE {robots[r].instance}
    BY <1>2, <1>5 DEF OneInstance
  <2>2. CASE /\ table' = [table EXCEPT ![r] = robots[r]]
             /\ instances' = [instances EXCEPT ![r] = @ \cup {robots[r].instance}]
             /\ unsaved' = unsaved \ {r}
    BY <1>2, <1>3, <2>1, <2>2 DEF TypeOK
  <2>3. CASE /\ UNCHANGED <<table, instances>>
             /\ unsaved' = IF table[r] = NoEntry THEN unsaved \cup {r} ELSE unsaved
    BY <1>2, <1>3, <1>5, <2>1, <2>3 DEF TypeOK
  <2> QED
    BY <2>2, <2>3
<1>8. TypeOK'
  <2>1. table' \in [Robot -> Entry \cup {NoEntry}]
    BY <1>2, <1>3 DEF TypeOK
  <2>2. instances' \in [Robot -> SUBSET Stamp]
    BY <1>2, <1>4 DEF TypeOK
  <2>3. consumer' \in ConsumerStates
    BY <1>2, <1>4, <1>6 DEF ConsumerStates
  <2> QED
    BY <1>1, <1>7, <2>1, <2>2, <2>3 DEF TypeOK
<1>9. MemoryMatchesTable'
  BY <1>1, <1>2, <1>5, <1>7 DEF MemoryMatchesTable
<1>10. ToldPoseIsStored'
  <2> SUFFICES ASSUME NEW q \in Robot \ forgotten, NEW p \in told[q]
               PROVE  /\ robots[q] # NoEntry /\ robots[q].pose = p
                      /\ q \notin unsaved' => table'[q] = robots[q]
    BY <1>1 DEF ToldPoseIsStored, Known
  <2> QED
    BY <1>7 DEF ToldPoseIsStored, Known
<1>11. (DistinctUntilReload /\ GivenIsOccupied)'
  BY <1>1 DEF DistinctUntilReload, GivenIsOccupied, Known
<1>12. Progress'
  BY <1>1, <1>3, <1>6, <1>7 DEF Progress, Known
<1>13. OneInstance'
  BY <1>3, <1>5, <1>7 DEF OneInstance
<1> QED
  BY <1>8, <1>9, <1>10, <1>11, <1>12, <1>13

\* The answer and the list change only what others know.
LEMMA TellPreserves ==
  ASSUME RInv, AnswerRegistration \/ PublishList
  PROVE  RInv'
<1> USE DEF RInv
<1>1. UNCHANGED <<table, instances, packages, active, tmp, file, robots, points,
                  occupied, worker, unsaved, forgotten, reloaded, crashes>>
  BY DEF AnswerRegistration, PublishList, stored, memory, lost
<1>2. (DistinctUntilReload /\ OneInstance /\ GivenIsOccupied)'
  BY <1>1 DEF DistinctUntilReload, OneInstance, GivenIsOccupied, Known
<1>3. CASE AnswerRegistration
  <2> USE <1>3 DEF AnswerRegistration
  <2> DEFINE r == consumer.robot
  <2>1. r \in Robot /\ consumer.pose \in Poses /\ consumer.pc = "answer"
    BY DEF TypeOK, ConsumerStates, Idle
  <2>2. /\ Known(r) /\ robots[r].pose = consumer.pose
        /\ r \notin unsaved => table[r] = robots[r]
    BY <2>1 DEF Progress
  <2>3. TypeOK'
    BY <1>1, <2>1 DEF TypeOK, ConsumerStates
  <2>4. MemoryMatchesTable'
    BY <1>1, <2>1, IdleMatches DEF MemoryMatchesTable
  <2>5. ToldPoseIsStored'
    <3>1. told'[r] = told[r] \cup {consumer.pose}
      BY <2>1 DEF TypeOK
    <3>2. \A q \in Robot : q # r => told'[q] = told[q]
      BY <2>1 DEF TypeOK
    <3> QED
      BY <1>1, <2>2, <3>1, <3>2 DEF ToldPoseIsStored, Known
  <2>6. Progress'
    BY <1>1 DEF Progress, Idle
  <2> QED
    BY <1>2, <2>3, <2>4, <2>5, <2>6
<1>4. CASE PublishList
  <2>1. UNCHANGED <<consumer, told>>
    BY <1>4 DEF PublishList
  <2>2. TypeOK'
    <3>1. \A r \in Robot : Known(r) => robots[r].instance \in Stamp
      BY EntriesAreEntries DEF TypeOK, Known
    <3>2. listed' \in [Robot -> SUBSET Stamp]
      BY <1>4, <3>1 DEF TypeOK, PublishList
    <3> QED
      BY <1>1, <2>1, <3>2 DEF TypeOK
  <2>3. (MemoryMatchesTable /\ ToldPoseIsStored /\ Progress)'
    BY <1>1, <2>1 DEF MemoryMatchesTable, ToldPoseIsStored, Progress, Known
  <2> QED
    BY <1>2, <2>2, <2>3
<1> QED
  BY <1>3, <1>4

\* HTTP threads disturb the types, Progress and, by loading the points, what is
\* said of these.
WorkerMoves ==
  \E w \in Worker :
    WorkerStep(w) \/ \E v \in Version : FindPackage(w, v) \/ BeginUpload(w, v)

\* What every step of an HTTP thread leaves alone.
LEMMA WorkersOnlyMaps ==
  ASSUME WorkerMoves
  PROVE  UNCHANGED <<table, instances, robots, consumer, told, listed, unsaved,
                     forgotten, crashes>>
BY DEF WorkerMoves, WorkerStep, FindPackage, BeginUpload, ReceiveUpload, RemoveUpload,
       CopyUpload, InsertPackage, SetActiveMap, LoadPoints, WorkerGoto, stored,
       memory, others, lost

\* The files and packages after a step of an HTTP thread.
LEMMA WorkersKeepTypes ==
  ASSUME RInv, WorkerMoves
  PROVE  TypeOK' /\ Progress'
<1> USE DEF RInv
<1>0. UNCHANGED <<table, instances, robots, consumer, told, listed, unsaved,
                  forgotten, crashes>>
  BY WorkersOnlyMaps
<1>1. PICK w \in Worker :
        WorkerStep(w) \/ \E v \in Version : FindPackage(w, v) \/ BeginUpload(w, v)
  BY DEF WorkerMoves
<1> DEFINE MapTypes ==
      /\ packages' \subseteq Version
      /\ active' \in packages' \cup {NoVersion}
      /\ tmp' \in [Version -> Contents \cup {NoFile}]
      /\ file' \in [Version -> Contents \cup {NoFile}]
      /\ packages \subseteq packages'
      /\ \A v \in Version : file[v] # NoFile => file'[v] # NoFile
      /\ \A v \in packages' : file'[v] # NoFile
      /\ points' \in Contents
      /\ occupied' \subseteq 1..Len(points')
      /\ reloaded' \in BOOLEAN
<1> DEFINE Goes(next) ==
      /\ worker' = [worker EXCEPT ![w] = next]
      /\ next \in WorkerStates
      /\ next.pc = "insert" => file'[next.version] # NoFile
      /\ next.pc \in {"activate", "load"} => next.version \in packages'
<1>2. ASSUME MapTypes, NEW next, Goes(next)
      PROVE  TypeOK' /\ Progress'
  <2>1. worker' \in [Worker -> WorkerStates]
    BY <1>2 DEF TypeOK
  <2>2. TypeOK'
    BY <1>0, <1>2, <2>1 DEF TypeOK
  <2>3. ASSUME NEW x \in Worker
        PROVE  /\ worker'[x].pc = "insert" => file'[worker'[x].version] # NoFile
               /\ worker'[x].pc \in {"activate", "load"} =>
                    worker'[x].version \in packages'
    <3>1. CASE x = w
      BY <1>2, <3>1 DEF TypeOK
    <3>2. CASE x # w
      <4>1. worker'[x] = worker[x] /\ worker[x] \in WorkerStates
        BY <1>2, <3>2 DEF TypeOK
      <4>2. worker[x].pc = "insert" => worker[x].version \in Version
        BY <4>1 DEF WorkerStates, Idle
      <4> QED
        BY <1>2, <4>1, <4>2 DEF Progress
    <3> QED
      BY <3>1, <3>2
  <2>4. Progress'
    BY <1>0, <2>3 DEF Progress, Known
  <2> QED
    BY <2>2, <2>4
<1>3. ASSUME NEW v \in Version, BeginUpload(w, v)
      PROVE  TypeOK' /\ Progress'
  <2> DEFINE next == [pc |-> "receive", version |-> v]
  <2>1. MapTypes
    BY <1>3 DEF BeginUpload, TypeOK, Contents, memory
  <2>2. Goes(next)
    BY <1>3 DEF BeginUpload, WorkerGoto, WorkerStates
  <2> QED
    BY <1>2, <2>1, <2>2
<1>4. ASSUME NEW v \in Version, FindPackage(w, v)
      PROVE  TypeOK' /\ Progress'
  <2> DEFINE next == [pc |-> "activate", version |-> v]
  <2>1. MapTypes
    BY <1>4 DEF FindPackage, TypeOK, memory, stored
  <2>2. Goes(next)
    BY <1>4 DEF FindPackage, WorkerGoto, WorkerStates, stored
  <2> QED
    BY <1>2, <2>1, <2>2
<1>5. worker[w] \in WorkerStates
  BY DEF TypeOK
<1>6. Idle \in WorkerStates /\ Idle.pc = "idle"
  BY DEF WorkerStates, Idle
<1>7. ASSUME NEW archive \in Contents, ReceiveUpload(w, archive)
      PROVE  TypeOK' /\ Progress'
  <2> DEFINE next == [worker[w] EXCEPT !.pc = "copy"]
  <2>1. MapTypes
    BY <1>7 DEF ReceiveUpload, TypeOK, memory
  <2>2. next \in WorkerStates /\ next.pc = "copy"
    BY <1>5, <1>7 DEF ReceiveUpload, WorkerStates, Idle
  <2>3. Goes(next)
    BY <1>7, <2>2 DEF ReceiveUpload, WorkerGoto
  <2> QED
    BY <1>2, <2>1, <2>3
<1>12. CASE RemoveUpload(w)
  <2>1. MapTypes
    BY <1>12 DEF RemoveUpload, TypeOK, memory
  <2>2. Goes(Idle)
    BY <1>6, <1>12 DEF RemoveUpload, WorkerGoto
  <2> QED
    BY <1>2, <2>1, <2>2
<1>8. CASE CopyUpload(w)
  <2> DEFINE v == worker[w].version
  <2> DEFINE next == [worker[w] EXCEPT !.pc = IF tmp[v] = NoFile THEN "remove" ELSE "insert"]
  <2>1. v \in Version
    BY <1>5, <1>8 DEF CopyUpload, WorkerStates, Idle
  <2>2. tmp[v] \in Contents \cup {NoFile}
    BY <2>1 DEF TypeOK
  <2>3. /\ file' \in [Version -> Contents \cup {NoFile}]
        /\ \A x \in Version : file[x] # NoFile => file'[x] # NoFile
        /\ tmp[v] # NoFile => file'[v] # NoFile
    BY <1>8, <2>1, <2>2 DEF CopyUpload, TypeOK
  <2>4. MapTypes
    BY <1>8, <2>3 DEF CopyUpload, TypeOK, memory
  <2>5. /\ next \in WorkerStates /\ next.version = v
        /\ next.pc = IF tmp[v] = NoFile THEN "remove" ELSE "insert"
    BY <1>5, <1>8 DEF CopyUpload, WorkerStates, Idle
  <2>6. worker' = [worker EXCEPT ![w] = next]
    BY <1>8 DEF CopyUpload, WorkerGoto
  <2>7. Goes(next)
    BY <2>3, <2>5, <2>6
  <2> QED
    BY <1>2, <2>4, <2>7
<1>9. ASSUME NEW activate \in BOOLEAN, InsertPackage(w, activate)
      PROVE  TypeOK' /\ Progress'
  <2> DEFINE v == worker[w].version
  <2> DEFINE loads == [pc |-> "load", version |-> v]
  <2> DEFINE removes == [worker[w] EXCEPT !.pc = "remove"]
  <2>1. v \in Version /\ file[v] # NoFile
    BY <1>5, <1>9 DEF InsertPackage, WorkerStates, Idle, Progress
  <2>2. MapTypes
    BY <1>9, <2>1 DEF InsertPackage, TypeOK, memory
  <2>3. /\ removes \in WorkerStates /\ removes.pc = "remove"
        /\ loads \in WorkerStates
    BY <1>5, <1>9, <2>1 DEF InsertPackage, WorkerStates, Idle
  <2>4. CASE v \in packages
    <3>1. Goes(removes)
      BY <1>9, <2>3, <2>4 DEF InsertPackage, WorkerGoto
    <3> QED
      BY <1>2, <2>2, <3>1
  <2>5. CASE v \notin packages
    <3>1. v \in packages'
      BY <1>9, <2>5 DEF InsertPackage
    <3>2. CASE activate
      <4>1. Goes(loads)
        BY <1>9, <2>3, <2>5, <3>1, <3>2 DEF InsertPackage, WorkerGoto
      <4> QED
        BY <1>2, <2>2, <4>1
    <3>3. CASE ~activate
      <4>1. Goes(Idle)
        BY <1>6, <1>9, <2>5, <3>3 DEF InsertPackage, WorkerGoto
      <4> QED
        BY <1>2, <2>2, <4>1
    <3> QED
      BY <3>2, <3>3
  <2> QED
    BY <2>4, <2>5
<1>10. CASE SetActiveMap(w)
  <2> DEFINE next == [worker[w] EXCEPT !.pc = "load"]
  <2>1. worker[w].version \in packages
    BY <1>10 DEF SetActiveMap, Progress
  <2>2. MapTypes
    BY <1>10, <2>1 DEF SetActiveMap, TypeOK, memory
  <2>3. /\ next \in WorkerStates
        /\ next.pc = "load" /\ next.version = worker[w].version
    BY <1>5, <1>10 DEF SetActiveMap, WorkerStates, Idle
  <2>4. Goes(next)
    BY <1>10, <2>1, <2>3 DEF SetActiveMap, WorkerGoto
  <2> QED
    BY <1>2, <2>2, <2>4
<1>11. CASE LoadPoints(w)
  <2> DEFINE v == worker[w].version
  <2>1. v \in packages
    BY <1>11 DEF LoadPoints, Progress
  <2>2. file[v] \in Contents
    BY <2>1 DEF TypeOK
  <2>3. points' \in Contents
    BY <1>11, <2>2 DEF LoadPoints, Readable, Contents
  <2>4. reloaded' \in BOOLEAN
    BY <1>11 DEF LoadPoints, TypeOK
  <2>5. MapTypes
    BY <1>11, <2>3, <2>4 DEF LoadPoints, TypeOK, stored
  <2>6. Goes(Idle)
    BY <1>6, <1>11 DEF LoadPoints, WorkerGoto
  <2> QED
    BY <1>2, <2>5, <2>6
<1> QED
  BY <1>1, <1>3, <1>4, <1>7, <1>12, <1>8, <1>9, <1>10, <1>11 DEF WorkerStep

\* Points that are loaded while no robot has one disturb nothing; points that
\* are loaded later are what "reloaded" says.
LEMMA WorkersPreserve ==
  ASSUME RInv, WorkerMoves
  PROVE  RInv'
<1> USE DEF RInv
<1>1. UNCHANGED <<table, instances, robots, consumer, told, listed, unsaved,
                  forgotten, crashes>>
  BY WorkersOnlyMaps
<1>2. TypeOK' /\ Progress'
  BY WorkersKeepTypes
<1>3. (MemoryMatchesTable /\ ToldPoseIsStored /\ OneInstance)'
  BY <1>1 DEF MemoryMatchesTable, ToldPoseIsStored, OneInstance, Known
<1>4. \/ UNCHANGED <<points, occupied, reloaded>>
      \/ reloaded' = (reloaded \/ \E r \in Robot : Known(r) \/ table[r] # NoEntry)
  BY DEF WorkerMoves, WorkerStep, FindPackage, BeginUpload, ReceiveUpload,
         RemoveUpload, CopyUpload, InsertPackage, SetActiveMap, LoadPoints, memory
<1>5. CASE UNCHANGED <<points, occupied, reloaded>>
  BY <1>1, <1>2, <1>3, <1>5 DEF DistinctUntilReload, GivenIsOccupied, Known
<1>6. CASE reloaded' = (reloaded \/ \E r \in Robot : Known(r) \/ table[r] # NoEntry)
  <2>1. ~reloaded' => \A r \in Robot : ~Known(r)'
    BY <1>1, <1>6 DEF Known
  <2>2. (DistinctUntilReload /\ GivenIsOccupied)'
    BY <2>1 DEF DistinctUntilReload, GivenIsOccupied
  <2> QED
    BY <1>2, <1>3, <2>2
<1> QED
  BY <1>4, <1>5, <1>6

\* A restart marks the points of the robots that the table gives back.
LEMMA CrashPreserves ==
  ASSUME RInv, CrashRestart
  PROVE  RInv'
<1> USE DEF RInv
<1>1. /\ UNCHANGED <<table, instances, packages, active, tmp, told, listed, reloaded>>
      /\ robots' = table
      /\ points' = PointsOf(file')
      /\ occupied' = {i \in 1..Len(points') :
                        \E r \in Robot : table[r] # NoEntry /\ table[r].pose = points'[i]}
      /\ consumer' = Idle
      /\ worker' = [w \in Worker |-> Idle]
      /\ crashes' = crashes + 1 /\ crashes < MaxCrashes
      /\ unsaved' = {} /\ forgotten' = forgotten \cup {r \in unsaved : told[r] # {}}
  BY DEF CrashRestart, others
<1>2. PICK cut \in SUBSET Version :
        file' = [v \in Version |-> IF v \in cut THEN Unreadable ELSE file[v]]
  <2>1. ASSUME NEW w \in Worker, worker[w].pc = "copy"
        PROVE  worker[w].version \in Version
    BY <2>1 DEF TypeOK, WorkerStates, Idle
  <2> DEFINE writing ==
        {worker[w].version : w \in {x \in Worker : worker[x].pc = "copy"}}
  <2>2. PICK cut \in SUBSET writing :
          file' = [v \in Version |-> IF v \in cut THEN Unreadable ELSE file[v]]
    BY DEF CrashRestart, FilesAfterCrash
  <2>3. cut \in SUBSET Version
    BY <2>1
  <2> QED
    BY <2>2, <2>3
<1>3. /\ file' \in [Version -> Contents \cup {NoFile}]
      /\ \A v \in packages : file'[v] # NoFile
  <2>1. Unreadable \in Contents /\ Unreadable # NoFile
    BY RegistryAssumption DEF Contents
  <2> QED
    BY <1>2, <2>1 DEF TypeOK
<1>4. points' \in Contents
  <2>1. CASE active = NoVersion
    BY <1>1, <2>1 DEF PointsOf, Contents, Unreadable
  <2>2. CASE active # NoVersion
    <3>1. active \in packages /\ active \in Version
      BY <2>2 DEF TypeOK
    <3> QED
      BY <1>1, <1>3, <2>2, <3>1 DEF PointsOf
  <2> QED
    BY <2>1, <2>2
<1>5. TypeOK'
  <2>1. consumer' \in ConsumerStates /\ worker' \in [Worker -> WorkerStates]
    BY <1>1 DEF ConsumerStates, WorkerStates
  <2>2. crashes' \in 0..MaxCrashes
    BY <1>1, RegistryAssumption DEF TypeOK
  <2>3. occupied' \subseteq 1..Len(points')
    BY <1>1
  <2>4. /\ robots' \in [Robot -> Entry \cup {NoEntry}]
        /\ UNCHANGED <<table, instances, packages, active, tmp, told, listed, reloaded>>
        /\ unsaved' \subseteq Robot /\ forgotten' \subseteq Robot
    BY <1>1 DEF TypeOK
  <2> QED
    BY <1>3, <1>4, <2>1, <2>2, <2>3, <2>4 DEF TypeOK
<1>6. (MemoryMatchesTable /\ ToldPoseIsStored /\ OneInstance)'
  <2>1. ToldPoseIsStored'
    <3> SUFFICES ASSUME NEW q \in Robot \ forgotten', NEW p \in told[q]
                 PROVE  table[q] # NoEntry /\ table[q].pose = p
      BY <1>1 DEF ToldPoseIsStored, Known
    <3>1. q \notin forgotten /\ q \notin unsaved
      BY <1>1
    <3> QED
      BY <3>1 DEF ToldPoseIsStored, Known
  <2> QED
    BY <1>1, <2>1 DEF MemoryMatchesTable, OneInstance
<1>7. \A r \in Robot : table[r] # NoEntry => Known(r) /\ robots[r] = table[r]
  BY DEF MemoryMatchesTable, Known
<1>8. DistinctUntilReload'
  BY <1>1, <1>7 DEF DistinctUntilReload, Known
<1>9. GivenIsOccupied'
  BY <1>1 DEF GivenIsOccupied, Known
<1>10. Progress'
  BY <1>1 DEF Progress, Idle
<1> QED
  BY <1>5, <1>6, <1>8, <1>9, <1>10

LEMMA StepPreserves == RInv /\ [Next]_vars => RInv'
<1> SUFFICES ASSUME RInv, [Next]_vars PROVE RInv'
  OBVIOUS
<1>1. CASE ConsumerStep
  BY <1>1, UpsertPreserves, TellPreserves DEF ConsumerStep
<1>2. CASE \E w \in Worker : WorkerStep(w)
  BY <1>2, WorkersPreserve DEF WorkerMoves
<1>3. CASE PublishList
  BY <1>3, TellPreserves
<1>4. CASE Arrival
  <2>1. CASE \E r \in Robot, s \in Stamp : RegisterRobot(r, s)
    BY <2>1, RegisterPreserves
  <2>2. CASE WorkerMoves
    BY <2>2, WorkersPreserve
  <2> QED
    BY <1>4, <2>1, <2>2 DEF Arrival, WorkerMoves
<1>5. CASE CrashRestart
  BY <1>5, CrashPreserves
<1>6. CASE UNCHANGED vars
  BY <1>6
  DEF RInv, TypeOK, MemoryMatchesTable, ToldPoseIsStored, DistinctUntilReload,
      Progress, OneInstance, GivenIsOccupied, Known, vars, stored, memory, others, lost
<1> QED
  BY <1>1, <1>2, <1>3, <1>4, <1>5, <1>6 DEF Next

------------------------------------------------------------------------------
(***************************************************************************)
(* The theorems.                                                           *)
(***************************************************************************)

\* RInv, with what the threads rely on, holds in every state of the edge server.
THEOREM Invariance == Spec => []RInv
<1>1. Init => RInv
  BY InitEstablishes
<1>2. RInv /\ [Next]_vars => RInv'
  BY StepPreserves
<1> QED
  BY <1>1, <1>2, PTL DEF Spec

\* Every variable of the registry keeps its type; the active map has a package.
THEOREM RegistryTypeCorrect == Spec => []TypeOK
<1>1. RInv => TypeOK
  BY DEF RInv
<1> QED
  BY <1>1, Invariance, PTL

\* RobotManager and tbl_robot never disagree on a robot: what tbl_robot lacks is
\* being registered or was refused by the database, and it holds nothing else.
THEOREM RegistryPersistent == Spec => []MemoryMatchesTable
<1>1. RInv => MemoryMatchesTable
  BY DEF RInv
<1> QED
  BY <1>1, Invariance, PTL

\* Every pose that an AMR was answered is the one RobotManager has for it, and the
\* one the next start of the edge gives it again if its row was not refused.
THEOREM AnswersAreStored == Spec => []ToldPoseIsStored
<1>1. RInv => ToldPoseIsStored
  BY DEF RInv
<1> QED
  BY <1>1, Invariance, PTL

\* IdlePointAllocator gives no IDLE point twice, across registrations and
\* restarts, until the points are loaded again.
THEOREM PointsAreDistinct == Spec => []DistinctUntilReload
<1>1. RInv => DistinctUntilReload
  BY DEF RInv
<1> QED
  BY <1>1, Invariance, PTL

\* No step changes the identity of a robot that is stored, or tells the
\* simulation another one.
THEOREM IdentitiesAreFinal == Spec => IdentityIsFinal
<1> DEFINE Final ==
      \A r \in Robot : table[r] # NoEntry =>
        /\ table'[r] = table[r]
        /\ instances'[r] = {table[r].instance}
        /\ listed'[r] \subseteq listed[r] \cup {table[r].instance}
<1>1. ASSUME RInv, [Next]_vars PROVE Final
  <2> SUFFICES ASSUME NEW r \in Robot, table[r] # NoEntry
               PROVE  /\ table'[r] = table[r]
                      /\ instances'[r] = {table[r].instance}
                      /\ listed'[r] \subseteq listed[r] \cup {table[r].instance}
    OBVIOUS
  <2>1. robots[r] = table[r] /\ instances[r] = {table[r].instance}
    BY <1>1 DEF RInv, MemoryMatchesTable, OneInstance
  <2>2. CASE UNCHANGED <<table, instances, listed>>
    BY <2>1, <2>2
  <2>3. CASE UpsertRobot
    <3>1. UNCHANGED listed
      BY <2>3 DEF UpsertRobot, others
    <3>2. table'[r] = table[r] /\ instances'[r] = {table[r].instance}
      BY <1>1, <2>1, <2>3 DEF UpsertRobot, RInv, TypeOK
    <3> QED
      BY <3>1, <3>2
  <2>4. CASE PublishList
    BY <2>1, <2>4 DEF PublishList, stored
  <2>5. CASE WorkerMoves
    BY <2>2, <2>5, WorkersOnlyMaps
  <2>6. CASE AnswerRegistration \/ CrashRestart
    BY <2>2, <2>6 DEF AnswerRegistration, CrashRestart, stored, others
  <2>7. CASE \E q \in Robot, s \in Stamp : RegisterRobot(q, s)
    BY <2>2, <2>7 DEF RegisterRobot, stored, others
  <2>8. CASE UNCHANGED vars
    BY <2>2, <2>8 DEF vars, stored, others
  <2> QED
    BY <1>1, <2>3, <2>4, <2>5, <2>6, <2>7, <2>8
    DEF Next, ConsumerStep, Arrival, WorkerMoves
<1>2. RInv /\ [Next]_vars => [Final]_vars
  BY <1>1
<1> QED
  BY <1>2, Invariance, PTL DEF Spec, IdentityIsFinal

==============================================================================
