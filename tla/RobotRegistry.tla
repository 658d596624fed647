---------------------------- MODULE RobotRegistry ----------------------------
(***************************************************************************)
(* The robots and maps of the edge server: RobotManager, RobotService,     *)
(* IdlePointAllocator, MapService and the list that RobotListPublisher     *)
(* sends to the simulation.                                                *)
(*                                                                         *)
(*   consumer  the MQTT thread: registration of a robot.                   *)
(*   Worker    HTTP threads: upload and activation of map packages.        *)
(*   timer     the thread of RobotListPublisher.                           *)
(*                                                                         *)
(* RobotManager and the allocator hold a mutex for the whole of each call, *)
(* SQLiteDB too; MapService holds none, so that two HTTP threads may be    *)
(* anywhere in it at once.                                                 *)
(*                                                                         *)
(* The tables and the files survive a crash, the memory does not.  What    *)
(* the AMRs and the simulation have been told survives it as well.         *)
(***************************************************************************)
EXTENDS Naturals, Sequences, FiniteSets

CONSTANTS
  Robot,
  Stamp,       \* register_timestamps, and the instance_ids made of them
  Version,     \* map versions
  Worker,      \* HTTP worker threads
  Pose,        \* poses of IDLE locations
  Origin,      \* the pose a robot starts from when no IDLE location is free
  Archives,    \* the archives that may be uploaded, each by its IDLE poses
  NoFile,      \* no archive at that path
  NoVersion,   \* no active map
  MaxRefused,  \* bound on the robots whose rows the database refuses
  MaxCrashes   \* bound on the crashes of a behaviour

Poses == Pose \cup {Origin}
Entry == [instance : Stamp, pose : Poses]
NoEntry == [instance |-> "none"]

\* An archive without stations.yaml, or cut off by a crash, yields no poses.
Unreadable == <<>>
Contents == Archives \cup {Unreadable}

Injective(s) == \A i, j \in 1..Len(s) : s[i] = s[j] => i = j

ASSUME RegistryAssumption ==
  /\ Origin \notin Pose
  /\ Archives \subseteq {s \in Seq(Pose) : Injective(s)}
  /\ NoFile \notin Contents
  /\ NoVersion \notin Version
  /\ "none" \notin Stamp
  /\ MaxRefused \in Nat
  /\ MaxCrashes \in Nat

VARIABLES
  \* The database and the file system.
  table,      \* tbl_robot with the newest row of tbl_robot_instance
  instances,  \* tbl_robot_instance: the instance_ids stored for each robot
  packages,   \* tbl_map_package: the versions
  active,     \* tbl_active_map
  tmp, file,  \* upload_tmp/<version>.zip and maps/<version>/map.zip
  \* The memory of the process.
  robots,     \* RobotManager::m_robots
  points,     \* IdlePointAllocator::m_points
  occupied,   \* IdlePointAllocator::m_occupied, as a set of indices
  consumer, worker,
  \* What others know.
  told,       \* the initial poses each AMR was answered
  listed,     \* the instance_ids the simulation was sent of each robot
  \* History.
  unsaved,    \* the known robots whose row the database has refused to take
  forgotten,  \* those of them that had been answered when the process crashed
  reloaded,   \* the points were loaded again after a robot had been given one
  crashes

stored == <<table, instances, packages, active, tmp, file>>
memory == <<robots, points, occupied>>
others == <<told, listed>>
lost   == <<unsaved, forgotten>>
vars   == <<stored, memory, consumer, worker, others, lost, reloaded, crashes>>

Idle == [pc |-> "idle"]
Known(r) == robots[r] # NoEntry

------------------------------------------------------------------------------
(***************************************************************************)
(* Registration: RobotService::handleRegister on the MQTT thread.          *)
(***************************************************************************)

Free  == {i \in 1..Len(points) : i \notin occupied}
First == {i \in Free : \A j \in Free : i <= j}   \* at most one

\* IdlePointAllocator::allocate takes the first free point; RobotManager falls
\* back to the origin when there is none.
Allocated == IF First = {} THEN Origin ELSE points[CHOOSE i \in First : TRUE]
TakePoint == occupied' = occupied \cup First

\* Fault: a robot that registers again is given a new instance.
RegisterAfresh(r, s) ==
  /\ consumer = Idle
  /\ IF Known(r)
     THEN /\ robots' = [robots EXCEPT ![r].instance = s]
          /\ UNCHANGED occupied
     ELSE /\ robots' = [robots EXCEPT ![r] = [instance |-> s, pose |-> Allocated]]
          /\ TakePoint
  /\ consumer' = [pc |-> "persist", robot |-> r]
  /\ UNCHANGED <<stored, points, worker, others, lost, reloaded, crashes>>

\* RobotManager::registerRobot: a robot that is known keeps its instance_id and
\* its initial pose.  The trigger it gives the timer changes nothing: the timer
\* may publish at any time.
RegisterRobot(r, s) ==
  /\ consumer = Idle
  /\ IF Known(r)
     THEN UNCHANGED <<robots, occupied>>
     ELSE /\ robots' = [robots EXCEPT ![r] = [instance |-> s, pose |-> Allocated]]
          /\ TakePoint
  /\ consumer' = [pc |-> "persist", robot |-> r]
  /\ UNCHANGED <<stored, points, worker, others, lost, reloaded, crashes>>

\* Fault: the statement leaves the column initial_pose out.
UpsertWithoutPose ==
  /\ consumer.pc = "persist"
  /\ LET r == consumer.robot IN
       /\ table' = [table EXCEPT ![r] = [robots[r] EXCEPT !.pose = Origin]]
       /\ instances' = [instances EXCEPT ![r] = @ \cup {robots[r].instance}]
       /\ unsaved' = unsaved \ {r}
       /\ consumer' = [pc |-> "answer", robot |-> r, pose |-> robots[r].pose]
  /\ UNCHANGED <<packages, active, tmp, file, memory, worker, others,
                 forgotten, reloaded, crashes>>

\* The robot is read back and SQLiteDB::UpsertRobot writes its rows, in one
\* transaction.  Its result is not looked at: the pose is answered as well when
\* nothing was written.
UpsertRobot ==
  /\ consumer.pc = "persist"
  /\ LET r == consumer.robot IN
       /\ \/ /\ table' = [table EXCEPT ![r] = robots[r]]
             /\ instances' = [instances EXCEPT ![r] = @ \cup {robots[r].instance}]
             /\ unsaved' = unsaved \ {r}
          \/ /\ Cardinality((unsaved \cup forgotten) \ {r}) < MaxRefused
             /\ UNCHANGED <<table, instances>>
             /\ unsaved' = IF table[r] = NoEntry THEN unsaved \cup {r} ELSE unsaved
       /\ consumer' = [pc |-> "answer", robot |-> r, pose |-> robots[r].pose]
  /\ UNCHANGED <<packages, active, tmp, file, memory, worker, others,
                 forgotten, reloaded, crashes>>

\* MapService::checkMapUpdate and the publish of the answer, which carries the
\* initial pose whether or not there is an active map.
AnswerRegistration ==
  /\ consumer.pc = "answer"
  /\ told' = [told EXCEPT ![consumer.robot] = @ \cup {consumer.pose}]
  /\ consumer' = Idle
  /\ UNCHANGED <<stored, memory, worker, listed, lost, reloaded, crashes>>

\* RobotListPublisher::publish with a subscriber.
PublishList ==
  /\ listed' = [r \in Robot |->
                  IF Known(r) THEN listed[r] \cup {robots[r].instance}
                  ELSE listed[r]]
  /\ UNCHANGED <<stored, memory, consumer, worker, told, lost, reloaded, crashes>>

------------------------------------------------------------------------------
(***************************************************************************)
(* Maps: MapService on the HTTP threads.                                   *)
(***************************************************************************)

WorkerGoto(w, next) == worker' = [worker EXCEPT ![w] = next]

\* The upload route opens a temporary file that is named by the version only: what
\* an upload of the same version has put there is cut off.
BeginUpload(w, v) ==
  /\ worker[w] = Idle
  /\ tmp' = [tmp EXCEPT ![v] = Unreadable]
  /\ WorkerGoto(w, [pc |-> "receive", version |-> v])
  /\ UNCHANGED <<table, instances, packages, active, file, memory, consumer,
                 others, lost, reloaded, crashes>>

\* The body has been streamed into it.  What it then holds is the archive that was
\* sent, or nothing readable: nothing checks it, and another upload of the version
\* may have written into the file.  A file that was removed meanwhile stays so.
ReceiveUpload(w, archive) ==
  /\ worker[w].pc = "receive"
  /\ LET v == worker[w].version IN
       tmp' = IF tmp[v] = NoFile THEN tmp ELSE [tmp EXCEPT ![v] = archive]
  /\ WorkerGoto(w, [worker[w] EXCEPT !.pc = "copy"])
  /\ UNCHANGED <<table, instances, packages, active, file, memory, consumer,
                 others, lost, reloaded, crashes>>

\* The body breaks off, or uploadMap has refused the request: the route removes
\* the temporary file, whosever it is by now.
RemoveUpload(w) ==
  /\ worker[w].pc \in {"receive", "remove"}
  /\ tmp' = [tmp EXCEPT ![worker[w].version] = NoFile]
  /\ WorkerGoto(w, Idle)
  /\ UNCHANGED <<table, instances, packages, active, file, memory, consumer,
                 others, lost, reloaded, crashes>>

\* MapService::checkRequest and copyFile, which both refuse when the temporary file
\* is gone: what it holds overwrites the package of that version, if there is one.
CopyUpload(w) ==
  /\ worker[w].pc = "copy"
  /\ LET v == worker[w].version IN
       IF tmp[v] = NoFile
       THEN WorkerGoto(w, [worker[w] EXCEPT !.pc = "remove"]) /\ UNCHANGED file
       ELSE /\ file' = [file EXCEPT ![v] = tmp[v]]
            /\ WorkerGoto(w, [worker[w] EXCEPT !.pc = "insert"])
  /\ UNCHANGED <<table, instances, packages, active, tmp, memory, consumer,
                 others, lost, reloaded, crashes>>

\* SQLiteDB::UploadMapPackage, one transaction: the version is unique, and a
\* package whose request says "activate" becomes active with it.
InsertPackage(w, activate) ==
  /\ worker[w].pc = "insert"
  /\ LET v == worker[w].version IN
       \/ /\ v \notin packages
          /\ packages' = packages \cup {v}
          /\ active' = IF activate THEN v ELSE active
          /\ WorkerGoto(w, IF activate THEN [pc |-> "load", version |-> v] ELSE Idle)
       \/ /\ v \in packages
          /\ WorkerGoto(w, [worker[w] EXCEPT !.pc = "remove"])
          /\ UNCHANGED <<packages, active>>
  /\ UNCHANGED <<table, instances, tmp, file, memory, consumer, others, lost,
                 reloaded, crashes>>

\* MapService::activateMap: SQLiteDB::GetMapPackage finds the version.
FindPackage(w, v) ==
  /\ worker[w] = Idle
  /\ v \in packages
  /\ WorkerGoto(w, [pc |-> "activate", version |-> v])
  /\ UNCHANGED <<stored, memory, consumer, others, lost, reloaded, crashes>>

SetActiveMap(w) ==
  /\ worker[w].pc = "activate"
  /\ active' = worker[w].version
  /\ WorkerGoto(w, [worker[w] EXCEPT !.pc = "load"])
  /\ UNCHANGED <<table, instances, packages, tmp, file, memory, consumer,
                 others, lost, reloaded, crashes>>

\* What the allocator may read from the package of v: while another thread is
\* overwriting the file, it may find it unreadable.
Readable(v) ==
  {file[v]} \cup
  (IF \E w \in Worker : worker[w].pc = "copy" /\ worker[w].version = v
   THEN {Unreadable} ELSE {})

\* Fault: m_occupied is not cleared with m_points.
LoadPointsOnly(w) ==
  /\ worker[w].pc = "load"
  /\ points' \in Readable(worker[w].version)
  /\ reloaded' = (reloaded \/ \E r \in Robot : Known(r) \/ table[r] # NoEntry)
  /\ WorkerGoto(w, Idle)
  /\ UNCHANGED <<stored, robots, occupied, consumer, others, lost, crashes>>

\* The callback of the active map: IdlePointAllocator::load forgets which points
\* are occupied.
LoadPoints(w) ==
  /\ worker[w].pc = "load"
  /\ points' \in Readable(worker[w].version)
  /\ occupied' = {}
  /\ reloaded' = (reloaded \/ \E r \in Robot : Known(r) \/ table[r] # NoEntry)
  /\ WorkerGoto(w, Idle)
  /\ UNCHANGED <<stored, robots, consumer, others, lost, crashes>>

------------------------------------------------------------------------------
(***************************************************************************)
(* The process stops and starts again.                                     *)
(***************************************************************************)

\* A crash may cut off any file that is being written.
FilesAfterCrash ==
  LET writing == {worker[w].version : w \in {x \in Worker : worker[x].pc = "copy"}}
  IN  {[v \in Version |-> IF v \in cut THEN Unreadable ELSE file[v]] :
         cut \in SUBSET writing}

PointsOf(f) == IF active = NoVersion THEN <<>> ELSE f[active]

\* Fault: the points of the robots that are loaded are not marked.
RestartUnmarked ==
  /\ crashes < MaxCrashes
  /\ crashes' = crashes + 1
  /\ file' \in FilesAfterCrash
  /\ robots' = table
  /\ points' = PointsOf(file')
  /\ occupied' = {}
  /\ consumer' = Idle
  /\ worker' = [w \in Worker |-> Idle]
  /\ unsaved' = {}
  /\ forgotten' = forgotten \cup {r \in unsaved : told[r] # {}}
  /\ UNCHANGED <<table, instances, packages, active, tmp, others, reloaded>>

\* EdgeServerApp::init: the points of the active map, then LoadRobots; the point
\* a robot was given is marked when the map still has it.
CrashRestart ==
  /\ crashes < MaxCrashes
  /\ crashes' = crashes + 1
  /\ file' \in FilesAfterCrash
  /\ robots' = table
  /\ points' = PointsOf(file')
  /\ occupied' = {i \in 1..Len(points') :
                    \E r \in Robot : table[r] # NoEntry /\ table[r].pose = points'[i]}
  /\ consumer' = Idle
  /\ worker' = [w \in Worker |-> Idle]
  /\ unsaved' = {}
  /\ forgotten' = forgotten \cup {r \in unsaved : told[r] # {}}
  /\ UNCHANGED <<table, instances, packages, active, tmp, others, reloaded>>

Init ==
  /\ table     = [r \in Robot |-> NoEntry]
  /\ instances = [r \in Robot |-> {}]
  /\ packages  = {}
  /\ active    = NoVersion
  /\ tmp       = [v \in Version |-> NoFile]
  /\ file      = [v \in Version |-> NoFile]
  /\ robots    = [r \in Robot |-> NoEntry]
  /\ points    = <<>>
  /\ occupied  = {}
  /\ consumer  = Idle
  /\ worker    = [w \in Worker |-> Idle]
  /\ told      = [r \in Robot |-> {}]
  /\ listed    = [r \in Robot |-> {}]
  /\ unsaved   = {}
  /\ forgotten = {}
  /\ reloaded  = FALSE
  /\ crashes   = 0

ConsumerStep == UpsertRobot \/ AnswerRegistration

WorkerStep(w) ==
  \/ \E archive \in Contents : ReceiveUpload(w, archive)
  \/ RemoveUpload(w)
  \/ CopyUpload(w)
  \/ \E activate \in BOOLEAN : InsertPackage(w, activate)
  \/ SetActiveMap(w) \/ LoadPoints(w)

Arrival ==
  \/ \E r \in Robot, s \in Stamp : RegisterRobot(r, s)
  \/ \E w \in Worker, v \in Version :
       FindPackage(w, v) \/ BeginUpload(w, v)

Next ==
  \/ ConsumerStep
  \/ \E w \in Worker : WorkerStep(w)
  \/ PublishList
  \/ Arrival
  \/ CrashRestart

Spec == Init /\ [][Next]_vars

------------------------------------------------------------------------------
(***************************************************************************)
(* Properties.                                                             *)
(***************************************************************************)

ConsumerStates ==
       {Idle}
  \cup [pc : {"persist"}, robot : Robot]
  \cup [pc : {"answer"}, robot : Robot, pose : Poses]

WorkerStates ==
       {Idle}
  \cup [pc : {"receive", "copy", "insert", "remove", "activate", "load"},
        version : Version]

\* Every variable has its type; an active map has a package that was copied.
TypeOK ==
  /\ table \in [Robot -> Entry \cup {NoEntry}]
  /\ instances \in [Robot -> SUBSET Stamp]
  /\ packages \subseteq Version
  /\ active \in packages \cup {NoVersion}
  /\ tmp \in [Version -> Contents \cup {NoFile}]
  /\ file \in [Version -> Contents \cup {NoFile}]
  /\ \A v \in packages : file[v] # NoFile
  /\ robots \in [Robot -> Entry \cup {NoEntry}]
  /\ points \in Contents
  /\ occupied \subseteq 1..Len(points)
  /\ consumer \in ConsumerStates
  /\ worker \in [Worker -> WorkerStates]
  /\ told \in [Robot -> SUBSET Poses]
  /\ listed \in [Robot -> SUBSET Stamp]
  /\ unsaved \subseteq Robot
  /\ forgotten \subseteq Robot
  /\ reloaded \in BOOLEAN
  /\ crashes \in 0..MaxCrashes

\* The table holds the robots the process knows, with the same identity, so that
\* the simulation, which is sent the memory, and the next start of the process,
\* which reads the table, agree.  A robot may be missing from the table, but for
\* two reasons only: it is being registered, or its row was refused and it has not
\* registered again since.  No row is ever another than the memory's.
MemoryMatchesTable ==
  \A r \in Robot :
    \/ robots[r] = table[r]
    \/ /\ table[r] = NoEntry
       /\ consumer = [pc |-> "persist", robot |-> r] \/ r \in unsaved

\* The pose an AMR was answered, at every registration, is the initial pose that is
\* kept for it: stored, or in memory while its row has been refused.  It survives
\* a restart unless it was answered without having been stored: handleRegister
\* does not look at the result of UpsertRobot, and such a robot is forgotten.
ToldPoseIsStored ==
  \A r \in Robot \ forgotten : \A p \in told[r] :
    /\ Known(r) /\ robots[r].pose = p
    /\ r \notin unsaved => table[r] = robots[r]

\* Two robots start from the same place only when it is the origin, until an
\* activation loads the points again.  A restart does not spoil this.
DistinctUntilReload ==
  ~reloaded =>
    \A r, q \in Robot :
      r # q /\ Known(r) /\ Known(q) /\ robots[r].pose = robots[q].pose =>
        robots[r].pose = Origin

\* Once a robot is stored, no registration, restart or map changes its
\* identity, no second instance of it is stored, and the simulation is sent
\* this instance only.
IdentityIsFinal ==
  [][\A r \in Robot : table[r] # NoEntry =>
       /\ table'[r] = table[r]
       /\ instances'[r] = {table[r].instance}
       /\ listed'[r] \subseteq listed[r] \cup {table[r].instance}]_vars

==============================================================================
