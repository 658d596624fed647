--------------------------- MODULE MapSyncProofs ---------------------------
(***************************************************************************)
(* Theorems about MapSync, for any number of versions, answers under way   *)
(* and restarts.                                                           *)
(***************************************************************************)
EXTENDS MapSync, TLAPS

Updating == consumer.pc \in {"clear", "extract"}

\* What the consumer may rely on in the middle of an update: the directory holds
\* entries of the archive only, none of one that could not be opened.
UpdateOK ==
  /\ Updating => (consumer.whole \/ spoilt)
  /\ consumer.pc = "extract" =>
       /\ dir.has # {} => dir.version = consumer.archive
       /\ ~consumer.whole => dir.has = {}

\* Once a complete map goes by another version than its own, it has been shown so.
MisnamedIsShown ==
  map.ready /\ Complete(dir) /\ ~Updating /\ map.version # dir.version
    => shown = "misnamed"

\* MapIsKept also holds while the package is being downloaded.
KeptUntilCleared ==
  had /\ ~spoilt /\ crashes = 0 /\ ~Updating => Complete(dir)

\* The inductive invariant.
MapInv == TypeOK /\ UpdateOK /\ MisnamedIsShown /\ KeptUntilCleared

------------------------------------------------------------------------------
(***************************************************************************)
(* Types.                                                                  *)
(***************************************************************************)

\* The states of the consumer have the fields their pc promises.
LEMMA ConsumerFields ==
  ASSUME consumer \in ConsumerStates
  PROVE  /\ consumer.pc \in {"idle", "download", "clear", "extract"}
         /\ consumer.pc = "idle" => consumer = Idle
         /\ consumer.pc # "idle" => consumer.version \in Version
         /\ Updating => consumer.archive \in Version /\ consumer.whole \in BOOLEAN
         /\ consumer.pc = "clear" =>
              [consumer EXCEPT !.pc = "extract"] \in ConsumerStates
BY DEF ConsumerStates, Idle, Updating

\* A directory has one of the entries only with a version.
LEMMA DirFields ==
  ASSUME NEW d \in Dirs
  PROVE  /\ d.has \subseteq Entries
         /\ d.has # {} => d.version \in Version
         /\ d.has = {} => d = EmptyDir
         /\ Metadata(d) \in VersionOrNone
         /\ Complete(d) => Metadata(d) = d.version /\ d.version \in Version
BY MapSyncAssumption
DEF Dirs, EmptyDir, Entries, Metadata, VersionOrNone, Complete

\* The MapInfo of a version is about no map, its own or another.
LEMMA MapInfoType ==
  \A v : MapInfo(v) \in {"none", "part", "misnamed", "right"}
BY DEF MapInfo

\* What a MapInfo tells of a complete map.
LEMMA MapInfoIs ==
  \A v : Complete(dir) => MapInfo(v) = IF dir.version = v THEN "right" ELSE "misnamed"
BY DEF MapInfo

\* Only a complete map can be misnamed.
LEMMA MisnamedIsComplete ==
  \A v : MapInfo(v) = "misnamed" => Complete(dir) /\ dir.version # v
BY DEF MapInfo

\* The answer to a registration is one, and names the version to update to.
LEMMA AnswerType ==
  ASSUME active \in VersionOrNone, NEW v
  PROVE  /\ Answer(v) \in Responses
         /\ Answer(v).map_update => Answer(v).map_version \in Version
BY MapSyncAssumption DEF Answer, Responses, VersionOrNone

\* The initial state has the right types.
LEMMA InitTypeOK == Init => TypeOK
<1> SUFFICES ASSUME Init PROVE TypeOK
  OBVIOUS
<1>1. dir \in Dirs
  BY DEF Init, Dirs, Entries
<1>2. Metadata(dir) \in VersionOrNone
  BY <1>1, DirFields
<1>3. map \in [ready : BOOLEAN, version : VersionOrNone]
  BY <1>2 DEF Init, Booted
<1>4. consumer \in ConsumerStates /\ crashes \in 0..MaxCrashes
  BY MapSyncAssumption DEF Init, ConsumerStates
<1>5. shown \in {"none", "part", "misnamed", "right"}
  BY MapInfoType DEF Init
<1>6. had \in BOOLEAN
  BY DEF Init, Complete
<1> QED BY <1>1, <1>2, <1>3, <1>4, <1>5, <1>6 DEF Init, TypeOK

\* Every step keeps the types.
LEMMA TypeStep == TypeOK /\ [Next]_vars => TypeOK'
<1> SUFFICES ASSUME TypeOK, [Next]_vars PROVE TypeOK'
  OBVIOUS
<1> USE DEF TypeOK, edge, mail, manager, node, history
<1>r. ASSUME NEW r \in Responses, ReceiveResponse(r) PROVE TypeOK'
  <2>1. responses' \subseteq responses /\ UNCHANGED <<edge, requests, history, crashes>>
    BY <1>r DEF ReceiveResponse
  <2>2. CASE TakeRefusal(r)
    BY <2>1, <2>2 DEF TakeRefusal
  <2>3. CASE TakeUpToDate(r)
    <3>1. map' \in [ready : BOOLEAN, version : VersionOrNone]
      <4>1. "metadata.yaml" \in dir.has => dir.version \in VersionOrNone
        BY DirFields DEF VersionOrNone
      <4> QED BY <2>3, <4>1 DEF TakeUpToDate
    <3>2. shown' \in {"none", "part", "misnamed", "right"}
      BY <2>3, MapInfoType DEF TakeUpToDate
    <3>3. registered' \in BOOLEAN /\ UNCHANGED <<reported, online>>
      BY <2>3, <3>1 DEF TakeUpToDate, Settle
    <3> QED BY <2>1, <2>3, <3>1, <3>2, <3>3 DEF TakeUpToDate
  <2>4. CASE TakeUpdate(r)
    <3>1. r.map_version \in Version
      BY <1>r, <2>4 DEF ReceiveResponse, TakeUpdate
    <3>2. consumer' \in ConsumerStates
      BY <2>4, <3>1 DEF TakeUpdate, ConsumerStates
    <3> QED BY <2>1, <2>4, <3>2 DEF TakeUpdate
  <2> QED BY <1>r, <2>2, <2>3, <2>4 DEF ReceiveResponse
<1>d. ASSUME Download PROVE TypeOK'
  <2>1. consumer.version \in Version
    BY <1>d, ConsumerFields DEF Download
  <2>2. consumer' \in ConsumerStates
    <3>1. active \in Version /\ (active \in intact) \in BOOLEAN
      BY <1>d DEF Download, VersionOrNone
    <3>2. consumer' = [pc |-> "clear", version |-> consumer.version,
                       archive |-> active, whole |-> active \in intact]
      BY <1>d DEF Download
    <3> HIDE DEF TypeOK
    <3> QED BY <2>1, <3>1, <3>2, Zenon DEF ConsumerStates
  <2>3. spoilt' \in BOOLEAN
    BY <1>d DEF Download
  <2> QED BY <1>d, <2>2, <2>3 DEF Download
<1>g. ASSUME DownloadFails PROVE TypeOK'
  BY <1>g DEF DownloadFails, Settle, ConsumerStates
<1>c. ASSUME ClearEntry PROVE TypeOK'
  <2>1. CASE dir.has = {}
    BY <1>c, <2>1, ConsumerFields DEF ClearEntry
  <2>2. CASE dir.has # {}
    <3>1. PICK e \in dir.has : dir' = IF dir.has = {e} THEN EmptyDir
                                      ELSE [dir EXCEPT !.has = @ \ {e}]
      BY <1>c, <2>2 DEF ClearEntry
    <3>2. dir' \in Dirs
      BY <2>2, <3>1 DEF Dirs, EmptyDir
    <3> QED BY <1>c, <2>2, <3>2 DEF ClearEntry
  <2> QED BY <2>1, <2>2
<1>e. ASSUME NEW e \in Entries, ExtractEntry(e) PROVE TypeOK'
  <2>1. consumer.archive \in Version
    BY <1>e, ConsumerFields DEF ExtractEntry, Updating
  <2>2. dir' \in Dirs
    BY <1>e, <2>1, DirFields DEF ExtractEntry, Dirs
  <2> QED BY <1>e, <2>2 DEF ExtractEntry
<1>f. ASSUME FinishUpdate PROVE TypeOK'
  <2>1. consumer.version \in Version
    BY <1>f, ConsumerFields DEF FinishUpdate
  <2>2. map' \in [ready : BOOLEAN, version : VersionOrNone]
    <3>1. CASE consumer.whole
      <4>1. map' = [ready |-> TRUE, version |-> consumer.version]
        BY <1>f, <3>1 DEF FinishUpdate
      <4> QED BY <2>1, <4>1 DEF VersionOrNone
    <3>2. CASE ~consumer.whole
      BY <1>f, <3>2 DEF FinishUpdate
    <3> QED BY <3>1, <3>2
  <2>3. shown' \in {"none", "part", "misnamed", "right"} /\ had' \in BOOLEAN
    BY <1>f, MapInfoType DEF FinishUpdate
  <2>4. consumer' \in ConsumerStates
    BY <1>f DEF FinishUpdate, ConsumerStates
  <2>5. registered' \in BOOLEAN /\ UNCHANGED <<reported, online>>
    BY <1>f, <2>2 DEF FinishUpdate, Settle
  <2> QED BY <1>f, <2>2, <2>3, <2>4, <2>5 DEF FinishUpdate
<1>t. ASSUME RegisterTimer PROVE TypeOK'
  BY <1>t DEF RegisterTimer
<1>a. ASSUME NEW v \in VersionOrNone, EdgeAnswer(v) PROVE TypeOK'
  <2>1. responses' = responses \cup {Answer(v)} /\ requests' \subseteq requests
    BY <1>a DEF EdgeAnswer
  <2> QED BY <1>a, <2>1, AnswerType DEF EdgeAnswer
<1>l. ASSUME NEW v \in VersionOrNone, AnswerLost(v) PROVE TypeOK'
  BY <1>l DEF AnswerLost
<1>v. ASSUME NEW v \in Version, Activate(v) PROVE TypeOK'
  BY <1>v DEF Activate, VersionOrNone
<1>u. ASSUME NEW v \in Version, UploadStep(v) PROVE TypeOK'
  BY <1>u DEF UploadStep
<1>o. ASSUME NEW b \in BOOLEAN, EdgeStatus(b) PROVE TypeOK'
  BY <1>o DEF EdgeStatus
<1>b. ASSUME Restart PROVE TypeOK'
  <2>1. Metadata(dir) \in VersionOrNone
    BY DirFields
  <2>2. map' \in [ready : BOOLEAN, version : VersionOrNone]
    BY <1>b, <2>1 DEF Restart, Booted
  <2>3. shown' \in {"none", "part", "misnamed", "right"}
    BY <1>b, MapInfoType DEF Restart
  <2>4. crashes' \in 0..MaxCrashes
    <3>1. crashes \in 0..MaxCrashes /\ crashes < MaxCrashes /\ crashes' = crashes + 1
      BY <1>b DEF Restart
    <3> QED BY <3>1, MapSyncAssumption
  <2>5. consumer' \in ConsumerStates
    BY <1>b DEF Restart, ConsumerStates
  <2> QED BY <1>b, <2>1, <2>2, <2>3, <2>4, <2>5 DEF Restart
<1>s. ASSUME UNCHANGED vars PROVE TypeOK'
  BY <1>s DEF vars
<1> QED
  BY <1>r, <1>d, <1>g, <1>c, <1>e, <1>f, <1>t, <1>a, <1>l, <1>v, <1>u, <1>o, <1>b, <1>s
  DEF Next, ConsumerStep, EdgeStep

------------------------------------------------------------------------------
(***************************************************************************)
(* What holds of the directory.                                            *)
(***************************************************************************)

\* Steps of others, and those of the consumer that neither move an update nor
\* touch the directory.
Aside == UNCHANGED <<dir, map, shown, consumer, spoilt, had>> /\ crashes' = crashes

\* A step is one of the consumer, a restart, or is aside.
LEMMA StepKinds ==
  ASSUME [Next]_vars
  PROVE  \/ \E r \in Responses :
              ReceiveResponse(r) /\ (TakeUpToDate(r) \/ TakeUpdate(r))
         \/ Download
         \/ DownloadFails
         \/ ClearEntry
         \/ \E e \in Entries : ExtractEntry(e)
         \/ FinishUpdate
         \/ Restart
         \/ Aside
<1> USE DEF Aside, edge, mail, manager, node, history
<1>1. ASSUME NEW r \in Responses, ReceiveResponse(r), TakeRefusal(r) PROVE Aside
  BY <1>1 DEF ReceiveResponse, TakeRefusal
<1>2. RegisterTimer => Aside
  BY DEF RegisterTimer
<1>3. EdgeStep \/ (\E v \in VersionOrNone : AnswerLost(v)) => Aside
  BY DEF EdgeStep, EdgeAnswer, AnswerLost
<1>4. (\E v \in Version : Activate(v) \/ UploadStep(v)) => Aside
  BY DEF Activate, UploadStep
<1>5. (\E b \in BOOLEAN : EdgeStatus(b)) => Aside
  BY DEF EdgeStatus
<1>6. UNCHANGED vars => Aside
  BY DEF vars
<1>7. ASSUME NEW r \in Responses, ReceiveResponse(r)
      PROVE  TakeRefusal(r) \/ TakeUpToDate(r) \/ TakeUpdate(r)
  BY <1>7 DEF ReceiveResponse
<1> QED BY <1>1, <1>2, <1>3, <1>4, <1>5, <1>6, <1>7 DEF Next, ConsumerStep

\* Every step keeps what the consumer relies on.
LEMMA UpdateStep == TypeOK /\ UpdateOK /\ [Next]_vars => UpdateOK'
<1> SUFFICES ASSUME TypeOK, UpdateOK, [Next]_vars PROVE UpdateOK'
  OBVIOUS
<1> USE DEF UpdateOK, Updating, manager, history
<1>1. ASSUME NEW r \in Responses, ReceiveResponse(r), TakeUpToDate(r) \/ TakeUpdate(r)
      PROVE  UpdateOK'
  BY <1>1 DEF ReceiveResponse, TakeUpToDate, TakeUpdate, Idle
<1>2. ASSUME Download PROVE UpdateOK'
  <2>1. /\ consumer' = [pc |-> "clear", version |-> consumer.version,
                        archive |-> active, whole |-> active \in intact]
        /\ spoilt' = (spoilt \/ active \notin intact)
    BY <1>2 DEF Download
  <2>2. consumer'.pc = "clear" /\ consumer'.whole = (active \in intact)
    BY <2>1
  <2>3. consumer'.whole \/ spoilt'
    BY <2>1, <2>2, Zenon
  <2> QED BY <2>2, <2>3
<1>8. ASSUME DownloadFails PROVE UpdateOK'
  BY <1>8 DEF DownloadFails, Idle
<1>3. ASSUME ClearEntry PROVE UpdateOK'
  <2>1. consumer \in ConsumerStates
    BY DEF TypeOK
  <2>2. consumer'.pc = "extract" => dir.has = {} /\ dir' = dir
    BY <1>3, <2>1 DEF ClearEntry
  <2>3. consumer'.whole = consumer.whole /\ spoilt' = spoilt
    BY <1>3, <2>1 DEF ClearEntry, ConsumerStates, Idle
  <2> QED BY <1>3, <2>2, <2>3 DEF ClearEntry
<1>4. ASSUME NEW e \in Entries, ExtractEntry(e) PROVE UpdateOK'
  BY <1>4 DEF ExtractEntry
<1>5. ASSUME FinishUpdate PROVE UpdateOK'
  BY <1>5 DEF FinishUpdate, Idle
<1>6. ASSUME Restart PROVE UpdateOK'
  BY <1>6 DEF Restart, Idle
<1>7. ASSUME Aside PROVE UpdateOK'
  BY <1>7 DEF Aside
<1> QED BY <1>1, <1>2, <1>3, <1>4, <1>5, <1>6, <1>7, <1>8, StepKinds

\* A step that shows a misnamed map follows one that did, or ends an update whose
\* download was of another version than its answer.
LEMMA MisnamedStep ==
  ASSUME TypeOK, UpdateOK, MisnamedIsShown, [Next]_vars, shown' = "misnamed"
  PROVE  \/ shown = "misnamed"
         \/ consumer.pc = "extract" /\ consumer.version # consumer.archive
<1>0. dir \in Dirs
  BY DEF TypeOK
<1>1. ASSUME NEW r \in Responses, ReceiveResponse(r), TakeUpToDate(r)
      PROVE  shown = "misnamed"
  <2>1. SUFFICES ASSUME shown # "misnamed" PROVE FALSE
    OBVIOUS
  <2>2. shown' = MapInfo(map'.version)
    BY <1>1, <2>1 DEF TakeUpToDate
  <2>3. Complete(dir) /\ dir.version # map'.version
    BY <2>2, MisnamedIsComplete
  <2>4. CASE map.ready
    BY <1>1, <2>1, <2>3, <2>4
    DEF TakeUpToDate, ReceiveResponse, MisnamedIsShown, Updating, Idle
  <2>5. CASE ~map.ready
    BY <1>1, <2>3, <2>5 DEF TakeUpToDate, Complete, Entries
  <2> QED BY <2>4, <2>5
<1>2. ASSUME FinishUpdate, shown # "misnamed"
      PROVE  consumer.pc = "extract" /\ consumer.version # consumer.archive
  <2>1. shown' = MapInfo(consumer.version)
    BY <1>2 DEF FinishUpdate
  <2>2. Complete(dir) /\ dir.version # consumer.version
    BY <2>1, MisnamedIsComplete
  <2>3. dir.version = consumer.archive
    BY <1>2, <2>2 DEF FinishUpdate, UpdateOK, Complete, Entries
  <2> QED BY <1>2, <2>2, <2>3 DEF FinishUpdate
<1>3. ASSUME Restart PROVE shown = "misnamed"
  <2>1. SUFFICES ASSUME shown # "misnamed" PROVE FALSE
    OBVIOUS
  <2>2. shown' = MapInfo(Metadata(dir))
    BY <1>3, <2>1 DEF Restart, Booted
  <2> QED BY <1>0, <2>2, MisnamedIsComplete, DirFields
<1>4. ASSUME NEW r \in Responses, TakeUpdate(r) PROVE shown = "misnamed"
  BY <1>4 DEF TakeUpdate, manager
<1>5. Download \/ DownloadFails \/ ClearEntry \/ (\E e \in Entries : ExtractEntry(e)) \/ Aside
        => shown = "misnamed"
  BY DEF Download, DownloadFails, ClearEntry, ExtractEntry, Aside, manager
<1> QED BY <1>1, <1>2, <1>3, <1>4, <1>5, StepKinds

\* Every step keeps MisnamedIsShown.
LEMMA MisnamedIsShownStep ==
  TypeOK /\ UpdateOK /\ MisnamedIsShown /\ [Next]_vars => MisnamedIsShown'
<1> SUFFICES ASSUME TypeOK, UpdateOK, MisnamedIsShown, [Next]_vars,
                    map'.ready, Complete(dir)', ~Updating', map'.version # dir'.version
             PROVE  shown' = "misnamed"
  BY DEF MisnamedIsShown
<1>0. dir \in Dirs /\ consumer \in ConsumerStates
  BY DEF TypeOK
<1>1. ASSUME NEW r \in Responses, ReceiveResponse(r), TakeUpToDate(r)
      PROVE  shown' = "misnamed"
  BY <1>1, MapInfoIs DEF TakeUpToDate, Complete
<1>2. ASSUME NEW r \in Responses, ReceiveResponse(r), TakeUpdate(r)
      PROVE  shown' = "misnamed"
  BY <1>2 DEF TakeUpdate, ReceiveResponse, MisnamedIsShown, Updating, Idle, manager, Complete
<1>3. ASSUME Download \/ DownloadFails PROVE shown' = "misnamed"
  BY <1>3 DEF Download, DownloadFails, MisnamedIsShown, Updating, manager, Complete
<1>4. ASSUME ClearEntry PROVE shown' = "misnamed"
  <2>1. consumer'.pc \in {"clear", "extract"}
    BY <1>0, <1>4 DEF ClearEntry, ConsumerStates, Idle
  <2> QED BY <2>1 DEF Updating
<1>5. ASSUME NEW e \in Entries, ExtractEntry(e) PROVE shown' = "misnamed"
  BY <1>5 DEF ExtractEntry, Updating
<1>6. ASSUME FinishUpdate PROVE shown' = "misnamed"
  <2>1. Complete(dir) /\ dir' = dir
    BY <1>6 DEF FinishUpdate, Complete
  <2>2. CASE consumer.whole
    BY <1>6, <2>1, <2>2, MapInfoIs DEF FinishUpdate
  <2>3. CASE ~consumer.whole
    BY <1>6, <2>1, <2>3 DEF FinishUpdate, UpdateOK, Complete, Entries
  <2> QED BY <2>2, <2>3
<1>7. ASSUME Restart PROVE shown' = "misnamed"
  <2>1. Complete(dir) /\ dir' = dir
    BY <1>7 DEF Restart, Complete
  <2> QED BY <1>0, <1>7, <2>1, DirFields DEF Restart, Booted
<1>8. ASSUME Aside PROVE shown' = "misnamed"
  BY <1>8 DEF Aside, MisnamedIsShown, Updating, Complete
<1> QED BY <1>1, <1>2, <1>3, <1>4, <1>5, <1>6, <1>7, <1>8, StepKinds

\* Every step keeps KeptUntilCleared.
LEMMA KeptStep ==
  TypeOK /\ UpdateOK /\ KeptUntilCleared /\ [Next]_vars => KeptUntilCleared'
<1> SUFFICES ASSUME TypeOK, UpdateOK, KeptUntilCleared, [Next]_vars,
                    had', ~spoilt', crashes' = 0, ~Updating'
             PROVE  Complete(dir)'
  BY DEF KeptUntilCleared
<1>0. consumer \in ConsumerStates /\ crashes \in 0..MaxCrashes
  BY DEF TypeOK
<1> USE DEF KeptUntilCleared, Updating, Complete, manager, history
<1>1. ASSUME NEW r \in Responses, ReceiveResponse(r), TakeUpToDate(r) \/ TakeUpdate(r)
      PROVE  Complete(dir)'
  BY <1>1 DEF ReceiveResponse, TakeUpToDate, TakeUpdate, Idle
<1>2. ASSUME Download \/ DownloadFails PROVE Complete(dir)'
  BY <1>2 DEF Download, DownloadFails
<1>3. ASSUME ClearEntry PROVE Complete(dir)'
  BY <1>0, <1>3 DEF ClearEntry, ConsumerStates, Idle
<1>4. ASSUME NEW e \in Entries, ExtractEntry(e) PROVE Complete(dir)'
  BY <1>4 DEF ExtractEntry
<1>5. ASSUME FinishUpdate PROVE Complete(dir)'
  BY <1>5 DEF FinishUpdate, UpdateOK
<1>6. ASSUME Restart PROVE Complete(dir)'
  BY <1>0, <1>6, MapSyncAssumption DEF Restart
<1>7. ASSUME Aside PROVE Complete(dir)'
  BY <1>7 DEF Aside
<1> QED BY <1>1, <1>2, <1>3, <1>4, <1>5, <1>6, <1>7, StepKinds

------------------------------------------------------------------------------
(***************************************************************************)
(* Theorems.                                                               *)
(***************************************************************************)

\* MapInv is inductive.
THEOREM MapInvariance == Spec => []MapInv
<1>1. Init => MapInv
  <2> SUFFICES ASSUME Init PROVE MapInv
    OBVIOUS
  <2>1. TypeOK
    BY InitTypeOK
  <2>2. UpdateOK
    BY DEF Init, Idle, UpdateOK, Updating
  <2>3. MisnamedIsShown
    BY <2>1, DirFields DEF Init, Booted, MisnamedIsShown, TypeOK
  <2>4. KeptUntilCleared
    BY DEF Init, KeptUntilCleared
  <2> QED BY <2>1, <2>2, <2>3, <2>4 DEF MapInv
<1>2. MapInv /\ [Next]_vars => MapInv'
  BY TypeStep, UpdateStep, MisnamedIsShownStep, KeptStep DEF MapInv
<1> QED BY <1>1, <1>2, PTL DEF Spec

\* Types; the entries of the map directory are of one version
\* (MapManager::updateMap).
THEOREM MapTypeCorrect == Spec => []TypeOK
<1>1. MapInv => TypeOK
  BY DEF MapInv
<1> QED BY <1>1, MapInvariance, PTL

\* A download that fails costs the AMR no map (MapManager::downloadMap).
THEOREM MapsAreKept == Spec => []MapIsKept
<1>1. MapInv => MapIsKept
  BY DEF MapInv, MapIsKept, KeptUntilCleared, Updating, Idle
<1> QED BY <1>1, MapInvariance, PTL

\* A map is shown under another version only after it was downloaded for an
\* answer that named another (MapManager::publishMapInfo).
THEOREM ShownVersionsAreHeld == Spec => ShownVersionIsHeld
<1>1. MapInv /\ [Next]_vars =>
        [shown' = "misnamed" =>
           \/ shown = "misnamed"
           \/ consumer.pc = "extract" /\ consumer.version # consumer.archive]_vars
  BY MisnamedStep DEF MapInv
<1> QED BY <1>1, MapInvariance, PTL DEF Spec, ShownVersionIsHeld

==============================================================================
