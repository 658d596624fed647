------------------------------ MODULE MapSync ------------------------------
(***************************************************************************)
(* How an AMR comes by its map: the registration of AmrAgentNode and the   *)
(* MapManager of the agent, against the edge's check of a version and its  *)
(* download route.                                                         *)
(*                                                                         *)
(*   executor  the register timer, which asks every 5 s until registered.  *)
(*   consumer  the thread that takes messages off the router's queue: it   *)
(*             downloads and installs a map within one callback.           *)
(*                                                                         *)
(* The answer to a registration says that the map is to be updated and to  *)
(* which version; the download names no version and returns what is active *)
(* by then.  The version the AMR registers with is read once, when its     *)
(* process starts, from the metadata in its map directory.                 *)
(*                                                                         *)
(* The registration at the edge is RobotRegistry: here it only answers, and*)
(* the initial pose that comes with the answer is left out.                *)
(***************************************************************************)
EXTENDS Integers, FiniteSets

CONSTANTS
  Version,
  NoVersion,     \* an absent metadata.yaml, or no active map
  Reuploaded,    \* versions that are uploaded again while the AMR runs
  MaxResponses,  \* bound on the answers under way
  MaxCrashes     \* bound on the restarts of the AMR

ASSUME MapSyncAssumption ==
  /\ NoVersion \notin Version
  /\ Reuploaded \subseteq Version
  /\ MaxCrashes \in Nat

VersionOrNone == Version \cup {NoVersion}

\* What a package consists of, and what a registration is answered.
Entries   == {"metadata.yaml", "map.yaml"}
Responses == [code : {-1, 0}, map_update : BOOLEAN, map_version : VersionOrNone]

VARIABLES
  \* The edge server.
  active,     \* tbl_active_map
  intact,     \* versions whose map.zip is whole; an upload copies over it
  \* Between the two.
  requests,   \* the map_version of registrations under way
  responses,  \* answers under way
  \* The AMR.
  dir,        \* the map directory: its entries, all of one version
  reported,   \* m_map_version of the node
  registered, \* m_registered
  online,     \* m_edge_online
  map,        \* m_ready and m_mapVersion of MapManager
  consumer,   \* local variables of the callback that runs
  shown,      \* the last MapInfo, or "none"
  \* History.
  spoilt,     \* a package that was being overwritten has been downloaded
  had,        \* the AMR has had a complete map
  crashes

edge    == <<active, intact>>
mail    == <<requests, responses>>
manager == <<dir, map, shown>>
node    == <<reported, registered, online>>
history == <<spoilt, had>>
vars    == <<edge, mail, manager, node, consumer, history, crashes>>

Idle     == [pc |-> "idle"]
EmptyDir == [version |-> NoVersion, has |-> {}]
Complete(d) == d.has = Entries

\* loadMetadata: the version a directory tells, if it tells any.
Metadata(d) == IF "metadata.yaml" \in d.has THEN d.version ELSE NoVersion

\* publishMapInfo with version v, as it compares with what the directory holds.
MapInfo(v) == IF ~Complete(dir) THEN "part"
              ELSE IF dir.version = v THEN "right" ELSE "misnamed"

------------------------------------------------------------------------------
(***************************************************************************)
(* The edge server.                                                        *)
(***************************************************************************)

\* Fault: whether there is an active map is not looked at.
AnswerUnchecked(v) ==
  [code |-> 0, map_update |-> active # v, map_version |-> active]

\* RobotService::handleRegister with MapService::checkMapUpdate.
Answer(v) ==
  IF active = NoVersion
  THEN [code |-> -1, map_update |-> FALSE, map_version |-> NoVersion]
  ELSE [code |-> 0, map_update |-> active # v, map_version |-> active]

EdgeAnswer(v) ==
  /\ v \in requests
  /\ Cardinality(responses) < MaxResponses
  /\ requests' = requests \ {v}
  /\ responses' = responses \cup {Answer(v)}
  /\ UNCHANGED <<edge, manager, node, consumer, history, crashes>>

\* The request, or its answer, is lost with the connection of either side.
AnswerLost(v) ==
  /\ v \in requests
  /\ requests' = requests \ {v}
  /\ UNCHANGED <<edge, responses, manager, node, consumer, history, crashes>>

\* MapService::activateMap.
Activate(v) ==
  /\ v # active
  /\ active' = v
  /\ UNCHANGED <<intact, mail, manager, node, consumer, history, crashes>>

\* MapService::uploadMap: a version is copied over the file it has.
UploadStep(v) ==
  /\ v \in Reuploaded
  /\ intact' = IF v \in intact THEN intact \ {v} ELSE intact \cup {v}
  /\ UNCHANGED <<active, mail, manager, node, consumer, history, crashes>>

------------------------------------------------------------------------------
(***************************************************************************)
(* The executor of the agent.                                              *)
(***************************************************************************)

\* m_register_timer.
RegisterTimer ==
  /\ ~registered
  /\ requests' = requests \cup {reported}
  /\ UNCHANGED <<edge, responses, manager, node, consumer, history, crashes>>

------------------------------------------------------------------------------
(***************************************************************************)
(* The consumer of the agent.                                              *)
(***************************************************************************)

\* onRegisterResponse of the node, once MapManager's has returned.
Settle == registered' = TRUE /\ UNCHANGED <<reported, online>>

\* MessageCodec::decodeRobotRegisterResp: a refusal does not reach the callback.
TakeRefusal(r) ==
  /\ r.code # 0
  /\ UNCHANGED <<node, manager, consumer>>

\* No update: the map is shown again, loaded first if there was none.
TakeUpToDate(r) ==
  /\ r.code = 0
  /\ ~r.map_update
  /\ map' = IF map.ready THEN map
            ELSE [ready   |-> "map.yaml" \in dir.has,
                  version |-> IF "metadata.yaml" \in dir.has
                              THEN dir.version ELSE map.version]
  /\ shown' = IF map'.ready THEN MapInfo(map'.version) ELSE shown
  /\ Settle
  /\ UNCHANGED <<dir, consumer>>

\* Fault: the version is recorded before the map is there.
RecordEarly(r) ==
  /\ r.code = 0
  /\ r.map_update
  /\ consumer' = [pc |-> "download", version |-> r.map_version]
  /\ map' = [map EXCEPT !.version = r.map_version]
  /\ UNCHANGED <<dir, shown, node>>

\* updateMap.
TakeUpdate(r) ==
  /\ r.code = 0
  /\ r.map_update
  /\ consumer' = [pc |-> "download", version |-> r.map_version]
  /\ UNCHANGED <<manager, node>>

ReceiveResponse(r) ==
  /\ consumer = Idle
  /\ r \in responses
  /\ responses' = responses \ {r}
  /\ TakeRefusal(r) \/ TakeUpToDate(r) \/ TakeUpdate(r)
  /\ UNCHANGED <<edge, requests, history, crashes>>

\* Fault: the directory is cleared before the download has succeeded.
FailCleared ==
  /\ consumer.pc = "download"
  /\ dir' = EmptyDir
  /\ consumer' = Idle
  /\ Settle
  /\ UNCHANGED <<edge, mail, map, shown, history, crashes>>

\* downloadMap fails, and the update with it: the node counts itself as
\* registered all the same.
DownloadFails ==
  /\ consumer.pc = "download"
  /\ consumer' = Idle
  /\ Settle
  /\ UNCHANGED <<edge, mail, manager, history, crashes>>

\* downloadMap, of whatever is active.
Download ==
  /\ consumer.pc = "download"
  /\ active # NoVersion
  /\ consumer' = [pc |-> "clear", version |-> consumer.version,
                  archive |-> active, whole |-> active \in intact]
  /\ spoilt' = (spoilt \/ active \notin intact)
  /\ UNCHANGED <<edge, mail, manager, node, had, crashes>>

\* The loop that empties the directory, entry by entry.
ClearEntry ==
  /\ consumer.pc = "clear"
  /\ IF dir.has = {}
     THEN consumer' = [consumer EXCEPT !.pc = "extract"] /\ UNCHANGED dir
     ELSE \E e \in dir.has :
            /\ dir' = IF dir.has = {e} THEN EmptyDir
                      ELSE [dir EXCEPT !.has = @ \ {e}]
            /\ UNCHANGED consumer
  /\ UNCHANGED <<edge, mail, map, shown, node, history, crashes>>

\* extractMap, entry by entry, of an archive that could be opened.
ExtractEntry(e) ==
  /\ consumer.pc = "extract"
  /\ consumer.whole
  /\ e \in Entries \ dir.has
  /\ dir' = [version |-> consumer.archive, has |-> dir.has \cup {e}]
  /\ UNCHANGED <<edge, mail, map, shown, node, consumer, history, crashes>>

\* The rest of updateMap and of both onRegisterResponse.
FinishUpdate ==
  /\ consumer.pc = "extract"
  /\ IF consumer.whole
     THEN /\ Complete(dir)
          /\ map' = [ready |-> TRUE, version |-> consumer.version]
          /\ shown' = MapInfo(consumer.version)
          /\ had' = TRUE
     ELSE UNCHANGED <<map, shown, had>>
  /\ Settle
  /\ consumer' = Idle
  /\ UNCHANGED <<edge, mail, dir, spoilt, crashes>>

\* Fault: a recovered edge is not asked again.
StatusNoted(b) ==
  /\ consumer = Idle
  /\ online' = b
  /\ UNCHANGED <<edge, mail, manager, reported, registered, consumer,
                 history, crashes>>

\* The edge's status: when it recovers, the AMR registers again.
EdgeStatus(b) ==
  /\ consumer = Idle
  /\ online' = b
  /\ IF b /\ ~online
     THEN registered' = FALSE /\ requests' = requests \cup {reported}
     ELSE UNCHANGED <<registered, requests>>
  /\ UNCHANGED <<edge, responses, manager, reported, consumer, history, crashes>>

------------------------------------------------------------------------------
(***************************************************************************)
(* Start and restart of the AMR.                                           *)
(***************************************************************************)

\* Bootstrap::loadMapMetadata and MapManager::init, with directory d; MapInfo
\* is published if there is a map.
Booted(d) == [ready |-> "map.yaml" \in d.has, version |-> Metadata(d)]

Restart ==
  /\ crashes < MaxCrashes
  /\ crashes' = crashes + 1
  /\ reported' = Metadata(dir)
  /\ registered' = FALSE
  /\ online' = FALSE
  /\ map' = Booted(dir)
  /\ shown' = IF map'.ready THEN MapInfo(map'.version) ELSE shown
  /\ requests' = requests \cup {reported'}
  /\ consumer' = Idle
  /\ UNCHANGED <<edge, responses, dir, history>>

Init ==
  /\ active \in VersionOrNone
  /\ intact = Version
  /\ dir \in {EmptyDir} \cup [version : Version, has : {Entries}]
  /\ reported = Metadata(dir)
  /\ registered = FALSE
  /\ online = FALSE
  /\ map = Booted(dir)
  /\ shown = IF map.ready THEN MapInfo(map.version) ELSE "none"
  /\ requests = {reported}
  /\ responses = {}
  /\ consumer = Idle
  /\ spoilt = FALSE
  /\ had = Complete(dir)
  /\ crashes = 0

ConsumerStep ==
  \/ \E r \in Responses : ReceiveResponse(r)
  \/ Download
  \/ DownloadFails
  \/ ClearEntry
  \/ \E e \in Entries : ExtractEntry(e)
  \/ FinishUpdate

EdgeStep == \E v \in VersionOrNone : EdgeAnswer(v)

Next ==
  \/ ConsumerStep
  \/ RegisterTimer
  \/ EdgeStep
  \/ \E v \in VersionOrNone : AnswerLost(v)
  \/ \E v \in Version : Activate(v) \/ UploadStep(v)
  \/ \E b \in BOOLEAN : EdgeStatus(b)
  \/ Restart

Spec == Init /\ [][Next]_vars

(***************************************************************************)
(* Fairness: the consumer thread goes on while it has work to do, the      *)
(* timer repeats, and of registrations and downloads that are repeated for *)
(* ever some succeed.  Nothing is assumed of the edge's status or of       *)
(* operators.                                                              *)
(***************************************************************************)
FairSpec ==
  /\ Spec
  /\ WF_vars(ConsumerStep)
  /\ SF_vars(EdgeStep)
  /\ SF_vars(Download)
  /\ WF_vars(RegisterTimer)

------------------------------------------------------------------------------
(***************************************************************************)
(* Properties.                                                             *)
(***************************************************************************)

Dirs == {EmptyDir} \cup [version : Version, has : (SUBSET Entries) \ {{}}]

ConsumerStates ==
       {Idle}
  \cup [pc : {"download"}, version : Version]
  \cup [pc : {"clear", "extract"}, version : Version, archive : Version,
        whole : BOOLEAN]

\* Every variable has its type.  The entries of the directory are of one
\* version, and an update is asked for only by an answer that names one.
TypeOK ==
  /\ active \in VersionOrNone
  /\ intact \subseteq Version
  /\ requests \subseteq VersionOrNone
  /\ responses \subseteq Responses
  /\ \A r \in responses : r.map_update => r.map_version \in Version
  /\ dir \in Dirs
  /\ reported \in VersionOrNone
  /\ registered \in BOOLEAN
  /\ online \in BOOLEAN
  /\ map \in [ready : BOOLEAN, version : VersionOrNone]
  /\ consumer \in ConsumerStates
  /\ shown \in {"none", "part", "misnamed", "right"}
  /\ spoilt \in BOOLEAN
  /\ had \in BOOLEAN
  /\ crashes \in 0..MaxCrashes

\* A MapInfo comes to name another version than that of the complete map it is
\* about only when the active map was changed between an answer and the download
\* it led to: failed downloads, failed extractions and restarts do not do it.
ShownVersionIsHeld ==
  [][shown' = "misnamed" =>
       \/ shown = "misnamed"
       \/ consumer.pc = "extract" /\ consumer.version # consumer.archive]_vars

\* Without a restart and a package that was overwritten while it was downloaded,
\* an AMR that has had a map has a complete one whenever no update is under way:
\* a download that fails costs it nothing.
MapIsKept ==
  had /\ ~spoilt /\ crashes = 0 /\ consumer = Idle => Complete(dir)

\* An AMR without a complete map installs one, if in the end packages are whole and
\* the edge goes on recovering (a failed update is tried again only then), unless it
\* registers with the version that is active.  Metadata that a restart found in a
\* directory without its map are such a version: the edge answers that there is
\* nothing to update, and the AMR stays without a map.
MissingMapArrives ==
  /\ <>[](active # NoVersion /\ intact = Version)
  /\ []<>online
  /\ []<>~online
  => (~Complete(dir) ~> Complete(dir) \/ reported = active)

==============================================================================
