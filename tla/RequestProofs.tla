--------------------------- MODULE RequestProofs ---------------------------
(***************************************************************************)
(* First what holds however far the caches lag: types, and that no write   *)
(* of the worker undoes what another writer stored in between.             *)
(*                                                                         *)
(* Then the finalizer handshake, for every set of annotations, clusters    *)
(* and policies, any number of incarnations of the source and any number   *)
(* of restarts, as long as hub reads are current.                          *)
(*                                                                         *)
(* SourceOutlivesReplicas is not inductive: that a Replication may be      *)
(* created or rewritten depends on what the worker read several calls ago. *)
(* HandshakeInv adds what the worker's copies, the program counter and the *)
(* stored objects have to do with each other.                              *)
(***************************************************************************)
EXTENDS Request, TLAPS

\* TypeOK in three parts: the hub, the worker's copies, the rest of the process
\* and its surroundings.
HubTypes ==
    /\ source \in Sources /\ rep \in Replications
    /\ srcSeen \in [val : Sources, fresh : BOOLEAN]
    /\ repSeen \in [val : Replications, fresh : BOOLEAN]
    /\ policies \in PolicySets
    /\ replicas \subseteq UIDs

WorkTypes ==
    /\ pc \in {"idle", "finalizer", "resolve", "get", "create", "update", "report",
               "status", "release", "delete", "unfinalize"}
    /\ obj \in Sources /\ copy \in Replications
    /\ resolved \in [allowed : SUBSET Targets, denied : SUBSET Targets]
    /\ objFresh \in BOOLEAN /\ copyFresh \in BOOLEAN

RestTypes ==
    /\ ready \subseteq Clusters /\ listed \subseteq Clusters
    /\ enabled \in BOOLEAN /\ queued \in BOOLEAN /\ trigger \in BOOLEAN
    /\ gaveUp \in BOOLEAN
    /\ budget \in 0..MaxDisturbances

\* The worker's bookkeeping of resourceVersions, stale caches or not: a copy that
\* counts as current is the stored object, and a finalizer is about to be added
\* where there is none and removed where there is one.
LockOK ==
    /\ srcSeen.fresh => srcSeen.val = source
    /\ repSeen.fresh => repSeen.val = rep
    /\ objFresh => obj = source
    /\ pc \in {"update", "status"} /\ copyFresh => copy = rep
    /\ pc = "finalizer" => obj.exists /\ ~obj.finalizer /\ ~obj.deleting
    /\ pc \in {"release", "unfinalize"} => obj.exists
    /\ pc = "unfinalize" => obj.finalizer
    /\ pc \in {"update", "status"} => copy.exists

\* The calls that the worker makes once the source has its finalizer.
Materializing == {"resolve", "get", "create", "update", "report", "status"}

\* The stored objects and the worker's copies are well formed.
RecordsOK ==
    /\ source \in Sources /\ obj \in Sources
    /\ rep \in Replications /\ copy \in Replications
    /\ resolved \in [allowed : SUBSET Targets, denied : SUBSET Targets]

\* Hub reads are current.
CachesOK ==
    /\ srcSeen = [val |-> source, fresh |-> TRUE]
    /\ repSeen = [val |-> rep, fresh |-> TRUE]

\* The worker's copy of the source: a patch that the API server would accept
\* starts from the stored object, and while the worker materializes a request,
\* the incarnation it read is held by the finalizer.
SourceCopyOK ==
    /\ objFresh => obj = source
    /\ pc = "finalizer" => obj.exists
    /\ pc \in Materializing => source.exists /\ source.finalizer /\ source.uid = obj.uid

\* Its copy of the Replication: an update that the API server would accept
\* starts from the stored object; a release has found no owned Replication.
RepCopyOK ==
    /\ pc \in {"update", "status"} /\ copyFresh => copy = rep
    /\ pc = "update" => ownedBySource(copy)
    /\ pc = "unfinalize" => ~ownedBySource(rep)

\* Replicas exist only under a Replication that the engine has claimed, and
\* carry the UID of its owner.
ClaimOK ==
    replicas # {} => ownedBySource(rep) /\ rep.finalizer /\ replicas = {rep.owner}

\* An owned Replication has a living owner that waits for it.
OwnerOK ==
    ownedBySource(rep) => source.exists /\ source.uid = rep.owner /\ source.finalizer

HandshakeInv ==
    RecordsOK /\ CachesOK /\ SourceCopyOK /\ RepCopyOK /\ ClaimOK /\ OwnerOK

-----------------------------------------------------------------------------
\* Records

\* The absent source and the absent Replication are well formed.
LEMMA AbsentTypes ==
    /\ \A u \in UIDs \cup {0} : NoSource(u) \in Sources
    /\ NoRep \in Replications
    /\ NoResult \in [allowed : SUBSET Targets, denied : SUBSET Targets]
<1>1. NoAnnotation \in Annotations
  BY AnnotationsAssumption DEF NoAnnotation
<1> QED
  BY <1>1 DEF NoSource, Sources, NoRep, Replications, Conditions, NoResult

-----------------------------------------------------------------------------
\* However far the caches lag: types

\* The three parts make up TypeOK.
LEMMA TypeParts ==
    /\ TypeOK => HubTypes /\ WorkTypes /\ RestTypes
    /\ HubTypes' /\ WorkTypes' /\ RestTypes' => TypeOK'
BY DEF TypeOK, HubTypes, WorkTypes, RestTypes

\* A write of the source keeps the hub and the queue well typed.
LEMMA StoreSourceType ==
    ASSUME HubTypes, RestTypes, NEW o \in Sources, StoreSource(o)
    PROVE  HubTypes' /\ queued' \in BOOLEAN
<1>1. source' \in Sources /\ srcSeen' \in [val : Sources, fresh : BOOLEAN]
  <2>1. srcSeen \in [val : Sources, fresh : BOOLEAN] /\ source' = o
    BY DEF HubTypes, StoreSource
  <2>2. CASE StaleReads
    <3>1. srcSeen' = [srcSeen EXCEPT !.fresh = FALSE]
      BY <2>2 DEF StoreSource
    <3> QED
      BY <2>1, <3>1
  <2>3. CASE ~StaleReads
    <3>1. srcSeen' = [val |-> o, fresh |-> TRUE]
      BY <2>3 DEF StoreSource
    <3> QED
      BY <2>1, <3>1
  <2> QED
    BY <2>2, <2>3
<1>2. queued' \in BOOLEAN
  BY DEF RestTypes, StoreSource
<1> QED
  BY <1>1, <1>2 DEF HubTypes, StoreSource

\* So does a write of the Replication.
LEMMA StoreRepType ==
    ASSUME HubTypes, RestTypes, NEW r \in Replications, StoreRep(r), replicas' \subseteq UIDs
    PROVE  HubTypes' /\ queued' \in BOOLEAN
<1>1. rep' \in Replications /\ repSeen' \in [val : Replications, fresh : BOOLEAN]
  <2>1. repSeen \in [val : Replications, fresh : BOOLEAN] /\ rep' = r
    BY DEF HubTypes, StoreRep
  <2>2. CASE StaleReads
    <3>1. repSeen' = [repSeen EXCEPT !.fresh = FALSE]
      BY <2>2 DEF StoreRep
    <3> QED
      BY <2>1, <3>1
  <2>3. CASE ~StaleReads
    <3>1. repSeen' = [val |-> r, fresh |-> TRUE]
      BY <2>3 DEF StoreRep
    <3> QED
      BY <2>1, <3>1
  <2> QED
    BY <2>2, <2>3
<1>2. queued' \in BOOLEAN
  BY DEF RestTypes, StoreRep
<1> QED
  BY <1>1, <1>2 DEF HubTypes, StoreRep

\* A step that leaves the hub, or the worker's copies, alone keeps their types.
LEMMA UnchangedTypes ==
    /\ HubTypes /\ UNCHANGED hubVars => HubTypes'
    /\ WorkTypes /\ UNCHANGED workVars /\ pc' \in {"idle", "finalizer", "resolve", "get",
          "create", "update", "report", "status", "release", "delete", "unfinalize"}
          => WorkTypes'
    /\ RestTypes /\ UNCHANGED processUnchanged /\ queued' \in BOOLEAN => RestTypes'
<1>1. HubTypes /\ UNCHANGED hubVars => HubTypes'
  BY DEF HubTypes, hubVars
<1>2. ASSUME WorkTypes, UNCHANGED workVars, pc' \in {"idle", "finalizer", "resolve", "get",
             "create", "update", "report", "status", "release", "delete", "unfinalize"}
      PROVE  WorkTypes'
  BY <1>2 DEF WorkTypes, workVars
<1>3. ASSUME RestTypes, UNCHANGED processUnchanged, queued' \in BOOLEAN PROVE RestTypes'
  BY <1>3 DEF RestTypes, processUnchanged, fleetVars
<1> QED
  BY <1>1, <1>2, <1>3

\* The end of a reconcile.
LEMMA ReturnTypes == Return => WorkTypes'
BY AbsentTypes, BoundsAssumption DEF Return, WorkTypes, UIDs

\* The worker's reads are well typed.
LEMMA ReadTypes ==
    ASSUME TypeOK, StartReconcile \/ Resolve \/ GetReplication \/ ReportTargetResolution
                   \/ Release
    PROVE  TypeOK'
<1> HubTypes /\ WorkTypes /\ RestTypes
  BY TypeParts
<1>1. HubTypes'
  BY UnchangedTypes DEF StartReconcile, Resolve, GetReplication, ReportTargetResolution, Release
<1>2. RestTypes'
  BY UnchangedTypes DEF StartReconcile, Resolve, GetReplication, ReportTargetResolution, Release,
     RestTypes, processUnchanged, fleetVars
<1>3. srcSeen.val \in Sources /\ srcSeen.fresh \in BOOLEAN
      /\ repSeen.val \in Replications /\ repSeen.fresh \in BOOLEAN
  BY DEF HubTypes
<1>4. WorkTypes'
  <2>1. CASE Return
    BY <2>1, ReturnTypes
  <2>2. CASE StartReconcile /\ ~Return
    BY <1>3, <2>2 DEF StartReconcile, WorkTypes
  <2>3. CASE Resolve
    <3>1. resolved' \in [allowed : SUBSET Targets, denied : SUBSET Targets]
      BY <2>3 DEF Resolve, resolveTargets, Candidates
    <3> QED
      BY <2>3, <3>1 DEF Resolve, WorkTypes
  <2>4. CASE GetReplication /\ ~Return
    BY <1>3, <2>4 DEF GetReplication, Goto, workVars, WorkTypes
  <2>5. CASE ReportTargetResolution /\ ~Return
    BY <1>3, <2>5 DEF ReportTargetResolution, WorkTypes
  <2>6. CASE Release /\ ~Return
    BY <2>6 DEF Release, Goto, workVars, WorkTypes
  <2> QED
    BY <2>1, <2>2, <2>3, <2>4, <2>5, <2>6
<1> QED
  BY <1>1, <1>2, <1>4, TypeParts

\* What the worker writes is well typed.
LEMMA WrittenTypes ==
    ASSUME TypeOK
    PROVE  /\ [obj EXCEPT !.finalizer = TRUE] \in Sources
           /\ [obj EXCEPT !.finalizer = FALSE] \in Sources
           /\ NoSource(obj.uid) \in Sources
           /\ desiredReplication \in Replications
           /\ [copy EXCEPT !.owner = obj.uid, !.targets = resolved.allowed] \in Replications
           /\ [copy EXCEPT !.cond = conditionFor(resolved)] \in Replications
           /\ Deleted(rep) \in Replications
<1>0. /\ obj \in Sources /\ copy \in Replications /\ rep \in Replications
      /\ obj.uid \in UIDs \cup {0} /\ resolved.allowed \in SUBSET Targets
  BY DEF TypeOK, Sources
<1>1. [obj EXCEPT !.finalizer = TRUE] \in Sources /\ [obj EXCEPT !.finalizer = FALSE] \in Sources
  BY <1>0 DEF Sources
<1>2. NoSource(obj.uid) \in Sources
  BY <1>0, AbsentTypes
<1>3. desiredReplication \in Replications
  BY <1>0, AbsentTypes DEF desiredReplication, Replications
<1>4. [copy EXCEPT !.owner = obj.uid, !.targets = resolved.allowed] \in Replications
  BY <1>0 DEF Replications
<1>5. conditionFor(resolved) \in Conditions
  BY DEF conditionFor, Conditions
<1>6. [copy EXCEPT !.cond = conditionFor(resolved)] \in Replications
  BY <1>0, <1>5 DEF Replications
<1>7. Deleted(rep) \in Replications
  <2>1. [rep EXCEPT !.deleting = TRUE] \in Replications
    BY <1>0 DEF Replications
  <2> QED
    BY <2>1, AbsentTypes DEF Deleted
<1> QED
  BY <1>1, <1>2, <1>3, <1>4, <1>6, <1>7

\* The worker's writes keep the types.
LEMMA WriteTypes ==
    ASSUME TypeOK, \/ AddFinalizer \/ CreateReplication \/ UpdateReplication \/ UpdateStatus
                   \/ DeleteReplication \/ RemoveFinalizer
    PROVE  TypeOK'
<1>0. HubTypes /\ WorkTypes /\ RestTypes
  BY TypeParts
<1>1. /\ UNCHANGED <<fleetVars, enabled, trigger, budget>>
      /\ gaveUp' \in BOOLEAN
  BY <1>0 DEF AddFinalizer, CreateReplication, UpdateReplication, UpdateStatus,
     DeleteReplication, RemoveFinalizer, processUnchanged, RestTypes
<1>2. ASSUME queued' \in BOOLEAN PROVE RestTypes'
  BY <1>0, <1>1, <1>2 DEF RestTypes, fleetVars
<1>3. CASE Return /\ UNCHANGED hubVars /\ queued' \in BOOLEAN
  BY <1>0, <1>2, <1>3, ReturnTypes, UnchangedTypes, TypeParts
<1>4. ASSUME NEW o \in Sources, StoreSource(o) PROVE HubTypes' /\ RestTypes'
  BY <1>0, <1>2, <1>4, StoreSourceType
<1>5. ASSUME NEW r \in Replications, StoreRep(r), UNCHANGED replicas
      PROVE  HubTypes' /\ RestTypes'
  <2>1. replicas' \subseteq UIDs
    BY <1>0, <1>5 DEF HubTypes
  <2> QED
    BY <1>0, <1>2, <1>5, <2>1, StoreRepType
<1>6. CASE ReturnError \/ ReturnNil
  BY <1>0, <1>3, <1>6 DEF ReturnError, ReturnNil, RestTypes
<1>7. CASE AddFinalizer /\ ~ReturnError
  <2> DEFINE q == [obj EXCEPT !.finalizer = TRUE]
  <2>1. q \in Sources /\ StoreSource(q) /\ obj' = q /\ pc' = "resolve"
        /\ UNCHANGED <<objFresh, resolved, copy, copyFresh>>
    BY <1>7, WrittenTypes DEF AddFinalizer
  <2> HIDE DEF q
  <2>2. WorkTypes'
    BY <1>0, <2>1 DEF WorkTypes
  <2> QED
    BY <1>4, <2>1, <2>2, TypeParts
<1>8. CASE (CreateReplication \/ UpdateReplication) /\ ~ReturnNil /\ ~ReturnError
  <2>1. PICK r \in Replications : StoreRep(r) /\ UNCHANGED replicas /\ Goto("report")
    BY <1>8, WrittenTypes DEF CreateReplication, UpdateReplication
  <2> QED
    BY <1>0, <1>5, <2>1, UnchangedTypes, TypeParts DEF Goto
<1>9. CASE UpdateStatus /\ ~ReturnError
  BY <1>5, <1>9, WrittenTypes, ReturnTypes, TypeParts DEF UpdateStatus
<1>10. CASE DeleteReplication
  <2>1. CASE UNCHANGED <<hubVars, queued>>
    BY <1>0, <1>3, <1>10, <2>1 DEF DeleteReplication, RestTypes
  <2>2. CASE StoreRep(Deleted(rep)) /\ UNCHANGED replicas
    BY <1>5, <1>10, <2>2, WrittenTypes, ReturnTypes, TypeParts DEF DeleteReplication
  <2> QED
    BY <1>10, <2>1, <2>2 DEF DeleteReplication
<1>11. CASE RemoveFinalizer /\ ~ReturnError
  <2> DEFINE q == IF obj.deleting THEN NoSource(obj.uid) ELSE [obj EXCEPT !.finalizer = FALSE]
  <2>1. q \in Sources
    BY WrittenTypes
  <2>2. StoreSource(q) /\ Return
    BY <1>11 DEF RemoveFinalizer
  <2> HIDE DEF q
  <2> QED
    BY <1>4, <2>1, <2>2, ReturnTypes, TypeParts
<1> QED
  BY <1>6, <1>7, <1>8, <1>9, <1>10, <1>11

\* The other writers keep the types.
LEMMA OthersTypes ==
    ASSUME TypeOK, budget' \in 0..MaxDisturbances,
           \/ \E o \in Sources : OthersStoreSource(o)
           \/ \E r \in Replications : OthersStoreRep(r) /\ replicas' \subseteq UIDs
    PROVE  TypeOK'
<1>0. HubTypes /\ WorkTypes /\ RestTypes
  BY TypeParts
<1>1. CASE \E o \in Sources : OthersStoreSource(o)
  <2>1. HubTypes' /\ queued' \in BOOLEAN
    BY <1>0, <1>1, StoreSourceType DEF OthersStoreSource
  <2> QED
    BY <1>0, <1>1, <2>1, TypeParts DEF OthersStoreSource, WorkTypes, RestTypes, fleetVars
<1>2. CASE \E r \in Replications : OthersStoreRep(r) /\ replicas' \subseteq UIDs
  <2>1. HubTypes' /\ queued' \in BOOLEAN
    BY <1>0, <1>2, StoreRepType DEF OthersStoreRep
  <2> QED
    BY <1>0, <1>2, <2>1, TypeParts DEF OthersStoreRep, WorkTypes, RestTypes, fleetVars
<1> QED
  BY <1>1, <1>2

\* The engine and the garbage collector keep the types.
LEMMA EngineTypes ==
    ASSUME TypeOK, EngineClaim \/ EngineSync \/ EngineDrain \/ OwnerGC
    PROVE  TypeOK'
<1>0. /\ rep \in Replications /\ replicas \subseteq UIDs /\ budget \in 0..MaxDisturbances
      /\ rep.owner \in UIDs \cup {0}
  BY DEF TypeOK, Replications
<1>1. CASE EngineClaim
  <2>1. [rep EXCEPT !.finalizer = TRUE] \in Replications
    BY <1>0 DEF Replications
  <2> QED
    BY <1>0, <1>1, <2>1, OthersTypes DEF EngineClaim
<1>2. CASE EngineSync
  <2>1. replicas' \subseteq UIDs
    BY <1>0, <1>2 DEF EngineSync, ownedBySource
  <2> QED
    BY <1>2, <2>1 DEF EngineSync, TypeOK, workVars, fleetVars
<1>3. CASE EngineDrain
  <2>1. replicas' \subseteq UIDs /\ budget' \in 0..MaxDisturbances /\ OthersStoreRep(NoRep)
    BY <1>0, <1>3 DEF EngineDrain
  <2> QED
    BY <2>1, AbsentTypes, OthersTypes
<1>4. CASE OwnerGC
  BY <1>0, <1>4, WrittenTypes, OthersTypes DEF OwnerGC
<1> QED
  BY <1>1, <1>2, <1>3, <1>4

\* A disturbance uses up one unit of the budget.
LEMMA DisturbTypes ==
    ASSUME TypeOK, NEW kind, Disturb(kind)
    PROVE  budget' \in 0..MaxDisturbances
BY BoundsAssumption DEF TypeOK, Disturb

\* What users make of the source is well typed.
LEMMA UserSourceTypes ==
    ASSUME TypeOK, CreateSource \/ Annotate \/ DeleteSource
    PROVE  \E o \in Sources : OthersStoreSource(o)
<1>0. source \in Sources /\ source.uid \in UIDs \cup {0}
  BY DEF TypeOK, Sources
<1>1. CASE CreateSource
  <2>1. PICK a \in Annotations :
            OthersStoreSource([NoSource(source.uid + 1) EXCEPT !.exists = TRUE, !.ann = a])
    BY <1>1 DEF CreateSource
  <2>2. source.uid + 1 \in UIDs \cup {0}
    <3>1. source.uid < MaxUID
      BY <1>1 DEF CreateSource
    <3> QED
      BY <1>0, <3>1, BoundsAssumption DEF UIDs
  <2>3. [NoSource(source.uid + 1) EXCEPT !.exists = TRUE, !.ann = a] \in Sources
    <3>1. NoSource(source.uid + 1) \in Sources
      BY <2>2, AbsentTypes
    <3> QED
      BY <3>1 DEF Sources
  <2> QED
    BY <2>1, <2>3
<1>2. CASE Annotate
  <2>1. PICK a \in Annotations : OthersStoreSource([source EXCEPT !.ann = a])
    BY <1>2 DEF Annotate
  <2>2. [source EXCEPT !.ann = a] \in Sources
    BY <1>0 DEF Sources
  <2> QED
    BY <2>1, <2>2
<1>3. CASE DeleteSource
  <2> DEFINE q == IF source.finalizer THEN [source EXCEPT !.deleting = TRUE]
                                      ELSE NoSource(source.uid)
  <2>1. q \in Sources
    BY <1>0, AbsentTypes DEF Sources
  <2>2. OthersStoreSource(q)
    BY <1>3 DEF DeleteSource
  <2> QED
    BY <2>1, <2>2
<1> QED
  BY <1>1, <1>2, <1>3

\* Users, administrators, the fleet, restarts and deliveries keep the types.
LEMMA RestTypesStep ==
    ASSUME TypeOK,
           \/ CreateSource \/ Annotate \/ DeleteSource \/ OccupyName \/ EditPolicies
           \/ ChangeFleet \/ Restart \/ SyncSource \/ SyncReplication \/ ProviderSync \/ Remap
    PROVE  TypeOK'
<1>0. HubTypes /\ WorkTypes /\ RestTypes
  BY TypeParts
<1>1. CASE CreateSource \/ Annotate \/ DeleteSource
  <2>1. budget' \in 0..MaxDisturbances
    BY <1>1, DisturbTypes DEF CreateSource, Annotate, DeleteSource
  <2> QED
    BY <1>1, <2>1, UserSourceTypes, OthersTypes
<1>2. CASE OccupyName
  <2>1. budget' \in 0..MaxDisturbances /\ replicas' \subseteq UIDs
    BY <1>0, <1>2, DisturbTypes DEF OccupyName, HubTypes
  <2>2. [NoRep EXCEPT !.exists = TRUE] \in Replications
    BY AbsentTypes DEF Replications
  <2> QED
    BY <1>2, <2>1, <2>2, AbsentTypes, OthersTypes DEF OccupyName
<1>3. CASE EditPolicies \/ ChangeFleet
  <2>1. budget' \in 0..MaxDisturbances
    BY <1>3, DisturbTypes DEF EditPolicies, ChangeFleet
  <2>2. CASE EditPolicies
    BY <2>1, <2>2 DEF EditPolicies, TypeOK, workVars, fleetVars
  <2>3. CASE ChangeFleet
    BY <2>1, <2>3 DEF ChangeFleet, TypeOK, workVars, hubVars
  <2> QED
    BY <1>3, <2>2, <2>3
<1>4. CASE Restart
  <2>1. budget' \in 0..MaxDisturbances
    BY <1>4, DisturbTypes DEF Restart
  <2>2. HubTypes'
    BY <1>0, <1>4 DEF Restart, HubTypes
  <2>3. enabled' \in BOOLEAN /\ queued' \in BOOLEAN
    BY <1>4 DEF Restart
  <2>4. RestTypes'
    BY <1>0, <1>4, <2>1, <2>3 DEF Restart, RestTypes
  <2> QED
    BY <1>4, <2>2, <2>4, ReturnTypes, TypeParts DEF Restart
<1>5. CASE SyncSource \/ SyncReplication
  <2>1. queued' \in BOOLEAN
    BY <1>5 DEF SyncSource, SyncReplication
  <2>2. HubTypes'
    <3>1. CASE SyncSource
      BY <1>0, <3>1 DEF SyncSource, HubTypes
    <3>2. CASE SyncReplication
      BY <1>0, <3>2 DEF SyncReplication, HubTypes
    <3> QED
      BY <1>5, <3>1, <3>2
  <2>3. RestTypes' /\ WorkTypes'
    BY <1>0, <1>5, <2>1 DEF SyncSource, SyncReplication, RestTypes, WorkTypes, workVars, fleetVars
  <2> QED
    BY <2>2, <2>3, TypeParts
<1>6. CASE ProviderSync
  BY <1>6 DEF ProviderSync, TypeOK, workVars, hubVars
<1>7. CASE Remap
  <2>1. queued' \in BOOLEAN
    BY <1>7 DEF Remap
  <2> QED
    BY <1>7, <2>1 DEF Remap, TypeOK, workVars, hubVars, fleetVars
<1> QED
  BY <1>1, <1>2, <1>3, <1>4, <1>5, <1>6, <1>7

\* Every step keeps the types.
LEMMA TypeStep == TypeOK /\ [Next]_vars => TypeOK'
<1> SUFFICES ASSUME TypeOK, [Next]_vars PROVE TypeOK'
  OBVIOUS
<1>1. CASE UNCHANGED vars
  BY <1>1 DEF vars, TypeOK
<1> QED
  BY <1>1, ReadTypes, WriteTypes, EngineTypes, RestTypesStep
     DEF Next, Reconcile, Others, Users, Idle

\* Initial states are well typed.
LEMMA InitTypes == Init => TypeOK
<1> SUFFICES ASSUME Init PROVE TypeOK
  OBVIOUS
<1>1. source \in Sources /\ obj \in Sources
  BY AbsentTypes DEF Init
<1>2. budget \in 0..MaxDisturbances
  BY BoundsAssumption DEF Init
<1> QED
  BY <1>1, <1>2, AbsentTypes DEF Init, TypeOK

\* Type correctness of the request controller, stale caches included: for any
\* annotations, policies, incarnations of the source and restarts it never
\* stores a malformed finalizer set, owner, target list or condition.
THEOREM TypeCorrect == Spec => []TypeOK
BY InitTypes, TypeStep, PTL DEF Spec

-----------------------------------------------------------------------------
\* However far the caches lag: no lost updates

\* A cached copy that counts as current is the stored object after every write.
LEMMA StoreLock ==
    ASSUME TypeOK, LockOK
    PROVE  /\ \A o : StoreSource(o) =>
                 /\ source' = o
                 /\ srcSeen'.fresh => srcSeen'.val = source'
                 /\ UNCHANGED <<rep, repSeen>>
           /\ \A r : StoreRep(r) =>
                 /\ rep' = r
                 /\ repSeen'.fresh => repSeen'.val = rep'
                 /\ UNCHANGED <<source, srcSeen>>
<1>1. ASSUME NEW o, StoreSource(o)
      PROVE  /\ source' = o /\ UNCHANGED <<rep, repSeen>>
             /\ srcSeen'.fresh => srcSeen'.val = source'
  <2>1. source' = o /\ UNCHANGED <<rep, repSeen>>
    BY <1>1 DEF StoreSource
  <2>2. CASE StaleReads
    <3>1. srcSeen' = [srcSeen EXCEPT !.fresh = FALSE]
      BY <1>1, <2>2 DEF StoreSource
    <3> QED
      BY <2>1, <3>1 DEF TypeOK
  <2>3. CASE ~StaleReads
    <3>1. srcSeen' = [val |-> o, fresh |-> TRUE]
      BY <1>1, <2>3 DEF StoreSource
    <3> QED
      BY <2>1, <3>1
  <2> QED
    BY <2>1, <2>2, <2>3
<1>2. ASSUME NEW r, StoreRep(r)
      PROVE  /\ rep' = r /\ UNCHANGED <<source, srcSeen>>
             /\ repSeen'.fresh => repSeen'.val = rep'
  <2>1. rep' = r /\ UNCHANGED <<source, srcSeen>>
    BY <1>2 DEF StoreRep
  <2>2. CASE StaleReads
    <3>1. repSeen' = [repSeen EXCEPT !.fresh = FALSE]
      BY <1>2, <2>2 DEF StoreRep
    <3> QED
      BY <2>1, <3>1 DEF TypeOK
  <2>3. CASE ~StaleReads
    <3>1. repSeen' = [val |-> r, fresh |-> TRUE]
      BY <1>2, <2>3 DEF StoreRep
    <3> QED
      BY <2>1, <3>1
  <2> QED
    BY <2>1, <2>2, <2>3
<1> QED
  BY <1>1, <1>2

\* The end of a reconcile leaves nothing that counts as current.
LEMMA ReturnLock ==
    ASSUME Return,
           srcSeen'.fresh => srcSeen'.val = source',
           repSeen'.fresh => repSeen'.val = rep'
    PROVE  LockOK'
BY DEF Return, LockOK

\* The worker's bookkeeping survives its own steps.
LEMMA ReconcileLock ==
    ASSUME TypeOK, LockOK, Reconcile
    PROVE  LockOK'
<1>0. /\ srcSeen.fresh => srcSeen.val = source
      /\ repSeen.fresh => repSeen.val = rep
  BY DEF LockOK
<1>1. CASE Return /\ UNCHANGED hubVars
  BY <1>0, <1>1, ReturnLock DEF hubVars
<1>2. CASE StartReconcile
  <2>1. UNCHANGED hubVars
    BY <1>2 DEF StartReconcile
  <2>2. CASE ~Return
    <3>1. /\ obj' = srcSeen.val /\ objFresh' = srcSeen.fresh /\ srcSeen.val.exists
          /\ \/ pc' = "release" \/ pc' = "resolve"
             \/ pc' = "finalizer" /\ ~srcSeen.val.finalizer /\ ~srcSeen.val.deleting
      BY <1>2, <2>2 DEF StartReconcile
    <3> QED
      BY <1>0, <2>1, <3>1 DEF LockOK, hubVars
  <2> QED
    BY <1>1, <2>1, <2>2
<1>3. CASE AddFinalizer
  <2>1. CASE ReturnError
    BY <1>1, <2>1 DEF ReturnError
  <2>2. CASE ~ReturnError
    <3> DEFINE q == [obj EXCEPT !.finalizer = TRUE]
    <3>1. StoreSource(q) /\ obj' = q /\ pc' = "resolve"
      BY <1>3, <2>2 DEF AddFinalizer
    <3> HIDE DEF q
    <3> QED
      BY <1>0, <3>1, StoreLock DEF LockOK
  <2> QED
    BY <2>1, <2>2
<1>4. CASE Resolve
  BY <1>4 DEF Resolve, LockOK, hubVars
<1>5. CASE GetReplication
  <2>1. CASE Return
    BY <1>1, <1>5, <2>1 DEF GetReplication
  <2>2. CASE Goto("create")
    BY <1>5, <2>2 DEF GetReplication, Goto, workVars, hubVars, LockOK
  <2>3. CASE /\ ownedBySource(repSeen.val) /\ copy' = repSeen.val /\ copyFresh' = repSeen.fresh
             /\ pc' \in {"report", "update"} /\ UNCHANGED <<obj, objFresh>>
    BY <1>5, <2>3 DEF GetReplication, hubVars, LockOK, ownedBySource
  <2> QED
    BY <1>5, <2>1, <2>2, <2>3 DEF GetReplication
<1>6. CASE CreateReplication \/ UpdateReplication
  <2>1. CASE ReturnNil \/ ReturnError
    BY <1>1, <2>1 DEF ReturnNil, ReturnError
  <2>2. CASE ~ReturnNil /\ ~ReturnError
    <3>1. PICK r : StoreRep(r) /\ Goto("report")
      BY <1>6, <2>2 DEF CreateReplication, UpdateReplication
    <3> QED
      BY <1>0, <3>1, StoreLock DEF Goto, workVars, LockOK
  <2> QED
    BY <2>1, <2>2
<1>7. CASE ReportTargetResolution
  <2>1. CASE Return
    BY <1>1, <1>7, <2>1 DEF ReportTargetResolution
  <2>2. CASE /\ repSeen.val.exists /\ copy' = repSeen.val /\ copyFresh' = repSeen.fresh
             /\ pc' = "status" /\ UNCHANGED <<obj, objFresh>>
    BY <1>7, <2>2 DEF ReportTargetResolution, hubVars, LockOK
  <2> QED
    BY <1>7, <2>1, <2>2 DEF ReportTargetResolution
<1>8. CASE UpdateStatus
  <2>1. CASE ReturnError
    BY <1>1, <2>1 DEF ReturnError
  <2>2. CASE ~ReturnError
    <3>1. Return /\ \E r : StoreRep(r)
      BY <1>8, <2>2 DEF UpdateStatus
    <3> QED
      BY <1>0, <3>1, StoreLock, ReturnLock
  <2> QED
    BY <2>1, <2>2
<1>9. CASE Release
  <2>1. CASE Return
    BY <1>1, <1>9, <2>1 DEF Release
  <2>2. CASE Goto("delete") \/ (obj.finalizer /\ Goto("unfinalize"))
    BY <1>9, <2>2 DEF Release, Goto, workVars, hubVars, LockOK
  <2> QED
    BY <1>9, <2>1, <2>2 DEF Release
<1>10. CASE DeleteReplication
  <2>1. Return /\ (UNCHANGED hubVars \/ \E r : StoreRep(r))
    BY <1>10 DEF DeleteReplication
  <2> QED
    BY <1>0, <1>1, <2>1, StoreLock, ReturnLock
<1>11. CASE RemoveFinalizer
  <2>1. CASE ReturnError
    BY <1>1, <2>1 DEF ReturnError
  <2>2. CASE ~ReturnError
    <3>1. Return /\ \E o : StoreSource(o)
      BY <1>11, <2>2 DEF RemoveFinalizer
    <3> QED
      BY <1>0, <3>1, StoreLock, ReturnLock
  <2> QED
    BY <2>1, <2>2
<1> QED
  BY <1>2, <1>3, <1>4, <1>5, <1>6, <1>7, <1>8, <1>9, <1>10, <1>11 DEF Reconcile

\* The worker's bookkeeping survives the steps of all others.
LEMMA OthersLock ==
    ASSUME TypeOK, LockOK, Others \/ Users
    PROVE  LockOK'
<1>0. /\ srcSeen.fresh => srcSeen.val = source
      /\ repSeen.fresh => repSeen.val = rep
  BY DEF LockOK
<1>1. ASSUME NEW o, OthersStoreSource(o) PROVE LockOK'
  BY <1>0, <1>1, StoreLock DEF OthersStoreSource, LockOK
<1>2. ASSUME NEW r, OthersStoreRep(r) PROVE LockOK'
  BY <1>0, <1>2, StoreLock DEF OthersStoreRep, LockOK
<1>3. CASE CreateSource \/ Annotate \/ DeleteSource
  BY <1>1, <1>3 DEF CreateSource, Annotate, DeleteSource
<1>4. CASE OccupyName \/ EngineClaim \/ EngineDrain \/ OwnerGC
  BY <1>2, <1>4 DEF OccupyName, EngineClaim, EngineDrain, OwnerGC
<1>5. CASE EngineSync \/ EditPolicies
  BY <1>5 DEF EngineSync, EditPolicies, workVars, LockOK
<1>6. CASE ChangeFleet \/ ProviderSync \/ Remap
  BY <1>6 DEF ChangeFleet, ProviderSync, Remap, workVars, hubVars, LockOK
<1>7. CASE Restart
  BY <1>7, ReturnLock DEF Restart
<1>8. CASE SyncSource \/ SyncReplication
  BY <1>8 DEF SyncSource, SyncReplication, workVars, LockOK
<1> QED
  BY <1>3, <1>4, <1>5, <1>6, <1>7, <1>8 DEF Others, Users

\* The fields that an edit of the Replication leaves alone.
LEMMA RepFields ==
    ASSUME NEW r \in Replications, NEW x, NEW y
    PROVE  /\ LET q == [r EXCEPT !.owner = x, !.targets = y]
              IN  q.exists = r.exists /\ q.finalizer = r.finalizer /\ q.deleting = r.deleting
           /\ LET q == [r EXCEPT !.cond = x]
              IN  /\ q.exists = r.exists /\ q.finalizer = r.finalizer /\ q.deleting = r.deleting
                  /\ q.owner = r.owner /\ q.targets = r.targets
           /\ LET q == [r EXCEPT !.deleting = TRUE]
              IN  q.exists = r.exists /\ q.finalizer = r.finalizer /\ q.deleting
BY DEF Replications

\* A write of the worker is one of these.
LEMMA WorkerWritesStep ==
    ASSUME TypeOK, LockOK, Reconcile
    PROVE  WorkerWrites
<1>0. rep \in Replications
  BY DEF TypeOK
<1>1. CASE UNCHANGED <<source, rep>>
  BY <1>1 DEF WorkerWrites
<1>2. CASE StartReconcile \/ Resolve \/ GetReplication \/ ReportTargetResolution \/ Release
  BY <1>1, <1>2 DEF StartReconcile, Resolve, GetReplication, ReportTargetResolution, Release,
     hubVars
<1>3. CASE ReturnNil \/ ReturnError
  BY <1>1, <1>3 DEF ReturnNil, ReturnError, hubVars
<1>4. CASE AddFinalizer /\ ~ReturnError
  <2>1. objFresh /\ StoreSource([obj EXCEPT !.finalizer = TRUE]) /\ pc = "finalizer"
    BY <1>4 DEF AddFinalizer
  <2>2. obj = source /\ source.exists /\ ~source.finalizer /\ ~source.deleting
    BY <2>1 DEF LockOK
  <2>3. source' = [source EXCEPT !.finalizer = TRUE] /\ UNCHANGED rep
    BY <2>1, <2>2, StoreLock
  <2> QED
    BY <2>2, <2>3 DEF WorkerWrites
<1>5. CASE RemoveFinalizer /\ ~ReturnError
  <2>1. objFresh /\ pc = "unfinalize"
        /\ StoreSource(IF obj.deleting THEN NoSource(obj.uid)
                                       ELSE [obj EXCEPT !.finalizer = FALSE])
    BY <1>5 DEF RemoveFinalizer
  <2>2. obj = source /\ source.exists /\ source.finalizer
    BY <2>1 DEF LockOK
  <2>3. /\ source' = IF source.deleting THEN NoSource(source.uid)
                                         ELSE [source EXCEPT !.finalizer = FALSE]
        /\ UNCHANGED rep
    BY <2>1, <2>2, StoreLock
  <2> QED
    BY <2>2, <2>3 DEF WorkerWrites
<1>6. CASE CreateReplication /\ ~ReturnNil
  <2>1. ~rep.exists /\ UNCHANGED source
    BY <1>6, StoreLock DEF CreateReplication
  <2> QED
    BY <2>1 DEF WorkerWrites
<1>7. CASE UpdateReplication /\ ~ReturnError
  <2> DEFINE q == [rep EXCEPT !.owner = obj.uid, !.targets = resolved.allowed]
  <2>1. copy = rep
    BY <1>7 DEF UpdateReplication, LockOK
  <2>2. StoreRep(q)
    BY <1>7, <2>1 DEF UpdateReplication
  <2>3. q.exists = rep.exists /\ q.finalizer = rep.finalizer /\ q.deleting = rep.deleting
    BY <1>0, RepFields
  <2> HIDE DEF q
  <2> QED
    BY <2>2, <2>3, StoreLock DEF WorkerWrites
<1>8. CASE UpdateStatus /\ ~ReturnError
  <2> DEFINE q == [rep EXCEPT !.cond = conditionFor(resolved)]
  <2>1. copy = rep
    BY <1>8 DEF UpdateStatus, LockOK
  <2>2. StoreRep(q)
    BY <1>8, <2>1 DEF UpdateStatus
  <2>3. q.exists = rep.exists /\ q.finalizer = rep.finalizer /\ q.deleting = rep.deleting
    BY <1>0, RepFields
  <2> HIDE DEF q
  <2> QED
    BY <2>2, <2>3, StoreLock DEF WorkerWrites
<1>9. CASE DeleteReplication
  <2>1. CASE UNCHANGED hubVars
    BY <1>1, <2>1 DEF hubVars
  <2>2. CASE StoreRep(Deleted(rep))
    <3>1. rep' = Deleted(rep) /\ UNCHANGED source
      BY <2>2, StoreLock
    <3>2. CASE rep.finalizer
      BY <1>0, <3>1, <3>2, RepFields DEF Deleted, WorkerWrites
    <3>3. CASE ~rep.finalizer
      BY <3>1, <3>3 DEF Deleted, WorkerWrites
    <3> QED
      BY <3>2, <3>3
  <2> QED
    BY <1>9, <2>1, <2>2 DEF DeleteReplication
<1> QED
  BY <1>2, <1>3, <1>4, <1>5, <1>6, <1>7, <1>8, <1>9 DEF Reconcile

\* The optimistic locks suffice, however far the informers lag and whatever is
\* stored between two calls of the worker: what it has read is what is stored when
\* a write of it succeeds.
THEOREM WritesGuarded == Spec => NoLostUpdates
<1> DEFINE I == TypeOK /\ LockOK
<1>1. Init => I
  BY InitTypes DEF Init, LockOK
<1>2. I /\ [Next]_vars => I'
  <2> SUFFICES ASSUME TypeOK, LockOK, [Next]_vars PROVE LockOK'
    BY TypeStep
  <2>1. CASE UNCHANGED vars
    BY <2>1 DEF vars, LockOK
  <2> QED
    BY <2>1, ReconcileLock, OthersLock DEF Next, Idle
<1>3. I /\ [Next]_vars => [WorkerWrites]_vars
  BY WorkerWritesStep DEF WorkerWrites
<1> QED
  BY <1>1, <1>2, <1>3, PTL DEF Spec, NoLostUpdates

-----------------------------------------------------------------------------
\* Current reads

\* A write to the hub reaches the informer at once when reads are current.
LEMMA StoreSourceNow ==
    ASSUME StaleReads = FALSE, NEW o, StoreSource(o)
    PROVE  /\ source' = o /\ srcSeen' = [val |-> o, fresh |-> TRUE]
           /\ UNCHANGED <<rep, repSeen, policies, replicas>>
BY DEF StoreSource

\* The same for the Replication.
LEMMA StoreRepNow ==
    ASSUME StaleReads = FALSE, NEW r, StoreRep(r)
    PROVE  /\ rep' = r /\ repSeen' = [val |-> r, fresh |-> TRUE]
           /\ UNCHANGED <<source, srcSeen, policies>>
BY DEF StoreRep

\* The worker is done: nothing is left of what it read.
LEMMA ReturnClean ==
    ASSUME Return
    PROVE  /\ pc' = "idle" /\ objFresh' = FALSE
           /\ obj' \in Sources /\ copy' \in Replications
           /\ resolved' \in [allowed : SUBSET Targets, denied : SUBSET Targets]
           /\ SourceCopyOK' /\ RepCopyOK'
<1>1. /\ pc' = "idle" /\ objFresh' = FALSE
      /\ obj' \in Sources /\ copy' \in Replications
      /\ resolved' \in [allowed : SUBSET Targets, denied : SUBSET Targets]
  BY AbsentTypes DEF Return
<1> QED
  BY <1>1 DEF SourceCopyOK, RepCopyOK, Materializing

\* A reconcile that ends without a write keeps the invariant.
LEMMA ReturnStep ==
    ASSUME HandshakeInv, Return, UNCHANGED hubVars
    PROVE  HandshakeInv'
BY ReturnClean DEF HandshakeInv, RecordsOK, CachesOK, ClaimOK, OwnerOK, hubVars, ownedBySource

-----------------------------------------------------------------------------
\* The worker

\* A reconcile starts from the cached source.
LEMMA StartStep ==
    ASSUME HandshakeInv, StartReconcile
    PROVE  HandshakeInv'
<1>1. CASE Return
  BY <1>1, ReturnStep DEF StartReconcile
<1>2. CASE /\ obj' = source /\ objFresh' = TRUE /\ source.exists
           /\ UNCHANGED <<resolved, copy, copyFresh>>
           /\ \/ pc' = "release" \/ pc' = "finalizer"
              \/ pc' = "resolve" /\ source.finalizer
  BY <1>2 DEF StartReconcile, hubVars, HandshakeInv, RecordsOK, CachesOK, SourceCopyOK, RepCopyOK, ClaimOK, OwnerOK, ownedBySource,
        Materializing
<1> QED
  BY <1>1, <1>2 DEF StartReconcile, HandshakeInv, CachesOK

\* The finalizer is added to the object that was read, or not at all.
LEMMA AddFinalizerStep ==
    ASSUME StaleReads = FALSE, HandshakeInv, AddFinalizer
    PROVE  HandshakeInv'
<1>1. CASE ReturnError
  BY <1>1, ReturnStep DEF ReturnError
<1>2. CASE /\ objFresh /\ StoreSource([obj EXCEPT !.finalizer = TRUE])
           /\ obj' = [obj EXCEPT !.finalizer = TRUE]
           /\ pc' = "resolve"
           /\ UNCHANGED <<objFresh, resolved, copy, copyFresh>>
  <2> DEFINE q == [obj EXCEPT !.finalizer = TRUE]
  <2>1. obj = source /\ source \in Sources /\ obj.exists
    BY <1>2 DEF AddFinalizer, HandshakeInv, SourceCopyOK, RecordsOK
  <2>2. q \in Sources /\ q.exists = source.exists /\ q.uid = source.uid /\ q.finalizer = TRUE
    BY <2>1 DEF Sources
  <2>3. /\ source' = q /\ srcSeen' = [val |-> q, fresh |-> TRUE]
        /\ UNCHANGED <<rep, repSeen, replicas>>
    BY <1>2, StoreSourceNow
  <2> HIDE DEF q
  <2> QED
    BY <1>2, <2>1, <2>2, <2>3 DEF q, HandshakeInv, RecordsOK, CachesOK, SourceCopyOK, RepCopyOK, ClaimOK, OwnerOK, ownedBySource,
        Materializing
<1> QED
  BY <1>1, <1>2 DEF AddFinalizer

\* Targets are resolved and the Replication is looked up.
LEMMA LookupStep ==
    ASSUME HandshakeInv, Resolve \/ GetReplication \/ Release
    PROVE  HandshakeInv'
<1>1. CASE Resolve
  <2>1. resolved' \in [allowed : SUBSET Targets, denied : SUBSET Targets]
    BY <1>1 DEF Resolve, resolveTargets, Candidates
  <2> QED
    BY <1>1, <2>1 DEF Resolve, hubVars, HandshakeInv, RecordsOK, CachesOK, SourceCopyOK, RepCopyOK, ClaimOK, OwnerOK, ownedBySource,
        Materializing
<1>2. CASE GetReplication
  <2>1. CASE Return
    BY <1>2, <2>1, ReturnStep DEF GetReplication
  <2>2. CASE Goto("create")
    BY <1>2, <2>2 DEF GetReplication, Goto, workVars, hubVars, HandshakeInv, RecordsOK, CachesOK, SourceCopyOK, RepCopyOK, ClaimOK, OwnerOK, ownedBySource,
        Materializing
  <2>3. CASE /\ ownedBySource(rep) /\ copy' = rep
             /\ pc' \in {"report", "update"}
             /\ UNCHANGED <<obj, objFresh, resolved>>
    BY <1>2, <2>3 DEF GetReplication, hubVars, HandshakeInv, RecordsOK, CachesOK, SourceCopyOK, RepCopyOK, ClaimOK, OwnerOK, ownedBySource,
        Materializing
  <2> QED
    BY <1>2, <2>1, <2>2, <2>3 DEF GetReplication, HandshakeInv, CachesOK
<1>3. CASE Release
  <2>1. CASE Return
    BY <1>3, <2>1, ReturnStep DEF Release
  <2>2. CASE Goto("delete") \/ (Goto("unfinalize") /\ ~ownedBySource(rep))
    BY <1>3, <2>2 DEF Release, Goto, workVars, hubVars, HandshakeInv, RecordsOK, CachesOK, SourceCopyOK, RepCopyOK, ClaimOK, OwnerOK, ownedBySource,
        Materializing
  <2> QED
    BY <1>3, <2>1, <2>2 DEF Release, HandshakeInv, CachesOK
<1> QED
  BY <1>1, <1>2, <1>3

\* A Replication is created for a source that has its finalizer, and updated
\* without changing hands.
LEMMA WriteStep ==
    ASSUME StaleReads = FALSE, HandshakeInv, CreateReplication \/ UpdateReplication
    PROVE  HandshakeInv'
<1>1. CASE ReturnNil \/ ReturnError
  BY <1>1, ReturnStep DEF ReturnNil, ReturnError
<1>2. CASE /\ pc = "create" /\ ~rep.exists /\ StoreRep(desiredReplication)
           /\ UNCHANGED replicas /\ Goto("report")
  <2> DEFINE q == desiredReplication
  <2>1. q \in Replications /\ q.exists /\ q.owner = obj.uid
    BY AbsentTypes DEF desiredReplication, NoRep, Replications, HandshakeInv, RecordsOK, Sources
  <2>2. /\ rep' = q /\ repSeen' = [val |-> q, fresh |-> TRUE]
        /\ UNCHANGED <<source, srcSeen>>
    BY <1>2, StoreRepNow
  <2> HIDE DEF q
  <2> QED
    BY <1>2, <2>1, <2>2 DEF Goto, workVars, HandshakeInv, RecordsOK, CachesOK, SourceCopyOK, RepCopyOK, ClaimOK, OwnerOK, ownedBySource,
        Materializing
<1>3. CASE /\ pc = "update" /\ copyFresh
           /\ StoreRep([copy EXCEPT !.owner = obj.uid, !.targets = resolved.allowed])
           /\ UNCHANGED replicas /\ Goto("report")
  <2> DEFINE q == [copy EXCEPT !.owner = obj.uid, !.targets = resolved.allowed]
  <2>1. /\ copy = rep /\ rep \in Replications /\ ownedBySource(rep)
        /\ source.uid = obj.uid /\ obj.uid \in UIDs \cup {0}
        /\ resolved.allowed \in SUBSET Targets
    BY <1>3 DEF Sources, HandshakeInv, RecordsOK, CachesOK, SourceCopyOK, RepCopyOK, ClaimOK, OwnerOK, ownedBySource,
        Materializing
  <2>2. q \in Replications /\ q.exists = rep.exists /\ q.owner = obj.uid
        /\ q.finalizer = rep.finalizer
    BY <2>1 DEF Replications
  <2>3. /\ rep' = q /\ repSeen' = [val |-> q, fresh |-> TRUE]
        /\ UNCHANGED <<source, srcSeen>>
    BY <1>3, StoreRepNow
  <2>4. q.owner = rep.owner
    BY <2>1, <2>2 DEF HandshakeInv, OwnerOK
  <2> HIDE DEF q
  <2> QED
    BY <1>3, <2>1, <2>2, <2>3, <2>4 DEF Goto, workVars, HandshakeInv, RecordsOK, CachesOK, SourceCopyOK, RepCopyOK, ClaimOK, OwnerOK, ownedBySource,
        Materializing
<1> QED
  BY <1>1, <1>2, <1>3 DEF CreateReplication, UpdateReplication

\* The condition is reported.
LEMMA ReportStep ==
    ASSUME StaleReads = FALSE, HandshakeInv, ReportTargetResolution \/ UpdateStatus
    PROVE  HandshakeInv'
<1>1. CASE Return /\ UNCHANGED hubVars
  BY <1>1, ReturnStep
<1>2. CASE /\ pc = "report" /\ pc' = "status" /\ copy' = rep
           /\ UNCHANGED <<obj, objFresh, resolved, hubVars>>
  BY <1>2 DEF hubVars, HandshakeInv, RecordsOK, CachesOK, SourceCopyOK, RepCopyOK, ClaimOK, OwnerOK, ownedBySource,
        Materializing
<1>3. CASE /\ pc = "status" /\ copyFresh
           /\ StoreRep([copy EXCEPT !.cond = conditionFor(resolved)])
           /\ UNCHANGED replicas /\ Return
  <2> DEFINE q == [copy EXCEPT !.cond = conditionFor(resolved)]
  <2>1. copy = rep /\ rep \in Replications
    BY <1>3 DEF HandshakeInv, RecordsOK, RepCopyOK
  <2>2. conditionFor(resolved) \in Conditions
    BY DEF conditionFor, Conditions
  <2>3. q \in Replications /\ q.exists = rep.exists /\ q.owner = rep.owner
        /\ q.finalizer = rep.finalizer
    BY <2>1, <2>2 DEF Replications
  <2>4. /\ rep' = q /\ repSeen' = [val |-> q, fresh |-> TRUE]
        /\ UNCHANGED <<source, srcSeen>>
    BY <1>3, StoreRepNow
  <2> HIDE DEF q
  <2> QED
    BY <1>3, <2>3, <2>4, ReturnClean
       DEF HandshakeInv, RecordsOK, CachesOK, ClaimOK, OwnerOK, ownedBySource
<1> QED
  BY <1>1, <1>2, <1>3 DEF ReportTargetResolution, UpdateStatus, ReturnError, HandshakeInv, CachesOK

\* A Replication that has replicas has a finalizer: a delete call only marks it.
LEMMA DeletedFields ==
    ASSUME NEW r \in Replications
    PROVE  LET q == Deleted(r)
           IN  /\ q \in Replications
               /\ ownedBySource(q) => ownedBySource(r) /\ q.owner = r.owner
               /\ r.finalizer => q.exists = r.exists /\ q.owner = r.owner /\ q.finalizer
<1>1. CASE r.finalizer
  BY <1>1 DEF Deleted, Replications, ownedBySource
<1>2. CASE ~r.finalizer
  BY <1>2, AbsentTypes DEF Deleted, NoRep, ownedBySource
<1> QED
  BY <1>1, <1>2

\* A release deletes the Replication, and the finalizer once it is gone.
LEMMA ReleaseStep ==
    ASSUME StaleReads = FALSE, HandshakeInv, DeleteReplication \/ RemoveFinalizer
    PROVE  HandshakeInv'
<1>1. CASE Return /\ UNCHANGED hubVars
  BY <1>1, ReturnStep
<1>2. CASE StoreRep(Deleted(rep)) /\ UNCHANGED replicas /\ Return
  <2>1. rep \in Replications
    BY DEF HandshakeInv, RecordsOK
  <2>2. /\ rep' = Deleted(rep) /\ repSeen' = [val |-> Deleted(rep), fresh |-> TRUE]
        /\ UNCHANGED <<source, srcSeen>>
    BY <1>2, StoreRepNow
  <2> QED
    BY <1>2, <2>1, <2>2, DeletedFields, ReturnClean
       DEF HandshakeInv, RecordsOK, CachesOK, ClaimOK, OwnerOK, ownedBySource
<1>3. CASE /\ pc = "unfinalize" /\ objFresh
           /\ StoreSource(IF obj.deleting THEN NoSource(obj.uid)
                                          ELSE [obj EXCEPT !.finalizer = FALSE])
           /\ Return
  <2> DEFINE q == IF obj.deleting THEN NoSource(obj.uid) ELSE [obj EXCEPT !.finalizer = FALSE]
  <2>1. q \in Sources
    BY AbsentTypes DEF HandshakeInv, RecordsOK, Sources
  <2>2. /\ source' = q /\ srcSeen' = [val |-> q, fresh |-> TRUE]
        /\ UNCHANGED <<rep, repSeen, replicas>>
    <3>1. StoreSource(q)
      BY <1>3
    <3> HIDE DEF q
    <3> QED
      BY <3>1, StoreSourceNow
  <2>3. ~ownedBySource(rep) /\ replicas = {}
    BY <1>3 DEF HandshakeInv, RepCopyOK, ClaimOK
  <2> HIDE DEF q
  <2> QED
    BY <1>3, <2>1, <2>2, <2>3, ReturnClean
       DEF HandshakeInv, RecordsOK, CachesOK, ClaimOK, OwnerOK, ownedBySource
<1> QED
  BY <1>1, <1>2, <1>3 DEF DeleteReplication, RemoveFinalizer, ReturnError, hubVars

\* Whatever the worker does.
LEMMA ReconcileStep ==
    ASSUME StaleReads = FALSE, HandshakeInv, Reconcile
    PROVE  HandshakeInv'
BY StartStep, AddFinalizerStep, LookupStep, WriteStep, ReportStep, ReleaseStep DEF Reconcile

-----------------------------------------------------------------------------
\* The others

\* Another writer of the Replication leaves the worker with a stale copy.  The
\* invariant is kept if no owner is added and no claimed object is dropped.
LEMMA OthersRepStep ==
    ASSUME StaleReads = FALSE, HandshakeInv, NEW r \in Replications, OthersStoreRep(r),
           ownedBySource(r) => ownedBySource(rep) /\ r.owner = rep.owner,
           replicas' # {} => /\ replicas' = replicas
                             /\ r.exists = rep.exists /\ r.owner = rep.owner /\ r.finalizer
    PROVE  HandshakeInv'
<1>1. /\ rep' = r /\ repSeen' = [val |-> r, fresh |-> TRUE] /\ copyFresh' = FALSE
      /\ UNCHANGED <<source, srcSeen, pc, obj, objFresh, resolved, copy>>
  BY StoreRepNow DEF OthersStoreRep
<1> QED
  BY <1>1 DEF HandshakeInv, RecordsOK, CachesOK, SourceCopyOK, RepCopyOK, ClaimOK, OwnerOK, ownedBySource,
        Materializing

\* Another writer of the source: the invariant is kept if the finalizer and what
\* it holds stay.
LEMMA OthersSourceStep ==
    ASSUME StaleReads = FALSE, HandshakeInv, NEW o \in Sources, OthersStoreSource(o),
           source.exists /\ source.finalizer =>
               o.exists /\ o.finalizer /\ o.uid = source.uid
    PROVE  HandshakeInv'
<1>1. /\ source' = o /\ srcSeen' = [val |-> o, fresh |-> TRUE] /\ objFresh' = FALSE
      /\ UNCHANGED <<rep, repSeen, replicas, pc, obj, resolved, copy, copyFresh>>
  BY StoreSourceNow DEF OthersStoreSource
<1> QED
  BY <1>1 DEF HandshakeInv, RecordsOK, CachesOK, SourceCopyOK, RepCopyOK, ClaimOK, OwnerOK, ownedBySource,
        Materializing

\* The engine and the garbage collector.
LEMMA EngineStep ==
    ASSUME StaleReads = FALSE, HandshakeInv,
           EngineClaim \/ EngineSync \/ EngineDrain \/ OwnerGC
    PROVE  HandshakeInv'
<1> rep \in Replications
  BY DEF HandshakeInv, RecordsOK
<1>1. CASE EngineClaim
  <2> DEFINE q == [rep EXCEPT !.finalizer = TRUE]
  <2>1. q \in Replications /\ q.exists = rep.exists /\ q.owner = rep.owner /\ q.finalizer
    BY DEF Replications
  <2>2. OthersStoreRep(q) /\ replicas' = replicas
    BY <1>1 DEF EngineClaim
  <2> HIDE DEF q
  <2> QED
    BY <2>1, <2>2, OthersRepStep DEF ownedBySource
<1>2. CASE EngineSync
  BY <1>2 DEF EngineSync, workVars, HandshakeInv, RecordsOK, CachesOK, SourceCopyOK, RepCopyOK, ClaimOK, OwnerOK, ownedBySource,
        Materializing
<1>3. CASE EngineDrain
  <2>1. replicas' = {}
    BY <1>3 DEF EngineDrain, HandshakeInv, ClaimOK
  <2>2. OthersStoreRep(NoRep) /\ ~ownedBySource(NoRep)
    BY <1>3 DEF EngineDrain, NoRep, ownedBySource
  <2> QED
    BY <2>1, <2>2, AbsentTypes, OthersRepStep
<1>4. CASE OwnerGC
  BY <1>4 DEF OwnerGC, HandshakeInv, OwnerOK
<1> QED
  BY <1>1, <1>2, <1>3, <1>4

\* Users create, annotate and delete the source.
LEMMA SourceUsersStep ==
    ASSUME StaleReads = FALSE, HandshakeInv, CreateSource \/ Annotate \/ DeleteSource
    PROVE  HandshakeInv'
<1> source \in Sources
  BY DEF HandshakeInv, RecordsOK
<1>1. CASE CreateSource
  <2>1. PICK a \in Annotations :
            OthersStoreSource([NoSource(source.uid + 1) EXCEPT !.exists = TRUE, !.ann = a])
    BY <1>1 DEF CreateSource
  <2> DEFINE q == [NoSource(source.uid + 1) EXCEPT !.exists = TRUE, !.ann = a]
  <2>2. source.uid + 1 \in UIDs \cup {0}
    <3>1. source.uid \in UIDs \cup {0} /\ source.uid < MaxUID
      BY <1>1 DEF CreateSource, Sources
    <3> QED
      BY <3>1, BoundsAssumption DEF UIDs
  <2>3. q \in Sources
    BY <2>2, AbsentTypes DEF Sources
  <2>4. ~source.exists
    BY <1>1 DEF CreateSource
  <2> HIDE DEF q
  <2>5. OthersStoreSource(q)
    BY <2>1 DEF q
  <2> QED
    BY <2>3, <2>4, <2>5, OthersSourceStep
<1>2. CASE Annotate
  <2>1. PICK a \in Annotations : OthersStoreSource([source EXCEPT !.ann = a])
    BY <1>2 DEF Annotate
  <2> DEFINE q == [source EXCEPT !.ann = a]
  <2>2. q \in Sources /\ q.exists = source.exists /\ q.uid = source.uid
        /\ q.finalizer = source.finalizer
    BY DEF Sources
  <2> HIDE DEF q
  <2>3. OthersStoreSource(q)
    BY <2>1 DEF q
  <2> QED
    BY <2>2, <2>3, OthersSourceStep
<1>3. CASE DeleteSource
  <2>1. CASE source.finalizer
    <3> DEFINE q == [source EXCEPT !.deleting = TRUE]
    <3>1. q \in Sources /\ q.exists = source.exists /\ q.uid = source.uid
          /\ q.finalizer = source.finalizer
      BY DEF Sources
    <3>2. OthersStoreSource(q)
      BY <1>3, <2>1 DEF DeleteSource
    <3> HIDE DEF q
    <3> QED
      BY <3>1, <3>2, OthersSourceStep
  <2>2. CASE ~source.finalizer
    <3>1. OthersStoreSource(NoSource(source.uid))
      BY <1>3, <2>2 DEF DeleteSource
    <3>2. NoSource(source.uid) \in Sources
      BY AbsentTypes DEF Sources
    <3> QED
      BY <2>2, <3>1, <3>2, OthersSourceStep
  <2> QED
    BY <2>1, <2>2
<1> QED
  BY <1>1, <1>2, <1>3

\* A hand-authored Replication, a change of policies or of the fleet, a restart,
\* a delivery.
LEMMA RestStep ==
    ASSUME StaleReads = FALSE, HandshakeInv,
           \/ OccupyName \/ EditPolicies \/ ChangeFleet \/ Restart
           \/ SyncSource \/ SyncReplication \/ ProviderSync \/ Remap
    PROVE  HandshakeInv'
<1>1. CASE OccupyName
  <2>1. ~ownedBySource(rep) /\ replicas = {} /\ replicas' = {}
    BY <1>1 DEF OccupyName, HandshakeInv, ClaimOK, ownedBySource
  <2>2. PICK r \in {NoRep, [NoRep EXCEPT !.exists = TRUE]} : OthersStoreRep(r)
    BY <1>1 DEF OccupyName
  <2>3. r \in Replications /\ ~ownedBySource(r)
    BY AbsentTypes DEF NoRep, ownedBySource, Replications
  <2> QED
    BY <2>1, <2>2, <2>3, OthersRepStep
<1>2. CASE EditPolicies
  BY <1>2 DEF EditPolicies, workVars, HandshakeInv, RecordsOK, CachesOK, SourceCopyOK, RepCopyOK, ClaimOK, OwnerOK, ownedBySource,
        Materializing
<1>3. CASE ChangeFleet \/ ProviderSync \/ Remap
  BY <1>3 DEF ChangeFleet, ProviderSync, Remap, workVars, hubVars, HandshakeInv, RecordsOK, CachesOK, SourceCopyOK, RepCopyOK, ClaimOK, OwnerOK, ownedBySource,
        Materializing
<1>4. CASE Restart
  BY <1>4, ReturnClean
     DEF Restart, HandshakeInv, RecordsOK, CachesOK, ClaimOK, OwnerOK, ownedBySource
<1>5. CASE SyncSource \/ SyncReplication
  BY <1>5 DEF SyncSource, SyncReplication, HandshakeInv, CachesOK
<1> QED
  BY <1>1, <1>2, <1>3, <1>4, <1>5

\* With the parts of the invariant, no replica outlives its source.
LEMMA Outlives ==
    ASSUME HandshakeInv
    PROVE  SourceOutlivesReplicas
BY DEF HandshakeInv, ClaimOK, OwnerOK, ownedBySource, SourceOutlivesReplicas

\* The invariant holds in the initial state.
LEMMA HandshakeInit == Init => HandshakeInv
<1> SUFFICES ASSUME Init PROVE HandshakeInv
  OBVIOUS
<1>1. RecordsOK
  BY AbsentTypes DEF Init, RecordsOK
<1>2. ~rep.exists /\ replicas = {}
  BY DEF Init, NoRep
<1> QED
  BY <1>1, <1>2 DEF Init, HandshakeInv, CachesOK, SourceCopyOK, RepCopyOK, ClaimOK, OwnerOK,
      ownedBySource, Materializing

\* Every step keeps it.
LEMMA HandshakeStep ==
    ASSUME StaleReads = FALSE, HandshakeInv, [Next]_vars
    PROVE  HandshakeInv'
<1>1. CASE UNCHANGED vars
  BY <1>1 DEF vars, HandshakeInv, RecordsOK, CachesOK, SourceCopyOK, RepCopyOK, ClaimOK, OwnerOK,
      ownedBySource, Materializing
<1>2. CASE Next
  BY <1>1, <1>2, ReconcileStep, EngineStep, SourceUsersStep, RestStep
     DEF Next, Others, Users, Idle
<1> QED
  BY <1>1, <1>2

\* The handshake.  For every set of annotations, clusters and policies, whatever
\* users, administrators and restarts do between two calls of the worker, a
\* source is there and carries the operator's finalizer as long as its
\* Replication or a replica with its UID exists, provided hub reads are current.
THEOREM HandshakeHolds ==
    ASSUME StaleReads = FALSE
    PROVE  Spec => []SourceOutlivesReplicas
<1>1. HandshakeInv => SourceOutlivesReplicas
  BY Outlives
<1> QED
  BY <1>1, HandshakeInit, HandshakeStep, PTL DEF Spec

-----------------------------------------------------------------------------
\* A Replication that someone wrote by hand

\* The delete call carries no precondition, but what the worker has found under
\* the name of its Replication stays there until the call.
DeleteOK == pc = "delete" => ownedBySource(rep) /\ ~rep.deleting

\* Whatever happens between the worker's look and its call.
LEMMA DeleteStep ==
    ASSUME StaleReads = FALSE, HandshakeInv, DeleteOK, [Next]_vars
    PROVE  DeleteOK'
<1>1. CASE UNCHANGED vars
  BY <1>1 DEF vars, DeleteOK, ownedBySource
<1>2. CASE Reconcile
  <2>1. ASSUME pc' = "delete" PROVE Release /\ Goto("delete") /\ ownedBySource(rep) /\ ~rep.deleting
    BY <1>2, <2>1 DEF Reconcile, StartReconcile, AddFinalizer, Resolve, GetReplication,
       CreateReplication, UpdateReplication, ReportTargetResolution, UpdateStatus, Release,
       DeleteReplication, RemoveFinalizer, Return, ReturnNil, ReturnError, Goto, HandshakeInv,
       CachesOK
  <2> QED
    BY <2>1 DEF DeleteOK, Release, hubVars, ownedBySource
<1>3. CASE CreateSource \/ Annotate \/ DeleteSource
  BY <1>3, StoreSourceNow DEF CreateSource, Annotate, DeleteSource, OthersStoreSource, DeleteOK,
     ownedBySource
<1>4. CASE EngineClaim
  <2> DEFINE q == [rep EXCEPT !.finalizer = TRUE]
  <2>1. q.exists = rep.exists /\ q.owner = rep.owner /\ q.deleting = rep.deleting
    BY DEF Replications, HandshakeInv, RecordsOK
  <2>2. OthersStoreRep(q)
    BY <1>4 DEF EngineClaim
  <2> HIDE DEF q
  <2> QED
    BY <2>1, <2>2, StoreRepNow DEF OthersStoreRep, DeleteOK, ownedBySource
<1>5. CASE OccupyName \/ EngineDrain \/ OwnerGC
  <2>1. pc # "delete"
    BY <1>5 DEF OccupyName, EngineDrain, OwnerGC, DeleteOK, ownedBySource, HandshakeInv, OwnerOK
  <2> QED
    BY <1>5, <2>1 DEF OccupyName, EngineDrain, OwnerGC, OthersStoreRep, DeleteOK
<1>6. CASE EngineSync \/ EditPolicies \/ ChangeFleet \/ ProviderSync \/ Remap
  BY <1>6 DEF EngineSync, EditPolicies, ChangeFleet, ProviderSync, Remap, hubVars, DeleteOK,
     ownedBySource
<1>7. CASE Restart
  BY <1>7 DEF Restart, Return, DeleteOK
<1>8. CASE SyncSource \/ SyncReplication
  BY <1>8 DEF SyncSource, SyncReplication, HandshakeInv, CachesOK
<1> QED
  BY <1>1, <1>2, <1>3, <1>4, <1>5, <1>6, <1>7, <1>8 DEF Next, Others, Users, Idle

\* A call of the worker keeps a Replication without owner.
LEMMA HandAuthoredStep ==
    ASSUME StaleReads = FALSE, HandshakeInv, DeleteOK, Reconcile, rep.exists, rep.owner = 0
    PROVE  rep' = [rep EXCEPT !.cond = rep'.cond]
<1>0. rep \in Replications
  BY DEF HandshakeInv, RecordsOK
<1>1. CASE rep' = rep
  BY <1>0, <1>1 DEF Replications
<1>2. CASE StartReconcile \/ Resolve \/ GetReplication \/ ReportTargetResolution \/ Release
  BY <1>1, <1>2 DEF StartReconcile, Resolve, GetReplication, ReportTargetResolution, Release,
     hubVars
<1>3. CASE ReturnNil \/ ReturnError
  BY <1>1, <1>3 DEF ReturnNil, ReturnError, hubVars
<1>4. CASE (AddFinalizer \/ RemoveFinalizer) /\ ~ReturnError
  <2>1. \E o : StoreSource(o)
    BY <1>4 DEF AddFinalizer, RemoveFinalizer
  <2> QED
    BY <1>1, <2>1, StoreSourceNow
<1>5. CASE CreateReplication /\ ~ReturnNil
  BY <1>5 DEF CreateReplication
<1>6. CASE UpdateReplication /\ ~ReturnError
  BY <1>6 DEF UpdateReplication, HandshakeInv, RepCopyOK, ownedBySource
<1>7. CASE UpdateStatus /\ ~ReturnError
  <2>1. copy = rep /\ StoreRep([rep EXCEPT !.cond = conditionFor(resolved)])
    BY <1>7 DEF UpdateStatus, HandshakeInv, RepCopyOK
  <2>2. rep' = [rep EXCEPT !.cond = conditionFor(resolved)]
    BY <2>1 DEF StoreRep
  <2>3. rep'.cond = conditionFor(resolved)
    BY <1>0, <2>2 DEF Replications
  <2> QED
    BY <2>2, <2>3
<1>8. CASE DeleteReplication
  BY <1>8 DEF DeleteReplication, DeleteOK, ownedBySource
<1> QED
  BY <1>2, <1>3, <1>4, <1>5, <1>6, <1>7, <1>8 DEF Reconcile

\* Hands off what it does not own.  A Replication under the derived name that
\* carries no source UID is never updated, taken over or deleted by the worker,
\* although its delete call has no precondition, provided hub reads are current:
\* the owned object it looked at cannot have made way for another in between.
THEOREM HandAuthoredRespected ==
    ASSUME StaleReads = FALSE
    PROVE  Spec => HandsOff
<1> DEFINE I == HandshakeInv /\ DeleteOK
<1>1. Init => I
  BY HandshakeInit DEF Init, DeleteOK
<1>2. I /\ [Next]_vars => I'
  BY HandshakeStep, DeleteStep
<1>3. I /\ [Next]_vars => [HandAuthoredKept]_vars
  BY HandAuthoredStep DEF HandAuthoredKept
<1> QED
  BY <1>1, <1>2, <1>3, PTL DEF Spec, HandsOff

=============================================================================
