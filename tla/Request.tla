------------------------------ MODULE Request ------------------------------
(***************************************************************************)
(* The request controller (internal/controller/request/controller.go): the *)
(* worker that turns the annotations of ONE source object into an          *)
(* operator-owned Replication with resolved targets, and the finalizer     *)
(* handshake that takes both down again.                                   *)
(*                                                                         *)
(* A step is one call to the API server or one read of a cache, with the   *)
(* computation up to the next one.  Triggers are modelled as the code sets *)
(* them up: the worker runs only when a source event, a Replication event, *)
(* a policy event or an inventory change has put the source on its queue.  *)
(*                                                                         *)
(* Environment: users annotate, delete and recreate the source and occupy  *)
(* the Replication's name; clusters become ready and unready; policies     *)
(* change; the operator restarts.  The engine is reduced to its finalizer  *)
(* and to the source UIDs that have replicas; module Engine has the rest.  *)
(***************************************************************************)
EXTENDS Policy, Naturals

CONSTANTS
    Annotations,      \* the annotation states of the source, see below
    Clusters,         \* the clusters that discovery may report
    ClusterLabels,    \* their labels
    PolicySets,       \* the sets of ReplicationPolicy objects that may exist
    Src,              \* the source as Policy sees it
    MaxUID,           \* how many incarnations of the source there may be
    StaleReads,       \* TRUE: the hub caches may lag behind the API server
    Disturbances,     \* the kinds of environment steps that happen
    MaxDisturbances   \* how many of them

\* What the annotations say: no request key at all; request keys without the
\* opt-in; an opt-in that does not parse; a request.  Empty namespaces stand for
\* an absent target-namespaces annotation.
AnnotationStates == {"none", "staged", "invalid", "valid"}

ASSUME AnnotationsAssumption ==
    /\ \A a \in Annotations :
          /\ DOMAIN a = {"state", "selector", "namespaces"}
          /\ a.state \in AnnotationStates
    /\ \E a \in Annotations : a.state = "none"

ASSUME BoundsAssumption ==
    /\ MaxUID \in Nat \ {0}
    /\ MaxDisturbances \in Nat
    /\ StaleReads \in BOOLEAN

VARIABLES
    \* hub
    source,     \* the source object in the API server
    rep,        \* the object with the Replication's name
    srcSeen,    \* the metadata informer's copy of the source
    repSeen,    \* the Replication informer's copy
    policies,   \* the ReplicationPolicy objects
    replicas,   \* the source UIDs that have replicas on spokes
    \* discovery
    ready,      \* the clusters that are ready
    listed,     \* the ready clusters in the provider's inventory
    \* the operator process
    enabled,    \* the kind is on the allowlist (a start-up flag)
    queued,     \* the source is on the controller's queue
    trigger,    \* a policy event or an inventory trigger is pending
    pc,         \* the next call of the worker
    obj,        \* its copy of the source
    objFresh,   \* that copy has the current resourceVersion
    resolved,   \* the targets it resolved and those policy denied
    copy,       \* its copy of the Replication
    copyFresh,  \* that copy has the current resourceVersion
    gaveUp,     \* the last reconcile found the name occupied
    budget      \* disturbances left

hubVars   == <<source, rep, srcSeen, repSeen, policies, replicas>>
fleetVars == <<ready, listed>>
workVars  == <<obj, objFresh, resolved, copy, copyFresh>>
vars == <<source, rep, srcSeen, repSeen, policies, replicas, ready, listed, enabled,
          queued, trigger, pc, obj, objFresh, resolved, copy, copyFresh, gaveUp, budget>>

-----------------------------------------------------------------------------
\* Types

UIDs == 1..MaxUID

Namespaces == {Src.namespace} \cup UNION {a.namespaces : a \in Annotations}

Targets == [cluster : Clusters, namespace : Namespaces]

Sources == [exists : BOOLEAN, uid : UIDs \cup {0}, ann : Annotations,
            finalizer : BOOLEAN, deleting : BOOLEAN]

NoAnnotation == CHOOSE a \in Annotations : a.state = "none"

NoSource(u) == [exists |-> FALSE, uid |-> u, ann |-> NoAnnotation,
                finalizer |-> FALSE, deleting |-> FALSE]

Conditions == {"Unset", "TargetsResolved", "PolicyDenied", "NoTargets"}

\* owner is the UID in the controller reference and in spec.sourceRef, 0 for a
\* hand-authored object, which also lacks the operator's labels.
Replications ==
    [exists : BOOLEAN, owner : UIDs \cup {0}, deleting : BOOLEAN, finalizer : BOOLEAN,
     targets : SUBSET Targets, cond : Conditions]

NoRep == [exists |-> FALSE, owner |-> 0, deleting |-> FALSE, finalizer |-> FALSE,
          targets |-> {}, cond |-> "Unset"]

NoResult == [allowed |-> {}, denied |-> {}]

TypeOK ==
    /\ source \in Sources
    /\ rep \in Replications
    /\ srcSeen \in [val : Sources, fresh : BOOLEAN]
    /\ repSeen \in [val : Replications, fresh : BOOLEAN]
    /\ policies \in PolicySets
    /\ replicas \subseteq UIDs
    /\ ready \subseteq Clusters
    /\ listed \subseteq Clusters
    /\ {enabled, queued, trigger, objFresh, copyFresh, gaveUp} \subseteq BOOLEAN
    /\ pc \in {"idle", "finalizer", "resolve", "get", "create", "update", "report",
               "status", "release", "delete", "unfinalize"}
    /\ obj \in Sources
    /\ resolved \in [allowed : SUBSET Targets, denied : SUBSET Targets]
    /\ copy \in Replications
    /\ budget \in 0..MaxDisturbances

Init ==
    /\ source = NoSource(0)
    /\ rep = NoRep
    /\ srcSeen = [val |-> source, fresh |-> TRUE]
    /\ repSeen = [val |-> rep, fresh |-> TRUE]
    /\ policies \in PolicySets
    /\ replicas = {}
    /\ ready = Clusters
    /\ listed = Clusters
    /\ enabled = TRUE
    /\ queued = FALSE
    /\ trigger = FALSE
    /\ pc = "idle"
    /\ obj = NoSource(0)
    /\ objFresh = FALSE
    /\ resolved = NoResult
    /\ copy = NoRep
    /\ copyFresh = FALSE
    /\ gaveUp = FALSE
    /\ budget = MaxDisturbances

-----------------------------------------------------------------------------
\* Events.  An informer hands the old and the new object to the handlers.

HasRequest(ann) == ann.state # "none"

Replicates(ann) == ann.state \in {"invalid", "valid"}

\* sourcePredicate; the deletion of a source is no event.
relevant(o) == o.exists /\ (HasRequest(o.ann) \/ o.finalizer)

sourceEvent(old, new) == new.exists /\ (relevant(old) \/ relevant(new))

\* Mutant: whatever has the name is the source's.
OwnsTheName(r) == r.exists

\* mapReplicationToSource, and mapAllSources, which lists by label in the cache.
\* Both go by the owner's name, whatever its UID.
ownedBySource(r) == r.exists /\ r.owner # 0

\* Mutant: the deletion of the Replication is no event.
MapLiveOnly(old, new) == ownedBySource(new)

mapReplicationToSource(old, new) == ownedBySource(old) \/ ownedBySource(new)

mapAllSources == ownedBySource(repSeen.val)

\* The API server stores an object; the informer delivers it later, or at once
\* when hub reads are never stale.
StoreSource(o) ==
    /\ source' = o
    /\ IF StaleReads
       THEN srcSeen' = [srcSeen EXCEPT !.fresh = FALSE] /\ UNCHANGED queued
       ELSE /\ srcSeen' = [val |-> o, fresh |-> TRUE]
            /\ queued' = (queued \/ (enabled /\ sourceEvent(source, o)))
    /\ UNCHANGED <<rep, repSeen, policies, replicas>>

StoreRep(r) ==
    /\ rep' = r
    /\ IF StaleReads
       THEN repSeen' = [repSeen EXCEPT !.fresh = FALSE] /\ UNCHANGED queued
       ELSE /\ repSeen' = [val |-> r, fresh |-> TRUE]
            /\ queued' = (queued \/ (enabled /\ mapReplicationToSource(rep, r)))
    /\ UNCHANGED <<source, srcSeen, policies>>

\* A delete call: an object with finalizers stays until they are gone.
Deleted(r) == IF r.finalizer THEN [r EXCEPT !.deleting = TRUE] ELSE NoRep

-----------------------------------------------------------------------------
\* Reconcile

Return ==
    /\ pc' = "idle"
    /\ obj' = NoSource(0)
    /\ objFresh' = FALSE
    /\ resolved' = NoResult
    /\ copy' = NoRep
    /\ copyFresh' = FALSE

Goto(step) == pc' = step /\ UNCHANGED workVars

\* An error puts the source back on the queue.
ReturnError == Return /\ queued' = TRUE /\ UNCHANGED hubVars

ReturnNil == Return /\ UNCHANGED <<queued, hubVars>>

processUnchanged == <<fleetVars, enabled, trigger, gaveUp, budget>>

\* The cached read and the early returns: the source is gone, its annotations
\* are malformed.  A kind that is not enabled has no controller.
StartReconcile ==
    /\ pc = "idle"
    /\ queued /\ enabled
    /\ queued' = FALSE
    /\ gaveUp' = FALSE
    /\ LET o == srcSeen.val
           read(step) == /\ pc' = step /\ obj' = o /\ objFresh' = srcSeen.fresh
                         /\ UNCHANGED <<resolved, copy, copyFresh>>
       IN  \/ ~o.exists /\ Return
           \/ o.exists /\ (o.deleting \/ ~Replicates(o.ann)) /\ read("release")
           \/ /\ o.exists /\ ~o.deleting
              /\ \/ o.ann.state = "invalid" /\ Return
                 \/ o.ann.state = "valid" /\ read(IF o.finalizer THEN "resolve" ELSE "finalizer")
    /\ UNCHANGED <<hubVars, fleetVars, enabled, trigger, budget>>

\* materialize, first half: a patch with an optimistic lock.
AddFinalizer ==
    /\ pc = "finalizer"
    /\ \/ /\ objFresh
          /\ StoreSource([obj EXCEPT !.finalizer = TRUE])
          /\ obj' = [obj EXCEPT !.finalizer = TRUE]
          /\ pc' = "resolve"
          /\ UNCHANGED <<objFresh, resolved, copy, copyFresh>>
       \/ ~objFresh /\ ReturnError
    /\ UNCHANGED processUnchanged

EffectiveNamespaces(ann) == IF ann.namespaces = {} THEN {Src.namespace} ELSE ann.namespaces

\* The candidates: listed clusters that the selector matches, in every namespace.
Candidates(ann) ==
    {t \in Targets : /\ t.cluster \in listed
                     /\ ClusterLabels[t.cluster] \in ann.selector
                     /\ t.namespace \in EffectiveNamespaces(ann)}

Allowed(t) ==
    decide(Src, [cluster |-> t.cluster, labels |-> ClusterLabels[t.cluster],
                 namespace |-> t.namespace], policies).allowed

resolveTargets(ann) ==
    [allowed |-> {t \in Candidates(ann) : Allowed(t)},
     denied  |-> {t \in Candidates(ann) : ~Allowed(t)}]

Resolve ==
    /\ pc = "resolve"
    /\ resolved' = resolveTargets(obj.ann)
    /\ pc' = "get"
    /\ UNCHANGED <<hubVars, queued, obj, objFresh, copy, copyFresh, processUnchanged>>

desiredReplication ==
    [NoRep EXCEPT !.exists = TRUE, !.owner = obj.uid, !.targets = resolved.allowed]

specEqual(r) == r.targets = resolved.allowed /\ r.owner = obj.uid

\* The cached read of the Replication and what follows from it.
GetReplication ==
    /\ pc = "get"
    /\ LET r == repSeen.val
       IN  \/ ~r.exists /\ Goto("create") /\ UNCHANGED gaveUp
           \/ r.exists /\ ~ownedBySource(r) /\ Return /\ gaveUp' = TRUE
           \/ /\ ownedBySource(r)
              /\ pc' = IF specEqual(r) THEN "report" ELSE "update"
              /\ copy' = r
              /\ copyFresh' = repSeen.fresh
              /\ UNCHANGED <<obj, objFresh, resolved, gaveUp>>
    /\ UNCHANGED <<hubVars, queued, fleetVars, enabled, trigger, budget>>

CreateReplication ==
    /\ pc = "create"
    /\ \/ /\ ~rep.exists
          /\ StoreRep(desiredReplication)
          /\ UNCHANGED <<replicas, gaveUp>>
          /\ Goto("report")
       \/ rep.exists /\ ReturnNil /\ gaveUp' = TRUE
    /\ UNCHANGED <<fleetVars, enabled, trigger, budget>>

UpdateReplication ==
    /\ pc = "update"
    /\ \/ /\ copyFresh
          /\ StoreRep([copy EXCEPT !.owner = obj.uid, !.targets = resolved.allowed])
          /\ UNCHANGED replicas
          /\ Goto("report")
       \/ ~copyFresh /\ ReturnError
    /\ UNCHANGED processUnchanged

\* Mutant: a denial is reported like an empty selection.
VagueCondition(result) == IF result.allowed # {} THEN "TargetsResolved" ELSE "NoTargets"

conditionFor(result) ==
    CASE result.allowed # {} -> "TargetsResolved"
      [] result.allowed = {} /\ result.denied # {} -> "PolicyDenied"
      [] OTHER -> "NoTargets"

\* reportTargetResolution: a second cached read, then a status write if the
\* condition changes.
ReportTargetResolution ==
    /\ pc = "report"
    /\ LET r == repSeen.val
       IN  \/ (~r.exists \/ r.cond = conditionFor(resolved)) /\ Return
           \/ /\ r.exists /\ r.cond # conditionFor(resolved)
              /\ pc' = "status"
              /\ copy' = r
              /\ copyFresh' = repSeen.fresh
              /\ UNCHANGED <<obj, objFresh, resolved>>
    /\ UNCHANGED <<hubVars, queued, processUnchanged>>

UpdateStatus ==
    /\ pc = "status"
    /\ \/ /\ copyFresh
          /\ StoreRep([copy EXCEPT !.cond = conditionFor(resolved)])
          /\ UNCHANGED replicas
          /\ Return
       \/ ~copyFresh /\ ReturnError
    /\ UNCHANGED processUnchanged

\* Mutant: the source is released as soon as the Replication is being deleted.
ReleaseEarly ==
    /\ pc = "release"
    /\ LET r == repSeen.val
       IN  \/ ownedBySource(r) /\ ~r.deleting /\ Goto("delete")
           \/ (~ownedBySource(r) \/ r.deleting) /\ obj.finalizer /\ Goto("unfinalize")
           \/ (~ownedBySource(r) \/ r.deleting) /\ ~obj.finalizer /\ Return
    /\ UNCHANGED <<hubVars, queued, processUnchanged>>

\* release: the Replication goes first; only when it is gone the finalizer.
Release ==
    /\ pc = "release"
    /\ LET r == repSeen.val
       IN  \/ ownedBySource(r) /\ ~r.deleting /\ Goto("delete")
           \/ ownedBySource(r) /\ r.deleting /\ Return
           \/ ~ownedBySource(r) /\ obj.finalizer /\ Goto("unfinalize")
           \/ ~ownedBySource(r) /\ ~obj.finalizer /\ Return
    /\ UNCHANGED <<hubVars, queued, processUnchanged>>

\* The delete carries no precondition.
DeleteReplication ==
    /\ pc = "delete"
    /\ \/ rep.exists /\ ~rep.deleting /\ StoreRep(Deleted(rep)) /\ UNCHANGED replicas
       \/ ~(rep.exists /\ ~rep.deleting) /\ UNCHANGED <<hubVars, queued>>
    /\ Return
    /\ UNCHANGED processUnchanged

\* Mutant: the patch carries no resourceVersion.
RemoveFinalizerBlind ==
    /\ pc = "unfinalize"
    /\ StoreSource(IF obj.deleting THEN NoSource(obj.uid) ELSE [obj EXCEPT !.finalizer = FALSE])
    /\ Return
    /\ UNCHANGED processUnchanged

\* A source that is being deleted goes with its last finalizer.
RemoveFinalizer ==
    /\ pc = "unfinalize"
    /\ \/ /\ objFresh
          /\ StoreSource(IF obj.deleting THEN NoSource(obj.uid)
                                         ELSE [obj EXCEPT !.finalizer = FALSE])
          /\ Return
       \/ ~objFresh /\ ReturnError
    /\ UNCHANGED processUnchanged

Reconcile ==
    \/ StartReconcile \/ AddFinalizer \/ Resolve \/ GetReplication
    \/ CreateReplication \/ UpdateReplication \/ ReportTargetResolution \/ UpdateStatus
    \/ Release \/ DeleteReplication \/ RemoveFinalizer

-----------------------------------------------------------------------------
\* Delivery

SyncSource ==
    /\ ~srcSeen.fresh
    /\ srcSeen' = [val |-> source, fresh |-> TRUE]
    /\ queued' = (queued \/ (enabled /\ sourceEvent(srcSeen.val, source)))
    /\ UNCHANGED <<source, rep, repSeen, policies, replicas, fleetVars, enabled, trigger,
                   pc, workVars, gaveUp, budget>>

SyncReplication ==
    /\ ~repSeen.fresh
    /\ repSeen' = [val |-> rep, fresh |-> TRUE]
    /\ queued' = (queued \/ (enabled /\ mapReplicationToSource(repSeen.val, rep)))
    /\ UNCHANGED <<source, rep, srcSeen, policies, replicas, fleetVars, enabled, trigger,
                   pc, workVars, gaveUp, budget>>

\* The provider learns of a cluster and notifies the request controller; the
\* notification coalesces with a pending one.
ProviderSync ==
    /\ \E c \in (ready \ listed) \cup (listed \ ready) :
          listed' = IF c \in ready THEN listed \cup {c} ELSE listed \ {c}
    /\ trigger' = TRUE
    /\ UNCHANGED <<hubVars, ready, enabled, queued, pc, workVars, gaveUp, budget>>

\* Mutant: a trigger that finds the worker busy is dropped.
RemapWhenIdle ==
    /\ trigger
    /\ trigger' = FALSE
    /\ queued' = (queued \/ (pc = "idle" /\ enabled /\ mapAllSources))
    /\ UNCHANGED <<hubVars, fleetVars, enabled, pc, workVars, gaveUp, budget>>

\* A pending trigger reaches the event handler.
Remap ==
    /\ trigger
    /\ trigger' = FALSE
    /\ queued' = (queued \/ (enabled /\ mapAllSources))
    /\ UNCHANGED <<hubVars, fleetVars, enabled, pc, workVars, gaveUp, budget>>

-----------------------------------------------------------------------------
\* The engine and the API server's garbage collector

\* Another writer: the worker's copies become stale.
OthersStoreRep(r) ==
    /\ StoreRep(r)
    /\ copyFresh' = FALSE
    /\ UNCHANGED <<fleetVars, enabled, trigger, pc, obj, objFresh, resolved, copy, gaveUp>>

EngineClaim ==
    /\ ownedBySource(rep) /\ ~rep.deleting /\ ~rep.finalizer
    /\ OthersStoreRep([rep EXCEPT !.finalizer = TRUE])
    /\ UNCHANGED <<replicas, budget>>

\* Replicas carry the UID in the spec; those of another UID are in the way.
EngineSync ==
    /\ ownedBySource(rep) /\ ~rep.deleting /\ rep.finalizer
    /\ enabled /\ source.exists /\ source.uid = rep.owner
    /\ replicas \subseteq {rep.owner}
    /\ replicas' = IF rep.targets = {} THEN {} ELSE {rep.owner}
    /\ replicas' # replicas
    /\ UNCHANGED <<source, rep, srcSeen, repSeen, policies, fleetVars, enabled, queued,
                   trigger, pc, workVars, gaveUp, budget>>

\* Only replicas of the UID in the spec are deleted; others are released.
EngineDrain ==
    /\ rep.exists /\ rep.deleting /\ rep.finalizer
    /\ enabled
    /\ replicas' = replicas \ {rep.owner}
    /\ OthersStoreRep(NoRep)
    /\ UNCHANGED budget

\* Kubernetes deletes objects whose owner is gone.
OwnerGC ==
    /\ ownedBySource(rep) /\ ~rep.deleting
    /\ ~(source.exists /\ source.uid = rep.owner)
    /\ OthersStoreRep(Deleted(rep))
    /\ UNCHANGED <<replicas, budget>>

-----------------------------------------------------------------------------
\* Users, administrators, the fleet

Disturb(kind) ==
    /\ kind \in Disturbances
    /\ budget > 0
    /\ budget' = budget - 1

OthersStoreSource(o) ==
    /\ StoreSource(o)
    /\ objFresh' = FALSE
    /\ UNCHANGED <<fleetVars, enabled, trigger, pc, obj, resolved, copy, copyFresh, gaveUp>>

CreateSource ==
    /\ Disturb("create")
    /\ ~source.exists
    /\ source.uid < MaxUID
    /\ \E a \in Annotations :
          OthersStoreSource([NoSource(source.uid + 1) EXCEPT !.exists = TRUE, !.ann = a])

Annotate ==
    /\ Disturb("annotate")
    /\ source.exists
    /\ \E a \in Annotations \ {source.ann} : OthersStoreSource([source EXCEPT !.ann = a])

DeleteSource ==
    /\ Disturb("delete")
    /\ source.exists /\ ~source.deleting
    /\ OthersStoreSource(IF source.finalizer THEN [source EXCEPT !.deleting = TRUE]
                                             ELSE NoSource(source.uid))

\* A hand-authored Replication takes or leaves the name.
OccupyName ==
    /\ Disturb("occupy")
    /\ \/ ~rep.exists /\ OthersStoreRep([NoRep EXCEPT !.exists = TRUE])
       \/ rep.exists /\ rep.owner = 0 /\ OthersStoreRep(NoRep)
    /\ UNCHANGED replicas

EditPolicies ==
    /\ Disturb("policies")
    /\ \E P \in PolicySets \ {policies} : policies' = P
    /\ trigger' = TRUE
    /\ UNCHANGED <<source, rep, srcSeen, repSeen, replicas, fleetVars, enabled, queued, pc,
                   workVars, gaveUp>>

ChangeFleet ==
    /\ Disturb("fleet")
    /\ \E c \in Clusters : ready' = IF c \in ready THEN ready \ {c} ELSE ready \cup {c}
    /\ UNCHANGED <<hubVars, listed, enabled, queued, trigger, pc, workVars, gaveUp>>

\* The process is replaced: caches are filled and their objects delivered as
\* new before the controllers start, the inventory starts empty, and the
\* allowlist may differ.
Restart ==
    /\ Disturb("restart")
    /\ Return
    /\ enabled' \in (IF "allowlist" \in Disturbances THEN BOOLEAN ELSE {TRUE})
    /\ srcSeen' = [val |-> source, fresh |-> TRUE]
    /\ repSeen' = [val |-> rep, fresh |-> TRUE]
    /\ queued' = (enabled' /\ (relevant(source) \/ ownedBySource(rep)))
    /\ trigger' = FALSE
    /\ listed' = {}
    /\ gaveUp' = FALSE
    /\ UNCHANGED <<source, rep, policies, replicas, ready>>

\* The worker waits for an event.
Idle == pc = "idle" /\ UNCHANGED vars

Others ==
    \/ SyncSource \/ SyncReplication \/ ProviderSync \/ Remap
    \/ EngineClaim \/ EngineSync \/ EngineDrain \/ OwnerGC

Users ==
    \/ CreateSource \/ Annotate \/ DeleteSource \/ OccupyName
    \/ EditPolicies \/ ChangeFleet \/ Restart

Next == Reconcile \/ Others \/ Users \/ Idle

Spec == Init /\ [][Next]_vars

\* The queue is served, informers and the discovery watch deliver, the engine
\* and the garbage collector do their work.  Nothing else wakes the worker: the
\* ten-hourly resync of the informers is left out.
Fairness ==
    /\ WF_vars(Reconcile)
    /\ WF_vars(SyncSource) /\ WF_vars(SyncReplication)
    /\ WF_vars(ProviderSync) /\ WF_vars(Remap)
    /\ WF_vars(EngineClaim) /\ WF_vars(EngineSync) /\ WF_vars(EngineDrain)
    /\ WF_vars(OwnerGC)

FairSpec == Spec /\ Fairness

-----------------------------------------------------------------------------
\* Properties

\* The handshake: while replicas of a source or its Replication exist, the
\* source exists and carries the operator's finalizer, so that a deletion of
\* the source waits for them.
SourceOutlivesReplicas ==
    \A u \in replicas \cup (IF rep.exists THEN {rep.owner} \ {0} ELSE {}) :
        source.exists /\ source.uid = u /\ source.finalizer

\* What a write of the worker may do to the objects that are stored at that
\* moment: add its finalizer to a living source or remove it, or complete a
\* deletion that waited for it; and keep the engine's finalizer and a pending
\* deletion of the Replication.
WorkerWrites ==
    Reconcile =>
        /\ source' # source =>
              /\ source.exists
              /\ \/ /\ ~source.finalizer /\ ~source.deleting
                    /\ source' = [source EXCEPT !.finalizer = TRUE]
                 \/ /\ source.finalizer /\ ~source.deleting
                    /\ source' = [source EXCEPT !.finalizer = FALSE]
                 \/ source.finalizer /\ source.deleting /\ source' = NoSource(source.uid)
        /\ rep' # rep /\ rep.exists =>
              \/ rep'.exists /\ rep'.finalizer = rep.finalizer /\ (rep.deleting => rep'.deleting)
              \/ rep' = NoRep /\ ~rep.finalizer

\* No lost updates: its writes change nothing but that, so that an edit of the
\* annotations, a deletion or the engine's finalizer that came after the worker
\* read its copies is never undone.
NoLostUpdates == [][WorkerWrites]_vars

HandAuthoredKept ==
    Reconcile /\ rep.exists /\ rep.owner = 0 => rep' = [rep EXCEPT !.cond = rep'.cond]

\* The worker writes no more than a condition to a Replication that somebody wrote
\* by hand under the name it derives, also when that took the place of its own
\* while it was at work, and although its delete call has no precondition.
HandsOff == [][HandAuthoredKept]_vars

Requesting == source.exists /\ ~source.deleting /\ source.ann.state = "valid"

Releasing == ~source.exists \/ source.deleting \/ ~Replicates(source.ann)

\* Once disturbances cease, a standing request has a Replication of its own whose
\* targets are those it resolves to now, unless the name was occupied.
Materialized ==
    Requesting /\ enabled /\ ~gaveUp =>
        /\ rep.exists /\ ~rep.deleting
        /\ rep.owner = source.uid
        /\ rep.targets = resolveTargets(source.ann).allowed

MaterializeCompletes == <>[]Materialized

\* Once disturbances cease, a request that was withdrawn or whose source was
\* deleted leaves nothing behind: no replica, no Replication, no finalizer.
Released ==
    Releasing /\ enabled =>
        replicas = {} /\ ~ownedBySource(rep) /\ ~source.finalizer /\ ~source.deleting

ReleaseCompletes == <>[]Released

\* Once disturbances cease, TargetsResolved tells apart targets, a denial by
\* policy and an empty selection.
Reported ==
    Requesting /\ enabled /\ ~gaveUp =>
        /\ rep.cond = "NoTargets" <=> Candidates(source.ann) = {}
        /\ rep.cond = "PolicyDenied" <=>
              Candidates(source.ann) # {} /\ \A t \in Candidates(source.ann) : ~Allowed(t)
        /\ rep.cond # "Unset"

ResolutionReported == <>[]Reported

=============================================================================
