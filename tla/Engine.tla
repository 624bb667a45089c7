------------------------------- MODULE Engine -------------------------------
(***************************************************************************)
(* The replication engine (internal/engine/reconciler.go): the worker that *)
(* drives the replicas of ONE Replication object on the spoke clusters.    *)
(*                                                                         *)
(* A step is one call to an API server together with the computation up to *)
(* the next call, so the environment interleaves exactly where it can in   *)
(* the program, and Crash may fall between any two calls.                  *)
(*                                                                         *)
(* Environment: users and the request controller edit the Replication, the *)
(* source and the policies; clusters join, leave and become unreachable;   *)
(* other actors create, edit and delete objects on the spokes.  Disturbances*)
(* selects which of these happen and MaxDisturbances bounds how often.     *)
(*                                                                         *)
(* Data: a payload is a member of Contents and equals its own hash; the    *)
(* UIDs, labels and names are those of Conflict and Policy.  Slots are     *)
(* visited in any order (the code follows spec.resolvedTargets).           *)
(***************************************************************************)
EXTENDS Policy, Conflict, Naturals

CONSTANTS
    Slots,            \* [cluster, namespace, name] triples a replica can have
    NoSlot,           \* not a slot
    Contents,         \* payloads
    PolicySets,       \* the sets of ReplicationPolicy objects that may exist
    Src,              \* the source as Policy sees it
    ClusterLabels,    \* labels of each discovered cluster
    NoLabels,         \* labels of a cluster that discovery does not know
    ForeignObjects,   \* objects other actors create on a spoke
    InitNamespaces,   \* (cluster, namespace) pairs that exist initially
    InitTargets,      \* targets the Replication may have
    Requested,        \* conflict policies the source may ask for
    StaleReads,       \* TRUE: the hub cache may lag behind the API server
    Disturbances,     \* the kinds of environment steps that happen
    MaxDisturbances   \* how many of them

Clusters == {s.cluster : s \in Slots}

KeyOf(s) == [cluster |-> s.cluster, namespace |-> s.namespace]

Keys == {KeyOf(s) : s \in Slots}

PolicyNames == {p.name : p \in UNION PolicySets}

ASSUME ContentsAssumption ==
    /\ Contents \cap {"none", "planned"} = {}
    /\ Contents # {}

ASSUME SlotsAssumption ==
    /\ NoSlot \notin Slots
    /\ InitTargets \subseteq SUBSET Slots
    /\ InitNamespaces \subseteq Keys
    /\ Requested \subseteq ConflictPolicies

\* No other actor forges the UID of the source.
ASSUME ForeignAssumption ==
    /\ ForeignObjects \subseteq Objects(Contents) \ {NoObj}
    /\ \A o \in ForeignObjects : o.uid # "self"

ASSUME BoundsAssumption ==
    /\ MaxDisturbances \in Nat
    /\ StaleReads \in BOOLEAN

VARIABLES
    \* hub
    rep,          \* the Replication object in the API server
    cache,        \* the informer's copy and whether it is current
    source,       \* the source object
    policies,     \* the ReplicationPolicy objects
    \* clusters
    fleet,        \* the clusters that exist
    known,        \* the discovery provider's records
    link,         \* what a call to a spoke meets
    namespaces,   \* existing target namespaces
    obj,          \* the object at each slot
    \* the engine process
    kindAllowed,  \* the source kind is on the allowlist (a start-up flag)
    lastResult,   \* lastResults: permitting policies per target key
    pc,           \* the next call of the worker
    my,           \* its copy of the Replication
    fresh,        \* that copy has the current resourceVersion
    snap,         \* the source and the policies it read
    inv,          \* the working inventory
    keep,         \* slots garbage collection must not touch
    todo,         \* slots the current loop has not visited
    cur,          \* the slot being visited
    seen,         \* the object the last Get of cur returned
    states,       \* the non-ready outcomes so far
    \* bookkeeping of the model
    released,     \* slots released with a ClusterGone event
    budget        \* disturbances left

hubVars    == <<rep, cache>>
inputVars  == <<source, policies>>
spokeVars  == <<fleet, known, link, namespaces, obj>>
procVars   == <<kindAllowed, lastResult>>
workVars   == <<my, fresh, snap, inv, keep, todo, cur, seen, states>>
vars == <<rep, cache, source, policies, fleet, known, link, namespaces, obj,
          kindAllowed, lastResult, pc, my, fresh, snap, inv, keep, todo, cur,
          seen, states, released, budget>>

-----------------------------------------------------------------------------
\* Types

\* An inventory maps a slot to "none" (no entry), "planned" (an entry without a
\* LastAppliedHash) or the last applied hash.
Entries == Contents \cup {"none", "planned"}

Inventories == [Slots -> Entries]

NoInventory == [s \in Slots |-> "none"]

hasEntry(i, s) == i[s] # "none"

Reasons == {"Conflict", "PolicyRevoked", "PolicyDenied", "NamespaceMissing",
            "ClusterUnreachable", "ApplyFailed", "SourceMissing"}

\* A non-ready target; gc marks an outcome of garbage collection.
TargetStates == [slot : Slots \cup {NoSlot}, reason : Reasons, gc : BOOLEAN]

ReadyReasons == Reasons \cup {"Unset", "AllTargetsReady", "NoTargets", "NotAuthoritative"}

\* stamp stands for the LastTransitionTimes: it flips when one is renewed.
Replications ==
    [exists : BOOLEAN, owned : BOOLEAN, deleting : BOOLEAN, finalizer : BOOLEAN,
     targets : SUBSET Slots, inv : Inventories, ready : ReadyReasons,
     revoked : BOOLEAN, nonReady : SUBSET TargetStates, stamp : BOOLEAN]

Created(T, owned) ==
    [exists |-> TRUE, owned |-> owned, deleting |-> FALSE, finalizer |-> FALSE,
     targets |-> T, inv |-> NoInventory, ready |-> "Unset", revoked |-> FALSE,
     nonReady |-> {}, stamp |-> FALSE]

Gone == [Created({}, TRUE) EXCEPT !.exists = FALSE]

NoSnap == [content |-> "none", requested |-> "Fail", policies |-> {}]

TypeOK ==
    /\ rep \in Replications
    /\ cache \in [rep : Replications, fresh : BOOLEAN]
    /\ source \in [present : BOOLEAN, content : Contents, requested : ConflictPolicies]
    /\ policies \in PolicySets
    /\ fleet \subseteq Clusters
    /\ known \subseteq Clusters
    /\ link \in [Clusters -> {"up", "down", "detached"}]
    /\ namespaces \subseteq Keys
    /\ obj \in [Slots -> Objects(Contents)]
    /\ kindAllowed \in BOOLEAN
    /\ lastResult \in [Keys -> SUBSET PolicyNames]
    /\ pc \in {"idle", "finalizer", "evaluate", "persist", "targets", "get", "adopt",
               "write", "recreate", "reapply", "gc", "delete"}
    /\ my \in Replications
    /\ fresh \in BOOLEAN
    /\ snap \in [content : Contents \cup {"none"}, requested : ConflictPolicies,
                 policies : PolicySets \cup {{}}]
    /\ inv \in Inventories
    /\ keep \subseteq Slots
    /\ todo \subseteq Slots
    /\ cur \in Slots \cup {NoSlot}
    /\ seen \in Objects(Contents)
    /\ states \subseteq TargetStates
    /\ released \subseteq Slots
    /\ budget \in 0..MaxDisturbances

Init ==
    /\ \E T \in InitTargets, owned \in BOOLEAN :
          /\ owned \/ "unowned" \in Disturbances
          /\ rep = Created(T, owned)
    /\ cache = [rep |-> rep, fresh |-> TRUE]
    /\ \E r \in Requested :
          source = [present |-> TRUE, content |-> CHOOSE c \in Contents : TRUE, requested |-> r]
    /\ policies \in PolicySets
    /\ fleet = Clusters
    /\ known = Clusters
    /\ link = [c \in Clusters |-> "up"]
    /\ namespaces = InitNamespaces
    /\ obj = [s \in Slots |-> NoObj]
    /\ kindAllowed = TRUE
    /\ lastResult = [k \in Keys |-> {}]
    /\ pc = "idle"
    /\ my = Gone
    /\ fresh = FALSE
    /\ snap = NoSnap
    /\ inv = NoInventory
    /\ keep = {}
    /\ todo = {}
    /\ cur = NoSlot
    /\ seen = NoObj
    /\ states = {}
    /\ released = {}
    /\ budget = MaxDisturbances

-----------------------------------------------------------------------------
\* Hub reads and writes

\* The API server stores r.  The informer sees it later, or at once when hub
\* reads are never stale.
Store(r) ==
    /\ rep' = r
    /\ cache' = IF StaleReads THEN [cache EXCEPT !.fresh = FALSE]
                              ELSE [rep |-> r, fresh |-> TRUE]

\* The end of a reconcile: every local goes out of scope.
Return ==
    /\ pc' = "idle"
    /\ my' = Gone
    /\ fresh' = FALSE
    /\ snap' = NoSnap
    /\ inv' = NoInventory
    /\ keep' = {}
    /\ todo' = {}
    /\ cur' = NoSlot
    /\ seen' = NoObj
    /\ states' = {}

\* An Update or Status().Update with the copy r: the API server refuses it
\* unless the copy's resourceVersion is current, and a refusal ends the
\* reconcile with an error.  (my' = r: the client decodes the answer into it.)
UpdateOk(r) == fresh /\ Store(r) /\ my' = r /\ UNCHANGED fresh

UpdateRefused == ~fresh /\ UNCHANGED hubVars /\ Return

-----------------------------------------------------------------------------
\* Reconcile: read, finalizer

\* The cached Get and the early returns.
StartReconcile ==
    /\ pc = "idle"
    /\ cache.rep.exists
    /\ IF cache.rep.deleting
       THEN /\ cache.rep.finalizer
            /\ pc' = "targets"
       ELSE /\ cache.rep.ready # "NotAuthoritative"
            /\ pc' = IF cache.rep.finalizer THEN "evaluate" ELSE "finalizer"
    /\ my' = cache.rep
    /\ fresh' = cache.fresh
    /\ inv' = cache.rep.inv
    /\ UNCHANGED <<hubVars, inputVars, spokeVars, procVars, snap, keep, todo, cur,
                   seen, states, released, budget>>

AddFinalizer ==
    /\ pc = "finalizer"
    /\ \/ /\ UpdateOk([my EXCEPT !.finalizer = TRUE])
          /\ pc' = "evaluate"
          /\ UNCHANGED <<snap, inv, keep, todo, cur, seen, states>>
       \/ UpdateRefused
    /\ UNCHANGED <<inputVars, spokeVars, procVars, released, budget>>

-----------------------------------------------------------------------------
\* Reconcile: policy evaluation, revocations and the plan

\* flattenTargets: a cluster that discovery does not know has no labels.
TargetOf(k) ==
    [cluster   |-> k.cluster,
     labels    |-> IF k.cluster \in known THEN ClusterLabels[k.cluster] ELSE NoLabels,
     namespace |-> k.namespace]


Evaluate(keys) ==
    [k \in keys |-> decide(Src, TargetOf(k), policies).matched]

entriesInNamespace(i, k) == {s \in Slots : KeyOf(s) = k /\ hasEntry(i, s)}

\* The policies that permitted the target before decide; when they are unknown
\* or gone, the policies whose source dimensions still match; failing that the
\* API default.
effectiveRevocationPolicy(k, previous) ==
    LET granting == policiesByName(policies, previous)
        matching == {p \in policies :
                       decide(Src, TargetOf(k), {p}).denied
                           \in {"", "targetCluster", "targetNamespace"}}
    IN  ResolveOptions(IF granting # {} THEN granting ELSE matching).revocationPolicy

\* Mutant: only withdrawals seen by this process count as revocations.
FreshRevocations(result, i) ==
    {k \in DetectRevocations(lastResult, result) \cap DOMAIN result :
        entriesInNamespace(i, k) # {}}

\* DetectRevocations and addInventoryRevocations: a denied target of the request
\* is revoked while the inventory still records replicas for it.
revokedKeys(result, i) ==
    {k \in DOMAIN result :
        /\ k \in DetectRevocations(lastResult, result) \/ result[k] = {}
        /\ entriesInNamespace(i, k) # {}}

\* applyRevocations: the slots kept although policy denies them.
retainedSlots(result, i) ==
    UNION {entriesInNamespace(i, k) :
              k \in {j \in revokedKeys(result, i) :
                        effectiveRevocationPolicy(j, lastResult[j]) = "Retain"}}

deniedState(s, revoked) ==
    [slot |-> s, gc |-> FALSE,
     reason |-> IF KeyOf(s) \in revoked /\ hasEntry(my.inv, s)
                THEN "PolicyRevoked" ELSE "PolicyDenied"]

\* Mutant: nothing is planned; entries appear with the final status.
PlanNothing(i, allowed) == i

\* The plan: an entry for every allowed slot that has none, persisted before
\* anything is created.
Planned(i, allowed) ==
    [s \in Slots |-> IF s \in allowed /\ ~hasEntry(i, s) THEN "planned" ELSE i[s]]

EvaluateTargets ==
    /\ pc = "evaluate"
    /\ kindAllowed
    /\ source.present
    /\ LET result   == Evaluate({KeyOf(s) : s \in my.targets})
           allowed  == {s \in my.targets : result[KeyOf(s)] # {}}
           revoked  == revokedKeys(result, my.inv)
       IN  /\ lastResult' = [k \in Keys |-> IF k \in DOMAIN result THEN result[k] ELSE {}]
           /\ keep' = allowed \cup retainedSlots(result, my.inv)
           /\ states' = {deniedState(s, revoked) : s \in my.targets \ allowed}
           /\ inv' = Planned(my.inv, allowed)
           /\ todo' = allowed
           /\ pc' = IF inv' # my.inv THEN "persist" ELSE "targets"
    /\ snap' = [content |-> source.content, requested |-> source.requested,
                policies |-> policies]
    /\ UNCHANGED <<hubVars, inputVars, spokeVars, kindAllowed, my, fresh, cur, seen,
                   released, budget>>

PersistPlan ==
    /\ pc = "persist"
    /\ \/ /\ UpdateOk([my EXCEPT !.inv = inv])
          /\ pc' = "targets"
          /\ released' = {s \in released : ~hasEntry(inv, s)}
          /\ UNCHANGED <<snap, inv, keep, todo, cur, seen, states>>
       \/ UpdateRefused /\ UNCHANGED released
    /\ UNCHANGED <<inputVars, spokeVars, procVars, budget>>

-----------------------------------------------------------------------------
\* Reconcile: the allowed slots, one after the other (applyTarget)

\* Transport.  A call to a cluster without a running client fails at once, one
\* to an unreachable cluster fails in flight.
reachable(s) == link[s.cluster] = "up"

classifyTransportErr(s) ==
    IF link[s.cluster] = "detached" THEN "ClusterUnreachable" ELSE "ApplyFailed"

\* A write to slot s turns the object there into o.  When the connection breaks
\* the write may have happened although the caller sees an error.
WriteOk(s, o) == reachable(s) /\ obj' = [obj EXCEPT ![s] = o]

WriteFailed(s, o) ==
    /\ ~reachable(s)
    /\ \/ UNCHANGED obj
       \/ link[s.cluster] = "down" /\ obj' = [obj EXCEPT ![s] = o]

\* Mutant: a retryable failure is not reported.
FailedQuietly(s, reason, entry) ==
    /\ states' = IF entry = "none"
                 THEN states \cup {[slot |-> s, reason |-> reason, gc |-> FALSE]}
                 ELSE states
    /\ inv' = [inv EXCEPT ![s] = entry]

\* fail(reason, msg, retry): without a retry the entry is dropped.
Failed(s, reason, entry) ==
    /\ states' = states \cup {[slot |-> s, reason |-> reason, gc |-> FALSE]}
    /\ inv' = [inv EXCEPT ![s] = entry]

\* The outcome for the slot is known; the loop goes on.
NextTarget ==
    /\ pc' = "targets"
    /\ cur' = NoSlot
    /\ seen' = NoObj

\* The tail of applyTarget.
Succeeded ==
    /\ inv' = [inv EXCEPT ![cur] = snap.content]
    /\ UNCHANGED states
    /\ NextTarget

Options(s) ==
    ResolveOptions(policiesByName(snap.policies, lastResult[KeyOf(s)]))

loopUnchanged == <<hubVars, inputVars, procVars, my, fresh, snap, keep, released, budget>>

clusterUnchanged == <<fleet, known, link>>

ensureNamespace ==
    /\ pc = "targets"
    /\ \E s \in todo :
        /\ todo' = todo \ {s}
        /\ \/ /\ ~reachable(s)
              /\ Failed(s, classifyTransportErr(s), inv[s])
              /\ NextTarget
              /\ UNCHANGED namespaces
           \/ /\ reachable(s)
              /\ KeyOf(s) \notin namespaces
              /\ ~Options(s).allowNamespaceCreation
              /\ Failed(s, "NamespaceMissing", "none")
              /\ NextTarget
              /\ UNCHANGED namespaces
           \/ /\ reachable(s)
              /\ KeyOf(s) \in namespaces \/ Options(s).allowNamespaceCreation
              /\ namespaces' = namespaces \cup {KeyOf(s)}
              /\ cur' = s
              /\ pc' = "get"
              /\ UNCHANGED <<inv, states, seen>>
    /\ UNCHANGED <<loopUnchanged, clusterUnchanged, obj>>

\* Mutant: the inventory's hash is believed without looking at the object.
TrustInventory(o) == inv[cur] # snap.content

\* Our own replica needs a write when its content or its bookkeeping is off.
NeedsWrite(o) == o.ann # snap.content \/ ~HashEquals(o, snap.content)

\* The live read of the replica's name and the decision taken on it.
GetExisting ==
    /\ pc = "get"
    /\ LET o == obj[cur]
           decision == DecideConflict(o, snap.content, snap.requested,
                                      Options(cur).allowedConflictPolicies)
           write(step) == pc' = step /\ seen' = o /\ UNCHANGED <<inv, states, cur>>
       IN  \/ /\ ~reachable(cur)
              /\ Failed(cur, classifyTransportErr(cur), inv[cur])
              /\ NextTarget
           \/ /\ reachable(cur)
              /\ o = NoObj \/ ClassifyReplicaOwnership(o) = "Stripped"
              /\ write("write")
           \/ /\ reachable(cur)
              /\ o # NoObj /\ ClassifyReplicaOwnership(o) # "Stripped"
              /\ \/ /\ decision = "Fail"
                    /\ Failed(cur, "Conflict", "none")
                    /\ NextTarget
                 \/ decision = "Adopt" /\ write("adopt")
                 \/ decision = "Overwrite" /\ write("write")
                 \/ /\ decision = "Apply"
                    /\ NeedsWrite(o)
                    /\ write("write")
                 \/ /\ decision = "Apply"
                    /\ ~NeedsWrite(o)
                    /\ Succeeded
    /\ UNCHANGED <<loopUnchanged, spokeVars, todo>>

\* Apply of the object o.  An Apply into a namespace that has vanished fails.
ApplyObject(o) ==
    \/ /\ KeyOf(cur) \in namespaces
       /\ WriteOk(cur, o)
       /\ Succeeded
    \/ /\ \/ KeyOf(cur) \in namespaces /\ WriteFailed(cur, o)
          \/ KeyOf(cur) \notin namespaces /\ UNCHANGED obj
       /\ Failed(cur, classifyTransportErr(cur), inv[cur])
       /\ NextTarget

Adopt ==
    /\ pc = "adopt"
    /\ ApplyObject(AdoptPatch(obj[cur], snap.content))
    /\ UNCHANGED <<loopUnchanged, clusterUnchanged, namespaces, todo>>

\* The API server may reject a change of immutable fields; only then, and only
\* for an object the read had found, the engine deletes it and applies again.
ApplyReplica ==
    /\ pc = "write"
    /\ \/ ApplyObject(Rendered(obj[cur], snap.content))
       \/ /\ "immutable" \in Disturbances
          /\ reachable(cur)
          /\ obj[cur] # NoObj
          /\ UNCHANGED obj
          /\ \/ /\ seen # NoObj
                /\ pc' = "recreate"
                /\ UNCHANGED <<inv, states, cur, seen>>
             \/ /\ seen = NoObj
                /\ Failed(cur, "ApplyFailed", inv[cur])
                /\ NextTarget
    /\ UNCHANGED <<loopUnchanged, clusterUnchanged, namespaces, todo>>

\* applyWithRecreate: delete whatever is there now, then apply.
RecreateDelete ==
    /\ pc = "recreate"
    /\ \/ /\ WriteOk(cur, NoObj)
          /\ pc' = "reapply"
          /\ UNCHANGED <<inv, states, cur, seen>>
       \/ /\ WriteFailed(cur, NoObj)
          /\ Failed(cur, classifyTransportErr(cur), inv[cur])
          /\ NextTarget
    /\ UNCHANGED <<loopUnchanged, clusterUnchanged, namespaces, todo>>

RecreateApply ==
    /\ pc = "reapply"
    /\ ApplyObject(Rendered(obj[cur], snap.content))
    /\ UNCHANGED <<loopUnchanged, clusterUnchanged, namespaces, todo>>

-----------------------------------------------------------------------------
\* Reconcile: garbage collection (collectGarbage)

clusterGone(s) == s.cluster \notin known

\* Mutant: an entry that was only planned is taken to have no replica.
AppliedOnly == {s \in Slots : inv[s] \in Contents /\ s \notin keep}

GCTodo == {s \in Slots : hasEntry(inv, s) /\ s \notin keep}

\* Entries of clusters that left discovery are released with an event.
PlanGC ==
    /\ pc = "targets"
    /\ todo = {}
    /\ inv' = [s \in Slots |-> IF s \in GCTodo /\ clusterGone(s) THEN "none" ELSE inv[s]]
    /\ released' = released \cup {s \in GCTodo : clusterGone(s)}
    /\ todo' = {s \in GCTodo : ~clusterGone(s)}
    /\ pc' = "gc"
    /\ UNCHANGED <<hubVars, inputVars, spokeVars, procVars, my, fresh, snap, keep, cur,
                   seen, states, budget>>

GCFailed(s, reason) ==
    /\ states' = states \cup {[slot |-> s, reason |-> reason, gc |-> TRUE]}
    /\ UNCHANGED inv

dropEntry(s) == inv' = [inv EXCEPT ![s] = "none"] /\ UNCHANGED states

\* The live read before a delete: only an object that carries the UID of the
\* source may be deleted.
GCGet ==
    /\ pc = "gc"
    /\ \E s \in todo :
        /\ todo' = todo \ {s}
        /\ \/ /\ ~kindAllowed
              /\ GCFailed(s, "ApplyFailed")
              /\ UNCHANGED <<pc, cur, seen>>
           \/ /\ kindAllowed /\ ~reachable(s)
              /\ GCFailed(s, classifyTransportErr(s))
              /\ UNCHANGED <<pc, cur, seen>>
           \/ /\ kindAllowed /\ reachable(s)
              /\ obj[s] = NoObj \/ ClassifyReplicaOwnership(obj[s]) = "Foreign"
              /\ dropEntry(s)
              /\ UNCHANGED <<pc, cur, seen>>
           \/ /\ kindAllowed /\ reachable(s)
              /\ obj[s] # NoObj /\ ClassifyReplicaOwnership(obj[s]) # "Foreign"
              /\ pc' = "delete"
              /\ cur' = s
              /\ seen' = obj[s]
              /\ UNCHANGED <<inv, states>>
    /\ UNCHANGED <<loopUnchanged, spokeVars>>

GCDelete ==
    /\ pc = "delete"
    /\ \/ WriteOk(cur, NoObj) /\ dropEntry(cur)
       \/ WriteFailed(cur, NoObj) /\ GCFailed(cur, classifyTransportErr(cur))
    /\ pc' = "gc"
    /\ cur' = NoSlot
    /\ seen' = NoObj
    /\ UNCHANGED <<loopUnchanged, clusterUnchanged, namespaces, todo>>

-----------------------------------------------------------------------------
\* Reconcile: the status (status.go) and the finalizer

reasonRank(r) ==
    CASE r = "Conflict"           -> 1
      [] r = "PolicyRevoked"      -> 2
      [] r = "PolicyDenied"       -> 3
      [] r = "NamespaceMissing"   -> 4
      [] r = "ClusterUnreachable" -> 5
      [] r = "ApplyFailed"        -> 6
      [] r = "SourceMissing"      -> 7

dominantReason(present) ==
    CHOOSE r \in present : \A q \in present : reasonRank(r) <= reasonRank(q)

\* Mutant: every entry is stamped with the current time.
AlwaysRestamp(prev, t) == TRUE

\* prevReasons[k]: the last entry of the slot in the previous status; garbage
\* collection appends its states last.
Unseated(prev, t) ==
    LET entries == {u \in prev : u.slot = t.slot}
        last    == IF \E u \in entries : u.gc THEN {u \in entries : u.gc} ELSE entries
    IN  t.reason \notin {u.reason : u \in last}

\* An entry whose reason is not the previous one gets a new transition time.
buildStatus(S, i, retained) ==
    [my EXCEPT
        !.inv      = i,
        !.nonReady = S,
        !.ready    = CASE S # {} -> dominantReason({t.reason : t \in S})
                       [] S = {} /\ my.targets = {} /\ ~my.deleting -> "NoTargets"
                       [] OTHER -> "AllTargetsReady",
        !.revoked  = retained,
        !.stamp    = IF \E t \in S : Unseated(my.nonReady, t) THEN ~@ ELSE @]

writeStatusIfChanged(next) ==
    \/ next = my /\ UNCHANGED hubVars
    \/ next # my /\ fresh /\ Store(next)
    \/ next # my /\ ~fresh /\ UNCHANGED hubVars

\* finishSimple: the kind left the allowlist, or the source is gone.
FinishSimple ==
    /\ pc = "evaluate"
    /\ ~kindAllowed \/ ~source.present
    /\ writeStatusIfChanged(
          buildStatus({[slot |-> NoSlot, gc |-> FALSE,
                        reason |-> IF kindAllowed THEN "SourceMissing" ELSE "ApplyFailed"]},
                      my.inv, FALSE))
    /\ Return
    /\ UNCHANGED <<inputVars, spokeVars, procVars, released, budget>>

retainedAny == \E s \in keep : lastResult[KeyOf(s)] = {}

WriteStatus ==
    /\ pc = "gc"
    /\ todo = {}
    /\ my.deleting => inv # NoInventory
    /\ writeStatusIfChanged(buildStatus(states, inv, retainedAny))
    /\ Return
    /\ UNCHANGED <<inputVars, spokeVars, procVars, released, budget>>

\* reconcileDeletion: with an empty inventory the finalizer goes, and with it
\* the object.
RemoveFinalizer ==
    /\ pc = "gc"
    /\ todo = {}
    /\ my.deleting
    /\ inv = NoInventory
    /\ \/ fresh /\ Store(Gone) /\ lastResult' = [k \in Keys |-> {}]
       \/ ~fresh /\ UNCHANGED <<hubVars, lastResult>>
    /\ Return
    /\ UNCHANGED <<inputVars, spokeVars, kindAllowed, released, budget>>

Reconcile ==
    \/ StartReconcile \/ AddFinalizer \/ FinishSimple \/ EvaluateTargets \/ PersistPlan
    \/ ensureNamespace \/ GetExisting \/ Adopt \/ ApplyReplica
    \/ RecreateDelete \/ RecreateApply
    \/ PlanGC \/ GCGet \/ GCDelete \/ WriteStatus \/ RemoveFinalizer

-----------------------------------------------------------------------------
\* The environment on the hub

Disturb(kind) ==
    /\ kind \in Disturbances
    /\ budget > 0
    /\ budget' = budget - 1

\* Another writer updates the Replication: the worker's copy becomes stale.
OthersStore(r) ==
    /\ Store(r)
    /\ fresh' = FALSE
    /\ UNCHANGED <<my, snap, inv, keep, todo, cur, seen, states, pc>>

Retarget ==
    /\ Disturb("targets")
    /\ rep.exists /\ ~rep.deleting
    /\ \E T \in InitTargets \ {rep.targets} : OthersStore([rep EXCEPT !.targets = T])
    /\ UNCHANGED <<inputVars, spokeVars, procVars, released>>

DeleteReplication ==
    /\ Disturb("delete")
    /\ rep.exists /\ ~rep.deleting
    /\ OthersStore(IF rep.finalizer THEN [rep EXCEPT !.deleting = TRUE] ELSE Gone)
    /\ UNCHANGED <<inputVars, spokeVars, procVars, released>>

CreateReplication ==
    /\ Disturb("create")
    /\ ~rep.exists
    /\ \E T \in InitTargets : OthersStore(Created(T, TRUE))
    /\ UNCHANGED <<inputVars, spokeVars, procVars, released>>

\* The authority controller of package request marks a Replication without a
\* controlling source.
MarkNotAuthoritative ==
    /\ rep.exists /\ ~rep.owned
    /\ rep.ready # "NotAuthoritative"
    /\ OthersStore([rep EXCEPT !.ready = "NotAuthoritative"])
    /\ UNCHANGED <<inputVars, spokeVars, procVars, released, budget>>

EditSource ==
    /\ Disturb("source")
    /\ source.present
    /\ \/ \E c \in Contents \ {source.content} : source' = [source EXCEPT !.content = c]
       \/ \E r \in Requested \ {source.requested} : source' = [source EXCEPT !.requested = r]
    /\ UNCHANGED <<hubVars, policies, spokeVars, procVars, pc, workVars, released>>

RemoveSource ==
    /\ Disturb("source")
    /\ source.present
    /\ source' = [source EXCEPT !.present = FALSE]
    /\ UNCHANGED <<hubVars, policies, spokeVars, procVars, pc, workVars, released>>

EditPolicies ==
    /\ Disturb("policies")
    /\ \E P \in PolicySets \ {policies} : policies' = P
    /\ UNCHANGED <<hubVars, source, spokeVars, procVars, pc, workVars, released>>

\* The informer catches up.
CacheSync ==
    /\ ~cache.fresh
    /\ cache' = [rep |-> rep, fresh |-> TRUE]
    /\ UNCHANGED <<rep, inputVars, spokeVars, procVars, pc, workVars, released, budget>>

-----------------------------------------------------------------------------
\* The environment on the spokes

hubUnchanged == <<hubVars, inputVars, procVars, pc, workVars, released>>

\* A cluster leaves the fleet or comes back; its objects stay.
ChangeFleet ==
    /\ Disturb("fleet")
    /\ \E c \in Clusters :
          fleet' = IF c \in fleet THEN fleet \ {c} ELSE fleet \cup {c}
    /\ UNCHANGED <<hubUnchanged, known, link, namespaces, obj>>

\* The discovery provider learns of it; the runtime of a cluster that left is
\* torn down with its client.
ProviderSync ==
    /\ \E c \in Clusters :
        \/ c \in fleet \ known /\ known' = known \cup {c} /\ UNCHANGED link
        \/ /\ c \in known \ fleet
           /\ known' = known \ {c}
           /\ link' = [link EXCEPT ![c] = "detached"]
    /\ UNCHANGED <<hubUnchanged, fleet, namespaces, obj, budget>>

\* The runtime of a discovered cluster starts: its client becomes available.
Attach ==
    /\ \E c \in known :
        /\ link[c] = "detached"
        /\ link' = [link EXCEPT ![c] = "up"]
    /\ UNCHANGED <<hubUnchanged, fleet, known, namespaces, obj, budget>>

ChangeLink ==
    /\ Disturb("link")
    /\ \E c \in Clusters :
        /\ link[c] # "detached"
        /\ link' = [link EXCEPT ![c] = IF @ = "up" THEN "down" ELSE "up"]
    /\ UNCHANGED <<hubUnchanged, fleet, known, namespaces, obj>>

\* Deleting a namespace deletes what is in it.
ChangeNamespace ==
    /\ Disturb("namespaces")
    /\ \E k \in Keys :
        \/ /\ k \in namespaces
           /\ namespaces' = namespaces \ {k}
           /\ obj' = [s \in Slots |-> IF KeyOf(s) = k THEN NoObj ELSE obj[s]]
        \/ /\ k \notin namespaces
           /\ namespaces' = namespaces \cup {k}
           /\ UNCHANGED obj
    /\ UNCHANGED <<hubUnchanged, clusterUnchanged>>

\* Another actor deletes, creates or replaces the object at a slot.
SpokeReplace ==
    /\ Disturb("spokes")
    /\ \E s \in Slots, o \in ForeignObjects \cup {NoObj} :
        /\ KeyOf(s) \in namespaces
        /\ o # obj[s]
        /\ obj' = [obj EXCEPT ![s] = o]
    /\ UNCHANGED <<hubUnchanged, clusterUnchanged, namespaces>>

\* Another actor changes the payload, or removes either ownership label.
SpokeEdit ==
    /\ Disturb("spokes")
    /\ \E s \in Slots :
        /\ obj[s] # NoObj
        /\ \/ \E c \in Contents \ {obj[s].content} : obj' = [obj EXCEPT ![s].content = c]
           \/ obj[s].managed /\ obj' = [obj EXCEPT ![s].managed = FALSE]
           \/ obj[s].uid # "none" /\ obj' = [obj EXCEPT ![s].uid = "none"]
    /\ UNCHANGED <<hubUnchanged, clusterUnchanged, namespaces>>

\* Another actor adds a key that the source does not have, or removes it.
SpokeAddKey ==
    /\ Disturb("keys")
    /\ \E s \in Slots :
        /\ obj[s] # NoObj
        /\ obj' = [obj EXCEPT ![s].extra = ~@]
    /\ UNCHANGED <<hubUnchanged, clusterUnchanged, namespaces>>

-----------------------------------------------------------------------------
\* The process dies between two calls and another replica takes over: memory is
\* lost, caches are filled anew before controllers start, but the discovery
\* provider starts empty.  The allowlist may differ after an upgrade.
Crash ==
    /\ Disturb("crash")
    /\ Return
    /\ cache' = [rep |-> rep, fresh |-> TRUE]
    /\ lastResult' = [k \in Keys |-> {}]
    /\ kindAllowed' \in {TRUE} \cup {"allowlist" \notin Disturbances}
    /\ known' = {}
    /\ link' = [c \in Clusters |-> "detached"]
    /\ UNCHANGED <<rep, inputVars, fleet, namespaces, obj, released>>

\* The worker waits for an event; nothing else need ever happen.
Idle == pc = "idle" /\ UNCHANGED vars

Environment ==
    \/ Retarget \/ DeleteReplication \/ CreateReplication \/ MarkNotAuthoritative
    \/ EditSource \/ RemoveSource \/ EditPolicies \/ CacheSync
    \/ ChangeFleet \/ ProviderSync \/ Attach \/ ChangeLink
    \/ ChangeNamespace \/ SpokeReplace \/ SpokeEdit \/ SpokeAddKey
    \/ Crash

Next == Reconcile \/ Environment \/ Idle

Spec == Init /\ [][Next]_vars

\* Every completed reconcile schedules another one (RequeueAfter, or the rate
\* limiter after an error), informers and the discovery watch deliver, and the
\* runtime of a discovered cluster starts.
Fairness ==
    /\ WF_vars(Reconcile)
    /\ WF_vars(CacheSync)
    /\ WF_vars(ProviderSync)
    /\ WF_vars(Attach)
    /\ WF_vars(MarkNotAuthoritative)

FairSpec == Spec /\ Fairness

-----------------------------------------------------------------------------
\* Properties

\* No replica is ever lost: an object that carries the UID of the source has an
\* entry in the persisted inventory, whatever fails or crashes in between, or
\* was released with a ClusterGone event.  (The plan is persisted before
\* anything is created, and an entry is dropped only after a read or a delete
\* showed that there is nothing of ours.)
Tracked ==
    \A s \in Slots :
        obj[s].uid = "self" => hasEntry(rep.inv, s) \/ s \in released

\* The step is the engine's: only it changes objects without a disturbance.
EngineTouches(s) == budget' = budget /\ obj'[s] # obj[s]

\* The policies that permit s in the evaluation at hand grant c.
GrantedBy(s, c) ==
    \E p \in snap.policies :
        p.name \in lastResult[KeyOf(s)] /\ c \in p.allowedConflictPolicies

\* Both keys turn for the object o at s: the request asks for it and a policy
\* that permits the target grants it.  Another Replication's replica is never
\* taken, and Adopt touches only an object whose content is the source's.
Consented(s, o) ==
    /\ ~o.managed
    /\ \/ /\ pc \in {"write", "recreate", "reapply"}
          /\ snap.requested = "Overwrite" /\ GrantedBy(s, "Overwrite")
       \/ /\ pc = "adopt"
          /\ snap.requested \in {"Adopt", "Overwrite"}
          /\ GrantedBy(s, "Adopt") \/ GrantedBy(s, "Overwrite")
          /\ HashEquals(o, snap.content)

\* The engine changes or deletes an object that does not carry its UID only
\* with consent, or when the object was not there at the read the decision
\* rests on (the calls carry no precondition).
TouchesWithConsent ==
    \A s \in Slots :
        EngineTouches(s) /\ obj[s] # NoObj /\ obj[s].uid # "self"
            => Consented(s, obj[s]) \/ obj[s] # seen

\* Every step touches foreign objects with consent only (TouchesWithConsent).
ForeignNeedsConsent == [][TouchesWithConsent]_vars

\* A replica whose target is still requested is not deleted when every policy
\* that ever permitted it says Retain (checked with such policies only).
RetainKeeps ==
    pc = "delete" /\ ~my.deleting => cur \notin my.targets

-----------------------------------------------------------------------------
\* What the engine works towards

Permitted(s) == Evaluate({KeyOf(s)})[KeyOf(s)] # {}

Granted(s) == ResolveOptions(policiesByName(policies, Evaluate({KeyOf(s)})[KeyOf(s)]))

Serving(s) == s.cluster \in known /\ reachable(s) /\ kindAllowed

Active == rep.exists /\ ~rep.deleting /\ rep.owned /\ source.present

\* The target cannot be served: its namespace is missing, or another's object
\* is in the way.
Blocked(s) ==
    \/ KeyOf(s) \notin namespaces /\ ~Granted(s).allowNamespaceCreation
    \/ /\ obj[s] # NoObj
       /\ ClassifyReplicaOwnership(obj[s]) = "Foreign"
       /\ DecideConflict(obj[s], source.content, source.requested,
                         Granted(s).allowedConflictPolicies) = "Fail"

InSync(s) ==
    /\ IsManagedReplica(obj[s])
    /\ HashEquals(obj[s], source.content)
    /\ obj[s].ann = source.content

\* A slot that must not have a replica.
Unwanted(s) ==
    \/ ~rep.exists \/ rep.deleting
    \/ /\ Active
       /\ \/ s \notin rep.targets
          \/ ~Permitted(s) /\ effectiveRevocationPolicy(KeyOf(s), {}) = "Delete"

Delivered ==
    \A s \in Slots :
        Serving(s) /\ Active /\ s \in rep.targets /\ Permitted(s) /\ ~Blocked(s)
            => InSync(s)

CleanedUp ==
    /\ \A s \in Slots :
          Serving(s) /\ Unwanted(s) => obj[s].uid # "self" \/ s \in released
    /\ rep.deleting => ~kindAllowed \/ \E c \in known : link[c] # "up"

\* Once disturbances cease, every permitted target on a reachable cluster comes
\* to hold the source's content, whatever the other targets meet.
DeliveryCompletes == <>[]Delivered

\* Once disturbances cease, replicas that are deselected, revoked with Delete or
\* left by a deleted Replication are removed from every reachable cluster, and
\* the deletion of the Replication completes.
CleanupCompletes == <>[]CleanedUp

\* Once disturbances cease, the Ready condition says True exactly when every
\* target is permitted, reachable and in sync and nothing is left to clean up.
Truthful ==
    Active /\ kindAllowed =>
        (rep.ready = "AllTargetsReady" <=>
            /\ rep.targets # {}
            /\ \A s \in rep.targets : Permitted(s) /\ Serving(s) /\ InSync(s)
            /\ \A s \in Slots : hasEntry(rep.inv, s) => s \in rep.targets)

ReadyIsTruthful == <>[]Truthful

\* Once disturbances cease, the Replication is not written any more.
StatusSettles == <>[][FALSE]_rep

=============================================================================
