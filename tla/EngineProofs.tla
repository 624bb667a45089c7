---------------------------- MODULE EngineProofs ----------------------------
(***************************************************************************)
(* Machine-checked proofs about Engine, for every choice of slots, payloads*)
(* and policies.                                                           *)
(***************************************************************************)
EXTENDS Engine, TLAPS

-----------------------------------------------------------------------------
\* Operators

\* The policies that permit a target are among those that exist.
LEMMA MatchedNames ==
    ASSUME NEW P \in PolicySets, NEW src, NEW tgt
    PROVE  decide(src, tgt, P).matched \subseteq PolicyNames
BY DEF decide, matchedPolicies, PolicyNames

\* Reasons are totally ordered, so a non-empty set of them has a dominant one.
LEMMA DominantReason ==
    ASSUME NEW P \in SUBSET Reasons, P # {}
    PROVE  dominantReason(P) \in P
<1>1. \E r \in P : \A q \in P : reasonRank(r) <= reasonRank(q)
  <2> DEFINE least(r) == \A q \in P : reasonRank(r) <= reasonRank(q)
  <2>1. CASE "Conflict" \in P
    BY <2>1 DEF Reasons, reasonRank
  <2>2. CASE "Conflict" \notin P /\ "PolicyRevoked" \in P
    BY <2>2 DEF Reasons, reasonRank
  <2>3. CASE P \cap {"Conflict", "PolicyRevoked"} = {} /\ "PolicyDenied" \in P
    BY <2>3 DEF Reasons, reasonRank
  <2>4. CASE P \cap {"Conflict", "PolicyRevoked", "PolicyDenied"} = {}
             /\ "NamespaceMissing" \in P
    BY <2>4 DEF Reasons, reasonRank
  <2>5. CASE P \cap {"Conflict", "PolicyRevoked", "PolicyDenied", "NamespaceMissing"} = {}
             /\ "ClusterUnreachable" \in P
    BY <2>5 DEF Reasons, reasonRank
  <2>6. CASE P \subseteq {"ApplyFailed", "SourceMissing"} /\ "ApplyFailed" \in P
    BY <2>6 DEF Reasons, reasonRank
  <2>7. CASE P = {"SourceMissing"}
    BY <2>7 DEF Reasons, reasonRank
  <2> QED
    BY <2>1, <2>2, <2>3, <2>4, <2>5, <2>6, <2>7 DEF Reasons
<1> QED
  BY <1>1 DEF dominantReason

\* A status built from well-typed outcomes is well typed.
LEMMA BuildStatusType ==
    ASSUME my \in Replications, NEW S \in SUBSET TargetStates,
           NEW i \in Inventories, NEW b \in BOOLEAN
    PROVE  buildStatus(S, i, b) \in Replications
<1> DEFINE P == {t.reason : t \in S}
           stamped == \E t \in S : Unseated(my.nonReady, t)
<1>1. P \subseteq Reasons
  BY DEF TargetStates
<1>2. S # {} => dominantReason(P) \in ReadyReasons
  <2> HIDE DEF P
  <2>1. ASSUME S # {} PROVE P # {}
    BY <2>1 DEF P
  <2> QED
    BY <1>1, <2>1, DominantReason DEF ReadyReasons
<1>3. (IF stamped THEN ~my.stamp ELSE my.stamp) \in BOOLEAN
  BY DEF Replications
<1> HIDE DEF P, stamped
<1>4. (CASE S # {} -> dominantReason(P)
         [] S = {} /\ my.targets = {} /\ ~my.deleting -> "NoTargets"
         [] OTHER -> "AllTargetsReady") \in ReadyReasons
  BY <1>2 DEF ReadyReasons
<1> QED
  BY <1>3, <1>4 DEF buildStatus, Replications, P, stamped

-----------------------------------------------------------------------------
\* Type correctness

\* A Replication as the request controller creates it is well typed.
LEMMA CreatedType ==
    ASSUME NEW T \in SUBSET Slots, NEW o \in BOOLEAN
    PROVE  Created(T, o) \in Replications
BY DEF Created, Replications, NoInventory, Inventories, Entries, ReadyReasons

\* The absent Replication and the empty inventory are well typed.
LEMMA GoneType == Gone \in Replications /\ NoInventory \in Inventories
<1>1. Created({}, TRUE) \in Replications
  BY CreatedType
<1> QED
  BY <1>1 DEF Gone, Replications, NoInventory, Inventories, Entries

\* The absent object of a spoke is well typed.
LEMMA NoObjType == NoObj \in Objects(Contents)
BY DEF Objects

\* The end of a reconcile leaves the worker's variables well typed.
LEMMA ReturnType ==
    ASSUME TypeOK, Return
    PROVE  /\ pc' = "idle" /\ my' \in Replications /\ fresh' \in BOOLEAN
           /\ snap' \in [content : Contents \cup {"none"}, requested : ConflictPolicies,
                         policies : PolicySets \cup {{}}]
           /\ inv' \in Inventories /\ keep' \subseteq Slots /\ todo' \subseteq Slots
           /\ cur' \in Slots \cup {NoSlot} /\ seen' \in Objects(Contents)
           /\ states' \subseteq TargetStates
BY GoneType, NoObjType DEF Return, NoSnap, ConflictPolicies

\* A write to the hub keeps the object and its cached copy well typed.
LEMMA StoreType ==
    ASSUME TypeOK, NEW r \in Replications, Store(r)
    PROVE  rep' \in Replications /\ cache' \in [rep : Replications, fresh : BOOLEAN]
BY DEF Store, TypeOK

\* Initial states are well typed.
LEMMA InitType == Init => TypeOK
<1> SUFFICES ASSUME Init PROVE TypeOK
  OBVIOUS
<1>1. rep \in Replications /\ cache \in [rep : Replications, fresh : BOOLEAN]
  BY CreatedType, SlotsAssumption DEF Init
<1>2. source \in [present : BOOLEAN, content : Contents, requested : ConflictPolicies]
  BY ContentsAssumption, SlotsAssumption DEF Init
<1>3. budget \in 0..MaxDisturbances
  BY BoundsAssumption DEF Init
<1>4. snap \in [content : Contents \cup {"none"}, requested : ConflictPolicies,
                policies : PolicySets \cup {{}}]
  BY DEF Init, NoSnap, ConflictPolicies
<1> QED
  BY <1>1, <1>2, <1>3, <1>4, GoneType, NoObjType, SlotsAssumption DEF Init, TypeOK

\* Reading the Replication at the start of Reconcile preserves the types.
LEMMA StartReconcileType == TypeOK /\ StartReconcile => TypeOK'
<1> SUFFICES ASSUME TypeOK, StartReconcile PROVE TypeOK'
  OBVIOUS
<1> QED
  BY DEF TypeOK, StartReconcile, Replications, hubVars, inputVars, spokeVars, procVars

\* Adding the engine's finalizer preserves the types.
LEMMA AddFinalizerType == TypeOK /\ AddFinalizer => TypeOK'
<1> SUFFICES ASSUME TypeOK, AddFinalizer PROVE TypeOK'
  OBVIOUS
<1> DEFINE r == [my EXCEPT !.finalizer = TRUE]
<1>1. r \in Replications
  BY DEF TypeOK, Replications
<1>2. CASE UpdateOk(r) /\ pc' = "evaluate"
           /\ UNCHANGED <<snap, inv, keep, todo, cur, seen, states>>
  <2> HIDE DEF r
  <2>1. rep' \in Replications /\ cache' \in [rep : Replications, fresh : BOOLEAN]
    BY <1>1, <1>2, StoreType DEF UpdateOk
  <2> QED
    BY <1>1, <1>2, <2>1 DEF TypeOK, AddFinalizer, UpdateOk, inputVars, spokeVars, procVars
<1>3. CASE UpdateRefused
  BY <1>3, ReturnType DEF TypeOK, AddFinalizer, UpdateRefused, hubVars, inputVars, spokeVars, procVars
<1> QED
  BY <1>2, <1>3 DEF AddFinalizer

\* Policy evaluation, revocation and planning preserve the types.
LEMMA EvaluateTargetsType == TypeOK /\ EvaluateTargets => TypeOK'
<1> SUFFICES ASSUME TypeOK, EvaluateTargets PROVE TypeOK'
  OBVIOUS
<1> DEFINE result  == Evaluate({KeyOf(s) : s \in my.targets})
           allowed == {s \in my.targets : result[KeyOf(s)] # {}}
           revoked == revokedKeys(result, my.inv)
<1>0. my.targets \subseteq Slots /\ my.inv \in Inventories
  BY DEF TypeOK, Replications
<1>1. lastResult' \in [Keys -> SUBSET PolicyNames]
  <2>1. DOMAIN result = {KeyOf(s) : s \in my.targets}
    BY DEF Evaluate
  <2>2. \A k \in DOMAIN result : result[k] \subseteq PolicyNames
    BY MatchedNames DEF Evaluate, TypeOK
  <2> QED
    BY <2>1, <2>2 DEF EvaluateTargets
<1>2. keep' \subseteq Slots
  <2>1. retainedSlots(result, my.inv) \subseteq Slots
    BY DEF retainedSlots, entriesInNamespace
  <2> QED
    BY <1>0, <2>1 DEF EvaluateTargets
<1>3. states' \subseteq TargetStates
  <2>1. states' = {deniedState(s, revoked) : s \in my.targets \ allowed}
    BY DEF EvaluateTargets
  <2>2. \A s \in Slots : deniedState(s, revoked) \in TargetStates
    BY DEF deniedState, TargetStates, Reasons
  <2> QED
    BY <1>0, <2>1, <2>2
<1>4. inv' \in Inventories
  <2>1. inv' = Planned(my.inv, allowed)
    BY DEF EvaluateTargets
  <2>2. Planned(my.inv, allowed) \in Inventories
    BY <1>0 DEF Planned, Inventories, Entries
  <2> QED
    BY <2>1, <2>2
<1>5. todo' \subseteq Slots /\ pc' \in {"persist", "targets"}
  BY <1>0 DEF EvaluateTargets
<1>6. snap' \in [content : Contents \cup {"none"}, requested : ConflictPolicies,
                 policies : PolicySets \cup {{}}]
  BY DEF EvaluateTargets, TypeOK
<1>7. UNCHANGED <<hubVars, inputVars, spokeVars, kindAllowed, my, fresh, cur, seen,
                  released, budget>>
  BY DEF EvaluateTargets
<1> HIDE DEF result, allowed, revoked
<1> QED
  BY <1>1, <1>2, <1>3, <1>4, <1>5, <1>6, <1>7
     DEF TypeOK, hubVars, inputVars, spokeVars

\* Persisting the planned entries preserves the types.
LEMMA PersistPlanType == TypeOK /\ PersistPlan => TypeOK'
<1> SUFFICES ASSUME TypeOK, PersistPlan PROVE TypeOK'
  OBVIOUS
<1> DEFINE r == [my EXCEPT !.inv = inv]
<1>1. r \in Replications
  BY DEF TypeOK, Replications
<1>2. CASE UpdateOk(r) /\ pc' = "targets" /\ released' \subseteq released
           /\ UNCHANGED <<snap, inv, keep, todo, cur, seen, states>>
  <2> HIDE DEF r
  <2>1. rep' \in Replications /\ cache' \in [rep : Replications, fresh : BOOLEAN]
    BY <1>1, <1>2, StoreType DEF UpdateOk
  <2> QED
    BY <1>1, <1>2, <2>1 DEF TypeOK, PersistPlan, UpdateOk, inputVars, spokeVars, procVars
<1>3. CASE UpdateRefused /\ UNCHANGED released
  BY <1>3, ReturnType DEF TypeOK, PersistPlan, UpdateRefused, hubVars, inputVars, spokeVars, procVars
<1> QED
  BY <1>2, <1>3 DEF PersistPlan

\* What the steps on one slot have in common.
LEMMA TargetStateType ==
    ASSUME NEW s \in Slots \cup {NoSlot}, NEW reason \in Reasons, NEW g \in BOOLEAN
    PROVE  [slot |-> s, reason |-> reason, gc |-> g] \in TargetStates
BY DEF TargetStates

\* The failure closure of applyTarget keeps states and inventory well typed.
LEMMA FailedType ==
    ASSUME TypeOK, NEW s \in Slots, NEW reason \in Reasons, NEW entry \in Entries,
           Failed(s, reason, entry)
    PROVE  states' \subseteq TargetStates /\ inv' \in Inventories
<1>1. [slot |-> s, reason |-> reason, gc |-> FALSE] \in TargetStates
  BY TargetStateType
<1>2. states' \subseteq TargetStates
  BY <1>1 DEF TypeOK, Failed
<1>3. inv' \in Inventories
  BY DEF TypeOK, Failed, Inventories
<1> QED
  BY <1>2, <1>3

\* A failed cleanup keeps states and inventory well typed.
LEMMA GCFailedType ==
    ASSUME TypeOK, NEW s \in Slots, NEW reason \in Reasons, GCFailed(s, reason)
    PROVE  states' \subseteq TargetStates /\ inv' \in Inventories
<1>1. [slot |-> s, reason |-> reason, gc |-> TRUE] \in TargetStates
  BY TargetStateType
<1> QED
  BY <1>1 DEF TypeOK, GCFailed

\* Dropping an entry keeps states and inventory well typed.
LEMMA dropEntryType ==
    ASSUME TypeOK, NEW s \in Slots, dropEntry(s)
    PROVE  states' \subseteq TargetStates /\ inv' \in Inventories
BY DEF TypeOK, dropEntry, Inventories, Entries

\* An error of the transport is classified as one of the reasons.
LEMMA TransportReason == \A s \in Slots : classifyTransportErr(s) \in Reasons
BY DEF classifyTransportErr, Reasons

\* The worker's inventory has an entry for every slot.
LEMMA InventoryEntry == TypeOK => \A s \in Slots : inv[s] \in Entries
BY DEF TypeOK, Inventories

\* A slot has a key and a cluster of the instance.
LEMMA KeyOfType == \A s \in Slots : KeyOf(s) \in Keys /\ s.cluster \in Clusters
BY DEF Keys, Clusters

\* Ensuring the namespace of a target preserves the types.
LEMMA ensureNamespaceType == TypeOK /\ ensureNamespace => TypeOK'
<1> SUFFICES ASSUME TypeOK, ensureNamespace PROVE TypeOK'
  OBVIOUS
<1>1. PICK s \in todo :
        /\ todo' = todo \ {s}
        /\ \/ \E reason \in Reasons, entry \in Entries :
                 Failed(s, reason, entry) /\ NextTarget /\ UNCHANGED namespaces
           \/ /\ namespaces' = namespaces \cup {KeyOf(s)}
              /\ cur' = s /\ pc' = "get"
              /\ UNCHANGED <<inv, states, seen>>
  BY TransportReason, InventoryEntry DEF ensureNamespace, TypeOK, Reasons, Entries
<1>2. s \in Slots
  BY DEF TypeOK
<1>3. namespaces' \subseteq Keys /\ todo' \subseteq Slots /\ states' \subseteq TargetStates
      /\ inv' \in Inventories /\ cur' \in Slots \cup {NoSlot} /\ seen' \in Objects(Contents)
      /\ pc' \in {"targets", "get"}
  BY <1>1, <1>2, FailedType, KeyOfType, NoObjType DEF NextTarget, TypeOK
<1> QED
  BY <1>3 DEF TypeOK, ensureNamespace, loopUnchanged, clusterUnchanged,
              hubVars, inputVars, procVars

\* While a slot is being visited, cur is that slot and the source has been read.
CurOK ==
    /\ pc \in {"get", "adopt", "write", "recreate", "reapply", "delete"} => cur \in Slots
    /\ pc \in {"persist", "get", "adopt", "write", "recreate", "reapply"}
          => snap.content \in Contents
    /\ pc = "targets" /\ todo # {} => snap.content \in Contents
    /\ pc = "idle" => todo = {}
    /\ pc \in {"idle", "finalizer", "evaluate", "persist", "targets", "gc"} => cur = NoSlot

\* The tail of applyTarget after a success keeps the loop variables well typed.
LEMMA SucceededType ==
    ASSUME TypeOK, cur \in Slots, Succeeded
    PROVE  /\ states' \subseteq TargetStates /\ inv' \in Inventories
           /\ pc' = "targets" /\ cur' = NoSlot /\ seen' = NoObj
BY DEF TypeOK, Succeeded, NextTarget, Inventories, Entries

\* Rendered and adopted objects are well typed.
LEMMA AppliedType ==
    ASSUME TypeOK, cur \in Slots
    PROVE  /\ Rendered(obj[cur], snap.content) \in Objects(Contents)
           /\ AdoptPatch(obj[cur], snap.content) \in Objects(Contents)
<1>1. obj[cur] \in Objects(Contents) /\ snap.content \in Contents \cup {"none"}
  BY DEF TypeOK
<1>2. obj[cur].extra \in BOOLEAN /\ obj[cur].content \in Contents \cup {"none"}
  <2>1. CASE obj[cur] = NoObj
    BY <2>1 DEF NoObj
  <2>2. CASE obj[cur] \in [managed : BOOLEAN, uid : UIDs, content : Contents \cup {"none"},
                           extra : BOOLEAN, ann : Contents \cup {"none"}]
    BY <2>2
  <2> QED
    BY <1>1, <2>1, <2>2 DEF Objects
<1> DEFINE R == [managed : BOOLEAN, uid : UIDs, content : Contents \cup {"none"},
                 extra : BOOLEAN, ann : Contents \cup {"none"}]
<1>3. Rendered(obj[cur], snap.content) \in R
  BY <1>1, <1>2 DEF Rendered, UIDs
<1>4. AdoptPatch(obj[cur], snap.content) \in R
  BY <1>1, <1>2 DEF AdoptPatch, UIDs
<1> QED
  BY <1>3, <1>4 DEF Objects

\* The outcome of a write to one slot.
LEMMA WriteType ==
    ASSUME TypeOK, NEW s \in Slots, NEW o \in Objects(Contents),
           WriteOk(s, o) \/ WriteFailed(s, o)
    PROVE  obj' \in [Slots -> Objects(Contents)]
BY DEF TypeOK, WriteOk, WriteFailed

\* A failed target followed by the next one keeps the loop variables well typed.
LEMMA NextTargetFailedType ==
    ASSUME TypeOK, cur \in Slots, NEW reason \in Reasons, NEW entry \in Entries,
           Failed(cur, reason, entry), NextTarget
    PROVE  /\ states' \subseteq TargetStates /\ inv' \in Inventories
           /\ pc' = "targets" /\ cur' = NoSlot /\ seen' = NoObj
BY FailedType DEF NextTarget

\* A server-side apply, whatever its outcome, keeps spoke and loop variables well typed.
LEMMA ApplyObjectType ==
    ASSUME TypeOK, cur \in Slots, NEW o \in Objects(Contents), ApplyObject(o)
    PROVE  /\ states' \subseteq TargetStates /\ inv' \in Inventories
           /\ pc' = "targets" /\ cur' = NoSlot /\ seen' = NoObj
           /\ obj' \in [Slots -> Objects(Contents)]
<1>1. CASE WriteOk(cur, o) /\ Succeeded
  BY <1>1, WriteType, SucceededType
<1>2. CASE /\ WriteFailed(cur, o) \/ UNCHANGED obj
           /\ Failed(cur, classifyTransportErr(cur), inv[cur])
           /\ NextTarget
  <2>1. obj' \in [Slots -> Objects(Contents)]
    BY <1>2, WriteType DEF TypeOK
  <2>2. classifyTransportErr(cur) \in Reasons /\ inv[cur] \in Entries
    BY TransportReason, InventoryEntry
  <2> QED
    BY <1>2, <2>1, <2>2, NextTargetFailedType
<1> QED
  BY <1>1, <1>2 DEF ApplyObject

\* The live read of a target and its decision preserve the types.
LEMMA GetExistingType == TypeOK /\ CurOK /\ GetExisting => TypeOK'
<1> SUFFICES ASSUME TypeOK, CurOK, GetExisting PROVE TypeOK'
  OBVIOUS
<1>0. cur \in Slots
  BY DEF CurOK, GetExisting
<1>1. /\ states' \subseteq TargetStates /\ inv' \in Inventories
      /\ pc' \in {"targets", "write", "adopt"} /\ cur' \in Slots \cup {NoSlot}
      /\ seen' \in Objects(Contents)
  <2>1. CASE \E reason \in Reasons, entry \in Entries :
                Failed(cur, reason, entry) /\ NextTarget
    BY <1>0, <2>1, NextTargetFailedType, NoObjType
  <2>2. CASE /\ pc' \in {"write", "adopt"} /\ seen' = obj[cur]
             /\ UNCHANGED <<inv, states, cur>>
    BY <1>0, <2>2 DEF TypeOK
  <2>3. CASE Succeeded
    BY <1>0, <2>3, SucceededType, NoObjType
  <2>4. classifyTransportErr(cur) \in Reasons /\ inv[cur] \in Entries
        /\ "Conflict" \in Reasons /\ "none" \in Entries
    BY <1>0, TransportReason, InventoryEntry DEF Reasons, Entries
  <2> QED
    BY <2>1, <2>2, <2>3, <2>4 DEF GetExisting
<1> QED
  BY <1>1 DEF TypeOK, GetExisting, loopUnchanged, hubVars, inputVars, spokeVars, procVars

\* Adopting an object preserves the types.
LEMMA AdoptType == TypeOK /\ CurOK /\ Adopt => TypeOK'
<1> SUFFICES ASSUME TypeOK, CurOK, Adopt PROVE TypeOK'
  OBVIOUS
<1>0. cur \in Slots
  BY DEF CurOK, Adopt
<1>1. /\ states' \subseteq TargetStates /\ inv' \in Inventories
      /\ pc' = "targets" /\ cur' = NoSlot /\ seen' = NoObj
      /\ obj' \in [Slots -> Objects(Contents)]
  BY <1>0, AppliedType, ApplyObjectType DEF Adopt
<1> QED
  BY <1>1, NoObjType DEF TypeOK, Adopt, loopUnchanged, clusterUnchanged,
     hubVars, inputVars, procVars

\* Applying a replica preserves the types.
LEMMA ApplyReplicaType == TypeOK /\ CurOK /\ ApplyReplica => TypeOK'
<1> SUFFICES ASSUME TypeOK, CurOK, ApplyReplica PROVE TypeOK'
  OBVIOUS
<1>0. cur \in Slots
  BY DEF CurOK, ApplyReplica
<1>1. /\ states' \subseteq TargetStates /\ inv' \in Inventories
      /\ pc' \in {"targets", "recreate"} /\ cur' \in Slots \cup {NoSlot}
      /\ seen' \in Objects(Contents) /\ obj' \in [Slots -> Objects(Contents)]
  <2>1. CASE ApplyObject(Rendered(obj[cur], snap.content))
    BY <1>0, <2>1, AppliedType, ApplyObjectType, NoObjType
  <2>2. CASE pc' = "recreate" /\ UNCHANGED <<obj, inv, states, cur, seen>>
    BY <2>2 DEF TypeOK
  <2>3. CASE UNCHANGED obj /\ Failed(cur, "ApplyFailed", inv[cur]) /\ NextTarget
    <3>1. "ApplyFailed" \in Reasons /\ inv[cur] \in Entries
      BY <1>0, InventoryEntry DEF Reasons
    <3>2. obj' \in [Slots -> Objects(Contents)]
      BY <2>3 DEF TypeOK
    <3> QED
      BY <1>0, <2>3, <3>1, <3>2, NextTargetFailedType, NoObjType
  <2> QED
    BY <2>1, <2>2, <2>3 DEF ApplyReplica
<1> QED
  BY <1>1 DEF TypeOK, ApplyReplica, loopUnchanged, clusterUnchanged,
     hubVars, inputVars, procVars

\* Deleting an immutable object before it is applied anew preserves the types.
LEMMA RecreateDeleteType == TypeOK /\ CurOK /\ RecreateDelete => TypeOK'
<1> SUFFICES ASSUME TypeOK, CurOK, RecreateDelete PROVE TypeOK'
  OBVIOUS
<1>0. cur \in Slots
  BY DEF CurOK, RecreateDelete
<1>1. obj' \in [Slots -> Objects(Contents)]
  BY <1>0, WriteType, NoObjType DEF RecreateDelete
<1>2. /\ states' \subseteq TargetStates /\ inv' \in Inventories
      /\ pc' \in {"targets", "reapply"} /\ cur' \in Slots \cup {NoSlot}
      /\ seen' \in Objects(Contents)
  <2>1. CASE pc' = "reapply" /\ UNCHANGED <<inv, states, cur, seen>>
    BY <2>1 DEF TypeOK
  <2>2. CASE Failed(cur, classifyTransportErr(cur), inv[cur]) /\ NextTarget
    <3>1. classifyTransportErr(cur) \in Reasons /\ inv[cur] \in Entries
      BY <1>0, TransportReason, InventoryEntry
    <3> QED
      BY <1>0, <2>2, <3>1, NextTargetFailedType, NoObjType
  <2> QED
    BY <2>1, <2>2 DEF RecreateDelete
<1> QED
  BY <1>1, <1>2 DEF TypeOK, RecreateDelete, loopUnchanged, clusterUnchanged,
     hubVars, inputVars, procVars

\* Applying a replica anew after its deletion preserves the types.
LEMMA RecreateApplyType == TypeOK /\ CurOK /\ RecreateApply => TypeOK'
<1> SUFFICES ASSUME TypeOK, CurOK, RecreateApply PROVE TypeOK'
  OBVIOUS
<1>0. cur \in Slots
  BY DEF CurOK, RecreateApply
<1>1. /\ states' \subseteq TargetStates /\ inv' \in Inventories
      /\ pc' = "targets" /\ cur' = NoSlot /\ seen' = NoObj
      /\ obj' \in [Slots -> Objects(Contents)]
  BY <1>0, AppliedType, ApplyObjectType DEF RecreateApply
<1> QED
  BY <1>1, NoObjType DEF TypeOK, RecreateApply, loopUnchanged, clusterUnchanged,
     hubVars, inputVars, procVars

\* Planning the garbage collection preserves the types.
LEMMA PlanGCType == TypeOK /\ PlanGC => TypeOK'
<1> SUFFICES ASSUME TypeOK, PlanGC PROVE TypeOK'
  OBVIOUS
<1>1. inv' \in Inventories
  BY DEF PlanGC, TypeOK, Inventories, Entries
<1>2. GCTodo \subseteq Slots
  BY DEF GCTodo
<1>3. released' \subseteq Slots /\ todo' \subseteq Slots /\ pc' = "gc"
  BY <1>2 DEF PlanGC, TypeOK
<1> QED
  BY <1>1, <1>3 DEF TypeOK, PlanGC, hubVars, inputVars, spokeVars, procVars

\* The safety gate of collectGarbage preserves the types.
LEMMA GCGetType == TypeOK /\ GCGet => TypeOK'
<1> SUFFICES ASSUME TypeOK, GCGet PROVE TypeOK'
  OBVIOUS
<1>1. PICK s \in todo :
        /\ todo' = todo \ {s}
        /\ \/ \E reason \in Reasons : GCFailed(s, reason) /\ UNCHANGED <<pc, cur, seen>>
           \/ dropEntry(s) /\ UNCHANGED <<pc, cur, seen>>
           \/ pc' = "delete" /\ cur' = s /\ seen' = obj[s] /\ UNCHANGED <<inv, states>>
  <2>1. \A s \in todo : classifyTransportErr(s) \in Reasons
    BY TransportReason DEF TypeOK
  <2>2. "ApplyFailed" \in Reasons
    BY DEF Reasons
  <2> QED
    BY <2>1, <2>2 DEF GCGet
<1>2. s \in Slots
  BY DEF TypeOK
<1>3. /\ states' \subseteq TargetStates /\ inv' \in Inventories /\ todo' \subseteq Slots
      /\ pc' \in {"gc", "delete"} /\ cur' \in Slots \cup {NoSlot}
      /\ seen' \in Objects(Contents)
  <2>1. CASE \E reason \in Reasons : GCFailed(s, reason) /\ UNCHANGED <<pc, cur, seen>>
    BY <1>1, <1>2, <2>1, GCFailedType DEF TypeOK, GCGet
  <2>2. CASE dropEntry(s) /\ UNCHANGED <<pc, cur, seen>>
    BY <1>1, <1>2, <2>2, dropEntryType DEF TypeOK, GCGet
  <2>3. CASE pc' = "delete" /\ cur' = s /\ seen' = obj[s] /\ UNCHANGED <<inv, states>>
    BY <1>1, <1>2, <2>3 DEF TypeOK
  <2> QED
    BY <1>1, <2>1, <2>2, <2>3
<1> QED
  BY <1>3 DEF TypeOK, GCGet, loopUnchanged, hubVars, inputVars, spokeVars, procVars

\* Deleting a replica preserves the types.
LEMMA GCDeleteType == TypeOK /\ CurOK /\ GCDelete => TypeOK'
<1> SUFFICES ASSUME TypeOK, CurOK, GCDelete PROVE TypeOK'
  OBVIOUS
<1>0. cur \in Slots /\ classifyTransportErr(cur) \in Reasons
  BY TransportReason DEF CurOK, GCDelete
<1>1. obj' \in [Slots -> Objects(Contents)]
  BY <1>0, WriteType, NoObjType DEF GCDelete
<1>2. states' \subseteq TargetStates /\ inv' \in Inventories
  BY <1>0, GCFailedType, dropEntryType DEF GCDelete
<1> QED
  BY <1>1, <1>2, NoObjType DEF TypeOK, GCDelete, loopUnchanged, clusterUnchanged,
     hubVars, inputVars, procVars

\* A status write leaves a well-typed Replication, whether it is skipped,
\* accepted or refused.
LEMMA WriteStatusType ==
    ASSUME TypeOK, NEW S \in SUBSET TargetStates, NEW i \in Inventories, NEW b \in BOOLEAN,
           writeStatusIfChanged(buildStatus(S, i, b))
    PROVE  rep' \in Replications /\ cache' \in [rep : Replications, fresh : BOOLEAN]
<1>1. buildStatus(S, i, b) \in Replications
  BY BuildStatusType DEF TypeOK
<1>2. CASE UNCHANGED hubVars
  BY <1>2 DEF TypeOK, hubVars
<1>3. CASE Store(buildStatus(S, i, b))
  BY <1>1, <1>3, StoreType
<1> QED
  BY <1>2, <1>3 DEF writeStatusIfChanged

\* A reconcile that ends early with a reason preserves the types.
LEMMA FinishSimpleType == TypeOK /\ FinishSimple => TypeOK'
<1> SUFFICES ASSUME TypeOK, FinishSimple PROVE TypeOK'
  OBVIOUS
<1> DEFINE t == [slot |-> NoSlot, gc |-> FALSE,
                 reason |-> IF kindAllowed THEN "SourceMissing" ELSE "ApplyFailed"]
<1>1. {t} \in SUBSET TargetStates
  BY DEF TargetStates, Reasons
<1>2. my.inv \in Inventories
  BY DEF TypeOK, Replications
<1>3. writeStatusIfChanged(buildStatus({t}, my.inv, FALSE))
  BY DEF FinishSimple
<1> HIDE DEF t
<1>4. rep' \in Replications /\ cache' \in [rep : Replications, fresh : BOOLEAN]
  BY <1>1, <1>2, <1>3, WriteStatusType
<1> QED
  BY <1>4, ReturnType DEF TypeOK, FinishSimple, inputVars, spokeVars, procVars

\* Writing the status at the end of a reconcile preserves the types.
LEMMA WriteStatusStepType == TypeOK /\ WriteStatus => TypeOK'
<1> SUFFICES ASSUME TypeOK, WriteStatus PROVE TypeOK'
  OBVIOUS
<1>1. retainedAny \in BOOLEAN
  BY DEF retainedAny
<1>2. rep' \in Replications /\ cache' \in [rep : Replications, fresh : BOOLEAN]
  BY <1>1, WriteStatusType DEF WriteStatus, TypeOK
<1> QED
  BY <1>2, ReturnType DEF TypeOK, WriteStatus, inputVars, spokeVars, procVars

\* The end of reconcileDeletion preserves the types.
LEMMA RemoveFinalizerType == TypeOK /\ RemoveFinalizer => TypeOK'
<1> SUFFICES ASSUME TypeOK, RemoveFinalizer PROVE TypeOK'
  OBVIOUS
<1>1. rep' \in Replications /\ cache' \in [rep : Replications, fresh : BOOLEAN]
  <2>1. CASE Store(Gone)
    BY <2>1, StoreType, GoneType
  <2> QED
    BY <2>1 DEF RemoveFinalizer, TypeOK, hubVars
<1>2. lastResult' \in [Keys -> SUBSET PolicyNames]
  BY DEF RemoveFinalizer, TypeOK
<1> QED
  BY <1>1, <1>2, ReturnType DEF TypeOK, RemoveFinalizer, inputVars, spokeVars

-----------------------------------------------------------------------------
\* Environment steps keep the types

\* A disturbance uses up one unit of the budget.
LEMMA DisturbType ==
    ASSUME TypeOK, NEW kind, Disturb(kind)
    PROVE  budget' \in 0..MaxDisturbances
BY BoundsAssumption DEF TypeOK, Disturb

\* Another writer of the Replication changes nothing but the object, its cached
\* copy and the currency of the worker's copy.
LEMMA OthersStoreType ==
    ASSUME TypeOK, NEW r \in Replications, OthersStore(r),
           budget' \in 0..MaxDisturbances,
           UNCHANGED <<inputVars, spokeVars, procVars, released>>
    PROVE  TypeOK'
<1>1. rep' \in Replications /\ cache' \in [rep : Replications, fresh : BOOLEAN]
  BY StoreType DEF OthersStore
<1> QED
  BY <1>1 DEF TypeOK, OthersStore, inputVars, spokeVars, procVars

\* Edits of the Replication by users and by the request controllers.
LEMMA ReplicationEditType ==
    TypeOK /\ (Retarget \/ DeleteReplication \/ CreateReplication \/ MarkNotAuthoritative)
        => TypeOK'
<1> SUFFICES ASSUME TypeOK PROVE
      Retarget \/ DeleteReplication \/ CreateReplication \/ MarkNotAuthoritative => TypeOK'
  OBVIOUS
<1>0. rep \in Replications
  BY DEF TypeOK
<1>1. ASSUME Retarget PROVE TypeOK'
  <2>1. PICK T \in InitTargets : OthersStore([rep EXCEPT !.targets = T])
    BY <1>1 DEF Retarget
  <2>2. [rep EXCEPT !.targets = T] \in Replications
    BY <1>0, SlotsAssumption DEF Replications
  <2>3. budget' \in 0..MaxDisturbances
    BY <1>1, DisturbType DEF Retarget
  <2> QED
    BY <1>1, <2>1, <2>2, <2>3, OthersStoreType DEF Retarget
<1>2. ASSUME DeleteReplication PROVE TypeOK'
  <2>1. [rep EXCEPT !.deleting = TRUE] \in Replications
    BY <1>0 DEF Replications
  <2>2. (IF rep.finalizer THEN [rep EXCEPT !.deleting = TRUE] ELSE Gone) \in Replications
    BY <2>1, GoneType
  <2>3. budget' \in 0..MaxDisturbances
    BY <1>2, DisturbType DEF DeleteReplication
  <2> QED
    BY <1>2, <2>2, <2>3, OthersStoreType DEF DeleteReplication
<1>3. ASSUME CreateReplication PROVE TypeOK'
  <2>1. PICK T \in InitTargets : OthersStore(Created(T, TRUE))
    BY <1>3 DEF CreateReplication
  <2>2. Created(T, TRUE) \in Replications
    BY SlotsAssumption, CreatedType
  <2>3. budget' \in 0..MaxDisturbances
    BY <1>3, DisturbType DEF CreateReplication
  <2> QED
    BY <1>3, <2>1, <2>2, <2>3, OthersStoreType DEF CreateReplication
<1>4. ASSUME MarkNotAuthoritative PROVE TypeOK'
  <2>1. [rep EXCEPT !.ready = "NotAuthoritative"] \in Replications
    BY <1>0 DEF Replications, ReadyReasons
  <2>2. budget' \in 0..MaxDisturbances
    BY <1>4 DEF MarkNotAuthoritative, TypeOK
  <2> QED
    BY <1>4, <2>1, <2>2, OthersStoreType DEF MarkNotAuthoritative
<1> QED
  BY <1>1, <1>2, <1>3, <1>4

\* Edits of the source and of the policies, and the informer catching up.
LEMMA InputEditType ==
    TypeOK /\ (EditSource \/ RemoveSource \/ EditPolicies \/ CacheSync) => TypeOK'
<1> SUFFICES ASSUME TypeOK PROVE
      EditSource \/ RemoveSource \/ EditPolicies \/ CacheSync => TypeOK'
  OBVIOUS
<1>1. ASSUME EditSource PROVE TypeOK'
  <2>1. source' \in [present : BOOLEAN, content : Contents, requested : ConflictPolicies]
    BY <1>1, SlotsAssumption DEF EditSource, TypeOK
  <2>2. budget' \in 0..MaxDisturbances
    BY <1>1, DisturbType DEF EditSource
  <2> QED
    BY <1>1, <2>1, <2>2 DEF EditSource, TypeOK, hubVars, spokeVars, procVars, workVars
<1>2. ASSUME RemoveSource PROVE TypeOK'
  <2>1. source' \in [present : BOOLEAN, content : Contents, requested : ConflictPolicies]
    BY <1>2 DEF RemoveSource, TypeOK
  <2>2. budget' \in 0..MaxDisturbances
    BY <1>2, DisturbType DEF RemoveSource
  <2> QED
    BY <1>2, <2>1, <2>2 DEF RemoveSource, TypeOK, hubVars, spokeVars, procVars, workVars
<1>3. ASSUME EditPolicies PROVE TypeOK'
  <2>1. budget' \in 0..MaxDisturbances
    BY <1>3, DisturbType DEF EditPolicies
  <2> QED
    BY <1>3, <2>1 DEF EditPolicies, TypeOK, hubVars, spokeVars, procVars, workVars
<1>4. ASSUME CacheSync PROVE TypeOK'
  BY <1>4 DEF CacheSync, TypeOK, inputVars, spokeVars, procVars, workVars
<1> QED
  BY <1>1, <1>2, <1>3, <1>4

\* Clusters joining, leaving, connecting and becoming unreachable.
LEMMA ClusterType ==
    TypeOK /\ (ChangeFleet \/ ProviderSync \/ Attach \/ ChangeLink) => TypeOK'
<1> SUFFICES ASSUME TypeOK PROVE
      ChangeFleet \/ ProviderSync \/ Attach \/ ChangeLink => TypeOK'
  OBVIOUS
<1>1. ASSUME ChangeFleet PROVE TypeOK'
  <2>1. fleet' \subseteq Clusters
    BY <1>1 DEF ChangeFleet, TypeOK
  <2>2. budget' \in 0..MaxDisturbances
    BY <1>1, DisturbType DEF ChangeFleet
  <2> QED
    BY <1>1, <2>1, <2>2 DEF ChangeFleet, TypeOK, hubUnchanged, hubVars, inputVars,
       procVars, workVars
<1>2. ASSUME ProviderSync PROVE TypeOK'
  <2>1. known' \subseteq Clusters /\ link' \in [Clusters -> {"up", "down", "detached"}]
    BY <1>2 DEF ProviderSync, TypeOK
  <2> QED
    BY <1>2, <2>1 DEF ProviderSync, TypeOK, hubUnchanged, hubVars, inputVars,
       procVars, workVars
<1>3. ASSUME Attach PROVE TypeOK'
  <2>1. link' \in [Clusters -> {"up", "down", "detached"}]
    BY <1>3 DEF Attach, TypeOK
  <2> QED
    BY <1>3, <2>1 DEF Attach, TypeOK, hubUnchanged, hubVars, inputVars, procVars, workVars
<1>4. ASSUME ChangeLink PROVE TypeOK'
  <2>1. link' \in [Clusters -> {"up", "down", "detached"}]
    BY <1>4 DEF ChangeLink, TypeOK
  <2>2. budget' \in 0..MaxDisturbances
    BY <1>4, DisturbType DEF ChangeLink
  <2> QED
    BY <1>4, <2>1, <2>2 DEF ChangeLink, TypeOK, hubUnchanged, hubVars, inputVars,
       procVars, workVars
<1> QED
  BY <1>1, <1>2, <1>3, <1>4

\* What other actors do to a spoke leaves a well-typed object at every slot.
LEMMA SpokeObjType ==
    ASSUME TypeOK, NEW s \in Slots, obj[s] # NoObj
    PROVE  /\ \A c \in Contents : [obj[s] EXCEPT !.content = c] \in Objects(Contents)
           /\ [obj[s] EXCEPT !.managed = FALSE] \in Objects(Contents)
           /\ [obj[s] EXCEPT !.uid = "none"] \in Objects(Contents)
           /\ [obj[s] EXCEPT !.extra = ~@] \in Objects(Contents)
<1> DEFINE R == [managed : BOOLEAN, uid : UIDs, content : Contents \cup {"none"},
                 extra : BOOLEAN, ann : Contents \cup {"none"}]
<1>1. obj[s] \in R
  BY DEF TypeOK, Objects
<1>2. /\ \A c \in Contents : [obj[s] EXCEPT !.content = c] \in R
      /\ [obj[s] EXCEPT !.managed = FALSE] \in R
      /\ [obj[s] EXCEPT !.uid = "none"] \in R
      /\ [obj[s] EXCEPT !.extra = ~@] \in R
  BY <1>1 DEF UIDs
<1> QED
  BY <1>2 DEF Objects

\* What others do on a spoke preserves the types.
LEMMA SpokeType ==
    TypeOK /\ (ChangeNamespace \/ SpokeReplace \/ SpokeEdit \/ SpokeAddKey) => TypeOK'
<1> SUFFICES ASSUME TypeOK PROVE
      ChangeNamespace \/ SpokeReplace \/ SpokeEdit \/ SpokeAddKey => TypeOK'
  OBVIOUS
<1>0. obj \in [Slots -> Objects(Contents)]
  BY DEF TypeOK
<1>1. ASSUME ChangeNamespace PROVE TypeOK'
  <2>1. namespaces' \subseteq Keys /\ obj' \in [Slots -> Objects(Contents)]
    BY <1>1, NoObjType DEF ChangeNamespace, TypeOK
  <2>2. budget' \in 0..MaxDisturbances
    BY <1>1, DisturbType DEF ChangeNamespace
  <2> QED
    BY <1>1, <2>1, <2>2 DEF ChangeNamespace, TypeOK, hubUnchanged, clusterUnchanged,
       hubVars, inputVars, procVars, workVars
<1>2. ASSUME SpokeReplace PROVE TypeOK'
  <2>1. obj' \in [Slots -> Objects(Contents)]
    BY <1>0, <1>2, NoObjType, ForeignAssumption DEF SpokeReplace
  <2>2. budget' \in 0..MaxDisturbances
    BY <1>2, DisturbType DEF SpokeReplace
  <2> QED
    BY <1>2, <2>1, <2>2 DEF SpokeReplace, TypeOK, hubUnchanged, clusterUnchanged,
       hubVars, inputVars, procVars, workVars
<1>3. ASSUME SpokeEdit PROVE TypeOK'
  <2>1. PICK s \in Slots :
          /\ obj[s] # NoObj
          /\ \/ \E c \in Contents : obj' = [obj EXCEPT ![s].content = c]
             \/ obj' = [obj EXCEPT ![s].managed = FALSE]
             \/ obj' = [obj EXCEPT ![s].uid = "none"]
    BY <1>3 DEF SpokeEdit
  <2>2. obj' \in [Slots -> Objects(Contents)]
    BY <1>0, <2>1, SpokeObjType
  <2>3. budget' \in 0..MaxDisturbances
    BY <1>3, DisturbType DEF SpokeEdit
  <2> QED
    BY <1>3, <2>2, <2>3 DEF SpokeEdit, TypeOK, hubUnchanged, clusterUnchanged,
       hubVars, inputVars, procVars, workVars
<1>4. ASSUME SpokeAddKey PROVE TypeOK'
  <2>1. PICK s \in Slots : obj[s] # NoObj /\ obj' = [obj EXCEPT ![s].extra = ~@]
    BY <1>4 DEF SpokeAddKey
  <2>2. obj' \in [Slots -> Objects(Contents)]
    BY <1>0, <2>1, SpokeObjType
  <2>3. budget' \in 0..MaxDisturbances
    BY <1>4, DisturbType DEF SpokeAddKey
  <2> QED
    BY <1>4, <2>2, <2>3 DEF SpokeAddKey, TypeOK, hubUnchanged, clusterUnchanged,
       hubVars, inputVars, procVars, workVars
<1> QED
  BY <1>1, <1>2, <1>3, <1>4

\* A crash resets the process to well-typed values.
LEMMA CrashType == TypeOK /\ Crash => TypeOK'
<1> SUFFICES ASSUME TypeOK, Crash PROVE TypeOK'
  OBVIOUS
<1>1. budget' \in 0..MaxDisturbances
  BY DisturbType DEF Crash
<1>2. /\ lastResult' \in [Keys -> SUBSET PolicyNames]
      /\ link' \in [Clusters -> {"up", "down", "detached"}]
      /\ known' \subseteq Clusters
      /\ cache' \in [rep : Replications, fresh : BOOLEAN]
      /\ kindAllowed' \in BOOLEAN
  BY DEF Crash, TypeOK
<1> QED
  BY <1>1, <1>2, ReturnType DEF Crash, TypeOK, inputVars

-----------------------------------------------------------------------------
\* The slot being visited

\* Every step keeps the worker's program counter and its current slot in tune.
LEMMA CurOKStep == TypeOK /\ CurOK /\ [Next]_vars => CurOK'
<1> SUFFICES ASSUME TypeOK, CurOK, [Next]_vars PROVE CurOK'
  OBVIOUS
<1>1. CASE UNCHANGED <<pc, cur, snap, todo>>
  BY <1>1 DEF CurOK
<1>2. CASE Return
  BY <1>2 DEF Return, CurOK
<1>3. CASE StartReconcile
  BY <1>3 DEF StartReconcile, CurOK
<1>4. CASE AddFinalizer
  BY <1>2, <1>4 DEF AddFinalizer, UpdateRefused, CurOK
<1>5. CASE FinishSimple \/ WriteStatus \/ RemoveFinalizer \/ Crash
  BY <1>2, <1>5 DEF FinishSimple, WriteStatus, RemoveFinalizer, Crash
<1>6. CASE EvaluateTargets
  <2>1. /\ pc = "evaluate" /\ pc' \in {"persist", "targets"} /\ snap'.content \in Contents
        /\ UNCHANGED cur
    BY <1>6 DEF EvaluateTargets, TypeOK
  <2> QED
    BY <2>1 DEF CurOK
<1>7. CASE PersistPlan
  BY <1>2, <1>7 DEF PersistPlan, UpdateRefused, CurOK
<1>8. CASE ensureNamespace
  BY <1>8 DEF ensureNamespace, NextTarget, CurOK, TypeOK, loopUnchanged
<1>9. CASE GetExisting
  BY <1>9 DEF GetExisting, NextTarget, Succeeded, CurOK, loopUnchanged
<1>10. CASE Adopt \/ ApplyReplica \/ RecreateDelete \/ RecreateApply
  BY <1>10 DEF Adopt, ApplyReplica, RecreateDelete, RecreateApply, ApplyObject,
     NextTarget, Succeeded, CurOK, loopUnchanged
<1>11. CASE PlanGC
  BY <1>11 DEF PlanGC, CurOK
<1>12. CASE GCGet
  BY <1>12 DEF GCGet, CurOK, TypeOK, loopUnchanged
<1>13. CASE GCDelete
  BY <1>13 DEF GCDelete, CurOK
<1>14. CASE Environment /\ ~Crash
  BY <1>1, <1>14 DEF Environment, Retarget, DeleteReplication, CreateReplication,
     MarkNotAuthoritative, OthersStore, EditSource, RemoveSource, EditPolicies, CacheSync,
     ChangeFleet, ProviderSync, Attach, ChangeLink, ChangeNamespace, SpokeReplace,
     SpokeEdit, SpokeAddKey, hubUnchanged, workVars
<1>15. CASE UNCHANGED vars
  BY <1>1, <1>15 DEF vars
<1> QED
  BY <1>3, <1>4, <1>5, <1>6, <1>7, <1>8, <1>9, <1>10, <1>11, <1>12, <1>13, <1>14, <1>15
     DEF Next, Reconcile, Idle

\* Every step keeps the types, given that the visited slot is a slot.
LEMMA TypeStep == TypeOK /\ CurOK /\ [Next]_vars => TypeOK'
<1> SUFFICES ASSUME TypeOK, CurOK, [Next]_vars PROVE TypeOK'
  OBVIOUS
<1>1. CASE Reconcile
  BY <1>1, StartReconcileType, AddFinalizerType, EvaluateTargetsType, PersistPlanType,
     ensureNamespaceType, GetExistingType, AdoptType, ApplyReplicaType, RecreateDeleteType,
     RecreateApplyType, PlanGCType, GCGetType, GCDeleteType, FinishSimpleType,
     WriteStatusStepType, RemoveFinalizerType
     DEF Reconcile
<1>2. CASE Environment
  BY <1>2, ReplicationEditType, InputEditType, ClusterType, SpokeType, CrashType
     DEF Environment
<1>3. CASE UNCHANGED vars
  BY <1>3 DEF vars, TypeOK
<1> QED
  BY <1>1, <1>2, <1>3 DEF Next, Idle

\* Type correctness of the engine for every fleet, request and policy history:
\* whatever crashes, fails or is changed by others between two of its calls, the
\* engine never stores a malformed status, inventory or replica.
THEOREM TypeCorrect == Spec => []TypeOK
<1>1. Init => TypeOK /\ CurOK
  BY InitType DEF Init, CurOK
<1>2. TypeOK /\ CurOK /\ [Next]_vars => TypeOK' /\ CurOK'
  BY TypeStep, CurOKStep
<1> QED
  BY <1>1, <1>2, PTL DEF Spec

-----------------------------------------------------------------------------
\* Which step touches what

\* The steps of the engine that leave every object and every namespace alone.
LEMMA QuietSteps ==
    ASSUME \/ StartReconcile \/ AddFinalizer \/ FinishSimple \/ EvaluateTargets
           \/ PersistPlan \/ GetExisting \/ PlanGC \/ GCGet \/ WriteStatus
           \/ RemoveFinalizer
    PROVE  UNCHANGED <<obj, namespaces>>
<1>1. CASE StartReconcile \/ AddFinalizer \/ FinishSimple \/ EvaluateTargets \/ PersistPlan
  BY <1>1 DEF StartReconcile, AddFinalizer, FinishSimple, EvaluateTargets, PersistPlan,
     spokeVars
<1>2. CASE GetExisting \/ PlanGC \/ GCGet \/ WriteStatus \/ RemoveFinalizer
  BY <1>2 DEF GetExisting, PlanGC, GCGet, WriteStatus, RemoveFinalizer, spokeVars
<1> QED
  BY <1>1, <1>2

\* The environment steps that leave every object and every namespace alone.
LEMMA QuietEnvironment ==
    ASSUME \/ Retarget \/ DeleteReplication \/ CreateReplication \/ MarkNotAuthoritative
           \/ EditSource \/ RemoveSource \/ EditPolicies \/ CacheSync
           \/ ChangeFleet \/ ProviderSync \/ Attach \/ ChangeLink \/ Crash
    PROVE  UNCHANGED <<obj, namespaces>>
BY DEF Retarget, DeleteReplication, CreateReplication, MarkNotAuthoritative, EditSource,
   RemoveSource, EditPolicies, CacheSync, ChangeFleet, ProviderSync, Attach, ChangeLink,
   Crash, spokeVars

\* The writes of the engine change the visited slot only: they create an object
\* in an existing namespace, or delete one.
LEMMA EngineWrites ==
    ASSUME TypeOK, CurOK,
           Adopt \/ ApplyReplica \/ RecreateDelete \/ RecreateApply \/ GCDelete
    PROVE  /\ UNCHANGED namespaces
           /\ \A s \in Slots : obj'[s] # obj[s] => s = cur
           /\ obj'[cur] \in {obj[cur], NoObj} \/ KeyOf(cur) \in namespaces
           /\ GCDelete => obj'[cur] \in {obj[cur], NoObj}
<1>0. cur \in Slots /\ obj \in [Slots -> Objects(Contents)]
  BY DEF CurOK, TypeOK, Adopt, ApplyReplica, RecreateDelete, RecreateApply, GCDelete
<1>1. ASSUME NEW o, WriteOk(cur, o) \/ WriteFailed(cur, o)
      PROVE  /\ \A s \in Slots : obj'[s] # obj[s] => s = cur
             /\ obj'[cur] \in {obj[cur], o}
  BY <1>0, <1>1 DEF WriteOk, WriteFailed
<1>2. ASSUME NEW o, ApplyObject(o)
      PROVE  /\ \A s \in Slots : obj'[s] # obj[s] => s = cur
             /\ obj'[cur] = obj[cur] \/ KeyOf(cur) \in namespaces
  BY <1>1, <1>2 DEF ApplyObject
<1>3. CASE Adopt \/ RecreateApply
  BY <1>2, <1>3 DEF Adopt, RecreateApply, GCDelete
<1>4. CASE ApplyReplica
  <2>1. CASE UNCHANGED obj
    BY <1>4, <2>1 DEF ApplyReplica, GCDelete
  <2>2. CASE ApplyObject(Rendered(obj[cur], snap.content))
    BY <1>2, <1>4, <2>2 DEF ApplyReplica, GCDelete
  <2> QED
    BY <1>4, <2>1, <2>2 DEF ApplyReplica
<1>5. CASE RecreateDelete \/ GCDelete
  BY <1>1, <1>5 DEF RecreateDelete, GCDelete
<1> QED
  BY <1>3, <1>4, <1>5

\* The environment leaves the worker's memory alone, short of a crash.
LEMMA EnvironmentKeepsMemory ==
    ASSUME Environment, ~Crash
    PROVE  UNCHANGED <<pc, my, inv, keep, todo, cur, released, snap, seen, lastResult>>
<1>1. CASE Retarget \/ DeleteReplication \/ CreateReplication \/ MarkNotAuthoritative
  BY <1>1 DEF Retarget, DeleteReplication, CreateReplication, MarkNotAuthoritative,
     OthersStore, procVars
<1>2. CASE EditSource \/ RemoveSource \/ EditPolicies \/ CacheSync
  BY <1>2 DEF EditSource, RemoveSource, EditPolicies, CacheSync, workVars, procVars
<1>3. CASE \/ ChangeFleet \/ ProviderSync \/ Attach \/ ChangeLink \/ ChangeNamespace
           \/ SpokeReplace \/ SpokeEdit \/ SpokeAddKey
  BY <1>3 DEF ChangeFleet, ProviderSync, Attach, ChangeLink, ChangeNamespace,
     SpokeReplace, SpokeEdit, SpokeAddKey, hubUnchanged, workVars, procVars
<1> QED
  BY <1>1, <1>2, <1>3 DEF Environment

=============================================================================
