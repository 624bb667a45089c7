--------------------------- MODULE TrackedProofs ---------------------------
(***************************************************************************)
(* No replica is ever lost, for every set of slots, policies, foreign      *)
(* objects and disturbances, as long as hub reads are current.             *)
(*                                                                         *)
(* Tracked is not inductive: it needs to know what the worker's copy of    *)
(* the Replication, its working inventory and its program counter have to  *)
(* do with the stored object.  TrackInv says so in four parts.             *)
(***************************************************************************)
EXTENDS EngineProofs

\* The steps at which the worker may still create a replica.
Writing == {"targets", "get", "adopt", "write", "recreate", "reapply"}

\* Hub state: the cache is current, the worker's copy agrees with the stored
\* object while it is current, and an inventory is held back by a finalizer.
CopyOK ==
    /\ cache = [rep |-> rep, fresh |-> TRUE]
    /\ pc # "idle" /\ fresh => my = rep
    /\ pc \notin {"idle", "finalizer"} => rep.exists /\ rep.finalizer /\ rep.inv = my.inv
    /\ rep.inv = NoInventory \/ (rep.exists /\ rep.finalizer)
    /\ ~rep.exists => ~rep.finalizer
    /\ pc = "finalizer" => my.exists

\* A slot the worker may write has an entry, in memory and in the stored status.
PlanOK ==
    /\ pc = "persist" => \A s \in Slots : s \in todo \/ hasEntry(rep.inv, s) => hasEntry(inv, s)
    /\ pc \in Writing => \A s \in todo : hasEntry(inv, s) /\ hasEntry(rep.inv, s)
    /\ pc \in Writing \ {"targets"} => hasEntry(inv, cur) /\ hasEntry(rep.inv, cur)
    /\ cur \notin todo

\* An entry dropped from the working inventory had no replica of ours.
DropOK ==
    pc \in Writing \cup {"gc", "delete"} =>
        \A s \in Slots : hasEntry(rep.inv, s) /\ ~hasEntry(inv, s)
                            => obj[s].uid # "self" \/ s \in released

\* Objects live in existing namespaces.
NsOK == \A s \in Slots : obj[s] # NoObj => KeyOf(s) \in namespaces

TrackInv == TypeOK /\ CurOK /\ CopyOK /\ PlanOK /\ DropOK /\ NsOK /\ Tracked

-----------------------------------------------------------------------------
\* Records

\* An edit of one field of a Replication leaves the others alone.
LEMMA ReplicationFields ==
    ASSUME NEW r \in Replications, NEW x
    PROVE  /\ LET q == [r EXCEPT !.finalizer = x]
              IN  q.inv = r.inv /\ q.exists = r.exists /\ q.finalizer = x
           /\ LET q == [r EXCEPT !.targets = x]
              IN  q.inv = r.inv /\ q.exists = r.exists /\ q.finalizer = r.finalizer
           /\ LET q == [r EXCEPT !.deleting = x]
              IN  q.inv = r.inv /\ q.exists = r.exists /\ q.finalizer = r.finalizer
           /\ LET q == [r EXCEPT !.ready = x]
              IN  q.inv = r.inv /\ q.exists = r.exists /\ q.finalizer = r.finalizer
           /\ LET q == [r EXCEPT !.inv = x]
              IN  q.inv = x /\ q.exists = r.exists /\ q.finalizer = r.finalizer
BY DEF Replications

\* A status write replaces the inventory and leaves the finalizer alone.
LEMMA StatusFields ==
    ASSUME my \in Replications, NEW S, NEW i, NEW b
    PROVE  LET q == buildStatus(S, i, b)
           IN  q.inv = i /\ q.exists = my.exists /\ q.finalizer = my.finalizer
BY DEF Replications, buildStatus

\* A new Replication, and the absent one, have an empty inventory.
LEMMA NewFields ==
    ASSUME NEW T, NEW b
    PROVE  /\ Created(T, b).inv = NoInventory /\ Created(T, b).exists
           /\ ~Created(T, b).finalizer
           /\ Gone.inv = NoInventory /\ ~Gone.exists /\ ~Gone.finalizer
BY DEF Created, Gone

\* Without stale reads the cache follows every write.
LEMMA StoreFresh ==
    ASSUME StaleReads = FALSE, NEW r, Store(r)
    PROVE  rep' = r /\ cache' = [rep |-> rep', fresh |-> TRUE]
BY DEF Store

-----------------------------------------------------------------------------
\* The worker's copy and the stored object

\* Every step keeps the worker's copy consistent with the stored object.
LEMMA CopyOKStep ==
    ASSUME StaleReads = FALSE, TypeOK, CurOK, CopyOK, [Next]_vars
    PROVE  CopyOK'
<1>0. rep \in Replications /\ my \in Replications
  BY DEF TypeOK
<1>1. CASE UNCHANGED <<rep, cache, my, fresh>> /\ pc # "idle" /\ pc # "finalizer"
           /\ pc' # "finalizer"
  BY <1>1 DEF CopyOK
<1>2. CASE UNCHANGED <<rep, cache, my, fresh, pc>>
  BY <1>2 DEF CopyOK
<1>3. CASE StartReconcile
  BY <1>3 DEF StartReconcile, CopyOK, hubVars
<1>4. CASE AddFinalizer
  <2>1. CASE UpdateOk([my EXCEPT !.finalizer = TRUE]) /\ pc' = "evaluate"
    <3> DEFINE r == [my EXCEPT !.finalizer = TRUE]
    <3>1. r.inv = my.inv /\ r.exists = my.exists /\ r.finalizer = TRUE
      BY <1>0, ReplicationFields
    <3>2. /\ rep' = r /\ my' = r /\ cache' = [rep |-> rep', fresh |-> TRUE]
      BY <2>1, StoreFresh DEF UpdateOk
    <3>3. my.exists
      BY <1>4 DEF AddFinalizer, CopyOK
    <3> HIDE DEF r
    <3> QED
      BY <2>1, <3>1, <3>2, <3>3 DEF CopyOK
  <2>2. CASE UpdateRefused
    BY <2>2 DEF UpdateRefused, Return, CopyOK, hubVars
  <2> QED
    BY <1>4, <2>1, <2>2 DEF AddFinalizer
<1>5. CASE PersistPlan
  <2>1. CASE UpdateOk([my EXCEPT !.inv = inv]) /\ pc' = "targets"
    <3> DEFINE r == [my EXCEPT !.inv = inv]
    <3>1. r.inv = inv /\ r.exists = my.exists /\ r.finalizer = my.finalizer
      BY <1>0, ReplicationFields
    <3>2. /\ rep' = r /\ my' = r /\ cache' = [rep |-> rep', fresh |-> TRUE]
      BY <2>1, StoreFresh DEF UpdateOk
    <3>3. my = rep /\ rep.exists /\ rep.finalizer
      BY <1>5, <2>1 DEF PersistPlan, CopyOK, UpdateOk
    <3> HIDE DEF r
    <3> QED
      BY <2>1, <3>1, <3>2, <3>3 DEF CopyOK
  <2>2. CASE UpdateRefused
    BY <2>2 DEF UpdateRefused, Return, CopyOK, hubVars
  <2> QED
    BY <1>5, <2>1, <2>2 DEF PersistPlan
<1>6. ASSUME NEW S, NEW i, NEW b, pc \in {"evaluate", "gc"},
             writeStatusIfChanged(buildStatus(S, i, b)), Return
      PROVE  CopyOK'
  <2>1. CASE UNCHANGED hubVars
    BY <1>6, <2>1 DEF Return, CopyOK, hubVars
  <2>2. CASE fresh /\ Store(buildStatus(S, i, b))
    <3> DEFINE r == buildStatus(S, i, b)
    <3>1. r.exists = my.exists /\ r.finalizer = my.finalizer
      BY <1>0, StatusFields
    <3>2. rep' = r /\ cache' = [rep |-> rep', fresh |-> TRUE]
      BY <2>2, StoreFresh
    <3>3. my = rep /\ rep.exists /\ rep.finalizer
      BY <1>6, <2>2 DEF CopyOK
    <3> HIDE DEF r
    <3> QED
      BY <1>6, <3>1, <3>2, <3>3 DEF CopyOK, Return
  <2> QED
    BY <1>6, <2>1, <2>2 DEF writeStatusIfChanged
<1>7. CASE FinishSimple \/ WriteStatus
  <2>1. PICK S, i, b : writeStatusIfChanged(buildStatus(S, i, b))
    BY <1>7, Zenon DEF FinishSimple, WriteStatus
  <2>2. pc \in {"evaluate", "gc"} /\ Return
    BY <1>7 DEF FinishSimple, WriteStatus
  <2> QED
    BY <1>6, <2>1, <2>2
<1>8. CASE RemoveFinalizer
  <2>1. CASE Store(Gone)
    BY <1>8, <2>1, StoreFresh, NewFields DEF RemoveFinalizer, Return, CopyOK
  <2>2. CASE UNCHANGED hubVars
    BY <1>8, <2>2 DEF RemoveFinalizer, Return, CopyOK, hubVars
  <2> QED
    BY <1>8, <2>1, <2>2 DEF RemoveFinalizer
<1>9. CASE \/ EvaluateTargets \/ ensureNamespace \/ GetExisting \/ Adopt \/ ApplyReplica
           \/ RecreateDelete \/ RecreateApply \/ PlanGC \/ GCGet \/ GCDelete
  <2>1. UNCHANGED <<rep, cache, my, fresh>>
    <3>1. CASE EvaluateTargets \/ PlanGC \/ GCGet \/ GCDelete
      BY <3>1 DEF EvaluateTargets, PlanGC, GCGet, GCDelete, loopUnchanged, hubVars
    <3>2. CASE ensureNamespace \/ GetExisting
      BY <3>2 DEF ensureNamespace, GetExisting, loopUnchanged, hubVars
    <3>3. CASE Adopt \/ ApplyReplica \/ RecreateDelete \/ RecreateApply
      BY <3>3 DEF Adopt, ApplyReplica, RecreateDelete, RecreateApply, loopUnchanged, hubVars
    <3> QED
      BY <1>9, <3>1, <3>2, <3>3
  <2>2. pc # "idle" /\ pc # "finalizer" /\ pc' # "finalizer"
    <3>1. CASE EvaluateTargets \/ PlanGC \/ GCGet \/ GCDelete
      BY <3>1 DEF EvaluateTargets, PlanGC, GCGet, GCDelete
    <3>2. CASE ensureNamespace \/ GetExisting
      BY <3>2 DEF ensureNamespace, GetExisting, NextTarget, Succeeded
    <3>3. CASE Adopt \/ ApplyReplica \/ RecreateDelete \/ RecreateApply
      BY <3>3 DEF Adopt, ApplyReplica, RecreateDelete, RecreateApply, ApplyObject,
         NextTarget, Succeeded
    <3> QED
      BY <1>9, <3>1, <3>2, <3>3
  <2> QED
    BY <1>1, <2>1, <2>2
<1>10. ASSUME NEW r \in Replications, OthersStore(r), r.exists = rep.exists,
              r.finalizer = rep.finalizer, r.inv = rep.inv
       PROVE  CopyOK'
  <2>1. rep' = r /\ cache' = [rep |-> rep', fresh |-> TRUE]
    BY <1>10, StoreFresh DEF OthersStore
  <2> QED
    BY <1>10, <2>1 DEF OthersStore, CopyOK
<1>11. CASE Retarget \/ MarkNotAuthoritative
  <2>1. PICK r \in Replications : OthersStore(r) /\ r.exists = rep.exists
                 /\ r.finalizer = rep.finalizer /\ r.inv = rep.inv
    <3>1. CASE Retarget
      <4>1. PICK T \in InitTargets : OthersStore([rep EXCEPT !.targets = T])
        BY <3>1 DEF Retarget
      <4>2. [rep EXCEPT !.targets = T] \in Replications
        BY <1>0, SlotsAssumption DEF Replications
      <4> QED
        BY <1>0, <4>1, <4>2, ReplicationFields
    <3>2. CASE MarkNotAuthoritative
      <4> DEFINE q == [rep EXCEPT !.ready = "NotAuthoritative"]
      <4>1. q \in Replications
        BY <1>0 DEF Replications, ReadyReasons
      <4>2. q.inv = rep.inv /\ q.exists = rep.exists /\ q.finalizer = rep.finalizer
        BY <1>0, ReplicationFields
      <4>3. OthersStore(q)
        BY <3>2 DEF MarkNotAuthoritative
      <4> QED
        BY <4>1, <4>2, <4>3
    <3> QED
      BY <1>11, <3>1, <3>2
  <2> QED
    BY <1>10, <2>1
<1>12. CASE DeleteReplication
  <2>1. CASE rep.finalizer
    <3> DEFINE q == [rep EXCEPT !.deleting = TRUE]
    <3>1. q \in Replications
      BY <1>0 DEF Replications
    <3>2. q.inv = rep.inv /\ q.exists = rep.exists /\ q.finalizer = rep.finalizer
      BY <1>0, ReplicationFields
    <3>3. OthersStore(q)
      BY <1>12, <2>1 DEF DeleteReplication
    <3> QED
      BY <1>10, <3>1, <3>2, <3>3
  <2>2. CASE ~rep.finalizer
    <3>1. rep' = Gone /\ cache' = [rep |-> rep', fresh |-> TRUE]
      BY <1>12, <2>2, StoreFresh DEF DeleteReplication, OthersStore
    <3> QED
      BY <1>12, <2>2, <3>1, NewFields DEF DeleteReplication, OthersStore, CopyOK
  <2> QED
    BY <2>1, <2>2
<1>13. CASE CreateReplication
  <2>1. PICK T \in InitTargets : OthersStore(Created(T, TRUE))
    BY <1>13 DEF CreateReplication
  <2>2. rep' = Created(T, TRUE) /\ cache' = [rep |-> rep', fresh |-> TRUE]
    BY <2>1, StoreFresh DEF OthersStore
  <2> QED
    BY <1>13, <2>1, <2>2, NewFields DEF CreateReplication, OthersStore, CopyOK
<1>14. CASE Crash
  BY <1>14 DEF Crash, Return, CopyOK
<1>15. CASE CacheSync
  BY <1>15 DEF CacheSync, CopyOK
<1>16. CASE \/ EditSource \/ RemoveSource \/ EditPolicies \/ ChangeFleet \/ ProviderSync
            \/ Attach \/ ChangeLink \/ ChangeNamespace \/ SpokeReplace \/ SpokeEdit
            \/ SpokeAddKey
  BY <1>2, <1>16 DEF EditSource, RemoveSource, EditPolicies, ChangeFleet, ProviderSync,
     Attach, ChangeLink, ChangeNamespace, SpokeReplace, SpokeEdit, SpokeAddKey,
     hubUnchanged, hubVars, workVars
<1>17. CASE UNCHANGED vars
  BY <1>2, <1>17 DEF vars
<1> QED
  BY <1>3, <1>4, <1>5, <1>7, <1>8, <1>9, <1>11, <1>12, <1>13, <1>14, <1>15, <1>16, <1>17
     DEF Next, Reconcile, Environment, Idle

-----------------------------------------------------------------------------
\* Objects and namespaces

\* Every step keeps the objects inside existing namespaces.
LEMMA NsOKStep ==
    ASSUME TypeOK, CurOK, NsOK, [Next]_vars
    PROVE  NsOK'
<1>0. obj \in [Slots -> Objects(Contents)]
  BY DEF TypeOK
<1>1. CASE UNCHANGED <<obj, namespaces>>
  BY <1>1 DEF NsOK
<1>2. CASE Adopt \/ ApplyReplica \/ RecreateDelete \/ RecreateApply \/ GCDelete
  <2>1. cur \in Slots
    BY <1>2 DEF CurOK, Adopt, ApplyReplica, RecreateDelete, RecreateApply, GCDelete
  <2> QED
    BY <1>2, <2>1, EngineWrites DEF NsOK
<1>3. CASE ensureNamespace
  BY <1>3 DEF ensureNamespace, NsOK
<1>4. CASE ChangeNamespace
  <2>1. PICK k \in Keys :
          \/ /\ namespaces' = namespaces \ {k}
             /\ obj' = [s \in Slots |-> IF KeyOf(s) = k THEN NoObj ELSE obj[s]]
          \/ namespaces' = namespaces \cup {k} /\ UNCHANGED obj
    BY <1>4 DEF ChangeNamespace
  <2> QED
    BY <2>1 DEF NsOK
<1>5. CASE SpokeReplace
  BY <1>0, <1>5 DEF SpokeReplace, NsOK
<1>6. CASE SpokeEdit \/ SpokeAddKey
  <2>1. PICK s \in Slots : obj[s] # NoObj /\ \A t \in Slots : obj'[t] # obj[t] => t = s
    BY <1>0, <1>6 DEF SpokeEdit, SpokeAddKey
  <2> QED
    BY <1>6, <2>1 DEF SpokeEdit, SpokeAddKey, NsOK
<1>7. CASE UNCHANGED vars
  BY <1>1, <1>7 DEF vars
<1> QED
  BY <1>1, <1>2, <1>3, <1>4, <1>5, <1>6, <1>7, QuietSteps, QuietEnvironment
     DEF Next, Reconcile, Environment, Idle

-----------------------------------------------------------------------------
\* The plan

\* Nobody but the engine changes the stored inventory: an object goes or comes
\* without the engine only while its inventory is empty.
LEMMA EnvironmentKeepsInventory ==
    ASSUME StaleReads = FALSE, TypeOK, CopyOK, Environment
    PROVE  rep'.inv = rep.inv
<1>0. rep \in Replications
  BY DEF TypeOK
<1>1. CASE Retarget
  <2>1. PICK T \in InitTargets : OthersStore([rep EXCEPT !.targets = T])
    BY <1>1 DEF Retarget
  <2>2. rep' = [rep EXCEPT !.targets = T]
    BY <2>1 DEF OthersStore, Store
  <2> QED
    BY <1>0, <2>2, ReplicationFields
<1>2. CASE DeleteReplication
  <2>1. CASE rep.finalizer
    <3>1. rep' = [rep EXCEPT !.deleting = TRUE]
      BY <1>2, <2>1, StoreFresh DEF DeleteReplication, OthersStore
    <3> QED
      BY <1>0, <3>1, ReplicationFields
  <2>2. CASE ~rep.finalizer
    BY <1>2, <2>2, StoreFresh, NewFields DEF DeleteReplication, OthersStore, CopyOK
  <2> QED
    BY <2>1, <2>2
<1>3. CASE MarkNotAuthoritative
  <2>1. rep' = [rep EXCEPT !.ready = "NotAuthoritative"]
    BY <1>3, StoreFresh DEF MarkNotAuthoritative, OthersStore
  <2> QED
    BY <1>0, <2>1, ReplicationFields
<1>4. CASE CreateReplication
  <2>1. PICK T \in InitTargets : OthersStore(Created(T, TRUE))
    BY <1>4 DEF CreateReplication
  <2>2. rep' = Created(T, TRUE)
    BY <2>1 DEF OthersStore, Store
  <2> QED
    BY <1>4, <2>2, NewFields DEF CreateReplication, CopyOK
<1>5. CASE \/ EditSource \/ RemoveSource \/ EditPolicies \/ CacheSync \/ ChangeFleet
           \/ ProviderSync \/ Attach \/ ChangeLink \/ ChangeNamespace \/ SpokeReplace
           \/ SpokeEdit \/ SpokeAddKey \/ Crash
  BY <1>5 DEF EditSource, RemoveSource, EditPolicies, CacheSync, ChangeFleet, ProviderSync,
     Attach, ChangeLink, ChangeNamespace, SpokeReplace, SpokeEdit, SpokeAddKey, Crash,
     hubUnchanged, hubVars
<1> QED
  BY <1>1, <1>2, <1>3, <1>4, <1>5 DEF Environment

\* Visiting a slot changes no entry but its own, and no stored inventory.
LEMMA VisitSteps ==
    ASSUME TypeOK, CurOK,
           GetExisting \/ Adopt \/ ApplyReplica \/ RecreateDelete \/ RecreateApply
    PROVE  /\ UNCHANGED <<rep, todo>>
           /\ \A s \in Slots \ {cur} : inv'[s] = inv[s]
           /\ \/ pc' = "targets" /\ cur' = NoSlot
              \/ /\ pc' \in Writing \ {"targets"}
                 /\ UNCHANGED <<inv, cur>>
<1>0. cur \in Slots /\ inv \in Inventories
  BY DEF CurOK, TypeOK, GetExisting, Adopt, ApplyReplica, RecreateDelete, RecreateApply
<1>1. ASSUME NEW e, NEW r, Failed(cur, r, e)
      PROVE  \A s \in Slots \ {cur} : inv'[s] = inv[s]
  BY <1>0, <1>1 DEF Failed, Inventories
<1>2. ASSUME Succeeded
      PROVE  \A s \in Slots \ {cur} : inv'[s] = inv[s]
  BY <1>0, <1>2 DEF Succeeded, Inventories
<1>3. CASE GetExisting
  BY <1>1, <1>2, <1>3 DEF GetExisting, NextTarget, Succeeded, loopUnchanged, hubVars, Writing
<1>4. ASSUME NEW o, ApplyObject(o)
      PROVE  /\ \A s \in Slots \ {cur} : inv'[s] = inv[s]
             /\ pc' = "targets" /\ cur' = NoSlot
  BY <1>1, <1>2, <1>4 DEF ApplyObject, NextTarget, Succeeded
<1>5. CASE Adopt \/ RecreateApply
  BY <1>4, <1>5 DEF Adopt, RecreateApply, loopUnchanged, hubVars
<1>6. CASE ApplyReplica
  <2>1. CASE ApplyObject(Rendered(obj[cur], snap.content))
    BY <1>4, <1>6, <2>1 DEF ApplyReplica, loopUnchanged, hubVars
  <2>2. CASE pc' = "recreate" /\ UNCHANGED <<inv, states, cur, seen>>
    BY <1>6, <2>2 DEF ApplyReplica, loopUnchanged, hubVars, Writing
  <2>3. CASE Failed(cur, "ApplyFailed", inv[cur]) /\ NextTarget
    BY <1>1, <1>6, <2>3 DEF ApplyReplica, NextTarget, loopUnchanged, hubVars
  <2> QED
    BY <1>6, <2>1, <2>2, <2>3 DEF ApplyReplica
<1>7. CASE RecreateDelete
  BY <1>1, <1>7 DEF RecreateDelete, NextTarget, loopUnchanged, hubVars, Writing
<1> QED
  BY <1>3, <1>5, <1>6, <1>7

\* The plan covers the allowed slots and forgets none.
LEMMA PlannedCovers ==
    ASSUME NEW i \in Inventories, NEW A \in SUBSET Slots
    PROVE  \A s \in Slots : hasEntry(Planned(i, A), s) <=> s \in A \/ hasEntry(i, s)
BY ContentsAssumption DEF Planned, hasEntry, Inventories, Entries

\* Every step keeps the slots that may be written recorded.
LEMMA PlanOKStep ==
    ASSUME StaleReads = FALSE, TypeOK, CurOK, CopyOK, PlanOK, [Next]_vars
    PROVE  PlanOK'
<1>0. /\ rep \in Replications /\ my \in Replications /\ inv \in Inventories
      /\ todo \in SUBSET Slots /\ NoSlot \notin Slots
  BY SlotsAssumption DEF TypeOK
<1>1. CASE Return
  BY <1>1 DEF Return, PlanOK, Writing
<1>2. CASE StartReconcile
  <2>1. pc' \in {"targets", "evaluate", "finalizer"} /\ todo' = {}
    BY <1>2 DEF StartReconcile, CurOK
  <2> QED
    BY <2>1 DEF PlanOK, Writing
<1>3. CASE AddFinalizer
  BY <1>1, <1>3 DEF AddFinalizer, UpdateRefused, PlanOK, Writing
<1>4. CASE FinishSimple \/ WriteStatus \/ RemoveFinalizer \/ Crash
  BY <1>1, <1>4 DEF FinishSimple, WriteStatus, RemoveFinalizer, Crash
<1>5. CASE EvaluateTargets
  <2>1. rep.inv = my.inv /\ my.inv \in Inventories /\ cur' = NoSlot /\ rep' = rep
    BY <1>0, <1>5 DEF EvaluateTargets, CopyOK, Replications, CurOK, hubVars
  <2>2. /\ todo' \in SUBSET Slots
        /\ inv' = Planned(my.inv, todo')
        /\ pc' = IF inv' # my.inv THEN "persist" ELSE "targets"
    BY <1>0, <1>5 DEF EvaluateTargets, Replications
  <2>3. \A s \in Slots : hasEntry(inv', s) <=> s \in todo' \/ hasEntry(rep.inv, s)
    BY <2>1, <2>2, PlannedCovers
  <2> QED
    BY <1>0, <2>1, <2>2, <2>3 DEF PlanOK, Writing
<1>6. CASE PersistPlan
  <2>1. CASE UpdateOk([my EXCEPT !.inv = inv]) /\ pc' = "targets"
    <3>1. rep' = [my EXCEPT !.inv = inv]
      BY <2>1, StoreFresh DEF UpdateOk
    <3>2. rep'.inv = inv
      BY <1>0, <3>1, ReplicationFields
    <3>3. UNCHANGED <<inv, todo, cur>> /\ pc = "persist"
      BY <1>6, <2>1 DEF PersistPlan, UpdateRefused, UpdateOk
    <3> QED
      BY <1>0, <2>1, <3>2, <3>3 DEF PlanOK, Writing
  <2>2. CASE UpdateRefused
    BY <1>1, <2>2 DEF UpdateRefused
  <2> QED
    BY <1>6, <2>1, <2>2 DEF PersistPlan
<1>7. CASE ensureNamespace
  <2>1. PICK s \in todo :
          /\ todo' = todo \ {s}
          /\ \/ \E r, e : Failed(s, r, e) /\ pc' = "targets" /\ cur' = NoSlot
             \/ pc' = "get" /\ cur' = s /\ UNCHANGED inv
    BY <1>7 DEF ensureNamespace, NextTarget
  <2>2. pc = "targets" /\ UNCHANGED rep
    BY <1>7 DEF ensureNamespace, loopUnchanged, hubVars
  <2>3. \A t \in todo' : inv'[t] = inv[t]
    BY <1>0, <2>1 DEF Failed, Inventories
  <2> QED
    BY <1>0, <2>1, <2>2, <2>3 DEF PlanOK, Writing, hasEntry
<1>8. CASE GetExisting \/ Adopt \/ ApplyReplica \/ RecreateDelete \/ RecreateApply
  <2>1. pc \in Writing
    BY <1>8 DEF GetExisting, Adopt, ApplyReplica, RecreateDelete, RecreateApply, Writing
  <2>2. /\ UNCHANGED <<rep, todo>>
        /\ \A s \in Slots \ {cur} : inv'[s] = inv[s]
        /\ \/ pc' = "targets" /\ cur' = NoSlot
           \/ pc' \in Writing \ {"targets"} /\ UNCHANGED <<inv, cur>>
    BY <1>8, VisitSteps
  <2>3. pc # "targets"
    BY <1>8 DEF GetExisting, Adopt, ApplyReplica, RecreateDelete, RecreateApply
  <2>4. \A s \in todo' : hasEntry(inv', s) /\ hasEntry(rep'.inv, s)
    BY <1>0, <2>1, <2>2 DEF PlanOK, hasEntry
  <2>5. cur' \notin todo'
    BY <1>0, <2>2 DEF PlanOK
  <2>6. pc' # "targets" => hasEntry(inv', cur') /\ hasEntry(rep'.inv, cur')
    BY <2>1, <2>2, <2>3 DEF PlanOK
  <2> QED
    BY <2>2, <2>4, <2>5, <2>6 DEF PlanOK, Writing
<1>9. CASE PlanGC
  <2>1. pc' = "gc" /\ cur' = NoSlot /\ todo' \subseteq Slots
    BY <1>9 DEF PlanGC, CurOK, GCTodo
  <2> QED
    BY <1>0, <2>1 DEF PlanOK, Writing
<1>10. CASE GCGet \/ GCDelete
  <2>1. pc' \in {"gc", "delete"} /\ cur' \notin todo'
    BY <1>0, <1>10 DEF GCGet, GCDelete, CurOK
  <2> QED
    BY <2>1 DEF PlanOK, Writing
<1>11. CASE Environment /\ ~Crash
  BY <1>11, EnvironmentKeepsInventory, EnvironmentKeepsMemory DEF PlanOK
<1>12. CASE UNCHANGED vars
  BY <1>12 DEF vars, PlanOK
<1> QED
  BY <1>2, <1>3, <1>4, <1>5, <1>6, <1>7, <1>8, <1>9, <1>10, <1>11, <1>12
     DEF Next, Reconcile, Idle

-----------------------------------------------------------------------------
\* Nothing is lost

\* No environment step puts the UID of the source on an object.
LEMMA EnvironmentForgesNothing ==
    ASSUME TypeOK, Environment
    PROVE  \A s \in Slots : obj'[s].uid = "self" => obj[s].uid = "self"
<1>0. obj \in [Slots -> Objects(Contents)] /\ NoObj.uid # "self"
  BY DEF TypeOK, NoObj
<1>1. CASE UNCHANGED obj
  BY <1>1
<1>2. CASE ChangeNamespace
  BY <1>0, <1>2 DEF ChangeNamespace
<1>3. CASE SpokeReplace
  BY <1>0, <1>3, ForeignAssumption DEF SpokeReplace
<1>4. ASSUME NEW s \in Slots, obj[s] # NoObj
      PROVE  /\ \A c \in Contents : [obj[s] EXCEPT !.content = c].uid = obj[s].uid
             /\ [obj[s] EXCEPT !.managed = FALSE].uid = obj[s].uid
             /\ [obj[s] EXCEPT !.uid = "none"].uid = "none"
             /\ [obj[s] EXCEPT !.extra = ~@].uid = obj[s].uid
  <2>1. obj[s] \in [managed : BOOLEAN, uid : UIDs, content : Contents \cup {"none"},
                    extra : BOOLEAN, ann : Contents \cup {"none"}]
    BY <1>0, <1>4 DEF Objects
  <2> QED
    BY <2>1
<1>5. CASE SpokeEdit
  <2>1. PICK s \in Slots :
          /\ obj[s] # NoObj
          /\ \/ \E c \in Contents : obj' = [obj EXCEPT ![s].content = c]
             \/ obj' = [obj EXCEPT ![s].managed = FALSE]
             \/ obj' = [obj EXCEPT ![s].uid = "none"]
    BY <1>5 DEF SpokeEdit
  <2>2. obj'[s].uid \in {obj[s].uid, "none"}
    <3>1. \/ \E c \in Contents : obj'[s] = [obj[s] EXCEPT !.content = c]
          \/ obj'[s] = [obj[s] EXCEPT !.managed = FALSE]
          \/ obj'[s] = [obj[s] EXCEPT !.uid = "none"]
      BY <1>0, <2>1
    <3> QED
      BY <1>4, <2>1, <3>1
  <2>3. \A t \in Slots : t # s => obj'[t] = obj[t]
    BY <1>0, <2>1
  <2> QED
    BY <2>2, <2>3
<1>6. CASE SpokeAddKey
  <2>1. PICK s \in Slots : obj[s] # NoObj /\ obj' = [obj EXCEPT ![s].extra = ~@]
    BY <1>6 DEF SpokeAddKey
  <2>2. obj'[s] = [obj[s] EXCEPT !.extra = ~@]
    BY <1>0, <2>1
  <2>3. \A t \in Slots : t # s => obj'[t] = obj[t]
    BY <1>0, <2>1
  <2> QED
    BY <1>4, <2>1, <2>2, <2>3
<1> QED
  BY <1>1, <1>2, <1>3, <1>5, <1>6, QuietEnvironment DEF Environment

\* A visit drops the entry of its slot only after it read an object of others.
LEMMA VisitDrops ==
    ASSUME TypeOK, CurOK, PlanOK,
           GetExisting \/ Adopt \/ ApplyReplica \/ RecreateDelete \/ RecreateApply
    PROVE  hasEntry(inv', cur) \/ (UNCHANGED obj /\ obj[cur].uid # "self")
<1>0. /\ cur \in Slots /\ inv \in Inventories /\ snap.content \in Contents
      /\ hasEntry(inv, cur)
  BY DEF CurOK, TypeOK, PlanOK, Writing, GetExisting, Adopt, ApplyReplica, RecreateDelete,
     RecreateApply
<1>1. ASSUME NEW r, Failed(cur, r, inv[cur]) PROVE hasEntry(inv', cur)
  BY <1>0, <1>1 DEF Failed, Inventories, hasEntry
<1>2. ASSUME Succeeded PROVE hasEntry(inv', cur)
  BY <1>0, <1>2, ContentsAssumption DEF Succeeded, Inventories, hasEntry
<1>3. CASE GetExisting
  <2>1. CASE DecideConflict(obj[cur], snap.content, snap.requested,
                            Options(cur).allowedConflictPolicies) = "Fail"
             /\ obj[cur] # NoObj /\ ClassifyReplicaOwnership(obj[cur]) # "Stripped"
    <3>1. ~IsManagedReplica(obj[cur])
      BY <2>1 DEF DecideConflict
    <3>2. obj[cur].uid # "self"
      BY <2>1, <3>1 DEF IsManagedReplica, ClassifyReplicaOwnership
    <3> QED
      BY <1>3, <3>2 DEF GetExisting, spokeVars
  <2>2. CASE UNCHANGED inv
    BY <1>0, <2>2
  <2> QED
    BY <1>1, <1>2, <1>3, <2>1, <2>2 DEF GetExisting
<1>4. ASSUME NEW o, ApplyObject(o) PROVE hasEntry(inv', cur)
  BY <1>1, <1>2, <1>4 DEF ApplyObject
<1>5. CASE Adopt \/ RecreateApply
  BY <1>4, <1>5 DEF Adopt, RecreateApply
<1>6. CASE ApplyReplica
  BY <1>0, <1>1, <1>4, <1>6 DEF ApplyReplica
<1>7. CASE RecreateDelete
  BY <1>0, <1>1, <1>7 DEF RecreateDelete
<1> QED
  BY <1>3, <1>5, <1>6, <1>7

\* Every step keeps the replicas recorded, and every entry that was dropped from
\* the working inventory without a replica of ours.
LEMMA TrackedStep ==
    ASSUME StaleReads = FALSE, TrackInv, [Next]_vars
    PROVE  Tracked' /\ DropOK'
<1> USE DEF TrackInv
<1>0. /\ rep \in Replications /\ my \in Replications /\ inv \in Inventories
      /\ obj \in [Slots -> Objects(Contents)] /\ NoObj.uid # "self"
  BY DEF TypeOK, NoObj
<1>1. ASSUME UNCHANGED obj, rep'.inv = rep.inv, UNCHANGED released,
             pc' \notin Writing \cup {"gc", "delete"}
      PROVE  Tracked' /\ DropOK'
  BY <1>1 DEF Tracked, DropOK
<1>2. CASE StartReconcile
  <2>1. UNCHANGED <<rep, obj, released>> /\ inv' = rep.inv
    BY <1>2 DEF StartReconcile, CopyOK, hubVars, spokeVars
  <2> QED
    BY <2>1 DEF Tracked, DropOK
<1>3. CASE AddFinalizer
  <2>1. CASE UpdateOk([my EXCEPT !.finalizer = TRUE]) /\ pc' = "evaluate"
    <3>1. rep' = [my EXCEPT !.finalizer = TRUE] /\ my = rep
      BY <1>3, <2>1 DEF UpdateOk, Store, CopyOK, AddFinalizer
    <3>2. rep'.inv = rep.inv
      BY <1>0, <3>1, ReplicationFields
    <3> QED
      BY <1>1, <1>3, <2>1, <3>2 DEF AddFinalizer, spokeVars, Writing
  <2>2. CASE UpdateRefused
    BY <1>1, <1>3, <2>2 DEF UpdateRefused, Return, AddFinalizer, hubVars, spokeVars, Writing
  <2> QED
    BY <1>3, <2>1, <2>2 DEF AddFinalizer
<1>4. CASE FinishSimple
  <2>1. PICK S : writeStatusIfChanged(buildStatus(S, my.inv, FALSE))
    BY <1>4, Zenon DEF FinishSimple
  <2>2. rep.inv = my.inv
    BY <1>4 DEF FinishSimple, CopyOK
  <2>3. buildStatus(S, my.inv, FALSE).inv = my.inv
    BY <1>0 DEF buildStatus, Replications
  <2>4. rep'.inv = rep.inv
    BY <2>1, <2>2, <2>3 DEF writeStatusIfChanged, Store, hubVars
  <2> QED
    BY <1>1, <1>4, <2>4 DEF FinishSimple, Return, spokeVars, Writing
<1>5. CASE EvaluateTargets
  <2>1. UNCHANGED <<rep, obj, released>> /\ rep.inv = my.inv /\ my.inv \in Inventories
    BY <1>0, <1>5 DEF EvaluateTargets, CopyOK, Replications, hubVars, spokeVars
  <2>2. todo' \in SUBSET Slots /\ inv' = Planned(my.inv, todo')
    BY <1>0, <1>5 DEF EvaluateTargets, Replications
  <2>3. \A s \in Slots : hasEntry(rep.inv, s) => hasEntry(inv', s)
    BY <2>1, <2>2, PlannedCovers
  <2> QED
    BY <2>1, <2>3 DEF Tracked, DropOK
<1>6. CASE PersistPlan
  <2>1. CASE UpdateOk([my EXCEPT !.inv = inv]) /\ released' = {s \in released : ~hasEntry(inv, s)}
    <3>1. rep' = [my EXCEPT !.inv = inv]
      BY <2>1 DEF UpdateOk, Store
    <3>2. rep'.inv = inv
      BY <1>0, <3>1, ReplicationFields
    <3>3. UNCHANGED <<inv, obj>> /\ pc = "persist"
      BY <1>6, <2>1 DEF PersistPlan, UpdateOk, UpdateRefused, spokeVars
    <3> QED
      BY <2>1, <3>2, <3>3 DEF Tracked, DropOK, PlanOK
  <2>2. CASE UpdateRefused /\ UNCHANGED released
    BY <1>1, <1>6, <2>2 DEF UpdateRefused, Return, PersistPlan, hubVars, spokeVars, Writing
  <2> QED
    BY <1>6, <2>1, <2>2 DEF PersistPlan
<1>7. CASE ensureNamespace
  <2>1. PICK s \in todo :
          \/ \E r : Failed(s, r, inv[s])
          \/ KeyOf(s) \notin namespaces /\ \E r : Failed(s, r, "none")
          \/ UNCHANGED inv
    BY <1>7 DEF ensureNamespace
  <2>2. s \in Slots /\ UNCHANGED <<rep, obj, released>> /\ pc = "targets"
    BY <1>7 DEF ensureNamespace, loopUnchanged, hubVars, TypeOK
  <2>3. \A t \in Slots : inv'[t] = inv[t] \/ obj[t] = NoObj
    BY <1>0, <2>1, <2>2 DEF Failed, Inventories, NsOK
  <2> QED
    BY <1>0, <2>2, <2>3 DEF Tracked, DropOK, hasEntry, Writing
<1>8. CASE GetExisting \/ Adopt \/ ApplyReplica \/ RecreateDelete \/ RecreateApply
  <2>1. /\ pc \in Writing /\ pc # "targets" /\ UNCHANGED released
        /\ \A s \in Slots : obj'[s] # obj[s] => s = cur
    BY <1>8, EngineWrites, QuietSteps
       DEF GetExisting, Adopt, ApplyReplica, RecreateDelete, RecreateApply, Writing, loopUnchanged
  <2>2. UNCHANGED rep /\ \A s \in Slots \ {cur} : inv'[s] = inv[s]
    BY <1>8, VisitSteps
  <2>3. hasEntry(inv', cur) \/ (UNCHANGED obj /\ obj[cur].uid # "self")
    BY <1>8, VisitDrops
  <2>4. hasEntry(rep.inv, cur)
    BY <2>1 DEF PlanOK
  <2>5. Tracked'
    BY <2>1, <2>2, <2>4 DEF Tracked
  <2>6. DropOK'
    BY <2>1, <2>2, <2>3 DEF DropOK, hasEntry
  <2> QED
    BY <2>5, <2>6
<1>9. CASE PlanGC
  <2>1. /\ UNCHANGED <<rep, obj>> /\ pc = "targets"
        /\ \A s \in Slots : inv'[s] = inv[s] \/ s \in released'
        /\ released \subseteq released'
    BY <1>9 DEF PlanGC, GCTodo, hubVars, spokeVars
  <2> QED
    BY <2>1 DEF Tracked, DropOK, hasEntry, Writing
<1>10. CASE GCGet
  <2>1. PICK s \in todo :
          \/ UNCHANGED inv
          \/ (obj[s] = NoObj \/ ClassifyReplicaOwnership(obj[s]) = "Foreign") /\ dropEntry(s)
    BY <1>10 DEF GCGet, GCFailed
  <2>2. s \in Slots /\ UNCHANGED <<rep, obj, released>> /\ pc = "gc"
    BY <1>10 DEF GCGet, loopUnchanged, hubVars, spokeVars, TypeOK
  <2>3. \A t \in Slots : inv'[t] = inv[t] \/ obj[t].uid # "self"
    BY <1>0, <2>1, <2>2 DEF dropEntry, Inventories, ClassifyReplicaOwnership
  <2> QED
    BY <2>2, <2>3 DEF Tracked, DropOK, hasEntry
<1>11. CASE GCDelete
  <2>1. cur \in Slots /\ UNCHANGED <<rep, released>> /\ pc = "delete"
    BY <1>11 DEF GCDelete, CurOK, loopUnchanged, hubVars
  <2>2. \A t \in Slots : obj'[t] \in {obj[t], NoObj}
    BY <1>11, EngineWrites
  <2>3. \A t \in Slots : inv'[t] = inv[t] \/ obj'[t] = NoObj
    BY <1>0, <1>11, <2>1 DEF GCDelete, WriteOk, dropEntry, GCFailed, Inventories
  <2> QED
    BY <1>0, <2>1, <2>2, <2>3 DEF Tracked, DropOK, hasEntry
<1>12. CASE WriteStatus \/ RemoveFinalizer
  <2>1. UNCHANGED <<obj, released>> /\ pc = "gc" /\ pc' = "idle"
    BY <1>12 DEF WriteStatus, RemoveFinalizer, Return, spokeVars
  <2>2. rep'.inv \in {rep.inv, inv}
    <3>1. CASE WriteStatus
      <4>1. buildStatus(states, inv, retainedAny).inv = inv
        BY <1>0, StatusFields
      <4> QED
        BY <3>1, <4>1 DEF WriteStatus, writeStatusIfChanged, Store, hubVars
    <3>2. CASE RemoveFinalizer
      BY <3>2, NewFields DEF RemoveFinalizer, Store, hubVars
    <3> QED
      BY <1>12, <3>1, <3>2
  <2> QED
    BY <2>1, <2>2 DEF Tracked, DropOK, Writing
<1>13. CASE Environment
  <2>1. rep'.inv = rep.inv /\ \A s \in Slots : obj'[s].uid = "self" => obj[s].uid = "self"
    BY <1>13, EnvironmentKeepsInventory, EnvironmentForgesNothing
  <2>2. CASE Crash
    BY <2>1, <2>2 DEF Crash, Return, Tracked, DropOK, Writing
  <2>3. CASE ~Crash
    BY <1>13, <2>1, <2>3, EnvironmentKeepsMemory DEF Tracked, DropOK
  <2> QED
    BY <2>2, <2>3
<1>14. CASE UNCHANGED vars
  BY <1>14 DEF vars, Tracked, DropOK
<1> QED
  BY <1>2, <1>3, <1>4, <1>5, <1>6, <1>7, <1>8, <1>9, <1>10, <1>11, <1>12, <1>13, <1>14
     DEF Next, Reconcile, Idle

\* The initial states satisfy the inductive invariant.
LEMMA TrackInvInit == Init => TrackInv
<1> SUFFICES ASSUME Init PROVE TrackInv
  OBVIOUS
<1>1. PICK T \in InitTargets, b \in BOOLEAN : rep = Created(T, b)
  BY DEF Init
<1>2. rep.inv = NoInventory /\ rep.exists
  BY <1>1, NewFields
<1>3. CopyOK
  BY <1>2 DEF Init, CopyOK
<1>4. PlanOK /\ DropOK /\ NsOK /\ Tracked
  BY <1>2 DEF Init, PlanOK, DropOK, NsOK, Tracked, Writing, NoObj
<1> QED
  BY <1>3, <1>4, InitType DEF TrackInv, Init, CurOK

\* Every step preserves the inductive invariant.
LEMMA TrackInvStep ==
    ASSUME StaleReads = FALSE, TrackInv, [Next]_vars
    PROVE  TrackInv'
<1>1. TypeOK' /\ CurOK'
  BY TypeStep, CurOKStep DEF TrackInv
<1>2. CopyOK' /\ PlanOK' /\ NsOK'
  BY CopyOKStep, PlanOKStep, NsOKStep DEF TrackInv
<1>3. Tracked' /\ DropOK'
  BY TrackedStep
<1> QED
  BY <1>1, <1>2, <1>3 DEF TrackInv

\* No replica is ever lost.  For every fleet, request, policy set and foreign
\* object, and whatever crashes or fails between two calls, an object that
\* carries the UID of the source is recorded in the persisted inventory or was
\* released with an event, provided hub reads are current.
THEOREM NothingLost ==
    ASSUME StaleReads = FALSE
    PROVE  Spec => []Tracked
<1>1. Init => TrackInv
  BY TrackInvInit
<1>2. TrackInv /\ [Next]_vars => TrackInv'
  BY TrackInvStep
<1>3. TrackInv => Tracked
  BY DEF TrackInv
<1> QED
  BY <1>1, <1>2, <1>3, PTL DEF Spec

=============================================================================
