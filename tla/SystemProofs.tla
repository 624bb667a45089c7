---------------------------- MODULE SystemProofs ----------------------------
(***************************************************************************)
(* What the engine may touch and what it may delete, for every fleet,      *)
(* policy history and behaviour of the other actors, stale hub reads       *)
(* included; and what is left of the theorems about the engine once the    *)
(* request controller of module System works beside it.                    *)
(*                                                                         *)
(* Consent: the inductive invariant carries the verdict of the read at     *)
(* which the decision was taken (seen) to the write that acts on it.       *)
(* Revocation: it carries the verdict of the evaluation (snap) to the      *)
(* garbage collection that acts on it.                                     *)
(***************************************************************************)
EXTENDS TrackedProofs, System

\* What the read that the current step rests on has established.
ConsentOK ==
    /\ pc = "delete" => seen.uid = "self"
    /\ pc \in {"write", "recreate", "reapply"} /\ seen # NoObj /\ seen.uid # "self"
          => ~seen.managed /\ snap.requested = "Overwrite" /\ GrantedBy(cur, "Overwrite")
    /\ pc = "adopt" /\ seen # NoObj /\ seen.uid # "self"
          => /\ ~seen.managed
             /\ snap.requested \in {"Adopt", "Overwrite"}
             /\ GrantedBy(cur, "Adopt") \/ GrantedBy(cur, "Overwrite")
             /\ HashEquals(seen, snap.content)

-----------------------------------------------------------------------------
\* Two keys

\* Strengths order the policies: 2 is Overwrite, 1 is Adopt.
LEMMA Strength ==
    ASSUME NEW p
    PROVE  /\ conflictPolicyStrength(p) \in 0..2
           /\ conflictPolicyStrength(p) = 2 <=> p = "Overwrite"
           /\ conflictPolicyStrength(p) = 1 <=> p = "Adopt"
BY DEF conflictPolicyStrength

\* The grant is one of the allowed policies, and none of them is stronger.
LEMMA GrantIsStrongest ==
    ASSUME NEW A, A # {}
    PROVE  /\ Grant(A) \in A
           /\ \A q \in A : conflictPolicyStrength(Grant(A)) >= conflictPolicyStrength(q)
<1>1. \E p \in A : \A q \in A : conflictPolicyStrength(p) >= conflictPolicyStrength(q)
  <2>1. CASE "Overwrite" \in A
    BY <2>1, Strength
  <2>2. CASE "Overwrite" \notin A /\ "Adopt" \in A
    BY <2>2, Strength
  <2>3. CASE "Overwrite" \notin A /\ "Adopt" \notin A
    BY <2>3, Strength
  <2> QED
    BY <2>1, <2>2, <2>3
<1> HIDE DEF conflictPolicyStrength
<1> QED
  BY <1>1 DEF Grant

\* Both keys must turn: the effective policy is never stronger than what the
\* request asks for, nor than what some policy allows.
LEMMA BothKeys ==
    ASSUME NEW r, NEW A, A # {}
    PROVE  /\ EffectiveConflictPolicy(r, A) = "Overwrite"
                 => r = "Overwrite" /\ "Overwrite" \in A
           /\ EffectiveConflictPolicy(r, A) = "Adopt"
                 => r \in {"Adopt", "Overwrite"} /\ ("Adopt" \in A \/ "Overwrite" \in A)
<1> DEFINE g == Grant(A)
<1>1. g \in A
  BY GrantIsStrongest
<1>2. /\ conflictPolicyStrength(g) \in 0..2
      /\ conflictPolicyStrength(g) = 2 <=> g = "Overwrite"
      /\ conflictPolicyStrength(g) = 1 <=> g = "Adopt"
  BY Strength
<1>3. /\ conflictPolicyStrength(r) \in 0..2
      /\ conflictPolicyStrength(r) = 2 <=> r = "Overwrite"
      /\ conflictPolicyStrength(r) = 1 <=> r = "Adopt"
  BY Strength
<1>4. EffectiveConflictPolicy(r, A) =
        IF conflictPolicyStrength(r) < conflictPolicyStrength(g) THEN r ELSE g
  BY DEF EffectiveConflictPolicy
<1> HIDE DEF g
<1> QED
  BY <1>1, <1>2, <1>3, <1>4

\* A granted capability comes from a policy that permits the target.
LEMMA CapabilityHasGrantor ==
    ASSUME NEW s, NEW c \in Options(s).allowedConflictPolicies, c # "Fail"
    PROVE  GrantedBy(s, c)
BY DEF Options, ResolveOptions, policiesByName, GrantedBy

\* The decision taken on a foreign object rests on both keys.
LEMMA DecisionNeedsBothKeys ==
    ASSUME NEW o, o.uid # "self", NEW c, NEW s
    PROVE  LET d == DecideConflict(o, c, snap.requested, Options(s).allowedConflictPolicies)
           IN  /\ d # "Apply"
               /\ d = "Overwrite" => /\ ~o.managed /\ snap.requested = "Overwrite"
                                     /\ GrantedBy(s, "Overwrite")
               /\ d = "Adopt" => /\ ~o.managed /\ snap.requested \in {"Adopt", "Overwrite"}
                                 /\ GrantedBy(s, "Adopt") \/ GrantedBy(s, "Overwrite")
                                 /\ HashEquals(o, c)
<1> DEFINE A == Options(s).allowedConflictPolicies
           eff == EffectiveConflictPolicy(snap.requested, A)
           d == DecideConflict(o, c, snap.requested, A)
<1>1. A # {}
  BY DEF Options, ResolveOptions
<1>2. /\ eff = "Overwrite" => snap.requested = "Overwrite" /\ "Overwrite" \in A
      /\ eff = "Adopt" => /\ snap.requested \in {"Adopt", "Overwrite"}
                          /\ "Adopt" \in A \/ "Overwrite" \in A
  BY <1>1, BothKeys
<1>3. /\ "Overwrite" \in A => GrantedBy(s, "Overwrite")
      /\ "Adopt" \in A => GrantedBy(s, "Adopt")
  BY CapabilityHasGrantor
<1>4. /\ d # "Apply"
      /\ d = "Overwrite" => ~o.managed /\ eff = "Overwrite"
      /\ d = "Adopt" => ~o.managed /\ eff = "Adopt" /\ HashEquals(o, c)
  BY DEF DecideConflict, IsManagedReplica
<1> QED
  BY <1>2, <1>3, <1>4

-----------------------------------------------------------------------------
\* From the read to the write

\* Consent, once found, is not lost while the worker acts on it.
LEMMA ConsentOKStep ==
    ASSUME TypeOK, CurOK, ConsentOK, [Next]_vars
    PROVE  ConsentOK'
<1>1. CASE pc' \notin {"write", "recreate", "reapply", "adopt", "delete"}
  BY <1>1 DEF ConsentOK
<1>2. ASSUME UNCHANGED <<pc, seen, snap, cur, lastResult>>
      PROVE  ConsentOK'
  BY <1>2 DEF ConsentOK, GrantedBy
<1>3. CASE StartReconcile \/ AddFinalizer \/ EvaluateTargets \/ PersistPlan \/ PlanGC
  BY <1>1, <1>3 DEF StartReconcile, AddFinalizer, UpdateRefused, EvaluateTargets, PersistPlan,
     PlanGC, Return
<1>4. CASE FinishSimple \/ WriteStatus \/ RemoveFinalizer \/ Crash
  BY <1>1, <1>4 DEF FinishSimple, WriteStatus, RemoveFinalizer, Crash, Return
<1>5. CASE ensureNamespace
  BY <1>1, <1>5 DEF ensureNamespace, NextTarget
<1>6. CASE GetExisting
  <2> DEFINE o == obj[cur]
             d == DecideConflict(o, snap.content, snap.requested,
                                 Options(cur).allowedConflictPolicies)
  <2>1. UNCHANGED <<snap, lastResult>>
    BY <1>6 DEF GetExisting, loopUnchanged, procVars
  <2>2. CASE pc' = "write" /\ seen' = o /\ UNCHANGED cur
             /\ (o = NoObj \/ ClassifyReplicaOwnership(o) = "Stripped")
    <3>1. o = NoObj \/ o.uid = "self"
      BY <2>2 DEF ClassifyReplicaOwnership
    <3> QED
      BY <2>2, <3>1 DEF ConsentOK
  <2>3. CASE pc' = "write" /\ seen' = o /\ UNCHANGED cur /\ d \in {"Overwrite", "Apply"}
    <3>1. o.uid # "self" => /\ ~o.managed /\ snap.requested = "Overwrite"
                            /\ GrantedBy(cur, "Overwrite")
      BY <2>3, DecisionNeedsBothKeys
    <3> QED
      BY <2>1, <2>3, <3>1 DEF ConsentOK, GrantedBy
  <2>4. CASE pc' = "adopt" /\ seen' = o /\ UNCHANGED cur /\ d = "Adopt"
    <3>1. o.uid # "self" => /\ ~o.managed /\ snap.requested \in {"Adopt", "Overwrite"}
                            /\ GrantedBy(cur, "Adopt") \/ GrantedBy(cur, "Overwrite")
                            /\ HashEquals(o, snap.content)
      BY <2>4, DecisionNeedsBothKeys
    <3> QED
      BY <2>1, <2>4, <3>1 DEF ConsentOK, GrantedBy
  <2>5. CASE pc' = "targets"
    BY <1>1, <2>5
  <2> QED
    BY <1>6, <2>2, <2>3, <2>4, <2>5 DEF GetExisting, NextTarget, Succeeded
<1>7. CASE Adopt \/ RecreateApply
  BY <1>1, <1>7 DEF Adopt, RecreateApply, ApplyObject, NextTarget, Succeeded
<1>8. CASE ApplyReplica \/ RecreateDelete
  <2>1. CASE pc' = "targets"
    BY <1>1, <2>1
  <2>2. CASE pc \in {"write", "recreate"} /\ pc' \in {"recreate", "reapply"}
             /\ UNCHANGED <<cur, seen, snap, lastResult>>
    BY <2>2 DEF ConsentOK, GrantedBy
  <2> QED
    BY <1>8, <2>1, <2>2 DEF ApplyReplica, RecreateDelete, ApplyObject, NextTarget, Succeeded,
       loopUnchanged, procVars
<1>9. CASE GCGet
  BY <1>1, <1>9 DEF GCGet, ClassifyReplicaOwnership, ConsentOK
<1>10. CASE GCDelete
  BY <1>1, <1>10 DEF GCDelete
<1>11. CASE Environment /\ ~Crash
  BY <1>2, <1>11, EnvironmentKeepsMemory
<1>12. CASE UNCHANGED vars
  BY <1>2, <1>12 DEF vars
<1> QED
  BY <1>3, <1>4, <1>5, <1>6, <1>7, <1>8, <1>9, <1>10, <1>11, <1>12
     DEF Next, Reconcile, Idle

\* A step that changes an object without using up a disturbance is a write of
\* the engine to the slot it visits.
LEMMA TouchIsEngineWrite ==
    ASSUME TypeOK, CurOK, [Next]_vars, NEW s \in Slots, EngineTouches(s)
    PROVE  /\ Adopt \/ ApplyReplica \/ RecreateDelete \/ RecreateApply \/ GCDelete
           /\ s = cur
<1>1. ~UNCHANGED obj
  BY DEF EngineTouches
<1>2. ~(ChangeNamespace \/ SpokeReplace \/ SpokeEdit \/ SpokeAddKey)
  BY BoundsAssumption DEF TypeOK, EngineTouches, ChangeNamespace, SpokeReplace, SpokeEdit,
     SpokeAddKey, Disturb
<1>3. ~ensureNamespace /\ ~UNCHANGED vars
  BY <1>1 DEF ensureNamespace, vars
<1>4. Adopt \/ ApplyReplica \/ RecreateDelete \/ RecreateApply \/ GCDelete
  BY <1>1, <1>2, <1>3, QuietSteps, QuietEnvironment DEF Next, Reconcile, Environment, Idle
<1>5. s = cur
  BY <1>4, EngineWrites DEF EngineTouches
<1> QED
  BY <1>4, <1>5

\* What the engine touches, it touches with consent.
LEMMA ConsentedTouch ==
    ASSUME TypeOK, CurOK, ConsentOK, [Next]_vars
    PROVE  TouchesWithConsent
<1> SUFFICES ASSUME NEW s \in Slots, EngineTouches(s),
                    obj[s] # NoObj, obj[s].uid # "self", obj[s] = seen
             PROVE  Consented(s, obj[s])
  BY DEF TouchesWithConsent
<1>1. /\ Adopt \/ ApplyReplica \/ RecreateDelete \/ RecreateApply \/ GCDelete
      /\ s = cur
  BY TouchIsEngineWrite
<1>2. CASE Adopt
  BY <1>1, <1>2 DEF ConsentOK, Adopt, Consented
<1>3. CASE ApplyReplica \/ RecreateDelete \/ RecreateApply
  BY <1>1, <1>3 DEF ConsentOK, ApplyReplica, RecreateDelete, RecreateApply, Consented
<1>4. CASE GCDelete
  BY <1>1, <1>4 DEF ConsentOK, GCDelete
<1> QED
  BY <1>1, <1>2, <1>3, <1>4

\* The engine touches foreign objects only with consent.  For every fleet,
\* policy history, crash and interference of other actors, stale hub reads
\* included: it changes or deletes an object without its UID only if the request
\* and a permitting policy both ask for it, or the object came after the read.
THEOREM ForeignSafe == Spec => ForeignNeedsConsent
<1> DEFINE I == TypeOK /\ CurOK /\ ConsentOK
<1>1. Init => I
  BY InitType DEF Init, CurOK, ConsentOK
<1>2. I /\ [Next]_vars => I'
  BY TypeStep, CurOKStep, ConsentOKStep
<1>3. I /\ [Next]_vars => [TouchesWithConsent]_vars
  BY ConsentedTouch
<1> QED
  BY <1>1, <1>2, <1>3, PTL DEF Spec, ForeignNeedsConsent

-----------------------------------------------------------------------------
\* Revocation

\* The policies in P all say Retain, and one of them still covers the source.
RetainOnly(P) ==
    /\ \A p \in P : p.revocationPolicy = "Retain"
    /\ \E p \in P : matchSourceNamespace(p, Src) /\ Src.kind \in p.kinds

\* What an evaluation with such policies leaves for the steps that follow it:
\* every recorded slot of a requested target is kept, and what is not kept is
\* not requested.
RetainOK ==
    ~my.deleting /\ RetainOnly(snap.policies) =>
        /\ pc = "persist" \/ pc \in Writing =>
              /\ todo \subseteq keep
              /\ cur # NoSlot => cur \in keep
              /\ \A s \in my.targets : hasEntry(inv, s) => s \in keep
        /\ pc \in {"gc", "delete"} => todo \cap my.targets = {}
        /\ pc = "delete" => cur \notin my.targets

\* Past the evaluation, the policies at hand are a set that existed.
SnapOK ==
    ~my.deleting /\ pc \notin {"idle", "finalizer", "evaluate"}
        => snap.policies \in PolicySets

\* A policy that covers the source is denied on the target's side or not at all.
LEMMA CoveringPolicy ==
    ASSUME NEW p, NEW tgt, matchSourceNamespace(p, Src), Src.kind \in p.kinds
    PROVE  decide(Src, tgt, {p}).denied \in {"", "targetCluster", "targetNamespace"}
<1> DEFINE m == matchPolicy(p, Src, tgt)
           failing == {d \in Dimensions : ~dimensionMatches(d, p, Src, tgt)}
<1>1. failing \subseteq {"targetCluster", "targetNamespace"}
  BY DEF Dimensions, dimensionMatches
<1>2. m \in {"", "targetCluster", "targetNamespace"}
  <2>1. CASE failing = {}
    BY <2>1 DEF matchPolicy
  <2>2. CASE failing # {}
    <3>1. \E d \in failing : \A e \in failing : dimensionRank(d) <= dimensionRank(e)
      <4>1. CASE "targetCluster" \in failing
        BY <1>1, <4>1 DEF dimensionRank
      <4>2. CASE "targetCluster" \notin failing
        BY <1>1, <2>2, <4>2 DEF dimensionRank
      <4> QED
        BY <4>1, <4>2
    <3>2. m \in failing
      BY <2>2, <3>1 DEF matchPolicy
    <3> QED
      BY <1>1, <3>2
  <2> QED
    BY <2>1, <2>2
<1> HIDE DEF m, failing
<1>3. CASE m = ""
  <2>1. p \in {q \in {p} : matchPolicy(q, Src, tgt) = ""}
    BY <1>3 DEF m
  <2>2. p.name \in matchedPolicies(Src, tgt, {p})
    BY <2>1, Zenon DEF matchedPolicies
  <2>3. matchedPolicies(Src, tgt, {p}) # {} /\ {p} # {}
    BY <2>2
  <2>4. decide(Src, tgt, {p}).denied = ""
    BY <2>3 DEF decide
  <2> QED
    BY <2>4
<1>4. CASE m # ""
  <2>1. matchedPolicies(Src, tgt, {p}) = {}
    BY <1>4 DEF matchedPolicies, m
  <2>2. {matchPolicy(q, Src, tgt) : q \in {p}} = {m}
    BY DEF m
  <2>3. m \in {"targetCluster", "targetNamespace"}
    BY <1>2, <1>4
  <2>4. dimensionRank(m) >= dimensionRank(m)
    BY <2>3 DEF dimensionRank
  <2>5. decide(Src, tgt, {p}).denied =
           CHOOSE d \in {m} : \A e \in {m} : dimensionRank(d) >= dimensionRank(e)
    BY <2>1, <2>2 DEF decide
  <2> QED
    BY <2>3, <2>4, <2>5
<1> QED
  BY <1>3, <1>4

\* With such policies a revocation never deletes, whichever policies are
\* remembered for the target.
LEMMA RevocationRetains ==
    ASSUME RetainOnly(policies), NEW k, NEW previous
    PROVE  effectiveRevocationPolicy(k, previous) = "Retain"
<1> DEFINE granting == policiesByName(policies, previous)
           matching == {p \in policies : decide(Src, TargetOf(k), {p}).denied
                                            \in {"", "targetCluster", "targetNamespace"}}
           chosen == IF granting # {} THEN granting ELSE matching
<1>1. matching # {}
  BY CoveringPolicy DEF RetainOnly
<1>2. chosen # {} /\ chosen \subseteq policies
  BY <1>1 DEF policiesByName
<1>3. effectiveRevocationPolicy(k, previous) = ResolveOptions(chosen).revocationPolicy
  BY DEF effectiveRevocationPolicy
<1> HIDE DEF chosen
<1> QED
  BY <1>2, <1>3 DEF ResolveOptions, RetainOnly

\* The evaluation keeps every recorded slot of a requested target.
LEMMA EvaluationKeeps ==
    ASSUME TypeOK, EvaluateTargets, RetainOnly(policies)
    PROVE  /\ todo' \subseteq keep'
           /\ \A s \in my.targets : hasEntry(inv', s) => s \in keep'
<1> DEFINE result  == Evaluate({KeyOf(s) : s \in my.targets})
           allowed == {s \in my.targets : result[KeyOf(s)] # {}}
<1>1. /\ keep' = allowed \cup retainedSlots(result, my.inv)
      /\ todo' = allowed
      /\ inv' = Planned(my.inv, allowed)
  BY DEF EvaluateTargets
<1>2. DOMAIN result = {KeyOf(s) : s \in my.targets}
  BY DEF Evaluate
<1>3. my.targets \subseteq Slots /\ my.inv \in Inventories
  BY DEF TypeOK, Replications
<1> HIDE DEF result
<1>4. ASSUME NEW s \in my.targets, hasEntry(inv', s), s \notin allowed
      PROVE  s \in retainedSlots(result, my.inv)
  <2>1. hasEntry(my.inv, s)
    BY <1>1, <1>3, <1>4, PlannedCovers
  <2>2. KeyOf(s) \in DOMAIN result /\ result[KeyOf(s)] = {}
    BY <1>2, <1>4
  <2>3. s \in entriesInNamespace(my.inv, KeyOf(s))
    BY <1>3, <2>1 DEF entriesInNamespace
  <2>4. KeyOf(s) \in revokedKeys(result, my.inv)
    BY <2>2, <2>3 DEF revokedKeys
  <2>5. effectiveRevocationPolicy(KeyOf(s), lastResult[KeyOf(s)]) = "Retain"
    BY RevocationRetains
  <2> QED
    BY <2>3, <2>4, <2>5 DEF retainedSlots
<1> QED
  BY <1>1, <1>4

\* Visiting a target changes the entries of kept slots only.
LEMMA VisitKeeps ==
    ASSUME TypeOK, CurOK, RetainOK, ~my.deleting, RetainOnly(snap.policies),
           \/ ensureNamespace \/ GetExisting \/ Adopt \/ ApplyReplica
           \/ RecreateDelete \/ RecreateApply
    PROVE  RetainOK'
<1>0. /\ UNCHANGED <<my, keep, snap>>
      /\ pc \in Writing /\ inv \in Inventories /\ todo \subseteq Slots
      /\ my.targets \subseteq Slots
  <2>1. UNCHANGED <<my, keep, snap>>
    BY DEF ensureNamespace, GetExisting, Adopt, ApplyReplica, RecreateDelete, RecreateApply,
       loopUnchanged
  <2>2. pc \in Writing
    BY DEF ensureNamespace, GetExisting, Adopt, ApplyReplica, RecreateDelete, RecreateApply,
       Writing
  <2> QED
    BY <2>1, <2>2 DEF TypeOK, Replications
<1>1. /\ todo \subseteq keep
      /\ cur # NoSlot => cur \in keep
      /\ \A s \in my.targets : hasEntry(inv, s) => s \in keep
  BY <1>0 DEF RetainOK
<1>2. CASE ensureNamespace
  <2>1. PICK s \in todo : /\ todo' = todo \ {s}
                          /\ (\E r, e : Failed(s, r, e)) \/ UNCHANGED inv
                          /\ pc' \in Writing
                          /\ cur' \in {NoSlot, s}
    BY <1>2 DEF ensureNamespace, NextTarget, Writing
  <2>2. \A t \in Slots : inv'[t] # inv[t] => t = s
    BY <1>0, <2>1 DEF Failed, Inventories
  <2> QED
    BY <1>0, <1>1, <2>1, <2>2 DEF RetainOK, hasEntry, Writing
<1>3. CASE ~ensureNamespace
  <2>1. /\ UNCHANGED todo
        /\ \A s \in Slots \ {cur} : inv'[s] = inv[s]
        /\ pc' \in Writing /\ cur' \in {NoSlot, cur}
    BY <1>3, VisitSteps DEF Writing
  <2>2. cur # NoSlot
    BY <1>3, SlotsAssumption DEF CurOK, GetExisting, Adopt, ApplyReplica, RecreateDelete,
       RecreateApply
  <2> QED
    BY <1>0, <1>1, <2>1, <2>2 DEF RetainOK, hasEntry, Writing
<1> QED
  BY <1>2, <1>3

\* What the evaluation decided to keep stays out of the garbage collection.
LEMMA RetainOKStep ==
    ASSUME TypeOK, CurOK, RetainOK, [Next]_vars
    PROVE  RetainOK'
<1>1. CASE pc' \in {"idle", "finalizer", "evaluate"}
  BY <1>1 DEF RetainOK, Writing
<1>2. CASE UNCHANGED <<pc, my, snap, keep, todo, cur, inv>>
  BY <1>2 DEF RetainOK
<1>3. CASE StartReconcile
  BY <1>1, <1>3 DEF StartReconcile, RetainOK
<1>4. CASE AddFinalizer \/ FinishSimple \/ WriteStatus \/ RemoveFinalizer \/ Crash
  BY <1>1, <1>4 DEF AddFinalizer, UpdateRefused, FinishSimple, WriteStatus, RemoveFinalizer,
     Crash, Return
<1>5. CASE EvaluateTargets
  <2> SUFFICES ASSUME RetainOnly(snap'.policies) PROVE RetainOK'
    BY DEF RetainOK
  <2>1. /\ snap'.policies = policies /\ UNCHANGED <<my, cur>> /\ cur = NoSlot
        /\ pc' \in {"persist", "targets"}
    BY <1>5 DEF EvaluateTargets, CurOK
  <2>2. /\ todo' \subseteq keep'
        /\ \A s \in my.targets : hasEntry(inv', s) => s \in keep'
    BY <1>5, <2>1, EvaluationKeeps
  <2> QED
    BY <2>1, <2>2 DEF RetainOK
<1>6. CASE PersistPlan
  <2>1. CASE UpdateRefused
    BY <1>1, <2>1 DEF UpdateRefused, Return
  <2>2. CASE UpdateOk([my EXCEPT !.inv = inv]) /\ pc' = "targets"
             /\ UNCHANGED <<snap, inv, keep, todo, cur>>
    <3>1. my'.targets = my.targets /\ my'.deleting = my.deleting /\ pc = "persist"
      BY <1>6, <2>2 DEF UpdateOk, TypeOK, Replications, PersistPlan
    <3> QED
      BY <2>2, <3>1 DEF RetainOK
  <2> QED
    BY <1>6, <2>1, <2>2 DEF PersistPlan
<1>7. CASE \/ ensureNamespace \/ GetExisting \/ Adopt \/ ApplyReplica
           \/ RecreateDelete \/ RecreateApply
  <2>1. UNCHANGED <<my, snap>>
    BY <1>7 DEF ensureNamespace, GetExisting, Adopt, ApplyReplica, RecreateDelete,
       RecreateApply, loopUnchanged
  <2>2. CASE ~my.deleting /\ RetainOnly(snap.policies)
    BY <1>7, <2>2, VisitKeeps
  <2>3. CASE ~(~my.deleting /\ RetainOnly(snap.policies))
    BY <2>1, <2>3 DEF RetainOK
  <2> QED
    BY <2>2, <2>3
<1>8. CASE PlanGC
  <2>1. /\ pc = "targets" /\ pc' = "gc" /\ UNCHANGED <<my, snap>>
        /\ \A s \in todo' : hasEntry(inv, s) /\ s \notin keep
    BY <1>8 DEF PlanGC, GCTodo
  <2> QED
    BY <2>1 DEF RetainOK, Writing
<1>9. CASE GCGet
  <2>1. PICK s \in todo : /\ todo' = todo \ {s}
                          /\ pc' = "delete" => cur' = s
    BY <1>9 DEF GCGet
  <2>2. pc = "gc" /\ pc' \in {"gc", "delete"} /\ UNCHANGED <<my, snap>>
    BY <1>9 DEF GCGet, loopUnchanged
  <2> QED
    BY <2>1, <2>2 DEF RetainOK, Writing
<1>10. CASE GCDelete
  BY <1>10 DEF GCDelete, RetainOK, Writing, loopUnchanged
<1>11. CASE Environment /\ ~Crash
  BY <1>2, <1>11, EnvironmentKeepsMemory
<1>12. CASE UNCHANGED vars
  BY <1>2, <1>12 DEF vars
<1> QED
  BY <1>3, <1>4, <1>5, <1>6, <1>7, <1>8, <1>9, <1>10, <1>11, <1>12
     DEF Next, Reconcile, Idle

\* The policies read at the evaluation stay at hand until the reconcile ends.
LEMMA SnapOKStep ==
    ASSUME TypeOK, SnapOK, [Next]_vars
    PROVE  SnapOK'
<1>1. CASE pc' \in {"idle", "finalizer", "evaluate"}
  BY <1>1 DEF SnapOK
<1>2. CASE UNCHANGED <<my, snap>> /\ pc \notin {"idle", "finalizer", "evaluate"}
  BY <1>2 DEF SnapOK
<1>3. CASE StartReconcile
  BY <1>1, <1>3 DEF StartReconcile, SnapOK
<1>4. CASE AddFinalizer \/ FinishSimple \/ WriteStatus \/ RemoveFinalizer \/ Crash
  BY <1>1, <1>4 DEF AddFinalizer, UpdateRefused, FinishSimple, WriteStatus, RemoveFinalizer,
     Crash, Return
<1>5. CASE EvaluateTargets
  BY <1>5 DEF EvaluateTargets, SnapOK, TypeOK
<1>6. CASE PersistPlan
  <2>1. CASE UpdateRefused
    BY <1>1, <2>1 DEF UpdateRefused, Return
  <2>2. CASE UpdateOk([my EXCEPT !.inv = inv]) /\ UNCHANGED snap
    <3>1. my'.deleting = my.deleting /\ pc = "persist"
      BY <1>6, <2>2 DEF UpdateOk, TypeOK, Replications, PersistPlan
    <3> QED
      BY <2>2, <3>1 DEF SnapOK
  <2> QED
    BY <1>6, <2>1, <2>2 DEF PersistPlan
<1>7. CASE ensureNamespace \/ GetExisting \/ PlanGC \/ GCGet \/ GCDelete
  BY <1>2, <1>7 DEF ensureNamespace, GetExisting, PlanGC, GCGet, GCDelete, loopUnchanged
<1>8. CASE Adopt \/ ApplyReplica \/ RecreateDelete \/ RecreateApply
  BY <1>2, <1>8 DEF Adopt, ApplyReplica, RecreateDelete, RecreateApply, loopUnchanged
<1>9. CASE Environment /\ ~Crash
  BY <1>9, EnvironmentKeepsMemory DEF SnapOK
<1>10. CASE UNCHANGED vars
  BY <1>10 DEF vars, SnapOK
<1> QED
  BY <1>3, <1>4, <1>5, <1>6, <1>7, <1>8, <1>9, <1>10 DEF Next, Reconcile, Idle

\* A deletion is justified by the evaluation it follows: while the target is
\* requested and the Replication is not being deleted, the engine deletes a
\* replica only if one of the policies it read says Delete, or none of them
\* covers the source any more.
DeletionJustified ==
    pc = "delete" /\ ~my.deleting /\ cur \in my.targets => ~RetainOnly(snap.policies)

\* DeletionJustified for every fleet, policy history, crash and lagging cache.
THEOREM RevocationJustified == Spec => []DeletionJustified
<1> DEFINE I == TypeOK /\ CurOK /\ RetainOK
<1>1. Init => I
  BY InitType DEF Init, CurOK, RetainOK, Writing
<1>2. I /\ [Next]_vars => I'
  BY TypeStep, CurOKStep, RetainOKStep
<1>3. I => DeletionJustified
  BY DEF RetainOK, DeletionJustified
<1> QED
  BY <1>1, <1>2, <1>3, PTL DEF Spec

\* When every policy set that may exist says Retain and still covers the source,
\* the engine never deletes a replica whose target is still requested.
THEOREM RetainRespected ==
    ASSUME \A P \in PolicySets : RetainOnly(P)
    PROVE  Spec => []RetainKeeps
<1> DEFINE I == TypeOK /\ CurOK /\ RetainOK /\ SnapOK
<1>1. Init => I
  BY InitType DEF Init, CurOK, RetainOK, SnapOK, Writing
<1>2. I /\ [Next]_vars => I'
  BY TypeStep, CurOKStep, RetainOKStep, SnapOKStep
<1>3. I => RetainKeeps
  BY DEF RetainOK, SnapOK, RetainKeeps
<1> QED
  BY <1>1, <1>2, <1>3, PTL DEF Spec

-----------------------------------------------------------------------------
\* The request controller beside the engine

\* A step of the system is a step of the engine and its environment, or one of
\* the request controller and its user.
LEMMA SystemSteps ==
    ASSUME [SysNext]_sysVars
    PROVE  [Next]_vars \/ Materialize \/ ReleaseRequest \/ ToggleRequest
<1>1. CASE EngineSteps
  BY <1>1 DEF EngineSteps, Next
<1>2. CASE Surroundings
  BY <1>2 DEF Surroundings, Next, Environment
<1>3. CASE Idle /\ UNCHANGED requesting
  BY <1>3 DEF Next
<1>4. CASE UNCHANGED sysVars
  BY <1>4 DEF sysVars
<1> QED
  BY <1>1, <1>2, <1>3, <1>4 DEF SysNext

\* The request controller stores a Replication: the old one with other targets
\* or a deletion mark, or it replaces one without the engine's finalizer.
LEMMA RequestStores ==
    ASSUME TypeOK, Materialize \/ ReleaseRequest
    PROVE  \E r \in Replications :
              /\ OthersStore(r)
              /\ \/ r.exists = rep.exists /\ r.finalizer = rep.finalizer /\ r.inv = rep.inv
                 \/ /\ ~rep.exists \/ ~rep.finalizer
                    /\ r.inv = NoInventory /\ ~r.finalizer
<1>0. rep \in Replications /\ Resolved \in SUBSET Slots
  BY WantedAssumption DEF TypeOK, Resolved
<1>1. CASE Materialize /\ ~rep.exists
  <2> DEFINE r == Created(Resolved, TRUE)
  <2>1. r \in Replications /\ r.inv = NoInventory /\ ~r.finalizer
    BY <1>0, CreatedType, NewFields
  <2>2. OthersStore(r)
    BY <1>1 DEF Materialize
  <2> HIDE DEF r
  <2> QED
    BY <1>1, <2>1, <2>2
<1>2. CASE Materialize /\ rep.exists
  <2> DEFINE r == [rep EXCEPT !.targets = Resolved]
  <2>1. r \in Replications
    BY <1>0 DEF Replications
  <2>2. r.exists = rep.exists /\ r.finalizer = rep.finalizer /\ r.inv = rep.inv
    BY <1>0, ReplicationFields
  <2>3. OthersStore(r)
    BY <1>2 DEF Materialize
  <2> HIDE DEF r
  <2> QED
    BY <2>1, <2>2, <2>3
<1>3. CASE ReleaseRequest /\ rep.finalizer
  <2> DEFINE r == [rep EXCEPT !.deleting = TRUE]
  <2>1. r \in Replications
    BY <1>0 DEF Replications
  <2>2. r.exists = rep.exists /\ r.finalizer = rep.finalizer /\ r.inv = rep.inv
    BY <1>0, ReplicationFields
  <2>3. OthersStore(r)
    BY <1>3 DEF ReleaseRequest
  <2> HIDE DEF r
  <2> QED
    BY <2>1, <2>2, <2>3
<1>4. CASE ReleaseRequest /\ ~rep.finalizer
  <2>1. Gone \in Replications /\ Gone.inv = NoInventory /\ ~Gone.finalizer
    BY GoneType, NewFields
  <2>2. OthersStore(Gone)
    BY <1>4 DEF ReleaseRequest
  <2> QED
    BY <1>4, <2>1, <2>2
<1> QED
  BY <1>1, <1>2, <1>3, <1>4

\* The request controller and its user leave the spokes and the memory of the
\* engine alone.
LEMMA RequestLeavesAlone ==
    ASSUME Materialize \/ ReleaseRequest \/ ToggleRequest
    PROVE  UNCHANGED <<inputVars, spokeVars, procVars, released, pc, my, snap, inv, keep, todo,
                       cur, seen, states>>
<1>1. CASE Materialize \/ ReleaseRequest
  BY <1>1 DEF Materialize, ReleaseRequest, OthersStore, requestUnchanged
<1>2. CASE ToggleRequest
  BY <1>2 DEF ToggleRequest, hubUnchanged, workVars
<1> QED
  BY <1>1, <1>2

\* The request controller keeps the types of the engine's state.
LEMMA RequestType ==
    ASSUME TypeOK, Materialize \/ ReleaseRequest \/ ToggleRequest
    PROVE  TypeOK'
<1>1. CASE Materialize \/ ReleaseRequest
  <2>1. PICK r \in Replications : OthersStore(r)
    BY <1>1, RequestStores
  <2>2. budget' \in 0..MaxDisturbances
        /\ UNCHANGED <<inputVars, spokeVars, procVars, released>>
    BY <1>1 DEF Materialize, ReleaseRequest, requestUnchanged, TypeOK
  <2> QED
    BY <2>1, <2>2, OthersStoreType
<1>2. CASE ToggleRequest
  <2>1. budget' \in 0..MaxDisturbances
    BY <1>2, DisturbType DEF ToggleRequest
  <2> QED
    BY <1>2, <2>1 DEF ToggleRequest, hubUnchanged, hubVars, inputVars, spokeVars, procVars,
       workVars, TypeOK
<1> QED
  BY <1>1, <1>2

\* What the engine remembers of its reads and evaluations survives the request
\* controller.
LEMMA RequestKeepsMemory ==
    ASSUME Materialize \/ ReleaseRequest \/ ToggleRequest
    PROVE  /\ CurOK => CurOK'
           /\ ConsentOK => ConsentOK'
           /\ RetainOK => RetainOK'
           /\ SnapOK => SnapOK'
<1>1. UNCHANGED <<pc, my, snap, inv, keep, todo, cur, seen, lastResult>>
  BY RequestLeavesAlone DEF procVars
<1>2. CurOK => CurOK'
  BY <1>1 DEF CurOK
<1>3. ConsentOK => ConsentOK'
  BY <1>1 DEF ConsentOK, GrantedBy
<1>4. RetainOK => RetainOK'
  BY <1>1 DEF RetainOK
<1>5. SnapOK => SnapOK'
  BY <1>1 DEF SnapOK
<1> QED
  BY <1>2, <1>3, <1>4, <1>5

\* No step of the request controller loses track of a replica.
LEMMA RequestTracks ==
    ASSUME StaleReads = FALSE, TrackInv, Materialize \/ ReleaseRequest \/ ToggleRequest
    PROVE  TrackInv'
<1> USE DEF TrackInv
<1>1. TypeOK' /\ CurOK'
  BY RequestType, RequestKeepsMemory
<1>2. UNCHANGED <<obj, namespaces, released, pc, my, inv, todo, cur>>
  BY RequestLeavesAlone DEF spokeVars
<1>3. rep'.inv = rep.inv /\ CopyOK'
  <2>1. CASE Materialize \/ ReleaseRequest
    <3>1. PICK r \in Replications :
              /\ OthersStore(r)
              /\ \/ r.exists = rep.exists /\ r.finalizer = rep.finalizer /\ r.inv = rep.inv
                 \/ /\ ~rep.exists \/ ~rep.finalizer
                    /\ r.inv = NoInventory /\ ~r.finalizer
      BY <2>1, RequestStores
    <3>2. rep' = r /\ cache' = [rep |-> rep', fresh |-> TRUE] /\ ~fresh'
      BY <3>1, StoreFresh DEF OthersStore
    <3>3. ~rep.exists \/ ~rep.finalizer => rep.inv = NoInventory
      BY DEF CopyOK
    <3>4. r.inv = rep.inv
      BY <3>1, <3>3
    <3> QED
      BY <1>2, <3>1, <3>2, <3>4 DEF CopyOK
  <2>2. CASE ToggleRequest
    <3>1. UNCHANGED <<rep, cache, fresh>>
      BY <2>2 DEF ToggleRequest, hubUnchanged, hubVars, workVars
    <3> QED
      BY <1>2, <3>1 DEF CopyOK
  <2> QED
    BY <2>1, <2>2
<1>4. PlanOK'
  BY <1>2, <1>3 DEF PlanOK
<1>5. DropOK' /\ NsOK' /\ Tracked'
  BY <1>2, <1>3 DEF DropOK, NsOK, Tracked
<1> QED
  BY <1>1, <1>3, <1>4, <1>5

\* Type correctness of the engine's state while the request controller creates,
\* retargets and deletes the Replication under it.
THEOREM SystemTypes == SysSpec => []TypeOK
<1> DEFINE I == TypeOK /\ CurOK
<1>1. SysInit => I
  BY InitType DEF SysInit, Init, CurOK
<1>2. I /\ [SysNext]_sysVars => I'
  BY SystemSteps, TypeStep, CurOKStep, RequestType, RequestKeepsMemory
<1> QED
  BY <1>1, <1>2, PTL DEF SysSpec

\* No replica is lost between the two controllers: whatever the user annotates
\* and takes back, the targets the request controller resolves and the moment it
\* deletes the Replication, a replica of ours is recorded in the inventory or
\* was released with an event, provided hub reads are current.
THEOREM SystemNothingLost ==
    ASSUME StaleReads = FALSE
    PROVE  SysSpec => []Tracked
<1>1. SysInit => TrackInv
  BY TrackInvInit DEF SysInit
<1>2. TrackInv /\ [SysNext]_sysVars => TrackInv'
  BY SystemSteps, TrackInvStep, RequestTracks
<1>3. TrackInv => Tracked
  BY DEF TrackInv
<1> QED
  BY <1>1, <1>2, <1>3, PTL DEF SysSpec

\* Once the Replication is gone, no replica of ours is left on any spoke but the
\* ones released with an event.
GoneMeansGone ==
    ~rep.exists => \A s \in Slots : obj[s].uid # "self" \/ s \in released

\* The engine's finalizer does what it is there for: GoneMeansGone holds for
\* every fleet, failure and crash, and however the user and the request
\* controller interleave with the engine, provided hub reads are current.
THEOREM SystemGoneMeansGone ==
    ASSUME StaleReads = FALSE
    PROVE  SysSpec => []GoneMeansGone
<1>1. SysInit => TrackInv
  BY TrackInvInit DEF SysInit
<1>2. TrackInv /\ [SysNext]_sysVars => TrackInv'
  BY SystemSteps, TrackInvStep, RequestTracks
<1>3. TrackInv => GoneMeansGone
  BY DEF TrackInv, CopyOK, Tracked, GoneMeansGone, hasEntry, NoInventory
<1> QED
  BY <1>1, <1>2, <1>3, PTL DEF SysSpec

\* The request controller gives the engine no licence it would not have alone:
\* foreign objects are still touched with consent only.
THEOREM SystemForeignSafe == SysSpec => [][TouchesWithConsent]_sysVars
<1> DEFINE I == TypeOK /\ CurOK /\ ConsentOK
<1>1. SysInit => I
  BY InitType DEF SysInit, Init, CurOK, ConsentOK
<1>2. I /\ [SysNext]_sysVars => I'
  BY SystemSteps, TypeStep, CurOKStep, ConsentOKStep, RequestType, RequestKeepsMemory
<1>3. I /\ [SysNext]_sysVars => [TouchesWithConsent]_sysVars
  <2> SUFFICES ASSUME I, [SysNext]_sysVars PROVE TouchesWithConsent
    OBVIOUS
  <2>1. CASE [Next]_vars
    BY <2>1, ConsentedTouch
  <2>2. CASE Materialize \/ ReleaseRequest \/ ToggleRequest
    BY <2>2, RequestLeavesAlone DEF TouchesWithConsent, EngineTouches, spokeVars
  <2> QED
    BY <2>1, <2>2, SystemSteps
<1> QED
  BY <1>1, <1>2, <1>3, PTL DEF SysSpec

\* A deletion of a replica whose target the engine's copy still requests is
\* justified by the policies of its evaluation, in the composed system as well.
THEOREM SystemRevocationJustified == SysSpec => []DeletionJustified
<1> DEFINE I == TypeOK /\ CurOK /\ RetainOK
<1>1. SysInit => I
  BY InitType DEF SysInit, Init, CurOK, RetainOK, Writing
<1>2. I /\ [SysNext]_sysVars => I'
  BY SystemSteps, TypeStep, CurOKStep, RetainOKStep, RequestType, RequestKeepsMemory
<1>3. I => DeletionJustified
  BY DEF RetainOK, DeletionJustified
<1> QED
  BY <1>1, <1>2, <1>3, PTL DEF SysSpec

=============================================================================
