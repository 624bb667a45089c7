-------------------------- MODULE AdmissionProofs --------------------------
(***************************************************************************)
(* What the webhook's refusal means for the evaluation of policies: proofs *)
(* for all policies, requests, sources and label maps.                     *)
(***************************************************************************)
EXTENDS Admission, TLAPS

\* A selector as Kubernetes parses it.
WellFormed(sel) ==
    /\ sel.selectable \in BOOLEAN
    /\ \A r \in sel.requirements : r.op \in Operators

WellFormedRequest(req) ==
    req.selects \in BOOLEAN /\ (req.selects => WellFormed(req.clusterSelector))

WellFormedPolicies(policies) == \A p \in policies : WellFormed(p.clusterSelector)

\* A cluster with these labels may be a target of the request.
Selects(req, lbls) == req.selects => SelectorMatches(req.clusterSelector, lbls)

\* Requirements that one label map meets do not contradict each other.
LEMMA MetTogether ==
    ASSUME NEW rs, NEW l, NEW key,
           \A r \in rs : r.op \in Operators /\ RequirementMatches(r, l)
    PROVE  ~contradiction(rs, key)
<1>1. ASSUME NEW r \in on(rs, key, {"In", "Exists", "Compare"})
      PROVE  key \in DOMAIN l
  BY <1>1 DEF on, RequirementMatches
<1>2. ASSUME NEW r \in on(rs, key, {"DoesNotExist"})
      PROVE  key \notin DOMAIN l
  BY <1>2 DEF on, RequirementMatches
<1>3. ASSUME NEW r \in on(rs, key, {"In"})
      PROVE  key \in DOMAIN l /\ l[key] \in r.values
  BY <1>3 DEF on, RequirementMatches
<1>4. ASSUME NEW r \in on(rs, key, {"NotIn"}), key \in DOMAIN l
      PROVE  l[key] \notin r.values
  BY <1>4 DEF on, RequirementMatches
<1>5. ~(mustNotExist(rs, key) /\ mustExist(rs, key))
  BY <1>1, <1>2 DEF mustNotExist, mustExist
<1>6. ASSUME NEW r \in on(rs, key, {"In"})
      PROVE  \E v \in r.values : remaining(rs, key, v)
  <2>1. key \in DOMAIN l /\ l[key] \in r.values
    BY <1>3, <1>6
  <2>. QED
    BY <1>3, <1>4, <2>1 DEF remaining
<1>. QED
  BY <1>5, <1>6 DEF contradiction

\* jointlySatisfiable refuses only selectors that no label map matches both.
THEOREM SatisfiableSound ==
    ASSUME NEW a, NEW b, NEW l, WellFormed(a), WellFormed(b),
           SelectorMatches(a, l), SelectorMatches(b, l)
    PROVE  jointlySatisfiable(a, b)
<1>. DEFINE rs == a.requirements \cup b.requirements
<1>1. \A r \in rs : r.op \in Operators /\ RequirementMatches(r, l)
  BY DEF WellFormed, SelectorMatches
<1>2. \A r \in rs : ~contradiction(rs, r.key)
  <2>. HIDE DEF rs
  <2>. QED
    BY <1>1, MetTogether
<1>. QED
  BY <1>2 DEF jointlySatisfiable, SelectorMatches

-----------------------------------------------------------------------------
\* A label map for requirements without a contradiction

\* It has the keys that must exist, each with a value that remains.
Witness(rs, fresh) ==
    [k \in {r.key : r \in {q \in rs : q.op \in {"In", "Exists"}}} |->
        IF on(rs, k, {"In"}) = {} THEN fresh ELSE CHOOSE v : remaining(rs, k, v)]

\* The witness meets every requirement, unless one compares numbers.
LEMMA WitnessMeets ==
    ASSUME NEW rs, NEW fresh,
           \A r \in rs : /\ r.op \in Operators \ {"Compare"}
                         /\ fresh \notin r.values
                         /\ ~contradiction(rs, r.key),
           NEW r \in rs
    PROVE  RequirementMatches(r, Witness(rs, fresh))
<1>. DEFINE W == Witness(rs, fresh)
            k == r.key
<1>1. k \in DOMAIN W <=> \E q \in rs : q.key = k /\ q.op \in {"In", "Exists"}
  BY DEF Witness
<1>2. k \in DOMAIN W =>
        W[k] = IF on(rs, k, {"In"}) = {} THEN fresh ELSE CHOOSE v : remaining(rs, k, v)
  BY DEF Witness
<1>. HIDE DEF W
<1>3. ASSUME on(rs, k, {"In"}) # {}
      PROVE  remaining(rs, k, CHOOSE v : remaining(rs, k, v))
  <2>1. PICK q \in on(rs, k, {"In"}) : TRUE
    BY <1>3
  <2>2. \E v : remaining(rs, k, v)
    BY <2>1 DEF contradiction
  <2>. QED
    BY <2>2
<1>4. CASE r.op = "In"
  <2>1. r \in on(rs, k, {"In"})
    BY <1>4 DEF on
  <2>2. k \in DOMAIN W /\ W[k] = CHOOSE v : remaining(rs, k, v)
    BY <1>1, <1>2, <1>4, <2>1
  <2>3. remaining(rs, k, W[k])
    BY <1>3, <2>1, <2>2
  <2>. QED
    BY <1>4, <2>1, <2>2, <2>3 DEF RequirementMatches, remaining, W
<1>5. CASE r.op = "NotIn"
  <2>1. r \in on(rs, k, {"NotIn"})
    BY <1>5 DEF on
  <2>2. ASSUME k \in DOMAIN W, on(rs, k, {"In"}) # {}
        PROVE  W[k] \notin r.values
    BY <1>2, <1>3, <2>1, <2>2 DEF remaining
  <2>3. ASSUME k \in DOMAIN W, on(rs, k, {"In"}) = {}
        PROVE  W[k] \notin r.values
    BY <1>2, <2>3
  <2>. QED
    BY <1>5, <2>2, <2>3 DEF RequirementMatches, W
<1>6. CASE r.op = "Exists"
  BY <1>1, <1>6 DEF RequirementMatches, W
<1>7. CASE r.op = "DoesNotExist"
  <2>1. r \in on(rs, k, {"DoesNotExist"})
    BY <1>7 DEF on
  <2>2. ~mustExist(rs, k)
    BY <2>1 DEF contradiction, mustNotExist
  <2>3. k \notin DOMAIN W
    BY <1>1, <2>2 DEF mustExist, on
  <2>. QED
    BY <1>7, <2>3 DEF RequirementMatches, W
<1>. QED
  BY <1>4, <1>5, <1>6, <1>7 DEF Operators

\* jointlySatisfiable refuses all of them: selectors that compare for equality
\* only, and that it accepts, are both matched by some label map.
THEOREM SatisfiableComplete ==
    ASSUME NEW a, NEW b, NEW fresh, WellFormed(a), WellFormed(b),
           \A r \in a.requirements \cup b.requirements : r.op # "Compare" /\ fresh \notin r.values,
           jointlySatisfiable(a, b)
    PROVE  \E l : SelectorMatches(a, l) /\ SelectorMatches(b, l)
<1>. DEFINE rs == a.requirements \cup b.requirements
<1>1. \A r \in rs : /\ r.op \in Operators \ {"Compare"}
                    /\ fresh \notin r.values
                    /\ ~contradiction(rs, r.key)
  BY DEF jointlySatisfiable, WellFormed
<1>2. \A r \in rs : RequirementMatches(r, Witness(rs, fresh))
  <2>. HIDE DEF rs
  <2>. QED
    BY <1>1, WitnessMeets
<1>3. SelectorMatches(a, Witness(rs, fresh)) /\ SelectorMatches(b, Witness(rs, fresh))
  BY <1>2 DEF SelectorMatches, jointlySatisfiable
<1>. QED
  BY <1>3

-----------------------------------------------------------------------------
\* What a refusal means

\* Of some dimensions one is the first.
LEMMA FirstDimension ==
    ASSUME NEW F \in SUBSET Dimensions, F # {}
    PROVE  \E d \in F : \A e \in F : dimensionRank(d) <= dimensionRank(e)
<1>1. /\ dimensionRank("sourceNamespace") = 1 /\ dimensionRank("sourceKind") = 2
      /\ dimensionRank("targetCluster") = 3 /\ dimensionRank("targetNamespace") = 4
  BY DEF dimensionRank
<1>2. \A d \in F : d \in {"sourceNamespace", "sourceKind", "targetCluster", "targetNamespace"}
  BY DEF Dimensions
<1>. QED
  BY <1>1, <1>2

\* A policy that fails on no dimension matches on all.
LEMMA AllDimensions ==
    ASSUME NEW src, NEW tgt, NEW p, matchPolicy(p, src, tgt) = ""
    PROVE  /\ matchSourceNamespace(p, src) /\ src.kind \in p.kinds
           /\ tgt.labels \in p.clusterSelector
           /\ tgt.namespace \in p.targetNamespaces
<1>. DEFINE failing == {d \in Dimensions : ~dimensionMatches(d, p, src, tgt)}
<1>1. ASSUME failing # {}
      PROVE  FALSE
  <2>1. \E d \in failing : \A e \in failing : dimensionRank(d) <= dimensionRank(e)
    BY <1>1, FirstDimension
  <2>2. matchPolicy(p, src, tgt) \in failing
    BY <1>1, <2>1 DEF matchPolicy
  <2>. QED
    BY <2>2 DEF Dimensions
<1>2. /\ dimensionMatches("sourceNamespace", p, src, tgt) /\ dimensionMatches("sourceKind", p, src, tgt)
      /\ dimensionMatches("targetCluster", p, src, tgt) /\ dimensionMatches("targetNamespace", p, src, tgt)
  BY <1>1 DEF Dimensions
<1>. QED
  BY <1>2 DEF dimensionMatches, matchClusterSelector

\* A policy that permits a target is a candidate of the webhook, which reads
\* the other dimensions as they are.
LEMMA CandidateIfMatched ==
    ASSUME NEW policies, NEW U, NEW src, NEW tgt, NEW p \in policies,
           matchPolicy(evaluated(p, U), src, tgt) = ""
    PROVE  /\ p \in candidates(policies, src)
           /\ SelectorMatches(p.clusterSelector, tgt.labels)
           /\ tgt.namespace \in p.targetNamespaces
<1>. DEFINE e == evaluated(p, U)
<1>1. /\ matchSourceNamespace(e, src) /\ src.kind \in e.kinds
      /\ tgt.labels \in e.clusterSelector
      /\ tgt.namespace \in e.targetNamespaces
  BY AllDimensions
<1>2. /\ e.namespaces = p.namespaces
      /\ e.namespaceSelector = IF p.namespaceSelector.nil THEN {} ELSE p.namespaceSelector.matches
      /\ e.kinds = p.kinds
      /\ e.clusterSelector = {l \in U : SelectorMatches(p.clusterSelector, l)}
      /\ e.targetNamespaces = p.targetNamespaces
  BY DEF evaluated
<1>. HIDE DEF e
<1>3. src.namespace \in p.namespaces \/ ~p.namespaceSelector.nil
  BY <1>1, <1>2 DEF matchSourceNamespace
<1>4. p \in candidates(policies, src)
  BY <1>1, <1>2, <1>3 DEF candidates, policiesForKind, policiesForSourceNamespace
<1>. QED
  BY <1>1, <1>2, <1>4

\* A requested namespace that the webhook finds denied is one that the
\* controllers deny on every cluster the request's selector matches.
LEMMA NamespaceDenied ==
    ASSUME NEW policies, NEW U, NEW src, NEW req, NEW tgt,
           WellFormedRequest(req), WellFormedPolicies(policies), Selects(req, tgt.labels),
           namespaceDenial(policies, src, req, tgt.namespace) # ""
    PROVE  ~decide(src, tgt, allEvaluated(policies, U)).allowed
<1>. SUFFICES ASSUME decide(src, tgt, allEvaluated(policies, U)).allowed
              PROVE  FALSE
  OBVIOUS
<1>1. PICK p \in candidates(policies, src) :
        SelectorMatches(p.clusterSelector, tgt.labels) /\ tgt.namespace \in p.targetNamespaces
  <2>1. PICK e \in allEvaluated(policies, U) : matchPolicy(e, src, tgt) = ""
    BY DEF decide, matchedPolicies
  <2>2. PICK p \in policies : e = evaluated(p, U)
    BY DEF allEvaluated
  <2>. QED
    BY <2>1, <2>2, CandidateIfMatched
<1>2. WellFormed(p.clusterSelector)
  BY DEF candidates, policiesForKind, policiesForSourceNamespace, WellFormedPolicies
<1>3. req.selects => jointlySatisfiable(req.clusterSelector, p.clusterSelector)
  BY <1>1, <1>2, SatisfiableSound DEF WellFormedRequest, Selects
<1>. QED
  BY <1>1, <1>3 DEF namespaceDenial, WellFormedRequest

\* When the webhook refuses a write on the grounds of policy, one of the
\* requested namespaces is one that the controllers deny on every cluster that
\* the request's selector matches, whatever clusters are discovered.
THEOREM DenialFinal ==
    ASSUME NEW policies, NEW U, NEW src, NEW req,
           WellFormedRequest(req), WellFormedPolicies(policies),
           1 \in DOMAIN req.targetNamespaces,
           checkPolicies(policies, src, req) # ""
    PROVE  \E i \in DOMAIN req.targetNamespaces :
              \A tgt : tgt.namespace = req.targetNamespaces[i] /\ Selects(req, tgt.labels)
                       => ~decide(src, tgt, allEvaluated(policies, U)).allowed
<1>1. CASE \E i \in DOMAIN req.targetNamespaces :
              namespaceDenial(policies, src, req, req.targetNamespaces[i]) # ""
  <2>1. PICK i \in DOMAIN req.targetNamespaces :
          namespaceDenial(policies, src, req, req.targetNamespaces[i]) # ""
    BY <1>1
  <2>2. ASSUME NEW tgt, tgt.namespace = req.targetNamespaces[i], Selects(req, tgt.labels)
        PROVE  ~decide(src, tgt, allEvaluated(policies, U)).allowed
    <3>1. namespaceDenial(policies, src, req, tgt.namespace) # ""
      BY <2>1, <2>2
    <3>. QED
      BY <2>2, <3>1, NamespaceDenied
  <2>. QED
    BY <2>2
<1>2. CASE ~\E i \in DOMAIN req.targetNamespaces :
              namespaceDenial(policies, src, req, req.targetNamespaces[i]) # ""
  <2>1. candidates(policies, src) = {}
    BY <1>2 DEF checkPolicies, candidates, policiesForKind, policiesForSourceNamespace
  <2>2. namespaceDenial(policies, src, req, req.targetNamespaces[1]) = "targetNamespace"
    BY <2>1 DEF namespaceDenial
  <2>. QED
    BY <1>2, <2>2
<1>. QED
  BY <1>1, <1>2

\* When the webhook warns that no policy grants the requested way with
\* conflicts, the options of no target grant it: the names of policies, which
\* are objects of one cluster, tell them apart.
THEOREM WarningTrue ==
    ASSUME NEW policies, NEW U, NEW src, NEW tgt, NEW requested,
           \A p, q \in policies : p.name = q.name => p = q,
           conflictPolicyWarning(policies, src, requested)
    PROVE  LET E == allEvaluated(policies, U)
           IN  requested \notin
                 ResolveOptions(policiesByName(E, decide(src, tgt, E).matched)).allowedConflictPolicies
<1>. DEFINE E == allEvaluated(policies, U)
            M == policiesByName(E, decide(src, tgt, E).matched)
<1>1. ASSUME NEW e \in M
      PROVE  requested \notin e.allowedConflictPolicies
  <2>1. e \in E /\ \E f \in E : matchPolicy(f, src, tgt) = "" /\ f.name = e.name
    BY <1>1 DEF policiesByName, decide, matchedPolicies
  <2>2. PICK f \in E : matchPolicy(f, src, tgt) = "" /\ f.name = e.name
    BY <2>1
  <2>3. PICK p \in policies : e = evaluated(p, U)
    BY <2>1 DEF allEvaluated
  <2>4. PICK q \in policies : f = evaluated(q, U)
    BY <2>2 DEF allEvaluated
  <2>5. e.name = p.name /\ f.name = q.name /\ e.allowedConflictPolicies = p.allowedConflictPolicies
    BY <2>3, <2>4 DEF evaluated
  <2>6. p = q
    BY <2>2, <2>5
  <2>7. p \in candidates(policies, src)
    BY <2>2, <2>4, <2>6, CandidateIfMatched
  <2>. QED
    BY <2>5, <2>7 DEF conflictPolicyWarning
<1>2. requested # "Fail"
  BY DEF conflictPolicyWarning
<1>. HIDE DEF M
<1>3. requested \notin ResolveOptions(M).allowedConflictPolicies
  BY <1>1, <1>2 DEF ResolveOptions
<1>. QED
  BY <1>3 DEF M

=============================================================================
