------------------------------- MODULE Policy -------------------------------
(***************************************************************************)
(* The pure evaluation core of ReplicationPolicy objects                   *)
(* (internal/policy): default deny, allowlists only, union across policies *)
(* but never across the dimensions of different policies.                  *)
(*                                                                         *)
(* A policy is a record                                                    *)
(*   [name, namespaces, namespaceSelector, kinds, clusterSelector,         *)
(*    targetNamespaces, allowNamespaceCreation, allowedConflictPolicies,   *)
(*    revocationPolicy].                                                   *)
(* A label selector is the set of label values it matches: {} stands for a *)
(* nil namespaceSelector and for an invalid selector, which both match     *)
(* nothing, and a set holding every value, the value of an unlabelled      *)
(* object included, for the empty selector.                                *)
(*                                                                         *)
(* A source is [kind, namespace, labels], a target                         *)
(* [cluster, labels, namespace].                                           *)
(***************************************************************************)
EXTENDS Naturals, FiniteSets

ConflictPolicies == {"Fail", "Adopt", "Overwrite"}

RevocationPolicies == {"Delete", "Retain"}

\* The dimensions of a policy in evaluation order; a denial names the furthest
\* one any single policy reached.
Dimensions == {"sourceNamespace", "sourceKind", "targetCluster", "targetNamespace"}

dimensionRank(d) ==
    CASE d = "noPolicies"      -> 0
      [] d = "sourceNamespace" -> 1
      [] d = "sourceKind"      -> 2
      [] d = "targetCluster"   -> 3
      [] d = "targetNamespace" -> 4

\* The exact list and the selector are alternatives: either match suffices.
matchSourceNamespace(p, src) ==
    \/ src.namespace \in p.namespaces
    \/ src.labels \in p.namespaceSelector

matchClusterSelector(p, tgt) ==
    tgt.labels \in p.clusterSelector

dimensionMatches(d, p, src, tgt) ==
    CASE d = "sourceNamespace" -> matchSourceNamespace(p, src)
      [] d = "sourceKind"      -> src.kind \in p.kinds
      [] d = "targetCluster"   -> matchClusterSelector(p, tgt)
      [] d = "targetNamespace" -> tgt.namespace \in p.targetNamespaces

\* The first dimension on which p fails, "" when p permits the pair.
matchPolicy(p, src, tgt) ==
    LET failing == {d \in Dimensions : ~dimensionMatches(d, p, src, tgt)}
    IN  IF failing = {} THEN ""
        ELSE CHOOSE d \in failing :
                \A e \in failing : dimensionRank(d) <= dimensionRank(e)

\* The names of the policies that fully permit the target.
matchedPolicies(src, tgt, policies) ==
    {p.name : p \in {q \in policies : matchPolicy(q, src, tgt) = ""}}

\* The verdict on one target: the permitting policies, or the dimension of the
\* policy that got furthest.
decide(src, tgt, policies) ==
    LET matched == matchedPolicies(src, tgt, policies)
        failed  == {matchPolicy(p, src, tgt) : p \in policies}
    IN  [allowed |-> matched # {},
         matched |-> matched,
         denied  |->
            CASE policies = {} -> "noPolicies"
              [] matched # {}  -> ""
              [] OTHER -> CHOOSE d \in failed :
                             \A e \in failed : dimensionRank(d) >= dimensionRank(e)]

-----------------------------------------------------------------------------
\* Options (options.go)

policiesByName(policies, names) == {p \in policies : p.name \in names}

\* Capabilities combine by union, Fail is always granted, and Retain beats
\* Delete.
ResolveOptions(matched) ==
    [allowNamespaceCreation  |-> \E p \in matched : p.allowNamespaceCreation,
     allowedConflictPolicies |->
        {"Fail"} \cup UNION {p.allowedConflictPolicies : p \in matched},
     revocationPolicy        |->
        IF \E p \in matched : p.revocationPolicy = "Retain" THEN "Retain" ELSE "Delete"]

\* Evaluations prev and cur map a target key to the names of the policies that
\* permit it ({} when denied).  A key is revoked when prev allowed it and cur
\* denies it or no longer holds it.
DetectRevocations(prev, cur) ==
    {k \in DOMAIN prev : prev[k] # {} /\ (k \in DOMAIN cur => cur[k] = {})}

=============================================================================
