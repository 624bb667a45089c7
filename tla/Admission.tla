----------------------------- MODULE Admission -----------------------------
(***************************************************************************)
(* The advisory webhook (internal/webhook): what it answers to a write of  *)
(* an annotated object, from the policies alone and without the inventory. *)
(* It is stateless, so these are operators; AdmissionProofs relates them   *)
(* to the evaluation in Policy, which decides when targets are resolved.   *)
(*                                                                         *)
(* Here a selector is what Kubernetes parses it to: a set of requirements  *)
(*   [key, op, values]                                                     *)
(* on a label map, a function from keys to values; Gt and Lt are "Compare" *)
(* with the values that pass.  A selector that is not selectable matches   *)
(* nothing.  A policy is as in Policy, but its clusterSelector is such a   *)
(* selector and its namespaceSelector is [nil, matches].                   *)
(***************************************************************************)
EXTENDS Policy, Sequences

Operators == {"In", "NotIn", "Exists", "DoesNotExist", "Compare"}

\* labels.Requirement.Matches and labels.Selector.Matches
RequirementMatches(r, lbls) ==
    CASE r.op \in {"In", "Compare"} -> r.key \in DOMAIN lbls /\ lbls[r.key] \in r.values
      [] r.op = "NotIn"             -> r.key \in DOMAIN lbls => lbls[r.key] \notin r.values
      [] r.op = "Exists"            -> r.key \in DOMAIN lbls
      [] r.op = "DoesNotExist"      -> r.key \notin DOMAIN lbls

SelectorMatches(sel, lbls) ==
    sel.selectable /\ \A r \in sel.requirements : RequirementMatches(r, lbls)

-----------------------------------------------------------------------------
\* jointlySatisfiable (check.go): what the requirements rs say of a key

on(rs, key, ops) == {r \in rs : r.key = key /\ r.op \in ops}

mustExist(rs, key) == on(rs, key, {"In", "Exists", "Compare"}) # {}

mustNotExist(rs, key) == on(rs, key, {"DoesNotExist"}) # {}

\* v is in the intersection of the allowed values, not among the forbidden.
remaining(rs, key, v) ==
    /\ \A r \in on(rs, key, {"In"}) : v \in r.values
    /\ \A r \in on(rs, key, {"NotIn"}) : v \notin r.values

contradiction(rs, key) ==
    \/ mustNotExist(rs, key) /\ mustExist(rs, key)
    \/ \E r \in on(rs, key, {"In"}) : \A v \in r.values : ~remaining(rs, key, v)

jointlySatisfiable(a, b) ==
    LET rs == a.requirements \cup b.requirements
    IN  /\ a.selectable /\ b.selectable
        /\ \A r \in rs : ~contradiction(rs, r.key)

-----------------------------------------------------------------------------
\* checkPolicies.  A request is [targetNamespaces, selects, clusterSelector]
\* with a non-empty sequence of namespaces; selects is FALSE when the annotation
\* with the selector is absent or empty.

\* A namespaceSelector counts as a match: labels are not at hand.
policiesForSourceNamespace(policies, ns) ==
    {p \in policies : ns \in p.namespaces \/ ~p.namespaceSelector.nil}

policiesForKind(policies, kind) == {p \in policies : kind \in p.kinds}

candidates(policies, src) ==
    policiesForKind(policiesForSourceNamespace(policies, src.namespace), src.kind)

\* The dimension on which one requested namespace is denied, or "".
namespaceDenial(policies, src, req, tns) ==
    LET tnsMatched == {p \in candidates(policies, src) : tns \in p.targetNamespaces}
    IN  CASE tnsMatched = {} -> "targetNamespace"
          [] /\ tnsMatched # {} /\ req.selects
             /\ \A p \in tnsMatched : ~jointlySatisfiable(req.clusterSelector, p.clusterSelector)
             -> "targetCluster"
          [] OTHER -> ""

\* The first dimension on which no policy can allow the request, or "".
checkPolicies(policies, src, req) ==
    LET denied == {i \in DOMAIN req.targetNamespaces :
                     namespaceDenial(policies, src, req, req.targetNamespaces[i]) # ""}
        first  == CHOOSE i \in denied : \A j \in denied : i <= j
    IN  CASE policies = {} -> "noPolicies"
          [] policies # {} /\ policiesForSourceNamespace(policies, src.namespace) = {} ->
                "sourceNamespace"
          [] /\ policiesForSourceNamespace(policies, src.namespace) # {}
             /\ candidates(policies, src) = {} -> "sourceKind"
          [] candidates(policies, src) # {} /\ denied # {} ->
                namespaceDenial(policies, src, req, req.targetNamespaces[first])
          [] OTHER -> ""

\* The request asks for more in a conflict than any candidate grants.
conflictPolicyWarning(policies, src, requested) ==
    /\ requested \notin {"", "Fail"}
    /\ \A p \in candidates(policies, src) : requested \notin p.allowedConflictPolicies

\* Handle.  ann is the state of the annotations: "undecodable" metadata, "none",
\* "invalid" when one is malformed, "staged" without the opt-in, or "valid";
\* listed says whether the policies could be read.
Handle(operation, ann, listed, policies, src, req) ==
    LET pass == [allowed |-> TRUE, dimension |-> ""]
    IN  CASE operation \notin {"CREATE", "UPDATE"} \/ ann \in {"undecodable", "none"} -> pass
          [] operation \in {"CREATE", "UPDATE"} /\ ann = "invalid" ->
                [allowed |-> FALSE, dimension |-> "annotations"]
          [] operation \in {"CREATE", "UPDATE"} /\ ann = "valid" /\ listed ->
                LET d == checkPolicies(policies, src, req)
                IN  [allowed |-> d = "", dimension |-> d]
          [] OTHER -> pass

-----------------------------------------------------------------------------
\* The same policy as the controllers evaluate it, where lbls are the label
\* maps a cluster may have.
evaluated(p, lbls) ==
    [name                    |-> p.name,
     namespaces              |-> p.namespaces,
     namespaceSelector       |-> IF p.namespaceSelector.nil THEN {} ELSE p.namespaceSelector.matches,
     kinds                   |-> p.kinds,
     clusterSelector         |-> {l \in lbls : SelectorMatches(p.clusterSelector, l)},
     targetNamespaces        |-> p.targetNamespaces,
     allowNamespaceCreation  |-> p.allowNamespaceCreation,
     allowedConflictPolicies |-> p.allowedConflictPolicies,
     revocationPolicy        |-> p.revocationPolicy]

allEvaluated(policies, lbls) == {evaluated(p, lbls) : p \in policies}

=============================================================================
