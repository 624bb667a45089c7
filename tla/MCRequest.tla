----------------------------- MODULE MCRequest -----------------------------
(***************************************************************************)
(* Small instances of Request for TLC: clusters c1 (prod) and c2 (dev);    *)
(* and the webhook's operators on small inputs.                            *)
(***************************************************************************)
EXTENDS Request, Admission

Ann(state, selector, namespaces) ==
    [state |-> state, selector |-> selector, namespaces |-> namespaces]

AnnNone    == Ann("none", {}, {})
AnnStaged  == Ann("staged", {"prod"}, {})
AnnInvalid == Ann("invalid", {}, {})
AnnProd    == Ann("valid", {"prod"}, {})
AnnAll     == Ann("valid", {"prod", "dev"}, {"n"})
AnnNothing == Ann("valid", {}, {})

OnOffRequests == {AnnNone, AnnProd}
AllRequests   == {AnnNone, AnnStaged, AnnInvalid, AnnAll, AnnNothing}

MCSrc == [kind |-> "Secret", namespace |-> "team", labels |-> "gold"]

MCClusterLabels == [c \in {"c1", "c2"} |-> IF c = "c1" THEN "prod" ELSE "dev"]

Permits(selector) ==
    {[name |-> "p", namespaces |-> {"team"}, namespaceSelector |-> {}, kinds |-> {"Secret"},
      clusterSelector |-> selector, targetNamespaces |-> {"n", "team"},
      allowNamespaceCreation |-> FALSE, allowedConflictPolicies |-> {},
      revocationPolicy |-> "Delete"]}

Always   == {Permits({"prod", "dev"})}
Narrowed == {{}, Permits({"dev"}), Permits({"prod", "dev"})}

-----------------------------------------------------------------------------
\* Admission: one label key, two values that selectors mention and one more.

LabelMaps == {<<>>} \cup [{"env"} -> {"prod", "dev", "other"}]

OnEnv(op, values) == [key |-> "env", op |-> op, values |-> values]

SomeRequirements ==
    {OnEnv(op, values) : op \in {"In", "NotIn"}, values \in SUBSET {"prod", "dev"} \ {{}}}
        \cup {OnEnv("Exists", {}), OnEnv("DoesNotExist", {})}

Selector(rs) == [selectable |-> TRUE, requirements |-> rs]

SomeSelectors == {Selector({q, r}) : q, r \in SomeRequirements} \cup {Selector({})}

\* jointlySatisfiable is exact when selectors only compare for equality.
ASSUME SatisfiableExact ==
    \A a, b \in SomeSelectors :
        jointlySatisfiable(a, b) <=>
            \E l \in LabelMaps : SelectorMatches(a, l) /\ SelectorMatches(b, l)

SomePolicies ==
    {[name |-> "p", namespaces |-> ns, namespaceSelector |-> [nil |-> nil, matches |-> {"gold"}],
      kinds |-> kinds, clusterSelector |-> Selector({r}), targetNamespaces |-> tns,
      allowNamespaceCreation |-> FALSE, allowedConflictPolicies |-> {}, revocationPolicy |-> "Delete"] :
        ns \in {{}, {"team"}}, nil \in BOOLEAN, kinds \in {{}, {"Secret"}},
        r \in {OnEnv("In", {"prod"}), OnEnv("NotIn", {"prod"})}, tns \in {{"n"}, {"m", "n"}}}

SomeWrites ==
    {[targetNamespaces |-> tns, selects |-> s, clusterSelector |-> Selector({r})] :
        tns \in {<<"n">>, <<"n", "m">>}, s \in BOOLEAN,
        r \in {OnEnv("In", {"prod"}), OnEnv("DoesNotExist", {})}}

\* A write is refused exactly when some requested namespace is one that no
\* cluster the selector matches, whatever its labels, is permitted to receive.
ASSUME AdviceExact ==
    \A ps \in {{p, q} : p, q \in SomePolicies} \cup {{}}, w \in SomeWrites :
        checkPolicies(ps, MCSrc, w) # "" <=>
            \E i \in DOMAIN w.targetNamespaces :
                \A l \in {m \in LabelMaps : w.selects => SelectorMatches(w.clusterSelector, m)} :
                    ~decide(MCSrc, [cluster |-> "c", labels |-> l, namespace |-> w.targetNamespaces[i]],
                            allEvaluated(ps, LabelMaps)).allowed

=============================================================================
