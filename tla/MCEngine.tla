------------------------------ MODULE MCEngine ------------------------------
(***************************************************************************)
(* Small instances of Engine for TLC.                                      *)
(***************************************************************************)
EXTENDS Engine

\* Slots: two clusters, and two names in one namespace (a renamed replica).
SlotA == [cluster |-> "c1", namespace |-> "n", name |-> "x"]
SlotB == [cluster |-> "c2", namespace |-> "n", name |-> "x"]
SlotR == [cluster |-> "c1", namespace |-> "n", name |-> "y"]

OneSlot    == {SlotA}
TwoSlots   == {SlotA, SlotB}
ThreeSlots == {SlotA, SlotB, SlotR}

NoTargets     == {{}}
SomeTarget    == {{}, {SlotA}}
ThreeTargets  == {{SlotA, SlotB}, {SlotR, SlotB}}

AllNamespaces == Keys

MCSrc == [kind |-> "Secret", namespace |-> "team", labels |-> "gold"]

MCClusterLabels == [c \in {"c1", "c2"} |-> IF c = "c1" THEN "prod" ELSE "dev"]

AnyLabels == {"prod", "dev", "unlabelled"}

Policies(ns, selector, create, conflict, revocation) ==
    {[name |-> "p", namespaces |-> ns, namespaceSelector |-> {}, kinds |-> {"Secret"},
      clusterSelector |-> selector, targetNamespaces |-> {"n"},
      allowNamespaceCreation |-> create, allowedConflictPolicies |-> conflict,
      revocationPolicy |-> revocation]}

Permit    == Policies({"team"}, AnyLabels, FALSE, {}, "Delete")
PermitMax == Policies({"team"}, AnyLabels, TRUE, {"Adopt", "Overwrite"}, "Delete")

Always   == {Permit}
OnOff    == {{}, Permit, PermitMax}

\* Retain policies whose cluster selector is narrowed or widened.
RetainAll == Policies({"team"}, AnyLabels, FALSE, {}, "Retain")
RetainDev == Policies({"team"}, {"dev"}, FALSE, {}, "Retain")

RetainTargetEdits == {RetainAll, RetainDev}

\* Objects of others: a plain object and the replica of another Replication.
Plain(c)   == [managed |-> FALSE, uid |-> "none", content |-> c, extra |-> FALSE, ann |-> "none"]
OfOther(c) == [managed |-> TRUE, uid |-> "other", content |-> c, extra |-> FALSE, ann |-> c]

Others   == {Plain("v1"), OfOther("v1")}
NoOthers == {}

=============================================================================
