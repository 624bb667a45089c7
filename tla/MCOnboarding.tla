---------------------------- MODULE MCOnboarding ----------------------------
\* Instances of Onboarding for TLC.
EXTENDS Onboarding

\* A token lives for six ticks; the spoke's clock is behind or ahead.
SmallSkews == {-2, 1}

cond(t, s) == [type |-> t, status |-> s]

\* Ready by the second of two conditions, and unready beside a condition of
\* another type.
SomeConditions ==
    {{cond("ControlPlaneReady", "False"), cond("ControlPlaneAvailable", "True")},
     {cond("ControlPlaneReady", "False"), cond("InfrastructureReady", "True")}}

SomeLabelings == {[k \in {"env"} |-> "prod"], [k \in {"tier"} |-> ""]}

\* Supported versions, none at all, and one that is too old.
SomeServing == {{"v1beta1", "v1beta2"}, {"v1beta1"}, {}, {"v1alpha4"}}
ServedOnly == {{"v1beta1"}}

=============================================================================
