------------------------------ MODULE MCDrift ------------------------------
\* Instances of Drift for TLC.
EXTENDS Drift

AllThreads == {"life", "handler", "start", "worker"}

\* Every Replication is of the same kind.
OneKind == [r \in Reps |-> "Secret"]

=============================================================================
