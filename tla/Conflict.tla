------------------------------ MODULE Conflict ------------------------------
(***************************************************************************)
(* What the engine concludes from a live read of a replica's name on a     *)
(* spoke (internal/engine/conflict.go, drift.go, render.go).               *)
(*                                                                         *)
(* An object is NoObj or a record                                          *)
(*   [managed, uid, content, extra, ann]:                                  *)
(* managed says that app.kubernetes.io/managed-by is k8s-r8r, uid is the   *)
(* r8r.io/source-uid label, content stands for the payload and the user    *)
(* metadata the content hash covers ("none" for an empty payload), ann for *)
(* the r8r.io/source-hash annotation.  extra says that the payload also holds keys that another   *)
(* field manager owns and the source lacks; they are part of the hash.     *)
(***************************************************************************)
EXTENDS Naturals

NoObj == [managed |-> FALSE, uid |-> "absent", content |-> "none",
          extra |-> FALSE, ann |-> "none"]

\* The UID of the source is written "self"; "other" is the UID of any other
\* source and "none" a missing label.
UIDs == {"self", "other", "none"}

Objects(Contents) ==
    {NoObj} \cup [managed : BOOLEAN, uid : UIDs, content : Contents \cup {"none"},
                  extra : BOOLEAN, ann : Contents \cup {"none"}]

ClassifyReplicaOwnership(o) ==
    CASE o.uid # "self"             -> "Foreign"
      [] o.uid = "self" /\ o.managed  -> "Managed"
      [] o.uid = "self" /\ ~o.managed -> "Stripped"

IsManagedReplica(o) == o.managed /\ o.uid = "self"

\* SourceHash(o) equals the hash of a source whose content is c.
HashEquals(o, c) == o.content = c /\ ~o.extra

conflictPolicyStrength(p) ==
    CASE p = "Overwrite" -> 2
      [] p = "Adopt"     -> 1
      [] OTHER           -> 0

\* The strongest policy granted.
Grant(allowed) ==
    CHOOSE p \in allowed :
        \A q \in allowed : conflictPolicyStrength(p) >= conflictPolicyStrength(q)

\* Mutant: the administrator's grant alone decides.
GrantAlone(requested, allowed) == Grant(allowed)

\* Both keys must turn: the weaker of the request's annotation and the grant.
EffectiveConflictPolicy(requested, allowed) ==
    IF conflictPolicyStrength(requested) < conflictPolicyStrength(Grant(allowed))
    THEN requested ELSE Grant(allowed)

\* c is the source's content, requested its r8r.io/conflict-policy.
DecideConflict(o, c, requested, allowed) ==
    CASE IsManagedReplica(o) -> "Apply"
      [] ~IsManagedReplica(o) /\ o.managed -> "Fail"
      [] OTHER ->
            LET eff == EffectiveConflictPolicy(requested, allowed)
            IN  CASE eff = "Overwrite" -> "Overwrite"
                  [] eff = "Adopt" /\ HashEquals(o, c) -> "Adopt"
                  [] OTHER -> "Fail"

-----------------------------------------------------------------------------
\* Writes.  Server-side apply with forced ownership sets the fields of the
\* applied object and leaves the keys that only other managers own.

\* The replica that Render produces for content c, applied over o.
Rendered(o, c) ==
    [managed |-> TRUE, uid |-> "self", content |-> c, extra |-> o.extra, ann |-> c]

\* The metadata-only patch of Adopt, applied over o (creating an empty object
\* with the marks when o vanished meanwhile).
AdoptPatch(o, c) ==
    [managed |-> TRUE, uid |-> "self", content |-> o.content, extra |-> o.extra, ann |-> c]

=============================================================================
