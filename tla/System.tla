------------------------------- MODULE System -------------------------------
(***************************************************************************)
(* The engine composed with the request controller: what a user who        *)
(* annotates a source gets on the spokes.  Module Engine supplies the      *)
(* engine, the spokes and the fleet; the request controller, whose steps   *)
(* are in module Request, is reduced to its effect on the Replication:     *)
(* targets are re-resolved whenever policies or the inventory change, and  *)
(* the Replication follows the request.                                    *)
(***************************************************************************)
EXTENDS Engine

CONSTANT Wanted      \* the slots the annotations ask for, before policy

ASSUME WantedAssumption == Wanted \subseteq Slots

VARIABLE requesting  \* the source is annotated for replication

sysVars == <<vars, requesting>>

SysInit == Init /\ requesting = TRUE

-----------------------------------------------------------------------------
\* The request controller

\* resolveTargets: listed clusters only, denied targets left out.
Resolved == {s \in Wanted : s.cluster \in known /\ Permitted(s)}

requestUnchanged == <<inputVars, spokeVars, procVars, released, budget, requesting>>

\* Mutant: an existing Replication is not brought up to date.
MaterializeOnce ==
    /\ requesting /\ source.present
    /\ ~rep.exists /\ OthersStore(Created(Resolved, TRUE))
    /\ UNCHANGED requestUnchanged

\* materialize: create the Replication, or update a spec that differs.
Materialize ==
    /\ requesting /\ source.present
    /\ \/ ~rep.exists /\ OthersStore(Created(Resolved, TRUE))
       \/ /\ rep.exists /\ rep.targets # Resolved
          /\ OthersStore([rep EXCEPT !.targets = Resolved])
    /\ UNCHANGED requestUnchanged

\* Mutant: the Replication goes without waiting for the engine's finalizer.
ReleaseForced ==
    /\ ~requesting
    /\ rep.exists /\ ~rep.deleting
    /\ OthersStore(Gone)
    /\ UNCHANGED requestUnchanged

\* release: delete the Replication, which the engine's finalizer holds.
ReleaseRequest ==
    /\ ~requesting
    /\ rep.exists /\ ~rep.deleting
    /\ OthersStore(IF rep.finalizer THEN [rep EXCEPT !.deleting = TRUE] ELSE Gone)
    /\ UNCHANGED requestUnchanged

-----------------------------------------------------------------------------
\* The user annotates the source or removes the annotations.
ToggleRequest ==
    /\ Disturb("request")
    /\ requesting' = ~requesting
    /\ UNCHANGED <<hubUnchanged, spokeVars>>

EngineSteps == Reconcile /\ UNCHANGED requesting

Surroundings ==
    /\ \/ EditSource \/ EditPolicies \/ CacheSync
       \/ ChangeFleet \/ ProviderSync \/ Attach \/ ChangeLink
       \/ ChangeNamespace \/ SpokeReplace \/ SpokeEdit
       \/ Crash
    /\ UNCHANGED requesting

SysNext ==
    \/ EngineSteps \/ Materialize \/ ReleaseRequest \/ ToggleRequest \/ Surroundings
    \/ Idle /\ UNCHANGED requesting

\* The fairness of Engine, and every trigger of the request controller is served.
SysFairness ==
    /\ WF_sysVars(EngineSteps)
    /\ WF_sysVars(CacheSync /\ UNCHANGED requesting)
    /\ WF_sysVars(ProviderSync /\ UNCHANGED requesting)
    /\ WF_sysVars(Attach /\ UNCHANGED requesting)
    /\ WF_sysVars(Materialize)
    /\ WF_sysVars(ReleaseRequest)

SysSpec == SysInit /\ [][SysNext]_sysVars /\ SysFairness

-----------------------------------------------------------------------------
\* Properties

\* Once disturbances cease, an annotated source is in place on every cluster that
\* it selects, that policy permits and that answers.
RequestServed ==
    requesting /\ source.present =>
        \A s \in Wanted : Permitted(s) /\ Serving(s) /\ ~Blocked(s) => InSync(s)

EndToEndDelivery == <>[]RequestServed

\* Once disturbances cease, no cluster that answers holds a replica that the
\* user does not request or policy does not permit (policies say Delete).
NothingUnwanted ==
    \A s \in Slots :
        Serving(s) /\ (~requesting \/ s \notin Wanted \/ ~Permitted(s))
            => obj[s].uid # "self" \/ s \in released

EndToEndCleanup == <>[]NothingUnwanted

\* A replica that the user still requests is not deleted while the policies that
\* permitted it say Retain (checked with such policies only).
RetainHolds ==
    pc = "delete" /\ requesting /\ ~my.deleting => cur \notin Wanted

\* A replica is not deleted while the user requests it, policy permits it and its
\* cluster is part of the fleet.
NoNeedlessDelete ==
    pc = "delete" /\ requesting /\ ~my.deleting
        => cur \notin Wanted \/ ~Permitted(cur) \/ cur.cluster \notin fleet

=============================================================================
