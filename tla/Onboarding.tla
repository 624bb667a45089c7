----------------------------- MODULE Onboarding -----------------------------
(***************************************************************************)
(* From a Cluster object on the hub to requests that the spoke answers:    *)
(* the discovery provider composed with the bootstrap and the token        *)
(* rotation of the spoke, as cmd/main.go composes them (spokeWirer.Handle: *)
(* a ready record ensures the spoke, any other drops it).  Both live in    *)
(* one process: when the provider's Start fails, it ends and starts again. *)
(* The races of ensure and drop inside the cluster manager are those of    *)
(* ClusterManager; here a drop takes effect at once.                       *)
(***************************************************************************)
EXTENDS Credentials, Sequences

CONSTANTS
    Objects,       \* the Cluster objects: namespaces that have one of the name
    Conditions,    \* the sets of status conditions that occur
    Labelings,     \* the label maps that occur
    Serving        \* the sets of versions the hub serves the resource at

\* Label maps are finite.
ASSUME LabelingsAssumption ==
    \A l \in Labelings : IsFiniteSet(DOMAIN l) /\ l \in [DOMAIN l -> STRING]

VARIABLES hub, serving, objs, ppc, gvr, store, records, events, handled

discoveryVars == <<hub, serving, objs, ppc, gvr, store, records, events, handled>>
allVars == <<vars, discoveryVars>>

Discovery == INSTANCE Discovery

AllInit == Init /\ Discovery!Init

\* The handler is called with the record of the event.
Handle ==
    /\ Discovery!Handle
    /\ IF handled' THEN Ensure ELSE Drop

Discover ==
    /\ Discovery!Provider \/ \E o \in Objects : Discovery!Deliver(o)
    /\ UNCHANGED vars

\* When Start fails, the process ends; it may also crash.
RestartAll == Restart /\ Discovery!Restart /\ UNCHANGED <<hub, serving, objs>>

ProcessFails == ppc = "failed" /\ RestartAll /\ UNCHANGED budget

ProcessCrashes == Disturb("restart") /\ RestartAll

Hub ==
    /\ \/ Disturb("object") /\ Discovery!ChangeObject
       \/ Disturb("serving") /\ Discovery!ChangeServing
       \/ Discovery!HubUp /\ UNCHANGED budget
    /\ UNCHANGED <<spokeUp, skew, admin, objects, role, scope, bpc, found, loaded, token, mint, last,
                   probed, outage, tampered>>

Spoke == (Tick \/ LinkDown \/ LinkUp \/ RenewAdmin \/ Tamper) /\ UNCHANGED discoveryVars

Work == Operator /\ UNCHANGED discoveryVars

AllNext ==
    \/ Handle \/ Discover \/ Work \/ Spoke
    \/ ProcessFails \/ ProcessCrashes \/ Hub

AllSpec == AllInit /\ [][AllNext]_allVars

\* The process runs, is started again, its calls return, requests are made, the
\* informer delivers what the hub answers, and time passes.
AllFairness ==
    /\ WF_allVars(Handle) /\ WF_allVars(Work) /\ WF_allVars(ProcessFails)
    /\ WF_allVars(Discovery!Provider /\ UNCHANGED vars)
    /\ \A o \in Objects : WF_allVars(Discovery!Deliver(o) /\ UNCHANGED vars)
    /\ WF_allVars(Tick /\ UNCHANGED discoveryVars)

AllFairSpec == AllSpec /\ AllFairness

-----------------------------------------------------------------------------
\* Properties

AllTypeOK == TypeOK /\ Discovery!TypeOK

\* The operator holds a credential of a spoke, or is getting one, only while the
\* informer knows a ready Cluster object of its name, or an event is under way.
UsedWhileReady ==
    bpc # "off" /\ events = <<>> =>
        \E o \in Objects : store[o] # Discovery!absent /\ Discovery!controlPlaneReady(store[o].conds)

Quiet == Discovery!Watching /\ Discovery!Listing

\* Once the fleet is quiet, a provider that watches lists every Cluster object
\* with its readiness and labels, and no other, unless the hub stopped serving
\* the version it negotiated.
InventoryAgrees == <>[](Quiet => \A o \in Objects : Discovery!Agrees(o))

\* Cluster labels for selection are the Cluster object's labels.
LabelsAgree == <>[](Quiet => \A o \in Objects : Discovery!LabelsAgree(o))

\* A hub that serves a supported version is watched in the end, also when it
\* was away, served something else or nothing before; and a cluster whose
\* control plane is ready ends up bootstrapped, also when attempts stopped half
\* way and objects were there already or had gone.
OnboardingCompletes ==
    <>[](/\ Discovery!Usable => Discovery!Watching
         /\ Quiet /\ spokeUp /\ (\E o \in Objects : Discovery!ReadyOnHub(o)) => bpc = "served")

\* A cluster that left or is not ready ends up without a credential in use.
OffboardingCompletes ==
    <>[](Quiet /\ (\A o \in Objects : ~Discovery!ReadyOnHub(o)) => bpc = "off")

=============================================================================
