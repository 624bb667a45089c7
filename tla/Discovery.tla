----------------------------- MODULE Discovery -----------------------------
(***************************************************************************)
(* The Cluster API provider of internal/discovery/capi/provider.go for the *)
(* Cluster objects of ONE cluster name (in several namespaces, when there  *)
(* are several): version negotiation, the informer, and the records and    *)
(* events made from its notifications.                                     *)
(*                                                                         *)
(* The informer (external) keeps a copy of the objects, and calls upsert   *)
(* and remove for what changed; it may skip intermediate values (a resync  *)
(* calls upsert with an equal record, to no effect).  Handlers are called  *)
(* from the informer's goroutine: the next call waits until the last event *)
(* has been handled.  An error of Start ends the process, which comes back *)
(* with nothing.                                                           *)
(***************************************************************************)
EXTENDS Naturals, Sequences, FiniteSets

CONSTANTS
    Objects,       \* the Cluster objects: namespaces that have one of the name
    Conditions,    \* the sets of status conditions that occur
    Labelings,     \* the label maps that occur
    Serving        \* the sets of versions the hub serves the resource at

VARIABLES
    hub,        \* the hub answers
    serving,    \* versions of cluster.x-k8s.io that serve clusters
    objs,       \* the Cluster objects on the hub
    ppc,        \* the provider's Start
    gvr,        \* the negotiated version
    store,      \* the informer's copy of the objects
    records,    \* the provider's records
    events,     \* the event its handlers are working on: TRUE ready, FALSE gone
    handled     \* history: the last event they have handled

providerVars == <<ppc, gvr, store, records, events, handled>>
fleetVars == <<hub, serving, objs>>

-----------------------------------------------------------------------------
\* Objects and records

absent == [missing |-> TRUE]

Clusters == [conds : Conditions, labels : Labelings]

supportedClusterVersions == <<"v1", "v1beta2", "v1beta1">>

readyConditionTypes == {"ControlPlaneReady", "ControlPlaneAvailable"}

\* Some recognized readiness condition has status True.
controlPlaneReady(conds) ==
    \E c \in conds : c.type \in readyConditionTypes /\ c.status = "True"

\* The credential reference follows from the object's name.
recordFromCluster(o, u) == [ref |-> o, ready |-> controlPlaneReady(u.conds), labels |-> u.labels]

\* A label that is missing reads as an empty value.
labelOf(labels, k) == IF k \in DOMAIN labels THEN labels[k] ELSE ""

\* Mutant: only the labels are compared.
LabelsEqual(a, b) ==
    /\ Cardinality(DOMAIN a.labels) = Cardinality(DOMAIN b.labels)
    /\ \A k \in DOMAIN a.labels : labelOf(b.labels, k) = a.labels[k]

recordsEqual(a, b) ==
    /\ a.ref = b.ref /\ a.ready = b.ready
    /\ Cardinality(DOMAIN a.labels) = Cardinality(DOMAIN b.labels)
    /\ \A k \in DOMAIN a.labels : labelOf(b.labels, k) = a.labels[k]

RecordsType ==
    [Objects -> {absent} \cup [ref : Objects, ready : BOOLEAN, labels : Labelings]]

-----------------------------------------------------------------------------
\* Start: negotiate, sync, watch

\* resolveClusterGVR: the most preferred version that is served, or why none is.
resolveClusterGVR ==
    LET usable == {i \in DOMAIN supportedClusterVersions : supportedClusterVersions[i] \in serving}
    IN  IF ~hub THEN "unreachable"
        ELSE IF usable # {}
             THEN supportedClusterVersions[CHOOSE i \in usable : \A j \in usable : i <= j]
        ELSE IF serving = {} THEN "absentResource"
        ELSE "unsupported"

retryable == {"unreachable", "absentResource"}

\* What is retryable is asked for again; no supported version is an error of
\* Start.  Otherwise the informer is started.
negotiate ==
    /\ ppc = "negotiate"
    /\ resolveClusterGVR \notin retryable
    /\ ppc' = IF resolveClusterGVR = "unsupported" THEN "failed" ELSE "sync"
    /\ gvr' = resolveClusterGVR
    /\ UNCHANGED <<fleetVars, store, records, events, handled>>

\* The informer's requests are answered.
Listing == hub /\ gvr \in serving

\* The informer has listed the objects; its handlers hear of them later.
Synced ==
    /\ ppc = "sync"
    /\ Listing
    /\ ppc' = "watching"
    /\ UNCHANGED <<fleetVars, gvr, store, records, events, handled>>

\* No sync within cacheSyncTimeout.
SyncTimesOut ==
    /\ ppc = "sync"
    /\ ~Listing
    /\ ppc' = "failed"
    /\ UNCHANGED <<fleetVars, gvr, store, records, events, handled>>

\* The process starts again with nothing.
Restart ==
    /\ ppc' = "negotiate"
    /\ gvr' = "none"
    /\ store' = [o \in Objects |-> absent]
    /\ records' = [o \in Objects |-> absent]
    /\ events' = <<>>
    /\ handled' = FALSE

Watching == ppc = "watching"

-----------------------------------------------------------------------------
\* Informer handlers

\* upsert: an equal record is not an event.  Whether it is a Register or an
\* Update makes no difference to the handlers.
upsert(o, u) ==
    LET prev == records[o]
        record == recordFromCluster(o, u)
    IN  IF prev # absent /\ recordsEqual(prev, record) THEN UNCHANGED <<records, events>>
        ELSE /\ records' = [records EXCEPT ![o] = record]
             /\ events' = Append(events, record.ready)

\* Mutant: only the record is removed.
RemoveSilently(o) ==
    /\ records' = [records EXCEPT ![o] = absent]
    /\ UNCHANGED events

\* remove: the event carries the last record, not ready.
remove(o) ==
    \/ records[o] = absent /\ UNCHANGED <<records, events>>
    \/ /\ records[o] # absent
       /\ records' = [records EXCEPT ![o] = absent]
       /\ events' = Append(events, FALSE)

\* A change reaches the handlers.
Deliver(o) ==
    /\ ppc \in {"sync", "watching"} /\ Listing
    /\ events = <<>>
    /\ store[o] # objs[o]
    /\ store' = [store EXCEPT ![o] = objs[o]]
    /\ IF objs[o] = absent THEN remove(o) ELSE upsert(o, objs[o])
    /\ UNCHANGED <<fleetVars, ppc, gvr, handled>>

\* The handlers (spokeWirer.Handle) are done with an event.
Handle ==
    /\ events # <<>>
    /\ handled' = Head(events)
    /\ events' = Tail(events)
    /\ UNCHANGED <<fleetVars, ppc, gvr, store, records>>

Provider == negotiate \/ Synced \/ SyncTimesOut

-----------------------------------------------------------------------------
\* The hub

ChangeObject ==
    /\ \E o \in Objects, u \in Clusters \cup {absent} :
        u # objs[o] /\ objs' = [objs EXCEPT ![o] = u]
    /\ UNCHANGED <<hub, serving, providerVars>>

ChangeServing ==
    /\ \/ hub /\ hub' = FALSE /\ UNCHANGED serving
       \/ serving' \in Serving \ {serving} /\ UNCHANGED hub
    /\ UNCHANGED <<objs, providerVars>>

HubUp ==
    /\ ~hub /\ hub' = TRUE
    /\ UNCHANGED <<serving, objs, providerVars>>

Init ==
    /\ hub = TRUE
    /\ serving \in Serving
    /\ objs \in [Objects -> Clusters \cup {absent}]
    /\ ppc = "negotiate"
    /\ gvr = "none"
    /\ store = [o \in Objects |-> absent]
    /\ records = [o \in Objects |-> absent]
    /\ events = <<>>
    /\ handled = FALSE

TypeOK ==
    /\ hub \in BOOLEAN
    /\ serving \in Serving
    /\ objs \in [Objects -> Clusters \cup {absent}]
    /\ ppc \in {"negotiate", "sync", "watching", "failed"}
    /\ gvr \in {"v1", "v1beta2", "v1beta1"} \cup {"none", "unsupported"}
    /\ store \in [Objects -> Clusters \cup {absent}]
    /\ records \in RecordsType
    /\ events \in Seq(BOOLEAN) /\ Len(events) <= 1
    /\ handled \in BOOLEAN

-----------------------------------------------------------------------------
\* What properties are made of

\* A record says of its object what the object says of itself, except that a
\* change of labels is lost on a record that has a label with an empty value.
Agrees(o) ==
    IF objs[o] = absent THEN records[o] = absent
    ELSE /\ records[o] # absent
         /\ records[o].ready = controlPlaneReady(objs[o].conds)
         /\ \/ records[o].labels = objs[o].labels
            \/ \E k \in DOMAIN records[o].labels : records[o].labels[k] = ""

\* Whatever its labels, a record has the labels of its object.
LabelsAgree(o) == objs[o] # absent /\ records[o] # absent => records[o].labels = objs[o].labels

ReadyOnHub(o) == objs[o] # absent /\ controlPlaneReady(objs[o].conds)

\* The hub serves a version the provider can watch.
Usable == resolveClusterGVR \notin (retryable \cup {"unsupported"})

=============================================================================
