------------------------------- MODULE Drift -------------------------------
(***************************************************************************)
(* Drift of replicas on ONE spoke and how it is seen: the drift detector   *)
(* composed with the runtime of the spoke, as the cluster manager promises *)
(* it (SpokeRuntime), and with the engine's worker, as                     *)
(* Reconciler.SetupWithManager composes them:                              *)
(*   - the ready hooks run in the lifecycle goroutine, which waits for     *)
(*     them before it probes again or ends; the gone hooks run in the      *)
(*     discovery handler, which waits for the lifecycle first;             *)
(*   - the engine's one worker restores a replica it finds changed, calls  *)
(*     EnsureWatch, and is woken through the event channel.                *)
(* Of the engine only these calls are here.  The periodic reconcile (ten   *)
(* hours) is not: what is repaired here is repaired because it was seen.   *)
(***************************************************************************)
EXTENDS DriftDetector

CONSTANTS
    Disturbances,     \* the kinds of environment steps that happen
    MaxDisturbances   \* how many of them

ASSUME DriftAssumption ==
    /\ KindOf \in [Reps -> Kinds] /\ "none" \notin Kinds /\ Reps # {}
    /\ Threads = {"life", "handler", "start", "worker"}
    /\ ChannelSize \in Nat \ {0} /\ MaxDisturbances \in Nat
    /\ MaxCaches = MaxDisturbances + 1

VARIABLES
    wanted,     \* discovery has the cluster ready
    spokeUp,    \* the spoke answers
    up, hooks, told, raced,
    spoke,      \* the replica of each Replication
    dirty,      \* the engine's work queue
    budget      \* disturbances left

runtimeVars == <<up, hooks, told, raced>>
outsideVars == <<wanted, spokeUp, budget>>
engineVars == <<spoke, dirty>>
vars == <<driftVars, runtimeVars, outsideVars, engineVars>>

Runtime == INSTANCE SpokeRuntime

Init ==
    /\ DriftInit
    /\ Runtime!Init
    /\ wanted = TRUE
    /\ spokeUp = TRUE
    /\ reps = {CHOOSE r \in Reps : TRUE}
    /\ spoke = [r \in Reps |-> "absent"]
    /\ dirty = reps
    /\ budget = MaxDisturbances

\* The replicas that exist.
there == {r \in Reps : spoke[r] # "absent"}

-----------------------------------------------------------------------------
\* The runtime and its hooks

\* startRuntime: a new cache, and the ready hooks.
StartRuntime ==
    /\ wanted /\ spokeUp
    /\ Runtime!StartUp
    /\ \E c \in Caches :
        NewCache(c) /\ goOn("life", [idle EXCEPT !.pc = "ready", !.cache = c])
    /\ UNCHANGED <<raced, informers, handlers, unseen, detectorVars, channel, dropped, outsideVars,
                   engineVars>>

HooksReturn ==
    /\ Idling("life")
    /\ Runtime!HooksReturn
    /\ UNCHANGED <<raced, driftVars, outsideVars, engineVars>>

\* The latest cache is the runtime's.
ownCache == CHOOSE c \in Caches : caches[c] \in {"new", "running"}

Stop ==
    /\ Runtime!Stop
    /\ StopCache(ownCache)
    /\ UNCHANGED <<raced, informers, detectorVars, task, channel, dropped, engineVars>>

StopRuntime == ~wanted /\ Stop /\ UNCHANGED outsideVars

GoneHooks ==
    /\ ~wanted /\ told = "ready"
    /\ Runtime!Gone
    /\ goOn("handler", [idle EXCEPT !.pc = "gone"])
    /\ UNCHANGED <<raced, caches, informers, handlers, unseen, detectorVars, channel, dropped,
                   outsideVars, engineVars>>

-----------------------------------------------------------------------------
\* The detector's threads and the spoke's informers

Detect(t) == Thread(t, there) /\ UNCHANGED <<runtimeVars, outsideVars, engineVars>>

StuckReturns(t) ==
    Stuck(t) /\ InformerFails(t) /\ UNCHANGED <<runtimeVars, outsideVars, engineVars>>

StartDetector == Start("start") /\ UNCHANGED <<runtimeVars, outsideVars, engineVars>>

CacheRuns(c) == StartCache(c) /\ UNCHANGED <<runtimeVars, outsideVars, engineVars>>

InformerSyncs(i) ==
    spokeUp /\ SyncInformer(i, there) /\ UNCHANGED <<runtimeVars, outsideVars, engineVars>>

Observe == spokeUp /\ observe /\ UNCHANGED <<runtimeVars, outsideVars, engineVars>>

-----------------------------------------------------------------------------
\* The engine

\* Channel to work queue.
Pump ==
    /\ channel # <<>>
    /\ dirty' = dirty \cup {Head(channel)}
    /\ channel' = Tail(channel)
    /\ UNCHANGED <<cacheVars, handlers, detectorVars, task, dropped, runtimeVars, outsideVars,
                   spoke>>

\* applyTarget: the replica is written when it is not as it should be, and its
\* kind is watched.  Without a client or an answer the target is tried again.
Reconcile(r) ==
    /\ r \in dirty
    /\ Idling("worker")
    /\ up /\ spokeUp
    /\ dirty' = dirty \ {r}
    /\ spoke' = [spoke EXCEPT ![r] = "good"]
    /\ unseen' = IF spoke[r] = "good" THEN unseen ELSE unseen \cup told_of(r)
    /\ dropped' = dropped \ {r}
    /\ goOn("worker", [idle EXCEPT !.pc = "ensure", !.kind = KindOf[r]])
    /\ UNCHANGED <<caches, informers, handlers, detectorVars, channel, runtimeVars, outsideVars>>

-----------------------------------------------------------------------------
\* The environment

Disturb(kind) ==
    /\ kind \in Disturbances
    /\ budget > 0
    /\ budget' = budget - 1

\* The cluster leaves, or comes back once its leaving has been handled.
ChangeFleet ==
    /\ Disturb("fleet")
    /\ wanted \/ (told # "ready" /\ Idling("handler"))
    /\ wanted' = ~wanted
    /\ UNCHANGED <<driftVars, runtimeVars, spokeUp, engineVars>>

ChangeLink ==
    /\ Disturb("link")
    /\ spokeUp' = ~spokeUp
    /\ UNCHANGED <<driftVars, runtimeVars, wanted, engineVars>>

\* The runtime exits with an error; no hook says so.
RuntimeFails == Disturb("runtime") /\ Stop /\ UNCHANGED <<wanted, spokeUp>>

\* A replica is edited or deleted.  A deletion no informer watches is not told.
ChangeReplica ==
    /\ Disturb("drift")
    /\ \E r \in there, state \in {"edited", "absent"} :
        /\ spoke' = [spoke EXCEPT ![r] = state]
        /\ unseen' = unseen \cup told_of(r)
        /\ dropped' = IF state = "absent" /\ told_of(r) = {} THEN dropped \cup {r} ELSE dropped
    /\ UNCHANGED <<caches, informers, handlers, detectorVars, task, channel, runtimeVars, wanted,
                   spokeUp, dirty>>

CreateReplication ==
    /\ Disturb("replication")
    /\ \E r \in Reps \ reps : reps' = reps \cup {r} /\ dirty' = dirty \cup {r}
    /\ UNCHANGED <<cacheVars, handlers, started, clusters, watched, gvks, task, channel, dropped,
                   runtimeVars, wanted, spokeUp, spoke>>

\* Nothing is left to do.
Idle == budget = 0 /\ UNCHANGED vars

Next ==
    \/ StartRuntime \/ HooksReturn \/ StopRuntime \/ GoneHooks
    \/ StartDetector \/ Observe \/ Pump
    \/ \E t \in Threads : Detect(t) \/ StuckReturns(t)
    \/ \E c \in Caches : CacheRuns(c) \/ \E k \in Kinds : InformerSyncs(<<c, k>>)
    \/ \E r \in Reps : Reconcile(r)
    \/ ChangeFleet \/ ChangeLink \/ RuntimeFails \/ ChangeReplica \/ CreateReplication
    \/ Idle

Spec == Init /\ [][Next]_vars

\* Every goroutine runs, the channel is drained, and informers of a spoke that
\* answers sync and deliver.  GetInformer on a stopped cache need not return.
Fairness ==
    /\ WF_vars(StartRuntime) /\ WF_vars(HooksReturn) /\ WF_vars(StopRuntime) /\ WF_vars(GoneHooks)
    /\ WF_vars(StartDetector) /\ WF_vars(Observe) /\ WF_vars(Pump)
    /\ \A t \in Threads : WF_vars(Detect(t))
    /\ WF_vars(\E c \in Caches : CacheRuns(c))
    /\ WF_vars(\E i \in Caches \X Kinds : InformerSyncs(i))
    /\ WF_vars(\E r \in Reps : Reconcile(r))

FairSpec == Spec /\ Fairness

-----------------------------------------------------------------------------
\* Properties

TypeOK ==
    /\ DriftTypeOK
    /\ wanted \in BOOLEAN /\ spokeUp \in BOOLEAN
    /\ up \in BOOLEAN /\ hooks \in BOOLEAN /\ told \in {"nothing", "ready", "gone"}
    /\ ~raced
    /\ spoke \in [Reps -> {"absent", "good", "edited"}]
    /\ dirty \subseteq Reps
    /\ budget \in 0..MaxDisturbances

AnyStuck == \E t \in Threads : Stuck(t)

\* A connected spoke, with no thread left waiting for a cache that was stopped
\* and no kind marked for one.
Settled == wanted /\ spokeUp /\ ~AnyStuck /\ ~Mismarked

\* Once disturbances cease, the detector has its handlers on the cache of the
\* runtime in use, for every kind that has a replica, however often the runtime
\* failed and the cluster left, also while informers were being installed; and
\* it holds no cache of a cluster that left for good.
KindsWatched ==
    <>[](/\ Settled => /\ up /\ clusters # 0 /\ caches[clusters] = "running"
                       /\ \A r \in there : <<clusters, KindOf[r]>> \in handlers
         /\ ~wanted /\ ~AnyStuck /\ spokeUp => clusters = 0 /\ ~up)

\* Once disturbances cease, every replica of a connected spoke is as it should
\* be, whenever it was changed, unless its event was dropped by a full channel
\* or its deletion fell into the time before its kind was watched.
DriftRepaired == <>[](Settled => \A r \in reps \ dropped : spoke[r] = "good")

\* Nothing is on its way: no goroutine is in the detector, no handler has still to
\* be told, and the event channel and the work queue are empty.
Quiet == (\A t \in Threads : Idling(t)) /\ unseen = {} /\ channel = <<>> /\ dirty = {}

\* The informers of the cluster's cache that have a drift handler have listed.
Synced == \A i \in handlers : i[1] = clusters => informers[i] = "synced"

\* When nothing is on its way on a spoke whose cache runs, no drift has been
\* overlooked: every replica is as it should be but for dropped events, whatever
\* order hooks, installs, informers and edits came in.  Without this, a replica
\* would stay changed until the periodic reconcile.
NothingForgotten ==
    /\ started /\ clusters # 0 /\ caches[clusters] = "running" /\ ~Mismarked
    /\ Quiet /\ Synced
    => \A r \in reps \ dropped : spoke[r] = "good"

\* Nobody waits for a spoke that answers: the engine's only worker and the
\* discovery handler come back, unless a cache was stopped before it synced.
NobodyWaits == []<>(~spokeUp \/ AnyStuck \/ (Idling("worker") /\ Idling("handler")))

=============================================================================
