--------------------------- MODULE DriftDetector ---------------------------
(***************************************************************************)
(* The drift detector of internal/engine/drift.go on ONE spoke: how drift  *)
(* handlers get onto the informers of a spoke's cache, and how what they   *)
(* see becomes reconciles of Replications.                                 *)
(*                                                                         *)
(* Threads run its methods: the lifecycle goroutine of the runtime that    *)
(* became ready, the discovery handler, the detector's Start, and the      *)
(* engine's worker.  A step is one critical section or one call.  Caches   *)
(* and their informers are external: an informer gets into sync once its   *)
(* cache runs and the spoke answers, and GetInformer waits for that unless *)
(* the cache has not been started yet.  On a stopped cache it may return   *)
(* an error or wait for ever; nothing here depends on which.               *)
(***************************************************************************)
EXTENDS Naturals, Sequences, FiniteSets

CONSTANTS
    Kinds,         \* replicated kinds (GVKs)
    Reps,          \* Replications there may be, each with a target on the spoke
    KindOf,        \* the kind of each
    MaxCaches,     \* how many caches there may be, one per runtime
    Threads,       \* the goroutines that call the detector
    ChannelSize    \* the capacity of the event channel

Caches == 1..MaxCaches

VARIABLES
    caches,     \* external: the state of each cache
    informers,  \* external: the state of each informer
    handlers,   \* informers that have the drift handler
    unseen,     \* changes of replicas a handler has still to be told of
    started,    \* ctx: Start has run
    clusters,   \* clusters[name]: the cache, or 0
    watched,    \* watched[name]: the kinds marked as installed
    gvks,       \* kinds to watch on every cluster
    reps,       \* the Replications that exist, for lookup and the hooks
    task,       \* what each thread is doing
    channel,    \* events
    dropped     \* history: Replications whose event was dropped or never was

detectorVars == <<started, clusters, watched, gvks, reps>>
cacheVars == <<caches, informers, unseen>>
driftVars == <<caches, informers, handlers, unseen, started, clusters, watched, gvks, reps,
               task, channel, dropped>>

idle == [pc |-> "idle", cache |-> 0, todo |-> {}, kind |-> "none", hook |-> FALSE, keys |-> {}]

Tasks ==
    [pc : {"idle", "ready", "gone", "ensure", "all", "install", "inform", "mark", "enqueue"},
     cache : Caches \cup {0}, todo : SUBSET Kinds, kind : Kinds \cup {"none"},
     hook : BOOLEAN, keys : SUBSET Reps]

DriftTypeOK ==
    /\ caches \in [Caches -> {"none", "new", "running", "stopped"}]
    /\ informers \in [Caches \X Kinds -> {"none", "asked", "synced"}]
    /\ handlers \subseteq (Caches \X Kinds)
    /\ unseen \subseteq (Caches \X Reps)
    /\ started \in BOOLEAN
    /\ clusters \in Caches \cup {0}
    /\ watched \subseteq Kinds
    /\ gvks \subseteq Kinds
    /\ reps \subseteq Reps
    /\ task \in [Threads -> Tasks]
    /\ channel \in Seq(Reps) /\ Len(channel) <= ChannelSize
    /\ dropped \subseteq Reps

DriftInit ==
    /\ caches = [c \in Caches |-> "none"]
    /\ informers = [i \in Caches \X Kinds |-> "none"]
    /\ handlers = {}
    /\ unseen = {}
    /\ started = FALSE
    /\ clusters = 0
    /\ watched = {}
    /\ gvks = {}
    /\ task = [t \in Threads |-> idle]
    /\ channel = <<>>
    /\ dropped = {}

Idling(t) == task[t].pc = "idle"

goOn(t, new) == task' = [task EXCEPT ![t] = new]

-----------------------------------------------------------------------------
\* Hooks and calls: what each does in its first critical section

\* A hook goes on with enqueueForCluster, which lists the Replications.
enqueueing(keys) == [idle EXCEPT !.pc = IF keys = {} THEN "idle" ELSE "enqueue", !.keys = keys]
afterInstall(hook) == IF hook THEN enqueueing(reps) ELSE idle

\* What is left of ClusterReady and of Start when they have the lock no more.
installingAll(c, hook) == [idle EXCEPT !.pc = "all", !.cache = c, !.hook = hook]

others == <<cacheVars, handlers, channel, dropped>>

\* installAll: the kinds known at this moment.
installAll(t) ==
    /\ task[t].pc = "all"
    /\ goOn(t, IF gvks = {} THEN afterInstall(task[t].hook)
               ELSE [task[t] EXCEPT !.pc = "install", !.todo = gvks])
    /\ UNCHANGED <<others, detectorVars>>

\* Mutant: the Replications of the cluster are not enqueued.
ClusterReadyQuietly(t) ==
    /\ task[t].pc = "ready"
    /\ clusters' = task[t].cache
    /\ watched' = {}
    /\ goOn(t, IF started THEN installingAll(task[t].cache, FALSE) ELSE idle)
    /\ UNCHANGED <<others, started, gvks, reps>>

\* ClusterReady: a fresh map of marks; informers at once when Start has run.
ClusterReady(t) ==
    /\ task[t].pc = "ready"
    /\ clusters' = task[t].cache
    /\ watched' = {}
    /\ goOn(t, IF started THEN installingAll(task[t].cache, TRUE) ELSE afterInstall(TRUE))
    /\ UNCHANGED <<others, started, gvks, reps>>

\* ClusterGone, and then enqueueForCluster.
ClusterGone(t) ==
    /\ task[t].pc = "gone"
    /\ clusters' = 0
    /\ watched' = {}
    /\ goOn(t, afterInstall(TRUE))
    /\ UNCHANGED <<others, started, gvks, reps>>

Start(t) ==
    /\ ~started
    /\ started' = TRUE
    /\ goOn(t, IF clusters # 0 THEN installingAll(clusters, FALSE) ELSE idle)
    /\ UNCHANGED <<others, clusters, watched, gvks, reps>>

\* Mutant: a kind is watched from the next time the cluster becomes ready.
EnsureWatchLater(t) ==
    /\ task[t].pc = "ensure"
    /\ gvks' = gvks \cup {task[t].kind}
    /\ goOn(t, idle)
    /\ UNCHANGED <<others, started, clusters, watched, reps>>

\* Mutant: the worker waits for the cluster.
EnsureWatchWaits(t) ==
    /\ task[t].pc = "ensure" /\ started /\ clusters # 0
    /\ gvks' = gvks \cup {task[t].kind}
    /\ goOn(t, IF task[t].kind \notin watched
               THEN [idle EXCEPT !.pc = "install", !.cache = clusters, !.todo = {task[t].kind}]
               ELSE idle)
    /\ UNCHANGED <<others, started, clusters, watched, reps>>

EnsureWatch(t) ==
    /\ task[t].pc = "ensure"
    /\ gvks' = gvks \cup {task[t].kind}
    /\ goOn(t, IF started /\ clusters # 0 /\ task[t].kind \notin watched
               THEN [idle EXCEPT !.pc = "install", !.cache = clusters, !.todo = {task[t].kind}]
               ELSE idle)
    /\ UNCHANGED <<others, started, clusters, watched, reps>>

-----------------------------------------------------------------------------
\* install

\* Installs that are left, or what comes after them.
proceed(t, k) ==
    LET left == task[t].todo \ {k}
    IN  IF left # {} THEN [task[t] EXCEPT !.pc = "install", !.todo = left, !.kind = "none"]
        ELSE afterInstall(task[t].hook)

\* A marked kind is skipped; otherwise the informer is asked for, which creates
\* it.
install(t) ==
    /\ task[t].pc = "install"
    /\ \E k \in task[t].todo :
        \/ k \in watched /\ goOn(t, proceed(t, k)) /\ UNCHANGED informers
        \/ /\ k \notin watched
           /\ goOn(t, [task[t] EXCEPT !.pc = "inform", !.kind = k])
           /\ informers' = [informers EXCEPT ![<<task[t].cache, k>>] =
                                IF @ = "none" THEN "asked" ELSE @]
    /\ UNCHANGED <<caches, unseen, handlers, detectorVars, channel, dropped>>

asking(t) == <<task[t].cache, task[t].kind>>

\* A handler is told of every object that is there.
replay(i, there) == {<<i[1], r>> : r \in {q \in there : KindOf[q] = i[2]}}

\* GetInformer returns and the handler is added.  there: replicas that exist.
GetInformer(t, there) ==
    /\ task[t].pc = "inform"
    /\ \/ caches[task[t].cache] = "new"
       \/ informers[asking(t)] = "synced"
    /\ caches[task[t].cache] # "stopped"
    /\ handlers' = handlers \cup {asking(t)}
    /\ unseen' = unseen \cup (IF informers[asking(t)] = "synced" THEN replay(asking(t), there)
                              ELSE {})
    /\ goOn(t, [task[t] EXCEPT !.pc = "mark"])
    /\ UNCHANGED <<caches, informers, detectorVars, channel, dropped>>

\* On a stopped cache either call may fail; the kind is not marked.
InformerFails(t) ==
    /\ task[t].pc = "inform"
    /\ caches[task[t].cache] = "stopped"
    /\ goOn(t, proceed(t, task[t].kind))
    /\ UNCHANGED <<others, detectorVars>>

\* The mark goes into the map of the moment, whichever cache that is for.
Mark(t) ==
    /\ task[t].pc = "mark"
    /\ watched' = IF clusters # 0 THEN watched \cup {task[t].kind} ELSE watched
    /\ goOn(t, proceed(t, task[t].kind))
    /\ UNCHANGED <<others, started, clusters, gvks, reps>>

-----------------------------------------------------------------------------
\* Enqueue

\* Mutant: the channel is never full.
EnqueueUnbounded(r) == channel' = Append(channel, r) /\ UNCHANGED dropped

\* A full channel drops the event.
Enqueue(r) ==
    IF Len(channel) < ChannelSize THEN channel' = Append(channel, r) /\ UNCHANGED dropped
    ELSE dropped' = dropped \cup {r} /\ UNCHANGED channel

enqueueForCluster(t) ==
    /\ task[t].pc = "enqueue"
    /\ \E r \in task[t].keys :
        /\ Enqueue(r)
        /\ goOn(t, enqueueing(task[t].keys \ {r}))
    /\ UNCHANGED <<cacheVars, handlers, detectorVars>>

\* observe: the handler of a running cache is told of a change.
observe ==
    /\ \E u \in unseen :
        /\ caches[u[1]] = "running"
        /\ Enqueue(u[2])
        /\ unseen' = unseen \ {u}
    /\ UNCHANGED <<caches, informers, handlers, detectorVars, task>>

\* A thread waits for an informer of a cache that was stopped before it synced.
Stuck(t) ==
    /\ task[t].pc = "inform"
    /\ caches[task[t].cache] = "stopped" /\ informers[asking(t)] # "synced"

Thread(t, there) ==
    \/ ClusterReady(t) \/ ClusterGone(t) \/ EnsureWatch(t)
    \/ installAll(t) \/ install(t) \/ GetInformer(t, there) \/ Mark(t) \/ enqueueForCluster(t)
    \/ ~Stuck(t) /\ InformerFails(t)

-----------------------------------------------------------------------------
\* Caches (external)

NewCache(c) ==
    /\ caches[c] = "none" /\ \A d \in 1..(c - 1) : caches[d] # "none"
    /\ caches' = [caches EXCEPT ![c] = "new"]

StartCache(c) ==
    /\ caches[c] = "new"
    /\ caches' = [caches EXCEPT ![c] = "running"]
    /\ UNCHANGED <<informers, handlers, unseen, detectorVars, task, channel, dropped>>

\* The informer has listed the objects that are there.
SyncInformer(i, there) ==
    /\ caches[i[1]] = "running" /\ informers[i] = "asked"
    /\ informers' = [informers EXCEPT ![i] = "synced"]
    /\ unseen' = unseen \cup (IF i \in handlers THEN replay(i, there) ELSE {})
    /\ UNCHANGED <<caches, handlers, detectorVars, task, channel, dropped>>

\* Informers and handlers die with the context of their runtime.
StopCache(c) ==
    /\ caches' = [caches EXCEPT ![c] = "stopped"]
    /\ unseen' = {u \in unseen : u[1] # c}
    /\ handlers' = {i \in handlers : i[1] # c}

\* What watching informers have to tell of a change of r's replica.
told_of(r) == {<<i[1], r>> : i \in {j \in handlers :
                KindOf[r] = j[2] /\ informers[j] = "synced" /\ caches[j[1]] # "stopped"}}

-----------------------------------------------------------------------------
\* A kind is marked as watched although the cluster's cache has no handler.
Mismarked == \E k \in watched : <<clusters, k>> \notin handlers

=============================================================================
