---------------------------- MODULE DriftProofs ----------------------------
(***************************************************************************)
(* Proofs about Drift, for any number of kinds, Replications, runtimes and *)
(* disturbances and every size of the event channel: what the detector has *)
(* still to install or to enqueue is held by one of its threads, however   *)
(* hooks, informers and the engine's worker interleave.                    *)
(***************************************************************************)
EXTENDS Drift, TLAPS

Busy == {"all", "install", "inform", "mark"}

\* A task that has kind k to install on cache c, or every kind.
Installs(q, c, k) == q.pc \in Busy /\ q.cache = c /\ (q.pc = "all" \/ k \in q.todo)

\* A task that will enqueue r.
Carries(q, r) ==
    \/ q.pc = "enqueue" /\ r \in q.keys
    \/ q.pc \in {"ready", "gone"}
    \/ q.pc \in Busy /\ q.hook

\* A task names the cache and the kind that its next call is about.
TaskOK(q) ==
    /\ q \in Tasks
    /\ q.pc \in Busy \cup {"ready"} => q.cache \in Caches
    /\ q.pc \in {"inform", "mark", "ensure"} => q.kind \in Kinds

TasksOK == \A t \in Threads : TaskOK(task[t])

Live(c) == caches[c] \in {"new", "running"}

\* A runtime that works has the one cache that is in use.
LiveOK ==
    /\ up => \E c \in Caches : Live(c)
    /\ \A c, d \in Caches : Live(c) /\ Live(d) => up /\ c = d

\* The lifecycle goroutine is in the detector only while its hooks run, the
\* discovery handler only for a cluster that has left, and Start runs once.
HookOK ==
    /\ ~hooks => Idling("life")
    /\ ~Idling("handler") => ~wanted /\ told = "gone"
    /\ ~started => Idling("start")

\* A kind to watch is marked, or a thread is about to install it.
KindsKept ==
    started /\ clusters # 0 /\ caches[clusters] # "stopped" =>
        \A k \in gvks : k \in watched \/ \E t \in Threads : Installs(task[t], clusters, k)

\* The kind of a replica is known to the detector, or the worker tells it.
ReplicasKnown ==
    \A r \in there :
        \/ KindOf[r] \in gvks
        \/ task["worker"].pc = "ensure" /\ task["worker"].kind = KindOf[r]

InChannel(r) == \E i \in 1..Len(channel) : channel[i] = r
Unseen(r) == \E c \in Caches : <<c, r>> \in unseen
Carried(r) == \E t \in Threads : Carries(task[t], r)
Unwatched(r) == spoke[r] = "edited" /\ told_of(r) = {}

\* Somebody will see that r's replica is not as it should be: the work queue or
\* the channel has it, a handler is to be told, a hook is to enqueue it, the hooks
\* of the next runtime will, or an informer that is not watching yet.
Remembered(r) ==
    r \in dirty \/ InChannel(r) \/ Unseen(r) \/ Carried(r) \/ ~up \/ Unwatched(r)

DriftKept == \A r \in reps \ dropped : spoke[r] = "good" \/ Remembered(r)

DriftInv == TypeOK /\ TasksOK /\ LiveOK /\ HookOK /\ KindsKept /\ ReplicasKnown /\ DriftKept

-----------------------------------------------------------------------------
\* Tasks

\* The constants.
LEMMA Constants ==
    /\ \A r \in Reps : KindOf[r] \in Kinds
    /\ "life" \in Threads /\ "handler" \in Threads /\ "start" \in Threads /\ "worker" \in Threads
    /\ ChannelSize \in Nat /\ ChannelSize > 0 /\ MaxDisturbances \in Nat /\ MaxCaches \in Nat
    /\ 0 \notin Caches /\ "none" \notin Kinds /\ Reps # {}
<1>1. MaxCaches \in Nat /\ 0 \notin Caches
  BY DriftAssumption DEF Caches
<1>. QED
  BY <1>1, DriftAssumption

\* The idle task.
LEMMA IdleFields ==
    /\ TaskOK(idle) /\ idle.pc = "idle" /\ idle.cache = 0 /\ idle.todo = {}
    /\ idle.kind = "none" /\ idle.hook = FALSE /\ idle.keys = {}
BY DEF idle, Tasks, TaskOK, Busy

\* The tasks that hooks and the worker start with.
LEMMA FirstFields ==
    /\ \A c \in Caches :
         LET q == [idle EXCEPT !.pc = "ready", !.cache = c]
         IN  TaskOK(q) /\ q.pc = "ready" /\ q.cache = c
    /\ LET q == [idle EXCEPT !.pc = "gone"]
       IN  TaskOK(q) /\ q.pc = "gone"
    /\ \A k \in Kinds :
         LET q == [idle EXCEPT !.pc = "ensure", !.kind = k]
         IN  TaskOK(q) /\ q.pc = "ensure" /\ q.kind = k
    /\ \A c \in Caches, k \in Kinds :
         LET q == [idle EXCEPT !.pc = "install", !.cache = c, !.todo = {k}]
         IN  TaskOK(q) /\ q.pc = "install" /\ q.cache = c /\ q.todo = {k}
BY IdleFields DEF Tasks, TaskOK, Busy

\* enqueueForCluster has keys to enqueue, or nothing to do.
LEMMA EnqueueingFields ==
    ASSUME NEW K \in SUBSET Reps
    PROVE  LET q == enqueueing(K)
           IN  /\ TaskOK(q) /\ q.pc \in {"idle", "enqueue"}
               /\ \A r \in K : q.pc = "enqueue" /\ r \in q.keys
<1>1. CASE K = {}
  BY <1>1, IdleFields DEF enqueueing, Tasks, TaskOK, Busy
<1>2. CASE K # {}
  BY <1>2, IdleFields DEF enqueueing, Tasks, TaskOK, Busy
<1>. QED
  BY <1>1, <1>2

\* What comes after the installs of a hook enqueues every Replication.
LEMMA AfterFields ==
    ASSUME reps \subseteq Reps, NEW h \in BOOLEAN
    PROVE  LET q == afterInstall(h)
           IN  /\ TaskOK(q) /\ q.pc \in {"idle", "enqueue"}
               /\ h => \A r \in reps : Carries(q, r)
<1>1. CASE h = TRUE
  BY <1>1, EnqueueingFields DEF afterInstall, Carries
<1>2. CASE h = FALSE
  BY <1>2, IdleFields DEF afterInstall
<1>. QED
  BY <1>1, <1>2

\* installAll has every kind to install, and then those that are known.
LEMMA InstallAllFields ==
    /\ \A c \in Caches, h \in BOOLEAN :
         LET q == installingAll(c, h)
         IN  TaskOK(q) /\ q.pc = "all" /\ q.cache = c /\ q.hook = h
    /\ \A q : TaskOK(q) /\ q.pc = "all" /\ gvks \subseteq Kinds =>
         LET n == [q EXCEPT !.pc = "install", !.todo = gvks]
         IN  TaskOK(n) /\ n.pc = "install" /\ n.cache = q.cache /\ n.todo = gvks /\ n.hook = q.hook
<1>1. ASSUME NEW c \in Caches, NEW h \in BOOLEAN
      PROVE  LET q == installingAll(c, h)
             IN  TaskOK(q) /\ q.pc = "all" /\ q.cache = c /\ q.hook = h
  BY IdleFields DEF installingAll, Tasks, TaskOK, Busy
<1>2. ASSUME NEW q, TaskOK(q), q.pc = "all", gvks \subseteq Kinds
      PROVE  LET n == [q EXCEPT !.pc = "install", !.todo = gvks]
             IN  TaskOK(n) /\ n.pc = "install" /\ n.cache = q.cache /\ n.todo = gvks
                 /\ n.hook = q.hook
  BY <1>2 DEF Tasks, TaskOK, Busy
<1>. QED
  BY <1>1, <1>2

\* A thread that is done with one kind keeps the others, and its hook.
LEMMA ProceedFields ==
    ASSUME reps \subseteq Reps, TasksOK, NEW t \in Threads, NEW k,
           task[t].pc \in Busy \ {"all"}
    PROVE  LET q == proceed(t, k)
           IN  /\ TaskOK(q) /\ q.pc \in {"idle", "enqueue", "install"}
               /\ \A c, j : Installs(task[t], c, j) /\ j # k => Installs(q, c, j)
               /\ \A r \in reps : Carries(task[t], r) => Carries(q, r)
<1>. DEFINE left == task[t].todo \ {k}
<1>0. TaskOK(task[t])
  BY DEF TasksOK
<1>1. CASE left # {}
  <2>. DEFINE q == [task[t] EXCEPT !.pc = "install", !.todo = left, !.kind = "none"]
  <2>1. TaskOK(q) /\ q.pc = "install" /\ q.cache = task[t].cache /\ q.todo = left
        /\ q.hook = task[t].hook
    BY <1>0 DEF Tasks, TaskOK, Busy
  <2>2. proceed(t, k) = q
    BY <1>1 DEF proceed
  <2>. HIDE DEF q
  <2>. QED
    BY <2>1, <2>2 DEF Installs, Carries, Busy
<1>2. CASE left = {}
  <2>1. proceed(t, k) = afterInstall(task[t].hook) /\ task[t].hook \in BOOLEAN
    BY <1>0, <1>2 DEF proceed, Tasks, TaskOK
  <2>2. \A r : Carries(task[t], r) => task[t].hook
    BY DEF Carries, Busy
  <2>3. \A c, j : ~(Installs(task[t], c, j) /\ j # k)
    BY <1>2 DEF Installs
  <2>. QED
    BY <2>1, <2>2, <2>3, AfterFields
<1>. QED
  BY <1>1, <1>2

\* A thread goes on.
LEMMA GoOn ==
    ASSUME task \in [Threads -> Tasks], TasksOK, NEW t \in Threads, NEW q, TaskOK(q), goOn(t, q)
    PROVE  /\ task' \in [Threads -> Tasks] /\ TasksOK' /\ task'[t] = q
           /\ \A s \in Threads \ {t} : task'[s] = task[s]
<1>1. task' \in [Threads -> Tasks] /\ task'[t] = q /\ \A s \in Threads \ {t} : task'[s] = task[s]
  BY DEF goOn, TaskOK
<1>2. ASSUME NEW s \in Threads PROVE TaskOK(task'[s])
  BY <1>1 DEF TasksOK
<1>3. TasksOK'
  BY <1>2 DEF TasksOK, TaskOK
<1>. QED
  BY <1>1, <1>3

\* Within an install, a task keeps its cache, its kinds and its hook.
LEMMA InformFields ==
    ASSUME NEW q, TaskOK(q)
    PROVE  /\ q.pc = "install" => \A k \in q.todo :
                LET n == [q EXCEPT !.pc = "inform", !.kind = k]
                IN  TaskOK(n) /\ n.pc = "inform" /\ n.cache = q.cache /\ n.todo = q.todo
                    /\ n.hook = q.hook
           /\ q.pc = "inform" =>
                LET n == [q EXCEPT !.pc = "mark"]
                IN  TaskOK(n) /\ n.pc = "mark" /\ n.cache = q.cache /\ n.todo = q.todo
                    /\ n.hook = q.hook
BY DEF TaskOK, Tasks, Busy

\* The steps of a thread that touch neither the channel nor the replicas.
Silent(t) ==
    \/ ClusterReady(t) \/ ClusterGone(t) \/ EnsureWatch(t) \/ installAll(t)
    \/ install(t) \/ GetInformer(t, there) \/ InformerFails(t) \/ Mark(t)
    \/ t = "start" /\ Idling(t) /\ Start(t)

\* In such a step, a task that will enqueue a Replication stays one.
LEMMA SilentTask ==
    ASSUME TypeOK, TasksOK, NEW t \in Threads, Silent(t)
    PROVE  \E q : /\ TaskOK(q) /\ goOn(t, q)
                  /\ \A r \in reps : Carries(task[t], r) => Carries(q, r)
<1>0. /\ reps \subseteq Reps /\ gvks \subseteq Kinds /\ TaskOK(task[t])
      /\ clusters \in Caches \cup {0}
  BY DEF TypeOK, DriftTypeOK, TasksOK
<1>1. CASE ClusterReady(t)
  <2>1. task[t].cache \in Caches
    BY <1>0, <1>1 DEF ClusterReady, TaskOK
  <2>2. CASE started
    <3>1. goOn(t, installingAll(task[t].cache, TRUE))
      BY <1>1, <2>2 DEF ClusterReady
    <3>. QED
      BY <2>1, <3>1, InstallAllFields DEF Carries, Busy
  <2>3. CASE ~started
    <3>1. goOn(t, afterInstall(TRUE))
      BY <1>1, <2>3 DEF ClusterReady
    <3>. QED
      BY <1>0, <3>1, AfterFields
  <2>. QED
    BY <2>2, <2>3
<1>2. CASE ClusterGone(t)
  BY <1>0, <1>2, AfterFields DEF ClusterGone
<1>3. CASE EnsureWatch(t)
  <2>1. \A r : ~Carries(task[t], r)
    BY <1>3 DEF EnsureWatch, Carries, Busy
  <2>2. task[t].kind \in Kinds
    BY <1>0, <1>3 DEF EnsureWatch, TaskOK
  <2>3. CASE started /\ clusters # 0 /\ task[t].kind \notin watched
    <3>. DEFINE q == [idle EXCEPT !.pc = "install", !.cache = clusters, !.todo = {task[t].kind}]
    <3>1. TaskOK(q)
      BY <1>0, <2>2, <2>3, FirstFields
    <3>2. goOn(t, q)
      BY <1>3, <2>3 DEF EnsureWatch
    <3>. HIDE DEF q
    <3>. QED
      BY <2>1, <3>1, <3>2
  <2>4. CASE ~(started /\ clusters # 0 /\ task[t].kind \notin watched)
    <3>1. goOn(t, idle)
      BY <1>3, <2>4 DEF EnsureWatch
    <3>. QED
      BY <2>1, <3>1, IdleFields
  <2>. QED
    BY <2>3, <2>4
<1>4. CASE install(t)
  <2>1. PICK k \in task[t].todo :
            \/ goOn(t, proceed(t, k))
            \/ goOn(t, [task[t] EXCEPT !.pc = "inform", !.kind = k])
    BY <1>4 DEF install
  <2>2. task[t].pc = "install"
    BY <1>4 DEF install
  <2>3. CASE goOn(t, proceed(t, k))
    BY <1>0, <2>2, <2>3, ProceedFields DEF Busy
  <2>4. CASE goOn(t, [task[t] EXCEPT !.pc = "inform", !.kind = k])
    <3>. DEFINE q == [task[t] EXCEPT !.pc = "inform", !.kind = k]
    <3>1. TaskOK(q) /\ q.pc = "inform" /\ q.hook = task[t].hook
      BY <1>0, <2>2, InformFields
    <3>. HIDE DEF q
    <3>2. goOn(t, q)
      BY <2>4 DEF q
    <3>. QED
      BY <2>2, <3>1, <3>2 DEF Carries, Busy
  <2>. QED
    BY <2>1, <2>3, <2>4
<1>5. CASE GetInformer(t, there)
  <2>. DEFINE q == [task[t] EXCEPT !.pc = "mark"]
  <2>1. task[t].pc = "inform" /\ goOn(t, q)
    BY <1>5 DEF GetInformer
  <2>2. TaskOK(q) /\ q.pc = "mark" /\ q.hook = task[t].hook
    BY <1>0, <2>1, InformFields
  <2>. HIDE DEF q
  <2>. QED
    BY <2>1, <2>2 DEF Carries, Busy
<1>6. CASE InformerFails(t) \/ Mark(t)
  <2>1. task[t].pc \in Busy \ {"all"} /\ goOn(t, proceed(t, task[t].kind))
    BY <1>6 DEF InformerFails, Mark, Busy
  <2>. QED
    BY <1>0, <2>1, ProceedFields
<1>7. CASE t = "start" /\ Idling(t) /\ Start(t)
  <2>1. \A r : ~Carries(task[t], r)
    BY <1>7 DEF Idling, Carries, Busy
  <2>2. CASE clusters # 0
    <3>1. goOn(t, installingAll(clusters, FALSE)) /\ clusters \in Caches
      BY <1>0, <1>7, <2>2 DEF Start
    <3>. QED
      BY <2>1, <3>1, InstallAllFields
  <2>3. CASE clusters = 0
    <3>1. goOn(t, idle)
      BY <1>7, <2>3 DEF Start
    <3>. QED
      BY <2>1, <3>1, IdleFields
  <2>. QED
    BY <2>2, <2>3
<1>8. CASE installAll(t)
  <2>1. task[t].pc = "all" /\ task[t].hook \in BOOLEAN
    BY <1>0, <1>8 DEF installAll, TaskOK, Tasks
  <2>2. CASE gvks = {}
    <3>1. goOn(t, afterInstall(task[t].hook))
      BY <1>8, <2>2 DEF installAll
    <3>2. \A r : Carries(task[t], r) => task[t].hook
      BY <2>1 DEF Carries
    <3>. QED
      BY <1>0, <2>1, <3>1, <3>2, AfterFields
  <2>3. CASE gvks # {}
    <3>. DEFINE q == [task[t] EXCEPT !.pc = "install", !.todo = gvks]
    <3>1. goOn(t, q)
      BY <1>8, <2>3 DEF installAll
    <3>2. TaskOK(q) /\ q.pc = "install" /\ q.hook = task[t].hook
      BY <1>0, <2>1, InstallAllFields
    <3>. HIDE DEF q
    <3>. QED
      BY <2>1, <3>1, <3>2 DEF Carries, Busy
  <2>. QED
    BY <2>2, <2>3
<1>. QED
  BY <1>1, <1>2, <1>3, <1>4, <1>5, <1>6, <1>7, <1>8 DEF Silent

-----------------------------------------------------------------------------
\* Types

rest == <<runtimeVars, outsideVars, engineVars>>

\* The steps there are.
LEMMA Steps ==
    ASSUME HookOK, [Next]_vars
    PROVE  \/ \E t \in Threads : (Silent(t) \/ enqueueForCluster(t)) /\ UNCHANGED rest
           \/ StartRuntime \/ HooksReturn \/ StopRuntime \/ GoneHooks \/ Observe \/ Pump
           \/ \E c \in Caches : CacheRuns(c) \/ \E k \in Kinds : InformerSyncs(<<c, k>>)
           \/ \E r \in Reps : Reconcile(r)
           \/ ChangeFleet \/ ChangeLink \/ RuntimeFails \/ ChangeReplica \/ CreateReplication
           \/ UNCHANGED vars
<1>1. CASE UNCHANGED vars \/ Idle
  BY <1>1 DEF Idle
<1>2. CASE StartDetector
  <2>1. Idling("start") /\ Start("start") /\ UNCHANGED rest
    BY <1>2 DEF StartDetector, Start, HookOK, rest
  <2>. QED
    BY <2>1, Constants DEF Silent
<1>3. CASE \E t \in Threads : Detect(t) \/ StuckReturns(t)
  BY <1>3 DEF Detect, StuckReturns, Thread, Silent, rest
<1>. QED
  BY <1>1, <1>2, <1>3 DEF Next

\* What a handler is told of are replicas.
LEMMA ToldTypes ==
    ASSUME TypeOK
    PROVE  /\ there \subseteq Reps
           /\ \A i \in Caches \X Kinds : replay(i, there) \subseteq Caches \X Reps
           /\ \A r \in Reps : told_of(r) \subseteq Caches \X Reps
<1>1. there \subseteq Reps
  BY DEF there
<1>2. handlers \subseteq Caches \X Kinds
  BY DEF TypeOK, DriftTypeOK
<1>. QED
  BY <1>1, <1>2 DEF replay, told_of

\* What silent steps do to the detector's variables.
LEMMA SilentTypes ==
    ASSUME TypeOK, TasksOK, NEW t \in Threads, Silent(t)
    PROVE  /\ UNCHANGED <<caches, reps, channel, dropped>>
           /\ informers' \in [Caches \X Kinds -> {"none", "asked", "synced"}]
           /\ handlers' \subseteq Caches \X Kinds
           /\ unseen' \subseteq Caches \X Reps
           /\ started' \in BOOLEAN
           /\ clusters' \in Caches \cup {0}
           /\ watched' \subseteq Kinds
           /\ gvks' \subseteq Kinds
<1>0. TaskOK(task[t])
  BY DEF TasksOK
<1>1. CASE ClusterReady(t) \/ ClusterGone(t)
  BY <1>0, <1>1 DEF ClusterReady, ClusterGone, TaskOK, others, cacheVars, TypeOK, DriftTypeOK
<1>2. CASE EnsureWatch(t)
  BY <1>0, <1>2 DEF EnsureWatch, TaskOK, others, cacheVars, TypeOK, DriftTypeOK
<1>3. CASE install(t)
  <2>1. informers' \in [Caches \X Kinds -> {"none", "asked", "synced"}]
    <3>1. PICK k \in task[t].todo :
            \/ UNCHANGED informers
            \/ informers' = [informers EXCEPT ![<<task[t].cache, k>>] =
                                 IF @ = "none" THEN "asked" ELSE @]
      BY <1>3 DEF install
    <3>2. <<task[t].cache, k>> \in Caches \X Kinds
      BY <1>0, <1>3 DEF TaskOK, Tasks, install, Busy
    <3>. DEFINE i == <<task[t].cache, k>>
    <3>. HIDE DEF i
    <3>3. i \in Caches \X Kinds
      BY <3>2 DEF i
    <3>4. \/ UNCHANGED informers
          \/ informers' = [informers EXCEPT ![i] = IF informers[i] = "none" THEN "asked" ELSE informers[i]]
      BY <3>1 DEF i
    <3>. QED
      BY <3>3, <3>4 DEF TypeOK, DriftTypeOK
  <2>. QED
    BY <1>3, <2>1 DEF install, detectorVars, TypeOK, DriftTypeOK
<1>4. CASE GetInformer(t, there)
  <2>1. asking(t) \in Caches \X Kinds
    BY <1>0, <1>4 DEF GetInformer, asking, TaskOK, Busy
  <2>2. handlers' \subseteq Caches \X Kinds
    BY <1>4, <2>1 DEF GetInformer, TypeOK, DriftTypeOK
  <2>3. unseen' \subseteq Caches \X Reps
    <3>1. replay(asking(t), there) \subseteq Caches \X Reps
      BY <2>1, ToldTypes
    <3>2. unseen' \subseteq unseen \cup replay(asking(t), there)
      BY <1>4 DEF GetInformer
    <3>. QED
      BY <3>1, <3>2 DEF TypeOK, DriftTypeOK
  <2>. QED
    BY <1>4, <2>2, <2>3 DEF GetInformer, detectorVars, TypeOK, DriftTypeOK
<1>5. CASE InformerFails(t) \/ installAll(t)
  BY <1>5 DEF InformerFails, installAll, others, cacheVars, detectorVars, TypeOK, DriftTypeOK
<1>6. CASE Mark(t)
  BY <1>0, <1>6 DEF Mark, TaskOK, others, cacheVars, TypeOK, DriftTypeOK
<1>7. CASE t = "start" /\ Idling(t) /\ Start(t)
  BY <1>7 DEF Start, others, cacheVars, TypeOK, DriftTypeOK
<1>. QED
  BY <1>1, <1>2, <1>3, <1>4, <1>5, <1>6, <1>7 DEF Silent

\* An event that is enqueued or dropped leaves the channel within its capacity.
LEMMA EnqueueType ==
    ASSUME TypeOK, NEW r \in Reps, Enqueue(r)
    PROVE  /\ channel' \in Seq(Reps) /\ Len(channel') <= ChannelSize /\ dropped' \subseteq Reps
           /\ dropped \subseteq dropped'
           /\ \A q \in Reps : InChannel(q) => InChannel(q)'
           /\ InChannel(r)' \/ r \in dropped'
<1>0. channel \in Seq(Reps) /\ Len(channel) <= ChannelSize /\ dropped \subseteq Reps
      /\ ChannelSize \in Nat /\ Len(channel) \in Nat
  BY Constants DEF TypeOK, DriftTypeOK
<1>1. CASE Len(channel) < ChannelSize
  <2>1. channel' = Append(channel, r) /\ dropped' = dropped
    BY <1>1 DEF Enqueue
  <2>2. channel' \in Seq(Reps) /\ Len(channel') = Len(channel) + 1
    BY <1>0, <2>1
  <2>3. channel'[Len(channel) + 1] = r /\ \A i \in 1..Len(channel) : channel'[i] = channel[i]
    BY <1>0, <2>1
  <2>4. ASSUME NEW q \in Reps, InChannel(q) PROVE InChannel(q)'
    <3>1. PICK i \in 1..Len(channel) : channel[i] = q
      BY <2>4 DEF InChannel
    <3>2. i \in 1..Len(channel') /\ channel'[i] = q
      BY <1>0, <2>2, <2>3, <3>1
    <3>. QED
      BY <3>2 DEF InChannel
  <2>5. InChannel(r)'
    <3>1. Len(channel) + 1 \in 1..Len(channel')
      BY <1>0, <2>2
    <3>. QED
      BY <2>3, <3>1 DEF InChannel
  <2>. QED
    BY <1>0, <1>1, <2>1, <2>2, <2>4, <2>5
<1>2. CASE ~(Len(channel) < ChannelSize)
  <2>1. dropped' = dropped \cup {r} /\ channel' = channel
    BY <1>2 DEF Enqueue
  <2>. QED
    BY <1>0, <2>1 DEF InChannel
<1>. QED
  BY <1>1, <1>2

\* The engine takes the oldest event.
LEMMA PumpType ==
    ASSUME TypeOK, Pump
    PROVE  /\ channel' \in Seq(Reps) /\ Len(channel') <= ChannelSize
           /\ dirty' = dirty \cup {Head(channel)} /\ Head(channel) \in Reps
           /\ \A q \in Reps : InChannel(q) => q \in dirty' \/ InChannel(q)'
<1>0. channel \in Seq(Reps) /\ Len(channel) <= ChannelSize /\ channel # <<>>
      /\ ChannelSize \in Nat /\ Len(channel) \in Nat
  BY Constants DEF TypeOK, DriftTypeOK, Pump
<1>1. channel' = Tail(channel) /\ dirty' = dirty \cup {Head(channel)}
  BY DEF Pump
<1>2. Head(channel) = channel[1] /\ Head(channel) \in Reps /\ Len(channel) > 0
  BY <1>0
<1>3. channel' \in Seq(Reps) /\ Len(channel') = Len(channel) - 1
      /\ \A i \in 1..Len(channel') : channel'[i] = channel[i + 1]
  BY <1>0, <1>1
<1>4. ASSUME NEW q \in Reps, InChannel(q) PROVE q \in dirty' \/ InChannel(q)'
  <2>1. PICK i \in 1..Len(channel) : channel[i] = q
    BY <1>4 DEF InChannel
  <2>2. CASE i = 1
    BY <1>1, <1>2, <2>1, <2>2
  <2>3. CASE i # 1
    <3>1. i - 1 \in 1..Len(channel') /\ channel'[i - 1] = q
      BY <1>0, <1>3, <2>1, <2>3
    <3>. QED
      BY <3>1 DEF InChannel
  <2>. QED
    BY <2>2, <2>3
<1>. QED
  BY <1>0, <1>1, <1>2, <1>3, <1>4

\* The runtime, the engine and the environment.
RestTypes ==
    /\ wanted \in BOOLEAN /\ spokeUp \in BOOLEAN
    /\ up \in BOOLEAN /\ hooks \in BOOLEAN /\ told \in {"nothing", "ready", "gone"}
    /\ ~raced
    /\ spoke \in [Reps -> {"absent", "good", "edited"}]
    /\ dirty \subseteq Reps
    /\ budget \in 0..MaxDisturbances

\* The two parts of TypeOK.
LEMMA TypeParts ==
    /\ TypeOK => DriftTypeOK /\ RestTypes
    /\ DriftTypeOK' /\ RestTypes' => TypeOK'
BY DEF TypeOK, RestTypes

\* The steps of the runtime keep the types.
LEMMA RuntimeTypes ==
    ASSUME TypeOK, TasksOK,
           StartRuntime \/ HooksReturn \/ StopRuntime \/ GoneHooks \/ RuntimeFails
    PROVE  DriftTypeOK' /\ RestTypes' /\ TasksOK'
<1>0. DriftTypeOK /\ RestTypes
  BY TypeParts
<1>1. CASE StartRuntime
  <2>1. PICK c \in Caches : NewCache(c) /\ goOn("life", [idle EXCEPT !.pc = "ready", !.cache = c])
    BY <1>1 DEF StartRuntime
  <2>2. caches' \in [Caches -> {"none", "new", "running", "stopped"}]
    BY <1>0, <2>1 DEF DriftTypeOK, NewCache
  <2>3. task' \in [Threads -> Tasks] /\ TasksOK'
    <3>. DEFINE q == [idle EXCEPT !.pc = "ready", !.cache = c]
    <3>1. TaskOK(q) /\ goOn("life", q)
      BY <2>1, FirstFields
    <3>. HIDE DEF q
    <3>. QED
      BY <1>0, <3>1, GoOn, Constants DEF DriftTypeOK
  <2>4. DriftTypeOK'
    BY <1>0, <1>1, <2>2, <2>3 DEF StartRuntime, DriftTypeOK, detectorVars
  <2>5. up' \in BOOLEAN /\ hooks' \in BOOLEAN /\ told' = "ready"
    BY <1>1 DEF StartRuntime, Runtime!StartUp
  <2>6. RestTypes'
    BY <1>0, <1>1, <2>5 DEF StartRuntime, RestTypes, outsideVars, engineVars
  <2>. QED
    BY <2>3, <2>4, <2>6
<1>2. CASE HooksReturn
  <2>1. hooks' \in BOOLEAN /\ UNCHANGED <<up, told>>
    BY <1>2 DEF HooksReturn, Runtime!HooksReturn
  <2>2. DriftTypeOK' /\ TasksOK'
    BY <1>0, <1>2 DEF HooksReturn, driftVars, DriftTypeOK, TasksOK, TaskOK
  <2>3. RestTypes'
    BY <1>0, <1>2, <2>1 DEF HooksReturn, RestTypes, outsideVars, engineVars
  <2>. QED
    BY <2>2, <2>3
<1>3. CASE StopRuntime \/ RuntimeFails
  <2>0. Stop
    BY <1>3 DEF StopRuntime, RuntimeFails
  <2>1. up /\ up' \in BOOLEAN /\ UNCHANGED <<hooks, told, raced, spoke, dirty>>
    BY <2>0 DEF Stop, Runtime!Stop, engineVars
  <2>2. budget' \in 0..MaxDisturbances
    <3>1. CASE StopRuntime
      BY <1>0, <3>1 DEF StopRuntime, outsideVars, RestTypes
    <3>2. CASE RuntimeFails
      BY <1>0, <3>2, Constants DEF RuntimeFails, Disturb, RestTypes
    <3>. QED
      BY <1>3, <3>1, <3>2
  <2>3. UNCHANGED <<wanted, spokeUp>>
    BY <1>3 DEF StopRuntime, RuntimeFails, outsideVars
  <2>4. RestTypes'
    BY <1>0, <2>1, <2>2, <2>3 DEF RestTypes
  <2>5. caches' = [caches EXCEPT ![ownCache] = "stopped"] /\ unseen' \subseteq unseen
        /\ handlers' \subseteq handlers
        /\ UNCHANGED <<informers, detectorVars, task, channel, dropped>>
    BY <2>0 DEF Stop, StopCache
  <2>6. caches' \in [Caches -> {"none", "new", "running", "stopped"}]
    BY <1>0, <2>5 DEF DriftTypeOK
  <2>7. DriftTypeOK' /\ TasksOK'
    BY <1>0, <2>5, <2>6 DEF DriftTypeOK, detectorVars, TasksOK, TaskOK
  <2>. QED
    BY <2>4, <2>7
<1>4. CASE GoneHooks
  <2>1. task' \in [Threads -> Tasks] /\ TasksOK'
    <3>. DEFINE q == [idle EXCEPT !.pc = "gone"]
    <3>1. TaskOK(q) /\ goOn("handler", q)
      BY <1>4, FirstFields DEF GoneHooks
    <3>. HIDE DEF q
    <3>. QED
      BY <1>0, <3>1, GoOn, Constants DEF DriftTypeOK
  <2>2. DriftTypeOK'
    BY <1>0, <1>4, <2>1 DEF GoneHooks, DriftTypeOK, detectorVars
  <2>3. told' = "gone" /\ UNCHANGED <<up, hooks>>
    BY <1>4 DEF GoneHooks, Runtime!Gone
  <2>4. RestTypes'
    BY <1>0, <1>4, <2>3 DEF GoneHooks, RestTypes, outsideVars, engineVars
  <2>. QED
    BY <2>1, <2>2, <2>4
<1>. QED
  BY <1>1, <1>2, <1>3, <1>4

\* So do those of the detector and of the informers.
LEMMA DetectorTypes ==
    ASSUME TypeOK, TasksOK,
           \/ \E t \in Threads : (Silent(t) \/ enqueueForCluster(t)) /\ UNCHANGED rest
           \/ Observe
           \/ \E c \in Caches : CacheRuns(c) \/ \E k \in Kinds : InformerSyncs(<<c, k>>)
    PROVE  DriftTypeOK' /\ RestTypes' /\ TasksOK'
<1>0. DriftTypeOK /\ RestTypes
  BY TypeParts
<1>1. RestTypes'
  <2>1. UNCHANGED <<runtimeVars, outsideVars, engineVars>>
    BY DEF rest, Observe, CacheRuns, InformerSyncs
  <2>. QED
    BY <1>0, <2>1 DEF RestTypes, runtimeVars, outsideVars, engineVars
<1>2. ASSUME NEW t \in Threads, Silent(t) PROVE DriftTypeOK' /\ TasksOK'
  <2>1. task' \in [Threads -> Tasks] /\ TasksOK'
    BY <1>0, <1>2, SilentTask, GoOn DEF DriftTypeOK
  <2>. QED
    BY <1>0, <1>2, <2>1, SilentTypes DEF DriftTypeOK
<1>3. ASSUME NEW t \in Threads, enqueueForCluster(t) PROVE DriftTypeOK' /\ TasksOK'
  <2>1. PICK r \in task[t].keys : Enqueue(r) /\ goOn(t, enqueueing(task[t].keys \ {r}))
    BY <1>3 DEF enqueueForCluster
  <2>2. task[t].keys \subseteq Reps
    BY DEF TasksOK, TaskOK, Tasks
  <2>3. task' \in [Threads -> Tasks] /\ TasksOK'
    BY <1>0, <2>1, <2>2, EnqueueingFields, GoOn DEF DriftTypeOK
  <2>4. channel' \in Seq(Reps) /\ Len(channel') <= ChannelSize /\ dropped' \subseteq Reps
    BY <2>1, <2>2, EnqueueType
  <2>. QED
    BY <1>0, <1>3, <2>3, <2>4 DEF enqueueForCluster, cacheVars, detectorVars, DriftTypeOK
<1>4. ASSUME Observe PROVE DriftTypeOK' /\ TasksOK'
  <2>1. PICK u \in unseen : Enqueue(u[2]) /\ unseen' = unseen \ {u}
    BY <1>4 DEF Observe, observe
  <2>2. u[2] \in Reps
    BY <1>0 DEF DriftTypeOK
  <2>3. channel' \in Seq(Reps) /\ Len(channel') <= ChannelSize /\ dropped' \subseteq Reps
    BY <2>1, <2>2, EnqueueType
  <2>4. UNCHANGED <<caches, informers, handlers, detectorVars, task>>
    BY <1>4 DEF Observe, observe
  <2>. QED
    BY <1>0, <2>1, <2>3, <2>4 DEF detectorVars, DriftTypeOK, TasksOK, TaskOK
<1>5. ASSUME NEW c \in Caches, CacheRuns(c) PROVE DriftTypeOK' /\ TasksOK'
  <2>1. caches' \in [Caches -> {"none", "new", "running", "stopped"}]
    BY <1>0, <1>5 DEF CacheRuns, StartCache, DriftTypeOK
  <2>. QED
    BY <1>0, <1>5, <2>1 DEF CacheRuns, StartCache, detectorVars, DriftTypeOK, TasksOK, TaskOK
<1>6. ASSUME NEW c \in Caches, NEW k \in Kinds, InformerSyncs(<<c, k>>)
      PROVE  DriftTypeOK' /\ TasksOK'
  <2>. DEFINE i == <<c, k>>
  <2>1. i \in Caches \X Kinds /\ SyncInformer(i, there)
    BY <1>6 DEF InformerSyncs
  <2>. HIDE DEF i
  <2>2. informers' \in [Caches \X Kinds -> {"none", "asked", "synced"}]
    BY <1>0, <2>1 DEF SyncInformer, DriftTypeOK
  <2>3. unseen' \subseteq unseen \cup replay(i, there)
    BY <2>1 DEF SyncInformer
  <2>4. unseen' \subseteq Caches \X Reps
    BY <1>0, <2>1, <2>3, ToldTypes DEF DriftTypeOK
  <2>. QED
    BY <1>0, <2>1, <2>2, <2>4 DEF SyncInformer, detectorVars, DriftTypeOK, TasksOK, TaskOK
<1>. QED
  BY <1>1, <1>2, <1>3, <1>4, <1>5, <1>6

\* And those of the engine and of the environment.
LEMMA EngineTypes ==
    ASSUME TypeOK, TasksOK,
           \/ Pump \/ \E r \in Reps : Reconcile(r)
           \/ ChangeFleet \/ ChangeLink \/ ChangeReplica \/ CreateReplication
           \/ UNCHANGED vars
    PROVE  DriftTypeOK' /\ RestTypes' /\ TasksOK'
<1>0. DriftTypeOK /\ RestTypes
  BY TypeParts
<1>1. ASSUME UNCHANGED driftVars PROVE DriftTypeOK' /\ TasksOK'
  BY <1>0, <1>1 DEF driftVars, DriftTypeOK, TasksOK, TaskOK
<1>2. \A kind : Disturb(kind) => budget' \in 0..MaxDisturbances
  BY <1>0, Constants DEF Disturb, RestTypes
<1>3. CASE Pump
  <2>1. DriftTypeOK' /\ TasksOK'
    BY <1>0, <1>3, PumpType DEF Pump, cacheVars, detectorVars, DriftTypeOK, TasksOK, TaskOK
  <2>2. RestTypes'
    BY <1>0, <1>3, PumpType DEF Pump, RestTypes, runtimeVars, outsideVars
  <2>. QED
    BY <2>1, <2>2
<1>4. ASSUME NEW r \in Reps, Reconcile(r) PROVE DriftTypeOK' /\ RestTypes' /\ TasksOK'
  <2>1. task' \in [Threads -> Tasks] /\ TasksOK'
    <3>. DEFINE q == [idle EXCEPT !.pc = "ensure", !.kind = KindOf[r]]
    <3>1. TaskOK(q) /\ goOn("worker", q)
      BY <1>4, FirstFields, Constants DEF Reconcile
    <3>. HIDE DEF q
    <3>. QED
      BY <1>0, <3>1, GoOn, Constants DEF DriftTypeOK
  <2>2. unseen' \subseteq Caches \X Reps
    <3>1. unseen' \subseteq unseen \cup told_of(r)
      BY <1>4 DEF Reconcile
    <3>. QED
      BY <1>0, <3>1, ToldTypes DEF DriftTypeOK
  <2>3. DriftTypeOK'
    BY <1>0, <1>4, <2>1, <2>2 DEF Reconcile, detectorVars, DriftTypeOK
  <2>4. spoke' \in [Reps -> {"absent", "good", "edited"}]
    BY <1>0, <1>4 DEF Reconcile, RestTypes
  <2>5. RestTypes'
    BY <1>0, <1>4, <2>4 DEF Reconcile, RestTypes, runtimeVars, outsideVars
  <2>. QED
    BY <2>1, <2>3, <2>5
<1>5. CASE ChangeFleet
  <2>1. wanted' \in BOOLEAN /\ budget' \in 0..MaxDisturbances
    BY <1>2, <1>5 DEF ChangeFleet
  <2>2. RestTypes'
    BY <1>0, <1>5, <2>1 DEF ChangeFleet, RestTypes, runtimeVars, engineVars
  <2>. QED
    BY <1>1, <1>5, <2>2 DEF ChangeFleet
<1>6. CASE ChangeLink
  <2>1. spokeUp' \in BOOLEAN /\ budget' \in 0..MaxDisturbances
    BY <1>2, <1>6 DEF ChangeLink
  <2>2. RestTypes'
    BY <1>0, <1>6, <2>1 DEF ChangeLink, RestTypes, runtimeVars, engineVars
  <2>. QED
    BY <1>1, <1>6, <2>2 DEF ChangeLink
<1>7. CASE ChangeReplica
  <2>1. PICK r \in there, state \in {"edited", "absent"} :
            /\ spoke' = [spoke EXCEPT ![r] = state]
            /\ unseen' = unseen \cup told_of(r)
            /\ dropped' = IF state = "absent" /\ told_of(r) = {} THEN dropped \cup {r} ELSE dropped
    BY <1>7 DEF ChangeReplica
  <2>2. r \in Reps /\ told_of(r) \subseteq Caches \X Reps
    BY ToldTypes
  <2>3. spoke' \in [Reps -> {"absent", "good", "edited"}]
    BY <1>0, <2>1 DEF RestTypes
  <2>4. unseen' \subseteq Caches \X Reps /\ dropped' \subseteq Reps
    BY <1>0, <2>1, <2>2 DEF DriftTypeOK
  <2>5. budget' \in 0..MaxDisturbances
    BY <1>2, <1>7 DEF ChangeReplica
  <2>6. DriftTypeOK' /\ TasksOK'
    BY <1>0, <1>7, <2>4 DEF ChangeReplica, detectorVars, DriftTypeOK, TasksOK, TaskOK
  <2>7. RestTypes'
    BY <1>0, <1>7, <2>3, <2>5 DEF ChangeReplica, RestTypes, runtimeVars
  <2>. QED
    BY <2>6, <2>7
<1>8. CASE CreateReplication
  <2>1. budget' \in 0..MaxDisturbances
    BY <1>2, <1>8 DEF CreateReplication
  <2>2. DriftTypeOK' /\ TasksOK'
    BY <1>0, <1>8 DEF CreateReplication, cacheVars, DriftTypeOK, TasksOK, TaskOK
  <2>3. RestTypes'
    BY <1>0, <1>8, <2>1 DEF CreateReplication, RestTypes, runtimeVars
  <2>. QED
    BY <2>2, <2>3
<1>9. CASE UNCHANGED vars
  BY <1>0, <1>1, <1>9 DEF vars, RestTypes, runtimeVars, outsideVars, engineVars
<1>. QED
  BY <1>3, <1>4, <1>5, <1>6, <1>7, <1>8, <1>9

\* Types are kept.
LEMMA TypeStep ==
    ASSUME TypeOK, TasksOK, HookOK, [Next]_vars
    PROVE  TypeOK' /\ TasksOK'
BY Steps, RuntimeTypes, DetectorTypes, EngineTypes, TypeParts

-----------------------------------------------------------------------------
\* The runtime and its threads

\* A runtime that works has a cache.
LEMMA OwnCache ==
    ASSUME LiveOK, up
    PROVE  ownCache \in Caches /\ Live(ownCache)
BY DEF LiveOK, Live, ownCache

\* One cache is in use while the runtime works, and none otherwise.
LEMMA LiveStep ==
    ASSUME TypeOK, TasksOK, LiveOK, HookOK, [Next]_vars
    PROVE  LiveOK'
<1>0. caches \in [Caches -> {"none", "new", "running", "stopped"}]
  BY DEF TypeOK, DriftTypeOK
<1>1. ASSUME UNCHANGED <<caches, up>> PROVE LiveOK'
  BY <1>1 DEF LiveOK, Live
<1>2. CASE \E t \in Threads : (Silent(t) \/ enqueueForCluster(t)) /\ UNCHANGED rest
  <2>1. UNCHANGED <<caches, up>>
    BY <1>2, SilentTypes DEF enqueueForCluster, cacheVars, rest, runtimeVars
  <2>. QED
    BY <1>1, <2>1
<1>3. CASE StartRuntime
  <2>1. PICK c \in Caches : NewCache(c)
    BY <1>3 DEF StartRuntime
  <2>2. ~up /\ up'
    BY <1>3 DEF StartRuntime, Runtime!StartUp
  <2>3. \A d \in Caches : ~Live(d)
    BY <2>2 DEF LiveOK
  <2>4. caches'[c] = "new" /\ \A d \in Caches \ {c} : caches'[d] = caches[d]
    BY <1>0, <2>1 DEF NewCache
  <2>5. \A d \in Caches : Live(d)' <=> d = c
    BY <2>3, <2>4 DEF Live
  <2>. QED
    BY <2>2, <2>5 DEF LiveOK
<1>4. CASE StopRuntime \/ RuntimeFails
  <2>1. up /\ ~up' /\ caches' = [caches EXCEPT ![ownCache] = "stopped"]
    BY <1>4 DEF StopRuntime, RuntimeFails, Stop, Runtime!Stop, StopCache
  <2>2. ownCache \in Caches /\ Live(ownCache)
    BY <2>1, OwnCache
  <2>3. caches'[ownCache] = "stopped" /\ \A d \in Caches \ {ownCache} : caches'[d] = caches[d]
    BY <1>0, <2>1, <2>2
  <2>4. \A d \in Caches : ~Live(d)'
    BY <2>2, <2>3 DEF LiveOK, Live
  <2>. QED
    BY <2>1, <2>4 DEF LiveOK
<1>5. CASE \E c \in Caches : CacheRuns(c)
  <2>1. PICK c \in Caches : CacheRuns(c)
    BY <1>5
  <2>2. /\ caches[c] = "new" /\ caches'[c] = "running" /\ up' = up
        /\ \A d \in Caches \ {c} : caches'[d] = caches[d]
    BY <1>0, <2>1 DEF CacheRuns, StartCache, runtimeVars
  <2>3. \A d \in Caches : Live(d)' <=> Live(d)
    BY <2>2 DEF Live
  <2>. QED
    BY <2>2, <2>3 DEF LiveOK
<1>6. CASE HooksReturn \/ GoneHooks \/ Observe \/ Pump \/ ChangeFleet \/ ChangeLink
           \/ ChangeReplica \/ CreateReplication \/ UNCHANGED vars
  <2>1. UNCHANGED <<caches, up>>
    BY <1>6 DEF HooksReturn, Runtime!HooksReturn, GoneHooks, Runtime!Gone, Observe, observe, Pump,
       ChangeFleet, ChangeLink, ChangeReplica, CreateReplication, vars, driftVars, runtimeVars,
       cacheVars
  <2>. QED
    BY <1>1, <2>1
<1>7. CASE \E c \in Caches, k \in Kinds : InformerSyncs(<<c, k>>)
  BY <1>1, <1>7 DEF InformerSyncs, SyncInformer, runtimeVars
<1>8. CASE \E r \in Reps : Reconcile(r)
  BY <1>1, <1>8 DEF Reconcile, runtimeVars
<1>. QED
  BY <1>2, <1>3, <1>4, <1>5, <1>6, <1>7, <1>8, Steps

\* A thread that takes a step is at work, except for Start.
LEMMA AtWork ==
    ASSUME TypeOK, TasksOK, NEW t \in Threads, Silent(t) \/ enqueueForCluster(t)
    PROVE  /\ ~Idling(t) \/ (t = "start" /\ started')
           /\ \A s \in Threads \ {t} : task'[s] = task[s]
           /\ started => started'
<1>1. task \in [Threads -> Tasks]
  BY DEF TypeOK, DriftTypeOK
<1>2. CASE Silent(t)
  <2>1. \A s \in Threads \ {t} : task'[s] = task[s]
    BY <1>1, <1>2, SilentTask, GoOn
  <2>2. ~Idling(t) \/ (t = "start" /\ started')
    BY <1>2 DEF Silent, ClusterReady, ClusterGone, EnsureWatch, installAll, install, GetInformer,
       InformerFails, Mark, Start, Idling
  <2>3. started => started'
    BY <1>2 DEF Silent, ClusterReady, ClusterGone, EnsureWatch, installAll, install, GetInformer,
       InformerFails, Mark, Start, detectorVars
  <2>. QED
    BY <2>1, <2>2, <2>3
<1>3. CASE enqueueForCluster(t)
  <2>1. \E q : task' = [task EXCEPT ![t] = q]
    BY <1>3 DEF enqueueForCluster, goOn
  <2>2. \A s \in Threads \ {t} : task'[s] = task[s]
    BY <1>1, <2>1
  <2>. QED
    BY <1>3, <2>2 DEF enqueueForCluster, Idling, detectorVars
<1>. QED
  BY <1>2, <1>3

\* Hooks run one at a time, in their own thread.
LEMMA HookStep ==
    ASSUME TypeOK, TasksOK, HookOK, [Next]_vars
    PROVE  HookOK'
<1>0. task \in [Threads -> Tasks]
  BY DEF TypeOK, DriftTypeOK
<1>. USE Constants
<1>1. ASSUME UNCHANGED <<task, hooks, wanted, told, started>> PROVE HookOK'
  BY <1>1 DEF HookOK, Idling
<1>2. CASE \E t \in Threads : (Silent(t) \/ enqueueForCluster(t)) /\ UNCHANGED rest
  <2>1. PICK t \in Threads : (Silent(t) \/ enqueueForCluster(t)) /\ UNCHANGED rest
    BY <1>2
  <2>2. UNCHANGED <<hooks, wanted, told>>
    BY <2>1 DEF rest, runtimeVars, outsideVars
  <2>. QED
    BY <2>1, <2>2, AtWork DEF HookOK, Idling
<1>3. CASE StartRuntime
  <2>1. /\ wanted /\ wanted' /\ hooks' /\ started' = started
        /\ \E q : task' = [task EXCEPT !["life"] = q]
    BY <1>3 DEF StartRuntime, Runtime!StartUp, goOn, outsideVars, detectorVars
  <2>2. task'["handler"] = task["handler"] /\ task'["start"] = task["start"]
    BY <1>0, <2>1
  <2>. QED
    BY <2>1, <2>2 DEF HookOK, Idling
<1>4. CASE HooksReturn
  <2>1. Idling("life") /\ UNCHANGED <<task, started, wanted, told>>
    BY <1>4 DEF HooksReturn, Runtime!HooksReturn, driftVars, outsideVars
  <2>. QED
    BY <2>1 DEF HookOK, Idling
<1>5. CASE StopRuntime \/ RuntimeFails
  <2>1. UNCHANGED <<task, hooks, wanted, told, started>>
    BY <1>5 DEF StopRuntime, RuntimeFails, Stop, Runtime!Stop, outsideVars, detectorVars
  <2>. QED
    BY <1>1, <2>1
<1>6. CASE GoneHooks
  <2>1. /\ ~wanted /\ wanted' = wanted /\ told' = "gone" /\ UNCHANGED <<hooks, started>>
        /\ \E q : task' = [task EXCEPT !["handler"] = q]
    BY <1>6 DEF GoneHooks, Runtime!Gone, goOn, outsideVars, detectorVars
  <2>2. task'["life"] = task["life"] /\ task'["start"] = task["start"]
    BY <1>0, <2>1
  <2>. QED
    BY <2>1, <2>2 DEF HookOK, Idling
<1>7. CASE ChangeFleet
  <2>1. Idling("handler") /\ UNCHANGED <<task, hooks, started>>
    BY <1>7 DEF ChangeFleet, HookOK, driftVars, runtimeVars
  <2>. QED
    BY <2>1 DEF HookOK, Idling
<1>8. CASE Observe \/ Pump \/ ChangeLink \/ ChangeReplica \/ CreateReplication \/ UNCHANGED vars
  <2>1. UNCHANGED <<task, hooks, wanted, told, started>>
    BY <1>8 DEF Observe, observe, Pump, ChangeLink, ChangeReplica, CreateReplication, vars,
       driftVars, runtimeVars, outsideVars, detectorVars
  <2>. QED
    BY <1>1, <2>1
<1>9. CASE \E c \in Caches : CacheRuns(c) \/ \E k \in Kinds : InformerSyncs(<<c, k>>)
  <2>1. UNCHANGED <<task, hooks, wanted, told, started>>
    BY <1>9 DEF CacheRuns, StartCache, InformerSyncs, SyncInformer, runtimeVars, outsideVars,
       detectorVars
  <2>. QED
    BY <1>1, <2>1
<1>10. CASE \E r \in Reps : Reconcile(r)
  <2>1. UNCHANGED <<hooks, wanted, told, started>> /\ \E q : task' = [task EXCEPT !["worker"] = q]
    BY <1>10 DEF Reconcile, goOn, runtimeVars, outsideVars, detectorVars
  <2>2. /\ task'["life"] = task["life"] /\ task'["start"] = task["start"]
        /\ task'["handler"] = task["handler"]
    BY <1>0, <2>1
  <2>. QED
    BY <2>1, <2>2 DEF HookOK, Idling
<1>. QED
  BY <1>2, <1>3, <1>4, <1>5, <1>6, <1>7, <1>8, <1>9, <1>10, Steps

-----------------------------------------------------------------------------
\* No kind is forgotten

\* It is enough that no thread gives up a kind of the cluster's cache.
LEMMA KindsCarried ==
    ASSUME KindsKept, UNCHANGED <<started, clusters, gvks>>, watched \subseteq watched',
           clusters # 0 /\ caches'[clusters] # "stopped" => caches[clusters] # "stopped",
           caches[clusters] # "stopped" =>
               \A t \in Threads, k \in gvks :
                   Installs(task[t], clusters, k) => k \in watched' \/ Installs(task'[t], clusters, k)
    PROVE  KindsKept'
<1>. SUFFICES ASSUME started', clusters' # 0, caches'[clusters'] # "stopped", NEW k \in gvks'
              PROVE  k \in watched' \/ \E t \in Threads : Installs(task'[t], clusters', k)
  BY DEF KindsKept, Installs
<1>1. caches[clusters] # "stopped" /\ started /\ clusters # 0 /\ k \in gvks
  OBVIOUS
<1>2. k \in watched \/ \E t \in Threads : Installs(task[t], clusters, k)
  BY <1>1 DEF KindsKept
<1>. QED
  BY <1>1, <1>2

\* A thread's step gives up no kind.
LEMMA SilentKinds ==
    ASSUME TypeOK, TasksOK, KindsKept, NEW t \in Threads, Silent(t)
    PROVE  KindsKept'
<1>0. /\ reps \subseteq Reps /\ gvks \subseteq Kinds /\ TaskOK(task[t]) /\ clusters \in Caches \cup {0}
      /\ task \in [Threads -> Tasks]
  BY DEF TypeOK, DriftTypeOK, TasksOK
<1>1. caches' = caches
  BY SilentTypes
<1>2. ASSUME NEW q, TaskOK(q), goOn(t, q) PROVE task'[t] = q /\ \A s \in Threads \ {t} : task'[s] = task[s]
  BY <1>0, <1>2, GoOn
<1>3. ASSUME NEW c \in Caches, NEW h \in BOOLEAN, goOn(t, installingAll(c, h)), clusters' = c
      PROVE  KindsKept'
  <2>. DEFINE q == installingAll(c, h)
  <2>0. TaskOK(q) /\ q.pc = "all" /\ q.cache = c
    BY InstallAllFields
  <2>. HIDE DEF q
  <2>1. \A k : Installs(task'[t], c, k)
    BY <1>2, <1>3, <2>0 DEF Installs, Busy, q
  <2>. QED
    BY <1>3, <2>1 DEF KindsKept, Installs
<1>4. CASE ClusterReady(t)
  <2>1. task[t].cache \in Caches
    BY <1>0, <1>4 DEF ClusterReady, TaskOK
  <2>2. CASE started
    BY <1>3, <1>4, <2>1, <2>2 DEF ClusterReady
  <2>3. CASE ~started
    BY <1>4, <2>3 DEF ClusterReady, KindsKept
  <2>. QED
    BY <2>2, <2>3
<1>5. CASE ClusterGone(t)
  BY <1>5 DEF ClusterGone, KindsKept
<1>6. CASE EnsureWatch(t)
  <2>1. /\ UNCHANGED <<started, clusters, watched>> /\ gvks' = gvks \cup {task[t].kind}
        /\ task[t].kind \in Kinds /\ task[t].pc = "ensure"
    BY <1>0, <1>6 DEF EnsureWatch, TaskOK
  <2>. SUFFICES ASSUME started, clusters # 0, caches[clusters] # "stopped", NEW k \in gvks'
                PROVE  k \in watched \/ \E s \in Threads : Installs(task'[s], clusters, k)
    BY <1>1, <2>1 DEF KindsKept, Installs
  <2>2. \A s \in Threads \ {t} : task'[s] = task[s]
    BY AtWork
  <2>3. CASE k \in gvks
    <3>1. ~Installs(task[t], clusters, k)
      BY <2>1 DEF Installs, Busy
    <3>. QED
      BY <2>2, <2>3, <3>1 DEF KindsKept
  <2>4. CASE k = task[t].kind /\ k \notin watched
    <3>. DEFINE q == [idle EXCEPT !.pc = "install", !.cache = clusters, !.todo = {k}]
    <3>0. clusters \in Caches /\ k \in Kinds
      BY <1>0, <2>1, <2>4
    <3>1. TaskOK(q) /\ q.pc = "install" /\ q.cache = clusters /\ q.todo = {k}
      BY <3>0, IdleFields DEF Tasks, TaskOK, Busy
    <3>2. goOn(t, q)
      BY <1>6, <2>4 DEF EnsureWatch
    <3>. HIDE DEF q
    <3>3. task'[t] = q
      BY <1>2, <3>1, <3>2
    <3>. QED
      BY <3>1, <3>3 DEF Installs, Busy
  <2>. QED
    BY <2>1, <2>3, <2>4
<1>7. ASSUME NEW q, TaskOK(q), goOn(t, q), UNCHANGED <<started, clusters, gvks>>,
             watched \subseteq watched',
             caches[clusters] # "stopped" /\ clusters # 0 =>
                 \A k \in gvks : Installs(task[t], clusters, k) => k \in watched' \/ Installs(q, clusters, k)
      PROVE  KindsKept'
  <2>1. CASE clusters = 0
    BY <1>7, <2>1 DEF KindsKept
  <2>2. CASE clusters # 0
    <3>1. ASSUME caches[clusters] # "stopped", NEW s \in Threads, NEW k \in gvks,
                 Installs(task[s], clusters, k)
          PROVE  k \in watched' \/ Installs(task'[s], clusters, k)
      <4>1. task'[t] = q /\ \A r \in Threads \ {t} : task'[r] = task[r]
        BY <1>2, <1>7
      <4>2. CASE s = t
        BY <1>7, <2>2, <3>1, <4>1, <4>2
      <4>3. CASE s # t
        BY <3>1, <4>1, <4>3
      <4>. QED
        BY <4>2, <4>3
    <3>. QED
      BY <1>1, <1>7, <3>1, KindsCarried
  <2>. QED
    BY <2>1, <2>2
<1>8. CASE install(t)
  <2>1. PICK k \in task[t].todo :
            \/ k \in watched /\ goOn(t, proceed(t, k))
            \/ goOn(t, [task[t] EXCEPT !.pc = "inform", !.kind = k])
    BY <1>8 DEF install
  <2>2. task[t].pc = "install" /\ UNCHANGED <<started, clusters, gvks, watched>>
    BY <1>8 DEF install, detectorVars
  <2>3. CASE k \in watched /\ goOn(t, proceed(t, k))
    <3>1. /\ TaskOK(proceed(t, k))
          /\ \A c, j : Installs(task[t], c, j) /\ j # k => Installs(proceed(t, k), c, j)
      BY <1>0, <2>2, ProceedFields DEF Busy
    <3>. QED
      BY <1>7, <2>2, <2>3, <3>1
  <2>4. CASE goOn(t, [task[t] EXCEPT !.pc = "inform", !.kind = k])
    <3>. DEFINE q == [task[t] EXCEPT !.pc = "inform", !.kind = k]
    <3>1. TaskOK(q) /\ q.pc = "inform" /\ q.cache = task[t].cache /\ q.todo = task[t].todo
      BY <1>0, <2>2, InformFields
    <3>. HIDE DEF q
    <3>2. goOn(t, q)
      BY <2>4 DEF q
    <3>3. \A j : Installs(task[t], clusters, j) => Installs(q, clusters, j)
      BY <2>2, <3>1 DEF Installs, Busy
    <3>. QED
      BY <1>7, <2>2, <3>1, <3>2, <3>3
  <2>. QED
    BY <2>1, <2>3, <2>4
<1>9. CASE GetInformer(t, there)
  <2>. DEFINE q == [task[t] EXCEPT !.pc = "mark"]
  <2>1. task[t].pc = "inform" /\ goOn(t, q) /\ UNCHANGED <<started, clusters, gvks, watched>>
    BY <1>9 DEF GetInformer, detectorVars
  <2>2. TaskOK(q) /\ q.pc = "mark" /\ q.cache = task[t].cache /\ q.todo = task[t].todo
    BY <1>0, <2>1, InformFields
  <2>. HIDE DEF q
  <2>3. \A j : Installs(task[t], clusters, j) => Installs(q, clusters, j)
    BY <2>1, <2>2 DEF Installs, Busy
  <2>. QED
    BY <1>7, <2>1, <2>2, <2>3
<1>10. CASE InformerFails(t) \/ Mark(t)
  <2>. DEFINE k == task[t].kind
  <2>1. task[t].pc \in Busy \ {"all"} /\ goOn(t, proceed(t, k)) /\ UNCHANGED <<started, clusters, gvks>>
    BY <1>10 DEF InformerFails, Mark, Busy, detectorVars
  <2>2. /\ TaskOK(proceed(t, k))
        /\ \A c, j : Installs(task[t], c, j) /\ j # k => Installs(proceed(t, k), c, j)
    BY <1>0, <2>1, ProceedFields
  <2>3. watched \subseteq watched'
    BY <1>10 DEF InformerFails, Mark, detectorVars
  <2>4. caches[clusters] # "stopped" /\ clusters # 0 =>
            k \in watched' \/ \A j : ~Installs(task[t], clusters, j)
    BY <1>10 DEF InformerFails, Mark, Installs
  <2>. QED
    BY <1>7, <2>1, <2>2, <2>3, <2>4
<1>11. CASE t = "start" /\ Idling(t) /\ Start(t)
  <2>1. CASE clusters # 0
    <3>1. goOn(t, installingAll(clusters, FALSE)) /\ clusters \in Caches /\ UNCHANGED clusters
      BY <1>0, <1>11, <2>1 DEF Start
    <3>. QED
      BY <1>3, <3>1
  <2>2. CASE clusters = 0
    BY <1>11, <2>2 DEF Start, KindsKept
  <2>. QED
    BY <2>1, <2>2
<1>12. CASE installAll(t)
  <2>1. task[t].pc = "all" /\ UNCHANGED <<started, clusters, gvks, watched>>
        /\ task[t].hook \in BOOLEAN
    BY <1>0, <1>12 DEF installAll, detectorVars, TaskOK, Tasks
  <2>2. CASE gvks = {}
    BY <2>1, <2>2 DEF KindsKept
  <2>3. CASE gvks # {}
    <3>. DEFINE q == [task[t] EXCEPT !.pc = "install", !.todo = gvks]
    <3>1. goOn(t, q)
      BY <1>12, <2>3 DEF installAll
    <3>2. TaskOK(q) /\ q.pc = "install" /\ q.cache = task[t].cache /\ q.todo = gvks
      BY <1>0, <2>1, InstallAllFields
    <3>. HIDE DEF q
    <3>3. \A k \in gvks : Installs(task[t], clusters, k) => Installs(q, clusters, k)
      BY <3>2 DEF Installs, Busy
    <3>. QED
      BY <1>7, <2>1, <3>1, <3>2, <3>3
  <2>. QED
    BY <2>2, <2>3
<1>. QED
  BY <1>4, <1>5, <1>6, <1>8, <1>9, <1>10, <1>11, <1>12 DEF Silent

\* Hooks and the worker start only in a thread that is idle.
LEMMA OnlyIdle ==
    ASSUME TypeOK, HookOK,
           \/ StartRuntime \/ GoneHooks \/ \E r \in Reps : Reconcile(r)
    PROVE  \E s \in Threads : Idling(s) /\ \A t \in Threads \ {s} : task'[t] = task[t]
<1>0. task \in [Threads -> Tasks]
  BY DEF TypeOK, DriftTypeOK
<1>1. CASE StartRuntime
  <2>1. Idling("life") /\ \E q : task' = [task EXCEPT !["life"] = q]
    BY <1>1 DEF StartRuntime, Runtime!StartUp, HookOK, goOn
  <2>. QED
    BY <1>0, <2>1, Constants
<1>2. CASE GoneHooks
  <2>1. Idling("handler") /\ \E q : task' = [task EXCEPT !["handler"] = q]
    BY <1>2 DEF GoneHooks, HookOK, goOn
  <2>. QED
    BY <1>0, <2>1, Constants
<1>3. CASE \E r \in Reps : Reconcile(r)
  <2>1. Idling("worker") /\ \E q : task' = [task EXCEPT !["worker"] = q]
    BY <1>3 DEF Reconcile, goOn
  <2>. QED
    BY <1>0, <2>1, Constants
<1>. QED
  BY <1>1, <1>2, <1>3

\* Nor does any other step.
LEMMA KindsStep ==
    ASSUME TypeOK, TasksOK, LiveOK, HookOK, KindsKept, [Next]_vars
    PROVE  KindsKept'
<1>0. caches \in [Caches -> {"none", "new", "running", "stopped"}] /\ clusters \in Caches \cup {0}
      /\ task \in [Threads -> Tasks]
  BY DEF TypeOK, DriftTypeOK
<1>1. ASSUME UNCHANGED <<started, clusters, gvks, watched>>,
             \A c \in Caches : caches[c] = "stopped" => caches'[c] = "stopped",
             NEW s \in Threads, task[s].pc \notin Busy, \A t \in Threads \ {s} : task'[t] = task[t]
      PROVE  KindsKept'
  <2>1. \A t \in Threads, k \in gvks :
            Installs(task[t], clusters, k) => Installs(task'[t], clusters, k)
    BY <1>1 DEF Installs
  <2>2. clusters # 0 /\ caches'[clusters] # "stopped" => caches[clusters] # "stopped"
    BY <1>0, <1>1
  <2>. QED
    BY <1>1, <2>1, <2>2, KindsCarried
<1>2. ASSUME UNCHANGED <<started, clusters, gvks, watched, task>>,
             \A c \in Caches : caches[c] = "stopped" => caches'[c] = "stopped"
      PROVE  KindsKept'
  <2>1. clusters # 0 /\ caches'[clusters] # "stopped" => caches[clusters] # "stopped"
    BY <1>0, <1>2
  <2>. QED
    BY <1>2, <2>1, KindsCarried
<1>3. CASE \E t \in Threads : (Silent(t) \/ enqueueForCluster(t)) /\ UNCHANGED rest
  <2>1. PICK t \in Threads : Silent(t) \/ enqueueForCluster(t)
    BY <1>3
  <2>2. CASE enqueueForCluster(t)
    <3>1. UNCHANGED <<started, clusters, gvks, watched, caches>> /\ task[t].pc \notin Busy
      BY <2>2 DEF enqueueForCluster, detectorVars, cacheVars, Busy
    <3>. QED
      BY <1>1, <2>2, <3>1, AtWork
  <2>. QED
    BY <2>1, <2>2, SilentKinds
<1>4. CASE StartRuntime \/ GoneHooks \/ \E r \in Reps : Reconcile(r)
  <2>1. UNCHANGED <<started, clusters, gvks, watched>>
    BY <1>4 DEF StartRuntime, GoneHooks, Reconcile, detectorVars
  <2>2. \A c \in Caches : caches[c] = "stopped" => caches'[c] = "stopped"
    BY <1>0, <1>4 DEF StartRuntime, NewCache, GoneHooks, Reconcile
  <2>3. PICK s \in Threads : Idling(s) /\ \A t \in Threads \ {s} : task'[t] = task[t]
    BY <1>4, OnlyIdle
  <2>. QED
    BY <1>1, <2>1, <2>2, <2>3 DEF Idling, Busy
<1>5. CASE StopRuntime \/ RuntimeFails
  <2>1. UNCHANGED <<started, clusters, gvks, watched, task>>
        /\ caches' = [caches EXCEPT ![ownCache] = "stopped"]
    BY <1>5 DEF StopRuntime, RuntimeFails, Stop, StopCache, detectorVars
  <2>2. \A c \in Caches : caches[c] = "stopped" => caches'[c] = "stopped"
    BY <1>0, <2>1
  <2>. QED
    BY <1>2, <2>1, <2>2
<1>6. CASE \E c \in Caches : CacheRuns(c) \/ \E k \in Kinds : InformerSyncs(<<c, k>>)
  <2>1. UNCHANGED <<started, clusters, gvks, watched, task>>
    BY <1>6 DEF CacheRuns, StartCache, InformerSyncs, SyncInformer, detectorVars
  <2>2. \A c \in Caches : caches[c] = "stopped" => caches'[c] = "stopped"
    BY <1>0, <1>6 DEF CacheRuns, StartCache, InformerSyncs, SyncInformer
  <2>. QED
    BY <1>2, <2>1, <2>2
<1>7. CASE HooksReturn \/ Observe \/ Pump \/ ChangeFleet \/ ChangeLink \/ ChangeReplica
           \/ CreateReplication \/ UNCHANGED vars
  <2>1. UNCHANGED <<started, clusters, gvks, watched, task, caches>>
    BY <1>7 DEF HooksReturn, Observe, observe, Pump, ChangeFleet, ChangeLink, ChangeReplica,
       CreateReplication, vars, driftVars, detectorVars, cacheVars
  <2>. QED
    BY <1>2, <2>1
<1>. QED
  BY <1>3, <1>4, <1>5, <1>6, <1>7, Steps

\* The worker tells the detector of a kind before it does anything else.
LEMMA KnownStep ==
    ASSUME TypeOK, TasksOK, HookOK, ReplicasKnown, [Next]_vars
    PROVE  ReplicasKnown'
<1>0. task \in [Threads -> Tasks] /\ spoke \in [Reps -> {"absent", "good", "edited"}]
  BY DEF TypeOK, DriftTypeOK
<1>. USE Constants
<1>1. ASSUME there' \subseteq there, gvks' = gvks, task'["worker"] = task["worker"]
      PROVE  ReplicasKnown'
  BY <1>1 DEF ReplicasKnown
<1>2. CASE \E t \in Threads : (Silent(t) \/ enqueueForCluster(t)) /\ UNCHANGED rest
  <2>1. PICK t \in Threads : (Silent(t) \/ enqueueForCluster(t)) /\ UNCHANGED rest
    BY <1>2
  <2>2. there' = there
    BY <2>1 DEF rest, engineVars, there
  <2>3. gvks \subseteq gvks'
    BY <2>1 DEF Silent, ClusterReady, ClusterGone, EnsureWatch, installAll, install, GetInformer,
       InformerFails, Mark, Start, enqueueForCluster, detectorVars
  <2>4. CASE t # "worker"
    <3>1. task'["worker"] = task["worker"]
      BY <2>1, <2>4, AtWork
    <3>. QED
      BY <2>2, <2>3, <3>1 DEF ReplicasKnown
  <2>5. CASE t = "worker"
    <3>1. task[t].pc = "ensure" => task[t].kind \in gvks'
      BY <2>1, <2>5 DEF Silent, ClusterReady, ClusterGone, EnsureWatch, installAll, install,
         GetInformer, InformerFails, Mark, enqueueForCluster
    <3>. QED
      BY <2>2, <2>3, <2>5, <3>1 DEF ReplicasKnown
  <2>. QED
    BY <2>4, <2>5
<1>3. CASE StartRuntime \/ GoneHooks
  <2>1. /\ UNCHANGED <<spoke, gvks>>
        /\ \E s \in {"life", "handler"} : \E q : task' = [task EXCEPT ![s] = q]
    BY <1>3 DEF StartRuntime, GoneHooks, goOn, engineVars, detectorVars
  <2>2. task'["worker"] = task["worker"] /\ there' = there
    BY <1>0, <2>1 DEF there
  <2>. QED
    BY <1>1, <2>1, <2>2
<1>4. ASSUME NEW r \in Reps, Reconcile(r) PROVE ReplicasKnown'
  <2>1. /\ there' \subseteq there \cup {r} /\ gvks' = gvks /\ task["worker"].pc = "idle"
        /\ goOn("worker", [idle EXCEPT !.pc = "ensure", !.kind = KindOf[r]])
    BY <1>0, <1>4 DEF Reconcile, there, detectorVars, Idling
  <2>. DEFINE q == [idle EXCEPT !.pc = "ensure", !.kind = KindOf[r]]
  <2>2. q.pc = "ensure" /\ q.kind = KindOf[r] /\ task' = [task EXCEPT !["worker"] = q]
    BY <2>1, FirstFields DEF goOn
  <2>. HIDE DEF q
  <2>3. task'["worker"] = q
    BY <1>0, <2>2
  <2>. QED
    BY <2>1, <2>2, <2>3 DEF ReplicasKnown
<1>5. CASE ChangeReplica
  <2>1. UNCHANGED <<gvks, task>> /\ there' \subseteq there
    BY <1>0, <1>5 DEF ChangeReplica, detectorVars, there
  <2>. QED
    BY <1>1, <2>1
<1>6. CASE \/ HooksReturn \/ StopRuntime \/ RuntimeFails \/ Observe \/ Pump \/ ChangeFleet
           \/ ChangeLink \/ CreateReplication \/ UNCHANGED vars
           \/ \E c \in Caches : CacheRuns(c) \/ \E k \in Kinds : InformerSyncs(<<c, k>>)
  <2>1. UNCHANGED <<gvks, task, spoke>>
    BY <1>6 DEF HooksReturn, StopRuntime, RuntimeFails, Stop, Observe, observe, Pump, ChangeFleet,
       ChangeLink, CreateReplication, CacheRuns, StartCache, InformerSyncs, SyncInformer, vars,
       driftVars, engineVars, detectorVars
  <2>. QED
    BY <1>1, <2>1 DEF there
<1>. QED
  BY <1>2, <1>3, <1>4, <1>5, <1>6, Steps

-----------------------------------------------------------------------------
\* No drift is forgotten

\* What told_of depends on.
LEMMA ToldSame ==
    ASSUME UNCHANGED <<handlers, informers>>,
           \A i \in handlers : caches'[i[1]] # "stopped" <=> caches[i[1]] # "stopped"
    PROVE  \A r : told_of(r)' = told_of(r)
BY DEF told_of

\* Whether anything is told.
LEMMA ToldSome ==
    ASSUME NEW r
    PROVE  /\ told_of(r) # {} <=> \E j \in handlers : KindOf[r] = j[2] /\ informers[j] = "synced"
                                                        /\ caches[j[1]] # "stopped"
           /\ told_of(r)' # {} <=> \E j \in handlers' : KindOf[r] = j[2] /\ informers'[j] = "synced"
                                                        /\ caches'[j[1]] # "stopped"
BY DEF told_of

\* What a handler is told of is unseen until then.
LEMMA ToldUnseen ==
    ASSUME TypeOK, NEW r \in Reps, told_of(r) # {}, told_of(r) \subseteq unseen'
    PROVE  Unseen(r)'
<1>1. PICK j \in handlers : <<j[1], r>> \in told_of(r)
  BY DEF told_of
<1>2. j[1] \in Caches
  BY DEF TypeOK, DriftTypeOK
<1>. QED
  BY <1>1, <1>2 DEF Unseen

\* So is what a new handler or a synced informer is told.
LEMMA ReplayUnseen ==
    ASSUME TypeOK, NEW i \in Caches \X Kinds, NEW r \in there, KindOf[r] = i[2],
           replay(i, there) \subseteq unseen'
    PROVE  Unseen(r)'
<1>1. <<i[1], r>> \in replay(i, there) /\ i[1] \in Caches
  BY DEF replay
<1>. QED
  BY <1>1 DEF Unseen

\* A thread's step keeps what handlers are to be told, and a handler that starts
\* to watch is told of an edited replica.
LEMMA SilentUnseen ==
    ASSUME TypeOK, TasksOK, NEW t \in Threads, Silent(t), UNCHANGED rest
    PROVE  /\ unseen \subseteq unseen'
           /\ \A r \in Reps : Unwatched(r) => Unwatched(r)' \/ Unseen(r)'
<1>0. /\ caches' = caches /\ TaskOK(task[t]) /\ spoke' = spoke
      /\ informers \in [Caches \X Kinds -> {"none", "asked", "synced"}]
      /\ handlers \subseteq Caches \X Kinds
  BY SilentTypes DEF TasksOK, rest, engineVars, TypeOK, DriftTypeOK
<1>1. CASE UNCHANGED <<handlers, informers, unseen>>
  BY <1>0, <1>1, ToldSame DEF Unwatched
<1>2. CASE install(t)
  <2>1. PICK k \in task[t].todo :
            \/ UNCHANGED informers
            \/ informers' = [informers EXCEPT ![<<task[t].cache, k>>] =
                                 IF @ = "none" THEN "asked" ELSE @]
    BY <1>2 DEF install
  <2>. DEFINE i == <<task[t].cache, k>>
  <2>2. i \in Caches \X Kinds
    BY <1>0, <1>2 DEF TaskOK, Tasks, install, Busy
  <2>3. \/ UNCHANGED informers
        \/ informers' = [informers EXCEPT ![i] = IF informers[i] = "none" THEN "asked" ELSE informers[i]]
    BY <2>1
  <2>. HIDE DEF i
  <2>4. \A j \in Caches \X Kinds : informers'[j] = "synced" <=> informers[j] = "synced"
    BY <1>0, <2>2, <2>3
  <2>5. UNCHANGED <<handlers, unseen>>
    BY <1>2 DEF install
  <2>6. \A r \in Reps : told_of(r)' # {} => told_of(r) # {}
    BY <1>0, <2>4, <2>5, ToldSome
  <2>. QED
    BY <1>0, <2>5, <2>6 DEF Unwatched
<1>3. CASE GetInformer(t, there)
  <2>. DEFINE i == asking(t)
  <2>1. i \in Caches \X Kinds
    BY <1>0, <1>3 DEF asking, GetInformer, TaskOK, Busy
  <2>2. /\ unseen \subseteq unseen' /\ informers' = informers /\ handlers' = handlers \cup {i}
        /\ informers[i] = "synced" => replay(i, there) \subseteq unseen'
    BY <1>3 DEF GetInformer
  <2>. HIDE DEF i
  <2>3. ASSUME NEW r \in Reps, Unwatched(r), ~Unwatched(r)' PROVE Unseen(r)'
    <3>1. told_of(r) = {} /\ told_of(r)' # {} /\ r \in there
      BY <1>0, <2>3 DEF Unwatched, there
    <3>2. PICK j \in handlers' : /\ KindOf[r] = j[2] /\ informers'[j] = "synced"
                                 /\ caches'[j[1]] # "stopped"
      BY <3>1, ToldSome
    <3>3. j = i
      BY <1>0, <2>2, <3>1, <3>2, ToldSome
    <3>. QED
      BY <2>1, <2>2, <3>1, <3>2, <3>3, ReplayUnseen
  <2>. QED
    BY <2>2, <2>3
<1>4. CASE \/ ClusterReady(t) \/ ClusterGone(t) \/ EnsureWatch(t) \/ installAll(t)
           \/ InformerFails(t) \/ Mark(t) \/ Start(t)
  BY <1>1, <1>4 DEF ClusterReady, ClusterGone, EnsureWatch, installAll, InformerFails, Mark, Start,
     others, cacheVars
<1>. QED
  BY <1>2, <1>3, <1>4 DEF Silent

\* It is enough that no Replication is forgotten that was remembered.
LEMMA DriftCarried ==
    ASSUME DriftKept, UNCHANGED <<spoke, reps>>, dropped \subseteq dropped',
           \A r \in reps \ dropped' : Remembered(r) => Remembered(r)'
    PROVE  DriftKept'
BY DEF DriftKept

\* The detector's threads keep Replications in mind until they are enqueued.
LEMMA ThreadDrift ==
    ASSUME TypeOK, TasksOK, DriftKept, NEW t \in Threads, Silent(t) \/ enqueueForCluster(t),
           UNCHANGED rest
    PROVE  DriftKept'
<1>0. /\ task \in [Threads -> Tasks] /\ reps \subseteq Reps /\ UNCHANGED <<spoke, dirty, up>>
      /\ task[t].keys \subseteq Reps
  BY DEF TypeOK, DriftTypeOK, TasksOK, TaskOK, Tasks, rest, engineVars, runtimeVars
<1>1. CASE Silent(t)
  <2>1. UNCHANGED <<reps, channel, dropped>>
    BY <1>1, SilentTypes
  <2>2. PICK q : /\ TaskOK(q) /\ goOn(t, q)
                 /\ \A r \in reps : Carries(task[t], r) => Carries(q, r)
    BY <1>1, SilentTask
  <2>3. task'[t] = q /\ \A s \in Threads \ {t} : task'[s] = task[s]
    BY <1>0, <2>2, GoOn
  <2>4. \A r \in reps : Carried(r) => Carried(r)'
    BY <2>2, <2>3 DEF Carried, Carries
  <2>5. \A r \in Reps : (Unseen(r) => Unseen(r)') /\ (Unwatched(r) => Unwatched(r)' \/ Unseen(r)')
    BY <1>1, SilentUnseen DEF Unseen
  <2>6. \A r \in Reps : InChannel(r) => InChannel(r)'
    BY <2>1 DEF InChannel
  <2>7. \A r \in reps \ dropped' : Remembered(r) => Remembered(r)'
    BY <1>0, <2>4, <2>5, <2>6 DEF Remembered
  <2>. QED
    BY <1>0, <2>1, <2>7, DriftCarried
<1>2. CASE enqueueForCluster(t)
  <2>1. PICK p \in task[t].keys : Enqueue(p) /\ goOn(t, enqueueing(task[t].keys \ {p}))
    BY <1>2 DEF enqueueForCluster
  <2>2. UNCHANGED <<caches, informers, handlers, unseen, reps>> /\ task[t].pc = "enqueue"
    BY <1>2 DEF enqueueForCluster, cacheVars, detectorVars
  <2>3. /\ dropped \subseteq dropped' /\ \A q \in Reps : InChannel(q) => InChannel(q)'
        /\ InChannel(p)' \/ p \in dropped'
    BY <1>0, <2>1, EnqueueType
  <2>. DEFINE n == enqueueing(task[t].keys \ {p})
  <2>4. TaskOK(n) /\ \A r \in task[t].keys \ {p} : n.pc = "enqueue" /\ r \in n.keys
    BY <1>0, EnqueueingFields
  <2>. HIDE DEF n
  <2>5. task'[t] = n /\ \A s \in Threads \ {t} : task'[s] = task[s]
    BY <1>0, <2>1, <2>4, GoOn DEF n
  <2>6. \A r \in Reps : r # p /\ Carried(r) => Carried(r)'
    BY <2>2, <2>4, <2>5 DEF Carried, Carries, Busy
  <2>7. \A r \in Reps : (Unseen(r) => Unseen(r)') /\ (Unwatched(r) => Unwatched(r)')
    BY <1>0, <2>2, ToldSame DEF Unseen, Unwatched
  <2>8. \A r \in reps \ dropped' : Remembered(r) => Remembered(r)'
    BY <1>0, <2>3, <2>6, <2>7 DEF Remembered
  <2>. QED
    BY <1>0, <2>2, <2>3, <2>8, DriftCarried
<1>. QED
  BY <1>1, <1>2

\* Hooks have every Replication in mind, and a runtime that ended will have.
LEMMA RuntimeDrift ==
    ASSUME TypeOK, DriftKept,
           StartRuntime \/ GoneHooks \/ StopRuntime \/ RuntimeFails
    PROVE  DriftKept'
<1>0. task \in [Threads -> Tasks]
  BY DEF TypeOK, DriftTypeOK
<1>. USE Constants
<1>1. CASE StopRuntime \/ RuntimeFails
  <2>1. ~up'
    BY <1>1 DEF StopRuntime, RuntimeFails, Stop, Runtime!Stop
  <2>. QED
    BY <2>1 DEF DriftKept, Remembered
<1>2. ASSUME NEW s \in Threads, task'[s].pc \in {"ready", "gone"} PROVE DriftKept'
  BY <1>2 DEF DriftKept, Remembered, Carried, Carries
<1>3. CASE StartRuntime
  <2>1. PICK c \in Caches : goOn("life", [idle EXCEPT !.pc = "ready", !.cache = c])
    BY <1>3 DEF StartRuntime
  <2>. DEFINE q == [idle EXCEPT !.pc = "ready", !.cache = c]
  <2>2. q.pc = "ready" /\ task' = [task EXCEPT !["life"] = q]
    BY <2>1, FirstFields DEF goOn
  <2>. HIDE DEF q
  <2>3. task'["life"].pc = "ready"
    BY <1>0, <2>2
  <2>. QED
    BY <1>2, <2>3
<1>4. CASE GoneHooks
  <2>. DEFINE q == [idle EXCEPT !.pc = "gone"]
  <2>1. q.pc = "gone" /\ task' = [task EXCEPT !["handler"] = q]
    BY <1>4, FirstFields DEF goOn, GoneHooks
  <2>. HIDE DEF q
  <2>2. task'["handler"].pc = "gone"
    BY <1>0, <2>1
  <2>. QED
    BY <1>2, <2>2
<1>. QED
  BY <1>1, <1>3, <1>4

\* Informers tell handlers, and handlers the engine.
LEMMA InformerDrift ==
    ASSUME TypeOK, DriftKept,
           \/ Observe
           \/ \E c \in Caches : CacheRuns(c) \/ \E k \in Kinds : InformerSyncs(<<c, k>>)
    PROVE  DriftKept'
<1>0. /\ reps \subseteq Reps /\ handlers \subseteq Caches \X Kinds /\ unseen \subseteq Caches \X Reps
      /\ caches \in [Caches -> {"none", "new", "running", "stopped"}]
      /\ informers \in [Caches \X Kinds -> {"none", "asked", "synced"}]
  BY DEF TypeOK, DriftTypeOK
<1>1. UNCHANGED <<spoke, dirty, up, reps, task>>
  BY DEF Observe, observe, CacheRuns, StartCache, InformerSyncs, SyncInformer, engineVars,
     runtimeVars, detectorVars
<1>2. \A r : Carried(r) => Carried(r)'
  BY <1>1 DEF Carried
<1>3. CASE Observe
  <2>1. PICK u \in unseen : Enqueue(u[2]) /\ unseen' = unseen \ {u}
    BY <1>3 DEF Observe, observe
  <2>2. UNCHANGED <<caches, informers, handlers>> /\ u[2] \in Reps /\ u = <<u[1], u[2]>>
    BY <1>0, <1>3 DEF Observe, observe
  <2>3. /\ dropped \subseteq dropped' /\ \A q \in Reps : InChannel(q) => InChannel(q)'
        /\ InChannel(u[2])' \/ u[2] \in dropped'
    BY <2>1, <2>2, EnqueueType
  <2>4. \A r \in Reps : r # u[2] /\ Unseen(r) => Unseen(r)'
    BY <2>1, <2>2 DEF Unseen
  <2>5. \A r \in Reps : Unwatched(r) => Unwatched(r)'
    BY <1>1, <2>2, ToldSame DEF Unwatched
  <2>6. \A r \in reps \ dropped' : Remembered(r) => Remembered(r)'
    BY <1>0, <1>1, <1>2, <2>3, <2>4, <2>5 DEF Remembered
  <2>. QED
    BY <1>1, <2>3, <2>6, DriftCarried
<1>4. ASSUME UNCHANGED <<channel, dropped>>, unseen \subseteq unseen',
             \A r \in Reps : Unwatched(r) => Unwatched(r)' \/ Unseen(r)'
      PROVE  DriftKept'
  <2>1. \A r \in Reps : (Unseen(r) => Unseen(r)') /\ (InChannel(r) => InChannel(r)')
    BY <1>4 DEF Unseen, InChannel
  <2>2. \A r \in reps \ dropped' : Remembered(r) => Remembered(r)'
    BY <1>0, <1>1, <1>2, <1>4, <2>1 DEF Remembered
  <2>. QED
    BY <1>1, <1>4, <2>2, DriftCarried
<1>5. ASSUME NEW c \in Caches, CacheRuns(c) PROVE DriftKept'
  <2>1. UNCHANGED <<informers, handlers, unseen, channel, dropped>>
    BY <1>5 DEF CacheRuns, StartCache
  <2>2. \A d \in Caches : caches'[d] # "stopped" <=> caches[d] # "stopped"
    BY <1>0, <1>5 DEF CacheRuns, StartCache
  <2>3. \A r : told_of(r)' = told_of(r)
    BY <1>0, <2>1, <2>2, ToldSame
  <2>. QED
    BY <1>1, <1>4, <2>1, <2>3 DEF Unwatched
<1>6. ASSUME NEW i \in Caches \X Kinds, InformerSyncs(i) PROVE DriftKept'
  <2>1. /\ UNCHANGED <<caches, handlers, channel, dropped>> /\ unseen \subseteq unseen'
        /\ i \in handlers => replay(i, there) \subseteq unseen'
        /\ informers' = [informers EXCEPT ![i] = "synced"]
    BY <1>6 DEF InformerSyncs, SyncInformer
  <2>2. \A j \in Caches \X Kinds : j # i => informers'[j] = informers[j]
    BY <1>0, <2>1
  <2>3. ASSUME NEW r \in Reps, Unwatched(r), ~Unwatched(r)' PROVE Unseen(r)'
    <3>1. told_of(r) = {} /\ told_of(r)' # {} /\ r \in there
      BY <1>1, <2>3 DEF Unwatched, there
    <3>2. PICK j \in handlers' : /\ KindOf[r] = j[2] /\ informers'[j] = "synced"
                                 /\ caches'[j[1]] # "stopped"
      BY <3>1, ToldSome
    <3>3. j = i
      BY <1>0, <2>1, <2>2, <3>1, <3>2, ToldSome
    <3>. QED
      BY <2>1, <3>1, <3>2, <3>3, ReplayUnseen
  <2>. QED
    BY <1>4, <2>1, <2>3
<1>. QED
  BY <1>3, <1>5, <1>6

\* The engine puts right what it takes, and every change is told or unwatched.
LEMMA EngineDrift ==
    ASSUME TypeOK, DriftKept,
           \/ Pump \/ \E r \in Reps : Reconcile(r)
           \/ ChangeReplica \/ CreateReplication
    PROVE  DriftKept'
<1>0. /\ reps \subseteq Reps /\ task \in [Threads -> Tasks] /\ dirty \subseteq Reps
      /\ spoke \in [Reps -> {"absent", "good", "edited"}]
  BY DEF TypeOK, DriftTypeOK
<1>1. UNCHANGED <<caches, informers, handlers, up>>
  BY DEF Pump, Reconcile, ChangeReplica, CreateReplication, cacheVars, runtimeVars
<1>2. /\ \A r : told_of(r)' = told_of(r)
      /\ \A r \in Reps : spoke'[r] = spoke[r] => (Unwatched(r) => Unwatched(r)')
  <2>1. \A r : told_of(r)' = told_of(r)
    BY <1>1, ToldSame
  <2>. QED
    BY <2>1 DEF Unwatched
<1>3. CASE Pump
  <2>1. UNCHANGED <<spoke, reps, dropped, unseen, task>> /\ dirty \subseteq dirty'
    BY <1>3 DEF Pump, cacheVars, detectorVars
  <2>2. \A r \in Reps : InChannel(r) => r \in dirty' \/ InChannel(r)'
    BY <1>3, PumpType
  <2>3. \A r \in Reps : (Unseen(r) => Unseen(r)') /\ (Carried(r) => Carried(r)')
    BY <2>1 DEF Unseen, Carried
  <2>4. \A r \in reps \ dropped' : Remembered(r) => Remembered(r)'
    BY <1>0, <1>1, <1>2, <2>1, <2>2, <2>3 DEF Remembered
  <2>. QED
    BY <2>1, <2>4, DriftCarried
<1>4. ASSUME NEW q \in Reps, unseen \subseteq unseen', UNCHANGED <<channel, reps>>,
             \A r \in Reps \ {q} : /\ spoke'[r] = spoke[r]
                                   /\ r \in dirty => r \in dirty'
                                   /\ r \in dropped => r \in dropped',
             \A t \in Threads : Idling(t) \/ task'[t] = task[t],
             q \in reps' \ dropped' => spoke'[q] = "good" \/ Remembered(q)'
      PROVE  DriftKept'
  <2>1. \A r \in Reps : /\ Unseen(r) => Unseen(r)'
                        /\ InChannel(r) => InChannel(r)'
                        /\ Carried(r) => Carried(r)'
    BY <1>4 DEF Unseen, InChannel, Carried, Carries, Idling, Busy
  <2>2. \A r \in Reps \ {q} : Remembered(r) => Remembered(r)'
    BY <1>1, <1>2, <1>4, <2>1 DEF Remembered
  <2>. QED
    BY <1>0, <1>4, <2>2 DEF DriftKept
<1>5. ASSUME NEW q \in Reps, Reconcile(q) PROVE DriftKept'
  <2>1. /\ Idling("worker") /\ UNCHANGED <<channel, reps>> /\ unseen \subseteq unseen'
        /\ dirty' = dirty \ {q} /\ dropped' = dropped \ {q} /\ spoke' = [spoke EXCEPT ![q] = "good"]
        /\ \E n : task' = [task EXCEPT !["worker"] = n]
    BY <1>5 DEF Reconcile, detectorVars, goOn
  <2>2. \A t \in Threads : Idling(t) \/ task'[t] = task[t]
    BY <1>0, <2>1
  <2>3. spoke'[q] = "good" /\ \A r \in Reps \ {q} : spoke'[r] = spoke[r]
    BY <1>0, <2>1
  <2>. QED
    BY <1>4, <2>1, <2>2, <2>3
<1>6. CASE ChangeReplica
  <2>1. PICK q \in there, state \in {"edited", "absent"} :
            /\ spoke' = [spoke EXCEPT ![q] = state]
            /\ unseen' = unseen \cup told_of(q)
            /\ dropped' = IF state = "absent" /\ told_of(q) = {} THEN dropped \cup {q} ELSE dropped
    BY <1>6 DEF ChangeReplica
  <2>2. UNCHANGED <<channel, reps, task, dirty>> /\ q \in Reps
    BY <1>6 DEF ChangeReplica, detectorVars, there
  <2>3. spoke'[q] = state /\ \A r \in Reps \ {q} : spoke'[r] = spoke[r]
    BY <1>0, <2>1, <2>2
  <2>4. ASSUME q \notin dropped' PROVE Remembered(q)'
    <3>1. CASE told_of(q) # {}
      BY <2>1, <2>2, <3>1, ToldUnseen DEF Remembered
    <3>2. CASE told_of(q) = {}
      <4>1. state = "edited"
        BY <2>1, <2>4, <3>2
      <4>. QED
        BY <1>2, <2>3, <3>2, <4>1 DEF Remembered, Unwatched
    <3>. QED
      BY <3>1, <3>2
  <2>. QED
    BY <1>4, <2>1, <2>2, <2>3, <2>4
<1>7. CASE CreateReplication
  <2>1. PICK q \in Reps \ reps : reps' = reps \cup {q} /\ dirty' = dirty \cup {q}
    BY <1>7 DEF CreateReplication
  <2>2. UNCHANGED <<spoke, dropped, unseen, task, channel>>
    BY <1>7 DEF CreateReplication, cacheVars
  <2>3. \A r \in Reps : /\ Unseen(r) => Unseen(r)'
                        /\ InChannel(r) => InChannel(r)'
                        /\ Carried(r) => Carried(r)'
    BY <2>2 DEF Unseen, InChannel, Carried
  <2>4. \A r \in Reps : Remembered(r) => Remembered(r)'
    BY <1>1, <1>2, <2>1, <2>2, <2>3 DEF Remembered
  <2>5. Remembered(q)'
    BY <2>1 DEF Remembered
  <2>. QED
    BY <1>0, <2>1, <2>2, <2>4, <2>5 DEF DriftKept
<1>. QED
  BY <1>3, <1>5, <1>6, <1>7

\* No drift is forgotten in a step.
LEMMA DriftStep ==
    ASSUME TypeOK, TasksOK, HookOK, DriftKept, [Next]_vars
    PROVE  DriftKept'
<1>1. CASE HooksReturn \/ ChangeFleet \/ ChangeLink \/ UNCHANGED vars
  <2>1. UNCHANGED <<driftVars, engineVars, up>>
    BY <1>1 DEF HooksReturn, Runtime!HooksReturn, ChangeFleet, ChangeLink, vars, runtimeVars
  <2>2. UNCHANGED <<caches, informers, handlers, unseen, reps, task, channel, dropped, spoke, dirty, up>>
    BY <2>1 DEF driftVars, engineVars
  <2>3. \A r \in reps : Remembered(r) => Remembered(r)'
    BY <2>2, ToldSame DEF Remembered, Unseen, InChannel, Carried, Unwatched
  <2>. QED
    BY <2>2, <2>3, DriftCarried
<1>2. CASE \E t \in Threads : (Silent(t) \/ enqueueForCluster(t)) /\ UNCHANGED rest
  BY <1>2, ThreadDrift
<1>3. CASE StartRuntime \/ GoneHooks \/ StopRuntime \/ RuntimeFails
  BY <1>3, RuntimeDrift
<1>4. CASE \/ Observe
           \/ \E c \in Caches : CacheRuns(c) \/ \E k \in Kinds : InformerSyncs(<<c, k>>)
  BY <1>4, InformerDrift
<1>5. CASE \/ Pump \/ \E r \in Reps : Reconcile(r)
           \/ ChangeReplica \/ CreateReplication
  BY <1>5, EngineDrift
<1>. QED
  BY <1>1, <1>2, <1>3, <1>4, <1>5, Steps

-----------------------------------------------------------------------------
\* Results

\* The detector starts with one Replication, which the engine is to reconcile.
LEMMA InitInv == Init => DriftInv
<1>. SUFFICES ASSUME Init PROVE DriftInv
  OBVIOUS
<1>. USE Constants
<1>1. /\ task = [t \in Threads |-> idle] /\ \A t \in Threads : task[t] = idle
      /\ up = FALSE /\ hooks = FALSE /\ told = "nothing" /\ raced = FALSE
      /\ reps \subseteq Reps /\ dirty = reps
  BY DEF Init, DriftInit, Runtime!Init
<1>2. TasksOK /\ task \in [Threads -> Tasks]
  BY <1>1, IdleFields DEF TasksOK, TaskOK
<1>3. DriftTypeOK
  <2>1. channel \in Seq(Reps) /\ Len(channel) <= ChannelSize
    BY DEF Init, DriftInit
  <2>. QED
    BY <1>1, <1>2, <2>1 DEF Init, DriftInit, DriftTypeOK
<1>4. RestTypes
  <2>1. budget \in 0..MaxDisturbances /\ wanted = TRUE /\ spokeUp = TRUE
        /\ spoke = [r \in Reps |-> "absent"]
    BY DEF Init
  <2>. QED
    BY <1>1, <2>1 DEF RestTypes
<1>5. TypeOK
  BY <1>3, <1>4 DEF TypeOK, RestTypes
<1>6. LiveOK
  BY <1>1 DEF Init, DriftInit, LiveOK, Live
<1>7. HookOK /\ KindsKept
  BY <1>1, IdleFields DEF Init, DriftInit, HookOK, KindsKept, Idling
<1>8. ReplicasKnown
  BY DEF Init, ReplicasKnown, there
<1>9. DriftKept
  BY <1>1 DEF DriftKept, Remembered
<1>. QED
  BY <1>2, <1>5, <1>6, <1>7, <1>8, <1>9 DEF DriftInv

\* The invariant is kept by every step.
LEMMA InvStep == DriftInv /\ [Next]_vars => DriftInv'
<1>. SUFFICES ASSUME DriftInv, [Next]_vars PROVE DriftInv'
  OBVIOUS
<1>1. TypeOK /\ TasksOK /\ LiveOK /\ HookOK /\ KindsKept /\ ReplicasKnown /\ DriftKept
  BY DEF DriftInv
<1>2. TypeOK' /\ TasksOK'
  BY <1>1, TypeStep
<1>3. LiveOK' /\ HookOK'
  BY <1>1, LiveStep, HookStep
<1>4. KindsKept' /\ ReplicasKnown' /\ DriftKept'
  BY <1>1, KindsStep, KnownStep, DriftStep
<1>. QED
  BY <1>2, <1>3, <1>4 DEF DriftInv

\* Whatever happens to the runtime, the spoke and the replicas, every
\* Replication whose replica is not as it should be is on its way to the engine,
\* or the informer that will tell of it is (drift.go, with the hooks of
\* clustermanager).
THEOREM Invariant == Spec => []DriftInv
BY InitInv, InvStep, PTL DEF Spec

\* The types are kept, and the event channel is never over its capacity.
THEOREM TypeCorrect == Spec => []TypeOK
<1>1. DriftInv => TypeOK
  BY DEF DriftInv
<1>. QED
  BY <1>1, Invariant, PTL

\* A kind that is known to the detector of a connected cluster is marked, or is
\* about to be installed on the cluster's cache (installAll, EnsureWatch and
\* install, drift.go): no interleaving of a new kind with Start and the ready
\* hook leaves it out.
THEOREM KindsNotForgotten == Spec => []KindsKept
<1>1. DriftInv => KindsKept
  BY DEF DriftInv
<1>. QED
  BY <1>1, Invariant, PTL

\* When nothing is on its way, nothing was overlooked: a replica that is not as
\* it should be would have to be unwatched, but its kind is known, marked, and so
\* has a handler on an informer that watches.
THEOREM DriftNotForgotten == Spec => []NothingForgotten
<1>1. DriftInv => NothingForgotten
  <2>. SUFFICES ASSUME DriftInv, started, clusters # 0, caches[clusters] = "running", ~Mismarked,
                       Quiet, Synced, NEW r \in reps \ dropped, spoke[r] # "good"
                PROVE  FALSE
    BY DEF NothingForgotten
  <2>. USE Constants
  <2>1. /\ TypeOK /\ LiveOK /\ KindsKept /\ ReplicasKnown
        /\ r \in Reps /\ clusters \in Caches /\ handlers \subseteq Caches \X Kinds
        /\ Remembered(r)
    BY DEF DriftInv, DriftKept, TypeOK, DriftTypeOK
  <2>2. up
    BY <2>1 DEF LiveOK, Live
  <2>3. \A t \in Threads : task[t].pc = "idle"
    BY DEF Quiet, Idling
  <2>4. ~InChannel(r) /\ ~Unseen(r) /\ ~Carried(r) /\ r \notin dirty
    BY <2>3 DEF Quiet, InChannel, Unseen, Carried, Carries, Busy
  <2>5. spoke[r] = "edited" /\ told_of(r) = {}
    BY <2>1, <2>2, <2>4 DEF Remembered, Unwatched
  <2>6. KindOf[r] \in gvks
    BY <2>1, <2>3, <2>5 DEF ReplicasKnown, there
  <2>7. KindOf[r] \in watched
    BY <2>1, <2>3, <2>6 DEF KindsKept, Installs, Busy
  <2>. DEFINE i == <<clusters, KindOf[r]>>
  <2>8. i \in handlers /\ i[1] = clusters /\ i[2] = KindOf[r]
    BY <2>7 DEF Mismarked
  <2>. HIDE DEF i
  <2>9. informers[i] = "synced" /\ caches[i[1]] # "stopped"
    BY <2>8 DEF Synced
  <2>. QED
    BY <2>5, <2>8, <2>9, ToldSome
<1>. QED
  BY <1>1, Invariant, PTL

=============================================================================
