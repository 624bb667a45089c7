--------------------------- MODULE ClusterManager ---------------------------
(***************************************************************************)
(* How ONE spoke cluster gets and loses its runtime: the spokeWirer of     *)
(* cmd/main.go, which bootstraps a cluster that discovery reports ready,   *)
(* and the cluster.Manager of internal/cluster/manager.go, which probes it *)
(* and runs its client and cache.                                          *)
(*                                                                         *)
(* Goroutines: the discovery handler (serial), one bootstrap per time the  *)
(* cluster becomes ready, Manager.Start, one lifecycle and one runtime per *)
(* entry.  A step is one critical section, one call over the network or    *)
(* one wait.  A bootstrap and the entry it registers have the same number. *)
(***************************************************************************)
EXTENDS Naturals, Sequences, FiniteSets

CONSTANTS
    MaxRuns,          \* how many bootstraps there may be
    Threshold,        \* consecutive failures until Unreachable
    BaseDelay,        \* first delay after a failed probe
    MaxDelay,         \* cap of the exponential backoff
    Disturbances,     \* the kinds of environment steps that happen
    MaxDisturbances   \* how many of them

Runs == 1..MaxRuns

ASSUME BoundsAssumption ==
    /\ MaxRuns \in Nat \ {0}
    /\ Threshold \in Nat \ {0}
    /\ BaseDelay \in Nat \ {0} /\ MaxDelay \in Nat /\ BaseDelay <= MaxDelay
    /\ MaxDisturbances \in Nat

VARIABLES
    present,    \* discovery reports the cluster ready
    events,     \* discovery events not handled yet: TRUE ready, FALSE gone
    spokeUp,    \* the spoke answers
    \* spokeWirer
    hpc,        \* the discovery handler
    hent,       \* the entry Deregister is stopping, or 0
    active,     \* spokes[name]: the bootstrap that may be cancelled, or 0
    run,        \* each bootstrap goroutine
    old,        \* the entry its Register is replacing, or 0
    cancelled,  \* bootstraps whose context is cancelled
    \* Manager
    spc,        \* Start
    pending,    \* the entry Start has still to launch, or 0
    current,    \* entries[name], or 0
    ent,        \* each entry
    told,       \* history: the hooks that fired last
    raced,      \* history: a drop met a registration that was under way
    budget      \* disturbances left

wirerVars == <<hpc, hent, active, run, old, cancelled>>
startVars == <<spc, pending>>
vars == <<present, events, spokeUp, hpc, hent, active, run, old, cancelled, spc, pending,
          current, ent, told, raced, budget>>

-----------------------------------------------------------------------------
\* Types

States == {"Unknown", "Reachable", "Degraded", "Unreachable"}

\* Failures beyond the threshold are not told apart.
Trackers == [failures : 0..Threshold, delay : 0..MaxDelay, state : States]

newBackoffTracker == [failures |-> 0, delay |-> 0, state |-> "Unknown"]

\* launched: e.cancel is set.  runtime is what startRuntime started last.
EntriesType ==
    [launched : BOOLEAN, cancelled : BOOLEAN, started : BOOLEAN,
     life : {"none", "probe", "start", "hooks", "wait", "done"},
     runtime : {"none", "up", "stopped"}, tracker : Trackers]

newEntry == [launched |-> FALSE, cancelled |-> FALSE, started |-> FALSE, life |-> "none",
             runtime |-> "none", tracker |-> newBackoffTracker]

TypeOK ==
    /\ present \in BOOLEAN
    /\ events \in Seq(BOOLEAN)
    /\ spokeUp \in BOOLEAN
    /\ hpc \in {"idle", "deregister", "cancel", "wait"}
    /\ hent \in Runs \cup {0}
    /\ active \in Runs \cup {0}
    /\ run \in [Runs -> {"none", "boot", "register", "cancel", "wait", "launch", "done"}]
    /\ old \in [Runs -> Runs \cup {0}]
    /\ cancelled \subseteq Runs
    /\ spc \in {"new", "launch", "running"}
    /\ pending \in Runs \cup {0}
    /\ current \in Runs \cup {0}
    /\ ent \in [Runs -> EntriesType]
    /\ told \in {"nothing", "ready", "gone"}
    /\ raced \in BOOLEAN
    /\ budget \in 0..MaxDisturbances

\* Nothing is registered and nothing runs.
WirerInit ==
    /\ hpc = "idle"
    /\ hent = 0
    /\ active = 0
    /\ run = [r \in Runs |-> "none"]
    /\ old = [r \in Runs |-> 0]
    /\ cancelled = {}
    /\ spc = "new"
    /\ pending = 0
    /\ current = 0
    /\ ent = [r \in Runs |-> newEntry]
    /\ told = "nothing"
    /\ raced = FALSE

Init ==
    /\ present = FALSE
    /\ events = <<>>
    /\ spokeUp = TRUE
    /\ budget = MaxDisturbances
    /\ WirerInit

-----------------------------------------------------------------------------
\* The discovery handler: Handle, ensure, drop, Deregister

outsideUnchanged == <<present, spokeUp, budget>>

\* ensure: unless a bootstrap is active, a new one starts.
HandleReady ==
    /\ hpc = "idle"
    /\ events # <<>> /\ Head(events)
    /\ events' = Tail(events)
    /\ \/ active # 0 /\ UNCHANGED <<active, run>>
       \/ /\ active = 0
          /\ \E r \in Runs :
                /\ run[r] = "none"
                /\ \A q \in 1..(r - 1) : run[q] # "none"
                /\ active' = r
                /\ run' = [run EXCEPT ![r] = "boot"]
    /\ UNCHANGED <<outsideUnchanged, hpc, hent, old, cancelled, startVars, current, ent, told, raced>>

\* Nothing is between the success of a bootstrap and the launch of its entry.
Quiet ==
    /\ \A r \in Runs : run[r] \in {"none", "boot", "done"}
    /\ spc # "launch"

\* drop: the bootstrap is cancelled and forgotten.
HandleDrop ==
    /\ hpc = "idle"
    /\ events # <<>> /\ ~Head(events)
    /\ events' = Tail(events)
    /\ cancelled' = cancelled \cup ({active} \ {0})
    /\ active' = 0
    /\ hpc' = "deregister"
    /\ raced' = (raced \/ ~Quiet)
    /\ UNCHANGED <<outsideUnchanged, hent, run, old, startVars, current, ent, told>>

\* Deregister: the entry leaves the map under the lock, then it is stopped.
Deregister ==
    /\ hpc = "deregister"
    /\ raced' = (raced \/ ~Quiet)
    /\ hent' = current
    /\ current' = 0
    /\ hpc' = IF current = 0 THEN "idle" ELSE "cancel"
    /\ UNCHANGED <<outsideUnchanged, events, active, run, old, cancelled, startVars, ent,
                   told>>


\* stopEntry: cancel the context if there is one; then, if there is one, wait
\* for the lifecycle and the runtime.
CancelEntry(e) ==
    ent' = IF ent[e].launched THEN [ent EXCEPT ![e].cancelled = TRUE] ELSE ent

\* Mutant: nothing is waited for.
StoppedAtOnce(e) == TRUE

\* Mutant: the runtime is not waited for.
LifecycleStopped(e) == ent[e].launched => ent[e].life = "done"

EntryStopped(e) ==
    /\ ent[e].launched => ent[e].life = "done"
    /\ ent[e].runtime # "up"

DeregisterCancel ==
    /\ hpc = "cancel"
    /\ CancelEntry(hent)
    /\ hpc' = "wait"
    /\ UNCHANGED <<outsideUnchanged, events, hent, active, run, old, cancelled, startVars, current,
                   told, raced>>

DeregisterDone ==
    /\ hpc = "wait"
    /\ EntryStopped(hent)
    /\ told' = "gone"
    /\ hent' = 0
    /\ hpc' = "idle"
    /\ UNCHANGED <<outsideUnchanged, events, active, run, old, cancelled, startVars, current, ent,
                   raced>>

Handler == HandleReady \/ HandleDrop \/ Deregister \/ DeregisterCancel \/ DeregisterDone

-----------------------------------------------------------------------------
\* A bootstrap goroutine: run, bootstrap, Register

goto(r, step) == run' = [run EXCEPT ![r] = step]

\* Attempts repeat until one succeeds or the context is cancelled; a cancelled
\* context also fails the calls of an attempt.  Nothing looks at the context
\* after the last call.
Bootstrap(r) ==
    /\ run[r] = "boot"
    /\ \/ r \in cancelled /\ goto(r, "done")
       \/ r \notin cancelled /\ spokeUp /\ goto(r, "register")
    /\ UNCHANGED <<outsideUnchanged, events, hpc, hent, active, old, cancelled, startVars, current,
                   ent, told, raced>>

\* The entry is installed; it is launched when the manager runs already.
Install(r) ==
    /\ current' = r
    /\ goto(r, IF spc = "new" THEN "done" ELSE "launch")

\* Register: an existing entry is stopped first, outside the lock.
Register(r) ==
    /\ run[r] = "register"
    /\ \/ current = 0 /\ Install(r) /\ UNCHANGED old
       \/ /\ current # 0
          /\ old' = [old EXCEPT ![r] = current]
          /\ goto(r, "cancel")
          /\ UNCHANGED current
    /\ UNCHANGED <<outsideUnchanged, events, hpc, hent, active, cancelled, startVars, ent, told, raced>>

RegisterCancel(r) ==
    /\ run[r] = "cancel"
    /\ CancelEntry(old[r])
    /\ goto(r, "wait")
    /\ UNCHANGED <<outsideUnchanged, events, hpc, hent, active, old, cancelled, startVars, current,
                   told, raced>>

RegisterReplace(r) ==
    /\ run[r] = "wait"
    /\ EntryStopped(old[r])
    /\ Install(r)
    /\ UNCHANGED <<outsideUnchanged, events, hpc, hent, active, old, cancelled, startVars, ent,
                   told, raced>>

launch(e) == ent' = [ent EXCEPT ![e].launched = TRUE, ![e].life = "probe"]

RegisterLaunch(r) ==
    /\ run[r] = "launch"
    /\ launch(r)
    /\ goto(r, "done")
    /\ UNCHANGED <<outsideUnchanged, events, hpc, hent, active, old, cancelled, startVars, current,
                   told, raced>>

Run(r) ==
    Bootstrap(r) \/ Register(r) \/ RegisterCancel(r) \/ RegisterReplace(r) \/ RegisterLaunch(r)

-----------------------------------------------------------------------------
\* Manager.Start: from now on Register launches; entries registered before are
\* launched here, outside the lock.

StartManager ==
    /\ spc = "new"
    /\ pending' = current
    /\ spc' = IF current = 0 THEN "running" ELSE "launch"
    /\ UNCHANGED <<outsideUnchanged, events, wirerVars, current, ent, told, raced>>

StartPending ==
    /\ spc = "launch"
    /\ launch(pending)
    /\ pending' = 0
    /\ spc' = "running"
    /\ UNCHANGED <<outsideUnchanged, events, wirerVars, current, told, raced>>

Start == StartManager \/ StartPending

-----------------------------------------------------------------------------
\* The lifecycle goroutine of an entry

MinOf(a, b) == IF a < b THEN a ELSE b

\* Mutant: the first failure of a streak doubles the last delay as well.
ObserveDoubling(t, ok) ==
    IF ok THEN [failures |-> 0, delay |-> 0, state |-> "Reachable"]
    ELSE LET n == MinOf(t.failures + 1, Threshold)
         IN  [failures |-> n,
              delay    |-> MinOf(2 * t.delay, MaxDelay),
              state    |-> IF n >= Threshold THEN "Unreachable" ELSE "Degraded"]


\* backoffTracker.Observe: one probe result.
Observe(t, ok) ==
    IF ok THEN [failures |-> 0, delay |-> 0, state |-> "Reachable"]
    ELSE LET n == MinOf(t.failures + 1, Threshold)
         IN  [failures |-> n,
              delay    |-> IF t.failures = 0 THEN BaseDelay ELSE MinOf(2 * t.delay, MaxDelay),
              state    |-> IF n >= Threshold THEN "Unreachable" ELSE "Degraded"]

managerUnchanged == <<outsideUnchanged, events, wirerVars, startVars, current, told, raced>>

Probe(e) ==
    /\ ent[e].life = "probe"
    /\ \/ ent[e].cancelled /\ ent' = [ent EXCEPT ![e].life = "done"]
       \/ /\ ~ent[e].cancelled
          /\ ent' = [ent EXCEPT
                ![e].tracker = Observe(@, spokeUp),
                ![e].life = IF spokeUp /\ ~ent[e].started THEN "start" ELSE "wait"]
    /\ UNCHANGED managerUnchanged

\* startRuntime: the factory may fail; the next probe tries again.
StartRuntime(e) ==
    /\ ent[e].life = "start"
    /\ ent' = [ent EXCEPT ![e].started = TRUE, ![e].runtime = "up", ![e].life = "hooks"]
    /\ told' = "ready"
    /\ UNCHANGED <<outsideUnchanged, events, wirerVars, startVars, current, raced>>

\* The OnClusterReady hooks run in the lifecycle goroutine, beside the runtime.
ReadyHooks(e) ==
    /\ ent[e].life = "hooks"
    /\ ent' = [ent EXCEPT ![e].life = "wait"]
    /\ UNCHANGED managerUnchanged

Wait(e) ==
    /\ ent[e].life = "wait"
    /\ \/ ent[e].cancelled /\ ent' = [ent EXCEPT ![e].life = "done"]
       \/ ent' = [ent EXCEPT ![e].life = "probe"]
    /\ UNCHANGED managerUnchanged

\* The runtime returns when its context is cancelled; started stays set.
RuntimeStops(e) ==
    /\ ent[e].runtime = "up"
    /\ ent[e].cancelled
    /\ ent' = [ent EXCEPT ![e].runtime = "stopped"]
    /\ UNCHANGED managerUnchanged

Lifecycle(e) == Probe(e) \/ StartRuntime(e) \/ ReadyHooks(e) \/ Wait(e)

-----------------------------------------------------------------------------
\* The environment

Disturb(kind) ==
    /\ kind \in Disturbances
    /\ budget > 0
    /\ budget' = budget - 1

\* Discovery reports that the cluster is ready, or that it left or is unready;
\* a change of its labels reports it again.
ChangeFleet ==
    /\ Disturb("fleet")
    /\ present' \in BOOLEAN
    /\ events' = Append(events, present')
    /\ UNCHANGED <<spokeUp, wirerVars, startVars, current, ent, told, raced>>

ChangeLink ==
    /\ Disturb("link")
    /\ spokeUp' = ~spokeUp
    /\ UNCHANGED <<present, events, wirerVars, startVars, current, ent, told, raced>>

FactoryFails(e) ==
    /\ Disturb("factory")
    /\ ent[e].life = "start"
    /\ ent' = [ent EXCEPT ![e].life = "wait"]
    /\ UNCHANGED <<present, spokeUp, events, wirerVars, startVars, current, told, raced>>

\* Mutant: a runtime that failed still counts as started.
RuntimeFailsUnseen(e) ==
    /\ Disturb("runtime")
    /\ ent[e].runtime = "up"
    /\ ~ent[e].cancelled
    /\ ent' = [ent EXCEPT ![e].runtime = "stopped"]
    /\ UNCHANGED <<present, spokeUp, events, wirerVars, startVars, current, told, raced>>

\* A runtime exits with an error of its own; the next probe starts a new one.
RuntimeFails(e) ==
    /\ Disturb("runtime")
    /\ ent[e].runtime = "up"
    /\ ~ent[e].cancelled
    /\ ent' = [ent EXCEPT ![e].runtime = "stopped", ![e].started = FALSE]
    /\ UNCHANGED <<present, spokeUp, events, wirerVars, startVars, current, told, raced>>

\* Nothing is left to do.
Idle == hpc = "idle" /\ events = <<>> /\ UNCHANGED vars

Next ==
    \/ Handler
    \/ Start
    \/ \E r \in Runs :
        Run(r) \/ Lifecycle(r) \/ RuntimeStops(r) \/ FactoryFails(r) \/ RuntimeFails(r)
    \/ ChangeFleet \/ ChangeLink
    \/ Idle

Spec == Init /\ [][Next]_vars

\* Every goroutine runs; timers fire; a cancelled runtime returns.
Fairness ==
    /\ WF_vars(Handler)
    /\ WF_vars(Start)
    /\ \A r \in Runs : WF_vars(Run(r)) /\ WF_vars(Lifecycle(r)) /\ WF_vars(RuntimeStops(r))

FairSpec == Spec /\ Fairness

-----------------------------------------------------------------------------
\* Properties

\* runtimeOf: the engine gets a client for the cluster.
HasClient == current # 0 /\ ent[current].started

\* At most one runtime works on the cluster, whatever joins, leaves, fails and
\* comes back, until a drop meets a registration that is under way (between the
\* last call of a bootstrap and the launch of its entry).
OneRuntimeUnlessRaced ==
    ~raced => \A d, e \in Runs : ent[d].runtime = "up" /\ ent[e].runtime = "up" => d = e

\* While probes fail, the next one comes after at least the base delay and at
\* most the cap, also across streaks of failures.
BackoffBounded ==
    \A e \in Runs :
        LET t == ent[e].tracker
        IN  IF t.state \in {"Degraded", "Unreachable"}
            THEN BaseDelay <= t.delay /\ t.delay <= MaxDelay
            ELSE t.delay = 0

\* Once disturbances cease, a ready cluster that answers has a working runtime
\* and a client, and is reported reachable, unless the handler is blocked.
Attached ==
    present /\ spokeUp /\ hpc = "idle" =>
        /\ HasClient
        /\ ent[current].runtime = "up"
        /\ ent[current].tracker.state = "Reachable"

AttachCompletes == <>[]Attached

\* Once disturbances cease, the discovery handler, which serves every cluster,
\* has come back from every event, and a cluster that left has no entry and no
\* runtime, unless a drop raced a registration.
Detached ==
    ~present => current = 0 /\ \A e \in Runs : ent[e].runtime # "up"



-----------------------------------------------------------------------------
\* What the engine sees of the manager: the abstract specification.

AnyUp == \E e \in Runs : ent[e].runtime = "up"
AnyHooks == \E e \in Runs : ent[e].life = "hooks"

Abstract == INSTANCE SpokeRuntime WITH up <- AnyUp, hooks <- AnyHooks

\* The manager keeps its promise to the engine: one runtime at a time, the
\* ready hooks of one start at a time, the gone hooks only after both, unless
\* a drop raced a registration.
ImplementsSpokeRuntime == Abstract!Spec

=============================================================================
