--------------------------- MODULE ManagerProofs ---------------------------
(***************************************************************************)
(* For any number of bootstraps, registrations and failures, the cluster   *)
(* manager keeps the promise of SpokeRuntime until a drop meets a          *)
(* registration that is under way.                                         *)
(*                                                                         *)
(* The argument: without such a race a registration is under way only      *)
(* while the handler is idle, and only that of the active bootstrap        *)
(* (OneAtATime); it finds no entry, so that an entry that runs is the      *)
(* current one or the one the handler is stopping (OnlyOneWorks).          *)
(***************************************************************************)
EXTENDS ClusterManager, TLAPS

\* What holds of each entry: it works only once launched, its runtime counts as
\* started, and a lifecycle about to start one has none.
EntOK ==
    \A e \in Runs :
        /\ ~ent[e].launched => ent[e].life = "none" /\ ent[e].runtime # "up"
        /\ ent[e].runtime = "up" => ent[e].started
        /\ ent[e].life = "start" => ~ent[e].started

\* The handler stops an entry that exists.
StopOK == hpc \in {"cancel", "wait"} => hent \in Runs

\* Without a race: a bootstrap that may still register is the active one, there
\* is none while the handler drops the cluster, and it finds no entry.
OneAtATime ==
    /\ hpc # "idle" => active = 0
    /\ active = 0 /\ hpc # "deregister" => current = 0
    /\ \A r \in Runs :
        /\ run[r] \notin {"cancel", "wait"}
        /\ run[r] = "boot" => r = active \/ r \in cancelled
        /\ run[r] \in {"register", "launch"} => r = active
        /\ r = active /\ run[r] \in {"boot", "register"} => current = 0
        /\ run[r] = "launch" => r = current
    /\ spc = "launch" => pending = current /\ pending \in Runs

\* An entry whose lifecycle or runtime works.
Works(e) == ent[e].life \notin {"none", "done"} \/ ent[e].runtime = "up"

\* Without a race: only the current entry works, or the one being stopped.
OnlyOneWorks ==
    \A e \in Runs : Works(e) => e = current \/ (e = hent /\ hpc \in {"cancel", "wait"})

IInv == TypeOK /\ EntOK /\ StopOK /\ (raced \/ (OneAtATime /\ OnlyOneWorks))

-----------------------------------------------------------------------------
\* Observe keeps the tracker within its bounds.
LEMMA ObserveType ==
    ASSUME NEW t \in Trackers, NEW ok \in BOOLEAN
    PROVE  Observe(t, ok) \in Trackers
<1>1. t.failures \in 0..Threshold /\ t.delay \in 0..MaxDelay
  BY DEF Trackers
<1>2. MinOf(t.failures + 1, Threshold) \in 0..Threshold
  BY <1>1, BoundsAssumption DEF MinOf
<1>3. MinOf(2 * t.delay, MaxDelay) \in 0..MaxDelay /\ BaseDelay \in 0..MaxDelay /\ 0 \in 0..Threshold
      /\ 0 \in 0..MaxDelay
  BY <1>1, BoundsAssumption DEF MinOf
<1>4. CASE ok
  BY <1>3, <1>4 DEF Observe, Trackers, States
<1>5. CASE ~ok
  BY <1>1, <1>2, <1>3, <1>5 DEF Observe, Trackers, States
<1>. QED
  BY <1>4, <1>5

\* Initially nothing is registered.
LEMMA InitIInv == Init => IInv
<1>. SUFFICES ASSUME Init PROVE IInv
  OBVIOUS
<1>1. newEntry \in EntriesType
  BY BoundsAssumption DEF newEntry, EntriesType, newBackoffTracker, Trackers, States
<1>2. TypeOK
  <2>1. events \in Seq(BOOLEAN) /\ budget \in 0..MaxDisturbances
    BY BoundsAssumption DEF Init
  <2>2. ent \in [Runs -> EntriesType]
    BY <1>1 DEF Init, WirerInit
  <2>. QED
    BY <2>1, <2>2 DEF Init, WirerInit, TypeOK
<1>3. EntOK /\ StopOK /\ OnlyOneWorks
  BY DEF Init, WirerInit, newEntry, EntOK, StopOK, OnlyOneWorks, Works
<1>4. OneAtATime
  BY DEF Init, WirerInit, OneAtATime
<1>. QED
  BY <1>2, <1>3, <1>4 DEF IInv

-----------------------------------------------------------------------------
\* Changing fields of an entry, as the actions do, keeps the type of them all.
LEMMA CancelType ==
    ASSUME NEW f \in [Runs -> EntriesType], NEW e \in Runs \cup {0}
    PROVE  /\ [f EXCEPT ![e].cancelled = TRUE] \in [Runs -> EntriesType]
           /\ [f EXCEPT ![e].launched = TRUE, ![e].life = "probe"] \in [Runs -> EntriesType]
<1>1. [f EXCEPT ![e].cancelled = TRUE] \in [Runs -> EntriesType]
  BY DEF EntriesType
<1>2. [f EXCEPT ![e].launched = TRUE, ![e].life = "probe"] \in [Runs -> EntriesType]
  BY DEF EntriesType
<1>. QED
  BY <1>1, <1>2

\* Its lifecycle goes on.
LEMMA LifeType ==
    ASSUME NEW f \in [Runs -> EntriesType], NEW e \in Runs,
           NEW l \in {"none", "probe", "start", "hooks", "wait", "done"}
    PROVE  [f EXCEPT ![e].life = l] \in [Runs -> EntriesType]
  BY DEF EntriesType

\* Its lifecycle goes on with the answer of a probe.
LEMMA ProbeType ==
    ASSUME NEW f \in [Runs -> EntriesType], NEW e \in Runs, NEW t \in Trackers,
           NEW l \in {"none", "probe", "start", "hooks", "wait", "done"}
    PROVE  [f EXCEPT ![e].tracker = t, ![e].life = l] \in [Runs -> EntriesType]
  BY DEF EntriesType

\* Its lifecycle starts the runtime.
LEMMA StartType ==
    ASSUME NEW f \in [Runs -> EntriesType], NEW e \in Runs
    PROVE  [f EXCEPT ![e].started = TRUE, ![e].runtime = "up", ![e].life = "hooks"]
              \in [Runs -> EntriesType]
<1>1. [f[e] EXCEPT !.started = TRUE, !.runtime = "up", !.life = "hooks"] \in EntriesType
  BY DEF EntriesType
<1>. QED
  BY <1>1

\* Its runtime stops.
LEMMA RuntimeType ==
    ASSUME NEW f \in [Runs -> EntriesType], NEW e \in Runs
    PROVE  /\ [f EXCEPT ![e].runtime = "stopped"] \in [Runs -> EntriesType]
           /\ [f EXCEPT ![e].runtime = "stopped", ![e].started = FALSE] \in [Runs -> EntriesType]
<1>1. [f EXCEPT ![e].runtime = "stopped"] \in [Runs -> EntriesType]
  BY DEF EntriesType
<1>2. [f EXCEPT ![e].runtime = "stopped", ![e].started = FALSE] \in [Runs -> EntriesType]
  BY DEF EntriesType
<1>. QED
  BY <1>1, <1>2

\* Every step keeps the types.
LEMMA TypeStep == TypeOK /\ [Next]_vars => TypeOK'
<1>. SUFFICES ASSUME TypeOK, [Next]_vars PROVE TypeOK'
  OBVIOUS
<1>1. CASE HandleReady
  <2>. events \in Seq(BOOLEAN) /\ events # <<>> /\ events' = Tail(events)
    BY <1>1, Zenon DEF TypeOK, HandleReady
  <2>1. events' \in Seq(BOOLEAN)
    OBVIOUS
  <2>2. active' \in Runs \cup {0} /\ run' \in [Runs -> {"none", "boot", "register", "cancel", "wait", "launch", "done"}]
    BY <1>1 DEF TypeOK, HandleReady
  <2>. QED
    BY <1>1, <2>1, <2>2 DEF TypeOK, wirerVars, startVars, outsideUnchanged, managerUnchanged, HandleReady
<1>2. CASE HandleDrop
  <2>. events \in Seq(BOOLEAN) /\ events # <<>> /\ events' = Tail(events)
    BY <1>2, Zenon DEF TypeOK, HandleDrop
  <2>1. events' \in Seq(BOOLEAN)
    OBVIOUS
  <2>2. cancelled' \subseteq Runs
    BY <1>2 DEF TypeOK, HandleDrop
  <2>3. raced' \in BOOLEAN
    BY <1>2 DEF TypeOK, HandleDrop
  <2>. QED
    BY <1>2, <2>1, <2>2, <2>3 DEF TypeOK, wirerVars, startVars, outsideUnchanged, managerUnchanged, HandleDrop
<1>3. CASE Deregister
  <2>1. raced' \in BOOLEAN
    BY <1>3 DEF TypeOK, Deregister
  <2>. QED
    BY <1>3, <2>1 DEF TypeOK, wirerVars, startVars, outsideUnchanged, managerUnchanged, Deregister
<1>4. CASE DeregisterCancel
  <2>1. ent' \in [Runs -> EntriesType]
    BY <1>4, CancelType DEF TypeOK, DeregisterCancel, CancelEntry
  <2>. QED
    BY <1>4, <2>1 DEF TypeOK, wirerVars, startVars, outsideUnchanged, managerUnchanged, DeregisterCancel, CancelEntry
<1>5. CASE DeregisterDone
  BY <1>5 DEF TypeOK, wirerVars, startVars, outsideUnchanged, managerUnchanged, DeregisterDone
<1>6. CASE StartManager
  BY <1>6 DEF TypeOK, wirerVars, startVars, outsideUnchanged, managerUnchanged, StartManager
<1>7. CASE StartPending
  <2>1. ent' \in [Runs -> EntriesType]
    BY <1>7, CancelType DEF TypeOK, StartPending, launch
  <2>. QED
    BY <1>7, <2>1 DEF TypeOK, wirerVars, startVars, outsideUnchanged, managerUnchanged, StartPending, launch
<1>8. CASE ChangeFleet
  <2>1. present' \in BOOLEAN /\ events' \in Seq(BOOLEAN)
    BY <1>8 DEF TypeOK, ChangeFleet, Disturb
  <2>2. budget' \in 0..MaxDisturbances
    BY <1>8, BoundsAssumption DEF TypeOK, ChangeFleet, Disturb
  <2>. QED
    BY <1>8, <2>1, <2>2 DEF TypeOK, wirerVars, startVars, outsideUnchanged, managerUnchanged, ChangeFleet, Disturb
<1>9. CASE ChangeLink
  <2>1. spokeUp' \in BOOLEAN
    BY <1>9 DEF TypeOK, ChangeLink, Disturb
  <2>2. budget' \in 0..MaxDisturbances
    BY <1>9, BoundsAssumption DEF TypeOK, ChangeLink, Disturb
  <2>. QED
    BY <1>9, <2>1, <2>2 DEF TypeOK, wirerVars, startVars, outsideUnchanged, managerUnchanged, ChangeLink, Disturb
<1>10. ASSUME NEW r \in Runs, Bootstrap(r) PROVE TypeOK'
  BY <1>10 DEF TypeOK, wirerVars, startVars, outsideUnchanged, managerUnchanged, Bootstrap, goto
<1>11. ASSUME NEW r \in Runs, Register(r) PROVE TypeOK'
  BY <1>11 DEF TypeOK, wirerVars, startVars, outsideUnchanged, managerUnchanged, Register, goto, Install
<1>12. ASSUME NEW r \in Runs, RegisterCancel(r) PROVE TypeOK'
  <2>1. ent' \in [Runs -> EntriesType]
    BY <1>12, CancelType DEF TypeOK, RegisterCancel, goto, CancelEntry
  <2>. QED
    BY <1>12, <2>1 DEF TypeOK, wirerVars, startVars, outsideUnchanged, managerUnchanged, RegisterCancel, goto, CancelEntry
<1>13. ASSUME NEW r \in Runs, RegisterReplace(r) PROVE TypeOK'
  BY <1>13 DEF TypeOK, wirerVars, startVars, outsideUnchanged, managerUnchanged, RegisterReplace, goto, Install
<1>14. ASSUME NEW r \in Runs, RegisterLaunch(r) PROVE TypeOK'
  <2>1. ent' \in [Runs -> EntriesType]
    BY <1>14, CancelType DEF TypeOK, RegisterLaunch, goto, launch
  <2>. QED
    BY <1>14, <2>1 DEF TypeOK, wirerVars, startVars, outsideUnchanged, managerUnchanged, RegisterLaunch, goto, launch
<1>15. ASSUME NEW r \in Runs, Probe(r) PROVE TypeOK'
  <2>1. ent[r].tracker \in Trackers
    BY DEF TypeOK, EntriesType
  <2>2. Observe(ent[r].tracker, spokeUp) \in Trackers
    BY <1>15, <2>1, ObserveType DEF TypeOK, Probe
  <2>3. ent' \in [Runs -> EntriesType]
    <3>. DEFINE l == IF spokeUp /\ ~ent[r].started THEN "start" ELSE "wait"
    <3>. ent \in [Runs -> EntriesType]
      BY DEF TypeOK
    <3>1. [ent EXCEPT ![r].life = "done"] \in [Runs -> EntriesType]
      BY LifeType
    <3>2. [ent EXCEPT ![r].tracker = Observe(ent[r].tracker, spokeUp), ![r].life = l]
            \in [Runs -> EntriesType]
      BY <2>2, ProbeType
    <3>3. \/ ent' = [ent EXCEPT ![r].life = "done"]
          \/ ent' = [ent EXCEPT ![r].tracker = Observe(ent[r].tracker, spokeUp), ![r].life = l]
      BY <1>15 DEF Probe
    <3>. QED
      BY <3>1, <3>2, <3>3
  <2>. QED
    BY <1>15, <2>1, <2>2, <2>3 DEF TypeOK, wirerVars, startVars, outsideUnchanged, managerUnchanged, Probe
<1>16. ASSUME NEW r \in Runs, StartRuntime(r) PROVE TypeOK'
  <2>1. ent' \in [Runs -> EntriesType]
    BY <1>16, StartType DEF TypeOK, StartRuntime
  <2>. QED
    BY <1>16, <2>1 DEF TypeOK, wirerVars, startVars, outsideUnchanged, managerUnchanged, StartRuntime
<1>17. ASSUME NEW r \in Runs, ReadyHooks(r) PROVE TypeOK'
  <2>1. ent' \in [Runs -> EntriesType]
    BY <1>17, LifeType DEF TypeOK, ReadyHooks
  <2>. QED
    BY <1>17, <2>1 DEF TypeOK, wirerVars, startVars, outsideUnchanged, managerUnchanged, ReadyHooks
<1>18. ASSUME NEW r \in Runs, Wait(r) PROVE TypeOK'
  <2>1. ent' \in [Runs -> EntriesType]
    <3>. ent \in [Runs -> EntriesType]
      BY DEF TypeOK
    <3>1. /\ [ent EXCEPT ![r].life = "done"] \in [Runs -> EntriesType]
          /\ [ent EXCEPT ![r].life = "probe"] \in [Runs -> EntriesType]
      BY LifeType
    <3>. QED
      BY <1>18, <3>1 DEF Wait
  <2>. QED
    BY <1>18, <2>1 DEF TypeOK, wirerVars, startVars, outsideUnchanged, managerUnchanged, Wait
<1>19. ASSUME NEW r \in Runs, RuntimeStops(r) PROVE TypeOK'
  <2>1. ent' \in [Runs -> EntriesType]
    BY <1>19, RuntimeType DEF TypeOK, RuntimeStops
  <2>. QED
    BY <1>19, <2>1 DEF TypeOK, wirerVars, startVars, outsideUnchanged, managerUnchanged, RuntimeStops
<1>20. ASSUME NEW r \in Runs, FactoryFails(r) PROVE TypeOK'
  <2>1. ent' \in [Runs -> EntriesType]
    BY <1>20, LifeType DEF TypeOK, FactoryFails, Disturb
  <2>2. budget' \in 0..MaxDisturbances
    BY <1>20, BoundsAssumption DEF TypeOK, FactoryFails, Disturb
  <2>. QED
    BY <1>20, <2>1, <2>2 DEF TypeOK, wirerVars, startVars, outsideUnchanged, managerUnchanged, FactoryFails, Disturb
<1>21. ASSUME NEW r \in Runs, RuntimeFails(r) PROVE TypeOK'
  <2>1. ent' \in [Runs -> EntriesType]
    BY <1>21, RuntimeType DEF TypeOK, RuntimeFails, Disturb
  <2>2. budget' \in 0..MaxDisturbances
    BY <1>21, BoundsAssumption DEF TypeOK, RuntimeFails, Disturb
  <2>. QED
    BY <1>21, <2>1, <2>2 DEF TypeOK, wirerVars, startVars, outsideUnchanged, managerUnchanged, RuntimeFails, Disturb
<1>22. CASE UNCHANGED vars
  BY <1>22 DEF TypeOK, vars
<1>. QED
  BY <1>1, <1>2, <1>3, <1>4, <1>5, <1>6, <1>7, <1>8, <1>9, <1>10, <1>11, <1>12, <1>13, <1>14, <1>15, <1>16, <1>17, <1>18, <1>19, <1>20, <1>21, <1>22
  DEF Next, Handler, Start, Run, Lifecycle, Idle

-----------------------------------------------------------------------------
\* Every step keeps what holds of each entry.
LEMMA EntStep == TypeOK /\ EntOK /\ [Next]_vars => EntOK'
<1>. SUFFICES ASSUME TypeOK, EntOK, [Next]_vars PROVE EntOK'
  OBVIOUS
<1>. ent \in [Runs -> EntriesType]
  BY DEF TypeOK
<1>1. CASE UNCHANGED ent
  BY <1>1 DEF EntOK
<1>2. ASSUME NEW e \in Runs \cup {0}, CancelEntry(e) PROVE EntOK'
  BY <1>2 DEF CancelEntry, EntOK, EntriesType
<1>3. ASSUME NEW e \in Runs \cup {0}, launch(e) PROVE EntOK'
  BY <1>3 DEF launch, EntOK, EntriesType
<1>4. ASSUME NEW e \in Runs, Probe(e) PROVE EntOK'
  BY <1>4 DEF Probe, EntOK, EntriesType
<1>5. ASSUME NEW e \in Runs, StartRuntime(e) PROVE EntOK'
  BY <1>5 DEF StartRuntime, EntOK, EntriesType
<1>6. ASSUME NEW e \in Runs, ReadyHooks(e) PROVE EntOK'
  BY <1>6 DEF ReadyHooks, EntOK, EntriesType
<1>7. ASSUME NEW e \in Runs, Wait(e) PROVE EntOK'
  BY <1>7 DEF Wait, EntOK, EntriesType
<1>8. ASSUME NEW e \in Runs, RuntimeStops(e) PROVE EntOK'
  BY <1>8 DEF RuntimeStops, EntOK, EntriesType
<1>9. ASSUME NEW e \in Runs, FactoryFails(e) PROVE EntOK'
  BY <1>9 DEF FactoryFails, EntOK, EntriesType
<1>10. ASSUME NEW e \in Runs, RuntimeFails(e) PROVE EntOK'
  BY <1>10 DEF RuntimeFails, EntOK, EntriesType
<1>. QED
  BY <1>1, <1>2, <1>3, <1>4, <1>5, <1>6, <1>7, <1>8, <1>9, <1>10 DEF TypeOK, Next, Handler, HandleReady, HandleDrop, Deregister,
     DeregisterCancel, DeregisterDone, Start, StartManager, StartPending, Run, Bootstrap, Register,
     RegisterCancel, RegisterReplace, RegisterLaunch, Lifecycle, ChangeFleet, ChangeLink, Idle, vars

\* The handler stops the entry it has taken out of the map.
LEMMA StopStep == TypeOK /\ StopOK /\ [Next]_vars => StopOK'
<1>. SUFFICES ASSUME TypeOK, StopOK, [Next]_vars PROVE StopOK'
  OBVIOUS
<1>1. CASE UNCHANGED <<hpc, hent>>
  BY <1>1 DEF StopOK
<1>2. CASE Handler
  BY <1>2 DEF Handler, HandleReady, HandleDrop, Deregister, DeregisterCancel, DeregisterDone, StopOK,
              TypeOK
<1>. QED
  BY <1>1, <1>2 DEF Next, Start, StartManager, StartPending, Run, Bootstrap, Register, RegisterCancel,
     RegisterReplace, RegisterLaunch, Lifecycle, Probe, StartRuntime, ReadyHooks, Wait, RuntimeStops,
     FactoryFails, RuntimeFails, ChangeFleet, ChangeLink, Idle, vars, wirerVars, managerUnchanged

-----------------------------------------------------------------------------
\* A race is not forgotten.
LEMMA RaceStep == TypeOK /\ raced /\ [Next]_vars => raced'
  BY DEF Next, Handler, HandleReady, HandleDrop, Deregister, DeregisterCancel, DeregisterDone, Start,
     StartManager, StartPending, Run, Bootstrap, Register, RegisterCancel, RegisterReplace,
     RegisterLaunch, Lifecycle, Probe, StartRuntime, ReadyHooks, Wait, RuntimeStops, FactoryFails,
     RuntimeFails, ChangeFleet, ChangeLink, Idle, vars, managerUnchanged

\* Without a race, every step keeps the order of drops and registrations.
LEMMA OrderStep == TypeOK /\ OneAtATime /\ [Next]_vars => raced' \/ OneAtATime'
<1>. SUFFICES ASSUME TypeOK, OneAtATime, [Next]_vars, ~raced' PROVE OneAtATime'
  OBVIOUS
<1>. 0 \notin Runs
  BY DEF Runs
<1>1. CASE UNCHANGED <<wirerVars, startVars, current>>
  BY <1>1 DEF OneAtATime, wirerVars, startVars
<1>2. CASE HandleReady
  BY <1>2 DEF HandleReady, OneAtATime, TypeOK, startVars
<1>3. CASE HandleDrop
  <2>1. Quiet
    BY <1>3 DEF HandleDrop
  <2>. QED
    BY <1>3, <2>1 DEF HandleDrop, OneAtATime, TypeOK, startVars, Quiet
<1>4. CASE Deregister
  <2>1. Quiet
    BY <1>4 DEF Deregister
  <2>. QED
    BY <1>4, <2>1 DEF Deregister, OneAtATime, TypeOK, startVars, Quiet
<1>5. CASE DeregisterCancel \/ DeregisterDone
  BY <1>5 DEF DeregisterCancel, DeregisterDone, OneAtATime, startVars
<1>6. CASE StartManager \/ StartPending
  BY <1>6 DEF StartManager, StartPending, OneAtATime, TypeOK, wirerVars
<1>7. ASSUME NEW r \in Runs, Bootstrap(r) PROVE OneAtATime'
  BY <1>7 DEF Bootstrap, goto, OneAtATime, TypeOK, startVars
<1>8. ASSUME NEW r \in Runs, Register(r) PROVE OneAtATime'
  BY <1>8 DEF Register, Install, goto, OneAtATime, TypeOK, startVars
<1>9. ASSUME NEW r \in Runs, RegisterCancel(r) \/ RegisterReplace(r) PROVE OneAtATime'
  BY <1>9 DEF RegisterCancel, RegisterReplace, OneAtATime
<1>10. ASSUME NEW r \in Runs, RegisterLaunch(r) PROVE OneAtATime'
  BY <1>10 DEF RegisterLaunch, goto, OneAtATime, TypeOK, startVars
<1>. QED
  BY <1>1, <1>2, <1>3, <1>4, <1>5, <1>6, <1>7, <1>8, <1>9, <1>10
  DEF Next, Handler, Start, Run, Lifecycle, Probe, StartRuntime, ReadyHooks, Wait, RuntimeStops,
      FactoryFails, RuntimeFails, ChangeFleet, ChangeLink, Idle, vars, wirerVars, startVars,
      managerUnchanged

\* Without a race, every step leaves one entry at most that works.
LEMMA WorksStep ==
    TypeOK /\ EntOK /\ StopOK /\ OneAtATime /\ OnlyOneWorks /\ [Next]_vars => raced' \/ OnlyOneWorks'
<1>. SUFFICES ASSUME TypeOK, EntOK, StopOK, OneAtATime, OnlyOneWorks, [Next]_vars, ~raced'
              PROVE  OnlyOneWorks'
  OBVIOUS
<1>. ent \in [Runs -> EntriesType] /\ 0 \notin Runs
  BY DEF TypeOK, Runs
<1>1. CASE UNCHANGED <<ent, current, hent, hpc>>
  BY <1>1 DEF OnlyOneWorks, Works
<1>2. ASSUME UNCHANGED <<current, hent, hpc>>, \A e \in Runs : Works(e)' => Works(e)
      PROVE  OnlyOneWorks'
  BY <1>2 DEF OnlyOneWorks
<1>3. ASSUME NEW e \in Runs, launch(e), e = current, UNCHANGED <<current, hent, hpc>>
      PROVE  OnlyOneWorks'
  BY <1>3 DEF launch, OnlyOneWorks, Works, EntriesType
<1>4. ASSUME NEW e \in Runs \cup {0}, CancelEntry(e) PROVE \A d \in Runs : Works(d)' => Works(d)
  BY <1>4 DEF CancelEntry, Works, EntriesType
<1>5. CASE HandleReady \/ HandleDrop
  BY <1>5 DEF HandleReady, HandleDrop, OnlyOneWorks, Works
<1>6. CASE Deregister
  BY <1>6 DEF Deregister, OnlyOneWorks, Works, TypeOK
<1>7. CASE DeregisterCancel
  <2>1. \A d \in Runs : Works(d)' => Works(d)
    BY <1>4, <1>7 DEF DeregisterCancel, TypeOK
  <2>. QED
    BY <1>7, <2>1 DEF DeregisterCancel, OnlyOneWorks
<1>8. CASE DeregisterDone
  <2>1. ~Works(hent)
    BY <1>8 DEF DeregisterDone, EntryStopped, EntOK, StopOK, Works
  <2>. QED
    BY <1>8, <2>1 DEF DeregisterDone, OnlyOneWorks, Works
<1>9. CASE StartManager
  BY <1>1, <1>9 DEF StartManager, wirerVars
<1>10. CASE StartPending
  BY <1>3, <1>10 DEF StartPending, OneAtATime, wirerVars
<1>11. ASSUME NEW r \in Runs, Bootstrap(r) PROVE OnlyOneWorks'
  BY <1>1, <1>11 DEF Bootstrap
<1>12. ASSUME NEW r \in Runs, Register(r) PROVE OnlyOneWorks'
  <2>1. current = 0 /\ hpc = "idle"
    BY <1>12 DEF Register, OneAtATime
  <2>. QED
    BY <1>12, <2>1 DEF Register, OnlyOneWorks, Works
<1>13. ASSUME NEW r \in Runs, RegisterCancel(r) \/ RegisterReplace(r) PROVE OnlyOneWorks'
  BY <1>13 DEF RegisterCancel, RegisterReplace, OneAtATime
<1>14. ASSUME NEW r \in Runs, RegisterLaunch(r) PROVE OnlyOneWorks'
  BY <1>3, <1>14 DEF RegisterLaunch, OneAtATime
<1>15. ASSUME NEW r \in Runs, Lifecycle(r) \/ RuntimeStops(r) \/ FactoryFails(r) \/ RuntimeFails(r)
       PROVE  OnlyOneWorks'
  <2>1. UNCHANGED <<current, hent, hpc>>
    BY <1>15 DEF Lifecycle, Probe, StartRuntime, ReadyHooks, Wait, RuntimeStops, FactoryFails,
                 RuntimeFails, managerUnchanged, wirerVars
  <2>2. CASE Probe(r)
    BY <1>2, <2>1, <2>2 DEF Probe, Works, EntriesType
  <2>3. CASE StartRuntime(r) \/ ReadyHooks(r) \/ Wait(r)
    BY <1>2, <2>1, <2>3 DEF StartRuntime, ReadyHooks, Wait, Works, EntriesType
  <2>4. CASE RuntimeStops(r) \/ FactoryFails(r) \/ RuntimeFails(r)
    BY <1>2, <2>1, <2>4 DEF RuntimeStops, FactoryFails, RuntimeFails, Works, EntriesType
  <2>. QED
    BY <1>15, <2>2, <2>3, <2>4 DEF Lifecycle
<1>16. CASE ChangeFleet \/ ChangeLink \/ Idle \/ UNCHANGED vars
  BY <1>1, <1>16 DEF ChangeFleet, ChangeLink, Idle, vars, wirerVars
<1>. QED
  BY <1>5, <1>6, <1>7, <1>8, <1>9, <1>10, <1>11, <1>12, <1>13, <1>14, <1>15, <1>16
  DEF Next, Handler, Start, Run

-----------------------------------------------------------------------------
\* The inductive invariant holds: types, what holds of each entry, and, until a
\* drop races a registration, the order of the two and the only entry at work.
THEOREM Invariant == Spec => []IInv
<1>1. IInv /\ [Next]_vars => IInv'
  BY TypeStep, EntStep, StopStep, RaceStep, OrderStep, WorksStep DEF IInv
<1>. QED
  BY InitIInv, <1>1, PTL DEF Spec

\* Type correctness of the registry for any number of bootstraps and failures:
\* no interleaving of the event handler, the bootstraps and the lifecycles
\* leaves a dangling handle, an unknown state or a failure count out of range.
THEOREM TypeCorrect == Spec => []TypeOK
<1>1. IInv => TypeOK
  BY DEF IInv
<1>. QED
  BY Invariant, <1>1, PTL

\* Two entries at work are one.
LEMMA AtWork ==
    ASSUME IInv, ~raced, NEW d \in Runs, NEW e \in Runs, Works(d), Works(e)
    PROVE  d = e
<1>1. OneAtATime /\ OnlyOneWorks
  BY DEF IInv
<1>2. hpc \in {"cancel", "wait"} => current = 0
  BY <1>1 DEF OneAtATime
<1>3. 0 \notin Runs
  BY DEF Runs
<1>. QED
  BY <1>1, <1>2, <1>3 DEF OnlyOneWorks

\* At most one runtime works on a cluster, for any number of registrations,
\* drops, outages and failures, until a drop races a registration.
THEOREM OneRuntimeHolds == Spec => []OneRuntimeUnlessRaced
<1>1. IInv => OneRuntimeUnlessRaced
  BY AtWork DEF OneRuntimeUnlessRaced, Works
<1>. QED
  BY Invariant, <1>1, PTL

-----------------------------------------------------------------------------
\* Every step of the manager is a step of what it promises, or none.
LEMMA PromiseStep ==
    ASSUME IInv, [Next]_vars, ~raced'
    PROVE  [Abstract!Next]_Abstract!promise
<1>. ~raced
  BY RaceStep DEF IInv
<1>. ent \in [Runs -> EntriesType] /\ 0 \notin Runs
  BY DEF IInv, TypeOK, Runs
<1>1. ASSUME UNCHANGED told, \A e \in Runs : /\ ent'[e].runtime = "up" <=> ent[e].runtime = "up"
                                             /\ ent'[e].life = "hooks" <=> ent[e].life = "hooks"
      PROVE  UNCHANGED Abstract!promise
  BY <1>1 DEF Abstract!promise, AnyUp, AnyHooks
<1>2. CASE UNCHANGED <<ent, told>>
  BY <1>2 DEF Abstract!promise, AnyUp, AnyHooks
<1>3. ASSUME NEW e \in Runs \cup {0}, CancelEntry(e), UNCHANGED told
      PROVE  UNCHANGED Abstract!promise
  BY <1>1, <1>3 DEF CancelEntry, EntriesType
<1>4. CASE DeregisterDone
  <2>1. hent \in Runs /\ ~Works(hent)
    BY <1>4 DEF DeregisterDone, EntryStopped, IInv, EntOK, StopOK, Works
  <2>2. ~AnyUp /\ ~AnyHooks
    BY <1>4, <2>1 DEF DeregisterDone, IInv, OneAtATime, OnlyOneWorks, Works, AnyUp, AnyHooks
  <2>. QED
    BY <1>4, <2>2 DEF DeregisterDone, Abstract!Next, Abstract!Gone, AnyUp, AnyHooks
<1>5. ASSUME NEW e \in Runs, launch(e), UNCHANGED told
      PROVE  [Abstract!Next]_Abstract!promise
  <2>1. AnyUp' = AnyUp
    BY <1>5 DEF launch, AnyUp, EntriesType
  <2>2. CASE ent[e].life = "hooks"
    <3>1. AnyHooks /\ ~AnyHooks'
      BY <1>5, <2>2, AtWork DEF launch, AnyHooks, EntriesType, Works
    <3>. QED
      BY <1>5, <2>1, <3>1 DEF Abstract!Next, Abstract!HooksReturn, AnyUp, AnyHooks
  <2>3. CASE ent[e].life # "hooks"
    BY <1>1, <1>5, <2>3 DEF launch, EntriesType
  <2>. QED
    BY <2>2, <2>3
<1>6. ASSUME NEW e \in Runs, StartRuntime(e)
      PROVE  [Abstract!Next]_Abstract!promise
  <2>1. Works(e) /\ ent[e].runtime # "up"
    BY <1>6 DEF StartRuntime, Works, IInv, EntOK
  <2>2. ~AnyUp /\ ~AnyHooks
    BY <1>6, <2>1, AtWork DEF StartRuntime, Works, AnyUp, AnyHooks
  <2>3. AnyUp' /\ AnyHooks' /\ told' = "ready"
    BY <1>6 DEF StartRuntime, AnyUp, AnyHooks, EntriesType
  <2>. QED
    BY <2>2, <2>3 DEF Abstract!Next, Abstract!StartUp
<1>7. ASSUME NEW e \in Runs, ReadyHooks(e)
      PROVE  [Abstract!Next]_Abstract!promise
  <2>1. AnyHooks /\ ~AnyHooks' /\ AnyUp' = AnyUp
    BY <1>7, AtWork DEF ReadyHooks, AnyUp, AnyHooks, EntriesType, Works
  <2>. QED
    BY <1>7, <2>1 DEF ReadyHooks, managerUnchanged, Abstract!Next, Abstract!HooksReturn
<1>8. ASSUME NEW e \in Runs, RuntimeStops(e) \/ RuntimeFails(e)
      PROVE  [Abstract!Next]_Abstract!promise
  <2>1. AnyUp /\ ~AnyUp'
    BY <1>8, AtWork DEF RuntimeStops, RuntimeFails, AnyUp, EntriesType, Works
  <2>2. AnyHooks' = AnyHooks /\ UNCHANGED told
    BY <1>8 DEF RuntimeStops, RuntimeFails, managerUnchanged, AnyHooks, EntriesType
  <2>. QED
    BY <2>1, <2>2 DEF Abstract!Next, Abstract!Stop
<1>9. ASSUME NEW e \in Runs, Probe(e) \/ Wait(e) \/ FactoryFails(e)
      PROVE  UNCHANGED Abstract!promise
  BY <1>1, <1>9 DEF Probe, Wait, FactoryFails, managerUnchanged, EntriesType
<1>. QED
  BY <1>2, <1>3, <1>4, <1>5, <1>6, <1>7, <1>8, <1>9
  DEF Next, Handler, HandleReady, HandleDrop, Deregister, DeregisterCancel, Start, StartManager,
      StartPending, Run, Bootstrap, Register, RegisterCancel, RegisterReplace, RegisterLaunch,
      Lifecycle, ChangeFleet, ChangeLink, Idle, vars, IInv, TypeOK, OneAtATime

\* The manager implements SpokeRuntime, what the engine and the drift detector
\* rely on: one runtime at a time, the ready hooks once per start, and the gone
\* hooks only when the runtime and the ready hooks are through, until a drop
\* races a registration.
THEOREM KeepsPromise == Spec => ImplementsSpokeRuntime
<1>1. Init => Abstract!Init
  BY DEF Init, WirerInit, newEntry, Abstract!Init, AnyUp, AnyHooks
<1>2. IInv /\ [Next]_vars => [Abstract!Next \/ raced']_Abstract!promise
  BY PromiseStep
<1>. QED
  BY Invariant, <1>1, <1>2, PTL DEF Spec, ImplementsSpokeRuntime, Abstract!Spec

-----------------------------------------------------------------------------
\* A delay that may be doubled is one of a streak of failures.
TrackerOK(t) ==
    IF t.state \in {"Degraded", "Unreachable"} THEN BaseDelay <= t.delay
    ELSE t.delay = 0 /\ t.failures = 0

TrackersOK == \A e \in Runs : TrackerOK(ent[e].tracker)

\* Observe keeps it so.
LEMMA ObserveOK ==
    ASSUME NEW t \in Trackers, NEW ok \in BOOLEAN, TrackerOK(t)
    PROVE  TrackerOK(Observe(t, ok))
<1>1. t.failures \in Nat /\ t.delay \in Nat
  BY BoundsAssumption DEF Trackers
<1>2. CASE ok
  BY <1>2 DEF Observe, TrackerOK
<1>3. CASE ~ok
  <2>1. Observe(t, ok).state \in {"Degraded", "Unreachable"}
    BY <1>3 DEF Observe
  <2>2. CASE t.failures = 0
    BY <1>3, <2>1, <2>2, BoundsAssumption DEF Observe, TrackerOK
  <2>3. CASE t.failures # 0
    <3>1. BaseDelay <= t.delay
      BY <2>3 DEF TrackerOK
    <3>2. BaseDelay <= MinOf(2 * t.delay, MaxDelay)
      BY <1>1, <3>1, BoundsAssumption DEF MinOf
    <3>. QED
      BY <1>3, <2>1, <2>3, <3>2 DEF Observe, TrackerOK
  <2>. QED
    BY <2>2, <2>3
<1>. QED
  BY <1>2, <1>3

\* The delay between failed probes stays between the base delay and the cap, for
\* any base, cap and threshold, across streaks of failures.
THEOREM BackoffHolds == Spec => []BackoffBounded
<1>1. Init => TrackersOK
  BY DEF Init, WirerInit, newEntry, newBackoffTracker, TrackersOK, TrackerOK
<1>2. TypeOK /\ TrackersOK /\ [Next]_vars => TrackersOK'
  <2>. SUFFICES ASSUME TypeOK, TrackersOK, [Next]_vars PROVE TrackersOK'
    OBVIOUS
  <2>. ent \in [Runs -> EntriesType] /\ spokeUp \in BOOLEAN
    BY DEF TypeOK
  <2>1. ASSUME \A e \in Runs : ent'[e].tracker = ent[e].tracker PROVE TrackersOK'
    BY <2>1 DEF TrackersOK
  <2>2. ASSUME NEW r \in Runs, Probe(r) PROVE TrackersOK'
    <3>1. ent[r].tracker \in Trackers
      BY DEF EntriesType
    <3>2. TrackerOK(Observe(ent[r].tracker, spokeUp))
      BY <3>1, ObserveOK DEF TrackersOK
    <3>3. \A e \in Runs : \/ ent'[e].tracker = ent[e].tracker
                          \/ e = r /\ ent'[e].tracker = Observe(ent[r].tracker, spokeUp)
      BY <2>2 DEF Probe, EntriesType
    <3>. QED
      BY <3>2, <3>3 DEF TrackersOK
  <2>3. ASSUME NEW e \in Runs \cup {0}, CancelEntry(e) \/ launch(e) PROVE TrackersOK'
    BY <2>1, <2>3 DEF CancelEntry, launch, EntriesType
  <2>4. ASSUME NEW e \in Runs, \/ StartRuntime(e) \/ ReadyHooks(e) \/ Wait(e) \/ RuntimeStops(e)
                               \/ FactoryFails(e) \/ RuntimeFails(e)
        PROVE  TrackersOK'
    BY <2>1, <2>4 DEF StartRuntime, ReadyHooks, Wait, RuntimeStops, FactoryFails, RuntimeFails,
                      EntriesType
  <2>5. CASE UNCHANGED ent
    BY <2>1, <2>5
  <2>. QED
    BY <2>2, <2>3, <2>4, <2>5 DEF TypeOK, Next, Handler, HandleReady, HandleDrop, Deregister,
       DeregisterCancel, DeregisterDone, Start, StartManager, StartPending, Run, Bootstrap, Register,
       RegisterCancel, RegisterReplace, RegisterLaunch, Lifecycle, ChangeFleet, ChangeLink, Idle, vars
<1>3. TypeOK /\ TrackersOK => BackoffBounded
  <2>. SUFFICES ASSUME TypeOK, TrackersOK, NEW e \in Runs
                PROVE  LET t == ent[e].tracker
                       IN  IF t.state \in {"Degraded", "Unreachable"}
                           THEN BaseDelay <= t.delay /\ t.delay <= MaxDelay
                           ELSE t.delay = 0
    BY DEF BackoffBounded
  <2>1. ent[e].tracker.delay \in 0..MaxDelay
    BY DEF TypeOK, EntriesType, Trackers
  <2>. QED
    BY <2>1, BoundsAssumption DEF TrackersOK, TrackerOK
<1>4. IInv => TypeOK
  BY DEF IInv
<1>. QED
  BY Invariant, <1>1, <1>2, <1>3, <1>4, PTL DEF Spec

=============================================================================
