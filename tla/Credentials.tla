---------------------------- MODULE Credentials ----------------------------
(***************************************************************************)
(* How the operator gets and keeps a credential for ONE spoke: the         *)
(* one-shot bootstrap of internal/cluster/bootstrap.go with the admin      *)
(* kubeconfig, and the Rotator of internal/cluster/token.go, from which    *)
(* every request to the spoke (rotatingAuth in cmd/main.go) takes a        *)
(* short-lived token of the operator's ServiceAccount.                     *)
(*                                                                         *)
(* Time is relative: a token has an age, the lifetime the hub's clock      *)
(* gives it and the one the spoke gives it, which differ by the skew of    *)
(* the two clocks.  The manager probes the spoke through the Rotator far   *)
(* more often than a token has to be refreshed: once per tick at least.    *)
(* Rotator.Run is never started.  Config holds a lock, so one process      *)
(* stands for all requests.  What the spoke does (mint, accept) is         *)
(* external.  Ensure and Drop are the two things the discovery handler may *)
(* do to a spoke; Onboarding says when it does them.                       *)
(***************************************************************************)
EXTENDS Integers, FiniteSets

CONSTANTS
    TTL,             \* DefaultTokenTTL, in ticks
    Num, Den,        \* DefaultRefreshFraction, Num/Den
    Skews,           \* how far the spoke's clock may be ahead of the hub's
    MaxMint,         \* how many ticks a mint may take
    AgeCap,          \* ages from here on are not told apart
    Scopes,          \* the kind allowlists the operator is run with
    Disturbances,    \* the kinds of environment steps that happen
    MaxDisturbances  \* how many of them

\* The skew is small against the part of the lifetime that refreshing early
\* saves, and a mint is short.
ASSUME CredentialsAssumption ==
    /\ TTL \in Nat /\ MaxMint \in Nat /\ AgeCap \in Nat /\ MaxDisturbances \in Nat
    /\ MaxMint < TTL
    /\ Num \in Nat /\ Den \in Nat /\ Num <= Den
    /\ Skews \subseteq Int
    /\ \A s \in Skews :
        /\ Num * s <= (Den - Num) * TTL
        /\ TTL + MaxMint <= AgeCap /\ TTL + s + MaxMint <= AgeCap
    /\ "none" \notin Scopes

\* By either clock that part is enough for a probe and a mint.
ASSUME SlackAssumption ==
    \A s \in Skews :
        /\ Num * (TTL + s + MaxMint) + Den * (1 + MaxMint) <= Den * TTL
        /\ Den <= (Den - Num) * (TTL + s)
        /\ 2 * MaxMint + 1 < TTL /\ MaxMint + 1 < TTL + s

VARIABLES
    spokeUp,    \* the spoke answers
    skew,       \* its clock
    admin,      \* the admin credential in the hub's Secret: its renewal
    objects,    \* what the bootstrap has created on the spoke
    role,       \* the kinds the ClusterRole grants, or "none"
    scope,      \* RBACScope of this process
    bpc,        \* the bootstrap's next call, "served" once registered, or "off"
    found,      \* UpdateRBAC has found a ClusterRole
    loaded,     \* the admin credential the bootstrap has loaded, or 0
    token,      \* the Rotator's token
    mint,       \* the mint that is under way
    last,       \* what came of the last request
    probed,     \* a request was made in this tick
    outage,     \* history: the spoke was away since the last mint
    tampered,   \* history: something was deleted on the spoke since the start
    budget      \* disturbances left

spokeVars == <<objects, role>>
processVars == <<scope, bpc, found, loaded>>
rotatorVars == <<token, mint, last, probed>>
outsideVars == <<spokeUp, skew, admin, tampered, budget>>
vars == <<spokeUp, skew, admin, objects, role, scope, bpc, found, loaded, token, mint, last, probed,
          outage, tampered, budget>>

Names == {"namespace", "serviceaccount", "clusterrolebinding", "tokenrole", "tokenrolebinding"}

\* Bootstrap's calls, in order.
Calls == {"off", "load", "namespace", "serviceaccount", "getrole", "putrole", "clusterrolebinding",
          "tokenrole", "tokenrolebinding", "prime", "served"}

after == [load |-> "namespace", namespace |-> "serviceaccount", serviceaccount |-> "getrole",
          getrole |-> "putrole", putrole |-> "clusterrolebinding",
          clusterrolebinding |-> "tokenrole", tokenrole |-> "tokenrolebinding",
          tokenrolebinding |-> "prime", prime |-> "served"]

noToken == [held |-> FALSE, age |-> 0, life |-> 0, real |-> 0]
noMint == [with |-> "none", took |-> 0]

TypeOK ==
    /\ spokeUp \in BOOLEAN /\ skew \in Skews /\ admin \in Nat
    /\ objects \subseteq Names /\ role \in Scopes \cup {"none"}
    /\ scope \in Scopes /\ bpc \in Calls /\ found \in BOOLEAN /\ loaded \in Nat
    /\ token \in [held : BOOLEAN, age : Nat, life : Int, real : Int]
    /\ mint \in [with : {"none", "token", "admin"}, took : 0..MaxMint]
    /\ last \in {"none", "ok", "unreachable", "failed", "rejected"}
    /\ probed \in BOOLEAN /\ outage \in BOOLEAN /\ tampered \in BOOLEAN
    /\ budget \in 0..MaxDisturbances

Init ==
    /\ spokeUp = TRUE
    /\ skew \in Skews
    /\ admin = 1
    /\ objects = {} /\ role = "none"
    /\ scope \in Scopes
    /\ bpc = "off" /\ found = FALSE /\ loaded = 0
    /\ token = noToken /\ mint = noMint
    /\ last = "none" /\ probed = FALSE
    /\ outage = FALSE /\ tampered = FALSE
    /\ budget = MaxDisturbances

-----------------------------------------------------------------------------
\* Bootstrap

\* The spoke serves a call made with the admin credential that was loaded.
Admitted == spokeUp /\ loaded = admin

\* Nothing of a spoke is kept.
Forget ==
    /\ bpc' = "off" /\ found' = FALSE /\ loaded' = 0
    /\ token' = noToken /\ mint' = noMint /\ last' = "none" /\ probed' = FALSE
    /\ outage' = FALSE

\* ensure: unless there is one, a bootstrap starts.
Ensure ==
    /\ bpc' = IF bpc = "off" THEN "load" ELSE bpc
    /\ UNCHANGED <<scope, found, loaded, spokeVars, rotatorVars, outage, outsideVars>>

\* drop: the bootstrap is cancelled, the runtime and its Rotator go.
Drop == Forget /\ UNCHANGED <<scope, spokeVars, outsideVars>>

\* LoadAdminConfig, at the start of every attempt.
LoadAdminConfig ==
    /\ bpc = "load"
    /\ loaded' = admin
    /\ bpc' = after["load"]
    /\ UNCHANGED <<scope, found, spokeVars, rotatorVars, outage, outsideVars>>

\* What an object needs to be there before it can be created.
needs(name) == IF name \in {"serviceaccount", "tokenrole", "tokenrolebinding"} THEN {"namespace"} ELSE {}

\* Mutant: an object that exists is an error.
CreatesNew(name) == Admitted /\ needs(name) \subseteq objects /\ name \notin objects

\* ensureNamespace and the other four succeed; AlreadyExists is fine.
ensures(name) == Admitted /\ needs(name) \subseteq objects

EnsureObject ==
    /\ bpc \in Names
    /\ ensures(bpc)
    /\ objects' = objects \cup {bpc}
    /\ bpc' = after[bpc]
    /\ UNCHANGED <<role, scope, found, loaded, rotatorVars, outage, outsideVars>>

\* UpdateRBAC: read, then create or replace.
GetRole ==
    /\ bpc = "getrole" /\ Admitted
    /\ found' = (role # "none")
    /\ bpc' = after[bpc]
    /\ UNCHANGED <<spokeVars, scope, loaded, rotatorVars, outage, outsideVars>>

\* Mutant: a ClusterRole that exists is left alone.
CreateRole ==
    /\ bpc = "putrole" /\ Admitted
    /\ role' = IF role = "none" THEN scope ELSE role
    /\ bpc' = after[bpc]
    /\ UNCHANGED <<objects, scope, found, loaded, rotatorVars, outage, outsideVars>>

UpdateRBAC ==
    /\ bpc = "putrole" /\ Admitted
    /\ found => role # "none"
    /\ role' = IF found \/ role = "none" THEN scope ELSE role
    /\ bpc' = after[bpc]
    /\ UNCHANGED <<objects, scope, found, loaded, rotatorVars, outage, outsideVars>>

\* An attempt fails at any call; the next one starts from the beginning.
AttemptFails ==
    /\ bpc \notin {"off", "load", "served"}
    /\ mint.with = "none"
    /\ \/ ~Admitted
       \/ bpc \in Names /\ ~ensures(bpc)
       \/ bpc = "putrole" /\ found /\ role = "none"
    /\ bpc' = "load"
    /\ UNCHANGED <<spokeVars, scope, found, loaded, rotatorVars, outage, outsideVars>>

-----------------------------------------------------------------------------
\* Rotator

\* Mutant: a token is used up to its last moment.
AtExpiry == token.age >= token.life

\* now is not before refreshDeadline.
pastDeadline == Den * token.age >= Num * token.life

needsRefresh == ~token.held \/ pastDeadline

\* Mutant: the admin credential mints every token.
MintAdmin == "admin"

\* Mutant: a token that has expired is still tried.
MintToken == IF token.held THEN "token" ELSE "admin"

\* refreshLocked: with the token while the hub's clock says it is valid, else
\* with the bootstrap credential.
mintCfg == IF token.held /\ token.age < token.life THEN "token" ELSE "admin"

\* The spoke takes the token.
Accepted == "serviceaccount" \in objects /\ token.age < token.real

\* Config, called by BootstrapSpoke and for every request, starts a mint.
Refresh ==
    /\ bpc \in {"prime", "served"}
    /\ mint.with = "none" /\ ~probed
    /\ needsRefresh
    /\ mint' = [with |-> mintCfg, took |-> 0]
    /\ probed' = TRUE
    /\ UNCHANGED <<spokeVars, processVars, token, last, outage, outsideVars>>

\* The credential of the mint is good for a token request.
MayMint ==
    /\ spokeUp /\ "serviceaccount" \in objects
    /\ \/ mint.with = "admin" /\ loaded = admin
       \/ mint.with = "token" /\ Accepted /\ {"tokenrole", "tokenrolebinding"} \subseteq objects

\* The token is stamped at some moment of the mint, and the request goes out.
MintSucceeds ==
    /\ mint.with # "none" /\ MayMint
    /\ \E d \in 0..mint.took :
        token' = [held |-> TRUE, age |-> mint.took, life |-> d + skew + TTL, real |-> d + TTL]
    /\ mint' = noMint
    /\ outage' = FALSE
    /\ last' = IF "serviceaccount" \in objects /\ token'.age < token'.real THEN "ok" ELSE "rejected"
    /\ bpc' = "served"
    /\ UNCHANGED <<spokeVars, scope, found, loaded, probed, outsideVars>>

\* A mint that fails fails the request; when it was the first, the attempt.
MintFails ==
    /\ mint.with # "none" /\ ~MayMint
    /\ mint' = noMint
    /\ last' = IF spokeUp THEN "failed" ELSE "unreachable"
    /\ bpc' = IF bpc = "prime" THEN "load" ELSE bpc
    /\ UNCHANGED <<spokeVars, scope, found, loaded, token, probed, outage, outsideVars>>

\* rotatingAuth.RoundTrip with a token that need not be refreshed.
RoundTrip ==
    /\ bpc = "served"
    /\ mint.with = "none" /\ ~probed
    /\ ~needsRefresh
    /\ last' = IF ~spokeUp THEN "unreachable" ELSE IF Accepted THEN "ok" ELSE "rejected"
    /\ probed' = TRUE
    /\ UNCHANGED <<spokeVars, processVars, token, mint, outage, outsideVars>>

MinOf(a, b) == IF a < b THEN a ELSE b

\* Time passes; a mint ends in time, and every tick sees a request.
Tick ==
    /\ bpc = "served" => probed
    /\ mint.with # "none" => mint.took < MaxMint
    /\ token' = IF token.held THEN [token EXCEPT !.age = MinOf(@ + 1, AgeCap)] ELSE token
    /\ mint' = IF mint.with = "none" THEN mint ELSE [mint EXCEPT !.took = @ + 1]
    /\ probed' = (mint.with # "none")
    /\ UNCHANGED <<spokeVars, processVars, last, outage, outsideVars>>

Operator ==
    \/ LoadAdminConfig \/ EnsureObject \/ GetRole \/ UpdateRBAC \/ AttemptFails
    \/ Refresh \/ MintSucceeds \/ MintFails \/ RoundTrip

-----------------------------------------------------------------------------
\* The environment

Disturb(kind) ==
    /\ kind \in Disturbances
    /\ budget > 0
    /\ budget' = budget - 1

\* The spoke goes away; it may come back.
LinkDown ==
    /\ Disturb("link")
    /\ spokeUp /\ spokeUp' = FALSE
    /\ outage' = TRUE
    /\ UNCHANGED <<skew, admin, spokeVars, processVars, rotatorVars, tampered>>

LinkUp ==
    /\ ~spokeUp /\ spokeUp' = TRUE
    /\ UNCHANGED <<skew, admin, spokeVars, processVars, rotatorVars, outage, tampered, budget>>

\* The provider renews the admin credential; the one before is void.
RenewAdmin ==
    /\ Disturb("admin")
    /\ admin' = admin + 1
    /\ UNCHANGED <<spokeUp, skew, spokeVars, processVars, rotatorVars, outage, tampered>>

\* Somebody deletes the namespace on the spoke with all that is in it, or the
\* ClusterRole.
Tamper ==
    /\ Disturb("tamper")
    /\ \/ /\ "namespace" \in objects
          /\ objects' = {n \in objects : n # "namespace" /\ needs(n) = {}}
          /\ token' = [token EXCEPT !.real = 0]
          /\ UNCHANGED role
       \/ role # "none" /\ role' = "none" /\ UNCHANGED <<objects, token>>
    /\ tampered' = TRUE
    /\ UNCHANGED <<spokeUp, skew, admin, processVars, mint, last, probed, outage>>

\* The operator restarts, perhaps with another allowlist.
Restart ==
    /\ scope' \in Scopes
    /\ Forget
    /\ tampered' = FALSE
    /\ UNCHANGED <<spokeUp, skew, admin, spokeVars>>

Crash == Disturb("restart") /\ Restart

Next ==
    \/ Operator \/ Tick \/ Ensure \/ Drop
    \/ LinkDown \/ LinkUp \/ RenewAdmin \/ Tamper \/ Crash

Spec == Init /\ [][Next]_vars

-----------------------------------------------------------------------------
\* Properties

\* The token of a request is one the spoke accepts, although the two clocks
\* differ and the refresh takes time, unless somebody deleted the account.
TokenAccepted == ~tampered => last # "rejected"

\* Once the spoke is in use, the admin credential is not used again unless the
\* spoke was away since the last mint or something was deleted on it.
AdminOneShot == bpc = "served" /\ mint.with = "admin" => outage \/ tampered

\* A spoke is used only when the ClusterRole grants the kinds this process was
\* started with, whatever an earlier one left there.
ScopeHeld == bpc = "served" /\ ~tampered => role = scope

\* Once disturbances cease, requests succeed again, as long as what the
\* bootstrap made is there and the token or the admin credential is still good.
RequestsSucceed ==
    <>[](spokeUp /\ ~tampered /\ bpc = "served" /\ (loaded = admin \/ Accepted) => last = "ok")

=============================================================================
