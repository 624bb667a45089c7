-------------------------- MODULE OnboardingProofs --------------------------
(***************************************************************************)
(* Proofs about Credentials, for every lifetime, refresh fraction, skew    *)
(* and mint time that the assumptions allow; and about Onboarding, for any *)
(* number of Cluster objects and whatever conditions, labels and versions  *)
(* they have.                                                              *)
(***************************************************************************)
EXTENDS Onboarding, FiniteSetTheorems, TLAPS

\* Calls that come after the ClusterRole was written, and after the account
\* was ensured.
RoleDone == {"clusterrolebinding", "tokenrole", "tokenrolebinding", "prime", "served"}
AccountDone == RoleDone \cup {"getrole", "putrole"}

\* What the bootstrap has done by each call, unless somebody undid it.
BootInv ==
    ~tampered =>
        /\ bpc \in RoleDone => role = scope
        /\ bpc = "putrole" => (found <=> role # "none")
        /\ bpc \in AccountDone => "serviceaccount" \in objects
        /\ bpc \in {"tokenrolebinding", "prime", "served"} => "tokenrole" \in objects
        /\ bpc \in {"prime", "served"} => "tokenrolebinding" \in objects

\* A token is held exactly while the spoke is in use, its two lifetimes differ
\* by the skew, and requests are accepted.
TokenInv ==
    /\ token.held <=> bpc = "served"
    /\ mint.with # "none" => bpc \in {"prime", "served"}
    /\ ~tampered /\ token.held =>
        /\ token.life = token.real + skew
        /\ TTL <= token.real /\ token.real <= TTL + MaxMint
    /\ ~tampered => last # "rejected"

\* The ticks that may have passed since the last request was made.
Late == IF mint.with # "none" THEN 1 + mint.took ELSE IF probed THEN 0 ELSE 1

\* A spoke that was not away and not touched: the token is young, or not
\* further past its deadline than that.
InTime == token.age <= MaxMint + Late \/ Den * token.age < Num * token.life + Den * Late

TimeInv ==
    ~tampered /\ ~outage /\ bpc = "served" => spokeUp /\ mint.with # "admin" /\ InTime

IInv == TypeOK /\ BootInv /\ TokenInv /\ TimeInv

-----------------------------------------------------------------------------
\* Arithmetic

\* A factor that is not negative keeps an order.
LEMMA TimesKeeps ==
    ASSUME NEW a \in Int, NEW b \in Int, NEW c \in Nat, a <= b
    PROVE  c * a <= c * b
BY SMT

\* A strict order of products is one of the factors.
LEMMA TimesCancels ==
    ASSUME NEW a \in Int, NEW b \in Int, NEW c \in Nat, c * a < c * b
    PROVE  a < b
<1>1. b <= a => c * b <= c * a
  BY TimesKeeps
<1>. QED
  BY <1>1

\* A token that is not past its refresh deadline by the hub's clock is one
\* that the spoke's clock has not ended.
LEMMA Fresh ==
    ASSUME NEW s \in Skews, NEW age \in Nat, NEW real \in Int, TTL <= real,
           Den * age < Num * (real + s)
    PROVE  age < real
<1>. USE CredentialsAssumption
<1>1. s \in Int /\ TTL \in Nat /\ Num \in Nat /\ Den - Num \in Nat /\ Den \in Nat
  OBVIOUS
<1>2. Num * s <= (Den - Num) * TTL
  OBVIOUS
<1>3. (Den - Num) * TTL <= (Den - Num) * real
  BY <1>1, TimesKeeps
<1>4. Num * (real + s) = Num * real + Num * s /\ (Den - Num) * real = Den * real - Num * real
  BY <1>1
<1>5. Den * age < Den * real
  BY <1>1, <1>2, <1>3, <1>4
<1>. QED
  BY <1>1, <1>5, TimesCancels

\* Nor has it ended one for which a mint, started in the tick after the
\* deadline, is under way.
LEMMA StillAccepted ==
    ASSUME NEW s \in Skews, NEW age \in Nat, NEW real \in Int, NEW took \in 0..MaxMint,
           TTL <= real, real <= TTL + MaxMint,
           Den * age < Num * (real + s) + Den * (1 + took)
    PROVE  age < real
<1>. USE CredentialsAssumption
<1>1. s \in Int /\ TTL \in Nat /\ Num \in Nat /\ Den \in Nat /\ MaxMint \in Nat
  OBVIOUS
<1>2. Num * (TTL + s + MaxMint) + Den * (1 + MaxMint) <= Den * TTL
  BY SlackAssumption
<1>3. Num * (real + s) <= Num * (TTL + s + MaxMint)
  BY <1>1, TimesKeeps
<1>4. Den * (1 + took) <= Den * (1 + MaxMint)
  BY <1>1, TimesKeeps
<1>5. Den * TTL <= Den * real
  BY <1>1, TimesKeeps
<1>6. Den * age < Den * real
  BY <1>1, <1>2, <1>3, <1>4, <1>5
<1>. QED
  BY <1>1, <1>6, TimesCancels

\* In the tick after the deadline the hub's clock has not ended it either.
LEMMA StillValid ==
    ASSUME NEW s \in Skews, NEW age \in Nat, NEW life \in Int, TTL + s <= life,
           Den * age < Num * life + Den
    PROVE  age < life
<1>. USE CredentialsAssumption
<1>1. s \in Int /\ TTL \in Nat /\ Num \in Nat /\ Den \in Nat /\ Den - Num \in Nat
  OBVIOUS
<1>2. Den <= (Den - Num) * (TTL + s)
  BY SlackAssumption
<1>3. (Den - Num) * (TTL + s) <= (Den - Num) * life
  BY <1>1, TimesKeeps
<1>4. (Den - Num) * life = Den * life - Num * life
  BY <1>1
<1>5. Den * age < Den * life
  BY <1>1, <1>2, <1>3, <1>4
<1>. QED
  BY <1>1, <1>5, TimesCancels

-----------------------------------------------------------------------------
\* The inductive invariant

\* The types of the constants.
LEMMA Constants ==
    /\ TTL \in Nat /\ MaxMint \in Nat /\ AgeCap \in Nat /\ MaxDisturbances \in Nat
    /\ Skews \subseteq Int /\ "none" \notin Scopes
BY CredentialsAssumption

\* It holds at the start.
LEMMA InitInv == Init => IInv
<1>. SUFFICES ASSUME Init PROVE IInv
  OBVIOUS
<1>1. token = [held |-> FALSE, age |-> 0, life |-> 0, real |-> 0]
      /\ mint = [with |-> "none", took |-> 0]
  BY DEF Init, noToken, noMint
<1>2. token \in [held : BOOLEAN, age : Nat, life : Int, real : Int]
  BY <1>1
<1>3. mint \in [with : {"none", "token", "admin"}, took : 0..MaxMint]
  BY <1>1, Constants
<1>7. budget \in 0..MaxDisturbances
  BY Constants DEF Init
<1>8. /\ spokeUp \in BOOLEAN /\ found \in BOOLEAN /\ probed \in BOOLEAN /\ outage \in BOOLEAN
      /\ tampered \in BOOLEAN
  BY DEF Init
<1>4. TypeOK
  BY <1>2, <1>3, <1>7, <1>8 DEF Init, TypeOK, Calls
<1>5. BootInv /\ TimeInv
  BY DEF Init, BootInv, TimeInv, RoleDone, AccountDone
<1>6. TokenInv
  BY <1>1 DEF Init, TokenInv
<1>. QED
  BY <1>4, <1>5, <1>6 DEF IInv

\* Types are kept.
LEMMA TypeStep == TypeOK /\ [Next]_vars => TypeOK'
<1>. SUFFICES ASSUME TypeOK, [Next]_vars PROVE TypeOK'
  OBVIOUS
<1>. USE Constants DEF TypeOK
<1>1. CASE UNCHANGED vars
  BY <1>1 DEF vars
<1>2. CASE LoadAdminConfig \/ AttemptFails
  BY <1>2 DEF LoadAdminConfig, AttemptFails, after, Calls, spokeVars, rotatorVars, outsideVars
<1>11. CASE EnsureObject
  BY <1>11 DEF EnsureObject, after, Names, Calls, rotatorVars, outsideVars
<1>12. CASE GetRole
  <2>1. found' \in BOOLEAN
    BY <1>12 DEF GetRole
  <2>. QED
    BY <1>12, <2>1 DEF GetRole, after, Calls, spokeVars, rotatorVars, outsideVars
<1>13. CASE UpdateRBAC
  BY <1>13 DEF UpdateRBAC, after, Calls, rotatorVars, outsideVars
<1>3. CASE Refresh \/ RoundTrip
  <2>1. mint' \in [with : {"none", "token", "admin"}, took : 0..MaxMint]
    BY <1>3 DEF Refresh, RoundTrip, mintCfg
  <2>. QED
    BY <1>3, <2>1 DEF Refresh, RoundTrip, spokeVars, processVars, outsideVars
<1>4. CASE MintSucceeds
  <2>1. PICK d \in 0..mint.took :
            token' = [held |-> TRUE, age |-> mint.took, life |-> d + skew + TTL, real |-> d + TTL]
    BY <1>4 DEF MintSucceeds
  <2>2. token' \in [held : BOOLEAN, age : Nat, life : Int, real : Int]
    BY <2>1
  <2>3. mint' \in [with : {"none", "token", "admin"}, took : 0..MaxMint]
    BY <1>4 DEF MintSucceeds, noMint
  <2>. QED
    BY <1>4, <2>2, <2>3 DEF MintSucceeds, spokeVars, outsideVars, Calls
<1>5. CASE MintFails
  <2>1. mint' \in [with : {"none", "token", "admin"}, took : 0..MaxMint]
    BY <1>5 DEF MintFails, noMint
  <2>. QED
    BY <1>5, <2>1 DEF MintFails, spokeVars, outsideVars, Calls
<1>6. CASE Tick
  <2>1. token' \in [held : BOOLEAN, age : Nat, life : Int, real : Int]
    BY <1>6 DEF Tick, MinOf
  <2>2. mint' \in [with : {"none", "token", "admin"}, took : 0..MaxMint]
    BY <1>6 DEF Tick
  <2>. QED
    BY <1>6, <2>1, <2>2 DEF Tick, spokeVars, processVars, outsideVars
<1>7. CASE Ensure
  BY <1>7 DEF Ensure, spokeVars, rotatorVars, outsideVars, Calls
<1>8. CASE Drop \/ Crash
  <2>1. Forget /\ scope' \in Scopes
    BY <1>8 DEF Drop, Crash, Restart, outsideVars
  <2>2. UNCHANGED <<spokeUp, skew, admin, objects, role>>
    BY <1>8 DEF Drop, Crash, Restart, outsideVars, spokeVars
  <2>3. budget' \in 0..MaxDisturbances
    BY <1>8 DEF Drop, Crash, Disturb, outsideVars
  <2>7. tampered' \in BOOLEAN
    BY <1>8 DEF Drop, Crash, Restart, outsideVars
  <2>4. token' = [held |-> FALSE, age |-> 0, life |-> 0, real |-> 0]
        /\ mint' = [with |-> "none", took |-> 0]
    BY <2>1 DEF Forget, noToken, noMint
  <2>5. token' \in [held : BOOLEAN, age : Nat, life : Int, real : Int]
    BY <2>4
  <2>6. mint' \in [with : {"none", "token", "admin"}, took : 0..MaxMint]
    BY <2>4
  <2>. QED
    BY <2>1, <2>2, <2>3, <2>5, <2>6, <2>7 DEF Forget, Calls
<1>9. CASE LinkDown
  <2>1. budget' \in 0..MaxDisturbances
    BY <1>9 DEF LinkDown, Disturb
  <2>2. spokeUp' \in BOOLEAN /\ outage' \in BOOLEAN
    BY <1>9 DEF LinkDown
  <2>. QED
    BY <1>9, <2>1, <2>2 DEF LinkDown, spokeVars, processVars, rotatorVars
<1>14. CASE LinkUp
  BY <1>14 DEF LinkUp, spokeVars, processVars, rotatorVars
<1>15. CASE RenewAdmin
  BY <1>15 DEF RenewAdmin, Disturb, spokeVars, processVars, rotatorVars
<1>10. CASE Tamper
  <2>1. token' \in [held : BOOLEAN, age : Nat, life : Int, real : Int]
    BY <1>10 DEF Tamper
  <2>. QED
    BY <1>10, <2>1 DEF Tamper, Disturb, processVars
<1>. QED
  BY <1>1, <1>2, <1>3, <1>4, <1>5, <1>6, <1>7, <1>8, <1>9, <1>10, <1>11, <1>12, <1>13, <1>14,
     <1>15 DEF Next, Operator

\* What the bootstrap did stays done.
LEMMA BootStep == TypeOK /\ TokenInv /\ BootInv /\ [Next]_vars => BootInv'
<1>. SUFFICES ASSUME TypeOK, TokenInv, BootInv, [Next]_vars PROVE BootInv'
  OBVIOUS
<1>. USE Constants DEF BootInv, RoleDone, AccountDone
<1>1. CASE UNCHANGED vars
  BY <1>1 DEF vars
<1>2. CASE LoadAdminConfig \/ AttemptFails
  BY <1>2 DEF LoadAdminConfig, AttemptFails, after, outsideVars
<1>3. CASE EnsureObject
  BY <1>3 DEF EnsureObject, after, Names, outsideVars
<1>4. CASE GetRole
  BY <1>4 DEF GetRole, after, spokeVars, outsideVars
<1>5. CASE UpdateRBAC
  BY <1>5 DEF UpdateRBAC, after, outsideVars
<1>6. CASE Refresh \/ RoundTrip \/ Tick \/ LinkDown \/ LinkUp \/ RenewAdmin
  BY <1>6 DEF Refresh, RoundTrip, Tick, LinkDown, LinkUp, RenewAdmin, spokeVars, processVars,
     outsideVars
<1>7. CASE MintSucceeds \/ MintFails
  BY <1>7 DEF MintSucceeds, MintFails, TokenInv, spokeVars, outsideVars
<1>8. CASE Ensure
  BY <1>8 DEF Ensure, spokeVars, outsideVars
<1>9. CASE Drop \/ Crash
  BY <1>9 DEF Drop, Crash, Restart, Forget
<1>10. CASE Tamper
  BY <1>10 DEF Tamper
<1>. QED
  BY <1>1, <1>2, <1>3, <1>4, <1>5, <1>6, <1>7, <1>8, <1>9, <1>10 DEF Next, Operator

\* A token that a mint gives out is accepted, and its lifetimes differ by the
\* skew.
LEMMA MintedToken ==
    ASSUME TypeOK, MintSucceeds
    PROVE  /\ token'.held /\ token'.age = mint.took
           /\ token'.life = token'.real + skew
           /\ TTL <= token'.real /\ token'.real <= TTL + MaxMint
           /\ token'.age < token'.real
           /\ last' = "ok"
<1>1. PICK d \in 0..mint.took :
        token' = [held |-> TRUE, age |-> mint.took, life |-> d + skew + TTL, real |-> d + TTL]
  BY DEF MintSucceeds
<1>2. mint.took \in 0..MaxMint /\ skew \in Int /\ TTL \in Nat /\ MaxMint \in Nat /\ MaxMint < TTL
  BY CredentialsAssumption DEF TypeOK
<1>3. /\ token'.held /\ token'.age = mint.took
      /\ token'.life = d + skew + TTL /\ token'.real = d + TTL
  BY <1>1
<1>4. token'.age < token'.real
  BY <1>2, <1>3
<1>5. last' = "ok"
  BY <1>4 DEF MintSucceeds, MayMint
<1>. QED
  BY <1>2, <1>3, <1>4, <1>5

\* A request with a token that need not be refreshed is accepted.
LEMMA FreshAccepted ==
    ASSUME TypeOK, BootInv, TokenInv, ~tampered, bpc = "served", ~needsRefresh
    PROVE  Accepted
<1>1. token.held /\ Den * token.age < Num * token.life
  <2>1. token.held /\ ~(Den * token.age >= Num * token.life)
    BY DEF needsRefresh, pastDeadline
  <2>2. Den * token.age \in Int /\ Num * token.life \in Int
    BY CredentialsAssumption DEF TypeOK
  <2>. QED
    BY <2>1, <2>2
<1>2. token.life = token.real + skew /\ TTL <= token.real
  BY <1>1 DEF TokenInv
<1>3. token.age \in Nat /\ token.real \in Int /\ skew \in Skews
  BY DEF TypeOK
<1>4. token.age < token.real
  BY <1>1, <1>2, <1>3, Fresh
<1>5. "serviceaccount" \in objects
  BY DEF BootInv, AccountDone, RoleDone
<1>. QED
  BY <1>4, <1>5 DEF Accepted

\* The token's part of the invariant is kept.
LEMMA TokenStep == TypeOK /\ BootInv /\ TokenInv /\ [Next]_vars => TokenInv'
<1>. SUFFICES ASSUME TypeOK, BootInv, TokenInv, [Next]_vars PROVE TokenInv'
  OBVIOUS
<1>1. CASE UNCHANGED vars
  BY <1>1 DEF vars, TokenInv
<1>2. CASE LoadAdminConfig \/ AttemptFails
  BY <1>2 DEF TokenInv, LoadAdminConfig, AttemptFails, after, rotatorVars, outsideVars
<1>3. CASE EnsureObject
  BY <1>3 DEF TokenInv, EnsureObject, after, Names, rotatorVars, outsideVars
<1>4. CASE GetRole \/ UpdateRBAC
  BY <1>4 DEF TokenInv, GetRole, UpdateRBAC, after, rotatorVars, outsideVars
<1>5. CASE Refresh
  BY <1>5 DEF TokenInv, Refresh, processVars, outsideVars
<1>6. CASE RoundTrip
  <2>1. ~tampered => last' # "rejected"
    BY <1>6, FreshAccepted DEF RoundTrip
  <2>. QED
    BY <1>6, <2>1 DEF TokenInv, RoundTrip, processVars, outsideVars
<1>7. CASE MintSucceeds
  <2>1. mint'.with = "none"
    BY <1>7 DEF MintSucceeds, noMint
  <2>. QED
    BY <1>7, <2>1, MintedToken DEF TokenInv, MintSucceeds, outsideVars
<1>8. CASE MintFails
  <2>1. mint'.with = "none"
    BY <1>8 DEF MintFails, noMint
  <2>. QED
    BY <1>8, <2>1 DEF TokenInv, MintFails, outsideVars
<1>9. CASE Tick
  <2>1. mint'.with = mint.with
    BY <1>9 DEF Tick, TypeOK
  <2>2. token'.held = token.held /\ token'.life = token.life /\ token'.real = token.real
    BY <1>9 DEF Tick, TypeOK
  <2>. QED
    BY <1>9, <2>1, <2>2 DEF TokenInv, Tick, processVars, outsideVars
<1>10. CASE Ensure
  BY <1>10 DEF TokenInv, Ensure, rotatorVars, outsideVars
<1>11. CASE Drop \/ Crash
  <2>1. bpc' = "off" /\ token'.held = FALSE /\ mint'.with = "none" /\ last' = "none"
    BY <1>11 DEF Drop, Crash, Restart, Forget, noToken, noMint
  <2>. QED
    BY <2>1 DEF TokenInv
<1>12. CASE LinkDown \/ LinkUp \/ RenewAdmin
  BY <1>12 DEF TokenInv, LinkDown, LinkUp, RenewAdmin, processVars, rotatorVars
<1>13. CASE Tamper
  <2>1. token'.held = token.held
    BY <1>13 DEF Tamper, TypeOK
  <2>. QED
    BY <1>13, <2>1 DEF TokenInv, Tamper, processVars
<1>. QED
  BY <1>1, <1>2, <1>3, <1>4, <1>5, <1>6, <1>7, <1>8, <1>9, <1>10, <1>11, <1>12, <1>13
     DEF Next, Operator

\* A spoke in use that was neither touched nor away.
Undisturbed == ~tampered /\ ~outage /\ bpc = "served"

\* What is known of the numbers then.
LEMMA Numbers ==
    ASSUME TypeOK, TokenInv, TimeInv, Undisturbed
    PROVE  /\ token.held /\ token.age \in Nat /\ token.real \in Int /\ token.life \in Int
           /\ skew \in Skews /\ skew \in Int
           /\ token.life = token.real + skew /\ TTL <= token.real /\ token.real <= TTL + MaxMint
           /\ mint.took \in 0..MaxMint /\ Late \in Nat
           /\ TTL \in Nat /\ MaxMint \in Nat /\ Den \in Nat /\ Num \in Nat
           /\ spokeUp /\ mint.with # "admin" /\ InTime
BY CredentialsAssumption DEF TypeOK, TokenInv, TimeInv, Undisturbed, Late

\* A refresh comes in time to be made with the token.
LEMMA RefreshInTime ==
    ASSUME TypeOK, TokenInv, TimeInv, Undisturbed, mint.with = "none", ~probed
    PROVE  mintCfg = "token"
<1>. DEFINE age == token.age
            life == token.life
<1>1. /\ token.held /\ age \in Nat /\ life \in Int /\ skew \in Skews /\ skew \in Int
      /\ TTL + skew <= life /\ TTL \in Nat /\ MaxMint \in Nat /\ Den \in Nat
  BY Numbers
<1>2. age <= MaxMint + 1 \/ Den * age < Num * life + Den * 1
  BY Numbers DEF InTime, Late
<1>3. CASE age <= MaxMint + 1
  <2>1. MaxMint + 1 < TTL + skew
    BY <1>1, SlackAssumption
  <2>. QED
    BY <1>1, <1>3, <2>1 DEF mintCfg
<1>4. CASE Den * age < Num * life + Den * 1
  <2>1. Den * age < Num * life + Den
    BY <1>1, <1>4
  <2>2. age < life
    BY <1>1, <2>1, StillValid
  <2>. QED
    BY <1>1, <2>2 DEF mintCfg
<1>. QED
  BY <1>2, <1>3, <1>4

\* A mint with the token succeeds.
LEMMA MintInTime ==
    ASSUME TypeOK, BootInv, TokenInv, TimeInv, Undisturbed, mint.with # "none"
    PROVE  MayMint
<1>. DEFINE age == token.age
            real == token.real
            took == mint.took
<1>1. /\ age \in Nat /\ real \in Int /\ skew \in Skews /\ took \in 0..MaxMint
      /\ TTL <= real /\ real <= TTL + MaxMint /\ TTL \in Nat /\ MaxMint \in Nat
      /\ token.life = real + skew
  BY Numbers
<1>2. age <= MaxMint + (1 + took) \/ Den * age < Num * (real + skew) + Den * (1 + took)
  BY Numbers DEF InTime, Late
<1>3. CASE age <= MaxMint + (1 + took)
  <2>1. 2 * MaxMint + 1 < TTL
    BY <1>1, SlackAssumption
  <2>. QED
    <3>1. age < real
      BY <1>1, <1>3, <2>1
    <3>. QED
      BY <3>1, Numbers DEF MayMint, Accepted, BootInv, Undisturbed, AccountDone, RoleDone, TypeOK
<1>4. CASE Den * age < Num * (real + skew) + Den * (1 + took)
  <2>1. age < real
    BY <1>1, <1>4, StillAccepted
  <2>. QED
    BY <2>1, Numbers DEF MayMint, Accepted, BootInv, Undisturbed, AccountDone, RoleDone, TypeOK
<1>. QED
  BY <1>2, <1>3, <1>4

\* A tick makes the token one tick older and the next request one tick later.
LEMMA TickInTime ==
    ASSUME TypeOK, TokenInv, TimeInv, Undisturbed, Tick
    PROVE  InTime' /\ mint'.with = mint.with
<1>1. mint'.with = mint.with
  BY DEF Tick, TypeOK
<1>2. Late' = Late + 1
  <2>1. CASE mint.with = "none"
    <3>1. probed /\ ~probed'
      BY <2>1 DEF Tick, Undisturbed
    <3>. QED
      BY <1>1, <2>1, <3>1 DEF Late
  <2>2. CASE mint.with # "none"
    <3>1. mint'.took = mint.took + 1 /\ mint.took \in Nat
      BY <2>2 DEF Tick, TypeOK
    <3>. QED
      BY <1>1, <2>2, <3>1 DEF Late
  <2>. QED
    BY <2>1, <2>2
<1>3. token'.life = token.life /\ token'.age = MinOf(token.age + 1, AgeCap)
  BY Numbers DEF Tick, TypeOK
<1>4. token'.age \in Nat /\ token'.age <= token.age + 1
  BY <1>3, Numbers, CredentialsAssumption DEF MinOf
<1>. DEFINE age == token.age
            next == token'.age
            by == Num * token.life
<1>5. /\ age \in Nat /\ next \in Nat /\ next <= age + 1 /\ Late \in Nat /\ MaxMint \in Nat
      /\ Den \in Nat /\ by \in Int
  BY <1>4, Numbers
<1>6. age <= MaxMint + Late => next <= MaxMint + (Late + 1)
  BY <1>5
<1>7. Den * age < by + Den * Late => Den * next < by + Den * (Late + 1)
  <2>1. Den * next <= Den * (age + 1)
    BY <1>5, TimesKeeps
  <2>2. Den * (age + 1) = Den * age + Den /\ Den * (Late + 1) = Den * Late + Den
    BY <1>5
  <2>. QED
    BY <1>5, <2>1, <2>2
<1>8. age <= MaxMint + Late \/ Den * age < by + Den * Late
  BY Numbers DEF InTime
<1>. HIDE DEF age, by
<1>9. next <= MaxMint + Late' \/ Den * next < by + Den * Late'
  BY <1>2, <1>6, <1>7, <1>8
<1>. QED
  BY <1>1, <1>3, <1>9 DEF InTime, by

\* The part of the invariant about time is kept.
LEMMA TimeStep == TypeOK /\ BootInv /\ TokenInv /\ TimeInv /\ [Next]_vars => TimeInv'
<1>. SUFFICES ASSUME TypeOK, BootInv, TokenInv, TimeInv, [Next]_vars, Undisturbed'
              PROVE  spokeUp' /\ mint'.with # "admin" /\ InTime'
  BY DEF TimeInv, Undisturbed
<1>1. CASE UNCHANGED vars \/ Ensure \/ RenewAdmin
  <2>1. UNCHANGED <<spokeUp, token, mint, probed, outage, tampered>> /\ (bpc' = "served" => bpc = "served")
    BY <1>1 DEF vars, Ensure, RenewAdmin, rotatorVars, processVars, outsideVars
  <2>. QED
    BY <2>1 DEF TimeInv, Undisturbed, InTime, Late
<1>2. CASE LoadAdminConfig \/ EnsureObject \/ GetRole \/ UpdateRBAC \/ AttemptFails
  <2>1. bpc' # "served"
    BY <1>2 DEF LoadAdminConfig, EnsureObject, GetRole, UpdateRBAC, AttemptFails, after, Names
  <2>. QED
    BY <2>1 DEF Undisturbed
<1>3. CASE Refresh
  <2>1. Undisturbed /\ UNCHANGED <<spokeUp, token>> /\ mint.with = "none" /\ ~probed
    BY <1>3 DEF Refresh, Undisturbed, processVars, outsideVars
  <2>2. mint' = [with |-> "token", took |-> 0]
    BY <1>3, <2>1, RefreshInTime DEF Refresh
  <2>3. Late = 1 /\ Late' = 1
    BY <2>1, <2>2 DEF Late
  <2>. QED
    BY <2>1, <2>2, <2>3, Numbers DEF InTime
<1>4. CASE RoundTrip
  <2>1. Undisturbed /\ UNCHANGED <<spokeUp, token, mint>> /\ mint.with = "none" /\ probed'
    BY <1>4 DEF RoundTrip, Undisturbed, processVars, outsideVars
  <2>2. Late' = 0
    BY <2>1 DEF Late
  <2>3. Den * token.age < Num * token.life
    <3>1. ~(Den * token.age >= Num * token.life)
      BY <1>4 DEF RoundTrip, needsRefresh, pastDeadline
    <3>2. Den * token.age \in Int /\ Num * token.life \in Int
      BY <2>1, Numbers
    <3>. QED
      BY <3>1, <3>2
  <2>4. Den * token.age < Num * token.life + Den * 0
    BY <2>1, <2>3, Numbers
  <2>. QED
    BY <2>1, <2>2, <2>4, Numbers DEF InTime
<1>5. CASE MintSucceeds
  <2>1. spokeUp' /\ mint'.with = "none"
    BY <1>5 DEF MintSucceeds, MayMint, noMint, outsideVars
  <2>2. token'.age \in 0..MaxMint /\ MaxMint \in Nat
    BY <1>5, MintedToken, Constants DEF TypeOK
  <2>3. Late' \in {0, 1}
    BY <2>1 DEF Late
  <2>4. token'.age <= MaxMint + Late'
    BY <2>2, <2>3
  <2>. QED
    BY <2>1, <2>4 DEF InTime
<1>6. CASE MintFails
  <2>1. Undisturbed
    BY <1>6 DEF MintFails, Undisturbed, outsideVars
  <2>. QED
    BY <1>6, <2>1, MintInTime DEF MintFails
<1>7. CASE Tick
  <2>1. Undisturbed /\ spokeUp' = spokeUp
    BY <1>7 DEF Tick, Undisturbed, processVars, outsideVars
  <2>. QED
    BY <1>7, <2>1, TickInTime, Numbers
<1>8. CASE Drop \/ Crash
  BY <1>8 DEF Drop, Crash, Restart, Forget, Undisturbed
<1>9. CASE LinkDown
  BY <1>9 DEF LinkDown, Undisturbed
<1>10. CASE LinkUp
  <2>1. Undisturbed /\ ~spokeUp
    BY <1>10 DEF LinkUp, Undisturbed, processVars
  <2>. QED
    BY <2>1, Numbers
<1>11. CASE Tamper
  BY <1>11 DEF Tamper, Undisturbed
<1>. QED
  BY <1>1, <1>2, <1>3, <1>4, <1>5, <1>6, <1>7, <1>8, <1>9, <1>10, <1>11 DEF Next, Operator

-----------------------------------------------------------------------------
\* Theorems

\* The invariant holds in every state.
THEOREM Invariant == Spec => []IInv
<1>1. Init => IInv
  BY InitInv
<1>2. IInv /\ [Next]_vars => IInv'
  BY TypeStep, BootStep, TokenStep, TimeStep DEF IInv
<1>. QED
  BY <1>1, <1>2, PTL DEF Spec

\* The spoke accepts the token of every request, for every lifetime, refresh
\* fraction and skew with Num * skew <= (Den - Num) * TTL.
THEOREM RequestsAccepted == Spec => []TokenAccepted
<1>1. IInv => TokenAccepted
  BY DEF IInv, TokenInv, TokenAccepted
<1>. QED
  BY <1>1, Invariant, PTL

\* The admin credential is not used again for a spoke that was not away.
THEOREM AdminUnused == Spec => []AdminOneShot
<1>1. IInv => AdminOneShot
  BY DEF IInv, TimeInv, AdminOneShot
<1>. QED
  BY <1>1, Invariant, PTL

\* The ClusterRole grants what the process was started with.
THEOREM ScopeNarrow == Spec => []ScopeHeld
<1>1. IInv => ScopeHeld
  BY DEF IInv, BootInv, ScopeHeld, RoleDone
<1>. QED
  BY <1>1, Invariant, PTL

-----------------------------------------------------------------------------
\* The spoke's credential while the fleet changes

\* The process starts again, at no or at some cost to the budget.
LEMMA RestartInv ==
    ASSUME IInv, Restart, budget' \in 0..MaxDisturbances
    PROVE  IInv'
<1>1. token' = [held |-> FALSE, age |-> 0, life |-> 0, real |-> 0]
      /\ mint' = [with |-> "none", took |-> 0]
  BY DEF Restart, Forget, noToken, noMint
<1>2. token' \in [held : BOOLEAN, age : Nat, life : Int, real : Int]
      /\ mint' \in [with : {"none", "token", "admin"}, took : 0..MaxMint]
  BY <1>1, Constants
<1>3. bpc' = "off" /\ last' = "none" /\ token'.held = FALSE /\ mint'.with = "none"
  BY <1>1 DEF Restart, Forget
<1>6. /\ spokeUp' \in BOOLEAN /\ found' \in BOOLEAN /\ probed' \in BOOLEAN
      /\ outage' \in BOOLEAN /\ tampered' \in BOOLEAN
  BY DEF Restart, Forget, IInv, TypeOK
<1>4. TypeOK'
  BY <1>2, <1>3, <1>6 DEF IInv, TypeOK, Restart, Forget, spokeVars, Calls
<1>5. BootInv' /\ TokenInv' /\ TimeInv'
  BY <1>3 DEF BootInv, TokenInv, TimeInv, RoleDone, AccountDone
<1>. QED
  BY <1>4, <1>5 DEF IInv

\* A change on the hub costs a disturbance and nothing else.
LEMMA HubInv ==
    ASSUME IInv, Hub
    PROVE  IInv'
<1>1. UNCHANGED <<spokeUp, skew, admin, objects, role, scope, bpc, found, loaded, token, mint, last,
                  probed, outage, tampered>>
  BY DEF Hub
<1>2. budget' \in 0..MaxDisturbances
  BY Constants DEF Hub, Disturb, IInv, TypeOK
<1>3. TypeOK'
  BY <1>1, <1>2 DEF IInv, TypeOK
<1>4. BootInv' /\ TokenInv' /\ TimeInv'
  BY <1>1 DEF IInv, BootInv, TokenInv, TimeInv, InTime, Late
<1>. QED
  BY <1>3, <1>4 DEF IInv

\* What onboarding does to the spoke's credential keeps its invariant.
LEMMA CredentialsStep ==
    ASSUME IInv, [AllNext]_allVars
    PROVE  IInv'
<1>1. [Next]_vars => IInv'
  BY TypeStep, BootStep, TokenStep, TimeStep DEF IInv
<1>2. CASE UNCHANGED allVars \/ Discover
  BY <1>1, <1>2 DEF allVars, Discover
<1>3. CASE Handle
  BY <1>1, <1>3 DEF Handle, Next
<1>4. CASE Work \/ Spoke
  BY <1>1, <1>4 DEF Work, Spoke, Next
<1>5. CASE ProcessFails
  BY <1>5, RestartInv DEF ProcessFails, RestartAll, IInv, TypeOK
<1>6. CASE ProcessCrashes
  BY <1>1, <1>6 DEF ProcessCrashes, RestartAll, Next, Crash
<1>7. CASE Hub
  BY <1>7, HubInv
<1>. QED
  BY <1>2, <1>3, <1>4, <1>5, <1>6, <1>7 DEF AllNext

-----------------------------------------------------------------------------
\* The inventory

\* A record is not the absence of one.
LEMMA RecordPresent ==
    /\ \A r \in [ref : Objects, ready : BOOLEAN, labels : Labelings] : r # Discovery!absent
    /\ \A u \in Discovery!Clusters : u # Discovery!absent
<1>1. DOMAIN Discovery!absent = {"missing"}
  BY DEF Discovery!absent
<1>2. ASSUME NEW r \in [ref : Objects, ready : BOOLEAN, labels : Labelings] PROVE r # Discovery!absent
  <2>1. "ref" \in DOMAIN r
    OBVIOUS
  <2>. QED
    BY <1>1, <2>1
<1>3. ASSUME NEW u \in Discovery!Clusters PROVE u # Discovery!absent
  <2>1. "conds" \in DOMAIN u
    BY DEF Discovery!Clusters
  <2>. QED
    BY <1>1, <2>1
<1>. QED
  BY <1>2, <1>3

\* What is made of a Cluster object is a record.
LEMMA RecordMade ==
    ASSUME NEW o \in Objects, NEW u \in Discovery!Clusters
    PROVE  LET r == Discovery!recordFromCluster(o, u)
           IN  /\ r \in [ref : Objects, ready : BOOLEAN, labels : Labelings]
               /\ r.ref = o /\ r.labels = u.labels
               /\ r.ready = Discovery!controlPlaneReady(u.conds)
<1>1. u.labels \in Labelings
  BY DEF Discovery!Clusters
<1>2. Discovery!controlPlaneReady(u.conds) \in BOOLEAN
  BY DEF Discovery!controlPlaneReady
<1>. QED
  BY <1>1, <1>2 DEF Discovery!recordFromCluster

\* Two records that recordsEqual does not tell apart have the same readiness, and
\* the same labels unless the first has a label with an empty value: without
\* one, its labels are among the other's, which are as many.
LEMMA EqualRecords ==
    ASSUME NEW a \in [ref : Objects, ready : BOOLEAN, labels : Labelings],
           NEW b \in [ref : Objects, ready : BOOLEAN, labels : Labelings],
           Discovery!recordsEqual(a, b)
    PROVE  /\ a.ready = b.ready
           /\ a.labels = b.labels \/ \E k \in DOMAIN a.labels : a.labels[k] = ""
<1>. DEFINE A == a.labels
            B == b.labels
<1>0. \A S : Discovery!Cardinality(S) = Cardinality(S)
  BY DEF Discovery!Cardinality, Cardinality
<1>1. /\ Cardinality(DOMAIN A) = Cardinality(DOMAIN B) /\ a.ready = b.ready
      /\ \A k \in DOMAIN A : Discovery!labelOf(B, k) = A[k]
  BY <1>0 DEF Discovery!recordsEqual
<1>2. /\ IsFiniteSet(DOMAIN A) /\ IsFiniteSet(DOMAIN B)
      /\ A \in [DOMAIN A -> STRING] /\ B \in [DOMAIN B -> STRING]
  BY LabelingsAssumption
<1>. HIDE DEF A, B
<1>3. SUFFICES ASSUME \A k \in DOMAIN A : A[k] # "" PROVE A = B
  BY <1>1 DEF A, B
<1>4. \A k \in DOMAIN A : k \in DOMAIN B /\ B[k] = A[k]
  BY <1>1, <1>3 DEF Discovery!labelOf
<1>5. DOMAIN A = DOMAIN B
  BY <1>1, <1>2, <1>4, FS_Subset
<1>. QED
  BY <1>2, <1>4, <1>5

\* The version that is negotiated is one of those asked for.
LEMMA NegotiatedVersion ==
    Discovery!resolveClusterGVR \in
        {"v1", "v1beta2", "v1beta1", "unreachable", "absentResource", "unsupported"}
<1>. DEFINE versions == Discovery!supportedClusterVersions
            usable == {i \in DOMAIN versions : versions[i] \in serving}
            best == CHOOSE i \in usable : \A j \in usable : i <= j
<1>1. DOMAIN versions = 1..3 /\ versions[1] = "v1" /\ versions[2] = "v1beta2"
      /\ versions[3] = "v1beta1"
  BY DEF Discovery!supportedClusterVersions
<1>2. usable \subseteq 1..3
  BY <1>1
<1>3. usable # {} => best \in usable
  <2>1. SUFFICES ASSUME usable # {} PROVE \E i \in usable : \A j \in usable : i <= j
    OBVIOUS
  <2>2. CASE 1 \in usable
    BY <1>2, <2>2
  <2>3. CASE 1 \notin usable /\ 2 \in usable
    BY <1>2, <2>3
  <2>4. CASE 1 \notin usable /\ 2 \notin usable
    BY <1>2, <2>1, <2>4
  <2>. QED
    BY <2>2, <2>3, <2>4
<1>4. usable # {} => versions[best] \in {"v1", "v1beta2", "v1beta1"}
  BY <1>1, <1>2, <1>3
<1>5. \/ Discovery!resolveClusterGVR \in {"unreachable", "absentResource", "unsupported"}
      \/ usable # {} /\ Discovery!resolveClusterGVR = versions[best]
  BY DEF Discovery!resolveClusterGVR
<1>. QED
  BY <1>4, <1>5

\* A record follows the informer's copy of its object, except that a change of
\* labels is lost on a record that has a label with an empty value.
Follows(o) ==
    IF store[o] = Discovery!absent THEN records[o] = Discovery!absent
    ELSE /\ records[o] # Discovery!absent
         /\ records[o].ready = Discovery!controlPlaneReady(store[o].conds)
         /\ \/ records[o].labels = store[o].labels
            \/ \E k \in DOMAIN records[o].labels : records[o].labels[k] = ""

RecordsFollow == \A o \in Objects : Follows(o)

ReadyRecord == \E o \in Objects : records[o] # Discovery!absent /\ records[o].ready

\* The last event says ready only while some record does.
EventsOK ==
    /\ events = <<>> \/ events = <<TRUE>> \/ events = <<FALSE>>
    /\ events = <<>> /\ handled => ReadyRecord
    /\ events = <<TRUE>> => ReadyRecord

\* The spoke is wired exactly when the last handled event said ready.
Wired == bpc = "off" <=> ~handled

AllInv == IInv /\ Discovery!TypeOK /\ RecordsFollow /\ EventsOK /\ Wired

\* The provider's Start leaves the inventory alone.
LEMMA ProviderStep ==
    ASSUME Discovery!TypeOK, Discovery!Provider
    PROVE  Discovery!TypeOK' /\ UNCHANGED <<store, records, events, handled>>
<1>1. CASE Discovery!negotiate
  <2>1. gvr' \in {"v1", "v1beta2", "v1beta1", "unsupported"}
    BY <1>1, NegotiatedVersion DEF Discovery!negotiate, Discovery!retryable
  <2>. QED
    BY <1>1, <2>1 DEF Discovery!negotiate, Discovery!TypeOK, Discovery!fleetVars
<1>2. CASE Discovery!Synced \/ Discovery!SyncTimesOut
  BY <1>2 DEF Discovery!Synced, Discovery!SyncTimesOut, Discovery!TypeOK, Discovery!fleetVars
<1>. QED
  BY <1>1, <1>2 DEF Discovery!Provider

\* A change of the hub leaves the provider alone.
LEMMA FleetStep ==
    ASSUME Discovery!TypeOK, Hub
    PROVE  Discovery!TypeOK' /\ UNCHANGED <<store, records, events, handled>>
<1>1. CASE Discovery!ChangeObject
  BY <1>1 DEF Discovery!ChangeObject, Discovery!TypeOK, Discovery!providerVars
<1>2. CASE Discovery!ChangeServing
  <2>1. hub' \in BOOLEAN
    BY <1>2 DEF Discovery!ChangeServing, Discovery!TypeOK
  <2>2. serving' \in Serving
    BY <1>2 DEF Discovery!ChangeServing, Discovery!TypeOK
  <2>. QED
    BY <1>2, <2>1, <2>2 DEF Discovery!ChangeServing, Discovery!TypeOK, Discovery!providerVars
<1>3. CASE Discovery!HubUp
  <2>1. hub' \in BOOLEAN
    BY <1>3 DEF Discovery!HubUp
  <2>. QED
    BY <1>3, <2>1 DEF Discovery!HubUp, Discovery!TypeOK, Discovery!providerVars
<1>. QED
  BY <1>1, <1>2, <1>3 DEF Hub

\* A start with nothing.
LEMMA EmptyStep ==
    ASSUME Discovery!TypeOK, RestartAll
    PROVE  Discovery!TypeOK' /\ RecordsFollow' /\ EventsOK' /\ Wired'
<1>1. /\ store' = [o \in Objects |-> Discovery!absent]
      /\ records' = [o \in Objects |-> Discovery!absent]
      /\ events' = <<>> /\ handled' = FALSE /\ ppc' = "negotiate" /\ gvr' = "none"
      /\ UNCHANGED <<hub, serving, objs>> /\ bpc' = "off"
  BY DEF RestartAll, Discovery!Restart, Restart, Forget
<1>2. events' \in Seq(BOOLEAN) /\ Len(events') <= 1
  BY <1>1
<1>3. /\ store' \in [Objects -> Discovery!Clusters \cup {Discovery!absent}]
      /\ records' \in Discovery!RecordsType
  BY <1>1 DEF Discovery!RecordsType
<1>4. handled' \in BOOLEAN
  BY <1>1
<1>5. Discovery!TypeOK'
  BY <1>1, <1>2, <1>3, <1>4 DEF Discovery!TypeOK
<1>6. RecordsFollow'
  BY <1>1 DEF RecordsFollow, Follows
<1>7. EventsOK'
  BY <1>1 DEF EventsOK
<1>8. Wired'
  BY <1>1 DEF Wired
<1>. QED
  BY <1>5, <1>6, <1>7, <1>8

\* An event and the state it leads to.
LEMMA OneEvent ==
    ASSUME NEW b \in BOOLEAN
    PROVE  /\ Append(<<>>, b) = <<b>> /\ <<b>> \in Seq(BOOLEAN) /\ Len(<<b>>) = 1
           /\ <<b>> # <<>> /\ Head(<<b>>) = b /\ Tail(<<b>>) = <<>>
           /\ <<b>>[1] = b
OBVIOUS

\* The handler is done with the event.
LEMMA HandleStep ==
    ASSUME Discovery!TypeOK, EventsOK, Handle
    PROVE  /\ Discovery!TypeOK' /\ EventsOK' /\ Wired'
           /\ UNCHANGED <<store, records>>
<1>1. PICK b \in BOOLEAN : events = <<b>>
  BY DEF EventsOK, Handle, Discovery!Handle
<1>2. /\ events' = <<>> /\ handled' = b
      /\ UNCHANGED <<hub, serving, objs, ppc, gvr, store, records>>
  BY <1>1, OneEvent DEF Handle, Discovery!Handle, Discovery!fleetVars
<1>3. events' \in Seq(BOOLEAN) /\ Len(events') <= 1
  BY <1>2
<1>4. Discovery!TypeOK'
  BY <1>2, <1>3 DEF Discovery!TypeOK
<1>5. EventsOK'
  <2>1. handled' => events = <<TRUE>>
    BY <1>1, <1>2
  <2>2. handled' => ReadyRecord'
    BY <1>2, <2>1 DEF EventsOK, ReadyRecord
  <2>3. events' # <<TRUE>>
    BY <1>2, OneEvent
  <2>. QED
    BY <1>2, <2>2, <2>3 DEF EventsOK
<1>6. Wired'
  <2>1. CASE handled'
    <3>1. bpc' # "off"
      BY <2>1 DEF Handle, Ensure
    <3>. QED
      BY <2>1, <3>1 DEF Wired
  <2>2. CASE ~handled'
    <3>1. bpc' = "off"
      BY <2>2 DEF Handle, Drop, Forget
    <3>. QED
      BY <2>2, <3>1 DEF Wired
  <2>. QED
    BY <2>1, <2>2
<1>. QED
  BY <1>2, <1>4, <1>5, <1>6

\* What a delivery does to the record of its object: it has the readiness of the
\* object, and a change of it is an event.
LEMMA DeliverRecord ==
    ASSUME Discovery!TypeOK, RecordsFollow, NEW o \in Objects, Discovery!Deliver(o)
    PROVE  /\ records' \in Discovery!RecordsType
           /\ \A p \in Objects \ {o} : records'[p] = records[p]
           /\ Follows(o)'
           /\ \/ UNCHANGED <<records, events>>
              \/ \E b \in BOOLEAN :
                    /\ events' = <<b>>
                    /\ b => records'[o] # Discovery!absent /\ records'[o].ready
<1>. DEFINE R == [ref : Objects, ready : BOOLEAN, labels : Labelings]
            u == objs[o]
<1>1. /\ records \in [Objects -> {Discovery!absent} \cup R]
      /\ store'[o] = u /\ u \in Discovery!Clusters \cup {Discovery!absent}
      /\ events = <<>>
  BY DEF Discovery!TypeOK, Discovery!RecordsType, Discovery!Deliver
<1>2. CASE u = Discovery!absent
  <2>1. Discovery!remove(o)
    BY <1>2 DEF Discovery!Deliver
  <2>2. CASE records[o] = Discovery!absent /\ UNCHANGED <<records, events>>
    BY <1>1, <1>2, <2>2 DEF Discovery!RecordsType, Follows
  <2>3. CASE /\ records' = [records EXCEPT ![o] = Discovery!absent]
             /\ events' = Append(events, FALSE)
    <3>1. records'[o] = Discovery!absent /\ \A p \in Objects \ {o} : records'[p] = records[p]
      BY <1>1, <2>3
    <3>2. records' \in Discovery!RecordsType
      BY <1>1, <2>3 DEF Discovery!RecordsType
    <3>3. events' = <<FALSE>>
      BY <1>1, <2>3, OneEvent
    <3>4. Follows(o)'
      BY <1>1, <1>2, <3>1 DEF Follows
    <3>. QED
      BY <3>1, <3>2, <3>3, <3>4
  <2>. QED
    BY <2>1, <2>2, <2>3 DEF Discovery!remove
<1>3. CASE u # Discovery!absent
  <2>. DEFINE r == Discovery!recordFromCluster(o, u)
  <2>1. /\ r \in R /\ r.labels = u.labels /\ r.ready = Discovery!controlPlaneReady(u.conds)
        /\ r # Discovery!absent /\ r.ready \in BOOLEAN
    BY <1>1, <1>3, RecordMade, RecordPresent
  <2>2. \/ /\ records[o] # Discovery!absent /\ Discovery!recordsEqual(records[o], r)
           /\ UNCHANGED <<records, events>>
        \/ /\ records' = [records EXCEPT ![o] = r]
           /\ events' = Append(events, r.ready)
    BY <1>3 DEF Discovery!Deliver, Discovery!upsert
  <2>. HIDE DEF r
  <2>3. CASE /\ records[o] # Discovery!absent /\ Discovery!recordsEqual(records[o], r)
             /\ UNCHANGED <<records, events>>
    <3>1. records[o] \in R
      BY <1>1, <2>3
    <3>2. /\ records[o].ready = r.ready
          /\ records[o].labels = r.labels
                \/ \E k \in DOMAIN records[o].labels : records[o].labels[k] = ""
      BY <2>1, <2>3, <3>1, EqualRecords
    <3>3. Follows(o)'
      BY <1>1, <1>3, <2>1, <2>3, <3>2 DEF Follows
    <3>. QED
      BY <1>1, <2>3, <3>3 DEF Discovery!RecordsType
  <2>4. CASE /\ records' = [records EXCEPT ![o] = r]
             /\ events' = Append(events, r.ready)
    <3>1. records'[o] = r /\ \A p \in Objects \ {o} : records'[p] = records[p]
      BY <1>1, <2>4
    <3>2. records' \in Discovery!RecordsType
      BY <1>1, <2>1, <2>4 DEF Discovery!RecordsType
    <3>3. events' = <<r.ready>>
      BY <1>1, <2>1, <2>4, OneEvent
    <3>4. Follows(o)'
      BY <1>1, <1>3, <2>1, <3>1 DEF Follows
    <3>. QED
      BY <2>1, <3>1, <3>2, <3>3, <3>4
  <2>. QED
    BY <2>2, <2>3, <2>4
<1>. QED
  BY <1>2, <1>3

\* A delivery keeps the invariant.
LEMMA DeliverStep ==
    ASSUME Discovery!TypeOK, RecordsFollow, EventsOK, NEW o \in Objects, Discovery!Deliver(o)
    PROVE  Discovery!TypeOK' /\ RecordsFollow' /\ EventsOK' /\ handled' = handled
<1>1. /\ store' = [store EXCEPT ![o] = objs[o]] /\ events = <<>>
      /\ UNCHANGED <<hub, serving, objs, ppc, gvr, handled>>
  BY DEF Discovery!Deliver, Discovery!fleetVars
<1>2. /\ store' \in [Objects -> Discovery!Clusters \cup {Discovery!absent}]
      /\ \A p \in Objects \ {o} : store'[p] = store[p]
  BY <1>1 DEF Discovery!TypeOK
<1>3. events' \in Seq(BOOLEAN) /\ Len(events') <= 1
  <2>1. CASE events' = events
    BY <1>1, <2>1
  <2>2. CASE \E b \in BOOLEAN : events' = <<b>>
    BY <2>2, OneEvent
  <2>. QED
    BY <2>1, <2>2, DeliverRecord
<1>4. Discovery!TypeOK'
  BY <1>1, <1>2, <1>3, DeliverRecord DEF Discovery!TypeOK
<1>5. RecordsFollow'
  <2>1. ASSUME NEW p \in Objects \ {o} PROVE Follows(p)'
    <3>1. store'[p] = store[p] /\ records'[p] = records[p]
      BY <1>2, DeliverRecord
    <3>. QED
      BY <3>1 DEF RecordsFollow, Follows
  <2>. QED
    BY <2>1, DeliverRecord DEF RecordsFollow
<1>6. EventsOK'
  <2>1. CASE UNCHANGED <<records, events>>
    BY <1>1, <2>1 DEF EventsOK, ReadyRecord
  <2>2. CASE \E b \in BOOLEAN :
                /\ events' = <<b>>
                /\ b => records'[o] # Discovery!absent /\ records'[o].ready
    <3>1. PICK b \in BOOLEAN :
                /\ events' = <<b>>
                /\ b => records'[o] # Discovery!absent /\ records'[o].ready
      BY <2>2
    <3>2. CASE b = TRUE
      <4>1. ReadyRecord' /\ events' = <<TRUE>> /\ <<TRUE>> # <<>>
        BY <3>1, <3>2, OneEvent DEF ReadyRecord
      <4>. QED
        BY <4>1 DEF EventsOK
    <3>3. CASE b = FALSE
      <4>1. events' = <<FALSE>> /\ <<FALSE>> # <<>> /\ <<FALSE>> # <<TRUE>>
        BY <3>1, <3>3, OneEvent
      <4>. QED
        BY <4>1 DEF EventsOK
    <3>. QED
      BY <3>2, <3>3
  <2>. QED
    BY <2>1, <2>2, DeliverRecord
<1>. QED
  BY <1>1, <1>4, <1>5, <1>6

\* What the bootstrap and the rotation do neither wires a spoke nor drops it.
LEMMA WorkWired ==
    ASSUME TokenInv, Operator \/ Tick \/ LinkDown \/ LinkUp \/ RenewAdmin \/ Tamper
    PROVE  bpc' = "off" <=> bpc = "off"
<1>1. CASE LoadAdminConfig \/ EnsureObject \/ GetRole \/ UpdateRBAC \/ AttemptFails
  BY <1>1 DEF LoadAdminConfig, EnsureObject, GetRole, UpdateRBAC, AttemptFails, after, Names
<1>2. CASE Refresh \/ RoundTrip \/ Tick \/ LinkDown \/ LinkUp \/ RenewAdmin \/ Tamper
  BY <1>2 DEF Refresh, RoundTrip, Tick, LinkDown, LinkUp, RenewAdmin, Tamper, processVars
<1>3. CASE MintSucceeds \/ MintFails
  BY <1>3 DEF MintSucceeds, MintFails, TokenInv
<1>. QED
  BY <1>1, <1>2, <1>3 DEF Operator

\* Every step keeps the invariant.
LEMMA AllStep ==
    ASSUME AllInv, [AllNext]_allVars
    PROVE  AllInv'
<1>1. IInv'
  BY CredentialsStep DEF AllInv
<1>. SUFFICES Discovery!TypeOK' /\ RecordsFollow' /\ EventsOK' /\ Wired'
  BY <1>1 DEF AllInv
<1>. USE DEF AllInv
<1>2. ASSUME UNCHANGED <<store, records>> PROVE RecordsFollow'
  BY <1>2 DEF RecordsFollow, Follows
<1>3. ASSUME UNCHANGED <<records, events, handled>> PROVE EventsOK'
  BY <1>3 DEF EventsOK, ReadyRecord
<1>4. ASSUME bpc' = "off" <=> bpc = "off", handled' = handled PROVE Wired'
  BY <1>4 DEF Wired
<1>5. ASSUME UNCHANGED discoveryVars PROVE Discovery!TypeOK'
  BY <1>5 DEF discoveryVars, Discovery!TypeOK
<1>6. CASE UNCHANGED allVars
  BY <1>2, <1>3, <1>4, <1>5, <1>6 DEF allVars, discoveryVars, vars
<1>7. CASE Handle
  BY <1>2, <1>7, HandleStep
<1>8. CASE Discover
  <2>1. bpc' = bpc
    BY <1>8 DEF Discover, vars
  <2>2. CASE Discovery!Provider
    BY <1>2, <1>3, <1>4, <2>1, <2>2, ProviderStep
  <2>3. CASE \E o \in Objects : Discovery!Deliver(o)
    BY <1>4, <2>1, <2>3, DeliverStep
  <2>. QED
    BY <1>8, <2>2, <2>3 DEF Discover
<1>9. CASE Work \/ Spoke
  <2>1. (bpc' = "off" <=> bpc = "off") /\ UNCHANGED discoveryVars
    BY <1>9, WorkWired DEF Work, Spoke, IInv
  <2>. QED
    BY <1>2, <1>3, <1>4, <1>5, <2>1 DEF discoveryVars
<1>10. CASE ProcessFails \/ ProcessCrashes
  BY <1>10, EmptyStep DEF ProcessFails, ProcessCrashes
<1>11. CASE Hub
  <2>1. bpc' = bpc
    BY <1>11 DEF Hub
  <2>. QED
    BY <1>2, <1>3, <1>4, <1>11, <2>1, FleetStep
<1>. QED
  BY <1>6, <1>7, <1>8, <1>9, <1>10, <1>11 DEF AllNext

\* It holds at the start.
LEMMA AllInitInv == AllInit => AllInv
<1>. SUFFICES ASSUME AllInit PROVE AllInv
  OBVIOUS
<1>1. IInv
  BY InitInv DEF AllInit
<1>2. /\ store = [o \in Objects |-> Discovery!absent]
      /\ records = [o \in Objects |-> Discovery!absent]
      /\ events = <<>> /\ handled = FALSE /\ bpc = "off"
  BY DEF AllInit, Init, Discovery!Init
<1>3. events \in Seq(BOOLEAN) /\ Len(events) <= 1
  BY <1>2
<1>4. /\ store \in [Objects -> Discovery!Clusters \cup {Discovery!absent}]
      /\ records \in Discovery!RecordsType
  BY <1>2 DEF Discovery!RecordsType
<1>5. hub \in BOOLEAN /\ handled \in BOOLEAN
  BY DEF AllInit, Discovery!Init
<1>6. Discovery!TypeOK
  BY <1>3, <1>4, <1>5 DEF AllInit, Discovery!Init, Discovery!TypeOK
<1>7. RecordsFollow
  BY <1>2 DEF RecordsFollow, Follows
<1>8. EventsOK /\ Wired
  BY <1>2 DEF EventsOK, Wired
<1>. QED
  BY <1>1, <1>6, <1>7, <1>8 DEF AllInv

\* The invariant of discovery, bootstrap and rotation together.
THEOREM AllInvariant == AllSpec => []AllInv
BY AllInitInv, AllStep, PTL DEF AllSpec

\* Discovery, bootstrap and rotation stay within their types: there is at most
\* one event under way, and the version is one that was asked for.
THEOREM OnboardingTypes == AllSpec => []AllTypeOK
<1>1. AllInv => AllTypeOK
  BY DEF AllInv, IInv, AllTypeOK
<1>. QED
  BY <1>1, AllInvariant, PTL

\* While Cluster objects come, go and change, the provider's Start fails and the
\* process restarts: requests are accepted, the admin credential is used once
\* and the ClusterRole grants what this process was started with.
THEOREM OnboardedCredentials == AllSpec => [](TokenAccepted /\ AdminOneShot /\ ScopeHeld)
<1>1. AllInv => TokenAccepted /\ AdminOneShot /\ ScopeHeld
  BY DEF AllInv, IInv, TokenInv, TokenAccepted, TimeInv, AdminOneShot, BootInv, ScopeHeld, RoleDone
<1>. QED
  BY <1>1, AllInvariant, PTL

\* upsert's comparison of label maps by size and by the old labels' values loses
\* nothing but a change of labels on a record with an empty label value: for any
\* number of objects and any finite labels, a record is there exactly while the
\* informer has the object, with its readiness and otherwise with its labels.
THEOREM InventoryFollows == AllSpec => []RecordsFollow
<1>1. AllInv => RecordsFollow
  BY DEF AllInv
<1>. QED
  BY <1>1, AllInvariant, PTL

\* An event is sent whenever the readiness of a record changes, and a handler
\* that is told to drop drops: no spoke stays wired whose object has left or is
\* not ready.
THEOREM WiredOnlyWhileReady == AllSpec => []UsedWhileReady
<1>1. AllInv => UsedWhileReady
  <2>. SUFFICES ASSUME AllInv, bpc # "off", events = <<>>
                PROVE  \E o \in Objects :
                          /\ store[o] # Discovery!absent
                          /\ Discovery!controlPlaneReady(store[o].conds)
    BY DEF UsedWhileReady
  <2>1. handled
    BY DEF AllInv, Wired
  <2>2. PICK o \in Objects : records[o] # Discovery!absent /\ records[o].ready
    BY <2>1 DEF AllInv, EventsOK, ReadyRecord
  <2>3. Follows(o)
    BY DEF AllInv, RecordsFollow
  <2>. QED
    BY <2>2, <2>3 DEF Follows
<1>. QED
  BY <1>1, AllInvariant, PTL

=============================================================================
