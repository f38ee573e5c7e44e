----------------------------- MODULE SealedSecrets -----------------------------
(***************************************************************************)
(* Secrets at rest in the banking API. What a provider is to be told and   *)
(* what signs a webhook are sealed under the active key of the keyring the *)
(* deployment gives; a row remembers the key's id. A later deployment may  *)
(* bring another keyring. An event opens the secret of every webhook of    *)
(* every tenant before it asks whose it is.                                *)
(***************************************************************************)
EXTENDS WebhookOutbox

CONSTANTS
  Kids,              \* ids of keys
  PlainText, Unsealed,   \* the envelope of a process without a keyring; no row
  Targets, Owner,    \* webhooks, [Targets -> tenants]
  Parcels,           \* provider operations
  Deployments,       \* [mode, ring, active, gateway]: environments to start under
  MaxTries           \* attempts a job has

ASSUME SealAssumption ==
  /\ PlainText \notin Kids /\ Unsealed \notin Kids \cup {PlainText}
  /\ Deployments \subseteq [mode : {"production", "sandbox"}, ring : SUBSET Kids,
                            active : Kids, gateway : BOOLEAN]
  /\ MaxTries \in Nat \ {0}

VARIABLES
  deployment,        \* the environment of the running process
  targetSeal,        \* what the secret of a webhook is sealed under
  parcel,            \* the job of a delivery or a provider operation: [seal, status, tries]
  careful,           \* history: every deployment kept the keys that rows named
  told               \* the last command under this deployment

sealVars == <<deployment, targetSeal, parcel, careful, told>>

Envelopes == Targets \cup Parcels
Seals == Kids \cup {PlainText}
NoParcel == [seal |-> Unsealed, status |-> "none", tries |-> 0]
NoCommand == [kind |-> "none", outcome |-> "none"]

SealTypeOK ==
  /\ deployment \in Deployments
  /\ targetSeal \in [Targets -> Seals \cup {Unsealed}]
  /\ parcel \in [Envelopes -> [seal : Seals \cup {Unsealed}, status : {"none", "queued", "failed"},
                          tries : 0 .. MaxTries]]
  /\ careful \in BOOLEAN
  /\ told \in [kind : {"none", "event", "provider"}, outcome : {"none", "committed", "refused"}]

SealInit ==
  /\ deployment \in Deployments
  /\ targetSeal = [w \in Targets |-> Unsealed]
  /\ parcel = [j \in Envelopes |-> NoParcel]
  /\ careful = TRUE
  /\ told = NoCommand

-----------------------------------------------------------------------------
(* parseKeyring: an active id that names no key makes the ring unusable.   *)
Unusable(d) == d.ring # {} /\ d.active \notin d.ring

CanSeal(d) == ~Unusable(d) /\ (d.ring # {} \/ d.mode = "sandbox")
SealNow == IF deployment.ring = {} THEN PlainText ELSE deployment.active

Unseals(seal) ==
  IF seal = PlainText THEN deployment.mode = "sandbox"
  ELSE ~Unusable(deployment) /\ seal \in deployment.ring

(* GET /v2/_ready.                                                         *)
Ready(d) == d.mode = "production" => d.gateway /\ ~Unusable(d) /\ d.ring # {}

-----------------------------------------------------------------------------
(* The store belongs to one mode: a production process starts on no        *)
(* sandbox tenant.                                                         *)
OnDisk ==
  {targetSeal[w] : w \in Targets}
    \cup {parcel[j].seal : j \in {x \in Envelopes : parcel[x].status = "queued"}}

Redeploy(d) ==
  /\ d # deployment /\ d.mode = deployment.mode
  /\ deployment' = d
  /\ careful' = (careful /\ ~Unusable(d) /\ OnDisk \cap Kids \subseteq d.ring)
  /\ told' = NoCommand
  /\ UNCHANGED <<targetSeal, parcel>>

PutTarget(w) == targetSeal' = [targetSeal EXCEPT ![w] = SealNow]

CreateTarget(w) ==
  /\ targetSeal[w] = Unsealed /\ CanSeal(deployment)
  /\ PutTarget(w)
  /\ UNCHANGED <<deployment, parcel, careful, told>>

(* Its tenant cannot change or delete a webhook that cannot be opened.     *)
UpdateTarget(w) ==
  /\ targetSeal[w] # Unsealed /\ Unseals(targetSeal[w]) /\ CanSeal(deployment)
  /\ PutTarget(w)
  /\ UNCHANGED <<deployment, parcel, careful, told>>

DeleteTarget(w) ==
  /\ targetSeal[w] # Unsealed /\ Unseals(targetSeal[w])
  /\ targetSeal' = [targetSeal EXCEPT ![w] = Unsealed]
  /\ UNCHANGED <<deployment, parcel, careful, told>>

SealOfJob(w) == targetSeal[w]
Queued(seal) == [seal |-> seal, status |-> "queued", tries |-> 0]

(* A command that emits an event, of a tenant: it is all or nothing.       *)
EmitFor(tenant) ==
  LET targets == {w \in Targets : targetSeal[w] # Unsealed}
      readable == \A w \in targets : Unseals(targetSeal[w])
      fresh == {w \in targets : Owner[w] = tenant}
  IN  /\ \A w \in fresh : parcel[w].status # "queued"
      /\ told' = [kind |-> "event", outcome |-> IF readable THEN "committed" ELSE "refused"]
      /\ parcel' = IF readable
                   THEN [j \in Envelopes |-> IF j \in fresh THEN Queued(SealOfJob(j)) ELSE parcel[j]]
                   ELSE parcel
      /\ UNCHANGED <<deployment, targetSeal, careful>>

(* Only production gives work to a provider.                               *)
AskProvider(p) ==
  /\ deployment.mode = "production" /\ parcel[p].status # "queued"
  /\ LET possible == deployment.gateway /\ CanSeal(deployment)
     IN  /\ told' = [kind |-> "provider", outcome |-> IF possible THEN "committed" ELSE "refused"]
         /\ parcel' = IF possible THEN [parcel EXCEPT ![p] = Queued(SealNow)] ELSE parcel
  /\ UNCHANGED <<deployment, targetSeal, careful>>

(* A job whose envelope cannot be opened spends an attempt.                *)
Attempt(j) ==
  /\ parcel[j].status = "queued"
  /\ parcel' = [parcel EXCEPT ![j] =
       IF Unseals(@.seal) THEN NoParcel
       ELSE IF @.tries + 1 < MaxTries
       THEN [seal |-> @.seal, status |-> "queued", tries |-> @.tries + 1]
       ELSE [seal |-> Unsealed, status |-> "failed", tries |-> MaxTries]]
  /\ UNCHANGED <<deployment, targetSeal, careful, told>>

SealNext ==
  \/ \E d \in Deployments : Redeploy(d)
  \/ \E w \in Targets : CreateTarget(w) \/ UpdateTarget(w) \/ DeleteTarget(w)
  \/ \E tenant \in {Owner[w] : w \in Targets} : EmitFor(tenant)
  \/ \E p \in Parcels : AskProvider(p)
  \/ \E j \in Envelopes : Attempt(j)

SealSpec == SealInit /\ [][SealNext]_sealVars

-----------------------------------------------------------------------------
(* Keys may be rotated as often as the deployment likes: while it keeps    *)
(* every key a webhook or an unfinished job still names, no command is     *)
(* refused for a secret of anybody's, and no attempt is spent on a secret  *)
(* that cannot be opened; production never holds a plain secret; and a     *)
(* process that reports ready refuses no provider operation for its        *)
(* configuration (provider-payload-crypto.js, webhook-outbox.js,           *)
(* production-provider-intents.js, operations.js).                         *)
SecretsSurvive ==
  /\ careful =>
       /\ told.kind = "event" => told.outcome = "committed"
       /\ \A j \in Envelopes : parcel[j].tries = 0
  /\ deployment.mode = "production" =>
       /\ \A w \in Targets : targetSeal[w] # PlainText
       /\ \A j \in Envelopes : parcel[j].seal # PlainText
  /\ Ready(deployment) /\ told.kind = "provider" => told.outcome = "committed"

(* What a tenant reads of a delivery is true, and no rotation of keys that *)
(* is done with care spends an attempt or refuses a command                *)
(* (webhook-outbox.js, provider-payload-crypto.js).                        *)
DeliveriesHonest == DeliveryTold /\ SecretsSurvive
=============================================================================
