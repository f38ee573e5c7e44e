-------------------------- MODULE MCProviderOutbox --------------------------
(***************************************************************************)
(* Small instances of what the banking API sends out. Its provider outbox: *)
(* one job of each kind alone, and two custody sends that compete for one  *)
(* wallet. Its webhook outbox. And the secrets both keep at rest, across   *)
(* deployments that rotate the keys. A behaviour works on one of these     *)
(* parts and batches, chosen at the start.                                 *)
(***************************************************************************)
EXTENDS ProviderOutbox, SealedSecrets, TLC

CONSTANTS
  t1, s1, s2, c1, i1, acc, wal,
  Parts,             \* of "provider", "webhooks" and "secrets"
  Batches,           \* sets of jobs
  Tries              \* bound: [Jobs -> Nat], attempts but for the transfer's

VARIABLES part, active

sentVars == <<part, active, vars, webhookVars, sealVars>>

SentInit ==
  /\ part \in Parts /\ active \in Batches
  /\ part # "provider" => active = CHOOSE b \in Batches : TRUE
  /\ Init /\ WebhookInit /\ SealInit
  /\ part # "secrets" => deployment = CHOOSE d \in Deployments : TRUE

BatchNext ==
  /\ Next
  /\ \A j \in active \ {t1} : attempts'[j] <= Tries[j]
  /\ \A j \in Jobs \ active : status'[j] = "none"

SentNext ==
  /\ UNCHANGED <<part, active>>
  /\ \/ part = "provider" /\ BatchNext /\ UNCHANGED <<webhookVars, sealVars>>
     \/ part = "webhooks" /\ WebhookNext /\ UNCHANGED <<vars, sealVars>>
     \/ part = "secrets" /\ SealNext /\ UNCHANGED <<vars, webhookVars>>

SentSpec == SentInit /\ [][SentNext]_sentVars /\ Fairness /\ Delivering

(* The transfer, whose attempts are bounded by the code alone, comes to an *)
(* end (provider-outbox.js). The others are cut off before their budget is *)
(* used up, so nothing is concluded about theirs.                          *)
TransferEnds == part = "provider" /\ active = {t1} => EventuallyTerminal

Kind ==
  [j \in Jobs |-> CASE j = t1 -> "payments.transfer"
                   [] j \in {s1, s2} -> "custody.transfer"
                   [] j = c1 -> "cards.issuing"
                   [] j = i1 -> "identity.verification"]
MoneySource == [j \in MoneyJobs |-> IF j = t1 THEN acc ELSE wal]
MoneyAmount == [j \in MoneyJobs |-> IF j = s2 THEN 2 ELSE 1]
MoneyOpening == [a \in Accounts |-> 2]
MostTries == [j \in Jobs |-> IF j = s2 THEN 1 ELSE 2]
KindsAndPair == {{t1}, {c1}, {i1}, {s1, s2}}
LoneSend == {{s1}}
HookOf == "w1" :> "ta" @@ "w2" :> "tb"
Ring(mode, ring, newest, gateway) ==
  [mode |-> mode, ring |-> ring, active |-> newest, gateway |-> gateway]
SomeRings ==
  {Ring("production", {"old"}, "old", TRUE), Ring("production", {"old", "new"}, "new", TRUE),
   Ring("production", {"new"}, "new", TRUE), Ring("production", {"old"}, "new", FALSE),
   Ring("sandbox", {}, "new", FALSE), Ring("sandbox", {"new"}, "new", FALSE)}
=============================================================================
