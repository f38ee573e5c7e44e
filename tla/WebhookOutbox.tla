---------------------------- MODULE WebhookOutbox ----------------------------
(***************************************************************************)
(* Webhook deliveries. An event stages one delivery for every webhook that *)
(* listens, in the unit of work that emits it. One pump claims what is due *)
(* under a lease, posts it to the receiver and records the answer; the     *)
(* process may die between any two of these, and the lease then runs out.  *)
(* The delivery a tenant reads and the job the pump works on are two rows. *)
(***************************************************************************)
EXTENDS Naturals, FiniteSets

CONSTANTS
  Events, Webhooks,
  MaxReplays,        \* bound: how often one delivery is replayed
  Attempts           \* RETRY_DELAYS_MS.length

ASSUME WebhookAssumption == MaxReplays \in Nat /\ Attempts \in Nat

VARIABLES
  webhook,           \* "none", "enabled", "disabled" or "deleted"
  emitted,           \* events emitted so far
  job,               \* [status, attempts, due]
  delivery,          \* [status, attempts]: what the tenant is shown
  pump,              \* the attempt in hand
  posted, accepted   \* what the receiver got, and whether it answered 2xx

webhookVars == <<webhook, emitted, job, delivery, pump, posted, accepted>>
pumpless == <<webhook, emitted>>

Deliveries == Events \X Webhooks \X (0 .. MaxReplays)
Unstaged == [status |-> "none", attempts |-> 0, due |-> FALSE]
NoAttempt == [stage |-> "idle"]
Ended == {"succeeded", "failed"}
Answers == {"ok", "retryable", "refused", "lost"}

WebhookTypeOK ==
  /\ webhook \in [Webhooks -> {"none", "enabled", "disabled", "deleted"}]
  /\ emitted \subseteq Events
  /\ job \in [Deliveries -> [status : {"none", "pending", "in_flight", "retrying"} \cup Ended,
                             attempts : 0 .. Attempts, due : BOOLEAN]]
  /\ delivery \in [Deliveries -> [status : {"none", "pending", "attempting", "retrying"} \cup Ended,
                                  attempts : 0 .. Attempts]]
  /\ pump \in {NoAttempt} \cup [stage : {"claimed"}, of : Deliveries]
              \cup [stage : {"answered"}, of : Deliveries, answer : Answers]
  /\ posted \in [Deliveries -> 0 .. Attempts]
  /\ accepted \subseteq Deliveries

WebhookInit ==
  /\ webhook = [w \in Webhooks |-> "none"]
  /\ emitted = {}
  /\ job = [d \in Deliveries |-> Unstaged]
  /\ delivery = [d \in Deliveries |-> [status |-> "none", attempts |-> 0]]
  /\ pump = NoAttempt
  /\ posted = [d \in Deliveries |-> 0]
  /\ accepted = {}

-----------------------------------------------------------------------------
(* What tenants do.                                                        *)
SetWebhook(w, status) ==
  /\ webhook[w] # "deleted" /\ webhook[w] # status
  /\ webhook[w] = "none" => status = "enabled"
  /\ webhook' = [webhook EXCEPT ![w] = status]
  /\ UNCHANGED <<emitted, job, delivery, pump, posted, accepted>>

Staged(new) ==
  /\ job' = [d \in Deliveries |->
       IF d \in new THEN [status |-> "pending", attempts |-> 0, due |-> TRUE] ELSE job[d]]
  /\ delivery' = [d \in Deliveries |->
       IF d \in new THEN [status |-> "pending", attempts |-> 0] ELSE delivery[d]]

EnqueueEvent(e) ==
  /\ e \notin emitted
  /\ emitted' = emitted \cup {e}
  /\ Staged({<<e, w, 0>> : w \in {x \in Webhooks : webhook[x] = "enabled"}})
  /\ UNCHANGED <<webhook, pump, posted, accepted>>

(* A replay is a delivery of its own, even to a webhook that is disabled.  *)
Replay(e, w, k) ==
  /\ webhook[w] \in {"enabled", "disabled"}
  /\ job[<<e, w, k>>].status # "none"
  /\ k + 1 <= MaxReplays /\ job[<<e, w, k + 1>>].status = "none"
  /\ Staged({<<e, w, k + 1>>})
  /\ UNCHANGED <<webhook, emitted, pump, posted, accepted>>

-----------------------------------------------------------------------------
(* The pump. Whatever happened to the webhook since, its jobs are sent.    *)
JobDueUnleased(d) ==      \* mutant: leases are never taken over
  job[d].status \in {"pending", "retrying"} /\ job[d].due
JobDue(d) == job[d].status \notin {"none"} \cup Ended /\ job[d].due

JobOnly(d, status) == UNCHANGED delivery      \* mutant: the job row only
Record(d, status) == delivery' = [delivery EXCEPT ![d].status = status]

End(d, status) ==
  /\ job' = [job EXCEPT ![d] =
       [status |-> status, attempts |-> @.attempts, due |-> FALSE]]
  /\ Record(d, status)

Retry(d) == End(d, "retrying")

ClaimJob(d) ==
  /\ pump = NoAttempt /\ JobDue(d)
  /\ job[d].attempts < Attempts
  /\ job' = [job EXCEPT ![d] =
       [status |-> "in_flight", attempts |-> @.attempts + 1, due |-> FALSE]]
  /\ delivery' = [delivery EXCEPT ![d] =
       [status |-> "attempting", attempts |-> job[d].attempts + 1]]
  /\ pump' = [stage |-> "claimed", of |-> d]
  /\ UNCHANGED <<pumpless, posted, accepted>>

(* The signing secret cannot be opened: the attempt is spent all the same. *)
SecretUnreadable(d) ==
  /\ pump = NoAttempt /\ JobDue(d)
  /\ job[d].attempts < Attempts
  /\ job' = [job EXCEPT ![d] =
       [status |-> "retrying", attempts |-> @.attempts + 1, due |-> FALSE]]
  /\ delivery' = [delivery EXCEPT ![d] =
       [status |-> "retrying", attempts |-> job[d].attempts + 1]]
  /\ UNCHANGED <<pumpless, pump, posted, accepted>>

RetryLimit(d) ==
  /\ pump = NoAttempt /\ JobDue(d)
  /\ job[d].attempts >= Attempts
  /\ End(d, "failed")
  /\ UNCHANGED <<pumpless, pump, posted, accepted>>

(* The receiver may get a request whose answer is lost.                    *)
PostDelivery ==
  /\ pump.stage = "claimed"
  /\ \E answer \in Answers, got \in BOOLEAN :
       /\ answer # "lost" => got
       /\ pump' = [stage |-> "answered", of |-> pump.of, answer |-> answer]
       /\ posted' = IF got THEN [posted EXCEPT ![pump.of] = @ + 1] ELSE posted
       /\ accepted' = IF answer = "ok" THEN accepted \cup {pump.of} ELSE accepted
  /\ UNCHANGED <<pumpless, job, delivery>>

Retryable(d, answer) == answer # "refused" /\ job[d].attempts < Attempts

FinishAttempt ==
  /\ pump.stage = "answered"
  /\ IF pump.answer = "ok" THEN End(pump.of, "succeeded")
     ELSE IF Retryable(pump.of, pump.answer) THEN Retry(pump.of)
     ELSE End(pump.of, "failed")
  /\ pump' = NoAttempt
  /\ UNCHANGED <<pumpless, posted, accepted>>

PumpDies ==
  /\ pump # NoAttempt
  /\ pump' = NoAttempt
  /\ UNCHANGED <<pumpless, job, delivery, posted, accepted>>

(* A retry delay, or the lease of an attempt that is not in hand, ends.    *)
InHand(d) == pump # NoAttempt /\ pump.of = d

DelayEnds(d) ==
  /\ job[d].status \in {"retrying", "in_flight"} /\ ~job[d].due /\ ~InHand(d)
  /\ job' = [job EXCEPT ![d].due = TRUE]
  /\ UNCHANGED <<pumpless, delivery, pump, posted, accepted>>

Pump(d) == ClaimJob(d) \/ SecretUnreadable(d) \/ RetryLimit(d)

WebhookNext ==
  \/ \E w \in Webhooks, s \in {"enabled", "disabled", "deleted"} : SetWebhook(w, s)
  \/ \E e \in Events : EnqueueEvent(e)
  \/ \E e \in Events, w \in Webhooks, k \in 0 .. MaxReplays : Replay(e, w, k)
  \/ \E d \in Deliveries : Pump(d) \/ DelayEnds(d)
  \/ PostDelivery \/ FinishAttempt \/ PumpDies

(* The pump drains until nothing is due, an attempt ends with an answer or *)
(* its timeout, and retry delays and leases run out.                       *)
Delivering ==
  /\ \A d \in Deliveries : WF_webhookVars(Pump(d)) /\ WF_webhookVars(DelayEnds(d))
  /\ WF_webhookVars(PostDelivery \/ FinishAttempt)

WebhookSpec == WebhookInit /\ [][WebhookNext]_webhookVars

-----------------------------------------------------------------------------
(* What a tenant reads of a delivery is true of the receiver, whatever     *)
(* died in between: it succeeded only if the receiver accepted it, it      *)
(* failed only after every attempt or a refusal, and the receiver never    *)
(* saw it more often than the attempts the tenant is shown                 *)
(* (webhook-outbox.js claim and finish).                                   *)
DeliveryTold ==
  \A d \in Deliveries :
    /\ delivery[d].status = "succeeded" => d \in accepted
    /\ delivery[d].status = "failed" =>
         delivery[d].attempts = Attempts \/ posted[d] > 0
    /\ posted[d] <= delivery[d].attempts
    /\ delivery[d].status = "attempting" <=> job[d].status = "in_flight"
    /\ delivery[d].status # "attempting" => delivery[d].status = job[d].status

(* Every delivery comes to an end the tenant is told, however often the    *)
(* process dies and whatever the receiver answers (webhook-outbox.js).     *)
DeliveriesEnd ==
  \A d \in Deliveries : job[d].status = "pending" ~> delivery[d].status \in Ended
=============================================================================
