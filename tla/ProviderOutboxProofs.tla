----------------------- MODULE ProviderOutboxProofs -----------------------
(***************************************************************************)
(* Proofs about ProviderOutbox, for any set of jobs, accounts, amounts and *)
(* any retry budget, and about the two parts beside it that keep what they *)
(* were given: webhook deliveries (WebhookOutbox) and sealed values        *)
(* (SealedSecrets).                                                        *)
(***************************************************************************)
EXTENDS ProviderOutbox, SealedSecrets, SumTheorems

-----------------------------------------------------------------------------
(* What a worker is, by its stage. *)
LEMMA WorkerParts ==
  ASSUME worker \in Workers
  PROVE  /\ worker.stage \in {"idle", "claimed", "waiting", "answered"}
         /\ worker = Idle <=> worker.stage = "idle"
         /\ worker # Idle => worker.req \in Requests
         /\ worker.stage = "answered" => worker.result \in Results
BY DEF Workers, Idle

(* The fields of a request. *)
LEMMA RequestParts ==
  ASSUME NEW m \in Requests
  PROVE  m.job \in Jobs /\ m.token \in 1..Budget /\ m.phase \in Phases
BY DEF Requests

(* An answered worker is a worker (Answered, provider-outbox.js attempt).  *)
LEMMA AnsweredIsWorker ==
  ASSUME worker \in Workers, worker # Idle, NEW r \in Results, Answered(r)
  PROVE  worker' \in Workers
BY WorkerParts DEF Answered, Workers

(* enforceProviderResultContract returns a result.                         *)
LEMMA CheckedIsResult ==
  ASSUME NEW j \in Jobs, NEW r \in Results, NEW complete \in BOOLEAN
  PROVE  /\ Checked(j, r, complete) \in Results
         /\ Checked(j, r, complete).funds = r.funds
BY DEF Checked, Results, Outcomes

(* A handler asks for a state, a flag and a posting of the known kinds.    *)
LEMMA EffectParts ==
  ASSUME TypeOK, NEW j \in Jobs, NEW r \in Results
  PROVE  /\ HandlerEffect(j, r).state \in Resources
         /\ HandlerEffect(j, r).flag \in BOOLEAN
         /\ HandlerEffect(j, r).case \in BOOLEAN
         /\ HandlerEffect(j, r).posting \in {"none", "settle", "refund"}
BY DEF HandlerEffect, TransferEffect, CustodyEffect, ProvisioningEffect,
       IdentityEffect, FundsUnproven, Effect, TypeOK, Resources, Results

(* Only a money job asks for a posting.                                    *)
LEMMA OnlyMoneyPosts ==
  ASSUME NEW j \in Jobs, NEW r \in Results,
         HandlerEffect(j, r).posting # "none"
  PROVE  j \in MoneyJobs
BY DEF HandlerEffect, TransferEffect, CustodyEffect, ProvisioningEffect,
       IdentityEffect, FundsUnproven, Effect, MoneyJobs, Money, Provisioned

LEMMA InitTypeOK == Init => TypeOK
BY ConstantsAssumption
   DEF Init, TypeOK, Statuses, Phases, Funds, AttemptStatuses, Resources,
       Workers, Truths, TERMINAL

LEMMA NextTypeOK == TypeOK /\ [Next]_vars => TypeOK'
<1> SUFFICES ASSUME TypeOK, [Next]_vars PROVE TypeOK'
  OBVIOUS
<1> USE ConstantsAssumption
<1>1. ASSUME NEW j \in Jobs, ReserveAndQueue(j) PROVE TypeOK'
  BY <1>1 DEF ReserveAndQueue, QueueProviderOperation, worldVars, TypeOK, Statuses, Resources
<1>2. ASSUME NEW j \in Jobs, CreateAndQueue(j) PROVE TypeOK'
  BY <1>2 DEF CreateAndQueue, QueueProviderOperation, worldVars, TypeOK, Statuses, Resources
<1>3. ASSUME NEW j \in Jobs, Claim(j) PROVE TypeOK'
  <2> DEFINE n == attempts[j] + 1
  <2>1. n \in 1..Budget
    BY <1>3 DEF Claim, BudgetLeft, TypeOK
  <2>2. PhaseAtClaim(j) \in Phases
    BY DEF PhaseAtClaim, TypeOK, Phases
  <2>3. TriedAtClaim(j) \in [1..Budget -> AttemptStatuses]
    BY DEF TriedAtClaim, TypeOK, AttemptStatuses
  <2>4. tried' \in [Jobs -> [1..Budget -> AttemptStatuses]]
    BY <1>3, <2>1, <2>3 DEF Claim, TypeOK, AttemptStatuses
  <2>5. worker' \in Workers
    BY <1>3, <2>1, <2>2 DEF Claim, Workers, Requests
  <2>6. /\ status' \in [Jobs -> Statuses]
        /\ phase' \in [Jobs -> Phases]
        /\ attempts' \in [Jobs -> 0..Budget]
        /\ token' \in [Jobs -> 0..Budget]
    BY <1>3, <2>1, <2>2 DEF Claim, TypeOK, Statuses
  <2> QED
    BY <1>3, <2>4, <2>5, <2>6 DEF Claim, worldVars, TypeOK
<1>4. ASSUME NEW j \in Jobs, ClaimExhausted(j) PROVE TypeOK'
  <2>1. PhaseAtClaim(j) \in Phases
    BY DEF PhaseAtClaim, TypeOK, Phases
  <2>2. TriedAtClaim(j) \in [1..Budget -> AttemptStatuses]
    BY DEF TriedAtClaim, TypeOK, AttemptStatuses
  <2> QED
    BY <1>4, <2>1, <2>2 DEF ClaimExhausted, worldVars, TypeOK, Statuses, TERMINAL
<1>5. ASSUME NEW j \in Jobs, LeaseExpires(j) PROVE TypeOK'
  BY <1>5 DEF LeaseExpires, bookVars, worldVars, TypeOK
<1>6. ASSUME NEW j \in Jobs, ProviderConcludes(j) PROVE TypeOK'
  BY <1>6 DEF ProviderConcludes, jobVars, bookVars, TypeOK, Truths
<1>7. ASSUME Send PROVE TypeOK'
  <2>1. worker.req \in Requests /\ worker' \in Workers
    BY <1>7, WorkerParts DEF Send, TypeOK, Workers, Idle
  <2> QED
    BY <1>7, <2>1 DEF Send, jobVars, bookVars, TypeOK
<1>8. ASSUME PayloadUnreadable PROVE TypeOK'
  <2>1. worker' \in Workers
    BY <1>8, WorkerParts, AnsweredIsWorker
       DEF PayloadUnreadable, TypeOK, Idle, Results, Outcomes, Funds
  <2> QED
    BY <1>8, <2>1 DEF PayloadUnreadable, jobVars, bookVars, worldVars, TypeOK
<1>9. ASSUME TransportAmbiguous PROVE TypeOK'
  <2>1. worker' \in Workers
    BY <1>9, WorkerParts, AnsweredIsWorker
       DEF TransportAmbiguous, TypeOK, Idle, NoResult, Results, Outcomes, Funds
  <2> QED
    BY <1>9, <2>1 DEF TransportAmbiguous, jobVars, bookVars, worldVars, TypeOK
<1>10. ASSUME Finish PROVE TypeOK'
  <2> DEFINE j == worker.req.job
             r == worker.result
             effect == HandlerEffect(j, r)
  <2>1. /\ j \in Jobs /\ worker.req.token \in 1..Budget
        /\ r \in Results
    BY <1>10, WorkerParts, RequestParts DEF Finish, TypeOK, Idle
  <2>2. /\ effect.state \in Resources
        /\ effect.flag \in BOOLEAN
        /\ effect.posting \in {"none", "settle", "refund"}
        /\ effect.posting # "none" => j \in MoneyJobs
    BY <2>1, EffectParts, OnlyMoneyPosts
  <2>3. /\ AttemptAfter(r) \in AttemptStatuses
        /\ StatusAfter(r) \in Statuses
        /\ PhaseAfter(j, r) \in Phases
        /\ CaseAfter(j, r) \in {"none", "open", "resolved"}
        /\ r.funds \in Funds
    BY <2>1 DEF AttemptAfter, StatusAfter, PhaseAfter, CaseAfter, TypeOK,
                AttemptStatuses, Statuses, TERMINAL, Phases, Results, Outcomes
  <2>4. /\ held' \in [MoneyJobs -> Int]
        /\ paid' \in [MoneyJobs -> Int]
        /\ balance' \in [Accounts -> Int]
    <3>1. Post(j, effect.posting)
      BY <1>10 DEF Finish
    <3>2. CASE effect.posting = "none"
      BY <3>1, <3>2 DEF Post, TypeOK
    <3>3. CASE effect.posting = "settle"
      BY <2>2, <3>1, <3>3 DEF Post, TypeOK
    <3>4. CASE effect.posting = "refund"
      BY <2>2, <3>1, <3>4 DEF Post, TypeOK
    <3> QED
      BY <2>2, <3>2, <3>3, <3>4
  <2>5. tried' \in [Jobs -> [1..Budget -> AttemptStatuses]]
    BY <1>10, <2>1, <2>3 DEF Finish, TypeOK
  <2>6. /\ status' \in [Jobs -> Statuses]
        /\ phase' \in [Jobs -> Phases]
        /\ token' \in [Jobs -> 0..Budget]
        /\ expired' \in SUBSET Jobs
        /\ funds' \in [Jobs -> Funds]
    BY <1>10, <2>1, <2>3 DEF Finish, TypeOK
  <2>7. /\ cases' \in [Jobs -> {"none", "open", "resolved"}]
        /\ resource' \in [Jobs -> Resources]
        /\ review' \in [Jobs -> BOOLEAN]
        /\ worker' \in Workers
    BY <1>10, <2>1, <2>2, <2>3 DEF Finish, TypeOK, Workers
  <2> QED
    BY <1>10, <2>4, <2>5, <2>6, <2>7 DEF Finish, worldVars, TypeOK
<1>11. ASSUME Abandon PROVE TypeOK'
  BY <1>11 DEF Abandon, jobVars, bookVars, worldVars, TypeOK, Workers
<1>12. ASSUME NEW m \in net, ProviderHandles(m) PROVE TypeOK'
  <2>1. m.job \in Jobs
    BY RequestParts DEF TypeOK
  <2>2. truth' \in [Jobs -> Truths] /\ instructions' \in [Jobs -> Nat]
    <3>1. ProviderActs(m) \/ ProviderRefuses(m) \/ UNCHANGED <<truth, instructions>>
      BY <1>12 DEF ProviderHandles
    <3>2. CASE ProviderActs(m)
      BY <2>1, <3>2 DEF ProviderActs, TypeOK, Truths
    <3>3. CASE ProviderRefuses(m)
      BY <2>1, <3>3 DEF ProviderRefuses, TypeOK, Truths
    <3>4. CASE UNCHANGED <<truth, instructions>>
      BY <3>4 DEF TypeOK
    <3> QED
      BY <3>1, <3>2, <3>3, <3>4
  <2>3. worker' \in Workers
    <3>1. CASE UNCHANGED worker
      BY <3>1 DEF TypeOK
    <3>2. CASE worker.stage = "waiting"
              /\ \E r \in Results, complete \in BOOLEAN :
                   Answered(Checked(m.job, r, complete))
      BY <2>1, <3>2, WorkerParts, CheckedIsResult, AnsweredIsWorker DEF TypeOK, Idle
    <3> QED
      BY <1>12, <3>1, <3>2 DEF ProviderHandles
  <2> QED
    BY <1>12, <2>2, <2>3 DEF ProviderHandles, jobVars, bookVars, TypeOK
<1>13. ASSUME TenantActivity PROVE TypeOK'
  BY <1>13 DEF TenantActivity, jobVars, worldVars, TypeOK
<1>14. ASSUME UNCHANGED vars PROVE TypeOK'
  BY <1>14 DEF vars, jobVars, bookVars, worldVars, TypeOK
<1> QED
  BY <1>1, <1>2, <1>3, <1>4, <1>5, <1>6, <1>7, <1>8, <1>9, <1>10, <1>11, <1>12,
     <1>13, <1>14 DEF Next, JobStep, PumpStep

(* Every variable keeps its type: an attempt number never leaves the retry *)
(* budget (claim, provider-outbox.js:281), a lease always names a real     *)
(* attempt, and every handler leaves its resource in a known state.        *)
THEOREM TypeInvariant == Spec => []TypeOK
BY InitTypeOK, NextTypeOK, PTL DEF Spec
-----------------------------------------------------------------------------
(* The inductive invariant. The lemmas of the first group say what keeps   *)
(* one job's part of it.                                                   *)

(* A job is not submitted again as long as its count stays, no submission  *)
(* of it appears on the network and its exposure is not forgotten.         *)
LEMMA SubmittedKept ==
  ASSUME NEW k \in Jobs, SubmittedOnce(k),
         instructions'[k] = instructions[k],
         \/ truth'[k] = truth[k]
         \/ instructions[k] # 0
         \/ truth'[k] \in {"unseen", "refused"},
         Submissions(k)' \subseteq Submissions(k),
         Unexposed(k)' => Unexposed(k),
         status'[k] \in {"pending_provider", "ambiguous"} => phase'[k] = "reconcile"
  PROVE  SubmittedOnce(k)'
BY DEF SubmittedOnce

(* The place of a job's money does not change while its books do not, its  *)
(* status stays on the same side of the outcome, and the provider does not *)
(* revise a final state.                                                   *)
LEMMA MoneyKept ==
  ASSUME TypeOK, NEW k \in MoneyJobs, MoneyPlaced(k), TransferTold(k),
         held'[k] = held[k], paid'[k] = paid[k],
         resource'[k] = resource[k], review'[k] = review[k],
         truth[k] \in {"settled", "refused", "returned"} => truth'[k] = truth[k],
         cases'[k] = cases[k] \/ cases'[k] = "open",
         \/ status'[k] = status[k]
         \/ /\ status[k] \notin {"none", "succeeded", "failed"}
            /\ status'[k] \notin {"none", "succeeded", "failed"}
  PROVE  MoneyPlaced(k)' /\ TransferTold(k)'
<1>1. Amount[k] > 0
  BY ConstantsAssumption
<1>2. k \in Jobs
  BY DEF MoneyJobs
<1>3. MoneyPlaced(k)'
  BY <1>1, <1>2 DEF MoneyPlaced, PaidOut, GivenBack, Reserved
<1>4. TransferTold(k)'
  <2>1. \/ status[k] = "none" /\ held[k] = 0 /\ paid[k] = 0
        \/ PaidOut(k) \/ GivenBack(k) \/ Reserved(k)
    BY DEF MoneyPlaced
  <2> QED
    BY <1>1, <1>2, <2>1 DEF TransferTold, PaidOut, GivenBack, Reserved
<1> QED
  BY <1>3, <1>4

LEMMA InitInductive == Init => Inductive
<1> SUFFICES ASSUME Init PROVE Inductive
  OBVIOUS
<1>1. WorkerHoldsLease /\ AnswerSupported
  BY DEF Init, WorkerHoldsLease, AnswerSupported, Idle
<1>2. \A j \in Jobs : SubmittedOnce(j)
  BY DEF Init, SubmittedOnce, Submissions
<1>3. \A j \in MoneyJobs : MoneyPlaced(j) /\ TransferTold(j)
  BY ConstantsAssumption
     DEF Init, MoneyPlaced, TransferTold, PaidOut, GivenBack, Reserved, MoneyJobs
<1>4. UncertainHasCase
  BY DEF Init, UncertainHasCase
<1> QED
  BY <1>1, <1>2, <1>3, <1>4 DEF Inductive

(* Queueing: the job had no provider work, so no attempt holds it.         *)
LEMMA QueueInductive ==
  ASSUME TypeOK, Inductive, NEW j \in Jobs, ReserveAndQueue(j) \/ CreateAndQueue(j)
  PROVE  Inductive'
<1> USE DEF QueueProviderOperation, worldVars
<1>1. /\ QueueProviderOperation(j)
      /\ UNCHANGED <<phase, token, cases, paid, worker, net, truth, instructions>>
      /\ status[j] = "none" /\ status' = [status EXCEPT ![j] = "pending"]
  BY DEF ReserveAndQueue, CreateAndQueue
<1>2. WorkerHoldsLease'
  BY <1>1 DEF Inductive, WorkerHoldsLease, TypeOK
<1>3. AnswerSupported'
  BY <1>1 DEF Inductive, AnswerSupported
<1>4. ASSUME NEW k \in Jobs PROVE SubmittedOnce(k)'
  <2>1. Submissions(k)' = Submissions(k)
    BY <1>1 DEF Submissions
  <2>2. Unexposed(k)' => Unexposed(k)
    BY <1>1 DEF Unexposed, Holds, TypeOK
  <2> QED
    BY <1>1, <2>1, <2>2, SubmittedKept DEF Inductive, SubmittedOnce, TypeOK
<1>5. ASSUME NEW k \in MoneyJobs PROVE MoneyPlaced(k)' /\ TransferTold(k)'
  <2>1. k \in Jobs /\ Amount[k] \in Nat /\ Amount[k] > 0
    BY ConstantsAssumption DEF MoneyJobs
  <2>2. CASE k # j
    <3>1. /\ held'[k] = held[k] /\ resource'[k] = resource[k]
          /\ review'[k] = review[k] /\ status'[k] = status[k]
      BY <1>1, <2>1, <2>2 DEF ReserveAndQueue, CreateAndQueue, TypeOK
    <3> QED
      BY <1>1, <3>1, MoneyKept DEF Inductive
  <2>3. CASE k = j
    <3>1. ReserveAndQueue(k)
      BY <2>3 DEF CreateAndQueue
    <3>2. /\ status'[k] = "pending" /\ resource'[k] = "funds_received"
          /\ held'[k] = held[k] + Amount[k] /\ paid'[k] = paid[k]
      BY <2>1, <2>3, <3>1, <1>1 DEF ReserveAndQueue, TypeOK
    <3>3. held[k] = 0 /\ paid[k] = 0
      BY <1>1, <2>3 DEF Inductive, MoneyPlaced
    <3> QED
      BY <2>1, <3>2, <3>3
         DEF MoneyPlaced, TransferTold, PaidOut, GivenBack, Reserved
  <2> QED
    BY <2>2, <2>3
<1>6. UncertainHasCase'
  BY <1>1 DEF Inductive, UncertainHasCase, TypeOK
<1> QED
  BY <1>2, <1>3, <1>4, <1>5, <1>6 DEF Inductive
(* Claiming: nothing is in hand; an exhausted job only changes status.     *)
LEMMA ClaimInductive ==
  ASSUME TypeOK, Inductive, NEW j \in Jobs, Claim(j) \/ ClaimExhausted(j)
  PROVE  Inductive'
<1> DEFINE n == attempts[j] + 1
<1>1. /\ worker = Idle
      /\ status[j] \notin {"none", "succeeded", "failed", "manual_review"}
      /\ status[j] \in Statuses
      /\ phase' = [phase EXCEPT ![j] = PhaseAtClaim(j)]
      /\ UNCHANGED <<funds, resource, review, held, paid, balance, net, truth,
                     instructions>>
  BY DEF Claim, ClaimExhausted, Due, TERMINAL, worldVars, TypeOK
<1>2. /\ status' \in {[status EXCEPT ![j] = "in_flight"],
                      [status EXCEPT ![j] = "manual_review"]}
      /\ cases' = cases \/ cases' = [cases EXCEPT ![j] = "open"]
      /\ status'[j] = "manual_review" => cases'[j] = "open"
  BY DEF Claim, ClaimExhausted, TypeOK
<1>3. /\ Claim(j) => worker' = [stage |-> "claimed",
                         req |-> [job |-> j, token |-> n, phase |-> PhaseAtClaim(j)]]
      /\ ClaimExhausted(j) => worker' = Idle /\ status'[j] = "manual_review"
  BY <1>1 DEF Claim, ClaimExhausted, TypeOK
<1>4. WorkerHoldsLease'
  <2>1. CASE Claim(j)
    <3>1. worker'.req.job = j /\ worker'.req.token = n
          /\ worker'.req.phase = PhaseAtClaim(j)
      BY <1>3, <2>1
    <3>2. status'[j] = "in_flight" /\ token'[j] = n /\ phase'[j] = PhaseAtClaim(j)
      BY <2>1 DEF Claim, TypeOK
    <3> QED
      BY <3>1, <3>2 DEF WorkerHoldsLease
  <2>2. CASE ClaimExhausted(j)
    BY <1>3, <2>2 DEF WorkerHoldsLease
  <2> QED
    BY <2>1, <2>2
<1>5. AnswerSupported'
  BY <1>3 DEF AnswerSupported, Idle
<1>6. ASSUME NEW k \in Jobs PROVE SubmittedOnce(k)'
  <2>1. Submissions(k)' = Submissions(k)
    BY <1>1 DEF Submissions
  <2>2. CASE k # j
    <3>1. /\ status'[k] = status[k] /\ phase'[k] = phase[k]
          /\ instructions'[k] = instructions[k] /\ truth'[k] = truth[k]
      BY <1>1, <1>2, <2>2 DEF TypeOK
    <3>2. ~Holds(k)'
      BY <1>3, <2>2 DEF Holds
    <3>3. Unexposed(k)' => Unexposed(k)
      BY <3>1, <3>2 DEF Unexposed
    <3> QED
      BY <2>1, <3>1, <3>3, SubmittedKept DEF Inductive, SubmittedOnce
  <2>3. CASE k = j
    <3>1. status'[k] \in {"in_flight", "manual_review"}
      BY <1>2, <2>3 DEF TypeOK
    <3>2. instructions'[k] = instructions[k] /\ truth'[k] = truth[k]
      BY <1>1
    <3>3. ASSUME Unexposed(k)' PROVE Unexposed(k)
      <4>1. phase'[k] = "submit"
        BY <3>3 DEF Unexposed
      <4>2. phase[k] = "submit" /\ status[k] # "in_flight"
        BY <1>1, <2>3, <4>1 DEF PhaseAtClaim, LeaseLost, TypeOK
      <4>3. status[k] \notin {"pending_provider", "ambiguous"}
        BY <4>2 DEF Inductive, SubmittedOnce
      <4> QED
        BY <1>1, <2>3, <4>2, <4>3 DEF Unexposed, Statuses, TERMINAL
    <3> QED
      BY <2>1, <3>1, <3>2, <3>3, SubmittedKept DEF Inductive
  <2> QED
    BY <2>2, <2>3
<1>7. ASSUME NEW k \in MoneyJobs PROVE MoneyPlaced(k)' /\ TransferTold(k)'
  <2>1. k \in Jobs
    BY DEF MoneyJobs
  <2>2. cases'[k] = cases[k] \/ cases'[k] = "open"
    BY <1>2, <2>1 DEF TypeOK
  <2>3. \/ status'[k] = status[k]
        \/ /\ status[k] \notin {"none", "succeeded", "failed"}
           /\ status'[k] \notin {"none", "succeeded", "failed"}
    BY <1>1, <1>2, <2>1 DEF TypeOK
  <2> QED
    BY <1>1, <2>2, <2>3, MoneyKept DEF Inductive
<1>8. UncertainHasCase'
  BY <1>1, <1>2, <1>3 DEF Inductive, UncertainHasCase, TypeOK
<1> QED
  BY <1>4, <1>5, <1>6, <1>7, <1>8 DEF Inductive

(* The clock, a tenant's other commands and a forgotten attempt.           *)
LEMMA OutsideInductive ==
  ASSUME TypeOK, Inductive,
         \/ \E j \in Jobs : LeaseExpires(j)
         \/ TenantActivity
         \/ Abandon
         \/ UNCHANGED vars
  PROVE  Inductive'
<1>1. /\ UNCHANGED <<status, phase, token, cases, resource, review, held, paid,
                     net, truth, instructions>>
      /\ worker' = worker \/ worker' = Idle
  BY DEF LeaseExpires, TenantActivity, Abandon, vars, jobVars, bookVars, worldVars
<1>2. WorkerHoldsLease' /\ AnswerSupported'
  BY <1>1 DEF Inductive, WorkerHoldsLease, AnswerSupported, Idle
<1>3. ASSUME NEW k \in Jobs PROVE SubmittedOnce(k)'
  <2>1. Submissions(k)' = Submissions(k)
    BY <1>1 DEF Submissions
  <2>2. Unexposed(k)' => Unexposed(k)
    BY <1>1 DEF Unexposed, Holds, Idle
  <2> QED
    BY <1>1, <2>1, <2>2, SubmittedKept DEF Inductive, SubmittedOnce
<1>4. ASSUME NEW k \in MoneyJobs PROVE MoneyPlaced(k)' /\ TransferTold(k)'
  BY <1>1, MoneyKept DEF Inductive
<1>5. UncertainHasCase'
  BY <1>1 DEF Inductive, UncertainHasCase
<1> QED
  BY <1>2, <1>3, <1>4, <1>5 DEF Inductive
(* Sending: the one submission of a job that was not exposed before.       *)
LEMMA SendInductive ==
  ASSUME TypeOK, Inductive, Send
  PROVE  Inductive'
<1> DEFINE j == worker.req.job
<1>1. /\ worker # Idle /\ worker.req \in Requests /\ j \in Jobs
      /\ worker'.stage = "waiting" /\ worker'.req = worker.req /\ worker' # Idle
  BY WorkerParts, RequestParts DEF Send, TypeOK, Workers, Idle
<1>2. /\ worker.stage = "claimed"
      /\ net' = net \cup {worker.req}
      /\ UNCHANGED <<status, phase, token, cases, resource, review, held, paid,
                     truth, instructions>>
  BY DEF Send, jobVars, bookVars
<1>3. status[j] = "in_flight" /\ phase[j] = worker.req.phase
  BY <1>1 DEF Inductive, WorkerHoldsLease
<1>4. WorkerHoldsLease' /\ AnswerSupported'
  BY <1>1, <1>2 DEF Inductive, WorkerHoldsLease, AnswerSupported
<1>5. ASSUME NEW k \in Jobs PROVE SubmittedOnce(k)'
  <2>1. Unexposed(k)' => Unexposed(k) /\ k # j
    BY <1>1, <1>2, <1>3 DEF Unexposed, Holds
  <2>2. CASE k = j /\ worker.req.phase = "submit"
    <3>1. Submissions(k) = {} /\ instructions[k] = 0
      BY <1>1, <1>2, <1>3, <2>2 DEF Unexposed, Holds, Inductive, SubmittedOnce
    <3>2. Submissions(k)' = {worker.req}
      BY <1>2, <2>2, <3>1 DEF Submissions
    <3> QED
      BY <1>2, <2>1, <2>2, <3>1, <3>2 DEF Inductive, SubmittedOnce
  <2>3. CASE ~(k = j /\ worker.req.phase = "submit")
    <3>1. Submissions(k)' = Submissions(k)
      BY <1>2, <2>3 DEF Submissions
    <3> QED
      BY <1>2, <2>1, <3>1, SubmittedKept DEF Inductive, SubmittedOnce
  <2> QED
    BY <2>2, <2>3
<1>6. ASSUME NEW k \in MoneyJobs PROVE MoneyPlaced(k)' /\ TransferTold(k)'
  BY <1>2, MoneyKept DEF Inductive
<1>7. UncertainHasCase'
  BY <1>2 DEF Inductive, UncertainHasCase
<1> QED
  BY <1>4, <1>5, <1>6, <1>7 DEF Inductive

(* An answer of the transport itself: a retry from an attempt that sent    *)
(* nothing, or an ambiguous one.                                           *)
LEMMA TransportInductive ==
  ASSUME TypeOK, Inductive, PayloadUnreadable \/ TransportAmbiguous
  PROVE  Inductive'
<1>1. /\ worker # Idle /\ worker' # Idle
      /\ worker'.stage = "answered" /\ worker'.req = worker.req
      /\ \/ worker.stage = "claimed" /\ worker'.result.outcome = "retry"
         \/ worker.stage = "waiting" /\ worker'.result.outcome = "ambiguous"
  BY DEF PayloadUnreadable, TransportAmbiguous, Answered, NoResult, Idle
<1>2. UNCHANGED <<status, phase, token, cases, resource, review, held, paid, net,
                  truth, instructions>>
  BY DEF PayloadUnreadable, TransportAmbiguous, jobVars, bookVars, worldVars
<1>3. WorkerHoldsLease' /\ AnswerSupported'
  BY <1>1, <1>2 DEF Inductive, WorkerHoldsLease, AnswerSupported
<1>4. ASSUME NEW k \in Jobs PROVE SubmittedOnce(k)'
  <2>1. Submissions(k)' = Submissions(k)
    BY <1>2 DEF Submissions
  <2>2. Unexposed(k)' => Unexposed(k)
    BY <1>1, <1>2 DEF Unexposed, Holds
  <2> QED
    BY <1>2, <2>1, <2>2, SubmittedKept DEF Inductive, SubmittedOnce
<1>5. ASSUME NEW k \in MoneyJobs PROVE MoneyPlaced(k)' /\ TransferTold(k)'
  BY <1>2, MoneyKept DEF Inductive
<1>6. UncertainHasCase'
  BY <1>2 DEF Inductive, UncertainHasCase
<1> QED
  BY <1>3, <1>4, <1>5, <1>6 DEF Inductive

(* The contract lets a success through only when the provider settled, and *)
(* a refundable failure only when it refused or returned.                  *)
LEMMA CheckedIsSupported ==
  ASSUME NEW j \in Jobs, NEW t, NEW r \in Results, NEW complete \in BOOLEAN,
         Truthful(j, t, r, complete), NEW a, a = Checked(j, r, complete)
  PROVE  /\ a.outcome = "succeeded" => t = "settled"
         /\ a.outcome = "failed" /\ a.funds = "not_sent" => t = "refused"
         /\ a.outcome = "failed" /\ a.funds = "returned" => t = "returned"
         /\ a.outcome = "retry" => r.outcome = "retry"
BY DEF Checked, Truthful, Results

(* The provider concludes only what it was instructed to do.               *)
LEMMA ConcludesInductive ==
  ASSUME TypeOK, Inductive, NEW j \in Jobs, ProviderConcludes(j)
  PROVE  Inductive'
<1>1. UNCHANGED <<status, phase, token, cases, resource, review, held, paid,
                  worker, net, instructions>>
  BY DEF ProviderConcludes, jobVars, bookVars
<1>2. /\ truth[j] = "submitted"
      /\ \A k \in Jobs : k # j => truth'[k] = truth[k]
  BY DEF ProviderConcludes, TypeOK
<1>3. WorkerHoldsLease'
  BY <1>1 DEF Inductive, WorkerHoldsLease
<1>4. AnswerSupported'
  <2> SUFFICES ASSUME worker.stage = "answered", worker' = worker
               PROVE  AnswerSupported'
    BY <1>1 DEF AnswerSupported
  <2>1. worker.req.job \in Jobs
    BY WorkerParts, RequestParts DEF TypeOK, Idle
  <2> QED
    BY <1>2, <2>1 DEF Inductive, AnswerSupported
<1>5. ASSUME NEW k \in Jobs PROVE SubmittedOnce(k)'
  <2>1. Submissions(k)' = Submissions(k)
    BY <1>1 DEF Submissions
  <2>2. Unexposed(k)' => Unexposed(k)
    BY <1>1 DEF Unexposed, Holds
  <2>3. truth'[k] = truth[k] \/ instructions[k] # 0
    BY <1>2 DEF Inductive, SubmittedOnce
  <2> QED
    BY <1>1, <2>1, <2>2, <2>3, SubmittedKept DEF Inductive, SubmittedOnce
<1>6. ASSUME NEW k \in MoneyJobs PROVE MoneyPlaced(k)' /\ TransferTold(k)'
  <2>1. truth[k] \in {"settled", "refused", "returned"} => truth'[k] = truth[k]
    BY <1>2 DEF MoneyJobs
  <2> QED
    BY <1>1, <2>1, MoneyKept DEF Inductive
<1>7. UncertainHasCase'
  BY <1>1 DEF Inductive, UncertainHasCase
<1> QED
  BY <1>3, <1>4, <1>5, <1>6, <1>7 DEF Inductive
(* A request is handled once: the provider acts on a submission only while *)
(* it is the job's only one and nothing was done for it.                   *)
LEMMA HandlesInductive ==
  ASSUME TypeOK, Inductive, NEW m \in net, ProviderHandles(m)
  PROVE  Inductive'
<1> DEFINE j == m.job
<1>1. /\ j \in Jobs /\ m.phase \in Phases
      /\ net' = net \ {m}
      /\ UNCHANGED <<status, phase, token, cases, resource, review, held, paid>>
  BY RequestParts DEF ProviderHandles, jobVars, bookVars, TypeOK
<1>2. m.phase = "submit" =>
        /\ m \in Submissions(j)
        /\ instructions[j] = 0 /\ truth[j] \in {"unseen", "refused"}
        /\ Submissions(j)' = {}
  BY <1>1 DEF Inductive, SubmittedOnce, Submissions
<1>3. \/ UNCHANGED <<truth, instructions>>
      \/ /\ m.phase = "submit" /\ truth[j] = "unseen"
         /\ truth' = [truth EXCEPT ![j] = "submitted"]
         /\ instructions' = [instructions EXCEPT ![j] = @ + 1]
      \/ /\ truth[j] = "unseen"
         /\ truth' = [truth EXCEPT ![j] = "refused"]
         /\ UNCHANGED instructions
  <2>1. ProviderActs(m) \/ ProviderRefuses(m) \/ UNCHANGED <<truth, instructions>>
    BY DEF ProviderHandles
  <2> QED
    BY <1>2, <2>1 DEF ProviderActs, ProviderRefuses
<1>4. \A k \in Jobs :
        /\ truth'[k] = truth[k] \/ (k = j /\ truth[k] = "unseen")
        /\ k # j => instructions'[k] = instructions[k]
  <2>1. CASE UNCHANGED <<truth, instructions>>
    BY <2>1
  <2>2. CASE ~UNCHANGED <<truth, instructions>>
    BY <1>1, <1>3, <2>2 DEF TypeOK
  <2> QED
    BY <2>1, <2>2
<1>5. \/ worker' = worker
      \/ /\ worker # Idle /\ worker' # Idle
         /\ worker.stage = "waiting" /\ worker.req = m
         /\ worker'.stage = "answered" /\ worker'.req = m
         /\ worker'.result.outcome = "retry" => UNCHANGED <<truth, instructions>>
         /\ worker'.result.outcome = "succeeded" => truth'[j] = "settled"
         /\ worker'.result.outcome = "failed" /\ worker'.result.funds = "not_sent"
              => truth'[j] = "refused"
         /\ worker'.result.outcome = "failed" /\ worker'.result.funds = "returned"
              => truth'[j] = "returned"
  <2>1. CASE worker' = worker
    BY <2>1
  <2>2. CASE worker' # worker
    <3>1. /\ worker.stage = "waiting" /\ worker.req = m
          /\ \E r \in Results, complete \in BOOLEAN :
               /\ Truthful(j, truth'[j], r, complete)
               /\ r.outcome = "retry" => UNCHANGED <<truth, instructions>>
               /\ Answered(Checked(j, r, complete))
      BY <2>2 DEF ProviderHandles
    <3>2. PICK r \in Results, complete \in BOOLEAN :
               /\ Truthful(j, truth'[j], r, complete)
               /\ r.outcome = "retry" => UNCHANGED <<truth, instructions>>
               /\ Answered(Checked(j, r, complete))
      BY <3>1
    <3>3. /\ worker'.stage = "answered" /\ worker'.req = m
          /\ worker'.result = Checked(j, r, complete)
          /\ worker # Idle /\ worker' # Idle
      BY <3>1, <3>2 DEF Answered, Idle
    <3>4. /\ Checked(j, r, complete).outcome = "succeeded" => truth'[j] = "settled"
          /\ /\ Checked(j, r, complete).outcome = "failed"
             /\ Checked(j, r, complete).funds = "not_sent"
             => truth'[j] = "refused"
          /\ /\ Checked(j, r, complete).outcome = "failed"
             /\ Checked(j, r, complete).funds = "returned"
             => truth'[j] = "returned"
          /\ Checked(j, r, complete).outcome = "retry" => r.outcome = "retry"
      BY <1>1, <3>2, CheckedIsSupported
    <3> QED
      BY <3>1, <3>2, <3>3, <3>4
  <2> QED
    BY <2>1, <2>2
<1>6. WorkerHoldsLease'
  BY <1>1, <1>5 DEF Inductive, WorkerHoldsLease
<1>7. AnswerSupported'
  <2>1. CASE worker' = worker
    <3> SUFFICES ASSUME worker.stage = "answered" PROVE AnswerSupported'
      BY <2>1 DEF AnswerSupported
    <3>1. worker.req.job \in Jobs
      BY WorkerParts, RequestParts DEF TypeOK, Idle
    <3>2. \/ truth'[worker.req.job] = truth[worker.req.job]
          \/ truth[worker.req.job] = "unseen"
      BY <1>4, <3>1
    <3> QED
      BY <2>1, <3>2 DEF Inductive, AnswerSupported
  <2>2. CASE worker' # worker
    BY <1>5, <2>2 DEF AnswerSupported
  <2> QED
    BY <2>1, <2>2
<1>8. ASSUME NEW k \in Jobs PROVE SubmittedOnce(k)'
  <2>1. Submissions(k)' \subseteq Submissions(k)
    BY <1>1 DEF Submissions
  <2>2. CASE k # j
    <3>1. Unexposed(k)' => Unexposed(k)
      BY <1>1, <1>5, <2>2 DEF Unexposed, Holds
    <3> QED
      BY <1>1, <1>4, <2>1, <2>2, <3>1, SubmittedKept DEF Inductive, SubmittedOnce
  <2>3. CASE k = j
    <3>1. CASE m.phase = "submit"
      <4>1. /\ Submissions(k)' = {}
            /\ instructions[k] = 0 /\ truth[k] \in {"unseen", "refused"}
            /\ ~Unexposed(k)
        BY <1>2, <2>3, <3>1 DEF Inductive, SubmittedOnce
      <4>2. \/ instructions'[k] = 0 /\ truth'[k] \in {"unseen", "refused"}
            \/ instructions'[k] = 1 /\ ~UNCHANGED instructions
        BY <1>1, <1>3, <2>3, <4>1 DEF TypeOK
      <4>3. Unexposed(k)' => UNCHANGED instructions
        BY <1>1, <1>5, <4>1 DEF Unexposed, Holds
      <4>4. status'[k] \in {"pending_provider", "ambiguous"} => phase'[k] = "reconcile"
        BY <1>1 DEF Inductive, SubmittedOnce
      <4> QED
        BY <4>1, <4>2, <4>3, <4>4 DEF SubmittedOnce
    <3>2. CASE m.phase # "submit"
      <4>1. instructions'[k] = instructions[k]
        BY <1>3, <3>2
      <4>2. \/ truth'[k] = truth[k]
            \/ truth'[k] \in {"unseen", "refused"}
        BY <1>1, <1>3, <2>3, <3>2 DEF TypeOK
      <4>3. Unexposed(k)' => Unexposed(k)
        <5>1. worker' # worker => phase[j] = m.phase
          BY <1>5 DEF Inductive, WorkerHoldsLease
        <5> QED
          BY <1>1, <2>3, <3>2, <5>1 DEF Unexposed, Holds
      <4>4. status'[k] \in {"pending_provider", "ambiguous"} => phase'[k] = "reconcile"
        BY <1>1 DEF Inductive, SubmittedOnce
      <4> QED
        BY <2>1, <4>1, <4>2, <4>3, <4>4, SubmittedKept DEF Inductive
    <3> QED
      BY <3>1, <3>2
  <2> QED
    BY <2>2, <2>3
<1>9. ASSUME NEW k \in MoneyJobs PROVE MoneyPlaced(k)' /\ TransferTold(k)'
  <2>1. truth[k] \in {"settled", "refused", "returned"} => truth'[k] = truth[k]
    BY <1>4 DEF MoneyJobs
  <2> QED
    BY <1>1, <2>1, MoneyKept DEF Inductive
<1>10. UncertainHasCase'
  BY <1>1 DEF Inductive, UncertainHasCase
<1> QED
  BY <1>6, <1>7, <1>8, <1>9, <1>10 DEF Inductive
(* What the two money handlers ask for, by outcome: only a success is paid *)
(* out, only a failure with a safe funds_state is given back, and a        *)
(* transfer's handler always does one of them at the end or opens a case.  *)
LEMMA MoneyEffects ==
  ASSUME NEW j \in MoneyJobs, NEW r \in Results
  PROVE  LET effect == HandlerEffect(j, r) IN
         /\ effect.posting = "settle" => r.outcome = "succeeded"
         /\ effect.posting = "refund" =>
              r.outcome = "failed" /\ r.funds \in SAFE_REFUND_STATES
         /\ Capability[j] = "payments.transfer" =>
              /\ r.outcome = "succeeded" =>
                   /\ effect.posting = "settle"
                   /\ effect.state = "settled" /\ effect.flag = FALSE
              /\ r.outcome = "failed" =>
                   \/ /\ effect.posting = "refund"
                      /\ effect.state = "failed" /\ effect.flag = FALSE
                   \/ /\ effect.posting = "none"
                      /\ effect.state = "confirming" /\ effect.case = TRUE
              /\ r.outcome \in {"pending", "ambiguous", "retry"} =>
                   /\ effect.posting = "none"
                   /\ effect.state \in {"submitted", "confirming", resource[j]}
<1> DEFINE effect == HandlerEffect(j, r)
<1>1. CASE r.outcome = "retry"
  <2>1. effect = Effect(resource[j], review[j], FALSE, "none")
    BY <1>1 DEF HandlerEffect
  <2> QED
    BY <1>1, <2>1 DEF Effect
<1>2. CASE r.outcome # "retry" /\ Capability[j] = "payments.transfer"
  <2>1. effect = TransferEffect(j, r)
    BY <1>2 DEF HandlerEffect, Provisioned
  <2>2. CASE r.outcome = "succeeded"
    BY <2>1, <2>2 DEF TransferEffect, Effect
  <2>3. CASE r.outcome = "failed" /\ r.funds \in SAFE_REFUND_STATES
    BY <2>1, <2>3 DEF TransferEffect, Effect
  <2>4. CASE r.outcome = "failed" /\ r.funds \notin SAFE_REFUND_STATES
    BY <2>1, <2>4 DEF TransferEffect, FundsUnproven, Effect
  <2>5. CASE r.outcome \in {"pending", "ambiguous"}
    BY <2>1, <2>5 DEF TransferEffect, Effect
  <2> QED
    BY <1>2, <2>2, <2>3, <2>4, <2>5 DEF Results, Outcomes
<1>3. CASE r.outcome # "retry" /\ Capability[j] = "custody.transfer"
  <2>1. effect = CustodyEffect(j, r)
    BY <1>3 DEF HandlerEffect, Provisioned
  <2>2. /\ effect.posting = "settle" => r.outcome = "succeeded"
        /\ effect.posting = "refund" =>
             r.outcome = "failed" /\ r.funds \in SAFE_REFUND_STATES
    BY <2>1 DEF CustodyEffect, Effect
  <2> QED
    BY <1>3, <2>2
<1> QED
  BY <1>1, <1>2, <1>3 DEF MoneyJobs, Money

(* Finishing: the attempt in hand holds the lease, so its job's money is   *)
(* still reserved and moves at most once, as its answer supports.          *)
LEMMA FinishInductive ==
  ASSUME TypeOK, Inductive, Finish
  PROVE  Inductive'
<1> DEFINE j == worker.req.job
           r == worker.result
           effect == HandlerEffect(j, r)
<1>1. /\ worker.stage = "answered" /\ worker # Idle /\ worker' = Idle
      /\ j \in Jobs /\ r \in Results
  BY WorkerParts, RequestParts DEF Finish, TypeOK, Idle
<1>2. /\ status' = [status EXCEPT ![j] = StatusAfter(r)]
      /\ phase' = [phase EXCEPT ![j] = PhaseAfter(j, r)]
      /\ cases' = [cases EXCEPT ![j] = CaseAfter(j, r)]
      /\ resource' = [resource EXCEPT ![j] = effect.state]
      /\ review' = [review EXCEPT ![j] = effect.flag]
      /\ Post(j, effect.posting)
      /\ UNCHANGED <<net, truth, instructions>>
  BY DEF Finish, worldVars
<1>3. /\ status'[j] = StatusAfter(r) /\ phase'[j] = PhaseAfter(j, r)
      /\ cases'[j] = CaseAfter(j, r)
      /\ resource'[j] = effect.state /\ review'[j] = effect.flag
  BY <1>1, <1>2 DEF TypeOK
<1>4. \A k \in Jobs \ {j} :
        /\ status'[k] = status[k] /\ phase'[k] = phase[k] /\ cases'[k] = cases[k]
        /\ resource'[k] = resource[k] /\ review'[k] = review[k]
  BY <1>1, <1>2 DEF TypeOK
<1>5. status[j] = "in_flight"
  BY <1>1 DEF Inductive, WorkerHoldsLease
<1>6. WorkerHoldsLease' /\ AnswerSupported'
  BY <1>1 DEF WorkerHoldsLease, AnswerSupported, Idle
<1>7. ASSUME NEW k \in Jobs PROVE SubmittedOnce(k)'
  <2>1. Submissions(k)' = Submissions(k)
    BY <1>2 DEF Submissions
  <2>2. CASE k # j
    <3>1. Unexposed(k)' => Unexposed(k)
      BY <1>1, <1>4, <2>2 DEF Unexposed, Holds, Idle
    <3> QED
      BY <1>2, <1>4, <2>1, <2>2, <3>1, SubmittedKept DEF Inductive, SubmittedOnce
  <2>3. CASE k = j
    <3>1. Unexposed(k)' => Unexposed(k)
      BY <1>1, <1>3, <2>3
         DEF Unexposed, Holds, Idle, StatusAfter, PhaseAfter, Results, Outcomes
    <3>2. status'[k] \in {"pending_provider", "ambiguous"} => phase'[k] = "reconcile"
      BY <1>1, <1>3, <2>3 DEF StatusAfter, PhaseAfter, Results, Outcomes
    <3> QED
      BY <1>2, <2>1, <3>1, <3>2, SubmittedKept DEF Inductive
  <2> QED
    BY <2>2, <2>3
<1>8. ASSUME NEW k \in MoneyJobs PROVE MoneyPlaced(k)' /\ TransferTold(k)'
  <2>1. /\ k \in Jobs /\ Amount[k] \in Nat /\ Amount[k] > 0
        /\ held[k] \in Int /\ paid[k] \in Int
    BY ConstantsAssumption DEF MoneyJobs, TypeOK
  <2>2. CASE k # j
    <3>1. held'[k] = held[k] /\ paid'[k] = paid[k]
      <4>1. CASE effect.posting = "settle"
        BY <1>2, <2>2, <4>1 DEF Post, TypeOK
      <4>2. CASE effect.posting = "refund"
        BY <1>2, <2>2, <4>2 DEF Post, TypeOK
      <4>3. CASE effect.posting \notin {"settle", "refund"}
        BY <1>2, <4>3 DEF Post
      <4> QED
        BY <4>1, <4>2, <4>3
    <3> QED
      BY <1>2, <1>4, <2>1, <2>2, <3>1, MoneyKept DEF Inductive
  <2>3. CASE k = j
    <3>1. Reserved(k)
      BY <1>5, <2>3 DEF Inductive, MoneyPlaced
    <3>2. /\ effect.posting = "settle" => held'[k] = 0 /\ paid'[k] = Amount[k]
          /\ effect.posting = "refund" => held'[k] = 0 /\ paid'[k] = 0
          /\ effect.posting = "none" => held'[k] = Amount[k] /\ paid'[k] = 0
      <4>1. CASE effect.posting = "settle"
        BY <1>2, <2>1, <2>3, <3>1, <4>1 DEF Post, TypeOK, Reserved
      <4>2. CASE effect.posting = "refund"
        BY <1>2, <2>1, <2>3, <3>1, <4>2 DEF Post, TypeOK, Reserved
      <4>3. CASE effect.posting = "none"
        BY <1>2, <3>1, <4>3 DEF Post, Reserved
      <4> QED
        BY <4>1, <4>2, <4>3
    <3>3. /\ r.outcome = "succeeded" => truth'[k] = "settled"
          /\ r.outcome = "failed" /\ r.funds \in SAFE_REFUND_STATES =>
               truth'[k] \in {"refused", "returned"}
      BY <1>1, <1>2, <2>3 DEF Inductive, AnswerSupported, SAFE_REFUND_STATES
    <3>4. effect.posting \in {"none", "settle", "refund"}
      BY <1>1, EffectParts
    <3>5. r.outcome = "succeeded" /\ effect.posting # "settle" =>
            Capability[k] = "custody.transfer"
      BY <1>1, <2>3, MoneyEffects DEF MoneyJobs, Money
    <3>6. MoneyPlaced(k)'
      BY <1>1, <1>3, <2>1, <2>3, <3>2, <3>3, <3>4, <3>5, MoneyEffects
         DEF MoneyPlaced, PaidOut, GivenBack, Reserved, StatusAfter, Results, Outcomes
    <3>7. TransferTold(k)'
      <4> SUFFICES ASSUME Capability[k] = "payments.transfer" PROVE TransferTold(k)'
        BY DEF TransferTold
      <4>1. status'[k] # "none"
        BY <1>1, <1>3, <2>3 DEF StatusAfter, Results, Outcomes
      <4>2. resource[k] \in {"funds_received", "submitted", "confirming"}
        BY <3>1 DEF Inductive, TransferTold
      <4>3. CASE r.outcome = "succeeded"
        <5>1. effect.posting = "settle" /\ effect.state = "settled" /\ ~effect.flag
          BY <1>1, <2>3, <4>3, MoneyEffects
        <5> QED
          BY <1>3, <2>1, <2>3, <3>2, <4>1, <5>1
             DEF TransferTold, PaidOut, GivenBack, Reserved
      <4>4. CASE r.outcome = "failed"
        <5>1. CASE effect.posting = "refund"
          <6>1. effect.state = "failed" /\ ~effect.flag
            BY <1>1, <2>3, <4>4, <5>1, MoneyEffects
          <6> QED
            BY <1>3, <2>1, <2>3, <3>2, <4>1, <5>1, <6>1
               DEF TransferTold, PaidOut, GivenBack, Reserved
        <5>2. CASE effect.posting # "refund"
          <6>1. effect.posting = "none" /\ effect.state = "confirming" /\ effect.case
            BY <1>1, <2>3, <4>4, <5>2, MoneyEffects
          <6>2. cases'[k] = "open"
            BY <1>3, <2>3, <4>4, <6>1 DEF CaseAfter, Opens
          <6> QED
            BY <1>3, <2>1, <2>3, <3>2, <4>1, <6>1, <6>2
               DEF TransferTold, PaidOut, GivenBack, Reserved
        <5> QED
          BY <5>1, <5>2
      <4>5. CASE r.outcome \in {"pending", "ambiguous", "retry"}
        <5>1. /\ effect.posting = "none"
              /\ effect.state \in {"submitted", "confirming", resource[k]}
          BY <1>1, <2>3, <4>5, MoneyEffects
        <5>2. status'[k] # "failed"
          BY <1>3, <2>3, <4>5 DEF StatusAfter
        <5> QED
          BY <1>3, <2>1, <2>3, <3>2, <4>1, <4>2, <5>1, <5>2
             DEF TransferTold, PaidOut, GivenBack, Reserved
      <4> QED
        BY <1>1, <4>3, <4>4, <4>5 DEF Results, Outcomes
    <3> QED
      BY <3>6, <3>7
  <2> QED
    BY <2>2, <2>3
<1>9. UncertainHasCase'
  <2>1. status'[j] \in {"ambiguous", "manual_review"} => cases'[j] = "open"
    BY <1>1, <1>3 DEF StatusAfter, CaseAfter, Opens, OpensOnAmbiguity, Results, Outcomes
  <2> QED
    BY <1>4, <2>1 DEF Inductive, UncertainHasCase
<1> QED
  BY <1>6, <1>7, <1>8, <1>9 DEF Inductive

LEMMA NextInductive == TypeOK /\ Inductive /\ [Next]_vars => Inductive'
<1> SUFFICES ASSUME TypeOK, Inductive, [Next]_vars PROVE Inductive'
  OBVIOUS
<1> QED
  BY QueueInductive, ClaimInductive, OutsideInductive, SendInductive,
     TransportInductive, ConcludesInductive, HandlesInductive, FinishInductive
     DEF Next, JobStep, PumpStep

(* The attempt in hand holds its job's lease, an answer in hand is         *)
(* supported by what the provider did, and every reserved amount is where  *)
(* its job's status says (claim and finish, provider-outbox.js).           *)
THEOREM InductiveInvariant == Spec => [](TypeOK /\ Inductive)
BY InitTypeOK, NextTypeOK, InitInductive, NextInductive, PTL DEF Spec

-----------------------------------------------------------------------------
(* What follows from the inductive invariant. *)

(* A reserved amount is declared settled only if the provider settled it,  *)
(* is given back only if it refused or returned it, and is always in       *)
(* exactly one place (production-provider-outcomes.js).                    *)
THEOREM BooksAgree == Spec => []BooksMatchProvider
<1>1. TypeOK /\ Inductive => BooksMatchProvider
  <2> SUFFICES ASSUME Inductive, NEW j \in MoneyJobs
               PROVE  /\ <<held[j], paid[j]>> \in
                            {<<0, 0>>, <<Amount[j], 0>>, <<0, Amount[j]>>}
                      /\ paid[j] > 0 => truth[j] = "settled"
                      /\ Refunded(j) => truth[j] \in {"refused", "returned"}
    BY DEF BooksMatchProvider
  <2>1. Amount[j] \in Nat /\ Amount[j] > 0
    BY ConstantsAssumption
  <2>2. \/ status[j] = "none" /\ held[j] = 0 /\ paid[j] = 0
        \/ PaidOut(j) \/ GivenBack(j) \/ Reserved(j)
    BY DEF Inductive, MoneyPlaced
  <2> QED
    BY <2>1, <2>2 DEF PaidOut, GivenBack, Reserved, Refunded
<1> QED
  BY <1>1, InductiveInvariant, PTL

(* The provider is never made to act twice for one job, whatever requests  *)
(* are lost, late or repeated (claim, provider-outbox.js:261-279).         *)
THEOREM InstructedOnce == Spec => []AtMostOneInstruction
<1>1. TypeOK /\ Inductive => AtMostOneInstruction
  BY DEF Inductive, SubmittedOnce, AtMostOneInstruction
<1> QED
  BY <1>1, InductiveInvariant, PTL

(* An operation whose effect is unknown has an open reconciliation case    *)
(* (openCase, provider-outbox.js:109-149).                                 *)
THEOREM UncertaintyIsOpen == Spec => []UncertainHasCase
<1>1. TypeOK /\ Inductive => UncertainHasCase
  BY DEF Inductive
<1> QED
  BY <1>1, InductiveInvariant, PTL

(* The outbox never forgets reserved transfer money: a terminal transfer   *)
(* whose amount is still reserved has an open case (finish and the         *)
(* transfer handler, production-provider-outcomes.js:48-141).              *)
THEOREM TransfersAccountedFor == Spec => []TransferMoneyAccountedFor
<1>1. TypeOK /\ Inductive => TransferMoneyAccountedFor
  <2> SUFFICES ASSUME TypeOK, Inductive, NEW j \in MoneyJobs,
                      Capability[j] = "payments.transfer",
                      status[j] \in TERMINAL, held[j] > 0
               PROVE  cases[j] = "open"
    BY DEF TransferMoneyAccountedFor
  <2>1. j \in Jobs
    BY DEF MoneyJobs
  <2>2. status[j] # "succeeded"
    BY DEF Inductive, MoneyPlaced, PaidOut
  <2>3. status[j] = "failed" => Reserved(j)
    BY DEF Inductive, MoneyPlaced, GivenBack
  <2> QED
    BY <2>1, <2>2, <2>3 DEF Inductive, TransferTold, UncertainHasCase, TERMINAL
<1> QED
  BY <1>1, InductiveInvariant, PTL

(* A transfer says settled exactly when its money was paid out and failed  *)
(* exactly when it was refunded (setTransferStatus and the postings beside *)
(* it, production-provider-outcomes.js:48-141).                            *)
THEOREM TransferStatusTold == Spec => []TransferStatusMatchesBooks
<1>1. TypeOK /\ Inductive => TransferStatusMatchesBooks
  <2> SUFFICES ASSUME TypeOK, Inductive, NEW j \in MoneyJobs,
                      Capability[j] = "payments.transfer"
               PROVE  /\ resource[j] = "settled" <=> paid[j] > 0
                      /\ resource[j] = "failed" <=> Refunded(j)
                      /\ resource[j] \in {"settled", "failed"} => ~review[j]
    BY DEF TransferStatusMatchesBooks
  <2>1. Amount[j] \in Nat /\ Amount[j] > 0
    BY ConstantsAssumption
  <2>2. \/ status[j] = "none" /\ held[j] = 0 /\ paid[j] = 0
        \/ status[j] # "none" /\ (PaidOut(j) \/ GivenBack(j) \/ Reserved(j))
    BY <2>1 DEF Inductive, MoneyPlaced, PaidOut, GivenBack, Reserved
  <2>3. TransferTold(j)
    BY DEF Inductive
  <2> QED
    BY <2>1, <2>2, <2>3 DEF TransferTold, PaidOut, GivenBack, Reserved, Refunded
<1> QED
  BY <1>1, InductiveInvariant, PTL
-----------------------------------------------------------------------------
(* The refinement of MoneyMovement. *)

(* Only queued jobs have requests on their way. *)
RequestsQueued == \A m \in net : status[m.job] # "none"

LEMMA NextRequestsQueued ==
  TypeOK /\ Inductive /\ RequestsQueued /\ [Next]_vars => RequestsQueued'
<1> SUFFICES ASSUME TypeOK, Inductive, RequestsQueued, [Next]_vars
             PROVE  RequestsQueued'
  OBVIOUS
<1>1. ASSUME NEW k \in Jobs, status[k] # "none" PROVE status'[k] # "none"
  <2>1. ASSUME NEW j \in Jobs, JobStep(j) PROVE status'[k] # "none"
    BY <1>1, <2>1
       DEF JobStep, ReserveAndQueue, CreateAndQueue, QueueProviderOperation,
           Claim, ClaimExhausted, LeaseExpires, ProviderConcludes, jobVars, TypeOK
  <2>2. CASE Finish
    <3>1. worker.req.job \in Jobs /\ worker.result \in Results
      BY <2>2, WorkerParts, RequestParts DEF Finish, TypeOK, Idle
    <3> QED
      BY <1>1, <2>2, <3>1 DEF Finish, StatusAfter, TypeOK, Results, Outcomes
  <2>3. CASE UNCHANGED status
    BY <1>1, <2>3
  <2> QED
    BY <2>1, <2>2, <2>3
       DEF Next, PumpStep, Send, PayloadUnreadable, TransportAmbiguous, Abandon,
           ProviderHandles, TenantActivity, vars, jobVars
<1>2. \A m \in net' : m.job \in Jobs /\ status[m.job] # "none"
  <2>1. CASE Send
    <3>1. worker # Idle /\ worker.req.job \in Jobs /\ net' = net \cup {worker.req}
      BY <2>1, WorkerParts, RequestParts DEF Send, TypeOK, Idle
    <3>2. status[worker.req.job] = "in_flight"
      BY <3>1 DEF Inductive, WorkerHoldsLease
    <3> QED
      BY <3>1, <3>2, RequestParts DEF RequestsQueued, TypeOK
  <2>2. CASE net' \subseteq net
    BY <2>2, RequestParts DEF RequestsQueued, TypeOK
  <2> QED
    BY <2>1, <2>2
       DEF Next, JobStep, ReserveAndQueue, CreateAndQueue, QueueProviderOperation,
           Claim, ClaimExhausted, LeaseExpires, ProviderConcludes,
           PumpStep, PayloadUnreadable, TransportAmbiguous, Finish, Abandon,
           ProviderHandles, TenantActivity, vars, worldVars
<1> QED
  BY <1>1, <1>2 DEF RequestsQueued

(* The abstract state of a job whose row and truth do not change. *)
LEMMA SameMove ==
  ASSUME UNCHANGED <<held, paid>>, \A j \in MoneyJobs : truth'[j] = truth[j],
         \A j \in MoneyJobs : (status[j] = "none") <=> (status'[j] = "none")
  PROVE  UNCHANGED Abstract!moveVars
BY DEF Abstract!moveVars, BooksOf

(* The abstract state of a job by the place of its money. *)
LEMMA BooksByPlace ==
  ASSUME NEW j \in MoneyJobs
  PROVE  /\ status[j] = "none" => BooksOf(j) = "spendable"
         /\ status[j] # "none" /\ PaidOut(j) => BooksOf(j) = "settled"
         /\ status[j] # "none" /\ Reserved(j) => BooksOf(j) = "reserved"
         /\ status[j] # "none" /\ GivenBack(j) => BooksOf(j) = "refunded"
BY ConstantsAssumption DEF BooksOf, PaidOut, Reserved, GivenBack
(* Queueing a money job reserves its amount. *)
LEMMA QueueRefines ==
  ASSUME TypeOK, Inductive, NEW j \in Jobs, ReserveAndQueue(j) \/ CreateAndQueue(j)
  PROVE  [Abstract!MoveNext]_(Abstract!moveVars)
<1>1. /\ status[j] = "none" /\ status' = [status EXCEPT ![j] = "pending"]
      /\ UNCHANGED <<paid, truth>>
  BY DEF ReserveAndQueue, CreateAndQueue, QueueProviderOperation, worldVars
<1>2. CASE CreateAndQueue(j)
  <2>1. UNCHANGED held
    BY <1>2 DEF CreateAndQueue
  <2>2. \A k \in MoneyJobs : status'[k] = status[k]
    BY <1>1, <1>2 DEF CreateAndQueue, MoneyJobs, TypeOK
  <2> QED
    BY <1>1, <2>1, <2>2, SameMove
<1>3. CASE ReserveAndQueue(j)
  <2>1. j \in MoneyJobs /\ Amount[j] > 0 /\ held[j] = 0 /\ paid[j] = 0
    BY <1>1, <1>3, ConstantsAssumption DEF ReserveAndQueue, Inductive, MoneyPlaced
  <2>2. BooksOf(j) = "spendable" /\ BooksOf(j)' = "reserved"
    <3>1. Amount[j] \in Nat
      BY <2>1, ConstantsAssumption
    <3>2. held'[j] = Amount[j] /\ paid'[j] = 0 /\ status'[j] = "pending"
      BY <1>1, <1>3, <2>1, <3>1 DEF ReserveAndQueue, TypeOK
    <3> QED
      BY <1>1, <2>1, <3>1, <3>2 DEF BooksOf
  <2>3. \A k \in MoneyJobs \ {j} : BooksOf(k)' = BooksOf(k)
    BY <1>1, <1>3 DEF ReserveAndQueue, BooksOf, MoneyJobs, TypeOK
  <2>4. Abstract!Reserve(j)
    BY <1>1, <2>1, <2>2, <2>3 DEF Abstract!Reserve
  <2> QED
    BY <2>1, <2>4 DEF Abstract!MoveNext
<1> QED
  BY <1>2, <1>3

(* An outcome settles or refunds the reserved amount, or moves nothing.    *)
LEMMA FinishRefines ==
  ASSUME TypeOK, Inductive, Finish
  PROVE  [Abstract!MoveNext]_(Abstract!moveVars)
<1> DEFINE j == worker.req.job
           r == worker.result
           effect == HandlerEffect(j, r)
<1>1. /\ worker.stage = "answered" /\ worker # Idle
      /\ j \in Jobs /\ r \in Results
  BY WorkerParts, RequestParts DEF Finish, TypeOK, Idle
<1>2. /\ status[j] = "in_flight"
      /\ status' = [status EXCEPT ![j] = StatusAfter(r)]
      /\ StatusAfter(r) # "none"
      /\ Post(j, effect.posting) /\ UNCHANGED truth
  BY <1>1 DEF Finish, worldVars, Inductive, WorkerHoldsLease, StatusAfter,
              Results, Outcomes
<1>3. \A k \in MoneyJobs : (status[k] = "none") <=> (status'[k] = "none")
  BY <1>1, <1>2 DEF MoneyJobs, TypeOK
<1>4. CASE effect.posting = "none"
  BY <1>2, <1>3, <1>4, SameMove DEF Post
<1>5. CASE effect.posting # "none"
  <2>1. PICK m \in MoneyJobs : m = j
    BY <1>1, <1>5, OnlyMoneyPosts
  <2>0. UNCHANGED truth
    BY <1>2
  <2>2. /\ Amount[m] \in Nat /\ Amount[m] > 0
        /\ Reserved(m) /\ BooksOf(m) = "reserved"
    BY <1>2, <2>1, ConstantsAssumption, BooksByPlace DEF Inductive, MoneyPlaced
  <2>3. effect.posting \in {"settle", "refund"}
    BY <1>1, <1>5, EffectParts
  <2>4. \A k \in MoneyJobs \ {m} : BooksOf(k)' = BooksOf(k)
    BY <1>1, <1>2, <1>3, <2>1, <2>3 DEF Post, BooksOf, TypeOK
  <2>5. CASE effect.posting = "settle"
    <3>1. truth[m] = "settled"
      BY <1>1, <2>1, <2>5, MoneyEffects DEF Inductive, AnswerSupported
    <3>2. paid'[m] = Amount[m]
      BY <1>2, <2>1, <2>2, <2>5 DEF Post, Reserved, TypeOK
    <3>3. BooksOf(m)' = "settled"
      BY <1>2, <1>3, <2>1, <2>2, <3>2 DEF BooksOf
    <3>4. Abstract!Settle(m)
      BY <2>0, <2>1, <2>2, <2>4, <3>1, <3>3 DEF Abstract!Settle
    <3> QED
      BY <2>1, <3>4 DEF Abstract!MoveNext
  <2>6. CASE effect.posting = "refund"
    <3>1. truth[m] \in {"refused", "returned"}
      BY <1>1, <2>1, <2>6, MoneyEffects
         DEF Inductive, AnswerSupported, SAFE_REFUND_STATES
    <3>2. held'[m] = 0 /\ paid'[m] = 0
      BY <1>2, <2>1, <2>2, <2>6 DEF Post, Reserved, TypeOK
    <3>3. BooksOf(m)' = "refunded"
      BY <1>2, <1>3, <2>1, <2>2, <3>2 DEF BooksOf
    <3>4. Abstract!Refund(m)
      BY <2>0, <2>1, <2>2, <2>4, <3>1, <3>3 DEF Abstract!Refund
    <3> QED
      BY <2>1, <3>4 DEF Abstract!MoveNext
  <2> QED
    BY <2>3, <2>5, <2>6
<1> QED
  BY <1>4, <1>5

(* The provider is instructed only about a reserved amount.                *)
LEMMA HandlesRefines ==
  ASSUME TypeOK, Inductive, RequestsQueued, NEW m \in net, ProviderHandles(m)
  PROVE  [Abstract!MoveNext]_(Abstract!moveVars)
<1> DEFINE j == m.job
<1>1. /\ j \in Jobs /\ status[j] # "none"
      /\ UNCHANGED <<status, held, paid>>
  BY RequestParts DEF ProviderHandles, jobVars, bookVars, RequestsQueued, TypeOK
<1>2. \/ UNCHANGED truth
      \/ /\ truth[j] = "unseen"
         /\ \E o \in {"submitted", "refused"} : truth' = [truth EXCEPT ![j] = o]
  <2>1. m.phase = "submit" => truth[j] \in {"unseen", "refused"}
    BY <1>1 DEF Inductive, SubmittedOnce, Submissions
  <2>2. ProviderActs(m) \/ ProviderRefuses(m) \/ UNCHANGED <<truth, instructions>>
    BY DEF ProviderHandles
  <2> QED
    BY <2>1, <2>2 DEF ProviderActs, ProviderRefuses
<1>3. CASE j \notin MoneyJobs \/ UNCHANGED truth
  <2>1. \A k \in MoneyJobs : truth'[k] = truth[k]
    BY <1>2, <1>3 DEF MoneyJobs, TypeOK
  <2> QED
    BY <1>1, <2>1, SameMove
<1>4. CASE j \in MoneyJobs /\ ~UNCHANGED truth
  <2>1. PICK o \in {"submitted", "refused"} :
          truth[j] = "unseen" /\ truth' = [truth EXCEPT ![j] = o]
    BY <1>2, <1>4
  <2>2. Reserved(j)
    BY <1>1, <1>4, <2>1 DEF Inductive, MoneyPlaced, PaidOut, GivenBack
  <2>3. BooksOf(j) = "reserved"
    BY <1>1, <1>4, <2>2, BooksByPlace
  <2>4. \A k \in MoneyJobs : BooksOf(k)' = BooksOf(k)
    BY <1>1 DEF BooksOf
  <2>5. \A k \in MoneyJobs : truth'[k] = IF k = j THEN o ELSE truth[k]
    BY <2>1 DEF MoneyJobs, TypeOK
  <2>6. Abstract!Instruct(j)
    BY <1>4, <2>1, <2>3, <2>4, <2>5 DEF Abstract!Instruct
  <2> QED
    BY <1>4, <2>6 DEF Abstract!MoveNext
<1> QED
  BY <1>3, <1>4

LEMMA ConcludesRefines ==
  ASSUME TypeOK, NEW j \in Jobs, ProviderConcludes(j)
  PROVE  [Abstract!MoveNext]_(Abstract!moveVars)
<1>1. UNCHANGED <<status, held, paid>>
  BY DEF ProviderConcludes, jobVars, bookVars
<1>2. PICK o \in {"settled", "returned"} :
        truth[j] = "submitted" /\ truth' = [truth EXCEPT ![j] = o]
  BY DEF ProviderConcludes
<1>3. \A k \in MoneyJobs : truth'[k] = IF k = j THEN o ELSE truth[k]
  BY <1>2 DEF MoneyJobs, TypeOK
<1>4. CASE j \notin MoneyJobs
  BY <1>1, <1>3, <1>4, SameMove
<1>5. CASE j \in MoneyJobs
  <2>1. \A k \in MoneyJobs : BooksOf(k)' = BooksOf(k)
    BY <1>1 DEF BooksOf
  <2>2. Abstract!Conclude(j)
    BY <1>2, <1>3, <1>5, <2>1 DEF Abstract!Conclude
  <2> QED
    BY <1>5, <2>2 DEF Abstract!MoveNext
<1> QED
  BY <1>4, <1>5

LEMMA NextRefines ==
  TypeOK /\ Inductive /\ RequestsQueued /\ [Next]_vars
    => [Abstract!MoveNext]_(Abstract!moveVars)
<1> SUFFICES ASSUME TypeOK, Inductive, RequestsQueued, [Next]_vars
             PROVE  [Abstract!MoveNext]_(Abstract!moveVars)
  OBVIOUS
<1>1. ASSUME NEW j \in Jobs, Claim(j) \/ ClaimExhausted(j)
      PROVE  [Abstract!MoveNext]_(Abstract!moveVars)
  <2>1. UNCHANGED <<held, paid, truth>>
    BY <1>1 DEF Claim, ClaimExhausted, worldVars
  <2>2. \A k \in MoneyJobs : (status[k] = "none") <=> (status'[k] = "none")
    BY <1>1 DEF Claim, ClaimExhausted, Due, MoneyJobs, TypeOK
  <2> QED
    BY <2>1, <2>2, SameMove
<1>2. CASE UNCHANGED <<status, held, paid, truth>>
  BY <1>2, SameMove
<1>3. ASSUME NEW j \in Jobs, LeaseExpires(j)
      PROVE  UNCHANGED <<status, held, paid, truth>>
  BY <1>3 DEF LeaseExpires, bookVars, worldVars
<1>4. ASSUME TenantActivity \/ Send \/ PayloadUnreadable \/ TransportAmbiguous
             \/ Abandon \/ UNCHANGED vars
      PROVE  UNCHANGED <<status, held, paid, truth>>
  BY <1>4 DEF TenantActivity, Send, PayloadUnreadable, TransportAmbiguous,
              Abandon, vars, jobVars, bookVars, worldVars
<1> QED
  BY <1>1, <1>2, <1>3, <1>4, QueueRefines, FinishRefines, HandlesRefines,
     ConcludesRefines DEF Next, JobStep, PumpStep

(* The provider outbox implements the abstract money movement: a reserved  *)
(* amount is settled only after the provider settled it, given back only   *)
(* after the provider refused or returned it, and resolved at most once.   *)
THEOREM Refinement == Spec => ImplementsMoneyMovement
<1>1. Init => Abstract!MoveInit /\ RequestsQueued
  BY DEF Init, Abstract!MoveInit, BooksOf, RequestsQueued, MoneyJobs
<1> QED
  BY <1>1, InitTypeOK, NextTypeOK, InitInductive, NextInductive,
     NextRequestsQueued, NextRefines, PTL
     DEF Spec, ImplementsMoneyMovement, Abstract!MoveSpec
-----------------------------------------------------------------------------
(* Nothing from nothing *)

(* What is reserved from an account or was paid out of it, job by job. *)
Taken == [j \in MoneyJobs |-> held[j] + paid[j]]

Whole(a) ==
  /\ balance[a] >= 0
  /\ balance[a] + SumFunctionOnSet(Taken, From(a)) = Opening[a]

(* The provider hears only of what was queued, and what is active or       *)
(* decided it made.                                                        *)
UnseenUnlessQueued == \A j \in Jobs : status[j] = "none" => truth[j] = "unseen"

MoneyIsWhole ==
  /\ \A a \in Accounts : Whole(a)
  /\ UnseenUnlessQueued
  /\ ProvisionedOnlyByProvider

LEMMA FromIsFinite ==
  ASSUME NEW a PROVE From(a) \in SUBSET MoneyJobs /\ IsFiniteSet(From(a))
<1>1. From(a) \in SUBSET Jobs
  BY DEF From, MoneyJobs
<1> QED BY <1>1, ConstantsAssumption, FS_Subset DEF From

(* A step that moves n from an account to a job of its own, or from a job  *)
(* back to its account, keeps the account whole.                           *)
LEMMA MovedIsWhole ==
  ASSUME TypeOK, NEW j \in MoneyJobs, NEW n \in Int,
         \A a \in Accounts : Whole(a),
         balance' = [balance EXCEPT ![Source[j]] = @ - n],
         balance[Source[j]] - n >= 0,
         Taken'[j] = Taken[j] + n,
         \A k \in MoneyJobs \ {j} : Taken'[k] = Taken[k]
  PROVE  \A a \in Accounts : Whole(a)'
<1> SUFFICES ASSUME NEW a \in Accounts PROVE Whole(a)'
  OBVIOUS
<1>1. PICK S : S = From(a)
  OBVIOUS
<1>2. IsFiniteSet(S) /\ S \in SUBSET MoneyJobs /\ (j \in S <=> Source[j] = a)
  BY <1>1, FromIsFinite DEF From
<1>3. PICK f, g : f = Taken /\ g = Taken'
  OBVIOUS
<1>4. \A k \in S : f[k] \in Int
  BY <1>2, <1>3 DEF Taken, TypeOK
<1>5. \A k \in S : k # j => g[k] = f[k]
  BY <1>2, <1>3
<1>6. SumFunctionOnSet(f, S) \in Int
  BY <1>2, <1>4, SumIsInteger
<1>7. balance[a] \in Int /\ Opening[a] \in Nat
  BY ConstantsAssumption DEF TypeOK
<1>8. balance[a] >= 0 /\ balance[a] + SumFunctionOnSet(f, S) = Opening[a]
  BY <1>1, <1>3 DEF Whole
<1>9. balance'[a] >= 0 /\ balance'[a] + SumFunctionOnSet(g, S) = Opening[a]
  <2>1. CASE Source[j] = a
    <3>1. j \in S /\ g[j] = f[j] + n /\ f[j] \in Int /\ g[j] \in Int
      BY <1>2, <1>3, <1>4, <2>1
    <3>2. SumFunctionOnSet(g, S) = SumFunctionOnSet(f, S) + g[j] - f[j]
      BY <1>2, <1>4, <1>5, <3>1, SumChange
    <3>3. balance'[a] = balance[a] - n
      BY <2>1 DEF TypeOK
    <3> QED BY <1>6, <1>7, <1>8, <2>1, <3>1, <3>2, <3>3
  <2>2. CASE Source[j] # a
    <3>1. \A k \in S : f[k] = g[k]
      BY <1>2, <1>5, <2>2
    <3>2. SumFunctionOnSet(f, S) = SumFunctionOnSet(g, S)
      BY <1>2, <3>1, SumSame
    <3>3. balance'[a] = balance[a]
      BY <2>2 DEF TypeOK
    <3> QED BY <1>8, <3>2, <3>3
  <2> QED BY <2>1, <2>2
<1>10. From(a)' = From(a)
  BY DEF From, MoneyJobs
<1> QED BY <1>1, <1>3, <1>9, <1>10 DEF Whole

LEMMA SameIsWhole ==
  ASSUME \A a \in Accounts : Whole(a), UNCHANGED balance,
         \A k \in MoneyJobs : Taken'[k] = Taken[k]
  PROVE  \A a \in Accounts : Whole(a)'
<1> SUFFICES ASSUME NEW a \in Accounts PROVE Whole(a)'
  OBVIOUS
<1>1. PICK S : S = From(a)
  OBVIOUS
<1>2. PICK f, g : f = Taken /\ g = Taken'
  OBVIOUS
<1>3. IsFiniteSet(S) /\ \A k \in S : f[k] = g[k]
  BY <1>1, <1>2, FromIsFinite
<1>4. SumFunctionOnSet(f, S) = SumFunctionOnSet(g, S)
  BY <1>3, SumSame
<1>5. From(a)' = From(a)
  BY DEF From, MoneyJobs
<1> QED BY <1>1, <1>2, <1>4, <1>5 DEF Whole

LEMMA InitIsWhole == Init => MoneyIsWhole
<1> SUFFICES ASSUME Init PROVE MoneyIsWhole
  OBVIOUS
<1>1. ASSUME NEW a \in Accounts PROVE Whole(a)
  <2>1. PICK S, f : S = From(a) /\ f = Taken
    OBVIOUS
  <2>2. IsFiniteSet(S) /\ \A k \in S : f[k] = 0
    BY <2>1, FromIsFinite DEF Taken, Init
  <2>3. SumFunctionOnSet(f, S) = 0
    BY <2>2, SumZero
  <2>4. balance[a] = Opening[a] /\ Opening[a] \in Nat
    BY ConstantsAssumption DEF Init
  <2> QED BY <2>1, <2>3, <2>4 DEF Whole
<1> QED BY <1>1 DEF MoneyIsWhole, UnseenUnlessQueued, ProvisionedOnlyByProvider, Init

(* The command that queues a money job takes its amount from the balance   *)
(* that covers it.                                                         *)
LEMMA ReserveIsWhole ==
  ASSUME TypeOK, Inductive, MoneyIsWhole, NEW j \in Jobs, ReserveAndQueue(j)
  PROVE  MoneyIsWhole'
<1>0. j \in MoneyJobs
  BY DEF ReserveAndQueue
<1>1. /\ Source[j] \in Accounts /\ Amount[j] \in Nat
      /\ held[j] \in Int /\ paid[j] \in Int
  BY <1>0, ConstantsAssumption DEF TypeOK
<1>2. /\ balance' = [balance EXCEPT ![Source[j]] = @ - Amount[j]]
      /\ held' = [held EXCEPT ![j] = @ + Amount[j]]
      /\ UNCHANGED <<paid, truth>>
      /\ status' = [status EXCEPT ![j] = "pending"]
      /\ resource' = [resource EXCEPT ![j] = "funds_received"]
  BY DEF ReserveAndQueue, QueueProviderOperation, worldVars
<1>3. balance[Source[j]] - Amount[j] >= 0
  BY <1>0, <1>1 DEF ReserveAndQueue, Covers, TypeOK
<1>4. held'[j] = held[j] + Amount[j] /\ paid'[j] = paid[j]
  BY <1>0, <1>2 DEF TypeOK
<1>7. Taken'[j] = Taken[j] + Amount[j]
  BY <1>0, <1>1, <1>4 DEF Taken
<1>8. \A k \in MoneyJobs \ {j} : Taken'[k] = Taken[k]
  BY <1>2 DEF Taken, TypeOK
<1>9. PICK n \in Int : n = Amount[j]
  BY <1>1
<1>10. balance' = [balance EXCEPT ![Source[j]] = @ - n]
  BY <1>2, <1>9
<1>11. balance[Source[j]] - n >= 0 /\ Taken'[j] = Taken[j] + n
  BY <1>3, <1>7, <1>9
<1>12. \A a \in Accounts : Whole(a)
  BY DEF MoneyIsWhole
<1>5. \A a \in Accounts : Whole(a)'
  BY <1>0, <1>8, <1>10, <1>11, <1>12, MovedIsWhole
<1>6. UnseenUnlessQueued' /\ ProvisionedOnlyByProvider'
  BY <1>2 DEF MoneyIsWhole, UnseenUnlessQueued, ProvisionedOnlyByProvider, TypeOK
<1> QED BY <1>5, <1>6 DEF MoneyIsWhole

(* Nothing becomes active or decided but by an answer of success, which    *)
(* the provider's deed supports.                                           *)
LEMMA ActiveByHandler ==
  ASSUME TypeOK, NEW j \in Jobs, NEW r \in Results,
         HandlerEffect(j, r).state \in {"active", "completed"}
  PROVE  r.outcome = "succeeded" \/ resource[j] \in {"active", "completed"}
BY DEF HandlerEffect, TransferEffect, CustodyEffect, ProvisioningEffect,
       IdentityEffect, FundsUnproven, Effect, Results, Outcomes

LEMMA FinishIsWhole ==
  ASSUME TypeOK, Inductive, MoneyIsWhole, Finish
  PROVE  MoneyIsWhole'
<1> DEFINE effect == HandlerEffect(worker.req.job, worker.result)
<1>1. PICK j \in Jobs : j = worker.req.job
  BY WorkerParts, RequestParts DEF Finish, TypeOK, Idle
<1>2. PICK r \in Results : r = worker.result
  BY WorkerParts DEF Finish, TypeOK, Idle
<1>3. /\ worker # Idle /\ worker.stage = "answered"
      /\ UNCHANGED truth
      /\ status' = [status EXCEPT ![j] = StatusAfter(r)]
      /\ resource' = [resource EXCEPT ![j] = HandlerEffect(j, r).state]
      /\ Post(j, HandlerEffect(j, r).posting)
  BY <1>1, <1>2 DEF Finish, worldVars, Idle
<1>4. UnseenUnlessQueued'
  BY <1>3 DEF MoneyIsWhole, UnseenUnlessQueued, StatusAfter, TypeOK, Results, Outcomes
<1>5. ProvisionedOnlyByProvider'
  <2>1. r.outcome = "succeeded" => truth[j] = "settled"
    BY <1>1, <1>2, <1>3 DEF Inductive, AnswerSupported
  <2>2. HandlerEffect(j, r).state \in {"active", "completed"} => truth[j] = "settled"
    BY <2>1, ActiveByHandler DEF MoneyIsWhole, ProvisionedOnlyByProvider
  <2> QED BY <1>3, <2>2 DEF MoneyIsWhole, ProvisionedOnlyByProvider, TypeOK
<1>6. \A a \in Accounts : Whole(a)'
  <2>1. HandlerEffect(j, r).posting \in {"none", "settle", "refund"}
    BY EffectParts
  <2>2. CASE HandlerEffect(j, r).posting = "none"
    <3>1. UNCHANGED <<held, paid, balance>>
      BY <1>3, <2>2 DEF Post
    <3>2. \A k \in MoneyJobs : Taken'[k] = Taken[k]
      BY <3>1 DEF Taken
    <3> QED BY <3>1, <3>2, SameIsWhole DEF MoneyIsWhole
  <2>3. CASE HandlerEffect(j, r).posting # "none"
    <3>1. /\ j \in MoneyJobs /\ Source[j] \in Accounts /\ Amount[j] \in Nat
          /\ held[j] \in Int /\ paid[j] \in Int
      BY <2>3, OnlyMoneyPosts, ConstantsAssumption DEF TypeOK
    <3>2. CASE HandlerEffect(j, r).posting = "settle"
      <4>1. /\ held' = [held EXCEPT ![j] = @ - Amount[j]]
            /\ paid' = [paid EXCEPT ![j] = @ + Amount[j]]
            /\ UNCHANGED balance
        BY <1>3, <3>2 DEF Post
      <4>2. held'[j] = held[j] - Amount[j] /\ paid'[j] = paid[j] + Amount[j]
        BY <3>1, <4>1 DEF TypeOK
      <4>3. \A k \in MoneyJobs \ {j} : held'[k] = held[k] /\ paid'[k] = paid[k]
        BY <4>1 DEF TypeOK
      <4>4. held'[j] + paid'[j] = held[j] + paid[j]
        BY <3>1, <4>2
      <4>5. \A k \in MoneyJobs : Taken'[k] = Taken[k]
        BY <4>3, <4>4 DEF Taken
      <4> QED BY <4>1, <4>5, SameIsWhole DEF MoneyIsWhole
    <3>3. CASE HandlerEffect(j, r).posting = "refund"
      <4>1. /\ held' = [held EXCEPT ![j] = @ - Amount[j]]
            /\ balance' = [balance EXCEPT ![Source[j]] = @ + Amount[j]]
            /\ UNCHANGED paid
        BY <1>3, <3>3 DEF Post
      <4>2. PICK n : n = 0 - Amount[j]
        OBVIOUS
      <4>3. n \in Int /\ balance[Source[j]] \in Int /\ balance[Source[j]] >= 0
        BY <3>1, <4>2 DEF TypeOK, MoneyIsWhole, Whole
      <4>4. balance[Source[j]] + Amount[j] = balance[Source[j]] - n
        BY <3>1, <4>2, <4>3
      <4>5. balance' = [balance EXCEPT ![Source[j]] = @ - n]
        BY <4>1, <4>4
      <4>6. balance[Source[j]] - n >= 0
        BY <3>1, <4>2, <4>3
      <4>7. held'[j] = held[j] - Amount[j] /\ paid'[j] = paid[j]
        BY <3>1, <4>1 DEF TypeOK
      <4>8. Taken'[j] = Taken[j] + n
        BY <3>1, <4>2, <4>7 DEF Taken
      <4>9. \A k \in MoneyJobs \ {j} : Taken'[k] = Taken[k]
        BY <4>1 DEF Taken, TypeOK
      <4> QED BY <3>1, <4>3, <4>5, <4>6, <4>8, <4>9, MovedIsWhole DEF MoneyIsWhole
    <3> QED BY <2>1, <2>3, <3>2, <3>3
  <2> QED BY <2>2, <2>3
<1> QED BY <1>4, <1>5, <1>6 DEF MoneyIsWhole

(* The provider's steps leave the books alone and take nothing back that   *)
(* was settled.                                                            *)
LEMMA ProviderIsWhole ==
  ASSUME TypeOK, Inductive, RequestsQueued, MoneyIsWhole,
         \/ \E m \in net : ProviderHandles(m)
         \/ \E j \in Jobs : ProviderConcludes(j)
  PROVE  MoneyIsWhole'
<1>1. UNCHANGED <<status, resource, held, paid, balance>>
  BY DEF ProviderHandles, ProviderConcludes, jobVars, bookVars
<1>2. \A k \in MoneyJobs : Taken'[k] = Taken[k]
  BY <1>1 DEF Taken
<1>3. \A k \in Jobs : /\ truth[k] = "settled" => truth'[k] = "settled"
                      /\ status[k] = "none" => truth'[k] = truth[k]
  <2>1. ASSUME NEW m \in net, ProviderHandles(m)
        PROVE  \A k \in Jobs : /\ truth[k] = "settled" => truth'[k] = "settled"
                               /\ status[k] = "none" => truth'[k] = truth[k]
    <3>1. m.job \in Jobs /\ status[m.job] # "none"
      BY RequestParts DEF RequestsQueued, TypeOK
    <3>2. m.phase = "submit" => truth[m.job] \in {"unseen", "refused"}
      BY <3>1 DEF Inductive, SubmittedOnce, Submissions
    <3>3. ProviderActs(m) \/ ProviderRefuses(m) \/ UNCHANGED <<truth, instructions>>
      BY <2>1 DEF ProviderHandles
    <3> QED BY <3>1, <3>2, <3>3 DEF ProviderActs, ProviderRefuses, TypeOK
  <2>2. ASSUME NEW j \in Jobs, ProviderConcludes(j)
        PROVE  \A k \in Jobs : /\ truth[k] = "settled" => truth'[k] = "settled"
                               /\ status[k] = "none" => truth'[k] = truth[k]
    BY <2>2 DEF ProviderConcludes, MoneyIsWhole, UnseenUnlessQueued, TypeOK
  <2> QED BY <2>1, <2>2
<1>4. \A a \in Accounts : Whole(a)'
  BY <1>1, <1>2, SameIsWhole DEF MoneyIsWhole
<1> QED BY <1>1, <1>3, <1>4
        DEF MoneyIsWhole, UnseenUnlessQueued, ProvisionedOnlyByProvider

LEMMA NextIsWhole ==
  TypeOK /\ Inductive /\ RequestsQueued /\ MoneyIsWhole /\ [Next]_vars => MoneyIsWhole'
<1> SUFFICES ASSUME TypeOK, Inductive, RequestsQueued, MoneyIsWhole, [Next]_vars
             PROVE  MoneyIsWhole'
  OBVIOUS
<1>1. ASSUME UNCHANGED <<held, paid, balance, truth>>,
             \A k \in Jobs : status'[k] = "none" => status[k] = "none",
             \A k \in Jobs : resource'[k] \in {"active", "completed"} =>
                             resource[k] \in {"active", "completed"}
      PROVE  MoneyIsWhole'
  <2>1. \A k \in MoneyJobs : Taken'[k] = Taken[k]
    BY <1>1 DEF Taken
  <2>2. \A a \in Accounts : Whole(a)'
    BY <1>1, <2>1, SameIsWhole DEF MoneyIsWhole
  <2> QED BY <1>1, <2>2 DEF MoneyIsWhole, UnseenUnlessQueued, ProvisionedOnlyByProvider
<1>2. ASSUME NEW j \in Jobs, CreateAndQueue(j) PROVE MoneyIsWhole'
  <2>1. UNCHANGED <<held, paid, balance, truth>>
    BY <1>2 DEF CreateAndQueue, QueueProviderOperation, worldVars
  <2>2. \A k \in Jobs : status'[k] = "none" => status[k] = "none"
    BY <1>2 DEF CreateAndQueue, QueueProviderOperation, TypeOK
  <2>3. \A k \in Jobs : resource'[k] \in {"active", "completed"} =>
                        resource[k] \in {"active", "completed"}
    BY <1>2 DEF CreateAndQueue, TypeOK
  <2> QED BY <1>1, <2>1, <2>2, <2>3
<1>3. ASSUME NEW j \in Jobs, Claim(j) \/ ClaimExhausted(j) \/ LeaseExpires(j)
      PROVE  MoneyIsWhole'
  <2>1. UNCHANGED <<held, paid, balance, truth, resource>>
    BY <1>3 DEF Claim, ClaimExhausted, LeaseExpires, worldVars, bookVars
  <2>2. \A k \in Jobs : status'[k] = "none" => status[k] = "none"
    BY <1>3 DEF Claim, ClaimExhausted, LeaseExpires, TypeOK
  <2> QED BY <1>1, <2>1, <2>2
<1>4. ASSUME TenantActivity \/ Send \/ PayloadUnreadable \/ TransportAmbiguous
             \/ Abandon \/ UNCHANGED vars
      PROVE  MoneyIsWhole'
  <2>1. UNCHANGED <<held, paid, balance, truth, resource, status>>
    BY <1>4 DEF TenantActivity, Send, PayloadUnreadable, TransportAmbiguous,
                Abandon, vars, jobVars, bookVars, worldVars
  <2> QED BY <1>1, <2>1
<1> QED
  BY <1>2, <1>3, <1>4, ReserveIsWhole, FinishIsWhole, ProviderIsWhole
     DEF Next, JobStep, PumpStep

(* What the provider holds or moved was taken from the account before.     *)
LEMMA WholeCoversProvider ==
  ASSUME TypeOK, Inductive, MoneyIsWhole, NEW a \in Accounts
  PROVE  balance[a] + SumFunctionOnSet(Amount, WithProvider(a)) <= Opening[a]
<1>1. PICK S, P : S = From(a) /\ P = WithProvider(a)
  OBVIOUS
<1>2. P \in SUBSET S /\ IsFiniteSet(S) /\ S \in SUBSET MoneyJobs
  BY <1>1, FromIsFinite DEF WithProvider
<1>3. PICK f, h : f = Taken /\ h = [j \in S |-> IF j \in P THEN Amount[j] ELSE 0]
  OBVIOUS
<1>4. ASSUME NEW j \in S
      PROVE  Amount[j] \in Nat /\ f[j] \in Int /\ h[j] \in Int /\ h[j] <= f[j]
  <2>1. j \in MoneyJobs /\ j \in Jobs /\ Amount[j] \in Nat /\ f[j] = held[j] + paid[j]
    BY <1>2, <1>3, ConstantsAssumption DEF MoneyJobs, Taken
  <2>2. \/ status[j] = "none" /\ held[j] = 0 /\ paid[j] = 0
        \/ PaidOut(j) \/ GivenBack(j) \/ Reserved(j)
    BY <2>1 DEF Inductive, MoneyPlaced
  <2>6. status[j] = "none" => truth[j] = "unseen"
    BY <2>1 DEF MoneyIsWhole, UnseenUnlessQueued
  <2>7. \/ held[j] = 0 /\ paid[j] = 0 /\ truth[j] \notin {"submitted", "settled"}
        \/ held[j] = Amount[j] /\ paid[j] = 0
        \/ held[j] = 0 /\ paid[j] = Amount[j]
    BY <2>2, <2>6 DEF PaidOut, GivenBack, Reserved
  <2>3. f[j] = Amount[j] \/ (f[j] = 0 /\ truth[j] \notin {"submitted", "settled"})
    <3>1. CASE held[j] = 0 /\ paid[j] = 0 /\ truth[j] \notin {"submitted", "settled"}
      <4>1. f[j] = 0
        BY <2>1, <3>1
      <4> QED BY <3>1, <4>1
    <3>2. CASE held[j] = Amount[j] /\ paid[j] = 0
      <4>1. f[j] = Amount[j]
        BY <2>1, <3>2
      <4> QED BY <4>1
    <3>3. CASE held[j] = 0 /\ paid[j] = Amount[j]
      <4>1. f[j] = Amount[j]
        BY <2>1, <3>3
      <4> QED BY <4>1
    <3> QED BY <2>7, <3>1, <3>2, <3>3
  <2>4. j \in P => truth[j] \in {"submitted", "settled"}
    BY <1>1 DEF WithProvider
  <2>5. h[j] = IF j \in P THEN Amount[j] ELSE 0
    BY <1>3
  <2> QED BY <2>1, <2>3, <2>4, <2>5
<1>5. SumFunctionOnSet(Amount, P) = SumFunctionOnSet(h, S)
  <2>1. \A j \in S : Amount[j] \in Int
    BY <1>4
  <2>2. \A j \in S : h[j] = IF j \in P THEN Amount[j] ELSE 0
    BY <1>3
  <2> QED BY <1>2, <2>1, <2>2, SumWhere
<1>6. SumFunctionOnSet(h, S) <= SumFunctionOnSet(f, S)
  BY <1>2, <1>4, SumMonotonic
<1>7. SumFunctionOnSet(h, S) \in Int /\ SumFunctionOnSet(f, S) \in Int
  BY <1>2, <1>4, SumIsInteger
<1>8. balance[a] + SumFunctionOnSet(f, S) = Opening[a]
  BY <1>1, <1>3 DEF MoneyIsWhole, Whole
<1>9. balance[a] \in Int /\ Opening[a] \in Nat
  BY ConstantsAssumption DEF TypeOK
<1> QED BY <1>1, <1>5, <1>6, <1>7, <1>8, <1>9

(* Money is neither created nor lost between accounts, reservations and    *)
(* payouts, what the provider holds or moved was taken from its account,   *)
(* and what is active or decided the provider made.                        *)
THEOREM NothingIsCreated == Spec => []NothingFromNothing
<1>1. Init => RequestsQueued
  BY DEF Init, RequestsQueued
<1>2. TypeOK /\ Inductive /\ MoneyIsWhole => NothingFromNothing
  <2> SUFFICES ASSUME TypeOK, Inductive, MoneyIsWhole PROVE NothingFromNothing
    OBVIOUS
  <2>1. ASSUME NEW a \in Accounts
        PROVE  /\ balance[a] >= 0
               /\ balance[a] + SumFunctionOnSet(Taken, From(a)) = Opening[a]
    BY DEF MoneyIsWhole, Whole
  <2> QED BY <2>1, WholeCoversProvider
          DEF NothingFromNothing, NoCreatedMoney, Taken, MoneyIsWhole
<1> QED
  BY <1>1, <1>2, InitTypeOK, NextTypeOK, InitInductive, NextInductive,
     NextRequestsQueued, InitIsWhole, NextIsWhole, PTL DEF Spec
-----------------------------------------------------------------------------
(* Webhook deliveries *)

(* The two rows of a delivery agree; a row that is not there is of no      *)
(* event yet or of a replay nobody asked for; the receiver saw no more     *)
(* than was claimed; and how a delivery ended the receiver knows.          *)
Shown(s) == IF s = "in_flight" THEN "attempting" ELSE s

RowsAgree(d) ==
  /\ delivery[d].attempts = job[d].attempts
  /\ delivery[d].status = Shown(job[d].status)

ReceiverKnows(d) ==
  /\ posted[d] <= job[d].attempts
  /\ job[d].status = "none" => job[d].attempts = 0
  /\ job[d].status # "none" => d[1] \in emitted
  /\ job[d].status = "succeeded" => d \in accepted
  /\ job[d].status = "failed" => job[d].attempts = Attempts \/ posted[d] > 0

(* The attempt in hand has its job in flight, and an answer was one to a   *)
(* request the receiver got.                                               *)
PumpInFlight ==
  pump # NoAttempt =>
    /\ job[pump.of].status = "in_flight"
    /\ pump.stage = "claimed" => posted[pump.of] < job[pump.of].attempts
    /\ pump.stage = "answered" =>
         /\ pump.answer # "lost" => posted[pump.of] > 0
         /\ pump.answer = "ok" => pump.of \in accepted

DeliveryInv ==
  /\ WebhookTypeOK
  /\ \A d \in Deliveries : RowsAgree(d) /\ ReceiverKnows(d)
  /\ PumpInFlight

LEMMA PumpParts ==
  ASSUME WebhookTypeOK
  PROVE  /\ pump # NoAttempt => pump.of \in Deliveries
         /\ pump = NoAttempt <=> pump.stage = "idle"
         /\ pump.stage \in {"idle", "claimed", "answered"}
         /\ pump.stage = "answered" => pump.answer \in Answers
BY DEF WebhookTypeOK, NoAttempt

LEMMA JobParts ==
  ASSUME WebhookTypeOK, NEW d \in Deliveries
  PROVE  /\ job[d].status \in {"none", "pending", "in_flight", "retrying", "succeeded", "failed"}
         /\ job[d].attempts \in 0 .. Attempts /\ job[d].due \in BOOLEAN
         /\ job[d] = [status |-> job[d].status, attempts |-> job[d].attempts, due |-> job[d].due]
         /\ delivery[d] = [status |-> delivery[d].status, attempts |-> delivery[d].attempts]
         /\ posted[d] \in 0 .. Attempts
BY DEF WebhookTypeOK, Ended

(* The job and the delivery of one claim are given new rows that agree,    *)
(* and nothing else moves but the pump and what the receiver saw of it.    *)
LEMMA RowWritten ==
  ASSUME DeliveryInv, NEW d \in Deliveries,
         NEW s \in {"in_flight", "retrying", "succeeded", "failed"},
         NEW n \in 0 .. Attempts, NEW due \in BOOLEAN,
         job' = [job EXCEPT ![d] = [status |-> s, attempts |-> n, due |-> due]],
         delivery' = [delivery EXCEPT ![d] = [status |-> Shown(s), attempts |-> n]],
         UNCHANGED <<webhook, emitted, posted, accepted>>,
         job[d].status # "none", job[d].attempts <= n,
         s = "succeeded" => d \in accepted,
         s = "failed" => n = Attempts \/ posted[d] > 0,
         \/ pump' = NoAttempt
         \/ /\ pump' = [stage |-> "claimed", of |-> d]
            /\ s = "in_flight" /\ posted[d] < n
  PROVE  DeliveryInv'
<1>1. WebhookTypeOK /\ n \in Nat
  BY WebhookAssumption DEF DeliveryInv
<1>2. /\ job'[d] = [status |-> s, attempts |-> n, due |-> due]
      /\ delivery'[d] = [status |-> Shown(s), attempts |-> n]
      /\ \A e \in Deliveries \ {d} : job'[e] = job[e] /\ delivery'[e] = delivery[e]
  BY <1>1 DEF WebhookTypeOK
<1>3. ASSUME NEW e \in Deliveries PROVE RowsAgree(e)' /\ ReceiverKnows(e)'
  <2>1. RowsAgree(e) /\ ReceiverKnows(e) /\ ReceiverKnows(d)
    BY DEF DeliveryInv
  <2>2. CASE e # d
    BY <1>2, <2>1, <2>2 DEF RowsAgree, ReceiverKnows
  <2>3. CASE e = d
    <3>8. job[d].attempts \in 0 .. Attempts /\ posted[d] \in 0 .. Attempts
      BY <1>1, JobParts
    <3>9. posted[d] <= job[d].attempts
      BY <2>1 DEF ReceiverKnows
    <3>1. posted[d] \in Nat /\ job[d].attempts \in Nat /\ posted[d] <= job[d].attempts
      BY <3>8, <3>9, WebhookAssumption
    <3>5. PICK a \in Nat, b \in Nat : a = job[d].attempts /\ b = posted[d]
      BY <3>1
    <3>6. b <= a /\ a <= n
      BY <3>1, <3>5
    <3>7. b <= n
      BY <1>1, <3>6
    <3>2. posted'[d] <= n /\ d[1] \in emitted'
      BY <2>1, <3>5, <3>7 DEF ReceiverKnows
    <3>3. RowsAgree(d)'
      BY <1>2 DEF RowsAgree
    <3>4. ReceiverKnows(d)'
      BY <1>2, <3>2 DEF ReceiverKnows
    <3> QED BY <2>3, <3>3, <3>4
  <2> QED BY <2>2, <2>3
<1>4. WebhookTypeOK'
  BY <1>1, <1>2 DEF WebhookTypeOK, Shown, Ended, NoAttempt
<1>5. PumpInFlight'
  <2>1. CASE pump' = NoAttempt
    BY <2>1 DEF PumpInFlight
  <2>2. CASE pump' = [stage |-> "claimed", of |-> d] /\ s = "in_flight" /\ posted[d] < n
    BY <1>2, <2>2 DEF PumpInFlight
  <2> QED BY <2>1, <2>2
<1> QED BY <1>3, <1>4, <1>5 DEF DeliveryInv

LEMMA InitDelivery == WebhookInit => DeliveryInv
<1> SUFFICES ASSUME WebhookInit PROVE DeliveryInv
  OBVIOUS
<1>1. Attempts \in Nat
  BY WebhookAssumption
<1>2. WebhookTypeOK
  BY <1>1 DEF WebhookInit, WebhookTypeOK, Unstaged, NoAttempt
<1>3. \A d \in Deliveries : RowsAgree(d) /\ ReceiverKnows(d)
  BY <1>1 DEF WebhookInit, Unstaged, RowsAgree, ReceiverKnows, Shown
<1> QED BY <1>2, <1>3 DEF DeliveryInv, PumpInFlight, WebhookInit

(* New deliveries take places that were empty, so the attempt in hand is   *)
(* of another one.                                                         *)
LEMMA StagedDelivery ==
  ASSUME DeliveryInv, NEW new \in SUBSET Deliveries, Staged(new),
         UNCHANGED <<webhook, pump, posted, accepted>>,
         emitted \subseteq emitted', emitted' \subseteq Events,
         \A d \in new : job[d].status = "none" /\ d[1] \in emitted'
  PROVE  DeliveryInv'
<1>1. WebhookTypeOK /\ Attempts \in Nat
  BY WebhookAssumption DEF DeliveryInv
<1>2. ASSUME NEW d \in Deliveries
      PROVE  /\ d \in new => /\ job'[d] = [status |-> "pending", attempts |-> 0, due |-> TRUE]
                             /\ delivery'[d] = [status |-> "pending", attempts |-> 0]
             /\ d \notin new => job'[d] = job[d] /\ delivery'[d] = delivery[d]
  BY DEF Staged
<1>3. ASSUME NEW d \in Deliveries PROVE RowsAgree(d)' /\ ReceiverKnows(d)'
  <2>1. RowsAgree(d) /\ ReceiverKnows(d)
    BY DEF DeliveryInv
  <2>2. CASE d \in new
    <3>1. posted[d] <= 0
      BY <2>1, <2>2 DEF ReceiverKnows
    <3> QED BY <1>2, <2>2, <3>1 DEF RowsAgree, ReceiverKnows, Shown
  <2>3. CASE d \notin new
    BY <1>2, <2>1, <2>3 DEF RowsAgree, ReceiverKnows
  <2> QED BY <2>2, <2>3
<1>4. WebhookTypeOK'
  <2>1. /\ job' \in [Deliveries -> [status : {"none", "pending", "in_flight", "retrying"} \cup Ended,
                                    attempts : 0 .. Attempts, due : BOOLEAN]]
        /\ delivery' \in [Deliveries ->
             [status : {"none", "pending", "attempting", "retrying"} \cup Ended,
              attempts : 0 .. Attempts]]
    BY <1>1 DEF Staged, WebhookTypeOK
  <2> QED BY <1>1, <2>1 DEF WebhookTypeOK
<1>5. PumpInFlight'
  <2>1. SUFFICES ASSUME pump # NoAttempt PROVE PumpInFlight'
    BY DEF PumpInFlight
  <2>2. PICK d \in Deliveries : d = pump.of
    BY <1>1, <2>1, PumpParts
  <2>3. job[d].status = "in_flight" /\ d \notin new
    BY <2>1, <2>2 DEF DeliveryInv, PumpInFlight
  <2>4. job'[d] = job[d]
    BY <1>2, <2>3
  <2> QED BY <2>1, <2>2, <2>4 DEF DeliveryInv, PumpInFlight
<1> QED BY <1>3, <1>4, <1>5 DEF DeliveryInv

LEMMA TenantDelivery ==
  ASSUME DeliveryInv,
         \/ \E w \in Webhooks, s \in {"enabled", "disabled", "deleted"} : SetWebhook(w, s)
         \/ \E e \in Events : EnqueueEvent(e)
         \/ \E e \in Events, w \in Webhooks, k \in 0 .. MaxReplays : Replay(e, w, k)
  PROVE  DeliveryInv'
<1>1. ASSUME NEW w \in Webhooks, NEW s \in {"enabled", "disabled", "deleted"}, SetWebhook(w, s)
      PROVE  DeliveryInv'
  <2>1. UNCHANGED <<emitted, job, delivery, pump, posted, accepted>>
    BY <1>1 DEF SetWebhook
  <2>2. webhook' \in [Webhooks -> {"none", "enabled", "disabled", "deleted"}]
    BY <1>1 DEF SetWebhook, DeliveryInv, WebhookTypeOK
  <2> QED BY <2>1, <2>2 DEF DeliveryInv, WebhookTypeOK, RowsAgree, ReceiverKnows, PumpInFlight
<1>2. ASSUME NEW e \in Events, EnqueueEvent(e) PROVE DeliveryInv'
  <2>1. PICK new : new = {<<e, w, 0>> : w \in {x \in Webhooks : webhook[x] = "enabled"}}
    OBVIOUS
  <2>2. MaxReplays \in Nat
    BY WebhookAssumption
  <2>3. new \in SUBSET Deliveries
    BY <2>1, <2>2 DEF Deliveries
  <2>4. \A d \in new : job[d].status = "none" /\ d[1] \in emitted'
    <3>1. TAKE d \in new
    <3>2. d[1] = e /\ d \in Deliveries
      BY <2>1, <2>3
    <3> QED BY <1>2, <3>2 DEF EnqueueEvent, DeliveryInv, ReceiverKnows
  <2>5. /\ Staged(new) /\ UNCHANGED <<webhook, pump, posted, accepted>>
        /\ emitted' = emitted \cup {e}
    BY <1>2, <2>1 DEF EnqueueEvent
  <2>6. emitted \subseteq emitted' /\ emitted' \subseteq Events
    BY <2>5 DEF DeliveryInv, WebhookTypeOK
  <2> QED BY <2>3, <2>4, <2>5, <2>6, StagedDelivery
<1>3. ASSUME NEW e \in Events, NEW w \in Webhooks, NEW k \in 0 .. MaxReplays, Replay(e, w, k)
      PROVE  DeliveryInv'
  <2>1. PICK d : d = <<e, w, k + 1>>
    OBVIOUS
  <2>2. MaxReplays \in Nat /\ k + 1 \in 0 .. MaxReplays
    BY <1>3, WebhookAssumption DEF Replay
  <2>3. d \in Deliveries /\ <<e, w, k>> \in Deliveries /\ d[1] = e
    BY <2>1, <2>2 DEF Deliveries
  <2>4. e \in emitted
    BY <1>3, <2>3 DEF Replay, DeliveryInv, ReceiverKnows
  <2>5. /\ Staged({d}) /\ UNCHANGED <<webhook, emitted, pump, posted, accepted>>
        /\ job[d].status = "none"
    BY <1>3, <2>1 DEF Replay
  <2>6. emitted \subseteq emitted' /\ emitted' \subseteq Events
    BY <2>5 DEF DeliveryInv, WebhookTypeOK
  <2>7. {d} \in SUBSET Deliveries
    BY <2>3
  <2>8. \A x \in {d} : job[x].status = "none" /\ x[1] \in emitted'
    BY <2>3, <2>4, <2>5
  <2> QED BY <2>5, <2>6, <2>7, <2>8, StagedDelivery
<1> QED BY <1>1, <1>2, <1>3

(* Ending an attempt writes the status into both rows.                     *)
LEMMA EndedRows ==
  ASSUME WebhookTypeOK, NEW d \in Deliveries, RowsAgree(d), NEW s, End(d, s)
  PROVE  /\ job' = [job EXCEPT ![d] = [status |-> s, attempts |-> job[d].attempts, due |-> FALSE]]
         /\ delivery' = [delivery EXCEPT ![d] = [status |-> s, attempts |-> job[d].attempts]]
<1>1. PICK shown, a : shown = delivery[d] /\ a = job[d].attempts
  OBVIOUS
<1>2. shown = [status |-> shown.status, attempts |-> a]
  BY <1>1, JobParts DEF RowsAgree
<1>3. [shown EXCEPT !.status = s] = [status |-> s, attempts |-> a]
  BY <1>2
<1>4. delivery' = [delivery EXCEPT ![d] = [shown EXCEPT !.status = s]]
  BY <1>1 DEF End, Record
<1> QED BY <1>1, <1>3, <1>4 DEF End

(* An attempt is counted when it is claimed, before the receiver hears.    *)
LEMMA ClaimDelivery ==
  ASSUME DeliveryInv, NEW d \in Deliveries, Pump(d)
  PROVE  DeliveryInv'
<1>1. WebhookTypeOK /\ Attempts \in Nat /\ ReceiverKnows(d) /\ RowsAgree(d)
  BY WebhookAssumption DEF DeliveryInv
<1>2. /\ job[d].attempts \in 0 .. Attempts /\ posted[d] \in Nat
      /\ job[d] = [status |-> job[d].status, attempts |-> job[d].attempts, due |-> job[d].due]
      /\ delivery[d] = [status |-> delivery[d].status, attempts |-> delivery[d].attempts]
  BY <1>1, JobParts
<1>3. job[d].status # "none" /\ pump = NoAttempt
  BY DEF Pump, ClaimJob, SecretUnreadable, RetryLimit, JobDue
<1>4. PICK n : n = job[d].attempts + 1
  OBVIOUS
<1>5. CASE ClaimJob(d)
  <2>1. n \in 0 .. Attempts /\ job[d].attempts <= n /\ posted[d] < n
    BY <1>1, <1>2, <1>4, <1>5 DEF ClaimJob, ReceiverKnows
  <2>2. /\ job' = [job EXCEPT ![d] = [status |-> "in_flight", attempts |-> n, due |-> FALSE]]
        /\ delivery' = [delivery EXCEPT ![d] = [status |-> Shown("in_flight"), attempts |-> n]]
        /\ pump' = [stage |-> "claimed", of |-> d]
        /\ UNCHANGED <<webhook, emitted, posted, accepted>>
    BY <1>4, <1>5 DEF ClaimJob, Shown, pumpless
  <2> QED BY <1>3, <2>1, <2>2, RowWritten
<1>6. CASE SecretUnreadable(d)
  <2>1. n \in 0 .. Attempts /\ job[d].attempts <= n
    BY <1>1, <1>2, <1>4, <1>6 DEF SecretUnreadable
  <2>2. /\ job' = [job EXCEPT ![d] = [status |-> "retrying", attempts |-> n, due |-> FALSE]]
        /\ delivery' = [delivery EXCEPT ![d] = [status |-> Shown("retrying"), attempts |-> n]]
        /\ pump' = NoAttempt
        /\ UNCHANGED <<webhook, emitted, posted, accepted>>
    BY <1>3, <1>4, <1>6 DEF SecretUnreadable, Shown, pumpless
  <2> QED BY <1>3, <2>1, <2>2, RowWritten
<1>7. CASE RetryLimit(d)
  <2>1. PICK a \in 0 .. Attempts : a = job[d].attempts
    BY <1>2
  <2>2. a = Attempts /\ job[d].attempts <= a
    BY <1>1, <1>7, <2>1 DEF RetryLimit
  <2>3. /\ job' = [job EXCEPT ![d] = [status |-> "failed", attempts |-> a, due |-> FALSE]]
        /\ delivery' = [delivery EXCEPT ![d] = [status |-> Shown("failed"), attempts |-> a]]
    BY <1>1, <1>7, <2>1, EndedRows DEF RetryLimit, Shown
  <2>4. pump' = NoAttempt /\ UNCHANGED <<webhook, emitted, posted, accepted>>
    BY <1>3, <1>7 DEF RetryLimit, pumpless
  <2> QED BY <1>3, <2>2, <2>3, <2>4, RowWritten
<1> QED BY <1>5, <1>6, <1>7 DEF Pump
(* The receiver hears of the attempt in hand once.                         *)
LEMMA PostedDelivery ==
  ASSUME DeliveryInv, PostDelivery
  PROVE  DeliveryInv'
<1>1. WebhookTypeOK /\ PumpInFlight /\ Attempts \in Nat
  BY WebhookAssumption DEF DeliveryInv
<1>2. PICK d \in Deliveries : d = pump.of
  BY <1>1, PumpParts DEF PostDelivery, NoAttempt
<1>3. PICK answer \in Answers, got \in BOOLEAN :
        /\ answer # "lost" => got
        /\ pump' = [stage |-> "answered", of |-> d, answer |-> answer]
        /\ posted' = IF got THEN [posted EXCEPT ![d] = @ + 1] ELSE posted
        /\ accepted' = IF answer = "ok" THEN accepted \cup {d} ELSE accepted
  BY <1>2 DEF PostDelivery
<1>4. UNCHANGED <<webhook, emitted, job, delivery>>
  BY DEF PostDelivery, pumpless
<1>5. pump # NoAttempt /\ job[d].status = "in_flight"
  BY <1>1, <1>2 DEF PostDelivery, NoAttempt, PumpInFlight
<1>6. job[d].attempts \in 0 .. Attempts /\ posted[d] \in 0 .. Attempts
  BY <1>1, JobParts
<1>7. posted[d] < job[d].attempts
  BY <1>1, <1>2, <1>5 DEF PostDelivery, PumpInFlight
<1>8. PICK p \in Nat, a \in Nat : p = posted[d] /\ a = job[d].attempts
  BY <1>1, <1>6
<1>9. p + 1 \in 0 .. Attempts /\ p + 1 <= a
  BY <1>1, <1>6, <1>7, <1>8
<1>10. posted'[d] = (IF got THEN p + 1 ELSE p)
  BY <1>1, <1>3, <1>8 DEF WebhookTypeOK
<1>11. \A e \in Deliveries \ {d} : posted'[e] = posted[e]
  BY <1>1, <1>3 DEF WebhookTypeOK
<1>12. WebhookTypeOK'
  <2>1. posted' \in [Deliveries -> 0 .. Attempts]
    BY <1>1, <1>3, <1>8, <1>9 DEF WebhookTypeOK
  <2>2. accepted' \subseteq Deliveries
    BY <1>1, <1>3 DEF WebhookTypeOK
  <2>3. pump' \in [stage : {"answered"}, of : Deliveries, answer : Answers]
    BY <1>3
  <2> QED BY <1>1, <1>4, <2>1, <2>2, <2>3 DEF WebhookTypeOK
<1>13. posted'[d] <= job[d].attempts /\ posted[d] <= posted'[d]
       /\ (got => posted'[d] > 0)
  BY <1>7, <1>8, <1>9, <1>10
<1>14. ASSUME NEW e \in Deliveries PROVE RowsAgree(e)' /\ ReceiverKnows(e)'
  <2>1. RowsAgree(e) /\ ReceiverKnows(e)
    BY DEF DeliveryInv
  <2>2. RowsAgree(e)'
    BY <1>4, <2>1 DEF RowsAgree
  <2>3. CASE e = d
    <3>1. job'[d].status = "in_flight" /\ posted'[d] <= job'[d].attempts /\ d[1] \in emitted'
      BY <1>4, <1>5, <1>13, <2>1, <2>3 DEF ReceiverKnows
    <3> QED BY <2>2, <2>3, <3>1 DEF ReceiverKnows
  <2>4. CASE e # d
    <3>1. posted'[e] = posted[e] /\ (e \in accepted => e \in accepted')
      BY <1>3, <1>11, <2>4
    <3> QED BY <1>4, <2>1, <2>2, <3>1 DEF ReceiverKnows
  <2> QED BY <2>2, <2>3, <2>4
<1>15. PumpInFlight'
  BY <1>3, <1>4, <1>5, <1>13 DEF PumpInFlight
<1> QED BY <1>12, <1>14, <1>15 DEF DeliveryInv

(* What the rows are told of an attempt its answer supports.               *)
LEMMA FinishedDelivery ==
  ASSUME DeliveryInv, FinishAttempt
  PROVE  DeliveryInv'
<1>1. WebhookTypeOK /\ PumpInFlight /\ Attempts \in Nat
  BY WebhookAssumption DEF DeliveryInv
<1>2. PICK d \in Deliveries : d = pump.of
  BY <1>1, PumpParts DEF FinishAttempt, NoAttempt
<1>3. pump # NoAttempt /\ job[d].status = "in_flight" /\ RowsAgree(d)
  BY <1>1, <1>2 DEF FinishAttempt, NoAttempt, PumpInFlight, DeliveryInv
<1>4. /\ pump.answer # "lost" => posted[d] > 0
      /\ pump.answer = "ok" => d \in accepted
  BY <1>1, <1>2, <1>3 DEF FinishAttempt, PumpInFlight
<1>5. PICK a \in 0 .. Attempts : a = job[d].attempts
  BY <1>1, JobParts
<1>6. PICK s \in {"retrying", "succeeded", "failed"} :
        /\ End(d, s)
        /\ s = "succeeded" => pump.answer = "ok"
        /\ s = "failed" => pump.answer = "refused" \/ ~(a < Attempts)
  BY <1>2, <1>5 DEF FinishAttempt, Retry, Retryable
<1>7. /\ s = "succeeded" => d \in accepted
      /\ s = "failed" => a = Attempts \/ posted[d] > 0
  BY <1>1, <1>4, <1>5, <1>6
<1>8. /\ job' = [job EXCEPT ![d] = [status |-> s, attempts |-> a, due |-> FALSE]]
      /\ delivery' = [delivery EXCEPT ![d] = [status |-> Shown(s), attempts |-> a]]
  BY <1>1, <1>3, <1>5, <1>6, EndedRows DEF Shown
<1>9. pump' = NoAttempt /\ UNCHANGED <<webhook, emitted, posted, accepted>>
  BY DEF FinishAttempt, pumpless
<1>10. job[d].status # "none" /\ job[d].attempts <= a
  BY <1>1, <1>3, <1>5
<1> QED BY <1>7, <1>8, <1>9, <1>10, RowWritten

LEMMA DelayDelivery ==
  ASSUME DeliveryInv, NEW d \in Deliveries, DelayEnds(d)
  PROVE  DeliveryInv'
<1>1. UNCHANGED <<webhook, emitted, delivery, pump, posted, accepted>>
  BY DEF DelayEnds, pumpless
<1>2. job' = [job EXCEPT ![d].due = TRUE]
  BY DEF DelayEnds
<1>3. \A e \in Deliveries :
        job'[e].status = job[e].status /\ job'[e].attempts = job[e].attempts
  BY <1>2, JobParts DEF DeliveryInv, WebhookTypeOK
<1>4. WebhookTypeOK'
  BY <1>1, <1>2 DEF DeliveryInv, WebhookTypeOK
<1>5. \A e \in Deliveries : RowsAgree(e)' /\ ReceiverKnows(e)'
  BY <1>1, <1>3 DEF DeliveryInv, RowsAgree, ReceiverKnows
<1>6. PumpInFlight'
  BY <1>1, <1>3, PumpParts DEF DeliveryInv, PumpInFlight
<1> QED BY <1>4, <1>5, <1>6 DEF DeliveryInv

LEMMA NextDelivery == DeliveryInv /\ [WebhookNext]_webhookVars => DeliveryInv'
<1> SUFFICES ASSUME DeliveryInv, [WebhookNext]_webhookVars PROVE DeliveryInv'
  OBVIOUS
<1>1. CASE PumpDies
  BY <1>1 DEF PumpDies, pumpless, DeliveryInv, WebhookTypeOK, RowsAgree, ReceiverKnows,
              PumpInFlight
<1>2. CASE UNCHANGED webhookVars
  BY <1>2 DEF webhookVars, DeliveryInv, WebhookTypeOK, RowsAgree, ReceiverKnows, PumpInFlight
<1> QED BY <1>1, <1>2, TenantDelivery, ClaimDelivery, DelayDelivery, PostedDelivery,
           FinishedDelivery DEF WebhookNext

LEMMA DeliveryFollows == DeliveryInv => DeliveryTold
<1> SUFFICES ASSUME DeliveryInv, NEW d \in Deliveries
    PROVE /\ delivery[d].status = "succeeded" => d \in accepted
          /\ delivery[d].status = "failed" =>
               delivery[d].attempts = Attempts \/ posted[d] > 0
          /\ posted[d] <= delivery[d].attempts
          /\ delivery[d].status = "attempting" <=> job[d].status = "in_flight"
          /\ delivery[d].status # "attempting" => delivery[d].status = job[d].status
  BY DEF DeliveryTold
<1>1. RowsAgree(d) /\ ReceiverKnows(d)
  BY DEF DeliveryInv
<1>2. job[d].status \in {"none", "pending", "in_flight", "retrying", "succeeded", "failed"}
  BY JobParts DEF DeliveryInv
<1> QED BY <1>1, <1>2 DEF RowsAgree, ReceiverKnows, Shown

-----------------------------------------------------------------------------
(* Secrets at rest *)

(* While deployments are careful, whatever is sealed and still needed can  *)
(* be opened; production seals nothing in the plain; and what the last     *)
(* command was told is what the running deployment answers.                *)
OpenedWithCare ==
  careful =>
    /\ \A w \in Targets : targetSeal[w] # Unsealed => Unseals(targetSeal[w])
    /\ \A j \in Envelopes : /\ parcel[j].status = "queued" => Unseals(parcel[j].seal)
                            /\ parcel[j].tries = 0
    /\ told.kind = "event" => told.outcome = "committed"

NeverPlain ==
  deployment.mode = "production" =>
    /\ \A w \in Targets : targetSeal[w] # PlainText
    /\ \A j \in Envelopes : parcel[j].seal # PlainText

AskedInProduction ==
  told.kind = "provider" =>
    /\ deployment.mode = "production"
    /\ told.outcome # "committed" => ~(deployment.gateway /\ CanSeal(deployment))

SealInv == SealTypeOK /\ OpenedWithCare /\ NeverPlain /\ AskedInProduction

LEMMA InitSeal == SealInit => SealInv
BY SealAssumption DEF SealInit, SealInv, SealTypeOK, OpenedWithCare, NeverPlain,
   AskedInProduction, NoParcel, NoCommand, Seals

(* What is sealed now opens now, and production seals it under a key.      *)
LEMMA SealedOpens ==
  ASSUME SealTypeOK, CanSeal(deployment)
  PROVE  /\ SealNow \in Seals /\ SealNow # Unsealed
         /\ Unseals(SealNow)
         /\ deployment.mode = "production" => SealNow # PlainText
<1>1. /\ deployment.mode \in {"production", "sandbox"}
      /\ deployment.ring \subseteq Kids /\ deployment.active \in Kids
  BY SealAssumption DEF SealTypeOK
<1>2. CASE deployment.ring = {}
  BY <1>1, <1>2, SealAssumption DEF CanSeal, SealNow, Unseals, Seals
<1>3. CASE deployment.ring # {}
  BY <1>1, <1>3, SealAssumption DEF CanSeal, SealNow, Unseals, Unusable, Seals
<1> QED BY <1>2, <1>3

(* A keyring that keeps the keys on disk opens what the one before opened. *)
LEMMA RedeployKeeps ==
  ASSUME SealInv, NEW d \in Deployments, Redeploy(d)
  PROVE  SealInv'
<1>1. /\ deployment' = d /\ told' = NoCommand /\ d.mode = deployment.mode
      /\ careful' = (careful /\ ~Unusable(d) /\ OnDisk \cap Kids \subseteq d.ring)
      /\ UNCHANGED <<targetSeal, parcel>>
  BY DEF Redeploy
<1>2. SealTypeOK'
  BY <1>1 DEF SealInv, SealTypeOK, NoCommand
<1>3. ASSUME NEW seal \in OnDisk, seal \in Seals, Unseals(seal), careful' PROVE Unseals(seal)'
  <2>1. CASE seal = PlainText
    BY <1>1, <1>3, <2>1 DEF Unseals
  <2>2. CASE seal # PlainText
    BY <1>1, <1>3, <2>2 DEF Unseals, Seals
  <2> QED BY <2>1, <2>2
<1>4. OpenedWithCare'
  <2> SUFFICES ASSUME careful' PROVE OpenedWithCare'
    BY DEF OpenedWithCare
  <2>1. careful /\ OpenedWithCare
    BY <1>1 DEF SealInv
  <2>2. ASSUME NEW w \in Targets, targetSeal[w] # Unsealed PROVE Unseals(targetSeal[w])'
    <3>1. targetSeal[w] \in Seals /\ targetSeal[w] \in OnDisk /\ Unseals(targetSeal[w])
      BY <2>1, <2>2 DEF SealInv, SealTypeOK, OnDisk, OpenedWithCare
    <3>2. PICK seal : seal = targetSeal[w]
      OBVIOUS
    <3>3. seal \in OnDisk /\ seal \in Seals /\ Unseals(seal)
      BY <3>1, <3>2
    <3>4. Unseals(seal)'
      BY <1>3, <3>3
    <3> QED BY <1>1, <3>2, <3>4 DEF Unseals
  <2>3. ASSUME NEW j \in Envelopes, parcel[j].status = "queued" PROVE Unseals(parcel[j].seal)'
    <3>1. PICK seal : seal = parcel[j].seal
      OBVIOUS
    <3>2. seal \in OnDisk /\ Unseals(seal)
      BY <2>1, <2>3, <3>1 DEF OnDisk, OpenedWithCare
    <3>3. CASE seal \in Seals
      <4>1. Unseals(seal)'
        BY <1>3, <3>2, <3>3
      <4> QED BY <1>1, <3>1, <4>1 DEF Unseals
    <3>4. CASE seal \notin Seals
      <4>1. seal = Unsealed
        BY <3>1, <3>4 DEF SealInv, SealTypeOK
      <4>2. deployment.ring \subseteq Kids
        BY SealAssumption DEF SealInv, SealTypeOK
      <4> QED BY <3>2, <4>1, <4>2, SealAssumption DEF Unseals
    <3> QED BY <3>3, <3>4
  <2> QED BY <1>1, <2>1, <2>2, <2>3 DEF OpenedWithCare, NoCommand
<1>5. NeverPlain' /\ AskedInProduction'
  BY <1>1 DEF SealInv, NeverPlain, AskedInProduction, NoCommand
<1> QED BY <1>2, <1>4, <1>5 DEF SealInv

LEMMA TargetKeeps ==
  ASSUME SealInv, NEW w \in Targets, CreateTarget(w) \/ UpdateTarget(w) \/ DeleteTarget(w)
  PROVE  SealInv'
<1>1. UNCHANGED <<deployment, parcel, careful, told>>
  BY DEF CreateTarget, UpdateTarget, DeleteTarget
<1>2. PICK seal \in Seals \cup {Unsealed} :
        /\ targetSeal' = [targetSeal EXCEPT ![w] = seal]
        /\ seal # Unsealed => Unseals(seal)
        /\ deployment.mode = "production" => seal # PlainText
  <2>1. CASE DeleteTarget(w)
    <3>1. targetSeal' = [targetSeal EXCEPT ![w] = Unsealed]
      BY <2>1 DEF DeleteTarget
    <3>2. Unsealed # PlainText
      BY SealAssumption
    <3> QED BY <3>1, <3>2
  <2>2. CASE CreateTarget(w) \/ UpdateTarget(w)
    BY <2>2, SealedOpens DEF CreateTarget, UpdateTarget, PutTarget, SealInv
  <2> QED BY <2>1, <2>2
<1>3. \A v \in Targets : targetSeal'[v] = IF v = w THEN seal ELSE targetSeal[v]
  BY <1>2 DEF SealInv, SealTypeOK
<1>4. SealTypeOK'
  BY <1>1, <1>2 DEF SealInv, SealTypeOK
<1>5. OpenedWithCare'
  BY <1>1, <1>2, <1>3 DEF SealInv, OpenedWithCare, Unseals
<1>6. NeverPlain' /\ AskedInProduction'
  BY <1>1, <1>2, <1>3 DEF SealInv, NeverPlain, AskedInProduction
<1> QED BY <1>4, <1>5, <1>6 DEF SealInv

LEMMA EmitKeeps ==
  ASSUME SealInv, NEW tenant, EmitFor(tenant)
  PROVE  SealInv'
<1> DEFINE targets == {w \in Targets : targetSeal[w] # Unsealed}
           readable == \A w \in targets : Unseals(targetSeal[w])
<1>1. PICK fresh \in SUBSET targets :
        parcel' = IF readable
                  THEN [j \in Envelopes |-> IF j \in fresh THEN Queued(SealOfJob(j)) ELSE parcel[j]]
                  ELSE parcel
  BY DEF EmitFor
<1>2. /\ told' = [kind |-> "event", outcome |-> IF readable THEN "committed" ELSE "refused"]
      /\ UNCHANGED <<deployment, targetSeal, careful>>
  BY DEF EmitFor
<1>3. ASSUME NEW j \in Envelopes
      PROVE  \/ parcel'[j] = parcel[j]
             \/ /\ readable /\ j \in targets
                /\ parcel'[j] = [seal |-> targetSeal[j], status |-> "queued", tries |-> 0]
  BY <1>1 DEF Queued, SealOfJob
<1>4. careful => readable
  BY DEF SealInv, OpenedWithCare
<1>5. SealTypeOK'
  <2>1. ASSUME NEW j \in Envelopes
        PROVE  parcel'[j] \in [seal : Seals \cup {Unsealed}, status : {"none", "queued", "failed"},
                               tries : 0 .. MaxTries]
    <3>1. parcel[j] \in [seal : Seals \cup {Unsealed}, status : {"none", "queued", "failed"},
                         tries : 0 .. MaxTries]
      BY DEF SealInv, SealTypeOK
    <3>2. CASE parcel'[j] = parcel[j]
      BY <3>1, <3>2
    <3>3. CASE parcel'[j] # parcel[j]
      <4>1. /\ j \in Targets
            /\ parcel'[j] = [seal |-> targetSeal[j], status |-> "queued", tries |-> 0]
        BY <1>3, <3>3
      <4>2. targetSeal[j] \in Seals \cup {Unsealed} /\ 0 \in 0 .. MaxTries
        BY <4>1, SealAssumption DEF SealInv, SealTypeOK
      <4> QED BY <4>1, <4>2
    <3> QED BY <3>2, <3>3
  <2>2. parcel' = [j \in Envelopes |-> parcel'[j]]
    BY <1>1 DEF SealInv, SealTypeOK
  <2> QED BY <1>2, <2>1, <2>2 DEF SealInv, SealTypeOK
<1>6. OpenedWithCare'
  <2> SUFFICES ASSUME careful' PROVE OpenedWithCare'
    BY DEF OpenedWithCare
  <2>1. careful /\ readable /\ told'.outcome = "committed"
    BY <1>2, <1>4
  <2>2. \A w \in Targets : targetSeal'[w] # Unsealed => Unseals(targetSeal[w])'
    BY <1>2, <2>1 DEF Unseals
  <2>3. ASSUME NEW j \in Envelopes
        PROVE  /\ parcel'[j].status = "queued" => Unseals(parcel[j].seal)'
               /\ parcel'[j].tries = 0
    <3>1. CASE parcel'[j] = parcel[j]
      BY <1>2, <2>1, <3>1 DEF SealInv, OpenedWithCare, Unseals
    <3>2. CASE parcel'[j] # parcel[j]
      <4>1. /\ j \in targets
            /\ parcel'[j] = [seal |-> targetSeal[j], status |-> "queued", tries |-> 0]
        BY <1>3, <3>2
      <4>2. Unseals(targetSeal[j])
        BY <2>1, <4>1
      <4> QED BY <1>2, <4>1, <4>2 DEF Unseals
    <3> QED BY <3>1, <3>2
  <2> QED BY <2>1, <2>2, <2>3 DEF OpenedWithCare
<1>7. NeverPlain'
  <2> SUFFICES ASSUME deployment'.mode = "production" PROVE NeverPlain'
    BY DEF NeverPlain
  <2>1. deployment.mode = "production" /\ NeverPlain
    BY <1>2 DEF SealInv
  <2>2. ASSUME NEW j \in Envelopes PROVE parcel'[j].seal # PlainText
    <3>1. CASE parcel'[j] = parcel[j]
      BY <2>1, <3>1 DEF NeverPlain
    <3>2. CASE parcel'[j] # parcel[j]
      <4>2. /\ j \in targets
            /\ parcel'[j] = [seal |-> targetSeal[j], status |-> "queued", tries |-> 0]
        BY <1>3, <3>2
      <4>1. j \in Targets /\ parcel'[j].seal = targetSeal[j]
        BY <4>2
      <4> QED BY <2>1, <4>1 DEF NeverPlain
    <3> QED BY <3>1, <3>2
  <2> QED BY <1>2, <2>1, <2>2 DEF NeverPlain
<1>8. AskedInProduction'
  BY <1>2 DEF AskedInProduction
<1> QED BY <1>5, <1>6, <1>7, <1>8 DEF SealInv

LEMMA AskKeeps ==
  ASSUME SealInv, NEW p \in Parcels, AskProvider(p)
  PROVE  SealInv'
<1> DEFINE possible == deployment.gateway /\ CanSeal(deployment)
<1>1. /\ deployment.mode = "production"
      /\ told' = [kind |-> "provider", outcome |-> IF possible THEN "committed" ELSE "refused"]
      /\ parcel' = IF possible THEN [parcel EXCEPT ![p] = Queued(SealNow)] ELSE parcel
      /\ UNCHANGED <<deployment, targetSeal, careful>>
  BY DEF AskProvider
<1>2. p \in Envelopes
  BY DEF Envelopes
<1>3. ASSUME NEW j \in Envelopes
      PROVE  \/ parcel'[j] = parcel[j]
             \/ /\ possible
                /\ parcel'[j] = [seal |-> SealNow, status |-> "queued", tries |-> 0]
  BY <1>1, <1>2 DEF Queued, SealInv, SealTypeOK
<1>4. possible => /\ SealNow \in Seals /\ Unseals(SealNow) /\ SealNow # PlainText
  BY <1>1, SealedOpens DEF SealInv
<1>5. SealTypeOK'
  BY <1>1, <1>2, <1>4, SealAssumption DEF SealInv, SealTypeOK, Queued
<1>6. OpenedWithCare'
  BY <1>1, <1>3, <1>4 DEF SealInv, OpenedWithCare, Unseals
<1>7. NeverPlain'
  BY <1>1, <1>3, <1>4 DEF SealInv, NeverPlain
<1>8. AskedInProduction'
  BY <1>1 DEF AskedInProduction
<1> QED BY <1>5, <1>6, <1>7, <1>8 DEF SealInv

LEMMA AttemptKeeps ==
  ASSUME SealInv, NEW j \in Envelopes, Attempt(j)
  PROVE  SealInv'
<1>1. UNCHANGED <<deployment, targetSeal, careful, told>> /\ parcel[j].status = "queued"
  BY DEF Attempt
<1>2. PICK row : row = parcel[j]
  OBVIOUS
<1>3. PICK seal \in Seals \cup {Unsealed}, t \in 0 .. MaxTries :
        row = [seal |-> seal, status |-> "queued", tries |-> t]
  BY <1>1, <1>2 DEF SealInv, SealTypeOK
<1>4. PICK new : new = IF Unseals(seal) THEN NoParcel
                       ELSE IF t + 1 < MaxTries
                       THEN [seal |-> seal, status |-> "queued", tries |-> t + 1]
                       ELSE [seal |-> Unsealed, status |-> "failed", tries |-> MaxTries]
  OBVIOUS
<1>6. parcel' = [parcel EXCEPT ![j] = new]
  BY <1>2, <1>3, <1>4 DEF Attempt
<1>7. /\ new.seal \in {seal, Unsealed} /\ new.status \in {"none", "queued", "failed"}
      /\ new.status = "queued" => new.seal = seal
      /\ Unseals(seal) => new.tries = 0 /\ new.status = "none"
      /\ new \in [seal : Seals \cup {Unsealed}, status : {"none", "queued", "failed"},
                  tries : 0 .. MaxTries]
  <2>1. MaxTries \in Nat
    BY SealAssumption
  <2>2. CASE Unseals(seal)
    BY <1>4, <2>1, <2>2 DEF NoParcel
  <2>3. CASE ~Unseals(seal) /\ t + 1 < MaxTries
    <3>1. new = [seal |-> seal, status |-> "queued", tries |-> t + 1]
      BY <1>3, <1>4, <2>3
    <3>2. t + 1 \in 0 .. MaxTries
      BY <2>1, <2>3
    <3> QED BY <1>3, <2>3, <3>1, <3>2
  <2>4. CASE ~Unseals(seal) /\ ~(t + 1 < MaxTries)
    <3>1. new = [seal |-> Unsealed, status |-> "failed", tries |-> MaxTries]
      BY <1>4, <2>4
    <3> QED BY <2>1, <2>4, <3>1
  <2> QED BY <2>2, <2>3, <2>4
<1>8. \A k \in Envelopes : parcel'[k] = IF k = j THEN new ELSE parcel[k]
  BY <1>6 DEF SealInv, SealTypeOK
<1>9. SealTypeOK'
  BY <1>1, <1>6, <1>7 DEF SealInv, SealTypeOK
<1>14. parcel[j].seal = seal
  BY <1>2, <1>3
<1>10. careful => Unseals(seal)
  BY <1>1, <1>14 DEF SealInv, OpenedWithCare
<1>11. OpenedWithCare'
  <2> SUFFICES ASSUME careful' PROVE OpenedWithCare'
    BY DEF OpenedWithCare
  <2>1. careful /\ OpenedWithCare /\ new.tries = 0 /\ new.status = "none"
    BY <1>1, <1>7, <1>10 DEF SealInv
  <2>2. ASSUME NEW k \in Envelopes
        PROVE  /\ parcel'[k].status = "queued" => Unseals(parcel[k].seal)'
               /\ parcel'[k].tries = 0
    <3>1. CASE k = j
      BY <1>8, <2>1, <3>1
    <3>2. CASE k # j
      BY <1>1, <1>8, <2>1, <3>2 DEF OpenedWithCare, Unseals
    <3> QED BY <3>1, <3>2
  <2> QED BY <1>1, <2>1, <2>2 DEF OpenedWithCare, Unseals
<1>12. deployment.mode = "production" => seal # PlainText
  BY <1>14 DEF SealInv, NeverPlain
<1>13. NeverPlain' /\ AskedInProduction'
  BY <1>1, <1>7, <1>8, <1>12, SealAssumption DEF SealInv, NeverPlain, AskedInProduction
<1> QED BY <1>9, <1>11, <1>13 DEF SealInv

LEMMA NextSeal == SealInv /\ [SealNext]_sealVars => SealInv'
<1>1. SealInv /\ UNCHANGED sealVars => SealInv'
  BY DEF sealVars, SealInv, SealTypeOK, OpenedWithCare, NeverPlain, AskedInProduction, Unseals
<1> QED BY <1>1, RedeployKeeps, TargetKeeps, EmitKeeps, AskKeeps, AttemptKeeps DEF SealNext

LEMMA SealFollows == SealInv => SecretsSurvive
<1> SUFFICES ASSUME SealInv PROVE SecretsSurvive
  OBVIOUS
<1>1. ASSUME Ready(deployment), told.kind = "provider" PROVE told.outcome = "committed"
  BY <1>1 DEF SealInv, AskedInProduction, Ready, CanSeal
<1> QED BY <1>1 DEF SealInv, OpenedWithCare, NeverPlain, SecretsSurvive

(* What a tenant is told of a delivery is true of the receiver, however    *)
(* often the pump dies, and keys may be rotated for ever: while every key  *)
(* that is still named is kept, nothing sealed is lost.                    *)
THEOREM DeliveriesAreHonest == WebhookSpec /\ SealSpec => []DeliveriesHonest
<1>1. WebhookSpec => []DeliveryTold
  BY InitDelivery, NextDelivery, DeliveryFollows, PTL DEF WebhookSpec
<1>2. SealSpec => []SecretsSurvive
  BY InitSeal, NextSeal, SealFollows, PTL DEF SealSpec
<1> QED BY <1>1, <1>2, PTL DEF DeliveriesHonest
=============================================================================
