-------------------------- MODULE ProviderOutbox --------------------------
(***************************************************************************)
(* The durable provider-operation outbox of the banking API                *)
(* (apps/api/src/provider-outbox.js) with the commands that queue work     *)
(* (production-provider-intents.js), the transport that talks to the       *)
(* provider gateway (provider-transport.js, provider-result-contract.js)   *)
(* and the handlers that turn an outcome into resource state and ledger    *)
(* postings (production-provider-outcomes.js).                             *)
(*                                                                         *)
(* One action is one unit of work (lib.js inRequestScope commits all of it *)
(* or nothing), one step of the pump between two units of work, or one     *)
(* step of the world outside: the gateway, the clock, a crash.             *)
(*                                                                         *)
(* Time: a job that waits for next_attempt_at can become due at any        *)
(* moment, so Claim is not guarded by it; a lease expires by a step.       *)
(***************************************************************************)
EXTENDS Integers, FiniteSets, Functions

CONSTANTS
  Jobs,          \* provider operations a behaviour may queue
  Accounts,      \* accounts and wallets that money leaves from
  Capability,    \* Capability[j]: what the job asks of the provider
  Source,        \* Source[j]: the account or wallet a money job debits
  Amount,        \* Amount[j]: minor units a money job moves
  Opening,       \* Opening[a]: balance of an account before any job
  Budget         \* RETRY_DELAYS_MS.length: attempts before manual review

Money == {"payments.transfer", "custody.transfer"}
Provisioned == {"cards.issuing", "accounts.receiving_details", "custody.wallet"}
Capabilities == Money \cup Provisioned \cup {"identity.verification"}
MoneyJobs == {j \in Jobs : Capability[j] \in Money}

ASSUME ConstantsAssumption ==
  /\ IsFiniteSet(Jobs)
  /\ Budget \in Nat \ {0}
  /\ Capability \in [Jobs -> Capabilities]
  /\ Source \in [MoneyJobs -> Accounts]
  /\ Amount \in [MoneyJobs -> Nat \ {0}]
  /\ Opening \in [Accounts -> Nat]

VARIABLES
  status, phase, attempts, token, expired, funds, tried, \* providerOutbox, providerAttempts
  cases,         \* reconciliationCases, one cell per job
  resource, review, \* the resource row: its status, reconciliation_required
  held, paid,    \* the job's share of clearing:* and of external:settled:*
  balance,       \* ledger balance of the accounts
  evidence,      \* custody jobs whose wallet.send_requested event is retained
  worker,        \* the attempt the pump has in hand, in memory only
  net,           \* requests on their way to the gateway
  truth,         \* what the provider did for the job
  instructions   \* how often the provider acted on a submission of the job

jobVars == <<status, phase, attempts, token, expired, funds, tried>>
bookVars == <<cases, resource, review, held, paid, balance, evidence>>
worldVars == <<net, truth, instructions>>
vars == <<jobVars, bookVars, worker, worldVars>>

-----------------------------------------------------------------------------
(* Values *)

OnlySuccessIsFinal == {"succeeded", "manual_review"}   \* mutant of TERMINAL
TERMINAL == {"succeeded", "failed", "manual_review"}
Statuses == {"none", "pending", "in_flight", "retrying", "pending_provider",
             "ambiguous"} \cup TERMINAL
Phases == {"submit", "reconcile"}
Outcomes == {"succeeded", "pending", "retry", "ambiguous", "failed"}

(* funds_state: "not_sent" stands for rejected_before_submission too, and  *)
(* "unknown" for submitted too: the code treats each pair alike.           *)
Funds == {"none", "unknown", "settled", "not_sent", "returned"}
RefundsUnlessSettled == {"not_sent", "returned", "unknown"}   \* mutant
SAFE_REFUND_STATES == {"not_sent", "returned"}
Truths == {"unseen", "submitted", "settled", "returned", "refused"}

AttemptStatuses == {"none", "in_flight", "succeeded", "pending", "retrying",
                    "ambiguous", "failed"}
Resources == {"none", "waiting", "funds_received", "submitted", "confirming",
              "settled", "active", "compliance_review", "completed", "failed"}

Results == [outcome : Outcomes, funds : Funds]
NoResult == [outcome |-> "ambiguous", funds |-> "none"]

Requests == [job : Jobs, token : 1..Budget, phase : Phases]

Idle == [stage |-> "idle"]
Workers ==
  {Idle}
  \cup [stage : {"claimed", "waiting"}, req : Requests]
  \cup [stage : {"answered"}, req : Requests, result : Results]

TypeOK ==
  /\ status \in [Jobs -> Statuses]
  /\ phase \in [Jobs -> Phases]
  /\ attempts \in [Jobs -> 0..Budget]
  /\ token \in [Jobs -> 0..Budget]
  /\ expired \in SUBSET Jobs
  /\ funds \in [Jobs -> Funds]
  /\ tried \in [Jobs -> [1..Budget -> AttemptStatuses]]
  /\ cases \in [Jobs -> {"none", "open", "resolved"}]
  /\ resource \in [Jobs -> Resources]
  /\ review \in [Jobs -> BOOLEAN]
  /\ held \in [MoneyJobs -> Int]
  /\ paid \in [MoneyJobs -> Int]
  /\ balance \in [Accounts -> Int]
  /\ evidence \in SUBSET MoneyJobs
  /\ worker \in Workers
  /\ net \in SUBSET Requests
  /\ truth \in [Jobs -> Truths]
  /\ instructions \in [Jobs -> Nat]

-----------------------------------------------------------------------------
(* Commands that queue provider work *)

Init ==
  /\ status = [j \in Jobs |-> "none"]
  /\ phase = [j \in Jobs |-> "submit"]
  /\ attempts = [j \in Jobs |-> 0]
  /\ token = [j \in Jobs |-> 0]
  /\ expired = {}
  /\ funds = [j \in Jobs |-> "none"]
  /\ tried = [j \in Jobs |-> [n \in 1..Budget |-> "none"]]
  /\ cases = [j \in Jobs |-> "none"]
  /\ resource = [j \in Jobs |-> "none"]
  /\ review = [j \in Jobs |-> FALSE]
  /\ held = [j \in MoneyJobs |-> 0]
  /\ paid = [j \in MoneyJobs |-> 0]
  /\ balance = Opening
  /\ evidence = {}
  /\ worker = Idle
  /\ net = {}
  /\ truth = [j \in Jobs |-> "unseen"]
  /\ instructions = [j \in Jobs |-> 0]

QueueProviderOperation(j) ==
  /\ status[j] = "none"
  /\ status' = [status EXCEPT ![j] = "pending"]
  /\ UNCHANGED <<phase, attempts, token, expired, funds, tried, cases, paid,
                 worker, worldVars>>

CoversAlways(j) == TRUE      \* mutant: no balance check
Covers(j) == balance[Source[j]] >= Amount[j]

(* POST /v2/transfers, POST /v2/wallets/:id/send and an approval that      *)
(* releases a wallet send: the amount moves from the account to a clearing *)
(* account in the command that queues the job.                             *)
ReserveAndQueue(j) ==
  /\ j \in MoneyJobs
  /\ Covers(j)
  /\ balance' = [balance EXCEPT ![Source[j]] = @ - Amount[j]]
  /\ held' = [held EXCEPT ![j] = @ + Amount[j]]
  /\ resource' = [resource EXCEPT ![j] = "funds_received"]
  /\ evidence' = IF Capability[j] = "custody.transfer"
                 THEN evidence \cup {j} ELSE evidence
  /\ UNCHANGED review
  /\ QueueProviderOperation(j)

(* Card, receiving-detail, wallet and application commands: sandbox        *)
(* artifacts are stripped and the resource waits for the provider.         *)
CreateAndQueue(j) ==
  /\ j \in Jobs \ MoneyJobs
  /\ resource' = [resource EXCEPT ![j] =
       IF Capability[j] \in Provisioned THEN "waiting" ELSE "submitted"]
  /\ UNCHANGED <<review, held, balance, evidence>>
  /\ QueueProviderOperation(j)

(* Any other command of the tenant: it emits events, and its commit trims  *)
(* the tenant's event log to EVENT_RETENTION_PER_TENANT.                   *)
TenantActivity ==
  /\ evidence # {}
  /\ \E kept \in SUBSET evidence : evidence' = kept
  /\ UNCHANGED <<jobVars, cases, resource, review, held, paid, balance, worker,
                 worldVars>>

-----------------------------------------------------------------------------
(* The pump: claim, send, finish *)

(* mutant: a lease that expired is never taken over *)
DueUnlessInFlight(j) == status[j] \notin TERMINAL \cup {"none", "in_flight"}

Due(j) ==
  /\ status[j] \notin TERMINAL \cup {"none"}
  /\ status[j] = "in_flight" => token[j] = 0 \/ j \in expired

(* An expired in-flight lease: the previous attempt may have reached the   *)
(* provider, so the job goes to reconciliation with an open case.          *)
LeaseLost(j) == status[j] = "in_flight"

TriedAtClaim(j) ==
  IF LeaseLost(j) /\ tried[j][attempts[j]] = "in_flight"
  THEN [tried[j] EXCEPT ![attempts[j]] = "ambiguous"] ELSE tried[j]

PhaseKept(j) == phase[j]     \* mutant: the job is submitted again
PhaseAtClaim(j) == IF LeaseLost(j) THEN "reconcile" ELSE phase[j]

BudgetPlusOne(j) == attempts[j] <= Budget    \* mutant: off by one
BudgetLeft(j) == attempts[j] < Budget

Claim(j) ==
  LET n == attempts[j] + 1 IN
  /\ worker = Idle
  /\ Due(j)
  /\ BudgetLeft(j)
  /\ phase' = [phase EXCEPT ![j] = PhaseAtClaim(j)]
  /\ cases' = IF LeaseLost(j) THEN [cases EXCEPT ![j] = "open"] ELSE cases
  /\ status' = [status EXCEPT ![j] = "in_flight"]
  /\ token' = [token EXCEPT ![j] = n]
  /\ expired' = expired \ {j}
  /\ attempts' = [attempts EXCEPT ![j] = n]
  /\ tried' = [tried EXCEPT ![j] = [TriedAtClaim(j) EXCEPT ![n] = "in_flight"]]
  /\ worker' = [stage |-> "claimed",
                req |-> [job |-> j, token |-> n, phase |-> PhaseAtClaim(j)]]
  /\ UNCHANGED <<funds, resource, review, held, paid, balance, evidence,
                 worldVars>>

(* The retry budget is exhausted: manual review, with an open case. *)
ClaimExhausted(j) ==
  /\ worker = Idle
  /\ Due(j)
  /\ ~BudgetLeft(j)
  /\ phase' = [phase EXCEPT ![j] = PhaseAtClaim(j)]
  /\ tried' = [tried EXCEPT ![j] = TriedAtClaim(j)]
  /\ status' = [status EXCEPT ![j] = "manual_review"]
  /\ token' = [token EXCEPT ![j] = 0]
  /\ expired' = expired \ {j}
  /\ cases' = [cases EXCEPT ![j] = "open"]
  /\ UNCHANGED <<attempts, funds, resource, review, held, paid, balance,
                 evidence, worker, worldVars>>

(* The claimed attempt leaves the process, outside any unit of work. *)
Send ==
  /\ worker.stage = "claimed"
  /\ net' = net \cup {worker.req}
  /\ worker' = [worker EXCEPT !.stage = "waiting"]
  /\ UNCHANGED <<jobVars, bookVars, truth, instructions>>

Answered(result) ==
  worker' = [stage |-> "answered", req |-> worker.req, result |-> result]

(* The sealed payload cannot be opened (its key was retired): nothing is   *)
(* sent and the transport reports a retry with funds_state "not_sent".     *)
PayloadUnreadable ==
  /\ worker.stage = "claimed"
  /\ Answered([outcome |-> "retry", funds |-> "not_sent"])
  /\ UNCHANGED <<jobVars, bookVars, worldVars>>

(* Network error, timeout, redirect or malformed body. *)
TransportAmbiguous ==
  /\ worker.stage = "waiting"
  /\ Answered(NoResult)
  /\ UNCHANGED <<jobVars, bookVars, worldVars>>

Unchecked(j, r, complete) == r      \* mutant: the contract is not enforced

(* enforceProviderResultContract: evidence that contradicts the outcome,   *)
(* or a success without the evidence its capability requires (a card       *)
(* reference, an instrument, an address, a decision), becomes ambiguous.   *)
Checked(j, r, complete) ==
  LET contradictory ==
        IF Capability[j] \in Money
        THEN \/ r.outcome = "succeeded" /\ r.funds # "settled"
             \/ r.outcome \in {"failed", "pending"} /\ r.funds = "settled"
        ELSE r.outcome = "succeeded" /\ ~complete
  IN IF contradictory THEN [r EXCEPT !.outcome = "ambiguous"] ELSE r

(* What a handler asks for: the resource's status and                      *)
(* reconciliation_required, whether it opens a case, and its posting.      *)
Effect(state, flag, case, posting) ==
  [state |-> state, flag |-> flag, case |-> case, posting |-> posting]

(* A failure whose funds position is not proven is never refunded. *)
FailedAnyway == Effect("failed", FALSE, TRUE, "none")     \* mutant
FundsUnproven == Effect("confirming", TRUE, TRUE, "none")

TransferEffect(j, r) ==
  CASE r.outcome = "pending" ->
         Effect(IF resource[j] = "funds_received" THEN "submitted"
                ELSE resource[j], review[j], FALSE, "none")
    [] r.outcome = "ambiguous" -> Effect("confirming", TRUE, FALSE, "none")
    [] r.outcome = "succeeded" -> Effect("settled", FALSE, FALSE, "settle")
    [] r.outcome = "failed" /\ r.funds \in SAFE_REFUND_STATES ->
         Effect("failed", FALSE, FALSE, "refund")
    [] OTHER -> FundsUnproven

(* A custody send has no row of its own: its state is the last             *)
(* wallet.send_* event. Without the retained request event the handler     *)
(* only opens a case.                                                      *)
CustodyEffect(j, r) ==
  CASE j \notin evidence -> Effect(resource[j], review[j], TRUE, "none")
    [] j \in evidence /\ r.outcome = "pending" ->
         Effect("submitted", review[j], FALSE, "none")
    [] j \in evidence /\ r.outcome = "succeeded" ->
         Effect("settled", review[j], FALSE, "settle")
    [] j \in evidence /\ r.outcome = "failed" /\ r.funds \in SAFE_REFUND_STATES ->
         Effect("failed", review[j], FALSE, "refund")
    [] OTHER -> Effect("confirming", review[j], TRUE, "none")

ProvisioningEffect(j, r) ==
  CASE r.outcome \in {"pending", "ambiguous"} ->
         Effect("waiting", r.outcome = "ambiguous", FALSE, "none")
    [] r.outcome = "failed" -> Effect("failed", FALSE, FALSE, "none")
    [] OTHER -> Effect("active", FALSE, FALSE, "none")

IdentityEffect(j, r) ==
  CASE r.outcome \in {"pending", "ambiguous"} ->
         Effect("compliance_review", r.outcome = "ambiguous", FALSE, "none")
    [] r.outcome = "failed" -> Effect("compliance_review", TRUE, TRUE, "none")
    [] OTHER -> Effect("completed", FALSE, FALSE, "none")

(* invokeHandler: every outcome but a retry reaches its handler. *)
HandlerEffect(j, r) ==
  CASE r.outcome = "retry" -> Effect(resource[j], review[j], FALSE, "none")
    [] r.outcome # "retry" /\ Capability[j] = "payments.transfer" -> TransferEffect(j, r)
    [] r.outcome # "retry" /\ Capability[j] = "custody.transfer" -> CustodyEffect(j, r)
    [] r.outcome # "retry" /\ Capability[j] \in Provisioned -> ProvisioningEffect(j, r)
    [] OTHER -> IdentityEffect(j, r)

(* The job's status and phase after an outcome. *)
StatusAfter(r) ==
  CASE r.outcome = "pending" -> "pending_provider"
    [] r.outcome = "retry" -> "retrying"
    [] OTHER -> r.outcome

PhaseAfter(j, r) ==
  IF r.outcome \in {"pending", "ambiguous"} THEN "reconcile" ELSE phase[j]

AttemptAfter(r) == IF r.outcome = "retry" THEN "retrying" ELSE r.outcome

(* openCase by finish or by the handler. *)
FailureWithoutFunds(j, r) ==
  /\ r.outcome = "failed" /\ r.funds = "none"
  /\ Capability[j] = "payments.transfer"
OpensOnAmbiguity(j, r) == r.outcome = "ambiguous"       \* mutant
OpensOnFailure(j, r) ==                                 \* mutant
  FailureWithoutFunds(j, r) \/ HandlerEffect(j, r).case
Opens(j, r) ==
  OpensOnAmbiguity(j, r) \/ FailureWithoutFunds(j, r) \/ HandlerEffect(j, r).case

(* A success then resolves whatever is open, the case its own handler      *)
(* opened included.                                                        *)
CaseAfter(j, r) ==
  LET open == Opens(j, r) \/ cases[j] = "open"
  IN CASE open /\ r.outcome = "succeeded" -> "resolved"
       [] open /\ r.outcome # "succeeded" -> "open"
       [] OTHER -> cases[j]

Post(j, posting) ==
  CASE posting = "settle" ->
         /\ held' = [held EXCEPT ![j] = @ - Amount[j]]
         /\ paid' = [paid EXCEPT ![j] = @ + Amount[j]]
         /\ UNCHANGED balance
    [] posting = "refund" ->
         /\ held' = [held EXCEPT ![j] = @ - Amount[j]]
         /\ balance' = [balance EXCEPT ![Source[j]] = @ + Amount[j]]
         /\ UNCHANGED paid
    [] OTHER -> UNCHANGED <<held, paid, balance>>

(* finish: one unit of work records the outcome, runs the handler and      *)
(* settles the cases; only the holder of the job's lease may do it (an     *)
(* answer whose lease expired but was not taken over is still accepted).   *)
Finish ==
  /\ worker.stage = "answered"
  /\ LET j == worker.req.job
         r == worker.result
         effect == HandlerEffect(j, r)
     IN /\ token[j] = worker.req.token
        /\ tried' = [tried EXCEPT ![j][worker.req.token] = AttemptAfter(r)]
        /\ funds' = IF r.funds # "none" THEN [funds EXCEPT ![j] = r.funds] ELSE funds
        /\ token' = [token EXCEPT ![j] = 0]
        /\ expired' = expired \ {j}
        /\ status' = [status EXCEPT ![j] = StatusAfter(r)]
        /\ phase' = [phase EXCEPT ![j] = PhaseAfter(j, r)]
        /\ cases' = [cases EXCEPT ![j] = CaseAfter(j, r)]
        /\ resource' = [resource EXCEPT ![j] = effect.state]
        /\ review' = [review EXCEPT ![j] = effect.flag]
        /\ Post(j, effect.posting)
  /\ worker' = Idle
  /\ UNCHANGED <<attempts, evidence, worldVars>>

-----------------------------------------------------------------------------
(* The world: clock, process and provider *)

LeaseExpires(j) ==
  /\ status[j] = "in_flight" /\ token[j] # 0 /\ j \notin expired
  /\ expired' = expired \cup {j}
  /\ UNCHANGED <<status, phase, attempts, token, funds, tried, bookVars, worker,
                 worldVars>>

(* The process dies, or finish throws and rolls back: the attempt in hand  *)
(* is forgotten and the durable lease stays.                               *)
Abandon ==
  /\ worker # Idle
  /\ worker' = Idle
  /\ UNCHANGED <<jobVars, bookVars, worldVars>>

(* What the gateway may say when the provider's state is t: anything about *)
(* the outcome, but a definite funds_state only when it is true.           *)
Truthful(j, t, r, complete) ==
  /\ r.funds = "settled" => t = "settled"
  /\ r.funds = "not_sent" => t = "refused"
  /\ r.funds = "returned" => t = "returned"
  /\ Capability[j] \notin Money =>
       /\ r.funds = "none"
       /\ r.outcome = "succeeded" /\ complete => t = "settled"

(* The provider handles a request. A submission it has not refused before  *)
(* makes it act; it counts every action, so nothing here relies on the     *)
(* provider deduplicating job_id. It may also refuse for good, or leave    *)
(* the request alone (lost, or rate limited: the only answer to a request  *)
(* it left alone that keeps the phase is a retry). The answer reaches the  *)
(* pump if it still waits for it, or is lost.                              *)
ProviderActs(m) ==
  /\ m.phase = "submit" /\ truth[m.job] # "refused"
  /\ truth' = [truth EXCEPT ![m.job] = "submitted"]
  /\ instructions' = [instructions EXCEPT ![m.job] = @ + 1]

ProviderRefuses(m) ==
  /\ truth[m.job] = "unseen"
  /\ truth' = [truth EXCEPT ![m.job] = "refused"]
  /\ UNCHANGED instructions

ProviderHandles(m) ==
  /\ net' = net \ {m}
  /\ \/ ProviderActs(m)
     \/ ProviderRefuses(m)
     \/ UNCHANGED <<truth, instructions>>
  /\ \/ UNCHANGED worker
     \/ /\ worker.stage = "waiting" /\ worker.req = m
        /\ \E r \in Results, complete \in BOOLEAN :
             /\ Truthful(m.job, truth'[m.job], r, complete)
             /\ r.outcome = "retry" => UNCHANGED <<truth, instructions>>
             /\ Answered(Checked(m.job, r, complete))
  /\ UNCHANGED <<jobVars, bookVars>>

(* The provider reaches a final state by itself. *)
ProviderConcludes(j) ==
  /\ truth[j] = "submitted"
  /\ \E t \in {"settled", "returned"} : truth' = [truth EXCEPT ![j] = t]
  /\ UNCHANGED <<jobVars, bookVars, worker, net, instructions>>

-----------------------------------------------------------------------------

JobStep(j) ==
  \/ ReserveAndQueue(j) \/ CreateAndQueue(j)
  \/ Claim(j) \/ ClaimExhausted(j)
  \/ LeaseExpires(j) \/ ProviderConcludes(j)

PumpStep ==
  Send \/ PayloadUnreadable \/ TransportAmbiguous \/ Finish \/ Abandon

Next ==
  \/ \E j \in Jobs : JobStep(j)
  \/ PumpStep
  \/ \E m \in net : ProviderHandles(m)
  \/ TenantActivity

Spec == Init /\ [][Next]_vars

(* The pump's timer keeps draining, a request has a timeout, finish is run *)
(* on the answer, and time passes. Nothing is assumed of the provider, of  *)
(* the network or of crashes.                                              *)
Fairness ==
  /\ \A j \in Jobs : /\ WF_vars(Claim(j) \/ ClaimExhausted(j))
                     /\ WF_vars(LeaseExpires(j))
  /\ WF_vars(Send \/ PayloadUnreadable)
  /\ WF_vars(TransportAmbiguous)
  /\ WF_vars(Finish)

FairSpec == Spec /\ Fairness
-----------------------------------------------------------------------------
(* Properties *)

(* The books agree with the provider (production-provider-outcomes.js): a  *)
(* reserved amount is declared settled only if the provider settled it, is *)
(* given back only if the provider refused or returned it, and is always   *)
(* in exactly one place, whatever is lost, late or repeated.               *)
Refunded(j) == status[j] # "none" /\ held[j] = 0 /\ paid[j] = 0

BooksMatchProvider ==
  \A j \in MoneyJobs :
    /\ <<held[j], paid[j]>> \in {<<0, 0>>, <<Amount[j], 0>>, <<0, Amount[j]>>}
    /\ paid[j] > 0 => truth[j] = "settled"
    /\ Refunded(j) => truth[j] \in {"refused", "returned"}

(* The provider is never made to act twice for one job, even one that does *)
(* not deduplicate job_id: a submission is repeated only after answers     *)
(* that say nothing was done ("moves to reconciliation instead of blindly  *)
(* resubmitting money", provider-outbox.js:6-7).                           *)
AtMostOneInstruction == \A j \in Jobs : instructions[j] <= 1

(* An operation whose effect is unknown, or that ran out of attempts, has  *)
(* an open reconciliation case (openCase in claim and finish).             *)
UncertainHasCase ==
  \A j \in Jobs :
    status[j] \in {"ambiguous", "manual_review"} => cases[j] = "open"

(* The outbox never forgets reserved transfer money: once a transfer's job *)
(* is terminal, its amount has left the clearing account or a              *)
(* reconciliation case is open for it.                                     *)
TransferMoneyAccountedFor ==
  \A j \in MoneyJobs :
    /\ Capability[j] = "payments.transfer"
    /\ status[j] \in TERMINAL
    /\ held[j] > 0
    => cases[j] = "open"

(* A transfer says settled exactly when its money was paid out and failed  *)
(* exactly when it was refunded, and reconciliation_required is cleared by *)
(* both.                                                                   *)
TransferStatusMatchesBooks ==
  \A j \in MoneyJobs :
    Capability[j] = "payments.transfer" =>
      /\ resource[j] = "settled" <=> paid[j] > 0
      /\ resource[j] = "failed" <=> Refunded(j)
      /\ resource[j] \in {"settled", "failed"} => ~review[j]

(* A card, instrument or wallet is active, and an application decided,     *)
(* only if the provider really completed the operation: no answer that     *)
(* lacks its evidence, no timeout and no integration failure gets there.   *)
ProvisionedOnlyByProvider ==
  \A j \in Jobs : resource[j] \in {"active", "completed"} => truth[j] = "settled"

(* No money is created or lost: an account's balance, what is reserved     *)
(* from it and what was paid out of it always add up to what it opened     *)
(* with, and the balance together with everything the provider holds or    *)
(* moved never exceeds it.                                                 *)
From(a) == {j \in MoneyJobs : Source[j] = a}
WithProvider(a) == {j \in From(a) : truth[j] \in {"submitted", "settled"}}

NoCreatedMoney ==
  \A a \in Accounts :
    /\ balance[a] >= 0
    /\ balance[a] + SumFunctionOnSet([j \in MoneyJobs |-> held[j] + paid[j]], From(a))
         = Opening[a]
    /\ balance[a] + SumFunctionOnSet(Amount, WithProvider(a)) <= Opening[a]

(* Neither money nor a card, an account or a wallet comes from nothing:    *)
(* what balances, reservations and payouts add up to was there before, and *)
(* what is active the provider made (server.js:794, the outcome handlers). *)
NothingFromNothing == NoCreatedMoney /\ ProvisionedOnlyByProvider

(* Every queued operation reaches a terminal status, however often the     *)
(* process dies and whatever the provider answers: claims are durable and  *)
(* their number is bounded.                                                *)
EventuallyTerminal ==
  \A j \in Jobs : status[j] # "none" ~> status[j] \in TERMINAL

(* The outbox implements the abstract money movement.                      *)
BooksOf(j) ==
  CASE status[j] = "none" -> "spendable"
    [] status[j] # "none" /\ paid[j] > 0 -> "settled"
    [] status[j] # "none" /\ paid[j] <= 0 /\ held[j] > 0 -> "reserved"
    [] OTHER -> "refunded"

Abstract == INSTANCE MoneyMovement WITH
  Moves <- MoneyJobs,
  books <- [j \in MoneyJobs |-> BooksOf(j)],
  outside <- [j \in MoneyJobs |-> truth[j]]

ImplementsMoneyMovement == Abstract!MoveSpec

(* Statements of the documentation that the code does not keep.            *)

(* docs/PROVIDER-GATEWAY.md, custody.transfer: on a final success          *)
(* "Blueballs then moves the reservation to external:settled:custody".     *)
CustodySuccessMovesReservation ==
  \A j \in MoneyJobs :
    Capability[j] = "custody.transfer" /\ status[j] = "succeeded" => paid[j] > 0

-----------------------------------------------------------------------------
(* The inductive invariant behind the safety properties. *)

(* The attempt in hand holds its job's lease: finish can only be refused   *)
(* to an attempt of another process.                                       *)
Holds(j) == worker # Idle /\ worker.req.job = j

WorkerHoldsLease ==
  worker # Idle =>
    LET j == worker.req.job IN
    /\ status[j] = "in_flight"
    /\ token[j] = worker.req.token
    /\ phase[j] = worker.req.phase

(* An answer in hand is supported by what the provider did. *)
AnswerSupported ==
  worker.stage = "answered" =>
    LET j == worker.req.job
        r == worker.result
    IN /\ r.outcome = "succeeded" => truth[j] = "settled"
       /\ r.outcome = "failed" /\ r.funds = "not_sent" => truth[j] = "refused"
       /\ r.outcome = "failed" /\ r.funds = "returned" => truth[j] = "returned"

(* Nothing that could reach the provider as a submission has been sent, or *)
(* everything that was sent was answered with a retry.                     *)
Unexposed(j) ==
  /\ phase[j] = "submit"
  /\ \/ status[j] \in {"none", "pending", "retrying"}
     \/ Holds(j) /\ worker.stage = "claimed"
     \/ Holds(j) /\ worker.stage = "answered" /\ worker.result.outcome = "retry"

Submissions(j) == {m \in net : m.job = j /\ m.phase = "submit"}

SubmittedOnce(j) ==
  /\ instructions[j] <= 1
  /\ instructions[j] = 0 => truth[j] \in {"unseen", "refused"}
  /\ Unexposed(j) => Submissions(j) = {} /\ instructions[j] = 0
  /\ Submissions(j) # {} => instructions[j] = 0
  /\ \A m1, m2 \in Submissions(j) : m1 = m2
  /\ status[j] \in {"pending_provider", "ambiguous"} => phase[j] = "reconcile"

(* Where a money job's amount is, by the status of the job. *)
Reserved(j) == held[j] = Amount[j] /\ paid[j] = 0
PaidOut(j) == held[j] = 0 /\ paid[j] = Amount[j] /\ truth[j] = "settled"
GivenBack(j) == held[j] = 0 /\ paid[j] = 0 /\ truth[j] \in {"refused", "returned"}

MoneyPlaced(j) ==
  /\ status[j] = "none" => held[j] = 0 /\ paid[j] = 0
  /\ status[j] = "succeeded" =>
       PaidOut(j) \/ (Reserved(j) /\ Capability[j] = "custody.transfer")
  /\ status[j] = "failed" => GivenBack(j) \/ Reserved(j)
  /\ status[j] \notin {"none", "succeeded", "failed"} => Reserved(j)

TransferTold(j) ==
  Capability[j] = "payments.transfer" =>
    /\ status[j] = "none" => resource[j] = "none"
    /\ PaidOut(j) /\ status[j] # "none" => resource[j] = "settled" /\ ~review[j]
    /\ GivenBack(j) /\ status[j] # "none" => resource[j] = "failed" /\ ~review[j]
    /\ Reserved(j) => resource[j] \in {"funds_received", "submitted", "confirming"}
    /\ Reserved(j) /\ status[j] = "failed" => cases[j] = "open"

Inductive ==
  /\ WorkerHoldsLease
  /\ AnswerSupported
  /\ \A j \in Jobs : SubmittedOnce(j)
  /\ \A j \in MoneyJobs : MoneyPlaced(j) /\ TransferTold(j)
  /\ UncertainHasCase
=============================================================================
