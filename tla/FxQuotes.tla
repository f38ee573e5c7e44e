------------------------------ MODULE FxQuotes ------------------------------
(***************************************************************************)
(* Firm quotes of the FX node: IntegratedQuoteCoordinator                  *)
(* (apps/fx-node/src/integrated-quote-coordinator.js), the planner and     *)
(* reservePlan (packages/fx-liquidity), the reference liquidity book, the  *)
(* principal risk book (RiskBook) and the release of a trade               *)
(* (reference-trade-coordinator.js). Each keeps a database of its own, so  *)
(* a call over the legs of a quote is many transactions.                   *)
(*                                                                         *)
(* One node serves all requests. reservePlan and releaseTrade await every  *)
(* leg, so other requests run between their steps. markSubmitted, confirm, *)
(* fail and expire do not await: nothing comes between their steps but a   *)
(* crash, and each is one action whose effect reaches all the legs or,     *)
(* when the node dies or a leg refuses, the first of them.                 *)
(*                                                                         *)
(* Sources 1..N of one asset pair, the cheapest first. A private source is *)
(* one maker order of FxMarket: a route holds all of it or none. Whether a *)
(* source is online, authorised and in its validity window, and whether a  *)
(* quote has expired, is asked of the environment at each use.             *)
(***************************************************************************)
EXTENDS RiskBook

CONSTANTS
  N,           \* number of liquidity sources
  Private,     \* sources that are maker orders of the private market
  Principal,   \* the source that is the bank's principal
  Want,        \* Want[q]: exact output asked of the quote
  Cost,        \* what the bank charges for a unit of output
  In, Out,     \* the two assets
  Capacity     \* capacities a source is seeded with

Sources == 1..N
Books == Sources \ {Principal}   \* the sources with a capacity of their own

ASSUME QuoteAssumption ==
  /\ N \in Nat
  /\ Principal \in Sources
  /\ Private \subseteq Sources \ {Principal}
  /\ Want \in [Quotes -> Nat \ {0}]
  /\ Cost \in Nat \ {0}
  /\ In \in Assets /\ Out \in Assets /\ In # Out
  /\ Capacity \subseteq Nat \ {0}

VARIABLES
  qstate,      \* integrated_fx_quotes: state
  take,        \* take[q][s]: output of the quote's leg at s, 0 without a leg
  leg,         \* leg[q][s]: the reservation at s (that of Principal is risk[q])
  max, held,   \* max_output and reserved_output of a source
  gone,        \* private orders that were cancelled or blocked
  call,        \* call[q]: the asynchronous call on q, and the leg it is at
  chain,       \* what became of the execution of q
  disturbed    \* whether a call was cut short by a crash or a database error

bookVars == <<max, held, gone>>
vars == <<riskVars, qstate, take, leg, bookVars, call, chain, disturbed>>

Reference == Books \ Private
Idle == [step |-> "idle", at |-> 0]
QuoteStates == {"none", "RESERVED", "SUBMITTED", "CONFIRMED", "FAILED",
                "EXPIRED", "RELEASED"}
LegStates == {"none", "ACTIVE", "SUBMITTED", "CONSUMED", "RELEASED", "FAILED"}
Steps == {"idle", "reserve", "insert", "undo", "unwind", "release", "mark"}

TypeOK ==
  /\ RiskTypeOK
  /\ qstate \in [Quotes -> QuoteStates]
  /\ take \in [Quotes -> [Sources -> Nat]]
  /\ leg \in [Quotes -> [Sources -> LegStates]]
  /\ max \in [Books -> Nat]
  /\ held \in [Books -> Int]
  /\ gone \in SUBSET Private
  /\ call \in [Quotes -> [step : Steps, at : 0..N + 1]]
  /\ chain \in [Quotes -> {"none", "pending", "settled", "reverted"}]
  /\ disturbed \in BOOLEAN

Init ==
  /\ RiskInit
  /\ qstate = [q \in Quotes |-> "none"]
  /\ take = [q \in Quotes |-> [s \in Sources |-> 0]]
  /\ leg = [q \in Quotes |-> [s \in Sources |-> "none"]]
  /\ max \in [Books -> Capacity]
  /\ held = [s \in Books |-> 0]
  /\ gone = {}
  /\ call = [q \in Quotes |-> Idle]
  /\ chain = [q \in Quotes |-> "none"]
  /\ disturbed = FALSE

-----------------------------------------------------------------------------
(* The legs of a quote *)

Legs(q) == {s \in Sources : take[q][s] > 0}
From(q, s) == {x \in Legs(q) : x >= s}

(* A call moves on to leg s, or is over. *)
Go(q, step, s) == call' = [call EXCEPT ![q] = [step |-> step, at |-> s]]
Return(q) == call' = [call EXCEPT ![q] = Idle]
Disturb == disturbed' = TRUE

(* The reservations of q in S whose state is in old become new; those that *)
(* were held are no longer.                                                *)
Hit(q, S, old) == {s \in S \cap Books : take[q][s] > 0 /\ leg[q][s] \in old}
Turn(q, S, old, new) ==
  leg' = [leg EXCEPT ![q] =
            [s \in Sources |-> IF s \in Hit(q, S, old) THEN new ELSE leg[q][s]]]
GiveBack(q, S, old) ==
  held' = [s \in Books |->
             IF s \in Hit(q, S, old) THEN held[s] - take[q][s] ELSE held[s]]

(* release of the adapters: an active reservation is given back. That of   *)
(* the bank has no other live state.                                       *)
ReleaseLegs(q, S) ==
  /\ Turn(q, S, {"ACTIVE"}, "RELEASED")
  /\ GiveBack(q, S, {"ACTIVE"})
  /\ IF Principal \in S THEN ReleaseRisk(q) ELSE UNCHANGED riskVars
  /\ UNCHANGED <<max, gone>>

-----------------------------------------------------------------------------
(* reserveExactOutput *)

Deltas(n) == [a \in Assets |-> IF a = In THEN n * Cost ELSE IF a = Out THEN -n ELSE 0]

(* listSlices *)
Free(s) == IF s \in Private
           THEN IF s \in gone \/ held[s] > 0 THEN 0 ELSE max[s]
           ELSE max[s] - held[s]
Offered(q, listed, s) ==
  IF s \notin listed THEN 0
  ELSE IF s = Principal THEN IF WithinLimits(Deltas(Want[q])) THEN Want[q] ELSE 0
  ELSE IF Free(s) > 0 THEN Free(s) ELSE 0

(* planExactOutput: a source is used only when the cheaper ones give all   *)
(* they have; without enough of them there is no quote.                    *)
Total(amount) == MapThenSumSet(LAMBDA s : amount[s], Sources)
Planned(want, offer, plan) ==
  /\ \A s \in Sources : plan[s] <= offer[s]
  /\ \A s, x \in Sources : x < s /\ plan[s] > 0 => plan[x] = offer[x]
  /\ Total(plan) = want
  /\ \E s \in Sources : plan[s] > 0

ReserveStart(q) ==
  /\ qstate[q] = "none" /\ call[q] = Idle
  /\ Legs(q) = {}
  /\ \E listed \in SUBSET Sources, plan \in [Sources -> 0..Want[q]] :
       /\ Planned(Want[q], [s \in Sources |-> Offered(q, listed, s)], plan)
       /\ take' = [take EXCEPT ![q] = plan]
       /\ Go(q, "reserve", Min({s \in Sources : plan[s] > 0}))
  /\ UNCHANGED <<riskVars, qstate, leg, bookVars, chain, disturbed>>

NextLeg(q, s) ==
  IF From(q, s + 1) = {} THEN Go(q, "insert", N + 1)
  ELSE Go(q, "reserve", Min(From(q, s + 1)))

KeepEarlier(q, step, s) ==               \* mutant: earlier legs stay reserved
  IF step = "release" THEN Go(q, "mark", 0) ELSE Return(q)
(* Back to the leg before s, then to what the call does at its end. *)
PreviousLeg(q, step, s) ==
  LET before == {x \in Legs(q) : x < s} IN
  IF before # {} THEN Go(q, step, Max(before))
  ELSE IF step = "release" THEN Go(q, "mark", 0) ELSE Return(q)

(* reserve of the adapters looks at the capacity again. *)
AsPlanned(q, s) == TRUE                  \* mutant: the plan is trusted
StillFree(q, s) == Free(s) >= take[q][s]
HoldLeg(q, s) ==
  IF s = Principal
  THEN ReserveRisk(q, Deltas(take[q][s])) /\ UNCHANGED <<leg, bookVars>>
  ELSE /\ StillFree(q, s)
       /\ leg' = [leg EXCEPT ![q][s] = "ACTIVE"]
       /\ held' = [held EXCEPT ![s] = @ + take[q][s]]
       /\ UNCHANGED <<riskVars, max, gone>>

(* A leg is refused for its capacity, or for its price, validity or policy. *)
ReserveLeg(q) ==
  LET s == call[q].at IN
  /\ call[q].step = "reserve"
  /\ \/ HoldLeg(q, s) /\ NextLeg(q, s)
     \/ PreviousLeg(q, "undo", s) /\ UNCHANGED <<riskVars, leg, bookVars>>
  /\ UNCHANGED <<qstate, take, chain, disturbed>>

(* The quote is stored, or every leg is released again. *)
InsertQuote(q) ==
  /\ call[q].step = "insert"
  /\ \/ qstate' = [qstate EXCEPT ![q] = "RESERVED"] /\ Return(q)
     \/ PreviousLeg(q, "unwind", N + 1) /\ UNCHANGED qstate
  /\ UNCHANGED <<riskVars, take, leg, bookVars, chain, disturbed>>

(* One leg is released. An error is put on a list by reservePlan; it ends  *)
(* the other calls.                                                        *)
ReleaseLeg(q) ==
  LET s == call[q].at IN
  /\ call[q].step \in {"undo", "unwind", "release"}
  /\ \/ /\ ReleaseLegs(q, {s})
        /\ PreviousLeg(q, call[q].step, s)
        /\ UNCHANGED disturbed
     \/ /\ IF call[q].step = "undo" THEN PreviousLeg(q, "undo", s) ELSE Return(q)
        /\ Disturb
        /\ UNCHANGED <<riskVars, leg, bookVars>>
  /\ UNCHANGED <<qstate, take, chain>>

-----------------------------------------------------------------------------
(* releaseTrade *)

(* The state of the quote is read in the step that releases the last leg. *)
ReadThenAwait(q) ==                      \* mutant: an await after the check
  /\ qstate[q] = "RESERVED" /\ call[q] = Idle
  /\ Go(q, "release", Max(Legs(q)))
  /\ UNCHANGED <<riskVars, qstate, take, leg, bookVars, chain, disturbed>>
ReleaseTrade(q) ==
  /\ qstate[q] = "RESERVED" /\ call[q] = Idle
  /\ ReleaseLegs(q, {Max(Legs(q))})
  /\ PreviousLeg(q, "release", Max(Legs(q)))
  /\ UNCHANGED <<qstate, take, chain, disturbed>>

ReleaseMark(q) ==
  /\ call[q].step = "mark"
  /\ qstate' = [qstate EXCEPT ![q] = "RELEASED"]
  /\ Return(q)
  /\ UNCHANGED <<riskVars, take, leg, bookVars, chain, disturbed>>

-----------------------------------------------------------------------------
(* The private market: cancelOrderOffchain, blockOrderPolicy *)

NeverInFlight(s, l) == FALSE             \* mutant: in-flight orders are released
InFlight(s, l) == \E q \in Quotes : l[q][s] = "SUBMITTED"

(* Order s leaves the market, the legs being l: a route that was submitted *)
(* keeps it.                                                               *)
LeaveMarket(s, l) ==
  /\ gone' = gone \cup {s}
  /\ IF InFlight(s, l) THEN leg' = l /\ UNCHANGED held
     ELSE /\ leg' = [q \in Quotes |-> IF l[q][s] = "ACTIVE"
                       THEN [l[q] EXCEPT ![s] = "RELEASED"] ELSE l[q]]
          /\ held' = [held EXCEPT ![s] = 0]

WithdrawOrder(s) ==
  /\ s \notin gone
  /\ LeaveMarket(s, leg)
  /\ UNCHANGED <<riskVars, qstate, take, max, call, chain, disturbed>>

-----------------------------------------------------------------------------
(* markSubmitted, and the call of the execution adapter after it *)

NotValidated(q) == TRUE                  \* mutant: the legs are not looked at
Validated(q) ==
  /\ \A s \in Legs(q) \cap Books : leg[q][s] \in {"ACTIVE", "SUBMITTED"}
  /\ Principal \in Legs(q) => risk[q] = "ACTIVE"

Marked(q, S) ==
  [leg EXCEPT ![q] = [s \in Sources |->
     IF s \in S \cap Books /\ take[q][s] > 0 THEN "SUBMITTED" ELSE leg[q][s]]]

Submit(q) ==
  /\ qstate[q] = "RESERVED"
  /\ Validated(q)
  /\ qstate' = [qstate EXCEPT ![q] = "SUBMITTED"]
  /\ \/ /\ leg' = Marked(q, Sources)
        /\ chain' = [chain EXCEPT ![q] = "pending"]
        /\ UNCHANGED <<held, gone, disturbed>>
     \/ \E s \in Private \cap Legs(q) :  \* no longer authorised: blocked, and a throw
        /\ LeaveMarket(s, Marked(q, 1..s - 1))
        /\ UNCHANGED <<chain, disturbed>>
     \/ \E n \in 0..N :                  \* the node dies
        /\ leg' = Marked(q, 1..n)
        /\ Disturb
        /\ UNCHANGED <<chain, held, gone>>
  /\ UNCHANGED <<riskVars, take, max, call>>

(* The execution of a submitted quote settles or does not. *)
AdapterExecutes(q) ==
  /\ chain[q] = "pending"
  /\ \E x \in {"settled", "reverted"} : chain' = [chain EXCEPT ![q] = x]
  /\ UNCHANGED <<riskVars, qstate, take, leg, bookVars, call, disturbed>>

-----------------------------------------------------------------------------
(* confirm and fail, called with what the execution came to, as often as   *)
(* the caller likes                                                        *)

AcceptsConfirm(q, s) ==
  IF s = Principal THEN risk[q] = "SETTLED" \/ CanSettle(q)
  ELSE \/ leg[q][s] = "CONSUMED"
       \/ /\ leg[q][s] = "SUBMITTED"
          /\ held[s] >= take[q][s] /\ max[s] >= take[q][s]

ConsumeTwice == {"SUBMITTED", "CONSUMED"}   \* mutant: a repeated event counts
ConsumeFrom == {"SUBMITTED"}
ConsumeLegs(q, S) ==
  /\ Turn(q, S, ConsumeFrom, "CONSUMED")
  /\ GiveBack(q, S, ConsumeFrom)
  /\ max' = [s \in Books |->
       IF s \in Hit(q, S, ConsumeFrom) THEN max[s] - take[q][s] ELSE max[s]]
  /\ IF Principal \in S \cap Legs(q) THEN SettleRisk(q) ELSE UNCHANGED riskVars
  /\ UNCHANGED gone

(* The legs up to n are reached: all of them, or those before a leg that   *)
(* refuses, or those before the node dies.                                 *)
Confirm(q) ==
  /\ qstate[q] = "SUBMITTED"
  /\ chain[q] = "settled"
  /\ \E n \in 0..N :
       /\ \A s \in Legs(q) : s <= n => AcceptsConfirm(q, s)
       /\ ConsumeLegs(q, 1..n)
       /\ IF n = N
          THEN qstate' = [qstate EXCEPT ![q] = "CONFIRMED"] /\ UNCHANGED disturbed
          ELSE /\ UNCHANGED qstate
               /\ \/ /\ n + 1 \in Legs(q) /\ ~AcceptsConfirm(q, n + 1)
                     /\ UNCHANGED disturbed
                  \/ Disturb
  /\ UNCHANGED <<take, call, chain>>

(* The market fails a route only from SUBMITTED. *)
AcceptsFail(q, s) == s \in Private => leg[q][s] \in {"SUBMITTED", "FAILED"}

FailLegs(q, S) ==
  /\ Turn(q, S, {"ACTIVE", "SUBMITTED"}, "FAILED")
  /\ GiveBack(q, S, {"ACTIVE", "SUBMITTED"})
  /\ IF Principal \in S THEN ReleaseRisk(q) ELSE UNCHANGED riskVars
  /\ UNCHANGED <<max, gone>>

Fail(q) ==
  /\ qstate[q] = "SUBMITTED"
  /\ chain[q] \in {"none", "reverted"}
  /\ \E n \in 0..N :
       /\ \A s \in Legs(q) : s > n => AcceptsFail(q, s)
       /\ FailLegs(q, n + 1..N)
       /\ IF n = 0
          THEN qstate' = [qstate EXCEPT ![q] = "FAILED"] /\ UNCHANGED disturbed
          ELSE /\ UNCHANGED qstate
               /\ \/ n \in Legs(q) /\ ~AcceptsFail(q, n) /\ UNCHANGED disturbed
                  \/ Disturb
  /\ UNCHANGED <<take, call, chain>>

(* expire: the node runs it when it starts and when a scenario is applied, *)
(* for every quote that is reserved.                                       *)
Expire(q) ==
  /\ qstate[q] = "RESERVED"
  /\ \E n \in 0..N :
       /\ ReleaseLegs(q, n + 1..N)
       /\ IF n = 0
          THEN qstate' = [qstate EXCEPT ![q] = "EXPIRED"] /\ UNCHANGED disturbed
          ELSE UNCHANGED qstate /\ Disturb
  /\ UNCHANGED <<take, call, chain>>

-----------------------------------------------------------------------------
(* The rest of the world *)

(* upsertSlice gives a reference source new terms; what is reserved stays. *)
UpsertSlice(s) ==
  /\ \E m \in Capacity : max' = [max EXCEPT ![s] = m]
  /\ UNCHANGED <<riskVars, qstate, take, leg, held, gone, call, chain, disturbed>>

OperateRiskBook ==
  /\ Operate
  /\ UNCHANGED <<qstate, take, leg, bookVars, call, chain, disturbed>>

(* The node dies between the steps of the calls that await. *)
Crash ==
  /\ \E q \in Quotes : call[q] # Idle
  /\ call' = [q \in Quotes |-> Idle]
  /\ Disturb
  /\ UNCHANGED <<riskVars, qstate, take, leg, bookVars, chain>>
-----------------------------------------------------------------------------

Asynchronous(q) ==
  \/ ReserveStart(q) \/ ReserveLeg(q) \/ InsertQuote(q)
  \/ ReleaseTrade(q) \/ ReleaseLeg(q) \/ ReleaseMark(q)

Synchronous(q) == Submit(q) \/ Confirm(q) \/ Fail(q) \/ Expire(q)

Next ==
  \/ \E q \in Quotes :
       Asynchronous(q) \/ Synchronous(q) \/ AdapterExecutes(q)
  \/ \E s \in Private : WithdrawOrder(s)
  \/ \E s \in Reference : UpsertSlice(s)
  \/ OperateRiskBook
  \/ Crash

Spec == Init /\ [][Next]_vars
-----------------------------------------------------------------------------
(* Properties *)

Live(q, s) ==
  IF s = Principal THEN risk[q] = "ACTIVE" ELSE leg[q][s] \in {"ACTIVE", "SUBMITTED"}
Spent(q, s) ==
  IF s = Principal THEN risk[q] = "SETTLED" ELSE leg[q][s] = "CONSUMED"

(* The reserved_output of a source is the output of the legs that are      *)
(* reserved there: no release, failure or confirmation, repeated or cut    *)
(* short, gives a quantity back twice or keeps it.                         *)
HeldIsReserved ==
  \A s \in Books :
    held[s] = SumFunctionOnSet([q \in Quotes |-> take[q][s]],
                               {q \in Quotes : Live(q, s)})

(* From the call of the execution adapter until its outcome is booked,     *)
(* every source of the quote holds its leg, or has booked it: a release, an *)
(* expiry or a cancelled order never frees liquidity that may be executed. *)
InFlightBacked ==
  \A q \in Quotes :
    qstate[q] = "SUBMITTED" /\ chain[q] \in {"pending", "settled"} =>
      \A s \in Legs(q) : Live(q, s) \/ Spent(q, s)

(* A quote that is confirmed was booked at every source; one that failed,  *)
(* expired or was released holds nothing and was booked nowhere.           *)
LegsFollowQuote ==
  \A q \in Quotes :
    /\ qstate[q] = "CONFIRMED" => \A s \in Legs(q) : Spent(q, s)
    /\ qstate[q] \in {"FAILED", "EXPIRED", "RELEASED"} =>
         \A s \in Legs(q) : ~Live(q, s) /\ ~Spent(q, s)

(* Unless a call was cut short, what is reserved belongs to a quote, and a *)
(* firm quote has all its legs but those whose maker withdrew.             *)
FirmOrGivenBack ==
  \A q \in Quotes : ~disturbed /\ call[q] = Idle =>
    /\ qstate[q] = "none" => \A s \in Legs(q) : ~Live(q, s)
    /\ qstate[q] = "RESERVED" => \A s \in Legs(q) : Live(q, s) \/ s \in gone

(* Nothing of a source is held but for a leg that is live, and nothing is  *)
(* left of a quote that was not given or not kept (reservePlan and the     *)
(* coordinator).                                                           *)
LegsAccountedFor == HeldIsReserved /\ FirmOrGivenBack

(* The bank's settled position stays within its hard limits, and a         *)
(* reservation that is accepted fits on top of all the others.             *)
ExposureBound == \A a \in Assets : Magnitude(settled[a]) <= limit[a]
NoExcessExposure ==
  [][\A q \in Quotes : risk[q] = "none" /\ risk'[q] = "ACTIVE" =>
       \A a \in {In, Out} : Magnitude(settled'[a] + ActiveReserved(a)') <= limit'[a]]_vars

(* A source reserves for a quote only what it has.                         *)
NoOverAllocation ==
  [][\A s \in Books : held'[s] > held[s] => held'[s] <= max'[s]]_vars

(* "validateReserved() verifies live capacity and policy immediately       *)
(* before submission" (spec/fx/ADAPTERS.md): a quote that is SUBMITTED     *)
(* passed it, so each of its sources took the submission.                  *)
SubmittedIsSubmitted ==
  \A q \in Quotes : qstate[q] = "SUBMITTED" /\ ~disturbed =>
    \A s \in Legs(q) : s \in Books => leg[q][s] # "RELEASED"
=============================================================================
