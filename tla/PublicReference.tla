--------------------------- MODULE PublicReference ---------------------------
(***************************************************************************)
(* The public reference trade of the FX node: the sources of the BRL to    *)
(* EUR corridor and the scenarios an operator may apply to them            *)
(* (apps/fx-node/src/public-reference-runtime.js), the trades made from    *)
(* them, and which requests need the operator's key (server.js). Prices    *)
(* are in TradePlanning, the coordinator's failures in FxQuotes, the       *)
(* market in FxMarket: here a source has a rank and an amount, and there   *)
(* is one signed order, the one that is seeded.                            *)
(***************************************************************************)
EXTENDS NodeClock, Integers, FiniteSets, FiniteSetsExt, Functions

CONSTANTS
  Desks, DeskSize,        \* the static sources and what each starts with
  NearlyEmpty,            \* what treasury_near_limit leaves the treasury
  OrderSize,
  PriceRank,              \* [Sources -> Nat]: cheaper first
  PerUnit,                \* input for a unit of output, as the bank's books see it
  RiskLimit, AtRiskLimit, \* hard limit of the bank, and what principal_limit sets
  Grant, TradeLife,       \* lifetimes of the authorization of a source, and of a trade
  PublicTrades, Orders    \* Orders: amounts a trade may be for

Sources == {"market", "bank"} \cup Desks
Scenarios == {"balanced", "lp_offline", "issuer_policy_blocked", "treasury_near_limit",
              "principal_limit", "reference_outage"}

(* A trade takes the order, the cheapest source, whole.                    *)
ASSUME PublicAssumption ==
  /\ PriceRank \in [Sources -> Nat]
  /\ \A s \in Sources \ {"market"} : PriceRank["market"] < PriceRank[s]
  /\ OrderSize \in Nat /\ Orders \subseteq Nat \ {0} /\ \A n \in Orders : n >= OrderSize

(* The corridor: three desks and the bank, whose books are in whole units. *)
ASSUME CorridorAssumption ==
  /\ IsFiniteSet(Desks) /\ IsFiniteSet(PublicTrades)
  /\ {"issuer", "lp", "treasury"} \subseteq Desks /\ {"market", "bank"} \cap Desks = {}
  /\ DeskSize \in [Desks -> Nat] /\ NearlyEmpty \in Nat
  /\ PerUnit \in Nat \ {0} /\ RiskLimit \in Nat /\ AtRiskLimit \in 0..RiskLimit
  /\ Grant \in [Sources -> Nat] /\ TradeLife \in Nat

VARIABLES
  desk,         \* reference_liquidity and its authorization: [max, online, until, revoked]
  order,        \* the order seeded last: [state, until]
  settled,      \* the bank's settled positions: [in, out], out as an amount paid
  bankUntil,    \* expiry of the bank's authorization; in memory
  feed,         \* reference pricing is available; in memory
  scenario,     \* in memory
  publicTrade   \* [state, take, got, until]: got names the legs still held

publicVars == <<desk, order, settled, bankUntil, feed, scenario, publicTrade>>

PublicTypeOK ==
  /\ feed \in BOOLEAN /\ scenario \in Scenarios /\ bankUntil \in Nat
  /\ desk \in [Desks -> [max : Nat, online : BOOLEAN, until : Nat, revoked : BOOLEAN]]
  /\ order \in [state : {"none", "OPEN", "FILLED", "POLICY_BLOCKED"}, until : Nat]
  /\ settled \in [in : Nat, out : Nat]
  /\ publicTrade \in [PublicTrades ->
       [state : {"none", "RESERVED", "SUBMITTED", "HALF_SUBMITTED", "CONFIRMED", "FAILED",
                 "RELEASED", "EXPIRED", "lost"},
        take : [Sources -> Nat], got : SUBSET Sources, until : Nat]]

-----------------------------------------------------------------------------
(* What is offered now. A source's reservations are the legs still held.   *)
HeldOf(s) ==
  SumFunctionOnSet([t \in PublicTrades |-> publicTrade[t].take[s]],
                   {t \in PublicTrades : s \in publicTrade[t].got})

OrderStands == order.state = "OPEN" /\ order.until > now
OpenDepth == IF OrderStands /\ HeldOf("market") = 0 THEN OrderSize ELSE 0

Granted(d) == desk[d].until > now /\ ~desk[d].revoked
Spare(d) == IF desk[d].max > HeldOf(d) THEN desk[d].max - HeldOf(d) ELSE 0

Projected(side) == settled[side] + HeldOf("bank") * (IF side = "in" THEN PerUnit ELSE 1)
Headroom(side) == IF RiskLimit > Projected(side) THEN RiskLimit - Projected(side) ELSE 0

(* Its reference has three sources that agree and are as old as the        *)
(* question: only the scenario makes it unavailable.                       *)
Priced == feed

(* candidateSlices: the bank offers the size asked for or nothing.         *)
Offered(s, n) ==
  CASE s = "market" -> OpenDepth
    [] s = "bank" -> IF /\ Priced /\ bankUntil > now
                        /\ n * PerUnit <= Headroom("in") /\ n <= Headroom("out")
                     THEN n ELSE 0
    [] OTHER -> IF desk[s].online /\ Granted(s) THEN Spare(s) ELSE 0

(* sourceStatus: what anybody is told of a source.                         *)
AsConfigured(d) == desk[d].online /\ Spare(d) > 0   \* mutant: the policy is not asked again
DeskEligible(d) == desk[d].online /\ Granted(d) /\ Spare(d) > 0
Told(s) ==
  CASE s = "market" -> [eligible |-> OpenDepth > 0, amount |-> OpenDepth]
    [] s = "bank" -> [eligible |-> Priced /\ bankUntil > now /\ Headroom("in") > 0,
                      amount |-> Headroom("out")]
    [] OTHER -> [eligible |-> DeskEligible(s), amount |-> Spare(s)]

-----------------------------------------------------------------------------
(* restoreStaticSources: new authorizations and terms. What is reserved of *)
(* a slice stays reserved.                                                 *)
Restored(size) ==
  [d \in Desks |-> [max |-> size[d], online |-> TRUE, until |-> now + Grant[d], revoked |-> FALSE]]

(* quotes.expire(MAX_SAFE_INTEGER): every reservation goes, however new.   *)
Swept ==
  [t \in PublicTrades |-> IF publicTrade[t].state = "RESERVED"
     THEN [publicTrade[t] EXCEPT !.state = "EXPIRED", !.got = {}] ELSE publicTrade[t]]

PublicInit ==
  /\ desk = Restored(DeskSize)
  /\ order = [state |-> "OPEN", until |-> now + Grant["market"]]
  /\ settled = [in |-> 0, out |-> 0]
  /\ bankUntil = now + Grant["bank"] /\ feed = TRUE /\ scenario = "balanced"
  /\ publicTrade = [t \in PublicTrades |->
       [state |-> "none", take |-> [s \in Sources |-> 0], got |-> {}, until |-> 0]]

(* The process dies and starts again. The order is seeded while none is    *)
(* left; one that is held counts, and so does one whose authorization has  *)
(* run out unnoticed.                                                      *)
Restart ==
  /\ order' = IF order.state = "OPEN" THEN order
              ELSE [state |-> "OPEN", until |-> now + Grant["market"]]
  /\ desk' = Restored(DeskSize)
  /\ bankUntil' = now + Grant["bank"] /\ feed' = TRUE /\ scenario' = "balanced"
  /\ UNCHANGED settled

DeskUnder(d, id) ==
  [Restored([DeskSize EXCEPT !["treasury"] = IF id = "treasury_near_limit" THEN NearlyEmpty ELSE @])[d]
     EXCEPT !.online = ~(d = "lp" /\ id = "lp_offline"),
            !.revoked = (d = "issuer" /\ id = "issuer_policy_blocked")]

(* Looking at the market blocks an order that is no longer authorised.     *)
Looked == IF order.state = "OPEN" /\ HeldOf("market") = 0 /\ ~OrderStands
          THEN [order EXCEPT !.state = "POLICY_BLOCKED"] ELSE order

(* current() looks again, when the sweep has freed the order.              *)
Apply(id) ==
  /\ publicTrade' = Swept
  /\ desk' = [d \in Desks |-> DeskUnder(d, id)]
  /\ settled' = LET n == IF id = "principal_limit" THEN AtRiskLimit ELSE 0 IN [in |-> n, out |-> n]
  /\ feed' = (id # "reference_outage")
  /\ scenario' = id
  /\ order' = IF order.state = "OPEN" /\ ~OrderStands /\ (HeldOf("market"))' = 0
               THEN [order EXCEPT !.state = "POLICY_BLOCKED"] ELSE order
  /\ UNCHANGED bankUntil

(* Every reading, and a preview.                                           *)
Read ==
  /\ order' = Looked
  /\ UNCHANGED <<desk, settled, bankUntil, feed, scenario, publicTrade>>

-----------------------------------------------------------------------------
(* planExactOutput: cheapest first.                                        *)
Cheaper(s) == {r \in Sources : PriceRank[r] < PriceRank[s]}
TakeOf(n) ==
  [s \in Sources |->
     LET before == SumFunctionOnSet([r \in Sources |-> Offered(r, n)], Cheaper(s)) IN
     IF before >= n THEN 0 ELSE Min({Offered(s, n), n - before})]
LegsIn(take) == {s \in Sources : take[s] > 0}
Serves(take, n) == SumFunctionOnSet(take, Sources) = n
Plans == {TakeOf(n) : n \in {m \in Orders : Serves(TakeOf(m), m)}}

(* Trades are numbered as they come.                                       *)
NextTrade ==
  {t \in PublicTrades : t = 1 + Cardinality({u \in PublicTrades : publicTrade[u].state # "none"})}

TradeOf(take, legs, state) ==
  [state |-> state, take |-> take, got |-> legs, until |-> now + TradeLife]

Reserve(t, take) ==
  /\ order' = Looked
  /\ publicTrade' = [publicTrade EXCEPT ![t] = TradeOf(take, LegsIn(take), "RESERVED")]
  /\ UNCHANGED <<desk, settled, bankUntil, feed, scenario>>

(* The legs are firmed one by one and the trade is stored last: a process  *)
(* that dies on the way leaves legs nobody knows of.                       *)
DieReserving(t, take) ==
  /\ \E last \in LegsIn(take) :
       publicTrade' = [Swept EXCEPT ![t] =
         TradeOf(take, {s \in LegsIn(take) : PriceRank[s] <= PriceRank[last]}, "lost")]
  /\ Restart

Ended(t, state) ==
  publicTrade' = [publicTrade EXCEPT ![t].state = state, ![t].got = {}]

Release(t) ==
  /\ publicTrade[t].state = "RESERVED"
  /\ Ended(t, "RELEASED")
  /\ UNCHANGED <<desk, order, settled, bankUntil, feed, scenario>>

(* markSubmitted: every desk is looked at again before, the order only     *)
(* when its leg's turn comes, and then the rest is not submitted.          *)
Submit(t) ==
  /\ publicTrade[t].state = "RESERVED" /\ publicTrade[t].until > now
  /\ \A d \in publicTrade[t].got \cap Desks : desk[d].online /\ Granted(d)
  /\ IF "market" \in publicTrade[t].got /\ order.until <= now
     THEN /\ order' = [order EXCEPT !.state = "POLICY_BLOCKED"]
          /\ publicTrade' = [publicTrade EXCEPT ![t].state = "HALF_SUBMITTED",
                                                ![t].got = @ \ {"market"}]
     ELSE publicTrade' = [publicTrade EXCEPT ![t].state = "SUBMITTED"] /\ UNCHANGED order
  /\ UNCHANGED <<desk, settled, bankUntil, feed, scenario>>

(* A source takes its leg only while its own books can bear it.            *)
Bears(t, s) ==
  LET n == publicTrade[t].take[s] IN
  CASE s = "market" -> TRUE
    [] s = "bank" -> settled.in + n * PerUnit <= RiskLimit /\ settled.out + n <= RiskLimit
    [] OTHER -> desk[s].max >= n

(* Leg by leg, up to the first that is refused; asked again, the legs that *)
(* are done answer that they are.                                          *)
Done(t) ==
  {s \in publicTrade[t].got :
     \A r \in publicTrade[t].got : PriceRank[r] <= PriceRank[s] => Bears(t, r)}
PaidByBank(t) == IF "bank" \in Done(t) THEN publicTrade[t].take["bank"] ELSE 0

Confirm(t) ==
  /\ publicTrade[t].state = "SUBMITTED" /\ publicTrade[t].got # {}
  /\ publicTrade' = [publicTrade EXCEPT ![t].got = @ \ Done(t),
       ![t].state = IF Done(t) = publicTrade[t].got THEN "CONFIRMED" ELSE @]
  /\ desk' = [d \in Desks |-> IF d \in Done(t)
                THEN [desk[d] EXCEPT !.max = @ - publicTrade[t].take[d]] ELSE desk[d]]
  /\ settled' = [in |-> settled.in + PaidByBank(t) * PerUnit, out |-> settled.out + PaidByBank(t)]
  /\ order' = IF "market" \in Done(t) THEN [order EXCEPT !.state = "FILLED"] ELSE order
  /\ UNCHANGED <<bankUntil, feed, scenario>>

(* The legs are given back from the last one on; the trade fails only if   *)
(* the first one can be given back too.                                    *)
Fail(t) ==
  /\ publicTrade[t].state \in {"SUBMITTED", "HALF_SUBMITTED"} /\ publicTrade[t].got # {}
  /\ Ended(t, IF publicTrade[t].got = LegsIn(publicTrade[t].take) THEN "FAILED"
              ELSE publicTrade[t].state)
  /\ UNCHANGED <<desk, order, settled, bankUntil, feed, scenario>>

-----------------------------------------------------------------------------
(* Anonymous access is by an exact list of methods and paths.              *)
ByPrefix == {"read", "trade"}       \* mutant: everything below the trades' path
Public == {"read"}

Does(operation) ==
  CASE operation = "read" -> Read
    [] operation = "scenario" -> \E id \in Scenarios : Apply(id)
    [] operation = "trade" ->
         \/ \E t \in NextTrade, take \in Plans : Reserve(t, take)
         \/ \E t \in PublicTrades : Release(t) \/ Submit(t)
    [] operation = "ops" -> \E t \in PublicTrades : Confirm(t) \/ Fail(t)

ByAnyone == \E operation \in Public : Does(operation)
ByOperator == \E operation \in {"scenario", "trade", "ops"} : Does(operation)

PublicNext ==
  \/ Restart /\ publicTrade' = Swept
  \/ \E t \in NextTrade, take \in Plans : DieReserving(t, take)
  \/ ByAnyone
  \/ ByOperator

PublicSpec ==
  /\ PublicInit /\ now = 0
  /\ [][(PublicNext /\ UNCHANGED now) \/ (Tick /\ UNCHANGED publicVars)]_<<publicVars, now>>

-----------------------------------------------------------------------------
(* Anybody is told of each source what a trade of any size would find:     *)
(* the desks and the order to the unit, the bank at least; and a scenario  *)
(* an operator applied holds until the next one or a restart, whatever     *)
(* trades were on their way (sourceStatus against candidateSlices and      *)
(* scenario.apply, public-reference-runtime.js).                           *)
ToldWhatIsOffered(s, n) ==
  IF s = "bank" THEN Offered(s, n) > 0 => Told(s).eligible /\ n <= Told(s).amount
  ELSE Offered(s, n) = IF Told(s).eligible THEN Told(s).amount ELSE 0

ScenarioHolds ==
  CASE scenario = "lp_offline" -> ~Told("lp").eligible
    [] scenario = "issuer_policy_blocked" -> ~Told("issuer").eligible
    [] scenario = "treasury_near_limit" -> Told("treasury").amount <= NearlyEmpty
    [] scenario = "principal_limit" -> Headroom("out") <= RiskLimit - AtRiskLimit
    [] scenario = "reference_outage" -> \A n \in Orders : Offered("bank", n) = 0
    [] OTHER -> TRUE

MarketAsTold ==
  ScenarioHolds /\ \A s \in Sources, n \in Orders : ToldWhatIsOffered(s, n)

(* A caller without the key changes nothing that is offered, held or owed, *)
(* and no scenario; an order that its reading blocks was of no use before  *)
(* (the exact list of server.js).                                          *)
AnonymousChangesNothing ==
  [][ByAnyone =>
       /\ UNCHANGED <<desk, settled, bankUntil, feed, scenario, publicTrade>>
       /\ OrderStands' = OrderStands]_publicVars
=============================================================================
