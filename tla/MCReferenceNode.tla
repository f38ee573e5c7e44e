--------------------------- MODULE MCReferenceNode ---------------------------
(***************************************************************************)
(* Small instances of the stores behind the FX node: what it offers under  *)
(* the policy (FxPolicy), its monetary engine (MonetaryReserve), its       *)
(* fiat intents (FiatSettlement), the planning of a trade (TradePlanning), *)
(* what is public of it (PublicReference), the quotes of a node with the   *)
(* private market alone (NodeQuotes) and the simulator (FxSimulator); and  *)
(* of the site before it: the builder agent and a tab of the sandbox       *)
(* (SandboxSite). They share nothing but the clock, so a                   *)
(* behaviour exercises one of them, chosen at the start.                   *)
(***************************************************************************)
EXTENDS FxPolicy, MonetaryReserve, FiatSettlement, TradePlanning,
        PublicReference, NodeQuotes, FxSimulator, SandboxSite, TLC

CONSTANTS Parts, p1, p2, r1, r2

VARIABLE part

storeVars == <<nodeVars, monetaryVars, fiatVars, tradeVars, publicVars>>
aroundVars == <<nodeQuoteVars, simVars, agentVars, clientVars>>
nodeEdgeVars == <<part, now, storeVars, aroundVars>>

NodeEdgesTypeOK ==
  /\ NodeTypeOK /\ MonetaryTypeOK /\ FiatTypeOK /\ PublicTypeOK
  /\ NodeQuoteTypeOK /\ SimTypeOK /\ AgentTypeOK /\ ClientTypeOK

NodeEdgesInit ==
  /\ now = 0
  /\ part \in Parts
  /\ NodeInit /\ MonetaryInit /\ FiatInit /\ TradeInit /\ PublicInit
  /\ NodeQuoteInit /\ SimInit /\ AgentInit /\ ClientInit
  /\ part # "policy" => policy = ReferencePolicy
  /\ part # "trade" => principal.max = 4 /\ \A s \in Slices : slice[s].max = 2
  /\ part # "simulator" => exposure = 0 /\ upcoming = <<>>

StoreStep ==
  \/ part = "policy" /\ NodeNext /\ UNCHANGED <<monetaryVars, fiatVars, tradeVars, publicVars>>
  \/ part = "money" /\ MonetaryNext /\ UNCHANGED <<nodeVars, fiatVars, tradeVars, publicVars>>
  \/ part = "fiat" /\ FiatNext /\ UNCHANGED <<nodeVars, monetaryVars, tradeVars, publicVars>>
  \/ part = "trade" /\ TradeNext /\ UNCHANGED <<nodeVars, monetaryVars, fiatVars, publicVars>>
  \/ part = "public" /\ PublicNext /\ UNCHANGED <<nodeVars, monetaryVars, fiatVars, tradeVars>>

AroundStep ==
  \/ part = "quotes" /\ NodeQuoteNext /\ UNCHANGED <<simVars, agentVars, clientVars>>
  \/ part = "simulator" /\ SimNext /\ UNCHANGED <<nodeQuoteVars, agentVars, clientVars>>
  \/ part = "agent" /\ AgentNext /\ UNCHANGED <<nodeQuoteVars, simVars, clientVars>>
  \/ part = "client" /\ ClientNext /\ UNCHANGED <<nodeQuoteVars, simVars, agentVars>>

(* Where time matters; a day later is late enough for the public trade and *)
(* for the agent.                                                          *)
Passing ==
  \/ part \in {"policy", "money", "fiat"}
  \/ part \in {"public", "agent"} /\ now = 0

NodeEdgesNext ==
  /\ UNCHANGED part
  /\ \/ Passing /\ Tick /\ UNCHANGED <<storeVars, aroundVars>>
     \/ UNCHANGED <<now, aroundVars>> /\ StoreStep
     \/ UNCHANGED <<now, storeVars>> /\ AroundStep

NodeEdgesSpec == NodeEdgesInit /\ [][NodeEdgesNext]_nodeEdgeVars

-----------------------------------------------------------------------------
(* Two principals around the private market; a storm and a congestion, an  *)
(* outage while the market is away, and an event dated before the run.     *)
ThreeSources ==
  <<[type |-> "BANK_PRINCIPAL", name |-> "bank", size |-> 2],
    [type |-> "PRIVATE_MARKET", name |-> "makers", size |-> 2],
    [type |-> "BANK_PRINCIPAL", name |-> "desk", size |-> 2]>>
Event(i, does, on) == [at |-> i, does |-> does, on |-> on]
SomeEvents ==
  {<<>>,
   <<Event(0, "CANCELLATION_STORM", "makers"), Event(1, "CHAIN_CONGESTION", ""),
     Event(2, "CANCELLATION_RECOVERY", "makers"), Event(2, "CHAIN_RECOVERY", "")>>,
   <<Event(0, "SOURCE_OFFLINE", "makers"), Event(1, "REFERENCE_UNAVAILABLE", ""),
     Event(2, "SOURCE_ONLINE", "makers"), Event(3, "REFERENCE_AVAILABLE", "")>>,
   <<Event(-1, "SOURCE_OFFLINE", "bank"), Event(1, "REFERENCE_UNAVAILABLE", "")>>}

(* One source and one settlement edge; a policy that a second version      *)
(* tightens.                                                               *)
Lender == [type |-> "NEOBANK", status |-> "ACTIVE", jurisdiction |-> "SG"]
SomeFacts == {Lender, [Lender EXCEPT !.status = "SUSPENDED"]}
Open == [id |-> "reference", version |-> 1, types |-> {"NEOBANK"}, blocked |-> {"XX"},
         corridors |-> {"c"}, ticket |-> [t \in {"NEOBANK"} |-> 1],
         required |-> [t \in {"NEOBANK"} |-> {"KYB"}], ttl |-> 2]
TwoPolicies == {Open, [Open EXCEPT !.version = 2, !.blocked = {"SG"}]}
SourceOffer == [name |-> "s", from |-> "x", to |-> "y", group |-> None,
  request |-> [participant |-> "lp", action |-> "PROVIDE_LIQUIDITY", corridor |-> "c",
               amount |-> 1, account |-> "lpa"]]
EdgeOffer == [name |-> "e", from |-> "y", to |-> "z", group |-> "g",
  request |-> [participant |-> "rail", action |-> "SETTLE_FIAT_EDGE", corridor |-> "c",
               amount |-> 1, account |-> "raila"]]
TwoOffers == <<SourceOffer, EdgeOffer>>
SomeRequests == {SourceOffer.request, EdgeOffer.request,
                 [EdgeOffer.request EXCEPT !.participant = "lp", !.account = None]}
Changes == "lp" :> 4 @@ "rail" :> 3
AllLenders == [p \in {"lp", "rail"} |-> Lender]

(* What ended stays ended: an authorization that lost its force, and an     *)
(* intent that was settled, failed, cancelled or expired (fx-policy        *)
(* policy-engine.js, fx-fiat settlement-store.js).                         *)
FinalStaysFinal == NeverRevived /\ NeverTakenBack

(* Policy holds where it is used and not only where it was asked: what     *)
(* verifies would be granted now, and what is offered may be (fx-policy    *)
(* policy-engine.js, reference-runtime.js).                                *)
PolicyHolds == ValidIsDeserved /\ OnlyEligibleOffered

(* The site neither spends more on the model than it may, nor shows or     *)
(* does what nobody asked (workers/site, src/api.ts, SandboxPage.tsx).     *)
SiteHonest == SpendIsBounded /\ ClientHonest

SameBacking == [i \in {"USD", "TD"} |-> "usd"]
Covers == [i \in {"USD", "TD"} |-> IF i = "TD" THEN 15000 ELSE 10000]

(* Receipts and intents never meet, so they share the names r1 and r2.     *)
NodeSymmetry == Permutations({r1, r2})
TwoPayloads == {[terms |-> "t", expiresAt |-> 1], [terms |-> "t", expiresAt |-> 2]}

(* Two orders at one price in different terms, one partly filled, and a    *)
(* dearer one; one slice; a principal with room for one payout or many.    *)
TwoLevels ==
  <<[num |-> 3, den |-> 2, size |-> 2, filled |-> 0],
    [num |-> 6, den |-> 4, size |-> 4, filled |-> 1],
    [num |-> 2, den |-> 1, size |-> 3, filled |-> 0]>>
SomeSlices == {[num |-> 5, den |-> 3, max |-> 2], [num |-> 3, den |-> 1, max |-> 4]}
SomePrincipal == {[num |-> 8, den |-> 5, max |-> 4], [num |-> 9, den |-> 5, max |-> 8]}

(* The corridor with amounts small enough for two trades to want the same. *)
CorridorSizes == "issuer" :> 1 @@ "lp" :> 1 @@ "treasury" :> 2
Grants == "market" :> 1 @@ "bank" :> 1 @@ "issuer" :> 1 @@ "lp" :> 2 @@ "treasury" :> 2
Ranks == "market" :> 1 @@ "issuer" :> 2 @@ "lp" :> 3 @@ "treasury" :> 4 @@ "bank" :> 5
=============================================================================
