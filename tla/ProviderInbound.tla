--------------------------- MODULE ProviderInbound ---------------------------
(***************************************************************************)
(* Settled money the provider reports in production mode. An event id that *)
(* was applied is answered with its record when the evidence is the same   *)
(* and refused when it is not; a settlement that was applied under another *)
(* event id is refused.                                                    *)
(***************************************************************************)
EXTENDS WalletApprovals

CONSTANTS
  EventIds,
  Sources,           \* the gateway's name for a provider; "default" when it sends none
  References,        \* the provider's name for one settlement
  Resources,         \* the accounts and wallets evidence may name
  Reported           \* amounts evidence may name

VARIABLE inbound     \* the evidence each event id was applied with

NotApplied == [source |-> NoOne]
Inbound == <<"external:inbound", "external:custody">>

ASSUME InboundAssumption ==
  /\ IsFiniteSet(EventIds)
  /\ Resources \subseteq Accounts \cup Wallets /\ Reported \subseteq Nat
  /\ {Inbound[1], Inbound[2]} \subseteq House

Evidence ==
  [source : Sources, reference : References, resource : Resources, amount : Reported,
   currency : Currencies]

InboundTypeOK == inbound \in [EventIds -> Evidence \cup {NotApplied}]
InboundInit == inbound = [id \in EventIds |-> NotApplied]

Applied == {id \in EventIds : inbound[id] # NotApplied}

(* The type of an event says whether an account or a wallet is credited.   *)
TypeOf(e) == IF e.resource \in Accounts THEN "account" ELSE "wallet"
SettlementKey(e) == <<e.source, TypeOf(e), e.reference>>

FreshId(id, e) == inbound[id] = NotApplied      \* mutant: the event id alone
Fresh(id, e) ==
  /\ inbound[id] = NotApplied
  /\ \A other \in Applied : SettlementKey(inbound[other]) # SettlementKey(e)

Creditable(e) ==
  IF e.resource \in Accounts
  THEN Open(e.resource) /\ CurrencyOf[e.resource] = e.currency
  ELSE wallet[e.resource].live /\ WalletCurrency[e.resource] = e.currency

From(e) == IF e.resource \in Accounts THEN Inbound[1] ELSE Inbound[2]

ApplyInbound(id, e) ==
  /\ Fresh(id, e) /\ Creditable(e)
  /\ Move(e.amount, e.currency, From(e), e.resource)
  /\ inbound' = [inbound EXCEPT ![id] = e]
  /\ UNCHANGED <<customerVars, walletVars>>

InboundNext == \E id \in EventIds, e \in Evidence : ApplyInbound(id, e)

(* Money of accounts and wallets: what enters, what is sent, who decides.  *)
moneyVars == <<ledger, customerVars, walletVars, inbound>>
WalletHolders == {WalletHolder[w] : w \in {x \in Wallets : wallet[x].live}}

MoneyInit == LedgerInit /\ CustomerInit /\ WalletInit /\ InboundInit

MoneyNext ==
  \/ (Onboarding(WalletHolders) \/ Banking(Accounts) \/ Simulating) /\ UNCHANGED <<walletVars, inbound>>
  \/ WalletNext /\ UNCHANGED inbound
  \/ InboundNext

MoneySpec == MoneyInit /\ [][MoneyNext]_moneyVars

-----------------------------------------------------------------------------
(* "one settled upstream movement may not be credited twice merely because *)
(* a buggy gateway assigned a fresh event ID on retry"                     *)
(* (provider-inbound.js): each settlement was credited at most once, and   *)
(* what came from outside is exactly what the settlements say, whichever   *)
(* ids, orders and repetitions they arrived in.                            *)
SettledOnce ==
  \A one, two \in Applied :
    SettlementKey(inbound[one]) = SettlementKey(inbound[two]) => one = two

Brought(id, i, c) ==
  IF id \in Applied /\ inbound[id].currency = c /\ From(inbound[id]) = Inbound[i]
  THEN inbound[id].amount ELSE 0

(* Each settlement is applied once, and the two books of what came from    *)
(* outside say exactly what the applied settlements say.                   *)
CreditedOnce ==
  /\ SettledOnce
  /\ \A c \in Currencies, i \in 1 .. 2 :
       -Holds(Inbound[i], c) = SumFunctionOnSet([id \in EventIds |-> Brought(id, i, c)], EventIds)
=============================================================================
