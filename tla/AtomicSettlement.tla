-------------------------- MODULE AtomicSettlement --------------------------
(***************************************************************************)
(* The settlement kernel: AtomicRouter.execute settles a taker's signed    *)
(* intent against fills of signed maker orders (FxSettlement), guarded by  *)
(* OrderCancellation and PolicyAuthorizationRegistry, on the balances of   *)
(* FxVault.                                                                *)
(*                                                                         *)
(* execute is one transaction, taken here in steps: Execute starts it,     *)
(* SettleFill is one turn of its loop, Finish commits and Revert undoes    *)
(* everything. Transactions are serial, so nothing happens in between.     *)
(* Orders and intents are the ones that were signed. Whether an order's    *)
(* validity window and an intent's deadline cover the clock is asked of    *)
(* the environment: a call that is out of time reverts.                    *)
(***************************************************************************)
EXTENDS FxVault

CONSTANTS
  Orders,      \* signed maker orders
  Order,       \* Order[o]: its terms
  Intents,     \* signed taker intents
  Intent,      \* Intent[i]: its terms
  Policies,    \* policy authorization hashes
  MaxEpoch     \* bound on the epochs used

OrderTerms ==
  [maker : Accounts, recipient : Accounts, sellToken : Tokens, buyToken : Tokens,
   sellAmount : Nat \ {0}, buyAmount : Nat \ {0}, epoch : Nat]
IntentTerms ==
  [taker : Accounts, recipient : Accounts, inputToken : Tokens, outputToken : Tokens,
   maxInput : Nat \ {0}, minOutput : Nat \ {0}, nonce : Nat, policy : Policies]

(* _validateOrderShape and _validateIntent refuse anything else. *)
ASSUME SettlementAssumption ==
  /\ IsFiniteSet(Orders)
  /\ Order \in [Orders -> OrderTerms]
  /\ \A o \in Orders : Order[o].sellToken # Order[o].buyToken
  /\ Intent \in [Intents -> IntentTerms]
  /\ \A i \in Intents : Intent[i].inputToken # Intent[i].outputToken
  /\ MaxEpoch \in Nat

VARIABLES
  filledSellAmount, filledBuyAmount,   \* FxSettlement, per order
  cancelled,           \* orders their maker cancelled
  minimumEpoch,        \* OrderCancellation.minimumEpoch[maker]
  authorizations,      \* PolicyAuthorizationRegistry.authorizations[policy]
  minimumPolicyEpoch,  \* PolicyAuthorizationRegistry.minimumEpoch
  usedNonce,           \* AtomicRouter.usedNonce: pairs of taker and nonce
  route                \* the execute that is running

fillVars == <<filledSellAmount, filledBuyAmount>>
guardVars == <<cancelled, minimumEpoch, authorizations, minimumPolicyEpoch>>
settlementVars == <<vaultVars, fillVars, guardVars, usedNonce, route>>

NoRoute == [intent |-> "none"]
Snapshot == [balance |-> balance, filledSell |-> filledSellAmount,
             filledBuy |-> filledBuyAmount]
Running == route # NoRoute

NotLive == [live |-> FALSE, epoch |-> 0]   \* never granted, expired or revoked
Grants == [live : {TRUE}, epoch : 0..MaxEpoch] \cup {NotLive}

SettlementTypeOK ==
  /\ VaultTypeOK
  /\ filledSellAmount \in [Orders -> Nat]
  /\ filledBuyAmount \in [Orders -> Nat]
  /\ cancelled \subseteq Orders
  /\ minimumEpoch \in [Accounts -> 0..MaxEpoch]
  /\ authorizations \in [Policies -> Grants]
  /\ minimumPolicyEpoch \in 0..MaxEpoch
  /\ usedNonce \subseteq Accounts \X Nat
  /\ Running =>
       route \in [intent : Intents, totalInput : Nat, totalOutput : Nat,
                  before : [balance : [Tokens -> [Accounts -> Nat]],
                            filledSell : [Orders -> Nat],
                            filledBuy : [Orders -> Nat]]]

SettlementInit ==
  /\ VaultInit
  /\ filledSellAmount = [o \in Orders |-> 0]
  /\ filledBuyAmount = [o \in Orders |-> 0]
  /\ cancelled = {}
  /\ minimumEpoch = [a \in Accounts |-> 0]
  /\ authorizations = [p \in Policies |-> NotLive]
  /\ minimumPolicyEpoch = 0
  /\ usedNonce = {}
  /\ route = NoRoute
-----------------------------------------------------------------------------
(* Calls of the vault, the cancellation contract and the policy registry   *)

Vault ==
  /\ ~Running
  /\ VaultStep
  /\ UNCHANGED <<fillVars, guardVars, usedNonce, route>>

(* What other accounts write about the order is never read. *)
CancelOrder(o) ==
  /\ ~Running
  /\ cancelled' = cancelled \cup {o}
  /\ UNCHANGED <<vaultVars, fillVars, minimumEpoch, authorizations,
                 minimumPolicyEpoch, usedNonce, route>>

InvalidateOrdersBefore(a) ==
  /\ ~Running
  /\ \E e \in 0..MaxEpoch :
       e > minimumEpoch[a] /\ minimumEpoch' = [minimumEpoch EXCEPT ![a] = e]
  /\ UNCHANGED <<vaultVars, fillVars, cancelled, authorizations,
                 minimumPolicyEpoch, usedNonce, route>>

(* authorize may grant again what expired or was revoked. *)
Authorize(p) ==
  /\ ~Running
  /\ \E e \in minimumPolicyEpoch..MaxEpoch :
       authorizations' = [authorizations EXCEPT ![p] = [live |-> TRUE, epoch |-> e]]
  /\ UNCHANGED <<vaultVars, fillVars, cancelled, minimumEpoch,
                 minimumPolicyEpoch, usedNonce, route>>

(* revoke, or validUntil passes. *)
RevokeOrExpire(p) ==
  /\ ~Running
  /\ authorizations' = [authorizations EXCEPT ![p] = NotLive]
  /\ UNCHANGED <<vaultVars, fillVars, cancelled, minimumEpoch,
                 minimumPolicyEpoch, usedNonce, route>>

InvalidatePoliciesBefore ==
  /\ ~Running
  /\ \E e \in 0..MaxEpoch : e > minimumPolicyEpoch /\ minimumPolicyEpoch' = e
  /\ UNCHANGED <<vaultVars, fillVars, cancelled, minimumEpoch, authorizations,
                 usedNonce, route>>

IsValid(p) ==
  /\ authorizations[p].live
  /\ authorizations[p].epoch >= minimumPolicyEpoch

ByHashAlone(o) == o \in cancelled         \* mutant: epochs are not looked at
IsInvalid(o) ==
  o \in cancelled \/ Order[o].epoch < minimumEpoch[Order[o].maker]
-----------------------------------------------------------------------------
(* execute *)

CeilDiv(n, d) == (n + d - 1) \div d
CumulativeBuy(o, sold) == CeilDiv(sold * Order[o].buyAmount, Order[o].sellAmount)

(* The payment that brings the taker's total to the signed price of the    *)
(* total fill, rounded up.                                                 *)
PayPerFill(o, n) == CumulativeBuy(o, n)  \* mutant: each fill rounded alone
RequiredTakerPay(o, n) ==
  CumulativeBuy(o, filledSellAmount[o] + n) - filledBuyAmount[o]

Reusable(i) == TRUE                      \* mutant: the nonce is not looked at
NonceFree(i) == <<Intent[i].taker, Intent[i].nonce>> \notin usedNonce

Execute(i) ==
  /\ ~Running
  /\ NonceFree(i)
  /\ IsValid(Intent[i].policy)
  /\ usedNonce' = usedNonce \cup {<<Intent[i].taker, Intent[i].nonce>>}
  /\ route' = [intent |-> i, totalInput |-> 0, totalOutput |-> 0, before |-> Snapshot]
  /\ UNCHANGED <<vaultVars, fillVars, guardVars>>

CheckedBefore(pay) ==                    \* mutant: checked before it is added
  route.totalInput <= Intent[route.intent].maxInput
WithinMaxInput(pay) ==
  route.totalInput + pay <= Intent[route.intent].maxInput

RightPair(o, intent) ==
  /\ Order[o].sellToken = intent.outputToken
  /\ Order[o].buyToken = intent.inputToken

SettleFill(o, n) ==
  LET intent == Intent[route.intent]
      order == Order[o]
      pay == RequiredTakerPay(o, n)
  IN /\ Running
     /\ RightPair(o, intent)
     /\ ~IsInvalid(o)
     /\ filledSellAmount[o] + n <= order.sellAmount
     /\ CanMove(order.sellToken, order.maker, n)
     /\ CanMove(order.buyToken, intent.taker, pay)
     /\ WithinMaxInput(pay)
     /\ filledSellAmount' = [filledSellAmount EXCEPT ![o] = @ + n]
     /\ filledBuyAmount' = [filledBuyAmount EXCEPT ![o] = @ + pay]
     /\ balance' = Moved(Moved(balance, order.sellToken, order.maker, intent.recipient, n),
                         order.buyToken, intent.taker, order.recipient, pay)
     /\ route' = [route EXCEPT !.totalInput = @ + pay, !.totalOutput = @ + n]
     /\ UNCHANGED <<totalLiabilities, physicalBalance, pendingWithdrawal,
                    withdrawDelayBlocks, guardVars, usedNonce>>
     /\ AssertSolvent(order.sellToken)
     /\ pay # 0 => AssertSolvent(order.buyToken)

(* The minimum output is positive, so at least one fill was made. *)
Finish ==
  /\ Running
  /\ route.totalOutput >= Intent[route.intent].minOutput
  /\ route' = NoRoute
  /\ UNCHANGED <<vaultVars, fillVars, guardVars, usedNonce>>

Revert ==
  LET intent == Intent[route.intent] IN
  /\ Running
  /\ balance' = route.before.balance
  /\ filledSellAmount' = route.before.filledSell
  /\ filledBuyAmount' = route.before.filledBuy
  /\ usedNonce' = usedNonce \ {<<intent.taker, intent.nonce>>}
  /\ route' = NoRoute
  /\ UNCHANGED <<totalLiabilities, physicalBalance, pendingWithdrawal,
                 withdrawDelayBlocks, guardVars>>
-----------------------------------------------------------------------------

SettlementNext ==
  \/ Vault
  \/ \E o \in Orders : CancelOrder(o)
  \/ \E o \in Orders : InvalidateOrdersBefore(Order[o].maker)
  \/ \E p \in Policies : Authorize(p) \/ RevokeOrExpire(p)
  \/ InvalidatePoliciesBefore
  \/ \E i \in Intents : Execute(i)
  \/ \E o \in Orders : \E n \in 1..Order[o].sellAmount : SettleFill(o, n)
  \/ Finish
  \/ Revert

SettlementSpec == SettlementInit /\ [][SettlementNext]_settlementVars
-----------------------------------------------------------------------------
(* Properties *)

(* "sum(all successful fills) <= signed maker amount", and the maker is    *)
(* paid the signed price of everything sold, rounded up once and never     *)
(* more than the signed total, however the fills were cut                  *)
(* (requiredTakerPay); a revert leaves it so.                              *)
Signed(sold, paid) ==
  \A o \in Orders :
    /\ sold[o] <= Order[o].sellAmount
    /\ paid[o] = CumulativeBuy(o, sold[o])
    /\ paid[o] <= Order[o].buyAmount

FillsWithinSigned ==
  /\ Signed(filledSellAmount, filledBuyAmount)
  /\ Running => Signed(route.before.filledSell, route.before.filledBuy)

(* While a route runs, the taker has lost at most what the router counted  *)
(* and the recipient gained at least what it counted, unless the recipient *)
(* sells to itself (execute's totals, the moves of the vault).             *)
TotalsAreReal ==
  Running =>
    LET intent == Intent[route.intent]
        old == route.before.balance
    IN /\ route.totalInput <= intent.maxInput
       /\ balance[intent.inputToken][intent.taker] >=
            old[intent.inputToken][intent.taker] - route.totalInput
       /\ (\A o \in Orders : Order[o].maker # intent.recipient) =>
            balance[intent.outputToken][intent.recipient] >=
              old[intent.outputToken][intent.recipient] + route.totalOutput

(* "If an order is cancelled on-chain before settlement, it can never      *)
(* execute afterward", and no order of an invalidated epoch either: no     *)
(* route that commits has filled it (isInvalid, invalidateBefore).         *)
FilledSell == IF Running THEN route.before.filledSell ELSE filledSellAmount
Withdrawn(o) == o \in cancelled \/ Order[o].epoch < minimumEpoch[Order[o].maker]

CancellationIsFinal ==
  [][\A o \in Orders : Withdrawn(o) => FilledSell'[o] = FilledSell[o] /\ Withdrawn(o)']_settlementVars

(* The kernel implements the atomic exchange: what a running route has     *)
(* done is seen when it commits, and then all at once.                     *)
Account == IF Running THEN route.before.balance ELSE balance
FilledBuy == IF Running THEN route.before.filledBuy ELSE filledBuyAmount
NonceOf(i) == <<Intent[i].taker, Intent[i].nonce>>
SpentNonces == IF Running THEN usedNonce \ {NonceOf(route.intent)} ELSE usedNonce
Open == {o \in Orders : ~Withdrawn(o)}
Permitted == {p \in Policies : IsValid(p)}

Abstract == INSTANCE AtomicExchange WITH
  account <- Account, sold <- FilledSell, paid <- FilledBuy,
  spent <- SpentNonces, open <- Open, permitted <- Permitted

ImplementsAtomicExchange == Abstract!ExchangeSpec
=============================================================================
