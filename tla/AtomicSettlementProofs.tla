----------------------- MODULE AtomicSettlementProofs -----------------------
(***************************************************************************)
(* Proofs about AtomicSettlement, for any tokens, accounts, orders,        *)
(* intents, policies, fees and delays.                                     *)
(***************************************************************************)
EXTENDS AtomicSettlement, SumTheorems

-----------------------------------------------------------------------------
(* Prices *)

LEMMA CeilDivIsRoundedUp == \A n, d : CeilDiv(n, d) = RoundedUp(n, d)
BY DEF CeilDiv, RoundedUp

LEMMA CeilDivParts ==
  ASSUME NEW n \in Nat, NEW d \in Nat \ {0}
  PROVE  /\ CeilDiv(n, d) \in Nat
         /\ n <= d * CeilDiv(n, d)
         /\ d * CeilDiv(n, d) < n + d
BY CeilDivIsRoundedUp, RoundedUpParts

LEMMA CeilDivZero == ASSUME NEW d \in Nat \ {0} PROVE CeilDiv(0, d) = 0
BY CeilDivIsRoundedUp, RoundedUpZero

LEMMA CeilDivMonotone ==
  ASSUME NEW m \in Nat, NEW n \in Nat, NEW d \in Nat \ {0}, m <= n
  PROVE  CeilDiv(m, d) <= CeilDiv(n, d)
BY CeilDivIsRoundedUp, RoundedUpMonotone

LEMMA CeilDivWithin ==
  ASSUME NEW s \in Nat, NEW b \in Nat, NEW d \in Nat \ {0}, s <= d
  PROVE  CeilDiv(s * b, d) <= b
BY CeilDivIsRoundedUp, RoundedUpWithin

(* The terms of a signed order and of a signed intent. *)
LEMMA OrderParts ==
  ASSUME NEW o \in Orders
  PROVE  /\ Order[o].maker \in Accounts /\ Order[o].recipient \in Accounts
         /\ Order[o].sellToken \in Tokens /\ Order[o].buyToken \in Tokens
         /\ Order[o].sellAmount \in Nat \ {0} /\ Order[o].buyAmount \in Nat \ {0}
         /\ Order[o].epoch \in Nat
         /\ Order[o].sellToken # Order[o].buyToken
BY SettlementAssumption DEF OrderTerms

LEMMA IntentParts ==
  ASSUME NEW i \in Intents
  PROVE  /\ Intent[i].taker \in Accounts /\ Intent[i].recipient \in Accounts
         /\ Intent[i].inputToken \in Tokens /\ Intent[i].outputToken \in Tokens
         /\ Intent[i].maxInput \in Nat \ {0} /\ Intent[i].minOutput \in Nat \ {0}
         /\ Intent[i].nonce \in Nat
         /\ Intent[i].inputToken # Intent[i].outputToken
BY SettlementAssumption DEF IntentTerms

(* What the price of a fill is, when the books are right. *)
LEMMA PayParts ==
  ASSUME SettlementTypeOK, FillsWithinSigned, NEW o \in Orders, NEW n \in Nat,
         filledSellAmount[o] + n <= Order[o].sellAmount
  PROVE  /\ RequiredTakerPay(o, n) \in Nat
         /\ filledBuyAmount[o] + RequiredTakerPay(o, n)
              = CumulativeBuy(o, filledSellAmount[o] + n)
         /\ CumulativeBuy(o, filledSellAmount[o] + n) <= Order[o].buyAmount
<1> DEFINE old == filledSellAmount[o]
           buy == Order[o].buyAmount
           sell == Order[o].sellAmount
<1>1. old \in Nat /\ filledBuyAmount[o] = CumulativeBuy(o, old)
      /\ filledBuyAmount[o] \in Nat /\ buy \in Nat /\ sell \in Nat \ {0}
  BY OrderParts DEF SettlementTypeOK, FillsWithinSigned, Signed
<1>2. old * buy <= (old + n) * buy /\ old * buy \in Nat /\ (old + n) * buy \in Nat
  BY <1>1, ProductMonotone
<1>3. CeilDiv(old * buy, sell) <= CeilDiv((old + n) * buy, sell)
      /\ CeilDiv((old + n) * buy, sell) \in Nat
  BY <1>1, <1>2, CeilDivMonotone, CeilDivParts
<1>4. CeilDiv((old + n) * buy, sell) <= buy
  <2>1. old + n \in Nat /\ old + n <= sell
    BY <1>1
  <2> HIDE DEF old, buy, sell
  <2> QED
    BY <1>1, <2>1, CeilDivWithin
<1>5. CumulativeBuy(o, old) <= CumulativeBuy(o, old + n)
      /\ CumulativeBuy(o, old + n) \in Nat
      /\ CumulativeBuy(o, old + n) <= buy
  BY <1>3, <1>4 DEF CumulativeBuy
<1> HIDE DEF old, buy, sell
<1> QED
  BY <1>1, <1>5 DEF RequiredTakerPay, old, buy

-----------------------------------------------------------------------------
(* The vault *)

Ledgers == [Tokens -> [Accounts -> Nat]]

LEMMA MovedParts ==
  ASSUME NEW b \in Ledgers, NEW t \in Tokens, NEW from \in Accounts,
         NEW to \in Accounts, NEW n \in Nat, b[t][from] >= n
  PROVE  /\ Moved(b, t, from, to, n) \in Ledgers
         /\ \A u \in Tokens : u # t => Moved(b, t, from, to, n)[u] = b[u]
         /\ \A a \in Accounts :
              Moved(b, t, from, to, n)[t][a] =
                b[t][a] - (IF a = from THEN n ELSE 0) + (IF a = to THEN n ELSE 0)
<1> DEFINE row == [a \in Accounts |->
                     b[t][a] - (IF a = from THEN n ELSE 0) + (IF a = to THEN n ELSE 0)]
<1>1. row \in [Accounts -> Nat]
  BY DEF Ledgers
<1>2. Moved(b, t, from, to, n) = [b EXCEPT ![t] = row]
  BY DEF Moved
<1>3. \A a \in Accounts : row[a] =
        b[t][a] - (IF a = from THEN n ELSE 0) + (IF a = to THEN n ELSE 0)
  OBVIOUS
<1> HIDE DEF row
<1> QED
  BY <1>1, <1>2, <1>3 DEF Ledgers

(* No call of the vault makes it insolvent or confuses its types. *)
LEMMA VaultCall ==
  ASSUME SettlementTypeOK, VaultStep
  PROVE  VaultTypeOK' /\ (Solvent => Solvent')
<1>0. /\ balance \in [Tokens -> [Accounts -> Nat]]
      /\ totalLiabilities \in [Tokens -> Int]
      /\ physicalBalance \in [Tokens -> Nat]
      /\ pendingWithdrawal \in [Tokens -> [Accounts -> Requests \cup {NoRequest}]]
      /\ withdrawDelayBlocks \in 0..MaxDelay
  BY DEF SettlementTypeOK, VaultTypeOK
<1>1. ASSUME NEW t \in Tokens, Donate(t) PROVE VaultTypeOK' /\ (Solvent => Solvent')
  BY <1>0, <1>1 DEF Donate, VaultTypeOK, Solvent
<1>2. ASSUME NEW t \in Tokens, NEW n \in Nat, Pay(t, n), totalLiabilities'[t] \in Int
      PROVE  /\ physicalBalance' \in [Tokens -> Nat]
             /\ \A u \in Tokens : u # t => physicalBalance'[u] = physicalBalance[u]
  BY <1>0, <1>2, VaultAssumption DEF Pay
<1>3. ASSUME NEW t \in Tokens, RescueSurplus(t) PROVE VaultTypeOK' /\ (Solvent => Solvent')
  <2>1. PICK n \in Amounts : Pay(t, n)
    BY <1>3 DEF RescueSurplus
  <2>2. /\ physicalBalance' \in [Tokens -> Nat]
        /\ \A u \in Tokens : u # t => physicalBalance'[u] = physicalBalance[u]
    BY <1>0, <1>2, <1>3, <2>1, VaultAssumption DEF RescueSurplus
  <2> QED
    BY <1>0, <1>3, <2>2 DEF RescueSurplus, VaultTypeOK, Solvent, AssertSolvent
<1>4. ASSUME NEW t \in Tokens, NEW a \in Accounts, Deposit(t, a)
      PROVE VaultTypeOK' /\ (Solvent => Solvent')
  <2>1. PICK amount \in Amounts : \E n \in 1..amount :
          /\ physicalBalance' = [physicalBalance EXCEPT ![t] = @ + n]
          /\ balance' = [balance EXCEPT ![t][a] = @ + n]
          /\ totalLiabilities' = [totalLiabilities EXCEPT ![t] = @ + n]
          /\ AssertSolvent(t)
          /\ UNCHANGED <<pendingWithdrawal, withdrawDelayBlocks>>
    BY <1>4 DEF Deposit
  <2>2. PICK n \in 1..amount :
          /\ physicalBalance' = [physicalBalance EXCEPT ![t] = @ + n]
          /\ balance' = [balance EXCEPT ![t][a] = @ + n]
          /\ totalLiabilities' = [totalLiabilities EXCEPT ![t] = @ + n]
          /\ AssertSolvent(t)
          /\ UNCHANGED <<pendingWithdrawal, withdrawDelayBlocks>>
    BY <2>1
  <2>3. n \in Nat
    BY VaultAssumption
  <2>4. balance' \in [Tokens -> [Accounts -> Nat]]
    BY <1>0, <2>2, <2>3
  <2> QED
    BY <1>0, <2>4, <2>2, <2>3 DEF VaultTypeOK, Solvent, AssertSolvent
<1>5. ASSUME NEW t \in Tokens, NEW a \in Accounts, NEW req \in Requests \cup {NoRequest},
             Filed(t, a, req)
      PROVE  pendingWithdrawal' \in [Tokens -> [Accounts -> Requests \cup {NoRequest}]]
  BY <1>0, <1>5 DEF Filed
<1>6. ASSUME NEW t \in Tokens, NEW a \in Accounts, Withdraw(t, a)
      PROVE VaultTypeOK' /\ (Solvent => Solvent')
  <2>1. PICK n \in Amounts : /\ Filed(t, a, NoRequest)
                             /\ balance[t][a] >= n
                             /\ balance' = [balance EXCEPT ![t][a] = @ - n]
                             /\ totalLiabilities' = [totalLiabilities EXCEPT ![t] = @ - n]
                             /\ Pay(t, n)
                             /\ AssertSolvent(t)
                             /\ UNCHANGED withdrawDelayBlocks
    BY <1>6 DEF Withdraw
  <2>2. n \in Nat
    BY VaultAssumption
  <2>3. balance' \in [Tokens -> [Accounts -> Nat]]
    BY <1>0, <2>1, <2>2
  <2>4. totalLiabilities' \in [Tokens -> Int]
        /\ \A u \in Tokens : u # t => totalLiabilities'[u] = totalLiabilities[u]
    BY <1>0, <2>1, <2>2
  <2>5. /\ physicalBalance' \in [Tokens -> Nat]
        /\ \A u \in Tokens : u # t => physicalBalance'[u] = physicalBalance[u]
    BY <1>2, <2>1, <2>2, <2>4
  <2>6. pendingWithdrawal' \in [Tokens -> [Accounts -> Requests \cup {NoRequest}]]
    BY <1>5, <2>1
  <2>7. VaultTypeOK'
    BY <1>0, <2>1, <2>3, <2>4, <2>5, <2>6 DEF VaultTypeOK
  <2>8. Solvent => Solvent'
    BY <2>1, <2>4, <2>5 DEF Solvent, AssertSolvent
  <2> QED
    BY <2>7, <2>8
<1>7. ASSUME NEW t \in Tokens, NEW a \in Accounts, RequestWithdraw(t, a)
      PROVE VaultTypeOK' /\ (Solvent => Solvent')
  <2>1. PICK n \in Amounts, recipient \in Recipients :
          Filed(t, a, [amount |-> n, recipient |-> recipient, age |-> 0])
    BY <1>7 DEF RequestWithdraw
  <2>2. [amount |-> n, recipient |-> recipient, age |-> 0] \in Requests
    BY VaultAssumption DEF Requests, MaxAge
  <2>3. pendingWithdrawal' \in [Tokens -> [Accounts -> Requests \cup {NoRequest}]]
    BY <1>5, <2>1, <2>2
  <2> QED
    BY <1>0, <1>7, <2>3 DEF RequestWithdraw, VaultTypeOK, Solvent, ledgerVars
<1>8. ASSUME NEW t \in Tokens, NEW a \in Accounts, CancelWithdraw(t, a)
      PROVE VaultTypeOK' /\ (Solvent => Solvent')
  <2>1. pendingWithdrawal' \in [Tokens -> [Accounts -> Requests \cup {NoRequest}]]
    BY <1>5, <1>8 DEF CancelWithdraw
  <2> QED
    BY <1>0, <1>8, <2>1 DEF CancelWithdraw, VaultTypeOK, Solvent, ledgerVars
<1>9. CASE SetWithdrawDelayBlocks
  BY <1>0, <1>9 DEF SetWithdrawDelayBlocks, VaultTypeOK, Solvent, ledgerVars
<1>10. CASE NextBlock
  <2>1. ASSUME NEW req \in Requests \cup {NoRequest}
        PROVE  Older(req) \in Requests \cup {NoRequest}
    BY <2>1, VaultAssumption DEF Older, Requests, NoRequest, MaxAge
  <2>2. pendingWithdrawal' \in [Tokens -> [Accounts -> Requests \cup {NoRequest}]]
    BY <1>0, <1>10, <2>1 DEF NextBlock
  <2> QED
    BY <1>0, <1>10, <2>2 DEF NextBlock, VaultTypeOK, Solvent, ledgerVars
<1> QED
  BY <1>1, <1>3, <1>4, <1>6, <1>7, <1>8, <1>9, <1>10 DEF VaultStep, NoCancelStep

-----------------------------------------------------------------------------
(* Steps of a route *)

Restorable == [balance : Ledgers, filledSell : [Orders -> Nat], filledBuy : [Orders -> Nat]]
RouteRecords == [intent : Intents, totalInput : Nat, totalOutput : Nat, before : Restorable]

LEMMA RouteParts ==
  ASSUME SettlementTypeOK, Running
  PROVE  /\ route \in RouteRecords
         /\ route.intent \in Intents
         /\ route.totalInput \in Nat /\ route.totalOutput \in Nat
         /\ route.before.balance \in Ledgers
         /\ route.before.filledSell \in [Orders -> Nat]
         /\ route.before.filledBuy \in [Orders -> Nat]
<1>1. route \in RouteRecords
  BY DEF SettlementTypeOK, RouteRecords, Restorable, Ledgers
<1> QED
  BY <1>1 DEF RouteRecords, Restorable

(* What a fill does to the types, the books and the totals. *)
Filled(o, n, pay) ==
  /\ pay \in Nat /\ n \in Nat
  /\ balance' \in Ledgers
  /\ \A a \in Accounts :
       balance'[Order[o].buyToken][a] =
         balance[Order[o].buyToken][a]
           - (IF a = Intent[route.intent].taker THEN pay ELSE 0)
           + (IF a = Order[o].recipient THEN pay ELSE 0)
  /\ \A a \in Accounts :
       balance'[Order[o].sellToken][a] =
         balance[Order[o].sellToken][a]
           - (IF a = Order[o].maker THEN n ELSE 0)
           + (IF a = Intent[route.intent].recipient THEN n ELSE 0)
  /\ \A u \in Tokens : u \notin {Order[o].sellToken, Order[o].buyToken} => balance'[u] = balance[u]
  /\ filledSellAmount' = [filledSellAmount EXCEPT ![o] = @ + n]
  /\ filledBuyAmount' = [filledBuyAmount EXCEPT ![o] = @ + pay]
  /\ route' = [route EXCEPT !.totalInput = @ + pay, !.totalOutput = @ + n]
  /\ filledSellAmount[o] + n <= Order[o].sellAmount
  /\ Running

LEMMA FillParts ==
  ASSUME SettlementTypeOK, FillsWithinSigned, NEW o \in Orders, NEW n \in 1..Order[o].sellAmount,
         SettleFill(o, n), NEW pay, pay = RequiredTakerPay(o, n)
  PROVE  Filled(o, n, pay)
<1> DEFINE order == Order[o]
           intent == Intent[route.intent]
           sold == Moved(balance, order.sellToken, order.maker, intent.recipient, n)
<1>1. /\ Running
      /\ filledSellAmount[o] + n <= order.sellAmount
      /\ balance[order.sellToken][order.maker] >= n
      /\ balance[order.buyToken][intent.taker] >= pay
      /\ filledSellAmount' = [filledSellAmount EXCEPT ![o] = @ + n]
      /\ filledBuyAmount' = [filledBuyAmount EXCEPT ![o] = @ + pay]
      /\ balance' = Moved(sold, order.buyToken, intent.taker, order.recipient, pay)
      /\ route' = [route EXCEPT !.totalInput = @ + pay, !.totalOutput = @ + n]
  BY DEF SettleFill, CanMove
<1>2. order.maker \in Accounts /\ order.recipient \in Accounts
      /\ order.sellToken \in Tokens /\ order.buyToken \in Tokens
      /\ order.sellToken # order.buyToken
      /\ intent.taker \in Accounts /\ intent.recipient \in Accounts
  BY <1>1, OrderParts, IntentParts, RouteParts
<1>3. n \in Nat /\ pay \in Nat
  BY <1>1, PayParts, OrderParts
<1>4. balance \in Ledgers
  BY DEF SettlementTypeOK, VaultTypeOK, Ledgers
<1> HIDE DEF order, intent
<1>5. /\ sold \in Ledgers
      /\ \A u \in Tokens : u # order.sellToken => sold[u] = balance[u]
      /\ \A a \in Accounts : sold[order.sellToken][a] =
           balance[order.sellToken][a] - (IF a = order.maker THEN n ELSE 0)
             + (IF a = intent.recipient THEN n ELSE 0)
  BY <1>1, <1>2, <1>3, <1>4, MovedParts
<1> HIDE DEF sold
<1>6. /\ balance' \in Ledgers
      /\ \A u \in Tokens : u # order.buyToken => balance'[u] = sold[u]
      /\ \A a \in Accounts : balance'[order.buyToken][a] =
           sold[order.buyToken][a] - (IF a = intent.taker THEN pay ELSE 0)
             + (IF a = order.recipient THEN pay ELSE 0)
  <2>1. sold[order.buyToken][intent.taker] >= pay
    BY <1>1, <1>2, <1>5
  <2>2. PICK tb \in Tokens, taker \in Accounts, to \in Accounts :
          tb = order.buyToken /\ taker = intent.taker /\ to = order.recipient
    BY <1>2
  <2>3. balance' = Moved(sold, tb, taker, to, pay) /\ sold[tb][taker] >= pay
    BY <1>1, <2>1, <2>2
  <2>4. /\ balance' \in Ledgers
        /\ \A u \in Tokens : u # tb => balance'[u] = sold[u]
        /\ \A a \in Accounts : balance'[tb][a] =
             sold[tb][a] - (IF a = taker THEN pay ELSE 0) + (IF a = to THEN pay ELSE 0)
    BY <1>3, <1>5, <2>3, MovedParts
  <2> QED
    BY <2>2, <2>4
<1> QED
  BY <1>1, <1>2, <1>3, <1>5, <1>6 DEF Filled, order, intent

-----------------------------------------------------------------------------
(* The invariant: types, books and the totals of a running route. None of  *)
(* the three is inductive without the other two.                           *)

Inv == SettlementTypeOK /\ FillsWithinSigned /\ TotalsAreReal

LEMMA InitInv == SettlementInit => Inv /\ Solvent
<1> SUFFICES ASSUME SettlementInit PROVE Inv /\ Solvent
  OBVIOUS
<1>1. ~Running
  BY DEF SettlementInit, Running
<1>2. VaultTypeOK /\ Solvent
  BY VaultAssumption DEF SettlementInit, VaultInit, VaultTypeOK, Solvent
<1>3. SettlementTypeOK
  BY <1>1, <1>2, SettlementAssumption DEF SettlementInit, SettlementTypeOK, Grants, NotLive
<1>4. ASSUME NEW o \in Orders PROVE CumulativeBuy(o, 0) = 0
  <2>1. Order[o].buyAmount \in Nat /\ Order[o].sellAmount \in Nat \ {0}
    BY OrderParts
  <2>2. CeilDiv(0 * Order[o].buyAmount, Order[o].sellAmount) = 0
    <3>1. 0 * Order[o].buyAmount = 0
      BY <2>1
    <3>2. CeilDiv(0, Order[o].sellAmount) = 0
      BY <2>1, CeilDivZero
    <3> QED
      BY <3>1, <3>2
  <2> QED
    BY <2>2 DEF CumulativeBuy
<1>5. Signed(filledSellAmount, filledBuyAmount)
  BY <1>4, OrderParts DEF SettlementInit, Signed
<1> QED
  BY <1>1, <1>2, <1>3, <1>5 DEF Inv, FillsWithinSigned, TotalsAreReal

(* A step that touches neither the books nor a running route. *)
LEMMA QuietStep ==
  ASSUME Inv, ~Running, UNCHANGED <<fillVars, route>>, VaultTypeOK',
         cancelled' \subseteq Orders, minimumEpoch' \in [Accounts -> 0..MaxEpoch],
         authorizations' \in [Policies -> Grants], minimumPolicyEpoch' \in 0..MaxEpoch,
         UNCHANGED usedNonce
  PROVE  Inv'
<1>1. ~Running'
  BY DEF Running
<1>2. SettlementTypeOK'
  BY <1>1 DEF Inv, SettlementTypeOK, fillVars
<1>3. Signed(filledSellAmount, filledBuyAmount)'
  BY DEF Inv, FillsWithinSigned, Signed, fillVars
<1> QED
  BY <1>1, <1>2, <1>3 DEF Inv, FillsWithinSigned, TotalsAreReal

LEMMA ExecuteInv ==
  ASSUME Inv, NEW i \in Intents, Execute(i)
  PROVE  Inv'
<1>1. /\ ~Running
      /\ usedNonce' = usedNonce \cup {<<Intent[i].taker, Intent[i].nonce>>}
      /\ route' = [intent |-> i, totalInput |-> 0, totalOutput |-> 0, before |-> Snapshot]
      /\ UNCHANGED <<vaultVars, fillVars, guardVars>>
  BY DEF Execute
<1>2. /\ Snapshot \in Restorable
      /\ Snapshot.balance = balance /\ Snapshot.filledSell = filledSellAmount
      /\ Snapshot.filledBuy = filledBuyAmount
  BY DEF Inv, SettlementTypeOK, VaultTypeOK, Snapshot, Restorable, Ledgers
<1>3. /\ route' \in RouteRecords /\ route'.intent = i /\ route'.totalInput = 0
      /\ route'.totalOutput = 0 /\ route'.before = Snapshot
  BY <1>1, <1>2 DEF RouteRecords
<1>4. usedNonce' \subseteq Accounts \X Nat
  BY <1>1, IntentParts DEF Inv, SettlementTypeOK
<1>5. SettlementTypeOK'
  BY <1>1, <1>3, <1>4
     DEF Inv, SettlementTypeOK, VaultTypeOK, RouteRecords, Restorable, Ledgers, vaultVars,
         ledgerVars, fillVars, guardVars
<1>6. Signed(filledSellAmount, filledBuyAmount)'
      /\ Signed(route'.before.filledSell, route'.before.filledBuy)
  BY <1>1, <1>2, <1>3 DEF Inv, FillsWithinSigned, Signed, fillVars
<1>7. balance' = route'.before.balance /\ balance \in Ledgers
  BY <1>1, <1>2, <1>3 DEF vaultVars, ledgerVars, Inv, SettlementTypeOK, VaultTypeOK, Ledgers
<1>8. TotalsAreReal'
  <2>1. route'.intent \in Intents /\ route'.before.balance = balance
    BY <1>2, <1>3
  <2>2. balance[Intent[i].inputToken][Intent[i].taker] \in Nat
        /\ balance[Intent[i].outputToken][Intent[i].recipient] \in Nat
        /\ Intent[i].maxInput \in Nat
    BY <1>7, IntentParts DEF Ledgers
  <2> QED
    BY <1>3, <1>7, <2>1, <2>2 DEF TotalsAreReal
<1> QED
  BY <1>5, <1>6, <1>8 DEF Inv, FillsWithinSigned

(* Two bounds that add up. *)
LEMMA Chain ==
  ASSUME NEW x \in Nat, NEW y \in Nat, NEW z \in Nat, NEW t \in Nat, NEW d \in Nat
  PROVE  /\ x >= y - t /\ z >= x - d => z >= y - (t + d)
         /\ x >= y + t /\ z = x + d => z >= y + (t + d)
OBVIOUS

LEMMA SettleFillInv ==
  ASSUME Inv, NEW o \in Orders, NEW n \in 1..Order[o].sellAmount, SettleFill(o, n)
  PROVE  Inv'
<1> DEFINE intent == Intent[route.intent]
           order == Order[o]
<1>0. SettlementTypeOK /\ FillsWithinSigned /\ TotalsAreReal
  BY DEF Inv
<1>1. PICK pay : pay = RequiredTakerPay(o, n)
  OBVIOUS
<1>fill. Filled(o, n, pay)
  BY <1>0, <1>1, FillParts
<1>2. /\ pay \in Nat /\ n \in Nat
      /\ balance' \in Ledgers
      /\ \A a \in Accounts :
           balance'[order.buyToken][a] =
             balance[order.buyToken][a] - (IF a = intent.taker THEN pay ELSE 0)
               + (IF a = order.recipient THEN pay ELSE 0)
      /\ \A a \in Accounts :
           balance'[order.sellToken][a] =
             balance[order.sellToken][a] - (IF a = order.maker THEN n ELSE 0)
               + (IF a = intent.recipient THEN n ELSE 0)
      /\ filledSellAmount' = [filledSellAmount EXCEPT ![o] = @ + n]
      /\ filledBuyAmount' = [filledBuyAmount EXCEPT ![o] = @ + pay]
      /\ route' = [route EXCEPT !.totalInput = @ + pay, !.totalOutput = @ + n]
      /\ Running
  BY <1>fill DEF Filled
<1>3. /\ order.sellToken = intent.outputToken
      /\ order.buyToken = intent.inputToken
      /\ filledSellAmount[o] + n <= order.sellAmount
      /\ route.totalInput + pay <= intent.maxInput
      /\ UNCHANGED <<totalLiabilities, physicalBalance, pendingWithdrawal,
                     withdrawDelayBlocks, guardVars, usedNonce>>
  BY <1>1 DEF SettleFill, RightPair, WithinMaxInput
<1>4. /\ route \in RouteRecords /\ route.intent \in Intents
      /\ route.totalInput \in Nat /\ route.totalOutput \in Nat
      /\ route.before.balance \in Ledgers
  BY <1>0, <1>2, RouteParts
<1>5. /\ route' \in RouteRecords /\ route'.intent = route.intent
      /\ route'.totalInput = route.totalInput + pay
      /\ route'.totalOutput = route.totalOutput + n
      /\ route'.before = route.before
  <2>1. route' = [intent |-> route.intent, totalInput |-> route.totalInput + pay,
                  totalOutput |-> route.totalOutput + n, before |-> route.before]
    BY <1>2, <1>4 DEF RouteRecords
  <2>2. route.before \in Restorable /\ route.totalInput + pay \in Nat
        /\ route.totalOutput + n \in Nat
    BY <1>2, <1>4 DEF RouteRecords
  <2> QED
    BY <1>4, <2>1, <2>2 DEF RouteRecords
<1>6. /\ filledSellAmount' \in [Orders -> Nat] /\ filledBuyAmount' \in [Orders -> Nat]
      /\ filledSellAmount'[o] = filledSellAmount[o] + n
      /\ filledBuyAmount'[o] = filledBuyAmount[o] + pay
      /\ \A x \in Orders : x # o => filledSellAmount'[x] = filledSellAmount[x]
                               /\ filledBuyAmount'[x] = filledBuyAmount[x]
  BY <1>0, <1>2 DEF SettlementTypeOK
<1>7. SettlementTypeOK'
  BY <1>0, <1>2, <1>3, <1>5, <1>6
     DEF SettlementTypeOK, VaultTypeOK, RouteRecords, Restorable, Ledgers, guardVars
<1>8. FillsWithinSigned'
  <2>1. filledBuyAmount[o] + pay = CumulativeBuy(o, filledSellAmount[o] + n)
        /\ CumulativeBuy(o, filledSellAmount[o] + n) <= order.buyAmount
    BY <1>0, <1>1, <1>2, <1>3, PayParts
  <2>2. Signed(filledSellAmount, filledBuyAmount)'
    <3> SUFFICES ASSUME NEW x \in Orders
                 PROVE  /\ filledSellAmount'[x] <= Order[x].sellAmount
                        /\ filledBuyAmount'[x] = CumulativeBuy(x, filledSellAmount'[x])
                        /\ filledBuyAmount'[x] <= Order[x].buyAmount
      BY DEF Signed, CumulativeBuy
    <3>1. CASE x = o
      BY <1>3, <1>6, <2>1, <3>1
    <3>2. CASE x # o
      BY <1>0, <1>6, <3>2 DEF FillsWithinSigned, Signed
    <3> QED
      BY <3>1, <3>2
  <2>3. Signed(route'.before.filledSell, route'.before.filledBuy)
    BY <1>0, <1>2, <1>5 DEF FillsWithinSigned
  <2> QED
    BY <2>2, <2>3 DEF FillsWithinSigned, Signed
<1>9. TotalsAreReal'
  <2> DEFINE old == route.before.balance
             tin == intent.inputToken
             tout == intent.outputToken
  <2>0. pay \in Nat /\ n \in Nat
    BY <1>2
  <2>1. /\ tin \in Tokens /\ tout \in Tokens
        /\ intent.taker \in Accounts /\ intent.recipient \in Accounts
        /\ intent.maxInput \in Nat
    BY <1>4, IntentParts
  <2>2. /\ balance[tin][intent.taker] \in Nat /\ old[tin][intent.taker] \in Nat
        /\ balance[tout][intent.recipient] \in Nat /\ old[tout][intent.recipient] \in Nat
    BY <1>0, <1>4, <2>1 DEF SettlementTypeOK, VaultTypeOK, Ledgers
  <2>3. /\ balance[tin][intent.taker] >= old[tin][intent.taker] - route.totalInput
        /\ (\A x \in Orders : Order[x].maker # intent.recipient) =>
             balance[tout][intent.recipient] >= old[tout][intent.recipient] + route.totalOutput
    BY <1>0, <1>2 DEF TotalsAreReal
  <2>4. balance'[tin][intent.taker] >= balance[tin][intent.taker] - pay
    BY <1>2, <1>3, <2>1, <2>2
  <2>5. (\A x \in Orders : Order[x].maker # intent.recipient) =>
          balance'[tout][intent.recipient] = balance[tout][intent.recipient] + n
    BY <1>2, <1>3, <2>1, <2>2
  <2>6. balance'[tin][intent.taker] \in Nat /\ balance'[tout][intent.recipient] \in Nat
    BY <1>2, <2>1 DEF Ledgers
  <2>7. balance'[tin][intent.taker] >= old[tin][intent.taker] - (route.totalInput + pay)
    BY <1>4, <2>0, <2>2, <2>3, <2>4, <2>6, Chain
  <2>8. (\A x \in Orders : Order[x].maker # intent.recipient) =>
          balance'[tout][intent.recipient]
            >= old[tout][intent.recipient] + (route.totalOutput + n)
    BY <1>4, <2>0, <2>2, <2>3, <2>5, <2>6, Chain
  <2> QED
    BY <1>3, <1>5, <2>7, <2>8 DEF TotalsAreReal
<1> QED
  BY <1>7, <1>8, <1>9 DEF Inv

LEMMA FinishInv == ASSUME Inv, Finish PROVE Inv'
<1>1. ~Running' /\ UNCHANGED <<vaultVars, fillVars, guardVars, usedNonce>>
  BY DEF Finish, Running
<1>2. SettlementTypeOK'
  BY <1>1 DEF Inv, SettlementTypeOK, VaultTypeOK, vaultVars, ledgerVars, fillVars, guardVars
<1>3. Signed(filledSellAmount, filledBuyAmount)'
  BY <1>1 DEF Inv, FillsWithinSigned, Signed, fillVars
<1> QED
  BY <1>1, <1>2, <1>3 DEF Inv, FillsWithinSigned, TotalsAreReal

LEMMA RevertInv == ASSUME Inv, Revert PROVE Inv'
<1>1. /\ Running /\ ~Running'
      /\ balance' = route.before.balance
      /\ filledSellAmount' = route.before.filledSell
      /\ filledBuyAmount' = route.before.filledBuy
      /\ usedNonce' \subseteq usedNonce
      /\ UNCHANGED <<totalLiabilities, physicalBalance, pendingWithdrawal,
                     withdrawDelayBlocks, guardVars>>
  BY DEF Revert, Running
<1>2. SettlementTypeOK'
  BY <1>1, RouteParts DEF Inv, SettlementTypeOK, VaultTypeOK, Ledgers, guardVars
<1>3. Signed(filledSellAmount, filledBuyAmount)'
  BY <1>1 DEF Inv, FillsWithinSigned, Signed
<1> QED
  BY <1>1, <1>2, <1>3 DEF Inv, FillsWithinSigned, TotalsAreReal

LEMMA NextInv == Inv /\ [SettlementNext]_settlementVars => Inv'
<1> SUFFICES ASSUME Inv, [SettlementNext]_settlementVars PROVE Inv'
  OBVIOUS
<1>0. SettlementTypeOK
  BY DEF Inv
<1>1. CASE Vault
  BY <1>0, <1>1, VaultCall, QuietStep DEF Vault, guardVars, Inv, SettlementTypeOK
<1>2. ASSUME UNCHANGED vaultVars PROVE VaultTypeOK'
  BY <1>0, <1>2 DEF SettlementTypeOK, VaultTypeOK, vaultVars, ledgerVars
<1>3. ASSUME NEW o \in Orders, CancelOrder(o) PROVE Inv'
  BY <1>0, <1>2, <1>3, QuietStep DEF CancelOrder, SettlementTypeOK
<1>4. ASSUME NEW a \in Accounts, InvalidateOrdersBefore(a) PROVE Inv'
  <2>1. minimumEpoch' \in [Accounts -> 0..MaxEpoch]
    BY <1>0, <1>4 DEF InvalidateOrdersBefore, SettlementTypeOK
  <2> QED
    BY <1>0, <1>2, <1>4, <2>1, QuietStep DEF InvalidateOrdersBefore, SettlementTypeOK
<1>5. ASSUME NEW p \in Policies, Authorize(p) PROVE Inv'
  <2>1. PICK e \in minimumPolicyEpoch..MaxEpoch :
          authorizations' = [authorizations EXCEPT ![p] = [live |-> TRUE, epoch |-> e]]
    BY <1>5 DEF Authorize
  <2>2. [live |-> TRUE, epoch |-> e] \in Grants
    BY <1>0, SettlementAssumption DEF SettlementTypeOK, Grants
  <2>3. authorizations' \in [Policies -> Grants]
    BY <1>0, <2>1, <2>2 DEF SettlementTypeOK
  <2> QED
    BY <1>0, <1>2, <1>5, <2>3, QuietStep DEF Authorize, SettlementTypeOK
<1>6. ASSUME NEW p \in Policies, RevokeOrExpire(p) PROVE Inv'
  <2>1. authorizations' \in [Policies -> Grants]
    BY <1>0, <1>6 DEF RevokeOrExpire, SettlementTypeOK, Grants
  <2> QED
    BY <1>0, <1>2, <1>6, <2>1, QuietStep DEF RevokeOrExpire, SettlementTypeOK
<1>7. CASE InvalidatePoliciesBefore
  BY <1>0, <1>2, <1>7, QuietStep DEF InvalidatePoliciesBefore, SettlementTypeOK
<1>8. CASE UNCHANGED settlementVars
  <2>1. Running' <=> Running
    BY <1>8 DEF settlementVars, Running
  <2> QED
    BY <1>8, <2>1
       DEF Inv, SettlementTypeOK, VaultTypeOK, FillsWithinSigned, Signed, TotalsAreReal, settlementVars,
           vaultVars, ledgerVars, fillVars, guardVars
<1> QED
  BY <1>1, <1>3, <1>4, <1>5, <1>6, <1>7, <1>8, ExecuteInv, SettleFillInv, FinishInv,
     RevertInv, OrderParts DEF SettlementNext

(* Every variable keeps its type; in particular no balance is negative.    *)
THEOREM TypeInvariant == SettlementSpec => []SettlementTypeOK
<1>1. Inv => SettlementTypeOK
  BY DEF Inv
<1> QED
  BY <1>1, InitInv, NextInv, PTL DEF SettlementSpec

(* No order is ever sold beyond what was signed, and what its maker was    *)
(* paid is the signed price of everything sold, rounded up once            *)
(* (requiredTakerPay), however many routes filled it and whatever reverted.*)
THEOREM FillsStayWithinSigned == SettlementSpec => []FillsWithinSigned
<1>1. Inv => FillsWithinSigned
  BY DEF Inv
<1> QED
  BY <1>1, InitInv, NextInv, PTL DEF SettlementSpec

(* What execute counts as input and output is what the taker loses at most *)
(* and the recipient gains at least, and the input stays within the        *)
(* signed maximum (AtomicRouter.execute).                                  *)
THEOREM RouteTotalsAreReal == SettlementSpec => []TotalsAreReal
<1>1. Inv => TotalsAreReal
  BY DEF Inv
<1> QED
  BY <1>1, InitInv, NextInv, PTL DEF SettlementSpec
-----------------------------------------------------------------------------
(* Solvency: routes move balances, and nothing else *)

LEMMA RoutesKeepVault ==
  ASSUME SettlementNext, ~Vault
  PROVE  UNCHANGED <<totalLiabilities, physicalBalance>>
BY DEF SettlementNext, CancelOrder, InvalidateOrdersBefore, Authorize, RevokeOrExpire,
       InvalidatePoliciesBefore, Execute, SettleFill, Finish, Revert, vaultVars, ledgerVars

(* The vault holds at least the tokens it owes (FxVault._assertSolvent)    *)
(* after every transaction and inside every route, whatever the tokens     *)
(* charge and whoever sends the vault tokens.                              *)
THEOREM VaultIsSolvent == SettlementSpec => []Solvent
<1>1. Inv /\ Solvent /\ [SettlementNext]_settlementVars => Solvent'
  <2> SUFFICES ASSUME Inv, Solvent, [SettlementNext]_settlementVars PROVE Solvent'
    OBVIOUS
  <2>1. CASE Vault
    BY <2>1, VaultCall DEF Inv, Vault
  <2>2. CASE UNCHANGED settlementVars
    BY <2>2 DEF settlementVars, vaultVars, ledgerVars, Solvent
  <2>3. CASE SettlementNext /\ ~Vault
    <3>1. UNCHANGED <<totalLiabilities, physicalBalance>>
      BY <2>3, RoutesKeepVault
    <3> QED
      BY <3>1 DEF Solvent
  <2> QED
    BY <2>1, <2>2, <2>3
<1> QED
  BY <1>1, InitInv, NextInv, PTL DEF SettlementSpec

-----------------------------------------------------------------------------
(* The ledger: what the vault says it owes is what its accounts hold.      *)
(* Inductive only together with the totals a revert would restore.         *)

RouteKeepsTotals ==
  Running =>
    \A t \in Tokens :
      SumFunctionOnSet(route.before.balance[t], Accounts) = totalLiabilities[t]
LedgerInv == LedgerAddsUp /\ RouteKeepsTotals

LEMMA AccountsAreFinite == IsFiniteSet(Accounts)
BY VaultAssumption

(* One account of a row changes. *)
LEMMA RowChange ==
  ASSUME NEW f \in [Accounts -> Nat], NEW g \in [Accounts -> Nat], NEW a \in Accounts,
         \A x \in Accounts : x # a => g[x] = f[x]
  PROVE  SumFunctionOnSet(g, Accounts) = SumFunctionOnSet(f, Accounts) + g[a] - f[a]
<1>1. (\A x \in Accounts : f[x] \in Int) /\ g[a] \in Int
  OBVIOUS
<1> QED
  BY <1>1, AccountsAreFinite, SumChange

LEMMA RowTotal ==
  ASSUME NEW f \in [Accounts -> Nat]
  PROVE  SumFunctionOnSet(f, Accounts) \in Nat
BY AccountsAreFinite, SumIsNatural

(* A move within a row keeps its total, even a move of an account to       *)
(* itself.                                                                 *)
MovesWithin(f, g, from, to, n) ==
  \A a \in Accounts :
    g[a] = f[a] - (IF a = from THEN n ELSE 0) + (IF a = to THEN n ELSE 0)

LEMMA RowMove ==
  ASSUME NEW f \in [Accounts -> Nat], NEW g \in [Accounts -> Nat], NEW from \in Accounts,
         NEW to \in Accounts, NEW n \in Nat, MovesWithin(f, g, from, to, n)
  PROVE  SumFunctionOnSet(g, Accounts) = SumFunctionOnSet(f, Accounts)
<1>1. PICK mid : mid = [a \in Accounts |-> f[a] - (IF a = from THEN n ELSE 0)]
  OBVIOUS
<1>2. \A a \in Accounts : f[a] \in Int /\ g[a] \in Int /\ mid[a] \in Int
  BY <1>1
<1>3. mid[from] = f[from] - n /\ \A a \in Accounts : a # from => mid[a] = f[a]
  BY <1>1
<1>4. g[to] = mid[to] + n /\ \A a \in Accounts : a # to => g[a] = mid[a]
  BY <1>1 DEF MovesWithin
<1>5. SumFunctionOnSet(mid, Accounts) = SumFunctionOnSet(f, Accounts) + mid[from] - f[from]
  BY <1>2, <1>3, AccountsAreFinite, SumChange
<1>6. SumFunctionOnSet(g, Accounts) = SumFunctionOnSet(mid, Accounts) + g[to] - mid[to]
  BY <1>2, <1>4, AccountsAreFinite, SumChange
<1>7. SumFunctionOnSet(f, Accounts) \in Nat
  BY RowTotal
<1>8. SumFunctionOnSet(mid, Accounts) = SumFunctionOnSet(f, Accounts) - n
  BY <1>2, <1>3, <1>5, <1>7
<1> QED
  BY <1>2, <1>4, <1>6, <1>7, <1>8

(* A cash movement changes what is owed by what it changes of the account. *)
LEMMA CashKeepsLedger ==
  ASSUME SettlementTypeOK, LedgerAddsUp, NEW t \in Tokens, NEW a \in Accounts, NEW d \in Int,
         balance' = [balance EXCEPT ![t][a] = @ + d], balance[t][a] + d \in Nat,
         totalLiabilities' = [totalLiabilities EXCEPT ![t] = @ + d]
  PROVE  LedgerAddsUp'
<1>1. balance \in Ledgers /\ totalLiabilities \in [Tokens -> Int]
  BY DEF SettlementTypeOK, VaultTypeOK, Ledgers
<1>2. PICK f : f = balance[t]
  OBVIOUS
<1>3. PICK g : g = balance'[t]
  OBVIOUS
<1>4. f \in [Accounts -> Nat] /\ g \in [Accounts -> Nat] /\ g[a] = f[a] + d
      /\ \A x \in Accounts : x # a => g[x] = f[x]
  BY <1>1, <1>2, <1>3 DEF Ledgers
<1>5. SumFunctionOnSet(g, Accounts) = SumFunctionOnSet(f, Accounts) + g[a] - f[a]
  BY <1>4, RowChange
<1>6. SumFunctionOnSet(f, Accounts) = totalLiabilities[t]
  BY <1>2 DEF LedgerAddsUp
<1>7. SumFunctionOnSet(g, Accounts) = totalLiabilities[t] + d
  BY <1>1, <1>4, <1>5, <1>6
<1>8. \A u \in Tokens : u # t =>
        balance'[u] = balance[u] /\ totalLiabilities'[u] = totalLiabilities[u]
  BY <1>1 DEF Ledgers
<1>9. totalLiabilities'[t] = totalLiabilities[t] + d
  BY <1>1
<1> SUFFICES ASSUME NEW u \in Tokens
             PROVE  totalLiabilities'[u] = SumFunctionOnSet(balance'[u], Accounts)
  BY DEF LedgerAddsUp
<1>10. CASE u = t
  BY <1>3, <1>7, <1>9, <1>10
<1>11. CASE u # t
  BY <1>8, <1>11 DEF LedgerAddsUp
<1> QED
  BY <1>10, <1>11

LEMMA VaultKeepsLedger ==
  ASSUME SettlementTypeOK, LedgerAddsUp, VaultStep
  PROVE  LedgerAddsUp'
<1>0. balance \in Ledgers /\ totalLiabilities \in [Tokens -> Int]
  BY DEF SettlementTypeOK, VaultTypeOK, Ledgers
<1>1. CASE UNCHANGED <<balance, totalLiabilities>>
  BY <1>1 DEF LedgerAddsUp
<1>2. ASSUME NEW t \in Tokens, NEW a \in Accounts, Deposit(t, a) PROVE LedgerAddsUp'
  <2>1. PICK amount \in Amounts : \E n \in 1..amount :
          /\ balance' = [balance EXCEPT ![t][a] = @ + n]
          /\ totalLiabilities' = [totalLiabilities EXCEPT ![t] = @ + n]
    BY <1>2 DEF Deposit
  <2>2. PICK n \in 1..amount :
          /\ balance' = [balance EXCEPT ![t][a] = @ + n]
          /\ totalLiabilities' = [totalLiabilities EXCEPT ![t] = @ + n]
    BY <2>1
  <2>3. n \in Int /\ balance[t][a] + n \in Nat
    BY <1>0, VaultAssumption DEF Ledgers
  <2> QED
    BY <2>2, <2>3, CashKeepsLedger
<1>3. ASSUME NEW t \in Tokens, NEW a \in Accounts, Withdraw(t, a) PROVE LedgerAddsUp'
  <2>1. PICK n \in Amounts :
          /\ balance[t][a] >= n
          /\ balance' = [balance EXCEPT ![t][a] = @ - n]
          /\ totalLiabilities' = [totalLiabilities EXCEPT ![t] = @ - n]
    BY <1>3 DEF Withdraw
  <2>2. PICK d \in Int : d = 0 - n
    BY VaultAssumption
  <2>3. balance[t][a] \in Nat /\ n \in Nat /\ totalLiabilities[t] \in Int
    BY <1>0, VaultAssumption DEF Ledgers
  <2>4. balance[t][a] - n = balance[t][a] + d /\ balance[t][a] + d \in Nat
        /\ totalLiabilities[t] - n = totalLiabilities[t] + d
    BY <2>1, <2>2, <2>3
  <2>5. balance' = [balance EXCEPT ![t][a] = @ + d]
        /\ totalLiabilities' = [totalLiabilities EXCEPT ![t] = @ + d]
    BY <2>1, <2>4
  <2> QED
    BY <2>4, <2>5, CashKeepsLedger
<1> QED
  BY <1>1, <1>2, <1>3
     DEF VaultStep, NoCancelStep, Donate, RescueSurplus, RequestWithdraw, CancelWithdraw,
         SetWithdrawDelayBlocks, NextBlock, ledgerVars

(* A fill moves tokens between accounts and keeps what there is of each. *)
LEMMA FillKeepsTotals ==
  ASSUME SettlementTypeOK, NEW o \in Orders, NEW n, NEW pay, Filled(o, n, pay), NEW t \in Tokens
  PROVE  SumFunctionOnSet(balance'[t], Accounts) = SumFunctionOnSet(balance[t], Accounts)
<1>1. PICK f : f = balance[t]
  OBVIOUS
<1>2. PICK g : g = balance'[t]
  OBVIOUS
<1>3. f \in [Accounts -> Nat] /\ g \in [Accounts -> Nat]
  BY <1>1, <1>2 DEF SettlementTypeOK, VaultTypeOK, Filled, Ledgers
<1>4. Intent[route.intent].taker \in Accounts /\ Intent[route.intent].recipient \in Accounts
      /\ Order[o].maker \in Accounts /\ Order[o].recipient \in Accounts
      /\ n \in Nat /\ pay \in Nat
  BY OrderParts, IntentParts, RouteParts DEF Filled
<1>5. CASE t = Order[o].buyToken
  <2>1. PICK taker \in Accounts, to \in Accounts :
          taker = Intent[route.intent].taker /\ to = Order[o].recipient
    BY <1>4
  <2>2. MovesWithin(f, g, taker, to, pay)
    BY <1>1, <1>2, <1>5, <2>1 DEF Filled, MovesWithin
  <2>3. n \in Nat /\ pay \in Nat
    BY <1>4
  <2>4. SumFunctionOnSet(g, Accounts) = SumFunctionOnSet(f, Accounts)
    BY <1>3, <2>2, <2>3, RowMove
  <2> QED
    BY <1>1, <1>2, <2>4
<1>6. CASE t = Order[o].sellToken
  <2>1. PICK maker \in Accounts, to \in Accounts :
          maker = Order[o].maker /\ to = Intent[route.intent].recipient
    BY <1>4
  <2>2. MovesWithin(f, g, maker, to, n)
    BY <1>1, <1>2, <1>6, <2>1 DEF Filled, MovesWithin
  <2>3. n \in Nat /\ pay \in Nat
    BY <1>4
  <2>4. SumFunctionOnSet(g, Accounts) = SumFunctionOnSet(f, Accounts)
    BY <1>3, <2>2, <2>3, RowMove
  <2> QED
    BY <1>1, <1>2, <2>4
<1>7. CASE t \notin {Order[o].sellToken, Order[o].buyToken}
  BY <1>7 DEF Filled
<1> QED
  BY <1>5, <1>6, <1>7

LEMMA LedgerStep ==
  ASSUME Inv, LedgerInv, SettlementNext
  PROVE  LedgerInv'
<1>0. SettlementTypeOK /\ FillsWithinSigned /\ LedgerAddsUp
  BY DEF Inv, LedgerInv
<1>1. CASE Vault
  <2>1. VaultStep /\ ~Running /\ ~Running'
    BY <1>1 DEF Vault, Running
  <2>2. LedgerAddsUp'
    BY <1>0, <2>1, VaultKeepsLedger
  <2> QED
    BY <2>1, <2>2 DEF LedgerInv, RouteKeepsTotals
<1>2. CASE ~Running /\ UNCHANGED <<vaultVars, route>>
  BY <1>0, <1>2 DEF LedgerInv, LedgerAddsUp, RouteKeepsTotals, Running, vaultVars, ledgerVars
<1>3. ASSUME NEW i \in Intents, Execute(i) PROVE LedgerInv'
  <2>1. route'.before.balance = balance /\ balance' = balance
        /\ totalLiabilities' = totalLiabilities
    BY <1>3 DEF Execute, Snapshot, vaultVars, ledgerVars
  <2> QED
    BY <1>0, <2>1 DEF LedgerInv, LedgerAddsUp, RouteKeepsTotals
<1>4. ASSUME NEW o \in Orders, NEW n \in 1..Order[o].sellAmount, SettleFill(o, n)
      PROVE  LedgerInv'
  <2>1. PICK pay : pay = RequiredTakerPay(o, n)
    OBVIOUS
  <2>2. Filled(o, n, pay)
    BY <1>0, <1>4, <2>1, FillParts
  <2>3. Running /\ route \in RouteRecords
    BY <1>0, <2>2, RouteParts DEF Filled
  <2>4. route' = [route EXCEPT !.totalInput = @ + pay, !.totalOutput = @ + n]
    BY <2>2 DEF Filled
  <2>5. route'.before = route.before
    BY <2>3, <2>4 DEF RouteRecords
  <2>6. totalLiabilities' = totalLiabilities
    BY <1>4 DEF SettleFill
  <2>7. \A t \in Tokens :
          SumFunctionOnSet(balance'[t], Accounts) = SumFunctionOnSet(balance[t], Accounts)
    BY <1>0, <2>2, FillKeepsTotals
  <2> QED
    BY <2>3, <2>5, <2>6, <2>7 DEF LedgerInv, LedgerAddsUp, RouteKeepsTotals
<1>5. CASE Finish
  <2>1. ~Running' /\ UNCHANGED vaultVars
    BY <1>5 DEF Finish, Running
  <2> QED
    BY <1>0, <2>1 DEF LedgerInv, LedgerAddsUp, RouteKeepsTotals, vaultVars, ledgerVars
<1>6. CASE Revert
  <2>1. /\ Running /\ ~Running' /\ balance' = route.before.balance
        /\ totalLiabilities' = totalLiabilities
    BY <1>6 DEF Revert, Running
  <2> QED
    BY <2>1 DEF LedgerInv, LedgerAddsUp, RouteKeepsTotals
<1> QED
  BY <1>1, <1>2, <1>3, <1>4, <1>5, <1>6
     DEF SettlementNext, CancelOrder, InvalidateOrdersBefore, Authorize, RevokeOrExpire,
         InvalidatePoliciesBefore

LEMMA LedgerInit == SettlementInit => LedgerInv
<1> SUFFICES ASSUME SettlementInit PROVE LedgerInv
  OBVIOUS
<1>1. ~Running
  BY DEF SettlementInit, Running
<1>2. ASSUME NEW t \in Tokens PROVE totalLiabilities[t] = SumFunctionOnSet(balance[t], Accounts)
  <2>1. \A a \in Accounts : balance[t][a] = 0
    BY DEF SettlementInit, VaultInit
  <2>2. SumFunctionOnSet(balance[t], Accounts) = 0
    BY <2>1, AccountsAreFinite, SumZero
  <2> QED
    BY <2>2 DEF SettlementInit, VaultInit
<1> QED
  BY <1>1, <1>2 DEF LedgerInv, LedgerAddsUp, RouteKeepsTotals

LEMMA LedgerNext == Inv /\ LedgerInv /\ [SettlementNext]_settlementVars => LedgerInv'
<1>1. CASE UNCHANGED settlementVars
  BY <1>1 DEF settlementVars, vaultVars, ledgerVars, LedgerInv, LedgerAddsUp, RouteKeepsTotals, Running
<1> QED
  BY <1>1, LedgerStep

(* What the vault says it owes of a token is what its accounts hold of it, *)
(* before, during and after every route, committed or reverted             *)
(* (FxVault.move leaves totalLiabilities alone).                           *)
THEOREM LedgerIsTrue == SettlementSpec => []LedgerAddsUp
<1>1. LedgerInv => LedgerAddsUp
  BY DEF LedgerInv
<1> QED
  BY <1>1, LedgerInit, LedgerNext, InitInv, NextInv, PTL DEF SettlementSpec

-----------------------------------------------------------------------------
(* Cancellation *)

(* A running route has sold nothing of an order that is withdrawn.         *)
RouteSparesWithdrawn ==
  Running =>
    \A o \in Orders : Withdrawn(o) => filledSellAmount[o] = route.before.filledSell[o]

Spared == \A o \in Orders : Withdrawn(o) => FilledSell'[o] = FilledSell[o] /\ Withdrawn(o)'

(* Governance only withdraws more orders. *)
LEMMA WithdrawnForGood ==
  ASSUME SettlementTypeOK, SettlementNext, NEW o \in Orders, Withdrawn(o)
  PROVE  Withdrawn(o)'
<1>1. CASE UNCHANGED <<cancelled, minimumEpoch>>
  BY <1>1 DEF Withdrawn
<1>2. CASE \E x \in Orders : CancelOrder(x)
  BY <1>2 DEF CancelOrder, Withdrawn
<1>3. CASE \E x \in Orders : InvalidateOrdersBefore(Order[x].maker)
  <2>1. PICK x \in Orders : InvalidateOrdersBefore(Order[x].maker)
    BY <1>3
  <2>2. PICK e \in 0..MaxEpoch : /\ e > minimumEpoch[Order[x].maker]
                                 /\ minimumEpoch' = [minimumEpoch EXCEPT ![Order[x].maker] = e]
    BY <2>1 DEF InvalidateOrdersBefore
  <2>3. Order[o].maker \in Accounts /\ Order[x].maker \in Accounts /\ Order[o].epoch \in Nat
    BY OrderParts
  <2>4. minimumEpoch \in [Accounts -> 0..MaxEpoch]
    BY DEF SettlementTypeOK
  <2>5. minimumEpoch'[Order[o].maker] >= minimumEpoch[Order[o].maker]
    BY <2>2, <2>3, <2>4, SettlementAssumption
  <2>6. minimumEpoch'[Order[o].maker] \in Int /\ minimumEpoch[Order[o].maker] \in Int
    BY <2>2, <2>3, <2>4, SettlementAssumption
  <2>7. cancelled' = cancelled
    BY <2>1 DEF InvalidateOrdersBefore
  <2> QED
    BY <2>3, <2>5, <2>6, <2>7 DEF Withdrawn
<1> QED
  BY <1>1, <1>2, <1>3
     DEF SettlementNext, Vault, Authorize, RevokeOrExpire, InvalidatePoliciesBefore, Execute,
         SettleFill, Finish, Revert, guardVars

(* A record of a running route is not the absence of one. *)
LEMMA RoutesDiffer ==
  ASSUME NEW r, "totalInput" \in DOMAIN r
  PROVE  r # NoRoute
<1>1. "totalInput" # "intent"
  OBVIOUS
<1> QED
  BY <1>1 DEF NoRoute

LEMMA RouteSparesStep ==
  ASSUME Inv, RouteSparesWithdrawn, SettlementNext
  PROVE  Spared /\ RouteSparesWithdrawn'
<1>0. SettlementTypeOK
  BY DEF Inv
<1>1. \A o \in Orders : Withdrawn(o) => Withdrawn(o)'
  BY <1>0, WithdrawnForGood
<1>2. CASE ~Running /\ UNCHANGED <<fillVars, route>>
  BY <1>1, <1>2 DEF Spared, FilledSell, RouteSparesWithdrawn, Running, fillVars
<1>3. ASSUME NEW i \in Intents, Execute(i)
      PROVE  Spared /\ RouteSparesWithdrawn'
  <2>1. ~Running /\ route'.before.filledSell = filledSellAmount
        /\ filledSellAmount' = filledSellAmount
    BY <1>3 DEF Execute, Snapshot, fillVars
  <2>2. FilledSell' = FilledSell
    BY <2>1 DEF FilledSell
  <2> QED
    BY <1>1, <2>1, <2>2 DEF Spared, RouteSparesWithdrawn
<1>4. ASSUME NEW x \in Orders, NEW n \in 1..Order[x].sellAmount, SettleFill(x, n)
      PROVE  Spared /\ RouteSparesWithdrawn'
  <2>1. PICK pay : pay = RequiredTakerPay(x, n)
    OBVIOUS
  <2>2. Filled(x, n, pay)
    BY <1>0, <1>4, <2>1, FillParts DEF Inv
  <2>3. Running /\ route \in RouteRecords
    BY <1>0, <2>2, RouteParts DEF Filled
  <2>4. route' = [route EXCEPT !.totalInput = @ + pay, !.totalOutput = @ + n]
    BY <2>2 DEF Filled
  <2>5. route'.before = route.before /\ route'.intent \in Intents
    BY <2>3, <2>4 DEF RouteRecords
  <2>6. \A o \in Orders : o # x => filledSellAmount'[o] = filledSellAmount[o]
    BY <1>0, <2>2 DEF Filled, SettlementTypeOK
  <2>7. ~Withdrawn(x)
    BY <1>4 DEF SettleFill, IsInvalid, Withdrawn
  <2>8. \A o \in Orders : Withdrawn(o)' = Withdrawn(o)
    BY <1>4 DEF SettleFill, guardVars, Withdrawn
  <2>9. Running'
    BY <2>3, <2>4, RoutesDiffer DEF Running, RouteRecords
  <2>10. FilledSell' = FilledSell
    BY <2>3, <2>5, <2>9 DEF FilledSell
  <2>11. RouteSparesWithdrawn'
    BY <2>3, <2>5, <2>6, <2>7, <2>8 DEF RouteSparesWithdrawn
  <2> QED
    BY <1>1, <2>10, <2>11 DEF Spared
<1>5. CASE Finish
  BY <1>1, <1>5 DEF Finish, Spared, FilledSell, RouteSparesWithdrawn, Running, fillVars
<1>6. CASE Revert
  BY <1>1, <1>6 DEF Revert, Spared, FilledSell, RouteSparesWithdrawn, Running
<1> QED
  BY <1>2, <1>3, <1>4, <1>5, <1>6
     DEF SettlementNext, Vault, CancelOrder, InvalidateOrdersBefore, Authorize, RevokeOrExpire,
         InvalidatePoliciesBefore, fillVars

(* An order its maker cancelled, or whose epoch it invalidated, stays so   *)
(* and is never filled by a route that commits (OrderCancellation.sol,     *)
(* FxSettlement.settleFill).                                               *)
THEOREM CancellationIsForGood == SettlementSpec => CancellationIsFinal
<1>1. SettlementInit => RouteSparesWithdrawn
  BY DEF SettlementInit, RouteSparesWithdrawn, Running
<1>2. Inv /\ RouteSparesWithdrawn /\ [SettlementNext]_settlementVars => RouteSparesWithdrawn'
  <2>1. CASE UNCHANGED settlementVars
    BY <2>1 DEF RouteSparesWithdrawn, Withdrawn, Running, settlementVars, fillVars, guardVars
  <2> QED
    BY <2>1, RouteSparesStep
<1>3. Inv /\ RouteSparesWithdrawn /\ [SettlementNext]_settlementVars => [Spared]_settlementVars
  BY RouteSparesStep
<1>4. SettlementSpec => [][Spared]_settlementVars
  BY <1>1, <1>2, <1>3, InitInv, NextInv, PTL DEF SettlementSpec
<1> QED
  BY <1>4, PTL DEF CancellationIsFinal, Spared

-----------------------------------------------------------------------------
(* The kernel implements the atomic exchange. The invariant of a running   *)
(* route says what it may have done so far: it is what Exchange promises,  *)
(* with the totals counted so far for the terms of the intent.             *)

(* What the orders of account a have sold of token t between two books. *)
OrdersSelling(a, t) == {o \in Orders : Order[o].maker = a /\ Order[o].sellToken = t}
SoldBetween(old, new, a, t) ==
  SumFunctionOnSet([o \in Orders |-> new[o] - old[o]], OrdersSelling(a, t))
SoldSince(a, t) == SoldBetween(route.before.filledSell, filledSellAmount, a, t)

SpentSince(a, t) ==
  IF a = Intent[route.intent].taker /\ t = Intent[route.intent].inputToken
  THEN route.totalInput ELSE 0

NobodyElsePays ==
  \A t \in Tokens, a \in Accounts :
    balance[t][a] >= route.before.balance[t][a] - SpentSince(a, t) - SoldSince(a, t)

RecipientGets ==
  LET i == Intent[route.intent] IN
  SoldSince(i.recipient, i.outputToken) = 0 =>
    balance[i.outputToken][i.recipient] >=
      route.before.balance[i.outputToken][i.recipient] + route.totalOutput

FillsGrow ==
  \A o \in Orders : /\ filledSellAmount[o] >= route.before.filledSell[o]
                    /\ filledBuyAmount[o] >= route.before.filledBuy[o]

RouteInv ==
  Running => /\ NonceOf(route.intent) \in usedNonce
             /\ IsValid(Intent[route.intent].policy)
             /\ FillsGrow
             /\ NobodyElsePays
             /\ RecipientGets

LEMMA OrdersAreFinite == IsFiniteSet(Orders)
BY SettlementAssumption

LEMMA SellingAreFinite ==
  ASSUME NEW a, NEW t
  PROVE  IsFiniteSet(OrdersSelling(a, t)) /\ OrdersSelling(a, t) \in SUBSET Orders
<1>1. OrdersSelling(a, t) \in SUBSET Orders
  BY DEF OrdersSelling
<1> QED
  BY <1>1, OrdersAreFinite, FS_Subset

LEMMA NothingSold ==
  ASSUME NEW f \in [Orders -> Nat], NEW a, NEW t
  PROVE  SoldBetween(f, f, a, t) = 0
<1>1. PICK zero : zero = [o \in Orders |-> f[o] - f[o]]
  OBVIOUS
<1>2. PICK P \in SUBSET Orders : P = OrdersSelling(a, t)
  BY SellingAreFinite
<1>3. \A o \in P : zero[o] = 0
  BY <1>1
<1>4. IsFiniteSet(P)
  BY <1>2, SellingAreFinite
<1>5. SumFunctionOnSet(zero, P) = 0
  BY <1>3, <1>4, SumZero
<1> QED
  BY <1>1, <1>2, <1>5 DEF SoldBetween

LEMMA SoldIsNatural ==
  ASSUME NEW old \in [Orders -> Nat], NEW new \in [Orders -> Nat],
         \A o \in Orders : new[o] >= old[o], NEW a, NEW t
  PROVE  SoldBetween(old, new, a, t) \in Nat
<1>1. PICK more : more = [o \in Orders |-> new[o] - old[o]]
  OBVIOUS
<1>2. PICK P \in SUBSET Orders : P = OrdersSelling(a, t)
  BY SellingAreFinite
<1>3. \A o \in P : more[o] \in Nat
  BY <1>1
<1>4. IsFiniteSet(P)
  BY <1>2, SellingAreFinite
<1>5. SumFunctionOnSet(more, P) \in Nat
  BY <1>3, <1>4, SumIsNatural
<1> QED
  BY <1>1, <1>2, <1>5 DEF SoldBetween

(* A fill counts for its maker in the token it sells. *)
LEMMA SoldGrows ==
  ASSUME NEW old \in [Orders -> Nat], NEW new \in [Orders -> Nat], NEW next \in [Orders -> Nat],
         NEW o \in Orders, NEW n \in Nat, next[o] = new[o] + n,
         \A x \in Orders : x # o => next[x] = new[x], NEW a, NEW t,
         \A x \in Orders : new[x] >= old[x]
  PROVE  SoldBetween(old, next, a, t) =
           SoldBetween(old, new, a, t)
             + (IF Order[o].maker = a /\ Order[o].sellToken = t THEN n ELSE 0)
<1>1. PICK f : f = [x \in Orders |-> new[x] - old[x]]
  OBVIOUS
<1>2. PICK g : g = [x \in Orders |-> next[x] - old[x]]
  OBVIOUS
<1>3. PICK P \in SUBSET Orders : P = OrdersSelling(a, t)
  BY SellingAreFinite
<1>4. IsFiniteSet(P)
  BY <1>3, SellingAreFinite
<1>5. (\A x \in P : f[x] \in Int) /\ g[o] = f[o] + n /\ g[o] \in Int /\ f[o] \in Int
      /\ \A x \in Orders : x # o => g[x] = f[x]
  BY <1>1, <1>2
<1>6. SumFunctionOnSet(f, P) \in Int
  BY <1>4, <1>5, SumIsInteger
<1>7. CASE o \in P
  <2>1. SumFunctionOnSet(g, P) = SumFunctionOnSet(f, P) + g[o] - f[o]
    BY <1>4, <1>5, <1>7, SumChange
  <2>2. SumFunctionOnSet(g, P) = SumFunctionOnSet(f, P) + n
    BY <1>5, <1>6, <2>1
  <2> QED
    BY <1>1, <1>2, <1>3, <1>7, <2>2 DEF SoldBetween, OrdersSelling
<1>8. CASE o \notin P
  <2>1. \A x \in P : f[x] = g[x]
    BY <1>5, <1>8
  <2>2. SumFunctionOnSet(f, P) = SumFunctionOnSet(g, P)
    BY <1>4, <2>1, SumSame
  <2>3. ~(Order[o].maker = a /\ Order[o].sellToken = t)
    BY <1>3, <1>8 DEF OrdersSelling
  <2> QED
    BY <1>1, <1>2, <1>3, <1>6, <2>2, <2>3 DEF SoldBetween
<1> QED
  BY <1>7, <1>8

LEMMA ExecuteRoute ==
  ASSUME Inv, NEW i \in Intents, Execute(i)
  PROVE  RouteInv'
<1>1. /\ usedNonce' = usedNonce \cup {NonceOf(i)}
      /\ IsValid(Intent[i].policy)
      /\ route' = [intent |-> i, totalInput |-> 0, totalOutput |-> 0, before |-> Snapshot]
      /\ UNCHANGED <<balance, filledSellAmount, filledBuyAmount, authorizations,
                     minimumPolicyEpoch>>
  BY DEF Execute, NonceOf, vaultVars, ledgerVars, fillVars, guardVars
<1>2. /\ balance \in Ledgers
      /\ filledSellAmount \in [Orders -> Nat] /\ filledBuyAmount \in [Orders -> Nat]
  BY DEF Inv, SettlementTypeOK, VaultTypeOK, Ledgers
<1>3. /\ route'.intent = i /\ route'.totalInput = 0 /\ route'.totalOutput = 0
      /\ route'.before.balance = balance
      /\ route'.before.filledSell = filledSellAmount
      /\ route'.before.filledBuy = filledBuyAmount
  BY <1>1 DEF Snapshot
<1>4. \A a, t : SoldSince(a, t)' = 0
  <2> SUFFICES ASSUME NEW a, NEW t
               PROVE  SoldBetween(route'.before.filledSell, filledSellAmount', a, t) = 0
    BY DEF SoldSince, SoldBetween, OrdersSelling
  <2> QED
    BY <1>1, <1>2, <1>3, NothingSold
<1>5. \A a, t : SpentSince(a, t)' = 0
  BY <1>3 DEF SpentSince
<1>6. NonceOf(route'.intent) \in usedNonce'
  BY <1>1, <1>3
<1>7. IsValid(Intent[route.intent].policy)'
  BY <1>1, <1>3 DEF IsValid
<1>8. FillsGrow'
  BY <1>1, <1>2, <1>3 DEF FillsGrow
<1>9. NobodyElsePays'
  <2> SUFFICES ASSUME NEW t \in Tokens, NEW a \in Accounts
               PROVE  balance'[t][a] >=
                        route'.before.balance[t][a] - SpentSince(a, t)' - SoldSince(a, t)'
    BY DEF NobodyElsePays
  <2>1. balance[t][a] \in Nat
    BY <1>2 DEF Ledgers
  <2> QED
    BY <1>1, <1>3, <1>4, <1>5, <2>1
<1>10. RecipientGets'
  <2>1. balance[Intent[i].outputToken][Intent[i].recipient] \in Nat
    BY <1>2, IntentParts DEF Ledgers
  <2> QED
    BY <1>1, <1>3, <2>1 DEF RecipientGets
<1> QED
  BY <1>6, <1>7, <1>8, <1>9, <1>10 DEF RouteInv, NonceOf

(* The three cases of a fill: the token sold, the token paid with, others. *)
LEMMA FillRoute ==
  ASSUME Inv, RouteInv, NEW o \in Orders, NEW n \in 1..Order[o].sellAmount, SettleFill(o, n)
  PROVE  RouteInv'
<1>1. PICK pay : pay = RequiredTakerPay(o, n)
  OBVIOUS
<1>2. SettlementTypeOK /\ Filled(o, n, pay)
  BY <1>1, FillParts DEF Inv
<1>3. /\ Running /\ route.intent \in Intents /\ route \in RouteRecords
      /\ route.totalInput \in Nat /\ route.totalOutput \in Nat
      /\ route.before.balance \in Ledgers
      /\ route.before.filledSell \in [Orders -> Nat]
      /\ route.before.filledBuy \in [Orders -> Nat]
  BY <1>2, RouteParts DEF Filled
<1>4. /\ route'.intent = route.intent /\ route'.before = route.before
      /\ route'.totalInput = route.totalInput + pay
      /\ route'.totalOutput = route.totalOutput + n
  <2>1. route' = [intent |-> route.intent, totalInput |-> route.totalInput + pay,
                  totalOutput |-> route.totalOutput + n, before |-> route.before]
    BY <1>2, <1>3 DEF RouteRecords, Filled
  <2> QED
    BY <2>1
<1>5. /\ pay \in Nat /\ n \in Nat \ {0} /\ balance \in Ledgers /\ balance' \in Ledgers
      /\ filledSellAmount \in [Orders -> Nat] /\ filledBuyAmount \in [Orders -> Nat]
      /\ filledSellAmount' \in [Orders -> Nat] /\ filledBuyAmount' \in [Orders -> Nat]
      /\ filledSellAmount'[o] = filledSellAmount[o] + n
      /\ filledBuyAmount'[o] = filledBuyAmount[o] + pay
      /\ \A x \in Orders : x # o => filledSellAmount'[x] = filledSellAmount[x]
                               /\ filledBuyAmount'[x] = filledBuyAmount[x]
  BY <1>2 DEF Filled, SettlementTypeOK, VaultTypeOK, Ledgers
<1>6. /\ Order[o].sellToken = Intent[route.intent].outputToken
      /\ Order[o].buyToken = Intent[route.intent].inputToken
      /\ UNCHANGED <<usedNonce, guardVars>>
  BY DEF SettleFill, RightPair
<1>7. FillsGrow
  BY <1>3 DEF RouteInv
<1>8. FillsGrow'
  BY <1>3, <1>4, <1>5, <1>7 DEF FillsGrow
<1>9. ASSUME NEW a, NEW t
      PROVE  /\ SoldSince(a, t)' = SoldSince(a, t)
                  + (IF Order[o].maker = a /\ Order[o].sellToken = t THEN n ELSE 0)
             /\ SoldSince(a, t) \in Nat
  <2>1. PICK old \in [Orders -> Nat], new \in [Orders -> Nat], next \in [Orders -> Nat] :
          old = route.before.filledSell /\ new = filledSellAmount /\ next = filledSellAmount'
    BY <1>3, <1>5
  <2>2. \A x \in Orders : new[x] >= old[x]
    BY <1>7, <2>1 DEF FillsGrow
  <2>3. next[o] = new[o] + n /\ \A x \in Orders : x # o => next[x] = new[x]
    BY <1>5, <2>1
  <2>4. n \in Nat
    BY <1>5
  <2>5. SoldBetween(old, next, a, t) = SoldBetween(old, new, a, t)
          + (IF Order[o].maker = a /\ Order[o].sellToken = t THEN n ELSE 0)
    BY <2>2, <2>3, <2>4, SoldGrows
  <2>6. SoldBetween(old, new, a, t) \in Nat
    BY <2>2, SoldIsNatural
  <2>7. SoldSince(a, t) = SoldBetween(old, new, a, t)
    BY <2>1 DEF SoldSince
  <2>8. SoldSince(a, t)' = SoldBetween(route'.before.filledSell, filledSellAmount', a, t)
    BY DEF SoldSince, SoldBetween, OrdersSelling
  <2>9. SoldSince(a, t)' = SoldBetween(old, next, a, t)
    BY <1>4, <2>1, <2>8
  <2> QED
    BY <2>5, <2>6, <2>7, <2>9
<1>10. ASSUME NEW a \in Accounts, NEW t \in Tokens
       PROVE  /\ balance[t][a] \in Nat /\ balance'[t][a] \in Nat
              /\ route.before.balance[t][a] \in Nat
              /\ SpentSince(a, t) \in Nat
              /\ SpentSince(a, t)' = IF a = Intent[route.intent].taker
                                        /\ t = Intent[route.intent].inputToken
                                     THEN SpentSince(a, t) + pay ELSE SpentSince(a, t)
  BY <1>3, <1>4, <1>5 DEF SpentSince, Ledgers
<1>11. /\ Order[o].sellToken # Order[o].buyToken
       /\ Order[o].sellToken \in Tokens /\ Order[o].buyToken \in Tokens
       /\ Order[o].maker \in Accounts
       /\ Intent[route.intent].recipient \in Accounts
  BY <1>3, OrderParts, IntentParts
<1>12. NobodyElsePays'
  <2> SUFFICES ASSUME NEW t \in Tokens, NEW a \in Accounts
               PROVE  balance'[t][a] >=
                        route.before.balance[t][a] - SpentSince(a, t)' - SoldSince(a, t)'
    BY <1>4 DEF NobodyElsePays
  <2>1. balance[t][a] >= route.before.balance[t][a] - SpentSince(a, t) - SoldSince(a, t)
    BY <1>3 DEF RouteInv, NobodyElsePays
  <2>2. CASE t = Order[o].sellToken
    <3>1. balance'[t][a] >= balance[t][a] - (IF a = Order[o].maker THEN n ELSE 0)
      BY <1>2, <1>5, <1>10, <2>2 DEF Filled
    <3>2. SpentSince(a, t)' = SpentSince(a, t)
      BY <1>6, <1>10, <1>11, <2>2
    <3>3. SoldSince(a, t)' = SoldSince(a, t) + (IF a = Order[o].maker THEN n ELSE 0)
      BY <1>9, <2>2
    <3> QED
      BY <1>5, <1>9, <1>10, <2>1, <3>1, <3>2, <3>3
  <2>3. CASE t = Order[o].buyToken
    <3>1. balance'[t][a] >=
            balance[t][a] - (IF a = Intent[route.intent].taker THEN pay ELSE 0)
      BY <1>2, <1>5, <1>10, <2>3 DEF Filled
    <3>2. SpentSince(a, t)' =
            SpentSince(a, t) + (IF a = Intent[route.intent].taker THEN pay ELSE 0)
      BY <1>5, <1>6, <1>10, <2>3
    <3>3. SoldSince(a, t)' = SoldSince(a, t)
      BY <1>5, <1>9, <1>11, <2>3
    <3> QED
      BY <1>5, <1>9, <1>10, <2>1, <3>1, <3>2, <3>3
  <2>4. CASE t \notin {Order[o].sellToken, Order[o].buyToken}
    <3>1. balance'[t][a] = balance[t][a]
      BY <1>2, <2>4 DEF Filled
    <3>2. SpentSince(a, t)' = SpentSince(a, t)
      BY <1>6, <1>10, <2>4
    <3>3. SoldSince(a, t)' = SoldSince(a, t)
      BY <1>5, <1>9, <2>4
    <3> QED
      BY <1>9, <1>10, <2>1, <3>1, <3>2, <3>3
  <2> QED
    BY <2>2, <2>3, <2>4
<1>13. RecipientGets'
  <2>1. PICK out \in Tokens, to \in Accounts :
          out = Intent[route.intent].outputToken /\ to = Intent[route.intent].recipient
    BY <1>6, <1>11
  <2>2. SUFFICES ASSUME SoldSince(to, out)' = 0
                 PROVE  balance'[out][to] >=
                          route.before.balance[out][to] + (route.totalOutput + n)
    BY <1>4, <2>1 DEF RecipientGets
  <2>3. SoldSince(to, out) = 0 /\ Order[o].maker # to
    BY <1>5, <1>6, <1>9, <2>1, <2>2
  <2>4. balance[out][to] >= route.before.balance[out][to] + route.totalOutput
    BY <1>3, <2>1, <2>3 DEF RouteInv, RecipientGets
  <2>5. balance'[out][to] = balance[out][to] + n
    BY <1>2, <1>5, <1>6, <1>10, <2>1, <2>3 DEF Filled
  <2> QED
    BY <1>3, <1>5, <1>10, <2>4, <2>5
<1>14. NonceOf(route.intent)' \in usedNonce'
  BY <1>3, <1>4, <1>6 DEF RouteInv, NonceOf
<1>15. IsValid(Intent[route.intent].policy)'
  BY <1>3, <1>4, <1>6 DEF RouteInv, IsValid, guardVars
<1> QED
  BY <1>8, <1>12, <1>13, <1>14, <1>15 DEF RouteInv

LEMMA RouteInit == SettlementInit => RouteInv
BY DEF SettlementInit, RouteInv, Running

LEMMA RouteNext == Inv /\ RouteInv /\ [SettlementNext]_settlementVars => RouteInv'
<1> SUFFICES ASSUME Inv, RouteInv, [SettlementNext]_settlementVars PROVE RouteInv'
  OBVIOUS
<1>1. CASE UNCHANGED settlementVars
  BY <1>1
     DEF RouteInv, Running, NonceOf, IsValid, FillsGrow, NobodyElsePays, RecipientGets,
         SoldSince, SoldBetween, SpentSince, settlementVars, vaultVars, ledgerVars, fillVars, guardVars
<1>2. ASSUME ~Running' PROVE RouteInv'
  BY <1>2 DEF RouteInv
<1>3. CASE ~Running /\ UNCHANGED route
  BY <1>2, <1>3 DEF Running
<1>4. CASE Finish \/ Revert
  BY <1>2, <1>4 DEF Finish, Revert, Running
<1> QED
  BY <1>1, <1>3, <1>4, ExecuteRoute, FillRoute
     DEF SettlementNext, Vault, CancelOrder, InvalidateOrdersBefore, Authorize, RevokeOrExpire,
         InvalidatePoliciesBefore

(* A cash movement of one account, or a step that moves no money. *)
LEMMA OutsideRoutes ==
  ASSUME Inv, SettlementNext, ~Running, ~Running', UNCHANGED <<fillVars, usedNonce>>
  PROVE  UNCHANGED balance => Abstract!Govern
<1>1. \A o \in Orders : Withdrawn(o) => Withdrawn(o)'
  BY WithdrawnForGood DEF Inv
<1>2. Open' \subseteq Open
  BY <1>1 DEF Open
<1>3. UNCHANGED balance => UNCHANGED <<Account, FilledSell, FilledBuy, SpentNonces>>
  BY DEF Account, FilledSell, FilledBuy, SpentNonces, fillVars
<1> QED
  BY <1>2, <1>3 DEF Abstract!Govern

LEMMA VaultImplements ==
  ASSUME Inv, Vault
  PROVE  Abstract!ExchangeNext
<1>1. /\ ~Running /\ ~Running' /\ UNCHANGED <<fillVars, guardVars, usedNonce>>
      /\ balance \in Ledgers /\ VaultStep
  BY DEF Vault, Running, Inv, SettlementTypeOK, VaultTypeOK, Ledgers
<1>2. SettlementNext
  BY DEF SettlementNext
<1>3. CASE UNCHANGED balance
  BY <1>1, <1>2, <1>3, OutsideRoutes DEF Abstract!ExchangeNext
<1>4. ASSUME NEW t \in Tokens, NEW a \in Accounts, NEW v,
             balance' = [balance EXCEPT ![t][a] = v]
      PROVE  Abstract!ExchangeNext
  <2>1. balance'[t][a] = v
    BY <1>1, <1>4 DEF Ledgers
  <2>2. Account' = [Account EXCEPT ![t][a] = Account'[t][a]]
    BY <1>1, <1>4, <2>1 DEF Account
  <2>3. UNCHANGED <<FilledSell, FilledBuy, SpentNonces, Open, Permitted>>
    BY <1>1 DEF FilledSell, FilledBuy, SpentNonces, Open, Withdrawn, Permitted, IsValid, fillVars,
                guardVars
  <2>4. Abstract!CashInOut
    BY <2>2, <2>3 DEF Abstract!CashInOut
  <2> QED
    BY <2>4 DEF Abstract!ExchangeNext
<1>5. ASSUME NEW t \in Tokens, NEW a \in Accounts, Deposit(t, a)
      PROVE  Abstract!ExchangeNext
  <2>1. PICK amount \in Amounts : \E n \in 1..amount :
          balance' = [balance EXCEPT ![t][a] = @ + n]
    BY <1>5 DEF Deposit
  <2>2. PICK n \in 1..amount : balance' = [balance EXCEPT ![t][a] = @ + n]
    BY <2>1
  <2>3. balance' = [balance EXCEPT ![t][a] = balance[t][a] + n]
    BY <2>2
  <2> QED
    BY <1>4, <2>3
<1>6. ASSUME NEW t \in Tokens, NEW a \in Accounts, Withdraw(t, a)
      PROVE  Abstract!ExchangeNext
  <2>1. PICK n \in Amounts : balance' = [balance EXCEPT ![t][a] = @ - n]
    BY <1>6 DEF Withdraw
  <2>2. balance' = [balance EXCEPT ![t][a] = balance[t][a] - n]
    BY <2>1
  <2> QED
    BY <1>4, <2>2
<1> QED
  BY <1>1, <1>3, <1>5, <1>6
     DEF VaultStep, NoCancelStep, Donate, RescueSurplus, RequestWithdraw, CancelWithdraw,
         SetWithdrawDelayBlocks, NextBlock, ledgerVars

LEMMA GuardsImplement ==
  ASSUME Inv, SettlementNext, ~Running, UNCHANGED <<balance, fillVars, usedNonce, route>>
  PROVE  Abstract!ExchangeNext
<1>1. ~Running'
  BY DEF Running
<1> QED
  BY <1>1, OutsideRoutes DEF Abstract!ExchangeNext

(* Nothing of a route is seen when it starts, fills or is undone. *)
LEMMA UnseenSteps ==
  ASSUME Inv
  PROVE  /\ \A i \in Intents : Execute(i) => UNCHANGED Abstract!exchangeVars
         /\ \A o \in Orders : \A n \in 1..Order[o].sellAmount :
              SettleFill(o, n) => UNCHANGED Abstract!exchangeVars
         /\ Revert => UNCHANGED Abstract!exchangeVars
<1>1. ASSUME UNCHANGED guardVars PROVE UNCHANGED <<Open, Permitted>>
  BY <1>1 DEF guardVars, Open, Withdrawn, Permitted, IsValid
<1>2. ASSUME NEW i \in Intents, Execute(i) PROVE UNCHANGED Abstract!exchangeVars
  <2>1. /\ ~Running /\ NonceOf(i) \notin usedNonce
        /\ usedNonce' = usedNonce \cup {NonceOf(i)}
        /\ route' = [intent |-> i, totalInput |-> 0, totalOutput |-> 0, before |-> Snapshot]
        /\ UNCHANGED guardVars
    BY <1>2 DEF Execute, NonceFree, NonceOf
  <2>2. /\ route'.intent = i /\ route'.before.balance = balance
        /\ route'.before.filledSell = filledSellAmount
        /\ route'.before.filledBuy = filledBuyAmount
    BY <2>1 DEF Snapshot
  <2>3. "totalInput" \in DOMAIN route'
    BY <2>1
  <2>4. Running'
    BY <2>3, RoutesDiffer DEF Running
  <2>5. UNCHANGED <<Account, FilledSell, FilledBuy>>
    BY <2>1, <2>2, <2>4 DEF Account, FilledSell, FilledBuy
  <2>6. SpentNonces' = usedNonce' \ {NonceOf(i)} /\ SpentNonces = usedNonce
    BY <2>1, <2>2, <2>4 DEF SpentNonces, NonceOf
  <2>7. UNCHANGED SpentNonces
    BY <2>1, <2>6
  <2> QED
    BY <1>1, <2>1, <2>5, <2>7 DEF Abstract!exchangeVars
<1>3. ASSUME NEW o \in Orders, NEW n \in 1..Order[o].sellAmount, SettleFill(o, n)
      PROVE  UNCHANGED Abstract!exchangeVars
  <2>1. PICK pay : pay = RequiredTakerPay(o, n)
    OBVIOUS
  <2>2. SettlementTypeOK /\ Filled(o, n, pay)
    BY <1>3, <2>1, FillParts DEF Inv
  <2>3. Running /\ route \in RouteRecords
    BY <2>2, RouteParts DEF Filled
  <2>4. route' = [intent |-> route.intent, totalInput |-> route.totalInput + pay,
                  totalOutput |-> route.totalOutput + n, before |-> route.before]
    BY <2>2, <2>3 DEF RouteRecords, Filled
  <2>5. "totalInput" \in DOMAIN route' /\ route'.intent = route.intent
        /\ route'.before = route.before
    BY <2>4
  <2>6. Running'
    BY <2>5, RoutesDiffer DEF Running
  <2>7. UNCHANGED <<usedNonce, guardVars>>
    BY <1>3 DEF SettleFill
  <2>8. UNCHANGED <<Account, FilledSell, FilledBuy, SpentNonces>>
    BY <2>3, <2>5, <2>6, <2>7 DEF Account, FilledSell, FilledBuy, SpentNonces, NonceOf
  <2> QED
    BY <1>1, <2>7, <2>8 DEF Abstract!exchangeVars
<1>4. ASSUME Revert PROVE UNCHANGED Abstract!exchangeVars
  <2>1. /\ Running /\ ~Running' /\ UNCHANGED guardVars
        /\ balance' = route.before.balance
        /\ filledSellAmount' = route.before.filledSell
        /\ filledBuyAmount' = route.before.filledBuy
        /\ usedNonce' = usedNonce \ {NonceOf(route.intent)}
    BY <1>4 DEF Revert, Running, NonceOf
  <2>2. UNCHANGED <<Account, FilledSell, FilledBuy, SpentNonces>>
    BY <2>1 DEF Account, FilledSell, FilledBuy, SpentNonces
  <2> QED
    BY <1>1, <2>1, <2>2 DEF Abstract!exchangeVars
<1> QED
  BY <1>2, <1>3, <1>4

(* The sum of the abstract specification is the sum. *)
LEMMA SameSum ==
  ASSUME NEW f, NEW S
  PROVE  Abstract!SumFunctionOnSet(f, S) = SumFunctionOnSet(f, S)
BY DEF Abstract!SumFunctionOnSet, Abstract!FoldFunctionOnSet, Abstract!MapThenFoldSet,
       SumFunctionOnSet, FoldFunctionOnSet, MapThenFoldSet

(* The commit is the exchange. *)
LEMMA FinishImplements ==
  ASSUME Inv, LedgerInv, RouteSparesWithdrawn, RouteInv, Finish
  PROVE  Abstract!Exchange(route.intent)
<1>1. /\ Running /\ ~Running'
      /\ route.totalOutput >= Intent[route.intent].minOutput
      /\ UNCHANGED <<balance, totalLiabilities, filledSellAmount, filledBuyAmount, cancelled,
                     minimumEpoch, authorizations, minimumPolicyEpoch, usedNonce>>
  BY DEF Finish, Running, vaultVars, ledgerVars, fillVars, guardVars
<1>2. /\ Account = route.before.balance /\ Account' = balance
      /\ FilledSell = route.before.filledSell /\ FilledSell' = filledSellAmount
      /\ FilledBuy = route.before.filledBuy /\ FilledBuy' = filledBuyAmount
      /\ SpentNonces = usedNonce \ {NonceOf(route.intent)} /\ SpentNonces' = usedNonce
  BY <1>1 DEF Account, FilledSell, FilledBuy, SpentNonces
<1>3. UNCHANGED <<Open, Permitted>>
  BY <1>1 DEF Open, Withdrawn, Permitted, IsValid
<1>4. /\ route.intent \in Intents /\ route.totalInput \in Nat /\ route.totalOutput \in Nat
      /\ route.before.balance \in Ledgers /\ balance \in Ledgers
      /\ route.before.filledSell \in [Orders -> Nat]
      /\ route.before.filledBuy \in [Orders -> Nat]
      /\ filledSellAmount \in [Orders -> Nat] /\ filledBuyAmount \in [Orders -> Nat]
  BY <1>1, RouteParts DEF Inv, SettlementTypeOK, VaultTypeOK, Ledgers
<1>5. PICK i \in Intents : i = route.intent
  BY <1>4
<1>6. /\ NonceOf(i) \notin SpentNonces /\ SpentNonces' = SpentNonces \cup {NonceOf(i)}
      /\ Intent[i].policy \in Permitted
  BY <1>1, <1>2, <1>5, SettlementAssumption DEF RouteInv, Permitted, IntentTerms
<1>7. Abstract!WithinOrders
  <2> SUFFICES ASSUME NEW o \in Orders
               PROVE  /\ filledSellAmount[o] \in route.before.filledSell[o]..Order[o].sellAmount
                      /\ filledSellAmount[o] > route.before.filledSell[o] => o \in Open
                      /\ filledBuyAmount[o] >= route.before.filledBuy[o]
                      /\ filledBuyAmount[o] * Order[o].sellAmount
                           >= filledSellAmount[o] * Order[o].buyAmount
                      /\ filledBuyAmount[o] <= Order[o].buyAmount
    BY <1>2 DEF Abstract!WithinOrders
  <2>1. /\ filledSellAmount[o] >= route.before.filledSell[o]
        /\ filledBuyAmount[o] >= route.before.filledBuy[o]
    BY <1>1 DEF RouteInv, FillsGrow
  <2>2. /\ filledSellAmount[o] <= Order[o].sellAmount
        /\ filledBuyAmount[o] = CeilDiv(filledSellAmount[o] * Order[o].buyAmount,
                                        Order[o].sellAmount)
        /\ filledBuyAmount[o] <= Order[o].buyAmount
    BY DEF Inv, FillsWithinSigned, Signed, CumulativeBuy
  <2>3. filledSellAmount[o] > route.before.filledSell[o] => o \in Open
    BY <1>1, <1>4 DEF RouteSparesWithdrawn, Open
  <2>4. PICK sold \in Nat, paid \in Nat, sell \in Nat \ {0}, buy \in Nat :
          sold = filledSellAmount[o] /\ paid = filledBuyAmount[o]
          /\ sell = Order[o].sellAmount /\ buy = Order[o].buyAmount
    BY <1>4, OrderParts
  <2>5. sold * buy \in Nat
    OBVIOUS
  <2>6. sold * buy <= sell * paid
    BY <2>2, <2>4, <2>5, CeilDivParts
  <2>7. paid * sell >= sold * buy
    BY <2>6
  <2>8. filledSellAmount[o] \in route.before.filledSell[o]..Order[o].sellAmount
    BY <1>4, <2>1, <2>2, <2>4
  <2> QED
    BY <2>1, <2>2, <2>3, <2>4, <2>7, <2>8
<1>8. \A a, t : Abstract!SoldBy(a, t) = SoldSince(a, t)
  <2>1. [o \in Orders |-> FilledSell'[o] - FilledSell[o]]
          = [o \in Orders |-> filledSellAmount[o] - route.before.filledSell[o]]
    BY <1>2
  <2>2. [o \in Orders |-> Abstract!Sold(o)] = [o \in Orders |-> FilledSell'[o] - FilledSell[o]]
    BY DEF Abstract!Sold
  <2> SUFFICES ASSUME NEW a, NEW t PROVE Abstract!SoldBy(a, t) = SoldSince(a, t)
    OBVIOUS
  <2>3. Abstract!SoldBy(a, t)
          = SumFunctionOnSet([o \in Orders |-> Abstract!Sold(o)], OrdersSelling(a, t))
    BY SameSum DEF Abstract!SoldBy, OrdersSelling
  <2>4. SoldSince(a, t) =
          SumFunctionOnSet([o \in Orders |-> filledSellAmount[o] - route.before.filledSell[o]],
                           OrdersSelling(a, t))
    BY DEF SoldSince, SoldBetween
  <2> QED
    BY <2>1, <2>2, <2>3, <2>4
<1>9. \A t \in Tokens : Abstract!TotalOf(Account', t) = Abstract!TotalOf(Account, t)
  <2> SUFFICES ASSUME NEW t \in Tokens
               PROVE  Abstract!TotalOf(Account', t) = Abstract!TotalOf(Account, t)
    OBVIOUS
  <2>1. Abstract!TotalOf(Account', t) = SumFunctionOnSet(Account'[t], Accounts)
    BY SameSum DEF Abstract!TotalOf
  <2>2. Abstract!TotalOf(Account, t) = SumFunctionOnSet(Account[t], Accounts)
    BY SameSum DEF Abstract!TotalOf
  <2>3. SumFunctionOnSet(balance[t], Accounts) = totalLiabilities[t]
        /\ SumFunctionOnSet(route.before.balance[t], Accounts) = totalLiabilities[t]
    BY <1>1 DEF LedgerInv, LedgerAddsUp, RouteKeepsTotals
  <2> QED
    BY <1>2, <2>1, <2>2, <2>3
<1>10. ASSUME NEW t \in Tokens, NEW a \in Accounts
       PROVE  Account'[t][a] >= Account[t][a]
                - (IF a = Intent[i].taker /\ t = Intent[i].inputToken
                   THEN Intent[i].maxInput ELSE 0)
                - SoldSince(a, t)
  <2>1. balance[t][a] >= route.before.balance[t][a] - SpentSince(a, t) - SoldSince(a, t)
    BY <1>1 DEF RouteInv, NobodyElsePays
  <2>2. route.totalInput <= Intent[i].maxInput /\ Intent[i].maxInput \in Nat
    BY <1>1, <1>5, IntentParts DEF Inv, TotalsAreReal
  <2>3. FillsGrow
    BY <1>1 DEF RouteInv
  <2>4. SoldSince(a, t) \in Nat
    BY <1>4, <2>3, SoldIsNatural DEF SoldSince, FillsGrow
  <2>5. balance[t][a] \in Nat /\ route.before.balance[t][a] \in Nat
    BY <1>4 DEF Ledgers
  <2> QED
    BY <1>2, <1>4, <1>5, <2>1, <2>2, <2>4, <2>5 DEF SpentSince
<1>11. SoldSince(Intent[i].recipient, Intent[i].outputToken) = 0 =>
         Account'[Intent[i].outputToken][Intent[i].recipient] >=
           Account[Intent[i].outputToken][Intent[i].recipient] + Intent[i].minOutput
  <2>1. PICK out \in Tokens, to \in Accounts :
          out = Intent[i].outputToken /\ to = Intent[i].recipient
    BY IntentParts
  <2>2. SUFFICES ASSUME SoldSince(to, out) = 0
                 PROVE  balance[out][to] >= route.before.balance[out][to] + Intent[i].minOutput
    BY <1>2, <2>1
  <2>3. balance[out][to] >= route.before.balance[out][to] + route.totalOutput
    BY <1>1, <1>5, <2>1, <2>2 DEF RouteInv, RecipientGets
  <2>4. route.totalOutput >= Intent[i].minOutput /\ Intent[i].minOutput \in Nat
    BY <1>1, <1>5, IntentParts
  <2>5. balance[out][to] \in Nat /\ route.before.balance[out][to] \in Nat
    BY <1>4 DEF Ledgers
  <2> QED
    BY <1>4, <2>3, <2>4, <2>5
<1> QED
  BY <1>3, <1>5, <1>6, <1>7, <1>8, <1>9, <1>10, <1>11 DEF Abstract!Exchange, NonceOf

LEMMA InitImplements == SettlementInit => Abstract!ExchangeInit
BY DEF SettlementInit, VaultInit, Running, Account, FilledSell, FilledBuy, SpentNonces, Abstract!ExchangeInit

LEMMA NextImplements ==
  Inv /\ LedgerInv /\ RouteSparesWithdrawn /\ RouteInv /\ [SettlementNext]_settlementVars
    => [Abstract!ExchangeNext]_(Abstract!exchangeVars)
<1> SUFFICES ASSUME Inv, LedgerInv, RouteSparesWithdrawn, RouteInv, [SettlementNext]_settlementVars
             PROVE  [Abstract!ExchangeNext]_(Abstract!exchangeVars)
  OBVIOUS
<1>1. CASE UNCHANGED settlementVars
  BY <1>1
     DEF settlementVars, vaultVars, ledgerVars, fillVars, guardVars, Abstract!exchangeVars, Account,
         FilledSell, FilledBuy, SpentNonces, Open, Withdrawn, Permitted, IsValid, Running, NonceOf
<1>2. CASE Vault
  BY <1>2, VaultImplements
<1>3. CASE SettlementNext /\ ~Running /\ UNCHANGED <<balance, fillVars, usedNonce, route>>
  BY <1>3, GuardsImplement
<1>4. CASE Finish
  <2>1. route.intent \in Intents
    BY <1>4, RouteParts DEF Inv, Finish
  <2>2. Abstract!Exchange(route.intent)
    BY <1>4, FinishImplements
  <2> QED
    BY <2>1, <2>2 DEF Abstract!ExchangeNext
<1>5. CASE \/ \E i \in Intents : Execute(i)
           \/ \E o \in Orders : \E n \in 1..Order[o].sellAmount : SettleFill(o, n)
           \/ Revert
  BY <1>5, UnseenSteps
<1> QED
  BY <1>1, <1>2, <1>3, <1>4, <1>5
     DEF SettlementNext, CancelOrder, InvalidateOrdersBefore, Authorize, RevokeOrExpire,
         InvalidatePoliciesBefore, vaultVars, ledgerVars

LEMMA SparesInit == SettlementInit => RouteSparesWithdrawn
BY DEF SettlementInit, RouteSparesWithdrawn, Running

LEMMA SparesNext == Inv /\ RouteSparesWithdrawn /\ [SettlementNext]_settlementVars => RouteSparesWithdrawn'
<1>1. CASE UNCHANGED settlementVars
  BY <1>1 DEF RouteSparesWithdrawn, Withdrawn, Running, settlementVars, fillVars, guardVars
<1> QED
  BY <1>1, RouteSparesStep

(* Every route that commits is one exchange as the kernel promises it, and *)
(* a route that reverts leaves no trace: AtomicRouter.execute, for any     *)
(* orders, intents, fills and their interleaving with governance.          *)
THEOREM SettlementRefinement == SettlementSpec => ImplementsAtomicExchange
<1>1. SettlementSpec => [](Inv /\ LedgerInv /\ RouteSparesWithdrawn /\ RouteInv)
  BY InitInv, NextInv, LedgerInit, LedgerNext, SparesInit, SparesNext, RouteInit, RouteNext,
     PTL DEF SettlementSpec
<1> QED
  BY <1>1, InitImplements, NextImplements, PTL
     DEF SettlementSpec, ImplementsAtomicExchange, Abstract!ExchangeSpec
=============================================================================
