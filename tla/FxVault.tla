------------------------------ MODULE FxVault ------------------------------
(***************************************************************************)
(* The vault that holds the tokens of makers and takers                    *)
(* (packages/fx-contracts/src/FxVault.sol). A call is one transaction: it  *)
(* happens entirely or not at all, so each external function is one        *)
(* action and a revert is a step that is not taken.                        *)
(*                                                                         *)
(* The token contracts are outside: a deposit may credit less than was     *)
(* sent, sending tokens may cost up to MaxFee more than the amount, and    *)
(* anybody may send tokens to the vault. Supported tokens do not call back *)
(* into the vault. A request keeps its age in blocks instead of the block  *)
(* it was filed in, so that time needs no bound.                           *)
(***************************************************************************)
EXTENDS Integers, FiniteSets, Functions

CONSTANTS
  Tokens,      \* tokens on the vault's allowlist
  Accounts,
  Recipients,  \* where withdrawn tokens go
  Amounts,     \* amounts that are asked for in calls
  Filers,      \* bound: pairs of token and account that file requests
  MaxDelay,    \* MAX_WITHDRAW_DELAY_BLOCKS
  MaxFee,      \* bound on what sending tokens costs on top of the amount
  Supply       \* bound on the tokens of a kind that reach the vault

ASSUME VaultAssumption ==
  /\ IsFiniteSet(Accounts)
  /\ Amounts \subseteq Nat \ {0}
  /\ Filers \subseteq Tokens \X Accounts
  /\ MaxDelay \in Nat
  /\ MaxFee \in Nat
  /\ Supply \in Nat

VARIABLES
  balance,             \* _balances[token][account]
  totalLiabilities,    \* totalLiabilities[token]
  physicalBalance,     \* what the token contract says the vault holds
  pendingWithdrawal,   \* pendingWithdrawal[token][account]; amount 0: none
  withdrawDelayBlocks

ledgerVars == <<balance, totalLiabilities, physicalBalance>>
vaultVars == <<ledgerVars, pendingWithdrawal, withdrawDelayBlocks>>

MaxAge == 2 * MaxDelay + 1      \* older than this makes no difference
NoRequest == [amount |-> 0, recipient |-> "none", age |-> 0]
Requests == [amount : Nat \ {0}, recipient : Recipients, age : 0..MaxAge]

VaultTypeOK ==
  /\ balance \in [Tokens -> [Accounts -> Nat]]
  /\ totalLiabilities \in [Tokens -> Int]
  /\ physicalBalance \in [Tokens -> Nat]
  /\ pendingWithdrawal \in [Tokens -> [Accounts -> Requests \cup {NoRequest}]]
  /\ withdrawDelayBlocks \in 0..MaxDelay

VaultInit ==
  /\ balance = [t \in Tokens |-> [a \in Accounts |-> 0]]
  /\ totalLiabilities = [t \in Tokens |-> 0]
  /\ physicalBalance = [t \in Tokens |-> 0]
  /\ pendingWithdrawal = [t \in Tokens |-> [a \in Accounts |-> NoRequest]]
  /\ withdrawDelayBlocks = 0
-----------------------------------------------------------------------------

Unasserted(t) == TRUE                    \* mutant: no solvency assertion
AssertSolvent(t) == physicalBalance'[t] >= totalLiabilities'[t]

(* The account is credited what arrived, not what was sent. *)
Deposit(t, a) ==
  \E amount \in Amounts : \E arrived \in 1..amount :
    /\ physicalBalance[t] + arrived <= Supply
    /\ physicalBalance' = [physicalBalance EXCEPT ![t] = @ + arrived]
    /\ balance' = [balance EXCEPT ![t][a] = @ + arrived]
    /\ totalLiabilities' = [totalLiabilities EXCEPT ![t] = @ + arrived]
    /\ AssertSolvent(t)
    /\ UNCHANGED <<pendingWithdrawal, withdrawDelayBlocks>>

(* Tokens sent to the vault without a deposit are surplus. *)
Donate(t) ==
  /\ physicalBalance[t] < Supply
  /\ physicalBalance' = [physicalBalance EXCEPT ![t] = @ + 1]
  /\ UNCHANGED <<balance, totalLiabilities, pendingWithdrawal, withdrawDelayBlocks>>

(* token.transfer: what leaves the vault. A withdrawal to the vault itself *)
(* costs nothing, some tokens charge the sender.                           *)
Pay(t, amount) ==
  \E cost \in 0..(amount + MaxFee) :
    /\ cost <= physicalBalance[t]
    /\ physicalBalance' = [physicalBalance EXCEPT ![t] = @ - cost]

Surplus(t) == IF physicalBalance[t] > totalLiabilities[t]
              THEN physicalBalance[t] - totalLiabilities[t] ELSE 0

RescueSurplus(t) ==
  \E amount \in Amounts :
    /\ amount <= Surplus(t)
    /\ Pay(t, amount)
    /\ UNCHANGED <<balance, totalLiabilities, pendingWithdrawal, withdrawDelayBlocks>>
    /\ AssertSolvent(t)
-----------------------------------------------------------------------------
(* Withdrawals. With a delay, a request must have been filed that matures  *)
(* after the delay and goes stale after twice the delay, both measured     *)
(* against the delay in force when it is used.                             *)

Pending(t, a) == pendingWithdrawal[t][a].amount # 0
Matured(req) == req.age >= withdrawDelayBlocks
RequestExpired(req) ==
  withdrawDelayBlocks # 0 /\ req.age > 2 * withdrawDelayBlocks
Filed(t, a, req) ==
  pendingWithdrawal' = [pendingWithdrawal EXCEPT ![t][a] = req]

RequestWithdraw(t, a) ==
  \E amount \in Amounts, recipient \in Recipients :
    /\ <<t, a>> \in Filers
    /\ balance[t][a] >= amount
    /\ Pending(t, a) => RequestExpired(pendingWithdrawal[t][a])
    /\ Filed(t, a, [amount |-> amount, recipient |-> recipient, age |-> 0])
    /\ UNCHANGED <<ledgerVars, withdrawDelayBlocks>>

CancelWithdraw(t, a) ==
  /\ Pending(t, a)
  /\ Filed(t, a, NoRequest)
  /\ UNCHANGED <<ledgerVars, withdrawDelayBlocks>>

(* The delay asks for a matured request for exactly this withdrawal. *)
Announced(t, a, amount, recipient) ==
  LET req == pendingWithdrawal[t][a] IN
  withdrawDelayBlocks # 0 =>
    /\ Pending(t, a)
    /\ req.amount = amount /\ req.recipient = recipient
    /\ Matured(req) /\ ~RequestExpired(req)

Withdraw(t, a) ==
  \E amount \in Amounts, recipient \in Recipients :
    /\ Announced(t, a, amount, recipient)
    /\ Filed(t, a, NoRequest)
    /\ balance[t][a] >= amount
    /\ balance' = [balance EXCEPT ![t][a] = @ - amount]
    /\ totalLiabilities' = [totalLiabilities EXCEPT ![t] = @ - amount]
    /\ Pay(t, amount)
    /\ AssertSolvent(t)
    /\ UNCHANGED withdrawDelayBlocks

SetWithdrawDelayBlocks ==
  /\ withdrawDelayBlocks' \in 0..MaxDelay
  /\ UNCHANGED <<ledgerVars, pendingWithdrawal>>

Older(req) ==
  IF req.amount # 0 /\ req.age < MaxAge THEN [req EXCEPT !.age = @ + 1] ELSE req
NextBlock ==
  /\ pendingWithdrawal' = [t \in Tokens |-> [a \in Accounts |->
                             Older(pendingWithdrawal[t][a])]]
  /\ UNCHANGED <<ledgerVars, withdrawDelayBlocks>>
-----------------------------------------------------------------------------

(* move: what the settlement may do to balances; both sides may be the     *)
(* same account.                                                           *)
CanMoveAny(t, from, amount) == TRUE      \* mutant: the balance is not looked at
CanMove(t, from, amount) == balance[t][from] >= amount

MovedFromCache(b, t, from, to, amount) ==   \* mutant: credit what was read first
  [b EXCEPT ![t] = [a \in Accounts |->
     IF a = to THEN b[t][to] + amount
     ELSE IF a = from THEN b[t][from] - amount ELSE b[t][a]]]
Moved(b, t, from, to, amount) ==
  [b EXCEPT ![t] = [a \in Accounts |->
     b[t][a] - (IF a = from THEN amount ELSE 0) + (IF a = to THEN amount ELSE 0)]]

NoCancelStep ==
  \/ \E t \in Tokens : Donate(t) \/ RescueSurplus(t)
  \/ \E t \in Tokens, a \in Accounts :
       Deposit(t, a) \/ Withdraw(t, a) \/ RequestWithdraw(t, a)
  \/ SetWithdrawDelayBlocks
  \/ NextBlock

VaultStep == NoCancelStep \/ \E t \in Tokens, a \in Accounts : CancelWithdraw(t, a)

(* An account that wants out files a request whenever it may, does not     *)
(* cancel it and withdraws whenever it can; blocks keep coming. Nothing is *)
(* assumed of the owner of the vault.                                      *)
LeaverFairness ==
  /\ WF_vaultVars(NextBlock)
  /\ \A t \in Tokens, a \in Accounts :
       SF_vaultVars(Withdraw(t, a)) /\ SF_vaultVars(RequestWithdraw(t, a))
-----------------------------------------------------------------------------
(* Properties *)

(* "physical_balance(token) >= total_accounted_liabilities(token)" after   *)
(* every transaction, whatever the tokens charge and whoever withdraws     *)
(* where (spec/fx/INVARIANTS.md, Vault solvency).                          *)
Solvent == \A t \in Tokens : physicalBalance[t] >= totalLiabilities[t]

(* What the vault says it owes is what its accounts hold, before, during   *)
(* and after a route (totalLiabilities is kept apart from _balances and    *)
(* move changes only the latter).                                          *)
LedgerAddsUp ==
  \A t \in Tokens : totalLiabilities[t] = SumFunctionOnSet(balance[t], Accounts)

(* "The owner may slow withdrawals for incident response but must never be *)
(* able to stop them" (FxVault.sol, MAX_WITHDRAW_DELAY_BLOCKS): whoever    *)
(* keeps asking gets its balance out.                                      *)
LeaversLeave ==
  \A t \in Tokens, a \in Accounts : balance[t][a] > 0 ~> balance[t][a] = 0
=============================================================================
