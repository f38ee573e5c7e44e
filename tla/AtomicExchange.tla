-------------------------- MODULE AtomicExchange --------------------------
(***************************************************************************)
(* What the settlement kernel promises makers and takers. Money comes in   *)
(* and goes out account by account; otherwise balances change only by an   *)
(* exchange, which is a single step: it uses up the taker's intent, is     *)
(* permitted by the institution, sells from open orders within what their  *)
(* makers signed, costs the taker no more and brings the recipient no less *)
(* than the intent says, takes from nobody else more than their orders     *)
(* sold, and neither creates nor destroys a token.                         *)
(***************************************************************************)
EXTENDS Integers, Functions

CONSTANTS
  Tokens, Accounts,
  Orders, Order,       \* signed orders and their terms
  Intents, Intent      \* signed intents and their terms

VARIABLES
  account,     \* account[t][a]: balance
  sold,        \* sold[o]: what order o has sold
  paid,        \* paid[o]: what was paid for it
  spent,       \* pairs of taker and nonce that were used
  open,        \* orders that may still be filled
  permitted    \* policies that permit an exchange

exchangeVars == <<account, sold, paid, spent, open, permitted>>

ExchangeInit ==
  /\ account = [t \in Tokens |-> [a \in Accounts |-> 0]]
  /\ sold = [o \in Orders |-> 0]
  /\ paid = [o \in Orders |-> 0]
  /\ spent = {}

(* A deposit or a withdrawal, of one account. *)
CashInOut ==
  /\ \E t \in Tokens, a \in Accounts :
       account' = [account EXCEPT ![t][a] = account'[t][a]]
  /\ UNCHANGED <<sold, paid, spent, open, permitted>>

(* Orders are withdrawn for good, permissions come and go. *)
Govern ==
  /\ open' \subseteq open
  /\ UNCHANGED <<account, sold, paid, spent>>

Sold(o) == sold'[o] - sold[o]
SoldBy(a, t) ==
  SumFunctionOnSet([o \in Orders |-> Sold(o)],
                   {o \in Orders : Order[o].maker = a /\ Order[o].sellToken = t})
TotalOf(ledger, t) == SumFunctionOnSet(ledger[t], Accounts)

WithinOrders ==
  \A o \in Orders :
    /\ sold'[o] \in sold[o]..Order[o].sellAmount
    /\ sold'[o] > sold[o] => o \in open
    /\ paid'[o] >= paid[o]
    /\ paid'[o] * Order[o].sellAmount >= sold'[o] * Order[o].buyAmount
    /\ paid'[o] <= Order[o].buyAmount

Exchange(i) ==
  LET intent == Intent[i]
      spentBy(a, t) == IF a = intent.taker /\ t = intent.inputToken
                       THEN intent.maxInput ELSE 0
  IN /\ <<intent.taker, intent.nonce>> \notin spent
     /\ spent' = spent \cup {<<intent.taker, intent.nonce>>}
     /\ intent.policy \in permitted
     /\ WithinOrders
     /\ \A t \in Tokens :
          /\ TotalOf(account', t) = TotalOf(account, t)
          /\ \A a \in Accounts :
               account'[t][a] >= account[t][a] - spentBy(a, t) - SoldBy(a, t)
     /\ SoldBy(intent.recipient, intent.outputToken) = 0 =>
          account'[intent.outputToken][intent.recipient] >=
            account[intent.outputToken][intent.recipient] + intent.minOutput
     /\ UNCHANGED <<open, permitted>>

ExchangeNext == CashInOut \/ Govern \/ \E i \in Intents : Exchange(i)

ExchangeSpec == ExchangeInit /\ [][ExchangeNext]_exchangeVars
=============================================================================
