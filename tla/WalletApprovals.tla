-------------------------- MODULE WalletApprovals --------------------------
(***************************************************************************)
(* Wallets, and the approval chains that stand between a large send and    *)
(* the money leaving. An approval keeps the chain it was raised under; the *)
(* money is not held while it waits, and leaves with the last decision.    *)
(***************************************************************************)
EXTENDS BankPolicies

CONSTANTS
  Wallets, Chains, Approvals,
  WalletHolder,      \* [Wallets -> Customers]
  WalletCurrency,    \* [Wallets -> Currencies]
  Thresholds,        \* what a chain may start at: an amount and its currency
  Keys               \* API keys of the tenant

VARIABLES
  wallet,            \* [live, chain]: the chain that guards it now
  chain,             \* [live, threshold, currency, approvers, steps]
  approval,          \* [status, wallet, chain, amount, approvedBy, required]
  keys               \* the keys that are issued and neither revoked nor expired

walletVars == <<wallet, chain, approval, keys, policy>>

ASSUME WalletAssumption ==
  /\ Wallets \subseteq Held
  /\ {"sandbox:wallet_funding", "external:wallet_send"} \subseteq House
  /\ WalletCurrency \in [Wallets -> Currencies]
  /\ Chains \subseteq Nat /\ Approvals \subseteq Nat

WalletTypeOK ==
  /\ PolicyTypeOK
  /\ wallet \in [Wallets -> [live : BOOLEAN, chain : Chains \cup {NoOne}]]
  /\ chain \in [Chains -> [live : BOOLEAN, threshold : Nat, currency : Currencies,
                           approvers : SUBSET Keys, steps : Nat]]
  /\ approval \in [Approvals ->
       [status : {"none", "pending", "executed", "rejected"}, wallet : Wallets \cup {NoOne},
        chain : Chains \cup {NoOne}, amount : Nat, approvedBy : SUBSET Keys, required : Nat]]
  /\ keys \subseteq Keys

WalletInit ==
  /\ PolicyInit
  /\ wallet = [w \in Wallets |-> [live |-> FALSE, chain |-> NoOne]]
  /\ chain = [h \in Chains |->
       [live |-> FALSE, threshold |-> 0, currency |-> AnyCurrency, approvers |-> {}, steps |-> 0]]
  /\ approval = [x \in Approvals |-> [status |-> "none", wallet |-> NoOne, chain |-> NoOne,
                                      amount |-> 0, approvedBy |-> {}, required |-> 0]]
  /\ keys = Keys

-----------------------------------------------------------------------------
CreateWallet(w) ==
  /\ ~wallet[w].live /\ Active(WalletHolder[w])
  /\ wallet' = [wallet EXCEPT ![w].live = TRUE]
  /\ UNCHANGED <<ledger, customerVars, chain, approval, keys, policy>>

WalletFunded == -SumOf(Currencies, LAMBDA c : Holds("sandbox:wallet_funding", c))

CreditWallet(w, n) ==
  /\ wallet[w].live
  /\ WalletFunded + n <= MaxFunds
  /\ Move(n, WalletCurrency[w], "sandbox:wallet_funding", w)
  /\ UNCHANGED <<customerVars, walletVars>>

(* Expiry and revocation both end a key; it stays named in the chains. One *)
(* key is left: with none nothing more can be asked.                       *)
KeyEnds(k) ==
  /\ k \in keys /\ Cardinality(keys) > 1
  /\ keys' = keys \ {k}
  /\ UNCHANGED <<ledger, customerVars, wallet, chain, approval, policy>>

NextChain == {h \in Chains : h = 1 + Cardinality({m \in Chains : chain[m].live})}

(* A chain names keys of the tenant that work now, or nobody: then any key *)
(* may decide. One raised on a wallet replaces the chain the wallet had.   *)
CreateChain(h, w, threshold, c, approvers, steps) ==
  /\ approvers \subseteq keys
  /\ approvers # {} => steps <= Cardinality(approvers)
  /\ chain' = [chain EXCEPT ![h] = [live |-> TRUE, threshold |-> threshold, currency |-> c,
                                    approvers |-> approvers, steps |-> steps]]
  /\ IF w = NoOne THEN UNCHANGED wallet
     ELSE wallet[w].live /\ wallet' = [wallet EXCEPT ![w].chain = h]
  /\ UNCHANGED <<ledger, customerVars, approval, keys, policy>>

-----------------------------------------------------------------------------
Guarded(w, n) ==
  /\ wallet[w].chain # NoOne
  /\ chain[wallet[w].chain].currency = WalletCurrency[w]
  /\ n >= chain[wallet[w].chain].threshold

Leaves(w, n) == Move(n, WalletCurrency[w], w, "external:wallet_send")

Sendable(w, n) ==
  wallet[w].live /\ n <= Holds(w, WalletCurrency[w]) /\ WithinPolicies(w, n)

SendNow(w, n) ==
  /\ Sendable(w, n) /\ ~Guarded(w, n)
  /\ Leaves(w, n)
  /\ UNCHANGED <<customerVars, walletVars>>

AskApproval(x, w, n) ==
  /\ x \in FirstFree(Approvals, approval)
  /\ Sendable(w, n) /\ Guarded(w, n)
  /\ approval' = [approval EXCEPT ![x] =
       [status |-> "pending", wallet |-> w, chain |-> wallet[w].chain, amount |-> n,
        approvedBy |-> {}, required |-> chain[wallet[w].chain].steps]]
  /\ UNCHANGED <<ledger, customerVars, wallet, chain, keys, policy>>

AnyKey(x, k) == k \in keys \ approval[x].approvedBy      \* mutant: of nobody's choosing
MayDecide(x, k) ==
  LET approvers == chain[approval[x].chain].approvers IN
  /\ k \in keys
  /\ approvers # {} => k \in approvers
  /\ k \notin approval[x].approvedBy

Pending(x) == approval[x].status = "pending"

(* Policies are not read again. When the balance no longer covers the send *)
(* the last approval fails whole, and may be given again.                  *)
Approve(x, k) ==
  LET by == approval[x].approvedBy \cup {k} IN
  /\ Pending(x) /\ MayDecide(x, k)
  /\ IF Cardinality(by) >= approval[x].required
     THEN /\ Leaves(approval[x].wallet, approval[x].amount)
          /\ approval' = [approval EXCEPT ![x] = [@ EXCEPT !.approvedBy = by, !.status = "executed"]]
     ELSE /\ approval' = [approval EXCEPT ![x].approvedBy = by]
          /\ UNCHANGED ledger
  /\ UNCHANGED <<customerVars, wallet, chain, keys, policy>>

Reject(x, k) ==
  /\ Pending(x) /\ MayDecide(x, k)
  /\ approval' = [approval EXCEPT ![x].status = "rejected"]
  /\ UNCHANGED <<ledger, customerVars, wallet, chain, keys, policy>>

WalletNext ==
  \/ \E w \in Wallets :
       \/ CreateWallet(w)
       \/ \E n \in Amounts : CreditWallet(w, n) \/ SendNow(w, n)
       \/ \E n \in Amounts, x \in Approvals : AskApproval(x, w, n)
  \/ \E h \in NextChain, w \in Wallets \cup {NoOne}, from \in Thresholds :
       \E approvers \in SUBSET Keys : \E steps \in 1 .. Cardinality(Keys) :
         CreateChain(h, w, from[1], from[2], approvers, steps)
  \/ \E x \in Approvals, k \in Keys : Approve(x, k) \/ Reject(x, k)
  \/ \E k \in Keys : KeyEnds(k)
  \/ PolicyNext({w \in Wallets : wallet[w].live})
       /\ UNCHANGED <<ledger, customerVars, wallet, chain, approval, keys>>

-----------------------------------------------------------------------------
(* Money leaves a wallet only below the threshold of the chain that guards *)
(* it now, or with the one step in which a pending approval for exactly    *)
(* that amount has collected as many different approvers of its own chain  *)
(* as the chain asks; a decision once final stays                          *)
(* (business.js POST /v2/wallets/:id/send, approvals approve and reject).  *)
Executed(x, w, n) ==
  /\ approval[x].status = "pending" /\ approval'[x].status = "executed"
  /\ approval[x].wallet = w /\ approval[x].amount = n
  /\ LET h == chain[approval[x].chain]
         by == approval'[x].approvedBy
     IN  Cardinality(by) >= h.steps /\ (h.approvers # {} => by \subseteq h.approvers)

SentBy(w) == Holds(w, WalletCurrency[w]) - ledger'[<<w, WalletCurrency[w]>>]

RightlySent ==
  \A w \in Wallets :
    SentBy(w) > 0 => ~Guarded(w, SentBy(w)) \/ \E x \in Approvals : Executed(x, w, SentBy(w))

DecidedStays ==
  \A x \in Approvals :
    approval[x].status \in {"executed", "rejected"} => approval'[x] = approval[x]

ExecutedSends ==
  \A x \in Approvals :
    approval[x].status = "pending" /\ approval'[x].status = "executed" =>
      \E w \in Wallets : SentBy(w) = approval[x].amount

(* A wallet's money leaves by right, decisions stay, and what an approval  *)
(* decided is what leaves.                                                 *)
ThresholdHonoured == [][RightlySent /\ DecidedStays /\ ExecutedSends]_<<ledger, approval>>
=============================================================================
