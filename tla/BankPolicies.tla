---------------------------- MODULE BankPolicies ----------------------------
(***************************************************************************)
(* Spending policies: caps that hold for the wallets and cards a policy is *)
(* attached to, read when a send or an authorisation is asked for.         *)
(***************************************************************************)
EXTENDS BankCustomers

CONSTANTS Policies, Capped, Caps     \* Capped: the wallets and cards

VARIABLE policy                      \* [live, caps, attached]

PolicyTypeOK ==
  policy \in [Policies -> [live : BOOLEAN, caps : SUBSET Caps, attached : SUBSET Capped]]

PolicyInit == policy = [p \in Policies |-> [live |-> FALSE, caps |-> {}, attached |-> {}]]

CreatePolicy(p, caps) ==
  ~policy[p].live /\ policy' = [policy EXCEPT ![p] = [live |-> TRUE, caps |-> caps, attached |-> {}]]

DeletePolicy(p) ==
  policy[p].live /\ policy' = [policy EXCEPT ![p] = [live |-> FALSE, caps |-> {}, attached |-> {}]]

AddRule(p, cap) == policy[p].live /\ policy' = [policy EXCEPT ![p].caps = @ \cup {cap}]

ChangeRule(p, old, new) ==
  policy[p].live /\ old \in policy[p].caps /\ policy' = [policy EXCEPT ![p].caps = (@ \ {old}) \cup {new}]

RemoveRule(p, cap) ==
  policy[p].live /\ cap \in policy[p].caps /\ policy' = [policy EXCEPT ![p].caps = @ \ {cap}]

Attach(p, x, existing) ==
  policy[p].live /\ x \in existing /\ policy' = [policy EXCEPT ![p].attached = @ \cup {x}]

Detach(p, x) == policy[p].live /\ policy' = [policy EXCEPT ![p].attached = @ \ {x}]

WithinPolicies(x, n) ==
  \A p \in Policies : x \in policy[p].attached => \A cap \in policy[p].caps : n <= cap

PolicyNext(existing) ==
  \E p \in Policies :
    \/ \E caps \in SUBSET Caps : CreatePolicy(p, caps)
    \/ DeletePolicy(p)
    \/ \E cap \in Caps : AddRule(p, cap) \/ RemoveRule(p, cap)
    \/ \E old, new \in Caps : ChangeRule(p, old, new)
    \/ \E x \in Capped : Attach(p, x, existing) \/ Detach(p, x)
=============================================================================
