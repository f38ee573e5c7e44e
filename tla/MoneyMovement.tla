--------------------------- MODULE MoneyMovement ---------------------------
(***************************************************************************)
(* What the provider outbox promises about one external money movement,    *)
(* whatever the network, the pump and the process do: a reserved amount is *)
(* declared settled only when the provider settled it, is given back only  *)
(* when the provider can no longer move it, and is resolved at most once.  *)
(* ProviderOutbox implements this specification.                           *)
(***************************************************************************)
CONSTANT Moves          \* the money-moving provider jobs

VARIABLES
  books,     \* books[m]: where our ledger says the amount is
  outside    \* outside[m]: what the provider really did with it

moveVars == <<books, outside>>

Books == {"spendable", "reserved", "settled", "refunded"}
Outside == {"unseen", "submitted", "settled", "returned", "refused"}

MoveTypeOK ==
  /\ books \in [Moves -> Books]
  /\ outside \in [Moves -> Outside]

MoveInit ==
  /\ books = [m \in Moves |-> "spendable"]
  /\ outside = [m \in Moves |-> "unseen"]

(* The customer's money leaves the account for a clearing account. *)
Reserve(m) ==
  /\ books[m] = "spendable"
  /\ books' = [books EXCEPT ![m] = "reserved"]
  /\ UNCHANGED outside

(* The provider moves the money, or refuses for good; only a reserved      *)
(* amount can be instructed.                                               *)
Instruct(m) ==
  /\ books[m] = "reserved"
  /\ outside[m] = "unseen"
  /\ \E o \in {"submitted", "refused"} : outside' = [outside EXCEPT ![m] = o]
  /\ UNCHANGED books

Conclude(m) ==
  /\ outside[m] = "submitted"
  /\ \E o \in {"settled", "returned"} : outside' = [outside EXCEPT ![m] = o]
  /\ UNCHANGED books

Settle(m) ==
  /\ books[m] = "reserved"
  /\ outside[m] = "settled"
  /\ books' = [books EXCEPT ![m] = "settled"]
  /\ UNCHANGED outside

Refund(m) ==
  /\ books[m] = "reserved"
  /\ outside[m] \in {"refused", "returned"}
  /\ books' = [books EXCEPT ![m] = "refunded"]
  /\ UNCHANGED outside

MoveNext ==
  \E m \in Moves :
    Reserve(m) \/ Instruct(m) \/ Conclude(m) \/ Settle(m) \/ Refund(m)

MoveSpec == MoveInit /\ [][MoveNext]_moveVars
=============================================================================
