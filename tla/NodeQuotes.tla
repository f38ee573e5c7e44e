----------------------------- MODULE NodeQuotes -----------------------------
(***************************************************************************)
(* Quotes of an FX node that runs the private market alone                 *)
(* (apps/fx-node/src/quote-coordinator.js, and submitQuote of server.js):  *)
(* a row in the node's own database beside the route the market keeps in   *)
(* its database (FxMarket; here a call of the market is one step). Routes  *)
(* and quotes are one to one. The process may die between the two writes,  *)
(* and calls about one quote overlap where the code awaits.                *)
(***************************************************************************)
EXTENDS Naturals, FiniteSets

CONSTANT PrivateQuotes

VARIABLES
  row,          \* fx_node_quotes
  path,         \* the market's routes
  lapsed,       \* quotes past expires_at
  submitting,   \* [PrivateQuotes -> step of the one submitQuote that was let in]
  chain,        \* what became of the execution; known to the adapter
  sends         \* [PrivateQuotes -> calls of the execution adapter]

nodeQuoteVars == <<row, path, lapsed, submitting, chain, sends>>

NodeQuoteTypeOK ==
  /\ row \in [PrivateQuotes -> {"none", "RESERVED", "SUBMITTED", "CONFIRMED", "FAILED"}]
  /\ path \in [PrivateQuotes ->
                {"none", "RESERVED", "SUBMITTED", "CONFIRMED", "FAILED", "RELEASED"}]
  /\ lapsed \subseteq PrivateQuotes
  /\ submitting \in [PrivateQuotes -> {"idle", "marked", "rejected"}]
  /\ chain \in [PrivateQuotes -> {"none", "pending", "settled", "reverted"}]
  /\ sends \in [PrivateQuotes -> 0..2]

NodeQuoteInit ==
  /\ row = [q \in PrivateQuotes |-> "none"] /\ path = [q \in PrivateQuotes |-> "none"]
  /\ lapsed = {} /\ submitting = [q \in PrivateQuotes |-> "idle"]
  /\ chain = [q \in PrivateQuotes |-> "none"] /\ sends = [q \in PrivateQuotes |-> 0]

-----------------------------------------------------------------------------
Says(q, state) == row' = [row EXCEPT ![q] = state]
Becomes(q, state) == path' = [path EXCEPT ![q] = state]
Steps(q, step) == submitting' = [submitting EXCEPT ![q] = step]
Restarted == submitting' = [q \in PrivateQuotes |-> "idle"]

(* Two writes, market first; dying in between loses the second, and every  *)
(* call in flight.                                                         *)
BothOrFirst(q, state) ==
  /\ Becomes(q, state)
  /\ \/ Says(q, state) /\ UNCHANGED submitting
     \/ UNCHANGED row /\ Restarted

(* reserveExactOutput: a row that cannot be stored gives the route back.   *)
ReserveQuote(q) ==
  /\ path[q] = "none"
  /\ \/ BothOrFirst(q, "RESERVED")
     \/ Becomes(q, "RELEASED") /\ UNCHANGED <<row, submitting>>
  /\ UNCHANGED <<lapsed, chain, sends>>

(* Orders of the route are cancelled, or found no longer authorised: the   *)
(* market gives the route back and the row is not told.                    *)
LoseRoute(q) ==
  /\ path[q] = "RESERVED"
  /\ Becomes(q, "RELEASED")
  /\ UNCHANGED <<row, lapsed, submitting, chain, sends>>

(* submitQuote up to its first await. The reference is drawn for the call, *)
(* so a repeated call never matches what an earlier one left.              *)
ByExpiryAlone(q) == q \notin lapsed /\ row[q] # "none"   \* mutant: the states are not asked
Submittable(q) == q \notin lapsed /\ row[q] = "RESERVED" /\ path[q] = "RESERVED"
MarkSubmitted(q) ==
  /\ Submittable(q)
  /\ Becomes(q, "SUBMITTED")
  /\ \/ Says(q, "SUBMITTED") /\ Steps(q, "marked")
     \/ UNCHANGED row /\ Restarted
  /\ UNCHANGED <<lapsed, chain, sends>>

(* executionAdapter.submit: accepted, rejected, or nobody knows; what is   *)
(* not known may have arrived or not.                                      *)
SubmitToAdapter(q) ==
  /\ submitting[q] = "marked"
  /\ sends' = [sends EXCEPT ![q] = @ + 1]
  /\ \/ Steps(q, "idle") /\ chain' = [chain EXCEPT ![q] = "pending"]
     \/ Steps(q, "idle") /\ UNCHANGED chain
     \/ Steps(q, "rejected") /\ UNCHANGED chain
  /\ UNCHANGED <<row, path, lapsed>>

(* The market books an outcome once; a repeated one leaves it as it is.    *)
Resolve(q, state) ==
  /\ row[q] # "none" /\ path[q] \in {"SUBMITTED", state}
  /\ BothOrFirst(q, state)
  /\ UNCHANGED <<lapsed, chain, sends>>

RejectQuote(q) ==
  /\ submitting[q] = "rejected"
  /\ row[q] # "none" /\ path[q] \in {"SUBMITTED", "FAILED"}
  /\ Becomes(q, "FAILED")
  /\ \/ Says(q, "FAILED") /\ Steps(q, "idle")
     \/ UNCHANGED row /\ Restarted
  /\ UNCHANGED <<lapsed, chain, sends>>

(* Operators report what they saw on chain, as often as they like, and     *)
(* fail what never got there.                                              *)
ConfirmQuote(q) == chain[q] = "settled" /\ Resolve(q, "CONFIRMED")
FailQuote(q) ==
  /\ chain[q] \in {"none", "reverted"} /\ sends[q] > 0
  /\ Resolve(q, "FAILED")

SettleQuote(q) ==
  /\ chain[q] = "pending"
  /\ \E end \in {"settled", "reverted"} : chain' = [chain EXCEPT ![q] = end]
  /\ UNCHANGED <<row, path, lapsed, submitting, sends>>

Lapse(q) ==
  /\ path[q] # "none" /\ q \notin lapsed
  /\ lapsed' = lapsed \cup {q}
  /\ UNCHANGED <<row, path, submitting, chain, sends>>

DieBetween == Restarted /\ UNCHANGED <<row, path, lapsed, chain, sends>>

NodeQuoteNext ==
  \/ DieBetween
  \/ \E q \in PrivateQuotes :
       \/ ReserveQuote(q) \/ LoseRoute(q) \/ MarkSubmitted(q) \/ SubmitToAdapter(q)
       \/ RejectQuote(q) \/ ConfirmQuote(q) \/ FailQuote(q) \/ SettleQuote(q) \/ Lapse(q)

NodeQuoteSpec == NodeQuoteInit /\ [][NodeQuoteNext]_nodeQuoteVars

-----------------------------------------------------------------------------
(* A quote goes to the execution adapter once, and from then on its orders *)
(* are out of everybody's reach until the outcome is booked: the market    *)
(* was told before the adapter. The row may lag behind the market when a   *)
(* process died between the two databases, and never runs ahead of it      *)
(* (submitQuote, markSubmitted, confirm, fail).                            *)
SentOnceAndHeld ==
  \A q \in PrivateQuotes :
    /\ sends[q] <= 1
    /\ sends[q] = 1 => path[q] \in {"SUBMITTED", "CONFIRMED", "FAILED"} /\ row[q] # "RESERVED"
    /\ path[q] = "CONFIRMED" => chain[q] = "settled"
    /\ path[q] = "FAILED" => chain[q] # "settled"
    /\ row[q] \in {"CONFIRMED", "FAILED"} => path[q] = row[q]
    /\ row[q] = "SUBMITTED" => path[q] \in {"SUBMITTED", "CONFIRMED", "FAILED"}
=============================================================================
