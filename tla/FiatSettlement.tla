--------------------------- MODULE FiatSettlement ---------------------------
(***************************************************************************)
(* FiatSettlementStore (packages/fx-fiat/src/settlement-store.js) and the  *)
(* verifiers of adapters.js: the intent of a fiat leg, and the evidence    *)
(* that may fulfil it.                                                     *)
(*                                                                         *)
(* Every call is one synchronous transaction. An intent binds a payload;   *)
(* two payloads have one hash only if they are the same payload. Evidence  *)
(* is about a payment of a verifier, and arrives in any order, late, more  *)
(* than once, or aimed at another intent. Currency, payer and payee are    *)
(* compared as amounts are and are part of the payload.                    *)
(***************************************************************************)
EXTENDS NodeClock, FiniteSets

CONSTANTS
  Intents,
  Payloads,        \* what an intent binds: [terms, expiresAt]
  Verifiers, Payments,
  Ledger,          \* the verifier of the institution's own ledger
  Ids,             \* identifiers an attestation may carry
  Windows          \* lifetimes of an attestation

ASSUME FiatAssumption ==
  /\ Ledger \in Verifiers
  /\ Payloads # {} /\ \A p \in Payloads : p.expiresAt \in Nat
  /\ Windows \subseteq Nat \ {0}

VARIABLES
  verifiers,       \* fiat_verifiers that are enabled
  intents,         \* fiat_intents: [state, payload]
  attestations,    \* fiat_attestations
  events           \* fiat_events: [id, intent]

fiatVars == <<verifiers, intents, attestations, events>>

InFlight == {"SUBMITTED", "PAYMENT_OBSERVED", "VERIFIED"}
Over == {"SETTLED", "CANCELLED", "EXPIRED", "FAILED", "MANUAL_REVIEW"}
IntentStates == {"none", "CREATED", "RESERVED"} \cup InFlight \cup Over
Generated == "generated"     \* an identifier of the store's own, unlike any other
Attestation == [id : Ids \cup {Generated}, verifier : Verifiers, intent : Intents,
                payment : Payments]

FiatTypeOK ==
  /\ verifiers \subseteq Verifiers
  /\ intents \in [Intents -> [state : IntentStates, payload : Payloads]]
  /\ attestations \subseteq Attestation
  /\ events \subseteq [id : Ids \cup {Generated}, intent : Intents]

FiatInit ==
  /\ verifiers = Verifiers
  /\ intents = [i \in Intents |-> [state |-> "none", payload |-> CHOOSE p \in Payloads : TRUE]]
  /\ attestations = {}
  /\ events = {}

-----------------------------------------------------------------------------
SetVerifierEnabled(v, enabled) ==
  /\ verifiers' = IF enabled THEN verifiers \cup {v} ELSE verifiers \ {v}
  /\ UNCHANGED <<intents, attestations, events>>

Timely(i) == intents[i].payload.expiresAt > now

(* A second intent of the same identifier is the first or is refused. *)
CreateIntent(i, payload) ==
  /\ intents[i].state = "none"
  /\ payload.expiresAt > now
  /\ intents' = [intents EXCEPT ![i] = [state |-> "CREATED", payload |-> payload]]
  /\ UNCHANGED <<verifiers, attestations, events>>

(* #transition. A late intent may only fail: manual review is closed to it. *)
Transition(i, from, to) ==
  /\ intents[i].state \in from
  /\ Timely(i) \/ to = "FAILED"
  /\ intents' = [intents EXCEPT ![i].state = to]
  /\ UNCHANGED <<verifiers, attestations, events>>

ReserveIntent(i) == Transition(i, {"CREATED"}, "RESERVED")
SubmitIntent(i) == Transition(i, {"RESERVED"}, "SUBMITTED")
ObservePayment(i) == Transition(i, {"SUBMITTED"}, "PAYMENT_OBSERVED")
CancelIntent(i) == Transition(i, {"CREATED", "RESERVED"}, "CANCELLED")
FailIntent(i) == Transition(i, InFlight, "FAILED")
ManualReview(i) == Transition(i, InFlight, "MANUAL_REVIEW")

SweepsAll == {"CREATED", "RESERVED", "SUBMITTED"}   \* mutant: what was sent expires
Sweeps == {"CREATED", "RESERVED"}
ExpireIntents ==
  /\ intents' = [i \in Intents |->
       IF intents[i].state \in Sweeps /\ ~Timely(i)
       THEN [intents[i] EXCEPT !.state = "EXPIRED"] ELSE intents[i]]
  /\ UNCHANGED <<verifiers, attestations, events>>

-----------------------------------------------------------------------------
(* acceptAttestation. `hashed` is the intent and payload whose hash the    *)
(* attestation carries, `terms` what it says was paid, `until` its expiry. *)

Stored(id) == {a \in attestations : a.id = id /\ id # Generated}
ByIdentifier(v, payment) == FALSE   \* mutant: only the identifier is remembered
Replayed(v, payment) ==
  \E a \in attestations : a.verifier = v /\ a.payment = payment

(* An identifier that is known is a duplicate or a collision: no change. *)
AcceptAttestation(v, id, i, payment, hashed, terms, until) ==
  /\ v \in verifiers
  /\ Stored(id) = {}
  /\ intents[i].state \in {"SUBMITTED", "PAYMENT_OBSERVED"}
  /\ Timely(i)
  /\ hashed = [intent |-> i, payload |-> intents[i].payload]
  /\ terms = intents[i].payload.terms
  /\ until > now
  /\ ~Replayed(v, payment)
  /\ attestations' = attestations \cup
       {[id |-> id, verifier |-> v, intent |-> i, payment |-> payment]}
  /\ intents' = [intents EXCEPT ![i].state = "VERIFIED"]
  /\ UNCHANGED <<verifiers, events>>

(* InternalLedgerVerifier.attest: the intent is the caller's copy; a       *)
(* posted ledger event names its intent, and its identifier is both that   *)
(* of the attestation and of the payment.                                  *)
Attest(i, copy, posting, terms) ==
  AcceptAttestation(Ledger, posting, i, posting, [intent |-> i, payload |-> copy], terms,
                    IF copy.expiresAt < now + 1 THEN copy.expiresAt ELSE now + 1)

(* AttestedPaymentVerifier.verify: everything is the provider's evidence,  *)
(* for the intent of the caller. PENDING, MANUAL_REVIEW and REJECTED       *)
(* evidence, and a refusal of the store, are only reported.                *)
Verify(v, id, i, payment, hashed, terms, window) ==
  AcceptAttestation(v, id, i, payment, hashed, terms, now + window)

(* settleVerifiedIntent: an event that is known is a duplicate. *)
Settleable(i) == intents[i].state = "VERIFIED"
SettleVerifiedIntent(i, id) ==
  /\ \A e \in events : e.id # id \/ id = Generated
  /\ Settleable(i)
  /\ intents' = [intents EXCEPT ![i].state = "SETTLED"]
  /\ events' = events \cup {[id |-> id, intent |-> i]}
  /\ UNCHANGED <<verifiers, attestations>>

-----------------------------------------------------------------------------
FiatNext ==
  \/ \E v \in Verifiers, enabled \in BOOLEAN : SetVerifierEnabled(v, enabled)
  \/ \E i \in Intents :
       \/ \E payload \in Payloads : CreateIntent(i, payload)
       \/ ReserveIntent(i) \/ SubmitIntent(i) \/ ObservePayment(i)
       \/ CancelIntent(i) \/ FailIntent(i) \/ ManualReview(i)
       \/ \E id \in Ids \cup {Generated} : SettleVerifiedIntent(i, id)
  \/ ExpireIntents
  \/ \E i \in Intents, copy \in Payloads, posting \in Payments \cap Ids,
        terms \in {p.terms : p \in Payloads} : Attest(i, copy, posting, terms)
  \/ \E v \in Verifiers \ {Ledger}, id \in Ids \cup {Generated}, i \in Intents,
        payment \in Payments, hashed \in [intent : Intents, payload : Payloads],
        terms \in {p.terms : p \in Payloads}, window \in Windows :
       Verify(v, id, i, payment, hashed, terms, window)

FiatSpec ==
  /\ FiatInit /\ now = 0
  /\ [][(FiatNext /\ UNCHANGED now) \/ (Tick /\ UNCHANGED fiatVars)]_<<fiatVars, now>>

-----------------------------------------------------------------------------
Fulfilled == {i \in Intents : intents[i].state \in {"VERIFIED", "SETTLED"}}

(* A payment fulfils one intent: as many payments were attested as there   *)
(* are intents verified or settled, and each of these has its own. (The    *)
(* namespaces of two verifiers are their own.) It holds for evidence that  *)
(* is delivered again under another identifier or for another intent, and  *)
(* after any way an intent may leave VERIFIED.                             *)
OnePaymentEach ==
  /\ \A i \in Fulfilled : \E a \in attestations : a.intent = i
  /\ \A a, b \in attestations :
       a.intent # b.intent => <<a.verifier, a.payment>> # <<b.verifier, b.payment>>
  /\ \A a, b \in attestations : a.intent = b.intent => a = b
  /\ \A i \in Intents : intents[i].state = "SETTLED" =>
       Cardinality({e \in events : e.intent = i}) = 1

(* A leg that was handed to the rail is never taken back: it ends settled, *)
(* failed or with a person, never cancelled or expired, and an end is      *)
(* final. The sweep of late intents and a late cancellation meet legs in   *)
(* any state.                                                              *)
NotTakenBack(i) ==
  /\ intents[i].state \in InFlight =>
       intents'[i].state \in InFlight \cup {"SETTLED", "FAILED", "MANUAL_REVIEW"}
  /\ intents[i].state \in Over => intents'[i] = intents[i]
NeverTakenBack == [][\A i \in Intents : NotTakenBack(i)]_fiatVars
=============================================================================
