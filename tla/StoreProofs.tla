----------------------------- MODULE StoreProofs -----------------------------
(***************************************************************************)
(* What the stores behind the FX node keep for every value of their        *)
(* constants: the quotes of a node that runs the private market alone      *)
(* (NodeQuotes), the fiat legs (FiatSettlement), the reserve behind        *)
(* monetary instruments (MonetaryReserve), the policy engine with what the *)
(* node offers under it (FxPolicy), and the simulator (FxSimulator).       *)
(* MCReferenceNode is there for the names of the properties its run checks. *)
(***************************************************************************)
EXTENDS MCReferenceNode, SumTheorems, SequenceTheorems

-----------------------------------------------------------------------------
(* Quotes of a node with the private market alone. Per quote: the row only *)
(* ever repeats what the market's route has been through; the call to the  *)
(* adapter in flight holds both at SUBMITTED and has sent nothing; a       *)
(* rejection in flight has sent once and nothing arrived; and before       *)
(* anything was sent neither the chain nor an outcome knows the quote.     *)

RowLags(q) ==
  /\ row[q] = "none" => path[q] \in {"none", "RESERVED", "RELEASED"}
  /\ row[q] = "SUBMITTED" => path[q] \in {"SUBMITTED", "CONFIRMED", "FAILED"}
  /\ row[q] \in {"CONFIRMED", "FAILED"} => path[q] = row[q]
  /\ path[q] = "none" => row[q] = "none"
CallInFlight(q) ==
  /\ submitting[q] = "marked" =>
       sends[q] = 0 /\ row[q] = "SUBMITTED" /\ path[q] = "SUBMITTED"
  /\ submitting[q] = "rejected" =>
       /\ sends[q] = 1 /\ chain[q] = "none"
       /\ row[q] \in {"SUBMITTED", "FAILED"} /\ path[q] \in {"SUBMITTED", "FAILED"}
NothingSent(q) ==
  sends[q] = 0 => chain[q] = "none" /\ path[q] \notin {"CONFIRMED", "FAILED"}
Sent(q) ==
  /\ sends[q] <= 1
  /\ sends[q] = 1 => /\ path[q] \in {"SUBMITTED", "CONFIRMED", "FAILED"}
                     /\ row[q] \in {"SUBMITTED", "CONFIRMED", "FAILED"}
OutcomeIsSeen(q) ==
  /\ path[q] = "CONFIRMED" => chain[q] = "settled"
  /\ path[q] = "FAILED" => chain[q] \in {"none", "reverted"}

QuoteInv(q) ==
  /\ RowLags(q) /\ CallInFlight(q) /\ NothingSent(q) /\ Sent(q) /\ OutcomeIsSeen(q)
NodeQuoteInv == NodeQuoteTypeOK /\ \A q \in PrivateQuotes : QuoteInv(q)

(* A step of one quote leaves what it does not write, or writes alike for  *)
(* all: a restart drops every call in flight.                              *)
LEMMA QuoteFrame ==
  ASSUME NEW p \in PrivateQuotes, QuoteInv(p),
         row'[p] = row[p], path'[p] = path[p], chain'[p] = chain[p], sends'[p] = sends[p],
         submitting'[p] \in {submitting[p], "idle"}
  PROVE  QuoteInv(p)'
BY DEF QuoteInv, RowLags, CallInFlight, NothingSent, Sent, OutcomeIsSeen

LEMMA ReserveQuoteKeeps ==
  ASSUME NodeQuoteInv, NEW q \in PrivateQuotes, ReserveQuote(q)
  PROVE  NodeQuoteInv'
<1> USE DEF ReserveQuote, BothOrFirst, Becomes, Says, Restarted
<1>1. NodeQuoteTypeOK'
  BY DEF NodeQuoteInv, NodeQuoteTypeOK
<1>2. QuoteInv(q)'
  BY DEF NodeQuoteInv, NodeQuoteTypeOK, QuoteInv, RowLags, CallInFlight, NothingSent, Sent,
         OutcomeIsSeen
<1>3. ASSUME NEW p \in PrivateQuotes \ {q} PROVE QuoteInv(p)'
  BY QuoteFrame DEF NodeQuoteInv, NodeQuoteTypeOK
<1> QED BY <1>1, <1>2, <1>3 DEF NodeQuoteInv

LEMMA LoseRouteKeeps ==
  ASSUME NodeQuoteInv, NEW q \in PrivateQuotes, LoseRoute(q)
  PROVE  NodeQuoteInv'
<1> USE DEF LoseRoute, Becomes
<1>1. NodeQuoteTypeOK'
  BY DEF NodeQuoteInv, NodeQuoteTypeOK
<1>2. QuoteInv(q)'
  BY DEF NodeQuoteInv, NodeQuoteTypeOK, QuoteInv, RowLags, CallInFlight, NothingSent, Sent,
         OutcomeIsSeen
<1>3. ASSUME NEW p \in PrivateQuotes \ {q} PROVE QuoteInv(p)'
  BY QuoteFrame DEF NodeQuoteInv, NodeQuoteTypeOK
<1> QED BY <1>1, <1>2, <1>3 DEF NodeQuoteInv

LEMMA MarkSubmittedKeeps ==
  ASSUME NodeQuoteInv, NEW q \in PrivateQuotes, MarkSubmitted(q)
  PROVE  NodeQuoteInv'
<1> USE DEF MarkSubmitted, Submittable, Becomes, Says, Steps, Restarted
<1>1. NodeQuoteTypeOK'
  BY DEF NodeQuoteInv, NodeQuoteTypeOK
<1>2. QuoteInv(q)'
  BY DEF NodeQuoteInv, NodeQuoteTypeOK, QuoteInv, RowLags, CallInFlight, NothingSent, Sent,
         OutcomeIsSeen
<1>3. ASSUME NEW p \in PrivateQuotes \ {q} PROVE QuoteInv(p)'
  BY QuoteFrame DEF NodeQuoteInv, NodeQuoteTypeOK
<1> QED BY <1>1, <1>2, <1>3 DEF NodeQuoteInv

LEMMA SubmitToAdapterKeeps ==
  ASSUME NodeQuoteInv, NEW q \in PrivateQuotes, SubmitToAdapter(q)
  PROVE  NodeQuoteInv'
<1> USE DEF SubmitToAdapter, Steps
<1>a. sends[q] = 0
  BY DEF NodeQuoteInv, QuoteInv, CallInFlight
<1>1. NodeQuoteTypeOK'
  BY <1>a DEF NodeQuoteInv, NodeQuoteTypeOK
<1>2. QuoteInv(q)'
  BY DEF NodeQuoteInv, NodeQuoteTypeOK, QuoteInv, RowLags, CallInFlight, NothingSent, Sent,
         OutcomeIsSeen
<1>3. ASSUME NEW p \in PrivateQuotes \ {q} PROVE QuoteInv(p)'
  BY QuoteFrame DEF NodeQuoteInv, NodeQuoteTypeOK
<1> QED BY <1>1, <1>2, <1>3 DEF NodeQuoteInv

LEMMA RejectQuoteKeeps ==
  ASSUME NodeQuoteInv, NEW q \in PrivateQuotes, RejectQuote(q)
  PROVE  NodeQuoteInv'
<1> USE DEF RejectQuote, Becomes, Says, Steps, Restarted
<1>1. NodeQuoteTypeOK'
  BY DEF NodeQuoteInv, NodeQuoteTypeOK
<1>2. QuoteInv(q)'
  BY DEF NodeQuoteInv, NodeQuoteTypeOK, QuoteInv, RowLags, CallInFlight, NothingSent, Sent,
         OutcomeIsSeen
<1>3. ASSUME NEW p \in PrivateQuotes \ {q} PROVE QuoteInv(p)'
  BY QuoteFrame DEF NodeQuoteInv, NodeQuoteTypeOK
<1> QED BY <1>1, <1>2, <1>3 DEF NodeQuoteInv

LEMMA ConfirmQuoteKeeps ==
  ASSUME NodeQuoteInv, NEW q \in PrivateQuotes, ConfirmQuote(q)
  PROVE  NodeQuoteInv'
<1> USE DEF ConfirmQuote, Resolve, BothOrFirst, Becomes, Says, Restarted
<1>1. NodeQuoteTypeOK'
  BY DEF NodeQuoteInv, NodeQuoteTypeOK
<1>2. QuoteInv(q)'
  BY DEF NodeQuoteInv, NodeQuoteTypeOK, QuoteInv, RowLags, CallInFlight, NothingSent, Sent,
         OutcomeIsSeen
<1>3. ASSUME NEW p \in PrivateQuotes \ {q} PROVE QuoteInv(p)'
  BY QuoteFrame DEF NodeQuoteInv, NodeQuoteTypeOK
<1> QED BY <1>1, <1>2, <1>3 DEF NodeQuoteInv

LEMMA FailQuoteKeeps ==
  ASSUME NodeQuoteInv, NEW q \in PrivateQuotes, FailQuote(q)
  PROVE  NodeQuoteInv'
<1> USE DEF FailQuote, Resolve, BothOrFirst, Becomes, Says, Restarted
<1>1. NodeQuoteTypeOK'
  BY DEF NodeQuoteInv, NodeQuoteTypeOK
<1>2. QuoteInv(q)'
  BY DEF NodeQuoteInv, NodeQuoteTypeOK, QuoteInv, RowLags, CallInFlight, NothingSent, Sent,
         OutcomeIsSeen
<1>3. ASSUME NEW p \in PrivateQuotes \ {q} PROVE QuoteInv(p)'
  BY QuoteFrame DEF NodeQuoteInv, NodeQuoteTypeOK
<1> QED BY <1>1, <1>2, <1>3 DEF NodeQuoteInv

LEMMA SettleQuoteKeeps ==
  ASSUME NodeQuoteInv, NEW q \in PrivateQuotes, SettleQuote(q)
  PROVE  NodeQuoteInv'
<1> USE DEF SettleQuote
<1>1. NodeQuoteTypeOK'
  BY DEF NodeQuoteInv, NodeQuoteTypeOK
<1>2. QuoteInv(q)'
  BY DEF NodeQuoteInv, NodeQuoteTypeOK, QuoteInv, RowLags, CallInFlight, NothingSent, Sent,
         OutcomeIsSeen
<1>3. ASSUME NEW p \in PrivateQuotes \ {q} PROVE QuoteInv(p)'
  BY QuoteFrame DEF NodeQuoteInv, NodeQuoteTypeOK
<1> QED BY <1>1, <1>2, <1>3 DEF NodeQuoteInv

LEMMA LapseKeeps ==
  ASSUME NodeQuoteInv, NEW q \in PrivateQuotes, Lapse(q)
  PROVE  NodeQuoteInv'
<1> USE DEF Lapse
<1>1. NodeQuoteTypeOK'
  BY DEF NodeQuoteInv, NodeQuoteTypeOK
<1>2. QuoteInv(q)'
  BY DEF NodeQuoteInv, NodeQuoteTypeOK, QuoteInv, RowLags, CallInFlight, NothingSent, Sent,
         OutcomeIsSeen
<1>3. ASSUME NEW p \in PrivateQuotes \ {q} PROVE QuoteInv(p)'
  BY QuoteFrame DEF NodeQuoteInv, NodeQuoteTypeOK
<1> QED BY <1>1, <1>2, <1>3 DEF NodeQuoteInv

(* The inductive invariant of the quotes.                                  *)
THEOREM NodeQuoteInvariant == NodeQuoteSpec => []NodeQuoteInv
<1>1. NodeQuoteInit => NodeQuoteInv
  BY DEF NodeQuoteInit, NodeQuoteInv, NodeQuoteTypeOK, QuoteInv, RowLags, CallInFlight,
         NothingSent, Sent, OutcomeIsSeen
<1>2. NodeQuoteInv /\ [NodeQuoteNext]_nodeQuoteVars => NodeQuoteInv'
  <2> SUFFICES ASSUME NodeQuoteInv, [NodeQuoteNext]_nodeQuoteVars PROVE NodeQuoteInv'
    OBVIOUS
  <2>1. CASE DieBetween
    <3>1. NodeQuoteTypeOK'
      BY <2>1 DEF DieBetween, Restarted, NodeQuoteInv, NodeQuoteTypeOK
    <3> QED BY <2>1, <3>1, QuoteFrame DEF DieBetween, Restarted, NodeQuoteInv, NodeQuoteTypeOK
  <2>2. CASE UNCHANGED nodeQuoteVars
    BY <2>2 DEF nodeQuoteVars, NodeQuoteInv, NodeQuoteTypeOK, QuoteInv, RowLags,
                CallInFlight, NothingSent, Sent, OutcomeIsSeen
  <2>3. ASSUME NEW q \in PrivateQuotes,
               \/ ReserveQuote(q) \/ LoseRoute(q) \/ MarkSubmitted(q)
               \/ SubmitToAdapter(q) \/ RejectQuote(q) \/ ConfirmQuote(q)
               \/ FailQuote(q) \/ SettleQuote(q) \/ Lapse(q)
        PROVE  NodeQuoteInv'
    BY <2>3, ReserveQuoteKeeps, LoseRouteKeeps, MarkSubmittedKeeps, SubmitToAdapterKeeps,
       RejectQuoteKeeps, ConfirmQuoteKeeps, FailQuoteKeeps, SettleQuoteKeeps, LapseKeeps
  <2> QED BY <2>1, <2>2, <2>3 DEF NodeQuoteNext
<1> QED BY <1>1, <1>2, PTL DEF NodeQuoteSpec

(* A quote goes to the execution adapter once, after the market was told,  *)
(* and the row never runs ahead of the market, whenever the process dies   *)
(* and however calls about a quote overlap (quote-coordinator.js).         *)
THEOREM QuoteSentOnce == NodeQuoteSpec => []SentOnceAndHeld
<1>1. NodeQuoteInv => SentOnceAndHeld
  BY DEF NodeQuoteInv, NodeQuoteTypeOK, QuoteInv, RowLags, Sent, OutcomeIsSeen,
         SentOnceAndHeld
<1> QED BY <1>1, NodeQuoteInvariant, PTL

-----------------------------------------------------------------------------
(* The legs of FiatSettlement. An attestation or an event of a leg fixes   *)
(* where the leg may be, so that no second one can be booked for it; and a *)
(* leg that left VERIFIED keeps its attestation, which stands in the way   *)
(* of the payment's second use.                                            *)

Attested == {"VERIFIED", "SETTLED", "FAILED", "MANUAL_REVIEW"}
LegsAttested ==
  /\ \A i \in Fulfilled : \E a \in attestations : a.intent = i
  /\ \A a \in attestations : intents[a.intent].state \in Attested
PaymentsApart ==
  \A a, b \in attestations :
    a = b \/ (a.intent # b.intent /\ <<a.verifier, a.payment>> # <<b.verifier, b.payment>>)
LegsSettled ==
  /\ \A i \in Intents : intents[i].state = "SETTLED" => \E e \in events : e.intent = i
  /\ \A e \in events : intents[e.intent].state = "SETTLED"
  /\ \A e, f \in events : e.intent = f.intent => e = f
FiatInv == FiatTypeOK /\ LegsAttested /\ PaymentsApart /\ LegsSettled

LEMMA FiatFrame ==
  ASSUME FiatInv, FiatTypeOK', UNCHANGED <<attestations, events>>,
         \A i \in Intents :
           \/ intents'[i].state = intents[i].state
           \/ intents[i].state \notin Attested /\ intents'[i].state \notin {"VERIFIED", "SETTLED"}
           \/ intents[i].state = "VERIFIED" /\ intents'[i].state \in {"FAILED", "MANUAL_REVIEW"}
  PROVE  FiatInv'
<1>1. PICK state \in [Intents -> IntentStates] : \A i \in Intents : state[i] = intents[i].state
  <2>1. [i \in Intents |-> intents[i].state] \in [Intents -> IntentStates]
    BY DEF FiatInv, FiatTypeOK
  <2> QED BY <2>1
<1>2. \A a \in attestations : a.intent \in Intents
  BY DEF FiatInv, FiatTypeOK, Attestation
<1>3. \A e \in events : e.intent \in Intents
  BY DEF FiatInv, FiatTypeOK
<1>4. LegsAttested'
  BY <1>2 DEF FiatInv, LegsAttested, Fulfilled, Attested
<1>5. PaymentsApart'
  BY DEF FiatInv, PaymentsApart
<1>6. LegsSettled'
  BY <1>3 DEF FiatInv, LegsSettled, Attested
<1> QED BY <1>4, <1>5, <1>6 DEF FiatInv

LEMMA TransitionKeeps ==
  ASSUME FiatInv, NEW i \in Intents, NEW from, NEW to \in IntentStates \ {"VERIFIED", "SETTLED"},
         Transition(i, from, to),
         from \cap Attested \subseteq {"VERIFIED"},
         "VERIFIED" \in from => to \in {"FAILED", "MANUAL_REVIEW"}
  PROVE  FiatInv'
<1>1. FiatTypeOK'
  BY DEF Transition, FiatInv, FiatTypeOK
<1>2. intents[i].state \in from
  BY DEF Transition
<1>3. \A j \in Intents : intents'[j].state = IF j = i THEN to ELSE intents[j].state
  BY DEF Transition, FiatInv, FiatTypeOK
<1> QED BY <1>1, <1>2, <1>3, FiatFrame DEF Transition, Attested

LEMMA StatesAlone ==
  ASSUME FiatInv, NEW i \in Intents,
         \/ ReserveIntent(i) \/ SubmitIntent(i) \/ ObservePayment(i)
         \/ CancelIntent(i) \/ FailIntent(i) \/ ManualReview(i)
  PROVE  FiatInv'
BY TransitionKeeps DEF ReserveIntent, SubmitIntent, ObservePayment, CancelIntent, FailIntent,
   ManualReview, InFlight, IntentStates, Over, Attested

LEMMA CreateIntentKeeps ==
  ASSUME FiatInv, NEW i \in Intents, NEW payload \in Payloads, CreateIntent(i, payload)
  PROVE  FiatInv'
<1>1. FiatTypeOK'
  BY DEF CreateIntent, FiatInv, FiatTypeOK, IntentStates
<1>2. \A j \in Intents :
        intents'[j].state = IF j = i THEN "CREATED" ELSE intents[j].state
  BY DEF CreateIntent, FiatInv, FiatTypeOK
<1>3. intents[i].state = "none"
  BY DEF CreateIntent
<1> QED BY <1>1, <1>2, <1>3, FiatFrame DEF CreateIntent, Attested

LEMMA ExpireIntentsKeeps ==
  ASSUME FiatInv, ExpireIntents
  PROVE  FiatInv'
<1>1. ASSUME NEW j \in Intents
      PROVE  /\ intents'[j] \in [state : IntentStates, payload : Payloads]
             /\ \/ intents'[j].state = intents[j].state
                \/ intents[j].state \in Sweeps /\ intents'[j].state = "EXPIRED"
  BY DEF ExpireIntents, FiatInv, FiatTypeOK, IntentStates, Over
<1>2. FiatTypeOK'
  BY <1>1 DEF ExpireIntents, FiatInv, FiatTypeOK
<1> QED BY <1>1, <1>2, FiatFrame DEF ExpireIntents, Sweeps, Attested

LEMMA AcceptAttestationKeeps ==
  ASSUME FiatInv, NEW v \in Verifiers, NEW id \in Ids \cup {Generated}, NEW i \in Intents,
         NEW payment \in Payments, NEW hashed, NEW terms, NEW until,
         AcceptAttestation(v, id, i, payment, hashed, terms, until)
  PROVE  FiatInv'
<1>1. PICK new \in Attestation :
        new = [id |-> id, verifier |-> v, intent |-> i, payment |-> payment]
  BY DEF Attestation
<1>2. attestations' = attestations \cup {new}
  BY <1>1 DEF AcceptAttestation
<1>3. \A j \in Intents :
        intents'[j].state = IF j = i THEN "VERIFIED" ELSE intents[j].state
  BY DEF AcceptAttestation, FiatInv, FiatTypeOK
<1>4. FiatTypeOK'
  BY <1>2 DEF AcceptAttestation, FiatInv, FiatTypeOK, IntentStates, InFlight
<1>5. intents[i].state \in {"SUBMITTED", "PAYMENT_OBSERVED"}
  BY DEF AcceptAttestation
<1>6. \A a \in attestations : a.intent \in Intents /\ a.intent # i
  BY <1>5 DEF FiatInv, FiatTypeOK, Attestation, LegsAttested, Attested
<1>7. LegsAttested'
  BY <1>1, <1>2, <1>3, <1>6 DEF FiatInv, LegsAttested, Fulfilled, Attested
<1>8. PaymentsApart'
  <2>1. \A a \in attestations : <<a.verifier, a.payment>> # <<v, payment>>
    BY DEF AcceptAttestation, Replayed
  <2> QED BY <1>1, <1>2, <1>6, <2>1 DEF FiatInv, PaymentsApart
<1>9. LegsSettled'
  BY <1>3, <1>5 DEF AcceptAttestation, FiatInv, FiatTypeOK, LegsSettled
<1> QED BY <1>4, <1>7, <1>8, <1>9 DEF FiatInv

LEMMA SettleVerifiedIntentKeeps ==
  ASSUME FiatInv, NEW i \in Intents, NEW id \in Ids \cup {Generated},
         SettleVerifiedIntent(i, id)
  PROVE  FiatInv'
<1>1. PICK new \in [id : Ids \cup {Generated}, intent : Intents] :
        new = [id |-> id, intent |-> i]
  OBVIOUS
<1>2. events' = events \cup {new}
  BY <1>1 DEF SettleVerifiedIntent
<1>3. \A j \in Intents :
        intents'[j].state = IF j = i THEN "SETTLED" ELSE intents[j].state
  BY DEF SettleVerifiedIntent, FiatInv, FiatTypeOK
<1>4. FiatTypeOK'
  BY <1>2 DEF SettleVerifiedIntent, FiatInv, FiatTypeOK, IntentStates, Over
<1>5. intents[i].state = "VERIFIED"
  BY DEF SettleVerifiedIntent, Settleable
<1>6. \A e \in events : e.intent \in Intents /\ e.intent # i
  BY <1>5 DEF FiatInv, FiatTypeOK, LegsSettled
<1>7. LegsAttested'
  BY <1>3, <1>5 DEF SettleVerifiedIntent, FiatInv, FiatTypeOK, Attestation, LegsAttested,
                    Fulfilled, Attested
<1>8. PaymentsApart'
  BY DEF SettleVerifiedIntent, FiatInv, PaymentsApart
<1>9. LegsSettled'
  BY <1>1, <1>2, <1>3, <1>6 DEF FiatInv, LegsSettled
<1> QED BY <1>4, <1>7, <1>8, <1>9 DEF FiatInv

LEMMA FiatNextKeeps ==
  ASSUME FiatInv, FiatNext
  PROVE  FiatInv'
<1>1. ASSUME NEW v \in Verifiers, NEW on \in BOOLEAN, SetVerifierEnabled(v, on)
      PROVE  FiatInv'
  <2>1. FiatTypeOK'
    BY <1>1 DEF SetVerifierEnabled, FiatInv, FiatTypeOK
  <2> QED BY <1>1, <2>1, FiatFrame DEF SetVerifierEnabled
<1>2. ASSUME NEW i \in Intents, NEW copy \in Payloads, NEW posting \in Payments \cap Ids,
             NEW terms, Attest(i, copy, posting, terms)
      PROVE  FiatInv'
  BY <1>2, AcceptAttestationKeeps, FiatAssumption DEF Attest
<1>3. ASSUME NEW v \in Verifiers, NEW id \in Ids \cup {Generated}, NEW i \in Intents,
             NEW payment \in Payments, NEW hashed, NEW terms, NEW window,
             Verify(v, id, i, payment, hashed, terms, window)
      PROVE  FiatInv'
  BY <1>3, AcceptAttestationKeeps DEF Verify
<1> QED BY <1>1, <1>2, <1>3, CreateIntentKeeps, StatesAlone, SettleVerifiedIntentKeeps,
           ExpireIntentsKeeps DEF FiatNext

(* The inductive invariant of the fiat legs.                               *)
THEOREM FiatInvariant == FiatSpec => []FiatInv
<1>1. FiatInit => FiatInv
  BY FiatAssumption DEF FiatInit, FiatInv, FiatTypeOK, IntentStates, LegsAttested, Fulfilled,
     PaymentsApart, LegsSettled
<1>2. ASSUME FiatInv,
             [(FiatNext /\ UNCHANGED now) \/ (Tick /\ UNCHANGED fiatVars)]_<<fiatVars, now>>
      PROVE  FiatInv'
  <2>1. CASE UNCHANGED fiatVars
    <3>1. FiatTypeOK'
      BY <1>2, <2>1 DEF fiatVars, FiatInv, FiatTypeOK
    <3> QED BY <1>2, <2>1, <3>1, FiatFrame DEF fiatVars
  <2> QED BY <1>2, <2>1, FiatNextKeeps
<1> QED BY <1>1, <1>2, PTL DEF FiatSpec

(* A payment fulfils one leg and a leg is fulfilled by one payment and     *)
(* booked once, whatever evidence arrives again, under another identifier  *)
(* or for another leg (acceptAttestation, settleVerifiedIntent).           *)
THEOREM PaymentUsedOnce == FiatSpec => []OnePaymentEach
<1>1. FiatInv => OnePaymentEach
  <2> SUFFICES ASSUME FiatInv PROVE OnePaymentEach
    OBVIOUS
  <2>1. ASSUME NEW i \in Intents, intents[i].state = "SETTLED"
        PROVE  Cardinality({e \in events : e.intent = i}) = 1
    <3>1. PICK e \in events : {f \in events : f.intent = i} = {e}
      BY <2>1 DEF FiatInv, LegsSettled
    <3> QED BY <3>1, FS_Singleton
  <2> QED BY <2>1 DEF FiatInv, LegsAttested, PaymentsApart, OnePaymentEach
<1> QED BY <1>1, FiatInvariant, PTL

(* A leg that was handed to the rail is never taken back, and its end is   *)
(* final (settlement-store.js #transition, expireIntents).                 *)
THEOREM LegNeverTakenBack == FiatSpec => NeverTakenBack
<1>1. ASSUME FiatInv,
             [(FiatNext /\ UNCHANGED now) \/ (Tick /\ UNCHANGED fiatVars)]_<<fiatVars, now>>
      PROVE  [\A i \in Intents : NotTakenBack(i)]_fiatVars
  <2> SUFFICES ASSUME FiatNext, NEW i \in Intents
               PROVE  NotTakenBack(i)
    BY <1>1
  <2>1. intents' \in [Intents -> [state : IntentStates, payload : Payloads]]
    BY <1>1, FiatNextKeeps DEF FiatInv, FiatTypeOK
  <2>2. intents \in [Intents -> [state : IntentStates, payload : Payloads]]
    BY <1>1 DEF FiatInv, FiatTypeOK
  <2>3. CASE UNCHANGED intents
    BY <2>3 DEF NotTakenBack, InFlight, Over
  <2>4. ASSUME NEW j \in Intents, intents[j].state \notin Over,
               intents[j].state \in InFlight =>
                 intents'[j].state \in InFlight \cup {"SETTLED", "FAILED", "MANUAL_REVIEW"},
               \A k \in Intents \ {j} : intents'[k] = intents[k]
        PROVE  NotTakenBack(i)
    BY <2>4 DEF NotTakenBack
  <2>5. ASSUME NEW j \in Intents, NEW payload \in Payloads, CreateIntent(j, payload)
        PROVE  /\ intents[j].state = "none" /\ intents'[j].state = "CREATED"
               /\ \A k \in Intents \ {j} : intents'[k] = intents[k]
    BY <2>2, <2>5 DEF CreateIntent
  <2>6. ASSUME NEW j \in Intents, NEW from, NEW to, Transition(j, from, to)
        PROVE  /\ intents[j].state \in from /\ intents'[j].state = to
               /\ \A k \in Intents \ {j} : intents'[k] = intents[k]
    BY <2>2, <2>6 DEF Transition
  <2>7. ASSUME NEW v \in Verifiers, NEW id \in Ids \cup {Generated}, NEW j \in Intents,
               NEW payment, NEW hashed, NEW terms, NEW until,
               AcceptAttestation(v, id, j, payment, hashed, terms, until)
        PROVE  /\ intents[j].state \in {"SUBMITTED", "PAYMENT_OBSERVED"}
               /\ intents'[j].state = "VERIFIED"
               /\ \A k \in Intents \ {j} : intents'[k] = intents[k]
    BY <2>2, <2>7 DEF AcceptAttestation
  <2>8. ASSUME NEW j \in Intents, NEW id, SettleVerifiedIntent(j, id)
        PROVE  /\ intents[j].state = "VERIFIED" /\ intents'[j].state = "SETTLED"
               /\ \A k \in Intents \ {j} : intents'[k] = intents[k]
    BY <2>2, <2>8 DEF SettleVerifiedIntent, Settleable
  <2>9. CASE ExpireIntents
    BY <2>9 DEF NotTakenBack, ExpireIntents, Sweeps, InFlight, Over
  <2>10. CASE \E j \in Intents :
                \/ ReserveIntent(j) \/ SubmitIntent(j) \/ ObservePayment(j)
                \/ CancelIntent(j) \/ FailIntent(j) \/ ManualReview(j)
    <3>1. PICK j \in Intents :
                \/ ReserveIntent(j) \/ SubmitIntent(j) \/ ObservePayment(j)
                \/ CancelIntent(j) \/ FailIntent(j) \/ ManualReview(j)
      BY <2>10
    <3>2. /\ intents[j].state \notin Over
          /\ intents[j].state \in InFlight =>
               intents'[j].state \in InFlight \cup {"FAILED", "MANUAL_REVIEW"}
          /\ \A k \in Intents \ {j} : intents'[k] = intents[k]
      BY <2>6, <3>1 DEF ReserveIntent, SubmitIntent, ObservePayment, CancelIntent, FailIntent,
         ManualReview, InFlight, Over
    <3> QED BY <2>4, <3>2
  <2>11. CASE \E j \in Intents :
                \/ \E payload \in Payloads : CreateIntent(j, payload)
                \/ \E id \in Ids \cup {Generated} : SettleVerifiedIntent(j, id)
    BY <2>4, <2>5, <2>8, <2>11 DEF InFlight, Over
  <2>12. ASSUME NEW v \in Verifiers, NEW id \in Ids \cup {Generated}, NEW j \in Intents,
                NEW payment, NEW hashed, NEW terms, NEW until,
                AcceptAttestation(v, id, j, payment, hashed, terms, until)
        PROVE  NotTakenBack(i)
    BY <2>4, <2>7, <2>12 DEF InFlight, Over
  <2>13. CASE \E j \in Intents, copy \in Payloads, posting \in Payments \cap Ids,
                 terms \in {p.terms : p \in Payloads} : Attest(j, copy, posting, terms)
    BY <2>12, <2>13, FiatAssumption DEF Attest
  <2>14. CASE \E v \in Verifiers \ {Ledger}, id \in Ids \cup {Generated}, j \in Intents,
                 payment \in Payments, hashed \in [intent : Intents, payload : Payloads],
                 terms \in {p.terms : p \in Payloads}, window \in Windows :
                Verify(v, id, j, payment, hashed, terms, window)
    BY <2>12, <2>14 DEF Verify
  <2> QED BY <1>1, <2>3, <2>9, <2>10, <2>11, <2>13, <2>14 DEF FiatNext, SetVerifierEnabled
<1> QED BY <1>1, FiatInvariant, PTL DEF FiatSpec, NeverTakenBack
-----------------------------------------------------------------------------
(* The reserve of MonetaryReserve. What is said of the reserve and of the  *)
(* events is its own inductive invariant; the work is in the sums: which   *)
(* of them a call changes, and by how much.                                *)

DepositRecord == [state : DepositStates, currency : Currencies, amount : Nat,
                  reference : References \cup {NoReference}, settledAt : Nat]
ReceiptRecord == [state : ReceiptStates, currency : Currencies, amount : Nat, expiresAt : Nat]

LiveIn(ds, c) == {d \in Deposits : ds[d].state = "SETTLED" /\ ds[d].currency = c}
SettledOf(ds, c) == SumFunctionOnSet([d \in Deposits |-> ds[d].amount], LiveIn(ds, c))
ActiveIn(rs, c) == {r \in Receipts : rs[r].state = "ACTIVE" /\ rs[r].currency = c}
LockedOf(rs, c) == SumFunctionOnSet([r \in Receipts |-> rs[r].amount], ActiveIn(rs, c))
SupplyOf(s, c) == SumFunctionOnSet(s, {i \in Instruments : BackedBy[i] = c})

LEMMA TotalsOf ==
  ASSUME NEW c
  PROVE  /\ Settled(c) = SettledOf(deposits, c) /\ Settled(c)' = SettledOf(deposits', c)
         /\ LockedReceipts(c) = LockedOf(receipts, c)
         /\ LockedReceipts(c)' = LockedOf(receipts', c)
         /\ Supply(c) = SupplyOf(supply, c) /\ Supply(c)' = SupplyOf(supply', c)
BY DEF Settled, SettledOf, Live, LiveIn, LockedReceipts, LockedIn, LockedOf, Locked, ActiveIn,
   Supply, SupplyOf

LEMMA SettledIsNatural ==
  ASSUME NEW ds \in [Deposits -> DepositRecord], NEW c
  PROVE  SettledOf(ds, c) \in Nat
<1>1. IsFiniteSet(LiveIn(ds, c)) /\ LiveIn(ds, c) \in SUBSET Deposits
  BY MonetaryAssumption, FS_Subset DEF LiveIn
<1>2. PICK amount : amount = [d \in Deposits |-> ds[d].amount]
  OBVIOUS
<1>3. \A d \in LiveIn(ds, c) : amount[d] \in Nat
  BY <1>1, <1>2 DEF DepositRecord
<1> QED BY <1>1, <1>2, <1>3, SumIsNatural DEF SettledOf

LEMMA LockedIsNatural ==
  ASSUME NEW rs \in [Receipts -> ReceiptRecord], NEW c
  PROVE  LockedOf(rs, c) \in Nat
<1>1. IsFiniteSet(ActiveIn(rs, c)) /\ ActiveIn(rs, c) \in SUBSET Receipts
  BY MonetaryAssumption, FS_Subset DEF ActiveIn
<1>2. PICK amount : amount = [r \in Receipts |-> rs[r].amount]
  OBVIOUS
<1>3. \A r \in ActiveIn(rs, c) : amount[r] \in Nat
  BY <1>1, <1>2 DEF ReceiptRecord
<1> QED BY <1>1, <1>2, <1>3, SumIsNatural DEF LockedOf

LEMMA SupplyIsNatural ==
  ASSUME NEW s \in [Instruments -> Nat], NEW c
  PROVE  SupplyOf(s, c) \in Nat
<1>1. IsFiniteSet({i \in Instruments : BackedBy[i] = c})
  BY MonetaryAssumption, FS_Subset
<1> QED BY <1>1, SumIsNatural DEF SupplyOf

(* One deposit, receipt or supply changes.                                 *)
LEMMA OneDeposit ==
  ASSUME NEW ds \in [Deposits -> DepositRecord], NEW es \in [Deposits -> DepositRecord],
         NEW d \in Deposits, \A x \in Deposits \ {d} : es[x] = ds[x], NEW c
  PROVE  SettledOf(es, c) = SettledOf(ds, c)
           + (IF d \in LiveIn(es, c) THEN es[d].amount ELSE 0)
           - (IF d \in LiveIn(ds, c) THEN ds[d].amount ELSE 0)
<1>0. IsFiniteSet(Deposits)
  BY MonetaryAssumption
<1>1. PICK f : f = [x \in Deposits |-> ds[x].amount]
  OBVIOUS
<1>2. PICK g : g = [x \in Deposits |-> es[x].amount]
  OBVIOUS
<1>3. PICK P \in SUBSET Deposits : P = LiveIn(ds, c)
  BY DEF LiveIn
<1>4. PICK Q \in SUBSET Deposits : Q = LiveIn(es, c)
  BY DEF LiveIn
<1>5. \A x \in Deposits : f[x] \in Int /\ g[x] \in Int
  BY <1>1, <1>2 DEF DepositRecord
<1>6. \A x \in Deposits \ {d} : g[x] = f[x] /\ (x \in P <=> x \in Q)
  BY <1>1, <1>2, <1>3, <1>4 DEF LiveIn
<1>7. SumFunctionOnSet(g, Q) = SumFunctionOnSet(f, P)
        + (IF d \in Q THEN g[d] ELSE 0) - (IF d \in P THEN f[d] ELSE 0)
  BY <1>0, <1>5, <1>6, SumSelected
<1> QED BY <1>1, <1>2, <1>3, <1>4, <1>7 DEF SettledOf

LEMMA OneReceipt ==
  ASSUME NEW rs \in [Receipts -> ReceiptRecord], NEW qs \in [Receipts -> ReceiptRecord],
         NEW r \in Receipts, \A x \in Receipts \ {r} : qs[x] = rs[x], NEW c
  PROVE  LockedOf(qs, c) = LockedOf(rs, c)
           + (IF r \in ActiveIn(qs, c) THEN qs[r].amount ELSE 0)
           - (IF r \in ActiveIn(rs, c) THEN rs[r].amount ELSE 0)
<1>0. IsFiniteSet(Receipts)
  BY MonetaryAssumption
<1>1. PICK f : f = [x \in Receipts |-> rs[x].amount]
  OBVIOUS
<1>2. PICK g : g = [x \in Receipts |-> qs[x].amount]
  OBVIOUS
<1>3. PICK P \in SUBSET Receipts : P = ActiveIn(rs, c)
  BY DEF ActiveIn
<1>4. PICK Q \in SUBSET Receipts : Q = ActiveIn(qs, c)
  BY DEF ActiveIn
<1>5. \A x \in Receipts : f[x] \in Int /\ g[x] \in Int
  BY <1>1, <1>2 DEF ReceiptRecord
<1>6. \A x \in Receipts \ {r} : g[x] = f[x] /\ (x \in P <=> x \in Q)
  BY <1>1, <1>2, <1>3, <1>4 DEF ActiveIn
<1>7. SumFunctionOnSet(g, Q) = SumFunctionOnSet(f, P)
        + (IF r \in Q THEN g[r] ELSE 0) - (IF r \in P THEN f[r] ELSE 0)
  BY <1>0, <1>5, <1>6, SumSelected
<1> QED BY <1>1, <1>2, <1>3, <1>4, <1>7 DEF LockedOf

LEMMA OneSupply ==
  ASSUME NEW s \in [Instruments -> Nat], NEW t \in [Instruments -> Nat],
         NEW i \in Instruments, \A x \in Instruments \ {i} : t[x] = s[x], NEW c
  PROVE  SupplyOf(t, c) = SupplyOf(s, c) + (IF c = BackedBy[i] THEN t[i] - s[i] ELSE 0)
<1>1. PICK P \in SUBSET Instruments : P = {x \in Instruments : BackedBy[x] = c}
  OBVIOUS
<1>2. /\ IsFiniteSet(Instruments)
      /\ \A x \in Instruments : s[x] \in Int /\ t[x] \in Int
      /\ \A x \in Instruments \ {i} : t[x] = s[x] /\ (x \in P <=> x \in P)
  BY MonetaryAssumption
<1>3. SumFunctionOnSet(t, P) = SumFunctionOnSet(s, P)
        + (IF i \in P THEN t[i] ELSE 0) - (IF i \in P THEN s[i] ELSE 0)
  BY <1>2, SumSelected
<1>4. SupplyOf(s, c) \in Nat
  BY SupplyIsNatural
<1>5. SupplyOf(s, c) = SumFunctionOnSet(s, P) /\ SupplyOf(t, c) = SumFunctionOnSet(t, P)
  BY <1>1 DEF SupplyOf
<1> QED BY <1>1, <1>3, <1>4, <1>5

(* The receipts that have lapsed are put aside.                            *)
LEMMA LapsedPutAside ==
  ASSUME MonetaryTypeOK, NEW c \in Currencies
  PROVE  /\ LapsedReceipts(c) \in Nat
         /\ Expired(c) \in [Receipts -> ReceiptRecord]
         /\ \A e : LockedOf(Expired(c), e)
                     = LockedOf(receipts, e) - (IF e = c THEN LapsedReceipts(c) ELSE 0)
<1>1. PICK f : f = [x \in Receipts |-> receipts[x].amount]
  OBVIOUS
<1>2. PICK P \in SUBSET Receipts : P = ActiveIn(receipts, c)
  BY DEF ActiveIn
<1>3. PICK Q \in SUBSET P : Q = {r \in Receipts : Lapsed(r, c)}
  BY <1>2 DEF ActiveIn, Lapsed, Locked
<1>4. \A x \in Receipts : f[x] \in Nat /\ f[x] \in Int
  BY <1>1 DEF MonetaryTypeOK
<1>5. IsFiniteSet(P) /\ IsFiniteSet(Q) /\ IsFiniteSet(P \ Q)
  BY MonetaryAssumption, FS_Subset
<1>6. SumFunctionOnSet(f, P) = SumFunctionOnSet(f, Q) + SumFunctionOnSet(f, P \ Q)
  BY <1>4, <1>5, SumSplit
<1>7. LapsedReceipts(c) = SumFunctionOnSet(f, Q)
  BY <1>1, <1>3 DEF LapsedReceipts, LockedIn
<1>8. SumFunctionOnSet(f, Q) \in Nat /\ SumFunctionOnSet(f, P \ Q) \in Nat
  BY <1>4, <1>5, SumIsNatural
<1>9. Expired(c) \in [Receipts -> ReceiptRecord]
  BY DEF Expired, MonetaryTypeOK, ReceiptRecord, ReceiptStates
<1>10. \A r \in Receipts :
         /\ Expired(c)[r].amount = receipts[r].amount
         /\ Expired(c)[r].currency = receipts[r].currency
         /\ Expired(c)[r].state = IF r \in Q THEN "EXPIRED" ELSE receipts[r].state
  BY <1>3 DEF Expired, MonetaryTypeOK
<1>11. f = [x \in Receipts |-> Expired(c)[x].amount]
  BY <1>1, <1>10
<1>12. ActiveIn(Expired(c), c) = P \ Q
  BY <1>2, <1>10 DEF ActiveIn
<1>13. \A e : e # c => ActiveIn(Expired(c), e) = ActiveIn(receipts, e)
  BY <1>2, <1>10 DEF ActiveIn
<1>14. LockedOf(Expired(c), c) = LockedOf(receipts, c) - LapsedReceipts(c)
  BY <1>1, <1>2, <1>6, <1>7, <1>8, <1>11, <1>12 DEF LockedOf
<1>15. \A e : e # c => LockedOf(Expired(c), e) = LockedOf(receipts, e)
  BY <1>1, <1>11, <1>13 DEF LockedOf
<1>16. \A e : LockedOf(receipts, e) \in Nat
  BY LockedIsNatural DEF MonetaryTypeOK, ReceiptRecord
<1> QED BY <1>7, <1>8, <1>9, <1>14, <1>15, <1>16
LEMMA SpentAway ==
  ASSUME NEW w \in DepositRecord, NEW final \in {"REDEEMED", "DISBURSED"},
         NEW v, v = [w EXCEPT !.amount = 0, !.state = final]
  PROVE  v \in DepositRecord /\ v.amount = 0 /\ v.state = final /\ v.currency = w.currency
<1>1. w = [state |-> w.state, currency |-> w.currency, amount |-> w.amount,
           reference |-> w.reference, settledAt |-> w.settledAt]
  BY DEF DepositRecord
<1>2. PICK c \in Currencies, r \in References \cup {NoReference}, t \in Nat :
        c = w.currency /\ r = w.reference /\ t = w.settledAt
  BY DEF DepositRecord
<1>3. v = [state |-> final, currency |-> c, amount |-> 0, reference |-> r, settledAt |-> t]
  BY <1>1, <1>2
<1>4. final \in DepositStates
  BY DEF DepositStates
<1> QED BY <1>2, <1>3, <1>4 DEF DepositRecord

(* What the settled deposits give, the oldest first, is what was asked.    *)
LEMMA SpendTakes ==
  ASSUME MonetaryTypeOK, NEW c \in Currencies, NEW n \in Nat,
         NEW final \in {"REDEEMED", "DISBURSED"}, Spend(c, n, final)
  PROVE  /\ deposits' \in [Deposits -> DepositRecord]
         /\ n <= SettledOf(deposits, c)
         /\ \A e : SettledOf(deposits', e) = SettledOf(deposits, e) - (IF e = c THEN n ELSE 0)
<1>1. PICK amount : amount = [d \in Deposits |-> deposits[d].amount]
  OBVIOUS
<1>2. PICK taken : taken = [d \in Deposits |-> Taken(d, c, n)]
  OBVIOUS
<1>3. PICK rest : rest = [d \in Deposits |-> deposits'[d].amount]
  OBVIOUS
<1>4. PICK age \in [Deposits -> Nat] : \A d \in Deposits : age[d] = deposits[d].settledAt
  <2>1. [d \in Deposits |-> deposits[d].settledAt] \in [Deposits -> Nat]
    BY DEF MonetaryTypeOK
  <2> QED BY <2>1
<1>5. PICK L \in SUBSET Deposits : L = LiveIn(deposits, c)
  BY DEF LiveIn
<1>6. PICK R : R = {p \in Deposits \X Deposits :
                      \/ age[p[1]] < age[p[2]]
                      \/ age[p[1]] = age[p[2]] /\ p[1] < p[2]}
  OBVIOUS
<1>7. Deposits \subseteq Nat /\ IsFiniteSet(Deposits) /\ IsFiniteSet(L)
  BY <1>5, MonetaryAssumption, FS_Subset
<1>8. \A x, y \in Deposits : (<<x, y>> \in R) <=> Before(x, y)
  BY <1>4, <1>6 DEF Before
<1>9. InOrder(R, L)
  <2>1. \A x, y \in L : (<<x, y>> \in R) <=> ((age[x] < age[y]) \/ (age[x] = age[y] /\ x < y))
    BY <1>6
  <2>2. \A x \in L : x \in Int /\ age[x] \in Int
    BY <1>4, <1>7
  <2> QED BY <2>1, <2>2 DEF InOrder
<1>10. \A d \in Deposits : amount[d] = deposits[d].amount /\ amount[d] \in Nat
  BY <1>1 DEF MonetaryTypeOK
<1>11. \A d \in L :
         taken[d] = Gives(n - SumFunctionOnSet(amount, {x \in L : <<x, d>> \in R}), amount[d])
  <2> SUFFICES ASSUME NEW d \in L
               PROVE  taken[d] = Gives(n - SumFunctionOnSet(amount, {x \in L : <<x, d>> \in R}),
                                       amount[d])
    OBVIOUS
  <2>1. {x \in L : <<x, d>> \in R} = {x \in Deposits : Live(x, c) /\ Before(x, d)}
    BY <1>5, <1>8 DEF LiveIn, Live
  <2>2. Ahead(d, c) = SumFunctionOnSet(amount, {x \in L : <<x, d>> \in R})
    BY <1>1, <2>1 DEF Ahead
  <2>3. Live(d, c)
    BY <1>5 DEF LiveIn, Live
  <2> QED BY <1>2, <1>10, <2>2, <2>3 DEF Taken, Gives
<1>12. /\ \A d \in L : taken[d] \in Nat /\ taken[d] <= amount[d]
       /\ n <= SumFunctionOnSet(amount, L) => SumFunctionOnSet(taken, L) = n
  <2>1. \A d \in L : amount[d] \in Nat
    BY <1>10
  <2>2. IsFiniteSet(L)
    BY <1>7
  <2> QED BY <1>9, <1>11, <2>1, <2>2, TakenInOrder
<1>13. n <= SumFunctionOnSet(amount, L)
  BY <1>1, <1>5, TotalsOf DEF Spend, SettledOf
<1>14. \A d \in Deposits \ L : taken[d] = 0
  BY <1>2, <1>5 DEF Taken, LiveIn, Live
<1>15. \A d \in Deposits :
         /\ deposits'[d] \in DepositRecord
         /\ rest[d] = amount[d] - taken[d]
         /\ deposits'[d].currency = deposits[d].currency
         /\ \/ deposits'[d].state = deposits[d].state
            \/ deposits[d].state = "SETTLED" /\ deposits'[d].state # "SETTLED" /\ rest[d] = 0
  <2> SUFFICES ASSUME NEW d \in Deposits
               PROVE  /\ deposits'[d] \in DepositRecord
                      /\ rest[d] = amount[d] - taken[d]
                      /\ deposits'[d].currency = deposits[d].currency
                      /\ \/ deposits'[d].state = deposits[d].state
                         \/ /\ deposits[d].state = "SETTLED" /\ deposits'[d].state # "SETTLED"
                            /\ rest[d] = 0
    OBVIOUS
  <2>1. PICK t \in Nat : t = Taken(d, c, n) /\ t = taken[d] /\ t <= amount[d]
    BY <1>2, <1>10, <1>12, <1>14
  <2>2. deposits'[d] = IF ~Live(d, c) \/ t = 0 THEN deposits[d]
                       ELSE IF t = deposits[d].amount
                            THEN [deposits[d] EXCEPT !.amount = 0, !.state = final]
                            ELSE [deposits[d] EXCEPT !.amount = @ - t]
    BY <2>1 DEF Spend, Spent
  <2>3. deposits[d] \in DepositRecord
    BY DEF MonetaryTypeOK, DepositRecord
  <2>4. CASE ~Live(d, c) \/ t = 0
    BY <1>3, <1>10, <1>14, <1>5, <2>1, <2>2, <2>3, <2>4 DEF LiveIn, Live
  <2>5. CASE Live(d, c) /\ t # 0 /\ t = deposits[d].amount
    <3>1. deposits'[d] = [deposits[d] EXCEPT !.amount = 0, !.state = final]
      BY <2>2, <2>5
    <3>2. /\ deposits'[d] \in DepositRecord
          /\ deposits'[d].amount = 0 /\ deposits'[d].state = final
          /\ deposits'[d].currency = deposits[d].currency
      <4>1. PICK w \in DepositRecord : w = deposits[d]
        BY <2>3
      <4>2. PICK v : v = deposits'[d]
        OBVIOUS
      <4>3. v = [w EXCEPT !.amount = 0, !.state = final]
        BY <3>1, <4>1, <4>2
      <4>4. v \in DepositRecord /\ v.amount = 0 /\ v.state = final /\ v.currency = w.currency
        BY <4>3, SpentAway
      <4> QED BY <4>1, <4>2, <4>4
    <3> QED BY <1>3, <1>10, <2>1, <2>5, <3>2 DEF Live
  <2>6. CASE Live(d, c) /\ t # 0 /\ t # deposits[d].amount
    BY <1>3, <1>10, <2>1, <2>2, <2>3, <2>6 DEF Live, DepositRecord
  <2> QED BY <2>4, <2>5, <2>6
<1>16. deposits' \in [Deposits -> DepositRecord]
  BY <1>15 DEF Spend
<1>17. \A d \in Deposits : rest[d] \in Int /\ taken[d] \in Int
  BY <1>10, <1>12, <1>14, <1>15
<1>18. ASSUME NEW e
       PROVE  SettledOf(deposits', e) = SumFunctionOnSet(rest, LiveIn(deposits, e))
  <2>1. PICK S \in SUBSET Deposits : S = LiveIn(deposits, e)
    BY DEF LiveIn
  <2>2. PICK P \in SUBSET S : P = LiveIn(deposits', e)
    BY <1>15, <2>1 DEF LiveIn
  <2>3. IsFiniteSet(S)
    BY <1>7, FS_Subset
  <2>4. \A x \in S \ P : rest[x] = 0
    BY <1>15, <2>1, <2>2 DEF LiveIn
  <2>5. SumFunctionOnSet(rest, S) = SumFunctionOnSet(rest, P)
    BY <1>17, <2>3, <2>4, SumOfPart
  <2> QED BY <1>3, <2>1, <2>2, <2>5 DEF SettledOf
<1>19. SettledOf(deposits', c) = SettledOf(deposits, c) - n
  <2>0. \A x \in L : rest[x] \in Int /\ taken[x] \in Int /\ amount[x] = rest[x] + taken[x]
    BY <1>10, <1>15, <1>17
  <2>1. SumFunctionOnSet(amount, L) = SumFunctionOnSet(rest, L) + SumFunctionOnSet(taken, L)
    <3>1. IsFiniteSet(L)
      BY <1>7
    <3> QED BY <2>0, <3>1, SumPlus
  <2>2. SumFunctionOnSet(rest, L) \in Int
    BY <1>7, <1>17, SumIsInteger
  <2>3. SettledOf(deposits, c) = SumFunctionOnSet(amount, L)
    BY <1>1, <1>5 DEF SettledOf
  <2> QED BY <1>5, <1>12, <1>13, <1>18, <2>1, <2>2, <2>3
<1>20. ASSUME NEW e, e # c
       PROVE  SettledOf(deposits', e) = SettledOf(deposits, e)
  <2>1. PICK S \in SUBSET Deposits : S = LiveIn(deposits, e)
    BY DEF LiveIn
  <2>2. \A x \in S : rest[x] = amount[x]
    BY <1>5, <1>10, <1>14, <1>15, <1>20, <2>1 DEF LiveIn
  <2>3. IsFiniteSet(S)
    BY <1>7, FS_Subset
  <2>4. SumFunctionOnSet(rest, S) = SumFunctionOnSet(amount, S)
    BY <2>2, <2>3, SumSame
  <2> QED BY <1>1, <1>18, <2>1, <2>4 DEF SettledOf
<1>21. \A e : SettledOf(deposits, e) \in Nat
  BY SettledIsNatural DEF MonetaryTypeOK, DepositRecord
<1>22. n <= SettledOf(deposits, c)
  BY TotalsOf DEF Spend
<1> QED BY <1>16, <1>19, <1>20, <1>21, <1>22
Table == [Kinds -> [Currencies -> Nat]]

TermsAdded(b, k, c, n) == [b EXCEPT ![k][c] = @ + n]

LEMMA BookedOne ==
  ASSUME NEW b \in Table, NEW k \in Kinds, NEW c \in Currencies, NEW n \in Nat,
         NEW z, z = TermsAdded(b, k, c, n)
  PROVE  /\ z \in Table
         /\ \A l \in Kinds, e \in Currencies :
              z[l][e] = IF l = k /\ e = c THEN b[l][e] + n ELSE b[l][e]
<1>0. PICK old \in [Currencies -> Nat] : old = b[k]
  BY DEF Table
<1>1. PICK line \in [Currencies -> Nat] : line = [old EXCEPT ![c] = @ + n]
  <2>1. old[c] + n \in Nat
    OBVIOUS
  <2>2. [old EXCEPT ![c] = @ + n] \in [Currencies -> Nat]
    BY <2>1
  <2> QED BY <2>2
<1>2. z = [b EXCEPT ![k] = line]
  BY <1>0, <1>1 DEF TermsAdded
<1>3. \A e \in Currencies : line[e] = IF e = c THEN b[k][e] + n ELSE b[k][e]
  BY <1>0, <1>1
<1> QED BY <1>2, <1>3 DEF Table

LEMMA BookedTwo ==
  ASSUME MonetaryTypeOK, NEW kind \in Kinds, kind # "EXPIRED", NEW c \in Currencies,
         NEW n \in Nat, BookToo(kind, c, n)
  PROVE  /\ booked' \in Table
         /\ \A l \in Kinds, e \in Currencies :
              booked'[l][e] = IF l = kind /\ e = c THEN booked[l][e] + n
                              ELSE IF l = "EXPIRED" /\ e = c
                                   THEN booked[l][e] + LapsedReceipts(c) ELSE booked[l][e]
<1>1. PICK m \in Nat : m = LapsedReceipts(c)
  BY LapsedPutAside
<1>2. PICK b \in Table : b = booked
  BY DEF MonetaryTypeOK, Table
<1>3. PICK mid : mid = TermsAdded(b, "EXPIRED", c, m)
  OBVIOUS
<1>4. "EXPIRED" \in Kinds
  BY DEF Kinds
<1>5. mid \in Table /\ \A l \in Kinds, e \in Currencies :
        mid[l][e] = IF l = "EXPIRED" /\ e = c THEN b[l][e] + m ELSE b[l][e]
  BY <1>3, <1>4, BookedOne
<1>6. PICK z : z = booked'
  OBVIOUS
<1>7. z = TermsAdded(mid, kind, c, n)
  BY <1>1, <1>2, <1>3, <1>6 DEF BookToo, TermsAdded
<1>8. z \in Table /\ \A l \in Kinds, e \in Currencies :
        z[l][e] = IF l = kind /\ e = c THEN mid[l][e] + n ELSE mid[l][e]
  <2>1. mid \in Table
    BY <1>5
  <2> QED BY <2>1, <1>7, BookedOne
<1> QED BY <1>1, <1>2, <1>5, <1>6, <1>8

(* The totals of a currency against each other and against the events.     *)
Agree(s, p, l, b, c) ==
  /\ s >= p + l
  /\ s = b["SETTLED"][c] - b["REDEEMED"][c] - b["CONSUMED"][c]
  /\ p = b["MINTED"][c] - b["REDEEMED"][c]
  /\ l = b["CREATED"][c] - b["CONSUMED"][c] - b["EXPIRED"][c]
MonetaryInv == MonetaryTypeOK /\ now \in Nat /\ HoldersCanCollect

LEMMA HoldersAgree ==
  /\ HoldersCanCollect <=>
       \A c \in Currencies :
         Agree(SettledOf(deposits, c), SupplyOf(supply, c), LockedOf(receipts, c), booked, c)
  /\ HoldersCanCollect' <=>
       \A c \in Currencies :
         Agree(SettledOf(deposits', c), SupplyOf(supply', c), LockedOf(receipts', c), booked', c)
BY TotalsOf DEF HoldersCanCollect, Backed, EventsReconcile, Agree

LEMMA MonetaryTypes ==
  ASSUME MonetaryTypeOK
  PROVE  /\ deposits \in [Deposits -> DepositRecord] /\ receipts \in [Receipts -> ReceiptRecord]
         /\ supply \in [Instruments -> Nat] /\ booked \in Table
         /\ \A c \in Currencies, k \in Kinds : booked[k][c] \in Nat
         /\ \A c : /\ SettledOf(deposits, c) \in Nat /\ SupplyOf(supply, c) \in Nat
                   /\ LockedOf(receipts, c) \in Nat
<1>1. /\ deposits \in [Deposits -> DepositRecord] /\ receipts \in [Receipts -> ReceiptRecord]
      /\ supply \in [Instruments -> Nat] /\ booked \in Table
  BY DEF MonetaryTypeOK, DepositRecord, ReceiptRecord, Table
<1>2. \A c \in Currencies, k \in Kinds : booked[k][c] \in Nat
  BY <1>1 DEF Table
<1> QED BY <1>1, <1>2, SettledIsNatural, SupplyIsNatural, LockedIsNatural

LEMMA TypesAgain ==
  ASSUME enabled' \subseteq Instruments, supply' \in [Instruments -> Nat],
         deposits' \in [Deposits -> DepositRecord], receipts' \in [Receipts -> ReceiptRecord],
         capital' \in [Currencies -> Nat], booked' \in Table
  PROVE  MonetaryTypeOK'
BY DEF MonetaryTypeOK, DepositRecord, ReceiptRecord, Table

LEMMA ReserveFrame ==
  ASSUME MonetaryInv, now' \in Nat, UNCHANGED <<supply, deposits, receipts, booked>>,
         enabled' \subseteq Instruments, capital' \in [Currencies -> Nat]
  PROVE  MonetaryInv'
<1>1. MonetaryTypeOK'
  BY MonetaryTypes, TypesAgain DEF MonetaryInv
<1> QED BY <1>1, HoldersAgree DEF MonetaryInv

LEMMA CreateReserveDepositKeeps ==
  ASSUME MonetaryInv, UNCHANGED now, NEW d \in Deposits, NEW c \in Currencies, NEW n \in Sizes,
         NEW ref \in References, CreateReserveDeposit(d, c, n, ref)
  PROVE  MonetaryInv'
<1>1. PICK new \in DepositRecord :
        new = [state |-> "PENDING", currency |-> c, amount |-> n, reference |-> ref, settledAt |-> 0]
  <2>1. "PENDING" \in DepositStates /\ n \in Nat
    BY MonetaryAssumption DEF DepositStates
  <2> QED BY <2>1 DEF DepositRecord
<1>2. PICK ds \in [Deposits -> DepositRecord] : ds = deposits
  BY MonetaryTypes DEF MonetaryInv
<1>3. PICK es \in [Deposits -> DepositRecord] :
        es = deposits' /\ es[d] = new /\ \A x \in Deposits \ {d} : es[x] = ds[x]
  BY <1>1, <1>2 DEF CreateReserveDeposit
<1>4. MonetaryTypeOK'
  BY <1>3, MonetaryTypes, TypesAgain DEF MonetaryInv, MonetaryTypeOK, CreateReserveDeposit
<1>5. \A e : d \notin LiveIn(ds, e) /\ d \notin LiveIn(es, e)
  BY <1>1, <1>2, <1>3 DEF LiveIn, CreateReserveDeposit
<1>6. \A e : /\ SettledOf(es, e) = SettledOf(ds, e) + 0 - 0
             /\ SettledOf(ds, e) \in Nat
  BY <1>3, <1>5, OneDeposit, SettledIsNatural
<1>7. \A e : SettledOf(deposits', e) = SettledOf(deposits, e)
  BY <1>2, <1>3, <1>6
<1> QED BY <1>4, <1>7, HoldersAgree DEF MonetaryInv, CreateReserveDeposit

LEMMA SettleReserveDepositKeeps ==
  ASSUME MonetaryInv, UNCHANGED now, NEW d \in Deposits, SettleReserveDeposit(d)
  PROVE  MonetaryInv'
<1>1. PICK ds \in [Deposits -> DepositRecord] : ds = deposits
  BY MonetaryTypes DEF MonetaryInv
<1>2. PICK c \in Currencies, n \in Nat, ref \in References \cup {NoReference} :
        c = ds[d].currency /\ n = ds[d].amount /\ ref = ds[d].reference
  BY DEF DepositRecord
<1>3. PICK new \in DepositRecord :
        new = [state |-> "SETTLED", currency |-> c, amount |-> n, reference |-> ref,
               settledAt |-> now]
  BY DEF DepositRecord, DepositStates, MonetaryInv
<1>4. PICK es \in [Deposits -> DepositRecord] :
        es = deposits' /\ es[d] = new /\ \A x \in Deposits \ {d} : es[x] = ds[x]
  <2>1. PICK w \in DepositRecord : w = ds[d]
    OBVIOUS
  <2>2. w = [state |-> w.state, currency |-> c, amount |-> n, reference |-> ref,
             settledAt |-> w.settledAt]
    BY <1>2, <2>1 DEF DepositRecord
  <2>3. [w EXCEPT !.state = "SETTLED"] =
          [state |-> "SETTLED", currency |-> c, amount |-> n, reference |-> ref,
           settledAt |-> w.settledAt]
    BY <2>2
  <2>4. [[w EXCEPT !.state = "SETTLED"] EXCEPT !.settledAt = now] = new
    <3>1. PICK v : v = [state |-> "SETTLED", currency |-> c, amount |-> n, reference |-> ref,
                        settledAt |-> w.settledAt]
      OBVIOUS
    <3>2. [v EXCEPT !.settledAt = now] = new
      BY <1>3, <3>1
    <3> QED BY <2>3, <3>1, <3>2
  <2>5. deposits' = [ds EXCEPT ![d] = new]
    BY <1>1, <2>1, <2>4 DEF SettleReserveDeposit
  <2> QED BY <2>5
<1>5. /\ booked' \in Table
      /\ \A l \in Kinds, e \in Currencies :
           booked'[l][e] = IF l = "SETTLED" /\ e = c THEN booked[l][e] + n ELSE booked[l][e]
  <2>1. booked' = TermsAdded(booked, "SETTLED", c, n)
    BY <1>1, <1>2 DEF SettleReserveDeposit, Book, TermsAdded
  <2>2. booked \in Table /\ "SETTLED" \in Kinds
    BY MonetaryTypes DEF MonetaryInv, Kinds
  <2> QED BY <2>1, <2>2, BookedOne
<1>6. MonetaryTypeOK'
  BY <1>4, <1>5, MonetaryTypes, TypesAgain DEF MonetaryInv, MonetaryTypeOK, SettleReserveDeposit
<1>7. \A e : d \notin LiveIn(ds, e) /\ (d \in LiveIn(es, e) <=> e = c)
  <2>1. ds[d].state = "PENDING"
    BY <1>1 DEF SettleReserveDeposit, Settles
  <2>2. es[d].state = "SETTLED" /\ es[d].currency = c
    BY <1>3, <1>4
  <2> QED BY <2>1, <2>2 DEF LiveIn
<1>8. \A e : /\ SettledOf(es, e) = SettledOf(ds, e) + (IF d \in LiveIn(es, e) THEN es[d].amount ELSE 0) - 0
             /\ SettledOf(ds, e) \in Nat
  BY <1>4, <1>7, OneDeposit, SettledIsNatural
<1>9. \A e : SettledOf(deposits', e) = SettledOf(deposits, e) + (IF e = c THEN n ELSE 0)
  BY <1>1, <1>3, <1>4, <1>7, <1>8
<1>10. ASSUME NEW e \in Currencies
       PROVE  Agree(SettledOf(deposits', e), SupplyOf(supply', e), LockedOf(receipts', e),
                    booked', e)
  <2>1. Agree(SettledOf(deposits, e), SupplyOf(supply, e), LockedOf(receipts, e), booked, e)
    BY HoldersAgree DEF MonetaryInv
  <2>2. SupplyOf(supply', e) = SupplyOf(supply, e) /\ LockedOf(receipts', e) = LockedOf(receipts, e)
    BY DEF SettleReserveDeposit
  <2> QED BY <1>5, <1>9, <2>1, <2>2, MonetaryTypes DEF MonetaryInv, Agree, Kinds
<1> QED BY <1>6, <1>10, HoldersAgree DEF MonetaryInv
LEMMA SupplyAfter ==
  ASSUME MonetaryTypeOK, NEW i \in Instruments, NEW m \in Nat,
         supply' = [supply EXCEPT ![i] = m]
  PROVE  /\ supply' \in [Instruments -> Nat]
         /\ \A e : SupplyOf(supply', e)
                     = SupplyOf(supply, e) + (IF e = BackedBy[i] THEN m - supply[i] ELSE 0)
<1>1. PICK s \in [Instruments -> Nat] : s = supply
  BY MonetaryTypes
<1>2. PICK t \in [Instruments -> Nat] :
        t = supply' /\ t[i] = m /\ \A x \in Instruments \ {i} : t[x] = s[x]
  BY <1>1
<1>3. \A e : SupplyOf(t, e) = SupplyOf(s, e) + (IF e = BackedBy[i] THEN t[i] - s[i] ELSE 0)
  BY <1>2, OneSupply
<1> QED BY <1>1, <1>2, <1>3

LEMMA RoomLeft ==
  ASSUME NEW c, NEW n, Unallocated(c) >= n
  PROVE  SettledOf(deposits, c) - SupplyOf(supply, c)
           - (LockedOf(receipts, c) - LapsedReceipts(c)) >= n
BY TotalsOf DEF Unallocated

LEMMA MintKeeps ==
  ASSUME MonetaryInv, UNCHANGED now, NEW i \in Instruments, NEW n \in Sizes, Mint(i, n)
  PROVE  MonetaryInv'
<1>1. PICK c \in Currencies : c = BackedBy[i]
  BY MonetaryAssumption
<1>2. MonetaryTypeOK /\ n \in Nat
  BY MonetaryAssumption DEF MonetaryInv
<1>3. supply[i] \in Nat /\ supply' = [supply EXCEPT ![i] = supply[i] + n]
  BY <1>2, MonetaryTypes DEF Mint
<1>4. /\ supply' \in [Instruments -> Nat]
      /\ \A e : SupplyOf(supply', e) = SupplyOf(supply, e) + (IF e = c THEN n ELSE 0)
  <2>1. supply[i] + n \in Nat /\ (supply[i] + n) - supply[i] = n
    BY <1>2, <1>3
  <2> QED BY <1>1, <1>2, <1>3, <2>1, SupplyAfter
<1>5. PICK m \in Nat : m = LapsedReceipts(c)
  BY <1>2, LapsedPutAside
<1>6. /\ receipts' \in [Receipts -> ReceiptRecord]
      /\ \A e : LockedOf(receipts', e) = LockedOf(receipts, e) - (IF e = c THEN m ELSE 0)
  <2>1. receipts' = Expired(c)
    BY <1>1 DEF Mint
  <2> QED BY <1>2, <1>5, <2>1, LapsedPutAside
<1>7. /\ booked' \in Table
      /\ \A l \in Kinds, e \in Currencies :
           booked'[l][e] = IF l = "MINTED" /\ e = c THEN booked[l][e] + n
                           ELSE IF l = "EXPIRED" /\ e = c THEN booked[l][e] + m
                                ELSE booked[l][e]
  <2>1. BookToo("MINTED", c, n) /\ "MINTED" \in Kinds
    BY <1>1 DEF Mint, Kinds
  <2> QED BY <1>2, <1>5, <2>1, BookedTwo
<1>8. MonetaryTypeOK'
  BY <1>2, <1>4, <1>6, <1>7, MonetaryTypes, TypesAgain DEF MonetaryTypeOK, Mint
<1>9. SettledOf(deposits, c) - SupplyOf(supply, c) - (LockedOf(receipts, c) - m) >= n
  BY <1>1, <1>5, RoomLeft DEF Mint
<1>10. ASSUME NEW e \in Currencies
       PROVE  Agree(SettledOf(deposits', e), SupplyOf(supply', e), LockedOf(receipts', e),
                    booked', e)
  <2>1. Agree(SettledOf(deposits, e), SupplyOf(supply, e), LockedOf(receipts, e), booked, e)
    BY HoldersAgree DEF MonetaryInv
  <2>2. SettledOf(deposits', e) = SettledOf(deposits, e)
    BY DEF Mint
  <2>3. PICK s \in Nat, p \in Nat, q \in Nat :
          s = SettledOf(deposits, e) /\ p = SupplyOf(supply, e) /\ q = LockedOf(receipts, e)
    BY <1>2, MonetaryTypes
  <2> QED BY <1>2, <1>4, <1>6, <1>7, <1>9, <2>1, <2>2, <2>3, MonetaryTypes DEF Agree, Kinds
<1> QED BY <1>8, <1>10, HoldersAgree DEF MonetaryInv

LEMMA RedeemKeeps ==
  ASSUME MonetaryInv, UNCHANGED now, NEW i \in Instruments, NEW n \in Sizes, Redeem(i, n)
  PROVE  MonetaryInv'
<1>1. PICK c \in Currencies : c = BackedBy[i]
  BY MonetaryAssumption
<1>2. MonetaryTypeOK /\ n \in Nat
  BY MonetaryAssumption DEF MonetaryInv
<1>3. supply[i] \in Nat /\ supply[i] >= n /\ supply' = [supply EXCEPT ![i] = supply[i] - n]
  BY <1>2, MonetaryTypes DEF Redeem
<1>4. /\ supply' \in [Instruments -> Nat]
      /\ \A e : SupplyOf(supply', e) = SupplyOf(supply, e) + (IF e = c THEN 0 - n ELSE 0)
  <2>1. supply[i] - n \in Nat /\ (supply[i] - n) - supply[i] = 0 - n
    BY <1>2, <1>3
  <2> QED BY <1>1, <1>2, <1>3, <2>1, SupplyAfter
<1>5. /\ deposits' \in [Deposits -> DepositRecord]
      /\ \A e : SettledOf(deposits', e) = SettledOf(deposits, e) - (IF e = c THEN n ELSE 0)
  <2>1. Spend(c, n, "REDEEMED")
    BY <1>1 DEF Redeem
  <2> QED BY <1>2, <2>1, SpendTakes
<1>6. /\ booked' \in Table
      /\ \A l \in Kinds, e \in Currencies :
           booked'[l][e] = IF l = "REDEEMED" /\ e = c THEN booked[l][e] + n ELSE booked[l][e]
  <2>1. booked' = TermsAdded(booked, "REDEEMED", c, n)
    BY <1>1 DEF Redeem, Book, TermsAdded
  <2>2. booked \in Table /\ "REDEEMED" \in Kinds
    BY <1>2, MonetaryTypes DEF Kinds
  <2> QED BY <1>2, <2>1, <2>2, BookedOne
<1>7. MonetaryTypeOK'
  BY <1>2, <1>4, <1>5, <1>6, MonetaryTypes, TypesAgain DEF MonetaryTypeOK, Redeem
<1>8. ASSUME NEW e \in Currencies
      PROVE  Agree(SettledOf(deposits', e), SupplyOf(supply', e), LockedOf(receipts', e),
                   booked', e)
  <2>1. Agree(SettledOf(deposits, e), SupplyOf(supply, e), LockedOf(receipts, e), booked, e)
    BY HoldersAgree DEF MonetaryInv
  <2>2. LockedOf(receipts', e) = LockedOf(receipts, e)
    BY DEF Redeem
  <2>3. PICK s \in Nat, p \in Nat, q \in Nat :
          s = SettledOf(deposits, e) /\ p = SupplyOf(supply, e) /\ q = LockedOf(receipts, e)
    BY <1>2, MonetaryTypes
  <2> QED BY <1>2, <1>4, <1>5, <1>6, <2>1, <2>2, <2>3, MonetaryTypes DEF Agree, Kinds
<1> QED BY <1>7, <1>8, HoldersAgree DEF MonetaryInv

LEMMA CreateReceiptKeeps ==
  ASSUME MonetaryInv, UNCHANGED now, NEW r \in Receipts, NEW c \in Currencies, NEW n \in Sizes,
         NEW term \in Terms, CreateReceipt(r, c, n, term)
  PROVE  MonetaryInv'
<1>1. MonetaryTypeOK /\ n \in Nat /\ term \in Nat /\ now \in Nat
  BY MonetaryAssumption DEF MonetaryInv
<1>2. PICK m \in Nat : m = LapsedReceipts(c)
  BY <1>1, LapsedPutAside
<1>3. PICK mid \in [Receipts -> ReceiptRecord] : mid = Expired(c)
  BY <1>1, LapsedPutAside
<1>4. \A e : LockedOf(mid, e) = LockedOf(receipts, e) - (IF e = c THEN m ELSE 0)
  BY <1>1, <1>2, <1>3, LapsedPutAside
<1>5. PICK new \in ReceiptRecord :
        new = [state |-> "ACTIVE", currency |-> c, amount |-> n, expiresAt |-> now + term]
  <2>1. "ACTIVE" \in ReceiptStates /\ now + term \in Nat
    BY <1>1 DEF ReceiptStates
  <2> QED BY <1>1, <2>1 DEF ReceiptRecord
<1>6. PICK qs \in [Receipts -> ReceiptRecord] :
        qs = receipts' /\ qs[r] = new /\ \A x \in Receipts \ {r} : qs[x] = mid[x]
  BY <1>3, <1>5 DEF CreateReceipt
<1>7. \A e : r \notin ActiveIn(mid, e) /\ (r \in ActiveIn(qs, e) <=> e = c)
  <2>1. mid[r].state = "none"
    BY <1>3 DEF CreateReceipt, Expired, Lapsed, Locked
  <2>2. qs[r].state = "ACTIVE" /\ qs[r].currency = c
    BY <1>5, <1>6
  <2> QED BY <2>1, <2>2 DEF ActiveIn
<1>8. \A e : /\ LockedOf(qs, e)
                  = LockedOf(mid, e) + (IF r \in ActiveIn(qs, e) THEN qs[r].amount ELSE 0) - 0
             /\ LockedOf(mid, e) \in Nat
  BY <1>6, <1>7, OneReceipt, LockedIsNatural
<1>9. \A e : LockedOf(receipts', e) = LockedOf(mid, e) + (IF e = c THEN n ELSE 0)
  <2>1. qs[r].amount = n
    BY <1>5, <1>6
  <2>2. \A e : LockedOf(qs, e) = LockedOf(mid, e) + (IF e = c THEN n ELSE 0)
    BY <1>1, <1>7, <1>8, <2>1
  <2> QED BY <1>6, <2>2
<1>10. /\ booked' \in Table
       /\ \A l \in Kinds, e \in Currencies :
            booked'[l][e] = IF l = "CREATED" /\ e = c THEN booked[l][e] + n
                            ELSE IF l = "EXPIRED" /\ e = c THEN booked[l][e] + m
                                 ELSE booked[l][e]
  <2>1. BookToo("CREATED", c, n) /\ "CREATED" \in Kinds
    BY DEF CreateReceipt, Kinds
  <2> QED BY <1>1, <1>2, <2>1, BookedTwo
<1>11. MonetaryTypeOK'
  BY <1>1, <1>6, <1>10, MonetaryTypes, TypesAgain DEF MonetaryTypeOK, CreateReceipt
<1>12. SettledOf(deposits, c) - SupplyOf(supply, c) - (LockedOf(receipts, c) - m) >= n
  BY <1>2, RoomLeft DEF CreateReceipt
<1>13. ASSUME NEW e \in Currencies
       PROVE  Agree(SettledOf(deposits', e), SupplyOf(supply', e), LockedOf(receipts', e),
                    booked', e)
  <2>1. Agree(SettledOf(deposits, e), SupplyOf(supply, e), LockedOf(receipts, e), booked, e)
    BY HoldersAgree DEF MonetaryInv
  <2>2. /\ SettledOf(deposits', e) = SettledOf(deposits, e)
        /\ SupplyOf(supply', e) = SupplyOf(supply, e)
    BY DEF CreateReceipt
  <2>3. PICK s \in Nat, p \in Nat, q \in Nat :
          s = SettledOf(deposits, e) /\ p = SupplyOf(supply, e) /\ q = LockedOf(receipts, e)
    BY <1>1, MonetaryTypes
  <2> QED BY <1>1, <1>4, <1>9, <1>10, <1>12, <2>1, <2>2, <2>3, MonetaryTypes DEF Agree, Kinds
<1> QED BY <1>11, <1>13, HoldersAgree DEF MonetaryInv

LEMMA ConsumeReceiptKeeps ==
  ASSUME MonetaryInv, UNCHANGED now, NEW r \in Receipts, ConsumeReceipt(r)
  PROVE  MonetaryInv'
<1>1. MonetaryTypeOK
  BY DEF MonetaryInv
<1>2. PICK rs \in [Receipts -> ReceiptRecord] : rs = receipts
  BY <1>1, MonetaryTypes
<1>3. PICK c \in Currencies, n \in Nat, until \in Nat :
        c = rs[r].currency /\ n = rs[r].amount /\ until = rs[r].expiresAt
  BY DEF ReceiptRecord
<1>4. rs[r].state = "ACTIVE"
  BY <1>2 DEF ConsumeReceipt, Consumable
<1>5. PICK new \in ReceiptRecord :
        new = [state |-> "CONSUMED", currency |-> c, amount |-> n, expiresAt |-> until]
  BY DEF ReceiptRecord, ReceiptStates
<1>6. PICK qs \in [Receipts -> ReceiptRecord] :
        qs = receipts' /\ qs[r] = new /\ \A x \in Receipts \ {r} : qs[x] = rs[x]
  <2>1. PICK w \in ReceiptRecord : w = rs[r]
    OBVIOUS
  <2>2. w = [state |-> w.state, currency |-> c, amount |-> n, expiresAt |-> until]
    BY <1>3, <2>1 DEF ReceiptRecord
  <2>3. [w EXCEPT !.state = "CONSUMED"] = new
    BY <1>5, <2>2
  <2>4. receipts' = [rs EXCEPT ![r] = new]
    BY <1>2, <2>1, <2>3 DEF ConsumeReceipt
  <2> QED BY <2>4
<1>7. \A e : r \notin ActiveIn(qs, e) /\ (r \in ActiveIn(rs, e) <=> e = c)
  <2>1. qs[r].state = "CONSUMED"
    BY <1>5, <1>6
  <2> QED BY <1>3, <1>4, <2>1 DEF ActiveIn
<1>8. \A e : /\ LockedOf(qs, e)
                  = LockedOf(rs, e) + 0 - (IF r \in ActiveIn(rs, e) THEN rs[r].amount ELSE 0)
             /\ LockedOf(rs, e) \in Nat
  BY <1>6, <1>7, OneReceipt, LockedIsNatural
<1>9. \A e : LockedOf(receipts', e) = LockedOf(receipts, e) - (IF e = c THEN n ELSE 0)
  BY <1>2, <1>3, <1>6, <1>7, <1>8
<1>10. /\ deposits' \in [Deposits -> DepositRecord]
       /\ \A e : SettledOf(deposits', e) = SettledOf(deposits, e) - (IF e = c THEN n ELSE 0)
  <2>1. Spend(c, n, "DISBURSED")
    BY <1>2, <1>3 DEF ConsumeReceipt
  <2> QED BY <1>1, <2>1, SpendTakes
<1>11. /\ booked' \in Table
       /\ \A l \in Kinds, e \in Currencies :
            booked'[l][e] = IF l = "CONSUMED" /\ e = c THEN booked[l][e] + n ELSE booked[l][e]
  <2>1. booked' = TermsAdded(booked, "CONSUMED", c, n)
    BY <1>2, <1>3 DEF ConsumeReceipt, Book, TermsAdded
  <2>2. booked \in Table /\ "CONSUMED" \in Kinds
    BY <1>1, MonetaryTypes DEF Kinds
  <2> QED BY <2>1, <2>2, BookedOne
<1>12. MonetaryTypeOK'
  BY <1>1, <1>6, <1>10, <1>11, MonetaryTypes, TypesAgain DEF MonetaryTypeOK, ConsumeReceipt
<1>13. ASSUME NEW e \in Currencies
       PROVE  Agree(SettledOf(deposits', e), SupplyOf(supply', e), LockedOf(receipts', e),
                    booked', e)
  <2>1. Agree(SettledOf(deposits, e), SupplyOf(supply, e), LockedOf(receipts, e), booked, e)
    BY HoldersAgree DEF MonetaryInv
  <2>2. SupplyOf(supply', e) = SupplyOf(supply, e)
    BY DEF ConsumeReceipt
  <2>3. PICK s \in Nat, p \in Nat, q \in Nat :
          s = SettledOf(deposits, e) /\ p = SupplyOf(supply, e) /\ q = LockedOf(receipts, e)
    BY <1>1, MonetaryTypes
  <2> QED BY <1>9, <1>10, <1>11, <2>1, <2>2, <2>3, <1>1, MonetaryTypes DEF Agree, Kinds
<1> QED BY <1>12, <1>13, HoldersAgree DEF MonetaryInv

LEMMA LookKeeps ==
  ASSUME MonetaryInv, UNCHANGED now, NEW c \in Currencies, Look(c)
  PROVE  MonetaryInv'
<1>1. MonetaryTypeOK
  BY DEF MonetaryInv
<1>2. PICK m \in Nat : m = LapsedReceipts(c)
  BY <1>1, LapsedPutAside
<1>3. /\ receipts' \in [Receipts -> ReceiptRecord]
      /\ \A e : LockedOf(receipts', e) = LockedOf(receipts, e) - (IF e = c THEN m ELSE 0)
  <2>1. receipts' = Expired(c)
    BY DEF Look
  <2> QED BY <1>1, <1>2, <2>1, LapsedPutAside
<1>4. /\ booked' \in Table
      /\ \A l \in Kinds, e \in Currencies :
           booked'[l][e] = IF l = "EXPIRED" /\ e = c THEN booked[l][e] + m ELSE booked[l][e]
  <2>1. booked' = TermsAdded(booked, "EXPIRED", c, m)
    BY <1>2 DEF Look, Book, TermsAdded
  <2>2. booked \in Table /\ "EXPIRED" \in Kinds
    BY <1>1, MonetaryTypes DEF Kinds
  <2> QED BY <2>1, <2>2, BookedOne
<1>5. MonetaryTypeOK'
  BY <1>1, <1>3, <1>4, MonetaryTypes, TypesAgain DEF MonetaryTypeOK, Look
<1>6. ASSUME NEW e \in Currencies
      PROVE  Agree(SettledOf(deposits', e), SupplyOf(supply', e), LockedOf(receipts', e),
                   booked', e)
  <2>1. Agree(SettledOf(deposits, e), SupplyOf(supply, e), LockedOf(receipts, e), booked, e)
    BY HoldersAgree DEF MonetaryInv
  <2>2. /\ SettledOf(deposits', e) = SettledOf(deposits, e)
        /\ SupplyOf(supply', e) = SupplyOf(supply, e)
    BY DEF Look
  <2>3. PICK s \in Nat, p \in Nat, q \in Nat :
          s = SettledOf(deposits, e) /\ p = SupplyOf(supply, e) /\ q = LockedOf(receipts, e)
    BY <1>1, MonetaryTypes
  <2> QED BY <1>3, <1>4, <2>1, <2>2, <2>3, <1>1, MonetaryTypes DEF Agree, Kinds
<1> QED BY <1>5, <1>6, HoldersAgree DEF MonetaryInv

LEMMA MonetaryStart ==
  ASSUME MonetaryInit, now = 0
  PROVE  MonetaryInv
<1>1. AnyCurrency \in Currencies
  BY MonetaryAssumption DEF AnyCurrency
<1>2. MonetaryTypeOK
  <2>1. /\ "none" \in DepositStates /\ "none" \in ReceiptStates
        /\ NoReference \in References \cup {NoReference}
    BY DEF DepositStates, ReceiptStates
  <2>2. [state |-> "none", currency |-> AnyCurrency, amount |-> 0, reference |-> NoReference,
         settledAt |-> 0] \in DepositRecord
    BY <1>1, <2>1 DEF DepositRecord
  <2>3. [state |-> "none", currency |-> AnyCurrency, amount |-> 0, expiresAt |-> 0]
          \in ReceiptRecord
    BY <1>1, <2>1 DEF ReceiptRecord
  <2> QED BY <2>2, <2>3 DEF MonetaryInit, MonetaryTypeOK, DepositRecord, ReceiptRecord
<1>3. ASSUME NEW c \in Currencies
      PROVE  Agree(SettledOf(deposits, c), SupplyOf(supply, c), LockedOf(receipts, c), booked, c)
  <2>1. LiveIn(deposits, c) = {} /\ ActiveIn(receipts, c) = {}
    BY DEF LiveIn, ActiveIn, MonetaryInit
  <2>2. SettledOf(deposits, c) = 0 /\ LockedOf(receipts, c) = 0
    BY <2>1, SumEmpty DEF SettledOf, LockedOf
  <2>3. SupplyOf(supply, c) = 0
    <3>1. PICK P \in SUBSET Instruments : P = {i \in Instruments : BackedBy[i] = c}
      OBVIOUS
    <3>2. IsFiniteSet(P) /\ \A x \in P : supply[x] = 0
      BY MonetaryAssumption, FS_Subset DEF MonetaryInit
    <3>3. SumFunctionOnSet(supply, P) = 0
      BY <3>2, SumZero
    <3> QED BY <3>1, <3>3 DEF SupplyOf
  <2>4. \A k \in Kinds : booked[k][c] = 0
    BY DEF MonetaryInit
  <2> QED BY <2>2, <2>3, <2>4 DEF Agree, Kinds
<1> QED BY <1>2, <1>3, HoldersAgree DEF MonetaryInv

LEMMA MonetaryNextKeeps ==
  ASSUME MonetaryInv, MonetaryNext, UNCHANGED now
  PROVE  MonetaryInv'
<1>1. ASSUME NEW i \in Instruments, ConfigureInstrument(i) \/ DisableInstrument(i)
      PROVE  MonetaryInv'
  BY <1>1, ReserveFrame DEF ConfigureInstrument, DisableInstrument, MonetaryInv, MonetaryTypeOK
<1>2. ASSUME NEW c \in Currencies, NEW n \in Capital, SetRiskCapital(c, n)
      PROVE  MonetaryInv'
  BY <1>2, ReserveFrame, MonetaryAssumption DEF SetRiskCapital, MonetaryInv, MonetaryTypeOK
<1> QED BY <1>1, <1>2, LookKeeps, CreateReserveDepositKeeps, SettleReserveDepositKeeps, MintKeeps,
           RedeemKeeps, CreateReceiptKeeps, ConsumeReceiptKeeps DEF MonetaryNext

(* Settled reserve covers what is outstanding and what is locked, and the  *)
(* events reconcile with the balances, whatever instruments, deposits and  *)
(* receipts there are: redemptions and receipts spend from the same        *)
(* deposits, the oldest first, and never what the other counts on          *)
(* (fx-monetary mint, redeem, createReceipt, consumeReceipt).              *)
THEOREM ReserveCovers == MonetarySpec => []HoldersCanCollect
<1>1. MonetaryInit /\ now = 0 => MonetaryInv
  BY MonetaryStart
<1>2. ASSUME MonetaryInv,
             [(MonetaryNext /\ UNCHANGED now) \/ (Tick /\ UNCHANGED monetaryVars)]_<<monetaryVars, now>>
      PROVE  MonetaryInv'
  <2>1. CASE MonetaryNext /\ UNCHANGED now
    BY <1>2, <2>1, MonetaryNextKeeps
  <2>2. CASE Tick /\ UNCHANGED monetaryVars
    BY <1>2, <2>2, ReserveFrame DEF Tick, monetaryVars, MonetaryInv, MonetaryTypeOK
  <2>3. CASE UNCHANGED <<monetaryVars, now>>
    BY <1>2, <2>3, ReserveFrame DEF monetaryVars, MonetaryInv, MonetaryTypeOK
  <2> QED BY <1>2, <2>1, <2>2, <2>3
<1>3. MonetaryInv => HoldersCanCollect
  BY DEF MonetaryInv
<1> QED BY <1>1, <1>2, <1>3, PTL DEF MonetarySpec

-----------------------------------------------------------------------------
(* Authorizations (FxPolicy). verifyAuthorization looks at the epoch, the  *)
(* version of the policy and the expiry alone. What makes that enough: as  *)
(* long as a participant's epoch is the one in the row, everything that    *)
(* authorize looked at under that policy is as it was, and the credentials *)
(* it relied on outlive the row.                                           *)

Standing(rules, r, until) ==
  /\ participants[r.participant].epoch > 0
  /\ participants[r.participant].facts.type \in rules.types
  /\ participants[r.participant].facts.jurisdiction \notin rules.blocked
  /\ r.corridor \in rules.corridors
  /\ r.amount <= rules.ticket[participants[r.participant].facts.type]
  /\ \A t \in rules.required[participants[r.participant].facts.type] :
       /\ credentials[r.participant][t].status = "PASSED"
       /\ credentials[r.participant][t].expiresAt >= until
  /\ r.account # None => accounts[r.account] = r.participant

Deserved(grant) ==
  /\ grant.epoch <= participants[grant.request.participant].epoch
  /\ grant.epoch = participants[grant.request.participant].epoch =>
       \A rules \in Policies : rules.id = grant.policyId /\ rules.version = grant.version =>
         Standing(rules, grant.request, grant.expiresAt)

AllDeserved == \A i \in DOMAIN authorizations : Deserved(authorizations[i])

(* What a step does to the facts of a participant, and to the rows.        *)
FactsKept(p) ==
  /\ participants'[p].epoch >= participants[p].epoch
  /\ participants'[p].epoch = participants[p].epoch =>
       /\ participants'[p].facts = participants[p].facts
       /\ credentials'[p] = credentials[p]
       /\ \A x \in Accounts : accounts[x] = p => accounts'[x] = p

SameRow(grant, next) ==
  /\ next.request = grant.request /\ next.epoch = grant.epoch
  /\ next.policyId = grant.policyId /\ next.version = grant.version
  /\ next.expiresAt = grant.expiresAt
  /\ grant.revoked => next.revoked

RowsKept ==
  \A i \in DOMAIN authorizations :
    i \in DOMAIN authorizations' /\ SameRow(authorizations[i], authorizations'[i])

NewDeserved ==
  \A i \in DOMAIN authorizations' : i \notin DOMAIN authorizations =>
    Deserved(authorizations[i])'

Lawful == PolicyTypeOK' /\ RowsKept /\ NewDeserved /\ \A p \in Participants : FactsKept(p)

LEMMA RowParts ==
  ASSUME NEW grant \in Authorization
  PROVE  /\ grant.request \in Request /\ grant.request.participant \in Participants
         /\ grant.request.account \in Accounts \cup {None}
         /\ grant.request.amount \in Nat
         /\ grant.epoch \in Nat /\ grant.expiresAt \in Nat /\ grant.revoked \in BOOLEAN
BY PolicyAssumption DEF Authorization, Request

LEMMA KeptIsDeserved ==
  ASSUME PolicyTypeOK, PolicyTypeOK', NEW grant \in Authorization, NEW next \in Authorization,
         FactsKept(grant.request.participant), SameRow(grant, next), Deserved(grant)
  PROVE  Deserved(next)'
<1> DEFINE p == grant.request.participant
<1>1. p \in Participants /\ grant.epoch \in Nat /\ grant.request.account \in Accounts \cup {None}
  BY RowParts
<1>2. participants[p].epoch \in Nat /\ participants'[p].epoch \in Nat
  BY <1>1 DEF PolicyTypeOK
<1>3. /\ next.request = grant.request /\ next.epoch = grant.epoch
      /\ next.policyId = grant.policyId /\ next.version = grant.version
      /\ next.expiresAt = grant.expiresAt
  BY DEF SameRow
<1>4. next.epoch <= participants'[p].epoch
  BY <1>1, <1>2, <1>3 DEF FactsKept, Deserved
<1>5. ASSUME next.epoch = participants'[p].epoch,
             NEW rules \in Policies, rules.id = next.policyId, rules.version = next.version
      PROVE  Standing(rules, next.request, next.expiresAt)'
  <2>1. grant.epoch = participants[p].epoch /\ participants'[p].epoch = participants[p].epoch
    BY <1>1, <1>2, <1>3, <1>5 DEF FactsKept, Deserved
  <2>2. Standing(rules, grant.request, grant.expiresAt)
    BY <2>1, <1>3, <1>5 DEF Deserved
  <2>3. /\ participants'[p].facts = participants[p].facts
        /\ credentials'[p] = credentials[p]
        /\ \A x \in Accounts : accounts[x] = p => accounts'[x] = p
    BY <2>1 DEF FactsKept
  <2> HIDE DEF p
  <2>4. grant.request.participant = p /\ None \notin Participants
    BY PolicyAssumption DEF p
  <2> QED BY <1>1, <1>3, <2>1, <2>2, <2>3, <2>4 DEF Standing
<1> QED BY <1>3, <1>4, <1>5 DEF Deserved

LEMMA LawfulKeeps ==
  ASSUME PolicyTypeOK, AllDeserved, Lawful
  PROVE  AllDeserved'
<1> SUFFICES ASSUME NEW i \in DOMAIN authorizations'
             PROVE  Deserved(authorizations[i])'
  BY DEF AllDeserved
<1>1. CASE i \notin DOMAIN authorizations
  BY <1>1 DEF Lawful, NewDeserved
<1>2. CASE i \in DOMAIN authorizations
  <2>1. PICK grant \in Authorization : grant = authorizations[i]
    BY <1>2 DEF PolicyTypeOK
  <2>2. PICK next \in Authorization : next = authorizations'[i]
    BY DEF Lawful, PolicyTypeOK
  <2>3. SameRow(grant, next) /\ Deserved(grant)
    BY <1>2, <2>1, <2>2 DEF Lawful, RowsKept, AllDeserved
  <2>4. FactsKept(grant.request.participant)
    BY RowParts DEF Lawful
  <2>5. Deserved(next)'
    BY <2>3, <2>4, KeptIsDeserved DEF Lawful
  <2> QED BY <2>2, <2>5
<1> QED BY <1>1, <1>2
(* A step that leaves the rows alone.                                      *)
LEMMA QuietRows ==
  ASSUME PolicyTypeOK, UNCHANGED authorizations
  PROVE  RowsKept /\ NewDeserved
<1>1. \A i \in DOMAIN authorizations : SameRow(authorizations[i], authorizations[i])
  BY DEF SameRow
<1> QED BY <1>1 DEF RowsKept, NewDeserved

LEMMA QuietFacts ==
  ASSUME PolicyTypeOK, UNCHANGED <<participants, credentials, accounts>>
  PROVE  \A p \in Participants : FactsKept(p)
<1> SUFFICES ASSUME NEW p \in Participants PROVE FactsKept(p)
  OBVIOUS
<1>1. participants[p].epoch \in Nat
  BY DEF PolicyTypeOK
<1> QED BY <1>1 DEF FactsKept

LEMMA PolicyTypeParts ==
  /\ \A x \in Policies : x.id \in {y.id : y \in Policies} /\ x.version \in {y.version : y \in Policies}
  /\ \A x \in Policies, f \in Facts : x.required[f.type] \in SUBSET CredentialTypes
  /\ \A x \in Policies : x.ttl \in Nat
BY PolicyAssumption

LEMMA ConfigureLawful ==
  ASSUME PolicyTypeOK, NEW new \in Policies, ConfigurePolicy(new)
  PROVE  Lawful
<1>1. PolicyTypeOK'
  BY DEF PolicyTypeOK, ConfigurePolicy
<1> QED BY <1>1, QuietRows, QuietFacts DEF ConfigurePolicy, Lawful

(* A fact that changes moves the epoch on.                                 *)
LEMMA UpsertLawful ==
  ASSUME PolicyTypeOK, NEW p \in Participants, NEW facts \in Facts, UpsertParticipant(p, facts)
  PROVE  Lawful
<1>1. PICK grant \in [facts : Facts, epoch : Nat] : grant = participants[p]
  BY DEF PolicyTypeOK
<1>2. PICK next \in [facts : Facts, epoch : Nat] :
        /\ next = [facts |-> facts, epoch |-> grant.epoch + IF FactsChanged(p, facts) THEN 1 ELSE 0]
        /\ participants' = [participants EXCEPT ![p] = next]
  <2>1. [facts |-> facts, epoch |-> grant.epoch + IF FactsChanged(p, facts) THEN 1 ELSE 0]
          \in [facts : Facts, epoch : Nat]
    BY <1>1
  <2> QED BY <1>1, <2>1 DEF UpsertParticipant
<1>3. PolicyTypeOK'
  BY <1>2 DEF PolicyTypeOK, UpsertParticipant
<1>4. ASSUME NEW x \in Participants PROVE FactsKept(x)
  <2>1. participants[x].epoch \in Nat
    BY DEF PolicyTypeOK
  <2>2. CASE x # p
    BY <1>2, <2>1, <2>2 DEF FactsKept, UpsertParticipant, PolicyTypeOK
  <2>3. CASE x = p
    <3>1. participants'[p] = next /\ participants[p] = grant
      BY <1>1, <1>2 DEF PolicyTypeOK
    <3>2. next.epoch >= grant.epoch /\ (next.epoch = grant.epoch => next.facts = grant.facts)
      BY <1>1, <1>2, <3>1 DEF FactsChanged
    <3> QED BY <2>3, <3>1, <3>2 DEF FactsKept, UpsertParticipant
  <2> QED BY <2>2, <2>3
<1> QED BY <1>3, <1>4, QuietRows DEF Lawful, UpsertParticipant

LEMMA BumpedParts ==
  ASSUME PolicyTypeOK, NEW p \in Participants
  PROVE  /\ Bumped(p) \in [Participants -> [facts : Facts, epoch : Nat]]
         /\ Bumped(p)[p].epoch > participants[p].epoch
         /\ \A x \in Participants \ {p} : Bumped(p)[x] = participants[x]
<1>1. PICK grant \in [facts : Facts, epoch : Nat] : grant = participants[p]
  BY DEF PolicyTypeOK
<1> DEFINE next == [facts |-> participants[p].facts, epoch |-> participants[p].epoch + 1]
<1>2. next \in [facts : Facts, epoch : Nat]
  BY <1>1
<1>3. Bumped(p) = [participants EXCEPT ![p] = next]
  BY DEF Bumped
<1>4. next.epoch > grant.epoch
  BY <1>1, <1>2
<1> QED BY <1>1, <1>3, <1>4 DEF PolicyTypeOK

LEMMA CredentialLawful ==
  ASSUME PolicyTypeOK, now \in Nat, NEW p \in Participants, NEW t \in CredentialTypes,
         NEW c \in NewCredential, UpsertCredential(p, t, c)
  PROVE  Lawful
<1>1. c \in Credential
  BY PolicyAssumption DEF NewCredential, Credential
<1>2. PICK mine \in [CredentialTypes -> Credential] : mine = credentials[p]
  BY DEF PolicyTypeOK
<1>3. PICK next \in [CredentialTypes -> Credential] :
        next = [mine EXCEPT ![t] = c] /\ credentials' = [credentials EXCEPT ![p] = next]
  BY <1>1, <1>2 DEF UpsertCredential
<1>4. participants' = participants \/ participants' = Bumped(p)
  BY DEF UpsertCredential
<1>5. PolicyTypeOK'
  BY <1>3, <1>4, BumpedParts DEF PolicyTypeOK, UpsertCredential
<1>6. ASSUME NEW x \in Participants PROVE FactsKept(x)
  <2>1. participants[x].epoch \in Nat /\ participants'[x].epoch \in Nat
    BY <1>5 DEF PolicyTypeOK
  <2>2. CASE x # p
    <3>1. participants'[x] = participants[x] /\ credentials'[x] = credentials[x]
      BY <1>3, <1>4, <2>2, BumpedParts DEF PolicyTypeOK
    <3> QED BY <3>1, <2>1 DEF FactsKept, UpsertCredential
  <2>3. CASE x = p /\ CredentialChanged(p, t, c)
    <3>1. participants'[p].epoch > participants[p].epoch
      BY <2>3, BumpedParts DEF UpsertCredential
    <3> QED BY <3>1, <2>1, <2>3 DEF FactsKept
  <2>4. CASE x = p /\ ~CredentialChanged(p, t, c)
    <3>1. next = mine
      BY <1>2, <1>3, <2>4 DEF CredentialChanged
    <3>2. credentials' = credentials /\ participants' = participants
      BY <1>2, <1>3, <3>1, <2>4 DEF UpsertCredential, PolicyTypeOK
    <3> QED BY <3>2, <2>1 DEF FactsKept, UpsertCredential
  <2> QED BY <2>2, <2>3, <2>4
<1> QED BY <1>5, <1>6, QuietRows DEF Lawful, UpsertCredential

LEMMA MapLawful ==
  ASSUME PolicyTypeOK, NEW p \in Participants, NEW a \in Accounts, MapAccount(p, a)
  PROVE  Lawful
<1>1. participants' = participants \/ participants' = Bumped(p)
  BY DEF MapAccount
<1>2. PolicyTypeOK'
  BY <1>1, BumpedParts DEF PolicyTypeOK, MapAccount
<1>3. ASSUME NEW x \in Participants PROVE FactsKept(x)
  <2>1. participants[x].epoch \in Nat /\ participants'[x].epoch \in Nat
    BY <1>2 DEF PolicyTypeOK
  <2>2. \A y \in Accounts : accounts[y] = x => accounts'[y] = x
    BY PolicyAssumption DEF MapAccount, PolicyTypeOK
  <2>3. participants'[x].epoch >= participants[x].epoch
        /\ (participants'[x].epoch = participants[x].epoch => participants'[x] = participants[x])
    <3>1. CASE x = p
      BY <1>1, <2>1, <3>1, BumpedParts
    <3>2. CASE x # p
      BY <1>1, <2>1, <3>2, BumpedParts
    <3> QED BY <3>1, <3>2
  <2> QED BY <2>2, <2>3 DEF FactsKept, MapAccount
<1> QED BY <1>2, <1>3, QuietRows DEF Lawful, MapAccount
FactsTyped ==
  /\ policy \in Policies
  /\ participants \in [Participants -> [facts : Facts, epoch : Nat]]
  /\ credentials \in [Participants -> [CredentialTypes -> Credential]]
  /\ accounts \in [Accounts -> Participants \cup {None}]

LEMMA TypedFacts == PolicyTypeOK <=> FactsTyped /\ authorizations \in Seq(Authorization)
BY DEF PolicyTypeOK, FactsTyped

(* What authorize issues is deserved when it is issued: the row ends no    *)
(* later than any credential it relied on.                                 *)
LEMMA ExpiryParts ==
  ASSUME FactsTyped, now \in Nat, NEW p \in Participants
  PROVE  /\ ExpiryOf(p) \in Nat
         /\ \A t \in RequiredOf(p) : ExpiryOf(p) <= credentials[p][t].expiresAt
<1> DEFINE ends == {now + policy.ttl} \cup {credentials[p][t].expiresAt : t \in RequiredOf(p)}
<1>1. policy.ttl \in Nat /\ RequiredOf(p) \subseteq CredentialTypes
  <2>1. participants[p].facts \in Facts
    BY DEF FactsTyped
  <2> QED BY <2>1, PolicyTypeParts DEF FactsTyped, RequiredOf
<1>2. \A t \in CredentialTypes : credentials[p][t].expiresAt \in Nat
  BY DEF FactsTyped, Credential
<1>3. ends \in SUBSET Nat /\ ends # {}
  BY <1>1, <1>2
<1> HIDE DEF ends
<1>4. \E n \in ends : \A m \in ends : n <= m
  BY <1>3, LeastNumber
<1>5. ExpiryOf(p) = CHOOSE e \in ends : \A x \in ends : e <= x
  BY DEF ExpiryOf, ends
<1>6. ExpiryOf(p) \in ends /\ \A x \in ends : ExpiryOf(p) <= x
  BY <1>4, <1>5
<1>7. \A t \in RequiredOf(p) : credentials[p][t].expiresAt \in ends
  BY DEF ends
<1> QED BY <1>3, <1>6, <1>7

LEMMA IssuedParts ==
  ASSUME FactsTyped, now \in Nat, NEW r \in Request
  PROVE  /\ Issued(r) \in Authorization
         /\ Eligible(r) => Deserved(Issued(r))
         /\ Issued(r).request = r
<1> DEFINE p == r.participant
<1>1. p \in Participants
  BY DEF Request
<1>2. ExpiryOf(p) \in Nat /\ \A t \in RequiredOf(p) : ExpiryOf(p) <= credentials[p][t].expiresAt
  BY <1>1, ExpiryParts
<1>3. participants[p].epoch \in Nat
  BY <1>1 DEF FactsTyped
<1>4. policy \in Policies
  BY DEF FactsTyped
<1>5. Issued(r) \in Authorization
  BY <1>2, <1>3, <1>4, PolicyTypeParts DEF Issued, Authorization
<1>6. ASSUME Eligible(r) PROVE Deserved(Issued(r))
  <2>1. /\ Issued(r).request = r /\ Issued(r).epoch = participants[p].epoch
        /\ Issued(r).policyId = policy.id /\ Issued(r).version = policy.version
        /\ Issued(r).expiresAt = ExpiryOf(p)
    BY DEF Issued
  <2>2. \A rules \in Policies : rules.id = policy.id /\ rules.version = policy.version => rules = policy
    BY <1>4, PolicyAssumption
  <2>3. \A t \in CredentialTypes : credentials[p][t].expiresAt \in Nat
    BY <1>1 DEF FactsTyped, Credential
  <2>4. RequiredOf(p) \subseteq CredentialTypes
    <3>1. participants[p].facts \in Facts
      BY <1>1 DEF FactsTyped
    <3> QED BY <1>4, <3>1, PolicyTypeParts DEF RequiredOf
  <2>5. Standing(policy, r, ExpiryOf(p))
    BY <1>2, <1>3, <1>6, <2>3, <2>4 DEF Eligible, Standing, Known, Passed, RequiredOf
  <2>6. Issued(r).epoch <= participants[p].epoch
    BY <1>3, <2>1
  <2> QED BY <2>1, <2>2, <2>5, <2>6 DEF Deserved
<1> QED BY <1>5, <1>6 DEF Issued

(* A step that adds rows after those there are.                            *)
LEMMA AppendedRows ==
  ASSUME PolicyTypeOK, NEW s \in Seq(Authorization), authorizations' = authorizations \o s
  PROVE  /\ authorizations' \in Seq(Authorization)
         /\ RowsKept
         /\ \A i \in DOMAIN authorizations' :
              i \notin DOMAIN authorizations =>
                \E k \in DOMAIN s : authorizations'[i] = s[k]
<1>1. authorizations \in Seq(Authorization)
  BY DEF PolicyTypeOK
<1>2. /\ authorizations' \in Seq(Authorization)
      /\ Len(authorizations') = Len(authorizations) + Len(s)
      /\ \A i \in 1 .. Len(authorizations) + Len(s) :
           authorizations'[i] = IF i <= Len(authorizations) THEN authorizations[i]
                                ELSE s[i - Len(authorizations)]
  BY <1>1, ConcatProperties
<1>3. /\ Len(authorizations) \in Nat /\ Len(s) \in Nat
      /\ DOMAIN authorizations = 1 .. Len(authorizations) /\ DOMAIN s = 1 .. Len(s)
      /\ DOMAIN authorizations' = 1 .. Len(authorizations')
  BY <1>1, <1>2
<1>4. ASSUME NEW i \in DOMAIN authorizations
      PROVE  i \in DOMAIN authorizations' /\ authorizations'[i] = authorizations[i]
  BY <1>2, <1>3, <1>4
<1>5. RowsKept
  BY <1>4 DEF RowsKept, SameRow
<1>6. ASSUME NEW i \in DOMAIN authorizations', i \notin DOMAIN authorizations
      PROVE  \E k \in DOMAIN s : authorizations'[i] = s[k]
  <2>1. i \in 1 .. Len(authorizations) + Len(s) /\ ~(i <= Len(authorizations))
    BY <1>2, <1>3, <1>6
  <2>2. i - Len(authorizations) \in DOMAIN s /\ authorizations'[i] = s[i - Len(authorizations)]
    BY <1>2, <1>3, <2>1
  <2> QED BY <2>2
<1> QED BY <1>2, <1>5, <1>6

LEMMA AuthorizeLawful ==
  ASSUME PolicyTypeOK, now \in Nat, NEW r \in Requests, Authorize(r)
  PROVE  Lawful
<1>1. r \in Request
  BY RequestsAssumption
<1>2. PICK grant \in Authorization : grant = Issued(r)
  BY <1>1, TypedFacts, IssuedParts
<1>3. <<grant>> \in Seq(Authorization) /\ DOMAIN <<grant>> = {1} /\ <<grant>>[1] = grant
  OBVIOUS
<1>4. authorizations' = authorizations \o <<grant>>
  BY <1>2, AppendIsConcat DEF Authorize, PolicyTypeOK
<1>5. /\ authorizations' \in Seq(Authorization) /\ RowsKept
      /\ \A i \in DOMAIN authorizations' : i \notin DOMAIN authorizations =>
           authorizations'[i] = grant
  BY <1>3, <1>4, AppendedRows
<1>6. Deserved(grant)
  BY <1>1, <1>2, TypedFacts, IssuedParts DEF Authorize
<1>7. Deserved(grant)'
  BY <1>6 DEF Deserved, Standing, Authorize
<1>8. NewDeserved
  BY <1>5, <1>7 DEF NewDeserved
<1>9. PolicyTypeOK'
  BY <1>5 DEF PolicyTypeOK, Authorize
<1> QED BY <1>5, <1>8, <1>9, QuietFacts DEF Lawful, Authorize

LEMMA RevokeLawful ==
  ASSUME PolicyTypeOK, NEW j \in DOMAIN authorizations, RevokeAuthorization(j)
  PROVE  Lawful
<1>1. PICK grant \in Authorization : grant = authorizations[j]
  BY DEF PolicyTypeOK
<1>2. PICK next \in Authorization : next = [grant EXCEPT !.revoked = TRUE]
  BY DEF Authorization
<1>3. authorizations' = [authorizations EXCEPT ![j] = next] /\ SameRow(grant, next)
  BY <1>1, <1>2 DEF RevokeAuthorization, SameRow, Authorization
<1>4. authorizations' \in Seq(Authorization) /\ DOMAIN authorizations' = DOMAIN authorizations
  BY <1>3 DEF PolicyTypeOK
<1>5. RowsKept
  <2>1. \A i \in DOMAIN authorizations : SameRow(authorizations[i], authorizations[i])
    BY DEF SameRow
  <2> QED BY <1>1, <1>3, <1>4, <2>1 DEF RowsKept, PolicyTypeOK
<1>6. NewDeserved
  BY <1>4 DEF NewDeserved
<1>7. PolicyTypeOK'
  BY <1>4 DEF PolicyTypeOK, RevokeAuthorization
<1> QED BY <1>5, <1>6, <1>7, QuietFacts DEF Lawful, RevokeAuthorization
LEMMA PolicyNextLawful ==
  ASSUME PolicyTypeOK, now \in Nat, PolicyNext
  PROVE  Lawful
BY ConfigureLawful, UpsertLawful, CredentialLawful, MapLawful, AuthorizeLawful, RevokeLawful
   DEF PolicyNext

(* The seeds, and a choice of them in their order.                         *)
LEMMA SeedParts ==
  /\ \A k \in DOMAIN Offers : Offers[k] \in Seeds
  /\ \A o \in Seeds : o.request \in Request /\ Configured(o)
  /\ IsFiniteSet(DOMAIN Offers)
<1>1. DOMAIN Offers = 1 .. Len(Offers) /\ Len(Offers) \in Nat
  BY NodeAssumption
<1>2. IsFiniteSet(1 .. Len(Offers))
  BY <1>1, FS_Interval
<1> QED BY <1>1, <1>2, NodeAssumption DEF Seeds

LEMMA AsListedParts ==
  ASSUME NEW S \in SUBSET DOMAIN Offers, NEW s \in AsListed(S)
  PROVE  /\ s \in Seq(DOMAIN Offers)
         /\ \A k \in DOMAIN s : Offers[s[k]] \in Seeds /\ s[k] \in S
<1>1. IsFiniteSet(S)
  BY SeedParts, FS_Subset
<1>2. Cardinality(S) \in Nat
  BY <1>1, FS_CardinalityType
<1> DEFINE n == Cardinality(S)
<1>3. s \in [1..n -> S]
  BY DEF AsListed
<1> HIDE DEF n
<1>4. s \in Seq(DOMAIN Offers)
  BY <1>2, <1>3 DEF n
<1> QED BY <1>3, <1>4, SeedParts

LEMMA ScenarioLawful ==
  ASSUME PolicyTypeOK, now \in Nat, Scenario
  PROVE  Lawful
<1>1. PICK fresh \in AsListed({k \in DOMAIN Offers : Source(Offers[k])}) :
        /\ \A o \in Seeds : Source(o) => Eligible(o.request)
        /\ \E revoked \in SUBSET {o \in Seeds : Source(o)} :
             authorizations' = authorizations \o
               [k \in DOMAIN fresh |-> [Issued(Offers[fresh[k]].request)
                                          EXCEPT !.revoked = Offers[fresh[k]] \in revoked]]
  BY DEF Scenario
<1>2. PICK revoked \in SUBSET {o \in Seeds : Source(o)} :
        authorizations' = authorizations \o
          [k \in DOMAIN fresh |-> [Issued(Offers[fresh[k]].request)
                                     EXCEPT !.revoked = Offers[fresh[k]] \in revoked]]
  BY <1>1
<1>3. UNCHANGED <<policy, participants, credentials, accounts>>
  BY DEF Scenario
<1> DEFINE dealt(k) == [Issued(Offers[fresh[k]].request) EXCEPT !.revoked = Offers[fresh[k]] \in revoked]
           rows == [k \in DOMAIN fresh |-> dealt(k)]
<1>4. /\ fresh \in Seq(DOMAIN Offers)
      /\ \A k \in DOMAIN fresh : Offers[fresh[k]] \in Seeds /\ Source(Offers[fresh[k]])
  BY AsListedParts
<1>5. ASSUME NEW k \in DOMAIN fresh
      PROVE  dealt(k) \in Authorization /\ Deserved(dealt(k))
  <2>1. PICK r \in Request : r = Offers[fresh[k]].request /\ Eligible(r)
    BY <1>1, <1>4, SeedParts
  <2>2. Issued(r) \in Authorization /\ Deserved(Issued(r))
    BY <2>1, TypedFacts, IssuedParts
  <2>3. PICK old \in Authorization : old = Issued(r)
    BY <2>2
  <2>4. dealt(k) = [old EXCEPT !.revoked = Offers[fresh[k]] \in revoked]
    BY <2>1, <2>3
  <2> HIDE DEF dealt
  <2>5. (Offers[fresh[k]] \in revoked) \in BOOLEAN
    OBVIOUS
  <2>6. PICK b \in BOOLEAN : dealt(k) = [old EXCEPT !.revoked = b]
    BY <2>4, <2>5
  <2>7. dealt(k) \in Authorization
    BY <2>6 DEF Authorization
  <2>8. /\ dealt(k).request = old.request /\ dealt(k).epoch = old.epoch
        /\ dealt(k).policyId = old.policyId /\ dealt(k).version = old.version
        /\ dealt(k).expiresAt = old.expiresAt
    BY <2>6 DEF Authorization
  <2>9. Deserved(old)
    BY <2>2, <2>3
  <2>10. PICK new \in Authorization : new = dealt(k)
    BY <2>7
  <2>11. Deserved(new)
    BY <2>8, <2>9, <2>10 DEF Deserved
  <2> QED BY <2>10, <2>11
<1> HIDE DEF dealt
<1>6. rows \in Seq(Authorization) /\ DOMAIN rows = DOMAIN fresh
  BY <1>4, <1>5
<1>7. authorizations' = authorizations \o rows
  BY <1>2 DEF dealt
<1>8. \A k \in DOMAIN rows : Deserved(rows[k])
  BY <1>5
<1> HIDE DEF rows
<1>9. /\ authorizations' \in Seq(Authorization) /\ RowsKept
      /\ \A i \in DOMAIN authorizations' : i \notin DOMAIN authorizations =>
           \E k \in DOMAIN rows : authorizations'[i] = rows[k]
  BY <1>6, <1>7, AppendedRows
<1>10. ASSUME NEW i \in DOMAIN authorizations', i \notin DOMAIN authorizations
       PROVE  Deserved(authorizations[i])'
  <2>1. PICK k \in DOMAIN rows : authorizations'[i] = rows[k]
    BY <1>9, <1>10
  <2>2. PICK new : new = rows[k]
    OBVIOUS
  <2>3. Deserved(new)
    BY <1>8, <2>2
  <2>4. Deserved(new)'
    BY <2>3, <1>3 DEF Deserved, Standing
  <2> QED BY <2>1, <2>2, <2>4
<1>11. PolicyTypeOK'
  BY <1>3, <1>9 DEF PolicyTypeOK
<1> QED BY <1>3, <1>9, <1>10, <1>11, QuietFacts DEF Lawful, NewDeserved

LEMMA SeedAccountsFinite ==
  ASSUME NEW p \in Participants PROVE IsFiniteSet(SeedAccounts(p))
<1> DEFINE mine == {k \in DOMAIN Offers : Offers[k].request.participant = p}
           named == [k \in mine |-> Offers[k].request.account]
<1>1. IsFiniteSet(mine)
  BY SeedParts, FS_Subset
<1>2. SeedAccounts(p) = {Offers[k].request.account : k \in mine}
  BY DEF SeedAccounts, Seeds
<1>3. named \in Surjection(mine, SeedAccounts(p))
  BY <1>2 DEF Surjection
<1> QED BY <1>1, <1>3, FS_Surjection

(* A start changes facts only where the epoch counts it.                   *)
LEMMA StartCounts ==
  ASSUME PolicyTypeOK, NEW p \in Participants
  PROVE  LET new == {t \in ReferencePolicy.required[ReferenceFacts[p].type] :
                       ~Fresh(credentials[p][t])}
         IN  /\ StartedParticipant(p) \in [facts : Facts, epoch : Nat]
             /\ StartedParticipant(p).epoch > 0
             /\ StartedParticipant(p).epoch >= participants[p].epoch
             /\ StartedParticipant(p).epoch = participants[p].epoch =>
                  new = {} /\ participants[p].facts = ReferenceFacts[p]
             /\ StartedParticipant(p).facts = ReferenceFacts[p]
<1> DEFINE new == {t \in ReferencePolicy.required[ReferenceFacts[p].type] :
                     ~Fresh(credentials[p][t])}
           free == {a \in SeedAccounts(p) : accounts[a] = None}
           changed == IF FactsChanged(p, ReferenceFacts[p]) THEN 1 ELSE 0
<1>1. ReferencePolicy \in Policies /\ ReferenceFacts[p] \in Facts
  BY NodeAssumption
<1>2. IsFiniteSet(new)
  <2>1. new \in SUBSET CredentialTypes
    BY <1>1, PolicyTypeParts
  <2> QED BY <2>1, PolicyAssumption, FS_Subset
<1>3. IsFiniteSet(free)
  BY SeedAccountsFinite, FS_Subset
<1>4. /\ Cardinality(new) \in Nat /\ Cardinality(free) \in Nat
      /\ Cardinality(new) = 0 <=> new = {}
  BY <1>2, <1>3, FS_CardinalityType, FS_EmptySet
<1>5. /\ StartedParticipant(p).epoch = participants[p].epoch + changed + Cardinality(new) + Cardinality(free)
      /\ StartedParticipant(p).facts = ReferenceFacts[p]
      /\ StartedParticipant(p) = [facts |-> StartedParticipant(p).facts, epoch |-> StartedParticipant(p).epoch]
  BY DEF StartedParticipant
<1>6. /\ changed \in {0, 1}
      /\ participants[p].epoch = 0 => changed = 1
      /\ changed = 0 => participants[p].facts = ReferenceFacts[p]
      /\ participants[p].epoch \in Nat
  <2>1. participants[p].epoch \in Nat
    BY DEF PolicyTypeOK
  <2> QED BY <2>1 DEF FactsChanged, Known
<1> HIDE DEF new, free, changed
<1>7. PICK n \in Nat, m \in Nat : n = Cardinality(new) /\ m = Cardinality(free)
  BY <1>4
<1>8. /\ StartedParticipant(p).epoch \in Nat /\ StartedParticipant(p).epoch > 0
      /\ StartedParticipant(p).epoch >= participants[p].epoch
      /\ StartedParticipant(p).epoch = participants[p].epoch => n = 0 /\ changed = 0
  BY <1>5, <1>6, <1>7
<1>9. StartedParticipant(p) \in [facts : Facts, epoch : Nat]
  BY <1>1, <1>5, <1>8
<1> QED BY <1>4, <1>5, <1>6, <1>7, <1>8, <1>9 DEF new
(* Who owns the account of a seed after a start.                           *)
LEMMA SeedOwner ==
  ASSUME NEW o \in Seeds
  PROVE  /\ o.request.account \in Accounts /\ o.request.participant \in Participants
         /\ o.request.account \in SeedAccounts(o.request.participant)
         /\ \A p \in Participants : o.request.account \in SeedAccounts(p) => p = o.request.participant
<1>1. o.request \in Request /\ o.request.account # None
  BY SeedParts DEF Configured
<1>2. o.request.account \in Accounts /\ o.request.participant \in Participants
  BY <1>1 DEF Request
<1>3. \A p \in Participants : o.request.account \in SeedAccounts(p) => p = o.request.participant
  BY NodeAssumption DEF SeedAccounts
<1>4. o.request.account \in SeedAccounts(o.request.participant)
  BY DEF SeedAccounts
<1> QED BY <1>2, <1>3, <1>4

LEMMA StartedAccounts ==
  ASSUME PolicyTypeOK, Startup
  PROVE  /\ accounts' \in [Accounts -> Participants \cup {None}]
         /\ \A a \in Accounts : accounts[a] # None => accounts'[a] = accounts[a]
         /\ \A o \in Seeds : accounts'[o.request.account] = o.request.participant
<1>1. accounts' = [a \in Accounts |->
        IF \E p \in Participants : a \in SeedAccounts(p)
        THEN CHOOSE p \in Participants : a \in SeedAccounts(p) ELSE accounts[a]]
  BY DEF Startup
<1>2. \A o \in Seeds : accounts[o.request.account] \in {o.request.participant, None}
  BY DEF Startup
<1>3. ASSUME NEW a \in Accounts
      PROVE  /\ accounts'[a] \in Participants \cup {None}
             /\ accounts[a] # None => accounts'[a] = accounts[a]
  <2>1. CASE ~ \E p \in Participants : a \in SeedAccounts(p)
    BY <1>1, <2>1 DEF PolicyTypeOK
  <2>2. CASE \E p \in Participants : a \in SeedAccounts(p)
    <3>1. PICK p \in Participants : a \in SeedAccounts(p) /\ accounts'[a] = p
      BY <1>1, <2>2
    <3>2. PICK o \in Seeds : o.request.participant = p /\ o.request.account = a
      BY <3>1 DEF SeedAccounts
    <3> QED BY <1>2, <3>1, <3>2
  <2> QED BY <2>1, <2>2
<1>4. ASSUME NEW o \in Seeds PROVE accounts'[o.request.account] = o.request.participant
  BY <1>1, SeedOwner
<1> QED BY <1>1, <1>3, <1>4

LEMMA StartedFacts ==
  ASSUME PolicyTypeOK, now \in Nat, Startup
  PROVE  FactsTyped' /\ \A p \in Participants : FactsKept(p)
<1>1. /\ participants' = [p \in Participants |-> StartedParticipant(p)]
      /\ credentials' = [p \in Participants |-> [t \in CredentialTypes |->
           IF t \in ReferencePolicy.required[ReferenceFacts[p].type] /\ ~Fresh(credentials[p][t])
           THEN Renewed ELSE credentials[p][t]]]
      /\ policy' = ReferencePolicy
  BY DEF Startup
<1>2. Renewed \in Credential
  BY NodeAssumption DEF Renewed, Credential, CredentialStatuses
<1>3. credentials' \in [Participants -> [CredentialTypes -> Credential]]
  BY <1>1, <1>2 DEF PolicyTypeOK
<1>4. participants' \in [Participants -> [facts : Facts, epoch : Nat]]
  BY <1>1, StartCounts
<1>5. FactsTyped'
  BY <1>1, <1>3, <1>4, StartedAccounts, NodeAssumption DEF FactsTyped
<1>6. ASSUME NEW p \in Participants PROVE FactsKept(p)
  <2> DEFINE new == {t \in ReferencePolicy.required[ReferenceFacts[p].type] : ~Fresh(credentials[p][t])}
  <2>1. /\ participants'[p].epoch >= participants[p].epoch
        /\ participants'[p].epoch = participants[p].epoch =>
             new = {} /\ participants'[p].facts = participants[p].facts
    BY <1>1, StartCounts
  <2>2. \A a \in Accounts : accounts[a] = p => accounts'[a] = p
    BY StartedAccounts, PolicyAssumption
  <2>3. ASSUME new = {} PROVE credentials'[p] = credentials[p]
    <3>1. credentials'[p] = [t \in CredentialTypes |->
            IF t \in ReferencePolicy.required[ReferenceFacts[p].type] /\ ~Fresh(credentials[p][t])
            THEN Renewed ELSE credentials[p][t]]
      BY <1>1
    <3>2. \A t \in CredentialTypes :
            ~(t \in ReferencePolicy.required[ReferenceFacts[p].type] /\ ~Fresh(credentials[p][t]))
      BY <2>3
    <3>3. credentials[p] \in [CredentialTypes -> Credential]
      BY DEF PolicyTypeOK
    <3> QED BY <3>1, <3>2, <3>3
  <2> HIDE DEF new
  <2> QED BY <2>1, <2>2, <2>3 DEF FactsKept
<1> QED BY <1>5, <1>6

(* Every seed is admitted by the policy a start leaves.                    *)
LEMMA StartedEligible ==
  ASSUME PolicyTypeOK, now \in Nat, UNCHANGED now, Startup, NEW o \in Seeds
  PROVE  Eligible(o.request)'
<1> DEFINE r == o.request  p == o.request.participant
<1>1. /\ participants' = [x \in Participants |-> StartedParticipant(x)]
      /\ credentials' = [x \in Participants |-> [t \in CredentialTypes |->
           IF t \in ReferencePolicy.required[ReferenceFacts[x].type] /\ ~Fresh(credentials[x][t])
           THEN Renewed ELSE credentials[x][t]]]
      /\ policy' = ReferencePolicy
  BY DEF Startup
<1>2. p \in Participants /\ accounts'[r.account] = p /\ r \in Request /\ Configured(o)
  BY SeedOwner, StartedAccounts, SeedParts
<1>3. participants'[p].facts = ReferenceFacts[p] /\ participants'[p].epoch > 0
  BY <1>1, <1>2, StartCounts
<1>4. ASSUME NEW t \in ReferencePolicy.required[ReferenceFacts[p].type]
      PROVE  credentials'[p][t].status = "PASSED" /\ credentials'[p][t].expiresAt > now
  <2>1. t \in CredentialTypes
    <3>1. ReferencePolicy \in Policies /\ ReferenceFacts[p] \in Facts
      BY <1>2, NodeAssumption
    <3> QED BY <3>1, PolicyTypeParts
  <2>2. credentials[p][t].expiresAt \in Nat
    BY <1>2, <2>1 DEF PolicyTypeOK, Credential
  <2>3. credentials'[p][t] = IF ~Fresh(credentials[p][t]) THEN Renewed ELSE credentials[p][t]
    BY <1>1, <1>2, <2>1
  <2> QED BY <2>2, <2>3, NodeAssumption DEF Fresh, Renewed
<1> QED BY <1>1, <1>2, <1>3, <1>4 DEF Eligible, Known, Passed, RequiredOf, Configured

LEMMA IssuedAll ==
  FactsTyped /\ now \in Nat => \A r \in Request :
    Issued(r) \in Authorization /\ (Eligible(r) => Deserved(Issued(r)))
BY IssuedParts

LEMMA StartupLawful ==
  ASSUME PolicyTypeOK, now \in Nat, UNCHANGED now, Startup
  PROVE  Lawful
<1>1. PICK fresh \in AsListed({k \in DOMAIN Offers : Reusable(Offers[k].request) = {}}) :
        authorizations' = authorizations \o
          [k \in DOMAIN fresh |-> [o \in Seeds |-> Issued(o.request)]'[Offers[fresh[k]]]]
  BY DEF Startup
<1>2. FactsTyped' /\ \A p \in Participants : FactsKept(p)
  BY StartedFacts
<1>3. (FactsTyped /\ now \in Nat => \A r \in Request :
         Issued(r) \in Authorization /\ (Eligible(r) => Deserved(Issued(r))))'
  BY IssuedAll, PTL
<1>4. ASSUME NEW o \in Seeds
      PROVE  Issued(o.request)' \in Authorization /\ Deserved(Issued(o.request))'
  <2>1. PICK r \in Request : r = o.request
    BY SeedParts
  <2>2. Eligible(r)'
    BY <2>1, StartedEligible
  <2> QED BY <1>2, <1>3, <2>1, <2>2
<1> DEFINE rows == [k \in DOMAIN fresh |-> [o \in Seeds |-> Issued(o.request)]'[Offers[fresh[k]]]]
<1>5. /\ fresh \in Seq(DOMAIN Offers)
      /\ \A k \in DOMAIN fresh : Offers[fresh[k]] \in Seeds
  BY AsListedParts
<1>6. \A k \in DOMAIN fresh : rows[k] = Issued(Offers[fresh[k]].request)'
  BY <1>5
<1>7. rows = [k \in DOMAIN fresh |-> rows[k]]
  OBVIOUS
<1>8. authorizations' = authorizations \o rows
  BY <1>1
<1> HIDE DEF rows
<1>9. \A k \in DOMAIN fresh : \E o \in Seeds : rows[k] = Issued(o.request)'
  BY <1>5, <1>6
<1>10. \A k \in DOMAIN fresh : rows[k] \in Authorization
  BY <1>4, <1>9
<1>11. rows \in Seq(Authorization) /\ DOMAIN rows = DOMAIN fresh
  BY <1>5, <1>7, <1>10
<1>12. /\ authorizations' \in Seq(Authorization) /\ RowsKept
       /\ \A i \in DOMAIN authorizations' : i \notin DOMAIN authorizations =>
            \E k \in DOMAIN rows : authorizations'[i] = rows[k]
  BY <1>8, <1>11, AppendedRows
<1>13. ASSUME NEW i \in DOMAIN authorizations', i \notin DOMAIN authorizations
       PROVE  Deserved(authorizations[i])'
  <2>1. PICK o \in Seeds : authorizations'[i] = Issued(o.request)'
    BY <1>9, <1>11, <1>12, <1>13
  <2> QED BY <1>4, <2>1
<1>14. PolicyTypeOK'
  BY <1>2, <1>12 DEF FactsTyped, PolicyTypeOK
<1> QED BY <1>2, <1>12, <1>13, <1>14 DEF Lawful, NewDeserved
LEMMA QuietLawful ==
  ASSUME PolicyTypeOK, UNCHANGED policyVars
  PROVE  Lawful
<1>1. PolicyTypeOK' /\ UNCHANGED authorizations /\ UNCHANGED <<participants, credentials, accounts>>
  BY DEF PolicyTypeOK, policyVars
<1> QED BY <1>1, QuietRows, QuietFacts DEF Lawful

-----------------------------------------------------------------------------
(* What is offered: the account of a source that is offered belongs to the *)
(* participant who offers it.                                              *)
SourcesAttributed ==
  \A o \in Seeds : Source(o) /\ offers[o].id # 0 =>
    accounts[o.request.account] = o.request.participant

NodeInv ==
  /\ now \in Nat /\ PolicyTypeOK /\ DOMAIN offers = Seeds
  /\ AllDeserved /\ SourcesAttributed

NodeStep == (NodeNext /\ UNCHANGED now) \/ (Tick /\ UNCHANGED nodeVars)

LEMMA StepLawful ==
  ASSUME NodeInv, [NodeStep]_<<nodeVars, now>>
  PROVE  Lawful /\ now' \in Nat /\ now' >= now
<1>1. PolicyTypeOK /\ now \in Nat
  BY DEF NodeInv
<1>2. CASE PolicyNext /\ UNCHANGED now
  BY <1>1, <1>2, PolicyNextLawful
<1>3. CASE Startup /\ UNCHANGED now
  BY <1>1, <1>3, StartupLawful
<1>4. CASE Scenario /\ UNCHANGED now
  BY <1>1, <1>4, ScenarioLawful
<1>5. CASE UNCHANGED policyVars /\ (now' = now \/ now' = now + 1)
  BY <1>1, <1>5, QuietLawful
<1>6. ASSUME NEW o \in Edges, NEW i \in DOMAIN authorizations, UpsertEdge(o, i)
      PROVE  UNCHANGED policyVars
  BY <1>6 DEF UpsertEdge
<1>7. ASSUME NEW o \in Edges, NEW available \in BOOLEAN, SetAvailability(o, available)
      PROVE  UNCHANGED policyVars
  BY <1>7 DEF SetAvailability
<1> QED BY <1>2, <1>3, <1>4, <1>5, <1>6, <1>7 DEF NodeStep, NodeNext, Tick, nodeVars

(* An account stays with whom it was attributed to.                        *)
LEMMA AccountsStay ==
  ASSUME NodeInv, [NodeStep]_<<nodeVars, now>>, NEW a \in Accounts, accounts[a] # None
  PROVE  accounts'[a] = accounts[a]
<1>1. CASE UNCHANGED accounts
  BY <1>1
<1>2. CASE Startup
  BY <1>2, StartedAccounts DEF NodeInv
<1>3. ASSUME NEW p \in Participants, NEW x \in Accounts, MapAccount(p, x)
      PROVE  accounts'[a] = accounts[a]
  BY <1>3 DEF MapAccount, NodeInv, PolicyTypeOK
<1>4. CASE PolicyNext
  BY <1>1, <1>3, <1>4 DEF PolicyNext, ConfigurePolicy, UpsertParticipant, UpsertCredential,
     Authorize, RevokeAuthorization
<1>5. Scenario \/ (\E o \in Edges, i \in DOMAIN authorizations : UpsertEdge(o, i))
        \/ (\E o \in Edges, available \in BOOLEAN : SetAvailability(o, available))
        => UNCHANGED accounts
  BY DEF Scenario, UpsertEdge, SetAvailability, policyVars
<1> QED BY <1>1, <1>2, <1>4, <1>5 DEF NodeStep, NodeNext, nodeVars, policyVars

LEMMA StaysAttributed ==
  ASSUME NodeInv, [NodeStep]_<<nodeVars, now>>
  PROVE  SourcesAttributed' /\ DOMAIN offers' = Seeds
<1>1. ASSUME NEW o \in Seeds, accounts[o.request.account] = o.request.participant
      PROVE  accounts'[o.request.account] = o.request.participant
  <2>1. o.request.account \in Accounts /\ o.request.participant # None
    BY SeedOwner, PolicyAssumption
  <2> QED BY <1>1, <2>1, AccountsStay
<1>2. CASE UNCHANGED offers
  BY <1>1, <1>2 DEF SourcesAttributed, NodeInv
<1>3. CASE Startup
  <2>1. PICK id : offers' = [o \in Seeds |-> [id |-> id[o], available |-> TRUE]]
    <3>1. PICK fresh : offers' = [o \in Seeds |-> [id |-> IdOf(o, fresh), available |-> TRUE]]
      BY <1>3 DEF Startup
    <3> DEFINE id == [o \in Seeds |-> IdOf(o, fresh)]
    <3>2. \A o \in Seeds : id[o] = IdOf(o, fresh)
      OBVIOUS
    <3> HIDE DEF id
    <3> QED BY <3>1, <3>2
  <2>2. \A o \in Seeds : accounts'[o.request.account] = o.request.participant
    BY <1>3, StartedAccounts DEF NodeInv
  <2> QED BY <2>1, <2>2 DEF SourcesAttributed
<1>4. CASE Scenario
  <2>1. \A o \in Seeds : offers[o].id # 0
    BY <1>4 DEF Scenario
  <2>2. \A o \in Seeds : Source(o) => accounts'[o.request.account] = o.request.participant
    BY <1>1, <2>1 DEF NodeInv, SourcesAttributed
  <2>3. DOMAIN offers' = Seeds
    BY <1>4 DEF Scenario
  <2> QED BY <2>2, <2>3 DEF SourcesAttributed
<1>5. ASSUME NEW o \in Edges, NEW i \in DOMAIN authorizations, UpsertEdge(o, i)
      PROVE  SourcesAttributed' /\ DOMAIN offers' = Seeds
  <2>1. \A x \in Seeds : Source(x) => offers'[x] = offers[x]
    BY <1>5 DEF UpsertEdge, Edges, NodeInv
  <2> QED BY <1>1, <1>5, <2>1 DEF SourcesAttributed, NodeInv, UpsertEdge
<1>6. ASSUME NEW o \in Edges, NEW available \in BOOLEAN, SetAvailability(o, available)
      PROVE  SourcesAttributed' /\ DOMAIN offers' = Seeds
  <2>1. \A x \in Seeds : Source(x) => offers'[x] = offers[x]
    BY <1>6 DEF SetAvailability, Edges, NodeInv
  <2> QED BY <1>1, <1>6, <2>1 DEF SourcesAttributed, NodeInv, SetAvailability
<1> QED BY <1>2, <1>3, <1>4, <1>5, <1>6 DEF NodeStep, NodeNext, nodeVars

LEMMA NodeInitInv ==
  ASSUME NodeInit, now = 0
  PROVE  NodeInv
<1>1. (CHOOSE f \in Facts : TRUE) \in Facts
  BY PolicyAssumption
<1>2. NoCredential \in Credential
  BY DEF NoCredential, Credential
<1> QED BY <1>1, <1>2 DEF NodeInit, PolicyInit, NodeInv, PolicyTypeOK, AllDeserved, SourcesAttributed

LEMMA NodeNextInv ==
  ASSUME NodeInv, [NodeStep]_<<nodeVars, now>>
  PROVE  NodeInv'
<1>1. Lawful /\ now' \in Nat
  BY StepLawful
<1>2. AllDeserved' /\ PolicyTypeOK'
  BY <1>1, LawfulKeeps DEF NodeInv, Lawful
<1> QED BY <1>1, <1>2, StaysAttributed DEF NodeInv

(* What policy decided is what it would decide now: a row whose epoch,     *)
(* policy and expiry hold was granted for facts that have not changed.     *)
THEOREM PolicyInvariant == NodeSpec => []NodeInv
BY NodeInitInv, NodeNextInv, PTL DEF NodeSpec, NodeStep

LEMMA ValidFollows ==
  ASSUME NodeInv, NEW i \in DOMAIN authorizations, VerifyAuthorization(i)
  PROVE  Eligible(authorizations[i].request)
<1>1. PICK grant \in Authorization : grant = authorizations[i]
  BY DEF NodeInv, PolicyTypeOK
<1>2. UpToPolicy(grant) /\ SamePolicy(grant) /\ Deserved(grant)
  BY <1>1 DEF VerifyAuthorization, NodeInv, AllDeserved
<1>3. policy \in Policies /\ grant.request.participant \in Participants
  BY RowParts DEF NodeInv, PolicyTypeOK
<1>4. Standing(policy, grant.request, grant.expiresAt)
  BY <1>2, <1>3 DEF UpToPolicy, SamePolicy, Deserved
<1>5. /\ grant.expiresAt > now /\ grant.expiresAt \in Nat /\ now \in Nat
      /\ participants[grant.request.participant].facts.status = "ACTIVE"
      /\ participants[grant.request.participant].facts \in Facts
  BY <1>2, <1>3, RowParts DEF UpToPolicy, NodeInv, PolicyTypeOK
<1>6. \A t \in RequiredOf(grant.request.participant) :
        Passed(credentials[grant.request.participant][t])
  <2>1. RequiredOf(grant.request.participant) \subseteq CredentialTypes
    BY <1>3, <1>5, PolicyTypeParts DEF RequiredOf
  <2>2. \A t \in CredentialTypes : credentials[grant.request.participant][t].expiresAt \in Nat
    BY <1>3 DEF NodeInv, PolicyTypeOK, Credential
  <2>3. ASSUME NEW t \in RequiredOf(grant.request.participant)
        PROVE  Passed(credentials[grant.request.participant][t])
    <3>1. /\ credentials[grant.request.participant][t].status = "PASSED"
          /\ credentials[grant.request.participant][t].expiresAt >= grant.expiresAt
      BY <1>4, <2>3 DEF Standing, RequiredOf
    <3>2. credentials[grant.request.participant][t].expiresAt > now
      BY <1>5, <2>1, <2>2, <2>3, <3>1
    <3> QED BY <3>1, <3>2 DEF Passed
  <2> QED BY <2>3
<1>7. Eligible(grant.request)
  BY <1>4, <1>5, <1>6 DEF Standing, Eligible, Known
<1> QED BY <1>1, <1>7

LEMMA OfferedFollows ==
  ASSUME NodeInv, NEW o \in Seeds, Active(o)
  PROVE  Eligible([o.request EXCEPT !.account = IF Source(o) THEN @ ELSE None])
<1> DEFINE i == offers[o].id
<1>1. i \in DOMAIN authorizations /\ VerifyAuthorization(i)
  BY DEF Active, MarketVerifies, SettlementVerifies, EdgeVerifies, VerifyAuthorization
<1>2. PICK grant \in Authorization : grant = authorizations[i]
  BY <1>1 DEF NodeInv, PolicyTypeOK
<1>3. Eligible(grant.request) /\ grant.request.participant \in Participants /\ grant.request.amount \in Nat
  BY <1>1, <1>2, ValidFollows, RowParts
<1>4. /\ grant.request.corridor = o.request.corridor /\ o.request.amount <= grant.request.amount
      /\ Source(o) => grant.request.account = o.request.account
      /\ ~Source(o) => grant.request.participant = o.request.participant
  BY <1>2 DEF Active, MarketVerifies, SettlementVerifies, EdgeVerifies
<1>5. o.request \in Request /\ o.request.account # None /\ o.request.amount \in Nat
  BY SeedParts, PolicyAssumption DEF Configured, Request
<1>6. o.request.participant = grant.request.participant
  <2>1. CASE ~Source(o)
    BY <1>4, <2>1
  <2>2. CASE Source(o)
    <3>1. i # 0
      BY <1>1 DEF NodeInv, PolicyTypeOK
    <3>2. accounts[o.request.account] = o.request.participant
      BY <2>2, <3>1 DEF NodeInv, SourcesAttributed
    <3> QED BY <1>3, <1>4, <1>5, <2>2, <3>2 DEF Eligible
  <2> QED BY <2>1, <2>2
<1>7. policy \in Policies /\ policy.ticket[participants[grant.request.participant].facts.type] \in Nat
  BY <1>3, PolicyAssumption DEF NodeInv, PolicyTypeOK
<1> DEFINE asked == [o.request EXCEPT !.account = IF Source(o) THEN @ ELSE None]
<1>8. /\ asked.participant = o.request.participant /\ asked.corridor = o.request.corridor
      /\ asked.amount = o.request.amount
      /\ asked.account = IF Source(o) THEN o.request.account ELSE None
  BY <1>5 DEF Request
<1> HIDE DEF asked
<1>9. Eligible(asked)
  <2>1. asked.amount <= policy.ticket[participants[grant.request.participant].facts.type]
    BY <1>3, <1>4, <1>5, <1>7, <1>8 DEF Eligible
  <2>2. asked.account # None => accounts[asked.account] = asked.participant
    BY <1>3, <1>4, <1>5, <1>6, <1>8 DEF Eligible
  <2> QED BY <1>3, <1>4, <1>6, <1>8, <2>1, <2>2 DEF Eligible
<1> QED BY <1>9 DEF asked

(* An authorization that lost its force never has it again.                *)
LEMMA NotRevived ==
  ASSUME NodeInv, [NodeStep]_<<nodeVars, now>>, NEW i \in DOMAIN authorizations,
         UpToPolicy(authorizations[i])'
  PROVE  UpToPolicy(authorizations[i])
<1>1. Lawful /\ now' \in Nat /\ now' >= now /\ now \in Nat
  BY StepLawful DEF NodeInv
<1>2. PICK grant \in Authorization : grant = authorizations[i]
  BY DEF NodeInv, PolicyTypeOK
<1>3. PICK next \in Authorization : next = authorizations'[i] /\ SameRow(grant, next)
  BY <1>1, <1>2 DEF Lawful, RowsKept, PolicyTypeOK
<1> DEFINE p == grant.request.participant
<1>4. /\ p \in Participants /\ grant.epoch \in Nat /\ grant.expiresAt \in Nat
      /\ participants[p].epoch \in Nat /\ participants'[p].epoch \in Nat
  BY <1>1, RowParts DEF NodeInv, PolicyTypeOK, Lawful
<1>5. /\ ~next.revoked /\ next.expiresAt > now'
      /\ participants'[p].facts.status = "ACTIVE" /\ participants'[p].epoch = next.epoch
  BY <1>3 DEF UpToPolicy, SameRow
<1>6. grant.epoch <= participants[p].epoch /\ participants[p].epoch <= participants'[p].epoch
  BY <1>1, <1>2, <1>4 DEF NodeInv, AllDeserved, Deserved, Lawful, FactsKept
<1>7. participants[p].epoch = grant.epoch /\ participants'[p].epoch = participants[p].epoch
  BY <1>3, <1>4, <1>5, <1>6 DEF SameRow
<1>8. participants'[p].facts = participants[p].facts
  BY <1>1, <1>4, <1>7 DEF Lawful, FactsKept
<1>9. grant.expiresAt > now /\ ~grant.revoked
  BY <1>1, <1>3, <1>4, <1>5 DEF SameRow
<1> QED BY <1>2, <1>5, <1>7, <1>8, <1>9 DEF UpToPolicy

(* What verifies would be granted now, and what is offered may be: the     *)
(* epoch, the version and the expiry are enough (fx-policy                 *)
(* policy-engine.js, reference-runtime.js).                                *)
THEOREM PolicyAlwaysHolds == NodeSpec => []PolicyHolds
<1>1. ASSUME NodeInv PROVE PolicyHolds
  BY <1>1, ValidFollows, OfferedFollows DEF PolicyHolds, ValidIsDeserved, OnlyEligibleOffered
<1> QED BY <1>1, PolicyInvariant, PTL

(* What ended stays ended: an authorization that lost its force, and a     *)
(* fiat intent (policy-engine.js, settlement-store.js).                    *)
THEOREM EndedStaysEnded == NodeSpec /\ FiatSpec => FinalStaysFinal
<1>1. ASSUME NodeInv, [NodeStep]_<<nodeVars, now>>
      PROVE  [\A i \in DOMAIN authorizations :
                UpToPolicy(authorizations[i])' => UpToPolicy(authorizations[i])]_policyVars
  BY <1>1, NotRevived
<1>2. NodeSpec => NeverRevived
  BY <1>1, PolicyInvariant, PTL DEF NodeSpec, NodeStep, NeverRevived
<1> QED BY <1>2, LegNeverTakenBack, PTL DEF FinalStaysFinal

-----------------------------------------------------------------------------
(* The simulator. What the report counts is what the sources gave, since a *)
(* plan that covers a request takes all of it and no more.                 *)
LEMMA MaxOfTwo ==
  ASSUME NEW a \in Int, NEW b \in Int
  PROVE  Max({a, b}) = IF a >= b THEN a ELSE b
<1>1. CASE a >= b
  BY <1>1 DEF Max
<1>2. CASE ~(a >= b)
  BY <1>2 DEF Max
<1> QED BY <1>1, <1>2

LEMMA MinOfTwo ==
  ASSUME NEW a \in Int, NEW b \in Int
  PROVE  Min({a, b}) = IF a <= b THEN a ELSE b
<1>1. CASE a <= b
  BY <1>1 DEF Min
<1>2. CASE ~(a <= b)
  BY <1>2 DEF Min
<1> QED BY <1>1, <1>2

Sliced == DOMAIN SimSources

LEMMA SourcesInOrder ==
  /\ Len(SimSources) \in Nat /\ Sliced = 1 .. Len(SimSources) /\ IsFiniteSet(Sliced)
  /\ \A n \in Sliced : SimSources[n].type \in SimTypes /\ SimSources[n].size \in Nat
<1>1. SimSources \in Seq(Range(SimSources))
  BY SimulatorAssumption
<1>2. Len(SimSources) \in Nat /\ Sliced = 1 .. Len(SimSources)
  BY <1>1 DEF Sliced
<1>3. IsFiniteSet(Sliced)
  <2>1. 1 \in Int /\ Len(SimSources) \in Int
    BY <1>2
  <2> QED BY <1>2, <2>1, FS_Interval
<1>4. \A n \in Sliced : SimSources[n] \in Range(SimSources)
  BY DEF Sliced, Range
<1> QED BY <1>2, <1>3, <1>4, SimulatorAssumption

LEMMA SliceIsNatural ==
  ASSUME exposure \in Int, NEW n \in Sliced, NEW buys \in BOOLEAN
  PROVE  OfferedBy(SimSources[n], buys) \in Nat
<1>1. PICK s : s = SimSources[n]
  OBVIOUS
<1>2. s.size \in Nat
  BY <1>1, SourcesInOrder
<1>3. HardLimit \in Nat /\ StormLeaves \in Nat
  BY SimulatorAssumption
<1>4. PICK room \in Int : room = PrincipalRoom(buys)
  BY <1>3 DEF PrincipalRoom
<1>5. PICK spare \in Nat : spare = Max({0, room})
  BY <1>4, MaxOfTwo
<1>6. Min({s.size, spare}) \in Nat
  BY <1>2, MinOfTwo
<1>7. Min({s.size, StormLeaves}) \in Nat
  BY <1>2, <1>3, MinOfTwo
<1>8. OfferedBy(s, buys) \in {0, s.size, Min({s.size, spare}), Min({s.size, StormLeaves})}
  BY <1>4, <1>5 DEF OfferedBy
<1> QED BY <1>1, <1>2, <1>6, <1>7, <1>8

TakesInTurn(R, L, n, amount, taken) ==
  /\ IsFiniteSet(L) /\ InOrder(R, L) /\ n \in Nat /\ \A d \in L : amount[d] \in Nat
  /\ \A d \in L :
       taken[d] = Gives(n - SumFunctionOnSet(amount, {x \in L : <<x, d>> \in R}), amount[d])

LEMMA TakenInTurn ==
  ASSUME NEW R, NEW L, NEW n, NEW amount, NEW taken, TakesInTurn(R, L, n, amount, taken)
  PROVE  /\ \A d \in L : taken[d] \in Nat /\ taken[d] <= amount[d]
         /\ n <= SumFunctionOnSet(amount, L) => SumFunctionOnSet(taken, L) = n
<1>1. /\ IsFiniteSet(L) /\ InOrder(R, L) /\ n \in Nat /\ \A d \in L : amount[d] \in Nat
      /\ \A d \in L :
           taken[d] = Gives(n - SumFunctionOnSet(amount, {x \in L : <<x, d>> \in R}), amount[d])
  BY DEF TakesInTurn
<1> QED BY <1>1, TakenInOrder

(* A covered request is taken whole.                                       *)
LEMMA FillsAreWhole ==
  ASSUME exposure \in Int, NEW amount \in Nat, NEW buys \in BOOLEAN,
         NEW fill, fill = [n \in Sliced |-> FillOf(n, amount, buys)]
  PROVE  /\ \A n \in Sliced : fill[n] \in Nat
         /\ Coverable(amount, buys) => SumFunctionOnSet(fill, Sliced) = amount
<1>1. PICK offer : offer = SimSlices(buys)
  OBVIOUS
<1>2. \A n \in Sliced : offer[n] = OfferedBy(SimSources[n], buys) /\ offer[n] \in Nat
  BY <1>1, SliceIsNatural DEF SimSlices, Sliced
<1>3. PICK R : R = {p \in Sliced \X Sliced : p[1] < p[2]}
  OBVIOUS
<1>4. InOrder(R, Sliced)
  BY <1>3, SourcesInOrder DEF InOrder
<1>5. ASSUME NEW d \in Sliced
      PROVE  fill[d] = Gives(amount - SumFunctionOnSet(offer, {x \in Sliced : <<x, d>> \in R}), offer[d])
  <2>1. d \in Int /\ \A x \in Sliced : x \in Int
    BY SourcesInOrder
  <2>2. {x \in Sliced : <<x, d>> \in R} = 1 .. (d - 1)
    BY <1>3, <2>1, SourcesInOrder
  <2>3. PICK before : before = TakenBefore(d, buys)
    OBVIOUS
  <2>4. before = SumFunctionOnSet(offer, 1 .. (d - 1))
    BY <1>1, <2>3 DEF TakenBefore
  <2>5. 1 .. (d - 1) \in SUBSET Sliced
    BY <2>1, SourcesInOrder
  <2>6. IsFiniteSet(1 .. (d - 1)) /\ \A x \in 1 .. (d - 1) : offer[x] \in Int
    BY <1>2, <2>5, SourcesInOrder, FS_Subset
  <2>7. before \in Int
    BY <2>4, <2>6, SumIsInteger
  <2>8. PICK lacking \in Int : lacking = amount - before
    BY <2>7
  <2>9. PICK given \in Int : given = Min({offer[d], lacking})
    BY <1>2, <2>8, MinOfTwo
  <2>10. given = IF offer[d] <= lacking THEN offer[d] ELSE lacking
    BY <1>2, <2>8, <2>9, MinOfTwo
  <2>11. Max({0, given}) = IF 0 >= given THEN 0 ELSE given
    BY MaxOfTwo
  <2>12. fill[d] = Max({0, given})
    BY <1>2, <2>3, <2>8, <2>9 DEF FillOf
  <2>13. Max({0, given}) = Gives(lacking, offer[d])
    BY <1>2, <2>10, <2>11 DEF Gives
  <2> QED BY <2>2, <2>4, <2>8, <2>12, <2>13
<1>6. /\ \A d \in Sliced : fill[d] \in Nat /\ fill[d] <= offer[d]
      /\ amount <= SumFunctionOnSet(offer, Sliced) => SumFunctionOnSet(fill, Sliced) = amount
  <2>1. IsFiniteSet(Sliced) /\ \A d \in Sliced : offer[d] \in Nat
    BY <1>2, SourcesInOrder
  <2>2. TakesInTurn(R, Sliced, amount, offer, fill)
    BY <1>4, <1>5, <2>1 DEF TakesInTurn
  <2> QED BY <2>2, TakenInTurn
<1>7. TakenBefore(Len(SimSources) + 1, buys) = SumFunctionOnSet(offer, Sliced)
  <2>1. 1 .. (Len(SimSources) + 1 - 1) = Sliced
    BY SourcesInOrder
  <2> QED BY <1>1, <2>1 DEF TakenBefore
<1>8. SumFunctionOnSet(offer, Sliced) \in Int
  BY <1>2, SourcesInOrder, SumIsInteger
<1> QED BY <1>6, <1>7, <1>8 DEF Coverable

LEMMA SumOfThree ==
  ASSUME NEW f, NEW a, NEW b, NEW c, a # b, a # c, b # c,
         f[a] \in Nat, f[b] \in Nat, f[c] \in Nat
  PROVE  SumFunctionOnSet(f, {a, b, c}) = f[a] + f[b] + f[c]
<1>1. IsFiniteSet({a, b, c}) /\ IsFiniteSet({b, c}) /\ IsFiniteSet({c})
  <2>1. IsFiniteSet({} \cup {c})
    BY FS_EmptySet, FS_AddElement
  <2>2. {} \cup {c} = {c} /\ {c} \cup {b} = {b, c} /\ {b, c} \cup {a} = {a, b, c}
    OBVIOUS
  <2>3. IsFiniteSet({c} \cup {b})
    BY <2>1, <2>2, FS_AddElement
  <2>4. IsFiniteSet({b, c} \cup {a})
    BY <2>2, <2>3, FS_AddElement
  <2> QED BY <2>1, <2>2, <2>3, <2>4
<1>2. {a, b, c} \ {a} = {b, c} /\ {b, c} \ {b} = {c} /\ {c} \ {c} = {}
  OBVIOUS
<1>3. SumFunctionOnSet(f, {a, b, c}) = f[a] + SumFunctionOnSet(f, {b, c})
  <2>1. \A x \in {a, b, c} : f[x] \in Int
    OBVIOUS
  <2> QED BY <1>1, <1>2, <2>1, SumRemove
<1>4. SumFunctionOnSet(f, {b, c}) = f[b] + SumFunctionOnSet(f, {c})
  <2>1. \A x \in {b, c} : f[x] \in Int
    OBVIOUS
  <2> QED BY <1>1, <1>2, <2>1, SumRemove
<1>5. SumFunctionOnSet(f, {c}) = f[c] + SumFunctionOnSet(f, {})
  <2>1. \A x \in {c} : f[x] \in Int
    OBVIOUS
  <2> QED BY <1>1, <1>2, <2>1, SumRemove
<1>6. SumFunctionOnSet(f, {}) = 0
  BY SumEmpty
<1> QED BY <1>3, <1>4, <1>5, <1>6

(* What the types gave is what the sources gave.                           *)
LEMMA FilledByTypes ==
  ASSUME exposure \in Int, NEW amount \in Nat, NEW buys \in BOOLEAN, Coverable(amount, buys),
         NEW took, took = [t \in SimTypes |-> FilledBy(t, amount, buys)]
  PROVE  (\A t \in SimTypes : took[t] \in Nat) /\ SumFunctionOnSet(took, SimTypes) = amount
<1>1. PICK fill : fill = [n \in Sliced |-> FillOf(n, amount, buys)]
  OBVIOUS
<1>2. (\A n \in Sliced : fill[n] \in Nat) /\ SumFunctionOnSet(fill, Sliced) = amount
  BY <1>1, FillsAreWhole
<1> DEFINE ByType(t) == {n \in Sliced : SimSources[n].type = t}
<1>3. \A t \in SimTypes : took[t] = SumFunctionOnSet(fill, ByType(t))
  BY <1>1 DEF FilledBy, Sliced
<1>4. ASSUME NEW P \in SUBSET Sliced
      PROVE  IsFiniteSet(P) /\ SumFunctionOnSet(fill, P) \in Nat
  <2>1. IsFiniteSet(P)
    BY SourcesInOrder, FS_Subset
  <2> QED BY <1>2, <2>1, SumIsNatural
<1>5. \A t \in SimTypes : took[t] \in Nat
  BY <1>3, <1>4
<1>6. PICK a, b, c : a = "PRIVATE_MARKET" /\ b = "BANK_PRINCIPAL" /\ c = "ISSUER"
  OBVIOUS
<1>7. SimTypes = {a, b, c} /\ a # b /\ a # c /\ b # c
  BY <1>6 DEF SimTypes
<1>8. PICK A, B, C : A = ByType(a) /\ B = ByType(b) /\ C = ByType(c)
  OBVIOUS
<1>9. A \in SUBSET Sliced /\ B \in SUBSET (Sliced \ A) /\ C = (Sliced \ A) \ B /\ Sliced \ A \in SUBSET Sliced
  BY <1>7, <1>8, SourcesInOrder
<1>10. SumFunctionOnSet(fill, Sliced) = SumFunctionOnSet(fill, A) + SumFunctionOnSet(fill, Sliced \ A)
  <2>1. IsFiniteSet(Sliced) /\ \A n \in Sliced : fill[n] \in Int
    BY <1>2, SourcesInOrder
  <2> QED BY <1>9, <2>1, SumSplit
<1>11. SumFunctionOnSet(fill, Sliced \ A) = SumFunctionOnSet(fill, B) + SumFunctionOnSet(fill, C)
  <2>1. IsFiniteSet(Sliced \ A) /\ \A n \in Sliced \ A : fill[n] \in Int
    BY <1>2, <1>4, <1>9
  <2> QED BY <1>9, <2>1, SumSplit
<1>12. amount = took[a] + took[b] + took[c]
  <2>1. took[a] = SumFunctionOnSet(fill, A) /\ took[b] = SumFunctionOnSet(fill, B) /\ took[c] = SumFunctionOnSet(fill, C)
    BY <1>3, <1>7, <1>8
  <2>2. took[a] \in Nat /\ took[b] \in Nat /\ took[c] \in Nat
    BY <1>5, <1>7
  <2> QED BY <1>2, <1>10, <1>11, <2>1, <2>2
<1> HIDE DEF ByType
<1>13. SumFunctionOnSet(took, SimTypes) = took[a] + took[b] + took[c]
  BY <1>5, <1>7, SumOfThree
<1> QED BY <1>5, <1>12, <1>13

SimReports == [count : [Counters -> Nat], by : [SimTypes -> Nat], start : Int]
SimInv ==
  /\ simStep \in Nat /\ exposure \in Int /\ peak \in Nat /\ report \in SimReports
  /\ SimulationAddsUp

LEMMA ThreeTypes == IsFiniteSet(SimTypes)
<1>1. PICK a, b, c : a = "PRIVATE_MARKET" /\ b = "BANK_PRINCIPAL" /\ c = "ISSUER"
  OBVIOUS
<1>2. IsFiniteSet({} \cup {a})
  BY FS_EmptySet, FS_AddElement
<1>3. IsFiniteSet(({} \cup {a}) \cup {b})
  BY <1>2, FS_AddElement
<1>4. IsFiniteSet((({} \cup {a}) \cup {b}) \cup {c})
  BY <1>3, FS_AddElement
<1>5. SimTypes = (({} \cup {a}) \cup {b}) \cup {c}
  BY <1>1 DEF SimTypes
<1> QED BY <1>4, <1>5

(* A request is counted once, and for what became of it.                   *)
OnceMore(count, why, amount) ==
  /\ count \in [Counters -> Nat]
  /\ count["requested"] = simStep + 1
  /\ count["filled"] + count["risk"] + count["none"] + count["failed"] = simStep + 1
  /\ count["outage"] <= simStep + 1
  /\ count["volume"] = report.count["volume"] + IF why = "filled" THEN amount ELSE 0

LEMMA CountsAddUp ==
  ASSUME SimInv, NEW why \in {"filled", "risk", "none", "failed"}, NEW amount \in Nat,
         NEW outage \in BOOLEAN, NEW count, count = CountedIn({"requested", why}, amount, outage)
  PROVE  OnceMore(count, why, amount)
<1>1. PICK old \in [Counters -> Nat] : old = report.count
  BY DEF SimInv, SimReports
<1>2. count = [c \in Counters |->
        old[c] + (IF c \in {"requested", why} THEN 1 ELSE 0)
          + (IF c = "volume" /\ "filled" \in {"requested", why} THEN amount ELSE 0)
          + (IF c = "outage" /\ outage THEN 1 ELSE 0)]
  BY <1>1 DEF CountedIn
<1>3. /\ old["requested"] = simStep
      /\ old["filled"] + old["risk"] + old["none"] + old["failed"] = simStep
      /\ old["outage"] <= simStep /\ simStep \in Nat
  BY <1>1 DEF SimInv, SimulationAddsUp
<1>4. \A c \in Counters : old[c] \in Nat
  BY <1>1
<1>5. /\ count["requested"] = old["requested"] + 1
      /\ count["volume"] = old["volume"] + IF why = "filled" THEN amount ELSE 0
      /\ count["outage"] = old["outage"] + IF outage THEN 1 ELSE 0
  BY <1>2, <1>4 DEF Counters
<1>6. \A c \in {"filled", "risk", "none", "failed"} :
        count[c] = old[c] + IF c = why THEN 1 ELSE 0
  BY <1>2, <1>4 DEF Counters
<1>7. PICK f, k, n, x : /\ f = old["filled"] /\ k = old["risk"] /\ n = old["none"] /\ x = old["failed"]
                        /\ f \in Nat /\ k \in Nat /\ n \in Nat /\ x \in Nat
  BY <1>4 DEF Counters
<1>8. count["filled"] + count["risk"] + count["none"] + count["failed"] = f + k + n + x + 1
  <2>1. CASE why = "filled"
    BY <1>6, <1>7, <2>1
  <2>2. CASE why = "risk"
    BY <1>6, <1>7, <2>2
  <2>3. CASE why = "none"
    BY <1>6, <1>7, <2>3
  <2>4. CASE why = "failed"
    BY <1>6, <1>7, <2>4
  <2> QED BY <2>1, <2>2, <2>3, <2>4
<1>9. \A c \in Counters : count[c] \in Nat
  BY <1>2, <1>4
<1>10. count \in [Counters -> Nat]
  BY <1>2, <1>9
<1>11. count["outage"] <= simStep + 1
  <2>1. old["outage"] \in Nat
    BY <1>4 DEF Counters
  <2> QED BY <1>3, <1>5, <2>1
<1> QED BY <1>1, <1>3, <1>5, <1>7, <1>8, <1>10, <1>11 DEF OnceMore

LEMMA SimStarts ==
  ASSUME SimInit
  PROVE  SimInv
<1>1. exposure \in Int /\ HardLimit \in Nat /\ -HardLimit <= exposure /\ exposure <= HardLimit
  BY SimulatorAssumption DEF SimInit
<1>2. peak = Absolute(exposure) /\ peak \in Nat /\ peak <= HardLimit
  BY <1>1 DEF SimInit, Absolute
<1>3. PICK count, by : /\ count = [c \in Counters |-> 0] /\ by = [t \in SimTypes |-> 0]
                       /\ report = [count |-> count, by |-> by, start |-> exposure]
  BY DEF SimInit
<1>4. report.count = count /\ report.by = by /\ report.start = exposure
  BY <1>3
<1>5. report \in SimReports
  BY <1>1, <1>3 DEF SimReports
<1>6. /\ count["requested"] = 0 /\ count["filled"] = 0 /\ count["risk"] = 0 /\ count["none"] = 0
      /\ count["failed"] = 0 /\ count["volume"] = 0 /\ count["outage"] = 0
  BY <1>3 DEF Counters
<1>7. SumFunctionOnSet(by, SimTypes) = 0 /\ by["BANK_PRINCIPAL"] = 0
  <2>1. IsFiniteSet(SimTypes)
    BY ThreeTypes
  <2>2. \A t \in SimTypes : by[t] = 0
    BY <1>3
  <2>3. "BANK_PRINCIPAL" \in SimTypes
    BY DEF SimTypes
  <2> QED BY <2>1, <2>2, <2>3, SumZero
<1>8. Absolute(exposure - exposure) = 0
  BY <1>1 DEF Absolute
<1>9. simStep = 0
  BY DEF SimInit
<1>10. SimulationAddsUp
  <2>1. count["filled"] + count["risk"] + count["none"] + count["failed"] = simStep
    BY <1>6, <1>9
  <2> QED BY <1>2, <1>4, <1>6, <1>7, <1>8, <1>9, <2>1 DEF SimulationAddsUp
<1> QED BY <1>1, <1>2, <1>5, <1>9, <1>10 DEF SimInv

(* A request that is not filled changes nothing but the counts.            *)
LEMMA RejectsKeeps ==
  ASSUME SimInv, NEW amount \in Nat, NEW buys, NEW why \in {"risk", "none", "failed"},
         Rejects(amount, buys, why), simStep' = simStep + 1
  PROVE  SimInv'
<1>1. PICK outage \in BOOLEAN : outage = ~world.reference
  OBVIOUS
<1>2. PICK count : count = CountedIn({"requested", why}, amount, outage)
  OBVIOUS
<1>3. /\ count \in [Counters -> Nat]
      /\ count["requested"] = simStep + 1
      /\ count["filled"] + count["risk"] + count["none"] + count["failed"] = simStep + 1
      /\ count["outage"] <= simStep + 1
      /\ count["volume"] = report.count["volume"] + IF why = "filled" THEN amount ELSE 0
  <2>1. why \in {"filled", "risk", "none", "failed"}
    OBVIOUS
  <2>2. OnceMore(count, why, amount)
    BY <1>2, <2>1, CountsAddUp
  <2> QED BY <2>2 DEF OnceMore
<1>4. PICK old \in SimReports : old = report
  BY DEF SimInv
<1>5. report' = [old EXCEPT !.count = count] /\ exposure' = exposure /\ peak' = peak
  BY <1>1, <1>2, <1>4 DEF Rejects
<1>6. /\ report' \in SimReports
      /\ report'.count = count /\ report'.by = old.by /\ report'.start = old.start
  BY <1>3, <1>5 DEF SimReports
<1>7. count["volume"] = report.count["volume"]
  <2>1. report.count["volume"] \in Nat
    BY <1>4 DEF SimReports, Counters
  <2> QED BY <1>3, <2>1
<1>8. SimulationAddsUp'
  BY <1>3, <1>4, <1>5, <1>6, <1>7 DEF SimInv, SimulationAddsUp
<1>9. simStep' \in Nat
  BY DEF SimInv
<1> QED BY <1>5, <1>6, <1>8, <1>9 DEF SimInv

LEMMA SettleKeeps ==
  ASSUME SimInv, NEW amount \in Nat, NEW buys \in BOOLEAN, Coverable(amount, buys),
         SettleFill(amount, buys), simStep' = simStep + 1
  PROVE  SimInv'
<1>1. PICK took : took = [t \in SimTypes |-> FilledBy(t, amount, buys)]
  OBVIOUS
<1>2. (\A t \in SimTypes : took[t] \in Nat) /\ SumFunctionOnSet(took, SimTypes) = amount
  BY <1>1, FilledByTypes DEF SimInv
<1>3. PICK bank \in Nat : bank = took["BANK_PRINCIPAL"] /\ bank = FilledBy("BANK_PRINCIPAL", amount, buys)
  BY <1>1, <1>2 DEF SimTypes
<1>4. PICK next \in Int : next = IF buys THEN exposure - bank ELSE exposure + bank
  <2>1. PICK x \in Int : x = exposure
    BY DEF SimInv
  <2>2. x - bank \in Int /\ x + bank \in Int
    BY <1>3, <2>1
  <2> QED BY <2>1, <2>2
<1>5. CASE ~WithinHardLimit(next)
  BY <1>3, <1>4, <1>5, RejectsKeeps DEF SettleFill
<1>6. CASE world.congested /\ Rejects(amount, buys, "failed")
  BY <1>6, RejectsKeeps
<1>7. ASSUME WithinHardLimit(next), exposure' = next, peak' = Max({peak, Absolute(next)}),
             report' = [report EXCEPT
               !.count = CountedIn({"requested", "filled"}, amount, ~world.reference),
               !.by = [t \in SimTypes |-> report.by[t] + FilledBy(t, amount, buys)]]
      PROVE  SimInv'
  <2>1. PICK outage \in BOOLEAN : outage = ~world.reference
    OBVIOUS
  <2>2. PICK count : count = CountedIn({"requested", "filled"}, amount, outage)
    OBVIOUS
  <2>3. /\ count \in [Counters -> Nat]
        /\ count["requested"] = simStep + 1
        /\ count["filled"] + count["risk"] + count["none"] + count["failed"] = simStep + 1
        /\ count["outage"] <= simStep + 1
        /\ count["volume"] = report.count["volume"] + amount
    <3>1. PICK why \in {"filled", "risk", "none", "failed"} : why = "filled"
      OBVIOUS
    <3>2. count = CountedIn({"requested", why}, amount, outage)
      BY <2>2, <3>1
    <3>3. OnceMore(count, why, amount)
      BY <3>2, CountsAddUp
    <3> QED BY <3>1, <3>3 DEF OnceMore
  <2>4. PICK old \in SimReports : old = report
    BY DEF SimInv
  <2>5. PICK by : by = [t \in SimTypes |-> old.by[t] + took[t]]
    OBVIOUS
  <2>6. by = [t \in SimTypes |-> report.by[t] + FilledBy(t, amount, buys)]
    BY <1>1, <2>4, <2>5
  <2>7. report' = [old EXCEPT !.count = count, !.by = by]
    BY <1>7, <2>1, <2>2, <2>4, <2>6
  <2>8. old.by \in [SimTypes -> Nat] /\ old.start \in Int /\ old.count \in [Counters -> Nat]
    BY <2>4 DEF SimReports
  <2>9. by \in [SimTypes -> Nat]
    BY <1>2, <2>5, <2>8
  <2>10. /\ report' \in SimReports
         /\ report'.count = count /\ report'.by = by /\ report'.start = old.start
    BY <2>3, <2>7, <2>9 DEF SimReports
  <2>11. SumFunctionOnSet(by, SimTypes) = SumFunctionOnSet(old.by, SimTypes) + amount
    <3>1. PICK f : f = old.by
      OBVIOUS
    <3>2. \A t \in SimTypes : f[t] \in Int /\ took[t] \in Int /\ by[t] = f[t] + took[t]
      BY <1>2, <2>5, <2>8, <3>1
    <3>3. SumFunctionOnSet(by, SimTypes) = SumFunctionOnSet(f, SimTypes) + SumFunctionOnSet(took, SimTypes)
      BY <3>2, ThreeTypes, SumPlus
    <3> QED BY <1>2, <3>1, <3>3
  <2>12. count["volume"] = SumFunctionOnSet(by, SimTypes)
    BY <2>3, <2>4, <2>11 DEF SimInv, SimulationAddsUp
  <2>13. PICK far \in Nat : far = Absolute(next) /\ far <= HardLimit
    BY <1>7 DEF Absolute, WithinHardLimit
  <2>14. peak' = IF peak >= far THEN peak ELSE far
    BY <1>7, <2>13, MaxOfTwo DEF SimInv
  <2>15. peak' \in Nat /\ far <= peak' /\ peak' <= HardLimit
    BY <2>13, <2>14 DEF SimInv, SimulationAddsUp
  <2>16. Absolute(next - old.start) <= by["BANK_PRINCIPAL"]
    <3>1. PICK had \in Nat : had = old.by["BANK_PRINCIPAL"]
      BY <2>8 DEF SimTypes
    <3>2. by["BANK_PRINCIPAL"] = had + bank
      BY <1>3, <2>5, <3>1 DEF SimTypes
    <3>3. PICK start \in Int : start = old.start
      BY <2>8
    <3>4. Absolute(exposure - start) <= had
      BY <2>4, <3>1, <3>3 DEF SimInv, SimulationAddsUp
    <3>5. exposure \in Int
      BY DEF SimInv
    <3>6. Absolute(next - start) <= had + bank
      BY <1>4, <3>4, <3>5 DEF Absolute
    <3> QED BY <3>2, <3>3, <3>6
  <2>17. SimulationAddsUp'
    BY <1>7, <2>3, <2>10, <2>12, <2>13, <2>15, <2>16 DEF SimulationAddsUp
  <2>18. simStep' \in Nat /\ exposure' \in Int
    BY <1>7 DEF SimInv
  <2> QED BY <2>10, <2>15, <2>17, <2>18 DEF SimInv
<1> QED BY <1>3, <1>4, <1>5, <1>6, <1>7 DEF SettleFill

LEMMA SimRequestKeeps ==
  ASSUME SimInv, NEW amount \in SimOrders, NEW buys \in BOOLEAN, SimRequest(amount, buys)
  PROVE  SimInv'
<1>1. amount \in Nat /\ simStep' = simStep + 1
  BY SimulatorAssumption DEF SimRequest
<1>2. CASE Coverable(amount, buys)
  <2>1. SettleFill(amount, buys)
    BY <1>2 DEF SimRequest
  <2> QED BY <1>1, <1>2, <2>1, SettleKeeps
<1>3. CASE ~Coverable(amount, buys)
  <2>1. PICK why : /\ why \in {"risk", "none", "failed"}
                   /\ Rejects(amount, buys, why)
    BY <1>3 DEF SimRequest
  <2> QED BY <1>1, <2>1, RejectsKeeps
<1> QED BY <1>2, <1>3

(* The inductive invariant of the simulator.                               *)
THEOREM SimulationInvariant == SimSpec => []SimInv
<1>1. SimInit => SimInv
  BY SimStarts
<1>2. SimInv /\ [SimNext]_simVars => SimInv'
  <2> SUFFICES ASSUME SimInv, [SimNext]_simVars PROVE SimInv'
    OBVIOUS
  <2>1. ASSUME UNCHANGED <<simStep, exposure, peak, report>> PROVE SimInv'
    BY <2>1 DEF SimInv, SimulationAddsUp
  <2>2. CASE ApplyEvent
    BY <2>1, <2>2 DEF ApplyEvent
  <2>3. CASE \E amount \in SimOrders, buys \in BOOLEAN : SimRequest(amount, buys)
    BY <2>3, SimRequestKeeps
  <2>4. CASE UNCHANGED simVars
    BY <2>1, <2>4 DEF simVars
  <2> QED BY <2>2, <2>3, <2>4 DEF SimNext
<1> QED BY <1>1, <1>2, PTL DEF SimSpec

(* What the report of a simulation counts is what happened in it, and the  *)
(* bank never stands beyond its limit (simulator.js runSimulation).        *)
THEOREM ReportAddsUp == SimSpec => []SimulationAddsUp
<1>1. SimInv => SimulationAddsUp
  BY DEF SimInv
<1> QED BY <1>1, SimulationInvariant, PTL

-----------------------------------------------------------------------------
(* The public reference trade. What a scenario did to the sources stays    *)
(* done until the next one: trades only take from a desk and add to what   *)
(* the bank has settled.                                                   *)
ScenarioKept ==
  /\ scenario = "lp_offline" => ~desk["lp"].online
  /\ scenario = "issuer_policy_blocked" => desk["issuer"].revoked
  /\ scenario = "treasury_near_limit" => desk["treasury"].max <= NearlyEmpty
  /\ scenario = "principal_limit" => settled.out >= AtRiskLimit
  /\ scenario = "reference_outage" => ~feed
PublicInv == now \in Nat /\ PublicTypeOK /\ ScenarioKept

PublicStates == {"none", "RESERVED", "SUBMITTED", "HALF_SUBMITTED", "CONFIRMED", "FAILED",
                 "RELEASED", "EXPIRED", "lost"}
TradeRows == [state : PublicStates, take : [Sources -> Nat], got : SUBSET Sources, until : Nat]
DeskRows == [max : Nat, online : BOOLEAN, until : Nat, revoked : BOOLEAN]

LEMMA PublicRows ==
  ASSUME PublicTypeOK
  PROVE  /\ desk \in [Desks -> DeskRows] /\ publicTrade \in [PublicTrades -> TradeRows]
         /\ settled \in [in : Nat, out : Nat]
BY DEF PublicTypeOK, DeskRows, TradeRows, PublicStates

LEMMA SourcesAreFinite == IsFiniteSet(Sources)
<1>1. IsFiniteSet((Desks \cup {"market"}) \cup {"bank"})
  <2>1. IsFiniteSet(Desks \cup {"market"})
    BY CorridorAssumption, FS_AddElement
  <2> QED BY <2>1, FS_AddElement
<1>2. Sources = (Desks \cup {"market"}) \cup {"bank"}
  BY DEF Sources
<1> QED BY <1>1, <1>2

LEMMA HeldIsNatural ==
  ASSUME PublicTypeOK, NEW s \in Sources
  PROVE  HeldOf(s) \in Nat
<1>1. PICK f, T : /\ f = [t \in PublicTrades |-> publicTrade[t].take[s]]
                  /\ T = {t \in PublicTrades : s \in publicTrade[t].got}
  OBVIOUS
<1>2. IsFiniteSet(T)
  BY <1>1, CorridorAssumption, FS_Subset
<1>3. \A t \in T : f[t] \in Nat
  <2> SUFFICES ASSUME NEW t \in T PROVE f[t] \in Nat
    OBVIOUS
  <2>1. PICK old \in TradeRows : old = publicTrade[t]
    BY <1>1, PublicRows
  <2>2. old.take \in [Sources -> Nat]
    BY <2>1 DEF TradeRows
  <2> QED BY <1>1, <2>1, <2>2
<1> QED BY <1>1, <1>2, <1>3, SumIsNatural DEF HeldOf

LEMMA SpareIsNatural ==
  ASSUME PublicTypeOK, NEW d \in Desks
  PROVE  Spare(d) \in Nat /\ Spare(d) <= desk[d].max
<1>1. PICK held \in Nat : held = HeldOf(d)
  BY HeldIsNatural DEF Sources
<1>2. PICK max \in Nat : max = desk[d].max
  BY PublicRows DEF DeskRows
<1> QED BY <1>1, <1>2 DEF Spare

LEMMA HeadroomIsNatural ==
  ASSUME PublicTypeOK, NEW side \in {"in", "out"}
  PROVE  /\ Headroom(side) \in Nat
         /\ side = "out" /\ settled.out >= AtRiskLimit => Headroom(side) <= RiskLimit - AtRiskLimit
<1>1. PICK held \in Nat : held = HeldOf("bank")
  BY HeldIsNatural DEF Sources
<1>2. PICK base \in Nat : base = settled[side]
  BY PublicRows
<1>3. PICK unit \in Nat : unit = IF side = "in" THEN PerUnit ELSE 1
  BY CorridorAssumption
<1>4. PICK more \in Nat : more = held * unit
  BY <1>1, <1>3
<1>5. Projected(side) = base + more
  BY <1>1, <1>2, <1>3, <1>4 DEF Projected
<1>6. RiskLimit \in Nat /\ AtRiskLimit \in Nat /\ AtRiskLimit <= RiskLimit
  BY CorridorAssumption
<1>7. Headroom(side) = IF RiskLimit > base + more THEN RiskLimit - (base + more) ELSE 0
  BY <1>5 DEF Headroom
<1>8. side = "out" => base = settled.out
  BY <1>2
<1> QED BY <1>6, <1>7, <1>8

LEMMA OfferedIsNatural ==
  ASSUME PublicTypeOK, NEW s \in Sources, NEW n \in Nat
  PROVE  Offered(s, n) \in Nat
<1>1. CASE s = "market"
  BY <1>1, PublicAssumption DEF Offered, OpenDepth
<1>2. CASE s = "bank"
  BY <1>2 DEF Offered
<1>3. CASE s \in Desks
  <2>1. s # "market" /\ s # "bank"
    BY <1>3, CorridorAssumption
  <2> QED BY <1>3, <2>1, SpareIsNatural DEF Offered
<1> QED BY <1>1, <1>2, <1>3 DEF Sources

(* A plan takes a natural number from every source.                        *)
LEMMA PlanIsNatural ==
  ASSUME PublicTypeOK, NEW take \in Plans
  PROVE  take \in [Sources -> Nat]
<1>1. PICK n \in Nat : take = TakeOf(n)
  BY PublicAssumption DEF Plans
<1>2. PICK offer : offer = [r \in Sources |-> Offered(r, n)]
  OBVIOUS
<1>3. \A r \in Sources : offer[r] = Offered(r, n) /\ offer[r] \in Nat
  BY <1>2, OfferedIsNatural
<1>4. ASSUME NEW s \in Sources PROVE take[s] \in Nat
  <2>1. IsFiniteSet(Cheaper(s)) /\ Cheaper(s) \in SUBSET Sources
    BY SourcesAreFinite, FS_Subset DEF Cheaper
  <2>2. PICK before \in Nat : before = SumFunctionOnSet(offer, Cheaper(s))
    BY <1>3, <2>1, SumIsNatural
  <2>3. take[s] = IF before >= n THEN 0 ELSE Min({offer[s], n - before})
    BY <1>1, <1>2, <1>3, <2>2 DEF TakeOf
  <2>4. ASSUME ~(before >= n) PROVE Min({offer[s], n - before}) \in Nat
    <3>1. PICK rest \in Nat : rest = n - before
      BY <2>4
    <3>2. Min({offer[s], rest}) \in Nat
      BY <1>3, MinOfTwo
    <3> QED BY <3>1, <3>2
  <2> QED BY <2>3, <2>4
<1>5. take = [s \in Sources |-> take[s]]
  BY <1>1 DEF TakeOf
<1> QED BY <1>4, <1>5

LEMMA ToldApart ==
  ASSUME NEW e \in BOOLEAN, NEW n, NEW told, told = [eligible |-> e, amount |-> n]
  PROVE  (told.eligible <=> e) /\ told.amount = n
OBVIOUS

(* Anybody is told what is offered.                                        *)
LEMMA ToldIsOffered ==
  ASSUME PublicTypeOK, NEW s \in Sources, NEW n \in Orders
  PROVE  ToldWhatIsOffered(s, n)
<1>1. n \in Nat /\ n > 0 /\ PerUnit \in Nat /\ PerUnit > 0
  BY PublicAssumption, CorridorAssumption
<1>2. CASE s = "market"
  <2>1. "market" # "bank"
    OBVIOUS
  <2>2. OpenDepth \in Nat
    BY PublicAssumption DEF OpenDepth
  <2>3. PICK e \in BOOLEAN : e <=> OpenDepth > 0
    OBVIOUS
  <2>4. Told(s) = [eligible |-> e, amount |-> OpenDepth] /\ Offered(s, n) = OpenDepth
    BY <1>2, <2>3 DEF Told, Offered
  <2>5. (Told(s).eligible <=> e) /\ Told(s).amount = OpenDepth
    BY <2>4, ToldApart
  <2>6. Offered(s, n) = IF Told(s).eligible THEN Told(s).amount ELSE 0
    BY <2>2, <2>3, <2>4, <2>5
  <2> QED BY <1>2, <2>1, <2>6 DEF ToldWhatIsOffered
<1>3. CASE s = "bank"
  <2>1. PICK into, out \in Nat : into = Headroom("in") /\ out = Headroom("out")
    BY HeadroomIsNatural
  <2>2. n * PerUnit <= into => into > 0
    BY <1>1, <2>1
  <2>3. PICK e \in BOOLEAN : e <=> Priced /\ bankUntil > now /\ into > 0
    OBVIOUS
  <2>4. Told(s) = [eligible |-> e, amount |-> out]
    BY <1>3, <2>1, <2>3 DEF Told
  <2>5. Offered(s, n) = IF /\ Priced /\ bankUntil > now /\ n * PerUnit <= into /\ n <= out
                        THEN n ELSE 0
    BY <1>3, <2>1 DEF Offered
  <2>6. (Told(s).eligible <=> e) /\ Told(s).amount = out
    BY <2>4, ToldApart
  <2>7. Offered(s, n) > 0 => Told(s).eligible /\ n <= Told(s).amount
    BY <2>2, <2>3, <2>5, <2>6
  <2> QED BY <1>3, <2>7 DEF ToldWhatIsOffered
<1>4. CASE s \in Desks
  <2>1. s # "market" /\ s # "bank"
    BY <1>4, CorridorAssumption
  <2>2. PICK spare \in Nat : spare = Spare(s)
    BY <1>4, SpareIsNatural
  <2>3. PICK e \in BOOLEAN : e <=> DeskEligible(s)
    OBVIOUS
  <2>4. Told(s) = [eligible |-> DeskEligible(s), amount |-> Spare(s)]
    BY <2>1 DEF Told
  <2>5. (desk[s].online /\ Granted(s) => Offered(s, n) = spare)
        /\ (~(desk[s].online /\ Granted(s)) => Offered(s, n) = 0)
    BY <2>1, <2>2 DEF Offered
  <2>6. (Told(s).eligible <=> e) /\ Told(s).amount = spare
    <3>1. DeskEligible(s) = e
      BY <2>3 DEF DeskEligible
    <3>2. Told(s) = [eligible |-> e, amount |-> spare]
      BY <2>2, <2>4, <3>1
    <3> QED BY <3>2, ToldApart
  <2>7. e <=> desk[s].online /\ Granted(s) /\ spare > 0
    BY <2>2, <2>3 DEF DeskEligible
  <2>8. Offered(s, n) = IF Told(s).eligible THEN Told(s).amount ELSE 0
    <3>1. CASE e
      BY <2>5, <2>6, <2>7, <3>1
    <3>2. CASE ~e
      BY <2>2, <2>5, <2>6, <2>7, <3>2
    <3> QED BY <3>1, <3>2
  <2> QED BY <2>1, <2>8 DEF ToldWhatIsOffered
<1> QED BY <1>2, <1>3, <1>4 DEF Sources

(* What a scenario did is seen by whoever asks.                            *)
LEMMA ScenarioIsSeen ==
  ASSUME PublicInv
  PROVE  ScenarioHolds
<1>1. PublicTypeOK /\ ScenarioKept /\ {"issuer", "lp", "treasury"} \subseteq Desks
  BY CorridorAssumption DEF PublicInv
<1>2. CASE scenario = "lp_offline"
  <2>1. ~Told("lp").eligible
    BY <1>1, <1>2 DEF ScenarioKept, Told, DeskEligible
  <2> QED BY <1>2, <2>1 DEF ScenarioHolds
<1>3. CASE scenario = "issuer_policy_blocked"
  <2>1. ~Told("issuer").eligible
    BY <1>1, <1>3 DEF ScenarioKept, Told, DeskEligible, Granted
  <2> QED BY <1>3, <2>1 DEF ScenarioHolds
<1>4. CASE scenario = "treasury_near_limit"
  <2>1. PICK max \in Nat : max = desk["treasury"].max /\ max <= NearlyEmpty
    BY <1>1, <1>4, PublicRows DEF ScenarioKept, DeskRows
  <2>2. PICK spare \in Nat : spare = Spare("treasury") /\ spare <= max
    BY <1>1, <2>1, SpareIsNatural
  <2>3. NearlyEmpty \in Nat
    BY CorridorAssumption
  <2>4. spare <= NearlyEmpty
    BY <2>1, <2>2, <2>3
  <2>5. Told("treasury").amount = spare
    BY <2>2 DEF Told
  <2> QED BY <1>4, <2>4, <2>5 DEF ScenarioHolds
<1>5. CASE scenario = "principal_limit"
  <2>1. settled.out >= AtRiskLimit
    BY <1>1, <1>5 DEF ScenarioKept
  <2>2. Headroom("out") <= RiskLimit - AtRiskLimit
    BY <1>1, <2>1, HeadroomIsNatural
  <2> QED BY <1>5, <2>2 DEF ScenarioHolds
<1>6. CASE scenario = "reference_outage"
  <2>1. \A n \in Orders : Offered("bank", n) = 0
    BY <1>1, <1>6 DEF ScenarioKept, Offered, Priced
  <2> QED BY <1>6, <2>1 DEF ScenarioHolds
<1> QED BY <1>1, <1>2, <1>3, <1>4, <1>5, <1>6 DEF ScenarioHolds

LEMMA RestoredIsTyped ==
  ASSUME now \in Nat, NEW size \in [Desks -> Nat]
  PROVE  Restored(size) \in [Desks -> DeskRows]
<1>1. \A d \in Desks : now + Grant[d] \in Nat
  BY CorridorAssumption DEF Sources
<1> QED BY <1>1 DEF Restored, DeskRows

LEMMA SweptIsTyped ==
  ASSUME PublicTypeOK
  PROVE  Swept \in [PublicTrades -> TradeRows]
<1> SUFFICES ASSUME NEW t \in PublicTrades PROVE Swept[t] \in TradeRows
  BY DEF Swept
<1>1. PICK old \in TradeRows : old = publicTrade[t]
  BY PublicRows
<1>2. [old EXCEPT !.state = "EXPIRED", !.got = {}] \in TradeRows
  BY DEF TradeRows, PublicStates
<1>3. Swept[t] \in {old, [old EXCEPT !.state = "EXPIRED", !.got = {}]}
  BY <1>1 DEF Swept
<1> QED BY <1>2, <1>3

LEMMA TradeIsTyped ==
  ASSUME now \in Nat, NEW take \in [Sources -> Nat], NEW legs \in SUBSET Sources,
         NEW state \in PublicStates
  PROVE  TradeOf(take, legs, state) \in TradeRows
BY CorridorAssumption DEF TradeOf, TradeRows

PublicRowsTyped ==
  /\ desk \in [Desks -> DeskRows] /\ publicTrade \in [PublicTrades -> TradeRows]
  /\ settled \in [in : Nat, out : Nat]
OrderRows == [state : {"none", "OPEN", "FILLED", "POLICY_BLOCKED"}, until : Nat]

LEMMA PublicTyped ==
  PublicTypeOK <=> /\ PublicRowsTyped /\ order \in OrderRows
                   /\ feed \in BOOLEAN /\ scenario \in Scenarios /\ bankUntil \in Nat
BY DEF PublicTypeOK, PublicRowsTyped, DeskRows, TradeRows, PublicStates, OrderRows

LEMMA PublicTypedNext ==
  PublicTypeOK' <=> /\ PublicRowsTyped' /\ order' \in OrderRows
                    /\ feed' \in BOOLEAN /\ scenario' \in Scenarios /\ bankUntil' \in Nat
BY DEF PublicTypeOK, PublicRowsTyped, DeskRows, TradeRows, PublicStates, OrderRows

LEMMA LookedIsTyped ==
  ASSUME PublicTypeOK
  PROVE  Looked \in OrderRows /\ [order EXCEPT !.state = "POLICY_BLOCKED"] \in OrderRows
         /\ [order EXCEPT !.state = "FILLED"] \in OrderRows
<1>1. order \in OrderRows
  BY PublicTyped
<1>2. \A s \in {"POLICY_BLOCKED", "FILLED"} : [order EXCEPT !.state = s] \in OrderRows
  BY <1>1 DEF OrderRows
<1> QED BY <1>1, <1>2 DEF Looked

LEMMA SeededIsTyped ==
  ASSUME now \in Nat
  PROVE  [state |-> "OPEN", until |-> now + Grant["market"]] \in OrderRows
BY CorridorAssumption DEF Sources, OrderRows

LEMMA PublicStarts ==
  ASSUME PublicInit, now = 0
  PROVE  PublicInv
<1>1. now \in Nat
  OBVIOUS
<1>2. desk \in [Desks -> DeskRows]
  BY <1>1, CorridorAssumption, RestoredIsTyped DEF PublicInit
<1>3. order \in OrderRows
  BY <1>1, SeededIsTyped DEF PublicInit
<1>4. publicTrade \in [PublicTrades -> TradeRows]
  BY DEF PublicInit, TradeRows, PublicStates
<1>5. settled \in [in : Nat, out : Nat]
  BY DEF PublicInit
<1>6. bankUntil \in Nat
  BY <1>1, CorridorAssumption DEF PublicInit, Sources
<1>7. feed \in BOOLEAN /\ scenario = "balanced" /\ scenario \in Scenarios
  BY DEF PublicInit, Scenarios
<1>8. PublicTypeOK
  BY <1>2, <1>3, <1>4, <1>5, <1>6, <1>7, PublicTyped DEF PublicRowsTyped
<1>9. ScenarioKept
  BY <1>7 DEF ScenarioKept
<1> QED BY <1>1, <1>8, <1>9 DEF PublicInv

(* A restart puts the sources back as they were.                           *)
LEMMA RestartKeeps ==
  ASSUME PublicInv, Restart, publicTrade' \in [PublicTrades -> TradeRows], now' = now
  PROVE  PublicInv'
<1>1. now \in Nat /\ PublicTypeOK
  BY DEF PublicInv
<1>2. desk' \in [Desks -> DeskRows]
  BY <1>1, CorridorAssumption, RestoredIsTyped DEF Restart
<1>3. order' \in OrderRows
  BY <1>1, PublicTyped, SeededIsTyped DEF Restart
<1>4. settled' \in [in : Nat, out : Nat]
  BY <1>1, PublicRows DEF Restart
<1>5. bankUntil' \in Nat
  BY <1>1, CorridorAssumption DEF Restart, Sources
<1>6. feed' \in BOOLEAN /\ scenario' = "balanced" /\ scenario' \in Scenarios
  BY DEF Restart, Scenarios
<1>7. PublicTypeOK'
  BY <1>2, <1>3, <1>4, <1>5, <1>6, PublicTypedNext DEF PublicRowsTyped
<1>8. ScenarioKept'
  BY <1>6 DEF ScenarioKept
<1> QED BY <1>1, <1>7, <1>8 DEF PublicInv

LEMMA ApplyKeeps ==
  ASSUME PublicInv, NEW id \in Scenarios, Apply(id), now' = now
  PROVE  PublicInv'
<1>1. now \in Nat /\ PublicTypeOK
  BY DEF PublicInv
<1>2. publicTrade' \in [PublicTrades -> TradeRows]
  BY <1>1, SweptIsTyped DEF Apply
<1>3. PICK size : size = [DeskSize EXCEPT !["treasury"] =
                            IF id = "treasury_near_limit" THEN NearlyEmpty ELSE @]
  OBVIOUS
<1>4. /\ size \in [Desks -> Nat]
      /\ id = "treasury_near_limit" => size["treasury"] = NearlyEmpty
  BY <1>3, CorridorAssumption
<1>5. PICK fresh \in [Desks -> DeskRows] : fresh = Restored(size)
  BY <1>1, <1>4, RestoredIsTyped
<1>6. \A d \in Desks :
        desk'[d] = [fresh[d] EXCEPT !.online = ~(d = "lp" /\ id = "lp_offline"),
                                    !.revoked = (d = "issuer" /\ id = "issuer_policy_blocked")]
  BY <1>3, <1>5 DEF Apply, DeskUnder
<1>7. ASSUME NEW d \in Desks
      PROVE  /\ desk'[d] \in DeskRows /\ desk'[d].max = size[d]
             /\ desk'[d].online = ~(d = "lp" /\ id = "lp_offline")
             /\ desk'[d].revoked = (d = "issuer" /\ id = "issuer_policy_blocked")
  <2>1. PICK line \in DeskRows : line = fresh[d] /\ line.max = size[d]
    BY <1>5 DEF Restored
  <2>2. PICK on, gone \in BOOLEAN : /\ on = ~(d = "lp" /\ id = "lp_offline")
                                    /\ gone = (d = "issuer" /\ id = "issuer_policy_blocked")
    OBVIOUS
  <2>3. desk'[d] = [line EXCEPT !.online = on, !.revoked = gone]
    BY <1>6, <2>1, <2>2
  <2>4. desk'[d] \in DeskRows /\ desk'[d].max = line.max /\ desk'[d].online = on /\ desk'[d].revoked = gone
    BY <2>3 DEF DeskRows
  <2> QED BY <2>1, <2>2, <2>4
<1>8. desk' \in [Desks -> DeskRows]
  <2>1. desk' = [d \in Desks |-> desk'[d]]
    BY DEF Apply
  <2> QED BY <1>7, <2>1
<1>9. PICK n \in Nat : n = IF id = "principal_limit" THEN AtRiskLimit ELSE 0
  <2>1. AtRiskLimit \in Nat
    BY CorridorAssumption
  <2> QED BY <2>1
<1>10. settled' \in [in : Nat, out : Nat] /\ settled'.out = n
  <2>1. settled' = [in |-> n, out |-> n]
    BY <1>9 DEF Apply
  <2> QED BY <2>1
<1>11. order' \in OrderRows
  BY <1>1, PublicTyped, LookedIsTyped DEF Apply
<1>12. bankUntil' \in Nat /\ feed' \in BOOLEAN /\ scenario' \in Scenarios
  BY <1>1, PublicTyped DEF Apply
<1>13. PublicTypeOK'
  BY <1>2, <1>8, <1>10, <1>11, <1>12, PublicTypedNext DEF PublicRowsTyped
<1>14. ScenarioKept'
  <2>1. scenario' = id /\ feed' = (id # "reference_outage")
    BY DEF Apply
  <2>2. id = "principal_limit" => settled'.out >= AtRiskLimit
    BY <1>9, <1>10, CorridorAssumption
  <2>3. id = "treasury_near_limit" => desk'["treasury"].max <= NearlyEmpty
    BY <1>4, <1>7, CorridorAssumption
  <2>4. id = "lp_offline" => ~desk'["lp"].online
    BY <1>7, CorridorAssumption
  <2>5. id = "issuer_policy_blocked" => desk'["issuer"].revoked
    BY <1>7, CorridorAssumption
  <2> QED BY <2>1, <2>2, <2>3, <2>4, <2>5 DEF ScenarioKept
<1> QED BY <1>1, <1>13, <1>14 DEF PublicInv

(* A trade that is reserved, released or sent touches no source.           *)
LEMMA SourcesStand ==
  ASSUME PublicInv, UNCHANGED <<desk, settled, bankUntil, feed, scenario>>, now' = now,
         order' \in OrderRows, publicTrade' \in [PublicTrades -> TradeRows]
  PROVE  PublicInv'
<1>1. now \in Nat /\ PublicTypeOK /\ ScenarioKept
  BY DEF PublicInv
<1>2. PublicTypeOK'
  BY <1>1, PublicTyped, PublicTypedNext DEF PublicRowsTyped
<1>3. ScenarioKept'
  BY <1>1 DEF ScenarioKept
<1> QED BY <1>1, <1>2, <1>3 DEF PublicInv

LEMMA EndedIsTyped ==
  ASSUME PublicTypeOK, NEW t \in PublicTrades, NEW state \in PublicStates, Ended(t, state)
  PROVE  publicTrade' \in [PublicTrades -> TradeRows]
<1>1. PICK old \in TradeRows : old = publicTrade[t]
  BY PublicRows
<1>2. [old EXCEPT !.state = state, !.got = {}] \in TradeRows
  BY DEF TradeRows
<1>3. publicTrade' = [publicTrade EXCEPT ![t] = [old EXCEPT !.state = state, !.got = {}]]
  BY <1>1, PublicRows DEF Ended
<1> QED BY <1>2, <1>3, PublicRows

LEMMA LookedKeeps == ASSUME PublicInv, Read, now' = now PROVE PublicInv'
<1>1. PublicTypeOK
  BY DEF PublicInv
<1>2. order' \in OrderRows /\ publicTrade' \in [PublicTrades -> TradeRows]
  BY <1>1, PublicRows, LookedIsTyped DEF Read
<1> QED BY <1>2, SourcesStand DEF Read

LEMMA ReserveKeeps ==
  ASSUME PublicInv, NEW t \in NextTrade, NEW take \in Plans, Reserve(t, take), now' = now
  PROVE  PublicInv'
<1>1. PublicTypeOK /\ now \in Nat /\ t \in PublicTrades
  BY DEF PublicInv, NextTrade
<1>2. take \in [Sources -> Nat]
  BY <1>1, PlanIsNatural
<1>3. PICK line \in TradeRows : line = TradeOf(take, LegsIn(take), "RESERVED")
  <2>1. LegsIn(take) \in SUBSET Sources /\ "RESERVED" \in PublicStates
    BY DEF LegsIn, PublicStates
  <2> QED BY <1>1, <1>2, <2>1, TradeIsTyped
<1>4. publicTrade' \in [PublicTrades -> TradeRows] /\ order' \in OrderRows
  BY <1>1, <1>3, PublicRows, LookedIsTyped DEF Reserve
<1> QED BY <1>4, SourcesStand DEF Reserve

LEMMA DieReservingKeeps ==
  ASSUME PublicInv, NEW t \in NextTrade, NEW take \in Plans, DieReserving(t, take), now' = now
  PROVE  PublicInv'
<1>1. PublicTypeOK /\ now \in Nat /\ t \in PublicTrades
  BY DEF PublicInv, NextTrade
<1>2. take \in [Sources -> Nat]
  BY <1>1, PlanIsNatural
<1>3. PICK legs \in SUBSET Sources :
        publicTrade' = [Swept EXCEPT ![t] = TradeOf(take, legs, "lost")]
  BY DEF DieReserving, LegsIn
<1>4. TradeOf(take, legs, "lost") \in TradeRows
  <2>1. "lost" \in PublicStates
    BY DEF PublicStates
  <2> QED BY <1>1, <1>2, <2>1, TradeIsTyped
<1>5. publicTrade' \in [PublicTrades -> TradeRows]
  BY <1>1, <1>3, <1>4, SweptIsTyped
<1>6. Restart
  BY DEF DieReserving
<1> QED BY <1>5, <1>6, RestartKeeps

LEMMA ReleaseKeeps ==
  ASSUME PublicInv, NEW t \in PublicTrades, Release(t), now' = now
  PROVE  PublicInv'
<1>1. PublicTypeOK /\ "RELEASED" \in PublicStates /\ Ended(t, "RELEASED")
  BY DEF PublicInv, PublicStates, Release
<1>2. publicTrade' \in [PublicTrades -> TradeRows]
  BY <1>1, EndedIsTyped
<1>3. order' \in OrderRows
  BY <1>1, PublicTyped DEF Release
<1> QED BY <1>2, <1>3, SourcesStand DEF Release

LEMMA FailKeeps ==
  ASSUME PublicInv, NEW t \in PublicTrades, Fail(t), now' = now
  PROVE  PublicInv'
<1>1. PICK state \in PublicStates : Ended(t, state)
  BY DEF Fail, PublicStates
<1>2. PublicTypeOK
  BY DEF PublicInv
<1>3. publicTrade' \in [PublicTrades -> TradeRows]
  BY <1>1, <1>2, EndedIsTyped
<1>4. order' \in OrderRows
  BY <1>2, PublicTyped DEF Fail
<1> QED BY <1>3, <1>4, SourcesStand DEF Fail

LEMMA SubmitKeeps ==
  ASSUME PublicInv, NEW t \in PublicTrades, Submit(t), now' = now
  PROVE  PublicInv'
<1>1. PublicTypeOK
  BY DEF PublicInv
<1>2. PICK old \in TradeRows : old = publicTrade[t]
  BY <1>1, PublicRows
<1>3. PICK line \in TradeRows : publicTrade' = [publicTrade EXCEPT ![t] = line]
  <2>1. /\ [old EXCEPT !.state = "HALF_SUBMITTED", !.got = old.got \ {"market"}] \in TradeRows
        /\ [old EXCEPT !.state = "SUBMITTED"] \in TradeRows
    BY DEF TradeRows, PublicStates
  <2>2. \/ publicTrade' = [publicTrade EXCEPT ![t] =
               [old EXCEPT !.state = "HALF_SUBMITTED", !.got = old.got \ {"market"}]]
        \/ publicTrade' = [publicTrade EXCEPT ![t] = [old EXCEPT !.state = "SUBMITTED"]]
    BY <1>1, <1>2, PublicRows DEF Submit
  <2> QED BY <2>1, <2>2
<1>4. publicTrade' \in [PublicTrades -> TradeRows]
  BY <1>1, <1>3, PublicRows
<1>5. order' \in OrderRows
  BY <1>1, PublicTyped, LookedIsTyped DEF Submit
<1> QED BY <1>4, <1>5, SourcesStand DEF Submit

(* A confirmation takes from the desks what they can bear, and adds to     *)
(* what the bank has settled.                                              *)
LEMMA ConfirmKeeps ==
  ASSUME PublicInv, NEW t \in PublicTrades, Confirm(t), now' = now
  PROVE  PublicInv'
<1>1. PublicTypeOK /\ now \in Nat /\ ScenarioKept
  BY DEF PublicInv
<1>2. PICK old \in TradeRows : old = publicTrade[t]
  BY <1>1, PublicRows
<1>3. old.got \in SUBSET Sources /\ old.take \in [Sources -> Nat]
  BY DEF TradeRows
<1>4. PICK done \in SUBSET old.got : done = Done(t)
  BY <1>2 DEF Done
<1>5. publicTrade' \in [PublicTrades -> TradeRows]
  <2>1. PICK state \in PublicStates :
          state = IF Done(t) = publicTrade[t].got THEN "CONFIRMED" ELSE old.state
    BY DEF TradeRows, PublicStates
  <2>2. [old EXCEPT !.got = old.got \ done, !.state = state] \in TradeRows
    BY <1>3 DEF TradeRows
  <2>3. publicTrade' = [publicTrade EXCEPT ![t] = [old EXCEPT !.got = old.got \ done, !.state = state]]
    BY <1>1, <1>2, <1>4, <2>1, PublicRows DEF Confirm
  <2> QED BY <1>1, <2>2, <2>3, PublicRows
<1>6. ASSUME NEW d \in Desks
      PROVE  /\ desk'[d] \in DeskRows /\ desk'[d].max <= desk[d].max
             /\ desk'[d].online = desk[d].online /\ desk'[d].revoked = desk[d].revoked
  <2>1. PICK line \in DeskRows : line = desk[d] /\ line.max \in Nat
    BY <1>1, PublicRows DEF DeskRows
  <2>2. CASE d \in done
    <3>1. d \in Sources /\ d # "market" /\ d # "bank"
      BY CorridorAssumption DEF Sources
    <3>2. PICK n \in Nat : n = old.take[d]
      BY <1>3, <3>1
    <3>3. PriceRank[d] <= PriceRank[d]
      BY <3>1, PublicAssumption
    <3>4. Bears(t, d)
      BY <1>2, <1>4, <2>2, <3>3 DEF Done
    <3>5. line.max >= n
      BY <1>2, <2>1, <3>1, <3>2, <3>4 DEF Bears
    <3>6. PICK max, rest \in Nat : max = line.max /\ rest = max - n /\ rest <= max
      <4>1. PICK max \in Nat : max = line.max /\ max >= n
        BY <2>1, <3>5
      <4>2. PICK rest \in Nat : rest = max - n /\ rest <= max
        BY <4>1
      <4> QED BY <4>1, <4>2
    <3>7. desk'[d] = [line EXCEPT !.max = rest]
      BY <1>2, <1>4, <2>1, <2>2, <3>2, <3>6 DEF Confirm
    <3>8. /\ desk'[d] \in DeskRows /\ desk'[d].max = rest
          /\ desk'[d].online = line.online /\ desk'[d].revoked = line.revoked
      BY <3>7 DEF DeskRows
    <3> QED BY <2>1, <3>6, <3>8
  <2>3. CASE d \notin done
    <3>1. desk'[d] = line
      BY <1>4, <2>1, <2>3 DEF Confirm
    <3> QED BY <2>1, <3>1
  <2> QED BY <2>2, <2>3
<1>7. desk' \in [Desks -> DeskRows]
  <2>1. desk' = [d \in Desks |-> desk'[d]]
    BY DEF Confirm
  <2> QED BY <1>6, <2>1
<1>8. settled' \in [in : Nat, out : Nat] /\ settled'.out >= settled.out
  <2>1. PICK paid \in Nat : paid = PaidByBank(t)
    BY <1>2, <1>3, <1>4 DEF PaidByBank
  <2>2. PICK a, b \in Nat : a = settled.in /\ b = settled.out
    BY <1>1, PublicRows
  <2>3. PICK more \in Nat : more = paid * PerUnit
    BY <2>1, CorridorAssumption
  <2>4. PICK x, y \in Nat : x = a + more /\ y = b + paid
    OBVIOUS
  <2>5. settled' = [in |-> x, out |-> y]
    BY <2>1, <2>2, <2>3, <2>4 DEF Confirm
  <2>6. y >= b
    BY <2>4
  <2> QED BY <2>2, <2>5, <2>6
<1>9. order' \in OrderRows
  BY <1>1, PublicTyped, LookedIsTyped DEF Confirm
<1>10. bankUntil' \in Nat /\ feed' = feed /\ feed' \in BOOLEAN /\ scenario' = scenario /\ scenario' \in Scenarios
  BY <1>1, PublicTyped DEF Confirm
<1>11. PublicTypeOK'
  BY <1>5, <1>7, <1>8, <1>9, <1>10, PublicTypedNext DEF PublicRowsTyped
<1>12. ScenarioKept'
  <2>1. scenario = "principal_limit" => settled'.out >= AtRiskLimit
    <3>1. AtRiskLimit \in Nat
      BY CorridorAssumption
    <3>2. settled.out \in Nat /\ settled'.out \in Nat
      BY <1>1, <1>8, PublicRows
    <3> QED BY <1>1, <1>8, <3>1, <3>2 DEF ScenarioKept
  <2>2. scenario = "treasury_near_limit" => desk'["treasury"].max <= NearlyEmpty
    <3>1. NearlyEmpty \in Nat /\ "treasury" \in Desks
      BY CorridorAssumption
    <3>2. desk["treasury"].max \in Nat /\ desk'["treasury"].max \in Nat
      BY <1>1, <1>7, <3>1, PublicRows DEF DeskRows
    <3>3. desk'["treasury"].max <= desk["treasury"].max
      BY <1>6, <3>1
    <3> QED BY <1>1, <3>1, <3>2, <3>3 DEF ScenarioKept
  <2>3. scenario = "lp_offline" => ~desk'["lp"].online
    BY <1>1, <1>6, CorridorAssumption DEF ScenarioKept
  <2>4. scenario = "issuer_policy_blocked" => desk'["issuer"].revoked
    BY <1>1, <1>6, CorridorAssumption DEF ScenarioKept
  <2> QED BY <1>1, <1>10, <2>1, <2>2, <2>3, <2>4 DEF ScenarioKept
<1> QED BY <1>1, <1>11, <1>12 DEF PublicInv

LEMMA PublicStepKeeps ==
  ASSUME PublicInv, PublicNext, now' = now
  PROVE  PublicInv'
<1>1. CASE Restart /\ publicTrade' = Swept
  <2>1. publicTrade' \in [PublicTrades -> TradeRows]
    BY <1>1, SweptIsTyped DEF PublicInv
  <2> QED BY <1>1, <2>1, RestartKeeps
<1>2. CASE \E t \in NextTrade, take \in Plans : DieReserving(t, take)
  BY <1>2, DieReservingKeeps
<1>3. CASE \E operation \in {"read", "scenario", "trade", "ops"} : Does(operation)
  <2>1. CASE Does("read")
    <3>1. Read
      BY <2>1 DEF Does
    <3> QED BY <3>1, LookedKeeps
  <2>2. CASE Does("scenario")
    <3>1. PICK id \in Scenarios : Apply(id)
      BY <2>2 DEF Does
    <3> QED BY <3>1, ApplyKeeps
  <2>3. CASE Does("trade")
    <3>1. \/ \E t \in NextTrade, take \in Plans : Reserve(t, take)
          \/ \E t \in PublicTrades : Release(t) \/ Submit(t)
      BY <2>3 DEF Does
    <3> QED BY <3>1, ReserveKeeps, ReleaseKeeps, SubmitKeeps
  <2>4. CASE Does("ops")
    <3>1. \E t \in PublicTrades : Confirm(t) \/ Fail(t)
      BY <2>4 DEF Does
    <3> QED BY <3>1, ConfirmKeeps, FailKeeps
  <2> QED BY <1>3, <2>1, <2>2, <2>3, <2>4
<1> QED BY <1>1, <1>2, <1>3 DEF PublicNext, ByAnyone, ByOperator, Public

(* The inductive invariant of the public reference trade.                  *)
THEOREM PublicInvariant == PublicSpec => []PublicInv
<1>1. PublicInit /\ now = 0 => PublicInv
  BY PublicStarts
<1>2. PublicInv /\ [(PublicNext /\ UNCHANGED now) \/ (Tick /\ UNCHANGED publicVars)]_<<publicVars, now>>
        => PublicInv'
  <2> SUFFICES ASSUME PublicInv,
                      [(PublicNext /\ UNCHANGED now) \/ (Tick /\ UNCHANGED publicVars)]_<<publicVars, now>>
               PROVE  PublicInv'
    OBVIOUS
  <2>1. CASE PublicNext /\ UNCHANGED now
    BY <2>1, PublicStepKeeps
  <2>2. ASSUME UNCHANGED publicVars, now' \in Nat PROVE PublicInv'
    BY <2>2 DEF publicVars, PublicInv, PublicTypeOK, ScenarioKept
  <2>3. Tick => now' \in Nat
    BY DEF PublicInv, Tick
  <2>4. now' = now => now' \in Nat
    BY DEF PublicInv
  <2> QED BY <2>1, <2>2, <2>3, <2>4
<1> QED BY <1>1, <1>2, PTL DEF PublicSpec

(* Anybody is told of every source what a trade would find, and what an    *)
(* operator's scenario did holds until the next one or a restart           *)
(* (public-reference-runtime.js sourceStatus, scenario.apply).             *)
THEOREM EverybodyIsToldTheTruth == PublicSpec => []MarketAsTold
<1>1. PublicInv => MarketAsTold
  BY ToldIsOffered, ScenarioIsSeen DEF PublicInv, MarketAsTold
<1> QED BY <1>1, PublicInvariant, PTL

(* A caller without the operator's key changes nothing that is offered,    *)
(* held or owed (server.js, the exact list of public paths).               *)
THEOREM AnonymousIsHarmless == PublicSpec => AnonymousChangesNothing
<1>1. PublicInv /\ [(PublicNext /\ UNCHANGED now) \/ (Tick /\ UNCHANGED publicVars)]_<<publicVars, now>>
        => [ByAnyone => /\ UNCHANGED <<desk, settled, bankUntil, feed, scenario, publicTrade>>
                        /\ OrderStands' = OrderStands]_publicVars
  <2> SUFFICES ASSUME PublicInv, PublicNext, now' = now, ByAnyone
               PROVE  /\ UNCHANGED <<desk, settled, bankUntil, feed, scenario, publicTrade>>
                      /\ OrderStands' = OrderStands
    BY DEF publicVars
  <2>1. Read
    BY DEF ByAnyone, Public, Does
  <2>2. order' = order \/ (~OrderStands /\ order' = [order EXCEPT !.state = "POLICY_BLOCKED"])
    BY <2>1 DEF Read, Looked
  <2>3. OrderStands' <=> OrderStands
    <3>1. CASE order' = order
      <4>1. order'.state = order.state /\ order'.until = order.until
        BY <3>1
      <4> QED BY <4>1 DEF OrderStands
    <3>2. CASE ~OrderStands /\ order' = [order EXCEPT !.state = "POLICY_BLOCKED"]
      <4>1. order'.state # "OPEN"
        BY <3>2, PublicTyped DEF PublicInv, OrderRows
      <4> QED BY <3>2, <4>1 DEF OrderStands
    <3> QED BY <2>2, <3>1, <3>2
  <2>4. OrderStands' \in BOOLEAN /\ OrderStands \in BOOLEAN
    BY DEF OrderStands
  <2> QED BY <2>1, <2>3, <2>4 DEF Read
<1> QED BY <1>1, PublicInvariant, PTL DEF PublicSpec, AnonymousChangesNothing

=============================================================================
